---------------------------- MODULE HumanControl ----------------------------
(***************************************************************************)
(* What a run promises the human, whatever happens inside it: the agent    *)
(* touches the sandbox only on a plan made since the human last had, or    *)
(* asked for, control; a request for control is answered only once the     *)
(* agent is at rest; what has ended stays ended.                           *)
(***************************************************************************)
VARIABLES
  phase,  (* What the agent is doing.                                       *)
  plan,   (* Whether its plan is younger than the human's last control.     *)
  asked   (* The human has asked for control and waits for the answer.      *)

vars == <<phase, plan, asked>>

TypeOK ==
  /\ phase \in {"thinking", "acting", "parked", "ended"}
  /\ plan \in {"stale", "fresh"}
  /\ asked \in BOOLEAN

Init == phase = "thinking" /\ plan = "stale" /\ asked = FALSE

(* A new plan is asked of the model; the human may already be waiting.     *)
Plan == phase = "thinking" /\ plan' = "fresh" /\ UNCHANGED <<phase, asked>>

Act ==
  /\ phase = "thinking" /\ plan = "fresh" /\ ~asked
  /\ phase' = "acting"
  /\ UNCHANGED <<plan, asked>>

Rest == phase = "acting" /\ phase' = "thinking" /\ UNCHANGED <<plan, asked>>

(* Control is asked for.  A parked run may be asked too: an open approval  *)
(* card can make it look as if it were running.                            *)
AskControl ==
  /\ phase \in {"thinking", "acting", "parked"} /\ ~asked
  /\ asked' = TRUE /\ plan' = "stale"
  /\ UNCHANGED phase

(* The human has control: every plan made before is stale.                 *)
Yield ==
  /\ phase \in {"thinking", "acting"}
  /\ phase' = "parked" /\ plan' = "stale" /\ asked' = FALSE

TakeBack == phase = "parked" /\ phase' = "thinking" /\ UNCHANGED <<plan, asked>>

End ==
  /\ phase \in {"thinking", "acting"}
  /\ phase' = "ended" /\ asked' = FALSE
  /\ UNCHANGED plan

Next == Plan \/ Act \/ Rest \/ AskControl \/ Yield \/ TakeBack \/ End

Spec == Init /\ [][Next]_vars
=============================================================================
