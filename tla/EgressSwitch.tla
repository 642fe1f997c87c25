---------------------------- MODULE EgressSwitch -----------------------------
(***************************************************************************)
(* What the sandbox's network promises its daemon: a switch that serves    *)
(* one session or none.  Requests to turn it are carried out one after the *)
(* other; it is off before it is turned to another session, and off when   *)
(* turning it has failed.  Egress implements it (session-egress.ts).       *)
(***************************************************************************)
EXTENDS Naturals, Sequences

CONSTANTS
  Sessions,  (* Workspaces, by session id.                                  *)
  Calls,     (* Names of the daemon's calls.                                *)
  None       (* No session.                                                 *)

VARIABLES
  chain,    (* SessionEgress.transition: the requests not yet resolved.     *)
  outcome,  (* How each call's request was resolved.                        *)
  served    (* SessionEgress.sessionId, None without a proxy.               *)

switch == <<chain, outcome, served>>

Modes == {"open", "none"}
Link == [sid : Sessions \cup {None}, mode : Modes, call : Calls]
Target(t) == IF t.mode = "open" THEN t.sid ELSE None

SwitchTypeOK ==
  /\ chain \in Seq(Link)
  /\ outcome \in [Calls -> {"none", "ok", "failed"}]
  /\ served \in Sessions \cup {None}

SwitchInit ==
  /\ chain = <<>>
  /\ outcome = [i \in Calls |-> "none"]
  /\ served = None

(* ensure(sid, mode); close() asks for no session.                         *)
Ask(i, s, m) ==
  /\ chain' = Append(chain, [sid |-> s, mode |-> m, call |-> i])
  /\ UNCHANGED <<outcome, served>>

Off ==
  /\ chain # <<>> /\ served # Target(Head(chain))
  /\ served' = None
  /\ UNCHANGED <<chain, outcome>>

Resolve(how) ==
  /\ outcome' = [outcome EXCEPT ![Head(chain).call] = how]
  /\ chain' = Tail(chain)

Turned ==
  /\ chain # <<>> /\ served \in {None, Target(Head(chain))}
  /\ served' = Target(Head(chain))
  /\ Resolve("ok")

(* A session's sockets may not go away, nor come.                          *)
Fails ==
  /\ chain # <<>> /\ served = None /\ Head(chain).sid # None
  /\ Resolve("failed")
  /\ UNCHANGED served

Turns == Off \/ Turned \/ Fails

SwitchNext ==
  \/ \E i \in Calls, s \in Sessions \cup {None}, m \in Modes : Ask(i, s, m)
  \/ Turns
SwitchSpec == SwitchInit /\ [][SwitchNext]_switch
=============================================================================
