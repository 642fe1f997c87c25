----------------------------- MODULE Conversation -----------------------------
(***************************************************************************)
(* What a conversation keeps across runs, stops and crashes: the           *)
(* checkpoint (continuation.ts), the journal of tool calls and the state   *)
(* of the latest run (store.ts), written by the run (run-controller.ts)    *)
(* and read by a follow-up (ipc.ts).                                       *)
(*                                                                         *)
(* The provider keeps responses: a request names the response it follows   *)
(* and must answer each of its calls (openai.ts).  SQLite statements are   *)
(* durable when they return.  A crash may fall on any await of the run, and *)
(* between the journal's entry of a call and the checkpoint's.             *)
(***************************************************************************)
EXTENDS Naturals

CONSTANTS
  MaxBatch,   (* Bounds: calls of a response,                               *)
  MaxTurns,   (* responses of the provider,                                 *)
  MaxRuns,    (* runs of the conversation,                                  *)
  MaxCrashes

ASSUME Bounds == {MaxBatch, MaxTurns, MaxRuns, MaxCrashes} \subseteq Nat /\ MaxRuns > 0

Turns == 1 .. MaxTurns
Calls == Turns \X (1 .. MaxBatch)

VARIABLES
  at,         (* Where the live run is; "none", or "down" with the daemon.  *)
  row,        (* The state of the latest run in the store.                  *)
  saved,      (* Its checkpoint there: none yet, or one.                    *)
  checkpoint, (* this.checkpoint of the live run.                           *)
  request,    (* What the live run asks of the provider.                    *)
  results,    (* The results of the present batch,                          *)
  todo,       (* and its calls not yet looked at.                           *)
  tool,       (* The journal: tool_calls.status.                            *)
  calls,      (* How many calls each response made, as the provider knows.     *)
  happened,   (* The calls that had their effect in the sandbox.            *)
  stopped, runs, turns, crashes

store == <<row, saved, tool>>
run == <<at, checkpoint, request, results, todo, stopped>>
counters == <<runs, turns, crashes>>
vars == <<store, run, calls, happened, counters>>

Blank == [response |-> 0, pending |-> {}, results |-> {}, turns |-> 0]
Checkpoints == [response : 0 .. MaxTurns, pending : SUBSET Calls, results : SUBSET Calls, turns : 0 .. MaxTurns]
Live == at \notin {"none", "down"}

(* A request: what it follows, the calls it answers with their results,    *)
(* and those it answers with "outcome unknown".                            *)
Requests == [kind : {"turn", "compact"}, follows : 0 .. MaxTurns, known : SUBSET Calls, unknown : SUBSET Calls]
Goal == [kind |-> "turn", follows |-> 0, known |-> {}, unknown |-> {}]

TypeOK ==
  /\ at \in {"none", "down", "asking", "batch", "calling", "recording", "closing"}
  /\ row \in {"running", "ended", "interrupted"}
  /\ saved \subseteq Checkpoints /\ \A cp, other \in saved : cp = other
  /\ checkpoint \in Checkpoints
  /\ request \in Requests
  /\ results \subseteq Calls /\ todo \subseteq Calls /\ happened \subseteq Calls
  /\ tool \in [Calls -> {"none", "executing", "done", "denied", "error", "unknown"}]
  /\ calls \in [Turns -> 0 .. MaxBatch]
  /\ stopped \in BOOLEAN
  /\ runs \in 1 .. MaxRuns /\ turns \in 0 .. MaxTurns /\ crashes \in 0 .. MaxCrashes
  /\ Live => saved \subseteq {checkpoint}

Init ==
  /\ at = "asking" /\ row = "running" /\ saved = {}
  /\ checkpoint = Blank /\ request = Goal
  /\ results = {} /\ todo = {} /\ happened = {}
  /\ tool = [c \in Calls |-> "none"]
  /\ calls = [r \in Turns |-> 0]
  /\ stopped = FALSE /\ runs = 1 /\ turns = 0 /\ crashes = 0

CallsOf(r) == {r} \X (1 .. calls[r])

(* The calls of a batch are looked at in order.                            *)
IsNext(c) == c \in todo /\ \A d \in todo : c[2] <= d[2]

(* Mutant: the store gets the checkpoint as it was before the change.      *)
SavesBefore == saved' = {checkpoint}

(* saveCheckpoint, called when this.checkpoint has changed.                *)
Saves == saved' = {checkpoint'}

-----------------------------------------------------------------------------
(* The run.                                                                *)

(* finish(): the row is final; the checkpoint is saved after an await.     *)
Finishes ==
  /\ at' = "closing" /\ row' = "ended"
  /\ request' = Goal /\ results' = {} /\ todo' = {}

Closes ==
  /\ at = "closing"
  /\ at' = "none" /\ stopped' = FALSE
  /\ UNCHANGED checkpoint /\ Saves
  /\ UNCHANGED <<row, tool, request, results, todo, calls, happened, counters>>

(* callModel records a response at once, with the calls it makes.          *)
Noted(made) == [response |-> turns', pending |-> made, results |-> {}, turns |-> checkpoint.turns + 1]

(* A summary's calls are ignored and the next request follows nothing; an  *)
(* answer without calls ends the run.                                      *)
Answered ==
  /\ at = "asking" /\ ~stopped /\ turns < MaxTurns
  /\ turns' = turns + 1
  /\ \E n \in 0 .. MaxBatch :
       LET made == {turns'} \X (1 .. n) IN
       /\ calls' = [calls EXCEPT ![turns'] = n]
       /\ checkpoint' = Noted(made) /\ Saves
       /\ \/ /\ request.kind = "compact"
             /\ request' = Goal /\ UNCHANGED <<at, row, results, todo>>
          \/ request.kind = "turn" /\ n = 0 /\ Finishes
          \/ /\ request.kind = "turn" /\ n > 0
             /\ at' = "batch" /\ todo' = made /\ results' = {}
             /\ request' = Goal /\ UNCHANGED row
  /\ UNCHANGED <<tool, happened, stopped, runs, crashes>>

(* A call planned before the human took control is not looked at, and not  *)
(* in the journal.                                                         *)
Skipped(c) ==
  /\ at = "batch" /\ ~stopped /\ IsNext(c)
  /\ todo' = todo \ {c} /\ results' = results \cup {c}
  /\ UNCHANGED <<store, at, checkpoint, request, calls, happened, stopped, counters>>

(* The row of a call, as beginToolCall() and finishToolCall() write it.    *)
ToolRow(c, s) == tool' = [tool EXCEPT ![c] = s]

(* beginToolCall: the policy denies the call, or it goes to the sandbox.   *)
Begins(c) ==
  /\ at = "batch" /\ ~stopped /\ IsNext(c)
  /\ todo' = todo \ {c}
  /\ \/ at' = "recording" /\ ToolRow(c, "denied")
     \/ at' = "calling" /\ ToolRow(c, "executing")
  /\ UNCHANGED <<row, saved, checkpoint, request, results, calls, happened, stopped, counters>>

(* The sandbox acts, maybe after the daemon gave the call up.              *)
Happens(c) ==
  /\ tool[c] \in {"executing", "error", "unknown"} /\ c \notin happened
  /\ happened' = happened \cup {c}
  /\ UNCHANGED <<store, run, calls, counters>>

(* The call returns, or fails with a result for the model.                 *)
Returns(c) ==
  /\ at = "calling" /\ tool[c] = "executing"
  /\ at' = "recording"
  /\ \/ c \in happened /\ ToolRow(c, "done")
     \/ ~stopped /\ ToolRow(c, "error")
  /\ UNCHANGED <<row, saved, checkpoint, request, results, todo, calls, happened, stopped, counters>>

(* It is cancelled by the stop, or the worker is lost: that ends the run.  *)
Breaks(c) ==
  /\ at = "calling" /\ tool[c] = "executing"
  /\ ToolRow(c, "error")
  /\ Finishes
  /\ UNCHANGED <<saved, checkpoint, calls, happened, stopped, counters>>

(* Its result joins the checkpoint, after a handoff if it asked for one.   *)
Records(c) ==
  /\ at = "recording" /\ c \in checkpoint.pending \ (todo \cup results)
  /\ at' = "batch" /\ results' = results \cup {c}
  /\ checkpoint' = [checkpoint EXCEPT !.results = results'] /\ Saves
  /\ UNCHANGED <<row, tool, request, todo, calls, happened, stopped, counters>>

(* The next request follows the last response and answers its calls; it    *)
(* may ask for a summary of the chain instead of the next turn.            *)
Asks ==
  /\ at = "batch" /\ ~stopped /\ todo = {}
  /\ checkpoint' = [checkpoint EXCEPT !.results = results] /\ Saves
  /\ at' = "asking"
  /\ \E k \in {"turn", "compact"} :
       request' = [kind |-> k, follows |-> checkpoint.response, known |-> results, unknown |-> {}]
  /\ results' = {}
  /\ UNCHANGED <<row, todo, tool, calls, happened, stopped, counters>>

(* Stop; a model request in flight is aborted, a call is waited for.       *)
Stop ==
  /\ at \in {"asking", "batch", "calling", "recording"} /\ ~stopped
  /\ stopped' = TRUE
  /\ UNCHANGED <<store, at, checkpoint, request, results, todo, calls, happened, counters>>

(* A stopped run ends at its next step or in a handoff; a request may also *)
(* fail, and so may a look at the screen, for the policy of the next call  *)
(* or after a handoff.                                                     *)
GivesUp ==
  /\ at \in {"asking", "recording"} \/ (at = "batch" /\ (stopped \/ todo # {}))
  /\ Finishes
  /\ UNCHANGED <<saved, tool, checkpoint, calls, happened, stopped, counters>>

-----------------------------------------------------------------------------
(* The daemon.                                                             *)

(* Mutant: only the calls with a result are answered.                      *)
PendingKnown(cp) == [kind |-> "turn", follows |-> cp.response, known |-> cp.results, unknown |-> {}]

(* Mutant: a call without a result is reported like one that had none.     *)
PendingBlank(cp) == [kind |-> "turn", follows |-> cp.response, known |-> cp.pending, unknown |-> {}]

(* pendingResults: a call without a result may have happened.              *)
Pending(cp) ==
  [kind |-> "turn", follows |-> cp.response,
   known |-> cp.pending \cap cp.results, unknown |-> cp.pending \ cp.results]

(* Mutant: the usage so far is not restored.                               *)
ContinuedAnew == IF saved = {} THEN Blank ELSE [(CHOOSE cp \in saved : TRUE) EXCEPT !.turns = 0]

Continued == IF saved = {} THEN Blank ELSE CHOOSE cp \in saved : TRUE

(* Mutant: the calls without a result are run again.                       *)
FollowupReplays ==
  /\ at = "none" /\ runs < MaxRuns
  /\ runs' = runs + 1
  /\ row' = "running" /\ saved' = {}
  /\ checkpoint' = Continued
  /\ at' = IF checkpoint'.response # 0 THEN "batch" ELSE "asking"
  /\ todo' = checkpoint'.pending \ checkpoint'.results /\ results' = checkpoint'.results
  /\ UNCHANGED <<request, tool, calls, happened, stopped, turns, crashes>>

(* A follow-up continues the latest run; the new run has no checkpoint of  *)
(* its own until its first response.                                       *)
Followup ==
  /\ at = "none" /\ runs < MaxRuns
  /\ runs' = runs + 1
  /\ at' = "asking" /\ row' = "running" /\ saved' = {}
  /\ checkpoint' = Continued
  /\ request' = IF checkpoint'.response # 0 THEN Pending(checkpoint') ELSE Goal
  /\ UNCHANGED <<tool, results, todo, calls, happened, stopped, turns, crashes>>

Crash ==
  /\ at # "down" /\ crashes < MaxCrashes
  /\ crashes' = crashes + 1
  /\ at' = "down" /\ stopped' = FALSE
  /\ checkpoint' = Blank /\ request' = Goal /\ results' = {} /\ todo' = {}
  /\ UNCHANGED <<store, calls, happened, runs, turns>>

(* Mutant: the journal of an interrupted run is left as it was.            *)
MarkRow == row' = (IF row = "running" THEN "interrupted" ELSE row) /\ UNCHANGED tool

(* markInterruptedRuns, in one transaction.                                *)
MarkInterrupted ==
  /\ row' = IF row = "running" THEN "interrupted" ELSE row
  /\ tool' = [c \in Calls |-> IF row = "running" /\ tool[c] = "executing" THEN "unknown" ELSE tool[c]]

Restart ==
  /\ at = "down"
  /\ at' = "none"
  /\ MarkInterrupted
  /\ UNCHANGED <<saved, checkpoint, request, results, todo, calls, happened, stopped, counters>>

-----------------------------------------------------------------------------
Next ==
  \/ Answered \/ Asks \/ Stop \/ GivesUp \/ Closes \/ Followup \/ Crash \/ Restart
  \/ \E c \in Calls :
       Skipped(c) \/ Begins(c) \/ Happens(c) \/ Returns(c) \/ Breaks(c) \/ Records(c)

Spec == Init /\ [][Next]_vars

-----------------------------------------------------------------------------
(* Properties.                                                             *)

(* Every request answers each call of the response it follows, once, or    *)
(* the provider would refuse the conversation for good: after a stop or a  *)
(* crash in the middle of a batch, and after a compaction too.             *)
EveryCallAnswered ==
  (at = "asking" /\ request.follows # 0) =>
    /\ request.known \cap request.unknown = {}
    /\ request.known \cup request.unknown = CallsOf(request.follows)

(* What happened in the sandbox without a result that says so is not kept  *)
(* from the model: when the run of the call broke off or the daemon went   *)
(* down, the follow-up's request says "unknown" of it, whether the effect  *)
(* came before that or comes after.                                        *)
NothingHidden ==
  at = "asking" =>
    \A c \in request.known \cap happened : tool[c] \in {"done", "error"}

(* "do not replay it automatically": a call goes to the sandbox at most    *)
(* once, through every stop, crash and follow-up.                          *)
NeverReplayed ==
  [][\A c \in Calls :
       tool'[c] = "executing" => tool[c] \in {"none", "executing"}]_vars

(* A daemon that is up holds no run or call open that nobody works on.     *)
NothingLeftOpen ==
  at = "none" => row # "running" /\ \A c \in Calls : tool[c] # "executing"

(* A run carries on the count of turns of its conversation, as long as no  *)
(* crash takes it away.                                                    *)
UsageCarriedOn == Live /\ crashes = 0 => checkpoint.turns = turns

(* What a conversation has done is accounted for: every call is answered,  *)
(* with what is known of it, none is left open when the daemon is up, and  *)
(* the turns of earlier runs count.                                        *)
AllAccountedFor ==
  TypeOK /\ EveryCallAnswered /\ NothingHidden /\ NothingLeftOpen /\ UsageCarriedOn

(* Not kept by the code when a follow-up's first turn is cut short by a    *)
(* crash: "Continuation preserves the workspace, provider context, model/  *)
(* effort and accumulated limits", so that every turn is counted.          *)
AccumulatedKept == Live => checkpoint.turns = turns
=============================================================================
