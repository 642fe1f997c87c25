------------------------- MODULE ConversationProofs -------------------------
(***************************************************************************)
(* TLAPS proofs about the conversation: what the run saves of it           *)
(* (Conversation), for any number of runs, responses, calls and crashes;   *)
(* what the model's adapters keep of it and send on (Provider), for any    *)
(* number of requests, attempts, calls and events; and what the window     *)
(* shows of it (Desktop), for events posted, sent and waiting in any       *)
(* number.                                                                 *)
(***************************************************************************)
EXTENDS Desktop, Provider, FiniteSetTheorems, SequenceTheorems, WellFoundedInduction, TLAPS

Working == at \in {"batch", "calling", "recording"}

(* What a checkpoint knows of the response it continues.                   *)
Sound(cp) ==
  /\ cp.response <= turns /\ cp.turns <= turns
  /\ cp.response = 0 => cp.pending = {}
  /\ cp.response # 0 => cp.pending = CallsOf(cp.response)

(* Calls that will neither be sent nor be in doubt any more.               *)
Settled(S) == \A c \in S : tool[c] \notin {"executing", "unknown"}

Checkpointed ==
  /\ Sound(checkpoint) /\ Settled(checkpoint.results)
  /\ \A cp \in saved : Sound(cp) /\ Settled(cp.results)

(* Only an asking run has a request; it answers what it follows.           *)
Requested ==
  /\ at # "asking" => request = Goal
  /\ request.follows <= turns
  /\ request.known \cap request.unknown = {}
  /\ request.follows = 0 => request.known = {} /\ request.unknown = {}
  /\ request.follows # 0 => request.known \cup request.unknown = CallsOf(request.follows)
  /\ Settled(request.known)

(* The calls of a batch are waiting, in progress or settled.               *)
Batched ==
  /\ ~Working => results = {} /\ todo = {}
  /\ results \cap todo = {} /\ Settled(results)
  /\ checkpoint.results \cap todo = {}
  /\ \A c \in todo : tool[c] = "none"
  /\ results \cup todo \subseteq checkpoint.pending
  /\ Working => checkpoint.response # 0
  /\ at = "batch" => results \cup todo = checkpoint.pending
  /\ at \in {"calling", "recording"} =>
       \E c \in checkpoint.pending \ (todo \cup results) :
         /\ checkpoint.pending = todo \cup results \cup {c}
         /\ c \notin checkpoint.results
         /\ tool[c] \in (IF at = "calling" THEN {"executing"} ELSE {"denied", "done", "error"})

(* The journal: nothing before its response, one call in progress at most. *)
Journalled ==
  /\ \A c \in Calls : c[1] > turns => tool[c] = "none"
  /\ \A c \in happened : tool[c] \notin {"none", "denied"}
  /\ \A c \in Calls : tool[c] = "executing" =>
       \/ at = "calling" /\ c \in checkpoint.pending \ (todo \cup results)
       \/ at = "down" /\ row = "running"

Rows ==
  /\ at = "asking" \/ Working => row = "running"
  /\ at \in {"none", "closing"} => row # "running"

(* Without a crash the latest checkpoint has counted every turn.           *)
Counted ==
  crashes = 0 =>
    /\ at # "down"
    /\ Live => checkpoint.turns = turns
    /\ at = "none" => saved # {} /\ \A cp \in saved : cp.turns = turns

Inv == TypeOK /\ Checkpointed /\ Requested /\ Batched /\ Journalled /\ Rows /\ Counted

-----------------------------------------------------------------------------
LEMMA Starting == Blank \in Checkpoints /\ Goal \in Requests
  BY Bounds DEF Blank, Goal, Checkpoints, Requests

LEMMA InitInv == Init => Inv
  <1> SUFFICES ASSUME Init PROVE Inv
    OBVIOUS
  <1> USE Bounds DEF Init
  <1>1. TypeOK
    <2>1. /\ at = "asking" /\ row = "running" /\ checkpoint \in Checkpoints /\ request \in Requests
          /\ tool \in [Calls -> {"none", "executing", "done", "denied", "error", "unknown"}]
          /\ calls \in [Turns -> 0 .. MaxBatch]
      BY Starting
    <2>2. runs \in 1 .. MaxRuns /\ turns \in 0 .. MaxTurns /\ crashes \in 0 .. MaxCrashes
      OBVIOUS
    <2> QED
      BY <2>1, <2>2 DEF TypeOK
  <1>2. Checkpointed
    BY DEF Checkpointed, Sound, Settled, Blank
  <1>3. Requested
    BY DEF Requested, Settled, Goal
  <1>4. Batched
    BY DEF Batched, Working, Settled, Blank
  <1>5. Journalled /\ Rows /\ Counted
    BY DEF Journalled, Rows, Counted, Live, Working, Blank
  <1> QED
    BY <1>1, <1>2, <1>3, <1>4, <1>5 DEF Inv

LEMMA StepInv == Inv /\ [Next]_vars => Inv'
  <1> SUFFICES ASSUME Inv, [Next]_vars PROVE Inv'
    OBVIOUS
  <1> USE Bounds
     DEF Inv, TypeOK, Live, Checkpoints, Requests, store, run, counters, Goal, Blank
  <1>1. CASE Answered
    <2> USE <1>1 DEF Turns
    <2>0. PICK n \in 0 .. MaxBatch :
            /\ calls' = [calls EXCEPT ![turns'] = n]
            /\ checkpoint' = Noted({turns'} \X (1 .. n))
            /\ \/ request.kind = "compact" /\ request' = Goal /\ UNCHANGED <<at, row, results, todo>>
               \/ request.kind = "turn" /\ n = 0 /\ Finishes
               \/ /\ request.kind = "turn" /\ n > 0
                  /\ at' = "batch" /\ todo' = {turns'} \X (1 .. n) /\ results' = {}
                  /\ request' = Goal /\ UNCHANGED row
      BY DEF Answered
    <2> DEFINE made == {turns'} \X (1 .. n)
    <2>1. /\ at = "asking" /\ turns' = turns + 1 /\ turns' \in Turns /\ saved' = {checkpoint'}
          /\ UNCHANGED <<tool, happened, stopped, runs, crashes>>
      BY DEF Answered, Saves
    <2>2. made \subseteq Calls /\ \A c \in made : c[1] > turns
      BY <2>1, SMTT(30) DEF Calls
    <2>3. /\ checkpoint' \in Checkpoints
          /\ checkpoint'.response = turns' /\ checkpoint'.pending = made
          /\ checkpoint'.results = {} /\ checkpoint'.turns = checkpoint.turns + 1
      BY <2>0, <2>1, <2>2, SMTT(30) DEF Noted, Checkpointed, Sound
    <2>4. calls' \in [Turns -> 0 .. MaxBatch] /\ calls'[turns'] = n
      BY <2>0, <2>1
    <2>5. made = {turns'} \X (1 .. calls'[turns'])
      BY <2>4
    <2> HIDE DEF made
    <2>6. TypeOK'
      BY <2>0, <2>1, <2>2, <2>3, <2>4, Starting DEF Finishes, made
    <2>7. Checkpointed'
      BY <2>1, <2>3, <2>5 DEF Checkpointed, Sound, Settled, CallsOf
    <2>8. Requested'
      BY <2>0, <2>1 DEF Requested, Settled, Finishes
    <2>9. Batched'
      <3>1. \A c \in made : tool[c] = "none"
        BY <2>2 DEF Journalled
      <3>2. results = {} /\ todo = {}
        BY <2>1 DEF Batched, Working
      <3> QED
        <4>1. CASE request.kind = "compact" /\ UNCHANGED <<at, row, results, todo>>
          BY <2>1, <2>3, <3>2, <4>1 DEF Batched, Settled
        <4>2. CASE Finishes
          BY <2>1, <2>3, <4>2 DEF Batched, Settled, Finishes
        <4>3. CASE at' = "batch" /\ todo' = made /\ results' = {}
          BY <2>1, <2>3, <3>1, <4>3 DEF Batched, Working, Settled
        <4> QED
          BY <2>0, <4>1, <4>2, <4>3 DEF made
    <2>10. Journalled'
      <3>1. \A c \in Calls : c[1] \in Nat
        BY DEF Calls
      <3> QED
        BY <2>1, <3>1 DEF Journalled
    <2>11. Rows' /\ Counted'
      BY <2>0, <2>1, <2>3 DEF Rows, Counted, Working, Finishes
    <2> QED
      BY <2>6, <2>7, <2>8, <2>9, <2>10, <2>11
  <1>2. CASE Asks
    <2>1. TypeOK'
      BY <1>2 DEF Asks, Saves
    <2>2. Checkpointed'
      BY <1>2 DEF Asks, Saves, Checkpointed, Sound, Settled, CallsOf, Batched
    <2>3. Requested'
      BY <1>2 DEF Asks, Requested, Settled, CallsOf, Batched, Checkpointed, Sound
    <2>4. Batched'
      BY <1>2 DEF Asks, Batched, Working, Settled
    <2>5. Journalled'
      BY <1>2 DEF Asks, Journalled
    <2>6. Rows'
      BY <1>2 DEF Asks, Rows, Working
    <2>7. Counted'
      BY <1>2 DEF Asks, Counted
    <2> QED
      BY <2>1, <2>2, <2>3, <2>4, <2>5, <2>6, <2>7
  <1>3. CASE Stop
    <2>1. TypeOK'
      BY <1>3 DEF Stop
    <2>2. Checkpointed'
      BY <1>3 DEF Stop, Checkpointed, Sound, Settled, CallsOf
    <2>3. Requested'
      BY <1>3 DEF Stop, Requested, Settled, CallsOf
    <2>4. Batched'
      BY <1>3 DEF Stop, Batched, Working, Settled
    <2>5. Journalled'
      BY <1>3 DEF Stop, Journalled
    <2>6. Rows'
      BY <1>3 DEF Stop, Rows, Working
    <2>7. Counted'
      BY <1>3 DEF Stop, Counted
    <2> QED
      BY <2>1, <2>2, <2>3, <2>4, <2>5, <2>6, <2>7
  <1>4. CASE GivesUp
    <2>1. TypeOK'
      BY <1>4 DEF GivesUp, Finishes
    <2>2. Checkpointed'
      BY <1>4 DEF GivesUp, Checkpointed, Sound, Settled, CallsOf
    <2>3. Requested'
      BY <1>4 DEF GivesUp, Finishes, Requested, Settled
    <2>4. Batched'
      BY <1>4 DEF GivesUp, Finishes, Batched, Working, Settled
    <2>5. Journalled'
      BY <1>4 DEF GivesUp, Journalled
    <2>6. Rows'
      BY <1>4 DEF GivesUp, Finishes, Rows, Working
    <2>7. Counted'
      BY <1>4 DEF GivesUp, Finishes, Counted
    <2> QED
      BY <2>1, <2>2, <2>3, <2>4, <2>5, <2>6, <2>7
  <1>5. CASE Closes
    <2>1. TypeOK'
      BY <1>5 DEF Closes, Saves
    <2>2. Checkpointed'
      BY <1>5 DEF Closes, Saves, Checkpointed, Sound, Settled, CallsOf
    <2>3. Requested'
      BY <1>5 DEF Closes, Requested, Settled
    <2>4. Batched'
      BY <1>5 DEF Closes, Batched, Working, Settled
    <2>5. Journalled'
      BY <1>5 DEF Closes, Journalled
    <2>6. Rows'
      BY <1>5 DEF Closes, Rows, Working
    <2>7. Counted'
      BY <1>5 DEF Closes, Saves, Counted
    <2> QED
      BY <2>1, <2>2, <2>3, <2>4, <2>5, <2>6, <2>7
  <1>6. CASE Followup
    <2>1. TypeOK'
      BY <1>6 DEF Followup, Continued, Pending
    <2>2. Checkpointed'
      BY <1>6 DEF Followup, Continued, Pending, Checkpointed, Sound, Settled, CallsOf
    <2>3. Requested'
      BY <1>6
         DEF Followup, Continued, Pending, Requested, Settled, CallsOf, Checkpointed, Sound
    <2>4. Batched'
      BY <1>6 DEF Followup, Continued, Pending, Batched, Working, Settled
    <2>5. Journalled'
      BY <1>6 DEF Followup, Continued, Pending, Journalled
    <2>6. Rows'
      BY <1>6 DEF Followup, Continued, Pending, Rows
    <2>7. Counted'
      BY <1>6 DEF Followup, Continued, Pending, Counted
    <2> QED
      BY <2>1, <2>2, <2>3, <2>4, <2>5, <2>6, <2>7
  <1>7. CASE Crash
    <2>1. TypeOK'
      <3>1. /\ at' = "down" /\ stopped' = FALSE /\ checkpoint' \in Checkpoints /\ request' \in Requests
            /\ results' = {} /\ todo' = {} /\ crashes' \in 0 .. MaxCrashes
            /\ UNCHANGED <<store, calls, happened, runs, turns>>
        BY <1>7, Starting DEF Crash
      <3> QED
        BY <3>1
    <2>2. Checkpointed'
      BY <1>7 DEF Crash, Checkpointed, Sound, Settled, CallsOf
    <2>3. Requested'
      BY <1>7 DEF Crash, Requested, Settled
    <2>4. Batched'
      BY <1>7 DEF Crash, Batched, Working, Settled
    <2>5. Journalled'
      BY <1>7 DEF Crash, Journalled, Working, Rows
    <2>6. Rows'
      BY <1>7 DEF Crash, Rows, Working
    <2>7. Counted'
      BY <1>7 DEF Crash, Counted
    <2> QED
      BY <2>1, <2>2, <2>3, <2>4, <2>5, <2>6, <2>7
  <1>8. CASE Restart
    <2>1. TypeOK'
      BY <1>8 DEF Restart, MarkInterrupted
    <2>2. Checkpointed'
      BY <1>8 DEF Restart, MarkInterrupted, Checkpointed, Sound, Settled, CallsOf
    <2>3. Requested'
      BY <1>8 DEF Restart, MarkInterrupted, Requested, Settled
    <2>4. Batched'
      BY <1>8 DEF Restart, MarkInterrupted, Batched, Working, Settled
    <2>5. Journalled'
      BY <1>8 DEF Restart, MarkInterrupted, Journalled
    <2>6. Rows'
      BY <1>8 DEF Restart, MarkInterrupted, Rows, Working
    <2>7. Counted'
      BY <1>8 DEF Restart, MarkInterrupted, Counted
    <2> QED
      BY <2>1, <2>2, <2>3, <2>4, <2>5, <2>6, <2>7
  <1>9. ASSUME NEW c \in Calls, Skipped(c) PROVE Inv'
    <2>1. TypeOK'
      BY <1>9 DEF Skipped
    <2>2. Checkpointed'
      BY <1>9 DEF Skipped, Checkpointed, Sound, Settled, CallsOf
    <2>3. Requested'
      BY <1>9 DEF Skipped, Requested, Settled
    <2>4. Batched'
      BY <1>9 DEF Skipped, IsNext, Batched, Working, Settled
    <2>5. Journalled'
      BY <1>9 DEF Skipped, Journalled
    <2>6. Rows'
      BY <1>9 DEF Skipped, Rows, Working
    <2>7. Counted'
      BY <1>9 DEF Skipped, Counted
    <2> QED
      BY <2>1, <2>2, <2>3, <2>4, <2>5, <2>6, <2>7
  <1>10. ASSUME NEW c \in Calls, Begins(c) PROVE Inv'
    <2>0. /\ at = "batch" /\ c \in todo /\ tool[c] = "none"
          /\ c \notin checkpoint.results /\ saved \subseteq {checkpoint}
          /\ \A d \in Calls : d # c => tool'[d] = tool[d]
      BY <1>10 DEF Begins, ToolRow, IsNext, Batched
    <2>1. TypeOK'
      BY <1>10 DEF Begins, ToolRow
    <2>2. Checkpointed'
      BY <1>10, <2>0 DEF Begins, ToolRow, Checkpointed, Sound, Settled, CallsOf
    <2>3. Requested'
      BY <1>10 DEF Begins, ToolRow, Requested, Settled
    <2>4. Batched'
      BY <1>10 DEF Begins, ToolRow, IsNext, Batched, Working, Settled
    <2>5. Journalled'
      <3>1. c \in checkpoint.pending \ results /\ c[1] <= turns
        BY <2>0 DEF Batched, Checkpointed, Sound, CallsOf
      <3>2. \A d \in Calls : tool[d] # "executing"
        BY <2>0 DEF Journalled
      <3>3. tool'[c] \in {"denied", "executing"} /\ (tool'[c] = "executing" => at' = "calling")
        BY <1>10 DEF Begins, ToolRow
      <3>4. happened' = happened /\ turns' = turns /\ at' \in {"recording", "calling"}
            /\ todo' = todo \ {c} /\ UNCHANGED <<checkpoint, results>>
        BY <1>10 DEF Begins, ToolRow
      <3>5. \A d \in Calls : d[1] > turns => tool'[d] = "none"
        <4>1. c[1] \in Nat
          BY DEF Calls, Turns
        <4>2. turns \in Nat /\ ~(c[1] > turns)
          BY <3>1, <4>1
        <4> QED
          BY <2>0, <4>2 DEF Journalled
      <3>6. \A d \in happened : tool'[d] \notin {"none", "denied"}
        BY <2>0 DEF Journalled
      <3>7. \A d \in Calls : tool'[d] = "executing" => d = c
        BY <2>0, <3>2
      <3> QED
        BY <3>1, <3>3, <3>4, <3>5, <3>6, <3>7 DEF Journalled
    <2>6. Rows'
      BY <1>10 DEF Begins, ToolRow, Rows, Working
    <2>7. Counted'
      BY <1>10 DEF Begins, ToolRow, Counted
    <2> QED
      BY <2>1, <2>2, <2>3, <2>4, <2>5, <2>6, <2>7
  <1>11. ASSUME NEW c \in Calls, Happens(c) PROVE Inv'
    <2>1. TypeOK'
      BY <1>11 DEF Happens
    <2>2. Checkpointed'
      BY <1>11 DEF Happens, Checkpointed, Sound, Settled, CallsOf
    <2>3. Requested'
      BY <1>11 DEF Happens, Requested, Settled, CallsOf
    <2>4. Batched'
      BY <1>11 DEF Happens, Batched, Working, Settled
    <2>5. Journalled'
      BY <1>11 DEF Happens, Journalled
    <2>6. Rows'
      BY <1>11 DEF Happens, Rows, Working
    <2>7. Counted'
      BY <1>11 DEF Happens, Counted
    <2> QED
      BY <2>1, <2>2, <2>3, <2>4, <2>5, <2>6, <2>7
  <1>12. ASSUME NEW c \in Calls, Returns(c) PROVE Inv'
    <2>1. TypeOK'
      BY <1>12 DEF Returns, ToolRow
    <2>2. Checkpointed'
      BY <1>12 DEF Returns, ToolRow, Checkpointed, Sound, Settled, CallsOf
    <2>3. Requested'
      BY <1>12 DEF Returns, ToolRow, Requested, Settled
    <2>4. Batched'
      <3>1. /\ at' = "recording" /\ tool'[c] \in {"done", "error"}
            /\ \A d \in Calls : d # c => tool'[d] = tool[d]
            /\ UNCHANGED <<checkpoint, results, todo>>
        BY <1>12 DEF Returns, ToolRow
      <3>2. /\ checkpoint.pending = todo \cup results \cup {c}
            /\ c \notin todo \cup results \cup checkpoint.results
        BY <1>12 DEF Returns, ToolRow, Batched, Journalled
      <3> QED
        BY <1>12, <3>1, <3>2 DEF Returns, ToolRow, Batched, Working, Settled
    <2>5. Journalled'
      BY <1>12 DEF Returns, ToolRow, Journalled, Batched
    <2>6. Rows'
      BY <1>12 DEF Returns, ToolRow, Rows, Working
    <2>7. Counted'
      BY <1>12 DEF Returns, ToolRow, Counted
    <2> QED
      BY <2>1, <2>2, <2>3, <2>4, <2>5, <2>6, <2>7
  <1>13. ASSUME NEW c \in Calls, Breaks(c) PROVE Inv'
    <2>1. TypeOK'
      BY <1>13 DEF Breaks, ToolRow, Finishes
    <2>2. Checkpointed'
      BY <1>13 DEF Breaks, ToolRow, Checkpointed, Sound, Settled, CallsOf
    <2>3. Requested'
      BY <1>13 DEF Breaks, ToolRow, Finishes, Requested, Settled
    <2>4. Batched'
      BY <1>13 DEF Breaks, ToolRow, Finishes, Batched, Working, Settled
    <2>5. Journalled'
      BY <1>13 DEF Breaks, ToolRow, Journalled, Batched
    <2>6. Rows'
      BY <1>13 DEF Breaks, ToolRow, Finishes, Rows, Working
    <2>7. Counted'
      BY <1>13 DEF Breaks, ToolRow, Finishes, Counted
    <2> QED
      BY <2>1, <2>2, <2>3, <2>4, <2>5, <2>6, <2>7
  <1>14. ASSUME NEW c \in Calls, Records(c) PROVE Inv'
    <2>1. TypeOK'
      BY <1>14 DEF Records, Saves
    <2>2. Checkpointed'
      BY <1>14 DEF Records, Saves, Checkpointed, Sound, Settled, CallsOf, Batched
    <2>3. Requested'
      BY <1>14 DEF Records, Requested, Settled
    <2>4. Batched'
      BY <1>14 DEF Records, Batched, Working, Settled
    <2>5. Journalled'
      BY <1>14 DEF Records, Journalled
    <2>6. Rows'
      BY <1>14 DEF Records, Rows, Working
    <2>7. Counted'
      BY <1>14 DEF Records, Counted
    <2> QED
      BY <2>1, <2>2, <2>3, <2>4, <2>5, <2>6, <2>7
  <1>15. CASE UNCHANGED vars
    BY <1>15
       DEF vars, Checkpointed, Sound, Settled, Requested, Batched, Working, Journalled,
           Rows, Counted, CallsOf
  <1> QED
    BY <1>1, <1>2, <1>3, <1>4, <1>5, <1>6, <1>7, <1>8, <1>9, <1>10, <1>11, <1>12, <1>13, <1>14, <1>15
       DEF Next

LEMMA Invariance == Spec => []Inv
  BY InitInv, StepInv, PTL DEF Spec

(* The variables keep their types, and a live run's checkpoint in the      *)
(* store is the one in its memory (saveCheckpoint).                        *)
THEOREM TypeCorrect == Spec => []TypeOK
  <1>1. Inv => TypeOK
    BY DEF Inv
  <1> QED
    BY <1>1, Invariance, PTL

(* Every request answers each call of the response it follows, once        *)
(* (pendingResults).                                                       *)
THEOREM AnswersComplete == Spec => []EveryCallAnswered
  <1>1. Inv => EveryCallAnswered
    BY DEF Inv, Requested, EveryCallAnswered
  <1> QED
    BY <1>1, Invariance, PTL

(* An effect without a result is reported as unknown, never as if the call *)
(* had not run (pendingResults, markInterruptedRuns).                      *)
THEOREM EffectsReported == Spec => []NothingHidden
  <1>1. Inv => NothingHidden
    BY DEF Inv, TypeOK, Requests, Requested, Journalled, Settled, NothingHidden
  <1> QED
    BY <1>1, Invariance, PTL

(* A daemon that is up has no run or call open without somebody at work on *)
(* it (markInterruptedRuns, finish).                                       *)
THEOREM ClosedAtRest == Spec => []NothingLeftOpen
  <1>1. Inv => NothingLeftOpen
    BY DEF Inv, Journalled, Rows, NothingLeftOpen
  <1> QED
    BY <1>1, Invariance, PTL

(* Without a crash no turn of the conversation goes uncounted.             *)
THEOREM UsageKept == Spec => []UsageCarriedOn
  <1>1. Inv => UsageCarriedOn
    BY DEF Inv, Counted, UsageCarriedOn
  <1> QED
    BY <1>1, Invariance, PTL

(* No step sends a call to the sandbox a second time.                      *)
LEMMA StepOnce ==
  Inv /\ [Next]_vars => [\A c \in Calls : tool'[c] = "executing" => tool[c] \in {"none", "executing"}]_vars
  <1> SUFFICES ASSUME Inv, [Next]_vars, NEW d \in Calls, tool'[d] = "executing"
               PROVE  tool[d] \in {"none", "executing"}
    OBVIOUS
  <1> USE DEF Inv
  <1>1. ASSUME NEW c \in Calls, Begins(c) PROVE tool[d] \in {"none", "executing"}
    BY <1>1 DEF TypeOK, Begins, ToolRow, IsNext, Batched
  <1>2. ASSUME NEW c \in Calls, Returns(c) PROVE tool[d] \in {"none", "executing"}
    BY <1>2 DEF TypeOK, Returns, ToolRow
  <1>3. ASSUME NEW c \in Calls, Breaks(c) PROVE tool[d] \in {"none", "executing"}
    BY <1>3 DEF TypeOK, Breaks, ToolRow
  <1>4. CASE Restart
    BY <1>4 DEF TypeOK, Restart, MarkInterrupted
  <1>5. CASE tool' = tool
    BY <1>5
  <1> QED
    BY <1>1, <1>2, <1>3, <1>4, <1>5
      
          DEF Next, vars, store, run, counters, Answered, Asks, Stop, GivesUp, Closes,
              Followup, Crash,
           Skipped, Happens, Records

(* A call goes to the sandbox at most once, through every stop, crash and  *)
(* follow-up.                                                              *)
THEOREM CalledOnce == Spec => NeverReplayed
  BY StepOnce, Invariance, PTL DEF Spec, NeverReplayed

(* What a conversation did is accounted for, through any number of runs,   *)
(* stops and crashes.                                                      *)
THEOREM AllAccounted == Spec => []AllAccountedFor
  BY TypeCorrect, AnswersComplete, EffectsReported, ClosedAtRest, UsageKept, PTL
     DEF AllAccountedFor
-----------------------------------------------------------------------------
(* The model's side (Provider), for any requests, attempts and events.     *)

HttpSteps == {"post", "wait", "text", "sleep"}
CodexSteps == Waiting \cup {"begin", "answers", "catch", "catching"}
Called == ToolCalls \cup {None, 1}
Items == [what : {"goal", "answer", "result", "picture", "omitted", "message"}, call : Called]
States == [response : Nat, messages : Seq(Items)]
Events == [kind : {"call"}, n : ToolCalls] \cup [kind : {"usage"}, n : Nat] \cup [kind : {"done", "bad"}, n : {None}]

Loops == [at : {"idle", "calling", "tools", "finish", "settled"}, aborted : BOOLEAN, prev : Nat,
          results : BOOLEAN, call : Called, picture : BOOLEAN, message : BOOLEAN, compact : BOOLEAN]
SavedRecords == [response : Nat, pending : Called, context : States, thread : BOOLEAN, usage : Nat]
Adapters == [state : States, rpc : BOOLEAN, thread : BOOLEAN, turn : BOOLEAN, resume : BOOLEAN,
             listening : BOOLEAN, pending : SUBSET ToolCalls, total : Nat, reported : Nat]
Children == [up : {"none", "run", "ending"}, failed : BOOLEAN, events : Seq(Events)]
Threads == [active : BOOLEAN, open : SUBSET ToolCalls, told : Nat]

Shapes ==
  /\ kind \in {"openai", "openrouter", "codex"}
  /\ loop \in Loops /\ ck \in SavedRecords /\ adapter \in Adapters /\ child \in Children /\ thread \in Threads
  /\ step \in HttpSteps \cup CodexSteps \cup {"off"} /\ attempt \in 1 .. MaxAttempts
  /\ over \in BOOLEAN /\ asked \in BOOLEAN /\ waits \subseteq {"stop", "catch", "finish"}
  /\ charged \in Nat /\ requests \in Nat
  /\ chat \in Seq(Items)
  /\ DOMAIN log \subseteq 1 .. requests /\ \A k \in DOMAIN log : log[k] \in Seq(Items)
  /\ adapter.state.response <= requests /\ ck.context.response <= requests

(* Who waits for an interrupt, and for whom the process is there.          *)
Phases ==
  /\ step # "off" <=> loop.at = "calling"
  /\ kind # "codex" => step \notin CodexSteps /\ ~adapter.rpc /\ ~adapter.listening
  /\ kind = "codex" => step \notin HttpSteps
  /\ step = "sleep" => attempt # MaxAttempts
  /\ loop.at = "calling" => requests # 0
  /\ asked <=> waits # {}
  /\ asked => Interruptible
  /\ "stop" \in waits => loop.aborted
  /\ "catch" \in waits <=> step = "catching"
  /\ "finish" \in waits => loop.at = "finish" /\ loop.aborted
  /\ child.up = "run" => adapter.rpc
  /\ loop.at = "settled" => ~adapter.rpc /\ waits = {}

(* What is charged has been reported, and what is reported was used.       *)
Rising(q) == \A i, j \in DOMAIN q : i < j /\ q[i].kind = "usage" /\ q[j].kind = "usage" => q[i].n <= q[j].n
Usage ==
  /\ charged <= adapter.reported /\ adapter.reported <= adapter.total
  /\ adapter.total = ck.usage /\ adapter.total <= thread.told
  /\ Rising(child.events)
  /\ \A i \in DOMAIN child.events :
       child.events[i].kind = "usage" => adapter.total <= child.events[i].n /\ child.events[i].n <= thread.told

(* A stored conversation: all is answered but what its last answer calls.  *)
Kept(q, call) ==
  /\ q \in Seq(Items) /\ q # <<>> /\ q[Len(q)] = Item("answer", call)
  /\ \A i \in DOMAIN q : q[i].what = "answer" /\ q[i].call # None /\ i # Len(q) => q[i + 1] = Item("result", q[i].call)
  /\ \A i \in DOMAIN q : q[i].what = "result" => i > 1 /\ q[i - 1] = Item("answer", q[i].call)

CarriesOn(response, call, context) ==
  /\ response # None
  /\ kind = "openai" => response \in DOMAIN log /\ Kept(log[response], call)
  /\ kind = "openrouter" => context.response = response /\ Kept(context.messages, call)

Carried ==
  kind # "codex" =>
    /\ loop.at = "tools" \/ (loop.at = "idle" /\ loop.results) =>
         CarriesOn(loop.prev, loop.call, adapter.state)
    /\ ck.response # None => CarriesOn(ck.response, ck.pending, ck.context)

ProviderInv == Shapes /\ Phases /\ Usage /\ Carried /\ CallsAreAnswered

LEMMA ProviderSafe == ProviderInv => ConversationIsKept /\ RestIsQuiet
<1> SUFFICES ASSUME ProviderInv PROVE ConversationIsKept /\ RestIsQuiet
  OBVIOUS
<1> USE DEF ProviderInv
<1>1. FitsItsConversation
  BY DEF FitsItsConversation, Refuses, Carried, CarriesOn
<1>2. ChargedOnce
  <2>1. charged \in Nat /\ adapter.reported \in Nat /\ adapter.total \in Nat /\ thread.told \in Nat
    BY DEF Shapes, Adapters, Threads
  <2> QED
    BY <2>1 DEF Usage, ChargedOnce
<1>3. ProviderTypeOK
  <2>1. adapter.state.response \in 0 .. requests
    BY DEF Shapes, Adapters, States
  <2> QED
    BY <2>1 DEF Shapes, Usage, Loops, Adapters, Children, Threads, ProviderTypeOK
<1> QED
  BY <1>1, <1>2, <1>3 DEF ConversationIsKept, RestIsQuiet, Phases

LEMMA StartingRecords ==
  /\ NoState \in States /\ Adapter \in Adapters /\ NoProcess \in Children
  /\ \A k \in SavedRecords : Fresh(k) \in Loops /\ Restored(k) \in Adapters
<1>1. NoState \in States
  BY DEF NoState, States, None
<1>2. Adapter \in Adapters
  BY <1>1 DEF Adapter, Adapters
<1>3. NoProcess \in Children
  BY DEF NoProcess, Children
<1>4. ASSUME NEW k \in SavedRecords PROVE Fresh(k) \in Loops
  <2>1. k.response \in Nat /\ k.pending \in Called /\ None \in Called /\ None \in Nat
    BY DEF SavedRecords, Called, None
  <2> QED
    BY <2>1 DEF Fresh, Loops
<1>5. ASSUME NEW k \in SavedRecords PROVE Restored(k) \in Adapters
  <2>1. k.context \in States /\ k.thread \in BOOLEAN /\ k.usage \in Nat
    BY DEF SavedRecords
  <2> QED
    BY <1>2, <2>1 DEF Restored, RestoredContext, Adapters
<1> QED
  BY <1>1, <1>2, <1>3, <1>4, <1>5

LEMMA ProviderStarts == ProviderInit => ProviderInv
<1> SUFFICES ASSUME ProviderInit PROVE ProviderInv
  OBVIOUS
<1> DEFINE first == [response |-> None, pending |-> None, context |-> NoState, thread |-> FALSE, usage |-> 0]
<1>1. /\ kind \in {"openai", "openrouter", "codex"} /\ ck = first /\ loop = Fresh(first)
      /\ step = "off" /\ attempt = 1 /\ over = FALSE /\ chat = <<>> /\ log = <<>>
      /\ adapter = Adapter /\ child = NoProcess /\ thread = [active |-> FALSE, open |-> {}, told |-> 0]
      /\ asked = FALSE /\ waits = {} /\ charged = 0 /\ requests = 0
  BY DEF ProviderInit
<1>2. first \in SavedRecords
  BY StartingRecords DEF SavedRecords, None, Called
<1>3. Shapes
  <2>1. loop \in Loops /\ adapter \in Adapters /\ child \in Children
    BY <1>1, <1>2, StartingRecords
  <2>2. adapter.state.response = 0 /\ ck.context.response = 0
    BY <1>1 DEF Adapter, NoState, None
  <2>3. chat \in Seq(Items) /\ DOMAIN log = {} /\ charged \in Nat /\ requests \in Nat /\ thread \in Threads
    BY <1>1 DEF Threads
  <2>4. attempt \in 1 .. MaxAttempts
    BY <1>1, ProviderAssumption
  <2>5. ck \in SavedRecords
    BY <1>1, <1>2
  <2>6. /\ step \in HttpSteps \cup CodexSteps \cup {"off"} /\ waits \subseteq {"stop", "catch", "finish"}
        /\ over \in BOOLEAN /\ asked \in BOOLEAN /\ kind \in {"openai", "openrouter", "codex"}
    BY <1>1
  <2>8. adapter.state.response <= requests /\ ck.context.response <= requests
    <3> HIDE DEF first
    <3> QED
      BY <1>1, <2>2
  <2>7. DOMAIN log \subseteq 1 .. requests /\ \A k \in DOMAIN log : log[k] \in Seq(Items)
    BY <2>3
  <2> QED
    BY <2>1, <2>3, <2>4, <2>5, <2>6, <2>7, <2>8 DEF Shapes
<1>4. Phases
  BY <1>1 DEF Phases, Fresh, Adapter, NoProcess, CodexSteps, HttpSteps, Waiting
<1>5. Usage
  BY <1>1 DEF Usage, Rising, Adapter, NoProcess
<1>6. Carried /\ CallsAreAnswered
  <2>1. DOMAIN chat = {} /\ loop.at = "idle" /\ ~loop.results /\ ck.response = None
    <3>1. DOMAIN chat = {}
      BY <1>1
    <3>2. first.response = None
      OBVIOUS
    <3> HIDE DEF first
    <3>3. loop.at = "idle" /\ ~loop.results /\ ck.response = None
      BY <1>1, <3>2 DEF Fresh
    <3> QED
      BY <3>1, <3>3
  <2> QED
    BY <2>1 DEF Carried, CallsAreAnswered
<1> QED
  BY <1>3, <1>4, <1>5, <1>6 DEF ProviderInv

(* What a conversation is made of, one item after the other.               *)
Good(q) ==
  /\ \A i \in DOMAIN q : q[i].what = "answer" /\ q[i].call # None =>
       i < Len(q) /\ q[i + 1] = Item("result", q[i].call)
  /\ \A i \in DOMAIN q : q[i].what = "result" => i > 1 /\ q[i - 1] = Item("answer", q[i].call)

LEMMA Lengthened ==
  ASSUME NEW S, NEW q \in Seq(S), NEW e \in S
  PROVE  /\ Append(q, e) \in Seq(S) /\ Append(q, e) # <<>> /\ Len(Append(q, e)) = Len(q) + 1
         /\ Len(q) \in Nat /\ DOMAIN Append(q, e) = 1 .. Len(q) + 1 /\ DOMAIN q = 1 .. Len(q)
         /\ \A i \in 1 .. Len(q) : Append(q, e)[i] = q[i]
         /\ Append(q, e)[Len(q) + 1] = e
BY AppendProperties, LenProperties

LEMMA AnswerKept ==
  ASSUME NEW q \in Seq(Items), Good(q), NEW call \in Called
  PROVE  Kept(Append(q, Item("answer", call)), call)
<1> DEFINE e == Item("answer", call)
           t == Append(q, e)
<1>1. e \in Items /\ e.what = "answer"
  BY DEF Item, Items
<1> SUFFICES Kept(t, call)
  OBVIOUS
<1>2. e = Item("answer", call)
  OBVIOUS
<1> HIDE DEF e
<1>3. /\ t \in Seq(Items) /\ t # <<>> /\ Len(t) = Len(q) + 1
      /\ Len(q) \in Nat /\ DOMAIN t = 1 .. Len(q) + 1 /\ DOMAIN q = 1 .. Len(q)
      /\ \A i \in 1 .. Len(q) : t[i] = q[i]
      /\ t[Len(q) + 1] = e
  BY <1>1, Lengthened
<1> HIDE DEF t
<1>4. ASSUME NEW i \in DOMAIN t, t[i].what = "answer", t[i].call # None, i # Len(t)
      PROVE  t[i + 1] = Item("result", t[i].call)
  <2>1. i \in DOMAIN q /\ t[i] = q[i]
    BY <1>3, <1>4
  <2>2. i < Len(q) /\ q[i + 1] = Item("result", q[i].call)
    BY <1>4, <2>1 DEF Good
  <2>3. i + 1 \in 1 .. Len(q)
    BY <1>3, <2>1, <2>2
  <2> QED
    BY <1>3, <2>1, <2>2, <2>3
<1>5. ASSUME NEW i \in DOMAIN t, t[i].what = "result"
      PROVE  i > 1 /\ t[i - 1] = Item("answer", t[i].call)
  <2>1. i \in DOMAIN q /\ t[i] = q[i]
    BY <1>1, <1>3, <1>5
  <2>2. i > 1 /\ q[i - 1] = Item("answer", q[i].call)
    BY <1>5, <2>1 DEF Good
  <2>3. i - 1 \in 1 .. Len(q)
    BY <1>3, <2>1, <2>2
  <2> QED
    BY <1>3, <2>1, <2>2, <2>3
<1> QED
  BY <1>2, <1>3, <1>4, <1>5 DEF Kept

(* The result of what the last answer calls comes next,                    *)
LEMMA ResultGood ==
  ASSUME NEW q, NEW call \in Called, Kept(q, call), call # None
  PROVE  Append(q, Item("result", call)) \in Seq(Items) /\ Good(Append(q, Item("result", call)))
<1> DEFINE e == Item("result", call)
           t == Append(q, e)
<1>1. e \in Items /\ e.what = "result" /\ e.call = call
  BY DEF Item, Items
<1> SUFFICES t \in Seq(Items) /\ Good(t)
  OBVIOUS
<1>2. e = Item("result", call)
  OBVIOUS
<1> HIDE DEF e
<1>3. q \in Seq(Items) /\ q # <<>>
  BY DEF Kept
<1>4. /\ t \in Seq(Items) /\ t # <<>> /\ Len(t) = Len(q) + 1
      /\ Len(q) \in Nat /\ DOMAIN t = 1 .. Len(q) + 1 /\ DOMAIN q = 1 .. Len(q)
      /\ \A i \in 1 .. Len(q) : t[i] = q[i]
      /\ t[Len(q) + 1] = e
  BY <1>1, <1>3, Lengthened
<1>5. Len(q) # 0
  BY <1>3, EmptySeq
<1>6. q[Len(q)] = Item("answer", call) /\ Item("answer", call).call = call
  BY DEF Kept, Item
<1> HIDE DEF t
<1>7. ASSUME NEW i \in DOMAIN t, t[i].what = "answer", t[i].call # None
      PROVE  i < Len(t) /\ t[i + 1] = Item("result", t[i].call)
  <2>1. i \in DOMAIN q /\ t[i] = q[i]
    BY <1>1, <1>4, <1>7
  <2>2. CASE i = Len(q)
    BY <1>2, <1>4, <1>6, <2>1, <2>2
  <2>3. CASE i # Len(q)
    <3>1. q[i + 1] = Item("result", q[i].call)
      BY <1>7, <2>1, <2>3 DEF Kept
    <3>2. i + 1 \in 1 .. Len(q)
      BY <1>4, <2>1, <2>3
    <3> QED
      BY <1>4, <2>1, <3>1, <3>2
  <2> QED
    BY <2>2, <2>3
<1>8. ASSUME NEW i \in DOMAIN t, t[i].what = "result"
      PROVE  i > 1 /\ t[i - 1] = Item("answer", t[i].call)
  <2>1. CASE i = Len(q) + 1
    BY <1>1, <1>4, <1>5, <1>6, <2>1
  <2>2. CASE i # Len(q) + 1
    <3>1. i \in DOMAIN q /\ t[i] = q[i]
      BY <1>4, <2>2
    <3>2. i > 1 /\ q[i - 1] = Item("answer", q[i].call)
      BY <1>8, <3>1 DEF Kept
    <3>3. i - 1 \in 1 .. Len(q)
      BY <1>4, <3>1, <3>2
    <3> QED
      BY <1>4, <3>1, <3>2, <3>3
  <2> QED
    BY <2>1, <2>2
<1> QED
  BY <1>4, <1>7, <1>8 DEF Good

(* and then what the human says or the pictures show.                      *)
LEMMA OtherGood ==
  ASSUME NEW q \in Seq(Items), Good(q), NEW e \in Items, e.what \notin {"answer", "result"}
  PROVE  Append(q, e) \in Seq(Items) /\ Good(Append(q, e))
<1> DEFINE t == Append(q, e)
<1> SUFFICES t \in Seq(Items) /\ Good(t)
  OBVIOUS
<1>1. /\ t \in Seq(Items) /\ Len(t) = Len(q) + 1
      /\ Len(q) \in Nat /\ DOMAIN t = 1 .. Len(q) + 1 /\ DOMAIN q = 1 .. Len(q)
      /\ \A i \in 1 .. Len(q) : t[i] = q[i]
      /\ t[Len(q) + 1] = e
  BY Lengthened
<1> HIDE DEF t
<1>2. ASSUME NEW i \in DOMAIN t, t[i].what = "answer", t[i].call # None
      PROVE  i < Len(t) /\ t[i + 1] = Item("result", t[i].call)
  <2>1. i \in DOMAIN q /\ t[i] = q[i]
    BY <1>1, <1>2
  <2>2. i < Len(q) /\ q[i + 1] = Item("result", q[i].call)
    BY <1>2, <2>1 DEF Good
  <2>3. i + 1 \in 1 .. Len(q)
    BY <1>1, <2>1, <2>2
  <2> QED
    BY <1>1, <2>1, <2>2, <2>3
<1>3. ASSUME NEW i \in DOMAIN t, t[i].what = "result"
      PROVE  i > 1 /\ t[i - 1] = Item("answer", t[i].call)
  <2>1. i \in DOMAIN q /\ t[i] = q[i]
    BY <1>1, <1>3
  <2>2. i > 1 /\ q[i - 1] = Item("answer", q[i].call)
    BY <1>3, <2>1 DEF Good
  <2>3. i - 1 \in 1 .. Len(q)
    BY <1>1, <2>1, <2>2
  <2> QED
    BY <1>1, <2>1, <2>2, <2>3
<1> QED
  BY <1>1, <1>2, <1>3 DEF Good

LEMMA Unanswering ==
  ASSUME NEW q, Kept(q, None)
  PROVE  q \in Seq(Items) /\ Good(q)
<1>1. q \in Seq(Items) /\ Len(q) \in Nat /\ DOMAIN q = 1 .. Len(q)
  BY LenProperties DEF Kept
<1>2. q[Len(q)].call = None
  BY DEF Kept, Item
<1> QED
  BY <1>1, <1>2 DEF Kept, Good

(* The pictures stay behind.                                               *)
LEMMA ExportKept ==
  ASSUME NEW st \in States
  PROVE  /\ Exported(st) \in States /\ Exported(st).response = st.response
         /\ \A call \in Called : Kept(st.messages, call) => Kept(Exported(st).messages, call)
<1> DEFINE q == st.messages
           t == [i \in DOMAIN q |-> IF q[i].what = "picture" THEN Item("omitted", q[i].call) ELSE q[i]]
<1>1. q \in Seq(Items) /\ Len(q) \in Nat /\ q \in [1 .. Len(q) -> Items] /\ DOMAIN q = 1 .. Len(q)
  BY LenProperties DEF States
<1>2. st = [response |-> st.response, messages |-> q] /\ st.response \in Nat
  BY DEF States
<1>3. Exported(st) = [response |-> st.response, messages |-> t]
  BY <1>2 DEF Exported
<1>4. t \in [1 .. Len(q) -> Items]
  <2>1. \A i \in 1 .. Len(q) : q[i] \in Items
    BY <1>1
  <2>2. \A e \in Items : Item("omitted", e.call) \in Items
    BY DEF Items, Item
  <2> QED
    BY <1>1, <2>1, <2>2
<1>5. t \in Seq(Items)
  BY <1>1, <1>4, SeqDef
<1>6. Len(t) = Len(q) /\ DOMAIN t = DOMAIN q
  BY <1>1, <1>4, <1>5, LenProperties
<1>7. \A i \in DOMAIN q : q[i].what # "picture" => t[i] = q[i]
  OBVIOUS
<1>8. \A i \in DOMAIN q : t[i].what \in {"answer", "result"} => q[i].what = t[i].what /\ t[i] = q[i]
  BY DEF Item
<1>9. ASSUME NEW call \in Called, Kept(q, call) PROVE Kept(t, call)
  <2> HIDE DEF t
  <2>1. Len(q) # 0
    BY <1>1, <1>9, EmptySeq DEF Kept
  <2>2. t # <<>>
    BY <1>6, <2>1, EmptySeq
  <2>3. t[Len(t)] = Item("answer", call)
    <3>1. q[Len(q)] = Item("answer", call) /\ Item("answer", call).what = "answer"
      BY <1>9 DEF Kept, Item
    <3> QED
      BY <1>1, <1>6, <1>7, <2>1, <3>1
  <2>4. ASSUME NEW i \in DOMAIN t, t[i].what = "answer", t[i].call # None, i # Len(t)
        PROVE  t[i + 1] = Item("result", t[i].call)
    <3>1. t[i] = q[i] /\ i \in DOMAIN q
      BY <1>6, <1>8, <2>4
    <3>2. q[i + 1] = Item("result", q[i].call) /\ i + 1 \in DOMAIN q
      BY <1>1, <1>6, <1>9, <2>4, <3>1 DEF Kept
    <3> QED
      BY <1>7, <3>1, <3>2 DEF Item
  <2>5. ASSUME NEW i \in DOMAIN t, t[i].what = "result"
        PROVE  i > 1 /\ t[i - 1] = Item("answer", t[i].call)
    <3>1. t[i] = q[i] /\ i \in DOMAIN q
      BY <1>6, <1>8, <2>5
    <3>2. i > 1 /\ q[i - 1] = Item("answer", q[i].call)
      BY <1>9, <2>5, <3>1 DEF Kept
    <3>3. i - 1 \in DOMAIN q
      BY <1>1, <3>1, <3>2
    <3> QED
      BY <1>7, <3>1, <3>2, <3>3 DEF Item
  <2> QED
    BY <1>5, <2>2, <2>3, <2>4, <2>5 DEF Kept
<1>10. Exported(st) \in States
  BY <1>2, <1>3, <1>5 DEF States
<1> QED
  BY <1>3, <1>9, <1>10

Associate(q, y, v) == q \o (y \o v) = (q \o y) \o v
LEMMA Associates == \A q, y, v \in Seq(Items) : Associate(q, y, v)
<1> SUFFICES ASSUME NEW q \in Seq(Items), NEW y \in Seq(Items), NEW v \in Seq(Items)
             PROVE  q \o (y \o v) = (q \o y) \o v
  BY DEF Associate
<1> QED
  BY SMTT(30)

LEMMA ThenIf ==
  ASSUME NEW q \in Seq(Items), NEW condition \in BOOLEAN, NEW e \in Items
  PROVE  /\ If(condition, e) \in Seq(Items)
         /\ q \o If(condition, e) = IF condition THEN Append(q, e) ELSE q
<1>1. CASE condition
  BY <1>1, AppendIsConcat DEF If
<1>2. CASE ~condition
  BY <1>2, ConcatEmptySeq, EmptySeq DEF If
<1> QED
  BY <1>1, <1>2

LEMMA ResultsGood ==
  ASSUME NEW q, loop.call \in Called, Kept(q, loop.call)
  PROVE  q \o Results \in Seq(Items) /\ Good(q \o Results) /\ Results \in Seq(Items)
<1> DEFINE e == Item("result", loop.call)
<1>1. q \in Seq(Items) /\ e \in Items
  BY DEF Kept, Item, Items
<1>2. Results \in Seq(Items) /\ q \o Results = IF loop.call # None THEN Append(q, e) ELSE q
  BY <1>1, ThenIf DEF Results
<1> QED
  BY <1>1, <1>2, ResultGood, Unanswering

LEMMA OthersGood ==
  ASSUME NEW q \in Seq(Items), Good(q), NEW condition \in BOOLEAN, NEW e \in Items, e.what \notin {"answer", "result"}
  PROVE  q \o If(condition, e) \in Seq(Items) /\ Good(q \o If(condition, e))
BY ThenIf, OtherGood

(* What a request carries is in order, whichever adapter puts it together. *)
LEMMA AskedWell ==
  ASSUME Shapes, Carried, loop.at = "idle", NEW message \in BOOLEAN
  PROVE  Asking(message) \in Seq(Items) /\ Good(Asking(message))
<1> DEFINE M == If(message, Item("message", None))
           G == If(loop.picture, Item("picture", loop.call))
<1>1. loop.call \in Called /\ loop.results \in BOOLEAN /\ loop.picture \in BOOLEAN
  BY DEF Shapes, Loops
<1>2. /\ Item("message", None) \in Items /\ Item("message", None).what = "message"
      /\ Item("picture", loop.call) \in Items /\ Item("picture", loop.call).what = "picture"
      /\ Item("goal", None) \in Items /\ Item("goal", None).what = "goal"
  BY <1>1 DEF Item, Items, Called
<1>3. <<>> \in Seq(Items) /\ Good(<<>>)
  BY EmptySeq DEF Good
<1>4. M \in Seq(Items) /\ G \in Seq(Items)
  BY <1>1, <1>2, <1>3, ThenIf
<1>5. CASE kind = "codex"
  BY <1>3, <1>5 DEF Asking
<1>6. CASE kind # "codex" /\ ~loop.results
  <2>1. Asking(message) = <<Item("goal", None)>>
    BY <1>6 DEF Asking
  <2>2. Append(<<>>, Item("goal", None)) = <<Item("goal", None)>>
    BY <1>2
  <2> QED
    BY <1>2, <1>3, <2>1, <2>2, OtherGood
<1>7. CASE kind = "openai" /\ loop.results
  <2> DEFINE q == log[loop.prev]
  <2>1. Asking(message) = q \o (Results \o M)
    BY <1>7 DEF Asking, InputOpenAI
  <2>2. Kept(q, loop.call)
    BY <1>7 DEF Carried, CarriesOn
  <2> HIDE DEF q, M
  <2>3. q \in Seq(Items) /\ q \o Results \in Seq(Items) /\ Good(q \o Results) /\ Results \in Seq(Items)
    BY <1>1, <2>2, ResultsGood DEF Kept
  <2>4. q \o (Results \o M) = (q \o Results) \o M
    <3>1. Associate(q, Results, M)
      BY <1>4, <2>3, Associates, Zenon
    <3> QED
      BY <3>1 DEF Associate
  <2>5. (q \o Results) \o M \in Seq(Items) /\ Good((q \o Results) \o M)
    BY <1>2, <2>3, OthersGood DEF M
  <2> QED
    BY <2>1, <2>4, <2>5
<1>8. CASE kind = "openrouter" /\ loop.results
  <2> DEFINE q == adapter.state.messages
  <2>1. Asking(message) = q \o ((Results \o G) \o M)
    <3>1. Asking(message) = q \o InputOpenRouter(message)
      BY <1>8 DEF Asking
    <3>2. InputOpenRouter(message) = (Results \o G) \o M
      <4>1. InputOpenRouter(message) = Results \o G \o M
        BY DEF InputOpenRouter
      <4> QED
        BY <4>1
    <3> QED
      BY <3>1, <3>2
  <2>2. Kept(q, loop.call)
    BY <1>8 DEF Carried, CarriesOn
  <2> HIDE DEF q, M, G
  <2>3. q \in Seq(Items) /\ q \o Results \in Seq(Items) /\ Good(q \o Results) /\ Results \in Seq(Items)
    BY <1>1, <2>2, ResultsGood DEF Kept
  <2>5. q \o ((Results \o G) \o M) = (q \o (Results \o G)) \o M
    <3>1. Results \o G \in Seq(Items)
      BY <1>4, <2>3, ConcatProperties, Zenon
    <3>2. Associate(q, Results \o G, M)
      BY <1>4, <2>3, <3>1, Associates, Zenon
    <3> QED
      BY <3>2 DEF Associate
  <2>6. q \o (Results \o G) = (q \o Results) \o G
    <3>1. Associate(q, Results, G)
      BY <1>4, <2>3, Associates, Zenon
    <3> QED
      BY <3>1 DEF Associate
  <2>7. (q \o Results) \o G \in Seq(Items) /\ Good((q \o Results) \o G)
    BY <1>1, <1>2, <2>3, OthersGood DEF G
  <2>8. ((q \o Results) \o G) \o M \in Seq(Items) /\ Good(((q \o Results) \o G) \o M)
    BY <1>2, <2>7, OthersGood DEF M
  <2> QED
    BY <2>1, <2>5, <2>6, <2>8
<1> QED
  BY <1>5, <1>6, <1>7, <1>8 DEF Shapes

-----------------------------------------------------------------------------
(* What most steps leave alone.                                            *)

LEMMA UsageStays ==
  ASSUME Usage, charged' = charged, adapter'.reported = adapter.reported, adapter'.total = adapter.total,
         ck'.usage = ck.usage, thread'.told = thread.told, child'.events = child.events \/ child'.events = <<>>
  PROVE  Usage'
<1>1. CASE child'.events = child.events
  BY <1>1 DEF Usage, Rising
<1>2. CASE child'.events = <<>>
  <2>1. DOMAIN child'.events = {}
    BY <1>2
  <2> QED
    BY <2>1 DEF Usage, Rising
<1> QED
  BY <1>1, <1>2

LEMMA CarriedStays ==
  ASSUME Carried, kind' = kind, log' = log,
         ck'.response = ck.response, ck'.pending = ck.pending, ck'.context = ck.context,
         loop'.at = "tools" \/ (loop'.at = "idle" /\ loop'.results) =>
           /\ loop.at = "tools" \/ (loop.at = "idle" /\ loop.results)
           /\ loop'.prev = loop.prev /\ loop'.call = loop.call
           /\ kind # "codex" => adapter'.state = adapter.state
  PROVE  Carried'
BY DEF Carried, CarriesOn

LEMMA ChatStays ==
  ASSUME CallsAreAnswered, chat' = chat
  PROVE  CallsAreAnswered'
BY DEF CallsAreAnswered

LEMMA Parts ==
  ASSUME Shapes', Phases', Usage', Carried', CallsAreAnswered'
  PROVE  ProviderInv'
BY DEF ProviderInv

LEMMA Apart == HttpSteps \cap CodexSteps = {} /\ "off" \notin HttpSteps \cup CodexSteps
BY DEF HttpSteps, CodexSteps, Waiting

(* The end of a thread's process, and of what the adapter has of it.       *)
LEMMA ClosedAdapter ==
  ASSUME Shapes
  PROVE  /\ Closed(adapter) \in Adapters /\ ~Closed(adapter).rpc /\ ~Closed(adapter).listening
         /\ Closed(adapter).total = adapter.total /\ Closed(adapter).reported = adapter.reported
         /\ Closed(adapter).state.response <= requests
<1>1. adapter \in Adapters /\ requests \in Nat
  BY DEF Shapes
<1>2. NoState \in States /\ NoState.response = 0
  BY StartingRecords DEF NoState, None
<1> DEFINE y == ForgetsState(adapter)
<1>3. y \in Adapters /\ y.state = NoState /\ y.total = adapter.total /\ y.reported = adapter.reported
  BY <1>1, <1>2 DEF ForgetsState, Adapters
<1>4. Closed(adapter) = [y EXCEPT !.rpc = FALSE, !.listening = FALSE, !.pending = {}]
  BY DEF Closed
<1> HIDE DEF y
<1>5. /\ Closed(adapter) \in Adapters /\ ~Closed(adapter).rpc /\ ~Closed(adapter).listening
      /\ Closed(adapter).total = y.total /\ Closed(adapter).reported = y.reported
      /\ Closed(adapter).state = y.state
  BY <1>3, <1>4 DEF Adapters
<1> QED
  BY <1>1, <1>2, <1>3, <1>5

LEMMA ClosedWell ==
  ASSUME Shapes, Close
  PROVE  /\ adapter' \in Adapters /\ ~adapter'.rpc /\ ~adapter'.listening
         /\ adapter'.total = adapter.total /\ adapter'.reported = adapter.reported
         /\ adapter'.state.response <= requests
         /\ child' \in Children /\ (child'.events = child.events \/ child'.events = <<>>)
         /\ (child.up = "run" => adapter.rpc) => child'.up # "run"
<1>1. adapter' = Closed(adapter) /\ child \in Children
  BY DEF Close, Shapes
<1>2. Ended(child) \in Children /\ Ended(child).events = <<>> /\ Ended(child).up # "run"
  <2>1. <<>> \in Seq(Events)
    BY EmptySeq
  <2> QED
    BY <1>1, <2>1 DEF Ended, Children
<1> QED
  BY <1>1, <1>2, ClosedAdapter DEF Close

-----------------------------------------------------------------------------
(* The attempts of a request.                                              *)
Attempts ==
  /\ step \in HttpSteps
  /\ \/ Throws /\ UNCHANGED attempt
     \/ /\ UNCHANGED loop /\ step' \in HttpSteps /\ attempt' \in 1 .. MaxAttempts
        /\ step' = "sleep" => attempt' # MaxAttempts
  /\ Unanswered

LEMMA Attempting ==
  ASSUME Shapes, Phases,
         Post \/ Unusable \/ FailsOpenAI \/ StatusOpenAI \/ ErrorRead \/ FailsOpenRouter \/ Backoff
  PROVE  Attempts
<1>1. attempt \in 1 .. MaxAttempts /\ MaxAttempts \in Nat /\ {"post", "wait", "text", "sleep"} \subseteq HttpSteps
  BY ProviderAssumption DEF Shapes, HttpSteps
<1>2. ASSUME Retries PROVE \/ Throws /\ UNCHANGED attempt
                           \/ step' = "sleep" /\ attempt # MaxAttempts /\ UNCHANGED <<loop, attempt>>
  BY <1>2 DEF Retries
<1>3. CASE Post
  BY <1>1, <1>3 DEF Post, Attempts
<1>4. CASE Unusable
  BY <1>1, <1>4 DEF Unusable, Attempts
<1>5. CASE FailsOpenAI
  BY <1>1, <1>2, <1>5 DEF FailsOpenAI, Attempts
<1>6. CASE StatusOpenAI
  BY <1>1, <1>6 DEF StatusOpenAI, Attempts
<1>7. CASE ErrorRead
  BY <1>1, <1>2, <1>7 DEF ErrorRead, Attempts
<1>8. CASE FailsOpenRouter
  BY <1>1, <1>2, <1>8 DEF FailsOpenRouter, Attempts
<1>9. CASE Backoff
  <2>1. attempt # MaxAttempts
    BY <1>9 DEF Backoff, Phases
  <2>2. attempt + 1 \in 1 .. MaxAttempts
    BY <1>1, <2>1
  <2> QED
    BY <1>1, <1>9, <2>2 DEF Backoff, Attempts
<1> QED
  BY <1>3, <1>4, <1>5, <1>6, <1>7, <1>8, <1>9

LEMMA AttemptsInv == ProviderInv /\ Attempts => ProviderInv'
<1> SUFFICES ASSUME ProviderInv, Attempts PROVE ProviderInv'
  OBVIOUS
<1> USE DEF ProviderInv
<1>1. /\ UNCHANGED <<ck, adapter, chat, log, kind, over, child, thread, asked, waits, charged, requests, starts>>
      /\ step \in HttpSteps
  BY DEF Attempts, Unanswered, Http, codex, count
<1>2. \/ loop' = [loop EXCEPT !.at = "finish"] /\ step' = "off" /\ attempt' = attempt
      \/ /\ loop' = loop /\ step' \in HttpSteps /\ attempt' \in 1 .. MaxAttempts
         /\ step' = "sleep" => attempt' # MaxAttempts
  BY DEF Attempts, Throws
<1>3. Shapes'
  <2>1. loop' \in Loops /\ step' \in HttpSteps \cup CodexSteps \cup {"off"} /\ attempt' \in 1 .. MaxAttempts
    BY <1>2 DEF Shapes, Loops
  <2> QED
    BY <1>1, <2>1 DEF Shapes
<1>4. loop.at = "calling" /\ kind # "codex" /\ step # "catching" /\ waits \cap {"catch", "finish"} = {}
  BY <1>1, Apart DEF Phases, CodexSteps
<1>5. /\ loop'.aborted = loop.aborted
      /\ (step' = "off" /\ loop'.at = "finish") \/ (step' \in HttpSteps /\ loop'.at = "calling")
  <2>1. loop \in Loops
    BY DEF Shapes
  <2> QED
    BY <1>2, <1>4, <2>1 DEF Loops
<1>6. Phases'
  <2>1. step' \notin CodexSteps /\ step' # "catching" /\ (step' = "sleep" => attempt' # MaxAttempts)
    BY <1>2, Apart DEF CodexSteps
  <2>2. step' # "off" <=> loop'.at = "calling"
    BY <1>5, Apart
  <2>3. Interruptible' = Interruptible
    BY <1>1 DEF Interruptible
  <2> QED
    BY <1>1, <1>4, <1>5, <2>1, <2>2, <2>3 DEF Phases
<1>7. Usage'
  BY <1>1, UsageStays
<1>8. Carried'
  BY <1>1, <1>5, CarriedStays
<1> QED
  BY <1>1, <1>3, <1>6, <1>7, <1>8, ChatStays, Parts

-----------------------------------------------------------------------------
(* A turn is answered.                                                     *)
LEMMA AnswerSaved ==
  ASSUME Shapes, adapter' \in Adapters, adapter'.state.response <= requests,
         NEW call \in Called, ck' = Saved(requests, call), TurnAnswers(requests, call)
  PROVE  /\ ck' \in SavedRecords /\ ck'.response = requests /\ ck'.pending = call
         /\ ck'.context = Exported(adapter'.state) /\ ck'.context.response <= requests /\ ck'.usage = ck.usage
         /\ loop' \in Loops /\ loop'.at = "tools" /\ loop'.aborted = loop.aborted /\ loop'.call = call
         /\ kind # "codex" => loop'.prev = requests
         /\ step' = "off"
<1>1. ck \in SavedRecords /\ loop \in Loops /\ requests \in Nat /\ adapter'.state \in States
  BY DEF Shapes, Adapters
<1> DEFINE st == Exported(adapter'.state)
<1>2. st \in States /\ st.response <= requests
  BY <1>1, ExportKept
<1>3. ck' = [ck EXCEPT !.response = requests, !.pending = call, !.context = st]
  BY DEF Saved
<1> HIDE DEF st
<1>4. /\ ck' \in SavedRecords /\ ck'.response = requests /\ ck'.pending = call /\ ck'.context = st /\ ck'.usage = ck.usage
  BY <1>1, <1>2, <1>3 DEF SavedRecords
<1>5. PICK p \in Nat : /\ loop' = [loop EXCEPT !.at = "tools", !.call = call, !.prev = p]
                       /\ kind # "codex" => p = requests
  BY <1>1 DEF TurnAnswers, None
<1>6. /\ loop' \in Loops /\ loop'.at = "tools" /\ loop'.aborted = loop.aborted /\ loop'.call = call /\ loop'.prev = p
  BY <1>1, <1>5 DEF Loops
<1>7. step' = "off"
  BY DEF TurnAnswers
<1> QED
  BY <1>2, <1>4, <1>5, <1>6, <1>7 DEF st

(* Nobody waits in the turn of an HTTP adapter, and then in none.          *)
LEMMA AnswerPhases ==
  ASSUME Phases, step \in HttpSteps, loop'.at = "tools", loop'.aborted = loop.aborted, step' = "off",
         adapter'.rpc = adapter.rpc, adapter'.listening = adapter.listening,
         adapter'.thread = adapter.thread, adapter'.turn = adapter.turn,
         UNCHANGED <<kind, requests, asked, waits, child>>
  PROVE  Phases'
<1>1. loop.at = "calling" /\ kind # "codex" /\ "catch" \notin waits /\ "finish" \notin waits
  BY Apart DEF Phases, CodexSteps
<1>2. Interruptible' = Interruptible
  BY DEF Interruptible
<1>3. step' \notin CodexSteps /\ step' \notin HttpSteps
  BY Apart
<1> QED
  BY <1>1, <1>2, <1>3 DEF Phases

LEMMA CompletesOpenAIInv == ProviderInv /\ CompletesOpenAI => ProviderInv'
<1> SUFFICES ASSUME ProviderInv, CompletesOpenAI PROVE ProviderInv'
  OBVIOUS
<1> USE DEF ProviderInv
<1>1. PICK call \in {None, 1} :
        /\ log' = Stored(chat, call) /\ UNCHANGED adapter
        /\ ck' = Saved(requests, call) /\ TurnAnswers(requests, call)
  BY DEF CompletesOpenAI
<1>2. /\ step = "wait" /\ kind = "openai"
      /\ UNCHANGED <<attempt, chat, kind, over, child, thread, asked, waits, charged, requests, starts>>
  BY DEF CompletesOpenAI, Http, codex, count
<1>3. call \in Called /\ step \in HttpSteps
  BY <1>2 DEF Called, HttpSteps
<1>4. loop.at = "calling" /\ requests # 0 /\ requests \in Nat /\ chat \in Seq(Items)
  BY <1>2 DEF Phases, Shapes
<1>5. adapter' \in Adapters /\ adapter'.state.response <= requests
  BY <1>1 DEF Shapes
<1>6. /\ ck' \in SavedRecords /\ ck'.response = requests /\ ck'.pending = call
      /\ ck'.context.response <= requests /\ ck'.usage = ck.usage
      /\ loop' \in Loops /\ loop'.at = "tools" /\ loop'.aborted = loop.aborted /\ loop'.call = call
      /\ loop'.prev = requests /\ step' = "off"
  BY <1>1, <1>2, <1>3, <1>5, AnswerSaved
<1> DEFINE q == Append(chat, Item("answer", call))
<1>7. Kept(q, call)
  <2>1. Good(chat)
    BY DEF CallsAreAnswered, Good
  <2> QED
    BY <1>3, <1>4, <2>1, AnswerKept
<1>8. log' = [k \in DOMAIN log \cup {requests} |-> IF k = requests THEN q ELSE log[k]]
  BY <1>1 DEF Stored
<1>9. q \in Seq(Items)
  BY <1>7 DEF Kept
<1> HIDE DEF q
<1>10. requests \in DOMAIN log' /\ log'[requests] = q /\ DOMAIN log' \subseteq 1 .. requests
       /\ \A k \in DOMAIN log' : log'[k] \in Seq(Items)
  BY <1>4, <1>8, <1>9 DEF Shapes
<1>11. Shapes'
  BY <1>2, <1>5, <1>6, <1>10 DEF Shapes
<1>12. Phases'
  BY <1>1, <1>2, <1>3, <1>6, AnswerPhases
<1>13. Usage'
  BY <1>1, <1>2, <1>6, UsageStays
<1>14. Carried'
  BY <1>2, <1>4, <1>6, <1>7, <1>10 DEF Carried, CarriesOn, None
<1> QED
  BY <1>2, <1>11, <1>12, <1>13, <1>14, ChatStays, Parts

LEMMA CompletesOpenRouterInv == ProviderInv /\ CompletesOpenRouter => ProviderInv'
<1> SUFFICES ASSUME ProviderInv, CompletesOpenRouter PROVE ProviderInv'
  OBVIOUS
<1> USE DEF ProviderInv
<1>1. PICK call \in {None, 1} :
        /\ adapter' = [adapter EXCEPT !.state =
             [response |-> requests, messages |-> Append(chat, Item("answer", call))]]
        /\ ck' = Saved(requests, call) /\ TurnAnswers(requests, call)
  BY DEF CompletesOpenRouter
<1>2. /\ step = "wait" /\ kind = "openrouter"
      /\ UNCHANGED <<attempt, chat, log, kind, over, child, thread, asked, waits, charged, requests, starts>>
  BY DEF CompletesOpenRouter, Http, http, codex, count
<1>3. call \in Called /\ step \in HttpSteps
  BY <1>2 DEF Called, HttpSteps
<1>4. loop.at = "calling" /\ requests # 0 /\ requests \in Nat /\ chat \in Seq(Items) /\ adapter \in Adapters
  BY <1>2 DEF Phases, Shapes
<1> DEFINE q == Append(chat, Item("answer", call))
           st == [response |-> requests, messages |-> q]
<1>5. Kept(q, call)
  <2>1. Good(chat)
    BY DEF CallsAreAnswered, Good
  <2> QED
    BY <1>3, <1>4, <2>1, AnswerKept
<1>6. st \in States
  BY <1>4, <1>5 DEF States, Kept
<1>7. st.response = requests /\ st.messages = q
  OBVIOUS
<1>8. adapter' = [adapter EXCEPT !.state = st]
  BY <1>1
<1> HIDE DEF q, st
<1>9. /\ adapter' \in Adapters /\ adapter'.state = st
      /\ adapter'.rpc = adapter.rpc /\ adapter'.listening = adapter.listening
      /\ adapter'.thread = adapter.thread /\ adapter'.turn = adapter.turn
      /\ adapter'.total = adapter.total /\ adapter'.reported = adapter.reported
  BY <1>4, <1>6, <1>8 DEF Adapters
<1>10. adapter'.state.response <= requests
  BY <1>4, <1>7, <1>9
<1>11. /\ ck' \in SavedRecords /\ ck'.response = requests /\ ck'.pending = call /\ ck'.context = Exported(st)
       /\ ck'.context.response <= requests /\ ck'.usage = ck.usage
       /\ loop' \in Loops /\ loop'.at = "tools" /\ loop'.aborted = loop.aborted /\ loop'.call = call
       /\ loop'.prev = requests /\ step' = "off"
  BY <1>1, <1>2, <1>3, <1>9, <1>10, AnswerSaved
<1>12. Exported(st).response = requests /\ Kept(Exported(st).messages, call)
  BY <1>3, <1>5, <1>6, <1>7, ExportKept
<1>13. Shapes'
  BY <1>2, <1>9, <1>10, <1>11 DEF Shapes
<1>14. Phases'
  BY <1>2, <1>3, <1>9, <1>11, AnswerPhases
<1>15. Usage'
  BY <1>2, <1>9, <1>11, UsageStays
<1>16. Carried'
  BY <1>2, <1>4, <1>5, <1>7, <1>9, <1>11, <1>12 DEF Carried, CarriesOn, None
<1> QED
  BY <1>2, <1>13, <1>14, <1>15, <1>16, ChatStays, Parts

-----------------------------------------------------------------------------
(* The run.                                                                *)
LEMMA CallModelInv == ProviderInv /\ CallModel => ProviderInv'
<1> SUFFICES ASSUME ProviderInv, CallModel PROVE ProviderInv'
  OBVIOUS
<1> USE DEF ProviderInv
<1>1. PICK compact \in BOOLEAN :
        IF Refuses THEN loop' = [loop EXCEPT !.at = "finish"] /\ UNCHANGED <<step, requests, chat>>
        ELSE /\ loop' = [loop EXCEPT !.at = "calling", !.compact = compact]
             /\ step' = IF kind = "codex" THEN "begin" ELSE "post"
             /\ chat' = Asking(loop.message \/ compact)
             /\ requests' = requests + 1
  BY DEF CallModel
<1>2. /\ loop.at = "idle" /\ attempt' = 1 /\ over' = FALSE
      /\ UNCHANGED <<kind, ck, adapter, log, child, thread, asked, waits, charged, starts>>
  BY DEF CallModel, codex
<1>3. /\ loop \in Loops /\ requests \in Nat /\ 1 \in 1 .. MaxAttempts /\ chat \in Seq(Items)
      /\ adapter \in Adapters /\ ck \in SavedRecords /\ DOMAIN log \subseteq 1 .. requests
  BY ProviderAssumption DEF Shapes
<1>4. step = "off" /\ "catch" \notin waits /\ "finish" \notin waits
  BY <1>2 DEF Phases
<1>5. loop' \in Loops /\ loop'.aborted = loop.aborted /\ loop'.at \in {"finish", "calling"}
  BY <1>1, <1>3, ZenonT(60) DEF Loops
<1>6. chat' \in Seq(Items) /\ Good(chat') /\ requests' \in Nat /\ requests <= requests'
  <2>1. Good(chat)
    BY DEF CallsAreAnswered, Good
  <2>2. loop.message \/ compact \in BOOLEAN
    BY <1>3 DEF Loops
  <2>3. Asking(loop.message \/ compact) \in Seq(Items) /\ Good(Asking(loop.message \/ compact))
    BY <1>2, <2>2, AskedWell
  <2> QED
    BY <1>1, <1>3, <2>1, <2>3
<1>7. \/ loop'.at = "finish" /\ step' = "off" /\ requests' = requests
      \/ /\ loop'.at = "calling" /\ requests' # 0
         /\ step' = IF kind = "codex" THEN "begin" ELSE "post"
  <2>1. CASE Refuses
    BY <1>1, <1>3, <1>4, <2>1 DEF Loops
  <2>2. CASE ~Refuses
    <3>1. loop' = [loop EXCEPT !.at = "calling", !.compact = compact] /\ requests' = requests + 1
      BY <1>1, <2>2
    <3>2. loop'.at = "calling" /\ requests' # 0
      BY <1>3, <3>1 DEF Loops
    <3> QED
      BY <1>1, <2>2, <3>2
  <2> QED
    BY <2>1, <2>2
<1>8. Shapes'
  <2>1. step' \in HttpSteps \cup CodexSteps \cup {"off"}
    BY <1>7 DEF HttpSteps, CodexSteps
  <2>2. DOMAIN log' \subseteq 1 .. requests'
    BY <1>2, <1>3, <1>6
  <2>3. adapter'.state.response <= requests' /\ ck'.context.response <= requests'
    <3>1. adapter.state.response \in Nat /\ ck.context.response \in Nat
      BY <1>3 DEF Adapters, SavedRecords, States
    <3> QED
      BY <1>2, <1>3, <1>6, <3>1 DEF Shapes
  <2>4. over' \in BOOLEAN /\ attempt' \in 1 .. MaxAttempts
    BY <1>2, <1>3
  <2> QED
    BY <1>2, <1>5, <1>6, <2>1, <2>2, <2>3, <2>4 DEF Shapes
<1>9. Phases'
  <2>1. /\ step' # "off" <=> loop'.at = "calling"
        /\ kind # "codex" => step' \notin CodexSteps
        /\ kind = "codex" => step' \notin HttpSteps
        /\ step' \notin {"sleep", "catching"}
    BY <1>7 DEF CodexSteps, HttpSteps, Waiting
  <2>2. Interruptible' = Interruptible
    BY <1>2 DEF Interruptible
  <2> QED
    BY <1>2, <1>4, <1>5, <1>7, <2>1, <2>2 DEF Phases
<1>10. Usage'
  BY <1>2, UsageStays
<1>11. Carried'
  BY <1>2, <1>5, CarriedStays
<1>12. CallsAreAnswered'
  BY <1>6 DEF CallsAreAnswered, Good
<1> QED
  BY <1>8, <1>9, <1>10, <1>11, <1>12, Parts

(* Steps of the loop that only it takes part in.                           *)
LoopMoves ==
  /\ loop.at \in {"idle", "tools"} /\ loop' \in Loops
  /\ loop'.at \in {"idle", "finish"} /\ loop'.aborted = loop.aborted
  /\ loop'.at = "idle" /\ loop'.results => loop.at = "tools" /\ loop'.prev = loop.prev /\ loop'.call = loop.call
  /\ UNCHANGED <<kind, ck, step, over, adapter, http, codex, count>>

LEMMA LoopMoving ==
  ASSUME Shapes, RunTools \/ FinalAnswer \/ Compacted \/ ThrowIfStopped
  PROVE  LoopMoves
<1>1. loop \in Loops
  BY DEF Shapes
<1>2. CASE RunTools
  <2>1. PICK picture \in BOOLEAN :
          loop' = [loop EXCEPT !.at = IF loop.aborted THEN "finish" ELSE "idle", !.results = TRUE,
                               !.picture = picture /\ kind = "openrouter", !.message = FALSE]
    BY <1>2 DEF RunTools
  <2>2. loop' \in Loops /\ loop'.at \in {"idle", "finish"} /\ loop'.aborted = loop.aborted
        /\ loop'.prev = loop.prev /\ loop'.call = loop.call
    BY <1>1, <2>1 DEF Loops
  <2> QED
    BY <1>2, <2>2 DEF RunTools, LoopMoves
<1>3. CASE FinalAnswer
  BY <1>1, <1>3 DEF FinalAnswer, LoopMoves, Loops
<1>4. CASE Compacted
  <2>1. loop' = [loop EXCEPT !.at = "idle", !.prev = None, !.results = FALSE, !.call = None, !.compact = FALSE]
    BY <1>4 DEF Compacted
  <2>2. None \in Nat /\ None \in Called
    BY DEF None, Called
  <2>3. loop' \in Loops /\ loop'.at = "idle" /\ loop'.aborted = loop.aborted /\ ~loop'.results
    BY <1>1, <2>1, <2>2 DEF Loops
  <2> QED
    BY <1>4, <2>3 DEF Compacted, LoopMoves
<1>5. CASE ThrowIfStopped
  BY <1>1, <1>5 DEF ThrowIfStopped, LoopMoves, Loops
<1> QED
  BY <1>2, <1>3, <1>4, <1>5

LEMMA LoopMovesInv == ProviderInv /\ LoopMoves => ProviderInv'
<1> SUFFICES ASSUME ProviderInv, LoopMoves PROVE ProviderInv'
  OBVIOUS
<1> USE DEF ProviderInv
<1>1. /\ UNCHANGED <<kind, ck, step, over, adapter, attempt, chat, log, child, thread, asked, waits, charged, requests, starts>>
      /\ loop.at \in {"idle", "tools"} /\ loop' \in Loops
      /\ loop'.at \in {"idle", "finish"} /\ loop'.aborted = loop.aborted
      /\ loop'.at = "idle" /\ loop'.results => loop.at = "tools" /\ loop'.prev = loop.prev /\ loop'.call = loop.call
  BY DEF LoopMoves, http, codex, count
<1>2. Shapes'
  BY <1>1 DEF Shapes
<1>3. Phases'
  <2>1. Interruptible' = Interruptible
    BY <1>1 DEF Interruptible
  <2>2. step = "off" /\ "catch" \notin waits /\ "finish" \notin waits
    BY <1>1 DEF Phases
  <2> QED
    BY <1>1, <2>1, <2>2 DEF Phases
<1>4. Usage'
  BY <1>1, UsageStays
<1>5. Carried'
  BY <1>1, CarriedStays
<1> QED
  BY <1>1, <1>2, <1>3, <1>4, <1>5, ChatStays, Parts

LEMMA Interrupting ==
  ASSUME Shapes, Phases, NEW who \in {"stop", "catch", "finish"}, Interrupts(who)
  PROVE  /\ adapter' \in Adapters /\ child' \in Children /\ adapter'.state.response <= requests
         /\ adapter'.total = adapter.total /\ adapter'.reported = adapter.reported
         /\ child'.events = child.events \/ child'.events = <<>>
         /\ asked' \in BOOLEAN /\ waits' \subseteq waits \cup {who} /\ (asked' <=> waits' # {})
         /\ asked' => Interruptible'
         /\ Interruptible => waits' = waits \cup {who} /\ adapter' = adapter
         /\ ~Interruptible => waits' = {} /\ waits = {} /\ ~adapter'.rpc
         /\ child'.up = "run" => adapter'.rpc
         /\ (~adapter.rpc => ~adapter'.rpc) /\ (~adapter.listening => ~adapter'.listening)
<1>1. /\ adapter \in Adapters /\ child \in Children /\ adapter.state.response <= requests
      /\ asked \in BOOLEAN /\ (asked <=> waits # {}) /\ (asked => Interruptible)
      /\ child.up = "run" => adapter.rpc
  BY DEF Shapes, Phases
<1>2. CASE Interruptible
  <2>1. asked' = TRUE /\ waits' = waits \cup {who} /\ adapter' = adapter /\ child' = child
    BY <1>2 DEF Interrupts
  <2>2. Interruptible'
    BY <1>2, <2>1 DEF Interruptible
  <2> QED
    BY <1>1, <1>2, <2>1, <2>2
<1>3. CASE ~Interruptible
  <2>1. Close /\ asked' = asked /\ waits' = waits
    BY <1>3 DEF Interrupts
  <2> QED
    BY <1>1, <1>3, <2>1, ClosedWell
<1> QED
  BY <1>2, <1>3

LEMMA AbortInv == ProviderInv /\ Abort => ProviderInv'
<1> SUFFICES ASSUME ProviderInv, Abort PROVE ProviderInv'
  OBVIOUS
<1> USE DEF ProviderInv
<1>1. /\ UNCHANGED <<kind, ck, step, over, attempt, chat, log, thread, charged, requests, starts>>
      /\ loop' = [loop EXCEPT !.aborted = TRUE] /\ loop.at \in {"idle", "calling", "tools"}
  BY DEF Abort, http, count
<1>2. /\ loop' \in Loops /\ loop'.aborted /\ loop'.at = loop.at /\ loop'.results = loop.results
      /\ loop'.prev = loop.prev /\ loop'.call = loop.call
  BY <1>1 DEF Shapes, Loops
<1>3. /\ adapter' \in Adapters /\ child' \in Children /\ adapter'.state.response <= requests
      /\ adapter'.total = adapter.total /\ adapter'.reported = adapter.reported
      /\ child'.events = child.events \/ child'.events = <<>>
      /\ asked' \in BOOLEAN /\ waits' \subseteq waits \cup {"stop"} /\ (asked' <=> waits' # {})
      /\ asked' => Interruptible'
      /\ waits \subseteq waits'
      /\ child'.up = "run" => adapter'.rpc
      /\ kind # "codex" => adapter' = adapter
  <2>1. CASE adapter.listening
    <3>1. Interrupts("stop") /\ kind = "codex"
      BY <1>1, <2>1 DEF Abort, Phases
    <3>2. waits \subseteq waits'
      BY <3>1, Interrupting
    <3> QED
      BY <3>1, <3>2, Interrupting
  <2>2. CASE ~adapter.listening
    <3>1. UNCHANGED <<adapter, child, asked, waits>>
      BY <2>2 DEF Abort
    <3>2. Interruptible' = Interruptible
      BY <3>1 DEF Interruptible
    <3> QED
      BY <3>1, <3>2 DEF Shapes, Phases
  <2> QED
    BY <2>1, <2>2
<1>4. Shapes'
  BY <1>1, <1>2, <1>3 DEF Shapes
<1>5. Phases'
  <2>1. /\ "catch" \in waits <=> step = "catching"
        /\ "finish" \in waits => loop.at = "finish"
    BY DEF Phases
  <2>2. /\ "catch" \in waits' <=> "catch" \in waits
        /\ "finish" \notin waits'
    BY <1>1, <1>3, <2>1
  <2>3. kind # "codex" => ~adapter'.rpc /\ ~adapter'.listening
    BY <1>3 DEF Phases
  <2> QED
    BY <1>1, <1>2, <1>3, <2>1, <2>2, <2>3 DEF Phases
<1>6. Usage'
  BY <1>1, <1>3, UsageStays
<1>7. Carried'
  BY <1>1, <1>2, <1>3, CarriedStays
<1> QED
  BY <1>1, <1>4, <1>5, <1>6, <1>7, ChatStays, Parts

LEMMA FinishInv == ProviderInv /\ Finish => ProviderInv'
<1> SUFFICES ASSUME ProviderInv, Finish PROVE ProviderInv'
  OBVIOUS
<1> USE DEF ProviderInv
<1>1. /\ UNCHANGED <<kind, ck, step, over, attempt, chat, log, thread, charged, requests, starts>>
      /\ loop.at = "finish" /\ "finish" \notin waits
  BY DEF Finish, http, count
<1>2. step = "off" /\ "catch" \notin waits /\ loop \in Loops
  BY <1>1 DEF Phases, Shapes
<1>3. CASE loop.aborted /\ Interruptible
  <2>1. asked' = TRUE /\ waits' = waits \cup {"finish"} /\ UNCHANGED <<adapter, child, loop>>
    BY <1>3 DEF Finish
  <2>2. Interruptible'
    BY <1>3, <2>1 DEF Interruptible
  <2>3. Shapes'
    BY <1>1, <2>1 DEF Shapes
  <2>4. Phases'
    BY <1>1, <1>2, <1>3, <2>1, <2>2 DEF Phases
  <2>5. Usage' /\ Carried'
    BY <1>1, <2>1, UsageStays, CarriedStays
  <2> QED
    BY <1>1, <2>3, <2>4, <2>5, ChatStays, Parts
<1>4. CASE ~(loop.aborted /\ Interruptible)
  <2>1. Close /\ loop' = [loop EXCEPT !.at = "settled"] /\ UNCHANGED <<asked, waits>>
    BY <1>4 DEF Finish
  <2>2. loop' \in Loops /\ loop'.at = "settled"
    BY <1>2, <2>1 DEF Loops
  <2>3. waits = {} /\ ~asked
    <3>1. waits \subseteq {"stop"}
      BY <1>1, <1>2 DEF Shapes
    <3>2. "stop" \notin waits
      BY <1>4 DEF Phases
    <3> QED
      BY <3>1, <3>2 DEF Phases
  <2>4. /\ adapter' \in Adapters /\ ~adapter'.rpc /\ ~adapter'.listening
        /\ adapter'.total = adapter.total /\ adapter'.reported = adapter.reported
        /\ adapter'.state.response <= requests
        /\ child' \in Children /\ (child'.events = child.events \/ child'.events = <<>>)
        /\ child'.up # "run"
    BY <2>1, ClosedWell DEF Phases
  <2>5. Shapes'
    BY <1>1, <2>1, <2>2, <2>4 DEF Shapes
  <2>6. Phases'
    BY <1>1, <1>2, <2>1, <2>2, <2>3, <2>4 DEF Phases
  <2>7. Usage'
    BY <1>1, <2>4, UsageStays
  <2>8. Carried'
    BY <1>1, <2>2, CarriedStays
  <2> QED
    BY <1>1, <2>5, <2>6, <2>7, <2>8, ChatStays, Parts
<1> QED
  BY <1>3, <1>4

LEMMA ContinueInv == ProviderInv /\ Continue => ProviderInv'
<1> SUFFICES ASSUME ProviderInv, Continue PROVE ProviderInv'
  OBVIOUS
<1> USE DEF ProviderInv
<1>1. /\ UNCHANGED <<kind, ck, step, over, attempt, chat, log, thread, asked, waits, charged, requests>>
      /\ loop.at = "settled" /\ adapter' = Restored(ck) /\ child' = NoProcess /\ loop' = Fresh(ck)
  BY DEF Continue, http
<1>2. ck \in SavedRecords /\ step = "off" /\ waits = {} /\ ~asked
  BY <1>1 DEF Shapes, Phases
<1>3. /\ adapter' \in Adapters /\ adapter'.state = ck.context /\ ~adapter'.rpc /\ ~adapter'.listening
      /\ adapter'.total = ck.usage /\ adapter'.reported = ck.usage
  <2>1. Restored(ck) \in Adapters
    BY <1>2, StartingRecords
  <2>2. RestoredContext(ck) = [Adapter EXCEPT !.state = ck.context]
    BY DEF RestoredContext
  <2>3. RestoredContext(ck).state = ck.context /\ ~RestoredContext(ck).rpc /\ ~RestoredContext(ck).listening
    BY <2>2 DEF Adapter
  <2>4. RestoredContext(ck) \in Adapters
    BY <1>2, <2>2, StartingRecords DEF SavedRecords, Adapters
  <2> QED
    BY <1>1, <2>1, <2>3, <2>4 DEF Restored, Adapters
<1>4. child' \in Children /\ child'.events = <<>> /\ child'.up = "none"
  BY <1>1, StartingRecords DEF NoProcess
<1>5. loop' \in Loops
  BY <1>1, <1>2, StartingRecords
<1>6. /\ loop'.at = "idle" /\ (loop'.results <=> kind # "codex" /\ ck.response # None)
      /\ loop'.results => loop'.prev = ck.response /\ loop'.call = ck.pending
  BY <1>1 DEF Fresh
<1>7. Shapes'
  <2>1. adapter'.state.response <= requests' /\ ck'.context.response <= requests'
    BY <1>1, <1>3 DEF Shapes
  <2> QED
    BY <1>1, <1>3, <1>4, <1>5, <2>1 DEF Shapes
<1>8. Phases'
  BY <1>1, <1>2, <1>3, <1>4, <1>6 DEF Phases
<1>9. Usage'
  <2>1. charged \in Nat /\ adapter.reported \in Nat /\ adapter.total \in Nat
    BY DEF Shapes, Adapters
  <2>2. DOMAIN child'.events = {}
    BY <1>4
  <2> QED
    BY <1>1, <1>3, <2>1, <2>2 DEF Usage, Rising
<1>10. Carried'
  BY <1>1, <1>3, <1>6 DEF Carried, CarriesOn
<1> QED
  BY <1>1, <1>7, <1>8, <1>9, <1>10, ChatStays, Parts

LEMMA DiesInv == ProviderInv /\ Dies => ProviderInv'
<1> SUFFICES ASSUME ProviderInv, Dies PROVE ProviderInv'
  OBVIOUS
<1> USE DEF ProviderInv
<1>1. /\ UNCHANGED <<kind, ck, attempt, chat, log, thread, charged, requests, starts>>
      /\ loop' = [loop EXCEPT !.at = "settled"]
      /\ adapter' = Closed(adapter) /\ child' = (IF child.up = "none" THEN child ELSE Ended(child))
      /\ step' = "off" /\ over' = FALSE /\ asked' = FALSE /\ waits' = {}
  BY DEF Dies, http, count
<1>2. loop' \in Loops /\ loop'.at = "settled"
  BY <1>1 DEF Shapes, Loops
<1>3. /\ adapter' \in Adapters /\ ~adapter'.rpc /\ ~adapter'.listening
      /\ adapter'.total = adapter.total /\ adapter'.reported = adapter.reported
      /\ adapter'.state.response <= requests
  BY <1>1, ClosedAdapter
<1>4. child' \in Children /\ (child'.events = child.events \/ child'.events = <<>>) /\ child'.up # "run"
  <2>1. child \in Children /\ <<>> \in Seq(Events)
    BY EmptySeq DEF Shapes
  <2> QED
    BY <1>1, <2>1 DEF Ended, Children
<1>5. Shapes'
  BY <1>1, <1>2, <1>3, <1>4 DEF Shapes
<1>6. Phases'
  BY <1>1, <1>2, <1>3, <1>4, Apart DEF Phases
<1>7. Usage'
  BY <1>1, <1>3, <1>4, UsageStays
<1>8. Carried'
  BY <1>1, <1>2, CarriedStays
<1> QED
  BY <1>1, <1>5, <1>6, <1>7, <1>8, ChatStays, Parts

-----------------------------------------------------------------------------
(* Codex's turn.                                                           *)

(* A step of the turn that leaves the requests and the waiting alone.      *)
LEMMA TurnSteps ==
  ASSUME ProviderInv, step \in CodexSteps, step # "catching",
         UNCHANGED <<kind, http, requests, asked, waits, over, loop>>,
         step' \in CodexSteps, step' # "catching",
         ck' \in SavedRecords, ck'.context = ck.context, ck'.usage = ck.usage, ck'.response = ck.response,
         adapter' \in Adapters, adapter'.state = adapter.state,
         adapter'.total = adapter.total, adapter'.reported = adapter.reported, charged' = charged,
         child' \in Children, child'.events = child.events \/ child'.events = <<>>,
         thread' \in Threads, thread'.told = thread.told,
         asked => Interruptible', child'.up = "run" => adapter'.rpc
  PROVE  ProviderInv'
<1> USE DEF ProviderInv
<1>1. UNCHANGED <<attempt, chat, log>>
  BY DEF http
<1>2. kind = "codex" /\ loop.at = "calling"
  BY Apart DEF Phases
<1>3. Shapes'
  BY <1>1 DEF Shapes
<1>4. Phases'
  <2>1. step' \notin HttpSteps /\ step' # "off" /\ step' # "sleep"
    BY Apart DEF HttpSteps
  <2> QED
    BY <1>1, <1>2, <2>1 DEF Phases
<1>5. Usage'
  BY UsageStays
<1>6. Carried'
  BY <1>2 DEF Carried
<1> QED
  BY <1>1, <1>3, <1>4, <1>5, <1>6, ChatStays, Parts

LEMMA BeginInv == ProviderInv /\ Begin => ProviderInv'
<1> SUFFICES ASSUME ProviderInv, Begin PROVE ProviderInv'
  OBVIOUS
<1> USE DEF ProviderInv
<1>1. /\ step = "begin"
      /\ UNCHANGED <<loop, ck, over, thread, asked, waits, charged, kind, http, requests>>
  BY DEF Begin, Codex
<1>2. /\ adapter \in Adapters /\ child \in Children /\ ck \in SavedRecords /\ thread \in Threads
      /\ (asked => Interruptible) /\ (child.up = "run" => adapter.rpc)
  BY DEF Shapes, Phases
<1>3. step \in CodexSteps /\ {"catch", "init", "answers", "resume", "thread"} \subseteq CodexSteps \ {"catching"}
  BY <1>1 DEF CodexSteps, Waiting
<1>4. CASE UNCHANGED <<adapter, child>> /\ step' \in {"catch", "answers", "resume", "thread"}
  <2>1. Interruptible' = Interruptible
    BY <1>4 DEF Interruptible
  <2> QED
    BY <1>1, <1>2, <1>3, <1>4, <2>1, TurnSteps
<1>5. CASE ~adapter.rpc /\ step' = "init" /\ adapter' = [adapter EXCEPT !.rpc = TRUE, !.listening = TRUE] /\ child' = Spawned
  <2>1. ~asked
    BY <1>2, <1>5 DEF Interruptible
  <2>2. /\ adapter' \in Adapters /\ adapter'.state = adapter.state /\ adapter'.rpc
        /\ adapter'.total = adapter.total /\ adapter'.reported = adapter.reported
    BY <1>2, <1>5 DEF Adapters
  <2>3. child' \in Children /\ child'.events = <<>>
    BY <1>5, StartingRecords DEF Spawned, NoProcess, Children
  <2> QED
    BY <1>1, <1>2, <1>3, <1>5, <2>1, <2>2, <2>3, TurnSteps
<1> QED
  <2>1. Asked \in {"answers", "resume", "thread"}
    BY DEF Asked
  <2> QED
    BY <1>4, <1>5, <2>1 DEF Begin

LEMMA RepliedInv == ProviderInv /\ Replied => ProviderInv'
<1> SUFFICES ASSUME ProviderInv, Replied PROVE ProviderInv'
  OBVIOUS
<1> USE DEF ProviderInv
<1>1. /\ step \in {"init", "auth", "resume", "thread", "start"}
      /\ UNCHANGED <<loop, over, child, asked, waits, charged, kind, http, requests>>
  BY DEF Replied, Codex, Waiting
<1>2. /\ adapter \in Adapters /\ child \in Children /\ ck \in SavedRecords /\ thread \in Threads
      /\ (asked => Interruptible) /\ (child.up = "run" => adapter.rpc)
  BY DEF Shapes, Phases
<1>3. step \in CodexSteps /\ step # "catching"
  BY <1>1 DEF CodexSteps, Waiting
<1>4. step' \in CodexSteps /\ step' # "catching"
  <2>1. Asked \in {"answers", "resume", "thread"}
    BY DEF Asked
  <2>2. step' \in {"auth", "answers", "resume", "thread", "start", "next"}
    BY <1>1, <2>1 DEF Replied
  <2> QED
    BY <2>2 DEF CodexSteps, Waiting
<1>5. /\ adapter' \in Adapters /\ adapter'.state = adapter.state
      /\ adapter'.total = adapter.total /\ adapter'.reported = adapter.reported
      /\ adapter'.rpc = adapter.rpc /\ (adapter.thread => adapter'.thread) /\ (adapter.turn => adapter'.turn)
  <2>1. PICK b1, b2, b3 \in BOOLEAN :
          /\ adapter' = [adapter EXCEPT !.resume = b1, !.thread = b2, !.turn = b3]
          /\ (adapter.thread => b2) /\ (adapter.turn => b3)
    <3>1. adapter' = [adapter EXCEPT !.resume = IF step = "resume" THEN FALSE ELSE adapter.resume,
                                     !.thread = adapter.thread \/ step = "thread",
                                     !.turn = adapter.turn \/ step = "start"]
      BY DEF Replied
    <3>2. adapter.resume \in BOOLEAN
      BY <1>2 DEF Adapters
    <3> QED
      BY <3>1, <3>2
  <2> QED
    BY <1>2, <2>1 DEF Adapters
<1>6. ck' \in SavedRecords /\ ck'.context = ck.context /\ ck'.usage = ck.usage /\ ck'.response = ck.response
  BY <1>2 DEF Replied, SavedRecords
<1>7. thread' \in Threads /\ thread'.told = thread.told
  BY <1>2 DEF Replied, Threads
<1>8. asked => Interruptible'
  BY <1>2, <1>5 DEF Interruptible
<1> QED
  BY <1>1, <1>2, <1>3, <1>4, <1>5, <1>6, <1>7, <1>8, TurnSteps

LEMMA AnsweringInv == ProviderInv /\ (Steer \/ Answers \/ Rejected) => ProviderInv'
<1> SUFFICES ASSUME ProviderInv, Steer \/ Answers \/ Rejected PROVE ProviderInv'
  OBVIOUS
<1> USE DEF ProviderInv
<1>1. UNCHANGED <<loop, ck, over, child, asked, waits, charged, kind, http, requests>>
  BY DEF Steer, Answers, Rejected, Codex
<1>2. /\ adapter \in Adapters /\ child \in Children /\ ck \in SavedRecords /\ thread \in Threads
      /\ (asked => Interruptible) /\ (child.up = "run" => adapter.rpc)
  BY DEF Shapes, Phases
<1>3. step \in CodexSteps /\ step # "catching" /\ step' \in CodexSteps /\ step' # "catching"
  BY DEF CodexSteps, Waiting, Steer, Answers, Rejected
<1>4. \/ UNCHANGED <<adapter, thread>>
      \/ /\ adapter' = [adapter EXCEPT !.pending = @ \ {loop.call}]
         /\ thread' = [thread EXCEPT !.open = @ \ {loop.call}]
  BY DEF Steer, Answers, Rejected
<1>5. /\ adapter' \in Adapters /\ adapter'.state = adapter.state
      /\ adapter'.total = adapter.total /\ adapter'.reported = adapter.reported
      /\ adapter'.rpc = adapter.rpc /\ adapter'.thread = adapter.thread /\ adapter'.turn = adapter.turn
  BY <1>2, <1>4 DEF Adapters
<1>6. thread' \in Threads /\ thread'.told = thread.told
  BY <1>2, <1>4 DEF Threads
<1>7. Interruptible' = Interruptible
  BY <1>5 DEF Interruptible
<1> QED
  BY <1>1, <1>2, <1>3, <1>5, <1>6, <1>7, TurnSteps

LEMMA OvertimeInv == ProviderInv /\ Overtime => ProviderInv'
<1> SUFFICES ASSUME ProviderInv, Overtime PROVE ProviderInv'
  OBVIOUS
<1> USE DEF ProviderInv
<1>1. /\ UNCHANGED <<loop, ck, step, adapter, child, thread, asked, waits, charged, kind, attempt, chat, log, requests>>
      /\ over' = TRUE
  BY DEF Overtime, Codex, http
<1>2. Shapes'
  BY <1>1 DEF Shapes
<1>3. Phases'
  <2>1. Interruptible' = Interruptible
    BY <1>1 DEF Interruptible
  <2> QED
    BY <1>1, <2>1 DEF Phases
<1>4. Usage' /\ Carried'
  BY <1>1, UsageStays, CarriedStays
<1> QED
  BY <1>1, <1>2, <1>3, <1>4, ChatStays, Parts

LEMMA CatchInv == ProviderInv /\ Catch => ProviderInv'
<1> SUFFICES ASSUME ProviderInv, Catch PROVE ProviderInv'
  OBVIOUS
<1> USE DEF ProviderInv
<1>1. /\ step = "catch" /\ Interrupts("catch")
      /\ UNCHANGED <<ck, over, thread, charged, kind, attempt, chat, log, requests>>
  BY DEF Catch, Codex, http
<1>2. /\ loop \in Loops /\ kind = "codex" /\ loop.at = "calling" /\ "finish" \notin waits
      /\ "catch" \notin waits
  BY <1>1, Apart DEF Shapes, Phases, CodexSteps
<1>3. /\ adapter' \in Adapters /\ child' \in Children /\ adapter'.state.response <= requests
      /\ adapter'.total = adapter.total /\ adapter'.reported = adapter.reported
      /\ child'.events = child.events \/ child'.events = <<>>
      /\ asked' \in BOOLEAN /\ waits' \subseteq waits \cup {"catch"} /\ (asked' <=> waits' # {})
      /\ asked' => Interruptible'
      /\ Interruptible => waits' = waits \cup {"catch"}
      /\ ~Interruptible => waits' = {}
      /\ child'.up = "run" => adapter'.rpc
  BY <1>1, Interrupting
<1>4. \/ Interruptible /\ step' = "catching" /\ loop' = loop
      \/ ~Interruptible /\ step' = "off" /\ loop' = [loop EXCEPT !.at = "finish"]
  BY DEF Catch, Throws
<1>5. /\ loop' \in Loops /\ loop'.aborted = loop.aborted
      /\ \/ Interruptible /\ step' = "catching" /\ loop'.at = "calling"
         \/ ~Interruptible /\ step' = "off" /\ loop'.at = "finish"
  BY <1>2, <1>4 DEF Loops
<1>6. step' \in CodexSteps \cup {"off"} /\ step' \notin HttpSteps /\ step' # "sleep"
  BY <1>5 DEF CodexSteps, HttpSteps
<1>7. Shapes'
  BY <1>1, <1>3, <1>5, <1>6 DEF Shapes
<1>8. Phases'
  BY <1>1, <1>2, <1>3, <1>5, <1>6 DEF Phases
<1>9. Usage'
  BY <1>1, <1>3, UsageStays
<1>10. Carried'
  BY <1>1, <1>2 DEF Carried
<1> QED
  BY <1>1, <1>7, <1>8, <1>9, <1>10, ChatStays, Parts

LEMMA InterruptedInv == ProviderInv /\ Interrupted => ProviderInv'
<1> SUFFICES ASSUME ProviderInv, Interrupted PROVE ProviderInv'
  OBVIOUS
<1> USE DEF ProviderInv
<1>1. /\ asked /\ asked' = FALSE /\ waits' = {} /\ Close
      /\ UNCHANGED <<ck, over, charged, kind, attempt, chat, log, requests>>
      /\ loop' = IF "finish" \in waits THEN [loop EXCEPT !.at = "settled"]
                 ELSE IF "catch" \in waits THEN [loop EXCEPT !.at = "finish"] ELSE loop
      /\ step' = IF "catch" \in waits THEN "off" ELSE step
      /\ thread' = thread \/ thread' = [thread EXCEPT !.active = FALSE, !.open = {}]
  BY DEF Interrupted, Codex, http
<1>2. /\ loop \in Loops /\ thread \in Threads /\ kind = "codex"
      /\ "finish" \in waits => loop.at = "finish"
      /\ "catch" \in waits <=> step = "catching"
      /\ step # "off" <=> loop.at = "calling"
  BY <1>1 DEF Shapes, Phases, Interruptible
<1>3. /\ adapter' \in Adapters /\ ~adapter'.rpc /\ ~adapter'.listening
      /\ adapter'.total = adapter.total /\ adapter'.reported = adapter.reported
      /\ adapter'.state.response <= requests
      /\ child' \in Children /\ (child'.events = child.events \/ child'.events = <<>>)
      /\ child'.up # "run"
  BY <1>1, ClosedWell DEF Phases
<1>4. thread' \in Threads /\ thread'.told = thread.told
  BY <1>1, <1>2 DEF Threads
<1>5. /\ loop' \in Loops /\ loop'.aborted = loop.aborted
      /\ loop'.at = IF "finish" \in waits THEN "settled" ELSE IF "catch" \in waits THEN "finish" ELSE loop.at
  BY <1>1, <1>2 DEF Loops
<1>6. step' # "off" <=> loop'.at = "calling"
  BY <1>1, <1>2, <1>5
<1>7. step' # "catching" /\ step' \notin HttpSteps /\ (loop'.at = "calling" => loop.at = "calling")
      /\ step' \in {step, "off"}
  BY <1>1, <1>2, <1>5, Apart DEF Phases
<1>8. Shapes'
  BY <1>1, <1>3, <1>4, <1>5, <1>7 DEF Shapes
<1>9. Phases'
  <2>1. step' # "sleep"
    BY <1>7 DEF HttpSteps
  <2> QED
    BY <1>1, <1>2, <1>3, <1>5, <1>6, <1>7, <2>1 DEF Phases
<1>10. Usage'
  BY <1>1, <1>3, <1>4, UsageStays
<1>11. Carried'
  BY <1>1, <1>2 DEF Carried
<1> QED
  BY <1>1, <1>8, <1>9, <1>10, <1>11, ChatStays, Parts

-----------------------------------------------------------------------------
(* The events of the child.                                                *)
LEMMA Taking ==
  ASSUME NEW q \in Seq(Events), q # <<>>
  PROVE  /\ Head(q) \in Events /\ Head(q) = q[1] /\ 1 \in DOMAIN q /\ Tail(q) \in Seq(Events)
         /\ \A i \in DOMAIN Tail(q) : i + 1 \in DOMAIN q /\ Tail(q)[i] = q[i + 1] /\ 1 < i + 1
         /\ Rising(q) => Rising(Tail(q))
<1>1. Len(q) \in Nat \ {0} /\ DOMAIN q = 1 .. Len(q)
  BY EmptySeq, LenProperties
<1>2. /\ Head(q) \in Events /\ Head(q) = q[1] /\ Tail(q) \in Seq(Events)
      /\ Len(Tail(q)) = Len(q) - 1 /\ \A i \in 1 .. Len(Tail(q)) : Tail(q)[i] = q[i + 1]
  BY HeadTailProperties
<1>3. DOMAIN Tail(q) = 1 .. Len(q) - 1
  BY <1>2, LenProperties
<1>4. \A i \in DOMAIN Tail(q) : i + 1 \in DOMAIN q /\ Tail(q)[i] = q[i + 1] /\ 1 < i + 1
  BY <1>1, <1>2, <1>3
<1>5. ASSUME Rising(q) PROVE Rising(Tail(q))
  <2> SUFFICES ASSUME NEW i \in DOMAIN Tail(q), NEW j \in DOMAIN Tail(q), i < j,
                      Tail(q)[i].kind = "usage", Tail(q)[j].kind = "usage"
               PROVE  Tail(q)[i].n <= Tail(q)[j].n
    BY DEF Rising
  <2>1. i + 1 < j + 1
    BY <1>3
  <2> QED
    BY <1>4, <1>5, <2>1 DEF Rising
<1> QED
  BY <1>1, <1>2, <1>4, <1>5

LEMMA NextEventInv == ProviderInv /\ NextEvent => ProviderInv'
<1> SUFFICES ASSUME ProviderInv, NextEvent PROVE ProviderInv'
  OBVIOUS
<1> USE DEF ProviderInv
<1> DEFINE e == Head(child.events)
<1>1. /\ step = "next" /\ child.events # <<>> /\ child' = [child EXCEPT !.events = Tail(child.events)]
      /\ UNCHANGED <<over, thread, asked, waits, kind, attempt, chat, log, requests>>
  BY DEF NextEvent, Codex, http
<1>2. /\ loop \in Loops /\ ck \in SavedRecords /\ adapter \in Adapters /\ child \in Children /\ thread \in Threads
      /\ charged \in Nat /\ requests \in Nat /\ adapter.state.response <= requests
      /\ ck.context.response <= requests
  BY DEF Shapes
<1>3. /\ child.events \in Seq(Events) /\ adapter.total \in Nat /\ adapter.reported \in Nat /\ thread.told \in Nat
  BY <1>2 DEF Children, Adapters, Threads
<1>4. /\ e \in Events /\ e = child.events[1] /\ 1 \in DOMAIN child.events
      /\ Tail(child.events) \in Seq(Events) /\ Rising(Tail(child.events))
      /\ \A i \in DOMAIN Tail(child.events) :
           i + 1 \in DOMAIN child.events /\ Tail(child.events)[i] = child.events[i + 1] /\ 1 < i + 1
  BY <1>1, <1>3, Taking DEF Usage
<1>5. kind = "codex" /\ loop.at = "calling" /\ "catch" \notin waits /\ "finish" \notin waits
  BY <1>1, Apart DEF Phases, CodexSteps, Waiting
<1>6. child' \in Children /\ child'.events = Tail(child.events) /\ child'.up = child.up
  BY <1>1, <1>2, <1>4 DEF Children
<1>7. Carried'
  BY <1>1, <1>5 DEF Carried
<1>8. /\ \A i \in DOMAIN child'.events : child'.events[i].kind = "usage" =>
           adapter.total <= child'.events[i].n /\ child'.events[i].n <= thread.told
      /\ Rising(child'.events)
  BY <1>4, <1>6 DEF Usage
<1>9. CASE /\ e.kind \in {"call", "done"}
           /\ \E call \in ToolCalls \cup {None}, pending \in SUBSET ToolCalls :
                /\ adapter' = [adapter EXCEPT !.pending = pending, !.reported = adapter.total]
                /\ Result(call)
  <2>1. PICK call \in ToolCalls \cup {None}, pending \in SUBSET ToolCalls :
          /\ adapter' = [adapter EXCEPT !.pending = pending, !.reported = adapter.total]
          /\ Result(call)
    BY <1>9
  <2>2. /\ adapter' \in Adapters /\ adapter'.total = adapter.total /\ adapter'.reported = adapter.total
        /\ adapter'.state = adapter.state /\ adapter'.rpc = adapter.rpc
        /\ adapter'.thread = adapter.thread /\ adapter'.turn = adapter.turn
    BY <1>2, <2>1 DEF Adapters
  <2>3. call \in Called
    BY DEF Called
  <2>4. /\ ck' = Saved(requests, call) /\ TurnAnswers(requests, call)
        /\ charged' = charged + (adapter.total - adapter.reported)
    BY <2>1 DEF Result
  <2>5. /\ ck' \in SavedRecords /\ ck'.context.response <= requests /\ ck'.usage = ck.usage
        /\ loop' \in Loops /\ loop'.at = "tools" /\ loop'.aborted = loop.aborted /\ step' = "off"
    BY <1>2, <2>2, <2>3, <2>4, AnswerSaved
  <2>6. charged' \in Nat /\ charged' <= adapter.total
    BY <1>3, <1>2, <2>4 DEF Usage
  <2>7. Shapes'
    BY <1>1, <1>2, <1>6, <2>2, <2>5, <2>6 DEF Shapes
  <2>8. Phases'
    <3>1. Interruptible' = Interruptible
      BY <2>2 DEF Interruptible
    <3>2. "off" \notin HttpSteps
      BY Apart
    <3> QED
      BY <1>1, <1>5, <1>6, <2>2, <2>5, <3>1, <3>2 DEF Phases
  <2>9. Usage'
    BY <1>1, <1>3, <1>8, <2>2, <2>5, <2>6 DEF Usage
  <2> QED
    BY <1>1, <1>7, <2>7, <2>8, <2>9, ChatStays, Parts
<1>10. CASE /\ e.kind = "usage" /\ adapter' = [adapter EXCEPT !.total = e.n]
            /\ ck' = [ck EXCEPT !.usage = e.n] /\ UNCHANGED <<loop, step, charged>>
  <2>1. e.n \in Nat /\ adapter.total <= e.n /\ e.n <= thread.told
    BY <1>4, <1>10 DEF Events, Usage
  <2>2. /\ adapter' \in Adapters /\ adapter'.total = e.n /\ adapter'.reported = adapter.reported
        /\ adapter'.state = adapter.state /\ adapter'.rpc = adapter.rpc
        /\ adapter'.thread = adapter.thread /\ adapter'.turn = adapter.turn
    <3> HIDE DEF e
    <3> QED
      BY <1>2, <1>10, <2>1 DEF Adapters
  <2>3. ck' \in SavedRecords /\ ck'.context = ck.context /\ ck'.usage = e.n
    <3> HIDE DEF e
    <3> QED
      BY <1>2, <1>10, <2>1 DEF SavedRecords
  <2>4. Shapes'
    BY <1>1, <1>6, <1>10, <2>2, <2>3 DEF Shapes
  <2>5. Phases'
    <3>1. Interruptible' = Interruptible
      BY <2>2 DEF Interruptible
    <3>2. step \notin HttpSteps
      BY <1>5 DEF Phases
    <3> QED
      BY <1>1, <1>5, <1>6, <1>10, <2>2, <3>1, <3>2 DEF Phases
  <2>6. \A i \in DOMAIN child'.events : child'.events[i].kind = "usage" => e.n <= child'.events[i].n
    BY <1>4, <1>6, <1>10 DEF Usage, Rising
  <2>7. Usage'
    BY <1>1, <1>3, <1>8, <1>10, <2>1, <2>2, <2>3, <2>6 DEF Usage
  <2> QED
    BY <1>1, <1>7, <2>4, <2>5, <2>7, ChatStays, Parts
<1>11. CASE e.kind = "bad" /\ step' = "catch" /\ UNCHANGED <<adapter, loop, ck, charged>>
  <2>1. Interruptible' = Interruptible
    BY <1>11 DEF Interruptible
  <2>2. step' \in CodexSteps /\ step' \notin HttpSteps
    BY <1>11 DEF CodexSteps, HttpSteps
  <2>3. Shapes'
    BY <1>1, <1>2, <1>6, <1>11, <2>2 DEF Shapes
  <2>4. Phases'
    BY <1>1, <1>5, <1>6, <1>11, <2>1, <2>2 DEF Phases
  <2>5. Usage'
    BY <1>1, <1>8, <1>11 DEF Usage
  <2> QED
    BY <1>1, <1>7, <2>3, <2>4, <2>5, ChatStays, Parts
<1> QED
  <2>1. e.kind = "call" => e.n \in ToolCalls
    BY <1>4 DEF Events
  <2>2. adapter.pending \in SUBSET ToolCalls
    BY <1>2 DEF Adapters
  <2>3. ASSUME e.kind = "call", adapter' = [adapter EXCEPT !.pending = adapter.pending \cup {e.n}, !.reported = adapter.total],
               Result(e.n)
        PROVE  ProviderInv'
    <3> DEFINE n == e.n
               p == adapter.pending \cup {n}
    <3>1. n \in ToolCalls \cup {None} /\ p \in SUBSET ToolCalls
      BY <2>1, <2>2, <2>3
    <3>2. adapter' = [adapter EXCEPT !.pending = p, !.reported = adapter.total] /\ Result(n)
      BY <2>3
    <3> HIDE DEF e, n, p
    <3>3. e.kind = "call"
      BY <2>3
    <3> QED
      BY <1>9, <3>1, <3>2, <3>3
  <2>4. ASSUME e.kind = "done", adapter' = [adapter EXCEPT !.reported = adapter.total], Result(None)
        PROVE  ProviderInv'
    <3>1. adapter' = [adapter EXCEPT !.pending = adapter.pending, !.reported = adapter.total]
      BY <1>2, <2>4 DEF Adapters
    <3> QED
      BY <1>9, <2>2, <2>4, <3>1
  <2> QED
    BY <1>10, <1>11, <2>3, <2>4 DEF NextEvent

(* The child's side leaves the run and the adapter alone.                  *)
LEMMA SideInv ==
  ASSUME ProviderInv, Side, child' \in Children, thread' \in Threads, child'.up \in {child.up, "none", "ending"}, Usage'
  PROVE  ProviderInv'
<1> USE DEF ProviderInv
<1>1. UNCHANGED <<kind, loop, ck, step, over, adapter, attempt, chat, log, asked, waits, charged, requests, starts>>
  BY DEF Side, http, count
<1>2. Shapes'
  BY <1>1 DEF Shapes
<1>3. Interruptible' = Interruptible
  BY <1>1 DEF Interruptible
<1>4. Phases'
  BY <1>1, <1>3 DEF Phases
<1>5. Carried'
  BY <1>1, CarriedStays
<1> QED
  BY <1>1, <1>2, <1>4, <1>5, ChatStays, Parts

LEMMA EventSent ==
  ASSUME ProviderInv, NEW k \in {"call", "usage", "done", "bad"}, NEW n, [kind |-> k, n |-> n] \in Events,
         Event(k, n), Side, thread' \in Threads, thread.told <= thread'.told,
         k = "usage" => n = thread.told + 1 /\ thread'.told = thread.told + 1
  PROVE  ProviderInv'
<1> USE DEF ProviderInv
<1> DEFINE q == child.events
           e == [kind |-> k, n |-> n]
<1>1. /\ child \in Children /\ q \in Seq(Events) /\ thread \in Threads /\ adapter.total \in Nat
      /\ thread.told \in Nat /\ thread'.told \in Nat
  BY DEF Shapes, Children, Adapters, Threads
<1>2. UNCHANGED <<ck, adapter, charged>>
  BY DEF Side
<1>3. CASE child' = child
  <2>1. \A i \in DOMAIN q : q[i].kind = "usage" => q[i].n \in Nat
    BY <1>1, ElementOfSeq, LenProperties DEF Events
  <2>2. Usage'
    BY <1>1, <1>2, <1>3, <2>1 DEF Usage
  <2> QED
    BY <1>1, <1>3, <2>2, SideInv
<1>4. CASE child' = [child EXCEPT !.events = Append(q, e)]
  <2> DEFINE t == Append(q, e)
  <2>1. /\ t \in Seq(Events) /\ DOMAIN t = 1 .. Len(q) + 1 /\ Len(q) \in Nat /\ DOMAIN q = 1 .. Len(q)
        /\ \A i \in 1 .. Len(q) : t[i] = q[i]
        /\ t[Len(q) + 1] = e
    BY <1>1, Lengthened
  <2>2. e.kind = k /\ e.n = n
    OBVIOUS
  <2>3. \A i \in DOMAIN q : q[i].kind = "usage" => q[i].n \in Nat /\ adapter.total <= q[i].n /\ q[i].n <= thread.told
    <3>1. \A i \in DOMAIN q : q[i] \in Events
      BY <1>1, <2>1, ElementOfSeq
    <3> QED
      BY <3>1 DEF Usage, Events
  <2>4. child' = [child EXCEPT !.events = t]
    BY <1>4
  <2> HIDE DEF t, e
  <2>5. child' \in Children /\ child'.events = t /\ child'.up = child.up
    BY <1>1, <2>1, <2>4 DEF Children
  <2>6. \A i \in DOMAIN t : t[i].kind = "usage" =>
          adapter.total <= t[i].n /\ t[i].n <= thread'.told /\ t[i].n \in Nat
    <3> SUFFICES ASSUME NEW i \in DOMAIN t, t[i].kind = "usage"
                 PROVE  adapter.total <= t[i].n /\ t[i].n <= thread'.told /\ t[i].n \in Nat
      OBVIOUS
    <3>1. CASE i \in DOMAIN q
      BY <1>1, <2>1, <2>3, <3>1, SMTT(30)
    <3>2. CASE i = Len(q) + 1
      <4>1. t[i].n = thread.told + 1 /\ thread'.told = thread.told + 1
        BY <2>1, <2>2, <3>2
      <4>2. adapter.total <= thread.told
        BY DEF Usage
      <4> QED
        BY <1>1, <4>1, <4>2
    <3> QED
      BY <2>1, <3>1, <3>2
  <2>7. Rising(t)
    <3> SUFFICES ASSUME NEW i \in DOMAIN t, NEW j \in DOMAIN t, i < j, t[i].kind = "usage", t[j].kind = "usage"
                 PROVE  t[i].n <= t[j].n
      BY DEF Rising
    <3>1. i \in DOMAIN q /\ t[i] = q[i]
      BY <2>1
    <3>2. CASE j \in DOMAIN q
      BY <2>1, <3>1, <3>2 DEF Usage, Rising
    <3>3. CASE j = Len(q) + 1
      <4>1. t[j].n = thread.told + 1
        BY <2>1, <2>2, <3>3
      <4> QED
        BY <1>1, <2>3, <3>1, <4>1
    <3> QED
      BY <2>1, <3>2, <3>3
  <2>8. Usage'
    <3>1. adapter.total <= thread'.told
      BY <1>1 DEF Usage
    <3> QED
      BY <1>2, <2>5, <2>6, <2>7, <3>1 DEF Usage
  <2> QED
    BY <2>5, <2>8, SideInv
<1> QED
  BY <1>3, <1>4 DEF Event

LEMMA ChildInv == ProviderInv /\ ((\E c \in ToolCalls : AsksCall(c)) \/ UsesTokens \/ Completed \/ AsksHost \/ ProcessFails \/ Exits) => ProviderInv'
<1> SUFFICES ASSUME ProviderInv,
                    (\E c \in ToolCalls : AsksCall(c)) \/ UsesTokens \/ Completed \/ AsksHost \/ ProcessFails \/ Exits
             PROVE  ProviderInv'
  OBVIOUS
<1>1. thread \in Threads /\ thread.told \in Nat /\ child \in Children
  BY DEF ProviderInv, Shapes, Threads
<1>2. ASSUME NEW c \in ToolCalls, AsksCall(c) PROVE ProviderInv'
  <2>1. Event("call", c) /\ Side /\ thread' = [thread EXCEPT !.open = thread.open \cup {c}]
    BY <1>2 DEF AsksCall
  <2>2. thread' \in Threads /\ thread.told <= thread'.told
    BY <1>1, <2>1 DEF Threads
  <2>3. [kind |-> "call", n |-> c] \in Events
    BY DEF Events
  <2> QED
    BY <2>1, <2>2, <2>3, EventSent
<1>3. CASE UsesTokens
  <2>1. Event("usage", thread.told + 1) /\ Side /\ thread' = [thread EXCEPT !.told = thread.told + 1]
    BY <1>3 DEF UsesTokens
  <2>2. thread' \in Threads /\ thread'.told = thread.told + 1 /\ thread.told <= thread'.told
    BY <1>1, <2>1 DEF Threads
  <2>3. [kind |-> "usage", n |-> thread.told + 1] \in Events
    BY <1>1 DEF Events
  <2> QED
    BY <2>1, <2>2, <2>3, EventSent
<1>4. CASE Completed
  <2>1. PICK k \in {"done", "bad"} : Event(k, None)
    BY <1>4 DEF Completed
  <2>2. Side /\ thread' = [thread EXCEPT !.active = FALSE]
    BY <1>4 DEF Completed
  <2>3. thread' \in Threads /\ thread.told <= thread'.told
    <3>1. thread' \in Threads /\ thread'.told = thread.told
      BY <1>1, <2>2 DEF Threads
    <3> QED
      BY <1>1, <3>1
  <2>4. [kind |-> k, n |-> None] \in Events
    BY DEF Events
  <2> QED
    BY <2>1, <2>2, <2>3, <2>4, EventSent
<1>5. CASE Exits
  <2>1. /\ child' = [child EXCEPT !.up = "none", !.failed = TRUE] /\ Side
        /\ thread' = [thread EXCEPT !.active = FALSE, !.open = {}]
    BY <1>5 DEF Exits
  <2>2. child' \in Children /\ child'.events = child.events /\ child'.up = "none"
    BY <1>1, <2>1 DEF Children
  <2>3. thread' \in Threads /\ thread'.told = thread.told
    BY <1>1, <2>1 DEF Threads
  <2>4. Usage'
    BY <2>1, <2>2, <2>3, UsageStays DEF Side, ProviderInv
  <2> QED
    BY <2>1, <2>2, <2>3, <2>4, SideInv
<1>6. CASE AsksHost
  <2>1. Event("bad", None) /\ Side /\ thread' = thread
    BY <1>6 DEF AsksHost
  <2>2. thread' \in Threads /\ thread.told <= thread'.told
    BY <1>1, <2>1
  <2>3. [kind |-> "bad", n |-> None] \in Events
    BY DEF Events
  <2> QED
    BY <2>1, <2>2, <2>3, EventSent
<1>7. CASE ProcessFails
  <2>1. Side /\ thread' = thread /\ child.up = "run"
    BY <1>7 DEF ProcessFails
  <2>2. CASE child' = [child EXCEPT !.failed = TRUE]
    <3>1. child' \in Children /\ child'.events = child.events /\ child'.up = child.up
      BY <1>1, <2>2 DEF Children
    <3>2. Usage'
      BY <2>1, <3>1, UsageStays DEF Side, ProviderInv
    <3> QED
      BY <1>1, <2>1, <3>1, <3>2, SideInv
  <2>3. CASE child' = Ended(child)
    <3>1. child' \in Children /\ child'.events = <<>> /\ child'.up = "ending"
      <4>1. <<>> \in Seq(Events)
        BY EmptySeq
      <4> QED
        BY <1>1, <2>1, <2>3, <4>1 DEF Ended, Children
    <3>2. Usage'
      BY <2>1, <3>1, UsageStays DEF Side, ProviderInv
    <3> QED
      BY <1>1, <2>1, <3>1, <3>2, SideInv
  <2> QED
    BY <1>7, <2>2, <2>3 DEF ProcessFails
<1> QED
  BY <1>2, <1>3, <1>4, <1>5, <1>6, <1>7

-----------------------------------------------------------------------------
LEMMA ProviderSteps == ProviderInv /\ [ProviderNext]_providerVars => ProviderInv'
<1> SUFFICES ASSUME ProviderInv, [ProviderNext]_providerVars PROVE ProviderInv'
  OBVIOUS
<1>1. CASE Turning
  <2>1. ASSUME Attempts PROVE ProviderInv'
    BY <2>1, AttemptsInv
  <2>2. ASSUME Post \/ Unusable \/ FailsOpenAI \/ StatusOpenAI \/ ErrorRead \/ FailsOpenRouter \/ Backoff
        PROVE  ProviderInv'
    BY <2>1, <2>2, Attempting DEF ProviderInv
  <2> QED
    BY <1>1, <2>2, CompletesOpenAIInv, CompletesOpenRouterInv, BeginInv, RepliedInv, AnsweringInv,
       NextEventInv, CatchInv DEF Turning
<1>2. CASE RunTools \/ FinalAnswer \/ Compacted \/ ThrowIfStopped
  BY <1>2, LoopMoving, LoopMovesInv DEF ProviderInv
<1>3. CASE UNCHANGED providerVars
  BY <1>3 DEF providerVars, http, codex, count, ProviderInv, Shapes, Phases, Interruptible, Usage, Carried, CarriesOn,
     CallsAreAnswered
<1> QED
  BY <1>1, <1>2, <1>3, OvertimeInv, InterruptedInv, CallModelInv, AbortInv, FinishInv, ContinueInv, DiesInv, ChildInv
     DEF ProviderNext

THEOREM ProviderInvariance == ProviderSpec => []ProviderInv
<1> QED
  BY ProviderStarts, ProviderSteps, PTL DEF ProviderSpec

(* A continued conversation fits what it continues, every call in it is    *)
(* answered, once and at once, and no token is charged twice: for any      *)
(* attempts, requests, stops, crashes and continuations.                   *)
THEOREM ConversationKept == ProviderSpec => []ConversationIsKept
<1> QED
  BY ProviderInvariance, ProviderSafe, PTL

(* A run that has ended leaves no process at work, and nobody waiting.     *)
THEOREM RestQuiet == ProviderSpec => []RestIsQuiet
<1> QED
  BY ProviderInvariance, ProviderSafe, PTL

-----------------------------------------------------------------------------
(* Induction over the natural numbers, for a set of them.                  *)
LEMMA Least ==
  ASSUME NEW T \in SUBSET Nat, T # {}
  PROVE  \E m \in T : \A n \in T : m <= n
<1>1. PICK m \in T : \A n \in T : ~(<<n, m>> \in OpToRel(<, Nat))
  BY NatLessThanWellFounded, WFMin, Zenon
<1>2. \A n \in Nat : n < m => <<n, m>> \in OpToRel(<, Nat)
  BY Zenon DEF OpToRel
<1>3. \A n \in T : ~(n < m)
  BY <1>1, <1>2, Zenon
<1>4. \A n \in T : m <= n
  BY <1>3
<1> QED
  BY <1>4

LEMMA Induct ==
  ASSUME NEW T, 0 \in T, \A n \in Nat : n \in T => n + 1 \in T
  PROVE  \A n \in Nat : n \in T
<1> SUFFICES ASSUME NEW k \in Nat, k \notin T PROVE FALSE
  OBVIOUS
<1> DEFINE U == {n \in Nat : n \notin T}
<1>1. PICK m \in U : \A n \in U : m <= n
  <2>1. U \in SUBSET Nat /\ U # {}
    OBVIOUS
  <2> HIDE DEF U
  <2> QED
    BY <2>1, Least
<1>2. m \in Nat /\ m # 0 /\ m \notin T
  OBVIOUS
<1>3. m - 1 \in Nat /\ (m - 1) + 1 = m /\ ~(m <= m - 1)
  BY <1>2
<1>4. m - 1 \in T
  BY <1>1, <1>3
<1>5. m \in T
  BY <1>3, <1>4
<1> QED
  BY <1>2, <1>5

-----------------------------------------------------------------------------
(* What the page shows (Desktop).                                          *)

(* A sequence, of whatever it holds.                                       *)
Listed(q) == q \in Seq({q[i] : i \in DOMAIN q})

LEMMA ListedIs ==
  ASSUME NEW S, NEW q \in Seq(S)
  PROVE  Listed(q)
<1>1. DOMAIN q = 1 .. Len(q) /\ Len(q) \in Nat
  BY LenProperties
<1>2. \A i \in 1 .. Len(q) : q[i] \in {q[j] : j \in DOMAIN q}
  BY <1>1
<1>3. q = [i \in 1 .. Len(q) |-> q[i]]
  BY LenProperties, ElementOfSeq
<1> DEFINE T == {q[j] : j \in DOMAIN q}
<1> HIDE DEF T
<1>4. \A i \in 1 .. Len(q) : q[i] \in T
  BY <1>2 DEF T
<1>5. [i \in 1 .. Len(q) |-> q[i]] \in Seq(T)
  BY <1>1, <1>4, IsASeq
<1> QED
  BY <1>3, <1>5 DEF Listed, T

LEMMA ListedLen ==
  ASSUME NEW q, Listed(q)
  PROVE  Len(q) \in Nat /\ (q = <<>> <=> Len(q) = 0) /\ DOMAIN q = 1 .. Len(q)
BY LenProperties, EmptySeq DEF Listed

LEMMA ListedEmpty == Listed(<<>>) /\ Len(<<>>) = 0
<1>1. <<>> \in Seq({})
  BY EmptySeq
<1> QED
  BY <1>1, ListedIs

LEMMA ListedAppend ==
  ASSUME NEW q, NEW x, Listed(q)
  PROVE  /\ Listed(Append(q, x)) /\ Len(Append(q, x)) = Len(q) + 1
         /\ \A i \in 1 .. Len(q) : Append(q, x)[i] = q[i]
         /\ Append(q, x)[Len(q) + 1] = x
<1> DEFINE S == {q[i] : i \in DOMAIN q} \cup {x}
<1>1. q = [i \in 1 .. Len(q) |-> q[i]] /\ Len(q) \in Nat /\ DOMAIN q = 1 .. Len(q)
  BY LenProperties, ElementOfSeq DEF Listed
<1>2. \A i \in 1 .. Len(q) : q[i] \in S
  BY <1>1
<1>3. x \in S
  OBVIOUS
<1> HIDE DEF S
<1>4. [i \in 1 .. Len(q) |-> q[i]] \in Seq(S)
  BY <1>1, <1>2, IsASeq
<1>5. q \in Seq(S)
  BY <1>1, <1>4
<1>6. /\ Append(q, x) \in Seq(S) /\ Len(Append(q, x)) = Len(q) + 1
      /\ \A i \in 1 .. Len(q) : Append(q, x)[i] = q[i]
      /\ Append(q, x)[Len(q) + 1] = x
  BY <1>3, <1>5, AppendProperties
<1> QED
  BY <1>6, ListedIs

LEMMA ListedTail ==
  ASSUME NEW q, Listed(q), q # <<>>
  PROVE  /\ Listed(Tail(q)) /\ Len(Tail(q)) = Len(q) - 1 /\ Len(q) \in Nat \ {0}
         /\ \A i \in 1 .. Len(Tail(q)) : Tail(q)[i] = q[i + 1]
         /\ Head(q) = q[1]
<1> DEFINE S == {q[i] : i \in DOMAIN q}
<1>1. q \in Seq(S)
  BY DEF Listed
<1> HIDE DEF S
<1>2. /\ Tail(q) \in Seq(S) /\ Len(Tail(q)) = Len(q) - 1
      /\ \A i \in 1 .. Len(Tail(q)) : Tail(q)[i] = q[i + 1]
      /\ Head(q) = q[1]
  BY <1>1, HeadTailProperties
<1>3. Len(q) \in Nat \ {0}
  BY <1>1, LenProperties, EmptySeq
<1>4. Listed(Tail(q))
  BY <1>2, ListedIs
<1> QED
  BY <1>2, <1>3, <1>4

(* The events that wait are taken one after the other: f[i] is the page    *)
(* after i of them.                                                        *)
Follows(p, q, f) == f = [i \in 0 .. Len(q) |-> IF i = 0 THEN p ELSE Taken(f[i - 1], q[i])]

LEMMA TakenAllIs ==
  ASSUME NEW p, NEW q, Len(q) \in Nat, NEW f, Follows(p, q, f)
  PROVE  TakenAll(p, q) = f[Len(q)]
<1> DEFINE L == Len(q)
           Rec(g) == g = [i \in 0 .. L |-> IF i = 0 THEN p ELSE Taken(g[i - 1], q[i])]
<1>1. Rec(f)
  BY DEF Follows
<1>2. TakenAll(p, q) = (CHOOSE g : Rec(g))[L]
  BY DEF TakenAll
<1>3. ASSUME NEW g, NEW h, Rec(g), Rec(h) PROVE g[L] = h[L]
  <2> DEFINE T == {n \in Nat : n <= L => g[n] = h[n]}
  <2>1. \A i \in 0 .. L : /\ g[i] = (IF i = 0 THEN p ELSE Taken(g[i - 1], q[i]))
                          /\ h[i] = (IF i = 0 THEN p ELSE Taken(h[i - 1], q[i]))
    BY <1>3
  <2>2. 0 \in T
    <3>1. 0 \in 0 .. L
      OBVIOUS
    <3> QED
      BY <2>1, <3>1
  <2>3. ASSUME NEW n \in Nat, n \in T PROVE n + 1 \in T
    <3> SUFFICES ASSUME n + 1 <= L PROVE g[n + 1] = h[n + 1]
      OBVIOUS
    <3>1. n + 1 \in 0 .. L /\ n + 1 # 0 /\ (n + 1) - 1 = n /\ g[n] = h[n]
      BY <2>3
    <3> HIDE DEF T
    <3> QED
      BY <2>1, <3>1
  <2> HIDE DEF T
  <2>4. L \in T
    BY <2>2, <2>3, Induct
  <2> QED
    BY <2>4 DEF T
<1> HIDE DEF Rec
<1>4. Rec(CHOOSE g : Rec(g))
  BY <1>1
<1> QED
  BY <1>1, <1>2, <1>3, <1>4

(* h[n] is what main shows after its event n.                              *)
After(h, n) == h[n]
Tells(h, q) == \A i \in 1 .. Len(q) : h[q[i].seq] = Shows(h[q[i].seq - 1], q[i].event)
(* The events of q are numbered in turn, after b.                          *)
InTurn(q, b) == \A i \in 1 .. Len(q) : q[i].seq = b + i
Page(a, s, n, q) == [at |-> a, shown |-> s, last |-> n, pending |-> q]

LEMMA PageTakes ==
  \A a, s, n, w, x :
    Taken(Page(a, s, n, w), x) =
      IF x.seq <= n THEN Page(a, s, n, w) ELSE Page(a, Shows(s, x.event), x.seq, w)
<1> SUFFICES ASSUME NEW a, NEW s, NEW n, NEW w, NEW x
             PROVE  Taken(Page(a, s, n, w), x) =
                      IF x.seq <= n THEN Page(a, s, n, w) ELSE Page(a, Shows(s, x.event), x.seq, w)
  OBVIOUS
<1> DEFINE p == Page(a, s, n, w)
<1>1. p.shown = s /\ p.last = n
  BY DEF Page
<1>2. ASSUME NEW y, NEW z PROVE [p EXCEPT !.shown = y, !.last = z] = Page(a, y, z, w)
  <2> DEFINE r == [at |-> a, shown |-> s, last |-> n, pending |-> w]
             t == [r EXCEPT !.shown = y, !.last = z]
             u == [at |-> a, shown |-> y, last |-> z, pending |-> w]
  <2>1. DOMAIN t = DOMAIN u
    OBVIOUS
  <2>2. t.at = u.at /\ t.shown = u.shown /\ t.last = u.last /\ t.pending = u.pending
    OBVIOUS
  <2>3. t = u
    BY <2>1, <2>2
  <2> QED
    BY <2>3 DEF Page
<1> HIDE DEF p
<1>3. Taken(p, x) = IF x.seq <= n THEN p ELSE [p EXCEPT !.shown = Shows(s, x.event), !.last = x.seq]
  BY <1>1 DEF Taken
<1> QED
  BY <1>2, <1>3 DEF p

(* The page that has taken events numbered after b, of which it may have   *)
(* seen some, shows what main did after the last of them.                  *)
LEMMA TakenInTurn ==
  ASSUME NEW h, NEW a, NEW w, NEW n \in Nat, NEW q, Len(q) \in Nat, NEW b \in Nat,
         b <= n, Tells(h, q), InTurn(q, b),
         NEW m \in Nat, m \in {n, b + Len(q)}, n <= m, b + Len(q) <= m
  PROVE  TakenAll(Page(a, After(h, n), n, w), q) = Page(a, After(h, m), m, w)
<1> DEFINE L == Len(q)
           p == Page(a, h[n], n, w)
           To(i) == IF n >= b + i THEN n ELSE b + i
           f == [i \in 0 .. L |-> Page(a, h[To(i)], To(i), w)]
<1>1. ASSUME NEW i \in 0 .. L PROVE f[i] = IF i = 0 THEN p ELSE Taken(f[i - 1], q[i])
  <2>1. CASE i = 0
    <3>1. To(0) = n
      OBVIOUS
    <3> QED
      BY <2>1, <3>1
  <2>2. CASE i # 0
    <3>1. i \in 1 .. L /\ i - 1 \in 0 .. L /\ i - 1 \in Nat /\ i \in Nat
      BY <2>2
    <3>2. q[i].seq = b + i /\ h[b + i] = Shows(h[b + i - 1], q[i].event)
      BY <3>1 DEF InTurn, Tells
    <3> DEFINE x == f[i - 1]
    <3>3. x = Page(a, h[To(i - 1)], To(i - 1), w) /\ f[i] = Page(a, h[To(i)], To(i), w)
      BY <3>1
    <3>4. x.last = To(i - 1) /\ x.shown = h[To(i - 1)]
      BY <3>3 DEF Page
    <3> HIDE DEF f, x
    <3>6. CASE b + i <= To(i - 1)
      <4>1. To(i) = To(i - 1)
        BY <3>1, <3>6
      <4>2. Taken(x, q[i]) = x
        BY <3>2, <3>3, <3>6, PageTakes
      <4> QED
        BY <2>2, <3>3, <4>1, <4>2 DEF x
    <3>7. CASE ~(b + i <= To(i - 1))
      <4>1. To(i) = b + i /\ To(i - 1) = b + i - 1
        BY <3>1, <3>7
      <4>2. Taken(x, q[i]) = Page(a, Shows(h[To(i - 1)], q[i].event), q[i].seq, w)
        BY <3>2, <3>3, <3>4, <3>7, PageTakes
      <4>3. Taken(x, q[i]) = Page(a, h[b + i], b + i, w)
        BY <3>2, <4>1, <4>2
      <4> QED
        BY <2>2, <3>3, <4>1, <4>3 DEF x
    <3> QED
      BY <3>6, <3>7
  <2> QED
    BY <2>1, <2>2
<1>2. Follows(p, q, f)
  <2>1. f = [i \in 0 .. L |-> f[i]]
    OBVIOUS
  <2> HIDE DEF f
  <2>2. f = [i \in 0 .. L |-> IF i = 0 THEN p ELSE Taken(f[i - 1], q[i])]
    BY <1>1, <2>1
  <2> QED
    BY <2>2 DEF Follows
<1>3. TakenAll(p, q) = f[L]
  <2> HIDE DEF f, p
  <2> QED
    BY <1>2, TakenAllIs
<1>4. To(L) = m
  OBVIOUS
<1>5. f[L] = Page(a, h[To(L)], To(L), w)
  OBVIOUS
<1> QED
  BY <1>3, <1>4, <1>5 DEF After

(* A history of what main showed, of no run that was still to come.        *)
Past(h) == \A n \in 0 .. main.seq : h[n].view.run \in 0 .. runs

(* What is on its way to the page, what waits there and what the page has  *)
(* shown are told by one history h of main's views, up to its last event.  *)
ToldBy(h) ==
  /\ h[main.seq] = main.shown /\ Tells(h, wire) /\ Past(h)
  /\ page.at = "up" =>
       /\ main.seq - Len(wire) <= page.last /\ page.last <= main.seq
       /\ page.shown = h[page.last]
  /\ page.at # "up" =>
       /\ Len(wire) + Len(page.pending) <= main.seq
       /\ InTurn(page.pending, main.seq - Len(wire) - Len(page.pending))
       /\ Tells(h, page.pending)
  /\ page.at = "answered" =>
       \E n \in Nat :
         /\ reply = <<[shown |-> h[n], seq |-> n]>>
         /\ main.seq - Len(wire) - Len(page.pending) <= n /\ n <= main.seq

PageInv ==
  /\ main.seq \in Nat /\ Listed(wire) /\ Len(wire) <= main.seq
  /\ InTurn(wire, main.seq - Len(wire))
  /\ page = Page(page.at, page.shown, page.last, page.pending)
  /\ page.at \in {"asking", "answered", "up"} /\ page.last \in Nat /\ Listed(page.pending)
  /\ page.at # "answered" => reply = <<>>
  /\ \E h : ToldBy(h)

LEMMA PageSafe == PageInv => PageAgrees
<1> SUFFICES ASSUME PageInv, page.at = "up", wire = <<>>
             PROVE  page.shown = main.shown /\ page.last = main.seq
  BY DEF PageAgrees
<1>1. PICK h : ToldBy(h)
  BY DEF PageInv
<1>2. Len(wire) = 0 /\ main.seq \in Nat /\ page.last \in Nat
  BY ListedEmpty DEF PageInv
<1>3. main.seq - Len(wire) <= page.last /\ page.last <= main.seq /\ page.shown = h[page.last]
      /\ h[main.seq] = main.shown
  BY <1>1 DEF ToldBy
<1>4. page.last = main.seq
  BY <1>2, <1>3
<1> QED
  BY <1>3, <1>4

LEMMA PageInit == DesktopInit => PageInv
<1> SUFFICES ASSUME DesktopInit PROVE PageInv
  OBVIOUS
<1> DEFINE h == [n \in {0} |-> Nothing]
<1>1. /\ main.seq = 0 /\ main.shown = Nothing /\ wire = <<>> /\ reply = <<>>
      /\ page = Page("asking", Nothing, 0, <<>>)
  BY DEF DesktopInit, Mounted, Page
<1>2. page.at = "asking" /\ page.last = 0 /\ page.shown = Nothing /\ page.pending = <<>>
  BY <1>1 DEF Page
<1>3. Listed(<<>>) /\ Len(<<>>) = 0 /\ 1 .. 0 = {}
  BY ListedEmpty
<1>4. InTurn(<<>>, 0) /\ Tells(h, <<>>)
  BY <1>3 DEF InTurn, Tells
<1>5. h[0] = Nothing
  OBVIOUS
<1> HIDE DEF h
<1>8. Past(h)
  <2>1. Nothing.view.run = 0 /\ runs = 1
    BY DEF Nothing, EmptyRun, DesktopInit, Init
  <2>2. \A n \in 0 .. 0 : n = 0
    OBVIOUS
  <2> QED
    BY <1>1, <1>5, <2>1, <2>2 DEF Past
<1>6. ToldBy(h)
  BY <1>1, <1>2, <1>3, <1>4, <1>5, <1>8 DEF ToldBy
<1>7. \E g : ToldBy(g)
  BY <1>6
<1> QED
  BY <1>1, <1>2, <1>3, <1>4, <1>7 DEF PageInv

LEMMA PagePublish ==
  ASSUME PageInv, NEW e, NEW a, Publish(e, a), UNCHANGED <<reply, page, runs>>,
         Shows(main.shown, e).view.run \in 0 .. runs
  PROVE  PageInv'
<1>1. PICK h : ToldBy(h)
  BY DEF PageInv
<1> DEFINE m == main.seq
           L == Len(wire)
           P == Len(page.pending)
           x == [event |-> e, seq |-> m + 1]
           s == Shows(main.shown, e)
<1>16. PICK g : g = [i \in Nat |-> IF i = m + 1 THEN s ELSE h[i]]
  OBVIOUS
<1>2. m \in Nat /\ L \in Nat /\ P \in Nat /\ L <= m /\ page.last \in Nat
  BY ListedLen DEF PageInv
<1>3. main'.seq = m + 1 /\ main'.shown = s /\ wire' = Append(wire, x)
  BY DEF Publish
<1>4. /\ Listed(wire') /\ Len(wire') = L + 1 /\ wire'[L + 1] = x
      /\ \A i \in 1 .. L : wire'[i] = wire[i]
  BY <1>3, ListedAppend DEF PageInv
<1>5. x.seq = m + 1 /\ x.event = e
  OBVIOUS
<1>6. \A i \in Nat : i <= m => g[i] = h[i]
  BY <1>2, <1>16
<1>7. g[m + 1] = s
  BY <1>2, <1>16
<1>8. \A i \in 1 .. L : wire[i].seq = (m - L) + i /\ h[wire[i].seq] = Shows(h[wire[i].seq - 1], wire[i].event)
  BY <1>1 DEF PageInv, InTurn, ToldBy, Tells
<1> HIDE DEF x, s
<1>9. \A i \in 1 .. L + 1 : i \in 1 .. L \/ i = L + 1
  BY <1>2
<1>10. InTurn(wire', main'.seq - Len(wire'))
  <2>3. main'.seq - Len(wire') = (m + 1) - (L + 1)
    BY <1>3, <1>4
  <2> SUFFICES ASSUME NEW i \in 1 .. L + 1 PROVE wire'[i].seq = ((m + 1) - (L + 1)) + i
    BY <1>4, <2>3 DEF InTurn
  <2>1. CASE i \in 1 .. L
    BY <1>2, <1>4, <1>8, <2>1
  <2>2. CASE i = L + 1
    BY <1>2, <1>4, <1>5, <2>2
  <2> QED
    BY <1>9, <2>1, <2>2
<1>11. Tells(g, wire')
  <2> SUFFICES ASSUME NEW i \in 1 .. L + 1
               PROVE  g[wire'[i].seq] = Shows(g[wire'[i].seq - 1], wire'[i].event)
    BY <1>4 DEF Tells
  <2>1. CASE i \in 1 .. L
    <3>1. wire[i].seq \in Nat /\ wire[i].seq <= m /\ wire[i].seq - 1 \in Nat /\ wire[i].seq - 1 <= m
      <4>1. wire[i].seq = (m - L) + i
        BY <1>8, <2>1
      <4> QED
        BY <1>2, <2>1, <4>1
    <3> QED
      BY <1>4, <1>6, <1>8, <2>1, <3>1
  <2>2. CASE i = L + 1
    <3>1. wire'[i] = x /\ (m + 1) - 1 = m /\ g[m] = h[m] /\ h[m] = main.shown
      BY <1>1, <1>2, <1>4, <1>6, <2>2 DEF ToldBy
    <3> QED
      BY <1>5, <1>7, <3>1 DEF s
  <2> QED
    BY <1>9, <2>1, <2>2
<1>12. page.at # "up" => Tells(g, page.pending)
  <2> SUFFICES ASSUME page.at # "up", NEW i \in 1 .. P
               PROVE  g[page.pending[i].seq] = Shows(g[page.pending[i].seq - 1], page.pending[i].event)
    BY DEF Tells
  <2> DEFINE y == page.pending[i]
  <2>1. L + P <= m /\ y.seq = (m - L - P) + i /\ h[y.seq] = Shows(h[y.seq - 1], y.event)
    BY <1>1 DEF ToldBy, InTurn, Tells
  <2> HIDE DEF y, m, L, P
  <2>2. y.seq \in Nat /\ y.seq <= m /\ y.seq - 1 \in Nat /\ y.seq - 1 <= m
    BY <1>2, <2>1
  <2>3. g[y.seq] = Shows(g[y.seq - 1], y.event)
    BY <1>6, <2>1, <2>2
  <2> QED
    BY <2>3 DEF y
<1>17. Past(g)'
  <2>1. \A n \in 0 .. m + 1 : n \in 0 .. m \/ n = m + 1
    BY <1>2
  <2>2. \A n \in 0 .. m : h[n].view.run \in 0 .. runs
    BY <1>1 DEF ToldBy, Past
  <2>3. \A n \in 0 .. m + 1 : g[n].view.run \in 0 .. runs
    BY <1>2, <1>6, <1>7, <2>1, <2>2 DEF s
  <2> QED
    BY <1>3, <2>3 DEF Past
<1>13. ToldBy(g)'
  <2>1. g[main'.seq] = main'.shown
    BY <1>3, <1>7
  <2>2. page.at = "up" =>
          /\ main'.seq - Len(wire') <= page.last /\ page.last <= main'.seq
          /\ page.shown = g[page.last]
    <3> SUFFICES ASSUME page.at = "up"
                 PROVE  (m + 1) - (L + 1) <= page.last /\ page.last <= m + 1 /\ page.shown = g[page.last]
      BY <1>3, <1>4
    <3>1. m - L <= page.last /\ page.last <= m /\ page.shown = h[page.last]
      BY <1>1 DEF ToldBy
    <3>2. page.shown = g[page.last]
      BY <1>2, <1>6, <3>1
    <3> QED
      BY <1>2, <3>1, <3>2
  <2>3. page.at # "up" =>
          /\ Len(wire') + P <= main'.seq
          /\ InTurn(page.pending, main'.seq - Len(wire') - P)
    <3> SUFFICES ASSUME page.at # "up"
                 PROVE  (L + 1) + P <= m + 1 /\ InTurn(page.pending, (m + 1) - (L + 1) - P)
      BY <1>3, <1>4
    <3>1. L + P <= m /\ InTurn(page.pending, m - L - P)
      BY <1>1 DEF ToldBy
    <3> HIDE DEF m, L, P
    <3>2. (m + 1) - (L + 1) - P = m - L - P /\ (L + 1) + P <= m + 1
      BY <1>2, <3>1
    <3> QED
      BY <3>1, <3>2
  <2>4. page.at = "answered" =>
          \E n \in Nat :
            /\ reply = <<[shown |-> g[n], seq |-> n]>>
            /\ main'.seq - Len(wire') - P <= n /\ n <= main'.seq
    <3> SUFFICES ASSUME page.at = "answered"
                 PROVE  \E n \in Nat : /\ reply = <<[shown |-> g[n], seq |-> n]>>
                                       /\ (m + 1) - (L + 1) - P <= n /\ n <= m + 1
      BY <1>3, <1>4
    <3>1. PICK n \in Nat : reply = <<[shown |-> h[n], seq |-> n]>> /\ m - L - P <= n /\ n <= m
      BY <1>1 DEF ToldBy
    <3>2. (m + 1) - (L + 1) - P <= n /\ n <= m + 1
      BY <1>2, <3>1
    <3>3. g[n] = h[n]
      BY <1>6, <3>1
    <3> QED
      BY <3>1, <3>2, <3>3
  <2> QED
    BY <1>11, <1>12, <1>17, <2>1, <2>2, <2>3, <2>4 DEF ToldBy
<1>14. \E f : ToldBy(f)'
  BY <1>13
<1>15. main'.seq \in Nat /\ Len(wire') <= main'.seq
  BY <1>2, <1>3, <1>4
<1> QED
  BY <1>4, <1>10, <1>14, <1>15 DEF PageInv

LEMMA PageAsks ==
  ASSUME PageInv, GetRun
  PROVE  PageInv'
<1>1. PICK h : ToldBy(h)
  BY DEF PageInv
<1>2. page.at = "asking" /\ UNCHANGED <<main, wire>> /\ page = Page("asking", page.shown, page.last, page.pending)
  BY DEF GetRun, PageInv
<1>3. page' = Page("answered", page.shown, page.last, page.pending)
  <2>1. \A s, n, q : [Page("asking", s, n, q) EXCEPT !.at = "answered"] = Page("answered", s, n, q)
    BY DEF Page
  <2>2. page' = [page EXCEPT !.at = "answered"]
    BY DEF GetRun
  <2> QED
    BY <1>2, <2>1, <2>2
<1>4. /\ page'.at = "answered" /\ page'.shown = page.shown /\ page'.last = page.last
      /\ page'.pending = page.pending
  BY <1>3 DEF Page
<1>5. reply' = <<[shown |-> h[main.seq], seq |-> main.seq]>>
  BY <1>1 DEF GetRun, ToldBy
<1>6. main.seq \in Nat /\ Len(wire) \in Nat /\ Len(page.pending) \in Nat
  BY ListedLen DEF PageInv
<1>7. main.seq - Len(wire) - Len(page.pending) <= main.seq /\ main.seq <= main.seq
  BY <1>6
<1>10. Past(h)'
  BY <1>1, <1>2 DEF GetRun, ToldBy, Past, vars, counters
<1>8. ToldBy(h)'
  BY <1>1, <1>2, <1>4, <1>5, <1>6, <1>7, <1>10 DEF ToldBy
<1>9. \E f : ToldBy(f)'
  BY <1>8
<1> QED
  BY <1>2, <1>3, <1>4, <1>9 DEF PageInv

LEMMA PageReceives ==
  ASSUME PageInv, Receive
  PROVE  PageInv'
<1>1. PICK h : ToldBy(h)
  BY DEF PageInv
<1> DEFINE m == main.seq
           L == Len(wire)
           P == Len(page.pending)
           x == Head(wire)
<1>2. wire # <<>> /\ wire' = Tail(wire) /\ UNCHANGED <<main, reply>>
  BY DEF Receive
<1>3. /\ Listed(wire') /\ Len(wire') = L - 1 /\ L \in Nat \ {0} /\ x = wire[1]
      /\ \A i \in 1 .. L - 1 : wire'[i] = wire[i + 1]
  BY <1>2, ListedTail DEF PageInv
<1>4. m \in Nat /\ P \in Nat /\ L <= m /\ page.last \in Nat /\ Listed(page.pending)
      /\ page = Page(page.at, page.shown, page.last, page.pending)
      /\ page.at \in {"asking", "answered", "up"}
  BY ListedLen DEF PageInv
<1>5. \A i \in 1 .. L : wire[i].seq = (m - L) + i /\ h[wire[i].seq] = Shows(h[wire[i].seq - 1], wire[i].event)
  BY <1>1 DEF PageInv, InTurn, ToldBy, Tells
<1>6. x.seq = (m - L) + 1 /\ h[x.seq] = Shows(h[x.seq - 1], x.event)
  <2>1. 1 \in 1 .. L
    BY <1>3
  <2> QED
    BY <1>3, <1>5, <2>1
<1> HIDE DEF m, L, P, x
<1>7. InTurn(wire', main.seq - Len(wire')) /\ Tells(h, wire')
  <2>1. \A i \in 1 .. L - 1 : i + 1 \in 1 .. L /\ (m - L) + (i + 1) = (m - (L - 1)) + i
    BY <1>3, <1>4
  <2>2. \A i \in 1 .. L - 1 : wire'[i].seq = (m - (L - 1)) + i
    BY <1>3, <1>5, <2>1
  <2>3. Tells(h, wire')
    BY <1>3, <1>5, <2>1 DEF Tells
  <2> QED
    BY <1>3, <2>2, <2>3 DEF InTurn, m
<1>8. Len(wire') <= main.seq
  <2>1. L - 1 <= m
    BY <1>3, <1>4
  <2> QED
    BY <1>3, <2>1 DEF m
<1>11. Past(h)'
  BY <1>1, <1>2 DEF Receive, ToldBy, Past, vars, counters
<1>9. CASE page.at # "up" /\ page' = [page EXCEPT !.pending = Append(@, x)]
  <2>1. page' = Page(page.at, page.shown, page.last, Append(page.pending, x))
    <3>1. ASSUME NEW a, NEW s, NEW n, NEW q
          PROVE  [Page(a, s, n, q) EXCEPT !.pending = Append(@, x)] = Page(a, s, n, Append(q, x))
      BY DEF Page
    <3>2. PICK a, s, n, q : page = Page(a, s, n, q)
      BY <1>4
    <3>3. page.at = a /\ page.shown = s /\ page.last = n /\ page.pending = q
      BY <3>2 DEF Page
    <3> QED
      BY <1>9, <3>1, <3>2, <3>3
  <2>2. /\ page'.at = page.at /\ page'.shown = page.shown /\ page'.last = page.last
        /\ page'.pending = Append(page.pending, x)
    BY <2>1 DEF Page
  <2>3. /\ Listed(page'.pending) /\ Len(page'.pending) = P + 1 /\ page'.pending[P + 1] = x
        /\ \A i \in 1 .. P : page'.pending[i] = page.pending[i]
    BY <1>4, <2>2, ListedAppend DEF P
  <2>4. L + P <= m /\ \A i \in 1 .. P : /\ page.pending[i].seq = (m - L - P) + i
                                        /\ h[page.pending[i].seq] = Shows(h[page.pending[i].seq - 1], page.pending[i].event)
    BY <1>1, <1>9 DEF ToldBy, InTurn, Tells, m, L, P
  <2>5. (L - 1) + (P + 1) <= m /\ m - (L - 1) - (P + 1) = m - L - P
        /\ (m - L) + 1 = (m - L - P) + (P + 1)
    BY <1>3, <1>4, <2>4
  <2>6. \A i \in 1 .. P + 1 : i \in 1 .. P \/ i = P + 1
    BY <1>4
  <2>7. InTurn(page'.pending, m - L - P) /\ Tells(h, page'.pending)
    BY <1>6, <2>3, <2>4, <2>5, <2>6 DEF InTurn, Tells
  <2>8. page.at = "answered" =>
          \E n \in Nat : /\ reply = <<[shown |-> h[n], seq |-> n]>>
                         /\ m - (L - 1) - (P + 1) <= n /\ n <= m
    BY <1>1, <2>5 DEF ToldBy, m, L, P
  <2>9. ToldBy(h)'
    BY <1>1, <1>2, <1>3, <1>7, <1>9, <1>11, <2>2, <2>3, <2>5, <2>7, <2>8 DEF ToldBy, m
  <2>10. \E f : ToldBy(f)'
    BY <2>9
  <2> QED
    BY <1>2, <1>3, <1>4, <1>7, <1>8, <2>1, <2>2, <2>3, <2>10 DEF PageInv, m
<1>10. CASE page.at = "up" /\ page' = Taken(page, x)
  <2> DEFINE n == page.last
             k == IF x.seq <= n THEN n ELSE x.seq
  <2>1. m - L <= n /\ n <= m /\ page.shown = h[n] /\ n \in Nat
    BY <1>1, <1>4, <1>10 DEF ToldBy, m, L
  <2>2. page' = Page("up", h[k], k, page.pending)
    <3>1. page = Page("up", h[n], n, page.pending)
      BY <1>4, <1>10, <2>1
    <3>2. ~(x.seq <= n) => x.seq - 1 = n
      BY <1>3, <1>4, <1>6, <2>1
    <3> HIDE DEF n
    <3>3. page' = IF x.seq <= n THEN Page("up", h[n], n, page.pending)
                  ELSE Page("up", Shows(h[n], x.event), x.seq, page.pending)
      BY <1>10, <3>1, PageTakes
    <3> QED
      BY <1>6, <3>2, <3>3
  <2>3. k \in Nat /\ m - (L - 1) <= k /\ k <= m
    BY <1>3, <1>4, <1>6, <2>1
  <2> HIDE DEF k
  <2>4. page'.at = "up" /\ page'.shown = h[k] /\ page'.last = k /\ page'.pending = page.pending
    BY <2>2 DEF Page
  <2>5. ToldBy(h)'
    BY <1>1, <1>2, <1>3, <1>7, <1>11, <2>3, <2>4 DEF ToldBy, m
  <2>6. \E f : ToldBy(f)'
    BY <2>5
  <2>7. reply = <<>>
    BY <1>10 DEF PageInv
  <2> QED
    BY <1>2, <1>3, <1>4, <1>7, <1>8, <2>2, <2>3, <2>4, <2>6, <2>7 DEF PageInv, m
<1> QED
  BY <1>9, <1>10 DEF Receive, x

LEMMA PageHydrates ==
  ASSUME PageInv, Hydrate
  PROVE  PageInv'
<1>1. PICK h : ToldBy(h)
  BY DEF PageInv
<1> DEFINE m == main.seq
           L == Len(wire)
           q == page.pending
           P == Len(q)
           b == m - L - P
<1>2. reply # <<>> /\ reply' = <<>> /\ page' = TakenAll(Snapshot(Head(reply)), q) /\ UNCHANGED <<main, wire>>
  BY DEF Hydrate
<1>3. page.at = "answered"
  BY <1>2 DEF PageInv
<1>4. m \in Nat /\ L \in Nat /\ P \in Nat /\ L + P <= m
  BY <1>1, <1>3, ListedLen DEF PageInv, ToldBy
<1>5. PICK n \in Nat : reply = <<[shown |-> h[n], seq |-> n]>> /\ b <= n /\ n <= m
  BY <1>1, <1>3 DEF ToldBy
<1>6. InTurn(q, b) /\ Tells(h, q)
  BY <1>1, <1>3 DEF ToldBy
<1>7. Snapshot(Head(reply)) = Page("up", h[n], n, <<>>)
  <2>1. Head(reply) = [shown |-> h[n], seq |-> n]
    BY <1>5
  <2> QED
    BY <2>1 DEF Snapshot, Page
<1>11. b \in Nat
  <2> HIDE DEF m, L, P
  <2> QED
    BY <1>4
<1> HIDE DEF b
<1>8. PICK k \in Nat : k \in {n, b + P} /\ n <= k /\ b + P <= k
  <2> HIDE DEF P
  <2>1. CASE n >= b + P
    BY <1>4, <1>5, <1>11, <2>1
  <2>2. CASE ~(n >= b + P)
    <3>1. b + P \in Nat /\ n <= b + P /\ b + P <= b + P
      BY <1>4, <1>5, <1>11, <2>2
    <3> QED
      BY <3>1
  <2> QED
    BY <2>1, <2>2
<1>15. TakenAll(Page("up", h[n], n, <<>>), q) = Page("up", h[k], k, <<>>)
  <2>1. Len(q) \in Nat /\ k \in {n, b + Len(q)} /\ n <= k /\ b + Len(q) <= k
    BY <1>4, <1>8
  <2>2. b <= n
    BY <1>5
  <2> HIDE DEF q
  <2>3. TakenAll(Page("up", After(h, n), n, <<>>), q) = Page("up", After(h, k), k, <<>>)
    BY <1>6, <1>11, <2>1, <2>2, TakenInTurn
  <2> QED
    BY <2>3 DEF After
<1>9. page' = Page("up", h[k], k, <<>>)
  BY <1>2, <1>7, <1>15
<1>10. page'.at = "up" /\ page'.shown = h[k] /\ page'.last = k /\ page'.pending = <<>>
  BY <1>9 DEF Page
<1>12. m - L <= k /\ k <= m
  <2>1. b + P = m - L
    <3> HIDE DEF m, L, P
    <3> QED
      BY <1>4 DEF b
  <2> HIDE DEF m, L, P
  <2> QED
    BY <1>4, <1>5, <1>8, <1>11, <2>1
<1>16. Past(h)'
  BY <1>1, <1>2 DEF Hydrate, ToldBy, Past, vars, counters
<1>13. ToldBy(h)'
  BY <1>1, <1>2, <1>10, <1>12, <1>16 DEF ToldBy
<1>14. \E f : ToldBy(f)'
  BY <1>13
<1> QED
  BY <1>2, <1>9, <1>10, <1>14, ListedEmpty DEF PageInv

LEMMA PageReloads ==
  ASSUME PageInv, Reload
  PROVE  PageInv'
<1>1. PICK h : ToldBy(h)
  BY DEF PageInv
<1>2. page' = Page("asking", Nothing, 0, <<>>) /\ wire' = <<>> /\ reply' = <<>> /\ UNCHANGED main
  BY DEF Reload, Mounted, Page
<1>3. page'.at = "asking" /\ page'.shown = Nothing /\ page'.last = 0 /\ page'.pending = <<>>
  BY <1>2 DEF Page
<1>4. Listed(<<>>) /\ Len(<<>>) = 0 /\ 1 .. 0 = {} /\ main.seq \in Nat /\ 0 + 0 <= main.seq /\ 0 <= main.seq
  BY ListedEmpty DEF PageInv
<1>5. \A c : InTurn(<<>>, c) /\ Tells(h, <<>>)
  BY <1>4 DEF InTurn, Tells
<1>8. Past(h)'
  BY <1>1, <1>2 DEF Reload, ToldBy, Past, vars, counters
<1>6. ToldBy(h)'
  BY <1>1, <1>2, <1>3, <1>4, <1>5, <1>8 DEF ToldBy
<1>7. \E f : ToldBy(f)'
  BY <1>6
<1> QED
  BY <1>2, <1>3, <1>4, <1>5, <1>7 DEF PageInv

-----------------------------------------------------------------------------
(* What main shows (Desktop).                                              *)

Words ==
  {"", "text", "running", "handoff", "awaiting", "ended", "interrupted",
   "none", "executing", "done", "denied", "error", "unknown"}
LogRows == [of : Nat \X Nat, what : Words]
TextRow(o) == [of |-> o, what |-> "text"]
Views == [run : Nat, state : Words, cards : SUBSET (Nat \X Nat), log : Seq(LogRows)]
RunEvents ==
  [kind : {"state", "commentary", "handoff", "tool", "request", "resolved", "restored"},
   run : Nat, of : Nat \X Nat, what : Words]
Windows == [shown : [view : Views, handoff : BOOLEAN], active : Nat]

(* What main shows and takes for active, after an event.                   *)
Turned(w, e) ==
  [shown |-> Shows(w.shown, e),
   active |-> IF e.kind # "state" THEN w.active ELSE IF e.what \in Terminal THEN 0 ELSE e.run]

LEMMA EmptyView == EmptyRun \in Views
<1>1. <<>> \in Seq(LogRows)
  BY EmptySeq
<1>2. {} \in SUBSET (Nat \X Nat) /\ 0 \in Nat /\ "" \in Words
  BY DEF Words
<1>3. \A r, s, c, g :
        r \in Nat /\ s \in Words /\ c \in SUBSET (Nat \X Nat) /\ g \in Seq(LogRows) =>
          [run |-> r, state |-> s, cards |-> c, log |-> g] \in Views
  BY DEF Views
<1> QED
  BY <1>1, <1>2, <1>3, Zenon DEF EmptyRun

(* A row is updated where it is, or added.                                 *)
LEMMA RowIsSet ==
  ASSUME NEW lg \in Seq(LogRows), NEW e \in RunEvents
  PROVE  /\ WithRow(lg, e) \in Seq(LogRows)
         /\ \E i \in DOMAIN WithRow(lg, e) : WithRow(lg, e)[i] = [of |-> e.of, what |-> e.what]
         /\ \A i \in DOMAIN WithRow(lg, e) :
              \/ WithRow(lg, e)[i].of = e.of /\ WithRow(lg, e)[i].what = e.what
              \/ /\ i \in DOMAIN lg /\ WithRow(lg, e)[i] = lg[i]
                 /\ lg[i].of = e.of => lg[i].what = "text"
         /\ \A i \in DOMAIN lg :
              lg[i].of # e.of =>
                i \in DOMAIN WithRow(lg, e) /\ WithRow(lg, e)[i] = lg[i]
<1> DEFINE rows == {i \in DOMAIN lg : lg[i].of = e.of /\ lg[i].what # "text"}
           row2 == [of |-> e.of, what |-> e.what]
           new == WithRow(lg, e)
<1>1. /\ Len(lg) \in Nat /\ DOMAIN lg = 1 .. Len(lg)
      /\ \A i \in 1 .. Len(lg) : lg[i] \in LogRows
      /\ e.of \in Nat \X Nat /\ e.what \in Words
  BY LenProperties, ElementOfSeq DEF RunEvents
<1>2. row2 \in LogRows
  BY <1>1 DEF LogRows
<1>3. CASE rows = {}
  <2>1. new = Append(lg, row2)
    BY <1>3 DEF WithRow
  <2> HIDE DEF new, row2, rows
  <2>2. /\ new \in Seq(LogRows) /\ Len(new) = Len(lg) + 1
        /\ \A i \in 1 .. Len(lg) : new[i] = lg[i]
        /\ new[Len(lg) + 1] = row2
    BY <1>2, <2>1, AppendProperties
  <2>3. DOMAIN new = 1 .. Len(lg) + 1
    BY <2>2, LenProperties
  <2>4. \A i \in DOMAIN lg : lg[i].of = e.of => lg[i].what = "text"
    BY <1>3 DEF rows
  <2>5. row2.of = e.of /\ row2.what = e.what
    BY DEF row2
  <2>6. \A i \in 1 .. Len(lg) + 1 : i \in 1 .. Len(lg) \/ i = Len(lg) + 1
    BY <1>1
  <2>7. Len(lg) + 1 \in 1 .. Len(lg) + 1 /\ 1 .. Len(lg) \subseteq 1 .. Len(lg) + 1
    BY <1>1
  <2> QED
    BY <1>1, <2>2, <2>3, <2>4, <2>5, <2>6, <2>7 DEF new, row2
<1>4. CASE rows # {}
  <2>1. new = [i \in DOMAIN lg |-> IF i \in rows THEN [lg[i] EXCEPT !.what = e.what] ELSE lg[i]]
    BY <1>4 DEF WithRow
  <2>2. ASSUME NEW i \in rows PROVE [lg[i] EXCEPT !.what = e.what] = row2
    <3>1. lg[i] \in LogRows /\ lg[i].of = e.of
      BY <1>1
    <3> QED
      BY <3>1 DEF LogRows
  <2>3. new = [i \in 1 .. Len(lg) |-> IF i \in rows THEN row2 ELSE lg[i]]
    BY <1>1, <2>1, <2>2
  <2> HIDE DEF new, row2
  <2>4. \A i \in 1 .. Len(lg) : new[i] = (IF i \in rows THEN row2 ELSE lg[i]) /\ new[i] \in LogRows
    BY <1>1, <1>2, <2>3
  <2>5. new \in Seq(LogRows)
    <3> HIDE DEF rows
    <3>1. [i \in 1 .. Len(lg) |-> IF i \in rows THEN row2 ELSE lg[i]] \in Seq(LogRows)
      BY <1>1, <1>2, IsASeq
    <3> QED
      BY <2>3, <3>1
  <2>6. DOMAIN new = 1 .. Len(lg)
    BY <2>3
  <2>7. row2.of = e.of /\ row2.what = e.what
    BY DEF row2
  <2>8. \E i \in DOMAIN new : new[i] = row2
    BY <1>1, <1>4, <2>4, <2>6
  <2> QED
    BY <1>1, <2>4, <2>5, <2>6, <2>7, <2>8 DEF new, row2
<1> QED
  BY <1>3, <1>4

LEMMA AnswerIsDropped ==
  ASSUME NEW lg \in Seq(LogRows), NEW e
  PROVE  /\ WithoutAnswer(lg, e) \in Seq(LogRows)
         /\ e.of = NoCall => WithoutAnswer(lg, e) = lg
<1>1. lg # <<>> => Front(lg) \in Seq(LogRows)
  <2> SUFFICES ASSUME lg # <<>> PROVE Front(lg) \in Seq(LogRows)
    OBVIOUS
  <2>1. Len(lg) \in Nat \ {0} /\ \A i \in 1 .. Len(lg) : lg[i] \in LogRows
    BY LenProperties, ElementOfSeq, EmptySeq
  <2>2. \A i \in 1 .. Len(lg) - 1 : lg[i] \in LogRows
    BY <2>1
  <2>3. SubSeq(lg, 1, Len(lg) - 1) \in Seq(LogRows)
    BY <2>1, <2>2, SubSeqProperties
  <2> QED
    BY <2>3 DEF Front
<1> QED
  BY <1>1 DEF WithoutAnswer

(* A view keeps its run, unless the event is of another.                   *)
LEMMA Rebases ==
  ASSUME NEW v \in Views, NEW e \in RunEvents
  PROVE  /\ Rebased(v, e) \in Views
         /\ e.run # 0 => Rebased(v, e).run = e.run
         /\ e.run = 0 => Rebased(v, e).run = v.run
         /\ e.run \in {0, v.run} \/ v.run = 0 =>
              /\ Rebased(v, e).state = v.state /\ Rebased(v, e).cards = v.cards
              /\ Rebased(v, e).log = v.log
         /\ e.run # 0 /\ v.run \notin {0, e.run} =>
              /\ Rebased(v, e).state = "" /\ Rebased(v, e).cards = {}
              /\ Rebased(v, e).log = <<>>
<1>1. e.run \in Nat /\ v.run \in Nat
  BY DEF RunEvents, Views
<1>2. CASE e.run # 0 /\ v.run \notin {0, e.run}
  <2> DEFINE b == [EmptyRun EXCEPT !.run = e.run]
  <2>1. Rebased(v, e) = b
    BY <1>2 DEF Rebased
  <2>2. b.run = e.run /\ b.state = "" /\ b.cards = {} /\ b.log = <<>>
    BY DEF EmptyRun
  <2>3. b \in Views
    BY <1>1, EmptyView DEF Views
  <2> QED
    BY <1>2, <2>1, <2>2, <2>3
<1>3. CASE ~(e.run # 0 /\ v.run \notin {0, e.run})
  <2> DEFINE r == IF e.run # 0 THEN e.run ELSE v.run
             b == [v EXCEPT !.run = r]
  <2>1. Rebased(v, e) = b
    BY <1>3 DEF Rebased
  <2>2. r \in Nat
    BY <1>1
  <2> HIDE DEF r
  <2>3. b \in Views /\ b.run = r /\ b.state = v.state /\ b.cards = v.cards /\ b.log = v.log
    BY <2>2 DEF Views
  <2>4. (e.run # 0 => r = e.run) /\ (e.run = 0 => r = v.run)
    BY DEF r
  <2> QED
    BY <1>3, <2>1, <2>3, <2>4
<1> QED
  BY <1>2, <1>3

(* The reducer, an event at a time; b is the view it starts from.          *)
LEMMA Reduces ==
  ASSUME NEW v \in Views, NEW e \in RunEvents, NEW b \in Views, b = Rebased(v, e)
  PROVE  /\ Reduced(v, e) \in Views /\ Reduced(v, e).run = b.run
         /\ Reduced(v, e).state = IF e.kind = "state" THEN e.what ELSE b.state
         /\ Reduced(v, e).cards =
              CASE e.kind = "state" /\ e.what \in Terminal -> {}
                [] e.kind = "request" -> b.cards \cup {e.of}
                [] e.kind = "resolved" -> b.cards \ {e.of}
                [] OTHER -> b.cards
         /\ Reduced(v, e).log =
              CASE e.kind = "state" -> WithoutAnswer(b.log, e)
                [] e.kind \in {"commentary", "handoff"} -> Append(b.log, [of |-> e.of, what |-> "text"])
                [] e.kind = "tool" -> WithRow(b.log, e)
                [] OTHER -> b.log
<1>1. /\ b.log \in Seq(LogRows) /\ b.cards \in SUBSET (Nat \X Nat) /\ b.run \in Nat /\ b.state \in Words
      /\ e.of \in Nat \X Nat /\ e.what \in Words
      /\ e.kind \in {"state", "commentary", "handoff", "tool", "request", "resolved", "restored"}
  BY DEF Views, RunEvents
<1>2. CASE e.kind = "state"
  <2> DEFINE g == WithoutAnswer(b.log, e)
             c == IF e.what \in Terminal THEN {} ELSE b.cards
             n == [b EXCEPT !.state = e.what, !.log = g, !.cards = c]
  <2>1. Reduced(v, e) = n
    BY <1>2 DEF Reduced
  <2>2. g \in Seq(LogRows) /\ c \in SUBSET (Nat \X Nat)
    BY <1>1, AnswerIsDropped
  <2> HIDE DEF g, c
  <2>3. n \in Views /\ n.run = b.run /\ n.state = e.what /\ n.cards = c /\ n.log = g
    BY <1>1, <2>2 DEF Views
  <2> QED
    BY <1>2, <2>1, <2>3 DEF g, c
<1>3. CASE e.kind \in {"commentary", "handoff"}
  <2> DEFINE g == Append(b.log, [of |-> e.of, what |-> "text"])
             n == [b EXCEPT !.log = g]
  <2>1. Reduced(v, e) = n
    BY <1>3 DEF Reduced
  <2>2. g \in Seq(LogRows)
    <3>1. [of |-> e.of, what |-> "text"] \in LogRows
      BY <1>1 DEF LogRows, Words
    <3> QED
      BY <1>1, <3>1, AppendProperties
  <2> HIDE DEF g
  <2>3. n \in Views /\ n.run = b.run /\ n.state = b.state /\ n.cards = b.cards /\ n.log = g
    BY <1>1, <2>2 DEF Views
  <2> QED
    BY <1>3, <2>1, <2>3 DEF g
<1>4. CASE e.kind = "tool"
  <2> DEFINE g == WithRow(b.log, e)
             n == [b EXCEPT !.log = g]
  <2>1. Reduced(v, e) = n
    BY <1>4 DEF Reduced
  <2>2. g \in Seq(LogRows)
    BY <1>1, RowIsSet
  <2> HIDE DEF g
  <2>3. n \in Views /\ n.run = b.run /\ n.state = b.state /\ n.cards = b.cards /\ n.log = g
    BY <1>1, <2>2 DEF Views
  <2> QED
    BY <1>4, <2>1, <2>3 DEF g
<1>5. CASE e.kind \in {"request", "resolved"}
  <2> DEFINE c == IF e.kind = "request" THEN b.cards \cup {e.of} ELSE b.cards \ {e.of}
             n == [b EXCEPT !.cards = c]
  <2>1. Reduced(v, e) = n
    BY <1>5 DEF Reduced
  <2>2. c \in SUBSET (Nat \X Nat)
    BY <1>1
  <2> HIDE DEF c
  <2>3. n \in Views /\ n.run = b.run /\ n.state = b.state /\ n.cards = c /\ n.log = b.log
    BY <1>1, <2>2 DEF Views
  <2> QED
    BY <1>5, <2>1, <2>3 DEF c
<1>6. CASE e.kind = "restored"
  BY <1>6 DEF Reduced
<1> QED
  BY <1>1, <1>2, <1>3, <1>4, <1>5, <1>6

LEMMA TurnedIs ==
  ASSUME NEW w \in Windows, NEW e \in RunEvents
  PROVE  /\ Turned(w, e) \in Windows
         /\ Turned(w, e).shown.view = Reduced(w.shown.view, e)
         /\ e.kind \notin {"handoff", "state"} => Turned(w, e).shown.handoff = w.shown.handoff
         /\ e.kind = "handoff" => Turned(w, e).shown.handoff
         /\ e.kind = "state" /\ e.what # "handoff" => ~Turned(w, e).shown.handoff
         /\ e.kind # "state" => Turned(w, e).active = w.active
         /\ e.kind = "state" /\ e.what \in Terminal => Turned(w, e).active = 0
         /\ e.kind = "state" /\ e.what \notin Terminal => Turned(w, e).active = e.run
<1> DEFINE v == Reduced(w.shown.view, e)
           h == IF e.kind = "handoff" THEN TRUE
                ELSE IF e.kind = "state" /\ e.what # "handoff" THEN FALSE ELSE w.shown.handoff
           a == IF e.kind # "state" THEN w.active ELSE IF e.what \in Terminal THEN 0 ELSE e.run
<1>1. w.shown.view \in Views /\ w.shown.handoff \in BOOLEAN /\ w.active \in Nat /\ e.run \in Nat
  BY DEF Windows, RunEvents
<1>2. v \in Views
  BY <1>1, Rebases, Reduces
<1>3. Turned(w, e) = [shown |-> [view |-> v, handoff |-> h], active |-> a]
  BY DEF Turned, Shows
<1>4. /\ h \in BOOLEAN
      /\ e.kind \notin {"handoff", "state"} => h = w.shown.handoff
      /\ e.kind = "handoff" => h
      /\ e.kind = "state" /\ e.what # "handoff" => ~h
  BY <1>1, Zenon
<1>5. /\ a \in Nat
      /\ e.kind # "state" => a = w.active
      /\ e.kind = "state" /\ e.what \in Terminal => a = 0
      /\ e.kind = "state" /\ e.what \notin Terminal => a = e.run
  BY <1>1
<1> HIDE DEF v, h, a
<1>6. Turned(w, e).shown.view = v /\ Turned(w, e).shown.handoff = h /\ Turned(w, e).active = a
  BY <1>3
<1>7. Turned(w, e) \in Windows
  BY <1>2, <1>3, <1>4, <1>5 DEF Windows
<1>8. Turned(w, e).shown.view = Reduced(w.shown.view, e)
  BY <1>6 DEF v
<1> QED
  BY <1>4, <1>5, <1>6, <1>7, <1>8

(* From w the events of q lead to z.                                       *)
Leads(f, w, q, z) ==
  /\ f[0] = w /\ f[Len(q)] = z
  /\ \A i \in 1 .. Len(q) : f[i] = Turned(f[i - 1], q[i])
Brings(w, q, z) == \E f : Leads(f, w, q, z)

LEMMA BringsNothing ==
  ASSUME NEW w, NEW z
  PROVE  Brings(w, <<>>, z) <=> z = w
<1>1. Len(<<>>) = 0 /\ 1 .. 0 = {}
  BY EmptySeq
<1>2. ASSUME Brings(w, <<>>, z) PROVE z = w
  BY <1>1, <1>2 DEF Brings, Leads
<1>3. ASSUME z = w PROVE Brings(w, <<>>, z)
  <2> DEFINE f == [i \in {0} |-> w]
  <2>1. f[0] = w
    OBVIOUS
  <2> HIDE DEF f
  <2>2. Leads(f, w, <<>>, z)
    BY <1>1, <1>3, <2>1 DEF Leads
  <2> QED
    BY <2>2 DEF Brings
<1> QED
  BY <1>2, <1>3

(* Main takes the first event from the port.                               *)
LEMMA BringsHead ==
  ASSUME NEW S, NEW q \in Seq(S), q # <<>>, NEW w, NEW z, Brings(Turned(w, Head(q)), Tail(q), z)
  PROVE  Brings(w, q, z)
<1> DEFINE L == Len(q)
<1>1. PICK f : Leads(f, Turned(w, Head(q)), Tail(q), z)
  BY DEF Brings
<1>2. /\ L \in Nat \ {0} /\ Len(Tail(q)) = L - 1 /\ Head(q) = q[1]
      /\ \A i \in 1 .. L - 1 : Tail(q)[i] = q[i + 1]
  BY LenProperties, EmptySeq, HeadTailProperties
<1>3. /\ f[0] = Turned(w, q[1]) /\ f[L - 1] = z
      /\ \A i \in 1 .. L - 1 : f[i] = Turned(f[i - 1], q[i + 1])
  BY <1>1, <1>2 DEF Leads
<1>4. PICK g : g = [i \in 0 .. L |-> IF i = 0 THEN w ELSE f[i - 1]]
  OBVIOUS
<1> HIDE DEF L
<1>5. g[0] = w /\ \A i \in 1 .. L : g[i] = f[i - 1]
  BY <1>2, <1>4
<1>6. g[L] = z
  BY <1>2, <1>3, <1>5
<1>7. ASSUME NEW i \in 1 .. L PROVE g[i] = Turned(g[i - 1], q[i])
  <2>1. CASE i = 1
    BY <1>3, <1>5, <2>1
  <2>2. CASE i # 1
    <3>1. i - 1 \in 1 .. L - 1 /\ i - 1 \in 1 .. L /\ (i - 1) + 1 = i
      BY <1>2, <2>2
    <3>2. f[i - 1] = Turned(f[(i - 1) - 1], q[i])
      BY <1>3, <3>1
    <3>3. g[i - 1] = f[(i - 1) - 1] /\ g[i] = f[i - 1]
      BY <1>5, <3>1
    <3> QED
      BY <3>2, <3>3
  <2> QED
    BY <2>1, <2>2
<1>8. Leads(g, w, q, z)
  BY <1>5, <1>6, <1>7 DEF Leads, L
<1> QED
  BY <1>8 DEF Brings

(* What is posted on top leads on from where the rest leads to.            *)
LEMMA BringsOn ==
  ASSUME NEW S, NEW p \in Seq(S), NEW q \in Seq(S), NEW w, NEW z, Brings(w, p \o q, z)
  PROVE  \E y : Brings(w, p, y) /\ Brings(y, q, z)
<1> DEFINE P == Len(p)
           Q == Len(q)
<1>1. PICK f : Leads(f, w, p \o q, z)
  BY DEF Brings
<1>2. /\ P \in Nat /\ Q \in Nat /\ Len(p \o q) = P + Q
      /\ \A i \in 1 .. P + Q : (p \o q)[i] = IF i <= P THEN p[i] ELSE q[i - P]
  BY LenProperties, ConcatProperties
<1>3. /\ f[0] = w /\ f[P + Q] = z
      /\ \A i \in 1 .. P + Q : f[i] = Turned(f[i - 1], IF i <= P THEN p[i] ELSE q[i - P])
  BY <1>1, <1>2 DEF Leads
<1> HIDE DEF P, Q
<1>4. Leads(f, w, p, f[P])
  <2>1. \A i \in 1 .. P : i \in 1 .. P + Q /\ i <= P
    BY <1>2
  <2>2. \A i \in 1 .. P : f[i] = Turned(f[i - 1], p[i])
    BY <1>3, <2>1
  <2> QED
    BY <1>3, <2>2 DEF Leads, P
<1>5. PICK g : g = [i \in 0 .. Q |-> f[P + i]]
  OBVIOUS
<1>6. Leads(g, f[P], q, z)
  <2>1. \A i \in 0 .. Q : g[i] = f[P + i]
    BY <1>5
  <2>2. g[0] = f[P] /\ g[Q] = z
    BY <1>2, <1>3, <2>1
  <2>3. ASSUME NEW i \in 1 .. Q PROVE g[i] = Turned(g[i - 1], q[i])
    <3>1. /\ P + i \in 1 .. P + Q /\ ~(P + i <= P) /\ (P + i) - P = i /\ (P + i) - 1 = P + (i - 1)
          /\ i \in 0 .. Q /\ i - 1 \in 0 .. Q
      BY <1>2
    <3>2. f[P + i] = Turned(f[P + (i - 1)], q[i])
      BY <1>3, <3>1
    <3> QED
      BY <2>1, <3>1, <3>2
  <2> QED
    BY <2>2, <2>3 DEF Leads, Q
<1> QED
  BY <1>4, <1>6 DEF Brings

LEMMA BringsOne ==
  ASSUME NEW w, NEW e, NEW z, Brings(w, <<e>>, z)
  PROVE  z = Turned(w, e)
<1>1. PICK f : Leads(f, w, <<e>>, z)
  BY DEF Brings
<1>2. Len(<<e>>) = 1 /\ <<e>>[1] = e /\ 1 \in 1 .. 1
  OBVIOUS
<1>3. f[0] = w /\ f[1] = z /\ f[1] = Turned(f[1 - 1], e)
  BY <1>1, <1>2 DEF Leads
<1> QED
  BY <1>3

LEMMA BringsTwo ==
  ASSUME NEW w, NEW d, NEW e, NEW z, Brings(w, <<d, e>>, z)
  PROVE  z = Turned(Turned(w, d), e)
<1>1. PICK f : Leads(f, w, <<d, e>>, z)
  BY DEF Brings
<1>2. Len(<<d, e>>) = 2 /\ <<d, e>>[1] = d /\ <<d, e>>[2] = e /\ 1 \in 1 .. 2 /\ 2 \in 1 .. 2
  OBVIOUS
<1>3. f[0] = w /\ f[2] = z /\ f[1] = Turned(f[0], d) /\ f[2] = Turned(f[1], e)
  <2>1. f[1] = Turned(f[1 - 1], d) /\ f[2] = Turned(f[2 - 1], e) /\ f[0] = w /\ f[2] = z
    BY <1>1, <1>2 DEF Leads
  <2>2. 1 - 1 = 0 /\ 2 - 1 = 1
    OBVIOUS
  <2> QED
    BY <2>1, <2>2
<1> QED
  BY <1>3

(* What every event keeps, a sequence of them keeps.                       *)
LEMMA BringsKept ==
  ASSUME NEW S, NEW q \in Seq(S), NEW K, NEW w \in K, NEW z, Brings(w, q, z),
         \A y \in K, e \in S : Turned(y, e) \in K
  PROVE  z \in K
<1>1. PICK f : Leads(f, w, q, z)
  BY DEF Brings
<1>2. Len(q) \in Nat /\ \A i \in 1 .. Len(q) : q[i] \in S
  BY LenProperties, ElementOfSeq
<1> DEFINE L == Len(q)
           T == {n \in Nat : n <= L => f[n] \in K}
<1>3. 0 \in T
  BY <1>1 DEF Leads
<1>4. ASSUME NEW n \in Nat, n \in T PROVE n + 1 \in T
  <2> SUFFICES ASSUME n + 1 <= L PROVE f[n + 1] \in K
    OBVIOUS
  <2>1. n + 1 \in 1 .. L /\ n <= L /\ (n + 1) - 1 = n
    BY <1>2
  <2>2. f[n] \in K
    BY <1>4, <2>1
  <2> HIDE DEF T
  <2>3. f[n + 1] = Turned(f[n], q[n + 1]) /\ q[n + 1] \in S
    BY <1>1, <1>2, <2>1 DEF Leads
  <2> QED
    BY <2>2, <2>3
<1> HIDE DEF T
<1>5. L \in T
  BY <1>2, <1>3, <1>4, Induct
<1> QED
  BY <1>1, <1>2, <1>5 DEF T, Leads

(* An event of the run that is shown.                                      *)
LEMMA Stays ==
  ASSUME NEW w \in Windows, NEW e \in RunEvents, NEW y, y = Turned(w, e),
         w.shown.view.run # 0, e.run \in {0, w.shown.view.run}
  PROVE  /\ y \in Windows /\ y.shown.view.run = w.shown.view.run
         /\ e.kind = "state" => y.shown.view.state = e.what
         /\ e.kind # "state" => y.shown.view.state = w.shown.view.state
         /\ e.kind = "state" /\ e.what \in Terminal => y.shown.view.cards = {}
         /\ e.kind = "request" => y.shown.view.cards = w.shown.view.cards \cup {e.of}
         /\ e.kind = "resolved" => y.shown.view.cards = w.shown.view.cards \ {e.of}
         /\ e.kind \notin {"state", "request", "resolved"} \/ (e.kind = "state" /\ e.what \notin Terminal) =>
              y.shown.view.cards = w.shown.view.cards
         /\ e.kind = "state" => y.shown.view.log = WithoutAnswer(w.shown.view.log, e)
         /\ e.kind \in {"commentary", "handoff"} =>
              y.shown.view.log = Append(w.shown.view.log, TextRow(e.of))
         /\ e.kind = "tool" => y.shown.view.log = WithRow(w.shown.view.log, e)
         /\ e.kind \in {"request", "resolved", "restored"} => y.shown.view.log = w.shown.view.log
         /\ e.kind \notin {"handoff", "state"} => y.shown.handoff = w.shown.handoff
         /\ e.kind = "handoff" => y.shown.handoff
         /\ e.kind = "state" /\ e.what # "handoff" => ~y.shown.handoff
         /\ e.kind # "state" => y.active = w.active
         /\ e.kind = "state" /\ e.what \in Terminal => y.active = 0
         /\ e.kind = "state" /\ e.what \notin Terminal => y.active = e.run
<1> DEFINE v == w.shown.view
           b == Rebased(v, e)
<1>1. v \in Views
  BY DEF Windows
<1> HIDE DEF v
<1>2. b \in Views /\ b.run = v.run /\ b.state = v.state /\ b.cards = v.cards /\ b.log = v.log
  BY <1>1, Rebases DEF v
<1> HIDE DEF b
<1>3. /\ Reduced(v, e).run = v.run
      /\ Reduced(v, e).state = IF e.kind = "state" THEN e.what ELSE v.state
      /\ Reduced(v, e).cards =
           CASE e.kind = "state" /\ e.what \in Terminal -> {}
             [] e.kind = "request" -> v.cards \cup {e.of}
             [] e.kind = "resolved" -> v.cards \ {e.of}
             [] OTHER -> v.cards
      /\ Reduced(v, e).log =
           CASE e.kind = "state" -> WithoutAnswer(v.log, e)
             [] e.kind \in {"commentary", "handoff"} -> Append(v.log, [of |-> e.of, what |-> "text"])
             [] e.kind = "tool" -> WithRow(v.log, e)
             [] OTHER -> v.log
  <2>1. b = Rebased(v, e)
    BY DEF b
  <2> QED
    BY <1>1, <1>2, <2>1, Reduces
<1>4. /\ y \in Windows /\ y.shown.view = Reduced(v, e)
      /\ e.kind \notin {"handoff", "state"} => y.shown.handoff = w.shown.handoff
      /\ e.kind = "handoff" => y.shown.handoff
      /\ e.kind = "state" /\ e.what # "handoff" => ~y.shown.handoff
      /\ e.kind # "state" => y.active = w.active
      /\ e.kind = "state" /\ e.what \in Terminal => y.active = 0
      /\ e.kind = "state" /\ e.what \notin Terminal => y.active = e.run
  BY TurnedIs DEF v
<1>5. e.kind \in {"state", "commentary", "handoff", "tool", "request", "resolved", "restored"}
  BY DEF RunEvents
<1> QED
  BY <1>3, <1>4, <1>5 DEF v, TextRow

(* What the daemon posts until run n, and what main shows of it.           *)
Proper(n) == {e \in RunEvents : e.run <= n /\ (e.run = 0 => e.kind \in {"resolved", "restored"})}
Own(n) ==
  {w \in Windows : /\ w.shown.view.run <= n /\ w.active <= n
                   /\ w.shown.view.run = 0 => w.shown.view.cards = {} /\ w.shown.view.log = <<>>}

LEMMA OwnKept ==
  ASSUME NEW n \in Nat
  PROVE  \A w \in Own(n), e \in Proper(n) : Turned(w, e) \in Own(n)
<1> SUFFICES ASSUME NEW w \in Own(n), NEW e \in Proper(n) PROVE Turned(w, e) \in Own(n)
  OBVIOUS
<1> DEFINE v == w.shown.view
           b == Rebased(v, e)
           y == Turned(w, e)
<1>1. w \in Windows /\ e \in RunEvents /\ w.active <= n /\ v.run <= n /\ e.run <= n
  BY DEF Own, Proper
<1>2. v \in Views /\ v.run \in Nat /\ e.run \in Nat
  BY <1>1 DEF Windows, Views, RunEvents
<1>3. b \in Views /\ (e.run # 0 => b.run = e.run) /\ (e.run = 0 => b.run = v.run)
  BY <1>1, <1>2, Rebases
<1>4. /\ y \in Windows /\ y.shown.view = Reduced(v, e)
      /\ y.active \in {w.active, 0, e.run}
  BY <1>1, TurnedIs, Zenon
<1>5. b = Rebased(v, e)
  OBVIOUS
<1> HIDE DEF y, b, v
<1>6. /\ Reduced(v, e).run = b.run
      /\ e.kind \in {"resolved", "restored"} /\ b.cards = {} /\ b.log = <<>> =>
           Reduced(v, e).cards = {} /\ Reduced(v, e).log = <<>>
  <2>1. /\ Reduced(v, e).run = b.run
        /\ Reduced(v, e).cards =
             CASE e.kind = "state" /\ e.what \in Terminal -> {}
               [] e.kind = "request" -> b.cards \cup {e.of}
               [] e.kind = "resolved" -> b.cards \ {e.of}
               [] OTHER -> b.cards
        /\ Reduced(v, e).log =
             CASE e.kind = "state" -> WithoutAnswer(b.log, e)
               [] e.kind \in {"commentary", "handoff"} -> Append(b.log, [of |-> e.of, what |-> "text"])
               [] e.kind = "tool" -> WithRow(b.log, e)
               [] OTHER -> b.log
    BY <1>1, <1>2, <1>3, <1>5, Reduces
  <2> QED
    BY <2>1
<1>7. y.shown.view.run = b.run
  BY <1>4, <1>6
<1>8. y.shown.view.run <= n /\ y.active <= n
  BY <1>1, <1>2, <1>3, <1>4, <1>7
<1>9. ASSUME b.run = 0 PROVE y.shown.view.cards = {} /\ y.shown.view.log = <<>>
  <2>1. e.run = 0 /\ v.run = 0 /\ e.kind \in {"resolved", "restored"}
    BY <1>3, <1>9 DEF Proper
  <2>2. v.cards = {} /\ v.log = <<>>
    BY <2>1 DEF Own, v
  <2>3. b.cards = {} /\ b.log = <<>>
    BY <1>1, <1>2, <1>5, <2>1, <2>2, Rebases
  <2> QED
    BY <1>4, <1>6, <2>1, <2>3
<1> QED
  BY <1>4, <1>7, <1>8, <1>9 DEF Own, y

(* The rows of calls are as the journal T has them; p waits for the human. *)
RowsTrue(g, T, p) ==
  /\ \A i \in DOMAIN g : g[i].what # "text" =>
       /\ g[i].of \in Calls
       /\ g[i].what = T[g[i].of] \/ (g[i].of = p /\ T[p] = "done" /\ g[i].what = "executing")
  /\ \A c \in Calls : T[c] = "executing" => \E i \in DOMAIN g : g[i].of = c /\ g[i].what = "executing"

LEMMA RowsSet ==
  ASSUME NEW g \in Seq(LogRows), NEW e \in RunEvents, e.of \in Calls, NEW T, NEW U, NEW p, NEW q,
         RowsTrue(g, T, p), e.what = U[e.of], p \in {e.of, q},
         \A d \in Calls : d # e.of => U[d] = T[d]
  PROVE  RowsTrue(WithRow(g, e), U, q)
<1> DEFINE h == WithRow(g, e)
<1>1. /\ \E i \in DOMAIN h : h[i].of = e.of /\ h[i].what = e.what
      /\ \A i \in DOMAIN h :
           \/ h[i].of = e.of /\ h[i].what = e.what
           \/ i \in DOMAIN g /\ h[i] = g[i] /\ (g[i].of = e.of => g[i].what = "text")
      /\ \A i \in DOMAIN g : g[i].of # e.of => i \in DOMAIN h /\ h[i] = g[i]
  BY RowIsSet
<1> HIDE DEF h
<1>2. ASSUME NEW i \in DOMAIN h, h[i].what # "text"
      PROVE  /\ h[i].of \in Calls
             /\ h[i].what = U[h[i].of] \/ (h[i].of = q /\ U[q] = "done" /\ h[i].what = "executing")
  <2>1. CASE h[i].of = e.of /\ h[i].what = e.what
    BY <2>1
  <2>2. CASE i \in DOMAIN g /\ h[i] = g[i] /\ (g[i].of = e.of => g[i].what = "text")
    BY <1>2, <2>2 DEF RowsTrue
  <2> QED
    BY <1>1, <2>1, <2>2
<1>3. ASSUME NEW c \in Calls, U[c] = "executing"
      PROVE  \E i \in DOMAIN h : h[i].of = c /\ h[i].what = "executing"
  <2>1. CASE c = e.of
    BY <1>1, <1>3, <2>1
  <2>2. CASE c # e.of
    BY <1>1, <1>3, <2>2 DEF RowsTrue
  <2> QED
    BY <2>1, <2>2
<1> QED
  BY <1>2, <1>3 DEF RowsTrue, h

LEMMA RowsText ==
  ASSUME NEW g \in Seq(LogRows), NEW x \in Nat \X Nat, NEW T, NEW p, RowsTrue(g, T, p)
  PROVE  RowsTrue(Append(g, TextRow(x)), T, p)
<1> DEFINE r == TextRow(x)
           h == Append(g, r)
<1>1. r \in LogRows /\ r.what = "text"
  BY DEF LogRows, Words, TextRow
<1> HIDE DEF r
<1>2. /\ h \in Seq(LogRows) /\ Len(h) = Len(g) + 1 /\ Len(g) \in Nat
      /\ \A i \in 1 .. Len(g) : h[i] = g[i]
      /\ h[Len(g) + 1] = r
  BY <1>1, AppendProperties, LenProperties
<1> HIDE DEF h
<1>3. DOMAIN h = 1 .. Len(g) + 1 /\ DOMAIN g = 1 .. Len(g)
  BY <1>2, LenProperties
<1>4. \A i \in DOMAIN h : h[i].what = "text" \/ (i \in DOMAIN g /\ h[i] = g[i])
  BY <1>1, <1>2, <1>3
<1>5. \A i \in DOMAIN g : i \in DOMAIN h /\ h[i] = g[i]
  BY <1>2, <1>3
<1>6. RowsTrue(h, T, p)
  BY <1>4, <1>5 DEF RowsTrue
<1> QED
  BY <1>6 DEF h, r

(* A call that waits for the human has returned, or was denied.            *)
LEMMA RowsPark ==
  ASSUME NEW g, NEW T, NEW U, NEW p, p \notin Calls, NEW c \in Calls, RowsTrue(g, T, p),
         U[c] = T[c] \/ (T[c] = "executing" /\ U[c] = "done"),
         \A d \in Calls : d # c => U[d] = T[d]
  PROVE  RowsTrue(g, U, c)
BY DEF RowsTrue

-----------------------------------------------------------------------------
(* The cards that are closed with the run.                                 *)

Resolves == {Resolved(c) : c \in Calls}

LEMMA CallIsPair == NoCall \notin Calls /\ \A c \in Calls : c \in Nat \X Nat
<1>1. \A c \in Calls : c[1] \in 1 .. MaxTurns /\ c \in Nat \X Nat
  BY Bounds DEF Calls, Turns
<1>2. NoCall[1] = 0
  BY DEF NoCall
<1> QED
  BY <1>1, <1>2, Bounds

LEMMA OpenIsFinite == IsFiniteSet(Open)
<1>1. MaxTurns \in Nat /\ MaxBatch \in Nat
  BY Bounds
<1>2. IsFiniteSet(1 .. MaxTurns) /\ IsFiniteSet(1 .. MaxBatch)
  BY <1>1, FS_Interval
<1>3. IsFiniteSet(Calls)
  BY <1>2, FS_Product DEF Calls, Turns
<1>4. Open \in SUBSET Calls
  BY DEF Open
<1> QED
  BY <1>3, <1>4, FS_Subset

LEMMA ClosedInOrder == SetToSeq({Resolved(c) : c \in Open}) \in Seq(Resolves)
<1> DEFINE S == {Resolved(c) : c \in Open}
           f == [c \in Open |-> Resolved(c)]
<1>1. f \in Surjection(Open, S)
  BY DEF Surjection
<1>2. IsFiniteSet(S)
  <2> HIDE DEF f, S
  <2> QED
    BY <1>1, OpenIsFinite, FS_Surjection
<1>3. S \subseteq Resolves
  BY DEF Open, Resolves
<1> HIDE DEF S, f
<1>4. Cardinality(S) \in Nat /\ ExistsBijection(1 .. Cardinality(S), S)
  BY <1>2, FS_CardinalityType
<1>5. \E g \in [1 .. Cardinality(S) -> S] : IsInjective(g)
  BY <1>4 DEF ExistsBijection, Bijection, Injection
<1>6. SetToSeq(S) \in [1 .. Cardinality(S) -> S]
  BY <1>5 DEF SetToSeq
<1>7. SetToSeq(S) \in [1 .. Cardinality(S) -> Resolves]
  BY <1>3, <1>6
<1>8. SetToSeq(S) \in Seq(Resolves)
  BY <1>4, <1>7
<1> QED
  BY <1>8 DEF S

LEMMA ResolvedIs ==
  ASSUME NEW c \in Calls
  PROVE  /\ Resolved(c) \in RunEvents /\ Resolved(c).kind = "resolved"
         /\ Resolved(c).run = 0 /\ Resolved(c).of = c
<1>1. c \in Nat \X Nat
  BY CallIsPair
<1> QED
  BY <1>1 DEF Resolved, RunEvent, RunEvents, Words

(* Closing the cards of the run leaves it shown, and active.               *)
LEMMA ClosingKeeps ==
  ASSUME NEW w \in Windows, w.shown.view.run # 0, NEW q \in Seq(Resolves), NEW z, Brings(w, q, z)
  PROVE  z \in Windows /\ z.shown.view.run = w.shown.view.run /\ z.active = w.active
<1> DEFINE K == {x \in Windows : x.shown.view.run = w.shown.view.run /\ x.active = w.active}
<1>1. ASSUME NEW x \in K, NEW e \in Resolves PROVE Turned(x, e) \in K
  <2>1. e \in RunEvents /\ e.kind = "resolved" /\ e.run = 0
    BY ResolvedIs DEF Resolves
  <2>2. x \in Windows /\ x.shown.view.run = w.shown.view.run /\ x.active = w.active
    OBVIOUS
  <2>3. Turned(x, e) \in Windows /\ Turned(x, e).shown.view.run = x.shown.view.run
        /\ Turned(x, e).active = x.active
    BY <2>1, <2>2, Stays
  <2> QED
    BY <2>2, <2>3
<1>2. w \in K
  OBVIOUS
<1> HIDE DEF K
<1>3. z \in K
  BY <1>1, <1>2, BringsKept
<1> QED
  BY <1>3 DEF K

-----------------------------------------------------------------------------
(* What is on the port makes the window true of the run.                   *)

ShowsWork(w) ==
  /\ w.shown.view.state = state /\ (w.shown.handoff <=> state = "handoff")
  /\ w.shown.view.cards = Open
  /\ RowsTrue(w.shown.view.log, tool, parked)

ShowsRest(w) ==
  /\ w.shown.view.run = runs /\ w.active = 0 /\ w.shown.view.state \in Terminal
  /\ ~w.shown.handoff /\ w.shown.view.cards = {}
  /\ w.shown.view.state = "ended" => row = "ended"

(* The exit of a daemon that is gone is still to be told.                  *)
Truthful(w) ==
  ~late /\ ~overtaken =>
    /\ Live => w.shown.view.run = runs /\ w.active = runs
    /\ Live /\ at # "closing" => ShowsWork(w)
    /\ at = "none" => ShowsRest(w)
    /\ at = "down" => ShowsRest(w) \/ (exited /\ w.shown.view.run = runs /\ w.active = runs)

Showing == [shown |-> main.shown, active |-> main.active]

Booked ==
  /\ exited => at = "down"
  /\ restoring \in Nat /\ restoring <= runs
  /\ final \in Nat \X Nat
  /\ parked # NoCall => at = "recording" /\ parked \in Calls
  /\ at = "closing" => row = "ended"

WindowInv ==
  /\ Showing \in Own(runs) /\ pipe \in Seq(Proper(runs)) /\ Booked
  /\ \A z : Brings(Showing, pipe, z) => Truthful(z)

LEMMA WindowSafe == Inv /\ WindowInv => ShownIsTrue
<1> SUFFICES ASSUME Inv, WindowInv, AllHandled
             PROVE  /\ main.shown.view.run = runs
                    /\ Live => main.active = runs
                    /\ LiveIsShown /\ RestIsShown
  BY DEF ShownIsTrue
<1>1. Truthful(Showing)
  BY BringsNothing DEF AllHandled, WindowInv
<1>2. Showing.shown = main.shown /\ Showing.active = main.active
  BY DEF Showing
<1>3. main.shown.view \in Views
  BY <1>2 DEF WindowInv, Own, Windows
<1>4. /\ Live => main.shown.view.run = runs /\ main.active = runs
      /\ Live /\ at # "closing" => ShowsWork(Showing)
      /\ ~Live => ShowsRest(Showing)
  BY <1>1, <1>2 DEF Truthful, AllHandled, Live
<1>5. LiveIsShown
  <2> SUFFICES ASSUME Live, at # "closing"
      PROVE  LET view == main.shown.view IN
             /\ view.state = state /\ (main.shown.handoff <=> state = "handoff")
             /\ view.cards = Open
             /\ \A r \in ShownRows : r.what # "text" =>
                  r.what = tool[r.of] \/ (r.of = parked /\ r.what = "executing")
             /\ \A c \in Calls : tool[c] = "executing" => [of |-> c, what |-> "executing"] \in ShownRows
    BY DEF LiveIsShown
  <2> DEFINE g == main.shown.view.log
  <2>1. /\ main.shown.view.state = state /\ (main.shown.handoff <=> state = "handoff")
        /\ main.shown.view.cards = Open /\ RowsTrue(g, tool, parked)
    BY <1>2, <1>4 DEF ShowsWork
  <2>2. g \in Seq(LogRows)
    BY <1>3 DEF Views
  <2>3. ShownRows = {g[i] : i \in DOMAIN g}
    BY DEF ShownRows
  <2> HIDE DEF g
  <2>4. \A i \in DOMAIN g : g[i] \in LogRows
    BY <2>2
  <2>5. \A r \in ShownRows : r.what # "text" =>
          r.what = tool[r.of] \/ (r.of = parked /\ r.what = "executing")
    BY <2>1, <2>3 DEF RowsTrue
  <2>6. ASSUME NEW c \in Calls, tool[c] = "executing"
        PROVE  [of |-> c, what |-> "executing"] \in ShownRows
    <3>1. PICK i \in DOMAIN g : g[i].of = c /\ g[i].what = "executing"
      BY <2>1, <2>6 DEF RowsTrue
    <3>2. g[i] = [of |-> c, what |-> "executing"]
      BY <2>4, <3>1 DEF LogRows
    <3> QED
      BY <2>3, <3>2
  <2> QED
    BY <2>1, <2>5, <2>6
<1>6. RestIsShown
  BY <1>2, <1>4 DEF RestIsShown, ShowsRest
<1>7. main.shown.view.run = runs
  BY <1>2, <1>4 DEF ShowsRest
<1> QED
  BY <1>4, <1>5, <1>6, <1>7

(* A step whose events are posted, and a step without any.                 *)
LEMMA WindowPosts ==
  ASSUME WindowInv, runs \in Nat, runs' \in Nat, runs <= runs', UNCHANGED main, Booked',
         NEW es \in Seq(Proper(runs')), pipe' = pipe \o es,
         \A w \in Own(runs) : \A z : Truthful(w) /\ Brings(w, es, z) => Truthful(z)'
  PROVE  WindowInv'
<1>1. Own(runs) \subseteq Own(runs')
  BY DEF Own, Windows, Views
<1>2. Proper(runs) \subseteq Proper(runs')
  BY DEF Proper, RunEvents
<1>3. Showing' = Showing
  BY DEF Showing
<1>4. pipe \in Seq(Proper(runs))
  BY DEF WindowInv
<1>5. pipe \in Seq(Proper(runs'))
  BY <1>2, <1>4
<1>6. pipe' \in Seq(Proper(runs'))
  BY <1>5, ConcatProperties
<1>7. ASSUME NEW z, Brings(Showing, pipe', z) PROVE Truthful(z)'
  <2>1. PICK w : Brings(Showing, pipe, w) /\ Brings(w, es, z)
    BY <1>5, <1>7, BringsOn
  <2>2. Truthful(w)
    BY <2>1 DEF WindowInv
  <2>3. w \in Own(runs)
    <3>1. Showing \in Own(runs)
      BY DEF WindowInv
    <3> QED
      BY <1>4, <2>1, <3>1, OwnKept, BringsKept
  <2> QED
    BY <2>1, <2>2, <2>3
<1> QED
  BY <1>1, <1>3, <1>6, <1>7 DEF WindowInv

LEMMA WindowWaits ==
  ASSUME WindowInv, runs \in Nat, UNCHANGED <<main, pipe, runs>>, Booked',
         \A w \in Own(runs) : Truthful(w) => Truthful(w)'
  PROVE  WindowInv'
<1>1. Showing' = Showing
  BY DEF Showing
<1>2. ASSUME NEW z, Brings(Showing, pipe, z) PROVE Truthful(z)'
  <2>1. Truthful(z)
    BY <1>2 DEF WindowInv
  <2>2. z \in Own(runs)
    <3>1. Showing \in Own(runs) /\ pipe \in Seq(Proper(runs))
      BY DEF WindowInv
    <3> QED
      BY <1>2, <3>1, OwnKept, BringsKept
  <2> QED
    BY <2>1, <2>2
<1> QED
  BY <1>1, <1>2 DEF WindowInv

LEMMA EventIs ==
  ASSUME NEW n \in Nat, NEW o \in Nat \X Nat, NEW x \in Words,
         NEW k \in {"state", "commentary", "handoff", "tool", "request", "resolved", "restored"}
  PROVE  /\ RunEvent(k, n, o, x) \in RunEvents
         /\ RunEvent(k, n, o, x).kind = k /\ RunEvent(k, n, o, x).run = n
         /\ RunEvent(k, n, o, x).of = o /\ RunEvent(k, n, o, x).what = x
BY DEF RunEvent, RunEvents

LEMMA RunsCount == Inv => runs \in Nat /\ runs # 0
BY Bounds DEF Inv, TypeOK

LEMMA QuietWindow == Inv /\ WindowInv /\ Silently => WindowInv'
<1> SUFFICES ASSUME Inv, WindowInv, Silently PROVE WindowInv'
  OBVIOUS
<1>1. /\ UNCHANGED <<row, tool, runs>>
      /\ \/ at' = at
         \/ at \in {"batch", "recording"} /\ at' \in {"asking", "batch"} /\ parked = NoCall
  BY DEF Silently, Asks, Stop, Skipped, Records, Happens, store, run, counters, WindowInv, Booked
<1>2. UNCHANGED <<state, final, parked, cards, restoring, pipe, main, exited, late, overtaken>>
  BY DEF Silently, daemon, desktop, history
<1>3. Booked'
  BY <1>1, <1>2 DEF WindowInv, Booked
<1>4. ASSUME NEW w, Truthful(w) PROVE Truthful(w)'
  <2>1. Live' = Live /\ (at' = "closing" <=> at = "closing") /\ (at' = "none" <=> at = "none")
        /\ (at' = "down" <=> at = "down") /\ Open' = Open
    BY <1>1, <1>2 DEF Live, Open
  <2>2. ShowsWork(w) => ShowsWork(w)'
    BY <1>1, <1>2, <2>1 DEF ShowsWork
  <2>3. ShowsRest(w) => ShowsRest(w)'
    BY <1>1, <1>2 DEF ShowsRest
  <2> QED
    BY <1>1, <1>2, <1>4, <2>1, <2>2, <2>3 DEF Truthful
<1> QED
  BY <1>1, <1>2, <1>3, <1>4, RunsCount, WindowWaits

(* A step of a run that works on: what it posts is of the run.             *)
LEMMA WorksOn ==
  ASSUME Inv, WindowInv, Live, Live', at # "closing", at' # "closing",
         UNCHANGED <<runs, main, exited, late, restoring>>,
         final' \in Nat \X Nat, parked' # NoCall => at' = "recording" /\ parked' \in Calls,
         overtaken => overtaken',
         NEW es \in Seq(Proper(runs)), pipe' = pipe \o es,
         \A w \in Windows : \A z :
           /\ ~overtaken' /\ w.shown.view.run = runs /\ w.active = runs
           /\ ShowsWork(w) /\ Brings(w, es, z)
           => z.shown.view.run = runs /\ z.active = runs /\ ShowsWork(z)'
  PROVE  WindowInv'
<1>1. Booked'
  BY DEF WindowInv, Booked, Live
<1>2. ASSUME NEW w \in Own(runs), NEW z, Truthful(w), Brings(w, es, z) PROVE Truthful(z)'
  <2>1. CASE late' \/ overtaken'
    BY <2>1 DEF Truthful
  <2>2. CASE ~late' /\ ~overtaken'
    <3>1. w \in Windows /\ w.shown.view.run = runs /\ w.active = runs /\ ShowsWork(w)
      BY <1>2, <2>2 DEF Truthful, Own
    <3>2. z.shown.view.run = runs' /\ z.active = runs' /\ ShowsWork(z)'
      BY <1>2, <2>2, <3>1
    <3>3. at' \notin {"none", "down"}
      BY DEF Live
    <3> QED
      BY <3>2, <3>3 DEF Truthful
  <2> QED
    BY <2>1, <2>2
<1>3. runs \in Nat /\ runs' \in Nat /\ runs <= runs' /\ es \in Seq(Proper(runs')) /\ UNCHANGED main
  BY RunsCount
<1> QED
  BY <1>1, <1>2, <1>3, WindowPosts

(* A step that ends the run: its state is told when all of it is over.     *)
LEMMA WorksNoMore ==
  ASSUME Inv, WindowInv, Live, at' = "closing", row' = "ended",
         UNCHANGED <<runs, main, exited, late, overtaken, restoring>>,
         final' \in Nat \X Nat, parked' = NoCall,
         NEW es \in Seq(Proper(runs)), pipe' = pipe \o es,
         \A w \in Windows : \A z :
           w.shown.view.run = runs /\ w.active = runs /\ Brings(w, es, z)
           => z.shown.view.run = runs /\ z.active = runs
  PROVE  WindowInv'
<1>1. Booked'
  BY DEF WindowInv, Booked, Live
<1>2. ASSUME NEW w \in Own(runs), NEW z, Truthful(w), Brings(w, es, z) PROVE Truthful(z)'
  <2>1. CASE late' \/ overtaken'
    BY <2>1 DEF Truthful
  <2>2. CASE ~late' /\ ~overtaken'
    <3>1. w \in Windows /\ w.shown.view.run = runs /\ w.active = runs
      BY <1>2, <2>2 DEF Truthful, Own
    <3>2. z.shown.view.run = runs' /\ z.active = runs'
      BY <1>2, <2>2, <3>1
    <3> QED
      BY <3>2 DEF Truthful
  <2> QED
    BY <2>1, <2>2
<1>3. runs \in Nat /\ runs' \in Nat /\ runs <= runs' /\ es \in Seq(Proper(runs')) /\ UNCHANGED main
  BY RunsCount
<1> QED
  BY <1>1, <1>2, <1>3, WindowPosts

(* What a window shows of the run that works: its state, its cards, and    *)
(* its rows, by the journal T; the call p waits for the human.             *)
Sees(w, st, cs, T, p) ==
  /\ w \in Windows /\ w.shown.view.run = runs /\ w.active = runs
  /\ w.shown.view.state = st /\ w.shown.view.cards = cs /\ RowsTrue(w.shown.view.log, T, p)

LEMMA SeesWork ==
  ASSUME NEW w \in Windows, w.shown.view.run = runs, w.active = runs
  PROVE  /\ ShowsWork(w) <=> /\ Sees(w, state, Open, tool, parked)
                             /\ w.shown.handoff <=> state = "handoff"
         /\ w.shown.view.log \in Seq(LogRows)
BY DEF ShowsWork, Sees, Windows, Views

LEMMA SeesState ==
  ASSUME Inv, NEW w, NEW st, NEW cs, NEW T, NEW p, Sees(w, st, cs, T, p),
         NEW x \in Words, x \notin Terminal, NEW e, e = RunEvent("state", runs, NoCall, x)
  PROVE  /\ Sees(Turned(w, e), x, cs, T, p) /\ e \in Proper(runs)
         /\ x # "handoff" => ~Turned(w, e).shown.handoff
<1>1. runs \in Nat /\ runs # 0 /\ NoCall \in Nat \X Nat
  BY RunsCount DEF NoCall
<1>2. e \in RunEvents /\ e.kind = "state" /\ e.run = runs /\ e.of = NoCall /\ e.what = x
  BY <1>1, EventIs
<1>3. w \in Windows /\ w.shown.view.run = runs /\ w.shown.view.log \in Seq(LogRows)
  BY DEF Sees, Windows, Views
<1> DEFINE y == Turned(w, e)
<1>0. y = Turned(w, e)
  OBVIOUS
<1> HIDE DEF y
<1>4. /\ y \in Windows /\ y.shown.view.run = runs /\ y.shown.view.state = x
      /\ y.shown.view.cards = w.shown.view.cards
      /\ y.shown.view.log = WithoutAnswer(w.shown.view.log, e)
      /\ x # "handoff" => ~y.shown.handoff
      /\ y.active = runs
  BY <1>0, <1>1, <1>2, <1>3, Stays
<1>5. WithoutAnswer(w.shown.view.log, e) = w.shown.view.log
  BY <1>2, <1>3, AnswerIsDropped
<1> HIDE DEF y
<1>6. e \in Proper(runs)
  BY <1>1, <1>2 DEF Proper
<1> QED
  BY <1>4, <1>5, <1>6 DEF Sees, y

LEMMA SeesText ==
  ASSUME Inv, NEW w, NEW st, NEW cs, NEW T, NEW p, Sees(w, st, cs, T, p),
         NEW k \in {"commentary", "handoff"}, NEW o \in Nat \X Nat,
         NEW x \in Words, NEW e, e = RunEvent(k, runs, o, x)
  PROVE  /\ Sees(Turned(w, e), st, cs, T, p) /\ e \in Proper(runs)
         /\ k = "commentary" => Turned(w, e).shown.handoff = w.shown.handoff
         /\ k = "handoff" => Turned(w, e).shown.handoff
<1>1. runs \in Nat /\ runs # 0
  BY RunsCount
<1>2. e \in RunEvents /\ e.kind = k /\ e.run = runs /\ e.of = o
  BY <1>1 DEF RunEvent, RunEvents
<1>3. w \in Windows /\ w.shown.view.run = runs /\ w.shown.view.log \in Seq(LogRows) /\ w.active = runs
  BY DEF Sees, Windows, Views
<1> DEFINE y == Turned(w, e)
<1>0. y = Turned(w, e)
  OBVIOUS
<1> HIDE DEF y
<1>4. /\ y \in Windows /\ y.shown.view.run = runs /\ y.shown.view.state = w.shown.view.state
      /\ y.shown.view.cards = w.shown.view.cards
      /\ y.shown.view.log = Append(w.shown.view.log, TextRow(o))
      /\ k = "commentary" => y.shown.handoff = w.shown.handoff
      /\ k = "handoff" => y.shown.handoff
      /\ y.active = runs
  <2>1. e.kind \in {"commentary", "handoff"} /\ e.run \in {0, w.shown.view.run} /\ w.shown.view.run # 0
    BY <1>1, <1>2, <1>3
  <2>2. y \in Windows /\ y.shown.view.run = runs
    BY <1>0, <1>2, <1>3, <2>1, Stays
  <2>3. y.shown.view.state = w.shown.view.state
    BY <1>0, <1>2, <1>3, <2>1, Stays
  <2>4. y.shown.view.cards = w.shown.view.cards
    BY <1>0, <1>2, <1>3, <2>1, Stays
  <2>5. y.shown.view.log = Append(w.shown.view.log, TextRow(o))
    BY <1>0, <1>2, <1>3, <2>1, Stays
  <2>6. k = "handoff" => y.shown.handoff
    BY <1>0, <1>2, <1>3, <2>1, Stays
  <2>7. k = "commentary" => y.shown.handoff = w.shown.handoff
    BY <1>0, <1>2, <1>3, <2>1, Stays
  <2>8. y.active = runs
    BY <1>0, <1>2, <1>3, <2>1, Stays
  <2> QED
    BY <2>2, <2>3, <2>4, <2>5, <2>6, <2>7, <2>8
<1>5. RowsTrue(y.shown.view.log, T, p)
  BY <1>3, <1>4, RowsText DEF Sees
<1>6. e \in Proper(runs)
  BY <1>1, <1>2 DEF Proper
<1> QED
  BY <1>4, <1>5, <1>6 DEF Sees, y

LEMMA SeesTool ==
  ASSUME Inv, NEW w, NEW st, NEW cs, NEW T, NEW p, Sees(w, st, cs, T, p),
         NEW U, NEW q, NEW c \in Calls, NEW x \in Words, x = U[c], p \in {c, q},
         \A d \in Calls : d # c => U[d] = T[d],
         NEW e, e = RunEvent("tool", runs, c, x)
  PROVE  /\ Sees(Turned(w, e), st, cs, U, q) /\ e \in Proper(runs)
         /\ Turned(w, e).shown.handoff = w.shown.handoff
<1>1. runs \in Nat /\ runs # 0 /\ c \in Nat \X Nat
  BY RunsCount, CallIsPair
<1>2. e \in RunEvents /\ e.kind = "tool" /\ e.run = runs /\ e.of = c /\ e.what = x
  BY <1>1, EventIs
<1>3. w \in Windows /\ w.shown.view.run = runs /\ w.shown.view.log \in Seq(LogRows) /\ w.active = runs
  BY DEF Sees, Windows, Views
<1> DEFINE y == Turned(w, e)
<1>0. y = Turned(w, e)
  OBVIOUS
<1> HIDE DEF y
<1>4. /\ y \in Windows /\ y.shown.view.run = runs /\ y.shown.view.state = w.shown.view.state
      /\ y.shown.view.cards = w.shown.view.cards
      /\ y.shown.view.log = WithRow(w.shown.view.log, e)
      /\ y.shown.handoff = w.shown.handoff
      /\ y.active = runs
  BY <1>0, <1>1, <1>2, <1>3, Stays
<1>5. RowsTrue(y.shown.view.log, U, q)
  BY <1>2, <1>3, <1>4, RowsSet DEF Sees
<1>6. e \in Proper(runs)
  BY <1>1, <1>2 DEF Proper
<1> QED
  BY <1>4, <1>5, <1>6 DEF Sees, y

LEMMA SeesRequest ==
  ASSUME Inv, NEW w, NEW st, NEW cs, NEW T, NEW p, Sees(w, st, cs, T, p),
         NEW c \in Calls, NEW x \in Words, NEW e, e = RunEvent("request", runs, c, x)
  PROVE  /\ Sees(Turned(w, e), st, cs \cup {c}, T, p) /\ e \in Proper(runs)
         /\ Turned(w, e).shown.handoff = w.shown.handoff
<1>1. runs \in Nat /\ runs # 0 /\ c \in Nat \X Nat
  BY RunsCount, CallIsPair
<1>2. e \in RunEvents /\ e.kind = "request" /\ e.run = runs /\ e.of = c
  BY <1>1 DEF RunEvent, RunEvents
<1>3. w \in Windows /\ w.shown.view.run = runs /\ w.active = runs
  BY DEF Sees
<1> DEFINE y == Turned(w, e)
<1>0. y = Turned(w, e)
  OBVIOUS
<1> HIDE DEF y
<1>4. /\ y \in Windows /\ y.shown.view.run = runs /\ y.shown.view.state = w.shown.view.state
      /\ y.shown.view.cards = w.shown.view.cards \cup {c}
      /\ y.shown.view.log = w.shown.view.log
      /\ y.shown.handoff = w.shown.handoff
      /\ y.active = runs
  BY <1>0, <1>1, <1>2, <1>3, Stays
<1>5. e \in Proper(runs)
  BY <1>1, <1>2 DEF Proper
<1> QED
  BY <1>4, <1>5 DEF Sees, y

LEMMA SeesResolved ==
  ASSUME Inv, NEW w, NEW st, NEW cs, NEW T, NEW p, Sees(w, st, cs, T, p), NEW c \in Calls
  PROVE  /\ Sees(Turned(w, Resolved(c)), st, cs \ {c}, T, p) /\ Resolved(c) \in Proper(runs)
         /\ Turned(w, Resolved(c)).shown.handoff = w.shown.handoff
<1> DEFINE e == Resolved(c)
           y == Turned(w, e)
<1>1. runs \in Nat /\ runs # 0
  BY RunsCount
<1>2. e \in RunEvents /\ e.kind = "resolved" /\ e.run = 0 /\ e.of = c
  BY ResolvedIs
<1>0. y = Turned(w, e)
  OBVIOUS
<1> HIDE DEF e, y
<1>3. w \in Windows /\ w.shown.view.run = runs /\ w.active = runs
  BY DEF Sees
<1>4. /\ y \in Windows /\ y.shown.view.run = runs /\ y.shown.view.state = w.shown.view.state
      /\ y.shown.view.cards = w.shown.view.cards \ {c}
      /\ y.shown.view.log = w.shown.view.log
      /\ y.shown.handoff = w.shown.handoff
      /\ y.active = runs
  BY <1>0, <1>1, <1>2, <1>3, Stays
<1>5. e \in Proper(runs)
  BY <1>1, <1>2 DEF Proper
<1> QED
  BY <1>4, <1>5 DEF Sees, y, e

(* The end of a run, after a last event of it or without one.              *)
LEMMA EndPosts ==
  ASSUME Inv, NEW q, q = SetToSeq({Resolved(c) : c \in Open})
  PROVE  /\ q \in Seq(Proper(runs)) /\ q \in Seq(Resolves)
         /\ \A e \in Proper(runs) : <<e>> \o q \in Seq(Proper(runs))
<1>1. q \in Seq(Resolves) /\ runs \in Nat
  BY ClosedInOrder, RunsCount
<1>2. Resolves \subseteq Proper(runs)
  BY <1>1, ResolvedIs DEF Resolves, Proper
<1>3. q \in Seq(Proper(runs))
  BY <1>1, <1>2
<1>4. ASSUME NEW e \in Proper(runs) PROVE <<e>> \o q \in Seq(Proper(runs))
  <2>1. <<e>> \in Seq(Proper(runs))
    OBVIOUS
  <2> QED
    BY <1>3, <2>1, ConcatProperties
<1> QED
  BY <1>1, <1>3, <1>4

LEMMA ShownToTheEnd ==
  ASSUME Inv, NEW q, q = SetToSeq({Resolved(c) : c \in Open}),
         NEW w \in Windows, w.shown.view.run = runs, w.active = runs,
         NEW e \in Proper(runs), e.run = runs, e.kind # "state",
         NEW z, Brings(w, q, z) \/ Brings(w, <<e>> \o q, z)
  PROVE  z.shown.view.run = runs /\ z.active = runs
<1>1. runs \in Nat /\ runs # 0
  BY RunsCount
<1>2. q \in Seq(Resolves) /\ q \in Seq(Proper(runs)) /\ <<e>> \in Seq(Proper(runs))
  BY EndPosts
<1>3. CASE Brings(w, q, z)
  BY <1>1, <1>2, <1>3, ClosingKeeps
<1>4. CASE Brings(w, <<e>> \o q, z)
  <2>1. PICK y : Brings(w, <<e>>, y) /\ Brings(y, q, z)
    BY <1>2, <1>4, BringsOn
  <2>2. y = Turned(w, e)
    BY <2>1, BringsOne
  <2>3. e \in RunEvents
    BY DEF Proper
  <2>4. y \in Windows /\ y.shown.view.run = runs /\ y.active = runs
    BY <1>1, <2>2, <2>3, Stays
  <2> QED
    BY <1>1, <1>2, <2>1, <2>4, ClosingKeeps
<1> QED
  BY <1>3, <1>4

-----------------------------------------------------------------------------
(* The steps of the run.                                                   *)

LEMMA WindowSpeaks == Inv /\ WindowInv /\ Speaks => WindowInv'
<1> SUFFICES ASSUME Inv, WindowInv, Speaks PROVE WindowInv'
  OBVIOUS
<1> DEFINE o == <<turns', 0>>
<1>1. /\ at = "asking" /\ turns' = turns + 1 /\ UNCHANGED <<tool, runs>>
      /\ at' = "closing" => row' = "ended"
      /\ at' \in {"asking", "batch", "closing"}
  BY DEF Speaks, Answered, Finishes
<1>2. /\ UNCHANGED <<main, exited, late, overtaken, restoring>>
      /\ final' = IF at' = "closing" THEN o ELSE final
  BY DEF Speaks, Elsewhere, desktop, history
<1>3. PICK x \in Words : pipe' = pipe \o (<<RunEvent("commentary", runs, o, x)>> \o Closing)
  BY Zenon DEF Speaks, Posts, Words
<1>4. o \in Nat \X Nat /\ runs \in Nat /\ runs # 0 /\ Live /\ parked = NoCall
  BY <1>1, RunsCount DEF Inv, TypeOK, Live, WindowInv, Booked
<1>5. final' \in Nat \X Nat
  BY <1>2, <1>4 DEF WindowInv, Booked
<1> HIDE DEF o
<1> DEFINE e == RunEvent("commentary", runs, o, x)
<1>6. e \in RunEvents /\ e.kind = "commentary" /\ e.run = runs
  BY <1>4, EventIs
<1>7. e \in Proper(runs)
  BY <1>4, <1>6 DEF Proper
<1>8. CASE at' = "closing"
  <2> DEFINE q == SetToSeq({Resolved(c) : c \in Open})
             es == <<e>> \o q
  <2>1. pipe' = pipe \o es /\ parked' = NoCall
    BY <1>3, <1>8 DEF Closing, Speaks, Ends
  <2> HIDE DEF e
  <2>2. es \in Seq(Proper(runs))
    BY <1>7, EndPosts
  <2>3. ASSUME NEW w \in Windows, NEW z, w.shown.view.run = runs, w.active = runs, Brings(w, es, z)
        PROVE  z.shown.view.run = runs /\ z.active = runs
    BY <1>6, <1>7, <2>3, ShownToTheEnd
  <2> HIDE DEF es
  <2> QED
    BY <1>1, <1>2, <1>4, <1>5, <1>8, <2>1, <2>2, <2>3, WorksNoMore
<1>9. CASE at' # "closing"
  <2>1. UNCHANGED <<state, parked, cards>> /\ Closing = <<>>
    BY <1>9 DEF Speaks, Ends, Closing
  <2>2. pipe' = pipe \o (<<e>> \o <<>>)
    BY <1>3, <2>1
  <2> HIDE DEF e
  <2>3. <<e>> \in Seq(Proper(runs)) /\ <<e>> \o <<>> = <<e>>
    BY <1>7
  <2>4. ASSUME NEW w \in Windows, NEW z, w.shown.view.run = runs, w.active = runs,
               ShowsWork(w), Brings(w, <<e>>, z)
        PROVE  z.shown.view.run = runs /\ z.active = runs /\ ShowsWork(z)'
    <3>1. Sees(w, state, Open, tool, parked) /\ (w.shown.handoff <=> state = "handoff")
      BY <2>4, SeesWork
    <3>2. z = Turned(w, e)
      BY <2>4, BringsOne
    <3>3. Sees(z, state, Open, tool, parked) /\ z.shown.handoff = w.shown.handoff
      BY <1>4, <3>1, <3>2, SeesText DEF e
    <3>4. Open' = Open
      BY <2>1 DEF Open
    <3> QED
      BY <1>1, <2>1, <3>1, <3>3, <3>4 DEF Sees, ShowsWork
  <2>5. Live' /\ at # "closing" /\ (parked' # NoCall => at' = "recording" /\ parked' \in Calls)
    BY <1>1, <1>4, <1>9, <2>1 DEF Live
  <2> QED
    BY <1>1, <1>2, <1>4, <1>5, <1>9, <2>2, <2>3, <2>4, <2>5, WorksOn
<1> QED
  BY <1>8, <1>9

LEMMA EventProper ==
  ASSUME Inv, NEW o \in Nat \X Nat, NEW x \in Words,
         NEW k \in {"state", "commentary", "handoff", "tool", "request", "resolved", "restored"}
  PROVE  RunEvent(k, runs, o, x) \in Proper(runs)
<1>1. runs \in Nat /\ runs # 0
  BY RunsCount
<1> DEFINE e == RunEvent(k, runs, o, x)
<1>2. e \in RunEvents /\ e.run = runs
  BY <1>1, EventIs
<1> HIDE DEF e
<1>3. e \in Proper(runs)
  BY <1>1, <1>2 DEF Proper
<1> QED
  BY <1>3 DEF e

(* The handoff to the human, in the state and as a remark.                 *)
LEMMA SeesHandoff ==
  ASSUME Inv, NEW x \in Words, NEW es,
         es = <<RunEvent("state", runs, NoCall, "handoff"), RunEvent("handoff", runs, NoCall, x)>>
  PROVE  /\ es \in Seq(Proper(runs))
         /\ \A w, z, st, cs, T, p : Sees(w, st, cs, T, p) /\ Brings(w, es, z) =>
              Sees(z, "handoff", cs, T, p) /\ z.shown.handoff
<1>1. NoCall \in Nat \X Nat /\ "handoff" \in Words /\ "handoff" \notin Terminal
  BY DEF NoCall, Words, Terminal
<1> DEFINE d == RunEvent("state", runs, NoCall, "handoff")
           e == RunEvent("handoff", runs, NoCall, x)
<1>2. d \in Proper(runs) /\ e \in Proper(runs)
  BY <1>1, EventProper
<1>3. ASSUME NEW w, NEW z, NEW st, NEW cs, NEW T, NEW p, Sees(w, st, cs, T, p), Brings(w, <<d, e>>, z)
      PROVE  Sees(z, "handoff", cs, T, p) /\ z.shown.handoff
  <2>1. z = Turned(Turned(w, d), e)
    BY <1>3, BringsTwo
  <2>2. Sees(Turned(w, d), "handoff", cs, T, p)
    BY <1>1, <1>3, SeesState
  <2> QED
    BY <1>1, <2>1, <2>2, SeesText
<1> HIDE DEF d, e
<1>4. <<d, e>> \in Seq(Proper(runs))
  BY <1>2
<1>5. es = <<d, e>>
  BY DEF d, e
<1> QED
  BY <1>3, <1>4, <1>5

LEMMA WindowBegins == Inv /\ WindowInv /\ (\E c \in Calls : CallBegins(c)) => WindowInv'
<1> SUFFICES ASSUME Inv, WindowInv, NEW c \in Calls, CallBegins(c) PROVE WindowInv'
  OBVIOUS
<1>1. /\ at = "batch" /\ at' \in {"calling", "recording"} /\ UNCHANGED <<runs, cards, final>>
      /\ UNCHANGED <<main, exited, late, overtaken, restoring>>
      /\ tool' = [tool EXCEPT ![c] = IF at' = "recording" THEN "denied" ELSE "executing"]
  BY DEF CallBegins, Begins, ToolRow, Elsewhere, desktop, history, counters
<1>2. parked = NoCall /\ Live /\ Live' /\ final' \in Nat \X Nat /\ at # "closing" /\ at' # "closing"
  BY <1>1 DEF WindowInv, Booked, Live
<1>3. c \in Nat \X Nat /\ NoCall \notin Calls /\ NoCall \in Nat \X Nat
  BY CallIsPair DEF NoCall
<1>4. {"executing", "denied", "awaiting", "handoff"} \subseteq Words /\ "awaiting" \notin Terminal
  BY DEF Words, Terminal
<1>5. Open' = Open
  BY <1>1 DEF Open
<1> DEFINE d == RunEvent("tool", runs, c, "executing")
           n == RunEvent("tool", runs, c, "denied")
           s == RunEvent("state", runs, NoCall, "awaiting")
           V == [tool EXCEPT ![c] = "executing"]
<1>6. d \in Proper(runs) /\ n \in Proper(runs) /\ s \in Proper(runs)
  BY <1>3, <1>4, EventProper
<1>7. /\ \A b \in Calls : b # c => V[b] = tool[b] /\ tool'[b] = V[b]
      /\ V[c] = "executing" /\ tool'[c] = IF at' = "recording" THEN "denied" ELSE "executing"
      /\ at' = "calling" => tool' = V
  BY <1>1 DEF Inv, TypeOK
<1>8. Tool(c, "executing") = d /\ Tool(c, "denied") = n /\ State("awaiting") = s
  BY <1>1 DEF Tool, State
<1> HIDE DEF V
<1>9. ASSUME NEW w \in Windows, w.shown.view.run = runs, w.active = runs, ShowsWork(w)
      PROVE  /\ Sees(Turned(w, d), state, Open, V, NoCall)
             /\ Turned(w, d).shown.handoff <=> state = "handoff"
             /\ at' = "recording" =>
                  /\ Sees(Turned(Turned(w, d), n), state, Open, tool', NoCall)
                  /\ Turned(Turned(w, d), n).shown.handoff <=> state = "handoff"
  <2>1. Sees(w, state, Open, tool, NoCall) /\ (w.shown.handoff <=> state = "handoff")
    BY <1>2, <1>9, SeesWork
  <2>2. Sees(Turned(w, d), state, Open, V, NoCall) /\ Turned(w, d).shown.handoff = w.shown.handoff
    BY <1>4, <1>7, <2>1, SeesTool
  <2>3. ASSUME at' = "recording"
        PROVE  /\ Sees(Turned(Turned(w, d), n), state, Open, tool', NoCall)
               /\ Turned(Turned(w, d), n).shown.handoff = Turned(w, d).shown.handoff
    BY <1>4, <1>7, <2>2, <2>3, SeesTool
  <2> QED
    BY <2>1, <2>2, <2>3
<1>10. CASE at' = "calling" /\ pipe' = pipe \o <<d>> /\ UNCHANGED <<state, parked>>
  <2> HIDE DEF d
  <2>1. <<d>> \in Seq(Proper(runs))
    BY <1>6
  <2>2. ASSUME NEW w \in Windows, NEW z, w.shown.view.run = runs, w.active = runs,
               ShowsWork(w), Brings(w, <<d>>, z)
        PROVE  z.shown.view.run = runs /\ z.active = runs /\ ShowsWork(z)'
    <3>1. z = Turned(w, d)
      BY <2>2, BringsOne
    <3>2. Sees(z, state, Open, tool', NoCall) /\ (z.shown.handoff <=> state = "handoff")
      BY <1>7, <1>9, <1>10, <2>2, <3>1
    <3> QED
      BY <1>2, <1>5, <1>10, <3>2 DEF Sees, ShowsWork
  <2> QED
    BY <1>1, <1>2, <1>10, <2>1, <2>2, WorksOn
<1>11. CASE at' = "calling" /\ pipe' = pipe \o <<d, s>> /\ state' = "awaiting" /\ UNCHANGED parked
  <2>1. ASSUME NEW w \in Windows, NEW z, w.shown.view.run = runs, w.active = runs,
               ShowsWork(w), Brings(w, <<d, s>>, z)
        PROVE  z.shown.view.run = runs /\ z.active = runs /\ ShowsWork(z)'
    <3>1. z = Turned(Turned(w, d), s)
      BY <2>1, BringsTwo
    <3>2. Sees(Turned(w, d), state, Open, tool', NoCall)
      BY <1>7, <1>9, <1>11, <2>1
    <3>3. Sees(z, "awaiting", Open, tool', NoCall) /\ ~z.shown.handoff
      BY <1>4, <3>1, <3>2, SeesState
    <3> QED
      BY <1>2, <1>5, <1>11, <3>3 DEF Sees, ShowsWork
  <2> HIDE DEF d, s
  <2>2. <<d, s>> \in Seq(Proper(runs))
    BY <1>6
  <2> QED
    BY <1>1, <1>2, <1>11, <2>1, <2>2, WorksOn
<1>12. CASE at' = "recording" /\ pipe' = pipe \o <<d, n>> /\ UNCHANGED <<state, parked>>
  <2> HIDE DEF d, n
  <2>1. <<d, n>> \in Seq(Proper(runs))
    BY <1>6
  <2>2. ASSUME NEW w \in Windows, NEW z, w.shown.view.run = runs, w.active = runs,
               ShowsWork(w), Brings(w, <<d, n>>, z)
        PROVE  z.shown.view.run = runs /\ z.active = runs /\ ShowsWork(z)'
    <3>1. z = Turned(Turned(w, d), n)
      BY <2>2, BringsTwo
    <3>2. Sees(z, state, Open, tool', NoCall) /\ (z.shown.handoff <=> state = "handoff")
      BY <1>9, <1>12, <2>2, <3>1
    <3> QED
      BY <1>2, <1>5, <1>12, <3>2 DEF Sees, ShowsWork
  <2> QED
    BY <1>1, <1>2, <1>12, <2>1, <2>2, WorksOn
<1>13. CASE at' = "recording" /\ Parks(c) /\ pipe' = pipe \o (<<d, n>> \o Handoff(c))
  <2>1. PICK x \in Words :
          Handoff(c) = <<RunEvent("state", runs, NoCall, "handoff"), RunEvent("handoff", runs, NoCall, x)>>
    <3>1. runs' = runs
      BY <1>1
    <3> QED
      BY <3>1, Zenon DEF Handoff, State, Words
  <2> DEFINE h == <<RunEvent("state", runs, NoCall, "handoff"), RunEvent("handoff", runs, NoCall, x)>>
             es == <<d, n>> \o h
  <2>2. h \in Seq(Proper(runs))
    BY SeesHandoff
  <2>3. \A y, z, st, cs, T, p : Sees(y, st, cs, T, p) /\ Brings(y, h, z) =>
          Sees(z, "handoff", cs, T, p) /\ z.shown.handoff
    BY SeesHandoff
  <2>4. pipe' = pipe \o es
    BY <1>13, <2>1
  <2> HIDE DEF d, n, h
  <2>5. <<d, n>> \in Seq(Proper(runs))
    BY <1>6
  <2>6. es \in Seq(Proper(runs))
    BY <2>2, <2>5, ConcatProperties
  <2>7. ASSUME NEW w \in Windows, NEW z, w.shown.view.run = runs, w.active = runs,
               ShowsWork(w), Brings(w, es, z)
        PROVE  z.shown.view.run = runs /\ z.active = runs /\ ShowsWork(z)'
    <3>1. PICK y : Brings(w, <<d, n>>, y) /\ Brings(y, h, z)
      BY <2>2, <2>5, <2>7, BringsOn
    <3>2. y = Turned(Turned(w, d), n)
      BY <3>1, BringsTwo
    <3>3. Sees(y, state, Open, tool', NoCall)
      BY <1>9, <1>13, <2>7, <3>2
    <3>4. Sees(z, "handoff", Open, tool', NoCall) /\ z.shown.handoff
      BY <2>3, <3>1, <3>3
    <3>5. RowsTrue(z.shown.view.log, tool', c)
      BY <1>3, <3>4, RowsPark DEF Sees
    <3> QED
      BY <1>5, <1>13, <3>4, <3>5 DEF Sees, ShowsWork, Parks
  <2> HIDE DEF es
  <2>8. parked' = c
    BY <1>13 DEF Parks
  <2> QED
    BY <1>1, <1>2, <1>13, <2>4, <2>6, <2>7, <2>8, WorksOn
<1>14. \/ at' = "calling" /\ pipe' = pipe \o <<d>> /\ UNCHANGED <<state, parked>>
       \/ at' = "calling" /\ pipe' = pipe \o <<d, s>> /\ state' = "awaiting" /\ UNCHANGED parked
       \/ at' = "recording" /\ pipe' = pipe \o <<d, n>> /\ UNCHANGED <<state, parked>>
       \/ at' = "recording" /\ Parks(c) /\ pipe' = pipe \o (<<d, n>> \o Handoff(c))
  <2> HIDE DEF d, n, s
  <2> QED
    BY <1>8 DEF CallBegins, Posts
<1> QED
  BY <1>10, <1>11, <1>12, <1>13, <1>14

LEMMA WindowReturns == Inv /\ WindowInv /\ (\E c \in Calls : CallReturns(c)) => WindowInv'
<1> SUFFICES ASSUME Inv, WindowInv, NEW c \in Calls, CallReturns(c) PROVE WindowInv'
  OBVIOUS
<1>1. /\ at = "calling" /\ at' = "recording" /\ tool[c] = "executing" /\ UNCHANGED <<runs, cards, final>>
      /\ UNCHANGED <<main, exited, late, overtaken, restoring>>
      /\ tool' = [tool EXCEPT ![c] = "done"] \/ tool' = [tool EXCEPT ![c] = "error"]
  BY DEF CallReturns, Returns, ToolRow, Elsewhere, desktop, history, counters
<1>2. parked = NoCall /\ Live /\ Live' /\ final' \in Nat \X Nat
  BY <1>1 DEF WindowInv, Booked, Live
<1>3. c \in Nat \X Nat /\ NoCall \notin Calls
  BY CallIsPair
<1>4. Open' = Open
  BY <1>1 DEF Open
<1>5. /\ \A b \in Calls : b # c => tool'[b] = tool[b]
      /\ tool'[c] \in {"done", "error"} /\ tool'[c] \in Words
  BY <1>1 DEF Inv, TypeOK, Words
<1> DEFINE d == RunEvent("tool", runs, c, tool'[c])
<1>6. d \in Proper(runs)
  BY <1>3, <1>5, EventProper
<1>7. CASE pipe' = pipe \o <<d>> /\ UNCHANGED <<state, parked>>
  <2>1. ASSUME NEW w \in Windows, NEW z, w.shown.view.run = runs, w.active = runs,
               ShowsWork(w), Brings(w, <<d>>, z)
        PROVE  z.shown.view.run = runs /\ z.active = runs /\ ShowsWork(z)'
    <3>1. z = Turned(w, d)
      BY <2>1, BringsOne
    <3>2. Sees(w, state, Open, tool, NoCall) /\ (w.shown.handoff <=> state = "handoff")
      BY <1>2, <2>1, SeesWork
    <3>3. Sees(z, state, Open, tool', NoCall) /\ z.shown.handoff = w.shown.handoff
      BY <1>5, <3>1, <3>2, SeesTool
    <3> QED
      BY <1>2, <1>4, <1>7, <3>2, <3>3 DEF Sees, ShowsWork
  <2> HIDE DEF d
  <2>2. <<d>> \in Seq(Proper(runs))
    BY <1>6
  <2> QED
    BY <1>1, <1>2, <1>7, <2>1, <2>2, WorksOn
<1>8. CASE tool'[c] = "done" /\ Parks(c) /\ pipe' = pipe \o Handoff(c)
  <2>1. PICK x \in Words :
          Handoff(c) = <<RunEvent("state", runs, NoCall, "handoff"), RunEvent("handoff", runs, NoCall, x)>>
    <3>1. runs' = runs
      BY <1>1
    <3> QED
      BY <3>1, Zenon DEF Handoff, State, Words
  <2> DEFINE h == <<RunEvent("state", runs, NoCall, "handoff"), RunEvent("handoff", runs, NoCall, x)>>
  <2>2. h \in Seq(Proper(runs))
    BY SeesHandoff
  <2>3. \A y, z, st, cs, T, p : Sees(y, st, cs, T, p) /\ Brings(y, h, z) =>
          Sees(z, "handoff", cs, T, p) /\ z.shown.handoff
    BY SeesHandoff
  <2>4. pipe' = pipe \o h
    BY <1>8, <2>1
  <2> HIDE DEF h
  <2>5. ASSUME NEW w \in Windows, NEW z, w.shown.view.run = runs, w.active = runs,
               ShowsWork(w), Brings(w, h, z)
        PROVE  z.shown.view.run = runs /\ z.active = runs /\ ShowsWork(z)'
    <3>1. Sees(w, state, Open, tool, NoCall)
      BY <1>2, <2>5, SeesWork
    <3>2. Sees(z, "handoff", Open, tool, NoCall) /\ z.shown.handoff
      BY <2>3, <2>5, <3>1
    <3>3. RowsTrue(z.shown.view.log, tool', c)
      BY <1>1, <1>3, <1>5, <1>8, <3>2, RowsPark DEF Sees
    <3> QED
      BY <1>4, <1>8, <3>2, <3>3 DEF Sees, ShowsWork, Parks
  <2>6. parked' = c
    BY <1>8 DEF Parks
  <2> QED
    BY <1>1, <1>2, <2>2, <2>4, <2>5, <2>6, WorksOn
<1>9. \/ pipe' = pipe \o <<d>> /\ UNCHANGED <<state, parked>>
      \/ tool'[c] = "done" /\ Parks(c) /\ pipe' = pipe \o Handoff(c)
  BY DEF CallReturns, Posts, Tool
<1> QED
  BY <1>7, <1>8, <1>9

LEMMA WindowHandoffEnds == Inv /\ WindowInv /\ HandoffEnds => WindowInv'
<1> SUFFICES ASSUME Inv, WindowInv, HandoffEnds PROVE WindowInv'
  OBVIOUS
<1>1. /\ at' = at /\ UNCHANGED <<runs, cards, final, tool, parked>>
      /\ UNCHANGED <<main, exited, late, overtaken, restoring>>
      /\ parked # NoCall /\ state' = "running"
  BY DEF HandoffEnds, Elsewhere, desktop, history, vars, store, run, counters
<1>2. at = "recording" /\ parked \in Calls /\ Live /\ Live' /\ final' \in Nat \X Nat
  BY <1>1 DEF WindowInv, Booked, Live
<1>3. Open' = Open /\ "running" \in Words /\ "running" \notin Terminal /\ NoCall \in Nat \X Nat
  BY <1>1 DEF Open, Words, Terminal, NoCall
<1> DEFINE s == RunEvent("state", runs, NoCall, "running")
<1>4. s \in Proper(runs)
  BY <1>3, EventProper
<1>5. pipe' = pipe \o <<s>>
  BY <1>1 DEF HandoffEnds, Posts, State
<1>6. ASSUME NEW w \in Windows, NEW z, w.shown.view.run = runs, w.active = runs,
             ShowsWork(w), Brings(w, <<s>>, z)
      PROVE  z.shown.view.run = runs /\ z.active = runs /\ ShowsWork(z)'
  <2>1. Sees(w, state, Open, tool, parked)
    BY <1>6, SeesWork
  <2>2. z = Turned(w, s)
    BY <1>6, BringsOne
  <2>3. Sees(z, "running", Open, tool, parked) /\ ~z.shown.handoff
    BY <1>3, <2>1, <2>2, SeesState
  <2> QED
    BY <1>1, <1>3, <2>3 DEF Sees, ShowsWork
<1> HIDE DEF s
<1>7. <<s>> \in Seq(Proper(runs))
  BY <1>4
<1> QED
  BY <1>1, <1>2, <1>5, <1>6, <1>7, WorksOn

LEMMA WindowLooked == Inv /\ WindowInv /\ Looked => WindowInv'
<1> SUFFICES ASSUME Inv, WindowInv, Looked PROVE WindowInv'
  OBVIOUS
<1>1. /\ at' = at /\ UNCHANGED <<runs, cards, final, tool, state>>
      /\ UNCHANGED <<main, exited, late, overtaken, restoring>>
      /\ parked # NoCall /\ parked' = NoCall
  BY DEF Looked, Elsewhere, desktop, history, vars, store, run, counters
<1>2. at = "recording" /\ parked \in Calls /\ Live /\ Live' /\ final' \in Nat \X Nat
  BY <1>1 DEF WindowInv, Booked, Live
<1>3. parked \in Nat \X Nat /\ NoCall \notin Calls
  BY <1>2, CallIsPair DEF NoCall
<1>4. Open' = Open /\ "done" \in Words
  BY <1>1 DEF Open, Words
<1> DEFINE d == RunEvent("tool", runs, parked, "done")
<1>5. d \in Proper(runs)
  BY <1>3, <1>4, EventProper
<1>6. CASE tool[parked] = "done" /\ pipe' = pipe \o <<d>>
  <2>1. ASSUME NEW w \in Windows, NEW z, w.shown.view.run = runs, w.active = runs,
               ShowsWork(w), Brings(w, <<d>>, z)
        PROVE  z.shown.view.run = runs /\ z.active = runs /\ ShowsWork(z)'
    <3>1. Sees(w, state, Open, tool, parked) /\ (w.shown.handoff <=> state = "handoff")
      BY <2>1, SeesWork
    <3>2. z = Turned(w, d)
      BY <2>1, BringsOne
    <3>3. d = RunEvent("tool", runs, parked, tool[parked]) /\ tool[parked] \in Words
      BY <1>4, <1>6
    <3> HIDE DEF d
    <3>4. Sees(z, state, Open, tool, NoCall) /\ z.shown.handoff = w.shown.handoff
      BY <1>2, <3>1, <3>2, <3>3, SeesTool
    <3> QED
      BY <1>1, <1>4, <3>1, <3>4 DEF Sees, ShowsWork
  <2> HIDE DEF d
  <2>2. <<d>> \in Seq(Proper(runs))
    BY <1>5
  <2> QED
    BY <1>1, <1>2, <1>6, <2>1, <2>2, WorksOn
<1>7. CASE tool[parked] # "done" /\ pipe' = pipe \o <<>>
  <2>1. ASSUME NEW w \in Windows, NEW z, w.shown.view.run = runs, w.active = runs,
               ShowsWork(w), Brings(w, <<>>, z)
        PROVE  z.shown.view.run = runs /\ z.active = runs /\ ShowsWork(z)'
    <3>1. z = w
      BY <2>1, BringsNothing
    <3>2. RowsTrue(z.shown.view.log, tool, NoCall)
      BY <1>7, <2>1, <3>1 DEF ShowsWork, RowsTrue
    <3> QED
      BY <1>1, <1>4, <2>1, <3>1, <3>2 DEF ShowsWork
  <2>2. <<>> \in Seq(Proper(runs))
    OBVIOUS
  <2> QED
    BY <1>1, <1>2, <1>7, <2>1, <2>2, WorksOn
<1>8. \/ tool[parked] = "done" /\ pipe' = pipe \o <<d>>
      \/ tool[parked] # "done" /\ pipe' = pipe \o <<>>
  BY <1>1 DEF Looked, Posts, Tool
<1> QED
  BY <1>6, <1>7, <1>8

LEMMA WindowBreaks == Inv /\ WindowInv /\ (\E c \in Calls : CallBreaks(c)) => WindowInv'
<1> SUFFICES ASSUME Inv, WindowInv, NEW c \in Calls, CallBreaks(c) PROVE WindowInv'
  OBVIOUS
<1>1. /\ at = "calling" /\ at' = "closing" /\ row' = "ended" /\ UNCHANGED <<runs, final>>
      /\ UNCHANGED <<main, exited, late, overtaken, restoring>>
  BY DEF CallBreaks, Breaks, Finishes, Elsewhere, desktop, history, counters
<1>2. Live /\ parked' = NoCall /\ final' \in Nat \X Nat
  BY <1>1 DEF WindowInv, Booked, Live, CallBreaks, Ends
<1>3. c \in Nat \X Nat /\ "error" \in Words /\ runs \in Nat
  BY CallIsPair, RunsCount DEF Words
<1> DEFINE e == RunEvent("tool", runs, c, "error")
           q == SetToSeq({Resolved(b) : b \in Open})
<1>4. e \in Proper(runs) /\ e.run = runs /\ e.kind = "tool"
  BY <1>3, EventProper, EventIs
<1>5. pipe' = pipe \o (<<e>> \o q)
  BY <1>1 DEF CallBreaks, Posts, Tool, Closing
<1> HIDE DEF e
<1>6. <<e>> \o q \in Seq(Proper(runs))
  BY <1>4, EndPosts
<1>7. ASSUME NEW w \in Windows, NEW z, w.shown.view.run = runs, w.active = runs, Brings(w, <<e>> \o q, z)
      PROVE  z.shown.view.run = runs /\ z.active = runs
  BY <1>4, <1>7, ShownToTheEnd
<1> HIDE DEF q
<1> QED
  BY <1>1, <1>2, <1>5, <1>6, <1>7, WorksNoMore

LEMMA WindowGivesUp == Inv /\ WindowInv /\ RunGivesUp => WindowInv'
<1> SUFFICES ASSUME Inv, WindowInv, RunGivesUp PROVE WindowInv'
  OBVIOUS
<1>1. /\ at \in {"asking", "batch", "recording"} /\ at' = "closing" /\ row' = "ended"
      /\ UNCHANGED <<runs, final>> /\ UNCHANGED <<main, exited, late, overtaken, restoring>>
  BY DEF RunGivesUp, GivesUp, Finishes, Elsewhere, desktop, history, counters
<1>2. Live /\ parked' = NoCall /\ final' \in Nat \X Nat
  BY <1>1 DEF WindowInv, Booked, Live, RunGivesUp, Ends
<1> DEFINE q == SetToSeq({Resolved(b) : b \in Open})
<1>3. pipe' = pipe \o q
  BY <1>1 DEF RunGivesUp, Posts, Closing
<1>4. q \in Seq(Proper(runs)) /\ q \in Seq(Resolves)
  BY EndPosts
<1>5. ASSUME NEW w \in Windows, NEW z, w.shown.view.run = runs, w.active = runs, Brings(w, q, z)
      PROVE  z.shown.view.run = runs /\ z.active = runs
  BY <1>4, <1>5, RunsCount, ClosingKeeps
<1> HIDE DEF q
<1> QED
  BY <1>1, <1>2, <1>3, <1>4, <1>5, WorksNoMore

LEMMA WindowCloses == Inv /\ WindowInv /\ RunCloses => WindowInv'
<1> SUFFICES ASSUME Inv, WindowInv, RunCloses PROVE WindowInv'
  OBVIOUS
<1>1. /\ at = "closing" /\ at' = "none" /\ UNCHANGED <<runs, row, parked>>
      /\ UNCHANGED <<main, exited, late, overtaken, restoring>>
      /\ final' = NoCall /\ pipe' = pipe \o <<RunEvent("state", runs, final, "ended")>>
  BY DEF RunCloses, Closes, Elsewhere, desktop, history, counters, Posts
<1>2. Booked' /\ Live /\ row = "ended" /\ final \in Nat \X Nat
  BY <1>1 DEF WindowInv, Booked, Live, NoCall
<1>3. runs \in Nat /\ runs # 0 /\ "ended" \in Words /\ "ended" \in Terminal
  BY RunsCount DEF Words, Terminal
<1> DEFINE e == RunEvent("state", runs, final, "ended")
<1>4. e \in Proper(runs) /\ e \in RunEvents /\ e.run = runs /\ e.kind = "state" /\ e.what = "ended"
  BY <1>2, <1>3, EventProper, EventIs
<1>7. pipe' = pipe \o <<e>>
  BY <1>1
<1> HIDE DEF e
<1>5. <<e>> \in Seq(Proper(runs'))
  BY <1>1, <1>4
<1>6. ASSUME NEW w \in Own(runs), NEW z, Truthful(w), Brings(w, <<e>>, z) PROVE Truthful(z)'
  <2>1. CASE late \/ overtaken
    BY <1>1, <2>1 DEF Truthful
  <2>2. CASE ~late /\ ~overtaken
    <3>1. w \in Windows /\ w.shown.view.run = runs
      BY <1>2, <1>6, <2>2 DEF Truthful, Own
    <3>2. z = Turned(w, e)
      BY <1>6, BringsOne
    <3>3. z.shown.view.run = runs /\ z.active = 0 /\ z.shown.view.state = "ended" /\ z.shown.view.cards = {}
      BY <1>3, <1>4, <3>1, <3>2, Stays
    <3>4. ~z.shown.handoff
      BY <1>3, <1>4, <3>1, <3>2, Stays
    <3>5. ShowsRest(z)'
      BY <1>1, <1>2, <1>3, <3>3, <3>4 DEF ShowsRest
    <3> QED
      BY <1>1, <3>5 DEF Truthful, Live
  <2> QED
    BY <2>1, <2>2
<1>8. runs' \in Nat /\ runs <= runs'
  BY <1>1, <1>3
<1> QED
  BY <1>1, <1>2, <1>3, <1>5, <1>6, <1>7, <1>8, WindowPosts

Carded == cards \in [Calls -> {"none", "open", "closed"}]

LEMMA CardedInit == DesktopInit => Carded
BY DEF DesktopInit, Carded

LEMMA CardedNext == Carded /\ [DesktopNext]_desktopVars => Carded'
<1> SUFFICES ASSUME Carded, [DesktopNext]_desktopVars PROVE Carded'
  OBVIOUS
<1>1. CASE UNCHANGED cards
  BY <1>1 DEF Carded
<1>2. CASE Ends
  BY <1>2 DEF Carded, Ends, DenyPending
<1>3. CASE Silently
  BY <1>1, <1>3 DEF Silently, daemon
<1>4. CASE Speaks \/ RunGivesUp
  BY <1>2, <1>4 DEF Speaks, RunGivesUp
<1>5. CASE HandoffEnds \/ Looked \/ RunCloses
  BY <1>1, <1>5 DEF HandoffEnds, Looked, RunCloses
<1>6. CASE Continues \/ Goes
  BY <1>6 DEF Continues, Goes, Carded
<1>7. ASSUME NEW c \in Calls, CallBegins(c) \/ CallReturns(c) \/ CallBreaks(c) PROVE Carded'
  BY <1>1, <1>2, <1>7 DEF CallBegins, CallReturns, CallBreaks
<1>8. ASSUME NEW c \in Calls, CardOpens(c) \/ CardCloses(c) PROVE Carded'
  BY <1>8 DEF CardOpens, CardCloses, Carded
<1>9. CASE RestoreAsked \/ RestoreEnds \/ Handle \/ Exit \/ StartsAgain \/ GetRun \/ Receive \/ Hydrate \/ Reload
  BY <1>1, <1>9 DEF RestoreAsked, RestoreEnds, Handle, Exit, StartsAgain, GetRun, Receive, Hydrate, Reload, daemon
<1>10. CASE UNCHANGED desktopVars
  BY <1>1, <1>10 DEF desktopVars, daemon
<1> QED
  BY <1>3, <1>4, <1>5, <1>6, <1>7, <1>8, <1>9, <1>10 DEF DesktopNext

LEMMA WindowAsksTheHuman == Inv /\ Carded /\ WindowInv /\ (\E c \in Calls : CardOpens(c)) => WindowInv'
<1> SUFFICES ASSUME Inv, Carded, WindowInv, NEW c \in Calls, CardOpens(c) PROVE WindowInv'
  OBVIOUS
<1>1. /\ at = "calling" /\ at' = at /\ UNCHANGED <<runs, final, tool, parked>>
      /\ UNCHANGED <<main, exited, late, overtaken, restoring>>
      /\ state' = "awaiting" /\ cards' = [cards EXCEPT ![c] = "open"] /\ cards[c] = "none" /\ Open = {}
  BY DEF CardOpens, Elsewhere, desktop, history, vars, store, run, counters
<1>2. parked = NoCall /\ Live /\ Live' /\ final' \in Nat \X Nat
  BY <1>1 DEF WindowInv, Booked, Live
<1>3. c \in Nat \X Nat /\ NoCall \in Nat \X Nat /\ "awaiting" \in Words /\ "awaiting" \notin Terminal
  BY CallIsPair DEF NoCall, Words, Terminal
<1>4. Open' = Open \cup {c}
  <2>1. ASSUME NEW b \in Calls PROVE cards'[b] = "open" <=> cards[b] = "open" \/ b = c
    BY <1>1, <2>1 DEF Carded
  <2> QED
    BY <2>1 DEF Open
<1>5. PICK x \in Words : pipe' = pipe \o <<RunEvent("request", runs, c, x), State("awaiting")>>
  BY Zenon DEF CardOpens, Posts, Words
<1> DEFINE d == RunEvent("request", runs, c, x)
           s == RunEvent("state", runs, NoCall, "awaiting")
<1>6. d \in Proper(runs) /\ s \in Proper(runs)
  BY <1>3, EventProper
<1>7. pipe' = pipe \o <<d, s>>
  BY <1>1, <1>5 DEF State
<1>8. ASSUME NEW w \in Windows, NEW z, w.shown.view.run = runs, w.active = runs,
             ShowsWork(w), Brings(w, <<d, s>>, z)
      PROVE  z.shown.view.run = runs /\ z.active = runs /\ ShowsWork(z)'
  <2>1. z = Turned(Turned(w, d), s)
    BY <1>8, BringsTwo
  <2>2. Sees(w, state, Open, tool, NoCall)
    BY <1>2, <1>8, SeesWork
  <2>3. Sees(Turned(w, d), state, Open \cup {c}, tool, NoCall)
    BY <2>2, SeesRequest
  <2>4. Sees(z, "awaiting", Open \cup {c}, tool, NoCall) /\ ~z.shown.handoff
    BY <1>3, <2>1, <2>3, SeesState
  <2> QED
    BY <1>1, <1>2, <1>4, <2>4 DEF Sees, ShowsWork
<1> HIDE DEF d, s
<1>9. <<d, s>> \in Seq(Proper(runs))
  BY <1>6
<1> QED
  BY <1>1, <1>2, <1>7, <1>8, <1>9, WorksOn

(* A card that is answered or expires, of a run that works on.             *)
LEMMA WindowIsAnswered ==
  ASSUME Inv, Carded, WindowInv, NEW c \in Calls, CardCloses(c)
  PROVE  WindowInv'
<1>1. /\ Live /\ at' = at /\ UNCHANGED <<runs, final, tool, parked, row>>
      /\ UNCHANGED <<main, exited, late, overtaken, restoring>>
      /\ cards' = [cards EXCEPT ![c] = "closed"] /\ cards[c] = "open"
  BY DEF CardCloses, Elsewhere, desktop, history, vars, store, run, counters
<1>2. Live' /\ final' \in Nat \X Nat /\ (parked' # NoCall => at' = "recording" /\ parked' \in Calls)
  BY <1>1 DEF WindowInv, Booked, Live
<1>3. NoCall \in Nat \X Nat /\ "running" \in Words /\ "running" \notin Terminal /\ runs \in Nat /\ runs # 0
  BY RunsCount DEF NoCall, Words, Terminal
<1>4. Open' = Open \ {c}
  <2>1. ASSUME NEW b \in Calls PROVE cards'[b] = "open" <=> cards[b] = "open" /\ b # c
    BY <1>1, <2>1 DEF Carded
  <2> QED
    BY <2>1 DEF Open
<1> DEFINE d == Resolved(c)
           s == RunEvent("state", runs, NoCall, "running")
<1>5. /\ d \in Proper(runs) /\ d \in RunEvents /\ d.kind = "resolved" /\ d.run = 0
      /\ s \in Proper(runs) /\ s \in RunEvents /\ s.kind = "state" /\ s.run = runs /\ s.what = "running"
  BY <1>3, EventProper, EventIs, ResolvedIs DEF Proper
<1>6. \/ state' = "running" /\ pipe' = pipe \o <<d, s>>
      \/ UNCHANGED state /\ pipe' = pipe \o <<d>>
  BY <1>1 DEF CardCloses, Posts, State
<1>7. ASSUME NEW w, ShowsWork(w), w \in Windows, w.shown.view.run = runs, w.active = runs
      PROVE  /\ Sees(Turned(w, d), state, Open', tool, parked)
             /\ Turned(w, d).shown.handoff <=> state = "handoff"
             /\ Sees(Turned(Turned(w, d), s), "running", Open', tool, parked)
             /\ ~Turned(Turned(w, d), s).shown.handoff
  <2>1. Sees(w, state, Open, tool, parked) /\ (w.shown.handoff <=> state = "handoff")
    BY <1>7, SeesWork
  <2>2. Sees(Turned(w, d), state, Open', tool, parked) /\ Turned(w, d).shown.handoff = w.shown.handoff
    BY <1>4, <2>1, SeesResolved
  <2>3. Sees(Turned(Turned(w, d), s), "running", Open', tool, parked)
        /\ ~Turned(Turned(w, d), s).shown.handoff
    BY <1>3, <2>2, SeesState
  <2> QED
    BY <2>1, <2>2, <2>3
<1>8. ASSUME NEW w, w \in Windows, w.shown.view.run = runs, w.active = runs
      PROVE  /\ Turned(w, d).shown.view.run = runs /\ Turned(w, d).active = runs
             /\ Turned(Turned(w, d), s).shown.view.run = runs /\ Turned(Turned(w, d), s).active = runs
  <2> DEFINE y == Turned(w, d)
  <2> HIDE DEF d, s
  <2>1. y \in Windows /\ y.shown.view.run = runs /\ y.active = runs
    BY <1>3, <1>5, <1>8, Stays
  <2> HIDE DEF y
  <2>2. Turned(y, s).shown.view.run = runs /\ Turned(y, s).active = runs
    BY <1>3, <1>5, <2>1, Stays
  <2> QED
    BY <2>1, <2>2 DEF y
<1> HIDE DEF s
<1>9. <<d>> \in Seq(Proper(runs)) /\ <<d, s>> \in Seq(Proper(runs))
  <2> HIDE DEF d
  <2> QED
    BY <1>5
<1>10. \A w, z : /\ Brings(w, <<d>>, z) => z = Turned(w, d)
                 /\ Brings(w, <<d, s>>, z) => z = Turned(Turned(w, d), s)
  <2> HIDE DEF d
  <2> QED
    BY BringsOne, BringsTwo
<1>11. CASE at # "closing"
  <2>1. CASE state' = "running" /\ pipe' = pipe \o <<d, s>>
    <3>1. ASSUME NEW w \in Windows, NEW z, w.shown.view.run = runs, w.active = runs,
                 ShowsWork(w), Brings(w, <<d, s>>, z)
          PROVE  z.shown.view.run = runs /\ z.active = runs /\ ShowsWork(z)'
      <4>1. Sees(z, "running", Open', tool, parked) /\ ~z.shown.handoff
        BY <1>7, <1>10, <3>1
      <4> QED
        BY <1>1, <2>1, <4>1 DEF Sees, ShowsWork
    <3> HIDE DEF d
    <3> QED
      BY <1>1, <1>2, <1>9, <1>11, <2>1, <3>1, WorksOn
  <2>2. CASE UNCHANGED state /\ pipe' = pipe \o <<d>>
    <3>1. ASSUME NEW w \in Windows, NEW z, w.shown.view.run = runs, w.active = runs,
                 ShowsWork(w), Brings(w, <<d>>, z)
          PROVE  z.shown.view.run = runs /\ z.active = runs /\ ShowsWork(z)'
      <4>1. Sees(z, state, Open', tool, parked) /\ (z.shown.handoff <=> state = "handoff")
        BY <1>7, <1>10, <3>1
      <4> QED
        BY <1>1, <2>2, <4>1 DEF Sees, ShowsWork
    <3> HIDE DEF d
    <3> QED
      BY <1>1, <1>2, <1>9, <1>11, <2>2, <3>1, WorksOn
  <2> QED
    BY <1>6, <2>1, <2>2
<1>12. CASE at = "closing"
  <2>1. parked' = NoCall /\ row' = "ended" /\ at' = "closing"
    BY <1>1, <1>12 DEF WindowInv, Booked
  <2>2. PICK es \in {<<d>>, <<d, s>>} : pipe' = pipe \o es
    BY <1>6
  <2>3. ASSUME NEW w \in Windows, NEW z, w.shown.view.run = runs, w.active = runs, Brings(w, es, z)
        PROVE  z.shown.view.run = runs /\ z.active = runs
    BY <1>8, <1>10, <2>3
  <2>4. es \in Seq(Proper(runs))
    BY <1>9
  <2> HIDE DEF d
  <2> QED
    BY <1>1, <1>2, <2>1, <2>2, <2>3, <2>4, WorksNoMore
<1> QED
  BY <1>11, <1>12

(* Nothing that the window is compared with changes.                       *)
LEMMA WindowStays ==
  ASSUME WindowInv, runs \in Nat,
         UNCHANGED <<at, row, tool, runs, state, parked, cards, exited, late, overtaken>>
  PROVE  /\ \A w : Truthful(w) => Truthful(w)'
         /\ UNCHANGED <<main, pipe>> /\ Booked' => WindowInv'
<1>1. Live' = Live /\ Open' = Open
  BY DEF Live, Open
<1>2. ASSUME NEW w, Truthful(w) PROVE Truthful(w)'
  <2>1. ShowsWork(w) => ShowsWork(w)'
    BY <1>1 DEF ShowsWork
  <2>2. ShowsRest(w) => ShowsRest(w)'
    BY DEF ShowsRest
  <2> QED
    BY <1>1, <1>2, <2>1, <2>2 DEF Truthful
<1>3. ASSUME UNCHANGED <<main, pipe>>, Booked' PROVE WindowInv'
  BY <1>2, <1>3, WindowWaits
<1> QED
  BY <1>2, <1>3

-----------------------------------------------------------------------------
(* Restores, and the next run.                                             *)

(* The page shows no run that is still to come.                            *)
LEMMA PageRun == PageInv /\ page.at = "up" => page.shown.view.run \in 0 .. runs
<1> SUFFICES ASSUME PageInv, page.at = "up" PROVE page.shown.view.run \in 0 .. runs
  OBVIOUS
<1>1. PICK h : ToldBy(h)
  BY DEF PageInv
<1>2. page.last \in 0 .. main.seq /\ page.shown = h[page.last]
  BY <1>1 DEF PageInv, ToldBy
<1> QED
  BY <1>1, <1>2 DEF ToldBy, Past

LEMMA WindowIsTold ==
  ASSUME Inv, WindowInv, Booked', NEW r \in Nat, r <= runs, at # "down",
         UNCHANGED <<at, row, tool, runs, state, parked, cards, main, exited, late>>, Told(r)
  PROVE  WindowInv'
<1>1. PICK x \in Words : pipe' = pipe \o <<RunEvent("restored", r, NoCall, x)>>
  BY Zenon DEF Told, Posts, Words
<1>2. runs \in Nat /\ runs # 0 /\ NoCall \in Nat \X Nat
  BY RunsCount DEF NoCall
<1> DEFINE e == RunEvent("restored", r, NoCall, x)
<1>3. e \in RunEvents /\ e.kind = "restored" /\ e.run = r
  BY <1>2, EventIs
<1>4. pipe' = pipe \o <<e>>
  BY <1>1
<1> HIDE DEF e
<1>5. <<e>> \in Seq(Proper(runs'))
  BY <1>3 DEF Proper
<1>6. ~overtaken' => ~overtaken /\ r = runs
  BY Zenon DEF Told
<1>7. ASSUME NEW w \in Own(runs), NEW z, Truthful(w), Brings(w, <<e>>, z) PROVE Truthful(z)'
  <2>1. CASE late' \/ overtaken'
    BY <2>1 DEF Truthful
  <2>2. CASE ~late' /\ ~overtaken'
    <3>1. w \in Windows /\ w.shown.view.run = runs /\ r = runs /\ ~late /\ ~overtaken
      BY <1>6, <1>7, <2>2 DEF Truthful, Own, ShowsRest, Live
    <3>2. z = Turned(w, e)
      BY <1>7, BringsOne
    <3>3. /\ z.shown.view.run = runs /\ z.active = w.active
          /\ z.shown.view.state = w.shown.view.state /\ z.shown.view.cards = w.shown.view.cards
          /\ z.shown.view.log = w.shown.view.log
      BY <1>2, <1>3, <3>1, <3>2, Stays
    <3>4. z.shown.handoff = w.shown.handoff
      BY <1>2, <1>3, <3>1, <3>2, Stays
    <3>5. Live' = Live /\ Open' = Open
      BY DEF Live, Open
    <3>6. ShowsWork(w) => ShowsWork(z)'
      BY <3>3, <3>4, <3>5 DEF ShowsWork
    <3>7. ShowsRest(w) => ShowsRest(z)'
      BY <3>1, <3>3, <3>4 DEF ShowsRest
    <3> QED
      BY <1>7, <3>1, <3>3, <3>5, <3>6, <3>7 DEF Truthful
  <2> QED
    BY <2>1, <2>2
<1>8. runs' \in Nat /\ runs <= runs'
  BY <1>2
<1> QED
  BY <1>2, <1>4, <1>5, <1>7, <1>8, WindowPosts

LEMMA WindowRestores == Inv /\ PageInv /\ WindowInv /\ (RestoreAsked \/ RestoreEnds) => WindowInv'
<1> SUFFICES ASSUME Inv, PageInv, WindowInv, RestoreAsked \/ RestoreEnds PROVE WindowInv'
  OBVIOUS
<1>1. runs \in Nat /\ at # "down"
  BY RunsCount DEF RestoreAsked, RestoreEnds
<1>2. UNCHANGED <<at, row, tool, runs, state, final, parked, cards, main, exited, late>>
  BY DEF RestoreAsked, RestoreEnds, desktop, vars, store, run, counters
<1>3. restoring' \in Nat /\ restoring' <= runs => Booked'
  BY <1>2 DEF WindowInv, Booked
<1>4. CASE RestoreEnds
  <2>1. restoring \in Nat /\ restoring <= runs /\ Told(restoring) /\ restoring' = 0
    BY <1>4 DEF RestoreEnds, WindowInv, Booked
  <2> QED
    BY <1>1, <1>2, <1>3, <2>1, WindowIsTold
<1>5. CASE RestoreAsked
  <2> DEFINE r == page.shown.view.run
  <2>1. r \in Nat /\ r <= runs
    BY <1>1, <1>5, PageRun DEF RestoreAsked
  <2>2. CASE Told(r) /\ UNCHANGED restoring
    <3>1. Booked'
      BY <1>3, <2>2 DEF WindowInv, Booked
    <3> QED
      BY <1>1, <1>2, <2>1, <2>2, <3>1, WindowIsTold
  <2>3. CASE restoring' = r /\ UNCHANGED <<pipe, overtaken>>
    <3>1. Booked'
      BY <1>3, <2>1, <2>3
    <3> QED
      BY <1>1, <1>2, <2>3, <3>1, WindowStays
  <2> QED
    BY <1>5, <2>2, <2>3 DEF RestoreAsked
<1> QED
  BY <1>4, <1>5

(* The first event of a run starts a view of it.                           *)
LEMMA StartsAfresh ==
  ASSUME NEW w \in Windows, NEW e \in RunEvents, NEW y, y = Turned(w, e),
         e.kind = "state" /\ e.run # 0 /\ e.of = NoCall /\ e.what \notin Terminal \cup {"handoff"},
         w.shown.view.run # e.run,
         w.shown.view.run = 0 => w.shown.view.cards = {} /\ w.shown.view.log = <<>>
  PROVE  /\ y.shown.view.run = e.run /\ y.active = e.run /\ y.shown.view.state = e.what
         /\ ~y.shown.handoff /\ y.shown.view.cards = {} /\ y.shown.view.log = <<>>
<1> DEFINE v == w.shown.view
           b == Rebased(v, e)
<1>1. v \in Views
  BY DEF Windows
<1>2. b \in Views /\ b.run = e.run /\ b.cards = {} /\ b.log = <<>>
  <2> HIDE DEF v
  <2>1. CASE v.run = 0
    BY <1>1, <2>1, Rebases DEF v
  <2>2. CASE v.run # 0
    BY <1>1, <2>2, Rebases DEF v
  <2> QED
    BY <2>1, <2>2
<1>3. b = Rebased(v, e)
  OBVIOUS
<1>4. y.shown.view = Reduced(v, e) /\ y.active = e.run /\ ~y.shown.handoff
  BY TurnedIs
<1> HIDE DEF v, b
<1>5. Reduced(v, e).run = b.run /\ Reduced(v, e).state = e.what
  BY <1>1, <1>2, <1>3, Reduces
<1>7. Reduced(v, e).cards = b.cards
  BY <1>1, <1>2, <1>3, Reduces
<1>8. Reduced(v, e).log = WithoutAnswer(b.log, e)
  BY <1>1, <1>2, <1>3, Reduces
<1>6. WithoutAnswer(b.log, e) = b.log
  BY <1>2, EmptySeq, AnswerIsDropped
<1> QED
  BY <1>2, <1>4, <1>5, <1>6, <1>7, <1>8

LEMMA RowsAtFirst ==
  ASSUME NEW T, NEW p, \A c \in Calls : T[c] # "executing"
  PROVE  RowsTrue(<<>>, T, p)
<1>1. DOMAIN <<>> = {}
  BY EmptySeq
<1> QED
  BY <1>1 DEF RowsTrue

LEMMA WindowContinues == Inv /\ WindowInv /\ Continues => WindowInv'
<1> SUFFICES ASSUME Inv, WindowInv, Continues PROVE WindowInv'
  OBVIOUS
<1>1. /\ at = "none" /\ at' = "asking" /\ runs' = runs + 1 /\ UNCHANGED tool
      /\ UNCHANGED <<main, exited, restoring>>
      /\ state' = "running" /\ final' = NoCall /\ parked' = NoCall
      /\ cards' = [c \in Calls |-> "none"]
      /\ pipe' = pipe \o <<RunEvent("state", runs', NoCall, "running")>>
  BY DEF Continues, Followup, desktop, Posts, State
<1>2. runs \in Nat /\ runs' \in Nat /\ runs <= runs' /\ runs' # 0 /\ NoCall \in Nat \X Nat
  BY <1>1, RunsCount DEF NoCall
<1>3. Booked'
  BY <1>1, <1>2 DEF WindowInv, Booked
<1>4. Open' = {} /\ Live'
  BY <1>1 DEF Open, Live
<1>5. \A c \in Calls : tool'[c] # "executing"
  BY <1>1 DEF Inv, Journalled
<1> DEFINE e == RunEvent("state", runs', NoCall, "running")
<1>6. e \in RunEvents /\ e.kind = "state" /\ e.run = runs' /\ e.of = NoCall /\ e.what = "running"
  <2>1. "running" \in Words /\ runs' \in Nat
    BY <1>2 DEF Words
  <2> QED
    BY <1>2, <2>1, EventIs
<1>7. pipe' = pipe \o <<e>>
  BY <1>1
<1> HIDE DEF e
<1>8. <<e>> \in Seq(Proper(runs'))
  BY <1>2, <1>6 DEF Proper
<1>9. ASSUME NEW w \in Own(runs), NEW z, Truthful(w), Brings(w, <<e>>, z) PROVE Truthful(z)'
  <2>1. z = Turned(w, e)
    BY <1>9, BringsOne
  <2>2. /\ w \in Windows /\ w.shown.view.run \in Nat /\ w.shown.view.run <= runs
        /\ w.shown.view.run = 0 => w.shown.view.cards = {} /\ w.shown.view.log = <<>>
    BY DEF Own, Windows, Views
  <2>3. w.shown.view.run # e.run /\ e.what \notin Terminal \cup {"handoff"}
    BY <1>1, <1>2, <1>6, <2>2 DEF Terminal
  <2>4. /\ z.shown.view.run = e.run /\ z.active = e.run /\ z.shown.view.state = e.what
        /\ ~z.shown.handoff /\ z.shown.view.cards = {} /\ z.shown.view.log = <<>>
    BY <1>2, <1>6, <2>1, <2>2, <2>3, StartsAfresh
  <2>5. RowsTrue(z.shown.view.log, tool', parked')
    BY <1>5, <2>4, RowsAtFirst
  <2>6. ShowsWork(z)'
    BY <1>1, <1>4, <1>6, <2>4, <2>5 DEF ShowsWork
  <2> QED
    BY <1>1, <1>4, <1>6, <2>4, <2>6 DEF Truthful
<1> QED
  BY <1>2, <1>3, <1>1, <1>7, <1>8, <1>9, WindowPosts

-----------------------------------------------------------------------------
(* The main process.                                                       *)

LEMMA WindowHandles == Inv /\ WindowInv /\ Handle => WindowInv'
<1> SUFFICES ASSUME Inv, WindowInv, Handle PROVE WindowInv'
  OBVIOUS
<1> DEFINE e == Head(pipe)
<1>1. /\ pipe # <<>> /\ pipe' = Tail(pipe) /\ UNCHANGED <<at, row, tool, runs, exited, late, overtaken>>
      /\ UNCHANGED <<state, final, parked, cards, restoring>>
      /\ main'.shown = Shows(main.shown, e) /\ main'.active = Active(e)
  BY DEF Handle, Publish, vars, store, run, counters, daemon, history
<1>2. Showing \in Own(runs) /\ pipe \in Seq(Proper(runs)) /\ runs \in Nat
  BY RunsCount DEF WindowInv
<1>3. e \in Proper(runs) /\ pipe' \in Seq(Proper(runs))
  BY <1>1, <1>2, HeadTailProperties
<1>4. Showing' = Turned(Showing, e)
  BY <1>1 DEF Showing, Turned, Active
<1> HIDE DEF e
<1>5. Showing' \in Own(runs)
  BY <1>2, <1>3, <1>4, OwnKept
<1>6. ASSUME NEW z, Brings(Showing', pipe', z) PROVE Truthful(z)'
  <2>1. Brings(Turned(Showing, Head(pipe)), Tail(pipe), z)
    BY <1>1, <1>4, <1>6 DEF e
  <2>2. Brings(Showing, pipe, z)
    BY <1>1, <1>2, <2>1, BringsHead
  <2>3. Truthful(z)
    BY <2>2 DEF WindowInv
  <2> QED
    BY <1>1, <1>2, <2>3, WindowStays
<1>7. Booked'
  BY <1>1 DEF WindowInv, Booked
<1> QED
  BY <1>1, <1>3, <1>5, <1>6, <1>7 DEF WindowInv

LEMMA WindowGoes == Inv /\ WindowInv /\ Goes => WindowInv'
<1> SUFFICES ASSUME Inv, WindowInv, Goes PROVE WindowInv'
  OBVIOUS
<1>1. /\ at # "down" /\ at' = "down" /\ exited' = TRUE /\ UNCHANGED <<row, runs>>
      /\ final' = NoCall /\ parked' = NoCall /\ restoring' = 0
      /\ UNCHANGED <<pipe, main, late, overtaken>>
  BY DEF Goes, Crash, store, history
<1>2. Booked' /\ runs \in Nat
  BY <1>1, RunsCount DEF Booked, NoCall
<1>3. ASSUME NEW w, Truthful(w) PROVE Truthful(w)'
  <2>1. ShowsRest(w) => ShowsRest(w)'
    BY <1>1 DEF ShowsRest
  <2> QED
    BY <1>1, <1>3, <2>1 DEF Truthful, Live
<1> QED
  BY <1>1, <1>2, <1>3, WindowWaits

(* Main tells the page of the run that the daemon took with it.            *)
LEMMA ExitIs ==
  ASSUME Inv, WindowInv, main.active # 0,
         NEW e, e = RunEvent("state", main.active, NoCall, "interrupted")
  PROVE  /\ e \in Proper(runs) /\ e \in RunEvents /\ e.kind = "state"
         /\ e.run = main.active /\ e.what = "interrupted"
<1>1. main.active \in Nat /\ main.active <= runs
  BY DEF WindowInv, Own, Windows, Showing
<1>2. NoCall \in Nat \X Nat /\ "interrupted" \in Words
  BY DEF NoCall, Words
<1>3. e \in RunEvents /\ e.kind = "state" /\ e.run = main.active /\ e.what = "interrupted"
  BY <1>1, <1>2, EventIs
<1> QED
  BY <1>1, <1>3 DEF Proper

LEMMA WindowExits == Inv /\ WindowInv /\ Exit => WindowInv'
<1> SUFFICES ASSUME Inv, WindowInv, Exit PROVE WindowInv'
  OBVIOUS
<1>1. /\ exited /\ exited' = FALSE /\ UNCHANGED <<at, row, tool, runs, overtaken>>
      /\ UNCHANGED <<state, final, parked, cards, restoring>>
      /\ pipe' \in {pipe, <<>>} /\ (~late' => ~late /\ pipe = <<>>)
  BY Zenon DEF Exit, vars, store, run, counters, daemon
<1>2. at = "down" /\ Booked'
  BY <1>1 DEF WindowInv, Booked
<1>3. Showing \in Own(runs) /\ pipe \in Seq(Proper(runs)) /\ runs \in Nat /\ runs # 0
  BY RunsCount DEF WindowInv
<1>4. pipe' \in Seq(Proper(runs))
  BY <1>1, <1>3, EmptySeq
<1>5. Showing.shown = main.shown /\ Showing.active = main.active
  BY DEF Showing
<1>8. PICK s : s = Showing'
  OBVIOUS
<1>6. /\ Showing' \in Own(runs)
      /\ ~late' /\ ~overtaken => ShowsRest(s)'
  <2>1. ASSUME ~late', ~overtaken
        PROVE  ShowsRest(Showing) \/ (Showing.shown.view.run = runs /\ Showing.active = runs)
    <3>1. Truthful(Showing)
      BY <1>1, <2>1, BringsNothing DEF WindowInv
    <3> QED
      BY <1>1, <1>2, <2>1, <3>1 DEF Truthful
  <2>2. CASE main.active = 0
    <3>1. Showing' = Showing
      BY <1>1, <2>2 DEF Exit, Showing
    <3>2. ASSUME ShowsRest(Showing) PROVE ShowsRest(s)'
      BY <1>1, <1>8, <3>1, <3>2 DEF ShowsRest
    <3> QED
      BY <1>3, <1>5, <2>1, <2>2, <3>1, <3>2
  <2>3. CASE main.active # 0
    <3> DEFINE e == RunEvent("state", main.active, NoCall, "interrupted")
    <3>1. main'.shown = Shows(main.shown, e) /\ main'.active = 0
      BY <2>3 DEF Exit, Publish
    <3>2. e \in Proper(runs) /\ e \in RunEvents /\ e.kind = "state" /\ e.run = main.active /\ e.what = "interrupted"
      BY <2>3, ExitIs
    <3> HIDE DEF e
    <3>3. Showing' = Turned(Showing, e)
      BY <3>1, <3>2 DEF Showing, Turned, Terminal
    <3>4. Showing' \in Own(runs)
      BY <1>3, <3>2, <3>3, OwnKept
    <3>5. ASSUME ~late', ~overtaken PROVE ShowsRest(s)'
      <4>1. Showing.shown.view.run = runs /\ e.run = runs /\ Showing \in Windows
        BY <1>3, <1>5, <2>1, <2>3, <3>2, <3>5 DEF ShowsRest, Own
      <4>2. PICK w : w = Showing
        OBVIOUS
      <4>3. s = Turned(w, e) /\ w \in Windows /\ w.shown.view.run = runs
        BY <1>8, <3>3, <4>1, <4>2
      <4>4. "interrupted" \in Terminal /\ "interrupted" # "ended" /\ runs' = runs
        BY <1>1 DEF Terminal
      <4>5. /\ s.shown.view.run = runs /\ s.active = 0 /\ s.shown.view.state = "interrupted"
            /\ s.shown.view.cards = {}
        BY <1>3, <3>2, <4>1, <4>3, <4>4, Stays
      <4>6. ~s.shown.handoff
        BY <1>3, <3>2, <4>1, <4>3, Stays
      <4> QED
        BY <4>4, <4>5, <4>6 DEF ShowsRest
    <3> QED
      BY <3>4, <3>5
  <2> QED
    BY <2>2, <2>3
<1>7. ASSUME NEW z, Brings(Showing', pipe', z) PROVE Truthful(z)'
  <2>1. CASE late' \/ overtaken'
    BY <2>1 DEF Truthful
  <2>2. CASE ~late' /\ ~overtaken'
    <3>1. pipe' = <<>>
      BY <1>1, <2>2
    <3>2. z = Showing'
      BY <1>7, <3>1, BringsNothing
    <3>3. ShowsRest(z)'
      BY <1>1, <1>6, <1>8, <2>2, <3>2
    <3> QED
      BY <1>1, <1>2, <3>3 DEF Truthful, Live
  <2> QED
    BY <2>1, <2>2
<1> QED
  BY <1>1, <1>2, <1>4, <1>6, <1>7 DEF WindowInv

LEMMA WindowStartsAgain == Inv /\ WindowInv /\ StartsAgain => WindowInv'
<1> SUFFICES ASSUME Inv, WindowInv, StartsAgain PROVE WindowInv'
  OBVIOUS
<1>1. /\ at = "down" /\ at' = "none" /\ ~exited /\ row' = (IF row = "running" THEN "interrupted" ELSE row)
      /\ UNCHANGED <<runs, pipe, main, exited, late, overtaken, final, parked, restoring>>
  BY DEF StartsAgain, Restart, MarkInterrupted, counters, daemon, desktop, history
<1>2. Booked' /\ runs \in Nat
  BY <1>1, RunsCount DEF WindowInv, Booked
<1>3. ASSUME NEW w, Truthful(w) PROVE Truthful(w)'
  <2>1. ShowsRest(w) => ShowsRest(w)'
    BY <1>1 DEF ShowsRest
  <2> QED
    BY <1>1, <1>3, <2>1 DEF Truthful, Live
<1> QED
  BY <1>1, <1>2, <1>3, WindowWaits

-----------------------------------------------------------------------------
(* The window at the start, and at every step.                             *)

LEMMA WindowInit == DesktopInit => WindowInv
<1> SUFFICES ASSUME DesktopInit PROVE WindowInv
  OBVIOUS
<1>1. /\ at = "asking" /\ tool = [c \in Calls |-> "none"] /\ runs = 1
      /\ state = "running" /\ final = NoCall /\ parked = NoCall /\ restoring = 0
      /\ cards = [c \in Calls |-> "none"]
      /\ pipe = <<RunEvent("state", 1, NoCall, "running")>>
      /\ main.shown = Nothing /\ main.active = 0 /\ exited = FALSE
  BY DEF DesktopInit, Init
<1>2. NoCall \in Nat \X Nat /\ "running" \in Words
  BY DEF NoCall, Words
<1>3. Booked
  BY <1>1, <1>2 DEF Booked
<1>4. Showing \in Windows /\ Showing.shown.view.run = 0 /\ Showing.active = 0
      /\ Showing.shown.view.cards = {} /\ Showing.shown.view.log = <<>>
  <2> DEFINE w == [shown |-> [view |-> EmptyRun, handoff |-> FALSE], active |-> 0]
  <2>1. Showing = w
    BY <1>1 DEF Showing, Nothing
  <2>2. w \in Windows
    BY EmptyView DEF Windows
  <2>3. EmptyRun.run = 0 /\ EmptyRun.cards = {} /\ EmptyRun.log = <<>>
    BY DEF EmptyRun
  <2> QED
    BY <2>1, <2>2, <2>3
<1>5. Showing \in Own(runs)
  BY <1>1, <1>4 DEF Own
<1> DEFINE e == RunEvent("state", 1, NoCall, "running")
<1>6. e \in RunEvents /\ e.kind = "state" /\ e.run = 1 /\ e.of = NoCall /\ e.what = "running"
  BY <1>2, EventIs
<1>7. pipe = <<e>>
  BY <1>1
<1> HIDE DEF e
<1>8. pipe \in Seq(Proper(runs))
  BY <1>1, <1>6, <1>7 DEF Proper
<1>9. ASSUME NEW z, Brings(Showing, <<e>>, z) PROVE Truthful(z)
  <2>1. z = Turned(Showing, e)
    BY <1>9, BringsOne
  <2>2. e.what \notin Terminal \cup {"handoff"}
    BY <1>6 DEF Terminal
  <2>3. /\ z.shown.view.run = e.run /\ z.active = e.run /\ z.shown.view.state = e.what
        /\ ~z.shown.handoff /\ z.shown.view.cards = {} /\ z.shown.view.log = <<>>
    BY <1>4, <1>6, <2>1, <2>2, StartsAfresh
  <2>4. RowsTrue(z.shown.view.log, tool, parked)
    BY <1>1, <2>3, RowsAtFirst
  <2>5. Open = {}
    BY <1>1 DEF Open
  <2>6. ShowsWork(z)
    BY <1>1, <1>6, <2>3, <2>4, <2>5 DEF ShowsWork
  <2> QED
    BY <1>1, <1>6, <2>3, <2>6 DEF Truthful, Live
<1> QED
  BY <1>3, <1>5, <1>7, <1>8, <1>9 DEF WindowInv

LEMMA WindowNext ==
  Inv /\ PageInv /\ Carded /\ WindowInv /\ [DesktopNext]_desktopVars => WindowInv'
<1> SUFFICES ASSUME Inv, PageInv, Carded, WindowInv, [DesktopNext]_desktopVars PROVE WindowInv'
  OBVIOUS
<1>1. CASE GetRun \/ Receive \/ Hydrate \/ Reload \/ UNCHANGED desktopVars
  <2>1. /\ UNCHANGED <<at, row, tool, runs, state, parked, cards, exited, late, overtaken>>
        /\ UNCHANGED <<main, pipe, final, restoring>>
    BY <1>1 DEF GetRun, Receive, Hydrate, Reload, desktopVars, vars, store, run, counters, daemon, desktop, history
  <2>2. Booked'
    BY <2>1 DEF WindowInv, Booked
  <2> QED
    BY <2>1, <2>2, RunsCount, WindowStays
<1>2. CASE Silently \/ Speaks \/ HandoffEnds \/ Looked \/ RunGivesUp \/ RunCloses \/ Continues
  BY <1>2, QuietWindow, WindowSpeaks, WindowHandoffEnds, WindowLooked, WindowGivesUp, WindowCloses, WindowContinues
<1>3. ASSUME NEW c \in Calls, CallBegins(c) \/ CallReturns(c) \/ CallBreaks(c) PROVE WindowInv'
  BY <1>3, WindowBegins, WindowReturns, WindowBreaks
<1>4. ASSUME NEW c \in Calls, CardOpens(c) \/ CardCloses(c) PROVE WindowInv'
  BY <1>4, WindowAsksTheHuman, WindowIsAnswered
<1>5. CASE RestoreAsked \/ RestoreEnds
  BY <1>5, WindowRestores
<1>6. CASE Handle \/ Goes \/ Exit \/ StartsAgain
  BY <1>6, WindowHandles, WindowGoes, WindowExits, WindowStartsAgain
<1> QED
  BY <1>1, <1>2, <1>3, <1>4, <1>5, <1>6 DEF DesktopNext

-----------------------------------------------------------------------------
(* The conversation, with its window.                                      *)

LEMMA DesktopMoves == [DesktopNext]_desktopVars => [Next]_vars
<1> SUFFICES ASSUME [DesktopNext]_desktopVars PROVE [Next]_vars
  OBVIOUS
<1>1. CASE UNCHANGED vars
  BY <1>1
<1>2. CASE Silently
  BY <1>2 DEF Silently, Next
<1>3. CASE Speaks \/ RunGivesUp \/ RunCloses \/ Continues \/ Goes \/ StartsAgain
  BY <1>3 DEF Speaks, RunGivesUp, RunCloses, Continues, Goes, StartsAgain, Next
<1>4. ASSUME NEW c \in Calls, CallBegins(c) \/ CallReturns(c) \/ CallBreaks(c)
      PROVE  [Next]_vars
  BY <1>4 DEF CallBegins, CallReturns, CallBreaks, Next
<1>5. ASSUME NEW c \in Calls, CardOpens(c) \/ CardCloses(c)
      PROVE  [Next]_vars
  BY <1>5 DEF CardOpens, CardCloses
<1>6. CASE HandoffEnds \/ Looked \/ RestoreAsked \/ RestoreEnds \/ Handle \/ Exit \/ GetRun \/ Receive \/ Hydrate
           \/ Reload
  BY <1>6 DEF HandoffEnds, Looked, RestoreAsked, RestoreEnds, Handle, Exit, GetRun, Receive, Hydrate, Reload
<1>7. CASE UNCHANGED desktopVars
  BY <1>7 DEF desktopVars
<1> QED
  BY <1>2, <1>3, <1>4, <1>5, <1>6, <1>7 DEF DesktopNext

LEMMA RunsGrow == Inv /\ [DesktopNext]_desktopVars => runs \in Nat /\ runs' \in {runs, runs + 1}
<1> SUFFICES ASSUME Inv, [DesktopNext]_desktopVars PROVE runs \in Nat /\ runs' \in {runs, runs + 1}
  OBVIOUS
<1>1. [Next]_vars
  BY DesktopMoves
<1> QED
  BY <1>1, RunsCount
     DEF Next, vars, counters, Answered, Asks, Stop, GivesUp, Closes, Followup, Crash, Restart,
         Skipped, Begins, Happens, Returns, Breaks, Records

LEMMA PageNext == Inv /\ WindowInv /\ PageInv /\ [DesktopNext]_desktopVars => PageInv'
<1> SUFFICES ASSUME Inv, WindowInv, PageInv, [DesktopNext]_desktopVars PROVE PageInv'
  OBVIOUS
<1> USE DEF desktop
<1>0. runs \in Nat /\ runs' \in Nat /\ runs <= runs'
  BY RunsGrow
<1>1. CASE UNCHANGED <<main, wire, reply, page>>
  <2>1. PICK h : ToldBy(h)
    BY DEF PageInv
  <2>2. Past(h)'
    BY <1>0, <1>1, <2>1 DEF ToldBy, Past
  <2>3. ToldBy(h)'
    BY <1>1, <2>1, <2>2 DEF ToldBy
  <2>4. \E f : ToldBy(f)'
    BY <2>3
  <2> QED
    BY <1>1, <2>4 DEF PageInv
<1>2. CASE Silently
  BY <1>1, <1>2 DEF Silently
<1>3. CASE Elsewhere
  BY <1>1, <1>3 DEF Elsewhere
<1>4. CASE Speaks \/ HandoffEnds \/ Looked \/ RunGivesUp \/ RunCloses
  BY <1>3, <1>4 DEF Speaks, HandoffEnds, Looked, RunGivesUp, RunCloses
<1>5. CASE Continues
  BY <1>1, <1>5 DEF Continues
<1>6. ASSUME NEW c \in Calls,
             CallBegins(c) \/ CallReturns(c) \/ CallBreaks(c) \/ CardOpens(c) \/ CardCloses(c)
      PROVE  PageInv'
  BY <1>3, <1>6 DEF CallBegins, CallReturns, CallBreaks, CardOpens, CardCloses
<1>7. CASE RestoreAsked \/ RestoreEnds
  BY <1>1, <1>7 DEF RestoreAsked, RestoreEnds
<1>17. ASSUME NEW e \in Proper(runs) PROVE Shows(main.shown, e).view.run \in 0 .. runs
  <2>1. Turned(Showing, e) \in Own(runs)
    BY <1>0, OwnKept DEF WindowInv
  <2>2. Turned(Showing, e).shown = Shows(main.shown, e)
    BY DEF Turned, Showing
  <2> QED
    BY <1>0, <2>1, <2>2 DEF Own, Windows, Views
<1>8. CASE Handle
  <2>1. Publish(Head(pipe), Active(Head(pipe))) /\ UNCHANGED <<reply, page, runs>>
    BY <1>8 DEF Handle, vars, counters
  <2>2. Head(pipe) \in Proper(runs)
    BY <1>8, HeadTailProperties DEF Handle, WindowInv
  <2> QED
    BY <1>17, <2>1, <2>2, PagePublish
<1>9. CASE Goes
  BY <1>1, <1>9 DEF Goes
<1>10. CASE Exit
  <2>1. UNCHANGED <<reply, page, runs>>
    BY <1>10 DEF Exit, vars, counters
  <2>2. CASE main.active # 0
    <3> DEFINE e == RunEvent("state", main.active, NoCall, "interrupted")
    <3>1. Publish(e, 0)
      BY <1>10, <2>2 DEF Exit
    <3>2. e \in Proper(runs)
      BY <2>2, ExitIs
    <3> HIDE DEF e
    <3> QED
      BY <1>17, <2>1, <3>1, <3>2, PagePublish
  <2>3. CASE ~(main.active # 0)
    BY <1>1, <1>10, <2>1, <2>3 DEF Exit
  <2> QED
    BY <2>2, <2>3
<1>11. CASE StartsAgain
  BY <1>1, <1>11 DEF StartsAgain
<1>12. CASE GetRun
  BY <1>12, PageAsks
<1>13. CASE Receive
  BY <1>13, PageReceives
<1>14. CASE Hydrate
  BY <1>14, PageHydrates
<1>15. CASE Reload
  BY <1>15, PageReloads
<1>16. CASE UNCHANGED desktopVars
  BY <1>1, <1>16 DEF desktopVars
<1> QED
  BY <1>2, <1>4, <1>5, <1>6, <1>7, <1>8, <1>9, <1>10, <1>11, <1>12, <1>13, <1>14, <1>15, <1>16
     DEF DesktopNext

LEMMA DesktopInvariance == DesktopSpec => [](Inv /\ PageInv /\ Carded /\ WindowInv)
<1> DEFINE I == Inv /\ PageInv /\ Carded /\ WindowInv
<1>1. DesktopInit => I
  <2>1. DesktopInit => Init
    BY DEF DesktopInit
  <2> QED
    BY <2>1, InitInv, PageInit, CardedInit, WindowInit
<1>2. I /\ [DesktopNext]_desktopVars => I'
  <2>1. I /\ [DesktopNext]_desktopVars => Inv'
    BY DesktopMoves, StepInv
  <2>2. I /\ [DesktopNext]_desktopVars => PageInv'
    BY PageNext
  <2>3. I /\ [DesktopNext]_desktopVars => Carded'
    BY CardedNext
  <2>4. I /\ [DesktopNext]_desktopVars => WindowInv'
    BY WindowNext
  <2> QED
    BY <2>1, <2>2, <2>3, <2>4
<1> HIDE DEF I
<1>3. DesktopSpec => []I
  BY <1>1, <1>2, PTL DEF DesktopSpec
<1> QED
  BY <1>3 DEF I

(* A page that has its snapshot and has been sent everything shows what    *)
(* main shows (main/index.ts, App.tsx), however often it was loaded again, *)
(* whatever came before the snapshot, and however much waits.              *)
THEOREM PageShowsMain == DesktopSpec => []PageAgrees
BY DesktopInvariance, PageSafe, PTL

(* Once main has handled what the daemon posted (ipc.ts, main/index.ts),   *)
(* the window shows the latest run: its state, its handoff, its cards and  *)
(* its calls while it works (run-view.ts), and that it is over when it is, *)
(* through any number of runs, crashes, stops and restores.  Excepted,     *)
(* until the next run: an exit of agentd that main met before its last     *)
(* events (late), and a restore told of during a later run (overtaken).    *)
THEOREM WindowShowsRun == DesktopSpec => []ShownIsTrue
BY DesktopInvariance, WindowSafe, PTL

(* The daemon that posts, the window and its restores do nothing to the    *)
(* conversation that its own steps do not: it stays accounted for.         *)
THEOREM DesktopConverses == DesktopSpec => Spec
<1>1. DesktopInit => Init
  BY DEF DesktopInit
<1> QED
  BY <1>1, DesktopMoves, PTL DEF DesktopSpec, Spec
=============================================================================
