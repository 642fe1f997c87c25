---------------------------- MODULE RunController ----------------------------
(***************************************************************************)
(* One run of the agent: orchestrator/run-controller.ts with the approval  *)
(* cards, the budget clock and the daemon's listener on its state, hybrid  *)
(* browser delegation switched off (deps.hybrid undefined).                *)
(*                                                                         *)
(* The controller is an async function on the daemon's event loop.  pc     *)
(* names the point it has reached: the labels in Awaits are promises it is *)
(* suspended on; the others are code that runs to its next await before    *)
(* any other handler, so every handler is guarded by Yielded.              *)
(*                                                                         *)
(* Data abstractions.  controlRevision is only ever compared with a copy   *)
(* taken earlier: turnCurrent and callCurrent say whether the copy of      *)
(* run-controller.ts:237 and of :336 still equals it.  Step budgets are    *)
(* kept as what is left of them.  Elapsed time and cost only matter        *)
(* through the limit they pass, which is what over holds; time can only    *)
(* pass its limit while the clock runs (pauseDepth = 0).                   *)
(***************************************************************************)
EXTENDS Integers, FiniteSets

CONSTANTS
  Cards,        (* Ids of the approval cards that can be open at once.      *)
  NoCard,       (* The authorization in progress waits for no card.         *)
  Unlimited,    (* A step limit the human switched off (null).              *)
  TurnLimit,    (* maxTurns the run starts with.                            *)
  ToolLimit,    (* maxToolCalls the run starts with.                        *)
  StepGrant,    (* Turns that "add_steps" grants (100 in the code).         *)
  ToolGrant,    (* Tool calls that "add_steps" grants (300 in the code).    *)
  RoomBound,    (* Bound of the model: steps are granted only up to this.   *)
  MaxBatch,     (* Bound of the model: tool calls in one model turn.        *)
  CompactEvery  (* Turns after which the chain is compacted; 0 is never.    *)

ASSUME NoCardAssumption == NoCard \notin Cards
ASSUME UnlimitedAssumption == Unlimited \notin Int
ASSUME LimitAssumption ==
  /\ TurnLimit \in Nat \cup {Unlimited}
  /\ ToolLimit \in Nat \cup {Unlimited}
  /\ StepGrant \in Nat \ {0}
  /\ ToolGrant \in Nat \ {0}
  /\ RoomBound \in Nat
  /\ MaxBatch \in Nat \ {0}
  /\ CompactEvery \in Nat

VARIABLES
  state,        (* _state, as the store and the window see it.              *)
  pc,           (* Where start() stands.                                    *)
  back,         (* Where the park or observation in progress returns to.    *)
  aborted,      (* abort.signal.aborted.                                    *)
  humanPause,   (* A pauseForHuman promise is open.                         *)
  turnCurrent,  (* No control change since the last model turn was sent.    *)
  callCurrent,  (* No control change since runTool took up the call.        *)
  turnsLeft,    (* maxTurns - turns, or Unlimited.                          *)
  toolsLeft,    (* maxToolCalls - toolCalls, or Unlimited.                  *)
  capped,       (* Which of the time and cost limits are set.               *)
  over,         (* Which of them have been passed.                          *)
  budgetReason, (* The limit the run is parked at.                          *)
  reobserve,    (* reobserveAfterBudget.                                    *)
  pauseDepth,   (* BudgetTracker.pauseDepth: 0 while the clock runs.        *)
  cards,        (* Open approval cards of this run.                         *)
  authCard,     (* The card the running policy.authorize waits for.         *)
  clockHeld,    (* approvalClockPaused.                                     *)
  left,         (* Tool calls of the turn not yet handled.                  *)
  row,          (* Status of the current call in the tool_calls table.      *)
  next,         (* What the next model request carries.                     *)
  turnsInChain, (* Turns since the last compaction, up to CompactEvery.     *)
  blind         (* History: parked since, and the model was not told.       *)

control == <<aborted, humanPause, turnCurrent, callCurrent>>
steps   == <<turnsLeft, toolsLeft>>
limits  == <<turnsLeft, toolsLeft, capped, over, budgetReason, reobserve>>
approval == <<cards, authCard, clockHeld>>
work    == <<left, row, next, turnsInChain, blind>>
vars == <<state, pc, back, control, limits, pauseDepth, approval, work>>

Terminal == {"completed", "failed", "stopped"}
States == {"idle", "running", "awaiting_approval", "handoff", "budget_paused"} \cup Terminal
TimedLimits == {"maxDurationMs", "maxCostUsd"}
Limits == {"maxTurns", "maxToolCalls"} \cup TimedLimits
Awaits == {"model", "compact", "authorize", "approval", "execute", "handoff",
           "observe", "budget", "closing", "ended"}
Running == {"new", "loop", "check1", "check2", "nextCall", "granted", "declined",
            "cleared", "vet", "endCall", "unpark", "unbudget"}

(* Run to completion: a handler runs only when the controller has yielded. *)
Yielded == pc \in Awaits

Bit(b) == IF b THEN 1 ELSE 0
Room == Int \cup {Unlimited}
Spend(room) == IF room = Unlimited THEN Unlimited ELSE room - 1

(* The type invariant, in the parts that the actions disturb together.     *)
PlaceOK ==
  /\ state \in States
  /\ pc \in Awaits \cup Running
  /\ back \in {"check1", "check2", "nextCall", "endCall"}
FlagsOK ==
  /\ aborted \in BOOLEAN /\ humanPause \in BOOLEAN
  /\ turnCurrent \in BOOLEAN /\ callCurrent \in BOOLEAN
  /\ reobserve \in BOOLEAN /\ clockHeld \in BOOLEAN /\ blind \in BOOLEAN
LimitsOK ==
  /\ turnsLeft \in Room /\ toolsLeft \in Room
  /\ capped \subseteq TimedLimits /\ over \subseteq capped
  /\ budgetReason \in Limits \cup {"none"}
WorkOK ==
  /\ pauseDepth \in Int
  /\ cards \subseteq Cards
  /\ authCard \in Cards \cup {NoCard}
  /\ left \in 0 .. MaxBatch
  /\ row \in {"none", "executing", "done", "denied", "error"}
  /\ next \in {"goal", "results", "told"}
  /\ turnsInChain \in 0 .. CompactEvery

TypeOK == PlaceOK /\ FlagsOK /\ LimitsOK /\ WorkOK

(* A fresh run starts from the goal; a follow-up on a provider that keeps  *)
(* the conversation starts from the results its checkpoint still owes.     *)
Init ==
  /\ state = "idle" /\ pc = "new" /\ back = "check1"
  /\ aborted = FALSE /\ humanPause = FALSE
  /\ turnCurrent = FALSE /\ callCurrent = FALSE
  /\ turnsLeft = TurnLimit /\ toolsLeft = ToolLimit
  /\ capped \in SUBSET TimedLimits /\ over = {}
  /\ budgetReason = "none" /\ reobserve = FALSE
  /\ pauseDepth = 0
  /\ cards = {} /\ authCard = NoCard /\ clockHeld = FALSE
  /\ left = 0 /\ row = "none"
  /\ next \in {"goal", "results"}
  /\ turnsInChain = 0 /\ blind = FALSE

-----------------------------------------------------------------------------
(* Ending and parking.                                                     *)

(* finish() and the finally block: the daemon's listener on the terminal   *)
(* state closes the cards, whose "resolved" listener resumes the clock;    *)
(* an aborted run first awaits the adapter's interrupt.                    *)
Finish(st, depth) ==
  /\ state' = st
  /\ pc' = IF aborted THEN "closing" ELSE "ended"
  /\ cards' = {} /\ authCard' = NoCard /\ clockHeld' = FALSE
  /\ pauseDepth' = depth - Bit(clockHeld)
  /\ humanPause' = FALSE
  /\ UNCHANGED <<back, aborted, turnCurrent, callCurrent>>

Ending == IF aborted THEN "stopped" ELSE "failed"

(* What handoff() and a reached limit share: the control revision moves,   *)
(* the clock stops, an open pauseForHuman is answered.                     *)
Park(where, st, return) ==
  /\ pc' = where /\ state' = st /\ back' = return
  /\ turnCurrent' = FALSE /\ callCurrent' = FALSE /\ humanPause' = FALSE
  /\ pauseDepth' = pauseDepth + 1
  /\ blind' = TRUE
  /\ UNCHANGED aborted

Handoff(return) ==
  /\ Park("handoff", "handoff", return)
  /\ UNCHANGED <<limits, approval, left, next, turnsInChain>>

(* Mutant: the limit lets one more step through.                           *)
ExhaustedLate(room) == room \in Int /\ room < 0

Exhausted(room) == room \in Int /\ room <= 0

(* budget.check: the first limit reached, in the order the code asks.      *)
Reached(phase) ==
  IF phase = "model" /\ Exhausted(turnsLeft) THEN "maxTurns"
  ELSE IF Exhausted(toolsLeft) THEN "maxToolCalls"
  ELSE IF "maxDurationMs" \in over THEN "maxDurationMs"
  ELSE IF "maxCostUsd" \in over THEN "maxCostUsd"
  ELSE "none"

(* Mutant: a park at a limit leaves the control revision as it is.         *)
BudgetPauseFresh(phase, return) ==
  /\ Reached(phase) # "none"
  /\ pc' = "budget" /\ state' = "budget_paused" /\ back' = return
  /\ humanPause' = FALSE /\ pauseDepth' = pauseDepth + 1 /\ blind' = TRUE
  /\ budgetReason' = Reached(phase)
  /\ UNCHANGED <<turnCurrent, callCurrent, aborted, steps, capped, over, reobserve, approval,
                 left, row, next, turnsInChain>>

BudgetPause(phase, return) ==
  /\ Reached(phase) # "none"
  /\ Park("budget", "budget_paused", return)
  /\ budgetReason' = Reached(phase)
  /\ UNCHANGED <<steps, capped, over, reobserve, approval, left, row, next, turnsInChain>>

Goto(label) ==
  /\ pc' = label
  /\ UNCHANGED <<state, back, control, limits, pauseDepth, approval>>

-----------------------------------------------------------------------------
(* The loop of start().                                                    *)

Start ==
  /\ pc = "new"
  /\ state' = "running" /\ pc' = "loop"
  /\ UNCHANGED <<back, control, limits, pauseDepth, approval, work>>

(* throwIfStopped at the top, in checkBudget and before each call.         *)
StopSeen ==
  /\ pc \in {"loop", "check1", "check2", "nextCall"} /\ aborted
  /\ Finish("stopped", pauseDepth)
  /\ UNCHANGED <<limits, work>>

(* Mutant: a pause asked for during the last batch is overlooked.          *)
LoopTopUnasked == pc = "loop" /\ ~aborted /\ Goto("check1") /\ UNCHANGED work

LoopTop ==
  /\ pc = "loop" /\ ~aborted
  /\ \/ humanPause /\ Handoff("check1") /\ UNCHANGED row
     \/ ~humanPause /\ Goto("check1") /\ UNCHANGED work

CompactionDue == CompactEvery > 0 /\ turnsInChain >= CompactEvery /\ next # "goal"

FirstCheck ==
  /\ pc = "check1" /\ ~aborted
  /\ \/ BudgetPause("model", "check1")
     \/ /\ Reached("model") = "none"
        /\ Goto(IF CompactionDue THEN "compact" ELSE "check2")
        /\ UNCHANGED work

(* Mutant: the notice never reaches the request.                           *)
TellNothing(request) == request

(* A notice rides with tool results only; a goal already asks to observe.  *)
Tell(request) == IF request = "goal" THEN "goal" ELSE "told"

(* Second check, then the request: a re-observe notice that is owed goes   *)
(* out with it; the control revision is copied.                            *)
SendTurn ==
  /\ pc = "check2" /\ ~aborted
  /\ \/ BudgetPause("model", "check2")
     \/ /\ Reached("model") = "none"
        /\ LET tell == reobserve /\ next # "goal" IN
           /\ next' = IF tell THEN Tell(next) ELSE next
           /\ reobserve' = (reobserve /\ ~tell)
           /\ blind' = (blind /\ next' = "results")
        /\ turnCurrent' = TRUE
        /\ pc' = "model"
        /\ UNCHANGED <<state, back, aborted, humanPause, callCurrent, steps, capped, over,
                       budgetReason, pauseDepth, approval, left, row, turnsInChain>>

(* Mutant: the cost is compared with a limit that is switched off.         *)
CountTurnUncapped ==
  /\ turnsLeft' = Spend(turnsLeft)
  /\ \E costly \in SUBSET {"maxCostUsd"} : over' = over \cup costly
  /\ UNCHANGED <<toolsLeft, capped, budgetReason, reobserve>>

(* callModel's bookkeeping: one turn spent, the cost possibly passed.      *)
CountTurn ==
  /\ turnsLeft' = Spend(turnsLeft)
  /\ \E costly \in SUBSET (capped \cap {"maxCostUsd"}) : over' = over \cup costly
  /\ UNCHANGED <<toolsLeft, capped, budgetReason, reobserve>>

(* The summary replaces the chain by a goal that asks to re-observe.       *)
CompactReturns ==
  /\ pc = "compact" /\ ~aborted
  /\ CountTurn
  /\ next' = "goal" /\ turnsInChain' = 0
  /\ pc' = "check2"
  /\ UNCHANGED <<state, back, control, pauseDepth, approval, left, row, blind>>

ModelReturns ==
  /\ pc = "model" /\ ~aborted
  /\ CountTurn
  /\ turnsInChain' = IF turnsInChain < CompactEvery THEN turnsInChain + 1 ELSE turnsInChain
  /\ \/ /\ Finish("completed", pauseDepth)
        /\ UNCHANGED left
     \/ /\ left' \in 1 .. MaxBatch
        /\ pc' = "nextCall"
        /\ UNCHANGED <<state, back, control, pauseDepth, approval>>
  /\ UNCHANGED <<row, next, blind>>

(* The adapter rejects: provider failure, or the abort signal.             *)
ModelFails ==
  /\ pc \in {"model", "compact"}
  /\ Finish(Ending, pauseDepth)
  /\ UNCHANGED <<limits, work>>

BatchDone ==
  /\ pc = "nextCall" /\ left = 0 /\ ~aborted
  /\ next' = "results"
  /\ Goto("loop")
  /\ UNCHANGED <<left, row, turnsInChain, blind>>

PlanStale == humanPause \/ ~turnCurrent

(* A call of the batch: the budget first, then whether the plan is stale.  *)
NextCall ==
  /\ pc = "nextCall" /\ left > 0 /\ ~aborted
  /\ \/ BudgetPause("tool", "nextCall")
     \/ /\ Reached("tool") = "none" /\ PlanStale
        /\ left' = left - 1 /\ blind' = FALSE
        /\ Goto("nextCall")
        /\ UNCHANGED <<row, next, turnsInChain>>
     \/ /\ Reached("tool") = "none" /\ ~PlanStale
        /\ callCurrent' = TRUE
        /\ pc' = "authorize"
        /\ UNCHANGED <<state, back, aborted, humanPause, turnCurrent, limits, pauseDepth, approval, work>>

-----------------------------------------------------------------------------
(* runTool.                                                                *)

(* policy.authorize answers without a card: allow, deny, hand off, throw.  *)
Authorizing == pc = "authorize" /\ authCard = NoCard

Authorized == Authorizing /\ Goto("granted") /\ UNCHANGED work
Refused    == Authorizing /\ Goto("declined") /\ UNCHANGED work
PolicyHandsOff ==
  /\ Authorizing
  /\ row' = "denied"
  /\ Handoff("endCall")
PolicyThrows ==
  /\ Authorizing
  /\ Finish(Ending, pauseDepth)
  /\ UNCHANGED <<limits, work>>

(* The row is opened; an open card of this run holds the tool back, unless *)
(* the run was stopped in the meantime.                                    *)
Granted ==
  /\ pc = "granted"
  /\ row' = "executing"
  /\ IF cards = {}
     THEN Goto("vet")
     ELSE /\ pc' = IF aborted THEN "cleared" ELSE "approval"
          /\ state' = "awaiting_approval"
          /\ pauseDepth' = pauseDepth + 1
          /\ UNCHANGED <<back, control, limits, approval>>
  /\ UNCHANGED <<left, next, turnsInChain, blind>>

Declined ==
  /\ pc = "declined"
  /\ row' = "denied"
  /\ Goto("endCall")
  /\ UNCHANGED <<left, next, turnsInChain, blind>>

(* The end of waitForApprovals: no card is open any more, or Stop came.    *)
Cleared ==
  /\ pc = "cleared"
  /\ pauseDepth' = pauseDepth - 1
  /\ state' = IF aborted THEN state ELSE "running"
  /\ pc' = "vet"
  /\ UNCHANGED <<back, control, limits, approval, work>>

(* Mutant: control is not looked at again after the wait for a card.       *)
CallStaleNever == FALSE

CallStale == humanPause \/ ~callCurrent

(* The last look before the tool is called.                                *)
Vet ==
  /\ pc = "vet"
  /\ \/ /\ aborted
        /\ row' = "error"
        /\ Finish("stopped", pauseDepth)
        /\ UNCHANGED <<limits, left, next, turnsInChain, blind>>
     \/ /\ ~aborted /\ CallStale
        /\ row' = "error" /\ blind' = FALSE
        /\ Goto("endCall")
        /\ UNCHANGED <<left, next, turnsInChain>>
     \/ /\ ~aborted /\ ~CallStale
        /\ Goto("execute")
        /\ UNCHANGED work

(* tools.execute settles: a result or an error the model can react to ...  *)
ToolReturns ==
  /\ pc = "execute"
  /\ row' \in {"done"} \cup (IF aborted THEN {} ELSE {"error"})
  /\ Goto("endCall")
  /\ UNCHANGED <<left, next, turnsInChain, blind>>

(* ... a request for the human ...                                         *)
ToolHandsOff ==
  /\ pc = "execute"
  /\ row' = "done"
  /\ Handoff("endCall")

(* Mutant: the call that ends the run stays "executing" in the ledger.     *)
ToolBreaksOpen ==
  /\ pc = "execute"
  /\ Finish(Ending, pauseDepth)
  /\ UNCHANGED <<limits, work>>

(* ... or an error that ends the run: the worker is gone, or Stop came.    *)
ToolBreaks ==
  /\ pc = "execute"
  /\ row' = "error"
  /\ Finish(Ending, pauseDepth)
  /\ UNCHANGED <<limits, left, next, turnsInChain, blind>>

EndCall ==
  /\ pc = "endCall"
  /\ toolsLeft' = Spend(toolsLeft)
  /\ left' = left - 1
  /\ pc' = "nextCall"
  /\ UNCHANGED <<state, back, control, turnsLeft, capped, over, budgetReason, reobserve,
                 pauseDepth, approval, row, next, turnsInChain, blind>>

-----------------------------------------------------------------------------
(* Leaving a park.                                                         *)

Unpark ==
  /\ pc = "unpark"
  /\ \/ aborted /\ Finish("stopped", pauseDepth - 1)
     \/ /\ ~aborted
        /\ state' = "running" /\ pc' = "observe"
        /\ pauseDepth' = pauseDepth - 1
        /\ UNCHANGED <<back, control, approval>>
  /\ UNCHANGED <<limits, work>>

(* worker.observe after a handoff: the call's result carries it, the loop  *)
(* adds a notice to its next request.                                      *)
Observed ==
  /\ pc = "observe" /\ ~aborted
  /\ Goto(back)
  /\ next' = IF back = "check1" THEN Tell(next) ELSE next
  /\ blind' = (blind /\ back = "check1")
  /\ UNCHANGED <<left, row, turnsInChain>>

ObserveFails ==
  /\ pc = "observe"
  /\ Finish(Ending, pauseDepth)
  /\ UNCHANGED <<limits, work>>

Unbudget ==
  /\ pc = "unbudget"
  /\ \/ aborted /\ Finish("stopped", pauseDepth - 1) /\ UNCHANGED <<budgetReason, reobserve>>
     \/ /\ ~aborted
        /\ state' = "running" /\ pc' = back
        /\ pauseDepth' = pauseDepth - 1
        /\ budgetReason' = "none" /\ reobserve' = TRUE
        /\ UNCHANGED <<back, control, approval>>
  /\ UNCHANGED <<steps, capped, over, work>>

(* await adapter.interrupt() and the end of the finally block.             *)
Settle ==
  /\ pc = "closing"
  /\ Goto("ended")
  /\ UNCHANGED work

-----------------------------------------------------------------------------
(* Handlers of the daemon: the human, the cards, the clock.                *)

(* Mutant: one answer resumes the clock while another card is open.        *)
DrainedEarly(gone) == clockHeld

Drained(gone) == clockHeld /\ cards \subseteq gone

(* Every card in gone closes, the clock standing at depth: the "resolved"  *)
(* listener resumes it, and the state of a live run, when none is left.    *)
CloseCards(gone, depth, live) ==
  LET drained == Drained(gone)
  IN /\ cards' = cards \ gone
     /\ clockHeld' = (clockHeld /\ ~drained)
     /\ authCard' = IF authCard \in gone THEN NoCard ELSE authCard
     /\ state' = IF drained /\ live /\ state = "awaiting_approval" THEN "running" ELSE state
     /\ pauseDepth' = depth - Bit(drained)

(* Where the controller stands after the cards in gone closed.             *)
Woken(gone, granted) ==
  IF pc = "authorize" /\ authCard \in gone THEN (IF granted THEN "granted" ELSE "declined")
  ELSE IF pc = "approval" /\ cards \subseteq gone THEN "cleared"
  ELSE pc

OpenCard(c) ==
  /\ cards' = cards \cup {c}
  /\ IF ~clockHeld /\ ~aborted
     THEN /\ clockHeld' = TRUE /\ pauseDepth' = pauseDepth + 1
          /\ state' = "awaiting_approval"
     ELSE UNCHANGED <<clockHeld, pauseDepth, state>>
  /\ UNCHANGED <<back, control, limits, work, pc>>

(* The run the daemon attributes a request of the sandbox to.              *)
CurrentRun == state \notin Terminal

(* A gated command or a new host of the sandbox asks while the run lives.  *)
CardRequested(c) ==
  /\ Yielded /\ CurrentRun
  /\ c \in Cards \ cards
  /\ OpenCard(c)
  /\ UNCHANGED authCard

(* The policy of the call in progress asks.                                *)
ActionCardRequested(c) ==
  /\ Authorizing
  /\ c \in Cards \ cards
  /\ authCard' = c
  /\ OpenCard(c)

(* The human's answer, or the deny of the card's timer.                    *)
CardResolved(c, granted) ==
  /\ Yielded /\ c \in cards
  /\ CloseCards({c}, pauseDepth, ~aborted)
  /\ pc' = Woken({c}, granted)
  /\ UNCHANGED <<back, control, limits, work>>

PauseForHuman ==
  /\ Yielded /\ ~humanPause
  /\ state \notin Terminal \cup {"handoff", "budget_paused"}
  /\ humanPause' = TRUE
  /\ turnCurrent' = FALSE /\ callCurrent' = FALSE
  /\ CloseCards(cards, pauseDepth, ~aborted)
  /\ pc' = Woken(cards, FALSE)
  /\ UNCHANGED <<aborted, back, limits, work>>

(* Mutant: Stop does not wake a run parked at a limit.                     *)
StopWakesCards == IF pc = "handoff" THEN "unpark" ELSE Woken(cards, FALSE)

(* Stop wakes a parked run; its abort signal also ends waitForApprovals.   *)
StopWakes ==
  CASE pc = "handoff" -> "unpark"
    [] pc = "budget" -> "unbudget"
    [] OTHER -> Woken(cards, FALSE)

Stop ==
  /\ Yielded /\ ~aborted /\ state \notin Terminal
  /\ aborted' = TRUE
  /\ CloseCards(cards, pauseDepth + 1, FALSE)
  /\ pc' = StopWakes
  /\ UNCHANGED <<humanPause, turnCurrent, callCurrent, back, limits, work>>

(* "Give control back": the daemon asks the state first.                   *)
ResumeFromHandoff ==
  /\ pc = "handoff" /\ state = "handoff"
  /\ Goto("unpark")
  /\ UNCHANGED work

Granting(room, grant) == IF room = Unlimited THEN Unlimited ELSE (IF room < 0 THEN 0 ELSE room) + grant

Extend(action) ==
  CASE action = "add_steps" ->
         /\ turnsLeft' = Granting(turnsLeft, StepGrant)
         /\ toolsLeft' = Granting(toolsLeft, ToolGrant)
         /\ \A room \in {turnsLeft', toolsLeft'} : room \in Int => room <= RoomBound
         /\ UNCHANGED <<capped, over>>
    [] action = "unlimited_steps" ->
         /\ turnsLeft' = Unlimited /\ toolsLeft' = Unlimited
         /\ UNCHANGED <<capped, over>>
    [] action = "add_time" ->
         /\ capped' = capped \cup {"maxDurationMs"} /\ over' = over \ {"maxDurationMs"}
         /\ UNCHANGED steps
    [] action = "unlimited_time" ->
         /\ capped' = capped \ {"maxDurationMs"} /\ over' = over \ {"maxDurationMs"}
         /\ UNCHANGED steps
    [] action = "add_cost" ->
         /\ capped' = capped \cup {"maxCostUsd"} /\ over' = over \ {"maxCostUsd"}
         /\ UNCHANGED steps

Actions == {"add_steps", "unlimited_steps", "add_time", "unlimited_time", "add_cost"}

Offered(reason) ==
  CASE reason = "maxDurationMs" -> {"add_time", "unlimited_time"}
    [] reason = "maxCostUsd" -> {"add_cost"}
    [] OTHER -> {"add_steps", "unlimited_steps"}

ResumeBudget(action) ==
  /\ pc = "budget" /\ state = "budget_paused"
  /\ action \in Offered(budgetReason)
  /\ Extend(action)
  /\ pc' = "unbudget"
  /\ UNCHANGED <<state, back, control, budgetReason, reobserve, pauseDepth, approval, work>>

(* The active time passes its limit; it stands still while paused.         *)
TimeRunsOut ==
  /\ Yielded /\ pauseDepth = 0 /\ state \notin Terminal
  /\ "maxDurationMs" \in capped \ over
  /\ over' = over \cup {"maxDurationMs"}
  /\ UNCHANGED <<state, pc, back, control, steps, capped, budgetReason, reobserve, pauseDepth,
                 approval, work>>

(* A settled run stays as it is.                                           *)
Ended == pc = "ended" /\ UNCHANGED vars

-----------------------------------------------------------------------------
Segment ==
  \/ Start \/ StopSeen \/ LoopTop \/ FirstCheck \/ SendTurn \/ BatchDone \/ NextCall
  \/ Granted \/ Declined \/ Cleared \/ Vet \/ EndCall \/ Unpark \/ Unbudget

Reply ==
  \/ ModelReturns \/ ModelFails \/ CompactReturns
  \/ Authorized \/ Refused \/ PolicyHandsOff \/ PolicyThrows
  \/ ToolReturns \/ ToolHandsOff \/ ToolBreaks
  \/ Observed \/ ObserveFails \/ Settle

Human ==
  \/ PauseForHuman \/ Stop \/ ResumeFromHandoff
  \/ \E action \in Actions : ResumeBudget(action)

Sandbox ==
  \/ \E c \in Cards : CardRequested(c) \/ ActionCardRequested(c)
  \/ TimeRunsOut

Answer(c) == \E granted \in BOOLEAN : CardResolved(c, granted)

Next == Segment \/ Reply \/ Human \/ Sandbox \/ (\E c \in Cards : Answer(c)) \/ Ended

Spec == Init /\ [][Next]_vars

(* The event loop runs what is ready; every call the controller awaits has *)
(* a timeout or is aborted; every card has a timer.  The human, the clock  *)
(* and the sandbox owe nothing.                                            *)
FairSpec ==
  Spec /\ WF_vars(Segment) /\ WF_vars(Reply) /\ \A c \in Cards : WF_vars(Answer(c))

-----------------------------------------------------------------------------
(* Properties.                                                             *)

Waiting == pc \in {"handoff", "unpark", "budget", "unbudget", "approval", "cleared"}

(* Waiting for approvals, a handoff or a budget extension is not active    *)
(* time (USER_GUIDE.md), and nothing else is free: the nested pauses of    *)
(* BudgetTracker count exactly the reasons to wait, whatever the order in  *)
(* which handoffs, limits, cards and Stop begin and end them.              *)
ClockCountsWaiting ==
  /\ pauseDepth = Bit(Waiting) + Bit(clockHeld) + Bit(aborted)
  /\ clockHeld => cards # {}
  /\ cards # {} /\ ~aborted => clockHeld

(* The human's word stands between a model turn and its tools: when a tool *)
(* is called, no pause, handoff, limit or Stop has happened since the turn *)
(* that asked for it was sent, and no card of the run is open.             *)
OnlyCurrentPlansAct ==
  [][pc' = "execute" /\ pc # "execute"
       => turnCurrent /\ ~humanPause /\ ~aborted /\ cards = {}]_vars

(* A finished run never comes back to life: no late card, resume, pause or *)
(* Stop changes a terminal state.                                          *)
TerminalIsFinal == [][(state \in Terminal) => state' = state]_vars

(* A tool call stands in the ledger as "executing" only while the run is   *)
(* at that very call (run-controller.ts:334-393): never while the model is *)
(* asked, the human has control, a limit waits to be extended or the run   *)
(* is over.  A run that is over also has no card open and no pause that    *)
(* waits for its answer; a run in the human's hands may have a card, which *)
(* a command already running in the sandbox asked for.                     *)
LedgerClosed ==
  /\ row = "executing" => pc \in {"approval", "cleared", "vet", "execute"} /\ state \notin Terminal
  /\ state \in Terminal => cards = {} /\ ~humanPause

(* pauseForHuman is answered only after all in-flight work is finished and *)
(* the run is parked or has ended (run-controller.ts:77).                  *)
PauseAnsweredAtRest ==
  [][humanPause /\ ~humanPause' => pc' \in {"handoff", "budget", "closing", "ended"}]_vars

(* Limits are checked between calls: turns and tool calls never pass the   *)
(* limits in force.                                                        *)
NeverOverspent ==
  /\ turnsLeft \in Int => turnsLeft >= 0
  /\ toolsLeft \in Int => toolsLeft >= 0

(* After a park the model is told so before it plans again: the request    *)
(* carries a notice, a skipped or resumed call, or a goal that asks to     *)
(* re-observe.                                                             *)
ModelNeverBlind == pc = "model" => ~blind

(* Stop is honoured: the run settles, or it parked after Stop and waits.   *)
StopSettlesOrParks == aborted ~> pc \in {"ended", "handoff"}

(* pauseForHuman brings the run to rest: it is answered, or the run waits  *)
(* parked (a park that a card has hidden does not answer it), provided the *)
(* sandbox does not open ever new cards, for all of which the call waits.  *)
PauseBringsRest ==
  <>[][cards' \subseteq cards]_cards => (humanPause ~> ~humanPause \/ pc \in {"handoff", "budget"})

(* The books of a run agree at every step: the clock with the reasons to   *)
(* wait, the ledger with the state that is shown, the steps with their     *)
(* limits.                                                                 *)
Accounts == TypeOK /\ ClockCountsWaiting /\ LedgerClosed /\ NeverOverspent

(* What the human asks of a run is answered in the end: Stop by its end,   *)
(* a pause by rest.                                                        *)
HumanIsAnswered == StopSettlesOrParks /\ PauseBringsRest

(* Not kept by the code, which parks a stopped run (run-controller.ts:347): *)
(* pressing Stop during any step ends the run (terminal-stage-design.md    *)
(* :24).  StopSettlesOrParks is what holds.                                *)
StopEndsRun == aborted ~> state \in Terminal

(* Not kept by the code, in which a card overwrites the state of a parked  *)
(* run: "Give control back" resumes a parked run with a fresh observation  *)
(* (policy/lease.ts:36, ipc.ts:533): with no card open, a run that waits   *)
(* in a handoff, its human not asking for more, shows the state the daemon *)
(* resumes from.                                                           *)
ParkedRunIsResumable ==
  pc = "handoff" /\ cards = {} /\ ~aborted /\ ~humanPause => state = "handoff"

(* A run implements HumanControl: a tool call is acting, a handoff and a   *)
(* limit pause are parks, a turn sent after the last control change is a   *)
(* fresh plan.                                                             *)
Phase ==
  IF state \in Terminal THEN "ended"
  ELSE IF pc = "execute" THEN "acting"
  ELSE IF pc \in {"handoff", "budget"} THEN "parked"
  ELSE "thinking"
PlanAge == IF turnCurrent THEN "fresh" ELSE "stale"

Promise == INSTANCE HumanControl WITH phase <- Phase, plan <- PlanAge, asked <- humanPause
ImplementsHumanControl == Promise!Spec
=============================================================================
