---------------------------- MODULE BudgetTracker ----------------------------
(***************************************************************************)
(* The budget of a run: orchestrator/budgets.ts, as run-controller.ts uses *)
(* it.  Time, turns, tool calls and cost are exact here; RunController     *)
(* keeps only what is left of the steps and which other limit has been     *)
(* passed.                                                                 *)
(*                                                                         *)
(* The limits are a function: null (switched off) is None.                 *)
(***************************************************************************)
EXTENDS Integers

CONSTANTS
  None,         (* A limit switched off, and pausedAt undefined.            *)
  Starts,       (* Limits and usage a run may start with: its settings and  *)
                (* nothing used, or what the checkpoint it continues says.  *)
  Grant,        (* What one extension adds to each limit.                   *)
  MaxTurnCost,  (* The most one model turn costs.                           *)
  MaxNow,       (* Bound of the model: the clock stops here.                *)
  MaxDepth,     (* Bound of the model: pauses open at once.                 *)
  MaxUsed       (* Bound of the model: turns and tool calls.                *)

Steps == {"maxTurns", "maxToolCalls"}
Limits == Steps \cup {"maxDurationMs", "maxCostUsd"}

ASSUME NoneAssumption == None \notin Int \cup Limits
ASSUME BudgetAssumption ==
  /\ Starts \subseteq [limit : [Limits -> Nat \cup {None}], used : [Limits -> Nat]]
  /\ Grant \in [Limits -> Nat \ {0}]
  /\ MaxTurnCost \in Nat

(* A checkpoint was saved by a run under the limits it holds.              *)
ASSUME StartAssumption ==
  \A s \in Starts : s.limit["maxCostUsd"] # None =>
    s.used["maxCostUsd"] <= s.limit["maxCostUsd"] + MaxTurnCost

VARIABLES
  now,         (* Date.now().                                               *)
  startedAt,
  pausedAt,
  pausedMs,
  pauseDepth,
  carriedMs,   (* Active time of the runs this one continues.               *)
  used,        (* turns, toolCalls, costUsd, under the name of their limit. *)
  limit,       (* budgets.                                                  *)
  reason,      (* budgetReason: the limit the run is parked at, or None.    *)
  active       (* History: time that passed with no pause open.             *)

clock == <<startedAt, pausedAt, pausedMs, pauseDepth, carriedMs>>
vars == <<now, clock, used, limit, reason, active>>

Larger(a, b) == IF a > b THEN a ELSE b

ElapsedMs == carriedMs + (IF pausedAt = None THEN now ELSE pausedAt) - startedAt - pausedMs

Used(l) == IF l = "maxDurationMs" THEN ElapsedMs ELSE used[l]

(* check(): cost may reach its limit, the others may not.                  *)
Reached(l) ==
  /\ limit[l] # None
  /\ IF l = "maxCostUsd" THEN Used(l) > limit[l] ELSE Used(l) >= limit[l]

(* The limits a check asks: turns only before the model is called.         *)
Checked(phase) == IF phase = "model" THEN Limits ELSE Limits \ {"maxTurns"}

(* The limits in the order check() asks.                                   *)
Rank == [l \in Limits |-> CASE l = "maxTurns" -> 1 [] l = "maxToolCalls" -> 2
                            [] l = "maxDurationMs" -> 3 [] OTHER -> 4]

TypeOK ==
  /\ now \in Nat /\ startedAt \in Nat /\ pausedAt \in Nat \cup {None}
  /\ pausedMs \in Nat /\ pauseDepth \in Nat /\ carriedMs \in Nat
  /\ used \in [Limits -> Nat]
  /\ limit \in [Limits -> Nat \cup {None}]
  /\ reason \in Limits \cup {None}
  /\ active \in Nat

Init ==
  /\ now = 0 /\ startedAt = now
  /\ pausedAt = None /\ pausedMs = 0 /\ pauseDepth = 0
  /\ \E s \in Starts : limit = s.limit /\ used = s.used
  /\ carriedMs = used["maxDurationMs"]
  /\ reason = None
  /\ active = carriedMs

-----------------------------------------------------------------------------
(* Mutant: every pause moves the point the clock stands at.                *)
StandsSince == now

PausedSince == IF pauseDepth = 0 THEN now ELSE pausedAt

Tick ==
  /\ now < MaxNow
  /\ now' = now + 1
  /\ active' = IF pauseDepth = 0 THEN active + 1 ELSE active
  /\ UNCHANGED <<clock, used, limit, reason>>

(* A wait begins: cards, a handoff, a limit, Stop; they overlap freely.    *)
PauseClock ==
  /\ pauseDepth < MaxDepth
  /\ pauseDepth' = pauseDepth + 1
  /\ pausedAt' = PausedSince
  /\ UNCHANGED <<now, startedAt, pausedMs, carriedMs, used, limit, reason, active>>

(* One of the pauses is the limit's own; resuming without any does nothing.*)
Resumable == pauseDepth > (IF reason = None THEN 0 ELSE 1)

ResumeClock ==
  /\ Resumable
  /\ pauseDepth' = pauseDepth - 1
  /\ IF pauseDepth = 1
     THEN /\ pausedMs' = pausedMs + now - pausedAt
          /\ pausedAt' = None
     ELSE UNCHANGED <<pausedMs, pausedAt>>
  /\ UNCHANGED <<now, startedAt, carriedMs, used, limit, reason, active>>

Clear(phase) == \A l \in Checked(phase) : ~Reached(l)

(* One model turn: checked, then counted and billed.                       *)
Turn(cost) ==
  /\ reason = None /\ Clear("model")
  /\ used["maxTurns"] < MaxUsed
  /\ used' = [used EXCEPT !["maxTurns"] = @ + 1, !["maxCostUsd"] = @ + cost]
  /\ UNCHANGED <<now, clock, limit, reason, active>>

ToolCall ==
  /\ reason = None /\ Clear("tool")
  /\ used["maxToolCalls"] < MaxUsed
  /\ used' = [used EXCEPT !["maxToolCalls"] = @ + 1]
  /\ UNCHANGED <<now, clock, limit, reason, active>>

(* checkBudget parks the run at the first limit reached and pauses.        *)
ParkAt(l, phase) ==
  /\ reason = None
  /\ l \in Checked(phase) /\ Reached(l)
  /\ \A k \in Checked(phase) : Reached(k) => Rank[l] <= Rank[k]
  /\ pauseDepth < MaxDepth
  /\ reason' = l
  /\ pauseDepth' = pauseDepth + 1
  /\ pausedAt' = PausedSince
  /\ UNCHANGED <<now, startedAt, pausedMs, carriedMs, used, limit, active>>

-----------------------------------------------------------------------------
(* extend().                                                               *)

(* Mutant: the allowance is added to the limit, however far it was passed. *)
RaisedFromLimit(l) == (IF limit[l] = None THEN 0 ELSE limit[l]) + Grant[l]

Raised(l) == Larger(IF limit[l] = None THEN 0 ELSE limit[l], Used(l)) + Grant[l]

Actions == {"add_steps", "unlimited_steps", "add_time", "unlimited_time", "add_cost"}

Extended(action) ==
  CASE action = "add_steps" ->
         [l \in Limits |-> IF l \in Steps /\ limit[l] # None THEN Raised(l) ELSE limit[l]]
    [] action = "unlimited_steps" ->
         [l \in Limits |-> IF l \in Steps THEN None ELSE limit[l]]
    [] action = "add_time" ->
         [limit EXCEPT !["maxDurationMs"] = Raised("maxDurationMs")]
    [] action = "unlimited_time" ->
         [limit EXCEPT !["maxDurationMs"] = None]
    [] action = "add_cost" ->
         [limit EXCEPT !["maxCostUsd"] = Raised("maxCostUsd")]

Offered(l) ==
  CASE l = "maxDurationMs" -> {"add_time", "unlimited_time"}
    [] l = "maxCostUsd" -> {"add_cost"}
    [] OTHER -> {"add_steps", "unlimited_steps"}

(* resumeBudget: the run goes on with the extended limits.                 *)
ResumeBudget(action) ==
  /\ reason # None
  /\ action \in Offered(reason)
  /\ limit' = Extended(action)
  /\ reason' = None
  /\ pauseDepth' = pauseDepth - 1
  /\ IF pauseDepth = 1
     THEN /\ pausedMs' = pausedMs + now - pausedAt
          /\ pausedAt' = None
     ELSE UNCHANGED <<pausedMs, pausedAt>>
  /\ UNCHANGED <<now, startedAt, carriedMs, used, active>>

Next ==
  \/ Tick \/ PauseClock \/ ResumeClock \/ ToolCall
  \/ \E cost \in 0 .. MaxTurnCost : Turn(cost)
  \/ \E l \in Limits, phase \in {"model", "tool"} : ParkAt(l, phase)
  \/ \E action \in Actions : ResumeBudget(action)

Spec == Init /\ [][Next]_vars

-----------------------------------------------------------------------------
(* The clock, read off three numbers that pauses and resumes rewrite, is   *)
(* the time that passed while nothing was waited for, plus what earlier    *)
(* runs of the conversation used (budgets.ts:44-51).                       *)
ElapsedIsActive == ElapsedMs = active

(* An extension gets the run past the limit it was parked at, however far  *)
(* the limit had been passed: resuming never parks at the same limit again *)
(* before anything is spent (budgets.ts:56-63).                            *)
ExtensionLifts ==
  [][\A l \in Limits : reason = l /\ reason' = None => ~Reached(l)']_vars

(* The human's extensions only widen: no limit shrinks, and one that was   *)
(* switched off stays off (run-controller.ts:129-131).                     *)
OnlyWidens ==
  [][\A l \in Limits : limit'[l] # limit[l] =>
       limit[l] # None /\ (limit'[l] = None \/ limit'[l] > limit[l])]_vars

(* What a turn costs is known only once it is billed: the limit on cost is *)
(* passed by one turn at most, over a whole conversation.                  *)
CostOvershootsByOneTurn ==
  limit["maxCostUsd"] # None => used["maxCostUsd"] <= limit["maxCostUsd"] + MaxTurnCost

(* What the human allowed a run is what it gets: active time, and cost     *)
(* that passes its limit by at most what one turn costs.                   *)
BudgetHolds == ElapsedIsActive /\ CostOvershootsByOneTurn
=============================================================================
