------------------------------- MODULE JevTask -------------------------------
(***************************************************************************)
(* Browser delegation: orchestrator/jev-browser.ts and browser-auto.ts, as *)
(* run-controller.ts:312-463 runs them.  The planner hands one tool call   *)
(* to a loop of its own, which looks at the page, lets the Jev model (or   *)
(* the plan of a batch) choose, and acts through child calls that pass the *)
(* budget, the policy and the human's control one by one.                  *)
(*                                                                         *)
(* The run's budget is BudgetTracker, extended here: between a check and   *)
(* the bill lies an await, so turns and calls are added without a guard.   *)
(*                                                                         *)
(* Data abstractions.  controlRevision is only compared with copies taken  *)
(* earlier: current says the delegation's copy still equals it, and with   *)
(* it the later copy of the child call in hand.  A page is what            *)
(* progressFingerprint and the batch's comparison tell apart, leaving out  *)
(* the batch's own edits.                                                  *)
(* An action is "use" (click or type, settled in auto) or "wait" (the      *)
(* rest).  One turn of the planner asks for one tool call.                 *)
(***************************************************************************)
EXTENDS BudgetTracker

CONSTANTS
  Strategies,  (* "hybrid", "first" and "auto": the browser engines.        *)
  Engines,     (* Which of them run under which limits.                     *)
  Views,       (* What the page shows.                                      *)
  MaxSteps,    (* maxSteps of a browser_task.                               *)
  MaxPlan,     (* Bound of the model: actions in a batch.                   *)
  MaxRetries,  (* Stale decisions in a row that are replaced (2 in auto).   *)
  JevTries,    (* JevConfig.maxRetries: 0 or 1.                             *)
  MaxMoves,    (* Bound of the model: times the page changes by itself.     *)
  MaxAsks      (* Bound of the model: tool calls the planner asks for.      *)

ASSUME JevAssumption == {MaxSteps, MaxPlan, MaxRetries, JevTries, MaxMoves, MaxAsks} \subseteq Nat

VARIABLES
  strategy,
  at,          (* Where the run stands.                                     *)
  back,        (* Where a park or a wait returns to.                        *)
  t,           (* The tool call in hand.                                    *)
  current,     (* No control change since t began.                          *)
  paused,      (* humanPause.                                               *)
  aborted,
  fallback,    (* checkpoint.browserFallback.                               *)
  view,
  base,        (* browser.lastObservation.                                  *)
  moves,
  asks,        (* How often the planner was asked.                          *)
  told,        (* History: what the last browser_task reported.             *)
  spoilt,      (* History: an action of t failed.                           *)
  looked       (* History: t has observed the page since its last action.   *)

page == <<view, base, moves, asks>>
control == <<current, paused, aborted>>
task == <<strategy, at, back, t, control, fallback, page, told, spoilt, looked>>

Kinds == {"use", "wait"}
Children == {"navigate", "observe", "act", "settle", "look", "try", "direct", "peek",
             "evidence", "read"}

(* Locals of runBrowserTask and runBrowserBatch; those a tool does not     *)
(* have keep the value they start with.                                    *)
Fresh(tool) ==
  [tool |-> tool, child |-> "none", kind |-> "wait", step |-> 0, stale |-> 0,
   plan |-> 0, bare |-> FALSE, plannedOn |-> None, status |-> "none", tries |-> 0,
   states |-> [v \in Views |-> 0], seen |-> [v \in Views, k \in Kinds |-> 0]]

JevTypeOK ==
  /\ TypeOK
  /\ strategy \in Strategies
  /\ at \in {"loop", "asked", "called", "gate", "vet", "sent", "check", "decide",
             "report", "budget", "card", "handoff", "resumed", "ended"}
  /\ t.child \in Children \cup {"none"} /\ t.step \in 0 .. Larger(MaxSteps, MaxPlan) /\ t.tries \in 0 .. JevTries
  /\ view \in Views /\ moves \in 0 .. MaxMoves
  /\ told \in {"none", "needs_help", "completion_candidate"}

JevInit ==
  /\ Init
  /\ strategy \in Strategies /\ <<strategy, limit>> \in Engines
  /\ at = "loop" /\ back = "loop"
  /\ current = FALSE /\ paused = FALSE /\ aborted = FALSE
  /\ fallback \in BOOLEAN  (* As the checkpoint has it that is continued. *)
  /\ told = (IF fallback THEN "needs_help" ELSE "none") /\ spoilt = FALSE /\ looked = FALSE
  /\ view \in Views /\ base = view /\ moves = 0 /\ asks = 0
  /\ t = Fresh("none")

-----------------------------------------------------------------------------
(* The budget as the delegation uses it.                                   *)

(* addTurn and addCost: billed when the answer is there.                   *)
Bill(cost) ==
  /\ used' = [used EXCEPT !["maxTurns"] = @ + 1, !["maxCostUsd"] = @ + cost]
  /\ UNCHANGED <<now, clock, limit, reason, active>>

Counted ==
  /\ used' = [used EXCEPT !["maxToolCalls"] = @ + 1]
  /\ UNCHANGED <<now, clock, limit, reason, active>>

(* Mutant: a model is asked without a look at the budget.                  *)
PassedUnchecked(phase) == reason = None /\ ~aborted /\ (phase = "model" \/ Clear(phase))

(* checkBudget lets the run go on.                                         *)
Passed(phase) == reason = None /\ ~aborted /\ Clear(phase)

(* Where a model call or a child call is about to be made.                 *)
PhaseAt ==
  [a \in {"loop", "check", "called", "gate"} |-> IF a \in {"loop", "check"} THEN "model" ELSE "tool"]

(* checkBudget parks: the copies taken are out of date, and a takeover     *)
(* that waits for the run to rest is answered.                             *)
Park ==
  /\ at \in DOMAIN PhaseAt /\ ~aborted
  /\ at = "loop" => ~paused
  /\ \E l \in Limits : ParkAt(l, PhaseAt[at])
  /\ back' = at /\ at' = "budget"
  /\ current' = FALSE /\ paused' = FALSE
  /\ UNCHANGED <<strategy, t, aborted, fallback, page, told, spoilt, looked>>

Extend ==
  /\ at = "budget" /\ ~aborted
  /\ \E action \in Actions : ResumeBudget(action)
  /\ at' = back /\ back' = "loop"
  /\ UNCHANGED <<strategy, t, control, fallback, page, told, spoilt, looked>>

-----------------------------------------------------------------------------
(* The planner's loop.                                                     *)

(* current(): the delegation may go on.                                    *)
Current == current /\ ~paused /\ ~aborted

Ask ==
  /\ at = "loop" /\ ~paused /\ Passed("model")
  /\ asks < MaxAsks /\ asks' = asks + 1
  /\ at' = "asked" /\ current' = TRUE
  /\ UNCHANGED <<strategy, back, t, paused, aborted, fallback, view, base, moves, told, spoilt,
                 looked, vars>>

(* What modelTools offers, and browser_act, which only hybrid offers and   *)
(* a model may name all the same.                                          *)
Tools ==
  {"browser_task", "browser_act"} \cup
  (CASE strategy = "auto" -> {"browser_batch"}
     [] strategy = "first" -> {"browser_fallback"}
     [] OTHER -> {})

Answer ==
  /\ at = "asked" /\ ~aborted
  /\ \E cost \in 0 .. MaxTurnCost : Bill(cost)
  /\ \/ at' = "called" /\ \E tool \in Tools : t' = Fresh(tool)
     \/ at' = "ended" /\ UNCHANGED t
  /\ spoilt' = FALSE /\ looked' = FALSE
  /\ UNCHANGED <<strategy, back, control, fallback, page, told>>

(* A call whose turn is out of date is skipped, and not counted.           *)
SkipCall ==
  /\ at = "called" /\ Passed("tool") /\ ~Current
  /\ at' = "loop" /\ t' = Fresh("none")
  /\ UNCHANGED <<strategy, back, control, fallback, page, told, spoilt, looked, vars>>

(* A call that runTool, or the tool's own first lines, refuse: an action or *)
(* a wait without the permission.                                          *)
Refused(tool) ==
  \/ tool = "browser_act" /\ strategy # "hybrid"
  \/ tool = "browser_fallback" /\ ~fallback

RefuseCall ==
  /\ at = "called" /\ Passed("tool") /\ Current
  /\ Refused(t.tool)
  /\ at' = "loop" /\ t' = Fresh("none") /\ Counted
  /\ UNCHANGED <<strategy, back, control, fallback, page, told, spoilt, looked>>

Child(name, r) == at' = "gate" /\ t' = [r EXCEPT !.child = name]

(* finish(): first and auto look at the page once more, by themselves.     *)
Finish(status, r) ==
  LET closing == [Fresh(r.tool) EXCEPT !.status = status] IN
  IF strategy # "hybrid" /\ Current THEN Child("evidence", closing)
                                    ELSE at' = "report" /\ t' = closing

(* The event browser.task: a task that needs help allows a fallback.       *)
ReportsTask(status) == fallback' = (fallback \/ status = "needs_help") /\ told' = status

(* Mutant: whoever got control during the evidence, the task is done.      *)
StatusAtFinish == t.status

(* A task that lost control while it looked needs help after all.          *)
TaskStatus == IF Current THEN t.status ELSE "needs_help"

Report ==
  /\ at = "report"
  /\ IF t.tool = "browser_task" THEN ReportsTask(TaskStatus) ELSE UNCHANGED <<fallback, told>>
  /\ at' = "loop" /\ t' = Fresh("none") /\ Counted
  /\ UNCHANGED <<strategy, back, control, page, spoilt, looked>>

-----------------------------------------------------------------------------
(* runBrowserTask.                                                         *)

(* The head of the loop.  An aborted run throws, at the next gate.         *)
Round(step, r) ==
  LET next == [r EXCEPT !.step = step] IN
  IF step = MaxSteps THEN Finish("needs_help", r)
  ELSE IF Current \/ aborted THEN Child("observe", next) ELSE Finish("needs_help", next)

(* Mutant: what an earlier task needed stays on the checkpoint.            *)
KeepsFallback == UNCHANGED fallback

(* runHybrid: a new task takes the permission of an earlier one back.      *)
TakesFallback == fallback' = FALSE

BeginTask ==
  /\ at = "called" /\ t.tool = "browser_task" /\ Passed("tool") /\ Current
  /\ TakesFallback
  /\ \/ strategy # "hybrid" /\ Child("navigate", t)
     \/ Round(0, t)
  /\ UNCHANGED <<strategy, back, control, page, told, spoilt, looked, vars>>

(* A page seen for the third time is a cycle, whatever was done to it.     *)
Cycle(r) == strategy = "auto" /\ r.states[view] >= 3

Observed ==
  LET r == IF strategy = "auto" THEN [t EXCEPT !.states[view] = @ + 1] ELSE t IN
  IF Cycle(r) THEN Finish("needs_help", r)
  ELSE \/ at' = "check" /\ t' = [r EXCEPT !.child = "none", !.kind = "wait"]
       \/ Finish("needs_help", r)  (* No controls, or nothing to read.     *)

(* beforeDecision: a park in it has changed the control.                   *)
Decides ==
  /\ at = "check" /\ Passed("model")
  /\ IF Current THEN at' = "decide" /\ UNCHANGED t ELSE Finish("needs_help", t)
  /\ UNCHANGED <<strategy, back, control, fallback, page, told, spoilt, looked, vars>>

(* JevClient.evaluate() asks once more of a model that is overloaded, in   *)
(* the same deadline.                                                      *)
JevRetries ==
  /\ at = "decide" /\ ~aborted
  /\ t.tries < JevTries
  /\ t' = [t EXCEPT !.tries = @ + 1]
  /\ UNCHANGED <<strategy, at, back, control, fallback, page, told, spoilt, looked, vars>>

(* The task ends with the evidence of the page, and nothing is billed.     *)
NoDecision == Finish("needs_help", t)

(* evaluate() throws: too large a question, another status, the deadline,  *)
(* a reply that is too long, not JSON, or no distribution over the choices *)
(* that were offered.                                                      *)
JevFails ==
  /\ at = "decide" /\ ~aborted
  /\ NoDecision
  /\ UNCHANGED <<strategy, back, control, fallback, page, told, spoilt, looked, vars>>

Acts(kind) ==
  LET r == [t EXCEPT !.kind = kind, !.seen[<<base, kind>>] = @ + 1, !.tries = 0] IN
  IF r.seen[base, kind] > 2 THEN Finish("needs_help", t) ELSE Child("act", r)

Reply ==
  /\ at = "decide" /\ ~aborted
  /\ \E cost \in 0 .. MaxTurnCost : Bill(cost)
  /\ IF Current
     THEN \/ Finish("needs_help", t)            (* Uncertain, or BLOCKED. *)
          \/ Finish("completion_candidate", t)  (* DONE.                  *)
          \/ \E kind \in Kinds : Acts(kind)
     ELSE Finish("needs_help", t)
  /\ UNCHANGED <<strategy, back, control, fallback, page, told, spoilt, looked>>

(* Mutant: whatever failed is planned again.                               *)
ReplansAny(outcome) == strategy = "auto" /\ t.stale < MaxRetries /\ Current

(* Only an action the worker refused before it did anything is replaced.   *)
Replans(outcome) == outcome = "stale" /\ strategy = "auto" /\ t.stale < MaxRetries /\ Current

Acted(outcome) ==
  IF outcome = "ok" /\ Current
  THEN LET r == [t EXCEPT !.stale = 0, !.kind = "wait"] IN
       IF strategy = "auto" /\ t.kind = "use" THEN Child("settle", r) ELSE Round(t.step + 1, r)
  ELSE IF Replans(outcome) THEN Round(t.step + 1, [t EXCEPT !.stale = @ + 1, !.kind = "wait"])
  ELSE Finish("needs_help", t)

-----------------------------------------------------------------------------
(* runBrowserBatch.                                                        *)

(* The next action of the plan.  With more than one, each that names a     *)
(* control waits for a look at the page; the last may name none.           *)
BatchRound(r) ==
  IF r.step = r.plan THEN Finish("completion_candidate", r)
  ELSE IF ~(Current \/ aborted) THEN Finish("needs_help", r)
  ELSE IF r.plan > 1 /\ ~(r.bare /\ r.step = r.plan - 1) THEN Child("look", r)
  ELSE Child("try", r)

(* A plan is run, or it cannot be run as one: a navigation before its end, *)
(* a control that base does not have, a secret field, or one edited twice. *)
Planned ==
  \/ Finish("needs_help", t)
  \/ \E n \in 0 .. MaxPlan, bare \in BOOLEAN :
       BatchRound([t EXCEPT !.plan = n, !.bare = bare, !.plannedOn = base])

BeginBatch ==
  /\ at = "called" /\ t.tool = "browser_batch" /\ Passed("tool") /\ Current
  /\ Planned
  /\ UNCHANGED <<strategy, back, control, fallback, page, told, spoilt, looked, vars>>

(* Mutant: the page is looked at, and not compared.                        *)
UnchangedAlways == TRUE

(* Apart from the batch's own edits the page is what the plan was made on. *)
Unchanged == view = t.plannedOn

Looked ==
  IF Current /\ Unchanged THEN Child("try", t) ELSE Finish("needs_help", t)

Tried(outcome) ==
  IF outcome = "ok" /\ Current THEN BatchRound([t EXCEPT !.step = @ + 1])
                               ELSE Finish("needs_help", t)

-----------------------------------------------------------------------------
(* runBrowserChild and runTool, for a child call.                          *)

(* The direct tools: browser_act in hybrid, and runFallback's one child,   *)
(* which may always be a look at the page.                                 *)
BeginDirect ==
  /\ at = "called" /\ t.tool \in {"browser_act", "browser_fallback"}
  /\ Passed("tool") /\ Current
  /\ \/ ~Refused(t.tool) /\ Child("direct", t)
     \/ t.tool = "browser_fallback" /\ Child("peek", t)
  /\ UNCHANGED <<strategy, back, control, fallback, page, told, spoilt, looked, vars>>

(* What the child returned is the result, without any evidence.            *)
Inspected == at' = "report" /\ t' = Fresh(t.tool)

(* captureBrowserEvidence(): an observation, then a read, whatever comes   *)
(* of them.                                                                *)
Captured ==
  IF t.child = "evidence" /\ Current THEN Child("read", t)
  ELSE at' = "report" /\ t' = [t EXCEPT !.child = "none"]

(* What follows a child call.  A read of the page changes nothing.         *)
Continue(outcome) ==
  LET fine == outcome = "ok" /\ Current IN
  CASE t.child = "navigate" -> IF fine THEN Round(0, t) ELSE Finish("needs_help", t)
    [] t.child = "observe" -> IF fine THEN Observed ELSE Finish("needs_help", t)
    [] t.child = "act" -> Acted(outcome)
    [] t.child = "settle" -> IF fine THEN Round(t.step + 1, t) ELSE Finish("needs_help", t)
    [] t.child = "look" -> IF outcome = "ok" THEN Looked ELSE Finish("needs_help", t)
    [] t.child = "try" -> Tried(outcome)
    [] t.child = "direct" -> Finish("none", t) \/ Inspected  (* An action, or a wait. *)
    [] t.child = "peek" -> Inspected
    [] t.child \in {"evidence", "read"} -> Captured

Mutating == {"navigate", "act", "settle", "try", "direct"}
Failed(outcome) == t.child \in {"act", "try"} /\ outcome \notin {"ok", "stale"}

Returns(outcome) ==
  /\ Continue(outcome)
  /\ spoilt' = (spoilt \/ Failed(outcome))

(* runBrowserChild's own look at the control, after its budget.            *)
HasControl == Current

Cleared ==
  /\ at = "gate" /\ Passed("tool") /\ HasControl
  /\ at' = "vet"
  /\ UNCHANGED <<strategy, back, t, current, paused, aborted, fallback, page, told, spoilt,
                 looked, vars>>

Skipped ==
  /\ at = "gate" /\ Passed("tool") /\ ~HasControl
  /\ Returns("skipped")
  /\ UNCHANGED <<strategy, back, control, fallback, page, told, looked, vars>>

(* The policy asks the human: the clock stands, and runs on when answered. *)
OpenCard ==
  /\ at = "vet" /\ t.child \in Mutating \ {"settle"} /\ ~aborted
  /\ PauseClock
  /\ at' = "card"
  /\ UNCHANGED <<strategy, back, t, control, fallback, page, told, spoilt, looked>>

CloseCard ==
  /\ at = "card" /\ ~aborted
  /\ ResumeClock
  /\ at' = "vet"
  /\ UNCHANGED <<strategy, back, t, control, fallback, page, told, spoilt, looked>>

(* Mutant: runTool trusts the check of before the policy was asked.        *)
MaySendEarly == ~aborted

(* runTool's check, after the policy and the cards.                        *)
MaySend == Current

Send ==
  /\ at = "vet" /\ MaySend
  /\ at' = "sent"
  /\ UNCHANGED <<strategy, back, t, control, fallback, page, told, spoilt, looked, vars>>

(* The policy or the human said no, or control was lost meanwhile.         *)
Denied ==
  /\ at = "vet" /\ ~aborted
  /\ Counted /\ Returns(IF MaySend THEN "denied" ELSE "error")
  /\ UNCHANGED <<strategy, back, control, fallback, page, told, looked>>

(* A denial that hands over: the run waits inside the child call.          *)
HandOff ==
  /\ \/ at = "vet" /\ ~aborted /\ t.child \in Mutating \ {"settle"}
     \/ at = "loop" /\ paused /\ ~aborted
  /\ PauseClock
  /\ back' = (IF at = "vet" THEN "resumed" ELSE "loop") /\ at' = "handoff"
  /\ current' = FALSE /\ paused' = FALSE
  /\ UNCHANGED <<strategy, t, aborted, fallback, page, told, spoilt, looked>>

HandBack ==
  /\ at = "handoff" /\ ~aborted
  /\ ResumeClock
  /\ at' = back /\ back' = "loop"
  /\ UNCHANGED <<strategy, t, control, fallback, page, told, spoilt, looked>>

(* The child call's result says that the human has been there.             *)
Resumed ==
  /\ at = "resumed" /\ ~aborted
  /\ Counted /\ Returns("resumed")
  /\ UNCHANGED <<strategy, back, control, fallback, page, told, looked>>

(* What the worker did: an action may change the page, and only one that   *)
(* names a control of a page that has moved on can be stale.               *)
Performed ==
  /\ at = "sent" /\ ~aborted
  /\ Counted
  /\ \/ /\ Returns("ok")
        /\ IF t.child \in Mutating THEN view' \in Views /\ UNCHANGED base
           ELSE base' = view /\ UNCHANGED view
     \/ /\ Returns("error")
        /\ IF t.child \in Mutating THEN view' \in Views ELSE UNCHANGED view
        /\ UNCHANGED base
     \/ /\ t.child \in {"act", "try", "direct"} /\ Returns("stale")
        /\ UNCHANGED <<view, base>>
  /\ looked' = (t.child = "observe")
  /\ UNCHANGED <<strategy, back, control, fallback, moves, asks, told>>

-----------------------------------------------------------------------------
(* The human, the page and the clock.                                      *)

Yielded == at # "report"

Takeover ==
  /\ Yielded /\ at \notin {"handoff", "budget", "ended"} /\ ~paused /\ ~aborted
  /\ paused' = TRUE /\ current' = FALSE
  /\ UNCHANGED <<strategy, at, back, t, aborted, fallback, page, told, spoilt, looked, vars>>

(* stop() stops the clock; whatever the run waits for then throws.         *)
Stop ==
  /\ Yielded /\ at # "ended" /\ ~aborted
  /\ PauseClock
  /\ aborted' = TRUE
  /\ UNCHANGED <<strategy, at, back, t, current, paused, fallback, page, told, spoilt,
                 looked>>

Throws ==
  /\ aborted /\ at \notin {"report", "ended"}
  /\ IF at \in {"card", "handoff", "budget"} THEN ResumeClock ELSE UNCHANGED vars
  /\ at' = "ended" /\ back' = "loop" /\ t' = Fresh("none")
  /\ UNCHANGED <<strategy, control, fallback, page, told, spoilt, looked>>

PageMoves ==
  /\ Yielded /\ at # "ended" /\ moves < MaxMoves
  /\ view' \in Views \ {view} /\ moves' = moves + 1
  /\ UNCHANGED <<strategy, at, back, t, control, fallback, base, asks, told, spoilt, looked, vars>>

TimePasses ==
  /\ Yielded /\ at # "ended" /\ limit["maxDurationMs"] # None /\ Tick
  /\ UNCHANGED task

JevNext ==
  \/ Park \/ Extend \/ Ask \/ Answer \/ SkipCall \/ RefuseCall \/ Report
  \/ BeginTask \/ Decides \/ JevRetries \/ JevFails \/ Reply \/ BeginBatch \/ BeginDirect
  \/ Cleared \/ Skipped \/ OpenCard \/ CloseCard \/ Send \/ Denied \/ HandOff \/ HandBack
  \/ Resumed \/ Performed \/ Takeover \/ Stop \/ Throws \/ PageMoves \/ TimePasses

JevSpec == JevInit /\ [][JevNext]_<<task, vars>>

-----------------------------------------------------------------------------
Sends(children) == at = "vet" /\ at' = "sent" /\ t.child \in children

(* While a human has the browser, or after a limit or a handoff let one    *)
(* have it, nothing of a delegation begun before reaches the page: each    *)
(* child call is checked again behind every await in front of it           *)
(* (run-controller.ts:358, :415).                                          *)
ActsUnderItsControl == [][(Sends(Children)) => Current]_<<task, vars>>

(* An action that failed in any way but being refused as stale is the last *)
(* of its delegation; a task chooses none on a page it has not looked at   *)
(* since the one before, and a batch none but its last on a page that is   *)
(* not the one it was planned on (jev-browser.ts:170-177,                  *)
(* browser-auto.ts:70-98).                                                 *)
Compared == t.plan > 1 /\ ~(t.bare /\ t.step = t.plan - 1)

NeverReplaysBlindly ==
  [][/\ Sends({"act", "try", "settle"}) => ~spoilt
     /\ Sends({"act"}) => looked
     /\ Sends({"try"}) /\ Compared => base = t.plannedOn]_<<task, vars>>

(* What a task calls done it did under one control and without a failed    *)
(* action, up to its last look at the page; and the planner's own hand on  *)
(* the page is opened by the last task only, when that one was not done    *)
(* (jev-browser.ts:101-107, run-controller.ts:402, :438).                  *)
ReportsAreTrue ==
  [][/\ JevTypeOK'
     /\ at = "report" /\ t.tool = "browser_task" /\ told' = "completion_candidate" =>
          Current /\ ~spoilt
     /\ Sends({"direct"}) /\ strategy # "hybrid" =>
          t.tool = "browser_fallback" /\ told = "needs_help"]_<<task, vars>>
=============================================================================
