---------------------------- MODULE JevTaskProofs ----------------------------
(***************************************************************************)
(* TLAPS proofs about BudgetTracker and JevTask, for every clock, limit    *)
(* and grant, and any number of steps, retries and views.  The budget's    *)
(* invariant is shown step by step, first for the tracker alone and then   *)
(* under the delegation, where the bill comes an await after the check;    *)
(* JevInv adds where the delegation stands and what it has in hand.        *)
(***************************************************************************)
EXTENDS JevTask, TLAPS

-----------------------------------------------------------------------------
(* The budget.                                                             *)

(* The clock stands exactly while a pause is open, at a moment between the *)
(* start and now, and a parked run holds one of the pauses and a limit.    *)
ClockShape ==
  /\ pausedAt = None <=> pauseDepth = 0
  /\ pausedAt # None => pausedAt <= now
  /\ reason # None => pauseDepth > 0 /\ limit[reason] # None

BudgetInv == TypeOK /\ ClockShape /\ ElapsedIsActive /\ CostOvershootsByOneTurn

LEMMA RaisedLifts ==
  ASSUME TypeOK, ElapsedMs \in Nat, NEW l \in Limits
  PROVE  /\ Raised(l) \in Nat
         /\ Raised(l) > Used(l)
         /\ limit[l] # None => Raised(l) > limit[l]
  BY NoneAssumption, BudgetAssumption DEF TypeOK, Raised, Larger, Used

LEMMA InitInv == Init => BudgetInv
  <1> SUFFICES ASSUME Init PROVE BudgetInv
    OBVIOUS
  <1> USE NoneAssumption, BudgetAssumption, StartAssumption DEF Init
  <1>1. PICK s \in Starts : limit = s.limit /\ used = s.used
    OBVIOUS
  <1>2. s.limit \in [Limits -> Nat \cup {None}] /\ s.used \in [Limits -> Nat]
    OBVIOUS
  <1>3. TypeOK
    BY <1>1, <1>2 DEF TypeOK, Limits
  <1>4. ClockShape /\ ElapsedIsActive
    BY <1>3 DEF ClockShape, ElapsedIsActive, ElapsedMs, TypeOK
  <1>5. CostOvershootsByOneTurn
    BY <1>1 DEF CostOvershootsByOneTurn
  <1> QED
    BY <1>3, <1>4, <1>5 DEF BudgetInv

LEMMA TickInv == ASSUME BudgetInv, Tick PROVE BudgetInv'
BY NoneAssumption
   DEF Tick, BudgetInv, TypeOK, ClockShape, ElapsedIsActive, ElapsedMs, CostOvershootsByOneTurn, clock

LEMMA PauseInv == ASSUME BudgetInv, PauseClock PROVE BudgetInv'
BY NoneAssumption
   DEF PauseClock, PausedSince, BudgetInv, TypeOK, ClockShape, ElapsedIsActive, ElapsedMs, CostOvershootsByOneTurn

(* A resume that ends the last pause adds exactly that pause.              *)
LEMMA ResumeInv == ASSUME BudgetInv, ResumeClock PROVE BudgetInv'
<1> USE NoneAssumption
    DEF BudgetInv, TypeOK, ClockShape, ElapsedIsActive, ElapsedMs, CostOvershootsByOneTurn
<1>1. CASE pauseDepth = 1
  BY <1>1 DEF ResumeClock, Resumable
<1>2. CASE pauseDepth # 1
  BY <1>2 DEF ResumeClock, Resumable
<1> QED
  BY <1>1, <1>2

(* Something is counted, and the cost stays within one turn of its limit.  *)
LEMMA CountInv ==
  ASSUME BudgetInv, used' \in [Limits -> Nat], UNCHANGED <<now, clock, limit, reason, active>>,
         CostOvershootsByOneTurn'
  PROVE  BudgetInv'
BY DEF BudgetInv, TypeOK, ClockShape, ElapsedIsActive, ElapsedMs, clock

LEMMA CallInv == ASSUME BudgetInv, Counted PROVE BudgetInv'
<1>1. used' = [l \in Limits |-> IF l = "maxToolCalls" THEN used[l] + 1 ELSE used[l]]
  BY DEF Counted, BudgetInv, TypeOK
<1>2. used' \in [Limits -> Nat] /\ used'["maxCostUsd"] = used["maxCostUsd"]
  BY <1>1 DEF BudgetInv, TypeOK, Limits
<1>3. CostOvershootsByOneTurn'
  BY <1>2 DEF BudgetInv, CostOvershootsByOneTurn, Counted
<1> QED
  BY <1>2, <1>3, CountInv DEF Counted

LEMMA BillInv ==
  ASSUME BudgetInv, NEW cost \in 0 .. MaxTurnCost, Bill(cost),
         limit["maxCostUsd"] # None => used["maxCostUsd"] <= limit["maxCostUsd"]
  PROVE  BudgetInv'
<1>1. used' = [l \in Limits |-> IF l = "maxTurns" THEN used[l] + 1
                                ELSE IF l = "maxCostUsd" THEN used[l] + cost ELSE used[l]]
  BY DEF Bill, BudgetInv, TypeOK, Limits, Steps
<1>2. cost \in Nat /\ cost <= MaxTurnCost
  BY BudgetAssumption
<1>3. used' \in [Limits -> Nat] /\ used'["maxCostUsd"] = used["maxCostUsd"] + cost
  BY <1>1, <1>2 DEF BudgetInv, TypeOK, Limits, Steps
<1>4. limit["maxCostUsd"] \in Nat \cup {None} /\ used["maxCostUsd"] \in Nat /\ MaxTurnCost \in Nat
  BY BudgetAssumption DEF BudgetInv, TypeOK, Limits
<1>5. CostOvershootsByOneTurn'
  BY <1>2, <1>3, <1>4 DEF CostOvershootsByOneTurn, Bill
<1> QED
  BY <1>3, <1>5, CountInv DEF Bill

LEMMA ParkInv == ASSUME BudgetInv, NEW l \in Limits, NEW phase, ParkAt(l, phase) PROVE BudgetInv'
BY NoneAssumption
   DEF ParkAt, PausedSince, Reached, BudgetInv, TypeOK, ClockShape, ElapsedIsActive, ElapsedMs,
       CostOvershootsByOneTurn

LEMMA ExtendInv == ASSUME BudgetInv, NEW action \in Actions, ResumeBudget(action) PROVE BudgetInv'
<1> USE NoneAssumption, BudgetAssumption
    DEF BudgetInv, TypeOK, ClockShape, ElapsedIsActive, ElapsedMs, CostOvershootsByOneTurn, Limits
<1>1. \A l \in Limits : Raised(l) \in Nat /\ (limit[l] # None => Raised(l) > limit[l])
  BY RaisedLifts
<1>2. limit' \in [Limits -> Nat \cup {None}]
  BY <1>1 DEF ResumeBudget, Extended, Actions, Steps
<1>3. CostOvershootsByOneTurn'
  <2>1. CASE action = "add_cost"
    <3>1. limit'["maxCostUsd"] = Raised("maxCostUsd")
      BY <2>1 DEF ResumeBudget, Extended
    <3>2. Raised("maxCostUsd") > used["maxCostUsd"]
      BY RaisedLifts DEF Used
    <3> QED
      BY <1>1, <3>1, <3>2 DEF ResumeBudget
  <2>2. CASE action # "add_cost"
    <3>1. limit'["maxCostUsd"] = limit["maxCostUsd"]
      BY <2>2 DEF ResumeBudget, Extended, Actions, Steps
    <3> QED
      BY <3>1 DEF ResumeBudget
  <2> QED
    BY <2>1, <2>2
<1>4. /\ pausedAt' \in Nat \cup {None} /\ pausedMs' \in Nat /\ pauseDepth' \in Nat
      /\ ElapsedIsActive'
      /\ pausedAt' = None <=> pauseDepth' = 0
      /\ pausedAt' # None => pausedAt' <= now
  BY DEF ResumeBudget
<1> QED
  BY <1>2, <1>3, <1>4 DEF ResumeBudget

LEMMA StillInv == ASSUME BudgetInv, UNCHANGED vars PROVE BudgetInv'
BY DEF vars, clock, BudgetInv, TypeOK, ClockShape, ElapsedIsActive, ElapsedMs, CostOvershootsByOneTurn

LEMMA StepInv == BudgetInv /\ [Next]_vars => BudgetInv'
<1> SUFFICES ASSUME BudgetInv, [Next]_vars PROVE BudgetInv'
  OBVIOUS
<1>1. CASE Tick \/ PauseClock \/ ResumeClock
  BY <1>1, TickInv, PauseInv, ResumeInv
<1>2. CASE ToolCall
  BY <1>2, CallInv DEF ToolCall, Counted
<1>3. ASSUME NEW cost \in 0 .. MaxTurnCost, Turn(cost) PROVE BudgetInv'
  <2>1. Bill(cost) /\ ~Reached("maxCostUsd")
    BY <1>3 DEF Turn, Bill, Clear, Checked, Limits
  <2>2. limit["maxCostUsd"] # None => used["maxCostUsd"] <= limit["maxCostUsd"]
    BY <2>1, NoneAssumption DEF Reached, Used, BudgetInv, TypeOK, Limits
  <2> QED
    BY <2>1, <2>2, BillInv
<1>4. ASSUME NEW l \in Limits, NEW phase, ParkAt(l, phase) PROVE BudgetInv'
  BY <1>4, ParkInv
<1>5. ASSUME NEW action \in Actions, ResumeBudget(action) PROVE BudgetInv'
  BY <1>5, ExtendInv
<1>6. CASE UNCHANGED vars
  BY <1>6, StillInv
<1> QED
  BY <1>1, <1>2, <1>3, <1>4, <1>5, <1>6 DEF Next

LEMMA Invariance == Spec => []BudgetInv
  BY InitInv, StepInv, PTL DEF Spec

(* The three numbers of the clock always give the active time.             *)
THEOREM ClockExact == Spec => []ElapsedIsActive
  BY Invariance, PTL DEF BudgetInv

(* A conversation passes its limit on cost by at most one turn's cost.     *)
THEOREM CostBounded == Spec => []CostOvershootsByOneTurn
  BY Invariance, PTL DEF BudgetInv

(* What a step that changes a limit is, and what it leaves of the time.    *)
LEMMA StepLimits ==
  ASSUME BudgetInv, [Next]_vars
  PROVE  /\ \A l \in Limits : reason = l /\ reason' = None => ~Reached(l)'
         /\ \A l \in Limits : limit'[l] # limit[l] =>
              limit[l] # None /\ (limit'[l] = None \/ limit'[l] > limit[l])
  <1> USE NoneAssumption, BudgetAssumption DEF BudgetInv
  <1>1. ASSUME NEW action \in Actions, ResumeBudget(action), NEW l \in Limits
        PROVE  /\ reason = l => ~Reached(l)'
               /\ limit'[l] # limit[l] =>
                    limit[l] # None /\ (limit'[l] = None \/ limit'[l] > limit[l])
    <2>0. Used(l) \in Int /\ limit[l] \in Nat \cup {None}
      BY DEF TypeOK, ElapsedIsActive, Used
    <2>1. Raised(l) \in Nat /\ Raised(l) > Used(l) /\ (limit[l] # None => Raised(l) > limit[l])
      BY RaisedLifts DEF TypeOK, ElapsedIsActive
    <2>2. Used(l)' = Used(l)
      BY <1>1 DEF ResumeBudget, Used, ElapsedMs, TypeOK, ClockShape
    <2>3. CASE action = "add_steps"
      <3>1. limit'[l] = IF l \in Steps /\ limit[l] # None THEN Raised(l) ELSE limit[l]
        BY <1>1, <2>3 DEF ResumeBudget, Extended
      <3>2. reason \in Steps
        BY <1>1, <2>3 DEF ResumeBudget, Offered, TypeOK, Limits, Steps
      <3> QED
        BY <2>0, <2>1, <2>2, <3>1, <3>2 DEF Reached
    <2>4. CASE action = "unlimited_steps"
      <3>1. limit'[l] = IF l \in Steps THEN None ELSE limit[l]
        BY <1>1, <2>4 DEF ResumeBudget, Extended
      <3>2. reason \in Steps
        BY <1>1, <2>4 DEF ResumeBudget, Offered, TypeOK, Limits, Steps
      <3> QED
        BY <2>1, <2>2, <3>1, <3>2 DEF Reached
    <2>5. CASE action = "add_time"
      <3>1. limit'[l] = IF l = "maxDurationMs" THEN Raised(l) ELSE limit[l]
        BY <1>1, <2>5 DEF ResumeBudget, Extended, TypeOK
      <3>2. reason = "maxDurationMs"
        BY <1>1, <2>5 DEF ResumeBudget, Offered, TypeOK, Limits, Steps
      <3> QED
        BY <2>0, <2>1, <2>2, <3>1, <3>2 DEF Reached, ClockShape
    <2>6. CASE action = "unlimited_time"
      <3>1. limit'[l] = IF l = "maxDurationMs" THEN None ELSE limit[l]
        BY <1>1, <2>6 DEF ResumeBudget, Extended, TypeOK
      <3>2. reason = "maxDurationMs"
        BY <1>1, <2>6 DEF ResumeBudget, Offered, TypeOK, Limits, Steps
      <3> QED
        BY <2>1, <2>2, <3>1, <3>2 DEF Reached
    <2>7. CASE action = "add_cost"
      <3>1. limit'[l] = IF l = "maxCostUsd" THEN Raised(l) ELSE limit[l]
        BY <1>1, <2>7 DEF ResumeBudget, Extended, TypeOK
      <3>2. reason = "maxCostUsd"
        BY <1>1, <2>7 DEF ResumeBudget, Offered, TypeOK, Limits, Steps
      <3> QED
        BY <2>0, <2>1, <2>2, <3>1, <3>2 DEF Reached, ClockShape
    <2> QED
      BY <2>3, <2>4, <2>5, <2>6, <2>7 DEF Actions
  <1>2. CASE \E action \in Actions : ResumeBudget(action)
    BY <1>1, <1>2
  <1>3. CASE UNCHANGED limit /\ (reason' = None => reason = None)
    BY <1>3 DEF TypeOK
  <1>4. ~(\E action \in Actions : ResumeBudget(action))
          => UNCHANGED limit /\ (reason' = None => reason = None)
    BY DEF Next, vars, Tick, PauseClock, ResumeClock, ToolCall, Turn, ParkAt
  <1> QED
    BY <1>2, <1>3, <1>4

(* An extension always gets the run past the limit it was parked at.       *)
THEOREM ExtensionsLift == Spec => ExtensionLifts
  <1>1. BudgetInv /\ [Next]_vars =>
          [\A l \in Limits : reason = l /\ reason' = None => ~Reached(l)']_vars
    BY StepLimits
  <1> QED
    BY <1>1, Invariance, PTL DEF Spec, ExtensionLifts

(* No extension takes an allowance away.                                   *)
THEOREM LimitsWiden == Spec => OnlyWidens
  <1>1. BudgetInv /\ [Next]_vars =>
          [\A l \in Limits : limit'[l] # limit[l] =>
             limit[l] # None /\ (limit'[l] = None \/ limit'[l] > limit[l])]_vars
    BY StepLimits
  <1> QED
    BY <1>1, Invariance, PTL DEF Spec, OnlyWidens

(* The budget's whole promise, for every limit, grant and cost of a turn.  *)
THEOREM BudgetKept == Spec => []BudgetHolds
  BY ClockExact, CostBounded, PTL DEF BudgetHolds

-----------------------------------------------------------------------------
(* The delegation.                                                         *)
Statuses == {"none", "needs_help", "completion_candidate"}
Inside == {"gate", "vet", "card", "sent", "resumed"}  (* A child call is in hand. *)
Looks == {"none", "evidence", "read"}
Deciding == {"check", "decide"}

Rec(r) ==
  /\ r = [tool |-> r.tool, child |-> r.child, kind |-> r.kind, step |-> r.step, stale |-> r.stale,
          plan |-> r.plan, bare |-> r.bare, plannedOn |-> r.plannedOn, status |-> r.status,
          tries |-> r.tries, states |-> r.states, seen |-> r.seen]
  /\ r.child \in Children \cup {"none"} /\ r.status \in Statuses
  /\ r.step \in 0 .. Larger(MaxSteps, MaxPlan) /\ r.plan \in 0 .. MaxPlan /\ r.tries \in 0 .. JevTries

(* A call r that stands at w under engine st, after a failure or not (sp), *)
(* with the page looked at or not (lk), the fallback open or not (fb), and *)
(* bs the page of the last observation.                                    *)
Fits(st, w, r, sp, lk, fb, bs) ==
  /\ Rec(r)
  /\ r.child # "none" <=> w \in Inside
  /\ sp \/ r.status # "none" => r.child \in Looks /\ w \notin Deciding \cup {"called"}
  /\ r.status = "completion_candidate" => ~sp
  /\ w \in Deciding \/ r.child = "act" => lk
  /\ r.child = "try" /\ r.plan > 1 /\ ~(r.bare /\ r.step = r.plan - 1) => bs = r.plannedOn
  /\ r.tool = "browser_task" /\ w # "called" => ~fb
  /\ r.child = "direct" /\ st # "hybrid" => r.tool = "browser_fallback" /\ fb
  /\ w = "called" => r.step = 0
  /\ w \in Deciding \/ r.child \in {"observe", "act", "settle"} => r.step < MaxSteps
  /\ r.child \in {"look", "try"} => r.step < r.plan

(* Where the run stands, or will when the human or a limit lets it go on.  *)
Where == IF at \in {"handoff", "budget"} THEN back ELSE at
Places == {"loop", "asked", "called", "report", "ended"} \cup Deciding \cup Inside

(* The turn that is on its way was still affordable.                       *)
Affordable ==
  Where \in {"asked", "decide"} /\ limit["maxCostUsd"] # None => used["maxCostUsd"] <= limit["maxCostUsd"]

TaskInv ==
  /\ Where \in Places
  /\ Where \in {"loop", "asked", "ended"} => t = Fresh("none")
  /\ Fits(strategy, Where, t, spoilt, looked, fallback, base)
  /\ fallback => told = "needs_help"

JevInv == JevTypeOK /\ BudgetInv /\ Affordable /\ TaskInv

(* Records of a call, and what changes one field of them.                  *)
LEMMA FreshIs ==
  ASSUME NEW tool
  PROVE  /\ Rec(Fresh(tool)) /\ Fresh(tool).tool = tool /\ Fresh(tool).child = "none"
         /\ Fresh(tool).status = "none" /\ Fresh(tool).step = 0 /\ Fresh(tool).plan = 0 /\ Fresh(tool).tries = 0
<1>1. 0 \in 0 .. Larger(MaxSteps, MaxPlan) /\ 0 \in 0 .. MaxPlan /\ 0 \in 0 .. JevTries
  BY JevAssumption DEF Larger
<1> DEFINE x == [v \in Views |-> 0]
           y == [v \in Views, k \in Kinds |-> 0]
<1>2. Fresh(tool) =
        [tool |-> tool, child |-> "none", kind |-> "wait", step |-> 0, stale |-> 0,
         plan |-> 0, bare |-> FALSE, plannedOn |-> None, status |-> "none", tries |-> 0,
         states |-> x, seen |-> y]
  BY DEF Fresh
<1> HIDE DEF x, y
<1> QED
  BY <1>1, <1>2 DEF Rec, Statuses

LEMMA WithChild ==
  ASSUME NEW r, Rec(r), NEW c \in Children \cup {"none"}
  PROVE  LET q == [r EXCEPT !.child = c] IN
         /\ Rec(q) /\ q.child = c /\ q.tool = r.tool /\ q.step = r.step /\ q.plan = r.plan /\ q.bare = r.bare
         /\ q.plannedOn = r.plannedOn /\ q.status = r.status
<1> DEFINE q == [r EXCEPT !.child = c]
<1>1. q =
      [tool |-> r.tool, child |-> c, kind |-> r.kind, step |-> r.step,
       stale |-> r.stale, plan |-> r.plan, bare |-> r.bare,
       plannedOn |-> r.plannedOn, status |-> r.status, tries |-> r.tries,
       states |-> r.states, seen |-> r.seen]
  BY DEF Rec
<1> HIDE DEF q
<1>2. Rec(q)
  BY <1>1 DEF Rec
<1> QED
  BY <1>1, <1>2 DEF q

LEMMA WithStatus ==
  ASSUME NEW r, Rec(r), NEW s \in Statuses
  PROVE  LET q == [r EXCEPT !.status = s] IN
         /\ Rec(q) /\ q.child = r.child /\ q.tool = r.tool /\ q.step = r.step /\ q.plan = r.plan /\ q.status = s
<1> DEFINE q == [r EXCEPT !.status = s]
<1>1. q =
      [tool |-> r.tool, child |-> r.child, kind |-> r.kind, step |-> r.step,
       stale |-> r.stale, plan |-> r.plan, bare |-> r.bare,
       plannedOn |-> r.plannedOn, status |-> s, tries |-> r.tries,
       states |-> r.states, seen |-> r.seen]
  BY DEF Rec
<1> HIDE DEF q
<1>2. Rec(q)
  BY <1>1 DEF Rec
<1> QED
  BY <1>1, <1>2 DEF q

LEMMA WithStep ==
  ASSUME NEW r, Rec(r), NEW n \in 0 .. Larger(MaxSteps, MaxPlan)
  PROVE  LET q == [r EXCEPT !.step = n] IN
         /\ Rec(q) /\ q.child = r.child /\ q.tool = r.tool /\ q.step = n /\ q.plan = r.plan /\ q.bare = r.bare
         /\ q.plannedOn = r.plannedOn /\ q.status = r.status
<1> DEFINE q == [r EXCEPT !.step = n]
<1>1. q =
      [tool |-> r.tool, child |-> r.child, kind |-> r.kind, step |-> n,
       stale |-> r.stale, plan |-> r.plan, bare |-> r.bare,
       plannedOn |-> r.plannedOn, status |-> r.status, tries |-> r.tries,
       states |-> r.states, seen |-> r.seen]
  BY DEF Rec
<1> HIDE DEF q
<1>2. Rec(q)
  BY <1>1 DEF Rec
<1> QED
  BY <1>1, <1>2 DEF q

(* Only what nothing is claimed about differs.                             *)
Alike(q, r) ==
  /\ Rec(q) /\ q.child = r.child /\ q.tool = r.tool /\ q.step = r.step /\ q.plan = r.plan
  /\ q.bare = r.bare /\ q.plannedOn = r.plannedOn /\ q.status = r.status

LEMMA Remade ==
  ASSUME NEW r, Rec(r), NEW k, NEW n, NEW m, NEW c, NEW f \in 0 .. JevTries,
         NEW q, q = [tool |-> r.tool, child |-> r.child, kind |-> k,
                     step |-> r.step, stale |-> n, plan |-> r.plan,
                     bare |-> r.bare, plannedOn |-> r.plannedOn,
                     status |-> r.status, tries |-> f, states |-> m,
                     seen |-> c]
  PROVE  Alike(q, r)
<1>1. Rec(q)
  BY DEF Rec
<1> QED
  BY <1>1 DEF Alike

LEMMA WithOther ==
  ASSUME NEW r, Rec(r), NEW v
  PROVE  /\ Alike([r EXCEPT !.kind = v], r)
         /\ Alike([r EXCEPT !.stale = v], r)
         /\ Alike([r EXCEPT !.states = v], r)
         /\ Alike([r EXCEPT !.seen = v], r)
<1>0. r.tries \in 0 .. JevTries
  BY DEF Rec
<1>1. Alike([r EXCEPT !.kind = v], r)
  <2> DEFINE q == [r EXCEPT !.kind = v]
  <2>1. q =
          [tool |-> r.tool, child |-> r.child, kind |-> v, step |-> r.step,
           stale |-> r.stale, plan |-> r.plan, bare |-> r.bare,
           plannedOn |-> r.plannedOn, status |-> r.status, tries |-> r.tries,
           states |-> r.states, seen |-> r.seen]
    BY DEF Rec
  <2> HIDE DEF q
  <2>2. Alike(q, r)
    BY <1>0, <2>1, Remade
  <2> QED
    BY <2>2 DEF q
<1>2. Alike([r EXCEPT !.stale = v], r)
  <2> DEFINE q == [r EXCEPT !.stale = v]
  <2>1. q =
          [tool |-> r.tool, child |-> r.child, kind |-> r.kind,
           step |-> r.step, stale |-> v, plan |-> r.plan, bare |-> r.bare,
           plannedOn |-> r.plannedOn, status |-> r.status, tries |-> r.tries,
           states |-> r.states, seen |-> r.seen]
    BY DEF Rec
  <2> HIDE DEF q
  <2>2. Alike(q, r)
    BY <1>0, <2>1, Remade
  <2> QED
    BY <2>2 DEF q
<1>3. Alike([r EXCEPT !.states = v], r)
  <2> DEFINE q == [r EXCEPT !.states = v]
  <2>1. q =
          [tool |-> r.tool, child |-> r.child, kind |-> r.kind,
           step |-> r.step, stale |-> r.stale, plan |-> r.plan,
           bare |-> r.bare, plannedOn |-> r.plannedOn, status |-> r.status,
           tries |-> r.tries, states |-> v, seen |-> r.seen]
    BY DEF Rec
  <2> HIDE DEF q
  <2>2. Alike(q, r)
    BY <1>0, <2>1, Remade
  <2> QED
    BY <2>2 DEF q
<1>4. Alike([r EXCEPT !.seen = v], r)
  <2> DEFINE q == [r EXCEPT !.seen = v]
  <2>1. q =
          [tool |-> r.tool, child |-> r.child, kind |-> r.kind,
           step |-> r.step, stale |-> r.stale, plan |-> r.plan,
           bare |-> r.bare, plannedOn |-> r.plannedOn, status |-> r.status,
           tries |-> r.tries, states |-> r.states, seen |-> v]
    BY DEF Rec
  <2> HIDE DEF q
  <2>2. Alike(q, r)
    BY <1>0, <2>1, Remade
  <2> QED
    BY <2>2 DEF q
<1> QED
  BY <1>1, <1>2, <1>3, <1>4

LEMMA WithTries == ASSUME NEW r, Rec(r), NEW f \in 0 .. JevTries PROVE Alike([r EXCEPT !.tries = f], r)
<1> DEFINE q == [r EXCEPT !.tries = f]
<1>1. q =
      [tool |-> r.tool, child |-> r.child, kind |-> r.kind, step |-> r.step,
       stale |-> r.stale, plan |-> r.plan, bare |-> r.bare,
       plannedOn |-> r.plannedOn, status |-> r.status, tries |-> f,
       states |-> r.states, seen |-> r.seen]
  BY DEF Rec
<1> HIDE DEF q
<1>2. Alike(q, r)
  BY <1>1, Remade
<1> QED
  BY <1>2 DEF q

LEMMA Split ==
  ASSUME NEW r, NEW x, NEW y, NEW z
  PROVE  /\ [r EXCEPT !.stale = x, !.kind = y] = [[r EXCEPT !.stale = x] EXCEPT !.kind = y]
         /\ [r EXCEPT !.kind = x, !.seen = y, !.tries = z] =
              [[[r EXCEPT !.kind = x] EXCEPT !.seen = y] EXCEPT !.tries = z]
         /\ [r EXCEPT !.child = x, !.kind = y] = [[r EXCEPT !.child = x] EXCEPT !.kind = y]
         /\ [r EXCEPT !.plan = x, !.bare = y, !.plannedOn = z] =
              [[[r EXCEPT !.plan = x] EXCEPT !.bare = y] EXCEPT !.plannedOn = z]
OBVIOUS

LEMMA WithPlan ==
  ASSUME NEW r, Rec(r), NEW n \in 0 .. MaxPlan
  PROVE  LET q == [r EXCEPT !.plan = n] IN
         Rec(q) /\ q.tool = r.tool /\ q.step = r.step /\ q.plan = n /\ q.status = r.status
<1> DEFINE q == [r EXCEPT !.plan = n]
<1>1. q = [tool |-> r.tool, child |-> r.child, kind |-> r.kind, step |-> r.step,
           stale |-> r.stale, plan |-> n, bare |-> r.bare,
           plannedOn |-> r.plannedOn, status |-> r.status, tries |-> r.tries,
           states |-> r.states, seen |-> r.seen]
  BY DEF Rec
<1> HIDE DEF q
<1>2. Rec(q)
  BY <1>1 DEF Rec
<1> QED
  BY <1>1, <1>2 DEF q

LEMMA WithPage ==
  ASSUME NEW r, Rec(r), NEW v
  PROVE  /\ LET q == [r EXCEPT !.bare = v] IN
            Rec(q) /\ q.tool = r.tool /\ q.step = r.step /\ q.plan = r.plan /\ q.status = r.status
         /\ LET q == [r EXCEPT !.plannedOn = v] IN
            Rec(q) /\ q.tool = r.tool /\ q.step = r.step /\ q.plan = r.plan /\ q.status = r.status
<1> DEFINE b == [r EXCEPT !.bare = v]
           p == [r EXCEPT !.plannedOn = v]
<1>1. b = [tool |-> r.tool, child |-> r.child, kind |-> r.kind, step |-> r.step,
           stale |-> r.stale, plan |-> r.plan, bare |-> v,
           plannedOn |-> r.plannedOn, status |-> r.status, tries |-> r.tries,
           states |-> r.states, seen |-> r.seen]
  BY DEF Rec
<1>2. p = [tool |-> r.tool, child |-> r.child, kind |-> r.kind, step |-> r.step,
           stale |-> r.stale, plan |-> r.plan, bare |-> r.bare,
           plannedOn |-> v, status |-> r.status, tries |-> r.tries,
           states |-> r.states, seen |-> r.seen]
  BY DEF Rec
<1> HIDE DEF b, p
<1>3. Rec(b) /\ b.tool = r.tool /\ b.step = r.step /\ b.plan = r.plan /\ b.status = r.status
  BY <1>1 DEF Rec
<1>4. Rec(p) /\ p.tool = r.tool /\ p.step = r.step /\ p.plan = r.plan /\ p.status = r.status
  BY <1>2 DEF Rec
<1> QED
  BY <1>3, <1>4 DEF b, p

(* What a call's end, its next round and a plan's next action leave.       *)
LEMMA Finished ==
  ASSUME NEW status \in Statuses, NEW r, Finish(status, r), NEW sp, NEW lk, NEW fb, NEW bs,
         status = "completion_candidate" => ~sp, r.tool = "browser_task" => ~fb
  PROVE  at' \in {"gate", "report"} /\ Fits(strategy, at', t', sp, lk, fb, bs)
<1> DEFINE f == Fresh(r.tool)
           c == [f EXCEPT !.status = status]
           e == [c EXCEPT !.child = "evidence"]
<1>1. \/ at' = "gate" /\ t' = e
      \/ at' = "report" /\ t' = c
  BY DEF Finish, Child
<1>2. Rec(f) /\ f.tool = r.tool /\ f.child = "none"
  BY FreshIs
<1> HIDE DEF f
<1>3. Rec(c) /\ c.child = "none" /\ c.tool = r.tool /\ c.status = status
  BY <1>2, WithStatus
<1> HIDE DEF c
<1>4. Rec(e) /\ e.child = "evidence" /\ e.tool = r.tool /\ e.status = status
  <2>1. "evidence" \in Children \cup {"none"}
    BY DEF Children
  <2> QED
    BY <1>3, <2>1, WithChild
<1> HIDE DEF e
<1>5. CASE at' = "gate" /\ t' = e
  BY <1>4, <1>5 DEF Fits, Inside, Looks, Deciding
<1>6. CASE at' = "report" /\ t' = c
  BY <1>3, <1>6 DEF Fits, Inside, Looks, Deciding
<1> QED
  BY <1>1, <1>5, <1>6

LEMMA Rounded ==
  ASSUME NEW n \in 0 .. MaxSteps, NEW r, Rec(r), r.status = "none", Round(n, r),
         NEW lk, NEW fb, NEW bs, r.tool = "browser_task" => ~fb
  PROVE  at' \in {"gate", "report"} /\ Fits(strategy, at', t', FALSE, lk, fb, bs)
<1> DEFINE next == [r EXCEPT !.step = n]
           o == [next EXCEPT !.child = "observe"]
<1>1. \/ Finish("needs_help", r)
      \/ Finish("needs_help", next)
      \/ n # MaxSteps /\ at' = "gate" /\ t' = o
  BY DEF Round, Child
<1>2. n \in 0 .. Larger(MaxSteps, MaxPlan) /\ (n # MaxSteps => n < MaxSteps)
  BY JevAssumption DEF Larger
<1>3. Rec(next) /\ next.tool = r.tool /\ next.step = n /\ next.status = "none"
  BY <1>2, WithStep
<1> HIDE DEF next
<1>4. Rec(o) /\ o.child = "observe" /\ o.tool = r.tool /\ o.step = n /\ o.status = "none"
  <2>1. "observe" \in Children \cup {"none"}
    BY DEF Children
  <2> QED
    BY <1>3, <2>1, WithChild
<1> HIDE DEF o
<1>5. CASE n # MaxSteps /\ at' = "gate" /\ t' = o
  BY <1>2, <1>4, <1>5 DEF Fits, Inside, Looks, Deciding
<1>6. CASE Finish("needs_help", r) \/ Finish("needs_help", next)
  BY <1>3, <1>6, Finished DEF Statuses
<1> QED
  BY <1>1, <1>5, <1>6

LEMMA BatchRounded ==
  ASSUME NEW r, Rec(r), r.status = "none", r.step <= r.plan, BatchRound(r),
         NEW lk, NEW fb, NEW bs, r.tool = "browser_task" => ~fb
  PROVE  at' \in {"gate", "report"} /\ Fits(strategy, at', t', FALSE, lk, fb, bs)
<1> DEFINE look == [r EXCEPT !.child = "look"]
           try == [r EXCEPT !.child = "try"]
<1>1. \/ Finish("completion_candidate", r) \/ Finish("needs_help", r)
      \/ r.step # r.plan /\ at' = "gate" /\ t' = look
      \/ /\ r.step # r.plan /\ at' = "gate" /\ t' = try
         /\ ~(r.plan > 1 /\ ~(r.bare /\ r.step = r.plan - 1))
  BY DEF BatchRound, Child
<1>2. r.step # r.plan => r.step < r.plan
  BY JevAssumption DEF Rec, Larger
<1>3. Rec(look) /\ look.child = "look" /\ look.tool = r.tool /\ look.step = r.step /\ look.plan = r.plan
      /\ look.status = "none"
  BY WithChild, ZenonT(60) DEF Children
<1>4. Rec(try) /\ try.child = "try" /\ try.tool = r.tool /\ try.step = r.step /\ try.plan = r.plan
      /\ try.bare = r.bare /\ try.status = "none"
  BY WithChild, ZenonT(60) DEF Children
<1> HIDE DEF look, try
<1>5. CASE r.step # r.plan /\ at' = "gate" /\ t' = look
  BY <1>2, <1>3, <1>5 DEF Fits, Inside, Looks, Deciding
<1>6. CASE /\ r.step # r.plan /\ at' = "gate" /\ t' = try
           /\ ~(r.plan > 1 /\ ~(r.bare /\ r.step = r.plan - 1))
  BY <1>2, <1>4, <1>6 DEF Fits, Inside, Looks, Deciding
<1>7. CASE Finish("completion_candidate", r) \/ Finish("needs_help", r)
  BY <1>7, Finished DEF Statuses
<1> QED
  BY <1>1, <1>5, <1>6, <1>7

LEMMA WithKind == ASSUME NEW q, NEW r, Alike(q, r), NEW v PROVE Alike([q EXCEPT !.kind = v], r)
<1>1. Rec(q)
  BY DEF Alike
<1>2. Alike([q EXCEPT !.kind = v], q)
  BY <1>1, WithOther
<1> QED
  BY <1>2 DEF Alike

LEMMA AlikeToItself == ASSUME NEW r, Rec(r) PROVE Alike(r, r)
BY DEF Alike

(* Of a child call in hand: nothing has failed before one that acts.       *)
LEMMA InHand ==
  ASSUME NEW w \in Inside, NEW lk, NEW fb, NEW bs, Fits(strategy, w, t, spoilt, lk, fb, bs)
  PROVE  /\ Rec(t) /\ t.child \in Children
         /\ t.child \notin Looks => ~spoilt /\ t.status = "none"
         /\ t.tool = "browser_task" => ~fb
         /\ t.status = "completion_candidate" => ~spoilt
         /\ t.child \in {"observe", "act", "settle"} => t.step < MaxSteps
         /\ t.child \in {"look", "try"} => t.step < t.plan
BY DEF Fits, Inside, Looks, Deciding, Rec

(* After an observation: the page is decided on, or the task ends.         *)
LEMMA AfterObserve ==
  ASSUME Rec(t), t.status = "none", t.step < MaxSteps, Observed,
         NEW lk, lk, NEW fb, NEW bs, t.tool = "browser_task" => ~fb
  PROVE  at' \in {"gate", "report", "check"} /\ Fits(strategy, at', t', FALSE, lk, fb, bs)
<1> DEFINE s == [t EXCEPT !.states[view] = @ + 1]
           r == IF strategy = "auto" THEN s ELSE t
           n == [r EXCEPT !.child = "none"]
           q == [n EXCEPT !.kind = "wait"]
<1>1. Alike(r, t)
  <2>1. s = [t EXCEPT !.states = [t.states EXCEPT ![view] = t.states[view] + 1]]
    OBVIOUS
  <2>2. Alike(s, t)
    BY <2>1, WithOther
  <2>3. Alike(t, t)
    BY AlikeToItself
  <2> QED
    BY <2>2, <2>3
<1>2. \/ Finish("needs_help", r)
      \/ at' = "check" /\ t' = q
  BY Split DEF Observed
<1> HIDE DEF r
<1>3. Rec(n) /\ n.child = "none" /\ n.tool = t.tool /\ n.step = t.step /\ n.status = "none"
  BY <1>1, WithChild DEF Alike
<1> HIDE DEF n
<1>4. Rec(q) /\ q.child = "none" /\ q.tool = t.tool /\ q.step = t.step /\ q.status = "none"
  <2>1. Alike(n, n)
    BY <1>3, AlikeToItself
  <2>2. Alike(q, n)
    BY <2>1, WithKind
  <2> QED
    BY <1>3, <2>2 DEF Alike
<1> HIDE DEF q
<1>5. CASE Finish("needs_help", r)
  BY <1>1, <1>5, Finished DEF Statuses, Alike
<1>6. CASE at' = "check" /\ t' = q
  BY <1>4, <1>6 DEF Fits, Inside, Looks, Deciding
<1> QED
  BY <1>2, <1>5, <1>6

(* After an action that was done, or refused as stale: another round.      *)
LEMMA AfterAct ==
  ASSUME Rec(t), t.child = "act", t.status = "none", t.step < MaxSteps, NEW outcome, Acted(outcome),
         NEW sp \in BOOLEAN, sp => outcome \notin {"ok", "stale"},
         NEW lk, NEW fb, NEW bs, t.tool = "browser_task" => ~fb
  PROVE  at' \in {"gate", "report"} /\ Fits(strategy, at', t', sp, lk, fb, bs)
<1> DEFINE z == [t EXCEPT !.stale = 0]
           r == [z EXCEPT !.kind = "wait"]
           y == [t EXCEPT !.stale = t.stale + 1]
           p == [y EXCEPT !.kind = "wait"]
           s == [r EXCEPT !.child = "settle"]
<1>1. \/ Finish("needs_help", t)
      \/ ~sp /\ Round(t.step + 1, r)
      \/ ~sp /\ Round(t.step + 1, p)
      \/ ~sp /\ at' = "gate" /\ t' = s
  <2>1. \/ Finish("needs_help", t)
        \/ outcome = "ok" /\ Child("settle", [t EXCEPT !.stale = 0, !.kind = "wait"])
        \/ outcome = "ok" /\ Round(t.step + 1, [t EXCEPT !.stale = 0, !.kind = "wait"])
        \/ outcome = "stale" /\ Round(t.step + 1, [t EXCEPT !.stale = @ + 1, !.kind = "wait"])
    BY DEF Acted, Replans
  <2>2. /\ [t EXCEPT !.stale = 0, !.kind = "wait"] = r
        /\ [t EXCEPT !.stale = @ + 1, !.kind = "wait"] = p
    BY Split
  <2> HIDE DEF r, p
  <2> QED
    BY <2>1, <2>2 DEF Child
<1>2. Alike(z, t) /\ Alike(y, t)
  BY WithOther
<1> HIDE DEF z, y
<1>3. Alike(r, t) /\ Alike(p, t)
  BY <1>2, WithKind
<1> HIDE DEF r, p
<1>4. Rec(s) /\ s.child = "settle" /\ s.tool = t.tool /\ s.step = t.step /\ s.status = "none"
  <2>1. "settle" \in Children \cup {"none"}
    BY DEF Children
  <2> QED
    BY <1>3, <2>1, WithChild DEF Alike
<1> HIDE DEF s
<1>5. t.step + 1 \in 0 .. MaxSteps
  BY JevAssumption DEF Rec, Larger
<1>6. CASE Finish("needs_help", t)
  BY <1>6, Finished DEF Statuses
<1>7. CASE ~sp /\ (Round(t.step + 1, r) \/ Round(t.step + 1, p))
  <2>1. sp = FALSE
    BY <1>7
  <2> QED
    BY <1>3, <1>5, <1>7, <2>1, Rounded DEF Alike
<1>8. CASE ~sp /\ at' = "gate" /\ t' = s
  BY <1>4, <1>8 DEF Fits, Inside, Looks, Deciding
<1> QED
  BY <1>1, <1>6, <1>7, <1>8

(* What follows a child call, however it ended.                            *)
LEMMA Continued ==
  ASSUME NEW w \in Inside, Fits(strategy, w, t, spoilt, looked, fallback, base),
         NEW outcome, Returns(outcome), NEW lk, NEW bs,
         t.child = "observe" /\ outcome = "ok" => lk,
         t.child = "look" /\ outcome = "ok" => bs = view
  PROVE  at' \in {"gate", "report", "check"} /\ Fits(strategy, at', t', spoilt', lk, fallback, bs)
<1>1. /\ Rec(t) /\ t.child \in Children
      /\ t.child \notin Looks => ~spoilt /\ t.status = "none"
      /\ t.tool = "browser_task" => ~fallback
      /\ t.status = "completion_candidate" => ~spoilt
      /\ t.child \in {"observe", "act", "settle"} => t.step < MaxSteps
      /\ t.child \in {"look", "try"} => t.step < t.plan
  BY InHand
<1>2. Continue(outcome) /\ spoilt' = (spoilt \/ Failed(outcome))
  BY DEF Returns
<1>3. spoilt' \in BOOLEAN
  BY <1>2
<1>4. t.step \in Nat /\ t.plan \in Nat /\ MaxSteps \in Nat /\ t.plan <= MaxPlan /\ MaxPlan \in Nat
  BY <1>1, JevAssumption DEF Rec, Larger
<1>5. Finish("needs_help", t) \/ Finish("none", t) => \A sp :
        at' \in {"gate", "report"} /\ Fits(strategy, at', t', sp, lk, fallback, bs)
  BY <1>1, Finished DEF Statuses
<1> DEFINE Goal == at' \in {"gate", "report", "check"} /\ Fits(strategy, at', t', spoilt', lk, fallback, bs)
<1>6. Finish("needs_help", t) \/ Finish("none", t) => Goal
  BY <1>5
<1>7. t.child \notin {"act", "try"} \cup Looks => spoilt' = FALSE
  BY <1>1, <1>2 DEF Failed
<1>8. t.child \in {"act", "try"} /\ outcome \in {"ok", "stale"} => spoilt' = FALSE
  BY <1>1, <1>2 DEF Failed, Looks
<1>9. \A n \in 0 .. MaxSteps : Round(n, t) /\ t.status = "none" /\ spoilt' = FALSE => Goal
  BY <1>1, Rounded
<1> SUFFICES Goal
  OBVIOUS
<1>a. Inspected => Goal
  BY <1>1, FreshIs DEF Inspected, Fits, Inside, Looks, Deciding
<1> HIDE DEF Goal
<1>10. CASE t.child = "navigate"
  <2>1. (outcome = "ok" /\ Round(0, t)) \/ Finish("needs_help", t)
    BY <1>2, <1>10 DEF Continue
  <2>2. 0 \in 0 .. MaxSteps
    BY <1>4
  <2> QED
    BY <1>1, <1>6, <1>7, <1>9, <1>10, <2>1, <2>2 DEF Looks
<1>11. CASE t.child = "observe"
  <2>1. (outcome = "ok" /\ Observed) \/ Finish("needs_help", t)
    BY <1>2, <1>11 DEF Continue
  <2>2. spoilt' = FALSE /\ t.status = "none"
    BY <1>1, <1>7, <1>11 DEF Looks
  <2>3. CASE outcome = "ok" /\ Observed
    BY <1>1, <1>11, <2>2, <2>3, AfterObserve DEF Goal
  <2> QED
    BY <1>6, <2>1, <2>3
<1>12. CASE t.child = "act"
  <2>1. Acted(outcome) /\ t.status = "none" /\ t.step < MaxSteps
    BY <1>1, <1>2, <1>12 DEF Continue, Looks
  <2>2. spoilt' => outcome \notin {"ok", "stale"}
    BY <1>8, <1>12
  <2>3. at' \in {"gate", "report"} /\ Fits(strategy, at', t', spoilt', lk, fallback, bs)
    BY <1>1, <1>3, <1>12, <2>1, <2>2, AfterAct
  <2> QED
    BY <2>3 DEF Goal
<1>13. CASE t.child = "settle"
  <2>1. (outcome = "ok" /\ Round(t.step + 1, t)) \/ Finish("needs_help", t)
    BY <1>2, <1>13 DEF Continue
  <2>2. t.step + 1 \in 0 .. MaxSteps
    BY <1>1, <1>4, <1>13
  <2> QED
    BY <1>1, <1>6, <1>7, <1>9, <1>13, <2>1, <2>2 DEF Looks
<1>14. CASE t.child = "look"
  <2>1. (outcome = "ok" /\ view = t.plannedOn /\ Child("try", t)) \/ Finish("needs_help", t)
    BY <1>2, <1>14 DEF Continue, Looked, Unchanged
  <2>2. CASE outcome = "ok" /\ view = t.plannedOn /\ Child("try", t)
    <3> DEFINE q == [t EXCEPT !.child = "try"]
    <3>1. at' = "gate" /\ t' = q
      BY <2>2 DEF Child
    <3>2. "try" \in Children \cup {"none"}
      BY DEF Children
    <3>3. /\ Rec(q) /\ q.child = "try" /\ q.tool = t.tool /\ q.step = t.step /\ q.plan = t.plan
          /\ q.plannedOn = t.plannedOn /\ q.status = t.status
      BY <1>1, <3>2, WithChild
    <3> HIDE DEF q
    <3>4. bs = q.plannedOn /\ spoilt' = FALSE /\ q.status = "none"
      BY <1>1, <1>7, <1>14, <2>2, <3>3 DEF Looks
    <3> QED
      BY <1>1, <1>14, <3>1, <3>3, <3>4 DEF Goal, Fits, Inside, Looks, Deciding
  <2> QED
    BY <1>6, <2>1, <2>2
<1>15. CASE t.child = "try"
  <2> DEFINE q == [t EXCEPT !.step = t.step + 1]
  <2>1. (outcome = "ok" /\ BatchRound(q)) \/ Finish("needs_help", t)
    BY <1>2, <1>15 DEF Continue, Tried
  <2>2. t.step + 1 \in 0 .. Larger(MaxSteps, MaxPlan) /\ t.step + 1 <= t.plan
    BY <1>1, <1>4, <1>15 DEF Larger
  <2>3. Rec(q) /\ q.tool = t.tool /\ q.step = t.step + 1 /\ q.plan = t.plan /\ q.status = t.status
    BY <1>1, <2>2, WithStep
  <2> HIDE DEF q
  <2>4. CASE outcome = "ok" /\ BatchRound(q)
    <3>1. q.status = "none" /\ spoilt' = FALSE
      BY <1>1, <1>8, <1>15, <2>3, <2>4 DEF Looks
    <3>2. at' \in {"gate", "report"} /\ Fits(strategy, at', t', FALSE, lk, fallback, bs)
      BY <1>1, <2>2, <2>3, <2>4, <3>1, BatchRounded
    <3> QED
      BY <3>1, <3>2 DEF Goal
  <2> QED
    BY <1>6, <2>1, <2>4
<1>16. CASE t.child = "direct"
  BY <1>2, <1>6, <1>16, <1>a DEF Continue
<1>17. CASE t.child \in {"evidence", "read"}
  <2> DEFINE q == [t EXCEPT !.child = "read"]
             e == [t EXCEPT !.child = "none"]
  <2>1. (at' = "gate" /\ t' = q) \/ (at' = "report" /\ t' = e)
    <3>1. Captured
      BY <1>2, <1>17 DEF Continue
    <3> QED
      BY <3>1 DEF Captured, Child
  <2>2. "read" \in Children \cup {"none"} /\ "none" \in Children \cup {"none"}
    BY DEF Children
  <2>3. Rec(q) /\ q.child = "read" /\ q.tool = t.tool /\ q.status = t.status
    BY <1>1, <2>2, WithChild
  <2>4. Rec(e) /\ e.child = "none" /\ e.tool = t.tool /\ e.status = t.status
    BY <1>1, <2>2, WithChild
  <2>5. t.status = "completion_candidate" => ~spoilt'
    BY <1>1, <1>2, <1>17 DEF Failed
  <2> HIDE DEF q, e
  <2>6. CASE at' = "gate" /\ t' = q
    BY <1>1, <2>3, <2>5, <2>6 DEF Goal, Fits, Inside, Looks, Deciding
  <2>7. CASE at' = "report" /\ t' = e
    BY <1>1, <2>4, <2>5, <2>7 DEF Goal, Fits, Inside, Looks, Deciding
  <2> QED
    BY <2>1, <2>6, <2>7
<1>18. CASE t.child = "peek"
  BY <1>2, <1>18, <1>a DEF Continue
<1> QED
  BY <1>1, <1>10, <1>11, <1>12, <1>13, <1>14, <1>15, <1>16, <1>17, <1>18 DEF Children

-----------------------------------------------------------------------------
(* What a step has to show: the call moves on, or it stays in hand.        *)
LEMMA Landed ==
  ASSUME JevInv, BudgetInv', strategy' = strategy, view' \in Views, moves' \in 0 .. MaxMoves,
         told' \in {"none", "needs_help", "completion_candidate"},
         at' \in Places, Fits(strategy, at', t', spoilt', looked', fallback', base'),
         at' \in {"loop", "asked", "ended"} => t' = Fresh("none"),
         fallback' => told' = "needs_help",
         at' \in {"asked", "decide"} =>
           (limit'["maxCostUsd"] # None => used'["maxCostUsd"] <= limit'["maxCostUsd"])
  PROVE  JevInv'
<1>1. Where' = at'
  BY DEF Where, Places, Deciding, Inside
<1>2. TaskInv'
  BY <1>1 DEF TaskInv
<1>3. Affordable'
  BY <1>1 DEF Affordable
<1>4. t'.child \in Children \cup {"none"} /\ t'.step \in 0 .. Larger(MaxSteps, MaxPlan) /\ t'.tries \in 0 .. JevTries
  BY DEF Fits, Rec
<1>5. TypeOK' /\ strategy' \in Strategies
  BY DEF BudgetInv, JevInv, JevTypeOK
<1>6. at' \in {"loop", "asked", "called", "gate", "vet", "sent", "check", "decide",
               "report", "budget", "card", "handoff", "resumed", "ended"}
  BY DEF Places, Deciding, Inside
<1>7. JevTypeOK'
  BY <1>4, <1>5, <1>6 DEF JevTypeOK
<1> QED
  BY <1>2, <1>3, <1>7 DEF JevInv

LEMMA Stayed ==
  ASSUME JevInv, BudgetInv', UNCHANGED <<strategy, t, spoilt, looked, fallback, base, told>>,
         view' \in Views, moves' \in 0 .. MaxMoves, at' \in Places \cup {"handoff", "budget"},
         Where' = Where \/ {Where, Where'} \subseteq Inside, Affordable'
  PROVE  JevInv'
<1>1. TaskInv /\ JevTypeOK
  BY DEF JevInv
<1>2. Where' \in Places /\ (Where' \in {"loop", "asked", "ended"} => Where' = Where)
  BY <1>1 DEF TaskInv, Places, Inside
<1>3. Fits(strategy, Where', t, spoilt, looked, fallback, base)
  <2>1. Fits(strategy, Where, t, spoilt, looked, fallback, base)
    BY <1>1 DEF TaskInv
  <2>2. CASE Where' = Where
    BY <2>1, <2>2
  <2>3. CASE {Where, Where'} \subseteq Inside
    BY <2>1, <2>3 DEF Fits, Inside, Deciding
  <2> QED
    BY <2>2, <2>3
<1>4. TaskInv'
  BY <1>1, <1>2, <1>3 DEF TaskInv
<1>5. TypeOK'
  BY DEF BudgetInv
<1>6. at' \in {"loop", "asked", "called", "gate", "vet", "sent", "check", "decide",
               "report", "budget", "card", "handoff", "resumed", "ended"}
  BY DEF Places, Deciding, Inside
<1>7. JevTypeOK'
  BY <1>1, <1>5, <1>6 DEF JevTypeOK
<1> QED
  BY <1>4, <1>7 DEF JevInv

(* What a step may use of where it starts.                                 *)
LEMMA Standing ==
  ASSUME JevInv, at \notin {"handoff", "budget"}
  PROVE  /\ Where = at /\ BudgetInv /\ Rec(t)
         /\ Fits(strategy, at, t, spoilt, looked, fallback, base)
         /\ at \in {"loop", "asked", "ended"} => t = Fresh("none")
         /\ at \in {"called", "check", "decide"} => ~spoilt /\ t.status = "none"
         /\ at # "called" /\ t.tool = "browser_task" => ~fallback
         /\ fallback => told = "needs_help"
         /\ view \in Views /\ moves \in 0 .. MaxMoves
         /\ told \in {"none", "needs_help", "completion_candidate"}
<1>1. Where = at /\ TaskInv /\ JevTypeOK /\ BudgetInv
  BY DEF JevInv, Where
<1>2. Fits(strategy, at, t, spoilt, looked, fallback, base)
  BY <1>1 DEF TaskInv
<1>3. at \in {"called", "check", "decide"} => ~spoilt /\ t.status = "none"
  BY <1>2 DEF Fits, Deciding, Inside
<1>4. Rec(t) /\ (at # "called" /\ t.tool = "browser_task" => ~fallback)
  BY <1>2 DEF Fits
<1> QED
  BY <1>1, <1>2, <1>3, <1>4 DEF TaskInv, JevTypeOK

(* A call that is over, or one the planner has just made.                  *)
LEMMA FreshFits ==
  ASSUME NEW tool, NEW w, w \in {"loop", "asked", "ended", "called"}, NEW sp, w = "called" => ~sp,
         tool = "browser_task" => w = "called", NEW lk, NEW fb, NEW bs
  PROVE  Fits(strategy, w, Fresh(tool), sp, lk, fb, bs)
<1> DEFINE f == Fresh(tool)
<1>1. Rec(f) /\ f.tool = tool /\ f.child = "none" /\ f.status = "none" /\ f.step = 0
  BY FreshIs
<1> HIDE DEF f
<1>2. Fits(strategy, w, f, sp, lk, fb, bs)
  BY <1>1 DEF Fits, Inside, Looks, Deciding
<1> QED
  BY <1>2 DEF f

-----------------------------------------------------------------------------
(* One lemma per action.  First those that leave the call in hand.         *)
LEMMA ParkKeeps == ASSUME JevInv, Park PROVE JevInv'
<1>1. at \in {"loop", "check", "called", "gate"}
  BY DEF Park, PhaseAt
<1>2. Where = at /\ BudgetInv /\ view \in Views /\ moves \in 0 .. MaxMoves
  BY <1>1, Standing
<1>3. PICK l \in Limits : ParkAt(l, PhaseAt[at])
  BY DEF Park
<1>4. BudgetInv'
  BY <1>2, <1>3, ParkInv
<1>5. Where' = Where /\ UNCHANGED <<strategy, t, spoilt, looked, fallback, base, told, view, moves>>
  BY <1>2 DEF Park, Where, page
<1>6. Affordable'
  BY <1>1, <1>2, <1>5 DEF Affordable
<1>7. at' \in Places \cup {"handoff", "budget"}
  BY DEF Park
<1> QED
  BY <1>2, <1>4, <1>5, <1>6, <1>7, Stayed

LEMMA ExtendKeeps == ASSUME JevInv, Extend PROVE JevInv'
<1>1. Where = back /\ at' = back /\ Where \in Places /\ BudgetInv /\ Affordable
  BY DEF Extend, JevInv, TaskInv, Where
<1>2. PICK action \in Actions : ResumeBudget(action)
  BY DEF Extend
<1>3. BudgetInv'
  BY <1>1, <1>2, ExtendInv
<1>4. Where' = Where /\ at' \in Places \cup {"handoff", "budget"}
  BY <1>1 DEF Where, Places, Inside, Deciding
<1>5. used' = used /\ [Next]_vars
  BY <1>2 DEF ResumeBudget, Next
<1>6. limit'["maxCostUsd"] # limit["maxCostUsd"] =>
        limit["maxCostUsd"] # None /\ (limit'["maxCostUsd"] = None \/ limit'["maxCostUsd"] > limit["maxCostUsd"])
  BY <1>1, <1>5, StepLimits DEF Limits
<1>7. /\ limit["maxCostUsd"] \in Nat \cup {None} /\ limit'["maxCostUsd"] \in Nat \cup {None}
      /\ used["maxCostUsd"] \in Nat
  BY <1>1, <1>3 DEF BudgetInv, TypeOK, Limits
<1>8. Affordable'
  BY <1>1, <1>4, <1>5, <1>6, <1>7, NoneAssumption DEF Affordable
<1>9. /\ UNCHANGED <<strategy, t, spoilt, looked, fallback, base, told>>
      /\ view' \in Views /\ moves' \in 0 .. MaxMoves
  BY DEF Extend, page, JevInv, JevTypeOK
<1> QED
  BY <1>3, <1>4, <1>8, <1>9, Stayed

(* A step within a child call, or one that only starts or ends a wait.     *)
LEMMA WaitKeeps ==
  ASSUME JevInv, Cleared \/ Send \/ OpenCard \/ CloseCard \/ HandOff \/ HandBack
  PROVE  JevInv'
<1>1. Where \in Places /\ BudgetInv /\ JevTypeOK
  BY DEF JevInv, TaskInv
<1>2. UNCHANGED vars \/ PauseClock \/ ResumeClock
  BY DEF Cleared, Send, OpenCard, CloseCard, HandOff, HandBack
<1>3. BudgetInv'
  BY <1>1, <1>2, StillInv, PauseInv, ResumeInv
<1>4. limit' = limit /\ used' = used
  BY <1>2 DEF vars, PauseClock, ResumeClock
<1>5. /\ UNCHANGED <<strategy, t, spoilt, looked, fallback, base, told>>
      /\ view' = view /\ moves' = moves
  BY DEF Cleared, Send, OpenCard, CloseCard, HandOff, HandBack, page
<1>6. Where' = Where \/ {Where, Where'} \subseteq Inside
  <2>1. CASE Cleared \/ Send \/ OpenCard \/ CloseCard
    BY <2>1 DEF Cleared, Send, OpenCard, CloseCard, Where, Inside
  <2>2. CASE HandOff
    BY <2>2 DEF HandOff, Where, Inside
  <2>3. CASE HandBack
    BY <1>1, <2>3 DEF HandBack, Where, Places, Inside, Deciding
  <2> QED
    BY <2>1, <2>2, <2>3
<1>7. at' \in Places \cup {"handoff", "budget"}
  BY <1>1 DEF Cleared, Send, OpenCard, CloseCard, HandOff, HandBack, Where, Places, Inside
<1>8. Affordable'
  BY <1>4, <1>6 DEF JevInv, Affordable, Inside
<1> QED
  BY <1>1, <1>3, <1>5, <1>6, <1>7, <1>8, Stayed DEF JevTypeOK

(* The human takes over or stops the run, the page moves, time passes.     *)
LEMMA AsideKeeps == ASSUME JevInv, Takeover \/ Stop \/ PageMoves \/ TimePasses PROVE JevInv'
<1>1. Where \in Places /\ BudgetInv /\ JevTypeOK /\ Affordable
  BY DEF JevInv, TaskInv
<1>2. UNCHANGED vars \/ PauseClock \/ Tick
  BY DEF Takeover, Stop, PageMoves, TimePasses
<1>3. BudgetInv'
  BY <1>1, <1>2, StillInv, PauseInv, TickInv
<1>4. limit' = limit /\ used' = used
  BY <1>2 DEF vars, PauseClock, Tick
<1>5. UNCHANGED <<strategy, at, back, t, spoilt, looked, fallback, base, told>>
  BY DEF Takeover, Stop, PageMoves, TimePasses, page, task
<1>6. view' \in Views /\ moves' \in 0 .. MaxMoves
  <2>1. CASE PageMoves
    BY <1>1, <2>1, JevAssumption DEF PageMoves, JevTypeOK
  <2>2. CASE Takeover \/ Stop \/ TimePasses
    BY <1>1, <2>2 DEF Takeover, Stop, TimePasses, page, task, JevTypeOK
  <2> QED
    BY <2>1, <2>2
<1>7. Where' = Where /\ at' \in Places \cup {"handoff", "budget"}
  BY <1>1, <1>5 DEF Where
<1>8. Affordable'
  BY <1>1, <1>4, <1>7 DEF Affordable
<1> QED
  BY <1>3, <1>5, <1>6, <1>7, <1>8, Stayed

-----------------------------------------------------------------------------
(* A check of the budget before a model call leaves room for its bill.     *)
LEMMA RoomForATurn ==
  ASSUME BudgetInv, Passed("model"), limit["maxCostUsd"] # None
  PROVE  used["maxCostUsd"] <= limit["maxCostUsd"]
<1>1. ~Reached("maxCostUsd")
  BY DEF Passed, Clear, Checked, Limits
<1> QED
  BY <1>1 DEF Reached, Used, BudgetInv, TypeOK, Limits

(* The planner's turn and the calls it makes.                              *)
LEMMA AskKeeps == ASSUME JevInv, Ask PROVE JevInv'
<1>1. at = "loop" /\ at' = "asked" /\ UNCHANGED <<strategy, t, fallback, view, base, moves, told, spoilt, looked, vars>>
  BY DEF Ask
<1>2. /\ BudgetInv /\ t = Fresh("none") /\ (fallback => told = "needs_help")
      /\ view \in Views /\ moves \in 0 .. MaxMoves /\ told \in {"none", "needs_help", "completion_candidate"}
  BY <1>1, Standing
<1>3. BudgetInv'
  BY <1>1, <1>2, StillInv
<1>4. limit'["maxCostUsd"] # None => used'["maxCostUsd"] <= limit'["maxCostUsd"]
  BY <1>1, <1>2, RoomForATurn DEF Ask, vars
<1>5. Fits(strategy, at', t', spoilt', looked', fallback', base')
  BY <1>1, <1>2, FreshFits
<1> QED
  BY <1>1, <1>2, <1>3, <1>4, <1>5, Landed DEF Places

LEMMA AnswerKeeps == ASSUME JevInv, Answer PROVE JevInv'
<1>1. /\ at = "asked" /\ UNCHANGED <<strategy, fallback, view, base, moves, told>>
      /\ spoilt' = FALSE /\ looked' = FALSE
  BY DEF Answer, page
<1>2. /\ BudgetInv /\ t = Fresh("none") /\ (fallback => told = "needs_help") /\ Where = at
      /\ view \in Views /\ moves \in 0 .. MaxMoves /\ told \in {"none", "needs_help", "completion_candidate"}
  BY <1>1, Standing
<1>3. BudgetInv'
  <2>1. PICK cost \in 0 .. MaxTurnCost : Bill(cost)
    BY DEF Answer
  <2>2. limit["maxCostUsd"] # None => used["maxCostUsd"] <= limit["maxCostUsd"]
    BY <1>1, <1>2 DEF JevInv, Affordable
  <2> QED
    BY <1>2, <2>1, <2>2, BillInv
<1>4. \/ at' = "called" /\ \E tool \in Tools : t' = Fresh(tool)
      \/ at' = "ended" /\ t' = Fresh("none")
  BY <1>2 DEF Answer
<1>5. Fits(strategy, at', t', spoilt', looked', fallback', base')
  BY <1>1, <1>4, FreshFits
<1>6. at' \in {"called", "ended"} /\ (at' = "ended" => t' = Fresh("none"))
  BY <1>4
<1> QED
  BY <1>1, <1>2, <1>3, <1>5, <1>6, Landed DEF Places

(* The run throws, or a call is skipped, refused or reported.              *)
LEMMA OverKeeps == ASSUME JevInv, SkipCall \/ RefuseCall \/ Report \/ Throws PROVE JevInv'
<1>1. /\ at' \in {"loop", "ended"} /\ t' = Fresh("none") /\ UNCHANGED <<strategy, view, base, moves>>
      /\ UNCHANGED vars \/ Counted \/ ResumeClock
  BY DEF SkipCall, RefuseCall, Report, Throws, page
<1>2. /\ BudgetInv /\ (fallback => told = "needs_help") /\ view \in Views /\ moves \in 0 .. MaxMoves
      /\ told \in {"none", "needs_help", "completion_candidate"}
  BY DEF JevInv, TaskInv, JevTypeOK
<1>3. BudgetInv'
  BY <1>1, <1>2, StillInv, CallInv, ResumeInv
<1>4. /\ fallback' => told' = "needs_help"
      /\ told' \in {"none", "needs_help", "completion_candidate"}
  <2>1. CASE Report /\ t.tool = "browser_task"
    <3>1. ~fallback /\ t.status \in Statuses
      BY <2>1, Standing DEF Report, Rec
    <3> QED
      BY <2>1, <3>1 DEF Report, ReportsTask, TaskStatus, Statuses
  <2>2. CASE ~(Report /\ t.tool = "browser_task")
    BY <1>2, <2>2 DEF SkipCall, RefuseCall, Report, Throws
  <2> QED
    BY <2>1, <2>2
<1>5. Fits(strategy, at', t', spoilt', looked', fallback', base')
  BY <1>1, FreshFits
<1> QED
  BY <1>1, <1>2, <1>3, <1>4, <1>5, Landed DEF Places

-----------------------------------------------------------------------------
(* The calls of the planner.                                               *)
LEMMA BeginTaskKeeps == ASSUME JevInv, BeginTask PROVE JevInv'
<1>1. /\ at = "called" /\ UNCHANGED <<strategy, view, base, moves, told, spoilt, looked, vars>>
      /\ fallback' = FALSE /\ t.tool = "browser_task"
  BY DEF BeginTask, TakesFallback, page
<1>2. /\ BudgetInv /\ Rec(t) /\ ~spoilt /\ t.status = "none" /\ view \in Views /\ moves \in 0 .. MaxMoves
      /\ told \in {"none", "needs_help", "completion_candidate"}
  BY <1>1, Standing
<1>3. BudgetInv'
  BY <1>1, <1>2, StillInv
<1>4. at' \in {"gate", "report"} /\ Fits(strategy, at', t', spoilt', looked', fallback', base')
  <2>1. CASE Round(0, t)
    <3>1. 0 \in 0 .. MaxSteps
      BY JevAssumption
    <3>2. at' \in {"gate", "report"} /\ Fits(strategy, at', t', FALSE, looked, FALSE, base)
      BY <1>2, <2>1, <3>1, Rounded
    <3> QED
      BY <1>1, <1>2, <3>2 DEF Fits
  <2>2. CASE Child("navigate", t)
    <3> DEFINE q == [t EXCEPT !.child = "navigate"]
    <3>1. "navigate" \in Children \cup {"none"}
      BY DEF Children
    <3>2. Rec(q) /\ q.child = "navigate" /\ q.status = "none"
      BY <1>2, <3>1, WithChild
    <3>3. at' = "gate" /\ t' = q
      BY <2>2 DEF Child
    <3> HIDE DEF q
    <3>4. Fits(strategy, "gate", q, spoilt, looked, FALSE, base)
      BY <1>2, <3>2 DEF Fits, Inside, Looks, Deciding
    <3> QED
      BY <1>1, <3>3, <3>4
  <2> QED
    BY <2>1, <2>2 DEF BeginTask
<1> QED
  BY <1>1, <1>2, <1>3, <1>4, Landed DEF Places, Inside

LEMMA BeginBatchKeeps == ASSUME JevInv, BeginBatch PROVE JevInv'
<1>1. /\ at = "called" /\ UNCHANGED <<strategy, fallback, view, base, moves, told, spoilt, looked, vars>>
      /\ t.tool = "browser_batch"
  BY DEF BeginBatch, page
<1>2. /\ BudgetInv /\ Rec(t) /\ ~spoilt /\ t.status = "none" /\ view \in Views /\ moves \in 0 .. MaxMoves
      /\ told \in {"none", "needs_help", "completion_candidate"} /\ (fallback => told = "needs_help")
  BY <1>1, Standing
<1>3. BudgetInv'
  BY <1>1, <1>2, StillInv
<1>4. t.step = 0
  BY <1>1, Standing DEF Fits
<1>5. at' \in {"gate", "report"} /\ Fits(strategy, at', t', FALSE, looked, fallback, base)
  <2>1. CASE Finish("needs_help", t)
    BY <1>1, <2>1, Finished DEF Statuses
  <2>2. ASSUME NEW n \in 0 .. MaxPlan, NEW bare \in BOOLEAN,
               BatchRound([t EXCEPT !.plan = n, !.bare = bare, !.plannedOn = base])
        PROVE  at' \in {"gate", "report"} /\ Fits(strategy, at', t', FALSE, looked, fallback, base)
    <3> DEFINE q == [t EXCEPT !.plan = n, !.bare = bare, !.plannedOn = base]
    <3>1. Rec(q) /\ q.tool = t.tool /\ q.step = 0 /\ q.plan = n /\ q.status = "none"
      <4> DEFINE x == [t EXCEPT !.plan = n]
                 y == [x EXCEPT !.bare = bare]
                 z == [y EXCEPT !.plannedOn = base]
      <4>1. q = z
        BY Split
      <4>2. Rec(x) /\ x.tool = t.tool /\ x.step = 0 /\ x.plan = n /\ x.status = "none"
        BY <1>2, <1>4, WithPlan
      <4> HIDE DEF x
      <4>3. Rec(y) /\ y.tool = t.tool /\ y.step = 0 /\ y.plan = n /\ y.status = "none"
        BY <4>2, WithPage
      <4> HIDE DEF y
      <4>4. Rec(z) /\ z.tool = t.tool /\ z.step = 0 /\ z.plan = n /\ z.status = "none"
        BY <4>3, WithPage
      <4> HIDE DEF q, z
      <4> QED
        BY <4>1, <4>4
    <3>2. BatchRound(q)
      BY <2>2
    <3> HIDE DEF q
    <3>3. q.step <= q.plan
      BY <3>1, JevAssumption
    <3> QED
      BY <1>1, <3>1, <3>2, <3>3, BatchRounded
  <2> QED
    BY <2>1, <2>2 DEF BeginBatch, Planned
<1>6. Fits(strategy, at', t', spoilt', looked', fallback', base')
  BY <1>1, <1>2, <1>5 DEF Fits
<1> QED
  BY <1>1, <1>2, <1>3, <1>5, <1>6, Landed DEF Places, Inside

LEMMA BeginDirectKeeps == ASSUME JevInv, BeginDirect PROVE JevInv'
<1>1. /\ at = "called" /\ UNCHANGED <<strategy, fallback, view, base, moves, told, spoilt, looked, vars>>
      /\ t.tool \in {"browser_act", "browser_fallback"} /\ at' = "gate"
  BY DEF BeginDirect, Child, page
<1>2. /\ BudgetInv /\ Rec(t) /\ ~spoilt /\ t.status = "none" /\ view \in Views /\ moves \in 0 .. MaxMoves
      /\ told \in {"none", "needs_help", "completion_candidate"} /\ (fallback => told = "needs_help")
  BY <1>1, Standing
<1>3. BudgetInv'
  BY <1>1, <1>2, StillInv
<1>4. PICK c \in {"direct", "peek"} : t' = [t EXCEPT !.child = c] /\ (c = "direct" => ~Refused(t.tool))
  BY DEF BeginDirect, Child
<1> DEFINE q == [t EXCEPT !.child = c]
<1>5. Rec(q) /\ q.child = c /\ q.tool = t.tool /\ q.status = "none"
  <2>1. c \in Children \cup {"none"}
    BY DEF Children
  <2> QED
    BY <1>2, <2>1, WithChild
<1>6. t' = q
  BY <1>4
<1> HIDE DEF q
<1>7. Fits(strategy, "gate", q, spoilt, looked, fallback, base)
  BY <1>1, <1>2, <1>4, <1>5 DEF Fits, Inside, Looks, Deciding, Refused
<1> QED
  BY <1>1, <1>2, <1>3, <1>6, <1>7, Landed DEF Places, Inside

(* A decision: checked, asked for, retried, refused or answered.           *)
LEMMA DecidesKeeps == ASSUME JevInv, Decides PROVE JevInv'
<1>1. at = "check" /\ UNCHANGED <<strategy, fallback, view, base, moves, told, spoilt, looked, vars>>
  BY DEF Decides, page
<1>2. /\ BudgetInv /\ Rec(t) /\ ~spoilt /\ t.status = "none" /\ view \in Views /\ moves \in 0 .. MaxMoves
      /\ told \in {"none", "needs_help", "completion_candidate"} /\ (fallback => told = "needs_help")
      /\ t.tool = "browser_task" => ~fallback
      /\ Fits(strategy, at, t, spoilt, looked, fallback, base)
  BY <1>1, Standing
<1>3. BudgetInv'
  BY <1>1, <1>2, StillInv
<1>4. limit'["maxCostUsd"] # None => used'["maxCostUsd"] <= limit'["maxCostUsd"]
  BY <1>1, <1>2, RoomForATurn DEF Decides, vars
<1>5. at' \in {"gate", "report", "decide"} /\ Fits(strategy, at', t', spoilt, looked, fallback, base)
  <2>1. CASE Finish("needs_help", t)
    BY <1>2, <2>1, Finished DEF Statuses
  <2>2. CASE at' = "decide" /\ t' = t
    BY <1>1, <1>2, <2>2 DEF Fits, Inside, Deciding
  <2> QED
    BY <2>1, <2>2 DEF Decides
<1> QED
  BY <1>1, <1>2, <1>3, <1>4, <1>5, Landed DEF Places, Inside, Deciding

LEMMA RetriesKeeps == ASSUME JevInv, JevRetries PROVE JevInv'
<1> DEFINE q == [t EXCEPT !.tries = t.tries + 1]
<1>1. /\ at = "decide" /\ at' = at /\ UNCHANGED <<strategy, fallback, view, base, moves, told, spoilt, looked, vars>>
      /\ t.tries < JevTries /\ t' = q
  BY DEF JevRetries, page
<1>2. /\ BudgetInv /\ Rec(t) /\ view \in Views /\ moves \in 0 .. MaxMoves /\ Where = at
      /\ told \in {"none", "needs_help", "completion_candidate"} /\ (fallback => told = "needs_help")
      /\ Fits(strategy, at, t, spoilt, looked, fallback, base)
  BY <1>1, Standing
<1>3. BudgetInv'
  BY <1>1, <1>2, StillInv
<1>4. limit'["maxCostUsd"] # None => used'["maxCostUsd"] <= limit'["maxCostUsd"]
  BY <1>1, <1>2 DEF JevInv, Affordable, vars
<1>5. t.tries + 1 \in 0 .. JevTries
  BY <1>1, <1>2, JevAssumption DEF Rec
<1>6. Alike(q, t)
  BY <1>2, <1>5, WithTries
<1> HIDE DEF q
<1>7. Fits(strategy, at, q, spoilt, looked, fallback, base)
  BY <1>2, <1>6 DEF Fits, Alike
<1> QED
  BY <1>1, <1>2, <1>3, <1>4, <1>7, Landed DEF Places, Deciding

LEMMA FailsKeeps == ASSUME JevInv, JevFails PROVE JevInv'
<1>1. at = "decide" /\ UNCHANGED <<strategy, fallback, view, base, moves, told, spoilt, looked, vars>>
  BY DEF JevFails, page
<1>2. /\ BudgetInv /\ view \in Views /\ moves \in 0 .. MaxMoves
      /\ told \in {"none", "needs_help", "completion_candidate"} /\ (fallback => told = "needs_help")
      /\ t.tool = "browser_task" => ~fallback
  BY <1>1, Standing
<1>3. BudgetInv'
  BY <1>1, <1>2, StillInv
<1>4. at' \in {"gate", "report"} /\ Fits(strategy, at', t', spoilt, looked, fallback, base)
  BY <1>2, Finished DEF JevFails, NoDecision, Statuses
<1> QED
  BY <1>1, <1>2, <1>3, <1>4, Landed DEF Places, Inside

LEMMA Chosen ==
  ASSUME NEW kind, Acts(kind), Rec(t), t.status = "none", t.step < MaxSteps, NEW lk, lk,
         NEW fb, NEW bs, t.tool = "browser_task" => ~fb
  PROVE  at' \in {"gate", "report"} /\ Fits(strategy, at', t', FALSE, lk, fb, bs)
<1> DEFINE m == [t.seen EXCEPT ![<<base, kind>>] = t.seen[<<base, kind>>] + 1]
           r == [t EXCEPT !.kind = kind, !.seen = m, !.tries = 0]
           x == [t EXCEPT !.kind = kind]
           y == [x EXCEPT !.seen = m]
           z == [y EXCEPT !.tries = 0]
           q == [z EXCEPT !.child = "act"]
<1>1. Finish("needs_help", t) \/ (at' = "gate" /\ t' = [r EXCEPT !.child = "act"])
  BY DEF Acts, Child
<1>2. r = z
  BY Split
<1> HIDE DEF m, r
<1>3. Finish("needs_help", t) \/ (at' = "gate" /\ t' = q)
  BY <1>1, <1>2
<1>4. Alike(x, t)
  BY WithOther
<1> HIDE DEF x
<1>5. Alike(y, t)
  <2>0. Rec(x)
    BY <1>4 DEF Alike
  <2>1. Alike(y, x)
    BY <2>0, WithOther
  <2> HIDE DEF y
  <2> QED
    BY <1>4, <2>1 DEF Alike
<1> HIDE DEF y
<1>6. Alike(z, t)
  <2>1. 0 \in 0 .. JevTries
    BY JevAssumption
  <2>2. Rec(y)
    BY <1>5 DEF Alike
  <2>3. Alike(z, y)
    BY <2>1, <2>2, WithTries
  <2> HIDE DEF z
  <2> QED
    BY <1>5, <2>3 DEF Alike
<1> HIDE DEF z
<1>7. Rec(q) /\ q.child = "act" /\ q.tool = t.tool /\ q.step = t.step /\ q.status = "none"
  <2>1. "act" \in Children \cup {"none"}
    BY DEF Children
  <2> QED
    BY <1>6, <2>1, WithChild DEF Alike
<1> HIDE DEF q
<1>8. CASE Finish("needs_help", t)
  BY <1>8, Finished DEF Statuses
<1>9. CASE at' = "gate" /\ t' = q
  BY <1>7, <1>9 DEF Fits, Inside, Looks, Deciding
<1> QED
  BY <1>3, <1>8, <1>9

LEMMA ReplyKeeps == ASSUME JevInv, Reply PROVE JevInv'
<1>1. at = "decide" /\ UNCHANGED <<strategy, fallback, view, base, moves, told, spoilt, looked>>
  BY DEF Reply, page
<1>2. /\ BudgetInv /\ Rec(t) /\ ~spoilt /\ t.status = "none" /\ view \in Views /\ moves \in 0 .. MaxMoves
      /\ told \in {"none", "needs_help", "completion_candidate"} /\ (fallback => told = "needs_help")
      /\ t.tool = "browser_task" => ~fallback
      /\ Fits(strategy, at, t, spoilt, looked, fallback, base) /\ Where = at
  BY <1>1, Standing
<1>3. BudgetInv'
  <2>1. PICK cost \in 0 .. MaxTurnCost : Bill(cost)
    BY DEF Reply
  <2>2. limit["maxCostUsd"] # None => used["maxCostUsd"] <= limit["maxCostUsd"]
    BY <1>1, <1>2 DEF JevInv, Affordable
  <2> QED
    BY <1>2, <2>1, <2>2, BillInv
<1>4. looked /\ t.step < MaxSteps
  BY <1>1, <1>2 DEF Fits, Deciding
<1>5. at' \in {"gate", "report"} /\ Fits(strategy, at', t', FALSE, looked, fallback, base)
  <2>1. \/ Finish("needs_help", t) \/ Finish("completion_candidate", t)
        \/ \E kind \in Kinds : Acts(kind)
    BY DEF Reply
  <2>2. CASE Finish("needs_help", t) \/ Finish("completion_candidate", t)
    BY <1>2, <2>2, Finished DEF Statuses
  <2>3. CASE \E kind \in Kinds : Acts(kind)
    BY <1>2, <1>4, <2>3, Chosen
  <2> QED
    BY <2>1, <2>2, <2>3
<1>6. Fits(strategy, at', t', spoilt', looked', fallback', base')
  BY <1>1, <1>2, <1>5 DEF Fits
<1> QED
  BY <1>1, <1>2, <1>3, <1>5, <1>6, Landed DEF Places, Inside

-----------------------------------------------------------------------------
(* A child call that ends, in whatever way.                                *)
LEMMA ReturnKeeps ==
  ASSUME JevInv, at \in {"gate", "vet", "resumed", "sent"}, BudgetInv', NEW outcome, Returns(outcome),
         t.child = "observe" /\ outcome = "ok" => looked',
         t.child = "look" /\ outcome = "ok" => base' = view,
         UNCHANGED <<strategy, fallback, told, moves>>, view' \in Views
  PROVE  JevInv'
<1>1. /\ Fits(strategy, at, t, spoilt, looked, fallback, base) /\ (fallback => told = "needs_help")
      /\ moves \in 0 .. MaxMoves /\ told \in {"none", "needs_help", "completion_candidate"}
  BY Standing
<1>2. at \in Inside
  BY DEF Inside
<1>3. at' \in {"gate", "report", "check"} /\ Fits(strategy, at', t', spoilt', looked', fallback, base')
  BY <1>1, <1>2, Continued
<1> QED
  BY <1>1, <1>3, Landed DEF Places, Inside, Deciding

LEMMA SkippedKeeps == ASSUME JevInv, Skipped \/ Denied \/ Resumed PROVE JevInv'
<1>1. /\ at \in {"gate", "vet", "resumed"} /\ UNCHANGED <<strategy, fallback, view, base, moves, told, looked>>
      /\ UNCHANGED vars \/ Counted
  BY DEF Skipped, Denied, Resumed, page
<1>2. PICK outcome \in {"skipped", "denied", "error", "resumed"} : Returns(outcome)
  BY DEF Skipped, Denied, Resumed
<1>3. BudgetInv /\ view \in Views
  BY <1>1, Standing
<1>4. BudgetInv'
  BY <1>1, <1>3, StillInv, CallInv
<1> QED
  BY <1>1, <1>2, <1>3, <1>4, ReturnKeeps

LEMMA PerformedKeeps == ASSUME JevInv, Performed PROVE JevInv'
<1>1. at = "sent" /\ Counted /\ UNCHANGED <<strategy, fallback, moves, told>> /\ looked' = (t.child = "observe")
  BY DEF Performed
<1>2. BudgetInv /\ view \in Views
  BY <1>1, Standing
<1>3. BudgetInv' /\ view' \in Views
  BY <1>1, <1>2, CallInv DEF Performed
<1>4. PICK outcome : Returns(outcome) /\ (outcome = "ok" /\ t.child \notin Mutating => base' = view)
  BY DEF Performed
<1>5. t.child = "look" /\ outcome = "ok" => base' = view
  BY <1>4 DEF Mutating
<1>6. t.child = "observe" => looked'
  BY <1>1
<1> QED
  BY <1>1, <1>3, <1>4, <1>5, <1>6, ReturnKeeps

-----------------------------------------------------------------------------
LEMMA JevInitInv == JevInit => JevInv
<1> SUFFICES ASSUME JevInit PROVE JevInv
  OBVIOUS
<1>1. BudgetInv /\ TypeOK
  BY InitInv DEF JevInit, BudgetInv
<1>2. t = Fresh("none") /\ at = "loop" /\ Where = "loop" /\ told \in {"none", "needs_help"} /\ (fallback => told = "needs_help")
  BY DEF JevInit, Where
<1>3. Fits(strategy, "loop", t, spoilt, looked, fallback, base)
  BY <1>2, FreshFits
<1>4. TaskInv
  BY <1>2, <1>3 DEF TaskInv, Places
<1>5. Affordable
  BY <1>2 DEF Affordable
<1>6. t.child \in Children \cup {"none"} /\ t.step \in 0 .. Larger(MaxSteps, MaxPlan) /\ t.tries \in 0 .. JevTries
  BY <1>3 DEF Fits, Rec
<1>7. moves \in 0 .. MaxMoves /\ view \in Views /\ strategy \in Strategies
  BY JevAssumption DEF JevInit
<1>8. JevTypeOK
  BY <1>1, <1>2, <1>6, <1>7 DEF JevTypeOK
<1> QED
  BY <1>1, <1>4, <1>5, <1>8 DEF JevInv

LEMMA JevStep == JevInv /\ [JevNext]_<<task, vars>> => JevInv'
<1>1. JevInv /\ JevNext => JevInv'
  BY ParkKeeps, ExtendKeeps, WaitKeeps, AsideKeeps, AskKeeps, AnswerKeeps, OverKeeps, BeginTaskKeeps,
     BeginBatchKeeps, BeginDirectKeeps, DecidesKeeps, RetriesKeeps, FailsKeeps, ReplyKeeps, SkippedKeeps,
     PerformedKeeps DEF JevNext
<1>2. JevInv /\ UNCHANGED <<task, vars>> => JevInv'
  <2> SUFFICES ASSUME JevInv, UNCHANGED <<task, vars>> PROVE JevInv'
    OBVIOUS
  <2>1. UNCHANGED <<strategy, at, back, t, spoilt, looked, fallback, base, told, view, moves>>
        /\ UNCHANGED <<limit, used, vars>>
    BY DEF task, page, vars
  <2>2. BudgetInv' /\ view' \in Views /\ moves' \in 0 .. MaxMoves /\ Where' = Where
        /\ at' \in Places \cup {"handoff", "budget"}
    BY <2>1, StillInv DEF JevInv, JevTypeOK, TaskInv, Where
  <2>3. Affordable'
    BY <2>1, <2>2 DEF JevInv, Affordable
  <2> QED
    BY <2>1, <2>2, <2>3, Stayed
<1> QED
  BY <1>1, <1>2

LEMMA JevInvariance == JevSpec => []JevInv
  BY JevInitInv, JevStep, PTL DEF JevSpec

(* The budget's promise under the delegation, whose model calls are billed *)
(* an await after the check that let them go: cost passes its limit by at  *)
(* most one turn's.                                                        *)
THEOREM DelegationInBudget == JevSpec => []BudgetHolds
<1>1. JevInv => BudgetHolds
  BY DEF JevInv, BudgetInv, BudgetHolds
<1> QED
  BY <1>1, JevInvariance, PTL

(* And a limit that parked a delegation half way does not park it again.   *)
THEOREM DelegationExtended == JevSpec => ExtensionLifts
<1> DEFINE Lifts == \A l \in Limits : reason = l /\ reason' = None => ~Reached(l)'
<1>1. ASSUME JevInv, [JevNext]_<<task, vars>> PROVE [Lifts]_vars
  <2>1. CASE Extend
    <3>1. BudgetInv /\ [Next]_vars
      BY <1>1, <2>1 DEF Extend, Next, JevInv
    <3> QED
      BY <3>1, StepLimits
  <2>2. CASE ~Extend
    <3>1. reason' = None => reason = None
      <4>1. CASE Park
        BY <4>1, NoneAssumption DEF Park, ParkAt
      <4>2. CASE ~Park
        BY <1>1, <2>2, <4>2
           DEF JevNext, Ask, Answer, SkipCall, RefuseCall, Report, BeginTask, Decides, JevRetries, JevFails,
               Reply, BeginBatch, BeginDirect, Cleared, Skipped, OpenCard, CloseCard, Send, Denied, HandOff,
               HandBack, Resumed, Performed, Takeover, Stop, Throws, PageMoves, TimePasses, Bill, Counted,
               PauseClock, ResumeClock, Tick, vars
      <4> QED
        BY <4>1, <4>2
    <3> QED
      BY <3>1, NoneAssumption
  <2> QED
    BY <2>1, <2>2
<1>2. JevInv /\ [JevNext]_<<task, vars>> => [Lifts]_vars
  BY <1>1
<1> QED
  BY <1>2, JevInvariance, PTL DEF JevSpec, ExtensionLifts

(* Only runTool's last check lets an action go to the browser.             *)
LEMMA OnlySend == ASSUME JevInv, JevNext, at = "vet", at' = "sent" PROVE Send
<1>1. CASE Denied
  <2>1. Fits(strategy, at, t, spoilt, looked, fallback, base)
    BY Standing
  <2>2. PICK outcome \in {"denied", "error"} : Returns(outcome)
    BY <1>1 DEF Denied
  <2>3. at' \in {"gate", "report", "check"}
    BY <2>1, <2>2, Continued DEF Inside
  <2> QED
    BY <2>3
<1>2. ~Park /\ ~Extend
  BY DEF Park, PhaseAt, Extend
<1>3. ~Ask /\ ~Answer /\ ~SkipCall /\ ~RefuseCall /\ ~Report /\ ~BeginTask /\ ~BeginBatch /\ ~BeginDirect
  BY DEF Ask, Answer, SkipCall, RefuseCall, Report, BeginTask, BeginBatch, BeginDirect
<1>4. ~Decides /\ ~JevRetries /\ ~JevFails /\ ~Reply /\ ~Cleared /\ ~Skipped /\ ~Resumed /\ ~Performed
  BY DEF Decides, JevRetries, JevFails, Reply, Cleared, Skipped, Resumed, Performed
<1>5. ~OpenCard /\ ~CloseCard /\ ~HandOff /\ ~HandBack /\ ~Takeover /\ ~Stop /\ ~Throws /\ ~PageMoves /\ ~TimePasses
  BY DEF OpenCard, CloseCard, HandOff, HandBack, Takeover, Stop, Throws, PageMoves, TimePasses, task
<1> QED
  BY <1>1, <1>2, <1>3, <1>4, <1>5 DEF JevNext

(* No action reaches the page once its delegation has lost the control.    *)
THEOREM DelegationYields == JevSpec => ActsUnderItsControl
<1>1. JevInv /\ [JevNext]_<<task, vars>> => [Sends(Children) => Current]_<<task, vars>>
  BY OnlySend DEF Sends, Send, MaySend
<1> QED
  BY <1>1, JevInvariance, PTL DEF JevSpec, ActsUnderItsControl

(* No task goes on after a failure, acts on a page it has not looked at,   *)
(* or carries on with a plan that was made on another page.                *)
THEOREM NothingReplayed == JevSpec => NeverReplaysBlindly
<1> DEFINE Blind ==
      /\ Sends({"act", "try", "settle"}) => ~spoilt
      /\ Sends({"act"}) => looked
      /\ Sends({"try"}) /\ Compared => base = t.plannedOn
<1>1. ASSUME JevInv, [JevNext]_<<task, vars>> PROVE [Blind]_<<task, vars>>
  <2>1. CASE at = "vet"
    <3>1. Fits(strategy, at, t, spoilt, looked, fallback, base)
      BY <1>1, <2>1, Standing
    <3> QED
      BY <3>1 DEF Fits, Looks, Sends, Compared
  <2>2. CASE at # "vet"
    BY <2>2 DEF Sends
  <2> QED
    BY <2>1, <2>2
<1>2. JevInv /\ [JevNext]_<<task, vars>> => [Blind]_<<task, vars>>
  BY <1>1
<1> QED
  BY <1>2, JevInvariance, PTL DEF JevSpec, NeverReplaysBlindly

(* What a task calls done it did, and the page is opened to the planner's  *)
(* own hand by a task that needs help and by nothing else.                 *)
THEOREM ReportsHold == JevSpec => ReportsAreTrue
<1> DEFINE Honest ==
      /\ JevTypeOK'
      /\ at = "report" /\ t.tool = "browser_task" /\ told' = "completion_candidate" => Current /\ ~spoilt
      /\ Sends({"direct"}) /\ strategy # "hybrid" => t.tool = "browser_fallback" /\ told = "needs_help"
<1>1. ASSUME JevInv, JevNext PROVE Honest
  <2>1. JevTypeOK'
    BY <1>1, JevStep DEF JevInv
  <2>2. ASSUME at = "report", t.tool = "browser_task", told' = "completion_candidate"
        PROVE  Current /\ ~spoilt
    <3>1. Fits(strategy, at, t, spoilt, looked, fallback, base)
      BY <1>1, <2>2, Standing
    <3>2. ~Park /\ ~Extend /\ ~Throws /\ ~Takeover /\ ~Stop /\ ~PageMoves /\ ~TimePasses /\ ~HandOff /\ ~HandBack
      BY <2>2 DEF Park, PhaseAt, Extend, Throws, Takeover, Stop, PageMoves, TimePasses, Yielded, HandOff, HandBack
    <3>3. ~Ask /\ ~Answer /\ ~SkipCall /\ ~RefuseCall /\ ~BeginTask /\ ~BeginBatch /\ ~BeginDirect
      BY <2>2 DEF Ask, Answer, SkipCall, RefuseCall, BeginTask, BeginBatch, BeginDirect
    <3>4. ~Decides /\ ~JevRetries /\ ~JevFails /\ ~Reply /\ ~Cleared /\ ~Skipped /\ ~Resumed /\ ~Performed
      BY <2>2 DEF Decides, JevRetries, JevFails, Reply, Cleared, Skipped, Resumed, Performed
    <3>5. ~OpenCard /\ ~CloseCard /\ ~Send /\ ~Denied
      BY <2>2 DEF OpenCard, CloseCard, Send, Denied
    <3>6. Report
      BY <1>1, <3>2, <3>3, <3>4, <3>5 DEF JevNext
    <3>7. told' = TaskStatus
      BY <2>2, <3>6 DEF Report, ReportsTask
    <3> QED
      BY <2>2, <3>1, <3>7 DEF TaskStatus, Fits
  <2>3. ASSUME Sends({"direct"}), strategy # "hybrid"
        PROVE  t.tool = "browser_fallback" /\ told = "needs_help"
    <3>1. at = "vet" /\ t.child = "direct"
      BY <2>3 DEF Sends
    <3>2. Fits(strategy, at, t, spoilt, looked, fallback, base) /\ (fallback => told = "needs_help")
      BY <1>1, <3>1, Standing
    <3> QED
      BY <2>3, <3>1, <3>2 DEF Fits
  <2> QED
    BY <2>1, <2>2, <2>3
<1>2. JevInv /\ [JevNext]_<<task, vars>> => [Honest]_<<task, vars>>
  BY <1>1
<1> QED
  BY <1>2, JevInvariance, PTL DEF JevSpec, ReportsAreTrue

=============================================================================
