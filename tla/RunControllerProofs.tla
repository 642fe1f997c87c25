------------------------- MODULE RunControllerProofs -------------------------
(***************************************************************************)
(* TLAPS proofs about RunController, for every value of its constants.     *)
(*                                                                         *)
(* Inv is the inductive invariant: the properties the runs check, and how  *)
(* the controller's position goes together with the rest of its state.     *)
(* StepInv proves it action by action; the theorems read it off, or read   *)
(* an action property off it with StepLaws, or the refinement with         *)
(* StepPromise.                                                            *)
(***************************************************************************)
EXTENDS RunController, TLAPS

(* The labels of a tool call in progress.                                  *)
InCall ==
  \/ pc \in {"authorize", "granted", "declined", "approval", "cleared", "vet", "execute", "endCall"}
  \/ pc \in {"handoff", "unpark", "observe"} /\ back = "endCall"

(* How the controller's position and its other state go together.          *)
Position ==
  /\ state \in Terminal <=> pc \in {"closing", "ended"}
  /\ pc \in {"handoff", "unpark", "observe"} => back \in {"check1", "endCall"}
  /\ pc \in {"budget", "unbudget"} => back \in {"check1", "check2", "nextCall"}
  /\ row = "executing" => pc \in {"approval", "cleared", "vet", "execute"}
  /\ InCall => left > 0
  /\ authCard # NoCard => pc = "authorize" /\ authCard \in cards
  /\ pc \in {"cleared", "vet"} /\ ~aborted => cards = {}
  /\ state \in Terminal => cards = {} /\ ~humanPause
  /\ callCurrent => turnCurrent

(* What is being spent was there: the checks between two calls suffice.    *)
Affordable ==
  /\ NeverOverspent
  /\ InCall /\ toolsLeft \in Int => toolsLeft > 0
  /\ pc \in {"model", "compact"} /\ turnsLeft \in Int => turnsLeft > 0

(* A notice that is still owed to the model is not lost on the way.        *)
NoticeKept ==
  /\ blind => \/ reobserve
              \/ pc \in {"handoff", "unpark", "observe", "budget", "unbudget", "closing", "ended"}
              \/ pc \in {"check1", "check2", "compact"} /\ next # "results"
  /\ ModelNeverBlind

Inv == TypeOK /\ Position /\ ClockCountsWaiting /\ Affordable /\ NoticeKept

LEMMA InitInv == Init => Inv
  <1> SUFFICES ASSUME Init PROVE Inv
    OBVIOUS
  <1> USE NoCardAssumption, UnlimitedAssumption, LimitAssumption DEF Init
  <1>1. PlaceOK
    BY DEF PlaceOK, States, Terminal, Awaits, Running
  <1>2. FlagsOK
    BY DEF FlagsOK
  <1>3. LimitsOK
    BY DEF LimitsOK, Room, Limits, TimedLimits
  <1>4. WorkOK
    BY DEF WorkOK
  <1>5. Position
    BY DEF Position, InCall, Terminal
  <1>6. ClockCountsWaiting
    BY DEF ClockCountsWaiting, Waiting, Bit
  <1>7. Affordable
    BY DEF Affordable, NeverOverspent, InCall
  <1>8. NoticeKept
    BY DEF NoticeKept, ModelNeverBlind
  <1> QED
    BY <1>1, <1>2, <1>3, <1>4, <1>5, <1>6, <1>7, <1>8 DEF Inv, TypeOK

LEMMA StepInv == Inv /\ [Next]_vars => Inv'
  <1> SUFFICES ASSUME Inv, [Next]_vars PROVE Inv'
    OBVIOUS
  <1> USE NoCardAssumption, UnlimitedAssumption, LimitAssumption
      DEF Inv, TypeOK, PlaceOK, FlagsOK, LimitsOK, WorkOK, Position, InCall,
          ClockCountsWaiting, Waiting, Bit, Affordable, NeverOverspent, NoticeKept,
          ModelNeverBlind, Tell, PlanStale, CallStale, Exhausted, Drained, StopWakes, CurrentRun, Room, States, Terminal, TimedLimits, Limits, Awaits, Running,
          control, limits, steps, approval, work
  <1>1. CASE Start
    <2>1. TypeOK'
      BY <1>1 DEF Start
    <2>2. Position'
      BY <1>1 DEF Start
    <2>3. ClockCountsWaiting'
      BY <1>1 DEF Start
    <2>4. Affordable'
      BY <1>1 DEF Start
    <2>5. NoticeKept'
      BY <1>1 DEF Start
    <2> QED
      BY <2>1, <2>2, <2>3, <2>4, <2>5
  <1>2. CASE StopSeen
    <2>1. TypeOK'
      <3>1. PlaceOK'
        BY <1>2 DEF StopSeen, Finish
      <3>2. FlagsOK'
        BY <1>2 DEF StopSeen, Finish
      <3>3. LimitsOK'
        BY <1>2 DEF StopSeen, Finish
      <3>4. WorkOK'
        BY <1>2 DEF StopSeen, Finish
      <3> QED
        BY <3>1, <3>2, <3>3, <3>4
    <2>2. Position'
      BY <1>2 DEF StopSeen, Finish
    <2>3. ClockCountsWaiting'
      BY <1>2 DEF StopSeen, Finish
    <2>4. Affordable'
      BY <1>2 DEF StopSeen, Finish
    <2>5. NoticeKept'
      BY <1>2 DEF StopSeen, Finish
    <2> QED
      BY <2>1, <2>2, <2>3, <2>4, <2>5
  <1>3. CASE LoopTop
    <2>1. TypeOK'
      <3>1. PlaceOK'
        BY <1>3 DEF LoopTop, Handoff, Park, Goto
      <3>2. FlagsOK'
        BY <1>3 DEF LoopTop, Handoff, Park, Goto
      <3>3. LimitsOK'
        BY <1>3 DEF LoopTop, Handoff, Park, Goto
      <3>4. WorkOK'
        BY <1>3 DEF LoopTop, Handoff, Park, Goto
      <3> QED
        BY <3>1, <3>2, <3>3, <3>4
    <2>2. Position'
      BY <1>3 DEF LoopTop, Handoff, Park, Goto
    <2>3. ClockCountsWaiting'
      BY <1>3 DEF LoopTop, Handoff, Park, Goto
    <2>4. Affordable'
      BY <1>3 DEF LoopTop, Handoff, Park, Goto
    <2>5. NoticeKept'
      BY <1>3 DEF LoopTop, Handoff, Park, Goto
    <2> QED
      BY <2>1, <2>2, <2>3, <2>4, <2>5
  <1>4. CASE FirstCheck
    <2>1. TypeOK'
      <3>1. PlaceOK'
        BY <1>4 DEF FirstCheck, BudgetPause, Park, Goto, Reached, CompactionDue
      <3>2. FlagsOK'
        BY <1>4 DEF FirstCheck, BudgetPause, Park, Goto, Reached, CompactionDue
      <3>3. LimitsOK'
        BY <1>4 DEF FirstCheck, BudgetPause, Park, Goto, Reached, CompactionDue
      <3>4. WorkOK'
        BY <1>4 DEF FirstCheck, BudgetPause, Park, Goto, Reached, CompactionDue
      <3> QED
        BY <3>1, <3>2, <3>3, <3>4
    <2>2. Position'
      BY <1>4 DEF FirstCheck, BudgetPause, Park, Goto, Reached, CompactionDue
    <2>3. ClockCountsWaiting'
      BY <1>4 DEF FirstCheck, BudgetPause, Park, Goto, Reached, CompactionDue
    <2>4. Affordable'
      BY <1>4 DEF FirstCheck, BudgetPause, Park, Goto, Reached, CompactionDue
    <2>5. NoticeKept'
      BY <1>4 DEF FirstCheck, BudgetPause, Park, Goto, Reached, CompactionDue
    <2> QED
      BY <2>1, <2>2, <2>3, <2>4, <2>5
  <1>5. CASE SendTurn
    <2>1. TypeOK'
      <3>1. PlaceOK'
        BY <1>5 DEF SendTurn, BudgetPause, Park, Reached
      <3>2. FlagsOK'
        BY <1>5 DEF SendTurn, BudgetPause, Park, Reached
      <3>3. LimitsOK'
        BY <1>5 DEF SendTurn, BudgetPause, Park, Reached
      <3>4. WorkOK'
        BY <1>5 DEF SendTurn, BudgetPause, Park, Reached
      <3> QED
        BY <3>1, <3>2, <3>3, <3>4
    <2>2. Position'
      BY <1>5 DEF SendTurn, BudgetPause, Park, Reached
    <2>3. ClockCountsWaiting'
      BY <1>5 DEF SendTurn, BudgetPause, Park, Reached
    <2>4. Affordable'
      BY <1>5 DEF SendTurn, BudgetPause, Park, Reached
    <2>5. NoticeKept'
      BY <1>5 DEF SendTurn, BudgetPause, Park, Reached
    <2> QED
      BY <2>1, <2>2, <2>3, <2>4, <2>5
  <1>6. CASE BatchDone
    <2>1. TypeOK'
      BY <1>6 DEF BatchDone, Goto
    <2>2. Position'
      BY <1>6 DEF BatchDone, Goto
    <2>3. ClockCountsWaiting'
      BY <1>6 DEF BatchDone, Goto
    <2>4. Affordable'
      BY <1>6 DEF BatchDone, Goto
    <2>5. NoticeKept'
      BY <1>6 DEF BatchDone, Goto
    <2> QED
      BY <2>1, <2>2, <2>3, <2>4, <2>5
  <1>7. CASE NextCall
    <2>1. TypeOK'
      <3>1. PlaceOK'
        BY <1>7 DEF NextCall, BudgetPause, Park, Reached, Goto
      <3>2. FlagsOK'
        BY <1>7 DEF NextCall, BudgetPause, Park, Reached, Goto
      <3>3. LimitsOK'
        BY <1>7 DEF NextCall, BudgetPause, Park, Reached, Goto
      <3>4. WorkOK'
        BY <1>7 DEF NextCall, BudgetPause, Park, Reached, Goto
      <3> QED
        BY <3>1, <3>2, <3>3, <3>4
    <2>2. Position'
      BY <1>7 DEF NextCall, BudgetPause, Park, Reached, Goto
    <2>3. ClockCountsWaiting'
      BY <1>7 DEF NextCall, BudgetPause, Park, Reached, Goto
    <2>4. Affordable'
      BY <1>7 DEF NextCall, BudgetPause, Park, Reached, Goto
    <2>5. NoticeKept'
      BY <1>7 DEF NextCall, BudgetPause, Park, Reached, Goto
    <2> QED
      BY <2>1, <2>2, <2>3, <2>4, <2>5
  <1>8. CASE Granted
    <2>1. TypeOK'
      <3>1. PlaceOK'
        BY <1>8 DEF Granted, Goto
      <3>2. FlagsOK'
        BY <1>8 DEF Granted, Goto
      <3>3. LimitsOK'
        BY <1>8 DEF Granted, Goto
      <3>4. WorkOK'
        BY <1>8 DEF Granted, Goto
      <3> QED
        BY <3>1, <3>2, <3>3, <3>4
    <2>2. Position'
      BY <1>8 DEF Granted, Goto
    <2>3. ClockCountsWaiting'
      BY <1>8 DEF Granted, Goto
    <2>4. Affordable'
      BY <1>8 DEF Granted, Goto
    <2>5. NoticeKept'
      BY <1>8 DEF Granted, Goto
    <2> QED
      BY <2>1, <2>2, <2>3, <2>4, <2>5
  <1>9. CASE Declined
    <2>1. TypeOK'
      BY <1>9 DEF Declined, Goto
    <2>2. Position'
      BY <1>9 DEF Declined, Goto
    <2>3. ClockCountsWaiting'
      BY <1>9 DEF Declined, Goto
    <2>4. Affordable'
      BY <1>9 DEF Declined, Goto
    <2>5. NoticeKept'
      BY <1>9 DEF Declined, Goto
    <2> QED
      BY <2>1, <2>2, <2>3, <2>4, <2>5
  <1>10. CASE Cleared
    <2>1. TypeOK'
      BY <1>10 DEF Cleared
    <2>2. Position'
      BY <1>10 DEF Cleared
    <2>3. ClockCountsWaiting'
      BY <1>10 DEF Cleared
    <2>4. Affordable'
      BY <1>10 DEF Cleared
    <2>5. NoticeKept'
      BY <1>10 DEF Cleared
    <2> QED
      BY <2>1, <2>2, <2>3, <2>4, <2>5
  <1>11. CASE Vet
    <2>1. TypeOK'
      <3>1. PlaceOK'
        BY <1>11 DEF Vet, Finish, Goto
      <3>2. FlagsOK'
        BY <1>11 DEF Vet, Finish, Goto
      <3>3. LimitsOK'
        BY <1>11 DEF Vet, Finish, Goto
      <3>4. WorkOK'
        BY <1>11 DEF Vet, Finish, Goto
      <3> QED
        BY <3>1, <3>2, <3>3, <3>4
    <2>2. Position'
      BY <1>11 DEF Vet, Finish, Goto
    <2>3. ClockCountsWaiting'
      BY <1>11 DEF Vet, Finish, Goto
    <2>4. Affordable'
      BY <1>11 DEF Vet, Finish, Goto
    <2>5. NoticeKept'
      BY <1>11 DEF Vet, Finish, Goto
    <2> QED
      BY <2>1, <2>2, <2>3, <2>4, <2>5
  <1>12. CASE EndCall
    <2>1. TypeOK'
      BY <1>12 DEF EndCall, Spend
    <2>2. Position'
      BY <1>12 DEF EndCall, Spend
    <2>3. ClockCountsWaiting'
      BY <1>12 DEF EndCall, Spend
    <2>4. Affordable'
      BY <1>12 DEF EndCall, Spend
    <2>5. NoticeKept'
      BY <1>12 DEF EndCall, Spend
    <2> QED
      BY <2>1, <2>2, <2>3, <2>4, <2>5
  <1>13. CASE Unpark
    <2>1. TypeOK'
      <3>1. PlaceOK'
        BY <1>13 DEF Unpark, Finish
      <3>2. FlagsOK'
        BY <1>13 DEF Unpark, Finish
      <3>3. LimitsOK'
        BY <1>13 DEF Unpark, Finish
      <3>4. WorkOK'
        BY <1>13 DEF Unpark, Finish
      <3> QED
        BY <3>1, <3>2, <3>3, <3>4
    <2>2. Position'
      BY <1>13 DEF Unpark, Finish
    <2>3. ClockCountsWaiting'
      BY <1>13 DEF Unpark, Finish
    <2>4. Affordable'
      BY <1>13 DEF Unpark, Finish
    <2>5. NoticeKept'
      BY <1>13 DEF Unpark, Finish
    <2> QED
      BY <2>1, <2>2, <2>3, <2>4, <2>5
  <1>14. CASE Unbudget
    <2>1. TypeOK'
      <3>1. PlaceOK'
        BY <1>14 DEF Unbudget, Finish
      <3>2. FlagsOK'
        BY <1>14 DEF Unbudget, Finish
      <3>3. LimitsOK'
        BY <1>14 DEF Unbudget, Finish
      <3>4. WorkOK'
        BY <1>14 DEF Unbudget, Finish
      <3> QED
        BY <3>1, <3>2, <3>3, <3>4
    <2>2. Position'
      BY <1>14 DEF Unbudget, Finish
    <2>3. ClockCountsWaiting'
      BY <1>14 DEF Unbudget, Finish
    <2>4. Affordable'
      BY <1>14 DEF Unbudget, Finish
    <2>5. NoticeKept'
      BY <1>14 DEF Unbudget, Finish
    <2> QED
      BY <2>1, <2>2, <2>3, <2>4, <2>5
  <1>15. CASE ModelReturns
    <2>1. TypeOK'
      <3>1. PlaceOK'
        BY <1>15 DEF ModelReturns, CountTurn, Spend, Finish
      <3>2. FlagsOK'
        BY <1>15 DEF ModelReturns, CountTurn, Spend, Finish
      <3>3. LimitsOK'
        BY <1>15 DEF ModelReturns, CountTurn, Spend, Finish
      <3>4. WorkOK'
        BY <1>15 DEF ModelReturns, CountTurn, Spend, Finish
      <3> QED
        BY <3>1, <3>2, <3>3, <3>4
    <2>2. Position'
      BY <1>15 DEF ModelReturns, CountTurn, Spend, Finish
    <2>3. ClockCountsWaiting'
      BY <1>15 DEF ModelReturns, CountTurn, Spend, Finish
    <2>4. Affordable'
      BY <1>15 DEF ModelReturns, CountTurn, Spend, Finish
    <2>5. NoticeKept'
      BY <1>15 DEF ModelReturns, CountTurn, Spend, Finish
    <2> QED
      BY <2>1, <2>2, <2>3, <2>4, <2>5
  <1>16. CASE ModelFails
    <2>1. TypeOK'
      <3>1. PlaceOK'
        BY <1>16 DEF ModelFails, Finish, Ending
      <3>2. FlagsOK'
        BY <1>16 DEF ModelFails, Finish, Ending
      <3>3. LimitsOK'
        BY <1>16 DEF ModelFails, Finish, Ending
      <3>4. WorkOK'
        BY <1>16 DEF ModelFails, Finish, Ending
      <3> QED
        BY <3>1, <3>2, <3>3, <3>4
    <2>2. Position'
      BY <1>16 DEF ModelFails, Finish, Ending
    <2>3. ClockCountsWaiting'
      BY <1>16 DEF ModelFails, Finish, Ending
    <2>4. Affordable'
      BY <1>16 DEF ModelFails, Finish, Ending
    <2>5. NoticeKept'
      BY <1>16 DEF ModelFails, Finish, Ending
    <2> QED
      BY <2>1, <2>2, <2>3, <2>4, <2>5
  <1>17. CASE CompactReturns
    <2>1. TypeOK'
      BY <1>17 DEF CompactReturns, CountTurn, Spend
    <2>2. Position'
      BY <1>17 DEF CompactReturns, CountTurn, Spend
    <2>3. ClockCountsWaiting'
      BY <1>17 DEF CompactReturns, CountTurn, Spend
    <2>4. Affordable'
      BY <1>17 DEF CompactReturns, CountTurn, Spend
    <2>5. NoticeKept'
      BY <1>17 DEF CompactReturns, CountTurn, Spend
    <2> QED
      BY <2>1, <2>2, <2>3, <2>4, <2>5
  <1>18. CASE Authorized
    <2>1. TypeOK'
      BY <1>18 DEF Authorized, Authorizing, Goto
    <2>2. Position'
      BY <1>18 DEF Authorized, Authorizing, Goto
    <2>3. ClockCountsWaiting'
      BY <1>18 DEF Authorized, Authorizing, Goto
    <2>4. Affordable'
      BY <1>18 DEF Authorized, Authorizing, Goto
    <2>5. NoticeKept'
      BY <1>18 DEF Authorized, Authorizing, Goto
    <2> QED
      BY <2>1, <2>2, <2>3, <2>4, <2>5
  <1>19. CASE Refused
    <2>1. TypeOK'
      BY <1>19 DEF Refused, Authorizing, Goto
    <2>2. Position'
      BY <1>19 DEF Refused, Authorizing, Goto
    <2>3. ClockCountsWaiting'
      BY <1>19 DEF Refused, Authorizing, Goto
    <2>4. Affordable'
      BY <1>19 DEF Refused, Authorizing, Goto
    <2>5. NoticeKept'
      BY <1>19 DEF Refused, Authorizing, Goto
    <2> QED
      BY <2>1, <2>2, <2>3, <2>4, <2>5
  <1>20. CASE PolicyHandsOff
    <2>1. TypeOK'
      <3>1. PlaceOK'
        BY <1>20 DEF PolicyHandsOff, Authorizing, Handoff, Park
      <3>2. FlagsOK'
        BY <1>20 DEF PolicyHandsOff, Authorizing, Handoff, Park
      <3>3. LimitsOK'
        BY <1>20 DEF PolicyHandsOff, Authorizing, Handoff, Park
      <3>4. WorkOK'
        BY <1>20 DEF PolicyHandsOff, Authorizing, Handoff, Park
      <3> QED
        BY <3>1, <3>2, <3>3, <3>4
    <2>2. Position'
      BY <1>20 DEF PolicyHandsOff, Authorizing, Handoff, Park
    <2>3. ClockCountsWaiting'
      BY <1>20 DEF PolicyHandsOff, Authorizing, Handoff, Park
    <2>4. Affordable'
      BY <1>20 DEF PolicyHandsOff, Authorizing, Handoff, Park
    <2>5. NoticeKept'
      BY <1>20 DEF PolicyHandsOff, Authorizing, Handoff, Park
    <2> QED
      BY <2>1, <2>2, <2>3, <2>4, <2>5
  <1>21. CASE PolicyThrows
    <2>1. TypeOK'
      <3>1. PlaceOK'
        BY <1>21 DEF PolicyThrows, Authorizing, Finish, Ending
      <3>2. FlagsOK'
        BY <1>21 DEF PolicyThrows, Authorizing, Finish, Ending
      <3>3. LimitsOK'
        BY <1>21 DEF PolicyThrows, Authorizing, Finish, Ending
      <3>4. WorkOK'
        BY <1>21 DEF PolicyThrows, Authorizing, Finish, Ending
      <3> QED
        BY <3>1, <3>2, <3>3, <3>4
    <2>2. Position'
      BY <1>21 DEF PolicyThrows, Authorizing, Finish, Ending
    <2>3. ClockCountsWaiting'
      BY <1>21 DEF PolicyThrows, Authorizing, Finish, Ending
    <2>4. Affordable'
      BY <1>21 DEF PolicyThrows, Authorizing, Finish, Ending
    <2>5. NoticeKept'
      BY <1>21 DEF PolicyThrows, Authorizing, Finish, Ending
    <2> QED
      BY <2>1, <2>2, <2>3, <2>4, <2>5
  <1>22. CASE ToolReturns
    <2>1. TypeOK'
      BY <1>22 DEF ToolReturns, Goto
    <2>2. Position'
      BY <1>22 DEF ToolReturns, Goto
    <2>3. ClockCountsWaiting'
      BY <1>22 DEF ToolReturns, Goto
    <2>4. Affordable'
      BY <1>22 DEF ToolReturns, Goto
    <2>5. NoticeKept'
      BY <1>22 DEF ToolReturns, Goto
    <2> QED
      BY <2>1, <2>2, <2>3, <2>4, <2>5
  <1>23. CASE ToolHandsOff
    <2>1. TypeOK'
      <3>1. PlaceOK'
        BY <1>23 DEF ToolHandsOff, Handoff, Park
      <3>2. FlagsOK'
        BY <1>23 DEF ToolHandsOff, Handoff, Park
      <3>3. LimitsOK'
        BY <1>23 DEF ToolHandsOff, Handoff, Park
      <3>4. WorkOK'
        BY <1>23 DEF ToolHandsOff, Handoff, Park
      <3> QED
        BY <3>1, <3>2, <3>3, <3>4
    <2>2. Position'
      BY <1>23 DEF ToolHandsOff, Handoff, Park
    <2>3. ClockCountsWaiting'
      BY <1>23 DEF ToolHandsOff, Handoff, Park
    <2>4. Affordable'
      BY <1>23 DEF ToolHandsOff, Handoff, Park
    <2>5. NoticeKept'
      BY <1>23 DEF ToolHandsOff, Handoff, Park
    <2> QED
      BY <2>1, <2>2, <2>3, <2>4, <2>5
  <1>24. CASE ToolBreaks
    <2>1. TypeOK'
      <3>1. PlaceOK'
        BY <1>24 DEF ToolBreaks, Finish, Ending
      <3>2. FlagsOK'
        BY <1>24 DEF ToolBreaks, Finish, Ending
      <3>3. LimitsOK'
        BY <1>24 DEF ToolBreaks, Finish, Ending
      <3>4. WorkOK'
        BY <1>24 DEF ToolBreaks, Finish, Ending
      <3> QED
        BY <3>1, <3>2, <3>3, <3>4
    <2>2. Position'
      BY <1>24 DEF ToolBreaks, Finish, Ending
    <2>3. ClockCountsWaiting'
      BY <1>24 DEF ToolBreaks, Finish, Ending
    <2>4. Affordable'
      BY <1>24 DEF ToolBreaks, Finish, Ending
    <2>5. NoticeKept'
      BY <1>24 DEF ToolBreaks, Finish, Ending
    <2> QED
      BY <2>1, <2>2, <2>3, <2>4, <2>5
  <1>25. CASE Observed
    <2>1. TypeOK'
      <3>1. PlaceOK'
        BY <1>25 DEF Observed, Goto
      <3>2. FlagsOK'
        BY <1>25 DEF Observed, Goto
      <3>3. LimitsOK'
        BY <1>25 DEF Observed, Goto
      <3>4. WorkOK'
        BY <1>25 DEF Observed, Goto
      <3> QED
        BY <3>1, <3>2, <3>3, <3>4
    <2>2. Position'
      BY <1>25 DEF Observed, Goto
    <2>3. ClockCountsWaiting'
      BY <1>25 DEF Observed, Goto
    <2>4. Affordable'
      BY <1>25 DEF Observed, Goto
    <2>5. NoticeKept'
      BY <1>25 DEF Observed, Goto
    <2> QED
      BY <2>1, <2>2, <2>3, <2>4, <2>5
  <1>26. CASE ObserveFails
    <2>1. TypeOK'
      <3>1. PlaceOK'
        BY <1>26 DEF ObserveFails, Finish, Ending
      <3>2. FlagsOK'
        BY <1>26 DEF ObserveFails, Finish, Ending
      <3>3. LimitsOK'
        BY <1>26 DEF ObserveFails, Finish, Ending
      <3>4. WorkOK'
        BY <1>26 DEF ObserveFails, Finish, Ending
      <3> QED
        BY <3>1, <3>2, <3>3, <3>4
    <2>2. Position'
      BY <1>26 DEF ObserveFails, Finish, Ending
    <2>3. ClockCountsWaiting'
      BY <1>26 DEF ObserveFails, Finish, Ending
    <2>4. Affordable'
      BY <1>26 DEF ObserveFails, Finish, Ending
    <2>5. NoticeKept'
      BY <1>26 DEF ObserveFails, Finish, Ending
    <2> QED
      BY <2>1, <2>2, <2>3, <2>4, <2>5
  <1>27. CASE Settle
    <2>1. TypeOK'
      BY <1>27 DEF Settle, Goto
    <2>2. Position'
      BY <1>27 DEF Settle, Goto
    <2>3. ClockCountsWaiting'
      BY <1>27 DEF Settle, Goto
    <2>4. Affordable'
      BY <1>27 DEF Settle, Goto
    <2>5. NoticeKept'
      BY <1>27 DEF Settle, Goto
    <2> QED
      BY <2>1, <2>2, <2>3, <2>4, <2>5
  <1>28. CASE PauseForHuman
    <2>1. TypeOK'
      <3>1. PlaceOK'
        BY <1>28 DEF PauseForHuman, Yielded, CloseCards, Woken
      <3>2. FlagsOK'
        BY <1>28 DEF PauseForHuman, Yielded, CloseCards, Woken
      <3>3. LimitsOK'
        BY <1>28 DEF PauseForHuman, Yielded, CloseCards, Woken
      <3>4. WorkOK'
        BY <1>28 DEF PauseForHuman, Yielded, CloseCards, Woken
      <3> QED
        BY <3>1, <3>2, <3>3, <3>4
    <2>2. Position'
      BY <1>28 DEF PauseForHuman, Yielded, CloseCards, Woken
    <2>3. ClockCountsWaiting'
      BY <1>28 DEF PauseForHuman, Yielded, CloseCards, Woken
    <2>4. Affordable'
      BY <1>28 DEF PauseForHuman, Yielded, CloseCards, Woken
    <2>5. NoticeKept'
      BY <1>28 DEF PauseForHuman, Yielded, CloseCards, Woken
    <2> QED
      BY <2>1, <2>2, <2>3, <2>4, <2>5
  <1>29. CASE Stop
    <2>1. TypeOK'
      BY <1>29 DEF Stop, Yielded, CloseCards, Woken
    <2>2. Position'
      BY <1>29 DEF Stop, Yielded, CloseCards, Woken
    <2>3. ClockCountsWaiting'
      BY <1>29 DEF Stop, Yielded, CloseCards, Woken
    <2>4. Affordable'
      BY <1>29 DEF Stop, Yielded, CloseCards, Woken
    <2>5. NoticeKept'
      BY <1>29 DEF Stop, Yielded, CloseCards, Woken
    <2> QED
      BY <2>1, <2>2, <2>3, <2>4, <2>5
  <1>30. CASE ResumeFromHandoff
    <2>1. TypeOK'
      BY <1>30 DEF ResumeFromHandoff, Goto
    <2>2. Position'
      BY <1>30 DEF ResumeFromHandoff, Goto
    <2>3. ClockCountsWaiting'
      BY <1>30 DEF ResumeFromHandoff, Goto
    <2>4. Affordable'
      BY <1>30 DEF ResumeFromHandoff, Goto
    <2>5. NoticeKept'
      BY <1>30 DEF ResumeFromHandoff, Goto
    <2> QED
      BY <2>1, <2>2, <2>3, <2>4, <2>5
  <1>31. ASSUME NEW action \in Actions, ResumeBudget(action) PROVE Inv'
    <2>1. TypeOK'
      <3>1. PlaceOK'
        BY <1>31 DEF ResumeBudget, Extend, Granting, Offered
      <3>2. FlagsOK'
        BY <1>31 DEF ResumeBudget, Extend, Granting, Offered
      <3>3. LimitsOK'
        <4>1. CASE action = "add_steps"
          BY <1>31, <4>1 DEF ResumeBudget, Extend, Granting
        <4>2. CASE action = "unlimited_steps"
          BY <1>31, <4>2 DEF ResumeBudget, Extend, Granting
        <4>3. CASE action = "add_time"
          BY <1>31, <4>3 DEF ResumeBudget, Extend, Granting
        <4>4. CASE action = "unlimited_time"
          BY <1>31, <4>4 DEF ResumeBudget, Extend, Granting
        <4>5. CASE action = "add_cost"
          BY <1>31, <4>5 DEF ResumeBudget, Extend, Granting
        <4> QED
          BY <4>1, <4>2, <4>3, <4>4, <4>5 DEF Actions
      <3>4. WorkOK'
        BY <1>31 DEF ResumeBudget, Extend, Granting, Offered
      <3> QED
        BY <3>1, <3>2, <3>3, <3>4
    <2>2. Position'
      BY <1>31 DEF ResumeBudget, Extend, Granting, Offered
    <2>3. ClockCountsWaiting'
      BY <1>31 DEF ResumeBudget, Extend, Granting, Offered
    <2>4. Affordable'
      <3>1. CASE action = "add_steps"
        BY <1>31, <3>1 DEF ResumeBudget, Extend, Granting
      <3>2. CASE action = "unlimited_steps"
        BY <1>31, <3>2 DEF ResumeBudget, Extend, Granting
      <3>3. CASE action = "add_time"
        BY <1>31, <3>3 DEF ResumeBudget, Extend, Granting
      <3>4. CASE action = "unlimited_time"
        BY <1>31, <3>4 DEF ResumeBudget, Extend, Granting
      <3>5. CASE action = "add_cost"
        BY <1>31, <3>5 DEF ResumeBudget, Extend, Granting
      <3> QED
        BY <3>1, <3>2, <3>3, <3>4, <3>5 DEF Actions
    <2>5. NoticeKept'
      BY <1>31 DEF ResumeBudget, Extend, Granting, Offered
    <2> QED
      BY <2>1, <2>2, <2>3, <2>4, <2>5
  <1>32. ASSUME NEW c \in Cards, CardRequested(c) PROVE Inv'
    <2>1. TypeOK'
      <3>1. PlaceOK'
        BY <1>32 DEF CardRequested, Yielded, OpenCard
      <3>2. FlagsOK'
        BY <1>32 DEF CardRequested, Yielded, OpenCard
      <3>3. LimitsOK'
        BY <1>32 DEF CardRequested, Yielded, OpenCard
      <3>4. WorkOK'
        BY <1>32 DEF CardRequested, Yielded, OpenCard
      <3> QED
        BY <3>1, <3>2, <3>3, <3>4
    <2>2. Position'
      BY <1>32 DEF CardRequested, Yielded, OpenCard
    <2>3. ClockCountsWaiting'
      BY <1>32 DEF CardRequested, Yielded, OpenCard
    <2>4. Affordable'
      BY <1>32 DEF CardRequested, Yielded, OpenCard
    <2>5. NoticeKept'
      BY <1>32 DEF CardRequested, Yielded, OpenCard
    <2> QED
      BY <2>1, <2>2, <2>3, <2>4, <2>5
  <1>33. ASSUME NEW c \in Cards, ActionCardRequested(c) PROVE Inv'
    <2>1. TypeOK'
      <3>1. PlaceOK'
        BY <1>33 DEF ActionCardRequested, Authorizing, OpenCard
      <3>2. FlagsOK'
        BY <1>33 DEF ActionCardRequested, Authorizing, OpenCard
      <3>3. LimitsOK'
        BY <1>33 DEF ActionCardRequested, Authorizing, OpenCard
      <3>4. WorkOK'
        BY <1>33 DEF ActionCardRequested, Authorizing, OpenCard
      <3> QED
        BY <3>1, <3>2, <3>3, <3>4
    <2>2. Position'
      BY <1>33 DEF ActionCardRequested, Authorizing, OpenCard
    <2>3. ClockCountsWaiting'
      BY <1>33 DEF ActionCardRequested, Authorizing, OpenCard
    <2>4. Affordable'
      BY <1>33 DEF ActionCardRequested, Authorizing, OpenCard
    <2>5. NoticeKept'
      BY <1>33 DEF ActionCardRequested, Authorizing, OpenCard
    <2> QED
      BY <2>1, <2>2, <2>3, <2>4, <2>5
  <1>34. ASSUME NEW c \in Cards, NEW granted \in BOOLEAN, CardResolved(c, granted) PROVE Inv'
    <2>1. TypeOK'
      BY <1>34 DEF CardResolved, Yielded, CloseCards, Woken
    <2>2. Position'
      BY <1>34 DEF CardResolved, Yielded, CloseCards, Woken
    <2>3. ClockCountsWaiting'
      <3>1. CASE clockHeld /\ cards \subseteq {c}
        <4>1. cards' = {} /\ ~clockHeld' /\ pauseDepth' = pauseDepth - 1 /\ aborted' = aborted
          BY <1>34, <3>1 DEF CardResolved, CloseCards
        <4>2. Waiting' = Waiting
          BY <1>34, <3>1 DEF CardResolved, Woken, Yielded
        <4> QED
          BY <3>1, <4>1, <4>2
      <3>2. CASE ~(clockHeld /\ cards \subseteq {c})
        BY <1>34, <3>2 DEF CardResolved, Yielded, CloseCards, Woken
      <3> QED
        BY <3>1, <3>2
    <2>4. Affordable'
      BY <1>34 DEF CardResolved, Yielded, CloseCards, Woken
    <2>5. NoticeKept'
      BY <1>34 DEF CardResolved, Yielded, CloseCards, Woken
    <2> QED
      BY <2>1, <2>2, <2>3, <2>4, <2>5
  <1>35. CASE TimeRunsOut
    <2>1. TypeOK'
      BY <1>35 DEF TimeRunsOut, Yielded
    <2>2. Position'
      BY <1>35 DEF TimeRunsOut, Yielded
    <2>3. ClockCountsWaiting'
      BY <1>35 DEF TimeRunsOut, Yielded
    <2>4. Affordable'
      BY <1>35 DEF TimeRunsOut, Yielded
    <2>5. NoticeKept'
      BY <1>35 DEF TimeRunsOut, Yielded
    <2> QED
      BY <2>1, <2>2, <2>3, <2>4, <2>5
  <1>36. CASE Ended \/ UNCHANGED vars
    <2>1. TypeOK'
      <3>1. PlaceOK'
        BY <1>36 DEF Ended, vars
      <3>2. FlagsOK'
        BY <1>36 DEF Ended, vars
      <3>3. LimitsOK'
        BY <1>36 DEF Ended, vars
      <3>4. WorkOK'
        BY <1>36 DEF Ended, vars
      <3> QED
        BY <3>1, <3>2, <3>3, <3>4
    <2>2. Position'
      BY <1>36 DEF Ended, vars
    <2>3. ClockCountsWaiting'
      BY <1>36 DEF Ended, vars
    <2>4. Affordable'
      BY <1>36 DEF Ended, vars
    <2>5. NoticeKept'
      BY <1>36 DEF Ended, vars
    <2> QED
      BY <2>1, <2>2, <2>3, <2>4, <2>5
  <1> QED
    BY <1>1, <1>2, <1>3, <1>4, <1>5, <1>6, <1>7, <1>8, <1>9, <1>10, <1>11, <1>12,
       <1>13, <1>14, <1>15, <1>16, <1>17, <1>18, <1>19, <1>20, <1>21, <1>22, <1>23, <1>24,
       <1>25, <1>26, <1>27, <1>28, <1>29, <1>30, <1>31, <1>32, <1>33, <1>34, <1>35, <1>36
       DEF Next, Segment, Reply, Human, Sandbox, Answer

(* No step breaks the action properties.                                   *)
Laws ==
  /\ pc' = "execute" /\ pc # "execute" => turnCurrent /\ ~humanPause /\ ~aborted /\ cards = {}
  /\ state \in Terminal => state' = state
  /\ humanPause /\ ~humanPause' => pc' \in {"handoff", "budget", "closing", "ended"}

LEMMA StepLaws == Inv /\ [Next]_vars => Laws
  <1> SUFFICES ASSUME Inv, [Next]_vars PROVE Laws
    OBVIOUS
  <1> USE DEF Inv, TypeOK, PlaceOK, Position, Terminal, Awaits, Running, control, approval,
          PlanStale, CallStale, Exhausted, Drained, StopWakes, CurrentRun, Laws
  <1>1. CASE Start
    BY <1>1 DEF Start
  <1>2. CASE StopSeen
    BY <1>2 DEF StopSeen, Finish
  <1>3. CASE LoopTop
    BY <1>3 DEF LoopTop, Handoff, Park, Goto
  <1>4. CASE FirstCheck
    BY <1>4 DEF FirstCheck, BudgetPause, Park, Goto, Reached, CompactionDue
  <1>5. CASE SendTurn
    BY <1>5 DEF SendTurn, BudgetPause, Park, Reached
  <1>6. CASE BatchDone
    BY <1>6 DEF BatchDone, Goto
  <1>7. CASE NextCall
    BY <1>7 DEF NextCall, BudgetPause, Park, Reached, Goto
  <1>8. CASE Granted
    BY <1>8 DEF Granted, Goto
  <1>9. CASE Declined
    BY <1>9 DEF Declined, Goto
  <1>10. CASE Cleared
    BY <1>10 DEF Cleared
  <1>11. CASE Vet
    BY <1>11 DEF Vet, Finish, Goto
  <1>12. CASE EndCall
    BY <1>12 DEF EndCall, Spend
  <1>13. CASE Unpark
    BY <1>13 DEF Unpark, Finish
  <1>14. CASE Unbudget
    BY <1>14 DEF Unbudget, Finish
  <1>15. CASE ModelReturns
    BY <1>15 DEF ModelReturns, CountTurn, Spend, Finish
  <1>16. CASE ModelFails
    BY <1>16 DEF ModelFails, Finish, Ending
  <1>17. CASE CompactReturns
    BY <1>17 DEF CompactReturns, CountTurn, Spend
  <1>18. CASE Authorized
    BY <1>18 DEF Authorized, Authorizing, Goto
  <1>19. CASE Refused
    BY <1>19 DEF Refused, Authorizing, Goto
  <1>20. CASE PolicyHandsOff
    BY <1>20 DEF PolicyHandsOff, Authorizing, Handoff, Park
  <1>21. CASE PolicyThrows
    BY <1>21 DEF PolicyThrows, Authorizing, Finish, Ending
  <1>22. CASE ToolReturns
    BY <1>22 DEF ToolReturns, Goto
  <1>23. CASE ToolHandsOff
    BY <1>23 DEF ToolHandsOff, Handoff, Park
  <1>24. CASE ToolBreaks
    BY <1>24 DEF ToolBreaks, Finish, Ending
  <1>25. CASE Observed
    BY <1>25 DEF Observed, Goto
  <1>26. CASE ObserveFails
    BY <1>26 DEF ObserveFails, Finish, Ending
  <1>27. CASE Settle
    BY <1>27 DEF Settle, Goto
  <1>28. CASE PauseForHuman
    BY <1>28 DEF PauseForHuman, Yielded, CloseCards, Woken
  <1>29. CASE Stop
    BY <1>29 DEF Stop, Yielded, CloseCards, Woken
  <1>30. CASE ResumeFromHandoff
    BY <1>30 DEF ResumeFromHandoff, Goto
  <1>31. ASSUME NEW action \in Actions, ResumeBudget(action) PROVE Laws
    BY <1>31 DEF ResumeBudget, Extend, Granting, Offered
  <1>32. ASSUME NEW c \in Cards, CardRequested(c) PROVE Laws
    BY <1>32 DEF CardRequested, Yielded, OpenCard
  <1>33. ASSUME NEW c \in Cards, ActionCardRequested(c) PROVE Laws
    BY <1>33 DEF ActionCardRequested, Authorizing, OpenCard
  <1>34. ASSUME NEW c \in Cards, NEW granted \in BOOLEAN, CardResolved(c, granted) PROVE Laws
    BY <1>34 DEF CardResolved, Yielded, CloseCards, Woken
  <1>35. CASE TimeRunsOut
    BY <1>35 DEF TimeRunsOut, Yielded
  <1>36. CASE Ended \/ UNCHANGED vars
    BY <1>36 DEF Ended, vars
  <1> QED
    BY <1>1, <1>2, <1>3, <1>4, <1>5, <1>6, <1>7, <1>8, <1>9, <1>10, <1>11, <1>12,
       <1>13, <1>14, <1>15, <1>16, <1>17, <1>18, <1>19, <1>20, <1>21, <1>22, <1>23, <1>24,
       <1>25, <1>26, <1>27, <1>28, <1>29, <1>30, <1>31, <1>32, <1>33, <1>34, <1>35, <1>36
       DEF Next, Segment, Reply, Human, Sandbox, Answer

(* Every step of a run is a step of HumanControl or leaves what it shows   *)
(* unchanged.                                                              *)
LEMMA StepPromise == Inv /\ [Next]_vars => [Promise!Next]_(Promise!vars)
  <1> SUFFICES ASSUME Inv, [Next]_vars PROVE [Promise!Next]_(Promise!vars)
    OBVIOUS
  <1> USE DEF Inv, TypeOK, PlaceOK, Position, Terminal, Awaits, Running, control, approval,
          Phase, PlanAge, Promise!vars,
          PlanStale, CallStale, Exhausted, Drained, StopWakes, CurrentRun
  <1>1. CASE Start
    BY <1>1 DEF Start
  <1>2. CASE StopSeen
    BY <1>2 DEF StopSeen, Finish, Promise!Next, Promise!End
  <1>3. CASE LoopTop
    BY <1>3 DEF LoopTop, Handoff, Park, Goto, Promise!Next, Promise!Yield
  <1>4. CASE FirstCheck
    BY <1>4 DEF FirstCheck, BudgetPause, Park, Goto, Reached, CompactionDue, Promise!Next, Promise!Yield
  <1>5. CASE SendTurn
    BY <1>5 DEF SendTurn, BudgetPause, Park, Reached, Promise!Next, Promise!Yield, Promise!Plan
  <1>6. CASE BatchDone
    BY <1>6 DEF BatchDone, Goto
  <1>7. CASE NextCall
    BY <1>7 DEF NextCall, BudgetPause, Park, Reached, Goto, Promise!Next, Promise!Yield
  <1>8. CASE Granted
    BY <1>8 DEF Granted, Goto
  <1>9. CASE Declined
    BY <1>9 DEF Declined, Goto
  <1>10. CASE Cleared
    BY <1>10 DEF Cleared
  <1>11. CASE Vet
    BY <1>11 DEF Vet, Finish, Goto, Promise!Next, Promise!Act, Promise!End
  <1>12. CASE EndCall
    BY <1>12 DEF EndCall, Spend
  <1>13. CASE Unpark
    BY <1>13 DEF Unpark, Finish, Promise!Next, Promise!TakeBack, Promise!End
  <1>14. CASE Unbudget
    BY <1>14 DEF Unbudget, Finish, Promise!Next, Promise!TakeBack, Promise!End
  <1>15. CASE ModelReturns
    BY <1>15 DEF ModelReturns, CountTurn, Spend, Finish, Promise!Next, Promise!End
  <1>16. CASE ModelFails
    BY <1>16 DEF ModelFails, Finish, Ending, Promise!Next, Promise!End
  <1>17. CASE CompactReturns
    BY <1>17 DEF CompactReturns, CountTurn, Spend
  <1>18. CASE Authorized
    BY <1>18 DEF Authorized, Authorizing, Goto
  <1>19. CASE Refused
    BY <1>19 DEF Refused, Authorizing, Goto
  <1>20. CASE PolicyHandsOff
    BY <1>20 DEF PolicyHandsOff, Authorizing, Handoff, Park, Promise!Next, Promise!Yield
  <1>21. CASE PolicyThrows
    BY <1>21 DEF PolicyThrows, Authorizing, Finish, Ending, Promise!Next, Promise!End
  <1>22. CASE ToolReturns
    BY <1>22 DEF ToolReturns, Goto, Promise!Next, Promise!Rest
  <1>23. CASE ToolHandsOff
    BY <1>23 DEF ToolHandsOff, Handoff, Park, Promise!Next, Promise!Yield
  <1>24. CASE ToolBreaks
    BY <1>24 DEF ToolBreaks, Finish, Ending, Promise!Next, Promise!Rest, Promise!End
  <1>25. CASE Observed
    BY <1>25 DEF Observed, Goto
  <1>26. CASE ObserveFails
    BY <1>26 DEF ObserveFails, Finish, Ending, Promise!Next, Promise!End
  <1>27. CASE Settle
    BY <1>27 DEF Settle, Goto
  <1>28. CASE PauseForHuman
    BY <1>28 DEF PauseForHuman, Yielded, CloseCards, Woken, Promise!Next, Promise!AskControl
  <1>29. CASE Stop
    BY <1>29 DEF Stop, Yielded, CloseCards, Woken, Promise!Next, Promise!TakeBack
  <1>30. CASE ResumeFromHandoff
    BY <1>30 DEF ResumeFromHandoff, Goto, Promise!Next, Promise!TakeBack
  <1>31. ASSUME NEW action \in Actions, ResumeBudget(action) PROVE [Promise!Next]_(Promise!vars)
    BY <1>31 DEF ResumeBudget, Extend, Granting, Offered, Promise!Next, Promise!TakeBack
  <1>32. ASSUME NEW c \in Cards, CardRequested(c) PROVE [Promise!Next]_(Promise!vars)
    BY <1>32 DEF CardRequested, Yielded, OpenCard
  <1>33. ASSUME NEW c \in Cards, ActionCardRequested(c) PROVE [Promise!Next]_(Promise!vars)
    BY <1>33 DEF ActionCardRequested, Authorizing, OpenCard
  <1>34. ASSUME NEW c \in Cards, NEW granted \in BOOLEAN, CardResolved(c, granted) PROVE [Promise!Next]_(Promise!vars)
    BY <1>34 DEF CardResolved, Yielded, CloseCards, Woken
  <1>35. CASE TimeRunsOut
    BY <1>35 DEF TimeRunsOut, Yielded
  <1>36. CASE Ended \/ UNCHANGED vars
    BY <1>36 DEF Ended, vars
  <1> QED
    BY <1>1, <1>2, <1>3, <1>4, <1>5, <1>6, <1>7, <1>8, <1>9, <1>10, <1>11, <1>12,
       <1>13, <1>14, <1>15, <1>16, <1>17, <1>18, <1>19, <1>20, <1>21, <1>22, <1>23, <1>24,
       <1>25, <1>26, <1>27, <1>28, <1>29, <1>30, <1>31, <1>32, <1>33, <1>34, <1>35, <1>36
       DEF Next, Segment, Reply, Human, Sandbox, Answer

LEMMA Invariance == Spec => []Inv
  BY InitInv, StepInv, PTL DEF Spec

(* Every variable keeps its type, whatever the handlers do.                *)
THEOREM TypeCorrect == Spec => []TypeOK
  BY Invariance, PTL DEF Inv

(* Active time stops exactly while the run waits for a card, a handoff, a  *)
(* budget extension or its end.                                            *)
THEOREM ClockCorrect == Spec => []ClockCountsWaiting
  BY Invariance, PTL DEF Inv

(* No limit on turns or tool calls is passed, for every limit and every    *)
(* extension.                                                              *)
THEOREM NothingOverspent == Spec => []NeverOverspent
  BY Invariance, PTL DEF Inv, Affordable

(* No turn is sent without telling the model that the run was parked.      *)
THEOREM ModelTold == Spec => []ModelNeverBlind
  BY Invariance, PTL DEF Inv, NoticeKept

(* A call is executing only while the run is at it: not behind the model,  *)
(* a human in control, a limit that waits or a finished run; and a         *)
(* finished run has no card open and no pause unanswered.                  *)
THEOREM LedgerCorrect == Spec => []LedgerClosed
  <1>1. Inv => LedgerClosed
    BY DEF Inv, Position, LedgerClosed
  <1> QED
    BY <1>1, Invariance, PTL

(* Tools are called only on current plans.                                 *)
THEOREM PlansCurrent == Spec => OnlyCurrentPlansAct
  <1>1. Inv /\ [Next]_vars =>
          [pc' = "execute" /\ pc # "execute"
             => turnCurrent /\ ~humanPause /\ ~aborted /\ cards = {}]_vars
    BY StepLaws DEF Laws
  <1> QED
    BY <1>1, Invariance, PTL DEF Spec, OnlyCurrentPlansAct

(* A finished run stays finished.                                          *)
THEOREM FinishedStays == Spec => TerminalIsFinal
  <1>1. Inv /\ [Next]_vars => [(state \in Terminal) => state' = state]_vars
    BY StepLaws DEF Laws
  <1> QED
    BY <1>1, Invariance, PTL DEF Spec, TerminalIsFinal

(* The human's request for control is answered with the agent at rest.     *)
THEOREM AnsweredAtRest == Spec => PauseAnsweredAtRest
  <1>1. Inv /\ [Next]_vars =>
          [humanPause /\ ~humanPause' => pc' \in {"handoff", "budget", "closing", "ended"}]_vars
    BY StepLaws DEF Laws
  <1> QED
    BY <1>1, Invariance, PTL DEF Spec, PauseAnsweredAtRest

(* A run implements the abstract promise to the human.                     *)
THEOREM KeepsPromise == Spec => ImplementsHumanControl
  <1>1. Init => Promise!Init
    BY DEF Init, Promise!Init, Phase, PlanAge, Terminal
  <1> QED
    BY <1>1, StepPromise, Invariance, PTL DEF Spec, ImplementsHumanControl, Promise!Spec

(* The books of a run agree, for every limit, grant and number of cards.   *)
THEOREM AccountsKept == Spec => []Accounts
  BY TypeCorrect, ClockCorrect, LedgerCorrect, NothingOverspent, PTL DEF Accounts
=============================================================================
