--------------------------- MODULE WorkbenchProofs ---------------------------
(***************************************************************************)
(* TLAPS proofs about Workbench and TerminalTools.  What the human's       *)
(* commands begin finds the run at rest because four things go together:   *)
(* where the run stands fits its state (Stages), one start at a time and   *)
(* none beside a live run or a change of mode (Starts), a follow-up that   *)
(* nothing overtakes (FollowsUp), a login whose pause is open until the    *)
(* run has answered it (LogsIn).  What the agent types follows from where  *)
(* its call stands (Typed).                                                *)
(***************************************************************************)
EXTENDS TerminalTools, TLAPS

(* The part of the type that the run and its surfaces have.                *)
RunType ==
  /\ owner \in [Surfaces -> Owners]
  /\ state \in {"none", "running", "awaiting_approval", "handoff", "budget_paused", "ended"}
  /\ at \in {"none", "closing", "settled"} \cup Parks \cup Active
  /\ tool \in Surfaces \cup {"none"}
  /\ stopped \in BOOLEAN /\ asked \in BOOLEAN /\ card \in BOOLEAN /\ budgetParked \in BOOLEAN

HandlerType ==
  /\ starting \subseteq {"click", "again", "followup"}
  /\ followup \in {"idle", "settling", "actions", "starting"}
  /\ want \in BOOLEAN /\ changing \in BOOLEAN
  /\ restart \in {"idle", "restarting", "settling"}
  /\ restarted \in {"failed", "auto", "manual"}

BrowserType ==
  /\ login \in {"idle", "pausing", "paused", "switching"}
  /\ manual \in BOOLEAN /\ link \in BOOLEAN
  /\ shown \in {"unknown", "auto", "switching", "manual"}
  /\ mode \in {"auto", "switching", "manual"}
  /\ toward \in {"auto", "manual"}
  /\ control \in {"none", "sent", "taken", "ok", "failed"}
  /\ control # "none" <=> login = "switching"

ActionType == act \subseteq {"mine", "left"} /\ uncertainAction \in BOOLEAN

(* The run's state, which the window sees, and what it does.               *)
Stages ==
  /\ state = "none" <=> at = "none"
  /\ state = "ended" <=> at \in {"closing", "settled"}
  /\ state = "handoff" => at = "handoff"
  /\ state = "budget_paused" => at = "budget"
  /\ asked => Live

Starts ==
  /\ \A v, w \in starting : v = w
  /\ starting # {} => ~Live
  /\ changing => starting = {}
  /\ followup = "starting" <=> "followup" \in starting
  /\ followup \in {"settling", "actions"} => starting = {}

FollowsUp ==
  /\ followup \in {"actions", "starting"} => at \in {"none", "settled"}
  /\ followup = "starting" => act = {} /\ ~uncertainAction

LogsIn ==
  /\ login = "pausing" => asked
  /\ login = "paused" => at \notin Active /\ starting = {}
  /\ login = "switching" /\ changing /\ want => at \notin Active

RunInv == RunType /\ RestLeavesSurfaces /\ Stages
WorkbenchInv ==
  /\ RunInv /\ ActionType /\ HandlerType /\ BrowserType
  /\ Starts /\ FollowsUp /\ LogsIn /\ doubled = FALSE

LEMMA InvBeginsAtRest == WorkbenchInv => BeginsAtRest
<1> SUFFICES ASSUME WorkbenchInv PROVE BeginsAtRest
  OBVIOUS
<1>1. TypeOK
  <2>1. /\ {stopped, asked, card, budgetParked} \subseteq BOOLEAN
        /\ {uncertainAction, want, changing, manual, link, doubled} \subseteq BOOLEAN
    BY Zenon DEF WorkbenchInv, RunInv, RunType, ActionType, HandlerType, BrowserType
  <2>2. {stopped, asked, card, budgetParked, uncertainAction, want, changing, manual, link, doubled} \subseteq BOOLEAN
    BY <2>1
  <2>3. (control # "none") = (login = "switching")
    BY DEF WorkbenchInv, BrowserType
  <2> QED
    BY <2>2, <2>3 DEF WorkbenchInv, RunInv, RunType, ActionType, HandlerType, BrowserType, TypeOK
<1>2. FollowupsStartClean
  BY DEF WorkbenchInv, Starts, FollowsUp, FollowupsStartClean
<1> QED
  BY <1>1, <1>2 DEF WorkbenchInv, RunInv, LogsIn, OneLiveRun, LoginFindsRunAtRest, BeginsAtRest

-----------------------------------------------------------------------------
(* What no step of the run, and no command to it, does.                    *)
Quiet ==
  /\ ~Live => ~Live'
  /\ at \in {"none", "settled"} => at' = at
  /\ changing /\ at \notin Active => at' \notin Active
  /\ asked' => asked
  /\ asked /\ ~asked' => at' \notin Active

RunGoesOn == RunInv' /\ Quiet

LEMMA Finishes == ASSUME RunInv, Live, NEW b \in BOOLEAN, Finish(b) PROVE RunGoesOn
BY DEF RunInv, RunType, RestLeavesSurfaces, Stages, Live, Finish, RunGoesOn, Quiet, Both, Surfaces, Owners,
       Parks, Active

LEMMA ParksHere ==
  ASSUME RunInv, Live, Handoff \/ BudgetPause
  PROVE  RunGoesOn
BY DEF RunInv, RunType, RestLeavesSurfaces, Stages, Live, Handoff, BudgetPause, Park, RunGoesOn, Quiet, Both,
       Surfaces, Owners, Parks, Active

LEMMA GoesOn ==
  ASSUME RunInv, at \in Active, GoOn
  PROVE  RunGoesOn
<1>1. Live
  BY DEF RunInv, RunType, Stages, Live, Active
<1>2. CASE Finish(TRUE)
  BY <1>1, <1>2, Finishes
<1>3. CASE Handoff \/ BudgetPause
  BY <1>1, <1>3, ParksHere
<1>4. CASE at' = "thinking" /\ tool' = "none" /\ UNCHANGED <<owner, state, stopped, asked, card, budgetParked>>
  BY <1>1, <1>4
  DEF RunInv, RunType, RestLeavesSurfaces, Stages, Live, RunGoesOn, Quiet, Both, Surfaces, Parks, Active
<1> QED
  BY <1>2, <1>3, <1>4 DEF GoOn

(* A browser action that has nothing to wait for stays so.                 *)
ActionsGoOn ==
  /\ ActionType'
  /\ at \in {"none", "settled"} /\ act = {} => act' = {} /\ uncertainAction' = uncertainAction

LEMMA Acts ==
  ASSUME RunInv, ActionType, at \in Active, NEW s \in Surfaces \cup {"none"}, Act(s)
  PROVE  RunGoesOn /\ ActionsGoOn
<1>1. RunGoesOn
  BY DEF RunInv, RunType, RestLeavesSurfaces, Stages, Live, Act, RunGoesOn, Quiet, Both, Surfaces, Parks, Active
<1>2. ActionsGoOn
  BY DEF ActionType, ActionsGoOn, Act, Active
<1> QED
  BY <1>1, <1>2

LEMMA RunStep ==
  ASSUME RunInv, ActionType, RunSteps \/ ActionSettles \/ CardOpens \/ CardCloses
  PROVE  RunGoesOn /\ ActionsGoOn
<1>l. at \in Active => Live
  BY DEF RunInv, RunType, Stages, Live, Active
<1>b. stopped \in BOOLEAN
  BY DEF RunInv, RunType
<1>u. UNCHANGED actions => ActionsGoOn
  BY DEF actions, ActionType, ActionsGoOn
<1>1. CASE ModelReturns
  <2>1. at \in Active /\ UNCHANGED actions
    BY <1>1 DEF ModelReturns, Active
  <2>2. Finish(stopped) \/ GoOn \/ BudgetPause \/ Handoff
    BY <1>1 DEF ModelReturns
  <2> QED
    BY <1>l, <1>b, <1>u, <2>1, <2>2, Finishes, GoesOn, ParksHere
<1>2. CASE CallsTool
  <2>1. at = "thinking"
    BY <1>2 DEF CallsTool
  <2>2. PICK s \in Surfaces :
          \/ Act(s)
          \/ /\ at' = "vetting" /\ tool' = s
             /\ card' = (card \/ s = "browser")
             /\ state' = IF card' THEN "awaiting_approval" ELSE state
             /\ UNCHANGED <<owner, stopped, asked, budgetParked, actions>>
    BY <1>2 DEF CallsTool
  <2>3. CASE Act(s)
    BY <2>1, <2>3, Acts DEF Active
  <2>4. CASE /\ at' = "vetting" /\ tool' = s
             /\ card' = (card \/ s = "browser")
             /\ state' = IF card' THEN "awaiting_approval" ELSE state
             /\ UNCHANGED <<owner, stopped, asked, budgetParked, actions>>
    <3>1. RunGoesOn
      BY <2>1, <2>4, <1>l
      DEF RunInv, RunType, RestLeavesSurfaces, Stages, Live, RunGoesOn, Quiet, Both, Surfaces, Parks, Active
    <3> QED
      BY <1>u, <2>4, <3>1
  <2> QED
    BY <2>2, <2>3, <2>4
<1>3. CASE Vetted
  <2>1. at \in Active /\ tool \in Surfaces \cup {"none"}
    BY <1>3 DEF Vetted, Active, RunInv, RunType
  <2>2. CASE (GoOn \/ Handoff) /\ UNCHANGED actions
    BY <1>l, <1>u, <2>1, <2>2, GoesOn, ParksHere
  <2>3. CASE Act(tool)
    BY <2>1, <2>3, Acts
  <2> QED
    BY <1>3, <2>2, <2>3 DEF Vetted
<1>4. CASE ToolReturns
  <2>1. at \in Active /\ (GoOn \/ Handoff \/ Finish(stopped))
    BY <1>4 DEF ToolReturns, Active
  <2>2. RunGoesOn
    BY <1>l, <1>b, <2>1, Finishes, GoesOn, ParksHere
  <2>3. ActionsGoOn
    BY <1>4 DEF ToolReturns, ActionType, ActionsGoOn
  <2> QED
    BY <2>2, <2>3
<1>5. CASE Settle
  <2>1. RunGoesOn
    BY <1>5
    DEF Settle, RunInv, RunType, RestLeavesSurfaces, Stages, Live, RunGoesOn, Quiet, Both, Surfaces, Parks,
        Active
  <2> QED
    BY <1>5, <1>u, <2>1 DEF Settle
<1>6. CASE ActionSettles
  <2>1. RunGoesOn
    BY <1>6
    DEF ActionSettles, run, RunInv, RunType, RestLeavesSurfaces, Stages, Live, RunGoesOn, Quiet, Both
  <2>2. ActionsGoOn
    BY <1>6 DEF ActionSettles, ActionType, ActionsGoOn
  <2> QED
    BY <2>1, <2>2
<1>7. CASE CardOpens
  <2>1. RunGoesOn
    BY <1>7
    DEF CardOpens, RunInv, RunType, RestLeavesSurfaces, Stages, Live, RunGoesOn, Quiet, Both, Surfaces,
        Parks, Active
  <2> QED
    BY <1>7, <1>u, <2>1 DEF CardOpens
<1>8. CASE CardCloses
  <2>1. RunGoesOn
    BY <1>8
    DEF CardCloses, RunningAgain, RunInv, RunType, RestLeavesSurfaces, Stages, Live, RunGoesOn, Quiet, Both,
        Surfaces, Owners, Parks, Active
  <2> QED
    BY <1>8, <1>u, <2>1 DEF CardCloses
<1> QED
  BY <1>1, <1>2, <1>3, <1>4, <1>5, <1>6, <1>7, <1>8 DEF RunSteps

LEMMA StopsRun ==
  ASSUME RunInv, NEW o, o = owner \/ o = Both("human"), StopRun(o)
  PROVE  RunGoesOn
<1>1. CASE Live /\ ~stopped /\ at \in Parks
  BY <1>1, Finishes DEF StopRun
<1>2. CASE ~(Live /\ ~stopped /\ at \in Parks)
  <2>1. /\ owner' = o /\ stopped' \in BOOLEAN /\ card' \in BOOLEAN
        /\ UNCHANGED <<state, at, tool, asked, budgetParked>>
    BY <1>2 DEF StopRun, RunInv, RunType
  <2> QED
    BY <2>1
    DEF RunInv, RunType, RestLeavesSurfaces, Stages, Live, RunGoesOn, Quiet, Both, Surfaces, Owners
<1> QED
  BY <1>1, <1>2

LEMMA UnparksRun ==
  ASSUME RunInv, ~HumanOnly, state \in {"handoff", "budget_paused"}, Unpark
  PROVE  RunGoesOn
<1>1. Live /\ ~changing
  BY DEF Live, HumanOnly
<1>2. CASE stopped
  BY <1>1, <1>2, Finishes DEF Unpark
<1>3. CASE ~stopped
  BY <1>1, <1>3
  DEF Unpark, RunInv, RunType, RestLeavesSurfaces, Stages, Live, RunGoesOn, Quiet, Both, Surfaces, Owners,
      Parks, Active
<1> QED
  BY <1>2, <1>3

LEMMA Takes ==
  ASSUME RunInv, NEW S \in SUBSET Surfaces, HumanTakes(S) \/ AgentTakes(S)
  PROVE  RunGoesOn
<1>1. CASE HumanTakes(S)
  BY <1>1
  DEF HumanTakes, run, RunInv, RunType, RestLeavesSurfaces, Stages, Live, RunGoesOn, Quiet, Both, Surfaces,
      Owners,
      Parks, Active
<1>2. CASE AgentTakes(S)
  <2>1. CASE state = "handoff"
    BY <1>2, <2>1, UnparksRun DEF AgentTakes
  <2>2. CASE state # "handoff"
    BY <1>2, <2>2
    DEF AgentTakes, TakesControl, run, RunInv, RunType, RestLeavesSurfaces, Stages, Live, RunGoesOn, Quiet,
        Both,
        Surfaces, Owners, Parks, Active
  <2> QED
    BY <2>1, <2>2
<1> QED
  BY <1>1, <1>2

LEMMA ControlStep ==
  ASSUME RunInv, Control
  PROVE  RunGoesOn
<1>1. CASE RunResume \/ RunBudget
  BY <1>1, UnparksRun DEF RunResume, RunBudget
<1>2. CASE RunStop \/ Pause \/ RestartRefused
  BY <1>2, StopsRun DEF RunStop, Pause, RestartRefused
<1>3. CASE \E S \in (SUBSET Surfaces) \ {{}} : HumanTakes(S) \/ AgentTakes(S)
  BY <1>3, Takes
<1> QED
  BY <1>1, <1>2, <1>3 DEF Control

-----------------------------------------------------------------------------
(* The daemon's handlers.                                                  *)

(* A pause is answered when the run is at rest.                            *)
LEMMA LoginKept ==
  ASSUME WorkbenchInv, Idle, RunGoesOn, Answers, UNCHANGED <<starting, want, changing>>
  PROVE  /\ LogsIn' /\ login' \in {"idle", "pausing", "paused", "switching"}
         /\ login' = "switching" <=> login = "switching"
<1>1. asked \in BOOLEAN /\ asked' \in BOOLEAN
  BY DEF WorkbenchInv, RunInv, RunGoesOn, RunType
<1>2. login \in {"idle", "pausing", "paused", "switching"}
  BY DEF WorkbenchInv, BrowserType
<1>3. asked => starting = {}
  BY DEF WorkbenchInv, RunInv, Stages, Starts
<1>4. CASE login = "pausing" /\ asked /\ ~asked'
  BY <1>3, <1>4 DEF Answers, LogsIn, RunGoesOn, Quiet
<1>5. CASE ~(login = "pausing" /\ asked /\ ~asked')
  <2>1. login' = login
    BY <1>5 DEF Answers
  <2> QED
    BY <1>1, <1>2, <1>5, <2>1 DEF WorkbenchInv, LogsIn, Idle, RunGoesOn, Quiet
<1> QED
  BY <1>4, <1>5

LEMMA QuietInv ==
  ASSUME WorkbenchInv, Idle, RunGoesOn, ActionsGoOn, Answers, UNCHANGED <<handlers, browser, doubled>>
  PROVE  WorkbenchInv'
<1>1. UNCHANGED <<starting, followup, want, changing, restart, restarted, manual, link, shown, mode, toward, control,
                  doubled>>
  BY DEF handlers, browser, worker
<1>2. /\ LogsIn' /\ login' \in {"idle", "pausing", "paused", "switching"}
      /\ login' = "switching" <=> login = "switching"
  BY <1>1, LoginKept
<1>3. RunInv' /\ RunType' /\ ActionType'
  BY DEF RunGoesOn, RunInv, ActionsGoOn
<1>4. Starts'
  BY <1>1 DEF WorkbenchInv, Starts, RunGoesOn, Quiet
<1>5. FollowsUp'
  BY <1>1 DEF WorkbenchInv, FollowsUp, RunGoesOn, Quiet, ActionsGoOn
<1>6. HandlerType' /\ BrowserType'
  BY <1>1, <1>2 DEF WorkbenchInv, HandlerType, BrowserType
<1> QED
  BY <1>1, <1>2, <1>3, <1>4, <1>5, <1>6 DEF WorkbenchInv

LEMMA RunKept ==
  ASSUME RunInv, UNCHANGED <<owner, run>>
  PROVE  RunInv' /\ UNCHANGED <<state, at, asked, Live>>
BY DEF RunInv, RunType, RestLeavesSurfaces, Stages, Live, run, Both

LEMMA StartRunInv == ASSUME WorkbenchInv, Idle, StartRun PROVE WorkbenchInv'
<1>1. RunInv' /\ UNCHANGED <<state, at, asked, Live, act, uncertainAction, login, followup, want, changing, restart,
                            restarted, manual, link, shown, mode, toward, control, doubled>>
  BY RunKept DEF StartRun, actions, browser, worker, WorkbenchInv
<1>2. StartAllowed("click") /\ starting' = {"click"}
  BY DEF StartRun, StartAllowed
<1>3. followup = "idle" /\ ~changing /\ ~Live
  BY <1>2 DEF StartAllowed, HumanOnly
<1>4. Starts' /\ FollowsUp'
  BY <1>1, <1>2, <1>3 DEF Starts, FollowsUp
<1>5. LogsIn'
  BY <1>1, <1>2 DEF WorkbenchInv, LogsIn, Idle
<1>6. HandlerType' /\ BrowserType' /\ ActionType'
  BY <1>1, <1>2 DEF WorkbenchInv, HandlerType, BrowserType, ActionType
<1> QED
  BY <1>1, <1>4, <1>5, <1>6 DEF WorkbenchInv

LEMMA RunStartsInv ==
  ASSUME WorkbenchInv, Idle, NEW who \in {"click", "again", "followup"}, RunStarts(who)
  PROVE  WorkbenchInv'
<1>1. starting = {who} /\ starting' = {} /\ ~Live /\ changing = FALSE
  BY DEF RunStarts, WorkbenchInv, Starts, HandlerType
<1>2. UNCHANGED <<tool, uncertainAction, login, want, changing, restart, restarted, manual, link, shown, mode, toward,
                  control>>
  BY DEF RunStarts, browser, worker
<1>3. doubled' = FALSE
  BY <1>1 DEF RunStarts, WorkbenchInv
<1>4. RunInv'
  BY <1>2 DEF RunStarts, WorkbenchInv, RunInv, RunType, RestLeavesSurfaces, Stages, Live, Both, Surfaces,
              Owners, Active
<1>5. followup' = "idle"
  <2>1. who = "followup" <=> followup = "starting"
    BY <1>1 DEF WorkbenchInv, Starts
  <2>2. followup \notin {"settling", "actions"}
    BY <1>1 DEF WorkbenchInv, Starts
  <2> QED
    BY <2>1, <2>2 DEF RunStarts, WorkbenchInv, HandlerType
<1>6. login # "pausing" /\ login # "paused"
  BY <1>1 DEF WorkbenchInv, RunInv, Stages, LogsIn, Idle
<1>7. Starts' /\ FollowsUp' /\ LogsIn'
  BY <1>1, <1>2, <1>5, <1>6 DEF Starts, FollowsUp, LogsIn
<1>8. HandlerType' /\ BrowserType' /\ ActionType'
  BY <1>1, <1>2, <1>5 DEF RunStarts, WorkbenchInv, HandlerType, BrowserType, ActionType
<1> QED
  BY <1>3, <1>4, <1>7, <1>8 DEF WorkbenchInv

LEMMA RunFailsInv ==
  ASSUME WorkbenchInv, Idle, NEW who \in {"click", "again", "followup"}, RunFails(who)
  PROVE  WorkbenchInv'
<1>1. /\ UNCHANGED <<state, at, asked, act, uncertainAction, login, want, changing, restart, restarted, manual, link,
                     shown, mode, toward, control, doubled>>
      /\ RunInv' /\ UNCHANGED Live
  BY RunKept DEF RunFails, actions, browser, worker, WorkbenchInv
<1>2. starting = {who} /\ starting' = {} /\ changing = FALSE
  BY DEF RunFails, WorkbenchInv, Starts, HandlerType
<1>3. followup' = "idle"
  <2>1. who = "followup" <=> followup = "starting"
    BY <1>2 DEF WorkbenchInv, Starts
  <2>2. followup \notin {"settling", "actions"}
    BY <1>2 DEF WorkbenchInv, Starts
  <2> QED
    BY <2>1, <2>2 DEF RunFails, WorkbenchInv, HandlerType
<1>4. Starts' /\ FollowsUp' /\ LogsIn'
  BY <1>1, <1>2, <1>3 DEF WorkbenchInv, Starts, FollowsUp, LogsIn
<1>5. HandlerType' /\ BrowserType' /\ ActionType'
  BY <1>1, <1>2, <1>3 DEF WorkbenchInv, HandlerType, BrowserType, ActionType
<1> QED
  BY <1>1, <1>4, <1>5 DEF WorkbenchInv

LEMMA FollowupInv == ASSUME WorkbenchInv, Idle, Followup PROVE WorkbenchInv'
<1>1. followup = "idle" /\ starting = {} /\ followup' = "settling" /\ Answers
  BY DEF Followup
<1>2. UNCHANGED <<act, uncertainAction, starting, want, changing, restart, restarted, manual, link, shown, mode, toward,
                  control, doubled>>
  BY DEF Followup, actions, browser, worker
<1>3. RunGoesOn
  BY StopsRun DEF Followup, WorkbenchInv
<1>4. /\ LogsIn' /\ login' \in {"idle", "pausing", "paused", "switching"}
      /\ login' = "switching" <=> login = "switching"
  BY <1>1, <1>2, <1>3, LoginKept
<1>5. Starts' /\ FollowsUp'
  BY <1>1, <1>2 DEF Starts, FollowsUp
<1>6. HandlerType' /\ BrowserType' /\ ActionType'
  BY <1>1, <1>2, <1>4 DEF WorkbenchInv, HandlerType, BrowserType, ActionType
<1> QED
  BY <1>2, <1>3, <1>4, <1>5, <1>6 DEF WorkbenchInv, RunGoesOn

LEMMA FollowupGoesOnInv ==
  ASSUME WorkbenchInv, Idle, FollowupSettled \/ FollowupContinues
  PROVE  WorkbenchInv'
<1>1. RunInv' /\ UNCHANGED <<state, at, asked, Live, act, uncertainAction, login, want, changing, restart, restarted,
                            manual, link, shown, mode, toward, control, doubled>>
  BY RunKept DEF FollowupSettled, FollowupContinues, actions, browser, worker, WorkbenchInv
<1>2. followup \in {"settling", "actions"} /\ starting = {}
  BY DEF FollowupSettled, FollowupContinues, WorkbenchInv, Starts
<1>3. CASE FollowupSettled
  <2>1. Starts' /\ FollowsUp'
    BY <1>1, <1>2, <1>3 DEF FollowupSettled, Starts, FollowsUp
  <2>2. LogsIn' /\ HandlerType'
    BY <1>1, <1>3 DEF FollowupSettled, WorkbenchInv, LogsIn, HandlerType
  <2> QED
    BY <1>1, <2>1, <2>2 DEF WorkbenchInv, BrowserType, ActionType
<1>4. CASE FollowupContinues /\ (uncertainAction \/ ~StartAllowed("followup"))
  <2>1. followup' = "idle" /\ starting' = {}
    BY <1>2, <1>4 DEF FollowupContinues
  <2>2. Starts' /\ FollowsUp'
    BY <1>1, <2>1 DEF Starts, FollowsUp
  <2>3. LogsIn' /\ HandlerType'
    BY <1>1, <2>1 DEF WorkbenchInv, LogsIn, HandlerType
  <2> QED
    BY <1>1, <2>2, <2>3 DEF WorkbenchInv, BrowserType, ActionType
<1>5. CASE FollowupContinues /\ ~uncertainAction /\ StartAllowed("followup")
  <2>1. followup = "actions" /\ followup' = "starting" /\ starting' = {"followup"} /\ act = {}
    BY <1>2, <1>5 DEF FollowupContinues, ActionsSettled
  <2>2. ~changing /\ ~Live
    BY <1>5 DEF StartAllowed, HumanOnly
  <2>3. Starts' /\ FollowsUp'
    BY <1>1, <1>5, <2>1, <2>2 DEF WorkbenchInv, Starts, FollowsUp
  <2>4. LogsIn' /\ HandlerType'
    BY <1>1, <2>1 DEF WorkbenchInv, LogsIn, HandlerType, Idle
  <2> QED
    BY <1>1, <2>3, <2>4 DEF WorkbenchInv, BrowserType, ActionType
<1> QED
  BY <1>3, <1>4, <1>5

(* The browser is asked to switch while the run is at rest.                *)
LEMMA SendInv ==
  ASSUME WorkbenchInv, NEW enable \in BOOLEAN, SendControl(enable), RunInv', starting = {}, login # "switching",
         enable => at \notin Active,
         UNCHANGED <<at, actions, starting, followup, restart, restarted, doubled>>
  PROVE  WorkbenchInv'
<1>1. UNCHANGED <<act, uncertainAction, link, shown, mode, toward>> /\ control = "none"
  BY DEF SendControl, actions, worker, WorkbenchInv, BrowserType
<1>2. BrowserType'
  BY <1>1 DEF SendControl, WorkbenchInv, BrowserType
<1>3. HandlerType' /\ ActionType' /\ (want' => enable) /\ login' \in {"switching", "idle"}
  BY <1>1 DEF SendControl, WorkbenchInv, HandlerType, ActionType
<1>4. Starts'
  <2>1. starting' = {} /\ followup' = followup
    OBVIOUS
  <2> QED
    BY <2>1 DEF WorkbenchInv, Starts
<1>5. FollowsUp' /\ LogsIn'
  BY <1>1, <1>3 DEF WorkbenchInv, FollowsUp, LogsIn
<1> QED
  BY <1>2, <1>3, <1>4, <1>5 DEF WorkbenchInv

LEMMA LoginContinuesInv == ASSUME WorkbenchInv, LoginContinues PROVE WorkbenchInv'
<1>1. login = "paused" /\ starting = {} /\ at \notin Active
  BY DEF LoginContinues, WorkbenchInv, LogsIn
<1>2. SendControl(TRUE) /\ UNCHANGED <<actions, starting, followup, restart, restarted, doubled>>
  BY DEF LoginContinues
<1>3. RunInv' /\ at' = at
  BY RunKept DEF LoginContinues, WorkbenchInv
<1> QED
  BY <1>1, <1>2, <1>3, SendInv

LEMMA LoginInv ==
  ASSUME WorkbenchInv, Idle, NEW enable \in BOOLEAN, Login(enable)
  PROVE  WorkbenchInv'
<1>1. login = "idle" /\ starting = {}
  BY DEF Login
<1>2. UNCHANGED <<act, uncertainAction, starting, followup, restart, restarted, doubled>>
  BY DEF Login, actions
<1>3. CASE enable /\ ~AtRest
  <2>1. /\ owner' = Both("human") /\ asked' = TRUE
        /\ login' = "pausing" /\ changing' = TRUE /\ want' = TRUE
        /\ UNCHANGED <<state, at, tool, stopped, card, budgetParked, manual, link, shown, mode, toward, control>>
    BY <1>3 DEF Login, LoginBegins, browser, worker
  <2>2. Live
    BY <1>3 DEF AtRest
  <2>3. RunInv'
    BY <2>1, <2>2 DEF WorkbenchInv, RunInv, RunType, RestLeavesSurfaces, Stages, Live, Both, Surfaces, Owners
  <2>4. HandlerType' /\ ActionType' /\ BrowserType'
    BY <1>1, <1>2, <2>1 DEF WorkbenchInv, HandlerType, ActionType, BrowserType
  <2>5. starting' = {} /\ followup' = followup
    BY <1>1, <1>2
  <2>6. Starts'
    BY <1>1, <2>5 DEF WorkbenchInv, Starts
  <2>7. FollowsUp' /\ LogsIn'
    BY <1>2, <2>1 DEF WorkbenchInv, FollowsUp, LogsIn
  <2> QED
    BY <1>2, <2>3, <2>4, <2>6, <2>7 DEF WorkbenchInv
<1>4. CASE ~(enable /\ ~AtRest)
  <2>1. owner' = (IF enable THEN Both("human") ELSE owner) /\ SendControl(enable) /\ UNCHANGED run
    BY <1>4 DEF Login, LoginBegins
  <2>2. UNCHANGED <<state, at, tool, stopped, asked, card, budgetParked>>
    BY <2>1 DEF run
  <2>3. RunInv'
    BY <2>1, <2>2 DEF WorkbenchInv, RunInv, RunType, RestLeavesSurfaces, Stages, Live, Both, Surfaces, Owners
  <2>4. enable => at \notin Active
    BY <1>4 DEF AtRest, Live, Active, WorkbenchInv, RunInv, RunType, Stages
  <2> QED
    BY <1>1, <1>2, <2>1, <2>2, <2>3, <2>4, SendInv DEF actions
<1> QED
  BY <1>3, <1>4

(* Nothing that happens to the browser moves the run or its surfaces.      *)
BrowserSteps == ControlReplies \/ Worker \/ StateArrives \/ BrowserStops \/ BrowserStarts \/ Restarted

LEMMA WorkerType ==
  ASSUME WorkbenchInv, Worker
  PROVE  BrowserType'
<1>1. UNCHANGED <<login, manual, link, shown>>
  BY DEF Worker
<1>2. want \in BOOLEAN /\ Wanted \in {"auto", "manual"}
  BY DEF WorkbenchInv, HandlerType, Wanted
<1>3. CASE TakenUp
  BY <1>1, <1>2, <1>3 DEF TakenUp, worker, WorkbenchInv, BrowserType
<1>4. CASE Switched
  BY <1>1, <1>4 DEF Switched, WorkbenchInv, BrowserType
<1>5. CASE GivesUp
  BY <1>1, <1>5 DEF GivesUp, worker, WorkbenchInv, BrowserType
<1> QED
  BY <1>3, <1>4, <1>5 DEF Worker

LEMMA BrowserTyped ==
  ASSUME WorkbenchInv, BrowserSteps
  PROVE  BrowserType'
<1>2. want \in BOOLEAN /\ Wanted \in {"auto", "manual"}
  BY DEF WorkbenchInv, HandlerType, Wanted
<1>3. CASE ControlReplies
  BY <1>3 DEF ControlReplies, Shows, worker, WorkbenchInv, BrowserType
<1>4. CASE StateArrives
  BY <1>4 DEF StateArrives, Shows, worker, WorkbenchInv, BrowserType
<1>5. CASE BrowserStops
  <2>1. link' = FALSE /\ shown' = "unknown" /\ control' = "none" /\ manual' = manual
    BY <1>5 DEF BrowserStops, Disconnect
  <2>2. mode' \in {"auto", "switching", "manual"} /\ toward' \in {"auto", "manual"}
    BY <1>2, <1>5 DEF BrowserStops, worker, WorkbenchInv, BrowserType
  <2>3. login' \in {"idle", "pausing", "paused"}
    BY <1>5 DEF BrowserStops, HandlerEnds, WorkbenchInv, BrowserType
  <2> QED
    BY <2>1, <2>2, <2>3 DEF WorkbenchInv, BrowserType
<1>6. CASE BrowserStarts
  BY <1>6 DEF BrowserStarts, Shows, worker, WorkbenchInv, BrowserType
<1>7. CASE Restarted
  BY <1>7 DEF Restarted, Shows, WorkbenchInv, BrowserType
<1> QED
  BY <1>3, <1>4, <1>5, <1>6, <1>7, WorkerType DEF BrowserSteps

LEMMA BrowserInv == ASSUME WorkbenchInv, Idle, BrowserSteps PROVE WorkbenchInv'
<1>1. UNCHANGED <<owner, run, uncertainAction, starting, followup, doubled>>
  BY DEF BrowserSteps, ControlReplies, Worker, StateArrives, BrowserStops, BrowserStarts, Restarted,
         handlers, actions
<1>2. RunInv' /\ UNCHANGED <<at, asked, Live>>
  BY <1>1, RunKept DEF WorkbenchInv
<1>3. act' \in {act, {}}
  BY DEF BrowserSteps, ControlReplies, Worker, StateArrives, BrowserStops, Disconnect, BrowserStarts,
         Restarted, actions
<1>4. \/ UNCHANGED <<login, want, changing>>
      \/ login' = "idle" /\ changing' = FALSE /\ want' = FALSE
  BY DEF BrowserSteps, ControlReplies, Worker, StateArrives, BrowserStops, HandlerEnds, BrowserStarts,
         Restarted, handlers
<1>5. restart' \in {restart, "settling"} /\ restarted' \in {restarted, "failed", "auto", "manual"}
  <2>1. CASE Restarted
    <3>1. restarted' \in {"failed", mode'} /\ (restarted' # "failed" => mode' \in {"auto", "manual"})
      BY <2>1 DEF Restarted
    <3> QED
      BY <2>1, <3>1 DEF Restarted
  <2>2. CASE ~Restarted
    BY <2>2 DEF BrowserSteps, ControlReplies, Worker, StateArrives, BrowserStops, BrowserStarts, handlers
  <2> QED
    BY <2>1, <2>2
<1>6. BrowserType'
  BY BrowserTyped
<1>7. HandlerType' /\ ActionType'
  <2>1. want' \in BOOLEAN /\ changing' \in BOOLEAN
    BY <1>4 DEF WorkbenchInv, HandlerType
  <2>2. HandlerType'
    BY <1>1, <1>5, <2>1 DEF WorkbenchInv, HandlerType
  <2>3. ActionType'
    BY <1>1, <1>3 DEF WorkbenchInv, ActionType
  <2> QED
    BY <2>2, <2>3
<1>8. Starts' /\ FollowsUp' /\ LogsIn'
  BY <1>1, <1>2, <1>3, <1>4 DEF WorkbenchInv, Starts, FollowsUp, LogsIn
<1> QED
  BY <1>1, <1>2, <1>6, <1>7, <1>8 DEF WorkbenchInv

LEMMA RestartInv == ASSUME WorkbenchInv, Idle, Restart PROVE WorkbenchInv'
<1>1. starting = {} /\ starting' = {} /\ followup = "idle" /\ followup' = "idle"
  BY DEF Restart
<1>2. /\ restart' = "restarting" /\ link' = FALSE /\ shown' = "unknown" /\ control' = "none"
      /\ act' = {} /\ uncertainAction' = FALSE
      /\ UNCHANGED <<restarted, manual, mode, toward, doubled>>
  BY DEF Restart, Disconnect, worker
<1>3. RunGoesOn
  BY StopsRun DEF Restart, WorkbenchInv
<1>4. /\ LogsIn' /\ login' \in {"idle", "pausing", "paused"}
      /\ want' \in {want, FALSE} /\ changing' \in {changing, FALSE}
  <2>1. CASE login = "switching"
    <3>1. login' = "idle" /\ changing' = FALSE /\ want' = FALSE
      BY <2>1 DEF Restart, HandlerEnds
    <3> QED
      BY <3>1 DEF LogsIn
  <2>2. CASE login # "switching"
    <3>1. Answers /\ UNCHANGED <<changing, want>>
      BY <2>2 DEF Restart
    <3> QED
      BY <1>1, <1>3, <2>2, <3>1, LoginKept
  <2> QED
    BY <2>1, <2>2
<1>5. HandlerType' /\ ActionType'
  BY <1>1, <1>2, <1>4 DEF WorkbenchInv, HandlerType, ActionType
<1>6. BrowserType'
  BY <1>2, <1>4 DEF WorkbenchInv, BrowserType
<1>7. Starts' /\ FollowsUp'
  BY <1>1 DEF Starts, FollowsUp
<1> QED
  BY <1>2, <1>3, <1>4, <1>5, <1>6, <1>7 DEF WorkbenchInv, RunGoesOn

LEMMA RestartSettlesInv == ASSUME WorkbenchInv, Idle, RestartSettles PROVE WorkbenchInv'
<1>1. RunInv' /\ UNCHANGED <<at, asked, Live, act, uncertainAction, login, starting, followup, want, link, shown, mode,
                            toward, control, doubled>>
  BY RunKept DEF RestartSettles, actions, worker, WorkbenchInv
<1>2. restart' = "idle" /\ restarted' = "failed" /\ changing' = FALSE /\ manual' \in BOOLEAN
  BY DEF RestartSettles, WorkbenchInv, BrowserType
<1>3. HandlerType' /\ ActionType'
  BY <1>1, <1>2 DEF WorkbenchInv, HandlerType, ActionType
<1>4. BrowserType'
  BY <1>1, <1>2 DEF WorkbenchInv, BrowserType
<1>5. Starts' /\ FollowsUp' /\ LogsIn'
  BY <1>1, <1>2 DEF WorkbenchInv, Starts, FollowsUp, LogsIn
<1> QED
  BY <1>1, <1>3, <1>4, <1>5 DEF WorkbenchInv

LEMMA WorkbenchInit == Init => WorkbenchInv
<1> SUFFICES ASSUME Init PROVE WorkbenchInv
  OBVIOUS
<1>1. RunInv
  BY DEF Init, RunInv, RunType, RestLeavesSurfaces, Stages, Live, Both, Surfaces, Owners, Parks, Active
<1>2. HandlerType /\ BrowserType /\ ActionType
  BY DEF Init, HandlerType, BrowserType, ActionType
<1>3. Starts /\ FollowsUp /\ LogsIn
  BY DEF Init, Starts, FollowsUp, LogsIn
<1> QED
  BY <1>1, <1>2, <1>3 DEF Init, WorkbenchInv

LEMMA WorkbenchStep == WorkbenchInv /\ [Next]_vars => WorkbenchInv'
<1> SUFFICES ASSUME WorkbenchInv, [Next]_vars PROVE WorkbenchInv'
  OBVIOUS
<1>1. CASE LoginContinues
  BY <1>1, LoginContinuesInv
<1>2. CASE Idle /\ RunMoves
  <2>1. RunGoesOn /\ ActionsGoOn
    BY <1>2, RunStep DEF RunMoves, WorkbenchInv
  <2> QED
    BY <1>2, <2>1, QuietInv DEF RunMoves
<1>3. CASE Idle /\ Control
  <2>1. RunGoesOn
    BY <1>3, ControlStep DEF WorkbenchInv
  <2>2. ActionsGoOn
    BY <1>3 DEF Control, actions, ActionsGoOn, ActionType, WorkbenchInv
  <2> QED
    BY <1>3, <2>1, <2>2, QuietInv DEF Control
<1>4. CASE Idle /\ (StartRun \/ \E who \in {"click", "again", "followup"} : RunStarts(who) \/ RunFails(who))
  BY <1>4, StartRunInv, RunStartsInv, RunFailsInv
<1>5. CASE Idle /\ (Followup \/ FollowupSettled \/ FollowupContinues)
  BY <1>5, FollowupInv, FollowupGoesOnInv
<1>6. CASE Idle /\ \E enable \in BOOLEAN : Login(enable)
  BY <1>6, LoginInv
<1>7. CASE Idle /\ BrowserSteps
  BY <1>7, BrowserInv
<1>8. CASE Idle /\ (Restart \/ RestartSettles)
  BY <1>8, RestartInv, RestartSettlesInv
<1>9. CASE UNCHANGED vars
  <2>1. UNCHANGED <<owner, run, act, uncertainAction, login, starting, followup, want, changing, restart, restarted,
                    manual, link, shown, mode, toward, control, doubled>>
    BY <1>9 DEF vars, actions, handlers, browser, worker
  <2>2. RunInv' /\ UNCHANGED <<at, asked, Live>>
    BY <2>1, RunKept DEF WorkbenchInv
  <2>3. HandlerType' /\ BrowserType' /\ ActionType'
    BY <2>1 DEF WorkbenchInv, HandlerType, BrowserType, ActionType
  <2>4. Starts' /\ FollowsUp' /\ LogsIn'
    BY <2>1, <2>2 DEF WorkbenchInv, Starts, FollowsUp, LogsIn
  <2> QED
    BY <2>1, <2>2, <2>3, <2>4 DEF WorkbenchInv
<1> QED
  BY <1>1, <1>2, <1>3, <1>4, <1>5, <1>6, <1>7, <1>8, <1>9 DEF Next, Handlers, BrowserSteps

LEMMA WorkbenchInvariance == Spec => []WorkbenchInv
<1> QED
  BY WorkbenchInit, WorkbenchStep, PTL DEF Spec

(* Whatever the commands of the human interrupt, what they begin finds the *)
(* run, the surfaces and the browser at rest: no run is replaced while it  *)
(* lives, a parked run leaves both surfaces, a follow-up starts with no    *)
(* browser action left, a login switches only beside a run at rest.        *)
THEOREM CommandsFindRest == Spec => []BeginsAtRest
<1> QED
  BY WorkbenchInvariance, InvBeginsAtRest, PTL

-----------------------------------------------------------------------------
(* What the agent types.                                                   *)

(* Where a call stands, for the step of the run and what it sent so far:   *)
(* a call of the terminal is in hand exactly while the run acts on it, one *)
(* that was stopped asks for nothing more, and one whose text is not yet   *)
(* submitted has an input to spare.                                        *)
Typed ==
  /\ ToolsTypeOK
  /\ typing \notin {"input", "text"} => ~pending
  /\ typing # "none" <=> at = "acting" /\ tool = "terminal"
  /\ stopped => typing \notin Requests
  /\ owner["terminal"] = "agent" \/ at \notin Active => since = 0
  /\ at = "vetting" /\ tool = "terminal" => since = 0
  /\ typing \in {"text", "settle"} => since <= 1
  /\ since <= AtMost

(* What a step of the run means to the call in hand.                       *)
CallStep ==
  /\ at # "acting" /\ at' = "acting" =>
       /\ ~stopped'
       /\ tool' = "terminal" => owner'["terminal"] = "agent" \/ (at = "vetting" /\ tool = "terminal")
  /\ at = "acting" /\ at' = "acting" => tool' = tool
  /\ at' = "vetting" /\ tool' = "terminal" => owner'["terminal"] = "agent" \/ (at = "vetting" /\ tool = "terminal")

LEMMA GoesOnCall ==
  ASSUME RunInv, NEW b \in BOOLEAN, Finish(b) \/ Handoff \/ BudgetPause \/ GoOn
  PROVE  CallStep
BY DEF Finish, Handoff, BudgetPause, GoOn, Park, CallStep

LEMMA StillCall == ASSUME UNCHANGED <<at, tool>> PROVE CallStep
BY DEF CallStep

LEMMA NextCallStep == ASSUME WorkbenchInv, [Next]_vars PROVE CallStep
<1>1. RunInv /\ stopped \in BOOLEAN
  BY DEF WorkbenchInv, RunInv, RunType
<1>2. CASE ModelReturns
  BY <1>1, <1>2, GoesOnCall DEF ModelReturns
<1>3. CASE CallsTool
  <2>1. at = "thinking" /\ ~stopped
    BY <1>3 DEF CallsTool
  <2>2. PICK s \in Surfaces :
          /\ ~LeaseDenies(s) /\ tool' = s /\ UNCHANGED <<owner, stopped>>
          /\ at' \in {"acting", "vetting"}
    BY <1>3 DEF CallsTool, Act
  <2>3. owner'[s] = "agent"
    BY <1>1, <2>2 DEF LeaseDenies, RunInv, RunType, Owners
  <2> QED
    BY <2>1, <2>2, <2>3 DEF CallStep
<1>4. CASE Vetted
  <2>1. at = "vetting"
    BY <1>4 DEF Vetted
  <2>2. CASE GoOn \/ Handoff
    BY <1>1, <2>2, GoesOnCall
  <2>3. CASE ~stopped /\ Act(tool)
    BY <1>1, <2>1, <2>3 DEF Act, CallStep
  <2> QED
    BY <1>4, <2>2, <2>3 DEF Vetted
<1>5. CASE ToolReturns
  BY <1>1, <1>5, GoesOnCall DEF ToolReturns
<1>6. CASE Settle
  BY <1>6 DEF Settle, CallStep
<1>7. CASE UNCHANGED <<at, tool>>
  BY <1>7, StillCall
<1>8. CASE \E o : StopRun(o)
  BY <1>1, <1>8, GoesOnCall, StillCall DEF StopRun
<1>9. CASE Unpark
  <2>1. CASE stopped
    BY <1>1, <1>9, <2>1, GoesOnCall DEF Unpark
  <2>2. CASE ~stopped
    BY <1>9, <2>2 DEF Unpark, CallStep
  <2> QED
    BY <2>1, <2>2
<1>10. CASE \E who \in {"click", "again", "followup"} : RunStarts(who)
  BY <1>10 DEF RunStarts, CallStep
<1>11. ActionSettles \/ CardOpens \/ CardCloses \/ (\E who : RunFails(who)) => UNCHANGED <<at, tool>>
  BY DEF ActionSettles, CardOpens, CardCloses, RunFails, run
<1>12. Control => (\E o : StopRun(o)) \/ Unpark \/ UNCHANGED <<at, tool>>
  BY DEF Control, RunResume, RunBudget, RunStop, Pause, RestartRefused, HumanTakes, AgentTakes, run
<1>13. Followup \/ Restart => \E o : StopRun(o)
  BY DEF Followup, Restart
<1>14. StartRun \/ FollowupSettled \/ FollowupContinues \/ BrowserSteps \/ RestartSettles \/ LoginContinues
         => UNCHANGED <<at, tool>>
  BY DEF StartRun, FollowupSettled, FollowupContinues, BrowserSteps, ControlReplies, Worker, StateArrives,
         BrowserStops,
         BrowserStarts, Restarted, RestartSettles, LoginContinues, run
<1>15. ASSUME NEW enable \in BOOLEAN, Login(enable) PROVE UNCHANGED <<at, tool>>
  BY <1>15 DEF Login, LoginBegins, run
<1>16. UNCHANGED vars => UNCHANGED <<at, tool>>
  BY DEF vars, run
<1> QED
  BY <1>2, <1>3, <1>4, <1>5, <1>6, <1>7, <1>8, <1>9, <1>10, <1>11, <1>12, <1>13, <1>14, <1>15, <1>16
  DEF Next, RunMoves, RunSteps, Handlers, BrowserSteps

(* What the call in hand has sent, and what a step adds to it.             *)
SendsMore == ~pending /\ pending'

LEMMA CountsUp ==
  ASSUME since \in Nat, Counts, owner' \in [Surfaces -> Owners]
  PROVE  /\ owner'["terminal"] = "agent" \/ at' \notin Active => since' = 0
         /\ ~SendsMore => since' \in {0, since}
         /\ SendsMore => since' \in {0} \cup (IF since > AtMost THEN {since} ELSE {since + 1})
BY DEF Counts, SendsMore

(* A step of the run, or of a command, joined with what it does to a call. *)
LEMMA TypesInv ==
  ASSUME WorkbenchInv, WorkbenchInv', Typed, [Next]_vars, Types
  PROVE  Typed' /\ (stopped /\ stopped' => (pending' => pending))
<1> DEFINE begins == at # "acting" /\ at' = "acting" /\ tool' = "terminal"
           ends == at = "acting" /\ tool = "terminal" /\ at' # "acting"
           aborts == at' = "acting" /\ typing \in Requests /\ ~stopped /\ stopped'
<1>1. CallStep
  BY NextCallStep
<1>2. /\ stopped \in BOOLEAN /\ stopped' \in BOOLEAN /\ owner' \in [Surfaces -> Owners]
      /\ owner["terminal"] \in Owners
  BY DEF WorkbenchInv, RunInv, RunType, Surfaces
<1>3. /\ typing \in Requests \cup Results \cup {"none"} /\ pending \in BOOLEAN /\ since \in Nat /\ since <= AtMost
      /\ AtMost = 2
  BY DEF Typed, ToolsTypeOK, AtMost
<1>4. \/ begins /\ Begins
      \/ ends /\ Ends
      \/ aborts /\ Aborts
      \/ ~begins /\ ~ends /\ ~aborts /\ UNCHANGED <<typing, pending>>
  BY DEF Types
<1>5. Counts
  BY DEF Types
<1>6. /\ owner'["terminal"] = "agent" \/ at' \notin Active => since' = 0
      /\ ~SendsMore => since' \in {0, since}
      /\ SendsMore => since' \in {0, since + 1}
  BY <1>2, <1>3, <1>5, CountsUp
<1>7. CASE begins /\ Begins
  <2>1. typing = "none" /\ pending = FALSE
    BY <1>3, <1>7 DEF Typed, Requests
  <2>2. ~stopped' /\ (owner'["terminal"] = "agent" \/ (at = "vetting" /\ tool = "terminal"))
    BY <1>1, <1>7 DEF CallStep
  <2>3. since' \in {0, 1}
    BY <1>3, <1>6, <2>2 DEF Typed
  <2>4. typing' \in {"input", "text", "done", "handoff"} /\ (typing' \notin {"input", "text"} => ~pending')
        /\ pending' \in BOOLEAN
    BY <1>7, <2>1 DEF Begins, Sends, ReadsOnly
  <2>5. Typed'
    BY <1>3, <1>6, <1>7, <2>2, <2>3, <2>4 DEF Typed, ToolsTypeOK, Requests, Results, AtMost
  <2> QED
    BY <2>2, <2>5
<1>8. CASE ends /\ Ends
  <2>1. typing \in Results /\ typing' = "none" /\ pending = FALSE /\ pending' = FALSE
    BY <1>3, <1>8 DEF Ends, Typed, Results
  <2>2. since' \in {0, since}
    BY <1>6, <2>1 DEF SendsMore
  <2>3. at' = "vetting" /\ tool' = "terminal" => since' = 0
    BY <1>1, <1>6, <1>8 DEF CallStep
  <2>4. ToolsTypeOK' /\ since' <= AtMost
    <3>1. since' \in 0 .. AtMost + 1 /\ since' <= AtMost
      BY <1>3, <2>1, <2>2 DEF AtMost
    <3>2. pending' \in BOOLEAN /\ typing' \in Requests \cup Results \cup {"none"}
      BY <1>3, <2>1, <2>2 DEF Results
    <3> QED
      BY <3>1, <3>2 DEF ToolsTypeOK
  <2>5. Typed'
    BY <1>6, <1>8, <2>1, <2>3, <2>4 DEF Typed, Requests, AtMost
  <2> QED
    BY <2>1, <2>5
<1>9. CASE aborts /\ Aborts
  <2>1. typing' = "done" /\ pending' = FALSE
    BY <1>9 DEF Aborts, Forgotten
  <2>2. since' \in {0, since}
    BY <1>6, <2>1 DEF SendsMore
  <2>3. at = "acting" /\ tool = "terminal" /\ tool' = "terminal"
    BY <1>1, <1>9 DEF Typed, CallStep, Requests
  <2>4. ToolsTypeOK' /\ since' <= AtMost
    <3>1. since' \in 0 .. AtMost + 1 /\ since' <= AtMost
      BY <1>3, <2>1, <2>2 DEF AtMost
    <3>2. pending' \in BOOLEAN /\ typing' \in Requests \cup Results \cup {"none"}
      BY <1>3, <2>1, <2>2 DEF Results
    <3> QED
      BY <3>1, <3>2 DEF ToolsTypeOK
  <2>5. Typed'
    BY <1>6, <1>9, <2>1, <2>3, <2>4 DEF Typed, Requests, AtMost
  <2> QED
    BY <2>1, <2>5
<1>10. CASE ~begins /\ ~ends /\ ~aborts /\ UNCHANGED <<typing, pending>>
  <2>1. since' \in {0, since}
    BY <1>6, <1>10 DEF SendsMore
  <2>2. typing # "none" <=> at' = "acting" /\ tool' = "terminal"
    BY <1>1, <1>10 DEF Typed, CallStep
  <2>3. stopped' => typing \notin Requests
    BY <1>2, <1>10, <2>2 DEF Typed, Requests
  <2>4. at' = "vetting" /\ tool' = "terminal" => since' = 0
    BY <1>1, <1>6, <2>1 DEF CallStep, Typed
  <2>5. Typed'
    BY <1>3, <1>6, <1>10, <2>1, <2>2, <2>3, <2>4 DEF Typed, ToolsTypeOK, AtMost
  <2> QED
    BY <1>10, <2>5
<1> QED
  BY <1>4, <1>7, <1>8, <1>9, <1>10

(* A step of the call itself.                                              *)
LEMMA WorksInv ==
  ASSUME WorkbenchInv, Typed, Works(Written) \/ Works(Executes)
  PROVE  Typed' /\ (stopped /\ stopped' => (pending' => pending))
<1>1. UNCHANGED <<owner, at, tool, stopped>>
  BY DEF Works, vars, run
<1>2. /\ typing \in Requests \cup Results \cup {"none"} /\ pending \in BOOLEAN /\ since \in Nat /\ since <= 2
      /\ owner' \in [Surfaces -> Owners]
  BY <1>1 DEF Typed, ToolsTypeOK, AtMost, WorkbenchInv, RunInv, RunType
<1>3. /\ owner'["terminal"] = "agent" \/ at' \notin Active => since' = 0
      /\ ~SendsMore => since' \in {0, since}
      /\ SendsMore => since' \in {0, since + 1}
  BY <1>2, CountsUp DEF Works, AtMost
<1>4. CASE Written
  <2>1. pending' = FALSE /\ typing' = typing
    BY <1>4 DEF Written
  <2>2. since' \in {0, since}
    BY <1>3, <2>1 DEF SendsMore
  <2>3. ToolsTypeOK' /\ since' <= AtMost
    <3>1. since' \in 0 .. AtMost + 1 /\ since' <= AtMost
      BY <1>2, <2>1, <2>2 DEF AtMost
    <3>2. pending' \in BOOLEAN /\ typing' \in Requests \cup Results \cup {"none"}
      BY <1>2, <2>1, <2>2
    <3> QED
      BY <3>1, <3>2 DEF ToolsTypeOK
  <2>4. Typed'
    BY <1>1, <1>2, <1>3, <2>1, <2>2, <2>3 DEF Typed, AtMost
  <2> QED
    BY <2>1, <2>4
<1>5. CASE Settles /\ typing' = "input" /\ Sends
  <2>1. typing = "settle" /\ pending = FALSE /\ ~stopped /\ since <= 1 /\ pending' = TRUE
    BY <1>2, <1>5 DEF Settles, Sends, Typed, Requests
  <2>2. since' \in {0, since + 1}
    BY <1>3, <2>1 DEF SendsMore
  <2>3. ToolsTypeOK' /\ since' <= AtMost
    <3>1. since' \in 0 .. AtMost + 1 /\ since' <= AtMost
      BY <1>2, <1>5, <2>1, <2>2 DEF AtMost
    <3>2. pending' \in BOOLEAN /\ typing' \in Requests \cup Results \cup {"none"}
      BY <1>2, <1>5, <2>1, <2>2 DEF Requests
    <3> QED
      BY <3>1, <3>2 DEF ToolsTypeOK
  <2>4. at = "acting" /\ tool = "terminal"
    BY <2>1 DEF Typed
  <2>5. Typed'
    BY <1>1, <1>3, <1>5, <2>1, <2>3, <2>4 DEF Typed, AtMost
  <2> QED
    BY <2>1, <2>5
<1>6. CASE InputReturns \/ TimesOut \/ (Settles /\ typing' \in Results /\ UNCHANGED pending)
  <2>1. /\ typing \in Requests /\ pending' = FALSE
        /\ typing' \in Results \/ (typing = "text" /\ typing' = "settle")
    BY <1>2, <1>6
    DEF InputReturns, Replied, ReadsOnly, TimesOut, Forgotten, Settles, Typed, Requests, Results
  <2>2. since' \in {0, since}
    BY <1>3, <2>1 DEF SendsMore
  <2>3. ToolsTypeOK' /\ since' <= AtMost
    <3>1. since' \in 0 .. AtMost + 1 /\ since' <= AtMost
      BY <1>2, <2>1, <2>2 DEF AtMost
    <3>2. pending' \in BOOLEAN /\ typing' \in Requests \cup Results \cup {"none"}
      BY <1>2, <2>1, <2>2 DEF Requests, Results
    <3> QED
      BY <3>1, <3>2 DEF ToolsTypeOK
  <2>4. at = "acting" /\ tool = "terminal" /\ ~stopped
    BY <2>1 DEF Typed, Requests
  <2>5. typing' \in {"text", "settle"} => since' <= 1
    BY <1>2, <2>1, <2>2 DEF Typed, Results
  <2>6. Typed'
    BY <1>1, <1>3, <2>1, <2>3, <2>4, <2>5 DEF Typed, Results, AtMost
  <2> QED
    BY <2>1, <2>6
<1> QED
  BY <1>4, <1>5, <1>6 DEF Works, Executes, Settles

LEMMA ToolsInvInit == ToolsInit => WorkbenchInv /\ Typed
<1> SUFFICES ASSUME ToolsInit PROVE WorkbenchInv /\ Typed
  OBVIOUS
<1>1. ToolsTypeOK
  <2>1. since \in 0 .. AtMost + 1
    BY DEF ToolsInit, AtMost
  <2>2. typing \in Requests \cup Results \cup {"none"} /\ pending \in BOOLEAN
    BY DEF ToolsInit
  <2> QED
    BY <2>1, <2>2 DEF ToolsTypeOK
<1> QED
  BY <1>1, WorkbenchInit DEF ToolsInit, Init, Typed, Requests, AtMost

LEMMA ToolsStep ==
  WorkbenchInv /\ Typed /\ [ToolsNext]_toolVars =>
    [Next]_vars /\ WorkbenchInv' /\ Typed' /\ (stopped /\ stopped' => (pending' => pending))
<1> SUFFICES ASSUME WorkbenchInv, Typed, [ToolsNext]_toolVars
             PROVE  [Next]_vars /\ WorkbenchInv' /\ Typed' /\ (stopped /\ stopped' => (pending' => pending))
  OBVIOUS
<1>1. [Next]_vars
  BY DEF ToolsNext, Works, toolVars
<1>2. WorkbenchInv'
  BY <1>1, WorkbenchStep
<1>3. CASE Next /\ Types
  BY <1>1, <1>2, <1>3, TypesInv
<1>4. CASE Works(Written) \/ Works(Executes)
  BY <1>4, WorksInv, <1>1, <1>2
<1>5. CASE UNCHANGED toolVars
  BY <1>1, <1>2, <1>5 DEF toolVars, tools, vars, run, Typed, ToolsTypeOK
<1> QED
  BY <1>3, <1>4, <1>5 DEF ToolsNext

(* The tools of the terminal leave the commands of the daemon as they are: *)
(* what executeTerminalTool does is no step of a run, or part of one.      *)
THEOREM ToolsServeTheRun == ToolsSpec => Spec
<1>1. ToolsInit => Init
  BY DEF ToolsInit
<1>2. [ToolsNext]_toolVars => [Next]_vars
  BY DEF ToolsNext, Works, toolVars
<1> QED
  BY <1>1, <1>2, PTL DEF ToolsSpec, Spec

(* After Stop the agent sends no more input, once the human holds the      *)
(* terminal at most what is left of the call in hand, and no call ends     *)
(* with its input on the way (terminal-tools.ts, connection.ts).           *)
THEOREM StopsTyping == ToolsSpec => LeavesTheTerminal
<1> DEFINE Leaves == /\ ToolsTypeOK'
                     /\ stopped /\ stopped' => (pending' => pending)
                     /\ since' <= AtMost
                     /\ typing' \notin Requests => ~pending'
<1>1. ToolsInit => WorkbenchInv /\ Typed
  BY ToolsInvInit
<1>2. WorkbenchInv /\ Typed /\ [ToolsNext]_toolVars => WorkbenchInv' /\ Typed'
  BY ToolsStep
<1>3. WorkbenchInv /\ Typed /\ [ToolsNext]_toolVars => Leaves
  <2> SUFFICES ASSUME WorkbenchInv, Typed, [ToolsNext]_toolVars PROVE Leaves
    OBVIOUS
  <2>1. Typed' /\ (stopped /\ stopped' => (pending' => pending))
    BY ToolsStep
  <2> QED
    BY <2>1 DEF Typed, Requests, AtMost
<1> QED
  BY <1>1, <1>2, <1>3, PTL DEF ToolsSpec, LeavesTheTerminal
=============================================================================
