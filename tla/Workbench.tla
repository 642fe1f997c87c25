------------------------------ MODULE Workbench ------------------------------
(***************************************************************************)
(* The daemon between the window, the run and the browser (ipc.ts): who    *)
(* holds the terminal and the browser, starting, stopping, parking and     *)
(* following up a run, manual login and browser restart.                   *)
(*                                                                         *)
(* A handler of the daemon runs to its next await; each await is a value   *)
(* of starting, followup, login or restart.  The run is an outline of      *)
(* RunController: a step here is a stretch of that module between two      *)
(* points the daemon can see.  The sandbox session is open and ready; one  *)
(* approval card stands for all cards of the run.                          *)
(***************************************************************************)
EXTENDS FiniteSets

VARIABLES
  owner,     (* Who holds each surface: lease, browserLease.                *)
  state,     (* run.state; "ended" is any terminal state, "none" no run.    *)
  at,        (* What the run is doing.                                      *)
  tool,      (* The surface of its call in progress.                        *)
  stopped,   (* stop() was called.                                          *)
  asked,     (* A pauseForHuman promise is open.                            *)
  card,      (* An approval card of the run is open.                        *)
  budgetParked,  (* The flag of the run's listener.                         *)
  act,       (* BrowserSessionManager.actions: of the call in progress,     *)
             (* and left behind by a call that was aborted.                 *)
  uncertainAction,
  starting,  (* The startRun calls that await their snapshot: of a click,   *)
             (* of a second click, of a follow-up; {} is ~startingRun.      *)
  followup,  (* Where a follow-up stands; "idle" is ~followingUp.           *)
  login,     (* Where the manual-login handler stands.                      *)
  want,      (* Whether it opens or finishes the login.                     *)
  changing,  (* browserChanging.                                            *)
  manual,    (* browserManual, and its marker file.                         *)
  restart,   (* Where the restart handler stands; "idle" is                 *)
             (* ~browserRestarting.                                         *)
  restarted, (* The status that browser.restart() returned.                 *)
  link,      (* The daemon is connected to the browser worker.              *)
  shown,     (* The mode in browser.status.                                 *)
  mode,      (* The worker's mode, with its marker in the profile.          *)
  toward,    (* Where a switch of the worker's mode goes.                   *)
  control,   (* The browser.control request, up to its reply.               *)
  doubled    (* History: a run was replaced while it was live.              *)

run == <<state, at, tool, stopped, asked, card, budgetParked>>
actions == <<act, uncertainAction>>
worker == <<mode, toward>>
browser == <<manual, link, shown, worker, control>>
handlers == <<starting, followup, want, changing, restart, restarted>>
vars == <<owner, run, actions, login, handlers, browser, doubled>>

Surfaces == {"terminal", "browser"}
Owners == {"human", "agent"}
Both(o) == [s \in Surfaces |-> o]
Parks == {"handoff", "budget"}
Active == {"thinking", "vetting", "acting"}

TypeOK ==
  /\ owner \in [Surfaces -> Owners]
  /\ state \in {"none", "running", "awaiting_approval", "handoff", "budget_paused", "ended"}
  /\ at \in {"none", "closing", "settled"} \cup Parks \cup Active
  /\ tool \in Surfaces \cup {"none"}
  /\ {stopped, asked, card, budgetParked, uncertainAction, want, changing, manual, link, doubled} \subseteq BOOLEAN
  /\ act \subseteq {"mine", "left"}
  /\ starting \subseteq {"click", "again", "followup"}
  /\ followup \in {"idle", "settling", "actions", "starting"}
  /\ login \in {"idle", "pausing", "paused", "switching"}
  /\ restart \in {"idle", "restarting", "settling"}
  /\ restarted \in {"failed", "auto", "manual"}
  /\ shown \in {"unknown", "auto", "switching", "manual"}
  /\ mode \in {"auto", "switching", "manual"}
  /\ toward \in {"auto", "manual"}
  /\ control \in {"none", "sent", "taken", "ok", "failed"}
  /\ (control # "none") = (login = "switching")

Init ==
  /\ owner = Both("human")
  /\ state = "none" /\ at = "none" /\ tool = "none"
  /\ stopped = FALSE /\ asked = FALSE /\ card = FALSE /\ budgetParked = FALSE
  /\ act = {} /\ uncertainAction = FALSE
  /\ starting = {} /\ followup = "idle" /\ login = "idle" /\ want = FALSE /\ changing = FALSE
  /\ restart = "idle" /\ restarted = "failed"
  /\ manual \in BOOLEAN /\ mode = (IF manual THEN "manual" ELSE "auto")
  /\ link = FALSE /\ shown = "unknown" /\ toward = "manual" /\ control = "none"
  /\ doubled = FALSE

Live == state \notin {"none", "ended"}

HumanOnly == changing \/ manual \/ shown \in {"manual", "switching"}

(* The await of a pause that was answered is over before anything else     *)
(* happens.                                                                *)
Idle == login # "paused"

(* Mutant: a park does not answer the pause.                               *)
AnswersEnded == login' = IF login = "pausing" /\ asked /\ state' = "ended" THEN "paused" ELSE login

Answers == login' = IF login = "pausing" /\ asked /\ ~asked' THEN "paused" ELSE login

-----------------------------------------------------------------------------
(* The run.                                                                *)

(* finish(), its listener and the finally block.                           *)
Finish(aborted) ==
  /\ state' = "ended" /\ at' = (IF aborted THEN "closing" ELSE "settled")
  /\ stopped' = aborted /\ asked' = FALSE /\ card' = FALSE
  /\ owner' = Both("human")
  /\ tool' = "none" /\ UNCHANGED budgetParked

Park(where, st) ==
  /\ state' = st /\ at' = where
  /\ asked' = FALSE
  /\ owner' = Both("human")
  /\ budgetParked' = (budgetParked \/ where = "budget")
  /\ tool' = "none" /\ UNCHANGED <<stopped, card>>

Handoff == Park("handoff", "handoff")
BudgetPause == Park("budget", "budget_paused")

(* What the run does after a model turn or a call: Stop comes first; a     *)
(* limit may be seen before a pause, in the same batch.                    *)
GoOn ==
  IF stopped THEN Finish(TRUE)
  ELSE IF asked THEN Handoff \/ BudgetPause
  ELSE \/ at' = "thinking" /\ tool' = "none" /\ UNCHANGED <<owner, state, stopped, asked, card, budgetParked>>
       \/ BudgetPause

(* Mutant: the lease is not asked.                                         *)
LeaseIgnored(s) == FALSE

LeaseDenies(s) == owner[s] = "human"

(* The model answers and is done, or its next call meets a limit or a      *)
(* surface that the human holds.  A plan older than a pause is skipped.    *)
ModelReturns ==
  /\ at = "thinking"
  /\ \/ Finish(stopped)
     \/ (stopped \/ asked) /\ GoOn
     \/ /\ ~stopped /\ ~asked
        /\ \/ BudgetPause
           \/ \E s \in Surfaces : LeaseDenies(s) /\ Handoff
  /\ UNCHANGED actions

(* tools.execute is called; browser.act sends a request.                   *)
Act(s) ==
  /\ at' = "acting" /\ tool' = s
  /\ act' \in {act} \cup (IF s = "browser" /\ shown = "auto" /\ ~uncertainAction
                          THEN {act \cup {"mine"}} ELSE {})
  /\ UNCHANGED <<owner, state, stopped, asked, card, budgetParked, uncertainAction>>

(* The next call is on a surface the agent holds.  Typing awaits a look at *)
(* the screen, an action of the browser may await a card, and every call   *)
(* awaits the cards that are open; otherwise nothing is awaited.           *)
CallsTool ==
  /\ at = "thinking" /\ ~stopped /\ ~asked
  /\ \E s \in Surfaces :
       /\ ~LeaseDenies(s)
       /\ \/ ~card /\ Act(s)
          \/ /\ at' = "vetting" /\ tool' = s
             /\ card' = (card \/ s = "browser")
             /\ state' = IF card' THEN "awaiting_approval" ELSE state
             /\ UNCHANGED <<owner, stopped, asked, budgetParked, actions>>

(* The policy decides, and no card of the run is open any more.            *)
Vetted ==
  /\ at = "vetting" /\ (~card \/ stopped)
  /\ \/ (GoOn \/ Handoff) /\ UNCHANGED actions
     \/ ~stopped /\ ~asked /\ Act(tool)

(* tools.execute settles.  Only an abort lets it leave its browser action  *)
(* behind; a reply that does not come in time makes it uncertain.          *)
ToolReturns ==
  /\ at = "acting"
  /\ \/ GoOn \/ Handoff \/ Finish(stopped)
  /\ \/ act' = act \ {"mine"} /\ UNCHANGED uncertainAction
     \/ "mine" \in act /\ act' = act \ {"mine"} /\ uncertainAction' = TRUE
     \/ "mine" \in act /\ stopped /\ act' = {"left"} /\ UNCHANGED uncertainAction

ActionSettles ==
  /\ "left" \in act
  /\ act' = act \ {"left"}
  /\ uncertainAction' \in {uncertainAction, TRUE}
  /\ UNCHANGED <<owner, run>>

(* Mutant: an error of adapter.interrupt() skips resolveSettled().         *)
SettleSkipped == FALSE /\ UNCHANGED <<owner, run, actions>>

(* adapter.interrupt() returns, or fails.                                  *)
Settle ==
  /\ at = "closing" /\ at' = "settled"
  /\ UNCHANGED <<owner, state, tool, stopped, asked, card, budgetParked, actions>>

(* A gated command of the agent or a new host asks under the run.          *)
CardOpens ==
  /\ Live /\ ~card
  /\ owner["terminal"] = "agent" \/ ~HumanOnly
  /\ card' = TRUE
  /\ state' = IF stopped THEN state ELSE "awaiting_approval"
  /\ UNCHANGED <<owner, at, tool, stopped, asked, budgetParked, actions>>

(* The listener of the run's state when it is "running" again.             *)
RunningAgain ==
  /\ state' = "running"
  /\ owner' = IF budgetParked THEN Both("agent") ELSE owner
  /\ budgetParked' = FALSE

CardCloses ==
  /\ card /\ card' = FALSE
  /\ IF ~stopped /\ state = "awaiting_approval" THEN RunningAgain
     ELSE UNCHANGED <<state, owner, budgetParked>>
  /\ UNCHANGED <<at, tool, stopped, asked, actions>>

RunSteps == ModelReturns \/ CallsTool \/ Vetted \/ ToolReturns \/ Settle

RunMoves ==
  /\ RunSteps \/ ActionSettles \/ CardOpens \/ CardCloses
  /\ Answers
  /\ UNCHANGED <<handlers, browser, doubled>>

(* stop(), with the leases at o: cards are denied, a parked run ends.      *)
StopRun(o) ==
  IF Live /\ ~stopped /\ at \in Parks THEN Finish(TRUE)
  ELSE /\ owner' = o
       /\ stopped' = (stopped \/ Live)
       /\ card' = (card /\ (stopped \/ ~Live))
       /\ UNCHANGED <<state, at, tool, asked, budgetParked>>

-----------------------------------------------------------------------------
(* Starting, resuming and stopping a run.                                  *)

(* Mutant: a second click during the snapshot is not refused.              *)
StartAllowedTwice(who) ==
  /\ ~HumanOnly /\ restart = "idle" /\ ~Live
  /\ who = "followup" \/ followup = "idle"

(* The guards of startRun, up to the snapshot.                             *)
StartAllowed(who) ==
  /\ ~HumanOnly /\ starting = {} /\ restart = "idle" /\ ~Live
  /\ who = "followup" \/ followup = "idle"

StartRun ==
  /\ StartAllowed("click")
  /\ starting' = starting \cup {IF "click" \in starting THEN "again" ELSE "click"}
  /\ UNCHANGED <<owner, run, actions, login, followup, want, changing, restart, restarted, browser, doubled>>

(* The snapshot is made: the new run replaces the last one.                *)
RunStarts(who) ==
  /\ who \in starting /\ starting' = starting \ {who}
  /\ followup' = IF who = "followup" THEN "idle" ELSE followup
  /\ doubled' = (doubled \/ Live)
  /\ state' = "running" /\ at' = "thinking"
  /\ stopped' = FALSE /\ asked' = FALSE /\ card' = FALSE /\ budgetParked' = FALSE
  /\ owner' = Both("agent")
  /\ act' = (IF act = {} THEN {} ELSE {"left"})
  /\ UNCHANGED <<tool, uncertainAction, login, want, changing, restart, restarted, browser>>

(* The snapshot throws, or the playbook is gone: there is no run.          *)
RunFails(who) ==
  /\ who \in starting /\ starting' = starting \ {who}
  /\ followup' = IF who = "followup" THEN "idle" ELSE followup
  /\ UNCHANGED <<owner, run, actions, login, want, changing, restart, restarted, browser, doubled>>

(* Leaving a handoff; a stopped run that is parked ends.                   *)
Unpark ==
  IF stopped THEN Finish(TRUE)
  ELSE /\ state' = "running" /\ at' = "thinking" /\ budgetParked' = FALSE
       /\ owner' = Both("agent")
       /\ UNCHANGED <<tool, stopped, asked, card>>

RunResume == ~HumanOnly /\ state = "handoff" /\ Unpark

RunBudget == ~HumanOnly /\ state = "budget_paused" /\ Unpark

RunStop == Live /\ ~stopped /\ StopRun(owner)

(* lease.take for the surfaces in S.                                       *)
HumanTakes(S) ==
  /\ \E s \in S : owner[s] = "agent"
  /\ owner' = [s \in Surfaces |-> IF s \in S THEN "human" ELSE owner[s]]
  /\ UNCHANGED run

(* Mutant: a run paused at a limit may be given the surfaces.              *)
TakesControlPaused == state \notin {"none", "ended", "handoff"}

TakesControl == state \notin {"none", "ended", "handoff", "budget_paused"}

AgentTakes(S) ==
  /\ followup = "idle" /\ restart = "idle" /\ ~HumanOnly
  /\ IF state = "handoff" THEN Unpark
     ELSE /\ TakesControl /\ \E s \in S : owner[s] = "human"
          /\ owner' = [s \in Surfaces |-> IF s \in S THEN "agent" ELSE owner[s]]
          /\ UNCHANGED run

(* The conversation command "pause"; the workspace has a conversation.     *)
Pause ==
  /\ followup = "idle" /\ starting = {} /\ restart = "idle"
  /\ StopRun(Both("human"))

(* "Restart browser" of a browser that is starting: browser.restart()      *)
(* throws, but the surfaces are taken and the run is stopped.              *)
RestartRefused ==
  /\ restart = "idle" /\ starting = {} /\ followup = "idle" /\ ~link
  /\ StopRun(Both("human"))

Control ==
  /\ \/ RunResume \/ RunBudget \/ RunStop \/ Pause \/ RestartRefused
     \/ \E S \in (SUBSET Surfaces) \ {{}} : HumanTakes(S) \/ AgentTakes(S)
  /\ Answers
  /\ UNCHANGED <<actions, handlers, browser, doubled>>

-----------------------------------------------------------------------------
(* Following up.                                                           *)

Followup ==
  /\ followup = "idle" /\ starting = {} /\ restart = "idle" /\ ~HumanOnly
  /\ followup' = "settling"
  /\ StopRun(IF Live THEN Both("human") ELSE owner)
  /\ Answers
  /\ UNCHANGED <<actions, starting, want, changing, restart, restarted, browser, doubled>>

FollowupSettled ==
  /\ followup = "settling" /\ at \in {"none", "settled"}
  /\ followup' = "actions"
  /\ UNCHANGED <<owner, run, actions, login, starting, want, changing, restart, restarted, browser, doubled>>

(* Mutant: the browser's actions are not waited for.                       *)
ActionsSettledAlways == TRUE

(* Mutant: an uncertain action is waited for.                              *)
ActionsSettledCertain == act = {} /\ ~uncertainAction

(* settleActions resolves when every action has got its reply.             *)
ActionsSettled == act = {}

FollowupContinues ==
  /\ followup = "actions" /\ ActionsSettled
  /\ IF uncertainAction \/ ~StartAllowed("followup")
     THEN followup' = "idle" /\ UNCHANGED starting
     ELSE followup' = "starting" /\ starting' = starting \cup {"followup"}
  /\ UNCHANGED <<owner, run, actions, login, want, changing, restart, restarted, browser, doubled>>

-----------------------------------------------------------------------------
(* Manual login.                                                           *)

(* setBrowserManual(true) and browser.control; with no connection it       *)
(* throws, and the finally block ends the handler.                         *)
SendControl(enable) ==
  /\ manual' = (manual \/ enable)
  /\ IF link THEN /\ control' = "sent" /\ login' = "switching" /\ changing' = TRUE /\ want' = enable
     ELSE /\ login' = "idle" /\ changing' = FALSE /\ want' = FALSE /\ UNCHANGED control
  /\ UNCHANGED <<link, shown, worker>>

AtRest == ~Live \/ state \in {"handoff", "budget_paused"}

(* Mutant: the switch does not wait for the run.                           *)
LoginUnpaused(enable) ==
  /\ owner' = IF enable THEN Both("human") ELSE owner
  /\ SendControl(enable) /\ UNCHANGED run

(* After the guards: opening a login takes the surfaces and waits for the  *)
(* run to be at rest.                                                      *)
LoginBegins(enable) ==
  IF enable /\ ~AtRest
  THEN /\ owner' = Both("human") /\ asked' = TRUE
       /\ login' = "pausing" /\ changing' = TRUE /\ want' = TRUE
       /\ UNCHANGED <<state, at, tool, stopped, card, budgetParked, browser>>
  ELSE /\ owner' = IF enable THEN Both("human") ELSE owner
       /\ SendControl(enable) /\ UNCHANGED run

(* One such handler at a time: the model's bound where a restart has reset *)
(* browserChanging under it.                                               *)
Login(enable) ==
  /\ login = "idle" /\ ~changing /\ restart = "idle" /\ starting = {}
  /\ enable => ~card
  /\ LoginBegins(enable)
  /\ UNCHANGED <<actions, starting, followup, restart, restarted, doubled>>

LoginContinues ==
  /\ login = "paused"
  /\ SendControl(TRUE)
  /\ UNCHANGED <<owner, run, actions, starting, followup, restart, restarted, doubled>>

(* A status with a mode that is not in between sets browserManual.         *)
Shows(m) ==
  /\ shown' = m
  /\ manual' = IF m = "switching" THEN manual ELSE m = "manual"

(* The reply to browser.control.                                           *)
ControlReplies ==
  /\ login = "switching" /\ control \in {"ok", "failed"}
  /\ IF control = "ok" THEN Shows(mode) ELSE UNCHANGED <<manual, shown>>
  /\ control' = "none" /\ login' = "idle" /\ changing' = FALSE /\ want' = FALSE
  /\ UNCHANGED <<owner, run, actions, starting, followup, restart, restarted, link, worker, doubled>>

-----------------------------------------------------------------------------
(* The browser worker and its connection.                                  *)

Wanted == IF want THEN "manual" ELSE "auto"

(* The worker takes the request up ...                                     *)
TakenUp ==
  /\ control = "sent"
  /\ IF mode = Wanted THEN control' = "ok" /\ UNCHANGED worker
     ELSE IF mode = "switching" THEN control' = "failed" /\ UNCHANGED worker
     ELSE control' = "taken" /\ mode' = "switching" /\ toward' = Wanted

(* ... and switches; a switch that fails leaves it in manual mode.         *)
Switched ==
  /\ mode = "switching"
  /\ mode' \in {toward, "manual"}
  /\ control' = IF control = "taken" THEN (IF mode' = toward THEN "ok" ELSE "failed") ELSE control
  /\ toward' = "manual"

(* The worker's deadline of 45 seconds passes first.                       *)
GivesUp == control = "taken" /\ control' = "failed" /\ UNCHANGED worker

Worker ==
  /\ TakenUp \/ Switched \/ GivesUp
  /\ UNCHANGED <<owner, run, actions, login, handlers, manual, link, shown, doubled>>

(* browser.state arrives.                                                  *)
StateArrives ==
  /\ link /\ Shows(mode)
  /\ UNCHANGED <<owner, run, actions, login, handlers, link, worker, control, doubled>>

(* The connection closes: the requests on it are rejected, so the handler  *)
(* that waits for one ends.                                                *)
Disconnect ==
  /\ link' = FALSE /\ shown' = "unknown" /\ control' = "none"
  /\ act' = {}

(* Mutant: the handler waits on.                                           *)
HandlerWaitsOn == UNCHANGED <<login, changing, want>>

HandlerEnds ==
  IF login = "switching" THEN login' = "idle" /\ changing' = FALSE /\ want' = FALSE
  ELSE UNCHANGED <<login, changing, want>>

(* Close browser, or the connection is lost.  The worker goes on; it may   *)
(* yet take up a request that was on its way.                              *)
BrowserStops ==
  /\ link /\ Disconnect /\ HandlerEnds
  /\ \/ UNCHANGED worker
     \/ /\ control = "sent" /\ mode \notin {"switching", Wanted}
        /\ mode' = "switching" /\ toward' = Wanted
  /\ UNCHANGED <<owner, run, uncertainAction, starting, followup, restart, restarted, manual, doubled>>

BrowserStarts ==
  /\ ~link /\ restart # "restarting"
  /\ link' = TRUE /\ Shows(mode)
  /\ UNCHANGED <<owner, run, actions, login, handlers, worker, control, doubled>>

-----------------------------------------------------------------------------
(* Restarting the browser.                                                 *)

(* The surfaces are taken, the run is stopped, the connection closed.      *)
Restart ==
  /\ restart = "idle" /\ starting = {} /\ followup = "idle"
  /\ restart' = "restarting"
  /\ StopRun(Both("human"))
  /\ Disconnect /\ uncertainAction' = FALSE
  /\ IF login = "switching" THEN HandlerEnds ELSE Answers /\ UNCHANGED <<changing, want>>
  /\ UNCHANGED <<starting, followup, restarted, manual, worker, doubled>>

(* The new worker finds the marker of manual mode in the profile.          *)
Restarted ==
  /\ restart = "restarting" /\ restart' = "settling"
  /\ \/ /\ mode' = IF mode = "auto" THEN "auto" ELSE "manual"
        /\ link' = TRUE /\ Shows(mode') /\ restarted' = mode'
     \/ restarted' = "failed" /\ UNCHANGED <<mode, link, shown, manual>>
  /\ UNCHANGED <<owner, run, actions, login, starting, followup, want, changing, toward, control, doubled>>

(* Then the stopped run must have settled.                                 *)
RestartSettles ==
  /\ restart = "settling" /\ at \in {"none", "settled"}
  /\ restart' = "idle" /\ restarted' = "failed" /\ changing' = FALSE
  /\ manual' = IF restarted = "failed" THEN manual ELSE restarted = "manual"
  /\ UNCHANGED <<owner, run, actions, login, starting, followup, want, link, shown, worker, control,
                 doubled>>

-----------------------------------------------------------------------------
Handlers ==
  \/ StartRun \/ Control
  \/ \E who \in {"click", "again", "followup"} : RunStarts(who) \/ RunFails(who)
  \/ Followup \/ FollowupSettled \/ FollowupContinues
  \/ \E enable \in BOOLEAN : Login(enable)
  \/ ControlReplies \/ Worker \/ StateArrives \/ BrowserStops \/ BrowserStarts
  \/ Restart \/ Restarted \/ RestartSettles

Next == LoginContinues \/ (Idle /\ (RunMoves \/ Handlers))

Spec == Init /\ [][Next]_vars

(* What has a timeout or an abort ends, a card by its timer.  The snapshot *)
(* of git and the podman of a restart have neither (snapshot.ts:5,         *)
(* runtime/podman.ts:11), and the human owes nothing.                      *)
FairSpec ==
  /\ Spec
  /\ WF_vars(LoginContinues)
  /\ WF_vars(Idle /\ RunSteps /\ Answers /\ UNCHANGED <<handlers, browser, doubled>>)
  /\ WF_vars(Idle /\ CardCloses /\ Answers /\ UNCHANGED <<handlers, browser, doubled>>)
  /\ WF_vars(Idle /\ ActionSettles /\ Answers /\ UNCHANGED <<handlers, browser, doubled>>)
  /\ WF_vars(Idle /\ FollowupSettled) /\ WF_vars(Idle /\ FollowupContinues)
  /\ WF_vars(Idle /\ Worker) /\ WF_vars(Idle /\ ControlReplies)
  /\ WF_vars(Idle /\ RestartSettles)

-----------------------------------------------------------------------------
(* Properties.                                                             *)

(* The daemon never replaces a run that is still live, whatever the human  *)
(* clicks during the awaits of starting, following up and restarting: the  *)
(* old one would go on with no one to stop it.                             *)
OneLiveRun == ~doubled

(* A run that is shown parked or ended leaves both surfaces to the human,  *)
(* also when it was given a surface a moment ago.                          *)
RestLeavesSurfaces == state \notin {"running", "awaiting_approval"} => owner = Both("human")

(* A follow-up runs in the same browser as the run it continues: from the  *)
(* moment it is being started, that run has settled, its browser actions   *)
(* have got their replies, and none of them is uncertain.                  *)
FollowupsStartClean == "followup" \in starting => at \in {"none", "settled"} /\ act = {} /\ ~uncertainAction

(* Log in manually parks the run before switching the browser's mode       *)
(* (USER_GUIDE.md:75), and it stays parked while the handler waits.        *)
LoginFindsRunAtRest == changing /\ want /\ login = "switching" => at \notin Active

(* Whatever the commands of the human interrupt, what they begin finds the *)
(* run, the surfaces and the browser at rest.                              *)
BeginsAtRest == TypeOK /\ OneLiveRun /\ RestLeavesSurfaces /\ FollowupsStartClean /\ LoginFindsRunAtRest

(* Not kept by the code, in which other policies wait after LeasePolicy    *)
(* has read the lease: agent tool calls are denied when the human owns the *)
(* surface (2026-09-04-t1-m3-agent-loop.md:7), and no call starts on it.   *)
CallsHoldTheirSurface ==
  [][at # "acting" /\ at' = "acting" => owner[tool'] = "agent"]_vars

(* A run that waits for a human who cannot know it: stopped, or asked for  *)
(* a pause it had already taken.                                           *)
Stranded == at \in Parks /\ (stopped \/ asked)

(* Every operation of the daemon ends, unless it waits for a stranded run, *)
(* or for good for git's snapshot or for podman.                           *)
FollowupEnds == followup # "idle" ~> (followup = "idle" \/ Stranded \/ [](followup = "starting"))
LoginEnds == login # "idle" ~> (login = "idle" \/ Stranded)
RestartEnds == restart # "idle" ~> (restart = "idle" \/ Stranded \/ [](restart = "restarting"))

(* Following up, logging in and restarting end in the presence of each     *)
(* other and of a run that ends, parks or fails meanwhile, except where    *)
(* git or podman never answers.                                            *)
CommandsEnd == FollowupEnds /\ LoginEnds /\ RestartEnds
=============================================================================
