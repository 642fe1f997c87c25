---------------------------- MODULE BrowserWorker ----------------------------
(***************************************************************************)
(* The browser of a session (browser-session.ts, manual-browser.ts, and    *)
(* the server.ts that calls them): its tabs, the switch between the agent's *)
(* Chromium and the human's, the human's commands with their time limits,  *)
(* and what an observation lets the agent act on.  BrowserPreview has the  *)
(* frames and the input.                                                   *)
(*                                                                         *)
(* A method runs to its next await.  The revision only grows, so that a    *)
(* value that was read is modelled by whether it is still current (fresh). *)
(***************************************************************************)
EXTENDS Naturals

CONSTANTS
  Pages,       (* 1 .. n: names of tabs.                                    *)
  Ops,         (* Names of control commands under way.                      *)
  MaxDeaths    (* Bound: deaths of the worker and of its Chromium.          *)

ASSUME WorkerAssumption == Pages \subseteq Nat \ {0} /\ MaxDeaths \in Nat

VARIABLES
  b,         (* BrowserSession's fields.                                    *)
  context,   (* this.context is a browser that runs.                        *)
  manual,    (* this.manual: "none", "new", or "open": its browser runs.    *)
  others,    (* Browsers on the profile that no field refers to any more.   *)
  marker,    (* The file .law-manual.json.                                  *)
  op,        (* The human's control commands, each at an await.             *)
  late,      (* Those that the human was told have taken too long.          *)
  up,        (* The worker has started and listens.                         *)
  deaths,
  overlap    (* History: a switch began while recoverPage() navigated.      *)

cmds == <<op, late>>
vars == <<b, context, manual, others, marker, cmds, up, deaths, overlap>>

NoTask == [at |-> "none", page |-> 0, steady |-> TRUE]

NoObs == [page |-> 0, fresh |-> FALSE, steady |-> FALSE]
Fresh == [page |-> [p \in Pages |-> "closed"], active |-> 0,
          manualMode |-> FALSE, transitioning |-> FALSE, closing |-> FALSE,
          unresponsive |-> FALSE, old |-> 0, refs |-> {},
          task |-> NoTask, obs |-> NoObs]

Listed(x) == {p \in Pages : x.page[p] \in {"open", "crashed"}}   (* this.pages *)

TypeOK ==
  /\ b.page \in [Pages -> {"closed", "new", "open", "crashed"}]
  /\ b.active \in Listed(b) \cup {0}
  /\ b.refs \subseteq Pages
  /\ {context, marker, up, overlap} \subseteq BOOLEAN
  /\ late \subseteq Ops
  /\ manual \in {"none", "new", "open"} /\ others \in Nat

Init ==
  /\ b = Fresh /\ context = FALSE /\ manual = "none" /\ others = 0
  /\ marker = FALSE /\ up = FALSE /\ deaths = 0 /\ overlap = FALSE
  /\ op = [k \in Ops |-> "idle"] /\ late = {}

-----------------------------------------------------------------------------
(* The session's own methods, as functions of its fields.                  *)
Revise(x) == [x EXCEPT !.obs = NoObs]
Crashed(x) == x.active # 0 /\ x.page[x.active] = "crashed"
(* Mutant: references stay when the page changes.                          *)
ChangedPageKeepsRefs(x) == [x EXCEPT !.task.steady = (x.task.at = "none")]
ChangedPage(x) == [Revise(x) EXCEPT !.refs = {}, !.task.steady = (x.task.at = "none")]

(* registerPage() once it knows the opener.                                *)
Registered(x, p) ==
  ChangedPage([x EXCEPT !.page[p] = "open", !.active = p])

(* The handler of a page's close event: its opener, or the last of those   *)
(* left, becomes active.                                                   *)
PageClosed(x, p) ==
  LET y == [x EXCEPT !.page[p] = "closed"]  rest == Listed(x) \ {p} IN
  IF x.active # p THEN {y}
  ELSE IF rest = {} THEN {[y EXCEPT !.active = 0]}
  ELSE {ChangedPage([y EXCEPT !.active = q]) : q \in rest}

(* context.close(), and the fields setManual() clears after it.            *)
Emptied(x) ==
  [x EXCEPT !.page = [p \in Pages |-> "closed"], !.active = 0]

(* A bounded wait has run out.                                             *)
TimedOut(x) == [x EXCEPT !.unresponsive = TRUE]

requirePage == ~b.unresponsive /\ ~b.manualMode /\ ~b.transitioning /\ b.active # 0 /\ ~Crashed(b)
(* Mutant: a lock that another browser holds is removed.                   *)
ProfileFreeUnlocked == ~context /\ manual # "open"
ProfileFree == ~context /\ manual # "open" /\ others = 0   (* waitForProfile(). *)
(* A tab's name is used again when nothing refers to it.                   *)
Unused(p) ==
  /\ b.page[p] = "closed"
  /\ p \notin b.refs \cup {b.old, b.task.page, b.obs.page}
NewPage(p) == Unused(p) /\ \A q \in Pages : q < p => ~Unused(q)

(* startAutomated(): the context's first page is registered.               *)
Launched(x, p) == Registered([x EXCEPT !.closing = FALSE], p)

-----------------------------------------------------------------------------
(* Mutant: the file is not looked at.                                      *)
StartAgain ==
  /\ ~up /\ ProfileFree
  /\ up' = TRUE
  /\ \E p \in Pages : NewPage(p) /\ b' = Launched(b, p)
  /\ context' = TRUE
  /\ UNCHANGED <<manual, others, marker, cmds, deaths, overlap>>

(* start(), in a new worker: listen() comes after it.                      *)
Start ==
  /\ ~up /\ ProfileFree
  /\ up' = TRUE
  /\ \/ /\ marker
        /\ b' = [b EXCEPT !.manualMode = TRUE]
        /\ manual' = "open"
        /\ UNCHANGED context
     \/ /\ ~marker
        /\ \E p \in Pages : NewPage(p) /\ b' = Launched(b, p)
        /\ context' = TRUE
        /\ UNCHANGED manual
  /\ UNCHANGED <<others, marker, cmds, deaths, overlap>>

(* The worker dies or is restarted; its browsers end a little later.       *)
WorkerDies ==
  /\ up /\ deaths < MaxDeaths /\ deaths' = deaths + 1
  /\ up' = FALSE
  /\ b' = Fresh
  /\ others' = others + (IF context THEN 1 ELSE 0) + (IF manual = "open" THEN 1 ELSE 0)
  /\ context' = FALSE /\ manual' = "none"
  /\ op' = [k \in Ops |-> "idle"] /\ late' = {}
  /\ UNCHANGED <<marker, overlap>>

OtherEnds ==
  /\ others > 0 /\ others' = others - 1
  /\ UNCHANGED <<b, context, manual, marker, cmds, up, deaths, overlap>>

-----------------------------------------------------------------------------
(* Tabs.  A page opens; registerPage() awaits its opener.                  *)
Tab == UNCHANGED <<context, manual, others, marker, cmds, up, deaths, overlap>>

Popup(p) ==
  /\ context /\ NewPage(p)
  /\ b' = [b EXCEPT !.page[p] = "new"]
  /\ Tab
RegisterPage(p) ==
  /\ b.page[p] = "new"
  /\ b' = Registered(b, p)
  /\ Tab
Navigated(p) ==
  /\ b.active = p /\ b.page[p] = "open"
  /\ b' = ChangedPage(b)
  /\ Tab
Crashes(p) ==
  /\ b.page[p] = "open"
  /\ LET x == [b EXCEPT !.page[p] = "crashed"] IN
     b' = IF b.active = p THEN ChangedPage(x) ELSE x
  /\ Tab
Closes(p) ==
  /\ b.page[p] \in {"open", "crashed"}
  /\ b' \in PageClosed(b, p)
  /\ Tab
(* The last tab has closed: newPage(), or the browser is gone.             *)
Reopened ==
  /\ up /\ b.active = 0 /\ ~b.closing /\ ~b.manualMode
  /\ \/ context /\ \E p \in Pages : NewPage(p) /\ b' = Registered(b, p)
     \/ b' = [b EXCEPT !.unresponsive = TRUE]
  /\ Tab
ChromiumDies ==
  /\ context /\ deaths < MaxDeaths /\ deaths' = deaths + 1
  /\ context' = FALSE /\ b' = Emptied(b)
  /\ UNCHANGED <<manual, others, marker, cmds, up, overlap>>
(* The human closes it, or it crashes.                                     *)
ManualDies ==
  /\ manual = "open" /\ deaths < MaxDeaths /\ deaths' = deaths + 1
  /\ manual' = "new"
  /\ UNCHANGED <<b, context, others, marker, cmds, up, overlap>>

(* A tab that is active and not yet in front.                              *)
Fronting == \E k \in Ops : op[k] = "front"

-----------------------------------------------------------------------------
(* browser.observe: the walk of the page's frames fills refFrames.         *)
Observe ==
  /\ up /\ b.task.at = "none" /\ requirePage
  /\ b' = [Revise(b) EXCEPT !.refs = {}, !.task = [at |-> "walk", page |-> b.active, steady |-> TRUE]]
  /\ Tab
WalkFrame ==
  /\ b.task.at = "walk" /\ b.page[b.task.page] = "open"
  /\ b' = [b EXCEPT !.refs = @ \cup {b.task.page}]
  /\ Tab
Observed ==
  /\ b.task.at = "walk"
  /\ b' = [b EXCEPT !.task = NoTask,
             !.obs = IF requirePage
                     THEN [page |-> b.task.page, fresh |-> TRUE, steady |-> b.task.steady] ELSE @]
  /\ Tab

(* browser.act by reference: handleFor() accepts it, its element is acted  *)
(* on, and the revision is over before another tool is called.             *)
handleFor(p) == requirePage /\ b.obs.fresh /\ p \in b.refs /\ b.page[p] = "open"
Act ==
  /\ up /\ b.task.at = "none"
  /\ \E p \in Pages : handleFor(p)
  /\ b' = Revise(b)
  /\ Tab

-----------------------------------------------------------------------------
(* control().                                                              *)
To(k, at) ==
  /\ op' = [op EXCEPT ![k] = at]
  /\ late' = IF at = "idle" THEN late \ {k} ELSE late
(* The window gives one command at a time, until it is answered.           *)
Given(k) == up /\ op[k] = "idle" /\ \A j \in Ops \ late : op[j] = "idle"
Begin(k) == Given(k) /\ ~b.unresponsive /\ ~b.transitioning
Commands == UNCHANGED <<others, up, deaths, overlap>>
Free == UNCHANGED <<context, manual, marker>> /\ Commands
Overlapping ==
  /\ overlap' = (overlap \/ \E k \in Ops : op[k] = "goto")
  /\ UNCHANGED <<context, manual, others, marker, up, deaths>>

Refreshed(x) == IF x.manualMode THEN x ELSE ChangedPage(x)
Refresh(k) ==
  /\ Begin(k) /\ (b.manualMode \/ requirePage)
  /\ b' = Refreshed(b)
  /\ UNCHANGED cmds /\ Free
Probe(k) ==
  /\ Given(k) /\ b.unresponsive
  /\ To(k, "probe")
  /\ UNCHANGED b /\ Free
ProbeAnswers(k) ==
  /\ op[k] = "probe"
  /\ \/ /\ IF b.manualMode THEN manual # "none" ELSE b.active # 0 /\ ~Crashed(b)
        /\ LET x == [b EXCEPT !.unresponsive = FALSE] IN
           b' = IF b.transitioning THEN x ELSE Refreshed(x)
     \/ UNCHANGED b
  /\ To(k, "idle") /\ Free

(* navigate(), when page.goto() is over: the page has told of itself, and  *)
(* the revision is over, unless the address could not be loaded.           *)
Navigates(x) == {x, Revise(x)}

(* clearSiteData(): the cookies go, and the page is loaded again.          *)
ClearSiteData(k) ==
  /\ Begin(k) /\ requirePage
  /\ To(k, "clear")
  /\ UNCHANGED b /\ Free
SiteCleared(k) ==
  /\ op[k] = "clear"
  /\ b' \in Navigates(b)
  /\ To(k, "idle") /\ Free

(* act({switchPage}): the tab is active before it is brought to front.     *)
SwitchPage(k, p) ==
  /\ Begin(k) /\ ~b.manualMode /\ b.active # 0 /\ p \in Listed(b)
  /\ IF b.page[p] = "crashed"
     THEN b' = Revise(ChangedPage([b EXCEPT !.active = p])) /\ UNCHANGED cmds
     ELSE b' = [b EXCEPT !.active = p] /\ To(k, "front")
  /\ Free
Fronted(k) ==
  /\ op[k] = "front"
  /\ b' = ChangedPage(b)
  /\ To(k, "idle") /\ Free
(* It could not be brought to front: it stays active, and neither the      *)
(* revision nor the references are over.                                   *)
Unsteady(x) == [x EXCEPT !.obs.steady = FALSE, !.task.steady = (x.task.at = "none")]
FrontFails(k) ==
  /\ op[k] = "front"
  /\ b' = Unsteady(b)
  /\ To(k, "idle") /\ Free

(* recoverPage().                                                          *)
RecoverPage(k) ==
  /\ Begin(k) /\ ~b.manualMode /\ Crashed(b)
  /\ b' = [b EXCEPT !.transitioning = TRUE, !.old = b.active]
  /\ To(k, "newpage")
  /\ Overlapping
Recovered(k) ==
  /\ op[k] = "newpage"
  /\ \/ /\ context
        /\ \E p \in Pages :
             /\ NewPage(p)
             /\ \E y \in IF b.old \in Listed(b) THEN PageClosed(Registered(b, p), b.old)
                         ELSE {Registered(b, p)} :
                  b' = [y EXCEPT !.transitioning = FALSE, !.old = 0]
        /\ To(k, "goto")
     \/ /\ b' = [b EXCEPT !.transitioning = FALSE, !.old = 0]
        /\ To(k, "idle")
  /\ Free
RecoverEnds(k) ==
  /\ op[k] = "goto"
  /\ \/ b.active # 0 /\ b' = [ChangedPage(b) EXCEPT !.transitioning = FALSE]
     \/ b' = [b EXCEPT !.transitioning = FALSE]
  /\ To(k, "idle") /\ Free

-----------------------------------------------------------------------------
(* setManual(): up to its first await; each next action is one await later. *)
SetManual(k, enabled) ==
  /\ Begin(k) /\ enabled # b.manualMode
  /\ b' = Revise([b EXCEPT !.transitioning = TRUE, !.refs = {}])
  /\ To(k, IF enabled THEN "leave" ELSE "return")
  /\ Overlapping

(* A bounded await of command k ran out: its own catch runs.               *)
GivesUp(k) ==
  /\ op[k] \in {"leave", "return", "cast", "close"}
  /\ b' = [TimedOut(b) EXCEPT !.closing = TRUE]
  /\ To(k, "catch") /\ Free
(* The whole command took too long: it is answered, and goes on.           *)
Overdue(k) ==
  /\ op[k] \notin {"idle", "probe", "front", "clear"} /\ k \notin late
  /\ b' = TimedOut(b)
  /\ late' = late \cup {k}
  /\ UNCHANGED op /\ Free

Leave(k) ==   (* The input is drained. *)
  /\ op[k] = "leave"
  /\ marker' = TRUE
  /\ b' = [b EXCEPT !.closing = TRUE]
  /\ To(k, "cast")
  /\ UNCHANGED <<context, manual>> /\ Commands
CastEnds(k) ==
  /\ op[k] = "cast"
  /\ To(k, "close")
  /\ UNCHANGED b /\ Free
ContextClosed(k) ==
  /\ op[k] = "close"
  /\ context' = FALSE
  /\ b' = [Emptied(b) EXCEPT !.manualMode = TRUE]
  /\ To(k, "profile")
  /\ UNCHANGED <<manual, marker>> /\ Commands
Fails(k) ==   (* A step throws. *)
  /\ op[k] \in {"profile", "open", "return", "launch", "launched"}
  /\ b' = [b EXCEPT !.closing = TRUE]
  /\ manual' = IF op[k] = "open" THEN "none" ELSE manual
  /\ To(k, "catch")
  /\ UNCHANGED <<context, marker>> /\ Commands
OpenManual(k) ==
  /\ op[k] = "profile" /\ ProfileFree
  /\ manual' = "new"
  /\ To(k, "open")
  /\ UNCHANGED <<b, context, marker>> /\ Commands
(* Mutant: the mode stays in transition.                                   *)
SettledNever(x) == x
Settled(x) == [x EXCEPT !.transitioning = FALSE]
ManualOpen(k) ==
  /\ op[k] = "open"
  /\ manual' = "open"
  /\ b' = Settled(b)
  /\ To(k, "idle")
  /\ UNCHANGED <<context, marker>> /\ Commands

Finish(k) ==   (* finish() closes the human's browser as a human would. *)
  /\ op[k] = "return"
  /\ manual' = "none"
  /\ b' = [b EXCEPT !.closing = FALSE]
  /\ To(k, "launch")
  /\ UNCHANGED <<context, marker>> /\ Commands
StartAutomated(k) ==   (* Its Chromium runs; the file still says that a login is open. *)
  /\ op[k] = "launch" /\ ProfileFree
  /\ context' = TRUE
  /\ \E p \in Pages : NewPage(p) /\ b' = Launched(b, p)
  /\ To(k, "launched")
  /\ UNCHANGED <<manual, marker>> /\ Commands
Returned(k) ==   (* startAutomated() is over. *)
  /\ op[k] = "launched"
  /\ b' = Settled([b EXCEPT !.manualMode = FALSE])
  /\ marker' = FALSE
  /\ To(k, "landing")
  /\ UNCHANGED <<context, manual>> /\ Commands
Landed(k) ==   (* The return page is there, or could not load. *)
  /\ op[k] = "landing"
  /\ b' \in Navigates(b)
  /\ To(k, "idle") /\ Free

(* The catch: the context is closed, or forgotten.                         *)
Catch(k) ==
  /\ op[k] = "catch"
  /\ \E stays \in BOOLEAN :
       /\ stays => context
       /\ others' = IF stays THEN others + 1 ELSE others
       /\ b' = Settled([(IF stays THEN TimedOut(Emptied(b)) ELSE Emptied(b))
                          EXCEPT !.manualMode = TRUE])
  /\ context' = FALSE
  /\ To(k, "idle")
  /\ UNCHANGED <<manual, marker, up, deaths, overlap>>

Switching(k) ==
  \/ Recovered(k) \/ GivesUp(k) \/ Leave(k) \/ CastEnds(k) \/ ContextClosed(k) \/ Fails(k)
  \/ OpenManual(k) \/ ManualOpen(k) \/ Finish(k) \/ StartAutomated(k)
  \/ Returned(k) \/ Catch(k)

Next ==
  \/ Start \/ WorkerDies \/ OtherEnds
  \/ \E p \in Pages : Popup(p) \/ RegisterPage(p) \/ Navigated(p) \/ Crashes(p) \/ Closes(p)
  \/ Reopened \/ ChromiumDies \/ ManualDies
  \/ Observe \/ WalkFrame \/ Observed \/ Act
  \/ \E k \in Ops :
       \/ Refresh(k) \/ Probe(k) \/ ProbeAnswers(k) \/ \E p \in Pages : SwitchPage(k, p)
       \/ ClearSiteData(k) \/ SiteCleared(k) \/ Fronted(k) \/ FrontFails(k)
       \/ RecoverPage(k) \/ RecoverEnds(k)
       \/ \E on \in BOOLEAN : SetManual(k, on)
       \/ Overdue(k) \/ Landed(k) \/ Switching(k)

Spec == Init /\ [][Next]_vars
FairSpec == Spec /\ \A k \in Ops : WF_vars(Switching(k))

-----------------------------------------------------------------------------
(* At most one browser works on the profile, through switches that fail,   *)
(* time out or overlap, and deaths of the worker (browser-session.ts:295). *)
OneBrowser ==
  /\ TypeOK
  /\ overlap \/ others + (IF context THEN 1 ELSE 0) + (IF manual = "open" THEN 1 ELSE 0) <= 1

(* No tool reaches a page while the file says that a login is open, though *)
(* the switch that wrote it failed or was cut off by a restart             *)
(* (browser-session.ts:354).                                               *)
NoToolInLogin == ~overlap /\ requirePage => ~marker /\ manual # "open"

(* A switch of mode ends, though what it waits for hangs or fails: the      *)
(* browser never stays between the agent and the human                      *)
(* (browser-session.ts:358).                                                *)
SwitchEnds == b.transitioning ~> ~b.transitioning

(* What a reference leads to is the page the observation was made of; and  *)
(* that is the active one (browser-session.ts:637), unless the page        *)
(* changed while the observation was made, a switch is bringing another    *)
(* tab to front, or one could not bring it there (FrontFails).             *)
SeenIsActedOn ==
  \A p \in Pages : b.task.at = "none" /\ handleFor(p) =>
    p = b.obs.page /\ (b.obs.steady => p = b.active \/ Fronting)

=============================================================================
