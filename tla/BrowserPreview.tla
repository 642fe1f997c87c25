---------------------------- MODULE BrowserPreview ----------------------------
(***************************************************************************)
(* The live picture of the sandbox browser, from the worker's screencast   *)
(* (browser-session.ts) through the daemon (browser-session-manager.ts,    *)
(* ipc.ts) and the desktop's main process (index.ts) to the window         *)
(* (BrowserPanel.tsx), and the human's input back.                         *)
(*                                                                         *)
(* Main passes a message on in the step that sends it, so that there are   *)
(* four queues: worker to daemon, daemon to window, and back.  At most one *)
(* frame is on its way from the daemon to the window; the generation says  *)
(* which page a picture is of, and the window lets the human click only on *)
(* the current one.  The human's own Chromium of manual mode is left out.  *)
(***************************************************************************)
EXTENDS Naturals, Sequences

CONSTANTS
  Pages,      (* 1 .. n: the tabs.                                          *)
  Ids,        (* 1 .. n: frame ids; one is used again when nothing has it.  *)
  WireCap,    (* Bound: frames the worker's send queue takes.               *)
  MaxTurns,   (* Bound: page changes, time limits, refreshes and restarts.  *)
  MaxMoves    (* Bound: input, reloads, looks and focus changes.     *)

ASSUME PreviewAssumption ==
  /\ Pages # {} /\ Pages \subseteq Nat \ {0} /\ Ids \subseteq Nat \ {0}
  /\ WireCap \in Nat /\ MaxTurns \in Nat /\ MaxMoves \in Nat

VARIABLES
  w,       (* BrowserSession's fields, and whether the active page is one   *)
           (* that could not be brought to front, with no new generation    *)
           (* since (stray).                                                *)
  wire,    (* Worker to daemon: frames and states.                          *)
  down,    (* Daemon to worker: browser.frames.                             *)
  d,       (* The daemon: framesEnabled, frameInFlight, nextFrame, and the  *)
           (* generation of the manager's status.                           *)
  m,       (* Main: framesWanted, isFocused, the last browser status, and   *)
           (* whether the window loads a page.                              *)
  show,    (* Daemon, by way of main, to window.                            *)
  u,       (* The window's BrowserPanel.                                    *)
  told,    (* Window, by way of main, to daemon: frames and frameAck.       *)
  turns, moves

worker == <<w, wire, turns>>
daemon == <<d, down, told>>
window == <<u, show, m, moves>>
previewVars == <<worker, daemon, window>>

Absent == 0
First == CHOOSE p \in Pages : TRUE   (* The browser's first page. *)
NoFrame == [kind |-> "frame", gen |-> 0, page |-> 0, id |-> 0]
(* info(): of all that a status tells, its generation.                    *)
State(g) == [kind |-> "state", gen |-> g]
Frames(on) == [kind |-> "frames", on |-> on]
Ack(id) == [kind |-> "ack", id |-> id]
In(x, q) == \E i \in 1 .. Len(q) : q[i] = x

PreviewTypeOK ==
  /\ w.page \in Pages /\ w.cast.page \in Pages \cup {Absent}
  /\ d.id \in Ids \cup {Absent} /\ d.next.page \in Pages \cup {Absent}
  /\ u.at \in {"closed", "open", "loading"}
  /\ \A i \in 1 .. Len(show) : show[i].kind \in {"frame", "state"}

Fresh(p, g) ==
  [gen |-> g, page |-> p, fronting |-> FALSE, stray |-> FALSE, frames |-> FALSE,
   hung |-> FALSE, error |-> FALSE, dirty |-> TRUE, queue |-> <<>>, run |-> "idle", more |-> FALSE, target |-> Absent,
   cast |-> [page |-> Absent, gen |-> Absent]]
Panel(at, g) == [at |-> at, seen |-> FALSE, gen |-> g, shown |-> Absent, pic |-> Absent, dec |-> NoFrame, error |-> FALSE]

PreviewInit ==
  /\ w = Fresh(First, 1)
  /\ wire = <<>> /\ down = <<FALSE>> /\ show = <<>> /\ told = <<>>
  /\ d = [want |-> FALSE, id |-> Absent, next |-> NoFrame, gen |-> Absent]
  /\ m = [wanted |-> FALSE, focus |-> TRUE, gen |-> Absent, loading |-> FALSE]
  /\ u = Panel("closed", Absent)
  /\ turns = 0 /\ moves = 0

-----------------------------------------------------------------------------
(* The worker.                                                             *)
Turn == turns < MaxTurns /\ turns' = turns + 1
Alone == UNCHANGED <<wire, daemon, window>>
Inner == UNCHANGED turns /\ Alone

attachScreencast(x) == [x EXCEPT !.more = TRUE]   (* One link of the chain; each reads the fields anew. *)
Bumped(x) == [x EXCEPT !.gen = @ + 1, !.dirty = TRUE, !.stray = FALSE]
(* Mutant: a page change keeps the generation.                             *)
ChangedPageQuietly(x) == attachScreencast([x EXCEPT !.dirty = TRUE, !.error = FALSE])
(* Mutant: the screencast is not told.                                     *)
ChangedPageUncast(x) == [Bumped(x) EXCEPT !.error = FALSE]
ChangedPage(x) == attachScreencast([Bumped(x) EXCEPT !.error = FALSE])

(* A popup, a close, a recovery, or a navigation of the active page.       *)
TurnTo(p) ==
  /\ Turn
  /\ w' = ChangedPage([w EXCEPT !.page = p])
  /\ Alone
(* switchPage: active is set, then it is brought to front.                 *)
SwitchPage(p) ==
  /\ Turn /\ ~w.fronting /\ ~w.hung /\ p # w.page
  /\ w' = [w EXCEPT !.page = p, !.fronting = TRUE]
  /\ Alone
Fronted ==
  /\ w.fronting
  /\ w' = ChangedPage([w EXCEPT !.fronting = FALSE])
  /\ Inner
(* The page could not be brought to front: it stays active all the same.   *)
FrontFails ==
  /\ w.fronting
  /\ w' = [w EXCEPT !.fronting = FALSE, !.stray = TRUE]
  /\ Inner
(* bounded() ran out.                                                      *)
Hangs ==
  /\ Turn /\ ~w.hung
  /\ w' = [Bumped(w) EXCEPT !.hung = TRUE, !.error = TRUE]
  /\ Alone
(* "Refresh preview", after a probe if need be.                            *)
Refresh ==
  /\ Turn
  /\ w' = ChangedPage([w EXCEPT !.hung = FALSE])
  /\ Alone
(* 30 ms after a change; a change during info() publishes again.           *)
Publish ==
  /\ w.dirty
  /\ w' = [w EXCEPT !.dirty = FALSE]
  /\ wire' = Append(wire, State(w.gen))
  /\ UNCHANGED <<turns, daemon, window>>

(* attachScreencast()'s chain: read and stop, then start.                  *)
CastStop ==
  /\ w.run = "idle" /\ w.more
  /\ w' = [w EXCEPT !.more = FALSE, !.run = "stop", !.target = IF w.frames THEN w.page ELSE Absent]
  /\ Inner
CastStart ==
  /\ w.run = "stop"
  /\ \/ /\ w' = [w EXCEPT !.target = Absent, !.run = "idle",
                       !.cast = [page |-> w.target, gen |-> IF w.target = Absent THEN Absent ELSE w.gen]]
        /\ UNCHANGED turns
     \/ /\ Turn /\ w.target # Absent   (* It could not start. *)
        /\ w' = [w EXCEPT !.target = Absent, !.run = "idle", !.cast = [page |-> Absent, gen |-> Absent],
                          !.error = TRUE, !.dirty = TRUE]
  /\ Alone
(* Mutant: a frame of a cast that is out of date is sent.                  *)
EmitsAny == w.frames /\ w.cast.page # Absent
Emits == w.frames /\ w.cast.page = w.page /\ w.cast.gen = w.gen
(* The page repaints; a frame that finds the queue full is dropped.        *)
OnFrame ==
  /\ Emits /\ Len(wire) < WireCap
  /\ wire' = Append(wire, [kind |-> "frame", gen |-> w.cast.gen, page |-> w.cast.page])
  /\ UNCHANGED <<w, turns, daemon, window>>

(* browser.frames reaches the worker.                                      *)
SetFramesEnabled ==
  /\ down # <<>>
  /\ down' = Tail(down)
  /\ w' = attachScreencast([(IF w.frames # Head(down) THEN Bumped(w) ELSE w) EXCEPT !.frames = Head(down)])
  /\ UNCHANGED <<wire, turns, d, told, window>>

(* Human input.                                                            *)
Move == moves < MaxMoves /\ moves' = moves + 1
Input ==
  /\ Move /\ ~w.hung /\ w.queue = <<>>
  /\ w' = [w EXCEPT !.queue = <<[gen |-> w.gen, page |-> w.page]>>]
  /\ UNCHANGED <<wire, turns, daemon, u, show, m>>
(* An entry is applied to the active page, or dropped: its generation has  *)
(* passed, or the browser hangs.                                           *)
DrainInput ==
  /\ w.queue # <<>>
  /\ w' = [w EXCEPT !.queue = <<>>]
  /\ Inner

-----------------------------------------------------------------------------
(* The daemon.  A status of another generation forgets the frames.         *)
Status(x, g) == IF x.gen = g THEN x ELSE [x EXCEPT !.gen = g, !.id = Absent, !.next = NoFrame]
Carried(id) ==
  \/ u.dec.id = id \/ d.id = id \/ In(Ack(id), told)
  \/ \E i \in 1 .. Len(show) : show[i].kind = "frame" /\ show[i].id = id
FreshId(id) == ~Carried(id) /\ \A j \in Ids : j < id => Carried(j)
(* flushFrame(): d and what is posted, given an id for the frame.          *)
Flushes(x) == x.id = Absent /\ x.next # NoFrame /\ x.want
Flushed(x, id) == IF Flushes(x) THEN [x EXCEPT !.id = id, !.next = NoFrame] ELSE x
Posted(x, id) == IF Flushes(x) THEN <<[x.next EXCEPT !.id = id]>> ELSE <<>>
(* Main gets a status and frames from the daemon (onAgentd), and the       *)
(* daemon's queue is left with q; a frame nobody wants is acknowledged.    *)
OnAgentd(status, frames, q) ==
  /\ m' = IF status = <<>> THEN m ELSE [m EXCEPT !.gen = Head(status).gen]
  /\ show' = show \o status \o (IF m.wanted THEN frames ELSE <<>>)
  /\ told' = q \o (IF m.wanted \/ frames = <<>> THEN <<>> ELSE <<Ack(Head(frames).id)>>)

TakeState ==
  /\ wire # <<>> /\ Head(wire).kind = "state"
  /\ wire' = Tail(wire)
  /\ d' = Status(d, Head(wire).gen)
  /\ OnAgentd(<<State(Head(wire).gen)>>, <<>>, told)
  /\ UNCHANGED <<w, turns, down, u, moves>>
(* The listener of the manager's frames: the newest waits, if any do.      *)
Taken(x, f) ==
  IF x.want THEN [x EXCEPT !.next = [kind |-> "frame", gen |-> f.gen, page |-> f.page, id |-> Absent]] ELSE x
TakeFrame ==
  /\ wire # <<>> /\ Head(wire).kind = "frame"
  /\ wire' = Tail(wire)
  /\ LET f == Head(wire)
         x == Status(d, f.gen)
         y == Taken(x, f)
     IN \E id \in Ids :
          /\ FreshId(id)
          /\ d' = Flushed(y, id)
          /\ OnAgentd(IF x.gen # d.gen THEN <<State(f.gen)>> ELSE <<>>, Posted(y, id), told)
  /\ UNCHANGED <<w, turns, down, u, moves>>
(* An acknowledgement of the frame in flight lets the next one go.         *)
Acked ==
  LET x == [d EXCEPT !.id = Absent] IN
  \E id \in Ids :
    /\ FreshId(id)
    /\ d' = Flushed(x, id)
    /\ OnAgentd(<<>>, Posted(x, id), Tail(told))
FrameAck ==
  /\ told # <<>> /\ Head(told).kind = "ack"
  /\ IF Head(told).id = d.id THEN Acked ELSE told' = Tail(told) /\ UNCHANGED <<d, show, m>>
  /\ UNCHANGED <<down, worker, u, moves>>
Switched(x, on) == IF on THEN [x EXCEPT !.want = TRUE] ELSE [x EXCEPT !.want = FALSE, !.id = Absent, !.next = NoFrame]
BrowserFrames ==
  /\ told # <<>> /\ Head(told).kind = "frames"
  /\ told' = Tail(told)
  /\ d' = Switched(d, Head(told).on)
  /\ down' = Append(down, Head(told).on)
  /\ UNCHANGED <<worker, window>>
(* The browser is restarted: a new worker on a new connection.             *)
Restart ==
  /\ Turn
  /\ w' = Fresh(First, w.gen + 1)
  /\ wire' = <<>> /\ down' = <<d.want>>
  /\ d' = Status(d, Absent)
  /\ OnAgentd(<<State(Absent)>>, <<>>, told)
  /\ UNCHANGED <<u, moves>>

-----------------------------------------------------------------------------
(* The main process.                                                       *)
syncFrameVisibility(x) == told' = Append(told, Frames(x.wanted /\ x.focus))

(* What the window asks for: browser:frames.                               *)
Wants(on) == m' = [m EXCEPT !.wanted = on] /\ syncFrameVisibility(m')
Focus ==
  /\ Move
  /\ m' = [m EXCEPT !.focus = ~@] /\ syncFrameVisibility(m')
  /\ UNCHANGED <<worker, d, down, u, show>>
DidStartLoading ==
  /\ Move /\ ~m.loading
  /\ m' = [m EXCEPT !.wanted = FALSE, !.loading = TRUE] /\ syncFrameVisibility(m')
  /\ UNCHANGED <<worker, d, down, u, show>>
-----------------------------------------------------------------------------
(* The window.  The new page takes the old one's place, some time after.   *)
Committed ==
  /\ m.loading
  /\ m' = [m EXCEPT !.loading = FALSE]
  /\ u' = Panel("loading", m.gen) /\ show' = <<>>
  /\ UNCHANGED <<worker, daemon, moves>>
Alike == UNCHANGED <<worker, d, down, show>>
(* The panel is mounted with the browser view, and unmounted.              *)
Mount ==
  /\ u.at # "open"
  /\ u' = Panel("open", u.gen)
  /\ Wants(FALSE) /\ UNCHANGED moves /\ Alike
(* The panel comes into sight, or goes.                                    *)
Visibility ==
  /\ Move /\ u.at = "open"
  /\ u' = [u EXCEPT !.seen = ~@]
  /\ Wants(~u.seen) /\ Alike
(* An image that is being decoded is not drawn, but acknowledged.          *)
Unmount ==
  /\ Move /\ u.at = "open"
  /\ u' = Panel("closed", u.gen)
  /\ m' = [m EXCEPT !.wanted = FALSE]
  /\ told' = told \o <<Frames(FALSE)>> \o (IF u.dec = NoFrame THEN <<>> ELSE <<Ack(u.dec.id)>>)
  /\ Alike

Heard == UNCHANGED <<worker, d, down, m>>
OnBrowserState ==
  /\ show # <<>> /\ Head(show).kind = "state"
  /\ show' = Tail(show)
  /\ u' = IF Head(show).gen = Absent
          THEN [u EXCEPT !.gen = Absent, !.shown = Absent, !.dec.page = Absent]
          ELSE [u EXCEPT !.gen = Head(show).gen]
  /\ UNCHANGED <<told, moves>> /\ Heard
(* Mutant: a frame that comes too early is dropped and not acknowledged.   *)
RefusedSilently(id) == UNCHANGED told
Refused(id) == told' = Append(told, Ack(id))
OnBrowserFrame ==
  /\ show # <<>> /\ Head(show).kind = "frame"
  /\ show' = Tail(show)
  /\ IF u.at # "open" THEN UNCHANGED <<u, told>>
     ELSE IF ~u.seen \/ u.dec # NoFrame THEN Refused(Head(show).id) /\ UNCHANGED u
     ELSE u' = [u EXCEPT !.dec = Head(show)] /\ UNCHANGED told
  /\ UNCHANGED moves /\ Heard
(* createImageBitmap() ends; a picture that was called off is not drawn.   *)
Drawn ==
  /\ u.dec # NoFrame
  /\ \/ /\ IF u.dec.page = Absent THEN u' = [u EXCEPT !.dec = NoFrame]
           ELSE u' = [u EXCEPT !.dec = NoFrame, !.shown = u.dec.gen, !.pic = u.dec.page, !.error = FALSE]
        /\ UNCHANGED moves
     \/ Move /\ u' = [u EXCEPT !.dec = NoFrame, !.error = TRUE]
  /\ told' = Append(told, Ack(u.dec.id))
  /\ UNCHANGED show /\ Heard

-----------------------------------------------------------------------------
Flow ==
  \/ Fronted \/ Publish \/ CastStop \/ CastStart \/ OnFrame \/ SetFramesEnabled
  \/ TakeState \/ TakeFrame \/ FrameAck \/ BrowserFrames
  \/ OnBrowserState \/ OnBrowserFrame \/ Drawn

PreviewNext ==
  \/ Flow
  \/ \E p \in Pages : TurnTo(p) \/ SwitchPage(p)
  \/ FrontFails \/ Hangs \/ Refresh \/ Restart \/ Input \/ DrainInput
  \/ Focus \/ DidStartLoading \/ Committed \/ Mount \/ Visibility \/ Unmount

PreviewSpec == PreviewInit /\ [][PreviewNext]_previewVars
(* The processes run, pages repaint, and no queue is left waiting;         *)
(* bringToFront() may never answer.                                        *)
FairPreview ==
  /\ PreviewSpec
  /\ WF_previewVars(Publish) /\ WF_previewVars(CastStop \/ CastStart)
  /\ WF_previewVars(OnFrame) /\ WF_previewVars(SetFramesEnabled) /\ WF_previewVars(TakeState \/ TakeFrame)
  /\ WF_previewVars(FrameAck \/ BrowserFrames) /\ WF_previewVars(Committed)
  /\ WF_previewVars(OnBrowserState \/ OnBrowserFrame) /\ WF_previewVars(Drawn)

-----------------------------------------------------------------------------
(* The frame the daemon waits for is still under way, or its               *)
(* acknowledgement is, or the switch that forgets it: losing it would stop *)
(* the picture for good (ipc.ts:455).  A reload may lose it until the new  *)
(* page shows the browser.                                                 *)
InFlightIsAlive ==
  /\ PreviewTypeOK
  /\ d.id # Absent /\ u.at # "loading" =>
    \/ u.dec.id = d.id \/ In(Ack(d.id), told)
    \/ \E i \in 1 .. Len(show) : show[i].kind = "frame" /\ show[i].id = d.id
    \/ In(Frames(FALSE), told)

(* Input waits with the page it was received for: once another page is     *)
(* active it is dropped (browser-session.ts:537), except while a switch    *)
(* brings its page to front, or after one that could not, until the next   *)
(* page change.                                                            *)
Astray == w.fronting \/ w.stray
InputReachesItsPage ==
  \A i \in 1 .. Len(w.queue) :
    w.queue[i].gen = w.gen => w.queue[i].page = w.page \/ Astray

(* When the window takes its picture for the current one and no news is on *)
(* its way, it is a picture of the active page (BrowserPanel.tsx:153),     *)
(* with the same exception.                                                *)
PreviewReady == u.at = "open" /\ u.gen # Absent /\ u.shown = u.gen
NewsOn(q) == \E i \in 1 .. Len(q) : q[i].kind = "state"
PictureIsActive ==
  PreviewReady /\ ~(w.dirty \/ Astray \/ NewsOn(wire) \/ NewsOn(show)) => u.pic = w.page

(* No frame is lost in a way that stops the picture, and the picture the   *)
(* window relies on is the active page's.                                  *)
PreviewIsSound == InFlightIsAlive /\ PictureIsActive

(* While the human looks, the picture becomes the current one, or an error *)
(* says why not: no toggle, reload, refusal or lost frame stops the        *)
(* preview for good (ipc.ts:543); a tab that could not be brought to front *)
(* does, or one that is being brought there for ever.                      *)
Watching == u.at = "open" /\ u.seen /\ m.focus /\ ~w.hung
PreviewCatchesUp ==
  Watching ~> PreviewReady \/ w.error \/ u.error \/ ~Watching \/ w.stray \/ [](w.fronting)

=============================================================================
