-------------------------------- MODULE Desktop --------------------------------
(***************************************************************************)
(* What the window shows of the conversation's latest run.  The daemon     *)
(* posts events (ipc.ts, startRun) on a port; the main process keeps a     *)
(* view of the run (main/index.ts, publishRun), numbers the events and     *)
(* sends them on; the page keeps a view of its own (App.tsx), folded with  *)
(* the same reducer (run-view.ts) over a snapshot of main's.               *)
(*                                                                         *)
(* The run, its store and its crashes are those of Conversation.           *)
(***************************************************************************)
EXTENDS Conversation, SequencesExt

CONSTANTS
  MaxPipe,    (* Bounds: events on the port when the daemon posts more,     *)
  MaxWire,    (* events on their way to the page,                           *)
  MaxPending, (* events that wait for the page's snapshot,                  *)
  MaxChanges  (* follow-ups, crashes, reloads and restores together.        *)

ASSUME DesktopBounds == {MaxPipe, MaxWire, MaxPending, MaxChanges} \subseteq Nat

VARIABLES
  state,      (* The live run's _state.                                     *)
  final,      (* The text of its answer, to be posted with its last state.  *)
  parked,     (* The call whose handoff it waits in.                        *)
  cards,      (* The approval card of each call.                            *)
  restoring,  (* The run whose snapshot is being restored.                  *)
  pipe,       (* The port: events of the daemon for main.                   *)
  main,       (* Main: what it shows, the number of its last event, and     *)
              (* the run it takes for active.                               *)
  exited,     (* The daemon's exit, not yet handled by main.                *)
  wire,       (* Numbered events on their way to the page.                  *)
  reply,      (* The answer to the page's run:get, on its way.              *)
  page,       (* The page: how far it is, what it shows, the number it has  *)
              (* seen, and the events that wait for the answer.             *)
  late,       (* Main met the exit before the daemon's last events.         *)
  overtaken,  (* A restore was told of while a later run was shown.         *)
  acts        (* How often the window was loaded again or a restore asked.  *)

daemon == <<state, final, parked, cards, restoring>>
desktop == <<main, exited, wire, reply, page>>
history == <<late, overtaken, acts>>
desktopVars == <<vars, daemon, pipe, desktop, history>>

MayChange == (runs - 1) + crashes + acts < MaxChanges

NoCall == <<0, 0>>
Terminal == {"ended", "interrupted"}

(* An event: of its run (0 when it names none) and of a call or a text.    *)
(* The text of a turn is item 0 of its batch.                              *)
RunEvent(kind, r, of, what) == [kind |-> kind, run |-> r, of |-> of, what |-> what]
State(what) == RunEvent("state", runs', NoCall, what)
Tool(c, what) == RunEvent("tool", runs, c, what)
Resolved(c) == RunEvent("resolved", 0, c, "")

EmptyRun == [run |-> 0, state |-> "", cards |-> {}, log |-> <<>>]
Nothing == [view |-> EmptyRun, handoff |-> FALSE]
Mounted == [at |-> "asking", shown |-> Nothing, last |-> 0, pending |-> <<>>]

DesktopInit ==
  /\ Init
  /\ state = "running" /\ final = NoCall /\ parked = NoCall /\ restoring = 0
  /\ cards = [c \in Calls |-> "none"]
  /\ pipe = <<RunEvent("state", 1, NoCall, "running")>>
  /\ main = [shown |-> Nothing, seq |-> 0, active |-> 0]
  /\ exited = FALSE /\ wire = <<>> /\ reply = <<>>
  /\ page = Mounted
  /\ late = FALSE /\ overtaken = FALSE /\ acts = 0

-----------------------------------------------------------------------------
(* The reducer.                                                            *)

(* Mutant: a view takes the events of every run for its own.               *)
RebasedNever(view, e) == IF e.run = 0 THEN view ELSE [view EXCEPT !.run = e.run]

(* An event of another run starts a view of that run.                      *)
Rebased(view, e) ==
  IF e.run # 0 /\ view.run \notin {0, e.run} THEN [EmptyRun EXCEPT !.run = e.run]
  ELSE [view EXCEPT !.run = IF e.run # 0 THEN e.run ELSE @]

(* The answer is not shown twice: as the last remark and as the result.    *)
WithoutAnswer(log, e) ==
  IF e.of # NoCall /\ log # <<>> /\ Last(log) = [of |-> e.of, what |-> "text"] THEN Front(log) ELSE log

(* A tool's row is updated in place.                                       *)
WithRow(log, e) ==
  LET rows == {i \in DOMAIN log : log[i].of = e.of /\ log[i].what # "text"} IN
  IF rows = {} THEN Append(log, [of |-> e.of, what |-> e.what])
  ELSE [i \in DOMAIN log |-> IF i \in rows THEN [log[i] EXCEPT !.what = e.what] ELSE log[i]]

Reduced(view, e) ==
  LET base == Rebased(view, e) IN
  CASE e.kind = "state" ->
         [base EXCEPT !.state = e.what, !.log = WithoutAnswer(@, e),
                      !.cards = IF e.what \in Terminal THEN {} ELSE @]
    [] e.kind \in {"commentary", "handoff"} ->
         [base EXCEPT !.log = Append(@, [of |-> e.of, what |-> "text"])]
    [] e.kind = "tool" -> [base EXCEPT !.log = WithRow(@, e)]
    [] e.kind = "request" -> [base EXCEPT !.cards = @ \cup {e.of}]
    [] e.kind = "resolved" -> [base EXCEPT !.cards = @ \ {e.of}]
    [] e.kind = "restored" -> base

(* What main and the page show: the view, and the banner of a handoff.     *)
Shows(shown, e) ==
  [view |-> Reduced(shown.view, e),
   handoff |-> IF e.kind = "handoff" THEN TRUE
               ELSE IF e.kind = "state" /\ e.what # "handoff" THEN FALSE ELSE shown.handoff]

-----------------------------------------------------------------------------
(* The daemon: the run's steps, with what they post.                       *)

Posts(events) ==
  /\ Len(pipe) < MaxPipe
  /\ pipe' = pipe \o events

Open == {c \in Calls : cards[c] = "open"}

(* denyPending: a run that ends closes its cards.                          *)
DenyPending == cards' = [c \in Calls |-> IF c \in Open THEN "closed" ELSE cards[c]]

(* What the run's end posts at once; its last state follows on Closes.     *)
Closing == IF at' = "closing" THEN SetToSeq({Resolved(c) : c \in Open}) ELSE <<>>
Ends ==
  IF at' = "closing" THEN state' = "ended" /\ parked' = NoCall /\ DenyPending
  ELSE UNCHANGED <<state, parked, cards>>

Elsewhere == UNCHANGED <<restoring, desktop, history>>

(* Steps that post nothing.                                                *)
Silently ==
  /\ \/ Asks \/ Stop
     \/ \E c \in Calls : Skipped(c) \/ (parked = NoCall /\ Records(c))
     \/ \E c \in Calls : Open \subseteq {c} /\ Happens(c)
  /\ UNCHANGED <<daemon, pipe, desktop, history>>

Speaks ==
  /\ Answered
  /\ final' = IF at' = "closing" THEN <<turns', 0>> ELSE final
  /\ Ends
  /\ Posts(<<RunEvent("commentary", runs, <<turns', 0>>, "")>> \o Closing)
  /\ Elsewhere

Handoff(c) == <<State("handoff"), RunEvent("handoff", runs, NoCall, "")>>
Parks(c) == state' = "handoff" /\ parked' = c

(* tool("executing") comes first, the policy's verdict or the wait for     *)
(* open cards next; a denial may ask for the human.                        *)
CallBegins(c) ==
  /\ Begins(c)
  /\ \/ /\ at' = "calling" /\ Open = {}
        /\ Posts(<<Tool(c, "executing")>>) /\ UNCHANGED <<state, parked>>
     \/ /\ at' = "calling" /\ Open # {}
        /\ Posts(<<Tool(c, "executing"), State("awaiting")>>) /\ state' = "awaiting" /\ UNCHANGED parked
     \/ /\ at' = "recording"
        /\ Posts(<<Tool(c, "executing"), Tool(c, "denied")>>) /\ UNCHANGED <<state, parked>>
     \/ /\ at' = "recording" /\ Parks(c)
        /\ Posts(<<Tool(c, "executing"), Tool(c, "denied")>> \o Handoff(c))
  /\ UNCHANGED <<final, cards>> /\ Elsewhere

(* A call held by the card of an earlier one has not gone out; one that    *)
(* asks for the human is done when the human is.                           *)
CallReturns(c) ==
  /\ Returns(c) /\ Open \subseteq {c}
  /\ \/ Posts(<<Tool(c, tool'[c])>>) /\ UNCHANGED <<state, parked>>
     \/ tool'[c] = "done" /\ Parks(c) /\ Posts(Handoff(c))
  /\ UNCHANGED <<final, cards>> /\ Elsewhere

HandoffEnds ==
  /\ parked # NoCall /\ state = "handoff" /\ ~stopped
  /\ state' = "running"
  /\ UNCHANGED <<vars, final, parked, cards>> /\ Elsewhere
  /\ Posts(<<State("running")>>)

(* What the human left on the screen is looked at before the call is over. *)
Looked ==
  /\ parked # NoCall /\ state # "handoff" /\ ~stopped
  /\ parked' = NoCall
  /\ UNCHANGED <<vars, state, final, cards>> /\ Elsewhere
  /\ Posts(IF tool[parked] = "done" THEN <<Tool(parked, "done")>> ELSE <<>>)

CallBreaks(c) ==
  /\ Breaks(c)
  /\ Ends /\ Posts(<<Tool(c, "error")>> \o Closing)
  /\ UNCHANGED final /\ Elsewhere

(* The screen after a handoff may fail to come; a call without one records *)
(* its result at once.                                                     *)
RunGivesUp ==
  /\ GivesUp
  /\ at = "recording" /\ ~stopped => parked # NoCall /\ state # "handoff"
  /\ Ends /\ Posts(Closing)
  /\ UNCHANGED final /\ Elsewhere

(* The outcome of start() is posted when all of the run is over.           *)
RunCloses ==
  /\ Closes
  /\ Posts(<<RunEvent("state", runs, final, "ended")>>)
  /\ final' = NoCall
  /\ UNCHANGED <<state, parked, cards>> /\ Elsewhere

(* A command of the call needs the human.                                  *)
CardOpens(c) ==
  /\ at = "calling" /\ tool[c] = "executing" /\ ~stopped
  /\ cards[c] = "none" /\ Open = {}
  /\ cards' = [cards EXCEPT ![c] = "open"] /\ state' = "awaiting"
  /\ UNCHANGED <<vars, final, parked>> /\ Elsewhere
  /\ Posts(<<RunEvent("request", runs, c, ""), State("awaiting")>>)

(* Its answer, or its expiry.                                              *)
CardCloses(c) ==
  /\ Live /\ cards[c] = "open"
  /\ cards' = [cards EXCEPT ![c] = "closed"]
  /\ UNCHANGED <<vars, final, parked>> /\ Elsewhere
  /\ IF state = "awaiting" /\ ~stopped
     THEN state' = "running" /\ Posts(<<Resolved(c), State("running")>>)
     ELSE UNCHANGED state /\ Posts(<<Resolved(c)>>)

(* A new run: what it posts puts the window right again.                   *)
Continues ==
  /\ MayChange /\ Followup
  /\ state' = "running" /\ final' = NoCall /\ parked' = NoCall
  /\ cards' = [c \in Calls |-> "none"]
  /\ Posts(<<State("running")>>)
  /\ late' = FALSE /\ overtaken' = FALSE
  /\ UNCHANGED <<restoring, desktop, acts>>

-----------------------------------------------------------------------------
(* Restoring the snapshot of the run the page shows: refused while a run   *)
(* is live, else done after an await that nothing guards.                  *)

Told(r) ==
  /\ Posts(<<RunEvent("restored", r, NoCall, "")>>)
  /\ overtaken' = (overtaken \/ r # runs)

RestoreAsked ==
  /\ page.at = "up" /\ page.shown.view.state \in Terminal
  /\ at # "down" /\ restoring = 0 /\ MayChange
  /\ acts' = acts + 1
  /\ LET r == page.shown.view.run IN
     \/ Live /\ state # "ended" /\ Told(r) /\ UNCHANGED restoring
     \/ (~Live \/ state = "ended") /\ restoring' = r /\ UNCHANGED <<pipe, overtaken>>
  /\ UNCHANGED <<vars, state, final, parked, cards, desktop, late>>

RestoreEnds ==
  /\ restoring # 0 /\ at # "down"
  /\ Told(restoring) /\ restoring' = 0
  /\ UNCHANGED <<vars, state, final, parked, cards, desktop, late, acts>>

-----------------------------------------------------------------------------
(* The main process.                                                       *)

(* publishRun: main's own view takes the event, and the page is sent it    *)
(* with its number.                                                        *)
Publish(e, active) ==
  /\ Len(wire) < MaxWire
  /\ main' = [shown |-> Shows(main.shown, e), seq |-> main.seq + 1, active |-> active]
  /\ wire' = Append(wire, [event |-> e, seq |-> main.seq + 1])

(* onAgentd.                                                               *)
Active(e) ==
  IF e.kind # "state" THEN main.active ELSE IF e.what \in Terminal THEN 0 ELSE e.run

Handle ==
  /\ pipe # <<>>
  /\ pipe' = Tail(pipe)
  /\ Publish(Head(pipe), Active(Head(pipe)))
  /\ UNCHANGED <<vars, daemon, exited, reply, page, history>>

Goes ==
  /\ MayChange /\ Crash
  /\ exited' = TRUE
  /\ state' = "ended" /\ final' = NoCall /\ parked' = NoCall /\ restoring' = 0
  /\ cards' = [c \in Calls |-> "none"]
  /\ UNCHANGED <<pipe, main, wire, reply, page, history>>

(* Mutant: the page is left with the run as it was.                        *)
ExitSilently ==
  /\ exited /\ exited' = FALSE
  /\ main' = [main EXCEPT !.active = 0]
  /\ pipe' \in {pipe, <<>>} /\ late' = (late \/ pipe # <<>>)
  /\ UNCHANGED <<vars, daemon, wire, reply, page, overtaken, acts>>

(* onAgentdExit; what the dead daemon had still posted is lost, or handled *)
(* after this.                                                             *)
Exit ==
  /\ exited /\ exited' = FALSE
  /\ IF main.active # 0
     THEN Publish(RunEvent("state", main.active, NoCall, "interrupted"), 0)
     ELSE UNCHANGED <<main, wire>>
  /\ pipe' \in {pipe, <<>>} /\ late' = (late \/ pipe # <<>>)
  /\ UNCHANGED <<vars, daemon, reply, page, overtaken, acts>>

(* The daemon is started again a second later: the old port is empty.      *)
StartsAgain ==
  /\ Restart /\ ~exited /\ pipe = <<>>
  /\ UNCHANGED <<daemon, pipe, desktop, history>>

(* run:get.                                                                *)
GetRun ==
  /\ page.at = "asking"
  /\ reply' = <<[shown |-> main.shown, seq |-> main.seq]>>
  /\ page' = [page EXCEPT !.at = "answered"]
  /\ UNCHANGED <<vars, daemon, pipe, main, exited, wire, history>>

-----------------------------------------------------------------------------
(* The page.                                                               *)

(* Mutant: an event is taken whatever its number.                          *)
TakenAlways(p, w) == [p EXCEPT !.shown = Shows(@, w.event), !.last = w.seq]

(* An event that the view has already seen is dropped.                     *)
Taken(p, w) == IF w.seq <= p.last THEN p ELSE [p EXCEPT !.shown = Shows(@, w.event), !.last = w.seq]

(* Those that have waited, one after the other.                            *)
TakenAll(p, waiting) ==
  LET after[i \in 0 .. Len(waiting)] == IF i = 0 THEN p ELSE Taken(after[i - 1], waiting[i])
  IN  after[Len(waiting)]

(* Before the snapshot is there, events wait.                              *)
Receive ==
  /\ wire # <<>> /\ wire' = Tail(wire)
  /\ \/ page.at \in {"asking", "answered"} /\ Len(page.pending) < MaxPending /\ page' = [page EXCEPT !.pending = Append(@, Head(wire))]
     \/ page.at = "up" /\ page' = Taken(page, Head(wire))
  /\ UNCHANGED <<vars, daemon, pipe, main, exited, reply, history>>

(* Mutant: the snapshot's number is forgotten.                             *)
Unnumbered(snapshot) == [at |-> "up", shown |-> snapshot.shown, last |-> 0, pending |-> <<>>]

Snapshot(snapshot) == [at |-> "up", shown |-> snapshot.shown, last |-> snapshot.seq, pending |-> <<>>]

Hydrate ==
  /\ reply # <<>> /\ reply' = <<>>
  /\ page' = TakenAll(Snapshot(Head(reply)), page.pending)
  /\ UNCHANGED <<vars, daemon, pipe, main, exited, wire, history>>

(* The page is loaded again, listens and asks; what was on its way to the  *)
(* old one, or is sent before the new one listens, is lost.                *)
Reload ==
  /\ MayChange /\ acts' = acts + 1
  /\ page' = Mounted /\ wire' = <<>> /\ reply' = <<>>
  /\ UNCHANGED <<vars, daemon, pipe, main, exited, late, overtaken>>

-----------------------------------------------------------------------------
DesktopNext ==
  \/ Silently \/ Speaks \/ HandoffEnds \/ Looked \/ RunGivesUp \/ RunCloses \/ Continues
  \/ \E c \in Calls : CallBegins(c) \/ CallReturns(c) \/ CallBreaks(c) \/ CardOpens(c) \/ CardCloses(c)
  \/ RestoreAsked \/ RestoreEnds
  \/ Handle \/ Goes \/ Exit \/ StartsAgain \/ GetRun
  \/ Receive \/ Hydrate \/ Reload

DesktopSpec == DesktopInit /\ [][DesktopNext]_desktopVars

-----------------------------------------------------------------------------
(* Properties.                                                             *)

(* A page that has its snapshot and has been sent everything shows what    *)
(* main shows, row by row: whatever the reload fell on, and whichever of   *)
(* the events came before the snapshot they are in, or after.              *)
PageAgrees ==
  page.at = "up" /\ wire = <<>> => page.shown = main.shown /\ page.last = main.seq

AllHandled == at # "down" /\ pipe = <<>> /\ ~exited /\ ~late /\ ~overtaken

ShownRows == {main.shown.view.log[i] : i \in DOMAIN main.shown.view.log}

(* A run that works is shown as it is: its state, the banner of its        *)
(* handoff, its cards, and its calls as the journal has them.              *)
LiveIsShown ==
  LET view == main.shown.view IN
  Live /\ at # "closing" =>
    /\ view.state = state /\ (main.shown.handoff <=> state = "handoff")
    /\ view.cards = Open
    /\ \A r \in ShownRows : r.what # "text" =>
         r.what = tool[r.of] \/ (r.of = parked /\ r.what = "executing")
    /\ \A c \in Calls : tool[c] = "executing" => [of |-> c, what |-> "executing"] \in ShownRows

(* A run that is over is shown so, without a card to answer, and does not  *)
(* keep the user from starting another.                                    *)
RestIsShown ==
  ~Live =>
    /\ main.shown.view.state = "ended" => row = "ended"
    /\ main.shown.view.state \in Terminal /\ ~main.shown.handoff /\ main.active = 0
    /\ main.shown.view.cards = {}

(* Once main has handled what the daemon posted, the window is about the   *)
(* latest run and true of it.  Excepted, until the next run: an exit that  *)
(* main met before the daemon's last events, and a restore told of late.   *)
ShownIsTrue ==
  AllHandled =>
    /\ main.shown.view.run = runs
    /\ Live => main.active = runs
    /\ LiveIsShown /\ RestIsShown
=============================================================================
