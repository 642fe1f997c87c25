--------------------------- MODULE TerminalStream ---------------------------
(***************************************************************************)
(* The terminal's output on its way to the window, and the credit that     *)
(* returns for it: the worker's PTY and connection (terminal-session.ts,   *)
(* terminal-worker/server.ts, connection.ts), the daemon's count of what   *)
(* the window has not parsed (ipc.ts), the desktop's TerminalDelivery and  *)
(* the window (preload, TerminalPanel.tsx).  Each arrow between processes   *)
(* is a sequence; the window parses a chunk when it takes it.              *)
(*                                                                         *)
(* A chunk is 64 KiB, named by its place in the output.                    *)
(***************************************************************************)
EXTENDS Naturals, Sequences, SequencesExt

CONSTANTS
  High, Low,   (* 256 and 128 KiB: pause from High, resume below Low.       *)
  Batch,       (* 64 KiB: the most that is sent, and acknowledged, at once. *)
  QueueLimit,  (* 8 MiB: FramedConnection.queueLimit.                       *)
  Limit,       (* 4 MiB: what TerminalDelivery holds.                       *)
  Output,      (* Bound: chunks the terminal writes.                        *)
  MaxFaults    (* Bound: lost connections, reloads, restarts and clicks.    *)

ASSUME StreamAssumption ==
  /\ {High, Low, Batch, QueueLimit, Limit, Output, MaxFaults} \subseteq Nat \ {0}
  /\ Low <= High

VARIABLES
  written,   (* Chunks the PTY has read from the terminal.                  *)
  paused,    (* The PTY is paused.                                          *)
  wire,      (* Worker to daemon: PTY frames.                               *)
  flow,      (* Daemon to worker: terminal.flow notifications.              *)
  link,      (* The daemon's worker: "up", "closing" (session.stop waits    *)
             (* for the proxy and the browser) or "down".                   *)
  unacked,   (* Daemon.terminalUnacked.                                     *)
  toMain,    (* Daemon to desktop: terminal.data.                           *)
  toAgentd,  (* Desktop to daemon: acknowledged sizes; 0 is session.stop.   *)
  delivery,  (* TerminalDelivery.                                           *)
  toWin,     (* Desktop to window: terminal:data, or a reset (id 0).        *)
  fromWin,   (* Window to desktop: terminal:ack, "on", "reconnect".         *)
  loading,   (* did-start-loading; the new page is not mounted yet.         *)
  shown,     (* The chunks that this display has parsed.                    *)
  lost,      (* History: chunks given up with a connection or a buffer.     *)
  overflowed,(* History: TerminalDelivery gave chunks up without credit.    *)
  faults

pty == <<written, paused>>
daemon == <<unacked, toMain>>
window == <<fromWin, loading, shown>>
streamVars == <<pty, wire, flow, link, daemon, toAgentd, delivery, toWin, window,
          lost, overflowed, faults>>

Stop == 0
Ack(id) == [kind |-> "ack", id |-> id]
On == [kind |-> "on", id |-> 0]
Reconnect == [kind |-> "reconnect", id |-> 0]

StreamTypeOK ==
  /\ written \in 0 .. Output /\ paused \in BOOLEAN
  /\ {wire, toMain, shown} \subseteq Seq(1 .. Output)
  /\ flow \in Seq(BOOLEAN)
  /\ link \in {"up", "closing", "down"}
  /\ unacked \in Nat /\ toAgentd \in Seq(Nat)
  /\ delivery \in [queue : Seq(1 .. Output), pending : Seq(1 .. Output), sequence : Nat,
                   ready : BOOLEAN, bytes : 0 .. Limit, failed : BOOLEAN,
                   timer : BOOLEAN, stalled : BOOLEAN]
  /\ delivery.bytes = Len(delivery.queue) + Len(delivery.pending)
  /\ lost \subseteq 1 .. Output

StreamInit ==
  /\ written = 0 /\ paused = FALSE
  /\ wire = <<>> /\ flow = <<>> /\ link = "up"
  /\ unacked = 0 /\ toMain = <<>> /\ toAgentd = <<>>
  /\ delivery = [queue |-> <<>>, pending |-> <<>>, sequence |-> 0, ready |-> FALSE,
                 bytes |-> 0, failed |-> FALSE, timer |-> FALSE, stalled |-> FALSE]
  /\ toWin = <<>> /\ fromWin = <<On>> /\ loading = FALSE
  /\ shown = <<>> /\ lost = {} /\ overflowed = FALSE /\ faults = 0

-----------------------------------------------------------------------------
(* Worker.  The connection's close event lets the PTY go on.               *)
Cut(gone) ==
  /\ wire' = <<>> /\ flow' = <<>> /\ link' = "down"
  /\ paused' = FALSE
  /\ lost' = lost \cup ToSet(wire) \cup gone

Overfull == Len(wire) >= QueueLimit
Data ==
  /\ ~paused /\ written < Output
  /\ written' = written + 1
  /\ \/ link # "down" /\ ~Overfull
        /\ wire' = Append(wire, written')
        /\ UNCHANGED <<paused, flow, link, lost>>
     \/ link # "down" /\ Overfull
        /\ Cut({written'})
     \/ link = "down"
        /\ lost' = lost \cup {written'}
        /\ UNCHANGED <<paused, wire, flow, link>>
  /\ UNCHANGED <<daemon, toAgentd, delivery, toWin, window, overflowed, faults>>

SetOutputPaused ==
  /\ flow # <<>>
  /\ paused' = Head(flow) /\ flow' = Tail(flow)
  /\ UNCHANGED <<written, wire, link, daemon, toAgentd, delivery, toWin, window,
                 lost, overflowed, faults>>

-----------------------------------------------------------------------------
(* Daemon.  this.manager?.worker?.setOutputPaused?.(p)                     *)
Tell(p) == flow' = IF link = "down" THEN flow ELSE Append(flow, p)

PtyData ==
  /\ wire # <<>>
  /\ wire' = Tail(wire)
  /\ unacked' = unacked + 1
  /\ toMain' = Append(toMain, Head(wire))
  /\ IF unacked' >= High THEN Tell(TRUE) ELSE UNCHANGED flow
  /\ UNCHANGED <<pty, link, toAgentd, delivery, toWin, window, lost, overflowed, faults>>

Monus(m, n) == IF m > n THEN m - n ELSE 0

(* Mutant: the terminal is resumed when everything is acknowledged.        *)
TerminalAckAtZero ==
  /\ toAgentd # <<>> /\ Head(toAgentd) # Stop
  /\ toAgentd' = Tail(toAgentd)
  /\ IF Head(toAgentd) <= Batch
     THEN /\ unacked' = Monus(unacked, Head(toAgentd))
          /\ IF unacked' = 0 THEN Tell(FALSE) ELSE UNCHANGED flow
     ELSE UNCHANGED <<unacked, flow>>
  /\ UNCHANGED <<pty, wire, link, toMain, delivery, toWin, window, lost, overflowed, faults>>

(* terminal.ack; what its schema does not allow is dropped.                *)
TerminalAck ==
  /\ toAgentd # <<>> /\ Head(toAgentd) # Stop
  /\ toAgentd' = Tail(toAgentd)
  /\ IF Head(toAgentd) <= Batch
     THEN /\ unacked' = Monus(unacked, Head(toAgentd))
          /\ IF unacked' < Low THEN Tell(FALSE) ELSE UNCHANGED flow
     ELSE UNCHANGED <<unacked, flow>>
  /\ UNCHANGED <<pty, wire, link, toMain, delivery, toWin, window, lost, overflowed, faults>>

StopsSession ==
  /\ toAgentd # <<>> /\ Head(toAgentd) = Stop
  /\ toAgentd' = Tail(toAgentd)
  /\ unacked' = 0
  /\ Tell(FALSE)
  /\ link' = IF link = "up" THEN "closing" ELSE link
  /\ UNCHANGED <<pty, wire, toMain, delivery, toWin, window, lost, overflowed, faults>>

WorkerDetached ==
  /\ link = "closing"
  /\ Cut({})
  /\ UNCHANGED <<written, daemon, toAgentd, delivery, toWin, window, overflowed, faults>>

(* session.start or the manager's reconnect; WorkerServer.accept().        *)
Accept ==
  /\ link = "down"
  /\ link' = "up" /\ paused' = FALSE
  /\ UNCHANGED <<written, wire, flow, daemon, toAgentd, delivery, toWin, window,
                 lost, overflowed, faults>>

Fault == faults < MaxFaults /\ faults' = faults + 1

(* The worker dies and its supervisor starts another; the connection ends. *)
WorkerLost ==
  /\ link # "down" /\ Fault
  /\ Cut({})
  /\ UNCHANGED <<written, daemon, toAgentd, delivery, toWin, window, overflowed>>

(* agentd exits and is started again: onAgentdExit.                        *)
AgentdExit ==
  /\ Fault
  /\ unacked' = 0 /\ toAgentd' = <<>>
  /\ \E n \in 0 .. Len(toMain) :
       /\ toMain' = SubSeq(toMain, 1, n)
       /\ Cut(ToSet(SubSeq(toMain, n + 1, Len(toMain))))
  /\ UNCHANGED <<written, delivery, toWin, window, overflowed>>

-----------------------------------------------------------------------------
(* TerminalDelivery, as functions of its fields.                           *)
ClearStall(d) == [d EXCEPT !.timer = FALSE, !.stalled = FALSE]
Emptied(d) == [ClearStall(d) EXCEPT !.queue = <<>>, !.pending = <<>>, !.bytes = 0]

(* Mutant: nobody watches for the acknowledgement.                         *)
FlushedUnwatched(d) ==
  LET n == IF Len(d.queue) < Batch THEN Len(d.queue) ELSE Batch IN
  IF ~d.ready \/ d.pending # <<>> \/ d.queue = <<>> THEN d
  ELSE [d EXCEPT !.pending = SubSeq(d.queue, 1, n),
                 !.queue = SubSeq(d.queue, n + 1, Len(d.queue)),
                 !.sequence = @ + 1]
Flushed(d) ==
  LET n == IF Len(d.queue) < Batch THEN Len(d.queue) ELSE Batch IN
  IF ~d.ready \/ d.pending # <<>> \/ d.queue = <<>> THEN d
  ELSE [d EXCEPT !.pending = SubSeq(d.queue, 1, n),
                 !.queue = SubSeq(d.queue, n + 1, Len(d.queue)),
                 !.sequence = @ + 1, !.timer = TRUE]

(* The fields become those of d, flushed; a chunk that is sent is sent.    *)
Flush(d) ==
  LET f == Flushed(d) IN
  /\ delivery' = f
  /\ toWin' = IF f.sequence = delivery.sequence THEN toWin
              ELSE Append(toWin, [id |-> f.sequence, data |-> f.pending])

(* Mutant: the chunk that was under way goes to the end of the queue.      *)
UnsentLast(d) == [d EXCEPT !.queue = @ \o d.pending, !.pending = <<>>]
Unsent(d) == [d EXCEPT !.queue = d.pending \o @, !.pending = <<>>]
SetReady(on) ==
  Flush(IF on THEN [delivery EXCEPT !.ready = TRUE]
        ELSE [Unsent(ClearStall(delivery)) EXCEPT !.ready = FALSE, !.failed = FALSE])

Push ==
  /\ toMain # <<>>
  /\ toMain' = Tail(toMain)
  /\ \/ /\ delivery.failed
        /\ lost' = lost \cup {Head(toMain)}
        /\ UNCHANGED <<toAgentd, delivery, toWin, overflowed>>
     \/ /\ ~delivery.failed /\ delivery.bytes + 1 > Limit
        /\ delivery' = [Emptied(delivery) EXCEPT !.failed = TRUE]
        /\ toAgentd' = Append(toAgentd, Stop)
        /\ lost' = lost \cup {Head(toMain)} \cup ToSet(delivery.queue \o delivery.pending)
        /\ overflowed' = TRUE
        /\ UNCHANGED toWin
     \/ /\ ~delivery.failed /\ delivery.bytes + 1 <= Limit
        /\ Flush([delivery EXCEPT !.bytes = @ + 1, !.queue = Append(@, Head(toMain))])
        /\ UNCHANGED <<toAgentd, lost, overflowed>>
  /\ UNCHANGED <<pty, wire, flow, link, unacked, window, faults>>

Stall ==
  /\ delivery.timer /\ ~delivery.stalled
  /\ delivery' = [delivery EXCEPT !.stalled = TRUE]
  /\ UNCHANGED <<pty, wire, flow, link, daemon, toAgentd, toWin, window, lost, overflowed, faults>>

Acknowledge ==
  /\ fromWin # <<>> /\ Head(fromWin).kind = "ack"
  /\ fromWin' = Tail(fromWin)
  /\ LET n == Len(delivery.pending) IN
     IF n # 0 /\ Head(fromWin).id = delivery.sequence
     THEN /\ toAgentd' = Append(toAgentd, n)
          /\ Flush([ClearStall(delivery) EXCEPT !.bytes = @ - n, !.pending = <<>>])
     ELSE UNCHANGED <<toAgentd, delivery, toWin>>
  /\ UNCHANGED <<pty, wire, flow, link, daemon, loading, shown, lost, overflowed, faults>>

Subscribe ==
  /\ fromWin # <<>> /\ Head(fromWin) = On
  /\ fromWin' = Tail(fromWin)
  /\ SetReady(TRUE)
  /\ UNCHANGED <<pty, wire, flow, link, daemon, toAgentd, loading, shown, lost, overflowed, faults>>

(* The credit that reset() returns, in pieces.                             *)
(* Mutant: in one piece.                                                   *)
CreditsAtOnce(n) == IF n = 0 THEN <<>> ELSE <<n>>
Credits(n) ==
  [i \in 1 .. (n + Batch - 1) \div Batch |-> IF i * Batch <= n THEN Batch ELSE n % Batch]
Reset ==
  /\ fromWin # <<>> /\ Head(fromWin) = Reconnect
  /\ fromWin' = Tail(fromWin)
  /\ toWin' = Append(toWin, [id |-> 0, data |-> <<>>])
  /\ toAgentd' = toAgentd \o Credits(delivery.bytes)
  /\ lost' = lost \cup ToSet(delivery.queue \o delivery.pending)
  /\ delivery' = [Emptied(delivery) EXCEPT !.failed = FALSE]
  /\ UNCHANGED <<pty, wire, flow, link, daemon, loading, shown, overflowed, faults>>

-----------------------------------------------------------------------------
(* Window.                                                                 *)
Parse ==
  /\ toWin # <<>>
  /\ toWin' = Tail(toWin)
  /\ IF Head(toWin).id = 0
     THEN shown' = <<>> /\ UNCHANGED fromWin
     ELSE /\ shown' = shown \o Head(toWin).data
          /\ fromWin' = Append(fromWin, Ack(Head(toWin).id))
  /\ UNCHANGED <<pty, wire, flow, link, daemon, toAgentd, delivery, loading, lost, overflowed, faults>>

Click ==
  /\ ~loading /\ Fault
  /\ fromWin' = Append(fromWin, Reconnect)
  /\ UNCHANGED <<pty, wire, flow, link, daemon, toAgentd, delivery, toWin, loading, shown,
                 lost, overflowed>>

(* did-start-loading; the old page lives until the new one is there.       *)
Reload ==
  /\ ~loading /\ Fault
  /\ loading' = TRUE
  /\ SetReady(FALSE)
  /\ UNCHANGED <<pty, wire, flow, link, daemon, toAgentd, fromWin, shown, lost, overflowed>>

Mounted ==
  /\ loading /\ loading' = FALSE
  /\ toWin' = <<>> /\ shown' = <<>>
  /\ fromWin' = Append(fromWin, On)
  /\ UNCHANGED <<pty, wire, flow, link, daemon, toAgentd, delivery, lost, overflowed, faults>>

Moves ==
  \/ SetOutputPaused \/ PtyData \/ TerminalAck \/ StopsSession \/ WorkerDetached
  \/ Push \/ Acknowledge \/ Subscribe \/ Reset \/ Parse \/ Mounted
StreamNext == Moves \/ Data \/ Accept \/ WorkerLost \/ AgentdExit \/ Stall \/ Click \/ Reload

StreamSpec == StreamInit /\ [][StreamNext]_streamVars
(* Every process empties its queues; the five-second timer fires.          *)
FairStream == StreamSpec /\ WF_streamVars(Moves) /\ WF_streamVars(Stall)

-----------------------------------------------------------------------------
(* A display shows the output in order and once, though chunks are sent    *)
(* again after a reload and acknowledgements come late; what is missing in  *)
(* it went with a lost connection or a buffer given up as a whole, never    *)
(* silently (terminal-delivery.ts:41, linux-agent-workbench-architecture.md *)
(* :106).  A page that is about to be replaced may see a chunk twice.       *)
InOrder ==
  loading \/ \A i \in 1 .. Len(shown) - 1 :
    /\ shown[i] < shown[i + 1]
    /\ (shown[i] + 1) .. (shown[i + 1] - 1) \subseteq lost

(* All that the daemon counts comes back: it is on its way to the window,   *)
(* held for it, or acknowledged.  Reloads, reconnects, resets and restarts  *)
(* lose no credit, so the terminal cannot stay paused for nothing           *)
(* (ipc.ts:446).  Only an overflow does.                                    *)
Sum(s) ==
  LET upTo[i \in 0 .. Len(s)] == IF i = 0 THEN 0 ELSE upTo[i - 1] + s[i] IN upTo[Len(s)]
CreditReturns ==
  overflowed \/ unacked <= Len(toMain) + delivery.bytes + Sum(toAgentd)

(* A paused terminal was paused for output that is counted, or the word to  *)
(* go on is on its way.                                                     *)
PausedWithCause ==
  paused /\ flow = <<>> => link # "down" /\ unacked >= Low

(* Flow control is exact: nothing that is counted is forgotten, and the    *)
(* terminal stands only for what is counted.                               *)
FlowIsExact == StreamTypeOK /\ CreditReturns /\ PausedWithCause

(* Output that is held back flows again, or the window says that its       *)
(* display has stalled.                                                    *)
HeldIsReleased == paused ~> ~paused \/ delivery.stalled \/ overflowed
=============================================================================
