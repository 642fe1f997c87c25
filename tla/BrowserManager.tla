---------------------------- MODULE BrowserManager ----------------------------
(***************************************************************************)
(* The daemon's end of the browser (browser-session-manager.ts): the       *)
(* container and its worker, the connection, starting, closing, restarting *)
(* and destroying them, and the calls in flight meanwhile.                 *)
(*                                                                         *)
(* Nothing serialises these operations: each runs to its next await, and   *)
(* another may run before it goes on.  A start() call owns at most one     *)
(* connection, so the connection bears the name of its call.  The launcher *)
(* is the container launcher, the only one main.ts uses.                   *)
(***************************************************************************)
EXTENDS FiniteSets

CONSTANTS
  Starts,     (* The start() calls that may happen.                         *)
  Acts,       (* The act() calls that may happen.                           *)
  Controls,   (* The control() calls that may happen.                       *)
  None

ASSUME Distinct == None \notin Starts /\ Acts \cap Controls = {}

VARIABLES
  state,      (* status.state; "ready" stands for "crashed" too, the state  *)
              (* of a ready browser whose page crashed.                      *)
  handle,     (* this.handle; "gone" once its destroy() was called.         *)
  container,
  conn,       (* this.conn.                                                 *)
  line,       (* Each connection: "cut" was closed here, "lost" by the      *)
              (* worker; "closed" once its close event was handled.         *)
  serving,    (* The connection that the worker serves.                     *)
  start,      (* Where each start() stands.                                 *)
  restarter,  (* The start() that restart() will make or awaits.            *)
  destroying,
  dropped,    (* destroy() is over: the daemon calls this manager no more.  *)
  call,       (* Each request; "left" when its caller was aborted.          *)
  on,         (* The connection it was sent on.                             *)
  fresh,      (* It was made in the present epoch.                          *)
  doing,      (* The requests that the worker has not finished.             *)
  replied,    (* The replies in flight.                                     *)
  uncertainAction,
  settle,     (* Where settleActions() stands,                              *)
  waits       (* and the actions it awaits.                                 *)

session == <<state, handle, container, conn, serving, start, restarter>>
requests == <<call, on, fresh, doing, replied, uncertainAction>>
settling == <<settle, waits>>
vars == <<session, line, destroying, dropped, requests, settling>>

Calls == Acts \cup Controls
Open == {"open", "lost"}        (* Data may still arrive on such a line.    *)
Waiting == {"pending", "left"}

TypeOK ==
  /\ state \in {"idle", "starting", "ready", "stopped", "error"}
  /\ handle \in {"none", "alive", "gone"}
  /\ container \in {"absent", "running"}
  /\ {conn, serving, restarter} \subseteq Starts \cup {None}
  /\ line \in [Starts -> {"none", "open", "cut", "lost", "closed"}]
  /\ start \in [Starts -> {"unused", "reserved", "launching", "connecting", "kicking",
                         "retrying", "asking", "failing", "done"}]
  /\ {destroying, dropped, uncertainAction} \subseteq BOOLEAN
  /\ call \in [Calls -> {"unused", "pending", "left", "ended", "timedout"}]
  /\ on \in [Calls -> Starts \cup {None}]
  /\ fresh \in [Calls -> BOOLEAN]
  /\ doing \subseteq Calls /\ replied \subseteq Calls
  /\ settle \in {"idle", "waiting", "ok", "refused"}
  /\ waits \subseteq Acts
  /\ restarter # None => start[restarter] \notin {"unused", "done"}

Init ==
  /\ state = "idle" /\ handle = "none"
  /\ container \in {"absent", "running"}   (* It may outlive the daemon.    *)
  /\ conn = None /\ serving = None /\ restarter = None
  /\ line = [s \in Starts |-> "none"]
  /\ start = [s \in Starts |-> "unused"]
  /\ destroying = FALSE /\ dropped = FALSE
  /\ call = [c \in Calls |-> "unused"]
  /\ on = [c \in Calls |-> None]
  /\ fresh = [c \in Calls |-> FALSE]
  /\ doing = {} /\ replied = {}
  /\ uncertainAction = FALSE
  /\ settle = "idle" /\ waits = {}

-----------------------------------------------------------------------------
(* Connections.                                                            *)

(* const conn = this.conn; this.conn = undefined; conn?.close().           *)
Cut == [s \in Starts |-> IF s = conn /\ line[s] \in Open THEN "cut" ELSE line[s]]

(* The worker closes the connection it serves.                             *)
Lost == [s \in Starts |-> IF s = serving /\ line[s] = "open" THEN "lost" ELSE line[s]]

(* The close event: every request of the line is rejected, and a live      *)
(* session notices that it lost its worker.                                *)
CloseEvent(s) ==
  /\ line[s] \in {"cut", "lost"}
  /\ line' = [line EXCEPT ![s] = "closed"]
  /\ call' = [c \in Calls |-> IF on[c] = s /\ call[c] \in Waiting THEN "ended" ELSE call[c]]
  /\ state' = IF conn = s /\ state = "ready" THEN "error" ELSE state
  /\ start' = [start EXCEPT ![s] = IF @ = "asking" THEN "failing" ELSE @]
  /\ replied' = {c \in replied : on[c] # s}
  /\ UNCHANGED <<handle, container, conn, serving, restarter, destroying, dropped, on, fresh, doing, uncertainAction, settling>>

(* The worker crashes, or is killed by waitForSocket, and comes back.      *)
WorkerDies ==
  /\ container = "running"
  /\ line' = Lost /\ serving' = None /\ doing' = {}
  /\ UNCHANGED <<state, handle, container, conn, start, restarter, destroying, dropped, call, on, fresh, replied, uncertainAction, settling>>

(* rm -f of the container, with the worker and all it was doing.           *)
Removed == container' = "absent" /\ serving' = None /\ doing' = {}

(* The daemon makes a manager when a session is ready, before any start(), *)
(* and drops it once destroyed.                                            *)
InUse == ~dropped

-----------------------------------------------------------------------------
(* start(), up to its next await.                                          *)

Begun(s) == start' = [start EXCEPT ![s] = IF handle' = "alive" THEN "connecting" ELSE "launching"]

Start(s) ==
  /\ ~dropped /\ start[s] = "unused"
  /\ state \notin {"ready", "starting"}
  /\ state' = "starting"
  /\ UNCHANGED handle /\ Begun(s)
  /\ UNCHANGED <<container, conn, line, serving, restarter, destroying, dropped, requests, settling>>

(* The launcher runs the container, unless it runs already.                *)
Launched(s) ==
  /\ start[s] = "launching"
  /\ \/ handle' = "alive" /\ container' = "running" /\ start' = [start EXCEPT ![s] = "connecting"]
     \/ UNCHANGED <<handle, container>> /\ start' = [start EXCEPT ![s] = "failing"]
  /\ UNCHANGED <<state, conn, line, serving, restarter, destroying, dropped, requests, settling>>

(* After five seconds without its socket the worker is killed, by podman.  *)
Kicks(s) ==
  /\ start[s] = "connecting" /\ handle # "none"
  /\ start' = [start EXCEPT ![s] = "kicking"]
  /\ UNCHANGED <<state, handle, container, conn, line, serving, restarter, destroying, dropped, requests, settling>>

Kicked(s) ==
  /\ start[s] = "kicking"
  /\ start' = [start EXCEPT ![s] = "retrying"]
  /\ UNCHANGED <<state, handle, container, conn, line, serving, restarter, destroying, dropped, requests, settling>>

Seeking == {"connecting", "retrying"}

(* The worker serves one connection, the last; browser.info is asked on it. *)
Connected(s) ==
  /\ start[s] \in Seeking /\ container = "running"
  /\ line' = [Lost EXCEPT ![s] = "open"]
  /\ serving' = s /\ conn' = s
  /\ start' = [start EXCEPT ![s] = "asking"]
  /\ UNCHANGED <<state, handle, container, restarter, destroying, dropped, requests, settling>>

(* Mutant: only a worker that is gone ends the wait.                       *)
GivesUpOnNone(s) ==
  /\ start[s] \in Seeking /\ handle # "alive"
  /\ start' = [start EXCEPT ![s] = "failing"]
  /\ UNCHANGED <<state, handle, container, conn, line, serving, restarter, destroying, dropped, requests, settling>>

(* The worker's socket does not appear, or browser.info goes unanswered.   *)
GivesUp(s) ==
  /\ start[s] \in Seeking \cup {"asking"}
  /\ start' = [start EXCEPT ![s] = "failing"]
  /\ UNCHANGED <<state, handle, container, conn, line, serving, restarter, destroying, dropped, requests, settling>>

Over(s) ==
  /\ start' = [start EXCEPT ![s] = "done"]
  /\ restarter' = IF restarter = s THEN None ELSE restarter

Informed(s) ==
  /\ start[s] = "asking" /\ line[s] \in Open
  /\ state' = "ready"
  /\ Over(s)
  /\ UNCHANGED <<handle, container, conn, line, serving, destroying, dropped, requests, settling>>

(* The catch block: stop("error").                                         *)
FailStart(s) ==
  /\ start[s] = "failing"
  /\ line' = Cut /\ conn' = None
  /\ state' = "error"
  /\ Over(s)
  /\ UNCHANGED <<handle, container, serving, destroying, dropped, requests, settling>>

(* browser.state, heard only on the connection in use.                     *)
StateArrives ==
  /\ conn # None /\ line[conn] \in Open
  /\ state' = "ready"
  /\ UNCHANGED <<handle, container, conn, line, serving, start, restarter, destroying, dropped, requests, settling>>

-----------------------------------------------------------------------------
(* stop(), destroy(), restart().                                           *)

Stop ==
  /\ InUse
  /\ line' = Cut /\ conn' = None
  /\ state' = "stopped"
  /\ UNCHANGED <<handle, container, serving, start, restarter, destroying, dropped, requests, settling>>

Destroyed == handle' = "none" /\ state' = "stopped" /\ dropped' = TRUE

DestroyBegins ==
  /\ InUse /\ ~destroying
  /\ line' = Cut /\ conn' = None
  /\ IF handle = "none" THEN Destroyed /\ UNCHANGED destroying
     ELSE handle' = "gone" /\ destroying' = TRUE /\ UNCHANGED <<state, dropped>>
  /\ UNCHANGED <<container, serving, start, restarter, requests, settling>>

DestroyEnds ==
  /\ destroying
  /\ Removed /\ line' = Lost
  /\ Destroyed /\ destroying' = FALSE
  /\ UNCHANGED <<conn, start, restarter, call, on, fresh, replied, uncertainAction, settling>>

RestartBegins(s) ==
  /\ InUse /\ restarter = None /\ state # "starting"
  /\ start[s] = "unused"
  /\ fresh' = [c \in Calls |-> FALSE]
  /\ state' = "starting"
  /\ line' = Cut /\ conn' = None
  /\ uncertainAction' = FALSE
  /\ restarter' = s
  /\ IF handle = "none" THEN UNCHANGED handle /\ Begun(s)
     ELSE handle' = "gone" /\ start' = [start EXCEPT ![s] = "reserved"]
  /\ UNCHANGED <<container, serving, destroying, dropped, call, on, doing, replied, settling>>

(* The container is gone and start() begins, or podman failed.             *)
RestartGoesOn(s) ==
  /\ start[s] = "reserved"
  /\ \/ /\ Removed /\ line' = Lost
        /\ handle' = "none" /\ state' = "starting"
        /\ Begun(s) /\ UNCHANGED restarter
     \/ /\ state' = "error" /\ Over(s)
        /\ UNCHANGED <<handle, container, serving, doing, line>>
  /\ UNCHANGED <<conn, destroying, dropped, call, on, fresh, replied, uncertainAction, settling>>

-----------------------------------------------------------------------------
(* act() and control().                                                    *)

(* A run makes one call at a time, and none while the daemon waits for     *)
(* actions to settle: the runs before are over.                            *)
MayCall(c) ==
  c \in Acts =>
    /\ settle = "idle" /\ ~uncertainAction
    /\ \A a \in Acts : call[a] # "pending"

requireConn == conn # None

Call(c) ==
  /\ InUse /\ call[c] = "unused" /\ MayCall(c)
  /\ requireConn /\ line[conn] \in Open
  /\ call' = [call EXCEPT ![c] = "pending"]
  /\ on' = [on EXCEPT ![c] = conn]
  /\ fresh' = [fresh EXCEPT ![c] = TRUE]
  /\ doing' = IF serving = conn THEN doing \cup {c} ELSE doing
  /\ UNCHANGED <<session, line, destroying, dropped, replied, uncertainAction, settling>>

(* Mutant: an aborted action is no longer tracked.                         *)
AbortForgets(c) ==
  /\ c \in Acts /\ call[c] = "pending"
  /\ call' = [call EXCEPT ![c] = "ended"]
  /\ UNCHANGED <<session, line, destroying, dropped, on, fresh, doing, replied, uncertainAction, settling>>

(* Stop: the caller is told CANCELLED; the click is still tracked.         *)
Abort(c) ==
  /\ c \in Acts /\ call[c] = "pending"
  /\ call' = [call EXCEPT ![c] = "left"]
  /\ UNCHANGED <<session, line, destroying, dropped, on, fresh, doing, replied, uncertainAction, settling>>

(* The worker finishes, and answers if the connection is still the one it  *)
(* serves.                                                                 *)
WorkerFinishes(c) ==
  /\ c \in doing
  /\ doing' = doing \ {c}
  /\ replied' = IF serving = on[c] THEN replied \cup {c} ELSE replied
  /\ UNCHANGED <<session, line, destroying, dropped, call, on, fresh, uncertainAction, settling>>

(* A result of an earlier epoch, or that nobody awaits, is discarded.      *)
Shows(c) == call[c] = "pending" /\ fresh[c]

ReplyArrives(c) ==
  /\ c \in replied /\ line[on[c]] \in Open
  /\ replied' = replied \ {c}
  /\ call' = [call EXCEPT ![c] = IF @ \in Waiting THEN "ended" ELSE @]
  /\ state' \in {state} \cup (IF Shows(c) THEN {"ready"} ELSE {})
  /\ UNCHANGED <<handle, container, conn, line, serving, start, restarter, destroying, dropped, on, fresh, doing, uncertainAction, settling>>

(* Mutant: any timeout makes the browser uncertain.                        *)
DoubtsAny(c) == c \in Acts

Doubts(c) == c \in Acts /\ fresh[c]

(* Mutant: an action has no timeout.                                       *)
TimesOutControl(c) ==
  /\ c \in Controls /\ call[c] = "pending"
  /\ call' = [call EXCEPT ![c] = "timedout"]
  /\ UNCHANGED <<session, line, destroying, dropped, on, fresh, doing, replied, uncertainAction, settling>>

TimesOut(c) ==
  /\ call[c] \in Waiting
  /\ call' = [call EXCEPT ![c] = "timedout"]
  /\ uncertainAction' = (uncertainAction \/ Doubts(c))
  /\ UNCHANGED <<session, line, destroying, dropped, on, fresh, doing, replied, settling>>

-----------------------------------------------------------------------------
(* settleActions(), awaited before a follow-up and by Pause.               *)

Settle ==
  /\ InUse /\ settle = "idle"
  /\ \A a \in Acts : call[a] # "pending"
  /\ settle' = "waiting"
  /\ waits' = {a \in Acts : call[a] = "left"}
  /\ UNCHANGED <<session, line, destroying, dropped, requests>>

Settled ==
  /\ settle = "waiting"
  /\ \A a \in waits : call[a] \notin Waiting
  /\ settle' = IF uncertainAction THEN "refused" ELSE "ok"
  /\ UNCHANGED <<session, line, destroying, dropped, requests, waits>>

(* The next run begins, or the human is told to restart the browser.       *)
GoOn ==
  /\ settle \in {"ok", "refused"}
  /\ settle' = "idle" /\ waits' = {}
  /\ UNCHANGED <<session, line, destroying, dropped, requests>>

-----------------------------------------------------------------------------
(* What a start() awaits: a timer of its own; podman, that runs without a  *)
(* time limit (runtime/podman.ts:11), so that it may never answer; or the  *)
(* worker.                                                                 *)
StartTimed(s) == Kicks(s) \/ GivesUp(s)
StartByPodman(s) == Launched(s) \/ Kicked(s) \/ FailStart(s) \/ RestartGoesOn(s)
StartServed(s) == Connected(s) \/ Informed(s)
OnPodman == {"launching", "kicking", "failing", "reserved"}

Next ==
  \/ \E s \in Starts : \/ Start(s) \/ StartTimed(s) \/ StartByPodman(s) \/ StartServed(s)
                       \/ RestartBegins(s) \/ CloseEvent(s)
  \/ \E c \in Calls : Call(c) \/ Abort(c) \/ WorkerFinishes(c) \/ ReplyArrives(c) \/ TimesOut(c)
  \/ WorkerDies \/ StateArrives \/ Stop \/ DestroyBegins \/ DestroyEnds
  \/ Settle \/ Settled \/ GoOn

Spec == Init /\ [][Next]_vars

(* A timer fires and the close event of a socket comes; nothing is assumed *)
(* of the worker, nor of podman.                                           *)
FairSpec ==
  /\ Spec
  /\ \A s \in Starts : WF_vars(StartTimed(s)) /\ WF_vars(CloseEvent(s))
  /\ \A c \in Calls : WF_vars(TimesOut(c))
  /\ WF_vars(Settled)

-----------------------------------------------------------------------------
(* Properties.                                                             *)

(* settleActions() lets work go on only if the worker is through with      *)
(* every action it got on the connection in use, the aborted ones included. *)
SettledOnLine ==
  [][(settle = "waiting" /\ settle' = "ok") => \A a \in doing \cap Acts : on[a] # conn]_vars

(* "Restart browser" is asked for because of an action of this browser: a  *)
(* timeout from before a restart leaves the new browser usable.            *)
DoubtIsOfThisBrowser ==
  TypeOK /\ (uncertainAction => \E a \in Acts : fresh[a] /\ call[a] = "timedout")

(* Every wait for outstanding actions ends, within the calls' timeouts.    *)
SettleEnds == settle = "waiting" ~> settle # "waiting"

(* A restart ends, whatever else is asked of the browser meanwhile, unless *)
(* podman leaves a command of it unanswered for good.                      *)
RestartEnds ==
  \A s \in Starts : restarter = s ~> (restarter # s \/ [](start[s] \in OnPodman))

(* No handler of the daemon waits for the browser for good, podman apart.  *)
WaitsEnd == SettleEnds /\ RestartEnds

(* Not kept by the code, which forgets a click when the browser is closed: *)
(* "Interrupt & send ... waits for its cleanup and outstanding browser     *)
(* actions", so that no click of an earlier run is still to come.          *)
NothingLeftBehind == settle = "ok" => doing \cap Acts = {}
=============================================================================
