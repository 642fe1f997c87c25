------------------------------ MODULE Sandbox -------------------------------
(***************************************************************************)
(* The sandbox session of the daemon: opening a workspace, its terminal    *)
(* worker's connection and what happens when that is lost, changing the    *)
(* network, closing and destroying (terminal-session-manager.ts and the    *)
(* session.* and run.start handlers of ipc.ts), over EgressSwitch.         *)
(*                                                                         *)
(* A handler runs to its next await, which is its call's phase; handlers   *)
(* do not wait for one another.                                            *)
(***************************************************************************)
EXTENDS EgressSwitch

CONSTANTS
  Conns,      (* 1 .. n: SocketTerminalWorker objects, in the order made.   *)
  MaxLosses   (* Bound: how often a worker dies.                            *)

ASSUME SandboxAssumption ==
  Conns \subseteq Nat \ {0} /\ None \notin Sessions /\ MaxLosses \in Nat

VARIABLES
  status,  (* TerminalSessionManager.status.                                *)
  worker,  (* TerminalSessionManager.worker; 0 is undefined.                *)
  conn,    (* Each connection: whose worker it is to, how it stands, and    *)
           (* whether the manager listens to it (unsubscribe).              *)
  call,    (* The handlers of session.start, session.network, session.stop. *)
  retry,   (* The lost connections that waitForWorker wants to replace.     *)
  box,     (* podman: the sessions whose terminal container runs.           *)
  up,      (* The sessions whose worker listens on its socket.              *)
  run,     (* The run: none, behind startRun's snapshot, or live; and the   *)
           (* connection it was given.                                      *)
  losses,
  calm     (* History: no command was given while one before it, or a       *)
           (* reconnect, was under way.                                     *)

manager == <<status, worker, conn, retry>>
podman == <<box, up>>
vars == <<switch, manager, call, podman, run, losses, calm>>

States == {"idle", "starting", "ready", "disconnected", "stopped", "error"}
Unused == [kind |-> "none", sid |-> None, mode |-> "none", at |-> "unused"]

TypeOK ==
  /\ SwitchTypeOK
  /\ status \in [state : States, sid : Sessions \cup {None}, mode : Modes]
  /\ worker \in Conns \cup {0}
  /\ conn \in [Conns -> [sid : Sessions \cup {None}, fed : BOOLEAN,
                         at : {"unused", "open", "broken", "closed"}]]
  /\ call \in [Calls -> [kind : {"none", "start", "network", "close", "destroy"},
                         sid : Sessions \cup {None}, mode : Modes,
                         at : {"unused", "podman", "wait", "egress", "done"}]]
  /\ retry \subseteq Conns
  /\ box \subseteq Sessions /\ up \subseteq box
  /\ run \in [at : {"none", "snapshot", "live"}, conn : Conns \cup {0}]
  /\ losses \in 0 .. MaxLosses
  /\ calm \in BOOLEAN

Init ==
  /\ SwitchInit
  /\ status = [state |-> "idle", sid |-> None, mode |-> "none"]
  /\ worker = 0
  /\ conn = [k \in Conns |-> [sid |-> None, fed |-> FALSE, at |-> "unused"]]
  /\ call = [i \in Calls |-> Unused]
  /\ retry = {}
  /\ box \in SUBSET Sessions /\ up = box
  /\ run = [at |-> "none", conn |-> 0]
  /\ losses = 0
  /\ calm = TRUE

-----------------------------------------------------------------------------
InFlight(kinds) == \E i \in Calls : call[i].kind \in kinds /\ call[i].at # "done"
changingNetwork == InFlight({"network"})
Busy == run.at # "none"   (* startingRun, or a run that is not over. *)
Quiet == retry = {} /\ ~InFlight({"start", "network", "close", "destroy"})

Open(i, kind, s, m, at) ==
  /\ call[i] = Unused
  /\ call' = [call EXCEPT ![i] = [kind |-> kind, sid |-> s, mode |-> m, at |-> at]]
To(i, at) == call' = [call EXCEPT ![i].at = at]

Shows(st) == status' = [status EXCEPT !.state = st]
Base(i, st) == status' = [state |-> st, sid |-> call[i].sid, mode |-> call[i].mode]

(* detach(): unsubscribe from every worker there was, close the current.   *)
Detached ==
  [k \in Conns |-> [conn[k] EXCEPT !.fed = FALSE,
                                   !.at = IF k = worker THEN "closed" ELSE @]]
(* Mutant: the connection of before goes on feeding the terminal.          *)
DetachNothing == UNCHANGED <<conn, worker>>

Detach ==
  /\ conn' = Detached
  /\ worker' = 0

(* WorkerServer.accept(): a worker drops its client for the one that comes. *)
Accepted(k, s, fed) ==
  conn' = [j \in Conns |->
       IF j = k THEN [sid |-> s, fed |-> fed, at |-> IF fed THEN "open" ELSE "closed"]
       ELSE IF conn[j].sid = s /\ conn[j].at = "open" THEN [conn[j] EXCEPT !.at = "broken"]
       ELSE conn[j]]
(* SocketTerminalWorker.connect().                                         *)
NewConn(k, s, fed) ==
  /\ conn[k].at = "unused" /\ \A j \in Conns : j < k => conn[j].at # "unused"
  /\ Accepted(k, s, fed)
(* The connection becomes the session's; WorkerClosed is its handler.      *)
Bind(k) == worker' = k

BreakAll(s) ==
  conn' = [k \in Conns |-> IF conn[k].sid = s /\ conn[k].at = "open"
                           THEN [conn[k] EXCEPT !.at = "broken"] ELSE conn[k]]

-----------------------------------------------------------------------------
(* Mutant: the proxy is asked only to open.                                *)
SessionStartOpens(i, s, m) ==
  /\ ~Busy /\ ~changingNetwork
  /\ Open(i, "start", s, m, "podman")
  /\ Detach
  /\ status' = [state |-> "starting", sid |-> s, mode |-> m]
  /\ IF m = "open" THEN Ask(i, s, m) ELSE UNCHANGED switch
  /\ calm' = (calm /\ Quiet)
  /\ UNCHANGED <<retry, podman, run, losses>>

(* session.start; start() up to podman, and the listener of "starting".    *)
SessionStart(i, s, m) ==
  /\ ~Busy /\ ~changingNetwork
  /\ Open(i, "start", s, m, "podman")
  /\ Detach
  /\ status' = [state |-> "starting", sid |-> s, mode |-> m]
  /\ Ask(i, s, m)
  /\ calm' = (calm /\ Quiet)
  /\ UNCHANGED <<retry, podman, run, losses>>

(* session.start of what is no workspace: the status is all that changes.  *)
StartRefused(i, m) ==
  /\ ~Busy /\ ~changingNetwork
  /\ Open(i, "start", None, m, "done")
  /\ status' = [state |-> "error", sid |-> None, mode |-> m]
  /\ calm' = (calm /\ Quiet)
  /\ UNCHANGED <<switch, worker, conn, retry, podman, run, losses>>

(* The container runs: reused, also of an older image, or started anew.    *)
Runs(s) == box' = box \cup {s}

(* imageExists and ensureRunning have answered.                            *)
EnsureRunning(i) ==
  /\ call[i].kind = "start" /\ call[i].at = "podman"
  /\ Runs(call[i].sid)
  /\ To(i, "wait")
  /\ UNCHANGED <<switch, manager, up, run, losses, calm>>

(* No image, podman failed, or waitForWorker's deadline.                   *)
StartFails(i) ==
  /\ call[i].kind = "start"
  /\ \/ call[i].at = "podman"
     \/ call[i].at = "wait" /\ call[i].sid \notin up
  /\ Base(i, "error")
  /\ To(i, "done")
  /\ UNCHANGED <<switch, worker, conn, retry, podman, run, losses, calm>>

StartReady(i, k) ==
  /\ call[i].kind = "start" /\ call[i].at = "wait" /\ call[i].sid \in up
  /\ NewConn(k, call[i].sid, TRUE)
  /\ Bind(k)
  /\ Base(i, "ready")
  /\ To(i, "done")
  /\ UNCHANGED <<switch, retry, podman, run, losses, calm>>

(* The close event of a worker's connection: the handler of bind().        *)
WorkerClosed(k) ==
  /\ conn[k].at = "broken"
  /\ conn' = [conn EXCEPT ![k].at = "closed"]
  /\ \/ /\ conn[k].fed /\ worker = k /\ status.state = "ready"
        /\ worker' = 0
        /\ Shows("disconnected")
        /\ retry' = retry \cup {k}
     \/ /\ conn[k].fed /\ worker = k /\ status.state # "ready"
        /\ worker' = 0
        /\ UNCHANGED <<status, retry>>
     \/ /\ ~(conn[k].fed /\ worker = k)
        /\ UNCHANGED <<worker, status, retry>>
  /\ UNCHANGED <<switch, call, podman, run, losses, calm>>

StillWanted == status.state = "disconnected"
Reconnected(k, j) ==
  /\ k \in retry /\ conn[k].sid \in up
  /\ retry' = retry \ {k}
  /\ NewConn(j, conn[k].sid, StillWanted)
  /\ IF StillWanted THEN Bind(j) /\ Shows("ready")
     ELSE UNCHANGED <<worker, status>>
  /\ UNCHANGED <<switch, call, podman, run, losses, calm>>

ReconnectFails(k) ==
  /\ k \in retry /\ conn[k].sid \notin up
  /\ retry' = retry \ {k}
  /\ Shows("disconnected")
  /\ UNCHANGED <<switch, worker, conn, call, podman, run, losses, calm>>

-----------------------------------------------------------------------------
(* session.network, to the await of the proxy and from it on.  Open cards, *)
(* which also keep the network as it is, are not part of this module.      *)
SessionNetwork(i, m) ==
  /\ ~Busy /\ ~changingNetwork /\ status.state = "ready"
  /\ Open(i, "network", status.sid, m, "egress")
  /\ Ask(i, status.sid, m)
  /\ calm' = (calm /\ Quiet)
  /\ UNCHANGED <<manager, podman, run, losses>>

SetNetworkMode(m) == status' = [status EXCEPT !.mode = m]
NetworkSet(i) ==
  /\ call[i].kind = "network" /\ call[i].at = "egress" /\ outcome[i] # "none"
  /\ SetNetworkMode(IF outcome[i] = "ok" THEN call[i].mode ELSE "none")
  /\ To(i, "done")
  /\ UNCHANGED <<switch, worker, conn, retry, podman, run, losses, calm>>

(* session.stop: the run is told to stop, the proxy is closed, then the    *)
(* browser, then the terminal is left or destroyed.                        *)
SessionStop(i, kind) ==
  /\ ~changingNetwork
  /\ Open(i, kind, None, "none", "egress")
  /\ Ask(i, None, "none")
  /\ calm' = (calm /\ Quiet)
  /\ UNCHANGED <<manager, podman, run, losses>>

Leave(i) ==
  /\ call[i].kind = "close" /\ call[i].at = "egress" /\ outcome[i] # "none"
  /\ Detach
  /\ IF status.state = "ready" THEN Shows("disconnected") ELSE UNCHANGED status
  /\ To(i, "done")
  /\ UNCHANGED <<switch, retry, podman, run, losses, calm>>

(* destroy() names the session that is open by now.                        *)
Destroy(i) ==
  /\ call[i].kind = "destroy" /\ call[i].at = "egress" /\ outcome[i] # "none"
  /\ Detach
  /\ IF status.state = "ready" THEN Shows("disconnected") ELSE UNCHANGED status
  /\ call' = [call EXCEPT ![i].at = "podman", ![i].sid = status.sid]
  /\ UNCHANGED <<switch, retry, podman, run, losses, calm>>

Removed(s) ==
  /\ box' = box \ {s} /\ up' = up \ {s}
  /\ BreakAll(s)
Destroyed(i) ==
  /\ call[i].kind = "destroy" /\ call[i].at = "podman"
  /\ Removed(call[i].sid)
  /\ Shows("stopped")
  /\ To(i, "done")
  /\ UNCHANGED <<switch, worker, retry, run, losses, calm>>

(* The browser is not left or destroyed, or podman fails, with or without  *)
(* the container gone: the rest of the handler is skipped.                 *)
StopFails(i) ==
  /\ call[i].kind \in {"close", "destroy"} /\ call[i].at = "egress" /\ outcome[i] # "none"
  /\ To(i, "done")
  /\ UNCHANGED <<switch, manager, podman, run, losses, calm>>
DestroyFails(i) ==
  /\ call[i].kind = "destroy" /\ call[i].at = "podman"
  /\ UNCHANGED <<conn, podman>> \/ Removed(call[i].sid)
  /\ To(i, "done")
  /\ UNCHANGED <<switch, status, worker, retry, run, losses, calm>>

-----------------------------------------------------------------------------
(* startRun: manager, status and worker are read before the snapshot.      *)
RunStart ==
  /\ status.state = "ready" /\ worker # 0
  /\ ~Busy /\ ~changingNetwork
  /\ run' = [at |-> "snapshot", conn |-> worker]
  /\ UNCHANGED <<switch, manager, call, podman, losses, calm>>

Snapshot ==
  /\ run.at = "snapshot"
  /\ run' = [run EXCEPT !.at = "live"]
  /\ UNCHANGED <<switch, manager, call, podman, losses, calm>>

(* The run is over; or none was begun, without a snapshot or its playbook. *)
RunEnds ==
  /\ Busy
  /\ run' = [at |-> "none", conn |-> 0]
  /\ UNCHANGED <<switch, manager, call, podman, losses, calm>>

(* The worker's supervisor loop, and the worker's death.                   *)
WorkerUp(s) ==
  /\ s \in box \ up
  /\ up' = up \cup {s}
  /\ UNCHANGED <<switch, manager, call, box, run, losses, calm>>

WorkerDies(s) ==
  /\ s \in up /\ losses < MaxLosses
  /\ up' = up \ {s} /\ losses' = losses + 1
  /\ BreakAll(s)
  /\ UNCHANGED <<switch, status, worker, retry, call, box, run, calm>>

SwitchTurns == Turns /\ UNCHANGED <<manager, call, podman, run, losses, calm>>

Answers(i) ==
  \/ EnsureRunning(i) \/ StartFails(i) \/ \E k \in Conns : StartReady(i, k)
  \/ NetworkSet(i) \/ Leave(i) \/ Destroy(i) \/ Destroyed(i)
  \/ StopFails(i) \/ DestroyFails(i)
Reconnects(k) == ReconnectFails(k) \/ \E j \in Conns : Reconnected(k, j)

Next ==
  \/ \E i \in Calls :
       \/ \E s \in Sessions, m \in Modes : SessionStart(i, s, m)
       \/ \E m \in Modes : StartRefused(i, m) \/ SessionNetwork(i, m)
       \/ \E kind \in {"close", "destroy"} : SessionStop(i, kind)
       \/ Answers(i)
  \/ \E k \in Conns : WorkerClosed(k) \/ Reconnects(k)
  \/ RunStart \/ Snapshot \/ RunEnds
  \/ \E s \in Sessions : WorkerUp(s) \/ WorkerDies(s)
  \/ SwitchTurns

Spec == Init /\ [][Next]_vars

-----------------------------------------------------------------------------
(* A session that is shown ready has a worker, and it is the worker of the *)
(* workspace shown, the only one the terminal hears: through deaths of the *)
(* worker, reconnects and network changes, as long as the commands come    *)
(* one at a time (terminal-session-manager.ts:88).                         *)
ReadyIsItsOwn ==
  /\ TypeOK
  /\ status.state = "ready" => worker # 0
  /\ calm /\ status.state = "ready" =>
       /\ conn[worker].sid = status.sid
       /\ \A k \in Conns : conn[k].fed /\ conn[k].at = "open" => k = worker

(* The network is never open wider than the window shows: what is served   *)
(* is the session shown, with the network shown open, whichever of the     *)
(* proxy, the container and the worker failed (ipc.ts:404).  A path that   *)
(* cannot be opened shows no session, and closes nothing.                  *)
NeverWiderThanShown ==
  calm /\ chain = <<>> /\ ~changingNetwork /\ served # None =>
    \/ status.sid = served /\ status.mode = "open"
    \/ status.sid = None /\ status.state = "error"
=============================================================================
