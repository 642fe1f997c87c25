---------------------------- MODULE SandboxProofs ----------------------------
(***************************************************************************)
(* TLAPS proofs about Sandbox, for any workspaces, calls, connections and  *)
(* losses.  What is true of every state (Queued, Held) is about the        *)
(* requests to the proxy and the manager's worker; the rest holds while    *)
(* the commands come one at a time: a command under way knows how far its  *)
(* request is (OneAtATime), and what the last request asks for is what the *)
(* window shows (ShownLast).                                               *)
(*                                                                         *)
(* And about the terminal's output (TerminalStream), for any limits, any   *)
(* output and any faults: the display in order (OrderInv), the credit that *)
(* returns (Credited) and the terminal that is paused (Paused).            *)
(***************************************************************************)
EXTENDS Sandbox, TerminalStream, SequenceTheorems, WellFoundedInduction, TLAPS

(* How a call has begun and is not over.                                   *)
Pending(i) == call[i].kind # "none" /\ call[i].at # "done"

LastAsk == chain[Len(chain)]
Final == IF chain = <<>> THEN served ELSE Target(LastAsk)
Asked(i) == IF call[i].kind = "network" /\ call[i].mode = "open" THEN status.sid ELSE None

(* Each call asks the proxy once.                                          *)
Queued ==
  /\ \A n \in DOMAIN chain : outcome[chain[n].call] = "none" /\ call[chain[n].call] # Unused
  /\ \A n, j \in DOMAIN chain : chain[n].call = chain[j].call => n = j
  /\ \A i \in Calls : call[i] = Unused => outcome[i] = "none"

(* What the manager refers to has been made.                               *)
Held ==
  /\ status.state = "ready" => worker # 0
  /\ worker # 0 => conn[worker].at # "unused"
  /\ \A k \in Conns : conn[k].at = "unused" => ~conn[k].fed /\ k \notin retry
  /\ \A i \in Calls : Pending(i) /\ call[i].kind = "start" => call[i].sid \in Sessions

OneAtATime ==
  /\ \A i, j \in Calls : Pending(i) /\ Pending(j) => i = j
  /\ \A i \in Calls : Pending(i) /\ call[i].kind = "start" =>
       /\ status = [state |-> "starting", sid |-> call[i].sid, mode |-> call[i].mode]
       /\ retry = {} /\ worker = 0
  /\ \A i \in Calls : Pending(i) /\ call[i].kind # "start" =>
       /\ outcome[i] = "none" => chain # <<>> /\ LastAsk.call = i /\ Target(LastAsk) = Asked(i)
       /\ outcome[i] # "none" => chain = <<>> /\ served = (IF outcome[i] = "ok" THEN Asked(i) ELSE None)

(* One lost connection at most is being replaced, and it is the session's. *)
Reconnecting ==
  /\ \A k \in retry : worker = 0 /\ status.state \in {"disconnected", "stopped"} /\ conn[k].sid = status.sid
  /\ \A j, k \in retry : j = k

Heard ==
  /\ status.state = "ready" => conn[worker].sid = status.sid
  /\ \A k \in Conns : conn[k].fed /\ conn[k].at = "open" => k = worker

ShownLast ==
  ~changingNetwork =>
    \/ Final = None
    \/ status.sid = Final /\ status.mode = "open"
    \/ status.sid = None /\ status.state = "error"

Calm == OneAtATime /\ Reconnecting /\ Heard /\ ShownLast
IInv == TypeOK /\ Queued /\ Held /\ (calm => Calm)

LEMMA IInvSafe == IInv => ReadyIsItsOwn /\ NeverWiderThanShown
BY DEF IInv, Held, Calm, Heard, ShownLast, Final, ReadyIsItsOwn, NeverWiderThanShown

LEMMA InitInv == Init => IInv
<1> SUFFICES ASSUME Init PROVE IInv
  OBVIOUS
<1>1. chain = <<>> /\ served = None /\ outcome = [i \in Calls |-> "none"]
  BY DEF Init, SwitchInit
<1>2. /\ call = [i \in Calls |-> Unused]
      /\ conn = [k \in Conns |-> [sid |-> None, fed |-> FALSE, at |-> "unused"]]
      /\ status = [state |-> "idle", sid |-> None, mode |-> "none"] /\ worker = 0 /\ retry = {}
      /\ box \subseteq Sessions /\ up = box /\ run = [at |-> "none", conn |-> 0] /\ losses = 0 /\ calm = TRUE
  BY DEF Init
<1>3. SwitchTypeOK
  BY <1>1 DEF SwitchTypeOK
<1>4. TypeOK
  BY <1>2, <1>3, SandboxAssumption DEF TypeOK, States, Modes, Unused
<1>5. Queued /\ Held
  BY <1>1, <1>2 DEF Queued, Held, Pending, Unused
<1>6. Calm
  BY <1>1, <1>2 DEF Calm, OneAtATime, Reconnecting, Heard, ShownLast, Final, Pending, Unused
<1> QED
  BY <1>4, <1>5, <1>6 DEF IInv

-----------------------------------------------------------------------------
(* The types.                                                              *)
StatusType == [state : States, sid : Sessions \cup {None}, mode : Modes]
ConnType == [sid : Sessions \cup {None}, fed : BOOLEAN, at : {"unused", "open", "broken", "closed"}]
CallType == [kind : {"none", "start", "network", "close", "destroy"},
             sid : Sessions \cup {None}, mode : Modes, at : {"unused", "podman", "wait", "egress", "done"}]

LEMMA Appended ==
  ASSUME NEW S, NEW q \in Seq(S), NEW l \in S
  PROVE  /\ Append(q, l) \in Seq(S) /\ Append(q, l) # <<>> /\ Len(Append(q, l)) = Len(q) + 1
         /\ Append(q, l)[Len(Append(q, l))] = l
         /\ \A n \in DOMAIN Append(q, l) :
              (n \in DOMAIN q /\ Append(q, l)[n] = q[n]) \/ n = Len(Append(q, l))
OBVIOUS

LEMMA Popped ==
  ASSUME NEW S, NEW q \in Seq(S), q # <<>>
  PROVE  /\ 1 \in DOMAIN q /\ Len(q) \in DOMAIN q /\ Head(q) \in S /\ Head(q) = q[1]
         /\ Tail(q) \in Seq(S) /\ Len(Tail(q)) = Len(q) - 1
         /\ \A n \in DOMAIN Tail(q) : n + 1 \in DOMAIN q /\ Tail(q)[n] = q[n + 1]
         /\ Len(q) = 1 => Tail(q) = <<>>
         /\ Len(q) # 1 => Tail(q) # <<>> /\ Tail(q)[Len(Tail(q))] = q[Len(q)]
<1>1. Len(q) \in Nat /\ Len(q) # 0 /\ q \in [1 .. Len(q) -> S]
  OBVIOUS
<1>2. Head(q) = q[1] /\ Tail(q) \in Seq(S) /\ Len(Tail(q)) = Len(q) - 1
  OBVIOUS
<1>3. \A n \in 1 .. Len(q) - 1 : Tail(q)[n] = q[n + 1]
  OBVIOUS
<1>4. 1 \in DOMAIN q /\ Len(q) \in DOMAIN q /\ Head(q) \in S
  BY <1>1, <1>2
<1>5. \A n \in DOMAIN Tail(q) : n + 1 \in DOMAIN q /\ Tail(q)[n] = q[n + 1]
  BY <1>1, <1>2, <1>3
<1>6. Len(q) = 1 => Tail(q) = <<>>
  <2>1. \A t \in Seq(S) : t # <<>> => Len(t) # 0
    BY EmptySeq
  <2> DEFINE t == Tail(q)
  <2>2. t \in Seq(S) /\ (Len(q) = 1 => Len(t) = 0)
    BY <1>1, <1>2
  <2> HIDE DEF t
  <2>3. Len(q) = 1 => t = <<>>
    BY <2>1, <2>2
  <2> QED
    BY <2>3 DEF t
<1>7. Len(q) # 1 => Tail(q) # <<>> /\ Tail(q)[Len(Tail(q))] = q[Len(q)]
  <2>1. Len(q) # 1 => Len(q) - 1 \in 1 .. Len(q) - 1
    BY <1>1
  <2>2. Len(q) # 1 => Tail(q) # <<>>
    BY <1>1, <1>2
  <2> QED
    BY <1>1, <1>2, <1>3, <2>1, <2>2
<1> QED
  BY <1>1, <1>2, <1>4, <1>5, <1>6, <1>7

LEMMA AskType ==
  ASSUME SwitchTypeOK, NEW i \in Calls, NEW s \in Sessions \cup {None}, NEW m \in Modes, Ask(i, s, m)
  PROVE  /\ SwitchTypeOK' /\ UNCHANGED <<outcome, served>>
         /\ chain' # <<>> /\ Len(chain') = Len(chain) + 1
         /\ chain'[Len(chain')] = [sid |-> s, mode |-> m, call |-> i]
         /\ \A n \in DOMAIN chain' : (n \in DOMAIN chain /\ chain'[n] = chain[n]) \/ n = Len(chain')
<1> DEFINE l == [sid |-> s, mode |-> m, call |-> i]
<1>1. l \in Link
  BY DEF Link
<1>2. chain' = Append(chain, l) /\ chain \in Seq(Link)
  BY DEF Ask, SwitchTypeOK
<1> HIDE DEF l
<1>3. /\ chain' \in Seq(Link) /\ chain' # <<>> /\ Len(chain') = Len(chain) + 1 /\ chain'[Len(chain')] = l
      /\ \A n \in DOMAIN chain' : (n \in DOMAIN chain /\ chain'[n] = chain[n]) \/ n = Len(chain')
  BY <1>1, <1>2, Appended
<1> QED
  BY <1>3 DEF Ask, SwitchTypeOK, l

LEMMA TurnsType == ASSUME SwitchTypeOK, Turns PROVE SwitchTypeOK'
<1>1. CASE Off
  BY <1>1 DEF Off, SwitchTypeOK
<1>2. ASSUME NEW how \in {"ok", "failed"}, Resolve(how), chain # <<>>, served' \in Sessions \cup {None}
      PROVE  SwitchTypeOK'
  BY <1>2, Popped DEF Resolve, SwitchTypeOK
<1>3. ASSUME chain # <<>> PROVE Target(Head(chain)) \in Sessions \cup {None}
  <2>1. Head(chain) \in Link
    BY <1>3, Popped DEF SwitchTypeOK
  <2> QED
    BY <2>1 DEF Link, Target
<1>4. CASE Turned
  BY <1>2, <1>3, <1>4 DEF Turned
<1>5. CASE Fails
  BY <1>2, <1>5 DEF Fails, SwitchTypeOK
<1> QED
  BY <1>1, <1>4, <1>5 DEF Turns


LEMMA ConnTypes ==
  ASSUME TypeOK
  PROVE  /\ Detached \in [Conns -> ConnType]
         /\ \A k \in Conns, s \in Sessions \cup {None}, fed \in BOOLEAN :
              NewConn(k, s, fed) => conn' \in [Conns -> ConnType]
         /\ \A s : BreakAll(s) => conn' \in [Conns -> ConnType]
         /\ \A k \in Conns : [conn EXCEPT ![k].at = "closed"] \in [Conns -> ConnType]
<1>0. conn \in [Conns -> ConnType]
  BY DEF TypeOK, ConnType
<1>1. \A k \in Conns : conn[k] \in ConnType
  BY <1>0
<1>2. \A x \in ConnType, at \in {"unused", "open", "broken", "closed"} :
        /\ [x EXCEPT !.at = at] \in ConnType
        /\ [x EXCEPT !.fed = FALSE, !.at = at] \in ConnType
        /\ x.at \in {"unused", "open", "broken", "closed"}
  BY DEF ConnType
<1>3. Detached \in [Conns -> ConnType]
  BY <1>1, <1>2 DEF Detached
<1>4. \A k \in Conns, s \in Sessions \cup {None}, fed \in BOOLEAN :
        NewConn(k, s, fed) => conn' \in [Conns -> ConnType]
  <2> SUFFICES ASSUME NEW k \in Conns, NEW s \in Sessions \cup {None}, NEW fed \in BOOLEAN, NewConn(k, s, fed)
               PROVE  conn' \in [Conns -> ConnType]
    OBVIOUS
  <2>1. [sid |-> s, fed |-> fed, at |-> IF fed THEN "open" ELSE "closed"] \in ConnType
    BY DEF ConnType
  <2> QED
    BY <1>1, <1>2, <2>1 DEF NewConn, Accepted
<1>5. \A s : BreakAll(s) => conn' \in [Conns -> ConnType]
  BY <1>1, <1>2 DEF BreakAll
<1>6. \A k \in Conns : [conn EXCEPT ![k].at = "closed"] \in [Conns -> ConnType]
  BY <1>0, <1>1, <1>2
<1> QED
  BY <1>3, <1>4, <1>5, <1>6

LEMMA CallTypes ==
  ASSUME TypeOK, NEW i \in Calls
  PROVE  /\ call \in [Calls -> CallType] /\ call[i] \in CallType
         /\ \A at \in {"podman", "wait", "egress", "done"} : To(i, at) => call' \in [Calls -> CallType]
         /\ \A kind \in {"start", "network", "close", "destroy"}, s \in Sessions \cup {None}, m \in Modes,
               at \in {"podman", "egress", "done"} :
              Open(i, kind, s, m, at) =>
                call' \in [Calls -> CallType] /\ call'[i] = [kind |-> kind, sid |-> s, mode |-> m, at |-> at]
                /\ \A j \in Calls : j # i => call'[j] = call[j]
<1>0. call \in [Calls -> CallType] /\ call[i] \in CallType
  BY DEF TypeOK, CallType
<1>1. \A at \in {"podman", "wait", "egress", "done"} : [call[i] EXCEPT !.at = at] \in CallType
  BY <1>0 DEF CallType
<1>2. \A at \in {"podman", "wait", "egress", "done"} : To(i, at) => call' \in [Calls -> CallType]
  BY <1>0, <1>1 DEF To
<1>3. \A kind \in {"start", "network", "close", "destroy"}, s \in Sessions \cup {None}, m \in Modes,
        at \in {"podman", "egress", "done"} : [kind |-> kind, sid |-> s, mode |-> m, at |-> at] \in CallType
  BY DEF CallType
<1> QED
  BY <1>0, <1>2, <1>3 DEF Open

LEMMA TypeBy ==
  TypeOK <=>
    /\ SwitchTypeOK /\ status \in StatusType /\ worker \in Conns \cup {0}
    /\ conn \in [Conns -> ConnType] /\ call \in [Calls -> CallType] /\ retry \subseteq Conns
    /\ box \subseteq Sessions /\ up \subseteq box
    /\ run \in [at : {"none", "snapshot", "live"}, conn : Conns \cup {0}]
    /\ losses \in 0 .. MaxLosses /\ calm \in BOOLEAN
BY DEF TypeOK, StatusType, ConnType, CallType

LEMMA TypeByThen ==
  ASSUME SwitchTypeOK', status' \in StatusType, worker' \in Conns \cup {0},
         conn' \in [Conns -> ConnType], call' \in [Calls -> CallType], retry' \subseteq Conns,
         box' \subseteq Sessions, up' \subseteq box',
         run' \in [at : {"none", "snapshot", "live"}, conn : Conns \cup {0}],
         losses' \in 0 .. MaxLosses, calm' \in BOOLEAN
  PROVE  TypeOK'
BY DEF TypeOK, StatusType, ConnType, CallType


-----------------------------------------------------------------------------
(* The requests to the proxy.                                              *)

LEMMA Elements == ASSUME NEW S, NEW q \in Seq(S), NEW n \in DOMAIN q PROVE q[n] \in S
OBVIOUS

LEMMA Callers ==
  ASSUME SwitchTypeOK
  PROVE  chain \in Seq(Link) /\ \A n \in DOMAIN chain : chain[n].call \in Calls
<1>1. chain \in Seq(Link)
  BY DEF SwitchTypeOK
<1>2. \A n \in DOMAIN chain : chain[n] \in Link
  BY <1>1, Elements
<1>3. \A x \in Link : x.call \in Calls
  BY DEF Link
<1> QED
  BY <1>1, <1>2, <1>3

LEMMA QueuedAsks ==
  ASSUME SwitchTypeOK, Queued, NEW i \in Calls, NEW s \in Sessions \cup {None}, NEW m \in Modes,
         Ask(i, s, m), call[i] = Unused, call'[i] # Unused, \A j \in Calls : j # i => call'[j] = call[j]
  PROVE  Queued'
<1>1. \A n \in DOMAIN chain : chain[n].call \in Calls /\ chain[n].call # i
  BY Callers DEF Queued
<1>2. chain'[Len(chain')] = [sid |-> s, mode |-> m, call |-> i]
  BY AskType
<1>3. chain'[Len(chain')].call = i /\ outcome' = outcome
  BY <1>2, AskType
<1>4. \A n \in DOMAIN chain' : (n \in DOMAIN chain /\ chain'[n] = chain[n]) \/ n = Len(chain')
  BY AskType
<1>5. outcome[i] = "none"
  BY DEF Queued
<1>6. ASSUME NEW n \in DOMAIN chain' PROVE outcome'[chain'[n].call] = "none" /\ call'[chain'[n].call] # Unused
  <2>1. CASE n = Len(chain')
    BY <1>3, <1>5, <2>1
  <2>2. CASE n \in DOMAIN chain /\ chain'[n] = chain[n]
    BY <1>1, <1>3, <2>2 DEF Queued
  <2> QED
    BY <1>4, <2>1, <2>2
<1>7. \A n, j \in DOMAIN chain' : chain'[n].call = chain'[j].call => n = j
  BY <1>1, <1>3, <1>4 DEF Queued
<1>8. \A j \in Calls : call'[j] = Unused => outcome'[j] = "none"
  BY <1>3 DEF Queued
<1> QED
  BY <1>6, <1>7, <1>8 DEF Queued, Unused

LEMMA QueuedStays ==
  ASSUME SwitchTypeOK, Queued, UNCHANGED switch, \A j \in Calls : call'[j] = Unused => call[j] = Unused
  PROVE  Queued'
<1>1. \A n \in DOMAIN chain : chain[n].call \in Calls
  BY Callers
<1>2. chain' = chain /\ outcome' = outcome
  BY DEF switch
<1>3. \A n \in DOMAIN chain : outcome[chain[n].call] = "none" /\ call'[chain[n].call] # Unused
  BY <1>1 DEF Queued
<1>4. \A n, j \in DOMAIN chain : chain[n].call = chain[j].call => n = j
  BY DEF Queued
<1>5. \A i \in Calls : call'[i] = Unused => outcome[i] = "none"
  BY DEF Queued
<1> QED
  BY <1>2, <1>3, <1>4, <1>5 DEF Queued, Unused

(* What a request under way is resolved with.                              *)
LEMMA QueuedTurns ==
  ASSUME SwitchTypeOK, Queued, Turns, UNCHANGED call
  PROVE  /\ Queued'
         /\ \A i \in Calls : outcome'[i] = "none" => outcome[i] = "none"
         /\ chain = <<>> => chain' = <<>>
         /\ \A i \in Calls : outcome[i] = "none" /\ chain # <<>> /\ LastAsk.call = i =>
              \/ outcome'[i] = "none" /\ chain' # <<>> /\ LastAsk' = LastAsk
              \/ outcome'[i] = "ok" /\ chain' = <<>> /\ served' = Target(LastAsk)
              \/ outcome'[i] = "failed" /\ chain' = <<>> /\ served' = None
         /\ Final' \in {None, Final}
<1>0. SwitchTypeOK /\ chain \in Seq(Link) /\ outcome \in [Calls -> {"none", "ok", "failed"}]
      /\ \A n \in DOMAIN chain : chain[n].call \in Calls
  BY Callers DEF SwitchTypeOK
<1>1. CASE Off
  <2>1. UNCHANGED <<chain, outcome>> /\ chain # <<>> /\ served' = None
    BY <1>1 DEF Off
  <2> QED
    BY <2>1 DEF Queued, Unused, LastAsk, Final
<1>2. ASSUME NEW how \in {"ok", "failed"}, Resolve(how), chain # <<>>,
             \/ how = "ok" /\ served' = Target(Head(chain))
             \/ how = "failed" /\ served' = None
      PROVE  /\ Queued'
             /\ \A i \in Calls : outcome'[i] = "none" => outcome[i] = "none"
             /\ \A i \in Calls : outcome[i] = "none" /\ chain # <<>> /\ LastAsk.call = i =>
                  \/ outcome'[i] = "none" /\ chain' # <<>> /\ LastAsk' = LastAsk
                  \/ outcome'[i] = "ok" /\ chain' = <<>> /\ served' = Target(LastAsk)
                  \/ outcome'[i] = "failed" /\ chain' = <<>> /\ served' = None
             /\ Final' \in {None, Final}
    <2> DEFINE h == Head(chain).call
    <2>1. /\ 1 \in DOMAIN chain /\ Len(chain) \in DOMAIN chain /\ Head(chain) = chain[1]
          /\ Tail(chain) \in Seq(Link) /\ Len(Tail(chain)) = Len(chain) - 1
          /\ \A n \in DOMAIN Tail(chain) : n + 1 \in DOMAIN chain /\ Tail(chain)[n] = chain[n + 1]
          /\ Len(chain) = 1 => Tail(chain) = <<>>
          /\ Len(chain) # 1 => Tail(chain) # <<>> /\ Tail(chain)[Len(Tail(chain))] = chain[Len(chain)]
      BY <1>0, <1>2, Popped
    <2>2. /\ h \in Calls /\ h = chain[1].call /\ chain' = Tail(chain) /\ outcome' = [outcome EXCEPT ![h] = how]
          /\ outcome[h] = "none" /\ call[h] # Unused
      BY <1>0, <1>2, <2>1 DEF Resolve, Queued
    <2> HIDE DEF h
    <2>3. \A n \in DOMAIN chain' : n + 1 \in DOMAIN chain /\ chain'[n] = chain[n + 1] /\ chain'[n].call # h /\ n \in Nat
      <3>1. \A n \in DOMAIN chain' : n \in 1 .. Len(Tail(chain))
        BY <2>1, <2>2
      <3>2. \A n \in DOMAIN chain' : n + 1 \in DOMAIN chain /\ chain'[n] = chain[n + 1] /\ n \in Nat /\ n + 1 # 1
        BY <2>1, <2>2, <3>1
      <3>3. \A n \in DOMAIN chain : chain[n].call = h => n = 1
        BY <2>1, <2>2 DEF Queued
      <3> QED
        BY <3>2, <3>3
    <2>4. Queued'
      <3>1. \A n \in DOMAIN chain' : chain'[n].call \in Calls
        BY <1>0, <2>3
      <3>2. \A n \in DOMAIN chain' : outcome'[chain'[n].call] = "none" /\ call'[chain'[n].call] # Unused
        BY <1>0, <2>2, <2>3, <3>1 DEF Queued
      <3>3. \A n, j \in DOMAIN chain' : chain'[n].call = chain'[j].call => n = j
        BY <2>3 DEF Queued
      <3>4. \A i \in Calls : call'[i] = Unused => outcome'[i] = "none"
        BY <1>0, <2>2 DEF Queued
      <3> QED
        BY <3>2, <3>3, <3>4 DEF Queued
    <2>5. \A i \in Calls : outcome'[i] = "none" => outcome[i] = "none"
      BY <1>0, <1>2, <2>2
    <2>6. CASE Len(chain) = 1
      <3>1. chain' = <<>> /\ LastAsk = Head(chain) /\ LastAsk.call = h
        BY <2>1, <2>2, <2>6 DEF LastAsk
      <3> QED
        BY <1>0, <1>2, <2>2, <2>4, <2>5, <3>1 DEF Final
    <2>7. CASE Len(chain) # 1
      <3>1. chain' # <<>> /\ LastAsk' = LastAsk
        BY <2>1, <2>2, <2>7 DEF LastAsk
      <3>2. LastAsk.call # h
        BY <2>1, <2>2, <2>7 DEF LastAsk, Queued
      <3> QED
        BY <1>0, <1>2, <2>2, <2>4, <2>5, <3>1, <3>2 DEF Final
    <2> QED
      BY <2>6, <2>7
<1>3. CASE Turned
  BY <1>2, <1>3 DEF Turned
<1>4. CASE Fails
  BY <1>2, <1>4 DEF Fails
<1> QED
  BY <1>1, <1>3, <1>4 DEF Turns, Turned, Fails, Off

-----------------------------------------------------------------------------
(* What an action does to the connections and the calls.                   *)
LEMMA DetachedIs ==
  ASSUME TypeOK, Held, conn' = Detached, NEW k \in Conns
  PROVE  /\ conn'[k].sid = conn[k].sid /\ ~conn'[k].fed
         /\ conn'[k].at = "unused" => conn[k].at = "unused"
<1>1. conn[k] \in ConnType
  BY TypeBy
<1>2. conn'[k] = [conn[k] EXCEPT !.fed = FALSE, !.at = IF k = worker THEN "closed" ELSE @]
  BY DEF Detached
<1> QED
  BY <1>1, <1>2 DEF ConnType

LEMMA AcceptedIs ==
  ASSUME TypeOK, NEW k \in Conns, NEW s, NEW fed \in BOOLEAN, NewConn(k, s, fed)
  PROVE  /\ conn[k].at = "unused"
         /\ conn'[k] = [sid |-> s, fed |-> fed, at |-> IF fed THEN "open" ELSE "closed"]
         /\ \A j \in Conns : j # k =>
              /\ conn'[j].sid = conn[j].sid /\ conn'[j].fed = conn[j].fed
              /\ conn'[j].at = conn[j].at \/ (conn'[j].at = "broken" /\ conn[j].at = "open")
<1>1. \A j \in Conns : conn[j] \in ConnType
  BY TypeBy
<1>2. \A x \in ConnType : [x EXCEPT !.at = "broken"].sid = x.sid /\ [x EXCEPT !.at = "broken"].fed = x.fed
                         /\ [x EXCEPT !.at = "broken"].at = "broken"
  BY DEF ConnType
<1>3. conn[k].at = "unused" /\ Accepted(k, s, fed)
  BY DEF NewConn
<1>4. conn'[k] = [sid |-> s, fed |-> fed, at |-> IF fed THEN "open" ELSE "closed"]
  BY <1>3 DEF Accepted
<1>5. \A j \in Conns : j # k =>
        conn'[j] = conn[j] \/ (conn[j].at = "open" /\ conn'[j] = [conn[j] EXCEPT !.at = "broken"])
  BY <1>3 DEF Accepted
<1>6. ASSUME NEW j \in Conns, j # k
      PROVE  /\ conn'[j].sid = conn[j].sid /\ conn'[j].fed = conn[j].fed
             /\ conn'[j].at = conn[j].at \/ (conn'[j].at = "broken" /\ conn[j].at = "open")
  <2>1. conn[j] \in ConnType
    BY <1>1
  <2> QED
    BY <1>2, <1>5, <1>6, <2>1
<1> QED
  BY <1>3, <1>4, <1>6

LEMMA BrokenIs ==
  ASSUME TypeOK, NEW s, BreakAll(s), NEW k \in Conns
  PROVE  /\ conn'[k].sid = conn[k].sid /\ conn'[k].fed = conn[k].fed
         /\ conn'[k].at = conn[k].at \/ (conn'[k].at = "broken" /\ conn[k].at = "open")
<1>1. conn[k] \in ConnType
  BY TypeBy
<1>2. \/ conn'[k] = conn[k]
      \/ conn[k].at = "open" /\ conn'[k] = [conn[k] EXCEPT !.at = "broken"]
  BY DEF BreakAll
<1> QED
  BY <1>1, <1>2 DEF ConnType

LEMMA ToIs ==
  ASSUME TypeOK, NEW i \in Calls, NEW at, To(i, at)
  PROVE  /\ call'[i].kind = call[i].kind /\ call'[i].sid = call[i].sid
         /\ call'[i].mode = call[i].mode /\ call'[i].at = at
         /\ \A j \in Calls : j # i => call'[j] = call[j]
<1>1. call \in [Calls -> CallType] /\ call[i] \in CallType
  BY CallTypes
<1>2. call'[i] = [call[i] EXCEPT !.at = at] /\ \A j \in Calls : j # i => call'[j] = call[j]
  BY <1>1 DEF To
<1> QED
  BY <1>1, <1>2 DEF CallType

(* A command that begins is the only one under way, one that ends was.     *)
LEMMA Begins ==
  ASSUME TypeOK, Quiet, NEW i \in Calls, \A j \in Calls : j # i => call'[j] = call[j]
  PROVE  retry = {} /\ \A j \in Calls : ~Pending(j) /\ (Pending(j)' => j = i)
<1>1. \A j \in Calls : call[j].kind \in {"none", "start", "network", "close", "destroy"}
  BY DEF TypeOK
<1>2. retry = {} /\ \A j \in Calls : ~Pending(j)
  BY <1>1 DEF Quiet, InFlight, Pending
<1> QED
  BY <1>2 DEF Pending

LEMMA Ends ==
  ASSUME TypeOK, OneAtATime, NEW i \in Calls, Pending(i), To(i, "done")
  PROVE  OneAtATime'
<1>1. \A j \in Calls : ~Pending(j)'
  BY ToIs DEF OneAtATime, Pending
<1> QED
  BY <1>1 DEF OneAtATime

(* A step that neither shows nor asks for anything new.                    *)
LEMMA Kept ==
  ASSUME IInv, TypeOK', UNCHANGED <<switch, status, worker, retry, calm>>,
         \A j \in Calls :
           /\ call'[j].kind = call[j].kind /\ call'[j].sid = call[j].sid /\ call'[j].mode = call[j].mode
           /\ (call'[j].at = "done") <=> (call[j].at = "done")
           /\ call'[j] = Unused => call[j] = Unused,
         \A k \in Conns :
           /\ conn'[k].sid = conn[k].sid /\ conn'[k].fed = conn[k].fed
           /\ conn'[k].at = conn[k].at \/ (conn'[k].at \in {"broken", "closed"} /\ conn[k].at # "unused")
  PROVE  IInv'
<1>0. /\ chain' = chain /\ outcome' = outcome /\ served' = served
      /\ status' = status /\ worker' = worker /\ retry' = retry /\ calm' = calm
  BY DEF switch
<1>1. SwitchTypeOK /\ worker \in Conns \cup {0} /\ retry \subseteq Conns /\ Queued /\ Held
  BY TypeBy DEF IInv
<1>2. Queued'
  BY <1>1, QueuedStays
<1>3. \A j \in Calls : Pending(j)' <=> Pending(j)
  BY DEF Pending
<1>4. Held'
  BY <1>0, <1>1, <1>3 DEF Held
<1>5. ASSUME calm' PROVE Calm'
  <2>1. Calm
    BY <1>0, <1>5 DEF IInv
  <2>2. OneAtATime'
    BY <1>0, <1>3, <2>1 DEF Calm, OneAtATime, LastAsk, Asked
  <2>3. Reconnecting'
    BY <1>0, <1>1, <2>1 DEF Calm, Reconnecting
  <2>4. Heard'
    BY <1>0, <1>1, <2>1 DEF Calm, Heard, Held
  <2>5. ShownLast'
    BY <1>0, <2>1 DEF Calm, ShownLast, Final, LastAsk, changingNetwork, InFlight
  <2> QED
    BY <2>2, <2>3, <2>4, <2>5 DEF Calm
<1> QED
  BY <1>2, <1>4, <1>5 DEF IInv

-----------------------------------------------------------------------------
(* The actions.                                                            *)
LEMMA Known ==
  ASSUME IInv
  PROVE  /\ TypeOK /\ Queued /\ Held /\ SwitchTypeOK /\ (calm => Calm) /\ calm \in BOOLEAN
         /\ status \in StatusType /\ worker \in Conns \cup {0} /\ retry \subseteq Conns
         /\ conn \in [Conns -> ConnType] /\ call \in [Calls -> CallType]
         /\ box \subseteq Sessions /\ up \subseteq box
         /\ run \in [at : {"none", "snapshot", "live"}, conn : Conns \cup {0}] /\ losses \in 0 .. MaxLosses
         /\ status.sid \in Sessions \cup {None} /\ status.mode \in Modes /\ status.state \in States
         /\ \A i \in Calls : call[i].sid \in Sessions \cup {None} /\ call[i].mode \in Modes
         /\ \A k \in Conns : k # 0 /\ conn[k].sid \in Sessions \cup {None}
<1>1. TypeOK
  BY DEF IInv
<1>2. status.sid \in Sessions \cup {None} /\ status.mode \in Modes /\ status.state \in States
  BY <1>1 DEF TypeOK
<1>3. \A i \in Calls : call[i].sid \in Sessions \cup {None} /\ call[i].mode \in Modes
  BY <1>1 DEF TypeOK
<1>4. \A k \in Conns : k # 0 /\ conn[k].sid \in Sessions \cup {None}
  BY <1>1, SandboxAssumption DEF TypeOK
<1> QED
  BY <1>1, <1>2, <1>3, <1>4, TypeBy DEF IInv

LEMMA Shown ==
  ASSUME NEW st \in States, NEW s \in Sessions \cup {None}, NEW m \in Modes
  PROVE  /\ [state |-> st, sid |-> s, mode |-> m] \in StatusType
         /\ \A x \in StatusType : [x EXCEPT !.state = st] \in StatusType /\ [x EXCEPT !.mode = m] \in StatusType
BY DEF StatusType

LEMMA ShowsIs ==
  ASSUME status \in StatusType, NEW st \in States, Shows(st)
  PROVE  /\ status' \in StatusType /\ status'.state = st
         /\ status'.sid = status.sid /\ status'.mode = status.mode
BY DEF StatusType, Shows

LEMMA StartInv ==
  ASSUME IInv, NEW i \in Calls, NEW s \in Sessions, NEW m \in Modes, SessionStart(i, s, m)
  PROVE  IInv'
<1>1. /\ ~Busy /\ ~changingNetwork /\ Open(i, "start", s, m, "podman")
      /\ conn' = Detached /\ worker' = 0 /\ status' = [state |-> "starting", sid |-> s, mode |-> m]
      /\ Ask(i, s, m) /\ retry' = retry /\ box' = box /\ up' = up /\ run' = run /\ losses' = losses
  BY DEF SessionStart, Detach, podman
<1>2. calm' \in BOOLEAN /\ (calm' => calm /\ Quiet)
  BY Known, Zenon DEF SessionStart
<1>3. /\ call' \in [Calls -> CallType] /\ call'[i] = [kind |-> "start", sid |-> s, mode |-> m, at |-> "podman"]
      /\ \A j \in Calls : j # i => call'[j] = call[j]
  BY <1>1, Known, CallTypes
<1>4. /\ call'[i].kind = "start" /\ call'[i].sid = s /\ call'[i].mode = m /\ call'[i].at = "podman"
      /\ status'.state = "starting" /\ status'.sid = s /\ status'.mode = m
      /\ call[i] = Unused /\ call'[i] # Unused
  BY <1>1, <1>3 DEF Open, Unused
<1>5. TypeOK'
  <2>1. SwitchTypeOK'
    BY <1>1, Known, AskType
  <2>2. status' \in StatusType
    BY <1>1, Shown DEF States
  <2>3. conn' \in [Conns -> ConnType]
    BY <1>1, Known, ConnTypes
  <2> QED
    BY <1>1, <1>2, <1>3, <2>1, <2>2, <2>3, Known, TypeByThen
<1>6. Queued'
  BY <1>1, <1>3, <1>4, Known, QueuedAsks
<1>7. Held'
  <2>1. \A k \in Conns : conn'[k].at = "unused" => ~conn'[k].fed /\ k \notin retry'
    BY <1>1, Known, DetachedIs DEF Held
  <2>2. \A j \in Calls : Pending(j)' /\ call'[j].kind = "start" => call'[j].sid \in Sessions
    BY <1>3, <1>4, Known DEF Held, Pending
  <2> QED
    BY <1>1, <1>4, <2>1, <2>2 DEF Held
<1>8. ASSUME calm' PROVE Calm'
  <2>1. retry = {} /\ \A j \in Calls : ~Pending(j) /\ (Pending(j)' => j = i)
    BY <1>2, <1>3, <1>8, Known, Begins
  <2>2. OneAtATime'
    BY <1>1, <1>4, <2>1 DEF OneAtATime
  <2>3. Reconnecting'
    BY <1>1, <2>1 DEF Reconnecting
  <2>4. Heard'
    BY <1>1, <1>4, Known, DetachedIs DEF Heard
  <2>5. Final' = Target([sid |-> s, mode |-> m, call |-> i])
    <3>1. chain' # <<>> /\ LastAsk' = [sid |-> s, mode |-> m, call |-> i]
      BY <1>1, Known, AskType DEF LastAsk
    <3> QED
      BY <3>1 DEF Final, Target
  <2>6. ShownLast'
    BY <1>4, <2>5 DEF ShownLast, Target
  <2> QED
    BY <2>2, <2>3, <2>4, <2>6 DEF Calm
<1> QED
  BY <1>5, <1>6, <1>7, <1>8 DEF IInv

LEMMA RefusedInv ==
  ASSUME IInv, NEW i \in Calls, NEW m \in Modes, StartRefused(i, m)
  PROVE  IInv'
<1>1. /\ Open(i, "start", None, m, "done") /\ status' = [state |-> "error", sid |-> None, mode |-> m]
      /\ conn' = conn /\ worker' = worker /\ retry' = retry
      /\ chain' = chain /\ outcome' = outcome /\ served' = served
      /\ box' = box /\ up' = up /\ run' = run /\ losses' = losses
  BY DEF StartRefused, podman, switch
<1>2. calm' \in BOOLEAN /\ (calm' => calm /\ Quiet)
  BY Known, Zenon DEF StartRefused
<1>3. /\ call' \in [Calls -> CallType] /\ call'[i] = [kind |-> "start", sid |-> None, mode |-> m, at |-> "done"]
      /\ \A j \in Calls : j # i => call'[j] = call[j]
  BY <1>1, Known, CallTypes
<1>4. /\ call'[i].at = "done" /\ call'[i] # Unused
      /\ status'.state = "error" /\ status'.sid = None
  BY <1>1, <1>3 DEF Unused
<1>5. TypeOK'
  <2>1. SwitchTypeOK'
    BY <1>1, Known DEF SwitchTypeOK
  <2>2. status' \in StatusType
    BY <1>1, Shown DEF States
  <2> QED
    BY <1>1, <1>2, <1>3, <2>1, <2>2, Known, TypeByThen
<1>6. Queued'
  BY <1>1, <1>3, <1>4, Known, QueuedStays DEF switch
<1>7. Held'
  BY <1>1, <1>3, <1>4, Known DEF Held, Pending
<1>8. ASSUME calm' PROVE Calm'
  <2>1. retry = {} /\ \A j \in Calls : ~Pending(j)'
    BY <1>2, <1>3, <1>4, <1>8, Known, Begins DEF Pending
  <2> QED
    BY <1>1, <1>2, <1>4, <1>8, <2>1, Known DEF Calm, OneAtATime, Reconnecting, Heard, ShownLast
<1> QED
  BY <1>5, <1>6, <1>7, <1>8 DEF IInv

LEMMA EnsureInv ==
  ASSUME IInv, NEW i \in Calls, EnsureRunning(i)
  PROVE  IInv'
<1>1. /\ call[i].kind = "start" /\ call[i].at = "podman" /\ To(i, "wait") /\ box' = box \cup {call[i].sid}
      /\ UNCHANGED <<switch, status, worker, retry, calm>> /\ conn' = conn
      /\ up' = up /\ run' = run /\ losses' = losses
      /\ chain' = chain /\ outcome' = outcome /\ served' = served
  BY DEF EnsureRunning, Runs, manager, switch
<1>2. call[i].sid \in Sessions
  BY <1>1, Known DEF Held, Pending
<1>3. /\ \A j \in Calls :
           /\ call'[j].kind = call[j].kind /\ call'[j].sid = call[j].sid /\ call'[j].mode = call[j].mode
           /\ (call'[j].at = "done") <=> (call[j].at = "done")
           /\ call'[j] = Unused => call[j] = Unused
  BY <1>1, Known, ToIs DEF Unused
<1>4. TypeOK'
  <2>1. SwitchTypeOK'
    BY <1>1, Known DEF SwitchTypeOK
  <2>2. call' \in [Calls -> CallType]
    BY <1>1, Known, CallTypes
  <2>3. box' \subseteq Sessions /\ up' \subseteq box'
    BY <1>1, <1>2, Known
  <2> QED
    BY <1>1, <2>1, <2>2, <2>3, Known, TypeByThen
<1> QED
  BY <1>1, <1>3, <1>4, Kept

LEMMA FailsInv ==
  ASSUME IInv, NEW i \in Calls, StartFails(i)
  PROVE  IInv'
<1>1. /\ call[i].kind = "start" /\ call[i].at \in {"podman", "wait"} /\ To(i, "done")
      /\ status' = [state |-> "error", sid |-> call[i].sid, mode |-> call[i].mode]
      /\ conn' = conn /\ worker' = worker /\ retry' = retry /\ calm' = calm
      /\ chain' = chain /\ outcome' = outcome /\ served' = served
      /\ box' = box /\ up' = up /\ run' = run /\ losses' = losses
  BY DEF StartFails, Base, podman, switch
<1>2. /\ call'[i].kind = "start" /\ call'[i].at = "done" /\ call'[i].sid = call[i].sid
      /\ \A j \in Calls : j # i => call'[j] = call[j]
  BY <1>1, Known, ToIs
<1>3. Pending(i)
  BY <1>1 DEF Pending
<1>4. TypeOK'
  <2>1. SwitchTypeOK'
    BY <1>1, Known DEF SwitchTypeOK
  <2>2. status' \in StatusType
    BY <1>1, Known, Shown DEF States
  <2>3. call' \in [Calls -> CallType]
    BY <1>1, Known, CallTypes
  <2> QED
    BY <1>1, <2>1, <2>2, <2>3, Known, TypeByThen
<1>5. Queued'
  BY <1>1, <1>2, Known, QueuedStays DEF switch, Unused
<1>6. Held'
  BY <1>1, <1>2, Known DEF Held, Pending
<1>7. ASSUME calm' PROVE Calm'
  <2>1. Calm
    BY <1>1, <1>7, Known
  <2>2. OneAtATime'
    BY <1>1, <1>3, <2>1, Known, Ends DEF Calm
  <2>3. /\ status = [state |-> "starting", sid |-> call[i].sid, mode |-> call[i].mode] /\ retry = {}
        /\ \A j \in Calls : Pending(j) => j = i
    BY <1>1, <1>3, <2>1 DEF Calm, OneAtATime
  <2>4. Reconnecting' /\ Heard'
    BY <1>1, <2>1, <2>3 DEF Calm, Reconnecting, Heard
  <2>5. ~changingNetwork
    BY <1>1, <2>3 DEF changingNetwork, InFlight, Pending
  <2>6. Final' = Final
    BY <1>1 DEF Final, LastAsk
  <2>7. Final = None \/ (status'.sid = Final /\ status'.mode = "open")
    BY <1>1, <2>1, <2>3, <2>5 DEF Calm, ShownLast
  <2>8. ShownLast'
    BY <2>6, <2>7 DEF ShownLast
  <2> QED
    BY <2>2, <2>4, <2>8 DEF Calm
<1> QED
  BY <1>4, <1>5, <1>6, <1>7 DEF IInv

LEMMA ReadyInv ==
  ASSUME IInv, NEW i \in Calls, NEW k \in Conns, StartReady(i, k)
  PROVE  IInv'
<1>1. /\ call[i].kind = "start" /\ call[i].at = "wait" /\ To(i, "done") /\ NewConn(k, call[i].sid, TRUE)
      /\ status' = [state |-> "ready", sid |-> call[i].sid, mode |-> call[i].mode]
      /\ worker' = k /\ retry' = retry /\ calm' = calm
      /\ chain' = chain /\ outcome' = outcome /\ served' = served
      /\ box' = box /\ up' = up /\ run' = run /\ losses' = losses
  BY DEF StartReady, Base, Bind, podman, switch
<1>2. /\ call'[i].kind = "start" /\ call'[i].at = "done" /\ call'[i].sid = call[i].sid
      /\ \A j \in Calls : j # i => call'[j] = call[j]
  BY <1>1, Known, ToIs
<1>3. Pending(i) /\ k # 0
  BY <1>1, Known DEF Pending
<1>4. /\ conn[k].at = "unused" /\ conn'[k].sid = call[i].sid /\ conn'[k].at = "open"
      /\ \A j \in Conns : j # k =>
           /\ conn'[j].sid = conn[j].sid /\ conn'[j].fed = conn[j].fed
           /\ conn'[j].at = conn[j].at \/ (conn'[j].at = "broken" /\ conn[j].at = "open")
  <2> DEFINE w == call[i].sid
  <2>1. TypeOK /\ NewConn(k, w, TRUE)
    BY <1>1, Known
  <2> HIDE DEF w
  <2>2. /\ conn[k].at = "unused" /\ conn'[k] = [sid |-> w, fed |-> TRUE, at |-> "open"]
        /\ \A j \in Conns : j # k =>
             /\ conn'[j].sid = conn[j].sid /\ conn'[j].fed = conn[j].fed
             /\ conn'[j].at = conn[j].at \/ (conn'[j].at = "broken" /\ conn[j].at = "open")
    BY <2>1, AcceptedIs
  <2> QED
    BY <2>2 DEF w
<1>5. TypeOK'
  <2>1. SwitchTypeOK'
    BY <1>1, Known DEF SwitchTypeOK
  <2>2. status' \in StatusType
    BY <1>1, Known, Shown DEF States
  <2>3. call' \in [Calls -> CallType] /\ conn' \in [Conns -> ConnType]
    BY <1>1, Known, CallTypes, ConnTypes
  <2> QED
    BY <1>1, <2>1, <2>2, <2>3, Known, TypeByThen
<1>6. Queued'
  BY <1>1, <1>2, Known, QueuedStays DEF switch, Unused
<1>7. Held'
  <2>1. \A j \in Conns : conn'[j].at = "unused" => ~conn'[j].fed /\ j \notin retry'
    BY <1>1, <1>4, Known DEF Held
  <2>2. \A j \in Calls : Pending(j)' /\ call'[j].kind = "start" => call'[j].sid \in Sessions
    BY <1>2, Known DEF Held, Pending
  <2> QED
    BY <1>1, <1>3, <1>4, <2>1, <2>2 DEF Held
<1>8. ASSUME calm' PROVE Calm'
  <2>1. Calm
    BY <1>1, <1>8, Known
  <2>2. OneAtATime'
    BY <1>1, <1>3, <2>1, Known, Ends DEF Calm
  <2>3. /\ status = [state |-> "starting", sid |-> call[i].sid, mode |-> call[i].mode] /\ retry = {} /\ worker = 0
        /\ \A j \in Calls : Pending(j) => j = i
    BY <1>1, <1>3, <2>1 DEF Calm, OneAtATime
  <2>4. Reconnecting'
    BY <1>1, <2>3 DEF Reconnecting
  <2>5. Heard'
    BY <1>1, <1>4, <2>1, <2>3, Known DEF Calm, Heard
  <2>6. ~changingNetwork
    BY <1>1, <2>3 DEF changingNetwork, InFlight, Pending
  <2>7. Final' = Final
    BY <1>1 DEF Final, LastAsk
  <2>8. Final = None \/ (status'.sid = Final /\ status'.mode = "open")
    BY <1>1, <2>1, <2>3, <2>6 DEF Calm, ShownLast
  <2>9. ShownLast'
    BY <2>7, <2>8 DEF ShownLast
  <2> QED
    BY <2>2, <2>4, <2>5, <2>9 DEF Calm
<1> QED
  BY <1>5, <1>6, <1>7, <1>8 DEF IInv

LEMMA ClosedInv ==
  ASSUME IInv, NEW k \in Conns, WorkerClosed(k)
  PROVE  IInv'
<1>1. /\ conn[k].at = "broken" /\ conn' = [conn EXCEPT ![k].at = "closed"]
      /\ call' = call /\ calm' = calm
      /\ chain' = chain /\ outcome' = outcome /\ served' = served
      /\ box' = box /\ up' = up /\ run' = run /\ losses' = losses
  BY DEF WorkerClosed, podman, switch
<1>2. /\ conn'[k].sid = conn[k].sid /\ conn'[k].fed = conn[k].fed /\ conn'[k].at = "closed"
      /\ \A j \in Conns : j # k => conn'[j] = conn[j]
  <2>1. conn[k] \in ConnType /\ conn \in [Conns -> ConnType]
    BY Known
  <2>2. conn'[k] = [conn[k] EXCEPT !.at = "closed"]
    BY <1>1, <2>1
  <2> QED
    BY <1>1, <2>1, <2>2 DEF ConnType
<1>3. SwitchTypeOK' /\ conn' \in [Conns -> ConnType]
  <2>1. SwitchTypeOK'
    BY <1>1, Known DEF SwitchTypeOK
  <2> QED
    BY <1>1, <2>1, Known, ConnTypes
<1>4. Queued'
  BY <1>1, Known, QueuedStays DEF switch
<1>5. \A j \in Calls : Pending(j)' <=> Pending(j)
  BY <1>1 DEF Pending
<1>6. CASE worker = k /\ status.state = "ready" /\ worker' = 0 /\ Shows("disconnected") /\ retry' = retry \cup {k}
  <2>1. status' \in StatusType /\ status'.state = "disconnected" /\ status'.sid = status.sid /\ status'.mode = status.mode
    BY <1>6, Known, ShowsIs DEF States
  <2>2. TypeOK'
    BY <1>1, <1>3, <1>6, <2>1, Known, TypeByThen
  <2>3. Held'
    BY <1>1, <1>2, <1>5, <1>6, <2>1, Known DEF Held
  <2>4. ASSUME calm' PROVE Calm'
    <3>1. Calm /\ k # 0
      BY <1>1, <2>4, Known
    <3>2. retry = {}
      BY <1>6, <3>1 DEF Calm, Reconnecting
    <3>3. OneAtATime'
      <4>1. \A i \in Calls : Pending(i) => call[i].kind # "start"
        BY <1>6, <3>1 DEF Calm, OneAtATime
      <4> QED
        BY <1>1, <1>5, <2>1, <3>1, <4>1 DEF Calm, OneAtATime, LastAsk, Asked
    <3>4. conn[k].sid = status.sid
      BY <1>6, <3>1 DEF Calm, Heard
    <3>5. Reconnecting'
      BY <1>2, <1>6, <2>1, <3>2, <3>4 DEF Reconnecting
    <3>6. Heard'
      BY <1>2, <1>6, <2>1, <3>1 DEF Calm, Heard
    <3>7. ShownLast'
      BY <1>1, <1>6, <2>1, <3>1 DEF Calm, ShownLast, Final, LastAsk, changingNetwork, InFlight
    <3> QED
      BY <3>3, <3>5, <3>6, <3>7 DEF Calm
  <2> QED
    BY <1>4, <2>2, <2>3, <2>4 DEF IInv
<1>7. CASE worker = k /\ status.state # "ready" /\ worker' = 0 /\ status' = status /\ retry' = retry
  <2>1. TypeOK'
    BY <1>1, <1>3, <1>7, Known, TypeByThen
  <2>2. Held'
    BY <1>1, <1>2, <1>5, <1>7, Known DEF Held
  <2>3. ASSUME calm' PROVE Calm'
    <3>1. Calm
      BY <1>1, <2>3, Known
    <3>2. OneAtATime'
      BY <1>1, <1>5, <1>7, <3>1 DEF Calm, OneAtATime, LastAsk, Asked
    <3>3. Reconnecting'
      BY <1>7, <3>1, Known DEF Calm, Reconnecting
    <3>4. Heard'
      BY <1>2, <1>7, <3>1 DEF Calm, Heard
    <3>5. ShownLast'
      BY <1>1, <1>7, <3>1 DEF Calm, ShownLast, Final, LastAsk, changingNetwork, InFlight
    <3> QED
      BY <3>2, <3>3, <3>4, <3>5 DEF Calm
  <2> QED
    BY <1>4, <2>1, <2>2, <2>3 DEF IInv
<1>8. CASE worker' = worker /\ status' = status /\ retry' = retry
  <2>1. TypeOK'
    BY <1>1, <1>3, <1>8, Known, TypeByThen
  <2>2. \A j \in Conns :
          /\ conn'[j].sid = conn[j].sid /\ conn'[j].fed = conn[j].fed
          /\ conn'[j].at = conn[j].at \/ (conn'[j].at \in {"broken", "closed"} /\ conn[j].at # "unused")
    BY <1>1, <1>2
  <2> QED
    BY <1>1, <1>8, <2>1, <2>2, Kept DEF switch
<1> QED
  BY <1>6, <1>7, <1>8 DEF WorkerClosed

LEMMA ReconnectedInv ==
  ASSUME IInv, NEW k \in Conns, NEW j \in Conns, Reconnected(k, j)
  PROVE  IInv'
<1> DEFINE w == conn[k].sid
<1>1. /\ k \in retry /\ retry' = retry \ {k} /\ NewConn(j, w, StillWanted)
      /\ \/ StillWanted /\ worker' = j /\ Shows("ready")
         \/ ~StillWanted /\ worker' = worker /\ status' = status
      /\ call' = call /\ calm' = calm
      /\ chain' = chain /\ outcome' = outcome /\ served' = served
      /\ box' = box /\ up' = up /\ run' = run /\ losses' = losses
  BY DEF Reconnected, Bind, podman, switch
<1>2. w \in Sessions \cup {None} /\ StillWanted \in BOOLEAN
  BY Known DEF StillWanted
<1> HIDE DEF w
<1>3. conn[j].at = "unused" /\ conn'[j] = [sid |-> w, fed |-> StillWanted, at |-> IF StillWanted THEN "open" ELSE "closed"]
  BY <1>1, <1>2, Known, AcceptedIs
<1>4. \A l \in Conns : l # j =>
        /\ conn'[l].sid = conn[l].sid /\ conn'[l].fed = conn[l].fed
        /\ conn'[l].at = conn[l].at \/ (conn'[l].at = "broken" /\ conn[l].at = "open")
  <2> DEFINE f == StillWanted
  <2>1. TypeOK /\ NewConn(j, w, f) /\ f \in BOOLEAN
    BY <1>1, <1>2, Known
  <2> HIDE DEF f
  <2> QED
    BY <2>1, AcceptedIs
<1>5. SwitchTypeOK' /\ conn' \in [Conns -> ConnType] /\ call' \in [Calls -> CallType]
  <2>1. SwitchTypeOK'
    BY <1>1, Known DEF SwitchTypeOK
  <2>2. conn' \in [Conns -> ConnType]
    BY <1>1, <1>2, Known, ConnTypes
  <2> QED
    BY <1>1, <2>1, <2>2, Known
<1>6. Queued'
  BY <1>1, Known, QueuedStays DEF switch
<1>7. \A i \in Calls : Pending(i)' <=> Pending(i)
  BY <1>1 DEF Pending
<1>8. conn'[j].sid = w /\ (conn'[j].fed <=> StillWanted) /\ conn'[j].at # "unused" /\ (conn'[j].at = "open" => StillWanted)
  BY <1>2, <1>3
<1>9. \A l \in Conns : conn'[l].at = "unused" => ~conn'[l].fed /\ l \notin retry'
  BY <1>1, <1>4, <1>8, Known DEF Held
<1>10. \A i \in Calls : Pending(i)' /\ call'[i].kind = "start" => call'[i].sid \in Sessions
  BY <1>1, <1>7, Known DEF Held
<1>11. ASSUME calm
       PROVE  /\ Calm /\ retry' = {} /\ worker = 0 /\ status.state \in {"disconnected", "stopped"} /\ w = status.sid
              /\ \A i \in Calls : Pending(i) => call[i].kind # "start"
  <2>1. Calm
    BY <1>11, Known
  <2> QED
    BY <1>1, <2>1 DEF Calm, Reconnecting, OneAtATime, w
<1>12. CASE StillWanted /\ worker' = j /\ Shows("ready")
  <2>1. status' \in StatusType /\ status'.state = "ready" /\ status'.sid = status.sid /\ status'.mode = status.mode
    BY <1>12, Known, ShowsIs DEF States
  <2>2. TypeOK'
    BY <1>1, <1>5, <1>12, <2>1, Known, TypeByThen
  <2>3. Held'
    BY <1>8, <1>9, <1>10, <1>12, Known DEF Held
  <2>4. ASSUME calm' PROVE Calm'
    <3>1. OneAtATime'
      BY <1>1, <1>7, <1>11, <2>1, <2>4 DEF Calm, OneAtATime, LastAsk, Asked
    <3>2. Reconnecting'
      BY <1>1, <1>11, <2>4 DEF Reconnecting
    <3>3. Heard'
      BY <1>1, <1>4, <1>8, <1>11, <1>12, <2>1, <2>4, Known DEF Calm, Heard
    <3>4. ShownLast'
      BY <1>1, <1>11, <2>1, <2>4 DEF Calm, ShownLast, Final, LastAsk, changingNetwork, InFlight
    <3> QED
      BY <3>1, <3>2, <3>3, <3>4 DEF Calm
  <2> QED
    BY <1>6, <2>2, <2>3, <2>4 DEF IInv
<1>13. CASE ~StillWanted /\ worker' = worker /\ status' = status
  <2>1. TypeOK'
    BY <1>1, <1>5, <1>13, Known, TypeByThen
  <2>2. Held'
    BY <1>3, <1>4, <1>9, <1>10, <1>13, Known DEF Held
  <2>3. ASSUME calm' PROVE Calm'
    <3>1. OneAtATime'
      BY <1>1, <1>7, <1>11, <1>13, <2>3 DEF Calm, OneAtATime, LastAsk, Asked
    <3>2. Reconnecting'
      BY <1>1, <1>11, <2>3 DEF Reconnecting
    <3>3. Heard'
      BY <1>1, <1>4, <1>8, <1>11, <1>13, <2>3 DEF Calm, Heard
    <3>4. ShownLast'
      BY <1>1, <1>11, <1>13, <2>3 DEF Calm, ShownLast, Final, LastAsk, changingNetwork, InFlight
    <3> QED
      BY <3>1, <3>2, <3>3, <3>4 DEF Calm
  <2> QED
    BY <1>6, <2>1, <2>2, <2>3 DEF IInv
<1> QED
  BY <1>1, <1>12, <1>13

LEMMA ReconnectFailsInv ==
  ASSUME IInv, NEW k \in Conns, ReconnectFails(k)
  PROVE  IInv'
<1>1. /\ k \in retry /\ retry' = retry \ {k} /\ Shows("disconnected")
      /\ conn' = conn /\ worker' = worker /\ call' = call /\ calm' = calm
      /\ chain' = chain /\ outcome' = outcome /\ served' = served
      /\ box' = box /\ up' = up /\ run' = run /\ losses' = losses
  BY DEF ReconnectFails, podman, switch
<1>2. status' \in StatusType /\ status'.state = "disconnected" /\ status'.sid = status.sid /\ status'.mode = status.mode
  BY <1>1, Known, ShowsIs DEF States
<1>3. TypeOK'
  <2>1. SwitchTypeOK'
    BY <1>1, Known DEF SwitchTypeOK
  <2> QED
    BY <1>1, <1>2, <2>1, Known, TypeByThen
<1>4. Queued'
  BY <1>1, Known, QueuedStays DEF switch
<1>5. \A i \in Calls : Pending(i)' <=> Pending(i)
  BY <1>1 DEF Pending
<1>6. Held'
  BY <1>1, <1>2, <1>5, Known DEF Held
<1>7. ASSUME calm' PROVE Calm'
  <2>1. Calm
    BY <1>1, <1>7, Known
  <2>2. retry' = {} /\ status.state \in {"disconnected", "stopped"} /\ \A i \in Calls : Pending(i) => call[i].kind # "start"
    BY <1>1, <2>1 DEF Calm, Reconnecting, OneAtATime
  <2>3. OneAtATime'
    BY <1>1, <1>2, <1>5, <2>1, <2>2 DEF Calm, OneAtATime, LastAsk, Asked
  <2>4. Reconnecting' /\ Heard'
    BY <1>1, <1>2, <2>1, <2>2 DEF Calm, Reconnecting, Heard
  <2>5. ShownLast'
    BY <1>1, <1>2, <2>1, <2>2 DEF Calm, ShownLast, Final, LastAsk, changingNetwork, InFlight
  <2> QED
    BY <2>3, <2>4, <2>5 DEF Calm
<1> QED
  BY <1>3, <1>4, <1>6, <1>7 DEF IInv

LEMMA OpenIs ==
  ASSUME TypeOK, NEW i \in Calls, NEW kind \in {"network", "close", "destroy"},
         NEW s \in Sessions \cup {None}, NEW m \in Modes, Open(i, kind, s, m, "egress")
  PROVE  /\ call' \in [Calls -> CallType] /\ call'[i] = [kind |-> kind, sid |-> s, mode |-> m, at |-> "egress"]
         /\ \A j \in Calls : j # i => call'[j] = call[j]
<1>1. call \in [Calls -> CallType]
  BY CallTypes
<1>2. [kind |-> kind, sid |-> s, mode |-> m, at |-> "egress"] \in CallType
  BY DEF CallType
<1> QED
  BY <1>1, <1>2 DEF Open

(* A request that begins: of session.network, of session.stop.             *)
LEMMA AsksInv ==
  ASSUME IInv, NEW i \in Calls, NEW kind \in {"network", "close", "destroy"},
         NEW s \in Sessions \cup {None}, NEW m \in Modes,
         kind = "network" => s = status.sid, kind # "network" => s = None,
         ~changingNetwork, Open(i, kind, s, m, "egress"), Ask(i, s, m), calm' = (calm /\ Quiet),
         UNCHANGED <<manager, podman, run, losses>>
  PROVE  IInv'
<1>0. TypeOK /\ SwitchTypeOK
  BY Known
<1>1. /\ conn' = conn /\ worker' = worker /\ status' = status /\ retry' = retry
      /\ box' = box /\ up' = up /\ run' = run /\ losses' = losses
  BY DEF manager, podman
<1>2. calm' \in BOOLEAN /\ (calm' => calm /\ Quiet)
  BY Known, Zenon
<1>3. /\ call' \in [Calls -> CallType] /\ call'[i] = [kind |-> kind, sid |-> s, mode |-> m, at |-> "egress"]
      /\ \A j \in Calls : j # i => call'[j] = call[j]
  BY <1>0, OpenIs
<1>4. /\ call'[i].kind = kind /\ call'[i].sid = s /\ call'[i].mode = m /\ call'[i].at = "egress"
      /\ call[i] = Unused /\ call'[i] # Unused
  BY <1>3 DEF Open, Unused
<1>5. TypeOK'
  <2>1. SwitchTypeOK'
    BY Known, AskType
  <2> QED
    BY <1>1, <1>2, <1>3, <2>1, Known, TypeByThen
<1>6. Queued'
  BY <1>3, <1>4, Known, QueuedAsks
<1>7. Held'
  <2>1. \A j \in Calls : Pending(j)' /\ call'[j].kind = "start" => call'[j].sid \in Sessions
    BY <1>3, <1>4, Known DEF Held, Pending
  <2> QED
    BY <1>1, <2>1, Known DEF Held
<1>8. ASSUME calm' PROVE Calm'
  <2>1. retry = {} /\ \A j \in Calls : ~Pending(j) /\ (Pending(j)' => j = i)
    BY <1>2, <1>3, <1>8, Known, Begins
  <2>2. Calm
    BY <1>2, <1>8, Known
  <2>3. outcome'[i] = "none"
    BY <1>4, Known, AskType DEF Queued
  <2>4. chain' # <<>> /\ LastAsk' = [sid |-> s, mode |-> m, call |-> i]
    BY <1>0, AskType DEF LastAsk
  <2>5. LastAsk'.call = i /\ Target(LastAsk)' = (IF m = "open" THEN s ELSE None)
    BY <2>4 DEF Target
  <2>6. Asked(i)' = (IF m = "open" THEN s ELSE None)
    BY <1>1, <1>4 DEF Asked
  <2>7. OneAtATime'
    BY <1>4, <2>1, <2>3, <2>4, <2>5, <2>6 DEF OneAtATime
  <2>8. Reconnecting' /\ Heard'
    BY <1>1, <2>1, <2>2 DEF Calm, Reconnecting, Heard
  <2>9. ShownLast'
    <3>1. CASE kind = "network"
      BY <1>4, <3>1 DEF ShownLast, changingNetwork, InFlight
    <3>2. CASE kind # "network"
      <4>1. Final' = None
        BY <2>4, <2>5, <3>2 DEF Final
      <4> QED
        BY <4>1 DEF ShownLast
    <3> QED
      BY <3>1, <3>2
  <2> QED
    BY <2>7, <2>8, <2>9 DEF Calm
<1> QED
  BY <1>5, <1>6, <1>7, <1>8 DEF IInv

LEMMA NetworkInv ==
  ASSUME IInv, NEW i \in Calls, NEW m \in Modes, SessionNetwork(i, m)
  PROVE  IInv'
BY Known, AsksInv DEF SessionNetwork

LEMMA StopInv ==
  ASSUME IInv, NEW i \in Calls, NEW kind \in {"close", "destroy"}, SessionStop(i, kind)
  PROVE  IInv'
<1>1. "none" \in Modes
  BY DEF Modes
<1> QED
  BY <1>1, AsksInv DEF SessionStop

(* What a request under way came to, when nothing else is under way.       *)
LEMMA CameTo ==
  ASSUME Calm, NEW i \in Calls, Pending(i), call[i].kind \in {"network", "close", "destroy"}
  PROVE  /\ outcome[i] # "none" => chain = <<>> /\ Final = (IF outcome[i] = "ok" THEN Asked(i) ELSE None)
         /\ call[i].kind # "network" => Final = None
<1>1. call[i].kind # "start"
  OBVIOUS
<1> QED
  BY <1>1 DEF Calm, OneAtATime, Final, Asked

LEMMA NetworkSetInv ==
  ASSUME IInv, NEW i \in Calls, NetworkSet(i)
  PROVE  IInv'
<1> DEFINE m == IF outcome[i] = "ok" THEN call[i].mode ELSE "none"
<1>1. /\ call[i].kind = "network" /\ call[i].at = "egress" /\ outcome[i] # "none" /\ To(i, "done")
      /\ status' = [status EXCEPT !.mode = m]
      /\ conn' = conn /\ worker' = worker /\ retry' = retry /\ calm' = calm
      /\ chain' = chain /\ outcome' = outcome /\ served' = served
      /\ box' = box /\ up' = up /\ run' = run /\ losses' = losses
  BY DEF NetworkSet, SetNetworkMode, podman, switch
<1>2. /\ call'[i].kind = "network" /\ call'[i].at = "done"
      /\ \A j \in Calls : j # i => call'[j] = call[j]
  BY <1>1, Known, ToIs
<1>3. Pending(i)
  BY <1>1 DEF Pending
<1>4. m \in Modes
  BY Known DEF Modes
<1>5. status' \in StatusType /\ status'.state = status.state /\ status'.sid = status.sid /\ status'.mode = m
  <2> HIDE DEF m
  <2>1. status \in StatusType
    BY Known
  <2> QED
    BY <1>1, <1>4, <2>1 DEF StatusType
<1>6. TypeOK'
  <2>1. SwitchTypeOK'
    BY <1>1, Known DEF SwitchTypeOK
  <2>2. call' \in [Calls -> CallType]
    BY <1>1, Known, CallTypes
  <2> QED
    BY <1>1, <1>5, <2>1, <2>2, Known, TypeByThen
<1>7. Queued'
  BY <1>1, <1>2, Known, QueuedStays DEF switch, Unused
<1>8. Held'
  BY <1>1, <1>2, <1>5, Known DEF Held, Pending
<1>9. ASSUME calm' PROVE Calm'
  <2>1. Calm
    BY <1>1, <1>9, Known
  <2>2. OneAtATime'
    BY <1>1, <1>3, <2>1, Known, Ends DEF Calm
  <2>3. Reconnecting' /\ Heard'
    BY <1>1, <1>5, <2>1 DEF Calm, Reconnecting, Heard
  <2>4. Final' = Final
    BY <1>1 DEF Final, LastAsk
  <2>5. Final = (IF outcome[i] = "ok" THEN Asked(i) ELSE None)
    BY <1>1, <1>3, <2>1, CameTo
  <2>6. Final = None \/ (status'.sid = Final /\ status'.mode = "open")
    BY <1>1, <1>5, <2>5 DEF Asked
  <2>7. ShownLast'
    BY <2>4, <2>6 DEF ShownLast
  <2> QED
    BY <2>2, <2>3, <2>7 DEF Calm
<1> QED
  BY <1>6, <1>7, <1>8, <1>9 DEF IInv

(* detach() with the session shown as disconnected, of close and destroy.  *)
LEMMA LeavesInv ==
  ASSUME IInv, TypeOK', Queued', NEW i \in Calls,
         call[i].kind \in {"close", "destroy"}, call[i].at = "egress", outcome[i] # "none",
         conn' = Detached, worker' = 0,
         IF status.state = "ready" THEN Shows("disconnected") ELSE status' = status,
         \A j \in Calls : j # i => call'[j] = call[j], call'[i].kind = call[i].kind,
         UNCHANGED <<switch, retry, calm>>
  PROVE  IInv'
<1>1. chain' = chain /\ outcome' = outcome /\ served' = served
  BY DEF switch
<1>2. /\ status'.sid = status.sid /\ status'.mode = status.mode /\ status'.state # "ready"
      /\ status'.state = status.state \/ status.state = "ready"
  BY Known, ShowsIs DEF States
<1>3. Held'
  <2>1. \A k \in Conns : conn'[k].at = "unused" => ~conn'[k].fed /\ k \notin retry'
    BY Known, DetachedIs DEF Held
  <2>2. \A j \in Calls : Pending(j)' /\ call'[j].kind = "start" => call'[j].sid \in Sessions
    BY Known DEF Held, Pending
  <2> QED
    BY <1>2, <2>1, <2>2 DEF Held
<1>4. ASSUME calm' PROVE Calm'
  <2>1. Calm
    BY <1>4, Known
  <2>2. Pending(i) /\ call[i].kind # "start" /\ call[i].kind # "network"
    BY DEF Pending
  <2>3. \A j \in Calls : Pending(j)' => j = i
    BY <2>1, <2>2 DEF Calm, OneAtATime, Pending
  <2>4. /\ chain = <<>> /\ served = None /\ Final = None
    BY <2>1, <2>2, CameTo DEF Final, Asked
  <2>5. Asked(i)' = None
    BY <2>2 DEF Asked
  <2>6. OneAtATime'
    BY <1>1, <2>2, <2>3, <2>4, <2>5 DEF OneAtATime
  <2>7. \A k \in retry : status'.state = status.state
    BY <1>2, <2>1 DEF Calm, Reconnecting
  <2>8. Reconnecting'
    BY <1>2, <2>1, <2>7, Known, DetachedIs DEF Calm, Reconnecting
  <2>9. Heard'
    BY <1>2, Known, DetachedIs DEF Heard
  <2>10. ShownLast'
    BY <1>1, <2>4 DEF ShownLast, Final
  <2> QED
    BY <2>6, <2>8, <2>9, <2>10 DEF Calm
<1> QED
  BY <1>3, <1>4 DEF IInv

LEMMA LeaveInv ==
  ASSUME IInv, NEW i \in Calls, Leave(i)
  PROVE  IInv'
<1>1. /\ call[i].kind = "close" /\ call[i].at = "egress" /\ outcome[i] # "none" /\ To(i, "done")
      /\ conn' = Detached /\ worker' = 0
      /\ IF status.state = "ready" THEN Shows("disconnected") ELSE status' = status
      /\ chain' = chain /\ outcome' = outcome /\ served' = served /\ retry' = retry /\ calm' = calm
      /\ box' = box /\ up' = up /\ run' = run /\ losses' = losses
  BY DEF Leave, Detach, podman, switch
<1>2. /\ call'[i].kind = call[i].kind /\ call'[i].at = "done"
      /\ \A j \in Calls : j # i => call'[j] = call[j]
  BY <1>1, Known, ToIs
<1>3. SwitchTypeOK' /\ status' \in StatusType /\ conn' \in [Conns -> ConnType] /\ call' \in [Calls -> CallType]
  <2>1. SwitchTypeOK'
    BY <1>1, Known DEF SwitchTypeOK
  <2>2. status' \in StatusType
    BY <1>1, Known, ShowsIs DEF States
  <2> QED
    BY <1>1, <2>1, <2>2, Known, ConnTypes, CallTypes
<1>4. TypeOK'
  BY <1>1, <1>3, Known, TypeByThen
<1>5. Queued'
  BY <1>1, <1>2, Known, QueuedStays DEF switch, Unused
<1> QED
  BY <1>1, <1>2, <1>4, <1>5, LeavesInv DEF switch

LEMMA DestroyInv ==
  ASSUME IInv, NEW i \in Calls, Destroy(i)
  PROVE  IInv'
<1>1. /\ call[i].kind = "destroy" /\ call[i].at = "egress" /\ outcome[i] # "none"
      /\ call' = [call EXCEPT ![i].at = "podman", ![i].sid = status.sid]
      /\ conn' = Detached /\ worker' = 0
      /\ IF status.state = "ready" THEN Shows("disconnected") ELSE status' = status
      /\ chain' = chain /\ outcome' = outcome /\ served' = served /\ retry' = retry /\ calm' = calm
      /\ box' = box /\ up' = up /\ run' = run /\ losses' = losses
  BY DEF Destroy, Detach, podman, switch
<1>2. /\ call' \in [Calls -> CallType] /\ call'[i].kind = call[i].kind /\ call'[i].at = "podman"
      /\ \A j \in Calls : j # i => call'[j] = call[j]
  <2>1. call \in [Calls -> CallType] /\ call[i] \in CallType
    BY Known
  <2>2. call' = [call EXCEPT ![i] = [call[i] EXCEPT !.at = "podman", !.sid = status.sid]]
    BY <1>1, <2>1
  <2> DEFINE x == [call[i] EXCEPT !.at = "podman", !.sid = status.sid]
  <2>3. x \in CallType /\ x.kind = call[i].kind /\ x.at = "podman"
    BY <2>1, Known DEF CallType
  <2>4. call' = [call EXCEPT ![i] = x]
    BY <2>2
  <2> HIDE DEF x
  <2> QED
    BY <2>1, <2>3, <2>4
<1>3. SwitchTypeOK' /\ status' \in StatusType /\ conn' \in [Conns -> ConnType]
  <2>1. SwitchTypeOK'
    BY <1>1, Known DEF SwitchTypeOK
  <2>2. status' \in StatusType
    BY <1>1, Known, ShowsIs DEF States
  <2> QED
    BY <1>1, <2>1, <2>2, Known, ConnTypes
<1>4. TypeOK'
  BY <1>1, <1>2, <1>3, Known, TypeByThen
<1>5. Queued'
  <2>1. UNCHANGED switch
    BY <1>1 DEF switch
  <2>2. \A j \in Calls : call'[j] = Unused => call[j] = Unused
    BY <1>2 DEF Unused
  <2> QED
    BY <2>1, <2>2, Known, QueuedStays
<1> QED
  BY <1>1, <1>2, <1>4, <1>5, LeavesInv DEF switch

LEMMA DestroyedInv ==
  ASSUME IInv, NEW i \in Calls, Destroyed(i)
  PROVE  IInv'
<1>1. /\ call[i].kind = "destroy" /\ call[i].at = "podman" /\ To(i, "done") /\ BreakAll(call[i].sid)
      /\ box' = box \ {call[i].sid} /\ up' = up \ {call[i].sid} /\ Shows("stopped")
      /\ worker' = worker /\ retry' = retry /\ calm' = calm
      /\ chain' = chain /\ outcome' = outcome /\ served' = served
      /\ run' = run /\ losses' = losses
  BY DEF Destroyed, Removed, switch
<1>2. status' \in StatusType /\ status'.state = "stopped" /\ status'.sid = status.sid /\ status'.mode = status.mode
  BY <1>1, Known, ShowsIs DEF States
<1>3. /\ call'[i].kind = "destroy" /\ call'[i].at = "done"
      /\ \A j \in Calls : j # i => call'[j] = call[j]
  BY <1>1, Known, ToIs
<1>4. \A k \in Conns :
        /\ conn'[k].sid = conn[k].sid /\ conn'[k].fed = conn[k].fed
        /\ conn'[k].at = conn[k].at \/ (conn'[k].at = "broken" /\ conn[k].at = "open")
  <2> DEFINE s == call[i].sid
  <2>1. TypeOK /\ BreakAll(s)
    BY <1>1, Known
  <2> HIDE DEF s
  <2> QED
    BY <2>1, BrokenIs
<1>5. TypeOK'
  <2>1. SwitchTypeOK'
    BY <1>1, Known DEF SwitchTypeOK
  <2>2. conn' \in [Conns -> ConnType] /\ call' \in [Calls -> CallType]
    BY <1>1, Known, ConnTypes, CallTypes
  <2> QED
    BY <1>1, <1>2, <2>1, <2>2, Known, TypeByThen
<1>6. Queued'
  BY <1>1, <1>3, Known, QueuedStays DEF switch, Unused
<1>7. Held'
  BY <1>1, <1>2, <1>3, <1>4, Known DEF Held, Pending
<1>8. ASSUME calm' PROVE Calm'
  <2>1. Calm /\ Pending(i)
    BY <1>1, <1>8, Known DEF Pending
  <2>2. OneAtATime'
    BY <1>1, <2>1, Known, Ends DEF Calm
  <2>3. Reconnecting'
    BY <1>1, <1>2, <1>4, <2>1, Known DEF Calm, Reconnecting
  <2>4. Heard'
    BY <1>1, <1>2, <1>4, <2>1 DEF Calm, Heard
  <2>5. Final = None
    BY <1>1, <2>1, CameTo
  <2>6. ShownLast'
    BY <1>1, <2>5 DEF ShownLast, Final, LastAsk
  <2> QED
    BY <2>2, <2>3, <2>4, <2>6 DEF Calm
<1> QED
  BY <1>5, <1>6, <1>7, <1>8 DEF IInv

LEMMA GivenUpInv ==
  ASSUME IInv, NEW i \in Calls, StopFails(i) \/ DestroyFails(i)
  PROVE  IInv'
<1>1. /\ call[i].kind \in {"close", "destroy"} /\ call[i].at \in {"egress", "podman"} /\ To(i, "done")
      /\ status' = status /\ worker' = worker /\ retry' = retry /\ calm' = calm
      /\ chain' = chain /\ outcome' = outcome /\ served' = served
      /\ run' = run /\ losses' = losses
  BY DEF StopFails, DestroyFails, switch, manager
<1>2. /\ call'[i].kind = call[i].kind /\ call'[i].at = "done"
      /\ \A j \in Calls : j # i => call'[j] = call[j]
  BY <1>1, Known, ToIs
<1>3. conn' = conn \/ BreakAll(call[i].sid)
  BY DEF StopFails, DestroyFails, Removed, manager
<1>4. box' \subseteq Sessions /\ up' \subseteq box'
  BY Known DEF StopFails, DestroyFails, Removed, podman
<1>5. \A k \in Conns :
        /\ conn'[k].sid = conn[k].sid /\ conn'[k].fed = conn[k].fed
        /\ conn'[k].at = conn[k].at \/ (conn'[k].at = "broken" /\ conn[k].at = "open")
  <2> DEFINE s == call[i].sid
  <2>1. TypeOK /\ (conn' = conn \/ BreakAll(s))
    BY <1>3, Known
  <2> HIDE DEF s
  <2> QED
    BY <2>1, BrokenIs
<1>6. TypeOK'
  <2>1. SwitchTypeOK'
    BY <1>1, Known DEF SwitchTypeOK
  <2>2. conn' \in [Conns -> ConnType] /\ call' \in [Calls -> CallType]
    BY <1>1, <1>3, Known, ConnTypes, CallTypes
  <2> QED
    BY <1>1, <1>4, <2>1, <2>2, Known, TypeByThen
<1>7. Queued'
  BY <1>1, <1>2, Known, QueuedStays DEF switch, Unused
<1>8. Held'
  BY <1>1, <1>2, <1>5, Known DEF Held, Pending
<1>9. ASSUME calm' PROVE Calm'
  <2>1. Calm /\ Pending(i)
    BY <1>1, <1>9, Known DEF Pending
  <2>2. OneAtATime'
    BY <1>1, <2>1, Known, Ends DEF Calm
  <2>3. Reconnecting'
    BY <1>1, <1>5, <2>1, Known DEF Calm, Reconnecting
  <2>4. Heard'
    <3>1. Heard /\ (status.state = "ready" => worker \in Conns)
      BY <2>1, Known DEF Calm, Held
    <3>2. status'.state = "ready" => conn'[worker'].sid = status'.sid
      BY <1>1, <1>5, <3>1 DEF Heard
    <3>3. \A k \in Conns : conn'[k].fed /\ conn'[k].at = "open" => k = worker'
      BY <1>1, <1>5, <3>1 DEF Heard
    <3> QED
      BY <3>2, <3>3 DEF Heard
  <2>5. Final = None
    BY <1>1, <2>1, CameTo
  <2>6. ShownLast'
    BY <1>1, <2>5 DEF ShownLast, Final, LastAsk
  <2> QED
    BY <2>2, <2>3, <2>4, <2>6 DEF Calm
<1> QED
  BY <1>6, <1>7, <1>8, <1>9 DEF IInv

LEMMA RunInv ==
  ASSUME IInv, RunStart \/ Snapshot \/ RunEnds
  PROVE  IInv'
<1>1. /\ UNCHANGED <<switch, status, worker, retry, calm>> /\ conn' = conn /\ call' = call
      /\ chain' = chain /\ outcome' = outcome /\ served' = served
      /\ box' = box /\ up' = up /\ losses' = losses
  BY DEF RunStart, Snapshot, RunEnds, manager, podman, switch
<1>2. run' \in [at : {"none", "snapshot", "live"}, conn : Conns \cup {0}]
  BY Known DEF RunStart, Snapshot, RunEnds
<1>3. SwitchTypeOK'
  BY <1>1, Known DEF SwitchTypeOK
<1>4. TypeOK'
  BY <1>1, <1>2, <1>3, Known, TypeByThen
<1> QED
  BY <1>1, <1>4, Kept

LEMMA WorkerInv ==
  ASSUME IInv, NEW s \in Sessions, WorkerUp(s) \/ WorkerDies(s)
  PROVE  IInv'
<1>1. /\ UNCHANGED <<switch, status, worker, retry, calm>> /\ call' = call
      /\ chain' = chain /\ outcome' = outcome /\ served' = served
      /\ box' = box /\ run' = run
  BY DEF WorkerUp, WorkerDies, manager, switch
<1>2. up' \subseteq box /\ losses' \in 0 .. MaxLosses
  BY Known, SandboxAssumption DEF WorkerUp, WorkerDies
<1>3. conn' \in [Conns -> ConnType]
  <2>1. CASE WorkerUp(s)
    BY <2>1, Known DEF WorkerUp, manager
  <2>2. CASE WorkerDies(s)
    BY <2>2, Known, ConnTypes DEF WorkerDies
  <2> QED
    BY <2>1, <2>2
<1>4. \A k \in Conns :
        /\ conn'[k].sid = conn[k].sid /\ conn'[k].fed = conn[k].fed
        /\ conn'[k].at = conn[k].at \/ (conn'[k].at \in {"broken", "closed"} /\ conn[k].at # "unused")
  <2>1. CASE WorkerUp(s)
    BY <2>1 DEF WorkerUp, manager
  <2>2. CASE WorkerDies(s)
    BY <2>2, Known, BrokenIs DEF WorkerDies
  <2> QED
    BY <2>1, <2>2
<1>5. TypeOK'
  <2>1. SwitchTypeOK'
    BY <1>1, Known DEF SwitchTypeOK
  <2> QED
    BY <1>1, <1>2, <1>3, <2>1, Known, TypeByThen
<1> QED
  BY <1>1, <1>4, <1>5, Kept

LEMMA TurnsInv ==
  ASSUME IInv, SwitchTurns
  PROVE  IInv'
<1>1. /\ Turns /\ conn' = conn /\ worker' = worker /\ status' = status /\ retry' = retry /\ call' = call
      /\ box' = box /\ up' = up /\ run' = run /\ losses' = losses /\ calm' = calm
  BY DEF SwitchTurns, manager, podman
<1>2. TypeOK'
  <2>1. SwitchTypeOK'
    BY <1>1, Known, TurnsType
  <2> QED
    BY <1>1, <2>1, Known, TypeByThen
<1>3. Queued'
  BY <1>1, Known, QueuedTurns
<1>4. Held'
  BY <1>1, Known DEF Held, Pending
<1>5. ASSUME calm' PROVE Calm'
  <2>1. Calm
    BY <1>1, <1>5, Known
  <2>2. ASSUME NEW i \in Calls, Pending(i), call[i].kind # "start"
        PROVE  /\ outcome'[i] = "none" => chain' # <<>> /\ LastAsk'.call = i /\ Target(LastAsk)' = Asked(i)
               /\ outcome'[i] # "none" => chain' = <<>> /\ served' = (IF outcome'[i] = "ok" THEN Asked(i) ELSE None)
    <3>1. chain # <<>>
      BY <1>1 DEF Turns, Off, Turned, Fails
    <3>2. outcome[i] = "none" /\ LastAsk.call = i /\ Target(LastAsk) = Asked(i)
      BY <2>1, <2>2, <3>1 DEF Calm, OneAtATime
    <3>3. \/ outcome'[i] = "none" /\ chain' # <<>> /\ LastAsk' = LastAsk
          \/ outcome'[i] = "ok" /\ chain' = <<>> /\ served' = Target(LastAsk)
          \/ outcome'[i] = "failed" /\ chain' = <<>> /\ served' = None
      BY <1>1, <3>1, <3>2, Known, QueuedTurns
    <3>4. LastAsk' = LastAsk => Target(LastAsk)' = Target(LastAsk)
      BY DEF Target
    <3> QED
      BY <3>2, <3>3, <3>4
  <2>3. OneAtATime'
    <3>1. \A i \in Calls : Pending(i)' <=> Pending(i)
      BY <1>1 DEF Pending
    <3>2. \A i \in Calls : Asked(i)' = Asked(i)
      BY <1>1 DEF Asked
    <3> QED
      BY <1>1, <2>1, <2>2, <3>1, <3>2 DEF Calm, OneAtATime
  <2>4. Reconnecting' /\ Heard'
    BY <1>1, <2>1 DEF Calm, Reconnecting, Heard
  <2>5. Final' \in {None, Final}
    BY <1>1, Known, QueuedTurns
  <2>6. ShownLast'
    BY <1>1, <2>1, <2>5 DEF Calm, ShownLast, changingNetwork, InFlight
  <2> QED
    BY <2>3, <2>4, <2>6 DEF Calm
<1> QED
  BY <1>2, <1>3, <1>4, <1>5 DEF IInv

LEMMA StepInv == IInv /\ [Next]_vars => IInv'
<1> SUFFICES ASSUME IInv, [Next]_vars PROVE IInv'
  OBVIOUS
<1>1. ASSUME NEW i \in Calls, NEW s \in Sessions, NEW m \in Modes, SessionStart(i, s, m) PROVE IInv'
  BY <1>1, StartInv
<1>2. ASSUME NEW i \in Calls, NEW m \in Modes, StartRefused(i, m) \/ SessionNetwork(i, m) PROVE IInv'
  BY <1>2, RefusedInv, NetworkInv
<1>3. ASSUME NEW i \in Calls, NEW kind \in {"close", "destroy"}, SessionStop(i, kind) PROVE IInv'
  BY <1>3, StopInv
<1>4. ASSUME NEW i \in Calls, Answers(i) PROVE IInv'
  BY <1>4, EnsureInv, FailsInv, ReadyInv, NetworkSetInv, LeaveInv, DestroyInv, DestroyedInv, GivenUpInv DEF Answers
<1>5. ASSUME NEW k \in Conns, WorkerClosed(k) \/ Reconnects(k) PROVE IInv'
  BY <1>5, ClosedInv, ReconnectFailsInv, ReconnectedInv DEF Reconnects
<1>6. CASE RunStart \/ Snapshot \/ RunEnds
  BY <1>6, RunInv
<1>7. ASSUME NEW s \in Sessions, WorkerUp(s) \/ WorkerDies(s) PROVE IInv'
  BY <1>7, WorkerInv
<1>8. CASE SwitchTurns
  BY <1>8, TurnsInv
<1>9. CASE UNCHANGED vars
  <2>1. /\ UNCHANGED <<switch, status, worker, retry, calm>> /\ conn' = conn /\ call' = call
        /\ chain' = chain /\ outcome' = outcome /\ served' = served
        /\ box' = box /\ up' = up /\ run' = run /\ losses' = losses
    BY <1>9 DEF vars, manager, podman, switch
  <2>2. SwitchTypeOK'
    BY <2>1, Known DEF SwitchTypeOK
  <2>3. TypeOK'
    BY <2>1, <2>2, Known, TypeByThen
  <2> QED
    BY <2>1, <2>3, Kept
<1> QED
  BY <1>1, <1>2, <1>3, <1>4, <1>5, <1>6, <1>7, <1>8, <1>9 DEF Next

LEMMA Always == Spec => []IInv
BY InitInv, StepInv, PTL DEF Spec

-----------------------------------------------------------------------------
(* A session that is shown ready has its worker, and while the commands    *)
(* come one at a time that is the worker of the workspace shown and the    *)
(* only one the terminal hears: bind, detach and reconnect of              *)
(* terminal-session-manager.ts, for any number of workers lost.            *)
THEOREM ReadyHasItsWorker == Spec => []ReadyIsItsOwn
BY Always, IInvSafe, PTL

(* The network is never open wider than the window shows, whatever fails:  *)
(* the order in which the session.* handlers of ipc.ts ask the proxy and   *)
(* change the status, while the commands come one at a time.  After a path *)
(* that cannot be opened the window shows no session and an error, and     *)
(* nothing of the old session is closed.                                   *)
THEOREM NoWiderThanShown == Spec => []NeverWiderThanShown
BY Always, IInvSafe, PTL

-----------------------------------------------------------------------------
(* The terminal's output (TerminalStream).                                 *)

Rising(q) == \A i, j \in 1 .. Len(q) : i < j => q[i] < q[j]
Before(A, B) == \A x \in A : \A y \in B : x < y
(* What lies between two chunks of A is in A or is gone.                   *)
Gapless(A, gone) == \A x, y \in A : \A z \in x .. y : z \in A \cup gone
(* The same from a chunk of A up to the last one, top.                     *)
Covered(A, top, gone) == \A x \in A : x <= top /\ \A z \in x .. top : z \in A \cup gone
Fit(q, gone) == Rising(q) /\ Gapless(ToSet(q), gone)

(* What is behind the chunks that were sent to the window.                 *)
Behind(d, tm, wr) == ToSet(d.queue) \cup ToSet(tm) \cup ToSet(wr)
(* What the display will show when it has taken all that toWin brings.     *)
Resets(tw) == \E i \in 1 .. Len(tw) : tw[i].id = 0
Unread(tw) == tw # <<>> /\ tw[Len(tw)].id # 0
Viewed(sh, tw) == (IF Resets(tw) THEN {} ELSE ToSet(sh))
                  \cup (IF Unread(tw) THEN ToSet(tw[Len(tw)].data) ELSE {})

Chunks == 1 .. Output
Packets == [id : Nat, data : Seq(Chunks)]
Deliveries == [queue : Seq(Chunks), pending : Seq(Chunks), sequence : Nat, ready : BOOLEAN,
               bytes : 0 .. Limit, failed : BOOLEAN, timer : BOOLEAN, stalled : BOOLEAN]
Words == [kind : {"ack", "on", "reconnect"}, id : Nat]
StreamTyped ==
  /\ written \in 0 .. Output /\ paused \in BOOLEAN
  /\ wire \in Seq(Chunks) /\ toMain \in Seq(Chunks) /\ shown \in Seq(Chunks)
  /\ flow \in Seq(BOOLEAN) /\ link \in {"up", "closing", "down"}
  /\ unacked \in Nat /\ toAgentd \in Seq(Nat)
  /\ delivery \in Deliveries
  /\ delivery.bytes = Len(delivery.queue) + Len(delivery.pending)
  /\ toWin \in Seq(Packets) /\ fromWin \in Seq(Words) /\ loading \in BOOLEAN
  /\ lost \in SUBSET Chunks /\ overflowed \in BOOLEAN /\ faults \in Nat

Numbered(d, tw, fw, ov) ==
  /\ \A i \in 1 .. Len(tw) : tw[i].id <= d.sequence
  /\ \A i \in 1 .. Len(fw) : fw[i].id <= d.sequence
  /\ d.failed => d.pending = <<>> /\ d.queue = <<>> /\ ov

UnderWay(d, tm, wr, top, gone) ==
  /\ Rising(d.pending) /\ Rising(d.queue) /\ Rising(tm) /\ Rising(wr)
  /\ Before(ToSet(d.pending), Behind(d, tm, wr))
  /\ Before(ToSet(d.queue), ToSet(tm) \cup ToSet(wr)) /\ Before(ToSet(tm), ToSet(wr))
  /\ Covered(ToSet(d.pending) \cup Behind(d, tm, wr), top, gone)

Displayed(sh, tw, d, tm, wr, top, gone) ==
  /\ Fit(sh, gone)
  /\ \A i \in 1 .. Len(tw) : Fit(tw[i].data, gone)
  /\ \A i \in 1 .. Len(tw) - 1 : tw[i].id = 0 \/ tw[i + 1].id = 0
  /\ tw # <<>> /\ tw[1].id # 0 => Fit(sh \o tw[1].data, gone)
  /\ Before(Viewed(sh, tw), Behind(d, tm, wr))
  /\ Covered(Viewed(sh, tw) \cup Behind(d, tm, wr), top, gone)

Answering(d, tw, fw) ==
  /\ d.pending = <<>> /\ ~d.failed => ~Unread(tw)
  /\ d.pending # <<>> =>
       /\ \A i \in 1 .. Len(tw) : tw[i].id = d.sequence => i = Len(tw)
       /\ Ack(d.sequence) \in ToSet(fw) => ~Unread(tw)

Credited ==
  /\ Len(delivery.pending) <= Batch
  /\ \A i \in 1 .. Len(toAgentd) : toAgentd[i] <= Batch
  /\ CreditReturns
Paused ==
  /\ link = "down" => flow = <<>> /\ ~paused
  /\ IF flow = <<>> THEN paused => unacked >= Low ELSE flow[Len(flow)] => unacked >= Low

Orderly(d, tm, wr, tw, fw, sh, ld, top, gone, ov) ==
  /\ Numbered(d, tw, fw, ov) /\ UnderWay(d, tm, wr, top, gone)
  /\ ld \/ (Displayed(sh, tw, d, tm, wr, top, gone) /\ Answering(d, tw, fw))
OrderInv ==
  Orderly(delivery, toMain, wire, toWin, fromWin, shown, loading, written, lost, overflowed)

(* Induction over the natural numbers, for a set of them.                  *)
LEMMA Least ==
  ASSUME NEW T \in SUBSET Nat, T # {}
  PROVE  \E m \in T : \A n \in T : m <= n
<1>1. PICK m \in T : \A n \in T : ~(<<n, m>> \in OpToRel(<, Nat))
  BY NatLessThanWellFounded, WFMin, Zenon
<1>2. \A n \in Nat : n < m => <<n, m>> \in OpToRel(<, Nat)
  BY Zenon DEF OpToRel
<1>3. \A n \in T : ~(n < m)
  BY <1>1, <1>2, Zenon
<1>4. \A n \in T : m <= n
  BY <1>3
<1> QED
  BY <1>4

LEMMA Induct ==
  ASSUME NEW T, 0 \in T, \A n \in Nat : n \in T => n + 1 \in T
  PROVE  \A n \in Nat : n \in T
<1> SUFFICES ASSUME NEW k \in Nat, k \notin T PROVE FALSE
  OBVIOUS
<1> DEFINE U == {n \in Nat : n \notin T}
<1>1. PICK m \in U : \A n \in U : m <= n
  <2>1. U \in SUBSET Nat /\ U # {}
    OBVIOUS
  <2> HIDE DEF U
  <2> QED
    BY <2>1, Least
<1>2. m \in Nat /\ m # 0 /\ m \notin T
  OBVIOUS
<1>3. m - 1 \in Nat /\ (m - 1) + 1 = m /\ ~(m <= m - 1)
  BY <1>2
<1>4. m - 1 \in T
  BY <1>1, <1>3
<1>5. m \in T
  BY <1>3, <1>4
<1> QED
  BY <1>2, <1>5

-----------------------------------------------------------------------------
(* The terminal's output (TerminalStream).                                 *)

(* Sequences and what is in them.                                          *)
LEMMA InSet ==
  ASSUME NEW S, NEW q \in Seq(S)
  PROVE  /\ ToSet(q) \subseteq S /\ Len(q) \in Nat
         /\ \A i \in 1 .. Len(q) : q[i] \in S /\ q[i] \in ToSet(q)
         /\ \A x \in ToSet(q) : \E i \in 1 .. Len(q) : x = q[i]
         /\ q = <<>> <=> Len(q) = 0
         /\ q = <<>> <=> ToSet(q) = {}
<1>1. DOMAIN q = 1 .. Len(q) /\ Len(q) \in Nat
  BY LenProperties
<1>2. \A i \in 1 .. Len(q) : q[i] \in S
  BY ElementOfSeq
<1>3. q = <<>> <=> Len(q) = 0
  BY EmptySeq
<1>4. ToSet(q) = {q[i] : i \in 1 .. Len(q)}
  BY <1>1 DEF ToSet
<1>5. q = <<>> <=> ToSet(q) = {}
  <2>1. Len(q) # 0 => 1 \in 1 .. Len(q)
    BY <1>1
  <2>2. Len(q) = 0 => 1 .. Len(q) = {}
    BY <1>1
  <2> QED
    BY <1>3, <1>4, <2>1, <2>2
<1> QED
  BY <1>1, <1>2, <1>3, <1>4, <1>5

LEMMA SetEmpty == ToSet(<<>>) = {} /\ Len(<<>>) = 0 /\ \A S : <<>> \in Seq(S)
<1>1. \A S : <<>> \in Seq(S)
  BY EmptySeq
<1>2. Len(<<>>) = 0
  OBVIOUS
<1>3. ToSet(<<>>) = {}
  BY <1>1, InSet
<1> QED
  BY <1>1, <1>2, <1>3

LEMMA SetAppend ==
  ASSUME NEW S, NEW q \in Seq(S), NEW x \in S
  PROVE  /\ Append(q, x) \in Seq(S) /\ Len(Append(q, x)) = Len(q) + 1
         /\ \A i \in 1 .. Len(q) : Append(q, x)[i] = q[i]
         /\ Append(q, x)[Len(q) + 1] = x
         /\ ToSet(Append(q, x)) = ToSet(q) \cup {x}
         /\ Append(q, x) # <<>>
<1> DEFINE t == Append(q, x)
<1>1. /\ t \in Seq(S) /\ Len(t) = Len(q) + 1 /\ t[Len(q) + 1] = x
      /\ \A i \in 1 .. Len(q) : t[i] = q[i]
  BY AppendProperties
<1>2. Len(q) \in Nat /\ 1 .. Len(t) = (1 .. Len(q)) \cup {Len(q) + 1}
  BY <1>1, LenProperties
<1> HIDE DEF t
<1>3. ToSet(t) = ToSet(q) \cup {x}
  <2>1. \A y \in ToSet(t) : y \in ToSet(q) \cup {x}
    BY <1>1, <1>2, InSet
  <2>2. \A y \in ToSet(q) : \E i \in 1 .. Len(q) : y = q[i]
    BY InSet
  <2>3. \A i \in 1 .. Len(t) : t[i] \in ToSet(t)
    BY <1>1, InSet
  <2>4. \A y \in ToSet(q) \cup {x} : y \in ToSet(t)
    BY <1>1, <1>2, <2>2, <2>3
  <2> QED
    BY <2>1, <2>4
<1>4. t # <<>>
  BY <1>1, <1>2, InSet
<1> QED
  BY <1>1, <1>3, <1>4 DEF t

LEMMA SetTail ==
  ASSUME NEW S, NEW q \in Seq(S), q # <<>>
  PROVE  /\ Tail(q) \in Seq(S) /\ Len(Tail(q)) = Len(q) - 1 /\ Len(q) \in Nat \ {0}
         /\ \A i \in 1 .. Len(Tail(q)) : Tail(q)[i] = q[i + 1]
         /\ Head(q) = q[1] /\ Head(q) \in S
         /\ ToSet(q) = {Head(q)} \cup ToSet(Tail(q))
<1> DEFINE t == Tail(q)
<1>1. /\ t \in Seq(S) /\ Len(t) = Len(q) - 1 /\ Len(q) \in Nat \ {0} /\ Len(t) \in Nat
      /\ \A i \in 1 .. Len(t) : t[i] = q[i + 1]
      /\ Head(q) = q[1] /\ Head(q) \in S
  BY HeadTailProperties, LenProperties, EmptySeq
<1> HIDE DEF t
<1>2. \A y \in ToSet(q) : y \in {Head(q)} \cup ToSet(t)
  <2> SUFFICES ASSUME NEW i \in 1 .. Len(q), i # 1 PROVE q[i] \in ToSet(t)
    BY <1>1, InSet
  <2>1. i - 1 \in 1 .. Len(t) /\ t[i - 1] = q[(i - 1) + 1] /\ (i - 1) + 1 = i
    BY <1>1
  <2> QED
    BY <1>1, <2>1, InSet
<1>3. \A y \in ToSet(t) : y \in ToSet(q)
  <2> SUFFICES ASSUME NEW i \in 1 .. Len(t) PROVE t[i] \in ToSet(q)
    BY <1>1, InSet
  <2>1. i + 1 \in 1 .. Len(q) /\ t[i] = q[i + 1]
    BY <1>1
  <2> QED
    BY <2>1, InSet
<1>4. Head(q) \in ToSet(q)
  <2>1. 1 \in 1 .. Len(q)
    BY <1>1
  <2> QED
    BY <1>1, <2>1, InSet
<1> QED
  BY <1>1, <1>2, <1>3, <1>4 DEF t

LEMMA SetJoin ==
  ASSUME NEW S, NEW p \in Seq(S), NEW q \in Seq(S)
  PROVE  /\ p \o q \in Seq(S) /\ Len(p \o q) = Len(p) + Len(q)
         /\ \A i \in 1 .. Len(p) : (p \o q)[i] = p[i]
         /\ \A i \in 1 .. Len(q) : (p \o q)[Len(p) + i] = q[i]
         /\ \A i \in 1 .. Len(p \o q) : i \in 1 .. Len(p) \/ \E j \in 1 .. Len(q) : i = Len(p) + j
         /\ ToSet(p \o q) = ToSet(p) \cup ToSet(q)
<1> DEFINE t == p \o q
<1>1. /\ t \in Seq(S) /\ Len(t) = Len(p) + Len(q) /\ Len(p) \in Nat /\ Len(q) \in Nat
      /\ \A i \in 1 .. Len(p) + Len(q) : t[i] = IF i <= Len(p) THEN p[i] ELSE q[i - Len(p)]
  BY ConcatProperties, LenProperties
<1> HIDE DEF t
<1>2. \A i \in 1 .. Len(p) : t[i] = p[i]
  BY <1>1
<1>3. \A i \in 1 .. Len(q) : t[Len(p) + i] = q[i]
  <2> SUFFICES ASSUME NEW i \in 1 .. Len(q) PROVE t[Len(p) + i] = q[i]
    OBVIOUS
  <2>1. Len(p) + i \in 1 .. Len(p) + Len(q) /\ ~(Len(p) + i <= Len(p)) /\ (Len(p) + i) - Len(p) = i
    BY <1>1
  <2> QED
    BY <1>1, <2>1
<1>4. \A i \in 1 .. Len(t) : i \in 1 .. Len(p) \/ \E j \in 1 .. Len(q) : i = Len(p) + j
  <2> SUFFICES ASSUME NEW i \in 1 .. Len(t), i \notin 1 .. Len(p) PROVE \E j \in 1 .. Len(q) : i = Len(p) + j
    OBVIOUS
  <2>1. i - Len(p) \in 1 .. Len(q) /\ i = Len(p) + (i - Len(p))
    BY <1>1
  <2> QED
    BY <2>1
<1>5. ToSet(t) = ToSet(p) \cup ToSet(q)
  <2>1. \A y \in ToSet(t) : y \in ToSet(p) \cup ToSet(q)
    <3>3. \A y \in ToSet(t) : \E i \in 1 .. Len(t) : y = t[i]
      BY <1>1, InSet
    <3> SUFFICES ASSUME NEW i \in 1 .. Len(t) PROVE t[i] \in ToSet(p) \cup ToSet(q)
      BY <3>3
    <3>1. CASE i \in 1 .. Len(p)
      BY <1>2, <3>1, InSet
    <3>2. CASE \E j \in 1 .. Len(q) : i = Len(p) + j
      BY <1>3, <3>2, InSet
    <3> QED
      BY <1>4, <3>1, <3>2
  <2>2. \A i \in 1 .. Len(t) : t[i] \in ToSet(t)
    BY <1>1, InSet
  <2>3. \A i \in 1 .. Len(p) : i \in 1 .. Len(t)
    BY <1>1
  <2>4. \A i \in 1 .. Len(q) : Len(p) + i \in 1 .. Len(t)
    BY <1>1
  <2>5. \A y \in ToSet(p) : y \in ToSet(t)
    BY <1>2, <2>2, <2>3, InSet
  <2>6. \A y \in ToSet(q) : y \in ToSet(t)
    <3>1. \A y \in ToSet(q) : \E i \in 1 .. Len(q) : y = q[i]
      BY InSet
    <3>2. \A i \in 1 .. Len(q) : q[i] \in ToSet(t)
      BY <1>3, <2>2, <2>4
    <3> QED
      BY <3>1, <3>2
  <2>7. \A y : y \in ToSet(t) <=> y \in ToSet(p) \/ y \in ToSet(q)
    BY <2>1, <2>5, <2>6
  <2> QED
    BY <2>7
<1> QED
  BY <1>1, <1>2, <1>3, <1>4, <1>5 DEF t

LEMMA SetCut ==
  ASSUME NEW S, NEW q \in Seq(S), NEW n \in 0 .. Len(q)
  PROVE  LET a == SubSeq(q, 1, n)
             b == SubSeq(q, n + 1, Len(q))
         IN /\ a \in Seq(S) /\ b \in Seq(S) /\ Len(a) = n /\ Len(b) = Len(q) - n
            /\ \A i \in 1 .. n : a[i] = q[i]
            /\ \A i \in 1 .. Len(b) : b[i] = q[n + i]
            /\ ToSet(q) = ToSet(a) \cup ToSet(b)
<1> DEFINE a == SubSeq(q, 1, n)
           b == SubSeq(q, n + 1, Len(q))
<1>1. Len(q) \in Nat /\ n \in Nat /\ n <= Len(q) /\ \A i \in 1 .. Len(q) : q[i] \in S
  BY LenProperties, ElementOfSeq
<1>2. a \in Seq(S) /\ Len(a) = n /\ \A i \in 1 .. n : a[i] = q[i]
  <2>1. \A i \in 1 .. n : q[i] \in S
    BY <1>1
  <2>2. /\ a \in Seq(S) /\ Len(a) = (IF 1 <= n THEN n - 1 + 1 ELSE 0)
        /\ \A i \in 1 .. n - 1 + 1 : a[i] = q[1 + i - 1]
    BY <1>1, <2>1, SubSeqProperties
  <2> HIDE DEF a
  <2> QED
    BY <1>1, <2>2
<1>3. b \in Seq(S) /\ Len(b) = Len(q) - n /\ \A i \in 1 .. Len(b) : b[i] = q[n + i]
  <2>1. \A i \in n + 1 .. Len(q) : q[i] \in S
    BY <1>1
  <2>2. /\ b \in Seq(S) /\ Len(b) = (IF n + 1 <= Len(q) THEN Len(q) - (n + 1) + 1 ELSE 0)
        /\ \A i \in 1 .. Len(q) - (n + 1) + 1 : b[i] = q[(n + 1) + i - 1]
    BY <1>1, <2>1, SubSeqProperties
  <2> HIDE DEF b
  <2> QED
    BY <1>1, <2>2
<1> HIDE DEF a, b
<1>4. \A y \in ToSet(q) : y \in ToSet(a) \cup ToSet(b)
  <2> SUFFICES ASSUME NEW i \in 1 .. Len(q) PROVE q[i] \in ToSet(a) \cup ToSet(b)
    BY InSet
  <2>1. CASE i <= n
    <3>1. i \in 1 .. Len(a) /\ a[i] = q[i]
      BY <1>1, <1>2, <2>1
    <3> QED
      BY <1>2, <3>1, InSet
  <2>2. CASE ~(i <= n)
    <3>1. i - n \in 1 .. Len(b) /\ b[i - n] = q[n + (i - n)] /\ n + (i - n) = i
      BY <1>1, <1>3, <2>2
    <3> QED
      BY <1>3, <3>1, InSet
  <2> QED
    BY <2>1, <2>2
<1>5. \A y \in ToSet(a) : y \in ToSet(q)
  <2>1. \A i \in 1 .. Len(a) : i \in 1 .. Len(q)
    BY <1>1, <1>2
  <2> QED
    BY <1>2, <2>1, InSet
<1>6. \A y \in ToSet(b) : y \in ToSet(q)
  <2>1. \A i \in 1 .. Len(b) : n + i \in 1 .. Len(q)
    BY <1>1, <1>3
  <2>2. \A y \in ToSet(b) : \E i \in 1 .. Len(b) : y = b[i]
    BY <1>3, InSet
  <2>3. \A i \in 1 .. Len(q) : q[i] \in ToSet(q)
    BY InSet
  <2>4. \A i \in 1 .. Len(b) : b[i] \in ToSet(q)
    BY <1>3, <2>1, <2>3
  <2> QED
    BY <2>2, <2>4
<1> QED
  BY <1>2, <1>3, <1>4, <1>5, <1>6 DEF a, b

(* Sets of chunks.                                                         *)
LEMMA CoverKept ==
  ASSUME NEW A, NEW B, NEW top, NEW L, NEW M, Covered(A, top, L),
         B \subseteq A, A \subseteq B \cup M, L \subseteq M
  PROVE  Covered(B, top, M)
BY DEF Covered

LEMMA CoverMore ==
  ASSUME NEW A \in SUBSET Nat, NEW top \in Nat, NEW L, Covered(A, top, L)
  PROVE  /\ Covered(A \cup {top + 1}, top + 1, L)
         /\ Covered(A, top + 1, L \cup {top + 1})
         /\ Before(A, {top + 1})
BY DEF Covered, Before

LEMMA CoverRest ==
  ASSUME NEW A \in SUBSET Nat, NEW B \in SUBSET Nat, NEW top \in Nat, NEW L,
         Covered(A \cup B, top, L), Before(A, B)
  PROVE  Covered(B, top, L) /\ Gapless(A, L)
<1>1. Covered(B, top, L)
  BY DEF Covered, Before
<1>2. Gapless(A, L)
  <2> SUFFICES ASSUME NEW x \in A, NEW y \in A, NEW z \in x .. y PROVE z \in A \cup L
    BY DEF Gapless
  <2>1. y <= top /\ \A w \in x .. top : w \in A \cup B \cup L
    BY DEF Covered
  <2>2. z \in x .. top /\ z <= y /\ z \in Nat
    BY <2>1
  <2>3. z \notin B
    BY <2>2 DEF Before
  <2> QED
    BY <2>1, <2>2, <2>3
<1> QED
  BY <1>1, <1>2

LEMMA FitKept ==
  ASSUME NEW q, NEW L, NEW M, Fit(q, L), L \subseteq M
  PROVE  Fit(q, M)
BY DEF Fit, Gapless

(* Sequences of chunks.                                                    *)
LEMMA RiseEmpty == Rising(<<>>) /\ \A L : Fit(<<>>, L)
BY SetEmpty DEF Rising, Fit, Gapless

LEMMA RiseAppend ==
  ASSUME NEW q \in Seq(Nat), NEW x \in Nat, Rising(q), Before(ToSet(q), {x})
  PROVE  Rising(Append(q, x))
<1> DEFINE t == Append(q, x)
<1>1. /\ Len(t) = Len(q) + 1 /\ Len(q) \in Nat /\ t[Len(q) + 1] = x
      /\ \A i \in 1 .. Len(q) : t[i] = q[i]
  BY SetAppend, InSet
<1>2. \A i \in 1 .. Len(q) : q[i] \in ToSet(q)
  BY InSet
<1>3. \A i \in 1 .. Len(q) : q[i] < x
  BY <1>2 DEF Before
<1> HIDE DEF t
<1> SUFFICES ASSUME NEW i \in 1 .. Len(t), NEW j \in 1 .. Len(t), i < j PROVE t[i] < t[j]
  BY DEF Rising, t
<1>4. i \in 1 .. Len(q) /\ (j \in 1 .. Len(q) \/ j = Len(q) + 1)
  BY <1>1
<1> QED
  BY <1>1, <1>3, <1>4 DEF Rising

LEMMA RiseTail ==
  ASSUME NEW q \in Seq(Nat), q # <<>>, Rising(q)
  PROVE  Rising(Tail(q)) /\ Before({Head(q)}, ToSet(Tail(q)))
<1>1. /\ Tail(q) \in Seq(Nat) /\ Len(Tail(q)) = Len(q) - 1 /\ Len(q) \in Nat \ {0}
      /\ \A i \in 1 .. Len(Tail(q)) : Tail(q)[i] = q[i + 1]
      /\ Head(q) = q[1]
  BY SetTail
<1>2. \A x \in ToSet(Tail(q)) : \E i \in 1 .. Len(Tail(q)) : x = Tail(q)[i]
  BY <1>1, InSet
<1>3. Before({Head(q)}, ToSet(Tail(q)))
  <2>1. \A i \in 1 .. Len(Tail(q)) : q[1] < Tail(q)[i]
    BY <1>1 DEF Rising
  <2> QED
    BY <1>1, <1>2, <2>1 DEF Before
<1>4. Rising(Tail(q))
  BY <1>1 DEF Rising
<1> QED
  BY <1>3, <1>4

LEMMA RiseJoin ==
  ASSUME NEW p \in Seq(Nat), NEW q \in Seq(Nat), Rising(p), Rising(q), Before(ToSet(p), ToSet(q))
  PROVE  Rising(p \o q)
<1> DEFINE t == p \o q
<1>1. /\ Len(p) \in Nat /\ Len(q) \in Nat
      /\ \A i \in 1 .. Len(p) : t[i] = p[i]
      /\ \A i \in 1 .. Len(q) : t[Len(p) + i] = q[i]
      /\ \A i \in 1 .. Len(t) : i \in 1 .. Len(p) \/ \E j \in 1 .. Len(q) : i = Len(p) + j
  BY SetJoin, InSet
<1>2. \A i \in 1 .. Len(p) : p[i] \in ToSet(p)
  BY InSet
<1>3. \A j \in 1 .. Len(q) : q[j] \in ToSet(q)
  BY InSet
<1>4. \A i \in 1 .. Len(p) : \A j \in 1 .. Len(q) : p[i] < q[j]
  BY <1>2, <1>3 DEF Before
<1> HIDE DEF t
<1> SUFFICES ASSUME NEW i \in 1 .. Len(t), NEW j \in 1 .. Len(t), i < j PROVE t[i] < t[j]
  BY DEF Rising, t
<1>5. CASE j \in 1 .. Len(p)
  <2>1. i \in 1 .. Len(p)
    BY <1>1, <1>5
  <2> QED
    BY <1>1, <1>5, <2>1 DEF Rising
<1>6. ASSUME NEW k \in 1 .. Len(q), j = Len(p) + k PROVE t[i] < t[j]
  <2>1. CASE i \in 1 .. Len(p)
    BY <1>1, <1>4, <1>6, <2>1
  <2>2. ASSUME NEW h \in 1 .. Len(q), i = Len(p) + h PROVE t[i] < t[j]
    <3>1. h < k
      BY <1>1, <1>6, <2>2
    <3> QED
      BY <1>1, <1>6, <2>2, <3>1 DEF Rising
  <2> QED
    BY <1>1, <2>1, <2>2
<1> QED
  BY <1>1, <1>5, <1>6

LEMMA RiseCut ==
  ASSUME NEW q \in Seq(Nat), NEW n \in 0 .. Len(q), Rising(q)
  PROVE  LET a == SubSeq(q, 1, n)
             b == SubSeq(q, n + 1, Len(q))
         IN Rising(a) /\ Rising(b) /\ Before(ToSet(a), ToSet(b))
<1> DEFINE a == SubSeq(q, 1, n)
           b == SubSeq(q, n + 1, Len(q))
<1>5. Len(q) \in Nat /\ n \in Nat /\ n <= Len(q)
  BY LenProperties
<1>1. /\ a \in Seq(Nat) /\ b \in Seq(Nat) /\ Len(a) = n /\ Len(b) = Len(q) - n
      /\ \A i \in 1 .. n : a[i] = q[i]
      /\ \A i \in 1 .. Len(b) : b[i] = q[n + i]
  BY SetCut
<1> HIDE DEF a, b
<1>2. Rising(a)
  <2> SUFFICES ASSUME NEW i \in 1 .. Len(a), NEW j \in 1 .. Len(a), i < j PROVE a[i] < a[j]
    BY DEF Rising
  <2>1. i \in 1 .. Len(q) /\ j \in 1 .. Len(q) /\ a[i] = q[i] /\ a[j] = q[j]
    BY <1>1, <1>5
  <2> QED
    BY <2>1 DEF Rising
<1>3. Rising(b)
  <2> SUFFICES ASSUME NEW i \in 1 .. Len(b), NEW j \in 1 .. Len(b), i < j PROVE b[i] < b[j]
    BY DEF Rising
  <2>1. n + i \in 1 .. Len(q) /\ n + j \in 1 .. Len(q) /\ n + i < n + j
    BY <1>1, <1>5
  <2> QED
    BY <1>1, <2>1 DEF Rising
<1>4. Before(ToSet(a), ToSet(b))
  <2>1. \A x \in ToSet(a) : \E i \in 1 .. Len(a) : x = a[i]
    BY <1>1, InSet
  <2>2. \A x \in ToSet(b) : \E i \in 1 .. Len(b) : x = b[i]
    BY <1>1, InSet
  <2>4. Len(a) = n /\ Len(b) = Len(q) - n
    BY <1>1
  <2>3. \A i \in 1 .. Len(a) : \A j \in 1 .. Len(b) : a[i] < b[j]
    <3> TAKE i \in 1 .. Len(a)
    <3> TAKE j \in 1 .. Len(b)
    <3>1. i \in 1 .. Len(q) /\ n + j \in 1 .. Len(q) /\ i < n + j
      BY <1>5, <2>4
    <3> QED
      BY <1>1, <3>1 DEF Rising
  <2> QED
    BY <2>1, <2>2, <2>3 DEF Before
<1> QED
  BY <1>2, <1>3, <1>4 DEF a, b

LEMMA ChunkSeqs ==
  /\ Chunks \subseteq Nat
  /\ \A q \in Seq(Chunks) : q \in Seq(Nat) /\ ToSet(q) \in SUBSET Nat
<1>1. Chunks \subseteq Nat /\ Output \in Nat
  BY StreamAssumption DEF Chunks
<1>2. ASSUME NEW q \in Seq(Chunks) PROVE q \in Seq(Nat) /\ ToSet(q) \in SUBSET Nat
  <2>1. q \in Seq(Nat)
    <3>1. \A n \in Nat : \A h \in [1 .. n -> Chunks] : h \in [1 .. n -> Nat]
      BY <1>1
    <3> QED
      BY <3>1, SeqDef
  <2>2. ToSet(q) \subseteq Nat
    BY <2>1, InSet
  <2> QED
    BY <2>1, <2>2
<1> QED
  BY <1>1, <1>2

(* What the delivery's flush does: nothing, or it takes n chunks.          *)
LEMMA FlushedIs ==
  ASSUME NEW d \in Deliveries
  PROVE  LET f == Flushed(d) IN
         \/ f = d /\ (d.ready /\ d.pending = <<>> => d.queue = <<>>)
         \/ /\ d.ready /\ d.pending = <<>> /\ d.queue # <<>>
            /\ f \in Deliveries /\ f.bytes = d.bytes /\ f.failed = d.failed /\ f.ready = d.ready
            /\ f.sequence = d.sequence + 1
            /\ \E n \in 1 .. Len(d.queue) :
                 /\ n <= Batch
                 /\ f.pending = SubSeq(d.queue, 1, n)
                 /\ f.queue = SubSeq(d.queue, n + 1, Len(d.queue))
<1> DEFINE n == IF Len(d.queue) < Batch THEN Len(d.queue) ELSE Batch
           e == [d EXCEPT !.pending = SubSeq(d.queue, 1, n),
                          !.queue = SubSeq(d.queue, n + 1, Len(d.queue)),
                          !.sequence = @ + 1, !.timer = TRUE]
<1>1. CASE ~d.ready \/ d.pending # <<>> \/ d.queue = <<>>
  BY <1>1 DEF Flushed
<1>2. CASE ~(~d.ready \/ d.pending # <<>> \/ d.queue = <<>>)
  <2>1. Flushed(d) = e
    BY <1>2 DEF Flushed
  <2>2. d.queue \in Seq(Chunks) /\ Batch \in Nat \ {0} /\ d.sequence \in Nat
    BY StreamAssumption DEF Deliveries
  <2>3. Len(d.queue) \in Nat \ {0}
    BY <1>2, <2>2, InSet
  <2>4. n \in 1 .. Len(d.queue) /\ n <= Batch /\ n \in 0 .. Len(d.queue)
    BY <2>2, <2>3
  <2> HIDE DEF n
  <2>5. SubSeq(d.queue, 1, n) \in Seq(Chunks) /\ SubSeq(d.queue, n + 1, Len(d.queue)) \in Seq(Chunks)
    BY <2>2, <2>4, SetCut
  <2>6. /\ e.pending = SubSeq(d.queue, 1, n) /\ e.queue = SubSeq(d.queue, n + 1, Len(d.queue))
        /\ e.sequence = d.sequence + 1 /\ e.bytes = d.bytes /\ e.failed = d.failed /\ e.ready = d.ready
    BY DEF Deliveries
  <2>7. e \in Deliveries
    <3>1. d.sequence + 1 \in Nat /\ TRUE \in BOOLEAN
      BY <2>2
    <3> QED
      BY <2>5, <3>1 DEF Deliveries
  <2> HIDE DEF e
  <2> QED
    BY <1>2, <2>1, <2>4, <2>6, <2>7
<1> QED
  BY <1>1, <1>2

(* What the window is sent when the delivery d is flushed.                 *)
Sent(d, tw) ==
  IF Flushed(d).sequence = d.sequence THEN tw
  ELSE Append(tw, [id |-> Flushed(d).sequence, data |-> Flushed(d).pending])

LEMMA SentIs ==
  ASSUME NEW d \in Deliveries, NEW tw \in Seq(Packets)
  PROVE  /\ Flushed(d) \in Deliveries /\ Sent(d, tw) \in Seq(Packets)
         /\ Flushed(d).bytes = d.bytes
         /\ Len(Flushed(d).queue) + Len(Flushed(d).pending) = Len(d.queue) + Len(d.pending)
         /\ Len(d.pending) <= Batch => Len(Flushed(d).pending) <= Batch
<1> DEFINE f == Flushed(d)
<1>1. d.sequence \in Nat /\ d.queue \in Seq(Chunks) /\ d.pending \in Seq(Chunks)
  BY DEF Deliveries
<1>5. Len(d.queue) \in Nat /\ Len(d.pending) \in Nat /\ (d.pending = <<>> => Len(d.pending) = 0)
  BY <1>1, InSet
<1>2. CASE f = d
  BY <1>2 DEF Sent
<1>3. ASSUME d.pending = <<>>, f \in Deliveries, f.bytes = d.bytes, f.sequence = d.sequence + 1,
             NEW n \in 1 .. Len(d.queue), n <= Batch,
             f.pending = SubSeq(d.queue, 1, n), f.queue = SubSeq(d.queue, n + 1, Len(d.queue))
      PROVE  /\ f \in Deliveries /\ Sent(d, tw) \in Seq(Packets) /\ f.bytes = d.bytes
             /\ Len(f.queue) + Len(f.pending) = Len(d.queue) + Len(d.pending)
             /\ Len(d.pending) <= Batch => Len(f.pending) <= Batch
  <2> HIDE DEF f
  <2>1. n \in 0 .. Len(d.queue)
    BY <1>5, <1>3
  <2>2. Len(f.pending) = n /\ Len(f.queue) = Len(d.queue) - n
    BY <1>1, <1>3, <2>1, SetCut
  <2>3. [id |-> f.sequence, data |-> f.pending] \in Packets
    BY <1>3 DEF Packets, Deliveries
  <2>4. Sent(d, tw) = Append(tw, [id |-> f.sequence, data |-> f.pending])
    BY <1>1, <1>3 DEF Sent, f
  <2>5. Sent(d, tw) \in Seq(Packets)
    BY <2>3, <2>4, SetAppend
  <2> QED
    BY <1>3, <1>5, <2>1, <2>2, <2>5
<1> QED
  BY <1>2, <1>3, FlushedIs

LEMMA SendKeepsOrder ==
  ASSUME NEW d \in Deliveries, NEW tm \in Seq(Chunks), NEW wr \in Seq(Chunks),
         NEW tw \in Seq(Packets), NEW fw \in Seq(Words), NEW sh \in Seq(Chunks),
         NEW ld \in BOOLEAN, NEW top \in Nat, NEW L, NEW ov,
         Orderly(d, tm, wr, tw, fw, sh, ld, top, L, ov)
  PROVE  Orderly(Flushed(d), tm, wr, Sent(d, tw), fw, sh, ld, top, L, ov)
<1> DEFINE f == Flushed(d)
<1>1. CASE f = d
  BY <1>1 DEF Sent
<1>2. ASSUME d.pending = <<>>, d.queue # <<>>, f \in Deliveries, f.failed = d.failed,
             f.sequence = d.sequence + 1,
             NEW n \in 1 .. Len(d.queue),
             f.pending = SubSeq(d.queue, 1, n), f.queue = SubSeq(d.queue, n + 1, Len(d.queue))
      PROVE  Orderly(f, tm, wr, Sent(d, tw), fw, sh, ld, top, L, ov)
  <2> DEFINE a == f.pending
             b == f.queue
             r == ToSet(tm) \cup ToSet(wr)
             p == [id |-> f.sequence, data |-> a]
             tx == Append(tw, p)
  <2> HIDE DEF f
  <2>1. d.sequence \in Nat /\ d.queue \in Seq(Chunks)
    BY DEF Deliveries
  <2>2. n \in 0 .. Len(d.queue) /\ Len(d.queue) \in Nat
    BY <2>1, InSet
  <2>3. /\ a \in Seq(Chunks) /\ b \in Seq(Chunks) /\ Len(a) = n
        /\ ToSet(d.queue) = ToSet(a) \cup ToSet(b)
    BY <1>2, <2>1, <2>2, SetCut
  <2>4. /\ d.queue \in Seq(Nat) /\ a \in Seq(Nat) /\ sh \in Seq(Nat)
        /\ ToSet(a) \in SUBSET Nat /\ ToSet(b) \in SUBSET Nat /\ r \in SUBSET Nat
        /\ ToSet(sh) \in SUBSET Nat
    BY <2>1, <2>3, ChunkSeqs
  <2>5. UnderWay(d, tm, wr, top, L) /\ Numbered(d, tw, fw, ov)
    BY DEF Orderly
  <2>6. Rising(a) /\ Rising(b) /\ Before(ToSet(a), ToSet(b))
    <3>1. Rising(d.queue)
      BY <2>5 DEF UnderWay
    <3> QED
      BY <1>2, <2>2, <2>4, <3>1, RiseCut
  <2>7. Behind(d, tm, wr) = ToSet(a) \cup ToSet(b) \cup r /\ Behind(f, tm, wr) = ToSet(b) \cup r
    BY <2>3 DEF Behind
  <2>8. Before(ToSet(a) \cup ToSet(b), r) /\ Covered(ToSet(a) \cup (ToSet(b) \cup r), top, L)
    <3>1. ToSet(d.pending) = {}
      BY <1>2, SetEmpty
    <3>2. Before(ToSet(d.queue), r) /\ Covered(ToSet(d.pending) \cup Behind(d, tm, wr), top, L)
      BY <2>5 DEF UnderWay
    <3>3. ToSet(d.pending) \cup Behind(d, tm, wr) = ToSet(a) \cup (ToSet(b) \cup r)
      BY <3>1, <2>7
    <3> QED
      BY <2>3, <3>2, <3>3
  <2>9. Before(ToSet(a), ToSet(b) \cup r)
    BY <2>6, <2>8 DEF Before
  <2>10. UnderWay(f, tm, wr, top, L)
    BY <2>5, <2>6, <2>7, <2>8, <2>9 DEF UnderWay, Before
  <2>11. Fit(a, L)
    BY <2>4, <2>6, <2>8, <2>9, CoverRest DEF Fit
  <2>12. Sent(d, tw) = tx
    BY <1>2, <2>1 DEF Sent, f
  <2>13. p \in Packets /\ p.id = d.sequence + 1 /\ p.data = a
    BY <1>2, <2>1, <2>3 DEF Packets
  <2> HIDE DEF p
  <2>14. /\ tx \in Seq(Packets) /\ Len(tx) = Len(tw) + 1 /\ Len(tw) \in Nat /\ tx # <<>>
         /\ tx[Len(tw) + 1] = p /\ \A i \in 1 .. Len(tw) : tx[i] = tw[i]
    BY <2>13, SetAppend, InSet
  <2> HIDE DEF tx
  <2>20. /\ \A i \in 1 .. Len(tw) : tw[i] \in Packets
         /\ \A i \in 1 .. Len(fw) : fw[i] \in Words
    BY InSet
  <2>21. /\ \A i \in 1 .. Len(tw) : tw[i].id \in Nat /\ tw[i].id <= d.sequence
         /\ \A i \in 1 .. Len(fw) : fw[i].id \in Nat /\ fw[i].id <= d.sequence
    BY <2>5, <2>20 DEF Packets, Words, Numbered
  <2>22. f.sequence = d.sequence + 1
    BY <1>2
  <2>23. d.sequence <= f.sequence /\ f.sequence \in Nat
    BY <2>1, <2>22
  <2>15. Numbered(f, tx, fw, ov)
    <3>1. \A i \in 1 .. Len(tx) : tx[i].id <= f.sequence
      <4> TAKE i \in 1 .. Len(tx)
      <4>1. CASE i \in 1 .. Len(tw)
        <5>1. tx[i].id \in Nat /\ tx[i].id <= d.sequence
          BY <2>14, <2>21, <4>1
        <5>2. d.sequence \in Nat /\ d.sequence <= f.sequence /\ f.sequence \in Nat
          BY <2>1, <2>23
        <5>3. \A k, m, u \in Nat : k <= m /\ m <= u => k <= u
          OBVIOUS
        <5> QED
          BY <5>1, <5>2, <5>3
      <4>2. CASE i \notin 1 .. Len(tw)
        <5>1. tx[i] = p
          <6>1. \A m \in Nat : \A j \in 1 .. m + 1 : j \in 1 .. m \/ j = m + 1
            OBVIOUS
          <6>2. i = Len(tw) + 1
            BY <2>14, <4>2, <6>1
          <6> QED
            BY <2>14, <6>2
        <5> QED
          BY <1>2, <2>1, <2>13, <5>1
      <4> QED
        BY <4>1, <4>2
    <3>2. \A i \in 1 .. Len(fw) : fw[i].id <= f.sequence
      <4> TAKE i \in 1 .. Len(fw)
      <4>1. fw[i].id \in Nat /\ fw[i].id <= d.sequence
        BY <2>21
      <4>2. d.sequence \in Nat /\ d.sequence <= f.sequence /\ f.sequence \in Nat
        BY <2>1, <2>23
      <4>3. \A k, m, u \in Nat : k <= m /\ m <= u => k <= u
        OBVIOUS
      <4> QED
        BY <4>1, <4>2, <4>3
    <3>3. ~f.failed
      BY <1>2, <2>5 DEF Numbered
    <3> QED
      BY <3>1, <3>2, <3>3 DEF Numbered
  <2>16. ASSUME Displayed(sh, tw, d, tm, wr, top, L), Answering(d, tw, fw)
         PROVE  Displayed(sh, tx, f, tm, wr, top, L) /\ Answering(f, tx, fw)
    <3> DEFINE V == Viewed(sh, tw)
    <3>1. ~Unread(tw)
      BY <1>2, <2>5, <2>16 DEF Answering, Numbered
    <3>2. tw = <<>> <=> Len(tw) = 0
      BY InSet
    <3>3. Unread(tx) /\ tx[Len(tx)] = p
      BY <2>1, <2>13, <2>14 DEF Unread
    <3>4. Resets(tx) <=> Resets(tw)
      <4>1. \A i \in 1 .. Len(tx) : i \in 1 .. Len(tw) \/ i = Len(tw) + 1
        BY <2>14
      <4>2. \A i \in 1 .. Len(tw) : i \in 1 .. Len(tx)
        BY <2>14
      <4>3. p.id # 0
        BY <2>1, <2>13
      <4> QED
        BY <2>14, <4>1, <4>2, <4>3 DEF Resets
    <3>5. Viewed(sh, tx) = V \cup ToSet(a)
      BY <2>13, <3>1, <3>3, <3>4 DEF Viewed
    <3>6. V \in SUBSET Nat
      BY <2>4, <3>1 DEF Viewed
    <3> HIDE DEF V
    <3>7. Before(V, ToSet(a) \cup ToSet(b) \cup r) /\ Covered(V \cup (ToSet(a) \cup ToSet(b) \cup r), top, L)
      BY <2>7, <2>16 DEF Displayed, V
    <3>8. Before(V \cup ToSet(a), ToSet(b) \cup r)
      BY <2>9, <3>7 DEF Before
    <3>9. Covered((V \cup ToSet(a)) \cup (ToSet(b) \cup r), top, L)
      <4>1. V \cup (ToSet(a) \cup ToSet(b) \cup r) = (V \cup ToSet(a)) \cup (ToSet(b) \cup r)
        OBVIOUS
      <4> QED
        BY <3>7, <4>1
    <3>10. \A i \in 1 .. Len(tx) : Fit(tx[i].data, L)
      <4>1. \A i \in 1 .. Len(tw) : Fit(tw[i].data, L)
        BY <2>16 DEF Displayed
      <4> QED
        BY <2>11, <2>13, <2>14, <4>1
    <3>11. \A i \in 1 .. Len(tx) - 1 : tx[i].id = 0 \/ tx[i + 1].id = 0
      <4> SUFFICES ASSUME NEW i \in 1 .. Len(tw) PROVE tx[i].id = 0 \/ tx[i + 1].id = 0
        BY <2>14
      <4>1. CASE i = Len(tw)
        BY <2>14, <3>1, <3>2, <4>1 DEF Unread
      <4>2. CASE i # Len(tw)
        <5>1. i \in 1 .. Len(tw) - 1 /\ i + 1 \in 1 .. Len(tw)
          BY <2>14, <4>2
        <5> QED
          BY <2>14, <2>16, <5>1 DEF Displayed
      <4> QED
        BY <4>1, <4>2
    <3>12. tx # <<>> /\ tx[1].id # 0 => Fit(sh \o tx[1].data, L)
      <4>1. CASE tw # <<>>
        <5>1. 1 \in 1 .. Len(tw)
          BY <2>14, <3>2, <4>1
        <5>2. tx[1] = tw[1]
          BY <2>14, <5>1
        <5> QED
          BY <2>16, <4>1, <5>2 DEF Displayed
      <4>2. CASE tw = <<>>
        <5>1. tx[1] = p
          BY <2>14, <3>2, <4>2
        <5>2. V = ToSet(sh)
          <6>1. ~Resets(tw)
            BY <2>14, <3>2, <4>2 DEF Resets
          <6> QED
            BY <3>1, <6>1 DEF V, Viewed
        <5>3. Fit(sh, L)
          BY <2>16 DEF Displayed
        <5>4. Before(ToSet(sh), ToSet(a))
          BY <3>7, <5>2 DEF Before
        <5>5. Rising(sh \o a)
          BY <2>4, <2>6, <5>3, <5>4, RiseJoin DEF Fit
        <5>6. Gapless(V \cup ToSet(a), L)
          <6>1. V \cup ToSet(a) \in SUBSET Nat /\ ToSet(b) \cup r \in SUBSET Nat
            BY <2>4, <3>6
          <6> QED
            BY <3>8, <3>9, <6>1, CoverRest
        <5>7. ToSet(sh \o a) = ToSet(sh) \cup ToSet(a)
          BY <2>4, SetJoin
        <5> QED
          BY <2>13, <5>1, <5>2, <5>5, <5>6, <5>7 DEF Fit
      <4> QED
        BY <4>1, <4>2
    <3>13. Displayed(sh, tx, f, tm, wr, top, L)
      <4>1. Fit(sh, L)
        BY <2>16 DEF Displayed
      <4> QED
        BY <2>7, <3>5, <3>8, <3>9, <3>10, <3>11, <3>12, <4>1 DEF Displayed
    <3>14. a # <<>>
      BY <2>2, <2>3, InSet
    <3>15. \A i \in 1 .. Len(tx) : tx[i].id = f.sequence => i = Len(tx)
      <4>2. \A i \in 1 .. Len(tx) : i \in 1 .. Len(tw) \/ i = Len(tx)
        BY <2>14
      <4> SUFFICES ASSUME NEW i \in 1 .. Len(tw) PROVE tx[i].id # f.sequence
        BY <4>2
      <4>1. tx[i].id \in Nat /\ tx[i].id <= d.sequence
        BY <2>14, <2>21
      <4> QED
        BY <1>2, <2>1, <4>1
    <3>16. Ack(f.sequence) \notin ToSet(fw)
      <4>1. \A w \in ToSet(fw) : \E i \in 1 .. Len(fw) : w = fw[i]
        BY InSet
      <4>2. Ack(f.sequence).id = d.sequence + 1
        BY <1>2 DEF Ack
      <4>3. \A i \in 1 .. Len(fw) : fw[i].id # d.sequence + 1
        BY <2>1, <2>21
      <4> QED
        BY <4>1, <4>2, <4>3
    <3> QED
      BY <3>13, <3>14, <3>15, <3>16 DEF Answering
  <2> QED
    BY <2>10, <2>12, <2>15, <2>16 DEF Orderly
<1> QED
  BY <1>1, <1>2, FlushedIs

(* What happens to the output between the worker and the desktop.          *)
LEMMA OrderKept ==
  ASSUME NEW d \in Deliveries, NEW tm, NEW wr, NEW tn, NEW wq,
         NEW tw, NEW fw, NEW sh, NEW ld, NEW top, NEW L, NEW M, NEW ov,
         Orderly(d, tm, wr, tw, fw, sh, ld, top, L, ov),
         Rising(tn), Rising(wq), Before(ToSet(tn), ToSet(wq)),
         ToSet(tn) \cup ToSet(wq) \subseteq ToSet(tm) \cup ToSet(wr),
         ToSet(tm) \cup ToSet(wr) \subseteq ToSet(tn) \cup ToSet(wq) \cup M, L \subseteq M
  PROVE  Orderly(d, tn, wq, tw, fw, sh, ld, top, M, ov)
<1>1. Behind(d, tn, wq) \subseteq Behind(d, tm, wr) /\ Behind(d, tm, wr) \subseteq Behind(d, tn, wq) \cup M
  BY DEF Behind
<1>2. UnderWay(d, tn, wq, top, M)
  <2> USE DEF UnderWay
  <2>1. UnderWay(d, tm, wr, top, L)
    BY DEF Orderly
  <2>2. Covered(ToSet(d.pending) \cup Behind(d, tn, wq), top, M)
    <3>1. /\ ToSet(d.pending) \cup Behind(d, tn, wq) \subseteq ToSet(d.pending) \cup Behind(d, tm, wr)
          /\ ToSet(d.pending) \cup Behind(d, tm, wr) \subseteq (ToSet(d.pending) \cup Behind(d, tn, wq)) \cup M
      BY <1>1
    <3>2. Covered(ToSet(d.pending) \cup Behind(d, tm, wr), top, L)
      BY <2>1
    <3> QED
      BY <3>1, <3>2, CoverKept
  <2>3. Before(ToSet(d.pending), Behind(d, tn, wq)) /\ Before(ToSet(d.queue), ToSet(tn) \cup ToSet(wq))
    BY <1>1, <2>1 DEF Before
  <2> QED
    BY <2>1, <2>2, <2>3
<1>3. ASSUME Displayed(sh, tw, d, tm, wr, top, L) PROVE Displayed(sh, tw, d, tn, wq, top, M)
  <2> DEFINE V == Viewed(sh, tw)
  <2>1. Covered(V \cup Behind(d, tm, wr), top, L) /\ Before(V, Behind(d, tm, wr))
    BY <1>3 DEF Displayed
  <2> HIDE DEF V
  <2>2. Covered(V \cup Behind(d, tn, wq), top, M)
    <3>1. /\ V \cup Behind(d, tn, wq) \subseteq V \cup Behind(d, tm, wr)
          /\ V \cup Behind(d, tm, wr) \subseteq (V \cup Behind(d, tn, wq)) \cup M
      BY <1>1
    <3> QED
      BY <2>1, <3>1, CoverKept
  <2>3. Before(V, Behind(d, tn, wq))
    BY <1>1, <2>1 DEF Before
  <2>4. \A q : Fit(q, L) => Fit(q, M)
    BY FitKept
  <2>5. /\ Fit(sh, L) /\ \A i \in 1 .. Len(tw) : Fit(tw[i].data, L)
        /\ \A i \in 1 .. Len(tw) - 1 : tw[i].id = 0 \/ tw[i + 1].id = 0
        /\ tw # <<>> /\ tw[1].id # 0 => Fit(sh \o tw[1].data, L)
    BY <1>3 DEF Displayed
  <2> QED
    BY <2>2, <2>3, <2>4, <2>5 DEF Displayed, V
<1> QED
  BY <1>2, <1>3 DEF Orderly

LEMMA OrderGrows ==
  ASSUME NEW d \in Deliveries, NEW tm \in Seq(Chunks), NEW wr \in Seq(Chunks), NEW tw \in Seq(Packets),
         NEW fw, NEW sh \in Seq(Chunks), NEW ld, NEW top \in Nat, NEW L, NEW ov,
         Orderly(d, tm, wr, tw, fw, sh, ld, top, L, ov), top + 1 \in Chunks
  PROVE  Orderly(d, tm, Append(wr, top + 1), tw, fw, sh, ld, top + 1, L, ov)
<1> DEFINE wq == Append(wr, top + 1)
           r == Behind(d, tm, wr)
<1>1. /\ d.pending \in Seq(Chunks) /\ d.queue \in Seq(Chunks)
      /\ ToSet(wq) = ToSet(wr) \cup {top + 1}
  BY SetAppend DEF Deliveries
<1>2. /\ ToSet(d.pending) \in SUBSET Nat /\ ToSet(d.queue) \in SUBSET Nat /\ ToSet(tm) \in SUBSET Nat
      /\ wr \in Seq(Nat) /\ ToSet(wr) \in SUBSET Nat /\ ToSet(sh) \in SUBSET Nat
  BY <1>1, ChunkSeqs
<1>3. Behind(d, tm, wq) = r \cup {top + 1}
  BY <1>1 DEF Behind
<1>4. r \in SUBSET Nat
  BY <1>2 DEF Behind
<1>5. UnderWay(d, tm, wr, top, L)
  BY DEF Orderly
<1>6. /\ Covered((ToSet(d.pending) \cup r) \cup {top + 1}, top + 1, L)
      /\ Before(ToSet(d.pending) \cup r, {top + 1})
  <2>1. Covered(ToSet(d.pending) \cup r, top, L) /\ ToSet(d.pending) \cup r \in SUBSET Nat
    BY <1>2, <1>4, <1>5 DEF UnderWay
  <2> QED
    BY <2>1, CoverMore
<1>7. ToSet(d.queue) \subseteq r /\ ToSet(tm) \subseteq r /\ ToSet(wr) \subseteq r
  BY DEF Behind
<1>8. Rising(wq)
  <2>1. Before(ToSet(wr), {top + 1}) /\ Rising(wr) /\ top + 1 \in Nat
    BY <1>5, <1>6, <1>7 DEF UnderWay, Before
  <2> QED
    BY <1>2, <2>1, RiseAppend
<1> HIDE DEF wq
<1>9. UnderWay(d, tm, wq, top + 1, L)
  <2>1. ToSet(d.pending) \cup (r \cup {top + 1}) = (ToSet(d.pending) \cup r) \cup {top + 1}
    OBVIOUS
  <2>2. Covered(ToSet(d.pending) \cup (r \cup {top + 1}), top + 1, L)
    BY <1>6, <2>1
  <2> HIDE DEF r
  <2>3. Before(ToSet(d.pending), r \cup {top + 1})
    BY <1>5, <1>6 DEF UnderWay, Before, r
  <2>4. /\ Before(ToSet(d.queue), ToSet(tm) \cup (ToSet(wr) \cup {top + 1}))
        /\ Before(ToSet(tm), ToSet(wr) \cup {top + 1})
    BY <1>5, <1>6, <1>7 DEF UnderWay, Before
  <2> QED
    BY <1>1, <1>3, <1>5, <1>8, <2>2, <2>3, <2>4 DEF UnderWay
<1>10. ASSUME Displayed(sh, tw, d, tm, wr, top, L) PROVE Displayed(sh, tw, d, tm, wq, top + 1, L)
  <2> DEFINE V == Viewed(sh, tw)
  <2>1. Covered(V \cup r, top, L) /\ Before(V, r)
    BY <1>10 DEF Displayed
  <2>2. V \in SUBSET Nat
    <3>1. Unread(tw) => tw[Len(tw)].data \in Seq(Chunks)
      <4>1. Unread(tw) => Len(tw) \in 1 .. Len(tw)
        BY InSet DEF Unread
      <4>2. \A i \in 1 .. Len(tw) : tw[i] \in Packets
        BY InSet
      <4> QED
        BY <4>1, <4>2 DEF Packets
    <3>2. Unread(tw) => ToSet(tw[Len(tw)].data) \in SUBSET Nat
      BY <3>1, ChunkSeqs
    <3> QED
      BY <1>2, <3>2 DEF Viewed
  <2> HIDE DEF V, r
  <2>3. Covered((V \cup r) \cup {top + 1}, top + 1, L) /\ Before(V \cup r, {top + 1})
    <3>1. V \cup r \in SUBSET Nat
      BY <1>4, <2>2
    <3> QED
      BY <2>1, <3>1, CoverMore
  <2>4. (V \cup r) \cup {top + 1} = V \cup (r \cup {top + 1})
    OBVIOUS
  <2>5. Covered(V \cup (r \cup {top + 1}), top + 1, L)
    BY <2>3, <2>4
  <2>6. Before(V, r \cup {top + 1})
    BY <2>1, <2>3 DEF Before
  <2> QED
    BY <1>3, <1>10, <2>5, <2>6 DEF Displayed, V
<1> QED
  BY <1>9, <1>10 DEF Orderly, wq

(* What happens at the desktop.                                            *)
LEMMA OrderSame ==
  ASSUME NEW d, NEW e, NEW tm, NEW wr, NEW tw,
         NEW fw \in Seq(Words), NEW fx \in Seq(Words), NEW sh, NEW ld, NEW top, NEW L, NEW ov,
         Orderly(d, tm, wr, tw, fw, sh, ld, top, L, ov), d.sequence \in Nat,
         e.queue = d.queue, e.pending = d.pending, e.sequence = d.sequence, e.failed = d.failed,
         \A w \in ToSet(fx) : w \in ToSet(fw) \/ (w.kind # "ack" /\ w.id = 0)
  PROVE  Orderly(e, tm, wr, tw, fx, sh, ld, top, L, ov)
<1>1. \A i \in 1 .. Len(fx) : fx[i].id <= d.sequence
  <2>1. \A w \in ToSet(fw) : \E i \in 1 .. Len(fw) : w = fw[i]
    BY InSet
  <2>2. \A i \in 1 .. Len(fw) : fw[i].id <= d.sequence
    BY DEF Orderly, Numbered
  <2>3. \A i \in 1 .. Len(fx) : fx[i] \in ToSet(fx)
    BY InSet
  <2>4. 0 <= d.sequence
    OBVIOUS
  <2> QED
    BY <2>1, <2>2, <2>3, <2>4
<1>2. Ack(d.sequence) \in ToSet(fx) => Ack(d.sequence) \in ToSet(fw)
  <2>1. Ack(d.sequence).kind = "ack"
    BY DEF Ack
  <2> QED
    BY <2>1
<1>3. Behind(e, tm, wr) = Behind(d, tm, wr)
  BY DEF Behind
<1>4. Numbered(e, tw, fx, ov)
  BY <1>1 DEF Orderly, Numbered
<1>5. UnderWay(e, tm, wr, top, L)
  BY <1>3 DEF Orderly, UnderWay
<1>6. Displayed(sh, tw, d, tm, wr, top, L) => Displayed(sh, tw, e, tm, wr, top, L)
  BY <1>3 DEF Displayed
<1>7. Answering(d, tw, fw) => Answering(e, tw, fx)
  BY <1>2 DEF Answering
<1> QED
  BY <1>4, <1>5, <1>6, <1>7 DEF Orderly

LEMMA OrderQueued ==
  ASSUME NEW d \in Deliveries, NEW e, NEW tm \in Seq(Chunks), NEW wr, NEW tw,
         NEW fw, NEW sh, NEW ld, NEW top, NEW L, NEW ov, tm # <<>>,
         Orderly(d, tm, wr, tw, fw, sh, ld, top, L, ov), ~d.failed,
         e.queue = Append(d.queue, Head(tm)), e.pending = d.pending,
         e.sequence = d.sequence, e.failed = d.failed
  PROVE  Orderly(e, Tail(tm), wr, tw, fw, sh, ld, top, L, ov)
<1>1. d.queue \in Seq(Chunks)
  BY DEF Deliveries
<1>2. Head(tm) \in Chunks /\ ToSet(tm) = {Head(tm)} \cup ToSet(Tail(tm))
  BY SetTail
<1>3. ToSet(e.queue) = ToSet(d.queue) \cup {Head(tm)}
  BY <1>1, <1>2, SetAppend
<1>4. UnderWay(d, tm, wr, top, L) /\ Numbered(d, tw, fw, ov)
  BY DEF Orderly
<1>5. d.queue \in Seq(Nat) /\ tm \in Seq(Nat) /\ Head(tm) \in Nat
  BY <1>1, <1>2, ChunkSeqs
<1>6. Rising(tm) /\ Rising(d.queue) /\ Before(ToSet(d.queue), ToSet(tm) \cup ToSet(wr))
      /\ Before(ToSet(tm), ToSet(wr))
  BY <1>4 DEF UnderWay
<1>7. Rising(Tail(tm)) /\ Before({Head(tm)}, ToSet(Tail(tm)))
  BY <1>5, <1>6, RiseTail
<1>8. Rising(e.queue)
  <2>1. Before(ToSet(d.queue), {Head(tm)})
    BY <1>2, <1>6 DEF Before
  <2> QED
    BY <1>5, <1>6, <2>1, RiseAppend
<1>9. /\ Before(ToSet(e.queue), ToSet(Tail(tm)) \cup ToSet(wr))
      /\ Before(ToSet(Tail(tm)), ToSet(wr))
  BY <1>2, <1>3, <1>6, <1>7 DEF Before
<1>10. Behind(e, Tail(tm), wr) = Behind(d, tm, wr)
  BY <1>2, <1>3 DEF Behind
<1>11. UnderWay(e, Tail(tm), wr, top, L)
  BY <1>4, <1>7, <1>8, <1>9, <1>10 DEF UnderWay
<1>12. Displayed(sh, tw, d, tm, wr, top, L) => Displayed(sh, tw, e, Tail(tm), wr, top, L)
  BY <1>10 DEF Displayed
<1>13. Answering(d, tw, fw) => Answering(e, tw, fw)
  BY DEF Answering
<1>14. Numbered(e, tw, fw, ov)
  BY <1>4 DEF Numbered
<1> QED
  BY <1>11, <1>12, <1>13, <1>14 DEF Orderly

(* What was held or queued is given up.                                    *)
LEMMA OrderGivenUp ==
  ASSUME NEW d \in Deliveries, NEW e, NEW tm, NEW wr, NEW tn, NEW tw,
         NEW fw, NEW sh, NEW ld, NEW top, NEW L, NEW M, NEW ov, NEW ow,
         Orderly(d, tm, wr, tw, fw, sh, ld, top, L, ov),
         e.queue = <<>>, e.pending = <<>>, e.sequence = d.sequence, e.failed, ow,
         Rising(tn), ToSet(tn) \subseteq ToSet(tm),
         ToSet(tm) \subseteq ToSet(tn) \cup M,
         L \cup ToSet(d.queue) \cup ToSet(d.pending) \subseteq M
  PROVE  Orderly(e, tn, wr, tw, fw, sh, ld, top, M, ow)
<1>1. ToSet(e.queue) = {} /\ ToSet(e.pending) = {} /\ Rising(<<>>)
  BY SetEmpty, RiseEmpty
<1>2. Behind(e, tn, wr) = ToSet(tn) \cup ToSet(wr)
  BY <1>1 DEF Behind
<1>3. Behind(e, tn, wr) \subseteq Behind(d, tm, wr) /\ Behind(d, tm, wr) \subseteq Behind(e, tn, wr) \cup M
  BY <1>2 DEF Behind
<1>4. UnderWay(d, tm, wr, top, L) /\ Numbered(d, tw, fw, ov)
  BY DEF Orderly
<1>5. UnderWay(e, tn, wr, top, M)
  <2>1. Covered(ToSet(e.pending) \cup Behind(e, tn, wr), top, M)
    <3>1. Covered(ToSet(d.pending) \cup Behind(d, tm, wr), top, L)
      BY <1>4 DEF UnderWay
    <3>2. /\ ToSet(e.pending) \cup Behind(e, tn, wr) \subseteq ToSet(d.pending) \cup Behind(d, tm, wr)
          /\ ToSet(d.pending) \cup Behind(d, tm, wr) \subseteq (ToSet(e.pending) \cup Behind(e, tn, wr)) \cup M
      BY <1>1, <1>3
    <3> QED
      BY <3>1, <3>2, CoverKept
  <2>2. Rising(wr) /\ Before(ToSet(tn), ToSet(wr))
    BY <1>4 DEF UnderWay, Before
  <2> QED
    BY <1>1, <2>1, <2>2 DEF UnderWay, Before
<1>6. ASSUME Displayed(sh, tw, d, tm, wr, top, L) PROVE Displayed(sh, tw, e, tn, wr, top, M)
  <2> DEFINE V == Viewed(sh, tw)
  <2>1. Covered(V \cup Behind(d, tm, wr), top, L) /\ Before(V, Behind(d, tm, wr))
    BY <1>6 DEF Displayed
  <2> HIDE DEF V
  <2>2. Covered(V \cup Behind(e, tn, wr), top, M)
    <3>1. /\ V \cup Behind(e, tn, wr) \subseteq V \cup Behind(d, tm, wr)
          /\ V \cup Behind(d, tm, wr) \subseteq (V \cup Behind(e, tn, wr)) \cup M
      BY <1>3
    <3> QED
      BY <2>1, <3>1, CoverKept
  <2>3. Before(V, Behind(e, tn, wr))
    BY <1>3, <2>1 DEF Before
  <2>4. \A q : Fit(q, L) => Fit(q, M)
    BY FitKept
  <2>5. /\ Fit(sh, L) /\ \A i \in 1 .. Len(tw) : Fit(tw[i].data, L)
        /\ \A i \in 1 .. Len(tw) - 1 : tw[i].id = 0 \/ tw[i + 1].id = 0
        /\ tw # <<>> /\ tw[1].id # 0 => Fit(sh \o tw[1].data, L)
    BY <1>6 DEF Displayed
  <2> QED
    BY <2>2, <2>3, <2>4, <2>5 DEF Displayed, V
<1>7. Answering(e, tw, fw) /\ Numbered(e, tw, fw, ow)
  BY <1>4 DEF Answering, Numbered
<1> QED
  BY <1>5, <1>6, <1>7 DEF Orderly

(* The window has parsed what was held.                                    *)
LEMMA OrderAcknowledged ==
  ASSUME NEW d \in Deliveries, NEW e, NEW tm \in Seq(Chunks), NEW wr \in Seq(Chunks), NEW tw,
         NEW fw \in Seq(Words), NEW fx \in Seq(Words), NEW sh, NEW ld, NEW top \in Nat, NEW L, NEW ov,
         Orderly(d, tm, wr, tw, fw, sh, ld, top, L, ov),
         d.pending # <<>>, Ack(d.sequence) \in ToSet(fw), ToSet(fx) \subseteq ToSet(fw),
         e.queue = d.queue, e.pending = <<>>, e.sequence = d.sequence, e.failed = d.failed
  PROVE  Orderly(e, tm, wr, tw, fx, sh, ld, top, L, ov)
<1>1. ToSet(e.pending) = {} /\ Rising(<<>>)
  BY SetEmpty, RiseEmpty
<1>2. Behind(e, tm, wr) = Behind(d, tm, wr)
  BY DEF Behind
<1>3. UnderWay(d, tm, wr, top, L) /\ Numbered(d, tw, fw, ov)
  BY DEF Orderly
<1>4. UnderWay(e, tm, wr, top, L)
  <2>1. d.pending \in Seq(Chunks) /\ d.queue \in Seq(Chunks)
    BY DEF Deliveries
  <2>2. ToSet(d.pending) \in SUBSET Nat /\ ToSet(d.queue) \in SUBSET Nat
        /\ ToSet(tm) \in SUBSET Nat /\ ToSet(wr) \in SUBSET Nat
    BY <2>1, ChunkSeqs
  <2>3. Behind(d, tm, wr) \in SUBSET Nat
    BY <2>2 DEF Behind
  <2>4. Before(ToSet(d.pending), Behind(d, tm, wr)) /\ Covered(ToSet(d.pending) \cup Behind(d, tm, wr), top, L)
    BY <1>3 DEF UnderWay
  <2>5. Covered(Behind(d, tm, wr), top, L)
    BY <2>2, <2>3, <2>4, CoverRest
  <2>6. ToSet(e.pending) \cup Behind(e, tm, wr) = Behind(d, tm, wr)
    BY <1>1, <1>2
  <2>7. Covered(ToSet(e.pending) \cup Behind(e, tm, wr), top, L)
    BY <2>5, <2>6
  <2> QED
    BY <1>1, <1>3, <2>7 DEF UnderWay, Before
<1>5. Displayed(sh, tw, d, tm, wr, top, L) => Displayed(sh, tw, e, tm, wr, top, L)
  BY <1>2 DEF Displayed
<1>6. Answering(d, tw, fw) => Answering(e, tw, fx)
  BY DEF Answering
<1>7. Numbered(e, tw, fx, ov)
  <2>1. \A w \in ToSet(fw) : \E i \in 1 .. Len(fw) : w = fw[i]
    BY InSet
  <2>2. \A i \in 1 .. Len(fx) : fx[i] \in ToSet(fx)
    BY InSet
  <2>3. \A i \in 1 .. Len(fx) : fx[i].id <= e.sequence
    BY <1>3, <2>1, <2>2 DEF Numbered
  <2>4. ~d.failed
    BY <1>3 DEF Numbered
  <2> QED
    BY <1>3, <2>3, <2>4 DEF Numbered
<1> QED
  BY <1>4, <1>5, <1>6, <1>7 DEF Orderly

(* The window reloads: what was held is to be sent again.                  *)
LEMMA OrderUnsent ==
  ASSUME NEW d \in Deliveries, NEW e, NEW tm, NEW wr, NEW tw,
         NEW fw, NEW sh, NEW ld, NEW top, NEW L, NEW ov,
         Orderly(d, tm, wr, tw, fw, sh, ld, top, L, ov),
         e.queue = d.pending \o d.queue, e.pending = <<>>, e.sequence = d.sequence, ~e.failed
  PROVE  Orderly(e, tm, wr, tw, fw, sh, TRUE, top, L, ov)
<1>1. ToSet(e.pending) = {} /\ Rising(<<>>)
  BY SetEmpty, RiseEmpty
<1>2. d.pending \in Seq(Chunks) /\ d.queue \in Seq(Chunks)
  BY DEF Deliveries
<1>3. d.pending \in Seq(Nat) /\ d.queue \in Seq(Nat)
  BY <1>2, ChunkSeqs
<1>4. ToSet(e.queue) = ToSet(d.pending) \cup ToSet(d.queue)
  BY <1>2, SetJoin
<1>5. UnderWay(d, tm, wr, top, L) /\ Numbered(d, tw, fw, ov)
  BY DEF Orderly
<1>6. ToSet(d.queue) \subseteq Behind(d, tm, wr) /\ ToSet(tm) \cup ToSet(wr) \subseteq Behind(d, tm, wr)
  BY DEF Behind
<1>7. Before(ToSet(d.pending), Behind(d, tm, wr)) /\ Before(ToSet(d.queue), ToSet(tm) \cup ToSet(wr))
      /\ Rising(d.pending) /\ Rising(d.queue)
  BY <1>5 DEF UnderWay
<1>8. Rising(e.queue)
  <2>1. Before(ToSet(d.pending), ToSet(d.queue))
    BY <1>6, <1>7 DEF Before
  <2> QED
    BY <1>3, <1>7, <2>1, RiseJoin
<1>9. Before(ToSet(e.queue), ToSet(tm) \cup ToSet(wr))
  BY <1>4, <1>6, <1>7 DEF Before
<1>10. ToSet(e.pending) \cup Behind(e, tm, wr) = ToSet(d.pending) \cup Behind(d, tm, wr)
  BY <1>1, <1>4 DEF Behind
<1>11. UnderWay(e, tm, wr, top, L)
  BY <1>1, <1>5, <1>8, <1>9, <1>10 DEF UnderWay, Before
<1>12. Numbered(e, tw, fw, ov)
  BY <1>5 DEF Numbered
<1> QED
  BY <1>11, <1>12 DEF Orderly

(* The user has the display reset: it begins again with what is coming.    *)
LEMMA OrderReset ==
  ASSUME NEW d \in Deliveries, NEW e, NEW tm \in Seq(Chunks), NEW wr \in Seq(Chunks),
         NEW tw \in Seq(Packets), NEW fw \in Seq(Words), NEW fx \in Seq(Words),
         NEW sh, NEW ld, NEW top \in Nat, NEW L, NEW ov,
         Orderly(d, tm, wr, tw, fw, sh, ld, top, L, ov), ToSet(fx) \subseteq ToSet(fw),
         e.queue = <<>>, e.pending = <<>>, e.sequence = d.sequence, ~e.failed
  PROVE  Orderly(e, tm, wr, Append(tw, [id |-> 0, data |-> <<>>]), fx, sh, ld, top,
                 L \cup ToSet(d.queue) \cup ToSet(d.pending), ov)
<1> DEFINE p == [id |-> 0, data |-> <<>>]
           tx == Append(tw, p)
           r == ToSet(tm) \cup ToSet(wr)
           M == L \cup ToSet(d.queue) \cup ToSet(d.pending)
<1>1. ToSet(e.queue) = {} /\ ToSet(e.pending) = {} /\ Rising(<<>>) /\ Fit(<<>>, M)
  BY SetEmpty, RiseEmpty
<1>2. Behind(e, tm, wr) = r /\ ToSet(e.pending) \cup Behind(e, tm, wr) = r
  BY <1>1 DEF Behind
<1>3. UnderWay(d, tm, wr, top, L) /\ Numbered(d, tw, fw, ov) /\ d.sequence \in Nat
  BY DEF Orderly, Deliveries
<1>4. Covered(r, top, M)
  <2>1. Covered(ToSet(d.pending) \cup Behind(d, tm, wr), top, L)
    BY <1>3 DEF UnderWay
  <2>2. r \subseteq ToSet(d.pending) \cup Behind(d, tm, wr)
        /\ ToSet(d.pending) \cup Behind(d, tm, wr) \subseteq r \cup M
    BY DEF Behind
  <2> QED
    BY <2>1, <2>2, CoverKept
<1>5. UnderWay(e, tm, wr, top, M)
  BY <1>1, <1>2, <1>3, <1>4 DEF UnderWay, Before
<1>6. p.id = 0 /\ p.data = <<>>
  OBVIOUS
<1>13. p \in Packets
  BY SetEmpty DEF Packets
<1> HIDE DEF p
<1>7. /\ tx \in Seq(Packets) /\ Len(tx) = Len(tw) + 1 /\ Len(tw) \in Nat /\ tx # <<>>
      /\ tx[Len(tw) + 1] = p /\ \A i \in 1 .. Len(tw) : tx[i] = tw[i]
  <2>1. Len(tw) \in Nat
    BY InSet
  <2>4. \A x \in Packets :
             /\ Append(tw, x) \in Seq(Packets) /\ Len(Append(tw, x)) = Len(tw) + 1
             /\ \A i \in 1 .. Len(tw) : Append(tw, x)[i] = tw[i]
             /\ Append(tw, x)[Len(tw) + 1] = x /\ Append(tw, x) # <<>>
    BY SetAppend
  <2>2. /\ Append(tw, p) \in Seq(Packets) /\ Len(Append(tw, p)) = Len(tw) + 1
        /\ \A i \in 1 .. Len(tw) : Append(tw, p)[i] = tw[i]
        /\ Append(tw, p)[Len(tw) + 1] = p /\ Append(tw, p) # <<>>
    BY <1>13, <2>4
  <2>3. tx = Append(tw, p)
    OBVIOUS
  <2> HIDE DEF tx
  <2> QED
    BY <2>1, <2>2, <2>3
<1> HIDE DEF tx
<1>8. \A i \in 1 .. Len(tx) : i \in 1 .. Len(tw) \/ i = Len(tw) + 1
  BY <1>7
<1>9. Numbered(e, tx, fx, ov)
  <2>1. \A w \in ToSet(fw) : \E i \in 1 .. Len(fw) : w = fw[i]
    BY InSet
  <2>2. \A i \in 1 .. Len(fx) : fx[i] \in ToSet(fx)
    BY InSet
  <2>3. \A i \in 1 .. Len(fx) : fx[i].id <= e.sequence
    BY <1>3, <2>1, <2>2 DEF Numbered
  <2>4. \A i \in 1 .. Len(tw) : tx[i].id <= e.sequence
    BY <1>3, <1>7 DEF Numbered
  <2>5. 0 <= e.sequence
    BY <1>3
  <2>6. \A i \in 1 .. Len(tx) : tx[i].id <= e.sequence
    BY <1>6, <1>7, <1>8, <2>4, <2>5
  <2> QED
    BY <2>3, <2>6 DEF Numbered
<1>10. ~Unread(tx)
  BY <1>6, <1>7 DEF Unread
<1>11. ASSUME Displayed(sh, tw, d, tm, wr, top, L) PROVE Displayed(sh, tx, e, tm, wr, top, M)
  <2>1. \A q : Fit(q, L) => Fit(q, M)
    BY FitKept
  <2>2. /\ Fit(sh, L) /\ \A i \in 1 .. Len(tw) : Fit(tw[i].data, L)
        /\ \A i \in 1 .. Len(tw) - 1 : tw[i].id = 0 \/ tw[i + 1].id = 0
        /\ tw # <<>> /\ tw[1].id # 0 => Fit(sh \o tw[1].data, L)
    BY <1>11 DEF Displayed
  <2>3. \A i \in 1 .. Len(tx) : Fit(tx[i].data, M)
    BY <1>1, <1>6, <1>7, <1>8, <2>1, <2>2
  <2>4. \A i \in 1 .. Len(tx) - 1 : tx[i].id = 0 \/ tx[i + 1].id = 0
    <3> TAKE i \in 1 .. Len(tx) - 1
    <3>1. CASE i = Len(tw)
      BY <1>6, <1>7, <3>1
    <3>2. CASE i # Len(tw)
      <4>1. i \in 1 .. Len(tw) - 1 /\ i \in 1 .. Len(tw) /\ i + 1 \in 1 .. Len(tw)
        BY <1>7, <3>2
      <4> QED
        BY <1>7, <2>2, <4>1
    <3> QED
      BY <3>1, <3>2
  <2>5. tx[1].id # 0 => Fit(sh \o tx[1].data, M)
    <3>1. CASE tw = <<>>
      <4>1. tx[1] = p
        BY <1>7, <3>1, InSet
      <4> QED
        BY <1>6, <4>1
    <3>2. CASE tw # <<>>
      <4>1. 1 \in 1 .. Len(tw)
        BY <1>7, <3>2, InSet
      <4>2. tx[1] = tw[1]
        BY <1>7, <4>1
      <4> QED
        BY <2>1, <2>2, <3>2, <4>2
    <3> QED
      BY <3>1, <3>2
  <2>6. Resets(tx)
    <3>1. Len(tw) + 1 \in 1 .. Len(tx)
      BY <1>7
    <3> QED
      BY <1>6, <1>7, <3>1 DEF Resets
  <2>7. Viewed(sh, tx) = {}
    BY <1>10, <2>6 DEF Viewed
  <2>8. Viewed(sh, tx) \cup Behind(e, tm, wr) = r
    BY <1>2, <2>7
  <2>9. Before(Viewed(sh, tx), Behind(e, tm, wr))
    BY <2>7 DEF Before
  <2> HIDE DEF r, M
  <2> QED
    BY <1>4, <2>1, <2>2, <2>3, <2>4, <2>5, <2>8, <2>9 DEF Displayed
<1>12. Answering(e, tx, fx)
  BY <1>10 DEF Answering
<1> QED
  BY <1>5, <1>9, <1>11, <1>12 DEF Orderly, tx, p

(* The new page is there.                                                  *)
LEMMA OrderMounted ==
  ASSUME NEW d \in Deliveries, NEW tm \in Seq(Chunks), NEW wr \in Seq(Chunks), NEW tw,
         NEW fw \in Seq(Words), NEW sh, NEW ld, NEW top \in Nat, NEW L, NEW ov,
         Orderly(d, tm, wr, tw, fw, sh, ld, top, L, ov)
  PROVE  Orderly(d, tm, wr, <<>>, fw, <<>>, FALSE, top, L, ov)
<1>1. Len(<<>>) = 0 /\ ToSet(<<>>) = {} /\ Fit(<<>>, L) /\ 1 .. 0 = {} /\ 1 .. 0 - 1 = {}
  BY SetEmpty, RiseEmpty
<1>2. ~Unread(<<>>) /\ Viewed(<<>>, <<>>) = {}
  BY <1>1 DEF Unread, Viewed
<1>3. UnderWay(d, tm, wr, top, L) /\ Numbered(d, tw, fw, ov)
  BY DEF Orderly
<1>4. Covered(Behind(d, tm, wr), top, L)
  <2>1. d.pending \in Seq(Chunks) /\ d.queue \in Seq(Chunks)
    BY DEF Deliveries
  <2>2. ToSet(d.pending) \in SUBSET Nat /\ ToSet(d.queue) \in SUBSET Nat
        /\ ToSet(tm) \in SUBSET Nat /\ ToSet(wr) \in SUBSET Nat
    BY <2>1, ChunkSeqs
  <2>3. Behind(d, tm, wr) \in SUBSET Nat
    BY <2>2 DEF Behind
  <2>4. Before(ToSet(d.pending), Behind(d, tm, wr)) /\ Covered(ToSet(d.pending) \cup Behind(d, tm, wr), top, L)
    BY <1>3 DEF UnderWay
  <2> QED
    BY <2>2, <2>3, <2>4, CoverRest
<1>5. Displayed(<<>>, <<>>, d, tm, wr, top, L)
  <2>1. {} \cup Behind(d, tm, wr) = Behind(d, tm, wr)
    OBVIOUS
  <2>2. Covered(Viewed(<<>>, <<>>) \cup Behind(d, tm, wr), top, L)
    BY <1>2, <1>4, <2>1
  <2> QED
    BY <1>1, <1>2, <2>2 DEF Displayed, Before
<1>6. Answering(d, <<>>, fw)
  BY <1>1, <1>2 DEF Answering
<1>7. Numbered(d, <<>>, fw, ov)
  BY <1>1, <1>3 DEF Numbered
<1> QED
  BY <1>3, <1>5, <1>6, <1>7 DEF Orderly

(* The window takes a packet.                                              *)
LEMMA OrderParsed ==
  ASSUME NEW d \in Deliveries, NEW tm \in Seq(Chunks), NEW wr \in Seq(Chunks),
         NEW tw \in Seq(Packets), NEW fw \in Seq(Words),
         NEW sh \in Seq(Chunks), NEW ld, NEW top \in Nat, NEW L, NEW ov, tw # <<>>,
         Orderly(d, tm, wr, tw, fw, sh, ld, top, L, ov)
  PROVE  /\ Head(tw).id = 0 => Orderly(d, tm, wr, Tail(tw), fw, <<>>, ld, top, L, ov)
         /\ Head(tw).id # 0 =>
              Orderly(d, tm, wr, Tail(tw), Append(fw, Ack(Head(tw).id)), sh \o Head(tw).data,
                      ld, top, L, ov)
<1> DEFINE p == Head(tw)
           tx == Tail(tw)
           sx == IF p.id = 0 THEN <<>> ELSE sh \o p.data
           fx == IF p.id = 0 THEN fw ELSE Append(fw, Ack(p.id))
<1>1. /\ tx \in Seq(Packets) /\ Len(tx) = Len(tw) - 1 /\ Len(tw) \in Nat \ {0}
      /\ \A i \in 1 .. Len(tx) : tx[i] = tw[i + 1]
      /\ p = tw[1] /\ p \in Packets
  BY SetTail
<1>2. p.id \in Nat /\ p.data \in Seq(Chunks) /\ Ack(p.id) \in Words /\ Ack(p.id).id = p.id
  BY <1>1 DEF Packets, Words, Ack
<1>3. /\ fx \in Seq(Words) /\ ToSet(fx) = ToSet(fw) \cup (IF p.id = 0 THEN {} ELSE {Ack(p.id)})
  BY <1>2, SetAppend
<1>4. Len(tx) \in Nat /\ (tx = <<>> <=> Len(tx) = 0)
  BY <1>1, InSet
<1> HIDE DEF p, tx, fx
<1>5. UnderWay(d, tm, wr, top, L) /\ Numbered(d, tw, fw, ov) /\ d.sequence \in Nat
  BY DEF Orderly, Deliveries
<1>6. \A i \in 1 .. Len(tx) : i + 1 \in 1 .. Len(tw)
  BY <1>1
<1>20. 1 \in 1 .. Len(tw)
  BY <1>1
<1>7. Numbered(d, tx, fx, ov)
  <2>1. \A i \in 1 .. Len(tx) : tx[i].id <= d.sequence
    BY <1>1, <1>5, <1>6 DEF Numbered
  <2>2. \A w \in ToSet(fw) : \E i \in 1 .. Len(fw) : w = fw[i]
    BY InSet
  <2>3. \A i \in 1 .. Len(fw) : fw[i].id <= d.sequence
    BY <1>5 DEF Numbered
  <2>4. p.id <= d.sequence
    BY <1>1, <1>5, <1>20 DEF Numbered
  <2>5. \A w \in ToSet(fx) : w.id <= d.sequence
    BY <1>2, <1>3, <2>2, <2>3, <2>4
  <2>6. \A i \in 1 .. Len(fx) : fx[i] \in ToSet(fx)
    BY <1>3, InSet
  <2>7. \A i \in 1 .. Len(fx) : fx[i].id <= d.sequence
    BY <2>5, <2>6
  <2> QED
    BY <1>5, <2>1, <2>7 DEF Numbered
<1>8. Unread(tx) => Unread(tw) /\ tx[Len(tx)] = tw[Len(tw)] /\ tx # <<>>
  <2>1. tx # <<>> => Len(tx) \in 1 .. Len(tx) /\ Len(tx) + 1 = Len(tw)
    BY <1>1, <1>4
  <2> QED
    BY <1>1, <2>1 DEF Unread
<1>9. tx # <<>> => (Unread(tx) <=> Unread(tw)) /\ tx[Len(tx)] = tw[Len(tw)]
  <2>1. tx # <<>> => Len(tx) \in 1 .. Len(tx) /\ Len(tx) + 1 = Len(tw)
    BY <1>1, <1>4
  <2> QED
    BY <1>1, <2>1 DEF Unread
<1>10. tx = <<>> => Len(tw) = 1 /\ ~Unread(tx) /\ ~Resets(tx)
  <2>2. 1 .. 0 = {}
    OBVIOUS
  <2>3. tx = <<>> => Len(tw) = 1
    BY <1>1, <1>4
  <2>1. tx = <<>> => Len(tw) = 1 /\ 1 .. Len(tx) = {}
    BY <1>4, <2>2, <2>3
  <2> QED
    BY <2>1 DEF Unread, Resets
<1>11. Resets(tw) <=> p.id = 0 \/ Resets(tx)
  <2>1. \A i \in 1 .. Len(tw) : i = 1 \/ i - 1 \in 1 .. Len(tx)
    BY <1>1
  <2>2. \A i \in 1 .. Len(tw) : i # 1 => tx[i - 1] = tw[i]
    BY <1>1, <2>1
  <2>3. Resets(tw) => p.id = 0 \/ Resets(tx)
    BY <1>1, <2>1, <2>2 DEF Resets
  <2>4. p.id = 0 => Resets(tw)
    BY <1>1, <1>20 DEF Resets
  <2>5. Resets(tx) => Resets(tw)
    BY <1>1, <1>6 DEF Resets
  <2> QED
    BY <2>3, <2>4, <2>5
<1>12. ASSUME Displayed(sh, tw, d, tm, wr, top, L), Answering(d, tw, fw)
       PROVE  Displayed(sx, tx, d, tm, wr, top, L) /\ Answering(d, tx, fx)
  <2>1. /\ Fit(sh, L) /\ \A i \in 1 .. Len(tw) : Fit(tw[i].data, L)
        /\ \A i \in 1 .. Len(tw) - 1 : tw[i].id = 0 \/ tw[i + 1].id = 0
        /\ tw # <<>> /\ tw[1].id # 0 => Fit(sh \o tw[1].data, L)
    BY <1>12 DEF Displayed
  <2>2. \A i \in 1 .. Len(tx) : Fit(tx[i].data, L)
    BY <1>1, <1>6, <2>1
  <2>3. \A i \in 1 .. Len(tx) - 1 : tx[i].id = 0 \/ tx[i + 1].id = 0
    <3> TAKE i \in 1 .. Len(tx) - 1
    <3>1. i \in 1 .. Len(tx) /\ i + 1 \in 1 .. Len(tx) /\ i + 1 \in 1 .. Len(tw) - 1
      BY <1>1
    <3> QED
      BY <1>1, <2>1, <3>1
  <2>4. Fit(sx, L)
    BY <1>1, <2>1, RiseEmpty
  <2>5. tx # <<>> /\ p.id # 0 => tx[1] = tw[2] /\ tx[1].id = 0
    <3> SUFFICES ASSUME tx # <<>>, p.id # 0 PROVE tx[1] = tw[2] /\ tx[1].id = 0
      OBVIOUS
    <3>1. 1 \in 1 .. Len(tx) /\ 1 \in 1 .. Len(tw) - 1 /\ 1 + 1 = 2
      BY <1>1, <1>4
    <3> QED
      BY <1>1, <2>1, <3>1
  <2>6. tx # <<>> /\ tx[1].id # 0 => Fit(sx \o tx[1].data, L)
    <3> SUFFICES ASSUME tx # <<>>, tx[1].id # 0 PROVE Fit(sx \o tx[1].data, L)
      OBVIOUS
    <3>1. sx = <<>>
      BY <2>5
    <3>2. 1 \in 1 .. Len(tx)
      BY <1>4
    <3>3. tx[1].data \in Seq(Chunks)
      <4>1. tx[1] \in Packets
        BY <1>1, <3>2, InSet
      <4> QED
        BY <4>1 DEF Packets
    <3>4. <<>> \o tx[1].data = tx[1].data
      BY <3>3, ConcatEmptySeq
    <3> QED
      BY <2>2, <3>1, <3>2, <3>4
  <2>7. Viewed(sx, tx) = Viewed(sh, tw)
    <3>1. CASE p.id = 0
      <4>1. Resets(tw) /\ ToSet(sx) = {}
        BY <1>11, <3>1, SetEmpty
      <4>2. Unread(tx) <=> Unread(tw)
        BY <1>1, <1>8, <1>9, <1>10, <3>1 DEF Unread
      <4>3. (IF Resets(tx) THEN {} ELSE ToSet(sx)) = {} /\ (IF Resets(tw) THEN {} ELSE ToSet(sh)) = {}
        BY <4>1
      <4> QED
        BY <1>8, <4>2, <4>3 DEF Viewed
    <3>2. CASE p.id # 0 /\ tx = <<>>
      <4>1. ~Resets(tw) /\ Unread(tw) /\ tw[Len(tw)].data = p.data
        BY <1>1, <1>10, <1>11, <3>2 DEF Unread
      <4>2. ToSet(sx) = ToSet(sh) \cup ToSet(p.data)
        BY <1>2, <3>2, SetJoin
      <4>3. Viewed(sh, tw) = ToSet(sh) \cup ToSet(p.data)
        BY <4>1 DEF Viewed
      <4>4. Viewed(sx, tx) = ToSet(sx)
        BY <1>10, <3>2 DEF Viewed
      <4> QED
        BY <4>2, <4>3, <4>4
    <3>3. CASE p.id # 0 /\ tx # <<>>
      <4>1. 1 \in 1 .. Len(tx)
        BY <1>4, <3>3
      <4>2. Resets(tx) /\ Resets(tw)
        BY <1>11, <2>5, <3>3, <4>1 DEF Resets
      <4> QED
        BY <1>9, <3>3, <4>2 DEF Viewed
    <3> QED
      BY <3>1, <3>2, <3>3
  <2>8. Displayed(sx, tx, d, tm, wr, top, L)
    <3> HIDE DEF sx
    <3> QED
      BY <1>12, <2>2, <2>3, <2>4, <2>6, <2>7 DEF Displayed
  <2>9. ASSUME d.pending # <<>>
        PROVE  /\ \A i \in 1 .. Len(tx) : tx[i].id = d.sequence => i = Len(tx)
               /\ Ack(d.sequence) \in ToSet(fx) => ~Unread(tx)
    <3>1. /\ \A i \in 1 .. Len(tw) : tw[i].id = d.sequence => i = Len(tw)
          /\ Ack(d.sequence) \in ToSet(fw) => ~Unread(tw)
      BY <1>12, <2>9 DEF Answering
    <3>2. \A i \in 1 .. Len(tx) : tx[i].id = d.sequence => i = Len(tx)
      <4> SUFFICES ASSUME NEW i \in 1 .. Len(tx), tx[i].id = d.sequence PROVE i = Len(tx)
        OBVIOUS
      <4>1. i + 1 \in 1 .. Len(tw) /\ tw[i + 1].id = d.sequence
        BY <1>1, <1>6
      <4>2. i + 1 = Len(tw)
        BY <3>1, <4>1
      <4> QED
        BY <1>1, <4>2
    <3>3. ASSUME Ack(d.sequence) \in ToSet(fx), Unread(tx) PROVE FALSE
      <4>1. Ack(d.sequence) \notin ToSet(fw)
        BY <1>8, <3>1, <3>3
      <4>2. Ack(d.sequence) = Ack(p.id)
        BY <1>3, <3>3, <4>1
      <4>3. Ack(d.sequence).id = d.sequence
        BY DEF Ack
      <4>4. tw[1].id = d.sequence
        BY <1>1, <1>2, <4>2, <4>3
      <4>5. Len(tw) = 1
        BY <1>20, <3>1, <4>4
      <4> QED
        BY <1>1, <1>4, <1>8, <3>3, <4>5
    <3> QED
      BY <3>2, <3>3
  <2>10. d.pending = <<>> /\ ~d.failed => ~Unread(tx)
    BY <1>8, <1>12 DEF Answering
  <2> QED
    BY <2>8, <2>9, <2>10 DEF Answering
<1>13. Orderly(d, tm, wr, tx, fx, sx, ld, top, L, ov)
  <2> HIDE DEF sx
  <2> QED
    BY <1>5, <1>7, <1>12 DEF Orderly
<1> QED
  BY <1>13 DEF fx, tx, p

LEMMA StreamTypes == StreamTyped => StreamTypeOK
BY DEF StreamTyped, StreamTypeOK, Deliveries, Chunks

LEMMA StreamTypedInit == StreamInit => StreamTyped
<1> SUFFICES ASSUME StreamInit PROVE StreamTyped
  OBVIOUS
<1>1. \A S : <<>> \in Seq(S)
  BY SetEmpty
<1>2. fromWin \in Seq(Words)
  <2>1. On \in Words
    BY DEF On, Words
  <2> QED
    BY <2>1 DEF StreamInit
<1>3. delivery \in Deliveries
  <2>1. Limit \in Nat
    BY StreamAssumption
  <2> QED
    BY <1>1, <2>1 DEF StreamInit, Deliveries
<1>4. delivery.bytes = Len(delivery.queue) + Len(delivery.pending)
  BY SetEmpty DEF StreamInit
<1>5. Output \in Nat
  BY StreamAssumption
<1>6. 0 \in 0 .. Output /\ "up" \in {"up", "closing", "down"}
  BY <1>5
<1> QED
  BY <1>1, <1>2, <1>3, <1>4, <1>6 DEF StreamInit, StreamTyped

LEMMA CutTyped ==
  ASSUME StreamTyped, NEW G \in SUBSET Chunks, Cut(G)
  PROVE  /\ wire' \in Seq(Chunks) /\ flow' \in Seq(BOOLEAN) /\ link' \in {"up", "closing", "down"}
         /\ paused' \in BOOLEAN /\ lost' \in SUBSET Chunks
<1>1. ToSet(wire) \subseteq Chunks
  BY InSet DEF StreamTyped
<1>2. \A S : <<>> \in Seq(S)
  BY SetEmpty
<1> QED
  BY <1>1, <1>2 DEF Cut, StreamTyped

LEMMA TellTyped ==
  ASSUME StreamTyped, NEW p \in BOOLEAN, Tell(p) \/ UNCHANGED flow
  PROVE  flow' \in Seq(BOOLEAN)
<1>1. flow \in Seq(BOOLEAN)
  BY DEF StreamTyped
<1>2. Append(flow, p) \in Seq(BOOLEAN)
  BY <1>1, SetAppend
<1> QED
  BY <1>1, <1>2 DEF Tell

(* The delivery d is flushed; the window is sent what it takes.            *)
LEMMA FlushTyped ==
  ASSUME StreamTyped, NEW d \in Deliveries, d.sequence = delivery.sequence,
         d.bytes = Len(d.queue) + Len(d.pending), Flush(d)
  PROVE  /\ delivery' \in Deliveries /\ toWin' \in Seq(Packets)
         /\ delivery'.bytes = Len(delivery'.queue) + Len(delivery'.pending)
         /\ delivery' = Flushed(d) /\ toWin' = Sent(d, toWin)
<1>1. toWin \in Seq(Packets)
  BY DEF StreamTyped
<1>2. delivery' = Flushed(d) /\ toWin' = Sent(d, toWin)
  BY DEF Flush, Sent
<1> QED
  BY <1>1, <1>2, SentIs

(* The fields of the delivery in each of the operations.                    *)
LEMMA DeliveryHeld ==
  ASSUME StreamTyped
  PROVE  /\ delivery \in Deliveries /\ delivery.queue \in Seq(Chunks) /\ delivery.pending \in Seq(Chunks)
         /\ delivery.sequence \in Nat /\ delivery.bytes \in 0 .. Limit /\ Limit \in Nat
         /\ Len(delivery.queue) \in Nat /\ Len(delivery.pending) \in Nat /\ Len(<<>>) = 0
         /\ delivery.bytes = Len(delivery.queue) + Len(delivery.pending)
         /\ \A S : <<>> \in Seq(S)
<1>1. delivery \in Deliveries /\ delivery.bytes = Len(delivery.queue) + Len(delivery.pending)
  BY DEF StreamTyped
<1>2. /\ delivery.queue \in Seq(Chunks) /\ delivery.pending \in Seq(Chunks)
      /\ delivery.sequence \in Nat /\ delivery.bytes \in 0 .. Limit /\ Limit \in Nat
  BY <1>1, StreamAssumption DEF Deliveries
<1>3. Len(delivery.queue) \in Nat /\ Len(delivery.pending) \in Nat
  BY <1>2, InSet
<1> QED
  BY <1>1, <1>2, <1>3, SetEmpty

LEMMA Weighed ==
  ASSUME StreamTyped
  PROVE  LET m == Len(delivery.queue)
             n == Len(delivery.pending)
             b == delivery.bytes
         IN /\ b + 1 = (m + 1) + n /\ b = (n + m) + Len(<<>>) /\ b - n = m
            /\ m = m + Len(<<>>) /\ m \in 0 .. Limit /\ (b + 1 <= Limit => b + 1 \in 0 .. Limit)
<1> DEFINE m == Len(delivery.queue)
           n == Len(delivery.pending)
           b == delivery.bytes
           z == Len(<<>>)
<1>1. m \in Nat /\ n \in Nat /\ z = 0 /\ b = m + n /\ b \in 0 .. Limit /\ Limit \in Nat
  BY DeliveryHeld
<1> HIDE DEF m, n, b, z
<1>2. /\ b + 1 = (m + 1) + n /\ b = (n + m) + z /\ b - n = m
      /\ m = m + z /\ m \in 0 .. Limit /\ (b + 1 <= Limit => b + 1 \in 0 .. Limit)
  BY <1>1
<1> QED
  BY <1>2 DEF m, n, b, z

LEMMA PushedIs ==
  ASSUME StreamTyped, toMain # <<>>, delivery.bytes + 1 <= Limit
  PROVE  LET q == [delivery EXCEPT !.bytes = @ + 1, !.queue = Append(@, Head(toMain))] IN
         /\ q \in Deliveries /\ q.queue = Append(delivery.queue, Head(toMain))
         /\ q.pending = delivery.pending /\ q.sequence = delivery.sequence
         /\ q.failed = delivery.failed
         /\ q.bytes = delivery.bytes + 1 /\ q.bytes = Len(q.queue) + Len(q.pending)
<1> DEFINE d == delivery
           q == [d EXCEPT !.bytes = @ + 1, !.queue = Append(@, Head(toMain))]
<1>1. d \in Deliveries /\ d.queue \in Seq(Chunks) /\ Len(d.queue) \in Nat /\ Len(d.pending) \in Nat
      /\ d.bytes = Len(d.queue) + Len(d.pending) /\ d.bytes \in 0 .. Limit /\ Limit \in Nat
  BY DeliveryHeld
<1>2. Head(toMain) \in Chunks
  BY SetTail DEF StreamTyped
<1>3. /\ Append(d.queue, Head(toMain)) \in Seq(Chunks)
      /\ Len(Append(d.queue, Head(toMain))) = Len(d.queue) + 1
  BY <1>1, <1>2, SetAppend
<1>4. d.bytes + 1 \in 0 .. Limit
  BY Weighed
<1>5. /\ q.queue = Append(d.queue, Head(toMain)) /\ q.pending = d.pending
      /\ q.sequence = d.sequence /\ q.failed = d.failed /\ q.bytes = d.bytes + 1
  BY <1>1 DEF Deliveries
<1>6. q \in Deliveries
  BY <1>1, <1>3, <1>4 DEF Deliveries
<1>7. Len(q.queue) = Len(d.queue) + 1
  BY <1>3, <1>5
<1>8. q.bytes = Len(q.queue) + Len(q.pending)
  <2> HIDE DEF q, d
  <2>1. d.bytes + 1 = (Len(d.queue) + 1) + Len(d.pending)
    BY Weighed DEF d
  <2> QED
    BY <1>5, <1>7, <2>1
<1> QED
  BY <1>5, <1>6, <1>8

LEMMA ClearedIs ==
  ASSUME StreamTyped
  PROVE  LET c == ClearStall(delivery) IN
         /\ c \in Deliveries /\ c.queue = delivery.queue /\ c.pending = delivery.pending
         /\ c.sequence = delivery.sequence /\ c.failed = delivery.failed /\ c.bytes = delivery.bytes
BY DeliveryHeld DEF ClearStall, Deliveries

LEMMA AcknowledgedIs ==
  ASSUME StreamTyped
  PROVE  LET a == [ClearStall(delivery) EXCEPT !.bytes = @ - Len(delivery.pending), !.pending = <<>>]
         IN /\ a \in Deliveries /\ a.queue = delivery.queue /\ a.pending = <<>>
            /\ a.sequence = delivery.sequence /\ a.failed = delivery.failed
            /\ a.bytes = Len(delivery.queue) /\ a.bytes = Len(a.queue) + Len(a.pending)
<1> DEFINE d == delivery
           c == ClearStall(d)
           a == [c EXCEPT !.bytes = @ - Len(d.pending), !.pending = <<>>]
<1>1. /\ Len(d.queue) \in Nat /\ Len(d.pending) \in Nat /\ Len(<<>>) = 0 /\ <<>> \in Seq(Chunks)
      /\ d.bytes = Len(d.queue) + Len(d.pending) /\ d.bytes \in 0 .. Limit /\ Limit \in Nat
  BY DeliveryHeld
<1>2. c \in Deliveries /\ c.queue = d.queue /\ c.sequence = d.sequence /\ c.failed = d.failed
      /\ c.bytes = d.bytes
  BY ClearedIs
<1> HIDE DEF c, d
<1>3. /\ a.queue = c.queue /\ a.pending = <<>> /\ a.sequence = c.sequence /\ a.failed = c.failed
      /\ a.bytes = c.bytes - Len(d.pending)
  BY <1>2 DEF Deliveries
<1>4. /\ d.bytes - Len(d.pending) = Len(d.queue) /\ Len(d.queue) \in 0 .. Limit
      /\ Len(d.queue) = Len(d.queue) + Len(<<>>)
  BY Weighed DEF d
<1>5. c.bytes - Len(d.pending) \in 0 .. Limit
  BY <1>2, <1>4
<1>6. a \in Deliveries
  BY <1>1, <1>2, <1>5 DEF Deliveries
<1> HIDE DEF a
<1> QED
  BY <1>2, <1>3, <1>4, <1>6 DEF a, c, d

LEMMA UnsentIs ==
  ASSUME StreamTyped
  PROVE  LET u == [Unsent(ClearStall(delivery)) EXCEPT !.ready = FALSE, !.failed = FALSE]
         IN /\ u \in Deliveries /\ u.queue = delivery.pending \o delivery.queue /\ u.pending = <<>>
            /\ u.sequence = delivery.sequence /\ u.failed = FALSE /\ u.ready = FALSE
            /\ u.bytes = delivery.bytes /\ u.bytes = Len(u.queue) + Len(u.pending)
<1> DEFINE d == delivery
           c == ClearStall(d)
           w == Unsent(c)
           u == [w EXCEPT !.ready = FALSE, !.failed = FALSE]
<1>1. /\ Len(d.queue) \in Nat /\ Len(d.pending) \in Nat /\ Len(<<>>) = 0 /\ <<>> \in Seq(Chunks)
      /\ d.bytes = Len(d.queue) + Len(d.pending)
      /\ d.queue \in Seq(Chunks) /\ d.pending \in Seq(Chunks)
  BY DeliveryHeld
<1>2. c \in Deliveries /\ c.queue = d.queue /\ c.pending = d.pending /\ c.sequence = d.sequence
      /\ c.bytes = d.bytes
  BY ClearedIs
<1> HIDE DEF c, d
<1>3. d.pending \o d.queue \in Seq(Chunks) /\ Len(d.pending \o d.queue) = Len(d.pending) + Len(d.queue)
  BY <1>1, SetJoin
<1>4. /\ w \in Deliveries /\ w.queue = d.pending \o d.queue /\ w.pending = <<>>
      /\ w.sequence = c.sequence /\ w.bytes = c.bytes
  BY <1>1, <1>2, <1>3 DEF Unsent, Deliveries
<1> HIDE DEF w
<1>5. /\ u \in Deliveries /\ u.queue = w.queue /\ u.pending = w.pending /\ u.sequence = w.sequence
      /\ u.bytes = w.bytes /\ u.failed = FALSE /\ u.ready = FALSE
  BY <1>4 DEF Deliveries
<1> HIDE DEF u
<1>6. d.bytes = (Len(d.pending) + Len(d.queue)) + Len(<<>>)
  BY Weighed DEF d
<1>7. u.bytes = Len(u.queue) + Len(u.pending)
  BY <1>2, <1>3, <1>4, <1>5, <1>6
<1> QED
  BY <1>2, <1>4, <1>5, <1>7 DEF u, w, c, d

LEMMA MarkedIs ==
  ASSUME StreamTyped
  PROVE  LET r == [delivery EXCEPT !.ready = TRUE]
             s == [delivery EXCEPT !.stalled = TRUE]
         IN /\ r \in Deliveries /\ r.queue = delivery.queue /\ r.pending = delivery.pending
            /\ r.sequence = delivery.sequence /\ r.failed = delivery.failed /\ r.bytes = delivery.bytes
            /\ s \in Deliveries /\ s.queue = delivery.queue /\ s.pending = delivery.pending
            /\ s.sequence = delivery.sequence /\ s.failed = delivery.failed /\ s.bytes = delivery.bytes
BY DeliveryHeld DEF Deliveries

LEMMA GivenUpIs ==
  ASSUME StreamTyped
  PROVE  LET o == [Emptied(delivery) EXCEPT !.failed = TRUE]
             e == [Emptied(delivery) EXCEPT !.failed = FALSE]
         IN /\ o \in Deliveries /\ o.queue = <<>> /\ o.pending = <<>>
            /\ o.sequence = delivery.sequence /\ o.failed = TRUE /\ o.bytes = 0
            /\ e \in Deliveries /\ e.queue = <<>> /\ e.pending = <<>>
            /\ e.sequence = delivery.sequence /\ e.failed = FALSE /\ e.bytes = 0
            /\ o.bytes = Len(o.queue) + Len(o.pending) /\ e.bytes = Len(e.queue) + Len(e.pending)
            /\ ToSet(delivery.queue \o delivery.pending) = ToSet(delivery.queue) \cup ToSet(delivery.pending)
            /\ ToSet(delivery.queue \o delivery.pending) \in SUBSET Chunks
<1> DEFINE c == ClearStall(delivery)
           w == Emptied(delivery)
<1>1. c \in Deliveries /\ c.sequence = delivery.sequence
  BY ClearedIs
<1>2. w = [c EXCEPT !.queue = <<>>, !.pending = <<>>, !.bytes = 0]
  BY DEF Emptied
<1>3. 0 \in 0 .. Limit /\ <<>> \in Seq(Chunks)
  BY DeliveryHeld
<1> HIDE DEF c, w
<1>4. w \in Deliveries /\ w.queue = <<>> /\ w.pending = <<>> /\ w.sequence = delivery.sequence /\ w.bytes = 0
  BY <1>1, <1>2, <1>3 DEF Deliveries
<1>5. LET o == [w EXCEPT !.failed = TRUE]
          e == [w EXCEPT !.failed = FALSE]
      IN /\ o \in Deliveries /\ o.queue = <<>> /\ o.pending = <<>>
         /\ o.sequence = delivery.sequence /\ o.failed = TRUE /\ o.bytes = 0
         /\ e \in Deliveries /\ e.queue = <<>> /\ e.pending = <<>>
         /\ e.sequence = delivery.sequence /\ e.failed = FALSE /\ e.bytes = 0
  BY <1>4 DEF Deliveries
<1>6. 0 = Len(<<>>) + Len(<<>>)
  BY DeliveryHeld
<1>7. /\ ToSet(delivery.queue \o delivery.pending) = ToSet(delivery.queue) \cup ToSet(delivery.pending)
      /\ ToSet(delivery.queue) \subseteq Chunks /\ ToSet(delivery.pending) \subseteq Chunks
  BY DeliveryHeld, SetJoin, InSet
<1>8. ToSet(delivery.queue \o delivery.pending) \in SUBSET Chunks
  BY <1>7
<1> QED
  BY <1>5, <1>6, <1>7, <1>8 DEF w

(* What reset() gives back: pieces of Batch, and one for what is left.     *)
LEMMA CreditsAre ==
  ASSUME NEW n \in Nat
  PROVE  LET c == Credits(n)
         IN /\ c \in Seq(Nat) /\ Len(c) = (n + Batch - 1) \div Batch
            /\ \A i \in 1 .. Len(c) : c[i] = (IF i * Batch <= n THEN Batch ELSE n % Batch) /\ c[i] <= Batch
<1> DEFINE k == (n + Batch - 1) \div Batch
           e(i) == IF i * Batch <= n THEN Batch ELSE n % Batch
<1>1. Batch \in Nat /\ Batch >= 1
  BY StreamAssumption
<1>2. n % Batch \in Nat /\ n % Batch <= Batch
  BY <1>1
<1>3. k \in Nat
  BY <1>1
<1>4. \A i : e(i) \in Nat /\ e(i) <= Batch
  BY <1>1, <1>2
<1> HIDE DEF k, e
<1> DEFINE c == [i \in 1 .. k |-> e(i)]
<1>5. c \in [1 .. k -> Nat]
  BY <1>4
<1>6. c \in Seq(Nat) /\ Len(c) = k
  BY <1>3, <1>5, SeqDef, LenProperties
<1>7. \A i \in 1 .. k : c[i] = e(i)
  OBVIOUS
<1>8. Credits(n) = c
  BY DEF Credits, c, e, k
<1> HIDE DEF c
<1>9. Credits(n) \in Seq(Nat) /\ Len(Credits(n)) = k
      /\ \A i \in 1 .. Len(Credits(n)) : Credits(n)[i] = e(i) /\ Credits(n)[i] <= Batch
  BY <1>4, <1>6, <1>7, <1>8
<1> QED
  BY <1>9 DEF e, k

LEMMA StreamTypedNext == StreamTyped /\ [StreamNext]_streamVars => StreamTyped'
<1> SUFFICES ASSUME StreamTyped, [StreamNext]_streamVars PROVE StreamTyped'
  OBVIOUS
<1> USE DEF pty, daemon, window
<1>1. /\ written \in 0 .. Output /\ paused \in BOOLEAN
      /\ wire \in Seq(Chunks) /\ toMain \in Seq(Chunks) /\ shown \in Seq(Chunks)
      /\ flow \in Seq(BOOLEAN) /\ link \in {"up", "closing", "down"}
      /\ unacked \in Nat /\ toAgentd \in Seq(Nat)
      /\ delivery \in Deliveries
      /\ delivery.bytes = Len(delivery.queue) + Len(delivery.pending)
      /\ toWin \in Seq(Packets) /\ fromWin \in Seq(Words) /\ loading \in BOOLEAN
      /\ lost \in SUBSET Chunks /\ overflowed \in BOOLEAN /\ faults \in Nat
  BY DEF StreamTyped
<1>2. \A S : <<>> \in Seq(S)
  BY SetEmpty
<1>3. CASE Data
  <2>1. written' = written + 1 /\ written' \in 0 .. Output /\ written' \in Chunks
    BY <1>1, <1>3, StreamAssumption DEF Data, Chunks
  <2>2. /\ wire' \in Seq(Chunks) /\ flow' \in Seq(BOOLEAN) /\ link' \in {"up", "closing", "down"}
        /\ paused' \in BOOLEAN /\ lost' \in SUBSET Chunks
    <3>1. CASE Cut({written'})
      BY <2>1, <3>1, CutTyped
    <3>2. CASE wire' = Append(wire, written') /\ UNCHANGED <<paused, flow, link, lost>>
      BY <1>1, <2>1, <3>2, SetAppend
    <3>3. CASE lost' = lost \cup {written'} /\ UNCHANGED <<paused, wire, flow, link>>
      BY <1>1, <2>1, <3>3
    <3> QED
      BY <1>3, <3>1, <3>2, <3>3 DEF Data
  <2> QED
    BY <1>1, <1>3, <2>1, <2>2 DEF Data, StreamTyped
<1>4. CASE SetOutputPaused
  <2>1. Head(flow) \in BOOLEAN /\ Tail(flow) \in Seq(BOOLEAN)
    BY <1>1, <1>4, SetTail DEF SetOutputPaused
  <2> QED
    BY <1>1, <1>4, <2>1 DEF SetOutputPaused, StreamTyped
<1>5. CASE PtyData
  <2>1. Head(wire) \in Chunks /\ Tail(wire) \in Seq(Chunks)
    BY <1>1, <1>5, SetTail DEF PtyData
  <2>2. toMain' \in Seq(Chunks)
    BY <1>1, <1>5, <2>1, SetAppend DEF PtyData
  <2>3. flow' \in Seq(BOOLEAN)
    BY <1>5, TellTyped DEF PtyData
  <2>4. unacked' \in Nat
    BY <1>1, <1>5 DEF PtyData
  <2> QED
    BY <1>1, <1>5, <2>1, <2>2, <2>3, <2>4 DEF PtyData, StreamTyped
<1>6. CASE TerminalAck
  <2>1. Head(toAgentd) \in Nat /\ Tail(toAgentd) \in Seq(Nat)
    BY <1>1, <1>6, SetTail DEF TerminalAck
  <2>4. \A m, n \in Nat : Monus(m, n) \in Nat
    BY DEF Monus
  <2>2. unacked' \in Nat
    BY <1>1, <1>6, <2>1, <2>4 DEF TerminalAck
  <2>3. flow' \in Seq(BOOLEAN)
    BY <1>6, TellTyped DEF TerminalAck
  <2> QED
    BY <1>1, <1>6, <2>1, <2>2, <2>3 DEF TerminalAck, StreamTyped
<1>7. CASE StopsSession
  <2>1. Tail(toAgentd) \in Seq(Nat)
    BY <1>1, <1>7, SetTail DEF StopsSession
  <2>2. flow' \in Seq(BOOLEAN)
    BY <1>7, TellTyped DEF StopsSession
  <2> QED
    BY <1>1, <1>7, <2>1, <2>2 DEF StopsSession, StreamTyped
<1>8. CASE WorkerDetached
  BY <1>1, <1>8, CutTyped DEF WorkerDetached, StreamTyped
<1>9. CASE Accept
  BY <1>1, <1>9 DEF Accept, StreamTyped
<1>10. CASE WorkerLost
  <2>1. faults' \in Nat
    BY <1>1, <1>10 DEF WorkerLost, Fault
  <2>2. /\ wire' \in Seq(Chunks) /\ flow' \in Seq(BOOLEAN) /\ link' \in {"up", "closing", "down"}
        /\ paused' \in BOOLEAN /\ lost' \in SUBSET Chunks
    BY <1>10, CutTyped DEF WorkerLost
  <2> QED
    BY <1>1, <1>10, <2>1, <2>2 DEF WorkerLost, StreamTyped
<1>11. CASE AgentdExit
  <2>1. PICK n \in 0 .. Len(toMain) :
          /\ toMain' = SubSeq(toMain, 1, n)
          /\ Cut(ToSet(SubSeq(toMain, n + 1, Len(toMain))))
    BY <1>11 DEF AgentdExit
  <2>2. SubSeq(toMain, 1, n) \in Seq(Chunks) /\ SubSeq(toMain, n + 1, Len(toMain)) \in Seq(Chunks)
    BY <1>1, SetCut
  <2>3. ToSet(SubSeq(toMain, n + 1, Len(toMain))) \in SUBSET Chunks
    BY <2>2, InSet
  <2>4. /\ wire' \in Seq(Chunks) /\ flow' \in Seq(BOOLEAN) /\ link' \in {"up", "closing", "down"}
        /\ paused' \in BOOLEAN /\ lost' \in SUBSET Chunks
    BY <2>1, <2>3, CutTyped
  <2>5. faults' \in Nat
    BY <1>1, <1>11 DEF AgentdExit, Fault
  <2>6. UNCHANGED <<written, delivery, toWin, fromWin, loading, shown, overflowed>>
        /\ unacked' = 0 /\ toAgentd' = <<>> /\ toMain' \in Seq(Chunks)
    BY <1>11, <2>1, <2>2 DEF AgentdExit
  <2> QED
    BY <1>1, <1>2, <2>4, <2>5, <2>6 DEF StreamTyped
<1>12. CASE Push
  <2>1. Head(toMain) \in Chunks /\ Tail(toMain) \in Seq(Chunks) /\ toMain # <<>>
    BY <1>1, <1>12, SetTail DEF Push
  <2>2. CASE /\ lost' = lost \cup {Head(toMain)}
             /\ UNCHANGED <<toAgentd, delivery, toWin, overflowed>>
    BY <1>1, <1>12, <2>1, <2>2 DEF Push, StreamTyped
  <2>3. CASE /\ delivery' = [Emptied(delivery) EXCEPT !.failed = TRUE]
             /\ toAgentd' = Append(toAgentd, Stop)
             /\ lost' = lost \cup {Head(toMain)} \cup ToSet(delivery.queue \o delivery.pending)
             /\ overflowed' = TRUE
             /\ UNCHANGED toWin
    <3>1. delivery' \in Deliveries /\ delivery'.bytes = Len(delivery'.queue) + Len(delivery'.pending)
      BY <2>3, GivenUpIs
    <3>2. ToSet(delivery.queue \o delivery.pending) \in SUBSET Chunks
      BY GivenUpIs
    <3>3. toAgentd' \in Seq(Nat)
      <4>1. Stop \in Nat
        BY DEF Stop
      <4> QED
        BY <1>1, <2>3, <4>1, SetAppend
    <3> QED
      BY <1>1, <1>12, <2>1, <2>3, <3>1, <3>2, <3>3 DEF Push, StreamTyped
  <2>4. CASE /\ delivery.bytes + 1 <= Limit
             /\ Flush([delivery EXCEPT !.bytes = @ + 1, !.queue = Append(@, Head(toMain))])
             /\ UNCHANGED <<toAgentd, lost, overflowed>>
    <3>1. /\ delivery' \in Deliveries /\ toWin' \in Seq(Packets)
          /\ delivery'.bytes = Len(delivery'.queue) + Len(delivery'.pending)
      BY <2>1, <2>4, PushedIs, FlushTyped
    <3> QED
      BY <1>1, <1>12, <2>1, <2>4, <3>1 DEF Push, StreamTyped
  <2> QED
    BY <1>12, <2>2, <2>3, <2>4 DEF Push
<1>13. CASE Stall
  <2>1. delivery' \in Deliveries /\ delivery'.bytes = Len(delivery'.queue) + Len(delivery'.pending)
    BY <1>1, <1>13, MarkedIs DEF Stall
  <2> QED
    BY <1>1, <1>13, <2>1 DEF Stall, StreamTyped
<1>14. CASE Acknowledge
  <2>1. Tail(fromWin) \in Seq(Words)
    BY <1>1, <1>14, SetTail DEF Acknowledge
  <2>2. /\ delivery' \in Deliveries /\ toWin' \in Seq(Packets) /\ toAgentd' \in Seq(Nat)
        /\ delivery'.bytes = Len(delivery'.queue) + Len(delivery'.pending)
    <3>1. CASE UNCHANGED <<toAgentd, delivery, toWin>>
      BY <1>1, <3>1
    <3>2. CASE /\ toAgentd' = Append(toAgentd, Len(delivery.pending))
               /\ Flush([ClearStall(delivery) EXCEPT !.bytes = @ - Len(delivery.pending), !.pending = <<>>])
      <4>1. toAgentd' \in Seq(Nat)
        BY <1>1, <3>2, DeliveryHeld, SetAppend
      <4>2. /\ delivery' \in Deliveries /\ toWin' \in Seq(Packets)
            /\ delivery'.bytes = Len(delivery'.queue) + Len(delivery'.pending)
        BY <3>2, AcknowledgedIs, FlushTyped
      <4> QED
        BY <4>1, <4>2
    <3> QED
      BY <1>14, <3>1, <3>2 DEF Acknowledge
  <2> QED
    BY <1>1, <1>14, <2>1, <2>2 DEF Acknowledge, StreamTyped
<1>15. CASE Subscribe
  <2>1. Tail(fromWin) \in Seq(Words)
    BY <1>1, <1>15, SetTail DEF Subscribe
  <2>2. /\ delivery' \in Deliveries /\ toWin' \in Seq(Packets)
        /\ delivery'.bytes = Len(delivery'.queue) + Len(delivery'.pending)
    <3>1. Flush([delivery EXCEPT !.ready = TRUE])
      BY <1>15 DEF Subscribe, SetReady
    <3> QED
      BY <1>1, <3>1, MarkedIs, FlushTyped
  <2> QED
    BY <1>1, <1>15, <2>1, <2>2 DEF Subscribe, StreamTyped
<1>16. CASE Reset
  <2>1. Tail(fromWin) \in Seq(Words)
    BY <1>1, <1>16, SetTail DEF Reset
  <2>2. toWin' \in Seq(Packets)
    <3>1. [id |-> 0, data |-> <<>>] \in Packets
      BY <1>2 DEF Packets
    <3> QED
      BY <1>1, <1>16, <3>1, SetAppend DEF Reset
  <2>3. delivery' \in Deliveries /\ delivery'.bytes = Len(delivery'.queue) + Len(delivery'.pending)
    BY <1>16, GivenUpIs DEF Reset
  <2>4. toAgentd' \in Seq(Nat)
    <3>1. Credits(delivery.bytes) \in Seq(Nat)
      <4>1. delivery.bytes \in Nat
        BY DeliveryHeld
      <4> QED
        BY <4>1, CreditsAre
    <3> QED
      BY <1>1, <1>16, <3>1, SetJoin DEF Reset
  <2>5. ToSet(delivery.queue \o delivery.pending) \in SUBSET Chunks
    BY GivenUpIs
  <2> QED
    BY <1>1, <1>16, <2>1, <2>2, <2>3, <2>4, <2>5 DEF Reset, StreamTyped
<1>17. CASE Parse
  <2>1. Tail(toWin) \in Seq(Packets) /\ Head(toWin) \in Packets
    BY <1>1, <1>17, SetTail DEF Parse
  <2>2. Ack(Head(toWin).id) \in Words /\ Head(toWin).data \in Seq(Chunks)
    BY <2>1 DEF Packets, Words, Ack
  <2>3. shown' \in Seq(Chunks) /\ fromWin' \in Seq(Words)
    <3>1. CASE Head(toWin).id = 0
      BY <1>1, <1>2, <1>17, <3>1 DEF Parse
    <3>2. CASE Head(toWin).id # 0
      <4>1. shown' = shown \o Head(toWin).data /\ fromWin' = Append(fromWin, Ack(Head(toWin).id))
        BY <1>17, <3>2 DEF Parse
      <4>2. shown \o Head(toWin).data \in Seq(Chunks)
        BY <1>1, <2>2, SetJoin
      <4>3. Append(fromWin, Ack(Head(toWin).id)) \in Seq(Words)
        BY <1>1, <2>2, SetAppend
      <4> QED
        BY <4>1, <4>2, <4>3
    <3> QED
      BY <3>1, <3>2
  <2> QED
    BY <1>1, <1>17, <2>1, <2>3 DEF Parse, StreamTyped
<1>18. CASE Click
  <2>1. fromWin' \in Seq(Words)
    <3>1. Reconnect \in Words
      BY DEF Reconnect, Words
    <3> QED
      BY <1>1, <1>18, <3>1, SetAppend DEF Click
  <2>2. faults' \in Nat
    BY <1>1, <1>18 DEF Click, Fault
  <2> QED
    BY <1>1, <1>18, <2>1, <2>2 DEF Click, StreamTyped
<1>19. CASE Reload
  <2>1. /\ delivery' \in Deliveries /\ toWin' \in Seq(Packets)
        /\ delivery'.bytes = Len(delivery'.queue) + Len(delivery'.pending)
    <3>1. Flush([Unsent(ClearStall(delivery)) EXCEPT !.ready = FALSE, !.failed = FALSE])
      BY <1>19 DEF Reload, SetReady
    <3> QED
      BY <3>1, UnsentIs, FlushTyped
  <2>2. faults' \in Nat
    BY <1>1, <1>19 DEF Reload, Fault
  <2> QED
    BY <1>1, <1>19, <2>1, <2>2 DEF Reload, StreamTyped
<1>20. CASE Mounted
  <2>1. fromWin' \in Seq(Words)
    <3>1. On \in Words
      BY DEF On, Words
    <3> QED
      BY <1>1, <1>20, <3>1, SetAppend DEF Mounted
  <2> QED
    BY <1>1, <1>2, <1>20, <2>1 DEF Mounted, StreamTyped
<1>21. CASE UNCHANGED streamVars
  BY <1>1, <1>21 DEF streamVars, StreamTyped
<1> QED
  BY <1>3, <1>4, <1>5, <1>6, <1>7, <1>8, <1>9, <1>10, <1>11, <1>12, <1>13, <1>14, <1>15, <1>16,
     <1>17, <1>18, <1>19, <1>20, <1>21 DEF StreamNext, Moves

LEMMA OrderInit == StreamInit => OrderInv
<1> SUFFICES ASSUME StreamInit PROVE OrderInv
  OBVIOUS
<1> DEFINE d == delivery
<1>1. /\ d.queue = <<>> /\ d.pending = <<>> /\ d.sequence = 0 /\ d.failed = FALSE
      /\ toMain = <<>> /\ wire = <<>> /\ toWin = <<>> /\ shown = <<>>
      /\ fromWin = <<On>> /\ written = 0 /\ lost = {}
  BY DEF StreamInit
<1> HIDE DEF d
<1>2. Len(<<>>) = 0 /\ ToSet(<<>>) = {} /\ Rising(<<>>) /\ Fit(<<>>, lost) /\ 1 .. 0 = {} /\ 1 .. 0 - 1 = {}
  BY SetEmpty, RiseEmpty
<1>3. Behind(d, toMain, wire) = {} /\ Viewed(shown, toWin) = {} /\ ~Unread(toWin)
  BY <1>1, <1>2 DEF Behind, Viewed, Unread
<1>4. UnderWay(d, toMain, wire, written, lost)
  BY <1>1, <1>2, <1>3 DEF UnderWay, Before, Covered
<1>5. Displayed(shown, toWin, d, toMain, wire, written, lost)
  BY <1>1, <1>2, <1>3 DEF Displayed, Before, Covered
<1>6. Answering(d, toWin, fromWin)
  BY <1>1, <1>3 DEF Answering
<1>7. Numbered(d, toWin, fromWin, overflowed)
  <2>1. \A i \in 1 .. Len(<<On>>) : <<On>>[i] = On
    OBVIOUS
  <2>2. On.id = 0 /\ 0 <= 0
    BY DEF On
  <2> QED
    BY <1>1, <1>2, <2>1, <2>2 DEF Numbered
<1> QED
  BY <1>4, <1>5, <1>6, <1>7 DEF Orderly, OrderInv, d

LEMMA CutKeepsOrder ==
  ASSUME StreamTyped, NEW tm \in Seq(Chunks), NEW tn \in Seq(Chunks), NEW wr \in Seq(Chunks),
         NEW top, NEW G, NEW M,
         Orderly(delivery, tm, wr, toWin, fromWin, shown, loading, top, lost, overflowed),
         Rising(tn), ToSet(tn) \subseteq ToSet(tm), ToSet(tm) \subseteq ToSet(tn) \cup M,
         lost \cup ToSet(wr) \subseteq M
  PROVE  Orderly(delivery, tn, <<>>, toWin, fromWin, shown, loading, top, M, overflowed)
<1>1. ToSet(<<>>) = {} /\ Rising(<<>>) /\ Before(ToSet(tn), ToSet(<<>>))
  BY SetEmpty, RiseEmpty DEF Before
<1>2. delivery \in Deliveries
  BY DeliveryHeld
<1> QED
  BY <1>1, <1>2, OrderKept

LEMMA OrderNext == StreamTyped /\ OrderInv /\ [StreamNext]_streamVars => OrderInv'
<1> SUFFICES ASSUME StreamTyped, OrderInv, [StreamNext]_streamVars PROVE OrderInv'
  OBVIOUS
<1> USE DEF pty, daemon, window
<1>1. /\ written \in Nat
      /\ wire \in Seq(Chunks) /\ toMain \in Seq(Chunks) /\ shown \in Seq(Chunks)
      /\ delivery \in Deliveries /\ delivery.sequence \in Nat
      /\ toWin \in Seq(Packets) /\ fromWin \in Seq(Words) /\ loading \in BOOLEAN
  <2>1. written \in 0 .. Output /\ Output \in Nat
    BY StreamAssumption DEF StreamTyped
  <2>2. written \in Nat
    BY <2>1
  <2> QED
    BY <2>2, DeliveryHeld DEF StreamTyped
<1>2. Orderly(delivery, toMain, wire, toWin, fromWin, shown, loading, written, lost, overflowed)
  BY DEF OrderInv
<1>3. /\ UnderWay(delivery, toMain, wire, written, lost)
      /\ Numbered(delivery, toWin, fromWin, overflowed)
  BY <1>2 DEF Orderly
<1>4. Rising(toMain) /\ Rising(wire) /\ Before(ToSet(toMain), ToSet(wire))
  BY <1>3 DEF UnderWay
<1>5. wire \in Seq(Nat) /\ toMain \in Seq(Nat)
  BY <1>1, ChunkSeqs
<1>6. CASE Data
  <2>1. written' = written + 1 /\ written + 1 \in Chunks
    BY <1>1, <1>6, StreamAssumption DEF Data, Chunks
  <2> DEFINE wq == Append(wire, written + 1)
  <2>2. Orderly(delivery, toMain, wq, toWin, fromWin, shown, loading, written + 1, lost, overflowed)
    BY <1>1, <1>2, <2>1, OrderGrows
  <2>3. wq \in Seq(Chunks) /\ ToSet(wq) = ToSet(wire) \cup {written + 1}
    BY <1>1, <2>1, SetAppend
  <2> HIDE DEF wq
  <2>4. UNCHANGED <<delivery, toMain, toWin, fromWin, shown, loading, overflowed>>
    BY <1>6 DEF Data
  <2>5. CASE wire' = Append(wire, written') /\ UNCHANGED lost
    BY <2>1, <2>2, <2>4, <2>5 DEF OrderInv, wq
  <2>6. CASE Cut({written'})
    <3>1. wire' = <<>> /\ lost' = lost \cup ToSet(wire) \cup {written + 1}
      BY <2>1, <2>6 DEF Cut
    <3>2. Orderly(delivery, toMain, <<>>, toWin, fromWin, shown, loading, written + 1, lost', overflowed)
      BY <1>1, <1>4, <2>2, <2>3, <3>1, CutKeepsOrder
    <3> QED
      BY <2>1, <2>4, <3>1, <3>2 DEF OrderInv
  <2>7. CASE lost' = lost \cup {written'} /\ UNCHANGED wire
    <3>1. lost' = lost \cup {written + 1}
      BY <2>1, <2>7
    <3>2. Orderly(delivery, toMain, wire, toWin, fromWin, shown, loading, written + 1, lost', overflowed)
      BY <1>1, <1>4, <2>2, <2>3, <3>1, OrderKept
    <3> QED
      BY <2>1, <2>4, <2>7, <3>2 DEF OrderInv
  <2> QED
    BY <1>6, <2>5, <2>6, <2>7 DEF Data
<1>7. CASE SetOutputPaused
  BY <1>2, <1>7 DEF SetOutputPaused, OrderInv
<1>8. CASE PtyData
  <2> DEFINE tn == Append(toMain, Head(wire))
             wq == Tail(wire)
  <2>1. /\ wire # <<>> /\ wire' = wq /\ toMain' = tn
        /\ UNCHANGED <<delivery, toWin, fromWin, shown, loading, written, lost, overflowed>>
    BY <1>8 DEF PtyData
  <2>2. Head(wire) \in Chunks /\ ToSet(wire) = {Head(wire)} \cup ToSet(wq)
    BY <1>1, <2>1, SetTail
  <2>3. ToSet(tn) = ToSet(toMain) \cup {Head(wire)}
    BY <1>1, <2>2, SetAppend
  <2>4. Rising(wq) /\ Before({Head(wire)}, ToSet(wq))
    BY <1>4, <1>5, <2>1, RiseTail
  <2>5. Rising(tn)
    <3>1. Head(wire) \in Nat /\ Before(ToSet(toMain), {Head(wire)})
      BY <1>4, <2>2, ChunkSeqs DEF Before
    <3> QED
      BY <1>4, <1>5, <3>1, RiseAppend
  <2> HIDE DEF tn, wq
  <2>6. Before(ToSet(tn), ToSet(wq))
    BY <1>4, <2>2, <2>3, <2>4 DEF Before
  <2>7. ToSet(tn) \cup ToSet(wq) = ToSet(toMain) \cup ToSet(wire)
    BY <2>2, <2>3
  <2>8. Orderly(delivery, tn, wq, toWin, fromWin, shown, loading, written, lost, overflowed)
    BY <1>1, <1>2, <2>4, <2>5, <2>6, <2>7, OrderKept
  <2> QED
    BY <2>1, <2>8 DEF OrderInv
<1>9. CASE TerminalAck
  BY <1>2, <1>9 DEF TerminalAck, OrderInv
<1>10. CASE StopsSession
  BY <1>2, <1>10 DEF StopsSession, OrderInv
<1>11. CASE Cut({}) /\ UNCHANGED <<written, delivery, toMain, toWin, fromWin, shown, loading, overflowed>>
  <2>1. wire' = <<>> /\ lost' = lost \cup ToSet(wire)
    BY <1>11 DEF Cut
  <2>2. Orderly(delivery, toMain, <<>>, toWin, fromWin, shown, loading, written, lost', overflowed)
    BY <1>1, <1>2, <1>4, <2>1, CutKeepsOrder
  <2> QED
    BY <1>11, <2>1, <2>2 DEF OrderInv
<1>12. CASE WorkerDetached
  BY <1>11, <1>12 DEF WorkerDetached
<1>13. CASE Accept
  BY <1>2, <1>13 DEF Accept, OrderInv
<1>14. CASE WorkerLost
  BY <1>11, <1>14 DEF WorkerLost
<1>15. CASE AgentdExit
  <2>1. PICK n \in 0 .. Len(toMain) :
          /\ toMain' = SubSeq(toMain, 1, n)
          /\ Cut(ToSet(SubSeq(toMain, n + 1, Len(toMain))))
    BY <1>15 DEF AgentdExit
  <2> DEFINE a == SubSeq(toMain, 1, n)
             b == SubSeq(toMain, n + 1, Len(toMain))
  <2>2. a \in Seq(Chunks) /\ ToSet(toMain) = ToSet(a) \cup ToSet(b)
    BY <1>1, SetCut
  <2>3. Rising(a)
    BY <1>4, <1>5, RiseCut
  <2> HIDE DEF a, b
  <2>4. toMain' = a /\ wire' = <<>> /\ lost' = lost \cup ToSet(wire) \cup ToSet(b)
    BY <2>1 DEF Cut, a, b
  <2>5. Orderly(delivery, a, <<>>, toWin, fromWin, shown, loading, written, lost', overflowed)
    BY <1>1, <1>2, <2>2, <2>3, <2>4, CutKeepsOrder
  <2> QED
    BY <1>15, <2>4, <2>5 DEF AgentdExit, OrderInv
<1>16. CASE Push
  <2> DEFINE tn == Tail(toMain)
  <2>1. /\ toMain # <<>> /\ toMain' = tn
        /\ UNCHANGED <<wire, fromWin, shown, loading, written>>
    BY <1>16 DEF Push
  <2>2. tn \in Seq(Chunks) /\ ToSet(toMain) = {Head(toMain)} \cup ToSet(tn)
    BY <1>1, <2>1, SetTail
  <2>3. Rising(tn)
    BY <1>4, <1>5, <2>1, RiseTail
  <2>4. CASE delivery.failed
    <3>1. lost' = lost \cup {Head(toMain)} /\ UNCHANGED <<delivery, toWin, overflowed>>
      BY <1>16, <2>4 DEF Push
    <3>2. Before(ToSet(tn), ToSet(wire))
      BY <1>4, <2>2 DEF Before
    <3> HIDE DEF tn
    <3>3. Orderly(delivery, tn, wire, toWin, fromWin, shown, loading, written, lost', overflowed)
      BY <1>1, <1>2, <1>4, <2>2, <2>3, <3>1, <3>2, OrderKept
    <3> QED
      BY <2>1, <3>1, <3>3 DEF OrderInv
  <2>5. CASE /\ delivery' = [Emptied(delivery) EXCEPT !.failed = TRUE]
             /\ lost' = lost \cup {Head(toMain)} \cup ToSet(delivery.queue \o delivery.pending)
             /\ overflowed' = TRUE
             /\ UNCHANGED toWin
    <3>1. /\ delivery'.queue = <<>> /\ delivery'.pending = <<>>
          /\ delivery'.sequence = delivery.sequence /\ delivery'.failed
          /\ lost' = lost \cup {Head(toMain)} \cup (ToSet(delivery.queue) \cup ToSet(delivery.pending))
      BY <2>5, GivenUpIs
    <3> HIDE DEF tn
    <3>2. Orderly(delivery', tn, wire, toWin, fromWin, shown, loading, written, lost', overflowed')
      BY <1>1, <1>2, <2>2, <2>3, <2>5, <3>1, OrderGivenUp
    <3> QED
      BY <2>1, <2>5, <3>2 DEF OrderInv
  <2>6. CASE /\ ~delivery.failed /\ delivery.bytes + 1 <= Limit
             /\ Flush([delivery EXCEPT !.bytes = @ + 1, !.queue = Append(@, Head(toMain))])
             /\ UNCHANGED <<lost, overflowed>>
    <3> DEFINE q == [delivery EXCEPT !.bytes = @ + 1, !.queue = Append(@, Head(toMain))]
    <3>1. /\ q \in Deliveries /\ q.queue = Append(delivery.queue, Head(toMain))
          /\ q.pending = delivery.pending /\ q.sequence = delivery.sequence
          /\ q.failed = delivery.failed /\ q.bytes = Len(q.queue) + Len(q.pending)
      BY <2>1, <2>6, PushedIs
    <3>2. Flush(q)
      BY <2>6
    <3> HIDE DEF q, tn
    <3>3. Orderly(q, Tail(toMain), wire, toWin, fromWin, shown, loading, written, lost, overflowed)
      <4>1. /\ delivery \in Deliveries /\ toMain \in Seq(Chunks) /\ toMain # <<>>
            /\ ~delivery.failed
        BY <1>1, <2>1, <2>6
      <4> QED
        BY <1>2, <3>1, <4>1, OrderQueued
    <3>4. delivery' = Flushed(q) /\ toWin' = Sent(q, toWin)
      BY <3>1, <3>2, FlushTyped
    <3>5. Orderly(Flushed(q), tn, wire, Sent(q, toWin), fromWin, shown, loading, written, lost, overflowed)
      BY <1>1, <2>2, <3>1, <3>3, SendKeepsOrder DEF tn
    <3> QED
      BY <2>1, <2>6, <3>4, <3>5 DEF OrderInv
  <2> QED
    BY <1>16, <2>4, <2>5, <2>6 DEF Push
<1>17. CASE Stall
  <2> DEFINE s == [delivery EXCEPT !.stalled = TRUE]
  <2>1. /\ s.queue = delivery.queue /\ s.pending = delivery.pending
        /\ s.sequence = delivery.sequence /\ s.failed = delivery.failed
    BY MarkedIs
  <2>2. delivery' = s /\ UNCHANGED <<toMain, wire, toWin, fromWin, shown, loading, written, lost, overflowed>>
    BY <1>17 DEF Stall
  <2> HIDE DEF s
  <2>3. Orderly(s, toMain, wire, toWin, fromWin, shown, loading, written, lost, overflowed)
    BY <1>1, <1>2, <2>1, OrderSame
  <2> QED
    BY <2>2, <2>3 DEF OrderInv
<1>18. ASSUME fromWin # <<>>
       PROVE  /\ Tail(fromWin) \in Seq(Words) /\ ToSet(Tail(fromWin)) \subseteq ToSet(fromWin)
              /\ Head(fromWin) \in Words /\ Head(fromWin) \in ToSet(fromWin)
  <2>1. ToSet(fromWin) = {Head(fromWin)} \cup ToSet(Tail(fromWin))
    BY <1>1, <1>18, SetTail
  <2> QED
    BY <1>1, <1>18, <2>1, SetTail
<1>19. CASE Acknowledge
  <2> DEFINE fx == Tail(fromWin)
  <2>1. /\ fromWin # <<>> /\ Head(fromWin).kind = "ack" /\ fromWin' = fx
        /\ UNCHANGED <<toMain, wire, shown, loading, written, lost, overflowed>>
    BY <1>19 DEF Acknowledge
  <2>2. fx \in Seq(Words) /\ ToSet(fx) \subseteq ToSet(fromWin)
    BY <1>18, <2>1
  <2> HIDE DEF fx
  <2>3. CASE UNCHANGED <<delivery, toWin>>
    <3>1. Orderly(delivery, toMain, wire, toWin, fx, shown, loading, written, lost, overflowed)
      BY <1>1, <1>2, <2>2, OrderSame
    <3> QED
      BY <2>1, <2>3, <3>1 DEF OrderInv
  <2>4. CASE /\ Len(delivery.pending) # 0 /\ Head(fromWin).id = delivery.sequence
             /\ Flush([ClearStall(delivery) EXCEPT !.bytes = @ - Len(delivery.pending), !.pending = <<>>])
    <3> DEFINE a == [ClearStall(delivery) EXCEPT !.bytes = @ - Len(delivery.pending), !.pending = <<>>]
    <3>1. /\ a \in Deliveries /\ a.queue = delivery.queue /\ a.pending = <<>>
          /\ a.sequence = delivery.sequence /\ a.failed = delivery.failed
          /\ a.bytes = Len(a.queue) + Len(a.pending)
      BY AcknowledgedIs
    <3>2. Flush(a)
      BY <2>4
    <3> HIDE DEF a
    <3>3. delivery.pending # <<>>
      BY <2>4, DeliveryHeld
    <3>4. Ack(delivery.sequence) \in ToSet(fromWin)
      <4>1. Head(fromWin) = [kind |-> Head(fromWin).kind, id |-> Head(fromWin).id]
        BY <1>18, <2>1 DEF Words
      <4>2. Head(fromWin) = Ack(delivery.sequence)
        BY <2>1, <2>4, <4>1 DEF Ack
      <4> QED
        BY <1>18, <2>1, <4>2
    <3>5. Orderly(a, toMain, wire, toWin, fx, shown, loading, written, lost, overflowed)
      BY <1>1, <1>2, <2>2, <3>1, <3>3, <3>4, OrderAcknowledged
    <3>6. delivery' = Flushed(a) /\ toWin' = Sent(a, toWin)
      BY <3>1, <3>2, FlushTyped
    <3>7. Orderly(Flushed(a), toMain, wire, Sent(a, toWin), fx, shown, loading, written, lost, overflowed)
      BY <1>1, <2>2, <3>1, <3>5, SendKeepsOrder
    <3> QED
      BY <2>1, <3>6, <3>7 DEF OrderInv
  <2> QED
    BY <1>19, <2>3, <2>4 DEF Acknowledge
<1>20. CASE Subscribe
  <2> DEFINE fx == Tail(fromWin)
             r == [delivery EXCEPT !.ready = TRUE]
  <2>1. /\ fromWin # <<>> /\ fromWin' = fx /\ Flush(r)
        /\ UNCHANGED <<toMain, wire, shown, loading, written, lost, overflowed>>
    BY <1>20 DEF Subscribe, SetReady
  <2>2. fx \in Seq(Words) /\ ToSet(fx) \subseteq ToSet(fromWin)
    BY <1>18, <2>1
  <2>3. /\ r \in Deliveries /\ r.queue = delivery.queue /\ r.pending = delivery.pending
        /\ r.sequence = delivery.sequence /\ r.failed = delivery.failed
        /\ r.bytes = Len(r.queue) + Len(r.pending)
    BY MarkedIs, DeliveryHeld
  <2> HIDE DEF fx, r
  <2>4. Orderly(r, toMain, wire, toWin, fx, shown, loading, written, lost, overflowed)
    BY <1>1, <1>2, <2>2, <2>3, OrderSame
  <2>5. delivery' = Flushed(r) /\ toWin' = Sent(r, toWin)
    BY <2>1, <2>3, FlushTyped
  <2>6. Orderly(Flushed(r), toMain, wire, Sent(r, toWin), fx, shown, loading, written, lost, overflowed)
    BY <1>1, <2>2, <2>3, <2>4, SendKeepsOrder
  <2> QED
    BY <2>1, <2>5, <2>6 DEF OrderInv
<1>21. CASE Reset
  <2> DEFINE fx == Tail(fromWin)
             e == [Emptied(delivery) EXCEPT !.failed = FALSE]
             tx == Append(toWin, [id |-> 0, data |-> <<>>])
             M == lost \cup ToSet(delivery.queue) \cup ToSet(delivery.pending)
  <2>1. /\ fromWin # <<>> /\ fromWin' = fx /\ delivery' = e /\ toWin' = tx
        /\ UNCHANGED <<toMain, wire, shown, loading, written, overflowed>>
    BY <1>21 DEF Reset
  <2>2. fx \in Seq(Words) /\ ToSet(fx) \subseteq ToSet(fromWin)
    BY <1>18, <2>1
  <2>3. e.queue = <<>> /\ e.pending = <<>> /\ e.sequence = delivery.sequence /\ ~e.failed
    BY GivenUpIs
  <2>4. lost' = M
    <3>1. lost' = lost \cup ToSet(delivery.queue \o delivery.pending)
      BY <1>21 DEF Reset
    <3>2. ToSet(delivery.queue \o delivery.pending) = ToSet(delivery.queue) \cup ToSet(delivery.pending)
      BY GivenUpIs
    <3> QED
      BY <3>1, <3>2
  <2> HIDE DEF fx, e
  <2>5. Orderly(e, toMain, wire, tx, fx, shown, loading, written, M, overflowed)
    BY <1>1, <1>2, <2>2, <2>3, OrderReset
  <2> HIDE DEF tx, M
  <2> QED
    BY <2>1, <2>4, <2>5 DEF OrderInv
<1>22. CASE Parse
  <2>1. toWin # <<>> /\ UNCHANGED <<delivery, toMain, wire, loading, written, lost, overflowed>>
    BY <1>22 DEF Parse
  <2>2. CASE Head(toWin).id = 0
    <3>1. toWin' = Tail(toWin) /\ shown' = <<>> /\ UNCHANGED fromWin
      BY <1>22, <2>2 DEF Parse
    <3>2. Orderly(delivery, toMain, wire, Tail(toWin), fromWin, <<>>, loading, written, lost, overflowed)
      BY <1>1, <1>2, <2>1, <2>2, OrderParsed
    <3> QED
      BY <2>1, <3>1, <3>2 DEF OrderInv
  <2>3. CASE Head(toWin).id # 0
    <3>1. /\ toWin' = Tail(toWin) /\ shown' = shown \o Head(toWin).data
          /\ fromWin' = Append(fromWin, Ack(Head(toWin).id))
      BY <1>22, <2>3 DEF Parse
    <3>2. Orderly(delivery, toMain, wire, Tail(toWin), Append(fromWin, Ack(Head(toWin).id)),
                  shown \o Head(toWin).data, loading, written, lost, overflowed)
      BY <1>1, <1>2, <2>1, <2>3, OrderParsed
    <3> QED
      BY <2>1, <3>1, <3>2 DEF OrderInv
  <2> QED
    BY <2>2, <2>3
<1>23. ASSUME NEW w \in Words, w.kind # "ack", w.id = 0
       PROVE  /\ Append(fromWin, w) \in Seq(Words)
              /\ Orderly(delivery, toMain, wire, toWin, Append(fromWin, w), shown, loading,
                         written, lost, overflowed)
  <2>1. Append(fromWin, w) \in Seq(Words) /\ ToSet(Append(fromWin, w)) = ToSet(fromWin) \cup {w}
    BY <1>1, SetAppend
  <2>2. \A x \in ToSet(Append(fromWin, w)) : x \in ToSet(fromWin) \/ (x.kind # "ack" /\ x.id = 0)
    BY <1>23, <2>1
  <2> QED
    BY <1>1, <1>2, <2>1, <2>2, OrderSame
<1>24. On \in Words /\ On.kind # "ack" /\ On.id = 0
       /\ Reconnect \in Words /\ Reconnect.kind # "ack" /\ Reconnect.id = 0
  BY DEF On, Reconnect, Words
<1>25. CASE Click
  <2>1. /\ fromWin' = Append(fromWin, Reconnect)
        /\ UNCHANGED <<delivery, toMain, wire, toWin, shown, loading, written, lost, overflowed>>
    BY <1>25 DEF Click
  <2>2. Orderly(delivery, toMain, wire, toWin, Append(fromWin, Reconnect), shown, loading,
                written, lost, overflowed)
    BY <1>23, <1>24
  <2> QED
    BY <2>1, <2>2 DEF OrderInv
<1>26. CASE Reload
  <2> DEFINE u == [Unsent(ClearStall(delivery)) EXCEPT !.ready = FALSE, !.failed = FALSE]
  <2>1. /\ loading' = TRUE /\ Flush(u)
        /\ UNCHANGED <<toMain, wire, fromWin, shown, written, lost, overflowed>>
    BY <1>26 DEF Reload, SetReady
  <2>2. /\ u \in Deliveries /\ u.queue = delivery.pending \o delivery.queue /\ u.pending = <<>>
        /\ u.sequence = delivery.sequence /\ ~u.failed /\ u.bytes = Len(u.queue) + Len(u.pending)
    BY UnsentIs
  <2> HIDE DEF u
  <2>3. Orderly(u, toMain, wire, toWin, fromWin, shown, TRUE, written, lost, overflowed)
    BY <1>1, <1>2, <2>2, OrderUnsent
  <2>4. delivery' = Flushed(u) /\ toWin' = Sent(u, toWin)
    BY <2>1, <2>2, FlushTyped
  <2>5. Orderly(Flushed(u), toMain, wire, Sent(u, toWin), fromWin, shown, TRUE, written, lost, overflowed)
    BY <1>1, <2>2, <2>3, SendKeepsOrder
  <2> QED
    BY <2>1, <2>4, <2>5 DEF OrderInv
<1>27. CASE Mounted
  <2>1. /\ fromWin' = Append(fromWin, On) /\ loading' = FALSE /\ toWin' = <<>> /\ shown' = <<>>
        /\ UNCHANGED <<delivery, toMain, wire, written, lost, overflowed>>
    BY <1>27 DEF Mounted
  <2>2. /\ Append(fromWin, On) \in Seq(Words)
        /\ Orderly(delivery, toMain, wire, toWin, Append(fromWin, On), shown, loading,
                   written, lost, overflowed)
    BY <1>23, <1>24
  <2>3. Orderly(delivery, toMain, wire, <<>>, Append(fromWin, On), <<>>, FALSE, written, lost, overflowed)
    BY <1>1, <2>2, OrderMounted
  <2> QED
    BY <2>1, <2>3 DEF OrderInv
<1>28. CASE UNCHANGED streamVars
  BY <1>2, <1>28 DEF streamVars, OrderInv
<1> QED
  BY <1>6, <1>7, <1>8, <1>9, <1>10, <1>12, <1>13, <1>14, <1>15, <1>16, <1>17, <1>19, <1>20,
     <1>21, <1>22, <1>25, <1>26, <1>27, <1>28 DEF StreamNext, Moves

(* TerminalStream's InOrder is an invariant: the display shows the          *)
(* terminal's output in order and once, and what is missing in it was given *)
(* up with a connection or a buffer.                                       *)
THEOREM OutputInOrder == StreamSpec => []InOrder
<1>1. StreamTyped /\ OrderInv => InOrder
  <2> SUFFICES ASSUME StreamTyped, OrderInv, ~loading, NEW i \in 1 .. Len(shown) - 1
               PROVE  /\ shown[i] < shown[i + 1]
                      /\ (shown[i] + 1) .. (shown[i + 1] - 1) \subseteq lost
    BY DEF InOrder
  <2>1. shown \in Seq(Chunks) /\ Fit(shown, lost)
    BY DEF StreamTyped, OrderInv, Orderly, Displayed
  <2>2. Rising(shown) /\ Gapless(ToSet(shown), lost) /\ shown \in Seq(Nat)
    BY <2>1, ChunkSeqs DEF Fit
  <2>3. Len(shown) \in Nat /\ \A j \in 1 .. Len(shown) : shown[j] \in Nat /\ shown[j] \in ToSet(shown)
    BY <2>2, InSet
  <2>4. i \in 1 .. Len(shown) /\ i + 1 \in 1 .. Len(shown) /\ i < i + 1
    BY <2>3
  <2>5. shown[i] < shown[i + 1]
    BY <2>2, <2>4 DEF Rising
  <2>6. ASSUME NEW z \in (shown[i] + 1) .. (shown[i + 1] - 1) PROVE z \in lost
    <3>1. z \in shown[i] .. shown[i + 1] /\ shown[i] < z /\ z < shown[i + 1]
      BY <2>3, <2>4
    <3>2. z \in ToSet(shown) \cup lost
      BY <2>2, <2>3, <2>4, <3>1 DEF Gapless
    <3>3. ASSUME z \in ToSet(shown) PROVE FALSE
      <4>1. PICK j \in 1 .. Len(shown) : z = shown[j]
        BY <2>2, <3>3, InSet
      <4>2. CASE j <= i
        <5>1. j = i \/ shown[j] < shown[i]
          BY <2>2, <2>4, <4>2 DEF Rising
        <5> QED
          BY <2>3, <2>4, <3>1, <4>1, <5>1
      <4>3. CASE ~(j <= i)
        <5>1. j = i + 1 \/ shown[i + 1] < shown[j]
          BY <2>2, <2>3, <2>4, <4>3 DEF Rising
        <5> QED
          BY <2>3, <2>4, <3>1, <4>1, <5>1
      <4> QED
        BY <4>2, <4>3
    <3> QED
      BY <3>2, <3>3
  <2> QED
    BY <2>5, <2>6
<1>2. StreamInit => StreamTyped /\ OrderInv
  BY StreamTypedInit, OrderInit
<1>3. (StreamTyped /\ OrderInv) /\ [StreamNext]_streamVars => (StreamTyped /\ OrderInv)'
  BY StreamTypedNext, OrderNext
<1> QED
  BY <1>1, <1>2, <1>3, PTL DEF StreamSpec

(* Sum(s), the credit in a queue: f adds it up when it starts at 0 and      *)
(* grows by each element.                                                  *)
Adds(s, f) == f[0] = 0 /\ \A i \in 1 .. Len(s) : f[i] = f[i - 1] + s[i]

LEMMA AddsExists ==
  ASSUME NEW s \in Seq(Nat)
  PROVE  \E f \in [0 .. Len(s) -> Nat] : Adds(s, f)
<1> DEFINE L == Len(s)
           Up(n, f) == f[0] = 0 /\ \A i \in 1 .. n : f[i] = f[i - 1] + s[i]
           T == {n \in Nat : n <= L => \E f \in [0 .. n -> Nat] : Up(n, f)}
<1>1. L \in Nat /\ \A i \in 1 .. L : s[i] \in Nat
  BY InSet
<1> HIDE DEF L
<1>2. 0 \in T
  <2> DEFINE f == [i \in 0 .. 0 |-> 0]
  <2>1. f \in [0 .. 0 -> Nat] /\ f[0] = 0 /\ 1 .. 0 = {}
    OBVIOUS
  <2> QED
    BY <2>1
<1>3. ASSUME NEW n \in Nat, n \in T PROVE n + 1 \in T
  <2>8. n + 1 \in Nat
    OBVIOUS
  <2> SUFFICES ASSUME n + 1 <= L PROVE \E f \in [0 .. n + 1 -> Nat] : Up(n + 1, f)
    BY <2>8
  <2>1. PICK f \in [0 .. n -> Nat] : Up(n, f)
    BY <1>1, <1>3
  <2> DEFINE g == [i \in 0 .. n + 1 |-> IF i = n + 1 THEN f[n] + s[n + 1] ELSE f[i]]
  <2>2. n + 1 \in 1 .. L /\ s[n + 1] \in Nat /\ f[n] \in Nat
    BY <1>1
  <2>3. g \in [0 .. n + 1 -> Nat]
    BY <2>2
  <2>4. \A i \in 0 .. n : g[i] = f[i]
    OBVIOUS
  <2>5. g[n + 1] = f[n] + s[n + 1]
    OBVIOUS
  <2> HIDE DEF g
  <2>6. g[0] = 0
    BY <2>1, <2>4
  <2>7. ASSUME NEW i \in 1 .. n + 1 PROVE g[i] = g[i - 1] + s[i]
    <3>1. CASE i = n + 1
      <4>1. i - 1 = n /\ n \in 0 .. n
        BY <3>1
      <4> QED
        BY <2>4, <2>5, <3>1, <4>1
    <3>2. CASE i # n + 1
      <4>1. i \in 1 .. n /\ i \in 0 .. n /\ i - 1 \in 0 .. n
        BY <3>2
      <4> QED
        BY <2>1, <2>4, <4>1
    <3> QED
      BY <3>1, <3>2
  <2> QED
    BY <2>3, <2>6, <2>7
<1> HIDE DEF T
<1>4. L \in T
  BY <1>1, <1>2, <1>3, Induct
<1> QED
  BY <1>1, <1>4 DEF T, L, Adds

LEMMA SumBy ==
  ASSUME NEW s \in Seq(Nat), NEW f, Adds(s, f)
  PROVE  Sum(s) = f[Len(s)] /\ Sum(s) \in Nat
<1> DEFINE L == Len(s)
           Rec(g) == g = [i \in 0 .. L |-> IF i = 0 THEN 0 ELSE g[i - 1] + s[i]]
<1>1. L \in Nat
  BY InSet
<1>2. ASSUME NEW g, NEW h, Adds(s, g), Adds(s, h) PROVE g[L] = h[L]
  <2> DEFINE T == {n \in Nat : n <= L => g[n] = h[n]}
  <2>1. 0 \in T
    BY <1>2 DEF Adds
  <2>2. ASSUME NEW n \in Nat, n \in T PROVE n + 1 \in T
    <3> SUFFICES ASSUME n + 1 <= L PROVE g[n + 1] = h[n + 1]
      OBVIOUS
    <3>1. g[n] = h[n] /\ n + 1 \in 1 .. L /\ (n + 1) - 1 = n
      BY <1>1, <2>2
    <3> QED
      BY <1>2, <3>1 DEF Adds
  <2> HIDE DEF T
  <2>3. L \in T
    BY <1>1, <2>1, <2>2, Induct
  <2> QED
    BY <1>1, <2>3 DEF T
<1>3. \E g : Rec(g) /\ Sum(s) = g[L]
  <2>1. PICK g \in [0 .. L -> Nat] : Adds(s, g)
    BY AddsExists
  <2>2. \A i \in 0 .. L : g[i] = (IF i = 0 THEN 0 ELSE g[i - 1] + s[i])
    BY <1>1, <2>1 DEF Adds
  <2>3. g = [i \in 0 .. L |-> g[i]]
    BY <2>1
  <2>4. Rec(g)
    BY <2>2, <2>3
  <2> HIDE DEF Rec
  <2>5. Rec(CHOOSE h : Rec(h))
    BY <2>4
  <2>6. Sum(s) = (CHOOSE h : Rec(h))[L]
    BY DEF Sum, Rec
  <2> QED
    BY <2>5, <2>6
<1>4. PICK g : Rec(g) /\ Sum(s) = g[L]
  BY <1>3
<1>5. Adds(s, g)
  <2>1. \A i \in 0 .. L : g[i] = (IF i = 0 THEN 0 ELSE g[i - 1] + s[i])
    BY <1>4
  <2>2. 0 \in 0 .. L /\ \A i \in 1 .. L : i \in 0 .. L /\ i # 0
    BY <1>1
  <2> QED
    BY <2>1, <2>2 DEF Adds
<1>6. PICK h \in [0 .. L -> Nat] : Adds(s, h)
  BY AddsExists
<1>7. h[L] \in Nat
  BY <1>1, <1>6
<1> HIDE DEF L, Rec
<1> QED
  BY <1>2, <1>4, <1>5, <1>6, <1>7 DEF L

LEMMA SumEmpty == Sum(<<>>) = 0
<1>1. <<>> \in Seq(Nat) /\ Len(<<>>) = 0 /\ 1 .. 0 = {}
  BY SetEmpty
<1> DEFINE f == [i \in {0} |-> 0]
<1>2. Adds(<<>>, f) /\ f[0] = 0
  BY <1>1 DEF Adds
<1> HIDE DEF f
<1> QED
  BY <1>1, <1>2, SumBy

LEMMA SumJoin ==
  ASSUME NEW p \in Seq(Nat), NEW q \in Seq(Nat)
  PROVE  Sum(p \o q) = Sum(p) + Sum(q)
<1> DEFINE m == Len(p)
           n == Len(q)
           t == p \o q
<1>1. /\ t \in Seq(Nat) /\ Len(t) = m + n /\ m \in Nat /\ n \in Nat
      /\ \A i \in 1 .. m : t[i] = p[i]
      /\ \A i \in 1 .. n : t[m + i] = q[i]
  BY SetJoin, InSet
<1>2. \A i \in 1 .. n : q[i] \in Nat
  BY InSet
<1>3. PICK f \in [0 .. m -> Nat] : Adds(p, f)
  BY AddsExists
<1>4. PICK g \in [0 .. n -> Nat] : Adds(q, g)
  BY AddsExists
<1>5. Sum(p) = f[m] /\ Sum(q) = g[n]
  BY <1>3, <1>4, SumBy
<1> DEFINE h == [i \in 0 .. m + n |-> IF i <= m THEN f[i] ELSE f[m] + g[i - m]]
<1>6. /\ \A i \in 1 .. m : f[i] = f[i - 1] + p[i]
      /\ \A i \in 1 .. n : g[i] = g[i - 1] + q[i]
      /\ f[0] = 0 /\ g[0] = 0
  BY <1>3, <1>4 DEF Adds
<1> HIDE DEF t, m, n
<1>7. \A i \in 0 .. m : h[i] = f[i]
  BY <1>1
<1>8. \A i \in 0 .. n : h[m + i] = f[m] + g[i]
  <2> SUFFICES ASSUME NEW i \in 0 .. n PROVE h[m + i] = f[m] + g[i]
    OBVIOUS
  <2>1. m + i \in 0 .. m + n /\ (m + i) - m = i
    BY <1>1
  <2>2. CASE m + i <= m
    <3>1. i = 0 /\ m + i = m /\ f[m] \in Nat
      BY <1>1, <1>3, <2>2
    <3> QED
      BY <1>6, <2>1, <3>1
  <2>3. CASE ~(m + i <= m)
    BY <2>1, <2>3
  <2> QED
    BY <2>2, <2>3
<1> HIDE DEF h
<1>9. Adds(t, h)
  <2>1. h[0] = 0
    BY <1>1, <1>6, <1>7
  <2>2. ASSUME NEW i \in 1 .. m PROVE h[i] = h[i - 1] + t[i]
    <3>1. i \in 0 .. m /\ i - 1 \in 0 .. m
      BY <1>1
    <3> QED
      BY <1>1, <1>6, <1>7, <3>1
  <2>3. ASSUME NEW i \in 1 .. n PROVE h[m + i] = h[(m + i) - 1] + t[m + i]
    <3>1. i \in 0 .. n /\ i - 1 \in 0 .. n /\ (m + i) - 1 = m + (i - 1) /\ m \in 0 .. m
      BY <1>1
    <3>2. f[m] \in Nat /\ g[i - 1] \in Nat /\ q[i] \in Nat
      BY <1>2, <1>3, <1>4, <3>1
    <3>3. f[m] + (g[i - 1] + q[i]) = (f[m] + g[i - 1]) + q[i]
      BY <3>2
    <3>4. h[m + i] = f[m] + (g[i - 1] + q[i]) /\ h[m + (i - 1)] = f[m] + g[i - 1]
      BY <1>6, <1>8, <3>1
    <3> QED
      BY <1>1, <3>1, <3>3, <3>4
  <2>4. \A i \in 1 .. m + n : i \in 1 .. m \/ \E j \in 1 .. n : i = m + j
    <3> SUFFICES ASSUME NEW i \in 1 .. m + n, i \notin 1 .. m PROVE \E j \in 1 .. n : i = m + j
      OBVIOUS
    <3>1. i - m \in 1 .. n /\ i = m + (i - m)
      BY <1>1
    <3> QED
      BY <3>1
  <2>5. \A i \in 1 .. m + n : h[i] = h[i - 1] + t[i]
    BY <2>2, <2>3, <2>4
  <2>6. Len(t) = m + n
    BY <1>1
  <2> QED
    BY <2>1, <2>5, <2>6 DEF Adds
<1>10. h[m + n] = f[m] + g[n]
  <2>1. n \in 0 .. n
    BY <1>1
  <2> QED
    BY <1>8, <2>1
<1>11. Sum(t) = h[Len(t)] /\ Len(t) = m + n
  BY <1>1, <1>9, SumBy
<1> QED
  BY <1>5, <1>10, <1>11 DEF t

LEMMA SumOne ==
  ASSUME NEW x \in Nat
  PROVE  <<x>> \in Seq(Nat) /\ Sum(<<x>>) = x
<1> DEFINE t == <<x>>
           f == [i \in 0 .. 1 |-> IF i = 0 THEN 0 ELSE x]
<1>1. t \in Seq(Nat) /\ Len(t) = 1 /\ t[1] = x
  OBVIOUS
<1>2. f[0] = 0 /\ f[1] = x /\ 1 .. 1 = {1} /\ 0 + x = x /\ 1 - 1 = 0
  OBVIOUS
<1> HIDE DEF t, f
<1>3. Adds(t, f)
  BY <1>1, <1>2 DEF Adds
<1> QED
  BY <1>1, <1>2, <1>3, SumBy DEF t

LEMMA SumAppend ==
  ASSUME NEW q \in Seq(Nat), NEW x \in Nat
  PROVE  Sum(Append(q, x)) = Sum(q) + x
<1>1. Append(q, x) = q \o <<x>>
  BY AppendIsConcat
<1> QED
  BY <1>1, SumJoin, SumOne

LEMMA SumTail ==
  ASSUME NEW q \in Seq(Nat), q # <<>>
  PROVE  Sum(q) = Head(q) + Sum(Tail(q))
<1>1. Head(q) \in Nat /\ Tail(q) \in Seq(Nat) /\ q = <<Head(q)>> \o Tail(q)
  BY HeadTailProperties
<1>2. <<Head(q)>> \in Seq(Nat) /\ Sum(<<Head(q)>>) = Head(q)
  BY <1>1, SumOne
<1>3. Sum(<<Head(q)>> \o Tail(q)) = Sum(<<Head(q)>>) + Sum(Tail(q))
  BY <1>1, <1>2, SumJoin
<1> QED
  BY <1>1, <1>2, <1>3

LEMMA Remainder ==
  ASSUME NEW b \in Nat, b >= 1, NEW q \in Nat, NEW r \in 0 .. b - 1
  PROVE  (q * b + r) % b = r
OBVIOUS

(* The credit that comes back for a reset is what the desktop held.        *)
LEMMA CreditsSum ==
  ASSUME NEW n \in Nat
  PROVE  Sum(Credits(n)) = n
<1> DEFINE k == (n + Batch - 1) \div Batch
           c == Credits(n)
           f == [i \in 0 .. k |-> IF i * Batch <= n THEN i * Batch ELSE n]
<1>1. Batch \in Nat /\ Batch >= 1
  BY StreamAssumption
<1>2. /\ c \in Seq(Nat) /\ Len(c) = k
      /\ \A i \in 1 .. k : c[i] = (IF i * Batch <= n THEN Batch ELSE n % Batch)
  BY CreditsAre
<1>3. k \in Nat /\ k * Batch <= n + Batch - 1 /\ n + Batch - 1 < (k + 1) * Batch
  BY <1>1
<1> HIDE DEF k, c
<1>4. f[0] = 0
  BY <1>1, <1>3
<1>5. ASSUME NEW i \in 1 .. k PROVE f[i] = f[i - 1] + c[i]
  <2>1. i \in 0 .. k /\ i - 1 \in 0 .. k /\ i \in Nat /\ i - 1 \in Nat
    BY <1>3
  <2>2. i * Batch \in Nat /\ (i - 1) * Batch \in Nat /\ i * Batch = (i - 1) * Batch + Batch
    BY <1>1, <2>1
  <2>3. CASE i * Batch <= n
    BY <1>1, <1>2, <2>1, <2>2, <2>3
  <2>4. CASE ~(i * Batch <= n)
    <3>1. i * Batch <= k * Batch
      BY <1>1, <1>3, <2>1
    <3>2. (i - 1) * Batch <= n
      BY <1>1, <1>3, <2>1, <2>2, <3>1
    <3>3. n % Batch = n - (i - 1) * Batch
      <4> DEFINE r == n - (i - 1) * Batch
      <4>1. r \in 0 .. Batch - 1 /\ (i - 1) * Batch + r = n
        BY <1>1, <2>1, <2>2, <2>4, <3>2
      <4> HIDE DEF r
      <4>2. ((i - 1) * Batch + r) % Batch = r
        BY <1>1, <2>1, <4>1, Remainder
      <4> QED
        BY <4>1, <4>2 DEF r
    <3> QED
      BY <1>1, <1>2, <2>1, <2>2, <2>4, <3>2, <3>3
  <2> QED
    BY <2>3, <2>4
<1>6. f[k] = n
  <2>1. k \in 0 .. k /\ k * Batch \in Nat /\ (k + 1) * Batch = k * Batch + Batch
    BY <1>1, <1>3
  <2>2. k * Batch >= n
    BY <1>1, <1>3, <2>1
  <2> QED
    BY <2>1, <2>2
<1> HIDE DEF f
<1>7. Adds(c, f)
  BY <1>2, <1>4, <1>5 DEF Adds
<1> QED
  BY <1>2, <1>6, <1>7, SumBy DEF c

LEMMA CreditedNext ==
  StreamTyped /\ OrderInv /\ Credited /\ [StreamNext]_streamVars => Credited'
<1> SUFFICES ASSUME StreamTyped, OrderInv, Credited, [StreamNext]_streamVars PROVE Credited'
  OBVIOUS
<1> USE DEF pty, daemon, window
<1>1. /\ wire \in Seq(Chunks) /\ toMain \in Seq(Chunks) /\ toAgentd \in Seq(Nat)
      /\ unacked \in Nat /\ overflowed \in BOOLEAN /\ toWin \in Seq(Packets)
      /\ delivery \in Deliveries /\ delivery.bytes \in Nat /\ Len(toMain) \in Nat
      /\ Len(delivery.pending) \in Nat
  <2>1. delivery.bytes \in Nat /\ Len(delivery.pending) \in Nat
    BY DeliveryHeld
  <2> QED
    BY <2>1, InSet DEF StreamTyped
<1>2. Batch \in Nat
  BY StreamAssumption
<1>3. /\ Len(delivery.pending) <= Batch
      /\ \A i \in 1 .. Len(toAgentd) : toAgentd[i] <= Batch
      /\ overflowed \/ unacked <= Len(toMain) + delivery.bytes + Sum(toAgentd)
  BY DEF Credited, CreditReturns
<1>4. \A s \in Seq(Nat) : Sum(s) \in Nat
  BY AddsExists, SumBy
<1>5. Sum(toAgentd) \in Nat
  BY <1>1, <1>4
<1>6. \A x \in Nat : x <= Batch =>
        \A i \in 1 .. Len(Append(toAgentd, x)) : Append(toAgentd, x)[i] <= Batch
  <2> SUFFICES ASSUME NEW x \in Nat, x <= Batch, NEW i \in 1 .. Len(Append(toAgentd, x))
               PROVE  Append(toAgentd, x)[i] <= Batch
    OBVIOUS
  <2>1. /\ Len(Append(toAgentd, x)) = Len(toAgentd) + 1 /\ Append(toAgentd, x)[Len(toAgentd) + 1] = x
        /\ \A j \in 1 .. Len(toAgentd) : Append(toAgentd, x)[j] = toAgentd[j]
    BY <1>1, SetAppend
  <2>2. i \in 1 .. Len(toAgentd) \/ i = Len(toAgentd) + 1
    <3>1. Len(toAgentd) \in Nat
      BY <1>1, InSet
    <3> QED
      BY <2>1, <3>1
  <2> QED
    BY <1>3, <2>1, <2>2
<1>7. ASSUME toAgentd # <<>>
      PROVE  /\ \A i \in 1 .. Len(Tail(toAgentd)) : Tail(toAgentd)[i] <= Batch
             /\ Head(toAgentd) <= Batch /\ Head(toAgentd) \in Nat /\ Tail(toAgentd) \in Seq(Nat)
             /\ Sum(toAgentd) = Head(toAgentd) + Sum(Tail(toAgentd))
  <2>1. /\ Tail(toAgentd) \in Seq(Nat) /\ Len(Tail(toAgentd)) = Len(toAgentd) - 1
        /\ Len(toAgentd) \in Nat \ {0} /\ Head(toAgentd) = toAgentd[1] /\ Head(toAgentd) \in Nat
        /\ \A i \in 1 .. Len(Tail(toAgentd)) : Tail(toAgentd)[i] = toAgentd[i + 1]
    BY <1>1, <1>7, SetTail
  <2>2. 1 \in 1 .. Len(toAgentd) /\ \A i \in 1 .. Len(Tail(toAgentd)) : i + 1 \in 1 .. Len(toAgentd)
    BY <2>1
  <2>3. Sum(toAgentd) = Head(toAgentd) + Sum(Tail(toAgentd))
    BY <1>1, <1>7, SumTail
  <2> QED
    BY <1>3, <2>1, <2>2, <2>3
<1>8. CASE UNCHANGED <<delivery, unacked, toMain, toAgentd, overflowed>>
  BY <1>8, <1>3 DEF Credited, CreditReturns
<1>9. CASE Data
  BY <1>8, <1>9 DEF Data
<1>10. CASE SetOutputPaused
  BY <1>8, <1>10 DEF SetOutputPaused
<1>11. CASE PtyData
  <2>1. /\ unacked' = unacked + 1 /\ toMain' = Append(toMain, Head(wire)) /\ wire # <<>>
        /\ UNCHANGED <<delivery, toAgentd, overflowed>>
    BY <1>11 DEF PtyData
  <2>2. Len(toMain') = Len(toMain) + 1
    <3>1. Head(wire) \in Chunks
      BY <1>1, <2>1, SetTail
    <3> QED
      BY <1>1, <2>1, <3>1, SetAppend
  <2>3. overflowed \/ unacked + 1 <= (Len(toMain) + 1) + delivery.bytes + Sum(toAgentd)
    BY <1>1, <1>3, <1>5
  <2> QED
    BY <1>3, <2>1, <2>2, <2>3 DEF Credited, CreditReturns
<1>12. CASE TerminalAck
  <2>1. /\ toAgentd # <<>> /\ toAgentd' = Tail(toAgentd) /\ UNCHANGED <<delivery, toMain, overflowed>>
    BY <1>12 DEF TerminalAck
  <2> DEFINE h == Head(toAgentd)
             r == Sum(Tail(toAgentd))
  <2>2. h \in Nat /\ h <= Batch /\ r \in Nat /\ Sum(toAgentd) = h + r
    BY <1>4, <1>7, <2>1
  <2>3. unacked' = Monus(unacked, h)
    BY <1>12, <2>2 DEF TerminalAck
  <2> HIDE DEF h, r
  <2>4. overflowed \/ Monus(unacked, h) <= Len(toMain) + delivery.bytes + r
    <3>1. overflowed \/ unacked <= Len(toMain) + delivery.bytes + (h + r)
      BY <1>3, <2>2
    <3> QED
      BY <1>1, <2>2, <3>1 DEF Monus
  <2> QED
    BY <1>3, <1>7, <2>1, <2>3, <2>4 DEF Credited, CreditReturns, r
<1>13. CASE unacked' = 0 /\ (toAgentd' = <<>> \/ (toAgentd # <<>> /\ toAgentd' = Tail(toAgentd)))
            /\ toMain' \in Seq(Chunks) /\ UNCHANGED delivery
  <2>1. toAgentd' \in Seq(Nat) /\ \A i \in 1 .. Len(toAgentd') : toAgentd'[i] <= Batch
    <3>1. CASE toAgentd' = <<>>
      BY <3>1, SetEmpty
    <3>2. CASE toAgentd # <<>> /\ toAgentd' = Tail(toAgentd)
      BY <1>7, <3>2
    <3> QED
      BY <1>13, <3>1, <3>2
  <2>2. Sum(toAgentd') \in Nat /\ Len(toMain') \in Nat
    BY <1>4, <1>13, <2>1, InSet
  <2>3. 0 <= Len(toMain') + delivery.bytes + Sum(toAgentd')
    BY <1>1, <2>2
  <2> QED
    BY <1>3, <1>13, <2>1, <2>3 DEF Credited, CreditReturns
<1>14. CASE StopsSession
  BY <1>1, <1>13, <1>14 DEF StopsSession
<1>15. CASE WorkerDetached
  BY <1>8, <1>15 DEF WorkerDetached
<1>16. CASE Accept
  BY <1>8, <1>16 DEF Accept
<1>17. CASE WorkerLost
  BY <1>8, <1>17 DEF WorkerLost
<1>18. CASE AgentdExit
  <2>1. toMain' \in Seq(Chunks)
    BY <1>1, <1>18, SetCut DEF AgentdExit
  <2> QED
    BY <1>13, <1>18, <2>1 DEF AgentdExit
<1>19. CASE Push
  <2>1. /\ toMain # <<>> /\ toMain' = Tail(toMain) /\ UNCHANGED unacked
    BY <1>19 DEF Push
  <2>2. Len(toMain') = Len(toMain) - 1
    BY <1>1, <2>1, SetTail
  <2>3. CASE delivery.failed
    <3>1. overflowed /\ UNCHANGED <<toAgentd, delivery, overflowed>>
      BY <1>19, <2>3 DEF Push, OrderInv, Orderly, Numbered
    <3> QED
      BY <1>3, <3>1 DEF Credited, CreditReturns
  <2>4. CASE /\ delivery' = [Emptied(delivery) EXCEPT !.failed = TRUE]
             /\ toAgentd' = Append(toAgentd, Stop) /\ overflowed' = TRUE
    <3>1. delivery'.pending = <<>> /\ Len(<<>>) = 0 /\ 0 <= Batch
      BY <1>2, <2>4, GivenUpIs, DeliveryHeld
    <3>2. \A i \in 1 .. Len(toAgentd') : toAgentd'[i] <= Batch
      BY <1>2, <1>6, <2>4 DEF Stop
    <3> QED
      BY <2>4, <3>1, <3>2 DEF Credited, CreditReturns
  <2>5. CASE /\ delivery.bytes + 1 <= Limit
             /\ Flush([delivery EXCEPT !.bytes = @ + 1, !.queue = Append(@, Head(toMain))])
             /\ UNCHANGED <<toAgentd, overflowed>>
    <3> DEFINE q == [delivery EXCEPT !.bytes = @ + 1, !.queue = Append(@, Head(toMain))]
    <3>1. /\ q \in Deliveries /\ q.pending = delivery.pending /\ q.sequence = delivery.sequence
          /\ q.bytes = delivery.bytes + 1 /\ q.bytes = Len(q.queue) + Len(q.pending)
      BY <2>1, <2>5, PushedIs
    <3>2. Flush(q)
      BY <2>5
    <3> HIDE DEF q
    <3>3. delivery' = Flushed(q)
      BY <3>1, <3>2, FlushTyped
    <3>4. delivery'.bytes = delivery.bytes + 1 /\ Len(delivery'.pending) <= Batch
      BY <1>1, <1>3, <3>1, <3>3, SentIs
    <3>5. overflowed \/ unacked <= (Len(toMain) - 1) + (delivery.bytes + 1) + Sum(toAgentd)
      <4>1. \A u, m, b, c \in Nat : u <= m + b + c => u <= (m - 1) + (b + 1) + c
        OBVIOUS
      <4> QED
        BY <1>1, <1>3, <1>5, <4>1
    <3> QED
      BY <1>3, <2>1, <2>2, <2>5, <3>4, <3>5 DEF Credited, CreditReturns
  <2> QED
    BY <1>19, <2>3, <2>4, <2>5 DEF Push
<1>20. CASE Stall
  <2>1. delivery'.bytes = delivery.bytes /\ delivery'.pending = delivery.pending
    BY <1>20, MarkedIs DEF Stall
  <2> QED
    BY <1>3, <1>20, <2>1 DEF Stall, Credited, CreditReturns
<1>21. CASE Acknowledge
  <2>1. UNCHANGED <<unacked, toMain, overflowed>>
    BY <1>21 DEF Acknowledge
  <2>2. CASE UNCHANGED <<toAgentd, delivery>>
    BY <1>8, <2>1, <2>2
  <2>3. CASE /\ toAgentd' = Append(toAgentd, Len(delivery.pending))
             /\ Flush([ClearStall(delivery) EXCEPT !.bytes = @ - Len(delivery.pending), !.pending = <<>>])
    <3> DEFINE a == [ClearStall(delivery) EXCEPT !.bytes = @ - Len(delivery.pending), !.pending = <<>>]
    <3>1. /\ a \in Deliveries /\ a.pending = <<>> /\ a.sequence = delivery.sequence
          /\ a.bytes = Len(delivery.queue) /\ a.bytes = Len(a.queue) + Len(a.pending)
      BY AcknowledgedIs
    <3>2. Flush(a)
      BY <2>3
    <3> HIDE DEF a
    <3>3. delivery' = Flushed(a)
      BY <3>1, <3>2, FlushTyped
    <3>4. Len(a.pending) <= Batch
      BY <1>2, <3>1, DeliveryHeld
    <3>5. delivery'.bytes = Len(delivery.queue) /\ Len(delivery'.pending) <= Batch
      BY <1>1, <3>1, <3>3, <3>4, SentIs
    <3>6. Sum(toAgentd') = Sum(toAgentd) + Len(delivery.pending)
      BY <1>1, <2>3, SumAppend
    <3>7. \A i \in 1 .. Len(toAgentd') : toAgentd'[i] <= Batch
      BY <1>1, <1>3, <1>6, <2>3
    <3>8. overflowed \/ unacked <= Len(toMain) + Len(delivery.queue) + (Sum(toAgentd) + Len(delivery.pending))
      <4> DEFINE m == Len(delivery.queue)
                 n == Len(delivery.pending)
      <4>1. m \in Nat /\ n \in Nat /\ delivery.bytes = m + n
        BY DeliveryHeld
      <4> HIDE DEF m, n
      <4>2. overflowed \/ unacked <= Len(toMain) + m + (Sum(toAgentd) + n)
        BY <1>1, <1>3, <1>5, <4>1
      <4> QED
        BY <4>2 DEF m, n
    <3> QED
      BY <2>1, <3>5, <3>6, <3>7, <3>8 DEF Credited, CreditReturns
  <2> QED
    BY <1>21, <2>2, <2>3 DEF Acknowledge
<1>22. ASSUME NEW d \in Deliveries, d.bytes = delivery.bytes, d.bytes = Len(d.queue) + Len(d.pending),
              d.sequence = delivery.sequence, Len(d.pending) <= Batch, Flush(d),
              UNCHANGED <<unacked, toMain, toAgentd, overflowed>>
       PROVE  Credited'
  <2>1. delivery' = Flushed(d)
    BY <1>22, FlushTyped
  <2>2. delivery'.bytes = delivery.bytes /\ Len(delivery'.pending) <= Batch
    BY <1>1, <1>22, <2>1, SentIs
  <2> QED
    BY <1>3, <1>22, <2>2 DEF Credited, CreditReturns
<1>23. CASE Subscribe
  <2> DEFINE r == [delivery EXCEPT !.ready = TRUE]
  <2>1. /\ r \in Deliveries /\ r.bytes = delivery.bytes /\ r.pending = delivery.pending
        /\ r.sequence = delivery.sequence /\ r.bytes = Len(r.queue) + Len(r.pending)
    BY MarkedIs, DeliveryHeld
  <2>2. Flush(r) /\ UNCHANGED <<unacked, toMain, toAgentd, overflowed>>
    BY <1>23 DEF Subscribe, SetReady
  <2> HIDE DEF r
  <2> QED
    BY <1>3, <1>22, <2>1, <2>2
<1>24. CASE Reset
  <2>1. /\ delivery' = [Emptied(delivery) EXCEPT !.failed = FALSE]
        /\ toAgentd' = toAgentd \o Credits(delivery.bytes)
        /\ UNCHANGED <<unacked, toMain, overflowed>>
    BY <1>24 DEF Reset
  <2>2. delivery'.bytes = 0 /\ delivery'.pending = <<>> /\ Len(<<>>) = 0 /\ 0 <= Batch
    BY <1>2, <2>1, GivenUpIs, DeliveryHeld
  <2> DEFINE c == Credits(delivery.bytes)
  <2>3. c \in Seq(Nat) /\ (\A i \in 1 .. Len(c) : c[i] <= Batch) /\ Sum(c) = delivery.bytes
    BY <1>1, CreditsAre, CreditsSum
  <2> HIDE DEF c
  <2>4. toAgentd' = toAgentd \o c
    BY <2>1 DEF c
  <2>5. Sum(toAgentd') = Sum(toAgentd) + delivery.bytes
    BY <1>1, <2>3, <2>4, SumJoin
  <2>6. \A i \in 1 .. Len(toAgentd') : toAgentd'[i] <= Batch
    <3>1. /\ \A i \in 1 .. Len(toAgentd) : toAgentd'[i] = toAgentd[i]
          /\ \A i \in 1 .. Len(c) : toAgentd'[Len(toAgentd) + i] = c[i]
          /\ \A i \in 1 .. Len(toAgentd') : i \in 1 .. Len(toAgentd) \/ \E j \in 1 .. Len(c) : i = Len(toAgentd) + j
      BY <1>1, <2>3, <2>4, SetJoin
    <3> QED
      BY <1>3, <2>3, <3>1
  <2>7. overflowed \/ unacked <= Len(toMain) + 0 + (Sum(toAgentd) + delivery.bytes)
    BY <1>1, <1>3, <1>5
  <2> QED
    BY <2>1, <2>2, <2>5, <2>6, <2>7 DEF Credited, CreditReturns
<1>25. CASE Parse
  BY <1>8, <1>25 DEF Parse
<1>26. CASE Click
  BY <1>8, <1>26 DEF Click
<1>27. CASE Reload
  <2> DEFINE u == [Unsent(ClearStall(delivery)) EXCEPT !.ready = FALSE, !.failed = FALSE]
  <2>1. /\ u \in Deliveries /\ u.bytes = delivery.bytes /\ u.pending = <<>>
        /\ u.sequence = delivery.sequence /\ u.bytes = Len(u.queue) + Len(u.pending)
    BY UnsentIs
  <2>2. Flush(u) /\ UNCHANGED <<unacked, toMain, toAgentd, overflowed>>
    BY <1>27 DEF Reload, SetReady
  <2> HIDE DEF u
  <2>3. Len(u.pending) <= Batch
    BY <1>2, <2>1, DeliveryHeld
  <2> QED
    BY <1>22, <2>1, <2>2, <2>3
<1>28. CASE Mounted
  BY <1>8, <1>28 DEF Mounted
<1>29. CASE UNCHANGED streamVars
  BY <1>8, <1>29 DEF streamVars
<1> QED
  BY <1>9, <1>10, <1>11, <1>12, <1>14, <1>15, <1>16, <1>17, <1>18, <1>19, <1>20, <1>21,
     <1>23, <1>24, <1>25, <1>26, <1>27, <1>28, <1>29 DEF StreamNext, Moves

LEMMA PausedNext == StreamTyped /\ Paused /\ [StreamNext]_streamVars => Paused'
<1> SUFFICES ASSUME StreamTyped, Paused, [StreamNext]_streamVars PROVE Paused'
  OBVIOUS
<1> USE DEF pty, daemon, window
<1>1. unacked \in Nat /\ flow \in Seq(BOOLEAN) /\ paused \in BOOLEAN /\ toAgentd \in Seq(Nat)
  BY DEF StreamTyped
<1>2. Low \in Nat /\ High \in Nat /\ Low <= High /\ Low # 0
  BY StreamAssumption
<1>3. /\ link = "down" => flow = <<>> /\ ~paused
      /\ IF flow = <<>> THEN paused => unacked >= Low ELSE flow[Len(flow)] => unacked >= Low
  BY DEF Paused
<1>4. CASE UNCHANGED <<link, flow, paused, unacked>>
  BY <1>3, <1>4 DEF Paused
<1>5. CASE link' = "down" /\ flow' = <<>> /\ paused' = FALSE
  BY <1>5 DEF Paused
<1>6. \A G : Cut(G) => Paused'
  BY <1>5 DEF Cut
(* The worker is told p, and p is right for what is counted.               *)
<1>7. ASSUME NEW p \in BOOLEAN, Tell(p), p => unacked' >= Low, UNCHANGED paused,
             link' = "down" <=> link = "down"
      PROVE  Paused'
  <2>1. CASE link = "down"
    BY <1>3, <1>7, <2>1 DEF Tell, Paused
  <2>2. CASE link # "down"
    <3>1. flow' = Append(flow, p)
      BY <1>7, <2>2 DEF Tell
    <3>2. flow' # <<>> /\ Len(flow') = Len(flow) + 1 /\ flow'[Len(flow) + 1] = p
      BY <1>1, <3>1, SetAppend
    <3>3. flow'[Len(flow')] = p
      BY <3>2
    <3> QED
      BY <1>7, <2>2, <3>2, <3>3 DEF Paused
  <2> QED
    BY <2>1, <2>2
<1>8. CASE Data
  BY <1>4, <1>6, <1>8 DEF Data
<1>9. CASE SetOutputPaused
  <2>1. flow # <<>> /\ paused' = Head(flow) /\ flow' = Tail(flow) /\ UNCHANGED <<link, unacked>>
    BY <1>9 DEF SetOutputPaused
  <2>2. /\ Tail(flow) \in Seq(BOOLEAN) /\ Len(Tail(flow)) = Len(flow) - 1 /\ Len(flow) \in Nat \ {0}
        /\ \A i \in 1 .. Len(Tail(flow)) : Tail(flow)[i] = flow[i + 1]
        /\ Head(flow) = flow[1]
    BY <1>1, <2>1, SetTail
  <2>3. link # "down" /\ (flow[Len(flow)] => unacked >= Low)
    BY <1>3, <2>1
  <2>4. CASE Tail(flow) = <<>>
    <3>1. Len(flow) = 1
      <4> DEFINE n == Len(flow)
      <4>1. Len(Tail(flow)) = 0
        BY <2>2, <2>4, InSet
      <4>2. n \in Nat /\ n - 1 = 0
        BY <2>2, <4>1
      <4> HIDE DEF n
      <4>3. n = 1
        BY <4>2
      <4> QED
        BY <4>3 DEF n
    <3> QED
      BY <2>1, <2>2, <2>3, <2>4, <3>1 DEF Paused
  <2>5. CASE Tail(flow) # <<>>
    <3>1. Len(Tail(flow)) # 0
      BY <2>2, <2>5, InSet
    <3>2. Len(Tail(flow)) \in 1 .. Len(Tail(flow)) /\ Len(Tail(flow)) + 1 = Len(flow)
      BY <2>2, <3>1
    <3>3. Tail(flow)[Len(Tail(flow))] = flow[Len(flow)]
      BY <2>2, <3>2
    <3> QED
      BY <2>1, <2>3, <2>5, <3>3 DEF Paused
  <2> QED
    BY <2>4, <2>5
<1>10. CASE PtyData
  <2>1. unacked' = unacked + 1 /\ UNCHANGED <<paused, link>>
    BY <1>10 DEF PtyData
  <2>2. CASE unacked' >= High
    <3>1. Tell(TRUE)
      BY <1>10, <2>2 DEF PtyData
    <3>2. unacked' >= Low
      BY <1>1, <1>2, <2>1, <2>2
    <3> QED
      BY <1>7, <2>1, <3>1, <3>2
  <2>3. CASE ~(unacked' >= High)
    <3>1. UNCHANGED flow
      BY <1>10, <2>3 DEF PtyData
    <3>2. unacked >= Low => unacked' >= Low
      BY <1>1, <1>2, <2>1
    <3> QED
      BY <1>3, <2>1, <3>1, <3>2 DEF Paused
  <2> QED
    BY <2>2, <2>3
<1>11. CASE TerminalAck
  <2>1. UNCHANGED <<paused, link>> /\ toAgentd # <<>>
    BY <1>11 DEF TerminalAck
  <2>2. unacked' \in Nat
    <3>1. \A m, n \in Nat : Monus(m, n) \in Nat
      BY DEF Monus
    <3>2. Head(toAgentd) \in Nat
      BY <1>1, <2>1, SetTail
    <3> QED
      BY <1>1, <1>11, <3>1, <3>2 DEF TerminalAck
  <2>3. CASE UNCHANGED <<unacked, flow>>
    BY <1>4, <2>1, <2>3
  <2>4. CASE IF unacked' < Low THEN Tell(FALSE) ELSE UNCHANGED flow
    <3>1. CASE unacked' < Low
      <4>1. Tell(FALSE)
        BY <2>4, <3>1
      <4> QED
        BY <1>7, <2>1, <4>1
    <3>2. CASE ~(unacked' < Low)
      <4>1. unacked' >= Low
        BY <1>2, <2>2, <3>2
      <4> QED
        BY <1>3, <2>1, <2>4, <3>2, <4>1 DEF Paused
    <3> QED
      BY <3>1, <3>2
  <2> QED
    BY <1>11, <2>3, <2>4 DEF TerminalAck
<1>12. CASE StopsSession
  <2>1. /\ Tell(FALSE) /\ UNCHANGED paused /\ (link' = "down" <=> link = "down")
    BY <1>12 DEF StopsSession
  <2> QED
    BY <1>7, <2>1
<1>13. CASE WorkerDetached
  BY <1>6, <1>13 DEF WorkerDetached
<1>14. CASE Accept
  <2>1. link = "down" /\ link' = "up" /\ paused' = FALSE /\ UNCHANGED <<flow, unacked>>
    BY <1>14 DEF Accept
  <2> QED
    BY <1>3, <2>1 DEF Paused
<1>15. CASE WorkerLost
  BY <1>6, <1>15 DEF WorkerLost
<1>16. CASE AgentdExit
  BY <1>6, <1>16 DEF AgentdExit
<1>17. CASE Push
  BY <1>4, <1>17 DEF Push
<1>18. CASE Stall
  BY <1>4, <1>18 DEF Stall
<1>19. CASE Acknowledge
  BY <1>4, <1>19 DEF Acknowledge
<1>20. CASE Subscribe
  BY <1>4, <1>20 DEF Subscribe
<1>21. CASE Reset
  BY <1>4, <1>21 DEF Reset
<1>22. CASE Parse
  BY <1>4, <1>22 DEF Parse
<1>23. CASE Click
  BY <1>4, <1>23 DEF Click
<1>24. CASE Reload
  BY <1>4, <1>24 DEF Reload
<1>25. CASE Mounted
  BY <1>4, <1>25 DEF Mounted
<1>26. CASE UNCHANGED streamVars
  BY <1>4, <1>26 DEF streamVars
<1> QED
  BY <1>8, <1>9, <1>10, <1>11, <1>12, <1>13, <1>14, <1>15, <1>16, <1>17, <1>18, <1>19, <1>20,
     <1>21, <1>22, <1>23, <1>24, <1>25, <1>26 DEF StreamNext, Moves

(* TerminalStream's FlowIsExact is an invariant: the credit for all that    *)
(* the daemon counts comes back unless the buffer overflowed, and the       *)
(* terminal stands only for output that is counted.                        *)
THEOREM FlowExact == StreamSpec => []FlowIsExact
<1>1. StreamTyped /\ Credited /\ Paused => FlowIsExact
  BY StreamTypes DEF FlowIsExact, Credited, Paused, PausedWithCause
<1>2. StreamInit => Credited /\ Paused
  <2> SUFFICES ASSUME StreamInit PROVE Credited /\ Paused
    OBVIOUS
  <2>1. /\ delivery.pending = <<>> /\ delivery.bytes = 0 /\ toAgentd = <<>> /\ toMain = <<>>
        /\ unacked = 0 /\ flow = <<>> /\ paused = FALSE
    BY DEF StreamInit
  <2>2. Len(<<>>) = 0 /\ 1 .. 0 = {} /\ 0 <= 0 + 0 + 0 /\ Sum(<<>>) = 0
    BY SetEmpty, SumEmpty
  <2>3. 0 <= Batch
    BY StreamAssumption
  <2>4. Credited
    BY <2>1, <2>2, <2>3 DEF Credited, CreditReturns
  <2> QED
    BY <2>1, <2>4 DEF Paused, StreamInit
<1>3. StreamInit => StreamTyped /\ OrderInv /\ Credited /\ Paused
  BY <1>2, StreamTypedInit, OrderInit
<1>4. /\ StreamTyped /\ OrderInv /\ Credited /\ Paused
      /\ [StreamNext]_streamVars
      => (StreamTyped /\ OrderInv /\ Credited /\ Paused)'
  BY StreamTypedNext, OrderNext, CreditedNext, PausedNext
<1> QED
  BY <1>1, <1>3, <1>4, PTL DEF StreamSpec
===============================================================================
