------------------------ MODULE BrowserManagerProofs ------------------------
(***************************************************************************)
(* TLAPS proofs about BrowserManager, for any number of start() calls,     *)
(* actions and control requests, and about BrowserPreview, for any number  *)
(* of pages and frame ids.  Of the first, Lines says which connection the  *)
(* worker serves, Sent what it was sent there; InDoubt that the manager    *)
(* still tracks, or doubts, each action the worker may be doing on the     *)
(* connection in use; and Awaited that settleActions() waits for all that  *)
(* are tracked.                                                            *)
(*                                                                         *)
(* Of the second, Pictured says that whatever was made of a page, and is   *)
(* kept or on its way, is the active page's if its generation is still the *)
(* worker's; Announced that the last generation on its way, from worker to *)
(* daemon or from main to window, is the sender's; Switching the same of   *)
(* whether frames are wanted; and Alive where the frame is that the daemon *)
(* waits for.                                                              *)
(***************************************************************************)
EXTENDS BrowserManager, BrowserPreview, SequenceTheorems, TLAPS

Unconnected == {"unused", "reserved", "launching", "connecting", "kicking", "retrying"}

Lines ==
  /\ conn # None => serving \in {conn, None}
  /\ conn # None /\ serving = conn => line[conn] = "open"
  /\ \A s \in Starts : start[s] \in Unconnected =>
       s # conn /\ s # serving /\ \A c \in Calls : on[c] # s

Sent ==
  /\ \A c \in Calls : call[c] = "unused" => c \notin doing \cup replied
  /\ \A c \in doing : c \notin replied /\ on[c] # None /\ (on[c] = conn => serving = conn)

InDoubt ==
  \A a \in doing \cap Acts : on[a] = conn =>
    fresh[a] /\ (call[a] \in Waiting \/ (call[a] = "timedout" /\ uncertainAction))

Awaited ==
  settle = "waiting" => \A a \in Acts : call[a] \in Waiting => call[a] = "left" /\ a \in waits

IInv == DoubtIsOfThisBrowser /\ Lines /\ Sent /\ InDoubt /\ Awaited

LEMMA InitInv == Init => IInv
<1> SUFFICES ASSUME Init PROVE IInv
  OBVIOUS
<1>1. TypeOK
  BY DEF Init, TypeOK
<1>2. Lines
  BY Distinct DEF Init, Lines
<1> QED
  BY <1>1, <1>2 DEF Init, IInv, DoubtIsOfThisBrowser, Sent, InDoubt, Awaited

-----------------------------------------------------------------------------
(* A line that is closed here, or lost by the worker.                      *)
LinesOf == [Starts -> {"none", "open", "cut", "lost", "closed"}]

LEMMA Closing ==
  ASSUME line \in LinesOf
  PROVE  /\ Cut \in LinesOf /\ Lost \in LinesOf
         /\ \A s \in Starts : s # conn => Cut[s] = line[s]
BY DEF LinesOf, Cut, Lost, Open

(* Steps of the connections and of start() keep the types.                 *)
LEMMA SessionType ==
  ASSUME TypeOK, NEW s \in Starts,
         Start(s) \/ StartTimed(s) \/ StartByPodman(s) \/ StartServed(s) \/ RestartBegins(s) \/ CloseEvent(s)
  PROVE  TypeOK'
<1> USE Distinct DEF TypeOK
<1>1. Cut \in LinesOf /\ Lost \in LinesOf
  BY Closing DEF LinesOf
<1>2. CASE Start(s)
  BY <1>2 DEF Start, Begun, requests, settling
<1>3. CASE Launched(s)
  BY <1>3 DEF Launched, requests, settling
<1>4. CASE GivesUp(s) \/ Kicks(s) \/ Kicked(s)
  BY <1>4 DEF GivesUp, Kicks, Kicked, requests, settling
<1>5. CASE FailStart(s)
  BY <1>1, <1>5 DEF FailStart, Over, requests, settling, LinesOf
<1>6. CASE RestartGoesOn(s)
  BY <1>1, <1>6 DEF RestartGoesOn, Removed, Begun, Over, settling, LinesOf
<1>7. CASE Connected(s)
  BY <1>1, <1>7 DEF Connected, requests, settling, LinesOf
<1>8. CASE Informed(s)
  BY <1>8 DEF Informed, Over, requests, settling
<1>9. CASE RestartBegins(s)
  BY <1>1, <1>9, ZenonT(60) DEF RestartBegins, Begun, settling, LinesOf
<1>10. CASE CloseEvent(s)
  BY <1>10 DEF CloseEvent, settling
<1> QED
  BY <1>2, <1>3, <1>4, <1>5, <1>6, <1>7, <1>8, <1>9, <1>10 DEF StartTimed, StartByPodman, StartServed

LEMMA OtherType ==
  ASSUME TypeOK,
         \/ \E c \in Calls : Call(c) \/ Abort(c) \/ WorkerFinishes(c) \/ ReplyArrives(c) \/ TimesOut(c)
         \/ WorkerDies \/ StateArrives \/ Stop \/ DestroyBegins \/ DestroyEnds
         \/ Settle \/ Settled \/ GoOn
  PROVE  TypeOK'
<1> USE Distinct DEF TypeOK
<1>1. Cut \in LinesOf /\ Lost \in LinesOf
  BY Closing DEF LinesOf
<1>2. ASSUME NEW c \in Calls, Call(c) PROVE TypeOK'
  BY <1>2 DEF Call, session, settling, requireConn
<1>3. ASSUME NEW c \in Calls, Abort(c) PROVE TypeOK'
  BY <1>3 DEF Abort, session, settling
<1>4. ASSUME NEW c \in Calls, WorkerFinishes(c) PROVE TypeOK'
  BY <1>4 DEF WorkerFinishes, session, settling
<1>5. ASSUME NEW c \in Calls, ReplyArrives(c) PROVE TypeOK'
  BY <1>5 DEF ReplyArrives, settling
<1>6. ASSUME NEW c \in Calls, TimesOut(c) PROVE TypeOK'
  BY <1>6 DEF TimesOut, Doubts, session, settling
<1>7. CASE WorkerDies
  BY <1>1, <1>7 DEF WorkerDies, settling, LinesOf
<1>8. CASE StateArrives
  BY <1>8 DEF StateArrives, requests, settling
<1>9. CASE Stop
  BY <1>1, <1>9 DEF Stop, requests, settling, LinesOf
<1>10. CASE DestroyBegins
  BY <1>1, <1>10 DEF DestroyBegins, Destroyed, requests, settling, LinesOf
<1>11. CASE DestroyEnds
  BY <1>1, <1>11 DEF DestroyEnds, Destroyed, Removed, settling, LinesOf
<1>12. CASE Settle \/ Settled \/ GoOn
  BY <1>12 DEF Settle, Settled, GoOn, session, requests
<1> QED
  BY <1>2, <1>3, <1>4, <1>5, <1>6, <1>7, <1>8, <1>9, <1>10, <1>11, <1>12

-----------------------------------------------------------------------------
(* The epoch's doubts.                                                     *)

LEMMA DoubtStays ==
  ASSUME DoubtIsOfThisBrowser, TypeOK', uncertainAction' => uncertainAction,
         \A a \in Acts : fresh[a] /\ call[a] = "timedout" => fresh'[a] /\ call'[a] = "timedout"
  PROVE  DoubtIsOfThisBrowser'
BY DEF DoubtIsOfThisBrowser

(* A step that sends nothing, finishes nothing and leaves the connections  *)
(* in use alone, or closes one.                                            *)
LEMMA RequestsStay ==
  ASSUME Sent, InDoubt, Awaited, UNCHANGED <<call, on, fresh, uncertainAction, settling>>,
         doing' \subseteq doing, replied' = replied,
         \/ UNCHANGED conn /\ (doing' # {} => UNCHANGED serving)
         \/ \A c \in Calls : on[c] # conn' \/ c \notin doing',
         doing \subseteq Calls
  PROVE  Sent' /\ InDoubt' /\ Awaited'
<1>1. Sent'
  BY DEF Sent
<1>2. InDoubt'
  BY DEF InDoubt
<1>3. Awaited'
  BY DEF Awaited, settling
<1> QED
  BY <1>1, <1>2, <1>3

LEMMA SessionInv ==
  ASSUME IInv, NEW s \in Starts,
         Start(s) \/ StartTimed(s) \/ StartByPodman(s) \/ StartServed(s) \/ RestartBegins(s) \/ CloseEvent(s)
  PROVE  IInv'
<1>0. TypeOK /\ TypeOK' /\ DoubtIsOfThisBrowser /\ Lines /\ Sent /\ InDoubt /\ Awaited
  BY SessionType DEF IInv, DoubtIsOfThisBrowser
<1>1. doing \subseteq Calls /\ line \in LinesOf /\ None \notin Starts
  BY <1>0, Distinct DEF TypeOK, LinesOf
<1>2. CASE Start(s) \/ Launched(s) \/ GivesUp(s) \/ Kicks(s) \/ Kicked(s) \/ Informed(s)
  <2>1. UNCHANGED <<conn, line, serving, requests, settling>>
    BY <1>2 DEF Start, Launched, GivesUp, Kicks, Kicked, Seeking, Informed
  <2>2. \A t \in Starts : start'[t] \in Unconnected => start[t] \in Unconnected
    BY <1>0, <1>2 DEF Start, Launched, GivesUp, Kicks, Kicked, Seeking, Informed, Over, Begun, TypeOK, Unconnected
  <2>3. Lines'
    BY <1>0, <2>1, <2>2 DEF Lines, requests
  <2>4. Sent' /\ InDoubt' /\ Awaited'
    BY <1>0, <1>1, <2>1, RequestsStay DEF requests
  <2>5. DoubtIsOfThisBrowser'
    BY <1>0, <2>1, DoubtStays DEF requests
  <2> QED
    BY <2>3, <2>4, <2>5 DEF IInv
<1>3. CASE FailStart(s)
  <2>1. conn' = None /\ UNCHANGED <<serving, requests, settling>> /\ start' = [start EXCEPT ![s] = "done"]
    BY <1>3 DEF FailStart, Over
  <2>2. \A t \in Starts : start'[t] \in Unconnected => start[t] \in Unconnected
    BY <1>0, <2>1 DEF TypeOK, Unconnected
  <2>3. Lines'
    BY <1>0, <1>1, <2>1, <2>2 DEF Lines, requests
  <2>4. Sent' /\ InDoubt' /\ Awaited'
    BY <1>0, <1>1, <2>1, RequestsStay DEF requests, Sent
  <2>5. DoubtIsOfThisBrowser'
    BY <1>0, <2>1, DoubtStays DEF requests
  <2> QED
    BY <2>3, <2>4, <2>5 DEF IInv
<1>4. CASE Connected(s)
  <2>1. /\ conn' = s /\ serving' = s /\ line' = [Lost EXCEPT ![s] = "open"]
        /\ start' = [start EXCEPT ![s] = "asking"] /\ UNCHANGED <<requests, settling>>
        /\ start[s] \in Seeking
    BY <1>4 DEF Connected
  <2>2. \A t \in Starts : start'[t] \in Unconnected => start[t] \in Unconnected /\ t # s
    BY <1>0, <2>1 DEF TypeOK, Unconnected
  <2>3. \A c \in Calls : on[c] # s
    BY <1>0, <2>1 DEF Lines, Unconnected, Seeking
  <2>4. Lines'
    BY <1>0, <1>1, <2>1, <2>2, Closing DEF Lines, requests, LinesOf
  <2>5. Sent' /\ InDoubt' /\ Awaited'
    BY <1>0, <1>1, <2>1, <2>3, RequestsStay DEF requests
  <2>6. DoubtIsOfThisBrowser'
    BY <1>0, <2>1, DoubtStays DEF requests
  <2> QED
    BY <2>4, <2>5, <2>6 DEF IInv
<1>5. CASE RestartGoesOn(s)
  <2>1. /\ UNCHANGED <<conn, call, on, fresh, replied, uncertainAction, settling>>
        /\ \/ serving' = None /\ doing' = {}
           \/ UNCHANGED <<serving, doing, line>>
    BY <1>5 DEF RestartGoesOn, Removed
  <2>2. \A t \in Starts : start'[t] \in Unconnected => start[t] \in Unconnected
    BY <1>0, <1>5 DEF RestartGoesOn, Over, Begun, TypeOK, Unconnected
  <2>3. Lines'
    BY <1>0, <1>1, <2>1, <2>2 DEF Lines
  <2>4. Sent' /\ InDoubt' /\ Awaited'
    BY <1>0, <1>1, <2>1, RequestsStay
  <2>5. DoubtIsOfThisBrowser'
    BY <1>0, <2>1, DoubtStays
  <2> QED
    BY <2>3, <2>4, <2>5 DEF IInv
<1>6. CASE RestartBegins(s)
  <2>1. /\ conn' = None /\ uncertainAction' = FALSE /\ start[s] = "unused"
        /\ UNCHANGED <<serving, call, on, doing, replied, settling>>
    BY <1>6 DEF RestartBegins
  <2>2. \A t \in Starts : start'[t] \in Unconnected => start[t] \in Unconnected
    BY <1>0, <1>6 DEF RestartBegins, Begun, TypeOK, Unconnected
  <2>3. Lines'
    BY <1>0, <1>1, <2>1, <2>2 DEF Lines
  <2>4. Sent' /\ InDoubt' /\ Awaited'
    BY <1>0, <1>1, <2>1 DEF Sent, InDoubt, Awaited, settling
  <2>5. DoubtIsOfThisBrowser'
    BY <1>0, <2>1 DEF DoubtIsOfThisBrowser
  <2> QED
    BY <2>3, <2>4, <2>5 DEF IInv
<1>7. CASE CloseEvent(s)
  <2>1. /\ line[s] \in {"cut", "lost"} /\ line' = [line EXCEPT ![s] = "closed"]
        /\ call' = [c \in Calls |-> IF on[c] = s /\ call[c] \in Waiting THEN "ended" ELSE call[c]]
        /\ start' = [start EXCEPT ![s] = IF @ = "asking" THEN "failing" ELSE @]
        /\ replied' \subseteq replied
        /\ UNCHANGED <<conn, serving, on, fresh, doing, uncertainAction, settling>>
    BY <1>7 DEF CloseEvent
  <2>2. \A t \in Starts : start'[t] \in Unconnected => start[t] \in Unconnected
    BY <1>0, <2>1 DEF TypeOK, Unconnected
  <2>3. Lines'
    BY <1>0, <1>1, <2>1, <2>2 DEF Lines, LinesOf
  <2>4. Sent'
    BY <1>0, <1>1, <2>1 DEF Sent, Waiting
  <2>5. InDoubt'
    <3>1. \A c \in doing : on[c] = conn => on[c] # s
      BY <1>0, <2>1 DEF Sent, Lines
    <3> QED
      BY <1>0, <1>1, <2>1, <3>1 DEF InDoubt, Waiting
  <2>6. Awaited'
    BY <1>0, <2>1 DEF Awaited, Waiting, settling, Calls
  <2>7. DoubtIsOfThisBrowser'
    BY <1>0, <2>1, DoubtStays DEF Waiting, Calls
  <2> QED
    BY <2>3, <2>4, <2>5, <2>6, <2>7 DEF IInv
<1> QED
  BY <1>2, <1>3, <1>4, <1>5, <1>6, <1>7 DEF StartTimed, StartByPodman, StartServed


LEMMA OtherInv ==
  ASSUME IInv, WorkerDies \/ StateArrives \/ Stop \/ DestroyBegins \/ DestroyEnds
  PROVE  IInv'
<1>0. TypeOK /\ TypeOK' /\ DoubtIsOfThisBrowser /\ Lines /\ Sent /\ InDoubt /\ Awaited
  BY OtherType DEF IInv, DoubtIsOfThisBrowser
<1>1. doing \subseteq Calls /\ line \in LinesOf /\ None \notin Starts
  BY <1>0, Distinct DEF TypeOK, LinesOf
<1>2. /\ UNCHANGED <<start, call, on, fresh, replied, uncertainAction, settling>>
      /\ \/ conn' = None /\ UNCHANGED <<serving, doing>>
         \/ serving' = None /\ doing' = {} /\ UNCHANGED conn
         \/ UNCHANGED <<conn, line, serving, doing>>
  BY DEF WorkerDies, StateArrives, Stop, DestroyBegins, DestroyEnds, Removed, requests
<1>3. Lines'
  BY <1>0, <1>1, <1>2 DEF Lines
<1>4. Sent' /\ InDoubt' /\ Awaited'
  BY <1>0, <1>1, <1>2, RequestsStay DEF Sent
<1>5. DoubtIsOfThisBrowser'
  BY <1>0, <1>2, DoubtStays
<1> QED
  BY <1>3, <1>4, <1>5 DEF IInv

LEMMA RequestInv ==
  ASSUME IInv, NEW c \in Calls,
         Call(c) \/ Abort(c) \/ WorkerFinishes(c) \/ ReplyArrives(c) \/ TimesOut(c)
  PROVE  IInv'
<1>0. TypeOK /\ TypeOK' /\ DoubtIsOfThisBrowser /\ Lines /\ Sent /\ InDoubt /\ Awaited
  BY OtherType DEF IInv, DoubtIsOfThisBrowser
<1>1. /\ doing \subseteq Calls /\ replied \subseteq Calls /\ call \in [Calls -> {"unused", "pending", "left", "ended", "timedout"}]
      /\ on \in [Calls -> Starts \cup {None}] /\ fresh \in [Calls -> BOOLEAN] /\ Acts \subseteq Calls
      /\ conn \in Starts \cup {None}
  BY <1>0 DEF TypeOK, Calls
<1>2. UNCHANGED <<conn, line, serving, start, settling>>
  BY DEF Call, Abort, WorkerFinishes, ReplyArrives, TimesOut, session
<1>3. CASE Call(c)
  <2>1. /\ call[c] = "unused" /\ conn # None /\ line[conn] \in Open /\ MayCall(c)
        /\ call' = [call EXCEPT ![c] = "pending"] /\ on' = [on EXCEPT ![c] = conn]
        /\ fresh' = [fresh EXCEPT ![c] = TRUE]
        /\ doing' = IF serving = conn THEN doing \cup {c} ELSE doing
        /\ UNCHANGED <<replied, uncertainAction>>
    BY <1>3 DEF Call, requireConn
  <2>2. c \notin doing /\ c \notin replied
    BY <1>0, <2>1 DEF Sent
  <2>3. Lines'
    BY <1>0, <1>1, <1>2, <2>1 DEF Lines
  <2>4. Sent'
    BY <1>0, <1>1, <1>2, <2>1, <2>2 DEF Sent
  <2>5. InDoubt'
    BY <1>0, <1>1, <1>2, <2>1, <2>2 DEF InDoubt, Waiting
  <2>6. Awaited'
    BY <1>0, <1>1, <1>2, <2>1 DEF Awaited, MayCall, settling
  <2>7. DoubtIsOfThisBrowser'
    BY <1>0, <1>1, <2>1, DoubtStays
  <2> QED
    BY <2>3, <2>4, <2>5, <2>6, <2>7 DEF IInv
<1>4. CASE Abort(c)
  <2>1. call[c] = "pending" /\ call' = [call EXCEPT ![c] = "left"] /\ c \in Acts
        /\ UNCHANGED <<on, fresh, doing, replied, uncertainAction>>
    BY <1>4 DEF Abort
  <2>2. Lines' /\ Sent' /\ InDoubt'
    BY <1>0, <1>1, <1>2, <2>1 DEF Lines, Sent, InDoubt, Waiting
  <2>3. Awaited'
    BY <1>0, <1>1, <1>2, <2>1 DEF Awaited, Waiting, settling
  <2>4. DoubtIsOfThisBrowser'
    BY <1>0, <1>1, <2>1, DoubtStays
  <2> QED
    BY <2>2, <2>3, <2>4 DEF IInv
<1>5. CASE WorkerFinishes(c)
  <2>1. c \in doing /\ doing' = doing \ {c} /\ UNCHANGED <<call, on, fresh, uncertainAction>>
        /\ replied' = IF serving = on[c] THEN replied \cup {c} ELSE replied
    BY <1>5 DEF WorkerFinishes
  <2>2. Lines' /\ InDoubt' /\ Awaited'
    BY <1>0, <1>1, <1>2, <2>1 DEF Lines, InDoubt, Awaited, settling
  <2>3. Sent'
    BY <1>0, <1>1, <1>2, <2>1 DEF Sent
  <2>4. DoubtIsOfThisBrowser'
    BY <1>0, <1>1, <2>1, DoubtStays
  <2> QED
    BY <2>2, <2>3, <2>4 DEF IInv
<1>6. CASE ReplyArrives(c)
  <2>1. c \in replied /\ replied' = replied \ {c} /\ UNCHANGED <<on, fresh, doing, uncertainAction>>
        /\ call' = [call EXCEPT ![c] = IF @ \in Waiting THEN "ended" ELSE @]
    BY <1>6 DEF ReplyArrives
  <2>2. c \notin doing
    BY <1>0, <2>1 DEF Sent
  <2>3. Lines' /\ Sent'
    BY <1>0, <1>1, <1>2, <2>1, <2>2 DEF Lines, Sent
  <2>4. InDoubt'
    BY <1>0, <1>1, <1>2, <2>1, <2>2 DEF InDoubt, Waiting
  <2>5. Awaited'
    BY <1>0, <1>1, <1>2, <2>1 DEF Awaited, Waiting, settling
  <2>6. DoubtIsOfThisBrowser'
    BY <1>0, <1>1, <2>1, DoubtStays DEF Waiting
  <2> QED
    BY <2>3, <2>4, <2>5, <2>6 DEF IInv
<1>7. CASE TimesOut(c)
  <2>1. call[c] \in Waiting /\ call' = [call EXCEPT ![c] = "timedout"] /\ UNCHANGED <<on, fresh, doing, replied>>
        /\ uncertainAction' = (uncertainAction \/ (c \in Acts /\ fresh[c]))
    BY <1>7 DEF TimesOut, Doubts
  <2>2. Lines' /\ Sent'
    BY <1>0, <1>1, <1>2, <2>1 DEF Lines, Sent
  <2>3. InDoubt'
    BY <1>0, <1>1, <1>2, <2>1 DEF InDoubt
  <2>4. Awaited'
    BY <1>0, <1>1, <1>2, <2>1 DEF Awaited, Waiting, settling
  <2>5. DoubtIsOfThisBrowser'
    BY <1>0, <1>1, <2>1 DEF DoubtIsOfThisBrowser
  <2> QED
    BY <2>2, <2>3, <2>4, <2>5 DEF IInv
<1> QED
  BY <1>3, <1>4, <1>5, <1>6, <1>7

LEMMA SettlingInv == ASSUME IInv, Settle \/ Settled \/ GoOn PROVE IInv'
<1>0. TypeOK /\ TypeOK' /\ DoubtIsOfThisBrowser /\ Lines /\ Sent /\ InDoubt /\ Awaited
  BY OtherType DEF IInv, DoubtIsOfThisBrowser
<1>1. UNCHANGED <<conn, line, serving, start, call, on, fresh, doing, replied, uncertainAction>>
  BY DEF Settle, Settled, GoOn, session, requests
<1>2. Lines' /\ Sent' /\ InDoubt'
  BY <1>0, <1>1 DEF Lines, Sent, InDoubt
<1>3. Awaited'
  BY <1>0, <1>1 DEF Awaited, Settle, Settled, GoOn, Waiting
<1>4. DoubtIsOfThisBrowser'
  BY <1>0, <1>1, DoubtStays
<1> QED
  BY <1>2, <1>3, <1>4 DEF IInv

LEMMA StepInv == IInv /\ [Next]_vars => IInv'
<1> SUFFICES ASSUME IInv, [Next]_vars PROVE IInv'
  OBVIOUS
<1>1. CASE Next
  BY <1>1, SessionInv, OtherInv, RequestInv, SettlingInv DEF Next
<1>2. CASE UNCHANGED vars
  <2>1. TypeOK'
    BY <1>2 DEF IInv, DoubtIsOfThisBrowser, TypeOK, vars, session, requests, settling
  <2>2. DoubtIsOfThisBrowser'
    BY <1>2, <2>1 DEF IInv, DoubtIsOfThisBrowser, vars, requests
  <2> QED
    BY <1>2, <2>2 DEF IInv, Lines, Sent, InDoubt, Awaited, vars, session, requests, settling
<1> QED
  BY <1>1, <1>2

LEMMA Always == Spec => []IInv
BY InitInv, StepInv, PTL DEF Spec

(* The browser is doubted only for an action of this epoch that ran out of *)
(* time: a restart clears the doubt, and nothing from before it returns.   *)
THEOREM DoubtsThisBrowser == Spec => []DoubtIsOfThisBrowser
<1>1. IInv => DoubtIsOfThisBrowser
  BY DEF IInv
<1> QED
  BY <1>1, Always, PTL

(* What was aborted is waited for, and what timed out is doubted.          *)
LEMMA SettledStep ==
  IInv /\ [Next]_vars => [(settle = "waiting" /\ settle' = "ok") => \A a \in doing \cap Acts : on[a] # conn]_vars
<1> SUFFICES ASSUME IInv, Next, settle = "waiting", settle' = "ok", NEW a \in doing \cap Acts
             PROVE  on[a] # conn
  OBVIOUS
<1>1. Settled
  BY DEF Next, StartTimed, StartByPodman, StartServed, Start, Launched, Kicks, Kicked, GivesUp, FailStart,
         RestartGoesOn, Connected, Informed,
         RestartBegins, CloseEvent, Call, Abort, WorkerFinishes, ReplyArrives, TimesOut, WorkerDies, StateArrives,
         Stop, DestroyBegins, DestroyEnds, Settle, GoOn, settling
<1>2. call[a] \notin Waiting /\ ~uncertainAction
  BY <1>1 DEF Settled, IInv, Awaited
<1> QED
  BY <1>2 DEF IInv, InDoubt

(* When settleActions() lets work go on, the worker is through with every  *)
(* action it was given on the connection in use, those whose caller was    *)
(* aborted included.                                                       *)
THEOREM SettledIsSettled == Spec => SettledOnLine
<1>1. Spec => [][(settle = "waiting" /\ settle' = "ok") => \A a \in doing \cap Acts : on[a] # conn]_vars
  BY SettledStep, Always, PTL DEF Spec
<1> QED
  BY <1>1 DEF SettledOnLine

-----------------------------------------------------------------------------
(* The live picture (BrowserPreview).                                      *)

Members(q) == {q[i] : i \in 1 .. Len(q)}

(* The latest of its kind that a queue brings, or, if it brings none, h.   *)
Latest(q, kind, h, e) ==
  \/ h = e /\ \A x \in Members(q) : x.kind # kind
  \/ \E i \in 1 .. Len(q) : q[i] = e /\ \A j \in 1 .. Len(q) : j > i => q[j].kind # kind

(* Messages of rising generations, all from lo to hi.                      *)
Ascends(q, lo, hi) ==
  /\ \A i \in 1 .. Len(q) : lo <= q[i].gen /\ q[i].gen <= hi
  /\ \A i, j \in 1 .. Len(q) : i < j => q[i].gen <= q[j].gen

LEMMA Appended ==
  ASSUME NEW S, NEW q \in Seq(S), NEW x \in S
  PROVE  /\ Append(q, x) \in Seq(S) /\ Len(Append(q, x)) = Len(q) + 1 /\ Len(q) \in Nat
         /\ \A i \in 1 .. Len(q) : Append(q, x)[i] = q[i]
         /\ Append(q, x)[Len(q) + 1] = x
         /\ Members(Append(q, x)) = Members(q) \cup {x}
<1>1. /\ Append(q, x) \in Seq(S) /\ Len(Append(q, x)) = Len(q) + 1 /\ Len(q) \in Nat
      /\ \A i \in 1 .. Len(q) : Append(q, x)[i] = q[i]
      /\ Append(q, x)[Len(q) + 1] = x
  BY AppendProperties, LenProperties
<1>2. 1 .. Len(q) + 1 = (1 .. Len(q)) \cup {Len(q) + 1}
  BY <1>1
<1> QED
  BY <1>1, <1>2, Zenon DEF Members

LEMMA Shortened ==
  ASSUME NEW S, NEW q \in Seq(S), q # <<>>
  PROVE  /\ Tail(q) \in Seq(S) /\ Len(Tail(q)) = Len(q) - 1 /\ Len(q) \in Nat \ {0} /\ Len(Tail(q)) \in Nat
         /\ \A i \in 1 .. Len(Tail(q)) : Tail(q)[i] = q[i + 1]
         /\ Head(q) = q[1] /\ Head(q) \in S
         /\ Members(q) = {Head(q)} \cup Members(Tail(q))
<1>1. /\ Tail(q) \in Seq(S) /\ Len(Tail(q)) = Len(q) - 1 /\ Len(q) \in Nat \ {0} /\ Len(Tail(q)) \in Nat
      /\ \A i \in 1 .. Len(Tail(q)) : Tail(q)[i] = q[i + 1]
      /\ Head(q) = q[1] /\ Head(q) \in S
  BY HeadTailProperties, LenProperties, EmptySeq, ElementOfSeq
<1>2. Members(q) = {Head(q)} \cup Members(Tail(q))
  <2>1. ASSUME NEW e \in Members(q) PROVE e \in {Head(q)} \cup Members(Tail(q))
    <3>1. PICK i \in 1 .. Len(q) : e = q[i]
      BY <2>1 DEF Members
    <3>2. CASE i = 1
      BY <1>1, <3>1, <3>2
    <3>3. CASE i # 1
      <4>1. i - 1 \in 1 .. Len(Tail(q)) /\ Tail(q)[i - 1] = q[(i - 1) + 1] /\ (i - 1) + 1 = i
        BY <1>1, <3>3
      <4> QED
        BY <3>1, <4>1 DEF Members
    <3> QED
      BY <3>2, <3>3
  <2>2. ASSUME NEW e \in Members(Tail(q)) PROVE e \in Members(q)
    <3>1. PICK i \in 1 .. Len(Tail(q)) : e = Tail(q)[i]
      BY <2>2 DEF Members
    <3>2. i + 1 \in 1 .. Len(q) /\ e = q[i + 1]
      BY <1>1, <3>1
    <3> QED
      BY <3>2 DEF Members
  <2>3. Head(q) \in Members(q)
    BY <1>1 DEF Members
  <2> QED
    BY <2>1, <2>2, <2>3
<1> QED
  BY <1>1, <1>2

LEMMA LatestAppend ==
  ASSUME NEW S, NEW q \in Seq(S), NEW x \in S, NEW kind, NEW h, NEW e
  PROVE  /\ x.kind # kind /\ Latest(q, kind, h, e) => Latest(Append(q, x), kind, h, e)
         /\ x.kind = kind => Latest(Append(q, x), kind, h, x)
<1> DEFINE t == Append(q, x)
<1>1. /\ Len(t) = Len(q) + 1 /\ Len(q) \in Nat
      /\ \A i \in 1 .. Len(q) : t[i] = q[i]
      /\ t[Len(q) + 1] = x /\ Members(t) = Members(q) \cup {x}
  BY Appended
<1> SUFFICES /\ x.kind # kind /\ Latest(q, kind, h, e) => Latest(t, kind, h, e)
             /\ x.kind = kind => Latest(t, kind, h, x)
  OBVIOUS
<1> HIDE DEF t
<1>2. x.kind = kind => Latest(t, kind, h, x)
  <2>1. Len(t) \in 1 .. Len(t) /\ t[Len(t)] = x
    BY <1>1
  <2>2. \A j \in 1 .. Len(t) : ~(j > Len(t))
    BY <1>1
  <2> QED
    BY <2>1, <2>2 DEF Latest
<1>3. ASSUME x.kind # kind, Latest(q, kind, h, e) PROVE Latest(t, kind, h, e)
  <2>1. CASE h = e /\ \A y \in Members(q) : y.kind # kind
    BY <1>1, <1>3, <2>1 DEF Latest
  <2>2. CASE \E i \in 1 .. Len(q) : q[i] = e /\ \A j \in 1 .. Len(q) : j > i => q[j].kind # kind
    <3>1. PICK i \in 1 .. Len(q) : q[i] = e /\ \A j \in 1 .. Len(q) : j > i => q[j].kind # kind
      BY <2>2
    <3>2. i \in 1 .. Len(t) /\ t[i] = e
      BY <1>1, <3>1
    <3>3. \A j \in 1 .. Len(t) : j > i => t[j].kind # kind
      <4> SUFFICES ASSUME NEW j \in 1 .. Len(t), j > i PROVE t[j].kind # kind
        OBVIOUS
      <4>1. j \in 1 .. Len(q) \/ j = Len(q) + 1
        BY <1>1
      <4> QED
        BY <1>1, <1>3, <3>1, <4>1
    <3> QED
      BY <3>2, <3>3 DEF Latest
  <2> QED
    BY <1>3, <2>1, <2>2 DEF Latest
<1> QED
  BY <1>2, <1>3

LEMMA LatestTail ==
  ASSUME NEW S, NEW q \in Seq(S), q # <<>>, NEW kind, NEW h, NEW e, e.kind = kind, Latest(q, kind, h, e)
  PROVE  Latest(Tail(q), kind, IF Head(q).kind = kind THEN Head(q) ELSE h, e)
<1> DEFINE t == Tail(q)
           g == IF Head(q).kind = kind THEN Head(q) ELSE h
<1>1. /\ Len(t) = Len(q) - 1 /\ Len(q) \in Nat \ {0} /\ Len(t) \in Nat
      /\ \A i \in 1 .. Len(t) : t[i] = q[i + 1]
      /\ Head(q) = q[1] /\ Members(q) = {Head(q)} \cup Members(t)
  BY Shortened
<1> SUFFICES Latest(t, kind, g, e)
  OBVIOUS
<1> HIDE DEF t
<1>2. CASE h = e /\ \A y \in Members(q) : y.kind # kind
  BY <1>1, <1>2 DEF Latest
<1>3. CASE \E i \in 1 .. Len(q) : q[i] = e /\ \A j \in 1 .. Len(q) : j > i => q[j].kind # kind
  <2>1. PICK i \in 1 .. Len(q) : q[i] = e /\ \A j \in 1 .. Len(q) : j > i => q[j].kind # kind
    BY <1>3
  <2>2. CASE i = 1
    <3>1. g = e
      BY <1>1, <2>1, <2>2
    <3>2. \A y \in Members(t) : y.kind # kind
      <4> SUFFICES ASSUME NEW y \in Members(t) PROVE y.kind # kind
        OBVIOUS
      <4>1. PICK j \in 1 .. Len(t) : y = t[j]
        BY DEF Members
      <4>2. j + 1 \in 1 .. Len(q) /\ j + 1 > i /\ y = q[j + 1]
        BY <1>1, <2>2, <4>1
      <4> QED
        BY <2>1, <4>2
    <3> QED
      BY <3>1, <3>2 DEF Latest
  <2>3. CASE i # 1
    <3>1. i - 1 \in 1 .. Len(t) /\ t[i - 1] = q[(i - 1) + 1] /\ (i - 1) + 1 = i
      BY <1>1, <2>3
    <3>2. \A j \in 1 .. Len(t) : j > i - 1 => t[j].kind # kind
      <4> SUFFICES ASSUME NEW j \in 1 .. Len(t), j > i - 1 PROVE t[j].kind # kind
        OBVIOUS
      <4>1. j + 1 \in 1 .. Len(q) /\ j + 1 > i /\ t[j] = q[j + 1]
        BY <1>1
      <4> QED
        BY <2>1, <4>1
    <3> QED
      BY <2>1, <3>1, <3>2 DEF Latest
  <2> QED
    BY <2>2, <2>3
<1> QED
  BY <1>2, <1>3 DEF Latest

LEMMA AscendsAppend ==
  ASSUME NEW S, NEW q \in Seq(S), NEW x \in S, NEW lo \in Nat, NEW hi \in Nat, lo <= hi,
         Ascends(q, lo, hi), x.gen = hi
  PROVE  Ascends(Append(q, x), lo, hi)
<1> DEFINE t == Append(q, x)
<1>1. /\ Len(t) = Len(q) + 1 /\ Len(q) \in Nat
      /\ \A i \in 1 .. Len(q) : t[i] = q[i]
      /\ t[Len(q) + 1] = x
  BY Appended
<1> SUFFICES Ascends(t, lo, hi)
  OBVIOUS
<1> HIDE DEF t
<1>2. \A i \in 1 .. Len(t) : i \in 1 .. Len(q) \/ i = Len(q) + 1
  BY <1>1
<1>3. \A i \in 1 .. Len(t) : lo <= t[i].gen /\ t[i].gen <= hi
  BY <1>1, <1>2 DEF Ascends
<1>4. ASSUME NEW i \in 1 .. Len(t), NEW j \in 1 .. Len(t), i < j PROVE t[i].gen <= t[j].gen
  <2>1. i \in 1 .. Len(q)
    BY <1>1, <1>4
  <2>2. CASE j \in 1 .. Len(q)
    BY <1>1, <1>4, <2>1, <2>2 DEF Ascends
  <2>3. CASE j = Len(q) + 1
    BY <1>1, <2>1, <2>3 DEF Ascends
  <2> QED
    BY <1>2, <2>2, <2>3
<1> QED
  BY <1>3, <1>4 DEF Ascends

LEMMA AscendsTail ==
  ASSUME NEW S, NEW q \in Seq(S), q # <<>>, NEW lo, NEW hi, Ascends(q, lo, hi)
  PROVE  lo <= Head(q).gen /\ Head(q).gen <= hi /\ Ascends(Tail(q), Head(q).gen, hi)
<1> DEFINE t == Tail(q)
<1>1. /\ Len(t) = Len(q) - 1 /\ Len(q) \in Nat \ {0} /\ Len(t) \in Nat
      /\ \A i \in 1 .. Len(t) : t[i] = q[i + 1]
      /\ Head(q) = q[1]
  BY Shortened
<1> SUFFICES lo <= Head(q).gen /\ Head(q).gen <= hi /\ Ascends(t, Head(q).gen, hi)
  OBVIOUS
<1> HIDE DEF t
<1>2. 1 \in 1 .. Len(q) /\ \A i \in 1 .. Len(t) : i + 1 \in 1 .. Len(q) /\ 1 < i + 1
  BY <1>1
<1>3. \A i \in 1 .. Len(t) : Head(q).gen <= t[i].gen /\ t[i].gen <= hi
  BY <1>1, <1>2 DEF Ascends
<1>4. ASSUME NEW i \in 1 .. Len(t), NEW j \in 1 .. Len(t), i < j PROVE t[i].gen <= t[j].gen
  <2>1. i + 1 < j + 1
    BY <1>1, <1>4
  <2> QED
    BY <1>1, <1>2, <2>1 DEF Ascends
<1> QED
  BY <1>1, <1>2, <1>3, <1>4 DEF Ascends

-----------------------------------------------------------------------------
Frame(page, id) == [kind : {"frame"}, gen : Nat, page : page, id : id]
OnWire == [kind : {"frame"}, gen : Nat, page : Pages] \cup [kind : {"state"}, gen : Nat]
OnShow == Frame(Pages, Ids) \cup [kind : {"state"}, gen : Nat]
OnTold == [kind : {"frames"}, on : BOOLEAN] \cup [kind : {"ack"}, id : Nat]

Page0 == Pages \cup {Absent}
Inputs == [gen : Nat, page : Pages]
Workers ==
  [gen : Nat \ {0}, page : Pages, fronting : BOOLEAN, stray : BOOLEAN, frames : BOOLEAN, hung : BOOLEAN,
   error : BOOLEAN, dirty : BOOLEAN, queue : Seq(Inputs), run : {"idle", "stop"},
   more : BOOLEAN, target : Page0, cast : [page : Page0, gen : Nat]]
Daemons == [want : BOOLEAN, id : Ids \cup {Absent}, next : Frame(Pages, {Absent}) \cup {NoFrame}, gen : Nat]
Mains == [wanted : BOOLEAN, focus : BOOLEAN, gen : Nat, loading : BOOLEAN]
Panels ==
  [at : {"closed", "open", "loading"}, seen : BOOLEAN, gen : Nat, shown : Nat, pic : Page0,
   dec : Frame(Page0, Ids \cup {Absent}), error : BOOLEAN]

Typed ==
  /\ w \in Workers /\ d \in Daemons /\ m \in Mains /\ u \in Panels
  /\ wire \in Seq(OnWire) /\ show \in Seq(OnShow) /\ told \in Seq(OnTold) /\ down \in Seq(BOOLEAN)
  /\ u.dec.id = Absent => u.dec = NoFrame

(* What was made of a page, under a generation, is not of a later one; of  *)
(* the current one it is of the active page.                               *)
Of(x, gen, page) == gen <= x.gen /\ (gen = x.gen /\ ~x.fronting /\ ~x.stray => page = x.page)
Pictured ==
  /\ \A f \in Members(wire) \cup Members(show) : f.kind = "frame" => Of(w, f.gen, f.page)
  /\ Of(w, d.next.gen, d.next.page) /\ Of(w, u.shown, u.pic)
  /\ u.dec.page # Absent => Of(w, u.dec.gen, u.dec.page)
  /\ \A i \in 1 .. Len(w.queue) : Of(w, w.queue[i].gen, w.queue[i].page)

(* The generation on its way: from the worker to the daemon, and from main *)
(* to the window.                                                          *)
Announced ==
  /\ d.gen <= w.gen /\ Ascends(wire, d.gen, w.gen)
  /\ ~w.dirty => Latest(wire, "state", State(d.gen), State(w.gen))
  /\ d.gen = m.gen
  /\ Latest(show, "state", State(u.gen), State(m.gen))

(* The daemon will know whether frames are wanted; a closed panel wants    *)
(* none.                                                                   *)
Switching ==
  /\ Latest(told, "frames", Frames(d.want), Frames(m.wanted /\ m.focus))
  /\ d.id # Absent => d.want
  /\ u.at = "closed" => ~m.wanted

Carrying(id) ==
  \/ u.dec.id = id \/ Ack(id) \in Members(told)
  \/ \E f \in Members(show) : f.kind = "frame" /\ f.id = id
Alive == d.id # Absent /\ u.at # "loading" => Carrying(d.id) \/ Frames(FALSE) \in Members(told)

PreviewInv == Typed /\ Pictured /\ Announced /\ Switching /\ Alive

LEMMA PreviewConstants ==
  /\ Absent = 0 /\ First \in Pages /\ NoFrame \in Frame(Page0, {Absent}) /\ Absent \notin Pages \cup Ids
  /\ Ids \subseteq Nat /\ NoFrame.gen = 0 /\ NoFrame.page = Absent /\ NoFrame.id = Absent
  /\ \A g \in Nat : State(g) \in OnWire /\ State(g) \in OnShow /\ State(g).kind = "state" /\ State(g).gen = g
  /\ \A b \in BOOLEAN : Frames(b) \in OnTold /\ Frames(b).kind = "frames" /\ Frames(b).on = b
  /\ \A id \in Nat : Ack(id) \in OnTold /\ Ack(id).kind = "ack" /\ Ack(id).id = id
<1>1. Absent = 0 /\ First \in Pages /\ Absent \notin Pages \cup Ids /\ Ids \subseteq Nat
  BY PreviewAssumption DEF First, Absent
<1>2. NoFrame \in Frame(Page0, {Absent}) /\ NoFrame.gen = 0 /\ NoFrame.page = Absent /\ NoFrame.id = Absent
  BY DEF NoFrame, Frame, Page0, Absent
<1>3. \A g \in Nat : State(g) \in OnWire /\ State(g) \in OnShow /\ State(g).kind = "state" /\ State(g).gen = g
  BY DEF State, OnWire, OnShow
<1>4. \A b \in BOOLEAN : Frames(b) \in OnTold /\ Frames(b).kind = "frames" /\ Frames(b).on = b
  BY DEF Frames, OnTold
<1>5. \A id \in Nat : Ack(id) \in OnTold /\ Ack(id).kind = "ack" /\ Ack(id).id = id
  BY DEF Ack, OnTold
<1> QED
  BY <1>1, <1>2, <1>3, <1>4, <1>5

LEMMA EmptyQueue ==
  /\ Members(<<>>) = {} /\ Len(<<>>) = 0
  /\ \A lo, hi : Ascends(<<>>, lo, hi)
  /\ \A kind, h : Latest(<<>>, kind, h, h)
<1>1. Len(<<>>) = 0 /\ 1 .. 0 = {}
  OBVIOUS
<1> QED
  BY <1>1 DEF Members, Ascends, Latest

LEMMA Within ==
  ASSUME NEW S, NEW q \in Seq(S)
  PROVE  /\ \A x : In(x, q) <=> x \in Members(q)
         /\ Members(q) \subseteq S
         /\ NewsOn(q) <=> \E x \in Members(q) : x.kind = "state"
<1>1. \A i \in 1 .. Len(q) : q[i] \in S
  BY ElementOfSeq
<1> QED
  BY <1>1 DEF In, Members, NewsOn

LEMMA PreviewSafe == PreviewInv => PreviewIsSound /\ InputReachesItsPage
<1> SUFFICES ASSUME PreviewInv PROVE PreviewIsSound /\ InputReachesItsPage
  OBVIOUS
<1> USE DEF PreviewInv
<1>1. InputReachesItsPage
  BY DEF Pictured, Of, InputReachesItsPage, Astray
<1>2. PreviewTypeOK
  <2>1. \A i \in 1 .. Len(show) : show[i].kind \in {"frame", "state"}
    <3>1. \A i \in 1 .. Len(show) : show[i] \in OnShow
      BY ElementOfSeq DEF Typed
    <3> QED
      BY <3>1 DEF OnShow, Frame
  <2>2. w.page \in Pages /\ w.cast.page \in Pages \cup {Absent}
    BY DEF Typed, Workers, Page0
  <2>3. d.id \in Ids \cup {Absent} /\ d.next.page \in Pages \cup {Absent}
    BY PreviewConstants DEF Typed, Daemons, Page0, Frame
  <2> QED
    BY <2>1, <2>2, <2>3 DEF Typed, Panels, PreviewTypeOK
<1>3. InFlightIsAlive
  <2>1. (\E f \in Members(show) : f.kind = "frame" /\ f.id = d.id) =>
          \E i \in 1 .. Len(show) : show[i].kind = "frame" /\ show[i].id = d.id
    BY DEF Members
  <2>2. \A x : x \in Members(told) => In(x, told)
    BY Within DEF Typed
  <2> QED
    BY <1>2, <2>1, <2>2 DEF Alive, Carrying, InFlightIsAlive
<1>4. PictureIsActive
  <2> SUFFICES ASSUME PreviewReady, ~w.dirty, ~w.fronting, ~w.stray, ~NewsOn(wire), ~NewsOn(show)
               PROVE  u.pic = w.page
    BY DEF PictureIsActive, Astray
  <2>1. d.gen = w.gen
    <3>1. State(d.gen) = State(w.gen)
      <4>1. \A x \in Members(wire) : x.kind # "state"
        BY Within DEF Typed
      <4>2. \A i \in 1 .. Len(wire) : wire[i] \in Members(wire)
        BY DEF Members
      <4>3. State(w.gen).kind = "state"
        BY DEF State
      <4> QED
        BY <4>1, <4>2, <4>3 DEF Announced, Latest
    <3>2. State(d.gen).gen = d.gen /\ State(w.gen).gen = w.gen
      BY DEF State
    <3> QED
      BY <3>1, <3>2
  <2>2. u.gen = m.gen
    <3>1. State(u.gen) = State(m.gen)
      <4>1. \A x \in Members(show) : x.kind # "state"
        BY Within DEF Typed
      <4>2. \A i \in 1 .. Len(show) : show[i] \in Members(show)
        BY DEF Members
      <4>3. State(m.gen).kind = "state"
        BY DEF State
      <4> QED
        BY <4>1, <4>2, <4>3 DEF Announced, Latest
    <3>2. State(u.gen).gen = u.gen /\ State(m.gen).gen = m.gen
      BY DEF State
    <3> QED
      BY <3>1, <3>2
  <2> QED
    BY <2>1, <2>2 DEF PreviewReady, Announced, Pictured, Of
<1> QED
  BY <1>1, <1>3, <1>4 DEF PreviewIsSound

LEMMA PreviewStarts == PreviewInit => PreviewInv
<1> SUFFICES ASSUME PreviewInit PROVE PreviewInv
  OBVIOUS
<1> USE PreviewConstants DEF PreviewInit
<1>1. w \in Workers /\ w.gen = 1 /\ w.dirty /\ w.queue = <<>>
  BY DEF Fresh, Workers, Page0
<1>2. d \in Daemons /\ d.id = Absent /\ d.gen = 0 /\ d.next = NoFrame /\ d.want = FALSE
  BY DEF Daemons
<1>3. m \in Mains /\ m.gen = 0 /\ ~m.wanted
  BY DEF Mains
<1>4. u \in Panels /\ u.gen = 0 /\ u.shown = 0 /\ u.dec = NoFrame
  <2>1. NoFrame \in Frame(Page0, Ids \cup {Absent})
    BY DEF Frame
  <2> QED
    BY <2>1 DEF Panel, Panels, Page0
<1>5. Typed
  <2>1. <<>> \in Seq(OnWire) /\ <<>> \in Seq(OnShow) /\ <<>> \in Seq(OnTold) /\ <<FALSE>> \in Seq(BOOLEAN)
    OBVIOUS
  <2> QED
    BY <1>1, <1>2, <1>3, <1>4, <2>1 DEF Typed
<1>6. Pictured
  BY <1>1, <1>2, <1>4, EmptyQueue DEF Pictured, Of
<1>7. Announced
  BY <1>1, <1>2, <1>3, <1>4, EmptyQueue DEF Announced
<1>8. Switching
  BY <1>2, <1>3, EmptyQueue DEF Switching
<1> QED
  BY <1>2, <1>5, <1>6, <1>7, <1>8 DEF PreviewInv, Alive

-----------------------------------------------------------------------------
(* The worker.                                                             *)

(* What the worker's steps do to the page and its generation.              *)
Renews ==
  \/ w'.gen > w.gen /\ w'.dirty
  \/ /\ w'.gen = w.gen /\ (w.dirty => w'.dirty)
     /\ \/ w'.fronting \/ w'.stray
        \/ w'.page = w.page /\ w'.fronting = w.fronting /\ w'.stray = w.stray

LEMMA OfKept ==
  ASSUME w \in Workers, w' \in Workers, Renews \/ w'.gen > w.gen, NEW g \in Nat, NEW p, Of(w, g, p)
  PROVE  Of(w', g, p)
<1>1. w.gen \in Nat /\ w'.gen \in Nat
  BY DEF Workers
<1> QED
  BY <1>1 DEF Of, Renews

LEMMA Generations ==
  ASSUME Typed
  PROVE  /\ \A f \in Members(wire) \cup Members(show) : f.gen \in Nat
         /\ d.next.gen \in Nat /\ d.next.page \in Page0 /\ u.shown \in Nat /\ u.dec.gen \in Nat
         /\ \A i \in 1 .. Len(w.queue) : w.queue[i].gen \in Nat
         /\ w.gen \in Nat /\ d.gen \in Nat /\ m.gen \in Nat /\ u.gen \in Nat
<1>1. Members(wire) \subseteq OnWire /\ Members(show) \subseteq OnShow
  BY Within DEF Typed
<1>2. \A f \in OnWire \cup OnShow : f.gen \in Nat
  BY DEF OnWire, OnShow, Frame
<1>3. d.next.gen \in Nat /\ d.next.page \in Page0 /\ d.gen \in Nat
  BY PreviewConstants DEF Typed, Daemons, Frame, Page0
<1>4. u.shown \in Nat /\ u.dec.gen \in Nat /\ u.gen \in Nat
  BY DEF Typed, Panels, Frame
<1>5. w.queue \in Seq(Inputs) /\ w.gen \in Nat
  BY DEF Typed, Workers
<1>6. \A i \in 1 .. Len(w.queue) : w.queue[i] \in Inputs
  BY <1>5, ElementOfSeq
<1>7. m.gen \in Nat
  BY DEF Typed, Mains
<1> QED
  BY <1>1, <1>2, <1>3, <1>4, <1>5, <1>6, <1>7 DEF Inputs

LEMMA AscendsMore ==
  ASSUME NEW q \in Seq(OnWire), NEW lo \in Nat, NEW hi \in Nat, NEW top \in Nat, hi <= top,
         Ascends(q, lo, hi)
  PROVE  Ascends(q, lo, top)
<1>1. \A i \in 1 .. Len(q) : q[i].gen \in Nat
  <2>1. \A i \in 1 .. Len(q) : q[i] \in OnWire
    BY ElementOfSeq
  <2> QED
    BY <2>1 DEF OnWire
<1> QED
  BY <1>1 DEF Ascends

LEMMA WorkerKeeps ==
  ASSUME PreviewInv, w' \in Workers, Renews, UNCHANGED <<wire, d, m, u, show, told>>,
         down' \in Seq(BOOLEAN),
         \/ w'.queue = w.queue
         \/ \A i \in 1 .. Len(w'.queue) : Of(w', w'.queue[i].gen, w'.queue[i].page)
  PROVE  PreviewInv'
<1> USE DEF PreviewInv
<1>1. w \in Workers /\ w.gen \in Nat /\ w'.gen \in Nat /\ wire \in Seq(OnWire) /\ d.gen \in Nat
  BY DEF Typed, Workers, Daemons
<1>2. Typed'
  BY DEF Typed
<1>3. Pictured'
  <2>1. \A f \in Members(wire) \cup Members(show) : f.kind = "frame" => Of(w', f.gen, f.page)
    BY <1>1, Generations, OfKept DEF Pictured
  <2>2. Of(w', d.next.gen, d.next.page) /\ Of(w', u.shown, u.pic)
    <3>1. \A g \in Nat : \A p \in Page0 : Of(w, g, p) => Of(w', g, p)
      BY <1>1, OfKept
    <3>2. d.next.page \in Page0 /\ u.pic \in Page0
      BY Generations DEF Typed, Panels
    <3>3. Of(w, d.next.gen, d.next.page) /\ Of(w, u.shown, u.pic) /\ d'.next = d.next /\ u' = u
      BY DEF Pictured
    <3> QED
      BY <3>1, <3>2, <3>3, Generations DEF Of
  <2>3. u.dec.page # Absent => Of(w', u.dec.gen, u.dec.page)
    <3> SUFFICES ASSUME u.dec.page # Absent PROVE Of(w', u.dec.gen, u.dec.page)
      OBVIOUS
    <3>1. \A g \in Nat : \A p \in Page0 : Of(w, g, p) => Of(w', g, p)
      BY <1>1, OfKept
    <3>2. u.dec.page \in Page0
      BY DEF Typed, Panels, Frame
    <3>3. Of(w, u.dec.gen, u.dec.page) /\ u' = u
      BY DEF Pictured
    <3> QED
      BY <3>1, <3>2, <3>3, Generations DEF Of
  <2>4. \A i \in 1 .. Len(w'.queue) : Of(w', w'.queue[i].gen, w'.queue[i].page)
    <3> SUFFICES ASSUME w'.queue = w.queue, NEW i \in 1 .. Len(w.queue)
                 PROVE  Of(w', w'.queue[i].gen, w'.queue[i].page)
      OBVIOUS
    <3>1. \A g \in Nat : \A p \in Page0 : Of(w, g, p) => Of(w', g, p)
      BY <1>1, OfKept
    <3>2. w.queue[i].page \in Page0
      <4>1. w.queue[i] \in Inputs
        BY <1>1, ElementOfSeq DEF Workers
      <4> QED
        BY <4>1 DEF Inputs, Page0
    <3>3. Of(w, w.queue[i].gen, w.queue[i].page)
      BY DEF Pictured
    <3> QED
      BY <3>1, <3>2, <3>3, Generations DEF Of
  <2> QED
    BY <2>1, <2>2, <2>3, <2>4 DEF Pictured, Of
<1>4. Announced'
  <2>1. w.gen <= w'.gen /\ (~w'.dirty => ~w.dirty /\ w'.gen = w.gen)
    BY <1>1 DEF Renews
  <2>2. Ascends(wire, d.gen, w'.gen)
    BY <1>1, <2>1, AscendsMore DEF Announced
  <2>3. d.gen <= w'.gen
    BY <1>1, <2>1 DEF Announced
  <2> QED
    BY <2>1, <2>2, <2>3 DEF Announced
<1>5. Switching' /\ Alive'
  BY DEF Switching, Alive, Carrying
<1> QED
  BY <1>2, <1>3, <1>4, <1>5

LEMMA Changes ==
  ASSUME NEW x \in Workers
  PROVE  /\ Bumped(x) \in Workers /\ Bumped(x).gen = x.gen + 1 /\ Bumped(x).dirty /\ Bumped(x).queue = x.queue
         /\ ChangedPage(x) \in Workers /\ ChangedPage(x).gen = x.gen + 1 /\ ChangedPage(x).dirty
         /\ ChangedPage(x).queue = x.queue
<1>0. x.gen + 1 \in Nat \ {0}
  BY DEF Workers
<1>1. /\ Bumped(x) \in Workers /\ Bumped(x).gen = x.gen + 1 /\ Bumped(x).dirty /\ Bumped(x).queue = x.queue
  BY <1>0 DEF Bumped, Workers
<1>2. ChangedPage(x) = [[Bumped(x) EXCEPT !.error = FALSE] EXCEPT !.more = TRUE]
  BY DEF ChangedPage, attachScreencast
<1> QED
  BY <1>1, <1>2 DEF Workers

LEMMA WorkerMoves ==
  ASSUME PreviewInv,
         \/ \E p \in Pages : TurnTo(p) \/ SwitchPage(p)
         \/ Fronted \/ Hangs \/ Refresh \/ CastStop \/ CastStart \/ Input \/ DrainInput
         \/ FrontFails \/ SetFramesEnabled
  PROVE  PreviewInv'
<1>0. w \in Workers /\ w.gen \in Nat /\ w.page \in Pages /\ down \in Seq(BOOLEAN)
  BY DEF PreviewInv, Typed, Workers
<1>1. ASSUME NEW p \in Pages, TurnTo(p) PROVE PreviewInv'
  <2> DEFINE x == [w EXCEPT !.page = p]
  <2>1. x \in Workers /\ x.gen = w.gen /\ x.queue = w.queue
    BY <1>0 DEF Workers
  <2>2. w' = ChangedPage(x)
    BY <1>1 DEF TurnTo
  <2>3. UNCHANGED <<wire, d, m, u, show, told>> /\ down' = down
    BY <1>1 DEF TurnTo, Alone, daemon, window
  <2> HIDE DEF x
  <2>4. w' \in Workers /\ w'.gen > w.gen /\ w'.dirty /\ w'.queue = w.queue
    BY <1>0, <2>1, <2>2, Changes
  <2> QED
    BY <1>0, <2>3, <2>4, WorkerKeeps DEF Renews
<1>2. ASSUME NEW p \in Pages, SwitchPage(p) PROVE PreviewInv'
  <2>1. w' = [w EXCEPT !.page = p, !.fronting = TRUE]
    BY <1>2 DEF SwitchPage
  <2>2. UNCHANGED <<wire, d, m, u, show, told>> /\ down' = down
    BY <1>2 DEF SwitchPage, Alone, daemon, window
  <2>3. w' \in Workers /\ w'.gen = w.gen /\ w'.dirty = w.dirty /\ w'.fronting /\ w'.queue = w.queue
    BY <1>0, <2>1 DEF Workers
  <2> QED
    BY <1>0, <2>2, <2>3, WorkerKeeps DEF Renews
<1>3. CASE Fronted
  <2> DEFINE x == [w EXCEPT !.fronting = FALSE]
  <2>1. x \in Workers /\ x.gen = w.gen /\ x.queue = w.queue
    BY <1>0 DEF Workers
  <2>2. w' = ChangedPage(x)
    BY <1>3 DEF Fronted
  <2>3. UNCHANGED <<wire, d, m, u, show, told>> /\ down' = down
    BY <1>3 DEF Fronted, Inner, Alone, daemon, window
  <2> HIDE DEF x
  <2>4. w' \in Workers /\ w'.gen > w.gen /\ w'.dirty /\ w'.queue = w.queue
    BY <1>0, <2>1, <2>2, Changes
  <2> QED
    BY <1>0, <2>3, <2>4, WorkerKeeps DEF Renews
<1>13. CASE FrontFails
  <2>1. w' = [w EXCEPT !.fronting = FALSE, !.stray = TRUE]
    BY <1>13 DEF FrontFails
  <2>2. UNCHANGED <<wire, d, m, u, show, told>> /\ down' = down
    BY <1>13 DEF FrontFails, Inner, Alone, daemon, window
  <2>3. w' \in Workers /\ w'.gen = w.gen /\ w'.dirty = w.dirty /\ w'.stray /\ w'.queue = w.queue
    BY <1>0, <2>1 DEF Workers
  <2> QED
    BY <1>0, <2>2, <2>3, WorkerKeeps DEF Renews
<1>4. CASE Hangs
  <2> DEFINE x == Bumped(w)
  <2>1. x \in Workers /\ x.gen = w.gen + 1 /\ x.queue = w.queue /\ x.dirty
    BY <1>0, Changes
  <2>2. w' = [x EXCEPT !.hung = TRUE, !.error = TRUE]
    BY <1>4 DEF Hangs
  <2>3. UNCHANGED <<wire, d, m, u, show, told>> /\ down' = down
    BY <1>4 DEF Hangs, Alone, daemon, window
  <2> HIDE DEF x
  <2>4. w' \in Workers /\ w'.gen = x.gen /\ w'.dirty = x.dirty /\ w'.queue = x.queue
    BY <2>1, <2>2 DEF Workers
  <2> QED
    BY <1>0, <2>1, <2>3, <2>4, WorkerKeeps DEF Renews
<1>5. CASE Refresh
  <2> DEFINE x == [w EXCEPT !.hung = FALSE]
  <2>1. x \in Workers /\ x.gen = w.gen /\ x.queue = w.queue
    BY <1>0 DEF Workers
  <2>2. w' = ChangedPage(x)
    BY <1>5 DEF Refresh
  <2>3. UNCHANGED <<wire, d, m, u, show, told>> /\ down' = down
    BY <1>5 DEF Refresh, Alone, daemon, window
  <2> HIDE DEF x
  <2>4. w' \in Workers /\ w'.gen > w.gen /\ w'.dirty /\ w'.queue = w.queue
    BY <1>0, <2>1, <2>2, Changes
  <2> QED
    BY <1>0, <2>3, <2>4, WorkerKeeps DEF Renews
<1>6. CASE CastStop
  <2>1. w' = [w EXCEPT !.more = FALSE, !.run = "stop", !.target = IF w.frames THEN w.page ELSE Absent]
    BY <1>6 DEF CastStop
  <2>2. UNCHANGED <<wire, d, m, u, show, told>> /\ down' = down
    BY <1>6 DEF CastStop, Inner, Alone, daemon, window
  <2>3. /\ w' \in Workers /\ w'.gen = w.gen /\ w'.dirty = w.dirty /\ w'.fronting = w.fronting /\ w'.stray = w.stray
        /\ w'.page = w.page /\ w'.queue = w.queue
    BY <1>0, <2>1 DEF Workers, Page0
  <2> QED
    BY <1>0, <2>2, <2>3, WorkerKeeps DEF Renews
<1>7. CASE CastStart
  <2>1. \/ w' = [w EXCEPT !.target = Absent, !.run = "idle",
                          !.cast = [page |-> w.target, gen |-> IF w.target = Absent THEN Absent ELSE w.gen]]
        \/ w' = [w EXCEPT !.target = Absent, !.run = "idle", !.cast = [page |-> Absent, gen |-> Absent],
                          !.error = TRUE, !.dirty = TRUE]
    BY <1>7 DEF CastStart
  <2>2. UNCHANGED <<wire, d, m, u, show, told>> /\ down' = down
    BY <1>7 DEF CastStart, Alone, daemon, window
  <2>3. w.target \in Page0 /\ Absent \in Page0 /\ Absent \in Nat
    BY <1>0, PreviewConstants DEF Workers, Page0
  <2>4. /\ w' \in Workers /\ w'.gen = w.gen /\ (w.dirty => w'.dirty) /\ w'.fronting = w.fronting /\ w'.stray = w.stray
        /\ w'.page = w.page /\ w'.queue = w.queue
    <3>1. CASE w' = [w EXCEPT !.target = Absent, !.run = "idle", !.cast = [page |-> Absent, gen |-> Absent],
                              !.error = TRUE, !.dirty = TRUE]
      BY <1>0, <2>3, <3>1 DEF Workers
    <3>2. CASE w' = [w EXCEPT !.target = Absent, !.run = "idle",
                              !.cast = [page |-> w.target, gen |-> IF w.target = Absent THEN Absent ELSE w.gen]]
      <4> DEFINE g == IF w.target = Absent THEN Absent ELSE w.gen
                 c == [page |-> w.target, gen |-> g]
      <4>1. c \in [page : Page0, gen : Nat]
        BY <1>0, <2>3
      <4>2. w' = [w EXCEPT !.target = Absent, !.run = "idle", !.cast = c]
        BY <3>2
      <4> HIDE DEF c
      <4> QED
        BY <1>0, <2>3, <4>1, <4>2 DEF Workers
    <3> QED
      BY <2>1, <3>1, <3>2
  <2> QED
    BY <1>0, <2>2, <2>4, WorkerKeeps DEF Renews
<1>8. CASE Input
  <2> DEFINE e == [gen |-> w.gen, page |-> w.page]
  <2>1. w' = [w EXCEPT !.queue = <<e>>]
    BY <1>8 DEF Input
  <2>2. UNCHANGED <<wire, d, m, u, show, told>> /\ down' = down
    BY <1>8 DEF Input, daemon
  <2>3. e \in Inputs /\ <<e>> \in Seq(Inputs)
    BY <1>0 DEF Inputs
  <2>4. /\ w' \in Workers /\ w'.gen = w.gen /\ w'.dirty = w.dirty /\ w'.fronting = w.fronting /\ w'.stray = w.stray
        /\ w'.page = w.page /\ w'.queue = <<e>>
    BY <1>0, <2>1, <2>3 DEF Workers
  <2>5. \A i \in 1 .. Len(w'.queue) : w'.queue[i].gen = w'.gen /\ w'.queue[i].page = w'.page
    BY <2>4
  <2>6. \A i \in 1 .. Len(w'.queue) : Of(w', w'.queue[i].gen, w'.queue[i].page)
    BY <1>0, <2>4, <2>5 DEF Of
  <2> QED
    BY <1>0, <2>2, <2>4, <2>6, WorkerKeeps DEF Renews
<1>9. CASE DrainInput
  <2>1. w' = [w EXCEPT !.queue = <<>>]
    BY <1>9 DEF DrainInput
  <2>2. UNCHANGED <<wire, d, m, u, show, told>> /\ down' = down
    BY <1>9 DEF DrainInput, Inner, Alone, daemon, window
  <2>3. /\ w' \in Workers /\ w'.gen = w.gen /\ w'.dirty = w.dirty /\ w'.fronting = w.fronting /\ w'.stray = w.stray
        /\ w'.page = w.page /\ w'.queue = <<>>
    <3>1. <<>> \in Seq(Inputs)
      OBVIOUS
    <3> QED
      BY <1>0, <2>1, <3>1 DEF Workers
  <2>4. \A i \in 1 .. Len(w'.queue) : Of(w', w'.queue[i].gen, w'.queue[i].page)
    BY <2>3
  <2> QED
    BY <1>0, <2>2, <2>3, <2>4, WorkerKeeps DEF Renews
<1>10. CASE SetFramesEnabled
  <2> DEFINE x == IF w.frames # Head(down) THEN Bumped(w) ELSE w
  <2>1. Head(down) \in BOOLEAN /\ Tail(down) \in Seq(BOOLEAN) /\ down' = Tail(down)
    BY <1>0, <1>10, Shortened DEF SetFramesEnabled
  <2>2. w' = [[x EXCEPT !.frames = Head(down)] EXCEPT !.more = TRUE]
    BY <1>10 DEF SetFramesEnabled, attachScreencast
  <2>3. UNCHANGED <<wire, d, m, u, show, told>>
    BY <1>10 DEF SetFramesEnabled, window
  <2>4. x \in Workers /\ x.queue = w.queue /\ ((x.gen = w.gen + 1 /\ x.dirty) \/ x = w)
    BY <1>0, Changes
  <2> HIDE DEF x
  <2>5. /\ w' \in Workers /\ w'.gen = x.gen /\ w'.dirty = x.dirty /\ w'.fronting = x.fronting /\ w'.stray = x.stray
        /\ w'.page = x.page /\ w'.queue = x.queue
    BY <2>1, <2>2, <2>4 DEF Workers
  <2>6. Renews
    BY <1>0, <2>4, <2>5 DEF Renews
  <2> QED
    BY <2>1, <2>3, <2>4, <2>5, <2>6, WorkerKeeps
<1> QED
  BY <1>1, <1>2, <1>3, <1>4, <1>5, <1>6, <1>7, <1>8, <1>9, <1>10, <1>13

LEMMA WorkerSends == PreviewInv /\ (Publish \/ OnFrame) => PreviewInv'
<1> SUFFICES ASSUME PreviewInv, Publish \/ OnFrame PROVE PreviewInv'
  OBVIOUS
<1> USE DEF PreviewInv
<1>1. PICK x \in OnWire :
        /\ wire' = Append(wire, x) /\ x.gen = w.gen
        /\ x.kind = "frame" => x.page = w.page
        /\ \/ w' = [w EXCEPT !.dirty = FALSE] /\ x = State(w.gen)
           \/ w' = w /\ x.kind = "frame"
  <2>1. CASE Publish
    BY <2>1, PreviewConstants, Generations DEF Publish
  <2>2. CASE OnFrame
    <3> DEFINE x == [kind |-> "frame", gen |-> w.cast.gen, page |-> w.cast.page]
    <3>1. w.cast.page = w.page /\ w.cast.gen = w.gen /\ w.page \in Pages /\ w.gen \in Nat
      BY <2>2 DEF OnFrame, Emits, Typed, Workers
    <3>2. x \in OnWire
      BY <3>1 DEF OnWire
    <3> QED
      BY <2>2, <3>1, <3>2 DEF OnFrame
  <2> QED
    BY <2>1, <2>2
<1>2. UNCHANGED <<d, m, u, show, told, down>>
  BY DEF Publish, OnFrame, daemon, window
<1>3. w \in Workers /\ wire \in Seq(OnWire) /\ w.gen \in Nat /\ d.gen \in Nat /\ d.gen <= w.gen
  BY Generations DEF Typed, Announced
<1>4. /\ w' \in Workers /\ w'.gen = w.gen /\ w'.page = w.page /\ w'.fronting = w.fronting /\ w'.stray = w.stray
      /\ w'.queue = w.queue /\ (w'.dirty => w.dirty)
  BY <1>1, <1>3 DEF Workers
<1>5. wire' \in Seq(OnWire) /\ Members(wire') = Members(wire) \cup {x}
  BY <1>1, <1>3, Appended
<1>6. Typed'
  BY <1>2, <1>4, <1>5 DEF Typed
<1>7. Pictured'
  <2>1. \A g, p : Of(w', g, p) <=> Of(w, g, p)
    BY <1>4 DEF Of
  <2>2. x.kind = "frame" => Of(w, x.gen, x.page)
    BY <1>1, <1>3 DEF Of
  <2>3. \A f \in Members(wire') \cup Members(show') : f.kind = "frame" => Of(w, f.gen, f.page)
    BY <1>2, <1>5, <2>2 DEF Pictured
  <2> QED
    BY <1>2, <1>4, <2>1, <2>3 DEF Pictured, Of
<1>8. Announced'
  <2>1. Ascends(wire', d.gen, w.gen)
    BY <1>1, <1>3, AscendsAppend DEF Announced
  <2>2. ~w'.dirty => Latest(wire', "state", State(d.gen), State(w.gen))
    <3>1. CASE x = State(w.gen)
      <4>1. x.kind = "state"
        BY <3>1 DEF State
      <4> QED
        BY <1>1, <1>3, <3>1, <4>1, LatestAppend
    <3>2. CASE w' = w /\ x.kind = "frame"
      BY <1>1, <1>3, <3>2, LatestAppend DEF Announced
    <3> QED
      BY <1>1, <3>1, <3>2
  <2> QED
    BY <1>2, <1>4, <2>1, <2>2 DEF Announced
<1>9. Switching' /\ Alive'
  BY <1>2 DEF Switching, Alive, Carrying
<1> QED
  BY <1>6, <1>7, <1>8, <1>9

-----------------------------------------------------------------------------
(* The daemon, and main between it and the window.                         *)

Statuses == {<<>>} \cup {<<State(g)>> : g \in Nat}
Sendings == {<<>>} \cup {<<f>> : f \in Frame(Pages, Ids)}

LEMMA Passed ==
  ASSUME m \in Mains, show \in Seq(OnShow), NEW q \in Seq(OnTold),
         NEW status \in Statuses, NEW frames \in Sendings,
         OnAgentd(status, frames, q), Latest(show, "state", State(u.gen), State(m.gen))
  PROVE  /\ m' \in Mains /\ m'.wanted = m.wanted /\ m'.focus = m.focus
         /\ m'.gen = IF status = <<>> THEN m.gen ELSE Head(status).gen
         /\ show' \in Seq(OnShow) /\ told' \in Seq(OnTold)
         /\ Latest(show', "state", State(u.gen), State(m'.gen))
         /\ \A h, e : Latest(q, "frames", h, e) => Latest(told', "frames", h, e)
         /\ Members(show) \subseteq Members(show') /\ Members(q) \subseteq Members(told')
         /\ \A x \in Members(show') :
              x \in Members(show) \/ x.kind = "state" \/ (frames # <<>> /\ x = Head(frames))
         /\ frames # <<>> => Head(frames) \in Members(show') \/ Ack(Head(frames).id) \in Members(told')
<1> DEFINE s == IF status = <<>> THEN show ELSE Append(show, Head(status))
<1>1. status # <<>> => \E g \in Nat : status = <<State(g)>> /\ Head(status) = State(g)
  BY DEF Statuses
<1>2. frames # <<>> => \E f \in Frame(Pages, Ids) : frames = <<f>> /\ Head(frames) = f
  BY DEF Sendings
<1>3. frames # <<>> => Head(frames) \in Frame(Pages, Ids)
  BY <1>2
<1>4. status # <<>> => Head(status) \in OnShow /\ Head(status).kind = "state" /\ Head(status).gen \in Nat
  BY <1>1, PreviewConstants
<1>5. status # <<>> => Head(status) = State(Head(status).gen)
  BY <1>1, PreviewConstants
<1>6. m' = IF status = <<>> THEN m ELSE [m EXCEPT !.gen = Head(status).gen]
  BY DEF OnAgentd
<1>7. /\ m' \in Mains /\ m'.wanted = m.wanted /\ m'.focus = m.focus
      /\ m'.gen = IF status = <<>> THEN m.gen ELSE Head(status).gen
  BY <1>4, <1>6 DEF Mains
<1>8. show' = IF m.wanted /\ frames # <<>> THEN Append(s, Head(frames)) ELSE s
  <2>1. show \o status = s /\ s \in Seq(OnShow)
    <3>1. CASE status = <<>>
      BY <3>1, ConcatEmptySeq
    <3>2. CASE status # <<>>
      <4>1. PICK g \in Nat : status = <<State(g)>> /\ Head(status) = State(g)
        BY <1>1, <3>2
      <4>2. State(g) \in OnShow
        BY PreviewConstants
      <4>3. Append(show, State(g)) = show \o <<State(g)>> /\ Append(show, State(g)) \in Seq(OnShow)
        BY <4>2, AppendIsConcat, AppendProperties
      <4> QED
        BY <3>2, <4>1, <4>3
    <3> QED
      BY <3>1, <3>2
  <2>2. show' = (show \o status) \o (IF m.wanted THEN frames ELSE <<>>)
    BY DEF OnAgentd
  <2> HIDE DEF s
  <2>3. CASE m.wanted /\ frames # <<>>
    <3>1. PICK f \in Frame(Pages, Ids) : frames = <<f>> /\ Head(frames) = f
      BY <1>2, <2>3
    <3>2. f \in OnShow
      BY DEF OnShow
    <3>3. Append(s, f) = s \o <<f>>
      BY <2>1, <3>2, AppendIsConcat
    <3> QED
      BY <2>1, <2>2, <2>3, <3>1, <3>3
  <2>4. CASE ~(m.wanted /\ frames # <<>>)
    BY <2>1, <2>2, <2>4, ConcatEmptySeq
  <2> QED
    BY <2>3, <2>4
<1>9. told' = IF ~m.wanted /\ frames # <<>> THEN Append(q, Ack(Head(frames).id)) ELSE q
  <2>1. told' = q \o (IF m.wanted \/ frames = <<>> THEN <<>> ELSE <<Ack(Head(frames).id)>>)
    BY DEF OnAgentd
  <2>2. CASE ~m.wanted /\ frames # <<>>
    <3>1. Head(frames).id \in Nat
      BY <1>3, <2>2, PreviewConstants DEF Frame
    <3>2. Ack(Head(frames).id) \in OnTold
      BY <3>1, PreviewConstants
    <3> QED
      BY <2>1, <2>2, <3>2, AppendIsConcat
  <2>3. CASE ~(~m.wanted /\ frames # <<>>)
    BY <2>1, <2>3, ConcatEmptySeq
  <2> QED
    BY <2>2, <2>3
<1>10. /\ s \in Seq(OnShow) /\ Members(show) \subseteq Members(s)
       /\ \A x \in Members(s) : x \in Members(show) \/ x.kind = "state"
       /\ Latest(s, "state", State(u.gen), State(m'.gen))
  <2>1. CASE status = <<>>
    BY <1>7, <2>1
  <2>2. CASE status # <<>>
    <3> DEFINE y == Head(status)
    <3>1. y \in OnShow /\ y.kind = "state" /\ y = State(m'.gen)
      BY <1>4, <1>5, <1>7, <2>2
    <3> HIDE DEF y
    <3>2. Append(show, y) \in Seq(OnShow) /\ Members(Append(show, y)) = Members(show) \cup {y}
      BY <3>1, Appended
    <3>3. Latest(Append(show, y), "state", State(u.gen), y)
      BY <3>1, LatestAppend
    <3>4. s = Append(show, y)
      BY <2>2 DEF y
    <3> QED
      BY <3>1, <3>2, <3>3, <3>4
  <2> QED
    BY <2>1, <2>2
<1> HIDE DEF s
<1>11. /\ show' \in Seq(OnShow) /\ Members(show) \subseteq Members(show')
       /\ Latest(show', "state", State(u.gen), State(m'.gen))
       /\ \A x \in Members(show') :
            x \in Members(show) \/ x.kind = "state" \/ (frames # <<>> /\ x = Head(frames))
       /\ frames # <<>> /\ m.wanted => Head(frames) \in Members(show')
  <2>1. CASE ~(m.wanted /\ frames # <<>>)
    BY <1>8, <1>10, <2>1
  <2>2. CASE m.wanted /\ frames # <<>>
    <3> DEFINE y == Head(frames)
    <3>1. y \in OnShow /\ y.kind = "frame"
      BY <1>3, <2>2 DEF OnShow, Frame
    <3>2. show' = Append(s, y)
      BY <1>8, <2>2
    <3>3. frames # <<>> /\ y = Head(frames)
      BY <2>2
    <3> HIDE DEF y
    <3>4. show' \in Seq(OnShow) /\ Members(show') = Members(s) \cup {y}
      BY <1>10, <3>1, <3>2, Appended
    <3>5. Latest(show', "state", State(u.gen), State(m'.gen))
      BY <1>10, <3>1, <3>2, LatestAppend
    <3> QED
      BY <1>10, <3>3, <3>4, <3>5
  <2> QED
    BY <2>1, <2>2
<1>12. /\ told' \in Seq(OnTold) /\ Members(q) \subseteq Members(told')
       /\ \A h, e : Latest(q, "frames", h, e) => Latest(told', "frames", h, e)
       /\ frames # <<>> /\ ~m.wanted => Ack(Head(frames).id) \in Members(told')
  <2>1. CASE ~(~m.wanted /\ frames # <<>>)
    BY <1>9, <2>1
  <2>2. CASE ~m.wanted /\ frames # <<>>
    <3> DEFINE y == Ack(Head(frames).id)
    <3>1. Head(frames).id \in Nat
      BY <1>3, <2>2, PreviewConstants DEF Frame
    <3>2. y \in OnTold /\ y.kind = "ack"
      BY <3>1, PreviewConstants
    <3>3. told' = Append(q, y)
      BY <1>9, <2>2
    <3>4. y = Ack(Head(frames).id)
      OBVIOUS
    <3> HIDE DEF y
    <3>5. told' \in Seq(OnTold) /\ Members(told') = Members(q) \cup {y}
      BY <3>2, <3>3, Appended
    <3>6. \A h, e : Latest(q, "frames", h, e) => Latest(told', "frames", h, e)
      BY <3>2, <3>3, LatestAppend
    <3> QED
      BY <3>4, <3>5, <3>6
  <2> QED
    BY <2>1, <2>2
<1> QED
  BY <1>7, <1>11, <1>12

(* A step of the daemon: q is what it leaves of its queue.                 *)
LEMMA DaemonKeeps ==
  ASSUME PreviewInv, UNCHANGED <<w, u>>, down' \in Seq(BOOLEAN),
         NEW q \in Seq(OnTold), NEW status \in Statuses, NEW frames \in Sendings,
         OnAgentd(status, frames, q), Latest(q, "frames", Frames(d.want), Frames(m.wanted /\ m.focus)),
         d' \in Daemons, d'.want = d.want, d'.id # Absent => d.want,
         Of(w, d'.next.gen, d'.next.page),
         frames # <<>> => Of(w, Head(frames).gen, Head(frames).page),
         wire' \in Seq(OnWire), Members(wire') \subseteq Members(wire),
         d'.gen = IF status = <<>> THEN d.gen ELSE Head(status).gen,
         d'.gen <= w.gen, Ascends(wire', d'.gen, w.gen),
         ~w.dirty => Latest(wire', "state", State(d'.gen), State(w.gen)),
         \/ d'.id = Absent
         \/ frames # <<>> /\ Head(frames).id = d'.id
         \/ /\ d'.id = d.id
            /\ \A x \in Members(told) : x \in {Ack(d.id), Frames(FALSE)} => x \in Members(q)
  PROVE  PreviewInv'
<1> USE DEF PreviewInv
<1>1. /\ m' \in Mains /\ m'.wanted = m.wanted /\ m'.focus = m.focus
      /\ m'.gen = IF status = <<>> THEN m.gen ELSE Head(status).gen
      /\ show' \in Seq(OnShow) /\ told' \in Seq(OnTold)
      /\ Latest(show', "state", State(u.gen), State(m'.gen))
      /\ \A h, e : Latest(q, "frames", h, e) => Latest(told', "frames", h, e)
      /\ Members(show) \subseteq Members(show') /\ Members(q) \subseteq Members(told')
      /\ \A x \in Members(show') :
           x \in Members(show) \/ x.kind = "state" \/ (frames # <<>> /\ x = Head(frames))
      /\ frames # <<>> => Head(frames) \in Members(show') \/ Ack(Head(frames).id) \in Members(told')
  <2>1. m \in Mains /\ show \in Seq(OnShow) /\ Latest(show, "state", State(u.gen), State(m.gen))
    BY DEF Typed, Announced
  <2> QED
    BY <2>1, Passed
<1>2. Typed'
  BY <1>1 DEF Typed
<1>3. Pictured'
  <2>1. \A f \in Members(wire') \cup Members(show') : f.kind = "frame" => Of(w, f.gen, f.page)
    <3> SUFFICES ASSUME NEW f \in Members(wire') \cup Members(show'), f.kind = "frame"
                 PROVE  Of(w, f.gen, f.page)
      OBVIOUS
    <3>1. f \in Members(wire) \/ f \in Members(show) \/ (frames # <<>> /\ f = Head(frames))
      BY <1>1
    <3> QED
      BY <3>1 DEF Pictured
  <2> QED
    BY <2>1 DEF Pictured
<1>4. Announced'
  BY <1>1 DEF Announced
<1>5. Switching'
  BY <1>1 DEF Switching
<1>6. Alive'
  <2> SUFFICES ASSUME d'.id # Absent, u.at # "loading"
               PROVE  Carrying(d.id)' \/ Frames(FALSE) \in Members(told')
    BY DEF Alive
  <2>1. CASE frames # <<>> /\ Head(frames).id = d'.id
    <3>1. Head(frames).kind = "frame"
      BY <2>1 DEF Sendings, Frame
    <3> QED
      BY <1>1, <2>1, <3>1 DEF Carrying
  <2>2. CASE /\ d'.id = d.id
             /\ \A x \in Members(told) : x \in {Ack(d.id), Frames(FALSE)} => x \in Members(q)
    <3>1. Carrying(d.id) \/ Frames(FALSE) \in Members(told)
      BY <2>2 DEF Alive
    <3> QED
      BY <1>1, <2>2, <3>1 DEF Carrying
  <2> QED
    BY <2>1, <2>2
<1> QED
  BY <1>2, <1>3, <1>4, <1>5, <1>6

LEMMA StatusKept ==
  ASSUME NEW x \in Daemons, NEW g \in Nat
  PROVE  /\ Status(x, g) \in Daemons /\ Status(x, g).gen = g /\ Status(x, g).want = x.want
         /\ Status(x, g).id \in {x.id, Absent} /\ Status(x, g).next \in {x.next, NoFrame}
BY PreviewConstants DEF Status, Daemons

LEMMA NoFrameOf == w \in Workers => Of(w, NoFrame.gen, NoFrame.page)
BY PreviewConstants DEF Of, Workers

LEMMA TakeStateInv == PreviewInv /\ TakeState => PreviewInv'
<1> SUFFICES ASSUME PreviewInv, TakeState PROVE PreviewInv'
  OBVIOUS
<1> USE DEF PreviewInv
<1> DEFINE g == Head(wire).gen
           t == Tail(wire)
<1>1. /\ wire # <<>> /\ Head(wire).kind = "state" /\ wire' = t /\ d' = Status(d, g)
      /\ OnAgentd(<<State(g)>>, <<>>, told) /\ UNCHANGED <<w, u, down>>
  BY DEF TakeState
<1>2. /\ t \in Seq(OnWire) /\ Head(wire) \in OnWire /\ Members(t) \subseteq Members(wire)
      /\ wire \in Seq(OnWire)
  BY <1>1, Shortened DEF Typed
<1>3. g \in Nat /\ Head(wire) = State(g) /\ w.gen \in Nat /\ d.gen \in Nat
  BY <1>1, <1>2, Generations DEF OnWire, State, Frame
<1>4. g <= w.gen /\ Ascends(t, g, w.gen)
  BY <1>1, <1>2, AscendsTail DEF Announced
<1>5. ~w.dirty => Latest(t, "state", State(g), State(w.gen))
  <2>1. State(w.gen).kind = "state"
    BY DEF State
  <2> QED
    BY <1>1, <1>2, <1>3, <2>1, LatestTail DEF Announced
<1>6. /\ d' \in Daemons /\ d'.gen = g /\ d'.want = d.want /\ d'.id \in {d.id, Absent}
      /\ d'.next \in {d.next, NoFrame}
  BY <1>1, <1>3, StatusKept DEF Typed
<1>7. <<State(g)>> \in Statuses /\ <<>> \in Sendings /\ <<State(g)>> # <<>> /\ Head(<<State(g)>>).gen = g
  BY <1>3, PreviewConstants DEF Statuses, Sendings
<1>8. Of(w, d'.next.gen, d'.next.page)
  BY <1>6, NoFrameOf DEF Pictured, Typed
<1>9. d'.id # Absent => d.want
  BY <1>6 DEF Switching
<1>10. /\ told \in Seq(OnTold) /\ down' \in Seq(BOOLEAN)
       /\ Latest(told, "frames", Frames(d.want), Frames(m.wanted /\ m.focus))
  BY <1>1 DEF Typed, Switching
<1> HIDE DEF g, t, PreviewInv
<1> QED
  BY <1>1, <1>2, <1>4, <1>5, <1>6, <1>7, <1>8, <1>9, <1>10, DaemonKeeps

(* Whatever is flushed: the frame that waited, under the id it gets.       *)
LEMMA FlushKept ==
  ASSUME NEW x \in Daemons, NEW id \in Ids
  PROVE  /\ Flushed(x, id) \in Daemons /\ Flushed(x, id).gen = x.gen /\ Flushed(x, id).want = x.want
         /\ Flushed(x, id).next \in {x.next, NoFrame} /\ Posted(x, id) \in Sendings
         /\ \/ Posted(x, id) = <<>> /\ Flushed(x, id) = x
            \/ /\ Posted(x, id) # <<>> /\ Head(Posted(x, id)).id = Flushed(x, id).id /\ x.want
               /\ Head(Posted(x, id)).gen = x.next.gen /\ Head(Posted(x, id)).page = x.next.page
<1>1. CASE Flushes(x)
  <2> DEFINE f == [x.next EXCEPT !.id = id]
  <2>1. x.next \in Frame(Pages, {Absent}) /\ x.next.page \in Pages /\ x.want
    BY <1>1 DEF Flushes, Daemons, Frame
  <2>2. f \in Frame(Pages, Ids) /\ f.id = id /\ f.gen = x.next.gen /\ f.page = x.next.page
    BY <2>1 DEF Frame
  <2>3. Posted(x, id) = <<f>> /\ Flushed(x, id) = [x EXCEPT !.id = id, !.next = NoFrame]
    BY <1>1 DEF Posted, Flushed
  <2> HIDE DEF f
  <2>4. Posted(x, id) \in Sendings /\ Posted(x, id) # <<>> /\ Head(Posted(x, id)) = f
    BY <2>2, <2>3 DEF Sendings
  <2>5. id \in Ids \cup {Absent} /\ NoFrame \in Frame(Pages, {Absent}) \cup {NoFrame}
    OBVIOUS
  <2>6. /\ Flushed(x, id) \in Daemons /\ Flushed(x, id).gen = x.gen /\ Flushed(x, id).want = x.want
        /\ Flushed(x, id).next = NoFrame /\ Flushed(x, id).id = id
    BY <2>3, <2>5 DEF Daemons
  <2> QED
    BY <2>1, <2>2, <2>4, <2>6
<1>2. CASE ~Flushes(x)
  BY <1>2 DEF Posted, Flushed, Sendings
<1> QED
  BY <1>1, <1>2

(* A step of the daemon that ends in flushFrame().                         *)
LEMMA DaemonFlushes ==
  ASSUME PreviewInv, UNCHANGED <<w, u, down>>, NEW y \in Daemons, NEW id \in Ids,
         NEW q \in Seq(OnTold), NEW status \in Statuses,
         d' = Flushed(y, id), OnAgentd(status, Posted(y, id), q),
         Latest(q, "frames", Frames(d.want), Frames(m.wanted /\ m.focus)),
         y.want = d.want, Of(w, y.next.gen, y.next.page),
         wire' \in Seq(OnWire), Members(wire') \subseteq Members(wire),
         y.gen = IF status = <<>> THEN d.gen ELSE Head(status).gen,
         y.gen <= w.gen, Ascends(wire', y.gen, w.gen),
         ~w.dirty => Latest(wire', "state", State(y.gen), State(w.gen)),
         y.id = Absent \/ (y.id = d.id /\ q = told)
  PROVE  PreviewInv'
<1> DEFINE frames == Posted(y, id)
<1>1. /\ d' \in Daemons /\ d'.gen = y.gen /\ d'.want = d.want /\ d'.next \in {y.next, NoFrame}
      /\ frames \in Sendings
      /\ \/ frames = <<>> /\ d' = y
         \/ /\ frames # <<>> /\ Head(frames).id = d'.id /\ d.want
            /\ Head(frames).gen = y.next.gen /\ Head(frames).page = y.next.page
  BY FlushKept
<1>2. OnAgentd(status, frames, q)
  OBVIOUS
<1> HIDE DEF frames
<1>3. Of(w, d'.next.gen, d'.next.page) /\ down' \in Seq(BOOLEAN)
  BY <1>1, NoFrameOf DEF PreviewInv, Typed
<1>4. d'.id # Absent => d.want
  BY <1>1 DEF PreviewInv, Switching
<1>5. frames # <<>> => Of(w, Head(frames).gen, Head(frames).page)
  BY <1>1
<1>6. \/ d'.id = Absent
      \/ frames # <<>> /\ Head(frames).id = d'.id
      \/ /\ d'.id = d.id
         /\ \A x \in Members(told) : x \in {Ack(d.id), Frames(FALSE)} => x \in Members(q)
  BY <1>1
<1> HIDE DEF PreviewInv
<1> QED
  BY <1>1, <1>2, <1>3, <1>4, <1>5, <1>6, DaemonKeeps

LEMMA TakeFrameInv == PreviewInv /\ TakeFrame => PreviewInv'
<1> SUFFICES ASSUME PreviewInv, TakeFrame PROVE PreviewInv'
  OBVIOUS
<1> USE DEF PreviewInv
<1> DEFINE f == Head(wire)
           t == Tail(wire)
           x == Status(d, f.gen)
           y == Taken(x, f)
           status == IF x.gen # d.gen THEN <<State(f.gen)>> ELSE <<>>
<1>1. PICK id \in Ids : d' = Flushed(y, id) /\ OnAgentd(status, Posted(y, id), told)
  BY DEF TakeFrame
<1>2. wire # <<>> /\ f.kind = "frame" /\ wire' = t /\ UNCHANGED <<w, u, down>>
  BY DEF TakeFrame
<1>3. /\ t \in Seq(OnWire) /\ f \in OnWire /\ Members(t) \subseteq Members(wire) /\ f \in Members(wire)
      /\ wire \in Seq(OnWire)
  BY <1>2, Shortened DEF Typed
<1>4. f.gen \in Nat /\ f.page \in Pages /\ w.gen \in Nat /\ d.gen \in Nat /\ Of(w, f.gen, f.page)
  BY <1>2, <1>3, Generations DEF OnWire, Pictured
<1>5. d.gen <= f.gen /\ f.gen <= w.gen /\ Ascends(t, f.gen, w.gen)
  BY <1>2, <1>3, AscendsTail DEF Announced
<1>6. ~w.dirty => Latest(t, "state", State(f.gen), State(w.gen))
  <2> SUFFICES ASSUME ~w.dirty PROVE Latest(t, "state", State(f.gen), State(w.gen))
    OBVIOUS
  <2>1. State(w.gen).kind = "state" /\ State(w.gen).gen = w.gen /\ State(d.gen).gen = d.gen
    BY DEF State
  <2>2. Latest(t, "state", State(d.gen), State(w.gen))
    BY <1>2, <1>3, <2>1, LatestTail DEF Announced
  <2>3. State(d.gen) = State(w.gen) => f.gen = d.gen
    BY <1>4, <1>5, <2>1
  <2> QED
    BY <2>2, <2>3 DEF Latest
<1>7. /\ x \in Daemons /\ x.gen = f.gen /\ x.want = d.want /\ x.id \in {d.id, Absent}
      /\ x.next \in {d.next, NoFrame}
  BY <1>4, StatusKept DEF Typed
<1>8. Of(w, x.next.gen, x.next.page)
  BY <1>7, NoFrameOf DEF Pictured, Typed
<1>9. status \in Statuses /\ x.gen = IF status = <<>> THEN d.gen ELSE Head(status).gen
  <2>1. <<State(f.gen)>> # <<>> /\ Head(<<State(f.gen)>>).gen = f.gen
    BY DEF State
  <2> QED
    BY <1>4, <1>7, <2>1 DEF Statuses
<1>10. told \in Seq(OnTold) /\ Latest(told, "frames", Frames(d.want), Frames(m.wanted /\ m.focus))
  BY DEF Typed, Switching
<1> HIDE DEF x, status
<1>11. y \in Daemons /\ y.want = x.want /\ y.gen = x.gen /\ y.id = x.id /\ Of(w, y.next.gen, y.next.page)
  <2>1. CASE x.want
    <3> DEFINE n == [kind |-> "frame", gen |-> f.gen, page |-> f.page, id |-> Absent]
    <3>1. n \in Frame(Pages, {Absent}) /\ n.gen = f.gen /\ n.page = f.page
      BY <1>4 DEF Frame
    <3>2. y = [x EXCEPT !.next = n]
      BY <2>1 DEF Taken
    <3> HIDE DEF n, y
    <3>3. y \in Daemons /\ y.want = x.want /\ y.gen = x.gen /\ y.id = x.id /\ y.next = n
      BY <1>7, <3>1, <3>2 DEF Daemons
    <3> QED
      BY <1>4, <3>1, <3>3
  <2>2. CASE ~x.want
    BY <1>7, <1>8, <2>2 DEF Taken
  <2> QED
    BY <2>1, <2>2
<1> HIDE DEF f, t, y, PreviewInv
<1> QED
  BY <1>1, <1>2, <1>3, <1>5, <1>6, <1>7, <1>9, <1>10, <1>11, DaemonFlushes

LEMMA FrameAckInv == PreviewInv /\ FrameAck => PreviewInv'
<1> SUFFICES ASSUME PreviewInv, FrameAck PROVE PreviewInv'
  OBVIOUS
<1> USE DEF PreviewInv
<1> DEFINE q == Tail(told)
<1>1. told # <<>> /\ Head(told).kind = "ack" /\ UNCHANGED <<w, wire, u, down>>
  BY DEF FrameAck, worker
<1>2. q \in Seq(OnTold) /\ Members(told) = {Head(told)} \cup Members(q)
  BY <1>1, Shortened DEF Typed
<1>3. Latest(q, "frames", Frames(d.want), Frames(m.wanted /\ m.focus))
  <2>1. Frames(m.wanted /\ m.focus).kind = "frames" /\ told \in Seq(OnTold)
    BY DEF Frames, Typed
  <2> QED
    BY <1>1, <2>1, LatestTail DEF Switching
<1>4. /\ wire' \in Seq(OnWire) /\ Members(wire') \subseteq Members(wire) /\ d.gen <= w.gen
      /\ Ascends(wire', d.gen, w.gen) /\ (~w.dirty => Latest(wire', "state", State(d.gen), State(w.gen)))
      /\ <<>> \in Statuses /\ <<>> \in Sendings /\ d \in Daemons /\ Of(w, d.next.gen, d.next.page)
  BY <1>1 DEF Typed, Announced, Pictured, Statuses, Sendings
<1>5. CASE Acked
  <2> DEFINE y == [d EXCEPT !.id = Absent]
  <2> DEFINE status == <<>>
  <2>1. PICK id \in Ids : d' = Flushed(y, id) /\ OnAgentd(status, Posted(y, id), q)
    BY <1>5 DEF Acked
  <2>2. Absent \in Ids \cup {Absent}
    OBVIOUS
  <2>3. y \in Daemons /\ y.id = Absent /\ y.want = d.want /\ y.gen = d.gen /\ y.next = d.next
    BY <1>4, <2>2 DEF Daemons
  <2>4. status \in Statuses /\ status = <<>>
    BY <1>4
  <2>5. UNCHANGED <<w, u, down>>
    BY <1>1
  <2>6. /\ Of(w, y.next.gen, y.next.page) /\ y.gen = (IF status = <<>> THEN d.gen ELSE Head(status).gen)
        /\ y.gen <= w.gen /\ Ascends(wire', y.gen, w.gen)
        /\ ~w.dirty => Latest(wire', "state", State(y.gen), State(w.gen))
    BY <1>4, <2>3, <2>4
  <2> HIDE DEF y, q, status, PreviewInv
  <2> QED
    BY <1>2, <1>3, <1>4, <2>1, <2>3, <2>4, <2>5, <2>6, DaemonFlushes
<1>6. CASE Head(told).id # d.id /\ told' = q /\ UNCHANGED <<d, show, m>>
  <2> DEFINE none == <<>>
  <2>1. OnAgentd(none, none, q) /\ none \in Statuses /\ none \in Sendings /\ none = <<>>
    <3>1. show \o <<>> = show /\ q \o <<>> = q /\ show \in Seq(OnShow)
      BY <1>2, ConcatEmptySeq DEF Typed
    <3>2. m' = m /\ show' = (show \o <<>>) \o <<>> /\ told' = q \o <<>>
      BY <1>6, <3>1
    <3> QED
      BY <1>4, <3>2 DEF OnAgentd
  <2>2. \A x \in Members(told) : x \in {Ack(d.id), Frames(FALSE)} => x \in Members(q)
    <3>1. Ack(d.id).id = d.id /\ Frames(FALSE).kind = "frames"
      BY DEF Ack, Frames
    <3> QED
      BY <1>1, <1>2, <1>6, <3>1
  <2>3. /\ d' = d /\ down' \in Seq(BOOLEAN) /\ (d.id # Absent => d.want)
    BY <1>1, <1>6 DEF Typed, Switching
  <2>4. UNCHANGED <<w, u>> /\ d'.gen = (IF none = <<>> THEN d.gen ELSE Head(none).gen) /\ d'.id = d.id
    BY <1>1, <2>1, <2>3
  <2>5. /\ Of(w, d'.next.gen, d'.next.page) /\ d'.want = d.want /\ d'.gen <= w.gen
        /\ Ascends(wire', d'.gen, w.gen)
        /\ ~w.dirty => Latest(wire', "state", State(d'.gen), State(w.gen))
    BY <1>4, <2>3
  <2> HIDE DEF q, none, PreviewInv
  <2> QED
    BY <1>2, <1>3, <1>4, <2>1, <2>2, <2>3, <2>4, <2>5, DaemonKeeps
<1> QED
  BY <1>1, <1>5, <1>6 DEF FrameAck

LEMMA BrowserFramesInv == PreviewInv /\ BrowserFrames => PreviewInv'
<1> SUFFICES ASSUME PreviewInv, BrowserFrames PROVE PreviewInv'
  OBVIOUS
<1> USE DEF PreviewInv
<1> DEFINE b == Head(told).on
           q == Tail(told)
<1>1. /\ told # <<>> /\ Head(told).kind = "frames" /\ told' = q /\ d' = Switched(d, b)
      /\ down' = Append(down, b) /\ UNCHANGED <<w, wire, u, show, m>>
  BY DEF BrowserFrames, worker, window
<1>2. q \in Seq(OnTold) /\ Head(told) \in OnTold /\ Members(told) = {Head(told)} \cup Members(q)
  BY <1>1, Shortened DEF Typed
<1>3. b \in BOOLEAN /\ Head(told) = Frames(b)
  BY <1>1, <1>2 DEF OnTold, Frames
<1>4. /\ d' \in Daemons /\ d'.want = b /\ d'.gen = d.gen /\ d'.next \in {d.next, NoFrame}
      /\ d'.id \in {d.id, Absent} /\ (d'.id # Absent => b)
  <2>1. d \in Daemons /\ Absent \in Ids \cup {Absent} /\ NoFrame \in Frame(Pages, {Absent}) \cup {NoFrame}
    BY DEF Typed
  <2>2. CASE b
    <3>1. d' = [d EXCEPT !.want = TRUE]
      BY <1>1, <2>2 DEF Switched
    <3> QED
      BY <1>3, <2>1, <2>2, <3>1 DEF Daemons
  <2>3. CASE ~b
    <3>1. d' = [d EXCEPT !.want = FALSE, !.id = Absent, !.next = NoFrame]
      BY <1>1, <2>3 DEF Switched
    <3> QED
      BY <1>3, <2>1, <2>3, <3>1 DEF Daemons
  <2> QED
    BY <2>2, <2>3
<1>5. Typed'
  <2>1. down' \in Seq(BOOLEAN)
    BY <1>1, <1>3, AppendProperties DEF Typed
  <2> QED
    BY <1>1, <1>2, <1>4, <2>1 DEF Typed
<1>6. Pictured'
  BY <1>1, <1>4, NoFrameOf DEF Typed, Pictured
<1>7. Announced'
  BY <1>1, <1>4 DEF Announced
<1>8. Switching'
  <2>1. Frames(m.wanted /\ m.focus).kind = "frames" /\ told \in Seq(OnTold)
    BY DEF Frames, Typed
  <2>2. Latest(q, "frames", Head(told), Frames(m.wanted /\ m.focus))
    BY <1>1, <2>1, LatestTail DEF Switching
  <2> QED
    BY <1>1, <1>3, <1>4, <2>2 DEF Switching
<1>9. Alive'
  <2> SUFFICES ASSUME d'.id # Absent, u.at # "loading"
               PROVE  Carrying(d.id)' \/ Frames(FALSE) \in Members(told')
    BY <1>1 DEF Alive
  <2>1. d'.id = d.id /\ b = TRUE
    BY <1>3, <1>4
  <2>2. Frames(FALSE) # Head(told) /\ Ack(d.id) # Head(told)
    <3>1. Frames(FALSE).on = FALSE /\ Ack(d.id).kind = "ack"
      BY DEF Frames, Ack
    <3> QED
      BY <1>1, <2>1, <3>1
  <2>3. Carrying(d.id) \/ Frames(FALSE) \in Members(told)
    BY <2>1 DEF Alive
  <2> QED
    BY <1>1, <1>2, <2>1, <2>2, <2>3 DEF Carrying
<1> QED
  BY <1>5, <1>6, <1>7, <1>8, <1>9

LEMMA RestartInv == PreviewInv /\ Restart => PreviewInv'
<1> SUFFICES ASSUME PreviewInv, Restart PROVE PreviewInv'
  OBVIOUS
<1> USE DEF PreviewInv
<1>1. /\ w' = Fresh(First, w.gen + 1) /\ wire' = <<>> /\ down' = <<d.want>> /\ d' = Status(d, Absent)
      /\ OnAgentd(<<State(Absent)>>, <<>>, told) /\ u' = u
  BY DEF Restart
<1>2. w \in Workers /\ w.gen \in Nat \ {0}
  BY DEF Typed, Workers
<1>3. w' \in Workers /\ w'.gen = w.gen + 1 /\ w'.dirty /\ w'.queue = <<>>
  BY <1>1, <1>2, PreviewConstants DEF Fresh, Workers, Page0
<1>4. /\ d' \in Daemons /\ d'.gen = 0 /\ d'.want = d.want /\ d'.id \in {d.id, Absent}
      /\ d'.next \in {d.next, NoFrame}
  <2>1. d \in Daemons /\ Absent \in Nat /\ Absent = 0
    BY PreviewConstants DEF Typed
  <2> HIDE DEF PreviewInv
  <2> QED
    BY <1>1, <2>1, StatusKept
<1>5. /\ m' \in Mains /\ m'.wanted = m.wanted /\ m'.focus = m.focus /\ m'.gen = 0
      /\ show' \in Seq(OnShow) /\ told' \in Seq(OnTold)
      /\ Latest(show', "state", State(u.gen), State(m'.gen))
      /\ Latest(told', "frames", Frames(d.want), Frames(m.wanted /\ m.focus))
      /\ Members(show) \subseteq Members(show') /\ Members(told) \subseteq Members(told')
      /\ \A x \in Members(show') : x \in Members(show) \/ x.kind = "state"
  <2> DEFINE status == <<State(Absent)>>
  <2>1. status \in Statuses /\ status # <<>> /\ Head(status).gen = 0 /\ <<>> \in Sendings
    BY PreviewConstants DEF Statuses, Sendings
  <2>2. OnAgentd(status, <<>>, told)
    BY <1>1
  <2>3. /\ m \in Mains /\ show \in Seq(OnShow) /\ Latest(show, "state", State(u.gen), State(m.gen))
        /\ told \in Seq(OnTold) /\ Latest(told, "frames", Frames(d.want), Frames(m.wanted /\ m.focus))
    BY DEF Typed, Announced, Switching
  <2> HIDE DEF status, PreviewInv
  <2> QED
    BY <2>1, <2>2, <2>3, Passed
<1>6. Typed'
  <2>1. <<>> \in Seq(OnWire) /\ <<d.want>> \in Seq(BOOLEAN)
    BY DEF Typed, Daemons
  <2> QED
    BY <1>1, <1>3, <1>4, <1>5, <2>1 DEF Typed
<1>7. Pictured'
  <2>1. \A g \in Nat : \A p : Of(w, g, p) => Of(w', g, p)
    BY <1>2, <1>3, OfKept
  <2>2. \A f \in Members(show') : f.kind = "frame" => Of(w', f.gen, f.page)
    BY <1>5, <2>1, Generations DEF Pictured
  <2>3. Of(w', d'.next.gen, d'.next.page)
    BY <1>3, <1>4, <2>1, Generations, PreviewConstants DEF Pictured, Of
  <2>4. Of(w', u.shown, u.pic) /\ (u.dec.page # Absent => Of(w', u.dec.gen, u.dec.page))
    BY <2>1, Generations DEF Pictured
  <2> QED
    BY <1>1, <1>3, <2>2, <2>3, <2>4, EmptyQueue DEF Pictured
<1>8. Announced'
  BY <1>1, <1>2, <1>3, <1>4, <1>5, EmptyQueue DEF Announced
<1>9. Switching'
  BY <1>1, <1>4, <1>5 DEF Switching
<1>10. Alive'
  BY <1>1, <1>4, <1>5 DEF Alive, Carrying
<1> QED
  BY <1>6, <1>7, <1>8, <1>9, <1>10

-----------------------------------------------------------------------------
(* The main process and the window.                                        *)

LEMMA WindowKeeps ==
  ASSUME PreviewInv, UNCHANGED <<w, wire, d, down>>,
         u' \in Panels, u'.dec.id = Absent => u'.dec = NoFrame,
         Of(w, u'.shown, u'.pic), u'.dec.page # Absent => Of(w, u'.dec.gen, u'.dec.page),
         m' \in Mains, m'.gen = m.gen, u'.at = "closed" => ~m'.wanted,
         show' \in Seq(OnShow), Members(show') \subseteq Members(show),
         Latest(show', "state", State(u'.gen), State(m.gen)),
         told' \in Seq(OnTold),
         Latest(told', "frames", Frames(d.want), Frames(m'.wanted /\ m'.focus)),
         Alive'
  PROVE  PreviewInv'
<1> USE DEF PreviewInv
<1>1. Typed'
  BY DEF Typed
<1>2. Pictured'
  <2>1. \A f \in Members(wire) \cup Members(show') : f.kind = "frame" => Of(w, f.gen, f.page)
    BY DEF Pictured
  <2> QED
    BY <2>1 DEF Pictured
<1>3. Announced'
  BY DEF Announced
<1>4. Switching'
  BY DEF Switching
<1> QED
  BY <1>1, <1>2, <1>3, <1>4

(* What the panel keeps of its frames stays in place.                      *)
LEMMA PanelStays ==
  ASSUME PreviewInv, UNCHANGED <<d, show>>, u'.dec.id = u.dec.id, u.at = "loading" => u'.at = "loading",
         Members(told) \subseteq Members(told')
  PROVE  Alive'
BY DEF PreviewInv, Alive, Carrying

LEMMA WindowNow ==
  ASSUME PreviewInv
  PROVE  /\ u \in Panels /\ (u.dec.id = Absent => u.dec = NoFrame)
         /\ Of(w, u.shown, u.pic) /\ (u.dec.page # Absent => Of(w, u.dec.gen, u.dec.page))
         /\ \A p : Of(w, Absent, p)
         /\ m \in Mains /\ (u.at = "closed" => ~m.wanted)
         /\ show \in Seq(OnShow) /\ told \in Seq(OnTold) /\ w.gen \in Nat \ {0}
         /\ Latest(show, "state", State(u.gen), State(m.gen))
         /\ Latest(told, "frames", Frames(d.want), Frames(m.wanted /\ m.focus))
<1>1. w.gen \in Nat \ {0}
  BY DEF PreviewInv, Typed, Workers
<1>2. \A p : Of(w, Absent, p)
  BY <1>1, PreviewConstants DEF Of
<1> QED
  BY <1>1, <1>2 DEF PreviewInv, Typed, Pictured, Announced, Switching

LEMMA PanelIs ==
  ASSUME NEW at \in {"closed", "open", "loading"}, NEW g \in Nat
  PROVE  /\ Panel(at, g) \in Panels /\ Panel(at, g).dec = NoFrame /\ Panel(at, g).gen = g
         /\ Panel(at, g).shown = Absent /\ Panel(at, g).at = at
<1>1. NoFrame \in Frame(Page0, Ids \cup {Absent}) /\ Absent \in Page0 /\ Absent \in Nat
  BY PreviewConstants DEF Frame, Page0
<1> QED
  BY <1>1 DEF Panel, Panels

(* The window, or main for it, says what it wants.                         *)
LEMMA Asked ==
  ASSUME PreviewInv, NEW b \in BOOLEAN
  PROVE  LET q == Append(told, Frames(b)) IN
         /\ q \in Seq(OnTold) /\ Members(q) = Members(told) \cup {Frames(b)}
         /\ Latest(q, "frames", Frames(d.want), Frames(b))
<1>1. Frames(b) \in OnTold /\ Frames(b).kind = "frames" /\ told \in Seq(OnTold)
  BY PreviewConstants, WindowNow
<1>2. /\ Append(told, Frames(b)) \in Seq(OnTold)
      /\ Members(Append(told, Frames(b))) = Members(told) \cup {Frames(b)}
  BY <1>1, Appended
<1>3. Latest(Append(told, Frames(b)), "frames", Frames(d.want), Frames(b))
  BY <1>1, LatestAppend
<1> QED
  BY <1>2, <1>3

LEMMA Acknowledged ==
  ASSUME NEW q \in Seq(OnTold), NEW id \in Nat
  PROVE  /\ Append(q, Ack(id)) \in Seq(OnTold) /\ Members(Append(q, Ack(id))) = Members(q) \cup {Ack(id)}
         /\ \A h, e : Latest(q, "frames", h, e) => Latest(Append(q, Ack(id)), "frames", h, e)
<1>1. Ack(id) \in OnTold /\ Ack(id).kind = "ack"
  BY PreviewConstants
<1>2. Append(q, Ack(id)) \in Seq(OnTold) /\ Members(Append(q, Ack(id))) = Members(q) \cup {Ack(id)}
  BY <1>1, Appended
<1>3. \A h, e : Latest(q, "frames", h, e) => Latest(Append(q, Ack(id)), "frames", h, e)
  BY <1>1, LatestAppend
<1> QED
  BY <1>2, <1>3

LEMMA MainAsks ==
  ASSUME PreviewInv, Focus \/ DidStartLoading
  PROVE  PreviewInv'
<1>1. /\ UNCHANGED <<w, wire, d, down, u, show>> /\ m' \in Mains /\ m'.gen = m.gen
      /\ told' = Append(told, Frames(m'.wanted /\ m'.focus)) /\ (m'.wanted => m.wanted)
  <2>1. CASE Focus
    BY <2>1, WindowNow DEF Focus, Mains, syncFrameVisibility, worker
  <2>2. CASE DidStartLoading
    BY <2>2, WindowNow DEF DidStartLoading, Mains, syncFrameVisibility, worker
  <2> QED
    BY <2>1, <2>2
<1>2. (m'.wanted /\ m'.focus) \in BOOLEAN
  OBVIOUS
<1>3. /\ told' \in Seq(OnTold) /\ Members(told) \subseteq Members(told')
      /\ Latest(told', "frames", Frames(d.want), Frames(m'.wanted /\ m'.focus))
  BY <1>1, <1>2, Asked
<1>4. Alive'
  BY <1>1, <1>3, PanelStays
<1> QED
  BY <1>1, <1>3, <1>4, WindowNow, WindowKeeps

LEMMA CommittedInv == PreviewInv /\ Committed => PreviewInv'
<1> SUFFICES ASSUME PreviewInv, Committed PROVE PreviewInv'
  OBVIOUS
<1>1. /\ m' = [m EXCEPT !.loading = FALSE] /\ u' = Panel("loading", m.gen) /\ show' = <<>>
      /\ UNCHANGED <<w, wire, d, down, told>>
  BY DEF Committed, worker, daemon
<1>2. m' \in Mains /\ m'.gen = m.gen /\ m'.wanted = m.wanted /\ m'.focus = m.focus /\ m.gen \in Nat
  BY <1>1, WindowNow DEF Mains
<1>3. u' \in Panels /\ u'.dec = NoFrame /\ u'.gen = m.gen /\ u'.shown = Absent /\ u'.at = "loading"
  BY <1>1, <1>2, PanelIs
<1>4. Alive'
  BY <1>3 DEF Alive
<1>5. show' \in Seq(OnShow) /\ Members(show') = {} /\ Latest(show', "state", State(u'.gen), State(m.gen))
  BY <1>1, <1>3, EmptyQueue
<1> QED
  BY <1>1, <1>2, <1>3, <1>4, <1>5, PreviewConstants, WindowNow, WindowKeeps

LEMMA MountInv == PreviewInv /\ Mount => PreviewInv'
<1> SUFFICES ASSUME PreviewInv, Mount PROVE PreviewInv'
  OBVIOUS
<1>1. /\ u' = Panel("open", u.gen) /\ m' = [m EXCEPT !.wanted = FALSE] /\ UNCHANGED <<w, wire, d, down, show>>
      /\ told' = Append(told, Frames(m'.wanted /\ m'.focus))
  BY DEF Mount, Wants, syncFrameVisibility, Alike, worker
<1>2. m' \in Mains /\ m'.gen = m.gen /\ m'.wanted = FALSE /\ m'.focus \in BOOLEAN /\ u.gen \in Nat
  BY <1>1, WindowNow DEF Mains, Panels
<1>3. u' \in Panels /\ u'.dec = NoFrame /\ u'.gen = u.gen /\ u'.shown = Absent /\ u'.at = "open"
  BY <1>1, <1>2, PanelIs
<1>4. told' = Append(told, Frames(FALSE)) /\ (m'.wanted /\ m'.focus) = FALSE
  BY <1>1, <1>2
<1>5. /\ told' \in Seq(OnTold) /\ Frames(FALSE) \in Members(told')
      /\ Latest(told', "frames", Frames(d.want), Frames(m'.wanted /\ m'.focus))
  BY <1>4, Asked
<1>6. Alive'
  BY <1>5 DEF Alive
<1> QED
  BY <1>1, <1>2, <1>3, <1>5, <1>6, PreviewConstants, WindowNow, WindowKeeps

LEMMA VisibilityInv == PreviewInv /\ Visibility => PreviewInv'
<1> SUFFICES ASSUME PreviewInv, Visibility PROVE PreviewInv'
  OBVIOUS
<1>1. /\ u.at = "open" /\ u' = [u EXCEPT !.seen = ~@] /\ m' = [m EXCEPT !.wanted = ~u.seen]
      /\ told' = Append(told, Frames(m'.wanted /\ m'.focus)) /\ UNCHANGED <<w, wire, d, down, show>>
  BY DEF Visibility, Wants, syncFrameVisibility, Alike, worker
<1>2. u' \in Panels /\ u'.dec = u.dec /\ u'.gen = u.gen /\ u'.shown = u.shown /\ u'.pic = u.pic /\ u'.at = u.at
  BY <1>1, WindowNow DEF Panels
<1>3. m' \in Mains /\ m'.gen = m.gen
  BY <1>1, WindowNow DEF Mains, Panels
<1>4. (m'.wanted /\ m'.focus) \in BOOLEAN
  OBVIOUS
<1>5. /\ told' \in Seq(OnTold) /\ Members(told) \subseteq Members(told')
      /\ Latest(told', "frames", Frames(d.want), Frames(m'.wanted /\ m'.focus))
  BY <1>1, <1>4, Asked
<1>6. Alive'
  BY <1>1, <1>2, <1>5, PanelStays
<1> QED
  BY <1>1, <1>2, <1>3, <1>5, <1>6, WindowNow, WindowKeeps

LEMMA UnmountInv == PreviewInv /\ Unmount => PreviewInv'
<1> SUFFICES ASSUME PreviewInv, Unmount PROVE PreviewInv'
  OBVIOUS
<1> DEFINE q == Append(told, Frames(FALSE))
<1>1. /\ u' = Panel("closed", u.gen) /\ m' = [m EXCEPT !.wanted = FALSE]
      /\ told' = told \o <<Frames(FALSE)>> \o (IF u.dec = NoFrame THEN <<>> ELSE <<Ack(u.dec.id)>>)
      /\ UNCHANGED <<w, wire, d, down, show>>
  BY DEF Unmount, Alike, worker
<1>2. /\ m' \in Mains /\ m'.gen = m.gen /\ m'.wanted = FALSE /\ u.gen \in Nat /\ u.dec.id \in Nat
  <2>1. m' \in Mains /\ m'.gen = m.gen /\ m'.wanted = FALSE
    BY <1>1, WindowNow DEF Mains
  <2>2. u.gen \in Nat /\ u.dec \in Frame(Page0, Ids \cup {Absent})
    BY WindowNow DEF Panels
  <2>3. u.dec.id \in Nat
    BY <2>2, PreviewConstants DEF Frame
  <2> QED
    BY <2>1, <2>2, <2>3
<1>3. u' \in Panels /\ u'.dec = NoFrame /\ u'.gen = u.gen /\ u'.shown = Absent /\ u'.at = "closed"
  BY <1>1, <1>2, PanelIs
<1>4. /\ q \in Seq(OnTold) /\ Frames(FALSE) \in Members(q)
      /\ Latest(q, "frames", Frames(d.want), Frames(FALSE))
  BY Asked
<1>5. told \o <<Frames(FALSE)>> = q
  <2>1. told \in Seq(OnTold) /\ Frames(FALSE) \in OnTold
    BY WindowNow, PreviewConstants
  <2> QED
    BY <2>1, AppendIsConcat
<1> HIDE DEF q
<1>6. /\ told' \in Seq(OnTold) /\ Frames(FALSE) \in Members(told')
      /\ Latest(told', "frames", Frames(d.want), Frames(FALSE))
  <2>1. CASE u.dec = NoFrame
    BY <1>1, <1>4, <1>5, <2>1, ConcatEmptySeq
  <2>2. CASE u.dec # NoFrame
    <3>1. Ack(u.dec.id) \in OnTold
      BY <1>2, PreviewConstants
    <3>2. told' = Append(q, Ack(u.dec.id))
      BY <1>1, <1>4, <1>5, <2>2, <3>1, AppendIsConcat
    <3> QED
      BY <1>2, <1>4, <3>2, Acknowledged
  <2> QED
    BY <2>1, <2>2
<1>7. Alive'
  BY <1>6 DEF Alive
<1>8. (m'.wanted /\ m'.focus) = FALSE
  BY <1>2
<1>9. Latest(told', "frames", Frames(d.want), Frames(m'.wanted /\ m'.focus))
  BY <1>6, <1>8
<1>10. Of(w, u'.shown, u'.pic) /\ u'.dec.page = Absent /\ u'.gen = u.gen
  BY <1>3, WindowNow, PreviewConstants
<1>11. /\ show' \in Seq(OnShow) /\ Members(show') \subseteq Members(show)
       /\ Latest(show', "state", State(u'.gen), State(m.gen))
  BY <1>1, <1>3, WindowNow
<1>12. UNCHANGED <<w, wire, d, down>>
  BY <1>1
<1> QED
  BY <1>2, <1>3, <1>6, <1>7, <1>9, <1>10, <1>11, <1>12, WindowKeeps

LEMMA OnBrowserStateInv == PreviewInv /\ OnBrowserState => PreviewInv'
<1> SUFFICES ASSUME PreviewInv, OnBrowserState PROVE PreviewInv'
  OBVIOUS
<1> DEFINE g == Head(show).gen
<1>1. /\ show # <<>> /\ Head(show).kind = "state" /\ show' = Tail(show)
      /\ u' = (IF g = Absent THEN [u EXCEPT !.gen = Absent, !.shown = Absent, !.dec.page = Absent]
               ELSE [u EXCEPT !.gen = g])
      /\ UNCHANGED <<w, wire, d, down, m, told>>
  BY DEF OnBrowserState, Heard, worker
<1>2. show' \in Seq(OnShow) /\ Head(show) \in OnShow /\ Members(show) = {Head(show)} \cup Members(show')
  BY <1>1, WindowNow, Shortened
<1>3. g \in Nat /\ Head(show) = State(g)
  BY <1>1, <1>2 DEF OnShow, Frame, State
<1>4. Latest(show', "state", State(g), State(m.gen))
  <2>1. State(m.gen).kind = "state"
    BY DEF State
  <2> QED
    BY <1>1, <1>3, <2>1, WindowNow, LatestTail
<1> HIDE DEF g
<1>5. u' \in Panels /\ u'.gen = g /\ u'.at = u.at /\ u'.dec.id = u.dec.id /\ u'.pic = u.pic
  <2>1. u \in Panels /\ Absent \in Nat /\ Absent \in Page0
    BY WindowNow, PreviewConstants DEF Page0
  <2>2. CASE g = Absent
    <3> DEFINE c == [u.dec EXCEPT !.page = Absent]
    <3>1. c \in Frame(Page0, Ids \cup {Absent}) /\ c.id = u.dec.id
      BY <2>1 DEF Panels, Frame
    <3>2. u' = [u EXCEPT !.gen = Absent, !.shown = Absent, !.dec = c]
      BY <1>1, <2>1, <2>2 DEF Panels
    <3> HIDE DEF c
    <3> QED
      BY <2>1, <2>2, <3>1, <3>2 DEF Panels
  <2>3. CASE g # Absent
    BY <1>1, <1>3, <2>1, <2>3 DEF Panels
  <2> QED
    BY <2>2, <2>3
<1>6. /\ u'.dec = u.dec \/ (u'.dec.page = Absent /\ u'.dec = [u.dec EXCEPT !.page = Absent])
      /\ u'.shown = u.shown \/ u'.shown = Absent
  <2>1. u \in Panels
    BY WindowNow
  <2>2. u.dec \in Frame(Page0, Ids \cup {Absent})
    BY <2>1 DEF Panels
  <2>3. CASE g = Absent
    <3>1. u'.dec = [u.dec EXCEPT !.page = Absent] /\ u'.shown = Absent
      BY <1>1, <2>1, <2>3 DEF Panels
    <3> QED
      BY <2>2, <3>1 DEF Frame
  <2>4. CASE g # Absent
    BY <1>1, <2>1, <2>4 DEF Panels
  <2> QED
    BY <2>3, <2>4
<1>7. u'.dec.id = Absent => u'.dec = NoFrame
  <2>1. [NoFrame EXCEPT !.page = Absent] = NoFrame
    BY PreviewConstants DEF NoFrame
  <2> QED
    BY <1>5, <1>6, <2>1, WindowNow
<1>8. Of(w, u'.shown, u'.pic) /\ (u'.dec.page # Absent => Of(w, u'.dec.gen, u'.dec.page))
  BY <1>5, <1>6, WindowNow
<1>9. Alive'
  <2>1. \A f \in Members(show) : f.kind = "frame" => f \in Members(show')
    BY <1>1, <1>2
  <2> QED
    BY <1>1, <1>5, <2>1 DEF PreviewInv, Alive, Carrying
<1> QED
  BY <1>1, <1>2, <1>4, <1>5, <1>7, <1>8, <1>9, WindowNow, WindowKeeps

LEMMA OnBrowserFrameInv == PreviewInv /\ OnBrowserFrame => PreviewInv'
<1> SUFFICES ASSUME PreviewInv, OnBrowserFrame PROVE PreviewInv'
  OBVIOUS
<1> DEFINE f == Head(show)
<1>1. /\ show # <<>> /\ f.kind = "frame" /\ show' = Tail(show)
      /\ IF u.at # "open" THEN UNCHANGED <<u, told>>
         ELSE IF ~u.seen \/ u.dec # NoFrame THEN told' = Append(told, Ack(f.id)) /\ UNCHANGED u
         ELSE u' = [u EXCEPT !.dec = f] /\ UNCHANGED told
      /\ UNCHANGED <<w, wire, d, down, m>>
  BY DEF OnBrowserFrame, Refused, Heard, worker
<1>2. /\ show' \in Seq(OnShow) /\ f \in OnShow /\ Members(show) = {f} \cup Members(show')
  BY <1>1, WindowNow, Shortened
<1>3. f \in Frame(Pages, Ids) /\ f.id \in Ids /\ f.id \in Nat /\ Of(w, f.gen, f.page)
  BY <1>1, <1>2, PreviewConstants DEF OnShow, Frame, PreviewInv, Pictured
<1>4. Latest(show', "state", State(u.gen), State(m.gen))
  <2>1. State(m.gen).kind = "state"
    BY DEF State
  <2> QED
    BY <1>1, <2>1, WindowNow, LatestTail
<1> HIDE DEF f
<1>5. CASE u.at # "open"
  <2>1. u' = u /\ told' = told
    BY <1>1, <1>5
  <2>2. Alive'
    <3> SUFFICES ASSUME d.id # Absent, u.at # "loading" PROVE Frames(FALSE) \in Members(told)
      BY <1>1, <2>1 DEF Alive
    <3>1. u.at = "closed" /\ d.want = TRUE
      BY <1>5, WindowNow DEF Panels, PreviewInv, Switching, Typed, Daemons
    <3>2. (m.wanted /\ m.focus) = FALSE
      BY <3>1, WindowNow
    <3>3. Latest(told, "frames", Frames(TRUE), Frames(FALSE))
      BY <3>1, <3>2, WindowNow
    <3>4. Frames(TRUE) # Frames(FALSE)
      BY PreviewConstants
    <3> QED
      BY <3>3, <3>4 DEF Latest, Members
  <2> QED
    BY <1>1, <1>2, <1>4, <2>1, <2>2, WindowNow, WindowKeeps
<1>6. CASE u.at = "open" /\ (~u.seen \/ u.dec # NoFrame)
  <2>1. u' = u /\ told' = Append(told, Ack(f.id))
    BY <1>1, <1>6
  <2>2. /\ told' \in Seq(OnTold) /\ Members(told') = Members(told) \cup {Ack(f.id)}
        /\ Latest(told', "frames", Frames(d.want), Frames(m.wanted /\ m.focus))
    BY <1>3, <2>1, WindowNow, Acknowledged
  <2>3. Alive'
    BY <1>1, <1>2, <2>1, <2>2 DEF PreviewInv, Alive, Carrying
  <2> QED
    BY <1>1, <1>2, <1>4, <2>1, <2>2, <2>3, WindowNow, WindowKeeps
<1>7. CASE u.at = "open" /\ u.seen /\ u.dec = NoFrame
  <2>1. u' = [u EXCEPT !.dec = f] /\ told' = told
    BY <1>1, <1>7
  <2>2. f \in Frame(Page0, Ids \cup {Absent})
    BY <1>3 DEF Frame, Page0
  <2>3. /\ u' \in Panels /\ u'.dec = f /\ u'.gen = u.gen /\ u'.shown = u.shown /\ u'.pic = u.pic
        /\ u'.at = u.at
    BY <2>1, <2>2, WindowNow DEF Panels
  <2>4. f.id # Absent
    BY <1>3, PreviewConstants
  <2>5. Alive'
    <3> SUFFICES ASSUME d.id # Absent PROVE Carrying(d.id)' \/ Frames(FALSE) \in Members(told)
      BY <1>1, <2>1 DEF Alive
    <3>1. u.dec.id # d.id
      BY <1>7, PreviewConstants
    <3>2. Carrying(d.id) \/ Frames(FALSE) \in Members(told)
      BY <1>7 DEF PreviewInv, Alive
    <3>3. d' = d /\ told' = told
      BY <1>1, <2>1
    <3> QED
      BY <1>2, <2>3, <3>1, <3>2, <3>3 DEF Carrying
  <2> QED
    BY <1>1, <1>2, <1>3, <1>4, <2>1, <2>3, <2>4, <2>5, WindowNow, WindowKeeps
<1> QED
  BY <1>5, <1>6, <1>7, WindowNow DEF Panels

LEMMA DrawnInv == PreviewInv /\ Drawn => PreviewInv'
<1> SUFFICES ASSUME PreviewInv, Drawn PROVE PreviewInv'
  OBVIOUS
<1>1. /\ u.dec # NoFrame /\ told' = Append(told, Ack(u.dec.id)) /\ UNCHANGED <<w, wire, d, down, m, show>>
      /\ \/ u' = [u EXCEPT !.dec = NoFrame]
         \/ u.dec.page # Absent /\ u' = [u EXCEPT !.dec = NoFrame, !.shown = u.dec.gen, !.pic = u.dec.page, !.error = FALSE]
         \/ u' = [u EXCEPT !.dec = NoFrame, !.error = TRUE]
  BY DEF Drawn, Heard, worker
<1>2. /\ u \in Panels /\ u.dec.gen \in Nat /\ u.dec.page \in Page0 /\ u.dec.id \in Nat
      /\ NoFrame \in Frame(Page0, Ids \cup {Absent})
  BY WindowNow, PreviewConstants DEF Panels, Frame
<1>3. /\ u' \in Panels /\ u'.dec = NoFrame /\ u'.gen = u.gen /\ u'.at = u.at
      /\ \/ u'.shown = u.shown /\ u'.pic = u.pic
         \/ u.dec.page # Absent /\ u'.shown = u.dec.gen /\ u'.pic = u.dec.page
  BY <1>1, <1>2 DEF Panels
<1>4. Of(w, u'.shown, u'.pic)
  BY <1>3, WindowNow
<1>5. /\ told' \in Seq(OnTold) /\ Members(told') = Members(told) \cup {Ack(u.dec.id)}
      /\ Latest(told', "frames", Frames(d.want), Frames(m.wanted /\ m.focus))
  BY <1>1, <1>2, WindowNow, Acknowledged
<1>6. Alive'
  BY <1>1, <1>3, <1>5 DEF PreviewInv, Alive, Carrying
<1> QED
  BY <1>1, <1>3, <1>4, <1>5, <1>6, PreviewConstants, WindowNow, WindowKeeps

LEMMA PreviewSteps == PreviewInv /\ [PreviewNext]_previewVars => PreviewInv'
<1> SUFFICES ASSUME PreviewInv, [PreviewNext]_previewVars PROVE PreviewInv'
  OBVIOUS
<1>1. ASSUME NEW p \in Pages, TurnTo(p) \/ SwitchPage(p) PROVE PreviewInv'
  BY <1>1, WorkerMoves
<1>2. CASE \/ Fronted \/ Hangs \/ Refresh \/ CastStop \/ CastStart \/ Input \/ DrainInput
           \/ FrontFails \/ SetFramesEnabled
  BY <1>2, WorkerMoves
<1>3. CASE Publish \/ OnFrame
  BY <1>3, WorkerSends
<1>4. CASE TakeState
  BY <1>4, TakeStateInv
<1>5. CASE TakeFrame
  BY <1>5, TakeFrameInv
<1>6. CASE FrameAck
  BY <1>6, FrameAckInv
<1>7. CASE BrowserFrames
  BY <1>7, BrowserFramesInv
<1>8. CASE Restart
  BY <1>8, RestartInv
<1>9. CASE Focus \/ DidStartLoading
  BY <1>9, MainAsks
<1>10. CASE Committed
  BY <1>10, CommittedInv
<1>11. CASE Mount
  BY <1>11, MountInv
<1>12. CASE Visibility
  BY <1>12, VisibilityInv
<1>13. CASE Unmount
  BY <1>13, UnmountInv
<1>14. CASE OnBrowserState
  BY <1>14, OnBrowserStateInv
<1>15. CASE OnBrowserFrame
  BY <1>15, OnBrowserFrameInv
<1>16. CASE Drawn
  BY <1>16, DrawnInv
<1>17. CASE UNCHANGED previewVars
  BY <1>17 DEF previewVars, worker, daemon, window, PreviewInv, Typed, Pictured, Announced, Switching,
               Alive, Carrying
<1> QED
  BY <1>1, <1>2, <1>3, <1>4, <1>5, <1>6, <1>7, <1>8, <1>9, <1>10, <1>11, <1>12, <1>13, <1>14, <1>15,
     <1>16, <1>17 DEF PreviewNext, Flow

(* What the picture, the input and the two switches rest on: what is on    *)
(* its way, in either direction, carries what it was of when it was sent   *)
(* (browser-session.ts, browser-session-manager.ts, ipc.ts, index.ts and   *)
(* BrowserPanel.tsx).                                                      *)
THEOREM PreviewInvariance == PreviewSpec => []PreviewInv
<1>1. PreviewInit => PreviewInv
  BY PreviewStarts
<1>2. PreviewInv /\ [PreviewNext]_previewVars => PreviewInv'
  BY PreviewSteps
<1> QED
  BY <1>1, <1>2, PTL DEF PreviewSpec

(* The frame the daemon waits for is not lost in a way that stops the      *)
(* picture for good (ipc.ts:455), and a picture the window relies on is    *)
(* the active page's (BrowserPanel.tsx:153), except while a switch brings  *)
(* its page to front, or after one that could not.                         *)
THEOREM PicturesSound == PreviewSpec => []PreviewIsSound
<1>1. PreviewInv => PreviewIsSound
  BY PreviewSafe
<1> QED
  BY <1>1, PreviewInvariance, PTL

(* Input that was meant for one page is never applied to another: it is    *)
(* dropped, or its page is still the active one (browser-session.ts:537),  *)
(* except while a switch brings its page to front, or after one that could *)
(* not, until the next page change.                                        *)
THEOREM InputAimed == PreviewSpec => []InputReachesItsPage
<1>1. PreviewInv => InputReachesItsPage
  BY PreviewSafe
<1> QED
  BY <1>1, PreviewInvariance, PTL

=============================================================================
