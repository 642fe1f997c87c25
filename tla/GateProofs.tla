----------------------------- MODULE GateProofs -----------------------------
(***************************************************************************)
(* TLAPS proofs about what must not pass without leave: Approvals, for any *)
(* askers, rules, hosts and runs, and Egress, for any sessions, calls and  *)
(* clients.                                                                *)
(*                                                                         *)
(* Approvals is in two layers: CardInv says that an asker which waits has  *)
(* a card it can use, and Words that every permission goes back to a word  *)
(* of the human.  The second needs the first: an answer is for what the    *)
(* card's asker waits for, under the run it asked in.                      *)
(*                                                                         *)
(* Egress is in three parts: which addresses private-address.ts refuses;   *)
(* that only the session that is served has sockets and connections, to    *)
(* public addresses; and that the links of session-egress.ts turn a switch *)
(* (EgressSwitch).                                                         *)
(***************************************************************************)
EXTENDS Approvals, Egress, FiniteSetTheorems, TLAPS

(* Where an asker stands fits what it is, and it has a card only after it  *)
(* has asked; a command and an action keep waiting while theirs is open.   *)
Standing ==
  /\ \A s \in Sockets : status[s] # "rule"
  /\ \A a \in Askers : status[a] = "host" => HostOf[a] \in Hosts
  /\ \A a \in Askers : status[a] = "rule" => RuleOf[a] \in Rules
  /\ \A a \in Askers : card[a] # "none" => status[a] # "idle"
  /\ \A a \in Askers \ Sockets : card[a] # "none" => status[a] \in Waiting
  /\ \A c \in Commands : shell[c] \in {"off", "held"} => status[c] = "idle"

(* A card is of the run that is alive.                                     *)
Current == \A a \in Askers : card[a] # "none" => alive /\ asked[a] = run

(* Who waits, waits for a card.                                            *)
Carded ==
  \A b \in Askers : status[b] \in Waiting => \E a \in Askers : card[a] # "none" /\ b \in WaitingFor(a)

CardInv == TypeOK /\ Standing /\ Current /\ Carded

(* A card is answered: by the window, the phone or its timer.              *)
Answers(a, what, reply) ==
  /\ card[a] # "none" /\ About(a) = what
  /\ card[a] = "expired" => reply = "deny"
  /\ Finish(a, what, reply)

LEMMA Answering ==
  ASSUME NEW a \in Askers, NEW reply \in Outcomes,
         Click(a, reply) \/ OnReply(a, reply) \/ TimerFires(a)
  PROVE  \E what \in Waiting, o \in Outcomes : Answers(a, what, o)
<1>1. About(a) \in Waiting
  BY DEF About, Waiting
<1>2. Heard(a, reply) \in Outcomes /\ "deny" \in Outcomes
  BY DEF Heard, Outcomes
<1>3. ASSUME NEW what, Decide(a, what, reply)
      PROVE  Answers(a, what, Heard(a, reply)) /\ what \in Waiting
  BY <1>1, <1>3 DEF Decide, Pending, Answers, Heard
<1>4. CASE Click(a, reply)
  BY <1>2, <1>3, <1>4 DEF Click
<1>5. CASE OnReply(a, reply)
  BY <1>2, <1>3, <1>5 DEF OnReply
<1>6. CASE TimerFires(a)
  BY <1>1, <1>2, <1>6 DEF TimerFires, Answers
<1> QED
  BY <1>4, <1>5, <1>6

LEMMA InitCards == Init => CardInv
<1> SUFFICES ASSUME Init PROVE CardInv
  OBVIOUS
<1>1. TypeOK
  <2>1. 0 \in 0 .. MaxRuns
    BY AskerAssumption
  <2> QED
    BY <2>1 DEF Init, TypeOK, Waiting
<1>2. Standing
  BY DEF Init, Standing, Askers, Waiting
<1>3. Current /\ Carded
  BY DEF Init, Current, Carded, Waiting
<1> QED
  BY <1>1, <1>2, <1>3 DEF CardInv

(* What waits for a card is waiting.                                       *)
LEMMA WaitersWait ==
  ASSUME CardInv, NEW a \in Askers, NEW b \in WaitingFor(a)
  PROVE  /\ b \in Askers /\ status[b] \in Waiting
         /\ b # a => a \in Sockets /\ b \in Sockets
         /\ a \in Sockets => b \in Sockets /\ status[b] = "host" /\ HostOf[b] = HostOf[a]
  BY DEF WaitingFor, Waiting, Askers

(* An asker that starts to wait, or is answered at once.                   *)
LEMMA AskCards ==
  ASSUME CardInv, NEW a \in Askers, NEW what \in Waiting, Ask(a, what), UNCHANGED shell,
         status[a] = "idle", alive,
         what = "host" => HostOf[a] \in Hosts /\ a \notin Commands,
         what = "rule" => RuleOf[a] \in Rules /\ a \notin Sockets,
         a \in Commands => shell[a] \notin {"off", "held"}
  PROVE  CardInv'
<1> USE DEF CardInv, TypeOK, Standing, Current, Waiting
<1>0. /\ status' = [status EXCEPT ![a] = what] /\ card' = [card EXCEPT ![a] = "open"]
      /\ asked' = [asked EXCEPT ![a] = run]
      /\ UNCHANGED <<run, alive, owner, session, seen, hosts, kept, said, shell>>
  BY DEF Ask, lists
<1>1. TypeOK'
  BY <1>0
<1>2. Standing'
  BY <1>0 DEF Askers
<1>3. Current'
  BY <1>0
<1>4. Carded'
  <2> SUFFICES ASSUME NEW b \in Askers, status'[b] \in Waiting
               PROVE  \E x \in Askers : card'[x] # "none" /\ b \in WaitingFor(x)'
    BY DEF Carded
  <2>1. CASE b = a
    <3>1. a \in WaitingFor(a)' /\ card'[a] # "none"
      BY <1>0, <2>1 DEF WaitingFor, Askers
    <3> QED
      BY <2>1, <3>1
  <2>2. CASE b # a
    <3>1. status[b] \in Waiting /\ status'[b] = status[b]
      BY <1>0, <2>2
    <3>2. PICK x \in Askers : card[x] # "none" /\ b \in WaitingFor(x)
      BY <3>1 DEF Carded
    <3>3. card'[x] # "none" /\ b \in WaitingFor(x)'
      BY <1>0, <2>2, <3>1, <3>2 DEF WaitingFor
    <3> QED
      BY <3>3
  <2> QED
    BY <2>1, <2>2
<1> QED
  BY <1>1, <1>2, <1>3, <1>4

(* Waiting for a card lasts while the waiter's status and the card do.     *)
LEMMA StillCarded ==
  ASSUME CardInv, NEW b \in Askers, status[b] \in Waiting, status'[b] = status[b],
         \A x \in Askers : card[x] # "none" /\ b \in WaitingFor(x) => card'[x] # "none"
  PROVE  \E x \in Askers : card'[x] # "none" /\ b \in WaitingFor(x)'
<1>1. PICK x \in Askers : card[x] # "none" /\ b \in WaitingFor(x)
  BY DEF CardInv, Carded
<1>2. b \in WaitingFor(x)'
  BY <1>1 DEF WaitingFor
<1> QED
  BY <1>1, <1>2

LEMMA AnsweredCards ==
  ASSUME CardInv, NEW a \in Askers, NEW answer \in {"free", "allowed", "denied"},
         Answered(a, answer), UNCHANGED shell, status[a] = "idle",
         a \in Commands => shell[a] \notin {"off", "held"}
  PROVE  CardInv'
<1> USE DEF CardInv, TypeOK, Standing, Current, Waiting
<1>0. /\ status' = [status EXCEPT ![a] = answer] /\ asked' = [asked EXCEPT ![a] = run]
      /\ UNCHANGED <<card, run, alive, owner, session, seen, hosts, kept, said, shell>>
  BY DEF Answered, lists
<1>1. TypeOK'
  BY <1>0
<1>2. Standing'
  BY <1>0 DEF Askers
<1>3. Current'
  BY <1>0
<1>4. Carded'
  BY <1>0, StillCarded DEF Carded
<1> QED
  BY <1>1, <1>2, <1>3, <1>4

(* What a card's answer does to those who wait for it.                     *)
LEMMA FinishWaiters ==
  ASSUME CardInv, NEW a \in Askers, NEW what \in Waiting, NEW o \in Outcomes, Answers(a, what, o)
  PROVE  /\ \A b \in Askers : status'[b] =
               IF b \in WaitingFor(a) THEN IF o = "deny" THEN "denied" ELSE Granted(a) ELSE status[b]
         /\ status' \in [Askers -> {"idle", "free", "allowed", "denied", "gone"} \cup Waiting]
         /\ card' = [card EXCEPT ![a] = IF o # "deny" /\ Granted(a) = "rule" THEN "open" ELSE "none"]
         /\ Granted(a) \in {"allowed", "rule"}
         /\ Granted(a) = "rule" => a \in Actions /\ status[a] = "host" /\ RuleOf[a] \in Rules
         /\ a \notin Sockets => WaitingFor(a) = {a}
<1>1. card[a] # "none" /\ Finish(a, what, o)
  BY DEF Answers
<1>2. a \notin Sockets => WaitingFor(a) = {a}
  BY <1>1 DEF CardInv, Standing, WaitingFor
<1>3. /\ Granted(a) \in {"allowed", "rule"}
      /\ Granted(a) = "rule" => a \in Actions /\ status[a] = "host" /\ RuleStage(a) = "rule"
  BY DEF Granted
<1>4. RuleStage(a) = "rule" => RuleOf[a] \in Rules
  BY AskerAssumption DEF RuleStage, ClassifyAction
<1>5. /\ status' = [b \in Askers |-> IF b \in WaitingFor(a)
                                      THEN IF o = "deny" THEN "denied" ELSE Granted(a) ELSE status[b]]
      /\ card' = [card EXCEPT ![a] = IF o # "deny" /\ Granted(a) = "rule" THEN "open" ELSE "none"]
  BY <1>1, <1>3 DEF Finish
<1>6. status' \in [Askers -> {"idle", "free", "allowed", "denied", "gone"} \cup Waiting]
  BY <1>3, <1>5 DEF CardInv, TypeOK, Waiting
<1> QED
  BY <1>2, <1>3, <1>4, <1>5, <1>6

LEMMA FinishCards ==
  ASSUME CardInv, NEW a \in Askers, NEW what \in Waiting, NEW o \in Outcomes, Answers(a, what, o),
         UNCHANGED shell
  PROVE  CardInv'
<1> USE DEF CardInv, TypeOK, Standing, Current
<1>0. /\ card[a] # "none" /\ About(a) = what
      /\ UNCHANGED <<run, alive, owner, asked, shell>>
  BY DEF Answers, Finish
<1>1. TypeOK'
  <2>1. Grants(a, o) \subseteq (0 .. MaxRuns) \X Rules
    <3> SUFFICES ASSUME a \notin Sockets PROVE CardRule(a) \in Rules
      BY DEF Grants
    <3> QED
      BY <1>0, AskerAssumption DEF CardRule, About, Waiting
  <2>2. ClearsHost(a, o) => HostOf[a] \in Hosts
    BY <1>0, AskerAssumption DEF ClearsHost, About
  <2>3. session' \subseteq (0 .. MaxRuns) \X Rules
    BY <2>1 DEF Answers, Finish
  <2>4. seen' \subseteq Hosts /\ hosts' \subseteq Hosts /\ kept' \subseteq Hosts
    BY <2>2 DEF Answers, Finish, Lists
  <2>5. said' \subseteq Askers \X Waiting \X {"once", "session"}
    BY DEF Answers, Finish, Outcomes
  <2>6. card' \in [Askers -> {"none", "open", "expired"}]
    BY FinishWaiters
  <2> QED
    BY <1>0, <2>3, <2>4, <2>5, <2>6, FinishWaiters
<1>2. Standing'
  <2>1. ASSUME NEW b \in Askers
        PROVE  /\ status'[b] \in Waiting =>
                    \/ status'[b] = status[b]
                    \/ b = a /\ b \in Actions /\ RuleOf[b] \in Rules /\ status'[b] = "rule"
               /\ status[b] # "idle" => status'[b] # "idle"
               /\ status[b] = "idle" => status'[b] = "idle"
    <3>1. CASE b \notin WaitingFor(a)
      BY <3>1, FinishWaiters
    <3>2. CASE b \in WaitingFor(a)
      <4>1. status[b] # "idle" /\ status'[b] \in {"denied", "allowed", "rule"}
        BY <3>2, FinishWaiters, WaitersWait DEF Waiting
      <4>2. status'[b] = "rule" => b = a /\ b \in Actions /\ RuleOf[b] \in Rules
        BY <3>2, FinishWaiters, AskerAssumption
      <4> QED
        BY <4>1, <4>2 DEF Waiting
    <3> QED
      BY <3>1, <3>2
  <2>2. ASSUME NEW b \in Askers \ Sockets, card'[b] # "none"
        PROVE  status'[b] \in Waiting
    <3>1. CASE b = a
      BY <2>2, <3>1, FinishWaiters DEF Waiting
    <3>2. CASE b # a
      <4>1. card[b] # "none" /\ b \notin WaitingFor(a)
        BY <2>2, <3>2, FinishWaiters, WaitersWait
      <4> QED
        BY <2>2, <4>1, FinishWaiters
    <3> QED
      BY <3>1, <3>2
  <2>3. \A b \in Askers : card'[b] # "none" => card[b] # "none"
    BY <1>0, FinishWaiters
  <2> QED
    BY <1>0, <2>1, <2>2, <2>3, AskerAssumption DEF Waiting, Askers
<1>3. Current'
  BY <1>0, FinishWaiters
<1>4. Carded'
  <2> SUFFICES ASSUME NEW b \in Askers, status'[b] \in Waiting
               PROVE  \E x \in Askers : card'[x] # "none" /\ b \in WaitingFor(x)'
    BY DEF Carded
  <2>1. CASE b \in WaitingFor(a)
    <3>1. o # "deny" /\ Granted(a) = "rule" /\ status'[b] = "rule"
      BY <2>1, FinishWaiters DEF Waiting
    <3>2. b = a /\ a \notin Sockets /\ card'[a] = "open"
      BY <2>1, <3>1, FinishWaiters, AskerAssumption
    <3> QED
      BY <3>1, <3>2 DEF WaitingFor, Waiting
  <2>2. CASE b \notin WaitingFor(a)
    <3>1. status'[b] = status[b]
      BY <2>2, FinishWaiters
    <3>2. \A x \in Askers : card[x] # "none" /\ b \in WaitingFor(x) => card'[x] # "none"
      BY <2>2, FinishWaiters
    <3> QED
      BY <3>1, <3>2, StillCarded
  <2> QED
    BY <2>1, <2>2
<1> QED
  BY <1>1, <1>2, <1>3, <1>4

(* A run's cards are all the cards: closing them leaves nobody waiting.    *)
LEMMA DenyCards ==
  ASSUME CardInv, DenyPending, UNCHANGED <<run, shell>>, owner' \in {"human", "agent"}, alive' \in BOOLEAN
  PROVE  /\ CardInv'
         /\ \A b \in Askers : status'[b] = IF status[b] \in Waiting THEN "denied" ELSE status[b]
<1> USE DEF CardInv, TypeOK, Standing, Current
<1>1. PendingOfRun = {a \in Askers : card[a] # "none"}
  BY DEF PendingOfRun
<1>2. \A b \in Askers : (\E a \in PendingOfRun : b \in WaitingFor(a)) <=> status[b] \in Waiting
  BY <1>1, WaitersWait DEF Carded
<1>3. /\ status' = [b \in Askers |-> IF status[b] \in Waiting THEN "denied" ELSE status[b]]
      /\ card' = [a \in Askers |-> "none"]
      /\ UNCHANGED <<asked, session, seen, hosts, kept, said>>
  BY <1>1, <1>2 DEF DenyPending, lists
<1>4. TypeOK' /\ Current' /\ Carded'
  BY <1>3 DEF Carded, Waiting
<1>5. Standing'
  BY <1>3 DEF Askers, Waiting
<1> QED
  BY <1>3, <1>4, <1>5

LEMMA StepCards == CardInv /\ [Next]_vars => CardInv'
<1> SUFFICES ASSUME CardInv, [Next]_vars PROVE CardInv'
  OBVIOUS
<1> USE DEF CardInv, TypeOK, Standing, Current
<1>1. ASSUME NEW c \in Commands, GateCheck(c), UNCHANGED shell
      PROVE  CardInv'
  <2>1. c \in Askers /\ status[c] = "idle" /\ shell[c] \notin {"off", "held"}
    BY <1>1 DEF GateCheck, Askers
  <2>2. CASE \E answer \in {"free", "allowed", "denied"} : Answered(c, answer)
    BY <1>1, <2>1, <2>2, AnsweredCards
  <2>3. CASE alive /\ RuleOf[c] # NoRule /\ Ask(c, "rule")
    BY <1>1, <2>1, <2>3, AskCards, AskerAssumption DEF Waiting
  <2> QED
    BY <1>1, <2>2, <2>3 DEF GateCheck
<1>2. ASSUME NEW s \in Sockets, Connect(s), UNCHANGED shell
      PROVE  CardInv'
  <2>1. s \in Askers /\ status[s] = "idle" /\ HostOf[s] \in Hosts /\ s \notin Commands
    BY <1>2, AskerAssumption DEF Connect, Askers
  <2>2. CASE Answered(s, "allowed")
    BY <1>2, <2>1, <2>2, AnsweredCards
  <2>3. CASE alive /\ Ask(s, "host")
    BY <1>2, <2>1, <2>3, AskCards DEF Waiting
  <2>4. CASE /\ alive /\ InFlight(HostOf[s])
             /\ status' = [status EXCEPT ![s] = "host"] /\ asked' = [asked EXCEPT ![s] = run]
             /\ UNCHANGED <<run, alive, owner, card, lists>>
    <3>0. UNCHANGED <<session, seen, hosts, kept, said>>
      BY <2>4 DEF lists
    <3>1. TypeOK'
      BY <1>2, <2>1, <2>4, <3>0 DEF Waiting
    <3>2. Standing'
      BY <1>2, <2>1, <2>4, AskerAssumption DEF Waiting, Askers
    <3>3. Current'
      BY <2>1, <2>4
    <3>4. ASSUME NEW b \in Askers, status'[b] \in Waiting
          PROVE  \E x \in Askers : card'[x] # "none" /\ b \in WaitingFor(x)'
      <4>1. CASE b = s
        <5>1. PICK x \in Sockets : HostOf[x] = HostOf[s] /\ card[x] # "none"
          BY <2>4 DEF InFlight, CardOfHost
        <5>2. x \in Askers /\ card'[x] # "none" /\ s \in WaitingFor(x)'
          BY <1>2, <2>1, <2>4, <5>1 DEF WaitingFor, Askers
        <5> QED
          BY <4>1, <5>2
      <4>2. CASE b # s
        BY <2>4, <3>4, <4>2, StillCarded
      <4> QED
        BY <4>1, <4>2
    <3>5. Carded'
      BY <3>4 DEF Carded
    <3> QED
      BY <3>1, <3>2, <3>3, <3>5
  <2> QED
    BY <1>2, <2>2, <2>3, <2>4 DEF Connect, CurrentRun
<1>3. ASSUME NEW a \in Actions, Authorize(a), UNCHANGED shell
      PROVE  CardInv'
  <2>1. a \in Askers /\ a \notin Commands /\ a \notin Sockets /\ status[a] = "idle" /\ alive
    BY <1>3, AskerAssumption DEF Authorize, Askers
  <2>2. ~KnownHost(a) => HostOf[a] \in Hosts
    BY <2>1, AskerAssumption DEF KnownHost
  <2>3. CASE ~KnownHost(a) /\ Ask(a, "host")
    BY <1>3, <2>1, <2>2, <2>3, AskCards DEF Waiting
  <2>4. CASE /\ status' = [status EXCEPT ![a] = RuleStage(a)]
             /\ card' = IF RuleStage(a) = "rule" THEN [card EXCEPT ![a] = "open"] ELSE card
             /\ asked' = [asked EXCEPT ![a] = run]
             /\ IF KnownHost(a) THEN UNCHANGED <<seen, hosts>>
                ELSE seen' = seen \cup {HostOf[a]} /\ hosts' = hosts \cup {HostOf[a]}
             /\ UNCHANGED <<run, alive, owner, session, kept, said>>
    <3>1. /\ RuleStage(a) \in {"allowed", "rule"}
          /\ RuleStage(a) = "rule" => RuleOf[a] \in Rules
      BY <2>1, AskerAssumption DEF RuleStage, ClassifyAction
    <3>2. TypeOK'
      <4>1. seen' \subseteq Hosts /\ hosts' \subseteq Hosts
        BY <2>2, <2>4
      <4>2. /\ status' \in [Askers -> {"idle", "free", "allowed", "denied", "gone"} \cup Waiting]
            /\ card' \in [Askers -> {"none", "open", "expired"}]
            /\ asked' \in [Askers -> 0 .. MaxRuns]
        BY <2>4, <3>1 DEF Waiting
      <4> QED
        BY <1>3, <2>4, <4>1, <4>2
    <3>3. Standing'
      BY <1>3, <2>1, <2>4, <3>1, AskerAssumption DEF Waiting, Askers
    <3>4. Current'
      BY <2>1, <2>4
    <3>5. ASSUME NEW b \in Askers, status'[b] \in Waiting
          PROVE  \E x \in Askers : card'[x] # "none" /\ b \in WaitingFor(x)'
      <4>1. CASE b = a
        <5>1. RuleStage(a) = "rule" /\ card'[a] = "open"
          BY <2>1, <2>4, <3>1, <3>5, <4>1 DEF Waiting
        <5>2. a \in WaitingFor(a)'
          BY <2>1, <3>5, <4>1 DEF WaitingFor
        <5> QED
          BY <4>1, <5>1, <5>2
      <4>2. CASE b # a
        <5>1. status[b] \in Waiting /\ status'[b] = status[b]
          BY <2>4, <3>5, <4>2
        <5>2. \A x \in Askers : card[x] # "none" => card'[x] # "none"
          BY <2>4
        <5> QED
          BY <5>1, <5>2, StillCarded
      <4> QED
        BY <4>1, <4>2
    <3>6. Carded'
      BY <3>5 DEF Carded
    <3> QED
      BY <3>2, <3>3, <3>4, <3>6
  <2> QED
    BY <1>3, <2>3, <2>4 DEF Authorize
<1>4. ASSUME NEW a \in Askers, NEW what \in Waiting, NEW o \in Outcomes, Answers(a, what, o), UNCHANGED shell
      PROVE  CardInv'
  BY <1>4, FinishCards
<1>5. ASSUME NEW a \in Askers, Expire(a), UNCHANGED shell
      PROVE  CardInv'
  <2>1. /\ card[a] = "open" /\ card' = [card EXCEPT ![a] = "expired"]
        /\ UNCHANGED <<run, alive, owner, status, asked, session, seen, hosts, kept, said>>
    BY <1>5 DEF Expire, lists
  <2>2. TypeOK' /\ Standing' /\ Current'
    BY <1>5, <2>1
  <2>3. Carded'
    <3> SUFFICES ASSUME NEW b \in Askers, status'[b] \in Waiting
                 PROVE  \E x \in Askers : card'[x] # "none" /\ b \in WaitingFor(x)'
      BY DEF Carded
    <3> QED
      BY <2>1, StillCarded
  <2> QED
    BY <2>2, <2>3
<1>6. CASE StartRun /\ UNCHANGED shell
  BY <1>6, AskerAssumption DEF StartRun, Carded, WaitingFor
<1>7. CASE (Interrupt \/ EndRun) /\ UNCHANGED shell
  <2>1. DenyPending /\ UNCHANGED run /\ owner' \in {"human", "agent"} /\ alive' \in BOOLEAN
    BY <1>7 DEF Interrupt, EndRun
  <2> QED
    BY <1>7, <2>1, DenyCards
<1>8. ASSUME NEW who \in {"human", "agent"}, TakeLease(who), UNCHANGED shell
      PROVE  CardInv'
  BY <1>8 DEF TakeLease, lists, Carded, WaitingFor
<1>9. ASSUME NEW a \in Askers, status' = [status EXCEPT ![a] = "gone"], Daemon,
             shell' \in [Commands -> {"off", "held", "asks", "ran", "refused"}],
             a \in Sockets \/ card[a] = "none",
             \A c \in Commands : shell'[c] \in {"off", "held"} => c # a /\ shell[c] = shell'[c]
      PROVE  CardInv'
  <2>0. UNCHANGED <<run, alive, owner, card, asked, session, seen, hosts, kept, said>>
    BY <1>9 DEF Daemon, lists
  <2>1. TypeOK' /\ Current'
    BY <1>9, <2>0
  <2>2. Standing'
    BY <1>9, <2>0 DEF Waiting, Askers
  <2>3. Carded'
    <3> SUFFICES ASSUME NEW b \in Askers, status'[b] \in Waiting
                 PROVE  \E x \in Askers : card'[x] # "none" /\ b \in WaitingFor(x)'
      BY DEF Carded
    <3> QED
      BY <1>9, <2>0, StillCarded DEF Waiting
  <2> QED
    BY <2>1, <2>2, <2>3
<1>10. ASSUME NEW c \in Commands, NEW to \in {"held", "asks", "ran", "refused"}, Moves(c, to), UNCHANGED status, Daemon,
              to = "held" => shell[c] = "off"
       PROVE  CardInv'
  <2>1. /\ shell' = [shell EXCEPT ![c] = to]
        /\ UNCHANGED <<run, alive, owner, status, card, asked, session, seen, hosts, kept, said>>
    BY <1>10 DEF Moves, Daemon, lists
  <2>2. TypeOK' /\ Standing' /\ Current'
    BY <1>10, <2>1
  <2>3. Carded'
    BY <2>1 DEF Carded, WaitingFor
  <2> QED
    BY <2>2, <2>3
<1>11. CASE UNCHANGED vars
  BY <1>11 DEF vars, lists, Carded, WaitingFor
<1>12. CASE Gated /\ UNCHANGED shell
  <2>1. ASSUME NEW s \in Sockets, HangUp(s) PROVE CardInv'
    <3>1. s \in Askers /\ status' = [status EXCEPT ![s] = "gone"] /\ Daemon
      BY <2>1 DEF HangUp, Askers, Daemon
    <3>2. /\ shell' \in [Commands -> {"off", "held", "asks", "ran", "refused"}]
          /\ \A c \in Commands : shell'[c] = shell[c] /\ c # s
      BY <1>12, AskerAssumption
    <3> QED
      BY <1>9, <3>1, <3>2
  <2>2. ASSUME NEW a \in Askers, NEW reply \in Outcomes,
               Click(a, reply) \/ OnReply(a, reply) \/ TimerFires(a)
        PROVE  CardInv'
    BY <1>4, <1>12, <2>2, Answering
  <2>3. "deny" \in Outcomes
    BY DEF Outcomes
  <2> QED
    BY <1>1, <1>2, <1>3, <1>5, <1>6, <1>7, <1>8, <1>12, <2>1, <2>2, <2>3 DEF Gated, Asking, Timing
<1>13. ASSUME NEW c \in Commands, Trap(c) \/ ForwardGate(c) \/ NoHandler(c) \/ GateFails(c) \/ Replies(c)
       PROVE  CardInv'
  <2>1. c \in Askers /\ Daemon
    BY <1>13 DEF Askers, Trap, ForwardGate, NoHandler, GateFails, Replies
  <2>2. CASE status[c] = "idle" /\ Unasked(c)
    <3>1. status' = [status EXCEPT ![c] = "gone"] /\ shell' = [shell EXCEPT ![c] = "refused"]
      BY <2>2 DEF Unasked, Moves
    <3>2. card[c] = "none"
      BY <2>1, <2>2
    <3>3. /\ shell' \in [Commands -> {"off", "held", "asks", "ran", "refused"}]
          /\ \A d \in Commands : shell'[d] \in {"off", "held"} => d # c /\ shell[d] = shell'[d]
      BY <3>1
    <3> QED
      BY <1>9, <2>1, <3>1, <3>2, <3>3
  <2>3. ASSUME NEW to \in {"held", "asks", "ran", "refused"}, Moves(c, to), UNCHANGED status,
               to = "held" => shell[c] = "off"
        PROVE  CardInv'
    BY <1>10, <2>1, <2>3
  <2>4. CASE Trap(c)
    <3>1. status[c] = "idle" /\ shell[c] = "off"
      BY <2>4 DEF Trap
    <3> QED
      BY <2>2, <2>3, <2>4, <3>1 DEF Trap
  <2>5. CASE ForwardGate(c)
    <3>1. status[c] = "idle"
      BY <2>5 DEF ForwardGate
    <3> QED
      BY <2>2, <2>3, <2>5, <3>1 DEF ForwardGate
  <2>6. CASE NoHandler(c)
    BY <2>2, <2>6 DEF NoHandler
  <2>7. CASE GateFails(c)
    BY <2>3, <2>7 DEF GateFails
  <2>8. CASE Replies(c)
    <3>1. Obeys(c) \in {"ran", "refused"}
      BY DEF Obeys
    <3> QED
      BY <2>3, <2>8, <3>1 DEF Replies
  <2> QED
    BY <1>13, <2>4, <2>5, <2>6, <2>7, <2>8
<1> QED
  BY <1>11, <1>12, <1>13 DEF Next

(* The structure of the cards is an invariant: TypeOK among the rest.      *)
LEMMA CardsHold == Spec => []CardInv
  BY InitCards, StepCards, PTL DEF Spec

(* A run that ended cannot use an answer any more: no card outlives its    *)
(* run, and whoever waits, waits for a card that is open                   *)
(* (approvals.ts:69).                                                      *)
THEOREM CardsOfTheRun == Spec => []CardsHaveUse
<1>1. CardInv => CardsHaveUse
  BY DEF CardInv, CardsHaveUse, Current, Carded
<1> QED
  BY <1>1, CardsHold, PTL

(* A late answer opens nothing: what an expired card can still be answered *)
(* is "deny", whatever the human said (approvals.ts:61).                   *)
THEOREM ExpiredIsDenied == Spec => LateAnswersDeny
<1> DEFINE Late == \A a \in Askers : card[a] = "expired" /\ card'[a] # "expired" =>
                     /\ UNCHANGED <<hosts, kept, session>>
                     /\ \A b \in WaitingFor(a) : status'[b] = "denied"
<1>1. CardInv /\ [Next]_vars => Late
  <2> SUFFICES ASSUME CardInv, [Next]_vars,
                      NEW x \in Askers, card[x] = "expired", card'[x] # "expired"
               PROVE  /\ UNCHANGED <<hosts, kept, session>>
                      /\ \A b \in WaitingFor(x) : status'[b] = "denied"
    OBVIOUS
  <2>1. status[x] # "idle"
    BY DEF CardInv, Standing
  <2>2. ASSUME NEW a \in Askers, NEW what \in Waiting, NEW o \in Outcomes, Answers(a, what, o)
        PROVE  /\ UNCHANGED <<hosts, kept, session>>
               /\ \A b \in WaitingFor(x) : status'[b] = "denied"
    <3>1. x = a
      BY <2>2, FinishWaiters DEF CardInv, TypeOK
    <3>2. o = "deny"
      BY <2>2, <3>1 DEF Answers
    <3>3. UNCHANGED <<hosts, kept, session>>
      <4>1. ClearsHost(a, o) = FALSE /\ Grants(a, o) = {}
        BY <3>2 DEF ClearsHost, Grants
      <4>2. /\ session' = session \cup Grants(a, o)
            /\ Lists(IF ClearsHost(a, o) THEN {HostOf[a]} ELSE {}, o)
        BY <2>2 DEF Answers, Finish
      <4> QED
        BY <4>1, <4>2 DEF Lists
    <3>4. \A b \in WaitingFor(x) : status'[b] = "denied"
      BY <2>2, <3>1, <3>2, FinishWaiters, WaitersWait
    <3> QED
      BY <3>3, <3>4
  <2>3. CASE (Interrupt \/ EndRun) /\ UNCHANGED shell
    <3>1. DenyPending /\ UNCHANGED run /\ owner' \in {"human", "agent"} /\ alive' \in BOOLEAN
      BY <2>3 DEF Interrupt, EndRun, CardInv, TypeOK
    <3>2. UNCHANGED <<hosts, kept, session>>
      BY <3>1 DEF DenyPending, lists
    <3>3. \A b \in WaitingFor(x) : status'[b] = "denied"
      BY <2>3, <3>1, DenyCards, WaitersWait
    <3> QED
      BY <3>2, <3>3
  <2>4. ASSUME NEW c \in Commands, GateCheck(c)
        PROVE  FALSE
    BY <2>1, <2>4 DEF GateCheck, Answered, Ask, CardInv, TypeOK
  <2>5. ASSUME NEW s \in Sockets, Connect(s)
        PROVE  FALSE
    BY <2>1, <2>5 DEF Connect, Answered, Ask, CardInv, TypeOK
  <2>6. ASSUME NEW a \in Actions, Authorize(a)
        PROVE  FALSE
    BY <2>1, <2>6 DEF Authorize, Ask, CardInv, TypeOK
  <2>7. ASSUME NEW a \in Askers, Expire(a)
        PROVE  FALSE
    BY <2>7 DEF Expire, CardInv, TypeOK
  <2>8. ~UNCHANGED card
    OBVIOUS
  <2>9. ASSUME NEW a \in Askers, NEW reply \in Outcomes,
               Click(a, reply) \/ OnReply(a, reply) \/ TimerFires(a)
        PROVE  /\ UNCHANGED <<hosts, kept, session>>
               /\ \A b \in WaitingFor(x) : status'[b] = "denied"
    BY <2>2, <2>9, Answering
  <2>10. "deny" \in Outcomes
    BY DEF Outcomes
  <2>11. CASE Gated /\ UNCHANGED shell
    <3>1. ASSUME NEW s \in Sockets, HangUp(s) PROVE FALSE
      BY <2>8, <3>1 DEF HangUp
    <3>2. ASSUME NEW who, TakeLease(who) PROVE FALSE
      BY <2>8, <3>2 DEF TakeLease
    <3>3. CASE StartRun
      BY <2>8, <3>3 DEF StartRun
    <3> QED
      BY <2>3, <2>4, <2>5, <2>6, <2>7, <2>9, <2>10, <2>11, <3>1, <3>2, <3>3 DEF Gated, Asking, Timing
  <2>12. ASSUME NEW c \in Commands, Trap(c) \/ ForwardGate(c) \/ NoHandler(c) \/ GateFails(c) \/ Replies(c)
         PROVE  FALSE
    BY <2>8, <2>12 DEF Trap, ForwardGate, NoHandler, GateFails, Replies, Daemon
  <2>13. CASE UNCHANGED vars
    BY <2>8, <2>13 DEF vars
  <2> QED
    BY <2>11, <2>12, <2>13 DEF Next
<1>2. CardInv /\ [Next]_vars => [Late]_vars
  BY <1>1
<1>3. Spec => [][Late]_vars
  BY <1>2, CardsHold, PTL DEF Spec
<1> QED
  BY <1>3 DEF LateAnswersDeny
-----------------------------------------------------------------------------
(* Words: what is granted goes back to an answer of the human.             *)

(* A session grant: a card of the same run was answered with "session".    *)
Vouched(r, rule) ==
  /\ rule \notin NoSession
  /\ \E b \in Askers :
       /\ asked[b] = r
       /\ IF rule = DomainRule THEN b \in Actions /\ <<b, "host", "session">> \in said
          ELSE RuleOf[b] = rule /\ <<b, "rule", "session">> \in said

(* What an asker does is allowed: by its own card, or by a session grant.  *)
Worded(a) ==
  \/ \E reply \in {"once", "session"} : <<a, "rule", reply>> \in said
  \/ GrantedBy(a, RuleOf[a], "rule")

Cleared(h) ==
  \E a \in Askers :
    /\ HostOf[a] = h
    /\ \/ \E reply \in {"once", "session"} : <<a, "host", reply>> \in said
       \/ a \in Actions /\ status[a] # "idle" /\ GrantedBy(a, DomainRule, "host")

Stored(h) == \E a \in Askers : HostOf[a] = h /\ <<a, "host", "session">> \in said

(* An answer was given to an asker that had asked; so a change of asked,   *)
(* which an idle asker makes, takes no answer from its run.                *)
SaidStands == \A x \in said : status[x[1]] # "idle"

Words ==
  /\ SaidStands
  /\ \A x \in session : Vouched(x[1], x[2])
  /\ \A h \in hosts : Cleared(h)
  /\ \A h \in kept : Stored(h)
  /\ \A b \in Commands \cup Actions : status[b] = "allowed" /\ RuleOf[b] # NoRule => Worded(b)

(* An asker asks once, and no answer is forgotten.                         *)
Lasts ==
  /\ \A b \in Askers : status[b] # "idle" => status'[b] # "idle" /\ asked'[b] = asked[b]
  /\ said \subseteq said'

(* A grant of the run an asker asked under lasts.                          *)
LEMMA GrantLasts ==
  ASSUME TypeOK, SaidStands, Lasts, NEW a \in Askers, status[a] # "idle", NEW rule, NEW what,
         GrantedBy(a, rule, what)
  PROVE  GrantedBy(a, rule, what)'
<1>1. PICK b \in Askers : /\ asked[b] = asked[a] /\ <<b, what, "session">> \in said
                          /\ IF what = "rule" THEN RuleOf[b] = rule /\ rule \notin NoSession ELSE b \in Actions
  BY DEF GrantedBy
<1>2. status[b] # "idle"
  BY <1>1 DEF SaidStands
<1>3. asked'[b] = asked'[a] /\ <<b, what, "session">> \in said'
  BY <1>1, <1>2 DEF Lasts
<1> QED
  BY <1>1, <1>3 DEF GrantedBy

(* Words is kept by a step that forgets nothing and vouches for what it    *)
(* adds.                                                                   *)
LEMMA WordsLast ==
  ASSUME TypeOK, Words, Lasts,
         \A x \in said' : x \in said \/ (x[1] \in Askers /\ status'[x[1]] # "idle"),
         \A x \in session' : x \in session \/ Vouched(x[1], x[2])',
         \A h \in hosts' : h \in hosts \/ Cleared(h)',
         \A h \in kept' : h \in kept \/ Stored(h)',
         \A b \in Commands \cup Actions :
           status'[b] = "allowed" /\ RuleOf[b] # NoRule => status[b] = "allowed" \/ Worded(b)'
  PROVE  Words'
<1>1. SaidStands'
  BY DEF Words, SaidStands, Lasts, TypeOK
<1>2. ASSUME NEW x \in session, Vouched(x[1], x[2]) PROVE Vouched(x[1], x[2])'
  <2>1. PICK b \in Askers :
          /\ asked[b] = x[1]
          /\ IF x[2] = DomainRule THEN b \in Actions /\ <<b, "host", "session">> \in said
             ELSE RuleOf[b] = x[2] /\ <<b, "rule", "session">> \in said
    BY <1>2 DEF Vouched
  <2>2. status[b] # "idle"
    BY <2>1 DEF Words, SaidStands
  <2>3. asked'[b] = x[1] /\ said \subseteq said'
    BY <2>1, <2>2 DEF Lasts
  <2> QED
    BY <1>2, <2>1, <2>3 DEF Vouched
<1>3. ASSUME NEW h, Cleared(h) PROVE Cleared(h)'
  <2>1. PICK a \in Askers :
          /\ HostOf[a] = h
          /\ \/ \E reply \in {"once", "session"} : <<a, "host", reply>> \in said
             \/ a \in Actions /\ status[a] # "idle" /\ GrantedBy(a, DomainRule, "host")
    BY <1>3 DEF Cleared
  <2>2. CASE \E reply \in {"once", "session"} : <<a, "host", reply>> \in said
    BY <2>1, <2>2 DEF Cleared, Lasts
  <2>3. CASE a \in Actions /\ status[a] # "idle" /\ GrantedBy(a, DomainRule, "host")
    <3>1. GrantedBy(a, DomainRule, "host")' /\ status'[a] # "idle"
      BY <2>3, GrantLasts DEF Words, Lasts
    <3> QED
      BY <2>1, <2>3, <3>1 DEF Cleared
  <2> QED
    BY <2>1, <2>2, <2>3
<1>4. ASSUME NEW h, Stored(h) PROVE Stored(h)'
  BY <1>4 DEF Stored, Lasts
<1>5. ASSUME NEW b \in Commands \cup Actions, status[b] = "allowed", Worded(b) PROVE Worded(b)'
  <2>1. b \in Askers /\ status[b] # "idle"
    BY <1>5 DEF Askers
  <2>2. CASE \E reply \in {"once", "session"} : <<b, "rule", reply>> \in said
    BY <2>2 DEF Worded, Lasts
  <2>3. CASE GrantedBy(b, RuleOf[b], "rule")
    BY <2>1, <2>3, GrantLasts DEF Words, Worded
  <2> QED
    BY <1>5, <2>2, <2>3 DEF Worded
<1> QED
  BY <1>1, <1>2, <1>3, <1>4, <1>5 DEF Words

(* A session grant of the run is a grant to who asks under it.             *)
LEMMA GrantCounts ==
  ASSUME TypeOK, Words, Lasts, NEW a \in Askers, asked'[a] = run, NEW rule, SessionAllowed(rule)
  PROVE  /\ rule = DomainRule => GrantedBy(a, rule, "host")'
         /\ rule # DomainRule => GrantedBy(a, rule, "rule")'
<1>1. Vouched(run, rule)
  BY DEF SessionAllowed, Words
<1>2. PICK b \in Askers :
        /\ asked[b] = run
        /\ IF rule = DomainRule THEN b \in Actions /\ <<b, "host", "session">> \in said
           ELSE RuleOf[b] = rule /\ <<b, "rule", "session">> \in said
  BY <1>1 DEF Vouched
<1>3. status[b] # "idle"
  BY <1>2 DEF Words, SaidStands
<1>4. asked'[b] = asked'[a] /\ said \subseteq said'
  BY <1>2, <1>3 DEF Lasts
<1> QED
  BY <1>1, <1>2, <1>4 DEF Vouched, GrantedBy

(* A step that grants nothing and allows nobody.                           *)
Quiet ==
  /\ UNCHANGED <<session, hosts, kept, said>>
  /\ \A b \in Commands \cup Actions : status'[b] = "allowed" => status[b] = "allowed"

LEMMA QuietWords == ASSUME TypeOK, Words, Lasts, Quiet PROVE Words'
BY WordsLast DEF Quiet, TypeOK

LEMMA AnswerWords ==
  ASSUME CardInv, Words, NEW a \in Askers, NEW what \in Waiting, NEW o \in Outcomes, Answers(a, what, o)
  PROVE  Lasts /\ Words'
<1>1. /\ card[a] # "none" /\ About(a) = what /\ status[a] # "idle" /\ alive /\ asked[a] = run
      /\ UNCHANGED <<run, alive, owner, asked>>
      /\ session' = session \cup Grants(a, o)
      /\ Lists(IF ClearsHost(a, o) THEN {HostOf[a]} ELSE {}, o)
      /\ said' = IF o = "deny" THEN said ELSE said \cup {<<a, what, o>>}
  BY DEF Answers, Finish, CardInv, Standing, Current
<1>2. TypeOK
  BY DEF CardInv
<1>3. \A b \in Askers : status[b] # "idle" => status'[b] # "idle"
  BY FinishWaiters
<1>4. Lasts
  BY <1>1, <1>3 DEF Lasts
<1>5. ASSUME NEW x \in said' PROVE x \in said \/ (x[1] \in Askers /\ status'[x[1]] # "idle")
  BY <1>1, <1>3
<1>6. ASSUME NEW x \in session', x \notin session PROVE Vouched(x[1], x[2])'
  <2>1. /\ a \notin Sockets /\ o = "session" /\ CardRule(a) \notin NoSession
        /\ x[1] = asked'[a] /\ x[2] = CardRule(a)
    BY <1>1, <1>6 DEF Grants
  <2>2. <<a, what, "session">> \in said'
    BY <1>1, <2>1
  <2>3. CASE what = "host"
    <3>1. CardRule(a) = DomainRule /\ status[a] = "host" /\ HostOf[a] \in Hosts
      BY <1>1, <2>1, <2>3 DEF CardRule, About, CardInv, Standing
    <3>2. a \in Actions
      BY <2>1, <3>1, AskerAssumption DEF Askers
    <3> QED
      BY <2>1, <2>2, <2>3, <3>1, <3>2 DEF Vouched
  <2>4. CASE what # "host"
    <3>1. CardRule(a) = RuleOf[a] /\ what = "rule"
      BY <1>1, <2>4 DEF CardRule, Waiting
    <3>2. RuleOf[a] # DomainRule
      BY <2>1, AskerAssumption DEF Askers
    <3> QED
      BY <2>1, <2>2, <3>1, <3>2 DEF Vouched
  <2> QED
    BY <2>3, <2>4
<1>7. ClearsHost(a, o) => what = "host" /\ o \in {"once", "session"} /\ <<a, "host", o>> \in said'
  BY <1>1 DEF ClearsHost, Outcomes
<1>8. ASSUME NEW h \in hosts', h \notin hosts PROVE Cleared(h)'
  BY <1>1, <1>7, <1>8 DEF Lists, Cleared
<1>9. ASSUME NEW h \in kept', h \notin kept PROVE Stored(h)'
  BY <1>1, <1>7, <1>9 DEF Lists, Stored
<1>10. ASSUME NEW b \in Commands \cup Actions, status'[b] = "allowed", RuleOf[b] # NoRule, status[b] # "allowed"
       PROVE  Worded(b)'
  <2>1. b \in Askers /\ b \in WaitingFor(a) /\ o # "deny" /\ Granted(a) = "allowed"
    BY <1>10, FinishWaiters DEF Askers
  <2>2. b = a
    BY <1>10, <2>1, WaitersWait, AskerAssumption
  <2>3. o \in {"once", "session"} /\ <<a, what, o>> \in said'
    BY <1>1, <2>1 DEF Outcomes
  <2>4. CASE what = "rule"
    BY <2>2, <2>3, <2>4 DEF Worded
  <2>5. CASE what # "rule"
    <3>1. a \notin Sockets /\ status[a] = "host"
      BY <1>1, <1>10, <2>2, <2>5, AskerAssumption DEF About, Waiting
    <3>2. a \in Actions
      BY <2>1, <2>2, <3>1, AskerAssumption DEF CardInv, Standing, Askers
    <3>3. SessionAllowed(RuleOf[a]) /\ RuleOf[a] # DomainRule
      BY <1>10, <2>1, <2>2, <3>1, <3>2, AskerAssumption DEF Granted, RuleStage, ClassifyAction
    <3>4. GrantedBy(a, RuleOf[a], "rule")'
      BY <1>1, <1>2, <1>4, <3>3, GrantCounts
    <3> QED
      BY <2>2, <3>4 DEF Worded
  <2> QED
    BY <2>4, <2>5
<1>11. Words'
  BY <1>2, <1>4, <1>5, <1>6, <1>8, <1>9, <1>10, WordsLast
<1> QED
  BY <1>4, <1>11

LEMMA StepWords == CardInv /\ Words /\ [Next]_vars => Words'
<1> SUFFICES ASSUME CardInv, Words, [Next]_vars PROVE Words'
  OBVIOUS
<1>0. TypeOK
  BY DEF CardInv
<1>1. ASSUME NEW c \in Commands, GateCheck(c)
      PROVE  Words'
  <2>1. c \in Askers /\ status[c] = "idle"
    BY <1>1 DEF GateCheck, Askers
  <2>2. ASSUME NEW answer \in {"free", "denied"}, Answered(c, answer)
        PROVE  Words'
    <3>1. Lasts /\ Quiet
      BY <1>0, <2>1, <2>2 DEF Answered, lists, Lasts, Quiet, TypeOK, Askers
    <3> QED
      BY <1>0, <3>1, QuietWords
  <2>3. CASE Ask(c, "rule")
    <3>1. Lasts /\ Quiet
      BY <1>0, <2>1, <2>3 DEF Ask, lists, Lasts, Quiet, TypeOK, Askers
    <3> QED
      BY <1>0, <3>1, QuietWords
  <2>4. CASE RuleOf[c] # NoRule /\ GateGranted(c) /\ Answered(c, "allowed")
    <3>1. /\ status' = [status EXCEPT ![c] = "allowed"] /\ asked' = [asked EXCEPT ![c] = run]
          /\ UNCHANGED <<session, hosts, kept, said>>
      BY <2>4 DEF Answered, lists
    <3>2. Lasts
      BY <1>0, <2>1, <3>1 DEF Lasts, TypeOK
    <3>3. GrantedBy(c, RuleOf[c], "rule")'
      BY <1>0, <2>1, <2>4, <3>1, <3>2, GrantCounts, AskerAssumption DEF GateGranted, TypeOK
    <3>4. \A b \in Commands \cup Actions :
            status'[b] = "allowed" /\ RuleOf[b] # NoRule => status[b] = "allowed" \/ Worded(b)'
      BY <1>0, <3>1, <3>3 DEF Worded, TypeOK, Askers
    <3> QED
      BY <1>0, <3>1, <3>2, <3>4, WordsLast
  <2> QED
    BY <1>1, <2>2, <2>3, <2>4 DEF GateCheck
<1>2. ASSUME NEW s \in Sockets, Connect(s)
      PROVE  Words'
  <2>1. s \in Askers /\ status[s] = "idle" /\ s \notin Commands /\ s \notin Actions
    BY <1>2, AskerAssumption DEF Connect, Askers
  <2>2. PICK to : /\ status' = [status EXCEPT ![s] = to] /\ asked' = [asked EXCEPT ![s] = run] /\ to # "idle"
                  /\ UNCHANGED lists
    BY <1>2 DEF Connect, Answered, Ask
  <2>3. Lasts /\ Quiet
    BY <1>0, <2>1, <2>2 DEF lists, Lasts, Quiet, TypeOK
  <2> QED
    BY <1>0, <2>3, QuietWords
<1>3. ASSUME NEW a \in Actions, Authorize(a)
      PROVE  Words'
  <2>1. a \in Askers /\ status[a] = "idle" /\ RuleOf[a] # DomainRule
    BY <1>3, AskerAssumption DEF Authorize, Askers
  <2>2. CASE Ask(a, "host")
    <3>1. Lasts /\ Quiet
      BY <1>0, <2>1, <2>2 DEF Ask, lists, Lasts, Quiet, TypeOK, Askers
    <3> QED
      BY <1>0, <3>1, QuietWords
  <2>3. CASE /\ KnownHost(a) \/ SessionAllowed(DomainRule)
             /\ status' = [status EXCEPT ![a] = RuleStage(a)]
             /\ asked' = [asked EXCEPT ![a] = run]
             /\ IF KnownHost(a) THEN UNCHANGED <<seen, hosts>>
                ELSE seen' = seen \cup {HostOf[a]} /\ hosts' = hosts \cup {HostOf[a]}
             /\ UNCHANGED <<run, alive, owner, session, kept, said>>
    <3>1. RuleStage(a) \in {"allowed", "rule"}
      BY DEF RuleStage
    <3>2. Lasts /\ asked'[a] = run /\ status'[a] # "idle"
      BY <1>0, <2>1, <2>3, <3>1 DEF Lasts, TypeOK
    <3>3. ASSUME NEW h \in hosts', h \notin hosts PROVE Cleared(h)'
      <4>1. h = HostOf[a] /\ SessionAllowed(DomainRule)
        BY <2>3, <3>3
      <4>2. GrantedBy(a, DomainRule, "host")'
        BY <1>0, <2>1, <3>2, <4>1, GrantCounts
      <4> QED
        BY <2>1, <3>2, <4>1, <4>2 DEF Cleared
    <3>4. ASSUME NEW b \in Commands \cup Actions, status'[b] = "allowed", RuleOf[b] # NoRule, status[b] # "allowed"
          PROVE  Worded(b)'
      <4>1. b = a /\ RuleStage(a) = "allowed"
        BY <1>0, <2>3, <3>4 DEF TypeOK, Askers
      <4>2. SessionAllowed(RuleOf[a])
        BY <3>4, <4>1 DEF RuleStage, ClassifyAction
      <4>3. GrantedBy(a, RuleOf[a], "rule")'
        BY <1>0, <2>1, <3>2, <4>2, GrantCounts
      <4> QED
        BY <4>1, <4>3 DEF Worded
    <3> QED
      BY <1>0, <2>3, <3>2, <3>3, <3>4, WordsLast
  <2> QED
    BY <1>3, <2>2, <2>3 DEF Authorize
<1>4. ASSUME NEW a \in Askers, NEW reply \in Outcomes,
             Click(a, reply) \/ OnReply(a, reply) \/ TimerFires(a)
      PROVE  Words'
  BY <1>4, Answering, AnswerWords
<1>5. CASE (Interrupt \/ EndRun) /\ UNCHANGED shell
  <2>1. DenyPending /\ UNCHANGED run /\ owner' \in {"human", "agent"} /\ alive' \in BOOLEAN
    BY <1>0, <1>5 DEF Interrupt, EndRun, TypeOK
  <2>2. UNCHANGED <<asked, session, hosts, kept, said>>
    BY <2>1 DEF DenyPending, lists
  <2>3. \A b \in Askers : status'[b] = IF status[b] \in Waiting THEN "denied" ELSE status[b]
    BY <1>5, <2>1, DenyCards
  <2>4. Lasts /\ Quiet
    BY <2>2, <2>3 DEF Lasts, Quiet, Askers
  <2> QED
    BY <1>0, <2>4, QuietWords
<1>6. ASSUME UNCHANGED <<asked, session, hosts, kept, said>>, UNCHANGED status
      PROVE  Words'
  <2>1. Lasts /\ Quiet
    BY <1>0, <1>6 DEF Lasts, Quiet, TypeOK, Askers
  <2> QED
    BY <1>0, <2>1, QuietWords
<1>7. ASSUME UNCHANGED <<asked, session, hosts, kept, said>>,
             NEW a \in Askers, status' = [status EXCEPT ![a] = "gone"]
      PROVE  Words'
  <2>1. Lasts /\ Quiet
    BY <1>0, <1>7 DEF Lasts, Quiet, TypeOK, Askers
  <2> QED
    BY <1>0, <2>1, QuietWords
<1>8. CASE Gated /\ UNCHANGED shell
  <2>1. ASSUME NEW s \in Sockets, HangUp(s) PROVE Words'
    BY <1>7, <2>1 DEF HangUp, lists, Askers
  <2>2. ASSUME NEW who, TakeLease(who) PROVE Words'
    BY <1>6, <2>2 DEF TakeLease, lists
  <2>3. CASE StartRun
    BY <1>6, <2>3 DEF StartRun
  <2>4. ASSUME NEW a \in Askers, Expire(a) PROVE Words'
    BY <1>6, <2>4 DEF Expire, lists
  <2>5. "deny" \in Outcomes
    BY DEF Outcomes
  <2> QED
    BY <1>1, <1>2, <1>3, <1>4, <1>5, <1>8, <2>1, <2>2, <2>3, <2>4, <2>5 DEF Gated, Asking, Timing
<1>9. ASSUME NEW c \in Commands, Trap(c) \/ ForwardGate(c) \/ NoHandler(c) \/ GateFails(c) \/ Replies(c)
       PROVE  Words'
  <2>1. c \in Askers /\ UNCHANGED <<asked, session, hosts, kept, said>>
    BY <1>9 DEF Askers, Trap, ForwardGate, NoHandler, GateFails, Replies, Daemon, lists
  <2>2. UNCHANGED status \/ status' = [status EXCEPT ![c] = "gone"]
    BY <1>9 DEF Trap, ForwardGate, NoHandler, GateFails, Replies, Unasked
  <2> QED
    BY <1>6, <1>7, <2>1, <2>2
<1>10. CASE UNCHANGED vars
  BY <1>6, <1>10 DEF vars, lists
<1> QED
  BY <1>8, <1>9, <1>10 DEF Next

LEMMA InitWords == Init => Words
BY DEF Init, Words, SaidStands, Askers

LEMMA WordsHold == Spec => [](CardInv /\ Words)
<1>1. Init => CardInv /\ Words
  BY InitCards, InitWords
<1>2. CardInv /\ Words /\ [Next]_vars => CardInv' /\ Words'
  BY StepCards, StepWords
<1> QED
  BY <1>1, <1>2, PTL DEF Spec

(* What the shell is let run, it was allowed.                              *)
LEMMA StepCommands == CardInv /\ Words /\ [Next]_vars => CommandsGranted
<1> SUFFICES ASSUME CardInv, Words, [Next]_vars, NEW c \in Commands
             PROVE  /\ status[c] # "free" /\ status'[c] = "free" => owner = "human" \/ NoRule \in Classify(c)
                    /\ shell[c] # "ran" /\ shell'[c] = "ran" /\ RuleOf[c] # NoRule =>
                         status[c] = "free" \/ Worded(c)'
  BY DEF CommandsGranted, Worded
<1>0. TypeOK /\ c \in Askers
  BY DEF CardInv, Askers
<1>1. ASSUME shell[c] # "ran", shell'[c] = "ran", RuleOf[c] # NoRule
      PROVE  status[c] = "free" \/ Worded(c)'
  <2>1. ~UNCHANGED shell
    BY <1>1
  <2>2. PICK d \in Commands : Trap(d) \/ ForwardGate(d) \/ NoHandler(d) \/ GateFails(d) \/ Replies(d)
    BY <2>1 DEF Next, vars
  <2>3. d = c /\ Replies(c)
    BY <1>0, <1>1, <2>2 DEF Trap, ForwardGate, NoHandler, GateFails, Replies, Unasked, Moves, TypeOK
  <2>4. status[c] \in {"free", "allowed"} /\ UNCHANGED <<status, asked, said>>
    BY <1>0, <1>1, <2>3 DEF Replies, Moves, Obeys, Daemon, lists, TypeOK
  <2>5. status[c] = "allowed" => Worded(c)
    BY <1>1 DEF Words
  <2> QED
    BY <2>4, <2>5 DEF Worded, GrantedBy
<1>2. ASSUME status[c] # "free", status'[c] = "free"
      PROVE  owner = "human" \/ NoRule \in Classify(c)
  <2>1. ASSUME NEW a \in Askers, NEW reply \in Outcomes,
               Click(a, reply) \/ OnReply(a, reply) \/ TimerFires(a)
        PROVE  FALSE
    <3>1. PICK what \in Waiting, o \in Outcomes : Answers(a, what, o)
      BY <2>1, Answering
    <3> QED
      BY <1>0, <1>2, <3>1, FinishWaiters
  <2>2. ASSUME (Interrupt \/ EndRun) /\ UNCHANGED shell PROVE FALSE
    <3>1. DenyPending /\ UNCHANGED run /\ owner' \in {"human", "agent"} /\ alive' \in BOOLEAN
      BY <1>0, <2>2 DEF Interrupt, EndRun, TypeOK
    <3> QED
      BY <1>0, <1>2, <2>2, <3>1, DenyCards
  <2>3. ASSUME NEW s \in Sockets, Connect(s) \/ HangUp(s) PROVE FALSE
    <3>1. s # c
      BY AskerAssumption
    <3> QED
      BY <1>0, <1>2, <2>3, <3>1 DEF Connect, Answered, Ask, HangUp, TypeOK
  <2>4. ASSUME NEW a \in Actions, Authorize(a) PROVE FALSE
    <3>1. a # c
      BY AskerAssumption
    <3> QED
      BY <1>0, <1>2, <2>4, <3>1 DEF Authorize, Ask, TypeOK
  <2>5. ASSUME NEW d \in Commands, GateCheck(d)
        PROVE  owner = "human" \/ NoRule \in Classify(c)
    BY <1>0, <1>2, <2>5 DEF GateCheck, Answered, Ask, TypeOK
  <2>6. ASSUME NEW d \in Commands, Trap(d) \/ ForwardGate(d) \/ NoHandler(d) \/ GateFails(d) \/ Replies(d)
        PROVE FALSE
    BY <1>0, <1>2, <2>6 DEF Trap, ForwardGate, NoHandler, GateFails, Replies, Unasked, TypeOK
  <2>7. ~UNCHANGED status /\ "deny" \in Outcomes
    BY <1>2 DEF Outcomes
  <2>8. CASE Gated /\ UNCHANGED shell
    <3>1. ASSUME NEW who, TakeLease(who) PROVE FALSE
      BY <2>7, <3>1 DEF TakeLease
    <3>2. ASSUME StartRun \/ \E a \in Askers : Expire(a) PROVE FALSE
      BY <2>7, <3>2 DEF StartRun, Expire
    <3> QED
      BY <2>1, <2>2, <2>3, <2>4, <2>5, <2>7, <2>8, <3>1, <3>2 DEF Gated, Asking, Timing
  <2> QED
    BY <2>6, <2>7, <2>8 DEF Next, vars
<1> QED
  BY <1>1, <1>2

(* Nothing that needs the human's word goes through without it: no host,   *)
(* no command of the shell, no other action of the agent, whatever was     *)
(* lost, late or heard twice (images/terminal/gate.c:2).                   *)
THEOREM NothingWithoutTheHuman == Spec => NeedsTheHuman
<1> DEFINE Step == HostsNeedTheHuman' /\ ActionsNeedTheHuman' /\ CommandsGranted
<1>1. Words => HostsNeedTheHuman /\ ActionsNeedTheHuman
  <2> SUFFICES ASSUME Words PROVE HostsNeedTheHuman /\ ActionsNeedTheHuman
    OBVIOUS
  <2>1. HostsNeedTheHuman
    BY DEF Words, Cleared, Stored, HostsNeedTheHuman
  <2>2. ActionsNeedTheHuman
    BY DEF Words, Worded, ActionsNeedTheHuman
  <2> QED
    BY <2>1, <2>2
<1>2. Words' => HostsNeedTheHuman' /\ ActionsNeedTheHuman'
  BY <1>1, PTL
<1>3. CardInv /\ Words /\ [Next]_vars => [Step]_vars
  BY <1>2, StepWords, StepCommands
<1>4. Spec => [][Step]_vars
  BY <1>3, WordsHold, PTL DEF Spec
<1> QED
  BY <1>4 DEF NeedsTheHuman

-----------------------------------------------------------------------------
(* Addresses: octets and masked words against the blocks they stand for.   *)

(* ipv4Private's tests on two octets are the blocks of the address space.  *)
LEMMA OctetsAreBlocks ==
  ASSUME NEW a \in Octet, NEW b \in Octet
  PROVE  ipv4Private(a, b) <=> InBlock(a * 256 + b, Blocks4)
<1> DEFINE n == a * 256 + b
<1>1. InBlock(n, Blocks4) <=>
        \/ 0 <= n /\ n <= 255
        \/ 2560 <= n /\ n <= 2815
        \/ 32512 <= n /\ n <= 32767
        \/ 25664 <= n /\ n <= 25727
        \/ 44048 <= n /\ n <= 44063
        \/ n = 49320
        \/ n = 43518
        \/ 57344 <= n /\ n <= 65535
  BY DEF InBlock, Blocks4, Octet
<1> QED BY <1>1 DEF ipv4Private, Octet

(* What a word is, and what the divisions do to it.                        *)
LEMMA Divided ==
  ASSUME NEW n \in Word
  PROVE  /\ n \in Int /\ 0 <= n /\ n <= 65535
         /\ n \div 64 \in Int /\ 64 * (n \div 64) <= n /\ n < 64 * (n \div 64) + 64
         /\ n \div 256 \in Int /\ 256 * (n \div 256) <= n /\ n < 256 * (n \div 256) + 256
         /\ n \div 512 \in Int /\ 512 * (n \div 512) <= n /\ n < 512 * (n \div 512) + 512
         /\ n % 256 = n - 256 * (n \div 256)
<1>1. LastWord \in Int
  BY DEF LastWord
<1>2. n \in Int /\ 0 <= n /\ n <= LastWord
  BY <1>1 DEF Word
<1>3. \A k \in Int :
        /\ k \div 64 \in Int /\ 64 * (k \div 64) <= k /\ k < 64 * (k \div 64) + 64
        /\ k \div 256 \in Int /\ 256 * (k \div 256) <= k /\ k < 256 * (k \div 256) + 256
        /\ k \div 512 \in Int /\ 512 * (k \div 512) <= k /\ k < 512 * (k \div 512) + 512
        /\ k % 256 = k - 256 * (k \div 256)
  OBVIOUS
<1>4. LastWord = 65535
  BY DEF LastWord
<1> QED
  BY <1>2, <1>3, <1>4

(* A word under a mask is in the block the mask names.                     *)
LEMMA MasksAreBlocks ==
  ASSUME NEW n \in Word
  PROVE  InBlock(n, Blocks6) <=>
           \/ Masked(n, 512) = 64512
           \/ Masked(n, 64) = 65152
           \/ Masked(n, 64) = 65216
           \/ Masked(n, 256) = 65280
<1>1. /\ Masked(n, 512) = 64512 <=> 64512 <= n /\ n <= 65023
      /\ Masked(n, 64) = 65152 <=> 65152 <= n /\ n <= 65215
      /\ Masked(n, 64) = 65216 <=> 65216 <= n /\ n <= 65279
      /\ Masked(n, 256) = 65280 <=> 65280 <= n /\ n <= 65535
  BY Divided DEF Masked
<1>2. InBlock(n, Blocks6) <=>
        \/ 64512 <= n /\ n <= 65023
        \/ 65152 <= n /\ n <= 65215
        \/ 65216 <= n /\ n <= 65279
        \/ 65280 <= n /\ n <= 65535
  BY DEF InBlock, Blocks6
<1> QED BY <1>1, <1>2

(* The last words of a mapped address are its octets.                      *)
LEMMA WordIsOctets ==
  ASSUME NEW n \in Word
  PROVE  /\ n \div 256 \in Octet
         /\ n % 256 \in Octet
         /\ (n \div 256) * 256 + (n % 256) = n
<1>1. \A q, k \in Int :
        256 * q <= k /\ k < 256 * q + 256 /\ 0 <= k /\ k <= 65535 =>
          q \in 0 .. 255 /\ k - 256 * q \in 0 .. 255 /\ q * 256 + (k - 256 * q) = k
  OBVIOUS
<1> DEFINE q == n \div 256
<1>2. q \in Int /\ n \in Int /\ 256 * q <= n /\ n < 256 * q + 256 /\ 0 <= n /\ n <= 65535
  BY Divided
<1>3. n \div 256 = q /\ n % 256 = n - 256 * q
  BY Divided
<1> HIDE DEF q
<1> QED
  BY <1>1, <1>2, <1>3 DEF Octet

(* An IPv4 address is refused exactly when it is in one of the ranges that *)
(* private-address.ts lists (:5-10), written as intervals.                 *)
THEOREM RefusesPrivate4 == \A ip \in IPv4 : isPrivateIp(ip) <=> Private4(ip)
<1> SUFFICES ASSUME NEW ip \in IPv4 PROVE isPrivateIp(ip) <=> Private4(ip)
  OBVIOUS
<1>1. Len(ip) = 4 /\ ip[1] \in Octet /\ ip[2] \in Octet
  BY DEF IPv4
<1>2. isPrivateIp(ip) = ipv4Private(ip[1], ip[2])
  BY <1>1 DEF isPrivateIp
<1> QED BY <1>1, <1>2, OctetsAreBlocks DEF Private4

(* An IPv6 address, one that carries an IPv4 address included, is refused  *)
(* exactly when it is in one of the ranges that private-address.ts lists   *)
(* (:5-10, :30-36), written as intervals.                                  *)
THEOREM RefusesPrivate6 == \A w \in IPv6 : isPrivateIp(w) <=> Private6(w)
<1> SUFFICES ASSUME NEW w \in IPv6 PROVE isPrivateIp(w) <=> Private6(w)
  OBVIOUS
<1>1. Len(w) = 8 /\ \A i \in 1 .. 8 : w[i] \in Word
  BY DEF IPv6
<1>2. isPrivateIp(w) = ipv6Private(w)
  BY <1>1 DEF isPrivateIp
<1>3. CASE Zeros(w, 5) /\ w[6] = 65535
  <2>1. w[1] = 0 /\ ~Zeros(w, 6) /\ ~InBlock(w[1], Blocks6)
    BY <1>3 DEF Zeros, InBlock, Blocks6
  <2>2. ipv4Private(w[7] \div 256, w[7] % 256) <=> InBlock(w[7], Blocks4)
    BY <1>1, WordIsOctets, OctetsAreBlocks
  <2> QED BY <1>2, <1>3, <2>1, <2>2 DEF ipv6Private, Private6
<1>4. CASE ~(Zeros(w, 5) /\ w[6] = 65535)
  <2>1. InBlock(w[1], Blocks6) <=>
          \/ Masked(w[1], 512) = 64512
          \/ Masked(w[1], 64) = 65152
          \/ Masked(w[1], 64) = 65216
          \/ Masked(w[1], 256) = 65280
    BY <1>1, MasksAreBlocks
  <2> QED BY <1>2, <1>4, <2>1 DEF ipv6Private, Private6
<1> QED BY <1>3, <1>4

-----------------------------------------------------------------------------
(* The invariant.                                                          *)

(* Where the first link stands: the old proxy goes before a new one comes. *)
Placed ==
  /\ step # "idle" => chain # <<>> /\ proxy = None
  /\ step = "closing" => listening = {}
  /\ step = "opening" => Target(Head(chain)) # None /\ listening \subseteq {<<Head(chain).sid, "terminal">>}
  /\ step = "idle" => listening = IF proxy = None THEN {} ELSE SocketPaths(proxy)

Serves(s) == s # None /\ (proxy = s \/ (step = "opening" /\ Head(chain).sid = s))

(* A connection that route() goes on with is of the session that is served. *)
Fresh == {"asking", "resolving"} \cup Upstream
Attached == \A c \in Clients : client[c].at \in Fresh => Serves(client[c].sid)

(* What was checked is what is used after the await.                       *)
VettedClient(x) ==
  /\ x.at = "resolving" => x.to \in Literals \cup Names /\ ~isPrivateHost(x.to)
  /\ x.at \in {"dialing", "piped"} => x.to \in Addresses /\ ~isPrivateIp(x.to)
Vetted == \A c \in Clients : VettedClient(client[c])

Counted == {c \in Clients : client[c].at \in Upstream}

IInv == EgressTypeOK /\ Placed /\ Attached /\ Vetted /\ upstreams = Cardinality(Counted)

ClientType == [at : Phases, sid : Sessions \cup {None}, to : Names \cup Addresses \cup {None}]

LEMMA AddressesAreIP == Addresses \subseteq IPv4 \cup IPv6
<1>1. ASSUME NEW answer \in Resolutions, NEW i \in DOMAIN answer PROVE answer[i] \in IPv4 \cup IPv6
  BY <1>1, EgressAssumption
<1> QED
  BY <1>1, EgressAssumption DEF Addresses

LEMMA IInvConfines == IInv => Confined
<1> SUFFICES ASSUME IInv PROVE Confined
  OBVIOUS
<1> USE DEF IInv
<1>1. NothingElseListens
  <2>1. \A x, y \in listening : x[1] = y[1]
    BY DEF Placed, SocketPaths, EgressTypeOK
  <2> QED
    BY <2>1 DEF Placed, NothingElseListens
<1>2. OffIsSilent
  BY DEF Attached, Serves, OffIsSilent, Fresh, Upstream
<1>3. UpstreamsCounted
  BY EgressAssumption DEF UpstreamsCounted, Counted, EgressTypeOK
<1>4. ReachesPublic
  <2> SUFFICES ASSUME NEW c \in Clients, client[c].at \in {"dialing", "piped"}
               PROVE  client[c].to \in Addresses /\ ~Private(client[c].to)
    BY DEF ReachesPublic
  <2> DEFINE ip == client[c].to
  <2>1. ip \in Addresses /\ ~isPrivateIp(ip)
    BY DEF Vetted, VettedClient
  <2>2. CASE ip \in IPv4
    BY <2>1, <2>2, RefusesPrivate4 DEF Private, IPv4
  <2>3. CASE ip \in IPv6
    BY <2>1, <2>3, RefusesPrivate6 DEF Private, IPv6
  <2> QED
    BY <2>1, <2>2, <2>3, AddressesAreIP
<1> QED
  BY <1>1, <1>2, <1>3, <1>4 DEF Confined

LEMMA InitInv == EgressInit => IInv
<1> SUFFICES ASSUME EgressInit PROVE IInv
  OBVIOUS
<1>1. chain = <<>> /\ outcome = [i \in Calls |-> "none"] /\ proxy = None
  BY DEF EgressInit, Switch!SwitchInit
<1>2. EgressTypeOK
  BY <1>1, EgressAssumption DEF EgressInit, EgressTypeOK, Switch!SwitchTypeOK, Idle, Phases
<1>3. Counted = {}
  BY DEF EgressInit, Idle, Counted, Upstream
<1>4. Placed /\ Attached /\ Vetted
  BY <1>1 DEF EgressInit, Placed, Attached, Vetted, VettedClient, Idle, Fresh, Upstream
<1> QED
  BY <1>2, <1>3, <1>4, FS_EmptySet DEF EgressInit, IInv

-----------------------------------------------------------------------------
(* The clients.                                                            *)

LEMMA GoesTo ==
  ASSUME EgressTypeOK, NEW c \in Clients, NEW from, NEW to \in Phases,
         NEW host \in Names \cup Addresses \cup {None}, Goes(c, from, to, host)
  PROVE  /\ client[c].at \in from
         /\ client' \in [Clients -> ClientType]
         /\ \A d \in Clients : d # c => client'[d] = client[d]
         /\ client'[c].at = to
<1>1. client \in [Clients -> ClientType]
  BY DEF EgressTypeOK, ClientType
<1>2. CASE to = "idle"
  <2>1. Idle \in ClientType /\ Idle.at = "idle"
    BY DEF Idle, ClientType, Phases
  <2> QED
    BY <1>1, <1>2, <2>1 DEF Goes
<1>3. CASE to # "idle"
  <2>1. client' = [client EXCEPT ![c] = [@ EXCEPT !.at = to, !.to = host]] /\ client[c].at \in from
    BY <1>3 DEF Goes
  <2>2. client[c] \in ClientType
    BY <1>1
  <2> QED
    BY <1>1, <2>1, <2>2 DEF ClientType
<1> QED
  BY <1>2, <1>3

LEMMA KeepsSession ==
  ASSUME EgressTypeOK, NEW c \in Clients, NEW from, NEW to, NEW host, Goes(c, from, to, host)
  PROVE  to # "idle" => client'[c].sid = client[c].sid /\ client'[c].to = host
<1> SUFFICES ASSUME to # "idle" PROVE client'[c].sid = client[c].sid /\ client'[c].to = host
  OBVIOUS
<1>1. client' = [client EXCEPT ![c] = [@ EXCEPT !.at = to, !.to = host]]
  BY DEF Goes
<1>2. client \in [Clients -> ClientType] /\ client[c] \in ClientType
  BY DEF EgressTypeOK, ClientType
<1> QED
  BY <1>1, <1>2 DEF ClientType

(* A step of route() for one client.                                       *)
LEMMA ClientStep ==
  ASSUME IInv, NEW c \in Clients, UNCHANGED <<links, requested>>,
         client' \in [Clients -> ClientType],
         \A d \in Clients : d # c => client'[d] = client[d],
         IF client[c].at \in Upstream <=> client'[c].at \in Upstream THEN upstreams' = upstreams
         ELSE IF client'[c].at \in Upstream THEN upstreams < MaxUpstreams /\ upstreams' = upstreams + 1
         ELSE upstreams' = upstreams - 1,
         client'[c].at \in Fresh =>
           Serves(client'[c].sid) \/ (client[c].at \in Fresh /\ client'[c].sid = client[c].sid),
         VettedClient(client'[c])
  PROVE  IInv'
<1> USE DEF IInv
<1>1. UNCHANGED <<chain, step, outcome, proxy, listening, requested>>
  BY DEF links
<1>2. Placed'
  BY <1>1 DEF Placed, SocketPaths, Target, Switch!Target
<1>3. Attached'
  BY <1>1 DEF Attached, Serves
<1>4. Vetted'
  BY DEF Vetted
<1>5. IsFiniteSet(Counted) /\ Cardinality(Counted) \in Nat /\ upstreams \in 0 .. MaxUpstreams
  BY EgressAssumption, FS_Subset, FS_CardinalityType DEF Counted, EgressTypeOK
<1>6. upstreams' = Cardinality(Counted') /\ upstreams' \in 0 .. MaxUpstreams
  <2>1. CASE client[c].at \in Upstream <=> client'[c].at \in Upstream
    <3>1. Counted' = Counted
      BY <2>1 DEF Counted
    <3> QED
      BY <1>5, <2>1, <3>1
  <2>2. CASE client[c].at \notin Upstream /\ client'[c].at \in Upstream
    <3>1. Counted' = Counted \cup {c} /\ c \notin Counted
      BY <2>2 DEF Counted
    <3>2. Cardinality(Counted') = Cardinality(Counted) + 1
      BY <1>5, <3>1, FS_AddElement
    <3> QED
      BY <1>5, <2>2, <3>2, EgressAssumption
  <2>3. CASE client[c].at \in Upstream /\ client'[c].at \notin Upstream
    <3>1. Counted' = Counted \ {c} /\ c \in Counted
      BY <2>3 DEF Counted
    <3>2. Cardinality(Counted') = Cardinality(Counted) - 1 /\ Cardinality(Counted') \in Nat
      BY <1>5, <3>1, FS_RemoveElement, FS_CardinalityType
    <3> QED
      BY <1>5, <2>3, <3>2, EgressAssumption
  <2> QED
    BY <2>1, <2>2, <2>3
<1>7. EgressTypeOK'
  BY <1>1, <1>6 DEF EgressTypeOK, Switch!SwitchTypeOK, ClientType
<1> QED
  BY <1>2, <1>3, <1>4, <1>6, <1>7

LEMMA GoesInv ==
  ASSUME IInv, NEW c \in Clients, NEW from, NEW to \in Phases, NEW host \in Names \cup Addresses \cup {None},
         Goes(c, from, to, host), UNCHANGED <<links, requested>>,
         IF client[c].at \in Upstream <=> to \in Upstream THEN upstreams' = upstreams
         ELSE IF to \in Upstream THEN upstreams < MaxUpstreams /\ upstreams' = upstreams + 1
         ELSE upstreams' = upstreams - 1,
         to \in Fresh => client[c].at \in Fresh,
         to = "resolving" => host \in Literals \cup Names /\ ~isPrivateHost(host),
         to \in {"dialing", "piped"} => host \in Addresses /\ ~isPrivateIp(host)
  PROVE  IInv'
<1>1. EgressTypeOK
  BY DEF IInv
<1>2. client' \in [Clients -> ClientType]
  BY <1>1, GoesTo
<1>3. \A d \in Clients : d # c => client'[d] = client[d]
  BY <1>1, GoesTo
<1>4. client'[c].at = to
  BY <1>1, GoesTo
<1>5. to # "idle" => client'[c].sid = client[c].sid /\ client'[c].to = host
  BY <1>1, KeepsSession
<1>6. VettedClient(client'[c])
  BY <1>4, <1>5 DEF VettedClient
<1>7. to \in Fresh => client'[c].sid = client[c].sid
  BY <1>5 DEF Fresh, Upstream
<1> QED
  BY <1>2, <1>3, <1>4, <1>6, <1>7, ClientStep

LEMMA RouteInv ==
  ASSUME IInv, Route
  PROVE  IInv'
<1> USE DEF IInv
<1>0. /\ UNCHANGED <<links, requested>> /\ UNCHANGED <<chain, step, outcome, proxy, listening>>
      /\ None \in Names \cup Addresses \cup {None} /\ Idle \in ClientType
      /\ {"idle", "asking", "resolving", "dropped", "dialing", "piped", "cut", "stray"} \subseteq Phases
  BY DEF Route, links, Phases, Held, Upstream, Idle, ClientType
<1>1. ASSUME NEW c \in Clients, Accepts(c) PROVE IInv'
  <2>1. PICK x \in listening : client' = [client EXCEPT ![c] = [Idle EXCEPT !.at = "asking", !.sid = x[1]]]
    BY <1>1 DEF Accepts
  <2>2. client[c].at = "idle" /\ UNCHANGED upstreams
    BY <1>1 DEF Accepts
  <2>3. x \in Sessions \X Surfaces /\ x[1] \in Sessions /\ x[1] # None
    BY EgressAssumption DEF EgressTypeOK
  <2>4. Serves(x[1])'
    <3>1. CASE step = "idle"
      BY <1>0, <2>3, <3>1 DEF Placed, SocketPaths, Serves
    <3>2. CASE step # "idle"
      BY <1>0, <2>3, <3>2 DEF Placed, EgressTypeOK, Serves
    <3> QED
      BY <3>1, <3>2
  <2>5. DEFINE new == [Idle EXCEPT !.at = "asking", !.sid = x[1]]
  <2>6. new \in ClientType /\ new.at = "asking" /\ new.sid = x[1]
    BY <2>3, <1>0 DEF ClientType, Idle
  <2>7. client \in [Clients -> ClientType]
    BY DEF EgressTypeOK, ClientType
  <2>8. client' \in [Clients -> ClientType] /\ client'[c] = new /\ \A d \in Clients : d # c => client'[d] = client[d]
    BY <2>1, <2>6, <2>7
  <2>9. Serves(x[1])
    BY <1>0, <2>4 DEF Serves
  <2>10. client[c].at \notin Upstream /\ new.at \notin Upstream /\ VettedClient(new)
    BY <2>2, <2>6 DEF Upstream, VettedClient
  <2> HIDE DEF new, IInv
  <2> QED
    BY <1>0, <2>2, <2>6, <2>8, <2>9, <2>10, ClientStep
<1> HIDE DEF IInv
<1>3. ASSUME NEW c \in Clients, BadRequest(c) \/ Dropped(c) PROVE IInv'
  <2>1. client[c].at \notin Upstream /\ UNCHANGED upstreams
        /\ (Goes(c, {"asking"}, "idle", None) \/ Goes(c, {"dropped"}, "idle", None))
    BY <1>3 DEF BadRequest, Dropped, MovesTo, Goes, Upstream
  <2> QED
    BY <1>0, GoesInv, <2>1 DEF Upstream, Fresh
<1>4. ASSUME NEW c \in Clients, Decided(c) PROVE IInv'
  <2>1. client[c].at = "asking" /\ UNCHANGED upstreams
    BY <1>4 DEF Decided, MovesTo, Goes
  <2>2. CASE Goes(c, {"asking"}, "idle", None)
    BY <1>0, GoesInv, <2>1, <2>2 DEF Upstream, Fresh
  <2>3. ASSUME NEW host \in Literals \cup Names, ~isPrivateHost(host), Goes(c, {"asking"}, "resolving", host)
        PROVE  IInv'
    <3>1. host \in Names \cup Addresses \cup {None}
      BY DEF Addresses
    <3> QED
      BY <1>0, GoesInv, <2>1, <2>3, <3>1 DEF Upstream, Fresh
  <2> QED
    BY <1>4, <2>2, <2>3 DEF Decided, MovesTo
<1>5. ASSUME NEW c \in Clients, Resolved(c) PROVE IInv'
  <2>1. client[c].at = "resolving"
    BY <1>5 DEF Resolved, MovesTo, Goes
  <2>2. client[c].to \in Literals \cup Names
    BY <2>1 DEF IInv, Vetted, VettedClient
  <2>3. CASE Goes(c, {"resolving"}, "idle", None) /\ UNCHANGED upstreams
    BY <1>0, GoesInv, <2>1, <2>3 DEF Upstream, Fresh
  <2>4. ASSUME NEW answer \in LookedUp(client[c].to), answer # <<>>, \A i \in DOMAIN answer : ~isPrivateIp(answer[i]),
               upstreams < MaxUpstreams, upstreams' = upstreams + 1, Goes(c, {"resolving"}, "dialing", answer[1])
        PROVE  IInv'
    <3>1. answer[1] \in Addresses /\ ~isPrivateIp(answer[1])
      <4>1. CASE client[c].to \in Literals
        <5>1. answer = <<client[c].to>>
          BY <4>1 DEF LookedUp
        <5>2. 1 \in DOMAIN answer /\ answer[1] = client[c].to
          BY <5>1
        <5> QED
          BY <2>4, <4>1, <5>2 DEF Addresses
      <4>2. CASE client[c].to \notin Literals
        <5>1. answer \in Resolutions /\ answer \in Seq(IPv4 \cup IPv6)
          BY <2>4, <4>2, EgressAssumption DEF LookedUp
        <5>2. 1 \in DOMAIN answer
          BY <2>4, <5>1
        <5> QED
          BY <2>4, <5>1, <5>2 DEF Addresses
      <4> QED
        BY <4>1, <4>2
    <3> QED
      BY <1>0, GoesInv, <2>1, <2>4, <3>1 DEF Upstream, Fresh
  <2> QED
    BY <1>5, <2>3, <2>4 DEF Resolved, MovesTo
<1>6. ASSUME NEW c \in Clients, Dialed(c) PROVE IInv'
  <2>1. client[c].at = "dialing" /\ UNCHANGED upstreams /\ Goes(c, {"dialing"}, "piped", client[c].to)
    BY <1>6 DEF Dialed, Goes
  <2>2. client[c].to \in Addresses /\ ~isPrivateIp(client[c].to)
    BY <2>1 DEF IInv, Vetted, VettedClient
  <2> QED
    BY <1>0, GoesInv, <2>1, <2>2 DEF Upstream, Fresh
<1>7. ASSUME NEW c \in Clients, Leaves(c) PROVE IInv'
  <2>1. CASE Goes(c, {"asking", "resolving"}, "dropped", None) /\ UNCHANGED upstreams
    <3>1. client[c].at \in {"asking", "resolving"}
      BY <2>1 DEF Goes
    <3> QED
      BY <1>0, GoesInv, <2>1, <3>1 DEF Upstream, Fresh
  <2>2. CASE Goes(c, {"dialing", "piped"}, "cut", None) /\ UNCHANGED upstreams
    <3>1. client[c].at \in {"dialing", "piped"}
      BY <2>2 DEF Goes
    <3> QED
      BY <1>0, GoesInv, <2>2, <3>1 DEF Upstream, Fresh
  <2> QED
    BY <1>7, <2>1, <2>2 DEF Leaves, MovesTo
<1>8. ASSUME NEW c \in Clients, UpstreamCloses(c) PROVE IInv'
  <2>1. CASE Goes(c, Upstream, "idle", None) /\ upstreams' = upstreams - 1
    <3>1. client[c].at \in Upstream
      BY <2>1 DEF Goes
    <3> QED
      BY <1>0, GoesInv, <2>1, <3>1 DEF Upstream, Fresh
  <2>2. CASE Goes(c, {"stray"}, "idle", None) /\ UNCHANGED upstreams
    <3>1. client[c].at = "stray"
      BY <2>2 DEF Goes
    <3> QED
      BY <1>0, GoesInv, <2>2, <3>1 DEF Upstream, Fresh
  <2> QED
    BY <1>8, <2>1, <2>2 DEF UpstreamCloses, MovesTo
<1> QED
  BY <1>1, <1>3, <1>4, <1>5, <1>6, <1>7, <1>8 DEF Route

-----------------------------------------------------------------------------
(* The links.                                                              *)

LEMMA CloseClients ==
  ASSUME IInv, CloseProxy
  PROVE  /\ client' \in [Clients -> ClientType]
         /\ \A c \in Clients : client'[c].at \in {"idle", "dropped", "stray"}
         /\ upstreams' = 0 /\ listening' = {}
<1>1. client \in [Clients -> ClientType] /\ Phases = {"asking", "resolving", "dropped"} \cup {"dialing", "piped", "cut"} \cup {"idle", "stray"}
  BY DEF IInv, EgressTypeOK, ClientType, Phases, Held, Upstream
<1>2. ASSUME NEW c \in Clients
      PROVE  client'[c] \in ClientType /\ client'[c].at \in {"idle", "dropped", "stray"}
  <2>1. client[c] \in ClientType /\ client[c].at \in Phases
    BY <1>1 DEF ClientType
  <2>2. CASE client[c].at \in Held
    <3>1. client'[c] = [client[c] EXCEPT !.at = "dropped"]
      BY <2>2 DEF CloseProxy, Held, Upstream
    <3> QED
      BY <1>1, <2>1, <3>1 DEF ClientType
  <2>3. CASE client[c].at \in Upstream
    <3>1. client'[c] = [client[c] EXCEPT !.at = "stray"]
      BY <2>3 DEF CloseProxy, Held, Upstream
    <3> QED
      BY <1>1, <2>1, <3>1 DEF ClientType
  <2>4. CASE client[c].at \notin Held \cup Upstream
    <3>1. client'[c] = client[c]
      BY <2>4 DEF CloseProxy
    <3> QED
      BY <1>1, <2>1, <2>4, <3>1 DEF Held, Upstream
  <2> QED
    BY <2>2, <2>3, <2>4
<1>3. client' = [c \in Clients |-> client'[c]]
  BY DEF CloseProxy
<1> QED
  BY <1>2, <1>3 DEF CloseProxy

(* A proxy that is closed leaves nothing behind it that counts.            *)
LEMMA ClosedClients ==
  ASSUME IInv, CloseProxy
  PROVE  Attached' /\ Vetted' /\ upstreams' = Cardinality(Counted')
<1>1. Counted' = {}
  BY CloseClients DEF Counted, Upstream
<1>2. Attached' /\ Vetted'
  BY CloseClients DEF Attached, Fresh, Upstream, Vetted, VettedClient
<1> QED
  BY <1>1, <1>2, CloseClients, FS_EmptySet

LEMMA ChainLinks ==
  ASSUME IInv, chain # <<>>
  PROVE  /\ Head(chain) \in [sid : Sessions \cup {None}, mode : {"open", "none"}, call : Calls]
         /\ Tail(chain) \in Seq(Switch!Link)
         /\ Target(Head(chain)) # None => Target(Head(chain)) = Head(chain).sid /\ Head(chain).sid \in Sessions
<1>1. chain \in Seq(Switch!Link)
  BY DEF IInv, EgressTypeOK, Switch!SwitchTypeOK
<1>2. Head(chain) \in Switch!Link /\ Tail(chain) \in Seq(Switch!Link)
  BY <1>1
<1> QED
  BY <1>2 DEF Switch!Link, Switch!Modes, Target, Switch!Target

LEMMA ResolveLinks ==
  ASSUME IInv, chain # <<>>, NEW how \in {"ok", "failed"}, Resolve(how)
  PROVE  /\ chain' \in Seq(Switch!Link) /\ outcome' \in [Calls -> {"none", "ok", "failed"}]
         /\ step' = "idle"
BY ChainLinks DEF Resolve, Switch!Resolve, IInv, EgressTypeOK, Switch!SwitchTypeOK

LEMMA AskInv ==
  ASSUME IInv, NEW i \in Calls, NEW s \in Sessions \cup {None}, NEW m \in Modes, Ensure(i, s, m)
  PROVE  IInv'
<1> DEFINE link == [sid |-> s, mode |-> m, call |-> i]
<1>1. /\ chain' = Append(chain, link) /\ requested' = requested \cup {i}
      /\ UNCHANGED <<outcome, proxy, step, listening, client, upstreams>>
  BY DEF Ensure, Switch!Ask
<1>2. link \in Switch!Link
  BY DEF Switch!Link, Modes
<1>3. chain \in Seq(Switch!Link)
  BY DEF IInv, EgressTypeOK, Switch!SwitchTypeOK
<1> HIDE DEF link
<1>4. chain' \in Seq(Switch!Link) /\ chain' # <<>> /\ (chain # <<>> => Head(chain') = Head(chain))
  BY <1>1, <1>2, <1>3
<1>5. EgressTypeOK'
  BY <1>1, <1>4 DEF IInv, EgressTypeOK, Switch!SwitchTypeOK
<1>6. Placed'
  BY <1>1, <1>4 DEF IInv, Placed, SocketPaths, Target, Switch!Target
<1>7. Attached'
  BY <1>1, <1>4 DEF IInv, Attached, Serves, Placed
<1> QED
  BY <1>1, <1>5, <1>6, <1>7 DEF IInv, Vetted, Counted

LEMMA ApplyInv == ASSUME IInv, Apply PROVE IInv'
<1>0. chain # <<>> /\ step = "idle" /\ UNCHANGED requested
  BY DEF Apply
<1>1. CASE Resolve("ok") /\ UNCHANGED <<proxy, listening, client, upstreams>>
  <2>1. EgressTypeOK'
    BY <1>0, <1>1, ResolveLinks DEF IInv, EgressTypeOK, Switch!SwitchTypeOK
  <2>2. Placed' /\ Attached'
    BY <1>0, <1>1, ResolveLinks DEF IInv, Placed, SocketPaths, Attached, Serves
  <2> QED
    BY <1>1, <2>1, <2>2 DEF IInv, Vetted, Counted
<1>2. CASE proxy' = None /\ CloseProxy /\ step' = "closing" /\ UNCHANGED <<chain, outcome>>
  <2>1. EgressTypeOK'
    BY <1>0, <1>2, CloseClients, EgressAssumption DEF IInv, EgressTypeOK, Switch!SwitchTypeOK, ClientType
  <2>2. Placed'
    BY <1>0, <1>2, CloseClients DEF Placed
  <2> QED
    BY <1>2, <2>1, <2>2, ClosedClients DEF IInv
<1> QED
  BY <1>1, <1>2 DEF Apply

LEMMA ClosedInv == ASSUME IInv, Closed PROVE IInv'
<1>0. /\ step = "closing" /\ chain # <<>> /\ proxy = None /\ listening = {}
      /\ UNCHANGED <<proxy, listening, client, upstreams, requested>>
  BY DEF Closed, IInv, Placed
<1>1. \A c \in Clients : client[c].at \notin Fresh
  BY <1>0 DEF IInv, Attached, Serves
<1>2. ASSUME NEW how \in {"ok", "failed"}, Resolve(how) PROVE IInv'
  <2>1. EgressTypeOK'
    BY <1>0, <1>2, ResolveLinks DEF IInv, EgressTypeOK, Switch!SwitchTypeOK
  <2>2. Placed' /\ Attached'
    BY <1>0, <1>1, <1>2, ResolveLinks DEF Placed, Attached
  <2> QED
    BY <1>0, <2>1, <2>2 DEF IInv, Vetted, Counted
<1>3. CASE Target(Head(chain)) # None /\ step' = "opening" /\ UNCHANGED <<chain, outcome>>
  <2>1. EgressTypeOK'
    BY <1>0, <1>3 DEF IInv, EgressTypeOK, Switch!SwitchTypeOK
  <2>2. Placed' /\ Attached'
    BY <1>0, <1>1, <1>3 DEF Placed, Attached, Target, Switch!Target
  <2> QED
    BY <1>0, <2>1, <2>2 DEF IInv, Vetted, Counted
<1> QED
  BY <1>2, <1>3 DEF Closed

LEMMA ListenInv == ASSUME IInv, Listen PROVE IInv'
<1> DEFINE s == Head(chain).sid
<1>0. /\ step = "opening" /\ chain # <<>> /\ proxy = None /\ s \in Sessions /\ Target(Head(chain)) = s
      /\ UNCHANGED <<client, upstreams, requested>>
  BY ChainLinks DEF Listen, IInv, Placed
<1>1. CASE listening' = SocketPaths(s) /\ proxy' = s /\ Resolve("ok")
  <2>1. EgressTypeOK'
    BY <1>0, <1>1, ResolveLinks DEF IInv, EgressTypeOK, Switch!SwitchTypeOK, SocketPaths
  <2>2. Placed' /\ Attached'
    BY <1>0, <1>1, ResolveLinks, EgressAssumption DEF IInv, Placed, SocketPaths, Attached, Serves
  <2> QED
    BY <1>0, <2>1, <2>2 DEF IInv, Vetted, Counted
<1>2. CASE listening' = {<<s, "terminal">>} /\ UNCHANGED <<proxy, chain, step, outcome>>
  <2>1. EgressTypeOK'
    BY <1>0, <1>2 DEF IInv, EgressTypeOK, Switch!SwitchTypeOK, Surfaces
  <2>2. Placed' /\ Attached'
    BY <1>0, <1>2 DEF IInv, Placed, Attached, Serves, Target, Switch!Target
  <2> QED
    BY <1>0, <2>1, <2>2 DEF IInv, Vetted, Counted
<1> QED
  BY <1>1, <1>2 DEF Listen

LEMMA ListenFailsInv == ASSUME IInv, ListenFails PROVE IInv'
<1>0. step = "opening" /\ chain # <<>> /\ proxy = None /\ CloseProxy /\ Resolve("failed") /\ UNCHANGED <<proxy, requested>>
  BY DEF ListenFails, IInv, Placed
<1>1. EgressTypeOK'
  BY <1>0, CloseClients, ResolveLinks, EgressAssumption DEF IInv, EgressTypeOK, Switch!SwitchTypeOK, ClientType
<1>2. Placed'
  BY <1>0, CloseClients, ResolveLinks DEF Placed
<1> QED
  BY <1>0, <1>1, <1>2, ClosedClients DEF IInv

LEMMA StepInv == IInv /\ [EgressNext]_egressVars => IInv'
<1> SUFFICES ASSUME IInv, [EgressNext]_egressVars PROVE IInv'
  OBVIOUS
<1>1. ASSUME NEW i \in Calls, NEW s \in Sessions, NEW m \in Modes, Ensure(i, s, m) PROVE IInv'
  BY <1>1, AskInv
<1>2. ASSUME NEW i \in Calls, Ensure(i, None, "none") PROVE IInv'
  BY <1>2, AskInv DEF Modes, Switch!Modes
<1>3. CASE UNCHANGED egressVars
  <2>1. UNCHANGED <<chain, step, outcome, proxy, listening, client, upstreams, requested>>
    BY <1>3 DEF egressVars, links
  <2> QED
    BY <2>1 DEF IInv, EgressTypeOK, Switch!SwitchTypeOK, Placed, SocketPaths, Target, Switch!Target, Attached,
                Serves, Vetted, Counted
<1> QED
  BY <1>1, <1>2, <1>3, ApplyInv, ClosedInv, ListenInv, ListenFailsInv, RouteInv DEF EgressNext

LEMMA InvHolds == EgressSpec => []IInv
  BY InitInv, StepInv, PTL DEF EgressSpec

(* Only the session that is served has sockets, connections and a count of *)
(* them, and they lead to public addresses, whatever is opened, dialled or *)
(* cut off meanwhile (session-egress.ts:30, proxy.ts:3, :115, :126).       *)
THEOREM OnlyWhatIsServed == EgressSpec => []Confined
  BY InvHolds, IInvConfines, PTL

(* A step of the links is a turn of the switch, or none.                  *)
LEMMA StepSwitch == IInv /\ [EgressNext]_egressVars => [Switch!SwitchNext]_Switch!switch
<1> SUFFICES ASSUME IInv, [EgressNext]_egressVars
             PROVE  Switch!SwitchNext \/ UNCHANGED <<chain, outcome, proxy>>
  BY DEF Switch!switch
<1>1. ASSUME NEW i \in Calls, NEW s \in Sessions, NEW m \in Modes, Ensure(i, s, m)
      PROVE  Switch!SwitchNext
  BY <1>1 DEF Ensure, Modes, Switch!SwitchNext
<1>2. ASSUME NEW i \in Calls, Ensure(i, None, "none") PROVE Switch!SwitchNext
  BY <1>2 DEF Ensure, Modes, Switch!Modes, Switch!SwitchNext
<1>3. CASE Apply
  <2>1. CASE Served(Head(chain)) /\ Resolve("ok") /\ UNCHANGED proxy
    BY <1>3, <2>1 DEF Apply, Served, Resolve, Target, Switch!Target, Switch!Turned, Switch!Turns, Switch!SwitchNext
  <2>2. CASE ~Served(Head(chain)) /\ proxy' = None /\ UNCHANGED <<chain, outcome>>
    <3>1. CASE proxy = None
      BY <2>2, <3>1
    <3>2. CASE proxy # None
      BY <1>3, <2>2, <3>2 DEF Apply, Served, Switch!Target, Switch!Off, Switch!Turns, Switch!SwitchNext
    <3> QED
      BY <3>1, <3>2
  <2> QED
    BY <1>3, <2>1, <2>2 DEF Apply
<1>4. CASE Closed
  <2>1. chain # <<>> /\ proxy = None /\ UNCHANGED proxy
    BY <1>4 DEF Closed, IInv, Placed
  <2>2. CASE Target(Head(chain)) = None /\ Resolve("ok")
    BY <2>1, <2>2 DEF Resolve, Target, Switch!Turned, Switch!Turns, Switch!SwitchNext
  <2>3. CASE Head(chain).sid # None /\ Resolve("failed")
    BY <2>1, <2>3 DEF Resolve, Switch!Fails, Switch!Turns, Switch!SwitchNext
  <2> QED
    BY <1>4, <2>1, <2>2, <2>3 DEF Closed
<1>5. CASE Listen
  <2>1. chain # <<>> /\ proxy = None /\ Target(Head(chain)) = Head(chain).sid
    BY <1>5, ChainLinks DEF Listen, IInv, Placed
  <2>2. CASE proxy' = Head(chain).sid /\ Resolve("ok")
    BY <2>1, <2>2 DEF Resolve, Target, Switch!Turned, Switch!Turns, Switch!SwitchNext
  <2> QED
    BY <1>5, <2>2 DEF Listen
<1>6. CASE ListenFails
  <2>1. chain # <<>> /\ proxy = None /\ Head(chain).sid # None
    BY <1>6, ChainLinks DEF ListenFails, IInv, Placed, Target, Switch!Target
  <2> QED
    BY <1>6, <2>1 DEF ListenFails, Resolve, Target, Switch!Fails, Switch!Turns, Switch!SwitchNext
<1>7. CASE Route
  BY <1>7 DEF Route, links
<1>8. CASE UNCHANGED egressVars
  BY <1>8 DEF egressVars, links
<1> QED
  BY <1>1, <1>2, <1>3, <1>4, <1>5, <1>6, <1>7, <1>8 DEF EgressNext

(* ensure() and close() turn a switch: they are carried out one after the  *)
(* other, off before another session, off after a failure.                 *)
THEOREM TurnsTheSwitch == EgressSpec => ImplementsSwitch
<1>1. EgressInit => Switch!SwitchInit
  BY DEF EgressInit
<1> QED
  BY <1>1, InvHolds, StepSwitch, PTL DEF EgressSpec, ImplementsSwitch, Switch!SwitchSpec
=============================================================================
