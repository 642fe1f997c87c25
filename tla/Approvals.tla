------------------------------ MODULE Approvals ------------------------------
(***************************************************************************)
(* Who may do what without the human: approval cards                       *)
(* (policy/approvals.ts) and the three places that ask for them: the gate  *)
(* of shell commands (policy/gate.ts), the policy of browser actions       *)
(* (policy/browser-policy.ts) and the egress proxy (egress/host-gate.ts),  *)
(* with the domain mode set to "ask".  A command comes from the shell's    *)
(* DEBUG trap (images/terminal/gate.c) over the worker's connection to the *)
(* daemon; an answer comes from the window or, by way of a topic that is   *)
(* read again whenever its stream breaks, from a phone (notify/notifier.ts).*)
(*                                                                         *)
(* An asker asks once.  A command has a rule; a socket has a host; a       *)
(* browser action has a host (navigate), a rule, or both.  A card is known *)
(* by its asker; sockets of a host share the card of the first.            *)
(***************************************************************************)
EXTENDS Naturals

CONSTANTS
  Commands, Sockets, Actions,  (* Askers.                                   *)
  Rules,       (* Approval rules, DomainRule among them.                    *)
  NoSession,   (* Rules with noSession.                                     *)
  Lenient,     (* Rules that a network mode or the autonomy setting waives. *)
  DomainRule,  (* DOMAIN_RULE.                                              *)
  RuleOf,      (* What classify() finds, or NoRule.                         *)
  NoRule,
  Hosts,
  HostOf,      (* The host asked for, or NoHost.                            *)
  NoHost,
  MaxRuns      (* Bound of the model: runs of the workspace.                *)

Askers == Commands \cup Sockets \cup Actions

ASSUME AskerAssumption ==
  /\ Commands \cap Sockets = {} /\ Commands \cap Actions = {} /\ Sockets \cap Actions = {}
  /\ NoRule \notin Rules /\ NoHost \notin Hosts
  /\ NoSession \subseteq Rules /\ Lenient \subseteq Rules /\ DomainRule \in Rules \ NoSession
  /\ RuleOf \in [Askers -> Rules \cup {NoRule}]
  /\ HostOf \in [Askers -> Hosts \cup {NoHost}]
  /\ \A s \in Sockets : HostOf[s] \in Hosts /\ RuleOf[s] = NoRule
  /\ \A c \in Commands : HostOf[c] = NoHost
  /\ \A a \in Actions : RuleOf[a] # DomainRule
  /\ \A c \in Commands : RuleOf[c] # DomainRule
  /\ MaxRuns \in Nat

VARIABLES
  run,      (* The runs so far; the last is the daemon's.                   *)
  alive,    (* It has not ended.                                            *)
  owner,    (* Who holds the terminal.                                      *)
  status,   (* Where each asker stands.                                     *)
  card,     (* Its card: none, open, or open past expiresAt.                *)
  asked,    (* The run it asked under.                                      *)
  session,  (* sessionAllowed: run and rule.                                *)
  seen,     (* seenHosts of the run's browser policy.                       *)
  hosts,    (* HostAllowlist.                                               *)
  kept,     (* Those of them the store keeps for the workspace.             *)
  said,     (* History: the human's answers that were not "deny".           *)
  shell     (* What the shell knows of each command.                        *)

lists == <<session, seen, hosts, kept, said>>
vars == <<run, alive, owner, status, card, asked, lists, shell>>

Outcomes == {"once", "session", "deny"}
Waiting == {"host", "rule"}

TypeOK ==
  /\ run \in 0 .. MaxRuns /\ alive \in BOOLEAN
  /\ owner \in {"human", "agent"}
  /\ status \in [Askers -> {"idle", "free", "allowed", "denied", "gone"} \cup Waiting]
  /\ card \in [Askers -> {"none", "open", "expired"}]
  /\ asked \in [Askers -> 0 .. MaxRuns]
  /\ session \subseteq (0 .. MaxRuns) \X Rules
  /\ seen \subseteq Hosts /\ hosts \subseteq Hosts /\ kept \subseteq Hosts
  /\ said \subseteq Askers \X Waiting \X {"once", "session"}
  /\ shell \in [Commands -> {"off", "held", "asks", "ran", "refused"}]

(* Hosts kept by earlier sessions of the workspace are loaded from the     *)
(* store; the model starts without any.                                    *)
Init ==
  /\ run = 0 /\ alive = FALSE /\ owner = "human"
  /\ status = [a \in Askers |-> "idle"]
  /\ card = [a \in Askers |-> "none"]
  /\ asked = [a \in Askers |-> 0]
  /\ session = {} /\ seen = {} /\ hosts = {} /\ kept = {} /\ said = {}
  /\ shell = [c \in Commands |-> "off"]

-----------------------------------------------------------------------------
(* Asking.                                                                 *)

(* ApprovalManager.request: what this asker waits for is on a card now.    *)
Ask(a, what) ==
  /\ status' = [status EXCEPT ![a] = what]
  /\ card' = [card EXCEPT ![a] = "open"]
  /\ asked' = [asked EXCEPT ![a] = run]
  /\ UNCHANGED <<run, alive, owner, lists>>

Answered(a, answer) ==
  /\ status' = [status EXCEPT ![a] = answer]
  /\ asked' = [asked EXCEPT ![a] = run]
  /\ UNCHANGED <<run, alive, owner, card, lists>>

(* Mutant: a grant of an earlier run is honoured.                          *)
GrantedEver(rule) == \E r \in 0 .. MaxRuns : <<r, rule>> \in session

SessionAllowed(rule) == <<run, rule>> \in session

(* Mutant: a grant for anything lets commands through.                     *)
GateGrantedAny(c) == \E rule \in Rules : <<run, rule>> \in session

GateGranted(c) == SessionAllowed(RuleOf[c])

(* classify(): the rules a command may fall under, as the network mode and *)
(* the autonomy setting of the moment have it.                             *)
Classify(c) == {RuleOf[c]} \cup (IF RuleOf[c] \in Lenient THEN {NoRule} ELSE {})

(* CommandGate.check, of a request that has been sent.                     *)
GateCheck(c) ==
  /\ status[c] = "idle" /\ shell[c] \in {"asks", "refused"}
  /\ \/ (owner = "human" \/ NoRule \in Classify(c)) /\ Answered(c, "free")
     \/ /\ owner = "agent" /\ RuleOf[c] # NoRule
        /\ \/ ~alive /\ Answered(c, "denied")
           \/ alive /\ GateGranted(c) /\ Answered(c, "allowed")
           \/ alive /\ ~GateGranted(c) /\ Ask(c, "rule")

CardOfHost(h) == {s \in Sockets : HostOf[s] = h /\ card[s] # "none"}

InFlight(h) == CardOfHost(h) # {}

(* currentRunId() of the decider: the live run, or none while the browser  *)
(* is the human's, which may be at any time of a run.                      *)
CurrentRun == {0} \cup (IF alive THEN {run} ELSE {})

(* The egress decider; a later socket of the host joins the card.          *)
Connect(s) ==
  /\ status[s] = "idle"
  /\ \E current \in CurrentRun :
       \/ (HostOf[s] \in hosts \/ current = 0) /\ Answered(s, "allowed")
       \/ /\ HostOf[s] \notin hosts /\ current # 0
          /\ IF InFlight(HostOf[s])
             THEN /\ status' = [status EXCEPT ![s] = "host"]
                  /\ asked' = [asked EXCEPT ![s] = run]
                  /\ UNCHANGED <<run, alive, owner, card, lists>>
             ELSE Ask(s, "host")

(* classifyBrowserAction(); an action that is handed off or for which      *)
(* nobody is asked has no rule.                                           *)
ClassifyAction(a) == RuleOf[a]

(* The second half of BrowserActionPolicy.authorize, for an action asked   *)
(* under run that has passed the first.                                    *)
RuleStage(a) ==
  IF ClassifyAction(a) = NoRule \/ (ClassifyAction(a) \notin NoSession /\ SessionAllowed(ClassifyAction(a)))
  THEN "allowed" ELSE "rule"

KnownHost(a) == HostOf[a] = NoHost \/ HostOf[a] \in seen \cup hosts

(* BrowserActionPolicy.authorize up to its first card.                     *)
Authorize(a) ==
  /\ status[a] = "idle" /\ alive
  /\ \A b \in Actions : status[b] \notin Waiting
  /\ IF ~KnownHost(a) /\ ~SessionAllowed(DomainRule)
     THEN Ask(a, "host")
     ELSE /\ status' = [status EXCEPT ![a] = RuleStage(a)]
          /\ card' = IF RuleStage(a) = "rule" THEN [card EXCEPT ![a] = "open"] ELSE card
          /\ asked' = [asked EXCEPT ![a] = run]
          /\ IF KnownHost(a) THEN UNCHANGED <<seen, hosts>>
             ELSE seen' = seen \cup {HostOf[a]} /\ hosts' = hosts \cup {HostOf[a]}
          /\ UNCHANGED <<run, alive, owner, session, kept, said>>

-----------------------------------------------------------------------------
(* Answering: ApprovalManager.finish and what its askers do next.          *)

(* What the card of an asker is about; a command that hung up left its     *)
(* card behind.                                                            *)
About(a) == IF a \in Sockets \/ status[a] = "host" THEN "host" ELSE "rule"

(* Who is waiting for the card of a: every socket of its host, or a alone. *)
WaitingFor(a) ==
  IF a \in Sockets
  THEN {s \in Sockets : HostOf[s] = HostOf[a] /\ status[s] = "host"}
  ELSE {a} \cap {b \in Askers : status[b] \in Waiting}

(* A navigation that was granted its host may need a second card.          *)
Granted(a) ==
  IF a \in Actions /\ status[a] = "host" /\ RuleStage(a) = "rule" THEN "rule" ELSE "allowed"

CardRule(a) == IF About(a) = "host" THEN DomainRule ELSE RuleOf[a]

(* finish() keeps a session grant unless the rule forbids it; nothing ever *)
(* asks for the grants of the egress rule, so they are left out.           *)
Grants(a, outcome) ==
  IF a \notin Sockets /\ outcome = "session" /\ CardRule(a) \notin NoSession
  THEN {<<asked[a], CardRule(a)>>} ELSE {}

(* Mutant: the host is listed whatever the answer was.                     *)
ClearsHostAlways(a, outcome) == About(a) = "host"

ClearsHost(a, outcome) == About(a) = "host" /\ outcome # "deny"

(* HostAllowlist.add(), with `persist'.                                    *)
Lists(cleared, outcome) ==
  /\ hosts' = hosts \cup cleared
  /\ kept' = IF outcome = "session" THEN kept \cup cleared ELSE kept

Finish(a, what, outcome) ==
  LET then == IF outcome = "deny" THEN "denied" ELSE Granted(a)
      cleared == IF ClearsHost(a, outcome) THEN {HostOf[a]} ELSE {}
  IN /\ status' = [b \in Askers |-> IF b \in WaitingFor(a) THEN then ELSE status[b]]
     /\ card' = [card EXCEPT ![a] = IF then = "rule" THEN "open" ELSE "none"]
     /\ session' = session \cup Grants(a, outcome)
     /\ seen' = IF a \in Actions THEN seen \cup cleared ELSE seen
     /\ Lists(cleared, outcome)
     /\ said' = IF outcome = "deny" THEN said ELSE said \cup {<<a, what, outcome>>}
     /\ UNCHANGED <<run, alive, owner, asked>>

(* Mutant: the answer counts although the card has expired.                *)
HeardAlways(a, outcome) == outcome

(* decide(): what an answer is worth once the card has expired.            *)
Heard(a, outcome) == IF card[a] = "expired" THEN "deny" ELSE outcome

(* An answer names its card: the asker, and what it asked.                 *)
(* Mutant: an answer goes to the card that its asker has open.             *)
IsOfAsker(a, what) == card[a] # "none"

Pending(a, what) == card[a] # "none" /\ About(a) = what

Decide(a, what, outcome) == Pending(a, what) /\ Finish(a, what, Heard(a, outcome))

(* A click on the card in the window.                                      *)
Click(a, outcome) == Decide(a, About(a), outcome)

(* An answer on the phone is put on a topic, which is read from where the  *)
(* daemon began each time its stream breaks: an answer to any card an      *)
(* asker has, or had before, may arrive late, and again.                   *)
Cards(a) == {what \in Waiting : what = About(a) \/ \E o \in Outcomes : <<a, what, o>> \in said}
OnReply(a, outcome) == \E what \in Cards(a) : Decide(a, what, outcome)

(* Time passes expiresAt; the timer fires some time after.                 *)
Expire(a) ==
  /\ card[a] = "open"
  /\ card' = [card EXCEPT ![a] = "expired"]
  /\ UNCHANGED <<run, alive, owner, status, asked, lists>>

TimerFires(a) == card[a] = "expired" /\ Finish(a, About(a), "deny")

(* Mutant: only the cards of commands and browser actions are closed.      *)
PendingOfCallers == {a \in Commands \cup Actions : card[a] # "none" /\ asked[a] = run}

PendingOfRun == {a \in Askers : card[a] # "none" /\ asked[a] = run}

(* denyPending: every card of the run is answered with "deny".             *)
DenyPending ==
  LET gone == PendingOfRun
  IN /\ status' = [b \in Askers |-> IF \E a \in gone : b \in WaitingFor(a) THEN "denied" ELSE status[b]]
     /\ card' = [a \in Askers |-> IF a \in gone THEN "none" ELSE card[a]]
     /\ UNCHANGED <<asked, lists>>

-----------------------------------------------------------------------------
(* The run and the leases.                                                 *)

StartRun ==
  /\ ~alive /\ run < MaxRuns
  /\ run' = run + 1 /\ alive' = TRUE /\ owner' = "agent"
  /\ seen' = {}
  /\ UNCHANGED <<status, card, asked, session, hosts, kept, said>>

(* Stop, or pauseForHuman: the run goes on to its end or to a handoff.     *)
Interrupt ==
  /\ alive /\ PendingOfRun # {}
  /\ DenyPending
  /\ UNCHANGED <<run, alive, owner>>

(* A terminal state: the listener takes the leases, then closes the cards; *)
(* the run cannot end while its policy still waits for an answer.          *)
EndRun ==
  /\ alive
  /\ \A a \in Actions : status[a] \notin Waiting
  /\ alive' = FALSE /\ owner' = "human"
  /\ DenyPending
  /\ UNCHANGED run

TakeLease(who) ==
  /\ owner # who /\ (who = "agent" => alive)
  /\ owner' = who
  /\ UNCHANGED <<run, alive, status, card, asked, lists>>

(* A socket goes away; the card stays.                                     *)
HangUp(s) ==
  /\ status[s] \in Waiting
  /\ status' = [status EXCEPT ![s] = "gone"]
  /\ UNCHANGED <<run, alive, owner, card, asked, lists>>

-----------------------------------------------------------------------------
(* The way from the shell to the gate.                                     *)
Daemon == UNCHANGED <<run, alive, owner, card, asked, lists>>

Moves(c, to) == shell' = [shell EXCEPT ![c] = to]
(* It is refused before the gate has been asked.                           *)
Unasked(c) == Moves(c, "refused") /\ status' = [status EXCEPT ![c] = "gone"]

(* The trap holds a command and asks the worker, if it can.                *)
Trap(c) ==
  /\ shell[c] = "off"
  /\ (Moves(c, "held") /\ UNCHANGED status) \/ Unasked(c)
  /\ Daemon

(* The worker asks the daemon, or refuses if nobody is connected to it.    *)
ForwardGate(c) ==
  /\ shell[c] = "held"
  /\ (Moves(c, "asks") /\ UNCHANGED status) \/ Unasked(c)
  /\ Daemon

(* The request comes before the gate answers on this connection.           *)
NoHandler(c) ==
  /\ shell[c] = "asks" /\ status[c] = "idle"
  /\ Unasked(c) /\ Daemon

(* The gate's client waits too long, is interrupted, loses its connection  *)
(* or reads no answer; the daemon does not hear of it, and may yet ask.    *)
GateFails(c) ==
  /\ shell[c] = "asks"
  /\ Moves(c, "refused")
  /\ UNCHANGED status /\ Daemon

(* The decision arrives; the command runs if it is "allow".                *)
Obeys(c) == IF status[c] = "denied" THEN "refused" ELSE "ran"
(* Mutant: whatever is not a refusal lets the command run.                 *)
RepliesOpen(c) ==
  /\ shell[c] = "asks" /\ status[c] # "idle"
  /\ Moves(c, Obeys(c))
  /\ UNCHANGED status /\ Daemon
Replies(c) ==
  /\ shell[c] = "asks" /\ status[c] \in {"free", "allowed", "denied"}
  /\ Moves(c, Obeys(c))
  /\ UNCHANGED status /\ Daemon

Asking ==
  \/ \E c \in Commands : GateCheck(c)
  \/ \E s \in Sockets : Connect(s)
  \/ \E a \in Actions : Authorize(a)

Timing == \E a \in Askers : Expire(a) \/ TimerFires(a)

Gated ==
  \/ Asking \/ Timing
  \/ \E a \in Askers, outcome \in Outcomes : Click(a, outcome) \/ OnReply(a, outcome)
  \/ \E s \in Sockets : HangUp(s)
  \/ StartRun \/ Interrupt \/ EndRun
  \/ \E who \in {"human", "agent"} : TakeLease(who)

Next ==
  \/ Gated /\ UNCHANGED shell
  \/ \E c \in Commands : Trap(c) \/ ForwardGate(c) \/ NoHandler(c) \/ GateFails(c) \/ Replies(c)

Spec == Init /\ [][Next]_vars

-----------------------------------------------------------------------------
(* A gated shell command of the agent runs only on the human's word: an    *)
(* answer to its own card, or "session" to a card of the same rule in the  *)
(* same run, never for a noSession rule, whatever was lost, late or heard  *)
(* twice on the way (gate.c:2).  The other commands were checked while the *)
(* human held the terminal, or are not gated as it was set.                *)
GrantedBy(a, rule, what) ==
  \E b \in Askers : /\ asked[b] = asked[a]
                    /\ <<b, what, "session">> \in said
                    /\ IF what = "rule" THEN RuleOf[b] = rule /\ rule \notin NoSession ELSE b \in Actions

ActionsNeedTheHuman ==
  \A a \in Actions : status[a] = "allowed" /\ RuleOf[a] # NoRule =>
    \/ \E outcome \in {"once", "session"} : <<a, "rule", outcome>> \in said
    \/ GrantedBy(a, RuleOf[a], "rule")

CommandsGranted ==
  \A c \in Commands :
    /\ status[c] # "free" /\ status'[c] = "free" => owner = "human" \/ NoRule \in Classify(c)
    /\ shell[c] # "ran" /\ shell'[c] = "ran" /\ RuleOf[c] # NoRule =>
         \/ status[c] = "free"
         \/ \E outcome \in {"once", "session"} : <<c, "rule", outcome>> \in said'
         \/ GrantedBy(c, RuleOf[c], "rule")'

(* A host is cleared only by the human: by name, or by letting a run open  *)
(* new domains; the store keeps only hosts whose card was answered with    *)
(* "session".                                                              *)
HostsNeedTheHuman ==
  /\ \A h \in hosts : \E a \in Askers :
       /\ HostOf[a] = h
       /\ \/ \E outcome \in {"once", "session"} : <<a, "host", outcome>> \in said
          \/ a \in Actions /\ GrantedBy(a, DomainRule, "host")
  /\ \A h \in kept : \E a \in Askers : HostOf[a] = h /\ <<a, "host", "session">> \in said

(* Nothing that needs the human's word goes through without it: no host,   *)
(* no command of the shell, no other action of the agent.                  *)
NeedsTheHuman ==
  [][HostsNeedTheHuman' /\ ActionsNeedTheHuman' /\ CommandsGranted]_vars

(* A run that ended cannot use an answer any more: no card outlives its    *)
(* run (approvals.ts:69), and whoever waits, waits for a card that is open.*)
CardsHaveUse ==
  /\ TypeOK
  /\ \A a \in Askers : card[a] # "none" => alive /\ asked[a] = run
  /\ \A b \in Askers : status[b] \in Waiting =>
       \E a \in Askers : card[a] # "none" /\ b \in WaitingFor(a)

(* A card that has expired can only be answered with "deny": an answer the *)
(* human gives too late opens nothing (approvals.ts:61).                   *)
LateAnswersDeny ==
  [][\A a \in Askers : card[a] = "expired" /\ card'[a] # "expired" =>
       /\ UNCHANGED <<hosts, kept, session>>
       /\ \A b \in WaitingFor(a) : status'[b] = "denied"]_vars
=============================================================================
