------------------------------- MODULE Provider -------------------------------
(***************************************************************************)
(* What lies between a run and its model (services/agentd/src/provider):   *)
(* the HTTP adapters (openai.ts, openrouter.ts), with their attempts, the   *)
(* conversation that OpenAI keeps and the one that OpenRouter's adapter     *)
(* carries itself, and Codex's                                              *)
(* (codex.ts, codex-process.ts): a child process, its requests, the events *)
(* it sends at any time, and the interrupt that Stop, a failed turn and    *)
(* the end of the run may all wait for.                                    *)
(***************************************************************************)
EXTENDS Naturals, Sequences

CONSTANTS
  ToolCalls,     (* Codex's tool calls.                                      *)
  MaxAttempts,   (* maxAttempts.                                             *)
  MaxRequests,   (* Bound: model turns.                                      *)
  MaxStarts,     (* Bound: the run and its continuations.                    *)
  MaxTokens,     (* Bound: tokens the thread uses.                           *)
  MaxEvents      (* Bound: events waiting to be read.                        *)

ASSUME ProviderAssumption ==
  /\ MaxAttempts \in Nat \ {0} /\ MaxRequests \in Nat /\ MaxStarts \in Nat
  /\ MaxTokens \in Nat /\ MaxEvents \in Nat

VARIABLES
  kind,          (* Which adapter the run has.                               *)
  loop,          (* The run: where it is, and what the next request says.    *)
  ck,            (* Its checkpoint, as saved.                                *)
  step,          (* turn()'s await.                                          *)
  attempt,       (* post()'s attempt.                                        *)
  chat,          (* The conversation, up to and with the request posted.     *)
  log,           (* What OpenAI has stored, by response.                     *)
  over,          (* The turn's own time limit has passed.                    *)
  adapter,       (* The adapter's fields.                                    *)
  child,         (* CodexProcess and its child.                              *)
  thread,        (* Codex's side of the thread.                              *)
  asked,         (* turn/interrupt waits for its answer.                     *)
  waits,         (* Who waits for it: "stop", "catch", "finish".             *)
  charged,       (* Tokens that turns have reported to the run.              *)
  requests, starts

http == <<attempt, chat, log>>
codex == <<child, thread, asked, waits, charged>>
count == <<requests, starts>>
providerVars == <<kind, loop, ck, step, over, adapter, http, codex, count>>

None == 0
Waiting == {"init", "auth", "resume", "thread", "start", "steer", "next"}
NoProcess == [up |-> "none", failed |-> FALSE, events |-> <<>>]
NoState == [response |-> None, messages |-> <<>>]
Adapter == [state |-> NoState, rpc |-> FALSE, thread |-> FALSE, turn |-> FALSE, resume |-> FALSE,
            listening |-> FALSE, pending |-> {}, total |-> 0, reported |-> 0]
(* Mutant: a continued thread is reported from its beginning.              *)
RestoredFromZero(k) == [Adapter EXCEPT !.state = k.context, !.thread = k.thread, !.resume = k.thread]
(* restoreContext(), of an adapter for the model that the state is of.     *)
RestoredContext(k) == [Adapter EXCEPT !.state = k.context]
(* restore() and restoreContext(), from the constructor of the run.        *)
Restored(k) ==
  [RestoredContext(k) EXCEPT !.thread = k.thread, !.resume = k.thread,
                             !.total = k.usage, !.reported = k.usage]

ProviderTypeOK ==
  /\ kind \in {"openai", "openrouter", "codex"}
  /\ adapter.state.response \in 0 .. requests /\ DOMAIN log \subseteq 1 .. requests
  /\ loop.at \in {"idle", "calling", "tools", "finish", "settled"}
  /\ attempt \in 1 .. MaxAttempts
  /\ adapter.pending \subseteq ToolCalls /\ thread.open \subseteq ToolCalls
  /\ child.up \in {"none", "run", "ending"} /\ adapter.reported <= adapter.total

(* start(): pendingResults() and the prompt, or the goal.                  *)
Fresh(k) ==
  LET on == kind # "codex" /\ k.response # None IN
  [at |-> "idle", aborted |-> FALSE, prev |-> IF on THEN k.response ELSE None, results |-> on,
   call |-> IF on THEN k.pending ELSE None, picture |-> FALSE, message |-> on, compact |-> FALSE]
ProviderInit ==
  /\ kind \in {"openai", "openrouter", "codex"}
  /\ ck = [response |-> None, pending |-> None, context |-> NoState, thread |-> FALSE, usage |-> 0]
  /\ loop = Fresh(ck) /\ step = "off" /\ attempt = 1 /\ over = FALSE /\ chat = <<>> /\ log = <<>>
  /\ adapter = Adapter /\ child = NoProcess /\ thread = [active |-> FALSE, open |-> {}, told |-> 0]
  /\ asked = FALSE /\ waits = {} /\ charged = 0 /\ requests = 0 /\ starts = 1

-----------------------------------------------------------------------------
(* What a request adds to the conversation.                                *)
Item(what, call) == [what |-> what, call |-> call]
If(condition, item) == IF condition THEN <<item>> ELSE <<>>
Results == If(loop.call # None, Item("result", loop.call))
(* Mutant: a message comes before the results.                             *)
MessageFirst(message) == If(message, Item("message", None)) \o Results
(* OpenAI's results hold their pictures.                                   *)
InputOpenAI(message) == Results \o If(message, Item("message", None))
(* OpenRouter's pictures are messages, after all the results.              *)
InputOpenRouter(message) ==
  Results \o If(loop.picture, Item("picture", loop.call)) \o If(message, Item("message", None))
Asking(message) ==
  CASE kind = "codex" -> <<>>
    [] kind # "codex" /\ ~loop.results -> <<Item("goal", None)>>
    [] kind = "openai" /\ loop.results -> log[loop.prev] \o InputOpenAI(message)
    [] kind = "openrouter" /\ loop.results -> adapter.state.messages \o InputOpenRouter(message)

(* The run.                                                                *)
Refuses ==
  /\ kind = "openrouter" /\ loop.results
  /\ (adapter.state.response = None \/ adapter.state.response # loop.prev)

(* A turn of the task, or one that sums it up because the chain is long.   *)
CallModel ==
  /\ loop.at = "idle" /\ ~loop.aborted /\ requests < MaxRequests
  /\ \E compact \in BOOLEAN :
       /\ compact => kind # "codex" /\ loop.results /\ ~loop.message
       /\ IF Refuses THEN loop' = [loop EXCEPT !.at = "finish"] /\ UNCHANGED <<step, requests, chat>>
          ELSE /\ loop' = [loop EXCEPT !.at = "calling", !.compact = compact]
               /\ step' = IF kind = "codex" THEN "begin" ELSE "post"
               /\ chat' = Asking(loop.message \/ compact)
               /\ requests' = requests + 1
  /\ attempt' = 1 /\ over' = FALSE
  /\ UNCHANGED <<kind, ck, adapter, log, codex, starts>>
(* The summary is the goal of a new conversation; what it calls is left.   *)
Compacted ==
  /\ loop.at = "tools" /\ loop.compact
  /\ loop' = [loop EXCEPT !.at = "idle", !.prev = None, !.results = FALSE, !.call = None, !.compact = FALSE]
  /\ UNCHANGED <<kind, ck, step, over, adapter, http, codex, count>>
(* The calls of the turn are run; with none, the answer is final.          *)
RunTools ==
  /\ loop.at = "tools" /\ ~loop.compact /\ loop.call # None
  /\ \E picture \in BOOLEAN :
       loop' = [loop EXCEPT !.at = IF loop.aborted THEN "finish" ELSE "idle", !.results = TRUE,
                      !.picture = picture /\ kind = "openrouter", !.message = FALSE]
  /\ UNCHANGED <<kind, ck, step, over, adapter, http, codex, count>>
FinalAnswer ==
  /\ loop.at = "tools" /\ ~loop.compact /\ loop.call = None
  /\ loop' = [loop EXCEPT !.at = "finish"]
  /\ UNCHANGED <<kind, ck, step, over, adapter, http, codex, count>>
(* The next turn is not begun.                                             *)
ThrowIfStopped ==
  /\ loop.at = "idle" /\ loop.aborted
  /\ loop' = [loop EXCEPT !.at = "finish"]
  /\ UNCHANGED <<kind, ck, step, over, adapter, http, codex, count>>

(* interrupt() and close().                                                *)
Interruptible == adapter.rpc /\ adapter.thread /\ adapter.turn
Ended(p) == [p EXCEPT !.up = IF @ = "run" THEN "ending" ELSE @, !.failed = TRUE, !.events = <<>>]
ForgetsState(y) == [y EXCEPT !.state = NoState]
Closed(y) == [ForgetsState(y) EXCEPT !.rpc = FALSE, !.listening = FALSE, !.pending = {}]
Close ==
  /\ adapter' = Closed(adapter)
  /\ child' = IF adapter.rpc THEN Ended(child) ELSE child
(* Who interrupts waits, unless there is nothing to interrupt.             *)
Interrupts(who) ==
  IF Interruptible THEN asked' = TRUE /\ waits' = waits \cup {who} /\ UNCHANGED <<adapter, child>>
                   ELSE Close /\ UNCHANGED <<asked, waits>>
Abort ==
  /\ loop.at \in {"idle", "calling", "tools"} /\ ~loop.aborted
  /\ IF adapter.listening THEN Interrupts("stop") ELSE UNCHANGED <<adapter, child, asked, waits>>
  /\ loop' = [loop EXCEPT !.aborted = TRUE]
  /\ UNCHANGED <<kind, ck, step, over, http, thread, charged, count>>

(* start()'s finally.                                                      *)
(* Mutant: the adapter is left open.                                       *)
FinishOpen ==
  /\ loop.at = "finish" /\ "finish" \notin waits
  /\ IF loop.aborted /\ Interruptible
     THEN asked' = TRUE /\ waits' = waits \cup {"finish"} /\ UNCHANGED <<adapter, child, loop>>
     ELSE loop' = [loop EXCEPT !.at = "settled"] /\ UNCHANGED <<adapter, child, asked, waits>>
  /\ UNCHANGED <<kind, ck, step, over, http, thread, charged, count>>
Finish ==
  /\ loop.at = "finish" /\ "finish" \notin waits
  /\ IF loop.aborted /\ Interruptible
     THEN asked' = TRUE /\ waits' = waits \cup {"finish"} /\ UNCHANGED <<adapter, child, loop>>
     ELSE Close /\ loop' = [loop EXCEPT !.at = "settled"] /\ UNCHANGED <<asked, waits>>
  /\ UNCHANGED <<kind, ck, step, over, http, thread, charged, count>>

(* A continuation, with an adapter of its own; the old child has gone.     *)
Continue ==
  /\ loop.at = "settled" /\ starts < MaxStarts /\ child.up = "none"
  /\ starts' = starts + 1
  /\ adapter' = Restored(ck) /\ child' = NoProcess
  /\ loop' = Fresh(ck)
  /\ UNCHANGED <<kind, ck, step, over, http, thread, asked, waits, charged, requests>>
(* The daemon dies; what it had saved is all that a continuation has.      *)
Dies ==
  /\ loop.at # "settled"
  /\ loop' = [loop EXCEPT !.at = "settled"]
  /\ adapter' = Closed(adapter) /\ child' = IF child.up = "none" THEN child ELSE Ended(child)
  /\ step' = "off" /\ over' = FALSE /\ asked' = FALSE /\ waits' = {}
  /\ UNCHANGED <<kind, ck, http, thread, charged, count>>

-----------------------------------------------------------------------------
(* callModel(), once the adapter has answered: the checkpoint is saved.    *)
(* Mutant: the conversation is saved with the next request.                *)
SavedLate(response, call) ==
  [ck EXCEPT !.response = response, !.pending = call, !.context = adapter.state]
(* exportContext(): the pictures stay behind.                              *)
Exported(state) ==
  [state EXCEPT !.messages = [i \in DOMAIN @ |->
    IF @[i].what = "picture" THEN Item("omitted", @[i].call) ELSE @[i]]]
Saved(response, call) ==
  [ck EXCEPT !.response = response, !.pending = call, !.context = Exported(adapter'.state)]
TurnAnswers(response, call) ==
  /\ loop' = [loop EXCEPT !.at = "tools", !.call = call,
                          !.prev = IF kind = "codex" THEN None ELSE response]
  /\ step' = "off"

(* HTTP: one attempt, and the wait before the next.                        *)
Http == UNCHANGED <<kind, over, codex, count>>
Throws == loop' = [loop EXCEPT !.at = "finish"] /\ step' = "off"
Unanswered == UNCHANGED <<ck, adapter, chat, log>> /\ Http

Post ==
  /\ step = "post"
  /\ IF loop.aborted THEN Throws ELSE step' = "wait" /\ UNCHANGED loop
  /\ UNCHANGED attempt /\ Unanswered
(* OpenAI stores the answer with what it answers.                          *)
Stored(q, call) ==
  [k \in DOMAIN log \cup {requests} |->
     IF k = requests THEN Append(q, Item("answer", call)) ELSE log[k]]
(* A complete answer: its text, or what it calls.                          *)
CompletesOpenAI ==
  /\ step = "wait" /\ kind = "openai"
  /\ \E call \in {None, 1} :
       /\ log' = Stored(chat, call)
       /\ UNCHANGED adapter
       /\ ck' = Saved(requests, call) /\ TurnAnswers(requests, call)
  /\ UNCHANGED <<attempt, chat>> /\ Http
(* OpenRouter's adapter takes the answer into the conversation it keeps.   *)
CompletesOpenRouter ==
  /\ step = "wait" /\ kind = "openrouter"
  /\ \E call \in {None, 1} :
       /\ adapter' = [adapter EXCEPT
            !.state = [response |-> requests, messages |-> Append(chat, Item("answer", call))]]
       /\ ck' = Saved(requests, call) /\ TurnAnswers(requests, call)
  /\ UNCHANGED http /\ Http
(* An answer that does not parse, or is failed, incomplete or empty.       *)
Unusable ==
  /\ step = "wait" /\ Throws
  /\ UNCHANGED attempt /\ Unanswered
(* Mutant: a failure is retried for ever.                                  *)
RetriesForEver == step' = "post" /\ UNCHANGED <<loop, attempt>>
(* The next attempt, after a wait, if there is one.                        *)
Retries ==
  IF attempt = MaxAttempts THEN Throws /\ UNCHANGED attempt
  ELSE step' = "sleep" /\ UNCHANGED <<loop, attempt>>
(* OpenAI: no connection, the attempt's time limit, or a body cut short.   *)
FailsOpenAI ==
  /\ step = "wait" /\ kind = "openai"
  /\ IF loop.aborted THEN Throws /\ UNCHANGED attempt ELSE Retries
  /\ Unanswered
(* Another status: its body is read for the message, after the try.        *)
StatusOpenAI ==
  /\ step = "wait" /\ kind = "openai" /\ step' = "text"
  /\ UNCHANGED <<loop, attempt>> /\ Unanswered
(* 408, 429 or 5xx is tried again; another status, or a body that does not *)
(* come, ends the turn.                                                    *)
ErrorRead ==
  /\ step = "text"
  /\ \/ ~loop.aborted /\ Retries
     \/ Throws /\ UNCHANGED attempt
  /\ Unanswered
(* OpenRouter: a status that is known decides, a broken body or not.       *)
FailsOpenRouter ==
  /\ step = "wait" /\ kind = "openrouter"
  /\ \/ ~loop.aborted /\ Retries
     \/ Throws /\ UNCHANGED attempt
  /\ Unanswered
Backoff ==
  /\ step = "sleep"
  /\ IF loop.aborted THEN Throws /\ UNCHANGED attempt
     ELSE step' = "post" /\ attempt' = attempt + 1 /\ UNCHANGED loop
  /\ Unanswered

-----------------------------------------------------------------------------
(* Codex: turn().                                                          *)
Signalled == loop.aborted \/ over
Codex == UNCHANGED <<kind, http, starts, requests>>
(* Once the process is there: the thread, the steering, or the results.    *)
Asked == IF loop.results THEN "answers" ELSE IF adapter.resume THEN "resume" ELSE "thread"

(* The app-server, and who hears of its messages, errors and exit.         *)
Spawned == [NoProcess EXCEPT !.up = "run"]
(* send() throws once the process has failed.                              *)
Sends == ~child.failed
Begin ==
  /\ step = "begin"
  /\ IF Signalled THEN step' = "catch" /\ UNCHANGED <<adapter, child>>
     ELSE IF adapter.rpc THEN step' = Asked /\ UNCHANGED <<adapter, child>>
     ELSE /\ step' = "init"
          /\ adapter' = [adapter EXCEPT !.rpc = TRUE, !.listening = TRUE]
          /\ child' = Spawned
  /\ UNCHANGED <<loop, ck, over, thread, asked, waits, charged>> /\ Codex
(* A request is answered.                                                  *)
Replied ==
  /\ step \in Waiting \ {"steer", "next"} /\ ~child.failed /\ ~Signalled
  /\ step' = CASE step = "init" -> "auth" [] step = "auth" -> Asked
               [] step \in {"resume", "thread"} -> "start" [] step = "start" -> "next"
  /\ adapter' = [adapter EXCEPT !.resume = IF step = "resume" THEN FALSE ELSE @,
                    !.thread = @ \/ step = "thread", !.turn = @ \/ step = "start"]
  /\ ck' = IF step \in {"resume", "thread"} THEN [ck EXCEPT !.thread = TRUE] ELSE ck
  /\ thread' = IF step \in {"resume", "thread"} THEN [thread EXCEPT !.active = TRUE] ELSE thread
  /\ UNCHANGED <<loop, over, child, asked, waits, charged>> /\ Codex
(* A message goes before the results, and its request is answered.         *)
Steer ==
  /\ step = "answers" /\ Sends /\ step' = "steer"
  /\ UNCHANGED <<loop, ck, over, adapter, child, thread, asked, waits, charged>> /\ Codex
Answers ==
  /\ step \in {"answers", "steer"} /\ Sends /\ (step = "steer" => ~Signalled)
  /\ IF loop.call \in adapter.pending
     THEN /\ adapter' = [adapter EXCEPT !.pending = @ \ {loop.call}]
          /\ thread' = [thread EXCEPT !.open = @ \ {loop.call}]
          /\ step' = "next"
     ELSE step' = "catch" /\ UNCHANGED <<adapter, thread>>
  /\ UNCHANGED <<loop, ck, over, child, asked, waits, charged>> /\ Codex

(* result().                                                               *)
Result(call) ==
  /\ charged' = charged + (adapter.total - adapter.reported)
  /\ ck' = Saved(requests, call)
  /\ TurnAnswers(requests, call)
NextEvent ==
  /\ step = "next" /\ ~Signalled /\ ~child.failed /\ child.events # <<>>
  /\ LET e == Head(child.events) IN
     /\ child' = [child EXCEPT !.events = Tail(@)]
     /\ \/ /\ e.kind = "call"
           /\ adapter' = [adapter EXCEPT !.pending = @ \cup {e.n}, !.reported = adapter.total]
           /\ Result(e.n)
        \/ /\ e.kind = "usage"
           /\ adapter' = [adapter EXCEPT !.total = e.n] /\ ck' = [ck EXCEPT !.usage = e.n]
           /\ UNCHANGED <<loop, step, charged>>
        \/ /\ e.kind = "done"
           /\ adapter' = [adapter EXCEPT !.reported = adapter.total]
           /\ Result(None)
        \/ /\ e.kind = "bad"   (* What it does not serve, or the turn failed. *)
           /\ step' = "catch" /\ UNCHANGED <<adapter, loop, ck, charged>>
  /\ UNCHANGED <<over, thread, asked, waits>> /\ Codex
(* A request is refused, its answer unusable, or the process has ended;    *)
(* or the run is stopped or the turn takes too long.                       *)
Rejected ==
  /\ step \in Waiting \cup {"answers"}
  /\ step = "next" => Signalled \/ child.failed
  /\ step = "answers" => child.failed
  /\ step' = "catch"
  /\ UNCHANGED <<loop, ck, over, adapter, child, thread, asked, waits, charged>> /\ Codex
Overtime ==
  /\ step \in Waiting /\ ~over /\ over' = TRUE
  /\ UNCHANGED <<loop, ck, step, adapter, child, thread, asked, waits, charged>> /\ Codex
(* The catch of turn().                                                    *)
Catch ==
  /\ step = "catch"
  /\ Interrupts("catch")
  /\ IF Interruptible THEN step' = "catching" /\ UNCHANGED loop ELSE Throws
  /\ UNCHANGED <<ck, over, thread, charged>> /\ Codex
(* Mutant: the interrupt has no time limit of its own.                     *)
InterruptedInTime ==
  /\ asked /\ thread.active /\ asked' = FALSE /\ waits' = {}
  /\ Close
  /\ thread' = [thread EXCEPT !.active = FALSE, !.open = {}]
  /\ loop' = IF "finish" \in waits THEN [loop EXCEPT !.at = "settled"]
          ELSE IF "catch" \in waits THEN [loop EXCEPT !.at = "finish"] ELSE loop
  /\ step' = IF "catch" \in waits THEN "off" ELSE step
  /\ UNCHANGED <<ck, over, charged>> /\ Codex
(* An answer, a failure of the process, or five seconds.                   *)
Interrupted ==
  /\ asked /\ asked' = FALSE /\ waits' = {}
  /\ Close
  /\ \/ UNCHANGED thread
     \/ child.up = "run" /\ thread' = [thread EXCEPT !.active = FALSE, !.open = {}]
  /\ loop' = IF "finish" \in waits THEN [loop EXCEPT !.at = "settled"]
          ELSE IF "catch" \in waits THEN [loop EXCEPT !.at = "finish"] ELSE loop
  /\ step' = IF "catch" \in waits THEN "off" ELSE step
  /\ UNCHANGED <<ck, over, charged>> /\ Codex

(* Codex's side.                                                           *)
Side == UNCHANGED <<kind, loop, ck, step, over, adapter, http, asked, waits, charged, count>>
Event(k, n) ==
  /\ thread.active /\ child.up = "run" /\ Len(child.events) < MaxEvents
  /\ child' = IF child.failed THEN child ELSE [child EXCEPT !.events = Append(@, [kind |-> k, n |-> n])]
AsksCall(c) ==
  /\ c \notin thread.open /\ c # loop.call /\ Event("call", c)
  /\ thread' = [thread EXCEPT !.open = @ \cup {c}] /\ Side
UsesTokens ==
  /\ thread.told < MaxTokens /\ Event("usage", thread.told + 1)
  /\ thread' = [thread EXCEPT !.told = @ + 1] /\ Side
Completed ==
  /\ thread.open = {}
  /\ \E k \in {"done", "bad"} : Event(k, None)
  /\ thread' = [thread EXCEPT !.active = FALSE] /\ Side
(* What the adapter does not serve: an operation of the host, another tool.*)
AsksHost == Event("bad", None) /\ UNCHANGED thread /\ Side
(* A pipe to the child breaks, while it runs: writing fails the process,   *)
(* reading closes it.                                                      *)
ProcessFails ==
  /\ child.up = "run" /\ ~child.failed
  /\ child' \in {[child EXCEPT !.failed = TRUE], Ended(child)}
  /\ UNCHANGED thread /\ Side
(* The process ends: by itself, or 2 s after it was told to.               *)
Exits ==
  /\ child.up # "none"
  /\ child' = [child EXCEPT !.up = "none", !.failed = TRUE]
  /\ thread' = [thread EXCEPT !.active = FALSE, !.open = {}] /\ Side

-----------------------------------------------------------------------------
Turning ==
  \/ Post \/ CompletesOpenAI \/ CompletesOpenRouter \/ Unusable
  \/ FailsOpenAI \/ StatusOpenAI \/ ErrorRead \/ FailsOpenRouter \/ Backoff
  \/ Begin \/ Replied \/ Steer \/ Answers \/ NextEvent \/ Rejected \/ Catch
ProviderNext ==
  \/ Turning \/ Overtime \/ Interrupted
  \/ CallModel \/ RunTools \/ FinalAnswer \/ Compacted \/ ThrowIfStopped \/ Abort \/ Finish \/ Continue \/ Dies
  \/ \E c \in ToolCalls : AsksCall(c)
  \/ UsesTokens \/ Completed \/ AsksHost \/ ProcessFails \/ Exits

ProviderSpec == ProviderInit /\ [][ProviderNext]_providerVars
(* Timers run out and the daemon goes on; the model owes no answer.        *)
FairSpec ==
  /\ ProviderSpec
  /\ WF_providerVars(Turning) /\ WF_providerVars(Overtime) /\ WF_providerVars(Interrupted)
  /\ WF_providerVars(Finish) /\ WF_providerVars(ThrowIfStopped)
  /\ WF_providerVars(RunTools \/ FinalAnswer \/ Compacted)

-----------------------------------------------------------------------------
(* A conversation that a run carries on, itself or after a crash, fits the *)
(* response it continues from: OpenRouter's own state is never behind or   *)
(* ahead of the checkpoint (openrouter.ts:70).                             *)
FitsItsConversation == loop.at = "idle" => ~Refuses

(* No token is charged twice, over turns, interrupts, crashes and resumed  *)
(* threads whose usage starts from their beginning (codex.ts:30).          *)
ChargedOnce == charged <= thread.told

(* Every call in the conversation that a request carries is answered, once *)
(* and at once, before anything else is said: through compaction, another  *)
(* run and another process (openrouter.ts:72, run-controller.ts:223).      *)
CallsAreAnswered ==
  \A i \in DOMAIN chat :
    /\ chat[i].what = "answer" /\ chat[i].call # None =>
         i < Len(chat) /\ chat[i + 1] = Item("result", chat[i].call)
    /\ chat[i].what = "result" => i > 1 /\ chat[i - 1] = Item("answer", chat[i].call)

(* Context and charges are those of the conversation, whichever run of it  *)
(* asks.                                                                   *)
ConversationIsKept == FitsItsConversation /\ CallsAreAnswered /\ ChargedOnce

(* A run that has ended leaves no Codex process at work and nobody waiting *)
(* for it, however stop, failure, time limit and interrupt met             *)
(* (codex.ts:116).                                                         *)
RestIsQuiet == ProviderTypeOK /\ (loop.at = "settled" => child.up # "run" /\ ~adapter.rpc /\ waits = {})

(* Every turn ends, though the model never answers, the process hangs or   *)
(* every attempt fails (codex-process.ts:124, openai.ts:118).              *)
TurnsEnd == loop.at = "calling" ~> loop.at # "calling"

(* A stopped run comes to its end, though the interrupt is not answered.   *)
StopSettles == loop.aborted ~> loop.at = "settled"

(* Neither a turn nor a stop waits for something that may never come.      *)
EverythingEnds == TurnsEnd /\ StopSettles

=============================================================================
