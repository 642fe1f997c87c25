# Linux Agent Workbench in TLA+

The workbench runs an AI agent in a sandbox: a container with a terminal, and one
with a browser. A daemon, `agentd`, holds the agent's loop and decides, together
with the human at the window, what the agent may do and when. This directory holds
TLA+ models of that daemon, of the workers it talks to and of the desktop that
shows it, the TLC runs that check them and TLAPS proofs about them. Paths are below
`src/`; `agentd/` is `services/agentd/src/`.

## 1. The system

```
 window ── desktop main ──(utility process messages)── agentd
   BrowserPanel, TerminalPanel, App                      │ RunController, one per run
                                                         │   BudgetTracker, policies, tools, model adapter
                                                         │ ApprovalManager ← CommandGate, BrowserActionPolicy, host gate
                                                         │ leases: terminal, browser
                                                         │ Store (SQLite)
                                         unix sockets    │
              terminal worker (tmux, gate) ──────────────┤ TerminalSessionManager
              browser worker (Chromium) ─────────────────┤ BrowserSessionManager
              egress proxy sockets ──────────────────────┘ SessionEgress
```

agentd is one Node process: a handler runs until its next `await`, then any other
handler, timer or socket event may run. That is where nearly all of its hard
behaviour comes from: state read before an `await` and used after it, and several
operations suspended at once. The browser worker and the desktop's main process are
Node processes of the same kind. The rest comes from what stands between them
(queues that fill, connections that drop, windows that reload), from workers that
hang, crash or answer late, and from the daemon's own death in the middle of a run.

| Component | State | Operations | What makes it correct |
|---|---|---|---|
| Run controller, `agentd/orchestrator/run-controller.ts` | state, abort signal, control revision, open pause, budget reason, pending calls | start, stop, pauseForHuman, resumeFromHandoff, resumeBudget; cards opening and closing | no tool call on a plan older than the human's last control; a pause is answered at rest; limits hold; the model is told of every interruption |
| Budget tracker, `agentd/orchestrator/budgets.ts` | counters, limits, nested clock pauses | addTurn, addToolCall, addCost, pauseClock, resumeClock, extend, check | waiting for the human is not charged; an extension lifts the limit that parked the run |
| Approvals, `agentd/policy/`, `agentd/egress/host-gate.ts`, `agentd/notify/`, `images/terminal/gate.c` | open cards, session grants, host lists, the shell's wait | request, decide, timer, denyPending, gate.check | nothing gated passes without the human's word for it; no card outlives its use |
| Leases, `agentd/policy/lease.ts`, `nested-prompts.ts`; terminal tools, `agentd/tools/` | owner of each surface; the request in hand | take, authorize; input, submit, wait | what the human takes, the agent leaves |
| Daemon commands, `agentd/ipc.ts` | current run, startingRun, followingUp, browserRestarting, browserChanging, browserManual, changingNetwork | the window's commands, listeners of run, browser and session | one live run; operations that await each other end; login finds the run at rest |
| Browser manager, `agentd/session/browser-session-manager.ts` | status, handle, connection, epoch, outstanding actions, uncertainAction | start, stop, destroy, restart, act, control, settleActions | work goes on only when the worker is through with earlier actions |
| Conversation, `agentd/orchestrator/continuation.ts`, `agentd/storage/store.ts` | checkpoint, journal of tool calls, state of runs | saveCheckpoint, begin/finishToolCall, pendingResults, markInterruptedRuns, follow-up | after a stop or a crash no call is run twice, hidden or left unanswered |
| Terminal manager, `agentd/session/terminal-session-manager.ts` | status, worker, listeners | start, reconnect, setNetworkMode, detach, destroy | a ready session has its own worker, and only that one |
| Session egress, `agentd/egress/`, `agentd/policy/private-address.ts` | proxy, sockets, chain of transitions, upstreams | ensure, close, route | only the session shown open is served, and only to public addresses |
| Framed connection, `packages/protocol/src/node/connection.ts` | pending requests, send queue | request, reply, sendRaw, close | each request ends once; reliable frames keep their order or the line is cut |
| Delivery: `ipc.ts`, `apps/desktop/src/main/terminal-delivery.ts`, `TerminalPanel.tsx`, `BrowserPanel.tsx` | unacknowledged bytes, held chunks, frame in flight, generation | data, ack, frame, frameAck, reload | output is in order and never held for good; a picture is of the page it is shown for |
| Browser worker, `services/browser-worker/src/` | tabs, input queue, mode, marker file, responsiveness, references | control, observe, act, input, manual switch | one browser on the profile; no tool in a login; no input or action on a page it was not meant for |
| Model providers, `agentd/provider/` | context, attempts; Codex process, thread, turn, calls, usage | turn, interrupt, close, restore | the conversation stays well formed and is charged once; a turn ends |
| Jev delegation, `agentd/orchestrator/jev-browser.ts`, `browser-auto.ts` | step counter, last observation, control revision | runHybrid, runAutoBatch, runFallback | each child action obeys budget, policy and control; nothing uncertain is repeated |
| Desktop, `apps/desktop/src/main/index.ts`, `renderer/App.tsx`, `run-view.ts` | view of the run, sequence number, active run | publishRun, snapshot, events, agentd's exit | the window shows what is |
| Playbooks, snapshots, podman's arguments, schemas | see `PROJECT.json` | | |

`PROJECT.json` lists every component with what is modelled of it, and every hazard
at the line where it bites with the properties that look for it, or a note saying
why none does.

## 2. The modules

| Module | Models | Relation to the others |
|---|---|---|
| `HumanControl` | what a run promises the human | abstract |
| `RunController` | one run, await by await | implements `HumanControl` |
| `BudgetTracker` | clock, counters and limits, exact | extended by `JevTask` |
| `JevTask` | delegated browser tasks, batches and fallbacks | composed with `BudgetTracker` |
| `Approvals` | cards, grants and hosts with all their askers | |
| `Workbench` | the daemon's commands around an outline of run and browser | extended by `TerminalTools` |
| `TerminalTools` | what a terminal call of that run types | composed with `Workbench` |
| `BrowserManager` | the daemon's end of the browser | detail behind `Workbench`'s browser |
| `BrowserWorker` | the worker's end: tabs, modes, observations | |
| `BrowserPreview` | frames out, input back, over four queues | |
| `Conversation` | checkpoint and journal across stops, crashes, follow-ups | extended by `Desktop` |
| `Desktop` | events of the run to main and page, the views they keep | composed with `Conversation` |
| `Provider` | the three model adapters and Codex's process | |
| `EgressSwitch` | what the network promises: a switch for one session or none | abstract |
| `Egress` | the chain, the proxy and its clients | implements `EgressSwitch` |
| `Address` | isPrivateIp over the bits of an address | used by `Egress` |
| `Sandbox` | sessions, workers and network changes | stands on `EgressSwitch` |
| `TerminalStream` | output and credit over four queues | |
| `MC...` | symmetry and function-valued constants for TLC | |
| `...Proofs` | proofs: `RunControllerProofs`, `JevTaskProofs` (with `BudgetTracker`), `GateProofs` (`Approvals`; `Egress` with `Address`), `WorkbenchProofs` (with `TerminalTools`), `ConversationProofs` (with `Desktop` and `Provider`), `BrowserWorkerProofs`, `BrowserManagerProofs` (with `BrowserPreview`), `SandboxProofs` (with `TerminalStream`) | one theorem at least for every property of section 3 that is not liveness |

Three compositions share variables: `JevTask` with the budget it spends,
`TerminalTools` with the commands that interrupt it, `Desktop` with the run it
shows. `Sandbox` uses the abstract switch that `Egress` is shown to implement.
Elsewhere modules meet at shared ideas: `Workbench` treats the run as the stretches
of `RunController` between two points the daemon can see; `RunController` lets any
card of `Approvals` open and close at any time; `Conversation` keeps what
`RunController` writes to the store and forgets why a call was refused.

### How state and steps correspond to the code

*RunController.* `pc` names the point at which `start()` stands. The labels in
`Awaits` are promises it is suspended on; from the others it runs on to the next
await before any handler does, so handlers are guarded by `Yielded`. `Segment` is
the code between awaits, `Reply` the settling of what it awaits, `Human`, `Sandbox`
and `Answer` the handlers. `controlRevision` is only compared with copies of
itself, so `turnCurrent` and `callCurrent` say whether the copy taken at the model
turn, and the one taken in `runTool`, is still equal. Step budgets are what is left
of them; for time and cost only passing the limit matters (`over`). `state` and
`pc` are separate because the code keeps them separately: a card overwrites the
state of a parked run without waking it.

*BudgetTracker.* One variable per field; null is `None`; `active` is the history
the clock is compared with. Its own specification adds no turn or call without
checking; `JevTask`, in which a check and the bill lie an await apart, adds them
freely, and is where its properties are checked.

*JevTask.* `at` is where the run stands, `t` the tool call in hand with the locals
of `runBrowserTask` and `runBrowserBatch`. A child call passes `vet` (the checks of
`run-controller.ts`), a card or a handoff if the policy asks for one, `sent`, and
its outcome; `current` again stands for the comparison of control revisions. A page
is what the code's own comparison of pages tells apart.

*Approvals.* An asker (command, socket, browser action) asks once; a card is known
by its asker. `card` is "open" or "expired": the timer fires some time after
`expiresAt`, and an answer in between is what `decide()` refuses. `shell` is the
command's own side: it asks, gives up, runs or is refused. A missing link anywhere
in the gate's chain refuses the command, so link states are folded into the
refusal. The phone may answer any card at any time, again and late. A rule in
`Lenient` is waived by network mode or autonomy setting, which may change at any
moment, so each check finds it or does not.

*Workbench, TerminalTools.* Each handler's awaits are values of `starting`,
`followup`, `login` and `restart`, next to the flags the code keeps.
`LoginContinues` is the microtask after a settled promise, before any other
handler. The worker's mode, its report in transit and the daemon's `browserManual`
are three variables because they can differ. `TerminalTools` refines
the run's "acting" stretch: `typing` is the await of `executeTerminalTool`,
`pending` an input on its way to the PTY. What a stopped or timed-out request
leaves on its way is not kept.

*BrowserManager.* `start()` calls may overlap; each owns at most one connection,
which bears its name. A line is "cut" by this side, "lost" by the other, and
"closed" once its event was handled. `doing` is what the worker is still at,
whatever the daemon thinks of the call. Where a start or a restart waits for podman
(`OnPodman`) it may wait for ever, the kick of a silent worker included
(`waitForSocket`, which then passes its own deadline).

*BrowserWorker.* `b` is the record of `BrowserSession`'s fields. The revision only
grows, so that a value read earlier is modelled by whether it is still current.
Each control command is at one of its awaits (`op`); `late` are those the human was
told have failed while they go on. `others` counts browsers that no field refers to
any more and that still hold the profile. A switch of tab ends in `Fronted`, or in
`FrontFails` with the tab active and nothing else changed. The agent makes one tool
call at a time: `act()` and `observe()` would run side by side, but the daemon's loop
awaits each call.

*BrowserPreview.* Main passes a message on in the step that sends it, which leaves
four queues. A frame carries generation and page: the code compares the first, the
properties the second. Frame ids are used again when nothing has them.

*Conversation, Desktop.* `saved` is `continuation_json` of the latest run,
`checkpoint` its copy in memory, `tool` the status column of `tool_calls`,
`happened` what the sandbox really did. `Desktop` joins the steps that post an
event with the post (`pipe`), gives main and page a view each, folded by the same
`Shows` (`run-view.ts`), and numbers the events. Workspace switching, leases, the
goal's text, gate rows and the limit of 500 rows are left out.

*Provider.* `kind` is the adapter; `loop` the run that asks, `ck` what it saved,
`adapter` the adapter's fields, `http` or `codex` the far end, `child` Codex's
process. A turn carries one call, so that the order of several results and of the
pictures behind them is not seen; the three adapters share `MaxAttempts`. A request
of the host, an unknown tool or a broken pipe may come at any moment of a turn.

*Sandbox, Egress.* A handler's await is its call's phase; the chain of promises is a
sequence whose head alone moves. Each step of a stop or a destroy may fail, which
skips the rest of the handler. A connection is named by the order of its making
and belongs to one session. Cards that would hold `session.network` back are left
out: the model lets it begin more often than the code. In `Egress` a client's phase is the await of `route()`
it stands at; names and what they resolve to are abstract, addresses are not:
`Address` translates `private-address.ts` word by word.

*TerminalStream.* A chunk is 64 KiB and named by its place in the output, so that
order, loss and repetition can be seen at the display.

## 3. The runs

| Run | Module | Instance | Properties |
|---|---|---|---|
| `run` | `RunController` | 2 cards, 2 turns, 2 calls, batches of 2, compaction after 2 | `Accounts` (types; the clock counts the reasons to wait; the ledger of calls and cards closes; limits hold), `ModelNeverBlind`, `OnlyCurrentPlansAct`, `ImplementsHumanControl`, `HumanIsAnswered` (Stop settles or parks, a pause brings rest) |
| `approvals` | `Approvals` | a command, 2 sockets of one host, 2 navigations to it, 2 runs | `CardsHaveUse`, `NeedsTheHuman`, `LateAnswersDeny` |
| `workbench` | `TerminalTools` | every command at any time | `BeginsAtRest` (one live run, clean follow-ups, leases at rest, login finds the run at rest), `CommandsEnd` (follow-up, login, restart), `LeavesTheTerminal` |
| `browser` | `BrowserManager` | 2 starts, a click | `DoubtIsOfThisBrowser`, `SettledOnLine`, `WaitsEnd` |
| `conversation` | `Desktop` | 2 turns of one call, one message per queue, any 2 of: a follow-up, a crash, reloads and restores | `AllAccountedFor` (answered once, nothing hidden, nothing left open, usage carried on), `NeverReplayed`, `PageAgrees`, `ShownIsTrue` |
| `egress` | `Egress` | 2 sessions, 3 calls, 3 clients, 2 upstreams | `Confined` (one session's sockets, silence when off, exact count, public addresses), `ImplementsSwitch` |
| `sandbox` | `Sandbox` | 2 workspaces, 3 commands, 3 connections, a worker's death | `ReadyIsItsOwn`, `NeverWiderThanShown` |
| `terminal` | `TerminalStream` | 5 chunks, pause at 3, resume below 2, buffer of 4, 2 faults | `InOrder`, `FlowIsExact`, `HeldIsReleased` |
| `browser_worker` | `BrowserWorker` | 2 tabs, 2 commands under way, a death | `OneBrowser`, `NoToolInLogin`, `SeenIsActedOn`, `SwitchEnds` |
| `preview` | `BrowserPreview` | 2 pages, a queue of one frame, a fault, 2 moves | `PreviewIsSound`, `InputReachesItsPage`, `PreviewCatchesUp` |
| `provider` | `Provider` | each adapter, 2 runs, 4 turns, 3 attempts | `ConversationIsKept`, `RestIsQuiet`, `EverythingEnds` |
| `jev_task` | `JevTask` | each engine; each limit under one of them; 3 steps, batches of 2 | `BudgetHolds`, `ExtensionLifts`, `ActsUnderItsControl`, `NeverReplaysBlindly`, `ReportsAreTrue` |

A module's type invariant is a conjunct of one of its properties. Every property
has at least one mutant in `PROJECT.json`: a plausible slip in the code (a dropped
check, a missing reset, a swapped order) under which TLC finds it violated.

*Bounds.* They are as large as the interplay needs. Two cards are the least for
"one is answered while another is open". Two calls are the least batch in which a
park falls between calls; two turns with compaction after two reach a compaction
after a park. Two sockets are the least that share a card, two navigations the least
of which one uses the other's grant, two runs the least in which a grant or a card
could outlive its run. Two overlapping `start()` calls are all that one restart and
one click make. In `Desktop` two runs and a crash reach a follow-up of a run that
was interrupted; the larger batches, turns and runs of the conversation alone are
the proofs' business, which hold for all of them. In `Egress` a third client
meets a limit of two upstreams, and a third call queues behind a transition and one
that waits; its addresses lie inside, at the edge of and next to the ranges of
`private-address.ts`, and `GateProofs` takes the rest. In `Sandbox` the third connection is the
one made after a reconnect that lost its race. `TerminalStream` passes the pause
mark, the resume mark and the buffer, in that order, within five chunks. In
`JevTask` three steps are the least with a stale decision between two good ones.
The names of bounds (`Max...`, `RoomBound`, `Output`, `WireCap`) stand in guards and
bound nothing that the code bounds, except where a comment names the code's limit.

*Symmetry and views.* `approvals`, `egress` and `sandbox` check no liveness and use
the symmetry of interchangeable names; `sandbox` projects away what is left of a
handler that is over, which nothing reads. `jev_task` projects away what has been used
of a limit that is off: nothing reads it, and a limit that is off stays off.

*Deadlock* is checked for `RunController` and `TerminalTools`, whose specifications
never stop. Elsewhere a bounded supply (askers, starts, turns, faults) runs out, and
the configuration says `CHECK_DEADLOCK FALSE`.

*Fairness.* In `RunController`: the event loop runs ready code (`Segment`), each
awaited call has a timeout or the abort signal (`Reply`), each card has a timer
(`Answer`, card by card). `TerminalTools` has `Workbench`'s fairness of the same
kind, restated for the joined steps: the run's own step and the settling of its
tool's request are one fair action, since each has a timeout; the PTY owes nothing.
No fairness is assumed of the git command before a run (`session/snapshot.ts:5`) nor of
the podman commands of a restart (`runtime/podman.ts:11`): neither has a time limit.
`CommandsEnd` therefore says that a follow-up or a restart ends, or stays for ever at
just that await. `BrowserManager`: the poll and the deadline of `waitForSocket`, the
timeouts of calls, microtasks and close events; none of podman, and `WaitsEnd` says of
a restart that it ends, or that its start stays for ever with podman. `BrowserWorker`: the steps of a mode switch, each of which is bounded
in the code. `TerminalStream`: processes empty their queues and the five-second
timer fires. `BrowserPreview`: the same, and pages repaint, without which a dropped
frame has no successor; a tab need never come to front, and `PreviewCatchesUp` excepts
the preview of one that does not. `Provider`: timers fire and the daemon goes on; the model
never owes an answer. Fairness is never assumed of the human, of podman or git, or of
the sandbox beyond what a timeout of the code enforces. `PauseBringsRest` has a premise
instead: a call held back by open cards waits for all of them, so the property
speaks of behaviours in which the sandbox does not open ever new ones.

*Conditions.* Some properties name, through a history variable, a situation in
which the code does not keep them; each is a finding of section 4. `calm`: no
session command was given while another was under way. `overlap`: a mode switch
began while a page was being recovered. `overflowed`: the desktop gave terminal
output up. `late`: agentd's exit overtook its last messages. `overtaken`: a restore
was told of while a later run was shown. `stray` (in `Astray`, and `obs.steady` of
`BrowserWorker`): a tab became active that is not, or could not be, brought to front.
`Stranded` and its like in `CommandsEnd`:
a run parked after it was stopped.

## 4. Findings

Disagreements met while modelling. The first five are stated in the modules as
properties that the code does not keep; adding the name to the run's configuration
lets TLC print the behaviour.

1. **Stop, then park.** Stop while a policy or tool call is in flight does not keep
   the handoff it ends in from parking the aborted run, which then cannot be stopped
   again (`RunController!StopEndsRun`).
2. **A card hides a park.** A card that opens and closes during a handoff leaves the
   run "running"; "Give control back" is ignored
   (`RunController!ParkedRunIsResumable`).
3. **The lease is read before the waiting policies.** A human who takes the surface
   meanwhile sees the call start on it (`Workbench!CallsHoldTheirSurface`); a
   submitted text's ENTER follows two more awaits. `LeavesTheTerminal` bounds what
   may follow.
4. **Closing the browser forgets the click in flight**
   (`BrowserManager!NothingLeftBehind`).
5. **A crash in a follow-up's first turn loses the limits and the context of the
   conversation** (`Conversation!AccumulatedKept`).
6. **Overlapping session commands** (`agentd/session/terminal-session-manager.ts:97`,
   `:130`): two starts leave two workers feeding the terminal; a destroy destroys
   the session opened meanwhile; a close while a start or a reconnect is pending
   does not stay closed. An invalid path shows an error for no session and leaves
   worker and network of the old one (`:51`).
7. **Terminal overflow loses credit** (`apps/desktop/src/main/index.ts:181`): chunks
   posted while `session.stop` waits are counted and never credited, so that the
   reconnect the message advises may find the terminal paused.
8. **Recovery ends another's transition** (`services/browser-worker/src/browser-session.ts:259`):
   the `finally` of `recoverPage()` clears `transitioning` of a mode switch that
   began while it navigated.
9. **"A key or button release is never dropped"** (`browser-session.ts:518`): a
   queued one is, when the generation changes (`:537`). The comment at
   `BrowserPanel.tsx:60`, "a newer one is on its way", needs a page that repaints.
10. **The exit of agentd may overtake its last messages** (`index.ts:259`), which
    then revive the run: main refuses every later start. A death between a run's row
    and its last event shows "interrupted" for a run that has ended. A restore told
    of during a later run resets that run's view (`agentd/ipc.ts:502`).
11. **Provider**: tokens Codex reported before an interrupt are saved as reported and
    never charged (`codex.ts:30`); OpenAI's error body is read outside the `try`, so
    Stop there is not `CANCELLED` (`openai.ts:137`); an OpenRouter 200 whose body
    fails is not retried (`openrouter.ts:135`).
12. **A batch reports a completion candidate** although control changed while its
    evidence was captured (`browser-auto.ts:50`), unlike a task
    (`jev-browser.ts:103`).
13. A `browser.state` report sent before a mode switch undoes `browserManual`; if the
    line then closes, a run may start in manual mode. `destroy()` without a handle
    removes no container.
14. **A tab that could not be brought to front** (`browser-session.ts:684`) is active
    with the generation and the revision of the tab before it, so that waiting input
    and old references go to the wrong page until the next change.
15. **podman and git without a time limit** (`agentd/runtime/podman.ts:11`,
    `agentd/session/snapshot.ts:5`): one that hangs leaves a restart, or a run's start,
    unfinished and every later one refused; at
    `agentd/session/browser-session-manager.ts:285` it stands before the 30 s deadline.
16. **Sockets pass unasked beside a live run** while the browser is the human's
    (`agentd/ipc.ts:297`); `host-gate.ts:1` speaks of asking while a run is active.

## 5. The proofs

Everything below is proved by TLAPS for all values of the constants that satisfy
the named assumptions of the module.

`RunControllerProofs` rests on one inductive invariant:

    Inv == TypeOK /\ Position /\ ClockCountsWaiting /\ Affordable /\ NoticeKept

`ClockCountsWaiting` alone is not inductive: whether a step pauses or resumes the
clock depends on where the controller stands and why, so `Position` ties `pc` to
`state`, `back`, `row`, the cards and the copies of the control revision.
`NeverOverspent` needs that a call in progress was affordable when it was let
through (`Affordable`); `ModelNeverBlind` needs that a notice still owed sits where
it cannot be lost (`NoticeKept`). `StepInv` has one step per action. From it follow
`TypeCorrect`, `ClockCorrect`, `NothingOverspent`, `LedgerCorrect`, together
`AccountsKept`, and `ModelTold`; with `StepLaws` the action properties `PlansCurrent`,
`FinishedStays`, `AnsweredAtRest`; with `StepPromise` the refinement `KeepsPromise`.

`JevTaskProofs` is about `BudgetTracker` and `JevTask`. For the budget, `ClockShape`
says when `pausedAt` is set and that it is no later than now; with it the accounting
equation `ElapsedIsActive` is inductive. `ClockExact` and `CostBounded` make
`BudgetKept`; `ExtensionsLift` and `LimitsWiden` are steps of the same invariant. The
lemmas are stated operation by operation, so that the delegation, which bills a turn
an await after its check, can use them one by one:

    JevInv == JevTypeOK /\ BudgetInv /\ Affordable /\ TaskInv

`Affordable` carries the check over the await: the turn on its way is within the
limit, even if an extension comes in between. `TaskInv` is `Fits` of the call in
hand: for each child call what it may assume of the failures, the looks, the plan
and the fallback before it. None of the action properties is inductive alone, since
an action is chosen several awaits before it is sent. `Continued` shows that
whatever a child call returns the call that follows fits; there is one lemma per
action or group of like actions. The theorems are `DelegationInBudget`,
`DelegationExtended`, `DelegationYields`, `NothingReplayed` and `ReportsHold`; the
first two are the budget's promise under unguarded bills, and the third needs that
nothing but runTool's last check (`OnlySend`) leads to the browser.

`ConversationProofs` rests, for what the run saves, on

    Inv == TypeOK /\ Checkpointed /\ Requested /\ Batched /\ Journalled /\ Rows /\ Counted

`EveryCallAnswered` speaks of the request, which is made from a checkpoint that may
be several runs old, so `Checkpointed` says of every checkpoint, stored or in
memory, that it holds exactly the calls of its response and only results that are
settled. That those stay settled needs `Batched` (what waits, is in progress or has
a result, call by call) and `Journalled` (at most one call in progress, and where).
`NeverReplayed` is a step of the same invariant: a call that is sent was still
waiting, and the journal has nothing of a waiting call. The theorems are
`TypeCorrect`, `AnswersComplete`, `EffectsReported`, `ClosedAtRest`, `UsageKept`,
together `AllAccounted`, and `CalledOnce`. For what the adapters keep and send, on

    ProviderInv == Shapes /\ Phases /\ Usage /\ Carried /\ CallsAreAnswered

`CallsAreAnswered` speaks of the request that is posted, which is made from what an
earlier turn, run or process stored: `Carried` says of a stored conversation, the
adapter's or the checkpoint's, that only its last answer may still call, and which
call, so that the results put in front of the next input answer it. This is all
that is needed of sequences: a few lemmas on appending (`Lengthened`, `ResultGood`,
`OtherGood`), no induction. `Phases` says who waits for an interrupt at which await,
and that the process is there only while the adapter has it, which makes
`RestIsQuiet` inductive; `Usage` orders the token counts from what was charged to
what Codex has told, through the usage events that still wait to be read. The
theorems are `ConversationKept` and `RestQuiet`. For what the window shows, on

    Inv /\ PageInv /\ Carded /\ WindowInv

Both properties of the window speak of a moment at which nothing is on its way; the
invariant has to say what is, in queues of any length. `PageInv` compares main and
page, which fold the same events at different times: there is one history `h` of
the views main has had, by event number, of which what is on the wire, what waits in
a page that is loading, the snapshot it was answered and what it shows are parts
(`ToldBy`). A reload, a snapshot that overtakes events or is overtaken by them, and
events that are dropped as already seen keep the same `h`. `WindowInv` compares run
and main: `Brings(w, q, z)` says that from the view `w` the events `q` lead to `z`,
and whatever the events on the port lead to from what main shows is `Truthful` of
the run that posts them: its state, its handoff, its open cards, the rows of its
calls. A step of the run that changes what is true posts the event that makes it
shown (`WindowPosts`), the crash of the daemon leaves the exit to be told, and the
condition (`late`, `overtaken`) is the property's own. What a page takes when it
comes up is a recursive function (`TakenAll`), about which `Induct` proves that it
ends at the last event. The theorems are `PageShowsMain` and `WindowShowsRun`, and
`DesktopConverses`: the steps of `Desktop` are steps of `Conversation`, so that what
is proved of the conversation holds behind the window.

`GateProofs`, about the cards, rests on

    CardInv == TypeOK /\ Standing /\ Current /\ Carded

(`Standing`: where an asker stands fits what it is; `Current`: a card is of the live
run; `Carded`: who waits, waits for an open card) and, for `NeedsTheHuman`, on a
second layer, `Words`, which takes every permission back to a word of the human: a
session rule, a host let through, a host kept in the settings, an action allowed.
The second layer needs the first: an answer is for what the card's asker waits for,
under the run it asked in (`AnswerWords`). The theorems are `CardsOfTheRun`,
`ExpiredIsDenied` and `NothingWithoutTheHuman`.

About the way out, addresses first: `RefusesPrivate4` and `RefusesPrivate6` say that the
translated tests of `private-address.ts` (arithmetic on octets and masks) refuse exactly
the ranges it lists, written as intervals, for every address: `Egress` runs over a
handful of them. Which reserved ranges it ought to list is not judged. Then the proxy:

    IInv == EgressTypeOK /\ Placed /\ Attached /\ Vetted /\ upstreams = Cardinality(Counted)

`Confined` is not inductive: that a connection goes only to a public address, of the
session that is served, needs where the switch stands (`Placed`: the old proxy goes
before a new one comes), whose connections may go on (`Attached`), and that what was
checked is what is used after the await (`Vetted`); that the counter neither leaks
nor goes below zero needs the set it counts. From it follow `OnlyWhatIsServed` and,
step by step, the refinement `TurnsTheSwitch` of `EgressSwitch`.

`WorkbenchProofs` rests on

    WorkbenchInv == RunInv /\ ActionType /\ HandlerType /\ BrowserType
                    /\ Starts /\ FollowsUp /\ LogsIn /\ doubled = FALSE

The modules have no constants, so the run visits every state; the proof says why
they are good ones. `RunInv` ties where the run stands to the state it shows.
`Starts`: one start at a time, none beside a live run or a change of the browser's
mode. `FollowsUp`: from the moment the last run has settled nothing moves it, or its
actions, but the follow-up's own start. `LogsIn`: a login that waits for a pause has
it open until the run has answered, and the answer is a park or an end. The proof
goes by what no step of the run and no command to it does (`Quiet`): revive a run
that has ended, move one that has settled, set one at rest to work while the mode
changes, ask for a pause or answer one without resting. `Typed` adds where the
terminal call stands: a call is in hand exactly while the run acts on the terminal,
and one whose text is not yet submitted has an input to spare. The theorems are
`CommandsFindRest`, `StopsTyping` and `ToolsServeTheRun` (what a call does is a step
of the run, or none the daemon sees).

`BrowserWorkerProofs` rests on two halves: `Switched`, about the switch between the
two browsers and the commands under way, which holds as long as no switch began
while `recoverPage()` still navigated (`overlap`, which the property names too), and
`Referred`, about what an observation refers to through tabs that open, close, crash
and change. The theorems are `OneBrowserAtATime`, `LoginsAreTheHumans` and
`ActsOnWhatWasSeen`.

`BrowserManagerProofs`: `DoubtIsOfThisBrowser /\ Lines /\ Sent /\ InDoubt /\
Awaited`. `Lines` says which connection the worker serves and `Sent` what it was sent
there; `InDoubt`, that the manager still tracks, or doubts, each action the worker
may be doing on the connection in use; `Awaited`, that `settleActions()` waits for
all that are tracked. The theorems are `DoubtsThisBrowser` and `SettledIsSettled`.
For the preview, in the same module,

    PreviewInv == Typed /\ Pictured /\ Announced /\ Switching /\ Alive

`PreviewIsSound` speaks of moments when nothing is on its way; the invariant says what
is, in each queue of any length. `Pictured`: a frame, a picture or an input made of a
page under the worker's generation is of its active page, unless a switch still brings
that to front. `Announced`: the generations from the worker rise, and the last one on
its way, or else the one received, is the sender's. `Switching`: the same of what the
window wants of frames. `Alive`: who carries the frame the daemon waits for.
`Latest` and `Ascends` say this of a queue without recursion, so that a few lemmas on
appending and taking the head (`LatestAppend`, `LatestTail`, `AscendsAppend`,
`AscendsTail`) carry the queues. The theorems are `PicturesSound` and `InputAimed`.

`SandboxProofs`: `TypeOK /\ Queued /\ Held /\ (calm => Calm)`. `Queued` is about the
requests to the proxy and `Held` about the manager's worker, in every state. The
rest holds while the commands come one at a time (`calm`, which both properties
name): a command under way knows how far its request is (`OneAtATime`), one lost
connection at most is being replaced (`Reconnecting`), only the session's own worker
is heard (`Heard`), and what the last request asks for is what the window shows
(`ShownLast`). The theorems are `ReadyHasItsWorker` and `NoWiderThanShown`.
For the terminal's output, in the same module, `InOrder` follows from

    StreamTyped /\ OrderInv

whose parts say what is between the PTY and the display, from the display outward:
`Displayed`, what the packets on their way will make of it; `Numbered` and
`Answering`, that an acknowledgement that is accepted is of the packet last sent,
and that a packet is sent again only while the display has not taken it; `UnderWay`,
that what is held, queued and on the wire continues it, without a gap but for what
was lost. `FlowIsExact` adds up a queue of acknowledgements (`Sum`, by the recursive
function that `Adds` describes); the lemmas `SumJoin`, `SumAppend` and `SumTail`
carry it, and with them `Credited` (the credit on its way is that of the chunks not
yet acknowledged) and `Paused` (a PTY that is or will be paused is owed an
acknowledgement that resumes it) are inductive. The theorems are `OutputInOrder` and
`FlowExact`.

Assumed, named in the modules: constants of the right sort, `None`-like values
outside the numbers, grants above zero, finitely many clients of the proxy, and
(`StartAssumption`) that a checkpoint was saved by a run under the limits it holds.

`TerminalIsFinal`, `PauseAnsweredAtRest` and `OnlyWidens` have theorems and no run:
the first two follow from the refinement, which `run` checks, and the third is a
step of an extension.

*Induction over queues.* The invariants avoid it where they can, by saying what is
true of each element, or of two neighbours. Where a property folds a queue
(`TakenAll`, `Sum`, `Brings`), the fold is a recursive function and the lemma
`Induct`, from the well-foundedness of the natural numbers, is applied to the set of
lengths for which the claim holds.

*Only model-checked.* All liveness, which needs ENABLED: `HumanIsAnswered`,
`CommandsEnd`, `WaitsEnd`, `HeldIsReleased`, `SwitchEnds`, `PreviewCatchesUp`,
`EverythingEnds`. Every invariant and every action property of section 3 has a
theorem.

## 6. Not modelled

*Left out for good.* The classification of commands, labels and pages by regular
expressions (a rule is found or not); the content of prompts, observations and
answers; the window's layout, settings and workspace lists; migrations and pruning
of the store; podman's arguments; Chromium and tmux themselves; playbooks and their
distillation, which read and write one file on a human's click; the snapshot's git
commands (their awaits are in the models); the zod schemas, which have no state; the
experiments and tools of the repository, which are not part of the program.

*Within reach and still open.* Downloads of the browser worker; dialogs, whose
dismissal is unbounded (`browser-session.ts:340`); the terminal worker's recognition
of a settled screen, where a paused PTY looks idle (`terminal-session.ts:159`); the
weekly clean-up of containers against an opening session (`agentd/ipc.ts:308`);
several windows' worth of settings in main. None of them changes what the modules
above say of their parts.
