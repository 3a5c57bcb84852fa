# A verification development of pikvm-agent

pikvm-agent drives the keyboard and mouse of a machine it can only see through
its video output. These modules specify the part of it that decides *whether an
input is sent*, and what may be believed afterwards: the daemon's direct-burst
engine, its autonomous operator loop, the frame store whose world versions they
trust, the emergency brake and the watched typing of a text; and above the
daemon the managed run of the agent harness, its supervisor and durable
record, its budget for models, and the virtual media it lends to a target. They
are translated from `src/pikvm_agent/`, checked by TLC on small instances, and
proved about, for every value of their constants, with TLAPS.

The repository states what the whole is for (`src/README.md`, "Core
invariant"): *no action is valid unless the world still matches the frame it
was planned against; no success is real unless our verifier proves it; no
consequential action happens without explicit approval.*

## 1. Inventory

    AssistantHarness -> supervisor -> AgentHarness -> MCP child -> daemon (Runtime) -> PiKVM / VNC backend
                          |             |- model pool, budget     |- SQLite session store
                          |             `- media coordinator      |- FrameStore (capture, world version)
                          `- run store (SQLite)                   |- burst executor -> watched typing
                                                                  `- operator graph (LangGraph)

Daemon and harness are two processes, each one asyncio event loop: everything
between two `await`s is atomic, everything else interleaves. HTTP routes of the
daemon call one method of `Runtime` each; a client that disconnects cancels its
coroutine at an `await`. The daemon's session store is one `aiosqlite`
connection with a FIFO queue, so its writes take effect in the order they are
issued. The harness keeps everything that must survive in the run's record: a
cancelled continuation or a restart loses the locals of whoever worked on it.

| part | source | state | operations | hard behaviour | what makes it correct |
|---|---|---|---|---|---|
| harness supervisor | `harness/api.py` | run locks, scheduled continuations, queued operator commands | continue, automatic resume, approve, pause, steer, stop, recovery after a restart | a command cancels a continuation wherever it is suspended, and races with the next one | commands get through, automatic continuation comes to rest |
| agent harness | `harness/agent.py`, `agent_models.py` | the run's record: status, plan, pending action, hold, next index, resume budget; its events, from which a load reads the unread surfaces | advance, plan, control, execute, accept, verify, speculate, resolve an approval | restarts with a provider call or an action outstanding, lost answers, a verifier and a controller in parallel, a target that is exchanged | no index twice, none for a run that has ended, no unsafe input after unread text that is still on record, an ended run stays ended |
| run store | `harness/agent_store.py` | one state document and an append-only history per run | load whole, windowed or without history; save | two tasks save one copy, stale copies and forks, a cancellation or crash before the commit | no saved event is lost, the state is never behind its history |
| model pool, budget | `harness/model_pool.py`, `model_budget.py` | cooldowns; durable attempts, committed and outstanding cost | complete with fallback and repair; authorize, close | overlapping calls over one record, failing saves, cancellation between reserve and settle | never over the budget, every call ends |
| content transfer | `harness/media_transaction.py`, `daemon_media.py` | the transaction's saved state, a private copy of the image, the target's drive | stage, decide, attach, release, roll back, latch | refused, lost and late mutations, crashes between any two steps, two runs at one drive | nothing is sent twice or after an unknown outcome, no image is left behind the record's back |
| watched typing | `executor/typing.py`, `verification.py` | what was typed, located, corrected and read; the field, its frames, the focus | emit, look, correct, reread, finish | input is lost or bent, video trails, a window takes the focus, a stop lands anywhere | a text verified in its field is there, a stop bounds what follows, older text survives a clear that starts behind the text |
| direct bursts | `runtime.py` `run_burst`, `submit_approval`; `executor/burst.py` | `SessionRuntime`: control epoch, sticky brake, status, receipts by key, claims by key and by digest, retained unsafe results | submit, hold for approval, approve, reject, claim, join, execute, settle, abort | requests with the same key or actions ground for seconds and reach the claim in any order; clients leave; approvals race | one execution per claim, at-most-once per key and after an uncertain result that is retained, honest receipts |
| operator loop | `graph/*.py`, `executor/transactions.py`, `executor/recovery.py`, `runtime.py` `continue_session`, `_after_run` | `AgentState` on a checkpoint thread, the budget of the call, session status | observe, decide, gate, interrupt, execute, verify, recover, pause, finalise | the abort, a human's input, a repaint or the deadline lands inside any node; the graph is suspended and resumed | exact consent, budget per call, stop is terminal, calls return |
| emergency brake | `runtime.py` `panic_stop`, `execute_once` | registry of sessions, brake and epoch of each, registry of HID tasks, an idle event | latch every session, wait, report | sessions start and bursts pass their entry check while it latches; HID may hang | an ok answer means started work has exited and stays quiet; it answers unless its own key release hangs |
| frame store | `store/frames.py`, `vision/frame_diff.py` | last fingerprint, world version, frame sequence, latest record | capture | captures interleave around awaits in threads | a version names one screen |
| session store | `store/sqlite.py`, `store/trace.py` | rows of sessions, approvals, frames, events | single statements | order of writes | appears as the `stored` and `approvals` variables |
| direct policy | `policy/direct.py`, `policy/safety.py`, `policy/risk.py` | none | classify | none (pure) | its verdicts are inputs of the models |
| PiKVM client | `pikvm/*.py` | pressed keys, HTTP client | key, mouse, screenshot | a cancelled call leaves a key down | `release_all` on every exit |
| leases | `harness/vnc_target_lease.py`, `local_process_lease.py` | lease files | acquire, renew, release | two processes, a dead owner | one owner at a time |
| direct-call ledger, receipts | `harness/direct_calls.py`, `input_receipts.py` | ledger of calls | record, reconcile | lost answers | an uncertain call is never reported as done |
| assistant, server, MCP | `harness/assistant.py`, `server.py`, `mcp_*.py` | conversations, streams | HTTP surface over the supervisor | reconnection | exactly the harness's answers |
| perception, providers, CLI, consoles, benchmarks | `vision/`, `harness/providers.py`, `cli.py`, `frontend/` | - | - | outside the models: a nondeterministic input, or user interface | - |

Shared state through which these parts meet: inside the daemon `control_epoch`
(bumped by a human's input, by another client of the machine, and by abort and
panic), `stopped` (the sticky brake), the session `status` and the world
version; between harness and daemon the session and the idempotency key of an
action; inside the harness the run's record.

## 2. Modules

| module | what it is | proofs in |
|---|---|---|
| `BurstRuntime` | direct bursts of one session | `BurstRuntimeProofs` |
| `BurstLedger` | the abstract promise: a ledger of executions | `BurstRuntimeProofs` |
| `OperatorGraph` | the operator loop of one session | `OperatorGraphProofs` |
| `FrameStore` | captures, world versions and the freshness guard | `FrameStoreProofs` |
| `PanicStop` | `panic_stop` against bursts and loops of several sessions | `PanicStopProofs` |
| `AgentHarness` | one managed run under its supervisor, against a daemon | `AgentHarnessProofs` |
| `ActionLedger` | the abstract promise: a run's actions, decided, begun and counted in turn | `AgentHarnessProofs` |
| `RunStore` | the durable record of a run and its concurrent copies | `RunStoreProofs` |
| `ModelPool` | overlapping model calls under the durable budget | `RunStoreProofs` |
| `MediaTransaction` | virtual media transactions over one drive | `MediaTransactionProofs` |
| `WatchedTyping` | one watched text, the field and its frames | `WatchedTypingProofs` |
| `MC*` | instances for TLC: symmetry sets, functions and records as constants | |

How they compose. `BurstRuntime` implements `BurstLedger`, `AgentHarness`
implements `ActionLedger`; `AgentHarness` uses the daemon as a client of the first
(a key executes at most once in its session), not as its implementation. One action of `BurstRuntime` may be a whole
run of `WatchedTyping`, whose results it takes as one nondeterministic outcome.
`AgentHarness` saves its record atomically, which is what `RunStore` is about, and
asks models that answer or fail, which is what `ModelPool` is about.

Definitions commented "A mutant" are changed forms of the definition after
them: `PROJECT.json` pairs each with the property it breaks, and no
specification uses them.

### BurstRuntime

A *request* is one coroutine: a call of `run_burst`, or of `submit_approval`
(which calls `run_burst` itself when it approves). `pc` says at which `await` it
is suspended, and one action is the code up to the next:

| pc | the code | action |
|---|---|---|
| `idle` | entry, validation, brake, receipts | `Submit`, `RefuseMalformed`, `RefuseUnanchored`, `Decide` |
| `capture` | first `frames.capture` | `Capture`: stale world, changed epoch, another client |
| `ground` | OCR, grounding and policy | `Ground`: blocked, held, or the claim's critical section |
| `hold`, `record` | `save_approval`, then `update_session` | `HoldStatus`, `HoldRecord` |
| `wait` | `asyncio.shield(claim.task)` | `PostSettle`, `Settle`; `BadBurst` for a task that raised |
| `finish` | store writes before the answer | `Finish` (`finish_execution_claim`) |
| `deciding`, `reject`, `rejected` | `submit_approval` | `Approve`, `RejectResolve`, `RejectApply` |

The execution task is named after the request that created it (`task[r]`),
outlives it, and moves by `TaskGate`, `TaskAct`, `TaskInterrupted`, `TaskFails`
and `TaskRaises`: the gate is polled before every action and inside it. `Cancel` is
the client that leaves at any `await`. `AbortSession`, `HumanInput` and
`Machine` are everyone else.

`idem`, `inflight`, `semantic`, `unsafe` and `aliases` are the five maps of
`SessionRuntime` and of a claim, with their Python lifetimes: `aliases` keeps
growing while a claim is joined, claims are popped only if they are still this
one, and an abandoned claim stays until some joiner finishes it.

Abstractions. A digest is a model value: two requests with one digest have the
same actions, budget, session and machine, as `sha256` makes them. What
grounding and the direct policy answer is a choice from `Verdicts`. The
micro-actions of `executor/burst.py` are `NActions` equal inputs, each of which
may complete, fail, end unverified, or be cut by the gate or the deadline. `validate_actions` does not know the types of actions, so `_dispatch` may raise
`BurstError` inside the task, at any action (`TaskRaises`); whether it does is fixed by
the actions in the code and free for each task here. Input is counted as emitted
when the action is dispatched.

### BurstLedger

What a client may rely on, without requests, receipts, claims or awaits: a log
of executions. `Begin` needs that no twin (same key or same actions) runs, that
the actions are not `burnt`, and that every earlier execution of the key was
approved, unless this one is; `End` closes an execution and may burn its
actions. `BurstRuntime` instantiates it with the tasks that exist, those that
are live, and the digests of tasks that ended badly, without raising, after a
completed action.

### OperatorGraph

`at` is the node the invocation is in, with the two nodes that await in the
middle split there: `execute_transaction` (`capture`, then per action `acting`
and `sending`) and `recover` (`recovering`). `call` is where the call is:
awaiting `backend.connect` between the brake's test and the first write
(`connecting`), or in the graph. `human_interrupt`, `budget_pause` and `idle` are
where the graph can be suspended; a node that raises, and a client whose call is
cancelled, end the call anywhere (`LoseCall`), and the next call continues from
the checkpoint (`Checkpoint`): the node that did not finish, from its beginning. `observe_frame`, `parse_screen` and `detect_state` are one step
at the capture, and `policy_gate` and `validate_decision` one step at the
route: nothing in them is awaited that another party's step could separate.

A decision is its risk class, the world version it was planned on and whether
its frame is the current one. `consented`, `lost` and `raced` are history: which
decisions a human approved, whether the last call reported, and whether the last
abort came between the two writes of a hold. `maxTx` and `deadline` are chosen by each call, `DeadlinePasses`
at any time.

The graph library's checkpointing is taken as it documents itself: an
interrupted invocation resumes in its node with its state. Two calls on one
thread at the same time are not modelled (section 7), nor a call on a thread that
has ended. Whether a hold that was lost before its row was saved can be answered is
left open: `SubmitApproval` may come.

### FrameStore

`capture` awaits three times, so it is four actions: `Shoot` (the backend takes
the image), `ReadKeyboard` (the image has arrived; `_keyboard_state` is read),
`Compare` (the fingerprint is computed; version, baselines and frame sequence
move together) and `Record` (the file is written; the record takes the version
of *that* moment). A reader that captures for a guarded action holds the record
the action was planned on in `plan`, and `Record` applies the test of
`run_burst` and `execute_transaction` to it. `compared` and the field `at` are
history: which comparison left which version.

Screens are the classes that `fp_meaningful_change` tells apart; the real
relation is a threshold and not transitive, so a drift below it per capture is
outside the model. Region crops and look freshness, which nothing in the daemon
uses, are left out. `BurstRuntime` and `OperatorGraph` take the result for
granted: their `world` is the version of what the screen shows.

### PanicStop

Sessions are registered by `StartSession` at any time. A task goes through
`entered` (past the entry check of `run_burst`), `created` (scheduled, not yet
run), `gate` (registered in `_active_hid_tasks`, about to poll its gate),
`sending`, `exiting` and `done`; the operator loop of
a session sends without being registered. `panic_stop` latches one session
after another with a store write in between, awaits a `release_all`
(`releasing`), waits for the idle event with a timeout, awaits a second
`release_all` (`woken`), and answers ok when it was woken by quiescence and
nothing is registered. Either release may fail, which is swallowed, or never
return. `scope` is the set of sessions it found, `begun` the tasks that had
started when it looked.

### AgentHarness

`run` is the `RunSnapshot` as last saved, and changes only where the code saves.
`line` is the run's lock, its holder first: `cont` (a continuation), `appr` (an
approval being resolved) or `op` (an operator's command). `pc` is the `await` the
holder is suspended at; `slice`, `check` and `ctl` are the locals of `_advance`,
`_verify` and the speculative `_control`, which a cancellation forgets.

| the code | actions |
|---|---|
| supervisor (`api.py`) | `ContinueRequested`, `ApprovalRequested`, `OperatorCancels`, `OperatorQueues`, `Pause`, `Steer`, `Abort`, `AbortConfirmed`, `AbortFails`, `Restart` (`pause_interrupted_runs`); `Released` is the end of every slice, with the automatic continuation and its durable resume budget |
| `continue_run`, reopening | `Continue`, `Reopened`, `ReopenFails` |
| `_advance` | `BudgetReached`, `ObserveOnly`, `FastPath`, `AskPlan`, `PlanAnswered`, `AskControl`, `ControlAnswered`, `ModelFails`, `Adopt`, `Replanned` |
| `get_control`, the windowed load of a request | `Load` |
| `_execute_pending`, `_accept_action_observation` | `Attempt` (saved first), `Send`, `TransportFails`, `AcceptHeld`, `AcceptRefused`, `AcceptUnread`, `AcceptFailed`, `AcceptCompleted`, `AcceptOther`, `Dismissed`, `Renavigated`, `Freshened`, `FreshenedElsewhere` |
| `_verify` beside `_control` | `EvidenceRefreshed`, `EvidenceMissing`, `VerifierAnswered`, `DelayedFrame`, `VerifiedElsewhere`, `SpeculationAnswered`, `SpeculationFails`, `Joined` |
| `resolve_approval` | `Resolve`, `TakenOver`, `Rejected`, `Quit`, `ResolveFails` |

The daemon (`Executes`, `Declines`, `EndsExecution`) runs a key at most once per
session, may hold it, refuse it, or run it long after the harness has gone; an
aborted session starts nothing. `target` is the machine behind it, which may be
exchanged once.

Abstractions. A plan exists or not; an action is what it does to text that has
not been read back (`Types`, `Clears`, `Spoils` are
`_unsafe_unverified_input_followup` and its inputs); models answer anything.
Four fields of `run` (`unread`, `navs`, `gap`, `disagreed`) are not columns of the
record: the code reads them off the run's events, and a request loads the last
1,000 of these only. The model does not count events. `Load` lets any part of them
be forgotten at any time the run is at rest, which is more than the window forgets.
`AcceptUnread` adds the surfaces of the action or none, because the code takes a
surface from an event only if the receipt in it attests the text.
`draft`, `excused` and `swapped` are history: which surfaces hold unread text that
is attested and still on record, whether the code has given up an outcome, and how
a changed target was noticed. Left out: prompts, the content of plans and evidence, direct calls and
media inside a run.

### ActionLedger

What a run promises about its input, without models, locks, sessions of the
daemon, its queue or restarts. An action is decided in its turn (`Decide`: nothing
is pending, the run has not ended, its index is the number of actions counted),
begins only while it is pending, once, and beside nothing that has begun and
whose outcome is open (`Begin`), and is counted only if it has begun (`Count`).
`GiveUp` drops what is pending, as the end of a run does. `Move` is a new
session, where everything may begin again; if something had begun and was not
counted, the ledger must say that it was `forgiven`. `AgentHarness` instantiates
it with `run.next`, `run.pending`, the keys that are running or have ended in the
run's session without their answer having been read, `excused`, and whether the
run's status is completed, rejected or aborted. A key that comes to its end
unseen, a hold, a refusal, a pause, a plan and a verification are stutters.

### RunStore

`history` and `state` are the two committed rows. A copy is loaded by one statement
(`GetState`) or by two with commits in between (`GetControl`, `GetEvents`); `torn`
remembers the latter. `Record` changes a copy and appends its event. A save is
`Begin` (BEGIN IMMEDIATE), `Write` and `Commit` or `Rollback`; `Conflicts` is
`_new_event_jsons`: an event that differs at the saved cursor, a gap, or a copy
that lacks saved events. `Discard` and `Crash` end copies anywhere. `seen` is
history: the events a copy descends from.

### ModelPool

A call walks its route: `Skip` an unready or cooling provider, `Authorize` or
`Refuse` an attempt, `Reserved` when the reservation is saved, the provider is asked
(`Answered`, `Raised`), and the outcome is settled and saved (`Settled`,
`Unpriced`, `GaveUp`), with one repair per provider before the fallback.
`memory` is the budget of the shared record and `stored` its last save;
`SaveFails`, `Reported` and `Interrupted` are what separates the two. `sent`,
`spent` and `excess` are history: what providers were really asked and paid.

### MediaTransaction

One transaction per run: `StageArtifact`, the operator's `Approve` or `Reject`, then
`_attach` (upload, select, connect), `Release` (disconnect, clear, remove), and
`RollbackBegins` with `Undo` (inspect, then undo what is still there). Every
mutation is saved (`Checkpoint`), sent, and either `Confirmed`, `Refused` or lost
(`ResponseLost`); an inspection must show it (`Verified`, `Unproven`). Whatever is
uncertain ends in `cleanup_required` (`_latch_cleanup_required`), from which nothing
is sent. `SaveFails`, `Crash`, `LateEffect`, `ConsoleUndoes` and `TargetSwapped` are the
environment. The drive names images by content: `Name` says whether two runs
share a name.

### WatchedTyping

One `type_text`. The typer's side: `pc` is `top` (the poll before a chunk),
`emit`, `locate`, `cadence`, `judge` and the corrections (`pronoun`, `chained`,
`glyph`, `repaired`, `tab`, `blink`), then `reread`, `recover` and `done`. The
machine's side: `field`, the control that had the focus when the first chunk went
out, holds cells (which chunk, and whether it arrived good, bent, short or long),
`shown` is the field in the frames, which `Paint` lets catch up at any time, `focus`
and `caret` say where input goes. The caret can be `beyond` the insertion point,
where the End or Ctrl+End after a read leaves it in an editor with older text. `Stop`
lands anywhere, `Steal` anywhere after the first chunk. The Backspaces of `Replay`
and the keys of `Repair` can be lost or come twice like any other, and go to whatever
has the focus. `Localise` is the last attempt to find printed text or exact prose:
it carves the text out of the last read or of the whole screen, which may show it in
another place (`echoed`, or in a thief).

Recognition is a choice: a frame may be misread as any class in `Readable`, but a
match is only read where the frame shows one, in the field or, as the class
`elsewhere`, in another place; `carved` is the text cut out of a longer one.
Locating the field succeeds or not.
A chunk is the text between two looks and stands for any number of characters;
`MaxBackspaces` is counted in chunks. The profiles are what `type_text` derives
from its arguments: compared exactly, declared prose, field, editor or other, printed
or keyed, indented, at most 20 characters, whether the read moves the caret; and
whether the target shows the text elsewhere. Left out: texts too short to be looked at, secrets, regions given by callers.

## 3. Runs

| run | instance | checks |
|---|---|---|
| `burst_core` | 3 requests, 2 keys, 1 digest, 2 actions, one epoch change and an abort, bursts that raise, no approvals | `SingleFlight`, `NoRepeatAfterUnsafe` |
| `burst_approval` | 2 requests, 1 key, 2 digests, all verdicts, one repaint, the local-pointer profile | `TypeOK`, `AnswerHonest`, `ImplementsLedger`; `Answered`, `StopQuiesces` under `FairSpec` |
| `graph_core` | cap 2, 2 actions, deadlines, one human input, aborts, one repaint, calls lost at any await | `TypeOK`, `StopOwnsStatus`, `NoTransactionAfterStop`; `CallReturns` under `FairSpec` |
| `graph_consent` | deadlines, cap 3 | `ConsentIsExact` is violated (section 6) |
| `frame_core` | 2 readers, 2 screens, 2 keyboard states, 4 captures | `TypeOK`, `VersionNamesScreen`, `GuardHonest` |
| `panic_core` | 2 sessions, 2 tasks, their operator loops | `TypeOK`, `StartedWorkExited`, `BurstsStayQuiet`; `PanicAnswers` under `FairSpec` |
| `harness_core` | actions that type into a terminal, 2 indices, 2 per slice, 1 automatic resume, 2 sessions, 2 operator commands or restarts | `TypeOK`, `KeepsLedger`, `LoopRuns`, `NoBlindInput`, `SettledIsFinal`, `IdentityHolds` |
| `harness_live` | one click, 1 navigation replan, 1 automatic resume, 1 command or restart | `StopAnswered`, `ContinuationEnds` under `FairSpec` |
| `store_core` | 2 copies, each saved by 2 tasks, window 1, 4 events | `TypeOK`, `StateIsNewest`, `NothingLost` |
| `pool_core` | 2 calls, an unready, a metered and a subscription provider, 3 attempts, a cap of 4, answers that cost 1 or 3 for a reservation of 2 | `WithinBudget`; `CallEnds` under `FairSpec` |
| `media_core` | 2 transactions over one drive, images of different content | `TypeOK`, `DriveAccounted`, `ArtifactKept`, `NoRetry` |
| `typing_core` | ten deliveries of 1 to 3 chunks, at most 2 of them cleared | `TypeOK`, `VerifiedHolds`, `StopBounded`, `FieldKept`, `FocusGuard` |

Bounds. Three requests are a burst, its retry and a third party that joins; two
are enough where holds and decisions are what races. Two keys over one digest
are the retry under a new key, two digests under one key the reuse of a key; the
two are separate runs because their product adds states and no interaction.
Two actions distinguish "nothing done", "some done" and "all done". `MaxEpoch`
leaves one revocation and one abort, `MaxWorld` one repaint: epochs and versions
are compared for equality, so further bumps repeat the first. `StepBound` exceeds
`MaxSteps` or equals it where decisions at the cap are what matters. `MaxFrames`
of 4 is a plan, its guard, and two captures that overtake either; two screens
include the return to an earlier one.

`MaxIndex` of 2 is an action and the one that must not repeat or overtake it, in one
slice or in two (`PerAdvance`). Two sessions are the one that may still execute and
the one opened after a restart. Two disturbances are a command and a restart in
either order. `"terminal"` is the kind of action that both leaves text unread and
is spoiled by it; `"click"` is the one that the navigation replan is for.
Two tasks per copy are the verifier and the speculative controller; two copies
are a fork, or a stale reader against a writer; four events exceed the window on
both sides of a fork. Two overlapping calls are what one run makes, three attempts
leave one call to exhaust what the other has reserved. In `media_core` the
two names differ; with one shared name the same properties hold. The deliveries of
`typing_core` are one for each way the typer treats a text, and its longest
exceeds the clear's cap. The cadence's second read, at the fourth chunk, is beyond
them: the theorems, which bound no text, cover it.

Deadlock checking is off where the system really stops: a finite set of requests,
a graph suspended after an abort, a run that has ended, one media transaction per
run, one call of `type_text`. It is on in `FrameStore`, `PanicStop`, `RunStore` and
`ModelPool`, which may always go on.

## 4. Fairness

* `BurstRuntime`: `WF(Progress(r))` because the event loop resumes every
  coroutine whose await has completed, and `WF(TaskStep(r))` because a burst is
  bounded by its deadline (`executor/burst.py` tests it before and inside every
  action), provided each HID call and capture returns. Nothing obliges a client to call, a human to decide, or a client to
  stay.
* `OperatorGraph`: `WF(Loop)`, the scheduling of one call, from the answer of
  `backend.connect` on (a failed connection is an answer too), provided each model,
  capture and HID call returns or raises. Calls, approvals, deadlines, lost calls
  and the outside are not fair.
* `PanicStop`: `WF(PanicStep)` only: `panic_stop`'s own turns, the local store's
  answers and the wait, which `asyncio.wait_for` bounds. A HID call may hang for
  ever: no task or loop is fair, and neither are `Released` and `Report`, the
  returns of `panic_stop`'s own releases. `PanicAnswers` says that it answers or
  stays in one of these two for ever.
* `AgentHarness`: `WF(OperatorQueues)`, weak fairness of the holder's own steps
  (models, captures and calls of the daemon answer or time out) and of the
  daemon. Clients, operators, restarts, changed targets and failures are not
  fair; reopening and renavigating are taken with their failures because
  there an answer is not promised.
* `ModelPool`: `WF(Handles(c))`: providers answer or time out, and saves return.

## 5. Proofs

All proofs are for arbitrary constants, from the assumptions named in each
module. A safety property is seldom inductive; each proofs module states the
inductive invariant as a conjunction of named parts and proves it action by
action.

`BurstRuntimeProofs`: `TypeCorrect`, `OneTaskAtATime` (`SingleFlight`),
`KeyRunsOnceUnapproved` (`UnapprovedKeyOnce`) and `UnsafeNeverRepeats`
(`NoRepeatAfterUnsafe`), from the invariant `Inv`. None of the three is inductive
alone, because each is about tasks while the code decides from maps. `Inv` says
what the maps mean: an executing task has the key and digest of its request
(`Arguments`); a hold is pending only for a request that made it (`Held`); a
request in `wait` or `finish` awaits a task that exists (`Awaiting`), created by
exactly one claim (`Created`); every live claim is in `semantic` under its digest
and in `inflight` under each alias (`Indexes`); every key of a task that has run
is either still in flight or has a receipt (`Remembered`); and a task that ended
badly after a completed action, without raising, is either still indexed by its digest or has its
result retained in `unsafe` (`Braked`). The last two are what makes "absent from
every map" mean "has never run", which is the test the critical section makes.
The same module proves `BurstsImplementLedger` (`ImplementsLedger`), a step
simulation over `Inv`: a task's arguments never change (`ArgumentsStay`), and only
the claim's critical section and the task itself change a task (`TaskKinds`); the
first is `Begin`, whose guards are read off `Indexes`, `Braked` and
`UnapprovedKeyOnce`, the second is `End` or a stutter. `AnswersAreHonest`
(`AnswerHonest`) adds two facts to `Inv`: a receipt reports a success only of a
digest of which an execution completed, and no retained unsafe result is one
(`Truthful`); a finished request's answer does likewise (`Told`). An execution
that completed is never taken back (`CompletedStays`), so every path by which a
success is copied (task to claim, claim to receipt, receipt to answer) keeps both.

`OperatorGraphProofs`: `TypeCorrect`, `CallsStayInBudget` (`CallBudget`),
`StopKeepsStatus` (`StopOwnsStatus`), `StopEndsTransactions`
(`NoTransactionAfterStop`), and `ConsentWithoutDeadlines`: *if calls carry no
deadline*, `ConsentIsExact` holds. The invariants: a transaction under way has
unspent budget; once the session is stopped, no node past the gate carries the
live epoch as its stamp, since abort bumps the epoch and only decisions stamp
it, and a later decision meets the brake before its capture; no call writes more
than `running` over the brake, and one that reports takes it back; and, without
deadlines, `approved` is up only between the approval of the current decision
and the end of its transaction. The deadline's deferral is the one path that
leaves it up, which is the finding of section 6.

`FrameStoreProofs`: `TypeCorrect`, `VersionsNameScreens` (`VersionNamesScreen`),
`FrameIdsAreUnique` (`FramesUnique`) and `GuardsAreHonest` (`GuardHonest`). The
invariant says that the baselines are the last comparison and that every
comparison of the current version equals them (`Baselines`), that a capture
under way and every record come from a comparison that is not later than the
version they carry (`Compared`), and that a guard's own comparison is not earlier
than its planned record (`Guards`): equal versions then leave room for no bump
in between. `GuardHonest` assumes that the planned record was not overtaken
while its file was written; section 6 says how it can be.

`PanicStopProofs`: `TypeCorrect`, `PanicWaitsForStartedWork`
(`StartedWorkExited`) and `PanicKeepsBurstsQuiet` (`BurstsStayQuiet`). The
invariant ties the registry to the tasks' stages, says that every session of
`scope` is latched or still to do, and that a task which started after its
session was latched carries an older epoch than the session, so that its gate
can never open.

`AgentHarnessProofs`: `TypeCorrect`, `OnlyPendingStarts` (`PendingOnly`),
`SettledStaysQuiet` (`SettledQuiet`), `SettledStaysFinal` (`SettledIsFinal`) and
`IdentityStaysBlocked` (`IdentityHolds`); the first two of these properties follow
from the ledger, so no run repeats them. `Inv` adds four parts to the types:
`Fits`, what a saved record may look like (a hold has a pending action, a pending
action carries the next index, an ended run has none); `Owned`, all that the
daemon may still start in the run's session is that pending action; `Placed`,
what is known of the record at each `await` and who holds the lock there; and
`Noted`, what the record says once a changed target has been seen. Two lemmas
carry most actions: `Concludes`, a slice that ends with a record that fits, and
`Moves`, a holder that goes to another `await`.

The same module proves `InputIsNotBlind` (`NoBlindInput`) from a second invariant,
`Sighted`, on top of `Inv`. The property is about `draft`, what the surfaces
hold, while the code decides from `run.unread`, what the loaded events report.
As long as nothing has been given up (`excused`), the two are connected by
`Covered`: every surface of `draft` is in `run.unread`, or the pending action typed
into it and its answer has not been accepted yet. `Chosen` says that the pending
action was compared with `run.unread` when it was chosen, and nothing is added to
that set while it is pending. A load that forgets a report keeps all this, because
`draft` loses with `unread` what the window has lost. `Elsewhere` says that a session the run has left, by a
restart or a navigation, has nothing of it left to start. `Covered` lapses where a
run has ended badly or rests for its machine; `Known` says that nothing can start
there. `Carried` is the step lemma for a record that goes on from the saved one,
`Leaves` for one that gives its pending action up, `Moved` for a new session,
`Isolated` for a changed machine.

`LedgerKept` (`KeepsLedger`) is a step simulation over `Inv`, `Sighted` and one
more invariant, `Spent`: while nothing has been given up and the record is not at
rest for its machine or after a bad end, every key of the run's session that is
running or has ended unread is the pending one. This is what `Begin` needs, and
it is not in `Inv`, which speaks of what may still start. `Booked` is the
conclusion of every step lemma: a step of the ledger, and `Spent` again. Steps are
classified by what they do to the record and to the daemon's jobs: `StandsBooked`
and `StandsSaved` for those that keep session, index and pending action,
`DropsBooked` and `UnbegunBooked` for those that give it up, `MovesBooked` for a
new session, and `ExecutesBooked`, where the daemon starts an action and the guard
of `Begin` has to be shown: by `Owned` the action is the pending one, by `Spent`
nothing else is open, and where `Spent` says nothing, `Sighted` says that nothing can
start, unless an outcome was given up.

`LoopKeepsRunning` (`LoopRuns`) is proved from `Steady`, which says what `LoopRuns`
needs of every await that leads back to the loop: at an approval, what follows it
and its verification, the approval still holds the lock as long as the slice has
attempted nothing of its own; and what leaves through the loop has been counted
as an attempt.

`RunStoreProofs`: `TypeCorrect`, `HistoryOnlyGrows` (`NothingLost`) and
`StateStaysNewest` (`StateIsNewest`). The code compares only the event at the saved
cursor, so the invariant must make one event enough: serial numbers are given once (`Fresh`), and
so sequences that share an event agree on everything before it (`Agree`, `Forks`). `Windows` places a windowed copy in what it
descends from, `Holder` ties the reservation to what is staged, and `States` says
that a copy that is not torn holds the state of its own events. The lemma
`Continues` puts them together: a copy that raises no conflict descends from the
whole history.

The same module proves `BudgetHolds` (`WithinBudget`) of `ModelPool`: the budget is
part of the record whose saves `RunStore` is about, and the two modules share
neither variables nor actions (hence `PoolInit`, `PoolNext` and `PoolSpec`). The
property compares what providers were really asked and paid with the limits; the
code compares what the record says is committed and outstanding. `Reserves`
connects the two: the reservations of all calls in flight fit into what is
outstanding, and those of the calls whose attempt is counted and not yet sent fit
between what has been sent and spent and what is counted and reserved, and below
the limits. A sum over an arbitrary set of calls would need an induction over
data, so `Within` says it of every list of distinct calls with its running
totals; when a call joins or leaves, the totals behind its place in the list
shift by its reservation and those before it stay.

`MediaTransactionProofs`: `TypeCorrect`, `DriveStaysAccounted` (`DriveAccounted`),
`ArtifactStaysKept` (`ArtifactKept`) and `NeverRetried` (`NoRetry`). The invariant
is per run: `Shape` and `Linked` say which step an operation can be at and what is
on record there, `Recorded` what a record says of the drive and of what was sent,
`Pending` that an operation under way has lost nothing and has not sent what is
ahead of it, `Kept` that the private copy is there as long as it is needed. The
lemma `Others` carries it past another run's actions, and `EffectOnDrive` past any
mutation of the drive.

`WatchedTypingProofs`: `TypeCorrect`, `VerifiedStaysTrue` (`VerifiedHolds`),
`StopIsBounded` (`StopBounded`), `FieldIsKept` (`FieldKept`) and `GuardSeesThefts`
(`FocusGuard`). `Ways` says where the call can be with what it knows, `Stops` what a
stop can still find under way, `Guards` when a stolen focus goes unseen, `Keeps`
that no chunk is in the field twice unless the property excuses it, and `Reading`
that the frames trail the field and that what was read there is attested by them. Each
part is preserved by a step lemma of its own, over lemmas about what an emission,
a replay and a repair do to the field.

Only model-checked: the liveness properties (`Answered`, `StopQuiesces`,
`CallReturns`, `PanicAnswers`, `StopAnswered`, `ContinuationEnds`, `CallEnds`), which
are outside the prover's reach. Every safety invariant and action property that a
passing run checks is stated by a theorem.

## 6. Findings

**An approval is spent on another decision** (`graph_consent`). A deadline defers an
approved transaction, and the deferral returns without lowering `approved`. After
the pause the next decision is another one; if it requires a human it executes on
the approval of the first. See `OperatorGraphProofs` above for the other half.

Reading notes: behaviour seen while translating. Where a property excepts it,
that is said; no run asserts the rest.

*Direct bursts, brake and frames.* Two identical requests may be held at once; the
second hold's `HoldRecord` replaces the first one's completed receipt, so its
approval executes again (`UnapprovedKeyOnce` bounds this to executions a human
approved). An abort during `save_approval`, or before a rejection's last write, is
followed by `needs_approval` or `blocked` over `failed`; input is not affected, the
gate reads the brake itself. The comment on `burst_unsafe_semantic_receipts`
(runtime.py:469) calls a non-successful result after HID an at-most-once brake. Two
kinds of burst escape it and run again under a new key: one cut inside its first
action, because `retain_unsafe` needs a completed one, and one that raises
`BurstError` after completed actions, because an action type that
`validate_actions` lets pass is unknown to `_dispatch`: the claim is then finished
with `retain_unsafe=False` (runtime.py:1446-1460). `NoRepeatAfterUnsafe` and the
ledger's `burnt` except both. That path also writes `paused` in memory over an
abort's `failed`; the brake itself stays. A capture writes its file before it makes its record, so a second
capture that bumps the version in between gives the old image the new version:
an action planned on it passes the guard (`GuardHonest` excepts it).
`panic_stop` waits for bursts only: `execute_once` alone registers HID work, and a
transaction of the operator loop may still be sending. The `release_all` before
and after its wait is eleven HID sends without a timeout, so a HID channel that
hangs keeps it from answering (`PanicAnswers` excepts this).

*Operator loop.* `operator_decide` reads the epoch after the model has answered, so a
human's input during the model's latency is absorbed into the stamp. `recover`
sends its key or click without reading the brake or the epoch. A decision that is
stale at `policy_gate` returns to `observe_frame` without passing the step cap
(`CallReturns` excepts steps beyond the cap). `_after_run` tests the brake once, on
entry, so an abort between the two store writes of its hold is followed by
`needs_approval` in the row, never in memory. `continue_session` tests it before it
awaits `backend.connect` and writes `running` after: an abort in between is taken
back by `_after_run`, but a call that raises or is cancelled never gets there and
leaves the stopped session `running` in memory (`StopOwnsStatus` excepts these two).
No input follows, as `execute_transaction` reads the brake itself. A transaction
whose call was lost half-way is executed again from its first action by the next
call, under the same approval.

*Agent harness.*
- A speculative controller that fails after the verifier has completed the run,
  or has blocked it for a changed target, writes `paused` over it
  (`SettledIsFinal` and `IdentityHolds` except the overlap). The refresh of
  `replan` and reopening store the new observation without comparing identities.
- A restart discards an ambiguous pending action; the old session's burst may
  still run, and a later abort stops the current session only. `PendingOnly` and
  `KeepsLedger` are therefore about the run's session.
- A run that was interrupted and then aborted is reopened by the next continuation
  (`SettledIsFinal` excepts `gap`). A run interrupted while planning cannot get a
  session. Abort on a blocked or failed run does nothing at the daemon.
- The loop after an approval tests terminal statuses only, and goes on past a
  pause; `LoopRuns` says that this is the only way it does. A stop can wait for a continuation that was queued between the cancel
  and the lock.
- A failed run can be resumed when its last verification failed, and a
  cancelled verification is skipped on resume; after the correction of a long
  terminal draft the guard of unread text is not asked again (`NoBlindInput`
  excepts these as `excused`).
- The unread surfaces are rebuilt from the loaded events, which are the last 1,000
  (agent_store.py:22 and 578, agent.py:5488), and only text whose receipt attests
  it counts. In a run with a longer history, or after text without such a receipt
  (a secret, a burst cut before its text was issued), the guard lets a repetition or
  a submission through; `NoBlindInput` is about the text that is still on record.
  The restart marker and the count of replans after navigation are read from the
  same tail, while the budget of automatic resumptions is counted over the whole
  history (api.py:643).
- A replan that the controller asked for is never resumed automatically.
- A burst whose result has no image cannot be seen to have changed the
  verification frame, so a speculative decision made without one may be adopted.

*Run store.* `get` and `get_control` read the row and the events in two statements; a
copy loaded across a commit lacks what its events record, and saving it puts the
state behind its history (`StateIsNewest` excepts it).

*Model pool.* A cancelled attempt keeps its reservation outstanding for ever. Two
overlapping calls may each cost more than they reserved, so the cap is exceeded by
the excess of both (`WithinBudget` counts it). A save that fails is taken for a
failure of the provider, and cools it.

*Content transfer.* Transactions of two runs take two locks and may share one drive.
With equal content one run's definite upload failure rolls back the other's image;
with different content one run's clear can undo another's selection. A crash or
failed save leaves `uploading`, `selected`, `prepared` or `rolling_back` on record,
and nothing recovers from them. Nobody calls `release_expired`, nothing sets
`VERIFIED`, and no production path constructs the coordinator yet.

*Watched typing.*
- Printed text, exact or not, and exact prose are carved out of a longer last read or
  out of the whole screen, and then count as read exactly (`typing.py:6787-6824`):
  `calcc` in the field, printed, makes `calc` `verified_exact`, although the comment
  at `typing.py:2783-2786` says of the field's read that `calcc` "cannot verify".
  `VerifiedHolds` asks of carved text only that the field contains it.
- A full-screen or changed-line read is not tied to the field: the text in an echo,
  or in the window that took the focus, can verify (`VerifiedHolds` excepts
  `elsewhere`).
- Reading a single-line field leaves the caret at Home, so the clear before a
  replay erases nothing and the text is there twice (`FieldKept` excepts it).
- Reading an editor ends with End or Ctrl+End, which is not the insertion point if
  older text follows it: the Backspaces of a later replay erase that text, and a
  repair counted from there edits it (`FieldKept` excepts it as `Adrift`).
- `_clear_recent_input` sends as many backspaces as characters were sent: input
  that was lost, or a Backspace that came twice, makes it eat older text; a lost
  Backspace or a doubled key leaves a part that is then there twice, and its cap
  leaves a remainder (`FieldKept` excepts them as `lost`, `doubled` and the cap).
- Long exact fields are not to be replayed on layout or case evidence, but the test
  is the length of what was typed so far (`typing.py:5308-5313`): a mismatch at the
  first chunk, of at most 20 characters, is replayed.
- A failing Shift-Tab is suppressed, and a correction after it may edit the
  neighbouring control.
- The chained local repair does not poll `should_continue` (`StopBounded` allows it
  one input), and a stop during the capture before a chunk lets that chunk out. The
  unit is a chunk or a whole correction: Backspaces, settle and text of a replay are
  one input.
- The missing-glyph repair on frames that trail longer than its two looks can
  duplicate the last glyph, and a frame that is later still can read as exact
  (`VerifiedHolds` excepts corrections whose frames lag).
- The focus guard is blind when its screenshot fails, during an emission, before
  the field is located, and after a correction renewed its baseline
  (`FocusGuard` excepts these as `window`). It stands before chunks only: a replay or
  repair sends Backspaces and text to whatever took the focus since the last chunk
  (`typing.py:5936-5947`; excepted as `unasked`).
- A prose text beyond the clear's cap that is found among other text is
  `verified_with_warnings`.

## 7. Not modelled, and the plan

Next, in order:

1. The direct-call ledger with its lost answers, and the leases of target and
   process.
2. The keyboard state tracker of the PiKVM client, against cancelled calls.

Left out, and why: OCR, image comparison, grounding, policy wording, receipts'
text matching and playbooks are data behind nondeterministic verdicts; HTTP and
HID encodings, routing and authentication change no state that the properties
tell apart; providers are nondeterministic answers; the assistant starts and
watches runs and decides nothing about their input; consoles, command line,
onboarding, benchmarks and acceptance are drivers and user interface. The
internals of LangGraph are taken as documented, including what two concurrent
invocations of one checkpoint thread do. In the modules, what is left out of
each part is said in section 2.
