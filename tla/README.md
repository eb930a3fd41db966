# A TLA+ model of aiops-v2

aiops-v2 is an operations assistant: a server that talks to language models
(`internal/`, `cmd/ai-server`, `web/`) and a **runner** (`pkg/runner`) that stores,
submits and executes workflows on hosts. This project models the core of both. Of the
runner, the part with concurrent workers, files that survive a crash, human approvals and
event streams: how a run is submitted, queued, executed on hosts, observed, canceled,
approved and recovered, and how an edited workflow is committed, confirmed and rolled forward after a
crash. Of the server, the turns of a session in its runtime kernel: how a turn is let in,
asks the model, executes tool calls, waits for an approval, is resumed, denied, canceled,
and survives a crash. The modules are checked with TLC on small instances, and the theorems are
proved with TLAPS for every value of the constants.

To check: `tlc -config RunService.cfg MCRunService`, `tlapm RunTrackerProofs.tla`;
`PROJECT.json` lists every run with its cfg, every definition with the lines it
models, and the hazards.

## 1. Inventory

| Component | State | Operations | What is hard |
|---|---|---|---|
| Run life cycle, run-state store (`state/`) | a file of run states with a status and a version | CreateRun, UpdateRun, MarkInterruptedRunning | a terminal status must stay, whatever arrives late |
| Run tracker (`engine/`) | the run state of one execution | Start, observer calls, Finish, callbacks | clones are written after the mutex is released and overtake each other; callbacks retry in goroutines nobody waits for |
| Run service (`server/service/run_service.go`) | jobs, metas, keys, sink marks in memory; records in a file; a bounded queue | Submit, Get, List, Cancel, worker loop, Close, restart | every call is several critical sections and file writes; two files that a crash can separate |
| Event hub and event store (`server/events`, `server/store/eventstore`) | subscribers' channels, a history file per run | publishEvent, Subscribe, Unsubscribe, the SSE handler | sends outside the lock, bounded channels, subscribers that leave |
| Approval coordinator (`server/service/approval_runtime.go`) | the waiting request of each run and node | WaitForApproval, ApproveNode, RejectNode | look-up and send are two steps; timeout, cancel and decision race |
| Graph executor (`executor/graph_executor.go`) | statuses, selected edges, first failure | Run: waves of nodes, joins, edge selection | concurrent nodes, conditions, failures that are or are not continued |
| Linear executor (`executor/executor.go`) | the step in hand; a goroutine per target with its attempt | Run, runOnTargets, runHandlers, runWithRetry | parallel targets with retries and timeouts; an attempt that ends while its work goes on |
| Hybrid dispatcher (`scheduler/hybrid_dispatcher.go`) | per task the attempt of its request | Dispatch, dispatchRemote, dispatchOnce, pollStatus | lost and late answers, requests repeated under one id |
| Host agent (`agent/main.go`) | the table of tasks | /run, /status, /cancel | look-up and entry are two critical sections; a restart empties the table |
| Workflow commit store and apply approvals (`server/service/workflow_commit_*`, `workflow_approval_store.go`) | a write-ahead log, snapshots with a current pointer, a ledger of receipts, an approval file beside it, an event log and an outbox | CommitDirect, Apply, Recover, UpdateReceiptLifecycle, issue, revoke and expire grants and approvals | crash between any two writes, compare-and-swap, replay of receipts, an approval that two files describe |
| Edit sessions, candidates, outbox delivery (`server/service/workflow_edit_*`, `workflow_outbox_dispatcher.go`) | sessions, previews, delivery attempts per partition | preview, apply, dispatch, retry | stale previews, deliveries after a failure |
| Runtime kernel (`internal/runtimekernel`) | the session with its current turn, shared by every call; per turn a cancel function, a pending cancel reason and a lock | RunTurn, ResumeTurn, CancelTurn, the iteration loop, tool dispatch, approval, checkpoints | no lock covers the session; a resume registers over a running call; cancels that come too early; approvals that outlive a crash |
| Agent manager (`internal/agentmgr`) | sub-agents and their mailboxes | spawn, wait, report, cancel | a child that ends while its parent leaves |
| Policies, permissions, tooling (`internal/`) | none, or tables | decisions about commands and tools | precedence of rules |
| Everything else: API, UI, prompts, projections, evaluation | | | I/O and text |

How they interact: an HTTP handler calls Submit, which writes a record, remembers the
meta and the key, publishes an event and puts the run into the queue; a worker takes
it, calls `Engine.ApplyWithRun`, whose tracker writes the run-state store while the
linear or the graph executor works. The executors send each step to the dispatcher, which
runs it in the process or hands it to the agent of the host over HTTP and polls. The graph executor asks the approval coordinator;
everybody publishes events. Cancel marks a waiting job or cancels the context of a
running one. A restart reconciles the run-state store and replays the records.
In the AI server an HTTP handler calls RunTurn, ResumeTurn or CancelTurn of the kernel,
which share the session of the conversation; the kernel asks the model, dispatches tools
and saves the session after every change of a turn. What is modelled of the two
parts shares no state.

## 2. Modules

| Module | Models | Checked by |
|---|---|---|
| `RunLifecycle` | statuses, allowed transitions, reconciliation of one run | used by the two below |
| `RunTracker` | one execution: tracker, clones in flight, callbacks, store, crash and reconciliation | `MCRunTracker`, `RunTracker.cfg` |
| `RunTrackerProofs` | theorems | tlapm |
| `RunLedger` | what the service shows of each run: its state, its events and what the sink hears, with no calls, workers, queue, metas or failures | refined by the next |
| `RunService` | the service over both stores, the queue and the sink, with crash and restart | `MCRunService`, `RunService.cfg`, `RunServiceRestarts.cfg`, `RunServiceKeyRace.cfg` |
| `RunServiceProofs` | theorems | tlapm |
| `EventHub` | the event stream of one run | `MCEventHub`, `EventHub.cfg` |
| `EventHubProofs` | theorems | tlapm |
| `ApprovalRuntime` | the approval of one node of one run | `MCApprovalRuntime`, `ApprovalRuntime.cfg` |
| `ApprovalRuntimeProofs` | theorems | tlapm |
| `GraphExecutor` | one run of a graph workflow | `MCGraphExecutor`, `GraphExecutor*.cfg` |
| `GraphExecutorProofs` | theorems | tlapm |
| `StepDispatch` | one run of a linear workflow with its hosts: the executor, the dispatcher, the network and the agents | `MCStepDispatch`, `StepDispatch.cfg` |
| `StepDispatchProofs` | theorems | tlapm |
| `WorkflowRegister` | what the commit store promises: a compare-and-set register with receipts, approvals spent once, a log of versions | refined by the next |
| `WorkflowCommit` | the commit store of one workflow key: lock, log, pointer, sidecar, callbacks, crash and recovery | `MCWorkflowCommit`, `WorkflowCommit.cfg` |
| `WorkflowCommitProofs` | theorems, the refinement among them | tlapm |
| `TurnKernel` | the turns of one session: the calls, the loop, the approval, the cancel, a crash | `MCTurnKernel`, `TurnKernel.cfg`, `TurnKernelOverlap.cfg` |
| `TurnKernelProofs` | theorems | tlapm |

### Correspondence

**RunTracker.** `run` is `runTracker.run`, `stored` what the store holds, `flight` the
clones between an observer call's unlock and its `UpdateRun`. `ObserveStep` and
`ObserveNode` are the observer calls; an actor makes its calls one after the other,
different actors in any order. A snapshot is reduced to its status, its version, how
many calls of each actor it carries and whether it records a callback error.
`callbacks` counts the goroutines of `notifyAsync` per attempt. `Persist` may fail.

**RunService.** Each action is one critical section of `s.mu` or one store write. `act`
holds where the call of a client or worker is and its local copy of a meta: this is how
stale copies arise. `Get` and `List` read twice: `Get` the run state and then the meta, `List` the
records and then the run states (`ListRuns`). A run one of them finds only in the run-state store
is written back as a meta without its idempotency key; `bareMetas`, `bareRecords` and `bareCopy`
say which metas in memory, in the records and in an actor's hands have lost it, and the index is
neither filled nor rebuilt from such a meta. `jobs` is `runJob` (waiting, canceled, started), `metas` and
`idempotency` the in-memory indexes, `records` and `runStore` the two files. `Crash`
loses the memory at any point; `Close` lets the workers finish; `Restart` is
`NewRunService`. Store writes fail up to `MaxFaults` times and are then handled as the
code does (logged, returned, or rolled back). A send on a queue closed since the check
panics in the handler, which net/http recovers: the call ends without its rollback.
Ghosts for the properties: `told` (calls to the sink), `acked` (answers of Submit per
key), `preCanceled`, `rolledBack`. `RunLedger` has only what can be seen from outside, per run:
the status in the run-state store, the events, the word to the sink, and whether it was canceled
before its start or its submission undone; `ImplementsLedger` says that the service moves them
as the ledger does. The records file is not part of the ledger: a stale reader may set it back.

**EventHub.** `AppendEvent`, `Publish` (the copy under the read lock) and one `Send` per
copied channel are separate steps. A channel has `Capacity` places (128 in the code); a
full one drops. `Unsubscribe` closes the channel.

**ApprovalRuntime.** A request is created, registered, waited for, left and
unregistered; `Return` is the select of `wait`, which takes any ready case. A caller
looks the request up and later sends. Requests of other nodes or runs share nothing, so
one node is modelled; several executions of it, one after another (loop iterations) or
at once (a subflow in two branches), compete for the registration.

**GraphExecutor.** `wave` is the set of nodes started together; `result` what they have
returned; `CompleteWave` applies all results as `completeNode` does. Conditions are
chosen freely each time they are evaluated, which covers every content and every merge
order of the variables. `kind`, `strategy` and `continueOnError` are chosen once: they
are the workflow. `round` counts waves; it is not in the code and only the proof reads
it. A loop or a subflow is the work of its node. `Parent` gives the loop or group a node is inside:
Run schedules only nodes without one (`TopLevel`), while `PendingSelectedNodes` counts all, so a
selected node inside a loop or a group stalls the run; and `Followed` skips the edges from a loop
to its own body, which `HasContinuation` counts, as the code does.

**StepDispatch.** Three parts meet here. The executor is `step`, `status` (what the observer
was told), `round` (which call of `runOnTargets` within the step: a loop item or a handler)
and `run`. `Retries` gives every round, a handler's too, its number of retries, any integer: with
a negative one the loop of attempts is never entered and the host counts as done (`NoLoop`).
A host's goroutine is `at`, with `attempt` of `runWithRetry`, the task of the
attempt (`goes`; the engine puts the time into the id, so every attempt is a new task) and
`try` of `dispatchRemote`. A request to `/run` is one element of `call`: sent, then looked up
(`getTask`), then served (`setTask` and the goroutine), then answered; `work` is the
execution it started and `entry` the agent's table. Because look-up and entry are two
critical sections, they are two actions. A request lies in the network for as long as it
likes, and whether it is lost or merely late cannot be told apart, so losing it is never
handling it. When the client stops waiting, its connection is closed and what the handler
answers is dropped (`over`). A poll is answered from the table in one step; a poll that is
lost is `PollBreaks`. A restart of an agent empties its table and ends its handlers and its
executions, which then count as failed. Ghosts: `raced` (tasks two requests of which were
between look-up and entry at once), `gaveUp` (tasks whose client stopped waiting without a
verdict).

**WorkflowCommit.** Every call takes the file lock of its workflow key, recovers, acts and
leaves: `stage` is how far the one holder is, `op` its call, `acting` whether recovery is
over, `rec` the write-ahead record it works on, `mem` the approval file as it holds it and
`res` what it will return. A receipt is `committed` at once for a plain save and `verifying`
for an applied change, which a call settles later. On disk are `cur` (the snapshot the manifest names: generation,
transaction, ledger, spent approvals), `wal` (the records that are not finished), `side`
(`approval-state.json`), `log` and `queued` (the event log and the outbox the two callbacks
write). `SwitchPointer` is the commit point; `Confirm` and `Ack` are one callback and the
record of it, and a crash between them repeats the callback. A request stands for its
digest: transaction ids and versions are digests of requests, so none comes back. `Fail`
ends a call with an error before or after the effect of its step, `Crash` between any two
steps; both are possible always. A call's clock decides what has lapsed (`Lapses`): any set
of approvals, or the grant and with it all of its approvals. `bound` is the binding that a
verification seals with a key of the process, so a crash empties it. Ghosts: `base` (the
version a request was prepared against), `told` (the last receipt a caller was given).
`WorkflowRegister` has none of the lock, log, sidecar or crashes; `ImplementsRegister`
says that the store is that register, with the approvals as `Reconciled` reads them.

**TurnKernel.** A call is a goroutine in RunTurn, ResumeTurn or CancelTurn; `pc` says where
it is, `turn` which turn it is about, `about` and `dec` the tool call it executes or
decides. The session is what all of them share without a lock: `cur` is
`session.CurrentTurn`, and a turn is its lifecycle, its resume state, the tool call of its
pending approval (`offer`), the tool calls of the last iteration without a result (`todo`)
and the number of iterations. `Save` is `persistTurnSnapshot`: it makes the turn the current
one and writes the session to the store. `stored` is that write; the Postgres store makes
it before the call goes on, which is what is modelled, and a crash therefore keeps the
current turn and loses the others. `Ensure` is `ensureCurrentTurnSnapshot`, which builds a
new snapshot for a turn that was displaced. The registry of cancels is `inFlight`,
`pendingCancel` and `lock`; a resume registers before it looks at the turn and so replaces
the cancel function of a call that runs it, and `Leave` deletes whichever is there, as the
code does. The steps of a call are cut where another call can come between: at the model,
at a tool, at the lock, and between a check and the write that rests on it. A model answers
with any set of calls nobody asked for, with a final text, an error, a timeout, or the
cancelled context. The order of calls inside an answer is left open, so `todo` is a set.
Whether a dispatch needs an approval is left open too: the policy, the permission mode and
the grants of the session decide. `ReadOnly` are the calls that change nothing. Only they are
repeated within a dispatch after a timeout or a transient error (`RetryTool`, where it is switched
on), and only they are dispatched together: `BatchStart` executes a whole batch, and the results
are recorded one by one after all have returned. `batch` holds what was executed and is not yet
recorded; at the first blocked or failed result the call returns, and the rest of the batch stays
without a result and is dispatched again after a resume. A turn id is sent once. `owner`, `begun`, `started` and `denied` are ghosts.

## 3. Runs

Sizes are distinct states and the time with two workers.

| Run | Instance | States, time | Shows |
|---|---|---|---|
| `run_tracker` | one step, one node, one retry, two callbacks that fail, one store fault, a crash | 191 k, 3 s | the stored verdict carries every observer call; terminal is final; a failed callback is recorded |
| `run_service` | 2 callers, 1 worker, queue of 1, 2 runs, one of them with a key (`KeyOnce`), 1 read, 1 cancel, 1 stop | 3.1 M, 3 min | a canceled run never runs, the sink hears once and the truth, one verdict, rollback leaves nothing, no stranded job |
| `run_service_restarts` | 1 caller without reads, 2 workers, fair; 1 cancel, 1 fault, 1 refusal, 1 stop | 694 k, 2 min | what is seen of a run follows `RunLedger`; one key, one run across restarts and I/O errors, as long as nobody submits it twice at once; every queued run gets a verdict while the service is up and its writes succeed |
| `event_hub` | 2 publishers with 2 events, 2 subscribers, capacity 1, 1 fault | 368 k, 7 s | streams in order, without repetition, and inside the history |
| `approval` | 2 executions, 3 requests, 2 callers, 3 calls | 232 k, 4 s | waiting nodes can be found, no stale registration, decisions reach their own request |
| `graph_executor` | a fork into a loop with a body and a plain branch, join and failure handler, edges into the body from the loop and from outside; 288 kindings, 4 strategies, all continue_on_error sets | 1.3 M, 50 s | a success has every failure handled or forgiven inside a loop, a reported failure was continued by no edge, selected nodes run and a stall has an edge into a loop or group, joins judge all branches, Run returns |
| `workflow_commit` | two saves and two submissions of one approved edit, one key used twice, failures and crashes anywhere | 599 k, 30 s | receipts that were handed out last, events follow the chain of versions, no confirmed version loses its event, a revoked approval is never applied, the register is implemented |
| `turn_kernel` | 2 calls, 1 iteration, 1 crash; either 2 turns and 2 changing tool calls, or 1 turn with 1 changing and 2 read-only ones (`TwoCases`) | 3.9 M, 4 min | no tool call that may change something is executed twice, none after its denial, a suspended turn can always be decided, one call at a time works on a turn; with retries, and with batches that are blocked, fail or are cancelled half way |
| `step_dispatch` | 2 steps: one host with an agent, 1 retry, 1 repeated request, 1 restart; then 2 local hosts, 3 rounds, the second with the retries -1; a cancel | 1.87 M, 2 min | a reported success was executed on every host, negative retries excepted; a task is executed twice only by two requests in one gap or after a restart; nothing runs that nobody waits for, unless the client gave up |
| `idempotency_race` | 2 callers with one key | violation | two runs for one key |
| `join_before_branch` | a fork with branches of one and two nodes | violation | all_success passes before the longer branch fails |
| `turns_overlap` | as `turn_kernel` | violation | two turns of one session are in the loop at once |

**Why the bounds are enough.** Every interleaving the properties talk about needs at
most two calls about one run and one other run that fills the queue: hence two callers,
two runs and a queue of one place. A stop before, during and after each step of Submit
and of a worker is one stop. A channel of one place is full as soon as one event waits. Three requests let
one decision outlive its own request and meet two others. In the commit store two
saves give a chain of versions, the two submissions of one approval compete for it, one of
them with a key that a save used. Two calls about one turn meet at every step, two turns
displace each other, and an answer with two calls leaves one open while the other waits for
its approval; a crash finds each of these once. A task
whose request is repeated once has two requests that can meet at the agent; a retry gives
the host a second task while the first may still be executed; two local hosts let a step
wait for its slower target. The graph has the smallest
shape with a fork, a join, a handler, a node reached along two paths and a loop whose body is
entered from the loop and from outside. A batch of two is blocked at the first result with one left
over, and a third call, which changes something, can be asked for with them; what batches and
retries add happens within one turn, so `TwoCases` explores them with one turn and two turns without
them, which keeps the run within minutes. Two runs under one key are the subject of
`run_service_restarts` and `idempotency_race`, so `KeyOnce` gives `run_service` one key on one run at
most. No theorem has either bound. Symmetry is
used for callers, workers, publishers, subscribers, waiters and local hosts, never in the run that
checks liveness.

**Deadlock** is not checked where an instance ends because its bounds are used up; the
real system ends when no requests come. `turn_kernel` and `workflow_commit` check it: there
a call can always arrive, so a state without a step would be calls that wait for a lock
nobody gives back.

**Fairness.** `run_service_restarts` assumes weak fairness of each worker: it is a goroutine
that is never blocked by another actor except on the queue, and a workflow returns.
`graph_executor` assumes that the work of a node ends: a validated approval has a timeout
(`workflow/visual/validate.go:116`), a step obeys its timeout and its context. A step
without a timeout on a host that never answers is outside this assumption. Clients and
cancels are not fair.

### Findings

Each is a violation run with the quoted line in `PROJECT.json`.

1. `Submit` looks the key up long before it remembers it; concurrent submits with one
   key create two runs (`run_service.go:152`).
2. A join becomes ready as soon as the edges selected so far are done, so with branches
   of different length it judges only the short one (`graph_executor.go:874`).
3. `RunTurn` looks for a running turn of the session and writes the session only later; two
   messages sent at once both find none and both turns run, against the rule of one regular
   turn per thread.

More behaviours are recorded as hazards, with the reason why no run asserts
the opposite: a `List` that reads the records before the run-state store and writes a run that was
submitted in between back without its idempotency key, so that after a restart the key makes a second
run (`run_service.go:302`), a node inside a loop or a group that is selected from outside, never ready
but always pending, so that a graph which the validation accepts ends with "graph execution stalled"
(`graph_executor.go:872`), a loop whose failure is forgiven for an edge to its own body that nothing
follows (`graph_executor.go:1124`), a refused request whose record gives its key to the refused run after a
restart (`recordRejectedRun`), a publisher that sends on a channel `Unsubscribe` has closed
(`hub.go:34`), a run that a crash leaves reported as running, a second approval that is
accepted and read by nobody, a retried approval that resolves the next loop iteration
(`approval_runtime.go:147`), an agent that executes one task twice because it looks up and
enters in two critical sections (`agent/main.go:264`), a step that is retried while the
agent still executes the attempt that timed out (`executor.go:266`), a step with negative retries,
which is reported as successful although nothing was executed (`executor.go:251`), read-only calls of
a batch that are executed again after a resume (`runtime_kernel.go:3273`), a cleanup node that is skipped when another node of the
wave fails.

## 4. Proofs

All constants are arbitrary within the named assumptions: `TrackerConstants`,
`ServiceConstants`, `HubConstants`, `ApprovalConstants` and `GraphConstants` say that the bounds are
natural numbers, that sets of actors are disjoint, that no key is the mark for "no key" and that
edges connect nodes; `DispatchAssumption` that every
step has a target, retries are integers and the bounds natural numbers; `RequestAssumption`,
`OutcomeAssumption` and `NoneAssumption` that every request has a key and that the marks for
"nothing" are not requests or statuses.

**RunTrackerProofs**: `TypeCorrect`, `VerdictIsWhole`, `TerminalStaysFinal`,
`VersionsOnlyIncrease`. `FinalSnapshotIsWhole` is not inductive: an old clone that carries
a verdict could in principle reach the store. The invariant `IInv` adds where the tracker's
status can be at each point (`StatusAtPc`), that every clone in flight is a past state and
one with a verdict was taken after the last call (`FlightIsPast`), and that versions start
at one (`Versions`). The two action properties follow from it with one lemma on
`UpdateRun` and one on the transition table.
`CallbackErrorsKept` needs a second invariant, `EInv`, about what the others leave out: the
tracker never forgets an error it noted (`ErrorHeld`); as long as no write failed, the stored
status is the one the tracker's place in the code implies (`StoreAtPc`); and after the verdict
a noted error is in the store, or a clone with the error and the verdict is in flight
(`ErrorOnItsWay`).

**RunServiceProofs**: `ServiceTypes`, `CancelWins`, `NoStrandedRun`, `SinkOnce`, `StoresAgree`,
`NoLateStart` and `RollbackClean`, for any clients, workers, keys, runs, queue and stops. Calls
write back copies of a meta that they read long before, so what a store holds can only be
understood from who may still write. `IInv` says that a run is in one hand at a time, that of
the client that submits it, the queue, or one worker (`OneOwner`), and that a run nobody
submitted has no trace (`Fresh`). From the hand follow what the job and the run-state store
say (`JobsTell`, `Stored`) and that a client ends only runs it canceled before their start
(`Cancelers`): this gives `CancelWins` and `NoStrandedRun`. For the verdicts, `Words` says
of every terminal status in a local copy, a list, a record or the sink that it is the stored
verdict, a cancel that won, or the word on a run that will never be stored (`Word`);
`Tellers` that whoever is about to tell the sink holds its mark and that nothing was told.
`Finished` says that after a `run_finish` nobody is left who would publish a `run_start`,
`Undone` that nobody is left who would write a rolled back run. The
proof first shows that every step is of one of the kinds of `Kind` (a run is begun, read, canceled,
readied, withdrawn, sent, undone, taken, decided, settled, ended, passed on, left; or
the service stops or starts), and then that each kind keeps each part.

`SerialKeys` and `OneCaller` are about idempotency keys. With concurrent callers the promise
of a key is broken (finding of `idempotency_race`), so the theorem says exactly what keeps it: `OneAtATime`,
that a Submit with a key begins only while no other client submits, rolls back or closes a run
with that key, that nobody cancels a run while another client is submitting it, and that no Submit with a
key writes its first record while another client's List is between its two reads. None of the three can
be dropped: without the first, two Submits race between look-up and insert; without the
second, TLC finds that a cancel writes back the meta of a run that is being rolled back, so the
look-up finds a run whose record is then deleted, the next start does not
rebuild the key, and a second run is made; without the third, a
`List` writes the run back without its key, and the next start does not know it. Other keys, workers, restarts, Get and every other List are unrestricted. `KInv` holds while no write is lost and no request refused: a client that
submits a key is alone with it (`Alone`), the copy of a meta that it is about to write still is
the meta (`Copied`), a run without a record has left no other trace (`Erased`), no meta of a run with a
key has lost it, and a copy without it belongs to a List that will not find the run (`Carried`), at most one run
with a key is kept and none while one is being made (`OneKept`), the look-up finds the kept run
except when its Submit has yet to remember it or has just forgotten it (`Known`), and whatever Submit
has returned is the kept run (`Returned`). TLC checked `KInv` under `OneAtATime` with two
clients before it was proved. `OneCaller` follows, since one client never overlaps with itself.

`RunsKeepTheLedger` is the refinement: every step of the service is one step of `RunLedger` or
a stutter, so a run is announced before it starts, starts at most once and never after it was
canceled or finished, has one verdict, and is reported once. The events carry
more than `IInv` knows: `LInv` adds that a run which is queued or taken was announced
(`Heralded`) and, like a canceled one, has not started (`Unstarted`), that one in the hands of a
worker after `run_start` has not finished (`InProgress`), which status the store then holds
and that a settled one is what the worker will report (`Progress`), that nothing was published
about a refused request (`Refused`), and that nobody starts a run the sink has heard of
(`ToldOver`). `SubmitPublish`, `StartPublish` and `FinishPublish` are then `Announce`, `Start` and
`Finish`; `Cancel` of a waiting job is `Cancel`, `RollbackDelete` is `Withdraw`, the writes of
the tracker `Create`, `Begin` and `Conclude`, that of a canceled run `Refuse`, the call to the
sink `Tell`, a restart `Interrupt`, and all else, a failed write or a crash included, a
stutter. `NoStartAfterFinish` is a part of the ledger, so no run checks it on its own. TLC checked
`LInv` and the refinement also with two callers and a worker, and two callers and two workers,
before they were proved.

**EventHubProofs**: `HubTypes`, `OrderPerPublisher` and `ShownIsStored`, for any publishers,
subscribers and buffer. A publisher makes all sends of an event before it begins the next, so
the sends it still has to make are of its newest event (`Newest`), and what a client was shown
lies before that event or was sent already (`Behind`); a send can then only add a greater
number. Every event begun was appended or its append failed (`Tried`).

**ApprovalRuntimeProofs**: `ApprovalTypes`, `WaitingFindable`, `NoStaleRegistration`,
`OutcomeAccepted`. The invariant adds that executions hold different requests
(`OwnRequests`), that a request is registered exactly while its execution waits or leaves
(`RegistrationExact`), and that what lies in a channel was accepted for that request
(`BoxWasAccepted`).

**GraphExecutorProofs**: `GraphTypes`, `FailuresHandled` (both directions of `VerdictFitsFailures`) and `SelectedRun` for
every graph, loops and groups included; `FlatGraphs` for graphs whose nodes have no parent, where
every failure is handled by an edge that Run followed and the stall branch is unreachable; and `LayeredJoins` for graphs
in which all paths from the start to a node have one length. `SafeInv` says that selected edges have
finished sources, that nodes of a wave are not done, and that a failed node has a selected edge or an
edge into its own body unless the failure is remembered. Its heart is what `hasContinuation` promises:
an edge that `selectedOutgoing` delivers, or one into the loop itself (`ContinuationSelected`), and that
without its promise nothing is selected (`UncontinuedSelectsNothing`). For joins, `WavesFollow(rank)`
says that wave *r* runs nodes of rank *r*, so nothing is selected into a node that has run.
`join_before_branch` shows that the assumption of `LayeredJoins` cannot be dropped; an edge into a loop's
body (`graph_executor.go:872`, `:1124`), that the one of `FlatGraphs` cannot.

**WorkflowCommitProofs**: `CommitTypes`, `ReceiptsDurable`, `KeysUsedOnce`, `EventsInOrder`,
`NoEventLost`, `RevocationHolds` and `StoreImplementsRegister`, for any requests, keys,
approvals and outcomes. The properties speak of what is on disk; whether the next step keeps
them depends on where the holder of the lock is. `IInv` therefore adds: what an untouched
store looks like (`Beginning`), that at most one record is live and that it is the holder's
once there is a holder working on it (`LiveRecord`, `HolderStage`, `Calls`), that a snapshot
about to become current extends the current one by exactly one receipt (`OwnReceipt`,
`SwitchReady`), that requests of one approval expect one version (`Bases`), that the
holder's copy of the sidecar is the file plus the steps an authority may take
(`CopyFollows`), and that the log ends with the current version or with the one it replaced
(`ChainEnd`). `Moves` lists which actions can change which variable, and a lemma per action
that matters says what it does to the ledger; every part is then kept by one short proof.
In the refinement, `SwitchPointer` is `Commit` or `Settle`, `Confirm` is `Publish` or a
stutter, `SaveSidecar` is `Authorise`, `Draft` is `Draft`, and every other action, recovery,
failure and crash included, is a stutter.

**TurnKernelProofs**: `TurnTypes`, `NeverStartedTwice`, `DenialHolds`, `SuspensionDecidable`
and `OneWorkerPerTurn`, for any turns, calls, tool calls, iterations, answers and crashes,
from `KernelAssumption` (the bounds are natural numbers, the mark for "nothing" is not a
turn, a call or a tool call, the read-only calls are tool calls). What is claimed about executions is
claimed of calls that may change something: a read-only call may be executed several times, by a retry
or by a batch that was blocked half way. No lock covers the session, so the argument is about who may
work on a turn. A turn is let in once; a resume is let in only if
the turn looks resumable and its lock is free (`Locked`); a turn that some call works on
never looks resumable (`BusyTurns`), so no second call gets in (`OneActive`). An executed
call that may change something and has no result then belongs to the one call that executes it, or to a turn that
nobody works on and that cannot be resumed (`Unfinished`): whoever dispatches next finds it
not executed. An approval that is offered, a decision under way and a call about to be
executed are about open calls (`Offered`, `Decided`), and a denied call is in a turn that
has ended (`DeniedClosed`). Because every change of a turn is saved before the call goes on
(`StoredIsCurrent`), a crash changes nothing but who works. Fifty actions would make fifty
cases in every part, so the proof first shows that each step is of one of eleven `Kinds`
(let in, go on, ask, park, start, return, reopen, deny, cancel, or about no turn), and then
that each kind keeps each part. Retries and batches are steps that start no call that may change
something (`StartedKept`).

**StepDispatchProofs**: `DispatchTypes`, `GapOnly`, `NothingUnwatched` and `TrueReports`, for
any hosts, steps, targets, retries (negative ones are the stated exception of `TrueReports`), rounds and
restarts. Each property speaks of what an agent has executed,
and the next step depends on requests that may still be on their way. `IInv` therefore says
that a request not yet sent has no trace (`Unsent`) and one not yet entered was not executed
(`Unexecuted`); that every word of success in an answer or in a table stands for an execution
of that very task (`Backed`), the heart of `TrueReports`; that an agent which has not
restarted knows what it executed (`Known1`), so a handler that found nothing was overtaken
only in the gap between look and entry (`Overtaken`), the heart of `GapOnly`; and that a
request in an agent's hands is awaited or was given up (`InHands`), so what is executed for a
client that still waits is the only execution of its task and the table shows it as
running (`Watched`), the heart of `NothingUnwatched`. A local host executes the task of its
goroutine and nothing else (`LocalWork`). The proof reduces the steps of a goroutine to five
kinds (`Begins`, `Quits`, `Repeats`, `Sends`, `Polls`) and those of the executor to two
(`Still`, `Resets`), and shows part by part that each kind keeps it.

Only model-checked: the liveness properties `QueuedRunsSettle` and `RunReturns`, which need
fairness and are beyond TLAPS. Every other property of a passing run is stated by a theorem.

## 5. What is not modelled

- Contents: workflows, variables, outputs, messages and times, except where a status, an
  order or a choice depends on them.
- Torn files. A store write happens or fails. The commit store writes a temporary file and
  renames it; the record file of the runs is rewritten in place, which the hazard at
  `run_record.go:180` names.
- Edit sessions, previews and candidates, and the delivery of the outbox: `WorkflowCommit`
  ends with the event in the outbox.
- Metrics, logging, authentication, HTTP and the user interface.
- In `GraphExecutor`, what happens inside loop bodies, subflows and the retries of a step: the work of a node.
- In `StepDispatch`, `Submit`, `Get` and `Cancel` of the dispatcher and `/cancel` of the agent,
  which nothing in the repository calls; the waiting token, which the engine never sets; the
  streaming of output.
- In `TurnKernel`: approvals of plans and of evidence, `BeginControlledToolTurn`, input that a
  resume brings along, the hooks after `pre_turn`, the budgets of repairs and compactions,
  failures of the rollout recorder, the context pipeline, the copies that
  `SessionManager.List` hands out, and the JSON store, which may lag behind the memory.
- The rest of the AI server (`internal/`): see the components in `PROJECT.json`.

## 6. Plan

1. The delivery of the outbox on top of `WorkflowCommit`, and the edit sessions before it.
2. `LoopBody`: iterations and continue_on_error inside loops; with `StepDispatch` composed
   with `GraphExecutor` as the work of a node.
3. In `TurnKernel` the plan approvals and the pending evidence; liveness of a turn under a model that answers; then the agent manager
   and the policy decisions.
