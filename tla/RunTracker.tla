------------------------------ MODULE RunTracker ------------------------------
(***************************************************************************)
(* One run of the engine: Engine.ApplyWithRun, the runTracker that records *)
(* what the run does (pkg/runner/engine/run_tracker.go) and the run-state  *)
(* store it persists to (pkg/runner/state).                                *)
(*                                                                         *)
(* Every observer call of the tracker mutates its in-memory RunState under *)
(* the mutex, clones it, RELEASES the mutex and only then calls UpdateRun: *)
(* the clones of concurrent calls reach the store in any order. Callbacks  *)
(* that exhaust their retries record the failure the same way, from        *)
(* goroutines nobody waits for. Only transitionRun updates the store while *)
(* it holds the mutex.                                                     *)
(***************************************************************************)
EXTENDS Naturals, FiniteSets, RunLifecycle

CONSTANTS
  Steps,             \* steps of the workflow; they may run concurrently
  Nodes,             \* graph nodes, recorded without a callback
  NotifyRetry,       \* RunOptions.NotifyRetry
  MaxNotifyErrors,   \* bound: callbacks that exhaust their retries
  MaxFaults          \* bound: store writes that fail with an I/O error

ASSUME TrackerConstants ==
  /\ Steps \cap Nodes = {}
  /\ "notify" \notin Steps \cup Nodes
  /\ NotifyRetry \in Nat
  /\ MaxNotifyErrors \in Nat
  /\ MaxFaults \in Nat

Actors == Steps \cup Nodes

\* The observer calls modelled: StepStart, HostResult and StepFinish of a step,
\* GraphNodeStart and GraphNodeFinish of a node.
CallsOfStep == 3
CallsOfNode == 2

VARIABLES
  pc,         \* where ApplyWithRun is, or what became of its process
  run,        \* runTracker.run; after a crash, what the lost process knew
  stored,     \* the RunState the store holds; status "none" when it holds none
  flight,     \* clones handed to UpdateRun calls that have not run yet
  callbacks,  \* callbacks[k]: notifyAsync goroutines on attempt k
  notifyErrs, \* callbacks that have given up
  faults      \* store writes that have failed

vars == <<pc, run, stored, flight, callbacks, notifyErrs, faults>>

RunState == [status : RunStatus \cup {"none"}, version : Nat,
             calls : [Actors -> 0..3], notifyErr : BOOLEAN]

TypeOK ==
  /\ pc \in {"new", "created", "executing", "returned", "crashed", "reconciled"}
  /\ run \in RunState
  /\ stored \in RunState
  /\ flight \subseteq [owner : Actors \cup {"notify"}, clone : RunState]
  /\ callbacks \in [0..NotifyRetry -> Nat]
  /\ notifyErrs \in 0..MaxNotifyErrors
  /\ faults \in 0..MaxFaults

Snap(status, version, calls, notifyErr) ==
  [status |-> status, version |-> version, calls |-> calls, notifyErr |-> notifyErr]

NewRunState(status, version) == Snap(status, version, [a \in Actors |-> 0], FALSE)

\* newRunTracker.
Init ==
  /\ pc = "new"
  /\ run = NewRunState("queued", 1)
  /\ stored = NewRunState("none", 0)
  /\ flight = {}
  /\ callbacks = [k \in 0..NotifyRetry |-> 0]
  /\ notifyErrs = 0
  /\ faults = 0

-------------------------------------------------------------------------------
(* The store.                                                              *)

\* Mutant: CreateRun that neither defaults nor validates the status.
CreateRunBlank(clone) ==
  /\ stored.status = "none"
  /\ stored' = [clone EXCEPT !.status = ""]

\* CreateRun succeeds.
CreateRun(clone) ==
  /\ stored.status = "none"
  /\ stored' = clone

\* The version UpdateRun stores: never one the store has already passed.
NextVersion(clone) ==
  IF clone.version <= stored.version THEN stored.version + 1 ELSE clone.version

\* Mutant: UpdateRun without the transition check.
UpdateRunUnchecked(clone) ==
  stored' = Snap(clone.status, NextVersion(clone), clone.calls, clone.notifyErr)

\* UpdateRun: refused unless the run exists and the transition is allowed; a
\* version that is not newer is replaced by the next one, and the clone then
\* overwrites whatever is stored.
UpdateRun(clone) ==
  stored' = IF ValidateRunTransition(stored.status, clone.status)
            THEN Snap(clone.status, NextVersion(clone), clone.calls, clone.notifyErr)
            ELSE stored

\* A store write fails and leaves the file as it was.
StoreFault ==
  /\ faults < MaxFaults
  /\ faults' = faults + 1
  /\ UNCHANGED stored

-------------------------------------------------------------------------------
(* Engine.ApplyWithRun.                                                    *)

\* notifyAsync starts a goroutine.
Notify == callbacks' = [callbacks EXCEPT ![0] = @ + 1]

\* runTracker.Start up to CreateRun; an error ends the run at once.
Start ==
  /\ pc = "new"
  /\ \/ CreateRun(run) /\ pc' = "created" /\ UNCHANGED faults
     \/ StoreFault /\ pc' = "returned"
  /\ UNCHANGED <<run, flight, callbacks, notifyErrs>>

\* transitionRun: the in-memory status moves first, then UpdateRun, both under
\* the mutex; a failed write leaves the memory ahead of the store.
TransitionRun(status, next) ==
  LET clone == Snap(status, run.version + 1, run.calls, run.notifyErr) IN
  /\ ValidateRunTransition(run.status, status)
  /\ run' = clone
  /\ \/ UpdateRun(clone) /\ Notify /\ pc' = next /\ UNCHANGED faults
     \/ StoreFault /\ pc' = "returned" /\ UNCHANGED callbacks
  /\ UNCHANGED <<flight, notifyErrs>>

\* The rest of runTracker.Start.
StartRunning == pc = "created" /\ TransitionRun("running", "executing")

\* The executor returns once every observer call it made has returned;
\* runTracker.Finish then settles the run: success without an error, canceled
\* when the context is done, failed otherwise.
Finish ==
  /\ pc = "executing"
  /\ \A f \in flight : f.owner = "notify"
  /\ \E status \in {"success", "failed", "canceled"} : TransitionRun(status, "returned")

-------------------------------------------------------------------------------
(* The observer calls.                                                     *)

\* Mutant: an executor that returns without waiting for its host goroutines.
RecordLate(a) ==
  LET clone == Snap(run.status, run.version + 1,
                    [run.calls EXCEPT ![a] = @ + 1], run.notifyErr) IN
  /\ pc \in {"executing", "returned"}
  /\ \A f \in flight : f.owner # a
  /\ run' = clone
  /\ flight' = flight \cup {[owner |-> a, clone |-> clone]}
  /\ UNCHANGED <<pc, stored, callbacks, notifyErrs, faults>>

\* An observer call up to the unlock: it is recorded in memory and cloned. The
\* actor's previous call has returned.
Record(a) ==
  LET clone == Snap(run.status, run.version + 1,
                    [run.calls EXCEPT ![a] = @ + 1], run.notifyErr) IN
  /\ pc = "executing"
  /\ \A f \in flight : f.owner # a
  /\ run' = clone
  /\ flight' = flight \cup {[owner |-> a, clone |-> clone]}
  /\ UNCHANGED <<pc, stored, callbacks, notifyErrs, faults>>

\* StepStart, HostResult or StepFinish.
ObserveStep(s) == run.calls[s] < CallsOfStep /\ Record(s)

\* GraphNodeStart or GraphNodeFinish; the approval, iteration and edge calls
\* have the same shape.
ObserveNode(n) == run.calls[n] < CallsOfNode /\ Record(n)

\* The rest of the call: UpdateRun without the mutex, whose error is only
\* logged, and the callback of a step's calls.
Persist(f) ==
  /\ pc \in {"executing", "returned"}
  /\ flight' = flight \ {f}
  /\ \/ UpdateRun(f.clone) /\ UNCHANGED faults
     \/ StoreFault
  /\ IF f.owner \in Steps THEN Notify ELSE UNCHANGED callbacks
  /\ UNCHANGED <<pc, run, notifyErrs>>

-------------------------------------------------------------------------------
(* The callback goroutines.                                                *)

CallbackDelivered(k) ==
  /\ pc \in {"executing", "returned"}
  /\ callbacks[k] > 0
  /\ callbacks' = [callbacks EXCEPT ![k] = @ - 1]
  /\ UNCHANGED <<pc, run, stored, flight, notifyErrs, faults>>

CallbackRetried(k) ==
  /\ pc \in {"executing", "returned"}
  /\ k < NotifyRetry
  /\ callbacks[k] > 0
  /\ callbacks' = [callbacks EXCEPT ![k] = @ - 1, ![k + 1] = @ + 1]
  /\ UNCHANGED <<pc, run, stored, flight, notifyErrs, faults>>

\* Mutant: the error is set on the clone and not on the tracker's own run.
RecordNotifyErrorOnClone ==
  LET next == Snap(run.status, run.version + 1, run.calls, run.notifyErr) IN
  /\ pc \in {"executing", "returned"}
  /\ notifyErrs < MaxNotifyErrors
  /\ callbacks[NotifyRetry] > 0
  /\ callbacks' = [callbacks EXCEPT ![NotifyRetry] = @ - 1]
  /\ notifyErrs' = notifyErrs + 1
  /\ run' = next
  /\ flight' = flight \cup {[owner |-> "notify", clone |-> [next EXCEPT !.notifyErr = TRUE]]}
  /\ UNCHANGED <<pc, stored, faults>>

\* recordNotifyError up to the unlock, after the last attempt.
RecordNotifyError ==
  LET clone == Snap(run.status, run.version + 1, run.calls, TRUE) IN
  /\ pc \in {"executing", "returned"}
  /\ notifyErrs < MaxNotifyErrors
  /\ callbacks[NotifyRetry] > 0
  /\ callbacks' = [callbacks EXCEPT ![NotifyRetry] = @ - 1]
  /\ notifyErrs' = notifyErrs + 1
  /\ run' = clone
  /\ flight' = flight \cup {[owner |-> "notify", clone |-> clone]}
  /\ UNCHANGED <<pc, stored, faults>>

-------------------------------------------------------------------------------
(* The process.                                                            *)

\* The process dies: calls and goroutines are gone, the store remains.
Crash ==
  /\ pc \notin {"crashed", "reconciled"}
  /\ pc' = "crashed"
  /\ flight' = {}
  /\ callbacks' = [k \in 0..NotifyRetry |-> 0]
  /\ UNCHANGED <<run, stored, notifyErrs, faults>>

\* The next process calls MarkInterruptedRunning before anything else.
MarkInterruptedRunning ==
  /\ pc = "crashed"
  /\ pc' = "reconciled"
  /\ stored' = IF stored.status = "running"
               THEN Snap("interrupted", stored.version + 1, stored.calls, stored.notifyErr)
               ELSE stored
  /\ UNCHANGED <<run, flight, callbacks, notifyErrs, faults>>

Next ==
  \/ Start \/ StartRunning \/ Finish
  \/ \E s \in Steps : ObserveStep(s)
  \/ \E n \in Nodes : ObserveNode(n)
  \/ \E f \in flight : Persist(f)
  \/ \E k \in 0..NotifyRetry : CallbackDelivered(k) \/ CallbackRetried(k)
  \/ RecordNotifyError
  \/ Crash \/ MarkInterruptedRunning

Spec == Init /\ [][Next]_vars

-------------------------------------------------------------------------------
(* Properties.                                                             *)

\* What the executor's outcome can make of a run.
Verdict == {"success", "failed", "canceled"}

\* A verdict in the store is final: whatever clones arrive late, from steps or
\* from callbacks, and across a crash, the stored status of a finished run
\* never changes (ValidateRunTransition as UpdateRun uses it).
TerminalIsFinal ==
  [][IsTerminalRunStatus(stored.status) => stored'.status = stored.status]_vars

\* Readers that compare versions never see the store go back: every write that
\* changes the stored run raises its version, late clones included.
VersionsIncrease ==
  [][stored' # stored => stored'.version > stored.version]_vars

\* Although clones are written in any order while the run executes, the verdict
\* carries every step and node call the run made, and it is the verdict the
\* tracker reports to its caller: no late clone survives it.
FinalSnapshotIsWhole ==
  stored.status \in Verdict =>
     /\ stored.calls = run.calls
     /\ stored.status = run.status

\* README 14.2: a failed callback is recorded in last_notify_error. A stale
\* clone may erase it for a while; once the run has returned and the calls in
\* flight are done it is there.
CallbackErrorRecorded ==
  (pc = "returned" /\ flight = {} /\ notifyErrs > 0 /\ faults = 0) => stored.notifyErr
===============================================================================
