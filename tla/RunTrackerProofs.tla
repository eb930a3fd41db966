--------------------------- MODULE RunTrackerProofs ---------------------------
(***************************************************************************)
(* The safety properties of RunTracker, for any steps, nodes, retries,     *)
(* callback failures and store faults.                                     *)
(***************************************************************************)
EXTENDS RunTracker, TLAPS

\* Where the tracker's own status can be at each point of ApplyWithRun.
StatusAtPc ==
  /\ pc \in {"new", "created"} => run.status = "queued"
  /\ pc = "executing" => run.status = "running"
  /\ run.status \in {"queued", "running"} \cup Verdict

\* A clone in flight is a past state of the run: one that already carries a
\* verdict was taken after the last observer call.
FlightIsPast ==
  \A f \in flight :
     /\ f.clone.status \in {"queued", "running"} \cup Verdict
     /\ f.clone.status \in Verdict => /\ f.clone.status = run.status
                                      /\ f.clone.calls = run.calls

\* The store starts below every version the tracker hands out.
Versions ==
  /\ run.version >= 1
  /\ stored.status = "none" => stored.version = 0

\* The inductive invariant.
IInv == TypeOK /\ StatusAtPc /\ FlightIsPast /\ Versions /\ FinalSnapshotIsWhole

-------------------------------------------------------------------------------
(* Facts about the life cycle and the store.                               *)

\* allowedRunTransitions never leads out of a terminal status.
LEMMA TerminalTransition ==
  ASSUME NEW from, NEW to, IsTerminalRunStatus(from), ValidateRunTransition(from, to)
  PROVE  to = from
BY DEF IsTerminalRunStatus, ValidateRunTransition

\* A run the store does not hold cannot be updated.
LEMMA NoneTransition ==
  ASSUME NEW to PROVE ~ValidateRunTransition("none", to)
BY DEF IsTerminalRunStatus, ValidateRunTransition

\* What UpdateRun leaves in the store: the old run, or the clone with a version
\* above the old one.
LEMMA UpdateRunEffect ==
  ASSUME TypeOK, NEW clone \in RunState, UpdateRun(clone)
  PROVE  /\ stored' \in RunState
         /\ \/ stored' = stored
            \/ /\ ValidateRunTransition(stored.status, clone.status)
               /\ stored'.status = clone.status
               /\ stored'.calls = clone.calls
               /\ stored'.version > stored.version
BY DEF UpdateRun, NextVersion, Snap, TypeOK, RunState

-------------------------------------------------------------------------------
(* The inductive invariant.                                                *)

LEMMA InitIInv == Init => IInv
<1> SUFFICES ASSUME Init PROVE IInv
  OBVIOUS
<1> USE TrackerConstants
<1>1. NewRunState("queued", 1) \in RunState /\ NewRunState("none", 0) \in RunState
  BY DEF NewRunState, Snap, RunState, RunStatus
<1>2. TypeOK
  BY <1>1 DEF Init, TypeOK
<1>3. StatusAtPc /\ FlightIsPast /\ Versions /\ FinalSnapshotIsWhole
  BY DEF Init, NewRunState, Snap, StatusAtPc, FlightIsPast, Versions, FinalSnapshotIsWhole, Verdict
<1> QED BY <1>2, <1>3 DEF IInv

\* transitionRun, from the queued run and from the running one.
LEMMA TransitionIInv ==
  ASSUME IInv, NEW status \in {"running"} \cup Verdict, NEW next \in {"executing", "returned"},
         pc \in {"created", "executing"}, next = "executing" <=> status = "running",
         TransitionRun(status, next)
  PROVE  IInv'
<1> DEFINE clone == Snap(status, run.version + 1, run.calls, run.notifyErr)
<1> USE TrackerConstants
<1>1. /\ clone \in RunState
      /\ clone.status = status /\ clone.calls = run.calls /\ clone.version = run.version + 1
  BY DEF IInv, TypeOK, Snap, RunState, RunStatus, Verdict
<1>2. /\ run' = clone /\ flight' = flight /\ notifyErrs' = notifyErrs
      /\ pc' \in {"executing", "returned"}
      /\ pc' = "executing" => status = "running"
  BY DEF TransitionRun
<1>3. run.status \notin Verdict
  BY DEF IInv, StatusAtPc, Verdict
<1>4. stored.status \notin Verdict /\ \A f \in flight : f.clone.status \notin Verdict
  BY <1>3 DEF IInv, FinalSnapshotIsWhole, FlightIsPast
<1>5. /\ stored' \in RunState
      /\ \/ stored' = stored
         \/ /\ stored.status # "none"
            /\ stored'.status = status /\ stored'.calls = run.calls
  <2>1. CASE UpdateRun(clone)
    BY <2>1, <1>1, UpdateRunEffect, NoneTransition DEF IInv
  <2>2. CASE StoreFault
    BY <2>2 DEF StoreFault, IInv, TypeOK
  <2> QED BY <2>1, <2>2 DEF TransitionRun
<1>6. callbacks' \in [0..NotifyRetry -> Nat] /\ faults' \in 0..MaxFaults
  BY DEF TransitionRun, Notify, StoreFault, IInv, TypeOK
<1>7. TypeOK'
  BY <1>1, <1>2, <1>5, <1>6 DEF IInv, TypeOK
<1>8. StatusAtPc'
  BY <1>1, <1>2 DEF StatusAtPc, Verdict
<1>9. FlightIsPast'
  BY <1>2, <1>4 DEF IInv, FlightIsPast
<1>10. Versions'
  BY <1>1, <1>2, <1>5 DEF IInv, Versions, TypeOK, RunState, Verdict
<1>11. FinalSnapshotIsWhole'
  BY <1>1, <1>2, <1>4, <1>5 DEF FinalSnapshotIsWhole
<1> QED BY <1>7, <1>8, <1>9, <1>10, <1>11 DEF IInv

\* One step of ApplyWithRun, of an observer call, of a callback or of the
\* process preserves the invariant.
LEMMA NextIInv == IInv /\ [Next]_vars => IInv'
<1> SUFFICES ASSUME IInv, [Next]_vars PROVE IInv'
  OBVIOUS
<1> USE TrackerConstants
<1> USE DEF IInv
<1>1. CASE Start
  <2>1. run' = run /\ flight' = flight /\ callbacks' = callbacks /\ notifyErrs' = notifyErrs
    BY <1>1 DEF Start
  <2>2. \/ stored.status = "none" /\ stored' = run /\ pc' = "created" /\ faults' = faults
        \/ stored' = stored /\ pc' = "returned" /\ faults' \in 0..MaxFaults
    BY <1>1 DEF Start, CreateRun, StoreFault, TypeOK
  <2>3. run.status = "queued"
    BY <1>1 DEF Start, StatusAtPc
  <2>4. TypeOK'
    BY <2>1, <2>2 DEF TypeOK
  <2>5. StatusAtPc' /\ FlightIsPast'
    BY <2>1, <2>2, <2>3 DEF StatusAtPc, FlightIsPast
  <2>6. Versions' /\ FinalSnapshotIsWhole'
    BY <2>1, <2>2, <2>3 DEF Versions, FinalSnapshotIsWhole, Verdict
  <2> QED BY <2>4, <2>5, <2>6
<1>2. CASE StartRunning
  BY <1>2, TransitionIInv DEF StartRunning
<1>3. CASE Finish
  <2>1. PICK status \in {"success", "failed", "canceled"} : TransitionRun(status, "returned")
    BY <1>3 DEF Finish
  <2> QED BY <1>3, <2>1, TransitionIInv DEF Finish, Verdict
<1>4. ASSUME NEW a \in Actors, run.calls[a] < 3, Record(a) PROVE IInv'
  <2> DEFINE clone == Snap(run.status, run.version + 1,
                           [run.calls EXCEPT ![a] = @ + 1], run.notifyErr)
  <2>1. /\ run' = clone /\ pc' = pc /\ stored' = stored
        /\ flight' = flight \cup {[owner |-> a, clone |-> clone]}
        /\ callbacks' = callbacks /\ notifyErrs' = notifyErrs /\ faults' = faults
    BY <1>4 DEF Record
  <2>2. run.status = "running"
    BY <1>4 DEF Record, StatusAtPc
  <2>3. /\ clone \in RunState /\ clone.status = "running"
        /\ clone.version = run.version + 1
    <3>1. run.calls[a] + 1 \in 0..3
      BY <1>4 DEF TypeOK, RunState
    <3>2. [run.calls EXCEPT ![a] = @ + 1] \in [Actors -> 0..3]
      BY <3>1 DEF TypeOK, RunState
    <3> QED BY <2>2, <3>2 DEF Snap, TypeOK, RunState
  <2> HIDE DEF clone
  <2>4. stored.status \notin Verdict /\ \A f \in flight : f.clone.status \notin Verdict
    BY <2>2 DEF FinalSnapshotIsWhole, FlightIsPast, Verdict
  <2>5. TypeOK'
    BY <2>1, <2>3 DEF TypeOK
  <2>6. StatusAtPc'
    BY <2>1, <2>2, <2>3 DEF StatusAtPc
  <2>7. FlightIsPast'
    BY <2>1, <2>3, <2>4 DEF FlightIsPast, Verdict
  <2>8. Versions' /\ FinalSnapshotIsWhole'
    BY <2>1, <2>3, <2>4 DEF Versions, FinalSnapshotIsWhole, TypeOK, RunState
  <2> QED BY <2>5, <2>6, <2>7, <2>8
<1>5. ASSUME NEW f \in flight, Persist(f) PROVE IInv'
  <2>1. /\ run' = run /\ pc' = pc /\ flight' = flight \ {f} /\ notifyErrs' = notifyErrs
        /\ faults' \in 0..MaxFaults /\ callbacks' \in [0..NotifyRetry -> Nat]
    BY <1>5 DEF Persist, StoreFault, Notify, TypeOK
  <2>2. f.clone \in RunState
    BY DEF TypeOK
  <2>3. /\ stored' \in RunState
        /\ \/ stored' = stored
           \/ /\ stored.status # "none"
              /\ stored'.status = f.clone.status /\ stored'.calls = f.clone.calls
    <3>1. CASE UpdateRun(f.clone)
      BY <3>1, <2>2, UpdateRunEffect, NoneTransition
    <3>2. CASE StoreFault
      BY <3>2 DEF StoreFault, TypeOK
    <3> QED BY <1>5, <3>1, <3>2 DEF Persist
  <2>4. TypeOK'
    BY <2>1, <2>3 DEF TypeOK
  <2>5. StatusAtPc' /\ FlightIsPast'
    BY <2>1 DEF StatusAtPc, FlightIsPast
  <2>6. Versions' /\ FinalSnapshotIsWhole'
    BY <2>1, <2>3 DEF Versions, FinalSnapshotIsWhole, FlightIsPast, Verdict
  <2> QED BY <2>4, <2>5, <2>6
<1>6. ASSUME NEW k \in 0..NotifyRetry, CallbackDelivered(k) \/ CallbackRetried(k) PROVE IInv'
  <2>1. UNCHANGED <<pc, run, stored, flight, notifyErrs, faults>>
    BY <1>6 DEF CallbackDelivered, CallbackRetried
  <2>2. callbacks' \in [0..NotifyRetry -> Nat]
    BY <1>6 DEF CallbackDelivered, CallbackRetried, TypeOK
  <2> QED BY <2>1, <2>2 DEF TypeOK, StatusAtPc, FlightIsPast, Versions, FinalSnapshotIsWhole
<1>7. CASE RecordNotifyError
  <2> DEFINE clone == Snap(run.status, run.version + 1, run.calls, TRUE)
  <2>1. /\ run' = clone /\ pc' = pc /\ stored' = stored /\ faults' = faults
        /\ flight' = flight \cup {[owner |-> "notify", clone |-> clone]}
        /\ notifyErrs' \in 0..MaxNotifyErrors /\ callbacks' \in [0..NotifyRetry -> Nat]
    BY <1>7 DEF RecordNotifyError, TypeOK
  <2>2. /\ clone \in RunState /\ clone.status = run.status /\ clone.calls = run.calls
        /\ clone.version = run.version + 1
    BY DEF Snap, TypeOK, RunState
  <2> HIDE DEF clone
  <2>3. TypeOK'
    BY <2>1, <2>2 DEF TypeOK
  <2>4. StatusAtPc'
    BY <2>1, <2>2 DEF StatusAtPc
  <2>5. FlightIsPast'
    BY <2>1, <2>2 DEF FlightIsPast, StatusAtPc
  <2>6. Versions' /\ FinalSnapshotIsWhole'
    BY <2>1, <2>2 DEF Versions, FinalSnapshotIsWhole, TypeOK, RunState
  <2> QED BY <2>3, <2>4, <2>5, <2>6
<1>8. CASE Crash
  BY <1>8 DEF Crash, TypeOK, StatusAtPc, FlightIsPast, Versions, FinalSnapshotIsWhole
<1>9. CASE MarkInterruptedRunning
  <2>1. UNCHANGED <<run, flight, callbacks, notifyErrs, faults>> /\ pc' = "reconciled"
    BY <1>9 DEF MarkInterruptedRunning
  <2>2. \/ stored' = stored
        \/ stored' \in RunState /\ stored'.status = "interrupted"
    BY <1>9 DEF MarkInterruptedRunning, Snap, TypeOK, RunState, RunStatus
  <2> QED BY <2>1, <2>2
          DEF TypeOK, StatusAtPc, FlightIsPast, Versions, FinalSnapshotIsWhole, Verdict
<1>10. CASE UNCHANGED vars
  BY <1>10 DEF vars, TypeOK, StatusAtPc, FlightIsPast, Versions, FinalSnapshotIsWhole
<1>11. ASSUME NEW s \in Steps, ObserveStep(s) PROVE IInv'
  BY <1>4, <1>11 DEF ObserveStep, CallsOfStep, Actors
<1>12. ASSUME NEW n \in Nodes, ObserveNode(n) PROVE IInv'
  <2>1. run.calls[n] < 3
    BY <1>12 DEF ObserveNode, CallsOfNode, TypeOK, RunState, Actors
  <2> QED BY <1>4, <1>12, <2>1 DEF ObserveNode, Actors
<1> QED BY <1>1, <1>2, <1>3, <1>5, <1>6, <1>7, <1>8, <1>9, <1>10, <1>11, <1>12 DEF Next

LEMMA Invariance == Spec => []IInv
BY InitIInv, NextIInv, PTL DEF Spec

-------------------------------------------------------------------------------
(* The theorems.                                                           *)

\* The tracker, the store and the calls in flight keep their types: in
\* particular the store only ever holds a status of the life cycle.
THEOREM TypeCorrect == Spec => []TypeOK
BY Invariance, PTL DEF IInv

\* The verdict in the store carries every observer call of the run and is the
\* verdict the tracker reports, in whatever order the clones were written.
THEOREM VerdictIsWhole == Spec => []FinalSnapshotIsWhole
BY Invariance, PTL DEF IInv

\* What a step can do to the stored run.
LEMMA StoreStep ==
  ASSUME IInv, [Next]_vars
  PROVE  \/ stored' = stored
         \/ stored.status = "none" /\ stored'.version > stored.version
         \/ /\ ValidateRunTransition(stored.status, stored'.status)
            /\ stored'.version > stored.version
<1> USE TrackerConstants
<1>1. CASE Start
  BY <1>1 DEF Start, CreateRun, StoreFault, IInv, Versions, TypeOK, RunState
<1>2. ASSUME NEW status \in RunStatus, NEW next, TransitionRun(status, next)
      PROVE  \/ stored' = stored
             \/ /\ ValidateRunTransition(stored.status, stored'.status)
                /\ stored'.version > stored.version
  <2>1. Snap(status, run.version + 1, run.calls, run.notifyErr) \in RunState
    BY DEF IInv, TypeOK, Snap, RunState
  <2>2. Snap(status, run.version + 1, run.calls, run.notifyErr).status = status
    BY DEF Snap
  <2> QED BY <1>2, <2>1, <2>2, UpdateRunEffect DEF TransitionRun, StoreFault, IInv
<1>3. CASE StartRunning
  BY <1>2, <1>3 DEF StartRunning, RunStatus
<1>4. CASE Finish
  BY <1>2, <1>4 DEF Finish, RunStatus
<1>5. ASSUME NEW f \in flight, Persist(f)
      PROVE  \/ stored' = stored
             \/ /\ ValidateRunTransition(stored.status, stored'.status)
                /\ stored'.version > stored.version
  <2>1. f.clone \in RunState
    BY DEF IInv, TypeOK
  <2> QED BY <1>5, <2>1, UpdateRunEffect DEF Persist, StoreFault, IInv
<1>6. CASE MarkInterruptedRunning
  <2>1. CASE stored.status = "running"
    <3>1. stored' = Snap("interrupted", stored.version + 1, stored.calls, stored.notifyErr)
      BY <1>6, <2>1 DEF MarkInterruptedRunning
    <3>2. stored'.status = "interrupted" /\ stored'.version = stored.version + 1
      BY <3>1 DEF Snap
    <3>3. stored.version \in Nat
      BY DEF IInv, TypeOK, RunState
    <3> QED BY <2>1, <3>2, <3>3 DEF ValidateRunTransition
  <2> QED BY <1>6, <2>1 DEF MarkInterruptedRunning
<1>7. CASE \/ \E s \in Steps : ObserveStep(s)
           \/ \E n \in Nodes : ObserveNode(n)
           \/ \E k \in 0..NotifyRetry : CallbackDelivered(k) \/ CallbackRetried(k)
           \/ RecordNotifyError \/ Crash \/ UNCHANGED vars
  BY <1>7 DEF ObserveStep, ObserveNode, Record, CallbackDelivered, CallbackRetried, RecordNotifyError, Crash, vars
<1> QED BY <1>1, <1>3, <1>4, <1>5, <1>6, <1>7 DEF Next

\* No write, however late, and no restart changes a verdict the store holds.
THEOREM TerminalStaysFinal == Spec => TerminalIsFinal
<1>1. ASSUME IInv, [Next]_vars
      PROVE  [IsTerminalRunStatus(stored.status) => stored'.status = stored.status]_vars
  BY <1>1, StoreStep, TerminalTransition DEF IsTerminalRunStatus
<1> QED BY <1>1, Invariance, PTL DEF Spec, TerminalIsFinal

\* Every write raises the version of the stored run.
THEOREM VersionsOnlyIncrease == Spec => VersionsIncrease
<1>1. ASSUME IInv, [Next]_vars
      PROVE  [stored' # stored => stored'.version > stored.version]_vars
  BY <1>1, StoreStep
<1> QED BY <1>1, Invariance, PTL DEF Spec, VersionsIncrease

-------------------------------------------------------------------------------
(* A callback that failed is not forgotten.                                *)

\* The tracker remembers a failed callback for good, and so do the clones its
\* recording made.
ErrorHeld ==
  /\ notifyErrs > 0 => run.notifyErr
  /\ \A f \in flight : f.owner = "notify" => f.clone.notifyErr

\* Where the store is as long as no write failed.
StoreAtPc ==
  faults = 0 =>
    /\ pc = "created" => stored.status = "queued"
    /\ pc = "executing" => stored.status = "running"
    /\ pc = "returned" => stored.status \in Verdict /\ stored.status = run.status

\* After the verdict a recorded error is stored, or a clone that carries it and
\* the verdict is on its way.
ErrorOnItsWay ==
  faults = 0 /\ pc = "returned" =>
    /\ \A f \in flight : f.owner = "notify"
    /\ run.notifyErr => \/ stored.notifyErr
                        \/ \E f \in flight : f.clone.notifyErr /\ f.clone.status = run.status

EInv == ErrorHeld /\ StoreAtPc /\ ErrorOnItsWay

\* What UpdateRun does to the error and to the status.
LEMMA UpdateRunError ==
  ASSUME NEW clone, UpdateRun(clone)
  PROVE  \/ /\ ValidateRunTransition(stored.status, clone.status)
            /\ stored'.status = clone.status /\ stored'.notifyErr = clone.notifyErr
         \/ /\ ~ValidateRunTransition(stored.status, clone.status)
            /\ stored' = stored
BY DEF UpdateRun, Snap

LEMMA TransitionEInv ==
  ASSUME IInv, EInv, NEW status \in {"running"} \cup Verdict, NEW next \in {"executing", "returned"},
         pc = IF status = "running" THEN "created" ELSE "executing",
         next = IF status = "running" THEN "executing" ELSE "returned",
         next = "returned" => \A f \in flight : f.owner = "notify",
         TransitionRun(status, next)
  PROVE  EInv'
<1> DEFINE clone == Snap(status, run.version + 1, run.calls, run.notifyErr)
<1>0. faults \in Nat
  BY TrackerConstants DEF IInv, TypeOK
<1>1. clone.status = status /\ clone.notifyErr = run.notifyErr
  BY DEF Snap
<1>2. run' = clone /\ flight' = flight /\ notifyErrs' = notifyErrs
  BY DEF TransitionRun
<1>3. ErrorHeld'
  BY <1>1, <1>2 DEF EInv, ErrorHeld
<1>4. CASE UpdateRun(clone) /\ pc' = next /\ faults' = faults
  <2>1. faults = 0 => ValidateRunTransition(stored.status, status)
    BY DEF EInv, StoreAtPc, ValidateRunTransition, Verdict
  <2>2. faults = 0 => stored'.status = status /\ stored'.notifyErr = run.notifyErr
    BY <1>1, <1>4, <2>1, UpdateRunError
  <2>3. StoreAtPc'
    BY <1>1, <1>2, <1>4, <2>2 DEF StoreAtPc, Verdict
  <2>4. ErrorOnItsWay'
    BY <1>1, <1>2, <1>4, <2>2 DEF ErrorOnItsWay
  <2> QED BY <1>3, <2>3, <2>4 DEF EInv
<1>5. CASE StoreFault /\ pc' = "returned"
  <2>1. faults' # 0
    BY <1>0, <1>5 DEF StoreFault
  <2> QED BY <1>3, <2>1 DEF EInv, StoreAtPc, ErrorOnItsWay
<1> QED BY <1>4, <1>5 DEF TransitionRun

LEMMA InitEInv == Init => EInv
BY TrackerConstants DEF Init, EInv, ErrorHeld, StoreAtPc, ErrorOnItsWay

LEMMA NextEInv == IInv /\ EInv /\ [Next]_vars => EInv'
<1> SUFFICES ASSUME IInv, EInv, [Next]_vars PROVE EInv'
  OBVIOUS
<1>0. faults \in Nat /\ notifyErrs \in Nat
  BY TrackerConstants DEF IInv, TypeOK
<1>1. CASE Start
  <2>1. run' = run /\ flight' = flight /\ notifyErrs' = notifyErrs
    BY <1>1 DEF Start
  <2>2. CASE CreateRun(run) /\ pc' = "created"
    <3>1. stored'.status = "queued"
      BY <1>1, <2>2 DEF Start, CreateRun, IInv, StatusAtPc
    <3> QED BY <2>1, <2>2, <3>1 DEF EInv, ErrorHeld, StoreAtPc, ErrorOnItsWay
  <2>3. CASE StoreFault /\ pc' = "returned"
    <3>1. faults' # 0
      BY <1>0, <2>3 DEF StoreFault
    <3> QED BY <2>1, <3>1 DEF EInv, ErrorHeld, StoreAtPc, ErrorOnItsWay
  <2> QED BY <1>1, <2>2, <2>3 DEF Start
<1>2. CASE StartRunning
  BY <1>2, TransitionEInv DEF StartRunning
<1>3. CASE Finish
  <2>1. PICK status \in {"success", "failed", "canceled"} : TransitionRun(status, "returned")
    BY <1>3 DEF Finish
  <2> QED BY <1>3, <2>1, TransitionEInv DEF Finish, Verdict
<1>4. ASSUME NEW a \in Actors, Record(a) PROVE EInv'
  <2> DEFINE clone == Snap(run.status, run.version + 1, [run.calls EXCEPT ![a] = @ + 1], run.notifyErr)
  <2>1. /\ run' = clone /\ pc = "executing" /\ pc' = pc /\ stored' = stored
        /\ flight' = flight \cup {[owner |-> a, clone |-> clone]}
        /\ notifyErrs' = notifyErrs /\ faults' = faults
    BY <1>4 DEF Record
  <2>2. clone.notifyErr = run.notifyErr /\ clone.status = run.status /\ a # "notify"
    BY TrackerConstants DEF Snap, Actors
  <2> HIDE DEF clone
  <2> QED BY <2>1, <2>2 DEF EInv, ErrorHeld, StoreAtPc, ErrorOnItsWay
<1>5. ASSUME NEW f \in flight, Persist(f) PROVE EInv'
  <2>1. run' = run /\ pc' = pc /\ flight' = flight \ {f} /\ notifyErrs' = notifyErrs
    BY <1>5 DEF Persist
  <2>2. ErrorHeld'
    BY <2>1 DEF EInv, ErrorHeld
  <2>3. pc \in {"executing", "returned"}
    BY <1>5 DEF Persist
  <2>4. CASE StoreFault
    <3>1. faults' # 0
      BY <1>0, <2>4 DEF StoreFault
    <3> QED BY <2>2, <3>1 DEF EInv, StoreAtPc, ErrorOnItsWay
  <2>5. CASE UpdateRun(f.clone) /\ faults' = faults
    <3>1. CASE faults # 0
      BY <2>2, <2>5, <3>1 DEF EInv, StoreAtPc, ErrorOnItsWay
    <3>2. CASE faults = 0 /\ pc = "executing"
      <4>1. stored.status = "running" /\ f.clone.status \in {"queued", "running"}
        BY <3>2 DEF EInv, StoreAtPc, IInv, FlightIsPast, StatusAtPc, Verdict
      <4>2. stored'.status = "running"
        BY <2>5, <4>1, UpdateRunError DEF ValidateRunTransition, IsTerminalRunStatus
      <4> QED BY <2>1, <2>2, <3>2, <4>2 DEF EInv, StoreAtPc, ErrorOnItsWay
    <3>3. CASE faults = 0 /\ pc = "returned"
      <4>1. stored.status = run.status /\ stored.status \in Verdict /\ f.clone.notifyErr
        BY <3>3 DEF EInv, StoreAtPc, ErrorOnItsWay, ErrorHeld
      <4>2. stored'.status = run.status
        BY <2>5, <4>1, UpdateRunError, TerminalTransition DEF IsTerminalRunStatus, Verdict
      <4>3. StoreAtPc'
        BY <2>1, <3>3, <4>1, <4>2 DEF StoreAtPc
      <4>4. CASE f.clone.status = run.status
        <5>1. stored'.notifyErr
          BY <2>5, <4>1, <4>4, UpdateRunError DEF ValidateRunTransition, IsTerminalRunStatus, Verdict
        <5> QED BY <2>1, <2>2, <3>3, <4>3, <5>1 DEF EInv, ErrorOnItsWay
      <4>5. CASE f.clone.status # run.status
        <5>1. stored' = stored
          BY <2>5, <4>1, <4>5, UpdateRunError, TerminalTransition DEF IsTerminalRunStatus, Verdict
        <5> QED BY <2>1, <2>2, <3>3, <4>3, <4>5, <5>1 DEF EInv, ErrorOnItsWay
      <4> QED BY <4>4, <4>5
    <3> QED BY <2>3, <3>1, <3>2, <3>3
  <2> QED BY <1>5, <2>4, <2>5 DEF Persist
<1>6. CASE RecordNotifyError
  <2> DEFINE clone == Snap(run.status, run.version + 1, run.calls, TRUE)
  <2>1. /\ run' = clone /\ pc' = pc /\ stored' = stored /\ faults' = faults
        /\ flight' = flight \cup {[owner |-> "notify", clone |-> clone]}
    BY <1>6 DEF RecordNotifyError
  <2>2. clone.notifyErr /\ clone.status = run.status
    BY DEF Snap
  <2>3. [owner |-> "notify", clone |-> clone].clone = clone /\ [owner |-> "notify", clone |-> clone].owner = "notify"
    OBVIOUS
  <2> HIDE DEF clone
  <2> QED BY <2>1, <2>2, <2>3 DEF EInv, ErrorHeld, StoreAtPc, ErrorOnItsWay
<1>7. CASE \/ \E k \in 0..NotifyRetry : CallbackDelivered(k) \/ CallbackRetried(k)
           \/ UNCHANGED vars
  <2>1. UNCHANGED <<pc, run, stored, flight, notifyErrs, faults>>
    BY <1>7 DEF CallbackDelivered, CallbackRetried, vars
  <2> QED BY <2>1 DEF EInv, ErrorHeld, StoreAtPc, ErrorOnItsWay
<1>8. CASE Crash \/ MarkInterruptedRunning
  BY <1>8 DEF Crash, MarkInterruptedRunning, EInv, ErrorHeld, StoreAtPc, ErrorOnItsWay
<1>9. CASE (\E s \in Steps : ObserveStep(s)) \/ (\E n \in Nodes : ObserveNode(n))
  BY <1>4, <1>9 DEF ObserveStep, ObserveNode, Actors
<1> QED BY <1>1, <1>2, <1>3, <1>5, <1>6, <1>7, <1>8, <1>9 DEF Next

\* README 14.2: once the run has returned and the calls in flight are done, a
\* callback that gave up is recorded in the stored run, unless a write failed.
THEOREM CallbackErrorsKept == Spec => []CallbackErrorRecorded
<1>1. IInv /\ EInv => CallbackErrorRecorded
  BY TrackerConstants DEF EInv, ErrorHeld, ErrorOnItsWay, CallbackErrorRecorded
<1>2. IInv /\ EInv /\ [Next]_vars => (IInv /\ EInv)'
  BY NextIInv, NextEInv
<1> QED BY <1>1, <1>2, InitIInv, InitEInv, PTL DEF Spec
===============================================================================
