-------------------------- MODULE RunServiceProofs --------------------------
(***************************************************************************)
(* Why a canceled run is never executed, no accepted run is stranded, the  *)
(* stores and the sink agree on one verdict, a start never follows a       *)
(* finish and a refused Submit leaves nothing behind.                      *)
(*                                                                         *)
(* A run is in one hand at a time: that of the client that submits it, the *)
(* queue, or one worker (OneOwner).  Whoever else acts on it cancels it or *)
(* reads it.                                                               *)
(*                                                                         *)
(* Then comes what idempotency keys promise and what they need for it:     *)
(* that the calls about one key do not overlap (OneAtATime).               *)
(*                                                                         *)
(* The last part is the refinement: LInv says what the events of a run     *)
(* tell about where it is, and with it every step of the service is a step *)
(* of RunLedger or none.                                                   *)
(***************************************************************************)
EXTENDS RunService, FiniteSetTheorems, TLAPS

Early == {"subRemember", "subJob"}
Mid   == {"subPublish", "subCheck", "subSend", "rbJob"}
Undo  == {"rbForget", "rbDelete"}
Rej   == {"rejRemember", "rejNotify", "rejRecord"}
Begun == {"startRemember", "startUpsert", "startPublish", "create"}
End   == {"endRemember", "endUpsert", "notify", "record", "finishPublish"}
Scanning == {"getting", "listing", "reading"}
Read  == {"getting", "listing", "reading", "readRemember", "readUpsert"}
Free  == {"idle", "loading", "exited"}

Submitting == Early \cup Mid \cup Undo
Telling    == {"record", "rejRecord"}

(* The points of a client and of a worker, and when they are about a run.  *)
Shape ==
  /\ \A c \in Clients : pc(c) \in ClientPc
  /\ \A w \in Workers : pc(w) \in WorkerPc
  /\ \A a \in Actors : pc(a) \in Free <=> (cur(a) = NoRun /\ pc(a) \notin Scanning)
  /\ \A a \in Actors : pc(a) \in {"getting", "listing"} => cur(a) = NoRun
  /\ serving = "down" => (\A a \in Actors : act[a] = Idle) /\ queue = <<>>
  /\ serving = "down" => \A r \in Runs : jobs[r] = "absent"
  /\ \A c \in Clients, r \in Runs : listed[c][r] # "none" => pc(c) \in Read

Queued(r) == \E i \in 1..Len(queue) : queue[i] = r

(* Whose hands a run is in.                                                *)
Owns(a, r) ==
  /\ cur(a) = r
  /\ a \in Workers \/ pc(a) \in Submitting \cup Rej

OneOwner ==
  /\ \A a, b \in Actors : \A r \in Runs : Owns(a, r) /\ Owns(b, r) => a = b
  /\ \A a \in Actors, r \in Runs : Owns(a, r) => ~Queued(r)
  /\ \A i, j \in 1..Len(queue) : queue[i] = queue[j] => i = j

(* A run that was not submitted yet has no trace.                          *)
NotYet(r) ==
  /\ \A a \in Actors : cur(a) # r
  /\ ~Queued(r)
  /\ \A c \in Clients : listed[c][r] = "none"
  /\ jobs[r] = "absent" /\ runStore[r] = "none" /\ told[r] = <<>> /\ history[r] = <<>>
  /\ r \notin preCanceled \cup rolledBack

Fresh == \A r \in Runs : r > lastRun => NotYet(r)

(* What a job says of its run, and of who works on it.                     *)
JobsTell ==
  /\ \A r \in Runs : jobs[r] \in {"waiting", "started"} => r \notin preCanceled
  /\ \A r \in Runs : jobs[r] = "waiting" => runStore[r] = "none"
  /\ \A r \in Runs : jobs[r] = "canceled" => r \in preCanceled
  /\ \A c \in Clients : pc(c) \in Early => jobs[cur(c)] = "absent" /\ cur(c) \notin preCanceled
  /\ \A c \in Clients : pc(c) \in Undo \cup Rej => jobs[cur(c)] = "absent"
  /\ \A w \in Workers : pc(w) \in Begun \cup {"begin", "exec", "settle"} => jobs[cur(w)] = "started"
  /\ \A w \in Workers : pc(w) \in {"createCanceled"} \cup End => jobs[cur(w)] = "absent"

(* What the run-state store holds of a run that is not executed yet.       *)
Stored ==
  /\ \A r \in Runs : Queued(r) => runStore[r] = "none"
  /\ \A c \in Clients : pc(c) \in Submitting \cup Rej => runStore[cur(c)] = "none"
  /\ \A w \in Workers : pc(w) \in Begun \cup {"claimed", "createCanceled"} => runStore[cur(w)] = "none"
  /\ \A c \in Clients : pc(c) \in {"readRemember", "readUpsert"} => runStore[cur(c)] # "none"
  /\ \A c \in Clients, r \in Runs : listed[c][r] # "none" => runStore[r] # "none"

(* A client that ends a run has canceled it before it started.             *)
Cancelers ==
  /\ \A c \in Clients : pc(c) \in End => cur(c) \in preCanceled /\ loc(c) = "canceled"
  /\ \A r \in preCanceled : runStore[r] \in {"none", "canceled"}
  /\ \A w \in Workers : pc(w) = "createCanceled" => cur(w) \in preCanceled /\ loc(w) = "canceled"

(* Nobody works on the run any more, or can.                               *)
Silent(r) ==
  /\ r <= lastRun /\ jobs[r] = "absent" /\ ~Queued(r)
  /\ \A a \in Actors : cur(a) = r => a \in Clients /\ pc(a) \in Read

(* Nobody will execute it.                                                 *)
Dead(r) ==
  /\ r <= lastRun /\ ~Queued(r)
  /\ \A a \in Actors : Owns(a, r) => a \in Clients /\ pc(a) \in Rej

(* The status s may stand as the verdict on run r.                         *)
Word(r, s) ==
  IsTerminalRunStatus(s) =>
    \/ runStore[r] = s
    \/ s = "canceled" /\ r \in preCanceled
    \/ runStore[r] = "none" /\ Dead(r)

Words ==
  bounds.faults = 0 =>
    /\ \A a \in Actors : cur(a) # NoRun => Word(cur(a), loc(a))
    /\ \A c \in Clients, r \in Runs : Word(r, listed[c][r])
    /\ \A r \in Runs : Word(r, records[r])
    /\ \A r \in Runs : told[r] # <<>> => IsTerminalRunStatus(told[r][1]) /\ Word(r, told[r][1])

(* The sink.                                                               *)
Tellers ==
  /\ \A a \in Actors :
       pc(a) \in Telling =>
         IsTerminalRunStatus(loc(a)) /\ cur(a) \in sinkNotified /\ told[cur(a)] = <<>>
  /\ \A a, b \in Actors : pc(a) \in Telling /\ pc(b) \in Telling /\ cur(a) = cur(b) => a = b
  /\ \A r \in Runs : told[r] # <<>> => Len(told[r]) = 1 /\ (r \in sinkNotified \/ Silent(r))

(* No worker will publish run_start for r.                                 *)
Over(r) ==
  /\ r <= lastRun
  /\ \/ r \in preCanceled
     \/ /\ ~Queued(r)
        /\ \A c \in Clients : cur(c) = r => pc(c) \notin Submitting
        /\ \A w \in Workers : cur(w) = r => pc(w) \notin {"claimed", "startRemember", "startUpsert", "startPublish"}

Finished ==
  \A r \in Runs : (\E i \in 1..Len(history[r]) : history[r][i] = "run_finish") => Over(r)

(* A Submit that was undone.                                               *)
Undone ==
  /\ \A c \in Clients : pc(c) = "rbDelete" /\ cur(c) \notin preCanceled => metas[cur(c)] = "none"
  /\ \A r \in rolledBack \ preCanceled : Silent(r) /\ runStore[r] = "none"
  /\ bounds.faults = 0 => \A r \in rolledBack \ preCanceled : metas[r] = "none" /\ records[r] = "none"

IInv ==
  /\ TypeOK /\ Shape /\ OneOwner /\ Fresh /\ JobsTell /\ Stored /\ Cancelers
  /\ NoStrandedJob /\ Words /\ Tellers /\ Finished /\ NoStartAfterFinish /\ Undone

-----------------------------------------------------------------------------
(* How an actor moves.                                                     *)

ActType == [pc : ClientPc \cup WorkerPc, run : Runs \cup {NoRun}, status : MetaStatus]

LEMMA Moved ==
  ASSUME TypeOK, NEW a \in Actors, NEW to, NEW r, NEW s, Move(a, to, r, s)
  PROVE  /\ to # "idle" => pc(a)' = to /\ cur(a)' = r /\ loc(a)' = s
         /\ to = "idle" => act'[a] = Idle /\ pc(a)' = "idle" /\ cur(a)' = NoRun /\ loc(a)' = "none"
         /\ \A b \in Actors : b # a => act'[b] = act[b] /\ pc(b)' = pc(b) /\ cur(b)' = cur(b) /\ loc(b)' = loc(b)
  BY DEF TypeOK, Move, pc, cur, loc, Idle

LEMMA MoveTyped ==
  ASSUME TypeOK, NEW a \in Actors, NEW to \in ClientPc \cup WorkerPc, NEW r \in Runs \cup {NoRun},
         NEW s \in MetaStatus, Move(a, to, r, s)
  PROVE  act' \in [Actors -> ActType]
  <1>1. Idle \in ActType
    BY DEF Idle, ActType, ClientPc, MetaStatus
  <1>2. [pc |-> to, run |-> r, status |-> s] \in ActType
    BY DEF ActType
  <1> QED
    BY <1>1, <1>2 DEF TypeOK, Move, ActType

LEMMA ActTyped ==
  ASSUME TypeOK, NEW a \in Actors
  PROVE  pc(a) \in ClientPc \cup WorkerPc /\ cur(a) \in Runs \cup {NoRun} /\ loc(a) \in MetaStatus
  BY DEF TypeOK, pc, cur, loc

LEMMA StepTyped ==
  ASSUME TypeOK, NEW a \in Actors, NEW from, NEW to \in ClientPc \cup WorkerPc, Step(a, from, to)
  PROVE  act' \in [Actors -> ActType]
  BY ActTyped, MoveTyped DEF Step

BoundsType == [reads : 0..MaxReads, cancels : 0..MaxCancels, rejects : 0..MaxRejects,
               faults : 0..MaxFaults, stops : 0..MaxStops]

LEMMA Bounded ==
  ASSUME TypeOK
  PROVE  /\ bounds \in BoundsType
         /\ bounds.reads \in 0..MaxReads /\ bounds.cancels \in 0..MaxCancels
         /\ bounds.rejects \in 0..MaxRejects /\ bounds.faults \in 0..MaxFaults
         /\ bounds.stops \in 0..MaxStops
         /\ MaxReads \in Nat /\ MaxCancels \in Nat /\ MaxRejects \in Nat /\ MaxFaults \in Nat /\ MaxStops \in Nat
  BY ServiceConstants DEF TypeOK, BoundsType

LEMMA Faulted ==
  ASSUME TypeOK, Fault
  PROVE  bounds' \in BoundsType /\ bounds'.faults > 0
  <1>1. bounds.faults + 1 \in 0..MaxFaults /\ bounds.faults + 1 > 0
    BY Bounded DEF Fault
  <1>2. bounds' = [bounds EXCEPT !.faults = bounds.faults + 1]
    BY DEF Fault
  <1>3. bounds' \in BoundsType
    BY <1>1, <1>2, Bounded DEF BoundsType
  <1>4. bounds'.faults = bounds.faults + 1
    BY <1>2, Bounded DEF BoundsType
  <1> QED
    BY <1>1, <1>3, <1>4

(* The steps that use up a bound.                                          *)
LEMMA Counts ==
  ASSUME Next
  PROVE  \/ bounds' = bounds
         \/ Fault
         \/ bounds.reads < MaxReads /\ bounds' = [bounds EXCEPT !.reads = bounds.reads + 1]
         \/ bounds.cancels < MaxCancels /\ bounds' = [bounds EXCEPT !.cancels = bounds.cancels + 1]
         \/ /\ bounds.rejects < MaxRejects
            /\ \/ bounds' = [bounds EXCEPT !.rejects = bounds.rejects + 1]
               \/ /\ bounds.faults < MaxFaults
                  /\ bounds' = [bounds EXCEPT !.rejects = bounds.rejects + 1, !.faults = bounds.faults + 1]
         \/ bounds.stops < MaxStops /\ bounds' = [bounds EXCEPT !.stops = bounds.stops + 1]
  <1>1. ASSUME NEW c \in Clients, ClientStep(c), ~SubmitReject(c) PROVE bounds' = bounds \/ Fault
    BY <1>1 DEF ClientStep, SubmitInvalid, RememberRejected, SubmitAccept, SubmitRemember, SubmitJob,
         SubmitPublish, EnqueueCheck, EnqueueSend, RollbackJob, RollbackForget, RollbackDelete, GetLookup, ListRuns, ReadNext
  <1>2. ASSUME NEW c \in Clients, NEW k \in Keys \cup {NoKey}, SubmitCheck(c, k) PROVE bounds' = bounds
    BY <1>2 DEF SubmitCheck
  <1>3. ASSUME NEW w \in Workers, WorkerStep(w) PROVE bounds' = bounds \/ Fault
    BY <1>3 DEF WorkerStep, Dequeue, WorkerExit, ProcessJob, CreateCanceled, StartPublish, CreateRun, BeginRun,
         TrackerWrite, Execute, Settle
  <1>4. ASSUME NEW a \in Actors, EndStep(a) PROVE bounds' = bounds \/ Fault
    BY <1>4 DEF EndStep, PersistMetaAsync, Remember, Upsert, UpsertRecord, NotifyOpsManualRunRecord, MarkNotified,
         RecordRun, FinishPublish
  <1>5. Exit \/ Restart => bounds' = bounds
    BY DEF Exit, Restart
  <1>6. ASSUME NEW c \in Clients, SubmitReject(c)
        PROVE  /\ bounds.rejects < MaxRejects
               /\ \/ bounds' = [bounds EXCEPT !.rejects = bounds.rejects + 1]
                  \/ /\ bounds.faults < MaxFaults
                     /\ bounds' = [bounds EXCEPT !.rejects = bounds.rejects + 1, !.faults = bounds.faults + 1]
    BY <1>6 DEF SubmitReject
  <1>7. ASSUME NEW c \in Clients, (\E r \in Runs : Get(c, r)) \/ List(c)
        PROVE  bounds.reads < MaxReads /\ bounds' = [bounds EXCEPT !.reads = bounds.reads + 1]
    BY <1>7 DEF Get, List
  <1>8. ASSUME NEW c \in Clients, NEW r \in Runs, Cancel(c, r)
        PROVE  bounds.cancels < MaxCancels /\ bounds' = [bounds EXCEPT !.cancels = bounds.cancels + 1]
    BY <1>8 DEF Cancel
  <1>9. Close \/ Crash => bounds.stops < MaxStops /\ bounds' = [bounds EXCEPT !.stops = bounds.stops + 1]
    BY DEF Close, Crash
  <1> QED
    BY <1>1, <1>2, <1>3, <1>4, <1>5, <1>6, <1>7, <1>8, <1>9 DEF Next

LEMMA BoundsKept ==
  ASSUME TypeOK, [Next]_vars
  PROVE  bounds' \in BoundsType /\ bounds'.faults >= bounds.faults /\ (Fault => bounds'.faults > 0)
  <1>0. bounds'.faults >= bounds.faults /\ bounds' \in BoundsType
    <2>1. CASE bounds' = bounds
      BY <2>1, Bounded
    <2>2. CASE Fault
      <3>1. bounds' = [bounds EXCEPT !.faults = bounds.faults + 1]
        BY <2>2 DEF Fault
      <3>2. bounds'.faults = bounds.faults + 1
        BY <3>1, Bounded DEF BoundsType
      <3> QED
        BY <2>2, <3>2, Faulted, Bounded
    <2>3. CASE bounds.reads < MaxReads /\ bounds' = [bounds EXCEPT !.reads = bounds.reads + 1]
      <3>1. bounds.reads + 1 \in 0..MaxReads
        BY <2>3, Bounded
      <3> QED
        BY <2>3, <3>1, Bounded DEF BoundsType
    <2>4. CASE bounds.cancels < MaxCancels /\ bounds' = [bounds EXCEPT !.cancels = bounds.cancels + 1]
      <3>1. bounds.cancels + 1 \in 0..MaxCancels
        BY <2>4, Bounded
      <3> QED
        BY <2>4, <3>1, Bounded DEF BoundsType
    <2>5. CASE bounds.rejects < MaxRejects /\ bounds' = [bounds EXCEPT !.rejects = bounds.rejects + 1]
      <3>1. bounds.rejects + 1 \in 0..MaxRejects
        BY <2>5, Bounded
      <3> QED
        BY <2>5, <3>1, Bounded DEF BoundsType
    <2>6. CASE /\ bounds.rejects < MaxRejects /\ bounds.faults < MaxFaults
               /\ bounds' = [bounds EXCEPT !.rejects = bounds.rejects + 1, !.faults = bounds.faults + 1]
      <3>1. bounds.rejects + 1 \in 0..MaxRejects /\ bounds.faults + 1 \in 0..MaxFaults
        BY <2>6, Bounded
      <3>2. bounds' \in BoundsType /\ bounds'.faults = bounds.faults + 1
        BY <2>6, <3>1, Bounded DEF BoundsType
      <3> QED
        BY <3>2, Bounded
    <2>7. CASE bounds.stops < MaxStops /\ bounds' = [bounds EXCEPT !.stops = bounds.stops + 1]
      <3>1. bounds.stops + 1 \in 0..MaxStops
        BY <2>7, Bounded
      <3> QED
        BY <2>7, <3>1, Bounded DEF BoundsType
    <2> QED
      BY <2>1, <2>2, <2>3, <2>4, <2>5, <2>6, <2>7, Counts DEF vars
  <1> QED
    BY <1>0, Faulted

-----------------------------------------------------------------------------
(* The types.                                                              *)

(* What is typed besides where the actors are and the bounds.              *)
Memory ==
  /\ serving \in {"up", "closing", "down"}
  /\ want \in [Clients -> Keys \cup {NoKey}]
  /\ listed \in [Clients -> [Runs -> RunStatus \cup {"none"}]]
  /\ jobs \in [Runs -> {"absent", "waiting", "canceled", "started"}]
  /\ metas \in [Runs -> MetaStatus]
  /\ idempotency \in [Keys -> Runs \cup {NoRun}]
  /\ ctxDone \subseteq Runs
  /\ queue \in Seq(Runs) /\ Len(queue) <= QueueSize
  /\ sinkNotified \subseteq Runs

Files ==
  /\ records \in [Runs -> MetaStatus]
  /\ runStore \in [Runs -> RunStatus \cup {"none"}]
  /\ keyOf \in [Runs -> Keys \cup {NoKey}]
  /\ lastRun \in 0..MaxRuns
  /\ history \in [Runs -> Seq({"run_queued", "run_start", "run_finish"})]
  /\ told \in [Runs -> Seq(RunStatus)]
  /\ acked \in [Keys -> SUBSET Runs]
  /\ preCanceled \subseteq Runs
  /\ rolledBack \subseteq Runs

Bare ==
  /\ bareMetas \subseteq Runs
  /\ bareRecords \subseteq Runs
  /\ bareCopy \in [Actors -> SUBSET Runs]

LEMMA TypeParts ==
  TypeOK <=> (act \in [Actors -> ActType] /\ bounds \in BoundsType /\ Memory /\ Files /\ Bare)
  BY DEF TypeOK, ActType, BoundsType, Memory, Files, Bare

LEMMA Numbered ==
  ASSUME TypeOK
  PROVE  /\ lastRun \in Nat /\ MaxRuns \in Nat /\ lastRun <= MaxRuns
         /\ lastRun < MaxRuns => lastRun + 1 \in Runs /\ lastRun + 1 \in 0..MaxRuns
  <1>1. lastRun \in 0..MaxRuns /\ MaxRuns \in Nat
    BY ServiceConstants DEF TypeOK
  <1> QED
    BY <1>1 DEF Runs

LEMMA Heads ==
  ASSUME TypeOK, queue # <<>>
  PROVE  /\ Head(queue) \in Runs /\ Tail(queue) \in Seq(Runs) /\ Len(Tail(queue)) <= QueueSize
         /\ Len(queue) \in Nat \ {0} /\ Len(Tail(queue)) = Len(queue) - 1 /\ Head(queue) = queue[1]
         /\ \A i \in 1..Len(Tail(queue)) : i + 1 \in 1..Len(queue) /\ Tail(queue)[i] = queue[i + 1]
  <1>1. queue \in Seq(Runs) /\ Len(queue) <= QueueSize /\ QueueSize \in Nat
    BY ServiceConstants DEF TypeOK
  <1> QED
    BY <1>1

LEMMA Appended ==
  ASSUME TypeOK, NEW r \in Runs
  PROVE  /\ Append(queue, r) \in Seq(Runs) /\ Len(queue) \in Nat /\ Len(Append(queue, r)) = Len(queue) + 1
         /\ Append(queue, r)[Len(queue) + 1] = r
         /\ \A i \in 1..Len(queue) : Append(queue, r)[i] = queue[i]
         /\ QueueSize \in Nat
  <1>1. queue \in Seq(Runs) /\ QueueSize \in Nat
    BY ServiceConstants DEF TypeOK
  <1> QED
    BY <1>1

LEMMA ListedTyped ==
  ASSUME TypeOK, NEW c \in Clients, NEW r \in Runs
  PROVE  listed[c][r] \in RunStatus \cup {"none"}
  <1>1. listed \in [Clients -> [Runs -> RunStatus \cup {"none"}]]
    BY DEF TypeOK
  <1> QED
    BY <1>1

LEMMA About ==
  ASSUME TypeOK, Shape, NEW a \in Actors
  PROVE  /\ pc(a) \notin Free \cup Scanning => cur(a) \in Runs
         /\ pc(a) \in Free => cur(a) = NoRun
         /\ a \in Clients => pc(a) \in ClientPc
         /\ a \in Workers => pc(a) \in WorkerPc
  BY ActTyped DEF Shape, Free, Scanning

LEMMA ClientActs ==
  ASSUME TypeOK, NEW c \in Clients, ClientStep(c)
  PROVE  act' \in [Actors -> ActType]
  <1> USE DEF ClientPc, MetaStatus, RunStatus
  <1>0. c \in Actors
    BY DEF Actors
  <1>1. CASE SubmitInvalid(c) \/ RememberRejected(c) \/ SubmitRemember(c) \/ SubmitJob(c) \/ SubmitPublish(c)
    BY <1>0, <1>1, StepTyped DEF SubmitInvalid, RememberRejected, SubmitRemember, SubmitJob, SubmitPublish
  <1>2. CASE EnqueueCheck(c) \/ EnqueueSend(c) \/ RollbackJob(c) \/ RollbackForget(c) \/ RollbackDelete(c)
    BY <1>0, <1>2, StepTyped DEF EnqueueCheck, EnqueueSend, RollbackJob, RollbackForget, RollbackDelete
  <1>3. ASSUME NEW to \in ClientPc, NEW s \in MetaStatus, NewRun(c, to, s) PROVE act' \in [Actors -> ActType]
    <2>1. lastRun + 1 \in Runs
      BY <1>3, Numbered DEF NewRun
    <2> QED
      BY <1>0, <1>3, <2>1, MoveTyped DEF NewRun
  <1>4. CASE SubmitReject(c)
    BY <1>3, <1>4 DEF SubmitReject
  <1>5. CASE SubmitAccept(c)
    BY <1>0, <1>3, <1>5, StepTyped DEF SubmitAccept
  <1>6. CASE (\E r \in Runs : GetLookup(c, r)) \/ ListRuns(c) \/ ReadNext(c)
    <2>1. \A r \in Runs : listed[c][r] \in MetaStatus
      BY ListedTyped DEF MetaStatus
    <2> QED
      BY <1>0, <1>6, <2>1, StepTyped, MoveTyped DEF GetLookup, ListRuns, ReadNext
  <1> QED
    BY <1>1, <1>2, <1>4, <1>5, <1>6 DEF ClientStep

LEMMA WorkerActs ==
  ASSUME TypeOK, NEW w \in Workers, WorkerStep(w)
  PROVE  act' \in [Actors -> ActType]
  <1> USE DEF WorkerPc, MetaStatus, RunStatus
  <1>0. w \in Actors /\ cur(w) \in Runs \cup {NoRun}
    BY ActTyped DEF Actors
  <1>1. CASE Dequeue(w)
    <2>1. Head(queue) \in Runs
      BY <1>1, Heads DEF Dequeue
    <2> QED
      BY <1>0, <1>1, <2>1, MoveTyped DEF Dequeue
  <1>2. CASE ProcessJob(w)
    BY <1>0, <1>2, MoveTyped DEF ProcessJob
  <1>3. CASE WorkerExit(w) \/ CreateCanceled(w) \/ StartPublish(w) \/ Settle(w)
    BY <1>0, <1>3, StepTyped DEF WorkerExit, CreateCanceled, StartPublish, Settle
  <1>4. CASE CreateRun(w) \/ BeginRun(w)
    BY <1>0, <1>4, StepTyped, MoveTyped DEF CreateRun, BeginRun, TrackerWrite
  <1>5. CASE Execute(w)
    BY <1>0, <1>5, MoveTyped DEF Execute
  <1> QED
    BY <1>1, <1>2, <1>3, <1>4, <1>5 DEF WorkerStep

LEMMA EndActs ==
  ASSUME TypeOK, NEW a \in Actors, EndStep(a)
  PROVE  act' \in [Actors -> ActType]
  <1> USE DEF ClientPc, WorkerPc
  <1>1. CASE PersistMetaAsync(a)
    BY <1>1, StepTyped DEF PersistMetaAsync, Remember, Upsert
  <1>2. CASE NotifyOpsManualRunRecord(a)
    BY <1>2, StepTyped DEF NotifyOpsManualRunRecord, MarkNotified, RecordRun
  <1>3. CASE FinishPublish(a)
    BY <1>3, StepTyped DEF FinishPublish
  <1> QED
    BY <1>1, <1>2, <1>3 DEF EndStep

LEMMA ActsKept ==
  ASSUME TypeOK, [Next]_vars
  PROVE  act' \in [Actors -> ActType]
  <1>0. act \in [Actors -> ActType]
    BY TypeParts
  <1>1. ASSUME NEW c \in Clients, NEW k \in Keys \cup {NoKey}, SubmitCheck(c, k) PROVE act' \in [Actors -> ActType]
    BY <1>0, <1>1, StepTyped DEF SubmitCheck, Actors, ClientPc
  <1>2. ASSUME NEW c \in Clients, (\E r \in Runs : Get(c, r)) \/ List(c) PROVE act' \in [Actors -> ActType]
    BY <1>2, StepTyped DEF Get, List, Actors, ClientPc
  <1>3. ASSUME NEW c \in Clients, NEW r \in Runs, Cancel(c, r) PROVE act' \in [Actors -> ActType]
    BY <1>0, <1>3, MoveTyped DEF Cancel, CancelWaiting, CancelStarted, Actors, ClientPc, MetaStatus, RunStatus
  <1>4. CASE Exit \/ Crash
    <2>1. Idle \in ActType
      BY DEF Idle, ActType, ClientPc, MetaStatus
    <2> QED
      BY <1>4, <2>1 DEF Exit, Crash, Stop
  <1>5. CASE Close \/ Restart \/ UNCHANGED vars
    BY <1>0, <1>5 DEF Close, Restart, vars
  <1> QED
    BY <1>1, <1>2, <1>3, <1>4, <1>5, ClientActs, WorkerActs, EndActs DEF Next

LEMMA MemoryKept ==
  ASSUME TypeOK, Shape, [Next]_vars
  PROVE  Memory'
  <1>0. Memory
    BY TypeParts
  <1> USE <1>0 DEF Memory, svars, gvars, bare
  <1>1. ASSUME NEW c \in Clients, NEW k \in Keys \cup {NoKey}, SubmitCheck(c, k) PROVE Memory'
    BY <1>1 DEF SubmitCheck
  <1>2. ASSUME NEW c \in Clients, NEW r \in Runs, Get(c, r) PROVE Memory'
    <2>1. [NothingListed EXCEPT ![r] = runStore[r]] \in [Runs -> RunStatus \cup {"none"}]
      BY DEF NothingListed, TypeOK
    <2>2. listed' = [listed EXCEPT ![c] = [NothingListed EXCEPT ![r] = runStore[r]]]
      BY <1>2 DEF Get
    <2>3. listed' \in [Clients -> [Runs -> RunStatus \cup {"none"}]]
      BY <2>1, <2>2
    <2> QED
      BY <1>2, <2>3 DEF Get
  <1>3. ASSUME NEW c \in Clients, List(c) \/ ListRuns(c) PROVE Memory'
    <2>1. runStore \in [Runs -> RunStatus \cup {"none"}]
      BY DEF TypeOK
    <2> QED
      BY <1>3, <2>1 DEF List, ListRuns
  <1>4. ASSUME NEW c \in Clients, NEW r \in Runs, Cancel(c, r) PROVE Memory'
    BY <1>4 DEF Cancel, CancelWaiting, CancelStarted, MetaStatus, RunStatus
  <1>15. ASSUME NEW c \in Clients, NEW r \in Runs, GetLookup(c, r) PROVE Memory'
    <2>1. NothingListed \in [Runs -> RunStatus \cup {"none"}]
      BY DEF NothingListed
    <2> QED
      BY <1>15, <2>1 DEF GetLookup
  <1>5. ASSUME NEW c \in Clients, ReadNext(c) PROVE Memory'
    <2>1. \A r \in Runs : [listed[c] EXCEPT ![r] = "none"] \in [Runs -> RunStatus \cup {"none"}]
      OBVIOUS
    <2>2. PICK f \in [Runs -> RunStatus \cup {"none"}] : listed' = listed \/ listed' = [listed EXCEPT ![c] = f]
      BY <1>5, <2>1 DEF ReadNext
    <2>3. listed' \in [Clients -> [Runs -> RunStatus \cup {"none"}]]
      BY <2>2
    <2> QED
      BY <1>5, <2>3 DEF ReadNext
  <1>6. ASSUME NEW c \in Clients, SubmitInvalid(c) \/ SubmitReject(c) \/ SubmitAccept(c) \/ SubmitPublish(c) \/ EnqueueCheck(c)
                                  \/ RollbackDelete(c)
        PROVE  Memory'
    BY <1>6 DEF SubmitInvalid, SubmitReject, SubmitAccept, SubmitPublish, EnqueueCheck, RollbackDelete, NewRun
  <1>7. ASSUME NEW c \in Clients, RememberRejected(c) \/ SubmitRemember(c) \/ SubmitJob(c) \/ RollbackJob(c) \/ RollbackForget(c)
        PROVE  Memory'
    <2>1. cur(c) \in Runs \cup {NoRun}
      BY ActTyped DEF Actors
    <2> QED
      BY <1>7, <2>1 DEF RememberRejected, SubmitRemember, RememberMeta, SubmitJob, RollbackJob, RollbackForget, MetaStatus, RunStatus
  <1>8. ASSUME NEW c \in Clients, EnqueueSend(c) PROVE Memory'
    <2>1. cur(c) \in Runs
      <3>1. c \in Actors /\ pc(c) = "subSend"
        BY <1>8 DEF Actors, EnqueueSend, Step
      <3> QED
        BY <3>1, ActTyped DEF Shape, Free, Scanning
    <2>2. queue' = queue \/ (Len(queue) < QueueSize /\ queue' = Append(queue, cur(c)))
      BY <1>8 DEF EnqueueSend
    <2>3. CASE Len(queue) < QueueSize /\ queue' = Append(queue, cur(c))
      <3>1. /\ Append(queue, cur(c)) \in Seq(Runs) /\ Len(queue) \in Nat /\ QueueSize \in Nat
            /\ Len(Append(queue, cur(c))) = Len(queue) + 1
        BY <2>1, Appended
      <3>2. queue' \in Seq(Runs) /\ Len(queue') <= QueueSize
        BY <2>3, <3>1
      <3> QED
        BY <1>8, <3>2 DEF EnqueueSend
    <2> QED
      BY <1>8, <2>2, <2>3 DEF EnqueueSend
  <1>9. ASSUME NEW w \in Workers, Dequeue(w) PROVE Memory'
    <2>1. queue' \in Seq(Runs) /\ Len(queue') <= QueueSize
      BY <1>9, Heads DEF Dequeue
    <2> QED
      BY <1>9, <2>1 DEF Dequeue
  <1>10. ASSUME NEW w \in Workers, WorkerStep(w), ~Dequeue(w) PROVE Memory'
    <2>1. loc(w) \in MetaStatus
      BY ActTyped DEF Actors
    <2>2. CASE ProcessJob(w)
      BY <2>2 DEF ProcessJob, MetaStatus, RunStatus
    <2>3. CASE Settle(w)
      BY <2>1, <2>3 DEF Settle, MetaStatus, RunStatus
    <2>4. CASE WorkerExit(w) \/ CreateCanceled(w) \/ StartPublish(w)
      BY <2>4 DEF WorkerExit, CreateCanceled, StartPublish
    <2>5. CASE CreateRun(w) \/ BeginRun(w) \/ Execute(w)
      BY <2>5 DEF CreateRun, BeginRun, TrackerWrite, Execute
    <2> QED
      BY <1>10, <2>2, <2>3, <2>4, <2>5 DEF WorkerStep
  <1>11. ASSUME NEW a \in Actors, EndStep(a) PROVE Memory'
    <2>1. cur(a) \in Runs \cup {NoRun} /\ loc(a) \in MetaStatus
      BY <1>11, ActTyped
    <2>2. CASE PersistMetaAsync(a)
      <3>1. ASSUME NEW from, NEW to, Remember(a, from, to), cur(a) \in Runs PROVE Memory'
        BY <2>1, <3>1 DEF Remember, RememberMeta
      <3>2. ASSUME NEW from, NEW to, Upsert(a, from, to) PROVE Memory'
        BY <3>2 DEF Upsert
      <3>3. pc(a) \notin Free \cup Scanning => cur(a) \in Runs
        BY <2>1 DEF Shape, Free, Scanning
      <3>4. ASSUME NEW from, NEW to, Remember(a, from, to), from \notin Free \cup Scanning PROVE cur(a) \in Runs
        BY <3>3, <3>4 DEF Remember, Step
      <3> QED
        BY <2>2, <3>1, <3>2, <3>4 DEF PersistMetaAsync, Free, Scanning
    <2>3. CASE NotifyOpsManualRunRecord(a)
      <3>1. pc(a) \in {"notify", "rejNotify"} => cur(a) \in Runs
        BY <2>1 DEF Shape, Free, Scanning
      <3>2. sinkNotified' \subseteq Runs
        BY <2>3, <3>1 DEF NotifyOpsManualRunRecord, MarkNotified, RecordRun, Step
      <3> QED
        BY <2>3, <3>2 DEF NotifyOpsManualRunRecord, MarkNotified, RecordRun
    <2>4. CASE FinishPublish(a)
      BY <2>4 DEF FinishPublish
    <2> QED
      BY <1>11, <2>2, <2>3, <2>4 DEF EndStep
  <1>12. CASE Stop
    <2>1. queue' = <<>> /\ <<>> \in Seq(Runs) /\ Len(<<>>) <= QueueSize
      BY <1>12, ServiceConstants DEF Stop
    <2>2. NothingListed \in [Runs -> RunStatus \cup {"none"}]
      BY DEF NothingListed
    <2>3. listed' \in [Clients -> [Runs -> RunStatus \cup {"none"}]] /\ metas' \in [Runs -> MetaStatus]
      BY <1>12, <2>2 DEF Stop, MetaStatus
    <2>4. want' \in [Clients -> Keys \cup {NoKey}] /\ idempotency' \in [Keys -> Runs \cup {NoRun}]
      BY <1>12 DEF Stop
    <2>5. jobs' \in [Runs -> {"absent", "waiting", "canceled", "started"}]
      BY <1>12 DEF Stop
    <2>6. serving' = "down" /\ ctxDone' = {} /\ sinkNotified' = {}
      BY <1>12 DEF Stop
    <2>7. queue' \in Seq(Runs) /\ Len(queue') <= QueueSize
      BY <2>1
    <2> QED
      BY <2>3, <2>4, <2>5, <2>6, <2>7
  <1>13. CASE Close \/ UNCHANGED vars
    BY <1>13 DEF Close, vars
  <1>14. CASE Restart
    <2>1. records \in [Runs -> MetaStatus] /\ runStore \in [Runs -> RunStatus \cup {"none"}]
      BY DEF TypeOK
    <2>2. metas' \in [Runs -> MetaStatus]
      BY <1>14, <2>1 DEF Restart, MarkInterrupted, MetaStatus, RunStatus
    <2>3. idempotency' \in [Keys -> Runs \cup {NoRun}]
      BY <1>14 DEF Restart, RestoredKeys
    <2> QED
      BY <1>14, <2>2, <2>3 DEF Restart
  <1> QED
    BY <1>1, <1>2, <1>3, <1>4, <1>5, <1>6, <1>7, <1>8, <1>9, <1>10, <1>11, <1>12, <1>13, <1>14, <1>15
       DEF Next, ClientStep, Exit, Crash

Events == {"run_queued", "run_start", "run_finish"}

LEMMA Published ==
  ASSUME TypeOK, NEW r \in Runs \cup {NoRun}, NEW t \in Events, PublishEvent(r, t)
  PROVE  /\ history' \in [Runs -> Seq(Events)]
         /\ \A q \in Runs : history'[q] = IF q = r THEN Append(history[q], t) ELSE history[q]
  <1>1. history \in [Runs -> Seq(Events)]
    BY DEF TypeOK, Events
  <1> HIDE DEF Events
  <1>2. history' = [history EXCEPT ![r] = Append(history[r], t)]
    BY DEF PublishEvent
  <1>3. r \in Runs => Append(history[r], t) \in Seq(Events)
    BY <1>1
  <1> QED
    BY <1>1, <1>2, <1>3

LEMMA Acked ==
  ASSUME TypeOK, NEW k, NEW r \in Runs, acked' = [acked EXCEPT ![k] = acked[k] \cup {r}]
  PROVE  acked' \in [Keys -> SUBSET Runs]
  <1>1. acked \in [Keys -> SUBSET Runs]
    BY DEF TypeOK
  <1>2. k \in Keys => acked[k] \cup {r} \in SUBSET Runs
    BY <1>1
  <1> QED
    BY <1>1, <1>2

LEMMA FilesKept ==
  ASSUME TypeOK, Shape, Tellers, [Next]_vars
  PROVE  Files'
  <1>0. Files
    BY TypeParts
  <1> USE <1>0 DEF Files, svars, gvars, bare
  <1>1. ASSUME NEW c \in Clients, NEW k \in Keys \cup {NoKey}, SubmitCheck(c, k) PROVE Files'
    <2>1. idempotency \in [Keys -> Runs \cup {NoRun}]
      BY DEF TypeOK
    <2>2. \/ acked' = acked
          \/ /\ idempotency[k] # NoRun /\ k # NoKey
             /\ acked' = [acked EXCEPT ![k] = acked[k] \cup {idempotency[k]}]
      BY <1>1 DEF SubmitCheck
    <2>3. acked' \in [Keys -> SUBSET Runs]
      BY <2>1, <2>2, Acked
    <2> QED
      BY <1>1, <2>3 DEF SubmitCheck
  <1>2. ASSUME NEW c \in Clients, List(c) \/ \E r \in Runs : Get(c, r) \/ Cancel(c, r) PROVE Files'
    BY <1>2 DEF Get, List, Cancel, CancelWaiting, CancelStarted
  <1>3. ASSUME NEW c \in Clients, NEW p, NEW s, NewRun(c, p, s)
        PROVE  lastRun + 1 \in Runs /\ lastRun' \in 0..MaxRuns /\ keyOf' \in [Runs -> Keys \cup {NoKey}]
    <2>1. want[c] \in Keys \cup {NoKey}
      BY DEF TypeOK
    <2>2. lastRun < MaxRuns /\ lastRun' = lastRun + 1 /\ keyOf' = [keyOf EXCEPT ![lastRun + 1] = want[c]]
      BY <1>3 DEF NewRun
    <2>3. lastRun + 1 \in Runs /\ lastRun' \in 0..MaxRuns
      BY <2>2, Numbered
    <2>4. keyOf' \in [Runs -> Keys \cup {NoKey}]
      BY <2>1, <2>2
    <2> QED
      BY <2>3, <2>4
  <1>4. ASSUME NEW c \in Clients, SubmitReject(c) PROVE Files'
    <2>1. records' \in [Runs -> MetaStatus]
      BY <1>4 DEF SubmitReject, MetaStatus, RunStatus
    <2> QED
      BY <1>3, <1>4, <2>1 DEF SubmitReject
  <1>5. ASSUME NEW c \in Clients, SubmitAccept(c) PROVE Files'
    <2>1. records' \in [Runs -> MetaStatus]
      BY <1>5 DEF SubmitAccept, MetaStatus, RunStatus
    <2>2. (lastRun' \in 0..MaxRuns /\ keyOf' \in [Runs -> Keys \cup {NoKey}])
      BY <1>3, <1>5 DEF SubmitAccept
    <2> QED
      BY <1>5, <2>1, <2>2 DEF SubmitAccept
  <1>6. ASSUME NEW c \in Clients, SubmitInvalid(c) \/ RememberRejected(c) \/ SubmitRemember(c) \/ SubmitJob(c)
                 \/ EnqueueCheck(c) \/ RollbackJob(c) \/ RollbackForget(c) \/ ReadNext(c)
                 \/ ListRuns(c) \/ \E r \in Runs : GetLookup(c, r)
        PROVE  Files'
    BY <1>6 DEF SubmitInvalid, RememberRejected, SubmitRemember, SubmitJob, EnqueueCheck, RollbackJob, RollbackForget, GetLookup, ListRuns, ReadNext
  <1>7. ASSUME NEW c \in Clients, SubmitPublish(c) PROVE Files'
    <2>1. history' \in [Runs -> Seq(Events)]
      BY <1>7, Published, ActTyped DEF SubmitPublish, Events, Actors
    <2> QED
      BY <1>7, <2>1 DEF SubmitPublish, Events
  <1>8. ASSUME NEW c \in Clients, EnqueueSend(c) \/ RollbackDelete(c) PROVE Files'
    <2>1. cur(c) \in Runs
      <3>1. c \in Actors /\ pc(c) \in {"subSend", "rbDelete"}
        BY <1>8 DEF Actors, EnqueueSend, RollbackDelete, Step
      <3> QED
        BY <3>1, ActTyped DEF Shape, Free, Scanning
    <2>2. CASE EnqueueSend(c)
      <3>1. acked' = acked \/ acked' = [acked EXCEPT ![keyOf[cur(c)]] = acked[keyOf[cur(c)]] \cup {cur(c)}]
        BY <2>2 DEF EnqueueSend, Acknowledge
      <3>2. acked' \in [Keys -> SUBSET Runs]
        BY <2>1, <3>1, Acked
      <3> QED
        BY <2>2, <3>2 DEF EnqueueSend
    <2>3. CASE RollbackDelete(c)
      <3>1. records' \in [Runs -> MetaStatus]
        BY <2>3 DEF RollbackDelete, MetaStatus
      <3> QED
        BY <2>1, <2>3, <3>1 DEF RollbackDelete
    <2> QED
      BY <1>8, <2>2, <2>3
  <1>9. ASSUME NEW w \in Workers, Dequeue(w) \/ WorkerExit(w) \/ ProcessJob(w) \/ Settle(w) PROVE Files'
    BY <1>9 DEF Dequeue, WorkerExit, ProcessJob, Settle
  <1>10. ASSUME NEW w \in Workers, StartPublish(w) PROVE Files'
    <2>1. history' \in [Runs -> Seq(Events)]
      BY <1>10, Published, ActTyped DEF StartPublish, Events, Actors
    <2> QED
      BY <1>10, <2>1 DEF StartPublish, Events
  <1>11. ASSUME NEW w \in Workers, CreateCanceled(w) \/ CreateRun(w) \/ BeginRun(w) \/ Execute(w) PROVE Files'
    <2>1. runStore' \in [Runs -> RunStatus \cup {"none"}]
      BY <1>11 DEF CreateCanceled, CreateRun, BeginRun, TrackerWrite, Execute, RunStatus
    <2> QED
      BY <1>11, <2>1 DEF CreateCanceled, CreateRun, BeginRun, TrackerWrite, Execute
  <1>12. ASSUME NEW a \in Actors, PersistMetaAsync(a) PROVE Files'
    <2>1. loc(a) \in MetaStatus
      BY <1>12, ActTyped
    <2>2. records' \in [Runs -> MetaStatus]
      BY <1>12, <2>1 DEF PersistMetaAsync, Remember, Upsert, UpsertRecord
    <2> QED
      BY <1>12, <2>2 DEF PersistMetaAsync, Remember, Upsert
  <1>13. ASSUME NEW a \in Actors, NotifyOpsManualRunRecord(a) PROVE Files'
    <2>1. told' = told \/ (pc(a) \in Telling /\ told' = [told EXCEPT ![cur(a)] = Append(told[cur(a)], loc(a))])
      BY <1>13 DEF NotifyOpsManualRunRecord, MarkNotified, RecordRun, Step, Telling
    <2>2. pc(a) \in Telling => loc(a) \in RunStatus
      BY DEF Tellers, IsTerminalRunStatus, RunStatus
    <2>3. told' \in [Runs -> Seq(RunStatus)]
      <3>1. told \in [Runs -> Seq(RunStatus)]
        BY <1>0
      <3>2. pc(a) \in Telling /\ cur(a) \in Runs => Append(told[cur(a)], loc(a)) \in Seq(RunStatus)
        BY <2>2, <3>1
      <3> QED
        BY <2>1, <3>1, <3>2
    <2> QED
      BY <1>13, <2>3 DEF NotifyOpsManualRunRecord, MarkNotified, RecordRun
  <1>14. ASSUME NEW a \in Actors, FinishPublish(a) PROVE Files'
    <2>1. history' \in [Runs -> Seq(Events)]
      BY <1>14, Published, ActTyped DEF FinishPublish, Events
    <2> QED
      BY <1>14, <2>1 DEF FinishPublish, Events
  <1>15. CASE Close \/ Exit \/ Crash \/ UNCHANGED vars
    BY <1>15 DEF Close, Exit, Crash, Stop, vars
  <1>16. CASE Restart
    <2>1. runStore' \in [Runs -> RunStatus \cup {"none"}]
      BY <1>16 DEF Restart, MarkInterrupted, RunStatus
    <2>2. records' \in [Runs -> MetaStatus]
      BY <1>16 DEF Restart, MarkInterrupted, MetaStatus, RunStatus
    <2> QED
      BY <1>16, <2>1, <2>2 DEF Restart
  <1> QED
    BY <1>1, <1>2, <1>4, <1>5, <1>6, <1>7, <1>8, <1>9, <1>10, <1>11, <1>12, <1>13, <1>14, <1>15, <1>16
       DEF Next, ClientStep, WorkerStep, EndStep

LEMMA BareKept ==
  ASSUME TypeOK, Shape, [Next]_vars
  PROVE  Bare'
  <1>0. /\ Bare
        /\ \A a \in Actors : cur(a) \in Runs \cup {NoRun} /\ (pc(a) \notin Free \cup Scanning => cur(a) \in Runs)
    BY TypeParts, ActTyped, About
  <1> USE <1>0 DEF Bare, svars, gvars, bare
  <1>1. ASSUME NEW a \in Actors, NEW b \in SUBSET Runs, bareCopy' = [bareCopy EXCEPT ![a] = b]
        PROVE  bareCopy' \in [Actors -> SUBSET Runs]
    BY <1>1
  <1>2. ASSUME NEW a \in Actors, NEW r, TakeCopy(a, r) PROVE bareCopy' \in [Actors -> SUBSET Runs]
    BY <1>1, <1>2 DEF TakeCopy
  <1>3. ASSUME NEW c \in Clients, \/ \E k \in Keys \cup {NoKey} : SubmitCheck(c, k)
                                  \/ \E r \in Runs : Get(c, r)
                                  \/ (ClientStep(c) /\ ~SubmitRemember(c) /\ ~RollbackForget(c) /\ ~RollbackDelete(c)
                                      /\ ~ListRuns(c) /\ ~\E r \in Runs : GetLookup(c, r))
        PROVE  Bare'
    BY <1>3 DEF SubmitCheck, Get, ClientStep, SubmitInvalid, SubmitReject, RememberRejected, SubmitAccept, SubmitJob,
         SubmitPublish, EnqueueCheck, EnqueueSend, RollbackJob, ReadNext
  <1>4. ASSUME NEW c \in Clients, NEW r \in Runs, Cancel(c, r) PROVE Bare'
    BY <1>2, <1>4 DEF Cancel, CancelWaiting, CancelStarted, Actors
  <1>5. ASSUME NEW c \in Clients, List(c) \/ ListRuns(c) \/ \E r \in Runs : GetLookup(c, r) PROVE Bare'
    <2>1. bareCopy[c] \subseteq Runs
      BY DEF Actors
    <2>2. PICK b \in SUBSET Runs : bareCopy' = [bareCopy EXCEPT ![c] = b]
      BY <1>5, <2>1 DEF List, ListRuns, GetLookup
    <2> QED
      BY <1>1, <1>5, <2>2 DEF List, ListRuns, GetLookup, Actors
  <1>6. ASSUME NEW c \in Clients, SubmitRemember(c) \/ RollbackForget(c) \/ RollbackDelete(c) PROVE Bare'
    <2>1. bareMetas' \subseteq Runs
      BY <1>6 DEF SubmitRemember, RememberMeta, RollbackForget, RollbackDelete
    <2>2. bareRecords' \subseteq Runs /\ bareCopy' = bareCopy
      BY <1>6 DEF SubmitRemember, RollbackForget, RollbackDelete
    <2> QED
      BY <2>1, <2>2
  <1>7. ASSUME NEW w \in Workers, WorkerStep(w) PROVE Bare'
    <2>1. UNCHANGED <<bareMetas, bareRecords>> /\ (bareCopy' = bareCopy \/ TakeCopy(w, cur(w)))
      BY <1>7 DEF WorkerStep, Dequeue, WorkerExit, ProcessJob, CreateCanceled, StartPublish, CreateRun, BeginRun,
         TrackerWrite, Execute, Settle
    <2> QED
      BY <1>2, <2>1 DEF Actors
  <1>8. ASSUME NEW a \in Actors, PersistMetaAsync(a) PROVE Bare'
    <2>1. cur(a) \in Runs
      BY <1>8 DEF PersistMetaAsync, Remember, Upsert, Step, Free, Scanning
    <2>2. ASSUME NEW from, NEW to, Remember(a, from, to) PROVE Bare'
      BY <2>1, <2>2 DEF Remember, RememberMeta
    <2>3. ASSUME NEW from, NEW to, Upsert(a, from, to) PROVE Bare'
      BY <1>1, <2>1, <2>3 DEF Upsert, UpsertRecord
    <2> QED
      BY <1>8, <2>2, <2>3 DEF PersistMetaAsync
  <1>9. ASSUME NEW a \in Actors, NotifyOpsManualRunRecord(a) \/ FinishPublish(a) PROVE Bare'
    BY <1>9 DEF NotifyOpsManualRunRecord, MarkNotified, RecordRun, FinishPublish
  <1>10. CASE Stop
    BY <1>10 DEF Stop
  <1>11. CASE Close \/ UNCHANGED vars
    BY <1>11 DEF Close, vars
  <1>12. CASE Restart
    BY <1>12 DEF Restart
  <1> QED
    BY <1>3, <1>4, <1>5, <1>6, <1>7, <1>8, <1>9, <1>10, <1>11, <1>12 DEF Next, ClientStep, EndStep, Exit, Crash

LEMMA TypesKept ==
  ASSUME TypeOK, Shape, Tellers, [Next]_vars
  PROVE  TypeOK'
  <1>1. (act \in [Actors -> ActType] /\ bounds \in BoundsType /\ Memory /\ Files /\ Bare)'
    BY ActsKept, BoundsKept, MemoryKept, FilesKept, BareKept DEF ActType, BoundsType
  <1> QED
    BY <1>1 DEF TypeOK, ActType, BoundsType, Memory, Files, Bare

-----------------------------------------------------------------------------
(* The kinds of steps, told apart by what they do to an actor and to its   *)
(* run.                                                                    *)

Others(a) == \A b \in Actors : b # a => act'[b] = act[b]

Becomes(a, p, r, s) == Others(a) /\ act'[a].pc = p /\ act'[a].run = r /\ act'[a].status = s

(* What most steps leave alone.                                            *)
Still == UNCHANGED <<serving, queue, runStore, rolledBack, lastRun>>

Marks == UNCHANGED <<jobs, preCanceled>>

Stays ==
  /\ UNCHANGED <<act, listed, queue, runStore, rolledBack, lastRun>> /\ Marks
  /\ serving' = serving \/ (serving = "up" /\ serving' = "closing")

(* The next point of the same part of a call.                              *)
Along(p, q) ==
  \/ p \in Early /\ q \in Early
  \/ p \in Mid /\ q \in Mid
  \/ p \in Undo /\ q \in Undo
  \/ p \in Rej /\ q \in Rej
  \/ p \in Begun /\ q \in Begun /\ (p = "create" => q = "create")
  \/ p \in End /\ q \in End
  \/ p \in {"readRemember", "readUpsert"} /\ q \in {"readUpsert", "reading"}
  \/ p \in Free /\ q \in Free

Passes(a) ==
  /\ Alive /\ Still /\ Marks /\ listed' = listed
  /\ Others(a) /\ act'[a].run = cur(a) /\ act'[a].status = loc(a)
  /\ Along(pc(a), act'[a].pc)
  /\ act'[a].pc \in Telling => /\ pc(a) \in {"notify", "rejNotify"} /\ told' = told
                              /\ IsTerminalRunStatus(loc(a)) /\ cur(a) \notin sinkNotified
                              /\ sinkNotified' = sinkNotified \cup {cur(a)}
  /\ act'[a].pc = "rbDelete" => metas'[cur(a)] = "none"
  /\ a \in Clients => act'[a].pc \in ClientPc
  /\ a \in Workers => act'[a].pc \in WorkerPc

Leaves(a) ==
  /\ Alive /\ Still /\ Marks /\ listed' = listed
  /\ Others(a) /\ act'[a] = Idle
  /\ \/ pc(a) \in {"loading"} \cup Rej \cup End
     \/ a \in Clients /\ pc(a) = "reading" /\ \A r \in Runs : listed[a][r] = "none"
     \/ a \in Workers /\ pc(a) = "claimed" /\ jobs[cur(a)] = "absent"
     \/ a \in Clients /\ pc(a) = "subSend" /\ serving = "closing"

Reads(c) ==
  /\ Alive /\ Still /\ Marks
  /\ \/ pc(c) = "idle" /\ act'[c].pc \in {"getting", "listing"}
     \/ pc(c) = "listing" /\ act'[c].pc = "reading"
  /\ Becomes(c, act'[c].pc, NoRun, loc(c))
  /\ \A r \in Runs : listed'[c][r] \in {"none", runStore[r]}
  /\ \A d \in Clients : d # c => listed'[d] = listed[d]

ReadsOne(c, r) ==
  /\ Alive /\ Still /\ Marks
  /\ listed[c][r] # "none" /\ pc(c) \in {"getting", "reading"}
  /\ Becomes(c, "readRemember", r, listed[c][r])
  /\ \A q \in Runs : listed'[c][q] \in {"none", listed[c][q]}
  /\ \A d \in Clients : d # c => listed'[d] = listed[d]

Begins(c, r) ==
  /\ Alive /\ Marks /\ UNCHANGED <<serving, queue, runStore, rolledBack, listed>>
  /\ r = lastRun + 1 /\ lastRun' = r
  /\ pc(c) = "loading"
  /\ Becomes(c, "rejRemember", r, "failed") \/ Becomes(c, "subRemember", r, "queued")

Readies(c) ==
  /\ Alive /\ Still /\ UNCHANGED <<preCanceled, listed>>
  /\ pc(c) = "subJob" /\ Becomes(c, "subPublish", cur(c), loc(c))
  /\ jobs' = [jobs EXCEPT ![cur(c)] = "waiting"]

Sends(c) ==
  /\ Alive /\ Marks /\ UNCHANGED <<serving, runStore, rolledBack, lastRun, listed>>
  /\ pc(c) = "subSend" /\ Others(c) /\ act'[c] = Idle
  /\ queue' = Append(queue, cur(c))

Withdraws(c) ==
  /\ Alive /\ Still /\ UNCHANGED <<preCanceled, listed>>
  /\ pc(c) = "rbJob" /\ Becomes(c, "rbForget", cur(c), loc(c))
  /\ jobs' = [jobs EXCEPT ![cur(c)] = "absent"]

Undoes(c) ==
  /\ Alive /\ Marks /\ UNCHANGED <<serving, queue, runStore, lastRun, listed>>
  /\ pc(c) = "rbDelete" /\ Others(c) /\ act'[c] = Idle
  /\ rolledBack' = rolledBack \cup {cur(c)}
  /\ metas' = metas /\ (records'[cur(c)] = "none" \/ Fault)

Cancels(c, r) ==
  /\ Alive /\ Still /\ listed' = listed
  /\ pc(c) = "idle" /\ Becomes(c, "endRemember", r, "canceled")
  /\ jobs[r] \in {"waiting", "canceled"} /\ jobs' = [jobs EXCEPT ![r] = "canceled"]
  /\ preCanceled' = preCanceled \cup {r}

Takes(w) ==
  /\ Alive /\ Marks /\ UNCHANGED <<serving, runStore, rolledBack, lastRun, listed>>
  /\ queue # <<>> /\ queue' = Tail(queue)
  /\ pc(w) = "idle" /\ Becomes(w, "claimed", Head(queue), "none")

Decides(w) ==
  /\ Alive /\ Still /\ UNCHANGED <<preCanceled, listed>>
  /\ pc(w) = "claimed"
  /\ \/ /\ jobs[cur(w)] = "canceled" /\ jobs' = [jobs EXCEPT ![cur(w)] = "absent"]
        /\ Becomes(w, "createCanceled", cur(w), "canceled")
     \/ /\ jobs[cur(w)] = "waiting" /\ jobs' = [jobs EXCEPT ![cur(w)] = "started"]
        /\ Becomes(w, "startRemember", cur(w), "running")

(* A run state of run cur(w) becomes s, or the write fails and s is any.   *)
Writes(w, s) ==
  /\ Alive /\ Marks /\ UNCHANGED <<serving, queue, rolledBack, lastRun, listed>>
  /\ \/ runStore' = [runStore EXCEPT ![cur(w)] = s]
     \/ Fault /\ runStore' = runStore

Cancelled(w) ==
  /\ \E s \in RunStatus : (s = runStore[cur(w)] \/ s = "canceled") /\ Writes(w, s)
  /\ pc(w) = "createCanceled" /\ Becomes(w, "endRemember", cur(w), loc(w))

Creates(w) ==
  /\ pc(w) = "create" /\ runStore[cur(w)] = "none" /\ Writes(w, "queued")
  /\ Becomes(w, "begin", cur(w), loc(w)) \/ Becomes(w, "settle", cur(w), "")

Enters(w) ==
  /\ pc(w) = "begin" /\ ValidateRunTransition(runStore[cur(w)], "running") /\ Writes(w, "running")
  /\ Becomes(w, "exec", cur(w), loc(w)) \/ Becomes(w, "settle", cur(w), "")

Ends(w, s) ==
  /\ pc(w) = "exec" /\ s \in RunStatus /\ Becomes(w, "settle", cur(w), s)
  /\ \/ ValidateRunTransition(runStore[cur(w)], s) /\ Writes(w, s) /\ runStore' = [runStore EXCEPT ![cur(w)] = s]
     \/ Fault /\ Writes(w, s) /\ runStore' = runStore

Settles(w) ==
  /\ Alive /\ Still /\ UNCHANGED <<preCanceled, listed>>
  /\ pc(w) = "settle" /\ Becomes(w, "endRemember", cur(w), loc(w))
  /\ jobs' = [jobs EXCEPT ![cur(w)] = "absent"]

Stops ==
  /\ serving' = "down" /\ act' = [a \in Actors |-> Idle] /\ queue' = <<>>
  /\ \A r \in Runs : jobs'[r] = "absent"
  /\ \A c \in Clients, r \in Runs : listed'[c][r] = "none"
  /\ UNCHANGED <<runStore, preCanceled, rolledBack, lastRun>>

Restarts ==
  /\ serving = "down" /\ serving' = "up"
  /\ Marks /\ UNCHANGED <<act, queue, rolledBack, lastRun, listed>>
  /\ \A r \in Runs : runStore'[r] = MarkInterrupted(runStore[r])

Kind ==
  \/ Stays \/ Stops \/ Restarts
  \/ \E a \in Actors : Passes(a) \/ Leaves(a)
  \/ \E c \in Clients : \/ Reads(c) \/ Readies(c) \/ Sends(c) \/ Withdraws(c) \/ Undoes(c)
                        \/ \E r \in Runs : ReadsOne(c, r) \/ Begins(c, r) \/ Cancels(c, r)
  \/ \E w \in Workers : \/ Takes(w) \/ Decides(w) \/ Cancelled(w) \/ Creates(w) \/ Enters(w) \/ Settles(w)
                        \/ \E s \in RunStatus : Ends(w, s)

LEMMA Goes ==
  ASSUME TypeOK, NEW a \in Actors, NEW to, NEW r, NEW s, Move(a, to, r, s)
  PROVE  /\ to # "idle" => Becomes(a, to, r, s)
         /\ to = "idle" => act'[a] = Idle
         /\ Others(a)
  BY DEF TypeOK, Move, Becomes, Others

LEMMA Onwards ==
  ASSUME TypeOK, NEW a \in Actors, NEW from, NEW to, Step(a, from, to)
  PROVE  /\ pc(a) = from
         /\ to # "idle" => Becomes(a, to, cur(a), loc(a))
         /\ to = "idle" => act'[a] = Idle
         /\ Others(a)
  BY Goes DEF Step

LEMMA SubmitKinds ==
  ASSUME TypeOK, Shape, NEW c \in Clients,
         (\E k \in Keys \cup {NoKey} : SubmitCheck(c, k)) \/ SubmitInvalid(c) \/ SubmitReject(c) \/ RememberRejected(c)
         \/ SubmitAccept(c) \/ SubmitRemember(c) \/ SubmitJob(c) \/ SubmitPublish(c)
  PROVE  Kind
  <1> USE DEF svars, gvars, Still, Marks
  <1>0. c \in Actors /\ c \notin Workers
    BY ServiceConstants DEF Actors
  <1>1. ASSUME NEW k \in Keys \cup {NoKey}, SubmitCheck(c, k) PROVE Stays \/ Passes(c)
    <2>1. CASE Step(c, "idle", "loading")
      BY <1>0, <1>1, <2>1, Onwards DEF SubmitCheck, Passes, Along, Becomes, Free, Scanning, ClientPc, Alive, Telling
    <2>2. CASE act' = act
      BY <1>1, <2>2 DEF SubmitCheck, Stays
    <2> QED
      BY <1>1, <2>1, <2>2 DEF SubmitCheck
  <1>2. CASE SubmitInvalid(c)
    BY <1>0, <1>2, Onwards DEF SubmitInvalid, Kind, Leaves
  <1>3. ASSUME NEW p, NEW s, NewRun(c, p, s), p # "idle"
        PROVE  lastRun + 1 \in Runs /\ lastRun' = lastRun + 1 /\ pc(c) = "loading" /\ Becomes(c, p, lastRun + 1, s)
    BY <1>0, <1>3, Goes, Numbered DEF NewRun
  <1>4. SubmitReject(c) => lastRun + 1 \in Runs /\ Begins(c, lastRun + 1)
    BY <1>3 DEF SubmitReject, Begins
  <1>5. SubmitAccept(c) /\ ~NewRun(c, "subRemember", "queued") => Leaves(c)
    BY <1>0, Onwards DEF SubmitAccept, Leaves
  <1>6. SubmitAccept(c) /\ NewRun(c, "subRemember", "queued") => lastRun + 1 \in Runs /\ Begins(c, lastRun + 1)
    BY <1>3 DEF SubmitAccept, Begins
  <1>7. CASE RememberRejected(c) \/ SubmitRemember(c) \/ SubmitPublish(c)
    <2>1. Passes(c)
      BY <1>0, <1>7, Onwards DEF RememberRejected, SubmitRemember, SubmitPublish, Passes, Along, Becomes, Early, Mid, Rej,
           ClientPc, RememberMeta, Telling
    <2> QED
      BY <1>0, <2>1 DEF Kind
  <1>8. SubmitJob(c) => Readies(c)
    BY <1>0, Onwards DEF SubmitJob, Readies
  <1> HIDE DEF svars, gvars, Still, Marks
  <1> QED
    BY <1>0, <1>1, <1>2, <1>4, <1>5, <1>6, <1>7, <1>8 DEF Kind

LEMMA EnqueueKinds ==
  ASSUME TypeOK, Shape, NEW c \in Clients,
         EnqueueCheck(c) \/ EnqueueSend(c) \/ RollbackJob(c) \/ RollbackForget(c) \/ RollbackDelete(c)
  PROVE  Kind
  <1> USE DEF svars, gvars, Still, Marks
  <1>0. c \in Actors /\ c \notin Workers
    BY ServiceConstants DEF Actors
  <1>1. EnqueueCheck(c) \/ RollbackForget(c) => Passes(c)
    <2>1. EnqueueCheck(c) => Passes(c)
      BY <1>0, Onwards DEF EnqueueCheck, Passes, Along, Becomes, Mid, ClientPc, Telling
    <2>2. ASSUME RollbackForget(c) PROVE Passes(c)
      <3>1. cur(c) \in Runs /\ metas \in [Runs -> MetaStatus]
        BY <1>0, <2>2, About DEF RollbackForget, Step, Free, Scanning, TypeOK
      <3>2. metas'[cur(c)] = "none"
        BY <2>2, <3>1 DEF RollbackForget
      <3> QED
        BY <1>0, <2>2, <3>2, Onwards DEF RollbackForget, Passes, Along, Becomes, Undo, ClientPc, Telling
    <2> QED
      BY <2>1, <2>2
  <1>2. CASE EnqueueSend(c)
    <2>0. /\ Alive /\ Marks /\ UNCHANGED <<serving, runStore, rolledBack, lastRun, listed>>
          /\ \/ Step(c, "subSend", "rbJob") /\ queue' = queue
             \/ Step(c, "subSend", "idle") /\ serving = "closing" /\ queue' = queue
             \/ Step(c, "subSend", "idle") /\ queue' = Append(queue, cur(c))
      BY <1>2 DEF EnqueueSend
    <2>1. CASE Step(c, "subSend", "rbJob") /\ queue' = queue
      <3>1. Passes(c)
        BY <1>0, <2>0, <2>1, Onwards DEF Passes, Along, Becomes, Mid, ClientPc, Telling
      <3> QED
        BY <1>0, <3>1 DEF Kind
    <2>2. CASE Step(c, "subSend", "idle") /\ serving = "closing" /\ queue' = queue
      <3>1. Leaves(c)
        BY <1>0, <2>0, <2>2, Onwards DEF Leaves
      <3> QED
        BY <1>0, <3>1 DEF Kind
    <2>3. CASE Step(c, "subSend", "idle") /\ queue' = Append(queue, cur(c))
      <3>1. Sends(c)
        BY <1>0, <2>0, <2>3, Onwards DEF Sends
      <3> QED
        BY <3>1 DEF Kind
    <2> QED
      BY <2>0, <2>1, <2>2, <2>3
  <1>3. RollbackJob(c) => Withdraws(c)
    BY <1>0, Onwards DEF RollbackJob, Withdraws
  <1>4. ASSUME RollbackDelete(c) PROVE Undoes(c)
    <2>1. cur(c) \in Runs /\ records \in [Runs -> MetaStatus]
      BY <1>0, <1>4, About DEF RollbackDelete, Step, Free, Scanning, TypeOK
    <2>2. records'[cur(c)] = "none" \/ Fault
      BY <1>4, <2>1 DEF RollbackDelete
    <2> QED
      BY <1>0, <1>4, <2>2, Onwards DEF RollbackDelete, Undoes
  <1> HIDE DEF svars, gvars, Still, Marks
  <1> QED
    BY <1>0, <1>1, <1>2, <1>3, <1>4 DEF Kind

LEMMA CallKinds ==
  ASSUME TypeOK, Shape, NEW c \in Clients,
         (\E r \in Runs : Get(c, r) \/ GetLookup(c, r) \/ Cancel(c, r)) \/ List(c) \/ ListRuns(c) \/ ReadNext(c)
  PROVE  Kind
  <1> USE DEF svars, gvars, Still, Marks
  <1>0. c \in Actors /\ c \notin Workers
    BY ServiceConstants DEF Actors
  <1>1. listed \in [Clients -> [Runs -> RunStatus \cup {"none"}]]
    BY DEF TypeOK
  <1>2. pc(c) = "idle" => cur(c) = NoRun
    BY <1>0, About DEF Free, Scanning
  <1>3. ASSUME NEW r \in Runs, Get(c, r) PROVE Reads(c)
    <2>1. Becomes(c, "getting", NoRun, loc(c)) /\ pc(c) = "idle" /\ Alive
      BY <1>0, <1>2, <1>3, Onwards DEF Get, Alive
    <2>2. listed' = [listed EXCEPT ![c] = [NothingListed EXCEPT ![r] = runStore[r]]]
      BY <1>3 DEF Get
    <2>3. listed'[c] = [NothingListed EXCEPT ![r] = runStore[r]] /\ \A d \in Clients : d # c => listed'[d] = listed[d]
      BY <1>1, <2>2
    <2>4. \A q \in Runs : listed'[c][q] \in {"none", runStore[q]}
      BY <2>3 DEF NothingListed
    <2> QED
      BY <1>3, <2>1, <2>3, <2>4 DEF Get, Reads, Becomes
  <1>4. ASSUME List(c) PROVE Reads(c)
    <2>1. Becomes(c, "listing", NoRun, loc(c)) /\ pc(c) = "idle" /\ Alive
      BY <1>0, <1>2, <1>4, Onwards DEF List, Alive
    <2>2. \A q \in Runs : listed[c][q] = "none"
      BY <2>1 DEF Shape, Read
    <2> QED
      BY <1>4, <2>1, <2>2 DEF List, Reads, Becomes
  <1>7. ASSUME ListRuns(c) PROVE Reads(c)
    <2>1. Becomes(c, "reading", NoRun, loc(c)) /\ pc(c) = "listing" /\ Alive
      BY <1>0, <1>7, Onwards DEF ListRuns, Alive, Shape
    <2>2. listed'[c] = runStore /\ \A d \in Clients : d # c => listed'[d] = listed[d]
      BY <1>1, <1>7 DEF ListRuns
    <2>3. \A q \in Runs : listed'[c][q] \in {"none", runStore[q]}
      BY <2>2
    <2> QED
      BY <1>7, <2>1, <2>2, <2>3 DEF ListRuns, Reads, Becomes
  <1>8. ASSUME NEW r \in Runs, GetLookup(c, r) PROVE ReadsOne(c, r)
    <2>1. Becomes(c, "readRemember", r, listed[c][r]) /\ pc(c) = "getting" /\ Alive
      BY <1>0, <1>8, Goes DEF GetLookup
    <2>2. listed'[c] = NothingListed /\ \A d \in Clients : d # c => listed'[d] = listed[d]
      BY <1>1, <1>8 DEF GetLookup
    <2> QED
      BY <1>8, <2>1, <2>2 DEF GetLookup, ReadsOne, NothingListed
  <1>5. ASSUME NEW r \in Runs, Cancel(c, r) PROVE Stays \/ Cancels(c, r)
    <2>1. CASE CancelStarted(c, r)
      BY <1>5, <2>1 DEF Cancel, CancelStarted, Stays
    <2>2. CASE CancelWaiting(c, r)
      BY <1>0, <1>5, <2>2, Goes DEF Cancel, CancelWaiting, Cancels, Alive
    <2> QED
      BY <1>5, <2>1, <2>2 DEF Cancel
  <1>6. ASSUME ReadNext(c) PROVE Leaves(c) \/ \E r \in Runs : ReadsOne(c, r)
    <2>1. CASE listed[c] = NothingListed /\ Step(c, "reading", "idle") /\ UNCHANGED listed
      BY <1>0, <1>6, <2>1, Onwards DEF ReadNext, Leaves, NothingListed
    <2>2. ASSUME NEW r \in Runs, listed[c][r] # "none", pc(c) = "reading", Move(c, "readRemember", r, listed[c][r]),
                 listed' = [listed EXCEPT ![c] = [listed[c] EXCEPT ![r] = "none"]]
          PROVE  ReadsOne(c, r)
      <3>1. listed'[c] = [listed[c] EXCEPT ![r] = "none"] /\ \A d \in Clients : d # c => listed'[d] = listed[d]
        BY <1>1, <2>2
      <3>2. \A q \in Runs : listed'[c][q] \in {"none", listed[c][q]}
        BY <1>1, <3>1
      <3> QED
        BY <1>0, <1>6, <2>2, <3>1, <3>2, Goes DEF ReadNext, ReadsOne
    <2> QED
      BY <1>6, <2>1, <2>2 DEF ReadNext
  <1> HIDE DEF svars, gvars, Still, Marks
  <1> QED
    BY <1>0, <1>3, <1>4, <1>5, <1>6, <1>7, <1>8 DEF Kind

LEMMA WorkerKinds ==
  ASSUME TypeOK, Shape, NEW w \in Workers, WorkerStep(w)
  PROVE  Kind
  <1> USE DEF svars, gvars, Still, Marks
  <1>0. w \in Actors /\ w \notin Clients
    BY ServiceConstants DEF Actors
  <1>1. Dequeue(w) => Takes(w)
    BY <1>0, Goes DEF Dequeue, Takes
  <1>2. WorkerExit(w) \/ StartPublish(w) => Passes(w)
    BY <1>0, Onwards DEF WorkerExit, StartPublish, Passes, Along, Becomes, Free, Scanning, Begun, WorkerPc, Alive, Telling
  <1>3. ProcessJob(w) => Leaves(w) \/ Decides(w)
    BY <1>0, Goes DEF ProcessJob, Leaves, Decides
  <1>4. ASSUME CreateCanceled(w) PROVE Cancelled(w)
    <2>1. cur(w) \in Runs /\ runStore \in [Runs -> RunStatus \cup {"none"}]
      BY <1>0, <1>4, About DEF CreateCanceled, Step, Free, Scanning, TypeOK
    <2>2. runStore[cur(w)] # "none" => runStore = [runStore EXCEPT ![cur(w)] = runStore[cur(w)]] /\ runStore[cur(w)] \in RunStatus
      BY <2>1
    <2>3. pc(w) = "createCanceled" /\ Becomes(w, "endRemember", cur(w), loc(w))
      BY <1>0, <1>4, Onwards DEF CreateCanceled
    <2>4. \E s \in RunStatus : (s = runStore[cur(w)] \/ s = "canceled") /\ Writes(w, s)
      BY <1>4, <2>2 DEF CreateCanceled, Writes, RunStatus
    <2> QED
      BY <2>3, <2>4 DEF Cancelled
  <1>5. CreateRun(w) => Creates(w)
    BY <1>0, Onwards, Goes DEF CreateRun, TrackerWrite, Creates, Writes
  <1>6. BeginRun(w) => Enters(w)
    BY <1>0, Onwards, Goes DEF BeginRun, TrackerWrite, Enters, Writes
  <1>7. Execute(w) => \E s \in RunStatus : Ends(w, s)
    BY <1>0, Goes DEF Execute, Ends, Writes, RunStatus
  <1>8. Settle(w) => Settles(w)
    BY <1>0, Onwards DEF Settle, Settles
  <1> HIDE DEF svars, gvars, Still, Marks
  <1> QED
    BY <1>0, <1>1, <1>2, <1>3, <1>4, <1>5, <1>6, <1>7, <1>8 DEF Kind, WorkerStep

LEMMA EndKinds ==
  ASSUME TypeOK, Shape, NEW a \in Actors, EndStep(a)
  PROVE  Kind
  <1> USE DEF svars, gvars, Still, Marks
  <1>0. (a \in Clients => pc(a) \in ClientPc) /\ (a \in Workers => pc(a) \in WorkerPc)
    BY About
  <1>1. PersistMetaAsync(a) => Passes(a)
    BY <1>0, Onwards DEF PersistMetaAsync, Remember, Upsert, RememberMeta, Passes, Along, Becomes, Begun, End, Read, Telling,
         ClientPc, WorkerPc
  <1>2. ASSUME NEW from, NEW to, NEW skip, MarkNotified(a, from, to, skip),
               (from = "notify" /\ to = "record" /\ skip = "finishPublish") \/ (from = "rejNotify" /\ to = "rejRecord" /\ skip = "idle")
        PROVE  Passes(a) \/ Leaves(a)
    <2>1. /\ Alive /\ Still /\ Marks /\ listed' = listed /\ told' = told /\ pc(a) = from
          /\ \/ /\ Step(a, from, to) /\ IsTerminalRunStatus(loc(a)) /\ cur(a) \notin sinkNotified
                /\ sinkNotified' = sinkNotified \cup {cur(a)}
             \/ Step(a, from, skip)
      BY <1>2 DEF MarkNotified, Step
    <2> HIDE DEF svars, gvars, Still, Marks
    <2>2. CASE Step(a, from, skip) /\ skip = "idle"
      BY <1>2, <2>1, <2>2, Onwards DEF Leaves, Rej
    <2>3. CASE Step(a, from, skip) /\ skip = "finishPublish"
      <3>1. Becomes(a, "finishPublish", cur(a), loc(a)) /\ pc(a) = "notify"
        BY <1>2, <2>1, <2>3, Onwards
      <3> QED
        BY <1>0, <2>1, <3>1 DEF Passes, Becomes, Telling, Along, End, ClientPc, WorkerPc
    <2>4. CASE /\ Step(a, from, to) /\ IsTerminalRunStatus(loc(a)) /\ cur(a) \notin sinkNotified
               /\ sinkNotified' = sinkNotified \cup {cur(a)}
      <3>1. \/ Becomes(a, "record", cur(a), loc(a)) /\ pc(a) = "notify"
            \/ Becomes(a, "rejRecord", cur(a), loc(a)) /\ pc(a) = "rejNotify"
        BY <1>2, <2>1, <2>4, Onwards
      <3> QED
        BY <1>0, <2>1, <2>4, <3>1 DEF Passes, Becomes, Telling, Along, End, Rej, ClientPc, WorkerPc
    <2> QED
      BY <1>2, <2>1, <2>2, <2>3, <2>4
  <1>3. RecordRun(a, "record", "finishPublish") => Passes(a)
    BY <1>0, Onwards DEF RecordRun, Passes, Along, Becomes, End, Telling, ClientPc, WorkerPc
  <1>4. RecordRun(a, "rejRecord", "idle") \/ FinishPublish(a) => Leaves(a)
    BY Onwards DEF RecordRun, FinishPublish, Leaves, Rej, End
  <1> HIDE DEF svars, gvars, Still, Marks
  <1> QED
    BY <1>1, <1>2, <1>3, <1>4 DEF Kind, EndStep, NotifyOpsManualRunRecord

LEMMA Kinds ==
  ASSUME TypeOK, Shape, [Next]_vars
  PROVE  Kind
  <1>1. Close \/ UNCHANGED vars => Stays
    BY DEF Close, vars, svars, gvars, Stays, Marks
  <1>2. Exit \/ Crash => Stops
    BY DEF Exit, Crash, Stop, Stops, gvars, NothingListed
  <1>3. Restart => Restarts
    BY DEF Restart, Restarts, Marks, gvars
  <1> QED
    BY <1>1, <1>2, <1>3, SubmitKinds, EnqueueKinds, CallKinds, WorkerKinds, EndKinds DEF Next, ClientStep, Kind

-----------------------------------------------------------------------------
(* Where the actors are and who holds a run.                               *)

LEMMA ShapeKept ==
  ASSUME TypeOK, Shape, Kind
  PROVE  Shape'
  <1> USE DEF Shape, pc, cur, loc, Others, Becomes
  <1>0. /\ \A c \in Clients : c \in Actors /\ c \notin Workers
        /\ \A w \in Workers : w \in Actors /\ w \notin Clients
        /\ \A a \in Actors : a \in Clients \/ a \in Workers
        /\ NoRun \notin Runs
    BY ServiceConstants DEF Actors, Runs, NoRun
  <1>1. CASE Stays
    BY <1>1 DEF Stays, Marks
  <1>2. CASE Stops
    BY <1>2, <1>0 DEF Stops, Idle, Free, Scanning, ClientPc, WorkerPc, Read
  <1>3. CASE Restarts
    BY <1>3 DEF Restarts, Marks
  <1>4. ASSUME NEW a \in Actors, Passes(a) PROVE Shape'
    BY <1>4, <1>0 DEF Passes, Along, Still, Marks, Alive, Free, Scanning, Early, Mid, Undo, Rej, Begun, End, Read
  <1>5. ASSUME NEW a \in Actors, Leaves(a) PROVE Shape'
    BY <1>5, <1>0 DEF Leaves, Still, Marks, Alive, Idle, Free, Scanning, Rej, End, Read, ClientPc, WorkerPc
  <1>6. ASSUME NEW c \in Clients, Reads(c) PROVE Shape'
    BY <1>6, <1>0 DEF Reads, Still, Marks, Alive, Free, Scanning, Read, ClientPc
  <1>7. ASSUME NEW c \in Clients, NEW r \in Runs, ReadsOne(c, r) PROVE Shape'
    BY <1>7, <1>0 DEF ReadsOne, Still, Marks, Alive, Free, Scanning, Read, ClientPc
  <1>8. ASSUME NEW c \in Clients, NEW r \in Runs, Begins(c, r) PROVE Shape'
    BY <1>8, <1>0 DEF Begins, Still, Marks, Alive, Free, Scanning, Read, ClientPc
  <1>9. ASSUME NEW c \in Clients, NEW r \in Runs, Cancels(c, r) PROVE Shape'
    BY <1>9, <1>0 DEF Cancels, Still, Marks, Alive, Free, Scanning, Read, ClientPc
  <1>10. ASSUME NEW c \in Clients, Readies(c) \/ Withdraws(c) PROVE Shape'
    BY <1>10, <1>0 DEF Readies, Withdraws, Still, Alive, Free, Scanning, Read, ClientPc
  <1>11. ASSUME NEW c \in Clients, Sends(c) \/ Undoes(c) PROVE Shape'
    BY <1>11, <1>0 DEF Sends, Undoes, Alive, Idle, Free, Scanning, Read, ClientPc
  <1>12. ASSUME NEW w \in Workers, Takes(w) PROVE Shape'
    <2>1. Head(queue) \in Runs
      BY <1>12, Heads DEF Takes
    <2> QED
      BY <1>12, <2>1, <1>0 DEF Takes, Marks, Alive, Free, Scanning, Read, WorkerPc
  <1>13. ASSUME NEW w \in Workers, Decides(w) \/ Settles(w) PROVE Shape'
    BY <1>13, <1>0 DEF Decides, Settles, Still, Alive, Free, Scanning, Read, WorkerPc
  <1>14. ASSUME NEW w \in Workers, Cancelled(w) \/ Creates(w) \/ Enters(w) \/ \E s \in RunStatus : Ends(w, s) PROVE Shape'
    <2>1. serving # "down" /\ UNCHANGED <<serving, queue, listed>> /\ Others(w)
      BY <1>14 DEF Cancelled, Creates, Enters, Ends, Writes, Alive
    <2>2. /\ act'[w].run = cur(w) /\ pc(w) \in {"createCanceled", "create", "begin", "exec"}
          /\ act'[w].pc \in {"endRemember", "begin", "exec", "settle"}
      BY <1>14 DEF Cancelled, Creates, Enters, Ends
    <2> QED
      BY <1>0, <2>1, <2>2 DEF Free, Scanning, Read, WorkerPc
  <1> HIDE DEF Shape, pc, cur, loc, Others, Becomes
  <1> QED
    BY <1>1, <1>2, <1>3, <1>4, <1>5, <1>6, <1>7, <1>8, <1>9, <1>10, <1>11, <1>12, <1>13, <1>14 DEF Kind

(* What the queue holds after a send and after a receive.                  *)
LEMMA AfterSend ==
  ASSUME TypeOK, NEW q \in Runs, queue' = Append(queue, q), NEW r \in Runs
  PROVE  Queued(r)' <=> (Queued(r) \/ r = q)
  <1>1. Len(queue') = Len(queue) + 1 /\ Len(queue) \in Nat /\ queue'[Len(queue) + 1] = q
        /\ \A i \in 1..Len(queue) : queue'[i] = queue[i]
    BY Appended
  <1> QED
    BY <1>1 DEF Queued

LEMMA AfterTake ==
  ASSUME TypeOK, queue # <<>>, queue' = Tail(queue), NEW r \in Runs
  PROVE  Queued(r) <=> (Queued(r)' \/ r = Head(queue))
  <1>1. Len(queue) \in Nat \ {0} /\ Len(queue') = Len(queue) - 1 /\ Head(queue) = queue[1]
        /\ \A i \in 1..Len(queue') : i + 1 \in 1..Len(queue) /\ queue'[i] = queue[i + 1]
    BY Heads
  <1>2. ASSUME NEW i \in 1..Len(queue), i # 1 PROVE i - 1 \in 1..Len(queue') /\ queue'[i - 1] = queue[i]
    <2>1. i - 1 \in 1..Len(queue') /\ (i - 1) + 1 = i
      BY <1>1, <1>2
    <2> QED
      BY <1>1, <2>1
  <1> QED
    BY <1>1, <1>2 DEF Queued

(* Runs change hands only in four kinds of steps.                          *)
LEMMA Holding ==
  ASSUME TypeOK, Shape, Kind
  PROVE  \/ Stops
         \/ \E c \in Clients, r \in Runs : Begins(c, r)
         \/ \E c \in Clients : Sends(c)
         \/ \E w \in Workers : Takes(w)
         \/ /\ queue' = queue /\ lastRun' = lastRun
            /\ \A b \in Actors, r \in Runs : Owns(b, r)' => Owns(b, r)
            /\ \A b \in Clients, r \in Runs : Owns(b, r)' /\ pc(b) \in Rej => pc(b)' \in Rej
  <1> USE DEF Owns, pc, cur, loc, Others, Becomes
  <1>0. /\ \A c \in Clients : c \in Actors /\ c \notin Workers
        /\ \A w \in Workers : w \in Actors /\ w \notin Clients
        /\ NoRun \notin Runs
    BY ServiceConstants DEF Actors, Runs, NoRun
  <1> DEFINE Same == /\ queue' = queue /\ lastRun' = lastRun
                     /\ \A b \in Actors, r \in Runs : Owns(b, r)' => Owns(b, r)
                     /\ \A b \in Clients, r \in Runs : Owns(b, r)' /\ pc(b) \in Rej => pc(b)' \in Rej
  <1>1. Stays \/ Restarts => Same
    BY DEF Stays, Restarts
  <1>2. ASSUME NEW a \in Actors, Passes(a) PROVE Same
    BY <1>2, <1>0 DEF Passes, Along, Still, Free, Scanning, Submitting, Early, Mid, Undo, Rej, Begun, End
  <1>3. ASSUME NEW a \in Actors, Leaves(a) PROVE Same
    BY <1>3, <1>0 DEF Leaves, Still, Idle
  <1>4. ASSUME NEW c \in Clients, Reads(c) \/ (\E r \in Runs : ReadsOne(c, r) \/ Cancels(c, r)) PROVE Same
    BY <1>4, <1>0 DEF Reads, ReadsOne, Cancels, Still, Submitting, Early, Mid, Undo, Rej
  <1>5. ASSUME NEW c \in Clients, Readies(c) \/ Withdraws(c) PROVE Same
    BY <1>5, <1>0 DEF Readies, Withdraws, Still, Submitting, Early, Mid, Undo, Rej
  <1>6. ASSUME NEW c \in Clients, Undoes(c) PROVE Same
    BY <1>6, <1>0 DEF Undoes, Idle, Rej
  <1>7. ASSUME NEW w \in Workers, Decides(w) \/ Settles(w) PROVE Same
    BY <1>7, <1>0 DEF Decides, Settles, Still
  <1>8. ASSUME NEW w \in Workers, Cancelled(w) \/ Creates(w) \/ Enters(w) \/ \E s \in RunStatus : Ends(w, s) PROVE Same
    BY <1>8, <1>0 DEF Cancelled, Creates, Enters, Ends, Writes
  <1> QED
    BY <1>1, <1>2, <1>3, <1>4, <1>5, <1>6, <1>7, <1>8 DEF Kind

LEMMA OneOwnerKept ==
  ASSUME TypeOK, Shape, OneOwner, Fresh, Kind
  PROVE  OneOwner'
  <1> USE DEF OneOwner, Owns, pc, cur, Others, Becomes
  <1>0. /\ \A c \in Clients : c \in Actors /\ c \notin Workers
        /\ \A w \in Workers : w \in Actors /\ w \notin Clients
        /\ NoRun \notin Runs
    BY ServiceConstants DEF Actors, Runs, NoRun
  <1>1. CASE queue' = queue /\ \A b \in Actors, r \in Runs : Owns(b, r)' => Owns(b, r)
    BY <1>1 DEF Queued
  <1>2. CASE Stops
    BY <1>0, <1>2 DEF Stops, Idle, Queued
  <1>3. ASSUME NEW c \in Clients, NEW r \in Runs, Begins(c, r) PROVE OneOwner'
    <2>1. NotYet(r)
      BY <1>3, Numbered DEF Begins, Fresh
    <2> QED
      BY <1>0, <1>3, <2>1 DEF Begins, NotYet, Queued
  <1>4. ASSUME NEW c \in Clients, Sends(c) PROVE OneOwner'
    <2>1. cur(c) \in Runs /\ Owns(c, cur(c)) /\ queue' = Append(queue, cur(c))
      BY <1>0, <1>4, About DEF Sends, Free, Scanning, Submitting, Mid
    <2>2. \A r \in Runs : Queued(r)' <=> (Queued(r) \/ r = cur(c))
      BY <2>1, AfterSend
    <2>3. \A b \in Actors, r \in Runs : Owns(b, r)' => Owns(b, r) /\ b # c
      BY <1>0, <1>4 DEF Sends, Idle
    <2>4. ASSUME NEW i \in 1..Len(queue'), NEW j \in 1..Len(queue'), queue'[i] = queue'[j] PROVE i = j
      <3>1. Len(queue') = Len(queue) + 1 /\ Len(queue) \in Nat /\ queue'[Len(queue) + 1] = cur(c)
            /\ \A k \in 1..Len(queue) : queue'[k] = queue[k]
        BY <2>1, Appended
      <3>2. \A k \in 1..Len(queue) : queue[k] # cur(c)
        BY <1>0, <2>1 DEF Queued
      <3> QED
        BY <2>4, <3>1, <3>2
    <2>5. \A a, b \in Actors : \A r \in Runs : Owns(a, r)' /\ Owns(b, r)' => a = b
      BY <2>3
    <2>6. \A a \in Actors, r \in Runs : Owns(a, r)' => ~Queued(r)'
      BY <1>0, <2>1, <2>2, <2>3
    <2> QED
      BY <2>4, <2>5, <2>6
  <1>5. ASSUME NEW w \in Workers, Takes(w) PROVE OneOwner'
    <2>0. PICK h \in Runs : h = Head(queue)
      BY <1>5, Heads DEF Takes
    <2>1. queue # <<>> /\ queue' = Tail(queue)
      BY <1>5 DEF Takes
    <2>2. \A r \in Runs : Queued(r) <=> (Queued(r)' \/ r = h)
      BY <2>0, <2>1, AfterTake
    <2>3. \A b \in Actors, r \in Runs : Owns(b, r)' => Owns(b, r) \/ (b = w /\ r = h)
      BY <1>0, <1>5, <2>0 DEF Takes
    <2>4. \A b \in Actors, r \in Runs : r # h /\ Owns(b, r)' => Owns(b, r)
      BY <2>3
    <2>5. \A b \in Actors : Owns(b, h)' => b = w
      BY <2>0, <2>1, <2>2, <2>3
    <2>6. ASSUME NEW i \in 1..Len(queue'), NEW j \in 1..Len(queue'), queue'[i] = queue'[j] PROVE i = j
      <3>1. /\ i + 1 \in 1..Len(queue) /\ queue'[i] = queue[i + 1]
            /\ j + 1 \in 1..Len(queue) /\ queue'[j] = queue[j + 1]
        BY <2>1, Heads
      <3>2. i + 1 = j + 1
        BY <2>6, <3>1
      <3> QED
        BY <3>2, <2>1, Heads
    <2>7. ~Queued(h)'
      <3>1. ASSUME NEW i \in 1..Len(queue') PROVE queue'[i] # h
        <4>1. i + 1 \in 1..Len(queue) /\ queue'[i] = queue[i + 1] /\ 1 \in 1..Len(queue) /\ h = queue[1]
          BY <2>0, <2>1, Heads
        <4>2. i + 1 # 1
          BY <4>1
        <4> QED
          BY <4>1, <4>2
      <3> QED
        BY <3>1 DEF Queued
    <2>8. \A a, b \in Actors : \A r \in Runs : Owns(a, r)' /\ Owns(b, r)' => a = b
      BY <2>4, <2>5
    <2>9. \A a \in Actors, r \in Runs : Owns(a, r)' => ~Queued(r)'
      BY <2>2, <2>4, <2>7
    <2> QED
      BY <2>6, <2>8, <2>9
  <1> QED
    BY <1>1, <1>2, <1>3, <1>4, <1>5, Holding

-----------------------------------------------------------------------------
(* What is said of a run and written about it.                             *)

LEMMA HistoryWritten ==
  ASSUME TypeOK, [Next]_vars, NEW r \in Runs
  PROVE  \/ history'[r] = history[r]
         \/ \E a \in Actors, t \in Events :
              /\ cur(a) = r /\ history'[r] = Append(history[r], t)
              /\ \/ t = "run_queued" /\ pc(a) = "subPublish"
                 \/ t = "run_start" /\ pc(a) = "startPublish"
                 \/ t = "run_finish" /\ pc(a) = "finishPublish"
  <1> USE DEF svars, gvars
  <1>0. \A c \in Clients : c \in Actors
    BY DEF Actors
  <1>1. ASSUME NEW a \in Actors, NEW t \in Events, PublishEvent(cur(a), t)
        PROVE  history'[r] = history[r] \/ (cur(a) = r /\ history'[r] = Append(history[r], t))
    BY <1>1, ActTyped, Published
  <1>2. ASSUME NEW c \in Clients, SubmitPublish(c)
        PROVE  pc(c) = "subPublish" /\ PublishEvent(cur(c), "run_queued") /\ "run_queued" \in Events
    BY <1>2 DEF SubmitPublish, Step, Events
  <1>3. ASSUME NEW w \in Workers, StartPublish(w)
        PROVE  pc(w) = "startPublish" /\ PublishEvent(cur(w), "run_start") /\ "run_start" \in Events /\ w \in Actors
    BY <1>3 DEF StartPublish, Step, Events, Actors
  <1>4. ASSUME NEW a \in Actors, FinishPublish(a)
        PROVE  pc(a) = "finishPublish" /\ PublishEvent(cur(a), "run_finish") /\ "run_finish" \in Events
    BY <1>4 DEF FinishPublish, Step, Events
  <1>5. ASSUME NEW c \in Clients, \/ \E k \in Keys \cup {NoKey} : SubmitCheck(c, k)
                                  \/ \E q \in Runs : Get(c, q) \/ Cancel(c, q)
                                  \/ List(c) \/ (ClientStep(c) /\ ~SubmitPublish(c))
        PROVE  history' = history
    BY <1>5 DEF SubmitCheck, Get, Cancel, List, ClientStep, SubmitInvalid, SubmitReject, RememberRejected, SubmitAccept,
         SubmitRemember, SubmitJob, EnqueueCheck, EnqueueSend, RollbackJob, RollbackForget, RollbackDelete, GetLookup, ListRuns, ReadNext
  <1>6. ASSUME NEW w \in Workers, WorkerStep(w), ~StartPublish(w) PROVE history' = history
    BY <1>6 DEF WorkerStep, Dequeue, WorkerExit, ProcessJob, CreateCanceled, CreateRun, BeginRun, TrackerWrite, Execute, Settle
  <1>7. ASSUME NEW a \in Actors, EndStep(a), ~FinishPublish(a) PROVE history' = history
    BY <1>7 DEF EndStep, PersistMetaAsync, Remember, Upsert, NotifyOpsManualRunRecord, MarkNotified, RecordRun
  <1>8. Close \/ Exit \/ Crash \/ Restart \/ UNCHANGED vars => history' = history
    BY DEF Close, Exit, Crash, Stop, Restart, vars
  <1> HIDE DEF svars, gvars
  <1> QED
    BY <1>0, <1>1, <1>2, <1>3, <1>4, <1>5, <1>6, <1>7, <1>8 DEF Next, ClientStep, WorkerStep, EndStep

LEMMA ToldWritten ==
  ASSUME TypeOK, Shape, [Next]_vars
  PROVE  \/ told' = told
         \/ \E a \in Actors :
              /\ pc(a) \in Telling /\ cur(a) \in Runs
              /\ told' = [told EXCEPT ![cur(a)] = Append(told[cur(a)], loc(a))]
              /\ sinkNotified' = sinkNotified /\ Others(a) /\ act'[a].pc \notin Telling
  <1> USE DEF svars, gvars
  <1>1. ASSUME NEW a \in Actors, EndStep(a), told' # told
        PROVE  /\ pc(a) \in Telling
               /\ told' = [told EXCEPT ![cur(a)] = Append(told[cur(a)], loc(a))]
               /\ sinkNotified' = sinkNotified
               /\ Step(a, "record", "finishPublish") \/ Step(a, "rejRecord", "idle")
    BY <1>1 DEF EndStep, PersistMetaAsync, Remember, Upsert, NotifyOpsManualRunRecord, MarkNotified, RecordRun, FinishPublish,
         Step, Telling
  <1>2. ASSUME NEW a \in Actors, EndStep(a), told' # told PROVE cur(a) \in Runs /\ Others(a) /\ act'[a].pc \notin Telling
    <2>1. cur(a) \in Runs
      BY <1>1, <1>2, About DEF Telling, Free, Scanning
    <2>2. Others(a) /\ (Becomes(a, "finishPublish", cur(a), loc(a)) \/ act'[a] = Idle)
      BY <1>1, <1>2, Onwards
    <2> QED
      BY <2>1, <2>2 DEF Becomes, Idle, Telling
  <1>3. ASSUME NEW c \in Clients, \/ \E k \in Keys \cup {NoKey} : SubmitCheck(c, k)
                                  \/ \E q \in Runs : Get(c, q) \/ Cancel(c, q)
                                  \/ List(c) \/ ClientStep(c)
        PROVE  told' = told
    BY <1>3 DEF SubmitCheck, Get, Cancel, List, ClientStep, SubmitInvalid, SubmitReject, RememberRejected, SubmitAccept,
         SubmitRemember, SubmitJob, SubmitPublish, EnqueueCheck, EnqueueSend, RollbackJob, RollbackForget, RollbackDelete, GetLookup, ListRuns, ReadNext
  <1>4. ASSUME NEW w \in Workers, WorkerStep(w) PROVE told' = told
    BY <1>4 DEF WorkerStep, Dequeue, WorkerExit, ProcessJob, CreateCanceled, StartPublish, CreateRun, BeginRun, TrackerWrite,
         Execute, Settle
  <1>5. Close \/ Exit \/ Crash \/ Restart \/ UNCHANGED vars => told' = told
    BY DEF Close, Exit, Crash, Stop, Restart, vars
  <1> HIDE DEF svars, gvars
  <1> QED
    BY <1>1, <1>2, <1>3, <1>4, <1>5 DEF Next

-----------------------------------------------------------------------------
(* A run without a number has no trace.                                    *)

LEMMA FreshKept ==
  ASSUME TypeOK, Shape, Fresh, [Next]_vars
  PROVE  Fresh'
  <1>0. /\ \A c \in Clients : c \in Actors
        /\ \A w \in Workers : w \in Actors
        /\ NoRun \notin Runs
    BY DEF Actors, Runs, NoRun
  <1>1. SUFFICES ASSUME NEW r \in Runs, r > lastRun' PROVE NotYet(r)'
    BY DEF Fresh
  <1>2. NotYet(r)
    <2>1. r \in Nat /\ lastRun \in Nat /\ (lastRun' = lastRun \/ lastRun' = lastRun + 1)
      <3>1. lastRun' = lastRun \/ lastRun' = lastRun + 1
        BY Kinds DEF Kind, Stays, Stops, Restarts, Passes, Leaves, Reads, ReadsOne, Begins, Readies, Sends, Withdraws, Undoes,
             Cancels, Takes, Decides, Cancelled, Creates, Enters, Ends, Writes, Settles, Still
      <3> QED
        BY <3>1, Numbered DEF Runs
    <2>2. r > lastRun
      BY <1>1, <2>1
    <2> QED
      BY <2>2 DEF Fresh
  <1>3. history'[r] = history[r]
    BY <1>2, HistoryWritten DEF NotYet
  <1>4. told'[r] = told[r]
    <2>1. told \in [Runs -> Seq(RunStatus)]
      BY DEF TypeOK
    <2> QED
      BY <1>2, <2>1, ToldWritten DEF NotYet
  <1>5. /\ jobs \in [Runs -> {"absent", "waiting", "canceled", "started"}]
        /\ runStore \in [Runs -> RunStatus \cup {"none"}]
    BY DEF TypeOK
  <1> DEFINE Trace == /\ \A a \in Actors : cur(a)' # r
                      /\ ~Queued(r)'
                      /\ \A c \in Clients : listed'[c][r] = "none"
                      /\ jobs'[r] = "absent" /\ runStore'[r] = "none"
                      /\ r \notin preCanceled' \cup rolledBack'
  <1>6. Trace
    <2> USE <1>2, <1>5 DEF NotYet, pc, cur, loc, Others, Becomes, Still, Marks
    <2>1. CASE Stays
      BY <2>1 DEF Stays, Queued
    <2>2. CASE Stops
      BY <1>0, <2>2 DEF Stops, Idle, Queued
    <2>3. CASE Restarts
      BY <2>3 DEF Restarts, Queued, MarkInterrupted
    <2>4. ASSUME NEW a \in Actors, Passes(a) PROVE Trace
      BY <2>4 DEF Passes, Queued
    <2>5. ASSUME NEW a \in Actors, Leaves(a) PROVE Trace
      BY <1>0, <2>5 DEF Leaves, Queued, Idle
    <2>6. ASSUME NEW c \in Clients, Reads(c) PROVE Trace
      BY <1>0, <2>6 DEF Reads, Queued
    <2>7. ASSUME NEW c \in Clients, NEW q \in Runs, ReadsOne(c, q) PROVE Trace
      BY <1>0, <2>7 DEF ReadsOne, Queued
    <2>8. ASSUME NEW c \in Clients, NEW q \in Runs, Begins(c, q) PROVE Trace
      <3>1. q # r
        BY <1>1, <2>8 DEF Begins, Runs
      <3> QED
        BY <1>0, <2>8, <3>1 DEF Begins, Queued
    <2>9. ASSUME NEW c \in Clients, NEW q \in Runs, Cancels(c, q) PROVE Trace
      BY <1>0, <2>9 DEF Cancels, Queued
    <2>10. ASSUME NEW c \in Clients, Readies(c) \/ Withdraws(c) PROVE Trace
      BY <1>0, <2>10 DEF Readies, Withdraws, Queued
    <2>11. ASSUME NEW c \in Clients, Undoes(c) PROVE Trace
      BY <1>0, <2>11 DEF Undoes, Queued, Idle
    <2>12. ASSUME NEW c \in Clients, Sends(c) PROVE Trace
      <3>1. PICK q \in Runs : q = cur(c)
        BY <1>0, <2>12, About DEF Sends, Free, Scanning
      <3>2. ~Queued(r)'
        BY <1>0, <2>12, <3>1, AfterSend DEF Sends
      <3> QED
        BY <1>0, <2>12, <3>2 DEF Sends, Idle
    <2>13. ASSUME NEW w \in Workers, Takes(w) PROVE Trace
      <3>1. queue # <<>> /\ queue' = Tail(queue)
        BY <2>13 DEF Takes
      <3>2. r # Head(queue) /\ ~Queued(r)'
        BY <3>1, AfterTake
      <3> QED
        BY <1>0, <2>13, <3>2 DEF Takes
    <2>14. ASSUME NEW w \in Workers, Decides(w) \/ Settles(w) PROVE Trace
      BY <1>0, <2>14 DEF Decides, Settles, Queued
    <2>15. ASSUME NEW w \in Workers, Cancelled(w) \/ Creates(w) \/ Enters(w) \/ \E s \in RunStatus : Ends(w, s) PROVE Trace
      <3>1. PICK s \in RunStatus : Writes(w, s)
        BY <2>15 DEF Cancelled, Creates, Enters, Ends, RunStatus
      <3>2. Others(w) /\ act'[w].run = cur(w)
        BY <2>15 DEF Cancelled, Creates, Enters, Ends
      <3> QED
        BY <1>0, <3>1, <3>2 DEF Writes, Queued
    <2> QED
      BY <2>1, <2>2, <2>3, <2>4, <2>5, <2>6, <2>7, <2>8, <2>9, <2>10, <2>11, <2>12, <2>13, <2>14, <2>15, Kinds DEF Kind
  <1> QED
    BY <1>2, <1>3, <1>4, <1>6 DEF NotYet

-----------------------------------------------------------------------------
(* Jobs, and what the run-state store holds before a run is executed.      *)

LEMMA Distinct ==
  ASSUME OneOwner, NEW a \in Actors, NEW b \in Actors, a # b, cur(a) \in Runs,
         a \in Workers \/ pc(a) \in Submitting \cup Rej, b \in Workers \/ pc(b) \in Submitting \cup Rej
  PROVE  cur(a) # cur(b) /\ ~Queued(cur(a))
  BY DEF OneOwner, Owns

(* The run states that change: those of the run a worker executes, unless  *)
(* the process restarts.                                                   *)
LEMMA Written ==
  ASSUME TypeOK, Shape, Kind
  PROVE  \/ runStore' = runStore
         \/ Restarts
         \/ \E w \in Workers, s \in RunStatus :
              /\ runStore' = [runStore EXCEPT ![cur(w)] = s] /\ cur(w) \in Runs
              /\ Others(w) /\ act'[w].run = cur(w)
              /\ serving' = serving /\ UNCHANGED <<queue, listed, lastRun>> /\ Marks
              /\ \/ pc(w) = "createCanceled" /\ (s = runStore[cur(w)] \/ s = "canceled") /\ act'[w].pc = "endRemember"
                 \/ pc(w) = "create" /\ runStore[cur(w)] = "none" /\ act'[w].pc \in {"begin", "settle"}
                 \/ /\ pc(w) \in {"begin", "exec"} /\ ValidateRunTransition(runStore[cur(w)], s)
                    /\ act'[w].pc \in {"exec", "settle"}
  <1>1. ASSUME NEW w \in Workers, Cancelled(w) \/ Creates(w) \/ Enters(w) \/ \E s \in RunStatus : Ends(w, s)
        PROVE  Others(w) /\ act'[w].run = cur(w) /\ cur(w) \in Runs
    <2>1. pc(w) \in {"createCanceled", "create", "begin", "exec"} /\ w \in Actors
      BY <1>1 DEF Cancelled, Creates, Enters, Ends, Actors
    <2> QED
      BY <1>1, <2>1, About DEF Cancelled, Creates, Enters, Ends, Becomes, Free, Scanning
  <1>2. ASSUME NEW w \in Workers, Cancelled(w), runStore' # runStore
        PROVE  \E s \in RunStatus :
                 /\ runStore' = [runStore EXCEPT ![cur(w)] = s] /\ pc(w) = "createCanceled"
                 /\ (s = runStore[cur(w)] \/ s = "canceled") /\ act'[w].pc = "endRemember"
                 /\ serving' = serving /\ UNCHANGED <<queue, listed, lastRun>> /\ Marks
    BY <1>2 DEF Cancelled, Writes, Becomes
  <1>3. ASSUME NEW w \in Workers, Creates(w), runStore' # runStore
        PROVE  /\ runStore' = [runStore EXCEPT ![cur(w)] = "queued"] /\ pc(w) = "create" /\ runStore[cur(w)] = "none"
               /\ serving' = serving /\ UNCHANGED <<queue, listed, lastRun>> /\ Marks /\ act'[w].pc \in {"begin", "settle"}
    BY <1>3 DEF Creates, Writes, Becomes
  <1>4. ASSUME NEW w \in Workers, Enters(w), runStore' # runStore
        PROVE  /\ runStore' = [runStore EXCEPT ![cur(w)] = "running"] /\ pc(w) = "begin" /\ ValidateRunTransition(runStore[cur(w)], "running")
               /\ serving' = serving /\ UNCHANGED <<queue, listed, lastRun>> /\ Marks /\ act'[w].pc \in {"exec", "settle"}
    BY <1>4 DEF Enters, Writes, Becomes
  <1>5. ASSUME NEW w \in Workers, NEW s \in RunStatus, Ends(w, s), runStore' # runStore
        PROVE  /\ runStore' = [runStore EXCEPT ![cur(w)] = s] /\ pc(w) = "exec" /\ ValidateRunTransition(runStore[cur(w)], s)
               /\ serving' = serving /\ UNCHANGED <<queue, listed, lastRun>> /\ Marks /\ act'[w].pc = "settle"
    BY <1>5 DEF Ends, Writes, Becomes
  <1>6. "queued" \in RunStatus /\ "running" \in RunStatus
    BY DEF RunStatus
  <1>7. Kind => \/ runStore' = runStore \/ Restarts
                \/ \E w \in Workers : Cancelled(w) \/ Creates(w) \/ Enters(w) \/ \E s \in RunStatus : Ends(w, s)
    BY DEF Kind, Stays, Stops, Passes, Leaves, Reads, ReadsOne, Begins, Readies, Sends, Withdraws, Undoes,
       Cancels, Takes, Decides, Settles, Still
  <1>8. ASSUME NEW w \in Workers, Cancelled(w) \/ Creates(w) \/ Enters(w) \/ \E s \in RunStatus : Ends(w, s), runStore' # runStore
        PROVE  \E s \in RunStatus :
                 /\ runStore' = [runStore EXCEPT ![cur(w)] = s] /\ cur(w) \in Runs
                 /\ Others(w) /\ act'[w].run = cur(w)
                 /\ serving' = serving /\ UNCHANGED <<queue, listed, lastRun>> /\ Marks
                 /\ \/ pc(w) = "createCanceled" /\ (s = runStore[cur(w)] \/ s = "canceled") /\ act'[w].pc = "endRemember"
                    \/ pc(w) = "create" /\ runStore[cur(w)] = "none" /\ act'[w].pc \in {"begin", "settle"}
                    \/ /\ pc(w) \in {"begin", "exec"} /\ ValidateRunTransition(runStore[cur(w)], s)
                       /\ act'[w].pc \in {"exec", "settle"}
    <2>1. CASE Cancelled(w)
      BY <1>1, <1>2, <1>8, <2>1
    <2>2. CASE Creates(w)
      BY <1>1, <1>3, <1>6, <1>8, <2>2
    <2>3. CASE Enters(w)
      BY <1>1, <1>4, <1>6, <1>8, <2>3
    <2>4. ASSUME NEW s \in RunStatus, Ends(w, s)
          PROVE  \E t \in RunStatus :
                 /\ runStore' = [runStore EXCEPT ![cur(w)] = t] /\ cur(w) \in Runs
                 /\ Others(w) /\ act'[w].run = cur(w)
                 /\ serving' = serving /\ UNCHANGED <<queue, listed, lastRun>> /\ Marks
                 /\ \/ pc(w) = "createCanceled" /\ (t = runStore[cur(w)] \/ t = "canceled") /\ act'[w].pc = "endRemember"
                    \/ pc(w) = "create" /\ runStore[cur(w)] = "none" /\ act'[w].pc \in {"begin", "settle"}
                    \/ /\ pc(w) \in {"begin", "exec"} /\ ValidateRunTransition(runStore[cur(w)], t)
                       /\ act'[w].pc \in {"exec", "settle"}
      BY <1>1, <1>5, <1>8, <2>4
    <2> QED
      BY <1>8, <2>1, <2>2, <2>3, <2>4
  <1> QED
    BY <1>7, <1>8

LEMMA JobsKept ==
  ASSUME TypeOK, Shape, OneOwner, Fresh, JobsTell, Stored, Kind
  PROVE  JobsTell'
  <1>0. /\ \A c \in Clients : c \in Actors /\ c \notin Workers
        /\ \A w \in Workers : w \in Actors /\ w \notin Clients
        /\ NoRun \notin Runs
    BY ServiceConstants DEF Actors, Runs, NoRun
  <1>1. jobs \in [Runs -> {"absent", "waiting", "canceled", "started"}]
    BY DEF TypeOK
  <1>2. \A a \in Actors : pc(a) \notin Free \cup Scanning => cur(a) \in Runs
    BY About
  <1>3. \A a, b \in Actors : /\ a # b /\ cur(a) \in Runs
                             /\ a \in Workers \/ pc(a) \in Submitting \cup Rej
                             /\ b \in Workers \/ pc(b) \in Submitting \cup Rej
                             => cur(a) # cur(b)
    BY Distinct
  <1> USE DEF JobsTell, pc, cur, loc, Others, Becomes
  <1>4. CASE Stays
    BY <1>4 DEF Stays, Marks
  <1>5. CASE Stops
    BY <1>0, <1>5 DEF Stops, Idle, Early, Undo, Rej, Begun, End
  <1>6. CASE Restarts
    <2>1. \A r \in Runs : jobs[r] = "absent"
      BY <1>6 DEF Restarts, Shape
    <2> QED
      BY <1>6, <2>1 DEF Restarts, Marks
  <1>7. ASSUME NEW a \in Actors, Passes(a) PROVE JobsTell'
    BY <1>0, <1>7 DEF Passes, Along, Still, Marks, Free, Scanning, Early, Mid, Undo, Rej, Begun, End
  <1>8. ASSUME NEW a \in Actors, Leaves(a) PROVE JobsTell'
    BY <1>0, <1>8 DEF Leaves, Still, Marks, Idle, Early, Undo, Rej, Begun, End
  <1>9. ASSUME NEW c \in Clients, Reads(c) \/ \E r \in Runs : ReadsOne(c, r) PROVE JobsTell'
    BY <1>0, <1>9 DEF Reads, ReadsOne, Still, Marks, Early, Undo, Rej, Begun, End
  <1>10. ASSUME NEW c \in Clients, NEW r \in Runs, Begins(c, r) PROVE JobsTell'
    <2>1. NotYet(r)
      BY <1>10, Numbered DEF Begins, Fresh
    <2> QED
      BY <1>0, <1>10, <2>1 DEF Begins, Marks, NotYet, Early, Undo, Rej, Begun, End
  <1>11. ASSUME NEW c \in Clients, Readies(c) PROVE JobsTell'
    <2>1. cur(c) \in Runs /\ pc(c) \in Early
      BY <1>0, <1>2, <1>11 DEF Readies, Free, Scanning, Early
    <2>2. runStore[cur(c)] = "none" /\ cur(c) \notin preCanceled
      BY <1>0, <2>1 DEF Stored, Submitting
    <2>3. \A b \in Actors : b # c /\ (b \in Workers \/ pc(b) \in Submitting \cup Rej) => cur(b) # cur(c)
      BY <1>0, <1>3, <2>1 DEF Submitting
    <2>4. jobs' = [jobs EXCEPT ![cur(c)] = "waiting"] /\ \A b \in Actors : b # c => act'[b] = act[b]
      BY <1>11 DEF Readies
    <2>5. act'[c].pc = "subPublish" /\ act'[c].run = cur(c) /\ UNCHANGED <<preCanceled, runStore>>
      BY <1>11 DEF Readies, Still
    <2>6. \A r \in Runs : jobs'[r] = IF r = cur(c) THEN "waiting" ELSE jobs[r]
      BY <1>1, <2>4
    <2> QED
      BY <1>0, <1>2, <2>1, <2>2, <2>3, <2>4, <2>5, <2>6 DEF Early, Undo, Rej, Begun, End, Free, Scanning, Submitting
  <1>12. ASSUME NEW c \in Clients, Withdraws(c) PROVE JobsTell'
    <2>1. cur(c) \in Runs /\ pc(c) \in Mid
      BY <1>0, <1>2, <1>12 DEF Withdraws, Free, Scanning, Mid
    <2>3. \A b \in Actors : b # c /\ (b \in Workers \/ pc(b) \in Submitting \cup Rej) => cur(b) # cur(c)
      BY <1>0, <1>3, <2>1 DEF Submitting
    <2>4. jobs' = [jobs EXCEPT ![cur(c)] = "absent"] /\ \A b \in Actors : b # c => act'[b] = act[b]
      BY <1>12 DEF Withdraws
    <2>5. act'[c].pc = "rbForget" /\ act'[c].run = cur(c) /\ UNCHANGED <<preCanceled, runStore>>
      BY <1>12 DEF Withdraws, Still
    <2>6. \A r \in Runs : jobs'[r] = IF r = cur(c) THEN "absent" ELSE jobs[r]
      BY <1>1, <2>4
    <2> QED
      BY <1>0, <1>2, <2>1, <2>3, <2>4, <2>5, <2>6 DEF Early, Undo, Rej, Begun, End, Free, Scanning, Submitting
  <1>13. ASSUME NEW c \in Clients, Sends(c) \/ Undoes(c) PROVE JobsTell'
    BY <1>0, <1>13 DEF Sends, Undoes, Marks, Idle, Early, Undo, Rej, Begun, End
  <1>14. ASSUME NEW c \in Clients, NEW r \in Runs, Cancels(c, r) PROVE JobsTell'
    <2>1. \A q \in Runs : jobs'[q] = IF q = r THEN "canceled" ELSE jobs[q]
      BY <1>1, <1>14 DEF Cancels
    <2>2. jobs[r] \in {"waiting", "canceled"} /\ preCanceled' = preCanceled \cup {r} /\ runStore' = runStore
      BY <1>14 DEF Cancels, Still
    <2>3. act'[c].pc = "endRemember" /\ \A b \in Actors : b # c => act'[b] = act[b]
      BY <1>14 DEF Cancels
    <2> QED
      BY <1>0, <1>2, <2>1, <2>2, <2>3 DEF Early, Undo, Rej, Begun, End, Free, Scanning
  <1>15. ASSUME NEW w \in Workers, Takes(w) PROVE JobsTell'
    BY <1>0, <1>15 DEF Takes, Marks, Begun, End
  <1>16. ASSUME NEW w \in Workers, Decides(w) PROVE JobsTell'
    <2>1. cur(w) \in Runs /\ w \in Actors
      BY <1>0, <1>2, <1>16 DEF Decides, Free, Scanning
    <2>3. \A b \in Actors : b # w /\ (b \in Workers \/ pc(b) \in Submitting \cup Rej) => cur(b) # cur(w)
      BY <1>0, <1>3, <2>1
    <2>4. /\ act'[w].run = cur(w) /\ \A b \in Actors : b # w => act'[b] = act[b]
          /\ UNCHANGED <<preCanceled, runStore>>
          /\ \/ /\ jobs[cur(w)] = "canceled" /\ \A r \in Runs : jobs'[r] = IF r = cur(w) THEN "absent" ELSE jobs[r]
                /\ act'[w].pc = "createCanceled"
             \/ /\ jobs[cur(w)] = "waiting" /\ \A r \in Runs : jobs'[r] = IF r = cur(w) THEN "started" ELSE jobs[r]
                /\ act'[w].pc = "startRemember"
      BY <1>1, <1>16 DEF Decides, Still
    <2> QED
      BY <1>0, <1>2, <2>1, <2>3, <2>4 DEF Early, Undo, Rej, Begun, End, Free, Scanning, Submitting
  <1>17. ASSUME NEW w \in Workers, Settles(w) PROVE JobsTell'
    <2>1. cur(w) \in Runs /\ w \in Actors
      BY <1>0, <1>2, <1>17 DEF Settles, Free, Scanning
    <2>3. \A b \in Actors : b # w /\ (b \in Workers \/ pc(b) \in Submitting \cup Rej) => cur(b) # cur(w)
      BY <1>0, <1>3, <2>1
    <2>4. /\ act'[w].run = cur(w) /\ act'[w].pc = "endRemember" /\ \A b \in Actors : b # w => act'[b] = act[b]
          /\ UNCHANGED <<preCanceled, runStore>>
          /\ \A r \in Runs : jobs'[r] = IF r = cur(w) THEN "absent" ELSE jobs[r]
      BY <1>1, <1>17 DEF Settles, Still
    <2> QED
      BY <1>0, <1>2, <2>1, <2>3, <2>4 DEF Early, Undo, Rej, Begun, End, Free, Scanning, Submitting
  <1>18. ASSUME NEW w \in Workers, Cancelled(w) \/ Creates(w) \/ Enters(w) \/ \E s \in RunStatus : Ends(w, s) PROVE JobsTell'
    <2>1. /\ UNCHANGED <<jobs, preCanceled>> /\ act'[w].run = cur(w) /\ \A b \in Actors : b # w => act'[b] = act[b]
          /\ \/ pc(w) = "createCanceled" /\ act'[w].pc = "endRemember"
             \/ pc(w) \in {"create", "begin", "exec"} /\ act'[w].pc \in {"begin", "exec", "settle"}
      BY <1>18 DEF Cancelled, Creates, Enters, Ends, Writes, Marks
    <2>2. cur(w) \in Runs /\ w \in Actors /\ jobs[cur(w)] # "waiting"
      BY <1>0, <1>2, <2>1 DEF Free, Scanning, Begun
    <2>3. \A r \in Runs : r # cur(w) => runStore'[r] = runStore[r]
      <3>1. runStore \in [Runs -> RunStatus \cup {"none"}]
        BY DEF TypeOK
      <3> QED
        BY <1>18, <3>1 DEF Cancelled, Creates, Enters, Ends, Writes
    <2> QED
      BY <1>0, <2>1, <2>2, <2>3 DEF Early, Undo, Rej, Begun, End
  <1> HIDE DEF JobsTell, pc, cur, loc, Others, Becomes
  <1> QED
    BY <1>4, <1>5, <1>6, <1>7, <1>8, <1>9, <1>10, <1>11, <1>12, <1>13, <1>14, <1>15, <1>16, <1>17, <1>18 DEF Kind

LEMMA StoredKept ==
  ASSUME TypeOK, Shape, OneOwner, Fresh, JobsTell, Stored, Kind
  PROVE  Stored'
  <1>0. /\ \A c \in Clients : c \in Actors /\ c \notin Workers
        /\ \A w \in Workers : w \in Actors /\ w \notin Clients
        /\ NoRun \notin Runs /\ "none" \notin RunStatus
    BY ServiceConstants DEF Actors, Runs, NoRun, RunStatus
  <1>1. runStore \in [Runs -> RunStatus \cup {"none"}]
    BY DEF TypeOK
  <1>2. \A a \in Actors : pc(a) \notin Free \cup Scanning => cur(a) \in Runs
    BY About
  <1> USE DEF Stored, pc, cur, loc, Others, Becomes
  <1>3. CASE Restarts
    <2>1. (\A a \in Actors : act'[a] = Idle) /\ queue' = <<>>
      BY <1>3 DEF Restarts, Shape, Marks
    <2>2. \A c \in Clients, r \in Runs : listed'[c][r] = "none"
      BY <1>0, <1>3 DEF Restarts, Shape, Marks, Idle, Read
    <2> QED
      BY <1>0, <2>1, <2>2 DEF Idle, Queued, Submitting, Early, Mid, Undo, Rej, Begun
  <1>4. ASSUME runStore' = runStore, Stays \/ \E a \in Actors : Passes(a) PROVE Stored'
    <2>1. CASE Stays
      BY <2>1 DEF Stays, Queued
    <2>2. ASSUME NEW a \in Actors, Passes(a) PROVE Stored'
      BY <1>0, <2>2 DEF Passes, Along, Still, Queued, Submitting, Free, Scanning, Early, Mid, Undo, Rej, Begun, End
    <2> QED
      BY <1>4, <2>1, <2>2
  <1>5. CASE Stops
    BY <1>0, <1>5 DEF Stops, Idle, Queued, Submitting, Early, Mid, Undo, Rej, Begun
  <1>6. ASSUME NEW a \in Actors, Leaves(a) PROVE Stored'
    BY <1>0, <1>6 DEF Leaves, Still, Idle, Queued, Submitting, Early, Mid, Undo, Rej, Begun
  <1>7. ASSUME NEW c \in Clients, Reads(c) PROVE Stored'
    BY <1>0, <1>7 DEF Reads, Still, Queued, Submitting, Early, Mid, Undo, Rej, Begun
  <1>8. ASSUME NEW c \in Clients, NEW r \in Runs, ReadsOne(c, r) PROVE Stored'
    BY <1>0, <1>8 DEF ReadsOne, Still, Queued, Submitting, Early, Mid, Undo, Rej, Begun
  <1>9. ASSUME NEW c \in Clients, NEW r \in Runs, Begins(c, r) PROVE Stored'
    <2>1. runStore[r] = "none"
      BY <1>9, Numbered DEF Begins, Fresh, NotYet
    <2> QED
      BY <1>0, <1>9, <2>1 DEF Begins, Queued, Submitting, Early, Mid, Undo, Rej, Begun
  <1>10. ASSUME NEW c \in Clients, Readies(c) \/ Withdraws(c) \/ Undoes(c) \/ \E r \in Runs : Cancels(c, r) PROVE Stored'
    BY <1>0, <1>10 DEF Readies, Withdraws, Undoes, Cancels, Still, Idle, Queued, Submitting, Early, Mid, Undo, Rej, Begun
  <1>11. ASSUME NEW c \in Clients, Sends(c) PROVE Stored'
    <2>1. PICK q \in Runs : q = cur(c)
      BY <1>0, <1>2, <1>11 DEF Sends, Free, Scanning
    <2>2. \A r \in Runs : Queued(r)' <=> (Queued(r) \/ r = q)
      BY <1>11, <2>1, AfterSend DEF Sends
    <2>3. runStore[q] = "none"
      BY <1>11, <2>1 DEF Sends, Submitting, Mid
    <2>4. \A r \in Runs : Queued(r)' => runStore'[r] = "none"
      BY <1>11, <2>2, <2>3 DEF Sends
    <2> QED
      BY <1>0, <1>11, <2>4 DEF Sends, Idle, Submitting, Early, Mid, Undo, Rej, Begun
  <1>12. ASSUME NEW w \in Workers, Takes(w) PROVE Stored'
    <2>1. PICK h \in Runs : h = Head(queue) /\ queue # <<>> /\ queue' = Tail(queue)
      BY <1>12, Heads DEF Takes
    <2>2. \A r \in Runs : Queued(r) <=> (Queued(r)' \/ r = h)
      BY <2>1, AfterTake
    <2>3. \A r \in Runs : Queued(r)' => runStore'[r] = "none"
      BY <1>12, <2>2 DEF Takes
    <2>4. runStore'[h] = "none" /\ act'[w].run = h
      BY <1>12, <2>1, <2>2 DEF Takes
    <2> QED
      BY <1>0, <1>12, <2>3, <2>4 DEF Takes, Begun, Submitting, Early, Mid, Undo, Rej
  <1>13. ASSUME NEW w \in Workers, Decides(w) \/ Settles(w) PROVE Stored'
    BY <1>0, <1>13 DEF Decides, Settles, Still, Queued, Begun, Submitting, Early, Mid, Undo, Rej
  <1>14. ASSUME NEW w \in Workers, runStore' = runStore,
                Cancelled(w) \/ Creates(w) \/ Enters(w) \/ \E s \in RunStatus : Ends(w, s)
         PROVE  Stored'
    <2>1. UNCHANGED <<queue, listed>> /\ Others(w) /\ act'[w].pc \in {"endRemember", "begin", "exec", "settle"}
      BY <1>14 DEF Cancelled, Creates, Enters, Ends, Writes
    <2> QED
      BY <1>0, <1>14, <2>1 DEF Queued, Begun, Submitting, Early, Mid, Undo, Rej
  <1>15. ASSUME NEW w \in Workers, NEW s \in RunStatus, cur(w) \in Runs, runStore' = [runStore EXCEPT ![cur(w)] = s],
                Others(w), act'[w].run = cur(w), UNCHANGED <<queue, listed>>,
                act'[w].pc \in {"endRemember", "begin", "exec", "settle"}
         PROVE  Stored'
    <2>1. \A r \in Runs : runStore'[r] = IF r = cur(w) THEN s ELSE runStore[r]
      BY <1>1, <1>15
    <2>2. ~Queued(cur(w)) /\ \A b \in Actors : b # w /\ (b \in Workers \/ pc(b) \in Submitting \cup Rej) => cur(b) # cur(w)
      BY <1>0, <1>15, Distinct DEF OneOwner, Owns
    <2>3. \A b \in Actors : b # w => act'[b] = act[b]
      BY <1>15
    <2>4. \A r \in Runs : Queued(r)' => r # cur(w) /\ Queued(r)
      BY <1>15, <2>2 DEF Queued
    <2> QED
      BY <1>0, <1>2, <1>15, <2>1, <2>2, <2>3, <2>4 DEF Begun, Submitting, Early, Mid, Undo, Rej, Free, Scanning
  <1>16. ASSUME NEW w \in Workers, Cancelled(w) \/ Creates(w) \/ Enters(w) \/ \E s \in RunStatus : Ends(w, s) PROVE Stored'
    <2>1. ~Restarts
      BY <1>16 DEF Restarts, Cancelled, Creates, Enters, Ends, Writes, Alive
    <2> HIDE DEF Stored, pc, cur, loc, Others, Becomes
    <2> QED
      BY <1>14, <1>15, <1>16, <2>1, Written
  <1>17. (Stays \/ \E a \in Actors : Passes(a)) => runStore' = runStore
    BY DEF Stays, Passes, Still
  <1> HIDE DEF Stored, pc, cur, loc, Others, Becomes
  <1> QED
    BY <1>3, <1>4, <1>5, <1>6, <1>7, <1>8, <1>9, <1>10, <1>11, <1>12, <1>13, <1>16, <1>17 DEF Kind

LEMMA CancelersKept ==
  ASSUME TypeOK, Shape, JobsTell, Stored, Cancelers, Kind
  PROVE  Cancelers'
  <1>0. /\ \A c \in Clients : c \in Actors /\ c \notin Workers
        /\ \A w \in Workers : w \in Actors /\ w \notin Clients
    BY ServiceConstants DEF Actors
  <1>1. runStore \in [Runs -> RunStatus \cup {"none"}] /\ preCanceled \subseteq Runs
    BY DEF TypeOK
  <1> USE DEF pc, cur, loc, Others, Becomes
  <1>2. preCanceled \subseteq preCanceled'
    BY DEF Kind, Stays, Stops, Restarts, Passes, Leaves, Reads, ReadsOne, Begins, Readies, Sends, Withdraws, Undoes,
       Cancels, Takes, Decides, Cancelled, Creates, Enters, Ends, Writes, Settles, Marks
  <1>3. \A r \in preCanceled' : r \in preCanceled \/ (runStore[r] = "none" /\ runStore'[r] = "none")
    <2>1. ASSUME NEW c \in Clients, NEW r \in Runs, Cancels(c, r) PROVE r \in preCanceled \/ (runStore[r] = "none" /\ runStore'[r] = "none")
      BY <2>1 DEF Cancels, Still, JobsTell
    <2>2. preCanceled' = preCanceled \/ \E c \in Clients, r \in Runs : Cancels(c, r) /\ preCanceled' = preCanceled \cup {r}
      BY ZenonT(40) DEF Kind, Stays, Stops, Restarts, Passes, Leaves, Reads, ReadsOne, Begins, Readies, Sends, Withdraws, Undoes,
         Cancels, Takes, Decides, Cancelled, Creates, Enters, Ends, Writes, Settles, Marks
    <2> QED
      BY <2>1, <2>2
  <1>4. \A r \in preCanceled : runStore'[r] \in {"none", "canceled"}
    <2>1. CASE runStore' = runStore
      BY <2>1 DEF Cancelers
    <2>2. CASE Restarts
      BY <1>1, <2>2 DEF Restarts, Cancelers, MarkInterrupted
    <2>3. ASSUME NEW w \in Workers, NEW s \in RunStatus, runStore' = [runStore EXCEPT ![cur(w)] = s],
                 pc(w) \in {"create", "begin", "exec"} \/ (pc(w) = "createCanceled" /\ (s = runStore[cur(w)] \/ s = "canceled"))
          PROVE  \A r \in preCanceled : runStore'[r] \in {"none", "canceled"}
      <3>1. \A r \in Runs : runStore'[r] = IF r = cur(w) THEN s ELSE runStore[r]
        BY <1>1, <2>3
      <3>2. pc(w) \in {"create", "begin", "exec"} => cur(w) \notin preCanceled
        BY <1>1 DEF JobsTell, Begun
      <3> QED
        BY <1>1, <2>3, <3>1, <3>2 DEF Cancelers
    <2> QED
      BY <2>1, <2>2, <2>3, Written
  <1>5. \A r \in preCanceled' : runStore'[r] \in {"none", "canceled"}
    BY <1>3, <1>4
  <1> DEFINE Ending == \A c \in Clients : act'[c].pc \in End => act'[c].run \in preCanceled' /\ act'[c].status = "canceled"
  <1>6. Ending
    <2> USE DEF Cancelers
    <2>1. CASE Stays \/ Restarts
      BY <1>2, <2>1 DEF Stays, Restarts
    <2>2. CASE Stops
      BY <1>0, <2>2 DEF Stops, Idle, End
    <2>3. ASSUME NEW a \in Actors, Passes(a) \/ Leaves(a) PROVE Ending
      BY <1>0, <1>2, <2>3 DEF Passes, Leaves, Along, Idle, Free, Scanning, Early, Mid, Undo, Rej, Begun, End
    <2>4. ASSUME NEW c \in Clients, Reads(c) \/ \E r \in Runs : ReadsOne(c, r) \/ Begins(c, r) \/ Cancels(c, r) PROVE Ending
      BY <1>0, <1>2, <2>4 DEF Reads, ReadsOne, Begins, Cancels, End
    <2>5. ASSUME NEW c \in Clients, Readies(c) \/ Withdraws(c) \/ Sends(c) \/ Undoes(c) PROVE Ending
      BY <1>0, <1>2, <2>5 DEF Readies, Withdraws, Sends, Undoes, Idle, End
    <2>6. ASSUME NEW w \in Workers, Others(w) PROVE Ending
      BY <1>0, <1>2, <2>6
    <2>7. ASSUME NEW w \in Workers,
                 Takes(w) \/ Decides(w) \/ Settles(w) \/ Cancelled(w) \/ Creates(w) \/ Enters(w) \/ \E s \in RunStatus : Ends(w, s)
          PROVE Others(w)
      BY <2>7 DEF Takes, Decides, Settles, Cancelled, Creates, Enters, Ends
    <2> HIDE DEF Cancelers, pc, cur, loc, Others, Becomes
    <2> QED
      BY <2>1, <2>2, <2>3, <2>4, <2>5, <2>6, <2>7 DEF Kind
  <1> DEFINE Marking == \A w \in Workers : act'[w].pc = "createCanceled" => act'[w].run \in preCanceled' /\ act'[w].status = "canceled"
  <1>7. Marking
    <2> USE DEF Cancelers
    <2>1. CASE Stays \/ Restarts
      BY <1>2, <2>1 DEF Stays, Restarts
    <2>2. CASE Stops
      BY <1>0, <2>2 DEF Stops, Idle
    <2>3. ASSUME NEW a \in Actors, Passes(a) \/ Leaves(a) PROVE Marking
      BY <1>0, <1>2, <2>3 DEF Passes, Leaves, Along, Idle, Free, Scanning, Early, Mid, Undo, Rej, Begun, End
    <2>4. ASSUME NEW c \in Clients, Others(c) PROVE Marking
      BY <1>0, <1>2, <2>4
    <2>5. ASSUME NEW c \in Clients,
                 \/ Reads(c) \/ Readies(c) \/ Withdraws(c) \/ Sends(c) \/ Undoes(c)
                 \/ \E r \in Runs : ReadsOne(c, r) \/ Begins(c, r) \/ Cancels(c, r)
          PROVE  Others(c)
      BY <2>5 DEF Reads, ReadsOne, Begins, Cancels, Readies, Withdraws, Sends, Undoes
    <2>6. ASSUME NEW w \in Workers, Decides(w) PROVE Marking
      <3>1. cur(w) \in Runs
        BY <1>0, <2>6, About DEF Decides, Free, Scanning
      <3> QED
        BY <1>0, <1>2, <2>6, <3>1 DEF Decides, JobsTell
    <2>7. ASSUME NEW w \in Workers, Takes(w) \/ Settles(w) \/ Cancelled(w) \/ Creates(w) \/ Enters(w) \/ \E s \in RunStatus : Ends(w, s)
          PROVE  Marking
      <3>1. Others(w) /\ act'[w].pc # "createCanceled"
        BY <2>7 DEF Takes, Settles, Cancelled, Creates, Enters, Ends
      <3> QED
        BY <1>0, <1>2, <3>1
    <2> HIDE DEF Cancelers, pc, cur, loc, Others, Becomes
    <2> QED
      BY <2>1, <2>2, <2>3, <2>4, <2>5, <2>6, <2>7 DEF Kind
  <1> QED
    BY <1>5, <1>6, <1>7 DEF Cancelers

-----------------------------------------------------------------------------
(* No run is stranded.                                                     *)

LEMMA StrandedKept ==
  ASSUME TypeOK, Shape, NoStrandedJob, Kind
  PROVE  NoStrandedJob'
  <1>0. /\ \A c \in Clients : c \in Actors /\ c \notin Workers
        /\ \A w \in Workers : w \in Actors /\ w \notin Clients
    BY ServiceConstants DEF Actors
  <1>1. jobs \in [Runs -> {"absent", "waiting", "canceled", "started"}]
    BY DEF TypeOK
  <1> DEFINE Held(r) ==
        \/ \E c \in Clients : cur(c) = r /\ pc(c) \in {"subPublish", "subCheck", "subSend", "rbJob"}
        \/ Queued(r)
        \/ \E w \in Workers : cur(w) = r /\ pc(w) = "claimed"
  <1>2. NoStrandedJob <=> (serving = "up" => \A r \in Runs : jobs[r] \in {"waiting", "canceled"} => Held(r))
    BY DEF NoStrandedJob, Queued
  <1>3. NoStrandedJob' <=> (serving' = "up" => \A r \in Runs : jobs'[r] \in {"waiting", "canceled"} => Held(r)')
    BY DEF NoStrandedJob, Queued
  <1>4. SUFFICES ASSUME serving' = "up", NEW r \in Runs, jobs'[r] \in {"waiting", "canceled"} PROVE Held(r)'
    BY <1>3
  <1> USE DEF pc, cur, loc, Others, Becomes
  <1>5. CASE Restarts
    BY <1>4, <1>5 DEF Restarts, Marks, Shape
  <1>6. CASE Stops
    BY <1>4, <1>6 DEF Stops
  <1>7. CASE ~Restarts /\ ~Stops
    <2>1. serving = "up"
      BY <1>4, <1>7 DEF Kind, Stays, Passes, Leaves, Reads, ReadsOne, Begins, Readies, Sends, Withdraws, Undoes,
         Cancels, Takes, Decides, Cancelled, Creates, Enters, Ends, Writes, Settles, Still
    <2>2. jobs[r] \in {"waiting", "canceled"} => Held(r)
      BY <1>2, <2>1
    <2>3. CASE Stays
      BY <1>4, <2>2, <2>3 DEF Stays, Marks, Queued
    <2>4. ASSUME NEW a \in Actors, Passes(a) PROVE Held(r)'
      BY <1>0, <1>4, <2>2, <2>4 DEF Passes, Along, Still, Marks, Queued, Free, Scanning, Early, Mid, Undo, Rej, Begun, End
    <2>5. ASSUME NEW a \in Actors, Leaves(a) PROVE Held(r)'
      BY <1>0, <1>4, <2>1, <2>2, <2>5 DEF Leaves, Still, Marks, Queued, Idle, Rej, End
    <2>6. ASSUME NEW c \in Clients, Reads(c) \/ \E q \in Runs : ReadsOne(c, q) \/ Begins(c, q) PROVE Held(r)'
      BY <1>0, <1>4, <2>2, <2>6 DEF Reads, ReadsOne, Begins, Still, Marks, Queued
    <2>7. ASSUME NEW c \in Clients, NEW q \in Runs, Cancels(c, q) PROVE Held(r)'
      <3>1. jobs[r] \in {"waiting", "canceled"}
        BY <1>1, <1>4, <2>7 DEF Cancels
      <3> QED
        BY <1>0, <2>2, <2>7, <3>1 DEF Cancels, Still, Queued
    <2>8. ASSUME NEW c \in Clients, Readies(c) PROVE Held(r)'
      <3>1. jobs[r] \in {"waiting", "canceled"} \/ r = cur(c)
        BY <1>1, <1>4, <2>8 DEF Readies
      <3> QED
        BY <1>0, <2>2, <2>8, <3>1 DEF Readies, Still, Queued
    <2>9. ASSUME NEW c \in Clients, Withdraws(c) PROVE Held(r)'
      <3>1. jobs[r] \in {"waiting", "canceled"} /\ r # cur(c)
        BY <1>1, <1>4, <2>9 DEF Withdraws
      <3> QED
        BY <1>0, <2>2, <2>9, <3>1 DEF Withdraws, Still, Queued
    <2>10. ASSUME NEW c \in Clients, Undoes(c) PROVE Held(r)'
      BY <1>0, <1>4, <2>2, <2>10 DEF Undoes, Marks, Queued
    <2>11. ASSUME NEW c \in Clients, Sends(c) PROVE Held(r)'
      <3>1. PICK q \in Runs : q = cur(c)
        BY <1>0, <2>11, About DEF Sends, Free, Scanning
      <3>2. Queued(r)' <=> (Queued(r) \/ r = q)
        BY <2>11, <3>1, AfterSend DEF Sends
      <3> QED
        BY <1>0, <1>4, <2>2, <2>11, <3>1, <3>2 DEF Sends, Marks
    <2>12. ASSUME NEW w \in Workers, Takes(w) PROVE Held(r)'
      <3>1. PICK h \in Runs : h = Head(queue) /\ queue # <<>> /\ queue' = Tail(queue)
        BY <2>12, Heads DEF Takes
      <3>2. Queued(r) <=> (Queued(r)' \/ r = h)
        BY <3>1, AfterTake
      <3> QED
        BY <1>0, <1>4, <2>2, <2>12, <3>1, <3>2 DEF Takes, Marks
    <2>13. ASSUME NEW w \in Workers, Decides(w) \/ Settles(w) PROVE Held(r)'
      <3>1. jobs[r] \in {"waiting", "canceled"} /\ (pc(w) = "claimed" => r # cur(w))
        BY <1>1, <1>4, <2>13 DEF Decides, Settles
      <3> QED
        BY <1>0, <2>2, <2>13, <3>1 DEF Decides, Settles, Still, Queued
    <2>14. ASSUME NEW w \in Workers, Cancelled(w) \/ Creates(w) \/ Enters(w) \/ \E s \in RunStatus : Ends(w, s) PROVE Held(r)'
      <3>1. UNCHANGED <<queue, jobs>> /\ Others(w) /\ pc(w) # "claimed"
        BY <2>14 DEF Cancelled, Creates, Enters, Ends, Writes, Marks
      <3> QED
        BY <1>0, <1>4, <2>2, <3>1 DEF Queued
    <2> HIDE DEF pc, cur, loc, Others, Becomes, Held
    <2> QED
      BY <1>7, <2>3, <2>4, <2>5, <2>6, <2>7, <2>8, <2>9, <2>10, <2>11, <2>12, <2>13, <2>14 DEF Kind
  <1> QED
    BY <1>5, <1>6, <1>7

-----------------------------------------------------------------------------
(* What stands once it holds of a run.                                     *)

LEMMA Grows ==
  ASSUME TypeOK, Kind
  PROVE  /\ lastRun \in Nat /\ lastRun' \in Nat /\ lastRun' >= lastRun
         /\ preCanceled \subseteq preCanceled' /\ rolledBack \subseteq rolledBack'
  <1>1. lastRun' = lastRun \/ lastRun' = lastRun + 1
    BY DEF Kind, Stays, Stops, Restarts, Passes, Leaves, Reads, ReadsOne, Begins, Readies, Sends, Withdraws, Undoes,
       Cancels, Takes, Decides, Cancelled, Creates, Enters, Ends, Writes, Settles, Still
  <1>2. preCanceled \subseteq preCanceled'
    BY DEF Kind, Stays, Stops, Restarts, Passes, Leaves, Reads, ReadsOne, Begins, Readies, Sends, Withdraws, Undoes,
       Cancels, Takes, Decides, Cancelled, Creates, Enters, Ends, Writes, Settles, Marks
  <1>3. rolledBack \subseteq rolledBack'
    BY DEF Kind, Stays, Stops, Restarts, Passes, Leaves, Reads, ReadsOne, Begins, Readies, Sends, Withdraws, Undoes,
       Cancels, Takes, Decides, Cancelled, Creates, Enters, Ends, Writes, Settles, Still
  <1> QED
    BY <1>1, <1>2, <1>3, Numbered

LEMMA VerdictStands ==
  ASSUME TypeOK, Shape, Stored, Kind, NEW r \in Runs, IsTerminalRunStatus(runStore[r])
  PROVE  runStore'[r] = runStore[r]
  <1>1. runStore \in [Runs -> RunStatus \cup {"none"}]
    BY DEF TypeOK
  <1>2. runStore[r] # "none" /\ runStore[r] # "running" /\ runStore[r] # "queued" /\ runStore[r] # ""
    BY DEF IsTerminalRunStatus
  <1>3. CASE Restarts
    BY <1>2, <1>3 DEF Restarts, MarkInterrupted
  <1>4. ASSUME NEW w \in Workers, NEW s \in RunStatus, runStore' = [runStore EXCEPT ![cur(w)] = s],
               pc(w) \in {"create", "createCanceled"} \/ ValidateRunTransition(runStore[cur(w)], s)
        PROVE  runStore'[r] = runStore[r]
    <2>1. pc(w) \in {"create", "createCanceled"} => runStore[cur(w)] = "none"
      BY DEF Stored, Begun
    <2> QED
      BY <1>1, <1>2, <1>4, <2>1 DEF ValidateRunTransition
  <1> QED
    BY <1>3, <1>4, Written

LEMMA NoneStands ==
  ASSUME TypeOK, Shape, Kind, NEW r \in Runs, runStore[r] = "none", \A w \in Workers : cur(w) # r
  PROVE  runStore'[r] = "none"
  <1>1. runStore \in [Runs -> RunStatus \cup {"none"}]
    BY DEF TypeOK
  <1>2. Restarts => runStore'[r] = "none"
    BY DEF Restarts, MarkInterrupted
  <1> QED
    BY <1>1, <1>2, Written

LEMMA DeadStands ==
  ASSUME TypeOK, Shape, Kind, NEW r \in Runs, Dead(r)
  PROVE  Dead(r)'
  <1>0. /\ \A c \in Clients : c \in Actors /\ c \notin Workers
        /\ \A w \in Workers : w \in Actors /\ w \notin Clients
        /\ NoRun \notin Runs /\ r \in Nat
    BY ServiceConstants DEF Actors, Runs, NoRun
  <1>1. r <= lastRun'
    BY <1>0, Grows DEF Dead
  <1> USE DEF Dead, Owns, pc, cur, Others, Becomes
  <1>2. CASE Stops
    BY <1>0, <1>1, <1>2 DEF Stops, Idle, Queued
  <1>3. ASSUME NEW c \in Clients, NEW q \in Runs, Begins(c, q) PROVE Dead(r)'
    <2>1. r # q
      BY <1>0, <1>3, Grows DEF Begins
    <2> QED
      BY <1>0, <1>1, <1>3, <2>1 DEF Begins, Queued
  <1>4. ASSUME NEW c \in Clients, Sends(c) PROVE Dead(r)'
    <2>1. PICK q \in Runs : q = cur(c)
      BY <1>0, <1>4, About DEF Sends, Free, Scanning
    <2>2. q # r
      BY <1>0, <1>4, <2>1 DEF Sends, Submitting, Mid, Rej
    <2>3. ~Queued(r)'
      BY <1>4, <2>1, <2>2, AfterSend DEF Sends
    <2> QED
      BY <1>0, <1>1, <1>4, <2>3 DEF Sends, Idle
  <1>5. ASSUME NEW w \in Workers, Takes(w) PROVE Dead(r)'
    <2>1. r # Head(queue) /\ ~Queued(r)'
      BY <1>5, AfterTake DEF Takes
    <2> QED
      BY <1>0, <1>1, <1>5, <2>1 DEF Takes
  <1>6. CASE /\ queue' = queue
             /\ \A b \in Actors, q \in Runs : Owns(b, q)' => Owns(b, q)
             /\ \A b \in Clients, q \in Runs : Owns(b, q)' /\ pc(b) \in Rej => pc(b)' \in Rej
    BY <1>0, <1>1, <1>6 DEF Queued
  <1> QED
    BY <1>2, <1>3, <1>4, <1>5, <1>6, Holding

LEMMA WordStands ==
  ASSUME TypeOK, Shape, Stored, Kind, NEW r \in Runs, NEW s, Word(r, s)
  PROVE  Word(r, s)'
  <1>0. \A w \in Workers : w \in Actors /\ w \notin Clients
    BY ServiceConstants DEF Actors
  <1>1. IsTerminalRunStatus(s) /\ runStore[r] = s => runStore'[r] = s
    BY VerdictStands
  <1>2. r \in preCanceled => r \in preCanceled'
    BY Grows
  <1>3. Dead(r) /\ runStore[r] = "none" => Dead(r)' /\ runStore'[r] = "none"
    <2>1. Dead(r) => \A w \in Workers : cur(w) # r
      BY <1>0 DEF Dead, Owns
    <2> QED
      BY <2>1, DeadStands, NoneStands
  <1>4. IsTerminalRunStatus(s) => s \in {"success", "failed", "canceled", "interrupted"}
    BY DEF IsTerminalRunStatus
  <1> QED
    BY <1>1, <1>2, <1>3 DEF Word, IsTerminalRunStatus

LEMMA SilentStands ==
  ASSUME TypeOK, Shape, Kind, NEW r \in Runs, Silent(r)
  PROVE  Silent(r)'
  <1>0. /\ \A c \in Clients : c \in Actors /\ c \notin Workers
        /\ \A w \in Workers : w \in Actors /\ w \notin Clients
        /\ NoRun \notin Runs /\ r \in Nat
    BY ServiceConstants DEF Actors, Runs, NoRun
  <1>1. r <= lastRun' /\ jobs \in [Runs -> {"absent", "waiting", "canceled", "started"}]
    <2>1. r <= lastRun'
      BY <1>0, Grows DEF Silent
    <2> QED
      BY <2>1 DEF TypeOK
  <1> DEFINE Still2 == /\ jobs'[r] = "absent" /\ ~Queued(r)'
                       /\ \A a \in Actors : act'[a].run = r => a \in Clients /\ act'[a].pc \in Read
  <1> USE DEF Silent, pc, cur, loc, Others, Becomes
  <1>2. CASE Stays \/ Restarts
    BY <1>2 DEF Stays, Restarts, Marks, Queued
  <1>3. CASE Stops
    BY <1>0, <1>3 DEF Stops, Queued, Idle
  <1>4. ASSUME NEW a \in Actors, Passes(a) PROVE Still2
    BY <1>0, <1>4 DEF Passes, Along, Still, Marks, Queued, Free, Scanning, Early, Mid, Undo, Rej, Begun, End, Read
  <1>5. ASSUME NEW a \in Actors, Leaves(a) PROVE Still2
    BY <1>0, <1>5 DEF Leaves, Still, Marks, Queued, Idle
  <1>6. ASSUME NEW c \in Clients, Reads(c) \/ \E q \in Runs : ReadsOne(c, q) PROVE Still2
    BY <1>0, <1>6 DEF Reads, ReadsOne, Still, Marks, Queued, Read
  <1>7. ASSUME NEW c \in Clients, NEW q \in Runs, Begins(c, q) PROVE Still2
    <2>1. r # q
      BY <1>0, <1>7, Grows DEF Begins
    <2> QED
      BY <1>0, <1>7, <2>1 DEF Begins, Marks, Queued
  <1>8. ASSUME NEW c \in Clients, NEW q \in Runs, Cancels(c, q) PROVE Still2
    <2>1. r # q
      BY <1>8 DEF Cancels
    <2> QED
      BY <1>0, <1>1, <1>8, <2>1 DEF Cancels, Still, Queued
  <1>9. ASSUME NEW c \in Clients, Readies(c) \/ Withdraws(c) \/ Undoes(c) \/ Sends(c) PROVE Still2
    <2>1. PICK q \in Runs : q = cur(c)
      BY <1>0, <1>9, About DEF Readies, Withdraws, Undoes, Sends, Free, Scanning
    <2>2. q # r
      BY <1>0, <1>9, <2>1 DEF Readies, Withdraws, Undoes, Sends, Read
    <2>3. Sends(c) => ~Queued(r)'
      BY <2>1, <2>2, AfterSend DEF Sends
    <2> QED
      BY <1>0, <1>1, <1>9, <2>1, <2>2, <2>3 DEF Readies, Withdraws, Undoes, Sends, Still, Marks, Queued, Idle
  <1>10. ASSUME NEW w \in Workers, Takes(w) PROVE Still2
    <2>1. r # Head(queue) /\ ~Queued(r)'
      BY <1>10, AfterTake DEF Takes
    <2> QED
      BY <1>0, <1>10, <2>1 DEF Takes, Marks
  <1>11. ASSUME NEW w \in Workers, Decides(w) \/ Settles(w) PROVE Still2
    <2>1. r # cur(w)
      BY <1>0
    <2> QED
      BY <1>0, <1>1, <1>11, <2>1 DEF Decides, Settles, Still, Queued
  <1>12. ASSUME NEW w \in Workers, Cancelled(w) \/ Creates(w) \/ Enters(w) \/ \E s \in RunStatus : Ends(w, s) PROVE Still2
    <2>1. UNCHANGED <<queue, jobs>> /\ Others(w) /\ act'[w].run = cur(w)
      BY <1>12 DEF Cancelled, Creates, Enters, Ends, Writes, Marks
    <2> QED
      BY <1>0, <2>1 DEF Queued
  <1>13. Still2 => Silent(r)'
    BY <1>1
  <1> HIDE DEF Silent, pc, cur, loc, Others, Becomes, Still2
  <1> QED
    BY <1>2, <1>3, <1>4, <1>5, <1>6, <1>7, <1>8, <1>9, <1>10, <1>11, <1>12, <1>13 DEF Kind

(* The points of a worker before it publishes run_start.                   *)
Before == {"claimed", "startRemember", "startUpsert", "startPublish"}

LEMMA OverStands ==
  ASSUME TypeOK, Shape, Kind, NEW r \in Runs, Over(r)
  PROVE  Over(r)'
  <1>0. /\ \A c \in Clients : c \in Actors /\ c \notin Workers
        /\ \A w \in Workers : w \in Actors /\ w \notin Clients
        /\ NoRun \notin Runs /\ r \in Nat
    BY ServiceConstants DEF Actors, Runs, NoRun
  <1>1. r <= lastRun'
    BY <1>0, Grows DEF Over
  <1>2. r \in preCanceled => Over(r)'
    BY <1>1, Grows DEF Over
  <1>3. SUFFICES ASSUME r \notin preCanceled' PROVE Over(r)'
    BY <1>1 DEF Over
  <1>4. /\ ~Queued(r) /\ r <= lastRun
        /\ \A c \in Clients : cur(c) = r => pc(c) \notin Submitting
        /\ \A w \in Workers : cur(w) = r => pc(w) \notin Before
    BY <1>3, Grows DEF Over, Before
  <1> DEFINE Gone == /\ ~Queued(r)'
                     /\ \A c \in Clients : act'[c].run = r => act'[c].pc \notin Submitting
                     /\ \A w \in Workers : act'[w].run = r => act'[w].pc \notin Before
  <1>5. Gone => Over(r)'
    BY <1>1 DEF Over, pc, cur, Before
  <1> USE <1>4 DEF pc, cur, loc, Others, Becomes
  <1>6. ASSUME Stays \/ Restarts PROVE Gone
    BY <1>6 DEF Stays, Restarts, Queued
  <1>7. ASSUME Stops PROVE Gone
    BY <1>0, <1>7 DEF Stops, Queued, Idle
  <1>8. ASSUME NEW a \in Actors, Passes(a) PROVE Gone
    BY <1>0, <1>8 DEF Passes, Along, Still, Queued, Free, Scanning, Early, Mid, Undo, Rej, Begun, End, Submitting, Before
  <1>9. ASSUME NEW a \in Actors, Leaves(a) PROVE Gone
    BY <1>0, <1>9 DEF Leaves, Still, Queued, Idle
  <1>10. ASSUME NEW c \in Clients, Reads(c) \/ \E q \in Runs : ReadsOne(c, q) \/ Cancels(c, q) PROVE Gone
    BY <1>0, <1>10 DEF Reads, ReadsOne, Cancels, Still, Queued, Submitting, Early, Mid, Undo
  <1>11. ASSUME NEW c \in Clients, NEW q \in Runs, Begins(c, q) PROVE Gone
    <2>1. r # q
      BY <1>0, <1>11, Grows DEF Begins
    <2> QED
      BY <1>0, <1>11, <2>1 DEF Begins, Queued
  <1>12. ASSUME NEW c \in Clients, Readies(c) \/ Withdraws(c) \/ Undoes(c) \/ Sends(c) PROVE Gone
    <2>1. PICK q \in Runs : q = cur(c)
      BY <1>0, <1>12, About DEF Readies, Withdraws, Undoes, Sends, Free, Scanning
    <2>2. q # r
      BY <1>0, <1>12, <2>1 DEF Readies, Withdraws, Undoes, Sends, Submitting, Early, Mid, Undo
    <2>3. Sends(c) => ~Queued(r)'
      BY <2>1, <2>2, AfterSend DEF Sends
    <2> QED
      BY <1>0, <1>12, <2>1, <2>2, <2>3 DEF Readies, Withdraws, Undoes, Sends, Still, Queued, Idle
  <1>13. ASSUME NEW w \in Workers, Takes(w) PROVE Gone
    <2>1. r # Head(queue) /\ ~Queued(r)'
      BY <1>13, AfterTake DEF Takes
    <2> QED
      BY <1>0, <1>13, <2>1 DEF Takes
  <1>14. ASSUME NEW w \in Workers, Decides(w) \/ Settles(w) PROVE Gone
    BY <1>0, <1>14 DEF Decides, Settles, Still, Queued, Before
  <1>15. ASSUME NEW w \in Workers, Cancelled(w) \/ Creates(w) \/ Enters(w) \/ \E s \in RunStatus : Ends(w, s) PROVE Gone
    <2>1. queue' = queue /\ Others(w) /\ act'[w].pc \in {"endRemember", "begin", "exec", "settle"}
      BY <1>15 DEF Cancelled, Creates, Enters, Ends, Writes
    <2> QED
      BY <1>0, <2>1 DEF Queued, Before
  <1> HIDE DEF pc, cur, loc, Others, Becomes, Gone
  <1> QED
    BY <1>5, <1>6, <1>7, <1>8, <1>9, <1>10, <1>11, <1>12, <1>13, <1>14, <1>15 DEF Kind

-----------------------------------------------------------------------------
(* The verdicts agree.                                                     *)

LEMMA ListedWritten ==
  ASSUME TypeOK, Kind, NEW c \in Clients, NEW r \in Runs
  PROVE  listed'[c][r] = "none" \/ listed'[c][r] = listed[c][r] \/ (listed'[c][r] = runStore[r] /\ runStore' = runStore)
  <1>1. listed' = listed \/ Stops \/ \E d \in Clients : Reads(d) \/ \E q \in Runs : ReadsOne(d, q)
    BY DEF Kind, Stays, Restarts, Passes, Leaves, Begins, Readies, Sends, Withdraws, Undoes,
       Cancels, Takes, Decides, Cancelled, Creates, Enters, Ends, Writes, Settles
  <1>2. ASSUME NEW d \in Clients, Reads(d) PROVE listed'[c][r] \in {"none", listed[c][r]} \/ (listed'[c][r] = runStore[r] /\ runStore' = runStore)
    BY <1>2 DEF Reads, Still
  <1>3. ASSUME NEW d \in Clients, NEW q \in Runs, ReadsOne(d, q) PROVE listed'[c][r] \in {"none", listed[c][r]}
    BY <1>3 DEF ReadsOne
  <1> QED
    BY <1>1, <1>2, <1>3 DEF Stops

LEMMA RecordsWritten ==
  ASSUME TypeOK, Shape, [Next]_vars, NEW r \in Runs
  PROVE  \/ records'[r] = records[r]
         \/ records'[r] = "none"
         \/ records'[r] = "queued" /\ r = lastRun + 1
         \/ \E a \in Actors : cur(a) = r /\ pc(a) \in {"startUpsert", "endUpsert", "readUpsert"} /\ records'[r] = loc(a)
         \/ \E c \in Clients : pc(c) = "loading" /\ act'[c].run = r /\ act'[c].status = records'[r] /\ r = lastRun + 1
         \/ /\ Restarts /\ metas'[r] = records'[r]
            /\ records'[r] = runStore'[r] \/ (runStore'[r] = "none" /\ records'[r] = records[r])
  <1> USE DEF svars, gvars
  <1>0. records \in [Runs -> MetaStatus] /\ \A c \in Clients : c \in Actors
    BY DEF TypeOK, Actors
  <1>1. ASSUME NEW c \in Clients, SubmitReject(c)
        PROVE  records'[r] = records[r] \/ (pc(c) = "loading" /\ act'[c].run = r /\ act'[c].status = records'[r] /\ r = lastRun + 1)
    <2>1. pc(c) = "loading" /\ Becomes(c, "rejRemember", lastRun + 1, "failed")
      BY <1>0, <1>1, Goes DEF SubmitReject, NewRun
    <2> QED
      BY <1>0, <1>1, <2>1 DEF SubmitReject, Becomes
  <1>2. ASSUME NEW c \in Clients, SubmitAccept(c) \/ RollbackDelete(c)
        PROVE  records'[r] \in {records[r], "none"} \/ (records'[r] = "queued" /\ r = lastRun + 1)
    BY <1>0, <1>2 DEF SubmitAccept, RollbackDelete
  <1>3. ASSUME NEW a \in Actors, EndStep(a)
        PROVE  records'[r] = records[r] \/ (cur(a) = r /\ pc(a) \in {"startUpsert", "endUpsert", "readUpsert"} /\ records'[r] = loc(a))
    BY <1>0, <1>3 DEF EndStep, PersistMetaAsync, Remember, Upsert, UpsertRecord, NotifyOpsManualRunRecord, MarkNotified, RecordRun,
         FinishPublish, Step
  <1>4. ASSUME Restart PROVE Restarts /\ metas'[r] = records'[r]
                              /\ (records'[r] = runStore'[r] \/ (runStore'[r] = "none" /\ records'[r] = records[r]))
    BY <1>4 DEF Restart, Restarts, Marks
  <1>5. ASSUME NEW c \in Clients, \/ \E k \in Keys \cup {NoKey} : SubmitCheck(c, k)
                                  \/ \E q \in Runs : Get(c, q) \/ Cancel(c, q)
                                  \/ List(c) \/ (ClientStep(c) /\ ~SubmitReject(c) /\ ~SubmitAccept(c) /\ ~RollbackDelete(c))
        PROVE  records' = records
    BY <1>5 DEF SubmitCheck, Get, Cancel, List, ClientStep, SubmitInvalid, RememberRejected,
         SubmitRemember, SubmitJob, SubmitPublish, EnqueueCheck, EnqueueSend, RollbackJob, RollbackForget, GetLookup, ListRuns, ReadNext
  <1>6. ASSUME NEW w \in Workers, WorkerStep(w) PROVE records' = records
    BY <1>6 DEF WorkerStep, Dequeue, WorkerExit, ProcessJob, CreateCanceled, StartPublish, CreateRun, BeginRun, TrackerWrite,
         Execute, Settle
  <1>7. Close \/ Exit \/ Crash \/ UNCHANGED vars => records' = records
    BY DEF Close, Exit, Crash, Stop, vars
  <1> HIDE DEF svars, gvars
  <1> QED
    BY <1>1, <1>2, <1>3, <1>4, <1>5, <1>6, <1>7 DEF Next, ClientStep

LEMMA HeldWords ==
  ASSUME TypeOK, Shape, OneOwner, Fresh, JobsTell, Stored, Words, [Next]_vars, bounds.faults = 0, bounds'.faults = 0,
         NEW a \in Actors, NEW r \in Runs, NEW s \in MetaStatus, r = act'[a].run, s = act'[a].status
  PROVE  Word(r, s)'
  <1>0. /\ \A c \in Clients : c \in Actors /\ c \notin Workers
        /\ \A w \in Workers : w \in Actors /\ w \notin Clients
        /\ NoRun \notin Runs
    BY ServiceConstants DEF Actors, Runs, NoRun
  <1>1. r = act'[a].run /\ s = act'[a].status
    OBVIOUS
  <1>2. ~Fault
    BY BoundsKept
  <1>3. CASE r = cur(a) /\ s = loc(a)
    <2>1. Word(r, s)
      BY <1>0, <1>3 DEF Words
    <2> QED
      BY <2>1, WordStands, Kinds
  <1>4. CASE ~IsTerminalRunStatus(s)
    BY <1>1, <1>4 DEF Word, IsTerminalRunStatus
  <1>5. CASE s = "canceled" /\ r \in preCanceled'
    BY <1>1, <1>5 DEF Word
  <1>6. CASE s = runStore'[r]
    BY <1>1, <1>6 DEF Word
  <1>7. ASSUME NEW c \in Clients, NEW q \in Runs, Begins(c, q), a = c PROVE Word(r, s)'
    <2>1. NotYet(q) /\ q <= lastRun' /\ q = r
      BY <1>1, <1>7, Numbered DEF Begins, Fresh, Becomes, Runs
    <2>2. runStore'[q] = "none" /\ ~Queued(q)'
      BY <1>7, <2>1 DEF Begins, NotYet, Queued
    <2>3. CASE act'[c].pc = "rejRemember"
      <3>1. Dead(q)'
        BY <1>0, <1>7, <2>1, <2>2, <2>3 DEF Dead, Owns, Begins, Becomes, Others, NotYet, cur, pc, Rej
      <3> QED
        BY <2>1, <2>2, <3>1 DEF Word
    <2>4. CASE act'[c].pc # "rejRemember"
      BY <1>1, <1>7, <2>1, <2>4 DEF Begins, Becomes, Word, IsTerminalRunStatus
    <2> QED
      BY <2>3, <2>4
  <1>8. ASSUME NEW c \in Clients, NEW q \in Runs, ReadsOne(c, q), a = c PROVE Word(r, s)'
    <2>1. r = q /\ s = listed[c][q]
      BY <1>1, <1>8 DEF ReadsOne, Becomes
    <2>2. Word(r, s)
      BY <2>1 DEF Words
    <2> QED
      BY <2>2, WordStands, Kinds
  <1>9. ASSUME NEW w \in Workers, Decides(w), a = w PROVE ~IsTerminalRunStatus(s) \/ (s = "canceled" /\ r \in preCanceled')
    BY <1>1, <1>9 DEF Decides, Becomes, JobsTell, IsTerminalRunStatus
  <1>10. ASSUME NEW w \in Workers, NEW t \in RunStatus, Ends(w, t), a = w PROVE s = runStore'[r]
    <2>1. runStore' = [runStore EXCEPT ![r] = s]
      BY <1>1, <1>2, <1>10 DEF Ends, Becomes
    <2> QED
      BY <2>1 DEF TypeOK
  <1>11. ASSUME NEW b \in Actors, Others(b), a # b PROVE r = cur(a) /\ s = loc(a)
    BY <1>1, <1>11 DEF Others, cur, loc
  <1>12. Passes(a) \/ Stays \/ Restarts => r = cur(a) /\ s = loc(a)
    BY <1>1 DEF Passes, Stays, Restarts, cur, loc
  <1>13. ~Leaves(a) /\ ~Stops /\ ~(a \in Clients /\ (Sends(a) \/ Undoes(a) \/ Reads(a)))
    BY <1>0, <1>1 DEF Leaves, Stops, Sends, Undoes, Reads, Becomes, Idle
  <1>14. ASSUME a \in Clients, Readies(a) \/ Withdraws(a) PROVE r = cur(a) /\ s = loc(a)
    BY <1>1, <1>14 DEF Readies, Withdraws, Becomes
  <1>15. ASSUME NEW q \in Runs, Cancels(a, q) PROVE s = "canceled" /\ r \in preCanceled'
    BY <1>1, <1>15 DEF Cancels, Becomes
  <1>16. ASSUME a \in Workers, Settles(a) \/ Cancelled(a) PROVE r = cur(a) /\ s = loc(a)
    BY <1>1, <1>16 DEF Settles, Cancelled, Becomes
  <1>17. ASSUME a \in Workers, Takes(a) PROVE ~IsTerminalRunStatus(s)
    BY <1>1, <1>17 DEF Takes, Becomes, IsTerminalRunStatus
  <1>18. ASSUME a \in Workers, Creates(a) \/ Enters(a) PROVE ~IsTerminalRunStatus(s) \/ (r = cur(a) /\ s = loc(a))
    BY <1>1, <1>18 DEF Creates, Enters, Becomes, IsTerminalRunStatus
  <1>19. \E b \in Actors : ((Others(b) /\ a # b)
         \/ Word(r, s)' \/ ~IsTerminalRunStatus(s) \/ (r = cur(a) /\ s = loc(a)) \/ (s = "canceled" /\ r \in preCanceled') \/ s = runStore'[r])
    <2>1. ASSUME NEW b \in Actors, Passes(b) \/ Leaves(b) PROVE Others(b)
      BY <2>1 DEF Passes, Leaves
    <2>2. ASSUME NEW c \in Clients, \/ Reads(c) \/ Readies(c) \/ Withdraws(c) \/ Sends(c) \/ Undoes(c)
                                    \/ \E q \in Runs : ReadsOne(c, q) \/ Begins(c, q) \/ Cancels(c, q)
          PROVE  Others(c)
      BY <2>2 DEF Reads, ReadsOne, Begins, Cancels, Readies, Withdraws, Sends, Undoes, Becomes
    <2>3. ASSUME NEW w \in Workers, Takes(w) \/ Decides(w) \/ Settles(w) \/ Cancelled(w) \/ Creates(w) \/ Enters(w)
                                    \/ \E t \in RunStatus : Ends(w, t)
          PROVE  Others(w)
      BY <2>3 DEF Takes, Decides, Settles, Cancelled, Creates, Enters, Ends, Becomes
    <2> QED
      BY <1>0, <1>7, <1>8, <1>9, <1>10, <1>12, <1>13, <1>14, <1>15, <1>16, <1>17, <1>18, <2>1, <2>2, <2>3, Kinds DEF Kind
  <1> QED
    BY <1>3, <1>4, <1>5, <1>6, <1>11, <1>19

LEMMA WordsKept ==
  ASSUME TypeOK, Shape, OneOwner, Fresh, JobsTell, Stored, Words, Tellers, [Next]_vars
  PROVE  Words'
  <1>0. /\ \A c \in Clients : c \in Actors
        /\ NoRun \notin Runs
    BY DEF Actors, Runs, NoRun
  <1>1. SUFFICES ASSUME bounds'.faults = 0
        PROVE  /\ \A a \in Actors : cur(a)' # NoRun => Word(cur(a), loc(a))'
               /\ \A c \in Clients, r \in Runs : Word(r, listed[c][r])'
               /\ \A r \in Runs : Word(r, records[r])'
               /\ \A r \in Runs : told'[r] # <<>> => IsTerminalRunStatus(told'[r][1]) /\ Word(r, told[r][1])'
    BY DEF Words, IsTerminalRunStatus
  <1>2. bounds.faults = 0
    <2>1. bounds'.faults >= bounds.faults /\ bounds.faults \in Nat
      BY BoundsKept, Bounded
    <2> QED
      BY <1>1, <2>1
  <1>3. Kind
    BY Kinds
  <1>4. ASSUME NEW a \in Actors, cur(a)' # NoRun PROVE Word(cur(a), loc(a))'
    <2>1. PICK r \in Runs, s \in MetaStatus : r = act'[a].run /\ s = act'[a].status
      BY <1>4, ActsKept DEF ActType, cur
    <2>2. Word(r, s)'
      BY <1>1, <1>2, <2>1, HeldWords
    <2> QED
      BY <2>1, <2>2 DEF Word, Dead, cur, loc
  <1>5. ASSUME NEW c \in Clients, NEW r \in Runs PROVE Word(r, listed[c][r])'
    <2>1. PICK s : s = listed'[c][r]
      OBVIOUS
    <2>2. CASE s = listed[c][r]
      <3>1. Word(r, s)
        BY <1>2, <2>2 DEF Words
      <3>2. Word(r, s)'
        BY <1>3, <3>1, WordStands
      <3> QED
        BY <2>1, <3>2 DEF Word
    <2> QED
      BY <1>3, <2>1, <2>2, ListedWritten DEF Word, IsTerminalRunStatus
  <1>6. ASSUME NEW r \in Runs PROVE Word(r, records[r])'
    <2>1. PICK s \in MetaStatus : s = records'[r]
      BY FilesKept DEF Files
    <2>2. ASSUME Word(r, s) PROVE Word(r, records[r])'
      <3>1. Word(r, s)'
        BY <1>3, <2>2, WordStands
      <3> QED
        BY <2>1, <3>1 DEF Word
    <2>3. CASE s = records[r]
      <3>1. Word(r, s)
        BY <1>2, <2>3 DEF Words
      <3> QED
        BY <2>2, <3>1
    <2>4. CASE s \in {"none", "queued"}
      BY <2>1, <2>4 DEF Word, IsTerminalRunStatus
    <2>5. ASSUME NEW a \in Actors, cur(a) = r, s = loc(a) PROVE Word(r, records[r])'
      <3>1. Word(r, s)
        BY <1>0, <1>2, <2>5 DEF Words
      <3> QED
        BY <2>2, <3>1
    <2>6. ASSUME NEW c \in Clients, act'[c].run = r, act'[c].status = s PROVE Word(r, records[r])'
      <3>1. Word(r, s)'
        BY <1>0, <1>1, <1>2, <2>6, HeldWords
      <3> QED
        BY <2>1, <3>1 DEF Word
    <2>7. CASE s = runStore'[r]
      BY <2>1, <2>7 DEF Word
    <2> QED
      BY <2>1, <2>3, <2>4, <2>5, <2>6, <2>7, RecordsWritten
  <1>7. ASSUME NEW r \in Runs, told'[r] # <<>> PROVE IsTerminalRunStatus(told'[r][1]) /\ Word(r, told[r][1])'
    <2>1. told \in [Runs -> Seq(RunStatus)]
      BY DEF TypeOK
    <2>2. PICK s : s = told'[r][1]
      OBVIOUS
    <2>3. ASSUME IsTerminalRunStatus(s), Word(r, s) PROVE IsTerminalRunStatus(told'[r][1]) /\ Word(r, told[r][1])'
      <3>1. Word(r, s)'
        BY <1>3, <2>3, WordStands
      <3> QED
        BY <2>2, <2>3, <3>1 DEF Word
    <2>4. CASE told'[r] = told[r]
      <3>1. IsTerminalRunStatus(s) /\ Word(r, s)
        BY <1>2, <1>7, <2>2, <2>4 DEF Words
      <3> QED
        BY <2>3, <3>1
    <2>5. ASSUME NEW a \in Actors, pc(a) \in Telling, cur(a) = r, told'[r] = Append(told[r], loc(a))
          PROVE  IsTerminalRunStatus(told'[r][1]) /\ Word(r, told[r][1])'
      <3>1. told[r] = <<>> /\ IsTerminalRunStatus(loc(a)) /\ Word(r, loc(a))
        BY <1>0, <1>2, <2>5 DEF Tellers, Words
      <3>2. s = loc(a)
        BY <2>2, <2>5, <3>1
      <3> QED
        BY <2>3, <3>1, <3>2
    <2> QED
      BY <2>1, <2>4, <2>5, ToldWritten
  <1> QED
    BY <1>4, <1>5, <1>6, <1>7

-----------------------------------------------------------------------------
(* The sink is told once.                                                  *)

LEMMA SinkWritten ==
  ASSUME [Next]_vars
  PROVE  Stops \/ sinkNotified \subseteq sinkNotified'
  <1> USE DEF svars, gvars
  <1>1. ASSUME NEW c \in Clients, \/ \E k \in Keys \cup {NoKey} : SubmitCheck(c, k)
                                  \/ \E q \in Runs : Get(c, q) \/ Cancel(c, q)
                                  \/ List(c) \/ ClientStep(c)
        PROVE  sinkNotified' = sinkNotified
    BY <1>1 DEF SubmitCheck, Get, Cancel, List, ClientStep, SubmitInvalid, SubmitReject, RememberRejected, SubmitAccept,
         SubmitRemember, SubmitJob, SubmitPublish, EnqueueCheck, EnqueueSend, RollbackJob, RollbackForget, RollbackDelete, GetLookup, ListRuns, ReadNext
  <1>2. ASSUME NEW w \in Workers, WorkerStep(w) PROVE sinkNotified' = sinkNotified
    BY <1>2 DEF WorkerStep, Dequeue, WorkerExit, ProcessJob, CreateCanceled, StartPublish, CreateRun, BeginRun, TrackerWrite,
         Execute, Settle
  <1>3. ASSUME NEW a \in Actors, EndStep(a) PROVE sinkNotified \subseteq sinkNotified'
    BY <1>3 DEF EndStep, PersistMetaAsync, Remember, Upsert, NotifyOpsManualRunRecord, MarkNotified, RecordRun, FinishPublish
  <1>4. Close \/ Restart \/ UNCHANGED vars => sinkNotified' = sinkNotified
    BY DEF Close, Restart, vars
  <1>5. Exit \/ Crash => Stops
    BY DEF Exit, Crash, Stop, Stops, NothingListed
  <1> HIDE DEF svars, gvars
  <1> QED
    BY <1>1, <1>2, <1>3, <1>4, <1>5 DEF Next

LEMMA TellingEntered ==
  ASSUME TypeOK, Kind, NEW a \in Actors, act'[a].pc \in Telling
  PROVE  ~Stops /\ (act'[a] = act[a] \/ (Passes(a) /\ Others(a)))
  <1>0. /\ \A c \in Clients : c \in Actors
        /\ \A w \in Workers : w \in Actors
    BY DEF Actors
  <1>1. ~Stops
    BY DEF Stops, Idle, Telling
  <1>2. ASSUME NEW b \in Actors, Others(b), act'[b].pc \notin Telling PROVE act'[a] = act[a]
    BY <1>2 DEF Others
  <1>3. ASSUME NEW b \in Actors, Leaves(b) PROVE Others(b) /\ act'[b].pc \notin Telling
    BY <1>3 DEF Leaves, Idle, Telling
  <1>4. ASSUME NEW c \in Clients, \/ Reads(c) \/ Readies(c) \/ Withdraws(c) \/ Sends(c) \/ Undoes(c)
                                  \/ \E r \in Runs : ReadsOne(c, r) \/ Begins(c, r) \/ Cancels(c, r)
        PROVE  Others(c) /\ act'[c].pc \notin Telling
    BY <1>4 DEF Reads, ReadsOne, Begins, Cancels, Readies, Withdraws, Sends, Undoes, Becomes, Idle, Telling
  <1>5. ASSUME NEW w \in Workers, Takes(w) \/ Decides(w) \/ Settles(w) \/ Cancelled(w) \/ Creates(w) \/ Enters(w)
                                  \/ \E s \in RunStatus : Ends(w, s)
        PROVE  Others(w) /\ act'[w].pc \notin Telling
    BY <1>5 DEF Takes, Decides, Settles, Cancelled, Creates, Enters, Ends, Becomes, Telling
  <1>6. ASSUME NEW b \in Actors, Passes(b) PROVE act'[a] = act[a] \/ (Passes(a) /\ Others(a))
    BY <1>6 DEF Passes, Others
  <1>7. Stays \/ Restarts => act'[a] = act[a]
    BY DEF Stays, Restarts
  <1> QED
    BY <1>0, <1>1, <1>2, <1>3, <1>4, <1>5, <1>6, <1>7 DEF Kind

LEMMA TellersKept ==
  ASSUME TypeOK, Shape, Fresh, Tellers, [Next]_vars
  PROVE  Tellers'
  <1>0. Kind /\ NoRun \notin Runs /\ told \in [Runs -> Seq(RunStatus)]
    BY SMTT(40), Kinds DEF TypeOK, Runs, NoRun
  <1>1. \A a \in Actors : pc(a) \in Telling => cur(a) \in Runs
    BY About DEF Telling, Free, Scanning
  <1>2. ASSUME NEW a \in Actors, act'[a].pc \in Telling, act'[a] = act[a]
        PROVE  IsTerminalRunStatus(act'[a].status) /\ act'[a].run \in sinkNotified' /\ told'[act'[a].run] = <<>>
    <2>1. PICK r \in Runs : r = cur(a) /\ r = act'[a].run
      BY <1>1, <1>2 DEF pc, cur
    <2>2. pc(a) \in Telling /\ IsTerminalRunStatus(loc(a)) /\ r \in sinkNotified /\ told[r] = <<>> /\ loc(a) = act'[a].status
      BY <1>2, <2>1 DEF Tellers, pc, loc
    <2>3. r \in sinkNotified'
      BY <1>0, <1>2, <2>2, SinkWritten, TellingEntered
    <2>4. told'[r] = <<>>
      <3>1. ASSUME NEW b \in Actors, pc(b) \in Telling, act'[b].pc \notin Telling,
                   told' = [told EXCEPT ![cur(b)] = Append(told[cur(b)], loc(b))]
            PROVE  told'[r] = <<>>
        <4>1. b # a
          BY <1>2, <3>1
        <4>2. cur(b) # r
          BY <2>1, <2>2, <3>1, <4>1 DEF Tellers
        <4> QED
          BY <1>0, <2>2, <3>1, <4>2
      <3> QED
        BY <2>2, <3>1, ToldWritten
    <2> QED
      BY <2>1, <2>2, <2>3, <2>4
  <1>3. ASSUME NEW a \in Actors, act'[a].pc \in Telling, Passes(a)
        PROVE  /\ IsTerminalRunStatus(act'[a].status) /\ act'[a].run \in sinkNotified' /\ told'[act'[a].run] = <<>>
               /\ act'[a].run \notin sinkNotified
    <2>1. /\ pc(a) \in {"notify", "rejNotify"} /\ told' = told /\ IsTerminalRunStatus(loc(a)) /\ cur(a) \notin sinkNotified
          /\ sinkNotified' = sinkNotified \cup {cur(a)} /\ act'[a].run = cur(a) /\ act'[a].status = loc(a)
      BY <1>3 DEF Passes
    <2>2. cur(a) \in Runs
      BY <2>1, About DEF Free, Scanning
    <2>3. told[cur(a)] = <<>>
      <3>1. ~Silent(cur(a))
        BY <2>1 DEF Silent, Read
      <3> QED
        BY <2>1, <2>2, <3>1 DEF Tellers
    <2> QED
      BY <2>1, <2>3
  <1>4. ASSUME NEW a \in Actors, act'[a].pc \in Telling
        PROVE  /\ IsTerminalRunStatus(act'[a].status) /\ act'[a].run \in sinkNotified' /\ told'[act'[a].run] = <<>>
    BY <1>0, <1>2, <1>3, <1>4, TellingEntered
  <1>5. ASSUME NEW a \in Actors, NEW b \in Actors, act'[a].pc \in Telling, act'[b].pc \in Telling, act'[a].run = act'[b].run
        PROVE  a = b
    <2>1. ASSUME NEW x \in Actors, NEW y \in Actors, act'[x].pc \in Telling, act'[y].pc \in Telling, act'[x].run = act'[y].run,
                 Passes(x), act'[y] = act[y]
          PROVE  FALSE
      <3>1. act'[x].run \notin sinkNotified
        BY <1>3, <2>1
      <3>2. cur(y) \in sinkNotified
        BY <2>1 DEF Tellers, pc, cur
      <3> QED
        BY <2>1, <3>1, <3>2 DEF cur
    <2>2. CASE act'[a] = act[a] /\ act'[b] = act[b]
      BY <1>5, <2>2 DEF Tellers, pc, cur
    <2>3. ASSUME Passes(a), Others(a), a # b PROVE FALSE
      BY <1>5, <2>1, <2>3 DEF Others
    <2>4. ASSUME Passes(b), Others(b), a # b PROVE FALSE
      BY <1>5, <2>1, <2>4 DEF Others
    <2> QED
      BY <1>0, <1>5, <2>2, <2>3, <2>4, TellingEntered
  <1>6. ASSUME NEW r \in Runs, told'[r] # <<>> PROVE Len(told'[r]) = 1 /\ (r \in sinkNotified' \/ Silent(r)')
    <2>1. ASSUME told[r] # <<>>, told'[r] = told[r] PROVE Len(told'[r]) = 1 /\ (r \in sinkNotified' \/ Silent(r)')
      <3>1. Len(told[r]) = 1 /\ (r \in sinkNotified \/ Silent(r))
        BY <2>1 DEF Tellers
      <3>2. Silent(r) => Silent(r)'
        BY <1>0, SilentStands
      <3>3. Stops => Silent(r)'
        <4>1. r <= lastRun /\ r \in Nat /\ lastRun \in Nat
          BY <2>1, Numbered DEF Fresh, NotYet, Runs
        <4> QED
          BY <1>0, <4>1 DEF Stops, Silent, Queued, Idle, cur
      <3> QED
        BY <2>1, <3>1, <3>2, <3>3, SinkWritten
    <2>2. ASSUME NEW a \in Actors, pc(a) \in Telling, cur(a) = r, told'[r] = Append(told[r], loc(a)), sinkNotified' = sinkNotified
          PROVE  Len(told'[r]) = 1 /\ r \in sinkNotified'
      <3>1. told[r] = <<>> /\ r \in sinkNotified
        BY <2>2 DEF Tellers
      <3> QED
        BY <2>2, <3>1
    <2>3. \/ told'[r] = told[r]
          \/ \E a \in Actors : pc(a) \in Telling /\ cur(a) = r /\ told'[r] = Append(told[r], loc(a)) /\ sinkNotified' = sinkNotified
      BY <1>0, ToldWritten
    <2> QED
      BY <1>6, <2>1, <2>2, <2>3
  <1>7. \A a \in Actors : act'[a].pc \in Telling => IsTerminalRunStatus(act'[a].status) /\ act'[a].run \in sinkNotified' /\ told'[act'[a].run] = <<>>
    BY <1>4
  <1>8. \A a, b \in Actors : act'[a].pc \in Telling /\ act'[b].pc \in Telling /\ act'[a].run = act'[b].run => a = b
    BY <1>5
  <1> QED
    BY <1>6, <1>7, <1>8 DEF Tellers, pc, cur, loc, IsTerminalRunStatus

-----------------------------------------------------------------------------
(* A start never follows a finish.                                         *)

LEMMA FinishedOver ==
  ASSUME TypeOK, Shape, OneOwner, Fresh, Cancelers, NEW a \in Actors, pc(a) = "finishPublish", cur(a) \in Runs
  PROVE  Over(cur(a))
  <1>0. /\ \A c \in Clients : c \in Actors
        /\ \A w \in Workers : w \in Actors
        /\ a \in Clients \/ a \in Workers
    BY DEF Actors
  <1>1. cur(a) <= lastRun
    BY Numbered DEF Fresh, NotYet, Runs
  <1>2. CASE a \in Clients
    BY <1>1, <1>2 DEF Cancelers, End, Over
  <1>3. CASE a \in Workers
    <2>1. Owns(a, cur(a))
      BY <1>3 DEF Owns
    <2>2. ~Queued(cur(a))
      BY <2>1 DEF OneOwner
    <2>3. ASSUME NEW c \in Clients, cur(c) = cur(a), pc(c) \in Submitting PROVE FALSE
      <3>1. Owns(c, cur(a)) /\ c # a
        BY <2>3 DEF Owns, Submitting, Early, Mid, Undo
      <3> QED
        BY <1>0, <2>1, <3>1 DEF OneOwner
    <2>4. ASSUME NEW w \in Workers, cur(w) = cur(a) PROVE pc(w) = "finishPublish"
      <3>1. Owns(w, cur(a))
        BY <2>4 DEF Owns
      <3> QED
        BY <1>0, <2>1, <3>1 DEF OneOwner
    <2> QED
      BY <1>1, <2>2, <2>3, <2>4 DEF Over
  <1> QED
    BY <1>0, <1>2, <1>3

LEMMA HistoryKept ==
  ASSUME TypeOK, Shape, OneOwner, Fresh, JobsTell, Cancelers, Finished, NoStartAfterFinish, [Next]_vars
  PROVE  Finished' /\ NoStartAfterFinish'
  <1>0. Kind /\ history \in [Runs -> Seq(Events)]
    BY Kinds DEF TypeOK, Events
  <1>1. ASSUME NEW r \in Runs, NEW i \in 1..Len(history[r]), history[r][i] = "run_finish" PROVE Over(r)
    BY <1>1 DEF Finished
  <1>2. ASSUME NEW r \in Runs, NEW a \in Actors, NEW t \in Events, history'[r] = Append(history[r], t)
        PROVE  /\ Len(history[r]) \in Nat /\ Len(history'[r]) = Len(history[r]) + 1
               /\ history'[r][Len(history[r]) + 1] = t
               /\ \A i \in 1..Len(history[r]) : history'[r][i] = history[r][i]
    <2>1. history[r] \in Seq(Events)
      BY <1>0
    <2> QED
      BY <1>2, <2>1
  <1>3. ASSUME NEW r \in Runs, NEW i \in 1..Len(history'[r]), history'[r][i] = "run_finish" PROVE Over(r)
    <2>1. CASE history'[r] = history[r]
      BY <1>1, <1>3, <2>1
    <2>2. ASSUME NEW a \in Actors, NEW t \in Events, cur(a) = r, history'[r] = Append(history[r], t),
                 t = "run_finish" => pc(a) = "finishPublish"
          PROVE  Over(r)
      <3>1. CASE i \in 1..Len(history[r])
        BY <1>1, <1>2, <1>3, <2>2, <3>1
      <3>2. CASE i \notin 1..Len(history[r])
        <4>1. i = Len(history[r]) + 1
          BY <1>2, <2>2, <3>2
        <4>2. t = "run_finish"
          BY <1>2, <1>3, <2>2, <4>1
        <4> QED
          BY <2>2, <4>2, FinishedOver
      <3> QED
        BY <3>1, <3>2
    <2>3. \/ history'[r] = history[r]
          \/ \E a \in Actors, t \in Events :
               /\ cur(a) = r /\ history'[r] = Append(history[r], t)
               /\ t = "run_finish" => pc(a) = "finishPublish"
      BY HistoryWritten
    <2> QED
      BY <2>1, <2>2, <2>3
  <1>4. Finished'
    <2>1. \A r \in Runs : Over(r) => Over(r)'
      BY <1>0, OverStands
    <2> QED
      BY <1>3, <2>1 DEF Finished
  <1>5. ASSUME NEW r \in Runs, NEW i \in 1..Len(history'[r]), NEW j \in 1..Len(history'[r]), i < j,
               history'[r][i] = "run_finish"
        PROVE  history'[r][j] # "run_start"
    <2>1. CASE history'[r] = history[r]
      BY <1>5, <2>1 DEF NoStartAfterFinish
    <2>2. ASSUME NEW a \in Actors, NEW t \in Events, cur(a) = r, history'[r] = Append(history[r], t),
                 t = "run_start" => pc(a) = "startPublish"
          PROVE  history'[r][j] # "run_start"
      <3>1. i \in 1..Len(history[r]) /\ history[r][i] = "run_finish"
        BY <1>2, <1>5, <2>2
      <3>2. CASE j \in 1..Len(history[r])
        BY <1>2, <1>5, <2>2, <3>1, <3>2 DEF NoStartAfterFinish
      <3>3. CASE j \notin 1..Len(history[r])
        <4>1. j = Len(history[r]) + 1
          BY <1>2, <2>2, <3>3
        <4>2. history'[r][j] = t
          BY <1>2, <2>2, <4>1
        <4>3. Over(r)
          BY <1>1, <3>1
        <4>4. ASSUME pc(a) = "startPublish" PROVE FALSE
          <5>1. a \in Workers
            BY <4>4 DEF Shape, Actors, ClientPc
          <5>2. r \notin preCanceled
            BY <2>2, <4>4, <5>1 DEF JobsTell, Begun
          <5> QED
            BY <2>2, <4>3, <4>4, <5>1, <5>2 DEF Over
        <4> QED
          BY <2>2, <4>2, <4>4
      <3> QED
        BY <3>2, <3>3
    <2>3. \/ history'[r] = history[r]
          \/ \E a \in Actors, t \in Events :
               /\ cur(a) = r /\ history'[r] = Append(history[r], t)
               /\ t = "run_start" => pc(a) = "startPublish"
      BY HistoryWritten
    <2> QED
      BY <2>1, <2>2, <2>3
  <1> QED
    BY <1>4, <1>5 DEF NoStartAfterFinish

-----------------------------------------------------------------------------
(* An undone Submit leaves nothing.                                        *)

LEMMA MetasWritten ==
  ASSUME TypeOK, [Next]_vars, NEW r \in Runs
  PROVE  \/ metas'[r] = metas[r]
         \/ metas'[r] = "none"
         \/ \E c \in Clients, q \in Runs : Cancels(c, q) /\ r = q
         \/ \E a \in Actors : /\ cur(a) = r
                              /\ pc(a) \in {"rejRemember", "subRemember", "claimed", "settle", "startRemember", "endRemember", "readRemember"}
         \/ Restarts /\ (runStore[r] = "none" => metas'[r] = records[r])
  <1> USE DEF svars, gvars
  <1>0. metas \in [Runs -> MetaStatus] /\ (\A c \in Clients : c \in Actors) /\ (\A w \in Workers : w \in Actors)
    BY DEF TypeOK, Actors
  <1>1. ASSUME NEW c \in Clients, NEW q \in Runs, Cancel(c, q) PROVE metas'[r] = metas[r] \/ (Cancels(c, q) /\ r = q)
    <2>1. CASE CancelStarted(c, q)
      BY <1>1, <2>1 DEF Cancel, CancelStarted
    <2>2. CASE CancelWaiting(c, q)
      <3>1. Cancels(c, q)
        BY <1>0, <1>1, <2>2, Goes DEF Cancel, CancelWaiting, Cancels, Still, Alive
      <3> QED
        BY <1>0, <2>2, <3>1 DEF CancelWaiting
    <2> QED
      BY <1>1, <2>1, <2>2 DEF Cancel
  <1>2. ASSUME NEW c \in Clients, RememberRejected(c) \/ SubmitRemember(c) PROVE metas'[r] = metas[r] \/ (cur(c) = r /\ pc(c) \in {"rejRemember", "subRemember"})
    BY <1>0, <1>2 DEF RememberRejected, SubmitRemember, RememberMeta, Step
  <1>3. ASSUME NEW c \in Clients, RollbackForget(c) PROVE metas'[r] \in {metas[r], "none"}
    BY <1>0, <1>3 DEF RollbackForget
  <1>4. ASSUME NEW w \in Workers, ProcessJob(w) \/ Settle(w) PROVE metas'[r] = metas[r] \/ (cur(w) = r /\ pc(w) \in {"claimed", "settle"})
    BY <1>0, <1>4 DEF ProcessJob, Settle, Step
  <1>5. ASSUME NEW a \in Actors, EndStep(a)
        PROVE  metas'[r] = metas[r] \/ (cur(a) = r /\ pc(a) \in {"startRemember", "endRemember", "readRemember"})
    BY <1>0, <1>5 DEF EndStep, PersistMetaAsync, Remember, RememberMeta, Upsert, NotifyOpsManualRunRecord, MarkNotified, RecordRun,
         FinishPublish, Step
  <1>6. ASSUME Restart PROVE Restarts /\ (runStore[r] = "none" => metas'[r] = records[r])
    BY <1>6 DEF Restart, Restarts, Marks, MarkInterrupted
  <1>7. ASSUME NEW c \in Clients, \/ \E k \in Keys \cup {NoKey} : SubmitCheck(c, k)
                                  \/ \E q \in Runs : Get(c, q)
                                  \/ List(c) \/ (ClientStep(c) /\ ~RememberRejected(c) /\ ~SubmitRemember(c) /\ ~RollbackForget(c))
        PROVE  metas' = metas
    BY <1>7 DEF SubmitCheck, Get, List, ClientStep, SubmitInvalid, SubmitReject, SubmitAccept, SubmitJob,
         SubmitPublish, EnqueueCheck, EnqueueSend, RollbackJob, RollbackDelete, GetLookup, ListRuns, ReadNext
  <1>8. ASSUME NEW w \in Workers, WorkerStep(w), ~ProcessJob(w), ~Settle(w) PROVE metas' = metas
    BY <1>8 DEF WorkerStep, Dequeue, WorkerExit, CreateCanceled, StartPublish, CreateRun, BeginRun, TrackerWrite, Execute
  <1>9. Close \/ UNCHANGED vars => metas' = metas
    BY DEF Close, vars
  <1>10. Exit \/ Crash => metas'[r] = "none"
    BY DEF Exit, Crash, Stop
  <1> HIDE DEF svars, gvars
  <1> QED
    BY <1>0, <1>1, <1>2, <1>3, <1>4, <1>5, <1>6, <1>7, <1>8, <1>9, <1>10 DEF Next, ClientStep, WorkerStep

LEMMA UndoneKept ==
  ASSUME TypeOK, Shape, OneOwner, Fresh, JobsTell, Stored, Cancelers, Undone, [Next]_vars
  PROVE  Undone'
  <1>0. /\ \A c \in Clients : c \in Actors /\ c \notin Workers
        /\ \A w \in Workers : w \in Actors /\ w \notin Clients
        /\ \A a \in Actors : a \in Clients \/ a \in Workers
        /\ NoRun \notin Runs /\ Kind
    BY ServiceConstants, Kinds DEF Actors, Runs, NoRun
  <1>1. ASSUME NEW c \in Clients, act'[c].pc = "rbDelete" PROVE Passes(c) \/ (act'[c] = act[c] /\ ~Restarts)
    <2>1. ASSUME NEW b \in Actors, Others(b), act'[b].pc # "rbDelete" PROVE act'[c] = act[c]
      BY <1>0, <1>1, <2>1 DEF Others
    <2>2. ASSUME NEW b \in Actors, Leaves(b) PROVE Others(b) /\ act'[b].pc # "rbDelete"
      BY <2>2 DEF Leaves, Idle
    <2>3. ASSUME NEW d \in Clients, \/ Reads(d) \/ Readies(d) \/ Withdraws(d) \/ Sends(d) \/ Undoes(d)
                                    \/ \E r \in Runs : ReadsOne(d, r) \/ Begins(d, r) \/ Cancels(d, r)
          PROVE  Others(d) /\ act'[d].pc # "rbDelete"
      BY <2>3 DEF Reads, ReadsOne, Begins, Cancels, Readies, Withdraws, Sends, Undoes, Becomes, Idle
    <2>4. ASSUME NEW w \in Workers, Takes(w) \/ Decides(w) \/ Settles(w) \/ Cancelled(w) \/ Creates(w) \/ Enters(w)
                                    \/ \E s \in RunStatus : Ends(w, s)
          PROVE  Others(w) /\ act'[w].pc # "rbDelete"
      BY <2>4 DEF Takes, Decides, Settles, Cancelled, Creates, Enters, Ends, Becomes
    <2>5. ASSUME NEW b \in Actors, Passes(b) PROVE Passes(c) \/ act'[c] = act[c]
      BY <1>0, <2>5 DEF Passes, Others
    <2>6. ~Stops /\ ~Restarts /\ (Stays => act'[c] = act[c])
      BY <1>0, <1>1 DEF Stops, Restarts, Stays, Idle, Shape
    <2> QED
      BY <1>0, <2>1, <2>2, <2>3, <2>4, <2>5, <2>6 DEF Kind
  <1>2. ASSUME NEW c \in Clients, act'[c].pc = "rbDelete", act'[c].run \notin preCanceled' PROVE metas'[act'[c].run] = "none"
    <2>1. CASE Passes(c)
      BY <1>2, <2>1 DEF Passes
    <2>2. CASE act'[c] = act[c] /\ ~Restarts
      <3>1. PICK r \in Runs : r = cur(c) /\ r = act'[c].run /\ pc(c) = "rbDelete"
        BY <1>0, <1>2, <2>2, About DEF pc, cur, Free, Scanning
      <3>2. r \notin preCanceled /\ metas[r] = "none" /\ runStore[r] = "none"
        <4>1. r \notin preCanceled
          BY <1>0, <1>2, <3>1, Grows
        <4> QED
          BY <3>1, <4>1 DEF Undone, Stored, Submitting, Undo
      <3>3. ASSUME NEW d \in Clients, NEW q \in Runs, Cancels(d, q), r = q PROVE FALSE
        BY <1>2, <3>1, <3>3 DEF Cancels
      <3>4. ASSUME NEW a \in Actors, cur(a) = r,
                   pc(a) \in {"rejRemember", "subRemember", "claimed", "settle", "startRemember", "endRemember", "readRemember"}
            PROVE  FALSE
        <4>1. a # c
          BY <3>1, <3>4
        <4>2. ~(a \in Workers) /\ pc(a) \notin {"rejRemember", "subRemember"}
          <5>1. Owns(c, r)
            BY <3>1 DEF Owns, Submitting, Undo
          <5>2. a \in Workers \/ pc(a) \in {"rejRemember", "subRemember"} => Owns(a, r)
            BY <3>4 DEF Owns, Submitting, Early, Rej
          <5> QED
            BY <1>0, <4>1, <5>1, <5>2 DEF OneOwner
        <4>3. a \in Clients /\ pc(a) \in ClientPc
          BY <1>0, <4>2 DEF Shape
        <4> QED
          BY <3>2, <3>4, <4>2, <4>3 DEF ClientPc, Cancelers, End, Stored
      <3>5. metas'[r] = "none"
        BY <2>2, <3>2, <3>3, <3>4, MetasWritten
      <3> QED
        BY <3>1, <3>5
    <2> QED
      BY <1>1, <1>2, <2>1, <2>2
  <1>3. ASSUME NEW c \in Clients, Undoes(c), NEW r \in Runs, r = cur(c), r \notin preCanceled
        PROVE  Silent(r)' /\ runStore'[r] = "none" /\ metas'[r] = "none" /\ (Fault \/ records'[r] = "none")
    <2>1. r = cur(c) /\ pc(c) = "rbDelete"
      BY <1>3 DEF Undoes
    <2>2. r <= lastRun
      BY <2>1, Numbered, <1>0 DEF Fresh, NotYet, Runs
    <2>3. Owns(c, r) /\ jobs[r] = "absent" /\ runStore[r] = "none" /\ metas[r] = "none"
      BY <1>3, <2>1 DEF Owns, Submitting, Undo, JobsTell, Stored, Undone
    <2>4. ~Queued(r)
      BY <1>0, <2>3 DEF OneOwner
    <2>5. ASSUME NEW a \in Actors, act'[a].run = r PROVE a \in Clients /\ act'[a].pc \in Read
      <3>1. a # c /\ act'[a] = act[a]
        BY <1>0, <1>3, <2>5 DEF Undoes, Others, Idle
      <3>2. ~Owns(a, r) /\ cur(a) = r
        BY <1>0, <2>3, <2>5, <3>1 DEF OneOwner, cur
      <3>3. a \in Clients /\ pc(a) \notin Submitting \cup Rej
        BY <1>0, <3>2 DEF Owns
      <3>4. pc(a) \in ClientPc /\ pc(a) \notin End /\ (pc(a) \in Free => pc(a) = "reading")
        BY <1>0, <1>3, <2>1, <3>2, <3>3 DEF Shape, Cancelers
      <3> QED
        BY <3>1, <3>3, <3>4 DEF ClientPc, Submitting, Early, Mid, Undo, Rej, End, Free, Scanning, Read, pc
    <2>6. Silent(r)'
      BY <1>3, <2>2, <2>3, <2>4, <2>5 DEF Undoes, Marks, Silent, Queued, cur, pc
    <2>7. runStore'[r] = "none" /\ metas'[r] = "none" /\ (Fault \/ records'[r] = "none")
      BY <1>3, <2>1, <2>3 DEF Undoes
    <2> QED
      BY <2>6, <2>7
  <1>4. rolledBack' = rolledBack \/ \E c \in Clients : Undoes(c) /\ rolledBack' = rolledBack \cup {cur(c)} /\ cur(c) \in Runs
    <2>1. ASSUME NEW c \in Clients, Undoes(c) PROVE cur(c) \in Runs /\ rolledBack' = rolledBack \cup {cur(c)}
      BY <1>0, <2>1, About DEF Undoes, Free, Scanning
    <2>2. rolledBack' = rolledBack \/ \E c \in Clients : Undoes(c)
      BY <1>0 DEF Kind, Stays, Stops, Restarts, Passes, Leaves, Reads, ReadsOne, Begins, Readies, Sends, Withdraws,
         Cancels, Takes, Decides, Cancelled, Creates, Enters, Ends, Writes, Settles, Still
    <2> QED
      BY <2>1, <2>2
  <1>5. ASSUME NEW r \in rolledBack' \ preCanceled' PROVE r \in Runs /\ Silent(r)' /\ runStore'[r] = "none"
    <2>1. r \notin preCanceled
      BY <1>0, <1>5, Grows
    <2>2. CASE r \in rolledBack
      <3>1. r \in Runs /\ Silent(r) /\ runStore[r] = "none"
        BY <2>1, <2>2 DEF Undone, TypeOK
      <3>2. \A w \in Workers : cur(w) # r
        BY <1>0, <3>1 DEF Silent
      <3> QED
        BY <1>0, <3>1, <3>2, SilentStands, NoneStands
    <2>3. CASE r \notin rolledBack
      BY <1>3, <1>4, <1>5, <2>1, <2>3
    <2> QED
      BY <2>2, <2>3
  <1>6. ASSUME bounds'.faults = 0, NEW r \in rolledBack' \ preCanceled' PROVE metas'[r] = "none" /\ records'[r] = "none"
    <2>1. r \notin preCanceled /\ r \in Runs
      BY <1>0, <1>5, <1>6, Grows
    <2>2. ~Fault /\ bounds.faults = 0
      <3>1. bounds'.faults >= bounds.faults /\ bounds.faults \in Nat /\ ~Fault
        BY <1>6, BoundsKept, Bounded
      <3> QED
        BY <1>6, <3>1
    <2>3. CASE r \in rolledBack
      <3>1. Silent(r) /\ runStore[r] = "none" /\ metas[r] = "none" /\ records[r] = "none"
        BY <2>1, <2>2, <2>3 DEF Undone
      <3>2. ASSUME NEW a \in Actors, cur(a) = r PROVE pc(a) = "reading"
        <4>1. r # NoRun
          BY <2>1 DEF Runs, NoRun
        <4> QED
          BY <1>0, <3>1, <3>2, <4>1 DEF Silent, Read, Stored, Shape
      <3>3. ASSUME NEW c \in Clients, NEW q \in Runs, Cancels(c, q), r = q PROVE FALSE
        BY <1>6, <3>3 DEF Cancels
      <3>4. metas'[r] = "none"
        BY <2>1, <3>1, <3>2, <3>3, MetasWritten
      <3>5. r # lastRun + 1 /\ (Restarts => runStore'[r] = "none")
        <4>1. r <= lastRun /\ lastRun \in Nat /\ r \in Nat
          BY <2>1, <3>1, Numbered DEF Silent, Runs
        <4> QED
          BY <2>1, <3>1, <4>1 DEF Restarts, MarkInterrupted
      <3>6. records'[r] = "none"
        BY <2>1, <3>1, <3>2, <3>5, RecordsWritten
      <3> QED
        BY <3>4, <3>6
    <2>4. CASE r \notin rolledBack
      BY <1>3, <1>4, <1>6, <2>1, <2>2, <2>4
    <2> QED
      BY <2>3, <2>4
  <1>7. \A c \in Clients : act'[c].pc = "rbDelete" /\ act'[c].run \notin preCanceled' => metas'[act'[c].run] = "none"
    BY <1>2
  <1> QED
    BY <1>5, <1>6, <1>7 DEF Undone, pc, cur

-----------------------------------------------------------------------------
(* The invariant.                                                          *)

LEMMA Start ==
  ASSUME Init
  PROVE  IInv
  <1>0. NoRun \notin Runs /\ \A r \in Runs : r \in Nat /\ r > 0
    BY ServiceConstants DEF Runs, NoRun
  <1>1. TypeOK
    <2>1. act \in [Actors -> ActType]
      <3>1. Idle \in ActType
        BY DEF Idle, ActType, ClientPc, MetaStatus
      <3> QED
        BY <3>1 DEF Init
    <2>2. bounds \in BoundsType
      BY ServiceConstants DEF Init, BoundsType
    <2>3. Memory
      <3>1. queue \in Seq(Runs) /\ Len(queue) <= QueueSize
        BY ServiceConstants DEF Init
      <3>2. NothingListed \in [Runs -> RunStatus \cup {"none"}]
        BY DEF NothingListed
      <3>3. /\ serving \in {"up", "closing", "down"} /\ ctxDone \subseteq Runs /\ sinkNotified \subseteq Runs
            /\ want \in [Clients -> Keys \cup {NoKey}] /\ idempotency \in [Keys -> Runs \cup {NoRun}]
        BY DEF Init
      <3>4. /\ listed \in [Clients -> [Runs -> RunStatus \cup {"none"}]]
            /\ jobs \in [Runs -> {"absent", "waiting", "canceled", "started"}] /\ metas \in [Runs -> MetaStatus]
        BY <3>2 DEF Init, MetaStatus
      <3> QED
        BY <3>1, <3>3, <3>4 DEF Memory
    <2>4. Files
      <3>1. <<>> \in Seq(Events) /\ <<>> \in Seq(RunStatus)
        OBVIOUS
      <3>2. history \in [Runs -> Seq(Events)] /\ told \in [Runs -> Seq(RunStatus)]
        BY <3>1 DEF Init
      <3>3. lastRun \in 0..MaxRuns
        BY ServiceConstants DEF Init
      <3>4. /\ records \in [Runs -> MetaStatus] /\ runStore \in [Runs -> RunStatus \cup {"none"}]
            /\ keyOf \in [Runs -> Keys \cup {NoKey}] /\ acked \in [Keys -> SUBSET Runs]
            /\ preCanceled \subseteq Runs /\ rolledBack \subseteq Runs
        BY DEF Init, MetaStatus
      <3> QED
        BY <3>2, <3>3, <3>4 DEF Files, Events
    <2>5. Bare
      BY DEF Init, Bare
    <2> QED
      BY <2>1, <2>2, <2>3, <2>4, <2>5, TypeParts
  <1>2. \A a \in Actors : pc(a) = "idle" /\ cur(a) = NoRun
    BY DEF Init, Idle, pc, cur
  <1>3. \A r \in Runs : /\ ~Queued(r) /\ jobs[r] = "absent" /\ runStore[r] = "none" /\ records[r] = "none"
                        /\ told[r] = <<>> /\ history[r] = <<>>
                        /\ \A c \in Clients : listed[c][r] = "none"
    BY DEF Init, Queued, NothingListed
  <1>4. serving = "up" /\ queue = <<>> /\ preCanceled = {} /\ rolledBack = {}
    BY DEF Init
  <1>5. (\A c \in Clients : c \in Actors) /\ (\A w \in Workers : w \in Actors)
    BY DEF Actors
  <1>6. Shape
    BY <1>2, <1>3, <1>4, <1>5 DEF Shape, ClientPc, WorkerPc, Free, Scanning
  <1>7. OneOwner
    BY <1>0, <1>2, <1>4 DEF OneOwner, Owns
  <1>8. Fresh
    BY <1>0, <1>2, <1>3, <1>4 DEF Fresh, NotYet
  <1>9. JobsTell
    BY <1>2, <1>3, <1>4, <1>5 DEF JobsTell, Early, Undo, Rej, Begun, End
  <1>10. Stored
    BY <1>2, <1>3, <1>4, <1>5 DEF Stored, Submitting, Early, Mid, Undo, Rej, Begun
  <1>11. Cancelers
    BY <1>2, <1>4, <1>5 DEF Cancelers, End
  <1>12. NoStrandedJob
    BY <1>3 DEF NoStrandedJob
  <1>13. Words
    BY <1>2, <1>3 DEF Words, Word, IsTerminalRunStatus
  <1>14. Tellers
    BY <1>2, <1>3 DEF Tellers, Telling
  <1>15. Finished /\ NoStartAfterFinish
    BY <1>3 DEF Finished, NoStartAfterFinish
  <1>16. Undone
    BY <1>2, <1>4, <1>5 DEF Undone
  <1> QED
    BY <1>1, <1>6, <1>7, <1>8, <1>9, <1>10, <1>11, <1>12, <1>13, <1>14, <1>15, <1>16 DEF IInv

LEMMA IInvKept ==
  ASSUME IInv, [Next]_vars
  PROVE  IInv'
  <1>1. TypeOK /\ Shape /\ OneOwner /\ Fresh /\ JobsTell /\ Stored /\ Cancelers
        /\ NoStrandedJob /\ Words /\ Tellers /\ Finished /\ NoStartAfterFinish /\ Undone
    BY DEF IInv
  <1>2. Kind
    BY <1>1, Kinds
  <1>3. TypeOK' /\ Shape' /\ OneOwner' /\ Fresh' /\ JobsTell' /\ Stored' /\ Cancelers'
    BY <1>1, <1>2, TypesKept, ShapeKept, OneOwnerKept, FreshKept, JobsKept, StoredKept, CancelersKept
  <1>4. NoStrandedJob' /\ Words' /\ Tellers' /\ Finished' /\ NoStartAfterFinish' /\ Undone'
    BY <1>1, <1>2, StrandedKept, WordsKept, TellersKept, HistoryKept, UndoneKept
  <1> QED
    BY <1>3, <1>4 DEF IInv

(* The invariant holds in every state the run service reaches.             *)
THEOREM Invariance == Spec => []IInv
  <1>1. Init => IInv
    BY Start
  <1>2. IInv /\ [Next]_vars => IInv'
    BY IInvKept
  <1> QED
    BY <1>1, <1>2, PTL DEF Spec

(* Types: the memory of the process, its two stores and the calls in       *)
(* progress keep their types over every crash, lost write and restart, and *)
(* the queue its capacity.                                                 *)
THEOREM ServiceTypes == Spec => []TypeOK
  <1>1. IInv => TypeOK
    BY DEF IInv
  <1> QED
    BY <1>1, Invariance, PTL

(* A cancel that came before the start wins: a run that Cancel has marked  *)
(* as canceled is never executed by a worker.                              *)
THEOREM CancelWins == Spec => []CanceledNeverRuns
  <1>1. IInv => CanceledNeverRuns
    BY DEF IInv, Cancelers, CanceledNeverRuns
  <1> QED
    BY <1>1, Invariance, PTL

(* While the service is up, a job that waits is still being submitted, is  *)
(* in the queue, or has been taken by a worker.                            *)
THEOREM NoStrandedRun == Spec => []NoStrandedJob
  <1>1. IInv => NoStrandedJob
    BY DEF IInv
  <1> QED
    BY <1>1, Invariance, PTL

(* notifyOpsManualRunRecord reports a run at most once, and what it reports *)
(* is the verdict of the run-state store unless a write was lost.          *)
THEOREM SinkOnce == Spec => []SinkToldTheVerdict
  <1>1. ASSUME IInv PROVE SinkToldTheVerdict
    <2>1. TypeOK /\ Words /\ Tellers /\ Cancelers
      BY <1>1 DEF IInv
    <2>2. ASSUME NEW r \in Runs PROVE Len(told[r]) <= 1
      <3>1. told[r] \in Seq(RunStatus)
        BY <2>1 DEF TypeOK
      <3>2. told[r] # <<>> => Len(told[r]) = 1
        BY <2>1 DEF Tellers
      <3>3. Len(<<>>) = 0
        OBVIOUS
      <3>4. CASE told[r] = <<>>
        <4>1. Len(told[r]) = 0
          BY <3>3, <3>4, Zenon
        <4> QED
          BY <4>1, SMT
      <3>5. CASE told[r] # <<>>
        <4>1. Len(told[r]) = 1
          BY <3>2, <3>5, Zenon
        <4> QED
          BY <4>1, SMT
      <3> QED
        BY <3>4, <3>5, Zenon
    <2>3. ASSUME NEW r \in Runs, bounds.faults = 0, told[r] # <<>>, IsTerminalRunStatus(runStore[r])
          PROVE  told[r][1] = runStore[r]
      <3>1. IsTerminalRunStatus(told[r][1]) /\ Word(r, told[r][1])
        BY <2>1, <2>3 DEF Words
      <3>2. runStore[r] # "none" /\ (r \in preCanceled => runStore[r] = "canceled")
        BY <2>1, <2>3 DEF Cancelers, IsTerminalRunStatus
      <3> QED
        BY <3>1, <3>2 DEF Word
    <2> QED
      BY <2>2, <2>3 DEF SinkToldTheVerdict
  <1> QED
    BY <1>1, Invariance, PTL

(* The record of a run never holds another verdict than its run state,     *)
(* whatever a stale Get or List writes back.                               *)
THEOREM StoresAgree == Spec => []OneVerdict
  <1>1. ASSUME IInv PROVE OneVerdict
    <2>1. Words /\ Cancelers
      BY <1>1 DEF IInv
    <2>2. ASSUME NEW r \in Runs, bounds.faults = 0, IsTerminalRunStatus(runStore[r]), IsTerminalRunStatus(records[r])
          PROVE  records[r] = runStore[r]
      <3>1. Word(r, records[r])
        BY <2>1, <2>2 DEF Words
      <3>2. runStore[r] # "none" /\ (r \in preCanceled => runStore[r] = "canceled")
        BY <2>1, <2>2 DEF Cancelers, IsTerminalRunStatus
      <3> QED
        BY <2>2, <3>1, <3>2 DEF Word
    <2> QED
      BY <2>2 DEF OneVerdict
  <1> QED
    BY <1>1, Invariance, PTL

(* Subscribers of a run never see run_start after run_finish.              *)
THEOREM NoLateStart == Spec => []NoStartAfterFinish
  <1>1. IInv => NoStartAfterFinish
    BY DEF IInv
  <1> QED
    BY <1>1, Invariance, PTL

(* A Submit that failed to enqueue leaves no job, meta or record behind,   *)
(* over later calls, crashes and restarts, unless the run was canceled     *)
(* meanwhile or a write was lost.                                          *)
THEOREM RollbackClean == Spec => []RollbackLeavesNothing
  <1>1. ASSUME IInv PROVE RollbackLeavesNothing
    <2>1. Undone /\ TypeOK
      BY <1>1 DEF IInv
    <2>2. rolledBack \subseteq Runs
      BY <2>1 DEF TypeOK
    <2> QED
      BY <2>1, <2>2 DEF Undone, Silent, RollbackLeavesNothing
  <1> QED
    BY <1>1, Invariance, PTL

-----------------------------------------------------------------------------
(* One key, one run, as long as the calls about one key do not overlap.    *)

(* Client c is about to create a run with key k, or submits one.           *)
SubmitsKey(c, k) == want[c] = k \/ (pc(c) \in Submitting /\ keyOf[cur(c)] = k)

(* Client c works on a run with key k in a way that may write its meta.    *)
BusyWith(c, k) == SubmitsKey(c, k) \/ (pc(c) \in End /\ keyOf[cur(c)] = k)

(* A Submit with a key begins when no other client is busy with the key,   *)
(* a run is not canceled while it is being submitted, and its first record *)
(* is not written between the two reads of a List.                         *)
OneAtATime ==
  \A c \in Clients, k \in Keys :
    /\ SubmitCheck(c, k) => \A d \in Clients \ {c} : ~BusyWith(d, k)
    /\ (\E r \in Runs : keyOf[r] = k /\ Cancel(c, r)) => \A d \in Clients \ {c} : ~SubmitsKey(d, k)
    /\ SubmitAccept(c) /\ want[c] = k => \A d \in Clients \ {c} : pc(d) # "listing"

(* No write was lost and no request refused.                               *)
Clean == bounds.faults = 0 /\ bounds.rejects = 0

Kept(r) == records[r] # "none"

(* Who is busy with a key while a run with it is submitted.                *)
Alone ==
  /\ \A c, d \in Clients : \A k \in Keys : SubmitsKey(c, k) /\ BusyWith(d, k) => c = d
  /\ \A c \in Clients : want[c] \in Keys => pc(c) = "loading"
  /\ \A c \in Clients : pc(c) \notin Rej
  /\ \A c \in Clients : pc(c) \in Submitting /\ keyOf[cur(c)] \in Keys => cur(c) \notin preCanceled

(* The local copy of a meta that is about to be written is one.            *)
Copied ==
  \A a \in Actors :
    pc(a) \in Begun \cup End \cup {"begin", "exec", "settle", "createCanceled", "readRemember", "readUpsert"}
      => loc(a) # "none"

(* A run with a key and without a record has no other trace.               *)
Erased ==
  /\ \A r \in Runs : r > lastRun => keyOf[r] = NoKey
  /\ \A r \in Runs : keyOf[r] \in Keys /\ ~Kept(r) =>
       /\ metas[r] = "none" /\ runStore[r] = "none" /\ jobs[r] = "absent" /\ ~Queued(r)
       /\ \A a \in Actors : cur(a) = r => pc(a) = "reading"

(* A meta or a record that has lost its key belongs to a run without one,  *)
(* and so does what is about to be written, but for the runs that a List   *)
(* has not seen the record of.                                             *)
Keyed(r) == keyOf[r] \in Keys \/ r > lastRun

Carried ==
  /\ \A r \in Runs : Keyed(r) => r \notin bareMetas \cup bareRecords
  /\ \A a \in Actors, r \in Runs : Keyed(r) /\ r \in bareCopy[a] => pc(a) = "listing"
  /\ \A a \in Actors, r \in Runs : keyOf[r] \in Keys /\ r \in bareCopy[a] => ~Kept(r)

(* At most one run with a key is kept, and none while one is to be created.*)
OneKept ==
  /\ \A r, q \in Runs : Kept(r) /\ Kept(q) /\ keyOf[r] = keyOf[q] /\ keyOf[r] \in Keys => r = q
  /\ \A c \in Clients, r \in Runs : want[c] \in Keys /\ keyOf[r] = want[c] => ~Kept(r)

(* The lookup finds a kept run, unless its Submit is about to remember it  *)
(* or has just forgotten it.                                               *)
Known ==
  /\ \A k \in Keys : idempotency[k] # NoRun => keyOf[idempotency[k]] = k
  /\ serving # "down" =>
       \A r \in Runs : keyOf[r] \in Keys /\ Kept(r) =>
         \/ \E c \in Clients : cur(c) = r /\ pc(c) \in {"subRemember", "rbDelete"}
         \/ metas[r] # "none" /\ idempotency[keyOf[r]] = r

(* What Submit has returned.                                               *)
Returned ==
  \A k \in Keys : \A r \in acked[k] :
    /\ keyOf[r] = k /\ Kept(r)
    /\ \A c \in Clients : pc(c) \in Submitting => cur(c) # r

KInv == Alone /\ Copied /\ Erased /\ Carried /\ OneKept /\ Known /\ Returned

(* The step that makes a run.                                              *)
Makes(c) ==
  /\ SubmitAccept(c)
  /\ lastRun + 1 \in Runs /\ lastRun' = lastRun + 1 /\ pc(c) = "loading"
  /\ Becomes(c, "subRemember", lastRun + 1, "queued")
  /\ keyOf' = [keyOf EXCEPT ![lastRun + 1] = want[c]] /\ want' = [want EXCEPT ![c] = NoKey]
  /\ records' = [records EXCEPT ![lastRun + 1] = "queued"]
  /\ UNCHANGED <<serving, jobs, metas, idempotency, queue, runStore, acked, preCanceled>>

(* A lookup that finds nothing.                                            *)
Looks(c, k) ==
  /\ SubmitCheck(c, k) /\ serving = "up" /\ pc(c) = "idle" /\ ~(idempotency[k] # NoRun /\ metas[idempotency[k]] # "none")
  /\ Becomes(c, "loading", cur(c), loc(c)) /\ want' = [want EXCEPT ![c] = k]
  /\ UNCHANGED <<records, metas, idempotency, keyOf, lastRun, acked>>

LEMMA CleanBefore ==
  ASSUME TypeOK, [Next]_vars, Clean'
  PROVE  Clean /\ ~Fault /\ \A c \in Clients : ~SubmitReject(c)
  <1>1. bounds'.faults = 0 /\ bounds'.rejects = 0
    BY DEF Clean
  <1>2. bounds.faults = 0 /\ ~Fault
    <2>1. bounds'.faults >= bounds.faults /\ bounds.faults \in Nat /\ ~Fault
      BY <1>1, BoundsKept, Bounded
    <2> QED
      BY <1>1, <2>1
  <1>3. bounds.rejects \in Nat /\ bounds \in BoundsType
    BY Bounded
  <1>4. ASSUME NEW c \in Clients, SubmitReject(c) PROVE FALSE
    <2>1. \/ bounds' = [bounds EXCEPT !.rejects = bounds.rejects + 1]
          \/ bounds' = [bounds EXCEPT !.rejects = bounds.rejects + 1, !.faults = bounds.faults + 1]
      BY <1>4 DEF SubmitReject
    <2>2. bounds'.rejects = bounds.rejects + 1
      BY <1>3, <2>1 DEF BoundsType
    <2> QED
      BY <1>1, <1>3, <2>2
  <1>5. bounds.rejects = 0
    <2>1. CASE bounds' = bounds
      BY <1>1, <2>1
    <2>2. CASE bounds' = [bounds EXCEPT !.reads = bounds.reads + 1]
      BY <1>1, <1>3, <2>2 DEF BoundsType
    <2>3. CASE bounds' = [bounds EXCEPT !.cancels = bounds.cancels + 1]
      BY <1>1, <1>3, <2>3 DEF BoundsType
    <2>4. CASE bounds' = [bounds EXCEPT !.stops = bounds.stops + 1]
      BY <1>1, <1>3, <2>4 DEF BoundsType
    <2>5. ASSUME \/ bounds' = [bounds EXCEPT !.rejects = bounds.rejects + 1]
                 \/ bounds' = [bounds EXCEPT !.rejects = bounds.rejects + 1, !.faults = bounds.faults + 1]
          PROVE  FALSE
      <3>1. bounds'.rejects = bounds.rejects + 1
        BY <1>3, <2>5 DEF BoundsType
      <3> QED
        BY <1>1, <1>3, <3>1
    <2> QED
      BY <1>2, <2>1, <2>2, <2>3, <2>4, <2>5, Counts DEF vars
  <1> QED
    BY <1>2, <1>4, <1>5 DEF Clean

(* The steps of a request before it has a run, and the one that gives it   *)
(* one.                                                                    *)
LEMMA Made ==
  ASSUME TypeOK, NEW c \in Clients, SubmitAccept(c), ~Fault
  PROVE  Makes(c)
  <1>1. c \in Actors
    BY DEF Actors
  <1>2. NewRun(c, "subRemember", "queued") /\ records' = [records EXCEPT ![lastRun + 1] = "queued"]
    BY DEF SubmitAccept
  <1>3. Becomes(c, "subRemember", lastRun + 1, "queued") /\ lastRun + 1 \in Runs
    BY <1>1, <1>2, Goes, Numbered DEF NewRun
  <1>4. UNCHANGED <<serving, jobs, metas, idempotency, queue, runStore, acked, preCanceled>>
    BY DEF SubmitAccept, svars, gvars
  <1> QED
    BY <1>2, <1>3, <1>4 DEF NewRun, Makes

LEMMA Looked ==
  ASSUME TypeOK, Shape, NEW c \in Clients, NEW k \in Keys \cup {NoKey}, SubmitCheck(c, k), want' # want
  PROVE  Looks(c, k) \/ k = NoKey
  <1>1. c \in Actors
    BY DEF Actors
  <1>2. Step(c, "idle", "loading") /\ want' = [want EXCEPT ![c] = k] /\ serving = "up"
        /\ UNCHANGED <<records, metas, idempotency, keyOf, lastRun, acked>>
        /\ ~(k # NoKey /\ idempotency[k] # NoRun /\ metas[idempotency[k]] # "none")
    BY DEF SubmitCheck, svars
  <1>3. pc(c) = "idle" /\ Becomes(c, "loading", cur(c), loc(c))
    BY <1>1, <1>2, Onwards
  <1> QED
    BY <1>2, <1>3 DEF Looks

(* Who makes a step: another actor is where it was.                        *)
LEMMA Steps ==
  ASSUME TypeOK, [Next]_vars, ~Fault, \A c \in Clients : ~SubmitReject(c), NEW d \in Clients
  PROVE  \/ act'[d] = act[d] /\ want'[d] = want[d]
         \/ act'[d] = Idle /\ want'[d] = NoKey
         \/ Makes(d)
         \/ \E k \in Keys \cup {NoKey} : SubmitCheck(d, k)
         \/ \E r \in Runs : Cancel(d, r)
         \/ pc(d) \notin {"idle", "loading"} /\ want'[d] = want[d]
         \/ pc(d) = "idle" /\ act'[d].pc \in {"getting", "listing"} /\ want'[d] = want[d]
  <1> USE DEF svars, gvars
  <1>0. (\A c \in Clients : c \in Actors) /\ (\A w \in Workers : w \in Actors /\ w \notin Clients) /\ want \in [Clients -> Keys \cup {NoKey}]
    BY ServiceConstants DEF Actors, TypeOK
  <1>1. ASSUME NEW c \in Clients, c # d,
               \/ \E k \in Keys \cup {NoKey} : SubmitCheck(c, k)
               \/ SubmitInvalid(c) \/ SubmitAccept(c) \/ \E r \in Runs : Cancel(c, r)
        PROVE  act'[d] = act[d] /\ want'[d] = want[d]
    <2>1. ASSUME NEW k \in Keys \cup {NoKey}, SubmitCheck(c, k) PROVE act'[d] = act[d] /\ want'[d] = want[d]
      <3>1. CASE act' = act /\ want' = want
        BY <3>1
      <3>2. CASE Step(c, "idle", "loading") /\ want' = [want EXCEPT ![c] = k]
        BY <1>0, <1>1, <3>2, Onwards DEF Others
      <3> QED
        BY <2>1, <3>1, <3>2 DEF SubmitCheck
    <2>2. CASE SubmitInvalid(c)
      BY <1>0, <1>1, <2>2, Onwards DEF SubmitInvalid, Others
    <2>3. CASE SubmitAccept(c)
      <3>1. Makes(c)
        BY <2>3, Made
      <3> QED
        BY <1>0, <1>1, <3>1 DEF Makes, Becomes, Others
    <2>4. ASSUME NEW r \in Runs, Cancel(c, r) PROVE act'[d] = act[d] /\ want'[d] = want[d]
      <3>1. want' = want /\ (act' = act \/ Move(c, "endRemember", r, "canceled"))
        BY <2>4 DEF Cancel, CancelWaiting, CancelStarted
      <3> QED
        BY <1>0, <1>1, <3>1, Goes DEF Others
    <2> QED
      BY <1>1, <2>1, <2>2, <2>3, <2>4
  <1>2. ASSUME NEW c \in Clients, (\E r \in Runs : Get(c, r)) \/ List(c)
        PROVE  want' = want /\ \E to \in {"getting", "listing"} : Step(c, "idle", to)
    BY <1>2 DEF Get, List
  <1>3. ASSUME NEW c \in Clients, ClientStep(c), ~SubmitInvalid(c), ~SubmitAccept(c)
        PROVE  want' = want /\ pc(c) \notin {"idle", "loading"} /\ Others(c)
    <2>1. RememberRejected(c) \/ SubmitRemember(c) \/ SubmitJob(c) \/ SubmitPublish(c) \/ EnqueueCheck(c) \/ EnqueueSend(c)
          \/ RollbackJob(c) \/ RollbackForget(c) \/ RollbackDelete(c) \/ (\E r \in Runs : GetLookup(c, r)) \/ ListRuns(c)
          \/ ReadNext(c)
      BY <1>3 DEF ClientStep
    <2>2. want' = want
      BY <2>1 DEF RememberRejected, SubmitRemember, SubmitJob, SubmitPublish, EnqueueCheck, EnqueueSend, RollbackJob,
           RollbackForget, RollbackDelete, GetLookup, ListRuns, ReadNext
    <2>3. \E from, to : from \notin {"idle", "loading"} /\ (Step(c, from, to) \/ (pc(c) = from /\ \E r, s : Move(c, to, r, s)))
      BY <2>1 DEF RememberRejected, SubmitRemember, SubmitJob, SubmitPublish, EnqueueCheck, EnqueueSend, RollbackJob,
           RollbackForget, RollbackDelete, GetLookup, ListRuns, ReadNext
    <2> QED
      BY <1>0, <2>2, <2>3, Onwards, Goes
  <1>4. ASSUME NEW a \in Actors, EndStep(a)
        PROVE  want' = want /\ pc(a) \notin {"idle", "loading"} /\ Others(a)
    <2>1. want' = want
      BY <1>4 DEF EndStep, PersistMetaAsync, Remember, Upsert, NotifyOpsManualRunRecord, MarkNotified, RecordRun, FinishPublish
    <2>2. \E from, to : from \notin {"idle", "loading"} /\ Step(a, from, to)
      BY <1>4 DEF EndStep, PersistMetaAsync, Remember, Upsert, NotifyOpsManualRunRecord, MarkNotified, RecordRun, FinishPublish
    <2> QED
      BY <2>1, <2>2, Onwards
  <1>5. ASSUME NEW w \in Workers, WorkerStep(w) PROVE want' = want /\ Others(w)
    <2>1. want' = want
      BY <1>5 DEF WorkerStep, Dequeue, WorkerExit, ProcessJob, CreateCanceled, StartPublish, CreateRun, BeginRun, TrackerWrite,
           Execute, Settle
    <2>2. \E from, to, r, s : Step(w, from, to) \/ Move(w, to, r, s)
      BY <1>5 DEF WorkerStep, Dequeue, WorkerExit, ProcessJob, CreateCanceled, StartPublish, CreateRun, BeginRun, TrackerWrite,
           Execute, Settle
    <2> QED
      BY <1>0, <2>1, <2>2, Onwards, Goes
  <1>6. Close \/ Restart \/ UNCHANGED vars => act' = act /\ want' = want
    BY DEF Close, Restart, vars
  <1>7. Exit \/ Crash => act'[d] = Idle /\ want'[d] = NoKey
    BY <1>0 DEF Exit, Crash, Stop
  <1> HIDE DEF svars, gvars
  <1>8. SubmitInvalid(d) => act'[d] = Idle /\ want'[d] = NoKey
    BY <1>0, Onwards DEF SubmitInvalid
  <1>9. ASSUME NEW c \in Clients, NEW to \in {"getting", "listing"}, Step(c, "idle", to), want' = want
        PROVE  (act'[d] = act[d] \/ (pc(d) = "idle" /\ act'[d].pc \in {"getting", "listing"})) /\ want'[d] = want[d]
    BY <1>0, <1>9, Onwards DEF Others, Becomes
  <1>10. ASSUME NEW a \in Actors, want' = want, Others(a), a \in Clients => pc(a) \notin {"idle", "loading"}
         PROVE  (act'[d] = act[d] \/ pc(d) \notin {"idle", "loading"}) /\ want'[d] = want[d]
    BY <1>0, <1>10 DEF Others
  <1> QED
    BY <1>0, <1>1, <1>2, <1>3, <1>4, <1>5, <1>6, <1>7, <1>8, <1>9, <1>10, Made DEF Next, ClientStep
(* How a client comes to submit a run, or to end one.                      *)
LEMMA Climbs ==
  ASSUME TypeOK, Shape, [Next]_vars, ~Fault, \A c \in Clients : ~SubmitReject(c), NEW c \in Clients
  PROVE  \/ Makes(c)
         \/ \E r \in Runs : /\ Cancel(c, r) /\ pc(c) = "idle" /\ Others(c) /\ act'[c].run = r /\ act'[c].pc = "endRemember"
                            /\ preCanceled' = preCanceled \cup {r}
         \/ act'[c].pc \notin Submitting \cup End \cup Rej
         \/ /\ act'[c].run = cur(c) /\ (act'[c].pc \in Submitting => pc(c) \in Submitting)
            /\ (act'[c].pc \in End => pc(c) \in End) /\ (act'[c].pc \in Rej => pc(c) \in Rej)
  <1> DEFINE Stands == /\ act'[c].run = cur(c) /\ (act'[c].pc \in Submitting => pc(c) \in Submitting)
                       /\ (act'[c].pc \in End => pc(c) \in End) /\ (act'[c].pc \in Rej => pc(c) \in Rej)
             Away   == act'[c].pc \notin Submitting \cup End \cup Rej
  <1>0. c \in Actors /\ c \notin Workers /\ (\A w \in Workers : w \in Actors /\ w # c) /\ (\A d \in Clients : d \in Actors) /\ Kind
    BY ServiceConstants, Kinds DEF Actors
  <1>1. act'[c] = act[c] => Stands
    BY DEF pc, cur
  <1>2. act'[c] = Idle => Away
    BY DEF Idle, Submitting, Early, Mid, Undo, End, Rej
  <1>3. ASSUME NEW a \in Actors, Others(a), a # c PROVE act'[c] = act[c]
    BY <1>0, <1>3 DEF Others
  <1>4. ASSUME Passes(c) PROVE Stands \/ Away
    BY <1>4 DEF Passes, Along, Free, Scanning, Submitting, Early, Mid, Undo, End, Rej, Begun
  <1>5. ASSUME Reads(c) \/ (\E r \in Runs : ReadsOne(c, r)) PROVE Away
    BY <1>5 DEF Reads, ReadsOne, Becomes, Submitting, Early, Mid, Undo, End, Rej
  <1>6. ASSUME Readies(c) \/ Withdraws(c) PROVE Stands
    BY <1>6 DEF Readies, Withdraws, Becomes, Submitting, Early, Mid, Undo, End, Rej
  <1>7. ASSUME NEW k \in Keys \cup {NoKey}, SubmitCheck(c, k) PROVE Others(c) /\ pc(c) = "idle" /\ (act'[c] = act[c] \/ act'[c].pc = "loading")
    <2>1. act' = act \/ Step(c, "idle", "loading")
      BY <1>7 DEF SubmitCheck
    <2> QED
      BY <1>0, <1>7, <2>1, Onwards DEF SubmitCheck, Others, Becomes
  <1>8. ASSUME NEW r \in Runs, Cancel(c, r)
        PROVE  pc(c) = "idle" /\ (act'[c] = act[c] \/ (Becomes(c, "endRemember", r, "canceled") /\ preCanceled' = preCanceled \cup {r}))
    BY <1>0, <1>8, Goes DEF Cancel, CancelWaiting, CancelStarted
  <1>9. ASSUME NEW q \in Runs, Begins(c, q) PROVE Makes(c)
    <2>1. pc(c) = "loading" /\ act'[c].pc \in {"rejRemember", "subRemember"}
      BY <1>9 DEF Begins, Becomes
    <2> QED
      BY <1>7, <1>8, <2>1, Steps DEF Idle, pc
  <1>10. ASSUME NEW q \in Runs, Cancels(c, q)
         PROVE  \E r \in Runs : /\ Cancel(c, r) /\ pc(c) = "idle" /\ Others(c) /\ act'[c].run = r /\ act'[c].pc = "endRemember"
                                /\ preCanceled' = preCanceled \cup {r}
    <2>1. pc(c) = "idle" /\ act'[c].pc = "endRemember" /\ Others(c)
      BY <1>10 DEF Cancels, Becomes
    <2>2. ~Makes(c)
      BY <2>1 DEF Makes
    <2>3. \E r \in Runs : Cancel(c, r)
      BY <1>7, <2>1, <2>2, Steps DEF Idle, pc
    <2> QED
      BY <1>8, <2>1, <2>3 DEF Becomes, pc
  <1>11. ASSUME NEW a \in Actors, Passes(a) \/ Leaves(a) PROVE Others(a)
    BY <1>11 DEF Passes, Leaves
  <1>12. ASSUME NEW d \in Clients, \/ Reads(d) \/ Readies(d) \/ Withdraws(d) \/ Sends(d) \/ Undoes(d)
                                   \/ \E r \in Runs : ReadsOne(d, r) \/ Begins(d, r) \/ Cancels(d, r)
         PROVE  Others(d)
    BY <1>12 DEF Reads, ReadsOne, Begins, Cancels, Readies, Withdraws, Sends, Undoes, Becomes
  <1>13. ASSUME NEW w \in Workers, Takes(w) \/ Decides(w) \/ Settles(w) \/ Cancelled(w) \/ Creates(w) \/ Enters(w)
                                   \/ \E s \in RunStatus : Ends(w, s)
         PROVE  Others(w)
    BY <1>13 DEF Takes, Decides, Settles, Cancelled, Creates, Enters, Ends, Becomes
  <1>14. Stays \/ Restarts => act'[c] = act[c]
    BY DEF Stays, Restarts
  <1>15. Stops \/ Leaves(c) \/ Sends(c) \/ Undoes(c) => act'[c] = Idle
    BY <1>0 DEF Stops, Leaves, Sends, Undoes
  <1> HIDE DEF Stands, Away
  <1>16. Makes(c) \/ Stands \/ Away \/ \E r \in Runs : /\ Cancel(c, r) /\ pc(c) = "idle" /\ Others(c) /\ act'[c].run = r
                                                      /\ act'[c].pc = "endRemember" /\ preCanceled' = preCanceled \cup {r}
    BY <1>0, <1>1, <1>2, <1>3, <1>4, <1>5, <1>6, <1>9, <1>10, <1>11, <1>12, <1>13, <1>14, <1>15 DEF Kind
  <1> QED
    BY <1>16 DEF Stands, Away

(* How a request comes to have a key, and loses it.                        *)
LEMMA Wants ==
  ASSUME TypeOK, Shape, [Next]_vars, ~Fault, \A c \in Clients : ~SubmitReject(c), NEW c \in Clients
  PROVE  \/ want'[c] \notin Keys
         \/ want'[c] = want[c] /\ (pc(c) = "loading" => act'[c] = act[c])
         \/ \E k \in Keys : Looks(c, k) /\ want'[c] = k
  <1>0. NoKey \notin Keys /\ want \in [Clients -> Keys \cup {NoKey}]
    BY ServiceConstants DEF TypeOK
  <1>1. ASSUME NEW k \in Keys \cup {NoKey}, SubmitCheck(c, k)
        PROVE  want'[c] \notin Keys \/ (want'[c] = want[c] /\ pc(c) = "idle") \/ (k \in Keys /\ Looks(c, k) /\ want'[c] = k)
    <2>1. pc(c) = "idle" /\ (want' = want \/ want' = [want EXCEPT ![c] = k])
      BY <1>1 DEF SubmitCheck
    <2> QED
      BY <1>0, <1>1, <2>1, Looked
  <1>2. ASSUME NEW r \in Runs, Cancel(c, r) PROVE want'[c] = want[c] /\ pc(c) = "idle"
    BY <1>2 DEF Cancel, CancelWaiting, CancelStarted
  <1>3. Makes(c) => want'[c] = NoKey
    BY <1>0 DEF Makes
  <1> QED
    BY <1>0, <1>1, <1>2, <1>3, Steps

LEMMA KeysWritten ==
  ASSUME TypeOK, [Next]_vars, ~Fault, \A c \in Clients : ~SubmitReject(c)
  PROVE  (keyOf' = keyOf /\ lastRun' = lastRun) \/ \E c \in Clients : Makes(c)
  <1> USE DEF svars, gvars
  <1>1. ASSUME NEW c \in Clients, \/ \E k \in Keys \cup {NoKey} : SubmitCheck(c, k)
                                  \/ \E q \in Runs : Get(c, q) \/ Cancel(c, q)
                                  \/ List(c) \/ (ClientStep(c) /\ ~SubmitReject(c) /\ ~SubmitAccept(c))
        PROVE  keyOf' = keyOf /\ lastRun' = lastRun
    BY <1>1 DEF SubmitCheck, Get, Cancel, List, ClientStep, SubmitInvalid, RememberRejected,
         SubmitRemember, SubmitJob, SubmitPublish, EnqueueCheck, EnqueueSend, RollbackJob, RollbackForget, RollbackDelete, GetLookup, ListRuns, ReadNext
  <1>2. ASSUME NEW w \in Workers, WorkerStep(w) PROVE keyOf' = keyOf /\ lastRun' = lastRun
    BY <1>2 DEF WorkerStep, Dequeue, WorkerExit, ProcessJob, CreateCanceled, StartPublish, CreateRun, BeginRun, TrackerWrite,
         Execute, Settle
  <1>3. ASSUME NEW a \in Actors, EndStep(a) PROVE keyOf' = keyOf /\ lastRun' = lastRun
    BY <1>3 DEF EndStep, PersistMetaAsync, Remember, Upsert, NotifyOpsManualRunRecord, MarkNotified, RecordRun, FinishPublish
  <1>4. Close \/ Exit \/ Crash \/ Restart \/ UNCHANGED vars => keyOf' = keyOf /\ lastRun' = lastRun
    BY DEF Close, Exit, Crash, Stop, Restart, vars
  <1> HIDE DEF svars, gvars
  <1>5. ASSUME NEW c \in Clients, ClientStep(c) PROVE (keyOf' = keyOf /\ lastRun' = lastRun) \/ Makes(c)
    BY <1>1, <1>5, Made
  <1> QED
    BY <1>1, <1>2, <1>3, <1>4, <1>5 DEF Next

(* A key once given stays.                                                 *)
LEMMA KeyStands ==
  ASSUME TypeOK, Erased, [Next]_vars, ~Fault, \A c \in Clients : ~SubmitReject(c), NEW r \in Runs
  PROVE  /\ keyOf[r] \in Keys => keyOf'[r] = keyOf[r] /\ r # lastRun + 1
         /\ keyOf'[r] = keyOf[r] \/ \E c \in Clients : Makes(c) /\ r = lastRun + 1 /\ keyOf'[r] = want[c]
  <1>0. keyOf \in [Runs -> Keys \cup {NoKey}] /\ NoKey \notin Keys /\ lastRun \in Nat /\ lastRun < lastRun + 1
    <2>1. keyOf \in [Runs -> Keys \cup {NoKey}]
      BY DEF TypeOK
    <2>2. NoKey \notin Keys
      BY ServiceConstants
    <2>3. lastRun \in Nat
      BY Numbered
    <2> QED
      BY <2>1, <2>2, <2>3
  <1>1. r = lastRun + 1 => keyOf[r] = NoKey
    BY <1>0 DEF Erased
  <1>2. ASSUME NEW c \in Clients, Makes(c) PROVE keyOf'[r] = IF r = lastRun + 1 THEN want[c] ELSE keyOf[r]
    BY <1>0, <1>2 DEF Makes
  <1> QED
    BY <1>0, <1>1, <1>2, KeysWritten
-----------------------------------------------------------------------------
(* Each part is kept.                                                      *)

LEMMA Submits ==
  ASSUME TypeOK, Shape, Fresh, Erased, [Next]_vars, ~Fault, \A c \in Clients : ~SubmitReject(c),
         NEW c \in Clients, NEW k \in Keys
  PROVE  /\ SubmitsKey(c, k)' => SubmitsKey(c, k) \/ Looks(c, k)
         /\ BusyWith(c, k)' => \/ BusyWith(c, k) \/ Looks(c, k)
                               \/ \E r \in Runs : keyOf[r] = k /\ Cancel(c, r) /\ pc(c) = "idle" /\ Others(c)
  <1>0. c \in Actors /\ keyOf \in [Runs -> Keys \cup {NoKey}]
    BY DEF Actors, TypeOK
  <1>1. ASSUME want'[c] = k PROVE want[c] = k \/ Looks(c, k)
    BY <1>1, Wants
  <1>2. ASSUME NEW r \in Runs, r = cur(c) PROVE keyOf'[r] = keyOf[r]
    <2>1. r # lastRun + 1
      BY <1>0, <1>2, Numbered DEF Fresh, NotYet
    <2> QED
      BY <2>1, KeyStands
  <1>3. ASSUME act'[c].pc \in Submitting, keyOf'[act'[c].run] = k PROVE SubmitsKey(c, k)
    <2>1. CASE Makes(c)
      BY <1>0, <1>3, <2>1 DEF Makes, Becomes, SubmitsKey
    <2>2. ASSUME act'[c].run = cur(c), pc(c) \in Submitting PROVE SubmitsKey(c, k)
      <3>1. cur(c) \in Runs
        BY <1>0, <2>2, About DEF Submitting, Early, Mid, Undo, Free, Scanning
      <3> QED
        BY <1>2, <1>3, <2>2, <3>1 DEF SubmitsKey
    <2>3. "endRemember" \notin Submitting
      BY DEF Submitting, Early, Mid, Undo
    <2> QED
      BY <1>3, <2>1, <2>2, <2>3, Climbs
  <1>4. ASSUME act'[c].pc \in End, keyOf'[act'[c].run] = k
        PROVE  BusyWith(c, k) \/ \E r \in Runs : keyOf[r] = k /\ Cancel(c, r) /\ pc(c) = "idle" /\ Others(c)
    <2>1. ~Makes(c)
      BY <1>4 DEF Makes, Becomes, End
    <2>2. ASSUME act'[c].run = cur(c), pc(c) \in End PROVE BusyWith(c, k)
      <3>1. cur(c) \in Runs
        BY <1>0, <2>2, About DEF End, Free, Scanning
      <3> QED
        BY <1>2, <1>4, <2>2, <3>1 DEF BusyWith
    <2>3. ASSUME NEW r \in Runs, Cancel(c, r), pc(c) = "idle", Others(c), act'[c].run = r
          PROVE  \E q \in Runs : keyOf[q] = k /\ Cancel(c, q) /\ pc(c) = "idle" /\ Others(c)
      <3>1. keyOf' = keyOf
        BY <2>3 DEF Cancel
      <3> QED
        BY <1>4, <2>3, <3>1
    <2> QED
      BY <1>4, <2>1, <2>2, <2>3, Climbs
  <1>5. SubmitsKey(c, k)' => SubmitsKey(c, k) \/ Looks(c, k)
    BY <1>1, <1>3 DEF SubmitsKey, pc, cur
  <1>6. BusyWith(c, k)' => SubmitsKey(c, k)' \/ (act'[c].pc \in End /\ keyOf'[act'[c].run] = k)
    BY DEF BusyWith, pc, cur
  <1>7. SubmitsKey(c, k) => BusyWith(c, k)
    BY DEF BusyWith
  <1> QED
    BY <1>4, <1>5, <1>6, <1>7

(* Marking a run as canceled before it starts is the business of Cancel.   *)
LEMMA Marked ==
  ASSUME TypeOK, Shape, [Next]_vars, ~Fault, \A c \in Clients : ~SubmitReject(c), NEW r \in Runs, r \in preCanceled', r \notin preCanceled
  PROVE  \E d \in Clients : Cancel(d, r) /\ pc(d) = "idle"
  <1>1. preCanceled' = preCanceled \/ \E d \in Clients, q \in Runs : Cancels(d, q)
    BY Kinds DEF Kind, Stays, Stops, Restarts, Passes, Leaves, Reads, ReadsOne, Begins, Readies, Sends, Withdraws, Undoes,
       Takes, Decides, Cancelled, Creates, Enters, Ends, Writes, Settles, Marks
  <1>2. PICK d \in Clients, q \in Runs : Cancels(d, q)
    BY <1>1
  <1>3. r = q /\ act'[d].pc = "endRemember" /\ act'[d].run = q /\ pc(d) = "idle"
    BY <1>2 DEF Cancels, Becomes
  <1>4. "endRemember" \in End /\ "idle" \notin End
    BY DEF End
  <1>5. ~Makes(d)
    BY <1>3 DEF Makes
  <1>6. \E p \in Runs : Cancel(d, p) /\ act'[d].run = p
    BY <1>3, <1>4, <1>5, Climbs
  <1> QED
    BY <1>3, <1>6

LEMMA AloneKept ==
  ASSUME TypeOK, Shape, Fresh, Erased, Alone, [Next]_vars, OneAtATime, ~Fault, \A c \in Clients : ~SubmitReject(c)
  PROVE  Alone'
  <1>0. (\A c \in Clients : c \in Actors) /\ keyOf \in [Runs -> Keys \cup {NoKey}] /\ NoKey \notin Keys
    BY ServiceConstants DEF Actors, TypeOK
  <1>1. ASSUME NEW c \in Clients, NEW k \in Keys, Looks(c, k)
        PROVE  Others(c) /\ pc(c) = "idle" /\ act'[c].pc = "loading" /\ \A d \in Clients \ {c} : ~BusyWith(d, k)
    <2>1. SubmitCheck(c, k) /\ Others(c) /\ pc(c) = "idle" /\ act'[c].pc = "loading"
      BY <1>1 DEF Looks, Becomes
    <2> QED
      BY <2>1 DEF OneAtATime
  <1>2. ASSUME NEW c \in Clients, NEW d \in Clients, NEW k \in Keys, SubmitsKey(c, k)', BusyWith(d, k)', c # d PROVE FALSE
    <2>1. SubmitsKey(c, k) \/ Looks(c, k)
      BY <1>2, Submits
    <2>2. \/ BusyWith(d, k) \/ Looks(d, k)
          \/ \E r \in Runs : keyOf[r] = k /\ Cancel(d, r) /\ pc(d) = "idle" /\ Others(d)
      BY <1>2, Submits
    <2>3. CASE Looks(c, k)
      <3>1. ~BusyWith(d, k)
        BY <1>1, <1>2, <2>3
      <3>2. act'[d] = act[d] /\ act'[c] # act[c]
        BY <1>0, <1>1, <1>2, <2>3 DEF Others, pc
      <3>3. ~Looks(d, k)
        BY <1>1, <3>2 DEF pc
      <3>4. ~Others(d)
        BY <1>0, <1>2, <3>2 DEF Others
      <3> QED
        BY <2>2, <3>1, <3>3, <3>4
    <2>4. CASE SubmitsKey(c, k)
      <3>1. ~BusyWith(d, k)
        BY <1>2, <2>4 DEF Alone
      <3>2. ~Looks(d, k)
        BY <1>1, <1>2, <2>4 DEF BusyWith
      <3>3. ASSUME NEW r \in Runs, keyOf[r] = k, Cancel(d, r) PROVE FALSE
        BY <1>2, <2>4, <3>3 DEF OneAtATime
      <3> QED
        BY <2>2, <3>1, <3>2, <3>3
    <2> QED
      BY <2>1, <2>3, <2>4
  <1>3. ASSUME NEW c \in Clients, want'[c] \in Keys PROVE act'[c].pc = "loading"
    <2>1. CASE want'[c] = want[c] /\ (pc(c) = "loading" => act'[c] = act[c])
      <3>1. pc(c) = "loading"
        BY <1>3, <2>1 DEF Alone
      <3> QED
        BY <2>1, <3>1 DEF pc
    <2> QED
      BY <1>1, <1>3, <2>1, Wants
  <1>4. ASSUME NEW c \in Clients PROVE act'[c].pc \notin Rej
    <2>1. Makes(c) => act'[c].pc \notin Rej
      BY DEF Makes, Becomes, Rej
    <2>2. pc(c) \notin Rej /\ "endRemember" \notin Rej
      BY DEF Alone, Rej
    <2> QED
      BY <2>1, <2>2, Climbs
  <1>5. ASSUME NEW c \in Clients, act'[c].pc \in Submitting, keyOf'[act'[c].run] \in Keys PROVE act'[c].run \notin preCanceled'
    <2>1. CASE Makes(c)
      <3>1. act'[c].run = lastRun + 1 /\ preCanceled' = preCanceled /\ lastRun + 1 \in Runs
        BY <2>1 DEF Makes, Becomes
      <3>2. lastRun + 1 \notin preCanceled
        BY <3>1, Numbered DEF Fresh, NotYet
      <3> QED
        BY <3>1, <3>2
    <2>2. ASSUME act'[c].run = cur(c), pc(c) \in Submitting PROVE act'[c].run \notin preCanceled'
      <3>1. PICK r \in Runs : r = cur(c)
        BY <1>0, <2>2, About DEF Submitting, Early, Mid, Undo, Free, Scanning
      <3>2. r # lastRun + 1
        BY <1>0, <3>1, Numbered DEF Fresh, NotYet
      <3>3. keyOf'[r] = keyOf[r]
        BY <3>2, KeyStands
      <3>4. keyOf[r] \in Keys /\ r \notin preCanceled
        BY <1>5, <2>2, <3>1, <3>3 DEF Alone
      <3>5. SubmitsKey(c, keyOf[r])
        BY <2>2, <3>1 DEF SubmitsKey
      <3>6. ASSUME NEW d \in Clients, Cancel(d, r), pc(d) = "idle" PROVE FALSE
        <4>1. d # c
          BY <2>2, <3>6 DEF Submitting, Early, Mid, Undo
        <4> QED
          BY <3>4, <3>5, <3>6, <4>1 DEF OneAtATime
      <3> QED
        BY <2>2, <3>1, <3>4, <3>6, Marked
    <2>3. "endRemember" \notin Submitting
      BY DEF Submitting, Early, Mid, Undo
    <2> QED
      BY <1>5, <2>1, <2>2, <2>3, Climbs
  <1> QED
    BY <1>2, <1>3, <1>4, <1>5 DEF Alone, pc, cur

LEMMA CopiedKept ==
  ASSUME TypeOK, Shape, Copied, Kind
  PROVE  Copied'
  <1> DEFINE S == Begun \cup End \cup {"begin", "exec", "settle", "createCanceled", "readRemember", "readUpsert"}
             Good(a) == act'[a].pc \in S => act'[a].status # "none"
  <1>0. /\ \A c \in Clients : c \in Actors /\ c \notin Workers
        /\ \A w \in Workers : w \in Actors /\ w \notin Clients
    BY ServiceConstants DEF Actors
  <1> USE DEF Copied, Others, Becomes
  <1>1. ASSUME NEW a \in Actors, act'[a] = act[a] PROVE Good(a)
    BY <1>1 DEF pc, loc
  <1>2. ASSUME NEW a \in Actors, act'[a] = Idle PROVE Good(a)
    BY <1>2 DEF Idle, Begun, End
  <1>3. ASSUME NEW a \in Actors, Passes(a) PROVE Good(a)
    BY <1>3 DEF Passes, Along, Free, Scanning, Early, Mid, Undo, Rej, Begun, End
  <1>4. ASSUME NEW c \in Clients, \/ Reads(c) \/ Readies(c) \/ Withdraws(c)
                                  \/ \E r \in Runs : ReadsOne(c, r) \/ Begins(c, r) \/ Cancels(c, r)
        PROVE  Good(c)
    BY <1>4 DEF Reads, ReadsOne, Begins, Cancels, Readies, Withdraws, Begun, End
  <1>5. ASSUME NEW w \in Workers, Takes(w) \/ Decides(w) PROVE Good(w)
    BY <1>5 DEF Takes, Decides, Begun, End
  <1>6. ASSUME NEW w \in Workers, Settles(w) \/ Cancelled(w) \/ Creates(w) \/ Enters(w) PROVE Good(w)
    BY <1>0, <1>6 DEF Settles, Cancelled, Creates, Enters, Begun, End
  <1>7. ASSUME NEW w \in Workers, NEW s \in RunStatus, Ends(w, s) PROVE Good(w)
    <2>1. "none" \notin RunStatus
      BY DEF RunStatus
    <2> QED
      BY <1>7, <2>1 DEF Ends
  <1>8. ASSUME NEW a \in Actors PROVE Good(a)
    <2>1. ASSUME NEW b \in Actors, Others(b), Good(b) PROVE Good(a)
      BY <1>1, <2>1
    <2>2. ASSUME NEW b \in Actors, Passes(b) \/ Leaves(b) PROVE Others(b) /\ Good(b)
      BY <1>2, <1>3, <2>2 DEF Passes, Leaves
    <2>3. ASSUME NEW d \in Clients, \/ Reads(d) \/ Readies(d) \/ Withdraws(d)
                                    \/ \E r \in Runs : ReadsOne(d, r) \/ Begins(d, r) \/ Cancels(d, r)
          PROVE  Others(d)
      BY <2>3 DEF Reads, ReadsOne, Begins, Cancels, Readies, Withdraws
    <2>4. ASSUME NEW d \in Clients, Sends(d) \/ Undoes(d) PROVE Others(d) /\ Good(d)
      BY <1>0, <1>2, <2>4 DEF Sends, Undoes
    <2>5. ASSUME NEW w \in Workers, Takes(w) \/ Decides(w) \/ Settles(w) \/ Cancelled(w) \/ Creates(w) \/ Enters(w)
                                    \/ \E s \in RunStatus : Ends(w, s)
          PROVE  Others(w)
      BY <2>5 DEF Takes, Decides, Settles, Cancelled, Creates, Enters, Ends
    <2>6. Stays \/ Restarts => act'[a] = act[a]
      BY DEF Stays, Restarts
    <2>7. Stops => act'[a] = Idle
      BY DEF Stops
    <2> HIDE DEF Good, Others, Becomes, Copied
    <2> QED
      BY <1>0, <1>1, <1>2, <1>4, <1>5, <1>6, <1>7, <2>1, <2>2, <2>3, <2>4, <2>5, <2>6, <2>7 DEF Kind
  <1> QED
    BY <1>8 DEF pc, loc
(* The only step that deletes a record.                                    *)
LEMMA Deleted ==
  ASSUME TypeOK, [Next]_vars, ~Fault, NEW r \in Runs, records[r] # "none", records'[r] = "none",
         \A c \in Clients : ~SubmitReject(c)
  PROVE  \/ \E c \in Clients : RollbackDelete(c) /\ cur(c) = r
         \/ \E a \in Actors : cur(a) = r /\ pc(a) \in {"startUpsert", "endUpsert", "readUpsert"} /\ loc(a) = "none"
  <1> USE DEF svars, gvars
  <1>0. records \in [Runs -> MetaStatus] /\ runStore \in [Runs -> RunStatus \cup {"none"}]
    BY DEF TypeOK
  <1>1. ASSUME NEW c \in Clients, SubmitAccept(c) PROVE records'[r] \in {records[r], "queued"}
    BY <1>0, <1>1 DEF SubmitAccept
  <1>2. ASSUME NEW c \in Clients, RollbackDelete(c) PROVE records'[r] = records[r] \/ cur(c) = r
    BY <1>0, <1>2 DEF RollbackDelete
  <1>3. ASSUME NEW a \in Actors, EndStep(a)
        PROVE  records'[r] = records[r] \/ (cur(a) = r /\ pc(a) \in {"startUpsert", "endUpsert", "readUpsert"} /\ records'[r] = loc(a))
    BY <1>0, <1>3 DEF EndStep, PersistMetaAsync, Remember, Upsert, UpsertRecord, NotifyOpsManualRunRecord, MarkNotified, RecordRun,
         FinishPublish, Step
  <1>4. ASSUME Restart PROVE records'[r] = records[r] \/ records'[r] # "none"
    BY <1>4 DEF Restart
  <1>5. ASSUME NEW c \in Clients, \/ \E k \in Keys \cup {NoKey} : SubmitCheck(c, k)
                                  \/ \E q \in Runs : Get(c, q) \/ Cancel(c, q)
                                  \/ List(c) \/ (ClientStep(c) /\ ~SubmitReject(c) /\ ~SubmitAccept(c) /\ ~RollbackDelete(c))
        PROVE  records' = records
    BY <1>5 DEF SubmitCheck, Get, Cancel, List, ClientStep, SubmitInvalid, RememberRejected,
         SubmitRemember, SubmitJob, SubmitPublish, EnqueueCheck, EnqueueSend, RollbackJob, RollbackForget, GetLookup, ListRuns, ReadNext
  <1>6. ASSUME NEW w \in Workers, WorkerStep(w) PROVE records' = records
    BY <1>6 DEF WorkerStep, Dequeue, WorkerExit, ProcessJob, CreateCanceled, StartPublish, CreateRun, BeginRun, TrackerWrite,
         Execute, Settle
  <1>7. Close \/ Exit \/ Crash \/ UNCHANGED vars => records' = records
    BY DEF Close, Exit, Crash, Stop, vars
  <1> HIDE DEF svars, gvars
  <1> QED
    BY <1>1, <1>2, <1>3, <1>4, <1>5, <1>6, <1>7 DEF Next, ClientStep

LEMMA ErasedKept ==
  ASSUME IInv, IInv', Erased, Alone, Copied, [Next]_vars, Clean'
  PROVE  Erased'
  <1>0. /\ TypeOK /\ Shape /\ Stored /\ Undone' /\ Stored' /\ Shape' /\ Kind /\ bounds'.faults = 0 /\ ~Fault
        /\ \A c \in Clients : ~SubmitReject(c)
    BY Kinds, CleanBefore DEF IInv, Clean
  <1>1. /\ \A c \in Clients : c \in Actors /\ c \notin Workers
        /\ \A w \in Workers : w \in Actors /\ pc(w) \in WorkerPc
        /\ NoRun \notin Runs /\ NoKey \notin Keys /\ lastRun \in Nat /\ lastRun' \in Nat /\ lastRun' >= lastRun
        /\ \A r \in Runs : r \in Nat
    BY <1>0, ServiceConstants, Grows DEF Actors, Runs, NoRun, Shape
  <1>2. ASSUME NEW r \in Runs, r > lastRun' PROVE keyOf'[r] = NoKey
    <2>1. r > lastRun
      BY <1>1, <1>2
    <2>2. ASSUME NEW c \in Clients, Makes(c) PROVE r # lastRun + 1
      BY <1>1, <1>2, <2>2 DEF Makes
    <2> QED
      BY <1>0, <2>1, <2>2, KeyStands DEF Erased
  <1>3. ASSUME NEW r \in Runs, keyOf'[r] \in Keys, records'[r] = "none"
        PROVE  Silent(r)' /\ runStore'[r] = "none" /\ metas'[r] = "none"
    <2>1. keyOf'[r] = keyOf[r]
      <3>1. ASSUME NEW c \in Clients, Makes(c), r = lastRun + 1 PROVE records'[r] = "queued"
        BY <1>0, <3>1 DEF Makes, TypeOK
      <3> QED
        BY <1>0, <1>3, <3>1, KeyStands
    <2>2. r <= lastRun
      BY <1>1, <1>3, <2>1 DEF Erased
    <2>3. CASE records[r] = "none"
      <3>1. /\ metas[r] = "none" /\ runStore[r] = "none" /\ jobs[r] = "absent" /\ ~Queued(r)
            /\ \A a \in Actors : cur(a) = r => pc(a) = "reading"
        BY <1>3, <2>1, <2>3 DEF Erased, Kept
      <3>2. \A w \in Workers : cur(w) # r
        BY <1>1, <3>1 DEF WorkerPc
      <3>3. Silent(r)
        BY <2>2, <3>1, <3>2 DEF Silent, Read, Actors
      <3>4. ~(\E c \in Clients, q \in Runs : Cancels(c, q) /\ r = q)
        BY <3>1 DEF Cancels
      <3>5. metas'[r] = "none"
        BY <1>0, <2>3, <3>1, <3>4, MetasWritten
      <3> QED
        BY <1>0, <3>1, <3>2, <3>3, <3>5, SilentStands, NoneStands
    <2>4. CASE records[r] # "none"
      <3>1. PICK c \in Clients : RollbackDelete(c) /\ cur(c) = r
        BY <1>0, <1>3, <2>4, Deleted DEF Copied, Begun, End
      <3>2. r \in rolledBack' /\ preCanceled' = preCanceled /\ pc(c) = "rbDelete"
        BY <3>1 DEF RollbackDelete, Step
      <3>3. r \notin preCanceled
        BY <1>3, <2>1, <3>1, <3>2 DEF Alone, Submitting, Undo
      <3> QED
        BY <1>0, <3>2, <3>3 DEF Undone
    <2> QED
      BY <2>3, <2>4
  <1>4. ASSUME NEW r \in Runs, keyOf'[r] \in Keys, records'[r] = "none", NEW a \in Actors, act'[a].run = r PROVE act'[a].pc = "reading"
    <2>1. a \in Clients /\ act'[a].pc \in Read /\ runStore'[r] = "none"
      BY <1>3, <1>4 DEF Silent, pc, cur
    <2>2. act'[a].pc \in {"readRemember", "readUpsert"} => runStore'[act'[a].run] # "none"
      BY <1>0, <2>1 DEF Stored, pc, cur
    <2>3. a \in Actors /\ act'[a].run # NoRun /\ (act'[a].pc \in {"getting", "listing"} => act'[a].run = NoRun)
      BY <1>0, <1>1, <1>4 DEF Shape, pc, cur
    <2> QED
      BY <1>4, <2>1, <2>2, <2>3 DEF Read
  <1> QED
    BY <1>2, <1>3, <1>4 DEF Erased, Kept, Silent, pc, cur

(* A run with a key gets a record when it is made, and not later.          *)
LEMMA Recorded ==
  ASSUME IInv, Erased, [Next]_vars, Clean', NEW r \in Runs, Kept(r)', keyOf'[r] \in Keys
  PROVE  \/ Kept(r) /\ keyOf[r] = keyOf'[r]
         \/ \E c \in Clients : Makes(c) /\ r = lastRun + 1 /\ keyOf'[r] = want[c]
  <1>0. TypeOK /\ Shape /\ Kind /\ ~Fault /\ \A c \in Clients : ~SubmitReject(c)
    BY Kinds, CleanBefore DEF IInv
  <1>1. CASE keyOf'[r] # keyOf[r]
    BY <1>0, <1>1, KeyStands
  <1>2. CASE keyOf'[r] = keyOf[r] /\ ~Kept(r)
    <2>1. records[r] = "none" /\ runStore[r] = "none" /\ records'[r] # "none"
          /\ \A a \in Actors : cur(a) = r => pc(a) = "reading"
      BY <1>2 DEF Erased, Kept
    <2>2. r # lastRun + 1
      BY <1>0, <1>2, KeyStands
    <2>3. Restarts => runStore'[r] = "none"
      BY <2>1 DEF Restarts, MarkInterrupted
    <2> QED
      BY <1>0, <2>1, <2>2, <2>3, RecordsWritten
  <1> QED
    BY <1>1, <1>2

LEMMA OneKeptKept ==
  ASSUME IInv, Alone, Alone', Erased, OneKept, Known, [Next]_vars, OneAtATime, Clean'
  PROVE  OneKept'
  <1>0. TypeOK /\ Shape /\ ~Fault /\ (\A c \in Clients : ~SubmitReject(c)) /\ keyOf \in [Runs -> Keys \cup {NoKey}]
    BY CleanBefore DEF IInv, TypeOK
  <1>1. ASSUME NEW r \in Runs, NEW q \in Runs, Kept(r)', Kept(q)', keyOf'[r] = keyOf'[q], keyOf'[r] \in Keys PROVE r = q
    <2>1. ASSUME NEW x \in Runs, NEW y \in Runs, NEW c \in Clients, keyOf'[x] = want[c], want[c] \in Keys, keyOf'[y] = keyOf'[x],
                 Kept(y), keyOf[y] = keyOf'[y]
          PROVE  FALSE
      BY <2>1 DEF OneKept
    <2>2. (Kept(r) /\ keyOf[r] = keyOf'[r]) \/ \E c \in Clients : Makes(c) /\ r = lastRun + 1 /\ keyOf'[r] = want[c]
      BY <1>1, Recorded
    <2>3. (Kept(q) /\ keyOf[q] = keyOf'[q]) \/ \E c \in Clients : Makes(c) /\ q = lastRun + 1 /\ keyOf'[q] = want[c]
      BY <1>1, Recorded
    <2>4. CASE Kept(r) /\ keyOf[r] = keyOf'[r] /\ Kept(q) /\ keyOf[q] = keyOf'[q]
      BY <1>1, <2>4 DEF OneKept
    <2> QED
      BY <1>1, <2>1, <2>2, <2>3, <2>4
  <1>2. ASSUME NEW c \in Clients, NEW r \in Runs, want'[c] \in Keys, keyOf'[r] = want'[c], Kept(r)' PROVE FALSE
    <2>1. CASE want'[c] = want[c]
      <3>1. CASE Kept(r) /\ keyOf[r] = keyOf'[r]
        BY <1>2, <2>1, <3>1 DEF OneKept
      <3>2. ASSUME NEW d \in Clients, Makes(d), keyOf'[r] = want[d] PROVE FALSE
        <4>1. SubmitsKey(c, want[c]) /\ BusyWith(d, want[c])
          BY <1>2, <2>1, <3>2 DEF SubmitsKey, BusyWith
        <4>2. c = d
          BY <1>2, <2>1, <4>1 DEF Alone
        <4>3. want'[d] = NoKey /\ NoKey \notin Keys
          BY <1>0, <3>2, ServiceConstants DEF Makes, TypeOK
        <4> QED
          BY <1>2, <4>2, <4>3
      <3> QED
        BY <1>2, <3>1, <3>2, Recorded
    <2>2. ASSUME NEW k \in Keys, Looks(c, k), want'[c] = k PROVE FALSE
      <3>1. Kept(r) /\ keyOf[r] = k
        BY <1>2, <2>2 DEF Looks, Kept
      <3>2. serving = "up" /\ pc(c) = "idle" /\ ~(idempotency[k] # NoRun /\ metas[idempotency[k]] # "none") /\ SubmitCheck(c, k)
        BY <2>2 DEF Looks
      <3>3. ~(metas[r] # "none" /\ idempotency[k] = r)
        BY <3>2, ServiceConstants DEF Runs, NoRun
      <3>4. PICK d \in Clients : cur(d) = r /\ pc(d) \in {"subRemember", "rbDelete"}
        BY <3>1, <3>2, <3>3 DEF Known
      <3>5. BusyWith(d, k) /\ d # c
        BY <3>1, <3>2, <3>4 DEF BusyWith, SubmitsKey, Submitting, Early, Undo
      <3> QED
        BY <3>2, <3>5 DEF OneAtATime
    <2> QED
      BY <1>0, <1>2, <2>1, <2>2, Wants
  <1> QED
    BY <1>1, <1>2 DEF OneKept
(* Which steps move a client that is about to remember its run, has just   *)
(* forgotten it or is between the two reads of a List.                     *)
LEMMA Waits ==
  ASSUME TypeOK, Shape, [Next]_vars, NEW c \in Clients, pc(c) \in {"subRemember", "rbDelete", "listing"}
  PROVE  act'[c] = act[c] \/ SubmitRemember(c) \/ RollbackDelete(c) \/ ListRuns(c) \/ Exit \/ Crash
  <1>0. (\A d \in Clients : d \in Actors /\ d \notin Workers) /\ (\A w \in Workers : w \in Actors /\ w # c)
    BY ServiceConstants DEF Actors
  <1>1. ASSUME NEW a \in Actors, NEW from, NEW to, NEW r, NEW s, Step(a, from, to) \/ (pc(a) = from /\ Move(a, to, r, s)),
               a # c \/ from \notin {"subRemember", "rbDelete", "listing"}
        PROVE  act'[c] = act[c]
    BY <1>0, <1>1, Onwards, Goes DEF Others
  <1>2. ASSUME NEW d \in Clients, \/ \E k \in Keys \cup {NoKey} : SubmitCheck(d, k)
                                  \/ \E r \in Runs : Get(d, r) \/ Cancel(d, r)
                                  \/ List(d)
        PROVE  act' = act \/ \E to, r, s : pc(d) = "idle" /\ Move(d, to, r, s)
    BY <1>2 DEF SubmitCheck, Get, List, Cancel, CancelWaiting, CancelStarted, Step
  <1>3. ASSUME NEW d \in Clients, ClientStep(d), ~SubmitRemember(d), ~RollbackDelete(d), ~ListRuns(d)
        PROVE  \E from, to, r, s : from \notin {"subRemember", "rbDelete", "listing"} /\ (Step(d, from, to) \/ (pc(d) = from /\ Move(d, to, r, s)))
    BY <1>3 DEF ClientStep, SubmitInvalid, SubmitReject, RememberRejected, SubmitAccept, NewRun, SubmitJob, SubmitPublish,
       EnqueueCheck, EnqueueSend, RollbackJob, RollbackForget, GetLookup, ListRuns, ReadNext
  <1>4. ASSUME NEW w \in Workers, WorkerStep(w)
        PROVE  \E from, to, r, s : Step(w, from, to) \/ (pc(w) = from /\ Move(w, to, r, s))
    BY <1>4 DEF WorkerStep, Dequeue, WorkerExit, ProcessJob, CreateCanceled, StartPublish, CreateRun, BeginRun, TrackerWrite,
         Execute, Settle
  <1>5. ASSUME NEW a \in Actors, EndStep(a)
        PROVE  \E from, to : from \notin {"subRemember", "rbDelete", "listing"} /\ Step(a, from, to)
    BY <1>5 DEF EndStep, PersistMetaAsync, Remember, Upsert, NotifyOpsManualRunRecord, MarkNotified, RecordRun, FinishPublish
  <1>6. Close \/ Restart \/ UNCHANGED vars => act' = act
    BY DEF Close, Restart, vars
  <1>7. ASSUME NEW d \in Clients, SubmitRemember(d) \/ RollbackDelete(d) \/ ListRuns(d), d # c PROVE act'[c] = act[c]
    BY <1>0, <1>7, Onwards DEF SubmitRemember, RollbackDelete, ListRuns, Others
  <1> QED
    BY <1>0, <1>1, <1>2, <1>3, <1>4, <1>5, <1>6, <1>7 DEF Next

(* How the lookup comes to name a run.                                     *)
LEMMA Noted ==
  ASSUME TypeOK, Shape, [Next]_vars, NEW k \in Keys
  PROVE  \/ idempotency'[k] = idempotency[k]
         \/ serving' = "down" /\ idempotency'[k] = NoRun
         \/ Restart
         \/ \E c \in Clients : RollbackForget(c) /\ keyOf[cur(c)] = k /\ idempotency'[k] = NoRun
         \/ \E a \in Actors : /\ cur(a) \in Runs /\ keyOf[cur(a)] = k /\ idempotency'[k] = cur(a)
                              /\ \/ pc(a) \in {"startRemember", "endRemember", "readRemember"}
                                 \/ a \in Clients /\ SubmitRemember(a)
  <1> USE DEF svars, gvars
  <1>0. /\ idempotency \in [Keys -> Runs \cup {NoRun}] /\ (\A c \in Clients : c \in Actors)
        /\ \A a \in Actors : pc(a) \notin Free \cup Scanning => cur(a) \in Runs
    BY About DEF TypeOK, Actors
  <1>1. ASSUME NEW a \in Actors, NEW s, NEW lost, RememberMeta(cur(a), s, lost)
        PROVE  idempotency'[k] = idempotency[k] \/ (keyOf[cur(a)] = k /\ idempotency'[k] = cur(a))
    BY <1>0, <1>1 DEF RememberMeta
  <1>2. ASSUME NEW c \in Clients, SubmitRemember(c)
        PROVE  idempotency'[k] = idempotency[k] \/ (cur(c) \in Runs /\ keyOf[cur(c)] = k /\ idempotency'[k] = cur(c))
    <2>1. pc(c) = "subRemember" /\ RememberMeta(cur(c), "queued", FALSE)
      BY <1>2 DEF SubmitRemember, Step
    <2> QED
      BY <1>0, <1>1, <2>1 DEF Free, Scanning
  <1>3. ASSUME NEW c \in Clients, RollbackForget(c)
        PROVE  idempotency'[k] = idempotency[k] \/ (keyOf[cur(c)] = k /\ idempotency'[k] = NoRun)
    BY <1>0, <1>3 DEF RollbackForget
  <1>4. ASSUME NEW a \in Actors, EndStep(a), idempotency' # idempotency
        PROVE  pc(a) \in {"startRemember", "endRemember", "readRemember"} /\ RememberMeta(cur(a), loc(a), cur(a) \in bareCopy[a]) /\ cur(a) \in Runs
    <2>1. pc(a) \in {"startRemember", "endRemember", "readRemember"} /\ RememberMeta(cur(a), loc(a), cur(a) \in bareCopy[a])
      BY <1>4 DEF EndStep, PersistMetaAsync, Remember, Upsert, NotifyOpsManualRunRecord, MarkNotified, RecordRun, FinishPublish, Step
    <2> QED
      BY <1>0, <2>1 DEF Free, Scanning
  <1>5. ASSUME NEW c \in Clients, \/ \E j \in Keys \cup {NoKey} : SubmitCheck(c, j)
                                  \/ \E q \in Runs : Get(c, q) \/ Cancel(c, q)
                                  \/ List(c) \/ (ClientStep(c) /\ ~SubmitRemember(c) /\ ~RollbackForget(c))
        PROVE  idempotency' = idempotency
    BY <1>5 DEF SubmitCheck, Get, Cancel, List, ClientStep, SubmitInvalid, SubmitReject, RememberRejected, SubmitAccept, SubmitJob,
         SubmitPublish, EnqueueCheck, EnqueueSend, RollbackJob, RollbackDelete, GetLookup, ListRuns, ReadNext
  <1>6. ASSUME NEW w \in Workers, WorkerStep(w) PROVE idempotency' = idempotency
    BY <1>6 DEF WorkerStep, Dequeue, WorkerExit, ProcessJob, CreateCanceled, StartPublish, CreateRun, BeginRun, TrackerWrite,
         Execute, Settle
  <1>7. Close \/ UNCHANGED vars => idempotency' = idempotency
    BY DEF Close, vars
  <1>8. Exit \/ Crash => serving' = "down" /\ idempotency'[k] = NoRun
    BY DEF Exit, Crash, Stop
  <1> HIDE DEF svars, gvars
  <1> QED
    BY <1>0, <1>1, <1>2, <1>3, <1>4, <1>5, <1>6, <1>7, <1>8 DEF Next, ClientStep

(* A meta is dropped by an undone Submit, and with the process.            *)
LEMMA MetaStands ==
  ASSUME TypeOK, Copied, [Next]_vars, NEW r \in Runs, metas[r] # "none"
  PROVE  \/ metas'[r] # "none"
         \/ serving' = "down" \/ Restart
         \/ \E c \in Clients : RollbackForget(c) /\ cur(c) = r
  <1> USE DEF svars, gvars
  <1>0. metas \in [Runs -> MetaStatus] /\ (\A c \in Clients : c \in Actors) /\ (\A w \in Workers : w \in Actors)
    BY DEF TypeOK, Actors
  <1>1. ASSUME NEW c \in Clients, NEW q \in Runs, Cancel(c, q) PROVE metas'[r] # "none"
    BY <1>0, <1>1 DEF Cancel, CancelStarted, CancelWaiting
  <1>2. ASSUME NEW c \in Clients, RememberRejected(c) \/ SubmitRemember(c) PROVE metas'[r] # "none"
    BY <1>0, <1>2 DEF RememberRejected, SubmitRemember, RememberMeta
  <1>3. ASSUME NEW c \in Clients, RollbackForget(c) PROVE metas'[r] # "none" \/ cur(c) = r
    BY <1>0, <1>3 DEF RollbackForget
  <1>4. ASSUME NEW w \in Workers, ProcessJob(w) PROVE metas'[r] # "none"
    BY <1>0, <1>4 DEF ProcessJob
  <1>5. ASSUME NEW w \in Workers, Settle(w) PROVE metas'[r] # "none"
    <2>1. loc(w) # "none"
      BY <1>0, <1>5 DEF Settle, Step, Copied
    <2>2. \E s : s # "none" /\ metas' = [metas EXCEPT ![cur(w)] = s]
      BY <1>5, <2>1 DEF Settle
    <2> QED
      BY <1>0, <2>2
  <1>6. ASSUME NEW a \in Actors, EndStep(a) PROVE metas'[r] # "none"
    <2>1. metas' = metas \/ (pc(a) \in {"startRemember", "endRemember", "readRemember"} /\ metas' = [metas EXCEPT ![cur(a)] = loc(a)])
      BY <1>6 DEF EndStep, PersistMetaAsync, Remember, RememberMeta, Upsert, NotifyOpsManualRunRecord, MarkNotified, RecordRun,
         FinishPublish, Step
    <2>2. pc(a) \in {"startRemember", "endRemember", "readRemember"} => loc(a) # "none"
      BY DEF Copied, Begun, End
    <2> QED
      BY <1>0, <2>1, <2>2
  <1>7. ASSUME NEW c \in Clients, \/ \E k \in Keys \cup {NoKey} : SubmitCheck(c, k)
                                  \/ \E q \in Runs : Get(c, q)
                                  \/ List(c) \/ (ClientStep(c) /\ ~RememberRejected(c) /\ ~SubmitRemember(c) /\ ~RollbackForget(c))
        PROVE  metas' = metas
    BY <1>7 DEF SubmitCheck, Get, List, ClientStep, SubmitInvalid, SubmitReject, SubmitAccept, SubmitJob,
         SubmitPublish, EnqueueCheck, EnqueueSend, RollbackJob, RollbackDelete, GetLookup, ListRuns, ReadNext
  <1>8. ASSUME NEW w \in Workers, WorkerStep(w), ~ProcessJob(w), ~Settle(w) PROVE metas' = metas
    BY <1>8 DEF WorkerStep, Dequeue, WorkerExit, CreateCanceled, StartPublish, CreateRun, BeginRun, TrackerWrite, Execute
  <1>9. Close \/ UNCHANGED vars => metas' = metas
    BY DEF Close, vars
  <1>10. Exit \/ Crash => serving' = "down"
    BY DEF Exit, Crash, Stop
  <1> HIDE DEF svars, gvars
  <1> QED
    BY <1>1, <1>2, <1>3, <1>4, <1>5, <1>6, <1>7, <1>8, <1>9, <1>10 DEF Next, ClientStep, WorkerStep

(* What a restart makes of a key that one kept run carries, or none.       *)
LEMMA Replayed ==
  ASSUME TypeOK, Restart, NEW k \in Keys,
         \A r, q \in Runs : records'[r] # "none" /\ keyOf[r] = k /\ records'[q] # "none" /\ keyOf[q] = k => r = q,
         \A r \in Runs : keyOf[r] = k => r \notin bareRecords /\ (runStore[r] # "none" => records[r] # "none")
  PROVE  /\ metas' = records'
         /\ \/ idempotency'[k] = NoRun /\ \A r \in Runs : keyOf[r] = k => records'[r] = "none"
            \/ \E r \in Runs : records'[r] # "none" /\ keyOf[r] = k /\ idempotency'[k] = r
  <1> DEFINE store    == [r \in Runs |-> MarkInterrupted(runStore[r])]
             inStore  == {r \in Runs : store[r] # "none"}
             lost     == {r \in inStore : keyOf[r] # NoKey /\ records[r] = "none"} \cup bareRecords
             carried  == {r \in Runs : records'[r] # "none"} \ lost
             carrying == {r \in Runs : records'[r] # "none" /\ keyOf[r] = k}
             running  == carrying \cap inStore
  <1>1. metas' = records' /\ idempotency' \in RestoredKeys(carried, inStore)
    BY DEF Restart
  <1>0. \A r \in Runs : keyOf[r] = k => r \notin lost
    BY DEF MarkInterrupted
  <1> HIDE DEF store, inStore, lost
  <1>2. IF running # {} THEN idempotency'[k] \in running
        ELSE idempotency'[k] = IF carrying # {} THEN Min(carrying) ELSE NoRun
    <2>1. {r \in carried : keyOf[r] = k} = carrying
      BY <1>0
    <2> HIDE DEF carried, carrying
    <2> QED
      BY <1>1, <2>1 DEF RestoredKeys
  <1>3. CASE carrying = {}
    BY <1>1, <1>2, <1>3
  <1>4. ASSUME NEW r \in carrying PROVE idempotency'[k] = r
    <2>1. carrying = {r} /\ r \in Nat
      BY <1>4 DEF Runs
    <2>2. Min({r}) = r
      BY <2>1 DEF Min
    <2> QED
      BY <1>2, <2>1, <2>2
  <1>5. CASE carrying # {}
    <2>1. PICK r \in carrying : TRUE
      BY <1>5
    <2>2. idempotency'[k] = r
      BY <1>4
    <2> QED
      BY <1>1, <2>1, <2>2
  <1> QED
    BY <1>3, <1>5

(* How a meta, a record or a copy comes to be without its key.             *)
LEMMA Bared ==
  ASSUME TypeOK, [Next]_vars, NEW r \in Runs
  PROVE  /\ r \in bareMetas' =>
              \/ r \in bareMetas \cup bareRecords
              \/ runStore[r] # "none" /\ keyOf[r] # NoKey /\ records[r] = "none"
              \/ \E a \in Actors : r \in bareCopy[a] /\ pc(a) # "listing"
         /\ r \in bareRecords' =>
              \/ r \in bareRecords
              \/ runStore[r] # "none" /\ keyOf[r] # NoKey /\ records[r] = "none"
              \/ \E a \in Actors : r \in bareCopy[a] /\ pc(a) # "listing"
         /\ \A a \in Actors : r \in bareCopy'[a] =>
              \/ r \in bareMetas \cup bareCopy[a]
              \/ a \in Clients /\ List(a) /\ (records[r] = "none" \/ r \in bareRecords)
              \/ a \in Clients /\ GetLookup(a, r) /\ metas[r] = "none" /\ keyOf[r] # NoKey
  <1> DEFINE Made0 == runStore[r] # "none" /\ keyOf[r] # NoKey /\ records[r] = "none"
             Held  == \E a \in Actors : r \in bareCopy[a] /\ pc(a) # "listing"
             A     == r \in bareMetas' => r \in bareMetas \cup bareRecords \/ Made0 \/ Held
             B     == r \in bareRecords' => r \in bareRecords \/ Made0 \/ Held
             C     == \A a \in Actors : r \in bareCopy'[a] =>
                         \/ r \in bareMetas \cup bareCopy[a]
                         \/ a \in Clients /\ List(a) /\ (records[r] = "none" \/ r \in bareRecords)
                         \/ a \in Clients /\ GetLookup(a, r) /\ metas[r] = "none" /\ keyOf[r] # NoKey
  <1> USE DEF bare
  <1>0. /\ bareCopy \in [Actors -> SUBSET Runs]
        /\ (\A c \in Clients : c \in Actors) /\ (\A w \in Workers : w \in Actors)
    BY DEF TypeOK, Actors
  <1>1. ASSUME NEW c \in Clients, \/ \E k \in Keys \cup {NoKey} : SubmitCheck(c, k)
                                  \/ SubmitInvalid(c) \/ SubmitReject(c) \/ RememberRejected(c) \/ SubmitAccept(c)
                                  \/ SubmitJob(c) \/ SubmitPublish(c) \/ EnqueueCheck(c) \/ EnqueueSend(c)
                                  \/ RollbackJob(c) \/ ReadNext(c) \/ \E q \in Runs : Get(c, q)
        PROVE  UNCHANGED bare
    BY <1>1 DEF SubmitCheck, SubmitInvalid, SubmitReject, RememberRejected, SubmitAccept, SubmitJob, SubmitPublish,
         EnqueueCheck, EnqueueSend, RollbackJob, ReadNext, Get
  <1>2. ASSUME NEW w \in Workers, WorkerStep(w), ~ProcessJob(w), ~Settle(w) PROVE UNCHANGED bare
    BY <1>2 DEF WorkerStep, Dequeue, WorkerExit, CreateCanceled, StartPublish, CreateRun, BeginRun, TrackerWrite, Execute
  <1>3. ASSUME NEW a \in Actors, NotifyOpsManualRunRecord(a) \/ FinishPublish(a) PROVE UNCHANGED bare
    BY <1>3 DEF NotifyOpsManualRunRecord, MarkNotified, RecordRun, FinishPublish
  <1>4. Close \/ UNCHANGED vars => UNCHANGED bare
    BY DEF Close, vars
  <1>5. UNCHANGED bare => A /\ B /\ C
    OBVIOUS
  <1>6. ASSUME NEW c \in Clients, SubmitRemember(c) \/ RollbackForget(c) \/ RollbackDelete(c) PROVE A /\ B /\ C
    BY <1>6 DEF SubmitRemember, RememberMeta, RollbackForget, RollbackDelete
  <1>7. ASSUME NEW c \in Clients, List(c) PROVE A /\ B /\ C
    BY <1>0, <1>7 DEF List
  <1>8. ASSUME NEW c \in Clients, NEW q \in Runs, GetLookup(c, q) PROVE A /\ B /\ C
    BY <1>0, <1>8 DEF GetLookup
  <1>9. ASSUME NEW c \in Clients, ListRuns(c) PROVE A /\ B /\ C
    BY <1>0, <1>9 DEF ListRuns
  <1>10. ASSUME NEW a \in Actors, NEW q, TakeCopy(a, q) PROVE C
    BY <1>0, <1>10 DEF TakeCopy
  <1>11. ASSUME NEW c \in Clients, NEW q \in Runs, Cancel(c, q) PROVE A /\ B /\ C
    BY <1>0, <1>10, <1>11 DEF Cancel, CancelWaiting, CancelStarted
  <1>12. ASSUME NEW w \in Workers, ProcessJob(w) \/ Settle(w) PROVE A /\ B /\ C
    BY <1>0, <1>10, <1>12 DEF ProcessJob, Settle
  <1>13. ASSUME NEW a \in Actors, NEW from, NEW to, from # "listing", Remember(a, from, to) PROVE A /\ B /\ C
    BY <1>13 DEF Remember, RememberMeta, Step
  <1>14. ASSUME NEW a \in Actors, NEW from, NEW to, from # "listing", Upsert(a, from, to) PROVE A /\ B /\ C
    BY <1>0, <1>14 DEF Upsert, UpsertRecord, Step
  <1>15. Exit \/ Crash => A /\ B /\ C
    BY DEF Exit, Crash, Stop
  <1>16. Restart => A /\ B /\ C
    BY DEF Restart, MarkInterrupted
  <1> HIDE DEF A, B, C, bare
  <1>17. ASSUME NEW a \in Actors, EndStep(a) PROVE A /\ B /\ C
    BY <1>3, <1>5, <1>13, <1>14, <1>17 DEF EndStep, PersistMetaAsync
  <1>18. ASSUME NEW w \in Workers, WorkerStep(w) PROVE A /\ B /\ C
    BY <1>2, <1>5, <1>12, <1>18
  <1>19. ASSUME NEW c \in Clients, ClientStep(c) PROVE A /\ B /\ C
    BY <1>1, <1>5, <1>6, <1>8, <1>9, <1>19 DEF ClientStep
  <1>20. A /\ B /\ C
    BY <1>1, <1>4, <1>5, <1>7, <1>11, <1>15, <1>16, <1>17, <1>18, <1>19 DEF Next
  <1> QED
    BY <1>20 DEF A, B, C

LEMMA CarriedKept ==
  ASSUME IInv, Erased, Carried, Known, [Next]_vars, OneAtATime, Clean'
  PROVE  Carried'
  <1>0. /\ TypeOK /\ Shape /\ Stored /\ ~Fault /\ (\A c \in Clients : ~SubmitReject(c))
        /\ keyOf \in [Runs -> Keys \cup {NoKey}] /\ NoKey \notin Keys
        /\ lastRun \in Nat /\ lastRun' \in Nat /\ lastRun' >= lastRun /\ \A r \in Runs : r \in Nat
    <2>1. TypeOK /\ Shape /\ Stored /\ ~Fault /\ \A c \in Clients : ~SubmitReject(c)
      BY CleanBefore DEF IInv
    <2>2. lastRun \in Nat /\ lastRun' \in Nat /\ lastRun' >= lastRun
      BY <2>1, Kinds, Grows
    <2>3. keyOf \in [Runs -> Keys \cup {NoKey}]
      BY <2>1 DEF TypeOK
    <2>4. NoKey \notin Keys /\ \A r \in Runs : r \in Nat
      BY ServiceConstants DEF Runs
    <2> QED
      BY <2>1, <2>2, <2>3, <2>4
  <1>1. ASSUME NEW r \in Runs, Keyed(r)' PROVE Keyed(r)
    <2>1. keyOf'[r] = keyOf[r] \/ r = lastRun + 1
      BY <1>0, KeyStands
    <2> QED
      BY <1>0, <1>1, <2>1 DEF Keyed
  <1>2. ASSUME NEW r \in Runs, Keyed(r)
        PROVE  /\ r \notin bareMetas \cup bareRecords /\ \A a \in Actors : r \in bareCopy[a] => pc(a) = "listing"
               /\ ~(runStore[r] # "none" /\ keyOf[r] # NoKey /\ records[r] = "none")
    BY <1>0, <1>2 DEF Carried, Erased, Keyed, Kept
  <1>3. ASSUME NEW r \in Runs, Keyed(r)' PROVE r \notin (bareMetas \cup bareRecords)'
    BY <1>0, <1>1, <1>2, <1>3, Bared
  <1>4. ASSUME NEW r \in Runs, Keyed(r), NEW a \in Actors, r \in bareCopy'[a]
        PROVE  /\ a \in Clients /\ act'[a].pc = "listing"
               /\ \/ r \in bareCopy[a] /\ pc(a) = "listing"
                  \/ List(a) /\ records[r] = "none"
    <2>1. CASE r \in bareCopy[a]
      <3>1. pc(a) = "listing"
        BY <1>2, <1>4, <2>1
      <3>2. a \in Clients
        BY <1>0, <3>1 DEF Shape, Actors, WorkerPc
      <3>3. ~ListRuns(a)
        <4>1. ASSUME ListRuns(a) PROVE runStore[r] # "none" /\ keyOf[r] # NoKey
          BY <1>0, <1>4, <4>1 DEF ListRuns, TypeOK
        <4>2. keyOf[r] # NoKey => keyOf[r] \in Keys
          BY <1>0
        <4> QED
          BY <1>2, <1>4, <2>1, <4>1, <4>2 DEF Carried, Kept
      <3>4. ~Exit /\ ~Crash
        BY <1>4 DEF Exit, Crash, Stop
      <3>5. act'[a] = act[a]
        BY <1>0, <3>1, <3>2, <3>3, <3>4, Waits DEF SubmitRemember, RollbackDelete, Step
      <3> QED
        BY <2>1, <3>1, <3>2, <3>5 DEF pc
    <2>2. CASE a \in Clients /\ List(a) /\ records[r] = "none"
      <3>1. act'[a].pc = "listing"
        BY <1>0, <1>4, <2>2, Onwards DEF List, Becomes
      <3> QED
        BY <2>2, <3>1
    <2>3. ASSUME a \in Clients, GetLookup(a, r), metas[r] = "none", keyOf[r] # NoKey PROVE FALSE
      <3>1. runStore[r] # "none" /\ keyOf[r] \in Keys /\ serving # "down"
        BY <1>0, <2>3 DEF GetLookup, Stored, Alive
      <3>2. records[r] # "none"
        BY <3>1 DEF Erased, Kept
      <3>3. PICK c \in Clients : cur(c) = r /\ pc(c) \in {"subRemember", "rbDelete"}
        BY <2>3, <3>1, <3>2 DEF Known, Kept
      <3> QED
        BY <1>0, <3>1, <3>3 DEF Stored, Submitting, Early, Undo
    <2> QED
      BY <1>0, <1>2, <1>4, <2>1, <2>2, <2>3, Bared
  <1>5. ASSUME NEW r \in Runs, keyOf'[r] \in Keys, NEW a \in Actors, r \in bareCopy'[a], Kept(r)' PROVE FALSE
    <2>1. Keyed(r) /\ a \in Clients
      BY <1>1, <1>4, <1>5 DEF Keyed
    <2>2. ASSUME Kept(r), keyOf[r] = keyOf'[r] PROVE FALSE
      BY <1>4, <1>5, <2>1, <2>2 DEF Carried, Kept
    <2>3. ASSUME NEW c \in Clients, Makes(c), keyOf'[r] = want[c] PROVE FALSE
      <3>1. SubmitAccept(c) /\ pc(c) = "loading"
        BY <2>3 DEF Makes
      <3>2. CASE r \in bareCopy[a] /\ pc(a) = "listing"
        BY <1>5, <2>1, <2>3, <3>1, <3>2 DEF OneAtATime
      <3>3. ASSUME List(a) PROVE FALSE
        <4>1. records' = records
          BY <3>3 DEF List
        <4>2. pc(a) = "idle" /\ Others(a)
          BY <2>1, <3>3, <1>0, Onwards DEF List, Actors
        <4> QED
          BY <1>4, <1>5, <2>1, <3>1, <3>3, <4>1, <4>2 DEF Kept
      <3> QED
        BY <1>4, <1>5, <2>1, <3>2, <3>3
    <2> QED
      BY <1>5, <2>2, <2>3, Recorded
  <1> QED
    BY <1>1, <1>3, <1>4, <1>5 DEF Carried, pc

LEMMA KnownKept ==
  ASSUME IInv, Copied, Erased, Carried, OneKept, OneKept', Known, [Next]_vars, Clean'
  PROVE  Known'
  <1>0. /\ TypeOK /\ Shape /\ ~Fault /\ (\A c \in Clients : ~SubmitReject(c)) /\ (\A c \in Clients : c \in Actors)
        /\ keyOf \in [Runs -> Keys \cup {NoKey}] /\ idempotency \in [Keys -> Runs \cup {NoRun}]
        /\ \A a \in Actors : pc(a) \notin Free \cup Scanning => cur(a) \in Runs
    BY CleanBefore, About DEF IInv, TypeOK, Actors
  <1>1. ASSUME NEW r \in Runs, keyOf[r] \in Keys PROVE keyOf'[r] = keyOf[r]
    BY <1>0, <1>1, KeyStands
  <1>2. ASSUME Restart, NEW k \in Keys
        PROVE  /\ metas' = records'
               /\ \/ idempotency'[k] = NoRun /\ \A r \in Runs : keyOf[r] = k => records'[r] = "none"
                  \/ \E r \in Runs : records'[r] # "none" /\ keyOf[r] = k /\ idempotency'[k] = r
    <2>1. \A r, q \in Runs : records'[r] # "none" /\ keyOf[r] = k /\ records'[q] # "none" /\ keyOf[q] = k => r = q
      BY <1>1 DEF OneKept, Kept
    <2>2. \A r \in Runs : keyOf[r] = k => r \notin bareRecords /\ (runStore[r] # "none" => records[r] # "none")
      BY DEF Carried, Keyed, Erased, Kept
    <2> QED
      BY <1>0, <1>2, <2>1, <2>2, Replayed
  <1>3. ASSUME NEW k \in Keys, idempotency'[k] # NoRun PROVE keyOf'[idempotency'[k]] = k
    <2>1. \E r \in Runs : keyOf[r] = k /\ idempotency'[k] = r
      <3>1. idempotency'[k] = idempotency[k] => idempotency[k] \in Runs /\ keyOf[idempotency[k]] = k
        BY <1>0, <1>3 DEF Known
      <3> QED
        BY <1>0, <1>2, <1>3, <3>1, Noted
    <2> QED
      BY <1>1, <2>1
  <1>4. ASSUME serving' # "down", NEW r \in Runs, keyOf'[r] \in Keys, Kept(r)'
        PROVE  \/ \E c \in Clients : act'[c].run = r /\ act'[c].pc \in {"subRemember", "rbDelete"}
               \/ metas'[r] # "none" /\ idempotency'[keyOf'[r]] = r
    <2>1. CASE \E c \in Clients : Makes(c) /\ r = lastRun + 1
      BY <2>1 DEF Makes, Becomes
    <2>2. CASE Restart /\ keyOf[r] = keyOf'[r]
      <3>1. PICK k \in Keys : k = keyOf[r] /\ k = keyOf'[r]
        BY <1>4, <2>2
      <3>2. metas' = records' /\ records'[r] # "none"
        BY <1>2, <1>4, <2>2, <3>1 DEF Kept
      <3>3. PICK q \in Runs : records'[q] # "none" /\ keyOf[q] = k /\ idempotency'[k] = q
        BY <1>2, <2>2, <3>1, <3>2
      <3>4. keyOf'[q] = k
        BY <1>1, <3>3
      <3>5. q = r
        BY <3>1, <3>2, <3>3, <3>4 DEF OneKept, Kept
      <3> QED
        BY <3>1, <3>2, <3>3, <3>5
    <2>3. CASE Kept(r) /\ keyOf[r] = keyOf'[r] /\ ~Restart
      <3> DEFINE k == keyOf[r]
      <3>0. k \in Keys /\ serving # "down"
        <4>1. serving = "down" => Restart \/ UNCHANGED serving
          BY <1>4 DEF Next, vars, SubmitCheck, Get, Cancel, List, ClientStep, SubmitInvalid, SubmitReject, RememberRejected,
             SubmitAccept, SubmitRemember, SubmitJob, SubmitPublish, EnqueueCheck, EnqueueSend, RollbackJob, RollbackForget,
             RollbackDelete, GetLookup, ListRuns, ReadNext, WorkerStep, Dequeue, WorkerExit, ProcessJob, CreateCanceled, StartPublish, CreateRun, BeginRun,
             TrackerWrite, Execute, Settle, EndStep, PersistMetaAsync, Remember, Upsert, NotifyOpsManualRunRecord, MarkNotified,
             RecordRun, FinishPublish, Close, Exit, Crash, Alive
        <4> QED
          BY <1>4, <2>3, <4>1
      <3> HIDE DEF k
      <3>1. ASSUME NEW q \in Runs, keyOf[q] = k, NEW a \in Actors, cur(a) = q, pc(a) # "reading" PROVE q = r
        <4>1. Kept(q)
          BY <3>0, <3>1 DEF Erased
        <4> QED
          BY <2>3, <3>0, <3>1, <4>1 DEF OneKept, k
      <3>2. ASSUME NEW c \in Clients, RollbackForget(c), keyOf[cur(c)] = k \/ cur(c) = r
            PROVE  act'[c].run = r /\ act'[c].pc = "rbDelete"
        <4>1. pc(c) = "rbForget" /\ Becomes(c, "rbDelete", cur(c), loc(c)) /\ cur(c) \in Runs
          BY <1>0, <3>2, Onwards DEF RollbackForget, Step, Free, Scanning
        <4>2. cur(c) = r
          BY <1>0, <3>1, <3>2, <4>1
        <4> QED
          BY <4>1, <4>2 DEF Becomes
      <3>3. ASSUME NEW c \in Clients, cur(c) = r, pc(c) \in {"subRemember", "rbDelete"}
            PROVE  \/ act'[c].run = r /\ act'[c].pc \in {"subRemember", "rbDelete"}
                   \/ metas'[r] # "none" /\ idempotency'[k] = r
        <4>1. act'[c] = act[c] \/ SubmitRemember(c) \/ RollbackDelete(c)
          BY <1>0, <1>4, <2>3, <3>3, Waits DEF ListRuns, Step, Exit, Crash, Stop
        <4>2. ASSUME SubmitRemember(c) PROVE metas'[r] # "none" /\ idempotency'[k] = r
          <5>1. RememberMeta(r, "queued", FALSE) /\ k # NoKey
            BY <3>0, <3>3, <4>2, ServiceConstants DEF SubmitRemember
          <5> QED
            BY <1>0, <3>0, <5>1 DEF RememberMeta, TypeOK, k
        <4>3. ~RollbackDelete(c)
          BY <1>0, <1>4, <3>3 DEF RollbackDelete, Kept, TypeOK
        <4> QED
          BY <3>3, <4>1, <4>2, <4>3 DEF pc, cur
      <3>4. ASSUME metas[r] # "none", idempotency[k] = r, ~(\E c \in Clients : act'[c].run = r /\ act'[c].pc = "rbDelete")
            PROVE  metas'[r] # "none" /\ idempotency'[k] = r
        <4>1. \A c \in Clients : RollbackForget(c) => keyOf[cur(c)] # k /\ cur(c) # r
          BY <3>2, <3>4
        <4>2. metas'[r] # "none"
          BY <1>0, <1>4, <2>3, <3>4, <4>1, MetaStands
        <4>3. ASSUME NEW a \in Actors, cur(a) \in Runs, keyOf[cur(a)] = k,
                     pc(a) \in {"startRemember", "endRemember", "readRemember"} \/ SubmitRemember(a)
              PROVE  cur(a) = r
          <5>1. pc(a) # "reading"
            BY <4>3 DEF SubmitRemember, Step
          <5> QED
            BY <3>1, <4>3, <5>1
        <4>4. idempotency'[k] = r
          BY <1>0, <1>4, <2>3, <3>0, <3>4, <4>1, <4>3, Noted
        <4> QED
          BY <4>2, <4>4
      <3> QED
        BY <2>3, <3>0, <3>3, <3>4 DEF Known, k
    <2> QED
      BY <1>4, <2>1, <2>2, <2>3, Recorded
  <1> QED
    BY <1>3, <1>4 DEF Known, pc, cur
(* What Submit returns is the run it finds, or the one it has enqueued.    *)
LEMMA Answered ==
  ASSUME TypeOK, Shape, [Next]_vars, NEW k \in Keys, NEW r \in acked'[k], r \notin acked[k]
  PROVE  \/ \E c \in Clients : /\ SubmitCheck(c, k) /\ idempotency[k] # NoRun /\ metas[idempotency[k]] # "none"
                               /\ r = idempotency[k] /\ act' = act
         \/ \E c \in Clients : EnqueueSend(c) /\ r = cur(c) /\ keyOf[r] = k /\ Step(c, "subSend", "idle")
  <1> USE DEF svars, gvars
  <1>0. acked \in [Keys -> SUBSET Runs] /\ keyOf \in [Runs -> Keys \cup {NoKey}] /\ NoKey \notin Keys /\ (\A c \in Clients : c \in Actors)
    BY ServiceConstants DEF TypeOK, Actors
  <1>1. ASSUME NEW c \in Clients, NEW j \in Keys \cup {NoKey}, SubmitCheck(c, j)
        PROVE  /\ SubmitCheck(c, k) /\ idempotency[k] # NoRun /\ metas[idempotency[k]] # "none"
               /\ r = idempotency[k] /\ act' = act
    <2>1. /\ j # NoKey /\ idempotency[j] # NoRun /\ metas[idempotency[j]] # "none"
          /\ acked' = [acked EXCEPT ![j] = acked[j] \cup {idempotency[j]}] /\ act' = act
      BY <1>1 DEF SubmitCheck
    <2>2. j = k /\ r = idempotency[j]
      BY <1>0, <2>1
    <2> QED
      BY <1>1, <2>1, <2>2
  <1>2. ASSUME NEW c \in Clients, EnqueueSend(c) PROVE r = cur(c) /\ keyOf[r] = k /\ Step(c, "subSend", "idle")
    <2>1. Acknowledge(cur(c)) /\ Step(c, "subSend", "idle")
      BY <1>2 DEF EnqueueSend
    <2>2. cur(c) \in Runs
      BY <1>0, <2>1, About DEF Step, Free, Scanning
    <2>3. keyOf[cur(c)] # NoKey /\ acked' = [acked EXCEPT ![keyOf[cur(c)]] = acked[keyOf[cur(c)]] \cup {cur(c)}]
      BY <2>1 DEF Acknowledge
    <2> QED
      BY <1>0, <2>1, <2>2, <2>3
  <1>3. ASSUME NEW c \in Clients, \/ \E q \in Runs : Get(c, q) \/ Cancel(c, q)
                                  \/ List(c) \/ (ClientStep(c) /\ ~EnqueueSend(c))
        PROVE  acked' = acked
    BY <1>3 DEF Get, Cancel, List, ClientStep, SubmitInvalid, SubmitReject, RememberRejected, SubmitAccept, SubmitRemember, SubmitJob,
         SubmitPublish, EnqueueCheck, RollbackJob, RollbackForget, RollbackDelete, GetLookup, ListRuns, ReadNext
  <1>4. ASSUME NEW w \in Workers, WorkerStep(w) PROVE acked' = acked
    BY <1>4 DEF WorkerStep, Dequeue, WorkerExit, ProcessJob, CreateCanceled, StartPublish, CreateRun, BeginRun, TrackerWrite,
         Execute, Settle
  <1>5. ASSUME NEW a \in Actors, EndStep(a) PROVE acked' = acked
    BY <1>5 DEF EndStep, PersistMetaAsync, Remember, Upsert, NotifyOpsManualRunRecord, MarkNotified, RecordRun, FinishPublish
  <1>6. Close \/ Exit \/ Crash \/ Restart \/ UNCHANGED vars => acked' = acked
    BY DEF Close, Exit, Crash, Stop, Restart, vars
  <1> HIDE DEF svars, gvars
  <1> QED
    BY <1>1, <1>2, <1>3, <1>4, <1>5, <1>6 DEF Next, ClientStep

LEMMA ReturnedKept ==
  ASSUME IInv, Alone, Copied, Erased, Known, Returned, [Next]_vars, OneAtATime, Clean'
  PROVE  Returned'
  <1>0. /\ TypeOK /\ Shape /\ OneOwner /\ ~Fault /\ (\A c \in Clients : ~SubmitReject(c)) /\ (\A c \in Clients : c \in Actors)
        /\ acked \in [Keys -> SUBSET Runs] /\ idempotency \in [Keys -> Runs \cup {NoRun}]
        /\ \A a \in Actors : pc(a) \notin Free \cup Scanning => cur(a) \in Runs
    BY CleanBefore, About DEF IInv, TypeOK, Actors
  <1>1. ASSUME NEW k \in Keys, NEW r \in acked[k]
        PROVE  keyOf'[r] = k /\ records'[r] # "none" /\ \A c \in Clients : act'[c].pc \in Submitting => act'[c].run # r
    <2>1. r \in Runs /\ keyOf[r] = k /\ records[r] # "none" /\ \A c \in Clients : pc(c) \in Submitting => cur(c) # r
      BY <1>0, <1>1 DEF Returned, Kept
    <2>2. keyOf'[r] = k /\ r # lastRun + 1
      BY <1>0, <2>1, KeyStands
    <2>3. records'[r] # "none"
      <3>1. ASSUME NEW c \in Clients, RollbackDelete(c), cur(c) = r PROVE FALSE
        BY <2>1, <3>1 DEF RollbackDelete, Step, Submitting, Undo
      <3>2. ASSUME NEW a \in Actors, pc(a) \in {"startUpsert", "endUpsert", "readUpsert"} PROVE loc(a) # "none"
        BY <3>2 DEF Copied, Begun, End
      <3> QED
        BY <1>0, <2>1, <3>1, <3>2, Deleted
    <2>4. ASSUME NEW c \in Clients, act'[c].pc \in Submitting PROVE act'[c].run # r
      <3>1. Makes(c) => act'[c].run # r
        BY <2>2 DEF Makes, Becomes
      <3>2. "endRemember" \notin Submitting
        BY DEF Submitting, Early, Mid, Undo
      <3> QED
        BY <1>0, <2>1, <2>4, <3>1, <3>2, Climbs
    <2> QED
      BY <2>2, <2>3, <2>4
  <1>2. ASSUME NEW c \in Clients, NEW k \in Keys, SubmitCheck(c, k), idempotency[k] # NoRun, metas[idempotency[k]] # "none",
               NEW r \in Runs, r = idempotency[k], act' = act
        PROVE  keyOf'[r] = k /\ records'[r] # "none" /\ \A d \in Clients : act'[d].pc \in Submitting => act'[d].run # r
    <2>1. keyOf[r] = k /\ keyOf' = keyOf /\ records' = records /\ pc(c) = "idle"
      BY <1>2 DEF Known, SubmitCheck
    <2>2. records[r] # "none"
      BY <1>2, <2>1 DEF Erased, Kept
    <2>3. ASSUME NEW d \in Clients, pc(d) \in Submitting, cur(d) = r PROVE FALSE
      <3>1. BusyWith(d, k) /\ d # c
        BY <2>1, <2>3 DEF BusyWith, SubmitsKey, Submitting, Early, Mid, Undo
      <3> QED
        BY <1>2, <3>1 DEF OneAtATime
    <2> QED
      BY <1>2, <2>1, <2>2, <2>3 DEF pc, cur
  <1>3. ASSUME NEW c \in Clients, NEW k \in Keys, EnqueueSend(c), NEW r \in Runs, r = cur(c), keyOf[r] = k, Step(c, "subSend", "idle")
        PROVE  keyOf'[r] = k /\ records'[r] # "none" /\ \A d \in Clients : act'[d].pc \in Submitting => act'[d].run # r
    <2>1. keyOf' = keyOf /\ records' = records
      BY <1>3 DEF EnqueueSend
    <2>2. pc(c) = "subSend" /\ act'[c] = Idle /\ Others(c)
      BY <1>0, <1>3, Onwards
    <2>3. records[r] # "none"
      BY <1>0, <1>3, <2>2 DEF Erased, Kept
    <2>4. ASSUME NEW d \in Clients, act'[d].pc \in Submitting, act'[d].run = r PROVE FALSE
      <3>1. d # c
        BY <2>2, <2>4 DEF Idle, Submitting, Early, Mid, Undo
      <3>2. pc(d) \in Submitting /\ cur(d) = r
        BY <1>0, <2>2, <2>4, <3>1 DEF Others, pc, cur
      <3>3. Owns(c, r) /\ Owns(d, r)
        BY <1>3, <2>2, <3>2 DEF Owns, Submitting, Mid
      <3> QED
        BY <1>0, <3>1, <3>3 DEF OneOwner
    <2> QED
      BY <1>3, <2>1, <2>3, <2>4
  <1>4. ASSUME NEW k \in Keys, NEW r \in acked'[k], r \notin acked[k]
        PROVE  keyOf'[r] = k /\ records'[r] # "none" /\ \A d \in Clients : act'[d].pc \in Submitting => act'[d].run # r
    <2>1. \/ \E c \in Clients : /\ SubmitCheck(c, k) /\ idempotency[k] # NoRun /\ metas[idempotency[k]] # "none"
                                /\ r = idempotency[k] /\ act' = act
          \/ \E c \in Clients : EnqueueSend(c) /\ r = cur(c) /\ keyOf[r] = k /\ Step(c, "subSend", "idle")
      BY <1>0, <1>4, Answered
    <2>2. ASSUME NEW c \in Clients, EnqueueSend(c), Step(c, "subSend", "idle") PROVE cur(c) \in Runs
      BY <1>0, <2>2 DEF Step, Free, Scanning
    <2>3. idempotency[k] # NoRun => idempotency[k] \in Runs
      BY <1>0
    <2> QED
      BY <1>2, <1>3, <2>1, <2>2, <2>3
  <1> QED
    BY <1>1, <1>4 DEF Returned, Kept, pc, cur

-----------------------------------------------------------------------------
(* The theorem.                                                            *)

LEMMA KInvKept ==
  ASSUME IInv, IInv', KInv, [Next]_vars, OneAtATime, Clean'
  PROVE  KInv'
  <1>0. /\ TypeOK /\ Shape /\ Fresh /\ Kind /\ ~Fault /\ (\A c \in Clients : ~SubmitReject(c))
        /\ Alone /\ Copied /\ Erased /\ Carried /\ OneKept /\ Known /\ Returned
    BY Kinds, CleanBefore DEF IInv, KInv
  <1>1. Alone' /\ Copied' /\ Erased'
    BY <1>0, AloneKept, CopiedKept, ErasedKept
  <1>2. OneKept'
    BY <1>0, <1>1, OneKeptKept
  <1>3. Carried' /\ Known' /\ Returned'
    BY <1>0, <1>2, CarriedKept, KnownKept, ReturnedKept
  <1> QED
    BY <1>1, <1>2, <1>3 DEF KInv

(* The guarantee of idempotency keys, and what it needs: when the calls    *)
(* about one key do not overlap (no Submit with a key begins while another *)
(* call works on a run with it, no Cancel hits a Submit in progress), and  *)
(* no Submit with a key writes its first record between the two reads of   *)
(* another client's List, all that Submit ever returns for the key is one  *)
(* run, over queue refusals and rollbacks, other reads, crashes and        *)
(* restarts that rebuild the lookup from the files, whatever the calls     *)
(* about other keys do, unless a store write is lost or a request refused. *)
THEOREM SerialKeys == Spec /\ [][OneAtATime]_vars => []SameKeySameRun
  <1> DEFINE Inv == IInv /\ (Clean => KInv)
  <1>1. Init => Inv
    <2>1. ASSUME Init PROVE KInv
      <3>1. (\A a \in Actors : act[a] = Idle) /\ (\A c \in Clients : want[c] = NoKey /\ c \in Actors) /\ NoKey \notin Keys
        BY <2>1, ServiceConstants DEF Init, Actors
      <3>2. (\A r \in Runs : keyOf[r] = NoKey /\ records[r] = "none") /\ \A k \in Keys : acked[k] = {} /\ idempotency[k] = NoRun
        BY <2>1 DEF Init
      <3>5. Carried
        BY <2>1 DEF Init, Carried
      <3>3. Alone /\ Copied
        BY <3>1 DEF Alone, Copied, SubmitsKey, BusyWith, Submitting, Early, Mid, Undo, End, Rej, Begun, Idle, pc, cur, loc
      <3>4. Erased /\ OneKept /\ Known /\ Returned
        BY <3>1, <3>2 DEF Erased, OneKept, Known, Returned, Kept
      <3> QED
        BY <3>3, <3>4, <3>5 DEF KInv
    <2> QED
      BY <2>1, Start
  <1>2. Inv /\ [Next]_vars /\ [OneAtATime]_vars => Inv'
    <2>1. ASSUME Inv, [Next]_vars, [OneAtATime]_vars PROVE Inv'
      <3>1. IInv /\ IInv' /\ TypeOK
        BY <2>1, IInvKept DEF IInv
      <3>2. ASSUME Clean' PROVE KInv'
        <4>1. Clean /\ KInv
          BY <2>1, <3>1, <3>2, CleanBefore
        <4>2. CASE OneAtATime
          BY <2>1, <3>1, <3>2, <4>1, <4>2, KInvKept
        <4>3. CASE UNCHANGED vars
          <5>1. KInv
            BY <4>1
          <5>2. UNCHANGED <<serving, act, want, jobs, metas, idempotency, queue, records, runStore, keyOf, lastRun, acked, preCanceled,
                            bareMetas, bareRecords, bareCopy>>
            BY <4>3 DEF vars, svars, gvars, bare
          <5> QED
            BY <5>1, <5>2 DEF KInv, Alone, Copied, Erased, Carried, Keyed, OneKept, Known, Returned, SubmitsKey, BusyWith, Kept, Queued, pc, cur, loc
        <4> QED
          BY <2>1, <4>2, <4>3
      <3> QED
        BY <3>1, <3>2
    <2> QED
      BY <2>1
  <1>3. Inv => SameKeySameRun
    <2>1. ASSUME IInv, KInv, NEW k \in Keys PROVE Cardinality(acked[k]) <= 1
      <3>1. acked[k] \subseteq Runs
        BY <2>1 DEF IInv, TypeOK
      <3>2. \A r, q \in acked[k] : r = q
        BY <2>1, <3>1 DEF KInv, Returned, OneKept
      <3>3. CASE acked[k] = {}
        BY <3>3, FS_EmptySet
      <3>4. ASSUME NEW r \in acked[k] PROVE Cardinality(acked[k]) = 1
        <4>1. acked[k] = {r}
          BY <3>2
        <4> QED
          BY <4>1, FS_Singleton
      <3> QED
        BY <3>3, <3>4
    <2> QED
      BY <2>1 DEF SameKeySameRun, Clean
  <1> HIDE DEF Inv
  <1> QED
    BY <1>1, <1>2, <1>3, PTL DEF Spec

(* A single caller never overlaps with itself, so every key it uses stands *)
(* for one run.                                                            *)
THEOREM OneCaller ==
  ASSUME NEW c, Clients = {c}
  PROVE  Spec => []SameKeySameRun
  <1>1. [Next]_vars => [OneAtATime]_vars
    <2>1. OneAtATime
      BY DEF OneAtATime
    <2> QED
      BY <2>1
  <1> QED
    BY <1>1, SerialKeys, PTL DEF Spec

-----------------------------------------------------------------------------
(* The promises of RunLedger.                                              *)

Has(r, e) == \E i \in 1..Len(history[r]) : history[r][i] = e

UnderWay(r) == Has(r, "run_start") /\ ~Has(r, "run_finish") /\ r \notin preCanceled

(* A run is announced before it is in the queue, and once.                 *)
Heralded ==
  /\ \A c \in Clients : pc(c) \in Early \cup {"subPublish"} => ~Has(cur(c), "run_queued")
  /\ \A c \in Clients : pc(c) \in {"subCheck", "subSend"} => Has(cur(c), "run_queued")
  /\ \A r \in Runs : Queued(r) => Has(r, "run_queued")
  /\ \A w \in Workers : pc(w) \in Before => Has(cur(w), "run_queued")

(* A run that is submitted, queued, taken or canceled has not started.     *)
Unstarted ==
  /\ \A c \in Clients : pc(c) \in Submitting => ~Has(cur(c), "run_start")
  /\ \A r \in Runs : Queued(r) \/ r \in preCanceled => ~Has(r, "run_start")
  /\ \A w \in Workers : pc(w) \in Before => ~Has(cur(w), "run_start")

(* A run that a worker executes or ends has started and not finished.      *)
InProgress ==
  /\ \A w \in Workers : pc(w) \in {"create", "begin", "exec", "settle"} => UnderWay(cur(w))
  /\ \A w \in Workers : pc(w) \in End => UnderWay(cur(w)) \/ (cur(w) \in preCanceled /\ loc(w) = "canceled")

(* What the store says of it.                                              *)
Progress ==
  /\ \A w \in Workers : pc(w) = "begin" => runStore[cur(w)] = "queued"
  /\ \A w \in Workers : pc(w) = "exec" => runStore[cur(w)] = "running"
  /\ \A w \in Workers : pc(w) \in {"settle"} \cup End /\ IsTerminalRunStatus(runStore[cur(w)]) => runStore[cur(w)] = loc(w)

(* Of a refused request nothing is published.                              *)
Refused ==
  \A c \in Clients : pc(c) \in Rej => history[cur(c)] = <<>> /\ cur(c) \notin preCanceled /\ loc(c) = "failed"

(* Once the sink was told of a run, nobody starts it.                      *)
ToldOver == \A r \in Runs : told[r] # <<>> => Over(r)

LInv == Heralded /\ Unstarted /\ InProgress /\ Progress /\ Refused /\ ToldOver

(* How an actor comes to the points that matter for the events.            *)
LEMMA Points ==
  ASSUME TypeOK, Shape, [Next]_vars, NEW a \in Actors, act'[a] # act[a],
         act'[a].pc \in {"subPublish", "subCheck", "subSend", "create", "begin", "exec"}
  PROVE  \/ a \in Clients /\ SubmitJob(a) /\ act'[a].pc = "subPublish"
         \/ a \in Clients /\ SubmitPublish(a) /\ act'[a].pc = "subCheck"
         \/ a \in Clients /\ EnqueueCheck(a) /\ act'[a].pc = "subSend"
         \/ a \in Workers /\ StartPublish(a) /\ act'[a].pc = "create"
         \/ a \in Workers /\ CreateRun(a) /\ act'[a].pc = "begin"
         \/ a \in Workers /\ BeginRun(a) /\ act'[a].pc = "exec"
  <1> DEFINE Spots == {"subPublish", "subCheck", "subSend", "create", "begin", "exec"}
  <1>0. (\A d \in Clients : d \in Actors /\ d \notin Workers) /\ (\A w \in Workers : w \in Actors /\ w \notin Clients)
        /\ "idle" \notin Spots
    BY ServiceConstants DEF Actors
  <1>1. ASSUME NEW b \in Actors, NEW from, NEW to, NEW r, NEW s, Step(b, from, to) \/ Move(b, to, r, s),
               b # a \/ to \notin Spots
        PROVE  FALSE
    <2>1. Others(b) /\ (to # "idle" => act'[b].pc = to) /\ (to = "idle" => act'[b] = Idle)
      BY <1>1, Onwards, Goes DEF Becomes
    <2>2. b = a
      BY <2>1 DEF Others
    <2> QED
      BY <1>0, <1>1, <2>1, <2>2 DEF Idle
  <1>2. ASSUME NEW b \in Actors, NEW to, NEW r, NEW s, NEW from, Step(b, from, to) \/ Move(b, to, r, s)
        PROVE  b = a /\ to \in Spots /\ act'[a].pc = to
    <2>1. b = a /\ to \in Spots /\ to # "idle"
      BY <1>0, <1>1, <1>2
    <2> QED
      BY <1>2, <2>1, Onwards, Goes DEF Becomes
  <1>3. ASSUME NEW d \in Clients, \/ \E k \in Keys \cup {NoKey} : SubmitCheck(d, k)
                                  \/ \E r \in Runs : Get(d, r) \/ Cancel(d, r)
                                  \/ List(d)
        PROVE  FALSE
    <2>1. act' = act \/ \E to \in {"loading", "getting", "listing", "endRemember"} : \E from, r, s : Step(d, from, to) \/ Move(d, to, r, s)
      BY <1>3 DEF SubmitCheck, Get, List, Cancel, CancelWaiting, CancelStarted
    <2> QED
      BY <1>0, <1>2, <2>1
  <1>4. ASSUME NEW d \in Clients, ClientStep(d), ~SubmitJob(d), ~SubmitPublish(d), ~EnqueueCheck(d)
        PROVE  FALSE
    <2>1. \E to \in {"idle", "rejRemember", "rejNotify", "subRemember", "subJob", "rbJob", "rbForget", "rbDelete",
             "reading", "readRemember"} : \E from, r, s :
             Step(d, from, to) \/ Move(d, to, r, s)
      BY <1>4 DEF ClientStep, SubmitInvalid, SubmitReject, RememberRejected, SubmitAccept, SubmitRemember, NewRun,
         EnqueueSend, RollbackJob, RollbackForget, RollbackDelete, GetLookup, ListRuns, ReadNext
    <2> QED
      BY <1>0, <1>2, <2>1
  <1>5. ASSUME NEW w \in Workers, WorkerStep(w), ~StartPublish(w), ~CreateRun(w), ~BeginRun(w)
        PROVE  FALSE
    <2>1. \E to \in {"claimed", "exited", "idle", "createCanceled", "startRemember", "endRemember", "settle"} : \E from, r, s :
             Step(w, from, to) \/ Move(w, to, r, s)
      BY <1>5 DEF WorkerStep, Dequeue, WorkerExit, ProcessJob, CreateCanceled, Execute, Settle
    <2> QED
      BY <1>0, <1>2, <2>1
  <1>6. ASSUME NEW b \in Actors, EndStep(b)
        PROVE  FALSE
    <2>1. \E to \in {"startUpsert", "startPublish", "endUpsert", "notify", "readUpsert", "reading", "record", "finishPublish",
                     "rejRecord", "idle"} : \E from : Step(b, from, to)
      BY <1>6 DEF EndStep, PersistMetaAsync, Remember, Upsert, NotifyOpsManualRunRecord, MarkNotified, RecordRun, FinishPublish
    <2> QED
      BY <1>0, <1>2, <2>1
  <1>7. Close \/ Restart \/ UNCHANGED vars => act' = act
    BY DEF Close, Restart, vars
  <1>8. Exit \/ Crash => act'[a] = Idle
    BY DEF Exit, Crash, Stop
  <1>9. ASSUME NEW d \in Clients, SubmitJob(d) \/ SubmitPublish(d) \/ EnqueueCheck(d)
        PROVE  \/ d = a /\ SubmitJob(a) /\ act'[a].pc = "subPublish"
               \/ d = a /\ SubmitPublish(a) /\ act'[a].pc = "subCheck"
               \/ d = a /\ EnqueueCheck(a) /\ act'[a].pc = "subSend"
    <2>1. SubmitJob(d) => d = a /\ act'[a].pc = "subPublish"
      BY <1>0, <1>2 DEF SubmitJob
    <2>2. SubmitPublish(d) => d = a /\ act'[a].pc = "subCheck"
      BY <1>0, <1>2 DEF SubmitPublish
    <2>3. ASSUME EnqueueCheck(d) PROVE d = a /\ act'[a].pc = "subSend"
      <3>1. Step(d, "subCheck", "subSend") \/ Step(d, "subCheck", "rbJob")
        BY <2>3 DEF EnqueueCheck
      <3> QED
        BY <1>0, <1>2, <3>1
    <2> QED
      BY <1>9, <2>1, <2>2, <2>3
  <1>10. ASSUME NEW w \in Workers, StartPublish(w) \/ CreateRun(w) \/ BeginRun(w)
         PROVE  \/ w = a /\ StartPublish(a) /\ act'[a].pc = "create"
                \/ w = a /\ CreateRun(a) /\ act'[a].pc = "begin"
                \/ w = a /\ BeginRun(a) /\ act'[a].pc = "exec"
    <2>1. StartPublish(w) => w = a /\ act'[a].pc = "create"
      BY <1>0, <1>2 DEF StartPublish
    <2>2. ASSUME NEW from, NEW to, NEW s, TrackerWrite(w, from, to, s) PROVE w = a /\ act'[a].pc = to
      <3>1. Step(w, from, to) \/ Move(w, "settle", cur(w), "")
        BY <2>2 DEF TrackerWrite
      <3>2. ASSUME NEW r, Move(w, "settle", r, "") PROVE FALSE
        <4>1. "settle" \in Spots
          BY <1>0, <1>2, <3>2
        <4> QED
          BY <4>1
      <3>3. Step(w, from, to)
        BY <3>1, <3>2
      <3> QED
        BY <1>0, <1>2, <3>3
    <2>3. (CreateRun(w) => w = a /\ act'[a].pc = "begin") /\ (BeginRun(w) => w = a /\ act'[a].pc = "exec")
      BY <2>2 DEF CreateRun, BeginRun
    <2> QED
      BY <1>10, <2>1, <2>3
  <1> HIDE DEF Spots
  <1> QED
    BY <1>0, <1>3, <1>4, <1>5, <1>6, <1>7, <1>8, <1>9, <1>10 DEF Next, ClientStep, WorkerStep, Idle

(* What is published about run r, by whom, and what it changes.            *)
Says(a, r, t) ==
  /\ cur(a) = r /\ Others(a) /\ UNCHANGED <<queue, preCanceled, runStore, told, lastRun>>
  /\ \/ t = "run_queued" /\ a \in Clients /\ pc(a) = "subPublish" /\ act'[a].pc = "subCheck" /\ act'[a].run = r
     \/ t = "run_start" /\ a \in Workers /\ pc(a) = "startPublish" /\ act'[a].pc = "create" /\ act'[a].run = r
     \/ t = "run_finish" /\ pc(a) = "finishPublish" /\ act'[a] = Idle

LEMMA Said ==
  ASSUME TypeOK, Shape, [Next]_vars, NEW r \in Runs
  PROVE  \/ history'[r] = history[r] /\ \A e : Has(r, e)' <=> Has(r, e)
         \/ \E a \in Actors, t \in Events :
              /\ Says(a, r, t) /\ history'[r] = Append(history[r], t)
              /\ \A e : Has(r, e)' <=> (Has(r, e) \/ e = t)
  <1> USE DEF svars, gvars
  <1>0. \A c \in Clients : c \in Actors
    BY DEF Actors
  <1>1. ASSUME NEW a \in Actors, NEW t \in Events, PublishEvent(cur(a), t)
        PROVE  history'[r] = history[r] \/ (cur(a) = r /\ history'[r] = Append(history[r], t))
    BY <1>1, ActTyped, Published
  <1>2. ASSUME NEW c \in Clients, SubmitPublish(c)
        PROVE  /\ PublishEvent(cur(c), "run_queued") /\ "run_queued" \in Events
               /\ cur(c) = r => Says(c, r, "run_queued")
    <2>1. pc(c) = "subPublish" /\ Becomes(c, "subCheck", cur(c), loc(c))
      BY <1>0, <1>2, Onwards DEF SubmitPublish
    <2> QED
      BY <1>2, <2>1 DEF SubmitPublish, Says, Events, Becomes
  <1>3. ASSUME NEW w \in Workers, StartPublish(w)
        PROVE  /\ PublishEvent(cur(w), "run_start") /\ "run_start" \in Events /\ w \in Actors
               /\ cur(w) = r => Says(w, r, "run_start")
    <2>0. w \in Actors
      BY DEF Actors
    <2>1. pc(w) = "startPublish" /\ Becomes(w, "create", cur(w), loc(w))
      BY <2>0, <1>3, Onwards DEF StartPublish
    <2> QED
      BY <1>3, <2>0, <2>1 DEF StartPublish, Says, Events, Becomes
  <1>4. ASSUME NEW a \in Actors, FinishPublish(a)
        PROVE  /\ PublishEvent(cur(a), "run_finish") /\ "run_finish" \in Events
               /\ cur(a) = r => Says(a, r, "run_finish")
    <2>1. pc(a) = "finishPublish" /\ Others(a) /\ act'[a] = Idle
      BY <1>4, Onwards DEF FinishPublish
    <2> QED
      BY <1>4, <2>1 DEF FinishPublish, Says, Events
  <1>5. ASSUME NEW c \in Clients, \/ \E k \in Keys \cup {NoKey} : SubmitCheck(c, k)
                                  \/ \E q \in Runs : Get(c, q) \/ Cancel(c, q)
                                  \/ List(c) \/ (ClientStep(c) /\ ~SubmitPublish(c))
        PROVE  history' = history
    BY <1>5 DEF SubmitCheck, Get, Cancel, List, ClientStep, SubmitInvalid, SubmitReject, RememberRejected, SubmitAccept,
         SubmitRemember, SubmitJob, EnqueueCheck, EnqueueSend, RollbackJob, RollbackForget, RollbackDelete, GetLookup, ListRuns, ReadNext
  <1>6. ASSUME NEW w \in Workers, WorkerStep(w), ~StartPublish(w) PROVE history' = history
    BY <1>6 DEF WorkerStep, Dequeue, WorkerExit, ProcessJob, CreateCanceled, CreateRun, BeginRun, TrackerWrite, Execute, Settle
  <1>7. ASSUME NEW a \in Actors, EndStep(a), ~FinishPublish(a) PROVE history' = history
    BY <1>7 DEF EndStep, PersistMetaAsync, Remember, Upsert, NotifyOpsManualRunRecord, MarkNotified, RecordRun
  <1>8. Close \/ Exit \/ Crash \/ Restart \/ UNCHANGED vars => history' = history
    BY DEF Close, Exit, Crash, Stop, Restart, vars
  <1> HIDE DEF svars, gvars
  <1>9. \/ history'[r] = history[r]
        \/ \E a \in Actors, t \in Events : Says(a, r, t) /\ history'[r] = Append(history[r], t)
    <2>1. ASSUME NEW c \in Clients, SubmitPublish(c)
          PROVE  history'[r] = history[r] \/ (Says(c, r, "run_queued") /\ history'[r] = Append(history[r], "run_queued"))
      BY <1>0, <1>1, <1>2, <2>1
    <2>2. ASSUME NEW w \in Workers, StartPublish(w)
          PROVE  history'[r] = history[r] \/ (Says(w, r, "run_start") /\ history'[r] = Append(history[r], "run_start"))
      BY <1>1, <1>3, <2>2
    <2>3. ASSUME NEW a \in Actors, FinishPublish(a)
          PROVE  history'[r] = history[r] \/ (Says(a, r, "run_finish") /\ history'[r] = Append(history[r], "run_finish"))
      BY <1>1, <1>4, <2>3
    <2>4. {"run_queued", "run_start", "run_finish"} \subseteq Events /\ \A w \in Workers : w \in Actors
      BY DEF Events, Actors
    <2>5. history' = history \/ (\E c \in Clients : SubmitPublish(c)) \/ (\E w \in Workers : StartPublish(w))
          \/ \E a \in Actors : FinishPublish(a)
      BY <1>5, <1>6, <1>7, <1>8 DEF Next
    <2> QED
      BY <1>0, <2>1, <2>2, <2>3, <2>4, <2>5
  <1>10. ASSUME history'[r] = history[r] PROVE \A e : Has(r, e)' <=> Has(r, e)
    BY <1>10 DEF Has
  <1>11. ASSUME NEW t \in Events, history'[r] = Append(history[r], t) PROVE \A e : Has(r, e)' <=> (Has(r, e) \/ e = t)
    <2>1. history[r] \in Seq(Events)
      BY DEF TypeOK, Events
    <2>2. /\ Len(history[r]) \in Nat /\ Len(history'[r]) = Len(history[r]) + 1
          /\ history'[r][Len(history[r]) + 1] = t
          /\ \A i \in 1..Len(history[r]) : history'[r][i] = history[r][i]
      BY <1>11, <2>1
    <2>3. 1..Len(history'[r]) = 1..Len(history[r]) \cup {Len(history[r]) + 1}
      BY <2>2
    <2>4. ASSUME NEW e
          PROVE  (\E i \in 1..Len(history'[r]) : history'[r][i] = e) <=> ((\E i \in 1..Len(history[r]) : history[r][i] = e) \/ e = t)
      BY <2>2, <2>3, Zenon
    <2> QED
      BY <2>4 DEF Has
  <1> QED
    BY <1>9, <1>10, <1>11

(* A worker that publishes run_start, or has yet to, owns a run that is not *)
(* canceled; one that says run_queued submits its own.                     *)
LEMMA Speakers ==
  ASSUME TypeOK, Shape, JobsTell, Cancelers, NEW a \in Actors, NEW r \in Runs, NEW t, Says(a, r, t)
  PROVE  /\ a \in Workers \/ pc(a) = "subPublish" => Owns(a, r)
         /\ t = "run_queued" => a \in Clients /\ pc(a) = "subPublish" /\ Owns(a, r)
         /\ t = "run_start" => a \in Workers /\ Owns(a, r) /\ jobs[r] = "started" /\ r \notin preCanceled
         /\ t = "run_finish" => (a \in Clients /\ r \in preCanceled) \/ (a \in Workers /\ Owns(a, r) /\ pc(a) = "finishPublish")
         /\ a \in Clients \/ a \in Workers
  <1>1. a \in Clients \/ a \in Workers
    BY DEF Actors
  <1>2. a \in Workers \/ pc(a) = "subPublish" => Owns(a, r)
    BY DEF Says, Owns, Submitting, Mid
  <1>3. t = "run_start" => pc(a) = "startPublish" /\ a \in Workers /\ cur(a) = r
    BY DEF Says
  <1>4. t = "run_start" => jobs[r] = "started" /\ r \notin preCanceled
    BY <1>3 DEF JobsTell, Begun
  <1>5. t = "run_finish" => pc(a) = "finishPublish" /\ cur(a) = r
    BY DEF Says
  <1>6. t = "run_finish" /\ a \in Clients => r \in preCanceled
    BY <1>5 DEF Cancelers, End
  <1> QED
    BY <1>1, <1>2, <1>3, <1>4, <1>5, <1>6 DEF Says

(* A cancel that marks a run before its start.                             *)
LEMMA Cancelling ==
  ASSUME TypeOK, Shape, [Next]_vars
  PROVE  \/ preCanceled' = preCanceled
         \/ \E c \in Clients, r \in Runs :
              /\ Cancel(c, r) /\ serving = "up" /\ jobs[r] \in {"waiting", "canceled"}
              /\ preCanceled' = preCanceled \cup {r} /\ UNCHANGED <<history, told, queue, runStore, rolledBack, lastRun>>
              /\ Others(c) /\ act'[c].pc = "endRemember"
  <1> USE DEF svars, gvars
  <1>1. ASSUME NEW c \in Clients, NEW r \in Runs, Cancel(c, r)
        PROVE  \/ preCanceled' = preCanceled
               \/ /\ Cancel(c, r) /\ serving = "up" /\ jobs[r] \in {"waiting", "canceled"}
                  /\ preCanceled' = preCanceled \cup {r} /\ UNCHANGED <<history, told, queue, runStore, rolledBack, lastRun>>
                  /\ Others(c) /\ act'[c].pc = "endRemember"
    <2>1. c \in Actors
      BY DEF Actors
    <2>2. CASE CancelWaiting(c, r)
      BY <1>1, <2>1, <2>2, Goes DEF Cancel, CancelWaiting, Becomes
    <2>3. CASE CancelStarted(c, r)
      BY <2>3 DEF CancelStarted
    <2> QED
      BY <1>1, <2>2, <2>3 DEF Cancel
  <1>2. ASSUME NEW c \in Clients, \/ \E k \in Keys \cup {NoKey} : SubmitCheck(c, k)
                                  \/ \E q \in Runs : Get(c, q)
                                  \/ List(c) \/ ClientStep(c)
        PROVE  preCanceled' = preCanceled
    BY <1>2 DEF SubmitCheck, Get, List, ClientStep, SubmitInvalid, SubmitReject, RememberRejected, SubmitAccept, SubmitPublish,
         SubmitRemember, SubmitJob, EnqueueCheck, EnqueueSend, RollbackJob, RollbackForget, RollbackDelete, GetLookup, ListRuns, ReadNext
  <1>3. ASSUME NEW w \in Workers, WorkerStep(w) PROVE preCanceled' = preCanceled
    BY <1>3 DEF WorkerStep, Dequeue, WorkerExit, ProcessJob, CreateCanceled, StartPublish, CreateRun, BeginRun, TrackerWrite, Execute, Settle
  <1>4. ASSUME NEW a \in Actors, EndStep(a) PROVE preCanceled' = preCanceled
    BY <1>4 DEF EndStep, PersistMetaAsync, Remember, Upsert, NotifyOpsManualRunRecord, MarkNotified, RecordRun, FinishPublish
  <1>5. Close \/ Exit \/ Crash \/ Restart \/ UNCHANGED vars => preCanceled' = preCanceled
    BY DEF Close, Exit, Crash, Stop, Restart, vars
  <1> HIDE DEF svars, gvars
  <1> QED
    BY <1>1, <1>2, <1>3, <1>4, <1>5 DEF Next

(* Where a client that submits a run was before, and a worker with one.    *)
LEMMA ClientCame ==
  ASSUME TypeOK, Shape, [Next]_vars, NEW c \in Clients
  PROVE  /\ act'[c].pc \in Submitting \cup Rej =>
              \/ \E r \in Runs : Begins(c, r) /\ act'[c].run = r
              \/ act'[c].run = cur(c) /\ act'[c].status = loc(c) /\ (pc(c) \in Submitting <=> act'[c].pc \in Submitting)
                 /\ (pc(c) \in Rej <=> act'[c].pc \in Rej)
         /\ act'[c].pc \in Early \cup {"subPublish"} =>
              (\E r \in Runs : Begins(c, r)) \/ pc(c) \in Early \cup {"subPublish"}
         /\ act'[c].pc \in {"subCheck", "subSend"} => pc(c) \in {"subCheck", "subSend"} \/ SubmitPublish(c)
  <1>0. (\A d \in Clients : d \in Actors /\ d \notin Workers) /\ (\A w \in Workers : w \in Actors /\ w # c)
    BY ServiceConstants DEF Actors
  <1> DEFINE Came == \/ act'[c].pc \notin Submitting \cup Rej
                     \/ /\ act'[c].run = cur(c) /\ act'[c].status = loc(c)
                        /\ (pc(c) \in Submitting <=> act'[c].pc \in Submitting)
                        /\ (pc(c) \in Rej <=> act'[c].pc \in Rej)
                        /\ (act'[c].pc \in Early => pc(c) \in Early)
  <1> USE DEF pc, cur, loc, Others, Becomes
  <1>1. act'[c] = act[c] => Came
    OBVIOUS
  <1>2. ASSUME NEW a \in Actors, Passes(a) \/ Leaves(a) PROVE Came
    <2>1. CASE a # c
      BY <1>0, <1>2, <2>1 DEF Passes, Leaves
    <2>2. CASE a = c /\ Passes(c)
      BY <1>0, <2>2 DEF Passes, Along, Free, Scanning, Early, Mid, Undo, Rej, Begun, End, Submitting
    <2>3. CASE a = c /\ Leaves(c)
      BY <1>0, <2>3 DEF Leaves, Idle, Early, Mid, Undo, Rej, Submitting
    <2> QED
      BY <1>2, <2>1, <2>2, <2>3
  <1>3. ASSUME NEW d \in Clients, \/ Reads(d) \/ Readies(d) \/ Sends(d) \/ Withdraws(d) \/ Undoes(d)
                                  \/ \E r \in Runs : ReadsOne(d, r) \/ Cancels(d, r)
        PROVE  Came
    BY <1>0, <1>3 DEF Reads, Readies, Sends, Withdraws, Undoes, ReadsOne, Cancels, Idle, Early, Mid, Undo, Rej, Submitting
  <1>4. ASSUME NEW d \in Clients, NEW r \in Runs, Begins(d, r)
        PROVE  Came \/ (Begins(c, r) /\ act'[c].run = r)
    BY <1>0, <1>4 DEF Begins
  <1>5. ASSUME NEW w \in Workers, Takes(w) \/ Decides(w) \/ Cancelled(w) \/ Creates(w) \/ Enters(w) \/ Settles(w)
                                  \/ \E s \in RunStatus : Ends(w, s)
        PROVE  Came
    BY <1>0, <1>5 DEF Takes, Decides, Cancelled, Creates, Enters, Settles, Ends
  <1>6. Stays \/ Restarts => act'[c] = act[c]
    BY DEF Stays, Restarts
  <1>7. Stops => Came
    BY <1>0 DEF Stops, Idle, Early, Mid, Undo, Rej, Submitting
  <1> HIDE DEF pc, cur, loc, Others, Becomes, Came
  <1>8. Came \/ \E r \in Runs : Begins(c, r) /\ act'[c].run = r
    BY <1>1, <1>2, <1>3, <1>4, <1>5, <1>6, <1>7, Kinds DEF Kind
  <1>9. \A r : Begins(c, r) => act'[c].pc \in {"rejRemember", "subRemember"}
    BY DEF Begins, Becomes
  <1>10. act'[c].pc \in {"subPublish", "subCheck", "subSend"} /\ act'[c] # act[c] =>
           \/ pc(c) = "subJob" /\ act'[c].pc = "subPublish"
           \/ SubmitPublish(c) /\ act'[c].pc = "subCheck"
           \/ pc(c) = "subCheck" /\ act'[c].pc = "subSend"
    BY <1>0, Points DEF SubmitJob, EnqueueCheck, Step
  <1>11. act'[c] = act[c] => act'[c].pc = pc(c)
    BY DEF pc
  <1>12. act'[c].pc \in Submitting \cup Rej =>
              \/ \E r \in Runs : Begins(c, r) /\ act'[c].run = r
              \/ act'[c].run = cur(c) /\ act'[c].status = loc(c) /\ (pc(c) \in Submitting <=> act'[c].pc \in Submitting)
                 /\ (pc(c) \in Rej <=> act'[c].pc \in Rej)
    BY <1>8 DEF Came
  <1>13. act'[c].pc \in Early \cup {"subPublish"} => (\E r \in Runs : Begins(c, r)) \/ pc(c) \in Early \cup {"subPublish"}
    BY <1>8, <1>10, <1>11 DEF Came, Early, Submitting
  <1>14. act'[c].pc \in {"subCheck", "subSend"} => pc(c) \in {"subCheck", "subSend"} \/ SubmitPublish(c)
    BY <1>10, <1>11
  <1> QED
    BY <1>12, <1>13, <1>14

LEMMA WorkerCame ==
  ASSUME TypeOK, Shape, [Next]_vars, NEW w \in Workers
  PROVE  /\ act'[w].pc \in Before => Takes(w) \/ (pc(w) \in Before /\ act'[w].run = cur(w))
         /\ act'[w].pc \in {"create", "begin", "exec", "settle"} =>
              /\ act'[w].run = cur(w)
              /\ pc(w) \in {"create", "begin", "exec", "settle"} \/ (StartPublish(w) /\ act'[w].pc = "create")
         /\ act'[w].pc \in End =>
              act'[w].run = cur(w) /\ act'[w].status = loc(w) /\ pc(w) \in End \cup {"settle", "createCanceled"}
  <1>0. (\A d \in Clients : d \in Actors /\ d # w) /\ (\A v \in Workers : v \in Actors /\ v \notin Clients)
    BY ServiceConstants DEF Actors
  <1> DEFINE Came == /\ act'[w].pc \in Before => Takes(w) \/ (pc(w) \in Before /\ act'[w].run = cur(w))
                     /\ act'[w].pc \in {"create", "begin", "exec", "settle"} =>
                          act'[w].run = cur(w) /\ pc(w) \in Begun \cup {"begin", "exec", "settle"}
                     /\ act'[w].pc \in {"begin", "exec", "settle"} => pc(w) \in {"create", "begin", "exec", "settle"}
                     /\ act'[w].pc \in End =>
                          act'[w].run = cur(w) /\ act'[w].status = loc(w) /\ pc(w) \in End \cup {"settle", "createCanceled"}
  <1> USE DEF pc, cur, loc, Others, Becomes
  <1>1. act'[w] = act[w] => Came
    BY DEF Begun
  <1>2. ASSUME NEW a \in Actors, Passes(a) PROVE Came
    <2>1. CASE a # w
      BY <1>0, <1>1, <1>2, <2>1 DEF Passes
    <2>2. CASE a = w
      BY <1>0, <1>2, <2>2 DEF Passes, Along, Free, Scanning, Early, Mid, Undo, Rej, Begun, End, Before
    <2> QED
      BY <2>1, <2>2
  <1>3. ASSUME NEW a \in Actors, Leaves(a) PROVE Came
    BY <1>0, <1>1, <1>3 DEF Leaves, Idle, Before, End
  <1>4. ASSUME NEW d \in Clients, \/ Reads(d) \/ Readies(d) \/ Sends(d) \/ Withdraws(d) \/ Undoes(d)
                                  \/ \E r \in Runs : ReadsOne(d, r) \/ Cancels(d, r) \/ Begins(d, r)
        PROVE  act'[w] = act[w]
    BY <1>0, <1>4 DEF Reads, Readies, Sends, Withdraws, Undoes, ReadsOne, Cancels, Begins
  <1>5. ASSUME NEW v \in Workers, v # w,
               Takes(v) \/ Decides(v) \/ Cancelled(v) \/ Creates(v) \/ Enters(v) \/ Settles(v) \/ \E s \in RunStatus : Ends(v, s)
        PROVE  act'[w] = act[w]
    BY <1>0, <1>5 DEF Takes, Decides, Cancelled, Creates, Enters, Settles, Ends
  <1>6. ASSUME Takes(w) \/ Decides(w) \/ Cancelled(w) \/ Creates(w) \/ Enters(w) \/ Settles(w) \/ \E s \in RunStatus : Ends(w, s)
        PROVE  Came
    <2>1. CASE Takes(w)
      BY <2>1 DEF Takes, Before, End
    <2>2. CASE Decides(w)
      BY <2>2 DEF Decides, Before, End
    <2>3. CASE Cancelled(w) \/ Settles(w)
      BY <2>3 DEF Cancelled, Settles, Before, End
    <2>4. CASE Creates(w) \/ Enters(w) \/ \E s \in RunStatus : Ends(w, s)
      BY <2>4 DEF Creates, Enters, Ends, Before, Begun, End
    <2> QED
      BY <1>6, <2>1, <2>2, <2>3, <2>4
  <1>7. Stays \/ Restarts => act'[w] = act[w]
    BY DEF Stays, Restarts
  <1>8. Stops => Came
    BY <1>0 DEF Stops, Idle, Before, End
  <1> HIDE DEF pc, cur, loc, Others, Becomes, Came
  <1>9. Came
    BY <1>1, <1>2, <1>3, <1>4, <1>5, <1>6, <1>7, <1>8, Kinds DEF Kind
  <1>10. act'[w].pc = "create" /\ act'[w] # act[w] => StartPublish(w)
    BY <1>0, Points
  <1>11. act'[w].pc = "create" => pc(w) = "create" \/ (StartPublish(w) /\ act'[w].pc = "create")
    BY <1>10 DEF pc
  <1>12. act'[w].pc \in {"create", "begin", "exec", "settle"} =>
              /\ act'[w].run = cur(w)
              /\ pc(w) \in {"create", "begin", "exec", "settle"} \/ (StartPublish(w) /\ act'[w].pc = "create")
    <2>1. act'[w].pc \in {"create", "begin", "exec", "settle"} => act'[w].run = cur(w)
      BY <1>9 DEF Came
    <2>2. act'[w].pc \in {"begin", "exec", "settle"} => pc(w) \in {"create", "begin", "exec", "settle"}
      BY <1>9 DEF Came
    <2> QED
      BY <1>11, <2>1, <2>2
  <1>13. act'[w].pc \in Before => Takes(w) \/ (pc(w) \in Before /\ act'[w].run = cur(w))
    BY <1>9 DEF Came
  <1>14. act'[w].pc \in End =>
              act'[w].run = cur(w) /\ act'[w].status = loc(w) /\ pc(w) \in End \cup {"settle", "createCanceled"}
    BY <1>9 DEF Came
  <1> QED
    BY <1>12, <1>13, <1>14

-----------------------------------------------------------------------------
(* The events of a run.                                                    *)

LEMMA RunNamed ==
  ASSUME TypeOK', Shape', NEW a \in Actors, act'[a].pc \notin Free \cup Scanning
  PROVE  act'[a].run \in Runs
  <1>1. act' \in [Actors -> ActType] /\ (act'[a].pc \in Free <=> (act'[a].run = NoRun /\ act'[a].pc \notin Scanning))
    BY DEF TypeOK, ActType, Shape, pc, cur
  <1> QED
    BY <1>1 DEF ActType

LEMMA Enqueued ==
  ASSUME TypeOK, Shape, [Next]_vars, NEW r \in Runs, Queued(r)'
  PROVE  Queued(r) \/ \E c \in Clients : Sends(c) /\ pc(c) = "subSend" /\ cur(c) = r /\ c \in Actors
  <1>0. Kind /\ (\A c \in Clients : c \in Actors)
    BY Kinds DEF Actors
  <1>1. ASSUME NEW c \in Clients, Sends(c), ~Queued(r) PROVE pc(c) = "subSend" /\ cur(c) = r
    <2>1. PICK q \in Runs : q = cur(c)
      BY <1>0, <1>1, About DEF Sends, Free, Scanning
    <2> QED
      BY <1>1, <2>1, AfterSend DEF Sends
  <1>2. queue' = queue \/ queue' = <<>> \/ (queue # <<>> /\ queue' = Tail(queue)) \/ \E c \in Clients : Sends(c)
    <2>1. (\E w \in Workers : Takes(w)) => queue # <<>> /\ queue' = Tail(queue)
      BY DEF Takes
    <2>2. \/ queue' = queue \/ queue' = <<>>
          \/ \E w \in Workers : Takes(w)
          \/ \E c \in Clients : Sends(c)
      BY <1>0 DEF Kind, Stays, Stops, Restarts, Passes, Leaves, Reads, ReadsOne, Begins, Readies, Withdraws, Undoes,
         Cancels, Decides, Cancelled, Creates, Enters, Ends, Writes, Settles, Still
    <2> QED
      BY <2>1, <2>2
  <1>3. queue' = queue => Queued(r)
    BY DEF Queued
  <1>4. queue' # <<>>
    <2>1. queue' = <<>> => Len(queue') = 0
      OBVIOUS
    <2> QED
      BY <2>1 DEF Queued
  <1>5. queue # <<>> /\ queue' = Tail(queue) => Queued(r)
    BY AfterTake
  <1> QED
    BY <1>0, <1>1, <1>2, <1>3, <1>4, <1>5

LEMMA HeraldedKept ==
  ASSUME TypeOK, Shape, OneOwner, Fresh, JobsTell, Cancelers, Heralded, [Next]_vars, TypeOK', Shape'
  PROVE  Heralded'
  <1>0. Kind /\ (\A c \in Clients : c \in Actors) /\ (\A w \in Workers : w \in Actors)
    BY Kinds DEF Actors
  <1>1. ASSUME NEW r \in Runs, NEW e, Has(r, e) PROVE Has(r, e)'
    BY <1>1, Said
  <1>2. ASSUME NEW c \in Clients, act'[c].pc \in Early \cup {"subPublish"}, NEW r \in Runs, act'[c].run = r
        PROVE  ~Has(r, "run_queued")'
    <2>1. ~Has(r, "run_queued") /\ \A a \in Actors : Owns(a, r) /\ a \in Clients => a = c
      <3>1. ASSUME NEW q \in Runs, Begins(c, q) PROVE ~Has(r, "run_queued") /\ \A a \in Actors : ~Owns(a, r)
        <4>1. r = q /\ q > lastRun
          BY <1>2, <3>1, Numbered DEF Begins, Becomes
        <4>2. history[r] = <<>> /\ \A a \in Actors : cur(a) # r
          BY <4>1 DEF Fresh, NotYet
        <4> QED
          BY <4>2 DEF Has, Owns
      <3>2. ASSUME pc(c) \in Early \cup {"subPublish"}, cur(c) = r
            PROVE  ~Has(r, "run_queued") /\ \A a \in Actors : Owns(a, r) /\ a \in Clients => a = c
        <4>1. Owns(c, r)
          BY <3>2 DEF Owns, Submitting, Mid
        <4> QED
          BY <1>0, <3>2, <4>1 DEF Heralded, OneOwner
      <3>3. act'[c].pc \in Submitting
        BY <1>2 DEF Submitting, Mid
      <3> QED
        BY <1>2, <3>1, <3>2, <3>3, ClientCame
    <2>2. ASSUME NEW a \in Actors, Says(a, r, "run_queued") PROVE FALSE
      <3>1. a = c
        BY <2>1, <2>2, Speakers
      <3> QED
        BY <1>2, <2>2, <3>1 DEF Says, Early
    <2> QED
      BY <2>1, <2>2, Said
  <1>3. ASSUME NEW c \in Clients, act'[c].pc \in {"subCheck", "subSend"}, NEW r \in Runs, act'[c].run = r
        PROVE  Has(r, "run_queued")'
    <2>1. cur(c) = r
      <3>1. \A q : ~Begins(c, q)
        BY <1>3 DEF Begins, Becomes
      <3>2. act'[c].pc \in Submitting
        BY <1>3 DEF Submitting, Mid
      <3> QED
        BY <1>3, <3>1, <3>2, ClientCame
    <2>2. CASE pc(c) \in {"subCheck", "subSend"}
      BY <1>1, <2>1, <2>2 DEF Heralded
    <2>3. CASE SubmitPublish(c)
      <3>1. PublishEvent(r, "run_queued") /\ "run_queued" \in Events
        BY <2>1, <2>3 DEF SubmitPublish, Events
      <3>2. history[r] \in Seq(Events) /\ history'[r] = Append(history[r], "run_queued")
        BY <3>1, Published DEF TypeOK, Events
      <3> QED
        BY <3>2 DEF Has
    <2> QED
      BY <1>3, <2>2, <2>3, ClientCame
  <1>4. ASSUME NEW r \in Runs, Queued(r)' PROVE Has(r, "run_queued")'
    <2>1. CASE Queued(r)
      BY <1>1, <2>1 DEF Heralded
    <2>2. ASSUME NEW c \in Clients, pc(c) = "subSend", cur(c) = r PROVE Has(r, "run_queued")'
      BY <1>1, <2>2 DEF Heralded
    <2> QED
      BY <1>4, <2>1, <2>2, Enqueued
  <1>5. ASSUME NEW w \in Workers, act'[w].pc \in Before, NEW r \in Runs, act'[w].run = r
        PROVE  Has(r, "run_queued")'
    <2>1. CASE Takes(w)
      <3>1. queue # <<>> /\ queue' = Tail(queue) /\ r = Head(queue)
        BY <1>5, <2>1 DEF Takes, Becomes
      <3>2. Queued(r)
        BY <3>1, AfterTake
      <3> QED
        BY <1>1, <3>2 DEF Heralded
    <2>2. CASE pc(w) \in Before /\ act'[w].run = cur(w)
      BY <1>1, <1>5, <2>2 DEF Heralded
    <2> QED
      BY <1>5, <2>1, <2>2, WorkerCame
  <1>6. \A a \in Actors : act'[a].pc \in Submitting \cup Before => act'[a].run \in Runs
    <2>1. \A p \in Submitting \cup Before : p \notin Free \cup Scanning
      BY DEF Submitting, Early, Mid, Undo, Before, Free, Scanning
    <2> QED
      BY <2>1, RunNamed
  <1>7. \A c \in Clients : /\ act'[c].pc \in Early \cup {"subPublish"} => act'[c].pc \in Submitting
                           /\ act'[c].pc \in {"subCheck", "subSend"} => act'[c].pc \in Submitting
    BY DEF Submitting, Mid
  <1>8. \A c \in Clients : act'[c].pc \in Early \cup {"subPublish"} =>
          \E r \in Runs : act'[c].run = r /\ ~Has(r, "run_queued")'
    BY <1>0, <1>2, <1>6, <1>7
  <1>9. \A c \in Clients : act'[c].pc \in {"subCheck", "subSend"} =>
          \E r \in Runs : act'[c].run = r /\ Has(r, "run_queued")'
    BY <1>0, <1>3, <1>6, <1>7
  <1>10. \A w \in Workers : act'[w].pc \in Before => \E r \in Runs : act'[w].run = r /\ Has(r, "run_queued")'
    BY <1>0, <1>5, <1>6
  <1> QED
    BY <1>4, <1>8, <1>9, <1>10 DEF Heralded, pc, cur, Has

LEMMA UnstartedKept ==
  ASSUME TypeOK, Shape, OneOwner, Fresh, JobsTell, Cancelers, NoStrandedJob, Unstarted, [Next]_vars, TypeOK', Shape'
  PROVE  Unstarted'
  <1>0. (\A c \in Clients : c \in Actors /\ c \notin Workers) /\ (\A w \in Workers : w \in Actors /\ w \notin Clients)
    BY ServiceConstants DEF Actors
  <1>1. ASSUME NEW r \in Runs, ~Has(r, "run_start"), \A a \in Workers : ~Says(a, r, "run_start")
        PROVE  ~Has(r, "run_start")'
    BY <1>1, Said DEF Says
  <1>2. ASSUME NEW c \in Clients, act'[c].pc \in Submitting, NEW r \in Runs, act'[c].run = r
        PROVE  ~Has(r, "run_start")'
    <2>1. ~Has(r, "run_start") /\ \A a \in Workers : ~Owns(a, r)
      <3>1. ASSUME NEW q \in Runs, Begins(c, q) PROVE ~Has(r, "run_start") /\ \A a \in Actors : ~Owns(a, r)
        <4>1. r = q /\ q > lastRun
          BY <1>2, <3>1, Numbered DEF Begins, Becomes
        <4>2. history[r] = <<>> /\ \A a \in Actors : cur(a) # r
          BY <4>1 DEF Fresh, NotYet
        <4> QED
          BY <4>2 DEF Has, Owns
      <3>2. ASSUME pc(c) \in Submitting, cur(c) = r
            PROVE  ~Has(r, "run_start") /\ \A a \in Workers : ~Owns(a, r)
        <4>1. Owns(c, r)
          BY <3>2 DEF Owns
        <4> QED
          BY <1>0, <3>2, <4>1 DEF Unstarted, OneOwner
      <3> QED
        BY <1>0, <1>2, <3>1, <3>2, ClientCame
    <2> QED
      BY <1>0, <1>1, <2>1, Speakers
  <1>3. ASSUME NEW r \in Runs, Queued(r)' PROVE ~Has(r, "run_start")'
    <2>1. CASE Queued(r)
      BY <1>0, <1>1, <2>1, Speakers DEF Unstarted, OneOwner
    <2>2. ASSUME NEW c \in Clients, pc(c) = "subSend", cur(c) = r PROVE ~Has(r, "run_start")'
      <3>1. Owns(c, r) /\ pc(c) \in Submitting
        BY <2>2 DEF Owns, Submitting, Mid
      <3> QED
        BY <1>0, <1>1, <2>2, <3>1, Speakers DEF Unstarted, OneOwner
    <2> QED
      BY <1>3, <2>1, <2>2, Enqueued
  <1>4. ASSUME NEW r \in Runs, r \in preCanceled' PROVE ~Has(r, "run_start")'
    <2>1. CASE r \in preCanceled
      BY <1>0, <1>1, <2>1, Speakers DEF Unstarted
    <2>2. ASSUME NEW c \in Clients, NEW q \in Runs, serving = "up", jobs[q] \in {"waiting", "canceled"},
                 preCanceled' = preCanceled \cup {q}, history' = history
          PROVE  ~Has(r, "run_start")'
      <3>1. CASE r # q
        BY <1>4, <2>1, <2>2, <3>1
      <3>2. ~Has(q, "run_start")
        <4>1. \/ \E d \in Clients : cur(d) = q /\ pc(d) \in Mid
              \/ Queued(q)
              \/ \E w \in Workers : cur(w) = q /\ pc(w) = "claimed"
          BY <2>2 DEF NoStrandedJob, Queued, Mid
        <4> QED
          BY <4>1 DEF Unstarted, Submitting, Before
      <3> QED
        BY <2>2, <3>1, <3>2 DEF Has
    <2> QED
      BY <1>4, <2>1, <2>2, Cancelling
  <1>5. ASSUME NEW w \in Workers, act'[w].pc \in Before, NEW r \in Runs, act'[w].run = r
        PROVE  ~Has(r, "run_start")'
    <2>1. CASE Takes(w)
      <3>1. queue # <<>> /\ queue' = Tail(queue) /\ r = Head(queue)
        BY <1>5, <2>1 DEF Takes, Becomes
      <3>2. Queued(r)
        BY <3>1, AfterTake
      <3> QED
        BY <1>0, <1>1, <3>2, Speakers DEF Unstarted, OneOwner
    <2>2. CASE pc(w) \in Before /\ act'[w].run = cur(w)
      <3>1. Owns(w, r)
        BY <1>5, <2>2 DEF Owns
      <3>2. ASSUME NEW a \in Workers, Says(a, r, "run_start") PROVE FALSE
        <4>1. a = w
          BY <1>0, <3>1, <3>2, Speakers DEF OneOwner
        <4> QED
          BY <1>5, <3>2, <4>1 DEF Says, Before
      <3> QED
        BY <1>1, <1>5, <2>2, <3>2 DEF Unstarted
    <2> QED
      BY <1>5, <2>1, <2>2, WorkerCame
  <1>6. \A a \in Actors : act'[a].pc \in Submitting \cup Before => act'[a].run \in Runs
    <2>1. \A p \in Submitting \cup Before : p \notin Free \cup Scanning
      BY DEF Submitting, Early, Mid, Undo, Before, Free, Scanning
    <2> QED
      BY <2>1, RunNamed
  <1>7. \A c \in Clients : act'[c].pc \in Submitting => \E r \in Runs : act'[c].run = r /\ ~Has(r, "run_start")'
    BY <1>0, <1>2, <1>6
  <1>8. \A w \in Workers : act'[w].pc \in Before => \E r \in Runs : act'[w].run = r /\ ~Has(r, "run_start")'
    BY <1>0, <1>5, <1>6
  <1> QED
    BY <1>3, <1>4, <1>7, <1>8 DEF Unstarted, pc, cur, Has

LEMMA UnderWayStands ==
  ASSUME TypeOK, Shape, OneOwner, JobsTell, Cancelers, [Next]_vars, NEW w \in Workers, NEW r \in Runs, cur(w) = r,
         UnderWay(r), jobs[r] \in {"absent", "started"}, act'[w] # Idle
  PROVE  UnderWay(r)'
  <1>0. w \in Actors /\ Owns(w, r)
    BY DEF Actors, Owns
  <1>1. Has(r, "run_start")'
    BY Said DEF UnderWay
  <1>2. ASSUME NEW a \in Actors, Says(a, r, "run_finish") PROVE FALSE
    <2>1. a = w
      BY <1>0, <1>2, Speakers DEF UnderWay, OneOwner
    <2> QED
      BY <1>2, <2>1 DEF Says
  <1>3. ~Has(r, "run_finish")'
    BY <1>2, Said DEF UnderWay
  <1>4. r \notin preCanceled'
    BY Cancelling DEF UnderWay
  <1> QED
    BY <1>1, <1>3, <1>4 DEF UnderWay

LEMMA InProgressKept ==
  ASSUME TypeOK, Shape, OneOwner, JobsTell, Cancelers, Finished, InProgress, [Next]_vars, TypeOK', Shape'
  PROVE  InProgress'
  <1>0. (\A w \in Workers : w \in Actors) /\ Kind
    BY Kinds DEF Actors
  <1>1. ASSUME NEW w \in Workers, NEW r \in Runs, act'[w].run = r, act'[w].pc \in {"create", "begin", "exec", "settle"}
        PROVE  UnderWay(r)'
    <2>1. cur(w) = r /\ act'[w] # Idle
      BY <1>1, WorkerCame DEF Idle
    <2>2. CASE pc(w) \in {"create", "begin", "exec", "settle"}
      <3>1. UnderWay(r) /\ jobs[r] = "started"
        BY <2>1, <2>2 DEF InProgress, JobsTell, Begun
      <3> QED
        BY <2>1, <3>1, UnderWayStands
    <2>3. CASE StartPublish(w)
      <3>1. pc(w) = "startPublish" /\ PublishEvent(r, "run_start") /\ "run_start" \in Events /\ preCanceled' = preCanceled
        BY <2>1, <2>3 DEF StartPublish, Step, Events, gvars
      <3>2. r \notin preCanceled
        BY <2>1, <3>1 DEF JobsTell, Begun
      <3>3. ~Over(r)
        BY <2>1, <3>1, <3>2 DEF Over
      <3>4. ~Has(r, "run_finish")
        BY <3>3 DEF Finished, Has
      <3>5. history[r] \in Seq(Events) /\ history'[r] = Append(history[r], "run_start")
        BY <3>1, Published DEF TypeOK, Events
      <3>6. /\ Len(history[r]) \in Nat /\ Len(history'[r]) = Len(history[r]) + 1
            /\ history'[r][Len(history[r]) + 1] = "run_start"
            /\ \A i \in 1..Len(history[r]) : history'[r][i] = history[r][i]
        BY <3>5
      <3>7. Has(r, "run_start")'
        BY <3>6 DEF Has
      <3>8. ~Has(r, "run_finish")'
        BY <3>4, <3>6 DEF Has
      <3> QED
        BY <3>1, <3>2, <3>7, <3>8 DEF UnderWay
    <2> QED
      BY <1>1, <2>2, <2>3, WorkerCame
  <1>2. ASSUME NEW w \in Workers, NEW r \in Runs, act'[w].run = r, act'[w].pc \in End
        PROVE  UnderWay(r)' \/ (r \in preCanceled' /\ act'[w].status = "canceled")
    <2>1. cur(w) = r /\ act'[w] # Idle /\ act'[w].status = loc(w) /\ pc(w) \in End \cup {"settle", "createCanceled"}
      BY <1>2, WorkerCame DEF Idle, End
    <2>2. preCanceled \subseteq preCanceled'
      BY <1>0, Grows
    <2>3. jobs[r] \in {"absent", "started"}
      BY <2>1 DEF JobsTell
    <2>4. UnderWay(r) \/ (r \in preCanceled /\ loc(w) = "canceled")
      BY <2>1 DEF InProgress, Cancelers
    <2> QED
      BY <2>1, <2>2, <2>3, <2>4, UnderWayStands
  <1>3. \A a \in Actors : act'[a].pc \in {"create", "begin", "exec", "settle"} \cup End => act'[a].run \in Runs
    <2>1. \A p \in {"create", "begin", "exec", "settle"} \cup End : p \notin Free \cup Scanning
      BY DEF End, Free, Scanning
    <2> QED
      BY <2>1, RunNamed
  <1>4. \A w \in Workers : act'[w].pc \in {"create", "begin", "exec", "settle"} =>
          \E r \in Runs : act'[w].run = r /\ UnderWay(r)'
    BY <1>0, <1>1, <1>3
  <1>5. \A w \in Workers : act'[w].pc \in End =>
          \E r \in Runs : act'[w].run = r /\ (UnderWay(r)' \/ (r \in preCanceled' /\ act'[w].status = "canceled"))
    BY <1>0, <1>2, <1>3
  <1> QED
    BY <1>4, <1>5 DEF InProgress, UnderWay, pc, cur, loc, Has

-----------------------------------------------------------------------------
(* What the store and the sink say.                                        *)

(* Nobody but a worker writes the run state of its run.                    *)
LEMMA OwnState ==
  ASSUME TypeOK, Shape, OneOwner, [Next]_vars, NEW w \in Workers, NEW r \in Runs, cur(w) = r
  PROVE  \/ runStore'[r] = runStore[r]
         \/ /\ \E s \in RunStatus : runStore' = [runStore EXCEPT ![r] = s]
            /\ \/ pc(w) = "createCanceled" /\ act'[w].pc = "endRemember"
               \/ pc(w) = "create" /\ act'[w].pc \in {"begin", "settle"}
               \/ pc(w) \in {"begin", "exec"} /\ act'[w].pc \in {"exec", "settle"}
  <1>0. Kind
    BY Kinds
  <1>1a. (\A v \in Workers : v \in Actors) /\ runStore \in [Runs -> RunStatus \cup {"none"}]
    BY DEF Actors, TypeOK
  <1>1b. NoRun \notin Runs
    BY DEF Runs, NoRun
  <1>1. ASSUME Restarts PROVE FALSE
    <2>1. act[w] = Idle
      BY <1>1a, <1>1 DEF Restarts, Shape
    <2> QED
      BY <1>1b, <2>1 DEF Idle, cur
  <1>2. ASSUME NEW v \in Workers, NEW s, runStore' = [runStore EXCEPT ![cur(v)] = s], v # w
        PROVE  runStore'[r] = runStore[r]
    <2>1. PICK q : q = cur(v)
      OBVIOUS
    <2>2. q # r
      BY <1>1a, <1>2, <2>1 DEF OneOwner, Owns
    <2> QED
      BY <1>1a, <1>2, <2>1, <2>2
  <1> QED
    BY <1>0, <1>1, <1>2, Written

LEMMA SettledSays ==
  ASSUME TypeOK, Shape, Stored, Cancelers, Progress, [Next]_vars, NEW w \in Workers, act'[w].pc \in {"settle"} \cup End
  PROVE  \/ act'[w].run = cur(w) /\ act'[w].status = loc(w) /\ pc(w) \in {"settle"} \cup End
         \/ \A r \in Runs : act'[w].run = r /\ IsTerminalRunStatus(runStore'[r]) => runStore'[r] = act'[w].status
  <1>0. /\ Kind /\ w \in Actors /\ runStore \in [Runs -> RunStatus \cup {"none"}]
        /\ \A d \in Clients : d \in Actors /\ d # w
        /\ \A v \in Workers : v \in Actors
    BY ServiceConstants, Kinds DEF Actors, TypeOK
  <1> DEFINE Was  == act'[w].run = cur(w) /\ act'[w].status = loc(w) /\ pc(w) \in {"settle"} \cup End
             Tell == \A r \in Runs : act'[w].run = r /\ IsTerminalRunStatus(runStore'[r]) => runStore'[r] = act'[w].status
  <1>1. act'[w] = act[w] => Was
    BY DEF pc, cur, loc
  <1>2. Stays \/ Restarts => act'[w] = act[w]
    BY DEF Stays, Restarts
  <1>3. ~Stops
    BY <1>0 DEF Stops, Idle, End
  <1>4. ASSUME NEW a \in Actors, Passes(a) PROVE Was
    <2>1. a # w => act'[w] = act[w]
      BY <1>0, <1>4 DEF Passes, Others
    <2>2. a = w => Was
      BY <1>4 DEF Passes, Along, Free, Scanning, Early, Mid, Undo, Rej, Begun, End
    <2> QED
      BY <1>1, <2>1, <2>2
  <1>5. ASSUME NEW a \in Actors, Leaves(a) PROVE Was
    BY <1>0, <1>1, <1>5 DEF Leaves, Others, Idle, End
  <1>6. ASSUME NEW d \in Clients, \/ Reads(d) \/ Readies(d) \/ Sends(d) \/ Withdraws(d) \/ Undoes(d)
                                  \/ \E r \in Runs : ReadsOne(d, r) \/ Cancels(d, r) \/ Begins(d, r)
        PROVE  act'[w] = act[w]
    BY <1>0, <1>6 DEF Reads, Readies, Sends, Withdraws, Undoes, ReadsOne, Cancels, Begins, Becomes, Others
  <1>7. ASSUME NEW v \in Workers, v # w,
               Takes(v) \/ Decides(v) \/ Cancelled(v) \/ Creates(v) \/ Enters(v) \/ Settles(v) \/ \E s \in RunStatus : Ends(v, s)
        PROVE  act'[w] = act[w]
    BY <1>0, <1>7 DEF Takes, Decides, Cancelled, Creates, Enters, Settles, Ends, Becomes, Others
  <1>8. ~Takes(w) /\ ~Decides(w)
    BY DEF Takes, Decides, Becomes, End
  <1>9. Settles(w) => Was
    BY DEF Settles, Becomes
  <1>10. ASSUME Cancelled(w) PROVE Tell
    <2>1. pc(w) = "createCanceled" /\ Becomes(w, "endRemember", cur(w), loc(w))
          /\ \E s \in RunStatus : (s = runStore[cur(w)] \/ s = "canceled") /\ Writes(w, s)
      BY <1>10 DEF Cancelled
    <2>2. loc(w) = "canceled" /\ runStore[cur(w)] = "none" /\ act'[w].run = cur(w) /\ act'[w].status = "canceled"
      BY <2>1 DEF Cancelers, Stored, Becomes
    <2>3. ASSUME NEW r \in Runs, cur(w) = r PROVE runStore'[r] \in {"none", "canceled"}
      BY <1>0, <2>1, <2>2, <2>3 DEF Writes, RunStatus
    <2> QED
      BY <2>2, <2>3 DEF IsTerminalRunStatus
  <1>11. ASSUME Creates(w) PROVE Tell
    <2>1. act'[w].run = cur(w) /\ runStore[cur(w)] = "none" /\ Writes(w, "queued")
      BY <1>11 DEF Creates, Becomes
    <2>2. ASSUME NEW r \in Runs, cur(w) = r PROVE runStore'[r] \in {"none", "queued"}
      BY <1>0, <2>1, <2>2 DEF Writes
    <2> QED
      BY <2>1, <2>2 DEF IsTerminalRunStatus
  <1>12. ASSUME Enters(w) PROVE Tell
    <2>1. act'[w].run = cur(w) /\ runStore[cur(w)] = "queued" /\ Writes(w, "running")
      BY <1>12 DEF Enters, Becomes, Progress
    <2>2. ASSUME NEW r \in Runs, cur(w) = r PROVE runStore'[r] \in {"running", "queued"}
      BY <1>0, <2>1, <2>2 DEF Writes
    <2> QED
      BY <2>1, <2>2 DEF IsTerminalRunStatus
  <1>13. ASSUME NEW s \in RunStatus, Ends(w, s) PROVE Tell
    <2>1. act'[w].run = cur(w) /\ act'[w].status = s /\ runStore[cur(w)] = "running" /\ Writes(w, s)
      BY <1>13 DEF Ends, Becomes, Progress
    <2>2. ASSUME NEW r \in Runs, cur(w) = r PROVE runStore'[r] \in {"running", s}
      BY <1>0, <2>1, <2>2 DEF Writes
    <2> QED
      BY <2>1, <2>2 DEF IsTerminalRunStatus
  <1> HIDE DEF Tell, Was
  <1>14. Was \/ Tell
    BY <1>0, <1>1, <1>2, <1>3, <1>4, <1>5, <1>6, <1>7, <1>8, <1>9, <1>10, <1>11, <1>12, <1>13 DEF Kind
  <1> QED
    BY <1>14 DEF Tell, Was

LEMMA ProgressKept ==
  ASSUME TypeOK, Shape, OneOwner, Stored, Cancelers, Progress, [Next]_vars, TypeOK', Shape'
  PROVE  Progress'
  <1>0. (\A w \in Workers : w \in Actors) /\ runStore \in [Runs -> RunStatus \cup {"none"}]
    BY DEF Actors, TypeOK
  <1>1. ASSUME NEW w \in Workers, NEW r \in Runs, act'[w].run = r, act'[w].pc = "begin"
        PROVE  runStore'[r] = "queued"
    <2>1. cur(w) = r
      BY <1>1, WorkerCame
    <2>2. CASE act'[w] = act[w]
      <3>1. pc(w) = "begin" /\ runStore[r] = "queued"
        BY <1>1, <2>1, <2>2 DEF Progress, pc
      <3> QED
        BY <1>1, <2>1, <3>1, OwnState
    <2>3. CASE act'[w] # act[w]
      <3>1. CreateRun(w)
        BY <1>0, <1>1, <2>3, Points
      <3>2. Becomes(w, "settle", r, "") \/ runStore' = [runStore EXCEPT ![r] = "queued"]
        BY <1>0, <2>1, <3>1, Goes DEF CreateRun, TrackerWrite
      <3> QED
        BY <1>0, <1>1, <3>2 DEF Becomes
    <2> QED
      BY <2>2, <2>3
  <1>2. ASSUME NEW w \in Workers, NEW r \in Runs, act'[w].run = r, act'[w].pc = "exec"
        PROVE  runStore'[r] = "running"
    <2>1. cur(w) = r
      BY <1>2, WorkerCame
    <2>2. CASE act'[w] = act[w]
      <3>1. pc(w) = "exec" /\ runStore[r] = "running"
        BY <1>2, <2>1, <2>2 DEF Progress, pc
      <3>2. ASSUME NEW v \in Workers, v # w, cur(v) = r PROVE FALSE
        BY <1>0, <2>1, <3>2 DEF OneOwner, Owns
      <3>4. runStore'[r] # runStore[r] => \E s \in RunStatus : Ends(w, s)
        <4>1. \A d \in Workers : d # w => cur(d) # r
          BY <3>2
        <4>2. Kind /\ ~Restarts
          <5>1. Restarts => act[w] = Idle
            BY <1>0 DEF Restarts, Shape
          <5> QED
            BY <2>1, <3>1, <5>1, Kinds DEF Idle, pc
        <4>3. ASSUME NEW d \in Workers, Cancelled(d) \/ Creates(d) \/ Enters(d) \/ \E s \in RunStatus : Ends(d, s), d # w
              PROVE  runStore'[r] = runStore[r]
          <5>1. cur(d) # r /\ (runStore' = runStore \/ \E s : runStore' = [runStore EXCEPT ![cur(d)] = s])
            BY <4>1, <4>3 DEF Cancelled, Creates, Enters, Ends, Writes
          <5> QED
            BY <1>0, <5>1
        <4>4. ~Cancelled(w) /\ ~Creates(w) /\ ~Enters(w)
          BY <3>1 DEF Cancelled, Creates, Enters
        <4>5. \/ runStore' = runStore \/ \E d \in Workers : Cancelled(d) \/ Creates(d) \/ Enters(d) \/ \E s \in RunStatus : Ends(d, s)
          BY <4>2 DEF Kind, Stays, Stops, Passes, Leaves, Reads, ReadsOne, Begins, Readies, Sends, Withdraws, Undoes,
             Cancels, Takes, Decides, Settles, Still
        <4> QED
          BY <4>3, <4>4, <4>5
      <3>5. \A s : ~Ends(w, s)
        BY <1>2 DEF Ends, Becomes
      <3> QED
        BY <3>1, <3>4, <3>5
    <2>3. CASE act'[w] # act[w]
      <3>1. BeginRun(w)
        BY <1>0, <1>2, <2>3, Points
      <3>2. Becomes(w, "settle", r, "") \/ runStore' = [runStore EXCEPT ![r] = "running"]
        BY <1>0, <2>1, <3>1, Goes DEF BeginRun, TrackerWrite
      <3> QED
        BY <1>0, <1>2, <3>2 DEF Becomes
    <2> QED
      BY <2>2, <2>3
  <1>3. ASSUME NEW w \in Workers, NEW r \in Runs, act'[w].run = r, act'[w].pc \in {"settle"} \cup End, IsTerminalRunStatus(runStore'[r])
        PROVE  runStore'[r] = act'[w].status
    <2>1. CASE act'[w].run = cur(w) /\ act'[w].status = loc(w) /\ pc(w) \in {"settle"} \cup End
      <3>1. runStore'[r] = runStore[r]
        BY <1>3, <2>1, OwnState DEF End
      <3> QED
        BY <1>3, <2>1, <3>1 DEF Progress
    <2> QED
      BY <1>3, <2>1, SettledSays
  <1>4. \A a \in Actors : act'[a].pc \in {"begin", "exec", "settle"} \cup End => act'[a].run \in Runs
    <2>1. \A p \in {"begin", "exec", "settle"} \cup End : p \notin Free \cup Scanning
      BY DEF End, Free, Scanning
    <2> QED
      BY <2>1, RunNamed
  <1>5. \A w \in Workers : act'[w].pc = "begin" => runStore'[act'[w].run] = "queued"
    BY <1>0, <1>1, <1>4
  <1>6. \A w \in Workers : act'[w].pc = "exec" => runStore'[act'[w].run] = "running"
    BY <1>0, <1>2, <1>4
  <1>7. \A w \in Workers : act'[w].pc \in {"settle"} \cup End /\ IsTerminalRunStatus(runStore'[act'[w].run])
                              => runStore'[act'[w].run] = act'[w].status
    BY <1>0, <1>3, <1>4
  <1> QED
    BY <1>5, <1>6, <1>7 DEF Progress, pc, cur, loc

LEMMA RefusedKept ==
  ASSUME TypeOK, Shape, OneOwner, Fresh, JobsTell, Cancelers, Refused, [Next]_vars, TypeOK', Shape'
  PROVE  Refused'
  <1>0. (\A c \in Clients : c \in Actors /\ c \notin Workers) /\ (\A w \in Workers : w \in Actors)
    BY ServiceConstants DEF Actors
  <1>1. ASSUME NEW r \in Runs, history[r] = <<>>, r \notin preCanceled, jobs[r] = "absent", \A a \in Actors, t \in Events : ~Says(a, r, t)
        PROVE  history'[r] = <<>> /\ r \notin preCanceled'
    <2>1. history'[r] = <<>>
      BY <1>1, Said
    <2>2. r \notin preCanceled'
      BY <1>1, Cancelling
    <2> QED
      BY <2>1, <2>2
  <1>2. ASSUME NEW c \in Clients, act'[c].pc \in Rej, NEW r \in Runs, act'[c].run = r
        PROVE  history'[r] = <<>> /\ r \notin preCanceled' /\ act'[c].status = "failed"
    <2>1. ASSUME NEW q \in Runs, Begins(c, q), r = q
          PROVE  history'[r] = <<>> /\ r \notin preCanceled' /\ act'[c].status = "failed"
      <3>1. q > lastRun
        BY <2>1, Numbered DEF Begins
      <3>2. NotYet(r)
        BY <2>1, <3>1 DEF Fresh
      <3>3. history[r] = <<>> /\ r \notin preCanceled /\ jobs[r] = "absent" /\ \A a \in Actors : cur(a) # r
        BY <3>2 DEF NotYet
      <3>4. \A a \in Actors, t \in Events : ~Says(a, r, t)
        BY <3>3 DEF Says
      <3>5. act'[c].status = "failed"
        BY <1>2, <2>1 DEF Begins, Becomes, Rej
      <3> QED
        BY <1>1, <3>3, <3>4, <3>5
    <2>2. ASSUME pc(c) \in Rej, cur(c) = r, act'[c].status = loc(c)
          PROVE  history'[r] = <<>> /\ r \notin preCanceled' /\ act'[c].status = "failed"
      <3>1. history[r] = <<>> /\ r \notin preCanceled /\ loc(c) = "failed" /\ jobs[r] = "absent"
        BY <2>2 DEF Refused, JobsTell
      <3>2. Owns(c, r)
        BY <2>2 DEF Owns
      <3>3. ASSUME NEW a \in Actors, NEW t \in Events, Says(a, r, t) PROVE FALSE
        <4>1. Owns(a, r)
          BY <3>1, <3>3, Speakers DEF Events
        <4>2. a = c
          BY <1>0, <3>2, <4>1 DEF OneOwner
        <4>3. pc(a) = "subPublish" \/ a \in Workers \/ r \in preCanceled
          BY <3>3, Speakers DEF Events
        <4> QED
          BY <1>0, <2>2, <3>1, <4>2, <4>3 DEF Rej
      <3> QED
        BY <1>1, <2>2, <3>1, <3>3
    <2> QED
      <3>1. act'[c].pc \notin Submitting
        BY <1>2 DEF Rej, Submitting, Early, Mid, Undo
      <3> QED
        BY <1>2, <2>1, <2>2, ClientCame
  <1>3. \A c \in Clients : act'[c].pc \in Rej => act'[c].run \in Runs
    <2>1. \A p \in Rej : p \notin Free \cup Scanning
      BY DEF Rej, Free, Scanning
    <2> QED
      BY <1>0, <2>1, RunNamed
  <1> QED
    BY <1>2, <1>3 DEF Refused, pc, cur, loc

(* A run that the sink is told of is not started any more.                 *)
LEMMA TellingOver ==
  ASSUME TypeOK, Shape, OneOwner, Fresh, Cancelers, NEW a \in Actors, pc(a) \in Telling, NEW r \in Runs, cur(a) = r
  PROVE  Over(r)
  <1>0. /\ \A c \in Clients : c \in Actors /\ c \notin Workers
        /\ \A w \in Workers : w \in Actors
        /\ a \in Clients \/ a \in Workers
    BY ServiceConstants DEF Actors
  <1>1. r <= lastRun
    BY Numbered DEF Fresh, NotYet, Runs
  <1>2. CASE a \in Clients /\ pc(a) = "record"
    BY <1>1, <1>2 DEF Cancelers, End, Over
  <1>3. CASE a \in Workers \/ pc(a) \in Rej
    <2>1. Owns(a, r)
      BY <1>3 DEF Owns
    <2>2. ~Queued(r)
      BY <2>1 DEF OneOwner
    <2>3. ASSUME NEW c \in Clients, cur(c) = r, pc(c) \in Submitting PROVE FALSE
      <3>1. Owns(c, r) /\ c # a
        BY <2>3 DEF Owns, Submitting, Early, Mid, Undo, Telling
      <3> QED
        BY <1>0, <2>1, <3>1 DEF OneOwner
    <2>4. ASSUME NEW w \in Workers, cur(w) = r PROVE pc(w) \in Telling
      <3>1. Owns(w, r)
        BY <2>4 DEF Owns
      <3> QED
        BY <1>0, <2>1, <3>1 DEF OneOwner
    <2>5. \A w \in Workers : cur(w) = r => pc(w) \notin {"claimed", "startRemember", "startUpsert", "startPublish"}
      BY <2>4 DEF Telling
    <2> QED
      BY <1>1, <2>2, <2>3, <2>5 DEF Over
  <1> QED
    BY <1>0, <1>2, <1>3 DEF Telling, Rej

LEMMA ToldOverKept ==
  ASSUME TypeOK, Shape, OneOwner, Fresh, Cancelers, ToldOver, [Next]_vars
  PROVE  ToldOver'
  <1>1. ASSUME NEW r \in Runs, Over(r) PROVE Over(r)'
    BY <1>1, Kinds, OverStands
  <1>2. ASSUME NEW r \in Runs, told'[r] # <<>> PROVE Over(r)
    <2>1. told'[r] = told[r] => Over(r)
      BY <1>2 DEF ToldOver
    <2>2. ASSUME NEW a \in Actors, pc(a) \in Telling, cur(a) \in Runs,
                 told' = [told EXCEPT ![cur(a)] = Append(told[cur(a)], loc(a))]
          PROVE  Over(r)
      <3>1. cur(a) = r => Over(r)
        BY <2>2, TellingOver
      <3>2. told \in [Runs -> Seq(RunStatus)]
        BY DEF TypeOK
      <3>3. cur(a) # r => told'[r] = told[r]
        BY <2>2, <3>2
      <3> QED
        BY <2>1, <3>1, <3>3
    <2> QED
      BY <2>1, <2>2, ToldWritten
  <1>3. \A r \in Runs : told'[r] # <<>> => Over(r)'
    BY <1>1, <1>2
  <1> QED
    BY <1>3 DEF ToldOver, Over

LEMMA LStart ==
  ASSUME Init PROVE LInv
  <1>1. /\ \A a \in Actors : pc(a) = "idle"
        /\ \A r \in Runs : history[r] = <<>> /\ told[r] = <<>>
        /\ queue = <<>> /\ preCanceled = {}
    BY DEF Init, pc, Idle
  <1>2. \A r \in Runs : ~Queued(r) /\ \A e : ~Has(r, e)
    BY <1>1 DEF Queued, Has
  <1>3. (\A c \in Clients : c \in Actors) /\ (\A w \in Workers : w \in Actors)
    BY DEF Actors
  <1>4. /\ "idle" \notin Early \cup {"subPublish", "subCheck", "subSend"} \cup Before \cup Submitting \cup Rej \cup End
        /\ "idle" \notin {"create", "begin", "exec", "settle"}
    BY DEF Early, Before, Submitting, Mid, Undo, Rej, End
  <1>5. Heralded /\ Unstarted
    BY <1>1, <1>2, <1>3, <1>4 DEF Heralded, Unstarted
  <1>6. InProgress /\ Progress /\ Refused
    BY <1>1, <1>3, <1>4 DEF InProgress, Progress, Refused
  <1>7. ToldOver
    BY <1>1 DEF ToldOver
  <1> QED
    BY <1>5, <1>6, <1>7 DEF LInv

LEMMA LInvKept ==
  ASSUME IInv, LInv, [Next]_vars
  PROVE  LInv'
  <1>1. TypeOK /\ Shape /\ OneOwner /\ Fresh /\ JobsTell /\ Stored /\ Cancelers /\ NoStrandedJob /\ Finished
    BY DEF IInv
  <1>2. Heralded /\ Unstarted /\ InProgress /\ Progress /\ Refused /\ ToldOver
    BY DEF LInv
  <1>3. TypeOK' /\ Shape'
    BY IInvKept DEF IInv
  <1>4. Heralded' /\ Unstarted' /\ InProgress'
    BY <1>1, <1>2, <1>3, HeraldedKept, UnstartedKept, InProgressKept
  <1>5. Progress' /\ Refused' /\ ToldOver'
    BY <1>1, <1>2, <1>3, ProgressKept, RefusedKept, ToldOverKept
  <1> QED
    BY <1>4, <1>5 DEF LInv

-----------------------------------------------------------------------------
(* The run service implements the ledger.                                  *)

LEMMA Seen ==
  ASSUME NEW r \in Runs
  PROVE  /\ Ledger!Announced(r) <=> Has(r, "run_queued")
         /\ Ledger!Started(r) <=> Has(r, "run_start")
         /\ Ledger!Ended(r) <=> Has(r, "run_finish")
         /\ Ledger!Open(r) <=> UnderWay(r)
  BY DEF Ledger!Announced, Ledger!Started, Ledger!Ended, Ledger!Open, Ledger!Has, Has, UnderWay

(* Of a run that may still start no finish was published, nothing was told. *)
LEMMA Quiet ==
  ASSUME Finished, ToldOver, NEW r \in Runs, ~Over(r)
  PROVE  ~Has(r, "run_finish") /\ told[r] = <<>>
  BY DEF Finished, ToldOver, Has

LEMMA PublishImplements ==
  ASSUME IInv, LInv, NEW a \in Actors,
         \/ a \in Clients /\ SubmitPublish(a)
         \/ a \in Workers /\ StartPublish(a)
         \/ FinishPublish(a)
  PROVE  Ledger!Next
  <1>0. /\ TypeOK /\ Shape /\ JobsTell /\ Stored /\ Cancelers /\ Finished /\ Undone
        /\ Heralded /\ Unstarted /\ InProgress /\ ToldOver
    BY DEF IInv, LInv
  <1>1. UNCHANGED <<runStore, preCanceled, rolledBack, told>>
    BY DEF SubmitPublish, StartPublish, FinishPublish, gvars
  <1>2. pc(a) \in {"subPublish", "startPublish", "finishPublish"}
    BY DEF SubmitPublish, StartPublish, FinishPublish, Step
  <1>3. PICK r \in Runs : r = cur(a)
    BY <1>0, <1>2, About DEF Free, Scanning
  <1>4. ASSUME a \in Clients, SubmitPublish(a) PROVE Ledger!Announce(r)
    <2>1. pc(a) = "subPublish" /\ history' = [history EXCEPT ![r] = Append(@, "run_queued")]
      BY <1>3, <1>4 DEF SubmitPublish, Step, PublishEvent
    <2>2. ~Has(r, "run_queued") /\ ~Has(r, "run_start") /\ runStore[r] = "none"
      <3>1. pc(a) \in Submitting
        BY <2>1 DEF Submitting, Mid
      <3> QED
        BY <1>0, <1>3, <1>4, <2>1, <3>1 DEF Heralded, Unstarted, Stored
    <2> QED
      BY <1>1, <2>1, <2>2, Seen DEF Ledger!Announce, Ledger!Publish
  <1>5. ASSUME a \in Workers, StartPublish(a) PROVE Ledger!Start(r)
    <2>1. pc(a) = "startPublish" /\ history' = [history EXCEPT ![r] = Append(@, "run_start")]
      BY <1>3, <1>5 DEF StartPublish, Step, PublishEvent
    <2>2. pc(a) \in Before /\ pc(a) \in Begun
      BY <2>1 DEF Before, Begun
    <2>3. Has(r, "run_queued") /\ ~Has(r, "run_start") /\ runStore[r] = "none" /\ r \notin preCanceled
      BY <1>0, <1>3, <1>5, <2>2 DEF Heralded, Unstarted, Stored, JobsTell
    <2>4. ~Over(r)
      BY <1>3, <1>5, <2>1, <2>3 DEF Over
    <2>5. r \notin rolledBack
      BY <1>0, <1>3, <1>5, <2>3, ServiceConstants DEF Undone, Silent
    <2> QED
      BY <1>0, <1>1, <2>1, <2>3, <2>4, <2>5, Seen, Quiet DEF Ledger!Start, Ledger!Publish
  <1>6. ASSUME FinishPublish(a) PROVE Ledger!Finish(r)
    <2>1. pc(a) = "finishPublish" /\ history' = [history EXCEPT ![r] = Append(@, "run_finish")]
      BY <1>3, <1>6 DEF FinishPublish, Step, PublishEvent
    <2>2. r \in preCanceled \/ UnderWay(r)
      BY <1>0, <1>3, <2>1 DEF Cancelers, InProgress, End, Actors
    <2> QED
      BY <1>1, <2>1, <2>2, Seen DEF Ledger!Finish, Ledger!Publish
  <1> QED
    BY <1>4, <1>5, <1>6 DEF Ledger!Next

LEMMA CancelImplements ==
  ASSUME IInv, LInv, NEW c \in Clients, NEW r \in Runs, Cancel(c, r)
  PROVE  [Ledger!Next]_(Ledger!vars)
  <1>0. /\ TypeOK /\ JobsTell /\ NoStrandedJob /\ Finished /\ Undone
        /\ Unstarted /\ ToldOver
    BY DEF IInv, LInv
  <1>1. UNCHANGED <<runStore, rolledBack, history, told>> /\ serving = "up"
    BY DEF Cancel
  <1>2. CASE preCanceled' = preCanceled
    BY <1>1, <1>2 DEF Ledger!vars
  <1>3. ASSUME preCanceled' # preCanceled PROVE Ledger!Cancel(r)
    <2>1. jobs[r] \in {"waiting", "canceled"} /\ preCanceled' = preCanceled \cup {r} /\ r \notin preCanceled
      BY <1>3 DEF Cancel, CancelWaiting, CancelStarted
    <2>2. jobs[r] = "waiting"
      BY <1>0, <2>1 DEF JobsTell
    <2>3. \/ \E d \in Clients : cur(d) = r /\ pc(d) \in Mid
          \/ Queued(r)
          \/ \E w \in Workers : cur(w) = r /\ pc(w) = "claimed"
      BY <1>0, <1>1, <2>2 DEF NoStrandedJob, Queued, Mid
    <2>4. ~Has(r, "run_start")
      BY <1>0, <2>3 DEF Unstarted, Submitting, Before
    <2>5. ~Over(r)
      BY <2>1, <2>3 DEF Over, Submitting
    <2>6. runStore[r] = "none" /\ r \notin rolledBack
      BY <1>0, <2>1, <2>2 DEF JobsTell, Undone, Silent
    <2> QED
      BY <1>0, <1>1, <2>1, <2>4, <2>5, <2>6, Seen, Quiet DEF Ledger!Cancel
  <1> QED
    BY <1>2, <1>3 DEF Ledger!Next

LEMMA WithdrawImplements ==
  ASSUME IInv, LInv, NEW c \in Clients, RollbackDelete(c)
  PROVE  Ledger!Next
  <1>0. TypeOK /\ Shape /\ Stored /\ Unstarted /\ c \in Actors
    BY DEF IInv, LInv, Actors
  <1>1. UNCHANGED <<runStore, preCanceled, history, told>> /\ pc(c) = "rbDelete" /\ rolledBack' = rolledBack \cup {cur(c)}
    BY DEF RollbackDelete, Step
  <1>2. PICK r \in Runs : r = cur(c)
    BY <1>0, <1>1, About DEF Free, Scanning
  <1>3. ~Has(r, "run_start") /\ runStore[r] = "none"
    BY <1>0, <1>1, <1>2 DEF Unstarted, Stored, Submitting, Undo
  <1>4. Ledger!Withdraw(r)
    BY <1>1, <1>2, <1>3, Seen DEF Ledger!Withdraw
  <1> QED
    BY <1>4 DEF Ledger!Next

LEMMA WriteImplements ==
  ASSUME IInv, LInv, NEW w \in Workers, CreateCanceled(w) \/ CreateRun(w) \/ BeginRun(w) \/ Execute(w)
  PROVE  [Ledger!Next]_(Ledger!vars)
  <1>0. /\ TypeOK /\ Shape /\ Stored /\ Cancelers /\ Unstarted /\ InProgress /\ Progress
        /\ w \in Actors
    BY DEF IInv, LInv, Actors
  <1>1. UNCHANGED <<preCanceled, rolledBack, history, told>> /\ pc(w) \in {"createCanceled", "create", "begin", "exec"}
    BY DEF CreateCanceled, CreateRun, BeginRun, TrackerWrite, Execute, Step, gvars
  <1>2. PICK r \in Runs : r = cur(w)
    BY <1>0, <1>1, About DEF Free, Scanning
  <1>3. CASE runStore' = runStore
    BY <1>1, <1>3 DEF Ledger!vars
  <1>4. ASSUME CreateCanceled(w), runStore' # runStore PROVE Ledger!Refuse(r)
    <2>1. pc(w) = "createCanceled" /\ runStore[r] = "none" /\ runStore' = [runStore EXCEPT ![r] = "canceled"]
      BY <1>2, <1>4 DEF CreateCanceled, Step
    <2>2. r \in preCanceled /\ ~Has(r, "run_start")
      BY <1>0, <1>2, <2>1 DEF Cancelers, Unstarted
    <2> QED
      BY <1>1, <2>1, <2>2, Seen DEF Ledger!Refuse, Ledger!Becomes
  <1>5. ASSUME CreateRun(w), runStore' # runStore PROVE Ledger!Create(r)
    <2>1. pc(w) = "create" /\ runStore[r] = "none" /\ runStore' = [runStore EXCEPT ![r] = "queued"]
      BY <1>2, <1>5 DEF CreateRun, TrackerWrite
    <2>2. UnderWay(r)
      BY <1>0, <1>2, <2>1 DEF InProgress
    <2> QED
      BY <1>1, <2>1, <2>2, Seen DEF Ledger!Create, Ledger!Becomes
  <1>6. ASSUME BeginRun(w), runStore' # runStore PROVE Ledger!Begin(r)
    <2>1. pc(w) = "begin" /\ runStore' = [runStore EXCEPT ![r] = "running"]
      BY <1>2, <1>6 DEF BeginRun, TrackerWrite
    <2>2. UnderWay(r) /\ runStore[r] = "queued"
      BY <1>0, <1>2, <2>1 DEF InProgress, Progress
    <2> QED
      BY <1>1, <2>1, <2>2, Seen DEF Ledger!Begin, Ledger!Becomes
  <1>7. ASSUME Execute(w), runStore' # runStore PROVE \E s \in RunStatus : Ledger!Conclude(r, s)
    <2>1. PICK s \in {"success", "failed", "canceled"} : runStore' = [runStore EXCEPT ![r] = s]
      BY <1>2, <1>7 DEF Execute
    <2>2. pc(w) = "exec"
      BY <1>7 DEF Execute
    <2>3. UnderWay(r) /\ runStore[r] = "running"
      BY <1>0, <1>2, <2>2 DEF InProgress, Progress
    <2>4. Ledger!Conclude(r, s)
      BY <1>1, <2>1, <2>3, Seen DEF Ledger!Conclude, Ledger!Becomes
    <2> QED
      BY <2>4 DEF RunStatus
  <1> QED
    BY <1>3, <1>4, <1>5, <1>6, <1>7 DEF Ledger!Next, Ledger!RunStatus, RunStatus

LEMMA TellImplements ==
  ASSUME IInv, LInv, NEW a \in Actors, NotifyOpsManualRunRecord(a), told' # told
  PROVE  Ledger!Next
  <1>0. TypeOK /\ Shape /\ Stored /\ Cancelers /\ Tellers /\ InProgress /\ Progress /\ Refused
    BY DEF IInv, LInv
  <1>1. /\ UNCHANGED <<runStore, preCanceled, rolledBack, history>> /\ pc(a) \in Telling
        /\ told' = [told EXCEPT ![cur(a)] = Append(@, loc(a))]
    BY DEF NotifyOpsManualRunRecord, MarkNotified, RecordRun, Step, Telling, gvars
  <1>2. PICK r \in Runs : r = cur(a)
    BY <1>0, <1>1, About DEF Telling, Free, Scanning
  <1>3. PICK s \in RunStatus : s = loc(a) /\ IsTerminalRunStatus(s)
    BY <1>0, <1>1 DEF Tellers, IsTerminalRunStatus, RunStatus
  <1>4. told[r] = <<>> /\ told' = [told EXCEPT ![r] = <<s>>]
    <2>1. told[r] = <<>> /\ told' = [told EXCEPT ![r] = Append(told[r], s)]
      BY <1>0, <1>1, <1>2, <1>3 DEF Tellers
    <2>2. Append(<<>>, s) = <<s>>
      OBVIOUS
    <2> QED
      BY <2>1, <2>2
  <1>5. /\ IsTerminalRunStatus(runStore[r]) => runStore[r] = s
        /\ \/ UnderWay(r)
           \/ r \in preCanceled /\ s = "canceled"
           \/ history[r] = <<>> /\ runStore[r] = "none" /\ s = "failed"
    <2>1. CASE a \in Clients /\ pc(a) = "record"
      <3>1. r \in preCanceled /\ s = "canceled"
        BY <1>0, <1>2, <1>3, <2>1 DEF Cancelers, End
      <3>2. runStore[r] \in {"none", "canceled"}
        BY <1>0, <3>1 DEF Cancelers
      <3> QED
        BY <3>1, <3>2 DEF IsTerminalRunStatus
    <2>2. CASE a \in Clients /\ pc(a) = "rejRecord"
      <3>1. history[r] = <<>> /\ runStore[r] = "none" /\ s = "failed"
        BY <1>0, <1>2, <1>3, <2>2 DEF Refused, Stored, Rej
      <3> QED
        BY <3>1 DEF IsTerminalRunStatus
    <2>3. CASE a \in Workers
      <3>1. pc(a) \in End
        BY <1>0, <1>1, <2>3 DEF Shape, WorkerPc, Telling, End
      <3> QED
        BY <1>0, <1>2, <1>3, <2>3, <3>1 DEF InProgress, Progress
    <2> QED
      BY <1>1, <2>1, <2>2, <2>3 DEF Actors, Telling
  <1>6. Ledger!Tell(r, s)
    BY <1>1, <1>3, <1>4, <1>5, Seen DEF Ledger!Tell, Ledger!IsTerminalRunStatus, IsTerminalRunStatus
  <1> QED
    BY <1>6 DEF Ledger!Next, Ledger!RunStatus, RunStatus

LEMMA ServiceStepImplements ==
  ASSUME IInv, LInv, [Next]_vars
  PROVE  [Ledger!Next]_(Ledger!vars)
  <1> DEFINE Watched == <<runStore, preCanceled, rolledBack, history, told>>
  <1>0. (\A c \in Clients : c \in Actors) /\ (\A w \in Workers : w \in Actors)
    BY DEF Actors
  <1>1. UNCHANGED Watched => UNCHANGED Ledger!vars
    BY DEF Ledger!vars
  <1>2. ASSUME NEW c \in Clients, \/ \E k \in Keys \cup {NoKey} : SubmitCheck(c, k)
                                  \/ \E r \in Runs : Get(c, r)
                                  \/ List(c)
                                  \/ ClientStep(c) /\ ~SubmitPublish(c) /\ ~RollbackDelete(c)
        PROVE  UNCHANGED Watched
    BY <1>2 DEF SubmitCheck, Get, List, ClientStep, SubmitInvalid, SubmitReject, RememberRejected, SubmitAccept,
         SubmitRemember, SubmitJob, EnqueueCheck, EnqueueSend, RollbackJob, RollbackForget, GetLookup, ListRuns, ReadNext, svars, gvars
  <1>3. ASSUME NEW w \in Workers, WorkerStep(w), ~StartPublish(w), ~(CreateCanceled(w) \/ CreateRun(w) \/ BeginRun(w) \/ Execute(w))
        PROVE  UNCHANGED Watched
    BY <1>3 DEF WorkerStep, Dequeue, WorkerExit, ProcessJob, Settle, svars, gvars
  <1>4. ASSUME NEW a \in Actors, EndStep(a), ~FinishPublish(a)
        PROVE  UNCHANGED Watched \/ (NotifyOpsManualRunRecord(a) /\ told' # told)
    BY <1>4 DEF EndStep, PersistMetaAsync, Remember, Upsert, NotifyOpsManualRunRecord, MarkNotified, RecordRun, svars, gvars
  <1>5. Close \/ Exit \/ Crash \/ UNCHANGED vars => UNCHANGED Watched
    BY DEF Close, Exit, Crash, Stop, vars, svars, gvars
  <1>6. ASSUME Restart PROVE Ledger!Next
    BY <1>6 DEF Restart, Ledger!Next, Ledger!Interrupt, Ledger!MarkInterrupted, MarkInterrupted, gvars
  <1>7. ASSUME NEW c \in Clients, \/ \E k \in Keys \cup {NoKey} : SubmitCheck(c, k)
                                  \/ \E r \in Runs : Get(c, r) \/ Cancel(c, r)
                                  \/ List(c) \/ ClientStep(c)
        PROVE  UNCHANGED Watched \/ [Ledger!Next]_(Ledger!vars)
    BY <1>0, <1>2, <1>7, PublishImplements, CancelImplements, WithdrawImplements
  <1>8. ASSUME NEW w \in Workers, WorkerStep(w)
        PROVE  UNCHANGED Watched \/ [Ledger!Next]_(Ledger!vars)
    BY <1>0, <1>3, <1>8, PublishImplements, WriteImplements
  <1>9. ASSUME NEW a \in Actors, EndStep(a)
        PROVE  UNCHANGED Watched \/ [Ledger!Next]_(Ledger!vars)
    BY <1>4, <1>9, PublishImplements, TellImplements
  <1> HIDE DEF Watched
  <1> QED
    BY <1>1, <1>5, <1>6, <1>7, <1>8, <1>9 DEF Next

(* What those who watch a run see, in the run-state store, its events and  *)
(* the sink, keeps the promises of RunLedger: every step of the service is *)
(* one step of the ledger, or none, whatever calls, lost writes, crashes   *)
(* and restarts come between.                                              *)
THEOREM RunsKeepTheLedger == Spec => ImplementsLedger
  <1>1. Init => IInv /\ LInv /\ Ledger!Init
    <2>1. Init => Ledger!Init
      BY DEF Init, Ledger!Init
    <2> QED
      BY <2>1, Start, LStart
  <1>2. IInv /\ LInv /\ [Next]_vars => IInv' /\ LInv'
    BY IInvKept, LInvKept
  <1>3. IInv /\ LInv /\ [Next]_vars => [Ledger!Next]_(Ledger!vars)
    BY ServiceStepImplements
  <1> QED
    BY <1>1, <1>2, <1>3, PTL DEF Spec, ImplementsLedger, Ledger!Spec
=============================================================================
