------------------------------ MODULE RunService ------------------------------
(***************************************************************************)
(* The run service of the runner server                                    *)
(* (pkg/runner/server/service/run_service.go): HTTP handlers call Submit,  *)
(* Get, List and Cancel, workers take runs from a bounded queue and        *)
(* execute them, and a process that stops is started again on the same     *)
(* files.                                                                  *)
(*                                                                         *)
(* What the process keeps in memory (jobs, metas, idempotency,             *)
(* sinkNotified, the queue) is guarded by one mutex that is released       *)
(* between the steps of a call, so each action below is one critical       *)
(* section or one store write. The record store (run metas) and the        *)
(* run-state store are two files, written independently.                   *)
(*                                                                         *)
(* A meta is abstracted to its status and to whether it still carries the  *)
(* idempotency key of its run, keyOf: a read that makes a meta up from the *)
(* run state writes it back without the key. Runs are numbered in the      *)
(* order of their CreatedAt.                                               *)
(***************************************************************************)
EXTENDS Naturals, Sequences, FiniteSets, FiniteSetsExt, RunLifecycle

CONSTANTS
  Clients,    \* concurrent API calls
  Workers,    \* MaxConcurrentRuns goroutines of workerLoop
  Keys,       \* idempotency keys
  NoKey,      \* a request without one
  QueueSize,  \* capacity of MemoryQueue
  MaxRuns,    \* bound: run ids handed out
  MaxReads,   \* bound: Get and List calls
  MaxCancels, \* bound: Cancel calls
  MaxRejects, \* bound: requests refused for a digest or preflight mismatch
  MaxFaults,  \* bound: store writes that fail with an I/O error
  MaxStops    \* bound: crashes and shutdowns

ASSUME ServiceConstants ==
  /\ Clients \cap Workers = {}
  /\ NoKey \notin Keys
  /\ {QueueSize, MaxRuns, MaxReads, MaxCancels, MaxRejects, MaxFaults, MaxStops} \subseteq Nat
  /\ QueueSize > 0

Runs   == 1..MaxRuns
NoRun  == 0
Actors == Clients \cup Workers

\* The status of a meta; "" is the status of a zero RunState, "none" no meta.
MetaStatus == RunStatus \cup {"", "none"}

VARIABLES
  serving,      \* "up", "closing" (Close has begun) or "down"
  act,          \* act[a]: where the call of client a, or worker a, is, the run it is
                \* about and the status of its local copy of the meta or snapshot
  want,         \* want[c]: the key of the request client c submits
  listed,       \* listed[c]: the snapshots Get or List has still to write back
  jobs,         \* jobs[r]: runJob: "absent", "waiting", "canceled", "started"
  metas,        \* metas[r]: in-memory meta
  idempotency,  \* idempotency[k]: the run remembered for the key
  ctxDone,      \* runs whose context was canceled
  queue,        \* MemoryQueue
  sinkNotified, \* runs marked as reported to the ops-manual sink
  records,      \* records[r]: the record store (file)
  runStore,     \* runStore[r]: the run-state store (file)
  keyOf,        \* keyOf[r]: the key run r was submitted with
  bareMetas,    \* runs with a key whose in-memory meta has lost it
  bareRecords,  \* the same of the record store
  bareCopy,     \* bareCopy[a]: the same of the metas actor a is about to write
  lastRun,      \* run ids handed out so far
  history,      \* history[r]: events published for run r (event store)
  told,         \* told[r]: statuses reported to the sink
  acked,        \* acked[k]: runs Submit has returned for key k
  preCanceled,  \* runs Cancel has marked before they started
  rolledBack,   \* runs whose Submit failed to enqueue and was undone
  bounds        \* what the bounds have used up

svars == <<jobs, metas, idempotency, ctxDone, queue, sinkNotified>>
bare  == <<bareMetas, bareRecords, bareCopy>>
gvars == <<told, acked, preCanceled, rolledBack>>
vars  == <<serving, act, want, listed, svars, records, runStore, keyOf, bare,
           lastRun, history, gvars, bounds>>

ClientPc == {"idle", "loading", "rejRemember", "rejNotify", "rejRecord",
             "subRemember", "subJob", "subPublish", "subCheck", "subSend", "rbJob",
             "rbForget", "rbDelete", "getting", "listing", "reading", "readRemember",
             "readUpsert", "endRemember", "endUpsert", "notify", "record", "finishPublish"}
WorkerPc == {"idle", "claimed", "createCanceled", "startRemember", "startUpsert",
             "startPublish", "create", "begin", "exec", "settle", "endRemember",
             "endUpsert", "notify", "record", "finishPublish", "exited"}

TypeOK ==
  /\ serving \in {"up", "closing", "down"}
  /\ act \in [Actors -> [pc : ClientPc \cup WorkerPc, run : Runs \cup {NoRun},
                         status : MetaStatus]]
  /\ want \in [Clients -> Keys \cup {NoKey}]
  /\ listed \in [Clients -> [Runs -> RunStatus \cup {"none"}]]
  /\ jobs \in [Runs -> {"absent", "waiting", "canceled", "started"}]
  /\ metas \in [Runs -> MetaStatus]
  /\ idempotency \in [Keys -> Runs \cup {NoRun}]
  /\ ctxDone \subseteq Runs
  /\ queue \in Seq(Runs) /\ Len(queue) <= QueueSize
  /\ sinkNotified \subseteq Runs
  /\ records \in [Runs -> MetaStatus]
  /\ runStore \in [Runs -> RunStatus \cup {"none"}]
  /\ keyOf \in [Runs -> Keys \cup {NoKey}]
  /\ bareMetas \subseteq Runs
  /\ bareRecords \subseteq Runs
  /\ bareCopy \in [Actors -> SUBSET Runs]
  /\ lastRun \in 0..MaxRuns
  /\ history \in [Runs -> Seq({"run_queued", "run_start", "run_finish"})]
  /\ told \in [Runs -> Seq(RunStatus)]
  /\ acked \in [Keys -> SUBSET Runs]
  /\ preCanceled \subseteq Runs
  /\ rolledBack \subseteq Runs
  /\ bounds \in [reads : 0..MaxReads, cancels : 0..MaxCancels, rejects : 0..MaxRejects,
                 faults : 0..MaxFaults, stops : 0..MaxStops]

Idle == [pc |-> "idle", run |-> NoRun, status |-> "none"]

NothingListed == [r \in Runs |-> "none"]

Init ==
  /\ serving = "up"
  /\ act = [a \in Actors |-> Idle]
  /\ want = [c \in Clients |-> NoKey]
  /\ listed = [c \in Clients |-> NothingListed]
  /\ jobs = [r \in Runs |-> "absent"]
  /\ metas = [r \in Runs |-> "none"]
  /\ idempotency = [k \in Keys |-> NoRun]
  /\ ctxDone = {}
  /\ queue = <<>>
  /\ sinkNotified = {}
  /\ records = [r \in Runs |-> "none"]
  /\ runStore = [r \in Runs |-> "none"]
  /\ keyOf = [r \in Runs |-> NoKey]
  /\ bareMetas = {}
  /\ bareRecords = {}
  /\ bareCopy = [a \in Actors |-> {}]
  /\ lastRun = 0
  /\ history = [r \in Runs |-> <<>>]
  /\ told = [r \in Runs |-> <<>>]
  /\ acked = [k \in Keys |-> {}]
  /\ preCanceled = {}
  /\ rolledBack = {}
  /\ bounds = [reads |-> 0, cancels |-> 0, rejects |-> 0, faults |-> 0, stops |-> 0]

-------------------------------------------------------------------------------
(* Helpers.                                                                *)

Alive == serving # "down"

pc(a)  == act[a].pc
cur(a) == act[a].run
loc(a) == act[a].status

\* Actor a is at the next point of its call, about run r with status s.
Move(a, to, r, s) ==
  act' = [act EXCEPT ![a] = IF to = "idle" THEN Idle
                            ELSE [pc |-> to, run |-> r, status |-> s]]

\* The same, with the run and the status it has.
Step(a, from, to) == pc(a) = from /\ Move(a, to, cur(a), loc(a))

\* The context of a run is done once it is canceled or Close has begun.
CtxDone(r) == r \in ctxDone \/ serving = "closing"

\* A store write fails.
Fault ==
  /\ bounds.faults < MaxFaults
  /\ bounds' = [bounds EXCEPT !.faults = @ + 1]

\* recordStore.Upsert, whose error the caller only logs.
UpsertRecord(r, status, lost) ==
  \/ /\ records' = [records EXCEPT ![r] = status]
     /\ bareRecords' = IF lost THEN bareRecords \cup {r} ELSE bareRecords \ {r}
     /\ UNCHANGED bounds
  \/ Fault /\ UNCHANGED <<records, bareRecords>>

\* rememberMeta, of a meta that carries its key or has lost it.
RememberMeta(r, status, lost) ==
  /\ metas' = [metas EXCEPT ![r] = status]
  /\ bareMetas' = IF lost THEN bareMetas \cup {r} ELSE bareMetas \ {r}
  /\ idempotency' = IF lost \/ keyOf[r] = NoKey THEN idempotency
                    ELSE [idempotency EXCEPT ![keyOf[r]] = r]

\* Actor a takes a copy of the in-memory meta of run r.
TakeCopy(a, r) == bareCopy' = [bareCopy EXCEPT ![a] = bareMetas \cap {r}]

\* publishEvent: appended to the event store of the run.
PublishEvent(r, type) == history' = [history EXCEPT ![r] = Append(@, type)]

-------------------------------------------------------------------------------
(* Submit.                                                                 *)

\* The idempotency lookup: a key whose run is known answers at once.
SubmitCheck(c, k) ==
  /\ serving = "up"
  /\ pc(c) = "idle"
  /\ IF k # NoKey /\ idempotency[k] # NoRun /\ metas[idempotency[k]] # "none"
     THEN /\ acked' = [acked EXCEPT ![k] = @ \cup {idempotency[k]}]
          /\ UNCHANGED <<act, want>>
     ELSE /\ lastRun < MaxRuns
          /\ Step(c, "idle", "loading")
          /\ want' = [want EXCEPT ![c] = k]
          /\ UNCHANGED acked
  /\ UNCHANGED <<serving, listed, svars, records, runStore, keyOf, bare, lastRun,
                 history, told, preCanceled, rolledBack, bounds>>

\* The request names no valid workflow, or the preprocessor refuses it.
SubmitInvalid(c) ==
  /\ Alive
  /\ Step(c, "loading", "idle")
  /\ want' = [want EXCEPT ![c] = NoKey]
  /\ UNCHANGED <<serving, listed, svars, records, runStore, keyOf, bare, lastRun,
                 history, gvars, bounds>>

\* A new run id and the meta built for it.
NewRun(c, next, status) ==
  /\ lastRun < MaxRuns
  /\ lastRun' = lastRun + 1
  /\ keyOf' = [keyOf EXCEPT ![lastRun + 1] = want[c]]
  /\ want' = [want EXCEPT ![c] = NoKey]
  /\ pc(c) = "loading"
  /\ Move(c, next, lastRun + 1, status)

\* recordRejectedRun up to the Upsert of the failed meta.
SubmitReject(c) ==
  /\ Alive
  /\ bounds.rejects < MaxRejects
  /\ NewRun(c, "rejRemember", "failed")
  /\ \/ /\ records' = [records EXCEPT ![lastRun + 1] = "failed"]
        /\ bounds' = [bounds EXCEPT !.rejects = @ + 1]
     \/ /\ bounds.faults < MaxFaults
        /\ bounds' = [bounds EXCEPT !.rejects = @ + 1, !.faults = @ + 1]
        /\ UNCHANGED records
  /\ UNCHANGED <<serving, listed, svars, runStore, bare, history, gvars>>

\* rememberMetaWithoutIdempotency; the sink is told next.
RememberRejected(c) ==
  /\ Alive
  /\ Step(c, "rejRemember", "rejNotify")
  /\ metas' = [metas EXCEPT ![cur(c)] = "failed"]
  /\ UNCHANGED <<serving, want, listed, jobs, idempotency, ctxDone, queue,
                 sinkNotified, records, runStore, keyOf, bare, lastRun, history, gvars, bounds>>

\* The queued meta is written to the record store; an error ends the call.
SubmitAccept(c) ==
  /\ Alive
  /\ \/ /\ NewRun(c, "subRemember", "queued")
        /\ records' = [records EXCEPT ![lastRun + 1] = "queued"]
        /\ UNCHANGED bounds
     \/ /\ Step(c, "loading", "idle")
        /\ Fault
        /\ want' = [want EXCEPT ![c] = NoKey]
        /\ UNCHANGED <<lastRun, keyOf, records>>
  /\ UNCHANGED <<serving, listed, svars, runStore, bare, history, gvars>>

SubmitRemember(c) ==
  /\ Alive
  /\ Step(c, "subRemember", "subJob")
  /\ RememberMeta(cur(c), "queued", FALSE)
  /\ UNCHANGED <<serving, want, listed, jobs, ctxDone, queue, sinkNotified,
                 records, runStore, keyOf, bareRecords, bareCopy, lastRun, history, gvars, bounds>>

SubmitJob(c) ==
  /\ Alive
  /\ Step(c, "subJob", "subPublish")
  /\ jobs' = [jobs EXCEPT ![cur(c)] = "waiting"]
  /\ UNCHANGED <<serving, want, listed, metas, idempotency, ctxDone, queue,
                 sinkNotified, records, runStore, keyOf, bare, lastRun, history, gvars, bounds>>

SubmitPublish(c) ==
  /\ Alive
  /\ Step(c, "subPublish", "subCheck")
  /\ PublishEvent(cur(c), "run_queued")
  /\ UNCHANGED <<serving, want, listed, svars, records, runStore, keyOf, bare,
                 lastRun, gvars, bounds>>

\* Enqueue before its select: refused when the queue is closed or the request's
\* context is done.
EnqueueCheck(c) ==
  /\ Alive
  /\ \/ serving = "up" /\ Step(c, "subCheck", "subSend")
     \/ Step(c, "subCheck", "rbJob")
  /\ UNCHANGED <<serving, want, listed, svars, records, runStore, keyOf, bare,
                 lastRun, history, gvars, bounds>>

\* Submit returns the run to its caller.
Acknowledge(r) ==
  acked' = IF keyOf[r] = NoKey THEN acked
           ELSE [acked EXCEPT ![keyOf[r]] = @ \cup {r}]

\* Mutants of EnqueueSend: the queue has no bound; a full queue is not rolled back.
EnqueueSendUnbounded(c) ==
  /\ serving = "up"
  /\ Step(c, "subSend", "idle")
  /\ queue' = Append(queue, cur(c))
  /\ Acknowledge(cur(c))
  /\ UNCHANGED <<serving, want, listed, jobs, metas, idempotency, ctxDone,
                 sinkNotified, records, runStore, keyOf, bare, lastRun, history, told,
                 preCanceled, rolledBack, bounds>>

EnqueueSendDropped(c) ==
  /\ serving = "up"
  /\ Step(c, "subSend", "idle")
  /\ queue' = IF Len(queue) < QueueSize THEN Append(queue, cur(c)) ELSE queue
  /\ Acknowledge(cur(c))
  /\ UNCHANGED <<serving, want, listed, jobs, metas, idempotency, ctxDone,
                 sinkNotified, records, runStore, keyOf, bare, lastRun, history, told,
                 preCanceled, rolledBack, bounds>>

\* Enqueue's send: accepted, or full. On a queue closed since the check the send
\* panics; net/http recovers the handler, so the call ends without a rollback.
EnqueueSend(c) ==
  /\ Alive
  /\ \/ /\ serving = "up" /\ Len(queue) < QueueSize
        /\ Step(c, "subSend", "idle")
        /\ queue' = Append(queue, cur(c))
        /\ Acknowledge(cur(c))
     \/ /\ serving = "up" /\ Len(queue) >= QueueSize
        /\ Step(c, "subSend", "rbJob")
        /\ UNCHANGED <<queue, acked>>
     \/ /\ serving = "closing"
        /\ Step(c, "subSend", "idle")
        /\ UNCHANGED <<queue, acked>>
  /\ UNCHANGED <<serving, want, listed, jobs, metas, idempotency, ctxDone,
                 sinkNotified, records, runStore, keyOf, bare, lastRun, history, told,
                 preCanceled, rolledBack, bounds>>

\* The three steps that undo a Submit whose Enqueue failed.
RollbackJob(c) ==
  /\ Alive
  /\ Step(c, "rbJob", "rbForget")
  /\ jobs' = [jobs EXCEPT ![cur(c)] = "absent"]
  /\ UNCHANGED <<serving, want, listed, metas, idempotency, ctxDone, queue,
                 sinkNotified, records, runStore, keyOf, bare, lastRun, history, gvars, bounds>>

\* forgetMeta drops the key whichever run it names by now.
RollbackForget(c) ==
  /\ Alive
  /\ Step(c, "rbForget", "rbDelete")
  /\ metas' = [metas EXCEPT ![cur(c)] = "none"]
  /\ bareMetas' = bareMetas \ {cur(c)}
  /\ idempotency' = IF keyOf[cur(c)] = NoKey THEN idempotency
                    ELSE [idempotency EXCEPT ![keyOf[cur(c)]] = NoRun]
  /\ UNCHANGED <<serving, want, listed, jobs, ctxDone, queue, sinkNotified,
                 records, runStore, keyOf, bareRecords, bareCopy, lastRun, history, gvars, bounds>>

\* Mutant of RollbackDelete: the record of the undone run stays.
RollbackKeepsRecord(c) ==
  /\ Alive
  /\ Step(c, "rbDelete", "idle")
  /\ rolledBack' = rolledBack \cup {cur(c)}
  /\ UNCHANGED <<serving, want, listed, svars, records, runStore, keyOf, bare, lastRun,
                 history, told, acked, preCanceled, bounds>>

RollbackDelete(c) ==
  /\ Alive
  /\ Step(c, "rbDelete", "idle")
  /\ \/ /\ records' = [records EXCEPT ![cur(c)] = "none"]
        /\ bareRecords' = bareRecords \ {cur(c)}
        /\ UNCHANGED bounds
     \/ Fault /\ UNCHANGED <<records, bareRecords>>
  /\ rolledBack' = rolledBack \cup {cur(c)}
  /\ UNCHANGED <<serving, want, listed, svars, runStore, keyOf, bareMetas, bareCopy, lastRun,
                 history, told, acked, preCanceled>>

-------------------------------------------------------------------------------
(* Get, List and Cancel.                                                   *)

\* Get reads the run state. A run the run-state store does not hold is answered
\* from the meta and changes nothing.
Get(c, r) ==
  /\ serving = "up"
  /\ bounds.reads < MaxReads
  /\ bounds' = [bounds EXCEPT !.reads = @ + 1]
  /\ runStore[r] # "none"
  /\ Step(c, "idle", "getting")
  /\ listed' = [listed EXCEPT ![c] = [NothingListed EXCEPT ![r] = runStore[r]]]
  /\ UNCHANGED <<serving, want, svars, records, runStore, keyOf, bare, lastRun,
                 history, gvars>>

\* Get looks the meta up, or makes one up from the run state, and goes on to write
\* it back with what the run state says.
GetLookup(c, r) ==
  /\ Alive
  /\ pc(c) = "getting"
  /\ listed[c][r] # "none"
  /\ Move(c, "readRemember", r, listed[c][r])
  /\ listed' = [listed EXCEPT ![c] = NothingListed]
  /\ bareCopy' = [bareCopy EXCEPT ![c] =
                   IF keyOf[r] # NoKey /\ (metas[r] = "none" \/ r \in bareMetas) THEN {r} ELSE {}]
  /\ UNCHANGED <<serving, want, svars, records, runStore, keyOf, bareMetas, bareRecords,
                 lastRun, history, gvars, bounds>>

\* List reads the record store, and then the run-state store: a run without a record
\* so far would be listed, and written back, without its key.
List(c) ==
  /\ serving = "up"
  /\ bounds.reads < MaxReads
  /\ bounds' = [bounds EXCEPT !.reads = @ + 1]
  /\ Step(c, "idle", "listing")
  /\ bareCopy' = [bareCopy EXCEPT ![c] = {r \in Runs : records[r] = "none" \/ r \in bareRecords}]
  /\ UNCHANGED <<serving, want, listed, svars, records, runStore, keyOf, bareMetas, bareRecords,
                 lastRun, history, gvars>>

ListRuns(c) ==
  /\ Alive
  /\ Step(c, "listing", "reading")
  /\ listed' = [listed EXCEPT ![c] = runStore]
  /\ bareCopy' = [bareCopy EXCEPT ![c] = {r \in @ : runStore[r] # "none" /\ keyOf[r] # NoKey}]
  /\ UNCHANGED <<serving, want, svars, records, runStore, keyOf, bareMetas, bareRecords,
                 lastRun, history, gvars, bounds>>

\* enrichMetaWithRun of the next run read, or the end of the call.
ReadNext(c) ==
  /\ Alive
  /\ \/ \E r \in Runs :
          /\ listed[c][r] # "none"
          /\ pc(c) = "reading"
          /\ Move(c, "readRemember", r, listed[c][r])
          /\ listed' = [listed EXCEPT ![c] = [@ EXCEPT ![r] = "none"]]
     \/ /\ listed[c] = NothingListed
        /\ Step(c, "reading", "idle")
        /\ UNCHANGED listed
  /\ UNCHANGED <<serving, want, svars, records, runStore, keyOf, bare, lastRun, history,
                 gvars, bounds>>

\* Mutant of CancelWaiting: a run that has started is treated like one that waits.
CancelWaitingAnyJob(c, r) ==
  /\ jobs[r] # "absent"
  /\ pc(c) = "idle"
  /\ Move(c, "endRemember", r, "canceled")
  /\ metas' = [metas EXCEPT ![r] = "canceled"]
  /\ TakeCopy(c, r)
  /\ UNCHANGED <<jobs, preCanceled, ctxDone>>

\* Cancel of a run that has not started: marked under the mutex, persisted and
\* reported afterwards.
CancelWaiting(c, r) ==
  /\ jobs[r] \in {"waiting", "canceled"}
  /\ pc(c) = "idle"
  /\ Move(c, "endRemember", r, "canceled")
  /\ jobs' = [jobs EXCEPT ![r] = "canceled"]
  /\ metas' = [metas EXCEPT ![r] = "canceled"]
  /\ TakeCopy(c, r)
  /\ preCanceled' = preCanceled \cup {r}
  /\ UNCHANGED ctxDone

\* Cancel of a running run calls its CancelFunc.
CancelStarted(c, r) ==
  /\ jobs[r] = "started"
  /\ pc(c) = "idle"
  /\ ctxDone' = ctxDone \cup {r}
  /\ UNCHANGED <<act, jobs, metas, bareCopy, preCanceled>>

\* Cancel; a run without a job is left alone.
Cancel(c, r) ==
  /\ serving = "up"
  /\ bounds.cancels < MaxCancels
  /\ bounds' = [bounds EXCEPT !.cancels = @ + 1]
  /\ CancelWaiting(c, r) \/ CancelStarted(c, r)
  /\ UNCHANGED <<serving, want, listed, idempotency, queue, sinkNotified, records,
                 runStore, keyOf, bareMetas, bareRecords, lastRun, history, told, acked,
                 rolledBack>>

-------------------------------------------------------------------------------
(* The workers.                                                            *)

\* Dequeue; while the service closes, its select may still pick a queued run.
Dequeue(w) ==
  /\ Alive
  /\ queue # <<>>
  /\ pc(w) = "idle"
  /\ Move(w, "claimed", Head(queue), "none")
  /\ queue' = Tail(queue)
  /\ UNCHANGED <<serving, want, listed, jobs, metas, idempotency, ctxDone,
                 sinkNotified, records, runStore, keyOf, bare, lastRun, history, gvars, bounds>>

\* workerLoop returns when Dequeue reports that the service closes.
WorkerExit(w) ==
  /\ serving = "closing"
  /\ Step(w, "idle", "exited")
  /\ UNCHANGED <<serving, want, listed, svars, records, runStore, keyOf, bare,
                 lastRun, history, gvars, bounds>>

\* Mutant of ProcessJob: job.Canceled is not looked at.
ProcessJobUnchecked(w) ==
  /\ Alive
  /\ pc(w) = "claimed"
  /\ jobs[cur(w)] # "absent"
  /\ Move(w, "startRemember", cur(w), "running")
  /\ jobs' = [jobs EXCEPT ![cur(w)] = "started"]
  /\ metas' = [metas EXCEPT ![cur(w)] = "running"]
  /\ TakeCopy(w, cur(w))
  /\ UNCHANGED <<serving, want, listed, idempotency, ctxDone, queue, sinkNotified,
                 records, runStore, keyOf, bareMetas, bareRecords, lastRun, history, gvars,
                 bounds>>

\* Mutant of ProcessJob: a canceled job is dropped and its run never settled.
ProcessJobDropsCanceled(w) ==
  LET r == cur(w) IN
  /\ Alive
  /\ pc(w) = "claimed"
  /\ \/ /\ jobs[r] # "waiting"
        /\ Move(w, "idle", r, "none")
        /\ jobs' = [jobs EXCEPT ![r] = "absent"]
        /\ UNCHANGED <<metas, bareCopy>>
     \/ /\ jobs[r] = "waiting"
        /\ Move(w, "startRemember", r, "running")
        /\ jobs' = [jobs EXCEPT ![r] = "started"]
        /\ metas' = [metas EXCEPT ![r] = "running"]
        /\ TakeCopy(w, r)
  /\ UNCHANGED <<serving, want, listed, idempotency, ctxDone, queue, sinkNotified,
                 records, runStore, keyOf, bareMetas, bareRecords, lastRun, history, gvars,
                 bounds>>

\* processJob's first critical section: what becomes of the run is decided with
\* its job, under the mutex.
ProcessJob(w) ==
  LET r == cur(w) IN
  /\ Alive
  /\ pc(w) = "claimed"
  /\ \/ /\ jobs[r] = "absent"
        /\ Move(w, "idle", r, "none")
        /\ UNCHANGED <<jobs, metas, bareCopy>>
     \/ /\ jobs[r] = "canceled"
        /\ Move(w, "createCanceled", r, "canceled")
        /\ jobs' = [jobs EXCEPT ![r] = "absent"]
        /\ metas' = [metas EXCEPT ![r] = "canceled"]
        /\ TakeCopy(w, r)
     \/ /\ jobs[r] = "waiting"
        /\ Move(w, "startRemember", r, "running")
        /\ jobs' = [jobs EXCEPT ![r] = "started"]
        /\ metas' = [metas EXCEPT ![r] = "running"]
        /\ TakeCopy(w, r)
  /\ UNCHANGED <<serving, want, listed, idempotency, ctxDone, queue, sinkNotified,
                 records, runStore, keyOf, bareMetas, bareRecords, lastRun, history, gvars,
                 bounds>>

\* A run canceled before it started gets a canceled run state; the error of
\* CreateRun is dropped.
CreateCanceled(w) ==
  LET r == cur(w) IN
  /\ Alive
  /\ Step(w, "createCanceled", "endRemember")
  /\ \/ /\ runStore' = IF runStore[r] = "none" THEN [runStore EXCEPT ![r] = "canceled"]
                       ELSE runStore
        /\ UNCHANGED bounds
     \/ Fault /\ UNCHANGED runStore
  /\ UNCHANGED <<serving, want, listed, svars, records, keyOf, bare, lastRun,
                 history, gvars>>

StartPublish(w) ==
  /\ Alive
  /\ Step(w, "startPublish", "create")
  /\ PublishEvent(cur(w), "run_start")
  /\ UNCHANGED <<serving, want, listed, svars, records, runStore, keyOf, bare,
                 lastRun, gvars, bounds>>

\* The two writes of runTracker.Start. When one fails ApplyWithRun returns a zero
\* RunState, whose status is "".
TrackerWrite(w, from, to, status) ==
  /\ Alive
  /\ \/ /\ Step(w, from, to)
        /\ runStore' = [runStore EXCEPT ![cur(w)] = status]
        /\ UNCHANGED bounds
     \/ /\ pc(w) = from
        /\ Move(w, "settle", cur(w), "")
        /\ Fault
        /\ UNCHANGED runStore
  /\ UNCHANGED <<serving, want, listed, svars, records, keyOf, bare, lastRun, history, gvars>>

CreateRun(w) ==
  /\ pc(w) = "create"
  /\ runStore[cur(w)] = "none"
  /\ TrackerWrite(w, "create", "begin", "queued")

BeginRun(w) ==
  /\ pc(w) = "begin"
  /\ ValidateRunTransition(runStore[cur(w)], "running")
  /\ TrackerWrite(w, "begin", "exec", "running")

\* Mutant of Execute: the snapshot returned says canceled when the context is done,
\* whatever the store was told.
ExecuteCtxWins(w) ==
  /\ Alive
  /\ pc(w) = "exec"
  /\ Move(w, "settle", cur(w), IF CtxDone(cur(w)) THEN "canceled" ELSE "success")
  /\ runStore' = [runStore EXCEPT ![cur(w)] = "success"]
  /\ UNCHANGED <<serving, want, listed, svars, records, keyOf, bare, lastRun, history,
                 gvars, bounds>>

\* The executor returns and runTracker.Finish settles the run state: success
\* without an error; with one, canceled when the context is done and failed
\* otherwise. The snapshot carries the status even when the write fails.
Execute(w) ==
  LET r == cur(w) IN
  /\ Alive
  /\ pc(w) = "exec"
  /\ \E status \in {"success", IF CtxDone(r) THEN "canceled" ELSE "failed"} :
       /\ Move(w, "settle", r, status)
       /\ \/ /\ ValidateRunTransition(runStore[r], status)
             /\ runStore' = [runStore EXCEPT ![r] = status]
             /\ UNCHANGED bounds
          \/ Fault /\ UNCHANGED runStore
  /\ UNCHANGED <<serving, want, listed, svars, records, keyOf, bare, lastRun, history, gvars>>

\* processJob's last critical section. The meta gets a status even when the
\* snapshot has none; what is persisted next is enriched with the snapshot.
Settle(w) ==
  LET r      == cur(w)
      status == IF loc(w) # "" THEN loc(w)
                ELSE IF CtxDone(r) THEN "canceled" ELSE "failed" IN
  /\ Alive
  /\ Step(w, "settle", "endRemember")
  /\ metas' = [metas EXCEPT ![r] = status]
  /\ TakeCopy(w, r)
  /\ jobs' = [jobs EXCEPT ![r] = "absent"]
  /\ UNCHANGED <<serving, want, listed, idempotency, ctxDone, queue,
                 sinkNotified, records, runStore, keyOf, bareMetas, bareRecords, lastRun, history,
                 gvars, bounds>>

-------------------------------------------------------------------------------
(* persistMetaAsync, notifyOpsManualRunRecord and the last event, as every *)
(* call that ends a run makes them.                                        *)

\* The first half of persistMetaAsync: the local meta replaces the shared one.
Remember(a, from, to) ==
  /\ Alive
  /\ Step(a, from, to)
  /\ RememberMeta(cur(a), loc(a), cur(a) \in bareCopy[a])
  /\ UNCHANGED <<serving, want, listed, jobs, ctxDone, queue, sinkNotified,
                 records, runStore, keyOf, bareRecords, bareCopy, lastRun, history, gvars, bounds>>

\* The second half: the same meta goes to the record store.
Upsert(a, from, to) ==
  /\ Alive
  /\ Step(a, from, to)
  /\ UpsertRecord(cur(a), loc(a), cur(a) \in bareCopy[a])
  /\ bareCopy' = [bareCopy EXCEPT ![a] = @ \ {cur(a)}]
  /\ UNCHANGED <<serving, want, listed, svars, runStore, keyOf, bareMetas, lastRun,
                 history, gvars>>

PersistMetaAsync(a) ==
  \/ Remember(a, "startRemember", "startUpsert") \/ Upsert(a, "startUpsert", "startPublish")
  \/ Remember(a, "endRemember", "endUpsert")     \/ Upsert(a, "endUpsert", "notify")
  \/ Remember(a, "readRemember", "readUpsert")   \/ Upsert(a, "readUpsert", "reading")

\* notifyOpsManualRunRecord up to the unlock: a terminal run is marked once.
MarkNotified(a, from, to, skip) ==
  LET tell == IsTerminalRunStatus(loc(a)) /\ cur(a) \notin sinkNotified IN
  /\ Alive
  /\ Step(a, from, IF tell THEN to ELSE skip)
  /\ sinkNotified' = IF tell THEN sinkNotified \cup {cur(a)} ELSE sinkNotified
  /\ UNCHANGED <<serving, want, listed, jobs, metas, idempotency, ctxDone,
                 queue, records, runStore, keyOf, bare, lastRun, history, gvars, bounds>>

\* The call to the sink, outside the mutex; its error is only logged.
RecordRun(a, from, to) ==
  /\ Alive
  /\ Step(a, from, to)
  /\ told' = [told EXCEPT ![cur(a)] = Append(@, loc(a))]
  /\ UNCHANGED <<serving, want, listed, svars, records, runStore, keyOf, bare,
                 lastRun, history, acked, preCanceled, rolledBack, bounds>>

NotifyOpsManualRunRecord(a) ==
  \/ MarkNotified(a, "notify", "record", "finishPublish")
  \/ RecordRun(a, "record", "finishPublish")
  \/ MarkNotified(a, "rejNotify", "rejRecord", "idle")
  \/ RecordRun(a, "rejRecord", "idle")

FinishPublish(a) ==
  /\ Alive
  /\ Step(a, "finishPublish", "idle")
  /\ PublishEvent(cur(a), "run_finish")
  /\ UNCHANGED <<serving, want, listed, svars, records, runStore, keyOf, bare,
                 lastRun, gvars, bounds>>

-------------------------------------------------------------------------------
(* The process.                                                            *)

\* Close cancels the worker context and closes the queue.
Close ==
  /\ serving = "up"
  /\ bounds.stops < MaxStops
  /\ bounds' = [bounds EXCEPT !.stops = @ + 1]
  /\ serving' = "closing"
  /\ UNCHANGED <<act, want, listed, svars, records, runStore, keyOf, bare, lastRun,
                 history, gvars>>

\* The process ends: what it kept in memory is gone.
Stop ==
  /\ serving' = "down"
  /\ act' = [a \in Actors |-> Idle]
  /\ want' = [c \in Clients |-> NoKey]
  /\ listed' = [c \in Clients |-> NothingListed]
  /\ jobs' = [r \in Runs |-> "absent"]
  /\ metas' = [r \in Runs |-> "none"]
  /\ idempotency' = [k \in Keys |-> NoRun]
  /\ bareMetas' = {}
  /\ bareCopy' = [a \in Actors |-> {}]
  /\ ctxDone' = {}
  /\ queue' = <<>>
  /\ sinkNotified' = {}
  /\ UNCHANGED <<records, runStore, keyOf, bareRecords, lastRun, history, gvars>>

\* Close has waited for the workers.
Exit ==
  /\ serving = "closing"
  /\ \A w \in Workers : pc(w) = "exited"
  /\ Stop
  /\ UNCHANGED bounds

Crash ==
  /\ Alive
  /\ bounds.stops < MaxStops
  /\ bounds' = [bounds EXCEPT !.stops = @ + 1]
  /\ Stop

\* Mutant of RestoredKeys: the keys are not restored.
RestoredKeysLost(carried, inStore) == {[k \in Keys |-> NoRun]}

\* The run that restoreRecords leaves in idempotency[k]: the records are replayed
\* newest first, so the oldest of them wins; then the runs of the run-state store
\* are, in an order the model leaves open. Only the metas in carried have their key.
RestoredKeys(carried, inStore) ==
  {f \in [Keys -> Runs \cup {NoRun}] :
     \A k \in Keys :
       LET carrying == {r \in carried : keyOf[r] = k}
           running  == carrying \cap inStore IN
       IF running # {} THEN f[k] \in running
       ELSE f[k] = IF carrying # {} THEN Min(carrying) ELSE NoRun}

\* NewRunService: MarkInterruptedRunning, then restoreRecords.
Restart ==
  LET store    == [r \in Runs |-> MarkInterrupted(runStore[r])]
      inStore  == {r \in Runs : store[r] # "none"}
      restored == [r \in Runs |-> IF r \in inStore THEN store[r] ELSE records[r]]
      lost     == {r \in inStore : keyOf[r] # NoKey /\ records[r] = "none"} \cup bareRecords IN
  /\ serving = "down"
  /\ serving' = "up"
  /\ runStore' = store
  /\ metas' = restored
  /\ records' = restored
  /\ bareMetas' = lost
  /\ bareRecords' = lost
  /\ idempotency' \in RestoredKeys({r \in Runs : restored[r] # "none"} \ lost, inStore)
  /\ UNCHANGED <<act, want, listed, jobs, ctxDone, queue, sinkNotified, keyOf, bareCopy,
                 lastRun, history, gvars, bounds>>

-------------------------------------------------------------------------------
ClientStep(c) ==
  \/ SubmitInvalid(c) \/ SubmitReject(c) \/ RememberRejected(c) \/ SubmitAccept(c)
  \/ SubmitRemember(c) \/ SubmitJob(c) \/ SubmitPublish(c)
  \/ EnqueueCheck(c) \/ EnqueueSend(c)
  \/ RollbackJob(c) \/ RollbackForget(c) \/ RollbackDelete(c)
  \/ (\E r \in Runs : GetLookup(c, r)) \/ ListRuns(c) \/ ReadNext(c)

WorkerStep(w) ==
  \/ Dequeue(w) \/ WorkerExit(w) \/ ProcessJob(w) \/ CreateCanceled(w)
  \/ StartPublish(w) \/ CreateRun(w) \/ BeginRun(w) \/ Execute(w) \/ Settle(w)

EndStep(a) == PersistMetaAsync(a) \/ NotifyOpsManualRunRecord(a) \/ FinishPublish(a)

Next ==
  \/ \E c \in Clients : \/ \E k \in Keys \cup {NoKey} : SubmitCheck(c, k)
                        \/ \E r \in Runs : Get(c, r) \/ Cancel(c, r)
                        \/ List(c)
                        \/ ClientStep(c)
  \/ \E w \in Workers : WorkerStep(w)
  \/ \E a \in Actors : EndStep(a)
  \/ Close \/ Exit \/ Crash \/ Restart

Spec == Init /\ [][Next]_vars

\* Workers keep working and a workflow, once started, returns.
FairSpec == Spec /\ \A w \in Workers : WF_vars(WorkerStep(w) \/ EndStep(w))

-------------------------------------------------------------------------------
(* Properties.                                                             *)

\* A cancel that came before the start wins: once Cancel has marked the run, no
\* worker ever executes it and its run state can only become canceled.
CanceledNeverRuns ==
  \A r \in preCanceled : runStore[r] \in {"none", "canceled"}

\* Subscribers never see a run start after it finished: the run_finish that
\* Cancel publishes is not followed by a run_start.
NoStartAfterFinish ==
  \A r \in Runs : \A i, j \in 1..Len(history[r]) :
     (i < j /\ history[r][i] = "run_finish") => history[r][j] # "run_start"

\* The ops-manual sink hears of a run at most once, over Cancel, the worker and any
\* number of restarts, and what it was told is the verdict in the run-state store,
\* as long as no store write was lost.
SinkToldTheVerdict ==
  \A r \in Runs :
     /\ Len(told[r]) <= 1
     /\ (bounds.faults = 0 /\ told[r] # <<>> /\ IsTerminalRunStatus(runStore[r]))
           => told[r][1] = runStore[r]

\* The two stores never hold different verdicts: a stale Get or List may put an
\* older, unfinished status back into a record, but never another verdict.
OneVerdict ==
  bounds.faults = 0 =>
  \A r \in Runs :
     (IsTerminalRunStatus(runStore[r]) /\ IsTerminalRunStatus(records[r]))
        => records[r] = runStore[r]

\* A Submit that failed to enqueue leaves no job, meta or record behind, unless
\* somebody canceled the run before it was undone.
RollbackLeavesNothing ==
  bounds.faults = 0 =>
  \A r \in rolledBack \ preCanceled :
     jobs[r] = "absent" /\ metas[r] = "none" /\ records[r] = "none"

\* No run is stranded while the service is up: a job that waits, canceled or not,
\* is still being submitted, is in the queue, or has been taken by a worker.
NoStrandedJob ==
  serving = "up" =>
  \A r \in Runs :
     jobs[r] \in {"waiting", "canceled"} =>
        \/ \E c \in Clients : cur(c) = r /\ pc(c) \in {"subPublish", "subCheck", "subSend", "rbJob"}
        \/ \E i \in 1..Len(queue) : queue[i] = r
        \/ \E w \in Workers : cur(w) = r /\ pc(w) = "claimed"

\* The idempotency key (TestRunServiceIdempotencyKey and, across a restart,
\* TestRunServiceRestoresMetaAndHistoryAfterRestart): every Submit with the same
\* key returns the same run, as long as no store write was lost and no request
\* refused.
SameKeySameRun ==
  (bounds.faults = 0 /\ bounds.rejects = 0) => \A k \in Keys : Cardinality(acked[k]) <= 1

\* A run that the queue of a running service holds is eventually settled in the
\* run-state store, whatever is canceled or refused around it, unless the service
\* stops or a store write is lost.
QueuedRunsSettle ==
  \A r \in Runs :
     (serving = "up" /\ \E i \in 1..Len(queue) : queue[i] = r)
        ~> (IsTerminalRunStatus(runStore[r]) \/ serving # "up" \/ bounds.faults > 0)

-------------------------------------------------------------------------------
Ledger == INSTANCE RunLedger WITH
            Runs <- Runs, status <- runStore, canceled <- preCanceled,
            withdrawn <- rolledBack, events <- history, told <- told

\* What those who watch a run see keeps the promises of RunLedger: announced before
\* it starts, started at most once and never after a cancel or a finish, one verdict and
\* one finish once started, and one word to the sink that is not another verdict.
ImplementsLedger == Ledger!Spec
===============================================================================
