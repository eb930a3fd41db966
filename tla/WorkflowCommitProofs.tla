------------------------ MODULE WorkflowCommitProofs ------------------------
(***************************************************************************)
(* Proofs about WorkflowCommit, for any number of requests, keys,          *)
(* approvals and outcomes: its safety properties, and that it implements   *)
(* WorkflowRegister.  None of the properties is inductive.  The invariant  *)
(* says in addition what the one open record of the write-ahead log knows  *)
(* (LiveRecord), where the holder of the lock stands in relation to it     *)
(* (HolderStage), that the pointer is about to be switched to a snapshot   *)
(* whose preconditions still hold (SwitchReady), that the copy of the      *)
(* approval file is at most one life-cycle step ahead of the file          *)
(* (CopyFollows), and that the event log ends with the current version or  *)
(* with the one it replaced (ChainEnd).                                    *)
(***************************************************************************)
EXTENDS WorkflowCommit, TLAPS

Delivered == Logged(cur.txn) /\ cur.txn \in queued

\* No manifest means no version, no receipt, no event.
Beginning ==
    /\ cur.gen = 0 <=> cur.txn = None
    /\ cur.gen = 0 => /\ log = <<>>
                      /\ cur.spent = {}
                      /\ \A r \in Requests : cur.ledger[r] = None
    /\ cur.gen > 0 => cur.ledger[cur.txn] # None

\* There is one open record; it is prepared for the next version, and then the
\* current one is delivered, or it knows which confirmations are done.
LiveRecord ==
    /\ \A v, w \in wal : v = w
    /\ \A w \in wal :
         /\ w.snap.gen > 0
         /\ w.state = "prepared" => w.acks = 0
         /\ w.snap # cur => w.state = "prepared" /\ (cur.gen > 0 => Delivered)
         /\ w.snap = cur /\ w.acks >= 2 => Logged(cur.txn)
         /\ w.snap = cur /\ w.acks = 3 => Delivered

\* What the holder of the lock works on.
HolderStage ==
    /\ stage \in {"free", "recover"} => ~ acting
    /\ stage \in {"act", "save", "reply"} => acting
    /\ stage = "act" => wal = {}
    /\ stage \in {"switch", "mark"} => acting /\ rec \in wal /\ rec.state = "prepared"
    /\ stage \in {"mark", "confirm", "ack"} => rec \in wal /\ rec.snap = cur
    /\ stage \in {"confirm", "ack"} => rec.state = "snapshot_committed"
    /\ stage = "ack" => /\ rec.acks < 3
                        /\ rec.acks >= 1 => Logged(cur.txn)
                        /\ rec.acks = 2 => Delivered

\* The calls and their arguments.
Calls ==
    /\ op.kind \in {"commit", "apply", "verify", "settle"} => op.arg \in Requests
    /\ op.kind \in {"issueApproval", "revokeApproval"} => op.arg \in Approvals
    /\ op.kind = "commit" => ApprovalOf[op.arg] = None
    /\ op.kind \in {"apply", "verify"} => ApprovalOf[op.arg] # None
    /\ op.kind = "settle" => op.out \in Outcomes
    /\ \A r \in bound : ApprovalOf[r] # None
    /\ stage = "free" => op = Idle
    /\ acting /\ stage \in {"switch", "mark", "confirm", "ack"} => op.kind \in {"commit", "apply", "settle"}

\* The call's own publication: its receipt is in the snapshot.
OwnReceipt ==
    /\ ~ acting \/ stage = "act" => res = None
    /\ acting /\ stage \in {"mark", "confirm", "ack"} =>
         /\ cur.ledger[op.arg] # None
         /\ op.kind = "apply" => ApprovalOf[op.arg] \in cur.spent
    /\ stage \in {"save", "reply"} /\ res \in Statuses =>
         /\ op.arg \in Requests
         /\ cur.ledger[op.arg] # None
         /\ res \in Outcomes => cur.ledger[op.arg] = res

\* Requests of one approval expect the same version, and an applied request
\* was drafted.
Bases ==
    /\ \A q, r \in Requests :
         ApprovalOf[q] = ApprovalOf[r] /\ ApprovalOf[r] # None => base[q] = base[r]
    /\ \A r \in Requests : cur.ledger[r] # None => base[r] # Undrafted

\* The pointer is switched to a snapshot that is still legal.
SwitchReady ==
    stage = "switch" =>
      /\ cur.gen > 0 => Delivered
      /\ \/ /\ op.kind \in {"commit", "apply"}
            /\ CommitAccepted(op.arg)
            /\ rec.snap = CommitSnapshot(op.arg)
            /\ op.kind = "apply" =>
                 /\ ApprovalOf[op.arg] \notin cur.spent
                 /\ mem.appr[ApprovalOf[op.arg]] = "active"
                 /\ side.appr[ApprovalOf[op.arg]] = "active"
                 /\ side.grant = "active"
         \/ /\ op.kind = "settle"
            /\ cur.txn = op.arg
            /\ cur.ledger[op.arg] = "verifying"
            /\ rec.snap = SettleSnapshot(op.arg, op.out)

\* The copy of the approval file and the file.
Steps == {<<None, "active">>, <<"active", "revoked">>, <<"active", "expired">>}

Follows(s) ==
    /\ \A a \in Approvals :
         /\ \/ s.appr[a] = side.appr[a]
            \/ <<side.appr[a], s.appr[a]>> \in Steps
            \/ s.appr[a] = "consumed"
         /\ a \in cur.spent => s.appr[a] \in {"active", "consumed"}
         /\ s.appr[a] = "consumed" => a \in cur.spent
         /\ side.appr[a] = None /\ s.appr[a] = "active" => side.grant = "active" /\ s.grant = "active"
    /\ s.grant = side.grant \/ <<side.grant, s.grant>> \in Steps

CopyFollows == Follows(mem)

\* The last event and the current version.
LastLogged == IF log = <<>> THEN None ELSE log[Len(log)]

ChainEnd ==
    cur.gen > 0 => IF Logged(cur.txn) THEN cur.txn = LastLogged ELSE base[cur.txn] = LastLogged

IInv == /\ TypeOK /\ Beginning /\ LiveRecord /\ HolderStage /\ Calls /\ OwnReceipt /\ Bases
        /\ SwitchReady /\ CopyFollows /\ RevokedNeverApplied /\ ChainEnd
        /\ EventsFollowTheChain /\ NothingForgotten /\ AckedIsDurable /\ OneRequestPerKey

-----------------------------------------------------------------------------
(* The operators.                                                          *)

LEMMA SnapshotTypes ==
  ASSUME cur \in Snapshots, NEW r \in Requests
  PROVE  /\ CommitSnapshot(r) \in Snapshots
         /\ \A o \in Outcomes : SettleSnapshot(r, o) \in Snapshots
BY RequestAssumption DEF Snapshots, CommitSnapshot, NewStatus, SettleSnapshot, Statuses

LEMMA RecordTypes ==
  /\ \A w \in Records : w.state \in {"prepared", "snapshot_committed"}
                         /\ w.acks \in 0..3 /\ w.snap \in Snapshots
  /\ \A s \in Snapshots : [state |-> "prepared", acks |-> 0, snap |-> s] \in Records
  /\ \A s \in Snapshots, n \in 0..3 :
       [state |-> "snapshot_committed", acks |-> n, snap |-> s] \in Records
BY DEF Records

LEMMA SidecarTypes ==
  /\ side \in Sidecars => Reconciled \in Sidecars
  /\ \A s \in Sidecars :
       /\ \A lapse \in Lapses : Expired(s, lapse[1], lapse[2]) \in Sidecars
       /\ \A v \in States : WithGrant(s, v) \in Sidecars
       /\ \A v \in States, a \in Approvals : WithApproval(s, a, v) \in Sidecars
BY DEF Sidecars, Reconciled, Expired, WithGrant, WithApproval, States, Lapses

-----------------------------------------------------------------------------
(* Types.                                                                  *)

\* A call that decides about the approval file keeps everything else.
LEMMA DecideTypes ==
  ASSUME TypeOK, NEW s \in Sidecars, NEW answer \in Statuses \cup {None, "ok"}, Decide(s, answer)
  PROVE  TypeOK'
BY DEF TypeOK, Decide, disk

LEMMA PreparedTypes ==
  ASSUME TypeOK, NEW snap \in Snapshots, WritePrepared(snap), mem' \in Sidecars
  PROVE  TypeOK'
<1>1. rec' \in Records
  BY RecordTypes DEF WritePrepared
<1> QED BY <1>1 DEF TypeOK, WritePrepared

LEMMA ReleaseTypes ==
  ASSUME Release
  PROVE  /\ stage' \in {"free", "recover", "act", "switch", "mark", "confirm", "ack", "save", "reply"}
         /\ op' \in [kind : Kinds, arg : Requests \cup Approvals \cup {None}, out : Outcomes \cup {None}]
         /\ acting' \in BOOLEAN
         /\ rec' \in Records \cup {NoRec}
         /\ res' \in Statuses \cup {None, "ok"}
BY DEF Release, Idle, Kinds

LEMMA SidecarStepTypes ==
  ASSUME IInv, Sidecar PROVE TypeOK'
<1> USE DEF IInv
<1>1. Reconciled \in Sidecars /\ mem \in Sidecars
  BY SidecarTypes DEF TypeOK
<1>2. \A lapse \in Lapses : Expired(Reconciled, lapse[1], lapse[2]) \in Sidecars
  BY <1>1, SidecarTypes
<1>3. CASE IssueGrant
  <2>1. WithGrant(Reconciled, "active") \in Sidecars
    BY <1>1, SidecarTypes DEF States
  <2> QED BY <1>1, <1>3, <2>1, DecideTypes DEF IssueGrant
<1>4. CASE GetGrant
  BY <1>1, <1>4, DecideTypes DEF GetGrant
<1>5. ASSUME NEW lapse \in Lapses, IssueApplyApproval(lapse) PROVE TypeOK'
  <2> DEFINE s == Expired(Reconciled, lapse[1], lapse[2])
  <2>1. s \in Sidecars /\ op.arg \in Approvals
    BY <1>2, <1>5 DEF IssueApplyApproval, Calls
  <2>2. WithApproval(s, op.arg, "active") \in Sidecars
    BY <2>1, SidecarTypes DEF States
  <2> QED BY <1>5, <2>1, <2>2, DecideTypes DEF IssueApplyApproval
<1>6. ASSUME NEW lapse \in Lapses, RevokeGrant(lapse) PROVE TypeOK'
  <2> DEFINE s == Expired(Reconciled, lapse[1], lapse[2])
  <2>1. s \in Sidecars
    BY <1>2
  <2>2. WithGrant(s, "revoked") \in Sidecars
    BY <2>1, SidecarTypes DEF States
  <2> QED BY <1>6, <2>1, <2>2, DecideTypes DEF RevokeGrant
<1>7. ASSUME NEW lapse \in Lapses, RevokeApplyApproval(lapse) PROVE TypeOK'
  <2> DEFINE s == Expired(Reconciled, lapse[1], lapse[2])
  <2>1. s \in Sidecars /\ op.arg \in Approvals
    BY <1>2, <1>7 DEF RevokeApplyApproval, Calls
  <2>2. WithApproval(s, op.arg, "revoked") \in Sidecars
    BY <2>1, SidecarTypes DEF States
  <2> QED BY <1>7, <2>1, <2>2, DecideTypes DEF RevokeApplyApproval
<1>8. ASSUME NEW lapse \in Lapses, Expire(lapse) PROVE TypeOK'
  BY <1>2, <1>8, DecideTypes DEF Expire
<1>9. ASSUME NEW lapse \in Lapses, VerifyTrustedApplyFacts(lapse) PROVE TypeOK'
  BY <1>2, <1>9, DecideTypes DEF VerifyTrustedApplyFacts
<1>10. ASSUME NEW lapse \in Lapses, ConsumeWithWorkflowCommit(lapse) PROVE TypeOK'
  <2> DEFINE s == Expired(Reconciled, lapse[1], lapse[2])
  <2>1. s \in Sidecars /\ op.arg \in Requests
    BY <1>2, <1>10 DEF ConsumeWithWorkflowCommit, Calls
  <2>2. CASE FactsHold(s, op.arg) /\ CommitAccepted(op.arg)
    <3>1. CommitSnapshot(op.arg) \in Snapshots
      BY <2>1, SnapshotTypes DEF TypeOK
    <3> QED BY <1>10, <2>1, <2>2, <3>1, PreparedTypes DEF ConsumeWithWorkflowCommit
  <2>3. CASE ~ (FactsHold(s, op.arg) /\ CommitAccepted(op.arg))
    <3>1. cur.ledger[op.arg] \in Statuses \cup {None, "ok"}
      BY <2>1 DEF TypeOK, Snapshots
    <3> QED BY <1>10, <2>1, <2>3, <3>1, DecideTypes DEF ConsumeWithWorkflowCommit
  <2> QED BY <2>2, <2>3
<1> QED
  BY <1>3, <1>4, <1>5, <1>6, <1>7, <1>8, <1>9, <1>10 DEF Sidecar

LEMMA CallerStepTypes ==
  ASSUME IInv, Callers PROVE TypeOK'
<1> USE DEF IInv
<1>1. ASSUME NEW r \in Requests, Draft(r) PROVE TypeOK'
  BY <1>1 DEF TypeOK, Draft, disk, Snapshots
<1>2. ASSUME NEW r \in Requests, ReplayRead(r) PROVE TypeOK'
  BY <1>2 DEF TypeOK, ReplayRead, disk, Snapshots
<1>3. CASE ReconcileOutbox
  BY <1>3 DEF TypeOK, ReconcileOutbox
<1>4. ASSUME NEW kind \in Kinds, NEW arg \in Requests \cup Approvals \cup {None},
             NEW out \in Outcomes \cup {None}, Begin(kind, arg, out), bound' \subseteq Requests
      PROVE  TypeOK'
  BY <1>4 DEF TypeOK, Begin, disk
<1>5. bound \subseteq Requests
  BY DEF TypeOK
<1>6. ASSUME NEW r \in Requests, BeginCommit(r) \/ BeginVerify(r) \/ BeginApply(r) PROVE TypeOK'
  BY <1>4, <1>5, <1>6 DEF BeginCommit, BeginVerify, BeginApply, Kinds
<1>7. ASSUME NEW r \in Requests, NEW o \in Outcomes, BeginSettle(r, o) PROVE TypeOK'
  BY <1>4, <1>5, <1>7 DEF BeginSettle, Kinds
<1>8. ASSUME NEW a \in Approvals, BeginIssueApproval(a) \/ BeginRevokeApproval(a) PROVE TypeOK'
  BY <1>4, <1>5, <1>8 DEF BeginIssueApproval, BeginRevokeApproval, Kinds
<1>9. ASSUME NEW kind \in {"issueGrant", "revokeGrant", "get", "expire", "recover"}, BeginGrant(kind)
      PROVE  TypeOK'
  BY <1>4, <1>5, <1>9 DEF BeginGrant, Kinds
<1> QED
  BY <1>1, <1>2, <1>3, <1>6, <1>7, <1>8, <1>9 DEF Callers

LEMMA OtherStepTypes ==
  ASSUME IInv, Recovery \/ Transaction \/ Fail \/ Crash PROVE TypeOK'
<1> USE DEF IInv
<1>1. ASSUME NEW w \in wal, DiscardPrepared(w) PROVE TypeOK'
  BY <1>1 DEF TypeOK, DiscardPrepared
<1>2. ASSUME NEW w \in wal, ResumeSwitched(w) PROVE TypeOK'
  <2>1. rec' \in Records
    BY <1>2, RecordTypes DEF TypeOK, ResumeSwitched
  <2> QED BY <1>2, <2>1 DEF TypeOK, ResumeSwitched
<1>3. CASE RecoveryDone
  BY <1>3 DEF TypeOK, RecoveryDone, disk
<1>4. CASE CommitDirect
  <2>1. op.arg \in Requests
    BY <1>4 DEF CommitDirect, Calls
  <2>2. CommitSnapshot(op.arg) \in Snapshots /\ cur.ledger[op.arg] \in Statuses \cup {None}
    BY <2>1, SnapshotTypes DEF TypeOK, Snapshots
  <2>3. CASE CommitAccepted(op.arg)
    BY <1>4, <2>2, <2>3, PreparedTypes DEF CommitDirect, TypeOK
  <2>4. CASE ~ CommitAccepted(op.arg)
    BY <1>4, <2>2, <2>4 DEF CommitDirect, TypeOK, disk
  <2> QED BY <2>3, <2>4
<1>5. CASE UpdateReceiptLifecycle
  <2>1. op.arg \in Requests /\ op.out \in Outcomes
    BY <1>5 DEF UpdateReceiptLifecycle, Calls
  <2>2. SettleSnapshot(op.arg, op.out) \in Snapshots /\ op.out \in Statuses
    BY <2>1, SnapshotTypes DEF TypeOK, Statuses
  <2>3. CASE cur.txn = op.arg /\ cur.ledger[op.arg] = "verifying"
    BY <1>5, <2>2, <2>3, PreparedTypes DEF UpdateReceiptLifecycle, TypeOK
  <2>4. CASE ~ (cur.txn = op.arg /\ cur.ledger[op.arg] = "verifying")
    BY <1>5, <2>2, <2>4 DEF UpdateReceiptLifecycle, TypeOK, disk
  <2> QED BY <2>3, <2>4
<1>6. CASE Recover
  BY <1>6 DEF TypeOK, Recover, disk
<1>7. CASE SwitchPointer
  <2>1. rec \in Records
    BY <1>7 DEF SwitchPointer, HolderStage, TypeOK
  <2> QED BY <1>7, <2>1, RecordTypes DEF TypeOK, SwitchPointer
<1>8. CASE MarkSnapshotCommitted
  <2>1. rec \in Records
    BY <1>8 DEF MarkSnapshotCommitted, HolderStage, TypeOK
  <2>2. rec' \in Records
    BY <1>8, <2>1, RecordTypes DEF MarkSnapshotCommitted, PersistRecord
  <2> QED BY <1>8, <2>2 DEF TypeOK, MarkSnapshotCommitted, PersistRecord
<1>9. CASE Confirm
  <2>1. rec.snap.txn \in Requests
    BY <1>9 DEF Confirm, HolderStage, Beginning, LiveRecord, TypeOK, Snapshots
  <2>2. Materialized \in Seq(Requests)
    BY <2>1 DEF TypeOK, Materialized
  <2> QED BY <1>9, <2>1, <2>2 DEF TypeOK, Confirm
<1>10. CASE Ack
  <2>1. rec \in Records /\ rec.state = "snapshot_committed" /\ rec.acks < 3
    BY <1>10 DEF Ack, HolderStage, TypeOK
  <2>2. rec.acks + 1 \in 0..3
    BY <2>1, RecordTypes
  <2>3. rec' \in Records
    BY <1>10, <2>1, <2>2, RecordTypes DEF Ack, PersistRecord
  <2> QED BY <1>10, <2>3 DEF TypeOK, Ack, PersistRecord
<1>11. CASE MarkCommitted
  <2>1. acting => op.arg \in Requests /\ (op.kind = "apply" => ApprovalOf[op.arg] \in Approvals)
    BY <1>11, RequestAssumption DEF MarkCommitted, Calls
  <2>2. acting => cur.ledger[op.arg] \in Statuses \cup {None}
    BY <2>1 DEF TypeOK, Snapshots
  <2>3. mem' \in Sidecars
    BY <1>11, <2>1, SidecarTypes DEF MarkCommitted, TypeOK, States
  <2> QED BY <1>11, <2>2, <2>3 DEF TypeOK, MarkCommitted
<1>12. CASE SaveSidecar
  BY <1>12 DEF TypeOK, SaveSidecar
<1>13. CASE Reply
  <2>1. res \in Statuses => op.arg \in Requests
    BY <1>13 DEF Reply, OwnReceipt
  <2>2. op.kind = "verify" => op.arg \in Requests
    BY DEF Calls
  <2>3. bound' \subseteq Requests /\ told' \in [Requests -> Statuses \cup {None}]
    BY <1>13, <2>1, <2>2 DEF Reply, TypeOK
  <2> QED BY <1>13, <2>3, ReleaseTypes DEF TypeOK, Reply, disk
<1>14. CASE Fail
  <2>1. CASE Publishing /\ op.kind = "apply"
    BY <1>14, <2>1 DEF TypeOK, Fail, disk
  <2>2. CASE ~ (Publishing /\ op.kind = "apply")
    BY <1>14, <2>2, ReleaseTypes DEF TypeOK, Fail, disk
  <2> QED BY <2>1, <2>2
<1>15. CASE Crash
  BY <1>15, ReleaseTypes DEF TypeOK, Crash, disk
<1> QED
  BY <1>1, <1>2, <1>3, <1>4, <1>5, <1>6, <1>7, <1>8, <1>9, <1>10, <1>11, <1>12, <1>13, <1>14, <1>15
  DEF Recovery, Transaction

LEMMA StutterTypes ==
  ASSUME TypeOK, UNCHANGED vars PROVE TypeOK'
BY DEF TypeOK, vars

LEMMA StepTypes ==
  ASSUME IInv, [Next]_vars PROVE TypeOK'
BY SidecarStepTypes, CallerStepTypes, OtherStepTypes, StutterTypes DEF Next, IInv

-----------------------------------------------------------------------------
(* What can change the disk, the bases and the receipts that were told.    *)

Prepares == \E snap \in Snapshots : /\ stage = "act"
                                    /\ snap.gen = cur.gen + 1
                                    /\ WritePrepared(snap)

LEMMA PreparesNext ==
  ASSUME IInv, CommitDirect \/ UpdateReceiptLifecycle \/ \E lapse \in Lapses : ConsumeWithWorkflowCommit(lapse)
  PROVE  Prepares \/ UNCHANGED disk
<1> USE DEF IInv
<1>1. \A r \in Requests : /\ CommitSnapshot(r) \in Snapshots /\ CommitSnapshot(r).gen = cur.gen + 1
                          /\ \A o \in Outcomes : /\ SettleSnapshot(r, o) \in Snapshots
                                                 /\ SettleSnapshot(r, o).gen = cur.gen + 1
  BY SnapshotTypes DEF TypeOK, CommitSnapshot, NewStatus, SettleSnapshot
<1>2. CASE CommitDirect
  BY <1>1, <1>2 DEF CommitDirect, Calls, Prepares
<1>3. CASE UpdateReceiptLifecycle
  BY <1>1, <1>3 DEF UpdateReceiptLifecycle, Calls, Prepares
<1>4. ASSUME NEW lapse \in Lapses, ConsumeWithWorkflowCommit(lapse) PROVE Prepares \/ UNCHANGED disk
  BY <1>1, <1>4 DEF ConsumeWithWorkflowCommit, Calls, Prepares, Decide
<1> QED BY <1>2, <1>3, <1>4

LEMMA Moves ==
  ASSUME IInv, [Next]_vars
  PROVE  /\ cur' = cur \/ SwitchPointer
         /\ log' = log \/ Confirm
         /\ queued' = queued \/ Confirm \/ ReconcileOutbox
         /\ base' = base \/ \E r \in Requests : Draft(r)
         /\ side' = side \/ SaveSidecar
         /\ told' = told \/ Reply \/ \E r \in Requests : ReplayRead(r)
         /\ \/ wal' = wal
            \/ \E w \in wal : DiscardPrepared(w) \/ ResumeSwitched(w)
            \/ Prepares \/ MarkSnapshotCommitted \/ Ack \/ MarkCommitted
<1>1. CASE Callers
  BY <1>1 DEF Callers, Draft, ReplayRead, ReconcileOutbox, Begin, BeginCommit, BeginVerify, BeginApply,
              BeginSettle, BeginIssueApproval, BeginRevokeApproval, BeginGrant, disk
<1>2. CASE Recovery
  BY <1>2 DEF Recovery, DiscardPrepared, ResumeSwitched, RecoveryDone, disk
<1>3. CASE Sidecar
  <2>1. CASE \E lapse \in Lapses : ConsumeWithWorkflowCommit(lapse)
    <3>1. Prepares \/ UNCHANGED disk
      BY <2>1, PreparesNext
    <3>2. UNCHANGED <<cur, log, queued, side, base, told>>
      BY <2>1 DEF ConsumeWithWorkflowCommit, WritePrepared, Decide, disk
    <3> QED BY <3>1, <3>2 DEF disk
  <2>2. CASE ~ \E lapse \in Lapses : ConsumeWithWorkflowCommit(lapse)
    BY <1>3, <2>2 DEF Sidecar, IssueGrant, GetGrant, IssueApplyApproval, RevokeGrant, RevokeApplyApproval,
                      Expire, VerifyTrustedApplyFacts, Decide, disk
  <2> QED BY <2>1, <2>2
<1>4. CASE Transaction
  <2>1. CASE CommitDirect \/ UpdateReceiptLifecycle
    <3>1. Prepares \/ UNCHANGED disk
      BY <2>1, PreparesNext
    <3>2. UNCHANGED <<cur, log, queued, side, base, told>>
      BY <2>1 DEF CommitDirect, UpdateReceiptLifecycle, WritePrepared, disk
    <3> QED BY <3>1, <3>2 DEF disk
  <2>2. CASE ~ (CommitDirect \/ UpdateReceiptLifecycle)
    BY <1>4, <2>2 DEF Transaction, Recover, SwitchPointer, MarkSnapshotCommitted, Confirm, Ack, MarkCommitted,
                      SaveSidecar, Reply, disk
  <2> QED BY <2>1, <2>2
<1>5. CASE Fail \/ Crash
  BY <1>5 DEF Fail, Crash, Release, disk
<1>6. CASE UNCHANGED vars
  BY <1>6 DEF vars
<1> QED
  BY <1>1, <1>2, <1>3, <1>4, <1>5, <1>6 DEF Next

\* The commit point: a commit of a new request, or the settlement of the
\* current one.
LEMMA SwitchEffect ==
  ASSUME IInv, SwitchPointer
  PROVE  /\ op.arg \in Requests /\ rec \in wal /\ cur' = rec.snap
         /\ cur'.txn = op.arg /\ cur'.gen = cur.gen + 1 /\ cur'.ledger[op.arg] # None
         /\ \A q \in Requests \ {op.arg} : cur'.ledger[q] = cur.ledger[q]
         /\ cur.gen > 0 => Delivered
         /\ \/ /\ op.kind \in {"commit", "apply"}
               /\ CommitAccepted(op.arg)
               /\ cur'.ledger[op.arg] = NewStatus(op.arg)
               /\ cur'.spent = cur.spent \cup ({ApprovalOf[op.arg]} \ {None})
            \/ /\ op.kind = "settle"
               /\ cur.txn = op.arg /\ cur.ledger[op.arg] = "verifying"
               /\ cur'.ledger[op.arg] \in Outcomes
               /\ cur'.spent = cur.spent
<1> USE DEF IInv
<1>1. stage = "switch" /\ cur' = rec.snap
  BY DEF SwitchPointer
<1>2. acting /\ rec \in wal
  BY <1>1 DEF HolderStage
<1>3. cur \in Snapshots
  BY DEF TypeOK
<1>4. CASE op.kind \in {"commit", "apply"} /\ CommitAccepted(op.arg) /\ rec.snap = CommitSnapshot(op.arg)
  <2>1. op.arg \in Requests
    BY <1>4 DEF Calls
  <2> QED BY <1>1, <1>2, <1>3, <1>4, <2>1, OutcomeAssumption DEF CommitSnapshot, NewStatus, SwitchReady, Snapshots
<1>5. CASE /\ op.kind = "settle" /\ cur.txn = op.arg /\ cur.ledger[op.arg] = "verifying"
           /\ rec.snap = SettleSnapshot(op.arg, op.out)
  <2>1. op.arg \in Requests /\ op.out \in Outcomes
    BY <1>5 DEF Calls
  <2> QED BY <1>1, <1>2, <1>3, <1>5, <2>1, OutcomeAssumption DEF SettleSnapshot, SwitchReady, Snapshots
<1> QED BY <1>1, <1>4, <1>5 DEF SwitchReady

LEMMA ConfirmEffect ==
  ASSUME IInv, Confirm
  PROVE  /\ cur.gen > 0 /\ cur.txn \in Requests /\ UNCHANGED <<cur, wal, base>>
         /\ log' = log \/ (~ Logged(cur.txn) /\ log' = Append(log, cur.txn))
         /\ rec.acks > 0 => Logged(cur.txn)'
         /\ \A t \in Requests : Logged(t) => Logged(t)'
         /\ queued' = IF rec.acks = 2 THEN queued \cup {cur.txn} ELSE queued
<1> USE DEF IInv
<1>1. rec \in wal /\ rec.snap = cur
  BY DEF Confirm, HolderStage
<1>2. cur.gen > 0 /\ cur.txn \in Requests
  BY <1>1 DEF LiveRecord, Beginning, TypeOK, Snapshots
<1>3. log' = log \/ (~ Logged(cur.txn) /\ log' = Append(log, cur.txn))
  BY <1>1 DEF Confirm, Materialized
<1>4. log \in Seq(Requests)
  BY DEF TypeOK
<1>5. \A t \in Requests : Logged(t) => \E i \in DOMAIN log' : log'[i] = t
  BY <1>2, <1>3, <1>4 DEF Logged
<1>6. rec.acks > 0 => \E i \in DOMAIN log' : log'[i] = cur.txn
  <2>1. CASE Logged(cur.txn)
    BY <2>1, <1>2, <1>5
  <2>2. CASE ~ Logged(cur.txn) /\ rec.acks > 0
    <3>1. log' = Append(log, cur.txn)
      BY <1>1, <2>2 DEF Confirm, Materialized
    <3>2. Len(log) + 1 \in DOMAIN log' /\ log'[Len(log) + 1] = cur.txn
      BY <1>2, <1>4, <3>1
    <3> QED BY <3>2
  <2> QED BY <2>1, <2>2
<1> QED BY <1>1, <1>2, <1>3, <1>5, <1>6 DEF Confirm, Logged

\* A drafted request keeps its base.
LEMMA DraftKeeps ==
  ASSUME IInv, [Next]_vars, NEW q \in Requests, base[q] # Undrafted
  PROVE  base'[q] = base[q]
<1>1. ASSUME NEW r \in Requests, Draft(r) PROVE base'[q] = base[q]
  BY <1>1 DEF Draft, IInv, Bases
<1> QED BY <1>1, Moves

-----------------------------------------------------------------------------
(* The parts of the invariant about the disk.                              *)

LEMMA StepBeginning ==
  ASSUME IInv, [Next]_vars PROVE Beginning'
<1> USE DEF IInv
<1>1. CASE SwitchPointer
  <2>1. log' = log
    BY <1>1 DEF SwitchPointer
  <2> QED BY <1>1, <2>1, SwitchEffect, RequestAssumption DEF Beginning, TypeOK, Snapshots
<1>2. CASE Confirm
  BY <1>2, ConfirmEffect DEF Beginning, TypeOK, Snapshots
<1>3. CASE cur' = cur /\ log' = log
  BY <1>3 DEF Beginning
<1> QED BY <1>1, <1>2, <1>3, Moves DEF SwitchPointer

LEMMA StepBases ==
  ASSUME IInv, [Next]_vars PROVE Bases'
<1> USE DEF IInv
<1>1. \A q, r \in Requests : ApprovalOf[q] = ApprovalOf[r] /\ ApprovalOf[r] # None => base'[q] = base'[r]
  <2>1. ASSUME NEW d \in Requests, Draft(d), NEW q \in Requests, NEW r \in Requests,
               ApprovalOf[q] = ApprovalOf[r], ApprovalOf[r] # None
        PROVE  base'[q] = base'[r]
    BY <2>1 DEF Draft, Bases
  <2> QED BY <2>1, Moves DEF Bases
<1>2. \A r \in Requests : cur'.ledger[r] # None => base[r] # Undrafted
  <2>1. CASE SwitchPointer
    <3>1. CommitAccepted(op.arg) => base[op.arg] # Undrafted
      BY RequestAssumption DEF CommitAccepted, TypeOK, Snapshots, Undrafted
    <3>2. cur.ledger[op.arg] = "verifying" /\ op.arg \in Requests => base[op.arg] # Undrafted
      BY OutcomeAssumption DEF Bases
    <3> QED BY <2>1, <3>1, <3>2, SwitchEffect DEF Bases
  <2>2. CASE cur' = cur
    BY <2>2 DEF Bases
  <2> QED BY <2>1, <2>2, Moves
<1>3. \A r \in Requests : cur'.ledger[r] # None => base'[r] # Undrafted
  BY <1>2, DraftKeeps
<1> QED BY <1>1, <1>3 DEF Bases

\* What is delivered stays delivered while the version is current.
LEMMA DeliveredStays ==
  ASSUME IInv, [Next]_vars, cur' = cur, cur.gen > 0
  PROVE  /\ Delivered => Delivered'
         /\ Logged(cur.txn) => Logged(cur.txn)'
<1> USE DEF IInv
<1>1. cur.txn \in Requests
  BY DEF Beginning, TypeOK, Snapshots
<1>2. CASE Confirm
  BY <1>1, <1>2, ConfirmEffect DEF Delivered, Logged
<1>3. CASE ReconcileOutbox
  BY <1>1, <1>3 DEF ReconcileOutbox, Delivered, Logged
<1>4. CASE log' = log /\ queued' = queued
  BY <1>4 DEF Delivered, Logged
<1> QED BY <1>2, <1>3, <1>4, Moves DEF ReconcileOutbox

LEMMA StepLiveRecord ==
  ASSUME IInv, [Next]_vars PROVE LiveRecord'
<1> USE DEF IInv
<1>1. CASE SwitchPointer
  <2>1. UNCHANGED <<wal, log, queued>> /\ rec \in wal /\ rec.state = "prepared" /\ cur' = rec.snap
    BY <1>1 DEF SwitchPointer, HolderStage
  <2>2. wal = {rec} /\ rec.acks = 0 /\ rec.snap.gen > 0
    BY <2>1 DEF LiveRecord
  <2> QED BY <2>1, <2>2 DEF LiveRecord
<1>2. CASE wal' = wal /\ cur' = cur
  <2>1. \A w \in wal : w.snap = cur => cur.gen > 0
    BY DEF LiveRecord
  <2> QED BY <1>2, <2>1, DeliveredStays DEF LiveRecord
<1>3. ASSUME NEW w \in wal, DiscardPrepared(w) PROVE LiveRecord'
  BY <1>3 DEF DiscardPrepared, LiveRecord, Delivered, Logged
<1>4. ASSUME NEW w \in wal, ResumeSwitched(w) PROVE LiveRecord'
  <2>1. wal' = {rec'} /\ UNCHANGED <<cur, log, queued>> /\ w.snap = cur /\ cur.gen > 0
    BY <1>4 DEF ResumeSwitched, PointerSwitched, LiveRecord
  <2>2. rec'.state = "snapshot_committed" /\ rec'.acks = w.acks /\ rec'.snap = cur
    BY <1>4, <2>1 DEF ResumeSwitched
  <2> QED BY <2>1, <2>2 DEF LiveRecord, Delivered, Logged
<1>5. CASE Prepares
  <2>1. PICK snap \in Snapshots : stage = "act" /\ snap.gen = cur.gen + 1 /\ WritePrepared(snap)
    BY <1>5 DEF Prepares
  <2>2. wal' = {rec'} /\ UNCHANGED <<cur, log, queued>>
    BY <2>1 DEF WritePrepared, HolderStage
  <2>3. rec'.state = "prepared" /\ rec'.acks = 0 /\ rec'.snap = snap
    BY <2>1 DEF WritePrepared
  <2>4. snap.gen > 0 /\ snap # cur
    BY <2>1 DEF TypeOK, Snapshots
  <2>5. cur.gen > 0 => Delivered
    BY <2>1 DEF NothingForgotten, HolderStage, Delivered
  <2> QED BY <2>2, <2>3, <2>4, <2>5 DEF LiveRecord, Delivered, Logged
<1>6. CASE MarkSnapshotCommitted
  <2>1. wal' = {rec'} /\ UNCHANGED <<cur, log, queued>>
    BY <1>6 DEF MarkSnapshotCommitted, PersistRecord, HolderStage, LiveRecord
  <2>2. rec'.state = "snapshot_committed" /\ rec'.acks = 0 /\ rec'.snap = cur /\ cur.gen > 0
    BY <1>6 DEF MarkSnapshotCommitted, PersistRecord, HolderStage, LiveRecord
  <2> QED BY <2>1, <2>2 DEF LiveRecord, Delivered, Logged
<1>7. CASE Ack
  <2>1. wal' = {rec'} /\ UNCHANGED <<cur, log, queued>>
    BY <1>7 DEF Ack, PersistRecord, HolderStage, LiveRecord
  <2>2. rec'.state = "snapshot_committed" /\ rec'.acks = rec.acks + 1 /\ rec'.snap = cur /\ cur.gen > 0
    BY <1>7 DEF Ack, PersistRecord, HolderStage, LiveRecord
  <2>3. rec.acks \in 0..3
    BY <1>7, RecordTypes DEF Ack, HolderStage, TypeOK
  <2> QED BY <1>7, <2>1, <2>2, <2>3 DEF LiveRecord, Delivered, Logged, Ack, HolderStage
<1>8. CASE MarkCommitted
  <2>1. wal' = {}
    BY <1>8 DEF MarkCommitted, HolderStage, LiveRecord
  <2> QED BY <2>1 DEF LiveRecord
<1> QED BY <1>1, <1>2, <1>3, <1>4, <1>5, <1>6, <1>7, <1>8, Moves

LEMMA StepNothingForgotten ==
  ASSUME IInv, [Next]_vars PROVE NothingForgotten'
<1> USE DEF IInv
<1>1. CASE SwitchPointer
  BY <1>1, SwitchEffect DEF SwitchPointer, NothingForgotten
<1>2. CASE wal' = wal /\ cur' = cur
  BY <1>2, DeliveredStays DEF NothingForgotten, Delivered, Logged
<1>3. ASSUME NEW w \in wal, DiscardPrepared(w) PROVE NothingForgotten'
  BY <1>3 DEF DiscardPrepared, PointerSwitched, LiveRecord, NothingForgotten, Logged
<1>4. ASSUME NEW w \in wal, ResumeSwitched(w) PROVE NothingForgotten'
  <2>1. rec' \in wal' /\ rec'.snap = cur /\ cur' = cur
    BY <1>4 DEF ResumeSwitched, PointerSwitched
  <2> QED BY <2>1 DEF NothingForgotten
<1>5. CASE Prepares
  BY <1>5 DEF Prepares, WritePrepared, NothingForgotten, Logged
<1>6. CASE MarkSnapshotCommitted \/ Ack
  <2>1. rec' \in wal' /\ rec'.snap = cur /\ cur' = cur
    BY <1>6 DEF MarkSnapshotCommitted, Ack, PersistRecord, HolderStage
  <2> QED BY <2>1 DEF NothingForgotten
<1>7. CASE MarkCommitted
  <2>1. Delivered /\ UNCHANGED <<cur, log, queued>>
    BY <1>7 DEF MarkCommitted, HolderStage, LiveRecord
  <2> QED BY <2>1 DEF NothingForgotten, Delivered, Logged
<1> QED BY <1>1, <1>2, <1>3, <1>4, <1>5, <1>6, <1>7, Moves

LEMMA StepRevokedNeverApplied ==
  ASSUME IInv, [Next]_vars PROVE RevokedNeverApplied'
<1> USE DEF IInv
<1>1. CASE SwitchPointer
  <2>1. side' = side
    BY <1>1 DEF SwitchPointer
  <2>2. CASE cur'.spent = cur.spent
    BY <2>1, <2>2 DEF RevokedNeverApplied
  <2>3. CASE op.kind = "apply" /\ cur'.spent = cur.spent \cup ({ApprovalOf[op.arg]} \ {None})
    <3>1. side.appr[ApprovalOf[op.arg]] = "active"
      BY <1>1, <2>3 DEF SwitchPointer, SwitchReady
    <3> QED BY <2>1, <2>3, <3>1 DEF RevokedNeverApplied
  <2>4. CASE op.kind = "commit" /\ cur'.spent = cur.spent \cup ({ApprovalOf[op.arg]} \ {None})
    BY <2>1, <2>4 DEF RevokedNeverApplied, Calls
  <2> QED BY <1>1, <2>2, <2>3, <2>4, SwitchEffect
<1>2. CASE SaveSidecar
  BY <1>2 DEF SaveSidecar, CopyFollows, Follows, RevokedNeverApplied
<1>3. CASE cur' = cur /\ side' = side
  BY <1>3 DEF RevokedNeverApplied
<1> QED BY <1>1, <1>2, <1>3, Moves DEF SaveSidecar

LEMMA StepOneRequestPerKey ==
  ASSUME IInv, [Next]_vars PROVE OneRequestPerKey'
<1> USE DEF IInv
<1>1. CASE SwitchPointer
  <2>1. CASE CommitAccepted(op.arg)
    <3>1. \A q \in Requests : KeyOf[q] = KeyOf[op.arg] => cur.ledger[q] = None
      BY <2>1 DEF CommitAccepted, KeyUsed
    <3> QED BY <1>1, <3>1, SwitchEffect DEF OneRequestPerKey
  <2>2. CASE cur.ledger[op.arg] = "verifying"
    BY <1>1, <2>2, SwitchEffect, OutcomeAssumption DEF OneRequestPerKey
  <2> QED BY <1>1, <2>1, <2>2, SwitchEffect
<1>2. CASE cur' = cur
  BY <1>2 DEF OneRequestPerKey
<1> QED BY <1>1, <1>2, Moves

LEMMA StepAckedIsDurable ==
  ASSUME IInv, [Next]_vars PROVE AckedIsDurable'
<1> USE DEF IInv
<1>1. CASE SwitchPointer
  <2>1. told' = told
    BY <1>1 DEF SwitchPointer
  <2>2. CASE CommitAccepted(op.arg)
    <3>1. told[op.arg] = None
      BY <1>1, <2>2, SwitchEffect DEF CommitAccepted, KeyUsed, AckedIsDurable
    <3> QED BY <1>1, <2>1, <3>1, SwitchEffect, OutcomeAssumption DEF AckedIsDurable
  <2>3. CASE cur.ledger[op.arg] = "verifying"
    <3>1. told[op.arg] \notin Outcomes
      BY <1>1, <2>3, SwitchEffect, OutcomeAssumption DEF AckedIsDurable
    <3> QED BY <1>1, <2>1, <3>1, SwitchEffect DEF AckedIsDurable
  <2> QED BY <1>1, <2>2, <2>3, SwitchEffect
<1>2. CASE Reply
  <2>1. cur' = cur
    BY <1>2 DEF Reply, disk
  <2>2. CASE res \in Statuses
    <3>1. op.arg \in Requests /\ cur.ledger[op.arg] # None /\ (res \in Outcomes => cur.ledger[op.arg] = res)
      BY <1>2, <2>2 DEF Reply, OwnReceipt
    <3> QED BY <1>2, <2>1, <2>2, <3>1 DEF Reply, AckedIsDurable, TypeOK
  <2>3. CASE res \notin Statuses
    BY <1>2, <2>1, <2>3 DEF Reply, AckedIsDurable
  <2> QED BY <2>2, <2>3
<1>3. ASSUME NEW r \in Requests, ReplayRead(r) PROVE AckedIsDurable'
  BY <1>3 DEF ReplayRead, disk, AckedIsDurable, TypeOK
<1>4. CASE cur' = cur /\ told' = told
  BY <1>4 DEF AckedIsDurable
<1> QED BY <1>1, <1>2, <1>3, <1>4, Moves DEF Reply, ReplayRead, disk

\* The event log keeps its order.
LEMMA StepEvents ==
  ASSUME IInv, [Next]_vars PROVE EventsFollowTheChain'
<1> USE DEF IInv
<1>1. log \in Seq(Requests)
  BY DEF TypeOK
<1>2. \A i \in 1..Len(log) : base'[log[i]] = base[log[i]]
  BY <1>1, DraftKeeps DEF EventsFollowTheChain, Bases
<1>3. CASE Confirm
  <2>1. CASE log' = log
    BY <1>1, <1>3, <2>1, ConfirmEffect DEF EventsFollowTheChain, Logged
  <2>2. CASE ~ Logged(cur.txn) /\ log' = Append(log, cur.txn)
    <3>1. base[cur.txn] = LastLogged /\ cur.ledger[cur.txn] # None /\ cur.txn \in Requests
      BY <1>3, <2>2, ConfirmEffect DEF ChainEnd, Beginning
    <3>2. Len(log') = Len(log) + 1 /\ \A i \in 1..Len(log) : log'[i] = log[i]
      BY <1>1, <2>2, <3>1
    <3>3. log'[Len(log) + 1] = cur.txn
      BY <1>1, <2>2, <3>1
    <3>4. \A i \in 1..Len(log') : base'[log'[i]] = IF i = 1 THEN None ELSE log'[i - 1]
      <4> TAKE i \in 1..Len(log')
      <4>1. CASE i \in 1..Len(log)
        <5>1. base[log[i]] = IF i = 1 THEN None ELSE log[i - 1]
          BY <4>1 DEF EventsFollowTheChain
        <5>2. i # 1 => i - 1 \in 1..Len(log)
          BY <1>1, <4>1
        <5> QED BY <1>2, <3>2, <4>1, <5>1, <5>2
      <4>2. CASE i = Len(log) + 1
        <5>1. log = <<>> <=> Len(log) = 0
          BY <1>1
        <5>2. i # 1 => i - 1 \in 1..Len(log) /\ i - 1 = Len(log)
          BY <1>1, <4>2
        <5>3. base'[cur.txn] = base[cur.txn]
          BY <1>3, ConfirmEffect
        <5> QED BY <1>1, <3>1, <3>2, <3>3, <4>2, <5>1, <5>2, <5>3 DEF LastLogged
      <4> QED BY <1>1, <3>2, <4>1, <4>2
    <3>5. cur' = cur /\ \A r \in Requests : Logged(r) => \E i \in DOMAIN log' : log'[i] = r
      BY <1>3, ConfirmEffect DEF Logged
    <3>6. \A i \in DOMAIN log' : cur.ledger[log'[i]] # None
      BY <1>1, <3>1, <3>2, <3>3, <2>2 DEF EventsFollowTheChain
    <3> QED BY <3>4, <3>5, <3>6 DEF EventsFollowTheChain, Logged
  <2> QED BY <1>3, <2>1, <2>2, ConfirmEffect
<1>4. CASE log' = log
  <2>1. \A i \in DOMAIN log : cur'.ledger[log[i]] # None
    BY <1>1, SwitchEffect, Moves DEF EventsFollowTheChain
  <2>2. \A r \in Requests : cur'.ledger[r] # None => Logged(r) \/ r = cur'.txn
    <3>1. CASE SwitchPointer
      <4>1. \A r \in Requests : cur.ledger[r] # None => Logged(r)
        BY <3>1, SwitchEffect DEF EventsFollowTheChain, Delivered, Beginning, TypeOK, Snapshots
      <4> QED BY <3>1, <4>1, SwitchEffect
    <3>2. CASE cur' = cur
      BY <3>2 DEF EventsFollowTheChain
    <3> QED BY <3>1, <3>2, Moves
  <2> QED BY <1>2, <1>4, <2>1, <2>2 DEF EventsFollowTheChain, Logged
<1> QED BY <1>3, <1>4, Moves

LEMMA StepChainEnd ==
  ASSUME IInv, [Next]_vars PROVE ChainEnd'
<1> USE DEF IInv
<1>1. log \in Seq(Requests) /\ cur \in Snapshots
  BY DEF TypeOK
<1>2. CASE SwitchPointer
  <2>1. log' = log /\ base' = base
    BY <1>2 DEF SwitchPointer
  <2>2. CASE CommitAccepted(op.arg)
    <3>1. ~ Logged(op.arg)
      BY <1>2, <2>2, SwitchEffect DEF CommitAccepted, KeyUsed, EventsFollowTheChain, Logged
    <3>2. cur.txn = LastLogged
      <4>1. CASE cur.gen > 0
        BY <1>2, <4>1, SwitchEffect DEF ChainEnd, Delivered
      <4>2. CASE cur.gen = 0
        BY <4>2 DEF Beginning, LastLogged
      <4> QED BY <1>1, <4>1, <4>2 DEF Snapshots
    <3> QED BY <1>2, <2>1, <2>2, <3>1, <3>2, SwitchEffect DEF ChainEnd, LastLogged, Logged, CommitAccepted
  <2>3. CASE cur.txn = op.arg
    <3>1. cur.gen > 0
      BY <1>1, <1>2, <2>3, SwitchEffect, RequestAssumption DEF Beginning, Snapshots
    <3> QED BY <1>2, <2>1, <2>3, <3>1, SwitchEffect DEF ChainEnd, LastLogged, Logged
  <2> QED BY <1>2, <2>2, <2>3, SwitchEffect
<1>3. CASE Confirm
  <2>1. CASE log' = log
    BY <1>3, <2>1, ConfirmEffect DEF ChainEnd, LastLogged, Logged
  <2>2. CASE log' = Append(log, cur.txn)
    <3>1. log'[Len(log')] = cur.txn /\ Len(log') \in DOMAIN log' /\ log' # <<>>
      BY <1>1, <1>3, <2>2, ConfirmEffect
    <3>2. cur' = cur
      BY <1>3, ConfirmEffect
    <3>3. Logged(cur.txn)' /\ LastLogged' = cur.txn
      BY <3>1, <3>2 DEF Logged, LastLogged
    <3> QED BY <3>2, <3>3 DEF ChainEnd
  <2> QED BY <1>3, <2>1, <2>2, ConfirmEffect
<1>4. CASE cur' = cur /\ log' = log
  <2>1. cur.gen > 0 => base'[cur.txn] = base[cur.txn]
    BY <1>1, DraftKeeps DEF Beginning, Bases, Snapshots
  <2> QED BY <1>4, <2>1 DEF ChainEnd, LastLogged, Logged
<1> QED BY <1>2, <1>3, <1>4, Moves DEF SwitchPointer

-----------------------------------------------------------------------------
(* The parts of the invariant about the holder of the lock.                *)

Holder == HolderStage /\ Calls /\ OwnReceipt /\ SwitchReady /\ CopyFollows

\* The file itself, and what every decision starts from, follow the file.
LEMMA FileFollows ==
  ASSUME IInv
  PROVE  /\ Follows(side)
         /\ Follows(Reconciled)
         /\ \A lapse \in Lapses : Follows(Expired(Reconciled, lapse[1], lapse[2]))
<1> USE DEF IInv
<1>1. Follows(side)
  BY NoneAssumption DEF Follows, RevokedNeverApplied
<1>2. Follows(Reconciled)
  BY NoneAssumption DEF Follows, Reconciled, RevokedNeverApplied
<1>3. ASSUME NEW l, NEW all PROVE Follows(Expired(Reconciled, l, all))
  <2>1. \A a \in Approvals : Expired(Reconciled, l, all).appr[a] =
          IF a \in cur.spent THEN "consumed"
          ELSE IF side.appr[a] = "active" /\ (all \/ a \in l) THEN "expired" ELSE side.appr[a]
    BY DEF Expired, Reconciled
  <2>2. Expired(Reconciled, l, all).grant = IF all /\ side.grant = "active" THEN "expired" ELSE side.grant
    BY DEF Expired, Reconciled
  <2> QED BY <2>1, <2>2, NoneAssumption DEF Follows, RevokedNeverApplied, Steps
<1> QED BY <1>1, <1>2, <1>3

\* The facts an apply rests on hold in the file and not only in the copy.
LEMMA FactsOfFile ==
  ASSUME IInv, NEW l, NEW all, NEW r \in Requests, ApprovalOf[r] # None,
         FactsHold(Expired(Reconciled, l, all), r)
  PROVE  /\ ApprovalOf[r] \in Approvals /\ ApprovalOf[r] \notin cur.spent
         /\ side.grant = "active" /\ side.appr[ApprovalOf[r]] = "active"
<1>1. ApprovalOf[r] \in Approvals
  BY RequestAssumption
<1> QED BY <1>1 DEF FactsHold, Expired, Reconciled

LEMMA DecideHolder ==
  ASSUME IInv, stage = "act", NEW s, NEW answer, Decide(s, answer), Follows(s),
         answer \in Statuses => /\ op.arg \in Requests /\ cur.ledger[op.arg] # None
                                /\ answer \in Outcomes => cur.ledger[op.arg] = answer
  PROVE  Holder'
<1> USE DEF IInv
<1>1. UNCHANGED <<disk, op, acting, rec, base, bound, told>> /\ mem' = s /\ res' = answer /\ stage' = "save"
  BY DEF Decide
<1>2. acting
  BY DEF HolderStage
<1>3. HolderStage'
  BY <1>1, <1>2 DEF HolderStage
<1>4. Calls'
  BY <1>1, <1>2 DEF Calls
<1>5. OwnReceipt'
  BY <1>1, <1>2 DEF OwnReceipt, disk
<1>6. SwitchReady'
  BY <1>1 DEF SwitchReady
<1>7. CopyFollows'
  BY <1>1 DEF CopyFollows, Follows, disk
<1> QED BY <1>3, <1>4, <1>5, <1>6, <1>7 DEF Holder

\* The prepared record: what the pointer will be switched to is legal.
LEMMA PrepareHolder ==
  ASSUME IInv, stage = "act", NEW snap, WritePrepared(snap), Follows(mem)', 
         op.kind \in {"commit", "apply", "settle"},
         \/ /\ op.kind \in {"commit", "apply"}
            /\ CommitAccepted(op.arg)
            /\ snap = CommitSnapshot(op.arg)
            /\ op.kind = "apply" =>
                 /\ ApprovalOf[op.arg] \notin cur.spent
                 /\ mem'.appr[ApprovalOf[op.arg]] = "active"
                 /\ side.appr[ApprovalOf[op.arg]] = "active"
                 /\ side.grant = "active"
         \/ /\ op.kind = "settle"
            /\ cur.txn = op.arg
            /\ cur.ledger[op.arg] = "verifying"
            /\ snap = SettleSnapshot(op.arg, op.out)
  PROVE  Holder'
<1> USE DEF IInv
<1>1. /\ UNCHANGED <<cur, side, log, queued, op, acting, base, bound, told>>
      /\ stage' = "switch" /\ rec' \in wal' /\ rec'.state = "prepared" /\ rec'.snap = snap
  BY DEF WritePrepared
<1>2. acting /\ wal = {}
  BY DEF HolderStage
<1>3. HolderStage'
  BY <1>1, <1>2 DEF HolderStage
<1>4. Calls'
  BY <1>1, <1>2 DEF Calls
<1>5. OwnReceipt'
  BY <1>1, <1>2 DEF OwnReceipt
<1>6. SwitchReady'
  <2>1. cur.gen > 0 => Delivered
    BY <1>2 DEF NothingForgotten, Delivered
  <2> QED BY <1>1, <2>1 DEF SwitchReady, Delivered, Logged, CommitAccepted, KeyUsed, CommitSnapshot, NewStatus, SettleSnapshot
<1>7. CopyFollows'
  BY DEF CopyFollows
<1> QED BY <1>3, <1>4, <1>5, <1>6, <1>7 DEF Holder

LEMMA ReplyHolder ==
  ASSUME IInv, stage = "act", stage' = "reply", UNCHANGED <<disk, op, acting, rec, mem, base, bound, told>>,
         res' \in Statuses => /\ op.arg \in Requests /\ cur.ledger[op.arg] # None
                              /\ res' \in Outcomes => cur.ledger[op.arg] = res'
  PROVE  Holder'
BY DEF Holder, IInv, HolderStage, Calls, OwnReceipt, SwitchReady, CopyFollows, Follows, disk

\* Giving back the lock.
LEMMA ReleaseHolder ==
  ASSUME IInv, Release, mem' = side, UNCHANGED <<disk, base>>, \A r \in bound' : ApprovalOf[r] # None
  PROVE  Holder'
<1>1. Follows(side)
  BY FileFollows
<1>2. CopyFollows'
  BY <1>1 DEF CopyFollows, Follows, disk
<1> QED BY <1>2 DEF Holder, Release, HolderStage, Calls, OwnReceipt, SwitchReady, Idle

LEMMA CallersHolder ==
  ASSUME IInv, Callers PROVE Holder'
<1> USE DEF IInv
<1>1. ASSUME UNCHANGED <<cur, wal, side, stage, op, acting, rec, res, mem, bound>>, [Next]_vars PROVE Holder'
  <2>1. stage = "ack" => cur.gen > 0
    BY DEF HolderStage, LiveRecord
  <2>2. HolderStage'
    BY <1>1, <2>1, DeliveredStays DEF HolderStage
  <2>3. Calls' /\ OwnReceipt'
    BY <1>1 DEF Calls, OwnReceipt
  <2>4. CopyFollows'
    BY <1>1 DEF CopyFollows, Follows
  <2>5. op.kind \in {"commit", "apply"} /\ CommitAccepted(op.arg) => base'[op.arg] = base[op.arg]
    <3>1. CommitAccepted(op.arg) => base[op.arg] # Undrafted
      BY RequestAssumption DEF CommitAccepted, TypeOK, Snapshots, Undrafted
    <3> QED BY <1>1, <3>1, DraftKeeps DEF Calls
  <2>6. SwitchReady'
    BY <1>1, <2>5, DeliveredStays DEF SwitchReady, CommitAccepted, KeyUsed, CommitSnapshot, NewStatus, SettleSnapshot
  <2> QED BY <2>2, <2>3, <2>4, <2>6 DEF Holder
<1>2. [Next]_vars
  BY DEF Next
<1>3. ASSUME NEW r \in Requests, Draft(r) \/ ReplayRead(r) PROVE Holder'
  BY <1>1, <1>2, <1>3 DEF Draft, ReplayRead, disk
<1>4. CASE ReconcileOutbox
  BY <1>1, <1>2, <1>4 DEF ReconcileOutbox
<1>5. ASSUME NEW kind \in Kinds, NEW arg, NEW out, Begin(kind, arg, out), \A r \in bound' : ApprovalOf[r] # None,
             kind \in {"commit", "apply", "verify", "settle"} => arg \in Requests,
             kind \in {"issueApproval", "revokeApproval"} => arg \in Approvals,
             kind = "commit" => ApprovalOf[arg] = None,
             kind \in {"apply", "verify"} => ApprovalOf[arg] # None,
             kind = "settle" => out \in Outcomes
      PROVE  Holder'
  <2>1. op'.kind = kind /\ op'.arg = arg /\ op'.out = out /\ stage' = "recover" /\ ~ acting'
    BY <1>5 DEF Begin, HolderStage
  <2>2. HolderStage' /\ SwitchReady'
    BY <2>1 DEF HolderStage, SwitchReady
  <2>3. Calls'
    BY <1>5, <2>1 DEF Calls
  <2>4. OwnReceipt'
    BY <1>5, <2>1 DEF OwnReceipt, Begin, HolderStage
  <2>5. CopyFollows'
    BY <1>5 DEF CopyFollows, Follows, Begin, disk
  <2> QED BY <2>2, <2>3, <2>4, <2>5 DEF Holder
<1>6. \A r \in bound : ApprovalOf[r] # None
  BY DEF Calls
<1>7. ASSUME NEW r \in Requests, BeginCommit(r) PROVE Holder'
  BY <1>5, <1>6, <1>7 DEF BeginCommit, Kinds
<1>8. ASSUME NEW r \in Requests, BeginVerify(r) PROVE Holder'
  BY <1>5, <1>6, <1>8 DEF BeginVerify, Kinds
<1>9. ASSUME NEW r \in Requests, BeginApply(r) PROVE Holder'
  BY <1>5, <1>6, <1>9 DEF BeginApply, Kinds
<1>10. ASSUME NEW r \in Requests, NEW o \in Outcomes, BeginSettle(r, o) PROVE Holder'
  BY <1>5, <1>6, <1>10 DEF BeginSettle, Kinds
<1>11. ASSUME NEW a \in Approvals, BeginIssueApproval(a) \/ BeginRevokeApproval(a) PROVE Holder'
  BY <1>5, <1>6, <1>11 DEF BeginIssueApproval, BeginRevokeApproval, Kinds
<1>12. ASSUME NEW kind \in {"issueGrant", "revokeGrant", "get", "expire", "recover"}, BeginGrant(kind)
       PROVE  Holder'
  BY <1>5, <1>6, <1>12 DEF BeginGrant, Kinds
<1> QED
  BY <1>3, <1>4, <1>7, <1>8, <1>9, <1>10, <1>11, <1>12 DEF Callers

LEMMA RecoveryHolder ==
  ASSUME IInv, Recovery PROVE Holder'
<1> USE DEF IInv
<1>1. ASSUME NEW w \in wal, DiscardPrepared(w) PROVE Holder'
  BY <1>1 DEF DiscardPrepared, Holder, HolderStage, Calls, OwnReceipt, SwitchReady, CopyFollows, Follows
<1>2. ASSUME NEW w \in wal, ResumeSwitched(w) PROVE Holder'
  <2>1. /\ UNCHANGED <<cur, side, log, queued, op, acting, res, mem, base, bound, told>>
        /\ stage' = "confirm" /\ ~ acting /\ stage = "recover"
        /\ rec' \in wal' /\ rec'.snap = cur /\ rec'.state = "snapshot_committed"
    BY <1>2 DEF ResumeSwitched, PointerSwitched
  <2> QED BY <2>1 DEF Holder, HolderStage, Calls, OwnReceipt, SwitchReady, CopyFollows, Follows
<1>3. CASE RecoveryDone
  BY <1>3 DEF RecoveryDone, disk, Holder, HolderStage, Calls, OwnReceipt, SwitchReady, CopyFollows, Follows
<1> QED BY <1>1, <1>2, <1>3 DEF Recovery

LEMMA SidecarHolder ==
  ASSUME IInv, Sidecar PROVE Holder'
<1> USE DEF IInv
<1>1. Follows(Reconciled) /\ \A lapse \in Lapses : Follows(Expired(Reconciled, lapse[1], lapse[2]))
  BY FileFollows
<1>2. "ok" \notin Statuses /\ None \notin Statuses
  BY OutcomeAssumption DEF Statuses
<1>3. CASE IssueGrant
  <2>1. Reconciled.grant = None => Follows(WithGrant(Reconciled, "active"))
    BY <1>1, NoneAssumption DEF Follows, WithGrant, Reconciled, Steps
  <2> QED BY <1>1, <1>2, <1>3, <2>1, DecideHolder DEF IssueGrant
<1>4. CASE GetGrant
  BY <1>1, <1>2, <1>4, DecideHolder DEF GetGrant
<1>5. ASSUME NEW lapse \in Lapses, IssueApplyApproval(lapse) PROVE Holder'
  <2> DEFINE s == Expired(Reconciled, lapse[1], lapse[2])
  <2>1. Follows(s)
    BY <1>1
  <2>2. s.grant = "active" => side.grant = "active"
    BY DEF Expired, Reconciled
  <2>3. s.appr[op.arg] = None => side.appr[op.arg] = None /\ op.arg \notin cur.spent
    BY <1>5, NoneAssumption DEF Expired, Reconciled, IssueApplyApproval, Calls
  <2>4. \A a \in Approvals : WithApproval(s, op.arg, "active").appr[a] = IF a = op.arg THEN "active" ELSE s.appr[a]
    BY DEF WithApproval, Expired
  <2>5. WithApproval(s, op.arg, "active").grant = s.grant
    BY DEF WithApproval
  <2>6. s.grant = "active" /\ s.appr[op.arg] = None => Follows(WithApproval(s, op.arg, "active"))
    BY <2>1, <2>2, <2>3, <2>4, <2>5, NoneAssumption DEF Follows, Steps
  <2> QED BY <1>2, <1>5, <2>1, <2>6, DecideHolder DEF IssueApplyApproval
<1>6. ASSUME NEW lapse \in Lapses, RevokeGrant(lapse) PROVE Holder'
  <2> DEFINE s == Expired(Reconciled, lapse[1], lapse[2])
  <2>1. Follows(s)
    BY <1>1
  <2>2. s.grant = "active" => side.grant = "active"
    BY DEF Expired, Reconciled
  <2>3. \A a \in Approvals : ~ (side.appr[a] = None /\ s.appr[a] = "active")
    BY NoneAssumption DEF Expired, Reconciled
  <2>4. s.grant = "active" => Follows(WithGrant(s, "revoked"))
    BY <2>1, <2>2, <2>3 DEF Follows, WithGrant, Steps
  <2> QED BY <1>2, <1>6, <2>1, <2>4, DecideHolder DEF RevokeGrant
<1>7. ASSUME NEW lapse \in Lapses, RevokeApplyApproval(lapse) PROVE Holder'
  <2> DEFINE s == Expired(Reconciled, lapse[1], lapse[2])
  <2>1. Follows(s)
    BY <1>1
  <2>2. s.appr[op.arg] = "active" => side.appr[op.arg] = "active" /\ op.arg \notin cur.spent
    BY <1>7 DEF Expired, Reconciled, RevokeApplyApproval, Calls
  <2>3. \A a \in Approvals : WithApproval(s, op.arg, "revoked").appr[a] = IF a = op.arg THEN "revoked" ELSE s.appr[a]
    BY DEF WithApproval, Expired
  <2>4. WithApproval(s, op.arg, "revoked").grant = s.grant
    BY DEF WithApproval
  <2>5. s.appr[op.arg] = "active" => Follows(WithApproval(s, op.arg, "revoked"))
    BY <2>1, <2>2, <2>3, <2>4 DEF Follows, Steps
  <2> QED BY <1>2, <1>7, <2>1, <2>5, DecideHolder DEF RevokeApplyApproval
<1>8. ASSUME NEW lapse \in Lapses, Expire(lapse) PROVE Holder'
  BY <1>1, <1>2, <1>8, DecideHolder DEF Expire
<1>9. ASSUME NEW lapse \in Lapses, VerifyTrustedApplyFacts(lapse) PROVE Holder'
  BY <1>1, <1>2, <1>9, DecideHolder DEF VerifyTrustedApplyFacts
<1>10. ASSUME NEW lapse \in Lapses, ConsumeWithWorkflowCommit(lapse) PROVE Holder'
  <2> DEFINE s == Expired(Reconciled, lapse[1], lapse[2])
  <2>1. /\ stage = "act" /\ op.kind = "apply" /\ op.arg \in Requests /\ ApprovalOf[op.arg] # None
        /\ Follows(s)
    BY <1>1, <1>10 DEF ConsumeWithWorkflowCommit, Calls
  <2>2. CASE FactsHold(s, op.arg) /\ CommitAccepted(op.arg)
    <3>1. WritePrepared(CommitSnapshot(op.arg)) /\ mem' = s
      BY <1>10, <2>2 DEF ConsumeWithWorkflowCommit
    <3>2. /\ ApprovalOf[op.arg] \notin cur.spent /\ side.grant = "active"
          /\ side.appr[ApprovalOf[op.arg]] = "active"
      BY <2>1, <2>2, FactsOfFile
    <3>3. mem'.appr[ApprovalOf[op.arg]] = "active"
      BY <2>2, <3>1 DEF FactsHold
    <3>4. Follows(mem)'
      BY <2>1, <3>1 DEF Follows, WritePrepared
    <3> QED BY <2>1, <2>2, <3>1, <3>2, <3>3, <3>4, PrepareHolder
  <2>3. CASE ~ (FactsHold(s, op.arg) /\ CommitAccepted(op.arg))
    <3>1. Decide(s, cur.ledger[op.arg])
      BY <1>10, <2>3 DEF ConsumeWithWorkflowCommit
    <3>2. cur.ledger[op.arg] \in Statuses => cur.ledger[op.arg] # None
      BY <1>2
    <3> QED BY <2>1, <3>1, <3>2, DecideHolder
  <2> QED BY <2>2, <2>3
<1> QED
  BY <1>3, <1>4, <1>5, <1>6, <1>7, <1>8, <1>9, <1>10 DEF Sidecar

LEMMA TransactionHolder ==
  ASSUME IInv, Transaction PROVE Holder'
<1> USE DEF IInv
<1>1. CASE CommitDirect
  <2>1. stage = "act" /\ op.kind = "commit" /\ op.arg \in Requests
    BY <1>1 DEF CommitDirect, Calls
  <2>2. CASE CommitAccepted(op.arg)
    <3>1. WritePrepared(CommitSnapshot(op.arg)) /\ mem' = mem
      BY <1>1, <2>2 DEF CommitDirect
    <3>2. Follows(mem)'
      BY <3>1 DEF Follows, CopyFollows, WritePrepared
    <3> QED BY <2>1, <2>2, <3>1, <3>2, PrepareHolder
  <2>3. CASE ~ CommitAccepted(op.arg)
    BY <1>1, <2>1, <2>3, ReplyHolder, OutcomeAssumption DEF CommitDirect, Statuses
  <2> QED BY <2>2, <2>3
<1>2. CASE UpdateReceiptLifecycle
  <2>1. stage = "act" /\ op.kind = "settle" /\ op.arg \in Requests
    BY <1>2 DEF UpdateReceiptLifecycle, Calls
  <2>2. CASE cur.txn = op.arg /\ cur.ledger[op.arg] = "verifying"
    <3>1. WritePrepared(SettleSnapshot(op.arg, op.out)) /\ mem' = mem
      BY <1>2, <2>2 DEF UpdateReceiptLifecycle
    <3>2. Follows(mem)'
      BY <3>1 DEF Follows, CopyFollows, WritePrepared
    <3> QED BY <2>1, <2>2, <3>1, <3>2, PrepareHolder
  <2>3. CASE ~ (cur.txn = op.arg /\ cur.ledger[op.arg] = "verifying")
    <3>1. /\ stage' = "reply" /\ UNCHANGED <<disk, op, acting, rec, mem, base, bound, told>>
          /\ res' = IF cur.txn = op.arg /\ cur.ledger[op.arg] = op.out THEN op.out ELSE None
      BY <1>2, <2>3 DEF UpdateReceiptLifecycle
    <3> QED BY <2>1, <3>1, ReplyHolder, OutcomeAssumption DEF Statuses
  <2> QED BY <2>2, <2>3
<1>3. CASE Recover
  <2>1. res' \notin Statuses
    BY <1>3, OutcomeAssumption DEF Recover, OwnReceipt, Statuses
  <2> QED BY <1>3, <2>1, ReplyHolder DEF Recover
<1>4. CASE SwitchPointer
  <2>1. /\ UNCHANGED <<wal, side, log, queued, op, acting, rec, res, mem, base, bound, told>>
        /\ stage = "switch" /\ stage' = "mark"
    BY <1>4 DEF SwitchPointer
  <2>2. HolderStage'
    BY <1>4, <2>1, SwitchEffect DEF HolderStage
  <2>3. Calls' /\ SwitchReady'
    BY <2>1 DEF Calls, SwitchReady
  <2>4. op.kind = "apply" => ApprovalOf[op.arg] \in cur'.spent
    BY <1>4, SwitchEffect DEF Calls
  <2>5. OwnReceipt'
    BY <1>4, <2>1, <2>4, SwitchEffect DEF OwnReceipt, HolderStage
  <2>6. \A a \in Approvals : a \in cur'.spent => a \in cur.spent \/ mem.appr[a] = "active"
    BY <1>4, <2>1, SwitchEffect DEF SwitchReady, Calls
  <2>7. cur.spent \subseteq cur'.spent
    BY <1>4, SwitchEffect
  <2>8. CopyFollows'
    BY <2>1, <2>6, <2>7 DEF CopyFollows, Follows
  <2> QED BY <2>2, <2>3, <2>5, <2>8 DEF Holder
<1>5. CASE MarkSnapshotCommitted
  <2>1. /\ UNCHANGED <<cur, side, log, queued, op, acting, res, mem, base, bound, told>>
        /\ stage = "mark" /\ stage' = "confirm"
        /\ rec' \in wal' /\ rec'.snap = rec.snap /\ rec'.state = "snapshot_committed"
    BY <1>5 DEF MarkSnapshotCommitted, PersistRecord
  <2> QED BY <2>1 DEF Holder, HolderStage, Calls, OwnReceipt, SwitchReady, CopyFollows, Follows
<1>6. CASE Confirm
  <2>1. /\ UNCHANGED <<cur, wal, side, op, acting, rec, res, mem, base, bound, told>>
        /\ stage = "confirm" /\ stage' = "ack" /\ rec.acks < 3
    BY <1>6 DEF Confirm
  <2>2. rec \in wal /\ rec.snap = cur /\ rec.acks \in 0..3
    BY <2>1, RecordTypes DEF HolderStage, TypeOK
  <2>3. rec.acks >= 1 => Logged(cur.txn)'
    BY <1>6, <2>2, ConfirmEffect
  <2>4. rec.acks = 2 => Delivered'
    BY <1>6, <2>1, <2>2, <2>3, ConfirmEffect DEF Delivered
  <2>5. HolderStage'
    BY <2>1, <2>2, <2>3, <2>4 DEF HolderStage
  <2> QED BY <2>1, <2>5 DEF Holder, Calls, OwnReceipt, SwitchReady, CopyFollows, Follows
<1>7. CASE Ack
  <2>1. /\ UNCHANGED <<cur, side, log, queued, op, acting, res, mem, base, bound, told>>
        /\ stage = "ack" /\ stage' = "confirm"
        /\ rec' \in wal' /\ rec'.snap = rec.snap /\ rec'.state = rec.state
    BY <1>7 DEF Ack, PersistRecord
  <2> QED BY <2>1 DEF Holder, HolderStage, Calls, OwnReceipt, SwitchReady, CopyFollows, Follows
<1>8. CASE MarkCommitted
  <2>1. UNCHANGED <<cur, side, log, queued, op, acting, base, bound, told>> /\ stage = "confirm"
    BY <1>8 DEF MarkCommitted
  <2>2. CASE ~ acting
    BY <1>8, <2>1, <2>2 DEF MarkCommitted, Holder, HolderStage, Calls, OwnReceipt, SwitchReady, CopyFollows, Follows
  <2>3. CASE acting
    <3>1. stage' \in {"save", "reply"} /\ res' = cur.ledger[op.arg] /\ op.arg \in Requests
      BY <1>8, <2>1, <2>3 DEF MarkCommitted, Calls
    <3>2. HolderStage' /\ Calls' /\ SwitchReady'
      BY <2>1, <2>3, <3>1 DEF HolderStage, Calls, SwitchReady
    <3>3. OwnReceipt'
      BY <2>1, <2>3, <3>1 DEF OwnReceipt
    <3>4. CopyFollows'
      <4>1. CASE op.kind # "apply"
        BY <1>8, <2>1, <2>3, <4>1 DEF MarkCommitted, CopyFollows, Follows
      <4>2. CASE op.kind = "apply"
        <5>1. ApprovalOf[op.arg] \in cur.spent /\ mem' = WithApproval(mem, ApprovalOf[op.arg], "consumed")
          BY <1>8, <2>1, <2>3, <4>2 DEF MarkCommitted, OwnReceipt
        <5>2. mem \in Sidecars
          BY DEF TypeOK
        <5>3. /\ mem'.grant = mem.grant
              /\ \A a \in Approvals : mem'.appr[a] = IF a = ApprovalOf[op.arg] THEN "consumed" ELSE mem.appr[a]
          BY <5>1, <5>2 DEF WithApproval, Sidecars
        <5> QED BY <2>1, <5>1, <5>3 DEF CopyFollows, Follows
      <4> QED BY <4>1, <4>2
    <3> QED BY <3>2, <3>3, <3>4 DEF Holder
  <2> QED BY <2>2, <2>3
<1>9. CASE SaveSidecar
  <2>1. /\ UNCHANGED <<cur, wal, log, queued, op, acting, rec, res, mem, base, bound, told>>
        /\ side' = mem /\ stage = "save" /\ stage' = "reply"
    BY <1>9 DEF SaveSidecar
  <2>2. CopyFollows'
    BY <2>1, NoneAssumption DEF CopyFollows, Follows
  <2> QED BY <2>1, <2>2 DEF Holder, HolderStage, Calls, OwnReceipt, SwitchReady
<1>10. CASE Reply
  <2>1. \A r \in bound' : ApprovalOf[r] # None
    BY <1>10 DEF Reply, Calls
  <2> QED BY <1>10, <2>1, ReleaseHolder DEF Reply
<1> QED
  BY <1>1, <1>2, <1>3, <1>4, <1>5, <1>6, <1>7, <1>8, <1>9, <1>10 DEF Transaction

LEMMA FaultHolder ==
  ASSUME IInv, Fail \/ Crash PROVE Holder'
<1> USE DEF IInv
<1>1. CASE Crash
  BY <1>1, ReleaseHolder DEF Crash
<1>2. CASE Fail /\ ~ (Publishing /\ op.kind = "apply")
  BY <1>2, ReleaseHolder DEF Fail, Calls
<1>3. CASE Fail /\ Publishing /\ op.kind = "apply"
  <2>1. /\ UNCHANGED <<disk, op, acting, mem, base, bound, told>>
        /\ acting /\ stage' = "save" /\ res' = None
    BY <1>3 DEF Fail, Publishing
  <2>2. HolderStage' /\ Calls' /\ SwitchReady'
    BY <2>1 DEF HolderStage, Calls, SwitchReady
  <2>3. OwnReceipt'
    BY <2>1, OutcomeAssumption DEF OwnReceipt, Statuses
  <2>4. CopyFollows'
    BY <2>1 DEF CopyFollows, Follows, disk
  <2> QED BY <2>2, <2>3, <2>4 DEF Holder
<1> QED BY <1>1, <1>2, <1>3

LEMMA StepHolder ==
  ASSUME IInv, [Next]_vars PROVE Holder'
<1>1. CASE UNCHANGED vars
  BY <1>1 DEF vars, IInv, Holder, HolderStage, Calls, OwnReceipt, SwitchReady, CopyFollows, Follows, Delivered,
              Logged, CommitAccepted, KeyUsed, CommitSnapshot, NewStatus, SettleSnapshot
<1> QED
  BY <1>1, CallersHolder, RecoveryHolder, SidecarHolder, TransactionHolder, FaultHolder DEF Next

-----------------------------------------------------------------------------
(* The invariant.                                                          *)

LEMMA InitInv == Init => IInv
<1> SUFFICES ASSUME Init PROVE IInv
  OBVIOUS
<1>1. cur \in Snapshots /\ cur.gen = 0 /\ cur.txn = None /\ cur.spent = {} /\ \A r \in Requests : cur.ledger[r] = None
  BY DEF Init, NoSnap, Snapshots
<1>2. side \in Sidecars /\ mem = side
  BY DEF Init, Sidecars, States
<1>3. TypeOK
  <2>1. op \in [kind : Kinds, arg : Requests \cup Approvals \cup {None}, out : Outcomes \cup {None}]
    BY DEF Init, Idle, Kinds
  <2>2. rec \in Records \cup {NoRec} /\ wal \subseteq Records /\ log \in Seq(Requests)
    BY DEF Init
  <2>3. base \in [Requests -> Requests \cup {None, Undrafted}] /\ told \in [Requests -> Statuses \cup {None}]
    BY DEF Init
  <2> QED BY <1>1, <1>2, <2>1, <2>2, <2>3 DEF Init, TypeOK
<1>4. Beginning /\ LiveRecord /\ HolderStage /\ Calls /\ NothingForgotten /\ SwitchReady
  BY <1>1, OutcomeAssumption DEF Init, Beginning, LiveRecord, HolderStage, Calls, Idle, NothingForgotten, SwitchReady
<1>5. OwnReceipt /\ Bases
  BY <1>1 DEF Init, OwnReceipt, Bases
<1>6. CopyFollows /\ RevokedNeverApplied
  BY <1>1, <1>2, NoneAssumption DEF Init, CopyFollows, Follows, RevokedNeverApplied
<1>7. ChainEnd /\ EventsFollowTheChain /\ AckedIsDurable /\ OneRequestPerKey
  BY <1>1, OutcomeAssumption DEF Init, ChainEnd, EventsFollowTheChain, AckedIsDurable, OneRequestPerKey
<1> QED BY <1>3, <1>4, <1>5, <1>6, <1>7 DEF IInv

LEMMA StepInv ==
  ASSUME IInv, [Next]_vars PROVE IInv'
<1>1. TypeOK' /\ Holder'
  BY StepTypes, StepHolder
<1>2. Beginning' /\ LiveRecord' /\ Bases' /\ NothingForgotten' /\ RevokedNeverApplied'
  BY StepBeginning, StepLiveRecord, StepBases, StepNothingForgotten, StepRevokedNeverApplied
<1>3. OneRequestPerKey' /\ AckedIsDurable' /\ EventsFollowTheChain' /\ ChainEnd'
  BY StepOneRequestPerKey, StepAckedIsDurable, StepEvents, StepChainEnd
<1> QED BY <1>1, <1>2, <1>3 DEF IInv, Holder

LEMMA Invariance == Spec => []IInv
<1>1. Init => IInv
  BY InitInv
<1>2. IInv /\ [Next]_vars => IInv'
  BY StepInv
<1> QED BY <1>1, <1>2, PTL DEF Spec

(* The state of the store keeps its shape; a record of the log is never    *)
(* acknowledged more than three times.                                     *)
THEOREM CommitTypes == Spec => []TypeOK
<1>1. IInv => TypeOK
  BY DEF IInv
<1> QED BY <1>1, Invariance, PTL

(* A receipt that was handed out survives every crash and failure, and a   *)
(* reported outcome is final.                                              *)
THEOREM ReceiptsDurable == Spec => []AckedIsDurable
<1>1. IInv => AckedIsDurable
  BY DEF IInv
<1> QED BY <1>1, Invariance, PTL

(* One idempotency key, one applied request.                               *)
THEOREM KeysUsedOnce == Spec => []OneRequestPerKey
<1>1. IInv => OneRequestPerKey
  BY DEF IInv
<1> QED BY <1>1, Invariance, PTL

(* The event log follows the chain of versions without gap or repetition.  *)
THEOREM EventsInOrder == Spec => []EventsFollowTheChain
<1>1. IInv => EventsFollowTheChain
  BY DEF IInv
<1> QED BY <1>1, Invariance, PTL

(* The events of a version that became current are delivered, or recovery  *)
(* will deliver them.                                                      *)
THEOREM NoEventLost == Spec => []NothingForgotten
<1>1. IInv => NothingForgotten
  BY DEF IInv
<1> QED BY <1>1, Invariance, PTL

(* A revoked or expired approval is not the approval of an applied request. *)
THEOREM RevocationHolds == Spec => []RevokedNeverApplied
<1>1. IInv => RevokedNeverApplied
  BY DEF IInv
<1> QED BY <1>1, Invariance, PTL

-----------------------------------------------------------------------------
(* The store implements the register.                                      *)

\* The approvals the register sees.
LEMMA SeenApprovals ==
  /\ Reconciled.grant = side.grant
  /\ Reconciled.appr = [a \in Approvals |-> IF a \in cur.spent THEN "consumed" ELSE side.appr[a]]
BY DEF Reconciled

\* The commit point is the compare-and-set, or the settlement.
LEMMA SwitchImplements ==
  ASSUME IInv, SwitchPointer PROVE Register!Next
<1> USE DEF IInv
<1> DEFINE r == op.arg
<1>1. /\ cur' = rec.snap /\ UNCHANGED <<side, log, base>>
  BY SwitchEffect DEF SwitchPointer
<1>2. r \in Requests
  BY SwitchEffect
<1>3. cur.txn = None \/ Register!IsPublished(cur.txn)
  BY SwitchEffect DEF Register!IsPublished, Delivered, Logged, Beginning, TypeOK, Snapshots
<1>4. CASE CommitAccepted(r) /\ rec.snap = CommitSnapshot(r) /\ op.kind \in {"commit", "apply"}
  <2>1. /\ cur'.txn = r /\ cur'.ledger = [cur.ledger EXCEPT ![r] = NewStatus(r)]
        /\ cur'.spent = cur.spent \cup ({ApprovalOf[r]} \ {None})
    BY <1>1, <1>4 DEF CommitSnapshot, NewStatus
  <2>2. /\ cur.ledger[r] = None /\ base[r] = cur.txn
        /\ \A q \in Requests : KeyOf[q] = KeyOf[r] => cur.ledger[q] = None
    BY <1>2, <1>4 DEF CommitAccepted, KeyUsed
  <2>3. ApprovalOf[r] # None => side.grant = "active" /\ Reconciled.appr[ApprovalOf[r]] = "active"
    <3>1. ApprovalOf[r] # None => op.kind = "apply" /\ ApprovalOf[r] \in Approvals
      BY <1>2, <1>4, RequestAssumption DEF Calls
    <3>2. op.kind = "apply" => /\ ApprovalOf[r] \notin cur.spent /\ side.grant = "active"
                               /\ side.appr[ApprovalOf[r]] = "active"
      BY <1>4 DEF SwitchReady, SwitchPointer
    <3> QED BY <3>1, <3>2, SeenApprovals
  <2>4. (Reconciled.appr)' = [a \in Approvals |-> IF a = ApprovalOf[r] THEN "consumed" ELSE Reconciled.appr[a]]
    <3>1. \A a \in Approvals : a # None
      BY RequestAssumption
    <3>2. (Reconciled.appr)' = [a \in Approvals |-> IF a \in cur'.spent THEN "consumed" ELSE side.appr[a]]
      BY <1>1 DEF Reconciled
    <3> QED BY <2>1, <3>1, <3>2, SeenApprovals
  <2>5. Register!Commit(r)
    BY <1>1, <1>3, <2>1, <2>2, <2>3, <2>4 DEF Register!Commit, NewStatus
  <2> QED BY <1>2, <2>5 DEF Register!Next
<1>5. CASE cur.txn = r /\ cur.ledger[r] = "verifying" /\ rec.snap = SettleSnapshot(r, op.out) /\ op.kind = "settle"
  <2>1. /\ cur'.txn = cur.txn /\ cur'.ledger = [cur.ledger EXCEPT ![r] = op.out]
        /\ cur'.spent = cur.spent /\ op.out \in Outcomes
    BY <1>1, <1>5 DEF SettleSnapshot, Calls
  <2>2. (Reconciled.appr)' = Reconciled.appr
    BY <1>1, <2>1 DEF Reconciled
  <2>3. Register!IsPublished(r)
    BY <1>2, <1>3, <1>5, RequestAssumption
  <2>4. Register!Settle(r, op.out)
    BY <1>1, <1>5, <2>1, <2>2, <2>3 DEF Register!Settle
  <2> QED BY <1>2, <2>1, <2>4 DEF Register!Next
<1> QED BY <1>4, <1>5 DEF SwitchReady, SwitchPointer

\* Saving the file is what the authorities did to grant and approvals.
LEMMA SaveImplements ==
  ASSUME IInv, SaveSidecar PROVE Register!Next
<1> USE DEF IInv
<1>1. side' = mem /\ UNCHANGED <<cur, log, base>>
  BY DEF SaveSidecar
<1>2. (Reconciled.appr)' = [a \in Approvals |-> IF a \in cur.spent THEN "consumed" ELSE mem.appr[a]]
  BY <1>1 DEF Reconciled
<1>3. mem \in Sidecars
  BY DEF TypeOK
<1>4. (Reconciled.appr)' \in [Approvals -> {None, "active", "revoked", "expired", "consumed"}]
  BY <1>2, <1>3 DEF Sidecars, States
<1>5. \A a \in Approvals : \/ (Reconciled.appr)'[a] = Reconciled.appr[a]
                           \/ <<Reconciled.appr[a], (Reconciled.appr)'[a]>> \in Register!LifeCycle
  BY <1>2, SeenApprovals DEF CopyFollows, Follows, Steps, Register!LifeCycle
<1>6. side'.grant = side.grant \/ <<side.grant, side'.grant>> \in Register!LifeCycle
  BY <1>1 DEF CopyFollows, Follows, Steps, Register!LifeCycle
<1>7. \A a \in Approvals : Reconciled.appr[a] = None /\ (Reconciled.appr)'[a] = "active"
        => side.grant = "active" /\ side'.grant = "active"
  BY <1>1, <1>2, SeenApprovals DEF CopyFollows, Follows
<1>8. Register!Authorise
  BY <1>1, <1>4, <1>5, <1>6, <1>7 DEF Register!Authorise
<1> QED BY <1>8 DEF Register!Next

LEMMA StepImplements ==
  ASSUME IInv, [Next]_vars PROVE [Register!Next]_(Register!vars)
<1> USE DEF IInv
<1>1. CASE SwitchPointer
  BY <1>1, SwitchImplements
<1>2. CASE SaveSidecar
  BY <1>2, SaveImplements
<1>3. CASE Confirm
  <2>1. UNCHANGED <<cur, side, base>>
    BY <1>3 DEF Confirm
  <2>2. (Reconciled.appr)' = Reconciled.appr
    BY <2>1 DEF Reconciled
  <2>3. CASE log' = log
    BY <2>1, <2>2, <2>3 DEF Register!vars
  <2>4. CASE ~ Logged(cur.txn) /\ log' = Append(log, cur.txn)
    <3>1. cur.txn # None
      BY <1>3, ConfirmEffect, RequestAssumption
    <3>2. ~ Register!IsPublished(cur.txn)
      BY <2>4 DEF Logged, Register!IsPublished
    <3>3. Register!Publish
      BY <2>1, <2>2, <2>4, <3>1, <3>2 DEF Register!Publish
    <3> QED BY <3>3 DEF Register!Next
  <2> QED BY <1>3, <2>3, <2>4, ConfirmEffect
<1>4. ASSUME NEW r \in Requests, Draft(r) PROVE Register!Next
  <2>1. UNCHANGED <<cur, side, log>>
    BY <1>4 DEF Draft, disk
  <2>2. (Reconciled.appr)' = Reconciled.appr
    BY <2>1 DEF Reconciled
  <2>3. Register!Draft(r)
    BY <1>4, <2>1, <2>2 DEF Draft, Register!Draft, Undrafted, Register!Undrafted
  <2> QED BY <1>4, <2>3 DEF Register!Next
<1>5. CASE UNCHANGED <<cur, side, log, base>>
  <2>1. (Reconciled.appr)' = Reconciled.appr
    BY <1>5 DEF Reconciled
  <2> QED BY <1>5, <2>1 DEF Register!vars
<1> QED BY <1>1, <1>2, <1>3, <1>4, <1>5, Moves DEF Draft, SwitchPointer, SaveSidecar, Confirm, disk

(* The store implements the register: every step is one step of it, or a   *)
(* stutter, whatever fails and wherever the process stops.                 *)
THEOREM StoreImplementsRegister == Spec => ImplementsRegister
<1>1. Init => Register!Init
  BY DEF Init, Register!Init, Reconciled, NoSnap, Undrafted, Register!Undrafted
<1>2. IInv /\ [Next]_vars => [Register!Next]_(Register!vars)
  BY StepImplements
<1> QED BY <1>1, <1>2, Invariance, PTL DEF Spec, ImplementsRegister, Register!Spec
=============================================================================
