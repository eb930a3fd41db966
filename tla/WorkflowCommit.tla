--------------------------- MODULE WorkflowCommit ---------------------------
(***************************************************************************)
(* The transactional store of one workflow key: WorkflowCommitStore, its   *)
(* write-ahead log and recovery, the atomic current pointer, and the       *)
(* approval sidecar file that is changed under the same file lock.         *)
(*                                                                         *)
(* A request stands for its digest: its transaction id and the resource    *)
(* version it produces are digests of it, so a version never comes back.   *)
(* One call at a time holds the lock (flock); "stage" says how far it is.  *)
(* Every step may fail (Fail: the error is returned, and it may be an      *)
(* error after the effect, as a failed directory sync after a rename is)   *)
(* and the process may stop between any two steps (Crash).                 *)
(***************************************************************************)
EXTENDS Naturals, Sequences, FiniteSets

CONSTANTS Requests, Keys, KeyOf, Approvals, ApprovalOf, Outcomes, None

ASSUME RequestAssumption ==
    /\ None \notin Requests \cup Approvals
    /\ "undrafted" \notin Requests
    /\ None # "undrafted"
    /\ KeyOf \in [Requests -> Keys]
    /\ ApprovalOf \in [Requests -> Approvals \cup {None}]

ASSUME OutcomeAssumption ==
    /\ None \notin Outcomes \cup {"committed", "verifying", "ok"}
    /\ {"committed", "verifying", "ok"} \cap Outcomes = {}

ASSUME NoneAssumption == None \notin {"active", "revoked", "expired", "consumed"}

VARIABLES
    cur,     \* the snapshot the current manifest names (gen 0: no manifest)
    wal,     \* the records of the write-ahead log that are neither committed nor discarded
    stage,   \* what the holder of the lock does next, "free": nobody holds it
    op,      \* the call that holds the lock
    acting,  \* recovery is over and the call's own action has begun
    rec,     \* the record the holder works on
    res,     \* what the call will return: a receipt status, "ok", or None for an error
    side,    \* approval-state.json
    mem,     \* the holder's copy of it
    base,    \* the version each request expects to replace
    bound,   \* Apply calls that hold a binding sealed by this process
    log,     \* transactions of the event log, in sequence order
    queued,  \* transactions of the outbox
    told     \* status of the last receipt handed out for each request

vars == <<cur, wal, stage, op, acting, rec, res, side, mem, base, bound, log, queued, told>>
disk == <<cur, wal, side, log, queued>>

Undrafted == "undrafted"
Statuses  == {"committed", "verifying"} \cup Outcomes
States    == {None, "active", "revoked", "expired", "consumed"}
Idle      == [kind |-> "none", arg |-> None, out |-> None]
NoSnap    == [gen |-> 0, txn |-> None, ledger |-> [r \in Requests |-> None], spent |-> {}]
NoRec     == [state |-> "none", acks |-> 0, snap |-> NoSnap]

Init ==
    /\ cur = NoSnap
    /\ wal = {}
    /\ stage = "free"
    /\ op = Idle
    /\ acting = FALSE
    /\ rec = NoRec
    /\ res = None
    /\ side = [grant |-> None, appr |-> [a \in Approvals |-> None]]
    /\ mem = side
    /\ base = [r \in Requests |-> Undrafted]
    /\ bound = {}
    /\ log = <<>>
    /\ queued = {}
    /\ told = [r \in Requests |-> None]

-----------------------------------------------------------------------------
(* Reads that take no lock.                                                *)

(* A caller reads the current version and prepares its change against it.  *)
(* A candidate is reviewed once, so every request of an approval expects   *)
(* the same version; an apply needs a workflow that was saved before.      *)
Draft(r) ==
    /\ base[r] = Undrafted
    /\ ApprovalOf[r] # None => cur.gen > 0
    /\ base' = [q \in Requests |->
                  IF q = r \/ (ApprovalOf[r] # None /\ ApprovalOf[q] = ApprovalOf[r])
                  THEN cur.txn ELSE base[q]]
    /\ UNCHANGED <<disk, stage, op, acting, rec, res, mem, bound, told>>

(* Apply and LookupReceipt answer a repeated request from the ledger.      *)
ReplayRead(r) ==
    /\ cur.ledger[r] # None
    /\ told' = [told EXCEPT ![r] = cur.ledger[r]]
    /\ UNCHANGED <<disk, stage, op, acting, rec, res, mem, base, bound>>

(* Dispatch copies the event log into the outbox before it delivers.       *)
ReconcileOutbox ==
    /\ queued' = {log[i] : i \in DOMAIN log}
    /\ UNCHANGED <<cur, wal, side, log, stage, op, acting, rec, res, mem, base, bound, told>>

-----------------------------------------------------------------------------
(* Taking and giving back the lock.                                        *)

Begin(kind, arg, out) ==
    /\ stage = "free"
    /\ stage' = "recover"
    /\ op' = [kind |-> kind, arg |-> arg, out |-> out]
    /\ UNCHANGED <<disk, acting, rec, res, mem, base, told>>

BeginCommit(r) ==
    /\ ApprovalOf[r] = None
    /\ base[r] # Undrafted
    /\ Begin("commit", r, None)
    /\ UNCHANGED bound

BeginVerify(r) ==
    /\ ApprovalOf[r] # None
    /\ base[r] # Undrafted
    /\ Begin("verify", r, None)
    /\ UNCHANGED bound

(* The binding is a local variable of Apply, used for one commit.          *)
BeginApply(r) ==
    /\ r \in bound
    /\ Begin("apply", r, None)
    /\ bound' = bound \ {r}

BeginSettle(r, o) == Begin("settle", r, o) /\ UNCHANGED bound

(* An approval is issued for a candidate that was reviewed.                *)
BeginIssueApproval(a) ==
    /\ \E r \in Requests : ApprovalOf[r] = a /\ base[r] # Undrafted
    /\ Begin("issueApproval", a, None)
    /\ UNCHANGED bound

BeginRevokeApproval(a) == Begin("revokeApproval", a, None) /\ UNCHANGED bound

BeginGrant(kind) == Begin(kind, None, None) /\ UNCHANGED bound

(* Every way out of the lock forgets what the holder had in memory.        *)
Release ==
    /\ stage' = "free"
    /\ op' = Idle
    /\ acting' = FALSE
    /\ rec' = NoRec
    /\ res' = None

-----------------------------------------------------------------------------
(* Recovery, before any action.                                            *)

PointerSwitched(w) == cur.gen > 0 /\ cur = w.snap

\* Mutant of DiscardPrepared: the state of the record is taken for the state of the pointer.
DiscardAnyPrepared(w) ==
    /\ stage = "recover" /\ ~ acting
    /\ w.state = "prepared"
    /\ wal' = wal \ {w}
    /\ UNCHANGED <<cur, side, log, queued, stage, op, acting, rec, res, mem, base, bound, told>>

(* A record whose snapshot is not current is discarded ...                 *)
DiscardPrepared(w) ==
    /\ stage = "recover" /\ ~ acting
    /\ ~ PointerSwitched(w)
    /\ wal' = wal \ {w}
    /\ UNCHANGED <<cur, side, log, queued, stage, op, acting, rec, res, mem, base, bound, told>>

(* ... and one whose snapshot is current is completed.                     *)
ResumeSwitched(w) ==
    /\ stage = "recover" /\ ~ acting
    /\ PointerSwitched(w)
    /\ rec' = [state |-> "snapshot_committed", acks |-> w.acks, snap |-> w.snap]
    /\ wal' = (wal \ {w}) \cup {rec'}
    /\ stage' = "confirm"
    /\ UNCHANGED <<cur, side, log, queued, op, acting, res, mem, base, bound, told>>

RecoveryDone ==
    /\ stage = "recover" /\ ~ acting
    /\ wal = {}
    /\ acting' = TRUE
    /\ stage' = "act"
    /\ UNCHANGED <<disk, op, rec, res, mem, base, bound, told>>

-----------------------------------------------------------------------------
(* The approval file as a call sees it: consumptions of the current        *)
(* snapshot are folded in, then what has lapsed by the call's clock is     *)
(* expired.  An approval never outlives its grant.                         *)

\* Mutant of Reconciled: the file is believed as it was read.
Unreconciled == side

Reconciled ==
    [grant |-> side.grant,
     appr  |-> [a \in Approvals |-> IF a \in cur.spent THEN "consumed" ELSE side.appr[a]]]

Expired(s, lapsed, all) ==
    [grant |-> IF all /\ s.grant = "active" THEN "expired" ELSE s.grant,
     appr  |-> [a \in Approvals |->
                  IF s.appr[a] = "active" /\ (all \/ a \in lapsed) THEN "expired" ELSE s.appr[a]]]

WithApproval(s, a, v) == [grant |-> s.grant, appr |-> [s.appr EXCEPT ![a] = v]]
WithGrant(s, v)       == [grant |-> v, appr |-> s.appr]

Lapses == {lapse \in (SUBSET Approvals) \X BOOLEAN : lapse[2] => lapse[1] = {}}

(* The action of a call that only changes the approval file.               *)
Decide(s, answer) ==
    /\ mem' = s
    /\ res' = answer
    /\ stage' = "save"
    /\ UNCHANGED <<disk, op, acting, rec, base, bound, told>>

IssueGrant ==
    /\ stage = "act" /\ op.kind = "issueGrant"
    /\ IF Reconciled.grant = None
       THEN Decide(WithGrant(Reconciled, "active"), "ok")
       ELSE Decide(Reconciled, None)

(* GetGrant and GetApplyApproval read, and save what they reconciled.      *)
GetGrant ==
    /\ stage = "act" /\ op.kind = "get"
    /\ Decide(Reconciled, IF Reconciled.grant = None THEN None ELSE "ok")

IssueApplyApproval(lapse) ==
    /\ stage = "act" /\ op.kind = "issueApproval"
    /\ LET s == Expired(Reconciled, lapse[1], lapse[2])
           a == op.arg
       IN  IF s.grant = "active" /\ s.appr[a] = None
           THEN Decide(WithApproval(s, a, "active"), "ok")
           ELSE Decide(s, None)

RevokeGrant(lapse) ==
    /\ stage = "act" /\ op.kind = "revokeGrant"
    /\ LET s == Expired(Reconciled, lapse[1], lapse[2])
       IN  IF s.grant = "active"
           THEN Decide(WithGrant(s, "revoked"), "ok")
           ELSE Decide(s, None)

RevokeApplyApproval(lapse) ==
    /\ stage = "act" /\ op.kind = "revokeApproval"
    /\ LET s == Expired(Reconciled, lapse[1], lapse[2])
           a == op.arg
       IN  IF s.appr[a] = "active"
           THEN Decide(WithApproval(s, a, "revoked"), "ok")
           ELSE Decide(s, None)

Expire(lapse) ==
    /\ stage = "act" /\ op.kind = "expire"
    /\ Decide(Expired(Reconciled, lapse[1], lapse[2]), "ok")

(* verifyWorkflowApplyFacts: grant and approval are both active.           *)
FactsHold(s, r) == s.grant = "active" /\ s.appr[ApprovalOf[r]] = "active"

VerifyTrustedApplyFacts(lapse) ==
    /\ stage = "act" /\ op.kind = "verify"
    /\ LET s == Expired(Reconciled, lapse[1], lapse[2])
       IN  Decide(s, IF FactsHold(s, op.arg) THEN "ok" ELSE None)

-----------------------------------------------------------------------------
(* Committing.                                                             *)

KeyUsed(r) == \E q \in Requests : KeyOf[q] = KeyOf[r] /\ cur.ledger[q] # None

\* An applied change is verified after its commit; a plain save is settled at once.
NewStatus(r) == IF ApprovalOf[r] = None THEN "committed" ELSE "verifying"

\* Mutant of CommitSnapshot: the receipts of earlier requests are not carried over.
CommitSnapshotForgets(r) ==
    [gen    |-> cur.gen + 1,
     txn    |-> r,
     ledger |-> [q \in Requests |-> IF q = r THEN NewStatus(r) ELSE None],
     spent  |-> cur.spent \cup ({ApprovalOf[r]} \ {None})]

CommitSnapshot(r) ==
    [gen    |-> cur.gen + 1,
     txn    |-> r,
     ledger |-> [cur.ledger EXCEPT ![r] = NewStatus(r)],
     spent  |-> cur.spent \cup ({ApprovalOf[r]} \ {None})]

SettleSnapshot(r, o) ==
    [gen    |-> cur.gen + 1,
     txn    |-> cur.txn,
     ledger |-> [cur.ledger EXCEPT ![r] = o],
     spent  |-> cur.spent]

(* publishWorkflowCommitSnapshot begins with the prepared record.          *)
WritePrepared(snap) ==
    /\ rec' = [state |-> "prepared", acks |-> 0, snap |-> snap]
    /\ wal' = wal \cup {rec'}
    /\ stage' = "switch"
    /\ res' = "ok"
    /\ UNCHANGED <<cur, side, log, queued, op, acting, base, bound, told>>

\* Mutant of CommitAccepted: the expected version is not compared.
CommitAnyVersion(r) == ~ KeyUsed(r)

(* commitWorkflowLocked: a used key answers with its receipt or refuses,   *)
(* another version than the expected one refuses.                          *)
CommitAccepted(r) == ~ KeyUsed(r) /\ base[r] = cur.txn

CommitDirect ==
    /\ stage = "act" /\ op.kind = "commit"
    /\ LET r == op.arg
       IN  IF CommitAccepted(r)
           THEN WritePrepared(CommitSnapshot(r)) /\ UNCHANGED mem
           ELSE /\ res' = cur.ledger[r]
                /\ stage' = "reply"
                /\ UNCHANGED <<disk, op, acting, rec, mem, base, bound, told>>

(* ConsumeWithWorkflowCommit: the ledger answers a repeated request before *)
(* the approval is looked at again, under the lock.                        *)
ConsumeWithWorkflowCommit(lapse) ==
    /\ stage = "act" /\ op.kind = "apply"
    /\ LET r == op.arg
           s == Expired(Reconciled, lapse[1], lapse[2])
       IN  IF FactsHold(s, r) /\ CommitAccepted(r)
           THEN WritePrepared(CommitSnapshot(r)) /\ mem' = s
           ELSE Decide(s, cur.ledger[r])

(* UpdateReceiptLifecycle settles the receipt of the current transaction.  *)
UpdateReceiptLifecycle ==
    /\ stage = "act" /\ op.kind = "settle"
    /\ LET r == op.arg
       IN  IF cur.txn = r /\ cur.ledger[r] = "verifying"
           THEN WritePrepared(SettleSnapshot(r, op.out)) /\ UNCHANGED mem
           ELSE /\ res' = IF cur.txn = r /\ cur.ledger[r] = op.out THEN op.out ELSE None
                /\ stage' = "reply"
                /\ UNCHANGED <<disk, op, acting, rec, mem, base, bound, told>>

(* The manifest is replaced atomically: this is the commit point.          *)
SwitchPointer ==
    /\ stage = "switch"
    /\ cur' = rec.snap
    /\ stage' = "mark"
    /\ UNCHANGED <<wal, side, log, queued, op, acting, rec, res, mem, base, bound, told>>

PersistRecord(r) == rec' = r /\ wal' = (wal \ {rec}) \cup {r}

MarkSnapshotCommitted ==
    /\ stage = "mark"
    /\ PersistRecord([state |-> "snapshot_committed", acks |-> 0, snap |-> rec.snap])
    /\ stage' = "confirm"
    /\ UNCHANGED <<cur, side, log, queued, op, acting, res, mem, base, bound, told>>

Logged(r) == \E i \in DOMAIN log : log[i] = r

\* Mutant of Materialized: the callback does not look for the transaction first.
MaterializedAgain == Append(log, rec.snap.txn)

Materialized == IF Logged(rec.snap.txn) THEN log ELSE Append(log, rec.snap.txn)

\* Mutant of Confirm: one callback too many.
ConfirmOnceMore ==
    /\ stage = "confirm" /\ rec.acks <= 3
    /\ log' = IF rec.acks > 0 THEN Materialized ELSE log
    /\ queued' = IF rec.acks = 2 THEN queued \cup {rec.snap.txn} ELSE queued
    /\ stage' = "ack"
    /\ UNCHANGED <<cur, wal, side, op, acting, rec, res, mem, base, bound, told>>

(* One confirmation: the receipt (no callback is wired), the event log,    *)
(* the outbox.  Both callbacks look for the transaction before they write. *)
Confirm ==
    /\ stage = "confirm" /\ rec.acks < 3
    /\ log' = IF rec.acks > 0 THEN Materialized ELSE log
    /\ queued' = IF rec.acks = 2 THEN queued \cup {rec.snap.txn} ELSE queued
    /\ stage' = "ack"
    /\ UNCHANGED <<cur, wal, side, op, acting, rec, res, mem, base, bound, told>>

Ack ==
    /\ stage = "ack"
    /\ PersistRecord([state |-> rec.state, acks |-> rec.acks + 1, snap |-> rec.snap])
    /\ stage' = "confirm"
    /\ UNCHANGED <<cur, side, log, queued, op, acting, res, mem, base, bound, told>>

(* The committed record ends a recovery, or the call's own publication: a  *)
(* commit returns its receipt, an apply still has the sidecar to save.     *)
MarkCommitted ==
    /\ stage = "confirm" /\ rec.acks = 3
    /\ wal' = wal \ {rec}
    /\ rec' = NoRec
    /\ stage' = IF ~ acting THEN "recover" ELSE IF op.kind = "apply" THEN "save" ELSE "reply"
    /\ res' = IF acting THEN cur.ledger[op.arg] ELSE res
    /\ mem' = IF acting /\ op.kind = "apply"
              THEN WithApproval(mem, ApprovalOf[op.arg], "consumed") ELSE mem
    /\ UNCHANGED <<cur, side, log, queued, op, acting, base, bound, told>>

(* The file is written when it differs from what was read.                 *)
SaveSidecar ==
    /\ stage = "save"
    /\ side' = mem
    /\ stage' = "reply"
    /\ UNCHANGED <<cur, wal, log, queued, op, acting, rec, res, mem, base, bound, told>>

Recover ==
    /\ stage = "act" /\ op.kind = "recover"
    /\ stage' = "reply"
    /\ UNCHANGED <<disk, op, acting, rec, res, mem, base, bound, told>>

Reply ==
    /\ stage = "reply"
    /\ Release
    /\ told' = IF res \in Statuses THEN [told EXCEPT ![op.arg] = res] ELSE told
    /\ bound' = IF op.kind = "verify" /\ res = "ok" THEN bound \cup {op.arg} ELSE bound
    /\ mem' = side
    /\ UNCHANGED <<disk, base>>

-----------------------------------------------------------------------------
(* Faults.                                                                 *)

Publishing == acting /\ stage \in {"switch", "mark", "confirm", "ack"}

(* An error ends the call; an apply saves the sidecar even then.           *)
Fail ==
    /\ stage # "free"
    /\ IF Publishing /\ op.kind = "apply"
       THEN /\ stage' = "save"
            /\ res' = None
            /\ rec' = NoRec
            /\ UNCHANGED <<op, acting, mem>>
       ELSE Release /\ mem' = side
    /\ UNCHANGED <<disk, base, bound, told>>

(* The process stops: the lock is gone, and with it the seal key.          *)
Crash ==
    /\ stage # "free" \/ bound # {}
    /\ Release
    /\ mem' = side
    /\ bound' = {}
    /\ UNCHANGED <<disk, base, told>>

-----------------------------------------------------------------------------

Callers ==
    \/ \E r \in Requests : \/ Draft(r) \/ ReplayRead(r)
                           \/ BeginCommit(r) \/ BeginVerify(r) \/ BeginApply(r)
    \/ \E r \in Requests, o \in Outcomes : BeginSettle(r, o)
    \/ \E a \in Approvals : BeginIssueApproval(a) \/ BeginRevokeApproval(a)
    \/ \E kind \in {"issueGrant", "revokeGrant", "get", "expire", "recover"} : BeginGrant(kind)
    \/ ReconcileOutbox

Recovery ==
    \/ \E w \in wal : DiscardPrepared(w) \/ ResumeSwitched(w)
    \/ RecoveryDone

Sidecar ==
    \/ IssueGrant
    \/ GetGrant
    \/ \E lapse \in Lapses : \/ IssueApplyApproval(lapse) \/ RevokeGrant(lapse)
                             \/ RevokeApplyApproval(lapse) \/ Expire(lapse)
                             \/ VerifyTrustedApplyFacts(lapse)
                             \/ ConsumeWithWorkflowCommit(lapse)

Transaction ==
    \/ CommitDirect \/ UpdateReceiptLifecycle \/ Recover
    \/ SwitchPointer \/ MarkSnapshotCommitted \/ Confirm \/ Ack \/ MarkCommitted
    \/ SaveSidecar \/ Reply

Next == Callers \/ Recovery \/ Sidecar \/ Transaction \/ Fail \/ Crash

Spec == Init /\ [][Next]_vars

-----------------------------------------------------------------------------
(* Properties.                                                             *)

Snapshots == [gen : Nat, txn : Requests \cup {None},
              ledger : [Requests -> Statuses \cup {None}], spent : SUBSET Approvals]
Sidecars  == [grant : States, appr : [Approvals -> States]]
Records   == [state : {"prepared", "snapshot_committed"}, acks : 0..3, snap : Snapshots]
Kinds     == {"none", "commit", "apply", "verify", "settle", "issueApproval",
              "revokeApproval", "issueGrant", "revokeGrant", "get", "expire", "recover"}

(* The shape of the state; a record never has more than the three          *)
(* acknowledgements that validateWorkflowCommitWAL accepts.                *)
TypeOK ==
    /\ cur \in Snapshots
    /\ wal \subseteq Records
    /\ stage \in {"free", "recover", "act", "switch", "mark", "confirm", "ack", "save", "reply"}
    /\ op \in [kind : Kinds, arg : Requests \cup Approvals \cup {None}, out : Outcomes \cup {None}]
    /\ acting \in BOOLEAN
    /\ rec \in Records \cup {NoRec}
    /\ res \in Statuses \cup {None, "ok"}
    /\ side \in Sidecars
    /\ mem \in Sidecars
    /\ base \in [Requests -> Requests \cup {None, Undrafted}]
    /\ bound \subseteq Requests
    /\ log \in Seq(Requests)
    /\ queued \subseteq Requests
    /\ told \in [Requests -> Statuses \cup {None}]

(* A receipt handed to a caller, by the call that committed it, by a       *)
(* replay or by a settlement, is in the current ledger whatever crashed or *)
(* failed since, and an outcome that was reported is never replaced.       *)
AckedIsDurable ==
    \A r \in Requests :
        /\ told[r] # None => cur.ledger[r] # None
        /\ told[r] \in Outcomes => cur.ledger[r] = told[r]

(* Two requests sent with the same idempotency key are never both applied. *)
OneRequestPerKey ==
    \A q, r \in Requests :
        KeyOf[q] = KeyOf[r] /\ cur.ledger[q] # None /\ cur.ledger[r] # None => q = r

(* The event log is the chain of versions: each logged transaction         *)
(* replaced the one logged before it, once, and only the current one can   *)
(* still be missing.                                                       *)
EventsFollowTheChain ==
    /\ \A i \in 1..Len(log) : base[log[i]] = IF i = 1 THEN None ELSE log[i - 1]
    /\ \A r \in Requests : cur.ledger[r] # None => Logged(r) \/ r = cur.txn
    /\ \A i \in DOMAIN log : cur.ledger[log[i]] # None

(* A version that became current is in the event log and in the outbox, or *)
(* a live record will make the next holder of the lock put it there: no    *)
(* crash or failure of the publication loses its event.                    *)
NothingForgotten ==
    cur.gen > 0 =>
        \/ \E w \in wal : w.snap = cur
        \/ Logged(cur.txn) /\ cur.txn \in queued

(* An approval the file shows as revoked or expired is not the approval of *)
(* an applied request: the sidecar lags behind the snapshot only with      *)
(* approvals that are spent already.                                       *)
RevokedNeverApplied ==
    \A a \in Approvals :
        /\ a \in cur.spent => side.appr[a] \in {"active", "consumed"}
        /\ side.appr[a] = "consumed" => a \in cur.spent

(* The store implements the register.                                      *)
Register == INSTANCE WorkflowRegister WITH
    version   <- cur.txn,
    ledger    <- cur.ledger,
    approvals <- Reconciled.appr,
    grant     <- side.grant,
    published <- log

ImplementsRegister == Register!Spec
=============================================================================
