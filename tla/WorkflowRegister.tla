-------------------------- MODULE WorkflowRegister --------------------------
(***************************************************************************)
(* What the workflow commit store promises: one register per workflow key  *)
(* that is changed by compare-and-set, a ledger with one receipt for each  *)
(* applied request, approvals that are spent at most once and only while   *)
(* they are active, and a log to which every version is published before   *)
(* the next one replaces it.  No lock, no write-ahead log, no crash, no    *)
(* sidecar file: WorkflowCommit shows how the code gets there.             *)
(***************************************************************************)
EXTENDS Naturals, Sequences

CONSTANTS Requests,     \* apply and save requests; a request names its version
          Keys,         \* idempotency keys
          KeyOf,        \* the key a request is sent with
          Approvals,    \* apply approvals
          ApprovalOf,   \* the approval a request spends, or None
          Outcomes,     \* what a post-check can settle a receipt to
          None

VARIABLES version,      \* the current resource version: the last applied request
          ledger,       \* receipt status of each request, None: not applied
          approvals,    \* life cycle of each approval
          grant,        \* life cycle of the edit grant the approvals belong to
          base,         \* version each request was prepared against
          published     \* versions in the order of their events

vars == <<version, ledger, approvals, grant, base, published>>

Undrafted == "undrafted"

Init ==
    /\ version = None
    /\ ledger = [r \in Requests |-> None]
    /\ approvals = [a \in Approvals |-> None]
    /\ grant = None
    /\ base = [r \in Requests |-> Undrafted]
    /\ published = <<>>

IsPublished(r) == \E i \in DOMAIN published : published[i] = r

(* A caller reads the version its request will expect.  Requests of one     *)
(* approval were reviewed against the same version.                         *)
Draft(r) ==
    /\ base[r] = Undrafted
    /\ base' = [q \in Requests |->
                  IF q = r \/ (ApprovalOf[r] # None /\ ApprovalOf[q] = ApprovalOf[r])
                  THEN version ELSE base[q]]
    /\ UNCHANGED <<version, ledger, approvals, grant, published>>

(* The compare-and-set.  The request replaces the version it was prepared   *)
(* against, its key is new, its approval is spent with it.                  *)
Commit(r) ==
    /\ ledger[r] = None
    /\ \A q \in Requests : KeyOf[q] = KeyOf[r] => ledger[q] = None
    /\ base[r] = version
    /\ version = None \/ IsPublished(version)
    /\ ApprovalOf[r] # None => grant = "active" /\ approvals[ApprovalOf[r]] = "active"
    /\ version' = r
    /\ ledger' = [ledger EXCEPT ![r] = IF ApprovalOf[r] = None THEN "committed"
                                        ELSE "verifying"]
    /\ approvals' = [a \in Approvals |->
                       IF a = ApprovalOf[r] THEN "consumed" ELSE approvals[a]]
    /\ UNCHANGED <<grant, base, published>>

(* The post-check of the current version settles its receipt, once.         *)
Settle(r, o) ==
    /\ version = r
    /\ ledger[r] = "verifying"
    /\ IsPublished(r)
    /\ ledger' = [ledger EXCEPT ![r] = o]
    /\ UNCHANGED <<version, approvals, grant, base, published>>

Publish ==
    /\ version # None
    /\ ~ IsPublished(version)
    /\ published' = Append(published, version)
    /\ UNCHANGED <<version, ledger, approvals, grant, base>>

(* The authorities issue, revoke and expire, never touching a spent         *)
(* approval and never reviving one.                                         *)
LifeCycle == {<<None, "active">>, <<"active", "revoked">>, <<"active", "expired">>}

Authorise ==
    /\ approvals' \in [Approvals -> {None, "active", "revoked", "expired", "consumed"}]
    /\ \A a \in Approvals :
          approvals'[a] = approvals[a] \/ <<approvals[a], approvals'[a]>> \in LifeCycle
    /\ grant' = grant \/ <<grant, grant'>> \in LifeCycle
    /\ (\E a \in Approvals : approvals[a] = None /\ approvals'[a] = "active")
          => grant = "active" /\ grant' = "active"
    /\ UNCHANGED <<version, ledger, base, published>>

Next ==
    \/ \E r \in Requests : Draft(r) \/ Commit(r)
    \/ \E r \in Requests, o \in Outcomes : Settle(r, o)
    \/ Publish
    \/ Authorise

Spec == Init /\ [][Next]_vars
=============================================================================
