-------------------------- MODULE MCWorkflowCommit --------------------------
(* A small instance of WorkflowCommit: "save" and "edit" are plain saves,   *)
(* "apply" and "again" spend one approval with two keys, as a double        *)
(* submission from two tabs does, and "again" reuses the key of "edit".     *)
EXTENDS WorkflowCommit, TLC

CONSTANTS save, edit, apply, again, a1, k1, k2, k3, done

MCRequests   == {save, edit, apply, again}
MCKeys       == {k1, k2, k3}
MCKeyOf      == (save :> k1) @@ (edit :> k2) @@ (apply :> k3) @@ (again :> k2)
MCApprovals  == {a1}
MCApprovalOf == (save :> None) @@ (edit :> None) @@ (apply :> a1) @@ (again :> a1)
MCOutcomes   == {done}
=============================================================================
