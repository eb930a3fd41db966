CONSTANTS
    None = None
    save = save
    edit = edit
    apply = apply
    again = again
    a1 = a1
    k1 = k1
    k2 = k2
    k3 = k3
    done = done
    Requests <- MCRequests
    Keys <- MCKeys
    KeyOf <- MCKeyOf
    Approvals <- MCApprovals
    ApprovalOf <- MCApprovalOf
    Outcomes <- MCOutcomes
SPECIFICATION Spec
INVARIANTS
    TypeOK
    AckedIsDurable
    EventsFollowTheChain
    NothingForgotten
    RevokedNeverApplied
PROPERTIES
    ImplementsRegister
