------------------------- MODULE ApprovalRuntimeProofs -------------------------
(***************************************************************************)
(* Proofs about ApprovalRuntime, for any number of executions and calls.   *)
(* WaitingIsFindable is not inductive: it needs that a waiter which is     *)
(* about to leave is still registered, and that no two executions hold the *)
(* same request (OwnRequests), which makes the request of a waiter that    *)
(* has not registered yet different from the registered one. The outcome   *)
(* is traced to an accepted decision through the channel (BoxWasAccepted). *)
(***************************************************************************)
EXTENDS ApprovalRuntime, TLAPS

Registered(w) == waiter[w] \in {"waiting", "leaving"}

\* Requests are fresh and never shared.
OwnRequests ==
  /\ \A w \in Waiters : holds[w] <= created /\ (waiter[w] # "idle" => holds[w] # NoRequest)
  /\ \A v, w \in Waiters : (holds[v] = holds[w] /\ holds[v] # NoRequest) => v = w

\* Who waits or leaves is registered, and only they are.
RegistrationExact ==
  /\ \A w \in Waiters : Registered(w) => pending = holds[w]
  /\ RegistrationHasWaiter

\* What lies in a channel was accepted; a call that sends has looked a request up.
BoxWasAccepted ==
  /\ \A q \in Requests :
       box[q] # "empty" => WasAccepted(q, box[q])
  /\ \A c \in Callers : caller[c] = "sending" => found[c] \in Requests

IInv == TypeOK /\ OwnRequests /\ RegistrationExact /\ BoxWasAccepted /\ OutcomeWasAccepted

-------------------------------------------------------------------------------
\* The initial state: nobody waits and nothing is accepted.
LEMMA InitInv == Init => IInv
<1> SUFFICES ASSUME Init PROVE IInv
  OBVIOUS
<1> USE ApprovalConstants DEF Init, Requests, NoRequest, Decisions
<1>1. TypeOK
  <2>1. /\ created \in 0..MaxRequests /\ calls \in 0..MaxCalls
        /\ pending \in Requests \cup {NoRequest}
        /\ timeout \in {"none", "set", "invalid"}
    OBVIOUS
  <2>4. ctxDone \in BOOLEAN
    BY Zenon
  <2>2. /\ box \in [Requests -> Decisions \cup {"empty"}]
        /\ outcome \in [Requests -> Outcome]
        /\ accepted \in [Requests -> Seq(Decisions)]
    BY DEF Outcome
  <2>3. /\ waiter \in [Waiters -> {"idle", "register", "waiting", "leaving"}]
        /\ holds \in [Waiters -> Requests \cup {NoRequest}]
        /\ caller \in [Callers -> {"idle", "polling", "sending"}]
        /\ found \in [Callers -> Requests \cup {NoRequest}]
        /\ says \in [Callers -> Decisions]
    OBVIOUS
  <2> QED
    BY <2>1, <2>2, <2>3, <2>4 DEF TypeOK
<1>2. OwnRequests /\ RegistrationExact
  BY DEF OwnRequests, RegistrationExact, RegistrationHasWaiter, Registered
<1>3. BoxWasAccepted /\ OutcomeWasAccepted
  BY DEF BoxWasAccepted, OutcomeWasAccepted
<1> QED
  BY <1>1, <1>2, <1>3 DEF IInv

\* Whoever has made a request holds one.
LEMMA HoldsRequest ==
  ASSUME IInv, NEW w \in Waiters, waiter[w] # "idle"
  PROVE  holds[w] \in Requests
BY ApprovalConstants DEF IInv, TypeOK, OwnRequests, NoRequest

\* Every step of a node's execution, of a call and of a cancel keeps the types.
LEMMA TypeStep == IInv /\ [Next]_vars => TypeOK'
<1> SUFFICES ASSUME IInv, [Next]_vars PROVE TypeOK'
  OBVIOUS
<1> USE ApprovalConstants DEF IInv, TypeOK
<1>1. ASSUME NEW w \in Waiters, Wait(w) PROVE TypeOK'
  BY <1>1 DEF Wait, Requests
<1>2. ASSUME NEW w \in Waiters, Register(w) PROVE TypeOK'
  <2>1. holds[w] \in Requests
    BY <1>2, HoldsRequest DEF Register
  <2>2. CASE pending = NoRequest
    BY <1>2, <2>1, <2>2 DEF Register
  <2>3. CASE pending # NoRequest
    BY <1>2, <2>1, <2>3 DEF Register, Outcome
  <2> QED
    BY <2>2, <2>3
<1>3. ASSUME NEW w \in Waiters, TakeDecision(w) PROVE TypeOK'
  <2>1. holds[w] \in Requests
    BY <1>3, HoldsRequest DEF TakeDecision
  <2>2. box[holds[w]] \in Decisions
    BY <1>3, <2>1 DEF TakeDecision
  <2> QED
    BY <1>3, <2>1, <2>2 DEF TakeDecision, Return, Outcome
<1>4. ASSUME NEW w \in Waiters, TimeOut(w) \/ Fail(w) PROVE TypeOK'
  BY <1>4 DEF TimeOut, Fail, Return, Outcome
<1>5. ASSUME NEW w \in Waiters, Unregister(w) PROVE TypeOK'
  BY <1>5 DEF Unregister
<1>6. ASSUME NEW c \in Callers, NEW d \in Decisions, Call(c, d) PROVE TypeOK'
  BY <1>6 DEF Call
<1>7. ASSUME NEW c \in Callers, Lookup(c) \/ GiveUp(c) PROVE TypeOK'
  BY <1>7 DEF Lookup, GiveUp
<1>8. ASSUME NEW c \in Callers, Send(c) PROVE TypeOK'
  <2>1. found[c] \in Requests /\ says[c] \in Decisions
    BY <1>8 DEF Send, BoxWasAccepted
  <2>2. accepted' \in [Requests -> Seq(Decisions)]
    <3>1. accepted[found[c]] \in Seq(Decisions)
      BY <2>1
    <3>2. Append(accepted[found[c]], says[c]) \in Seq(Decisions)
      BY <2>1, <3>1
    <3> QED
      BY <1>8, <2>1, <3>2 DEF Send
  <2>3. box' \in [Requests -> Decisions \cup {"empty"}]
    BY <1>8, <2>1 DEF Send
  <2> QED
    BY <1>8, <2>2, <2>3 DEF Send
<1>9. CASE CancelRun
  BY <1>9 DEF CancelRun
<1>10. CASE UNCHANGED vars
  BY <1>10 DEF vars
<1> QED
  BY <1>1, <1>2, <1>3, <1>4, <1>5, <1>6, <1>7, <1>8, <1>9, <1>10
  DEF Next, WaiterStep, CallerStep

\* Requests stay fresh and owned, and exactly the waiting and the leaving executions
\* are registered.
LEMMA RegistrationStep ==
  IInv /\ [Next]_vars => OwnRequests' /\ RegistrationExact'
<1> SUFFICES ASSUME IInv, [Next]_vars PROVE OwnRequests' /\ RegistrationExact'
  OBVIOUS
<1> USE ApprovalConstants
    DEF IInv, TypeOK, Requests, NoRequest, OwnRequests, RegistrationExact,
        RegistrationHasWaiter, Registered
<1>1. ASSUME NEW w \in Waiters, Wait(w) PROVE OwnRequests' /\ RegistrationExact'
  BY <1>1 DEF Wait
<1>2. ASSUME NEW w \in Waiters, Register(w) PROVE OwnRequests' /\ RegistrationExact'
  <2>1. CASE pending = NoRequest
    <3>1. \A v \in Waiters : v # w => ~Registered(v) /\ waiter'[v] = waiter[v]
      BY <1>2, <2>1 DEF Register
    <3>2. /\ waiter'[w] = "waiting" /\ pending' = holds[w]
          /\ holds' = holds /\ created' = created
      BY <1>2, <2>1 DEF Register
    <3>3. OwnRequests'
      BY <1>2, <3>1, <3>2 DEF Register
    <3>4. RegistrationExact'
      BY <3>1, <3>2
    <3> QED
      BY <3>3, <3>4
  <2>2. CASE pending # NoRequest
    <3>1. PICK v \in Waiters : holds[v] = pending /\ Registered(v)
      BY <2>2
    <3>2. v # w
      BY <1>2, <3>1 DEF Register
    <3>3. /\ waiter' = [waiter EXCEPT ![w] = "idle"]
          /\ holds' = [holds EXCEPT ![w] = NoRequest]
          /\ pending' = pending /\ created' = created
      BY <1>2, <2>2 DEF Register
    <3>4. OwnRequests'
      BY <3>3
    <3>5. RegistrationHasWaiter'
      BY <3>1, <3>2, <3>3
    <3>6. \A u \in Waiters : Registered(u)' => pending' = holds'[u]
      BY <3>3
    <3> QED
      BY <3>4, <3>5, <3>6
  <2> QED
    BY <2>1, <2>2
<1>3. ASSUME NEW w \in Waiters, TakeDecision(w) \/ TimeOut(w) \/ Fail(w)
      PROVE OwnRequests' /\ RegistrationExact'
  BY <1>3 DEF TakeDecision, TimeOut, Fail, Return
<1>4. ASSUME NEW w \in Waiters, Unregister(w) PROVE OwnRequests' /\ RegistrationExact'
  BY <1>4 DEF Unregister
<1>5. ASSUME NEW c \in Callers, CallerStep(c) PROVE OwnRequests' /\ RegistrationExact'
  BY <1>5 DEF CallerStep, Call, Lookup, GiveUp, Send
<1>6. CASE CancelRun \/ UNCHANGED vars
  BY <1>6 DEF CancelRun, vars
<1> QED
  BY <1>1, <1>2, <1>3, <1>4, <1>5, <1>6 DEF Next, WaiterStep

\* A step that accepts nothing leaves what was accepted.
LEMMA AcceptedSame ==
  ASSUME accepted' = accepted
  PROVE  \A q \in Requests, d \in Decisions : WasAccepted(q, d)' = WasAccepted(q, d)
BY DEF WasAccepted

\* Resolve adds to what was accepted, and what it puts into a channel is accepted.
LEMMA AcceptedBySend ==
  ASSUME IInv, NEW c \in Callers, Send(c)
  PROVE  /\ \A q \in Requests, d \in Decisions : WasAccepted(q, d) => WasAccepted(q, d)'
         /\ \A q \in Requests : box'[q] = box[q] \/ WasAccepted(q, box[q])'
         /\ \A q \in Requests : box'[q] \in Decisions \cup {"empty"}
<1> DEFINE r == found[c]
<1>1. r \in Requests /\ says[c] \in Decisions /\ accepted[r] \in Seq(Decisions)
  BY DEF Send, IInv, TypeOK, BoxWasAccepted
<1>2. CASE box' = box /\ accepted' = accepted
  BY <1>2, AcceptedSame DEF IInv, TypeOK
<1>3. CASE /\ box' = [box EXCEPT ![r] = says[c]]
           /\ accepted' = [accepted EXCEPT ![r] = Append(@, says[c])]
  <2>1. /\ accepted'[r] = Append(accepted[r], says[c])
        /\ \A q \in Requests : q # r => accepted'[q] = accepted[q]
    BY <1>1, <1>3 DEF IInv, TypeOK
  <2>2. /\ Len(accepted'[r]) = Len(accepted[r]) + 1
        /\ accepted'[r][Len(accepted[r]) + 1] = says[c]
        /\ \A i \in 1..Len(accepted[r]) : accepted'[r][i] = accepted[r][i]
        /\ Len(accepted[r]) \in Nat
    BY <1>1, <2>1
  <2>3. \A q \in Requests, d \in Decisions : WasAccepted(q, d) => WasAccepted(q, d)'
    BY <2>1, <2>2 DEF WasAccepted
  <2>5. box'[r] = says[c] /\ \A q \in Requests : q # r => box'[q] = box[q]
    BY <1>1, <1>3 DEF IInv, TypeOK
  <2>6. \A q \in Requests : box'[q] = box[q] \/ WasAccepted(q, box[q])'
    <3> SUFFICES ASSUME NEW q \in Requests, q = r PROVE WasAccepted(q, box[q])'
      BY <2>5
    <3>1. Len(accepted[r]) + 1 \in 1..Len(accepted'[q])
      BY <2>2
    <3>2. accepted'[q][Len(accepted[r]) + 1] = box'[q]
      BY <2>2, <2>5
    <3> QED
      BY <3>1, <3>2 DEF WasAccepted
  <2> QED
    BY <1>1, <2>3, <2>5, <2>6 DEF IInv, TypeOK
<1> QED
  BY <1>2, <1>3 DEF Send

\* A decision passes from an accepted call through the channel to the outcome.
LEMMA DecisionStep ==
  IInv /\ [Next]_vars => BoxWasAccepted' /\ OutcomeWasAccepted'
<1> SUFFICES ASSUME IInv, [Next]_vars PROVE BoxWasAccepted' /\ OutcomeWasAccepted'
  OBVIOUS
<1> USE DEF IInv, TypeOK, BoxWasAccepted, OutcomeWasAccepted
<1>1. ASSUME accepted' = accepted, box' = box, outcome' = outcome, caller' = caller,
             found' = found
      PROVE BoxWasAccepted' /\ OutcomeWasAccepted'
  BY <1>1, AcceptedSame DEF WasAccepted
<1>2. ASSUME NEW w \in Waiters, Register(w) PROVE BoxWasAccepted' /\ OutcomeWasAccepted'
  <2>1. \A q \in Requests : outcome'[q] = outcome[q] \/ outcome'[q] = "conflict"
    BY <1>2 DEF Register
  <2>2. accepted' = accepted /\ box' = box /\ caller' = caller /\ found' = found
    BY <1>2 DEF Register
  <2>3. ASSUME NEW q \in Requests, outcome'[q] \in Decisions PROVE WasAccepted(q, outcome[q])'
    <3>1. outcome'[q] = outcome[q]
      BY <2>1, <2>3 DEF Decisions
    <3> QED
      BY <2>2, <2>3, <3>1 DEF WasAccepted
  <2>4. ASSUME NEW q \in Requests, box'[q] # "empty" PROVE WasAccepted(q, box[q])'
    BY <2>2, <2>4 DEF WasAccepted
  <2>5. ASSUME NEW v \in Callers, caller'[v] = "sending" PROVE found'[v] \in Requests
    BY <2>2, <2>5
  <2> QED
    BY <2>3, <2>4, <2>5
<1>3. ASSUME NEW w \in Waiters, TakeDecision(w) PROVE BoxWasAccepted' /\ OutcomeWasAccepted'
  <2>1. holds[w] \in Requests
    BY <1>3, HoldsRequest DEF TakeDecision
  <2>2. WasAccepted(holds[w], box[holds[w]])
    BY <1>3, <2>1 DEF TakeDecision
  <2>3. \A q \in Requests : box'[q] = box[q] \/ box'[q] = "empty"
    BY <1>3 DEF TakeDecision
  <2>4. \A q \in Requests : outcome'[q] = outcome[q]
                             \/ (q = holds[w] /\ outcome'[q] = box[q])
    BY <1>3 DEF TakeDecision, Return
  <2>5. accepted' = accepted /\ caller' = caller /\ found' = found
    BY <1>3 DEF TakeDecision
  <2> QED
    <3>1. ASSUME NEW q \in Requests, box'[q] # "empty" PROVE WasAccepted(q, box[q])'
      BY <2>3, <2>5, <3>1 DEF WasAccepted
    <3>2. ASSUME NEW q \in Requests, outcome'[q] \in Decisions
          PROVE WasAccepted(q, outcome[q])'
      BY ZenonT(40), <2>2, <2>4, <2>5, <3>2 DEF WasAccepted
    <3> QED
      BY <2>5, <3>1, <3>2
<1>4. ASSUME NEW w \in Waiters, TimeOut(w) \/ Fail(w)
      PROVE BoxWasAccepted' /\ OutcomeWasAccepted'
  <2>1. \A q \in Requests : outcome'[q] = outcome[q] \/ outcome'[q] \in {"timeout", "error"}
    BY <1>4 DEF TimeOut, Fail, Return
  <2>2. accepted' = accepted /\ box' = box /\ caller' = caller /\ found' = found
    BY <1>4 DEF TimeOut, Fail
  <2>3. ASSUME NEW q \in Requests, outcome'[q] \in Decisions PROVE WasAccepted(q, outcome[q])'
    <3>1. outcome'[q] = outcome[q]
      BY <2>1, <2>3 DEF Decisions
    <3> QED
      BY <2>2, <2>3, <3>1 DEF WasAccepted
  <2>4. ASSUME NEW q \in Requests, box'[q] # "empty" PROVE WasAccepted(q, box[q])'
    BY <2>2, <2>4 DEF WasAccepted
  <2>5. ASSUME NEW v \in Callers, caller'[v] = "sending" PROVE found'[v] \in Requests
    BY <2>2, <2>5
  <2> QED
    BY <2>3, <2>4, <2>5
<1>5. ASSUME NEW c \in Callers, NEW d \in Decisions, Call(c, d)
      PROVE BoxWasAccepted' /\ OutcomeWasAccepted'
  BY <1>5 DEF Call, WasAccepted
<1>6. ASSUME NEW c \in Callers, Lookup(c) \/ GiveUp(c)
      PROVE BoxWasAccepted' /\ OutcomeWasAccepted'
  <2>1. accepted' = accepted /\ box' = box /\ outcome' = outcome
    BY <1>6 DEF Lookup, GiveUp
  <2>2. \A v \in Callers : caller'[v] = "sending" => found'[v] \in Requests
    BY <1>6 DEF Lookup, GiveUp
  <2> QED
    BY <2>1, <2>2 DEF WasAccepted
<1>7. ASSUME NEW c \in Callers, Send(c) PROVE BoxWasAccepted' /\ OutcomeWasAccepted'
  <2>1. outcome' = outcome /\ caller' = [caller EXCEPT ![c] = "idle"]
        /\ found' = [found EXCEPT ![c] = NoRequest]
    BY <1>7 DEF Send
  <2>2. OutcomeWasAccepted'
    BY <1>7, <2>1, AcceptedBySend
  <2>3. \A q \in Requests : box'[q] # "empty" => WasAccepted(q, box[q])'
    <3> SUFFICES ASSUME NEW q \in Requests, box'[q] # "empty" PROVE WasAccepted(q, box[q])'
      OBVIOUS
    <3>1. CASE box'[q] = box[q]
      <4>1. box[q] \in Decisions /\ WasAccepted(q, box[q])
        BY <3>1
      <4>2. WasAccepted(q, box[q])'
        BY <1>7, <3>1, <4>1, AcceptedBySend DEF WasAccepted
      <4> QED
        BY <3>1, <4>2
    <3>2. CASE WasAccepted(q, box[q])'
      BY <3>2
    <3> QED
      BY <1>7, <3>1, <3>2, AcceptedBySend
  <2>4. \A v \in Callers : caller'[v] = "sending" => found'[v] \in Requests
    BY <2>1
  <2> QED
    BY <2>2, <2>3, <2>4
<1>8. ASSUME NEW w \in Waiters, Wait(w) \/ Unregister(w)
      PROVE BoxWasAccepted' /\ OutcomeWasAccepted'
  BY <1>1, <1>8 DEF Wait, Unregister
<1>9. CASE CancelRun \/ UNCHANGED vars
  BY <1>1, <1>9 DEF CancelRun, vars
<1> QED
  BY <1>2, <1>3, <1>4, <1>5, <1>6, <1>7, <1>8, <1>9 DEF Next, WaiterStep, CallerStep

-------------------------------------------------------------------------------
\* The inductive invariant.
LEMMA Inductive == Spec => []IInv
<1>1. IInv /\ [Next]_vars => IInv'
  BY TypeStep, RegistrationStep, DecisionStep DEF IInv
<1> QED
  BY InitInv, <1>1, PTL DEF Spec

\* wait, register, unregister and Resolve keep the types of the coordinator.
THEOREM ApprovalTypes == Spec => []TypeOK
<1>1. IInv => TypeOK
  BY DEF IInv
<1> QED
  BY Inductive, <1>1, PTL

\* For any number of concurrent executions of the node, the one that waits is the
\* one lookup returns: register refuses a second one and unregister removes only
\* its own.
THEOREM WaitingFindable == Spec => []WaitingIsFindable
<1>1. IInv => WaitingIsFindable
  BY DEF IInv, RegistrationExact, Registered, WaitingIsFindable
<1> QED
  BY Inductive, <1>1, PTL

\* The deferred unregister runs on every way out of wait: no registration is left
\* behind.
THEOREM NoStaleRegistration == Spec => []RegistrationHasWaiter
<1>1. IInv => RegistrationHasWaiter
  BY DEF IInv, RegistrationExact
<1> QED
  BY Inductive, <1>1, PTL

\* A node is approved or rejected only by a decision that Resolve accepted for that
\* very request.
THEOREM OutcomeAccepted == Spec => []OutcomeWasAccepted
<1>1. IInv => OutcomeWasAccepted
  BY DEF IInv
<1> QED
  BY Inductive, <1>1, PTL
===============================================================================
