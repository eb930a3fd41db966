---------------------------- MODULE ApprovalRuntime ----------------------------
(***************************************************************************)
(* The approval coordinator of the run service                             *)
(* (pkg/runner/server/service/approval_runtime.go), for one node of one    *)
(* run. A graph node that needs an approval registers a request and waits  *)
(* on the request's own channel of one place; API calls look the request   *)
(* up and send their decision. Several executions may wait at the node     *)
(* over time (the iterations of a loop) or at once (a subflow that runs    *)
(* twice), and several calls may resolve it.                               *)
(***************************************************************************)
EXTENDS Naturals, Sequences

CONSTANTS
  Waiters,     \* graph-node goroutines
  Callers,     \* API calls
  MaxRequests, \* bound: requests created
  MaxCalls     \* bound: API calls made

ASSUME ApprovalConstants == MaxRequests \in Nat /\ MaxCalls \in Nat

Requests  == 1..MaxRequests
NoRequest == 0
Decisions == {"approve", "reject"}

VARIABLES
  created,  \* requests created so far
  pending,  \* the request registered for the node
  box,      \* box[q]: the channel of request q: a decision or "empty"
  waiter,   \* waiter[w]: "idle", "register", "waiting", "leaving"
  holds,    \* holds[w]: the request of w
  outcome,  \* outcome[q]: what WaitForApproval returned for q
  caller,   \* caller[c]: "idle", "polling", "sending"
  found,    \* found[c]: the request c has looked up
  says,     \* says[c]: its decision
  accepted, \* accepted[q]: the decisions for which Resolve returned nil, in order
  calls,    \* API calls made so far
  ctxDone,  \* the run's context is canceled
  timeout   \* the node's timeout: "none", "set" or "invalid" (it does not parse)

vars == <<created, pending, box, waiter, holds, outcome, caller, found, says,
          accepted, calls, ctxDone, timeout>>

Outcome == Decisions \cup {"none", "timeout", "error", "conflict"}

TypeOK ==
  /\ created \in 0..MaxRequests
  /\ pending \in Requests \cup {NoRequest}
  /\ box \in [Requests -> Decisions \cup {"empty"}]
  /\ waiter \in [Waiters -> {"idle", "register", "waiting", "leaving"}]
  /\ holds \in [Waiters -> Requests \cup {NoRequest}]
  /\ outcome \in [Requests -> Outcome]
  /\ caller \in [Callers -> {"idle", "polling", "sending"}]
  /\ found \in [Callers -> Requests \cup {NoRequest}]
  /\ says \in [Callers -> Decisions]
  /\ accepted \in [Requests -> Seq(Decisions)]
  /\ calls \in 0..MaxCalls
  /\ ctxDone \in BOOLEAN
  /\ timeout \in {"none", "set", "invalid"}

Init ==
  /\ created = 0
  /\ pending = NoRequest
  /\ box = [q \in Requests |-> "empty"]
  /\ waiter = [w \in Waiters |-> "idle"]
  /\ holds = [w \in Waiters |-> NoRequest]
  /\ outcome = [q \in Requests |-> "none"]
  /\ caller = [c \in Callers |-> "idle"]
  /\ found = [c \in Callers |-> NoRequest]
  /\ says = [c \in Callers |-> "approve"]
  /\ accepted = [q \in Requests |-> <<>>]
  /\ calls = 0
  /\ ctxDone = FALSE
  /\ timeout \in {"none", "set", "invalid"}

-------------------------------------------------------------------------------
(* WaitForApproval.                                                        *)

\* wait makes a request with a channel of its own.
Wait(w) ==
  /\ waiter[w] = "idle"
  /\ created < MaxRequests
  /\ created' = created + 1
  /\ holds' = [holds EXCEPT ![w] = created + 1]
  /\ waiter' = [waiter EXCEPT ![w] = "register"]
  /\ UNCHANGED <<pending, box, outcome, caller, found, says, accepted, calls, ctxDone, timeout>>

\* Mutant of Register: a request that is already waiting is replaced.
RegisterReplaces(w) ==
  /\ waiter[w] = "register"
  /\ pending' = holds[w]
  /\ waiter' = [waiter EXCEPT ![w] = "waiting"]
  /\ UNCHANGED <<created, box, holds, outcome, caller, found, says, accepted, calls,
                 ctxDone, timeout>>

\* register: refused while another request of the node waits; wait then returns
\* before its deferred unregister is set up.
Register(w) ==
  /\ waiter[w] = "register"
  /\ \/ /\ pending = NoRequest
        /\ pending' = holds[w]
        /\ waiter' = [waiter EXCEPT ![w] = "waiting"]
        /\ UNCHANGED <<outcome, holds>>
     \/ /\ pending # NoRequest
        /\ outcome' = [outcome EXCEPT ![holds[w]] = "conflict"]
        /\ waiter' = [waiter EXCEPT ![w] = "idle"]
        /\ holds' = [holds EXCEPT ![w] = NoRequest]
        /\ UNCHANGED pending
  /\ UNCHANGED <<created, box, caller, found, says, accepted, calls, ctxDone, timeout>>

\* The select of wait, whose ready cases are picked at random: a decision, the
\* timer or the context.
Return(w, result) ==
  /\ waiter[w] = "waiting"
  /\ waiter' = [waiter EXCEPT ![w] = "leaving"]
  /\ outcome' = [outcome EXCEPT ![holds[w]] = result]

\* Mutant of TakeDecision: a receive that does not wait, as from a closed channel.
TakeDecisionClosed(w) ==
  /\ waiter[w] = "waiting" /\ timeout # "invalid"
  /\ Return(w, box[holds[w]])
  /\ box' = [box EXCEPT ![holds[w]] = "empty"]
  /\ UNCHANGED <<created, pending, holds, caller, found, says, accepted, calls, ctxDone, timeout>>

TakeDecision(w) ==
  /\ waiter[w] = "waiting" /\ timeout # "invalid"
  /\ box[holds[w]] # "empty"
  /\ Return(w, box[holds[w]])
  /\ box' = [box EXCEPT ![holds[w]] = "empty"]
  /\ UNCHANGED <<created, pending, holds, caller, found, says, accepted, calls, ctxDone, timeout>>

TimeOut(w) ==
  /\ timeout = "set"
  /\ Return(w, "timeout")
  /\ UNCHANGED <<created, pending, box, holds, caller, found, says, accepted, calls,
                 ctxDone, timeout>>

\* The context is done, or approvalTimeout failed and the select is not reached.
Fail(w) ==
  /\ ctxDone \/ timeout = "invalid"
  /\ Return(w, "error")
  /\ UNCHANGED <<created, pending, box, holds, caller, found, says, accepted, calls,
                 ctxDone, timeout>>

\* Mutant of Unregister: a waiter that did not get a decision forgets to unregister.
UnregisterDecided(w) ==
  /\ waiter[w] = "leaving"
  /\ pending' = IF pending = holds[w] /\ outcome[holds[w]] \in Decisions
                THEN NoRequest ELSE pending
  /\ waiter' = [waiter EXCEPT ![w] = "idle"]
  /\ holds' = [holds EXCEPT ![w] = NoRequest]
  /\ UNCHANGED <<created, box, outcome, caller, found, says, accepted, calls, ctxDone, timeout>>

\* The deferred unregister, which removes only its own request.
Unregister(w) ==
  /\ waiter[w] = "leaving"
  /\ pending' = IF pending = holds[w] THEN NoRequest ELSE pending
  /\ waiter' = [waiter EXCEPT ![w] = "idle"]
  /\ holds' = [holds EXCEPT ![w] = NoRequest]
  /\ UNCHANGED <<created, box, outcome, caller, found, says, accepted, calls, ctxDone, timeout>>

-------------------------------------------------------------------------------
(* ApproveNode and RejectNode.                                             *)

Call(c, d) ==
  /\ caller[c] = "idle"
  /\ calls < MaxCalls
  /\ calls' = calls + 1
  /\ caller' = [caller EXCEPT ![c] = "polling"]
  /\ says' = [says EXCEPT ![c] = d]
  /\ UNCHANGED <<created, pending, box, waiter, holds, outcome, found, accepted, ctxDone, timeout>>

\* lookup finds the request and unlocks.
Lookup(c) ==
  /\ caller[c] = "polling"
  /\ pending # NoRequest
  /\ found' = [found EXCEPT ![c] = pending]
  /\ caller' = [caller EXCEPT ![c] = "sending"]
  /\ UNCHANGED <<created, pending, box, waiter, holds, outcome, says, accepted, calls,
                 ctxDone, timeout>>

\* No request after 500 ms of polling, or the caller has gone: an error.
GiveUp(c) ==
  /\ caller[c] = "polling"
  /\ caller' = [caller EXCEPT ![c] = "idle"]
  /\ UNCHANGED <<created, pending, box, waiter, holds, outcome, found, says, accepted,
                 calls, ctxDone, timeout>>

\* Mutant of Send: the decision goes to whatever request the node has by now.
SendToNode(c) ==
  /\ caller[c] = "sending"
  /\ pending # NoRequest
  /\ box' = [box EXCEPT ![pending] = says[c]]
  /\ accepted' = [accepted EXCEPT ![found[c]] = Append(@, says[c])]
  /\ caller' = [caller EXCEPT ![c] = "idle"]
  /\ found' = [found EXCEPT ![c] = NoRequest]
  /\ UNCHANGED <<created, pending, waiter, holds, outcome, says, calls, ctxDone, timeout>>

\* Resolve's select: sent and accepted, or an error because the place is taken (or
\* the caller has gone).
Send(c) ==
  LET q == found[c] IN
  /\ caller[c] = "sending"
  /\ \/ /\ box[q] = "empty"
        /\ box' = [box EXCEPT ![q] = says[c]]
        /\ accepted' = [accepted EXCEPT ![q] = Append(@, says[c])]
     \/ UNCHANGED <<box, accepted>>
  /\ caller' = [caller EXCEPT ![c] = "idle"]
  /\ found' = [found EXCEPT ![c] = NoRequest]
  /\ UNCHANGED <<created, pending, waiter, holds, outcome, says, calls, ctxDone, timeout>>

\* The run is canceled.
CancelRun ==
  /\ ~ctxDone
  /\ ctxDone' = TRUE
  /\ UNCHANGED <<created, pending, box, waiter, holds, outcome, caller, found, says,
                 accepted, calls, timeout>>

WaiterStep(w) ==
  \/ Wait(w) \/ Register(w) \/ Unregister(w)
  \/ TakeDecision(w) \/ TimeOut(w) \/ Fail(w)

CallerStep(c) ==
  \/ \E d \in Decisions : Call(c, d)
  \/ Lookup(c) \/ GiveUp(c) \/ Send(c)

Next ==
  \/ \E w \in Waiters : WaiterStep(w)
  \/ \E c \in Callers : CallerStep(c)
  \/ CancelRun

Spec == Init /\ [][Next]_vars

-------------------------------------------------------------------------------
\* A node that waits can be found: its request is the registered one, whatever
\* other executions of the node come and go.
WaitingIsFindable ==
  \A w \in Waiters : waiter[w] = "waiting" => pending = holds[w]

\* The registration never outlives its waiter, so that no call is accepted for a
\* node nobody executes and no later execution is refused for ever.
RegistrationHasWaiter ==
  pending # NoRequest =>
    \E w \in Waiters : holds[w] = pending /\ waiter[w] \in {"waiting", "leaving"}

\* Resolve has accepted decision d for request q.
WasAccepted(q, d) == \E i \in 1..Len(accepted[q]) : accepted[q][i] = d

\* A human outcome was decided for that very request: a decision made for one
\* iteration is never applied to the next one.
OutcomeWasAccepted ==
  \A q \in Requests :
    outcome[q] \in Decisions => WasAccepted(q, outcome[q])
===============================================================================
