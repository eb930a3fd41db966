----------------------------- MODULE GraphExecutor -----------------------------
(***************************************************************************)
(* The executor of graph workflows                                         *)
(* (pkg/runner/executor/graph_executor.go): GraphExecutor.Run executes the *)
(* top-level nodes of a graph in waves. A wave is every node that is ready *)
(* when the loop comes round; its nodes run concurrently, and when all of  *)
(* them have returned their results are applied: statuses, first failure,  *)
(* and the outgoing edges they select, which make the next nodes ready.    *)
(*                                                                         *)
(* The variables of a workflow matter only for which conditions hold, so   *)
(* a condition is a choice. A node that does work (action, loop, approval, *)
(* subflow, aggregator) succeeds or fails. A node can have a parent, a     *)
(* loop or a group: Run schedules only nodes without one (topLevelOnly),   *)
(* the nodes inside a loop are the loop's work (runLoopNode).              *)
(***************************************************************************)
EXTENDS Naturals, FiniteSets

CONSTANTS
  Nodes, Edges,
  Source, Target,  \* the ends of an edge
  Parent,          \* ParentID of a node, or NoParent
  NoParent,
  StartNode,
  JoinNodes,
  PlainNodes,      \* parallel, end and condition nodes: they always succeed
  FailureThreshold,
  Kindings,        \* the edge kinds to execute the graph with
  Strategies       \* the join strategies to execute it with

\* The kinds that selectedOutgoing and hasContinuation treat alike share a name: next
\* is also the empty kind and success, failure also approval_rejected, condition also
\* if. approval_approved is a next whose node has no continue_on_error.
Kinds == {"next", "failure", "always", "condition", "else"}

JoinStrategies == {"all_success", "any_success", "always", "failure_threshold"}

ASSUME GraphConstants ==
  /\ Source \in [Edges -> Nodes] /\ Target \in [Edges -> Nodes]
  /\ Parent \in [Nodes -> Nodes \cup {NoParent}] /\ NoParent \notin Nodes
  /\ StartNode \in Nodes /\ JoinNodes \subseteq Nodes /\ PlainNodes \subseteq Nodes
  /\ FailureThreshold \in Nat
  /\ Kindings \subseteq [Edges -> Kinds]
  /\ Strategies \subseteq JoinStrategies

\* Every path from one node to another has the same length.
Layered ==
  \E rank \in [Nodes -> Nat] :
    rank[StartNode] = 0 /\ \A e \in Edges : rank[Target[e]] = rank[Source[e]] + 1

VARIABLES
  kind,             \* kind[e]: fixed by the workflow
  strategy,         \* strategy of the join nodes: fixed by the workflow
  continueOnError,  \* nodes whose step says continue_on_error: fixed by the workflow
  status,           \* status[n]: "none" until the node's result is applied
  selected,         \* selectedIncoming: the edges selected so far
  wave,             \* the nodes of the wave in progress
  result,           \* result[n]: what a node of the wave has returned
  round,            \* waves begun
  failure,          \* firstFailure is set
  canceled,         \* the context is done
  verdict           \* what Run returns: "none" while it runs

workflow == <<kind, strategy, continueOnError>>
vars     == <<workflow, status, selected, wave, result, round, failure, canceled, verdict>>

NodeStatus == {"none", "success", "failed"}

TypeOK ==
  /\ kind \in [Edges -> Kinds]
  /\ strategy \in JoinStrategies
  /\ continueOnError \subseteq Nodes
  /\ status \in [Nodes -> NodeStatus]
  /\ selected \subseteq Edges
  /\ wave \subseteq Nodes
  /\ result \in [Nodes -> NodeStatus]
  /\ round \in Nat
  /\ failure \in BOOLEAN
  /\ canceled \in BOOLEAN
  /\ verdict \in {"none", "ok", "failed", "canceled", "stalled"}

-------------------------------------------------------------------------------
(* The graph.                                                              *)

Outgoing(n) == {e \in Edges : Source[e] = n}
Incoming(n) == {e \in selected : Target[e] = n}

\* topLevelOnly keeps these.
TopLevel == {n \in Nodes : Parent[n] = NoParent}

\* isLoopInternalEdge: from a loop to a node of its body, or between two such nodes.
LoopInternal(e) ==
  Parent[Target[e]] # NoParent /\ Parent[Target[e]] \in {Source[e], Parent[Source[e]]}

\* EvalWhen: any of the conditions may hold when it is asked.
Conditions == {e \in Edges : kind[e] = "condition"}

\* The edges selectedOutgoing looks at.
Followed(n) == {e \in Outgoing(n) : ~LoopInternal(e)}

\* selectedOutgoing before its fallback; holds is the set of edges whose condition
\* evaluates to true. (hasMatchedConditionalOutgoing asks every outgoing edge.)
SelectedByKind(n, s, holds) ==
  {e \in Followed(n) :
     \/ kind[e] = "always"
     \/ kind[e] = "next" /\ s = "success"
     \/ kind[e] = "failure" /\ s = "failed"
     \/ kind[e] = "condition" /\ s = "success" /\ e \in holds
     \/ /\ kind[e] = "else" /\ s = "success"
        /\ ~\E f \in Outgoing(n) \ {e} : kind[f] = "condition" /\ f \in holds}

\* selectedOutgoing: a failed node with continue_on_error falls back to the edges of
\* a success.
SelectedOutgoing(n, s, holds) ==
  IF s = "failed" /\ SelectedByKind(n, s, holds) = {} /\ n \in continueOnError
  THEN {e \in Followed(n) : kind[e] = "next"}
  ELSE SelectedByKind(n, s, holds)

\* Mutant of HasContinuation: an edge of a success counts for any failed node.
HasContinuationNext(n, s) ==
  \E e \in Outgoing(n) : kind[e] \in {"always", "failure", "next"}

\* hasContinuation: unlike selectedOutgoing it counts the edges inside a loop.
HasContinuation(n, s) ==
  \E e \in Outgoing(n) :
     \/ kind[e] = "always"
     \/ s = "failed" /\ kind[e] = "failure"
     \/ s = "failed" /\ n \in continueOnError /\ kind[e] = "next"

\* Mutant of ReadyNodes: every declared edge must be done.
ReadyNodesDeclared ==
  {n \in TopLevel : /\ status[n] = "none" /\ Incoming(n) # {}
                 /\ \A e \in Edges : Target[e] = n => status[Source[e]] # "none"}

\* readyNodes, then topLevelOnly.
ReadyNodes ==
  {n \in TopLevel : /\ status[n] = "none" /\ Incoming(n) # {}
                 /\ \A e \in Incoming(n) : status[Source[e]] # "none"}

\* pendingSelectedNodes: nodes with a parent included.
PendingSelectedNodes == {n \in Nodes : status[n] = "none" /\ Incoming(n) # {}}

\* evaluateJoin over the edges selected so far.
EvaluateJoin(n) ==
  LET failures  == {e \in Incoming(n) : status[Source[e]] # "success"}
      successes == Incoming(n) \ failures
      passes    == \/ strategy = "all_success" /\ failures = {}
                   \/ strategy = "any_success" /\ successes # {}
                   \/ strategy = "always"
                   \/ strategy = "failure_threshold" /\ Cardinality(failures) <= FailureThreshold IN
  IF passes THEN "success" ELSE "failed"

-------------------------------------------------------------------------------
(* Run.                                                                    *)

\* The start node is completed before the loop begins.
Init ==
  /\ kind \in Kindings
  /\ strategy \in Strategies
  /\ continueOnError \in SUBSET (TopLevel \ (JoinNodes \cup PlainNodes))
  /\ status = [n \in Nodes |-> IF n = StartNode THEN "success" ELSE "none"]
  /\ \E holds \in SUBSET Conditions : selected = SelectedOutgoing(StartNode, "success", holds)
  /\ wave = {}
  /\ result = [n \in Nodes |-> "none"]
  /\ round = 0
  /\ failure = FALSE
  /\ canceled = FALSE
  /\ verdict = "none"

\* Mutant of BeginWave: one ready node at a time.
BeginWaveOne ==
  /\ verdict = "none" /\ wave = {} /\ ~canceled
  /\ \E n \in ReadyNodes : wave' = {n}
  /\ round' = round + 1
  /\ UNCHANGED <<workflow, status, selected, result, failure, canceled, verdict>>

\* The head of the loop: every ready node is started.
BeginWave ==
  /\ verdict = "none" /\ wave = {} /\ ~canceled
  /\ ReadyNodes # {}
  /\ wave' = ReadyNodes
  /\ round' = round + 1
  /\ UNCHANGED <<workflow, status, selected, result, failure, canceled, verdict>>

\* Mutant of RunGraphNode: the status of a rejected approval is not normalised.
RunGraphNodeRaw(n, s) ==
  /\ n \in wave /\ result[n] = "none"
  /\ n \in PlainNodes => s = "success"
  /\ n \in JoinNodes => s = EvaluateJoin(n)
  /\ result' = [result EXCEPT ![n] = IF s = "failed" THEN "rejected" ELSE s]
  /\ UNCHANGED <<workflow, status, selected, wave, round, failure, canceled, verdict>>

\* Mutant of RunGraphNode: the work of a node does not notice that the run is canceled.
RunGraphNodeDeaf(n, s) ==
  /\ n \in wave /\ result[n] = "none"
  /\ canceled => n \in PlainNodes \cup JoinNodes
  /\ n \in PlainNodes => s = "success"
  /\ n \in JoinNodes => s = EvaluateJoin(n)
  /\ result' = [result EXCEPT ![n] = s]
  /\ UNCHANGED <<workflow, status, selected, wave, round, failure, canceled, verdict>>

\* runGraphNode of one node of the wave returns.
RunGraphNode(n, s) ==
  /\ n \in wave /\ result[n] = "none"
  /\ n \in PlainNodes => s = "success"
  /\ n \in JoinNodes => s = EvaluateJoin(n)
  /\ result' = [result EXCEPT ![n] = s]
  /\ UNCHANGED <<workflow, status, selected, wave, round, failure, canceled, verdict>>

\* completeNode for every result of the wave, then the check for a failure that
\* nothing continues. (hasPendingContinuation cannot hold: an edge is selected only
\* when its source is done.)
CompleteWave ==
  /\ wave # {}
  /\ \A n \in wave : result[n] # "none"
  /\ status' = [n \in Nodes |-> IF n \in wave THEN result[n] ELSE status[n]]
  /\ \E holds \in SUBSET Conditions :
       selected' = selected \cup UNION {SelectedOutgoing(n, result[n], holds) : n \in wave}
  /\ failure' = (failure \/ \E n \in wave :
                              result[n] = "failed" /\ ~HasContinuation(n, result[n]))
  /\ verdict' = IF failure' THEN "failed" ELSE verdict
  /\ wave' = {}
  /\ UNCHANGED <<workflow, result, round, canceled>>

\* The head of the loop when nothing is ready.
Exhausted ==
  /\ verdict = "none" /\ wave = {} /\ ~canceled
  /\ ReadyNodes = {}
  /\ verdict' = IF PendingSelectedNodes # {} THEN "stalled"
                ELSE IF failure THEN "failed" ELSE "ok"
  /\ UNCHANGED <<workflow, status, selected, wave, result, round, failure, canceled>>

\* The head of the loop when the context is done.
StopCanceled ==
  /\ verdict = "none" /\ wave = {} /\ canceled
  /\ verdict' = "canceled"
  /\ UNCHANGED <<workflow, status, selected, wave, result, round, failure, canceled>>

Cancel ==
  /\ verdict = "none" /\ ~canceled
  /\ canceled' = TRUE
  /\ UNCHANGED <<workflow, status, selected, wave, result, round, failure, verdict>>

RunStep ==
  \/ BeginWave \/ CompleteWave \/ Exhausted \/ StopCanceled
  \/ \E n \in Nodes, s \in {"success", "failed"} : RunGraphNode(n, s)

Next == RunStep \/ Cancel

Spec == Init /\ [][Next]_vars

\* The work of every node ends: a validated approval has a timeout, a step obeys its
\* timeout and the context it is given.
FairSpec == Spec /\ WF_vars(RunStep)

-------------------------------------------------------------------------------
\* An edge from a failed loop into its own body that hasContinuation takes for a
\* continuation.
ContinuedInside(n) ==
  \E e \in Edges :
    /\ Source[e] = n /\ Parent[Target[e]] = n
    /\ kind[e] \in {"always", "failure"} \/ (kind[e] = "next" /\ n \in continueOnError)

\* Run reports success only if every failed node was continued by an edge selected
\* for it, or is a loop that hasContinuation forgives for an edge into its body; and
\* a failure only if some node failed and no edge was selected for it.
VerdictFitsFailures ==
  /\ verdict = "ok" =>
       \A n \in Nodes : status[n] = "failed" =>
         (\E e \in selected : Source[e] = n) \/ ContinuedInside(n)
  /\ verdict = "failed" =>
       \E n \in Nodes : status[n] = "failed" /\ \A e \in selected : Source[e] # n

\* Whatever the conditions skip, a node whose edge was selected is executed before Run
\* reports success, and "graph execution stalled" means that an edge into a loop or a
\* group was selected.
SelectedNodesRun ==
  /\ verdict = "ok" => \A e \in selected : status[Target[e]] # "none"
  /\ verdict = "stalled" => \E e \in selected : Target[e] \notin TopLevel

\* What the design says of edges ("a failure edge catches the failed branch"): the
\* failure of a node is handled by an edge that Run follows.
EveryFailureHandled ==
  verdict = "ok" =>
    \A n \in Nodes : status[n] = "failed" => \E e \in selected : Source[e] = n

\* What the design says of nodes, group among them ("nodes are scheduled
\* topologically"): Run does not give up on a node whose turn has come.
NeverStalls == verdict # "stalled"

\* A join with all_success that succeeded has no failed branch among the branches
\* that reach it.
AllSuccessJoin ==
  \A n \in JoinNodes :
    (strategy = "all_success" /\ status[n] = "success") =>
      \A e \in selected : Target[e] = n => status[Source[e]] = "success"

\* Run returns.
RunReturns == <>(verdict # "none")
===============================================================================
