-------------------------- MODULE GraphExecutorProofs --------------------------
(***************************************************************************)
(* Theorems about GraphExecutor for every graph, nodes inside loops and    *)
(* groups included, every choice of edge kinds and every join strategy.   *)
(* The join property needs a graph in which *)
(* all paths to a node have one length.                                    *)
(***************************************************************************)
EXTENDS GraphExecutor, TLAPS

\* An edge is selected only when its source is done.
SelectedDone == \A e \in selected : status[Source[e]] # "none"

\* The nodes of a wave have no parent and are not done, and Run does not return
\* during a wave.
WaveFresh ==
  /\ \A n \in wave : status[n] = "none" /\ n \in TopLevel
  /\ wave # {} => verdict = "none"

\* A failed node has no parent; it is continued by an edge, or forgiven for one into
\* its body, or the failure is remembered, and then Run does not report success. A
\* remembered failure is one that no selected edge continues.
Handled ==
  /\ \A n \in Nodes : status[n] = "failed" =>
       failure \/ (\E e \in selected : Source[e] = n) \/ ContinuedInside(n)
  /\ failure => \E n \in Nodes : status[n] = "failed" /\ \A e \in selected : Source[e] # n
  /\ verdict = "ok" => ~failure
  /\ verdict = "failed" => failure

SafeInv == TypeOK /\ SelectedDone /\ WaveFresh /\ Handled /\ SelectedNodesRun

-------------------------------------------------------------------------------
(* The operators.                                                          *)

\* selectedOutgoing returns edges of the node it is asked for.
LEMMA SelectedFromNode ==
  ASSUME NEW n, NEW s, NEW holds, NEW e \in SelectedOutgoing(n, s, holds)
  PROVE  e \in Edges /\ Source[e] = n
<1>1. CASE s = "failed" /\ SelectedByKind(n, s, holds) = {} /\ n \in continueOnError
  BY <1>1 DEF SelectedOutgoing, Followed, Outgoing
<1>2. CASE ~(s = "failed" /\ SelectedByKind(n, s, holds) = {} /\ n \in continueOnError)
  BY <1>2 DEF SelectedOutgoing, SelectedByKind, Followed, Outgoing
<1> QED BY <1>1, <1>2

\* Where hasContinuation and selectedOutgoing differ about a failed node without a
\* parent: what the first promises the second delivers, unless the edge leads into
\* the node's own body.
LEMMA ContinuationSelected ==
  ASSUME NEW n \in TopLevel, NEW holds, HasContinuation(n, "failed")
  PROVE  (\E e \in SelectedOutgoing(n, "failed", holds) : Source[e] = n) \/ ContinuedInside(n)
<1>1. PICK e \in Outgoing(n) :
        \/ kind[e] = "always" \/ kind[e] = "failure"
        \/ n \in continueOnError /\ kind[e] = "next"
  BY DEF HasContinuation
<1>2. CASE LoopInternal(e)
  <2>1. Source[e] = n /\ Parent[n] = NoParent
    BY DEF Outgoing, TopLevel
  <2>2. Parent[Target[e]] = n
    BY <1>2, <2>1 DEF LoopInternal
  <2> QED BY <1>1, <2>1, <2>2 DEF ContinuedInside, Outgoing
<1>3. CASE ~LoopInternal(e)
  <2>0. e \in Followed(n)
    BY <1>3 DEF Followed
  <2>1. CASE SelectedByKind(n, "failed", holds) = {}
    <3>1. e \notin SelectedByKind(n, "failed", holds)
      BY <2>1
    <3>2. n \in continueOnError /\ kind[e] = "next"
      BY <1>1, <2>0, <3>1 DEF SelectedByKind
    <3>3. e \in SelectedOutgoing(n, "failed", holds)
      BY <2>0, <2>1, <3>2 DEF SelectedOutgoing
    <3> QED BY <3>3, SelectedFromNode
  <2>2. CASE SelectedByKind(n, "failed", holds) # {}
    <3>1. PICK f : f \in SelectedByKind(n, "failed", holds)
      BY <2>2
    <3>2. f \in SelectedOutgoing(n, "failed", holds)
      BY <2>2, <3>1 DEF SelectedOutgoing
    <3> QED BY <3>2, SelectedFromNode
  <2> QED BY <2>1, <2>2
<1> QED BY <1>2, <1>3

\* A failure that hasContinuation does not forgive selects nothing.
LEMMA UncontinuedSelectsNothing ==
  ASSUME NEW n, NEW holds, ~HasContinuation(n, "failed")
  PROVE  SelectedOutgoing(n, "failed", holds) = {}
<1>1. SelectedByKind(n, "failed", holds) = {}
  BY DEF HasContinuation, SelectedByKind, Followed
<1>2. n \in continueOnError => {e \in Followed(n) : kind[e] = "next"} = {}
  BY DEF HasContinuation, Followed
<1> QED BY <1>1, <1>2 DEF SelectedOutgoing

\* With SelectedDone every pending node without a parent is ready.
LEMMA PendingIsReady ==
  ASSUME SelectedDone PROVE PendingSelectedNodes \cap TopLevel = ReadyNodes
BY DEF SelectedDone, PendingSelectedNodes, ReadyNodes, Incoming, TopLevel

-------------------------------------------------------------------------------
(* Safety for every graph.                                                 *)

LEMMA InitSafe == Init => SafeInv
<1> SUFFICES ASSUME Init PROVE SafeInv
  OBVIOUS
<1>1. PICK holds \in SUBSET Conditions : selected = SelectedOutgoing(StartNode, "success", holds)
  BY DEF Init
<1>2. \A e \in selected : e \in Edges /\ Source[e] = StartNode
  BY <1>1, SelectedFromNode
<1>3. TypeOK
  <2>1. continueOnError \subseteq Nodes
    BY DEF Init, TopLevel
  <2>2. selected \subseteq Edges
    BY <1>2
  <2> QED BY <2>1, <2>2, GraphConstants DEF TypeOK, Init, NodeStatus, JoinStrategies
<1>4. SelectedDone
  BY <1>2, GraphConstants DEF SelectedDone, Init
<1>5. WaveFresh /\ Handled /\ SelectedNodesRun
  BY DEF WaveFresh, Handled, SelectedNodesRun, Init
<1> QED BY <1>3, <1>4, <1>5 DEF SafeInv

\* What CompleteWave does to the selected edges, for the proofs about it.
LEMMA CompleteWaveSelects ==
  ASSUME CompleteWave, WaveFresh
  PROVE  /\ \A e \in selected : e \in selected'
         /\ \A e \in selected' : e \in selected \/ (e \in Edges /\ Source[e] \in wave)
         /\ \A n \in wave : HasContinuation(n, result[n]) /\ result[n] = "failed" =>
              (\E e \in selected' : Source[e] = n) \/ ContinuedInside(n)
         /\ \A n \in wave : ~HasContinuation(n, result[n]) /\ result[n] = "failed" =>
              \A e \in selected' : Source[e] = n => e \in selected
<1>1. PICK holds \in SUBSET Conditions :
        selected' = selected \cup UNION {SelectedOutgoing(n, result[n], holds) : n \in wave}
  BY DEF CompleteWave
<1>2. \A e \in selected : e \in selected'
  BY <1>1
<1>3. ASSUME NEW e \in selected', e \notin selected
      PROVE  \E n \in wave :
               e \in SelectedOutgoing(n, result[n], holds) /\ e \in Edges /\ Source[e] = n
  <2>1. PICK n \in wave : e \in SelectedOutgoing(n, result[n], holds)
    BY <1>1, <1>3
  <2> QED BY <2>1, SelectedFromNode
<1>4. ASSUME NEW n \in wave, HasContinuation(n, result[n]), result[n] = "failed"
      PROVE  (\E e \in selected' : Source[e] = n) \/ ContinuedInside(n)
  <2>0. HasContinuation(n, "failed") /\ n \in TopLevel
    BY <1>4 DEF WaveFresh
  <2>1. CASE ContinuedInside(n)
    BY <2>1
  <2>2. CASE ~ContinuedInside(n)
    <3>1. PICK e \in SelectedOutgoing(n, "failed", holds) : Source[e] = n
      BY <2>0, <2>2, ContinuationSelected
    <3>2. e \in selected'
      BY <1>1, <1>4, <3>1
    <3> QED BY <3>1, <3>2
  <2> QED BY <2>1, <2>2
<1>5. ASSUME NEW n \in wave, ~HasContinuation(n, result[n]), result[n] = "failed",
             NEW e \in selected', Source[e] = n
      PROVE  e \in selected
  <2> SUFFICES ASSUME e \notin selected PROVE FALSE
    OBVIOUS
  <2>1. e \in SelectedOutgoing(n, "failed", holds)
    BY <1>3, <1>5
  <2>2. SelectedOutgoing(n, "failed", holds) = {}
    BY <1>5, UncontinuedSelectsNothing
  <2> QED BY <2>1, <2>2
<1> QED BY <1>2, <1>3, <1>4, <1>5

LEMMA CompleteWaveSafe == SafeInv /\ CompleteWave => SafeInv'
<1> SUFFICES ASSUME SafeInv, CompleteWave PROVE SafeInv'
  OBVIOUS
<1> USE DEF SafeInv
<1>1. \A n \in Nodes : status'[n] = IF n \in wave THEN result[n] ELSE status[n]
  BY DEF CompleteWave
<1>2. TypeOK'
  <2>1. selected' \subseteq Edges
    BY CompleteWaveSelects DEF TypeOK
  <2>2. status' \in [Nodes -> NodeStatus]
    BY DEF CompleteWave, TypeOK
  <2>3. failure' \in BOOLEAN
    BY Zenon DEF CompleteWave, TypeOK
  <2>4. verdict' \in {"none", "ok", "failed", "canceled", "stalled"}
    BY DEF CompleteWave, TypeOK
  <2> QED BY <2>1, <2>2, <2>3, <2>4 DEF CompleteWave, TypeOK, workflow
<1>3. SelectedDone'
  <2> SUFFICES ASSUME NEW e \in selected' PROVE status'[Source[e]] # "none"
    BY DEF SelectedDone
  <2>1. e \in Edges /\ Source[e] \in Nodes
    BY CompleteWaveSelects, GraphConstants DEF TypeOK
  <2>2. CASE Source[e] \in wave
    BY <1>1, <2>1, <2>2 DEF CompleteWave
  <2>3. CASE Source[e] \notin wave
    BY <1>1, <2>1, <2>3, CompleteWaveSelects DEF SelectedDone
  <2> QED BY <2>2, <2>3
<1>4. WaveFresh'
  BY DEF WaveFresh, CompleteWave
<1>5. Handled'
  <2>1. ASSUME NEW n \in Nodes, status'[n] = "failed"
        PROVE  failure' \/ (\E e \in selected' : Source[e] = n) \/ ContinuedInside(n)'
    <3>0. ContinuedInside(n) => ContinuedInside(n)'
      BY DEF ContinuedInside, CompleteWave, workflow
    <3>1. CASE n \in wave
      <4>1. result[n] = "failed"
        BY <1>1, <2>1, <3>1
      <4>2. CASE HasContinuation(n, result[n])
        BY <3>0, <3>1, <4>1, <4>2, CompleteWaveSelects
      <4>3. CASE ~HasContinuation(n, result[n])
        BY <3>1, <4>1, <4>3 DEF CompleteWave
      <4> QED BY <4>2, <4>3
    <3>2. CASE n \notin wave
      <4>1. status[n] = "failed"
        BY <1>1, <2>1, <3>2
      <4>2. failure => failure'
        BY DEF CompleteWave
      <4> QED BY <3>0, <4>1, <4>2, CompleteWaveSelects DEF Handled
    <3> QED BY <3>1, <3>2
  <2>2. ASSUME failure'
        PROVE  \E n \in Nodes : status'[n] = "failed" /\ \A e \in selected' : Source[e] # n
    <3>1. CASE failure
      <4>1. PICK n \in Nodes : status[n] = "failed" /\ \A e \in selected : Source[e] # n
        BY <3>1 DEF Handled
      <4>2. n \notin wave /\ status'[n] = "failed"
        BY <1>1, <4>1 DEF WaveFresh
      <4>3. \A e \in selected' : Source[e] # n
        BY <4>1, <4>2, CompleteWaveSelects
      <4> QED BY <4>2, <4>3
    <3>2. CASE ~failure
      <4>1. PICK n \in wave : result[n] = "failed" /\ ~HasContinuation(n, result[n])
        BY <2>2, <3>2 DEF CompleteWave
      <4>2. n \in Nodes /\ status'[n] = "failed" /\ status[n] = "none"
        BY <1>1, <4>1 DEF TypeOK, WaveFresh
      <4>3. \A e \in selected' : Source[e] # n
        BY <4>1, <4>2, CompleteWaveSelects DEF SelectedDone
      <4> QED BY <4>2, <4>3
    <3> QED BY <3>1, <3>2
  <2>3. verdict = "none"
    BY DEF CompleteWave, WaveFresh
  <2>4. verdict' # "ok" /\ (verdict' = "failed" => failure')
    BY <2>3 DEF CompleteWave
  <2> QED BY <2>1, <2>2, <2>4 DEF Handled
<1>6. SelectedNodesRun'
  BY DEF SelectedNodesRun, CompleteWave, WaveFresh
<1> QED BY <1>2, <1>3, <1>4, <1>5, <1>6

LEMMA NextSafe == SafeInv /\ [Next]_vars => SafeInv'
<1> SUFFICES ASSUME SafeInv, [Next]_vars PROVE SafeInv'
  OBVIOUS
<1> USE DEF SafeInv
<1>0. UNCHANGED <<workflow, status, selected>> /\ failure' = failure =>
        (Handled' <=> ( /\ \A n \in Nodes : status[n] = "failed" =>
                             failure \/ (\E e \in selected : Source[e] = n) \/ ContinuedInside(n)
                        /\ failure => \E n \in Nodes :
                             status[n] = "failed" /\ \A e \in selected : Source[e] # n
                        /\ verdict' = "ok" => ~failure
                        /\ verdict' = "failed" => failure ))
  BY DEF Handled, ContinuedInside, workflow
<1>1. CASE BeginWave
  <2>1. TypeOK'
    BY <1>1 DEF BeginWave, TypeOK, workflow, ReadyNodes, TopLevel
  <2>2. SelectedDone' /\ SelectedNodesRun'
    BY <1>1 DEF BeginWave, SelectedDone, SelectedNodesRun
  <2>3. WaveFresh'
    BY <1>1 DEF BeginWave, WaveFresh, ReadyNodes
  <2>4. Handled'
    BY <1>0, <1>1 DEF BeginWave, Handled
  <2> QED BY <2>1, <2>2, <2>3, <2>4
<1>2. ASSUME NEW n \in Nodes, NEW s \in {"success", "failed"}, RunGraphNode(n, s)
      PROVE  SafeInv'
  <2>1. TypeOK'
    BY <1>2 DEF RunGraphNode, TypeOK, workflow, NodeStatus
  <2>2. SelectedDone' /\ WaveFresh' /\ SelectedNodesRun'
    BY <1>2 DEF RunGraphNode, SelectedDone, WaveFresh, SelectedNodesRun
  <2>3. Handled'
    BY <1>0, <1>2 DEF RunGraphNode, Handled
  <2> QED BY <2>1, <2>2, <2>3
<1>3. CASE CompleteWave
  BY <1>3, CompleteWaveSafe
<1>4. CASE Exhausted
  <2>1. PendingSelectedNodes \cap TopLevel = {}
    BY <1>4, PendingIsReady DEF Exhausted
  <2>2. verdict' = IF PendingSelectedNodes # {} THEN "stalled"
                   ELSE IF failure THEN "failed" ELSE "ok"
    BY <1>4 DEF Exhausted
  <2>3. TypeOK'
    BY <1>4, <2>2 DEF Exhausted, TypeOK, workflow
  <2>4. SelectedDone' /\ WaveFresh'
    BY <1>4, <2>2 DEF Exhausted, SelectedDone, WaveFresh
  <2>5. Handled'
    BY <1>0, <1>4, <2>2 DEF Exhausted, Handled
  <2>6. SelectedNodesRun'
    <3>1. CASE PendingSelectedNodes = {}
      <4>1. \A e \in selected : Target[e] \in Nodes
        BY GraphConstants DEF TypeOK
      <4>2. \A e \in selected : status[Target[e]] # "none"
        BY <3>1, <4>1 DEF PendingSelectedNodes, Incoming
      <4>3. verdict' # "stalled"
        BY <2>2, <3>1
      <4> QED BY <1>4, <4>2, <4>3 DEF Exhausted, SelectedNodesRun
    <3>2. CASE PendingSelectedNodes # {}
      <4>1. PICK n \in PendingSelectedNodes : n \notin TopLevel
        BY <2>1, <3>2
      <4>2. PICK e \in selected : Target[e] = n
        BY <4>1 DEF PendingSelectedNodes, Incoming
      <4>3. verdict' = "stalled"
        BY <2>2, <3>2
      <4> QED BY <1>4, <4>1, <4>2, <4>3 DEF Exhausted, SelectedNodesRun
    <3> QED BY <3>1, <3>2
  <2> QED BY <2>3, <2>4, <2>5, <2>6
<1>5. CASE StopCanceled \/ Cancel
  <2>1. TypeOK'
    BY <1>5 DEF StopCanceled, Cancel, TypeOK, workflow
  <2>2. SelectedDone' /\ WaveFresh' /\ SelectedNodesRun'
    BY <1>5 DEF StopCanceled, Cancel, SelectedDone, WaveFresh, SelectedNodesRun
  <2>3. Handled'
    BY <1>0, <1>5 DEF StopCanceled, Cancel, Handled
  <2> QED BY <2>1, <2>2, <2>3
<1>6. CASE UNCHANGED vars
  <2>1. Handled'
    BY <1>0, <1>6 DEF vars, Handled
  <2> QED BY <1>6, <2>1 DEF vars, workflow, TypeOK, SelectedDone, WaveFresh, SelectedNodesRun
<1> QED BY <1>1, <1>2, <1>3, <1>4, <1>5, <1>6 DEF Next, RunStep

LEMMA AlwaysSafe == Spec => []SafeInv
BY InitSafe, NextSafe, PTL DEF Spec

\* The executor keeps its types.
THEOREM GraphTypes == Spec => []TypeOK
BY AlwaysSafe, PTL DEF SafeInv

\* Run reports success only if each failed node was continued by a selected edge, or
\* is a loop with a continuation edge into its own body; and a failure that some
\* selected edge continues does not end the run.
THEOREM FailuresHandled == Spec => []VerdictFitsFailures
<1>1. SafeInv => VerdictFitsFailures
  BY DEF SafeInv, Handled, VerdictFitsFailures
<1> QED BY <1>1, AlwaysSafe, PTL

\* On every graph a run that reports success has executed every node an edge was
\* selected for, and one that stalls has selected an edge into a loop or a group.
THEOREM SelectedRun == Spec => []SelectedNodesRun
BY AlwaysSafe, PTL DEF SafeInv

\* So the two claims of the design hold of graphs of top-level nodes: every failure is
\* handled, and "graph execution stalled" is unreachable.
THEOREM FlatGraphs ==
  ASSUME TopLevel = Nodes PROVE Spec => [](EveryFailureHandled /\ NeverStalls)
<1>1. \A e \in Edges : Target[e] \in Nodes /\ Parent[Target[e]] = NoParent
  BY GraphConstants DEF TopLevel
<1>2. \A n \in Nodes : ~ContinuedInside(n)
  BY <1>1, GraphConstants DEF ContinuedInside
<1>3. SafeInv => EveryFailureHandled /\ NeverStalls
  BY <1>1, <1>2 DEF SafeInv, TypeOK, Handled, EveryFailureHandled, NeverStalls,
                    SelectedNodesRun, TopLevel
<1> QED BY <1>3, AlwaysSafe, PTL
-------------------------------------------------------------------------------
(* Joins, for layered graphs.                                              *)

\* rank is the distance of every node from the start node.
IsRank(rank) ==
  /\ rank \in [Nodes -> Nat]
  /\ \A e \in Edges : rank[Target[e]] = rank[Source[e]] + 1

\* The waves follow the ranks: wave number r runs nodes of rank r, and the nodes
\* without a parent that wait for the next wave have the next rank.
WavesFollow(rank) ==
  /\ \A n \in Nodes : status[n] # "none" =>
       rank[n] <= round /\ (wave # {} => rank[n] < round)
  /\ \A n \in wave : rank[n] = round
  /\ \A e \in selected : Target[e] \in TopLevel /\ status[Target[e]] = "none" =>
       IF wave = {} THEN rank[Target[e]] = round + 1 ELSE Target[e] \in wave

\* A result is fresh until its node runs, and that of a join follows its branches.
JoinResults ==
  /\ \A n \in Nodes : status[n] = "none" /\ result[n] # "none" => n \in wave
  /\ \A n \in JoinNodes :
       (n \in wave /\ strategy = "all_success" /\ result[n] = "success") =>
         \A e \in selected : Target[e] = n => status[Source[e]] = "success"

JoinInv(rank) == SafeInv /\ WavesFollow(rank) /\ JoinResults /\ AllSuccessJoin

LEMMA InitJoin ==
  ASSUME NEW rank, IsRank(rank), rank[StartNode] = 0, Init
  PROVE  JoinInv(rank)
<1>1. SafeInv
  BY InitSafe
<1>2. \A e \in selected : e \in Edges /\ Source[e] = StartNode
  <2>1. PICK holds \in SUBSET Conditions :
          selected = SelectedOutgoing(StartNode, "success", holds)
    BY DEF Init
  <2> QED BY <2>1, SelectedFromNode
<1>3. WavesFollow(rank)
  <2>1. \A e \in selected : rank[Target[e]] = round + 1
    BY <1>2 DEF IsRank, Init
  <2> QED BY <2>1 DEF WavesFollow, Init
<1>4. JoinResults
  BY DEF JoinResults, Init
<1>5. AllSuccessJoin
  <2>1. \A e \in selected : Source[e] = StartNode /\ status[StartNode] = "success"
    BY <1>2, GraphConstants DEF Init
  <2> QED BY <2>1 DEF AllSuccessJoin
<1> QED BY <1>1, <1>3, <1>4, <1>5 DEF JoinInv

LEMMA CompleteWaveJoin ==
  ASSUME NEW rank, IsRank(rank), JoinInv(rank), CompleteWave
  PROVE  WavesFollow(rank)' /\ JoinResults' /\ AllSuccessJoin'
<1> USE DEF JoinInv, SafeInv
<1>1. /\ \A n \in Nodes : status'[n] = IF n \in wave THEN result[n] ELSE status[n]
      /\ wave' = {} /\ wave # {} /\ round' = round /\ strategy' = strategy
      /\ result' = result
      /\ \A n \in wave : result[n] # "none"
  BY DEF CompleteWave, workflow
<1>2. wave \subseteq Nodes /\ round \in Nat /\ selected \subseteq Edges
  BY DEF TypeOK
<1>3. \A e \in Edges : /\ Source[e] \in Nodes /\ Target[e] \in Nodes
                       /\ rank[Source[e]] \in Nat /\ rank[Target[e]] = rank[Source[e]] + 1
  BY GraphConstants DEF IsRank
<1>4. selected' \subseteq Edges
  BY <1>2, CompleteWaveSelects
<1>5. \A n \in Nodes : status'[n] # "none" => rank[n] <= round
  BY <1>1, <1>2 DEF WavesFollow, IsRank
<1>6. \A e \in selected' : e \notin selected => rank[Target[e]] = round + 1
  <2> SUFFICES ASSUME NEW e \in selected', e \notin selected
               PROVE  rank[Target[e]] = round + 1
    OBVIOUS
  <2>1. e \in Edges /\ Source[e] \in wave
    BY CompleteWaveSelects
  <2>2. rank[Source[e]] = round
    BY <2>1 DEF WavesFollow
  <2> QED BY <1>3, <2>1, <2>2
<1>7. \A e \in selected : Target[e] \in TopLevel => status'[Target[e]] # "none"
  BY <1>1, <1>2, <1>3 DEF WavesFollow
<1>8. WavesFollow(rank)'
  <2>1. \A e \in selected' :
          Target[e] \in TopLevel /\ status'[Target[e]] = "none" => rank[Target[e]] = round' + 1
    BY <1>1, <1>6, <1>7
  <2> QED BY <1>1, <1>5, <2>1 DEF WavesFollow
<1>9. JoinResults'
  BY <1>1 DEF JoinResults
<1>10. AllSuccessJoin'
  <2> SUFFICES ASSUME NEW n \in JoinNodes, strategy' = "all_success", status'[n] = "success",
                      NEW e \in selected', Target[e] = n
               PROVE  status'[Source[e]] = "success"
    BY DEF AllSuccessJoin
  <2>0. n \in Nodes /\ rank[n] \in Nat
    BY GraphConstants DEF IsRank
  <2>1. rank[n] <= round
    BY <1>5, <2>0
  <2>2. e \in selected
    BY <1>2, <1>6, <2>0, <2>1
  <2>3. status[Source[e]] = "success"
    <3>1. CASE n \in wave
      BY <1>1, <2>0, <2>2, <3>1 DEF JoinResults
    <3>2. CASE n \notin wave
      BY <1>1, <2>0, <2>2, <3>2 DEF AllSuccessJoin
    <3> QED BY <3>1, <3>2
  <2>4. Source[e] \notin wave
    BY <2>3 DEF WaveFresh
  <2> QED BY <1>1, <1>2, <1>3, <2>2, <2>3, <2>4
<1> QED BY <1>8, <1>9, <1>10

LEMMA NextJoin ==
  ASSUME NEW rank, IsRank(rank), JoinInv(rank), [Next]_vars
  PROVE  JoinInv(rank)'
<1> USE DEF JoinInv
<1>0. SafeInv'
  BY NextSafe
<1>a. round \in Nat /\ selected \subseteq Edges /\ wave \subseteq Nodes
  BY DEF SafeInv, TypeOK
<1>b. \A e \in Edges : Source[e] \in Nodes /\ Target[e] \in Nodes
  BY GraphConstants
<1>c. \A n \in Nodes : rank[n] \in Nat
  BY DEF IsRank
<1>1. CASE BeginWave
  <2>1. /\ wave = {} /\ wave' = ReadyNodes /\ wave' # {} /\ round' = round + 1
        /\ status' = status /\ selected' = selected /\ result' = result
        /\ strategy' = strategy
    BY <1>1 DEF BeginWave, workflow
  <2>2. ReadyNodes = PendingSelectedNodes \cap TopLevel
    BY PendingIsReady DEF SafeInv
  <2>3. \A n \in wave' : rank[n] = round'
    <3> SUFFICES ASSUME NEW n \in PendingSelectedNodes, n \in TopLevel PROVE rank[n] = round + 1
      BY <2>1, <2>2
    <3>1. PICK e \in selected : Target[e] = n /\ status[n] = "none"
      BY DEF PendingSelectedNodes, Incoming
    <3> QED BY <2>1, <3>1 DEF WavesFollow
  <2>4. \A e \in selected' :
          Target[e] \in TopLevel /\ status'[Target[e]] = "none" => Target[e] \in wave'
    BY <1>a, <1>b, <2>1, <2>2 DEF PendingSelectedNodes, Incoming
  <2>5. \A n \in Nodes : status'[n] # "none" => rank[n] <= round' /\ rank[n] < round'
    BY <1>a, <1>c, <2>1 DEF WavesFollow
  <2>6. WavesFollow(rank)'
    BY <2>1, <2>3, <2>4, <2>5 DEF WavesFollow
  <2>7. JoinResults'
    <3>1. \A n \in Nodes : status[n] = "none" => result[n] = "none"
      BY <2>1 DEF JoinResults
    <3>2. \A n \in wave' : n \in Nodes /\ status[n] = "none"
      BY <2>1 DEF ReadyNodes, TopLevel
    <3> QED BY <2>1, <3>1, <3>2 DEF JoinResults
  <2>8. AllSuccessJoin'
    BY <2>1 DEF AllSuccessJoin
  <2> QED BY <1>0, <2>6, <2>7, <2>8
<1>2. ASSUME NEW n \in Nodes, NEW s \in {"success", "failed"}, RunGraphNode(n, s)
      PROVE  JoinInv(rank)'
  <2>1. /\ wave' = wave /\ round' = round /\ status' = status /\ selected' = selected
        /\ strategy' = strategy /\ n \in wave
        /\ \A k \in Nodes : result'[k] = IF k = n THEN s ELSE result[k]
    BY <1>2 DEF RunGraphNode, workflow, SafeInv, TypeOK
  <2>2. WavesFollow(rank)' /\ AllSuccessJoin'
    BY <2>1 DEF WavesFollow, AllSuccessJoin
  <2>3. ASSUME n \in JoinNodes, strategy = "all_success", s = "success"
        PROVE  \A e \in selected : Target[e] = n => status[Source[e]] = "success"
    <3>1. EvaluateJoin(n) = "success"
      BY <1>2, <2>3 DEF RunGraphNode
    <3>2. {e \in Incoming(n) : status[Source[e]] # "success"} = {}
      BY <2>3, <3>1 DEF EvaluateJoin
    <3> QED BY <3>2 DEF Incoming
  <2>4. JoinResults'
    <3>1. \A k \in Nodes : status'[k] = "none" /\ result'[k] # "none" => k \in wave'
      BY <2>1 DEF JoinResults
    <3>2. ASSUME NEW k \in JoinNodes, k \in wave', strategy' = "all_success",
                 result'[k] = "success"
          PROVE  \A e \in selected' : Target[e] = k => status'[Source[e]] = "success"
      <4>1. CASE k = n
        BY <1>a, <2>1, <2>3, <3>2, <4>1
      <4>2. CASE k # n
        BY <1>a, <2>1, <3>2, <4>2 DEF JoinResults
      <4> QED BY <4>1, <4>2
    <3> QED BY <3>1, <3>2 DEF JoinResults
  <2> QED BY <1>0, <2>2, <2>4
<1>3. CASE CompleteWave
  BY <1>0, <1>3, CompleteWaveJoin
<1>4. CASE Exhausted \/ StopCanceled \/ Cancel \/ UNCHANGED vars
  <2>1. /\ wave' = wave /\ round' = round /\ status' = status /\ selected' = selected
        /\ strategy' = strategy /\ result' = result
    BY <1>4 DEF Exhausted, StopCanceled, Cancel, vars, workflow
  <2>2. WavesFollow(rank)' /\ JoinResults' /\ AllSuccessJoin'
    BY <2>1 DEF WavesFollow, JoinResults, AllSuccessJoin
  <2> QED BY <1>0, <2>2
<1> QED BY <1>1, <1>2, <1>3, <1>4 DEF Next, RunStep

\* In a layered graph a join with all_success that succeeded has no failed branch,
\* for every assignment of edge kinds.
THEOREM LayeredJoins ==
  ASSUME Layered PROVE Spec => []AllSuccessJoin
<1>1. PICK rank \in [Nodes -> Nat] :
        rank[StartNode] = 0 /\ \A e \in Edges : rank[Target[e]] = rank[Source[e]] + 1
  BY DEF Layered
<1>2. IsRank(rank)
  BY <1>1 DEF IsRank
<1>3. Init => JoinInv(rank)
  BY <1>1, <1>2, InitJoin
<1>4. JoinInv(rank) /\ [Next]_vars => JoinInv(rank)'
  BY <1>2, NextJoin
<1>5. JoinInv(rank) => AllSuccessJoin
  BY DEF JoinInv
<1> QED BY <1>3, <1>4, <1>5, PTL DEF Spec
===============================================================================
