--------------------------- MODULE MCGraphExecutor ---------------------------
(* Small graphs for GraphExecutor. In the layered and the uneven one start forks     *)
(* into the branches a and b, which meet in the join j; h handles what goes wrong in *)
(* a. In the layered graph both branches have one node, a is a loop with the body x, *)
(* and an edge of b leads into that body; in the uneven one b is followed by c.      *)
EXTENDS GraphExecutor, TLC

LayeredNodes == {"start", "a", "x", "b", "h", "j", "end"}

LayeredEdges == {"sa", "sb", "aj", "ax", "bj", "bx", "ah", "je", "he"}

LayeredSource == [e \in LayeredEdges |->
  CASE e \in {"sa", "sb"} -> "start" [] e \in {"aj", "ah", "ax"} -> "a"
    [] e \in {"bj", "bx"} -> "b" [] e = "je" -> "j" [] e = "he" -> "h"]

LayeredTarget == [e \in LayeredEdges |->
  CASE e = "sa" -> "a" [] e = "sb" -> "b" [] e \in {"aj", "bj"} -> "j" [] e = "ah" -> "h"
    [] e \in {"ax", "bx"} -> "x" [] e \in {"je", "he"} -> "end"]

LayeredParent == [n \in LayeredNodes |-> IF n = "x" THEN "a" ELSE "none"]

\* The kinds an author can give the edges of this graph.
LayeredKindings ==
  {k \in [LayeredEdges -> Kinds] :
     /\ k["sa"] \in {"next", "condition"} /\ k["sb"] \in {"next", "else"}
     /\ k["aj"] \in {"next", "always", "condition"} /\ k["bj"] \in {"next", "always"}
     /\ k["ax"] \in {"next", "always"} /\ k["bx"] = "failure"
     /\ k["ah"] \in {"failure", "always", "else"}
     /\ k["je"] \in {"next", "always"} /\ k["he"] = "next"}

UnevenNodes == {"start", "a", "b", "c", "j"}

UnevenEdges == {"sa", "sb", "aj", "bc", "cj"}

UnevenSource == [e \in UnevenEdges |->
  CASE e \in {"sa", "sb"} -> "start" [] e = "aj" -> "a" [] e = "bc" -> "b" [] e = "cj" -> "c"]

UnevenTarget == [e \in UnevenEdges |->
  CASE e = "sa" -> "a" [] e = "sb" -> "b" [] e \in {"aj", "cj"} -> "j" [] e = "bc" -> "c"]

UnevenParent == [n \in UnevenNodes |-> "none"]

UnevenKindings ==
  {k \in [UnevenEdges -> Kinds] :
     /\ \A e \in {"sa", "sb", "aj", "bc"} : k[e] = "next"
     /\ k["cj"] \in {"next", "always"}}

Start   == "start"
Joins   == {"j"} \cap Nodes
Plain   == {"start", "end"} \cap Nodes
AllStrategies == JoinStrategies
AllSuccess    == {"all_success"}
===============================================================================
