---------------------------- MODULE MCTurnKernel ----------------------------
(* Turns of one session and the tool calls they may ask for, in two cases:  *)
(* two turns with two calls that change something; and one turn with one    *)
(* such call and two that change nothing and may be executed together.      *)
EXTENDS TurnKernel, TLC

CONSTANTS t1, t2, restart, stop, read, list, c1, c2

MCTurns  == {t1, t2}
MCCalls  == {c1, c2}
Changing == {restart, stop}
Readers  == {read, list}
MCTools  == Changing \cup Readers
Symmetric == Permutations(MCCalls) \cup Permutations(MCTurns) \cup Permutations(Changing)

Asked(x)  == owner[x] # None
Mentioned == (begun \cup pendingCancel \cup {turn[c] : c \in MCCalls}) \ {None}

(* Bound: where a read-only call is asked for, both are, with at most one   *)
(* that changes something, and all calls are about one turn.                *)
TwoCases ==
    (\E x \in Readers : Asked(x)) =>
        /\ \A x \in Readers : Asked(x)
        /\ ~ \A x \in Changing : Asked(x)
        /\ Cardinality(Mentioned) <= 1
=============================================================================
