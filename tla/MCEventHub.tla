------------------------------ MODULE MCEventHub ------------------------------
(* A small instance of EventHub; the bounds are in the cfg files.          *)
EXTENDS EventHub, TLC

CONSTANTS p1, p2, s1, s2

TwoPublishers  == {p1, p2}
TwoSubscribers == {s1, s2}

HubSymmetry == Permutations(TwoPublishers) \cup Permutations(TwoSubscribers)
===============================================================================
