----------------------------- MODULE MCRunTracker -----------------------------
(* A step and a graph node that run concurrently.                          *)
EXTENDS RunTracker

CONSTANTS s1, n1

MCSteps == {s1}
MCNodes == {n1}
===============================================================================
