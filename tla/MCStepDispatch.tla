--------------------------- MODULE MCStepDispatch ---------------------------
(* A small instance of StepDispatch: a first step, retried once, on a remote *)
(* host and a second one, with three rounds, on two local hosts at once. The *)
(* second round is a handler with the retries -1.                            *)
EXTENDS StepDispatch, TLC

CONSTANTS a, b, c

AllHosts   == {a, b, c}
LocalHosts == {b, c}
TargetsOf  == 1 :> {a} @@ 2 :> {b, c}
RetriesOf  == 1 :> <<1>> @@ 2 :> <<0, -1, 0>>
RoundsOf   == 1 :> 1 @@ 2 :> 3
FirstStep  == {1}

LocalSymmetry == Permutations(LocalHosts)
=============================================================================
