---------------------------- MODULE MCControllers ----------------------------
(* Two workers, a deployment and its pod that share an image.              *)
EXTENDS Controllers, TLC

CONSTANTS dep, pod, i1, i2

Shared == [o \in Objects |-> IF o = dep THEN {i1} ELSE {i1, i2}]
OneImage == [o \in Objects |-> {i1}]

\* Sound for invariants: no definition tells two workers, or two handlers, apart.
Swap == Permutations(Workers) \cup Permutations(Handlers)
=============================================================================
