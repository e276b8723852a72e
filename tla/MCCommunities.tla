--------------------------- MODULE MCCommunities ---------------------------
(***************************************************************************)
(* Small instances of Communities for TLC.                                 *)
(***************************************************************************)
EXTENDS Communities, TLC

CONSTANTS w1, w2, w3

ThreeWorkers == {w1, w2, w3}

\* Users, communities, routes and requests are told apart by nothing.
Symmetry == Permutations(Users) \cup Permutations(Comms) \cup Permutations(Workers)
=============================================================================
