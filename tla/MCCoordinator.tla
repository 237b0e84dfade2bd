--------------------------- MODULE MCCoordinator ---------------------------
(* Instances of Coordinator for TLC. *)
EXTENDS CoordinatorInv

CONSTANTS p1, p2, p3

ThreeProcs == {p1, p2, p3}

\* Clients are only told apart by the order in which they register.
ClientSymmetry == Permutations(Procs)

=============================================================================
