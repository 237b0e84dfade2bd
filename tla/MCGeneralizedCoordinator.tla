---------------------- MODULE MCGeneralizedCoordinator ----------------------
(* Instances of GeneralizedCoordinator for TLC. *)
EXTENDS GeneralizedCoordinator

CONSTANTS p1, p2

TwoProcs == {p1, p2}

=============================================================================
