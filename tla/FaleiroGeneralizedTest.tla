----------------------- MODULE FaleiroGeneralizedTest -----------------------
(***************************************************************************)
(* The generalized program under the generalized coordinator's test.       *)
(***************************************************************************)
EXTENDS FaleiroGeneralizedFair, GeneralizedVerification

\* The processes that have been through all their values, and report.
Finished == {p \in Procs : pc[p] = "next" /\ round[p] = Rounds[p]}

\* What the coordinator may have when it verifies: some have not reported.
Collections ==
  {[k \in DOMAIN order |-> [id |-> order[k], value |-> results[order[k]]]] :
     order \in SetToAllKPermutations(Finished)}

(* The verification never reports an error in what the program has learnt, *)
(* in whatever order the results arrive and whichever of them are lost.    *)
NothingReported == \A collection \in Collections : Errors(collection) = {}

=============================================================================
