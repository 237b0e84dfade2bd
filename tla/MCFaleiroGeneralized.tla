------------------------ MODULE MCFaleiroGeneralized -----------------------
(* Instances of FaleiroGeneralized for TLC. *)
EXTENDS FaleiroGeneralizedTest, TLC

CONSTANTS p1, p2, p3

TwoProcs == {p1, p2}
ThreeProcs == {p1, p2, p3}

OneEach == (p1 :> 1) @@ (p2 :> 1)
TwoAndOne == (p1 :> 2) @@ (p2 :> 1)
TwoAndOneOfThree == TwoAndOne @@ (p3 :> 0)

\* Two processes that lose nothing but the initial values they share.
NoSharingLinks == (Types \ {"internal"}) \X TwoProcs \X TwoProcs

ProcessSymmetry == Permutations(Procs)

\* p1 exchanges messages with p2 and with p3, and p2's proposals reach only p3,
\* where they may overtake those of p1.
OvertakingLinks ==
  UNION {{"proposal"} \X {p1} \X ThreeProcs, {<<"proposal", p2, p3>>},
         {"ack"} \X {p1, p2} \X {p1}, {"nack"} \X ThreeProcs \X {p1},
         {"learn"} \X {p1, p2} \X {p1}, {<<"internal", p1, p2>>}}

=============================================================================
