----------------------------- MODULE MCFaleiro -----------------------------
(* An instance of Faleiro for TLC, with three proposers. *)
EXTENDS Faleiro

CONSTANTS p1, p2, p3

ThreeProcs == {p1, p2, p3}

\* p3 is heard by p1 only: its proposal stays with its own acceptor, whose
\* answers reach p1; p2 does not reach p3.
LateNackLinks ==
  (({"proposal", "reply"} \X ThreeProcs \X ThreeProcs)
    \ ({"proposal"} \X {p3} \X {p1, p2}))
    \ {<<"proposal", p2, p3>>, <<"reply", p3, p2>>, <<"reply", p3, p3>>}

=============================================================================
