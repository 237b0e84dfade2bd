--------------------------- MODULE MCFaleiroFair ---------------------------
(* Instances of FaleiroFair for TLC: of three processes, two are correct   *)
(* and the third, an acceptor only, answers p1 now and then.               *)
EXTENDS FaleiroFair, FaleiroInv

CONSTANTS p1, p2, p3

TwoProcs == {p1, p2}
ThreeProcs == {p1, p2, p3}
TwoLinks == {"proposal", "reply"} \X TwoProcs \X TwoProcs
FlakyLinks == TwoLinks \cup {<<"proposal", p1, p3>>, <<"proposal", p2, p3>>,
                             <<"reply", p3, p1>>}

=============================================================================
