------------------------------ MODULE Lattice ------------------------------
(***************************************************************************)
(* LatticeSet (general/lattice.h): the finite sets of 64-bit numbers, the  *)
(* only lattice the programs are instantiated with.  join is union and the *)
(* order is inclusion, so a lattice element is modelled as a TLA+ set.     *)
(***************************************************************************)

\* The default-constructed LatticeSet: every L{} and every uninitialised L.
Bottom == {}

\* Mutants of Join: the loop that inserts b is missing; a meet.
JoinFirst(a, b) == a
Meet(a, b) == a \cap b

\* LatticeSet::join
Join(a, b) == a \cup b

\* LatticeSet::operator<=, a count() look-up for every element of a
Leq(a, b) == a \subseteq b

\* LatticeSet::operator<, on top of operator<= and operator!=
Less(a, b) == Leq(a, b) /\ a # b

\* Mutant of Comparable: equal values do not count.
StrictlyComparable(a, b) == Less(a, b) \/ Less(b, a)

\* What both coordinators demand of every pair of results they collected.
Comparable(a, b) == Leq(a, b) \/ Leq(b, a)

=============================================================================
