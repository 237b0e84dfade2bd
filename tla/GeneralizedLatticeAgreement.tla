-------------------- MODULE GeneralizedLatticeAgreement --------------------
(***************************************************************************)
(* What generalized lattice agreement promises to processes that submit    *)
(* their values one after the other: each learns a growing sequence of     *)
(* values, made of submitted ones, and whatever any two processes learn is *)
(* comparable.  A submission is answered with a learnt value above it.     *)
(***************************************************************************)
EXTENDS Naturals, Sequences, Lattice

CONSTANTS
  Procs,
  Rounds      \* Rounds[p]: how many values p submits

VARIABLES
  submitted,  \* submitted[p]: how many values p has submitted
  learnt,     \* learnt[p]: the last value p learnt
  answers     \* answers[p]: what p's submissions were answered with, in order

absvars == <<submitted, learnt, answers>>

SubmittedValues == UNION {{<<p, i>> : i \in 1..submitted[p]} : p \in Procs}

EverLearnt == {learnt[p] : p \in Procs} \cup
              UNION {{answers[p][i] : i \in 1..Len(answers[p])} : p \in Procs}

AbsInit == /\ submitted = [p \in Procs |-> 0]
           /\ learnt = [p \in Procs |-> Bottom]
           /\ answers = [p \in Procs |-> <<>>]

\* p submits its next value once the one before has been answered.
Submit(p) == /\ submitted[p] < Rounds[p]
             /\ submitted[p] = Len(answers[p])
             /\ submitted' = [submitted EXCEPT ![p] = @ + 1]
             /\ UNCHANGED <<learnt, answers>>

Learn(p, v) == /\ Less(learnt[p], v)
               /\ \A w \in EverLearnt : Comparable(v, w)
               /\ learnt' = [learnt EXCEPT ![p] = v]
               /\ UNCHANGED <<submitted, answers>>

Answer(p) == /\ Len(answers[p]) < submitted[p]
             /\ <<p, submitted[p]>> \in learnt[p]
             /\ answers' = [answers EXCEPT ![p] = Append(@, learnt[p])]
             /\ UNCHANGED <<submitted, learnt>>

AbsNext == \E p \in Procs : \/ Submit(p)
                            \/ \E v \in SUBSET SubmittedValues : Learn(p, v)
                            \/ Answer(p)

AbsSpec == AbsInit /\ [][AbsNext]_absvars

=============================================================================
