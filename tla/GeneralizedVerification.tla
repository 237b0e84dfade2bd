----------------------- MODULE GeneralizedVerification ----------------------
(***************************************************************************)
(* What GLACoordinator checks of the results it has collected: a sequence  *)
(* of records of a client's id and the values it learnt, in order.  The    *)
(* i-th initial value of client p is written as the pair <<p, i>>.         *)
(***************************************************************************)
EXTENDS Naturals, SequencesExt, Lattice

Proposed(id, i) == {<<id, i>>}

\* Mutant of Previous: prev is not reset from client to client.
PreviousOfAll(results, k, i) ==
  LET before == FlattenSeq([x \in 1..(k - 1) |-> results[x].value])
                  \o SubSeq(results[k].value, 1, i - 1)
  IN  IF before = <<>> THEN Bottom ELSE Last(before)

\* prev at the i-th value of the k-th result.
Previous(results, k, i) == IF i = 1 THEN Bottom ELSE results[k].value[i - 1]

\* all_learnt
AllLearnt(results) == FlattenSeq([k \in DOMAIN results |-> results[k].value])

\* "Invalid result proposal ignored": elem < proposed.
ProposalIgnored(results) ==
  \E k \in DOMAIN results : \E i \in DOMAIN results[k].value :
    Less(results[k].value[i], Proposed(results[k].id, i))

\* "Invalid results decreasing": not prev <= elem.
Decreasing(results) ==
  \E k \in DOMAIN results : \E i \in DOMAIN results[k].value :
    ~ Leq(Previous(results, k, i), results[k].value[i])

\* "Invalid results": the pairs of indexes in all_learnt.
InvalidPairs(results) ==
  LET all == AllLearnt(results)
  IN  {ij \in (1..Len(all)) \X (1..Len(all)) : ~ Comparable(all[ij[1]], all[ij[2]])}

\* The kinds of errors the verification logs.
Errors(results) ==
  {kind \in {"ignored", "decreasing", "incomparable"} :
     \/ kind = "ignored" /\ ProposalIgnored(results)
     \/ kind = "decreasing" /\ Decreasing(results)
     \/ kind = "incomparable" /\ InvalidPairs(results) # {}}

=============================================================================
