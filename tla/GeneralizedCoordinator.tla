----------------------- MODULE GeneralizedCoordinator -----------------------
(***************************************************************************)
(* The end of a generalized test: GLACoordinator collects a list of values *)
(* from every client and verifies what it has.  Up to there the test runs  *)
(* as in Coordinator.  The clients run some agreement program, the one     *)
(* under test, and may report whatever it made of the initial values; a    *)
(* client that crashes before or while it reports is not among them.       *)
(***************************************************************************)
EXTENDS FiniteSets, GeneralizedVerification

CONSTANT Procs  \* the clients

N == Cardinality(Procs)

\* Every client is given as many values as there are clients.
AllValues == Procs \X (1..N)
Vectors == [1..N -> SUBSET AllValues]

VARIABLES
  phase,     \* "results", "verify", "ended", or "crashed"
  turn,      \* turns of the results loop so far
  waiting,   \* the clients that have not reported
  results,
  errors     \* the kinds of errors that were logged

vars == <<phase, turn, waiting, results, errors>>

Init == /\ phase = "results"
        /\ turn = 0
        /\ waiting = Procs
        /\ results = <<>>
        /\ errors = {}

\* One turn of the results loop: client c reports, or its connection breaks off
\* while it does, which is logged.
WaitForResult(c) ==
  /\ phase = "results"
  /\ c \in waiting
  /\ waiting' = waiting \ {c}
  /\ \/ \E vec \in Vectors : results' = Append(results, [id |-> c, value |-> vec])
     \/ UNCHANGED results
  /\ turn' = turn + 1
  /\ phase' = IF turn' = N THEN "verify" ELSE phase
  /\ UNCHANGED errors

\* The loops go over the results there are.  An invalid pair is reported with
\* results[i] and results[j], which may be beyond the end.
Verify ==
  /\ phase = "verify"
  /\ errors' = Errors(results)
  /\ phase' \in IF \A ij \in InvalidPairs(results) : ij[1] <= Len(results) /\ ij[2] <= Len(results)
                THEN {"ended"} ELSE {"ended", "crashed"}
  /\ UNCHANGED <<turn, waiting, results>>

Next == Verify \/ \E c \in Procs : WaitForResult(c)

Spec == Init /\ [][Next]_vars

-----------------------------------------------------------------------------
(* A client whose i-th result lacks its i-th proposal is reported.         *)
IgnoredIsReported ==
  phase = "ended" /\ (\E k \in DOMAIN results : \E i \in 1..N :
                        ~ Leq(Proposed(results[k].id, i), results[k].value[i]))
    => "ignored" \in errors

=============================================================================
