------------------------------- MODULE Zheng -------------------------------
(***************************************************************************)
(* Lattice agreement of the zheng/ program: ZhengLA::start exchanges       *)
(* values and then classifies itself, in log f rounds, as Master or Slave, *)
(* by writing to the acceptVal arrays of the others and reading them.      *)
(*                                                                         *)
(* The main thread holds cv_m from the constructor of ZhengLA until start  *)
(* returns, except inside cv.wait: its stretch from one wait to the next   *)
(* is one action, and so is each message handler of the network thread.    *)
(* notify_all is called under cv_m and every wait tests its condition      *)
(* again, so a wait ends some time after its condition holds.              *)
(*                                                                         *)
(* A vector has the initial value of process j, or nothing, at index j:    *)
(* it is the set of the processes whose values it has.  The labels n - f/2 *)
(* +- f/4 ... are doubles that the code halves without rounding: here they *)
(* are multiplied by Scale.                                                *)
(***************************************************************************)
EXTENDS Naturals, FiniteSets, Lattice

CONSTANTS
  Procs,    \* the processes; each knows all others, itself not
  F,        \* the number of failures the coordinator was started with
  LogF,     \* log_f, the number of rounds
  Networks  \* sets of <<k, d, p, q>>: a message of kind k and round d from p
            \* to q is delivered in the end; all others are lost

N == Cardinality(Procs)
Kinds == {"value", "write", "read", "write_ack", "read_ack"}
Rounds == 1..LogF

\* LogF is log2(F), rounded up.  For F = 0 the code converts the logarithm of
\* zero to an unsigned number, which has no defined value.
ASSUME ZhengAssumption ==
  /\ IsFiniteSet(Procs)
  /\ F \in Nat \ {0} /\ 2 * F < N
  /\ LogF \in Nat /\ F <= 2^LogF /\ (LogF > 0 => 2^(LogF - 1) < F)
  /\ Networks \subseteq SUBSET (Kinds \X (0..LogF) \X Procs \X Procs)

\* For the proofs: the backends do not know powers.
ASSUME PowerAssumption ==
  \A k \in 0..LogF : 2^k \in Nat \ {0} /\ 2^(k + 1) = 2 * 2^k

\* Mutants of Quorum: half of the others, one too many.
HalfOfOthers == (N - 1) \div 2
OneTooMany == N - F + 1

\* Every wait is for n - f answers of others.
Quorum == N - F

\* delta after the last round is F / Scale.
Scale == 2 * 2^LogF

VARIABLES
  \* main thread
  pc,        \* "idle", the wait start is in ("values", "write", "read",
             \* "second_write"), or "returned"
  locked,    \* locked[p]: the main thread holds cv_m
  delta,     \* times Scale
  result,    \* what start returned, Bottom before
  \* shared with the network thread
  r, l, v, w, value_received, read_ack_received, write_ack_received,
  acceptVal, \* acceptVal[p][d]: pairs of a vector and a label
  msgs,      \* messages on their way
  links      \* the network of this execution

mainVars == <<pc, locked, delta, result, r, l>>
vectors == <<v, w>>
counters == <<value_received, read_ack_received, write_ack_received>>
netVars == <<msgs, links>>
vars == <<mainVars, vectors, counters, acceptVal, netVars>>

Entries == (SUBSET Procs) \X Nat

\* "second" tells the two writes of a round apart, as their message
\* identifiers do.
Messages ==
  [type : {"value"}, round : {0}, from : Procs, to : Procs, vec : SUBSET Procs]
    \cup
  [type : {"write"}, round : Rounds, from : Procs, to : Procs,
   vec : SUBSET Procs, label : Nat, second : BOOLEAN]
    \cup
  [type : {"read"}, round : Rounds, from : Procs, to : Procs]
    \cup
  [type : {"write_ack"}, round : Rounds, from : Procs, to : Procs,
   recVal : SUBSET Entries, second : BOOLEAN]
    \cup
  [type : {"read_ack"}, round : Rounds, from : Procs, to : Procs,
   recVal : SUBSET Entries]

Init == /\ pc = [p \in Procs |-> "idle"]
        /\ locked = [p \in Procs |-> TRUE]
        /\ delta = [p \in Procs |-> F * 2^LogF]
        /\ result = [p \in Procs |-> Bottom]
        /\ r = [p \in Procs |-> 0]   \* not initialized, and not read before round 1
        /\ l = [p \in Procs |-> (2 * N - F) * 2^LogF]
        /\ v = [p \in Procs |-> {}]
        /\ w = [p \in Procs |-> {}]
        /\ value_received = [p \in Procs |-> 0]
        /\ read_ack_received = [p \in Procs |-> 0]
        /\ write_ack_received = [p \in Procs |-> 0]
        /\ acceptVal = [p \in Procs |-> [d \in Rounds |-> {}]]
        /\ msgs = {}
        /\ links \in Networks

-----------------------------------------------------------------------------
(* Network: the message of ProtocolTcp's send functions to every peer; a   *)
(* message that is handled is gone.                                        *)

Others(p) == Procs \ {p}

Delivered(M) == {m \in M : <<m.type, m.round, m.from, m.to>> \in links}

SendValue(p, vec) ==
  Delivered([type : {"value"}, round : {0}, from : {p}, to : Others(p), vec : {vec}])

SendWrite(p, vec, k, d, second) ==
  Delivered([type : {"write"}, round : {d}, from : {p}, to : Others(p),
             vec : {vec}, label : {k}, second : {second}])

SendRead(p, d) ==
  Delivered([type : {"read"}, round : {d}, from : {p}, to : Others(p)])

Send(M) == msgs' = msgs \cup M /\ UNCHANGED links

Handled(m, M) == msgs' = (msgs \ {m}) \cup Delivered(M) /\ UNCHANGED links

-----------------------------------------------------------------------------
(* Main thread: ZhengLA::start and ZhengLA::classifier.                    *)

\* Into a wait; cv_m is released unless the condition holds already.
Wait(p, where, condition) == /\ pc' = [pc EXCEPT ![p] = where]
                             /\ locked' = [locked EXCEPT ![p] = condition]

Start(p) ==
  /\ pc[p] = "idle"
  /\ v' = [v EXCEPT ![p] = @ \cup {p}]
  /\ Send(SendValue(p, v[p] \cup {p}))
  /\ Wait(p, "values", value_received[p] >= Quorum)
  /\ UNCHANGED <<delta, result, r, l, w, counters, acceptVal>>

\* The head of the loop in start: with vector vec and label k into the
\* classifier of the next round, which writes and waits; or out of the loop.
NextRound(p, vec, k, acks) ==
  /\ r' = [r EXCEPT ![p] = @ + 1]
  /\ v' = [v EXCEPT ![p] = vec]
  /\ l' = [l EXCEPT ![p] = k]
  /\ write_ack_received' = [write_ack_received EXCEPT ![p] = acks]
  /\ \/ /\ r[p] < LogF
        /\ w' = [w EXCEPT ![p] = {}]
        /\ Send(SendWrite(p, vec, k, r[p] + 1, FALSE))
        /\ Wait(p, "write", acks >= Quorum)
        /\ UNCHANGED result
     \/ /\ r[p] = LogF
        /\ result' = [result EXCEPT ![p] = vec]
        /\ Wait(p, "returned", FALSE)
        /\ UNCHANGED <<w, netVars>>

ValuesReceived(p) ==
  /\ pc[p] = "values"
  /\ value_received[p] >= Quorum
  /\ NextRound(p, v[p], l[p], write_ack_received[p])
  /\ UNCHANGED <<delta, value_received, read_ack_received, acceptVal>>

\* Mutants of Acknowledged: the writer counts itself; no more than n - f count.
AcknowledgedWithItself(p) == write_ack_received[p] + 1 >= Quorum
AcknowledgedExactly(p) == write_ack_received[p] = Quorum

\* The condition of both waits for acknowledgements of writes.
Acknowledged(p) == write_ack_received[p] >= Quorum

\* The first write of a round is done: read.
WriteDone(p) ==
  /\ pc[p] = "write"
  /\ Acknowledged(p)
  /\ write_ack_received' = [write_ack_received EXCEPT ![p] = 0]
  /\ Send(SendRead(p, r[p]))
  /\ Wait(p, "read", read_ack_received[p] >= Quorum)
  /\ UNCHANGED <<delta, result, r, l, vectors, value_received,
                 read_ack_received, acceptVal>>

ReadDone(p) == /\ pc[p] = "read"
               /\ read_ack_received[p] >= Quorum
               /\ read_ack_received' = [read_ack_received EXCEPT ![p] = 0]

\* Mutants of IsMaster: one value less, one more.
IsMasterOrEqual(p) == Cardinality(w[p]) * Scale >= l[p]
IsMasterBeyond(p) == Cardinality(w[p]) * Scale > l[p] + Scale

\* h > k
IsMaster(p) == Cardinality(w[p]) * Scale > l[p]

\* A master writes what it has read before it returns from classifier.  The
\* acknowledgements of the first write that came in since count.
SecondWrite(p) ==
  /\ ReadDone(p)
  /\ IsMaster(p)
  /\ Send(SendWrite(p, w[p], l[p], r[p], TRUE))
  /\ Wait(p, "second_write", Acknowledged(p))
  /\ UNCHANGED <<delta, result, r, l, vectors, value_received,
                 write_ack_received, acceptVal>>

HalveDelta(p) == delta' = [delta EXCEPT ![p] = @ \div 2]

\* A slave keeps its vector, and write_ack_received too.
BecomeSlave(p) ==
  /\ ReadDone(p)
  /\ ~ IsMaster(p)
  /\ HalveDelta(p)
  /\ NextRound(p, v[p], l[p] - delta[p] \div 2, write_ack_received[p])
  /\ UNCHANGED <<value_received, acceptVal>>

BecomeMaster(p) ==
  /\ pc[p] = "second_write"
  /\ Acknowledged(p)
  /\ HalveDelta(p)
  /\ NextRound(p, w[p], l[p] + delta[p] \div 2, 0)
  /\ UNCHANGED <<value_received, read_ack_received, acceptVal>>

MainStep(p) == \/ Start(p) \/ ValuesReceived(p) \/ WriteDone(p)
               \/ SecondWrite(p) \/ BecomeSlave(p) \/ BecomeMaster(p)

-----------------------------------------------------------------------------
(* Network thread of p: ProtocolTcp::on_message_received calls one handler *)
(* for a message m, which locks cv_m.                                      *)

\* Mutant of TakesValues: values are never refused.
TakesAll(p) == TRUE

\* value_received < n - f
TakesValues(p) == value_received[p] < Quorum

ReceiveValue(p, m) ==
  /\ m.type = "value"
  /\ Handled(m, {})
  /\ \/ /\ TakesValues(p)
        /\ v' = [v EXCEPT ![p] = Join(@, m.vec)]
        /\ value_received' = [value_received EXCEPT ![p] = @ + 1]
     \/ ~ TakesValues(p) /\ UNCHANGED <<v, value_received>>
  /\ UNCHANGED <<mainVars, w, read_ack_received, write_ack_received, acceptVal>>

\* The answer is a copy of acceptVal[rec_r], taken under cv_m.
ReceiveWrite(p, m) ==
  /\ m.type = "write"
  /\ acceptVal' = [acceptVal EXCEPT ![p][m.round] = @ \cup {<<m.vec, m.label>>}]
  /\ Handled(m, {[type |-> "write_ack", round |-> m.round, from |-> p, to |-> m.from,
                recVal |-> acceptVal'[p][m.round], second |-> m.second]})
  /\ UNCHANGED <<mainVars, vectors, counters>>

ReceiveRead(p, m) ==
  /\ m.type = "read"
  /\ Handled(m, {[type |-> "read_ack", round |-> m.round, from |-> p, to |-> m.from,
                recVal |-> acceptVal[p][m.round]]})
  /\ UNCHANGED <<mainVars, vectors, counters, acceptVal>>

\* The join of the vectors in recVal that were written with label k.
WithLabel(recVal, k) == UNION {e[1] : e \in {x \in recVal : x[2] = k}}

\* Every acknowledgement of a write of the round counts, in whatever phase the
\* process is; build_wp is true during the second write.
ReceiveWriteAck(p, m) ==
  /\ m.type = "write_ack"
  /\ Handled(m, {})
  /\ \/ /\ m.round = r[p]
        /\ write_ack_received' = [write_ack_received EXCEPT ![p] = @ + 1]
        /\ w' = IF pc[p] = "second_write"
                THEN [w EXCEPT ![p] = Join(@, WithLabel(m.recVal, l[p]))]
                ELSE w
     \/ m.round # r[p] /\ UNCHANGED <<w, write_ack_received>>
  /\ UNCHANGED <<mainVars, v, value_received, read_ack_received, acceptVal>>

\* rec_r == r && build_w
Reading(p, m) == m.round = r[p] /\ pc[p] = "read"

ReceiveReadAck(p, m) ==
  /\ m.type = "read_ack"
  /\ Handled(m, {})
  /\ \/ /\ Reading(p, m)
        /\ w' = [w EXCEPT ![p] = Join(@, WithLabel(m.recVal, l[p]))]
        /\ read_ack_received' = [read_ack_received EXCEPT ![p] = @ + 1]
     \/ ~ Reading(p, m) /\ UNCHANGED <<w, read_ack_received>>
  /\ UNCHANGED <<mainVars, v, value_received, write_ack_received, acceptVal>>

OnMessageReceived(p, m) ==
  \/ ReceiveValue(p, m) \/ ReceiveWrite(p, m) \/ ReceiveRead(p, m)
  \/ ReceiveWriteAck(p, m) \/ ReceiveReadAck(p, m)

Next == \/ \E m \in msgs : ~ locked[m.to] /\ OnMessageReceived(m.to, m)
        \/ \E p \in Procs : MainStep(p)

Spec == Init /\ [][Next]_vars

-----------------------------------------------------------------------------
(* Types.  No process counts more values than it waits for, however many   *)
(* are on their way.                                                       *)
TypeOK ==
  /\ pc \in [Procs -> {"idle", "values", "write", "read", "second_write", "returned"}]
  /\ locked \in [Procs -> BOOLEAN]
  /\ delta \in [Procs -> Nat]
  /\ result \in [Procs -> SUBSET Procs]
  /\ r \in [Procs -> 0..(LogF + 1)]
  /\ l \in [Procs -> Nat]
  /\ v \in [Procs -> SUBSET Procs]
  /\ w \in [Procs -> SUBSET Procs]
  /\ value_received \in [Procs -> 0..Quorum]
  /\ read_ack_received \in [Procs -> Nat]
  /\ write_ack_received \in [Procs -> Nat]
  /\ acceptVal \in [Procs -> [Rounds -> SUBSET Entries]]
  /\ msgs \subseteq Messages
  /\ links \in Networks

\* The processes that have called start, and those it has returned to.
Started == {p \in Procs : pc[p] # "idle"}
Returned == {p \in Procs : pc[p] = "returned"}

(* The coordinator's verdict: any two results are comparable.              *)
ResultsComparable == \A p, q \in Returned : Comparable(result[p], result[q])

(* A result is made of the values of at least n - f + 1 processes that     *)
(* called start, whatever the classifiers decided.                         *)
ResultsLarge ==
  \A p \in Returned : /\ result[p] \subseteq Started
                      /\ Cardinality(result[p]) > N - F

(* What the rounds of the classifier are for: the processes that are in a  *)
(* round with the same label have at most label + delta values together,   *)
(* and each of them more than label - delta.  When the last delta is left, *)
(* that is less than one value apart: they agree.                          *)
Group(p) == {q \in Procs : r[q] = r[p] /\ l[q] = l[p] /\ v[q] # {}}

GroupIsSmall(p) == Cardinality(UNION {v[q] : q \in Group(p)}) * Scale <= l[p] + delta[p]
LabelIsReached(p) == Cardinality(v[p]) * Scale > l[p] - delta[p]

GroupsShrink == \A p \in Procs : r[p] > 0 => GroupIsSmall(p) /\ LabelIsReached(p)

\* The processes whose values p hears.
ValuesFrom(p) == {q \in Others(p) : <<"value", 0, q, p>> \in links}

\* The processes that answer the writes and reads of p in round d.
AnswersFrom(p, d) ==
  {q \in Others(p) : {<<"write", d, p, q>>, <<"write_ack", d, q, p>>,
                      <<"read", d, p, q>>, <<"read_ack", d, q, p>>} \subseteq links}

\* The processes that hear n - f others in the exchange and in every round.
Served == {p \in Procs :
             /\ Cardinality(ValuesFrom(p)) >= N - F
             /\ \A d \in Rounds : Cardinality(AnswersFrom(p, d)) >= N - F}

\* p is in a wait that does not end by itself, or through.
Waits(p) == \/ pc[p] = "values" /\ value_received[p] < Quorum
            \/ pc[p] \in {"write", "second_write"} /\ ~ Acknowledged(p)
            \/ pc[p] = "read" /\ read_ack_received[p] < Quorum
            \/ pc[p] = "returned"

\* No handler can run, and no main thread can go on.
Quiet == (\A m \in msgs : locked[m.to]) /\ \A p \in Procs : Waits(p)

(* When nothing moves any more, start has returned to every process that   *)
(* hears n - f others: no answer was missed, counted for a wait that is    *)
(* over, or left with a thread that holds cv_m.                            *)
ServedAreThrough == Quiet => Served \subseteq Returned

(* The program implements what the interface promises: start returns to    *)
(* each process a value with its own, of started processes, comparable     *)
(* with every other result, and never takes it back.                       *)
LA == INSTANCE LatticeAgreement WITH proposed <- Started, learnt <- result

ImplementsLA == LA!AbsSpec

=============================================================================
