------------------------------ MODULE ZhengInv ------------------------------
(***************************************************************************)
(* The inductive invariants behind the safety properties of Zheng: one for *)
(* any number of rounds, and one for the classifier when it has a single   *)
(* round.                                                                  *)
(***************************************************************************)
EXTENDS Zheng

\* Where a process is in which round.
PhaseInv ==
  \A p \in Procs :
    /\ pc[p] = "idle" => locked[p] /\ v[p] = {} /\ value_received[p] = 0
    /\ r[p] = 0 <=> pc[p] \in {"idle", "values"}
    /\ pc[p] = "returned" <=> r[p] = LogF + 1
    /\ pc[p] = "returned" => result[p] = v[p]
    /\ r[p] > 0 => value_received[p] >= Quorum

\* During the exchange a process has its own value and one for each it counted;
\* those that are still on their way are others.
ValuesInv ==
  /\ \A m \in msgs : m.type = "value" =>
       /\ m.vec = {m.from}
       /\ m.from \in Started
       /\ pc[m.to] = "values" => m.from \notin v[m.to]
  /\ \A p \in Procs : pc[p] = "values" => Cardinality(v[p]) = value_received[p] + 1
  /\ \A p \in Procs : r[p] > 0 => Cardinality(v[p]) > N - F

\* Every vector is made of the values of started processes.
OriginInv ==
  /\ \A p \in Procs : v[p] \cup w[p] \cup result[p] \subseteq Started
  /\ \A p \in Procs : \A d \in Rounds : \A e \in acceptVal[p][d] : e[1] \subseteq Started
  /\ \A m \in msgs : /\ m.type = "write" => m.vec \subseteq Started
                     /\ m.type \in {"write_ack", "read_ack"} =>
                          \A e \in m.recVal : e[1] \subseteq Started

\* However often a process becomes slave, its label stays above n - f.
LabelInv ==
  \A p \in Procs : /\ (N - F) * Scale + delta[p] <= l[p]
                   /\ pc[p] = "second_write" => IsMaster(p)

IInv == TypeOK /\ PhaseInv /\ ValuesInv /\ OriginInv /\ LabelInv

-----------------------------------------------------------------------------
(* Labels, for any number of rounds.                                       *)

\* delta in round d: delta is halved, without a remainder, once in a round.
DeltaAt(d) == F * 2^(LogF + 1 - d)

FirstLabel == (2 * N - F) * 2^LogF

\* Before its first classification a process has the constructor's label.
LabelsInv ==
  \A p \in Procs :
    /\ delta[p] = DeltaAt(IF r[p] = 0 THEN 1 ELSE r[p])
    /\ r[p] <= 1 => l[p] = FirstLabel

\* A process that becomes slave goes down to the label less what is left of
\* delta, a master has read more than the label: both have reached theirs.
LabelsReached == \A p \in Procs : r[p] > 0 => LabelIsReached(p)

LevelInv == LabelsInv /\ LabelsReached

\* What start returned is the vector, and nothing before; no vector loses the
\* own value.
OwnInv == \A p \in Procs : /\ pc[p] # "idle" => p \in v[p]
                           /\ pc[p] # "returned" => result[p] = Bottom

\* What a master has read contains its vector.
MastersRead == \A p \in Procs : pc[p] = "second_write" => v[p] \subseteq w[p]

-----------------------------------------------------------------------------
(* Whom a process waits for, for any number of rounds.                     *)

\* A main thread that holds cv_m does not wait.
LockInv == \A p \in Procs : locked[p] => ~ Waits(p)

\* While values are taken, those of started processes have come or will come.
ArrivalInv ==
  \A p \in Procs :
    /\ pc[p] = "values" => p \in v[p]
    /\ TakesValues(p) =>
         \A q \in ValuesFrom(p) \cap Started :
           q \in v[p] \/ \E m \in msgs : m.type = "value" /\ m.from = q /\ m.to = p

\* A request of p's round is on its way to q, or the answer back.
Open(p, q, request, answer) ==
  \E m \in msgs : /\ m.round = r[p]
                  /\ \/ m.type = request /\ m.from = p /\ m.to = q
                     \/ m.type = answer /\ m.from = q /\ m.to = p

Outstanding(p, request, answer) == {q \in AnswersFrom(p, r[p]) : Open(p, q, request, answer)}

\* The answers p can get in its round are counted or outstanding.
Awaits(p, count, request, answer) ==
  Cardinality(AnswersFrom(p, r[p])) <= count + Cardinality(Outstanding(p, request, answer))

AwaitInv ==
  \A p \in Procs :
    /\ pc[p] \in {"write", "second_write"} =>
         Awaits(p, write_ack_received[p], "write", "write_ack")
    /\ pc[p] = "read" => Awaits(p, read_ack_received[p], "read", "read_ack")

ServeInv == LockInv /\ ArrivalInv /\ AwaitInv

-----------------------------------------------------------------------------
(* One round, with two failures: the label is the same everywhere.         *)

OneRound == F = 2 /\ LogF = 1

\* Messages of p's first write and read, and their answers.
Writes(p) == {m \in msgs : m.type = "write" /\ m.from = p /\ ~ m.second}
WriteAcks(p) == {m \in msgs : m.type = "write_ack" /\ m.to = p /\ ~ m.second}
Reads(p) == {m \in msgs : m.type = "read" /\ m.from = p}
ReadAcks(p) == {m \in msgs : m.type = "read_ack" /\ m.to = p}

\* Messages of p's second write.
SecondWrites(p) == {m \in msgs : m.type = "write" /\ m.from = p /\ m.second}
                     \cup {m \in msgs : m.type = "write_ack" /\ m.to = p /\ m.second}

\* The processes with an unfinished write, or read, of p.
Writing(p) == {m.to : m \in Writes(p)} \cup {m.from : m \in WriteAcks(p)}
ReadingFrom(p) == {m.to : m \in Reads(p)} \cup {m.from : m \in ReadAcks(p)}

\* The other processes that hold the vector p wrote.
Entry(p) == <<v[p], FirstLabel>>
Holders(p) == {x \in Others(p) : Entry(p) \in acceptVal[x][1]}

\* p has written its vector and has not got another since.
Slave(p) == pc[p] = "returned" /\ Cardinality(w[p]) * Scale <= FirstLabel
HasWritten(p) == pc[p] \in {"read", "second_write"} \/ Slave(p)

\* A process is asked once and answers once.
OneAnswer(p) ==
  /\ \A m1, m2 \in Writes(p) : m1.to = m2.to => m1 = m2
  /\ \A m1, m2 \in WriteAcks(p) : m1.from = m2.from => m1 = m2
  /\ \A m1, m2 \in ReadAcks(p) : m1.from = m2.from => m1 = m2
  /\ \A m1 \in Writes(p), m2 \in WriteAcks(p) : m1.to # m2.from
  /\ \A m1 \in Reads(p), m2 \in ReadAcks(p) : m1.to # m2.from

\* Nothing is sent or counted before its phase.
InPhase(p) ==
  /\ pc[p] # "returned" => l[p] = FirstLabel
  /\ pc[p] \in {"idle", "values"} => Writing(p) = {} /\ write_ack_received[p] = 0
  /\ pc[p] \in {"idle", "values", "write"} => /\ ReadingFrom(p) = {} /\ read_ack_received[p] = 0
                                              /\ SecondWrites(p) = {}

RequestInv == /\ \A m \in msgs : m.from # m.to
              /\ \A p \in Procs : OneAnswer(p) /\ InPhase(p)

\* A write that is acknowledged is stored.
Stored(p) ==
  /\ pc[p] = "write" =>
       /\ \A m \in Writes(p) : <<m.vec, m.label>> = Entry(p)
       /\ \A m \in WriteAcks(p) : m.from \in Holders(p)
       /\ write_ack_received[p] <= Cardinality(Holders(p) \ Writing(p))
  /\ HasWritten(p) => Cardinality(Holders(p)) >= Quorum

WriteInv == \A p \in Procs : Stored(p)

\* What p wrote is in what q has read, or will be: n - f processes have stored
\* it, and none of them is among those whose answers q has already counted.
SawNone(q, p, H) ==
  /\ Cardinality(H) >= Quorum
  /\ read_ack_received[q] + Cardinality(ReadingFrom(q) \cup (H \ {q})) < N
  /\ \A m \in ReadAcks(q) : m.from \in H => Entry(p) \in m.recVal

Sees(q, p) ==
  v[p] \subseteq w[q] \/ (pc[q] = "read" /\ \E H \in SUBSET Holders(p) : SawNone(q, p, H))

\* Of two processes that have written, the later one sees the other.
SnapshotInv ==
  \A p, q \in Procs : HasWritten(p) /\ HasWritten(q) => Sees(p, q) \/ Sees(q, p)

\* Masters have more values than the label says.
MasterInv ==
  \A p \in Procs : pc[p] = "returned" /\ ~ Slave(p) => Cardinality(v[p]) * Scale > FirstLabel

\* The label of a process that has returned says whether it became master.
OutcomeInv ==
  \A p \in Procs :
    pc[p] = "returned" =>
      l[p] = IF Slave(p) THEN FirstLabel - DeltaAt(2) ELSE FirstLabel + DeltaAt(2)

ClassifierInv == IInv /\ RequestInv /\ WriteInv /\ SnapshotInv /\ MasterInv

=============================================================================
