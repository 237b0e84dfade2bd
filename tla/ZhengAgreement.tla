--------------------------- MODULE ZhengAgreement ---------------------------
(***************************************************************************)
(* The classifier of Zheng with one round, that is with two failures: the  *)
(* results are comparable, for any finite set of processes and any pattern *)
(* of lost messages.                                                       *)
(***************************************************************************)
EXTENDS ZhengProofs

USE DEF Join, Bottom

-----------------------------------------------------------------------------
(* Messages.                                                               *)

(* The only round is round 1, in which every waiting classifier is.        *)
LEMMA OnlyRound ==
  ASSUME OneRound
  PROVE  /\ LogF = 1 /\ F = 2 /\ Rounds = {1} /\ Quorum = N - 2 /\ N >= 5
         /\ FirstLabel \in Nat /\ FirstLabel = (N - 1) * Scale
<1>1. LogF = 1 /\ F = 2 /\ Rounds = {1} /\ Quorum = N - 2
  BY DEF OneRound, Rounds, Quorum
<1>2. N >= 5
  BY <1>1, Numbers
<1>3. FirstLabel \in Nat
  BY Labels DEF FirstLabel
<1>4. FirstLabel = (N - 1) * Scale
  <2> DEFINE P == 2^LogF
  <2>1. P \in Nat
    BY Powers
  <2> HIDE DEF P
  <2>2. (2 * N - 2) * P = (N - 1) * (2 * P)
    BY <2>1, Numbers
  <2>3. QED BY <2>2, <1>1 DEF FirstLabel, Scale, P
<1>5. QED BY <1>1, <1>2, <1>3, <1>4

LEMMA RoundOne ==
  ASSUME IInv, OneRound, NEW p \in Procs
  PROVE  /\ pc[p] \in {"idle", "values"} => r[p] = 0
         /\ pc[p] \in {"write", "read", "second_write"} => r[p] = 1
         /\ pc[p] = "returned" => r[p] = 2
         /\ \A m \in msgs : m.type \in {"write", "read", "write_ack", "read_ack"} => m.round = 1
<1>1. \A m \in msgs : m.type \in {"write", "read", "write_ack", "read_ack"} => m.round = 1
  BY OnlyRound DEF IInv, TypeOK, Messages
<1>2. pc[p] \in {"write", "read", "second_write"} => r[p] = 1
  BY OnlyRound, InRound
<1>3. QED BY <1>1, <1>2, OnlyRound DEF IInv, PhaseInv

(* Whom p has asked are processes.                                         *)
LEMMA AskedProcs ==
  ASSUME IInv, NEW p \in Procs
  PROVE  /\ Writing(p) \subseteq Procs /\ ReadingFrom(p) \subseteq Procs /\ Holders(p) \subseteq Procs
         /\ \A m \in msgs : m.from \in Procs /\ m.to \in Procs
<1>1. \A m \in msgs : m.from \in Procs /\ m.to \in Procs
  BY DEF IInv, TypeOK, Messages
<1>2. QED BY <1>1 DEF Writing, ReadingFrom, Writes, WriteAcks, Reads, ReadAcks, Holders, Others

-----------------------------------------------------------------------------
(* Steps that leave a process alone.                                       *)

\* No new message of a request of p.
NoNewMessages(p) == /\ Writes(p)' \subseteq Writes(p) /\ WriteAcks(p)' \subseteq WriteAcks(p)
                    /\ Reads(p)' \subseteq Reads(p) /\ ReadAcks(p)' \subseteq ReadAcks(p)
                    /\ SecondWrites(p)' \subseteq SecondWrites(p)

\* p did nothing.
Idle(p) == /\ pc'[p] = pc[p] /\ l'[p] = l[p] /\ v'[p] = v[p] /\ w'[p] = w[p]
           /\ read_ack_received'[p] = read_ack_received[p]
           /\ write_ack_received'[p] = write_ack_received[p]

\* What is stored remains.
Kept == \A x \in Procs : acceptVal[x][1] \subseteq acceptVal'[x][1]

(* New messages are of requests of a: no other process has new ones.       *)
LEMMA OthersMessages ==
  ASSUME NEW a, NEW M, msgs' \subseteq msgs \cup M,
         \A x \in M : /\ x.type \in {"write", "read"} => x.from = a
                      /\ x.type \in {"write_ack", "read_ack"} => x.to = a,
         NEW p, p # a
  PROVE  NoNewMessages(p)
BY DEF NoNewMessages, Writes, WriteAcks, Reads, ReadAcks, SecondWrites

LEMMA FewerAsked ==
  ASSUME NEW p, NoNewMessages(p)
  PROVE  Writing(p)' \subseteq Writing(p) /\ ReadingFrom(p)' \subseteq ReadingFrom(p)
BY DEF NoNewMessages, Writing, ReadingFrom

LEMMA OneAnswerFrame ==
  ASSUME NEW p \in Procs, OneAnswer(p), NoNewMessages(p)
  PROVE  OneAnswer(p)'
BY DEF OneAnswer, NoNewMessages

LEMMA InPhaseFrame ==
  ASSUME NEW p \in Procs, InPhase(p), NoNewMessages(p), Idle(p)
  PROVE  InPhase(p)'
BY FewerAsked DEF InPhase, NoNewMessages, Idle

LEMMA HoldersFrame ==
  ASSUME NEW p \in Procs, v'[p] = v[p], Kept
  PROVE  Holders(p) \subseteq Holders(p)'
BY DEF Holders, Entry, Kept, Others

(* More processes that hold the vector, fewer that have not answered.      *)
LEMMA StoredMore ==
  ASSUME IInv, IInv', NEW p \in Procs, Stored(p), Idle(p), Kept,
         Writing(p)' \subseteq Writing(p), Writes(p)' \subseteq Writes(p),
         pc[p] = "write" => \A m \in WriteAcks(p)' : m.from \in Holders(p)'
  PROVE  Stored(p)'
<1>1. Holders(p) \subseteq Holders(p)'
  BY HoldersFrame DEF Idle
<1>2. Holders(p)' \subseteq Procs
  BY DEF Holders, Others
<1>3. Entry(p)' = Entry(p) /\ (HasWritten(p)' <=> HasWritten(p))
  BY DEF Entry, HasWritten, Slave, Idle
<1>4. Cardinality(Holders(p)) <= Cardinality(Holders(p)')
  BY <1>1, <1>2, ProcSets, FS_Subset
<1>5. Cardinality(Holders(p) \ Writing(p)) <= Cardinality(Holders(p)' \ Writing(p)')
  <2>1. Holders(p) \ Writing(p) \subseteq Holders(p)' \ Writing(p)' /\ IsFiniteSet(Holders(p)' \ Writing(p)')
    BY <1>1, <1>2, ProcSets, FS_Difference
  <2>2. QED BY <2>1, FS_Subset
<1>6. /\ Cardinality(Holders(p)) \in Nat /\ Cardinality(Holders(p)') \in Nat
      /\ Cardinality(Holders(p) \ Writing(p)) \in Nat
      /\ Cardinality(Holders(p)' \ Writing(p)') \in Nat
  BY <1>1, <1>2, ProcSets
<1>7. write_ack_received'[p] = write_ack_received[p] /\ write_ack_received[p] \in Nat /\ pc'[p] = pc[p]
  BY DEF Idle, IInv, TypeOK
<1>8. pc'[p] = "write" =>
        /\ \A m \in Writes(p)' : <<m.vec, m.label>> = Entry(p)'
        /\ \A m \in WriteAcks(p)' : m.from \in Holders(p)'
  BY <1>3, <1>7 DEF Stored
<1>9. pc'[p] = "write" => write_ack_received'[p] <= Cardinality(Holders(p)' \ Writing(p)')
  BY <1>5, <1>6, <1>7 DEF Stored
<1>10. HasWritten(p)' => Cardinality(Holders(p)') >= Quorum
  BY <1>3, <1>4, <1>6, Numbers DEF Stored
<1>11. QED BY <1>8, <1>9, <1>10 DEF Stored

LEMMA StoredFrame ==
  ASSUME IInv, IInv', NEW p \in Procs, Stored(p), NoNewMessages(p), Idle(p), Kept
  PROVE  Stored(p)'
<1>1. Writing(p)' \subseteq Writing(p) /\ Writes(p)' \subseteq Writes(p)
  BY FewerAsked DEF NoNewMessages
<1>2. pc[p] = "write" => \A m \in WriteAcks(p)' : m.from \in Holders(p)'
  BY HoldersFrame DEF Stored, NoNewMessages, Idle
<1>3. QED BY <1>1, <1>2, StoredMore

(* Who sees p goes on to do so while it asks nobody else.                  *)
LEMMA SeesMore ==
  ASSUME IInv, IInv', NEW q \in Procs, NEW p \in Procs, Sees(q, p), v'[p] = v[p], Kept,
         pc'[q] = pc[q], w[q] \subseteq w'[q], read_ack_received'[q] = read_ack_received[q],
         ReadingFrom(q)' \subseteq ReadingFrom(q),
         \A m \in ReadAcks(q)' : m \in ReadAcks(q) \/ (m.from \in Holders(p) => Entry(p) \in m.recVal)
  PROVE  Sees(q, p)'
<1>1. CASE v[p] \subseteq w[q]
  BY <1>1 DEF Sees
<1>2. CASE ~ (v[p] \subseteq w[q])
  <2>1. PICK H \in SUBSET Holders(p) : SawNone(q, p, H)
    BY <1>2 DEF Sees
  <2>2. pc'[q] = "read" /\ read_ack_received[q] \in Nat
    BY <1>2 DEF Sees, IInv, TypeOK
  <2>3. H \in SUBSET (Holders(p)') /\ Entry(p)' = Entry(p)
    BY HoldersFrame DEF Entry
  <2>4. ReadingFrom(q) \cup (H \ {q}) \subseteq Procs
    BY AskedProcs
  <2>5. Cardinality(ReadingFrom(q)' \cup (H \ {q})) <= Cardinality(ReadingFrom(q) \cup (H \ {q}))
    <3>1. ReadingFrom(q)' \cup (H \ {q}) \subseteq ReadingFrom(q) \cup (H \ {q})
      OBVIOUS
    <3>2. QED BY <3>1, <2>4, ProcSets, FS_Subset
  <2>6. Cardinality(ReadingFrom(q)' \cup (H \ {q})) \in Nat /\ Cardinality(ReadingFrom(q) \cup (H \ {q})) \in Nat
    BY <2>4, ProcSets
  <2>7. read_ack_received'[q] + Cardinality(ReadingFrom(q)' \cup (H \ {q})) < N
    BY <2>1, <2>2, <2>5, <2>6, Numbers DEF SawNone
  <2>8. \A m \in ReadAcks(q)' : m.from \in H => Entry(p)' \in m.recVal
    BY <2>1, <2>3 DEF SawNone
  <2>9. SawNone(q, p, H)'
    BY <2>1, <2>7, <2>8 DEF SawNone
  <2>10. QED BY <2>2, <2>3, <2>9 DEF Sees
<1>3. QED BY <1>1, <1>2

LEMMA SeesFrame ==
  ASSUME IInv, IInv', NEW q \in Procs, NEW p \in Procs, Sees(q, p),
         NoNewMessages(q), Idle(q), v'[p] = v[p], Kept
  PROVE  Sees(q, p)'
<1>1. /\ pc'[q] = pc[q] /\ w[q] \subseteq w'[q] /\ read_ack_received'[q] = read_ack_received[q]
      /\ ReadAcks(q)' \subseteq ReadAcks(q) /\ ReadingFrom(q)' \subseteq ReadingFrom(q)
  BY FewerAsked DEF Idle, NoNewMessages
<1>2. QED BY <1>1, SeesMore

(* A step of process a, or one that answers its request, preserves the     *)
(* invariant when it preserves the parts that are about a.                 *)
LEMMA ByActor ==
  ASSUME ClassifierInv, IInv', NEW a \in Procs, Kept,
         \A p \in Procs : p # a => NoNewMessages(p) /\ Idle(p),
         \A m \in msgs' : m.from # m.to,
         OneAnswer(a)', InPhase(a)', Stored(a)',
         pc'[a] = "returned" /\ ~ Slave(a)' => Cardinality(v'[a]) * Scale > FirstLabel,
         \A p \in Procs : HasWritten(a)' /\ HasWritten(p)' => Sees(a, p)' \/ Sees(p, a)'
  PROVE  ClassifierInv'
<1> USE DEF ClassifierInv
<1>1. RequestInv'
  <2> SUFFICES ASSUME NEW p \in Procs PROVE OneAnswer(p)' /\ InPhase(p)'
    BY DEF RequestInv
  <2>1. CASE p = a
    BY <2>1
  <2>2. CASE p # a
    BY <2>2, OneAnswerFrame, InPhaseFrame DEF RequestInv
  <2>3. QED BY <2>1, <2>2
<1>2. WriteInv'
  <2> SUFFICES ASSUME NEW p \in Procs PROVE Stored(p)'
    BY DEF WriteInv
  <2>1. CASE p = a
    BY <2>1
  <2>2. CASE p # a
    BY <2>2, StoredFrame DEF WriteInv
  <2>3. QED BY <2>1, <2>2
<1>3. \A p \in Procs : p # a => (HasWritten(p)' <=> HasWritten(p)) /\ (Slave(p)' <=> Slave(p))
  BY DEF HasWritten, Slave, Idle
<1>4. SnapshotInv'
  <2> SUFFICES ASSUME NEW p \in Procs, NEW q \in Procs, HasWritten(p)', HasWritten(q)'
               PROVE  Sees(p, q)' \/ Sees(q, p)'
    BY DEF SnapshotInv
  <2>1. CASE p = a
    BY <2>1
  <2>2. CASE q = a
    BY <2>2
  <2>3. CASE p # a /\ q # a
    <3>1. Sees(p, q) \/ Sees(q, p)
      BY <2>3, <1>3 DEF SnapshotInv
    <3>2. v'[p] = v[p] /\ v'[q] = v[q] /\ NoNewMessages(p) /\ NoNewMessages(q) /\ Idle(p) /\ Idle(q)
      BY <2>3 DEF Idle
    <3>3. QED BY <3>1, <3>2, SeesFrame
  <2>4. QED BY <2>1, <2>2, <2>3
<1>5. MasterInv'
  <2> SUFFICES ASSUME NEW p \in Procs, pc'[p] = "returned", ~ Slave(p)'
               PROVE  Cardinality(v'[p]) * Scale > FirstLabel
    BY DEF MasterInv
  <2>1. CASE p = a
    BY <2>1
  <2>2. CASE p # a
    BY <2>2, <1>3 DEF MasterInv, Idle
  <2>3. QED BY <2>1, <2>2
<1>6. QED BY <1>1, <1>2, <1>4, <1>5

(* A process that has written and keeps its vector is seen as before.      *)
LEMMA StillSeen ==
  ASSUME ClassifierInv, IInv', NEW a \in Procs, Kept,
         \A p \in Procs : p # a => NoNewMessages(p) /\ Idle(p),
         HasWritten(a), v'[a] = v[a], \A x \in Procs : Sees(a, x) => Sees(a, x)'
  PROVE  \A p \in Procs : HasWritten(a)' /\ HasWritten(p)' => Sees(a, p)' \/ Sees(p, a)'
<1> USE DEF ClassifierInv
<1> SUFFICES ASSUME NEW p \in Procs, HasWritten(p)' PROVE Sees(a, p)' \/ Sees(p, a)'
  OBVIOUS
<1>1. CASE p = a
  BY <1>1 DEF SnapshotInv
<1>2. CASE p # a
  <2>1. HasWritten(p)
    BY <1>2 DEF HasWritten, Slave, Idle
  <2>2. Sees(a, p) \/ Sees(p, a)
    BY <2>1 DEF SnapshotInv
  <2>3. QED BY <2>2, <1>2, SeesFrame
<1>3. QED BY <1>1, <1>2

-----------------------------------------------------------------------------
(* Steps before p has written: no vector of p counts yet.                  *)

(* Messages other than p's requests and their answers.                     *)
LEMMA NoRequest ==
  ASSUME NEW M, msgs' \subseteq msgs \cup M, \A x \in M : x.type = "value", NEW p
  PROVE  NoNewMessages(p)
BY DEF NoNewMessages, Writes, WriteAcks, Reads, ReadAcks, SecondWrites

LEMMA StartClassifier ==
  ASSUME ClassifierInv, NEW a \in Procs, Start(a)
  PROVE  ClassifierInv'
<1> USE DEF ClassifierInv
<1>1. IInv'
  BY StartInv
<1>2. v[a] \cup {a} \in SUBSET Procs
  BY DEF IInv, TypeOK
<1> DEFINE M == SendValue(a, v[a] \cup {a})
<1>3. msgs' = msgs \cup M /\ \A x \in M : x.type = "value" /\ x.from # x.to
  <2>1. \A x \in M : x.type = "value" /\ x.from # x.to
    BY <1>2, SentValues
  <2>2. QED BY <2>1 DEF Start, Send
<1> HIDE DEF M
<1>4. \A p \in Procs : NoNewMessages(p)
  BY <1>3, NoRequest
<1>5. pc[a] = "idle" /\ pc'[a] = "values" /\ Kept
      /\ \A p \in Procs : p # a => Idle(p)
  BY DEF Start, Wait, Idle, Kept, counters, IInv, TypeOK
<1>6. OneAnswer(a)'
  BY <1>4, OneAnswerFrame DEF RequestInv
<1>7. InPhase(a)'
  <2>1. l'[a] = l[a] /\ write_ack_received'[a] = write_ack_received[a]
        /\ read_ack_received'[a] = read_ack_received[a]
    BY DEF Start, counters
  <2>2. Writing(a)' = {} /\ ReadingFrom(a)' = {} /\ SecondWrites(a)' = {}
    BY <1>4, <1>5, FewerAsked DEF RequestInv, InPhase, NoNewMessages
  <2>3. QED BY <1>5, <2>1, <2>2 DEF RequestInv, InPhase
<1>8. ~ HasWritten(a)'
  BY <1>5 DEF HasWritten, Slave
<1>9. Stored(a)'
  BY <1>5, <1>8 DEF Stored
<1>10. \A m \in msgs' : m.from # m.to
  BY <1>3 DEF RequestInv
<1>11. QED BY <1>1, <1>4, <1>5, <1>6, <1>7, <1>8, <1>9, <1>10, ByActor

LEMMA ReceiveValueClassifier ==
  ASSUME ClassifierInv, NEW a \in Procs, NEW m \in msgs, m.to = a, ~ locked[a], ReceiveValue(a, m)
  PROVE  ClassifierInv'
<1> USE DEF ClassifierInv
<1>1. IInv'
  BY ReceiveValueInv
<1>2. msgs' \subseteq msgs /\ links' = links
  BY DEF ReceiveValue, Handled, Delivered
<1>3. \A p \in Procs : NoNewMessages(p)
  BY <1>2 DEF NoNewMessages, Writes, WriteAcks, Reads, ReadAcks, SecondWrites
<1>4. Kept /\ UNCHANGED <<pc, l, w, read_ack_received, write_ack_received>>
  BY DEF ReceiveValue, Kept, mainVars
<1>5. \A p \in Procs : p # a => Idle(p)
  BY <1>4 DEF ReceiveValue, Idle, IInv, TypeOK
<1>6. \A p \in Procs : OneAnswer(p)' /\ InPhase(p)'
  <2> TAKE p \in Procs
  <2>1. OneAnswer(p)'
    BY <1>3, OneAnswerFrame DEF RequestInv
  <2>2. Writing(p)' \subseteq Writing(p) /\ ReadingFrom(p)' \subseteq ReadingFrom(p)
        /\ SecondWrites(p)' \subseteq SecondWrites(p)
    BY <1>3, FewerAsked DEF NoNewMessages
  <2>3. InPhase(p)'
    BY <1>4, <2>2 DEF RequestInv, InPhase
  <2>4. QED BY <2>1, <2>3
<1>7. \A x \in msgs' : x.from # x.to
  BY <1>2 DEF RequestInv
<1>8. CASE pc[a] \in {"idle", "values"}
  <2>1. pc'[a] \in {"idle", "values"} /\ ~ HasWritten(a)'
    BY <1>4, <1>8 DEF HasWritten, Slave
  <2>2. Stored(a)'
    BY <2>1 DEF Stored
  <2>3. QED BY <1>1, <1>3, <1>4, <1>5, <1>6, <1>7, <2>1, <2>2, ByActor
<1>9. CASE pc[a] \notin {"idle", "values"}
  <2>1. v' = v
    <3>1. value_received[a] >= Quorum
      BY <1>9, Numbers DEF IInv, PhaseInv, TypeOK
    <3>2. ~ TakesValues(a)
      BY <3>1, Numbers DEF TakesValues, IInv, TypeOK
    <3>3. QED BY <3>2 DEF ReceiveValue
  <2>2. Idle(a)
    BY <1>4, <2>1 DEF Idle
  <2>3. Stored(a)'
    BY <1>1, <1>3, <1>4, <2>2, StoredFrame DEF WriteInv
  <2>4. (HasWritten(a)' <=> HasWritten(a)) /\ (Slave(a)' <=> Slave(a))
    BY <2>2 DEF HasWritten, Slave, Idle
  <2>5. pc'[a] = "returned" /\ ~ Slave(a)' => Cardinality(v'[a]) * Scale > FirstLabel
    BY <2>2, <2>4 DEF MasterInv, Idle
  <2>6. \A x \in Procs : Sees(a, x) => Sees(a, x)'
    BY <1>1, <1>3, <1>4, <2>1, <2>2, SeesFrame
  <2>7. \A p \in Procs : HasWritten(a)' /\ HasWritten(p)' => Sees(a, p)' \/ Sees(p, a)'
    BY <1>1, <1>3, <1>4, <1>5, <2>1, <2>4, <2>6, StillSeen DEF ClassifierInv
  <2>8. QED BY <1>1, <1>3, <1>4, <1>5, <1>6, <1>7, <2>3, <2>5, <2>7, ByActor
<1>10. QED BY <1>8, <1>9

(* The first write goes out, to every other process once.                  *)
LEMMA ValuesReceivedClassifier ==
  ASSUME ClassifierInv, OneRound, NEW a \in Procs, ValuesReceived(a)
  PROVE  ClassifierInv'
<1> USE DEF ClassifierInv
<1>1. IInv'
  BY ValuesReceivedInv
<1> DEFINE M == SendWrite(a, v[a], l[a], 1, FALSE)
<1>2. pc[a] = "values" /\ r[a] = 0 /\ r[a] < LogF /\ r[a] # LogF /\ r[a] + 1 = 1
  BY RoundOne, OnlyRound DEF ValuesReceived
<1>3. NextRound(a, v[a], l[a], write_ack_received[a])
      /\ UNCHANGED <<delta, value_received, read_ack_received, acceptVal>>
  BY DEF ValuesReceived
<1>4. /\ r' = [r EXCEPT ![a] = @ + 1] /\ v' = [v EXCEPT ![a] = v[a]]
      /\ l' = [l EXCEPT ![a] = l[a]] /\ w' = [w EXCEPT ![a] = {}]
      /\ write_ack_received' = [write_ack_received EXCEPT ![a] = write_ack_received[a]]
      /\ pc' = [pc EXCEPT ![a] = "write"]
  BY <1>2, <1>3 DEF NextRound, Wait
<1>5. msgs' = msgs \cup M
  BY <1>2, <1>3, Zenon DEF NextRound, Send
<1>6. /\ v'[a] = v[a] /\ l'[a] = l[a] /\ pc'[a] = "write"
      /\ write_ack_received'[a] = write_ack_received[a] /\ read_ack_received' = read_ack_received
      /\ Kept /\ \A p \in Procs : p # a => Idle(p)
  BY <1>3, <1>4 DEF Kept, Idle, IInv, TypeOK
<1>7. \A x \in M : /\ x.type = "write" /\ x.from = a /\ ~ x.second /\ x.vec = v[a] /\ x.label = l[a]
                   /\ x.to \in Others(a)
  BY DEF SendWrite, Delivered
<1>8. \A x1, x2 \in M : x1.to = x2.to => x1 = x2
  <2> SUFFICES ASSUME NEW x1 \in M, NEW x2 \in M, x1.to = x2.to PROVE x1 = x2
    OBVIOUS
  <2> DEFINE R == [type : {"write"}, round : {1}, from : {a}, to : Others(a),
                   vec : {v[a]}, label : {l[a]}, second : {FALSE}]
  <2>1. x1 \in R /\ x2 \in R
    BY DEF SendWrite, Delivered
  <2>2. /\ x1.type = x2.type /\ x1.round = x2.round /\ x1.from = x2.from
        /\ x1.vec = x2.vec /\ x1.label = x2.label /\ x1.second = x2.second
    BY <2>1
  <2>3. QED BY <2>1, <2>2
<1> HIDE DEF M
<1>9. \A p \in Procs : p # a => NoNewMessages(p)
  BY <1>5, <1>7, OthersMessages
<1>10. Writing(a) = {} /\ ReadingFrom(a) = {} /\ SecondWrites(a) = {} /\ write_ack_received[a] = 0
       /\ read_ack_received[a] = 0 /\ l[a] = FirstLabel
  BY <1>2 DEF RequestInv, InPhase
<1>11. Writes(a) = {} /\ WriteAcks(a) = {} /\ Reads(a) = {} /\ ReadAcks(a) = {}
  BY <1>10 DEF Writing, ReadingFrom
<1>12. WriteAcks(a)' = {} /\ Reads(a)' = {} /\ ReadAcks(a)' = {} /\ SecondWrites(a)' = {}
       /\ Writes(a)' = M
  BY <1>5, <1>7, <1>10, <1>11 DEF Writes, WriteAcks, Reads, ReadAcks, SecondWrites
<1>13. OneAnswer(a)'
  BY <1>8, <1>12 DEF OneAnswer
<1>14. InPhase(a)'
  <2>1. ReadingFrom(a)' = {}
    BY <1>12 DEF ReadingFrom
  <2>2. QED BY <2>1, <1>6, <1>10, <1>12 DEF InPhase
<1>15. ~ HasWritten(a)'
  BY <1>6 DEF HasWritten, Slave
<1>16. Stored(a)'
  <2>1. Entry(a)' = <<v[a], l[a]>>
    BY <1>6, <1>10 DEF Entry
  <2>2. \A m \in Writes(a)' : <<m.vec, m.label>> = Entry(a)'
    BY <2>1, <1>7, <1>12
  <2>3. Holders(a)' \ Writing(a)' \subseteq Procs
    BY DEF Holders, Others
  <2>4. write_ack_received'[a] <= Cardinality(Holders(a)' \ Writing(a)')
    BY <2>3, <1>6, <1>10, ProcSets
  <2>5. QED BY <1>12, <1>15, <2>2, <2>4 DEF Stored
<1>17. \A m \in msgs' : m.from # m.to
  BY <1>5, <1>7 DEF RequestInv, Others
<1>18. QED BY <1>1, <1>6, <1>9, <1>13, <1>14, <1>15, <1>16, <1>17, ByActor

-----------------------------------------------------------------------------
(* The read.                                                               *)

(* When the first write is done, n - f others hold the vector; the reader  *)
(* has not counted any answer, and will see all that is written so far.    *)
LEMMA WriteDoneClassifier ==
  ASSUME ClassifierInv, OneRound, NEW a \in Procs, WriteDone(a)
  PROVE  ClassifierInv'
<1> USE DEF ClassifierInv
<1>1. IInv'
  BY WriteDoneInv
<1> DEFINE M == SendRead(a, r[a])
<1>2. /\ pc[a] = "write" /\ write_ack_received[a] >= Quorum
      /\ msgs' = msgs \cup M /\ pc' = [pc EXCEPT ![a] = "read"]
      /\ write_ack_received' = [write_ack_received EXCEPT ![a] = 0]
      /\ UNCHANGED <<l, v, w, read_ack_received, acceptVal>>
  BY DEF WriteDone, Acknowledged, Send, Wait, vectors
<1>3. Kept /\ pc'[a] = "read" /\ \A p \in Procs : p # a => Idle(p)
  BY <1>2 DEF Kept, Idle, IInv, TypeOK
<1>4. \A x \in M : x.type = "read" /\ x.from = a /\ x.to \in Others(a)
  BY DEF SendRead, Delivered
<1> HIDE DEF M
<1>5. \A p \in Procs : p # a => NoNewMessages(p)
  BY <1>2, <1>4, OthersMessages
<1>6. ReadingFrom(a) = {} /\ read_ack_received[a] = 0 /\ l[a] = FirstLabel
  BY <1>2 DEF RequestInv, InPhase
<1>7. Reads(a) = {} /\ ReadAcks(a) = {}
  BY <1>6 DEF ReadingFrom
<1>8. Reads(a)' = M /\ ReadAcks(a)' = {} /\ Writes(a)' = Writes(a) /\ WriteAcks(a)' = WriteAcks(a)
  BY <1>2, <1>4, <1>7 DEF Writes, WriteAcks, Reads, ReadAcks
<1>9. OneAnswer(a)'
  BY <1>8 DEF RequestInv, OneAnswer
<1>10. InPhase(a)'
  BY <1>2, <1>3, <1>6 DEF InPhase
<1>11. Cardinality(Holders(a)) >= Quorum
  <2>1. Holders(a) \subseteq Procs /\ Holders(a) \ Writing(a) \subseteq Holders(a)
    BY DEF Holders, Others
  <2>2. Cardinality(Holders(a) \ Writing(a)) <= Cardinality(Holders(a))
    BY <2>1, ProcSets, FS_Subset
  <2>3. write_ack_received[a] <= Cardinality(Holders(a) \ Writing(a))
    BY <1>2 DEF WriteInv, Stored
  <2>4. /\ Cardinality(Holders(a) \ Writing(a)) \in Nat /\ Cardinality(Holders(a)) \in Nat
        /\ write_ack_received[a] \in Nat
    BY <2>1, ProcSets DEF IInv, TypeOK
  <2>5. QED BY <1>2, <2>2, <2>3, <2>4, Numbers
<1>12. \A p \in Procs : Holders(p)' = Holders(p)
  BY <1>2 DEF Holders, Entry, Others
<1>13. Stored(a)'
  BY <1>3, <1>11, <1>12 DEF Stored
<1>14. \A m \in msgs' : m.from # m.to
  BY <1>2, <1>4 DEF RequestInv, Others
<1>15. \A p \in Procs : HasWritten(a)' /\ HasWritten(p)' => Sees(a, p)' \/ Sees(p, a)'
  <2> SUFFICES ASSUME NEW p \in Procs, HasWritten(p)' PROVE Sees(a, p)'
    OBVIOUS
  <2>1. Cardinality(Holders(p)) >= Quorum
    <3>1. CASE p = a
      BY <3>1, <1>11
    <3>2. CASE p # a
      <4>1. HasWritten(p)
        BY <3>2, <1>3 DEF HasWritten, Slave, Idle
      <4>2. QED BY <4>1 DEF WriteInv, Stored
    <3>3. QED BY <3>1, <3>2
  <2> PICK H : H = Holders(p)
    OBVIOUS
  <2> DEFINE S == ReadingFrom(a)' \cup (H \ {a})
  <2>2. S \subseteq Procs \ {a}
    BY <1>1, <1>4, <1>8, AskedProcs DEF ReadingFrom, Others, Holders
  <2>3. Cardinality(S) < N
    <3>1. Cardinality(Procs \ {a}) = N - 1
      BY ZhengAssumption, FS_RemoveElement DEF N
    <3>2. Cardinality(S) <= Cardinality(Procs \ {a}) /\ Cardinality(S) \in Nat
      BY <2>2, ProcSets, FS_Subset
    <3>3. QED BY <3>1, <3>2, Numbers
  <2>4. read_ack_received'[a] = 0 /\ Cardinality(S) \in Nat
    BY <1>2, <1>6, <2>2, ProcSets
  <2>5. read_ack_received'[a] + Cardinality(S) < N
    BY <2>3, <2>4
  <2>6. SawNone(a, p, H)'
    BY <1>8, <1>12, <2>1, <2>5 DEF SawNone
  <2>7. H \in SUBSET (Holders(p)')
    BY <1>12
  <2> HIDE DEF S
  <2>8. QED BY <1>3, <2>6, <2>7 DEF Sees
<1>16. QED BY <1>1, <1>3, <1>5, <1>9, <1>10, <1>13, <1>14, <1>15, ByActor

(* Too few processes are left that could have answered without the vector. *)
LEMMA ReadDoneSees ==
  ASSUME IInv, OneRound, NEW a \in Procs, NEW p \in Procs,
         read_ack_received[a] >= Quorum, Sees(a, p)
  PROVE  v[p] \subseteq w[a]
<1> SUFFICES ASSUME NEW H \in SUBSET Holders(p), SawNone(a, p, H) PROVE FALSE
  BY DEF Sees
<1> DEFINE S == ReadingFrom(a) \cup (H \ {a})
<1>1. H \subseteq Procs /\ S \subseteq Procs
  BY AskedProcs DEF Holders, Others
<1>2. Cardinality(H \ {a}) >= Cardinality(H) - 1
  <2>1. CASE a \in H
    BY <2>1, <1>1, ProcSets, FS_RemoveElement
  <2>2. CASE a \notin H
    <3>1. H \ {a} = H
      BY <2>2
    <3>2. QED BY <3>1, <1>1, ProcSets
  <2>3. QED BY <2>1, <2>2
<1>3. Cardinality(H \ {a}) <= Cardinality(S)
  <2>1. H \ {a} \subseteq S
    OBVIOUS
  <2>2. QED BY <2>1, <1>1, ProcSets, FS_Subset
<1>4. /\ Cardinality(H) \in Nat /\ Cardinality(H \ {a}) \in Nat /\ Cardinality(S) \in Nat
      /\ read_ack_received[a] \in Nat
  BY <1>1, ProcSets DEF IInv, TypeOK
<1>5. Cardinality(H) >= N - 2 /\ read_ack_received[a] >= N - 2 /\ N >= 5 /\ N \in Nat
      /\ read_ack_received[a] + Cardinality(S) < N
  BY OnlyRound, Numbers DEF SawNone
<1> HIDE DEF S
<1>6. QED BY <1>2, <1>3, <1>4, <1>5

LEMMA SecondWriteClassifier ==
  ASSUME ClassifierInv, OneRound, NEW a \in Procs, SecondWrite(a)
  PROVE  ClassifierInv'
<1> USE DEF ClassifierInv
<1>1. IInv'
  BY SecondWriteInv
<1> DEFINE M == SendWrite(a, w[a], l[a], r[a], TRUE)
<1>2. /\ pc[a] = "read" /\ read_ack_received[a] >= Quorum
      /\ msgs' = msgs \cup M /\ pc' = [pc EXCEPT ![a] = "second_write"]
      /\ read_ack_received' = [read_ack_received EXCEPT ![a] = 0]
      /\ UNCHANGED <<l, v, w, write_ack_received, acceptVal>>
  BY DEF SecondWrite, ReadDone, Send, Wait, vectors
<1>3. Kept /\ pc'[a] = "second_write" /\ \A p \in Procs : p # a => Idle(p)
  BY <1>2 DEF Kept, Idle, IInv, TypeOK
<1>4. \A x \in M : x.type = "write" /\ x.from = a /\ x.second /\ x.to \in Others(a)
  BY DEF SendWrite, Delivered
<1> HIDE DEF M
<1>5. \A p \in Procs : p # a => NoNewMessages(p)
  BY <1>2, <1>4, OthersMessages
<1>6. Writes(a)' = Writes(a) /\ WriteAcks(a)' = WriteAcks(a) /\ Reads(a)' = Reads(a)
      /\ ReadAcks(a)' = ReadAcks(a)
  BY <1>2, <1>4 DEF Writes, WriteAcks, Reads, ReadAcks
<1>7. OneAnswer(a)'
  BY <1>6 DEF RequestInv, OneAnswer
<1>8. InPhase(a)'
  BY <1>2, <1>3 DEF RequestInv, InPhase
<1>9. Holders(a)' = Holders(a)
  BY <1>2 DEF Holders, Entry, Others
<1>10. HasWritten(a)
  BY <1>2 DEF HasWritten
<1>11. Stored(a)'
  BY <1>3, <1>9, <1>10 DEF WriteInv, Stored
<1>12. \A m \in msgs' : m.from # m.to
  BY <1>2, <1>4 DEF RequestInv, Others
<1>13. \A p \in Procs : Sees(a, p) => Sees(a, p)'
  BY <1>2, ReadDoneSees DEF Sees
<1>14. \A p \in Procs : HasWritten(a)' /\ HasWritten(p)' => Sees(a, p)' \/ Sees(p, a)'
  BY <1>1, <1>2, <1>3, <1>5, <1>10, <1>13, StillSeen
<1>15. QED BY <1>1, <1>3, <1>5, <1>7, <1>8, <1>11, <1>12, <1>14, ByActor

-----------------------------------------------------------------------------
(* The decision.                                                           *)

LEMMA BecomeSlaveClassifier ==
  ASSUME ClassifierInv, OneRound, NEW a \in Procs, BecomeSlave(a)
  PROVE  ClassifierInv'
<1> USE DEF ClassifierInv
<1>1. IInv'
  BY BecomeSlaveInv
<1>2. pc[a] = "read" /\ r[a] = LogF /\ ~ (r[a] < LogF) /\ l[a] = FirstLabel
  BY RoundOne, OnlyRound DEF BecomeSlave, ReadDone, RequestInv, InPhase
<1>3. /\ read_ack_received[a] >= Quorum /\ ~ IsMaster(a)
      /\ read_ack_received' = [read_ack_received EXCEPT ![a] = 0]
      /\ UNCHANGED acceptVal
      /\ NextRound(a, v[a], l[a] - delta[a] \div 2, write_ack_received[a])
  BY DEF BecomeSlave, ReadDone
<1>4. /\ v' = [v EXCEPT ![a] = v[a]] /\ l' = [l EXCEPT ![a] = l[a] - delta[a] \div 2]
      /\ write_ack_received' = [write_ack_received EXCEPT ![a] = write_ack_received[a]]
      /\ pc' = [pc EXCEPT ![a] = "returned"] /\ w' = w /\ msgs' = msgs
  BY <1>2, <1>3 DEF NextRound, Wait, netVars
<1>5. v' = v /\ Kept /\ pc'[a] = "returned" /\ \A p \in Procs : p # a => Idle(p)
  BY <1>3, <1>4 DEF Kept, Idle, IInv, TypeOK
<1>6. \A p \in Procs : NoNewMessages(p)
  BY <1>4, NoRequest, Zenon DEF NoNewMessages, Writes, WriteAcks, Reads, ReadAcks, SecondWrites
<1>7. OneAnswer(a)' /\ InPhase(a)'
  BY <1>5, <1>6, OneAnswerFrame DEF RequestInv, InPhase
<1>8. HasWritten(a) /\ Slave(a)'
  <2> DEFINE c == Cardinality(w[a]) * Scale
  <2>1. c \in Nat /\ FirstLabel \in Nat
    <3>1. Cardinality(w[a]) \in Nat
      BY ProcSets DEF IInv, TypeOK
    <3>2. QED BY <3>1, OnlyRound, Labels
  <2>2. ~ (c > FirstLabel)
    BY <1>2, <1>3 DEF IsMaster
  <2> HIDE DEF c
  <2>3. c <= FirstLabel
    BY <2>1, <2>2
  <2>4. QED BY <2>3, <1>2, <1>4, <1>5 DEF HasWritten, Slave, c
<1>9. Stored(a)'
  <2>1. Holders(a)' = Holders(a)
    BY <1>3, <1>5 DEF Holders, Entry, Others
  <2>2. QED BY <2>1, <1>5, <1>8 DEF WriteInv, Stored
<1>10. \A m \in msgs' : m.from # m.to
  BY <1>4 DEF RequestInv
<1>11. \A p \in Procs : Sees(a, p) => Sees(a, p)'
  BY <1>3, <1>4, <1>5, ReadDoneSees DEF Sees
<1>12. \A p \in Procs : HasWritten(a)' /\ HasWritten(p)' => Sees(a, p)' \/ Sees(p, a)'
  BY <1>1, <1>5, <1>6, <1>8, <1>11, StillSeen
<1>13. QED BY <1>1, <1>5, <1>6, <1>7, <1>8, <1>9, <1>10, <1>12, ByActor

LEMMA BecomeMasterClassifier ==
  ASSUME ClassifierInv, OneRound, NEW a \in Procs, BecomeMaster(a)
  PROVE  ClassifierInv'
<1> USE DEF ClassifierInv
<1>1. IInv'
  BY BecomeMasterInv
<1>2. pc[a] = "second_write" /\ r[a] = LogF /\ ~ (r[a] < LogF) /\ l[a] = FirstLabel
  BY RoundOne, OnlyRound DEF BecomeMaster, RequestInv, InPhase
<1>3. /\ UNCHANGED <<read_ack_received, acceptVal>>
      /\ NextRound(a, w[a], l[a] + delta[a] \div 2, 0)
  BY DEF BecomeMaster
<1>4. /\ v' = [v EXCEPT ![a] = w[a]] /\ l' = [l EXCEPT ![a] = l[a] + delta[a] \div 2]
      /\ write_ack_received' = [write_ack_received EXCEPT ![a] = 0]
      /\ pc' = [pc EXCEPT ![a] = "returned"] /\ w' = w /\ msgs' = msgs
  BY <1>2, <1>3 DEF NextRound, Wait, netVars
<1>5. v'[a] = w[a] /\ Kept /\ pc'[a] = "returned" /\ \A p \in Procs : p # a => Idle(p)
  BY <1>3, <1>4 DEF Kept, Idle, IInv, TypeOK
<1>6. \A p \in Procs : NoNewMessages(p)
  BY <1>4, NoRequest, Zenon DEF NoNewMessages, Writes, WriteAcks, Reads, ReadAcks, SecondWrites
<1>7. OneAnswer(a)' /\ InPhase(a)'
  BY <1>5, <1>6, OneAnswerFrame DEF RequestInv, InPhase
<1>8. Cardinality(w[a]) * Scale > FirstLabel
  BY <1>2 DEF IInv, LabelInv, IsMaster
<1>9. ~ HasWritten(a)'
  <2> DEFINE c == Cardinality(w[a]) * Scale
  <2>1. c \in Nat /\ FirstLabel \in Nat
    <3>1. Cardinality(w[a]) \in Nat
      BY ProcSets DEF IInv, TypeOK
    <3>2. QED BY <3>1, OnlyRound, Labels
  <2>2. c > FirstLabel
    BY <1>8
  <2> HIDE DEF c
  <2>3. ~ (c <= FirstLabel)
    BY <2>1, <2>2
  <2>4. QED BY <2>3, <1>4, <1>5 DEF HasWritten, Slave, c
<1>10. Stored(a)'
  BY <1>5, <1>9 DEF Stored
<1>11. \A m \in msgs' : m.from # m.to
  BY <1>4 DEF RequestInv
<1>12. QED BY <1>1, <1>5, <1>6, <1>7, <1>8, <1>9, <1>10, <1>11, ByActor

-----------------------------------------------------------------------------
(* Handlers.                                                               *)

(* A message that is consumed without any effect.                          *)
LEMMA Ignored ==
  ASSUME ClassifierInv, IInv', NEW a \in Procs, msgs' \subseteq msgs, Kept, \A p \in Procs : Idle(p)
  PROVE  ClassifierInv'
<1> USE DEF ClassifierInv
<1>1. \A p \in Procs : NoNewMessages(p)
  BY DEF NoNewMessages, Writes, WriteAcks, Reads, ReadAcks, SecondWrites
<1>2. OneAnswer(a)' /\ InPhase(a)' /\ Stored(a)'
  BY <1>1, OneAnswerFrame, InPhaseFrame, StoredFrame DEF RequestInv, WriteInv
<1>3. \A m \in msgs' : m.from # m.to
  BY DEF RequestInv
<1>4. v'[a] = v[a] /\ (HasWritten(a)' <=> HasWritten(a)) /\ (Slave(a)' <=> Slave(a)) /\ pc'[a] = pc[a]
  BY DEF HasWritten, Slave, Idle
<1>5. pc'[a] = "returned" /\ ~ Slave(a)' => Cardinality(v'[a]) * Scale > FirstLabel
  BY <1>4 DEF MasterInv
<1>6. \A p \in Procs : Sees(a, p) => Sees(a, p)'
  BY <1>1, SeesFrame DEF Idle
<1>7. \A p \in Procs : HasWritten(a)' /\ HasWritten(p)' => Sees(a, p)' \/ Sees(p, a)'
  BY <1>1, <1>4, <1>6, StillSeen
<1>8. QED BY <1>1, <1>2, <1>3, <1>5, <1>7, ByActor

(* An answer to the read: the vectors it has are joined, the others are    *)
(* with processes that have not answered yet.                              *)
LEMMA SeesAnswer ==
  ASSUME ClassifierInv, OneRound, IInv', NEW a \in Procs, NEW m \in ReadAcks(a), NEW p \in Procs,
         Sees(a, p), msgs' = msgs \ {m}, pc[a] = "read", Kept, v'[p] = v[p], pc'[a] = pc[a],
         w'[a] = w[a] \cup WithLabel(m.recVal, FirstLabel),
         read_ack_received'[a] = read_ack_received[a] + 1
  PROVE  Sees(a, p)'
<1> USE DEF ClassifierInv
<1>1. CASE v[p] \subseteq w[a]
  BY <1>1 DEF Sees
<1>2. CASE ~ (v[p] \subseteq w[a])
  <2>1. PICK H \in SUBSET Holders(p) : SawNone(a, p, H)
    BY <1>2 DEF Sees
  <2>2. CASE m.from \in H
    <3>1. Entry(p) \in m.recVal
      BY <2>1, <2>2 DEF SawNone
    <3>2. v[p] \subseteq WithLabel(m.recVal, FirstLabel)
      BY <3>1 DEF WithLabel, Entry
    <3>3. QED BY <3>2 DEF Sees
  <2>3. CASE m.from \notin H
    <3> DEFINE S == ReadingFrom(a) \cup (H \ {a})
               T == ReadingFrom(a)' \cup (H \ {a})
    <3>1. m.from \in S /\ S \subseteq Procs
      BY AskedProcs DEF ReadingFrom
    <3>2. ReadAcks(a)' = ReadAcks(a) \ {m} /\ Reads(a)' = Reads(a)
      BY DEF ReadAcks, Reads
    <3>3. m.from \notin ReadingFrom(a)' /\ ReadingFrom(a)' \subseteq ReadingFrom(a)
      BY <3>2 DEF ReadingFrom, RequestInv, OneAnswer
    <3>4. T \subseteq S \ {m.from}
      BY <3>3, <2>3
    <3>5. Cardinality(T) <= Cardinality(S \ {m.from})
      BY <3>1, <3>4, ProcSets, FS_Subset
    <3>6. Cardinality(S \ {m.from}) = Cardinality(S) - 1
      <4>1. IsFiniteSet(S)
        BY <3>1, ProcSets
      <4> HIDE DEF S
      <4>2. m.from \in S
        BY <3>1
      <4> DEFINE x == m.from
      <4> HIDE DEF x
      <4>3. x \in S => Cardinality(S \ {x}) = Cardinality(S) - 1
        BY <4>1, FS_RemoveElement
      <4>4. QED BY <4>2, <4>3 DEF x
    <3>7. Cardinality(S) \in Nat /\ Cardinality(T) \in Nat /\ read_ack_received[a] \in Nat
      BY <3>1, <3>4, ProcSets DEF IInv, TypeOK
    <3>8. read_ack_received[a] + Cardinality(S) < N
      BY <2>1 DEF SawNone
    <3> HIDE DEF S
    <3>9. read_ack_received'[a] + Cardinality(T) < N
      BY <3>5, <3>6, <3>7, <3>8, Numbers
    <3>10. Entry(p)' = Entry(p) /\ H \in SUBSET (Holders(p)')
      BY HoldersFrame DEF Entry
    <3>11. \A x \in ReadAcks(a)' : x.from \in H => Entry(p)' \in x.recVal
      BY <2>1, <3>2, <3>10 DEF SawNone
    <3>12. SawNone(a, p, H)'
      BY <2>1, <3>9, <3>11 DEF SawNone
    <3>13. QED BY <3>10, <3>12 DEF Sees
  <2>4. QED BY <2>2, <2>3
<1>3. QED BY <1>1, <1>2

LEMMA ReceiveReadAckClassifier ==
  ASSUME ClassifierInv, OneRound, NEW a \in Procs, NEW m \in msgs, m.to = a, ReceiveReadAck(a, m)
  PROVE  ClassifierInv'
<1> USE DEF ClassifierInv
<1>1. IInv'
  BY ReceiveReadAckInv
<1>2. msgs' = msgs \ {m} /\ m.type = "read_ack"
  BY DEF ReceiveReadAck, Handled, Delivered
<1>3. UNCHANGED <<pc, l, v, write_ack_received, acceptVal>> /\ Kept
  BY DEF ReceiveReadAck, mainVars, Kept
<1>4. CASE ~ Reading(a, m)
  <2>1. \A p \in Procs : Idle(p)
    BY <1>3, <1>4 DEF ReceiveReadAck, Idle
  <2>2. QED BY <1>1, <1>2, <1>3, <2>1, Ignored
<1>5. CASE Reading(a, m)
  <2>1. /\ w' = [w EXCEPT ![a] = Join(@, WithLabel(m.recVal, l[a]))]
        /\ read_ack_received' = [read_ack_received EXCEPT ![a] = @ + 1]
        /\ pc[a] = "read" /\ l[a] = FirstLabel /\ m \in ReadAcks(a)
    BY <1>2, <1>5 DEF ReceiveReadAck, Reading, RequestInv, InPhase, ReadAcks
  <2>2. /\ w'[a] = w[a] \cup WithLabel(m.recVal, FirstLabel)
        /\ read_ack_received'[a] = read_ack_received[a] + 1
        /\ \A p \in Procs : p # a => Idle(p)
    <3>1. w \in [Procs -> SUBSET Procs] /\ read_ack_received \in [Procs -> Nat]
      BY DEF IInv, TypeOK
    <3>2. w'[a] = w[a] \cup WithLabel(m.recVal, FirstLabel)
      BY <2>1, <3>1
    <3>3. read_ack_received'[a] = read_ack_received[a] + 1
      BY <2>1, <3>1
    <3>4. \A p \in Procs : p # a => w'[p] = w[p] /\ read_ack_received'[p] = read_ack_received[p]
      BY <2>1, <3>1
    <3>5. QED BY <3>2, <3>3, <3>4, <1>3 DEF Idle
  <2>3. \A p \in Procs : NoNewMessages(p)
    BY <1>2 DEF NoNewMessages, Writes, WriteAcks, Reads, ReadAcks, SecondWrites
  <2>4. OneAnswer(a)' /\ InPhase(a)'
    BY <1>3, <2>1, <2>3, OneAnswerFrame DEF RequestInv, InPhase
  <2>5. Stored(a)'
    <3>1. Holders(a)' = Holders(a)
      BY <1>3 DEF Holders, Entry, Others
    <3>2. QED BY <3>1, <1>3, <2>1 DEF WriteInv, Stored, HasWritten, Slave
  <2>6. \A x \in msgs' : x.from # x.to
    BY <1>2 DEF RequestInv
  <2>7. \A p \in Procs : Sees(a, p) => Sees(a, p)'
    BY <1>1, <1>2, <1>3, <2>1, <2>2, SeesAnswer
  <2>8. HasWritten(a)
    BY <2>1 DEF HasWritten
  <2>9. \A p \in Procs : HasWritten(a)' /\ HasWritten(p)' => Sees(a, p)' \/ Sees(p, a)'
    BY <1>1, <1>3, <2>2, <2>3, <2>7, <2>8, StillSeen
  <2>10. pc'[a] # "returned"
    BY <1>3, <2>1
  <2>11. QED BY <1>1, <1>3, <2>2, <2>3, <2>4, <2>5, <2>6, <2>9, <2>10, ByActor
<1>6. QED BY <1>4, <1>5

(* An answer to the first write counts one more process that holds it.     *)
LEMMA StoredAnswer ==
  ASSUME ClassifierInv, NEW a \in Procs, NEW m \in WriteAcks(a), IInv',
         msgs' = msgs \ {m}, pc[a] = "write", pc'[a] = "write", v'[a] = v[a],
         UNCHANGED acceptVal, write_ack_received'[a] = write_ack_received[a] + 1
  PROVE  Stored(a)'
<1> USE DEF ClassifierInv
<1> DEFINE A == Holders(a) \ Writing(a)
           B == Holders(a)' \ Writing(a)'
<1>1. Holders(a)' = Holders(a) /\ Entry(a)' = Entry(a) /\ Holders(a) \subseteq Procs
  BY DEF Holders, Entry, Others
<1>2. WriteAcks(a)' = WriteAcks(a) \ {m} /\ Writes(a)' = Writes(a)
  BY DEF WriteAcks, Writes
<1>3. m.from \notin Writing(a)' /\ Writing(a)' \subseteq Writing(a) /\ m.from \in Writing(a)
  BY <1>2 DEF Writing, RequestInv, OneAnswer
<1>4. m.from \in Holders(a)
  BY DEF WriteInv, Stored
<1>5. A \cup {m.from} \subseteq B /\ m.from \notin A /\ A \subseteq Procs /\ B \subseteq Procs
  BY <1>1, <1>3, <1>4
<1>6. Cardinality(A \cup {m.from}) = Cardinality(A) + 1
  BY <1>5, ProcSets, FS_AddElement
<1>7. Cardinality(A \cup {m.from}) <= Cardinality(B)
  BY <1>5, ProcSets, FS_Subset
<1>8. Cardinality(A) \in Nat /\ Cardinality(B) \in Nat /\ write_ack_received[a] \in Nat
  BY <1>5, ProcSets DEF IInv, TypeOK
<1>9. write_ack_received[a] <= Cardinality(A)
  BY DEF WriteInv, Stored
<1> HIDE DEF A
<1>10. write_ack_received'[a] <= Cardinality(B)
  BY <1>6, <1>7, <1>8, <1>9
<1>11. ~ HasWritten(a)'
  BY DEF HasWritten, Slave
<1>12. \A x \in Writes(a)' : <<x.vec, x.label>> = Entry(a)'
  BY <1>1, <1>2 DEF WriteInv, Stored
<1>13. \A x \in WriteAcks(a)' : x.from \in Holders(a)'
  BY <1>1, <1>2 DEF WriteInv, Stored
<1>14. QED BY <1>10, <1>11, <1>12, <1>13 DEF Stored

LEMMA ReceiveWriteAckClassifier ==
  ASSUME ClassifierInv, OneRound, NEW a \in Procs, NEW m \in msgs, m.to = a, ReceiveWriteAck(a, m)
  PROVE  ClassifierInv'
<1> USE DEF ClassifierInv
<1>1. IInv'
  BY ReceiveWriteAckInv
<1>2. msgs' = msgs \ {m} /\ m.type = "write_ack" /\ m.round = 1
  BY RoundOne DEF ReceiveWriteAck, Handled, Delivered
<1>3. UNCHANGED <<pc, l, v, read_ack_received, acceptVal>> /\ Kept
  BY DEF ReceiveWriteAck, mainVars, Kept
<1>4. \A p \in Procs : NoNewMessages(p)
  BY <1>2 DEF NoNewMessages, Writes, WriteAcks, Reads, ReadAcks, SecondWrites
<1>5. OneAnswer(a)' /\ \A x \in msgs' : x.from # x.to
  BY <1>2, <1>4, OneAnswerFrame DEF RequestInv
<1>6. CASE r[a] # 1
  <2>1. \A p \in Procs : Idle(p)
    BY <1>2, <1>3, <1>6 DEF ReceiveWriteAck, Idle
  <2>2. QED BY <1>1, <1>2, <1>3, <2>1, Ignored
<1>7. CASE r[a] = 1
  <2>1. /\ write_ack_received' = [write_ack_received EXCEPT ![a] = @ + 1]
        /\ w' = IF pc[a] = "second_write"
                THEN [w EXCEPT ![a] = Join(@, WithLabel(m.recVal, l[a]))]
                ELSE w
    BY <1>2, <1>7 DEF ReceiveWriteAck
  <2>2. write_ack_received'[a] = write_ack_received[a] + 1 /\ w[a] \subseteq w'[a]
        /\ \A p \in Procs : p # a => Idle(p)
    BY <2>1, <1>3 DEF Idle, IInv, TypeOK
  <2>3. pc[a] \in {"write", "read", "second_write"}
    BY <1>7, RoundOne DEF IInv, TypeOK
  <2>4. InPhase(a)'
    <3>1. Writing(a)' \subseteq Writing(a) /\ ReadingFrom(a)' \subseteq ReadingFrom(a)
          /\ SecondWrites(a)' \subseteq SecondWrites(a)
      BY <1>4, FewerAsked DEF NoNewMessages
    <3>2. QED BY <3>1, <2>3, <1>3 DEF RequestInv, InPhase
  <2>5. CASE pc[a] = "write"
    <3>1. m \in WriteAcks(a)
      BY <2>5, <1>2 DEF RequestInv, InPhase, SecondWrites, WriteAcks
    <3>2. Stored(a)' /\ ~ HasWritten(a)' /\ pc'[a] # "returned"
      BY <1>1, <1>2, <1>3, <2>2, <2>5, <3>1, StoredAnswer DEF HasWritten, Slave
    <3>3. QED BY <1>1, <1>3, <1>4, <1>5, <2>2, <2>4, <3>2, ByActor
  <2>6. CASE pc[a] \in {"read", "second_write"}
    <3>1. HasWritten(a) /\ pc'[a] # "returned" /\ pc'[a] # "write"
      BY <2>6, <1>3 DEF HasWritten
    <3>2. Stored(a)'
      <4>1. Holders(a)' = Holders(a)
        BY <1>3 DEF Holders, Entry, Others
      <4>2. QED BY <4>1, <3>1 DEF WriteInv, Stored
    <3>3. \A p \in Procs : Sees(a, p) => Sees(a, p)'
      <4>1. ReadingFrom(a)' \subseteq ReadingFrom(a) /\ ReadAcks(a)' \subseteq ReadAcks(a)
        BY <1>4, FewerAsked DEF NoNewMessages
      <4>2. QED BY <4>1, <1>1, <1>3, <2>2, SeesMore
    <3>4. \A p \in Procs : HasWritten(a)' /\ HasWritten(p)' => Sees(a, p)' \/ Sees(p, a)'
      BY <1>1, <1>3, <1>4, <2>2, <3>1, <3>3, StillSeen
    <3>5. QED BY <1>1, <1>3, <1>4, <1>5, <2>2, <2>4, <3>1, <3>2, <3>4, ByActor
  <2>7. QED BY <2>3, <2>5, <2>6
<1>8. QED BY <1>6, <1>7

(* The handler of a request of a, that answers with at most one message.   *)
LEMMA AnswerToActor ==
  ASSUME ClassifierInv, IInv', NEW a \in Procs, Kept, \A p \in Procs : Idle(p),
         \A p \in Procs : p # a => NoNewMessages(p),
         \A m \in msgs' : m.from # m.to,
         OneAnswer(a)', InPhase(a)', Stored(a)',
         ReadingFrom(a)' \subseteq ReadingFrom(a),
         \A p \in Procs : \A m \in ReadAcks(a)' :
           m \in ReadAcks(a) \/ (m.from \in Holders(p) => Entry(p) \in m.recVal)
  PROVE  ClassifierInv'
<1> USE DEF ClassifierInv
<1>1. /\ v'[a] = v[a] /\ pc'[a] = pc[a] /\ w'[a] = w[a] /\ read_ack_received'[a] = read_ack_received[a]
      /\ (HasWritten(a)' <=> HasWritten(a)) /\ (Slave(a)' <=> Slave(a))
  BY DEF HasWritten, Slave, Idle
<1>2. pc'[a] = "returned" /\ ~ Slave(a)' => Cardinality(v'[a]) * Scale > FirstLabel
  BY <1>1 DEF MasterInv
<1>3. \A p \in Procs : Sees(a, p) => Sees(a, p)'
  <2> SUFFICES ASSUME NEW p \in Procs, Sees(a, p) PROVE Sees(a, p)'
    OBVIOUS
  <2>1. v'[p] = v[p] /\ w[a] \subseteq w'[a]
    BY <1>1 DEF Idle
  <2>2. QED BY <1>1, <2>1, SeesMore
<1>4. \A p \in Procs : HasWritten(a)' /\ HasWritten(p)' => Sees(a, p)' \/ Sees(p, a)'
  BY <1>1, <1>3, StillSeen
<1>5. QED BY <1>2, <1>4, ByActor

LEMMA ReceiveReadClassifier ==
  ASSUME ClassifierInv, OneRound, NEW p \in Procs, NEW m \in msgs, m.to = p, ReceiveRead(p, m)
  PROVE  ClassifierInv'
<1> USE DEF ClassifierInv
<1> DEFINE a == m.from
           x == [type |-> "read_ack", round |-> m.round, from |-> p, to |-> a,
                 recVal |-> acceptVal[p][m.round]]
           M == Delivered({x})
<1>1. IInv'
  BY ReceiveReadInv
<1>2. m.type = "read" /\ m.round = 1 /\ a \in Procs /\ a # p /\ m \in Reads(a)
  BY RoundOne, AskedProcs DEF ReceiveRead, RequestInv, Reads
<1>3. msgs' = (msgs \ {m}) \cup M
  BY DEF ReceiveRead, Handled
<1>4. Kept /\ \A q \in Procs : Idle(q)
  BY DEF ReceiveRead, Kept, Idle, mainVars, vectors, counters
<1>5. \A y \in M : y.type = "read_ack" /\ y.from = p /\ y.to = a /\ y.recVal = acceptVal[p][1]
  BY <1>2 DEF Delivered
<1>6. \A y1, y2 \in M : y1 = y2
  BY DEF Delivered
<1> HIDE DEF M, a
<1>7. \A q \in Procs : q # a => NoNewMessages(q)
  BY <1>3, <1>5, OthersMessages
<1>8. /\ Writes(a)' = Writes(a) /\ WriteAcks(a)' = WriteAcks(a) /\ SecondWrites(a)' = SecondWrites(a)
      /\ Reads(a)' = Reads(a) \ {m} /\ ReadAcks(a)' = ReadAcks(a) \cup M
  BY <1>2, <1>3, <1>5 DEF Writes, WriteAcks, SecondWrites, Reads, ReadAcks
<1>9. \A y \in Reads(a)' : y.to # p
  <2> SUFFICES ASSUME NEW y \in Reads(a), y.to = p PROVE y = m
    BY <1>8
  <2> DEFINE R == [type : {"read"}, round : {1}, from : Procs, to : Procs]
  <2>1. y \in R /\ m \in R
    BY <1>2, OnlyRound DEF Reads, IInv, TypeOK, Messages
  <2>2. y.type = m.type /\ y.round = m.round /\ y.from = m.from /\ y.to = m.to
    BY <2>1, <1>2 DEF Reads
  <2>3. QED BY <2>1, <2>2
<1>10. \A y \in ReadAcks(a) : y.from # p
  BY <1>2 DEF RequestInv, OneAnswer
<1>11. OneAnswer(a)'
  <2>1. OneAnswer(a)
    BY <1>2 DEF RequestInv
  <2>2. \A m1, m2 \in ReadAcks(a)' : m1.from = m2.from => m1 = m2
    BY <2>1, <1>5, <1>6, <1>8, <1>10 DEF OneAnswer
  <2>3. \A m1 \in Reads(a)', m2 \in ReadAcks(a)' : m1.to # m2.from
    BY <2>1, <1>5, <1>8, <1>9 DEF OneAnswer
  <2>4. QED BY <2>1, <2>2, <2>3, <1>8 DEF OneAnswer
<1>12. ReadingFrom(a)' \subseteq ReadingFrom(a) /\ Writing(a)' = Writing(a)
  BY <1>2, <1>5, <1>8 DEF ReadingFrom, Writing
<1>13. InPhase(a)'
  BY <1>2, <1>4, <1>8, <1>12 DEF RequestInv, InPhase, Idle
<1>14. Stored(a)'
  <2>1. pc[a] = "write" => \A y \in WriteAcks(a)' : y.from \in Holders(a)'
    BY <1>2, <1>4, <1>8, HoldersFrame DEF WriteInv, Stored, Idle
  <2>2. QED BY <2>1, <1>1, <1>2, <1>4, <1>8, <1>12, StoredMore DEF WriteInv
<1>15. \A y \in msgs' : y.from # y.to
  BY <1>2, <1>3, <1>5 DEF RequestInv
<1>16. \A q \in Procs : \A y \in ReadAcks(a)' :
         y \in ReadAcks(a) \/ (y.from \in Holders(q) => Entry(q) \in y.recVal)
  BY <1>5, <1>8 DEF Holders
<1>17. QED BY <1>1, <1>2, <1>4, <1>7, <1>11, <1>12, <1>13, <1>14, <1>15, <1>16, AnswerToActor

LEMMA ReceiveWriteClassifier ==
  ASSUME ClassifierInv, OneRound, NEW p \in Procs, NEW m \in msgs, m.to = p, ReceiveWrite(p, m)
  PROVE  ClassifierInv'
<1> USE DEF ClassifierInv
<1> DEFINE a == m.from
           x == [type |-> "write_ack", round |-> m.round, from |-> p, to |-> a,
                 recVal |-> acceptVal'[p][m.round], second |-> m.second]
           M == Delivered({x})
<1>1. IInv'
  BY ReceiveWriteInv
<1>2. /\ m.type = "write" /\ m.round = 1 /\ a \in Procs /\ a # p /\ m.second \in BOOLEAN
  BY RoundOne, AskedProcs DEF ReceiveWrite, RequestInv, IInv, TypeOK, Messages
<1>3. msgs' = (msgs \ {m}) \cup M
  BY DEF ReceiveWrite, Handled
<1>4. acceptVal' = [acceptVal EXCEPT ![p][1] = @ \cup {<<m.vec, m.label>>}]
  BY <1>2 DEF ReceiveWrite
<1>5. Kept /\ <<m.vec, m.label>> \in acceptVal'[p][1]
  BY <1>4, OnlyRound DEF Kept, IInv, TypeOK
<1>6. \A q \in Procs : Idle(q)
  BY DEF ReceiveWrite, Idle, mainVars, vectors, counters
<1>7. \A y \in M : y.type = "write_ack" /\ y.from = p /\ y.to = a /\ y.second = m.second
  BY DEF Delivered
<1>8. \A y1, y2 \in M : y1 = y2
  BY DEF Delivered
<1> HIDE DEF M, a
<1>9. \A q \in Procs : q # a => NoNewMessages(q)
  BY <1>3, <1>7, OthersMessages
<1>10. Reads(a)' = Reads(a) /\ ReadAcks(a)' = ReadAcks(a) /\ ReadingFrom(a)' = ReadingFrom(a)
  BY <1>2, <1>3, <1>7 DEF Reads, ReadAcks, ReadingFrom
<1>11. \A y \in msgs' : y.from # y.to
  BY <1>2, <1>3, <1>7 DEF RequestInv
<1>12. \A q \in Procs : \A y \in ReadAcks(a)' :
         y \in ReadAcks(a) \/ (y.from \in Holders(q) => Entry(q) \in y.recVal)
  BY <1>10
<1>13. OneAnswer(a) /\ InPhase(a) /\ Stored(a)
  BY <1>2 DEF RequestInv, WriteInv
<1>14. CASE m.second
  <2>1. Writes(a)' = Writes(a) /\ WriteAcks(a)' = WriteAcks(a) /\ Writing(a)' = Writing(a)
    BY <1>2, <1>3, <1>7, <1>14 DEF Writes, WriteAcks, Writing
  <2>2. OneAnswer(a)'
    BY <2>1, <1>10, <1>13 DEF OneAnswer
  <2>3. m \in SecondWrites(a)
    BY <1>2, <1>14 DEF SecondWrites, a
  <2>4. InPhase(a)'
    BY <2>1, <2>3, <1>2, <1>6, <1>10, <1>13 DEF InPhase, Idle
  <2>5. pc[a] = "write" => \A y \in WriteAcks(a)' : y.from \in Holders(a)'
    BY <2>1, <1>2, <1>5, <1>6, <1>13, HoldersFrame DEF Stored, Idle
  <2>6. Stored(a)'
    BY <2>1, <2>5, <1>1, <1>2, <1>5, <1>6, <1>13, StoredMore
  <2>7. QED BY <1>1, <1>2, <1>5, <1>6, <1>9, <1>10, <1>11, <1>12, <2>2, <2>4, <2>6, AnswerToActor
<1>15. CASE ~ m.second
  <2>1. m \in Writes(a)
    BY <1>2, <1>15 DEF Writes, a
  <2>2. Writes(a)' = Writes(a) \ {m} /\ WriteAcks(a)' = WriteAcks(a) \cup M
        /\ SecondWrites(a)' = SecondWrites(a)
    BY <1>2, <1>3, <1>7, <1>15 DEF Writes, WriteAcks, SecondWrites
  <2>3. \A y \in Writes(a)' : y.to # p
    BY <2>1, <2>2, <1>13 DEF OneAnswer
  <2>4. \A y \in WriteAcks(a) : y.from # p
    BY <2>1, <1>13 DEF OneAnswer
  <2>5. OneAnswer(a)'
    <3>1. \A m1, m2 \in WriteAcks(a)' : m1.from = m2.from => m1 = m2
      BY <2>2, <2>4, <1>7, <1>8, <1>13 DEF OneAnswer
    <3>2. \A m1 \in Writes(a)', m2 \in WriteAcks(a)' : m1.to # m2.from
      BY <2>2, <2>3, <1>7, <1>13 DEF OneAnswer
    <3>3. QED BY <3>1, <3>2, <2>2, <1>10, <1>13 DEF OneAnswer
  <2>6. Writing(a)' \subseteq Writing(a) /\ Writing(a) # {}
    BY <2>1, <2>2, <1>7 DEF Writing
  <2>7. InPhase(a)'
    BY <2>2, <2>6, <1>2, <1>6, <1>10, <1>13 DEF InPhase, Idle
  <2>8. pc[a] = "write" => \A y \in WriteAcks(a)' : y.from \in Holders(a)'
    <3> SUFFICES ASSUME pc[a] = "write", NEW y \in WriteAcks(a)' PROVE y.from \in Holders(a)'
      OBVIOUS
    <3>1. Holders(a) \subseteq Holders(a)'
      BY <1>2, <1>5, <1>6, HoldersFrame DEF Idle
    <3>2. CASE y \in WriteAcks(a)
      BY <3>1, <3>2, <1>13 DEF Stored
    <3>3. CASE y \in M
      <4>1. Entry(a)' = <<m.vec, m.label>>
        BY <2>1, <1>2, <1>6, <1>13 DEF Stored, Entry, Idle
      <4>2. p \in Holders(a)'
        BY <4>1, <1>2, <1>5 DEF Holders, Others
      <4>3. QED BY <4>2, <3>3, <1>7
    <3>4. QED BY <3>2, <3>3, <2>2
  <2>9. Stored(a)'
    BY <2>2, <2>6, <2>8, <1>1, <1>2, <1>5, <1>6, <1>13, StoredMore
  <2>10. QED BY <1>1, <1>2, <1>5, <1>6, <1>9, <1>10, <1>11, <1>12, <2>5, <2>7, <2>9, AnswerToActor
<1>16. QED BY <1>14, <1>15

-----------------------------------------------------------------------------
(* The invariant and the agreement.                                        *)

LEMMA InitClassifier == Init => ClassifierInv
<1> SUFFICES ASSUME Init PROVE ClassifierInv
  OBVIOUS
<1>1. IInv
  BY InitIInv
<1>2. msgs = {} /\ \A p \in Procs : /\ pc[p] = "idle" /\ l[p] = FirstLabel
                                   /\ write_ack_received[p] = 0 /\ read_ack_received[p] = 0
  BY DEF Init, FirstLabel
<1>3. RequestInv
  BY <1>2 DEF RequestInv, OneAnswer, InPhase, Writing, ReadingFrom, Writes, WriteAcks, Reads,
              ReadAcks, SecondWrites
<1>4. \A p \in Procs : ~ HasWritten(p)
  BY <1>2 DEF HasWritten, Slave
<1>5. WriteInv /\ SnapshotInv /\ MasterInv
  BY <1>2, <1>4 DEF WriteInv, Stored, SnapshotInv, MasterInv
<1>6. QED BY <1>1, <1>3, <1>5 DEF ClassifierInv

LEMMA NextClassifier ==
  ASSUME OneRound, ClassifierInv, [Next]_vars
  PROVE  ClassifierInv'
<1> USE DEF ClassifierInv
<1>1. ASSUME NEW m \in msgs, ~ locked[m.to], OnMessageReceived(m.to, m) PROVE ClassifierInv'
  <2>1. m.to \in Procs
    BY AskedProcs, <1>1 DEF IInv, TypeOK, Messages
  <2>2. CASE ReceiveValue(m.to, m)
    BY <1>1, <2>1, <2>2, ReceiveValueClassifier
  <2>3. CASE ReceiveWrite(m.to, m)
    BY <2>1, <2>3, ReceiveWriteClassifier
  <2>4. CASE ReceiveRead(m.to, m)
    BY <2>1, <2>4, ReceiveReadClassifier
  <2>5. CASE ReceiveWriteAck(m.to, m)
    BY <2>1, <2>5, ReceiveWriteAckClassifier
  <2>6. CASE ReceiveReadAck(m.to, m)
    BY <2>1, <2>6, ReceiveReadAckClassifier
  <2>7. QED BY <1>1, <2>2, <2>3, <2>4, <2>5, <2>6 DEF OnMessageReceived
<1>2. ASSUME NEW p \in Procs, MainStep(p) PROVE ClassifierInv'
  BY <1>2, StartClassifier, ValuesReceivedClassifier, WriteDoneClassifier, SecondWriteClassifier,
     BecomeSlaveClassifier, BecomeMasterClassifier DEF MainStep
<1>3. CASE UNCHANGED vars
  <2>1. IInv'
    BY <1>3, NextIInv
  <2>2. msgs' \subseteq msgs /\ Kept /\ \A p \in Procs : Idle(p)
    BY <1>3 DEF vars, mainVars, vectors, counters, netVars, Kept, Idle
  <2>3. PICK a : a \in Procs
    <3>1. Procs # {}
      BY OnlyRound, FS_EmptySet DEF N
    <3>2. QED BY <3>1
  <2>4. QED BY <2>1, <2>2, <2>3, Ignored
<1>4. QED BY <1>1, <1>2, <1>3 DEF Next

(* With one round the inductive invariant of the classifier holds.         *)
THEOREM ClassifierInvariance ==
  ASSUME OneRound
  PROVE  Spec => []ClassifierInv
<1>1. Init => ClassifierInv
  BY InitClassifier
<1>2. ClassifierInv /\ [Next]_vars => ClassifierInv'
  BY NextClassifier
<1>3. QED BY <1>1, <1>2, PTL DEF Spec

(* Who has not become master has read less than all values.                *)
LEMMA SlaveReadLess ==
  ASSUME ClassifierInv, OneRound, NEW q \in Procs, Slave(q)
  PROVE  Cardinality(w[q]) <= N - 1
<1> USE DEF ClassifierInv
<1>1. Cardinality(w[q]) \in Nat /\ N \in Nat
  BY ProcSets, Numbers DEF IInv, TypeOK
<1>2. SUFFICES ASSUME ~ (Cardinality(w[q]) <= N - 1) PROVE FALSE
  OBVIOUS
<1>3. N <= Cardinality(w[q])
  BY <1>1, <1>2
<1>4. N * Scale <= Cardinality(w[q]) * Scale /\ N * Scale \in Nat /\ Cardinality(w[q]) * Scale \in Nat
  BY <1>1, <1>3, ScaledMonotone
<1>5. Cardinality(w[q]) * Scale <= (N - 1) * Scale
  BY OnlyRound DEF Slave
<1>6. N * Scale = (N - 1) * Scale + Scale
  BY <1>1, Labels
<1> DEFINE c == Cardinality(w[q]) * Scale
           d == (N - 1) * Scale
           e == N * Scale
<1>7. c <= d /\ e = d + Scale /\ e <= c /\ c \in Nat /\ d \in Nat /\ e \in Nat /\ Scale \in Nat /\ Scale >= 1
  BY <1>4, <1>5, <1>6, OnlyRound, Labels
<1> HIDE DEF c, d, e
<1>8. QED BY <1>7

(* All who have not become master hold the same n - 1 values; a master     *)
(* holds all.                                                              *)
LEMMA SlavesAgree ==
  ASSUME ClassifierInv, OneRound, NEW p \in Procs, NEW q \in Procs, Slave(p), Slave(q), Sees(q, p)
  PROVE  v[p] = v[q]
<1> USE DEF ClassifierInv
<1>1. HasWritten(p) /\ HasWritten(q) /\ pc[p] = "returned" /\ pc[q] = "returned"
  BY DEF HasWritten, Slave
<1>2. v[p] \subseteq w[q] /\ v[q] \subseteq w[q]
  BY <1>1 DEF Sees, SnapshotInv
<1>3. Cardinality(w[q]) <= N - 1
  BY SlaveReadLess
<1>4. Cardinality(v[p]) >= N - 1 /\ Cardinality(v[q]) >= N - 1
  <2>1. r[p] > 0 /\ r[q] > 0
    BY <1>1, RoundOne
  <2>2. Cardinality(v[p]) > N - 2 /\ Cardinality(v[q]) > N - 2
    BY <2>1, OnlyRound DEF IInv, ValuesInv
  <2>3. Cardinality(v[p]) \in Nat /\ Cardinality(v[q]) \in Nat
    BY ProcSets DEF IInv, TypeOK
  <2>4. QED BY <2>2, <2>3, Numbers
<1>5. IsFiniteSet(w[q]) /\ Cardinality(w[q]) \in Nat /\ Cardinality(v[p]) \in Nat /\ Cardinality(v[q]) \in Nat
  BY ProcSets DEF IInv, TypeOK
<1>6. v[p] = w[q]
  BY <1>2, <1>3, <1>4, <1>5, Numbers, FS_Subset
<1>7. v[q] = w[q]
  BY <1>2, <1>3, <1>4, <1>5, Numbers, FS_Subset
<1>8. QED BY <1>6, <1>7

LEMMA MastersHaveAll ==
  ASSUME ClassifierInv, OneRound, NEW p \in Procs, pc[p] = "returned", ~ Slave(p)
  PROVE  v[p] = Procs
<1> USE DEF ClassifierInv
<1>1. Cardinality(v[p]) * Scale > (N - 1) * Scale
  BY OnlyRound DEF MasterInv
<1>2. v[p] \subseteq Procs /\ Cardinality(v[p]) \in Nat /\ N - 1 \in Nat
  BY ProcSets, OnlyRound, Numbers DEF IInv, TypeOK
<1>3. (N - 1) * Scale < Cardinality(v[p]) * Scale
  BY <1>1
<1>4. N - 1 < Cardinality(v[p])
  BY <1>2, <1>3, ScaledOrder
<1>5. Cardinality(v[p]) = Cardinality(Procs)
  BY <1>2, <1>4, ProcSets, Numbers DEF N
<1>6. QED BY <1>2, <1>5, ZhengAssumption, FS_Subset

(* With one failure or two, any two results are comparable: one failure    *)
(* leaves no round, as the exchange gives every process all the values;    *)
(* with two there is one.                                                  *)
THEOREM Agreement ==
  ASSUME F = 1 \/ OneRound
  PROVE  Spec => []ResultsComparable
<1>1. CASE OneRound
  <2>1. ClassifierInv => ResultsComparable
    <3> SUFFICES ASSUME ClassifierInv, NEW p \in Returned, NEW q \in Returned
                 PROVE  Comparable(result[p], result[q])
      BY DEF ResultsComparable
    <3>1. /\ p \in Procs /\ q \in Procs /\ pc[p] = "returned" /\ pc[q] = "returned"
          /\ result[p] = v[p] /\ result[q] = v[q] /\ v[p] \subseteq Procs /\ v[q] \subseteq Procs
      BY DEF Returned, ClassifierInv, IInv, PhaseInv, TypeOK
    <3>2. v[p] \subseteq v[q] \/ v[q] \subseteq v[p]
      <4>1. CASE Slave(p) /\ Slave(q)
        <5>1. Sees(p, q) \/ Sees(q, p)
          BY <3>1, <4>1 DEF ClassifierInv, SnapshotInv, HasWritten
        <5>2. QED BY <1>1, <3>1, <4>1, <5>1, SlavesAgree
      <4>2. CASE ~ Slave(p)
        BY <1>1, <3>1, <4>2, MastersHaveAll
      <4>3. CASE ~ Slave(q)
        BY <1>1, <3>1, <4>3, MastersHaveAll
      <4>4. QED BY <4>1, <4>2, <4>3
    <3>3. QED BY <3>1, <3>2 DEF Comparable, Leq
  <2>2. QED BY <1>1, <2>1, ClassifierInvariance, PTL
<1>2. CASE F = 1
  <2>1. IInv /\ ResultsLarge => ResultsComparable
    <3> SUFFICES ASSUME IInv, ResultsLarge, NEW p \in Returned, NEW q \in Returned
                 PROVE  Comparable(result[p], result[q])
      BY DEF ResultsComparable
    <3>1. \A x \in Returned : result[x] = Procs
      <4> TAKE x \in Returned
      <4>1. result[x] \subseteq Procs /\ Cardinality(result[x]) > N - 1
        BY <1>2 DEF ResultsLarge, Returned, IInv, TypeOK
      <4>2. Cardinality(result[x]) = Cardinality(Procs)
        BY <4>1, ProcSets, Numbers DEF N
      <4>3. QED BY <4>1, <4>2, ZhengAssumption, FS_Subset
    <3>2. QED BY <3>1 DEF Comparable, Leq
  <2>2. QED BY <2>1, Invariance, LargeResults, PTL
<1>3. QED BY <1>1, <1>2

-----------------------------------------------------------------------------
(* Groups: who is in a round with the same label.                          *)

LEMMA InitOutcome == Init => OutcomeInv
BY DEF Init, OutcomeInv

LEMMA NextOutcome ==
  ASSUME OneRound, IInv, LevelInv, OutcomeInv, [Next]_vars
  PROVE  OutcomeInv'
<1>1. CASE Calm
  <2> SUFFICES ASSUME NEW q \in Procs, pc'[q] = "returned"
               PROVE  l'[q] = IF Slave(q)' THEN FirstLabel - DeltaAt(2) ELSE FirstLabel + DeltaAt(2)
    BY DEF OutcomeInv, FirstLabel, DeltaAt
  <2>1. pc[q] = "returned" /\ l'[q] = l[q] /\ w'[q] = w[q]
    BY <1>1 DEF Calm
  <2>2. Slave(q)' <=> Slave(q)
    BY <2>1 DEF Slave
  <2>3. QED BY <2>1, <2>2 DEF OutcomeInv
<1>2. ASSUME NEW p \in Procs, NEW vec, NEW k, Turn(p, vec, k),
             r[p] = LogF => k = IF IsMaster(p) THEN FirstLabel + DeltaAt(2) ELSE FirstLabel - DeltaAt(2),
             r[p] = LogF => l[p] = FirstLabel
      PROVE  OutcomeInv'
  <2> SUFFICES ASSUME NEW q \in Procs, pc'[q] = "returned"
               PROVE  l'[q] = IF Slave(q)' THEN FirstLabel - DeltaAt(2) ELSE FirstLabel + DeltaAt(2)
    BY DEF OutcomeInv, FirstLabel, DeltaAt
  <2>1. CASE q # p
    <3>1. pc[q] = "returned" /\ l'[q] = l[q] /\ w'[q] = w[q]
      BY <1>2, <2>1 DEF Turn, IInv, TypeOK
    <3>2. Slave(q)' <=> Slave(q)
      BY <3>1 DEF Slave
    <3>3. QED BY <3>1, <3>2 DEF OutcomeInv
  <2>2. CASE q = p
    <3>1. r[p] = LogF /\ w' = w /\ l'[p] = k /\ l[p] = FirstLabel
      BY <1>2, <2>2 DEF Turn, IInv, TypeOK
    <3>2. Slave(p)' <=> ~ IsMaster(p)
      <4> DEFINE c == Cardinality(w[p]) * Scale
      <4>1. c \in Nat /\ FirstLabel \in Nat
        <5>1. Cardinality(w[p]) \in Nat
          BY ProcSets DEF IInv, TypeOK
        <5>2. QED BY <5>1, OnlyRound, Labels
      <4> HIDE DEF c
      <4>2. c <= FirstLabel <=> ~ (c > FirstLabel)
        BY <4>1
      <4>3. Slave(p)' <=> c <= FirstLabel
        BY <2>2, <3>1 DEF Slave, c
      <4>4. IsMaster(p) <=> c > FirstLabel
        BY <3>1 DEF IsMaster, c
      <4>5. QED BY <4>2, <4>3, <4>4
    <3>3. QED BY <1>2, <2>2, <3>1, <3>2
  <2>3. QED BY <2>1, <2>2
<1>3. ASSUME NEW p \in Procs, ValuesReceived(p) PROVE OutcomeInv'
  <2>1. r[p] = 0 /\ Turn(p, v[p], l[p])
    BY <1>3, Turns
  <2>2. r[p] # LogF
    BY <2>1, OnlyRound
  <2>3. QED BY <2>1, <2>2, <1>2
<1>4. ASSUME NEW p \in Procs, r[p] \in Rounds
      PROVE  r[p] = 1 /\ l[p] = FirstLabel /\ delta[p] \div 2 = DeltaAt(2)
  <2>1. r[p] = 1 /\ 1 \in Rounds
    BY <1>4, OnlyRound
  <2>2. l[p] = FirstLabel /\ delta[p] = DeltaAt(1)
    BY <2>1 DEF LevelInv, LabelsInv
  <2>3. DeltaAt(1) = 2 * DeltaAt(2) /\ DeltaAt(2) \in Nat
    <3>1. 2 \in 1..(LogF + 1) /\ 1 + 1 = 2
      BY OnlyRound
    <3>2. DeltaAt(1) = 2 * DeltaAt(1 + 1) /\ DeltaAt(2) \in Nat
      BY <2>1, <3>1, Deltas
    <3>3. QED BY <3>1, <3>2
  <2>4. \A x \in Nat : (2 * x) \div 2 = x
    OBVIOUS
  <2>5. QED BY <2>1, <2>2, <2>3, <2>4
<1>5. ASSUME NEW p \in Procs, BecomeSlave(p) PROVE OutcomeInv'
  <2>1. r[p] \in Rounds /\ Turn(p, v[p], l[p] - delta[p] \div 2) /\ ~ IsMaster(p)
    BY <1>5, Turns
  <2>2. l[p] = FirstLabel /\ delta[p] \div 2 = DeltaAt(2)
    BY <2>1, <1>4
  <2>3. QED BY <2>1, <2>2, <1>2
<1>6. ASSUME NEW p \in Procs, BecomeMaster(p) PROVE OutcomeInv'
  <2>1. r[p] \in Rounds /\ Turn(p, w[p], l[p] + delta[p] \div 2) /\ IsMaster(p)
    BY <1>6, Turns
  <2>2. l[p] = FirstLabel /\ delta[p] \div 2 = DeltaAt(2)
    BY <2>1, <1>4
  <2>3. QED BY <2>1, <2>2, <1>2
<1>7. QED BY <1>1, <1>3, <1>5, <1>6, CalmOrTurn

(* In the first round everybody is in the same group, and there are no     *)
(* more values than processes.                                             *)
LEMMA FirstGroup ==
  ASSUME IInv, LevelInv, NEW p \in Procs, r[p] = 1
  PROVE  GroupIsSmall(p)
<1> DEFINE U == UNION {v[q] : q \in Group(p)}
<1>1. U \subseteq Procs
  BY DEF Group, IInv, TypeOK
<1> HIDE DEF U
<1>2. Cardinality(U) \in Nat /\ Cardinality(U) <= N /\ N \in Nat
  BY <1>1, ProcSets, Numbers
<1>3. Cardinality(U) * Scale <= N * Scale
  BY <1>2, ScaledMonotone
<1>4. l[p] = FirstLabel /\ delta[p] = F * 2^LogF
  BY Deltas DEF LevelInv, LabelsInv
<1>5. FirstLabel + F * 2^LogF = N * Scale
  BY WholeLabel
<1>6. QED BY <1>3, <1>4, <1>5 DEF GroupIsSmall, U

(* After the only classification, the slaves have agreed on n - 1 values.  *)
LEMMA LastGroup ==
  ASSUME ClassifierInv, LevelInv, OutcomeInv, OneRound, NEW p \in Procs, r[p] = 2
  PROVE  GroupIsSmall(p)
<1> USE DEF ClassifierInv
<1> DEFINE U == UNION {v[q] : q \in Group(p)}
           P == 2^LogF
<1>1. \A q \in Procs : r[q] = 2 => pc[q] = "returned"
  BY OnlyRound DEF IInv, PhaseInv
<1>2. DeltaAt(2) = P /\ P \in Nat /\ P >= 1 /\ Scale = P + P /\ FirstLabel \in Nat
      /\ FirstLabel = (N - 1) * Scale
  <2>1. P \in Nat /\ P >= 1
    BY Powers
  <2>2. DeltaAt(1) = 2 * P /\ DeltaAt(1) = 2 * DeltaAt(1 + 1) /\ DeltaAt(2) \in Nat /\ 1 + 1 = 2
    <3>1. 1 \in Rounds /\ 2 \in 1..(LogF + 1)
      BY OnlyRound
    <3>2. QED BY <3>1, Deltas, OnlyRound
  <2>3. Scale = 2 * P
    BY DEF Scale
  <2> HIDE DEF P
  <2>4. QED BY <2>1, <2>2, <2>3, OnlyRound
<1> HIDE DEF P
<1>3. delta[p] = P
  BY <1>2 DEF LevelInv, LabelsInv
<1>4. U \subseteq Procs
  BY DEF Group, IInv, TypeOK
<1>5. CASE Slave(p)
  <2>1. l[p] = FirstLabel - P
    BY <1>1, <1>2, <1>5 DEF OutcomeInv
  <2>2. ASSUME NEW q \in Group(p) PROVE v[q] = v[p]
    <3>1. q \in Procs /\ pc[q] = "returned" /\ l[q] = l[p]
      BY <1>1, <2>2 DEF Group
    <3>2. FirstLabel - P # FirstLabel + P
      BY <1>2
    <3>3. Slave(q)
      BY <1>2, <2>1, <3>1, <3>2 DEF OutcomeInv
    <3>4. Sees(p, q) \/ Sees(q, p)
      BY <1>5, <3>1, <3>3 DEF SnapshotInv, HasWritten
    <3>5. QED BY <1>5, <3>1, <3>3, <3>4, SlavesAgree
  <2>3. U \subseteq v[p]
    BY <2>2
  <2>4. v[p] \subseteq w[p]
    <3>1. HasWritten(p) /\ pc[p] = "returned"
      BY <1>5 DEF HasWritten, Slave
    <3>2. QED BY <3>1 DEF SnapshotInv, Sees
  <2>5. Cardinality(U) <= Cardinality(w[p]) /\ Cardinality(U) \in Nat /\ Cardinality(w[p]) \in Nat
    <3>1. w[p] \subseteq Procs /\ U \subseteq w[p]
      BY <2>3, <2>4 DEF IInv, TypeOK
    <3>2. QED BY <3>1, <1>4, ProcSets, FS_Subset
  <2>6. Cardinality(U) <= N - 1 /\ N - 1 \in Nat
    BY <1>5, <2>5, SlaveReadLess, OnlyRound, Numbers
  <2>7. Cardinality(U) * Scale <= (N - 1) * Scale
    BY <2>5, <2>6, ScaledMonotone
  <2>8. l[p] + delta[p] = (N - 1) * Scale
    BY <1>2, <1>3, <2>1
  <2>9. QED BY <2>7, <2>8 DEF GroupIsSmall
<1>6. CASE ~ Slave(p)
  <2>1. l[p] = FirstLabel + P
    BY <1>1, <1>2, <1>6 DEF OutcomeInv
  <2> HIDE DEF U
  <2>2. Cardinality(U) \in Nat /\ Cardinality(U) <= N /\ N \in Nat
    BY <1>4, ProcSets, Numbers
  <2>3. Cardinality(U) * Scale <= N * Scale
    BY <2>2, ScaledMonotone
  <2>4. FirstLabel + (P + P) = N * Scale
    <3>1. F * 2^LogF = P + P
      <4> DEFINE x == 2^LogF
      <4>1. x = P
        BY DEF P
      <4> HIDE DEF x
      <4>2. F * x = P + P
        BY <4>1, <1>2, OnlyRound
      <4>3. QED BY <4>2 DEF x
    <3>2. QED BY <3>1, WholeLabel
  <2>5. l[p] + delta[p] = N * Scale
    BY <1>2, <1>3, <2>1, <2>4
  <2>6. QED BY <2>3, <2>5 DEF GroupIsSmall, U
<1>7. QED BY <1>5, <1>6

(* One failure leaves no round.                                            *)
LEMMA NoRound == F = 1 => LogF = 0
<1> SUFFICES ASSUME F = 1, LogF > 0 PROVE FALSE
  BY Numbers
<1>1. LogF - 1 \in 0..LogF
  BY Numbers
<1> DEFINE P == 2^(LogF - 1)
<1>2. P \in Nat \ {0}
  BY <1>1, PowerAssumption
<1>3. P < F
  BY ZhengAssumption
<1> HIDE DEF P
<1>4. QED BY <1>2, <1>3

(* With one failure or two, the rounds do what they are for: who ends a    *)
(* round with the same label as others is bounded by label + delta with    *)
(* them and has more than label - delta.                                   *)
THEOREM Grouping ==
  ASSUME F = 1 \/ OneRound
  PROVE  Spec => []GroupsShrink
<1>1. CASE F = 1
  <2>1. IInv /\ LevelInv => GroupsShrink
    <3> SUFFICES ASSUME IInv, LevelInv, NEW p \in Procs, r[p] > 0
                 PROVE  GroupIsSmall(p) /\ LabelIsReached(p)
      BY DEF GroupsShrink
    <3>1. r[p] = 1
      <4>1. r[p] \in 0..(LogF + 1) /\ LogF = 0
        BY <1>1, NoRound DEF IInv, TypeOK
      <4>2. QED BY <4>1
    <3>2. QED BY <3>1, FirstGroup DEF LevelInv, LabelsReached
  <2>2. QED BY <2>1, Invariance, LevelInvariance, PTL
<1>2. CASE OneRound
  <2>1. ClassifierInv /\ LevelInv /\ OutcomeInv => GroupsShrink
    <3> SUFFICES ASSUME ClassifierInv, LevelInv, OutcomeInv, NEW p \in Procs, r[p] > 0
                 PROVE  GroupIsSmall(p) /\ LabelIsReached(p)
      BY DEF GroupsShrink
    <3>1. r[p] = 1 \/ r[p] = 2
      <4>1. r[p] \in 0..(LogF + 1)
        BY DEF ClassifierInv, IInv, TypeOK
      <4>2. LogF = 1
        BY <1>2, OnlyRound
      <4>3. QED BY <4>1, <4>2
    <3>2. GroupIsSmall(p)
      BY <1>2, <3>1, FirstGroup, LastGroup DEF ClassifierInv
    <3>3. QED BY <3>2 DEF LevelInv, LabelsReached
  <2>2. OutcomeInv /\ (IInv /\ LevelInv) /\ [Next]_vars => OutcomeInv'
    BY <1>2, NextOutcome
  <2>3. QED
    BY <2>1, <2>2, <1>2, InitOutcome, ClassifierInvariance, Invariance, LevelInvariance, PTL DEF Spec
<1>3. QED BY <1>1, <1>2

-----------------------------------------------------------------------------
(* Refinement.                                                             *)

LEMMA InitOwn == Init => OwnInv
BY DEF Init, OwnInv

(* No step takes the own value from a vector.                              *)
LEMMA NextOwn ==
  ASSUME IInv, MastersRead, OwnInv, [Next]_vars
  PROVE  OwnInv'
<1>1. CASE Calm
  BY <1>1 DEF Calm, OwnInv
<1>2. ASSUME NEW p \in Procs, NEW vec, NEW k, Turn(p, vec, k), p \in vec, pc[p] # "idle"
      PROVE  OwnInv'
  <2> SUFFICES ASSUME NEW q \in Procs
               PROVE  /\ pc'[q] # "idle" => q \in v'[q]
                      /\ pc'[q] # "returned" => result'[q] = Bottom
    BY DEF OwnInv
  <2>1. CASE q = p
    <3>1. v'[p] = vec
      BY <1>2 DEF Turn, IInv, TypeOK
    <3>2. pc'[p] # "returned" => result'[p] = result[p] /\ pc[p] # "returned"
      BY <1>2, Numbers DEF Turn, IInv, TypeOK, PhaseInv
    <3>3. QED BY <1>2, <2>1, <3>1, <3>2 DEF OwnInv
  <2>2. CASE q # p
    <3>1. v'[q] = v[q] /\ pc'[q] = pc[q] /\ result'[q] = result[q]
      BY <1>2, <2>2 DEF Turn, IInv, TypeOK
    <3>2. QED BY <3>1 DEF OwnInv
  <2>3. QED BY <2>1, <2>2
<1>3. ASSUME NEW p \in Procs, ValuesReceived(p) PROVE OwnInv'
  <2>1. Turn(p, v[p], l[p]) /\ pc[p] = "values"
    BY <1>3, Turns
  <2>2. QED BY <2>1, <1>2 DEF OwnInv
<1>4. ASSUME NEW p \in Procs, BecomeSlave(p) PROVE OwnInv'
  <2>1. Turn(p, v[p], l[p] - delta[p] \div 2) /\ pc[p] = "read"
    BY <1>4, Turns
  <2>2. QED BY <2>1, <1>2 DEF OwnInv
<1>5. ASSUME NEW p \in Procs, BecomeMaster(p) PROVE OwnInv'
  <2>1. Turn(p, w[p], l[p] + delta[p] \div 2) /\ pc[p] = "second_write"
    BY <1>5, Turns
  <2>2. p \in w[p]
    BY <2>1 DEF OwnInv, MastersRead
  <2>3. QED BY <2>1, <2>2, <1>2
<1>6. QED BY <1>1, <1>3, <1>4, <1>5, CalmOrTurn

\* What the refinement needs to know of both states of a step.
RefineInv == IInv /\ OwnInv /\ ResultsLarge /\ ResultsComparable

(* A step that ends the last round is the return from start.               *)
LEMMA TurnSimulates ==
  ASSUME RefineInv, RefineInv', NEW p \in Procs, NEW vec, NEW k, Turn(p, vec, k),
         pc[p] \notin {"idle", "returned"}
  PROVE  [LA!AbsNext]_(LA!absvars)
<1> USE DEF RefineInv
<1>1. Started' = Started /\ p \in Started
  BY DEF Turn, Started, IInv, TypeOK
<1>2. CASE r[p] < LogF
  <2>1. result' = result
    BY <1>2, Numbers DEF Turn, IInv, TypeOK
  <2>2. QED BY <1>1, <2>1 DEF LA!absvars
<1>3. CASE r[p] = LogF
  <2>1. pc' = [pc EXCEPT ![p] = "returned"] /\ result' = [result EXCEPT ![p] = vec]
    BY <1>3, Numbers DEF Turn, IInv, TypeOK
  <2>2. v'[p] = vec /\ pc'[p] = "returned" /\ result'[p] = vec
    BY <2>1 DEF Turn, IInv, TypeOK
  <2>3. p \in vec
    BY <2>2 DEF OwnInv
  <2>4. p \in Returned'
    BY <2>2 DEF Returned
  <2>5. vec \in SUBSET Started
    BY <1>1, <2>2, <2>4 DEF ResultsLarge
  <2>6. result[p] = Bottom
    BY DEF OwnInv
  <2>7. ASSUME NEW q \in Procs PROVE Comparable(vec, result[q])
    <3>1. CASE pc[q] = "returned"
      <4>1. q # p
        BY <3>1
      <4>2. pc'[q] = "returned" /\ result'[q] = result[q]
        BY <2>1, <3>1, <4>1 DEF IInv, TypeOK
      <4>3. q \in Returned'
        BY <4>2 DEF Returned
      <4>4. Comparable(result'[p], result'[q])
        BY <2>4, <4>3 DEF ResultsComparable, Comparable, Leq
      <4>5. QED BY <2>2, <4>2, <4>4
    <3>2. CASE pc[q] # "returned"
      BY <3>2 DEF OwnInv, Comparable, Leq
    <3>3. QED BY <3>1, <3>2
  <2>8. LA!Return(p, vec)
    <3>1. \A q \in Procs : LA!Comparable(vec, result[q])
      BY <2>7 DEF LA!Comparable, LA!Leq, Comparable, Leq
    <3>2. LA!Leq({p}, vec) /\ result[p] = LA!Bottom
      BY <2>3, <2>6 DEF LA!Leq, LA!Bottom
    <3>3. QED BY <1>1, <2>1, <3>1, <3>2 DEF LA!Return
  <2>9. \E x \in SUBSET Started : LA!Return(p, x)
    BY <2>5, <2>8
  <2>10. QED BY <2>9 DEF LA!AbsNext
<1>4. QED BY <1>2, <1>3 DEF Turn

(* Start is the call; every other step changes neither who has called nor  *)
(* any result.                                                             *)
LEMMA NextSimulates ==
  ASSUME RefineInv, RefineInv', [Next]_vars
  PROVE  [LA!AbsNext]_(LA!absvars)
<1> USE DEF RefineInv
<1>1. ASSUME UNCHANGED <<pc, result>> PROVE [LA!AbsNext]_(LA!absvars)
  BY <1>1 DEF LA!absvars, Started
<1>2. ASSUME NEW m \in msgs, OnMessageReceived(m.to, m) PROVE UNCHANGED <<pc, result>>
  BY <1>2 DEF OnMessageReceived, ReceiveValue, ReceiveWrite, ReceiveRead, ReceiveWriteAck,
              ReceiveReadAck, mainVars
<1>3. ASSUME NEW p \in Procs, Start(p) PROVE LA!AbsNext
  <2>1. pc[p] = "idle" /\ pc' = [pc EXCEPT ![p] = "values"] /\ UNCHANGED result
    BY <1>3 DEF Start, Wait
  <2>2. p \notin Started /\ Started' = Started \cup {p}
    BY <2>1 DEF Started, IInv, TypeOK
  <2>3. LA!Call(p)
    BY <2>1, <2>2 DEF LA!Call
  <2>4. QED BY <2>3 DEF LA!AbsNext
<1>4. ASSUME NEW p \in Procs, WriteDone(p) \/ SecondWrite(p) PROVE [LA!AbsNext]_(LA!absvars)
  <2>1. /\ pc[p] \in {"write", "read"} /\ UNCHANGED result
        /\ \/ pc' = [pc EXCEPT ![p] = "read"]
           \/ pc' = [pc EXCEPT ![p] = "second_write"]
    BY <1>4 DEF WriteDone, SecondWrite, ReadDone, Wait
  <2>2. Started' = Started
    BY <2>1 DEF Started, IInv, TypeOK
  <2>3. QED BY <2>1, <2>2 DEF LA!absvars
<1>5. ASSUME NEW p \in Procs, ValuesReceived(p) \/ BecomeSlave(p) \/ BecomeMaster(p)
      PROVE  [LA!AbsNext]_(LA!absvars)
  <2>1. PICK vec, k : Turn(p, vec, k)
    BY <1>5, Turns
  <2>2. pc[p] \notin {"idle", "returned"}
    BY <1>5, Turns
  <2>3. QED BY <2>1, <2>2, TurnSimulates
<1>6. CASE UNCHANGED vars
  BY <1>1, <1>6 DEF vars, mainVars
<1>7. QED BY <1>1, <1>2, <1>3, <1>4, <1>5, <1>6 DEF Next, MainStep

(* With one failure or two, the program implements the one-shot interface: *)
(* start returns to each process a value that contains its own, is made of *)
(* values of started processes and is comparable with every other result.  *)
THEOREM Refinement ==
  ASSUME F = 1 \/ OneRound
  PROVE  Spec => ImplementsLA
<1>1. Spec => []MastersRead
  <2>1. CASE F = 1
    <3>1. IInv => MastersRead
      BY <2>1, NoRound, InRound DEF MastersRead, Rounds
    <3>2. QED BY <3>1, Invariance, PTL
  <2>2. CASE OneRound
    <3>1. ClassifierInv => MastersRead
      BY DEF ClassifierInv, SnapshotInv, HasWritten, Sees, MastersRead
    <3>2. QED BY <2>2, <3>1, ClassifierInvariance, PTL
  <2>3. QED BY <2>1, <2>2
<1>2. Spec => []OwnInv
  <2>1. OwnInv /\ (IInv /\ MastersRead) /\ [Next]_vars => OwnInv'
    BY NextOwn
  <2>2. QED BY <1>1, <2>1, InitOwn, Invariance, PTL DEF Spec
<1>3. Spec => []RefineInv
  <2>1. IInv /\ OwnInv /\ ResultsLarge /\ ResultsComparable => RefineInv
    BY DEF RefineInv
  <2>2. QED BY <1>2, <2>1, Invariance, LargeResults, Agreement, PTL
<1>4. Init => LA!AbsInit
  BY DEF Init, LA!AbsInit, LA!Bottom, Started
<1>5. RefineInv /\ RefineInv' /\ [Next]_vars => [LA!AbsNext]_(LA!absvars)
  BY NextSimulates
<1>6. QED BY <1>3, <1>4, <1>5, PTL DEF Spec, ImplementsLA, LA!AbsSpec

=============================================================================
