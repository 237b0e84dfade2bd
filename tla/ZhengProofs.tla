---------------------------- MODULE ZhengProofs ----------------------------
(***************************************************************************)
(* Proofs about Zheng for any finite set of processes, any number of       *)
(* failures it admits and any pattern of lost messages.                    *)
(***************************************************************************)
EXTENDS ZhengInv, FiniteSetTheorems, TLAPS

USE DEF Join, Bottom

-----------------------------------------------------------------------------
(* Constants and finite sets.                                              *)

(* Every set of processes is finite and has at most N elements.            *)
LEMMA ProcSets ==
  ASSUME NEW S, S \subseteq Procs
  PROVE  IsFiniteSet(S) /\ Cardinality(S) \in Nat /\ Cardinality(S) <= N
BY ZhengAssumption, FS_Subset, FS_CardinalityType DEF N

(* n - f is a positive number, larger than f.                              *)
LEMMA Numbers ==
  /\ N \in Nat /\ F \in Nat /\ F >= 1 /\ LogF \in Nat
  /\ Quorum \in Nat /\ Quorum = N - F /\ Quorum > F
<1>1. N \in Nat
  BY ZhengAssumption, FS_CardinalityType DEF N
<1>2. QED BY <1>1, ZhengAssumption DEF Quorum

LEMMA Powers == 2^LogF \in Nat /\ 2^LogF >= 1
<1>1. LogF \in 0..LogF
  BY Numbers
<1>2. 2^LogF \in Nat \ {0}
  BY <1>1, PowerAssumption
<1>3. QED BY <1>2

(* The first label is delta above n - f.                                   *)
LEMMA Labels ==
  /\ Scale \in Nat /\ Scale >= 1
  /\ F * 2^LogF \in Nat
  /\ (2 * N - F) * 2^LogF \in Nat
  /\ (N - F) * Scale \in Nat
  /\ (N - F) * Scale + F * 2^LogF = (2 * N - F) * 2^LogF
<1> DEFINE P == 2^LogF
<1>1. P \in Nat /\ P >= 1
  BY Powers
<1> HIDE DEF P
<1>2. \A a, b \in Nat : a * b \in Nat
  OBVIOUS
<1>3. N - F \in Nat /\ 2 * N - F \in Nat
  BY Numbers
<1>4. (N - F) * (2 * P) + F * P = (2 * N - F) * P
  BY <1>1, Numbers
<1>5. QED BY <1>1, <1>2, <1>3, <1>4, Numbers DEF Scale, P

(* More values than a label says that is at least n - f are more than n - f. *)
LEMMA ScaledOrder ==
  ASSUME NEW a \in Nat, NEW b \in Nat, b * Scale < a * Scale
  PROVE  b < a
<1> SUFFICES ASSUME a <= b PROVE FALSE
  OBVIOUS
<1>1. PICK d \in Nat : b = a + d
  <2>1. b - a \in Nat /\ b = a + (b - a)
    OBVIOUS
  <2>2. QED BY <2>1
<1>2. b * Scale = a * Scale + d * Scale
  BY <1>1, Labels
<1>3. d * Scale \in Nat /\ a * Scale \in Nat
  BY Labels
<1>4. QED BY <1>2, <1>3

-----------------------------------------------------------------------------
(* Messages.                                                               *)

(* What p sends are messages from p to others with the contents it names.  *)
LEMMA SentValues ==
  ASSUME NEW p \in Procs, NEW vec \in SUBSET Procs
  PROVE  /\ SendValue(p, vec) \subseteq Messages
         /\ \A m \in SendValue(p, vec) :
              /\ m.type = "value" /\ m.from = p /\ m.vec = vec
              /\ m.to \in Procs /\ m.to # p
BY DEF SendValue, Delivered, Messages, Others

LEMMA SentReads ==
  ASSUME NEW p \in Procs, NEW d \in Rounds
  PROVE  /\ SendRead(p, d) \subseteq Messages
         /\ \A m \in SendRead(p, d) :
              m.type = "read" /\ m.from = p /\ m.round = d /\ m.to \in Others(p)
BY DEF SendRead, Delivered, Messages, Others

-----------------------------------------------------------------------------
(* The invariant for any number of rounds.                                 *)

LEMMA InitIInv == Init => IInv
<1> SUFFICES ASSUME Init PROVE IInv
  OBVIOUS
<1>1. TypeOK
  BY Numbers, Labels DEF Init, TypeOK
<1>2. PhaseInv /\ ValuesInv /\ OriginInv
  BY Numbers DEF Init, PhaseInv, ValuesInv, OriginInv
<1>3. LabelInv
  BY Labels DEF Init, LabelInv
<1>4. QED BY <1>1, <1>2, <1>3 DEF IInv

(* start: the value goes out, and nobody had it before.                    *)
LEMMA StartInv ==
  ASSUME IInv, NEW p \in Procs, Start(p)
  PROVE  IInv'
<1> USE DEF IInv
<1>1. v[p] = {} /\ value_received[p] = 0 /\ v' = [v EXCEPT ![p] = {p}]
  BY DEF PhaseInv, Start, TypeOK
<1>2. msgs' = msgs \cup SendValue(p, {p}) /\ links' = links
  BY <1>1 DEF Start, Send
<1>3. pc' = [pc EXCEPT ![p] = "values"] /\ locked' \in [Procs -> BOOLEAN]
  BY Numbers DEF Start, Wait, TypeOK
<1>4. UNCHANGED <<delta, result, r, l, w, counters, acceptVal>>
  BY DEF Start
<1>5. TypeOK'
  <2>1. msgs' \in SUBSET Messages /\ v' \in [Procs -> SUBSET Procs]
    BY <1>1, <1>2, SentValues DEF TypeOK
  <2>2. pc' \in [Procs -> {"idle", "values", "write", "read", "second_write", "returned"}]
    BY <1>3 DEF TypeOK
  <2>3. QED BY <1>2, <1>3, <1>4, <2>1, <2>2 DEF TypeOK, counters
<1>6. PhaseInv'
  <2> SUFFICES ASSUME NEW q \in Procs
               PROVE  /\ pc'[q] = "idle" => locked'[q] /\ v'[q] = {} /\ value_received'[q] = 0
                      /\ r'[q] = 0 <=> pc'[q] \in {"idle", "values"}
                      /\ pc'[q] = "returned" <=> r'[q] = LogF + 1
                      /\ pc'[q] = "returned" => result'[q] = v'[q]
                      /\ r'[q] > 0 => value_received'[q] >= Quorum
    BY DEF PhaseInv
  <2>1. CASE q = p
    BY <2>1, <1>1, <1>3, <1>4, Numbers DEF PhaseInv, TypeOK, counters, Start
  <2>2. CASE q # p
    BY <2>2, <1>1, <1>3, <1>4 DEF PhaseInv, TypeOK, counters, Start, Wait
  <2>3. QED BY <2>1, <2>2
<1>7. ValuesInv'
  <2>1. p \notin Started /\ Started' = Started \cup {p}
    BY <1>3 DEF Start, Started, TypeOK
  <2>2. \A m \in msgs' : m.type = "value" =>
          /\ m.vec = {m.from}
          /\ m.from \in Started'
          /\ pc'[m.to] = "values" => m.from \notin v'[m.to]
    <3> TAKE m \in msgs'
    <3> HAVE m.type = "value"
    <3>1. CASE m \in msgs
      <4>1. m.from \in Started /\ m.vec = {m.from} /\ m.from # p /\ m.to \in Procs
        BY <3>1, <2>1 DEF ValuesInv, TypeOK, Messages
      <4>2. QED BY <4>1, <3>1, <2>1, <1>1, <1>3 DEF ValuesInv, TypeOK
    <3>2. CASE m \in SendValue(p, {p})
      <4>1. m.from = p /\ m.vec = {p} /\ m.to \in Procs /\ m.to # p
        BY <3>2, SentValues
      <4>2. v'[m.to] = v[m.to] /\ p \notin v[m.to]
        BY <4>1, <1>1, <2>1 DEF OriginInv, TypeOK
      <4>3. QED BY <4>1, <4>2, <2>1
    <3>3. QED BY <3>1, <3>2, <1>2
  <2>3. \A q \in Procs : pc'[q] = "values" => Cardinality(v'[q]) = value_received'[q] + 1
    <3> TAKE q \in Procs
    <3>1. CASE q = p
      <4>1. v'[q] = {p} /\ value_received'[q] = 0
        BY <3>1, <1>1, <1>4 DEF TypeOK, counters
      <4>2. Cardinality({p}) = 1
        BY FS_Singleton
      <4>3. QED BY <4>1, <4>2
    <3>2. CASE q # p
      BY <3>2, <1>1, <1>3, <1>4 DEF ValuesInv, TypeOK, counters
    <3>3. QED BY <3>1, <3>2
  <2>4. \A q \in Procs : r'[q] > 0 => Cardinality(v'[q]) > N - F
    <3>1. r[p] = 0 /\ r' = r
      BY <1>4 DEF PhaseInv, Start
    <3>2. QED BY <3>1, <1>1 DEF ValuesInv, TypeOK
  <2>5. QED BY <2>2, <2>3, <2>4 DEF ValuesInv
<1>8. OriginInv'
  <2>1. p \in Started' /\ Started \subseteq Started'
    BY <1>3 DEF Started, TypeOK
  <2>2. \A q \in Procs : v'[q] \cup w'[q] \cup result'[q] \subseteq Started'
    BY <2>1, <1>1, <1>4 DEF OriginInv, TypeOK
  <2>3. \A m \in msgs' : /\ m.type = "write" => m.vec \subseteq Started'
                         /\ m.type \in {"write_ack", "read_ack"} =>
                              \A e \in m.recVal : e[1] \subseteq Started'
    BY <2>1, <1>2, SentValues DEF OriginInv
  <2>4. \A q \in Procs : \A d \in Rounds : \A e \in acceptVal'[q][d] : e[1] \subseteq Started'
    BY <2>1, <1>4 DEF OriginInv
  <2>5. QED BY <2>2, <2>3, <2>4 DEF OriginInv
<1>9. LabelInv'
  BY <1>3, <1>4 DEF LabelInv, IsMaster, TypeOK
<1>10. QED BY <1>5, <1>6, <1>7, <1>8, <1>9

(* Into the next round, or out of start: with a vector of more than n - f  *)
(* values and a label that is still delta above n - f.                     *)
LEMMA NextRoundInv ==
  ASSUME IInv, NEW p \in Procs, NEW vec \in SUBSET Started, NEW k \in Nat, NEW acks \in Nat,
         NextRound(p, vec, k, acks),
         pc[p] \notin {"idle", "returned"}, value_received[p] >= Quorum,
         Cardinality(vec) > N - F, (N - F) * Scale + delta'[p] <= k,
         delta'[p] \in Nat, delta' = [delta EXCEPT ![p] = delta'[p]],
         read_ack_received' \in [Procs -> Nat],
         UNCHANGED <<value_received, acceptVal>>
  PROVE  IInv'
<1> USE DEF IInv
<1>1. /\ r' = [r EXCEPT ![p] = @ + 1]
      /\ v' = [v EXCEPT ![p] = vec]
      /\ l' = [l EXCEPT ![p] = k]
      /\ write_ack_received' = [write_ack_received EXCEPT ![p] = acks]
  BY DEF NextRound
<1>2. r[p] \in 0..LogF
  BY Numbers DEF PhaseInv, TypeOK
<1>3. Started \subseteq Procs /\ links' = links
  BY DEF Started, NextRound, Send, netVars
<1>4. \E M \in SUBSET Messages : msgs' = msgs \cup M /\ \A m \in M : m.type = "write" /\ m.vec = vec
  <2>1. CASE r[p] < LogF
    <3>1. r[p] + 1 \in Rounds /\ r[p] # LogF /\ vec \in SUBSET Procs
      BY <2>1, <1>2, <1>3, Numbers DEF Rounds
    <3>2. msgs' = msgs \cup SendWrite(p, vec, k, r[p] + 1, FALSE)
      BY <3>1, Zenon DEF NextRound, Send
    <3> DEFINE d == r[p] + 1
               M == SendWrite(p, vec, k, d, FALSE)
    <3> HIDE DEF d
    <3>3. d \in Rounds /\ vec \in SUBSET Procs
      BY <3>1 DEF d
    <3>4. M \subseteq Messages /\ \A m \in M : m.type = "write" /\ m.vec = vec
      BY <3>3 DEF SendWrite, Delivered, Messages, Others
    <3>5. msgs' = msgs \cup M
      BY <3>2 DEF d
    <3> HIDE DEF M
    <3>6. QED BY <3>4, <3>5
  <2>2. CASE r[p] = LogF
    <3>1. ~ (r[p] < LogF)
      BY <2>2, Numbers
    <3>2. msgs' = msgs \cup {}
      BY <3>1, Zenon DEF NextRound, netVars
    <3>3. WITNESS {} \in SUBSET Messages
    <3>4. QED BY <3>2
  <2>3. r[p] < LogF \/ r[p] = LogF
    BY <1>2, Numbers
  <2>4. QED BY <2>1, <2>2, <2>3, Zenon
<1>5. /\ pc' = [pc EXCEPT ![p] = pc'[p]]
      /\ \/ pc'[p] = "write" /\ r[p] < LogF
         \/ pc'[p] = "returned" /\ r[p] = LogF /\ result'[p] = vec
  <2>1. CASE r[p] < LogF
    BY <2>1, <1>2, Numbers DEF NextRound, Wait, TypeOK
  <2>2. CASE r[p] = LogF
    BY <2>2, <1>2, Numbers DEF NextRound, Wait, TypeOK
  <2>3. QED BY <2>1, <2>2, <1>2, Numbers
<1>6. locked' \in [Procs -> BOOLEAN] /\ \A q \in Procs : q # p => locked'[q] = locked[q]
  <2>1. locked' = [locked EXCEPT ![p] = acks >= Quorum] \/ locked' = [locked EXCEPT ![p] = FALSE]
    BY DEF NextRound, Wait
  <2>2. (acks >= Quorum) \in BOOLEAN
    BY Numbers
  <2>3. QED BY <2>1, <2>2 DEF TypeOK
<1>7. /\ w' = [w EXCEPT ![p] = w'[p]] /\ w'[p] \in {w[p], {}}
      /\ result' = [result EXCEPT ![p] = result'[p]] /\ result'[p] \in {result[p], vec}
  <2>1. CASE r[p] < LogF
    BY <2>1, <1>2, Numbers DEF NextRound, TypeOK
  <2>2. CASE r[p] = LogF
    BY <2>2, <1>2, Numbers DEF NextRound, TypeOK
  <2>3. QED BY <2>1, <2>2, <1>2, Numbers
<1>8. Started' = Started
  BY <1>5 DEF Started, TypeOK
<1>9. TypeOK'
  <2>1. msgs' \subseteq Messages
    BY <1>4 DEF TypeOK
  <2>2. result' \in [Procs -> SUBSET Procs] /\ w' \in [Procs -> SUBSET Procs]
    <3>1. result'[p] \in SUBSET Procs /\ w'[p] \in SUBSET Procs
      BY <1>7, <1>3 DEF TypeOK
    <3>2. QED BY <1>7, <3>1 DEF TypeOK
  <2>3. r' \in [Procs -> 0..(LogF + 1)]
    BY <1>1, <1>2, Numbers DEF TypeOK
  <2>4. v' \in [Procs -> SUBSET Procs] /\ l' \in [Procs -> Nat]
    BY <1>1, <1>3 DEF TypeOK
  <2>5. pc' \in [Procs -> {"idle", "values", "write", "read", "second_write", "returned"}]
    <3> DEFINE Stages == {"idle", "values", "write", "read", "second_write", "returned"}
    <3>1. pc \in [Procs -> Stages] /\ pc'[p] \in Stages
      BY <1>5 DEF TypeOK
    <3> HIDE DEF Stages
    <3>2. pc' \in [Procs -> Stages]
      BY <1>5, <3>1
    <3>3. QED BY <3>2 DEF Stages
  <2>6. delta' \in [Procs -> Nat] /\ write_ack_received' \in [Procs -> Nat]
    BY <1>1 DEF TypeOK
  <2>7. QED BY <1>3, <1>6, <2>1, <2>2, <2>3, <2>4, <2>5, <2>6 DEF TypeOK
<1>10. PhaseInv'
  <2> SUFFICES ASSUME NEW q \in Procs
               PROVE  /\ pc'[q] = "idle" => locked'[q] /\ v'[q] = {} /\ value_received'[q] = 0
                      /\ r'[q] = 0 <=> pc'[q] \in {"idle", "values"}
                      /\ pc'[q] = "returned" <=> r'[q] = LogF + 1
                      /\ pc'[q] = "returned" => result'[q] = v'[q]
                      /\ r'[q] > 0 => value_received'[q] >= Quorum
    BY DEF PhaseInv
  <2>1. CASE q = p
    <3>1. r'[q] = r[p] + 1 /\ v'[q] = vec /\ value_received'[q] >= Quorum
      BY <2>1, <1>1 DEF TypeOK
    <3>2. QED BY <2>1, <3>1, <1>2, <1>5, Numbers
  <2>2. CASE q # p
    BY <2>2, <1>1, <1>5, <1>6, <1>7 DEF PhaseInv, TypeOK
  <2>3. QED BY <2>1, <2>2
<1>11. ValuesInv'
  <2>1. \A m \in msgs' : m.type = "value" => m \in msgs
    BY <1>4
  <2>2. \A m \in msgs : m.type = "value" => m.to \in Procs
    BY DEF TypeOK, Messages
  <2>3. \A m \in msgs' : m.type = "value" =>
          /\ m.vec = {m.from}
          /\ m.from \in Started'
          /\ pc'[m.to] = "values" => m.from \notin v'[m.to]
    BY <2>1, <2>2, <1>1, <1>5, <1>8 DEF ValuesInv, TypeOK
  <2>4. \A q \in Procs : pc'[q] = "values" => Cardinality(v'[q]) = value_received'[q] + 1
    BY <1>1, <1>5 DEF ValuesInv, TypeOK
  <2>5. \A q \in Procs : r'[q] > 0 => Cardinality(v'[q]) > N - F
    BY <1>1 DEF ValuesInv, TypeOK
  <2>6. QED BY <2>3, <2>4, <2>5 DEF ValuesInv
<1>12. OriginInv'
  <2>1. \A q \in Procs : v'[q] \cup w'[q] \cup result'[q] \subseteq Started
    BY <1>1, <1>7 DEF OriginInv, TypeOK
  <2>2. \A m \in msgs' : /\ m.type = "write" => m.vec \subseteq Started
                         /\ m.type \in {"write_ack", "read_ack"} =>
                              \A e \in m.recVal : e[1] \subseteq Started
    BY <1>4 DEF OriginInv
  <2>3. QED BY <2>1, <2>2, <1>8 DEF OriginInv
<1>13. LabelInv'
  BY <1>1, <1>5, <1>7 DEF LabelInv, IsMaster, TypeOK
<1>14. QED BY <1>9, <1>10, <1>11, <1>12, <1>13

(* A process in the classifier is in one of its rounds.                    *)
LEMMA InRound ==
  ASSUME IInv, NEW p \in Procs, pc[p] \in {"write", "read", "second_write"}
  PROVE  r[p] \in Rounds /\ r[p] > 0
<1>1. r[p] # 0 /\ r[p] # LogF + 1
  BY DEF IInv, PhaseInv
<1>2. r[p] \in 0..(LogF + 1)
  BY DEF IInv, TypeOK
<1>3. QED BY <1>1, <1>2, Numbers DEF Rounds

(* The three ways into a round.                                            *)
LEMMA ValuesReceivedInv ==
  ASSUME IInv, NEW p \in Procs, ValuesReceived(p)
  PROVE  IInv'
<1>1. /\ pc[p] = "values" /\ value_received[p] >= Quorum
      /\ NextRound(p, v[p], l[p], write_ack_received[p])
      /\ UNCHANGED <<delta, value_received, read_ack_received, acceptVal>>
  BY DEF ValuesReceived
<1>2. /\ v[p] \in SUBSET Started /\ l[p] \in Nat /\ write_ack_received[p] \in Nat
      /\ delta' = [delta EXCEPT ![p] = delta'[p]] /\ delta'[p] = delta[p] /\ delta[p] \in Nat
      /\ read_ack_received' \in [Procs -> Nat]
  BY <1>1 DEF IInv, TypeOK, OriginInv
<1>3. Cardinality(v[p]) > N - F
  BY <1>1, Numbers DEF IInv, ValuesInv, TypeOK
<1>4. (N - F) * Scale + delta'[p] <= l[p]
  BY <1>2 DEF IInv, LabelInv
<1>5. QED BY <1>1, <1>2, <1>3, <1>4, NextRoundInv

(* Halving delta makes room for what a slave takes from its label.         *)
LEMMA Halves ==
  ASSUME NEW d \in Nat
  PROVE  d \div 2 \in Nat /\ d \div 2 + d \div 2 <= d
OBVIOUS

LEMMA BecomeSlaveInv ==
  ASSUME IInv, NEW p \in Procs, BecomeSlave(p)
  PROVE  IInv'
<1> DEFINE half == delta[p] \div 2
           k == l[p] - half
<1>1. /\ pc[p] = "read"
      /\ NextRound(p, v[p], k, write_ack_received[p])
      /\ UNCHANGED <<value_received, acceptVal>>
      /\ read_ack_received' = [read_ack_received EXCEPT ![p] = 0]
      /\ delta' = [delta EXCEPT ![p] = half]
  BY DEF BecomeSlave, ReadDone, HalveDelta
<1>2. /\ v[p] \in SUBSET Started /\ l[p] \in Nat /\ write_ack_received[p] \in Nat
      /\ delta[p] \in Nat /\ read_ack_received' \in [Procs -> Nat]
  BY <1>1 DEF IInv, TypeOK, OriginInv
<1>3. delta' = [delta EXCEPT ![p] = delta'[p]] /\ delta'[p] = half /\ half \in Nat
      /\ half + half <= delta[p]
  BY <1>1, <1>2, Halves DEF IInv, TypeOK
<1>4. (N - F) * Scale + delta[p] <= l[p] /\ (N - F) * Scale \in Nat
  BY Labels DEF IInv, LabelInv
<1> HIDE DEF half
<1>5. k \in Nat /\ (N - F) * Scale + half <= k
  BY <1>2, <1>3, <1>4
<1>6. value_received[p] >= Quorum /\ Cardinality(v[p]) > N - F
  <2>1. r[p] > 0
    BY <1>1, InRound
  <2>2. QED BY <2>1 DEF IInv, PhaseInv, ValuesInv
<1> HIDE DEF k
<1>7. QED BY <1>1, <1>2, <1>3, <1>5, <1>6, NextRoundInv

LEMMA BecomeMasterInv ==
  ASSUME IInv, NEW p \in Procs, BecomeMaster(p)
  PROVE  IInv'
<1> DEFINE half == delta[p] \div 2
           k == l[p] + half
<1>1. /\ pc[p] = "second_write"
      /\ NextRound(p, w[p], k, 0)
      /\ UNCHANGED <<value_received, read_ack_received, acceptVal>>
      /\ delta' = [delta EXCEPT ![p] = half]
  BY DEF BecomeMaster, HalveDelta
<1>2. /\ w[p] \in SUBSET Started /\ l[p] \in Nat
      /\ delta[p] \in Nat /\ read_ack_received' \in [Procs -> Nat]
  BY <1>1 DEF IInv, TypeOK, OriginInv
<1>3. delta' = [delta EXCEPT ![p] = delta'[p]] /\ delta'[p] = half /\ half \in Nat
      /\ half + half <= delta[p]
  BY <1>1, <1>2, Halves DEF IInv, TypeOK
<1>4. (N - F) * Scale + delta[p] <= l[p] /\ (N - F) * Scale \in Nat
  BY Labels DEF IInv, LabelInv
<1> HIDE DEF half
<1>5. k \in Nat /\ (N - F) * Scale + half <= k
  BY <1>2, <1>3, <1>4
<1>6. value_received[p] >= Quorum
  BY SMTT(20), <1>1, Numbers DEF IInv, PhaseInv, TypeOK
<1>7. Cardinality(w[p]) > N - F
  <2>1. Cardinality(w[p]) * Scale > l[p]
    BY <1>1 DEF IInv, LabelInv, IsMaster
  <2>2. Cardinality(w[p]) \in Nat /\ N - F \in Nat
    BY ProcSets, Numbers DEF IInv, TypeOK
  <2>3. (N - F) * Scale < Cardinality(w[p]) * Scale
    <3> DEFINE c == Cardinality(w[p]) * Scale
    <3>1. c \in Nat
      BY <2>2, Labels
    <3> HIDE DEF c
    <3>2. (N - F) * Scale < c
      BY <3>1, <2>1, <1>2, <1>4 DEF c
    <3>3. QED BY <3>2 DEF c
  <2>4. QED BY <2>2, <2>3, ScaledOrder
<1> HIDE DEF k
<1>8. QED BY <1>1, <1>2, <1>3, <1>5, <1>6, <1>7, NextRoundInv

(* A step of the main thread within a round: it sends M and waits.         *)
LEMMA WithinRoundInv ==
  ASSUME IInv, NEW p \in Procs, NEW M \in SUBSET Messages,
         msgs' = msgs \cup M, links' = links,
         \A m \in M : m.type = "read" \/ (m.type = "write" /\ m.vec \subseteq Started),
         pc[p] \in {"write", "read"}, pc' = [pc EXCEPT ![p] = pc'[p]],
         pc'[p] \in {"read", "second_write"}, pc'[p] = "second_write" => IsMaster(p),
         locked' \in [Procs -> BOOLEAN], \A q \in Procs : q # p => locked'[q] = locked[q],
         read_ack_received' \in [Procs -> Nat], write_ack_received' \in [Procs -> Nat],
         UNCHANGED <<delta, result, r, l, v, w, value_received, acceptVal>>
  PROVE  IInv'
<1> USE DEF IInv
<1>1. Started' = Started
  BY DEF Started, TypeOK
<1>2. TypeOK'
  <2>1. pc' \in [Procs -> {"idle", "values", "write", "read", "second_write", "returned"}]
    BY DEF TypeOK
  <2>2. QED BY <2>1 DEF TypeOK
<1>3. PhaseInv'
  BY DEF PhaseInv, TypeOK
<1>4. ValuesInv'
  <2>1. \A m \in msgs : m.type = "value" => m.to \in Procs
    BY DEF TypeOK, Messages
  <2>2. QED BY <2>1, <1>1 DEF ValuesInv, TypeOK
<1>5. OriginInv'
  BY <1>1 DEF OriginInv
<1>6. LabelInv'
  BY DEF LabelInv, IsMaster, TypeOK
<1>7. QED BY <1>2, <1>3, <1>4, <1>5, <1>6

LEMMA WriteDoneInv ==
  ASSUME IInv, NEW p \in Procs, WriteDone(p)
  PROVE  IInv'
<1> DEFINE M == SendRead(p, r[p])
<1>1. r[p] \in Rounds
  BY InRound DEF WriteDone
<1>2. M \subseteq Messages /\ \A m \in M : m.type = "read"
  BY <1>1, SentReads
<1>3. msgs' = msgs \cup M /\ links' = links
  BY DEF WriteDone, Send
<1>4. /\ pc[p] = "write" /\ pc' = [pc EXCEPT ![p] = "read"]
      /\ locked' = [locked EXCEPT ![p] = read_ack_received[p] >= Quorum]
  BY DEF WriteDone, Wait
<1>5. (read_ack_received[p] >= Quorum) \in BOOLEAN
  BY Numbers DEF IInv, TypeOK
<1>6. locked' \in [Procs -> BOOLEAN] /\ \A q \in Procs : q # p => locked'[q] = locked[q]
  BY <1>4, <1>5 DEF IInv, TypeOK
<1>7. read_ack_received' \in [Procs -> Nat] /\ write_ack_received' \in [Procs -> Nat]
      /\ UNCHANGED <<delta, result, r, l, v, w, value_received, acceptVal>>
  BY DEF WriteDone, vectors, IInv, TypeOK
<1>8. pc'[p] = "read" /\ pc' = [pc EXCEPT ![p] = pc'[p]]
  BY <1>4 DEF IInv, TypeOK
<1> HIDE DEF M
<1>9. QED BY <1>2, <1>3, <1>4, <1>6, <1>7, <1>8, WithinRoundInv

LEMMA SecondWriteInv ==
  ASSUME IInv, NEW p \in Procs, SecondWrite(p)
  PROVE  IInv'
<1> DEFINE M == SendWrite(p, w[p], l[p], r[p], TRUE)
<1>1. r[p] \in Rounds
  BY InRound DEF SecondWrite, ReadDone
<1>2. w[p] \subseteq Started /\ w[p] \in SUBSET Procs /\ l[p] \in Nat
  BY DEF IInv, OriginInv, TypeOK
<1>3. M \subseteq Messages /\ \A m \in M : m.type = "write" /\ m.vec \subseteq Started
  BY <1>1, <1>2 DEF SendWrite, Delivered, Messages, Others
<1>4. msgs' = msgs \cup M /\ links' = links
  BY DEF SecondWrite, Send
<1>5. /\ pc[p] = "read" /\ pc' = [pc EXCEPT ![p] = "second_write"]
      /\ locked' = [locked EXCEPT ![p] = Acknowledged(p)]
      /\ IsMaster(p)
  BY DEF SecondWrite, ReadDone, Wait
<1>6. Acknowledged(p) \in BOOLEAN
  BY Numbers DEF IInv, TypeOK, Acknowledged
<1>7. locked' \in [Procs -> BOOLEAN] /\ \A q \in Procs : q # p => locked'[q] = locked[q]
  BY <1>5, <1>6 DEF IInv, TypeOK
<1>8. read_ack_received' \in [Procs -> Nat] /\ write_ack_received' \in [Procs -> Nat]
      /\ UNCHANGED <<delta, result, r, l, v, w, value_received, acceptVal>>
  BY DEF SecondWrite, ReadDone, vectors, IInv, TypeOK
<1>9. pc'[p] = "second_write" /\ pc' = [pc EXCEPT ![p] = pc'[p]]
  BY <1>5 DEF IInv, TypeOK
<1> HIDE DEF M
<1>10. QED BY <1>3, <1>4, <1>5, <1>7, <1>8, <1>9, WithinRoundInv

(* A master stays one while it reads more.                                 *)
LEMMA ScaledMonotone ==
  ASSUME NEW a \in Nat, NEW b \in Nat, a <= b
  PROVE  a * Scale \in Nat /\ b * Scale \in Nat /\ a * Scale <= b * Scale
<1>1. PICK d \in Nat : b = a + d
  <2>1. b - a \in Nat /\ b = a + (b - a)
    OBVIOUS
  <2>2. QED BY <2>1
<1>2. b * Scale = a * Scale + d * Scale
  BY <1>1, Labels
<1>3. d * Scale \in Nat /\ a * Scale \in Nat
  BY Labels
<1>4. QED BY <1>2, <1>3

LEMMA MasterStays ==
  ASSUME TypeOK, NEW p \in Procs, IsMaster(p), w[p] \subseteq w'[p], w'[p] \subseteq Procs, l'[p] = l[p]
  PROVE  IsMaster(p)'
<1> DEFINE c == Cardinality(w[p])
           d == Cardinality(w'[p])
<1>1. c \in Nat /\ d \in Nat /\ c <= d
  BY ProcSets, FS_Subset
<1>2. c * Scale > l[p] /\ l[p] \in Nat
  BY DEF IsMaster, TypeOK
<1> HIDE DEF c, d
<1>3. d * Scale > l[p]
  BY <1>1, <1>2, ScaledMonotone
<1>4. QED BY <1>3 DEF IsMaster, d

(* A handler of p consumes m, answers with M, and reads or stores vectors. *)
LEMMA HandlerInv ==
  ASSUME IInv, NEW m \in msgs, NEW M \in SUBSET Messages,
         msgs' = (msgs \ {m}) \cup M, links' = links,
         \A a \in M : /\ a.type \in {"write_ack", "read_ack"}
                      /\ \A e \in a.recVal : e[1] \subseteq Started,
         UNCHANGED <<mainVars, v, value_received>>,
         w' \in [Procs -> SUBSET Started], \A q \in Procs : w[q] \subseteq w'[q],
         read_ack_received' \in [Procs -> Nat], write_ack_received' \in [Procs -> Nat],
         acceptVal' \in [Procs -> [Rounds -> SUBSET Entries]],
         \A q \in Procs : \A d \in Rounds : \A e \in acceptVal'[q][d] : e[1] \subseteq Started
  PROVE  IInv'
<1> USE DEF IInv, mainVars
<1>1. Started' = Started /\ Started \subseteq Procs
  BY DEF Started, TypeOK
<1>2. TypeOK'
  BY <1>1 DEF TypeOK
<1>3. PhaseInv'
  BY DEF PhaseInv, TypeOK
<1>4. ValuesInv'
  BY <1>1 DEF ValuesInv, TypeOK
<1>5. OriginInv'
  BY <1>1 DEF OriginInv
<1>6. LabelInv'
  BY <1>1, MasterStays DEF LabelInv, TypeOK
<1>7. QED BY <1>2, <1>3, <1>4, <1>5, <1>6

LEMMA ReceiveReadInv ==
  ASSUME IInv, NEW p \in Procs, NEW m \in msgs, m.to = p, ReceiveRead(p, m)
  PROVE  IInv'
<1> DEFINE a == [type |-> "read_ack", round |-> m.round, from |-> p, to |-> m.from,
                 recVal |-> acceptVal[p][m.round]]
           M == Delivered({a})
<1>1. m.type = "read" /\ m.round \in Rounds /\ m.from \in Procs
  BY DEF ReceiveRead, IInv, TypeOK, Messages
<1>2. acceptVal[p][m.round] \in SUBSET Entries
  BY <1>1 DEF IInv, TypeOK
<1>3. M \subseteq {a}
  BY DEF Delivered
<1>4. a \in Messages
  BY <1>1, <1>2 DEF Messages
<1>5. \A e \in a.recVal : e[1] \subseteq Started
  BY <1>1 DEF IInv, OriginInv
<1>6. msgs' = (msgs \ {m}) \cup M /\ links' = links
      /\ UNCHANGED <<mainVars, v, w, value_received, read_ack_received, write_ack_received, acceptVal>>
  BY DEF ReceiveRead, Handled, vectors, counters
<1>7. w' \in [Procs -> SUBSET Started]
  BY <1>6 DEF IInv, TypeOK, OriginInv
<1>8. \A x \in M : x.type \in {"write_ack", "read_ack"} /\ \A e \in x.recVal : e[1] \subseteq Started
  BY <1>3, <1>5
<1>9. M \in SUBSET Messages
  BY <1>3, <1>4
<1> HIDE DEF M
<1>10. QED BY <1>6, <1>7, <1>8, <1>9, HandlerInv DEF IInv, TypeOK, OriginInv

LEMMA ReceiveWriteInv ==
  ASSUME IInv, NEW p \in Procs, NEW m \in msgs, m.to = p, ReceiveWrite(p, m)
  PROVE  IInv'
<1> DEFINE R == acceptVal[p][m.round] \cup {<<m.vec, m.label>>}
           a == [type |-> "write_ack", round |-> m.round, from |-> p, to |-> m.from,
                 recVal |-> R, second |-> m.second]
           M == Delivered({a})
<1>1. /\ m.type = "write" /\ m.round \in Rounds /\ m.from \in Procs /\ m.second \in BOOLEAN
      /\ m.vec \in SUBSET Procs /\ m.label \in Nat /\ m.vec \subseteq Started
  BY DEF ReceiveWrite, IInv, TypeOK, Messages, OriginInv
<1>2. acceptVal[p][m.round] \in SUBSET Entries
      /\ \A e \in acceptVal[p][m.round] : e[1] \subseteq Started
  BY <1>1 DEF IInv, TypeOK, OriginInv
<1>3. <<m.vec, m.label>> \in Entries
  BY <1>1 DEF Entries
<1>4. R \in SUBSET Entries /\ \A e \in R : e[1] \subseteq Started
  BY <1>1, <1>2, <1>3
<1> HIDE DEF R
<1>5. acceptVal' = [acceptVal EXCEPT ![p][m.round] = R]
  BY DEF ReceiveWrite, R
<1>6. acceptVal'[p][m.round] = R
  BY <1>1, <1>5 DEF IInv, TypeOK
<1>7. msgs' = (msgs \ {m}) \cup M /\ links' = links
      /\ UNCHANGED <<mainVars, v, w, value_received, read_ack_received, write_ack_received>>
  BY <1>6 DEF ReceiveWrite, Handled, vectors, counters
<1>8. a \in Messages
  BY <1>1, <1>4 DEF Messages
<1>9. M \subseteq {a}
  BY DEF Delivered
<1>10. a.type = "write_ack" /\ \A e \in a.recVal : e[1] \subseteq Started
  BY <1>4
<1>11. M \in SUBSET Messages
       /\ \A x \in M : x.type \in {"write_ack", "read_ack"} /\ \A e \in x.recVal : e[1] \subseteq Started
  BY <1>8, <1>9, <1>10
<1>12. w' \in [Procs -> SUBSET Started]
  BY <1>7 DEF IInv, TypeOK, OriginInv
<1>13. acceptVal' \in [Procs -> [Rounds -> SUBSET Entries]]
  BY <1>1, <1>4, <1>5 DEF IInv, TypeOK
<1>14. \A q \in Procs : \A d \in Rounds : \A e \in acceptVal'[q][d] : e[1] \subseteq Started
  <2> TAKE q \in Procs
  <2> TAKE d \in Rounds
  <2>1. acceptVal'[q][d] = R \/ acceptVal'[q][d] = acceptVal[q][d]
    BY <1>1, <1>5 DEF IInv, TypeOK
  <2>2. QED BY <2>1, <1>4 DEF IInv, OriginInv
<1> HIDE DEF M
<1>15. QED BY <1>7, <1>11, <1>12, <1>13, <1>14, HandlerInv DEF IInv, TypeOK

(* What p takes from an answer are values of started processes.            *)
LEMMA LabelledStarted ==
  ASSUME IInv, NEW p \in Procs, NEW m \in msgs, m.type \in {"write_ack", "read_ack"}
  PROVE  WithLabel(m.recVal, l[p]) \subseteq Started
BY DEF WithLabel, IInv, OriginInv

(* A handler of an answer, that joins W to what p has read and counts it.  *)
LEMMA AnswerInv ==
  ASSUME IInv, NEW p \in Procs, NEW m \in msgs, NEW W \in SUBSET Started,
         Handled(m, {}), w' = w \/ w' = [w EXCEPT ![p] = Join(@, W)],
         read_ack_received' \in [Procs -> Nat], write_ack_received' \in [Procs -> Nat],
         UNCHANGED <<mainVars, v, value_received, acceptVal>>
  PROVE  IInv'
<1> DEFINE M == {}
<1>1. msgs' = (msgs \ {m}) \cup M /\ links' = links
  BY DEF Handled, Delivered
<1>2. w' \in [Procs -> SUBSET Started] /\ \A q \in Procs : w[q] \subseteq w'[q]
  <2>1. w \in [Procs -> SUBSET Started]
    BY DEF IInv, TypeOK, OriginInv
  <2>2. CASE w' = w
    BY <2>1, <2>2
  <2>3. CASE w' = [w EXCEPT ![p] = Join(@, W)]
    BY <2>1, <2>3
  <2>4. QED BY <2>2, <2>3
<1>3. M \in SUBSET Messages
  OBVIOUS
<1>4. \A a \in M : /\ a.type \in {"write_ack", "read_ack"}
                   /\ \A e \in a.recVal : e[1] \subseteq Started
  OBVIOUS
<1>5. QED BY <1>1, <1>2, <1>3, <1>4, HandlerInv DEF IInv, TypeOK, OriginInv

LEMMA ReceiveWriteAckInv ==
  ASSUME IInv, NEW p \in Procs, NEW m \in msgs, m.to = p, ReceiveWriteAck(p, m)
  PROVE  IInv'
<1> DEFINE W == WithLabel(m.recVal, l[p])
<1>1. W \in SUBSET Started
  BY LabelledStarted DEF ReceiveWriteAck
<1>2. w' = w \/ w' = [w EXCEPT ![p] = Join(@, W)]
  BY DEF ReceiveWriteAck
<1>3. write_ack_received' \in [Procs -> Nat] /\ read_ack_received' \in [Procs -> Nat]
  <2>1. write_ack_received \in [Procs -> Nat] /\ read_ack_received \in [Procs -> Nat]
    BY DEF IInv, TypeOK
  <2>2. QED BY <2>1 DEF ReceiveWriteAck
<1>4. Handled(m, {}) /\ UNCHANGED <<mainVars, v, value_received, acceptVal>>
  BY DEF ReceiveWriteAck
<1> HIDE DEF W
<1>5. QED BY <1>1, <1>2, <1>3, <1>4, AnswerInv

LEMMA ReceiveReadAckInv ==
  ASSUME IInv, NEW p \in Procs, NEW m \in msgs, m.to = p, ReceiveReadAck(p, m)
  PROVE  IInv'
<1> DEFINE W == WithLabel(m.recVal, l[p])
<1>1. W \in SUBSET Started
  BY LabelledStarted DEF ReceiveReadAck
<1>2. w' = w \/ w' = [w EXCEPT ![p] = Join(@, W)]
  BY DEF ReceiveReadAck
<1>3. write_ack_received' \in [Procs -> Nat] /\ read_ack_received' \in [Procs -> Nat]
  BY DEF ReceiveReadAck, IInv, TypeOK
<1>4. Handled(m, {}) /\ UNCHANGED <<mainVars, v, value_received, acceptVal>>
  BY DEF ReceiveReadAck
<1> HIDE DEF W
<1>5. QED BY <1>1, <1>2, <1>3, <1>4, AnswerInv

(* A value counts only while p waits for values, and p does not have it.   *)
LEMMA ReceiveValueInv ==
  ASSUME IInv, NEW p \in Procs, NEW m \in msgs, m.to = p, ~ locked[p], ReceiveValue(p, m)
  PROVE  IInv'
<1> USE DEF IInv
<1>1. m.type = "value" /\ m.from \in Started /\ m.vec = {m.from}
  BY DEF ReceiveValue, ValuesInv
<1>2. msgs' = msgs \ {m} /\ links' = links
  BY DEF ReceiveValue, Handled, Delivered
<1>3. UNCHANGED <<mainVars, w, read_ack_received, write_ack_received, acceptVal>>
  BY DEF ReceiveValue
<1>4. pc[p] # "idle"
  BY DEF PhaseInv
<1>5. CASE ~ TakesValues(p)
  <2>1. UNCHANGED <<v, value_received>>
    BY <1>5 DEF ReceiveValue
  <2>2. Started' = Started
    BY <1>3 DEF Started, mainVars
  <2>3. TypeOK'
    BY <2>1, <1>2, <1>3 DEF TypeOK, mainVars
  <2>4. PhaseInv' /\ ValuesInv' /\ OriginInv'
    BY <2>1, <2>2, <1>2, <1>3 DEF PhaseInv, ValuesInv, OriginInv, mainVars
  <2>5. LabelInv'
    BY <1>3 DEF LabelInv, IsMaster, mainVars
  <2>6. QED BY <2>3, <2>4, <2>5
<1>6. CASE TakesValues(p)
  <2>1. /\ v' = [v EXCEPT ![p] = @ \cup {m.from}]
        /\ value_received' = [value_received EXCEPT ![p] = @ + 1]
    BY <1>6, <1>1 DEF ReceiveValue
  <2>2. value_received[p] < Quorum /\ value_received[p] \in Nat
    BY <1>6, Numbers DEF TakesValues, TypeOK
  <2>3. pc[p] = "values" /\ r[p] = 0
    <3>1. r[p] \in Nat /\ ~ (r[p] > 0)
      BY <2>2, Numbers DEF PhaseInv, TypeOK
    <3>2. QED BY <3>1, <1>4 DEF PhaseInv
  <2>4. Started' = Started /\ Started \subseteq Procs
    BY <1>3 DEF Started, mainVars
  <2>5. m.from \notin v[p]
    BY <1>1, <2>3 DEF ValuesInv
  <2>6. TypeOK'
    <3>1. value_received' \in [Procs -> 0..Quorum]
      BY <2>1, <2>2, Numbers DEF TypeOK
    <3>2. v' \in [Procs -> SUBSET Procs]
      BY <2>1, <2>4, <1>1 DEF TypeOK
    <3>3. QED BY <3>1, <3>2, <1>2, <1>3 DEF TypeOK, mainVars
  <2>7. PhaseInv'
    BY <2>1, <2>3, <1>3 DEF PhaseInv, TypeOK, mainVars
  <2>8. ValuesInv'
    <3>1. \A a \in msgs' : a.type = "value" =>
            /\ a.vec = {a.from}
            /\ a.from \in Started'
            /\ pc'[a.to] = "values" => a.from \notin v'[a.to]
      <4> TAKE a \in msgs'
      <4> HAVE a.type = "value"
      <4>1. a \in msgs /\ a # m /\ a.to \in Procs /\ a.vec = {a.from} /\ a.from \in Started
        BY <1>2 DEF TypeOK, Messages, ValuesInv
      <4>2. a.to = p => a.from # m.from
        <5>1. SUFFICES ASSUME a.to = p, a.from = m.from PROVE a = m
          BY <4>1
        <5>2. a \in [type : {"value"}, round : {0}, from : Procs, to : Procs, vec : SUBSET Procs]
              /\ m \in [type : {"value"}, round : {0}, from : Procs, to : Procs, vec : SUBSET Procs]
          BY <4>1, <1>1 DEF TypeOK, Messages
        <5>3. QED BY <5>1, <5>2, <4>1, <1>1
      <4>3. pc[a.to] = "values" => a.from \notin v[a.to]
        BY <4>1 DEF ValuesInv
      <4>4. a.to # p => v'[a.to] = v[a.to]
        BY <4>1, <2>1 DEF TypeOK
      <4>5. v'[p] = v[p] \cup {m.from}
        BY <2>1 DEF TypeOK
      <4>6. QED BY <4>1, <4>2, <4>3, <4>4, <4>5, <2>4, <1>3 DEF mainVars
    <3>2. \A q \in Procs : pc'[q] = "values" => Cardinality(v'[q]) = value_received'[q] + 1
      <4> TAKE q \in Procs
      <4>1. CASE q = p
        <5>1. IsFiniteSet(v[p])
          BY ProcSets DEF TypeOK
        <5>2. Cardinality(v[p] \cup {m.from}) = Cardinality(v[p]) + 1
          BY <5>1, <2>5, FS_AddElement
        <5>3. v'[q] = v[p] \cup {m.from} /\ value_received'[q] = value_received[p] + 1
          BY <4>1, <2>1 DEF TypeOK
        <5>4. Cardinality(v[p]) = value_received[p] + 1
          BY <2>3 DEF ValuesInv
        <5>5. QED BY <5>2, <5>3, <5>4
      <4>2. CASE q # p
        BY <4>2, <2>1, <1>3 DEF ValuesInv, TypeOK, mainVars
      <4>3. QED BY <4>1, <4>2
    <3>3. \A q \in Procs : r'[q] > 0 => Cardinality(v'[q]) > N - F
      BY <2>1, <2>3, <1>3 DEF ValuesInv, TypeOK, mainVars
    <3>4. QED BY <3>1, <3>2, <3>3 DEF ValuesInv
  <2>9. OriginInv'
    BY <2>1, <2>4, <1>1, <1>2, <1>3 DEF OriginInv, TypeOK, mainVars
  <2>10. LabelInv'
    BY <1>3 DEF LabelInv, IsMaster, mainVars
  <2>11. QED BY <2>6, <2>7, <2>8, <2>9, <2>10
<1>7. QED BY <1>5, <1>6

LEMMA NextIInv == IInv /\ [Next]_vars => IInv'
<1> SUFFICES ASSUME IInv, [Next]_vars PROVE IInv'
  OBVIOUS
<1>1. ASSUME NEW m \in msgs, ~ locked[m.to], OnMessageReceived(m.to, m) PROVE IInv'
  <2>1. m.to \in Procs
    BY DEF IInv, TypeOK, Messages
  <2>2. CASE ReceiveValue(m.to, m)
    BY <1>1, <2>1, <2>2, ReceiveValueInv
  <2>3. CASE ReceiveWrite(m.to, m)
    BY <2>1, <2>3, ReceiveWriteInv
  <2>4. CASE ReceiveRead(m.to, m)
    BY <2>1, <2>4, ReceiveReadInv
  <2>5. CASE ReceiveWriteAck(m.to, m)
    BY <2>1, <2>5, ReceiveWriteAckInv
  <2>6. CASE ReceiveReadAck(m.to, m)
    BY <2>1, <2>6, ReceiveReadAckInv
  <2>7. QED BY <1>1, <2>2, <2>3, <2>4, <2>5, <2>6 DEF OnMessageReceived
<1>2. ASSUME NEW p \in Procs, MainStep(p) PROVE IInv'
  BY <1>2, StartInv, ValuesReceivedInv, WriteDoneInv, SecondWriteInv, BecomeSlaveInv,
     BecomeMasterInv DEF MainStep
<1>3. CASE UNCHANGED vars
  <2>1. TypeOK' /\ Started' = Started
    BY <1>3 DEF vars, mainVars, vectors, counters, netVars, IInv, TypeOK, Started
  <2>2. PhaseInv' /\ ValuesInv' /\ OriginInv' /\ LabelInv'
    BY <1>3, <2>1 DEF vars, mainVars, vectors, counters, netVars, IInv, PhaseInv, ValuesInv,
                      OriginInv, LabelInv, IsMaster
  <2>3. QED BY <2>1, <2>2 DEF IInv
<1>4. QED BY <1>1, <1>2, <1>3 DEF Next

(* The inductive invariant holds, for any number of rounds and failures.   *)
THEOREM Invariance == Spec => []IInv
<1>1. QED BY InitIInv, NextIInv, PTL DEF Spec

(* No process counts more values than it waits for, no message is of a     *)
(* round the classifier does not have, and labels never get negative.      *)
THEOREM TypeCorrect == Spec => []TypeOK
<1>1. IInv => TypeOK
  BY DEF IInv
<1>2. QED BY <1>1, Invariance, PTL

(* A result has the values of more than n - f started processes, whatever  *)
(* messages are lost and however the classifiers decide.                   *)
THEOREM LargeResults == Spec => []ResultsLarge
<1>1. IInv => ResultsLarge
  <2> SUFFICES ASSUME IInv, NEW p \in Returned
               PROVE  /\ result[p] \subseteq Started
                      /\ Cardinality(result[p]) > N - F
    BY DEF ResultsLarge
  <2>1. p \in Procs /\ pc[p] = "returned"
    BY DEF Returned
  <2>2. r[p] > 0 /\ result[p] = v[p]
    BY <2>1, Numbers DEF IInv, PhaseInv
  <2>3. QED BY <2>1, <2>2 DEF IInv, OriginInv, ValuesInv, Started
<1>2. QED BY <1>1, Invariance, PTL

-----------------------------------------------------------------------------
(* Labels.                                                                 *)

(* delta starts as F / 2 values and is even before every classification.   *)
LEMMA Deltas ==
  /\ DeltaAt(1) = F * 2^LogF
  /\ \A d \in 1..(LogF + 1) : DeltaAt(d) \in Nat
  /\ \A d \in Rounds : DeltaAt(d) = 2 * DeltaAt(d + 1)
<1>1. DeltaAt(1) = F * 2^LogF
  <2>1. LogF + 1 - 1 = LogF
    BY Numbers
  <2>2. QED BY <2>1 DEF DeltaAt
<1>2. ASSUME NEW d \in 1..(LogF + 1) PROVE DeltaAt(d) \in Nat
  <2>1. LogF + 1 - d \in 0..LogF
    BY Numbers
  <2> DEFINE P == 2^(LogF + 1 - d)
  <2>2. P \in Nat
    BY <2>1, PowerAssumption
  <2> HIDE DEF P
  <2>3. F * P \in Nat
    BY <2>2, Numbers
  <2>4. QED BY <2>3 DEF DeltaAt, P
<1>3. ASSUME NEW d \in Rounds PROVE DeltaAt(d) = 2 * DeltaAt(d + 1)
  <2>1. LogF - d \in 0..LogF /\ LogF + 1 - (d + 1) = LogF - d /\ LogF + 1 - d = (LogF - d) + 1
    BY Numbers DEF Rounds
  <2>2. 2^(LogF - d) \in Nat /\ 2^((LogF - d) + 1) = 2 * 2^(LogF - d)
    BY <2>1, PowerAssumption
  <2>3. DeltaAt(d) = F * 2^((LogF - d) + 1) /\ DeltaAt(d + 1) = F * 2^(LogF - d)
    BY <2>1 DEF DeltaAt
  <2> DEFINE P == 2^(LogF - d)
  <2>4. DeltaAt(d) = F * (2 * P) /\ DeltaAt(d + 1) = F * P /\ P \in Nat
    BY <2>2, <2>3
  <2> HIDE DEF P
  <2>5. QED BY <2>4, Numbers
<1>4. QED BY <1>1, <1>2, <1>3

(* The first label plus delta is n values.                                 *)
LEMMA WholeLabel == FirstLabel + F * 2^LogF = N * Scale
<1> DEFINE P == 2^LogF
<1>1. P \in Nat
  BY Powers
<1> HIDE DEF P
<1>2. (2 * N - F) * P + F * P = N * (2 * P)
  BY <1>1, Numbers
<1>3. QED BY <1>2 DEF FirstLabel, Scale, P

\* A step after which every process is in the round it was in.
Calm ==
  /\ UNCHANGED <<delta, r, l, result>>
  /\ \A q \in Procs :
       /\ v[q] \subseteq v'[q] /\ (r[q] > 0 => v'[q] = v[q])
       /\ pc'[q] = "returned" <=> pc[q] = "returned"
       /\ pc[q] = "returned" => w'[q] = w[q]
       /\ pc[q] # "idle" => pc'[q] # "idle"
       /\ pc[q] = "idle" /\ pc'[q] # "idle" => q \in v'[q]

\* p takes vec and label k into the next round, or out of the last one.
Turn(p, vec, k) ==
  /\ r' = [r EXCEPT ![p] = @ + 1]
  /\ v' = [v EXCEPT ![p] = vec]
  /\ l' = [l EXCEPT ![p] = k]
  /\ \/ /\ r[p] < LogF
        /\ pc' = [pc EXCEPT ![p] = "write"]
        /\ w' = [w EXCEPT ![p] = {}]
        /\ result' = result
     \/ /\ r[p] = LogF
        /\ pc' = [pc EXCEPT ![p] = "returned"]
        /\ w' = w
        /\ result' = [result EXCEPT ![p] = vec]

LEMMA NextRoundTurns ==
  ASSUME NEW p \in Procs, NEW vec, NEW k, NEW acks, NextRound(p, vec, k, acks)
  PROVE  Turn(p, vec, k)
BY DEF NextRound, Turn, Wait

(* A handler changes the vector of a process only in the exchange.         *)
LEMMA HandlersCalm ==
  ASSUME IInv, NEW p \in Procs, NEW m \in msgs, OnMessageReceived(p, m), ~ locked[p]
  PROVE  Calm
<1>1. UNCHANGED mainVars
  BY DEF OnMessageReceived, ReceiveValue, ReceiveWrite, ReceiveRead, ReceiveWriteAck, ReceiveReadAck
<1>2. \A q \in Procs : v[q] \subseteq v'[q] /\ (r[q] > 0 => v'[q] = v[q])
  <2>1. CASE ReceiveValue(p, m)
    <3>1. CASE TakesValues(p)
      <4>1. v' = [v EXCEPT ![p] = Join(@, m.vec)]
        BY <2>1, <3>1 DEF ReceiveValue
      <4>2. value_received[p] < Quorum /\ value_received[p] \in Nat
        BY <3>1, Numbers DEF TakesValues, IInv, TypeOK
      <4>3. ~ (r[p] > 0)
        BY <4>2, Numbers DEF IInv, PhaseInv
      <4>4. QED BY <4>1, <4>3 DEF IInv, TypeOK
    <3>2. CASE ~ TakesValues(p)
      BY <2>1, <3>2 DEF ReceiveValue
    <3>3. QED BY <3>1, <3>2
  <2>2. CASE ~ ReceiveValue(p, m)
    <3>1. v' = v
      BY <2>2 DEF OnMessageReceived, ReceiveWrite, ReceiveRead, ReceiveWriteAck, ReceiveReadAck, vectors
    <3>2. QED BY <3>1
  <2>3. QED BY <2>1, <2>2
<1>3. ASSUME NEW q \in Procs, pc[q] = "returned" PROVE w'[q] = w[q]
  <2>1. CASE ReceiveWriteAck(p, m)
    <3>1. w' = w \/ (pc[p] = "second_write" /\ w' = [w EXCEPT ![p] = Join(@, WithLabel(m.recVal, l[p]))])
      BY <2>1 DEF ReceiveWriteAck
    <3>2. QED BY <3>1, <1>3 DEF IInv, TypeOK
  <2>2. CASE ReceiveReadAck(p, m)
    <3>1. w' = w \/ (pc[p] = "read" /\ w' = [w EXCEPT ![p] = Join(@, WithLabel(m.recVal, l[p]))])
      BY <2>2 DEF ReceiveReadAck, Reading
    <3>2. QED BY <3>1, <1>3 DEF IInv, TypeOK
  <2>3. CASE ~ ReceiveWriteAck(p, m) /\ ~ ReceiveReadAck(p, m)
    BY <2>3 DEF OnMessageReceived, ReceiveValue, ReceiveWrite, ReceiveRead, vectors
  <2>4. QED BY <2>1, <2>2, <2>3
<1>4. QED BY <1>1, <1>2, <1>3 DEF Calm, mainVars

LEMMA CalmOrTurn ==
  ASSUME IInv, [Next]_vars
  PROVE  Calm \/ \E p \in Procs : ValuesReceived(p) \/ BecomeSlave(p) \/ BecomeMaster(p)
<1>1. ASSUME NEW m \in msgs, ~ locked[m.to], OnMessageReceived(m.to, m) PROVE Calm
  <2>1. m.to \in Procs
    BY DEF IInv, TypeOK, Messages
  <2>2. QED BY <1>1, <2>1, HandlersCalm
<1>2. ASSUME NEW p \in Procs, Start(p) PROVE Calm
  <2>1. pc[p] = "idle" /\ r[p] = 0 /\ pc' = [pc EXCEPT ![p] = "values"]
        /\ v' = [v EXCEPT ![p] = @ \cup {p}] /\ UNCHANGED <<delta, result, r, l, w>>
    BY <1>2 DEF Start, Wait, IInv, PhaseInv
  <2>2. QED BY <2>1 DEF Calm, IInv, TypeOK
<1>3. ASSUME NEW p \in Procs, WriteDone(p) \/ SecondWrite(p) PROVE Calm
  <2>1. /\ pc[p] \in {"write", "read"} /\ UNCHANGED <<delta, result, r, l, v, w>>
        /\ \/ pc' = [pc EXCEPT ![p] = "read"]
           \/ pc' = [pc EXCEPT ![p] = "second_write"]
    BY <1>3 DEF WriteDone, SecondWrite, ReadDone, Wait, vectors
  <2>2. QED BY <2>1 DEF Calm, IInv, TypeOK
<1>4. CASE UNCHANGED vars
  BY <1>4 DEF Calm, vars, mainVars, vectors
<1>5. QED BY <1>1, <1>2, <1>3, <1>4 DEF Next, MainStep

(* How a process comes into the next round: with the vector and label it   *)
(* has after the exchange, as slave with a lower label, or as master with  *)
(* what it has read and a higher label.                                    *)
LEMMA Turns ==
  ASSUME IInv, NEW p \in Procs
  PROVE  LET half == delta[p] \div 2
         IN  /\ ValuesReceived(p) => /\ r[p] = 0 /\ delta' = delta /\ Turn(p, v[p], l[p])
                                     /\ Cardinality(v[p]) > N - F /\ pc[p] = "values"
             /\ BecomeSlave(p) => /\ r[p] \in Rounds /\ delta' = [delta EXCEPT ![p] = half]
                                  /\ Turn(p, v[p], l[p] - half) /\ ~ IsMaster(p) /\ pc[p] = "read"
             /\ BecomeMaster(p) => /\ r[p] \in Rounds /\ delta' = [delta EXCEPT ![p] = half]
                                   /\ Turn(p, w[p], l[p] + half) /\ IsMaster(p) /\ pc[p] = "second_write"
<1>1. ASSUME ValuesReceived(p)
      PROVE  /\ r[p] = 0 /\ delta' = delta /\ Turn(p, v[p], l[p])
             /\ Cardinality(v[p]) > N - F /\ pc[p] = "values"
  <2>1. pc[p] = "values" /\ value_received[p] >= Quorum /\ delta' = delta
    BY <1>1 DEF ValuesReceived
  <2>2. Turn(p, v[p], l[p])
    BY <1>1, NextRoundTurns DEF ValuesReceived
  <2>3. r[p] = 0 /\ Cardinality(v[p]) = value_received[p] + 1 /\ value_received[p] \in Nat
    BY <2>1, Numbers DEF IInv, PhaseInv, ValuesInv, TypeOK
  <2>4. QED BY <2>1, <2>2, <2>3, Numbers
<1>2. ASSUME BecomeSlave(p)
      PROVE  /\ r[p] \in Rounds /\ delta' = [delta EXCEPT ![p] = delta[p] \div 2]
             /\ Turn(p, v[p], l[p] - delta[p] \div 2) /\ ~ IsMaster(p) /\ pc[p] = "read"
  <2>1. pc[p] = "read" /\ ~ IsMaster(p) /\ delta' = [delta EXCEPT ![p] = delta[p] \div 2]
    BY <1>2 DEF BecomeSlave, ReadDone, HalveDelta
  <2>2. Turn(p, v[p], l[p] - delta[p] \div 2)
    BY <1>2, NextRoundTurns DEF BecomeSlave
  <2>3. QED BY <2>1, <2>2, InRound
<1>3. ASSUME BecomeMaster(p)
      PROVE  /\ r[p] \in Rounds /\ delta' = [delta EXCEPT ![p] = delta[p] \div 2]
             /\ Turn(p, w[p], l[p] + delta[p] \div 2) /\ IsMaster(p) /\ pc[p] = "second_write"
  <2>1. pc[p] = "second_write" /\ delta' = [delta EXCEPT ![p] = delta[p] \div 2]
    BY <1>3 DEF BecomeMaster, HalveDelta
  <2>2. Turn(p, w[p], l[p] + delta[p] \div 2)
    BY <1>3, NextRoundTurns DEF BecomeMaster
  <2>3. QED BY <2>1, <2>2, InRound DEF IInv, LabelInv
<1>4. QED BY <1>1, <1>2, <1>3

LEMMA InitLevel == Init => LevelInv
<1> SUFFICES ASSUME Init PROVE LevelInv
  OBVIOUS
<1>1. \A p \in Procs : r[p] = 0 /\ delta[p] = F * 2^LogF /\ l[p] = (2 * N - F) * 2^LogF
  BY DEF Init
<1>2. LabelsInv
  BY <1>1, Deltas DEF LabelsInv, FirstLabel
<1>3. LabelsReached
  BY <1>1 DEF LabelsReached
<1>4. QED BY <1>2, <1>3 DEF LevelInv

LEMMA CalmLevel ==
  ASSUME LevelInv, Calm
  PROVE  LevelInv'
<1>1. LabelsInv'
  BY DEF LevelInv, LabelsInv, Calm
<1>2. LabelsReached'
  BY DEF LevelInv, LabelsReached, LabelIsReached, Calm
<1>3. QED BY <1>1, <1>2 DEF LevelInv

(* The exchange leaves every process with more than n - f values.          *)
LEMMA ValuesReceivedLevel ==
  ASSUME IInv, LevelInv, NEW p \in Procs, ValuesReceived(p)
  PROVE  LevelInv'
<1>1. /\ r[p] = 0 /\ delta' = delta /\ Turn(p, v[p], l[p]) /\ Cardinality(v[p]) > N - F
  BY Turns
<1>2. v' = v /\ l' = l /\ r' = [r EXCEPT ![p] = 1]
  BY <1>1 DEF Turn, IInv, TypeOK
<1>3. LabelsInv'
  BY <1>1, <1>2 DEF LevelInv, LabelsInv, IInv, TypeOK
<1>4. LabelIsReached(p)
  <2> DEFINE c == Cardinality(v[p])
             D == F * 2^LogF
  <2>1. c \in Nat /\ N - F \in Nat
    BY ProcSets, Numbers DEF IInv, TypeOK
  <2>2. delta[p] = D /\ l[p] = (N - F) * Scale + D
    BY <1>1, Deltas, Labels DEF LevelInv, LabelsInv, FirstLabel
  <2>3. N - F + 1 <= c
    BY <1>1, <2>1, Numbers
  <2>4. (N - F + 1) * Scale <= c * Scale /\ (N - F + 1) * Scale = (N - F) * Scale + Scale
    BY <2>1, <2>3, ScaledMonotone, Labels
  <2>5. D \in Nat /\ (N - F) * Scale \in Nat /\ c * Scale \in Nat /\ Scale \in Nat /\ Scale >= 1
    BY <2>1, Labels
  <2> DEFINE x == c * Scale
             y == (N - F) * Scale
             z == (N - F + 1) * Scale
  <2>6. z <= x /\ z = y + Scale /\ l[p] = y + D
    BY <2>2, <2>4
  <2> HIDE DEF c, D, x, y, z
  <2>7. x > l[p] - delta[p]
    BY <2>2, <2>5, <2>6 DEF x, y
  <2>8. QED BY <2>7 DEF LabelIsReached, x, c
<1>5. LabelsReached'
  <2> SUFFICES ASSUME NEW q \in Procs, r'[q] > 0 PROVE LabelIsReached(q)'
    BY DEF LabelsReached
  <2>1. LabelIsReached(q)
    BY <1>2, <1>4 DEF LevelInv, LabelsReached, IInv, TypeOK
  <2>2. QED BY <2>1, <1>1, <1>2 DEF LabelIsReached
<1>6. QED BY <1>3, <1>5 DEF LevelInv

(* A classification: what p reaches is half of delta below its label as    *)
(* slave, half of delta above it as master.                                *)
LEMMA ClassifiedLevel ==
  ASSUME IInv, LevelInv, NEW p \in Procs, BecomeSlave(p) \/ BecomeMaster(p)
  PROVE  LevelInv'
<1> DEFINE half == delta[p] \div 2
<1>1. r[p] \in Rounds /\ delta' = [delta EXCEPT ![p] = half]
  BY Turns
<1>2. PICK vec, k : /\ Turn(p, vec, k)
                    /\ \/ vec = v[p] /\ k = l[p] - half
                       \/ vec = w[p] /\ k = l[p] + half /\ IsMaster(p)
  BY Turns
<1>3. r[p] \in Nat /\ r[p] > 0 /\ r[p] + 1 > 1 /\ r[p] + 1 # 0
  BY <1>1, Numbers DEF Rounds
<1>4. half = DeltaAt(r[p] + 1) /\ half \in Nat /\ delta[p] = half + half
  <2>1. delta[p] = DeltaAt(r[p])
    BY <1>3 DEF LevelInv, LabelsInv
  <2>2. DeltaAt(r[p]) = 2 * DeltaAt(r[p] + 1)
    BY <1>1, Deltas
  <2>3. DeltaAt(r[p] + 1) \in Nat
    BY <1>1, Deltas, Numbers DEF Rounds
  <2> HIDE DEF half
  <2>4. \A x \in Nat : (2 * x) \div 2 = x /\ 2 * x = x + x
    OBVIOUS
  <2>5. QED BY <2>1, <2>2, <2>3, <2>4 DEF half
<1> HIDE DEF half
<1>5. /\ r'[p] = r[p] + 1 /\ v'[p] = vec /\ l'[p] = k /\ delta'[p] = half
      /\ \A q \in Procs : q # p => /\ r'[q] = r[q] /\ v'[q] = v[q] /\ l'[q] = l[q]
                                   /\ delta'[q] = delta[q]
  BY <1>1, <1>2 DEF Turn, IInv, TypeOK
<1>6. LabelsInv'
  <2> SUFFICES ASSUME NEW q \in Procs
               PROVE  /\ delta'[q] = DeltaAt(IF r'[q] = 0 THEN 1 ELSE r'[q])
                      /\ r'[q] <= 1 => l'[q] = FirstLabel
    BY DEF LabelsInv, DeltaAt, FirstLabel
  <2>1. CASE q = p
    BY <2>1, <1>3, <1>4, <1>5
  <2>2. CASE q # p
    BY <2>2, <1>5 DEF LevelInv, LabelsInv
  <2>3. QED BY <2>1, <2>2
<1>7. Cardinality(vec) * Scale > k - half
  <2>1. l[p] \in Nat
    BY DEF IInv, TypeOK
  <2>2. CASE vec = v[p] /\ k = l[p] - half
    <3>1. Cardinality(v[p]) * Scale > l[p] - delta[p]
      BY <1>3 DEF LevelInv, LabelsReached, LabelIsReached
    <3>2. l[p] - delta[p] = k - half
      BY <2>1, <2>2, <1>4
    <3>3. QED BY <2>2, <3>1, <3>2
  <2>3. CASE vec = w[p] /\ k = l[p] + half /\ IsMaster(p)
    <3>1. Cardinality(w[p]) * Scale > l[p]
      BY <2>3 DEF IsMaster
    <3>2. k - half = l[p]
      BY <2>1, <2>3, <1>4
    <3>3. QED BY <2>3, <3>1, <3>2
  <2>4. QED BY <2>2, <2>3, <1>2
<1>8. LabelsReached'
  <2> SUFFICES ASSUME NEW q \in Procs, r'[q] > 0
               PROVE  Cardinality(v'[q]) * Scale > l'[q] - delta'[q]
    BY DEF LabelsReached, LabelIsReached
  <2>1. CASE q = p
    BY <2>1, <1>5, <1>7
  <2>2. CASE q # p
    BY <2>2, <1>5 DEF LevelInv, LabelsReached, LabelIsReached
  <2>3. QED BY <2>1, <2>2
<1>9. QED BY <1>6, <1>8 DEF LevelInv

LEMMA NextLevel == IInv /\ LevelInv /\ [Next]_vars => LevelInv'
BY CalmOrTurn, CalmLevel, ValuesReceivedLevel, ClassifiedLevel

(* In every round, whatever the number of rounds, each process has more    *)
(* values than its label less delta: the lower bound the algorithm needs   *)
(* does not depend on what the processes know of each other.               *)
THEOREM LevelInvariance == Spec => []LevelInv
BY InitLevel, NextLevel, Invariance, PTL DEF Spec

-----------------------------------------------------------------------------
(* Whom a process waits for.                                               *)

\* What a step of another process leaves alone.
Undisturbed(q) ==
  /\ pc'[q] = pc[q] /\ locked'[q] = locked[q] /\ r'[q] = r[q] /\ v'[q] = v[q]
  /\ write_ack_received'[q] = write_ack_received[q]
  /\ read_ack_received'[q] = read_ack_received[q]

(* Before a wait, the main thread keeps cv_m only if the condition holds.  *)
LEMMA WaitLocks ==
  ASSUME IInv, NEW p \in Procs, NEW place, NEW condition \in BOOLEAN, Wait(p, place, condition)
  PROVE  /\ pc'[p] = place /\ (locked'[p] => condition)
         /\ \A q \in Procs \ {p} : pc'[q] = pc[q] /\ locked'[q] = locked[q]
BY DEF Wait, IInv, TypeOK

(* Into the next round, with the acknowledgements that count for it, and   *)
(* with a write to everybody; or out of start.                             *)
LEMMA NextRoundIs ==
  ASSUME IInv, NEW p \in Procs, NEW vec, NEW k, NEW acks \in Nat, NextRound(p, vec, k, acks)
  PROVE  /\ r'[p] = r[p] + 1 /\ write_ack_received'[p] = acks
         /\ \/ /\ pc'[p] = "write" /\ (locked'[p] => acks >= Quorum)
               /\ msgs' = msgs \cup SendWrite(p, vec, k, r[p] + 1, FALSE)
            \/ pc'[p] = "returned" /\ ~ locked'[p] /\ msgs' = msgs
         /\ links' = links
         /\ \A q \in Procs \ {p} :
              /\ pc'[q] = pc[q] /\ locked'[q] = locked[q] /\ r'[q] = r[q] /\ v'[q] = v[q]
              /\ write_ack_received'[q] = write_ack_received[q]
<1>1. /\ r'[p] = r[p] + 1 /\ write_ack_received'[p] = acks
      /\ \A q \in Procs \ {p} : /\ r'[q] = r[q] /\ v'[q] = v[q]
                                /\ write_ack_received'[q] = write_ack_received[q]
  BY DEF NextRound, IInv, TypeOK
<1>2. (acks >= Quorum) \in BOOLEAN
  BY Numbers
<1>3. CASE Wait(p, "write", acks >= Quorum) /\ Send(SendWrite(p, vec, k, r[p] + 1, FALSE))
  <2>1. /\ pc'[p] = "write" /\ (locked'[p] => acks >= Quorum)
        /\ \A q \in Procs \ {p} : pc'[q] = pc[q] /\ locked'[q] = locked[q]
    BY <1>2, <1>3, WaitLocks
  <2>2. msgs' = msgs \cup SendWrite(p, vec, k, r[p] + 1, FALSE) /\ links' = links
    BY <1>3 DEF Send
  <2>3. QED BY <1>1, <2>1, <2>2
<1>4. CASE Wait(p, "returned", FALSE) /\ UNCHANGED netVars
  <2>1. /\ pc'[p] = "returned" /\ ~ locked'[p]
        /\ \A q \in Procs \ {p} : pc'[q] = pc[q] /\ locked'[q] = locked[q]
    BY <1>4, WaitLocks
  <2>2. msgs' = msgs /\ links' = links
    BY <1>4 DEF netVars
  <2>3. QED BY <1>1, <2>1, <2>2
<1>5. QED BY <1>3, <1>4 DEF NextRound

(* The steps of the main thread: where they lead, and whom they ask.       *)
LEMMA MainStepIs ==
  ASSUME IInv, NEW p \in Procs, MainStep(p)
  PROVE  /\ links' = links /\ msgs \subseteq msgs' /\ value_received' = value_received
         /\ \A q \in Procs \ {p} : Undisturbed(q)
         /\ locked'[p] => ~ Waits(p)'
         /\ \/ /\ pc[p] = "idle" /\ pc'[p] = "values" /\ p \in v'[p]
               /\ SendValue(p, v'[p]) \subseteq msgs'
            \/ /\ pc[p] # "idle" /\ pc'[p] \in {"write", "second_write"}
               /\ ~ TakesValues(p)
               /\ \E vec, k, s : SendWrite(p, vec, k, r'[p], s) \subseteq msgs'
            \/ /\ pc[p] # "idle" /\ pc'[p] = "read" /\ ~ TakesValues(p)
               /\ SendRead(p, r'[p]) \subseteq msgs'
            \/ pc[p] # "idle" /\ pc'[p] = "returned" /\ ~ TakesValues(p)
<1>1. CASE Start(p)
  <2>1. /\ Wait(p, "values", value_received[p] >= Quorum) /\ pc[p] = "idle"
        /\ v' = [v EXCEPT ![p] = v[p] \cup {p}]
        /\ msgs' = msgs \cup SendValue(p, v[p] \cup {p}) /\ links' = links
        /\ UNCHANGED <<r, value_received, read_ack_received, write_ack_received>>
    BY <1>1 DEF Start, Send, counters
  <2>2. (value_received[p] >= Quorum) \in BOOLEAN
    BY Numbers DEF IInv, TypeOK
  <2>3. /\ pc'[p] = "values" /\ (locked'[p] => value_received[p] >= Quorum)
        /\ \A q \in Procs \ {p} : pc'[q] = pc[q] /\ locked'[q] = locked[q]
    BY <2>1, <2>2, WaitLocks
  <2>4. v'[p] = v[p] \cup {p} /\ \A q \in Procs \ {p} : v'[q] = v[q]
    BY <2>1 DEF IInv, TypeOK
  <2>5. locked'[p] => ~ Waits(p)'
    BY <2>1, <2>3, Numbers DEF Waits, IInv, TypeOK, Quorum, N
  <2>6. QED BY <2>1, <2>3, <2>4, <2>5 DEF Undisturbed
<1>2. ASSUME NEW vec, NEW k, NEW acks \in Nat, NextRound(p, vec, k, acks),
             pc[p] # "idle", ~ TakesValues(p), UNCHANGED value_received,
             \A q \in Procs \ {p} : read_ack_received'[q] = read_ack_received[q]
      PROVE  /\ links' = links /\ msgs \subseteq msgs'
             /\ \A q \in Procs \ {p} : Undisturbed(q)
             /\ locked'[p] => ~ Waits(p)'
             /\ \/ /\ pc'[p] \in {"write", "second_write"}
                   /\ \E x, y, s : SendWrite(p, x, y, r'[p], s) \subseteq msgs'
                \/ pc'[p] = "returned"
  <2>1. /\ r'[p] = r[p] + 1 /\ write_ack_received'[p] = acks
        /\ \/ /\ pc'[p] = "write" /\ (locked'[p] => acks >= Quorum)
              /\ msgs' = msgs \cup SendWrite(p, vec, k, r[p] + 1, FALSE)
           \/ pc'[p] = "returned" /\ ~ locked'[p] /\ msgs' = msgs
        /\ links' = links
        /\ \A q \in Procs \ {p} :
             /\ pc'[q] = pc[q] /\ locked'[q] = locked[q] /\ r'[q] = r[q] /\ v'[q] = v[q]
             /\ write_ack_received'[q] = write_ack_received[q]
    BY <1>2, NextRoundIs
  <2>2. locked'[p] => ~ Waits(p)'
    BY <2>1 DEF Waits, Acknowledged, Quorum, N
  <2>3. \A q \in Procs \ {p} : Undisturbed(q)
    BY <1>2, <2>1 DEF Undisturbed
  <2>4. msgs' = msgs \cup SendWrite(p, vec, k, r[p] + 1, FALSE)
          => SendWrite(p, vec, k, r'[p], FALSE) \subseteq msgs'
    BY <2>1
  <2>5. QED BY <2>1, <2>2, <2>3, <2>4
<1>3. pc[p] \notin {"idle", "values"} => ~ TakesValues(p)
  BY Numbers DEF TakesValues, IInv, PhaseInv, TypeOK
<1>4. write_ack_received[p] \in Nat
  BY DEF IInv, TypeOK
<1>5. CASE ValuesReceived(p)
  <2>1. NextRound(p, v[p], l[p], write_ack_received[p]) /\ pc[p] = "values"
        /\ value_received[p] >= Quorum /\ UNCHANGED <<value_received, read_ack_received>>
    BY <1>5 DEF ValuesReceived
  <2>2. ~ TakesValues(p)
    BY <2>1, Numbers DEF TakesValues, IInv, TypeOK
  <2>3. QED BY <1>2, <1>4, <2>1, <2>2
<1>6. CASE BecomeSlave(p)
  <2>1. /\ NextRound(p, v[p], l[p] - delta[p] \div 2, write_ack_received[p]) /\ pc[p] = "read"
        /\ UNCHANGED value_received
        /\ \A q \in Procs \ {p} : read_ack_received'[q] = read_ack_received[q]
    BY <1>6 DEF BecomeSlave, ReadDone, IInv, TypeOK
  <2>2. QED BY <1>2, <1>3, <1>4, <2>1
<1>7. CASE BecomeMaster(p)
  <2>1. /\ NextRound(p, w[p], l[p] + delta[p] \div 2, 0) /\ pc[p] = "second_write"
        /\ UNCHANGED <<value_received, read_ack_received>>
    BY <1>7 DEF BecomeMaster
  <2>2. QED BY <1>2, <1>3, <2>1
<1>8. CASE WriteDone(p)
  <2>1. /\ Wait(p, "read", read_ack_received[p] >= Quorum) /\ pc[p] = "write"
        /\ msgs' = msgs \cup SendRead(p, r[p]) /\ links' = links
        /\ UNCHANGED <<r, v, value_received, read_ack_received>>
        /\ \A q \in Procs \ {p} : write_ack_received'[q] = write_ack_received[q]
    BY <1>8 DEF WriteDone, Send, vectors, IInv, TypeOK
  <2>2. (read_ack_received[p] >= Quorum) \in BOOLEAN
    BY Numbers DEF IInv, TypeOK
  <2>3. /\ pc'[p] = "read" /\ (locked'[p] => read_ack_received[p] >= Quorum)
        /\ \A q \in Procs \ {p} : pc'[q] = pc[q] /\ locked'[q] = locked[q]
    BY <2>1, <2>2, WaitLocks
  <2>4. locked'[p] => ~ Waits(p)'
    BY <2>1, <2>3, Numbers DEF Waits, IInv, TypeOK, Quorum, N
  <2>5. QED BY <1>3, <2>1, <2>3, <2>4 DEF Undisturbed
<1>9. CASE SecondWrite(p)
  <2>1. /\ Wait(p, "second_write", Acknowledged(p)) /\ pc[p] = "read"
        /\ msgs' = msgs \cup SendWrite(p, w[p], l[p], r[p], TRUE) /\ links' = links
        /\ UNCHANGED <<r, v, value_received, write_ack_received>>
        /\ \A q \in Procs \ {p} : read_ack_received'[q] = read_ack_received[q]
    BY <1>9 DEF SecondWrite, ReadDone, Send, vectors, IInv, TypeOK
  <2>2. Acknowledged(p) \in BOOLEAN
    BY Numbers DEF Acknowledged, IInv, TypeOK
  <2>3. /\ pc'[p] = "second_write" /\ (locked'[p] => Acknowledged(p))
        /\ \A q \in Procs \ {p} : pc'[q] = pc[q] /\ locked'[q] = locked[q]
    BY <2>1, <2>2, WaitLocks
  <2>4. locked'[p] => ~ Waits(p)'
    BY <2>1, <2>3 DEF Waits, Acknowledged, Quorum, N
  <2>5. SendWrite(p, w[p], l[p], r'[p], TRUE) \subseteq msgs'
    BY <2>1
  <2>6. QED BY <1>3, <2>1, <2>3, <2>4, <2>5 DEF Undisturbed
<1>10. QED BY <1>1, <1>5, <1>6, <1>7, <1>8, <1>9 DEF MainStep

(* A handler takes one message.                                            *)
LEMMA HandlerTakes ==
  ASSUME NEW p \in Procs, NEW m \in msgs, OnMessageReceived(p, m)
  PROVE  links' = links /\ \A x \in msgs : x = m \/ x \in msgs'
<1>1. \A M : Handled(m, M) => links' = links /\ \A x \in msgs : x = m \/ x \in msgs'
  BY DEF Handled
<1>2. QED BY <1>1 DEF OnMessageReceived, ReceiveValue, ReceiveWrite, ReceiveRead,
                      ReceiveWriteAck, ReceiveReadAck

(* A handler of p: what it takes and counts.                               *)
LEMMA HandlerIs ==
  ASSUME IInv, NEW p \in Procs, NEW m \in msgs, m.to = p, ~ locked[p], OnMessageReceived(p, m)
  PROVE  /\ UNCHANGED <<pc, locked, r, links>>
         /\ \A q \in Procs : v[q] \subseteq v'[q]
         /\ \A q \in Procs \ {p} : Undisturbed(q)
         /\ value_received'[p] >= value_received[p]
         /\ \A q \in Procs \ {p} : value_received'[q] = value_received[q]
         /\ m.type = "value" /\ TakesValues(p) => m.from \in v'[p]
         /\ write_ack_received'[p] =
              IF m.type = "write_ack" /\ m.round = r[p] THEN write_ack_received[p] + 1
                                                        ELSE write_ack_received[p]
         /\ read_ack_received'[p] =
              IF m.type = "read_ack" /\ m.round = r[p] /\ pc[p] = "read"
              THEN read_ack_received[p] + 1 ELSE read_ack_received[p]
<1>1. UNCHANGED <<pc, locked, r, l>>
  BY DEF OnMessageReceived, ReceiveValue, ReceiveWrite, ReceiveRead, ReceiveWriteAck,
         ReceiveReadAck, mainVars
<1>2. links' = links
  BY HandlerTakes
<1>3. \A q \in Procs : value_received[q] \in Nat /\ value_received[q] >= value_received[q]
  BY Numbers DEF IInv, TypeOK
<1>4. CASE ReceiveValue(p, m)
  <2>1. m.type = "value" /\ UNCHANGED <<read_ack_received, write_ack_received>>
    BY <1>4 DEF ReceiveValue
  <2>2. CASE TakesValues(p)
    <3>1. /\ v' = [v EXCEPT ![p] = Join(v[p], m.vec)]
          /\ value_received' = [value_received EXCEPT ![p] = value_received[p] + 1]
      BY <1>4, <2>2 DEF ReceiveValue
    <3>2. m.vec = {m.from}
      BY <2>1 DEF IInv, ValuesInv
    <3>3. m.from \in v'[p] /\ \A q \in Procs : v[q] \subseteq v'[q]
      BY <3>1, <3>2 DEF IInv, TypeOK
    <3>4. /\ value_received'[p] = value_received[p] + 1
          /\ \A q \in Procs \ {p} : value_received'[q] = value_received[q] /\ v'[q] = v[q]
      BY <3>1 DEF IInv, TypeOK
    <3>5. value_received'[p] >= value_received[p]
      BY <1>3, <3>4
    <3>6. QED BY <1>1, <1>2, <2>1, <3>3, <3>4, <3>5 DEF Undisturbed
  <2>3. CASE ~ TakesValues(p)
    <3>1. UNCHANGED <<v, value_received>>
      BY <1>4, <2>3 DEF ReceiveValue
    <3>2. QED BY <1>1, <1>2, <1>3, <2>1, <2>3, <3>1 DEF Undisturbed
  <2>4. QED BY <2>2, <2>3
<1>5. CASE ReceiveWrite(p, m)
  <2>1. m.type = "write" /\ UNCHANGED <<v, value_received, read_ack_received, write_ack_received>>
    BY <1>5 DEF ReceiveWrite, vectors, counters
  <2>2. QED BY <1>1, <1>2, <1>3, <2>1 DEF Undisturbed
<1>6. CASE ReceiveRead(p, m)
  <2>1. m.type = "read" /\ UNCHANGED <<v, value_received, read_ack_received, write_ack_received>>
    BY <1>6 DEF ReceiveRead, vectors, counters
  <2>2. QED BY <1>1, <1>2, <1>3, <2>1 DEF Undisturbed
<1>7. CASE ReceiveWriteAck(p, m)
  <2>1. m.type = "write_ack" /\ UNCHANGED <<v, value_received, read_ack_received>>
    BY <1>7 DEF ReceiveWriteAck
  <2>2. /\ write_ack_received'[p] =
              IF m.round = r[p] THEN write_ack_received[p] + 1 ELSE write_ack_received[p]
        /\ \A q \in Procs \ {p} : write_ack_received'[q] = write_ack_received[q]
    BY <1>7 DEF ReceiveWriteAck, IInv, TypeOK
  <2>3. QED BY <1>1, <1>2, <1>3, <2>1, <2>2 DEF Undisturbed
<1>8. CASE ReceiveReadAck(p, m)
  <2>1. m.type = "read_ack" /\ UNCHANGED <<v, value_received, write_ack_received>>
    BY <1>8 DEF ReceiveReadAck
  <2>2. /\ read_ack_received'[p] =
              IF m.round = r[p] /\ pc[p] = "read" THEN read_ack_received[p] + 1
                                                  ELSE read_ack_received[p]
        /\ \A q \in Procs \ {p} : read_ack_received'[q] = read_ack_received[q]
    BY <1>8 DEF ReceiveReadAck, Reading, IInv, TypeOK
  <2>3. QED BY <1>1, <1>2, <1>3, <2>1, <2>2 DEF Undisturbed
<1>9. QED BY <1>4, <1>5, <1>6, <1>7, <1>8 DEF OnMessageReceived

(* A request is answered, and the answer sent where the network lets it.   *)
LEMMA HandlerAnswers ==
  ASSUME NEW p \in Procs, NEW m \in msgs, OnMessageReceived(p, m), NEW request, NEW answer,
         \/ request = "write" /\ answer = "write_ack"
         \/ request = "read" /\ answer = "read_ack",
         m.type = request, <<answer, m.round, p, m.from>> \in links
  PROVE  \E x \in msgs' : x.type = answer /\ x.round = m.round /\ x.from = p /\ x.to = m.from
<1>1. \A M : Handled(m, M) => Delivered(M) \subseteq msgs'
  BY DEF Handled
<1>2. CASE request = "write"
  <2> DEFINE x == [type |-> "write_ack", round |-> m.round, from |-> p, to |-> m.from,
                   recVal |-> acceptVal'[p][m.round], second |-> m.second]
  <2>1. ReceiveWrite(p, m)
    BY <1>2 DEF OnMessageReceived, ReceiveValue, ReceiveRead, ReceiveWriteAck, ReceiveReadAck
  <2>2. Delivered({x}) \subseteq msgs'
    BY <1>1, <2>1 DEF ReceiveWrite
  <2>3. x \in Delivered({x})
    BY <1>2 DEF Delivered
  <2>4. x.type = answer /\ x.round = m.round /\ x.from = p /\ x.to = m.from
    BY <1>2
  <2> HIDE DEF x
  <2>5. QED BY <2>2, <2>3, <2>4
<1>3. CASE request = "read"
  <2> DEFINE x == [type |-> "read_ack", round |-> m.round, from |-> p, to |-> m.from,
                   recVal |-> acceptVal[p][m.round]]
  <2>1. ReceiveRead(p, m)
    BY <1>3 DEF OnMessageReceived, ReceiveValue, ReceiveWrite, ReceiveWriteAck, ReceiveReadAck
  <2>2. Delivered({x}) \subseteq msgs'
    BY <1>1, <2>1 DEF ReceiveRead
  <2>3. x \in Delivered({x})
    BY <1>3 DEF Delivered
  <2>4. x.type = answer /\ x.round = m.round /\ x.from = p /\ x.to = m.from
    BY <1>3
  <2> HIDE DEF x
  <2>5. QED BY <2>2, <2>3, <2>4
<1>4. QED BY <1>2, <1>3

(* At first nobody has started or waits.                                   *)
LEMMA InitServe == Init => ServeInv
<1> SUFFICES ASSUME Init PROVE ServeInv
  OBVIOUS
<1>1. \A p \in Procs : pc[p] = "idle"
  BY DEF Init
<1>2. Started = {}
  BY <1>1 DEF Started
<1>3. QED BY <1>1, <1>2 DEF ServeInv, LockInv, Waits, ArrivalInv, AwaitInv

(* A wait ends, once its condition holds: only the main thread itself makes *)
(* it wait again.                                                          *)
LEMMA MainLock ==
  ASSUME IInv, LockInv, NEW p \in Procs, MainStep(p)
  PROVE  LockInv'
<1> SUFFICES ASSUME NEW q \in Procs, locked'[q] PROVE ~ Waits(q)'
  BY DEF LockInv
<1>1. CASE q = p
  BY <1>1, MainStepIs
<1>2. CASE q # p
  <2>1. Undisturbed(q) /\ value_received' = value_received
    BY <1>2, MainStepIs
  <2>2. QED BY <2>1 DEF LockInv, Undisturbed, Waits, Acknowledged, Quorum, N
<1>3. QED BY <1>1, <1>2

LEMMA HandlerLock ==
  ASSUME IInv, LockInv, NEW p \in Procs, NEW m \in msgs, m.to = p, ~ locked[p],
         OnMessageReceived(p, m)
  PROVE  LockInv'
<1> SUFFICES ASSUME NEW q \in Procs, locked'[q] PROVE ~ Waits(q)'
  BY DEF LockInv
<1>1. q # p /\ locked[q]
  BY HandlerIs
<1>2. \A x \in Procs \ {p} : Undisturbed(x) /\ value_received'[x] = value_received[x]
  <2>1. \A x \in Procs \ {p} : Undisturbed(x)
    BY HandlerIs
  <2>2. \A x \in Procs \ {p} : value_received'[x] = value_received[x]
    BY HandlerIs
  <2>3. QED BY <2>1, <2>2
<1>3. QED BY <1>1, <1>2 DEF LockInv, Undisturbed, Waits, Acknowledged, Quorum, N

(* A process that starts sends its value; nobody loses any.                *)
LEMMA MainArrival ==
  ASSUME IInv, ArrivalInv, NEW p \in Procs, MainStep(p)
  PROVE  ArrivalInv'
<1>1. /\ links' = links /\ msgs \subseteq msgs' /\ value_received' = value_received
      /\ \A q \in Procs \ {p} : Undisturbed(q)
      /\ \/ /\ pc[p] = "idle" /\ pc'[p] = "values" /\ p \in v'[p]
            /\ SendValue(p, v'[p]) \subseteq msgs'
         \/ pc[p] # "idle" /\ pc'[p] # "values" /\ ~ TakesValues(p)
  BY MainStepIs
<1>2. \A q \in Procs : pc'[q] = "values" => q \in v'[q]
  BY <1>1 DEF ArrivalInv, Undisturbed
<1>3. ASSUME NEW q \in Procs, TakesValues(q)', NEW s \in (ValuesFrom(q) \cap Started)'
      PROVE  s \in v'[q] \/ \E m \in msgs' : m.type = "value" /\ m.from = s /\ m.to = q
  <2>1. TakesValues(q) /\ s \in ValuesFrom(q) /\ s \in Procs /\ s # q /\ pc'[s] # "idle"
        /\ <<"value", 0, s, q>> \in links
    BY <1>1, <1>3 DEF TakesValues, ValuesFrom, Others, Started, Quorum, N
  <2>2. CASE pc[s] # "idle"
    <3>1. s \in v[q] \/ \E m \in msgs : m.type = "value" /\ m.from = s /\ m.to = q
      BY <2>1, <2>2 DEF ArrivalInv, Started
    <3>2. CASE s \in v[q]
      <4>1. q = p => pc[p] = "idle"
        BY <1>1, <2>1
      <4>2. q = p => v[q] = {}
        BY <4>1 DEF IInv, PhaseInv
      <4>3. QED BY <1>1, <3>2, <4>2 DEF Undisturbed
    <3>3. QED BY <1>1, <3>1, <3>2
  <2>3. CASE pc[s] = "idle"
    <3>1. s = p /\ SendValue(p, v'[p]) \subseteq msgs'
      BY <1>1, <2>1, <2>3 DEF Undisturbed
    <3> DEFINE m == [type |-> "value", round |-> 0, from |-> s, to |-> q, vec |-> v'[p]]
    <3>2. m \in SendValue(p, v'[p])
      BY <2>1, <3>1 DEF SendValue, Delivered, Others
    <3>3. m.type = "value" /\ m.from = s /\ m.to = q
      OBVIOUS
    <3> HIDE DEF m
    <3>4. QED BY <3>1, <3>2, <3>3
  <2>4. QED BY <2>2, <2>3
<1>4. QED BY <1>2, <1>3 DEF ArrivalInv

(* A value that is handled while values are taken is taken.                *)
LEMMA HandlerArrival ==
  ASSUME IInv, ArrivalInv, NEW p \in Procs, NEW m \in msgs, m.to = p, ~ locked[p],
         OnMessageReceived(p, m)
  PROVE  ArrivalInv'
<1>1. /\ UNCHANGED <<pc, links>>
      /\ \A x \in msgs : x = m \/ x \in msgs'
      /\ \A q \in Procs : v[q] \subseteq v'[q]
      /\ value_received'[p] >= value_received[p]
      /\ \A q \in Procs \ {p} : value_received'[q] = value_received[q]
      /\ m.type = "value" /\ TakesValues(p) => m.from \in v'[p]
  <2>1. UNCHANGED <<pc, links>>
    BY HandlerIs
  <2>2. \A x \in msgs : x = m \/ x \in msgs'
    BY HandlerTakes
  <2>3. \A q \in Procs : v[q] \subseteq v'[q]
    BY HandlerIs
  <2>4. value_received'[p] >= value_received[p]
    BY HandlerIs
  <2>5. \A q \in Procs \ {p} : value_received'[q] = value_received[q]
    BY HandlerIs
  <2>6. m.type = "value" /\ TakesValues(p) => m.from \in v'[p]
    BY HandlerIs
  <2>7. QED BY <2>1, <2>2, <2>3, <2>4, <2>5, <2>6
<1>2. \A q \in Procs : pc'[q] = "values" => q \in v'[q]
  BY <1>1 DEF ArrivalInv
<1>3. ASSUME NEW q \in Procs, TakesValues(q)', NEW s \in (ValuesFrom(q) \cap Started)'
      PROVE  s \in v'[q] \/ \E x \in msgs' : x.type = "value" /\ x.from = s /\ x.to = q
  <2>1. s \in ValuesFrom(q) /\ s \in Started
    BY <1>1, <1>3 DEF ValuesFrom, Others, Started
  <2>2. TakesValues(q)
    <3>1. value_received'[q] < Quorum
      BY <1>3 DEF TakesValues, Quorum, N
    <3>2. /\ value_received[q] \in Nat /\ value_received'[q] \in Nat
          /\ value_received'[q] >= value_received[q]
      <4>1. IInv'
        <5>1. ~ locked[m.to] /\ OnMessageReceived(m.to, m)
          OBVIOUS
        <5>2. Next
          BY <5>1 DEF Next
        <5>3. QED BY <5>2, NextIInv
      <4>2. value_received[q] \in Nat /\ value_received'[q] \in Nat
        BY <4>1, Numbers DEF IInv, TypeOK, Quorum, N
      <4>3. QED BY <1>1, <4>2
    <3>3. QED BY <3>1, <3>2, Numbers DEF TakesValues
  <2>3. s \in v[q] \/ \E x \in msgs : x.type = "value" /\ x.from = s /\ x.to = q
    BY <2>1, <2>2 DEF ArrivalInv
  <2>4. QED BY <1>1, <2>2, <2>3
<1>4. QED BY <1>2, <1>3 DEF ArrivalInv

(* A process that counts what it gets still waits for no more than is      *)
(* outstanding: an answer is lost to it only when it is counted.           *)
LEMMA StillAwaits ==
  ASSUME NEW p \in Procs, NEW request, NEW answer, NEW count \in Nat, NEW later \in Nat,
         links' = links, r'[p] = r[p], Awaits(p, count, request, answer),
         \/ /\ count <= later
            /\ \A q \in AnswersFrom(p, r[p]) :
                 Open(p, q, request, answer) => Open(p, q, request, answer)'
         \/ /\ later = count + 1
            /\ \E x : \A q \in AnswersFrom(p, r[p]) :
                 q # x /\ Open(p, q, request, answer) => Open(p, q, request, answer)'
  PROVE  Awaits(p, later, request, answer)'
<1>1. PICK B : B = AnswersFrom(p, r[p])
  OBVIOUS
<1>2. AnswersFrom(p, r[p])' = B
  BY <1>1 DEF AnswersFrom, Others
<1>3. PICK O1 : O1 = Outstanding(p, request, answer)
  OBVIOUS
<1>4. PICK O2 : O2 = Outstanding(p, request, answer)'
  OBVIOUS
<1>5. B \subseteq Procs
  BY <1>1 DEF AnswersFrom, Others
<1>6. O1 = {q \in B : Open(p, q, request, answer)}
  BY <1>1, <1>3 DEF Outstanding
<1>7. O2 = {q \in B : Open(p, q, request, answer)'}
  BY <1>2, <1>4 DEF Outstanding
<1>8. /\ IsFiniteSet(O1) /\ Cardinality(O1) \in Nat
      /\ IsFiniteSet(O2) /\ Cardinality(O2) \in Nat /\ Cardinality(B) \in Nat
  BY <1>5, <1>6, <1>7, ProcSets
<1>9. Cardinality(B) <= count + Cardinality(O1)
  BY <1>1, <1>3 DEF Awaits
<1>10. CASE count <= later /\ O1 \subseteq O2
  <2>1. Cardinality(O1) <= Cardinality(O2)
    BY <1>8, <1>10, FS_Subset
  <2>2. Cardinality(B) <= later + Cardinality(O2)
    BY <1>8, <1>9, <1>10, <2>1
  <2>3. QED BY <1>2, <1>4, <2>2 DEF Awaits
<1>11. ASSUME NEW x, later = count + 1, O1 \subseteq O2 \cup {x}
       PROVE  Cardinality(B) <= later + Cardinality(O2)
  <2>1. /\ IsFiniteSet(O2 \cup {x})
        /\ Cardinality(O2 \cup {x}) \in Nat /\ Cardinality(O2 \cup {x}) <= Cardinality(O2) + 1
    <3>1. /\ IsFiniteSet(O2 \cup {x})
          /\ Cardinality(O2 \cup {x}) = IF x \in O2 THEN Cardinality(O2) ELSE Cardinality(O2) + 1
      BY <1>8, FS_AddElement
    <3>2. QED BY <1>8, <3>1
  <2>2. Cardinality(O1) <= Cardinality(O2 \cup {x})
    BY <1>11, <2>1, FS_Subset
  <2>3. QED BY <1>8, <1>9, <1>11, <2>1, <2>2
<1>12. CASE later = count + 1 /\ \E x : O1 \subseteq O2 \cup {x}
  <2>1. Cardinality(B) <= later + Cardinality(O2)
    BY <1>11, <1>12
  <2>2. QED BY <1>2, <1>4, <2>1 DEF Awaits
<1>13. QED BY <1>1, <1>6, <1>7, <1>10, <1>12

(* Whoever is asked is outstanding.                                        *)
LEMMA AllAsked ==
  ASSUME NEW p \in Procs, NEW request, NEW answer, NEW count \in Nat,
         \A q \in AnswersFrom(p, r[p])' : Open(p, q, request, answer)'
  PROVE  Awaits(p, count, request, answer)'
<1>1. PICK B : B = AnswersFrom(p, r[p])'
  OBVIOUS
<1>2. Outstanding(p, request, answer)' = B
  BY <1>1 DEF Outstanding
<1>3. B \subseteq Procs
  BY <1>1 DEF AnswersFrom, Others
<1>4. Cardinality(B) \in Nat
  BY <1>3, ProcSets
<1>5. Cardinality(B) <= count + Cardinality(B)
  BY <1>4
<1>6. QED BY <1>1, <1>2, <1>5 DEF Awaits

(* A request to everybody asks everybody who answers.                      *)
LEMMA EverybodyAsked ==
  ASSUME NEW p \in Procs, links' = links
  PROVE  /\ (\E x, y, s : SendWrite(p, x, y, r'[p], s) \subseteq msgs') =>
              \A q \in AnswersFrom(p, r[p])' : Open(p, q, "write", "write_ack")'
         /\ SendRead(p, r'[p]) \subseteq msgs' =>
              \A q \in AnswersFrom(p, r[p])' : Open(p, q, "read", "read_ack")'
<1>1. PICK d : d = r'[p]
  OBVIOUS
<1>2. \A q \in AnswersFrom(p, r[p])' : /\ q \in Others(p)
                                       /\ <<"write", d, p, q>> \in links
                                       /\ <<"read", d, p, q>> \in links
  BY <1>1 DEF AnswersFrom, Others
<1>3. ASSUME NEW x, NEW y, NEW s, SendWrite(p, x, y, d, s) \subseteq msgs',
             NEW q \in AnswersFrom(p, r[p])'
      PROVE  Open(p, q, "write", "write_ack")'
  <2> DEFINE m == [type |-> "write", round |-> d, from |-> p, to |-> q,
                   vec |-> x, label |-> y, second |-> s]
  <2>1. m \in SendWrite(p, x, y, d, s)
    BY <1>2 DEF SendWrite, Delivered
  <2>2. m.type = "write" /\ m.round = d /\ m.from = p /\ m.to = q
    OBVIOUS
  <2> HIDE DEF m
  <2>3. QED BY <1>1, <1>3, <2>1, <2>2 DEF Open
<1>4. ASSUME SendRead(p, d) \subseteq msgs', NEW q \in AnswersFrom(p, r[p])'
      PROVE  Open(p, q, "read", "read_ack")'
  <2> DEFINE m == [type |-> "read", round |-> d, from |-> p, to |-> q]
  <2>1. m \in SendRead(p, d)
    BY <1>2 DEF SendRead, Delivered
  <2>2. m.type = "read" /\ m.round = d /\ m.from = p /\ m.to = q
    OBVIOUS
  <2> HIDE DEF m
  <2>3. QED BY <1>1, <1>4, <2>1, <2>2 DEF Open
<1>5. QED BY <1>1, <1>3, <1>4

(* The main thread asks before it waits, and disturbs nobody else's wait.  *)
LEMMA MainAwait ==
  ASSUME IInv, AwaitInv, NEW p \in Procs, MainStep(p)
  PROVE  AwaitInv'
<1>1. IInv'
  <2>1. Next
    BY DEF Next
  <2>2. QED BY <2>1, NextIInv
<1>2. SUFFICES ASSUME NEW q \in Procs
               PROVE  /\ pc'[q] \in {"write", "second_write"} =>
                           Awaits(q, write_ack_received[q], "write", "write_ack")'
                      /\ pc'[q] = "read" => Awaits(q, read_ack_received[q], "read", "read_ack")'
  BY DEF AwaitInv
<1>3. PICK writes \in Nat : writes = write_ack_received'[q]
  BY <1>1 DEF IInv, TypeOK
<1>4. PICK reads \in Nat : reads = read_ack_received'[q]
  BY <1>1 DEF IInv, TypeOK
<1>5. /\ links' = links /\ msgs \subseteq msgs'
      /\ \A x \in Procs \ {p} : Undisturbed(x)
      /\ \/ pc'[p] = "values"
         \/ /\ pc'[p] \in {"write", "second_write"}
            /\ \E vec, k, s : SendWrite(p, vec, k, r'[p], s) \subseteq msgs'
         \/ pc'[p] = "read" /\ SendRead(p, r'[p]) \subseteq msgs'
         \/ pc'[p] = "returned"
  BY MainStepIs
<1>6. CASE q = p /\ pc'[p] \in {"write", "second_write"}
  <2>1. \A x \in AnswersFrom(q, r[q])' : Open(q, x, "write", "write_ack")'
    BY <1>5, <1>6, EverybodyAsked
  <2>2. Awaits(q, writes, "write", "write_ack")'
    BY <2>1, AllAsked
  <2>3. QED BY <1>3, <1>6, <2>2
<1>7. CASE q = p /\ pc'[p] = "read"
  <2>1. \A x \in AnswersFrom(q, r[q])' : Open(q, x, "read", "read_ack")'
    BY <1>5, <1>7, EverybodyAsked
  <2>2. Awaits(q, reads, "read", "read_ack")'
    BY <2>1, AllAsked
  <2>3. QED BY <1>4, <1>7, <2>2
<1>8. CASE q # p
  <2>1. /\ pc'[q] = pc[q] /\ r'[q] = r[q]
        /\ writes = write_ack_received[q] /\ reads = read_ack_received[q]
    BY <1>3, <1>4, <1>5, <1>8 DEF Undisturbed
  <2>2. \A request, answer : \A x \in AnswersFrom(q, r[q]) :
          Open(q, x, request, answer) => Open(q, x, request, answer)'
    BY <1>5, <2>1 DEF Open
  <2>3. writes <= writes /\ reads <= reads
    OBVIOUS
  <2>4. CASE pc[q] \in {"write", "second_write"}
    <3>1. Awaits(q, writes, "write", "write_ack")
      BY <2>1, <2>4 DEF AwaitInv
    <3>2. Awaits(q, writes, "write", "write_ack")'
      BY <1>5, <2>1, <2>2, <2>3, <3>1, StillAwaits
    <3>3. QED BY <1>3, <2>1, <2>4, <3>2
  <2>5. CASE pc[q] = "read"
    <3>1. Awaits(q, reads, "read", "read_ack")
      BY <2>1, <2>5 DEF AwaitInv
    <3>2. Awaits(q, reads, "read", "read_ack")'
      BY <1>5, <2>1, <2>2, <2>3, <3>1, StillAwaits
    <3>3. QED BY <1>4, <2>1, <2>5, <3>2
  <2>6. QED BY <2>1, <2>4, <2>5
<1>9. QED BY <1>5, <1>6, <1>7, <1>8

(* What a process waits for stays outstanding when a message is handled,   *)
(* unless it is that message: a request is replaced by its answer.         *)
LEMMA HandlerOpen ==
  ASSUME IInv, NEW p \in Procs, NEW m \in msgs, m.to = p, ~ locked[p], OnMessageReceived(p, m),
         NEW q \in Procs, NEW x \in AnswersFrom(q, r[q]), NEW request, NEW answer,
         \/ request = "write" /\ answer = "write_ack"
         \/ request = "read" /\ answer = "read_ack",
         Open(q, x, request, answer),
         ~ (q = p /\ m.type = answer /\ m.round = r[q] /\ m.from = x)
  PROVE  Open(q, x, request, answer)'
<1>1. PICK y \in msgs : /\ y.round = r[q]
                        /\ \/ y.type = request /\ y.from = q /\ y.to = x
                           \/ y.type = answer /\ y.from = x /\ y.to = q
  BY DEF Open
<1>2. r'[q] = r[q]
  BY HandlerIs
<1>3. CASE y \in msgs'
  BY <1>1, <1>2, <1>3 DEF Open
<1>4. CASE y \notin msgs'
  <2>1. y = m
    BY <1>4, HandlerTakes
  <2>2. m.type = request /\ m.from = q /\ x = p /\ m.round = r[q]
    BY <1>1, <2>1
  <2>3. <<answer, m.round, p, m.from>> \in links
    BY <2>2 DEF AnswersFrom
  <2>4. \E z \in msgs' : z.type = answer /\ z.round = m.round /\ z.from = p /\ z.to = m.from
    BY <2>2, <2>3, HandlerAnswers
  <2>5. QED BY <1>2, <2>2, <2>4 DEF Open
<1>5. QED BY <1>3, <1>4

(* An answer of the round that is handled is counted.                      *)
LEMMA HandlerAwait ==
  ASSUME IInv, AwaitInv, NEW p \in Procs, NEW m \in msgs, m.to = p, ~ locked[p],
         OnMessageReceived(p, m)
  PROVE  AwaitInv'
<1>1. IInv'
  <2>1. ~ locked[m.to] /\ OnMessageReceived(m.to, m)
    OBVIOUS
  <2>2. Next
    BY <2>1 DEF Next
  <2>3. QED BY <2>2, NextIInv
<1>2. SUFFICES ASSUME NEW q \in Procs
               PROVE  /\ pc'[q] \in {"write", "second_write"} =>
                           Awaits(q, write_ack_received[q], "write", "write_ack")'
                      /\ pc'[q] = "read" => Awaits(q, read_ack_received[q], "read", "read_ack")'
  BY DEF AwaitInv
<1>3. pc'[q] = pc[q] /\ r'[q] = r[q] /\ links' = links
  BY HandlerIs
<1>4. ASSUME NEW request, NEW answer, NEW count \in Nat, NEW later \in Nat,
             \/ request = "write" /\ answer = "write_ack"
             \/ request = "read" /\ answer = "read_ack",
             Awaits(q, count, request, answer),
             later = IF q = p /\ m.type = answer /\ m.round = r[q] THEN count + 1 ELSE count
      PROVE  Awaits(q, later, request, answer)'
  <2>1. \A x \in AnswersFrom(q, r[q]) :
          Open(q, x, request, answer) /\ ~ (q = p /\ m.type = answer /\ m.round = r[q] /\ m.from = x)
            => Open(q, x, request, answer)'
    BY <1>4, HandlerOpen
  <2>2. CASE q = p /\ m.type = answer /\ m.round = r[q]
    <3>1. later = count + 1 /\ \E y : \A x \in AnswersFrom(q, r[q]) :
            x # y /\ Open(q, x, request, answer) => Open(q, x, request, answer)'
      BY <1>4, <2>1, <2>2
    <3>2. QED BY <1>3, <1>4, <3>1, StillAwaits
  <2>3. CASE ~ (q = p /\ m.type = answer /\ m.round = r[q])
    <3>1. later = count /\ count <= later
      BY <1>4, <2>3
    <3>2. \A x \in AnswersFrom(q, r[q]) :
            Open(q, x, request, answer) => Open(q, x, request, answer)'
      BY <2>1, <2>3
    <3>3. QED BY <1>3, <1>4, <3>1, <3>2, StillAwaits
  <2>4. QED BY <2>2, <2>3
<1>5. /\ write_ack_received[q] \in Nat /\ read_ack_received[q] \in Nat
  BY DEF IInv, TypeOK
<1>6. PICK writes \in Nat : writes = write_ack_received'[q]
  BY <1>1 DEF IInv, TypeOK
<1>7. PICK reads \in Nat : reads = read_ack_received'[q]
  BY <1>1 DEF IInv, TypeOK
<1>8. ASSUME pc[q] \in {"write", "second_write"}
      PROVE  Awaits(q, write_ack_received[q], "write", "write_ack")'
  <2>1. Awaits(q, write_ack_received[q], "write", "write_ack")
    BY <1>8 DEF AwaitInv
  <2>2. writes = IF q = p /\ m.type = "write_ack" /\ m.round = r[q]
                 THEN write_ack_received[q] + 1 ELSE write_ack_received[q]
    <3>1. CASE q = p
      <4>1. write_ack_received'[p] =
              IF m.type = "write_ack" /\ m.round = r[p] THEN write_ack_received[p] + 1
                                                        ELSE write_ack_received[p]
        BY HandlerIs
      <4>2. QED BY <1>6, <3>1, <4>1
    <3>2. CASE q # p
      <4>1. Undisturbed(q)
        BY <3>2, HandlerIs
      <4>2. QED BY <1>6, <3>2, <4>1 DEF Undisturbed
    <3>3. QED BY <3>1, <3>2
  <2>3. Awaits(q, writes, "write", "write_ack")'
    BY <1>4, <1>5, <2>1, <2>2
  <2>4. QED BY <1>6, <2>3
<1>9. ASSUME pc[q] = "read"
      PROVE  Awaits(q, read_ack_received[q], "read", "read_ack")'
  <2>1. Awaits(q, read_ack_received[q], "read", "read_ack")
    BY <1>9 DEF AwaitInv
  <2>2. reads = IF q = p /\ m.type = "read_ack" /\ m.round = r[q]
                THEN read_ack_received[q] + 1 ELSE read_ack_received[q]
    <3>1. CASE q = p
      <4>1. read_ack_received'[p] =
              IF m.type = "read_ack" /\ m.round = r[p] /\ pc[p] = "read"
              THEN read_ack_received[p] + 1 ELSE read_ack_received[p]
        BY HandlerIs
      <4>2. QED BY <1>7, <1>9, <3>1, <4>1
    <3>2. CASE q # p
      <4>1. Undisturbed(q)
        BY <3>2, HandlerIs
      <4>2. QED BY <1>7, <3>2, <4>1 DEF Undisturbed
    <3>3. QED BY <3>1, <3>2
  <2>3. Awaits(q, reads, "read", "read_ack")'
    BY <1>4, <1>5, <2>1, <2>2
  <2>4. QED BY <1>7, <2>3
<1>10. QED BY <1>3, <1>8, <1>9

LEMMA NextServe == IInv /\ ServeInv /\ [Next]_vars => ServeInv'
<1> SUFFICES ASSUME IInv, ServeInv, [Next]_vars PROVE ServeInv'
  OBVIOUS
<1>1. LockInv /\ ArrivalInv /\ AwaitInv
  BY DEF ServeInv
<1>2. ASSUME NEW m \in msgs, ~ locked[m.to], OnMessageReceived(m.to, m)
      PROVE  ServeInv'
  <2>1. m.to \in Procs
    BY DEF IInv, TypeOK, Messages
  <2>2. QED BY <1>1, <1>2, <2>1, HandlerLock, HandlerArrival, HandlerAwait DEF ServeInv
<1>3. ASSUME NEW p \in Procs, MainStep(p)
      PROVE  ServeInv'
  BY <1>1, <1>3, MainLock, MainArrival, MainAwait DEF ServeInv
<1>4. CASE UNCHANGED vars
  <2>1. UNCHANGED <<pc, locked, r, v, value_received, read_ack_received, write_ack_received,
                    msgs, links>>
    BY <1>4 DEF vars, mainVars, vectors, counters, netVars
  <2>2. LockInv'
    BY <1>1, <2>1 DEF LockInv, Waits, Acknowledged, Quorum, N
  <2>3. ArrivalInv'
    BY <1>1, <2>1 DEF ArrivalInv, TakesValues, ValuesFrom, Others, Started, Quorum, N
  <2>4. AwaitInv'
    <3>1. \A q, d : AnswersFrom(q, d)' = AnswersFrom(q, d)
      BY <2>1 DEF AnswersFrom, Others
    <3>2. \A q, request, answer :
            Outstanding(q, request, answer)' = Outstanding(q, request, answer)
      BY <2>1, <3>1 DEF Outstanding, Open
    <3>3. QED BY <1>1, <2>1, <3>1, <3>2 DEF AwaitInv, Awaits
  <2>5. QED BY <2>2, <2>3, <2>4 DEF ServeInv
<1>5. QED BY <1>2, <1>3, <1>4 DEF Next

(* Whoever waits still counts on enough others: nobody starts to wait with *)
(* cv_m in its hands or without having asked, and no value and no answer   *)
(* of the round is lost before it is counted.                              *)
THEOREM ServeInvariance == Spec => []ServeInv
BY InitServe, NextServe, Invariance, PTL DEF Spec

(* At rest nothing is on its way, and no main thread holds cv_m.           *)
LEMMA NothingOnItsWay ==
  ASSUME IInv, LockInv, Quiet
  PROVE  msgs = {} /\ Started = Procs
<1>1. \A q \in Procs : ~ locked[q] /\ Waits(q)
  BY DEF Quiet, LockInv
<1>2. \A m \in msgs : m.to \in Procs /\ locked[m.to]
  BY DEF Quiet, IInv, TypeOK, Messages
<1>3. \A q \in Procs : pc[q] # "idle"
  BY <1>1 DEF Waits
<1>4. QED BY <1>1, <1>2, <1>3 DEF Started

(* With nothing on its way, every answer p can get is counted.             *)
LEMMA AllCounted ==
  ASSUME msgs = {}, NEW p \in Procs, NEW request, NEW answer, NEW count \in Nat,
         p \in Served, r[p] \in Rounds, Awaits(p, count, request, answer)
  PROVE  count >= Quorum
<1>1. Outstanding(p, request, answer) = {}
  BY DEF Outstanding, Open
<1>2. Cardinality(AnswersFrom(p, r[p])) <= count + 0
  BY <1>1, FS_EmptySet DEF Awaits
<1>3. Cardinality(AnswersFrom(p, r[p])) >= N - F
  BY DEF Served
<1>4. Cardinality(AnswersFrom(p, r[p])) \in Nat
  BY ProcSets DEF AnswersFrom, Others
<1>5. QED BY <1>2, <1>3, <1>4, Numbers

LEMMA RestIsThrough == IInv /\ ServeInv => ServedAreThrough
<1> SUFFICES ASSUME IInv, ServeInv, Quiet, NEW p \in Served PROVE pc[p] = "returned"
  BY DEF ServedAreThrough, Returned, Served
<1>1. p \in Procs /\ Waits(p) /\ msgs = {} /\ Started = Procs
  BY NothingOnItsWay DEF Served, Quiet, ServeInv
<1>2. /\ value_received[p] \in Nat /\ write_ack_received[p] \in Nat
      /\ read_ack_received[p] \in Nat
  BY <1>1, Numbers DEF IInv, TypeOK
<1>3. ~ (pc[p] = "values" /\ value_received[p] < Quorum)
  <2> SUFFICES ASSUME pc[p] = "values", value_received[p] < Quorum PROVE FALSE
    OBVIOUS
  <2>1. ValuesFrom(p) \subseteq v[p] /\ p \in v[p]
    BY <1>1 DEF ServeInv, ArrivalInv, TakesValues, ValuesFrom, Others
  <2>2. v[p] \subseteq Procs
    BY <1>1 DEF IInv, TypeOK
  <2>3. /\ IsFiniteSet(ValuesFrom(p)) /\ IsFiniteSet(v[p])
        /\ Cardinality(ValuesFrom(p)) \in Nat /\ Cardinality(v[p]) \in Nat
    BY <2>1, <2>2, ProcSets
  <2>4. p \notin ValuesFrom(p)
    BY DEF ValuesFrom, Others
  <2>5. Cardinality(ValuesFrom(p) \cup {p}) = Cardinality(ValuesFrom(p)) + 1
    BY <2>3, <2>4, FS_AddElement
  <2>6. Cardinality(ValuesFrom(p) \cup {p}) <= Cardinality(v[p])
    BY <2>1, <2>3, FS_Subset
  <2>7. Cardinality(v[p]) = value_received[p] + 1
    BY <1>1 DEF IInv, ValuesInv
  <2>8. Cardinality(ValuesFrom(p)) >= N - F
    BY DEF Served
  <2>9. QED BY <1>2, <2>3, <2>5, <2>6, <2>7, <2>8, Numbers
<1>4. pc[p] \in {"write", "read", "second_write"} => r[p] \in Rounds
  BY <1>1, InRound
<1>5. ~ (pc[p] \in {"write", "second_write"} /\ ~ Acknowledged(p))
  <2> SUFFICES ASSUME pc[p] \in {"write", "second_write"} PROVE Acknowledged(p)
    OBVIOUS
  <2>1. Awaits(p, write_ack_received[p], "write", "write_ack")
    BY <1>1 DEF ServeInv, AwaitInv
  <2>2. QED BY <1>1, <1>2, <1>4, <2>1, AllCounted DEF Acknowledged
<1>6. ~ (pc[p] = "read" /\ read_ack_received[p] < Quorum)
  <2> SUFFICES ASSUME pc[p] = "read" PROVE ~ (read_ack_received[p] < Quorum)
    OBVIOUS
  <2>1. Awaits(p, read_ack_received[p], "read", "read_ack")
    BY <1>1 DEF ServeInv, AwaitInv
  <2>2. read_ack_received[p] >= Quorum
    BY <1>1, <1>2, <1>4, <2>1, AllCounted
  <2>3. QED BY <1>2, <2>2, Numbers
<1>7. QED BY <1>1, <1>3, <1>5, <1>6 DEF Waits

(* Whatever the network loses, the execution comes to rest only when start *)
(* has returned to every process that hears n - f others: the safety half  *)
(* of its termination.                                                     *)
THEOREM NobodyServedIsStuck == Spec => []ServedAreThrough
BY Invariance, ServeInvariance, RestIsThrough, PTL

=============================================================================
