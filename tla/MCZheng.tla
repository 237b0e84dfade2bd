------------------------------ MODULE MCZheng ------------------------------
(* Instances of ZhengFair for TLC. *)
EXTENDS ZhengFair, ZhengInv

CONSTANTS p1, p2, p3, p4, p5, p6, p7, p8, p9

FiveProcs == {p1, p2, p3, p4, p5}
NineProcs == FiveProcs \cup {p6, p7, p8, p9}

\* The connections on which p hears the values of S, has its writes of round d
\* acknowledged by S, and its reads answered by S.
Hears(p, S) == {"value"} \X {0} \X S \X {p}
WritesTo(d, p, S) == {<<"write", d, p, q>> : q \in S} \cup {<<"write_ack", d, q, p>> : q \in S}
ReadsFrom(d, p, S) == {<<"read", d, p, q>> : q \in S} \cup {<<"read_ack", d, q, p>> : q \in S}

\* p1 and p2 run, the others answer them.
\* p1 takes three of four values; two quorums that share p3.
LateValue == UNION
  {Hears(p1, {p2, p3, p4, p5}), WritesTo(1, p1, {p2, p3, p4}), ReadsFrom(1, p1, {p2, p3, p4}),
   Hears(p2, {p3, p4, p5}), WritesTo(1, p2, {p1, p3, p5}), ReadsFrom(1, p2, {p1, p3, p5})}

\* One acknowledgement of each write of p1 comes late, and p2 only writes.
LateWriteAck == UNION
  {Hears(p1, {p3, p4, p5}), WritesTo(1, p1, {p2, p3, p4, p5}), ReadsFrom(1, p1, {p2, p3, p4}),
   Hears(p2, {p3, p4, p5}), WritesTo(1, p2, {p1, p3, p5})}

\* One answer to p1's read comes late, and p2 does not get beyond its values.
LateReadAck == UNION
  {Hears(p1, {p3, p4, p5}), WritesTo(1, p1, {p2, p3, p4}), ReadsFrom(1, p1, {p2, p3, p4, p5})}

LateAnswers == {LateValue, LateWriteAck, LateReadAck}

-----------------------------------------------------------------------------
\* p4 and p5 have failed.
TwoFailed == {Kinds \X (0..LogF) \X {p1, p2, p3} \X {p1, p2, p3}}

-----------------------------------------------------------------------------
\* Two slaves among nine processes.  One acknowledgement of p1's first write
\* comes late; its write of round 2 reaches p2, p3, p4 and p5 only, and p2 does
\* not ask those in round 2.
Five == {p3, p4, p5, p6, p7}

StaleAck == {UNION
  {Hears(p1, Five), WritesTo(1, p1, Five \cup {p2}), ReadsFrom(1, p1, Five),
   WritesTo(2, p1, {p2, p3, p4, p5}), ReadsFrom(2, p1, Five),
   Hears(p2, Five), WritesTo(1, p2, Five), ReadsFrom(1, p2, Five),
   WritesTo(2, p2, Five), ReadsFrom(2, p2, {p1, p6, p7, p8, p9})}}

\* A schedule: everybody starts first, p2 goes ahead through round 1, and what
\* it then writes is slow until p1 has returned.
InTurn == /\ (\E p \in Procs : value_received[p] > 0) => \A p \in Procs : pc[p] # "idle"
          /\ r[p1] > 0 => r[p2] > 1
          /\ (\E p \in Procs : <<v[p2], l[p2]>> \in acceptVal[p][2]) => pc[p1] = "returned"

\* Some of the behaviours of Spec.
ScheduledSpec == Init /\ [][Next /\ InTurn']_vars

=============================================================================
