--------------------------- MODULE CoordinatorInv ---------------------------
(***************************************************************************)
(* The inductive invariant behind the safety properties of Coordinator.    *)
(***************************************************************************)
EXTENDS Coordinator

TestInfo == [type |-> "TestInfo", peers |-> Procs]
StartSignal == [type |-> "Start"]
StopSignal == [type |-> "Stop"]

Inboxes == {<<>>, <<TestInfo>>, <<TestInfo, StartSignal>>, <<StartSignal>>, <<StopSignal>>}

Early == {"send_register", "read_id", "wait_for_test_info"}
Reported == {"wait_for_stop", "stopped", "crashed"}

TypeInv ==
  /\ phase \in {"register", "test_info", "start", "results", "stop", "verify",
                "ended", "aborted"}
  /\ turn \in 0..(N - 1)
  /\ known \in Seq(Procs)
  /\ backlog \in Seq([type : {"Register", "TestComplete"}, from : Procs, whole : BOOLEAN])
  /\ results \in Seq([id : Procs, value : SUBSET Procs])
  /\ verdict \in {"none", "valid", "invalid", "crashed"}
  /\ pc \in [Procs -> Places]
  /\ peers \in [Procs -> SUBSET Procs]
  /\ inbox \in [Procs -> Inboxes]
  /\ proposed \subseteq Procs
  /\ learnt \in [Procs -> SUBSET Procs]

\* The coordinator has sent k messages to c, which has crashed or stands where
\* the ones it has taken lead.
Told(c, k) ==
  \/ pc[c] = "crashed"
  \/ k = 0 /\ pc[c] \in Early /\ inbox[c] = <<>>
  \/ k = 1 /\ \/ pc[c] \in Early /\ inbox[c] = <<TestInfo>>
              \/ pc[c] = "wait_for_start" /\ inbox[c] = <<>>
  \/ k = 2 /\ \/ pc[c] \in Early /\ inbox[c] = <<TestInfo, StartSignal>>
              \/ pc[c] = "wait_for_start" /\ inbox[c] = <<StartSignal>>
              \/ pc[c] \in {"start", "send_test_complete", "wait_for_stop"} /\ inbox[c] = <<>>
  \/ k = 3 /\ \/ pc[c] = "wait_for_stop" /\ inbox[c] = <<StopSignal>>
              \/ pc[c] = "stopped" /\ inbox[c] = <<>>

\* The clients of the turns so far have been told one more than the others.
ToldInTurns(k) ==
  \A i \in 1..Len(known) : Told(known[i], IF i <= turn THEN k + 1 ELSE k)

\* The phases send their messages in order.
ToldInv ==
  /\ phase = "register" => \A c \in Procs : Told(c, 0)
  /\ phase = "test_info" => ToldInTurns(0)
  /\ phase = "start" => ToldInTurns(1)
  /\ phase = "results" => \A c \in Procs : Told(c, 2)
  /\ phase = "stop" => ToldInTurns(2)
  /\ phase \in {"verify", "ended"} => \A c \in Procs : Told(c, 3)
  /\ phase = "aborted" => \A c \in Procs : \E k \in 0..2 : Told(c, k)

\* A client registers once; after the registration everybody has.
RegisterInv ==
  /\ \A i, j \in 1..Len(known) : known[i] = known[j] => i = j
  /\ \A i \in 1..Len(known) : pc[known[i]] # "send_register"
  /\ \A i \in 1..Len(backlog) : backlog[i].type = "Register" =>
       /\ pc[backlog[i].from] # "send_register"
       /\ \A j \in 1..Len(known) : known[j] # backlog[i].from
  /\ phase = "register" => /\ turn = Len(known)
                           /\ \A i \in 1..Len(backlog) : backlog[i].type = "Register"
  /\ phase \notin {"register", "aborted"} => Len(known) = N

\* No client has two connections of a type.
BacklogInv ==
  \A i, j \in 1..Len(backlog) :
    backlog[i].type = backlog[j].type /\ backlog[i].from = backlog[j].from => i = j

\* Clients that have yet to report, or crash.
Unreported == {c \in Procs : pc[c] \notin Reported}

\* Every turn of the results loop is a client that has reported or crashed.
ReportInv ==
  /\ phase \in {"test_info", "start"} => Len(backlog) + Cardinality(Unreported) <= N
  /\ phase = "results" => turn + Len(backlog) + Cardinality(Unreported) <= N
  /\ phase \in {"stop", "verify", "ended"} => Unreported = {}

\* A result is what its client learnt, and comes once.
ResultInv ==
  /\ \A i, j \in 1..Len(results) : results[i].id = results[j].id => i = j
  /\ \A i \in 1..Len(results) : /\ pc[results[i].id] \in Reported
                                /\ results[i].value = learnt[results[i].id]
  /\ \A i \in 1..Len(backlog) : backlog[i].type = "TestComplete" =>
       /\ pc[backlog[i].from] \in Reported
       /\ \A j \in 1..Len(results) : results[j].id # backlog[i].from
  /\ \A c, d \in Procs : Comparable(learnt[c], learnt[d])

\* Whoever has got past the test info knows everybody.
PeersInv == \A c \in Procs : pc[c] \notin Early \cup {"crashed"} => peers[c] = Procs

VerdictInv == /\ verdict # "none" => phase = "ended"
              /\ verdict \in {"invalid", "crashed"} => Len(results) < N

IInv == /\ TypeInv
        /\ ToldInv
        /\ RegisterInv
        /\ BacklogInv
        /\ ReportInv
        /\ ResultInv
        /\ PeersInv
        /\ VerdictInv

-----------------------------------------------------------------------------
(* What was registered and what was reported is not lost.                  *)

\* Nobody is told anything before everybody is known, also if the coordinator
\* ends early.
KnownInv == Len(known) = N \/ \A c \in Procs : Told(c, 0)

\* A client that waits for the stop signal has handed over its result.
Pending(c) == \E i \in 1..Len(backlog) :
                backlog[i].from = c /\ backlog[i].type = "TestComplete" /\ backlog[i].whole

HeardInv == \A c \in Procs : pc[c] \in {"wait_for_stop", "stopped"} => Heard(c) \/ Pending(c)

\* The turns of the results loop leave no connection behind.
DrainedInv == phase \in {"stop", "verify", "ended"} => backlog = <<>>

BarrierInv == KnownInv /\ HeardInv /\ DrainedInv

-----------------------------------------------------------------------------
(* Whom the coordinator and the clients wait for.                          *)

Known(c) == \E i \in 1..Len(known) : known[i] = c

\* The coordinator has yet to take the registration of c.
Registering(c) == \E i \in 1..Len(backlog) :
                    backlog[i].from = c /\ backlog[i].type = "Register" /\ backlog[i].whole

\* A client that has sent its registration is known, or will be.
RegisteredInv ==
  \A c \in Procs : \/ pc[c] \in {"send_register", "crashed"}
                   \/ Known(c)
                   \/ pc[c] = "read_id" /\ Registering(c)

\* Connections break off, and the coordinator ends early, because of crashes.
CrashInv ==
  /\ \A i \in 1..Len(backlog) : ~ backlog[i].whole => pc[backlog[i].from] = "crashed"
  /\ phase = "aborted" => \E c \in Procs : pc[c] = "crashed"

\* A turn of the results loop yields one result at most.
TurnsInv ==
  /\ phase \in {"register", "test_info", "start"} => results = <<>>
  /\ phase = "results" => Len(results) <= turn

WaitInv == RegisteredInv /\ CrashInv /\ TurnsInv

=============================================================================
