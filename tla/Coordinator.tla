---------------------------- MODULE Coordinator ----------------------------
(***************************************************************************)
(* A test run: LACoordinator and the main functions of its clients, from   *)
(* registration to the verification of the results.                        *)
(*                                                                         *)
(* The coordinator is sequential.  Everything it and a client tell each    *)
(* other is a connection of its own, which waits in the accept queue of    *)
(* the other side's TcpServer: inbox[c] at client c, backlog at the        *)
(* coordinator.  Between Start and TestComplete a client runs the          *)
(* agreement, which is represented by what it promises.  A client may      *)
(* crash, also while it is writing to a connection.                        *)
(***************************************************************************)
EXTENDS Naturals, FiniteSets, SequencesExt, Lattice

CONSTANTS
  Procs,      \* the client processes
  MaxCrashes  \* how many of them may crash

ASSUME CoordinatorAssumption == IsFiniteSet(Procs) /\ Procs # {} /\ MaxCrashes \in Nat

N == Cardinality(Procs)

VARIABLES
  \* coordinator
  phase,      \* the loop it is in; "aborted": an exception ended the program
  turn,       \* turns of that loop so far
  known,      \* known_peers and coordinator_clients: clients by identifier
  backlog,    \* accept queue of the coordinator's TcpServer
  results,    \* what it read from the connections of the clients
  verdict,    \* outcome of the verification; "crashed": it ended the program
  \* clients
  pc,         \* the call of main the client is in, or the next one
  peers,      \* peers[c]: the processes c was told about
  inbox,      \* inbox[c]: accept queue of the client's TcpServer
  proposed, learnt  \* state of the agreement, see LatticeAgreement

coordinatorVars == <<phase, turn, known, results, verdict>>
agreementVars == <<proposed, learnt>>
vars == <<coordinatorVars, backlog, pc, peers, inbox, agreementVars>>

LA == INSTANCE LatticeAgreement

Init == /\ phase = "register" /\ turn = 0
        /\ known = <<>> /\ backlog = <<>> /\ results = <<>>
        /\ verdict = "none"
        /\ pc = [c \in Procs |-> "send_register"]
        /\ peers = [c \in Procs |-> {}]
        /\ inbox = [c \in Procs |-> <<>>]
        /\ LA!AbsInit

\* The coordinator accepts connections, and they can reach it.
Up == phase \notin {"aborted", "ended"}

-----------------------------------------------------------------------------
(* Clients.                                                                *)

\* A connection to the coordinator; one that is not whole breaks off before
\* everything was written.
Connection(type, c, whole) == [type |-> type, from |-> c, whole |-> whole]

MoveTo(c, place) == pc' = [pc EXCEPT ![c] = place]

\* open_socket to the coordinator and the writes, or its exception.
Connect(c, type, place) ==
  IF Up THEN backlog' = Append(backlog, Connection(type, c, TRUE)) /\ MoveTo(c, place)
        ELSE MoveTo(c, "crashed") /\ UNCHANGED backlog

SendRegister(c) ==
  /\ pc[c] = "send_register"
  /\ Connect(c, "Register", "read_id")
  /\ UNCHANGED <<coordinatorVars, peers, inbox, agreementVars>>

\* Mutant of ReadId: main waits for the start signal first.
ReadIdThenStart(c) ==
  /\ pc[c] = "read_id"
  /\ c \in ToSet(known) /\ MoveTo(c, "wait_for_start")
  /\ UNCHANGED <<coordinatorVars, backlog, peers, inbox, agreementVars>>

\* send_register reads the identifier, or finds the connection closed.
ReadId(c) ==
  /\ pc[c] = "read_id"
  /\ \/ c \in ToSet(known) /\ MoveTo(c, "wait_for_test_info")
     \/ c \notin ToSet(known) /\ ~ Up /\ MoveTo(c, "crashed")
  /\ UNCHANGED <<coordinatorVars, backlog, peers, inbox, agreementVars>>

\* accept_client and read_byte: anything but the expected type is an exception.
Take(c, type, place) ==
  /\ inbox[c] # <<>>
  /\ inbox' = [inbox EXCEPT ![c] = Tail(@)]
  /\ MoveTo(c, IF Head(inbox[c]).type = type THEN place ELSE "crashed")

\* The list of peers is taken over; main then creates the protocol server.
WaitForTestInfo(c) ==
  /\ pc[c] = "wait_for_test_info"
  /\ Take(c, "TestInfo", "wait_for_start")
  /\ peers' = [peers EXCEPT ![c] = Head(inbox[c]).peers]
  /\ UNCHANGED <<coordinatorVars, backlog, agreementVars>>

\* main goes on to call start of the agreement.
WaitForStart(c) ==
  /\ pc[c] = "wait_for_start"
  /\ Take(c, "Start", "start")
  /\ IF pc'[c] = "start" THEN LA!Call(c) ELSE UNCHANGED agreementVars
  /\ UNCHANGED <<coordinatorVars, backlog, peers>>

\* start returns.
Finish(c) ==
  /\ pc[c] = "start"
  /\ \E v \in SUBSET proposed : LA!Return(c, v)
  /\ MoveTo(c, "send_test_complete")
  /\ UNCHANGED <<coordinatorVars, backlog, peers, inbox>>

SendTestComplete(c) ==
  /\ pc[c] = "send_test_complete"
  /\ Connect(c, "TestComplete", "wait_for_stop")
  /\ UNCHANGED <<coordinatorVars, peers, inbox, agreementVars>>

\* The protocol server, and with it the acceptor, is stopped.
WaitForStop(c) ==
  /\ pc[c] = "wait_for_stop"
  /\ Take(c, "Stop", "stopped")
  /\ UNCHANGED <<coordinatorVars, backlog, peers, agreementVars>>

\* The process ends; what it was writing to the coordinator breaks off.
Crash(c) ==
  /\ pc[c] \notin {"stopped", "crashed"}
  /\ Cardinality({d \in Procs : pc[d] = "crashed"}) < MaxCrashes
  /\ MoveTo(c, "crashed")
  /\ \/ UNCHANGED backlog
     \/ Up /\ pc[c] = "send_register" /\ backlog' = Append(backlog, Connection("Register", c, FALSE))
     \/ Up /\ pc[c] = "send_test_complete" /\ backlog' = Append(backlog, Connection("TestComplete", c, FALSE))
  /\ UNCHANGED <<coordinatorVars, peers, inbox, agreementVars>>

Client(c) == \/ SendRegister(c) \/ ReadId(c)
             \/ WaitForTestInfo(c) \/ WaitForStart(c)
             \/ Finish(c) \/ SendTestComplete(c) \/ WaitForStop(c)

-----------------------------------------------------------------------------
(* Coordinator.                                                            *)

\* Mutants of the loop bounds: one client is not awaited; one too many is.
AllButOne == N - 1
OneMore == N + 1

\* The bounds of the loops over registrations and over results.
Registrations == N
ResultsAwaited == N

\* The end of a turn, and of the loop after so many of them.
NextTurn(turns, next) ==
  IF turn + 1 = turns THEN phase' = next /\ turn' = 0
                      ELSE turn' = turn + 1 /\ UNCHANGED phase

Abort == phase' = "aborted" /\ UNCHANGED turn

\* One turn of the registration loop.  Exceptions end the program.
AcceptRegister ==
  /\ phase = "register"
  /\ backlog # <<>>
  /\ backlog' = Tail(backlog)
  /\ LET m == Head(backlog)
     IN  IF m.type = "Register" /\ m.whole
         THEN known' = Append(known, m.from) /\ NextTurn(Registrations, "test_info")
         ELSE Abort /\ UNCHANGED known
  /\ UNCHANGED <<results, verdict, pc, peers, inbox, agreementVars>>

\* open_socket and the writes to the client of this turn succeed.
Tell(c, message) == /\ pc[c] # "crashed"
                    /\ inbox' = [inbox EXCEPT ![c] = Append(@, message)]

SendTestInfo ==
  /\ phase = "test_info"
  /\ LET c == known[turn + 1]
     IN  \/ Tell(c, [type |-> "TestInfo", peers |-> ToSet(known)]) /\ NextTurn(Len(known), "start")
         \/ pc[c] = "crashed" /\ Abort /\ UNCHANGED inbox
  /\ UNCHANGED <<known, backlog, results, verdict, pc, peers, agreementVars>>

SendStart ==
  /\ phase = "start"
  /\ LET c == known[turn + 1]
     IN  \/ Tell(c, [type |-> "Start"]) /\ NextTurn(Len(known), "results")
         \/ pc[c] = "crashed" /\ Abort /\ UNCHANGED inbox
  /\ UNCHANGED <<known, backlog, results, verdict, pc, peers, agreementVars>>

\* One turn of the results loop: a connection that breaks off throws, which is
\* logged, and the turn is over.
WaitForResult ==
  /\ phase = "results"
  /\ backlog # <<>>
  /\ backlog' = Tail(backlog)
  /\ LET m == Head(backlog)
     IN  results' = IF m.type = "TestComplete" /\ m.whole
                    THEN Append(results, [id |-> m.from, value |-> learnt[m.from]])
                    ELSE results
  /\ NextTurn(ResultsAwaited, "stop")
  /\ UNCHANGED <<known, verdict, pc, peers, inbox, agreementVars>>

\* One turn of the stop loop: a client that cannot be reached is skipped.
SendStop ==
  /\ phase = "stop"
  /\ LET c == known[turn + 1]
     IN  \/ Tell(c, [type |-> "Stop"])
         \/ pc[c] = "crashed" /\ UNCHANGED inbox
  /\ NextTurn(Len(known), "verify")
  /\ UNCHANGED <<known, backlog, results, verdict, pc, peers, agreementVars>>

\* Every pair of n results is compared; reading beyond the end of results can
\* yield anything, or end the program.
Verify ==
  /\ phase = "verify"
  /\ verdict' \in IF Len(results) < N THEN {"valid", "invalid", "crashed"}
                  ELSE IF \A i, j \in 1..N : Comparable(results[i].value, results[j].value)
                       THEN {"valid"} ELSE {"invalid"}
  /\ phase' = "ended"
  /\ UNCHANGED <<turn, known, backlog, results, pc, peers, inbox, agreementVars>>

Coordinate == \/ AcceptRegister \/ SendTestInfo \/ SendStart
              \/ WaitForResult \/ SendStop \/ Verify

Next == Coordinate \/ \E c \in Procs : Client(c) \/ Crash(c)

Spec == Init /\ [][Next]_vars

\* The coordinator and the clients that run are scheduled, and connections to
\* processes that are up succeed; nobody has to crash.
FairSpec == Spec /\ WF_vars(Coordinate) /\ \A c \in Procs : WF_vars(Client(c))

-----------------------------------------------------------------------------
(* Properties.                                                             *)

Places == {"send_register", "read_id", "wait_for_test_info", "wait_for_start",
           "start", "send_test_complete", "wait_for_stop", "stopped", "crashed"}

(* Types; no more results, registrations or turns than there are clients.  *)
TypeOK ==
  /\ phase \in {"register", "test_info", "start", "results", "stop", "verify",
                "ended", "aborted"}
  /\ turn \in 0..(N - 1)
  /\ known \in Seq(Procs) /\ Len(known) <= N
  /\ backlog \in Seq([type : {"Register", "TestComplete"}, from : Procs, whole : BOOLEAN])
  /\ results \in Seq([id : Procs, value : SUBSET Procs]) /\ Len(results) <= N
  /\ verdict \in {"none", "valid", "invalid", "crashed"}
  /\ pc \in [Procs -> Places]
  /\ peers \in [Procs -> SUBSET Procs]
  /\ \A c \in Procs : inbox[c] \in
       Seq([type : {"TestInfo"}, peers : SUBSET Procs] \cup [type : {"Start", "Stop"}])
  /\ LA!AbsTypeOK

(* A client that enters the agreement has been told about every process:   *)
(* it proposes to all acceptors, and its majorities are those of n.        *)
PeersComplete ==
  \A c \in Procs : pc[c] \in {"start", "send_test_complete"} => peers[c] = Procs

(* No process, and so no acceptor, is stopped while another one is still   *)
(* inside the agreement and may need its answers.                          *)
NobodyStopsEarly ==
  \A c, d \in Procs : pc[c] = "stopped" => pc[d] \notin {"wait_for_start", "start"}

(* A client that is waiting never finds a message of another step in its   *)
(* accept queue, which would end it with an exception.                     *)
NoWrongMessage ==
  \A c \in Procs : inbox[c] # <<>> =>
    /\ pc[c] = "wait_for_test_info" => Head(inbox[c]).type = "TestInfo"
    /\ pc[c] = "wait_for_start" => Head(inbox[c]).type = "Start"
    /\ pc[c] = "wait_for_stop" => Head(inbox[c]).type = "Stop"

(* The verification reports correct agreement as correct whenever all      *)
(* results have arrived, and it has seen one result of every process.      *)
NoFalseAlarm ==
  /\ verdict \in {"invalid", "crashed"} => Len(results) < N
  /\ Len(results) = N => {results[i].id : i \in 1..N} = Procs

(* The verification reads n results, so n results have to be there.        *)
ResultsComplete == phase = "verify" => Len(results) = N

(* Unless somebody crashes, the test ends: everybody is stopped, and the   *)
(* coordinator has given its verdict.                                      *)
TestEnds ==
  <>(\/ phase = "ended" /\ \A c \in Procs : pc[c] = "stopped"
     \/ \E c \in Procs : pc[c] = "crashed")

\* The coordinator has the result of c.
Heard(c) == \E i \in 1..Len(results) : results[i].id = c

(* The verification has the result of every client that has not crashed.   *)
SurvivorsHeard ==
  phase \in {"verify", "ended"} => \A c \in Procs : pc[c] = "crashed" \/ Heard(c)

\* The coordinator is through, or waits for a connection.
CoordinatorWaits == \/ phase \in {"ended", "aborted"}
                    \/ phase \in {"register", "results"} /\ backlog = <<>>

\* A client is through, or waits for the coordinator.
ClientWaits(c) == \/ pc[c] \in {"stopped", "crashed"}
                  \/ pc[c] = "read_id" /\ c \notin ToSet(known) /\ Up
                  \/ /\ pc[c] \in {"wait_for_test_info", "wait_for_start", "wait_for_stop"}
                     /\ inbox[c] = <<>>

(* When everybody waits for somebody else, the test is over for all that   *)
(* have not crashed, or a crash is what the others wait for.               *)
NoDeadlock ==
  CoordinatorWaits /\ (\A c \in Procs : ClientWaits(c)) =>
    IF phase = "ended" THEN \A c \in Procs : pc[c] \in {"stopped", "crashed"}
                       ELSE \E c \in Procs : pc[c] = "crashed"

\* What the calls of main amount to.
Stage == [send_register |-> "outside", read_id |-> "outside",
          wait_for_test_info |-> "outside", wait_for_start |-> "outside",
          start |-> "inside", send_test_complete |-> "done", wait_for_stop |-> "done",
          stopped |-> "dismissed", crashed |-> "failed"]

(* The coordinator and its clients implement a test with two barriers: no  *)
(* call of start before everybody is registered, no client stopped before  *)
(* everybody is past the agreement, and no bad verdict without a crash.    *)
Test == INSTANCE AgreementTest WITH joined <- ToSet(known),
                                    stage <- [c \in Procs |-> Stage[pc[c]]]

ImplementsTest == Test!TestSpec

=============================================================================
