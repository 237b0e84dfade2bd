-------------------------- MODULE CoordinatorProofs -------------------------
(***************************************************************************)
(* Proofs about Coordinator for any finite set of clients, of which any    *)
(* number may crash.                                                       *)
(***************************************************************************)
EXTENDS CoordinatorInv, FiniteSetTheorems, SequenceTheorems, TLAPS

-----------------------------------------------------------------------------
(* Clients and connections.                                                *)

(* There is at least one client.                                           *)
LEMMA Clients == N \in Nat /\ N >= 1
<1>1. N \in Nat /\ N # 0
  BY CoordinatorAssumption, FS_CardinalityType, FS_EmptySet DEF N
<1>2. QED BY <1>1

(* Sets of clients are finite, and no larger than all of them.              *)
LEMMA ClientSets ==
  ASSUME NEW S, S \subseteq Procs
  PROVE  IsFiniteSet(S) /\ Cardinality(S) \in Nat /\ Cardinality(S) <= N
BY CoordinatorAssumption, FS_Subset, FS_CardinalityType DEF N

(* A list without repetitions has at most N clients, and all if it has N.  *)
LEMMA Enumeration ==
  ASSUME NEW n \in Nat, NEW f \in [1..n -> Procs],
         \A i, j \in 1..n : f[i] = f[j] => i = j
  PROVE  n <= N /\ (n = N => \A c \in Procs : \E i \in 1..n : f[i] = c)
<1> DEFINE S == {f[i] : i \in 1..n}
<1>1. S \subseteq Procs
  OBVIOUS
<1>2. f \in Bijection(1..n, S)
  BY DEF Bijection, Injection, Surjection, IsInjective
<1>3. Cardinality(S) = n
  <2>1. ExistsBijection(1..n, S)
    BY <1>2 DEF ExistsBijection
  <2> HIDE DEF S
  <2>2. QED BY <2>1, FS_CountingElements
<1>4. n <= N
  BY <1>1, <1>3, ClientSets
<1>5. n = N => S = Procs
  BY <1>1, <1>3, CoordinatorAssumption, FS_Subset DEF N
<1>6. QED BY <1>4, <1>5

(* After the registration the coordinator knows every client.              *)
LEMMA AllKnown ==
  ASSUME IInv
  PROVE  /\ Len(known) \in Nat /\ Len(known) <= N
         /\ \A i \in 1..Len(known) : known[i] \in Procs
         /\ Len(known) = N => \A c \in Procs : \E i \in 1..Len(known) : known[i] = c
<1>1. known \in Seq(Procs)
  BY DEF IInv, TypeInv
<1>2. Len(known) \in Nat /\ known \in [1..Len(known) -> Procs]
  BY <1>1, LenProperties
<1>3. \A i, j \in 1..Len(known) : known[i] = known[j] => i = j
  BY DEF IInv, RegisterInv
<1>4. QED BY <1>2, <1>3, Enumeration

(* Every client stands where the messages sent to it may have led.         *)
LEMMA ToldSomething ==
  ASSUME IInv, NEW c \in Procs
  PROVE  \E k \in 0..3 : Told(c, k)
<1>1. ASSUME NEW k \in 0..2, ToldInTurns(k), Len(known) = N
      PROVE  \E j \in 0..3 : Told(c, j)
  <2>1. PICK i \in 1..Len(known) : known[i] = c
    BY <1>1, AllKnown
  <2>2. Told(c, IF i <= turn THEN k + 1 ELSE k)
    BY <1>1, <2>1 DEF ToldInTurns
  <2>3. QED BY <2>2
<1>2. CASE phase \in {"test_info", "start", "stop"}
  <2>1. Len(known) = N
    BY <1>2 DEF IInv, RegisterInv
  <2>2. \E k \in 0..2 : ToldInTurns(k)
    BY <1>2 DEF IInv, ToldInv
  <2>3. QED BY <1>1, <2>1, <2>2
<1>3. CASE phase \in {"register", "results", "verify", "ended", "aborted"}
  BY <1>3 DEF IInv, ToldInv
<1>4. QED BY <1>2, <1>3 DEF IInv, TypeInv

\* Whatever can be in the accept queue of the coordinator.
Connections == [type : {"Register", "TestComplete"}, from : Procs, whole : BOOLEAN]

(* Connections and results come from clients.                              *)
LEMMA Origins ==
  ASSUME TypeInv
  PROVE  /\ Len(backlog) \in Nat /\ \A i \in 1..Len(backlog) : backlog[i].from \in Procs
         /\ Len(results) \in Nat /\ \A i \in 1..Len(results) : results[i].id \in Procs
<1> DEFINE R == [id : Procs, value : SUBSET Procs]
<1>1. backlog \in Seq(Connections) /\ results \in Seq(R)
  BY DEF TypeInv, Connections
<1>2. \A x \in Connections : x.from \in Procs
  BY DEF Connections
<1>3. \A x \in R : x.id \in Procs
  OBVIOUS
<1> HIDE DEF R
<1>4. \A i \in 1..Len(backlog) : backlog[i] \in Connections
  BY <1>1, ElementOfSeq
<1>5. \A i \in 1..Len(results) : results[i] \in R
  BY <1>1, ElementOfSeq
<1>6. QED BY <1>1, <1>2, <1>3, <1>4, <1>5, LenProperties

(* The backlog without its first connection.                               *)
LEMMA BacklogTail ==
  ASSUME TypeInv, backlog # <<>>
  PROVE  /\ Head(backlog) = backlog[1] /\ backlog[1] \in Connections
         /\ Len(backlog) \in Nat /\ Len(backlog) >= 1 /\ 1 \in 1..Len(backlog)
         /\ Len(Tail(backlog)) = Len(backlog) - 1
         /\ Tail(backlog) \in Seq(Connections)
         /\ \A i \in 1..Len(Tail(backlog)) : /\ i + 1 \in 1..Len(backlog)
                                             /\ Tail(backlog)[i] = backlog[i + 1]
<1>1. backlog \in Seq(Connections)
  BY DEF TypeInv, Connections
<1>2. Len(backlog) \in Nat /\ Len(backlog) # 0
  BY <1>1, EmptySeq
<1>3. 1 \in 1..Len(backlog)
  BY <1>2
<1>4. backlog[1] \in Connections
  BY <1>1, <1>3, ElementOfSeq
<1>5. /\ Tail(backlog) \in Seq(Connections)
      /\ Len(Tail(backlog)) = Len(backlog) - 1
      /\ \A i \in 1..Len(Tail(backlog)) : Tail(backlog)[i] = backlog[i + 1]
  BY <1>1, HeadTailProperties
<1>6. \A i \in 1..Len(Tail(backlog)) : i + 1 \in 1..Len(backlog)
  BY <1>2, <1>5
<1>7. QED BY <1>2, <1>3, <1>4, <1>5, <1>6

(* A connection more.                                                      *)
LEMMA BacklogAppend ==
  ASSUME TypeInv, NEW x \in Connections
  PROVE  /\ Len(backlog) \in Nat
         /\ Append(backlog, x) \in Seq(Connections)
         /\ Len(Append(backlog, x)) = Len(backlog) + 1
         /\ \A i \in 1..Len(backlog) : Append(backlog, x)[i] = backlog[i]
         /\ Append(backlog, x)[Len(backlog) + 1] = x
<1>1. backlog \in Seq(Connections)
  BY DEF TypeInv, Connections
<1>2. QED BY <1>1, AppendProperties, LenProperties

-----------------------------------------------------------------------------
(* The steps of the clients.                                               *)

\* What connections a client c opens when it moves.
Opens(c) ==
  \/ backlog' = backlog
  \/ \E w \in BOOLEAN : /\ backlog' = Append(backlog, Connection("Register", c, w))
                        /\ pc[c] = "send_register"
  \/ \E w \in BOOLEAN : /\ backlog' = Append(backlog, Connection("TestComplete", c, w))
                        /\ pc[c] = "send_test_complete" /\ pc'[c] \in Reported

\* What the invariant needs to know about a step of client c.
Moves(c) ==
  /\ UNCHANGED coordinatorVars
  /\ pc' \in [Procs -> Places] /\ inbox' \in [Procs -> Inboxes]
  /\ peers' \in [Procs -> SUBSET Procs]
  /\ \A d \in Procs \ {c} : pc'[d] = pc[d] /\ inbox'[d] = inbox[d] /\ peers'[d] = peers[d]
  /\ pc'[c] # "send_register" /\ (pc[c] \in Reported => pc'[c] \in Reported)
  /\ \A k \in 0..3 : Told(c, k) => Told(c, k)'
  /\ pc'[c] \notin Early \cup {"crashed"} => peers'[c] = Procs
  /\ Opens(c)

(* Moving one client changes its own place.                                *)
LEMMA MoveToIs ==
  ASSUME TypeInv, NEW c \in Procs, NEW place \in Places, MoveTo(c, place)
  PROVE  pc' \in [Procs -> Places] /\ pc'[c] = place /\ \A d \in Procs \ {c} : pc'[d] = pc[d]
BY DEF TypeInv, MoveTo

(* Lists of one or two elements.                                           *)
LEMMA Short ==
  ASSUME NEW x, NEW y
  PROVE  /\ Head(<<x>>) = x /\ Tail(<<x>>) = <<>> /\ <<x>> # <<>>
         /\ Head(<<x, y>>) = x /\ Tail(<<x, y>>) = <<y>> /\ <<x, y>> # <<>>
         /\ Append(<<>>, x) = <<x>>
OBVIOUS

(* Appending to a list of one element.                                      *)
LEMMA AppendSecond ==
  ASSUME NEW S, NEW x \in S, NEW y \in S
  PROVE  Append(<<x>>, y) = <<x, y>>
<1>1. <<x>> \in Seq(S) /\ Len(<<x>>) = 1 /\ <<x>>[1] = x
  OBVIOUS
<1>2. /\ <<x, y>> \in Seq(S) /\ Len(<<x, y>>) = 2 /\ <<x, y>>[1] = x /\ <<x, y>>[2] = y
  OBVIOUS
<1>3. Append(<<x>>, y) \in Seq(S)
  BY <1>1, AppendProperties
<1>4. Len(Append(<<x>>, y)) = 2
  BY <1>1
<1>5. Append(<<x>>, y)[1] = x
  BY <1>1
<1>6. Append(<<x>>, y)[2] = y
  BY <1>1
<1>7. \A i \in 1..2 : Append(<<x>>, y)[i] = <<x, y>>[i]
  BY <1>2, <1>5, <1>6
<1>8. QED BY <1>2, <1>3, <1>4, <1>7, SeqEqual

(* The accept queues that occur.                                           *)
LEMMA Queues ==
  /\ Head(<<TestInfo>>) = TestInfo /\ Tail(<<TestInfo>>) = <<>>
  /\ Head(<<TestInfo, StartSignal>>) = TestInfo
  /\ Tail(<<TestInfo, StartSignal>>) = <<StartSignal>>
  /\ Head(<<StartSignal>>) = StartSignal /\ Tail(<<StartSignal>>) = <<>>
  /\ Head(<<StopSignal>>) = StopSignal /\ Tail(<<StopSignal>>) = <<>>
  /\ Append(<<>>, TestInfo) = <<TestInfo>>
  /\ Append(<<TestInfo>>, StartSignal) = <<TestInfo, StartSignal>>
  /\ Append(<<>>, StartSignal) = <<StartSignal>> /\ Append(<<>>, StopSignal) = <<StopSignal>>
  /\ <<TestInfo>> # <<>> /\ <<TestInfo, StartSignal>> # <<>> /\ <<StartSignal>> # <<>>
  /\ <<StopSignal>> # <<>>
<1>1. \A x : /\ Head(<<x>>) = x /\ Tail(<<x>>) = <<>> /\ <<x>> # <<>>
             /\ Append(<<>>, x) = <<x>>
  BY Short
<1>2. \A x : \A y : Head(<<x, y>>) = x /\ Tail(<<x, y>>) = <<y>> /\ <<x, y>> # <<>>
  BY Short
<1>3. \A x : \A y : Append(<<x>>, y) = <<x, y>>
  <2> SUFFICES ASSUME NEW x, NEW y PROVE Append(<<x>>, y) = <<x, y>>
    OBVIOUS
  <2> DEFINE S == {x, y}
  <2>1. x \in S /\ y \in S
    OBVIOUS
  <2> HIDE DEF S
  <2>2. QED BY <2>1, AppendSecond
<1>4. QED BY <1>1, <1>2, <1>3

(* What a client finds in its queue when it waits, and what stays there.   *)
LEMMA TakeIs ==
  ASSUME IInv, NEW c \in Procs, NEW type \in {"TestInfo", "Start", "Stop"},
         NEW place \in {"wait_for_start", "start", "stopped"}, Take(c, type, place),
         \/ pc[c] = "wait_for_test_info" /\ type = "TestInfo" /\ place = "wait_for_start"
         \/ pc[c] = "wait_for_start" /\ type = "Start" /\ place = "start"
         \/ pc[c] = "wait_for_stop" /\ type = "Stop" /\ place = "stopped"
  PROVE  /\ pc' \in [Procs -> Places] /\ pc'[c] = place
         /\ inbox' \in [Procs -> Inboxes]
         /\ \A d \in Procs \ {c} : pc'[d] = pc[d] /\ inbox'[d] = inbox[d]
         /\ \A k \in 0..3 : Told(c, k) => Told(c, k)'
         /\ type = "TestInfo" => Head(inbox[c]).peers = Procs
<1>1. TypeInv /\ inbox[c] # <<>> /\ pc[c] # "crashed"
  BY DEF IInv, Take
<1>2. inbox' = [inbox EXCEPT ![c] = Tail(inbox[c])]
  BY DEF Take
<1>3. /\ pc[c] = "wait_for_test_info" =>
           /\ inbox[c] \in {<<TestInfo>>, <<TestInfo, StartSignal>>}
           /\ Head(inbox[c]) = TestInfo
      /\ pc[c] = "wait_for_start" => inbox[c] = <<StartSignal>> /\ Head(inbox[c]) = StartSignal
      /\ pc[c] = "wait_for_stop" => inbox[c] = <<StopSignal>> /\ Head(inbox[c]) = StopSignal
  <2>1. PICK k \in 0..3 : Told(c, k)
    BY ToldSomething
  <2>2. QED BY <1>1, <2>1, Queues DEF Told, Early
<1>4. Head(inbox[c]).type = type /\ (type = "TestInfo" => Head(inbox[c]).peers = Procs)
  BY <1>3 DEF TestInfo, StartSignal, StopSignal
<1>5. /\ pc' \in [Procs -> Places] /\ pc'[c] = place
      /\ \A d \in Procs \ {c} : pc'[d] = pc[d]
  <2>1. MoveTo(c, place)
    BY <1>4 DEF Take
  <2>2. place \in Places
    BY DEF Places
  <2>3. QED BY <1>1, <2>1, <2>2, MoveToIs
<1>6. /\ pc[c] = "wait_for_test_info" => Tail(inbox[c]) \in {<<>>, <<StartSignal>>}
      /\ pc[c] = "wait_for_start" => Tail(inbox[c]) = <<>>
      /\ pc[c] = "wait_for_stop" => Tail(inbox[c]) = <<>>
  BY <1>3, Queues
<1>7. /\ inbox' \in [Procs -> Inboxes] /\ inbox'[c] = Tail(inbox[c])
      /\ \A d \in Procs \ {c} : inbox'[d] = inbox[d]
  <2>1. Tail(inbox[c]) \in Inboxes
    BY <1>6 DEF Inboxes
  <2>2. QED BY <1>1, <1>2, <2>1 DEF TypeInv
<1>8. ASSUME NEW k \in 0..3, Told(c, k) PROVE Told(c, k)'
  <2>1. CASE pc[c] = "wait_for_test_info"
    <3>1. \/ k = 1 /\ inbox[c] = <<TestInfo>>
          \/ k = 2 /\ inbox[c] = <<TestInfo, StartSignal>>
      BY <1>1, <1>8, <2>1 DEF Told, Early
    <3>2. \/ k = 1 /\ inbox'[c] = <<>>
          \/ k = 2 /\ inbox'[c] = <<StartSignal>>
      BY <1>7, <3>1, Queues
    <3>3. QED BY <1>5, <2>1, <3>2 DEF Told
  <2>2. CASE pc[c] = "wait_for_start"
    <3>1. k = 2 /\ inbox'[c] = <<>>
      BY <1>1, <1>6, <1>7, <1>8, <2>2 DEF Told, Early
    <3>2. QED BY <1>5, <2>2, <3>1 DEF Told
  <2>3. CASE pc[c] = "wait_for_stop"
    <3>1. k = 3 /\ inbox'[c] = <<>>
      BY <1>1, <1>6, <1>7, <1>8, <2>3 DEF Told, Early
    <3>2. QED BY <1>5, <2>3, <3>1 DEF Told
  <2>4. QED BY <2>1, <2>2, <2>3
<1>9. QED BY <1>4, <1>5, <1>7, <1>8

\* Before the process answers, the agreement may move.
Agrees(c) ==
  /\ proposed' \subseteq Procs /\ learnt' \in [Procs -> SUBSET Procs]
  /\ pc[c] # "start" => learnt' = learnt
  /\ \A d \in Procs \ {c} : learnt'[d] = learnt[d]
  /\ \A d \in Procs : \A e \in Procs : Comparable(learnt'[d], learnt'[e])

(* What is known of the agreement outlives a step that learns nothing.     *)
LEMMA NoAgreement ==
  ASSUME IInv, NEW c, UNCHANGED learnt, proposed' \subseteq Procs
  PROVE  Agrees(c)
BY DEF IInv, TypeInv, ResultInv, Agrees

(* A client that leaves its accept queue and peers alone.                  *)
LEMMA QuietMove ==
  ASSUME IInv, NEW c \in Procs, NEW place \in Places, MoveTo(c, place),
         UNCHANGED <<coordinatorVars, peers, inbox>>,
         place # "send_register", pc[c] \in Reported => place \in Reported,
         \A k \in 0..3 : Told(c, k) => Told(c, k)',
         place \notin Early \cup {"crashed"} => pc[c] \notin Early \cup {"crashed"},
         Opens(c)
  PROVE  Moves(c)
<1>1. TypeInv
  BY DEF IInv
<1>2. /\ pc' \in [Procs -> Places] /\ pc'[c] = place
      /\ \A d \in Procs \ {c} : pc'[d] = pc[d]
  BY <1>1, MoveToIs
<1>3. pc'[c] \notin Early \cup {"crashed"} => peers'[c] = Procs
  BY <1>2 DEF IInv, PeersInv
<1>4. QED BY <1>1, <1>2, <1>3 DEF Moves, TypeInv

(* A connection to the coordinator, or an exception that ends the client.  *)
LEMMA ConnectMove ==
  ASSUME IInv, NEW c \in Procs, NEW type, NEW place,
         \/ /\ pc[c] = "send_register"
            /\ type = "Register" /\ place = "read_id"
         \/ /\ pc[c] = "send_test_complete"
            /\ type = "TestComplete" /\ place = "wait_for_stop",
         Connect(c, type, place), UNCHANGED <<coordinatorVars, peers, inbox>>
  PROVE  Moves(c)
<1>1. TypeInv
  BY DEF IInv
<1>2. CASE Up
  <2>1. MoveTo(c, place) /\ backlog' = Append(backlog, Connection(type, c, TRUE))
    BY <1>2 DEF Connect
  <2>2. place \in Places
    BY DEF Places
  <2>3. pc'[c] = place
    BY <1>1, <2>1, <2>2, MoveToIs
  <2>4. Opens(c)
    BY <2>1, <2>3 DEF Opens, Reported
  <2>5. \A k \in 0..3 : Told(c, k) => Told(c, k)'
    BY <2>3 DEF Told, Early
  <2>6. QED BY <2>1, <2>2, <2>4, <2>5, QuietMove DEF Reported, Early
<1>3. CASE ~ Up
  <2>1. MoveTo(c, "crashed") /\ backlog' = backlog
    BY <1>3 DEF Connect
  <2>2. "crashed" \in Places
    BY DEF Places
  <2>3. pc'[c] = "crashed"
    BY <1>1, <2>1, <2>2, MoveToIs
  <2>4. Opens(c) /\ \A k \in 0..3 : Told(c, k) => Told(c, k)'
    BY <2>1, <2>3 DEF Opens, Told
  <2>5. QED BY <2>1, <2>2, <2>4, QuietMove DEF Reported, Early
<1>4. QED BY <1>2, <1>3

(* send_register opens a connection before it reads the identifier.         *)
LEMMA SendRegisterMove ==
  ASSUME IInv, NEW c \in Procs, SendRegister(c) PROVE Moves(c) /\ Agrees(c)
<1>1. Moves(c)
  BY ConnectMove DEF SendRegister
<1>2. Agrees(c)
  BY NoAgreement DEF SendRegister, agreementVars, IInv, TypeInv
<1>3. QED BY <1>1, <1>2

(* send_test_complete opens a connection; then the client has reported.     *)
LEMMA SendTestCompleteMove ==
  ASSUME IInv, NEW c \in Procs, SendTestComplete(c) PROVE Moves(c) /\ Agrees(c)
<1>1. Moves(c)
  BY ConnectMove DEF SendTestComplete
<1>2. Agrees(c)
  BY NoAgreement DEF SendTestComplete, agreementVars, IInv, TypeInv
<1>3. QED BY <1>1, <1>2

(* Reading the identifier, or finding the connection closed.                *)
LEMMA ReadIdMove ==
  ASSUME IInv, NEW c \in Procs, ReadId(c) PROVE Moves(c) /\ Agrees(c)
<1>1. TypeInv
  BY DEF IInv
<1>2. PICK place \in {"wait_for_test_info", "crashed"} : MoveTo(c, place)
  BY DEF ReadId
<1>3. place \in Places
  BY DEF Places
<1>4. pc[c] = "read_id" /\ pc'[c] = place
  BY <1>1, <1>2, <1>3, MoveToIs DEF ReadId
<1>5. Opens(c) /\ \A k \in 0..3 : Told(c, k) => Told(c, k)'
  BY <1>4 DEF ReadId, Opens, Told, Early
<1>6. Moves(c)
  BY <1>2, <1>3, <1>4, <1>5, QuietMove DEF ReadId, Reported, Early
<1>7. Agrees(c)
  BY NoAgreement DEF ReadId, agreementVars, IInv, TypeInv
<1>8. QED BY <1>6, <1>7

(* A crash may leave half a connection behind.                             *)
LEMMA CrashMove ==
  ASSUME IInv, NEW c \in Procs, Crash(c) PROVE Moves(c) /\ Agrees(c)
<1>1. TypeInv
  BY DEF IInv
<1>2. "crashed" \in Places
  BY DEF Places
<1>3. pc'[c] = "crashed"
  BY <1>1, <1>2, MoveToIs DEF Crash
<1>4. Opens(c) /\ \A k \in 0..3 : Told(c, k) => Told(c, k)'
  BY <1>3 DEF Crash, Opens, Told, Reported
<1>5. Moves(c)
  BY <1>2, <1>4, QuietMove DEF Crash, Reported, Early
<1>6. Agrees(c)
  BY NoAgreement DEF Crash, agreementVars, IInv, TypeInv
<1>7. QED BY <1>5, <1>6

(* A client takes over the list of peers, which is complete.               *)
LEMMA WaitForTestInfoMove ==
  ASSUME IInv, NEW c \in Procs, WaitForTestInfo(c) PROVE Moves(c) /\ Agrees(c)
<1>1. /\ pc[c] = "wait_for_test_info" /\ Take(c, "TestInfo", "wait_for_start")
      /\ peers' = [peers EXCEPT ![c] = Head(inbox[c]).peers]
      /\ UNCHANGED <<coordinatorVars, backlog, agreementVars>>
  BY DEF WaitForTestInfo
<1>2. /\ pc' \in [Procs -> Places] /\ pc'[c] = "wait_for_start"
      /\ inbox' \in [Procs -> Inboxes]
      /\ \A d \in Procs \ {c} : pc'[d] = pc[d] /\ inbox'[d] = inbox[d]
      /\ \A k \in 0..3 : Told(c, k) => Told(c, k)'
      /\ Head(inbox[c]).peers = Procs
  BY <1>1, TakeIs
<1>3. /\ peers' \in [Procs -> SUBSET Procs] /\ peers'[c] = Procs
      /\ \A d \in Procs \ {c} : peers'[d] = peers[d]
  BY <1>1, <1>2 DEF IInv, TypeInv
<1>4. Moves(c)
  BY <1>1, <1>2, <1>3 DEF Moves, Opens, Reported
<1>5. Agrees(c)
  BY <1>1, NoAgreement DEF agreementVars, IInv, TypeInv
<1>6. QED BY <1>4, <1>5

(* A client that is started calls start.                                   *)
LEMMA WaitForStartMove ==
  ASSUME IInv, NEW c \in Procs, WaitForStart(c) PROVE Moves(c) /\ Agrees(c)
<1>1. /\ pc[c] = "wait_for_start" /\ Take(c, "Start", "start")
      /\ UNCHANGED <<coordinatorVars, backlog, peers>>
  BY DEF WaitForStart
<1>2. /\ pc' \in [Procs -> Places] /\ pc'[c] = "start"
      /\ inbox' \in [Procs -> Inboxes]
      /\ \A d \in Procs \ {c} : pc'[d] = pc[d] /\ inbox'[d] = inbox[d]
      /\ \A k \in 0..3 : Told(c, k) => Told(c, k)'
  BY <1>1, TakeIs
<1>3. peers'[c] = Procs
  BY <1>1 DEF IInv, PeersInv, Early
<1>4. Moves(c)
  BY <1>1, <1>2, <1>3 DEF Moves, Opens, Reported, IInv, TypeInv
<1>5. proposed' \subseteq Procs /\ learnt' = learnt
  BY <1>2 DEF WaitForStart, LA!Call, agreementVars, IInv, TypeInv
<1>6. Agrees(c)
  BY <1>5, NoAgreement
<1>7. QED BY <1>4, <1>6

(* wait_for_stop finds nothing but the stop signal.                         *)
LEMMA WaitForStopMove ==
  ASSUME IInv, NEW c \in Procs, WaitForStop(c) PROVE Moves(c) /\ Agrees(c)
<1>1. /\ pc[c] = "wait_for_stop" /\ Take(c, "Stop", "stopped")
      /\ UNCHANGED <<coordinatorVars, backlog, peers, agreementVars>>
  BY DEF WaitForStop
<1>2. /\ pc' \in [Procs -> Places] /\ pc'[c] = "stopped"
      /\ inbox' \in [Procs -> Inboxes]
      /\ \A d \in Procs \ {c} : pc'[d] = pc[d] /\ inbox'[d] = inbox[d]
      /\ \A k \in 0..3 : Told(c, k) => Told(c, k)'
  BY <1>1, TakeIs
<1>3. peers'[c] = Procs
  BY <1>1 DEF IInv, PeersInv, Early
<1>4. Moves(c)
  BY <1>1, <1>2, <1>3 DEF Moves, Opens, Reported, IInv, TypeInv
<1>5. Agrees(c)
  BY <1>1, NoAgreement DEF agreementVars, IInv, TypeInv
<1>6. QED BY <1>4, <1>5

(* start returns: a value comparable with all others.                      *)
LEMMA FinishMove ==
  ASSUME IInv, NEW c \in Procs, Finish(c) PROVE Moves(c) /\ Agrees(c)
<1>1. TypeInv
  BY DEF IInv
<1>2. "send_test_complete" \in Places
  BY DEF Places
<1>3. pc[c] = "start" /\ pc'[c] = "send_test_complete"
  BY <1>1, <1>2, MoveToIs DEF Finish
<1>4. Opens(c) /\ \A k \in 0..3 : Told(c, k) => Told(c, k)'
  BY <1>3 DEF Finish, Opens, Told, Early
<1>5. Moves(c)
  BY <1>2, <1>3, <1>4, QuietMove DEF Finish, Reported, Early
<1>6. PICK v \in SUBSET proposed : LA!Return(c, v)
  BY DEF Finish
<1>7. /\ proposed' \subseteq Procs /\ learnt' = [learnt EXCEPT ![c] = v] /\ v \in SUBSET Procs
      /\ \A q \in Procs : Comparable(v, learnt[q])
  BY <1>1, <1>6 DEF LA!Return, LA!Comparable, LA!Leq, Comparable, Leq, TypeInv
<1>8. /\ learnt' \in [Procs -> SUBSET Procs] /\ learnt'[c] = v
      /\ \A d \in Procs \ {c} : learnt'[d] = learnt[d]
  BY <1>1, <1>7 DEF TypeInv
<1>9. \A d \in Procs : \A e \in Procs : Comparable(learnt'[d], learnt'[e])
  BY <1>7, <1>8 DEF IInv, ResultInv, Comparable, Leq
<1>10. Agrees(c)
  BY <1>3, <1>7, <1>8, <1>9 DEF Agrees
<1>11. QED BY <1>5, <1>10

(* Whatever a client does preserves the invariant.                         *)
LEMMA MoveStep == ASSUME IInv, NEW c \in Procs, Moves(c), Agrees(c) PROVE IInv'
<1> USE DEF coordinatorVars
<1>1. TypeInv
  BY DEF IInv
<1>2. /\ UNCHANGED <<phase, turn, known, results, verdict>>
      /\ \A d \in Procs : pc[d] \in Reported => pc'[d] \in Reported
      /\ \A d \in Procs : pc[d] # "send_register" => pc'[d] # "send_register"
  BY DEF Moves
<1>3. ASSUME NEW d \in Procs, NEW k \in 0..3, Told(d, k) PROVE Told(d, k)'
  <2>1. CASE d = c
    BY <1>3, <2>1 DEF Moves
  <2>2. CASE d # c
    BY <1>3, <2>2 DEF Moves, Told
  <2>3. QED BY <2>1, <2>2
<1>4. Len(known) \in Nat /\ \A i \in 1..Len(known) : known[i] \in Procs
  BY AllKnown
<1>5. ToldInv'
  <2>1. ASSUME NEW k \in 0..2, ToldInTurns(k) PROVE ToldInTurns(k)'
    <3>1. SUFFICES ASSUME NEW i \in 1..Len(known)
                   PROVE  Told(known[i], IF i <= turn THEN k + 1 ELSE k)'
      BY <1>2 DEF ToldInTurns
    <3>2. PICK d \in Procs : d = known[i]
      BY <1>4
    <3>3. PICK j \in 0..3 : j = IF i <= turn THEN k + 1 ELSE k
      OBVIOUS
    <3>4. Told(d, j)
      BY <2>1, <3>2, <3>3 DEF ToldInTurns
    <3>5. Told(d, j)'
      BY <1>3, <3>4
    <3>6. known'[i] = d /\ (IF i <= turn' THEN k + 1 ELSE k) = j
      BY <1>2, <3>2, <3>3
    <3>7. QED BY <3>5, <3>6 DEF Told
  <2>2. QED BY <1>2, <1>3, <2>1 DEF IInv, ToldInv
<1>6. \/ backlog' = backlog
      \/ \E w \in BOOLEAN, t \in {"Register", "TestComplete"} :
           /\ backlog' = Append(backlog, Connection(t, c, w))
           /\ t = "Register" => pc[c] = "send_register"
           /\ t = "TestComplete" => pc[c] = "send_test_complete" /\ pc'[c] \in Reported
  BY DEF Moves, Opens
<1> DEFINE n == Len(backlog)
           Fresh(x) ==
             /\ x.from = c
             /\ \/ x.type = "Register" /\ pc[c] = "send_register"
                \/ x.type = "TestComplete" /\ pc[c] = "send_test_complete" /\ pc'[c] \in Reported
<1>7. /\ n \in Nat /\ Len(backlog') \in Nat /\ backlog' \in Seq(Connections)
      /\ Len(backlog') = n \/ (Len(backlog') = n + 1 /\ Fresh(backlog'[n + 1]))
      /\ \A i \in 1..n : backlog'[i] = backlog[i]
  <2>1. backlog \in Seq(Connections) /\ n \in Nat
    BY <1>1, LenProperties DEF TypeInv, Connections
  <2>2. CASE backlog' = backlog
    BY <2>1, <2>2
  <2>3. CASE backlog' # backlog
    <3>1. PICK w \in BOOLEAN, t \in {"Register", "TestComplete"} :
            /\ backlog' = Append(backlog, Connection(t, c, w))
            /\ t = "Register" => pc[c] = "send_register"
            /\ t = "TestComplete" => pc[c] = "send_test_complete" /\ pc'[c] \in Reported
      BY <1>6, <2>3
    <3> DEFINE x == Connection(t, c, w)
    <3>2. x \in Connections /\ Fresh(x)
      BY <3>1 DEF Connection, Connections
    <3> HIDE DEF x, Fresh
    <3>3. backlog' = Append(backlog, x)
      BY <3>1 DEF x
    <3>4. /\ Append(backlog, x) \in Seq(Connections)
          /\ Len(Append(backlog, x)) = n + 1
          /\ \A i \in 1..n : Append(backlog, x)[i] = backlog[i]
          /\ Append(backlog, x)[n + 1] = x
      BY <1>1, <3>2, BacklogAppend
    <3>5. QED BY <2>1, <3>2, <3>3, <3>4
  <2>4. QED BY <2>2, <2>3
<1>8. ASSUME NEW i \in 1..Len(backlog')
      PROVE  \/ i \in 1..n /\ backlog'[i] = backlog[i]
             \/ i = n + 1 /\ Fresh(backlog'[i])
  <2> HIDE DEF Fresh
  <2>1. QED BY <1>7, <1>8
<1>9. TypeInv'
  BY <1>1, <1>2, <1>7 DEF Moves, Agrees, TypeInv, Connections
<1>10. RegisterInv'
  <2>1. /\ \A i, j \in 1..Len(known) : known[i] = known[j] => i = j
        /\ \A i \in 1..Len(known) : pc'[known[i]] # "send_register"
    BY <1>2, <1>4 DEF IInv, RegisterInv
  <2>2. ASSUME NEW i \in 1..Len(backlog'), backlog'[i].type = "Register"
        PROVE  /\ pc'[backlog'[i].from] # "send_register"
               /\ \A j \in 1..Len(known) : known[j] # backlog'[i].from
    <3>1. CASE i \in 1..n /\ backlog'[i] = backlog[i]
      <4>1. backlog[i].from \in Procs
        BY <1>1, <3>1, Origins
      <4>2. QED BY <1>2, <2>2, <3>1, <4>1 DEF IInv, RegisterInv
    <3>2. CASE Fresh(backlog'[i])
      BY <2>2, <3>2 DEF IInv, RegisterInv, Moves
    <3>3. QED BY <1>8, <3>1, <3>2
  <2>3. ASSUME phase = "register", NEW i \in 1..Len(backlog')
        PROVE  backlog'[i].type = "Register"
    <3>1. CASE i \in 1..n /\ backlog'[i] = backlog[i]
      BY <2>3, <3>1 DEF IInv, RegisterInv
    <3>2. CASE Fresh(backlog'[i])
      <4>1. pc[c] # "send_test_complete"
        BY <2>3 DEF IInv, ToldInv, Told, Early
      <4>2. QED BY <3>2, <4>1
    <3>3. QED BY <1>8, <3>1, <3>2
  <2>4. QED BY <1>2, <2>1, <2>2, <2>3 DEF IInv, RegisterInv
<1>11. BacklogInv'
  <2>1. ASSUME NEW i \in 1..n, NEW x, Fresh(x)
        PROVE  ~ (backlog[i].type = x.type /\ backlog[i].from = x.from)
    BY <2>1 DEF IInv, RegisterInv, ResultInv, Reported
  <2> HIDE DEF Fresh
  <2>2. ASSUME NEW i \in 1..Len(backlog'), NEW j \in 1..Len(backlog'),
               backlog'[i].type = backlog'[j].type, backlog'[i].from = backlog'[j].from
        PROVE  i = j
    <3>1. CASE i \in 1..n /\ j \in 1..n
      BY <1>7, <2>2, <3>1 DEF IInv, BacklogInv
    <3>2. CASE i \in 1..n /\ j \notin 1..n
      BY <1>8, <2>1, <2>2, <3>2
    <3>3. CASE i \notin 1..n /\ j \in 1..n
      BY <1>8, <2>1, <2>2, <3>3
    <3>4. CASE i \notin 1..n /\ j \notin 1..n
      BY <1>8, <3>4
    <3>5. QED BY <3>1, <3>2, <3>3, <3>4
  <2>3. QED BY <2>2 DEF BacklogInv
<1>12. ReportInv'
  <2>1. Unreported' \subseteq Unreported
    BY <1>2 DEF Unreported
  <2>2. /\ IsFiniteSet(Unreported) /\ Cardinality(Unreported) \in Nat
        /\ Cardinality(Unreported') \in Nat /\ Cardinality(Unreported') <= Cardinality(Unreported)
    <3>1. Unreported \subseteq Procs
      BY DEF Unreported
    <3>2. IsFiniteSet(Unreported) /\ Cardinality(Unreported) \in Nat
      BY <3>1, ClientSets
    <3>3. QED BY <2>1, <3>2, FS_Subset, FS_CardinalityType
  <2>3. ASSUME phase \in {"test_info", "start", "results"}
        PROVE  Len(backlog') + Cardinality(Unreported') <= n + Cardinality(Unreported)
    <3>1. CASE Len(backlog') = n
      BY <1>7, <2>2, <3>1
    <3>2. CASE Len(backlog') = n + 1 /\ Fresh(backlog'[n + 1])
      <4>1. Len(known) = N
        BY <2>3 DEF IInv, RegisterInv
      <4>2. PICK i \in 1..Len(known) : known[i] = c
        BY <4>1, AllKnown
      <4>3. pc[c] # "send_register"
        BY <4>2 DEF IInv, RegisterInv
      <4>4. c \in Unreported /\ c \notin Unreported'
        BY <3>2, <4>3 DEF Unreported, Reported
      <4>5. Cardinality(Unreported') # Cardinality(Unreported)
        BY <2>1, <2>2, <4>4, FS_Subset
      <4>6. Cardinality(Unreported') + 1 <= Cardinality(Unreported)
        BY <2>2, <4>5
      <4>7. QED BY <1>7, <2>2, <3>2, <4>6
    <3>3. QED BY <1>7, <3>1, <3>2
  <2>4. turn \in Nat /\ N \in Nat
    BY <1>1, Clients DEF TypeInv
  <2>5. phase \in {"test_info", "start"} => Len(backlog') + Cardinality(Unreported') <= N
    BY <1>7, <2>2, <2>3, <2>4 DEF IInv, ReportInv
  <2>6. phase = "results" => turn + Len(backlog') + Cardinality(Unreported') <= N
    BY <1>7, <2>2, <2>3, <2>4 DEF IInv, ReportInv
  <2>7. phase \in {"stop", "verify", "ended"} => Unreported' = {}
    BY <2>1 DEF IInv, ReportInv
  <2>8. QED BY <1>2, <2>5, <2>6, <2>7 DEF ReportInv
<1>13. ResultInv'
  <2>1. ASSUME NEW i \in 1..Len(results)
        PROVE  results[i].id \in Procs /\ pc'[results[i].id] \in Reported
               /\ results[i].value = learnt'[results[i].id]
    <3>1. results[i].id \in Procs
      BY <1>1, Origins
    <3>2. pc[results[i].id] \in Reported /\ results[i].value = learnt[results[i].id]
      BY DEF IInv, ResultInv
    <3>3. learnt'[results[i].id] = learnt[results[i].id]
      BY <3>1, <3>2 DEF Agrees, Reported
    <3>4. QED BY <1>2, <3>1, <3>2, <3>3
  <2>2. ASSUME NEW i \in 1..Len(backlog'), backlog'[i].type = "TestComplete"
        PROVE  /\ pc'[backlog'[i].from] \in Reported
               /\ \A j \in 1..Len(results) : results[j].id # backlog'[i].from
    <3>1. CASE i \in 1..n /\ backlog'[i] = backlog[i]
      <4>1. backlog[i].from \in Procs
        BY <1>1, <3>1, Origins
      <4>2. QED BY <1>2, <2>2, <3>1, <4>1 DEF IInv, ResultInv
    <3>2. CASE Fresh(backlog'[i])
      BY <2>2, <3>2 DEF IInv, ResultInv, Reported
    <3>3. QED BY <1>8, <3>1, <3>2
  <2>3. QED BY <1>2, <2>1, <2>2 DEF IInv, ResultInv, Agrees
<1>14. PeersInv'
  BY DEF IInv, PeersInv, Moves
<1>15. VerdictInv'
  BY <1>2 DEF IInv, VerdictInv
<1>16. QED BY <1>5, <1>9, <1>10, <1>11, <1>12, <1>13, <1>14, <1>15 DEF IInv

-----------------------------------------------------------------------------
(* The steps of the coordinator.                                           *)

\* The messages to a client, in order.
Script == <<TestInfo, StartSignal, StopSignal>>

\* The client of this turn gets its k-th message, unless it has crashed.
Tells(c, k) == \/ pc[c] # "crashed" /\ inbox' = [inbox EXCEPT ![c] = Append(@, Script[k])]
               \/ pc[c] = "crashed" /\ inbox' = inbox

(* Telling a client moves it on by one message.                            *)
LEMMA TellsIs ==
  ASSUME IInv, NEW k \in 0..2, NEW c \in Procs, Told(c, k), Tells(c, k + 1),
         pc' = pc, k = 2 => pc[c] \in Reported
  PROVE  /\ Told(c, k + 1)' /\ inbox' \in [Procs -> Inboxes]
         /\ \A d \in Procs \ {c} : inbox'[d] = inbox[d]
<1>1. inbox \in [Procs -> Inboxes]
  BY DEF IInv, TypeInv
<1>2. CASE pc[c] = "crashed"
  BY <1>1, <1>2 DEF Tells, Told
<1>3. CASE pc[c] # "crashed"
  <2> DEFINE q == Append(inbox[c], Script[k + 1])
  <2>1. inbox' = [inbox EXCEPT ![c] = q]
    BY <1>3 DEF Tells
  <2>2. /\ k = 0 => q = <<TestInfo>> /\ pc[c] \in Early
        /\ k = 1 => \/ q = <<TestInfo, StartSignal>> /\ pc[c] \in Early
                    \/ q = <<StartSignal>> /\ pc[c] = "wait_for_start"
        /\ k = 2 => q = <<StopSignal>> /\ pc[c] = "wait_for_stop"
    <3>1. /\ Script[1] = TestInfo /\ Script[2] = StartSignal /\ Script[3] = StopSignal
      BY DEF Script
    <3>2. CASE k = 0
      <4>1. pc[c] \in Early /\ inbox[c] = <<>> /\ Script[k + 1] = TestInfo
        BY <1>3, <3>1, <3>2 DEF Told
      <4>2. QED BY <3>2, <4>1, Queues
    <3>3. CASE k = 1
      <4>1. Script[k + 1] = StartSignal
        BY <3>1, <3>3
      <4>2. \/ pc[c] \in Early /\ inbox[c] = <<TestInfo>>
            \/ pc[c] = "wait_for_start" /\ inbox[c] = <<>>
        BY <1>3, <3>3 DEF Told
      <4>3. /\ inbox[c] = <<TestInfo>> => q = <<TestInfo, StartSignal>>
            /\ inbox[c] = <<>> => q = <<StartSignal>>
        BY <4>1, Queues
      <4>4. QED BY <3>3, <4>2, <4>3
    <3>4. CASE k = 2
      <4>1. Script[k + 1] = StopSignal
        BY <3>1, <3>4
      <4>2. pc[c] = "wait_for_stop" /\ inbox[c] = <<>>
        BY <1>3, <3>4 DEF Told, Early, Reported
      <4>3. QED BY <3>4, <4>1, <4>2, Queues
    <3>5. QED BY <3>2, <3>3, <3>4
  <2> HIDE DEF q
  <2>3. q \in Inboxes
    BY <2>2 DEF Inboxes
  <2>4. /\ inbox' \in [Procs -> Inboxes] /\ inbox'[c] = q
        /\ \A d \in Procs \ {c} : inbox'[d] = inbox[d]
    BY <1>1, <2>1, <2>3
  <2>5. Told(c, k + 1)'
    <3>1. CASE k = 0
      BY <2>2, <2>4, <3>1 DEF Told
    <3>2. CASE k = 1
      BY <2>2, <2>4, <3>2 DEF Told
    <3>3. CASE k = 2
      BY <2>2, <2>4, <3>3 DEF Told
    <3>4. QED BY <3>1, <3>2, <3>3
  <2>6. QED BY <2>4, <2>5
<1>4. QED BY <1>2, <1>3

(* A turn of a loop that sends the k-th messages.                          *)
LEMMA TellTurn ==
  ASSUME IInv, NEW k \in 0..2, ToldInTurns(k), Len(known) = N,
         Tells(known[turn + 1], k + 1), UNCHANGED <<pc, known>>,
         k = 2 => \A c \in Procs : pc[c] \in Reported
  PROVE  /\ inbox' \in [Procs -> Inboxes]
         /\ turn + 1 # N /\ turn' = turn + 1 => ToldInTurns(k)' /\ turn' \in 0..(N - 1)
         /\ turn + 1 = N => \A c \in Procs : Told(c, k + 1)'
<1>1. TypeInv /\ turn \in 0..(N - 1) /\ N \in Nat
  BY Clients DEF IInv, TypeInv
<1>2. turn + 1 \in 1..Len(known) /\ known[turn + 1] \in Procs
  BY <1>1, AllKnown
<1> PICK c \in Procs : c = known[turn + 1]
  BY <1>2
<1>3. Told(c, k)
  <2>1. Told(known[turn + 1], IF turn + 1 <= turn THEN k + 1 ELSE k)
    BY <1>2 DEF ToldInTurns
  <2>2. ~ (turn + 1 <= turn)
    BY <1>1
  <2>3. QED BY <2>1, <2>2
<1>4. pc' = pc /\ (k = 2 => pc[c] \in Reported) /\ Tells(c, k + 1)
  BY <1>2
<1>5. /\ Told(c, k + 1)' /\ inbox' \in [Procs -> Inboxes]
      /\ \A d \in Procs \ {c} : inbox'[d] = inbox[d]
  BY <1>2, <1>3, <1>4, TellsIs
<1>6. ASSUME NEW i \in 1..Len(known)
      PROVE  /\ known[i] \in Procs
             /\ i <= turn + 1 => Told(known[i], k + 1)'
             /\ i > turn + 1 => Told(known[i], k)'
  <2>1. PICK d \in Procs : d = known[i]
    BY AllKnown
  <2>2. CASE i = turn + 1
    <3>1. d = c
      BY <2>1, <2>2
    <3>2. Told(d, k + 1)'
      BY <1>5, <3>1 DEF Told
    <3>3. QED BY <1>1, <2>1, <2>2, <3>2 DEF Told
  <2>3. CASE i # turn + 1
    <3>1. d # c
      BY <1>2, <2>1, <2>3 DEF IInv, RegisterInv
    <3>2. inbox'[d] = inbox[d] /\ pc'[d] = pc[d]
      BY <1>5, <3>1
    <3>3. CASE i <= turn
      <4>1. Told(d, k + 1)
        BY <2>1, <3>3 DEF ToldInTurns
      <4>2. Told(d, k + 1)'
        BY <3>2, <4>1 DEF Told
      <4>3. QED BY <1>1, <2>1, <3>3, <4>2 DEF Told
    <3>4. CASE ~ (i <= turn)
      <4>1. Told(d, k)
        BY <2>1, <3>4 DEF ToldInTurns
      <4>2. Told(d, k)'
        BY <3>2, <4>1 DEF Told
      <4>3. i > turn + 1
        BY <1>1, <2>3, <3>4
      <4>4. QED BY <1>1, <2>1, <4>2, <4>3 DEF Told
    <3>5. QED BY <3>3, <3>4
  <2>4. QED BY <2>2, <2>3
<1>7. ASSUME turn + 1 # N, turn' = turn + 1 PROVE ToldInTurns(k)' /\ turn' \in 0..(N - 1)
  <2>1. turn' \in 0..(N - 1)
    BY <1>1, <1>7
  <2>2. ASSUME NEW i \in 1..Len(known) PROVE Told(known[i], IF i <= turn THEN k + 1 ELSE k)'
    <3>1. CASE i <= turn + 1
      BY <1>6, <1>7, <3>1 DEF Told
    <3>2. CASE ~ (i <= turn + 1)
      <4>1. i > turn + 1
        BY <1>1, <3>2
      <4>2. QED BY <1>6, <1>7, <3>2, <4>1 DEF Told
    <3>3. QED BY <3>1, <3>2
  <2>3. QED BY <2>1, <2>2 DEF ToldInTurns
<1>8. ASSUME turn + 1 = N, NEW d \in Procs PROVE Told(d, k + 1)'
  <2>1. PICK i \in 1..Len(known) : known[i] = d
    BY AllKnown
  <2>2. i <= turn + 1
    BY <1>1, <1>8
  <2>3. Told(known[i], k + 1)'
    BY <1>6, <2>2
  <2>4. QED BY <2>1, <2>3 DEF Told
<1>9. QED BY <1>5, <1>7, <1>8

(* At the first turn of a loop all clients have been told the same.        *)
LEMMA FirstTurn ==
  ASSUME NEW k \in Nat, turn' = 0, Len(known') \in Nat,
         \A i \in 1..Len(known') : known'[i] \in Procs,
         \A c \in Procs : Told(c, k)'
  PROVE  ToldInTurns(k)'
<1> SUFFICES ASSUME NEW i \in 1..Len(known')
             PROVE  Told(known[i], IF i <= turn THEN k + 1 ELSE k)'
  BY DEF ToldInTurns
<1>1. PICK d \in Procs : d = known'[i]
  OBVIOUS
<1>2. Told(d, k)'
  OBVIOUS
<1>3. ~ (i <= turn')
  OBVIOUS
<1>4. QED BY <1>1, <1>2, <1>3 DEF Told

(* A turn that sends a message: what it leaves alone.                      *)
LEMMA SendingStep ==
  ASSUME IInv, phase \in {"test_info", "start", "stop"},
         phase' \in {"test_info", "start", "results", "stop", "verify", "aborted"},
         turn' \in 0..(N - 1), inbox' \in [Procs -> Inboxes],
         UNCHANGED <<known, backlog, results, verdict, pc, peers, agreementVars>>,
         ToldInv', ReportInv'
  PROVE  IInv'
<1> USE DEF agreementVars
<1>1. TypeInv'
  BY DEF IInv, TypeInv
<1>2. RegisterInv'
  BY DEF IInv, RegisterInv
<1>3. BacklogInv' /\ PeersInv'
  BY DEF IInv, BacklogInv, PeersInv
<1>4. ResultInv'
  BY DEF IInv, ResultInv
<1>5. VerdictInv'
  BY DEF IInv, VerdictInv
<1>6. QED BY <1>1, <1>2, <1>3, <1>4, <1>5 DEF IInv

(* Who has reported is told by where the clients stand.                     *)
LEMMA UnreportedKept == pc' = pc => Unreported' = Unreported
BY DEF Unreported

(* What is counted in the turns of the results loop.                        *)
LEMMA CountTypes ==
  ASSUME TypeInv
  PROVE  /\ N \in Nat /\ N >= 1 /\ turn \in Nat /\ turn <= N - 1 /\ Len(backlog) \in Nat
         /\ Unreported \subseteq Procs /\ IsFiniteSet(Unreported)
         /\ Cardinality(Unreported) \in Nat /\ Cardinality(Unreported) <= N
<1>1. Unreported \subseteq Procs
  BY DEF Unreported
<1>2. QED BY <1>1, ClientSets, Clients, Origins DEF TypeInv

(* An exception while a client is told something ends the coordinator.     *)
LEMMA AbortStep ==
  ASSUME IInv, phase \in {"test_info", "start"}, Abort,
         UNCHANGED <<known, backlog, results, verdict, pc, peers, inbox, agreementVars>>
  PROVE  IInv'
<1>1. phase' = "aborted" /\ turn' = turn
  BY DEF Abort
<1>2. Len(known) = N
  BY DEF IInv, RegisterInv
<1>3. ASSUME NEW c \in Procs PROVE \E k \in 0..2 : Told(c, k)
  <2>1. PICK i \in 1..Len(known) : known[i] = c
    BY <1>2, AllKnown
  <2>2. PICK k \in 0..1 : ToldInTurns(k)
    BY DEF IInv, ToldInv
  <2>3. PICK j \in 0..2 : j = IF i <= turn THEN k + 1 ELSE k
    OBVIOUS
  <2>4. Told(c, j)
    BY <2>1, <2>2, <2>3 DEF ToldInTurns
  <2>5. QED BY <2>4
<1>4. ToldInv'
  BY <1>1, <1>3 DEF ToldInv, Told
<1>5. ReportInv'
  BY <1>1 DEF ReportInv
<1>6. turn' \in 0..(N - 1) /\ inbox' \in [Procs -> Inboxes]
  BY <1>1 DEF IInv, TypeInv
<1>7. QED BY <1>1, <1>4, <1>5, <1>6, SendingStep

(* A loop of turns that send the k-th messages, and the phase after it.    *)
LEMMA LoopStep ==
  ASSUME IInv, NEW k \in 0..2, NEW next,
         \/ k = 0 /\ phase = "test_info" /\ next = "start"
         \/ k = 1 /\ phase = "start" /\ next = "results"
         \/ k = 2 /\ phase = "stop" /\ next = "verify",
         Tells(known[turn + 1], k + 1), NextTurn(Len(known), next),
         UNCHANGED <<known, backlog, results, verdict, pc, peers, agreementVars>>
  PROVE  IInv'
<1>1. Len(known) = N /\ TypeInv /\ ToldInTurns(k)
  BY DEF IInv, RegisterInv, ToldInv
<1>2. k = 2 => \A c \in Procs : pc[c] \in Reported
  BY DEF IInv, ReportInv, Unreported
<1>3. /\ inbox' \in [Procs -> Inboxes]
      /\ turn + 1 # N /\ turn' = turn + 1 => ToldInTurns(k)' /\ turn' \in 0..(N - 1)
      /\ turn + 1 = N => \A c \in Procs : Told(c, k + 1)'
  BY <1>1, <1>2, TellTurn
<1>4. CASE turn + 1 = N
  <2>1. phase' = next /\ turn' = 0
    BY <1>1, <1>4 DEF NextTurn
  <2>2. \A c \in Procs : Told(c, k + 1)'
    BY <1>3, <1>4
  <2>3. ToldInTurns(k + 1)'
    <3>1. Len(known') \in Nat /\ \A i \in 1..Len(known') : known'[i] \in Procs
      BY AllKnown
    <3> DEFINE j == k + 1
    <3>2. j \in Nat /\ \A c \in Procs : Told(c, j)'
      BY <2>2
    <3> HIDE DEF j
    <3>3. ToldInTurns(j)'
      BY <2>1, <3>1, <3>2, FirstTurn
    <3>4. QED BY <3>3 DEF j
  <2>4. ToldInv'
    BY <2>1, <2>2, <2>3 DEF ToldInv
  <2>5. ReportInv'
    BY <1>1, <2>1, UnreportedKept, CountTypes DEF IInv, ReportInv
  <2>6. turn' \in 0..(N - 1)
    BY <1>1, <2>1, CountTypes
  <2>7. QED BY <1>3, <2>1, <2>4, <2>5, <2>6, SendingStep
<1>5. CASE turn + 1 # N
  <2>1. phase' = phase /\ turn' = turn + 1
    BY <1>1, <1>5 DEF NextTurn
  <2>2. ToldInTurns(k)' /\ turn' \in 0..(N - 1)
    BY <1>3, <1>5, <2>1
  <2>3. ToldInv'
    BY <2>1, <2>2 DEF ToldInv
  <2>4. ReportInv'
    BY <2>1, UnreportedKept DEF IInv, ReportInv
  <2>5. QED BY <1>3, <2>1, <2>2, <2>3, <2>4, SendingStep
<1>6. QED BY <1>4, <1>5

(* A turn of the first sending loop: one client more has the test info.     *)
LEMMA SendTestInfoStep == ASSUME IInv, SendTestInfo PROVE IInv'
<1> DEFINE c == known[turn + 1]
<1>1. /\ phase = "test_info"
      /\ UNCHANGED <<known, backlog, results, verdict, pc, peers, agreementVars>>
  BY DEF SendTestInfo
<1>2. CASE pc[c] = "crashed" /\ Abort /\ UNCHANGED inbox
  BY <1>1, <1>2, AbortStep
<1>3. CASE Tell(c, [type |-> "TestInfo", peers |-> ToSet(known)]) /\ NextTurn(Len(known), "start")
  <2>1. Len(known) = N
    BY <1>1 DEF IInv, RegisterInv
  <2>2. ToSet(known) = Procs
    <3>1. DOMAIN known = 1..Len(known)
      BY LenProperties DEF IInv, TypeInv
    <3>2. QED BY <2>1, <3>1, AllKnown DEF ToSet
  <2>3. Script[0 + 1] = [type |-> "TestInfo", peers |-> ToSet(known)]
    BY <2>2 DEF Script, TestInfo
  <2>4. Tells(c, 0 + 1)
    BY <1>3, <2>3 DEF Tell, Tells
  <2>5. QED BY <1>1, <1>3, <2>4, LoopStep
<1>4. QED BY <1>2, <1>3 DEF SendTestInfo

(* A turn of the second sending loop: one client more has the start signal. *)
LEMMA SendStartStep == ASSUME IInv, SendStart PROVE IInv'
<1> DEFINE c == known[turn + 1]
<1>1. /\ phase = "start"
      /\ UNCHANGED <<known, backlog, results, verdict, pc, peers, agreementVars>>
  BY DEF SendStart
<1>2. CASE pc[c] = "crashed" /\ Abort /\ UNCHANGED inbox
  BY <1>1, <1>2, AbortStep
<1>3. CASE Tell(c, [type |-> "Start"]) /\ NextTurn(Len(known), "results")
  <2>1. Script[1 + 1] = [type |-> "Start"]
    BY DEF Script, StartSignal
  <2>2. Tells(c, 1 + 1)
    BY <1>3, <2>1 DEF Tell, Tells
  <2>3. QED BY <1>1, <1>3, <2>2, LoopStep
<1>4. QED BY <1>2, <1>3 DEF SendStart

(* A turn of the stop loop: one client more has the stop signal, or has crashed.*)
LEMMA SendStopStep == ASSUME IInv, SendStop PROVE IInv'
<1> DEFINE c == known[turn + 1]
<1>1. /\ phase = "stop" /\ NextTurn(Len(known), "verify")
      /\ UNCHANGED <<known, backlog, results, verdict, pc, peers, agreementVars>>
  BY DEF SendStop
<1>2. Script[2 + 1] = [type |-> "Stop"]
  BY DEF Script, StopSignal
<1>3. Tells(c, 2 + 1)
  BY <1>2 DEF SendStop, Tell, Tells
<1>4. QED BY <1>1, <1>3, LoopStep

(* The coordinator takes a connection from the backlog: what the clients   *)
(* and the other connections are told by stays as it is.                   *)
LEMMA AcceptKeeps ==
  ASSUME IInv, backlog # <<>>, backlog' = Tail(backlog),
         UNCHANGED <<pc, peers, inbox, agreementVars>>
  PROVE  /\ backlog' \in Seq(Connections) /\ Len(backlog') = Len(backlog) - 1
         /\ Len(backlog') \in Nat
         /\ \A i \in 1..Len(backlog') : i + 1 \in 1..Len(backlog) /\ backlog'[i] = backlog[i + 1]
         /\ \A i \in 1..Len(backlog') :
              backlog'[i].type = backlog[1].type => backlog'[i].from # backlog[1].from
         /\ BacklogInv' /\ PeersInv' /\ Unreported' = Unreported
<1>1. TypeInv
  BY DEF IInv
<1>2. /\ Len(backlog) \in Nat /\ 1 \in 1..Len(backlog)
      /\ backlog' \in Seq(Connections) /\ Len(backlog') = Len(backlog) - 1
      /\ \A i \in 1..Len(backlog') : i + 1 \in 1..Len(backlog) /\ backlog'[i] = backlog[i + 1]
  BY <1>1, BacklogTail
<1>3. Len(backlog') \in Nat
  BY <1>2
<1>4. ASSUME NEW i \in 1..Len(backlog'), backlog'[i].type = backlog[1].type
      PROVE  backlog'[i].from # backlog[1].from
  <2>1. i + 1 # 1 /\ i + 1 \in 1..Len(backlog)
    BY <1>2
  <2>2. QED BY <1>2, <1>4, <2>1 DEF IInv, BacklogInv
<1>5. BacklogInv'
  <2> SUFFICES ASSUME NEW i \in 1..Len(backlog'), NEW j \in 1..Len(backlog'),
                      backlog'[i].type = backlog'[j].type, backlog'[i].from = backlog'[j].from
               PROVE  i = j
    BY DEF BacklogInv
  <2>1. i + 1 = j + 1
    BY <1>2 DEF IInv, BacklogInv
  <2>2. QED BY <2>1
<1>6. PeersInv' /\ Unreported' = Unreported
  BY DEF IInv, PeersInv, Unreported
<1>7. QED BY <1>2, <1>3, <1>4, <1>5, <1>6

(* A registration adds a client the coordinator did not know; anything     *)
(* else ends it.                                                           *)
LEMMA AcceptRegisterStep == ASSUME IInv, AcceptRegister PROVE IInv'
<1> DEFINE m == backlog[1]
<1>1. /\ phase = "register" /\ backlog # <<>> /\ backlog' = Tail(backlog)
      /\ UNCHANGED <<results, verdict, pc, peers, inbox, agreementVars>>
      /\ TypeInv
  BY DEF AcceptRegister, IInv
<1>2. /\ m \in Connections /\ Head(backlog) = m /\ 1 \in 1..Len(backlog)
      /\ m.from \in Procs /\ m.type = "Register"
  BY <1>1, BacklogTail DEF Connections, IInv, RegisterInv
<1>3. /\ backlog' \in Seq(Connections) /\ Len(backlog') \in Nat
      /\ \A i \in 1..Len(backlog') : i + 1 \in 1..Len(backlog) /\ backlog'[i] = backlog[i + 1]
      /\ \A i \in 1..Len(backlog') :
           backlog'[i].type = m.type => backlog'[i].from # m.from
      /\ BacklogInv' /\ PeersInv' /\ Unreported' = Unreported
  BY <1>1, AcceptKeeps
<1>4. ResultInv'
  <2>1. \A i \in 1..Len(backlog') : backlog'[i].type = "Register"
    BY <1>1, <1>3 DEF IInv, RegisterInv
  <2>2. QED BY <1>1, <2>1 DEF IInv, ResultInv, agreementVars
<1>5. VerdictInv'
  BY <1>1 DEF IInv, VerdictInv
<1>6. ASSUME NEW i \in 1..Len(backlog')
      PROVE  /\ backlog'[i].type = "Register" /\ pc'[backlog'[i].from] # "send_register"
             /\ \A j \in 1..Len(known) : known[j] # backlog'[i].from
             /\ backlog'[i].from # m.from
  BY <1>1, <1>2, <1>3 DEF IInv, RegisterInv
<1>7. /\ \A c \in Procs : Told(c, 0) /\ Told(c, 0)'
      /\ turn = Len(known) /\ known \in Seq(Procs) /\ Len(known) \in Nat
      /\ turn \in 0..(N - 1) /\ N \in Nat /\ N >= 1
  <2>1. \A c \in Procs : Told(c, 0)
    BY <1>1 DEF IInv, ToldInv
  <2>2. QED BY <1>1, <2>1, CountTypes, AllKnown DEF IInv, RegisterInv, Told, TypeInv
<1>8. CASE m.whole
  <2>1. known' = Append(known, m.from) /\ NextTurn(N, "test_info")
    BY <1>1, <1>2, <1>8 DEF AcceptRegister, Registrations
  <2> DEFINE c == m.from
             n == Len(known)
  <2>2. /\ known' \in Seq(Procs) /\ Len(known') = n + 1 /\ known'[n + 1] = c
        /\ \A i \in 1..n : known'[i] = known[i]
    BY <1>2, <1>7, <2>1, AppendProperties
  <2>3. \A i \in 1..n : known[i] # c
    BY <1>2 DEF IInv, RegisterInv
  <2>4. pc[c] # "send_register" /\ c \in Procs
    BY <1>2 DEF IInv, RegisterInv
  <2>5. \A i \in 1..Len(backlog') : backlog'[i].from # c
    BY <1>6
  <2> HIDE DEF c, n
  <2>6. n \in Nat /\ \A i \in 1..Len(known') : i \in 1..n \/ i = n + 1
    BY <1>7, <2>2 DEF n
  <2>7. \A i, j \in 1..Len(known') : known'[i] = known'[j] => i = j
    BY <2>2, <2>3, <2>6 DEF IInv, RegisterInv, n
  <2>8. \A i \in 1..Len(known') : pc'[known'[i]] # "send_register"
    BY <1>1, <2>2, <2>4, <2>6 DEF IInv, RegisterInv, n
  <2>9. \A i \in 1..Len(backlog') : \A j \in 1..Len(known') : known'[j] # backlog'[i].from
    BY <1>6, <2>2, <2>5, <2>6 DEF n
  <2>10. CASE n + 1 = N
    <3>1. phase' = "test_info" /\ turn' = 0
      BY <1>7, <2>1, <2>10 DEF NextTurn, n
    <3>2. TypeInv'
      BY <1>1, <1>3, <1>7, <2>2, <3>1 DEF TypeInv, agreementVars, Connections
    <3>3. ToldInv'
      <4>1. Len(known') \in Nat /\ \A i \in 1..Len(known') : known'[i] \in Procs
        BY <2>2, <2>6, ElementOfSeq
      <4>2. ToldInTurns(0)'
        BY <1>7, <3>1, <4>1, FirstTurn
      <4>3. QED BY <3>1, <4>2 DEF ToldInv
    <3>4. Len(known') = N
      BY <2>2, <2>10
    <3>5. RegisterInv'
      BY <1>6, <2>7, <2>8, <2>9, <3>1, <3>4 DEF RegisterInv
    <3>6. Len(backlog') = 0
      <4>1. SUFFICES ASSUME Len(backlog') # 0 PROVE FALSE
        OBVIOUS
      <4>2. 1 \in 1..Len(backlog') /\ backlog'[1].from \in Procs
        <5>1. 1 \in 1..Len(backlog')
          BY <1>3, <4>1
        <5>2. 1 + 1 \in 1..Len(backlog) /\ backlog'[1] = backlog[1 + 1]
          BY <1>3, <5>1
        <5>3. backlog[1 + 1].from \in Procs
          BY <1>1, <5>2, Origins
        <5>4. QED BY <5>1, <5>2, <5>3
      <4>3. \E j \in 1..Len(known') : known'[j] = backlog'[1].from
        <5>1. known' \in [1..N -> Procs]
          BY <2>2, <3>4, LenProperties
        <5> DEFINE f == known'
        <5>2. f \in [1..N -> Procs] /\ \A i, j \in 1..N : f[i] = f[j] => i = j
          BY <2>7, <3>4, <5>1
        <5> HIDE DEF f
        <5>3. \A d \in Procs : \E i \in 1..N : f[i] = d
          BY <1>7, <5>2, Enumeration
        <5>4. QED BY <3>4, <4>2, <5>3 DEF f
      <4>4. QED BY <2>9, <4>2, <4>3
    <3>7. ReportInv'
      BY <1>1, <1>3, <3>1, <3>6, CountTypes DEF ReportInv
    <3>8. QED BY <1>3, <1>4, <1>5, <3>2, <3>3, <3>5, <3>7 DEF IInv
  <2>11. CASE n + 1 # N
    <3>1. phase' = "register" /\ turn' = turn + 1
      BY <1>1, <1>7, <2>1, <2>11 DEF NextTurn, n
    <3>2. turn' \in 0..(N - 1)
      BY <1>7, <2>11, <3>1 DEF n
    <3>3. TypeInv'
      BY <1>1, <1>3, <2>2, <3>1, <3>2 DEF TypeInv, agreementVars, Connections
    <3>4. ToldInv'
      BY <1>7, <3>1 DEF ToldInv
    <3>5. turn' = Len(known')
      BY <1>7, <2>2, <3>1 DEF n
    <3>6. RegisterInv'
      BY <1>6, <2>7, <2>8, <2>9, <3>1, <3>5 DEF RegisterInv
    <3>7. ReportInv'
      BY <3>1 DEF ReportInv
    <3>8. QED BY <1>3, <1>4, <1>5, <3>3, <3>4, <3>6, <3>7 DEF IInv
  <2>12. QED BY <2>10, <2>11
<1>9. CASE ~ m.whole
  <2>1. phase' = "aborted" /\ turn' = turn /\ known' = known
    BY <1>1, <1>2, <1>9 DEF AcceptRegister, Abort
  <2>2. TypeInv'
    BY <1>1, <1>3, <2>1 DEF TypeInv, agreementVars, Connections
  <2>3. ToldInv'
    BY <1>7, <2>1 DEF ToldInv
  <2>4. RegisterInv'
    BY <1>1, <1>6, <2>1 DEF IInv, RegisterInv
  <2>5. ReportInv'
    BY <2>1 DEF ReportInv
  <2>6. QED BY <1>3, <1>4, <1>5, <2>2, <2>3, <2>4, <2>5 DEF IInv
<1>10. QED BY <1>8, <1>9

(* A turn of the results loop: a report of one client more, or of none.    *)
LEMMA WaitForResultStep == ASSUME IInv, WaitForResult PROVE IInv'
<1> DEFINE m == backlog[1]
           r == [id |-> m.from, value |-> learnt[m.from]]
           n == Len(results)
<1>1. /\ phase = "results" /\ backlog # <<>> /\ backlog' = Tail(backlog)
      /\ UNCHANGED <<known, verdict, pc, peers, inbox, agreementVars>>
      /\ NextTurn(N, "stop") /\ TypeInv
  BY DEF WaitForResult, ResultsAwaited, IInv
<1>2. /\ m \in Connections /\ Head(backlog) = m /\ 1 \in 1..Len(backlog) /\ m.from \in Procs
  BY <1>1, BacklogTail DEF Connections
<1>3. /\ backlog' \in Seq(Connections) /\ Len(backlog') \in Nat
      /\ Len(backlog') = Len(backlog) - 1
      /\ \A i \in 1..Len(backlog') : i + 1 \in 1..Len(backlog) /\ backlog'[i] = backlog[i + 1]
      /\ \A i \in 1..Len(backlog') :
           backlog'[i].type = m.type => backlog'[i].from # m.from
      /\ BacklogInv' /\ PeersInv' /\ Unreported' = Unreported
  BY <1>1, AcceptKeeps
<1>4. \/ results' = results
      \/ results' = Append(results, r) /\ m.type = "TestComplete"
  BY <1>2 DEF WaitForResult
<1>5. /\ n \in Nat /\ Len(results') \in Nat
      /\ results' \in Seq([id : Procs, value : SUBSET Procs])
      /\ \A i \in 1..n : results'[i] = results[i]
      /\ Len(results') = n \/ (Len(results') = n + 1 /\ results'[n + 1] = r /\ m.type = "TestComplete")
  <2> DEFINE R == [id : Procs, value : SUBSET Procs]
  <2>1. results \in Seq(R) /\ r \in R
    BY <1>1, <1>2 DEF TypeInv
  <2> HIDE DEF R, r
  <2>2. n \in Nat
    BY <2>1, LenProperties
  <2>3. CASE results' = results
    BY <2>1, <2>2, <2>3 DEF R
  <2>4. CASE results' = Append(results, r) /\ m.type = "TestComplete"
    <3>1. /\ Append(results, r) \in Seq(R) /\ Len(Append(results, r)) = n + 1
          /\ \A i \in 1..n : Append(results, r)[i] = results[i]
          /\ Append(results, r)[n + 1] = r
      BY <2>1, AppendProperties
    <3>2. QED BY <2>2, <2>4, <3>1 DEF R
  <2>5. QED BY <1>4, <2>3, <2>4
<1>6. ASSUME NEW i \in 1..Len(results')
      PROVE  \/ i \in 1..n /\ results'[i] = results[i]
             \/ i = n + 1 /\ results'[i] = r /\ m.type = "TestComplete"
  <2> HIDE DEF n, m, r
  <2>1. QED BY <1>5, <1>6
<1>7. /\ \A i \in 1..n : \A j \in 1..n : results[i].id = results[j].id => i = j
      /\ \A i \in 1..n : /\ pc[results[i].id] \in Reported
                         /\ results[i].value = learnt[results[i].id]
      /\ m.type = "TestComplete" =>
           /\ pc[m.from] \in Reported
           /\ \A j \in 1..n : results[j].id # m.from
  BY <1>2 DEF IInv, ResultInv
<1>8. ResultInv'
  <2>1. r.id = m.from /\ r.value = learnt[m.from]
    OBVIOUS
  <2> HIDE DEF n, m, r
  <2>2. ASSUME NEW i \in 1..Len(results'), NEW j \in 1..Len(results'),
               results'[i].id = results'[j].id
        PROVE  i = j
    BY <1>6, <1>7, <2>1, <2>2
  <2>3. ASSUME NEW i \in 1..Len(results')
        PROVE  /\ pc[results'[i].id] \in Reported
               /\ results'[i].value = learnt[results'[i].id]
    BY <1>6, <1>7, <2>1
  <2>4. ASSUME NEW i \in 1..Len(backlog'), backlog'[i].type = "TestComplete"
        PROVE  /\ pc[backlog'[i].from] \in Reported
               /\ \A j \in 1..Len(results') : results'[j].id # backlog'[i].from
    <3>1. i + 1 \in 1..Len(backlog) /\ backlog'[i] = backlog[i + 1]
      BY <1>3
    <3>2. /\ pc[backlog'[i].from] \in Reported
          /\ \A j \in 1..n : results[j].id # backlog'[i].from
      BY <2>4, <3>1 DEF IInv, ResultInv, n
    <3>3. m.type = "TestComplete" => backlog'[i].from # m.from
      BY <1>3, <2>4
    <3>4. QED BY <1>6, <2>1, <3>2, <3>3
  <2>5. QED BY <1>1, <2>2, <2>3, <2>4 DEF IInv, ResultInv, agreementVars
<1>9. RegisterInv' \/ phase' \notin {"results", "stop"}
  <2>1. ASSUME NEW i \in 1..Len(backlog'), backlog'[i].type = "Register"
        PROVE  /\ pc[backlog'[i].from] # "send_register"
               /\ \A j \in 1..Len(known) : known[j] # backlog'[i].from
    <3>1. \A j \in 1..Len(backlog) : backlog[j].type = "Register" =>
            /\ pc[backlog[j].from] # "send_register"
            /\ \A l \in 1..Len(known) : known[l] # backlog[j].from
      BY DEF IInv, RegisterInv
    <3>2. i + 1 \in 1..Len(backlog) /\ backlog'[i] = backlog[i + 1]
      BY <1>3
    <3>3. backlog[i + 1].type = "Register"
      BY <2>1, <3>2
    <3>4. /\ pc[backlog[i + 1].from] # "send_register"
          /\ \A l \in 1..Len(known) : known[l] # backlog[i + 1].from
      BY <3>1, <3>2, <3>3
    <3>5. QED BY <3>2, <3>4
  <2>2. QED BY <1>1, <2>1 DEF IInv, RegisterInv
<1>10. verdict' = "none"
  BY <1>1 DEF IInv, VerdictInv
<1>11. VerdictInv'
  BY <1>10 DEF VerdictInv
<1>12. /\ \A c \in Procs : Told(c, 2)'
       /\ turn + Len(backlog) + Cardinality(Unreported) <= N
  BY <1>1 DEF IInv, ToldInv, ReportInv, Told
<1>13. /\ N \in Nat /\ N >= 1 /\ turn \in Nat /\ turn <= N - 1 /\ Len(backlog) \in Nat
       /\ IsFiniteSet(Unreported) /\ Cardinality(Unreported) \in Nat
  BY <1>1, CountTypes
<1>14. CASE turn + 1 = N
  <2>1. phase' = "stop" /\ turn' = 0
    BY <1>1, <1>14 DEF NextTurn
  <2>2. TypeInv'
    BY <1>1, <1>3, <1>5, <1>13, <2>1 DEF TypeInv, agreementVars, Connections
  <2>3. ToldInv'
    <3>1. Len(known') \in Nat /\ \A i \in 1..Len(known') : known'[i] \in Procs
      BY <1>1, AllKnown
    <3>2. ToldInTurns(2)'
      BY <1>12, <2>1, <3>1, FirstTurn
    <3>3. QED BY <2>1, <3>2 DEF ToldInv
  <2>4. Unreported = {}
    <3>1. Cardinality(Unreported) = 0
      BY <1>3, <1>12, <1>13, <1>14
    <3>2. QED BY <1>13, <3>1, FS_EmptySet
  <2>5. ReportInv'
    BY <1>3, <2>1, <2>4 DEF ReportInv
  <2>6. QED BY <1>3, <1>8, <1>9, <1>11, <2>1, <2>2, <2>3, <2>5 DEF IInv
<1>15. CASE turn + 1 # N
  <2>1. phase' = "results" /\ turn' = turn + 1
    BY <1>1, <1>15 DEF NextTurn
  <2>2. turn' \in 0..(N - 1)
    BY <1>13, <1>15, <2>1
  <2>3. TypeInv'
    BY <1>1, <1>3, <1>5, <2>1, <2>2 DEF TypeInv, agreementVars, Connections
  <2>4. ToldInv'
    BY <1>12, <2>1 DEF ToldInv
  <2>5. turn' + Len(backlog') + Cardinality(Unreported') <= N
    BY <1>3, <1>12, <1>13, <2>1
  <2>6. ReportInv'
    BY <2>1, <2>5 DEF ReportInv
  <2>7. QED BY <1>3, <1>8, <1>9, <1>11, <2>1, <2>3, <2>4, <2>6 DEF IInv
<1>16. QED BY <1>14, <1>15

(* No client has two results, so there are at most N, and N are of all.    *)
LEMMA ResultsOfAll ==
  ASSUME IInv
  PROVE  /\ Len(results) \in Nat /\ Len(results) <= N
         /\ Len(results) = N => {results[i].id : i \in 1..N} = Procs
<1> DEFINE n == Len(results)
           f == [i \in 1..n |-> results[i].id]
<1>1. n \in Nat /\ \A i \in 1..n : results[i].id \in Procs
  BY Origins DEF IInv
<1>2. \A i, j \in 1..n : f[i] = f[j] => i = j
  BY DEF IInv, ResultInv
<1>3. f \in [1..n -> Procs]
  BY <1>1
<1>4. \A i \in 1..n : f[i] = results[i].id
  OBVIOUS
<1> HIDE DEF f, n
<1>5. n <= N /\ (n = N => \A c \in Procs : \E i \in 1..n : f[i] = c)
  BY <1>1, <1>2, <1>3, Enumeration
<1>6. n = N => {results[i].id : i \in 1..N} = Procs
  BY <1>1, <1>4, <1>5
<1>7. QED BY <1>1, <1>5, <1>6 DEF n

(* The verdict on N results of a correct agreement is positive.            *)
LEMMA VerifyStep == ASSUME IInv, Verify PROVE IInv'
<1>1. /\ phase = "verify" /\ phase' = "ended"
      /\ UNCHANGED <<turn, known, backlog, results, pc, peers, inbox, agreementVars>>
  BY DEF Verify
<1>2. /\ verdict' \in {"valid", "invalid", "crashed"}
      /\ verdict' \in {"invalid", "crashed"} => Len(results) < N
  <2>1. Len(results) \in Nat /\ Len(results) <= N /\ N \in Nat
    BY ResultsOfAll, Clients
  <2>2. CASE Len(results) < N
    BY <2>2 DEF Verify
  <2>3. CASE ~ (Len(results) < N)
    <3>1. Len(results) = N
      BY <2>1, <2>3
    <3>2. ASSUME NEW i \in 1..N, NEW j \in 1..N
          PROVE  Comparable(results[i].value, results[j].value)
      <4>1. results[i].id \in Procs /\ results[j].id \in Procs
        BY <3>1, Origins DEF IInv
      <4>2. results[i].value = learnt[results[i].id] /\ results[j].value = learnt[results[j].id]
        BY <3>1 DEF IInv, ResultInv
      <4>3. Comparable(learnt[results[i].id], learnt[results[j].id])
        BY <4>1 DEF IInv, ResultInv
      <4>4. QED BY <4>2, <4>3
    <3>3. QED BY <2>3, <3>2 DEF Verify
  <2>4. QED BY <2>2, <2>3
<1> USE DEF agreementVars
<1>3. TypeInv'
  BY <1>1, <1>2 DEF IInv, TypeInv
<1>4. ToldInv'
  BY <1>1 DEF IInv, ToldInv, Told
<1>5. RegisterInv' /\ BacklogInv'
  BY <1>1 DEF IInv, RegisterInv, BacklogInv
<1>6. ReportInv'
  BY <1>1, UnreportedKept DEF IInv, ReportInv
<1>7. ResultInv' /\ PeersInv'
  BY <1>1 DEF IInv, ResultInv, PeersInv
<1>8. VerdictInv'
  BY <1>1, <1>2 DEF VerdictInv
<1>9. QED BY <1>3, <1>4, <1>5, <1>6, <1>7, <1>8 DEF IInv

-----------------------------------------------------------------------------
(* The invariant is inductive.                                             *)

(* It holds before anybody has registered.                                  *)
LEMMA InitIInv == Init => IInv
<1> SUFFICES ASSUME Init PROVE IInv
  OBVIOUS
<1>1. Len(known) = 0 /\ Len(backlog) = 0 /\ Len(results) = 0
  BY EmptySeq DEF Init
<1>2. TypeInv
  <2>1. turn \in 0..(N - 1)
    BY Clients DEF Init
  <2>2. /\ known \in Seq(Procs) /\ results \in Seq([id : Procs, value : SUBSET Procs])
        /\ backlog \in Seq([type : {"Register", "TestComplete"}, from : Procs, whole : BOOLEAN])
    BY EmptySeq DEF Init
  <2>3. /\ inbox \in [Procs -> Inboxes] /\ pc \in [Procs -> Places]
        /\ peers \in [Procs -> SUBSET Procs]
    BY DEF Init, Inboxes, Places
  <2>4. proposed \subseteq Procs /\ learnt \in [Procs -> SUBSET Procs]
    BY DEF Init, LA!AbsInit, LA!Bottom
  <2>5. QED BY <2>1, <2>2, <2>3, <2>4 DEF Init, TypeInv
<1>3. ToldInv
  BY DEF Init, ToldInv, Told, Early
<1>4. RegisterInv /\ BacklogInv
  BY <1>1 DEF Init, RegisterInv, BacklogInv
<1>5. ReportInv
  BY DEF Init, ReportInv
<1>6. ResultInv
  BY <1>1 DEF Init, ResultInv, LA!AbsInit, LA!Bottom, Comparable, Leq
<1>7. PeersInv /\ VerdictInv
  BY DEF Init, PeersInv, VerdictInv, Early
<1>8. QED BY <1>2, <1>3, <1>4, <1>5, <1>6, <1>7 DEF IInv

(* It does not depend on anything but the variables.                        *)
LEMMA StutterStep == ASSUME IInv, UNCHANGED vars PROVE IInv'
<1> USE DEF vars, coordinatorVars, agreementVars
<1>1. TypeInv' /\ RegisterInv' /\ BacklogInv'
  BY DEF IInv, TypeInv, RegisterInv, BacklogInv
<1>2. ToldInv'
  BY DEF IInv, ToldInv, ToldInTurns, Told
<1>3. ReportInv'
  BY UnreportedKept DEF IInv, ReportInv
<1>4. ResultInv' /\ PeersInv' /\ VerdictInv'
  BY DEF IInv, ResultInv, PeersInv, VerdictInv
<1>5. QED BY <1>1, <1>2, <1>3, <1>4 DEF IInv

(* Every step preserves the invariant.                                     *)
LEMMA NextIInv == IInv /\ [Next]_vars => IInv'
<1> SUFFICES ASSUME IInv, [Next]_vars PROVE IInv'
  OBVIOUS
<1>1. CASE UNCHANGED vars
  BY <1>1, StutterStep
<1>2. ASSUME NEW c \in Procs, Client(c) \/ Crash(c) PROVE IInv'
  <2>1. Moves(c) /\ Agrees(c)
    BY <1>2, SendRegisterMove, ReadIdMove, WaitForTestInfoMove, WaitForStartMove, FinishMove,
       SendTestCompleteMove, WaitForStopMove, CrashMove DEF Client
  <2>2. QED BY <2>1, MoveStep
<1>3. CASE Coordinate
  BY <1>3, AcceptRegisterStep, SendTestInfoStep, SendStartStep, WaitForResultStep,
     SendStopStep, VerifyStep DEF Coordinate
<1>4. QED BY <1>1, <1>2, <1>3 DEF Next

(* The inductive invariant holds in every reachable state.                 *)
THEOREM Invariance == Spec => []IInv
BY InitIInv, NextIInv, PTL DEF Spec

-----------------------------------------------------------------------------
(* The two barriers.                                                       *)

(* Nothing is registered, told or reported at first.                       *)
LEMMA InitBarrier == Init => BarrierInv
<1> SUFFICES ASSUME Init PROVE BarrierInv
  OBVIOUS
<1>1. KnownInv
  BY DEF Init, KnownInv, Told, Early
<1>2. HeardInv /\ DrainedInv
  BY DEF Init, HeardInv, DrainedInv
<1>3. QED BY <1>1, <1>2 DEF BarrierInv

(* A client cannot undo a message that was sent to it.                      *)
LEMMA MoveKnown ==
  ASSUME KnownInv, NEW c \in Procs, Moves(c)
  PROVE  KnownInv'
<1>1. known' = known
  BY DEF Moves, coordinatorVars
<1>2. ASSUME NEW d \in Procs, Told(d, 0) PROVE Told(d, 0)'
  <2>1. CASE d = c
    BY <1>2, <2>1 DEF Moves
  <2>2. CASE d # c
    <3>1. pc'[d] = pc[d] /\ inbox'[d] = inbox[d]
      BY <2>2 DEF Moves
    <3>2. QED BY <1>2, <3>1 DEF Told
  <2>3. QED BY <2>1, <2>2
<1>3. QED BY <1>1, <1>2 DEF KnownInv

(* The coordinator ends early while it knows everybody or has told nobody. *)
LEMMA CoordinateKnown ==
  ASSUME IInv, IInv', KnownInv, Coordinate
  PROVE  KnownInv'
<1>1. CASE phase = "register"
  <2>1. UNCHANGED <<pc, inbox>>
    BY <1>1 DEF Coordinate, AcceptRegister, SendTestInfo, SendStart, WaitForResult, SendStop, Verify
  <2>2. \A c \in Procs : Told(c, 0)
    BY <1>1 DEF IInv, ToldInv
  <2>3. \A c \in Procs : Told(c, 0)'
    BY <2>1, <2>2 DEF Told
  <2>4. QED BY <2>3 DEF KnownInv
<1>2. CASE phase # "register"
  <2>1. known' = known
    BY <1>2 DEF Coordinate, AcceptRegister, SendTestInfo, SendStart, WaitForResult, SendStop, Verify
  <2>2. phase # "aborted"
    BY DEF Coordinate, AcceptRegister, SendTestInfo, SendStart, WaitForResult, SendStop, Verify
  <2>3. Len(known) = N
    BY <1>2, <2>2 DEF IInv, RegisterInv
  <2>4. QED BY <2>1, <2>3 DEF KnownInv
<1>3. QED BY <1>1, <1>2

(* Only send_test_complete, having written the result, leads to waiting    *)
(* for the stop signal.                                                    *)
LEMMA ReportSent ==
  ASSUME IInv, NEW c \in Procs, Client(c) \/ Crash(c),
         pc'[c] \in {"wait_for_stop", "stopped"}
  PROVE  \/ pc[c] = "wait_for_stop"
         \/ backlog' = Append(backlog, Connection("TestComplete", c, TRUE))
<1>1. TypeInv
  BY DEF IInv
<1>2. ASSUME NEW place, pc' = [pc EXCEPT ![c] = place]
      PROVE  pc'[c] = place
  BY <1>1, <1>2 DEF TypeInv
<1>3. CASE SendRegister(c)
  BY <1>2, <1>3 DEF SendRegister, Connect, MoveTo
<1>4. CASE ReadId(c)
  BY <1>2, <1>4 DEF ReadId, MoveTo
<1>5. CASE WaitForTestInfo(c)
  BY <1>2, <1>5 DEF WaitForTestInfo, Take, MoveTo
<1>6. CASE WaitForStart(c)
  <2>1. PICK place \in {"start", "crashed"} : pc' = [pc EXCEPT ![c] = place]
    BY <1>6 DEF WaitForStart, Take, MoveTo
  <2>2. QED BY <1>2, <2>1
<1>7. CASE Finish(c)
  BY <1>2, <1>7 DEF Finish, MoveTo
<1>8. CASE SendTestComplete(c)
  BY <1>2, <1>8 DEF SendTestComplete, Connect, MoveTo
<1>9. CASE WaitForStop(c)
  BY <1>9 DEF WaitForStop
<1>10. CASE Crash(c)
  BY <1>2, <1>10 DEF Crash, MoveTo
<1>11. QED BY <1>3, <1>4, <1>5, <1>6, <1>7, <1>8, <1>9, <1>10 DEF Client

(* No client takes a connection away.                                      *)
LEMMA StillPending ==
  ASSUME IInv, NEW c \in Procs, Moves(c), NEW d \in Procs
  PROVE  /\ Pending(d) => Pending(d)'
         /\ backlog' = Append(backlog, Connection("TestComplete", c, TRUE)) => Pending(c)'
<1>1. TypeInv
  BY DEF IInv
<1>2. ASSUME NEW x \in Connections, backlog' = Append(backlog, x)
      PROVE  /\ Pending(d) => Pending(d)'
             /\ x.from = c /\ x.type = "TestComplete" /\ x.whole => Pending(c)'
  <2>1. /\ Len(backlog) \in Nat /\ Len(backlog') = Len(backlog) + 1
        /\ \A i \in 1..Len(backlog) : backlog'[i] = backlog[i]
        /\ backlog'[Len(backlog) + 1] = x
    BY <1>1, <1>2, BacklogAppend
  <2>2. /\ \A i \in 1..Len(backlog) : i \in 1..Len(backlog')
        /\ Len(backlog) + 1 \in 1..Len(backlog')
    BY <2>1
  <2>3. QED BY <2>1, <2>2 DEF Pending
<1>3. \A t \in {"Register", "TestComplete"} : \A w \in BOOLEAN :
        /\ Connection(t, c, w) \in Connections
        /\ Connection(t, c, w).from = c /\ Connection(t, c, w).type = t
        /\ Connection(t, c, w).whole = w
  BY DEF Connection, Connections
<1>4. CASE backlog' = backlog
  <2>1. backlog' # Append(backlog, Connection("TestComplete", c, TRUE))
    <3>1. Connection("TestComplete", c, TRUE) \in Connections
      BY <1>3
    <3>2. /\ Len(backlog) \in Nat
          /\ Len(Append(backlog, Connection("TestComplete", c, TRUE))) = Len(backlog) + 1
      BY <1>1, <3>1, BacklogAppend
    <3> DEFINE n == Len(backlog)
    <3>3. n # n + 1
      BY <3>2
    <3>4. QED BY <1>4, <3>2, <3>3
  <2>2. QED BY <1>4, <2>1 DEF Pending
<1>5. CASE \E t \in {"Register", "TestComplete"} : \E w \in BOOLEAN :
             backlog' = Append(backlog, Connection(t, c, w))
  <2>1. PICK x \in Connections : backlog' = Append(backlog, x)
    BY <1>3, <1>5
  <2>2. Pending(d) => Pending(d)'
    BY <1>2, <2>1
  <2>3. ASSUME backlog' = Append(backlog, Connection("TestComplete", c, TRUE))
        PROVE  Pending(c)'
    BY <1>2, <1>3, <2>3
  <2>4. QED BY <2>2, <2>3
<1>6. QED BY <1>4, <1>5 DEF Moves, Opens

(* A result is handed over before its client waits for the stop signal.    *)
LEMMA MoveHeard ==
  ASSUME IInv, HeardInv, NEW c \in Procs, Moves(c), Client(c) \/ Crash(c)
  PROVE  HeardInv'
<1> SUFFICES ASSUME NEW d \in Procs, pc'[d] \in {"wait_for_stop", "stopped"}
             PROVE  Heard(d)' \/ Pending(d)'
  BY DEF HeardInv
<1>1. Heard(d) => Heard(d)'
  BY DEF Heard, Moves, coordinatorVars
<1>2. Pending(d) => Pending(d)'
  BY StillPending
<1>3. CASE pc[d] \in {"wait_for_stop", "stopped"}
  BY <1>1, <1>2, <1>3 DEF HeardInv
<1>4. CASE pc[d] \notin {"wait_for_stop", "stopped"}
  <2>1. d = c
    BY <1>4 DEF Moves
  <2>2. backlog' = Append(backlog, Connection("TestComplete", c, TRUE))
    BY <1>4, <2>1, ReportSent
  <2>3. QED BY <2>1, <2>2, StillPending
<1>5. QED BY <1>3, <1>4

(* A turn of the results loop takes a whole report over.                   *)
LEMMA ResultHeard ==
  ASSUME IInv, HeardInv, WaitForResult
  PROVE  HeardInv'
<1>1. TypeInv /\ backlog # <<>> /\ backlog' = Tail(backlog) /\ pc' = pc
  BY DEF IInv, WaitForResult
<1> PICK m \in Connections : m = backlog[1]
  BY <1>1, BacklogTail
<1> PICK r : r = [id |-> m.from, value |-> learnt[m.from]]
  OBVIOUS
<1> DEFINE R == [id : Procs, value : SUBSET Procs]
<1>2. /\ Head(backlog) = m /\ Len(backlog) \in Nat /\ m = backlog[1]
      /\ Len(backlog') = Len(backlog) - 1
      /\ \A i \in 1..Len(backlog') : backlog'[i] = backlog[i + 1]
  BY <1>1, BacklogTail
<1>3. results' = IF m.type = "TestComplete" /\ m.whole THEN Append(results, r) ELSE results
  BY <1>2 DEF WaitForResult
<1>4. results \in Seq(R) /\ r \in R /\ Len(results) \in Nat
  BY <1>1, <1>2, Origins DEF TypeInv, Connections
<1>5. r.id = m.from
  OBVIOUS
<1> HIDE DEF R
<1>6. /\ Len(Append(results, r)) = Len(results) + 1
      /\ \A i \in 1..Len(results) : Append(results, r)[i] = results[i]
      /\ Append(results, r)[Len(results) + 1] = r
  BY <1>4, AppendProperties
<1>7. /\ \A i \in 1..Len(results) : i \in 1..(Len(results) + 1)
      /\ Len(results) + 1 \in 1..(Len(results) + 1)
  BY <1>4
<1>8. /\ \A c \in Procs : Heard(c) => Heard(c)'
      /\ m.type = "TestComplete" /\ m.whole => Heard(m.from)'
  BY <1>3, <1>5, <1>6, <1>7 DEF Heard
<1>9. ASSUME NEW c \in Procs, Pending(c) PROVE Heard(c)' \/ Pending(c)'
  <2>1. PICK i \in 1..Len(backlog) :
          backlog[i].from = c /\ backlog[i].type = "TestComplete" /\ backlog[i].whole
    BY <1>9 DEF Pending
  <2>2. CASE i = 1
    BY <1>2, <1>8, <2>1, <2>2
  <2>3. CASE i # 1
    <3>1. i - 1 \in 1..Len(backlog') /\ (i - 1) + 1 = i
      BY <1>2, <2>3
    <3>2. backlog'[i - 1] = backlog[i]
      BY <1>2, <3>1
    <3>3. QED BY <2>1, <3>1, <3>2 DEF Pending
  <2>4. QED BY <2>2, <2>3
<1>10. QED BY <1>1, <1>8, <1>9 DEF HeardInv

(* The other steps of the coordinator leave reports alone.                  *)
LEMMA CoordinateHeard ==
  ASSUME IInv, HeardInv, Coordinate
  PROVE  HeardInv'
<1>1. CASE AcceptRegister
  <2>1. pc' = pc /\ \A c \in Procs : Told(c, 0)
    BY <1>1 DEF AcceptRegister, IInv, ToldInv
  <2>2. QED BY <2>1 DEF HeardInv, Told, Early
<1>2. CASE WaitForResult
  BY <1>2, ResultHeard
<1>3. CASE SendTestInfo \/ SendStart \/ SendStop \/ Verify
  <2>1. UNCHANGED <<backlog, results, pc>>
    BY <1>3 DEF SendTestInfo, SendStart, SendStop, Verify
  <2>2. QED BY <2>1 DEF HeardInv, Heard, Pending
<1>4. QED BY <1>1, <1>2, <1>3 DEF Coordinate

(* When nobody is left to report, nobody opens a connection any more.      *)
LEMMA MoveDrained ==
  ASSUME IInv, DrainedInv, NEW c \in Procs, Moves(c)
  PROVE  DrainedInv'
<1> SUFFICES ASSUME phase' \in {"stop", "verify", "ended"} PROVE backlog' = <<>>
  BY DEF DrainedInv
<1>1. phase' = phase
  BY DEF Moves, coordinatorVars
<1>2. pc[c] \in Reported /\ backlog = <<>>
  BY <1>1 DEF IInv, ReportInv, Unreported, DrainedInv
<1>3. backlog' = backlog
  BY <1>2 DEF Moves, Opens, Reported
<1>4. QED BY <1>2, <1>3

(* The last turn of the results loop takes the last connection.            *)
LEMMA CoordinateDrained ==
  ASSUME IInv, DrainedInv, Coordinate
  PROVE  DrainedInv'
<1> SUFFICES ASSUME phase' \in {"stop", "verify", "ended"} PROVE backlog' = <<>>
  BY DEF DrainedInv
<1>1. CASE AcceptRegister \/ SendTestInfo \/ SendStart
  BY <1>1 DEF AcceptRegister, SendTestInfo, SendStart, NextTurn, Abort
<1>2. CASE SendStop \/ Verify
  BY <1>2 DEF SendStop, Verify, DrainedInv
<1>3. CASE WaitForResult
  <2>1. TypeInv /\ phase = "results" /\ backlog # <<>> /\ backlog' = Tail(backlog)
        /\ NextTurn(N, "stop")
    BY <1>3 DEF IInv, WaitForResult, ResultsAwaited
  <2>2. turn + 1 = N
    BY <2>1 DEF NextTurn
  <2>3. turn + Len(backlog) + Cardinality(Unreported) <= N
    BY <2>1 DEF IInv, ReportInv
  <2>4. backlog' \in Seq(Connections) /\ Len(backlog') = Len(backlog) - 1 /\ Len(backlog) >= 1
    BY <2>1, BacklogTail
  <2>5. Len(backlog') = 0
    BY <2>1, <2>2, <2>3, <2>4, CountTypes
  <2>6. QED BY <2>4, <2>5, EmptySeq
<1>4. QED BY <1>1, <1>2, <1>3 DEF Coordinate

(* Every step preserves what holds the barriers together.                  *)
LEMMA NextBarrier == IInv /\ IInv' /\ BarrierInv /\ [Next]_vars => BarrierInv'
<1> SUFFICES ASSUME IInv, IInv', KnownInv, HeardInv, DrainedInv, [Next]_vars
             PROVE  KnownInv' /\ HeardInv' /\ DrainedInv'
  BY DEF BarrierInv
<1>1. CASE UNCHANGED vars
  BY <1>1 DEF vars, coordinatorVars, KnownInv, HeardInv, DrainedInv, Told, Heard, Pending
<1>2. ASSUME NEW c \in Procs, Client(c) \/ Crash(c)
      PROVE  KnownInv' /\ HeardInv' /\ DrainedInv'
  <2>1. Moves(c)
    BY <1>2, SendRegisterMove, ReadIdMove, WaitForTestInfoMove, WaitForStartMove, FinishMove,
       SendTestCompleteMove, WaitForStopMove, CrashMove DEF Client
  <2>2. QED BY <1>2, <2>1, MoveKnown, MoveHeard, MoveDrained
<1>3. CASE Coordinate
  BY <1>3, CoordinateKnown, CoordinateHeard, CoordinateDrained
<1>4. QED BY <1>1, <1>2, <1>3 DEF Next

(* The barriers hold in every reachable state.                             *)
THEOREM BarrierInvariance == Spec => []BarrierInv
BY InitBarrier, NextBarrier, Invariance, PTL DEF Spec

(* The others have reported by the last turn, and nothing is pending.      *)
LEMMA SurvivorIsHeard == IInv /\ BarrierInv => SurvivorsHeard
<1> SUFFICES ASSUME IInv, HeardInv, DrainedInv, phase \in {"verify", "ended"},
                    NEW c \in Procs, pc[c] # "crashed"
             PROVE  Heard(c)
  BY DEF BarrierInv, SurvivorsHeard
<1>1. pc[c] \in {"wait_for_stop", "stopped"}
  BY DEF IInv, ReportInv, Unreported, Reported
<1>2. ~ Pending(c)
  <2>1. Len(backlog) = 0
    BY EmptySeq DEF DrainedInv
  <2>2. QED BY <2>1 DEF Pending
<1>3. QED BY <1>1, <1>2 DEF HeardInv

(* A list of fewer than N clients lacks one.                               *)
LEMMA TooShort ==
  ASSUME NEW n \in Nat, n < N, NEW f \in [1..n -> Procs]
  PROVE  \E c \in Procs : \A i \in 1..n : f[i] # c
<1> SUFFICES ASSUME \A c \in Procs : \E i \in 1..n : f[i] = c PROVE FALSE
  OBVIOUS
<1>1. f \in Surjection(1..n, Procs)
  BY DEF Surjection
<1>2. ExistsSurjection(1..n, Procs)
  BY <1>1 DEF ExistsSurjection
<1>3. Cardinality(Procs) <= n
  BY <1>2, FS_SurjCardinalityBound
<1>4. QED BY <1>3, Clients DEF N

(* Fewer than N results are not those of everybody.                        *)
LEMMA NotAllHeard ==
  ASSUME IInv, Len(results) < N
  PROVE  \E c \in Procs : ~ Heard(c)
<1> DEFINE n == Len(results)
           f == [i \in 1..n |-> results[i].id]
<1>1. n \in Nat /\ f \in [1..n -> Procs]
  BY Origins DEF IInv
<1>2. \A i \in 1..n : f[i] = results[i].id
  OBVIOUS
<1> HIDE DEF f
<1>3. PICK c \in Procs : \A i \in 1..n : f[i] # c
  BY <1>1, TooShort
<1>4. ~ Heard(c)
  BY <1>2, <1>3 DEF Heard
<1>5. QED BY <1>4

-----------------------------------------------------------------------------
(* Who waits for whom.                                                     *)

(* Nobody has sent anything at first.                                      *)
LEMMA InitWait == Init => WaitInv
<1> SUFFICES ASSUME Init PROVE WaitInv
  OBVIOUS
<1>1. \A c \in Procs : pc[c] = "send_register"
  BY DEF Init
<1>2. Len(backlog) = 0 /\ results = <<>> /\ phase = "register"
  BY DEF Init
<1>3. RegisteredInv
  BY <1>1 DEF RegisteredInv
<1>4. CrashInv /\ TurnsInv
  BY <1>2 DEF CrashInv, TurnsInv
<1>5. QED BY <1>3, <1>4 DEF WaitInv

(* A client that moves opens a whole connection, if any, or crashes; it     *)
(* goes on from send_register only with a registration, and from the next  *)
(* call only if it is known.                                               *)
LEMMA ClientSteps ==
  ASSUME IInv, NEW c \in Procs, Client(c) \/ Crash(c)
  PROVE  /\ pc[c] # "crashed"
         /\ \/ backlog' = backlog
            \/ \E t \in {"Register", "TestComplete"} : \E w \in BOOLEAN :
                 /\ backlog' = Append(backlog, Connection(t, c, w))
                 /\ w \/ pc'[c] = "crashed"
         /\ \/ pc'[c] = "crashed"
            \/ pc'[c] = "read_id" /\ backlog' = Append(backlog, Connection("Register", c, TRUE))
            \/ Known(c)
            \/ pc[c] \notin {"send_register", "read_id"}
<1>1. TypeInv
  BY DEF IInv
<1>2. ASSUME NEW place, pc' = [pc EXCEPT ![c] = place]
      PROVE  pc'[c] = place
  BY <1>1, <1>2 DEF TypeInv
<1>3. c \in ToSet(known) => Known(c)
  <2>1. DOMAIN known = 1..Len(known)
    BY <1>1, LenProperties DEF TypeInv
  <2>2. QED BY <2>1 DEF ToSet, Known
<1>4. CASE SendRegister(c)
  BY <1>2, <1>4 DEF SendRegister, Connect, MoveTo
<1>5. CASE ReadId(c)
  BY <1>2, <1>3, <1>5 DEF ReadId, MoveTo
<1>6. CASE WaitForTestInfo(c) \/ WaitForStart(c) \/ Finish(c) \/ WaitForStop(c)
  BY <1>6 DEF WaitForTestInfo, WaitForStart, Finish, WaitForStop
<1>7. CASE SendTestComplete(c)
  BY <1>2, <1>7 DEF SendTestComplete, Connect, MoveTo
<1>8. CASE Crash(c)
  BY <1>2, <1>8 DEF Crash, MoveTo
<1>9. QED BY <1>4, <1>5, <1>6, <1>7, <1>8 DEF Client

(* The connections after a client has moved.                               *)
LEMMA BacklogGrows ==
  ASSUME IInv, NEW c \in Procs, Client(c) \/ Crash(c)
  PROVE  /\ \A i \in 1..Len(backlog) : i \in 1..Len(backlog') /\ backlog'[i] = backlog[i]
         /\ \A i \in 1..Len(backlog') :
              \/ i \in 1..Len(backlog)
              \/ backlog'[i].from = c /\ (backlog'[i].whole \/ pc'[c] = "crashed")
         /\ backlog' = Append(backlog, Connection("Register", c, TRUE)) => Registering(c)'
<1>1. TypeInv
  BY DEF IInv
<1>2. \A t \in {"Register", "TestComplete"} : \A w \in BOOLEAN :
        /\ Connection(t, c, w) \in Connections
        /\ Connection(t, c, w).from = c /\ Connection(t, c, w).type = t
        /\ Connection(t, c, w).whole = w
  BY DEF Connection, Connections
<1>3. ASSUME NEW x \in Connections, backlog' = Append(backlog, x)
      PROVE  /\ \A i \in 1..Len(backlog) : i \in 1..Len(backlog') /\ backlog'[i] = backlog[i]
             /\ \A i \in 1..Len(backlog') : i \in 1..Len(backlog) \/ backlog'[i] = x
             /\ \E i \in 1..Len(backlog') : backlog'[i] = x
  <2>1. /\ Len(backlog) \in Nat /\ Len(backlog') = Len(backlog) + 1
        /\ \A i \in 1..Len(backlog) : backlog'[i] = backlog[i]
        /\ backlog'[Len(backlog) + 1] = x
    BY <1>1, <1>3, BacklogAppend
  <2>2. /\ \A i \in 1..Len(backlog) : i \in 1..Len(backlog')
        /\ \A i \in 1..Len(backlog') : i \in 1..Len(backlog) \/ i = Len(backlog) + 1
        /\ Len(backlog) + 1 \in 1..Len(backlog')
    BY <2>1
  <2>3. QED BY <2>1, <2>2
<1>4. ASSUME backlog' = Append(backlog, Connection("Register", c, TRUE)) PROVE Registering(c)'
  <2> PICK x \in Connections : x = Connection("Register", c, TRUE)
    BY <1>2
  <2>1. x.from = c /\ x.type = "Register" /\ x.whole
    BY <1>2
  <2>2. \E i \in 1..Len(backlog') : backlog'[i] = x
    BY <1>3, <1>4
  <2>3. QED BY <2>1, <2>2 DEF Registering
<1>5. /\ \A i \in 1..Len(backlog) : i \in 1..Len(backlog') /\ backlog'[i] = backlog[i]
      /\ \A i \in 1..Len(backlog') :
           \/ i \in 1..Len(backlog)
           \/ backlog'[i].from = c /\ (backlog'[i].whole \/ pc'[c] = "crashed")
  <2>1. CASE backlog' = backlog
    BY <2>1
  <2>2. CASE backlog' # backlog
    <3>1. PICK t \in {"Register", "TestComplete"}, w \in BOOLEAN :
            /\ backlog' = Append(backlog, Connection(t, c, w))
            /\ w \/ pc'[c] = "crashed"
      BY <2>2, ClientSteps
    <3> PICK x \in Connections : x = Connection(t, c, w)
      BY <1>2
    <3>2. x.from = c /\ (x.whole \/ pc'[c] = "crashed")
      BY <1>2, <3>1
    <3>3. QED BY <1>3, <3>1, <3>2
  <2>3. QED BY <2>1, <2>2
<1>6. QED BY <1>4, <1>5

(* Steps of a client.                                                      *)
LEMMA MoveWait ==
  ASSUME IInv, WaitInv, NEW c \in Procs, Moves(c), Client(c) \/ Crash(c)
  PROVE  WaitInv'
<1>1. UNCHANGED <<phase, turn, known, results>> /\ \A d \in Procs \ {c} : pc'[d] = pc[d]
  BY DEF Moves, coordinatorVars
<1>2. pc[c] # "crashed" /\ pc'[c] # "send_register"
  BY ClientSteps DEF Moves
<1>3. \A d \in Procs : pc[d] = "crashed" => pc'[d] = "crashed"
  BY <1>1, <1>2
<1>4. RegisteredInv'
  <2> SUFFICES ASSUME NEW d \in Procs
               PROVE  \/ pc'[d] \in {"send_register", "crashed"}
                      \/ Known(d)'
                      \/ pc'[d] = "read_id" /\ Registering(d)'
    BY DEF RegisteredInv
  <2>1. Known(d) => Known(d)'
    BY <1>1 DEF Known
  <2>2. Registering(d) => Registering(d)'
    BY BacklogGrows DEF Registering
  <2>3. CASE d # c
    BY <1>1, <2>1, <2>2, <2>3 DEF WaitInv, RegisteredInv
  <2>4. CASE d = c
    <3>1. \/ pc'[c] = "crashed"
          \/ pc'[c] = "read_id" /\ Registering(c)'
          \/ Known(c)
          \/ pc[c] \notin {"send_register", "read_id"}
      BY ClientSteps, BacklogGrows
    <3>2. QED BY <1>2, <2>1, <2>4, <3>1 DEF WaitInv, RegisteredInv
  <2>5. QED BY <2>3, <2>4
<1>5. CrashInv'
  <2>1. ASSUME NEW i \in 1..Len(backlog'), ~ backlog'[i].whole
        PROVE  pc'[backlog'[i].from] = "crashed"
    <3>1. CASE i \in 1..Len(backlog)
      <4>1. backlog'[i] = backlog[i] /\ backlog[i].from \in Procs
        BY <3>1, BacklogGrows, Origins DEF IInv
      <4>2. QED BY <1>3, <2>1, <3>1, <4>1 DEF WaitInv, CrashInv
    <3>2. CASE i \notin 1..Len(backlog)
      BY <2>1, <3>2, BacklogGrows
    <3>3. QED BY <3>1, <3>2
  <2>2. phase' = "aborted" => \E d \in Procs : pc'[d] = "crashed"
    BY <1>1, <1>3 DEF WaitInv, CrashInv
  <2>3. QED BY <2>1, <2>2 DEF CrashInv
<1>6. TurnsInv'
  BY <1>1 DEF WaitInv, TurnsInv
<1>7. QED BY <1>4, <1>5, <1>6 DEF WaitInv

(* What the coordinator takes from the backlog.                             *)
LEMMA TakenOne ==
  ASSUME IInv, backlog # <<>>, backlog' = Tail(backlog), pc' = pc, NEW m, m = Head(backlog),
         \A i \in 1..Len(backlog) : ~ backlog[i].whole => pc[backlog[i].from] = "crashed"
  PROVE  /\ m.from \in Procs /\ m = backlog[1] /\ 1 \in 1..Len(backlog)
         /\ m.whole \/ pc[m.from] = "crashed"
         /\ \A i \in 1..Len(backlog') : ~ backlog'[i].whole => pc'[backlog'[i].from] = "crashed"
         /\ \A c \in Procs : Registering(c) =>
              \/ Registering(c)'
              \/ m.from = c /\ m.type = "Register" /\ m.whole
<1>1. TypeInv
  BY DEF IInv
<1>2. /\ m = backlog[1] /\ m \in Connections /\ Len(backlog) \in Nat /\ 1 \in 1..Len(backlog)
      /\ Len(backlog') = Len(backlog) - 1
      /\ \A i \in 1..Len(backlog') : i + 1 \in 1..Len(backlog) /\ backlog'[i] = backlog[i + 1]
  BY <1>1, BacklogTail
<1>3. m.from \in Procs
  BY <1>2 DEF Connections
<1>4. m.whole \/ pc[m.from] = "crashed"
  BY <1>2
<1>5. \A i \in 1..Len(backlog') : ~ backlog'[i].whole => pc'[backlog'[i].from] = "crashed"
  BY <1>2
<1>6. ASSUME NEW c \in Procs, Registering(c)
      PROVE  Registering(c)' \/ (m.from = c /\ m.type = "Register" /\ m.whole)
  <2>1. PICK i \in 1..Len(backlog) :
          backlog[i].from = c /\ backlog[i].type = "Register" /\ backlog[i].whole
    BY <1>6 DEF Registering
  <2>2. CASE i = 1
    BY <1>2, <2>1, <2>2
  <2>3. CASE i # 1
    <3>1. i - 1 \in 1..Len(backlog') /\ (i - 1) + 1 = i
      BY <1>2, <2>3
    <3>2. backlog'[i - 1] = backlog[i]
      BY <1>2, <3>1
    <3>3. QED BY <2>1, <3>1, <3>2 DEF Registering
  <2>4. QED BY <2>2, <2>3
<1>7. QED BY <1>2, <1>3, <1>4, <1>5, <1>6

(* A registration makes its client known; one that breaks off is of a      *)
(* client that has crashed.                                                *)
LEMMA AcceptWait ==
  ASSUME IInv, WaitInv, AcceptRegister
  PROVE  WaitInv'
<1>1. /\ TypeInv /\ phase = "register" /\ backlog # <<>> /\ backlog' = Tail(backlog)
      /\ UNCHANGED <<results, pc>>
  BY DEF IInv, AcceptRegister
<1> PICK m : m = Head(backlog)
  OBVIOUS
<1>2. /\ m.from \in Procs /\ m = backlog[1] /\ 1 \in 1..Len(backlog)
      /\ m.whole \/ pc[m.from] = "crashed"
      /\ \A i \in 1..Len(backlog') : ~ backlog'[i].whole => pc'[backlog'[i].from] = "crashed"
      /\ \A c \in Procs : Registering(c) =>
           \/ Registering(c)'
           \/ m.from = c /\ m.type = "Register" /\ m.whole
  BY <1>1, TakenOne DEF WaitInv, CrashInv
<1>3. m.type = "Register"
  BY <1>1, <1>2 DEF IInv, RegisterInv
<1>4. /\ m.whole => known' = Append(known, m.from) /\ phase' \in {"register", "test_info"}
      /\ ~ m.whole => known' = known /\ phase' = "aborted"
  BY <1>1, <1>3 DEF AcceptRegister, NextTurn, Abort
<1>5. /\ \A c \in Procs : Known(c) => Known(c)'
      /\ m.whole => Known(m.from)'
  <2>1. CASE m.whole
    <3>1. /\ Len(known) \in Nat /\ Len(known') = Len(known) + 1
          /\ known'[Len(known) + 1] = m.from
          /\ \A i \in 1..Len(known) : known'[i] = known[i]
      <4>1. known \in Seq(Procs) /\ m.from \in Procs
        BY <1>1, <1>2 DEF TypeInv
      <4>2. known' = Append(known, m.from)
        BY <1>4, <2>1
      <4>3. QED BY <4>1, <4>2, AppendProperties, LenProperties
    <3>2. /\ \A i \in 1..Len(known) : i \in 1..Len(known')
          /\ Len(known) + 1 \in 1..Len(known')
      BY <3>1
    <3>3. QED BY <3>1, <3>2 DEF Known
  <2>2. CASE ~ m.whole
    BY <1>4, <2>2 DEF Known
  <2>3. QED BY <2>1, <2>2
<1>6. RegisteredInv'
  BY <1>1, <1>2, <1>5 DEF WaitInv, RegisteredInv
<1>7. CrashInv'
  BY <1>1, <1>2, <1>4 DEF CrashInv
<1>8. TurnsInv'
  BY <1>1, <1>4 DEF WaitInv, TurnsInv
<1>9. QED BY <1>6, <1>7, <1>8 DEF WaitInv

(* A turn of the results loop takes one connection and yields one result   *)
(* at most; everybody is known by then.                                    *)
LEMMA ResultWait ==
  ASSUME IInv, WaitInv, WaitForResult
  PROVE  WaitInv'
<1>1. /\ TypeInv /\ phase = "results" /\ backlog # <<>> /\ backlog' = Tail(backlog)
      /\ UNCHANGED <<known, pc>> /\ NextTurn(N, "stop")
  BY DEF IInv, WaitForResult, ResultsAwaited
<1> PICK m : m = Head(backlog)
  OBVIOUS
<1>2. /\ m.from \in Procs
      /\ \A i \in 1..Len(backlog') : ~ backlog'[i].whole => pc'[backlog'[i].from] = "crashed"
  BY <1>1, TakenOne DEF WaitInv, CrashInv
<1>3. RegisteredInv'
  <2>1. Len(known) = N
    BY <1>1 DEF IInv, RegisterInv
  <2>2. \A c \in Procs : Known(c)
    BY <2>1, AllKnown DEF Known
  <2>3. \A c \in Procs : Known(c)'
    BY <1>1, <2>2 DEF Known
  <2>4. QED BY <2>3 DEF RegisteredInv
<1>4. phase' \in {"results", "stop"}
  BY <1>1 DEF NextTurn
<1>5. CrashInv'
  BY <1>2, <1>4 DEF CrashInv
<1>6. TurnsInv'
  <2> DEFINE R == [id : Procs, value : SUBSET Procs]
             r == [id |-> m.from, value |-> learnt[m.from]]
  <2>1. results \in Seq(R) /\ r \in R
    BY <1>1, <1>2 DEF TypeInv
  <2>2. results' = results \/ results' = Append(results, r)
    BY DEF WaitForResult
  <2> HIDE DEF R, r
  <2>3. Len(results) \in Nat /\ (Len(results') = Len(results) \/ Len(results') = Len(results) + 1)
    BY <2>1, <2>2, AppendProperties, LenProperties
  <2>4. Len(results) <= turn /\ turn \in Nat
    BY <1>1 DEF WaitInv, TurnsInv, TypeInv
  <2>5. phase' = "results" => turn' = turn + 1
    BY <1>1 DEF NextTurn
  <2>6. phase' = "results" => Len(results') <= turn'
    BY <2>3, <2>4, <2>5
  <2>7. QED BY <1>4, <2>6 DEF TurnsInv
<1>7. QED BY <1>3, <1>5, <1>6 DEF WaitInv

(* The loops that send messages end early only if a client has crashed.     *)
LEMMA SendWait ==
  ASSUME IInv, WaitInv, SendTestInfo \/ SendStart \/ SendStop \/ Verify
  PROVE  WaitInv'
<1>1. UNCHANGED <<known, backlog, results, pc>>
  BY DEF SendTestInfo, SendStart, SendStop, Verify
<1>2. RegisteredInv'
  <2>1. \A c \in Procs : (Known(c) => Known(c)') /\ (Registering(c) => Registering(c)')
    BY <1>1 DEF Known, Registering
  <2>2. QED BY <1>1, <2>1 DEF WaitInv, RegisteredInv
<1>3. CrashInv'
  <2>1. phase' = "aborted" => /\ phase \in {"test_info", "start"}
                              /\ pc[known[turn + 1]] = "crashed"
    BY DEF SendTestInfo, SendStart, SendStop, Verify, NextTurn, Abort
  <2>2. phase \in {"test_info", "start"} => known[turn + 1] \in Procs
    <3>1. phase \in {"test_info", "start"} => Len(known) = N
      BY DEF IInv, RegisterInv
    <3>2. turn \in 0..(N - 1) /\ N \in Nat
      BY Clients DEF IInv, TypeInv
    <3>3. turn + 1 \in 1..N
      BY <3>2
    <3>4. QED BY <3>1, <3>3, AllKnown
  <2>3. QED BY <1>1, <2>1, <2>2 DEF WaitInv, CrashInv
<1>4. TurnsInv'
  <2>1. /\ phase' \in {"register", "test_info", "start", "results"} =>
             phase \in {"test_info", "start"}
      /\ turn \in Nat /\ (phase' = "results" => turn' = 0)
    BY DEF SendTestInfo, SendStart, SendStop, Verify, NextTurn, Abort, IInv, TypeInv
  <2>2. Len(<<>>) = 0
    OBVIOUS
  <2>3. QED BY <1>1, <2>1, <2>2 DEF WaitInv, TurnsInv
<1>5. QED BY <1>2, <1>3, <1>4 DEF WaitInv

(* Every step preserves who waits for whom.                                *)
LEMMA NextWait == IInv /\ WaitInv /\ [Next]_vars => WaitInv'
<1> SUFFICES ASSUME IInv, WaitInv, [Next]_vars PROVE WaitInv'
  OBVIOUS
<1>1. CASE UNCHANGED vars
  BY <1>1 DEF vars, coordinatorVars, WaitInv, RegisteredInv, CrashInv, TurnsInv, Known, Registering
<1>2. ASSUME NEW c \in Procs, Client(c) \/ Crash(c) PROVE WaitInv'
  <2>1. Moves(c)
    BY <1>2, SendRegisterMove, ReadIdMove, WaitForTestInfoMove, WaitForStartMove, FinishMove,
       SendTestCompleteMove, WaitForStopMove, CrashMove DEF Client
  <2>2. QED BY <1>2, <2>1, MoveWait
<1>3. CASE Coordinate
  BY <1>3, AcceptWait, ResultWait, SendWait DEF Coordinate
<1>4. QED BY <1>1, <1>2, <1>3 DEF Next

(* It holds in every reachable state.                                      *)
THEOREM WaitInvariance == Spec => []WaitInv
BY InitWait, NextWait, Invariance, PTL DEF Spec

(* Clients that wait during the registration are known, so all are; and    *)
(* there is a turn left.                                                   *)
LEMMA RegistrationGoesOn ==
  ASSUME IInv, WaitInv, phase = "register", backlog = <<>>, \A c \in Procs : ClientWaits(c)
  PROVE  \E c \in Procs : pc[c] = "crashed"
<1> SUFFICES ASSUME \A c \in Procs : pc[c] # "crashed" PROVE FALSE
  OBVIOUS
<1>1. Len(backlog) = 0
  BY EmptySeq
<1>2. \A c \in Procs : pc[c] # "send_register" /\ ~ Registering(c)
  BY <1>1 DEF ClientWaits, Registering
<1>3. \A c \in Procs : Known(c)
  BY <1>2 DEF WaitInv, RegisteredInv
<1>4. /\ known \in Seq(Procs) /\ turn = Len(known) /\ turn < N
  BY Clients DEF IInv, RegisterInv, TypeInv
<1>5. Len(known) \in Nat /\ known \in [1..Len(known) -> Procs]
  BY <1>4, LenProperties
<1>6. \E c \in Procs : \A i \in 1..Len(known) : known[i] # c
  BY <1>4, <1>5, TooShort
<1>7. QED BY <1>3, <1>6 DEF Known

(* Clients that wait during the results loop have been heard, and there is *)
(* a turn left.                                                            *)
LEMMA ResultsGoOn ==
  ASSUME IInv, BarrierInv, WaitInv, phase = "results", backlog = <<>>,
         \A c \in Procs : ClientWaits(c)
  PROVE  \E c \in Procs : pc[c] = "crashed"
<1> SUFFICES ASSUME \A c \in Procs : pc[c] # "crashed" PROVE FALSE
  OBVIOUS
<1>1. Len(results) < N
  BY Origins, Clients DEF IInv, TypeInv, WaitInv, TurnsInv
<1>2. PICK c \in Procs : ~ Heard(c)
  BY <1>1, NotAllHeard
<1>3. ~ Pending(c)
  <2>1. Len(backlog) = 0
    BY EmptySeq
  <2>2. QED BY <2>1 DEF Pending
<1>4. pc[c] # "wait_for_stop" /\ pc[c] # "stopped"
  BY <1>2, <1>3 DEF BarrierInv, HeardInv
<1>5. Told(c, 2)
  BY DEF IInv, ToldInv
<1>6. c \in ToSet(known)
  <2>1. Len(known) = N /\ known \in Seq(Procs)
    BY DEF IInv, RegisterInv, TypeInv
  <2>2. DOMAIN known = 1..Len(known)
    BY <2>1, LenProperties
  <2>3. QED BY <2>1, <2>2, AllKnown DEF ToSet
<1>7. CASE pc[c] \in Early /\ inbox[c] = <<TestInfo, StartSignal>>
  <2>1. inbox[c] # <<>>
    BY <1>7, Queues
  <2>2. QED BY <1>6, <1>7, <2>1 DEF ClientWaits, Early
<1>8. CASE pc[c] = "wait_for_start" /\ inbox[c] = <<StartSignal>>
  <2>1. inbox[c] # <<>>
    BY <1>8, Queues
  <2>2. QED BY <1>8, <2>1 DEF ClientWaits
<1>9. CASE pc[c] \in {"start", "send_test_complete"}
  BY <1>9 DEF ClientWaits
<1>10. QED BY <1>4, <1>5, <1>7, <1>8, <1>9 DEF Told

(* At the end everybody has found the stop signal, or crashed.             *)
LEMMA EndIsEnd ==
  ASSUME IInv, phase = "ended", NEW c \in Procs, ClientWaits(c)
  PROVE  pc[c] \in {"stopped", "crashed"}
<1>1. Told(c, 3)
  BY DEF IInv, ToldInv
<1>2. CASE pc[c] = "wait_for_stop" /\ inbox[c] = <<StopSignal>>
  <2>1. inbox[c] # <<>>
    BY <1>2, Queues
  <2>2. QED BY <1>2, <2>1 DEF ClientWaits
<1>3. QED BY <1>1, <1>2 DEF Told

(* Coordinator and clients wait for each other only after a crash.         *)
THEOREM NobodyWaitsInVain == Spec => []NoDeadlock
<1>1. IInv /\ BarrierInv /\ WaitInv => NoDeadlock
  <2> SUFFICES ASSUME IInv, BarrierInv, WaitInv, CoordinatorWaits,
                      \A c \in Procs : ClientWaits(c)
               PROVE  IF phase = "ended" THEN \A c \in Procs : pc[c] \in {"stopped", "crashed"}
                                         ELSE \E c \in Procs : pc[c] = "crashed"
    BY DEF NoDeadlock
  <2>1. CASE phase = "ended"
    BY <2>1, EndIsEnd
  <2>2. CASE phase = "aborted"
    BY <2>2 DEF WaitInv, CrashInv
  <2>3. CASE phase = "register" /\ backlog = <<>>
    BY <2>3, RegistrationGoesOn
  <2>4. CASE phase = "results" /\ backlog = <<>>
    BY <2>4, ResultsGoOn
  <2>5. QED BY <2>1, <2>2, <2>3, <2>4 DEF CoordinatorWaits
<1>2. QED BY <1>1, Invariance, BarrierInvariance, WaitInvariance, PTL

-----------------------------------------------------------------------------
(* The checked properties.                                                 *)

(* Types; and no more registrations and results than clients.              *)
THEOREM TypeCorrect == Spec => []TypeOK
<1>1. IInv => TypeOK
  <2> SUFFICES ASSUME IInv PROVE TypeOK
    OBVIOUS
  <2>1. Len(known) <= N /\ Len(results) <= N
    BY AllKnown, ResultsOfAll
  <2> DEFINE M == [type : {"TestInfo"}, peers : SUBSET Procs] \cup [type : {"Start", "Stop"}]
  <2>2. Inboxes \subseteq Seq(M)
    <3>1. TestInfo \in M /\ StartSignal \in M /\ StopSignal \in M
      BY DEF TestInfo, StartSignal, StopSignal
    <3> HIDE DEF M
    <3>2. QED BY <3>1 DEF Inboxes
  <2>3. \A c \in Procs : inbox[c] \in Seq(M)
    BY <2>2 DEF IInv, TypeInv
  <2>4. QED BY <2>1, <2>3 DEF IInv, TypeInv, TypeOK, LA!AbsTypeOK
<1>2. QED BY <1>1, Invariance, PTL

(* Whoever is inside the agreement knows all the others.                   *)
THEOREM PeersKnown == Spec => []PeersComplete
<1>1. IInv => PeersComplete
  BY DEF IInv, PeersInv, PeersComplete, Early
<1>2. QED BY <1>1, Invariance, PTL

(* Three messages to somebody: the coordinator is past the results.         *)
LEMMA NotYetStopped ==
  ASSUME IInv, NEW c \in Procs, \A k \in 0..2 : ~ Told(c, k)
  PROVE  phase \in {"stop", "verify", "ended"}
<1>1. \A k \in 0..1 : Len(known) = N => ~ ToldInTurns(k)
  <2> SUFFICES ASSUME NEW k \in 0..1, Len(known) = N, ToldInTurns(k) PROVE FALSE
    OBVIOUS
  <2>1. PICK i \in 1..Len(known) : known[i] = c
    BY AllKnown
  <2>2. PICK j \in 0..2 : j = IF i <= turn THEN k + 1 ELSE k
    OBVIOUS
  <2>3. Told(c, j)
    BY <2>1, <2>2 DEF ToldInTurns
  <2>4. QED BY <2>3
<1>2. phase \in {"test_info", "start"} => Len(known) = N
  BY DEF IInv, RegisterInv
<1>3. QED BY <1>1, <1>2 DEF IInv, TypeInv, ToldInv

(* The first stop signal comes after the last report.                      *)
THEOREM StopsAreLate == Spec => []NobodyStopsEarly
<1>1. IInv => NobodyStopsEarly
  <2> SUFFICES ASSUME IInv, NEW c \in Procs, NEW d \in Procs, pc[c] = "stopped"
               PROVE  pc[d] \notin {"wait_for_start", "start"}
    BY DEF NobodyStopsEarly
  <2>1. \A k \in 0..2 : ~ Told(c, k)
    BY DEF Told, Early
  <2>2. phase \in {"stop", "verify", "ended"}
    BY <2>1, NotYetStopped
  <2>3. QED BY <2>2 DEF IInv, ReportInv, Unreported, Reported
<1>2. QED BY <1>1, Invariance, PTL

(* Every client finds the message of its own step.                         *)
THEOREM MessagesInOrder == Spec => []NoWrongMessage
<1>1. IInv => NoWrongMessage
  <2> SUFFICES ASSUME IInv, NEW c \in Procs, inbox[c] # <<>>
               PROVE  /\ pc[c] = "wait_for_test_info" => Head(inbox[c]).type = "TestInfo"
                      /\ pc[c] = "wait_for_start" => Head(inbox[c]).type = "Start"
                      /\ pc[c] = "wait_for_stop" => Head(inbox[c]).type = "Stop"
    BY DEF NoWrongMessage
  <2>1. PICK k \in 0..3 : Told(c, k)
    BY ToldSomething
  <2>2. /\ pc[c] = "wait_for_test_info" => Head(inbox[c]) = TestInfo
        /\ pc[c] = "wait_for_start" => Head(inbox[c]) = StartSignal
        /\ pc[c] = "wait_for_stop" => Head(inbox[c]) = StopSignal
    BY <2>1, Queues DEF Told, Early
  <2>3. QED BY <2>2 DEF TestInfo, StartSignal, StopSignal
<1>2. QED BY <1>1, Invariance, PTL

(* A correct agreement is never reported as wrong once all results are in. *)
THEOREM VerdictsRight == Spec => []NoFalseAlarm
<1>1. IInv => NoFalseAlarm
  BY ResultsOfAll DEF IInv, VerdictInv, NoFalseAlarm
<1>2. QED BY <1>1, Invariance, PTL

(* Whoever has not crashed is heard before the verification.               *)
THEOREM EverybodyHeard == Spec => []SurvivorsHeard
BY SurvivorIsHeard, Invariance, BarrierInvariance, PTL

-----------------------------------------------------------------------------
(* Refinement.                                                             *)

\* The stages of the abstract test.
Stands == [c \in Procs |-> Stage[pc[c]]]

(* What a place stands for.                                                *)
LEMMA Standing ==
  /\ \A s \in Early \cup {"wait_for_start"} : Stage[s] = "outside"
  /\ Stage["start"] = "inside"
  /\ Stage["send_test_complete"] = "done" /\ Stage["wait_for_stop"] = "done"
  /\ Stage["stopped"] = "dismissed" /\ Stage["crashed"] = "failed"
BY DEF Stage, Early

(* Moving a client moves it in the abstract test, if it changes its stage. *)
LEMMA StageMoves ==
  ASSUME TypeInv, NEW c \in Procs, NEW place, MoveTo(c, place)
  PROVE  /\ Stands[c] = Stage[pc[c]]
         /\ Stands' = [Stands EXCEPT ![c] = Stage[place]]
         /\ Stage[place] = Stage[pc[c]] => Stands' = Stands
<1>1. /\ pc' \in [Procs -> {pc[d] : d \in Procs} \cup {place}] /\ pc'[c] = place
      /\ \A d \in Procs \ {c} : pc'[d] = pc[d]
  BY DEF MoveTo, TypeInv
<1>2. Stands[c] = Stage[pc[c]]
  BY DEF Stands
<1>3. \A d \in Procs : Stage[pc'[d]] = IF d = c THEN Stage[place] ELSE Stage[pc[d]]
  BY <1>1
<1>4. Stands' = [d \in Procs |-> IF d = c THEN Stage[place] ELSE Stage[pc[d]]]
  BY <1>3 DEF Stands
<1>5. Stands' = [Stands EXCEPT ![c] = Stage[place]]
  BY <1>4 DEF Stands
<1>6. ASSUME Stage[place] = Stage[pc[c]] PROVE Stands' = Stands
  BY <1>4, <1>6 DEF Stands
<1>7. QED BY <1>2, <1>5, <1>6

\* A step of the abstract test, seen through the map.
Simulates == Test!TestNext \/ UNCHANGED Test!testvars

(* A client that does not change its stage does nothing abstractly.        *)
LEMMA QuietClient ==
  ASSUME Stands' = Stands, UNCHANGED <<known, verdict, agreementVars>>
  PROVE  UNCHANGED Test!testvars
BY DEF Stands, agreementVars, Test!testvars, Test!absvars

(* A client may always fail, unless it is through.                         *)
LEMMA FailingClient ==
  ASSUME TypeInv, NEW c \in Procs, pc[c] \notin {"stopped", "crashed"}, MoveTo(c, "crashed"),
         UNCHANGED <<known, verdict, agreementVars>>
  PROVE  Test!TestNext
<1>1. Stage[pc[c]] \in {"outside", "inside", "done"}
  BY Standing DEF TypeInv, Places, Early
<1>2. Stands[c] = Stage[pc[c]] /\ Stands' = [Stands EXCEPT ![c] = "failed"]
  BY StageMoves, Standing
<1>3. PICK s \in {"outside", "inside", "done"} : Stands[c] = s
  BY <1>1, <1>2
<1>4. Test!Pass(c, s, "failed")
  BY <1>2, <1>3 DEF Test!Pass, Stands
<1>5. Test!Fail(c)
  BY <1>4 DEF Test!Fail, Test!Stages, Test!absvars, agreementVars
<1>6. QED BY <1>5 DEF Test!TestNext

(* The abstract test is over when everybody has reported.                  *)
LEMMA AllOver ==
  ASSUME TypeInv, Unreported = {}
  PROVE  Test!Over = Procs
<1>1. \A c \in Procs : pc[c] \in Reported
  BY DEF Unreported
<1>2. \A c \in Procs : Stage[pc[c]] \in {"done", "dismissed", "failed"}
  BY <1>1, Standing DEF Reported
<1>3. QED BY <1>2 DEF Test!Over

(* Steps of a client that keep it outside, or past the agreement.          *)
LEMMA RegisterSimulates ==
  ASSUME IInv, NEW c \in Procs, SendRegister(c) \/ ReadId(c) \/ SendTestComplete(c)
  PROVE  Simulates
<1>1. TypeInv /\ UNCHANGED <<known, verdict, agreementVars>>
  BY DEF IInv, SendRegister, ReadId, SendTestComplete, coordinatorVars
<1>2. /\ pc[c] \in {"send_register", "read_id", "send_test_complete"}
      /\ \/ MoveTo(c, "crashed")
         \/ MoveTo(c, "read_id") /\ pc[c] = "send_register"
         \/ MoveTo(c, "wait_for_test_info") /\ pc[c] = "read_id"
         \/ MoveTo(c, "wait_for_stop") /\ pc[c] = "send_test_complete"
  BY DEF SendRegister, ReadId, SendTestComplete, Connect
<1>3. CASE MoveTo(c, "crashed")
  BY <1>1, <1>2, <1>3, FailingClient DEF Simulates
<1>4. CASE ~ MoveTo(c, "crashed")
  <2>1. PICK place : MoveTo(c, place) /\ Stage[place] = Stage[pc[c]]
    BY <1>2, <1>4, Standing DEF Early
  <2>2. Stands' = Stands
    BY <1>1, <2>1, StageMoves
  <2>3. QED BY <1>1, <2>2, QuietClient DEF Simulates
<1>5. QED BY <1>3, <1>4

(* Taking over the list of peers is not seen.                              *)
LEMMA TestInfoSimulates ==
  ASSUME IInv, NEW c \in Procs, WaitForTestInfo(c)
  PROVE  Simulates
<1>1. TypeInv /\ UNCHANGED <<known, verdict, agreementVars>>
  BY DEF IInv, WaitForTestInfo, coordinatorVars
<1>2. pc[c] = "wait_for_test_info"
  BY DEF WaitForTestInfo
<1>3. MoveTo(c, "wait_for_start") \/ MoveTo(c, "crashed")
  BY DEF WaitForTestInfo, Take
<1>4. CASE MoveTo(c, "crashed")
  BY <1>1, <1>2, <1>4, FailingClient DEF Simulates
<1>5. CASE MoveTo(c, "wait_for_start")
  <2>1. Stage["wait_for_start"] = Stage[pc[c]]
    BY <1>2, Standing DEF Early
  <2>2. Stands' = Stands
    BY <1>1, <1>5, <2>1, StageMoves
  <2>3. QED BY <1>1, <2>2, QuietClient DEF Simulates
<1>6. QED BY <1>3, <1>4, <1>5

(* What a client that waits for it finds is the start signal, or the stop  *)
(* signal, and then everybody has been told as much.                       *)
LEMMA Signalled ==
  ASSUME IInv, NEW c \in Procs, inbox[c] # <<>>
  PROVE  /\ pc[c] = "wait_for_start" => Head(inbox[c]).type = "Start" /\ ~ Told(c, 0)
         /\ pc[c] = "wait_for_stop" => /\ Head(inbox[c]).type = "Stop"
                                       /\ \A k \in 0..2 : ~ Told(c, k)
<1>1. PICK k \in 0..3 : Told(c, k)
  BY ToldSomething
<1>2. CASE pc[c] = "wait_for_start"
  <2>1. inbox[c] = <<StartSignal>>
    BY <1>1, <1>2 DEF Told, Early
  <2>2. QED BY <1>2, <2>1, Queues DEF Told, Early, StartSignal
<1>3. CASE pc[c] = "wait_for_stop"
  <2>1. inbox[c] = <<StopSignal>>
    BY <1>1, <1>3 DEF Told, Early
  <2>2. inbox[c] # <<>>
    OBVIOUS
  <2>3. QED BY <1>3, <2>1, <2>2, Queues DEF Told, Early, StopSignal
<1>4. QED BY <1>2, <1>3

(* start is called when the coordinator knows everybody.                   *)
LEMMA StartSimulates ==
  ASSUME IInv, KnownInv, NEW c \in Procs, WaitForStart(c)
  PROVE  Simulates
<1>1. /\ TypeInv /\ pc[c] = "wait_for_start" /\ inbox[c] # <<>>
      /\ UNCHANGED <<known, verdict>>
  BY DEF IInv, WaitForStart, Take, coordinatorVars
<1>2. Head(inbox[c]).type = "Start" /\ ~ Told(c, 0)
  BY <1>1, Signalled
<1>3. MoveTo(c, "start")
  BY <1>2 DEF WaitForStart, Take
<1>4. pc'[c] = "start"
  BY <1>1, <1>3 DEF MoveTo, TypeInv
<1>5. LA!Call(c)
  BY <1>4 DEF WaitForStart
<1>6. ToSet(known) = Procs
  <2>1. Len(known) = N
    BY <1>2 DEF KnownInv
  <2>2. DOMAIN known = 1..Len(known)
    BY <1>1, LenProperties DEF TypeInv
  <2>3. QED BY <2>1, <2>2, AllKnown DEF ToSet
<1>7. Stands[c] = "outside" /\ Stands' = [Stands EXCEPT ![c] = "inside"]
  BY <1>1, <1>3, StageMoves, Standing DEF Early
<1>8. Test!Pass(c, "outside", "inside")
  BY <1>7 DEF Test!Pass, Stands
<1>9. Test!Enter(c)
  BY <1>1, <1>5, <1>6, <1>8 DEF Test!Enter, Test!Call, LA!Call
<1>10. QED BY <1>9 DEF Simulates, Test!TestNext

(* start returns.                                                          *)
LEMMA FinishSimulates ==
  ASSUME IInv, NEW c \in Procs, Finish(c)
  PROVE  Simulates
<1>1. /\ TypeInv /\ pc[c] = "start" /\ MoveTo(c, "send_test_complete")
      /\ UNCHANGED <<known, verdict>>
  BY DEF IInv, Finish, coordinatorVars
<1>2. PICK x \in SUBSET proposed : LA!Return(c, x)
  BY DEF Finish
<1>3. Test!Return(c, x)
  BY <1>2 DEF LA!Return, Test!Return, LA!Leq, Test!Leq, LA!Comparable, Test!Comparable,
              LA!Bottom, Test!Bottom
<1>4. Stands[c] = "inside" /\ Stands' = [Stands EXCEPT ![c] = "done"]
  BY <1>1, StageMoves, Standing
<1>5. Test!Pass(c, "inside", "done")
  BY <1>4 DEF Test!Pass, Stands
<1>6. Test!Leave(c)
  BY <1>1, <1>3, <1>5 DEF Test!Leave
<1>7. QED BY <1>6 DEF Simulates, Test!TestNext

(* The stop signal comes when everybody has reported.                      *)
LEMMA StopSimulates ==
  ASSUME IInv, NEW c \in Procs, WaitForStop(c)
  PROVE  Simulates
<1>1. /\ TypeInv /\ pc[c] = "wait_for_stop" /\ inbox[c] # <<>>
      /\ UNCHANGED <<known, verdict, agreementVars>>
  BY DEF IInv, WaitForStop, Take, coordinatorVars
<1>2. Head(inbox[c]).type = "Stop" /\ \A k \in 0..2 : ~ Told(c, k)
  BY <1>1, Signalled
<1>3. MoveTo(c, "stopped")
  BY <1>2 DEF WaitForStop, Take
<1>4. Test!Over = Procs
  <2>1. phase \in {"stop", "verify", "ended"}
    BY <1>2, NotYetStopped
  <2>2. Unreported = {}
    BY <2>1 DEF IInv, ReportInv
  <2>3. QED BY <1>1, <2>2, AllOver
<1>5. Stands[c] = "done" /\ Stands' = [Stands EXCEPT ![c] = "dismissed"]
  BY <1>1, <1>3, StageMoves, Standing
<1>6. Test!Pass(c, "done", "dismissed")
  BY <1>5 DEF Test!Pass, Stands
<1>7. Test!Dismiss(c)
  BY <1>1, <1>4, <1>6 DEF Test!Dismiss, Test!absvars, agreementVars
<1>8. QED BY <1>7 DEF Simulates, Test!TestNext

(* A crash is a failure.                                                   *)
LEMMA CrashSimulates ==
  ASSUME IInv, NEW c \in Procs, Crash(c)
  PROVE  Simulates
<1>1. /\ TypeInv /\ pc[c] \notin {"stopped", "crashed"} /\ MoveTo(c, "crashed")
      /\ UNCHANGED <<known, verdict, agreementVars>>
  BY DEF IInv, Crash, coordinatorVars
<1>2. QED BY <1>1, FailingClient DEF Simulates

(* A whole registration admits a client that was not known.                *)
LEMMA AcceptSimulates ==
  ASSUME IInv, AcceptRegister
  PROVE  Simulates
<1>1. /\ TypeInv /\ backlog # <<>> /\ UNCHANGED <<verdict, pc, agreementVars>>
      /\ phase = "register"
  BY DEF IInv, AcceptRegister
<1>2. Stands' = Stands
  BY <1>1 DEF Stands
<1> PICK m \in Connections : m = backlog[1]
  BY <1>1, BacklogTail
<1>3. /\ Head(backlog) = m /\ m.from \in Procs /\ 1 \in 1..Len(backlog)
      /\ m = backlog[1]
  BY <1>1, BacklogTail DEF Connections
<1>4. CASE m.type = "Register" /\ m.whole
  <2> PICK c \in Procs : c = m.from
    BY <1>3
  <2>1. known' = Append(known, c)
    BY <1>3, <1>4 DEF AcceptRegister
  <2>2. /\ known \in Seq(Procs) /\ Len(known) \in Nat
        /\ Len(known') = Len(known) + 1 /\ known' \in Seq(Procs)
        /\ known'[Len(known) + 1] = c /\ \A i \in 1..Len(known) : known'[i] = known[i]
    BY <1>1, <2>1, AppendProperties, LenProperties DEF TypeInv
  <2>3. /\ DOMAIN known = 1..Len(known) /\ DOMAIN known' = 1..Len(known')
        /\ \A i \in 1..Len(known') : i \in 1..Len(known) \/ i = Len(known) + 1
        /\ \A i \in 1..Len(known) : i \in 1..Len(known')
        /\ Len(known) + 1 \in 1..Len(known')
    BY <2>2, LenProperties
  <2>4. ToSet(known)' = ToSet(known) \cup {c}
    BY <2>2, <2>3 DEF ToSet
  <2>5. c \notin ToSet(known)
    <3>1. \A i \in 1..Len(known) : known[i] # c
      BY <1>3, <1>4 DEF IInv, RegisterInv
    <3>2. QED BY <2>3, <3>1 DEF ToSet
  <2>6. Test!Admit(c)
    BY <1>1, <1>2, <2>4, <2>5 DEF Test!Admit, Test!absvars, agreementVars, Stands
  <2>7. QED BY <2>6 DEF Simulates, Test!TestNext
<1>5. CASE ~ (m.type = "Register" /\ m.whole)
  <2>1. known' = known
    BY <1>3, <1>5 DEF AcceptRegister
  <2>2. QED BY <1>1, <1>2, <2>1, QuietClient DEF Simulates
<1>6. QED BY <1>4, <1>5

(* The verdict is not negative, nor missing, unless somebody has failed.   *)
LEMMA VerifySimulates ==
  ASSUME IInv, IInv', BarrierInv, Verify
  PROVE  Simulates
<1>1. /\ TypeInv /\ phase = "verify" /\ phase' = "ended"
      /\ UNCHANGED <<known, results, pc, agreementVars>>
  BY DEF IInv, Verify
<1>2. Stands' = Stands
  BY <1>1 DEF Stands
<1>3. verdict = "none"
  BY <1>1 DEF IInv, VerdictInv
<1>4. Test!Over = Procs
  BY <1>1, AllOver DEF IInv, ReportInv
<1>5. ASSUME verdict' \in {"invalid", "crashed"} PROVE \E c \in Procs : Stands[c] = "failed"
  <2>1. Len(results) < N
    BY <1>1, <1>5 DEF IInv, VerdictInv
  <2>2. PICK c \in Procs : ~ Heard(c)
    BY <2>1, NotAllHeard
  <2>3. pc[c] = "crashed"
    BY <1>1, <2>2, SurvivorIsHeard DEF SurvivorsHeard
  <2>4. QED BY <2>3, Standing DEF Stands
<1>6. verdict' \in {"valid", "invalid", "crashed"}
  BY <1>1 DEF Verify
<1>7. Test!Judge
  BY <1>1, <1>2, <1>3, <1>4, <1>5, <1>6 DEF Test!Judge, Test!absvars, agreementVars, Stands
<1>8. QED BY <1>7 DEF Simulates, Test!TestNext

(* Every step is one of the abstract test, or none.                        *)
LEMMA NextTest == IInv /\ IInv' /\ BarrierInv /\ [Next]_vars => [Test!TestNext]_Test!testvars
<1> SUFFICES ASSUME IInv, IInv', BarrierInv, [Next]_vars PROVE Simulates
  BY DEF Simulates
<1>1. CASE UNCHANGED vars
  <2>1. Stands' = Stands
    BY <1>1 DEF Stands, vars
  <2>2. QED BY <1>1, <2>1, QuietClient DEF Simulates, vars, coordinatorVars
<1>2. ASSUME NEW c \in Procs, Client(c) \/ Crash(c) PROVE Simulates
  BY <1>2, RegisterSimulates, TestInfoSimulates, StartSimulates, FinishSimulates, StopSimulates,
     CrashSimulates DEF Client, BarrierInv
<1>3. CASE Coordinate
  <2>1. CASE AcceptRegister
    BY <2>1, AcceptSimulates
  <2>2. CASE Verify
    BY <2>2, VerifySimulates
  <2>3. CASE SendTestInfo \/ SendStart \/ WaitForResult \/ SendStop
    <3>1. UNCHANGED <<known, verdict, pc, agreementVars>>
      BY <2>3 DEF SendTestInfo, SendStart, WaitForResult, SendStop
    <3>2. Stands' = Stands
      BY <3>1 DEF Stands
    <3>3. QED BY <3>1, <3>2, QuietClient DEF Simulates
  <2>4. QED BY <1>3, <2>1, <2>2, <2>3 DEF Coordinate
<1>4. QED BY <1>1, <1>2, <1>3 DEF Next

(* At first nobody is known or inside.                                     *)
LEMMA InitTest == Init => Test!TestInit
<1> SUFFICES ASSUME Init PROVE Test!TestInit
  OBVIOUS
<1>1. ToSet(known) = {}
  BY DEF Init, ToSet
<1>2. [c \in Procs |-> Stage[pc[c]]] = [c \in Procs |-> "outside"]
  BY Standing DEF Init, Early
<1>3. Test!AbsInit
  BY DEF Init, LA!AbsInit, Test!AbsInit, LA!Bottom, Test!Bottom
<1>4. QED BY <1>1, <1>2, <1>3 DEF Init, Test!TestInit

(* The coordinator and its clients implement the test with two barriers.   *)
THEOREM Refinement == Spec => ImplementsTest
BY InitTest, NextTest, Invariance, BarrierInvariance, PTL DEF Spec, ImplementsTest, Test!TestSpec

=============================================================================
