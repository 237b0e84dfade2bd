# Lattice agreement: models, model checking and proofs

The repository implements lattice agreement among processes that exchange
messages over TCP: every process proposes a set of numbers and learns a set
that contains its own proposal, is made of proposals only, and is comparable
(by inclusion) with everything the other processes learn. This directory holds
TLA+ models of the programs, TLC configurations that check them on small
instances, and machine-checked proofs about both Faleiro programs, Zheng's
program, the coordinator of a test and its verification of the results, for any
number of processes.

Contents: [the system](#1-the-system), [plan](#2-plan),
[modules](#3-modules-and-code), [runs](#4-runs), [bounds](#5-bounds),
[fairness](#6-fairness), [proofs](#7-proofs),
[disagreements found](#8-where-the-code-and-its-promises-differ),
[limits](#9-what-is-not-modelled).

## 1. The system

A test run is one coordinator and `n` algorithm processes. A process registers,
is given its identifier and an initial value, starts its protocol server, waits
for the start signal, runs its algorithm on the main thread while the network
thread handles messages, reports the result and waits for the stop signal.

| component | state | operations | correct when |
|---|---|---|---|
| `general/lattice.h`, `LatticeSet` | a set of 64-bit numbers | `join`, `<=`, `<`, `insert` | join is the least upper bound of the order |
| `general/lattice_agreement.h` | - | `start(x)` returns the learnt value | results are comparable, contain the caller's value, and are made of proposals |
| `general/generalized_lattice_agreement.h` | - | `start()`, `propose(x)` returns the learnt value; only the unfinished `generalizer/` implements it, `faleiro_generalized/` has `receive_value`, `start` and `learn_value` in its place | learnt values of all processes form a chain, each process learns a growing sequence and no value is ignored |
| `faleiro/proposer.h` | status, two counters, proposal number, proposed value; mutex `mt`, condition variable `cv` | `start` (`propose`, then `decide`/`refine` in a loop), `process_ack`, `process_nack` | decides only on values acknowledged by a majority, never counts an answer to an older proposal, stops refining, wakes up |
| `faleiro/acceptor.h` | `accepted_value` | `process_proposal` | acknowledges a growing chain of values, never forgets |
| `faleiro/protocol.h` | peer table, server | `send_proposal`, `send_response`, dispatch of messages | the handler of the right actor runs, once per message |
| `faleiro_generalized/proposer.h` | as above and `buffered_values` | `receive_value`, `start`, `process_internal_receive`, `process_ack`, `process_nack` | additionally: no value is dropped between rounds |
| `faleiro_generalized/acceptor.h` | `accepted_value` | `process_proposal`: acks also go to every learner | as above |
| `faleiro_generalized/learner.h` | `learnt_value`, a count per proposer and proposal number | `process_ack`, `learn_value` | learns only what a majority acknowledged, never goes back, wakes up its reader |
| `general/net/` (asio) | acceptor socket, pending connections and timers | `Server::send` (random delay, own connection), receive, callback on one thread | each message is handled at most once |
| `coordinator/`, `coordinator_generalized/` | peers, clients, results | register, test info, start, collect, stop, verify | nobody starts before everybody has registered, nobody is stopped before everybody is done, the verdict is right |
| `zheng/` | vector `v`, `w`, label `l`, round `r`, `acceptVal[r]`, three counters | value exchange, `classifier` in `log f` rounds | after the last round the joins of all vectors are comparable |
| `generalizer/` | unfinished | - | - |
| `general/logger.h`, `general/network.h`, `general/net/message.h` | - | logging, blocking sockets, byte order | - |

How they interact:

* The main thread and the network thread of a process share the proposer's
  state under `Proposer::mt`; the learner has a mutex and a condition variable
  of its own. The network thread is the only one that touches the acceptor.
* Processes share nothing. Every message travels on its own TCP connection
  after a delay drawn from a normal distribution, so messages between the same
  two processes overtake each other; a failed connection is logged and the
  message is gone, nothing is sent twice.
* Coordinator and processes exchange one connection per step; the process's
  listening socket queues them in order.

What is hard here: an answer that comes late, in the next proposal or the next
round; the time between the notification of the main thread and the moment it
holds the mutex; notifications that find nobody waiting; quorum arithmetic for
even `n`; lost messages to some of the acceptors only; and, in Zheng's
algorithm, writes and reads that overtake each other. `PROJECT.json` lists each
of these hazards at its line, with the property that watches it.

## 2. Plan

In order of importance:

1. **One-shot Faleiro** (modelled, checked, proved): `Lattice`,
   `LatticeAgreement` (what the interface promises), `Faleiro` (the program),
   `FaleiroInv` (inductive invariant), `FaleiroFair` (fairness and termination),
   `FaleiroProofs`.
2. **Generalized Faleiro** (modelled, checked, proved):
   `GeneralizedLatticeAgreement`, `FaleiroGeneralized`, `FaleiroGeneralizedInv`,
   `FaleiroGeneralizedFair`, `FaleiroGeneralizedProofs`.
3. **Life cycle of a test** (modelled, checked, proved): `Coordinator` for
   `la_coordinator.h` and the `main` functions: register, test info, start,
   result, stop over queued connections, clients that crash half-way, exceptions
   that use up a turn; composed with `LatticeAgreement` as the protocol that runs
   between start and stop; `AgreementTest`, what a test promises, which it
   implements; `CoordinatorInv` and `CoordinatorProofs`.
4. **Verification of the generalized test** (modelled, checked, proved):
   `GeneralizedVerification` and what its verdict means
   (`GeneralizedVerificationProofs`), composed with the program that is tested
   (`FaleiroGeneralizedTest`, `FaleiroGeneralizedTestProofs`) and with clients
   that report anything (`GeneralizedCoordinator`).
5. **Zheng** (modelled, checked; agreement and the refinement of the interface
   proved for one and two failures; what labels bound from below, and that
   nobody who hears `n - f` others is left behind, for all): `Zheng`, `ZhengInv`, `ZhengFair`, `ZhengProofs`, `ZhengAgreement`.
6. Left: a module for `net::Server` and its connections (timer, connect, header,
   data, handler) shown to implement the unordered, lossy, at-most-once network
   the protocol modules assume.

## 3. Modules and code

| module | models | state and actions |
|---|---|---|
| `Lattice` | `LatticeSet` | `Join`, `Leq`, `Less` are `join`, `operator<=`, `operator<`; `Comparable` is the coordinators' test |
| `LatticeAgreement` | what `LatticeAgreement<L>::start` promises | `Call`, `Return` |
| `Faleiro` | `faleiro/` | one variable per field, as functions from process identifiers; `Propose`, `EnterWait`, `Decide`, `Refine`, `WaitAgain` are the steps of `Proposer::start`, `Accept`/`Reject` are `Acceptor::process_proposal`, `ProcessAck`/`ProcessNack` the proposer's handlers |
| `FaleiroInv` | - | `IInv`, the inductive invariant, as a conjunction of named parts, and `ProgressInv`, inductive relative to it |
| `FaleiroFair` | - | `FairSpec`, `WaitingReturns`, `StartReturns` |
| `FaleiroProofs` | - | theorems about `Faleiro` |
| `GeneralizedLatticeAgreement` | what the generalized interface promises | `Submit`, `Learn`, `Answer` |
| `FaleiroGeneralized` | `faleiro_generalized/` | as `Faleiro`, with `ReceiveValue`, `ProposeNothing`, `InternalReceive`, `LearnAck`, `LearnValue`, `AwaitLearnt` |
| `FaleiroGeneralizedInv` | - | `IInv` and `ProgressInv`, as above |
| `FaleiroGeneralizedFair` | - | `FairSpec`, `ProposalLearnt`, `StartReturns` |
| `FaleiroGeneralizedProofs` | - | theorems about `FaleiroGeneralized` |
| `GeneralizedVerification` | the verification loops of `gla_coordinator.h` | `ProposalIgnored`, `Decreasing`, `InvalidPairs` are the three conditions that are logged, `Errors` all of them |
| `GeneralizedVerificationProofs` | - | theorems about `GeneralizedVerification` |
| `FaleiroGeneralizedTest` | the generalized program, whose results are verified | no step of its own: `Collections` are the lists of results the coordinator may hold, in any order and incomplete |
| `FaleiroGeneralizedTestProofs` | - | the theorem about `FaleiroGeneralizedTest` |
| `GeneralizedCoordinator` | the results loop and the verification of `gla_coordinator.h` | `WaitForResult` is a turn of the loop, with a connection that may break off, `Verify` what follows it |
| `Coordinator` | `la_coordinator.h`, `network.h`, `faleiro/main.cpp` | `phase` and `turn` are the coordinator's loops and their index, `pc[c]` the call of `main` client `c` is in, `inbox` and `backlog` the accept queues; `AcceptRegister`, `SendTestInfo`, `SendStart`, `WaitForResult`, `SendStop` are one turn each, `SendRegister`, `ReadId`, `WaitForTestInfo`, `WaitForStart`, `Finish`, `SendTestComplete`, `WaitForStop` the client's calls, `Crash` its end |
| `AgreementTest` | what a test run promises, without connections | `Admit`, `Enter`, `Leave`, `Dismiss`, `Fail` of a client, `Judge` |
| `CoordinatorInv` | - | `IInv`, its inductive invariant, and `BarrierInv` and `WaitInv`, inductive relative to it |
| `CoordinatorProofs` | - | theorems about `Coordinator` |
| `Zheng` | `zheng_la.h`, `protocol.h` of `zheng/` | `Start`, `ValuesReceived`, `WriteDone`, `SecondWrite`, `BecomeSlave`, `BecomeMaster` are the main thread's stretches between two waits, `NextRound` the head of the loop in `start`; `ReceiveValue`, `ReceiveWrite`, `ReceiveRead`, `ReceiveWriteAck`, `ReceiveReadAck` the handlers |
| `ZhengInv` | - | `IInv`, `LevelInv` and `ServeInv`, inductive for any number of rounds, and `ClassifierInv`, `OutcomeInv`, `OwnInv`, for one or none |
| `ZhengFair` | - | `FairSpec`, `ServedReturn`, `CorrectReturn` |
| `ZhengProofs`, `ZhengAgreement` | - | theorems about `Zheng` |
| `MCFaleiro`, `MCFaleiroFair`, `MCFaleiroGeneralized`, `MCCoordinator`, `MCGeneralizedCoordinator`, `MCZheng` | - | instances for TLC |

Atomicity. A handler of the proposer holds `mt` from its first to its last
statement, the acceptor is only touched by the network thread, and the main
thread holds `mt` from the return of `cv.wait` to the next one: each of these is
one action. Between a notification and the turn of the loop it causes, any
number of handlers may run (the variable `notified`): that is where late nacks
do their work. `Proposer::start` of the one-shot program proposes *before* it
takes `mt`, so `Propose` and `EnterWait` are two actions there; the generalized
program holds `mt` from `propose` into `cv.wait` and has one.
A spurious wakeup is allowed at any time: `Decide` and `Refine` do not require
`notified`.

In Zheng's program the main thread holds `cv_m` from the constructor until
`start` returns, except inside `cv.wait`, and every handler locks `cv_m`. So the
main thread's stretch from one wait to the next is one action, handlers run only
while it is inside a wait (`locked`), and `build_w` and `build_wp` are told by
`pc`. Every wait tests its condition again after `notify_all`: no `notified` is
needed. If the condition holds on entry, the main thread does not let go of the
lock, which `Wait` says. The labels `n - f/2 ± f/4 ...` are doubles; `Scale`
makes integers of them, exactly.

`send_proposal` hands copies of its arguments to a detached thread. It only
delays the message, which the network does anyway, so the message is in `msgs`
at once.

Network. `msgs` collects every message handed to `Server::send`, `received[p]`
those whose handler has run at `p`. A message that is never received is lost;
a message is received at most once, at any time after it was sent. The constant
`Links` says which connections can succeed at all; every theorem holds for
every `Links`, the runs choose it (section 5).

In `Zheng` a message that was handled is gone and one that is lost never gets
into `msgs`: which are lost is chosen in `Init`, from `Networks`. The two writes
of a round have the same round number and differ in their identifier (`second`).

Values. The coordinator gives process `p` the initial value `{p}`, and in the
generalized test `{i * n + p}` for its `i`-th value, written here as the pair
`<<p, i>>`; both programs only ever join and compare these values.

Composition. `Faleiro` refines `LatticeAgreement` on the values it decided on,
and `Coordinator` runs `LatticeAgreement` between its start and its stop:
`WaitForStart` is `Call`, `Finish` is `Return`. So the life cycle is checked for
every algorithm that keeps the interface's promise, and a proof that an algorithm
implements `LatticeAgreement` places it in the same test. `Zheng` refines it on
what `start` returned, for one failure and for two.

The generalized coordinator registers, starts and stops its clients as the
one-shot one does (the code is the same line by line); what differs, the lists
of results and their verification, is `GeneralizedVerification`. It is applied
to what the program really learns (`FaleiroGeneralizedTest`, over every
reachable state, every order and every subset of the reports) and to what a wrong
program might report (`GeneralizedCoordinator`).

The coordinator's sockets. Every connection carries one message; an accept queue
is a sequence. A client that crashes while it writes leaves an entry that is not
`whole`, on which the coordinator's reads throw. Outside of a `try` an exception
ends the coordinator (`Abort`) or the client.

Some modules contain operators marked as mutants: small, plausible mistakes
(a plain half for a majority, counters that are not reset, an acceptor that
does not store what it acknowledged). They are used by no specification;
`PROJECT.json` names, for every checked property, one of them under which that
property fails.

## 4. Runs

| run | question | answer |
|---|---|---|
| `faleiro` | when messages are delayed, reordered or lost: do acceptors keep their promises and proposers count distinct, current answers, is a decided proposal held by a majority for ever, are decisions comparable, does a process propose at most once per value it knows? Is the program, seen through its decided proposals, an implementation of `LatticeAgreement`? Does a process that waits before its answers come in return, and are the answers to a first proposal the only ones that can be lost on a main thread? Does the inductive invariant of the proofs hold? | yes; the *returned* values are comparable for processes that counted no nack of the decided proposal |
| `faleiro_late_nack` | are the returned values comparable, as the coordinator demands? | no, see section 8 |
| `faleiro_lost_wakeup` | does every call of `start` return? | no, see section 8 |
| `gla_overtaking` | over two rounds, with proposals overtaking each other: do results grow and contain the process's own values, do proposals grow strictly, do proposer and learner count each answer for its own proposal, and is no value another process shares dropped when the buffer is emptied? Is a value that is proposed learnt in the end, although the acks of one acceptor are lost, and does nothing come to rest before? | yes |
| `gla_learners` | is everything that is learnt one chain, held by a majority; is the program an implementation of `GeneralizedLatticeAgreement`; does the coordinator's verification never report an error, however many clients have reported and in whatever order? | yes |
| `gla_stuck` | does every call of `start` return in the second round? | no, see section 8 |
| `gla_verification` | is a result that lacks its proposal reported? | no, see section 8 |
| `lifecycle` | with a client that may crash anywhere: does everybody who starts know all processes, is nobody stopped while another is inside the agreement, do the three messages reach every client in the expected order, is a correct test never reported as invalid, is every client that has not crashed heard before the verdict? Is the program an implementation of `AgreementTest`? Do coordinator and clients never wait for each other unless a crash is the reason? Unless somebody crashes, is every client stopped and the verdict given? | yes |
| `lifecycle_broken` | are there `n` results when they are verified? | no, see section 8 |
| `zheng` | with values, acknowledgements of writes and answers to reads that come late or never: are the results comparable and large, do the labels bound the values of the processes that share them, does a process that hears `n - f` others return, and is it never left behind when nothing moves any more? Is the program an implementation of `LatticeAgreement`? Does the inductive invariant of the proofs hold? | yes, in one round |
| `zheng_failures` | do the correct processes return when `f` have failed? | no, see section 8 |
| `zheng_stale` | are the results comparable after two rounds? | no, see section 8 |

`CHECK_DEADLOCK FALSE` is set everywhere: the programs stop when everybody has
returned, and messages may be lost. Where they may come to rest is stated
instead, for each program: `OnlyFirstStalls`, `NothingOwed`, `NoDeadlock`,
`ServedAreThrough` ("[Coming to rest](#coming-to-rest)").

## 5. Bounds

The protocols need no artificial bound on counters or messages: a proposal is
answered once by each acceptor and, because every refinement proposes a
strictly larger set (`RefinementsBounded`, `ProposalsGrow`, themselves checked),
a process proposes at most once per value. The instances are bounded by:

* **Processes.** Three acceptors, two proposers (`faleiro`): a nack, and with it
  a refinement and a late nack, needs two proposers and three acceptors, one of
  which both reach; other majorities and even numbers of acceptors are covered by
  the proofs. The violations need no more than the same three.
* **Rounds** (generalized). `gla_overtaking` and `gla_stuck` give one process
  two values, another one and the third, an acceptor, none: the smallest instance
  in which answers of one round arrive in the next. `gla_learners` has two
  processes that both propose, accept and learn, one value each.
* **Zheng.** A round of the classifier exists from `f = 2` on, which takes five
  processes (`2f < n`). In `zheng` two of them run and the others only answer;
  each of the networks of `LateAnswers` gives one kind of wait one answer more
  than it needs, so that one comes late, at any time: a value, an
  acknowledgement, an answer to a read. `zheng_failures` takes two of five away.
  Two rounds need `f = 4` and nine processes: `zheng_stale` follows one network
  and one schedule (`InTurn`), which is enough for a violation and would not be
  for a pass. One round is covered by the proof for every network and every
  number of processes.
* **Reports** (`GeneralizedCoordinator`). Two clients that may report every
  pair of sets of the four initial values.
* **Clients** (`Coordinator`). Three clients and at most one crash
  (`MaxCrashes`): the number of turns differs from the first and the last one,
  and a crash can hit a client that others are ahead of or behind.
* **Links.** `OvertakingLinks`, `LateNackLinks`, `TwoLinks` and `FlakyLinks` drop the
  connections that the question of the run does not need and keep those on which
  messages can overtake each other; a connection that is left out is a peer that
  was never reached, which the program has to tolerate anyway. `NoSharingLinks`
  drops the initial values processes share, so that each proposes its own.

Symmetry is used in the safety runs over the processes that are otherwise
interchangeable (processes of `gla_learners`, clients of `lifecycle_broken`), never in
a run with a liveness property.

## 6. Fairness

Weak fairness is enough everywhere: a delivery, once enabled, stays enabled, and
a notified waiter stays notified until it runs.

* `FaleiroFair`: for each process of `Correct`, of the main thread's own steps
  (the operating system schedules it, and the other thread holds a mutex only for
  the length of a handler), of the turn of a *notified* waiter, and of the
  deliveries between processes of `Correct`. The asio context runs every handler
  that is ready, and a TCP connection between processes that are up succeeds.
* `FaleiroGeneralizedFair`: one condition for all threads: while one of those
  steps is possible, one of them is taken. Nothing more is needed because no
  execution is infinite (proposals grow, a message is handled once). A message
  that is not on `Links` is never owed, nor handled.
* A waiter of either Faleiro program that was not notified may wake up spuriously
  but nothing makes it: `cv.wait` has no predicate there and no timeout.
* `ZhengFair`: while a thread can take a step, one does. `start` waits in a loop
  around its condition, every handler notifies all under `cv_m`, and again
  executions are finite.
* `Coordinator`: the coordinator and every client: a blocking accept, connect
  or read that can proceed does. `Finish` is among them: `TestEnds` is about the
  coordination and assumes that the agreement returns; nobody has to crash.

`WaitingReturns` is stated for a process that is inside `cv.wait` before a
majority has answered; without that precondition it is `StartReturns`, which
does not hold. `ProposalLearnt` is stated for processes that exchange messages
with a majority (`Served`), whose learner hears everybody the proposer hears
(`Attentive`: the copies of an ack for the learners are messages of their own,
and nothing resends them), and that have proposed something in this round
(`WaitsForNothing` is the exception: without it the property would be
`StartReturns` of the generalized program, which does not hold either). `ServedReturn` is stated for processes that hear `n - f` *others*;
`CorrectReturn`, with the process itself among them, does not hold.

## 7. Proofs

`FaleiroProofs` proves, for every finite set of processes, every set of
proposers and every `Links` (`ProcsAssumption` is the only assumption):

| theorem | statement |
|---|---|
| `Invariance` | `Spec => []IInv` |
| `TypeCorrect` | `Spec => []TypeOK`, with the counters at most `N` |
| `Agreement` | `Spec => []DecidedComparable` |
| `Durability` | `Spec => []DecidedIsHeld` |
| `PromisesKept` | `Spec => []AcksFormChain` |
| `CountersSound` | `Spec => []CountsMatchAnswers` |
| `FewRefinements` | `Spec => []RefinementsBounded` |
| `ResultsValid` | `Spec => []Validity` |
| `CleanAgreement` | `Spec => []CleanResultsComparable` |
| `Refinement` | `Spec => ImplementsLA`: the program implements `LatticeAgreement` |
| `Progress` | `Spec => []ProgressInv` |
| `StallsAreEarly` | `Spec => []OnlyFirstStalls` |

The argument. `DecidedComparable` says nothing about messages, so it cannot be
inductive; `IInv` (module `FaleiroInv`) adds what connects counters to acceptors:

* `NumberInv`: a proposal number stands for one proposal of its proposer;
* `ReplyInv`: a reply stands for one handled proposal, an acceptor answers each
  proposal once, a nack carries strictly more than the proposal it refuses;
* `AcksFormChain`: an acceptor's acknowledged values are a chain below what it
  holds;
* `CountsMatchAnswers`: the counters are the numbers of distinct acceptors that
  answered the active proposal;
* `ValueInv`: between two proposals `proposed_value` grows exactly by nacks of
  the active one, hence every refinement proposes strictly more, which gives
  `RefinementsBounded`;
* `OriginInv`: every value is made of initial values of processes that called
  `start`;
* `ReturnInv`: what `decide` checked stays true after `start` has returned,
  because a process that returned never proposes again.

From these: two processes that returned were each acknowledged by a majority
(`ReturnInv`, `CountsMatchAnswers`); two majorities share an acceptor
(the lemma on cardinalities that is cited for it), and that acceptor's acks are
a chain. The refinement follows with a case for every action: `Propose` is
`Call`, `Decide` is `Return`, all others stutter; the guard of `Return` is the
invariant of the next state.

### Generalized Faleiro

For every finite set of processes, every number of values of each and every
`Links` (`GeneralizedAssumption`), `FaleiroGeneralizedProofs` proves:

| theorem | statement |
|---|---|
| `Invariance` | `Spec => []IInv` |
| `TypeCorrect` | `Spec => []TypeOK`: counters at most `N`, proposal numbers at most the number of values |
| `CountersSound` | `Spec => []CountsMatchAnswers` |
| `Growth` | `Spec => []ProposalsGrow` |
| `ResultsSound` | `Spec => []ResultsGrow` |
| `Agreement` | `Spec => []LearntChain` |
| `Durability` | `Spec => []LearntIsHeld` |
| `NothingLost` | `Spec => []NothingDropped`: what a process was given or told stays in its proposal or its buffer |
| `Refinement` | `Spec => ImplementsGLA` |
| `Progress` | `Spec => []ProgressInv` |
| `RestIsEnd` | `Spec => []NothingOwed` |

The argument is that of the one-shot program (`NumberInv`, `ReplyInv`,
`AcksFormChain`, `ValueInv` mean the same in `FaleiroGeneralizedInv`), but for
three things. A process does not stop proposing, so what was decided cannot be
read off the proposer; what is kept for ever is that a majority has acknowledged
a value (`Acknowledged`, stable because `msgs` only grows), and `LearntInv` says
so of everything a learner holds or has returned. What a learner counts are
copies of acks, not acks: `ReplyInv` has an ack for every copy, so that copies
for one proposal are at most one per acceptor and of one value, and a majority
of them is a majority of acks (lemma `CopiesOfOne`). And counters have to be right
between two rounds as well, where late nacks still raise `proposed_value`:
`CountInv` and `ValueInv` are stated for all states, not only for active
proposers, and give `ProposalsGrow` over rounds and the bound on proposal
numbers. `PhaseInv` relates the rounds to the results returned. In the refinement
`ReceiveValue` is `Submit`, a `LearnAck` that changes `learnt_value` is `Learn`,
`LearnValue` is `Answer`, and every other step stutters.

`IInv` was found by checking it with TLC on the instances of `gla_overtaking` and
`gla_learners`; no run repeats that, since the theorem covers both.

### Zheng

For every finite set of processes and every `Networks` (`ZhengAssumption`, and
`PowerAssumption`, that a power of two is a positive natural number and the next
one twice as much, because the provers do not know powers; TLC evaluates both):

| theorem | holds for | statement |
|---|---|---|
| `ZhengProofs!Invariance` | all `F`, any number of rounds | `Spec => []IInv` |
| `ZhengProofs!TypeCorrect` | all `F` | `Spec => []TypeOK`: labels do not get negative, no more than `n - f` values are taken |
| `ZhengProofs!LargeResults` | all `F` | `Spec => []ResultsLarge` |
| `ZhengProofs!LevelInvariance` | all `F` | `Spec => []LevelInv` |
| `ZhengProofs!ServeInvariance` | all `F` | `Spec => []ServeInv` |
| `ZhengProofs!NobodyServedIsStuck` | all `F` | `Spec => []ServedAreThrough` |
| `ZhengAgreement!ClassifierInvariance` | `F = 2` | `Spec => []ClassifierInv` |
| `ZhengAgreement!Agreement` | `F = 1` or `F = 2` | `Spec => []ResultsComparable` |
| `ZhengAgreement!Grouping` | `F = 1` or `F = 2` | `Spec => []GroupsShrink` |
| `ZhengAgreement!Refinement` | `F = 1` or `F = 2` | `Spec => ImplementsLA`: the program implements `LatticeAgreement` |

`IInv` (module `ZhengInv`) says where a process is in which round (`PhaseInv`),
that during the exchange it has its own value and one for each value it counted,
and that those on their way are others (`ValuesInv`, hence more than `n - f`
values afterwards), that values come from processes that started (`OriginInv`)
and that labels stay above `n - f` (`LabelInv`).

With one failure there is no round: `n - f` values of others are all of them.
With two there is one, with the same label for everybody. `ClassifierInv` adds:

* `RequestInv`: a process is asked once and answers once;
* `WriteInv`: an acknowledged write is stored; a classifier that has finished its
  write is stored by `n - f` others (`Holders`), for ever;
* `SnapshotInv`: of two processes that have written, the later one sees the
  other's vector. While it still reads, `SawNone` counts: the processes that
  store the other's vector and have not answered yet are too many for the read to
  end without one of them;
* `MasterInv`: a master has more values than the label says.

Then two slaves, of which one sees the other, have at least `n - 1` values each
and read at most `n - 1`, so their vectors are the same; a master has all `n`.
With more rounds there is no such theorem: `zheng_stale` refutes it for `F = 4`.

`GroupsShrink` is what a round is for: the processes that leave it with the same
label have together at most label + `delta` values, and each more than label -
`delta`. The second half needs nothing of the other processes and holds for any
number of rounds: `LevelInv` ties `delta` to the round (`DeltaAt`: halved once a
round, and always even when it is halved, so that the integers of the model and
the doubles of the code agree) and says that a process which becomes slave goes
down to a level it has passed already, while a master has just passed its own.
The first half needs the other processes: the slaves of the round agree on at
most `n - 1` values by the argument above, and nobody else has their label,
which `OutcomeInv` reads off the outcome.

The refinement maps `proposed` to the processes that called `start` and `learnt`
to what it returned. `Start` is `Call`, and the turn of the main thread that ends
in `returned` is `Return`: its guard is `ResultsComparable` of the next state, the
origin of values (`OriginInv`), and that no process loses its own value
(`OwnInv`), not even a master, whose new vector is what it has read
(`MastersRead`). Every other step stutters.

### The verification of the generalized test

`GeneralizedVerificationProofs` says what the checks at the end of
`gla_coordinator.h` mean, for any number of results, of any length, of sets of
anything (it needs no assumption):

| theorem | statement |
|---|---|
| `VerdictMeaning` | nothing is logged exactly when any two reported values are comparable, those of each client only grow, and none of them is empty |

So the loops neither miss a pair nor report a correct one: `all_learnt` holds the
values of every result and no others (`AllLearntElements`), its pairs are all
pairs (`PairsMeaning`), and comparing each value with the one before it, `prev`
being reset from client to client, compares all pairs of a client
(`GrowthMeaning`). The third condition is all that is left of "the value contains
its proposal", because `elem < proposed` is tested with proposals of one number
(`IgnoredMeaning`; `gla_verification` and section 8).

`AllLearnt` is `FlattenSeq`, a function defined by recursion on the index. The
library's induction theorem cannot be instantiated by the provers here, so these
proofs take the least counterexample instead (`LeastElement`, from the
well-foundedness of `<`): `FlattenExists` shows that there is a function as the
recursion says, `FlattenUnfolds` that `FlattenSeq` is one, `FlattenElements` what
its elements are.

`FaleiroGeneralizedTestProofs` composes this with the theorems about the program:

| theorem | statement |
|---|---|
| `VerificationPasses` | `Spec => []NothingReported`, for every finite set of processes, every number of values and every `Links` |

The results of the program are a chain (`Agreement`), grow (`ResultsSound`) and
contain a value of the process (hence are not empty), and every list in
`Collections` holds results of it.

### Coordinator

For every finite, non-empty set of clients, any number of which may crash
(`CoordinatorAssumption` is the only assumption), `CoordinatorProofs` proves:

| theorem | statement |
|---|---|
| `Invariance` | `Spec => []IInv` |
| `TypeCorrect` | `Spec => []TypeOK`: lists no longer than the number of clients |
| `PeersKnown` | `Spec => []PeersComplete` |
| `StopsAreLate` | `Spec => []NobodyStopsEarly` |
| `MessagesInOrder` | `Spec => []NoWrongMessage` |
| `VerdictsRight` | `Spec => []NoFalseAlarm` |
| `BarrierInvariance` | `Spec => []BarrierInv` |
| `EverybodyHeard` | `Spec => []SurvivorsHeard` |
| `WaitInvariance` | `Spec => []WaitInv` |
| `NobodyWaitsInVain` | `Spec => []NoDeadlock` |
| `Refinement` | `Spec => ImplementsTest`: coordinator and clients implement `AgreementTest` |

The argument. `IInv` (module `CoordinatorInv`) relates the coordinator's loops to
where each client stands:

* `ToldInv`: the coordinator sends test info, start and stop in this order, one
  loop after the other. `Told(c, k)` lists the places where a client that was
  sent `k` of them can be and what is then left in its accept queue. Inside a
  loop the clients of the turns so far have been told one more than the others.
  Each queue is short and its first message is the one of the client's step:
  `MessagesInOrder`.
* `RegisterInv`: a client registers once, so `known` has no repetitions, and when
  it is `n` long everybody is in it (lemma `Enumeration`); hence test info names
  all processes, `PeersInv`, and every sending loop reaches every client.
* `ReportInv`: a turn of the results loop takes one connection from the backlog,
  and every connection is of a client that has reported or has crashed while it
  did. So the turns so far, the backlog and the clients that have yet to report
  are together at most `n`; after `n` turns nobody is left, and the stop signals
  that follow find all clients outside of the agreement: `StopsAreLate`. Crashes
  only lower the sum, which is why their number does not matter.
* `ResultInv`: no client has two results, and each is what its client learnt, so
  `n` of them are those of everybody and pairwise comparable, since the agreement
  between start and stop is `LatticeAgreement`: `VerdictsRight`.

`BarrierInv` is proved with the help of `IInv`: the coordinator knows everybody or
has told nobody anything, also after it has ended with an exception (`KnownInv`);
a client that waits for the stop signal has its result in `results` or on a whole
connection in the backlog (`HeardInv`); and the turns of the results loop leave
nothing in the backlog (`DrainedInv`, from the sum above, since after the last
turn it is zero). So a verification with fewer than `n` results, which
`lifecycle_broken` shows to happen, lacks the results of crashed clients only:
`EverybodyHeard`.

The refinement forgets connections, loops and turns: `joined` is the set of known
clients, `stage` what the call of `main` a client is in amounts to (`Stage`).
A whole registration is `Admit`, the start signal taken from the queue `Enter`
(everybody is known by then: `KnownInv`), the return of `start` is `Leave`, the
stop signal `Dismiss` (everybody is past the agreement by then: `ReportInv`), the
verification `Judge` (negative, or cut off, only if somebody has failed:
`EverybodyHeard`).
Crashes and exceptions of clients are `Fail`; exceptions of the coordinator are
not seen, it only stops.

No run repeats the check of `IInv` and of `BarrierInv`, which their theorems cover. Its proof has one
lemma for each call of the client (`Moves`: what such a step may change), one that
every such step preserves `IInv`, and one for each of the coordinator's actions.

### Coming to rest

Liveness under fairness is out of the prover's reach, but half of it is a safety
property: whenever the system has come to rest, nobody is owed anything. Apart
from spurious wakeups no program here takes steps for ever, so the other half is
only that threads which can take a step do. For each program the theorem holds for all values of its constants; the
state it speaks of is `Quiet` (in `Coordinator`: everybody waits), in which no
handler and no main thread can take a step, except by a spurious wakeup.

* **One-shot Faleiro**, `StallsAreEarly`. A process in `cv.wait` that a majority
  hears has had a majority of answers to its *first* proposal. So the window of
  `faleiro_lost_wakeup` is the only one: from the first refinement on `mt` is held
  from the proposal to the wait, and a process whose condition holds has been
  notified (`Awake`). That a majority has answered at all is counted: every
  handled proposal has its reply (`RepliedInv`), every reply to the active
  proposal that was handled is in a counter (`CountsMatchAnswers`).
* **Generalized Faleiro**, `RestIsEnd`. A process that a majority hears, and whose
  learner hears everybody its proposer hears, is through its list of values, or is
  in the `start` that proposed nothing (`gla_stuck`). `Awake` has no exception for
  the first proposal here. For `learn_value` one has to know that the value of the
  round was in the last proposal (`InRound`: first in the buffer, then in what was
  sent), that a majority of acks to it exists, that each ack has its copy for the
  learners (`RepliedInv`), and that a learner which has counted a majority of
  copies holds what they say (`LearnerInv`).
* **Coordinator**, `NobodyWaitsInVain`. When the coordinator waits for a
  connection, or is through, and every client is through or waits for the
  coordinator, then all that have not crashed are stopped and the verdict is given
  (phase `ended`), or some client has crashed. `WaitInv`: a client that has sent its
  registration is known or its connection is in the backlog (`RegisteredInv`);
  connections break off, and the coordinator ends early, only because of a crash
  (`CrashInv`); a turn of the results loop yields at most one result (`TurnsInv`),
  so while the loop waits, somebody's result is missing (lemma `TooShort`), and
  that client has crashed or is about to report.
* **Zheng**, `NobodyServedIsStuck`. `start` has returned to every process that
  hears `n - f` others in the exchange and in every round, whatever the number of
  rounds. `ServeInv`: a main thread that holds `cv_m` does not wait (`LockInv`), so
  at rest no lock is held and no message is left; a value that was sent is on its
  way or in the vector while values are taken (`ArrivalInv`); and the answers a
  process can get in its round are no more than those it has counted and those
  outstanding, as a request or as an answer (`Awaits`). A late acknowledgement of
  an earlier write, which makes two results incomparable in `zheng_stale`, makes
  the counter larger than that and so never keeps a process waiting.

`OnlyFirstStalls` and `ServedAreThrough` are not inductive: at rest they say what
the counters are, and an induction has to say what they are on the way there,
which is what `ProgressInv`, `WaitInv` and `ServeInv` add to `IInv`.

### What is only model-checked

Liveness (`WaitingReturns`, `ProposalLearnt`, `ServedReturn`, `TestEnds`), which
is out of the prover's reach; what is proved of it is above. Every invariant and every refinement that
the passing runs check is a theorem as well; those of Zheng's classifier for one
and two failures, since with more the program does not have them (`zheng_stale`).
The disagreements of section 8 are counterexamples of TLC.

## 8. Where the code and its promises differ

* **A late nack changes the result** (`faleiro_late_nack`). `decide()` returns
  `proposed_value` at the time the main thread runs. A nack of the active
  proposal that is handled after the deciding ack and before that is joined into
  it, so `start` can return a value no majority acknowledged, incomparable with
  another result: what `la_coordinator.h:199` reports as `Invalid results`.
  What *was* acknowledged is comparable (`Agreement`), and so are results
  without such a nack (`CleanAgreement`).
* **A lost wakeup** (`faleiro_lost_wakeup`). `start` sends its proposal before
  it holds `mt` and waits without a predicate. If all answers are handled in
  between, nobody notifies the waiter any more, and `start` never returns.
  Random delays of 300 ms make this unlikely, nothing excludes it.
* **A round with nothing to propose** (`gla_stuck`). The generalized `start`
  waits even if `propose` found nothing new. A late nack of the previous round
  may have brought the process's next value back to it (it was shared with the
  other proposers before), so that the round proposes nothing, and no answer
  will ever wake `start`.
* **Verifying results that never came** (`lifecycle_broken`). A client that
  crashes while it reports uses up a turn of the results loop; the exception is
  caught and logged, but the verification goes over `n` results and reads beyond
  the end of the vector: what it says then can be anything, or it ends the program
  (`verdict` is `"crashed"`).
* **A late acknowledgement in the next round** (`zheng_stale`).
  `write_ack_received` is reset after the first write and after a master's second
  one, but a slave leaves the classifier without a reset, and
  `receive_write_ack` counts whatever has the current round. An acknowledgement
  of the first write that comes after the reset counts for the next round's
  write, which then ends before `n - f` processes have stored it; another process
  reads without seeing it, and the two results are incomparable. With a reset on
  that path as well the run finds no violation.
* **Not enough others** (`zheng_failures`). Zheng's waits are for `n - f`
  answers, but a process neither sends to itself nor counts itself: when `f`
  processes have failed, the `n - f - 1` others are too few and nobody returns.
* **A proposal that is ignored** (`gla_verification`). The generalized
  coordinator tests `elem < proposed` for a proposal of one value: that is true
  of the empty set only, so a result that contains anything but the proposal
  passes. The program itself never produces one (`ResultsGrow`).

## 9. What is not modelled

* Serialization, byte order, logging, the console output and timing
  measurements: no property depends on them.
* The transport's internals: a failed or slow connection is a message that is
  lost or late. The unlocked random generator in `Server::send` only affects
  delays, and every delay is allowed.
* Crashes of the algorithms: an acceptor that stops is one whose remaining messages are not
  delivered. There is no restart: a process that starts again registers anew.
* Zheng's program with `f = 0`: the logarithm of zero is converted to an unsigned
  number, for which the language defines no result (`ZhengAssumption` excludes it).
  Its test data generator is random input for experiments.
* The generalizer: it is unfinished in the repository and has no behaviour to
  model.
* What clients should do when the coordinator ends with an exception: they wait
  for ever, and nothing says otherwise.
