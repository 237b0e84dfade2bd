--------------------------- MODULE AgreementTest ----------------------------
(***************************************************************************)
(* What a test run of the coordinator is for, without its connections: the *)
(* clients call start of the agreement when all of them have registered,   *)
(* no client is dismissed while another one may still be inside, and the   *)
(* verdict on an agreement that keeps its promise is only ever negative,   *)
(* or missing after a crash of the verification, if a client has failed.   *)
(***************************************************************************)
EXTENDS LatticeAgreement

VARIABLES
  joined,   \* the clients the coordinator knows
  stage,    \* stage[c]: where client c stands
  verdict   \* what the coordinator says about the results

testvars == <<joined, stage, verdict, absvars>>

Stages == {"outside", "inside", "done", "dismissed", "failed"}

\* Clients that are past the agreement, one way or another.
Over == {c \in Procs : stage[c] \in {"done", "dismissed", "failed"}}

TestInit == /\ joined = {}
            /\ stage = [c \in Procs |-> "outside"]
            /\ verdict = "none"
            /\ AbsInit

Pass(c, from, to) == stage[c] = from /\ stage' = [stage EXCEPT ![c] = to]

Admit(c) == /\ c \notin joined
            /\ joined' = joined \cup {c}
            /\ UNCHANGED <<stage, verdict, absvars>>

\* The first barrier: everybody is there.
Enter(c) == /\ joined = Procs
            /\ Pass(c, "outside", "inside")
            /\ Call(c)
            /\ UNCHANGED <<joined, verdict>>

Leave(c) == /\ Pass(c, "inside", "done")
            /\ \E x \in SUBSET proposed : Return(c, x)
            /\ UNCHANGED <<joined, verdict>>

\* The second barrier: nobody is inside, or will be.
Dismiss(c) == /\ Over = Procs
              /\ Pass(c, "done", "dismissed")
              /\ UNCHANGED <<joined, verdict, absvars>>

Fail(c) == /\ \E s \in Stages \ {"dismissed", "failed"} : Pass(c, s, "failed")
           /\ UNCHANGED <<joined, verdict, absvars>>

Judge == /\ Over = Procs
         /\ verdict = "none"
         /\ \/ verdict' = "valid"
            \/ verdict' \in {"invalid", "crashed"} /\ \E c \in Procs : stage[c] = "failed"
         /\ UNCHANGED <<joined, stage, absvars>>

TestNext == \/ \E c \in Procs : Admit(c) \/ Enter(c) \/ Leave(c) \/ Dismiss(c) \/ Fail(c)
            \/ Judge

TestSpec == TestInit /\ [][TestNext]_testvars

=============================================================================
