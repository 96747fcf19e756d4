--------------------------- MODULE IndexRecovery ---------------------------
(* A concurrent index build of a staged deployment on PostgreSQL, and the
   recovery of what a failed one leaves.  Successive attempts of one
   deployment run the same statement; the server goes on with a statement
   whose client is gone.  Nobody else works on the index's name while an
   attempt runs: the deployment is the single deployer.                     *)
EXTENDS Naturals

CONSTANTS
  Attempts,             \* the number of attempts
  Kinds,                \* the kinds of faults
  MaxFaults             \* bound on faults

ASSUME RecoveryAssumption == /\ Attempts \in Nat /\ MaxFaults \in Nat
                             /\ Kinds \subseteq {"break", "cut", "kill", "refuse"}

VARIABLES
  index,                \* the relation under the index's name
  sent,                 \* the statements that wait for the table's lock
  building,             \* the attempt whose statement holds it, 0 when none
  pc,                   \* where each attempt is
  existed,              \* whether each attempt found the name taken
  faults

vars == <<index, sent, building, pc, existed, faults>>

Tries == 1..Attempts

\* A relation: the table it is an index on, if it is valid, and whose it is;
\* 0 is a relation from before the deployment.
Relations == [table: {"original", "another"}, valid: BOOLEAN, by: 0..Attempts]
NoIndex == [table |-> "none", valid |-> FALSE, by |-> 0]

Ended == {"built", "clean", "preserved", "incomplete", "refused", "killed"}
Places == {"new", "captured", "waiting", "failed", "cut", "drop"} \cup Ended

Init ==
  /\ index \in {NoIndex} \cup {r \in Relations: r.by = 0}
  /\ sent = {} /\ building = 0
  /\ pc = [a \in Tries |-> "new"]
  /\ existed = [a \in Tries |-> FALSE]
  /\ faults = 0

Goto(a, p) == pc' = [pc EXCEPT ![a] = p]

\* The answer to a statement, if the attempt that sent it still waits.
Answer(a, p) == pc' = IF pc[a] = "waiting" THEN [pc EXCEPT ![a] = p] ELSE pc

Fault(kind) == kind \in Kinds /\ faults < MaxFaults /\ faults' = faults + 1

-----------------------------------------------------------------------------
(* execute. *)

\* Mutant of Capture: the name is taken as soon as the table is there.
CaptureByTable(a) ==
  /\ pc[a] = "new" /\ \A b \in 1..(a - 1): pc[b] \in Ended \ {"built"}
  /\ existed' = [existed EXCEPT ![a] = TRUE]
  /\ Goto(a, "captured")
  /\ UNCHANGED <<index, sent, building, faults>>

\* The reading before the statement.  The next attempt starts when the last
\* one has ended without the index.
Capture(a) ==
  /\ pc[a] = "new" /\ \A b \in 1..(a - 1): pc[b] \in Ended \ {"built"}
  /\ \/ /\ existed' = [existed EXCEPT ![a] = index # NoIndex]
        /\ Goto(a, "captured") /\ UNCHANGED faults
     \/ Fault("refuse") /\ Goto(a, "refused") /\ UNCHANGED existed
  /\ UNCHANGED <<index, sent, building>>

Send(a) ==
  /\ pc[a] = "captured"
  /\ sent' = sent \cup {a}
  /\ Goto(a, "waiting")
  /\ UNCHANGED <<index, building, existed, faults>>

\* Mutant of Artifact: whatever index is on the table was left by the build.
ArtifactValidToo == index.table = "original"

\* What recover takes for the artifact of the build that failed.
Artifact == index.table = "original" /\ ~index.valid

\* Mutant of Recover: the reading before the statement is not used.
RecoverBlind(a) ==
  /\ pc[a] = "failed"
  /\ Goto(a, IF index = NoIndex THEN "clean" ELSE IF Artifact THEN "drop" ELSE "preserved")
  /\ UNCHANGED <<index, sent, building, existed, faults>>

\* The reading after a failure.
Recover(a) ==
  /\ pc[a] = "failed"
  /\ \/ /\ Goto(a, IF existed[a] THEN "preserved"
                   ELSE IF index = NoIndex THEN "clean"
                   ELSE IF Artifact THEN "drop" ELSE "preserved")
        /\ UNCHANGED faults
     \/ ~existed[a] /\ Fault("refuse") /\ Goto(a, "incomplete")
  /\ UNCHANGED <<index, sent, building, existed>>

\* On a connection that is gone, the reading fails.
RecoverCut(a) ==
  /\ pc[a] = "cut"
  /\ Goto(a, IF existed[a] THEN "preserved" ELSE "incomplete")
  /\ UNCHANGED <<index, sent, building, existed, faults>>

\* DROP INDEX CONCURRENTLY, which waits for the table's lock.
Drop(a) ==
  /\ pc[a] = "drop" /\ building = 0
  /\ \/ index # NoIndex /\ index' = NoIndex /\ Goto(a, "clean") /\ UNCHANGED faults
     \/ /\ (index = NoIndex /\ UNCHANGED faults) \/ Fault("refuse")
        /\ Goto(a, "incomplete") /\ UNCHANGED index
  /\ UNCHANGED <<sent, building, existed>>

-----------------------------------------------------------------------------
(* The server. *)

\* CREATE INDEX CONCURRENTLY has the lock: the name is taken, or the index is
\* there, invalid until it is built.
Begin(a) ==
  /\ a \in sent /\ building = 0
  /\ sent' = sent \ {a}
  /\ \/ index # NoIndex /\ Answer(a, "failed") /\ UNCHANGED <<index, building>>
     \/ /\ index = NoIndex
        /\ index' = [table |-> "original", valid |-> FALSE, by |-> a]
        /\ building' = a
        /\ UNCHANGED pc
  /\ UNCHANGED <<existed, faults>>

Finish(a) ==
  /\ building = a
  /\ index' = [index EXCEPT !.valid = TRUE]
  /\ building' = 0
  /\ Answer(a, "built")
  /\ UNCHANGED <<sent, existed, faults>>

\* The build fails, on a duplicate key for one, and its index stays.
Break(a) ==
  /\ building = a /\ Fault("break")
  /\ building' = 0
  /\ Answer(a, "failed")
  /\ UNCHANGED <<index, sent, existed>>

\* The server keeps a statement whose client is gone, or cancels it.
Abandoned(a) ==
  \/ UNCHANGED <<sent, building>>
  \/ sent' = sent \ {a} /\ building' = IF building = a THEN 0 ELSE building

Cut(a) ==
  /\ pc[a] = "waiting" /\ Fault("cut")
  /\ Goto(a, "cut") /\ Abandoned(a)
  /\ UNCHANGED <<index, existed>>

Kill(a) ==
  /\ pc[a] \notin Ended \cup {"new"} /\ Fault("kill")
  /\ Goto(a, "killed") /\ Abandoned(a)
  /\ UNCHANGED <<index, existed>>

Step(a) == Capture(a) \/ Send(a) \/ Recover(a) \/ RecoverCut(a) \/ Drop(a)

Serve(a) == Begin(a) \/ Finish(a)

Next == \E a \in Tries: Step(a) \/ Serve(a) \/ Break(a) \/ Cut(a) \/ Kill(a)

\* An attempt goes on, the operator makes the next one, and the server works.
Fairness == \A a \in Tries: WF_vars(Step(a)) /\ WF_vars(Serve(a))

Spec == Init /\ [][Next]_vars /\ Fairness

-----------------------------------------------------------------------------
(* Properties. *)

\* Every variable has its type; the server builds what is not yet valid, and
\* an attempt drops only under a name it found free.
TypeOK ==
  /\ index \in Relations \cup {NoIndex}
  /\ sent \subseteq Tries /\ building \in 0..Attempts
  /\ building # 0 => index.by = building /\ ~index.valid
  /\ pc \in [Tries -> Places] /\ existed \in [Tries -> BOOLEAN]
  /\ \A a \in Tries: pc[a] = "drop" => ~existed[a] /\ building # a
  /\ faults \in 0..MaxFaults

\* What held the name before the deployment is never removed, also not by an
\* attempt that fails because of it (execute, "existed").
OthersKept == [][index # NoIndex /\ index.by = 0 => index' = index]_vars

\* No recovery removes an index that is valid, also not the one that the
\* statement of an attempt that died completes meanwhile (recover).
ValidKept == [][index.valid => index' = index]_vars

\* An attempt that could finish its recovery leaves nothing of its own under
\* the name, so that the next one does not collide with it (DECISIONS 463).
\* Every variable keeps its type with it.
LeavesNothing ==
  /\ TypeOK
  /\ \A a \in Tries: pc[a] \in {"clean", "preserved"} => index = NoIndex \/ index.by # a

\* Under a name that was free an attempt succeeds in the end: a build that
\* fails never blocks the next one, unless an attempt is killed, is refused or
\* could not finish its recovery (DECISIONS 463).
RetrySucceeds ==
  index = NoIndex
    => <>(\E a \in Tries: \/ pc[a] = "built" /\ index.valid
                          \/ pc[a] \in {"killed", "refused", "incomplete"})
=============================================================================
