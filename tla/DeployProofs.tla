---------------------------- MODULE DeployProofs ----------------------------
(***************************************************************************)
(* Proofs about Deploy for every number of processes, operators, objects   *)
(* and plans, and for every bound.                                         *)
(***************************************************************************)
EXTENDS Deploy, FiniteSetTheorems, WellFoundedInduction, TLAPS

(***************************************************************************)
(* Part 1: what the ledger operators return.                               *)
(***************************************************************************)
\* A non-empty set of naturals below a bound has a greatest element.
LEMMA BoundedMax ==
    ASSUME NEW S \in SUBSET Nat, S # {}, NEW n \in Nat, \A i \in S : i < n
    PROVE  \E i \in S : \A j \in S : j <= i
<1> DEFINE T == {n - i : i \in S}
<1>1. T \in SUBSET Nat
  OBVIOUS
<1>2. T # {}
  OBVIOUS
<1>3. PICK k \in T : \A m \in T : ~ (<<m, k>> \in OpToRel(<, Nat))
  <2> HIDE DEF T
  <2> QED
  BY <1>1, <1>2, NatLessThanWellFounded, WFMin
<1>4. \A m \in T : k <= m
  <2> SUFFICES ASSUME NEW m \in T PROVE k <= m
    OBVIOUS
  <2>1. m \in Nat /\ k \in Nat
    BY <1>1
  <2>2. OpToRel(<, Nat) = {ss \in Nat \X Nat : ss[1] < ss[2]}
    BY Zenon DEF OpToRel
  <2>3. ~ (m < k)
    <3> HIDE DEF T
    <3> QED
      BY <1>3, <2>1, <2>2
  <2> QED
    BY <2>1, <2>3
<1>5. PICK i \in S : k = n - i
  BY <1>3
<1>6. \A j \in S : j <= i
  BY <1>4, <1>5
<1> QED
  BY <1>6

\* The newest row of a ledger is one of its rows, and no id is above its id.
LEMMA NewestRow ==
    ASSUME NEW rows \in SUBSET Entries, rows # {},
           NEW n \in Nat, \A e \in rows : e.id < n
    PROVE  /\ Newest(rows) \in rows
           /\ \A f \in rows : f.id <= Newest(rows).id
<1> DEFINE S == {e.id : e \in rows}
<1>1. S \in SUBSET Nat /\ S # {} /\ \A i \in S : i < n
  BY DEF Entries
<1>2. PICK i \in S : \A j \in S : j <= i
  <2> HIDE DEF S
  <2> QED
  BY <1>1, BoundedMax
<1>3. PICK e \in rows : e.id = i
  BY <1>2
<1>4. \A f \in rows : f.id <= e.id
  BY <1>2, <1>3
<1> QED
  BY <1>3, <1>4 DEF Newest

\* A prune leaves a row above every id it chooses, whatever --keep says.
LEMMA PruneLeavesANewer ==
    ASSUME NEW rows \in SUBSET Entries, NEW keep \in Nat,
           NEW i \in IdsToPrune(rows, keep)
    PROVE  /\ i \in Nat
           /\ \E g \in rows : g.id > i
<1> DEFINE kept == IF keep = 0 THEN 1 ELSE keep
<1>1. PICK f \in rows : /\ f.id = i
                        /\ Cardinality({g \in rows : g.id > f.id}) >= kept
  BY DEF IdsToPrune
<1>2. {g \in rows : g.id > f.id} # {}
  BY <1>1, FS_EmptySet
<1> QED
  BY <1>1, <1>2 DEF Entries
-----------------------------------------------------------------------------
(***************************************************************************)
(* Part 2: the inductive invariant of type correctness.  Types alone are   *)
(* not inductive: that statement k + 1 exists when a process executes it   *)
(* rests on what each point of the control promises about the process's    *)
(* memory, and on the progress the ledger's rows carry.                    *)
(***************************************************************************)
\* Progress is a prefix of the plan it names.
RowOK(e) ==
    e.staged # 0 => e.plan \in Plans /\ e.staged <= Len(Steps[e.plan])

Code(m) == IF m.op = "bootstrap" THEN BootSteps ELSE Steps[m.plan]

ApplyPoints == {"latest", "baseline", "step", "stepread", "checkpoint", "compare",
                "closing", "close", "fail"}

\* What a process at point l remembers.
AtPoint(l, m) ==
    /\ RowOK(m.seen)
    /\ m.op = "apply" => m.plan \in Plans /\ (m.flag => m.plan \in StagedPlans)
    /\ l \in ApplyPoints => m.op = "apply"
    /\ l \in {"exec", "readback"} => m.op \in {"apply", "bootstrap"}
    /\ l \in {"insert", "commit"} => m.op \in {"apply", "bootstrap", "baseline"}
    /\ l \in {"probe", "lock", "survey"} => m.at = 0
    /\ l = "judge" => m.op = "snapshot"
    /\ l = "evidence" => m.op = "datawork"
    /\ l = "record" => \/ m.op \in {"snapshot", "baseline"}
                       \/ m.op = "datawork" /\ m.seen.staged = 0
    /\ l = "baseline" => /\ m.plan \in StagedPlans \/ Len(Steps[m.plan]) > 0
                         /\ m.flag => m.seen.staged <= Len(Steps[m.plan])
    /\ l \in {"exec", "step"} => m.at < Len(Code(m))
    /\ l \in {"stepread", "checkpoint", "compare"} => m.at <= Len(Code(m))

Control == \A s \in Sessions : AtPoint(pc[s], mem[s])

\* Every row, committed or not, took its id from the sequence.
Rows ==
    /\ \A e \in ledger : RowOK(e) /\ e.id < nextId
    /\ \A s \in Sessions : txn[s].row.staged = 0 /\ txn[s].row.id < nextId

Inv == TypeOK /\ Control /\ Rows

\* The statement a process executes next is one of its plan's.
LEMMA NextStepType ==
    ASSUME Inv, NEW s \in Sessions, pc[s] \in {"exec", "step"}
    PROVE  /\ NextStep(s) \in Statements
           /\ StepsOf(s) = Code(mem[s])
           /\ Len(StepsOf(s)) \in Nat
           /\ mem[s].at < Len(StepsOf(s))
<1>1. mem[s] \in Memories /\ AtPoint(pc[s], mem[s])
  BY DEF Inv, TypeOK, Control
<1>2. StepsOf(s) = Code(mem[s])
  BY DEF StepsOf, Code, PlanOf
<1>3. Code(mem[s]) \in Seq(Statements)
  BY <1>1, StepsAssumption, ConstantsAssumption DEF Code, AtPoint, ApplyPoints
<1>4. mem[s].at \in Nat /\ mem[s].at < Len(Code(mem[s]))
  BY <1>1 DEF AtPoint, Memories
<1> QED
  BY <1>2, <1>3, <1>4 DEF NextStep

\* What a read of the newest row gives.
LEMMA NewestType ==
    ASSUME Inv
    PROVE  /\ Newest(ledger) \in Entries
           /\ RowOK(Newest(ledger))
           /\ Newest(ledger).id < nextId
<1>1. CASE ledger = {}
  BY <1>1, ValuesAssumption, PlansAssumption
     DEF Newest, NoEntry, Entries, RowOK, Kinds, Schemas, EmptySchema, Inv, TypeOK
<1>2. CASE ledger # {}
  <2>1. Newest(ledger) \in ledger
    BY <1>2, NewestRow DEF Inv, TypeOK, Rows
  <2> QED
    BY <2>1 DEF Inv, TypeOK, Rows
<1> QED
  BY <1>1, <1>2

LEMMA NoEntryType == NoEntry \in Entries /\ RowOK(NoEntry) /\ NoEntry.id = 0 /\ NoEntry.staged = 0
BY ValuesAssumption DEF NoEntry, Entries, RowOK, Kinds, Schemas, EmptySchema

LEMMA FreshType ==
    ASSUME NEW j \in Jobs
    PROVE  Fresh(j) \in Memories
BY NoEntryType, ValuesAssumption DEF Fresh, Memories, Jobs, Schemas, EmptySchema

LEMMA NoJobType == NoJob \in Jobs
BY DEF NoJob, Jobs, AllOps

LEMMA NoWritesType == NoWrites \in Transactions /\ NoWrites.row = NoEntry
BY NoEntryType DEF NoWrites, Transactions

\* A process that has ended remembers nothing that binds it.
LEMMA EndedControl ==
    ASSUME NEW l \in {"idle", "dead"}
    PROVE  AtPoint(l, Fresh(NoJob))
BY NoEntryType DEF AtPoint, ApplyPoints, Fresh, NoJob

LEMMA InitInv == Init => Inv
<1> SUFFICES ASSUME Init PROVE Inv
  OBVIOUS
<1>1. TypeOK
  BY NoJobType, FreshType, NoWritesType, ValuesAssumption, ConstantsAssumption
     DEF Init, TypeOK, Schemas, EmptySchema, Pins, Outside, Artifacts, Histories
<1>2. Control
  BY EndedControl DEF Init, Control
<1>3. Rows
  BY NoWritesType, NoEntryType DEF Init, Rows
<1> QED
  BY <1>1, <1>2, <1>3 DEF Inv

\* An error leaves the process at a point that asks nothing new of its memory.
LEMMA FailKeepsInv ==
    ASSUME Inv, NEW s \in Sessions, Fail(s), UNCHANGED <<ledger, nextId>>
    PROVE  /\ pc' \in [Sessions -> Outside \cup Inside]
           /\ mem' = mem
           /\ txn' \in [Sessions -> Transactions]
           /\ Control'
           /\ Rows'
<1>1. AfterError(s) \in {"fail", "failrecord", "unlock"}
      /\ (AfterError(s) = "fail" => mem[s].op = "apply")
  BY DEF AfterError
<1>2. pc' \in [Sessions -> Outside \cup Inside] /\ mem' = mem
  BY <1>1 DEF Fail, Goto, Inv, TypeOK, Inside
<1>3. txn' \in [Sessions -> Transactions]
  BY NoWritesType DEF Fail, Inv, TypeOK
<1>4. Control'
  <2> SUFFICES ASSUME NEW t \in Sessions PROVE AtPoint(pc'[t], mem'[t])
    BY DEF Control
  <2>1. CASE t = s
    <3>1. pc'[t] = AfterError(s) /\ mem'[t] = mem[s]
      BY <2>1 DEF Fail, Goto, Inv, TypeOK
    <3> QED
      BY <1>1, <3>1 DEF Inv, Control, AtPoint, ApplyPoints
  <2>2. CASE t # s
    BY <2>2 DEF Fail, Goto, Inv, Control, TypeOK
  <2> QED
    BY <2>1, <2>2
<1>5. Rows'
  BY NoWritesType, NoEntryType DEF Fail, Inv, Rows, TypeOK
<1> QED
  BY <1>2, <1>3, <1>4, <1>5

\* One process moves: its own point and memory are all there is to look at.
LEMMA MoveKeepsControl ==
    ASSUME Inv, NEW s \in Sessions, NEW l \in Outside \cup Inside, NEW m \in Memories,
           pc' = [pc EXCEPT ![s] = l], mem' = [mem EXCEPT ![s] = m], AtPoint(l, m)
    PROVE  /\ pc' \in [Sessions -> Outside \cup Inside]
           /\ mem' \in [Sessions -> Memories]
           /\ Control'
BY DEF Inv, TypeOK, Control

\* The rows do not change.
LEMMA SameRows == ASSUME Inv, UNCHANGED <<ledger, nextId, txn>> PROVE Rows'
BY DEF Inv, Rows

\* A row is appended.
LEMMA AppendKeepsRows ==
    ASSUME Inv, NEW e \in Entries, RowOK(e), e.id = nextId, Append1(e), UNCHANGED txn
    PROVE  /\ ledger' \in SUBSET Entries
           /\ nextId' \in Nat \ {0}
           /\ Rows'
BY DEF Inv, TypeOK, Rows, Append1, Entries, Transactions

LEMMA StartInv == ASSUME Inv, NEW s \in Sessions, NEW j \in JobsNow, Start(s, j) PROVE Inv'
<1>1. /\ j \in Jobs
      /\ j.op = "apply" => j.plan \in Plans /\ (j.flag => j.plan \in StagedPlans)
  <2>1. CASE j \in [op: Ops \cap {"prune"}, plan: {NoPlan}, flag: {FALSE}, keep: Keeps]
    BY <2>1, ConstantsAssumption DEF Jobs, AllOps
  <2>2. CASE j \in [op: Ops \ {"prune"}, plan: Plans \cup {NoPlan},
                    flag: BOOLEAN, keep: {0}]
    <3>1. j \in Jobs
      <4>1. Ops \ {"prune"} \subseteq AllOps /\ {0} \subseteq Nat
        BY ConstantsAssumption
      <4> QED
        BY <2>2, <4>1 DEF Jobs
    <3>2. j.op # "prune"
      BY <2>2
    <3> QED
      BY <3>1, <3>2 DEF JobsNow
  <2> QED
    BY <2>1, <2>2 DEF JobsNow
<1> DEFINE l == CASE j.op = "prune" -> "select"
                  [] j.op = "datawork" -> "probe"
                  [] OTHER -> "lock"
<1>2. l \in {"select", "probe", "lock"}
  OBVIOUS
<1>3. AtPoint(l, Fresh(j))
  BY <1>1, <1>2, NoEntryType DEF AtPoint, ApplyPoints, Fresh
<1>4. /\ pc' \in [Sessions -> Outside \cup Inside]
      /\ mem' \in [Sessions -> Memories]
      /\ Control'
  BY <1>1, <1>2, <1>3, FreshType, MoveKeepsControl DEF Start, Goto, Outside
<1>5. left' \in [commands: Nat, moves: Nat, crashes: Nat]
  BY DEF Start, Inv, TypeOK
<1> QED
  BY <1>4, <1>5, SameRows DEF Start, Inv, TypeOK

LEMMA LockInv == ASSUME Inv, NEW s \in Sessions, Lock(s) PROVE Inv'
<1> DEFINE l == CASE mem[s].op = "apply" -> "latest"
                  [] mem[s].op = "datawork" -> "evidence"
                  [] OTHER -> "survey"
<1>1. l \in Inside /\ AtPoint(l, mem[s])
  BY DEF Lock, Inv, Control, AtPoint, ApplyPoints, Inside
<1>2. mem[s] \in Memories /\ mem' = [mem EXCEPT ![s] = mem[s]]
  BY DEF Lock, Inv, TypeOK
<1>3. /\ pc' \in [Sessions -> Outside \cup Inside]
      /\ mem' \in [Sessions -> Memories]
      /\ Control'
  BY <1>1, <1>2, MoveKeepsControl DEF Lock, Goto
<1> QED
  BY <1>3, SameRows DEF Lock, Inv, TypeOK

\* The commands that end: the process forgets its job.
LEMMA EndsInv ==
    ASSUME Inv, NEW s \in Sessions, Goto(s, "idle"),
           mem' = [mem EXCEPT ![s] = Fresh(NoJob)]
    PROVE  /\ pc' \in [Sessions -> Outside \cup Inside]
           /\ mem' \in [Sessions -> Memories]
           /\ Control'
BY EndedControl, NoJobType, FreshType, MoveKeepsControl DEF Goto, Outside

LEMMA LockBusyInv == ASSUME Inv, NEW s \in Sessions, LockBusy(s) PROVE Inv'
BY EndsInv, SameRows DEF LockBusy, Inv, TypeOK

LEMMA UnlockInv == ASSUME Inv, NEW s \in Sessions, Unlock(s) PROVE Inv'
BY EndsInv, SameRows DEF Unlock, Inv, TypeOK

LEMMA ReadLatestInv == ASSUME Inv, NEW s \in Sessions, ReadLatest(s) PROVE Inv'
<1> DEFINE e == Newest(ledger)
<1>0. mem[s] \in Memories /\ AtPoint("latest", mem[s])
  BY DEF ReadLatest, Inv, TypeOK, Control
<1>1. CASE /\ Admits(s, e)
           /\ Staged(s) \/ Len(StepsOf(s)) > 0
           /\ mem' = [mem EXCEPT ![s].seen = e]
           /\ Goto(s, "baseline")
           /\ UNCHANGED txn
  <2> DEFINE m == [mem[s] EXCEPT !.seen = e]
  <2>1. m \in Memories /\ mem' = [mem EXCEPT ![s] = m]
    BY <1>0, <1>1, NewestType DEF Memories, Inv, TypeOK
  <2>2. StepsOf(s) = Steps[mem[s].plan] /\ (Staged(s) <=> mem[s].plan \in StagedPlans)
    BY <1>0 DEF StepsOf, Staged, PlanOf, AtPoint, ApplyPoints
  <2>3. m.flag => m.seen.staged <= Len(Steps[m.plan])
    <3> SUFFICES ASSUME mem[s].flag PROVE e.staged <= Len(Steps[mem[s].plan])
      BY <1>0 DEF Memories
    <3> QED
      BY <1>1, NewestType DEF Admits, PlanOf, RowOK, MidDeployment
  <2>4. AtPoint("baseline", m)
    <3> HIDE DEF e
    <3> QED
      BY <1>0, <1>1, <2>2, <2>3, NewestType DEF AtPoint, ApplyPoints, Memories, e
  <2>5. /\ pc' \in [Sessions -> Outside \cup Inside]
        /\ mem' \in [Sessions -> Memories]
        /\ Control'
    BY <1>1, <2>1, <2>4, MoveKeepsControl DEF Goto, Inside
  <2> QED
    BY <1>1, <2>5, SameRows DEF ReadLatest, Inv, TypeOK
<1>2. CASE Goto(s, "unlock") /\ UNCHANGED <<mem, txn>>
  <2>1. AtPoint("unlock", mem[s]) /\ mem' = [mem EXCEPT ![s] = mem[s]]
    BY <1>0, <1>2 DEF AtPoint, ApplyPoints, Inv, TypeOK
  <2>2. /\ pc' \in [Sessions -> Outside \cup Inside]
        /\ mem' \in [Sessions -> Memories]
        /\ Control'
    BY <1>0, <1>2, <2>1, MoveKeepsControl DEF Goto, Inside
  <2> QED
    BY <1>2, <2>2, SameRows DEF ReadLatest, Inv, TypeOK
<1>3. CASE Fail(s)
  BY <1>3, FailKeepsInv DEF ReadLatest, Inv, TypeOK
<1> QED
  BY <1>1, <1>2, <1>3 DEF ReadLatest

LEMMA CheckBaselineInv == ASSUME Inv, NEW s \in Sessions, CheckBaseline(s) PROVE Inv'
<1>0. mem[s] \in Memories /\ AtPoint("baseline", mem[s]) /\ live \in Schemas
  BY DEF CheckBaseline, Inv, TypeOK, Control
<1>1. CASE /\ mem' = [mem EXCEPT ![s].prev = live, ![s].at = StartAt(s)]
           /\ Goto(s, IF ~Staged(s) THEN "exec"
                      ELSE IF StartAt(s) = Len(StepsOf(s)) THEN "closing" ELSE "step")
           /\ hist' = IF mem[s].flag THEN hist
                      ELSE [hist EXCEPT !.ran[PlanOf(s)] = 0]
           /\ UNCHANGED txn
  <2> DEFINE m == [mem[s] EXCEPT !.prev = live, !.at = StartAt(s)]
             l == IF ~Staged(s) THEN "exec"
                  ELSE IF StartAt(s) = Len(StepsOf(s)) THEN "closing" ELSE "step"
  <2>1. StartAt(s) \in Nat
    BY <1>0 DEF StartAt, Memories, Entries
  <2>2. m \in Memories /\ mem' = [mem EXCEPT ![s] = m] /\ Goto(s, l) /\ UNCHANGED txn
    BY <1>0, <1>1, <2>1 DEF Memories, Inv, TypeOK
  <2>3. /\ mem[s].op = "apply" /\ mem[s].plan \in Plans
        /\ StepsOf(s) = Steps[mem[s].plan] /\ Len(StepsOf(s)) \in Nat
    BY <1>0, StepsAssumption DEF AtPoint, ApplyPoints, StepsOf, PlanOf
  <2>4. StartAt(s) <= Len(StepsOf(s)) /\ (~Staged(s) => StartAt(s) < Len(StepsOf(s)))
    BY <1>0, <2>3 DEF StartAt, AtPoint, Staged, PlanOf
  <2>5. AtPoint(l, m)
    BY <1>0, <2>1, <2>3, <2>4 DEF AtPoint, ApplyPoints, Memories, Code
  <2>6. /\ pc' \in [Sessions -> Outside \cup Inside]
        /\ mem' \in [Sessions -> Memories]
        /\ Control'
    BY <2>2, <2>5, MoveKeepsControl DEF Goto, Inside
  <2>7. hist' \in Histories
    BY <1>1 DEF Histories, Inv, TypeOK
  <2> QED
    BY <2>2, <2>6, <2>7, SameRows DEF CheckBaseline, Inv, TypeOK
<1>2. CASE Fail(s) /\ UNCHANGED hist
  BY <1>2, FailKeepsInv DEF CheckBaseline, Inv, TypeOK
<1> QED
  BY <1>1, <1>2 DEF CheckBaseline

\* What the process's transaction reads is a schema.
LEMMA ViewType == ASSUME Inv, NEW s \in Sessions PROVE View(s) \in Schemas
BY ConstantsAssumption DEF View, Inv, TypeOK, Schemas, Transactions

\* A process moves on with what it has read.
LEMMA ReadMove ==
    ASSUME Inv, NEW s \in Sessions, NEW l \in Inside, NEW r \in Schemas,
           Goto(s, l), mem' = [mem EXCEPT ![s].read = r], AtPoint(l, mem[s])
    PROVE  /\ pc' \in [Sessions -> Outside \cup Inside]
           /\ mem' \in [Sessions -> Memories]
           /\ Control'
<1> DEFINE m == [mem[s] EXCEPT !.read = r]
<1>1. mem[s] \in Memories
  BY DEF Inv, TypeOK
<1>2. m \in Memories /\ mem' = [mem EXCEPT ![s] = m]
  BY <1>1 DEF Memories, Inv, TypeOK
<1>3. AtPoint(l, m)
  BY <1>1 DEF AtPoint, Memories, Code
<1> QED
  BY <1>2, <1>3, MoveKeepsControl DEF Goto

\* A process moves on and remembers what it did.
LEMMA PlainMove ==
    ASSUME Inv, NEW s \in Sessions, NEW l \in Outside \cup Inside,
           Goto(s, l), UNCHANGED mem, AtPoint(l, mem[s])
    PROVE  /\ pc' \in [Sessions -> Outside \cup Inside]
           /\ mem' \in [Sessions -> Memories]
           /\ Control'
<1>1. mem[s] \in Memories /\ mem' = [mem EXCEPT ![s] = mem[s]]
  BY DEF Inv, TypeOK
<1> QED
  BY <1>1, MoveKeepsControl DEF Goto

LEMMA ExecInv == ASSUME Inv, NEW s \in Sessions, Exec(s) PROVE Inv'
<1>0. /\ mem[s] \in Memories /\ AtPoint("exec", mem[s]) /\ pc[s] = "exec"
      /\ txn[s] \in Transactions
  BY DEF Exec, Inv, TypeOK, Control
<1> DEFINE st == NextStep(s)
           l == IF mem[s].at + 1 = Len(StepsOf(s)) THEN "readback" ELSE "exec"
<1>1. CASE /\ txn' = [txn EXCEPT ![s].writes[st.obj] = st.to]
           /\ mem' = [mem EXCEPT ![s].at = @ + 1]
           /\ Goto(s, l)
  <2> DEFINE m == [mem[s] EXCEPT !.at = @ + 1]
  <2>1. /\ st \in Statements /\ StepsOf(s) = Code(mem[s])
        /\ Len(StepsOf(s)) \in Nat /\ mem[s].at < Len(StepsOf(s))
    BY <1>0, NextStepType
  <2>2. st.obj \in Objects /\ st.to \in Values
    BY <2>1 DEF Statements
  <2>3. m \in Memories /\ mem' = [mem EXCEPT ![s] = m]
    <3>1. m \in Memories
      BY <1>0 DEF Memories
    <3>2. mem' = [mem EXCEPT ![s] = m]
      BY <1>1
    <3> QED
      BY <3>1, <3>2
  <2>4. AtPoint(l, m)
    BY <1>0, <2>1 DEF AtPoint, ApplyPoints, Memories, Code
  <2>5. /\ pc' \in [Sessions -> Outside \cup Inside]
        /\ mem' \in [Sessions -> Memories]
        /\ Control'
    BY <1>1, <2>3, <2>4, MoveKeepsControl DEF Goto, Inside
  <2>6. txn' \in [Sessions -> Transactions] /\ \A t \in Sessions : txn'[t].row = txn[t].row
    <3> HIDE DEF st
    <3> QED
      BY <1>0, <1>1, <2>2 DEF Transactions, Inv, TypeOK
  <2>7. Rows'
    BY <2>6 DEF Exec, Inv, Rows
  <2> QED
    BY <2>5, <2>6, <2>7 DEF Exec, Inv, TypeOK
<1>2. CASE Fail(s)
  BY <1>2, FailKeepsInv DEF Exec, Inv, TypeOK
<1> QED
  BY <1>1, <1>2 DEF Exec

LEMMA ReadBackInv == ASSUME Inv, NEW s \in Sessions, ReadBack(s) PROVE Inv'
<1>0. AtPoint("insert", mem[s])
  BY DEF ReadBack, Inv, Control, AtPoint, ApplyPoints
<1>1. CASE mem' = [mem EXCEPT ![s].read = View(s)] /\ Goto(s, "insert") /\ UNCHANGED txn
  BY <1>0, <1>1, ViewType, ReadMove, SameRows DEF ReadBack, Inv, TypeOK, Inside
<1>2. CASE Fail(s)
  BY <1>2, FailKeepsInv DEF ReadBack, Inv, TypeOK
<1> QED
  BY <1>1, <1>2 DEF ReadBack

LEMMA InsertInv == ASSUME Inv, NEW s \in Sessions, Insert(s) PROVE Inv'
<1> DEFINE e == NewEntry(nextId, mem[s].op, mem[s].read, PlanOf(s), 0)
<1>0. mem[s] \in Memories /\ AtPoint("insert", mem[s]) /\ txn[s] \in Transactions
  BY DEF Insert, Inv, TypeOK, Control
<1>1. mem[s].op \in Kinds /\ mem[s].read \in Schemas /\ PlanOf(s) \in Plans \cup {NoPlan}
  BY <1>0 DEF AtPoint, Memories, Kinds, PlanOf
<1>2. e \in Entries /\ e.id = nextId /\ e.staged = 0
  BY <1>1 DEF NewEntry, Entries, Inv, TypeOK
<1>3. /\ pc' \in [Sessions -> Outside \cup Inside]
      /\ mem' \in [Sessions -> Memories]
      /\ Control'
  BY <1>0, PlainMove DEF Insert, AtPoint, ApplyPoints, Inside
<1>4. /\ txn' \in [Sessions -> Transactions]
      /\ \A t \in Sessions : txn'[t].row = IF t = s THEN e ELSE txn[t].row
  <2> HIDE DEF e
  <2> QED
    BY <1>0, <1>2 DEF Insert, Inv, TypeOK, Transactions, e
<1>5. nextId' = nextId + 1 /\ nextId' \in Nat \ {0} /\ nextId \in Nat
  BY DEF Insert, Inv, TypeOK
<1>6. Rows'
  <2> HIDE DEF e
  <2>1. \A f \in ledger : RowOK(f) /\ f.id < nextId /\ f.id \in Nat
    BY DEF Inv, Rows, TypeOK, Entries
  <2>2. \A t \in Sessions : txn[t].row.staged = 0 /\ txn[t].row.id < nextId
                             /\ txn[t].row.id \in Nat
    BY DEF Inv, Rows, TypeOK, Transactions, Entries
  <2> QED
    BY <1>2, <1>4, <1>5, <2>1, <2>2 DEF Insert, Rows
<1> QED
  BY <1>3, <1>4, <1>5, <1>6 DEF Insert, Inv, TypeOK

LEMMA CommitInv == ASSUME Inv, NEW s \in Sessions, Commit(s) PROVE Inv'
<1>0. /\ mem[s] \in Memories /\ AtPoint("commit", mem[s])
      /\ txn[s] \in Transactions /\ txn[s].row \in Entries
      /\ txn[s].row.staged = 0 /\ txn[s].row.id < nextId
  BY DEF Commit, Inv, TypeOK, Control, Rows, Transactions
<1>1. CASE /\ live' = View(s)
           /\ ledger' = ledger \cup {txn[s].row}
           /\ txn' = [txn EXCEPT ![s] = NoWrites]
           /\ hist' = [hist EXCEPT
                         !.applied = IF mem[s].op = "apply" THEN @ \cup {PlanOf(s)} ELSE @,
                         !.open = IF mem[s].op = "baseline" THEN NoPlan ELSE @]
           /\ Goto(s, "unlock")
           /\ UNCHANGED mem
  <2>1. /\ pc' \in [Sessions -> Outside \cup Inside]
        /\ mem' \in [Sessions -> Memories]
        /\ Control'
    BY <1>0, <1>1, PlainMove DEF AtPoint, ApplyPoints, Inside
  <2>2. hist' \in Histories
    BY <1>0, <1>1 DEF AtPoint, PlanOf, Histories, Inv, TypeOK
  <2>3. txn' \in [Sessions -> Transactions] /\ ledger' \in SUBSET Entries
    BY <1>0, <1>1, NoWritesType DEF Inv, TypeOK
  <2>4. Rows'
    BY <1>0, <1>1, NoWritesType, NoEntryType DEF Commit, Rows, RowOK, Inv, TypeOK
  <2> QED
    BY <1>1, <2>1, <2>2, <2>3, <2>4, ViewType DEF Commit, Inv, TypeOK
<1>2. CASE Fail(s) /\ UNCHANGED <<live, ledger, hist>>
  BY <1>2, FailKeepsInv DEF Commit, Inv, TypeOK
<1> QED
  BY <1>1, <1>2 DEF Commit

LEMMA StepInv == ASSUME Inv, NEW s \in Sessions, Step(s) PROVE Inv'
<1>0. mem[s] \in Memories /\ AtPoint("step", mem[s]) /\ pc[s] = "step"
  BY DEF Step, Inv, TypeOK, Control
<1> DEFINE st == NextStep(s)
           l == IF st.scan = "add" THEN "step" ELSE "stepread"
           m == [mem[s] EXCEPT !.at = @ + 1]
<1>1. CASE /\ live' = [live EXCEPT ![st.obj] = st.to]
           /\ mem' = [mem EXCEPT ![s].at = @ + 1]
           /\ hist' = [hist EXCEPT !.ran[PlanOf(s)] = mem[s].at + 1]
           /\ Goto(s, l)
           /\ UNCHANGED txn
  <2>1. /\ st \in Statements /\ StepsOf(s) = Code(mem[s])
        /\ Len(StepsOf(s)) \in Nat /\ mem[s].at < Len(StepsOf(s))
    BY <1>0, NextStepType
  <2>2. /\ mem[s].op = "apply" /\ mem[s].plan \in Plans /\ mem[s].at \in Nat
        /\ Code(mem[s]) = Steps[mem[s].plan]
    BY <1>0 DEF AtPoint, ApplyPoints, Code, Memories
  <2>3. st.scan = "add" => mem[s].at + 1 < Len(Code(mem[s]))
    <3>1. Steps[mem[s].plan] \in Seq(Statements)
      BY <2>2, StepsAssumption
    <3>2. mem[s].at + 1 \in DOMAIN Steps[mem[s].plan]
      BY <2>1, <2>2, <3>1
    <3> QED
      BY <2>1, <2>2, <3>2, StepsAssumption DEF NextStep
  <2>4. m \in Memories
    BY <1>0 DEF Memories
  <2>5. mem' = [mem EXCEPT ![s] = m]
    BY <1>1
  <2>6. AtPoint(l, m)
    BY <1>0, <2>1, <2>2, <2>3 DEF AtPoint, ApplyPoints, Memories, Code
  <2>7. /\ pc' \in [Sessions -> Outside \cup Inside]
        /\ mem' \in [Sessions -> Memories]
        /\ Control'
    BY <1>1, <2>4, <2>5, <2>6, MoveKeepsControl DEF Goto, Inside
  <2>8. live' \in Schemas
    BY <1>1, <2>1 DEF Statements, Schemas, Inv, TypeOK
  <2>9. hist' \in Histories
    BY <1>1, <2>2 DEF Histories, PlanOf, Inv, TypeOK
  <2> QED
    BY <1>1, <2>7, <2>8, <2>9, SameRows DEF Step, Inv, TypeOK
<1>2. CASE Fail(s) /\ UNCHANGED <<live, hist>>
  BY <1>2, FailKeepsInv DEF Step, Inv, TypeOK
<1> QED
  BY <1>1, <1>2 DEF Step

LEMMA StepFailsInv == ASSUME Inv, NEW s \in Sessions, StepFails(s) PROVE Inv'
<1>1. live' \in Schemas
  BY ValuesAssumption DEF StepFails, Inv, TypeOK, Schemas
<1> QED
  BY <1>1, FailKeepsInv DEF StepFails, Inv, TypeOK

LEMMA StepReadInv == ASSUME Inv, NEW s \in Sessions, StepRead(s) PROVE Inv'
<1>0. AtPoint("checkpoint", mem[s]) /\ live \in Schemas
  BY DEF StepRead, Inv, TypeOK, Control, AtPoint, ApplyPoints
<1>1. CASE mem' = [mem EXCEPT ![s].read = live] /\ Goto(s, "checkpoint") /\ UNCHANGED txn
  BY <1>0, <1>1, ReadMove, SameRows DEF StepRead, Inv, TypeOK, Inside
<1>2. CASE Fail(s)
  BY <1>2, FailKeepsInv DEF StepRead, Inv, TypeOK
<1> QED
  BY <1>1, <1>2 DEF StepRead

LEMMA CheckpointInv == ASSUME Inv, NEW s \in Sessions, Checkpoint(s) PROVE Inv'
<1> DEFINE e == NewEntry(nextId, "staged", mem[s].read, PlanOf(s), mem[s].at)
<1>0. /\ mem[s] \in Memories /\ AtPoint("checkpoint", mem[s])
      /\ mem[s].op = "apply" /\ PlanOf(s) \in Plans
  BY DEF Checkpoint, Inv, TypeOK, Control, AtPoint, ApplyPoints, PlanOf
<1>1. e \in Entries /\ RowOK(e) /\ e.id = nextId
  BY <1>0 DEF NewEntry, Entries, RowOK, Kinds, Memories, AtPoint, Code, PlanOf, Inv, TypeOK
<1>2. /\ ledger' \in SUBSET Entries /\ nextId' \in Nat \ {0} /\ Rows'
  <2> HIDE DEF e
  <2> QED
    BY <1>1, AppendKeepsRows DEF Checkpoint, e
<1>3. /\ pc' \in [Sessions -> Outside \cup Inside]
      /\ mem' \in [Sessions -> Memories]
      /\ Control'
  <2>1. AtPoint("compare", mem[s]) /\ AtPoint("fail", mem[s])
    BY <1>0 DEF AtPoint, ApplyPoints
  <2> QED
    BY <2>1, PlainMove DEF Checkpoint, Inside
<1>4. hist' \in Histories
  BY <1>0 DEF Checkpoint, Histories, Inv, TypeOK
<1> QED
  BY <1>2, <1>3, <1>4 DEF Checkpoint, Inv, TypeOK

LEMMA CompareInv == ASSUME Inv, NEW s \in Sessions, Compare(s) PROVE Inv'
<1> DEFINE moved == MovedOutside(PlanOf(s), mem[s].prev, mem[s].read)
           m == [mem[s] EXCEPT !.prev = mem[s].read]
           l == IF Done(s) THEN "closing" ELSE "step"
<1>0. /\ mem[s] \in Memories /\ AtPoint("compare", mem[s])
      /\ mem[s].op = "apply" /\ PlanOf(s) \in Plans
  BY DEF Compare, Inv, TypeOK, Control, AtPoint, ApplyPoints, PlanOf
<1>1. CASE /\ mem' = [mem EXCEPT ![s].prev = mem[s].read]
           /\ Goto(s, l)
           /\ UNCHANGED <<txn, hist>>
  <2>1. m \in Memories /\ mem' = [mem EXCEPT ![s] = m]
    BY <1>0, <1>1 DEF Memories, Inv, TypeOK
  <2>2. StepsOf(s) = Code(mem[s]) /\ Len(Code(mem[s])) \in Nat /\ mem[s].at \in Nat
    BY <1>0, StepsAssumption DEF StepsOf, Code, PlanOf, Memories
  <2>3. AtPoint(l, m)
    BY <1>0, <2>2 DEF AtPoint, ApplyPoints, Memories, Code, Done
  <2>4. /\ pc' \in [Sessions -> Outside \cup Inside]
        /\ mem' \in [Sessions -> Memories]
        /\ Control'
    BY <1>1, <2>1, <2>3, MoveKeepsControl DEF Goto, Inside
  <2> QED
    BY <1>1, <2>4, SameRows DEF Compare, Inv, TypeOK
<1>2. CASE Fail(s) /\ hist' = [hist EXCEPT !.reported = @ \cup ({PlanOf(s)} \X moved)]
  <2>1. moved \subseteq Objects
    BY DEF MovedOutside
  <2>2. hist' \in Histories
    <3> HIDE DEF moved
    <3> QED
      BY <1>0, <1>2, <2>1 DEF Histories, Inv, TypeOK
  <2> QED
    BY <1>2, <2>2, FailKeepsInv DEF Compare, Inv, TypeOK
<1> QED
  BY <1>1, <1>2 DEF Compare

LEMMA ClosingInv == ASSUME Inv, NEW s \in Sessions, Closing(s) PROVE Inv'
<1>0. AtPoint("close", mem[s]) /\ live \in Schemas
  BY DEF Closing, Inv, TypeOK, Control, AtPoint, ApplyPoints
<1>1. CASE mem' = [mem EXCEPT ![s].read = live] /\ Goto(s, "close") /\ UNCHANGED txn
  BY <1>0, <1>1, ReadMove, SameRows DEF Closing, Inv, TypeOK, Inside
<1>2. CASE Fail(s)
  BY <1>2, FailKeepsInv DEF Closing, Inv, TypeOK
<1> QED
  BY <1>1, <1>2 DEF Closing

LEMMA CloseInv == ASSUME Inv, NEW s \in Sessions, Close(s) PROVE Inv'
<1> DEFINE e == NewEntry(nextId, "apply", mem[s].read, PlanOf(s), 0)
<1>0. /\ mem[s] \in Memories /\ AtPoint("close", mem[s])
      /\ mem[s].op = "apply" /\ PlanOf(s) \in Plans
  BY DEF Close, Inv, TypeOK, Control, AtPoint, ApplyPoints, PlanOf
<1>1. e \in Entries /\ RowOK(e) /\ e.id = nextId
  BY <1>0 DEF NewEntry, Entries, RowOK, Kinds, Memories, Inv, TypeOK
<1>2. /\ ledger' \in SUBSET Entries /\ nextId' \in Nat \ {0} /\ Rows'
  <2> HIDE DEF e
  <2> QED
    BY <1>1, AppendKeepsRows DEF Close, e
<1>3. /\ pc' \in [Sessions -> Outside \cup Inside]
      /\ mem' \in [Sessions -> Memories]
      /\ Control'
  BY <1>0, PlainMove DEF Close, AtPoint, ApplyPoints, Inside
<1>4. hist' \in Histories
  BY <1>0 DEF Close, Histories, Inv, TypeOK
<1> QED
  BY <1>2, <1>3, <1>4 DEF Close, Inv, TypeOK

\* A process moves on with the newest row it has read.
LEMMA SeenMove ==
    ASSUME Inv, NEW s \in Sessions, NEW l \in {"failrecord", "unlock"}, Goto(s, l),
           mem' = [mem EXCEPT ![s].seen = Newest(ledger)]
    PROVE  /\ pc' \in [Sessions -> Outside \cup Inside]
           /\ mem' \in [Sessions -> Memories]
           /\ Control'
<1> DEFINE e == Newest(ledger)
           m == [mem[s] EXCEPT !.seen = e]
<1>1. e \in Entries /\ RowOK(e)
  BY NewestType
<1> HIDE DEF e
<1>2. mem[s] \in Memories /\ AtPoint(pc[s], mem[s])
  BY DEF Inv, TypeOK, Control
<1>3. m \in Memories
  BY <1>1, <1>2 DEF Memories
<1>4. mem' = [mem EXCEPT ![s] = m]
  BY DEF e
<1>5. AtPoint(l, m)
  BY <1>1, <1>2 DEF AtPoint, ApplyPoints, Memories
<1> QED
  BY <1>3, <1>4, <1>5, MoveKeepsControl DEF Goto, Inside

LEMMA FailReadInv == ASSUME Inv, NEW s \in Sessions, FailRead(s) PROVE Inv'
<1>1. /\ pc' \in [Sessions -> Outside \cup Inside]
      /\ mem' \in [Sessions -> Memories]
      /\ Control'
  BY SeenMove DEF FailRead
<1> QED
  BY <1>1, SameRows DEF FailRead, Inv, TypeOK

LEMMA FailRecordInv == ASSUME Inv, NEW s \in Sessions, FailRecord(s) PROVE Inv'
<1> DEFINE e == IF mem[s].op = "bootstrap"
                  THEN NewEntry(nextId, "failed", EmptySchema, NoPlan, 0)
                  ELSE FailedCopy(mem[s].seen, nextId, PlanOf(s))
<1>0. /\ mem[s] \in Memories /\ AtPoint("failrecord", mem[s])
      /\ mem[s].seen \in Entries /\ RowOK(mem[s].seen) /\ nextId \in Nat
      /\ PlanOf(s) \in Plans \cup {NoPlan}
  BY DEF FailRecord, Inv, TypeOK, Control, AtPoint, Memories, PlanOf
<1>1. e \in Entries /\ RowOK(e) /\ e.id = nextId
  <2>1. CASE mem[s].op = "bootstrap"
    BY <1>0, <2>1, ValuesAssumption
       DEF NewEntry, Entries, RowOK, Kinds, EmptySchema, Schemas
  <2>2. CASE mem[s].op # "bootstrap"
    BY <1>0, <2>2 DEF FailedCopy, MidDeployment, Entries, RowOK, Kinds
  <2> QED
    BY <2>1, <2>2
<1>2. /\ ledger' \in SUBSET Entries /\ nextId' \in Nat \ {0} /\ Rows'
  <2> HIDE DEF e
  <2> QED
    BY <1>1, AppendKeepsRows DEF FailRecord, e
<1>3. /\ pc' \in [Sessions -> Outside \cup Inside]
      /\ mem' \in [Sessions -> Memories]
      /\ Control'
  BY <1>0, PlainMove DEF FailRecord, AtPoint, ApplyPoints, Inside
<1> QED
  BY <1>2, <1>3 DEF FailRecord, Inv, TypeOK

LEMMA FailUnrecordedInv == ASSUME Inv, NEW s \in Sessions, FailUnrecorded(s) PROVE Inv'
<1>1. AtPoint("unlock", mem[s])
  BY DEF Inv, Control, AtPoint, ApplyPoints
<1> QED
  BY <1>1, PlainMove, SameRows DEF FailUnrecorded, Inv, TypeOK, Inside

LEMMA BodyFailsInv == ASSUME Inv, NEW s \in Sessions, BodyFails(s) PROVE Inv'
BY FailKeepsInv DEF BodyFails, Inv, TypeOK

LEMMA SurveySnapshotInv == ASSUME Inv, NEW s \in Sessions, SurveySnapshot(s) PROVE Inv'
<1>0. AtPoint("judge", mem[s]) /\ live \in Schemas
  BY DEF SurveySnapshot, Inv, TypeOK, Control, AtPoint, ApplyPoints
<1>1. CASE mem' = [mem EXCEPT ![s].read = live] /\ Goto(s, "judge") /\ UNCHANGED txn
  BY <1>0, <1>1, ReadMove, SameRows DEF SurveySnapshot, Inv, TypeOK, Inside
<1>2. CASE Fail(s)
  BY <1>2, FailKeepsInv DEF SurveySnapshot, Inv, TypeOK
<1> QED
  BY <1>1, <1>2 DEF SurveySnapshot

LEMMA SurveyBaselineInv == ASSUME Inv, NEW s \in Sessions, SurveyBaseline(s) PROVE Inv'
<1> DEFINE gone == [o \in Objects |-> IF o \in Standing THEN Absent ELSE Unwritten]
           after == [o \in Objects |-> IF o \in Standing THEN Absent ELSE live[o]]
           l == IF Standing = {} THEN "record" ELSE "insert"
<1>0. AtPoint("record", mem[s]) /\ AtPoint("insert", mem[s])
  BY DEF SurveyBaseline, Inv, Control, AtPoint, ApplyPoints
<1>1. gone \in [Objects -> Values \cup {Unwritten}] /\ after \in Schemas
  BY ValuesAssumption DEF Inv, TypeOK, Schemas
<1>2. CASE /\ txn' = [txn EXCEPT ![s].writes = gone]
           /\ mem' = [mem EXCEPT ![s].read = after]
           /\ Goto(s, l)
  <2> HIDE DEF gone, after
  <2>1. /\ pc' \in [Sessions -> Outside \cup Inside]
        /\ mem' \in [Sessions -> Memories]
        /\ Control'
    BY <1>0, <1>1, <1>2, ReadMove DEF Inside
  <2>2. txn' \in [Sessions -> Transactions] /\ \A t \in Sessions : txn'[t].row = txn[t].row
    BY <1>1, <1>2 DEF Transactions, Inv, TypeOK
  <2>3. Rows'
    BY <2>2 DEF SurveyBaseline, Inv, Rows
  <2> QED
    BY <2>1, <2>2, <2>3 DEF SurveyBaseline, Inv, TypeOK
<1>3. CASE Fail(s)
  BY <1>3, FailKeepsInv DEF SurveyBaseline, Inv, TypeOK
<1> QED
  BY <1>2, <1>3 DEF SurveyBaseline

LEMMA SurveyBootstrapInv == ASSUME Inv, NEW s \in Sessions, SurveyBootstrap(s) PROVE Inv'
<1> DEFINE l == IF BootSteps = <<>> THEN "readback" ELSE "exec"
<1>1. CASE Goto(s, l) /\ UNCHANGED <<mem, txn>>
  <2>1. mem[s].op = "bootstrap" /\ mem[s].at = 0
    BY DEF SurveyBootstrap, Inv, Control, AtPoint
  <2>2. BootSteps # <<>> => 0 < Len(BootSteps)
    BY ConstantsAssumption
  <2>3. AtPoint(l, mem[s])
    BY <2>1, <2>2 DEF SurveyBootstrap, Inv, Control, AtPoint, ApplyPoints, Code
  <2> QED
    BY <1>1, <2>3, PlainMove, SameRows DEF SurveyBootstrap, Inv, TypeOK, Inside
<1>2. CASE Fail(s)
  BY <1>2, FailKeepsInv DEF SurveyBootstrap, Inv, TypeOK
<1> QED
  BY <1>1, <1>2 DEF SurveyBootstrap

LEMMA JudgeInv == ASSUME Inv, NEW s \in Sessions, Judge(s) PROVE Inv'
<1>1. CASE Goto(s, "record") /\ UNCHANGED <<mem, txn>>
  <2>1. AtPoint("record", mem[s])
    BY DEF Judge, Inv, Control, AtPoint, ApplyPoints
  <2> QED
    BY <1>1, <2>1, PlainMove, SameRows DEF Judge, Inv, TypeOK, Inside
<1>2. CASE Fail(s)
  BY <1>2, FailKeepsInv DEF Judge, Inv, TypeOK
<1> QED
  BY <1>1, <1>2 DEF Judge

LEMMA ProbeInv == ASSUME Inv, NEW s \in Sessions, Probe(s) PROVE Inv'
<1>1. CASE Goto(s, "idle") /\ mem' = [mem EXCEPT ![s] = Fresh(NoJob)]
  BY <1>1, EndsInv, SameRows DEF Probe, Inv, TypeOK
<1>2. CASE Goto(s, "lock") /\ UNCHANGED mem
  <2>1. AtPoint("lock", mem[s])
    BY DEF Probe, Inv, Control, AtPoint, ApplyPoints
  <2> QED
    BY <1>2, <2>1, PlainMove, SameRows DEF Probe, Inv, TypeOK, Outside
<1> QED
  BY <1>1, <1>2 DEF Probe

LEMMA EvidenceInv == ASSUME Inv, NEW s \in Sessions, Evidence(s) PROVE Inv'
<1> DEFINE e == Newest(ledger)
           m == [mem[s] EXCEPT !.seen = e]
<1>1. CASE /\ ~MidDeployment(e)
           /\ mem' = [mem EXCEPT ![s].seen = e]
           /\ Goto(s, "record")
           /\ UNCHANGED txn
  <2>1. e \in Entries /\ RowOK(e) /\ e.staged = 0
    BY <1>1, NewestType DEF MidDeployment
  <2>2. mem[s] \in Memories /\ AtPoint("evidence", mem[s])
    BY DEF Evidence, Inv, TypeOK, Control
  <2> HIDE DEF e
  <2>3. m \in Memories
    BY <2>1, <2>2 DEF Memories
  <2>4. mem' = [mem EXCEPT ![s] = m]
    BY <1>1
  <2>5. AtPoint("record", m)
    BY <2>1, <2>2 DEF AtPoint, ApplyPoints, Memories
  <2>6. /\ pc' \in [Sessions -> Outside \cup Inside]
        /\ mem' \in [Sessions -> Memories]
        /\ Control'
    BY <1>1, <2>3, <2>4, <2>5, MoveKeepsControl DEF Goto, Inside
  <2> QED
    BY <1>1, <2>6, SameRows DEF Evidence, Inv, TypeOK
<1>2. CASE Fail(s)
  BY <1>2, FailKeepsInv DEF Evidence, Inv, TypeOK
<1> QED
  BY <1>1, <1>2 DEF Evidence

LEMMA RecordInv == ASSUME Inv, NEW s \in Sessions, Record(s) PROVE Inv'
<1>0. /\ mem[s] \in Memories /\ AtPoint("record", mem[s]) /\ nextId \in Nat
      /\ mem[s].seen \in Entries /\ mem[s].read \in Schemas
      /\ PlanOf(s) \in Plans \cup {NoPlan}
  BY DEF Record, Inv, TypeOK, Control, Memories, PlanOf
<1>1. Row(s) \in Entries /\ RowOK(Row(s)) /\ Row(s).id = nextId
  <2>1. CASE mem[s].op = "datawork"
    BY <1>0, <2>1 DEF Row, DataWorkCopy, AtPoint, Entries, RowOK, Kinds
  <2>2. CASE mem[s].op \in {"baseline", "snapshot"}
    BY <1>0, <2>2 DEF Row, NewEntry, Entries, RowOK, Kinds
  <2> QED
    BY <1>0, <2>1, <2>2 DEF AtPoint
<1>2. /\ ledger' \in SUBSET Entries /\ nextId' \in Nat \ {0} /\ Rows'
  BY <1>1, AppendKeepsRows DEF Record
<1>3. /\ pc' \in [Sessions -> Outside \cup Inside]
      /\ mem' \in [Sessions -> Memories]
      /\ Control'
  BY <1>0, PlainMove DEF Record, AtPoint, ApplyPoints, Inside
<1>4. hist' \in Histories
  BY DEF Record, Histories, Inv, TypeOK
<1> QED
  BY <1>2, <1>3, <1>4 DEF Record, Inv, TypeOK

\* The largest id a prune chooses is one of those it chooses.
LEMMA LargestDoomed ==
    ASSUME Inv, NEW keep \in Nat, IdsToPrune(ledger, keep) # {}
    PROVE  LET doomed == IdsToPrune(ledger, keep)
               at == CHOOSE i \in doomed : \A j \in doomed : j <= i
           IN  at \in doomed
<1> DEFINE doomed == IdsToPrune(ledger, keep)
<1>1. ledger \in SUBSET Entries /\ nextId \in Nat /\ \A e \in ledger : e.id < nextId
  BY DEF Inv, TypeOK, Rows
<1>2. doomed \in SUBSET Nat
  BY <1>1, PruneLeavesANewer
<1>3. \A i \in doomed : i < nextId
  BY <1>1 DEF IdsToPrune
<1> HIDE DEF doomed
<1>4. \E i \in doomed : \A j \in doomed : j <= i
  BY <1>1, <1>2, <1>3, BoundedMax DEF doomed
<1> QED
  BY <1>4 DEF doomed

LEMMA PruneSelectInv == ASSUME Inv, NEW s \in Sessions, PruneSelect(s) PROVE Inv'
<1> DEFINE doomed == IdsToPrune(ledger, mem[s].keep)
           at == CHOOSE i \in doomed : \A j \in doomed : j <= i
           m == [mem[s] EXCEPT !.at = at]
<1>0. mem[s] \in Memories /\ AtPoint("select", mem[s]) /\ mem[s].keep \in Nat
      /\ ledger \in SUBSET Entries
  BY DEF PruneSelect, Inv, TypeOK, Control, Memories
<1>1. CASE doomed = {}
  BY <1>1, EndsInv, SameRows DEF PruneSelect, Inv, TypeOK
<1>2. CASE doomed # {}
  <2>1. at \in doomed
    BY <1>0, <1>2, LargestDoomed
  <2>2. at \in Nat
    BY <1>0, <2>1, PruneLeavesANewer
  <2>3. mem' = [mem EXCEPT ![s] = m] /\ Goto(s, "delete")
    BY <1>2 DEF PruneSelect
  <2> HIDE DEF at
  <2>4. m \in Memories
    BY <1>0, <2>2 DEF Memories
  <2>5. AtPoint("delete", m)
    BY <1>0 DEF AtPoint, ApplyPoints, Memories
  <2>6. /\ pc' \in [Sessions -> Outside \cup Inside]
        /\ mem' \in [Sessions -> Memories]
        /\ Control'
    BY <2>3, <2>4, <2>5, MoveKeepsControl DEF Goto, Outside
  <2> QED
    BY <2>6, SameRows DEF PruneSelect, Inv, TypeOK
<1> QED
  BY <1>1, <1>2

LEMMA PruneDeleteInv == ASSUME Inv, NEW s \in Sessions, PruneDelete(s) PROVE Inv'
<1>1. ledger' \in SUBSET Entries /\ Rows'
  BY DEF PruneDelete, Inv, TypeOK, Rows
<1> QED
  BY <1>1, EndsInv DEF PruneDelete, Inv, TypeOK

LEMMA CrashInv == ASSUME Inv, NEW s \in Sessions, Crash(s) PROVE Inv'
<1>1. /\ pc' \in [Sessions -> Outside \cup Inside]
      /\ mem' \in [Sessions -> Memories]
      /\ Control'
  BY EndedControl, NoJobType, FreshType, MoveKeepsControl DEF Crash, Goto, Outside
<1>2. hist' \in Histories
  <2>1. pc[s] = "compare" => PlanOf(s) \in Plans
    BY DEF Inv, Control, AtPoint, ApplyPoints, PlanOf
  <2> QED
    BY <2>1 DEF Crash, Histories, Inv, TypeOK
<1>3. txn' \in [Sessions -> Transactions] /\ Rows'
  BY NoWritesType, NoEntryType DEF Crash, Inv, Rows, TypeOK
<1>4. left' \in [commands: Nat, moves: Nat, crashes: Nat]
  BY DEF Crash, Inv, TypeOK
<1> QED
  BY <1>1, <1>2, <1>3, <1>4 DEF Crash, Inv, TypeOK

\* The steps that belong to no process.
LEMMA AroundInv ==
    ASSUME Inv,
           \/ \E p \in Plans : PlanDb(p)
           \/ \E h \in Operators : UnlockRead(h) \/ UnlockDelete(h)
           \/ \E o \in Objects \ Checks, v \in Values \ {NotValid} : Drift(o, v)
           \/ PinMove
    PROVE  Inv'
<1>1. CASE \E p \in Plans : PlanDb(p)
  <2>1. UNCHANGED <<live, pin, ledger, nextId, lock, pc, mem, txn, holder, left, hist>>
        /\ planned' \in [Plans -> Artifacts]
    BY <1>1 DEF PlanDb, Inv, TypeOK, Artifacts
  <2> QED
    BY <2>1, SameRows DEF Inv, TypeOK, Control
<1>2. CASE \E h \in Operators : UnlockRead(h) \/ UnlockDelete(h)
  <2>1. /\ UNCHANGED <<live, pin, ledger, nextId, pc, mem, txn, planned, left, hist>>
        /\ lock' \in Sessions \cup {NoOne}
        /\ holder' \in [Operators -> Sessions \cup {NoOne}]
    BY <1>2 DEF UnlockRead, UnlockDelete, Inv, TypeOK
  <2> QED
    BY <2>1, SameRows DEF Inv, TypeOK, Control
<1>3. CASE \E o \in Objects \ Checks, v \in Values \ {NotValid} : Drift(o, v)
  <2>1. /\ UNCHANGED <<pin, ledger, nextId, lock, pc, mem, txn, planned, holder, hist>>
        /\ live' \in Schemas
        /\ left' \in [commands: Nat, moves: Nat, crashes: Nat]
    BY <1>3 DEF Drift, Inv, TypeOK, Schemas
  <2> QED
    BY <2>1, SameRows DEF Inv, TypeOK, Control
<1>4. CASE PinMove
  <2>1. /\ UNCHANGED <<live, ledger, nextId, lock, pc, mem, txn, planned, holder, hist>>
        /\ pin' \in Pins
        /\ left' \in [commands: Nat, moves: Nat, crashes: Nat]
    BY <1>4 DEF PinMove, Inv, TypeOK, Pins
  <2> QED
    BY <2>1, SameRows DEF Inv, TypeOK, Control
<1> QED
  BY <1>1, <1>2, <1>3, <1>4

LEMMA StutterInv == ASSUME Inv, UNCHANGED vars PROVE Inv'
BY SameRows DEF vars, Inv, TypeOK, Control

LEMMA ProgressInv == ASSUME Inv, NEW s \in Sessions, Progress(s) PROVE Inv'
BY LockInv, LockBusyInv, UnlockInv, ReadLatestInv, CheckBaselineInv, ExecInv, ReadBackInv,
   InsertInv, CommitInv, StepInv, StepReadInv, CheckpointInv, CompareInv, ClosingInv,
   CloseInv, FailReadInv, FailRecordInv, SurveySnapshotInv, SurveyBaselineInv,
   SurveyBootstrapInv, JudgeInv, ProbeInv, EvidenceInv, RecordInv, PruneSelectInv,
   PruneDeleteInv
   DEF Progress

LEMMA NextInv == Inv /\ [Next]_vars => Inv'
<1> SUFFICES ASSUME Inv, [Next]_vars PROVE Inv'
  OBVIOUS
<1>1. CASE \E s \in Sessions :
             \/ \E j \in JobsNow : Start(s, j)
             \/ Progress(s)
             \/ StepFails(s) \/ BodyFails(s) \/ FailUnrecorded(s)
             \/ Crash(s)
  BY <1>1, StartInv, ProgressInv, StepFailsInv, BodyFailsInv, FailUnrecordedInv, CrashInv
<1>2. CASE UNCHANGED vars
  BY <1>2, StutterInv
<1> QED
  BY <1>1, <1>2, AroundInv DEF Next, Rest

(***************************************************************************)
(* Every reachable state is well typed, whatever the commands, failures,   *)
(* deaths and interleavings: in particular a run never executes a          *)
(* statement its plan does not have, and no row's progress exceeds it.     *)
(***************************************************************************)
THEOREM TypeCorrect == Spec => []TypeOK
<1>1. Inv => TypeOK
  BY DEF Inv
<1> QED
  BY <1>1, InitInv, NextInv, PTL DEF Spec

(***************************************************************************)
(* Part 3: mutual exclusion, the survival of the newest row, and the       *)
(* promise of a transactional plan's entry, over the inductive invariant.  *)
(***************************************************************************)
\* The steps a process takes between taking the lock and releasing it.
InsideStep(s) ==
    \/ ReadLatest(s) \/ CheckBaseline(s)
    \/ Exec(s) \/ ReadBack(s) \/ Insert(s) \/ Commit(s)
    \/ Step(s) \/ StepFails(s) \/ StepRead(s) \/ Checkpoint(s) \/ Compare(s)
    \/ Closing(s) \/ Close(s)
    \/ FailRead(s) \/ FailRecord(s) \/ FailUnrecorded(s) \/ BodyFails(s)
    \/ SurveySnapshot(s) \/ SurveyBaseline(s) \/ SurveyBootstrap(s) \/ Judge(s)
    \/ Evidence(s) \/ Record(s)

\* What such a step leaves alone.
Within(s) ==
    /\ pc[s] \in Inside
    /\ pc'[s] \in Inside
    /\ \A t \in Sessions \ {s} : pc'[t] = pc[t] /\ mem'[t] = mem[t]
    /\ UNCHANGED <<lock, holder>>
    /\ ledger \subseteq ledger'

LEMMA FailWithin ==
    ASSUME Inv, NEW s \in Sessions, Fail(s), pc[s] \in Inside,
           UNCHANGED <<lock, holder, ledger>>
    PROVE  Within(s)
<1>1. AfterError(s) \in Inside
  BY DEF AfterError, Inside
<1> QED
  BY <1>1 DEF Fail, Goto, Within, Inv, TypeOK

LEMMA InsideStepWithin ==
    ASSUME Inv, NEW s \in Sessions, InsideStep(s)
    PROVE  Within(s)
<1> USE DEF Goto, Inside, Append1
<1>0. pc \in [Sessions -> Outside \cup Inside] /\ mem \in [Sessions -> Memories]
  BY DEF Inv, TypeOK
<1>1. CASE ReadLatest(s)
  BY <1>0, <1>1, FailWithin DEF ReadLatest, Within
<1>2. CASE CheckBaseline(s)
  BY <1>0, <1>2, FailWithin DEF CheckBaseline, Within
<1>3. CASE Exec(s)
  BY <1>0, <1>3, FailWithin DEF Exec, Within
<1>4. CASE ReadBack(s)
  BY <1>0, <1>4, FailWithin DEF ReadBack, Within
<1>5. CASE Insert(s) \/ Close(s) \/ FailRecord(s) \/ Record(s) \/ FailUnrecorded(s)
  BY <1>0, <1>5 DEF Insert, Close, FailRecord, Record, FailUnrecorded, Within
<1>6. CASE Commit(s)
  BY <1>0, <1>6, FailWithin DEF Commit, Within
<1>7. CASE Step(s)
  BY <1>0, <1>7, FailWithin DEF Step, Within
<1>8. CASE StepFails(s) \/ BodyFails(s)
  BY <1>0, <1>8, FailWithin DEF StepFails, BodyFails
<1>9. CASE StepRead(s)
  BY <1>0, <1>9, FailWithin DEF StepRead, Within
<1>10. CASE Checkpoint(s)
  BY <1>0, <1>10 DEF Checkpoint, Within
<1>11. CASE Compare(s)
  BY <1>0, <1>11, FailWithin DEF Compare, Within
<1>12. CASE Closing(s)
  BY <1>0, <1>12, FailWithin DEF Closing, Within
<1>13. CASE FailRead(s)
  BY <1>0, <1>13 DEF FailRead, Within
<1>14. CASE SurveySnapshot(s)
  BY <1>0, <1>14, FailWithin DEF SurveySnapshot, Within
<1>15. CASE SurveyBaseline(s)
  BY <1>0, <1>15, FailWithin DEF SurveyBaseline, Within
<1>16. CASE SurveyBootstrap(s)
  BY <1>0, <1>16, FailWithin DEF SurveyBootstrap, Within
<1>17. CASE Judge(s)
  BY <1>0, <1>17, FailWithin DEF Judge, Within
<1>18. CASE Evidence(s)
  BY <1>0, <1>18, FailWithin DEF Evidence, Within
<1> QED
  BY <1>1, <1>2, <1>3, <1>4, <1>5, <1>6, <1>7, <1>8, <1>9, <1>10, <1>11, <1>12, <1>13,
     <1>14, <1>15, <1>16, <1>17, <1>18 DEF InsideStep

\* Every step is one of these.
LEMMA NextCases ==
    ASSUME [Next]_vars
    PROVE  \/ \E s \in Sessions :
                \/ InsideStep(s)
                \/ \E j \in JobsNow : Start(s, j)
                \/ Lock(s) \/ LockBusy(s) \/ Unlock(s) \/ Probe(s)
                \/ PruneSelect(s) \/ PruneDelete(s) \/ Crash(s)
           \/ \E p \in Plans : PlanDb(p)
           \/ \E h \in Operators : UnlockRead(h) \/ UnlockDelete(h)
           \/ \E o \in Objects \ Checks, v \in Values \ {NotValid} : Drift(o, v)
           \/ PinMove
           \/ UNCHANGED vars
BY DEF Next, Progress, InsideStep, Rest
-----------------------------------------------------------------------------
(***************************************************************************)
(* Mutual exclusion.  The lock row is deleted without a look at its        *)
(* holder, so it is exclusive only while operators clear the locks of dead *)
(* processes and no two of them work at once: Held ties what an operator   *)
(* has read to the row still there.                                        *)
(***************************************************************************)
Held ==
    /\ \A s \in Sessions : pc[s] \in Inside => lock = s
    /\ \A h \in Operators : holder[h] # NoOne =>
           lock = holder[h] /\ pc[holder[h]] = "dead"

LEMMA HeldStep ==
    ASSUME OverrideLive = FALSE, \A g, h \in Operators : g = h,
           Inv, Held, [Next]_vars
    PROVE  Held'
<1>0. /\ pc \in [Sessions -> Outside \cup Inside]
      /\ lock \in Sessions \cup {NoOne}
      /\ holder \in [Operators -> Sessions \cup {NoOne}]
      /\ NoOne \notin Sessions
  BY ConstantsAssumption DEF Inv, TypeOK
<1>1. ASSUME NEW s \in Sessions, InsideStep(s) PROVE Held'
  BY <1>0, <1>1, InsideStepWithin DEF Within, Held, Inside
<1>2. ASSUME NEW s \in Sessions, NEW j \in JobsNow, Start(s, j) PROVE Held'
  <2>1. pc[s] = "idle" /\ pc'[s] \in {"select", "probe", "lock"}
        /\ \A t \in Sessions \ {s} : pc'[t] = pc[t]
    BY <1>0, <1>2 DEF Start, Goto
  <2> QED
    BY <1>0, <1>2, <2>1 DEF Start, Held, Inside
<1>3. ASSUME NEW s \in Sessions, Lock(s) PROVE Held'
  BY <1>0, <1>3 DEF Lock, Goto, Held, Inside
<1>4. ASSUME NEW s \in Sessions, LockBusy(s) PROVE Held'
  BY <1>0, <1>4 DEF LockBusy, Goto, Held, Inside
<1>5. ASSUME NEW s \in Sessions, Unlock(s) PROVE Held'
  <2>1. lock = s /\ \A t \in Sessions : t # s => pc[t] \notin Inside
    BY <1>0, <1>5 DEF Unlock, Held, Inside
  <2>2. \A h \in Operators : holder[h] = NoOne
    BY <1>0, <1>5, <2>1 DEF Unlock, Held
  <2> QED
    BY <1>0, <1>5, <2>1, <2>2 DEF Unlock, Goto, Held, Inside
<1>6. ASSUME NEW s \in Sessions, Probe(s) \/ PruneSelect(s) \/ PruneDelete(s) PROVE Held'
  BY <1>0, <1>6 DEF Probe, PruneSelect, PruneDelete, Goto, Held, Inside
<1>7. ASSUME NEW s \in Sessions, Crash(s) PROVE Held'
  BY <1>0, <1>7 DEF Crash, Goto, Held, Inside
<1>8. ASSUME NEW h \in Operators, UnlockRead(h) PROVE Held'
  BY <1>0, <1>8 DEF UnlockRead, Held
<1>9. ASSUME NEW h \in Operators, UnlockDelete(h) PROVE Held'
  BY <1>0, <1>9 DEF UnlockDelete, Held, Inside
<1>10. CASE \/ \E p \in Plans : PlanDb(p)
            \/ \E o \in Objects \ Checks, v \in Values \ {NotValid} : Drift(o, v)
            \/ PinMove
            \/ UNCHANGED vars
  BY <1>10 DEF PlanDb, Drift, PinMove, vars, Held
<1> QED
  BY <1>1, <1>2, <1>3, <1>4, <1>5, <1>6, <1>7, <1>8, <1>9, <1>10, NextCases

(***************************************************************************)
(* No two commands are ever between taking and releasing the lock, for any *)
(* number of processes and deaths, as long as there is at most one         *)
(* operator and `pbps unlock` is used on dead processes only.              *)
(***************************************************************************)
THEOREM MutualExclusion ==
    ASSUME OverrideLive = FALSE, \A g, h \in Operators : g = h
    PROVE  Spec => []OneWriter
<1>1. Init => Held
  BY DEF Init, Held, Inside
<1>2. Inv /\ Held /\ [Next]_vars => Held'
  BY HeldStep
<1>3. Held => OneWriter
  BY DEF Held, OneWriter
<1> QED
  BY <1>1, <1>2, <1>3, InitInv, NextInv, PTL DEF Spec
-----------------------------------------------------------------------------
(***************************************************************************)
(* The newest row survives.  `state prune` chooses its ids in one          *)
(* statement and deletes in another, without the lock: what makes that     *)
(* safe is that a row above the chosen ids is there until the delete.      *)
(***************************************************************************)
Spared ==
    \A s \in Sessions : pc[s] = "delete" => \E e \in ledger : e.id > mem[s].at

\* The newest row of the invariant's ledger.
LEMMA NewestOfLedger ==
    ASSUME Inv, ledger # {}
    PROVE  /\ Newest(ledger) \in ledger
           /\ \A f \in ledger : f.id <= Newest(ledger).id
           /\ \A f \in ledger : f.id \in Nat
<1>1. ledger \in SUBSET Entries /\ nextId \in Nat /\ \A e \in ledger : e.id < nextId
  BY DEF Inv, TypeOK, Rows
<1> QED
  BY <1>1, NewestRow DEF Entries

\* Only a prune's delete takes rows away; any other step leaves a waiting prune as it is.
LEMMA OnlyPruneDeletes ==
    ASSUME Inv, [Next]_vars, \A s \in Sessions : ~PruneDelete(s)
    PROVE  /\ ledger \subseteq ledger'
           /\ \A t \in Sessions : pc'[t] = "delete" /\ ~PruneSelect(t) =>
                  pc[t] = "delete" /\ mem'[t] = mem[t]
<1> DEFINE Goal == /\ ledger \subseteq ledger'
                   /\ \A t \in Sessions : pc'[t] = "delete" /\ ~PruneSelect(t) =>
                          pc[t] = "delete" /\ mem'[t] = mem[t]
<1>0. pc \in [Sessions -> Outside \cup Inside] /\ mem \in [Sessions -> Memories]
  BY DEF Inv, TypeOK
<1>1. ASSUME NEW s \in Sessions, InsideStep(s) PROVE Goal
  BY <1>0, <1>1, InsideStepWithin DEF Within, Inside
<1>2. ASSUME NEW s \in Sessions, NEW j \in JobsNow, Start(s, j) PROVE Goal
  <2>1. pc'[s] \in {"select", "probe", "lock"}
    BY <1>0, <1>2 DEF Start, Goto
  <2> QED
    BY <1>0, <1>2, <2>1 DEF Start, Goto
<1>3. ASSUME NEW s \in Sessions, Lock(s) \/ LockBusy(s) \/ Unlock(s) \/ Probe(s) PROVE Goal
  BY <1>0, <1>3 DEF Lock, LockBusy, Unlock, Probe, Goto
<1>4. ASSUME NEW s \in Sessions, PruneSelect(s) PROVE Goal
  BY <1>0, <1>4 DEF PruneSelect, Goto
<1>5. ASSUME NEW s \in Sessions, Crash(s) PROVE Goal
  BY <1>0, <1>5 DEF Crash, Goto
<1>6. CASE \/ \E p \in Plans : PlanDb(p)
           \/ \E h \in Operators : UnlockRead(h) \/ UnlockDelete(h)
           \/ \E o \in Objects \ Checks, v \in Values \ {NotValid} : Drift(o, v)
           \/ PinMove
           \/ UNCHANGED vars
  BY <1>6 DEF PlanDb, UnlockRead, UnlockDelete, Drift, PinMove, vars
<1> QED
  BY <1>1, <1>2, <1>3, <1>4, <1>5, <1>6, NextCases

\* A prune that has chosen has left a row above its ids.
LEMMA PruneSelectSpares ==
    ASSUME Inv, NEW s \in Sessions, PruneSelect(s), pc'[s] = "delete"
    PROVE  \E e \in ledger : e.id > mem'[s].at
<1> DEFINE doomed == IdsToPrune(ledger, mem[s].keep)
           at == CHOOSE i \in doomed : \A j \in doomed : j <= i
<1>1. mem[s].keep \in Nat /\ ledger \in SUBSET Entries
      /\ pc \in [Sessions -> Outside \cup Inside] /\ mem \in [Sessions -> Memories]
  BY DEF Inv, TypeOK, Memories
<1>2. doomed # {} /\ mem' = [mem EXCEPT ![s].at = at]
  BY <1>1 DEF PruneSelect, Goto
<1>3. at \in doomed
  BY <1>1, <1>2, LargestDoomed
<1>4. mem'[s].at = at
  <2> HIDE DEF at
  <2> QED
    BY <1>1, <1>2 DEF Memories
<1>5. \E e \in ledger : e.id > at
  <2> HIDE DEF at
  <2> QED
    BY <1>1, <1>3, PruneLeavesANewer
<1> QED
  BY <1>4, <1>5

\* The delete spares the newest row, and so every row another prune relies on.
LEMMA DeleteSparesNewest ==
    ASSUME Inv, Spared, NEW s \in Sessions, PruneDelete(s)
    PROVE  /\ ledger # {}
           /\ Newest(ledger) \in ledger'
           /\ \A t \in Sessions : pc'[t] = "delete" =>
                  t # s /\ pc[t] = "delete" /\ mem'[t] = mem[t]
<1>0. /\ pc \in [Sessions -> Outside \cup Inside] /\ mem \in [Sessions -> Memories]
      /\ mem[s].at \in Nat
  BY DEF Inv, TypeOK, Memories
<1>1. PICK e \in ledger : e.id > mem[s].at
  BY DEF Spared, PruneDelete
<1>2. Newest(ledger) \in ledger /\ Newest(ledger).id > mem[s].at
  BY <1>0, <1>1, NewestOfLedger
<1> QED
  BY <1>0, <1>1, <1>2 DEF PruneDelete, Goto

LEMMA SparedStep == ASSUME Inv, Spared, [Next]_vars PROVE Spared'
<1>1. CASE \A s \in Sessions : ~PruneDelete(s)
  BY <1>1, OnlyPruneDeletes, PruneSelectSpares DEF Spared
<1>2. ASSUME NEW s \in Sessions, PruneDelete(s) PROVE Spared'
  <2> SUFFICES ASSUME NEW t \in Sessions, pc'[t] = "delete"
               PROVE  \E e \in ledger' : e.id > mem'[t].at
    BY DEF Spared
  <2>1. /\ ledger # {} /\ Newest(ledger) \in ledger'
        /\ pc[t] = "delete" /\ mem'[t] = mem[t]
    BY <1>2, DeleteSparesNewest
  <2>2. PICK e \in ledger : e.id > mem[t].at
    BY <2>1 DEF Spared
  <2>3. Newest(ledger).id > mem[t].at
    <3>1. mem[t].at \in Nat
      BY DEF Inv, TypeOK, Memories
    <3> QED
      BY <2>1, <2>2, <3>1, NewestOfLedger
  <2> QED
    BY <2>1, <2>3
<1> QED
  BY <1>1, <1>2

LEMMA NewestStep ==
    ASSUME Inv, Inv', Spared, [Next]_vars, ledger # {}
    PROVE  ledger' # {} /\ Newest(ledger').id >= Newest(ledger).id
<1>1. Newest(ledger) \in ledger'
  <2>1. CASE \A s \in Sessions : ~PruneDelete(s)
    BY <2>1, OnlyPruneDeletes, NewestOfLedger
  <2>2. ASSUME NEW s \in Sessions, PruneDelete(s) PROVE Newest(ledger) \in ledger'
    BY <2>2, DeleteSparesNewest
  <2> QED
    BY <2>1, <2>2
<1>2. ledger' \in SUBSET Entries /\ nextId' \in Nat /\ \A e \in ledger' : e.id < nextId'
  BY DEF Inv, TypeOK, Rows
<1>3. Newest(ledger') \in ledger' /\ \A f \in ledger' : f.id <= Newest(ledger').id
  BY <1>1, <1>2, NewestRow
<1> QED
  BY <1>1, <1>2, <1>3 DEF Entries

(***************************************************************************)
(* Whatever prunes interleave with whatever writers, with any --keep, the  *)
(* environment's newest row is never lost and the ledger never goes back.  *)
(***************************************************************************)
THEOREM CurrentStateSurvives == Spec => NewestSurvives
<1>1. Init => Spared
  BY DEF Init, Spared
<1>2. Inv /\ Spared /\ [Next]_vars => Spared'
  BY SparedStep
<1>3. Inv /\ Inv' /\ Spared /\ [Next]_vars =>
         [ledger # {} => /\ ledger' # {}
                         /\ Newest(ledger').id >= Newest(ledger).id]_vars
  BY NewestStep
<1> QED
  BY <1>1, <1>2, <1>3, InitInv, NextInv, PTL DEF Spec, NewestSurvives
-----------------------------------------------------------------------------
(***************************************************************************)
(* The promise of a transactional plan's entry.  The lock plays no part in *)
(* it: the baseline check fixes what the run starts from, the read-back    *)
(* compares with that, and the row carries that same read.                 *)
(***************************************************************************)
KeepsPromise(p, schema) ==
    \A o \in Objects : schema[o] = IF o \in Touched(p) THEN Final(p, o)
                                   ELSE planned[p].base[o]

RowPromise(e) ==
    Applied(e) /\ e.plan \notin StagedPlans =>
        planned[e.plan].known /\ KeepsPromise(e.plan, e.schema)

StagedPoints == {"step", "stepread", "checkpoint", "compare", "closing", "close"}

\* What a process at point l, with memory m and row r in its transaction, owes.
Owes(l, m, r) ==
    /\ m.op = "apply" => planned[m.plan].known
    /\ l \in StagedPoints => m.plan \in StagedPlans
    /\ l \in {"exec", "readback"} /\ m.op = "apply" /\ m.plan \notin StagedPlans =>
           m.prev = planned[m.plan].base
    /\ l = "insert" /\ m.op = "apply" /\ m.plan \notin StagedPlans =>
           KeepsPromise(m.plan, m.read)
    /\ l = "commit" => RowPromise(r)

Promised ==
    /\ \A s \in Sessions : Owes(pc[s], mem[s], txn[s].row)
    /\ \A e \in ledger : RowPromise(e)

\* One process moves and no plan is written.
LEMMA PromiseMove ==
    ASSUME Inv, Promised, NEW s \in Sessions, UNCHANGED planned,
           \A t \in Sessions \ {s} : pc'[t] = pc[t] /\ mem'[t] = mem[t] /\ txn'[t] = txn[t],
           Owes(pc'[s], mem'[s], txn'[s].row),
           \A e \in ledger' : e \in ledger \/ RowPromise(e)
    PROVE  Promised'
BY DEF Promised, Owes, RowPromise, KeepsPromise, Applied

LEMMA FailPromise ==
    ASSUME Inv, Promised, NEW s \in Sessions, Fail(s), UNCHANGED <<planned, ledger>>
    PROVE  Promised'
<1>0. /\ pc \in [Sessions -> Outside \cup Inside] /\ mem \in [Sessions -> Memories]
      /\ txn \in [Sessions -> Transactions]
  BY DEF Inv, TypeOK
<1>1. pc'[s] \in {"fail", "failrecord", "unlock"} /\ mem' = mem
  BY <1>0 DEF Fail, Goto, AfterError
<1>2. Owes(pc'[s], mem'[s], txn'[s].row)
  BY <1>1 DEF Promised, Owes, StagedPoints
<1> QED
  BY <1>0, <1>2, PromiseMove DEF Fail, Goto

\* The steps of a process that write no row and end nowhere a promise is owed.
LEMMA QuietPromise ==
    ASSUME Inv, Promised, NEW s \in Sessions,
           \/ Lock(s) \/ LockBusy(s) \/ Unlock(s) \/ Probe(s)
           \/ PruneSelect(s) \/ PruneDelete(s) \/ Crash(s)
           \/ FailRead(s) \/ FailUnrecorded(s)
    PROVE  Promised'
<1>0. /\ pc \in [Sessions -> Outside \cup Inside] /\ mem \in [Sessions -> Memories]
      /\ txn \in [Sessions -> Transactions]
  BY DEF Inv, TypeOK
<1>1. /\ UNCHANGED planned
      /\ \A t \in Sessions \ {s} : pc'[t] = pc[t] /\ mem'[t] = mem[t] /\ txn'[t] = txn[t]
      /\ ledger' \subseteq ledger
  BY <1>0 DEF Lock, LockBusy, Unlock, Probe, PruneSelect, PruneDelete, Crash,
              FailRead, FailUnrecorded, Goto
<1>2. /\ pc'[s] \in {"latest", "evidence", "survey", "idle", "lock", "delete", "dead",
                     "failrecord", "unlock"}
      /\ \/ mem'[s] = Fresh(NoJob)
         \/ mem'[s].op = mem[s].op /\ mem'[s].plan = mem[s].plan
  BY <1>0 DEF Lock, LockBusy, Unlock, Probe, PruneSelect, PruneDelete, Crash,
              FailRead, FailUnrecorded, Goto, Memories
<1>3. Owes(pc'[s], mem'[s], txn'[s].row)
  <2>1. Owes(pc[s], mem[s], txn[s].row)
    BY DEF Promised
  <2> QED
    BY <1>2, <2>1 DEF Owes, StagedPoints, Fresh, NoJob
<1> QED
  BY <1>1, <1>3, PromiseMove

LEMMA StartPromise ==
    ASSUME Inv, Promised, NEW s \in Sessions, NEW j \in JobsNow, Start(s, j)
    PROVE  Promised'
<1>0. /\ pc \in [Sessions -> Outside \cup Inside] /\ mem \in [Sessions -> Memories]
      /\ txn \in [Sessions -> Transactions]
  BY DEF Inv, TypeOK
<1>1. j.op = "apply" => planned[j.plan].known
  <2>1. CASE j \in [op: Ops \cap {"prune"}, plan: {NoPlan}, flag: {FALSE}, keep: Keeps]
    BY <2>1
  <2>2. CASE j \notin [op: Ops \cap {"prune"}, plan: {NoPlan}, flag: {FALSE}, keep: Keeps]
    BY <2>2 DEF JobsNow
  <2> QED
    BY <2>1, <2>2
<1>2. pc'[s] \in {"select", "probe", "lock"} /\ mem'[s] = Fresh(j)
  BY <1>0 DEF Start, Goto
<1>3. Owes(pc'[s], mem'[s], txn'[s].row)
  BY <1>1, <1>2 DEF Owes, StagedPoints, Fresh
<1> QED
  BY <1>0, <1>3, PromiseMove DEF Start, Goto

LEMMA ReadLatestPromise ==
    ASSUME Inv, Promised, NEW s \in Sessions, ReadLatest(s)
    PROVE  Promised'
<1>0. /\ pc \in [Sessions -> Outside \cup Inside] /\ mem \in [Sessions -> Memories]
      /\ txn \in [Sessions -> Transactions] /\ Owes(pc[s], mem[s], txn[s].row)
  BY DEF Inv, TypeOK, Promised
<1>1. CASE Fail(s)
  BY <1>1, FailPromise DEF ReadLatest
<1>2. CASE ~Fail(s)
  <2>1. /\ pc'[s] \in {"baseline", "unlock"}
        /\ mem'[s].op = mem[s].op /\ mem'[s].plan = mem[s].plan
        /\ UNCHANGED <<txn, ledger, planned>>
        /\ \A t \in Sessions \ {s} : pc'[t] = pc[t] /\ mem'[t] = mem[t]
    BY <1>0, <1>2 DEF ReadLatest, Goto, Memories
  <2>2. Owes(pc'[s], mem'[s], txn'[s].row)
    BY <1>0, <2>1 DEF Owes, StagedPoints
  <2> QED
    BY <2>1, <2>2, PromiseMove
<1> QED
  BY <1>1, <1>2

\* The baseline check: the run starts from the state the plan is pinned to.
LEMMA CheckBaselinePromise ==
    ASSUME Inv, Promised, NEW s \in Sessions, CheckBaseline(s)
    PROVE  Promised'
<1>0. /\ pc \in [Sessions -> Outside \cup Inside] /\ mem \in [Sessions -> Memories]
      /\ txn \in [Sessions -> Transactions] /\ Owes(pc[s], mem[s], txn[s].row)
      /\ AtPoint("baseline", mem[s])
  BY DEF Inv, TypeOK, Promised, Control, CheckBaseline
<1>1. CASE Fail(s)
  BY <1>1, FailPromise DEF CheckBaseline
<1>2. CASE ~Fail(s)
  <2>1. /\ BaselineHolds(s)
        /\ mem'[s].op = mem[s].op /\ mem'[s].plan = mem[s].plan /\ mem'[s].prev = live
        /\ IF ~Staged(s) THEN pc'[s] = "exec" ELSE pc'[s] \in {"closing", "step"}
        /\ UNCHANGED <<txn, ledger, planned>>
        /\ \A t \in Sessions \ {s} : pc'[t] = pc[t] /\ mem'[t] = mem[t]
    BY <1>0, <1>2 DEF CheckBaseline, Goto, Memories
  <2>2. mem[s].plan \notin StagedPlans => live = planned[mem[s].plan].base
    BY <1>0, <2>1 DEF BaselineHolds, Expected, AtPoint, ApplyPoints, PlanOf
  <2>3. Owes(pc'[s], mem'[s], txn'[s].row)
    BY <1>0, <2>1, <2>2 DEF Owes, StagedPoints, Staged, PlanOf
  <2> QED
    BY <2>1, <2>3, PromiseMove
<1> QED
  BY <1>1, <1>2

LEMMA ExecPromise ==
    ASSUME Inv, Promised, NEW s \in Sessions, Exec(s)
    PROVE  Promised'
<1>0. /\ pc \in [Sessions -> Outside \cup Inside] /\ mem \in [Sessions -> Memories]
      /\ txn \in [Sessions -> Transactions] /\ Owes("exec", mem[s], txn[s].row)
  BY DEF Inv, TypeOK, Promised, Exec
<1>1. CASE Fail(s)
  BY <1>1, FailPromise DEF Exec
<1>2. CASE ~Fail(s)
  <2>1. /\ mem'[s].op = mem[s].op /\ mem'[s].plan = mem[s].plan /\ mem'[s].prev = mem[s].prev
        /\ pc'[s] \in {"exec", "readback"}
        /\ UNCHANGED <<ledger, planned>>
        /\ \A t \in Sessions \ {s} : pc'[t] = pc[t] /\ mem'[t] = mem[t] /\ txn'[t] = txn[t]
    BY <1>0, <1>2 DEF Exec, Goto, Memories
  <2>2. Owes(pc'[s], mem'[s], txn'[s].row)
    BY <1>0, <2>1 DEF Owes, StagedPoints
  <2> QED
    BY <2>1, <2>2, PromiseMove
<1> QED
  BY <1>1, <1>2

\* The read-back: nothing outside the plan moved, everything in it is in place.
LEMMA ReadBackPromise ==
    ASSUME Inv, Promised, NEW s \in Sessions, ReadBack(s)
    PROVE  Promised'
<1>0. /\ pc \in [Sessions -> Outside \cup Inside] /\ mem \in [Sessions -> Memories]
      /\ txn \in [Sessions -> Transactions] /\ Owes("readback", mem[s], txn[s].row)
  BY DEF Inv, TypeOK, Promised, ReadBack
<1>1. CASE Fail(s)
  BY <1>1, FailPromise DEF ReadBack
<1>2. CASE ~Fail(s)
  <2>1. /\ ReadBackHolds(s, View(s))
        /\ mem'[s].op = mem[s].op /\ mem'[s].plan = mem[s].plan /\ mem'[s].read = View(s)
        /\ pc'[s] = "insert"
        /\ UNCHANGED <<ledger, planned, txn>>
        /\ \A t \in Sessions \ {s} : pc'[t] = pc[t] /\ mem'[t] = mem[t]
    BY <1>0, <1>2 DEF ReadBack, Goto, Memories
  <2>2. mem[s].op = "apply" /\ mem[s].plan \notin StagedPlans =>
            KeepsPromise(mem[s].plan, View(s))
    BY <1>0, <2>1 DEF Owes, ReadBackHolds, PlanOf, MovedOutside, Unmet, KeepsPromise
  <2>3. Owes(pc'[s], mem'[s], txn'[s].row)
    BY <1>0, <2>1, <2>2 DEF Owes, StagedPoints
  <2> QED
    BY <2>1, <2>3, PromiseMove
<1> QED
  BY <1>1, <1>2

LEMMA InsertPromise ==
    ASSUME Inv, Promised, NEW s \in Sessions, Insert(s)
    PROVE  Promised'
<1> DEFINE e == NewEntry(nextId, mem[s].op, mem[s].read, PlanOf(s), 0)
<1>0. /\ pc \in [Sessions -> Outside \cup Inside] /\ mem \in [Sessions -> Memories]
      /\ txn \in [Sessions -> Transactions] /\ Owes("insert", mem[s], txn[s].row)
  BY DEF Inv, TypeOK, Promised, Insert
<1>1. RowPromise(e)
  BY <1>0 DEF Owes, RowPromise, Applied, NewEntry, PlanOf
<1> HIDE DEF e
<1>2. /\ txn'[s].row = e /\ pc'[s] = "commit" /\ UNCHANGED <<mem, ledger, planned>>
      /\ \A t \in Sessions \ {s} : pc'[t] = pc[t] /\ mem'[t] = mem[t] /\ txn'[t] = txn[t]
  BY <1>0 DEF Insert, Goto, Transactions, e
<1>3. Owes(pc'[s], mem'[s], txn'[s].row)
  BY <1>0, <1>1, <1>2 DEF Owes, StagedPoints
<1> QED
  BY <1>2, <1>3, PromiseMove

LEMMA CommitPromise ==
    ASSUME Inv, Promised, NEW s \in Sessions, Commit(s)
    PROVE  Promised'
<1>0. /\ pc \in [Sessions -> Outside \cup Inside] /\ mem \in [Sessions -> Memories]
      /\ txn \in [Sessions -> Transactions] /\ Owes("commit", mem[s], txn[s].row)
  BY DEF Inv, TypeOK, Promised, Commit
<1>1. CASE Fail(s) /\ UNCHANGED <<live, ledger, hist>>
  BY <1>1, FailPromise DEF Commit
<1>2. CASE ledger' = ledger \cup {txn[s].row} /\ Goto(s, "unlock") /\ UNCHANGED mem
           /\ txn' = [txn EXCEPT ![s] = NoWrites]
  <2>1. /\ pc'[s] = "unlock" /\ UNCHANGED <<mem, planned>>
        /\ \A t \in Sessions \ {s} : pc'[t] = pc[t] /\ mem'[t] = mem[t] /\ txn'[t] = txn[t]
    BY <1>0, <1>2 DEF Commit, Goto
  <2>2. Owes(pc'[s], mem'[s], txn'[s].row)
    BY <1>0, <2>1 DEF Owes, StagedPoints
  <2>3. RowPromise(txn[s].row)
    BY <1>0 DEF Owes
  <2> QED
    BY <1>2, <2>1, <2>2, <2>3, PromiseMove
<1> QED
  BY <1>1, <1>2 DEF Commit

\* The steps of a staged run that write no row.
LEMMA StagedPromise ==
    ASSUME Inv, Promised, NEW s \in Sessions,
           Step(s) \/ StepRead(s) \/ Compare(s) \/ Closing(s)
    PROVE  Promised'
<1>0. /\ pc \in [Sessions -> Outside \cup Inside] /\ mem \in [Sessions -> Memories]
      /\ txn \in [Sessions -> Transactions] /\ Owes(pc[s], mem[s], txn[s].row)
  BY DEF Inv, TypeOK, Promised
<1>1. CASE Fail(s)
  BY <1>1, FailPromise DEF Step, StepRead, Compare, Closing
<1>2. CASE ~Fail(s)
  <2>1. /\ pc[s] \in StagedPoints /\ pc'[s] \in StagedPoints
        /\ mem'[s].op = mem[s].op /\ mem'[s].plan = mem[s].plan
        /\ UNCHANGED <<txn, ledger, planned>>
        /\ \A t \in Sessions \ {s} : pc'[t] = pc[t] /\ mem'[t] = mem[t]
    <3>1. CASE Step(s)
      BY <1>0, <1>2, <3>1 DEF Step, Goto, Memories, StagedPoints
    <3>2. CASE StepRead(s)
      BY <1>0, <1>2, <3>2 DEF StepRead, Goto, Memories, StagedPoints
    <3>3. CASE Compare(s)
      BY <1>0, <1>2, <3>3 DEF Compare, Goto, Memories, StagedPoints
    <3>4. CASE Closing(s)
      BY <1>0, <1>2, <3>4 DEF Closing, Goto, Memories, StagedPoints
    <3> QED
      BY <3>1, <3>2, <3>3, <3>4
  <2>2. Owes(pc'[s], mem'[s], txn'[s].row)
    BY <1>0, <2>1 DEF Owes, StagedPoints
  <2> QED
    BY <2>1, <2>2, PromiseMove
<1> QED
  BY <1>1, <1>2

\* The reads of the commands that adopt a state: none of them applies a plan.
LEMMA SurveyPromise ==
    ASSUME Inv, Promised, NEW s \in Sessions,
           \/ SurveySnapshot(s) \/ SurveyBaseline(s) \/ SurveyBootstrap(s)
           \/ Judge(s) \/ Evidence(s)
    PROVE  Promised'
<1>0. /\ pc \in [Sessions -> Outside \cup Inside] /\ mem \in [Sessions -> Memories]
      /\ txn \in [Sessions -> Transactions] /\ AtPoint(pc[s], mem[s])
  BY DEF Inv, TypeOK, Control
<1>1. CASE Fail(s)
  BY <1>1, FailPromise DEF SurveySnapshot, SurveyBaseline, SurveyBootstrap, Judge, Evidence
<1>2. CASE ~Fail(s)
  <2>1. /\ pc'[s] \in {"judge", "record", "insert", "readback", "exec"}
        /\ mem'[s].op # "apply"
        /\ UNCHANGED <<ledger, planned>>
        /\ \A t \in Sessions \ {s} : pc'[t] = pc[t] /\ mem'[t] = mem[t] /\ txn'[t] = txn[t]
    <3>1. CASE SurveySnapshot(s)
      BY <1>0, <1>2, <3>1 DEF SurveySnapshot, Goto, Memories
    <3>2. CASE SurveyBaseline(s)
      BY <1>0, <1>2, <3>2 DEF SurveyBaseline, Goto, Memories
    <3>3. CASE SurveyBootstrap(s)
      BY <1>0, <1>2, <3>3 DEF SurveyBootstrap, Goto
    <3>4. CASE Judge(s)
      BY <1>0, <1>2, <3>4 DEF Judge, Goto, AtPoint
    <3>5. CASE Evidence(s)
      BY <1>0, <1>2, <3>5 DEF Evidence, Goto, Memories, AtPoint
    <3> QED
      BY <3>1, <3>2, <3>3, <3>4, <3>5
  <2>2. Owes(pc'[s], mem'[s], txn'[s].row)
    BY <2>1 DEF Owes, StagedPoints
  <2> QED
    BY <2>1, <2>2, PromiseMove
<1> QED
  BY <1>1, <1>2

\* The rows written outside a transaction: none is a transactional plan's.
LEMMA AppendPromise ==
    ASSUME Inv, Promised, NEW s \in Sessions,
           Checkpoint(s) \/ Close(s) \/ FailRecord(s) \/ Record(s)
    PROVE  Promised'
<1>0. /\ pc \in [Sessions -> Outside \cup Inside] /\ mem \in [Sessions -> Memories]
      /\ txn \in [Sessions -> Transactions] /\ Owes(pc[s], mem[s], txn[s].row)
      /\ AtPoint(pc[s], mem[s])
  BY DEF Inv, TypeOK, Control, Promised
<1>1. /\ UNCHANGED <<mem, txn, planned>>
      /\ pc'[s] \in {"compare", "fail", "unlock"}
      /\ pc'[s] = "compare" => pc[s] = "checkpoint"
      /\ \A t \in Sessions \ {s} : pc'[t] = pc[t]
  BY <1>0 DEF Checkpoint, Close, FailRecord, Record, Goto
<1>2. Owes(pc'[s], mem'[s], txn'[s].row)
  BY <1>0, <1>1 DEF Owes, StagedPoints
<1>3. \A e \in ledger' : e \in ledger \/ RowPromise(e)
  <2>1. CASE Checkpoint(s)
    BY <2>1 DEF Checkpoint, Append1, NewEntry, RowPromise, Applied
  <2>2. CASE Close(s)
    <3>1. PlanOf(s) \in StagedPlans
      BY <1>0, <2>2 DEF Close, Owes, StagedPoints, PlanOf
    <3> QED
      BY <2>2, <3>1 DEF Close, Append1, NewEntry, RowPromise, Applied
  <2>3. CASE FailRecord(s)
    <3>1. FailedCopy(mem[s].seen, nextId, PlanOf(s)).kind = "failed"
      BY <1>0 DEF FailedCopy, Memories, Entries
    <3> QED
      BY <2>3, <3>1 DEF FailRecord, Append1, NewEntry, RowPromise, Applied
  <2>4. CASE Record(s)
    <3>1. DataWorkCopy(mem[s].seen, nextId, PlanOf(s)).kind = "data_work"
      BY <1>0 DEF DataWorkCopy, Memories, Entries
    <3>2. Row(s).kind # "apply" \/ Row(s).plan \notin Plans
      BY <3>1, PlansAssumption DEF Row, NewEntry
    <3> QED
      BY <2>4, <3>2 DEF Record, Append1, RowPromise, Applied
  <2> QED
    BY <2>1, <2>2, <2>3, <2>4
<1> QED
  BY <1>1, <1>2, <1>3, PromiseMove

\* A plan is written once: what is owed or recorded for one already written stays.
LEMMA PlanDbPromise ==
    ASSUME Inv, Promised, NEW p \in Plans, PlanDb(p)
    PROVE  Promised'
<1>0. planned \in [Plans -> Artifacts]
  BY DEF Inv, TypeOK
<1>1. \A q : q # p => planned'[q] = planned[q] \/ q \notin Plans
  BY <1>0 DEF PlanDb
<1>2. ~planned[p].known /\ UNCHANGED <<pc, mem, txn, ledger>>
  BY DEF PlanDb
<1>3. \A e : RowPromise(e) => RowPromise(e)'
  <2> SUFFICES ASSUME NEW e, RowPromise(e), Applied(e), e.plan \notin StagedPlans
               PROVE  planned'[e.plan].known /\ KeepsPromise(e.plan, e.schema)'
    BY DEF RowPromise, Applied
  <2>1. planned[e.plan].known /\ KeepsPromise(e.plan, e.schema) /\ e.plan \in Plans
    BY DEF RowPromise, Applied
  <2>2. planned'[e.plan] = planned[e.plan]
    BY <1>1, <1>2, <2>1
  <2> QED
    BY <2>1, <2>2 DEF KeepsPromise
<1>4. ASSUME NEW s \in Sessions PROVE Owes(pc[s], mem[s], txn[s].row)'
  <2>1. Owes(pc[s], mem[s], txn[s].row) /\ (mem[s].op = "apply" => mem[s].plan \in Plans)
    BY DEF Promised, Inv, Control, AtPoint
  <2>2. mem[s].op = "apply" => planned'[mem[s].plan] = planned[mem[s].plan]
    BY <1>1, <1>2, <2>1 DEF Owes
  <2>3. pc[s] = "commit" => RowPromise(txn[s].row)'
    BY <1>2, <1>3, <2>1 DEF Owes, RowPromise, KeepsPromise, Applied
  <2> QED
    BY <1>2, <2>1, <2>2, <2>3 DEF Owes, KeepsPromise
<1> QED
  BY <1>2, <1>3, <1>4 DEF Promised

LEMMA PromisedStep ==
    ASSUME Inv, Promised, [Next]_vars
    PROVE  Promised'
<1>1. ASSUME NEW s \in Sessions, InsideStep(s) PROVE Promised'
  <2>1. CASE ReadLatest(s) \/ CheckBaseline(s)
    BY <2>1, ReadLatestPromise, CheckBaselinePromise
  <2>2. CASE Exec(s) \/ ReadBack(s) \/ Insert(s) \/ Commit(s)
    BY <2>2, ExecPromise, ReadBackPromise, InsertPromise, CommitPromise
  <2>3. CASE Step(s) \/ StepRead(s) \/ Compare(s) \/ Closing(s)
    BY <2>3, StagedPromise
  <2>4. CASE StepFails(s) \/ BodyFails(s)
    BY <2>4, FailPromise DEF StepFails, BodyFails
  <2>5. CASE Checkpoint(s) \/ Close(s) \/ FailRecord(s) \/ Record(s)
    BY <2>5, AppendPromise
  <2>6. CASE FailRead(s) \/ FailUnrecorded(s)
    BY <2>6, QuietPromise
  <2>7. CASE \/ SurveySnapshot(s) \/ SurveyBaseline(s) \/ SurveyBootstrap(s)
             \/ Judge(s) \/ Evidence(s)
    BY <2>7, SurveyPromise
  <2> QED
    BY <1>1, <2>1, <2>2, <2>3, <2>4, <2>5, <2>6, <2>7 DEF InsideStep
<1>2. ASSUME NEW s \in Sessions, NEW j \in JobsNow, Start(s, j) PROVE Promised'
  BY <1>2, StartPromise
<1>3. ASSUME NEW s \in Sessions,
             \/ Lock(s) \/ LockBusy(s) \/ Unlock(s) \/ Probe(s)
             \/ PruneSelect(s) \/ PruneDelete(s) \/ Crash(s)
      PROVE  Promised'
  BY <1>3, QuietPromise
<1>4. ASSUME NEW p \in Plans, PlanDb(p) PROVE Promised'
  BY <1>4, PlanDbPromise
<1>5. CASE \/ \E h \in Operators : UnlockRead(h) \/ UnlockDelete(h)
           \/ \E o \in Objects \ Checks, v \in Values \ {NotValid} : Drift(o, v)
           \/ PinMove
           \/ UNCHANGED vars
  <2>1. UNCHANGED <<pc, mem, txn, planned, ledger>>
    BY <1>5 DEF UnlockRead, UnlockDelete, Drift, PinMove, vars
  <2> QED
    BY <2>1 DEF Promised, Owes, RowPromise, KeepsPromise, Applied
<1> QED
  BY <1>1, <1>2, <1>3, <1>4, <1>5, NextCases

(***************************************************************************)
(* The entry of a transactional plan holds exactly what the plan promised  *)
(* over the state it is pinned to, for every set of plans, processes and   *)
(* operators.  No assumption about the lock is made: the baseline check    *)
(* and the read-back inside the transaction are enough.                    *)
(***************************************************************************)
THEOREM TransactionalKeepsItsPromise == Spec => []TransactionalAsPromised
<1>1. Init => Promised
  BY DEF Init, Promised, Owes, StagedPoints, Fresh, NoJob
<1>2. Inv /\ Promised /\ [Next]_vars => Promised'
  BY PromisedStep
<1>3. Promised => TransactionalAsPromised
  BY DEF Promised, RowPromise, KeepsPromise, TransactionalAsPromised, Applied
<1> QED
  BY <1>1, <1>2, <1>3, InitInv, NextInv, PTL DEF Spec
=============================================================================
