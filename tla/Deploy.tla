------------------------------- MODULE Deploy -------------------------------
(***************************************************************************)
(* One managed environment and the pbps processes that deploy to it: the   *)
(* lock row, the ledger, the live database, and the commands apply         *)
(* (transactional, staged, resumed), snapshot, baseline, bootstrap,        *)
(* state record-data-work, state prune, unlock and plan --db, next to      *)
(* other sessions that change the database, and to processes that die.     *)
(*                                                                         *)
(* A step of a process is one exchange with the database server together   *)
(* with the decisions the process takes on its answer.                     *)
(***************************************************************************)
EXTENDS Ledger

CONSTANTS
    Sessions,       \* pbps processes
    Operators,      \* people who run `pbps unlock`
    NoOne,          \* no lock row
    OverrideLive,   \* whether an operator may clear a live process's lock
    StagedPlans,    \* the plans whose mode is staged
    BootSteps,      \* the statements bootstrap builds the declarations with
    Checks,         \* objects that are a staged attach's temporary CHECK
    Unwritten,      \* an object the open transaction has not written
    Ops,            \* the commands a run considers
    Keeps,          \* the --keep arguments a run considers
    MaxCommands,    \* bound: commands started
    MaxMoves,       \* bound: changes other sessions make
    MaxCrashes      \* bound: processes that die

AllOps == {"apply", "snapshot", "baseline", "bootstrap", "datawork", "prune"}

ASSUME ConstantsAssumption ==
    /\ NoOne \notin Sessions
    /\ OverrideLive \in BOOLEAN
    /\ StagedPlans \subseteq Plans
    /\ BootSteps \in Seq(Statements)
    /\ Checks \subseteq Objects
    /\ Unwritten \notin Values
    /\ Ops \subseteq AllOps
    /\ Keeps \subseteq Nat
    /\ MaxCommands \in Nat /\ MaxMoves \in Nat /\ MaxCrashes \in Nat

VARIABLES
    live,       \* the committed database
    pin,        \* the definition of the unmanaged routines plans are pinned to
    ledger,     \* committed rows of __pbps_state
    nextId,     \* the identity column of __pbps_state
    lock,       \* the row of __pbps_lock: its holder, or NoOne
    pc,         \* where each process is
    mem,        \* what each process remembers
    txn,        \* each process's open transaction
    planned,    \* the artifacts `plan --db` wrote, with what they pin
    holder,     \* the holder each operator's `pbps unlock` has read
    left,       \* what remains of the bounds
    hist        \* history the properties are stated over; no step reads it

vars == <<live, pin, ledger, nextId, lock, pc, mem, txn, planned, holder, left, hist>>

Pins == {0, 1}

\* Points outside the lock, and inside it.
Outside == {"idle", "probe", "lock", "select", "delete", "dead"}
Inside  == {"latest", "baseline", "exec", "readback", "insert", "commit",
            "step", "stepread", "checkpoint", "compare", "closing", "close",
            "survey", "judge", "evidence", "record",
            "fail", "failrecord", "unlock"}

Jobs == [op: AllOps, plan: Plans \cup {NoPlan}, flag: BOOLEAN, keep: Nat]

Memories == [op: AllOps, plan: Plans \cup {NoPlan}, flag: BOOLEAN, keep: Nat,
             seen: Entries, at: Nat, prev: Schemas, read: Schemas]

Transactions == [writes: [Objects -> Values \cup {Unwritten}], row: Entries]

Artifacts == [known: BOOLEAN, base: Schemas, pin: Pins]

Histories == [reported: SUBSET (Plans \X Objects), unchecked: SUBSET Plans,
              applied: SUBSET Plans, open: Plans \cup {NoPlan}, ran: [Plans -> Nat]]

NoWrites == [writes |-> [o \in Objects |-> Unwritten], row |-> NoEntry]

\* The memory of a process that has just been given a job.
Fresh(j) == [op |-> j.op, plan |-> j.plan, flag |-> j.flag, keep |-> j.keep,
             seen |-> NoEntry, at |-> 0, prev |-> EmptySchema,
             read |-> EmptySchema]

NoJob == [op |-> "prune", plan |-> NoPlan, flag |-> FALSE, keep |-> 0]

TypeOK ==
    /\ live \in Schemas
    /\ pin \in Pins
    /\ ledger \subseteq Entries
    /\ nextId \in Nat \ {0}
    /\ lock \in Sessions \cup {NoOne}
    /\ pc \in [Sessions -> Outside \cup Inside]
    /\ mem \in [Sessions -> Memories]
    /\ txn \in [Sessions -> Transactions]
    /\ planned \in [Plans -> Artifacts]
    /\ holder \in [Operators -> Sessions \cup {NoOne}]
    /\ left \in [commands: Nat, moves: Nat, crashes: Nat]
    /\ hist \in Histories

Init ==
    /\ live = EmptySchema
    /\ pin = 0
    /\ ledger = {}
    /\ nextId = 1
    /\ lock = NoOne
    /\ pc = [s \in Sessions |-> "idle"]
    /\ mem = [s \in Sessions |-> Fresh(NoJob)]
    /\ txn = [s \in Sessions |-> NoWrites]
    /\ planned = [p \in Plans |-> [known |-> FALSE, base |-> EmptySchema, pin |-> 0]]
    /\ holder = [h \in Operators |-> NoOne]
    /\ left = [commands |-> MaxCommands, moves |-> MaxMoves, crashes |-> MaxCrashes]
    /\ hist = [reported |-> {}, unchecked |-> {}, applied |-> {}, open |-> NoPlan,
               ran |-> [p \in Plans |-> 0]]
-----------------------------------------------------------------------------
Goto(s, l) == pc' = [pc EXCEPT ![s] = l]

Append1(row) == ledger' = ledger \cup {row} /\ nextId' = nextId + 1

PlanOf(s) == mem[s].plan
Staged(s) == PlanOf(s) \in StagedPlans
StepsOf(s) == IF mem[s].op = "bootstrap" THEN BootSteps ELSE Steps[PlanOf(s)]
Done(s) == mem[s].at = Len(StepsOf(s))
NextStep(s) == StepsOf(s)[mem[s].at + 1]

\* The unmanaged routines are as the plan pinned them.
PinsHeld(s) == mem[s].op = "apply" => pin = planned[PlanOf(s)].pin

\* What the process's own transaction reads: its writes over the committed rows.
View(s) == [o \in Objects |-> IF txn[s].writes[o] = Unwritten
                                THEN live[o] ELSE txn[s].writes[o]]

\* No other open transaction holds the object.
Unheld(s, o) == \A t \in Sessions \ {s} : txn[t].writes[o] = Unwritten

\* Mutant of AfterError: an error before the attempt returns without the release.
AfterErrorForgets(s) ==
    IF mem[s].op = "apply" THEN "fail"
    ELSE IF mem[s].op = "bootstrap" /\ pc[s] \in {"exec", "readback", "insert", "commit"}
    THEN "failrecord"
    ELSE "idle"

\* Where an error leads: the audit row of an apply, or of a bootstrap whose
\* transaction was attempted; any other command goes on to release its lock.
AfterError(s) ==
    IF mem[s].op = "apply" THEN "fail"
    ELSE IF mem[s].op = "bootstrap" /\ pc[s] \in {"exec", "readback", "insert", "commit"}
    THEN "failrecord"
    ELSE "unlock"

\* The process meets an error: its transaction, if one is open, is rolled back.
Fail(s) ==
    /\ Goto(s, AfterError(s))
    /\ txn' = [txn EXCEPT ![s] = NoWrites]
    /\ UNCHANGED mem
-----------------------------------------------------------------------------
(***************************************************************************)
(* Starting a command, and the lock.                                       *)
(***************************************************************************)
JobsNow ==
    {j \in [op: Ops \ {"prune"}, plan: Plans \cup {NoPlan}, flag: BOOLEAN, keep: {0}] :
        /\ j.op = "apply" => /\ j.plan \in Plans
                             /\ planned[j.plan].known
                             /\ j.flag => j.plan \in StagedPlans
        /\ j.op = "datawork" => j.plan \in Plans
        /\ j.op \in {"snapshot", "baseline", "bootstrap"} => j.plan = NoPlan
        /\ j.op \in {"baseline", "bootstrap", "datawork"} => ~j.flag}
    \cup [op: Ops \cap {"prune"}, plan: {NoPlan}, flag: {FALSE}, keep: Keeps]

\* A process is given a command (flag: --resume of an apply, --force of a snapshot).
Start(s, j) ==
    /\ pc[s] = "idle"
    /\ left.commands > 0
    /\ left' = [left EXCEPT !.commands = @ - 1]
    /\ mem' = [mem EXCEPT ![s] = Fresh(j)]
    /\ Goto(s, CASE j.op = "prune" -> "select"
                 [] j.op = "datawork" -> "probe"
                 [] OTHER -> "lock")
    /\ UNCHANGED <<live, pin, ledger, nextId, lock, txn, planned, holder, hist>>

\* Mutant of Lock: the row is overwritten when it is there.
LockUpsert(s) ==
    /\ pc[s] = "lock"
    /\ lock' = s
    /\ Goto(s, CASE mem[s].op = "apply" -> "latest"
                 [] mem[s].op = "datawork" -> "evidence"
                 [] OTHER -> "survey")
    /\ UNCHANGED <<live, pin, ledger, nextId, mem, txn, planned, holder, left, hist>>

\* The insert of the single lock row is the gate.
Lock(s) ==
    /\ pc[s] = "lock"
    /\ lock = NoOne
    /\ lock' = s
    /\ Goto(s, CASE mem[s].op = "apply" -> "latest"
                 [] mem[s].op = "datawork" -> "evidence"
                 [] OTHER -> "survey")
    /\ UNCHANGED <<live, pin, ledger, nextId, mem, txn, planned, holder, left, hist>>

\* The row is there: the command ends, and releases nothing.
LockBusy(s) ==
    /\ pc[s] = "lock"
    /\ lock # NoOne
    /\ Goto(s, "idle")
    /\ mem' = [mem EXCEPT ![s] = Fresh(NoJob)]
    /\ UNCHANGED <<live, pin, ledger, nextId, lock, txn, planned, holder, left, hist>>

\* Released whatever happened: the row goes, whoever it names.
Unlock(s) ==
    /\ pc[s] = "unlock"
    /\ lock' = NoOne
    /\ Goto(s, "idle")
    /\ mem' = [mem EXCEPT ![s] = Fresh(NoJob)]
    /\ UNCHANGED <<live, pin, ledger, nextId, txn, planned, holder, left, hist>>
-----------------------------------------------------------------------------
(***************************************************************************)
(* apply: admission under the lock.                                        *)
(***************************************************************************)
\* Mutant of Admits: a fresh apply does not ask whether a checkpoint is open.
AdmitsFresh(s, e) ==
    /\ e # NoEntry
    /\ mem[s].flag => /\ MidDeployment(e)
                      /\ e.kind \in {"staged", "failed"}
                      /\ e.plan = PlanOf(s)

\* Whether the newest row lets this apply go on at all.
Admits(s, e) ==
    /\ e # NoEntry
    /\ IF mem[s].flag
         THEN /\ MidDeployment(e)
              /\ e.kind \in {"staged", "failed"}
              /\ e.plan = PlanOf(s)
         ELSE ~MidDeployment(e)

ReadLatest(s) ==
    /\ pc[s] = "latest"
    /\ LET e == Newest(ledger) IN
         \/ /\ Admits(s, e)
            /\ Staged(s) \/ Len(StepsOf(s)) > 0
            /\ mem' = [mem EXCEPT ![s].seen = e]
            /\ Goto(s, "baseline")
            /\ UNCHANGED txn
         \/ /\ Admits(s, e)              \* an empty plan: nothing to record
            /\ ~Staged(s) /\ Len(StepsOf(s)) = 0
            /\ Goto(s, "unlock")
            /\ UNCHANGED <<mem, txn>>
         \/ ~Admits(s, e) /\ Fail(s)
    /\ UNCHANGED <<live, pin, ledger, nextId, lock, planned, holder, left, hist>>

\* The state the run must find: the checkpoint's on a resume, else the plan's.
Expected(s) == IF mem[s].flag THEN mem[s].seen.schema ELSE planned[PlanOf(s)].base

\* A resume skips the probes, and the pin check before them.
BaselineHolds(s) ==
    /\ Readable(live)
    /\ live = Expected(s)
    /\ mem[s].flag \/ PinsHeld(s)

\* Mutant of StartAt: the checkpoint's count taken for the next statement's index.
StartAfter(s) == IF mem[s].flag THEN mem[s].seen.staged + 1 ELSE 0

\* The statements already done: those the checkpoint counts, or none.
StartAt(s) == IF mem[s].flag THEN mem[s].seen.staged ELSE 0

CheckBaseline(s) ==
    /\ pc[s] = "baseline"
    /\ \/ /\ BaselineHolds(s)
          /\ mem' = [mem EXCEPT ![s].prev = live, ![s].at = StartAt(s)]
          /\ Goto(s, IF ~Staged(s) THEN "exec"
                     ELSE IF StartAt(s) = Len(StepsOf(s)) THEN "closing" ELSE "step")
          /\ hist' = IF mem[s].flag THEN hist
                     ELSE [hist EXCEPT !.ran[PlanOf(s)] = 0]
          /\ UNCHANGED txn
       \/ ~BaselineHolds(s) /\ Fail(s) /\ UNCHANGED hist
    /\ UNCHANGED <<live, pin, ledger, nextId, lock, planned, holder, left>>
-----------------------------------------------------------------------------
(***************************************************************************)
(* The transactional body of apply and bootstrap, and of a baseline that   *)
(* removes standing temporary CHECKs: every write, the read-back and the   *)
(* ledger row commit together.                                             *)
(***************************************************************************)
\* The pins are looked at before every statement.
Exec(s) ==
    /\ pc[s] = "exec"
    /\ \/ /\ PinsHeld(s)
          /\ Unheld(s, NextStep(s).obj)
          /\ txn' = [txn EXCEPT ![s].writes[NextStep(s).obj] = NextStep(s).to]
          /\ mem' = [mem EXCEPT ![s].at = @ + 1]
          /\ Goto(s, IF mem[s].at + 1 = Len(StepsOf(s)) THEN "readback" ELSE "exec")
       \/ ~PinsHeld(s) /\ Fail(s)
    /\ UNCHANGED <<live, pin, ledger, nextId, lock, planned, holder, left, hist>>

\* Mutant of ReadBackHolds: only the plan's own objects are looked at.
ReadBackHoldsOwn(s, after) ==
    mem[s].op = "apply" => Unmet(PlanOf(s), after) = {}

\* refuse_pinned_movement over a whole plan: nothing outside it moved, and
\* everything in it is where the plan leaves it.
ReadBackHolds(s, after) ==
    mem[s].op = "apply" =>
        /\ MovedOutside(PlanOf(s), mem[s].prev, after) = {}
        /\ Unmet(PlanOf(s), after) = {}

ReadBack(s) ==
    /\ pc[s] = "readback"
    /\ LET after == View(s) IN
         \/ /\ Readable(after) /\ ReadBackHolds(s, after) /\ PinsHeld(s)
            /\ mem' = [mem EXCEPT ![s].read = after]
            /\ Goto(s, "insert")
            /\ UNCHANGED txn
         \/ ~(Readable(after) /\ ReadBackHolds(s, after) /\ PinsHeld(s)) /\ Fail(s)
    /\ UNCHANGED <<live, pin, ledger, nextId, lock, planned, holder, left, hist>>

\* The row is inserted in the transaction: its id is taken, its bytes are not seen.
Insert(s) ==
    /\ pc[s] = "insert"
    /\ txn' = [txn EXCEPT ![s].row = NewEntry(nextId, mem[s].op, mem[s].read, PlanOf(s), 0)]
    /\ nextId' = nextId + 1
    /\ Goto(s, "commit")
    /\ UNCHANGED <<live, pin, ledger, lock, mem, planned, holder, left, hist>>

\* The pins once more, then the commit publishes the writes and the row together.
Commit(s) ==
    /\ pc[s] = "commit"
    /\ \/ /\ PinsHeld(s)
          /\ live' = View(s)
          /\ ledger' = ledger \cup {txn[s].row}
          /\ txn' = [txn EXCEPT ![s] = NoWrites]
          /\ hist' = [hist EXCEPT
                        !.applied = IF mem[s].op = "apply" THEN @ \cup {PlanOf(s)} ELSE @,
                        !.open = IF mem[s].op = "baseline" THEN NoPlan ELSE @]
          /\ Goto(s, "unlock")
          /\ UNCHANGED mem
       \/ ~PinsHeld(s) /\ Fail(s) /\ UNCHANGED <<live, ledger, hist>>
    /\ UNCHANGED <<pin, nextId, lock, planned, holder, left>>
-----------------------------------------------------------------------------
(***************************************************************************)
(* The staged body of apply: each statement commits on its own, and a      *)
(* checkpoint row follows it.                                              *)
(***************************************************************************)
\* One statement, committed.  A NOT VALID add takes no checkpoint.
Step(s) ==
    /\ pc[s] = "step"
    /\ \/ /\ PinsHeld(s)
          /\ Unheld(s, NextStep(s).obj)
          /\ live' = [live EXCEPT ![NextStep(s).obj] = NextStep(s).to]
          /\ mem' = [mem EXCEPT ![s].at = @ + 1]
          /\ hist' = [hist EXCEPT !.ran[PlanOf(s)] = mem[s].at + 1]
          /\ Goto(s, IF NextStep(s).scan = "add" THEN "step" ELSE "stepread")
          /\ UNCHANGED txn
       \/ ~PinsHeld(s) /\ Fail(s) /\ UNCHANGED <<live, hist>>
    /\ UNCHANGED <<pin, ledger, nextId, lock, planned, holder, left>>

\* The statement fails.  A failed VALIDATE takes its CHECK out again, or cannot.
StepFails(s) ==
    /\ pc[s] = "step"
    /\ \/ UNCHANGED live
       \/ /\ NextStep(s).scan = "validate"
          /\ live[NextStep(s).obj] = NotValid
          /\ live' = [live EXCEPT ![NextStep(s).obj] = Absent]
    /\ Fail(s)
    /\ UNCHANGED <<pin, ledger, nextId, lock, planned, holder, left, hist>>

StepRead(s) ==
    /\ pc[s] = "stepread"
    /\ \/ /\ Readable(live)
          /\ mem' = [mem EXCEPT ![s].read = live]
          /\ Goto(s, "checkpoint")
          /\ UNCHANGED txn
       \/ ~Readable(live) /\ Fail(s)
    /\ UNCHANGED <<live, pin, ledger, nextId, lock, planned, holder, left, hist>>

\* The checkpoint is written first; a pin that moved stops the run after it.
Checkpoint(s) ==
    /\ pc[s] = "checkpoint"
    /\ Append1(NewEntry(nextId, "staged", mem[s].read, PlanOf(s), mem[s].at))
    /\ Goto(s, IF PinsHeld(s) THEN "compare" ELSE "fail")
    /\ hist' = [hist EXCEPT !.open = PlanOf(s),
                  !.unchecked = IF PinsHeld(s) THEN @ ELSE @ \cup {PlanOf(s)}]
    /\ UNCHANGED <<live, pin, lock, mem, txn, planned, holder, left>>

\* Each checkpoint against the read before it, over what the plan leaves alone.
Compare(s) ==
    /\ pc[s] = "compare"
    /\ LET moved == MovedOutside(PlanOf(s), mem[s].prev, mem[s].read) IN
         \/ /\ moved = {}
            /\ mem' = [mem EXCEPT ![s].prev = mem[s].read]
            /\ Goto(s, IF Done(s) THEN "closing" ELSE "step")
            /\ UNCHANGED <<txn, hist>>
         \/ /\ moved # {}
            /\ Fail(s)
            /\ hist' = [hist EXCEPT !.reported = @ \cup ({PlanOf(s)} \X moved)]
    /\ UNCHANGED <<live, pin, ledger, nextId, lock, planned, holder, left>>

\* Mutants of ClosingHolds: one half of the closing comparison is left out.
ClosingHoldsOwn(s) ==
    /\ Readable(live)
    /\ Unmet(PlanOf(s), live) = {}
    /\ PinsHeld(s)

ClosingHoldsRest(s) ==
    /\ Readable(live)
    /\ MovedOutside(PlanOf(s), mem[s].prev, live) = {}
    /\ PinsHeld(s)

\* The closing read, held to the last checkpoint and to the whole plan.
ClosingHolds(s) ==
    /\ Readable(live)
    /\ MovedOutside(PlanOf(s), mem[s].prev, live) = {}
    /\ Unmet(PlanOf(s), live) = {}
    /\ PinsHeld(s)

Closing(s) ==
    /\ pc[s] = "closing"
    /\ \/ /\ ClosingHolds(s)
          /\ mem' = [mem EXCEPT ![s].read = live]
          /\ Goto(s, "close")
          /\ UNCHANGED txn
       \/ ~ClosingHolds(s) /\ Fail(s)
    /\ UNCHANGED <<live, pin, ledger, nextId, lock, planned, holder, left, hist>>

\* The ordinary entry that ends the deployment.
Close(s) ==
    /\ pc[s] = "close"
    /\ Append1(NewEntry(nextId, "apply", mem[s].read, PlanOf(s), 0))
    /\ Goto(s, "unlock")
    /\ hist' = [hist EXCEPT !.open = NoPlan, !.applied = @ \cup {PlanOf(s)}]
    /\ UNCHANGED <<live, pin, lock, mem, txn, planned, holder, left>>
-----------------------------------------------------------------------------
(***************************************************************************)
(* The audit row of a failed apply or bootstrap.                           *)
(***************************************************************************)
FailRead(s) ==
    /\ pc[s] = "fail"
    /\ LET e == Newest(ledger) IN
         /\ mem' = [mem EXCEPT ![s].seen = e]
         /\ Goto(s, IF e = NoEntry THEN "unlock" ELSE "failrecord")
    /\ UNCHANGED <<live, pin, ledger, nextId, lock, txn, planned, holder, left, hist>>

FailRecord(s) ==
    /\ pc[s] = "failrecord"
    /\ Append1(IF mem[s].op = "bootstrap"
                 THEN NewEntry(nextId, "failed", EmptySchema, NoPlan, 0)
                 ELSE FailedCopy(mem[s].seen, nextId, PlanOf(s)))
    /\ Goto(s, "unlock")
    /\ UNCHANGED <<live, pin, lock, mem, txn, planned, holder, left, hist>>

\* Best effort: the audit row cannot be read or written.
FailUnrecorded(s) ==
    /\ pc[s] \in {"fail", "failrecord"}
    /\ Goto(s, "unlock")
    /\ UNCHANGED <<live, pin, ledger, nextId, lock, mem, txn, planned, holder, left, hist>>

\* Any other error a body meets: a probe, a statement or a query the server
\* refuses.  A staged statement that has committed stays committed.
BodyFails(s) ==
    /\ pc[s] \in {"latest", "baseline", "exec", "readback", "insert", "commit",
                  "stepread", "checkpoint", "closing", "close",
                  "survey", "judge", "evidence", "record"}
    /\ Fail(s)
    /\ UNCHANGED <<live, pin, ledger, nextId, lock, planned, holder, left, hist>>
-----------------------------------------------------------------------------
(***************************************************************************)
(* snapshot, baseline and bootstrap: the read under the lock.              *)
(***************************************************************************)
Standing == {o \in Checks : live[o] # Absent}

\* snapshot reads the database; a read it cannot hold ends the command.
SurveySnapshot(s) ==
    /\ pc[s] = "survey" /\ mem[s].op = "snapshot"
    /\ \/ /\ Readable(live)
          /\ mem' = [mem EXCEPT ![s].read = live]
          /\ Goto(s, "judge")
          /\ UNCHANGED txn
       \/ ~Readable(live) /\ Fail(s)
    /\ UNCHANGED <<live, pin, ledger, nextId, lock, planned, holder, left, hist>>

\* Mutant of SurveyBaseline: the CHECKs are dropped in a transaction of their own.
SurveyBaselineApart(s) ==
    /\ pc[s] = "survey" /\ mem[s].op = "baseline"
    /\ live' = [o \in Objects |-> IF o \in Standing THEN Absent ELSE live[o]]
    /\ mem' = [mem EXCEPT ![s].read = live']
    /\ Goto(s, "record")
    /\ UNCHANGED <<pin, ledger, nextId, lock, txn, planned, holder, left, hist>>

\* baseline drops the standing CHECKs, then reads; without any it opens no transaction.
SurveyBaseline(s) ==
    /\ pc[s] = "survey" /\ mem[s].op = "baseline"
    /\ LET gone == [o \in Objects |-> IF o \in Standing THEN Absent ELSE Unwritten]
           after == [o \in Objects |-> IF o \in Standing THEN Absent ELSE live[o]]
       IN  \/ /\ Readable(after)
              /\ txn' = [txn EXCEPT ![s].writes = gone]
              /\ mem' = [mem EXCEPT ![s].read = after]
              /\ Goto(s, IF Standing = {} THEN "record" ELSE "insert")
           \/ ~Readable(after) /\ Fail(s)
    /\ UNCHANGED <<live, pin, ledger, nextId, lock, planned, holder, left, hist>>

\* bootstrap builds only into a database that holds none of the objects.
SurveyBootstrap(s) ==
    /\ pc[s] = "survey" /\ mem[s].op = "bootstrap"
    /\ \/ /\ live = EmptySchema
          /\ Goto(s, IF BootSteps = <<>> THEN "readback" ELSE "exec")
          /\ UNCHANGED <<mem, txn>>
       \/ live # EmptySchema /\ Fail(s)
    /\ UNCHANGED <<live, pin, ledger, nextId, lock, planned, holder, left, hist>>

\* snapshot refuses to bless a difference, or a first state, without --force.
Judge(s) ==
    /\ pc[s] = "judge"
    /\ LET e == Newest(ledger)
           same == e # NoEntry /\ e.schema = mem[s].read
       IN  \/ (same \/ mem[s].flag) /\ Goto(s, "record") /\ UNCHANGED <<mem, txn>>
           \/ ~(same \/ mem[s].flag) /\ Fail(s)
    /\ UNCHANGED <<live, pin, ledger, nextId, lock, planned, holder, left, hist>>
-----------------------------------------------------------------------------
(***************************************************************************)
(* state record-data-work.                                                 *)
(***************************************************************************)
\* Before the lock: an empty ledger has no state to copy.
Probe(s) ==
    /\ pc[s] = "probe"
    /\ IF ledger = {}
         THEN Goto(s, "idle") /\ mem' = [mem EXCEPT ![s] = Fresh(NoJob)]
         ELSE Goto(s, "lock") /\ UNCHANGED mem
    /\ UNCHANGED <<live, pin, ledger, nextId, lock, txn, planned, holder, left, hist>>

\* Under it: the newest state again, the retained apply, and no checkpoint.
Evidence(s) ==
    /\ pc[s] = "evidence"
    /\ LET e == Newest(ledger)
           ok == /\ e # NoEntry
                 /\ HasAppliedPlan(ledger, PlanOf(s))
                 /\ ~MidDeployment(e)
       IN  \/ ok /\ mem' = [mem EXCEPT ![s].seen = e] /\ Goto(s, "record") /\ UNCHANGED txn
           \/ ~ok /\ Fail(s)
    /\ UNCHANGED <<live, pin, ledger, nextId, lock, planned, holder, left, hist>>

\* The row a snapshot, a baseline or a report of data work writes on its own.
Row(s) ==
    CASE mem[s].op = "datawork" -> DataWorkCopy(mem[s].seen, nextId, PlanOf(s))
      [] mem[s].op = "baseline" -> NewEntry(nextId, "baseline", mem[s].read, NoPlan, 0)
      [] OTHER -> NewEntry(nextId, "apply", mem[s].read, NoPlan, 0)

Record(s) ==
    /\ pc[s] = "record"
    /\ Append1(Row(s))
    /\ hist' = [hist EXCEPT !.open = IF mem[s].op = "baseline" THEN NoPlan ELSE @]
    /\ Goto(s, "unlock")
    /\ UNCHANGED <<live, pin, lock, mem, txn, planned, holder, left>>
-----------------------------------------------------------------------------
(***************************************************************************)
(* state prune: two statements, and no lock.                               *)
(***************************************************************************)
PruneSelect(s) ==
    /\ pc[s] = "select"
    /\ LET doomed == IdsToPrune(ledger, mem[s].keep) IN
         IF doomed = {}
           THEN Goto(s, "idle") /\ mem' = [mem EXCEPT ![s] = Fresh(NoJob)]
           ELSE /\ Goto(s, "delete")
                /\ mem' = [mem EXCEPT ![s].at =
                             CHOOSE i \in doomed : \A j \in doomed : j <= i]
    /\ UNCHANGED <<live, pin, ledger, nextId, lock, txn, planned, holder, left, hist>>

PruneDelete(s) ==
    /\ pc[s] = "delete"
    /\ ledger' = {e \in ledger : e.id > mem[s].at}
    /\ Goto(s, "idle")
    /\ mem' = [mem EXCEPT ![s] = Fresh(NoJob)]
    /\ UNCHANGED <<live, pin, nextId, lock, txn, planned, holder, left, hist>>
-----------------------------------------------------------------------------
(***************************************************************************)
(* Around the processes: planning, operators, other sessions, death.       *)
(***************************************************************************)
\* Mutant of PlanAdmits: a ledger without entries reads as an empty database.
PlanAdmitsUnrecorded(e) == ~MidDeployment(e)

PlanAdmits(e) == e # NoEntry /\ ~MidDeployment(e)

\* plan --db: refused mid-deployment and on drift, else pinned to the state.
PlanDb(p) ==
    /\ ~planned[p].known
    /\ PlanAdmits(Newest(ledger))
    /\ Readable(live)
    /\ live = Newest(ledger).schema
    /\ \A o \in Touched(p) \ Checks : live[o] # Final(p, o)
    /\ planned' = [planned EXCEPT ![p] = [known |-> TRUE, base |-> live, pin |-> pin]]
    /\ UNCHANGED <<live, pin, ledger, nextId, lock, pc, mem, txn, holder, left, hist>>

\* pbps unlock reads who holds the lock, then deletes the row.
UnlockRead(h) ==
    /\ holder[h] = NoOne
    /\ lock # NoOne
    /\ OverrideLive \/ pc[lock] = "dead"
    /\ holder' = [holder EXCEPT ![h] = lock]
    /\ UNCHANGED <<live, pin, ledger, nextId, lock, pc, mem, txn, planned, left, hist>>

UnlockDelete(h) ==
    /\ holder[h] # NoOne
    /\ lock' = NoOne
    /\ holder' = [holder EXCEPT ![h] = NoOne]
    /\ UNCHANGED <<live, pin, ledger, nextId, pc, mem, txn, planned, left, hist>>

\* Another session changes an object no open transaction holds.
Drift(o, v) ==
    /\ left.moves > 0
    /\ live[o] # v
    /\ \A s \in Sessions : txn[s].writes[o] = Unwritten
    /\ live' = [live EXCEPT ![o] = v]
    /\ left' = [left EXCEPT !.moves = @ - 1]
    /\ UNCHANGED <<pin, ledger, nextId, lock, pc, mem, txn, planned, holder, hist>>

\* Another session replaces a pinned routine, or puts it back.
PinMove ==
    /\ left.moves > 0
    /\ pin' = 1 - pin
    /\ left' = [left EXCEPT !.moves = @ - 1]
    /\ UNCHANGED <<live, ledger, nextId, lock, pc, mem, txn, planned, holder, hist>>

\* The process dies: the server rolls its transaction back, its lock row stays.
Crash(s) ==
    /\ left.crashes > 0
    /\ pc[s] \notin {"idle", "dead"}
    /\ Goto(s, "dead")
    /\ mem' = [mem EXCEPT ![s] = Fresh(NoJob)]
    /\ txn' = [txn EXCEPT ![s] = NoWrites]
    /\ left' = [left EXCEPT !.crashes = @ - 1]
    /\ hist' = [hist EXCEPT !.unchecked =
                  IF pc[s] = "compare" THEN @ \cup {PlanOf(s)} ELSE @]
    /\ UNCHANGED <<live, pin, ledger, nextId, lock, planned, holder>>

\* Nothing left to do within the bounds.
Rest ==
    /\ \A s \in Sessions : pc[s] = "dead" \/ (pc[s] = "idle" /\ left.commands = 0)
    /\ UNCHANGED vars
-----------------------------------------------------------------------------
\* The steps a running process takes on its own.
Progress(s) ==
    \/ Lock(s) \/ LockBusy(s) \/ Unlock(s)
    \/ ReadLatest(s) \/ CheckBaseline(s)
    \/ Exec(s) \/ ReadBack(s) \/ Insert(s) \/ Commit(s)
    \/ Step(s) \/ StepRead(s) \/ Checkpoint(s) \/ Compare(s) \/ Closing(s) \/ Close(s)
    \/ FailRead(s) \/ FailRecord(s)
    \/ SurveySnapshot(s) \/ SurveyBaseline(s) \/ SurveyBootstrap(s) \/ Judge(s)
    \/ Probe(s) \/ Evidence(s) \/ Record(s)
    \/ PruneSelect(s) \/ PruneDelete(s)

Next ==
    \/ \E s \in Sessions :
         \/ \E j \in JobsNow : Start(s, j)
         \/ Progress(s)
         \/ StepFails(s) \/ BodyFails(s) \/ FailUnrecorded(s)
         \/ Crash(s)
    \/ \E p \in Plans : PlanDb(p)
    \/ \E h \in Operators : UnlockRead(h) \/ UnlockDelete(h)
    \/ \E o \in Objects \ Checks, v \in Values \ {NotValid} : Drift(o, v)
    \/ PinMove
    \/ Rest

Spec == Init /\ [][Next]_vars

\* A process that is not dead keeps going.
Fairness == \A s \in Sessions : WF_vars(Progress(s))

FairSpec == Spec /\ Fairness
-----------------------------------------------------------------------------
(***************************************************************************)
(* What must hold.                                                         *)
(***************************************************************************)
(***************************************************************************)
(* The lock row keeps writers apart: while a process is between taking and *)
(* releasing the lock, the row names it, so no two processes are ever      *)
(* inside together (LedgerError::Locked: two concurrent applies "produce a *)
(* schema neither plan describes").                                        *)
(***************************************************************************)
OneWriter ==
    /\ \A s \in Sessions : pc[s] \in Inside => lock = s
    /\ \A s, t \in Sessions : pc[s] \in Inside /\ pc[t] \in Inside => s = t

(***************************************************************************)
(* A staged deployment that has a checkpoint is followed by nothing but    *)
(* its own remaining statements until it is closed or a baseline is taken  *)
(* (refuse_mid_deployment, and ADR-0003: "`plan --db` and a fresh `apply`  *)
(* both refuse until it is finished or baselined").                        *)
(***************************************************************************)
NothingElseRuns ==
    \A s \in Sessions :
        pc[s] \in {"exec", "step"} /\ mem[s].op = "apply" =>
            \/ hist.open = NoPlan
            \/ hist.open = PlanOf(s) /\ mem[s].at > 0

(***************************************************************************)
(* No statement of a staged plan is skipped, over any sequence of runs,    *)
(* failures, deaths and resumes: a run about to execute statement k + 1    *)
(* follows an execution of statement k in the same deployment, and one     *)
(* that is closing follows all of them.                                    *)
(***************************************************************************)
NoStatementSkipped ==
    \A s \in Sessions :
        /\ pc[s] = "step" => mem[s].at <= hist.ran[PlanOf(s)]
        /\ pc[s] \in {"closing", "close"} => hist.ran[PlanOf(s)] = Len(Steps[PlanOf(s)])

Applied(e) == e.kind = "apply" /\ e.plan \in Plans

(***************************************************************************)
(* SPEC 7.6: the entry that says a plan was applied holds what the plan    *)
(* promised for what it touches, and the approved baseline for the rest,   *)
(* except for changes a refusal of that plan named and an operator then    *)
(* resumed over, and for staged plans one of whose checkpoints was written *)
(* and then never compared, because the process died or a pin had moved.   *)
(***************************************************************************)
AppliedAsPromised ==
    \A e \in ledger : Applied(e) =>
        \A o \in Objects :
            IF o \in Touched(e.plan)
              THEN e.schema[o] = Final(e.plan, o)
              ELSE \/ e.schema[o] = planned[e.plan].base[o]
                   \/ <<e.plan, o>> \in hist.reported
                   \/ e.plan \in hist.unchecked

(***************************************************************************)
(* A transactional plan's entry holds exactly the promise over the         *)
(* approved baseline, even where an operator cleared a live process's lock *)
(* and two deployments run at once (DECISIONS 147, 150: the read-back and  *)
(* the row are inside the transaction).                                    *)
(***************************************************************************)
TransactionalAsPromised ==
    \A e \in ledger : Applied(e) /\ e.plan \notin StagedPlans =>
        \A o \in Objects :
            e.schema[o] = IF o \in Touched(e.plan) THEN Final(e.plan, o)
                          ELSE planned[e.plan].base[o]

(***************************************************************************)
(* A baseline that takes a staged attach's temporary CHECK out of a        *)
(* database standing at its checkpoint also records that it did: one that  *)
(* refused or died leaves the deployment resumable (#2127).                *)
(***************************************************************************)
BaselineTakesAllOrNothing ==
    [][\A s \in Sessions :
         /\ pc[s] \in Inside /\ mem[s].op = "baseline"
         /\ MidDeployment(Newest(ledger)) /\ live = Newest(ledger).schema
         /\ left' = left
         => live' = live \/ ~MidDeployment(Newest(ledger'))]_vars

(***************************************************************************)
(* A report of data work names a plan that was recorded as applied here: a *)
(* checkpoint, a failed attempt or another report of the same checksum is  *)
(* no evidence (has_applied_plan).                                         *)
(***************************************************************************)
ReportHasEvidence ==
    \A e \in ledger : e.kind = "data_work" => e.work \in hist.applied /\ ~MidDeployment(e)

(***************************************************************************)
(* The environment's current state never goes back: whatever prunes run    *)
(* beside whatever writers, the newest row stays until a newer one is      *)
(* there ("--keep 0 still keeps the current baseline").                    *)
(***************************************************************************)
NewestSurvives ==
    [][ledger # {} => /\ ledger' # {}
                      /\ Newest(ledger').id >= Newest(ledger).id]_vars

(***************************************************************************)
(* A process that took the lock gives it up, or dies holding it: no error  *)
(* path of a command leaves the environment locked.                        *)
(***************************************************************************)
LockComesFree ==
    \A s \in Sessions : lock = s ~> (lock # s \/ pc[s] = "dead")

-----------------------------------------------------------------------------
(***************************************************************************)
(* The environment as its ledger presents it, which Environment specifies. *)
(***************************************************************************)
Recorded ==
    LET e == Newest(ledger)
    IN  [known |-> ledger # {}, schema |-> e.schema, done |-> e.staged,
         plan |-> IF MidDeployment(e) THEN e.plan ELSE NoPlan]

Env == INSTANCE Environment WITH
         state <- Recorded,
         pinned <- [p \in Plans |-> [known |-> planned[p].known, base |-> planned[p].base]],
         closed <- hist.applied

(***************************************************************************)
(* Deploy implements Environment: whatever processes, failures and deaths  *)
(* interleave, the ledger's newest row only moves as one deployer at a     *)
(* time would move it.                                                     *)
(***************************************************************************)
RefinesEnvironment == Env!Spec
=============================================================================
