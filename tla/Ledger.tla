------------------------------- MODULE Ledger -------------------------------
(***************************************************************************)
(* The rows of `__pbps_state` and the pure decisions taken over them: the  *)
(* newest entry, the copies a failed attempt and a data-work report make   *)
(* of it, the evidence a report needs, and the ids a prune removes.        *)
(*                                                                         *)
(* A schema is a function from the managed objects to their definitions:   *)
(* only equality of definitions is ever asked of it, which is what the     *)
(* checksum and the read-back guard of the program compare.                *)
(***************************************************************************)
EXTENDS Naturals, FiniteSets, Sequences

CONSTANTS
    Objects,        \* managed objects (tables, columns, rows, modules ...)
    Values,         \* definitions an object can have
    Absent,         \* the definition of an object that is not there
    NotValid,       \* a temporary CHECK added NOT VALID: no read holds it
    Plans,          \* approved plan artifacts, named by their checksum
    NoPlan,         \* an absent plan checksum
    Steps           \* Steps[p]: the statements plan p emits, in order

ASSUME ValuesAssumption == Absent \in Values /\ NotValid \in Values

ASSUME PlansAssumption == NoPlan \notin Plans

Statements == [obj: Objects, to: Values, scan: {"none", "add", "validate"}]

\* A CHECK added NOT VALID is validated by a later statement of the same plan.
ASSUME StepsAssumption ==
    /\ Steps \in [Plans -> Seq(Statements)]
    /\ \A p \in Plans : \A i \in DOMAIN Steps[p] :
           Steps[p][i].scan = "add" => i < Len(Steps[p])

Schemas == [Objects -> Values]

EmptySchema == [o \in Objects |-> Absent]

\* A table holding a NOT VALID check is refused by every read of it.
Readable(schema) == \A o \in Objects : schema[o] # NotValid

Kinds == {"apply", "baseline", "bootstrap", "staged", "failed", "data_work"}

(***************************************************************************)
(* One ledger row.  "staged" is the number of completed statements of an   *)
(* unfinished staged apply and 0 where the row carries no progress;        *)
(* "plan" is the plan checksum and "work" the expand checksum of a         *)
(* data-work report.                                                       *)
(***************************************************************************)
Entries == [id: Nat, kind: Kinds, schema: Schemas, plan: Plans \cup {NoPlan},
            staged: Nat, work: Plans \cup {NoPlan}]

\* What a reader of an empty ledger gets.
NoEntry == [id |-> 0, kind |-> "baseline", schema |-> EmptySchema,
            plan |-> NoPlan, staged |-> 0, work |-> NoPlan]

\* The newest row, by id.
Newest(rows) ==
    IF rows = {} THEN NoEntry
    ELSE CHOOSE e \in rows : \A f \in rows : f.id <= e.id

\* The environment is half-way through a staged apply.
MidDeployment(e) == e.staged # 0

\* Mutant of NewEntry: the index of the last statement instead of the count.
NewEntryByIndex(id, kind, schema, plan, staged) ==
    [id |-> id, kind |-> kind, schema |-> schema, plan |-> plan,
     staged |-> staged - 1, work |-> NoPlan]

\* StateSnapshot::new, with the columns this model keeps.
NewEntry(id, kind, schema, plan, staged) ==
    [id |-> id, kind |-> kind, schema |-> schema, plan |-> plan,
     staged |-> staged, work |-> NoPlan]

(***************************************************************************)
(* The audit row of a failed attempt: the newest state, kept as it is.  A  *)
(* staged checkpoint keeps its own plan; any other row takes the checksum  *)
(* of the attempted plan.                                                  *)
(***************************************************************************)
FailedCopy(e, id, attempted) ==
    [e EXCEPT !.id = id, !.kind = "failed", !.work = NoPlan,
              !.plan = IF MidDeployment(e) THEN e.plan ELSE attempted]

\* The report of external data work: the newest managed state, no plan.
DataWorkCopy(e, id, expand) ==
    [e EXCEPT !.id = id, !.kind = "data_work", !.work = expand, !.plan = NoPlan]

\* Mutant of HasAppliedPlan: a row of any kind that carries the checksum.
HasPlanRow(rows, p) == \E e \in rows : e.plan = p

\* A retained successful apply of the plan.
HasAppliedPlan(rows, p) == \E e \in rows : e.kind = "apply" /\ e.plan = p

\* Mutant of IdsToPrune: --keep 0 is taken at its word.
IdsToPruneAll(rows, keep) ==
    {e.id : e \in {f \in rows : Cardinality({g \in rows : g.id > f.id}) >= keep}}

\* Rows past the `keep` newest; the newest one survives every `keep`.
IdsToPrune(rows, keep) ==
    LET kept == IF keep = 0 THEN 1 ELSE keep
    IN  {e.id : e \in {f \in rows :
                         Cardinality({g \in rows : g.id > f.id}) >= kept}}
-----------------------------------------------------------------------------
(***************************************************************************)
(* What a plan touches and where it leaves each object it touches.         *)
(***************************************************************************)
Touched(p) == {Steps[p][i].obj : i \in DOMAIN Steps[p]}

Final(p, o) ==
    LET last == CHOOSE i \in DOMAIN Steps[p] :
                    /\ Steps[p][i].obj = o
                    /\ \A j \in DOMAIN Steps[p] : Steps[p][j].obj = o => j <= i
    IN  Steps[p][last].to

\* Objects outside the plan that differ between two reads.
MovedOutside(p, before, after) ==
    {o \in Objects \ Touched(p) : after[o] # before[o]}

\* Objects of the plan that are not where the plan leaves them.
Unmet(p, after) == {o \in Touched(p) : after[o] # Final(p, o)}
=============================================================================
