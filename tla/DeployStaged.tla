---------------------------- MODULE DeployStaged ----------------------------
(***************************************************************************)
(* What holds of staged deployments while the lock keeps writers apart, up *)
(* to the refinement of Environment.  Whoever is inside the lock knows the *)
(* newest row: no other process appends one, and a prune never takes it    *)
(* away.  Order follows a staged run over its checkpoints, failures,       *)
(* deaths and resumes in terms of that row.                                *)
(***************************************************************************)
EXTENDS DeployProofs

\* Nothing between recorded progress k and statement i took a checkpoint.
Silent(p, k, i) == \A j \in (k + 1)..i : Steps[p][j].scan = "add"

\* Outside plan p, a schema is p's baseline but for what is accounted for.
Accounted(art, h, p, schema) ==
    \A o \in Objects \ Touched(p) :
        \/ schema[o] = art[p].base[o]
        \/ <<p, o>> \in h.reported
        \/ p \in h.unchecked

BodyPoints == {"exec", "readback", "insert", "commit"}

\* What a process at point l, with memory m and row r in its transaction,
\* knows of the newest row n, given the artifacts and the history.
Knows(art, n, h, l, m, r) ==
    /\ l = "baseline" => /\ m.seen = n /\ n # NoEntry
                         /\ IF m.flag THEN n.staged # 0 /\ n.plan = m.plan
                                      ELSE n.staged = 0
    /\ l \in BodyPoints /\ m.op = "apply" =>
           n # NoEntry /\ n.staged = 0 /\ m.plan \notin StagedPlans
    /\ l = "commit" => r.id > n.id /\ r.kind = m.op /\ r.plan = m.plan
    /\ l \in StagedPoints => /\ n # NoEntry
                             /\ n.staged = 0 \/ n.plan = m.plan
                             /\ m.at <= h.ran[m.plan]
                             /\ Accounted(art, h, m.plan, m.prev)
    /\ l = "step" => n.staged <= m.at /\ Silent(m.plan, n.staged, m.at)
    /\ l \in {"stepread", "checkpoint"} =>
           /\ n.staged < m.at
           /\ Silent(m.plan, n.staged, m.at - 1)
           /\ Steps[m.plan][m.at].scan # "add"
    /\ l = "compare" => n.staged = m.at /\ m.at # 0 /\ n.schema = m.read
    /\ l \in {"closing", "close"} => n.staged = m.at /\ m.at = Len(Steps[m.plan])
    /\ l = "close" => Unmet(m.plan, m.read) = {} /\ Accounted(art, h, m.plan, m.read)
    /\ l = "failrecord" => m.op = "bootstrap" \/ (m.seen = n /\ n # NoEntry)
    /\ l = "record" /\ m.op = "datawork" => n # NoEntry /\ n.staged = 0

\* Rows have ids of their own.
Ids == \A e, f \in ledger : e.id = f.id => e = f

\* A checkpoint counts statements that ran, and what moved outside its plan is
\* accounted for once its writer has compared it.
Marks(art, n, h) ==
    /\ n.staged # 0 => art[n.plan].known /\ n.staged <= h.ran[n.plan]
    /\ \A p \in Plans : h.ran[p] <= Len(Steps[p])

Compared(art, n, h) ==
    n.staged # 0 => \/ Accounted(art, h, n.plan, n.schema)
                    \/ \E s \in Sessions : pc[s] = "compare"

\* A closed staged plan's entry is the plan's promise, but for what is accounted for.
StagedKept(art, h, e) ==
    Applied(e) /\ e.plan \in StagedPlans =>
        /\ art[e.plan].known
        /\ Unmet(e.plan, e.schema) = {}
        /\ Accounted(art, h, e.plan, e.schema)

Order ==
    /\ Ids
    /\ Marks(planned, Newest(ledger), hist)
    /\ Compared(planned, Newest(ledger), hist)
    /\ \A e \in ledger : StagedKept(planned, hist, e)
    /\ \A s \in Sessions :
           Knows(planned, Newest(ledger), hist, pc[s], mem[s], txn[s].row)

(***************************************************************************)
(* The newest row.                                                         *)
(***************************************************************************)
\* A row with an id above all others becomes the newest.
LEMMA NewestAppended ==
    ASSUME NEW rows \in SUBSET Entries, NEW e \in Entries, \A f \in rows : f.id < e.id
    PROVE  Newest(rows \cup {e}) = e
<1> DEFINE all == rows \cup {e}
<1>1. e \in all /\ \A f \in all : f.id <= e.id
  BY DEF Entries
<1>2. \A g \in all : (\A f \in all : f.id <= g.id) => g = e
  BY DEF Entries
<1>3. all # {}
  OBVIOUS
<1> HIDE DEF all
<1>4. Newest(all) = CHOOSE g \in all : \A f \in all : f.id <= g.id
  BY <1>3 DEF Newest
<1> QED
  BY <1>1, <1>2, <1>4 DEF all

\* The newest row stays the newest while it is there and no row is added.
LEMMA NewestStays ==
    ASSUME Inv, Ids, NEW rows \in SUBSET ledger, Newest(ledger) \in rows
    PROVE  Newest(rows) = Newest(ledger)
<1> DEFINE n == Newest(ledger)
<1>1. ledger # {} /\ ledger \subseteq Entries
  BY DEF Inv, TypeOK
<1>2. n \in ledger /\ \A f \in ledger : f.id <= n.id
  BY <1>1, NewestOfLedger
<1> HIDE DEF n
<1>3. \A g \in rows : (\A f \in rows : f.id <= g.id) => g = n
  BY <1>1, <1>2 DEF Ids, Entries, n
<1>4. Newest(rows) = CHOOSE g \in rows : \A f \in rows : f.id <= g.id
  BY DEF Newest
<1> QED
  BY <1>2, <1>3, <1>4 DEF n

\* No id is above the newest row's.
LEMMA NewestAbove ==
    ASSUME Inv
    PROVE  /\ Newest(ledger) \in Entries /\ Newest(ledger).id \in Nat
           /\ \A f \in ledger : f.id <= Newest(ledger).id
           /\ Newest(ledger) # NoEntry => ledger # {}
           /\ Newest(ledger).id < nextId
BY NewestType, NewestOfLedger DEF Entries, Newest

\* A point outside the lock asks nothing.
LEMMA OutsideKnows ==
    ASSUME NEW art, NEW n, NEW h, NEW l, NEW m, NEW r,
           l \notin Inside \/ l \in {"latest", "survey", "judge", "evidence", "fail", "unlock"}
    PROVE  Knows(art, n, h, l, m, r)
BY DEF Knows, Inside, BodyPoints, StagedPoints

\* While one process is inside the lock, no other is.
LEMMA Alone ==
    ASSUME Inv, Held, NEW s \in Sessions, pc[s] \in Inside, NEW t \in Sessions, t # s
    PROVE  pc[t] \notin Inside
BY DEF Held

(***************************************************************************)
(* Order is kept, one lemma per kind of step.                              *)
(***************************************************************************)
\* A process inside the lock moves: only what it knows, and the rows, are to be looked at.
LEMMA InsideMove ==
    ASSUME Inv, Held, Order, NEW s \in Sessions, pc[s] \in Inside,
           \A t \in Sessions \ {s} : pc'[t] = pc[t],
           Ids', Marks(planned', Newest(ledger'), hist'),
           Compared(planned, Newest(ledger), hist)',
           \A e \in ledger' : StagedKept(planned', hist', e),
           Knows(planned', Newest(ledger'), hist', pc'[s], mem'[s], txn'[s].row)
    PROVE  Order'
<1>1. ASSUME NEW t \in Sessions \ {s}
      PROVE  Knows(planned', Newest(ledger'), hist', pc'[t], mem'[t], txn'[t].row)
  BY <1>1, Alone, OutsideKnows
<1> QED
  BY <1>1 DEF Order

\* It writes no row, and no history.
LEMMA SameLedgerMove ==
    ASSUME Inv, Held, Order, NEW s \in Sessions, pc[s] \in Inside, pc[s] # "compare",
           UNCHANGED <<ledger, hist, planned>>,
           \A t \in Sessions \ {s} : pc'[t] = pc[t],
           Knows(planned, Newest(ledger), hist, pc'[s], mem'[s], txn'[s].row)
    PROVE  Order'
<1>1. Ids'
  BY DEF Order, Ids
<1>2. Compared(planned, Newest(ledger), hist)'
  BY DEF Order, Compared
<1> QED
  BY <1>1, <1>2, InsideMove DEF Order

LEMMA FailOrder ==
    ASSUME Inv, Held, Order, NEW s \in Sessions, Fail(s), pc[s] \in Inside, pc[s] # "compare",
           UNCHANGED <<ledger, hist, planned>>
    PROVE  Order'
<1>1. /\ pc'[s] = AfterError(s) /\ mem' = mem
      /\ \A t \in Sessions \ {s} : pc'[t] = pc[t]
  BY DEF Fail, Goto, Inv, TypeOK
<1>2. Knows(planned, Newest(ledger), hist, pc'[s], mem'[s], txn'[s].row)
  <2>1. CASE pc'[s] = "failrecord"
    BY <1>1, <2>1 DEF AfterError, Knows, BodyPoints, StagedPoints
  <2>2. CASE pc'[s] # "failrecord"
    BY <1>1, <2>2, OutsideKnows DEF AfterError
  <2> QED
    BY <2>1, <2>2
<1> QED
  BY <1>1, <1>2, SameLedgerMove

\* What a process inside knows and remembers, with the types.
LEMMA InsideFacts ==
    ASSUME Inv, Order, NEW s \in Sessions
    PROVE  /\ pc \in [Sessions -> Outside \cup Inside] /\ mem \in [Sessions -> Memories]
           /\ txn \in [Sessions -> Transactions]
           /\ AtPoint(pc[s], mem[s])
           /\ Knows(planned, Newest(ledger), hist, pc[s], mem[s], txn[s].row)
           /\ mem[s] \in Memories
BY DEF Inv, TypeOK, Control, Order

LEMMA ReadLatestOrder ==
    ASSUME Inv, Held, Order, NEW s \in Sessions, ReadLatest(s) PROVE Order'
<1>0. pc[s] = "latest" /\ pc[s] \in Inside /\ UNCHANGED <<ledger, hist, planned>>
  BY DEF ReadLatest, Inside
<1>1. CASE Fail(s)
  BY <1>0, <1>1, FailOrder
<1>2. CASE ~Fail(s)
  <2>1. /\ \A t \in Sessions \ {s} : pc'[t] = pc[t]
        /\ \/ pc'[s] = "unlock"
           \/ /\ pc'[s] = "baseline" /\ Admits(s, Newest(ledger))
              /\ mem'[s] = [mem[s] EXCEPT !.seen = Newest(ledger)]
    BY <1>2, InsideFacts DEF ReadLatest, Goto
  <2>2. Knows(planned, Newest(ledger), hist, pc'[s], mem'[s], txn'[s].row)
    <3>1. CASE pc'[s] = "unlock"
      BY <3>1, OutsideKnows
    <3>2. CASE pc'[s] = "baseline"
      BY <2>1, <3>2, InsideFacts
         DEF Admits, MidDeployment, PlanOf, Knows, BodyPoints, StagedPoints, Memories
    <3> QED
      BY <2>1, <3>1, <3>2
  <2> QED
    BY <1>0, <2>1, <2>2, SameLedgerMove
<1> QED
  BY <1>1, <1>2

\* What is accounted for stays so as the history grows.
LEMMA AccountedGrows ==
    ASSUME NEW art, NEW h, NEW g, NEW p, NEW schema, Accounted(art, h, p, schema),
           h.reported \subseteq g.reported, h.unchecked \subseteq g.unchecked
    PROVE  Accounted(art, g, p, schema)
BY DEF Accounted

\* The baseline of the plan is accounted for.
LEMMA BaseAccounted ==
    ASSUME NEW art, NEW h, NEW p PROVE Accounted(art, h, p, art[p].base)
BY DEF Accounted

\* The plan of a process that applies one, and its statements.
LEMMA PlanFacts ==
    ASSUME Inv, NEW s \in Sessions, mem[s].op = "apply"
    PROVE  /\ mem[s].plan \in Plans /\ StepsOf(s) = Steps[mem[s].plan]
           /\ Steps[mem[s].plan] \in Seq(Statements)
           /\ Len(Steps[mem[s].plan]) \in Nat
<1>1. mem[s].plan \in Plans
  BY DEF Inv, Control, AtPoint
<1> QED
  BY <1>1, StepsAssumption DEF StepsOf, PlanOf

\* The row of a compared checkpoint is accounted for: nobody is about to compare it.
LEMMA TopAccounted ==
    ASSUME Inv, Held, Order, NEW s \in Sessions, pc[s] \in Inside, pc[s] # "compare",
           Newest(ledger).staged # 0
    PROVE  Accounted(planned, hist, Newest(ledger).plan, Newest(ledger).schema)
<1>1. ~ \E t \in Sessions : pc[t] = "compare"
  BY Alone DEF Inside
<1> QED
  BY <1>1 DEF Order, Compared

LEMMA CheckBaselineOrder ==
    ASSUME Inv, Held, Order, NEW s \in Sessions, CheckBaseline(s) PROVE Order'
<1> DEFINE n == Newest(ledger)
           m == mem[s]
<1>0. /\ pc[s] = "baseline" /\ pc[s] \in Inside /\ UNCHANGED <<ledger, planned>>
      /\ m.op = "apply"
  BY InsideFacts DEF CheckBaseline, Inside, AtPoint, ApplyPoints
<1>1. CASE Fail(s) /\ UNCHANGED hist
  BY <1>0, <1>1, FailOrder
<1>2. CASE ~(Fail(s) /\ UNCHANGED hist)
  <2>0. /\ hist \in Histories /\ n \in Entries /\ m \in Memories /\ live \in Schemas
        /\ pc \in [Sessions -> Outside \cup Inside] /\ mem \in [Sessions -> Memories]
    BY NewestType DEF Inv, TypeOK
  <2>1. /\ BaselineHolds(s)
        /\ mem'[s] = [m EXCEPT !.prev = live, !.at = StartAt(s)]
        /\ pc'[s] = IF ~Staged(s) THEN "exec"
                    ELSE IF StartAt(s) = Len(StepsOf(s)) THEN "closing" ELSE "step"
        /\ hist' = IF m.flag THEN hist ELSE [hist EXCEPT !.ran[PlanOf(s)] = 0]
        /\ UNCHANGED txn
        /\ \A t \in Sessions \ {s} : pc'[t] = pc[t]
    BY <1>2, <2>0 DEF CheckBaseline, Goto
  <2>2. /\ m.plan \in Plans /\ StepsOf(s) = Steps[m.plan] /\ Len(Steps[m.plan]) \in Nat
    BY <1>0, PlanFacts
  <2>3. /\ m.seen = n /\ n # NoEntry
        /\ IF m.flag THEN n.staged # 0 /\ n.plan = m.plan ELSE n.staged = 0
        /\ m.flag => m.plan \in StagedPlans
    BY <1>0, InsideFacts DEF Knows, AtPoint
  <2>4. /\ hist'.reported = hist.reported /\ hist'.unchecked = hist.unchecked
        /\ hist'.ran \in [Plans -> Nat]
        /\ \A p \in Plans : hist'.ran[p] = IF ~m.flag /\ p = m.plan THEN 0 ELSE hist.ran[p]
    BY <2>0, <2>1, <2>2 DEF Histories, PlanOf
  <2>5. Ids'
    BY <1>0 DEF Order, Ids
  <2>6. Marks(planned', Newest(ledger'), hist')
    <3>1. Marks(planned, n, hist)
      BY DEF Order
    <3>2. n.staged # 0 => n.plan \in Plans /\ hist'.ran[n.plan] = hist.ran[n.plan]
      <4> SUFFICES ASSUME n.staged # 0 PROVE n.plan \in Plans /\ hist'.ran[n.plan] = hist.ran[n.plan]
        OBVIOUS
      <4>1. m.flag /\ n.plan = m.plan
        BY <2>3
      <4> QED
        BY <2>2, <2>4, <4>1
    <3>3. \A p \in Plans : hist'.ran[p] <= Len(Steps[p])
      BY <2>2, <2>4, <3>1 DEF Marks
    <3> QED
      BY <1>0, <3>1, <3>2, <3>3 DEF Marks
  <2>7. Compared(planned, Newest(ledger), hist)'
    BY <1>0, <2>3, <2>4, TopAccounted, AccountedGrows DEF Compared
  <2>8. \A e \in ledger' : StagedKept(planned', hist', e)
    BY <1>0, <2>4, AccountedGrows DEF Order, StagedKept
  <2>9. Knows(planned', Newest(ledger'), hist', pc'[s], mem'[s], txn'[s].row)
    <3>1. CASE ~Staged(s)
      BY <1>0, <2>0, <2>1, <2>3, <3>1 DEF Staged, PlanOf, Knows, BodyPoints, StagedPoints, Memories
    <3>2. CASE Staged(s)
      <4>1. mem'[s].plan = m.plan /\ mem'[s].at = n.staged /\ mem'[s].prev = live
            /\ n.staged \in Nat
        BY <2>0, <2>1, <2>3 DEF StartAt, Memories, Entries
      <4>2. Accounted(planned', hist', m.plan, live)
        <5>1. Accounted(planned, hist, m.plan, live)
          <6>1. CASE m.flag
            BY <1>0, <2>1, <2>3, <6>1, TopAccounted DEF BaselineHolds, Expected
          <6>2. CASE ~m.flag
            BY <2>1, <6>2, BaseAccounted DEF BaselineHolds, Expected, PlanOf
          <6> QED
            BY <6>1, <6>2
        <5> QED
          BY <1>0, <2>4, <5>1, AccountedGrows
      <4>3. n.staged <= hist'.ran[m.plan]
        BY <2>2, <2>3, <2>4, <4>1 DEF Order, Marks
      <4>4. Silent(m.plan, n.staged, n.staged)
        BY <4>1 DEF Silent
      <4>5. pc'[s] \in {"closing", "step"} /\ (pc'[s] = "closing" => n.staged = Len(Steps[m.plan]))
        BY <2>1, <2>2, <2>3, <3>2 DEF StartAt
      <4> QED
        BY <1>0, <2>3, <4>1, <4>2, <4>3, <4>4, <4>5 DEF Knows, BodyPoints, StagedPoints
    <3> QED
      BY <3>1, <3>2
  <2> QED
    BY <1>0, <2>1, <2>5, <2>6, <2>7, <2>8, <2>9, InsideMove
<1> QED
  BY <1>1, <1>2

\* The transactional body up to its row.
LEMMA BodyOrder ==
    ASSUME Inv, Held, Order, NEW s \in Sessions, Exec(s) \/ ReadBack(s)
    PROVE  Order'
<1>0. /\ pc[s] \in {"exec", "readback"} /\ pc[s] \in Inside
      /\ UNCHANGED <<ledger, hist, planned>>
  BY DEF Exec, ReadBack, Inside
<1>1. CASE Fail(s)
  BY <1>0, <1>1, FailOrder
<1>2. CASE ~Fail(s)
  <2>1. /\ \A t \in Sessions \ {s} : pc'[t] = pc[t]
        /\ pc'[s] \in {"exec", "readback", "insert"}
        /\ mem'[s].op = mem[s].op /\ mem'[s].plan = mem[s].plan
    <3>1. CASE Exec(s)
      BY <1>2, <3>1, InsideFacts DEF Exec, Goto, Memories
    <3>2. CASE ReadBack(s)
      BY <1>2, <3>2, InsideFacts DEF ReadBack, Goto, Memories
    <3> QED
      BY <3>1, <3>2
  <2>2. Knows(planned, Newest(ledger), hist, pc'[s], mem'[s], txn'[s].row)
    BY <1>0, <2>1, InsideFacts DEF Knows, BodyPoints, StagedPoints
  <2> QED
    BY <1>0, <2>1, <2>2, SameLedgerMove
<1> QED
  BY <1>1, <1>2

\* The row of the transaction takes an id above every row's.
LEMMA InsertOrder ==
    ASSUME Inv, Held, Order, NEW s \in Sessions, Insert(s)
    PROVE  Order'
<1> DEFINE e == NewEntry(nextId, mem[s].op, mem[s].read, PlanOf(s), 0)
<1>0. /\ pc[s] = "insert" /\ pc[s] \in Inside
      /\ UNCHANGED <<ledger, hist, planned, mem>>
  BY DEF Insert, Inside
<1>1. e.id = nextId /\ e.kind = mem[s].op /\ e.plan = mem[s].plan
  BY DEF NewEntry, PlanOf
<1> HIDE DEF e
<1>2. /\ \A t \in Sessions \ {s} : pc'[t] = pc[t]
      /\ pc'[s] = "commit" /\ txn'[s].row = e
  BY InsideFacts DEF Insert, Goto, Transactions, e
<1>3. nextId \in Nat /\ nextId > Newest(ledger).id
  BY NewestAbove DEF Inv, TypeOK
<1>4. Knows(planned, Newest(ledger), hist, pc'[s], mem'[s], txn'[s].row)
  BY <1>0, <1>1, <1>2, <1>3, InsideFacts DEF Knows, BodyPoints, StagedPoints
<1> QED
  BY <1>0, <1>2, <1>4, SameLedgerMove

\* The reads of the commands that adopt a state, and of a report of data work.
LEMMA SurveyOrder ==
    ASSUME Inv, Held, Order, NEW s \in Sessions,
           \/ SurveySnapshot(s) \/ SurveyBaseline(s) \/ SurveyBootstrap(s)
           \/ Judge(s) \/ Evidence(s)
    PROVE  Order'
<1>0. /\ pc[s] \in {"survey", "judge", "evidence"} /\ pc[s] \in Inside
      /\ UNCHANGED <<ledger, hist, planned>>
  BY DEF SurveySnapshot, SurveyBaseline, SurveyBootstrap, Judge, Evidence, Inside
<1>1. CASE Fail(s)
  BY <1>0, <1>1, FailOrder
<1>2. CASE ~Fail(s)
  <2>1. /\ \A t \in Sessions \ {s} : pc'[t] = pc[t]
        /\ pc'[s] \in {"judge", "record", "insert", "readback", "exec"}
        /\ mem'[s].op # "apply"
        /\ pc'[s] = "record" /\ mem'[s].op = "datawork" =>
               Newest(ledger) # NoEntry /\ Newest(ledger).staged = 0
    <3>1. CASE SurveySnapshot(s)
      BY <1>2, <3>1, InsideFacts DEF SurveySnapshot, Goto, Memories
    <3>2. CASE SurveyBaseline(s)
      BY <1>2, <3>2, InsideFacts DEF SurveyBaseline, Goto, Memories
    <3>3. CASE SurveyBootstrap(s)
      BY <1>2, <3>3, InsideFacts DEF SurveyBootstrap, Goto
    <3>4. CASE Judge(s)
      BY <1>2, <3>4, InsideFacts DEF Judge, Goto, AtPoint
    <3>5. CASE Evidence(s)
      BY <1>2, <3>5, InsideFacts DEF Evidence, MidDeployment, Goto, AtPoint, Memories
    <3> QED
      BY <3>1, <3>2, <3>3, <3>4, <3>5
  <2>2. Knows(planned, Newest(ledger), hist, pc'[s], mem'[s], txn'[s].row)
    BY <2>1 DEF Knows, BodyPoints, StagedPoints
  <2> QED
    BY <1>0, <2>1, <2>2, SameLedgerMove
<1> QED
  BY <1>1, <1>2

\* Errors, and what follows an error up to its audit row.
LEMMA ErrorOrder ==
    ASSUME Inv, Held, Order, NEW s \in Sessions,
           StepFails(s) \/ BodyFails(s) \/ FailRead(s) \/ FailUnrecorded(s)
    PROVE  Order'
<1>0. /\ pc[s] # "compare" /\ pc[s] \in Inside
      /\ UNCHANGED <<ledger, hist, planned>>
  BY DEF StepFails, BodyFails, FailRead, FailUnrecorded, Inside
<1>1. CASE StepFails(s) \/ BodyFails(s)
  BY <1>0, <1>1, FailOrder DEF StepFails, BodyFails
<1>2. CASE FailRead(s) \/ FailUnrecorded(s)
  <2>1. /\ \A t \in Sessions \ {s} : pc'[t] = pc[t]
        /\ \/ pc'[s] = "unlock"
           \/ /\ pc'[s] = "failrecord" /\ Newest(ledger) # NoEntry
              /\ mem'[s].seen = Newest(ledger)
    BY <1>2, InsideFacts DEF FailRead, FailUnrecorded, Goto, Memories
  <2>2. Knows(planned, Newest(ledger), hist, pc'[s], mem'[s], txn'[s].row)
    BY <2>1 DEF Knows, BodyPoints, StagedPoints
  <2> QED
    BY <1>0, <2>1, <2>2, SameLedgerMove
<1> QED
  BY <1>1, <1>2

\* What a step may add to the history without touching the rows and what they say.
LEMMA HistoryMove ==
    ASSUME Inv, Held, Order, NEW s \in Sessions, pc[s] \in Inside,
           UNCHANGED <<ledger, planned>>,
           \A t \in Sessions \ {s} : pc'[t] = pc[t],
           hist.reported \subseteq hist'.reported, hist.unchecked \subseteq hist'.unchecked,
           Marks(planned, Newest(ledger), hist'),
           \/ pc[s] # "compare"
           \/ Newest(ledger).staged # 0 =>
                  Accounted(planned, hist', Newest(ledger).plan, Newest(ledger).schema),
           Knows(planned, Newest(ledger), hist', pc'[s], mem'[s], txn'[s].row)
    PROVE  Order'
<1>1. Ids'
  BY DEF Order, Ids
<1>2. Compared(planned, Newest(ledger), hist)'
  BY TopAccounted, AccountedGrows DEF Compared
<1>3. \A e \in ledger' : StagedKept(planned', hist', e)
  BY AccountedGrows DEF Order, StagedKept
<1> QED
  BY <1>1, <1>2, <1>3, InsideMove

\* A statement runs: the next one of the plan, after what the newest row counts.
LEMMA StepOrder ==
    ASSUME Inv, Held, Order, NEW s \in Sessions, Step(s)
    PROVE  Order'
<1> DEFINE n == Newest(ledger)
           m == mem[s]
           p == mem[s].plan
<1>0. /\ pc[s] = "step" /\ pc[s] \in Inside /\ UNCHANGED <<ledger, planned>>
      /\ m.op = "apply"
  BY InsideFacts DEF Step, Inside, AtPoint, ApplyPoints
<1>1. CASE Fail(s) /\ UNCHANGED hist
  BY <1>0, <1>1, FailOrder
<1>2. CASE ~(Fail(s) /\ UNCHANGED hist)
  <2>1. /\ m \in Memories /\ m.at \in Nat /\ m.at < Len(Steps[p]) /\ p \in Plans
        /\ n \in Entries /\ n.staged \in Nat /\ hist \in Histories
        /\ NextStep(s) = Steps[p][m.at + 1] /\ Len(Steps[p]) \in Nat
    BY <1>0, InsideFacts, PlanFacts, NextStepType, NewestType
       DEF NextStep, Memories, Entries, Inv, TypeOK
  <2>2. /\ mem'[s] = [m EXCEPT !.at = @ + 1]
        /\ pc'[s] = IF Steps[p][m.at + 1].scan = "add" THEN "step" ELSE "stepread"
        /\ hist' = [hist EXCEPT !.ran[p] = m.at + 1]
        /\ \A t \in Sessions \ {s} : pc'[t] = pc[t]
    BY <1>2, <2>1, InsideFacts DEF Step, Goto, PlanOf
  <2>3. /\ mem'[s].at = m.at + 1 /\ mem'[s].plan = p /\ mem'[s].prev = m.prev
    BY <2>1, <2>2 DEF Memories
  <2>4. /\ hist'.reported = hist.reported /\ hist'.unchecked = hist.unchecked
        /\ \A q \in Plans : hist'.ran[q] = IF q = p THEN m.at + 1 ELSE hist.ran[q]
    BY <2>1, <2>2 DEF Histories
  <2>5. /\ n # NoEntry /\ (n.staged = 0 \/ n.plan = p)
        /\ Accounted(planned, hist, p, m.prev)
        /\ n.staged <= m.at /\ Silent(p, n.staged, m.at)
    BY <1>0, InsideFacts DEF Knows, StagedPoints
  <2>6. Marks(planned, n, hist')
    <3>1. n.staged # 0 => planned[n.plan].known /\ n.staged <= hist'.ran[n.plan]
      BY <2>1, <2>4, <2>5 DEF Order, Marks
    <3>2. \A q \in Plans : hist'.ran[q] <= Len(Steps[q])
      BY <2>1, <2>4 DEF Order, Marks
    <3> QED
      BY <3>1, <3>2 DEF Marks
  <2>7. Accounted(planned, hist', p, m.prev)
    BY <2>4, <2>5, AccountedGrows
  <2>8. Steps[p][m.at + 1].scan = "add" => Silent(p, n.staged, m.at + 1)
    BY <2>1, <2>5 DEF Silent
  <2>9. Knows(planned, n, hist', pc'[s], mem'[s], txn'[s].row)
    <3>1. m.at + 1 <= hist'.ran[p] /\ (m.at + 1) - 1 = m.at /\ n.staged < m.at + 1
          /\ n.staged <= m.at + 1
      BY <2>1, <2>4, <2>5
    <3>2. CASE Steps[p][m.at + 1].scan = "add"
      BY <2>2, <2>3, <2>5, <2>7, <2>8, <3>1, <3>2 DEF Knows, BodyPoints, StagedPoints
    <3>3. CASE Steps[p][m.at + 1].scan # "add"
      BY <2>2, <2>3, <2>5, <2>7, <3>1, <3>3 DEF Knows, BodyPoints, StagedPoints
    <3> QED
      BY <3>2, <3>3
  <2> QED
    BY <1>0, <2>2, <2>4, <2>6, <2>9, HistoryMove
<1> QED
  BY <1>1, <1>2

LEMMA StepReadOrder ==
    ASSUME Inv, Held, Order, NEW s \in Sessions, StepRead(s)
    PROVE  Order'
<1>0. pc[s] = "stepread" /\ pc[s] \in Inside /\ UNCHANGED <<ledger, hist, planned>>
  BY DEF StepRead, Inside
<1>1. CASE Fail(s)
  BY <1>0, <1>1, FailOrder
<1>2. CASE ~Fail(s)
  <2>1. /\ \A t \in Sessions \ {s} : pc'[t] = pc[t]
        /\ pc'[s] = "checkpoint"
        /\ mem'[s].at = mem[s].at /\ mem'[s].plan = mem[s].plan /\ mem'[s].prev = mem[s].prev
    BY <1>2, InsideFacts DEF StepRead, Goto, Memories
  <2>2. Knows(planned, Newest(ledger), hist, pc'[s], mem'[s], txn'[s].row)
    BY <1>0, <2>1, InsideFacts DEF Knows, BodyPoints, StagedPoints
  <2> QED
    BY <1>0, <2>1, <2>2, SameLedgerMove
<1> QED
  BY <1>1, <1>2

\* The closing read: the plan's own objects as promised, the rest as last accounted for.
LEMMA ClosingOrder ==
    ASSUME Inv, Held, Order, NEW s \in Sessions, Closing(s)
    PROVE  Order'
<1> DEFINE p == mem[s].plan
<1>0. pc[s] = "closing" /\ pc[s] \in Inside /\ UNCHANGED <<ledger, hist, planned>>
  BY DEF Closing, Inside
<1>1. CASE Fail(s)
  BY <1>0, <1>1, FailOrder
<1>2. CASE ~Fail(s)
  <2>1. /\ \A t \in Sessions \ {s} : pc'[t] = pc[t]
        /\ pc'[s] = "close" /\ ClosingHolds(s) /\ mem'[s].read = live
        /\ mem'[s].at = mem[s].at /\ mem'[s].plan = p /\ mem'[s].prev = mem[s].prev
    BY <1>2, InsideFacts DEF Closing, Goto, Memories
  <2>2. Unmet(p, live) = {} /\ MovedOutside(p, mem[s].prev, live) = {}
    BY <2>1 DEF ClosingHolds, PlanOf
  <2>3. Accounted(planned, hist, p, mem[s].prev)
    BY <1>0, InsideFacts DEF Knows, StagedPoints
  <2>4. Accounted(planned, hist, p, live)
    BY <2>2, <2>3 DEF Accounted, MovedOutside
  <2>5. Knows(planned, Newest(ledger), hist, pc'[s], mem'[s], txn'[s].row)
    BY <1>0, <2>1, <2>2, <2>4, InsideFacts DEF Knows, BodyPoints, StagedPoints
  <2> QED
    BY <1>0, <2>1, <2>5, SameLedgerMove
<1> QED
  BY <1>1, <1>2

\* A checkpoint compared: what moved is refused and named, and the rest carries over.
LEMMA CompareOrder ==
    ASSUME Inv, Held, Order, NEW s \in Sessions, Compare(s)
    PROVE  Order'
<1> DEFINE n == Newest(ledger)
           m == mem[s]
           p == mem[s].plan
           moved == MovedOutside(p, m.prev, m.read)
<1>0. /\ pc[s] = "compare" /\ pc[s] \in Inside /\ UNCHANGED <<ledger, planned>>
      /\ m.op = "apply" /\ hist \in Histories /\ m \in Memories
  BY InsideFacts DEF Compare, Inside, AtPoint, ApplyPoints, Inv, TypeOK
<1>1. /\ n # NoEntry /\ n.staged = m.at /\ m.at # 0 /\ n.plan = p /\ n.schema = m.read
      /\ m.at <= hist.ran[p] /\ Accounted(planned, hist, p, m.prev)
  BY <1>0, InsideFacts DEF Knows, StagedPoints
<1>2. /\ \A t \in Sessions \ {s} : pc'[t] = pc[t]
      /\ \/ /\ moved = {} /\ hist' = hist /\ mem'[s] = [m EXCEPT !.prev = m.read]
            /\ pc'[s] = IF m.at = Len(Steps[p]) THEN "closing" ELSE "step"
         \/ /\ pc'[s] = "fail"
            /\ hist' = [hist EXCEPT !.reported = @ \cup ({p} \X moved)]
  BY <1>0, InsideFacts, PlanFacts DEF Compare, Goto, PlanOf, Fail, AfterError, Done
<1>3. /\ hist.reported \subseteq hist'.reported /\ hist'.unchecked = hist.unchecked
      /\ hist'.ran = hist.ran
      /\ \A o \in moved : hist' # hist => <<p, o>> \in hist'.reported
  BY <1>0, <1>2 DEF Histories
<1>4. Accounted(planned, hist', p, m.read)
  <2> SUFFICES ASSUME NEW o \in Objects \ Touched(p)
               PROVE  \/ m.read[o] = planned[p].base[o]
                      \/ <<p, o>> \in hist'.reported
                      \/ p \in hist'.unchecked
    BY DEF Accounted
  <2>1. CASE m.read[o] = m.prev[o]
    BY <1>1, <1>3, <2>1 DEF Accounted
  <2>2. CASE m.read[o] # m.prev[o]
    <3>1. o \in moved
      BY <2>2 DEF MovedOutside
    <3>2. <<p, o>> \in {p} \X moved
      BY <3>1
    <3> QED
      BY <1>0, <1>2, <3>1, <3>2 DEF Histories
  <2> QED
    BY <2>1, <2>2
<1>5. Marks(planned, n, hist')
  BY <1>3 DEF Order, Marks
<1>6. Knows(planned, n, hist', pc'[s], mem'[s], txn'[s].row)
  <2>1. CASE pc'[s] = "fail"
    BY <2>1, OutsideKnows
  <2>2. CASE pc'[s] # "fail"
    <3>1. /\ mem'[s].at = m.at /\ mem'[s].plan = p /\ mem'[s].prev = m.read
          /\ pc'[s] \in {"closing", "step"}
          /\ pc'[s] = "closing" => m.at = Len(Steps[p])
      BY <1>0, <1>2, <2>2 DEF Memories
    <3>2. Silent(p, m.at, m.at) /\ m.at <= m.at
      BY <1>0 DEF Silent, Memories
    <3> QED
      BY <1>1, <1>3, <1>4, <3>1, <3>2 DEF Knows, BodyPoints, StagedPoints
  <2> QED
    BY <2>1, <2>2
<1> QED
  BY <1>0, <1>1, <1>2, <1>3, <1>4, <1>5, <1>6, HistoryMove

\* A process inside appends a row, which becomes the newest.
LEMMA AppendMove ==
    ASSUME Inv, Held, Order, NEW s \in Sessions, pc[s] \in Inside, UNCHANGED planned,
           \A t \in Sessions \ {s} : pc'[t] = pc[t],
           NEW e \in Entries, Newest(ledger).id < e.id, ledger' = ledger \cup {e},
           hist.reported \subseteq hist'.reported, hist.unchecked \subseteq hist'.unchecked,
           Marks(planned, e, hist'),
           e.staged # 0 => \/ Accounted(planned, hist', e.plan, e.schema)
                           \/ pc'[s] = "compare",
           StagedKept(planned, hist', e),
           Knows(planned, e, hist', pc'[s], mem'[s], txn'[s].row)
    PROVE  Order' /\ Newest(ledger') = e
<1>0. ledger \in SUBSET Entries /\ \A f \in ledger : f.id < e.id
  BY NewestAbove DEF Inv, TypeOK, Entries
<1>1. Newest(ledger') = e
  BY <1>0, NewestAppended
<1>2. Ids'
  BY <1>0 DEF Order, Ids, Entries
<1>3. Compared(planned, Newest(ledger), hist)'
  BY <1>1 DEF Compared
<1>4. \A f \in ledger' : StagedKept(planned', hist', f)
  BY AccountedGrows DEF Order, StagedKept
<1> QED
  BY <1>1, <1>2, <1>3, <1>4, InsideMove

\* A committed transaction leaves a settled state.
LEMMA CommitOrder ==
    ASSUME Inv, Held, Order, NEW s \in Sessions, Commit(s)
    PROVE  /\ Order'
           /\ ledger' # ledger => Newest(ledger') = txn[s].row
<1> DEFINE e == txn[s].row
           n == Newest(ledger)
<1>0. /\ pc[s] = "commit" /\ pc[s] \in Inside /\ UNCHANGED planned /\ hist \in Histories
  BY DEF Commit, Inside, Inv, TypeOK
<1>1. CASE Fail(s) /\ UNCHANGED <<ledger, hist>>
  BY <1>0, <1>1, FailOrder
<1>2. CASE ~(Fail(s) /\ UNCHANGED <<ledger, hist>>)
  <2>1. /\ ledger' = ledger \cup {e} /\ pc'[s] = "unlock"
        /\ \A t \in Sessions \ {s} : pc'[t] = pc[t]
        /\ hist'.reported = hist.reported /\ hist'.unchecked = hist.unchecked
        /\ hist'.ran = hist.ran
    BY <1>0, <1>2, InsideFacts DEF Commit, Goto, Histories
  <2>2. /\ e \in Entries /\ e.staged = 0 /\ n.id < e.id
        /\ e.kind = mem[s].op /\ e.plan = mem[s].plan
        /\ mem[s].op = "apply" => mem[s].plan \notin StagedPlans
    BY <1>0, InsideFacts, NewestAbove DEF Knows, BodyPoints, Inv, TypeOK, Rows, Transactions, Entries
  <2> HIDE DEF e
  <2>3. Marks(planned, e, hist')
    BY <2>1, <2>2 DEF Order, Marks
  <2>4. StagedKept(planned, hist', e)
    BY <2>2 DEF StagedKept, Applied
  <2>5. Knows(planned, e, hist', pc'[s], mem'[s], txn'[s].row)
    BY <2>1, OutsideKnows
  <2> QED
    BY <1>0, <2>1, <2>2, <2>3, <2>4, <2>5, AppendMove DEF e
<1> QED
  BY <1>1, <1>2

\* A checkpoint counts one point more, and its writer compares it or stops over a pin.
LEMMA CheckpointOrder ==
    ASSUME Inv, Held, Order, Promised, NEW s \in Sessions, Checkpoint(s)
    PROVE  /\ Order'
           /\ Newest(ledger') = NewEntry(nextId, "staged", mem[s].read, PlanOf(s), mem[s].at)
<1> DEFINE e == NewEntry(nextId, "staged", mem[s].read, PlanOf(s), mem[s].at)
           n == Newest(ledger)
           p == mem[s].plan
<1>0. /\ pc[s] = "checkpoint" /\ pc[s] \in Inside /\ UNCHANGED <<planned, mem>>
      /\ hist \in Histories /\ mem[s] \in Memories /\ mem[s].op = "apply" /\ nextId \in Nat
  BY InsideFacts DEF Checkpoint, Inside, Inv, TypeOK, AtPoint, ApplyPoints
<1>1. /\ n.staged < mem[s].at /\ mem[s].at <= hist.ran[p]
      /\ Accounted(planned, hist, p, mem[s].prev)
      /\ planned[p].known /\ n.staged \in Nat /\ mem[s].at \in Nat
  BY <1>0, InsideFacts, NewestAbove
     DEF Knows, StagedPoints, Promised, Owes, Memories, Entries
<1>2. /\ ledger' = ledger \cup {e}
      /\ pc'[s] = IF PinsHeld(s) THEN "compare" ELSE "fail"
      /\ \A t \in Sessions \ {s} : pc'[t] = pc[t]
      /\ hist'.reported = hist.reported /\ hist'.ran = hist.ran
      /\ hist'.unchecked = IF PinsHeld(s) THEN hist.unchecked ELSE hist.unchecked \cup {p}
  BY <1>0, InsideFacts DEF Checkpoint, Append1, Goto, Histories, PlanOf
<1>3. /\ e \in Entries /\ e.id = nextId /\ e.kind = "staged" /\ e.staged = mem[s].at
      /\ e.plan = p /\ e.schema = mem[s].read
  BY <1>0, PlanFacts DEF NewEntry, Entries, Kinds, Memories, PlanOf
<1> HIDE DEF e
<1>4. Marks(planned, e, hist')
  BY <1>1, <1>2, <1>3 DEF Order, Marks
<1>5. StagedKept(planned, hist', e)
  BY <1>3 DEF StagedKept, Applied
<1>6. Accounted(planned, hist', p, mem[s].prev) /\ mem[s].at # 0
  BY <1>1, <1>2, AccountedGrows
<1>7. Knows(planned, e, hist', pc'[s], mem'[s], txn'[s].row)
  <2>1. CASE PinsHeld(s)
    <3>1. e # NoEntry
      BY <1>3, <1>6 DEF NoEntry
    <3> QED
      BY <1>0, <1>1, <1>2, <1>3, <1>6, <2>1, <3>1 DEF Knows, BodyPoints, StagedPoints
  <2>2. CASE ~PinsHeld(s)
    BY <1>2, <2>2, OutsideKnows
  <2> QED
    BY <2>1, <2>2
<1>8. Accounted(planned, hist', e.plan, e.schema) \/ pc'[s] = "compare"
  BY <1>2, <1>3 DEF Accounted
<1> QED
  BY <1>0, <1>2, <1>3, <1>4, <1>5, <1>7, <1>8, AppendMove, NewestAbove DEF e

\* The entry that closes a staged plan.
LEMMA CloseOrder ==
    ASSUME Inv, Held, Order, Promised, NEW s \in Sessions, Close(s)
    PROVE  /\ Order'
           /\ Newest(ledger') = NewEntry(nextId, "apply", mem[s].read, PlanOf(s), 0)
<1> DEFINE e == NewEntry(nextId, "apply", mem[s].read, PlanOf(s), 0)
           n == Newest(ledger)
           p == mem[s].plan
<1>0. /\ pc[s] = "close" /\ pc[s] \in Inside /\ UNCHANGED <<planned, mem>>
      /\ hist \in Histories /\ mem[s] \in Memories /\ mem[s].op = "apply" /\ nextId \in Nat
  BY InsideFacts DEF Close, Inside, Inv, TypeOK, AtPoint, ApplyPoints
<1>1. /\ Unmet(p, mem[s].read) = {} /\ Accounted(planned, hist, p, mem[s].read)
      /\ planned[p].known
  BY <1>0, InsideFacts DEF Knows, StagedPoints, Promised, Owes
<1>2. /\ ledger' = ledger \cup {e} /\ pc'[s] = "unlock"
      /\ \A t \in Sessions \ {s} : pc'[t] = pc[t]
      /\ hist'.reported = hist.reported /\ hist'.ran = hist.ran
      /\ hist'.unchecked = hist.unchecked
  BY <1>0, InsideFacts DEF Close, Append1, Goto, Histories
<1>3. /\ e \in Entries /\ e.id = nextId /\ e.staged = 0
      /\ e.plan = p /\ e.schema = mem[s].read
  BY <1>0, PlanFacts DEF NewEntry, Entries, Kinds, Memories, PlanOf
<1> HIDE DEF e
<1>4. Marks(planned, e, hist')
  BY <1>2, <1>3 DEF Order, Marks
<1>5. StagedKept(planned, hist', e)
  BY <1>1, <1>2, <1>3, AccountedGrows DEF StagedKept
<1>6. Knows(planned, e, hist', pc'[s], mem'[s], txn'[s].row)
  BY <1>2, OutsideKnows
<1> QED
  BY <1>0, <1>2, <1>3, <1>4, <1>5, <1>6, AppendMove, NewestAbove DEF e

\* The audit row of a failed attempt says of the environment what the newest row said.
LEMMA FailRecordOrder ==
    ASSUME Inv, Held, Order, NEW s \in Sessions, FailRecord(s)
    PROVE  /\ Order'
           /\ \/ /\ mem[s].op = "bootstrap"
                 /\ Newest(ledger') = NewEntry(nextId, "failed", EmptySchema, NoPlan, 0)
              \/ /\ Newest(ledger) # NoEntry
                 /\ Newest(ledger') = FailedCopy(Newest(ledger), nextId, PlanOf(s))
<1> DEFINE n == Newest(ledger)
           boot == NewEntry(nextId, "failed", EmptySchema, NoPlan, 0)
           copy == FailedCopy(n, nextId, PlanOf(s))
           e == IF mem[s].op = "bootstrap" THEN boot ELSE copy
<1>0. /\ pc[s] = "failrecord" /\ pc[s] \in Inside /\ UNCHANGED <<planned, hist>>
      /\ mem[s] \in Memories /\ nextId \in Nat /\ n \in Entries /\ n.id < nextId
      /\ mem[s].op # "bootstrap" => mem[s].seen = n /\ n # NoEntry
  BY InsideFacts, NewestAbove DEF FailRecord, Inside, Inv, TypeOK, Knows
<1>1. /\ ledger' = ledger \cup {e} /\ pc'[s] = "unlock"
      /\ \A t \in Sessions \ {s} : pc'[t] = pc[t]
  BY <1>0, InsideFacts DEF FailRecord, Append1, Goto
<1>2. /\ boot \in Entries /\ boot.id = nextId /\ boot.kind = "failed" /\ boot.staged = 0
  BY <1>0, ValuesAssumption DEF NewEntry, Entries, Kinds, Schemas, EmptySchema
<1>3. /\ copy \in Entries /\ copy.id = nextId /\ copy.kind = "failed"
      /\ copy.staged = n.staged /\ copy.schema = n.schema
      /\ n.staged # 0 => copy.plan = n.plan
  BY <1>0 DEF FailedCopy, Entries, Kinds, MidDeployment, PlanOf, Memories
<1> HIDE DEF boot, copy
<1>4. Marks(planned, e, hist')
  BY <1>0, <1>2, <1>3 DEF Order, Marks
<1>5. StagedKept(planned, hist', e)
  BY <1>2, <1>3 DEF StagedKept, Applied
<1>6. e.staged # 0 => Accounted(planned, hist', e.plan, e.schema)
  BY <1>0, <1>2, <1>3, TopAccounted
<1>7. Knows(planned, e, hist', pc'[s], mem'[s], txn'[s].row)
  BY <1>1, OutsideKnows
<1>8. e \in Entries /\ n.id < e.id
  BY <1>0, <1>2, <1>3
<1>9. Order' /\ Newest(ledger') = e
  BY <1>0, <1>1, <1>4, <1>5, <1>6, <1>7, <1>8, AppendMove
<1> QED
  BY <1>0, <1>9 DEF boot, copy

\* The row of a snapshot, a baseline or a report is a settled state, of no plan.
LEMMA RecordOrder ==
    ASSUME Inv, Held, Order, NEW s \in Sessions, Record(s)
    PROVE  /\ Order'
           /\ Newest(ledger') = Row(s) /\ Row(s) \in Entries /\ Row(s).staged = 0
<1> DEFINE e == Row(s)
<1>0. /\ pc[s] = "record" /\ pc[s] \in Inside /\ UNCHANGED planned
      /\ mem[s] \in Memories /\ nextId \in Nat /\ hist \in Histories
      /\ mem[s].op = "datawork" => mem[s].seen.staged = 0
  BY InsideFacts DEF Record, Inside, Inv, TypeOK, AtPoint
<1>1. /\ ledger' = ledger \cup {e} /\ pc'[s] = "unlock"
      /\ \A t \in Sessions \ {s} : pc'[t] = pc[t]
      /\ hist'.reported = hist.reported /\ hist'.ran = hist.ran
      /\ hist'.unchecked = hist.unchecked
  BY <1>0, InsideFacts DEF Record, Append1, Goto, Histories
<1>2. e \in Entries /\ e.id = nextId /\ e.staged = 0 /\ e.plan = NoPlan
  <2>1. CASE mem[s].op = "datawork"
    BY <1>0, <2>1 DEF Row, DataWorkCopy, Entries, Kinds, Memories, PlanOf
  <2>2. CASE mem[s].op # "datawork"
    BY <1>0, <2>2 DEF Row, NewEntry, Entries, Kinds, Memories
  <2> QED
    BY <2>1, <2>2
<1> HIDE DEF e
<1>3. Marks(planned, e, hist')
  BY <1>1, <1>2 DEF Order, Marks
<1>4. StagedKept(planned, hist', e)
  BY <1>2, PlansAssumption DEF StagedKept, Applied
<1>5. Knows(planned, e, hist', pc'[s], mem'[s], txn'[s].row)
  BY <1>1, OutsideKnows
<1>6. Newest(ledger).id < e.id
  BY <1>2, NewestAbove
<1> QED
  BY <1>0, <1>1, <1>2, <1>3, <1>4, <1>5, <1>6, AppendMove DEF e

\* What is known stays known as the accounts grow.
LEMMA KnowsGrows ==
    ASSUME NEW art, NEW n, NEW h, NEW g, NEW l, NEW m, NEW r, Knows(art, n, h, l, m, r),
           h.reported \subseteq g.reported, h.unchecked \subseteq g.unchecked, g.ran = h.ran
    PROVE  Knows(art, n, g, l, m, r)
<1>1. \A p, schema : Accounted(art, h, p, schema) => Accounted(art, g, p, schema)
  BY AccountedGrows
<1> QED
  BY <1>1 DEF Knows

\* A process moves to a point where it knows nothing, and the newest row stays.
LEMMA QuietMove ==
    ASSUME Inv, Order, NEW s \in Sessions, UNCHANGED planned,
           \A t \in Sessions \ {s} : pc'[t] = pc[t] /\ mem'[t] = mem[t] /\ txn'[t] = txn[t],
           pc'[s] \in Outside \cup {"latest", "survey", "evidence"},
           ledger' \subseteq ledger, Newest(ledger') = Newest(ledger),
           hist.reported \subseteq hist'.reported, hist.unchecked \subseteq hist'.unchecked,
           hist'.ran = hist.ran,
           pc[s] = "compare" => mem[s].plan \in hist'.unchecked
    PROVE  Order'
<1>1. Ids'
  BY DEF Order, Ids
<1>2. Marks(planned, Newest(ledger), hist)'
  BY DEF Order, Marks
<1>3. Compared(planned, Newest(ledger), hist)'
  <2> SUFFICES ASSUME Newest(ledger).staged # 0
               PROVE  \/ Accounted(planned, hist', Newest(ledger).plan, Newest(ledger).schema)
                      \/ \E t \in Sessions : pc'[t] = "compare"
    BY DEF Compared
  <2>1. CASE pc[s] = "compare"
    <3>1. Newest(ledger).plan = mem[s].plan
      BY <2>1, InsideFacts DEF Knows, StagedPoints
    <3> QED
      BY <2>1, <3>1 DEF Accounted
  <2>2. CASE pc[s] # "compare"
    BY <2>2, AccountedGrows DEF Order, Compared
  <2> QED
    BY <2>1, <2>2
<1>4. \A e \in ledger' : StagedKept(planned', hist', e)
  BY AccountedGrows DEF Order, StagedKept
<1>5. ASSUME NEW t \in Sessions
      PROVE  Knows(planned', Newest(ledger'), hist', pc'[t], mem'[t], txn'[t].row)
  <2>1. CASE t = s
    <3>1. pc'[s] \notin Inside \/ pc'[s] \in {"latest", "survey", "evidence"}
      BY DEF Outside, Inside
    <3> QED
      BY <2>1, <3>1, OutsideKnows
  <2>2. CASE t # s
    <3>1. Knows(planned, Newest(ledger), hist, pc[t], mem[t], txn[t].row)
      BY DEF Order
    <3> QED
      BY <2>2, <3>1, KnowsGrows
  <2> QED
    BY <2>1, <2>2
<1> QED
  BY <1>1, <1>2, <1>3, <1>4, <1>5 DEF Order

LEMMA QuietOrder ==
    ASSUME Inv, Order, Spared, NEW s \in Sessions,
           \/ \E j \in JobsNow : Start(s, j)
           \/ Lock(s) \/ LockBusy(s) \/ Unlock(s) \/ Probe(s)
           \/ PruneSelect(s) \/ PruneDelete(s) \/ Crash(s)
    PROVE  Order' /\ Newest(ledger') = Newest(ledger)
<1>0. /\ pc \in [Sessions -> Outside \cup Inside] /\ mem \in [Sessions -> Memories]
      /\ txn \in [Sessions -> Transactions] /\ hist \in Histories
  BY DEF Inv, TypeOK
<1>1. CASE \/ \E j \in JobsNow : Start(s, j)
           \/ Lock(s) \/ LockBusy(s) \/ Unlock(s) \/ Probe(s) \/ PruneSelect(s)
  <2>1. /\ UNCHANGED <<ledger, hist, planned, txn>> /\ pc[s] # "compare"
        /\ \A t \in Sessions \ {s} : pc'[t] = pc[t] /\ mem'[t] = mem[t]
    BY <1>0, <1>1 DEF Start, Lock, LockBusy, Unlock, Probe, PruneSelect, Goto
  <2>2. pc'[s] \in Outside \cup {"latest", "survey", "evidence"}
    <3>1. CASE \E j \in JobsNow : Start(s, j)
      BY <1>0, <3>1 DEF Start, Goto, Outside
    <3>2. CASE Lock(s) \/ LockBusy(s) \/ Unlock(s) \/ Probe(s) \/ PruneSelect(s)
      BY <1>0, <3>2 DEF Lock, LockBusy, Unlock, Probe, PruneSelect, Goto, Outside
    <3> QED
      BY <1>1, <3>1, <3>2
  <2> QED
    BY <2>1, <2>2, QuietMove
<1>2. CASE PruneDelete(s)
  <2>1. ledger' \in SUBSET ledger /\ Newest(ledger) \in ledger'
    BY <1>2, DeleteSparesNewest DEF PruneDelete
  <2>2. Newest(ledger') = Newest(ledger)
    BY <2>1, NewestStays DEF Order
  <2>3. /\ UNCHANGED <<hist, planned, txn>> /\ pc[s] # "compare" /\ pc'[s] \in Outside
        /\ \A t \in Sessions \ {s} : pc'[t] = pc[t] /\ mem'[t] = mem[t]
    BY <1>0, <1>2 DEF PruneDelete, Goto, Outside
  <2> QED
    BY <2>1, <2>2, <2>3, QuietMove
<1>3. CASE Crash(s)
  <2>1. /\ UNCHANGED <<ledger, planned>> /\ pc'[s] \in Outside
        /\ \A t \in Sessions \ {s} : pc'[t] = pc[t] /\ mem'[t] = mem[t] /\ txn'[t] = txn[t]
    BY <1>0, <1>3 DEF Crash, Goto, Outside
  <2>2. /\ hist'.reported = hist.reported /\ hist'.ran = hist.ran
        /\ hist'.unchecked = IF pc[s] = "compare" THEN hist.unchecked \cup {mem[s].plan}
                             ELSE hist.unchecked
    BY <1>0, <1>3 DEF Crash, Histories, PlanOf
  <2> QED
    BY <2>1, <2>2, QuietMove
<1> QED
  BY <1>1, <1>2, <1>3

\* A plan is written once: what is recorded or known of a written one stays.
LEMMA PlanDbOrder ==
    ASSUME Inv, Order, Promised, NEW p \in Plans, PlanDb(p)
    PROVE  Order'
<1>0. planned \in [Plans -> Artifacts]
  BY DEF Inv, TypeOK
<1>1. \A q \in Plans : planned[q].known => planned'[q] = planned[q]
  BY <1>0 DEF PlanDb
<1>2. UNCHANGED <<pc, mem, txn, ledger, hist>>
  BY DEF PlanDb
<1>3. \A h, schema : \A q \in Plans :
         planned[q].known /\ Accounted(planned, h, q, schema) => Accounted(planned', h, q, schema)
  BY <1>1 DEF Accounted
<1>4. Newest(ledger).staged # 0 => Newest(ledger).plan \in Plans
  BY NewestType DEF RowOK
<1>5. Marks(planned', Newest(ledger), hist)
  BY <1>1, <1>4 DEF Order, Marks
<1>6. Compared(planned', Newest(ledger), hist)
  BY <1>3, <1>4 DEF Order, Compared, Marks
<1>7. \A e \in ledger : StagedKept(planned', hist, e)
  BY <1>1, <1>3 DEF Order, StagedKept, Applied
<1>8. ASSUME NEW s \in Sessions
      PROVE  Knows(planned', Newest(ledger), hist, pc[s], mem[s], txn[s].row)
  <2>1. pc[s] \in StagedPoints => mem[s].plan \in Plans /\ planned[mem[s].plan].known
    BY DEF StagedPoints, Promised, Owes, Inv, Control, AtPoint, ApplyPoints
  <2>2. Knows(planned, Newest(ledger), hist, pc[s], mem[s], txn[s].row)
    BY DEF Order
  <2> QED
    BY <1>3, <2>1, <2>2 DEF Knows, StagedPoints
<1> QED
  BY <1>2, <1>5, <1>6, <1>7, <1>8 DEF Order, Ids, Compared

LEMMA OrderStep ==
    ASSUME Inv, Held, Spared, Promised, Order, [Next]_vars
    PROVE  Order'
<1>1. ASSUME NEW s \in Sessions, InsideStep(s) PROVE Order'
  <2>1. CASE ReadLatest(s) \/ CheckBaseline(s)
    BY <2>1, ReadLatestOrder, CheckBaselineOrder
  <2>2. CASE Exec(s) \/ ReadBack(s) \/ Insert(s) \/ Commit(s)
    BY <2>2, BodyOrder, InsertOrder, CommitOrder
  <2>3. CASE Step(s) \/ StepRead(s) \/ Compare(s) \/ Closing(s)
    BY <2>3, StepOrder, StepReadOrder, CompareOrder, ClosingOrder
  <2>4. CASE StepFails(s) \/ BodyFails(s) \/ FailRead(s) \/ FailUnrecorded(s)
    BY <2>4, ErrorOrder
  <2>5. CASE Checkpoint(s) \/ Close(s) \/ FailRecord(s) \/ Record(s)
    BY <2>5, CheckpointOrder, CloseOrder, FailRecordOrder, RecordOrder
  <2>6. CASE \/ SurveySnapshot(s) \/ SurveyBaseline(s) \/ SurveyBootstrap(s)
             \/ Judge(s) \/ Evidence(s)
    BY <2>6, SurveyOrder
  <2> QED
    BY <1>1, <2>1, <2>2, <2>3, <2>4, <2>5, <2>6 DEF InsideStep
<1>2. ASSUME NEW s \in Sessions,
             \/ \E j \in JobsNow : Start(s, j)
             \/ Lock(s) \/ LockBusy(s) \/ Unlock(s) \/ Probe(s)
             \/ PruneSelect(s) \/ PruneDelete(s) \/ Crash(s)
      PROVE  Order'
  BY <1>2, QuietOrder
<1>3. ASSUME NEW p \in Plans, PlanDb(p) PROVE Order'
  BY <1>3, PlanDbOrder
<1>4. CASE \/ \E h \in Operators : UnlockRead(h) \/ UnlockDelete(h)
           \/ \E o \in Objects \ Checks, v \in Values \ {NotValid} : Drift(o, v)
           \/ PinMove
           \/ UNCHANGED vars
  <2>1. UNCHANGED <<pc, mem, txn, planned, ledger, hist>>
    BY <1>4 DEF UnlockRead, UnlockDelete, Drift, PinMove, vars
  <2> QED
    BY <2>1 DEF Order, Ids, Compared
<1> QED
  BY <1>1, <1>2, <1>3, <1>4, NextCases

LEMMA InitOrder == Init => Held /\ Spared /\ Promised /\ Order
<1> SUFFICES ASSUME Init PROVE Held /\ Spared /\ Promised /\ Order
  OBVIOUS
<1>1. Held /\ Spared /\ Promised
  BY DEF Init, Held, Inside, Spared, Promised, Owes, StagedPoints, Fresh, NoJob
<1>2. Newest(ledger).staged = 0 /\ ledger = {}
  BY DEF Init, Newest, NoEntry
<1>3. \A p \in Plans : hist.ran[p] = 0 /\ Len(Steps[p]) \in Nat
  BY StepsAssumption DEF Init
<1>4. Marks(planned, Newest(ledger), hist)
  BY <1>2, <1>3 DEF Marks
<1>5. \A s \in Sessions : Knows(planned, Newest(ledger), hist, pc[s], mem[s], txn[s].row)
  BY OutsideKnows DEF Init, Inside
<1> QED
  BY <1>1, <1>2, <1>4, <1>5 DEF Order, Ids, Compared

\* One operator, who clears the locks of dead processes only: Order always holds.
LEMMA OrderAlways ==
    ASSUME OverrideLive = FALSE, \A g, h \in Operators : g = h
    PROVE  Spec => [](Inv /\ Held /\ Spared /\ Promised /\ Order)
<1>1. Init => Inv /\ Held /\ Spared /\ Promised /\ Order
  BY InitInv, InitOrder
<1>2. Inv /\ Held /\ Spared /\ Promised /\ Order /\ [Next]_vars =>
          (Inv /\ Held /\ Spared /\ Promised /\ Order)'
  BY NextInv, HeldStep, SparedStep, PromisedStep, OrderStep
<1> QED
  BY <1>1, <1>2, PTL DEF Spec

(***************************************************************************)
(* Over any sequence of runs, failures, deaths and resumes, a staged run   *)
(* about to execute statement k + 1 follows an execution of statement k in *)
(* the same deployment, and one that closes follows all of them: for every *)
(* plan, every number of processes and deaths, and any prunes beside them. *)
(***************************************************************************)
THEOREM StatementsRunInOrder ==
    ASSUME OverrideLive = FALSE, \A g, h \in Operators : g = h
    PROVE  Spec => []NoStatementSkipped
<1>1. Inv /\ Order => NoStatementSkipped
  <2> SUFFICES ASSUME Inv, Order, NEW s \in Sessions
               PROVE  /\ pc[s] = "step" => mem[s].at <= hist.ran[PlanOf(s)]
                      /\ pc[s] \in {"closing", "close"} =>
                             hist.ran[PlanOf(s)] = Len(Steps[PlanOf(s)])
    BY DEF NoStatementSkipped
  <2>1. pc[s] = "step" => mem[s].at <= hist.ran[PlanOf(s)]
    BY InsideFacts DEF Knows, StagedPoints, PlanOf
  <2>2. ASSUME pc[s] \in {"closing", "close"}
        PROVE  hist.ran[PlanOf(s)] = Len(Steps[PlanOf(s)])
    <3>1. mem[s].op = "apply"
      BY <2>2, InsideFacts DEF AtPoint, ApplyPoints
    <3>2. mem[s].at = Len(Steps[mem[s].plan]) /\ mem[s].at <= hist.ran[mem[s].plan]
      BY <2>2, InsideFacts DEF Knows, StagedPoints
    <3>3. mem[s].plan \in Plans /\ Len(Steps[mem[s].plan]) \in Nat
      BY <3>1, PlanFacts
    <3>4. hist.ran[mem[s].plan] <= Len(Steps[mem[s].plan]) /\ hist.ran[mem[s].plan] \in Nat
      BY <3>3 DEF Order, Marks, Inv, TypeOK, Histories
    <3> QED
      BY <3>2, <3>3, <3>4 DEF PlanOf
  <2> QED
    BY <2>1, <2>2
<1> QED
  BY <1>1, OrderAlways, PTL

(***************************************************************************)
(* The entry that says a plan was applied, staged or transactional, holds  *)
(* what the plan promised for what it touches and the approved baseline    *)
(* for the rest, but for what a refusal of that plan named and an operator *)
(* resumed over, and for checkpoints written and never compared.           *)
(***************************************************************************)
THEOREM EntriesKeepTheirPromise ==
    ASSUME OverrideLive = FALSE, \A g, h \in Operators : g = h
    PROVE  Spec => []AppliedAsPromised
<1>1. Promised /\ Order => AppliedAsPromised
  <2> SUFFICES ASSUME Promised, Order, NEW e \in ledger, Applied(e), NEW o \in Objects
               PROVE  IF o \in Touched(e.plan)
                        THEN e.schema[o] = Final(e.plan, o)
                        ELSE \/ e.schema[o] = planned[e.plan].base[o]
                             \/ <<e.plan, o>> \in hist.reported
                             \/ e.plan \in hist.unchecked
    BY DEF AppliedAsPromised
  <2>1. CASE e.plan \in StagedPlans
    <3>1. Unmet(e.plan, e.schema) = {} /\ Accounted(planned, hist, e.plan, e.schema)
      BY <2>1 DEF Order, StagedKept
    <3> QED
      BY <3>1 DEF Unmet, Accounted
  <2>2. CASE e.plan \notin StagedPlans
    BY <2>2 DEF Promised, RowPromise, KeepsPromise
  <2> QED
    BY <2>1, <2>2
<1> QED
  BY <1>1, OrderAlways, PTL

-----------------------------------------------------------------------------
(***************************************************************************)
(* Deploy implements Environment.                                          *)
(***************************************************************************)
\* The instance's operators on plans are the ledger's.
LEMMA SameOperators ==
    /\ \A p : Env!Touched(p) = Touched(p)
    /\ \A p, o : Env!Final(p, o) = Final(p, o)
    /\ \A p, schema : Env!Unmet(p, schema) = Unmet(p, schema)
    /\ Env!Schemas = Schemas
<1>1. \A p : Env!Touched(p) = Touched(p)
  BY DEF Env!Touched, Touched
<1>2. \A p, o : Env!Final(p, o) = Final(p, o)
  BY DEF Env!Final, Final
<1>3. \A p, schema : Env!Unmet(p, schema) = Unmet(p, schema)
  BY <1>1, <1>2 DEF Env!Unmet, Unmet
<1>4. Env!Schemas = Schemas
  BY DEF Env!Schemas, Schemas
<1> QED
  BY <1>1, <1>2, <1>3, <1>4

\* A step that leaves the newest row, the artifacts and the applied plans alone.
LEMMA EnvStutter ==
    ASSUME Newest(ledger') = Newest(ledger), (ledger' = {}) <=> (ledger = {}),
           UNCHANGED planned, hist'.applied = hist.applied
    PROVE  UNCHANGED Env!vars
<1>1. Recorded' = Recorded
  BY DEF Recorded
<1> QED
  BY <1>1 DEF Env!vars

\* What the environment sees of a row that has become the newest.
LEMMA RecordedRow ==
    ASSUME NEW e, ledger' # {}, Newest(ledger') = e
    PROVE  Recorded' = [known |-> TRUE, schema |-> e.schema, done |-> e.staged,
                        plan |-> IF e.staged # 0 THEN e.plan ELSE NoPlan]
BY DEF Recorded, MidDeployment

\* A settled row is one of the environment's settled states.
LEMMA SettledRow ==
    ASSUME NEW e \in Entries, ledger' # {}, Newest(ledger') = e, e.staged = 0,
           NEW schemas, e.schema \in schemas
    PROVE  Env!Settle(schemas)
<1>1. Recorded' = [known |-> TRUE, schema |-> e.schema, done |-> 0, plan |-> NoPlan]
  BY RecordedRow
<1> QED
  BY <1>1 DEF Env!Settle, Env!Recorded

\* An adopting row.
LEMMA AdoptRow ==
    ASSUME NEW e \in Entries, ledger' # {}, Newest(ledger') = e, e.staged = 0,
           UNCHANGED planned, hist'.applied = hist.applied
    PROVE  Env!Next
<1>1. Env!Settle(Env!Schemas)
  BY SettledRow, SameOperators DEF Entries
<1> QED
  BY <1>1 DEF Env!Next, Env!Adopt

\* The environment's state, in terms of the newest row.
LEMMA RecordedNow ==
    ASSUME Inv
    PROVE  /\ Recorded.known = (ledger # {})
           /\ Recorded.schema = Newest(ledger).schema
           /\ Recorded.done = Newest(ledger).staged
           /\ Newest(ledger).staged # 0 => Recorded.plan = Newest(ledger).plan
           /\ ledger # {} /\ Newest(ledger).staged = 0 => Env!Settled
BY DEF Recorded, MidDeployment, Env!Settled

\* A committed transaction: the whole plan over the state it is pinned to.
LEMMA CommitRefines ==
    ASSUME Inv, Held, Order, Promised, NEW s \in Sessions, Commit(s)
    PROVE  Env!Next \/ UNCHANGED Env!vars
<1> DEFINE e == txn[s].row
           n == Newest(ledger)
           p == mem[s].plan
<1>0. pc[s] = "commit" /\ UNCHANGED planned /\ hist \in Histories
  BY DEF Commit, Inv, TypeOK
<1>1. CASE ledger' = ledger /\ hist' = hist
  BY <1>0, <1>1, EnvStutter
<1>2. CASE ~(ledger' = ledger /\ hist' = hist)
  <2>1. /\ ledger' = ledger \cup {e}
        /\ hist'.applied = IF mem[s].op = "apply" THEN hist.applied \cup {p} ELSE hist.applied
    BY <1>0, <1>2 DEF Commit, Histories, PlanOf
  <2>2. /\ e \in Entries /\ e.staged = 0 /\ n.id < e.id
        /\ e.kind = mem[s].op /\ e.plan = p
        /\ mem[s].op = "apply" => n # NoEntry /\ n.staged = 0 /\ p \notin StagedPlans
    BY <1>0, InsideFacts, NewestAbove
       DEF Knows, BodyPoints, Inv, TypeOK, Rows, Transactions, Entries
  <2>3. e \notin ledger
    BY <2>2, NewestAbove DEF Entries
  <2>4. Newest(ledger') = e /\ ledger' # {}
    BY <2>1, <2>3, CommitOrder
  <2>5. CASE mem[s].op # "apply"
    BY <1>0, <2>1, <2>2, <2>4, <2>5, AdoptRow
  <2>6. CASE mem[s].op = "apply"
    <3>1. p \in Plans /\ ledger # {}
      BY <2>2, <2>6, PlanFacts, NewestAbove
    <3>2. planned[p].known /\ KeepsPromise(p, e.schema)
      BY <1>0, <2>2, <2>6, <3>1 DEF Promised, Owes, RowPromise, Applied
    <3> DEFINE want == [o \in Objects |-> IF o \in Env!Touched(p) THEN Env!Final(p, o)
                                          ELSE planned[p].base[o]]
    <3>3. e.schema = want
      BY <2>2, <3>2, SameOperators DEF KeepsPromise, Entries, Schemas
    <3>4. Env!Settle({want})
      BY <2>2, <2>4, <3>3, SettledRow
    <3>5. Env!Settled
      BY <2>2, <2>6, <3>1, RecordedNow
    <3>6. Env!Deploy(p)
      BY <1>0, <2>1, <2>2, <2>6, <3>1, <3>2, <3>4, <3>5 DEF Env!Deploy
    <3> QED
      BY <3>1, <3>6 DEF Env!Next
  <2> QED
    BY <2>5, <2>6
<1> QED
  BY <1>1, <1>2

\* The next point a plan records is the one the run has reached.
LEMMA NextPointReached ==
    ASSUME NEW p \in Plans, NEW k \in Nat, NEW i \in Nat, k < i, i <= Len(Steps[p]),
           Len(Steps[p]) \in Nat, Silent(p, k, i - 1), Steps[p][i].scan # "add"
    PROVE  Env!NextPoint(p, k) = i
<1> DEFINE Is(j) == /\ Steps[p][j].scan # "add"
                    /\ \A f \in (k + 1)..(j - 1) : Steps[p][f].scan = "add"
<1>1. i \in (k + 1)..Len(Steps[p]) /\ Is(i)
  BY DEF Silent
<1>2. \A j \in (k + 1)..Len(Steps[p]) : Is(j) => j = i
  <2> SUFFICES ASSUME NEW j \in (k + 1)..Len(Steps[p]), Is(j), j # i PROVE FALSE
    OBVIOUS
  <2>1. CASE j < i
    BY <2>1 DEF Silent
  <2>2. CASE i < j
    BY <2>2
  <2> QED
    BY <2>1, <2>2
<1>3. Env!NextPoint(p, k) = CHOOSE j \in (k + 1)..Len(Steps[p]) : Is(j)
  BY DEF Env!NextPoint
<1> HIDE DEF Is
<1> QED
  BY <1>1, <1>2, <1>3

\* A checkpoint: the staged plan goes on by one point.
LEMMA CheckpointRefines ==
    ASSUME Inv, Held, Order, Promised, NEW s \in Sessions, Checkpoint(s)
    PROVE  Env!Next
<1> DEFINE e == NewEntry(nextId, "staged", mem[s].read, PlanOf(s), mem[s].at)
           n == Newest(ledger)
           p == mem[s].plan
           at == mem[s].at
<1>0. /\ pc[s] = "checkpoint" /\ UNCHANGED planned /\ hist'.applied = hist.applied
      /\ mem[s] \in Memories /\ mem[s].op = "apply" /\ ledger' # {}
  BY InsideFacts DEF Checkpoint, Append1, Inv, TypeOK, AtPoint, ApplyPoints, Histories
<1>1. /\ n # NoEntry /\ (n.staged = 0 \/ n.plan = p)
      /\ n.staged < at /\ Silent(p, n.staged, at - 1) /\ Steps[p][at].scan # "add"
      /\ at <= Len(Steps[p])
    BY <1>0, InsideFacts DEF Knows, StagedPoints, AtPoint, Code
<1>2. /\ p \in Plans /\ Len(Steps[p]) \in Nat /\ n.staged \in Nat /\ at \in Nat
      /\ planned[p].known /\ p \in StagedPlans /\ mem[s].read \in Schemas
  BY <1>0, PlanFacts, NewestAbove DEF Promised, Owes, StagedPoints, Memories, Entries
<1>3. Env!NextPoint(p, n.staged) = at
  BY <1>1, <1>2, NextPointReached
<1>4. Recorded' = [known |-> TRUE, schema |-> mem[s].read, done |-> at, plan |-> p]
  <2>1. e.schema = mem[s].read /\ e.staged = at /\ e.plan = p /\ at # 0
    BY <1>1, <1>2 DEF NewEntry, PlanOf
  <2>2. Newest(ledger') = e
    BY CheckpointOrder
  <2> HIDE DEF e
  <2> QED
    BY <1>0, <2>1, <2>2, RecordedRow
<1>5. Recorded' \in Env!Recorded(Env!Schemas, Env!NextPoint(p, Recorded.done), p)
  BY <1>2, <1>3, <1>4, RecordedNow, SameOperators DEF Env!Recorded
<1>6. Env!Settled \/ Recorded.plan = p
  BY <1>1, RecordedNow, NewestAbove
<1>7. Recorded.done < Len(Steps[p])
  BY <1>1, <1>2, RecordedNow
<1>8. Env!Advance(p)
  BY <1>0, <1>2, <1>5, <1>6, <1>7 DEF Env!Advance
<1> QED
  BY <1>2, <1>8 DEF Env!Next

\* The closing entry: the staged plan ends, with what it touches as promised.
LEMMA CloseRefines ==
    ASSUME Inv, Held, Order, Promised, NEW s \in Sessions, Close(s)
    PROVE  Env!Next
<1> DEFINE e == NewEntry(nextId, "apply", mem[s].read, PlanOf(s), 0)
           n == Newest(ledger)
           p == mem[s].plan
<1>0. /\ pc[s] = "close" /\ UNCHANGED planned /\ hist'.applied = hist.applied \cup {p}
      /\ mem[s] \in Memories /\ mem[s].op = "apply" /\ ledger' # {}
  BY InsideFacts DEF Close, Append1, Inv, TypeOK, AtPoint, ApplyPoints, Histories, PlanOf
<1>1. /\ n # NoEntry /\ (n.staged = 0 \/ n.plan = p)
      /\ n.staged = Len(Steps[p]) /\ Unmet(p, mem[s].read) = {}
  BY <1>0, InsideFacts DEF Knows, StagedPoints
<1>2. /\ p \in Plans /\ planned[p].known /\ p \in StagedPlans /\ mem[s].read \in Schemas
  BY <1>0, PlanFacts DEF Promised, Owes, StagedPoints, Memories
<1>3. Recorded' = [known |-> TRUE, schema |-> mem[s].read, done |-> 0, plan |-> NoPlan]
  <2>1. e.schema = mem[s].read /\ e.staged = 0
    BY DEF NewEntry
  <2>2. Newest(ledger') = e
    BY CloseOrder
  <2> HIDE DEF e
  <2> QED
    BY <1>0, <2>1, <2>2, RecordedRow
<1>4. Env!Settle(Env!Schemas)
  BY <1>2, <1>3, SameOperators DEF Env!Settle, Env!Recorded
<1>5. Env!Unmet(p, Recorded'.schema) = {}
  BY <1>1, <1>3, SameOperators
<1>6. (Env!Settled \/ Recorded.plan = p) /\ Recorded.done = Len(Steps[p])
  BY <1>1, RecordedNow, NewestAbove
<1>7. Env!Finish(p)
  BY <1>0, <1>2, <1>4, <1>5, <1>6 DEF Env!Finish
<1> QED
  BY <1>2, <1>7 DEF Env!Next

\* The audit row of an apply changes nothing the environment sees.
LEMMA FailRecordRefines ==
    ASSUME Inv, Held, Order, NEW s \in Sessions, FailRecord(s)
    PROVE  Env!Next \/ UNCHANGED Env!vars
<1> DEFINE n == Newest(ledger)
           boot == NewEntry(nextId, "failed", EmptySchema, NoPlan, 0)
           copy == FailedCopy(n, nextId, PlanOf(s))
<1>0. /\ UNCHANGED <<planned, hist>> /\ ledger' # {} /\ nextId \in Nat /\ n \in Entries
  BY NewestAbove DEF FailRecord, Append1, Inv, TypeOK
<1>1. CASE Newest(ledger') = boot
  <2>1. boot \in Entries /\ boot.staged = 0
    BY <1>0, ValuesAssumption DEF NewEntry, Entries, Kinds, Schemas, EmptySchema
  <2> HIDE DEF boot
  <2> QED
    BY <1>0, <1>1, <2>1, AdoptRow
<1>2. CASE n # NoEntry /\ Newest(ledger') = copy
  <2>1. copy.staged = n.staged /\ copy.schema = n.schema /\ (n.staged # 0 => copy.plan = n.plan)
    BY <1>0 DEF FailedCopy, Entries, MidDeployment
  <2>2. ledger # {}
    BY <1>2, NewestAbove
  <2> HIDE DEF copy
  <2>3. Recorded' = Recorded
    <3>1. Recorded = [known |-> TRUE, schema |-> n.schema, done |-> n.staged,
                      plan |-> IF n.staged # 0 THEN n.plan ELSE NoPlan]
      BY <2>2 DEF Recorded, MidDeployment
    <3> QED
      BY <1>0, <1>2, <2>1, <3>1, RecordedRow
  <2> QED
    BY <1>0, <2>3 DEF Env!vars
<1> QED
  BY <1>1, <1>2, FailRecordOrder

\* plan --db: a plan is pinned to a settled state.
LEMMA PlanDbRefines ==
    ASSUME Inv, NEW p \in Plans, PlanDb(p)
    PROVE  Env!Next
<1>0. /\ UNCHANGED <<ledger, hist>> /\ ~planned[p].known
      /\ planned' = [planned EXCEPT ![p] = [known |-> TRUE, base |-> live, pin |-> pin]]
      /\ planned \in [Plans -> Artifacts]
      /\ Newest(ledger) # NoEntry /\ Newest(ledger).staged = 0
      /\ live = Newest(ledger).schema
  BY DEF PlanDb, PlanAdmits, MidDeployment, Inv, TypeOK
<1>1. Env!Settled /\ Recorded.schema = live /\ Recorded' = Recorded
  BY <1>0, RecordedNow, NewestAbove DEF Recorded
<1> DEFINE view == [q \in Plans |-> [known |-> planned[q].known, base |-> planned[q].base]]
<1>2. view' = [view EXCEPT ![p] = [known |-> TRUE, base |-> live]]
  BY <1>0
<1>3. Env!Plan(p)
  BY <1>0, <1>1, <1>2 DEF Env!Plan
<1> QED
  BY <1>3 DEF Env!Next

LEMMA StepRefines ==
    ASSUME Inv, Held, Spared, Promised, Order, [Next]_vars
    PROVE  [Env!Next]_(Env!vars)
<1>1. ASSUME NEW s \in Sessions, InsideStep(s) PROVE Env!Next \/ UNCHANGED Env!vars
  <2>1. CASE Commit(s) \/ Checkpoint(s) \/ Close(s) \/ FailRecord(s)
    BY <2>1, CommitRefines, CheckpointRefines, CloseRefines, FailRecordRefines
  <2>2. CASE Record(s)
    <3>1. UNCHANGED planned /\ hist'.applied = hist.applied /\ ledger' # {}
      BY <2>2 DEF Record, Append1, Inv, TypeOK, Histories
    <3> QED
      BY <2>2, <3>1, RecordOrder, AdoptRow
  <2>3. CASE ~(Commit(s) \/ Checkpoint(s) \/ Close(s) \/ FailRecord(s) \/ Record(s))
    <3>1. UNCHANGED <<ledger, planned>>
      BY <1>1, <2>3 DEF InsideStep, ReadLatest, CheckBaseline, Exec, ReadBack, Insert, Step,
         StepFails, StepRead, Compare, Closing, FailRead, FailUnrecorded, BodyFails,
         SurveySnapshot, SurveyBaseline, SurveyBootstrap, Judge, Evidence
    <3>2. hist'.applied = hist.applied
      <4>1. hist \in Histories
        BY DEF Inv, TypeOK
      <4>2. CASE CheckBaseline(s)
        BY <4>1, <4>2 DEF CheckBaseline, Histories
      <4>3. CASE Step(s)
        BY <4>1, <4>3 DEF Step, Histories
      <4>4. CASE Compare(s)
        BY <4>1, <4>4 DEF Compare, Histories
      <4>5. CASE ~(CheckBaseline(s) \/ Step(s) \/ Compare(s))
        BY <1>1, <2>3, <4>5 DEF InsideStep, ReadLatest, Exec, ReadBack, Insert,
           StepFails, StepRead, Closing, FailRead, FailUnrecorded, BodyFails,
           SurveySnapshot, SurveyBaseline, SurveyBootstrap, Judge, Evidence
      <4> QED
        BY <4>2, <4>3, <4>4, <4>5
    <3> QED
      BY <3>1, <3>2, EnvStutter
  <2> QED
    BY <2>1, <2>2, <2>3
<1>2. ASSUME NEW s \in Sessions,
             \/ \E j \in JobsNow : Start(s, j)
             \/ Lock(s) \/ LockBusy(s) \/ Unlock(s) \/ Probe(s)
             \/ PruneSelect(s) \/ PruneDelete(s) \/ Crash(s)
      PROVE  UNCHANGED Env!vars
  <2>1. UNCHANGED planned /\ hist'.applied = hist.applied
    BY <1>2 DEF Start, Lock, LockBusy, Unlock, Probe, PruneSelect, PruneDelete, Crash,
                Inv, TypeOK, Histories
  <2>2. (ledger' = {}) <=> (ledger = {})
    BY <1>2, DeleteSparesNewest
       DEF Start, Lock, LockBusy, Unlock, Probe, PruneSelect, PruneDelete, Crash
  <2> QED
    BY <1>2, <2>1, <2>2, QuietOrder, EnvStutter
<1>3. ASSUME NEW p \in Plans, PlanDb(p) PROVE Env!Next
  BY <1>3, PlanDbRefines
<1>4. CASE \/ \E h \in Operators : UnlockRead(h) \/ UnlockDelete(h)
           \/ \E o \in Objects \ Checks, v \in Values \ {NotValid} : Drift(o, v)
           \/ PinMove
           \/ UNCHANGED vars
  <2>1. UNCHANGED <<planned, ledger, hist>>
    BY <1>4 DEF UnlockRead, UnlockDelete, Drift, PinMove, vars
  <2> QED
    BY <2>1, EnvStutter
<1> QED
  BY <1>1, <1>2, <1>3, <1>4, NextCases

LEMMA InitRefines == Init => Env!Init
<1> SUFFICES ASSUME Init PROVE Env!Init
  OBVIOUS
<1>1. Recorded = [known |-> FALSE, schema |-> EmptySchema, done |-> 0, plan |-> NoPlan]
  BY DEF Init, Recorded, Newest, NoEntry, MidDeployment
<1>2. Env!EmptySchema = EmptySchema
  BY DEF Env!EmptySchema, EmptySchema
<1> QED
  BY <1>1, <1>2 DEF Init, Env!Init

(***************************************************************************)
(* Whatever processes, failures, deaths and prunes interleave, the newest  *)
(* row of the ledger moves as one deployer at a time would move it: a plan *)
(* is pinned to a settled state, a transactional plan goes whole from the  *)
(* state it is pinned to, a staged plan goes on one checkpoint at a time,  *)
(* in order, and closes after its last statement with its promise kept.    *)
(***************************************************************************)
THEOREM DeployImplementsEnvironment ==
    ASSUME OverrideLive = FALSE, \A g, h \in Operators : g = h
    PROVE  Spec => RefinesEnvironment
<1>1. Init => Env!Init
  BY InitRefines
<1>2. Inv /\ Held /\ Spared /\ Promised /\ Order /\ [Next]_vars => [Env!Next]_(Env!vars)
  BY StepRefines
<1> QED
  BY <1>1, <1>2, OrderAlways, PTL DEF Spec, RefinesEnvironment, Env!Spec

-----------------------------------------------------------------------------
(***************************************************************************)
(* Nothing else runs between a checkpoint and the end of its deployment.   *)
(* A snapshot blesses the database as it stands, checkpoint or not, and a  *)
(* bootstrap never looks at the newest row: where neither is used, the     *)
(* newest row carries progress exactly while a deployment is open.         *)
(***************************************************************************)
OpenAt(n, h) == h.open = IF n.staged # 0 THEN n.plan ELSE NoPlan

Deployers == \A s \in Sessions : mem[s].op \notin {"snapshot", "bootstrap"}

Open == OpenAt(Newest(ledger), hist) /\ Deployers

LEMMA DeployersStep ==
    ASSUME Ops \cap {"snapshot", "bootstrap"} = {}, Inv, Deployers, [Next]_vars
    PROVE  Deployers'
<1>0. mem \in [Sessions -> Memories]
  BY DEF Inv, TypeOK
<1>1. ASSUME NEW s \in Sessions, NEW j \in JobsNow, Start(s, j) PROVE Deployers'
  <2>1. j.op \in Ops
    BY DEF JobsNow
  <2>2. mem' = [mem EXCEPT ![s] = Fresh(j)] /\ Fresh(j).op = j.op
    BY <1>1 DEF Start, Fresh
  <2> HIDE DEF Fresh
  <2> QED
    BY <1>0, <2>1, <2>2 DEF Deployers, Fresh
<1>2. ASSUME NEW s \in Sessions, InsideStep(s) PROVE Deployers'
  <2>1. \A t \in Sessions : mem'[t].op = mem[t].op
    <3>0. CASE ReadLatest(s) \/ CheckBaseline(s)
      <4>1. CASE ReadLatest(s)
        BY <1>0, <4>1 DEF ReadLatest, Fail, Memories
      <4>2. CASE CheckBaseline(s)
        <5>1. mem' = mem \/ mem' = [mem EXCEPT ![s].prev = live, ![s].at = StartAt(s)]
          BY <4>2 DEF CheckBaseline, Fail
        <5> QED
          BY <1>0, <5>1 DEF Memories
      <4> QED
        BY <3>0, <4>1, <4>2
    <3>1. CASE Exec(s) \/ ReadBack(s) \/ Insert(s) \/ Commit(s)
      BY <1>0, <3>1 DEF Exec, ReadBack, Insert, Commit, Fail, Memories
    <3>2. CASE Step(s) \/ StepFails(s) \/ StepRead(s) \/ Checkpoint(s) \/ Compare(s)
      BY <1>0, <3>2 DEF Step, StepFails, StepRead, Checkpoint, Compare, Fail, Memories
    <3>3. CASE \/ Closing(s) \/ Close(s) \/ FailRead(s) \/ FailRecord(s)
               \/ FailUnrecorded(s) \/ BodyFails(s)
      BY <1>0, <3>3 DEF Closing, Close, FailRead, FailRecord, FailUnrecorded, BodyFails,
                        Fail, Memories
    <3>4. CASE \/ SurveySnapshot(s) \/ SurveyBaseline(s) \/ SurveyBootstrap(s)
               \/ Judge(s) \/ Evidence(s) \/ Record(s)
      BY <1>0, <3>4 DEF SurveySnapshot, SurveyBaseline, SurveyBootstrap, Judge, Evidence,
                        Record, Fail, Memories
    <3> QED
      BY <1>2, <3>0, <3>1, <3>2, <3>3, <3>4 DEF InsideStep
  <2> QED
    BY <2>1 DEF Deployers
<1>3. ASSUME NEW s \in Sessions,
             \/ Lock(s) \/ LockBusy(s) \/ Unlock(s) \/ Probe(s)
             \/ PruneSelect(s) \/ PruneDelete(s) \/ Crash(s)
      PROVE  Deployers'
  <2>1. \A t \in Sessions : mem'[t].op = mem[t].op \/ mem'[t] = Fresh(NoJob)
    BY <1>0, <1>3 DEF Lock, LockBusy, Unlock, Probe, PruneSelect, PruneDelete, Crash, Memories
  <2>2. Fresh(NoJob).op = "prune"
    BY DEF Fresh, NoJob
  <2> QED
    BY <2>1, <2>2 DEF Deployers
<1>4. CASE \/ \E p \in Plans : PlanDb(p)
           \/ \E h \in Operators : UnlockRead(h) \/ UnlockDelete(h)
           \/ \E o \in Objects \ Checks, v \in Values \ {NotValid} : Drift(o, v)
           \/ PinMove
           \/ UNCHANGED vars
  BY <1>4 DEF PlanDb, UnlockRead, UnlockDelete, Drift, PinMove, vars, Deployers
<1> QED
  BY <1>1, <1>2, <1>3, <1>4, NextCases

\* A step that writes a row opens, carries on or closes a deployment.
LEMMA RowOpens ==
    ASSUME Inv, Held, Promised, Order, Open, NEW s \in Sessions,
           Commit(s) \/ Checkpoint(s) \/ Close(s) \/ FailRecord(s) \/ Record(s)
    PROVE  OpenAt(Newest(ledger'), hist')
<1> DEFINE n == Newest(ledger)
<1>0. /\ hist \in Histories /\ n \in Entries /\ OpenAt(n, hist) /\ mem[s] \in Memories
      /\ mem[s].op \notin {"snapshot", "bootstrap"}
      /\ Knows(planned, n, hist, pc[s], mem[s], txn[s].row) /\ AtPoint(pc[s], mem[s])
  BY InsideFacts, NewestAbove DEF Inv, TypeOK, Open, Deployers
<1>1. CASE Commit(s)
  <2>1. CASE ledger' = ledger
    <3>1. txn[s].row \notin ledger
      BY <1>0, <1>1, NewestAbove DEF Commit, Knows, Inv, TypeOK, Transactions, Entries
    <3>2. hist' = hist
      BY <1>1, <2>1, <3>1 DEF Commit
    <3> QED
      BY <1>0, <2>1, <3>2
  <2>2. CASE ledger' # ledger
    <3>1. Newest(ledger') = txn[s].row /\ txn[s].row.staged = 0
      BY <1>1, <2>2, CommitOrder DEF Inv, Rows
    <3>2. hist'.open = IF mem[s].op = "baseline" THEN NoPlan ELSE hist.open
      BY <1>0, <1>1, <2>2 DEF Commit, Histories
    <3>3. mem[s].op # "baseline" => n.staged = 0
      BY <1>0, <1>1 DEF Commit, Knows, BodyPoints, AtPoint
    <3> QED
      BY <1>0, <3>1, <3>2, <3>3 DEF OpenAt
  <2> QED
    BY <2>1, <2>2
<1>2. CASE Checkpoint(s)
  <2> DEFINE e == NewEntry(nextId, "staged", mem[s].read, PlanOf(s), mem[s].at)
  <2>1. Newest(ledger') = e /\ e.staged = mem[s].at /\ e.plan = PlanOf(s)
    BY <1>2, CheckpointOrder DEF NewEntry
  <2>2. mem[s].at # 0
    BY <1>0, <1>2 DEF Checkpoint, Knows, Memories, Entries
  <2>3. hist'.open = PlanOf(s)
    BY <1>0, <1>2 DEF Checkpoint, Histories
  <2> HIDE DEF e
  <2> QED
    BY <2>1, <2>2, <2>3 DEF OpenAt
<1>3. CASE Close(s)
  <2> DEFINE e == NewEntry(nextId, "apply", mem[s].read, PlanOf(s), 0)
  <2>1. Newest(ledger') = e /\ e.staged = 0
    BY <1>3, CloseOrder DEF NewEntry
  <2>2. hist'.open = NoPlan
    BY <1>0, <1>3 DEF Close, Histories
  <2> HIDE DEF e
  <2> QED
    BY <2>1, <2>2 DEF OpenAt
<1>4. CASE FailRecord(s)
  <2> DEFINE e == FailedCopy(n, nextId, PlanOf(s))
  <2>1. Newest(ledger') = e
    BY <1>0, <1>4, FailRecordOrder
  <2>2. e.staged = n.staged /\ (n.staged # 0 => e.plan = n.plan)
    BY <1>0 DEF FailedCopy, Entries, MidDeployment
  <2>3. hist' = hist
    BY <1>4 DEF FailRecord
  <2> HIDE DEF e
  <2> QED
    BY <1>0, <2>1, <2>2, <2>3 DEF OpenAt
<1>5. CASE Record(s)
  <2>1. Newest(ledger') = Row(s) /\ Row(s).staged = 0
    BY <1>5, RecordOrder
  <2>2. hist'.open = IF mem[s].op = "baseline" THEN NoPlan ELSE hist.open
    BY <1>0, <1>5 DEF Record, Histories
  <2>3. mem[s].op # "baseline" => n.staged = 0
    BY <1>0, <1>5 DEF Record, Knows, AtPoint
  <2> QED
    BY <1>0, <2>1, <2>2, <2>3 DEF OpenAt
<1> QED
  BY <1>1, <1>2, <1>3, <1>4, <1>5

LEMMA OpenStep ==
    ASSUME Ops \cap {"snapshot", "bootstrap"} = {},
           Inv, Held, Spared, Promised, Order, Open, [Next]_vars
    PROVE  Open'
<1>0. hist \in Histories /\ OpenAt(Newest(ledger), hist) /\ Deployers'
  BY DeployersStep DEF Open, Inv, TypeOK
<1>1. ASSUME NEW s \in Sessions, InsideStep(s) PROVE Open'
  <2>1. CASE Commit(s) \/ Checkpoint(s) \/ Close(s) \/ FailRecord(s) \/ Record(s)
    BY <1>0, <2>1, RowOpens DEF Open
  <2>2. CASE ~(Commit(s) \/ Checkpoint(s) \/ Close(s) \/ FailRecord(s) \/ Record(s))
    <3>1. ledger' = ledger
      BY <1>1, <2>2 DEF InsideStep, ReadLatest, CheckBaseline, Exec, ReadBack, Insert, Step,
         StepFails, StepRead, Compare, Closing, FailRead, FailUnrecorded, BodyFails,
         SurveySnapshot, SurveyBaseline, SurveyBootstrap, Judge, Evidence
    <3>2. hist'.open = hist.open
      <4>1. CASE CheckBaseline(s)
        BY <1>0, <4>1 DEF CheckBaseline, Histories
      <4>2. CASE Step(s)
        BY <1>0, <4>2 DEF Step, Histories
      <4>3. CASE Compare(s)
        BY <1>0, <4>3 DEF Compare, Histories
      <4>4. CASE ~(CheckBaseline(s) \/ Step(s) \/ Compare(s))
        BY <1>1, <2>2, <4>4 DEF InsideStep, ReadLatest, Exec, ReadBack, Insert,
           StepFails, StepRead, Closing, FailRead, FailUnrecorded, BodyFails,
           SurveySnapshot, SurveyBaseline, SurveyBootstrap, Judge, Evidence
      <4> QED
        BY <4>1, <4>2, <4>3, <4>4
    <3> QED
      BY <1>0, <3>1, <3>2 DEF Open, OpenAt
  <2> QED
    BY <2>1, <2>2
<1>2. ASSUME NEW s \in Sessions,
             \/ \E j \in JobsNow : Start(s, j)
             \/ Lock(s) \/ LockBusy(s) \/ Unlock(s) \/ Probe(s)
             \/ PruneSelect(s) \/ PruneDelete(s) \/ Crash(s)
      PROVE  Open'
  <2>1. hist'.open = hist.open
    BY <1>0, <1>2 DEF Start, Lock, LockBusy, Unlock, Probe, PruneSelect, PruneDelete, Crash,
                      Histories
  <2> QED
    BY <1>0, <1>2, <2>1, QuietOrder DEF Open, OpenAt
<1>3. CASE \/ \E p \in Plans : PlanDb(p)
           \/ \E h \in Operators : UnlockRead(h) \/ UnlockDelete(h)
           \/ \E o \in Objects \ Checks, v \in Values \ {NotValid} : Drift(o, v)
           \/ PinMove
           \/ UNCHANGED vars
  BY <1>0, <1>3 DEF PlanDb, UnlockRead, UnlockDelete, Drift, PinMove, vars, Open
<1> QED
  BY <1>1, <1>2, <1>3, NextCases

(***************************************************************************)
(* A staged deployment that has a checkpoint is followed by nothing but    *)
(* its own remaining statements until it is closed or a baseline is taken, *)
(* through every failure, death and resume, where no snapshot and no       *)
(* bootstrap is run (snapshot_mid shows what a snapshot does to it).       *)
(***************************************************************************)
THEOREM OnlyItsOwnStatements ==
    ASSUME OverrideLive = FALSE, \A g, h \in Operators : g = h,
           Ops \cap {"snapshot", "bootstrap"} = {}
    PROVE  Spec => []NothingElseRuns
<1>1. Init => Open
  BY DEF Init, Open, OpenAt, Deployers, Newest, NoEntry, Fresh, NoJob
<1>2. Inv /\ Held /\ Spared /\ Promised /\ Order /\ Open /\ [Next]_vars => Open'
  BY OpenStep
<1>3. Inv /\ Order /\ Open => NothingElseRuns
  <2> SUFFICES ASSUME Inv, Order, Open, NEW s \in Sessions,
                      pc[s] \in {"exec", "step"}, mem[s].op = "apply"
               PROVE  hist.open = NoPlan \/ (hist.open = PlanOf(s) /\ mem[s].at > 0)
    BY DEF NothingElseRuns
  <2>1. /\ Knows(planned, Newest(ledger), hist, pc[s], mem[s], txn[s].row)
        /\ mem[s].at \in Nat /\ Newest(ledger).staged \in Nat
    BY InsideFacts, NewestAbove DEF Memories, Entries
  <2> QED
    BY <2>1 DEF Open, OpenAt, Knows, BodyPoints, StagedPoints, PlanOf
<1> QED
  BY <1>1, <1>2, <1>3, OrderAlways, PTL DEF Spec

-----------------------------------------------------------------------------
(***************************************************************************)
(* Reports of data work.  The evidence is looked for in one step and the   *)
(* report written in another, and a prune may take the evidence away in    *)
(* between or after: what stays is that the plan was recorded as applied.  *)
(***************************************************************************)
RowEvidence(h, e) ==
    /\ Applied(e) => e.plan \in h.applied
    /\ e.kind = "data_work" => e.work \in h.applied /\ e.staged = 0

\* What a process at point l, with memory m and row r in its transaction, has seen.
Witnessed(h, l, m, r) ==
    /\ m.op = "datawork" => m.plan \in Plans
    /\ l = "record" /\ m.op = "datawork" => m.plan \in h.applied
    /\ l = "commit" => r.kind = m.op /\ r.plan = m.plan

Evidenced ==
    /\ \A e \in ledger : RowEvidence(hist, e)
    /\ \A s \in Sessions : Witnessed(hist, pc[s], mem[s], txn[s].row)

LEMMA EvidenceMove ==
    ASSUME Evidenced, NEW s \in Sessions, hist.applied \subseteq hist'.applied,
           \A t \in Sessions \ {s} : pc'[t] = pc[t] /\ mem'[t] = mem[t] /\ txn'[t] = txn[t],
           \A e \in ledger' : e \in ledger \/ RowEvidence(hist', e),
           Witnessed(hist', pc'[s], mem'[s], txn'[s].row)
    PROVE  Evidenced'
<1>1. \A e \in ledger' : RowEvidence(hist', e)
  BY DEF Evidenced, RowEvidence
<1>2. ASSUME NEW t \in Sessions PROVE Witnessed(hist', pc'[t], mem'[t], txn'[t].row)
  <2>1. CASE t = s
    BY <2>1
  <2>2. CASE t # s
    BY <2>2 DEF Evidenced, Witnessed
  <2> QED
    BY <2>1, <2>2
<1> QED
  BY <1>1, <1>2 DEF Evidenced

\* A step that keeps the command and its plan, and reaches neither a row nor a report.
LEMMA PlainEvidence ==
    ASSUME Inv, Evidenced, NEW s \in Sessions, hist.applied \subseteq hist'.applied,
           ledger' \subseteq ledger,
           \A t \in Sessions \ {s} : pc'[t] = pc[t] /\ mem'[t] = mem[t] /\ txn'[t] = txn[t],
           mem'[s].op = mem[s].op /\ mem'[s].plan = mem[s].plan,
           pc'[s] # "commit", pc'[s] = "record" => mem[s].op # "datawork"
    PROVE  Evidenced'
<1>1. Witnessed(hist', pc'[s], mem'[s], txn'[s].row)
  BY DEF Evidenced, Witnessed
<1> QED
  BY <1>1, EvidenceMove

\* A process ends, and forgets its command.
LEMMA EndsEvidence ==
    ASSUME Evidenced, NEW s \in Sessions, hist'.applied = hist.applied, ledger' \subseteq ledger,
           \A t \in Sessions \ {s} : pc'[t] = pc[t] /\ mem'[t] = mem[t] /\ txn'[t] = txn[t],
           mem'[s] = Fresh(NoJob), pc'[s] \in Outside
    PROVE  Evidenced'
<1>1. Witnessed(hist', pc'[s], mem'[s], txn'[s].row)
  BY DEF Witnessed, Fresh, NoJob, Outside
<1> QED
  BY <1>1, EvidenceMove

LEMMA FailEvidence ==
    ASSUME Inv, Evidenced, NEW s \in Sessions, Fail(s), UNCHANGED ledger,
           hist.applied \subseteq hist'.applied
    PROVE  Evidenced'
<1>1. pc'[s] \in {"fail", "failrecord", "unlock"} /\ mem' = mem
      /\ \A t \in Sessions \ {s} : pc'[t] = pc[t] /\ txn'[t] = txn[t]
  BY DEF Fail, Goto, AfterError, Inv, TypeOK
<1> QED
  BY <1>1, PlainEvidence

LEMMA StartEvidence ==
    ASSUME Inv, Evidenced, NEW s \in Sessions, NEW j \in JobsNow, Start(s, j)
    PROVE  Evidenced'
<1>1. j.op = "datawork" => j.plan \in Plans
  <2>1. CASE j \in [op: Ops \cap {"prune"}, plan: {NoPlan}, flag: {FALSE}, keep: Keeps]
    BY <2>1
  <2>2. CASE j \notin [op: Ops \cap {"prune"}, plan: {NoPlan}, flag: {FALSE}, keep: Keeps]
    BY <2>2 DEF JobsNow
  <2> QED
    BY <2>1, <2>2
<1>2. /\ pc'[s] \in {"select", "probe", "lock"} /\ mem'[s] = Fresh(j)
      /\ \A t \in Sessions \ {s} : pc'[t] = pc[t] /\ mem'[t] = mem[t]
      /\ UNCHANGED <<txn, ledger, hist>>
  BY DEF Start, Goto, Inv, TypeOK
<1>3. Witnessed(hist', pc'[s], mem'[s], txn'[s].row)
  BY <1>1, <1>2 DEF Witnessed, Fresh
<1> QED
  BY <1>2, <1>3, EvidenceMove

\* The reads and statements of the commands.
LEMMA WorkEvidence ==
    ASSUME Inv, Evidenced, NEW s \in Sessions,
           \/ ReadLatest(s) \/ CheckBaseline(s) \/ Exec(s) \/ ReadBack(s)
           \/ Step(s) \/ StepRead(s) \/ Compare(s) \/ Closing(s) \/ FailRead(s)
           \/ SurveySnapshot(s) \/ SurveyBaseline(s) \/ SurveyBootstrap(s) \/ Judge(s)
    PROVE  Evidenced'
<1>0. /\ pc \in [Sessions -> Outside \cup Inside] /\ mem \in [Sessions -> Memories]
      /\ txn \in [Sessions -> Transactions] /\ hist \in Histories
      /\ AtPoint(pc[s], mem[s])
  BY DEF Inv, TypeOK, Control
<1>1. ledger' = ledger
  BY DEF ReadLatest, CheckBaseline, Exec, ReadBack, Step, StepRead, Compare, Closing, FailRead,
         SurveySnapshot, SurveyBaseline, SurveyBootstrap, Judge
<1>2. hist'.applied = hist.applied
  <2>1. CASE CheckBaseline(s)
    BY <1>0, <2>1 DEF CheckBaseline, Histories
  <2>2. CASE Step(s)
    BY <1>0, <2>2 DEF Step, Histories
  <2>3. CASE Compare(s)
    BY <1>0, <2>3 DEF Compare, Histories
  <2>4. CASE ~(CheckBaseline(s) \/ Step(s) \/ Compare(s))
    BY <2>4 DEF ReadLatest, Exec, ReadBack, StepRead, Closing, FailRead,
                SurveySnapshot, SurveyBaseline, SurveyBootstrap, Judge
  <2> QED
    BY <2>1, <2>2, <2>3, <2>4
<1>3. CASE Fail(s)
  BY <1>1, <1>2, <1>3, FailEvidence
<1>4. CASE ~Fail(s)
  <2> DEFINE Goal ==
        /\ mem'[s].op = mem[s].op /\ mem'[s].plan = mem[s].plan
        /\ pc'[s] # "commit" /\ (pc'[s] = "record" => mem[s].op # "datawork")
        /\ \A t \in Sessions \ {s} : pc'[t] = pc[t] /\ mem'[t] = mem[t] /\ txn'[t] = txn[t]
  <2>1. Goal
    <3>1. CASE ReadLatest(s)
      BY <1>0, <1>4, <3>1 DEF ReadLatest, Goto, Memories
    <3>2. CASE CheckBaseline(s)
      <4>1. /\ mem' = [mem EXCEPT ![s].prev = live, ![s].at = StartAt(s)] /\ UNCHANGED txn
            /\ pc'[s] \in {"exec", "closing", "step"}
            /\ \A t \in Sessions \ {s} : pc'[t] = pc[t]
        BY <1>0, <1>4, <3>2 DEF CheckBaseline, Goto
      <4> QED
        BY <1>0, <4>1 DEF Memories
    <3>3. CASE Exec(s)
      BY <1>0, <1>4, <3>3 DEF Exec, Goto, Memories
    <3>4. CASE ReadBack(s)
      BY <1>0, <1>4, <3>4 DEF ReadBack, Goto, Memories
    <3>5. CASE Step(s)
      BY <1>0, <1>4, <3>5 DEF Step, Goto, Memories
    <3>6. CASE StepRead(s)
      BY <1>0, <1>4, <3>6 DEF StepRead, Goto, Memories
    <3>7. CASE Compare(s)
      BY <1>0, <1>4, <3>7 DEF Compare, Goto, Memories
    <3>8. CASE Closing(s)
      BY <1>0, <1>4, <3>8 DEF Closing, Goto, Memories
    <3>9. CASE FailRead(s)
      BY <1>0, <1>4, <3>9 DEF FailRead, Goto, Memories
    <3>10. CASE SurveySnapshot(s)
      BY <1>0, <1>4, <3>10 DEF SurveySnapshot, Goto, Memories
    <3>11. CASE SurveyBaseline(s)
      BY <1>0, <1>4, <3>11 DEF SurveyBaseline, Goto, Memories
    <3>12. CASE SurveyBootstrap(s)
      BY <1>0, <1>4, <3>12 DEF SurveyBootstrap, Goto, Memories
    <3>13. CASE Judge(s)
      BY <1>0, <1>4, <3>13 DEF Judge, Goto, AtPoint
    <3> QED
      BY <3>1, <3>2, <3>3, <3>4, <3>5, <3>6, <3>7, <3>8, <3>9, <3>10, <3>11, <3>12, <3>13
  <2> QED
    BY <1>1, <1>2, <2>1, PlainEvidence
<1> QED
  BY <1>3, <1>4

\* The evidence of a report is a retained entry of the plan.
LEMMA EvidenceEvidence ==
    ASSUME Inv, Evidenced, NEW s \in Sessions, Evidence(s)
    PROVE  Evidenced'
<1>0. /\ pc \in [Sessions -> Outside \cup Inside] /\ mem \in [Sessions -> Memories]
      /\ Witnessed(hist, pc[s], mem[s], txn[s].row) /\ AtPoint("evidence", mem[s])
      /\ UNCHANGED <<ledger, hist>>
  BY DEF Inv, TypeOK, Control, Evidenced, Evidence
<1>1. CASE Fail(s)
  BY <1>0, <1>1, FailEvidence
<1>2. CASE ~Fail(s)
  <2>1. /\ HasAppliedPlan(ledger, mem[s].plan) /\ pc'[s] = "record" /\ UNCHANGED txn
        /\ mem'[s].op = mem[s].op /\ mem'[s].plan = mem[s].plan
        /\ \A t \in Sessions \ {s} : pc'[t] = pc[t] /\ mem'[t] = mem[t]
    BY <1>0, <1>2 DEF Evidence, Goto, PlanOf, Memories
  <2>2. mem[s].plan \in hist.applied
    BY <1>0, <2>1 DEF HasAppliedPlan, Evidenced, RowEvidence, Applied, Witnessed, AtPoint
  <2>3. Witnessed(hist', pc'[s], mem'[s], txn'[s].row)
    BY <1>0, <2>1, <2>2 DEF Witnessed
  <2> QED
    BY <1>0, <2>1, <2>3, EvidenceMove
<1> QED
  BY <1>1, <1>2

\* The steps that prepare or write a row.
LEMMA RowsEvidence ==
    ASSUME Inv, Evidenced, NEW s \in Sessions,
           Insert(s) \/ Commit(s) \/ Checkpoint(s) \/ Close(s) \/ FailRecord(s) \/ Record(s)
    PROVE  Evidenced'
<1>0. /\ pc \in [Sessions -> Outside \cup Inside] /\ mem \in [Sessions -> Memories]
      /\ txn \in [Sessions -> Transactions] /\ hist \in Histories
      /\ Witnessed(hist, pc[s], mem[s], txn[s].row) /\ AtPoint(pc[s], mem[s])
  BY DEF Inv, TypeOK, Control, Evidenced
<1>1. CASE Insert(s)
  <2> DEFINE e == NewEntry(nextId, mem[s].op, mem[s].read, PlanOf(s), 0)
  <2>1. e.kind = mem[s].op /\ e.plan = mem[s].plan
    BY DEF NewEntry, PlanOf
  <2> HIDE DEF e
  <2>2. /\ txn'[s].row = e /\ pc'[s] = "commit" /\ UNCHANGED <<mem, ledger, hist>>
        /\ \A t \in Sessions \ {s} : pc'[t] = pc[t] /\ txn'[t] = txn[t]
    BY <1>0, <1>1 DEF Insert, Goto, Transactions, e
  <2>3. Witnessed(hist', pc'[s], mem'[s], txn'[s].row)
    BY <1>0, <2>1, <2>2 DEF Witnessed
  <2> QED
    BY <2>2, <2>3, EvidenceMove
<1>2. CASE Commit(s)
  <2>1. CASE Fail(s) /\ UNCHANGED <<ledger, hist>>
    BY <2>1, FailEvidence
  <2>2. CASE ~(Fail(s) /\ UNCHANGED <<ledger, hist>>)
    <3>1. /\ ledger' = ledger \cup {txn[s].row} /\ pc'[s] = "unlock" /\ mem' = mem
          /\ \A t \in Sessions \ {s} : pc'[t] = pc[t] /\ txn'[t] = txn[t]
          /\ hist'.applied = IF mem[s].op = "apply" THEN hist.applied \cup {mem[s].plan}
                             ELSE hist.applied
      BY <1>0, <1>2, <2>2 DEF Commit, Goto, PlanOf, Histories
    <3>2. /\ txn[s].row.kind = mem[s].op /\ txn[s].row.plan = mem[s].plan
          /\ mem[s].op \in {"apply", "bootstrap", "baseline"}
      BY <1>0, <1>2 DEF Commit, Witnessed, AtPoint
    <3>3. RowEvidence(hist', txn[s].row)
      BY <3>1, <3>2 DEF RowEvidence, Applied
    <3>4. Witnessed(hist', pc'[s], mem'[s], txn'[s].row)
      BY <1>0, <3>1 DEF Witnessed
    <3> QED
      BY <3>1, <3>3, <3>4, EvidenceMove
  <2> QED
    BY <2>1, <2>2
<1>3. CASE Checkpoint(s) \/ Close(s) \/ FailRecord(s) \/ Record(s)
  <2>1. /\ pc'[s] \in {"compare", "fail", "unlock"} /\ UNCHANGED <<mem, txn>>
        /\ \A t \in Sessions \ {s} : pc'[t] = pc[t]
    BY <1>0, <1>3 DEF Checkpoint, Close, FailRecord, Record, Goto
  <2>2. hist'.applied = IF Close(s) THEN hist.applied \cup {mem[s].plan} ELSE hist.applied
    <3>1. CASE Close(s)
      BY <1>0, <3>1 DEF Close, Histories, PlanOf
    <3>2. CASE ~Close(s)
      BY <1>0, <1>3, <3>2 DEF Checkpoint, FailRecord, Record, Histories
    <3> QED
      BY <3>1, <3>2
  <2>3. \A e \in ledger' : e \in ledger \/ RowEvidence(hist', e)
    <3>1. CASE Checkpoint(s)
      BY <3>1 DEF Checkpoint, Append1, NewEntry, RowEvidence, Applied
    <3>2. CASE Close(s)
      BY <2>2, <3>2 DEF Close, Append1, NewEntry, RowEvidence, Applied, PlanOf
    <3>3. CASE FailRecord(s)
      <4>1. FailedCopy(mem[s].seen, nextId, PlanOf(s)).kind = "failed"
        BY <1>0 DEF FailedCopy, Memories, Entries
      <4> QED
        BY <3>3, <4>1 DEF FailRecord, Append1, NewEntry, RowEvidence, Applied
    <3>4. CASE Record(s)
      <4>1. CASE mem[s].op = "datawork"
        <5> DEFINE e == DataWorkCopy(mem[s].seen, nextId, PlanOf(s))
        <5>1. e.kind = "data_work" /\ e.work = mem[s].plan /\ e.staged = mem[s].seen.staged
          BY <1>0 DEF DataWorkCopy, Memories, Entries, PlanOf
        <5>2. mem[s].plan \in hist.applied /\ mem[s].seen.staged = 0
          BY <1>0, <3>4, <4>1 DEF Record, Witnessed, AtPoint
        <5>3. ledger' = ledger \cup {e}
          BY <3>4, <4>1 DEF Record, Append1, Row
        <5> HIDE DEF e
        <5>4. RowEvidence(hist', e)
          BY <2>2, <5>1, <5>2 DEF RowEvidence, Applied
        <5> QED
          BY <5>3, <5>4
      <4>2. CASE mem[s].op # "datawork"
        <5>1. Row(s).kind # "data_work" /\ Row(s).plan = NoPlan
          BY <4>2 DEF Row, NewEntry
        <5> QED
          BY <3>4, <5>1, PlansAssumption DEF Record, Append1, RowEvidence, Applied
      <4> QED
        BY <4>1, <4>2
    <3> QED
      BY <1>3, <3>1, <3>2, <3>3, <3>4
  <2>4. Witnessed(hist', pc'[s], mem'[s], txn'[s].row)
    BY <1>0, <2>1 DEF Witnessed
  <2> QED
    BY <2>1, <2>2, <2>3, <2>4, EvidenceMove
<1> QED
  BY <1>1, <1>2, <1>3

LEMMA EvidencedStep ==
    ASSUME Inv, Evidenced, [Next]_vars
    PROVE  Evidenced'
<1>0. /\ pc \in [Sessions -> Outside \cup Inside] /\ mem \in [Sessions -> Memories]
      /\ txn \in [Sessions -> Transactions] /\ hist \in Histories
  BY DEF Inv, TypeOK
<1>1. ASSUME NEW s \in Sessions, InsideStep(s) PROVE Evidenced'
  <2>1. CASE StepFails(s) \/ BodyFails(s)
    BY <2>1, FailEvidence DEF StepFails, BodyFails
  <2>2. CASE FailUnrecorded(s)
    BY <1>0, <2>2, PlainEvidence DEF FailUnrecorded, Goto
  <2> QED
    BY <1>1, <2>1, <2>2, WorkEvidence, EvidenceEvidence, RowsEvidence DEF InsideStep
<1>2. ASSUME NEW s \in Sessions, NEW j \in JobsNow, Start(s, j) PROVE Evidenced'
  BY <1>2, StartEvidence
<1>3. ASSUME NEW s \in Sessions,
             \/ Lock(s) \/ LockBusy(s) \/ Unlock(s) \/ Probe(s)
             \/ PruneSelect(s) \/ PruneDelete(s) \/ Crash(s)
      PROVE  Evidenced'
  <2>1. /\ \A t \in Sessions \ {s} : pc'[t] = pc[t] /\ mem'[t] = mem[t] /\ txn'[t] = txn[t]
        /\ ledger' \subseteq ledger /\ hist'.applied = hist.applied
    BY <1>0, <1>3 DEF Lock, LockBusy, Unlock, Probe, PruneSelect, PruneDelete, Crash, Goto,
                      Histories
  <2>2. \/ mem'[s] = Fresh(NoJob) /\ pc'[s] \in Outside
        \/ /\ mem'[s].op = mem[s].op /\ mem'[s].plan = mem[s].plan
           /\ pc'[s] \in {"latest", "evidence", "survey", "lock", "delete"}
    BY <1>0, <1>3 DEF Lock, LockBusy, Unlock, Probe, PruneSelect, PruneDelete, Crash, Goto,
                      Outside, Memories
  <2> QED
    BY <2>1, <2>2, EndsEvidence, PlainEvidence
<1>4. CASE \/ \E p \in Plans : PlanDb(p)
           \/ \E h \in Operators : UnlockRead(h) \/ UnlockDelete(h)
           \/ \E o \in Objects \ Checks, v \in Values \ {NotValid} : Drift(o, v)
           \/ PinMove
           \/ UNCHANGED vars
  <2>1. UNCHANGED <<pc, mem, txn, ledger, hist>>
    BY <1>4 DEF PlanDb, UnlockRead, UnlockDelete, Drift, PinMove, vars
  <2> QED
    BY <2>1 DEF Evidenced
<1> QED
  BY <1>1, <1>2, <1>3, <1>4, NextCases

(***************************************************************************)
(* A report of data work names a plan that was recorded as applied here,   *)
(* for every number of processes and operators and whatever prunes run: no *)
(* assumption about the lock is made.                                      *)
(***************************************************************************)
THEOREM ReportsRestOnAnApply == Spec => []ReportHasEvidence
<1>1. Init => Evidenced
  BY DEF Init, Evidenced, Witnessed, Fresh, NoJob
<1>2. Inv /\ Evidenced /\ [Next]_vars => Evidenced'
  BY EvidencedStep
<1>3. Evidenced => ReportHasEvidence
  BY DEF Evidenced, RowEvidence, ReportHasEvidence, MidDeployment
<1> QED
  BY <1>1, <1>2, <1>3, InitInv, NextInv, PTL DEF Spec

-----------------------------------------------------------------------------
(***************************************************************************)
(* A baseline over a checkpoint.                                           *)
(***************************************************************************)
\* What changes the committed database: a commit, a staged statement, another session.
LEMMA OnlyTheseWrite ==
    ASSUME [Next]_vars, live' # live
    PROVE  \/ \E s \in Sessions : Commit(s) \/ Step(s) \/ StepFails(s)
           \/ \E o \in Objects \ Checks, v \in Values \ {NotValid} : Drift(o, v)
<1>1. ASSUME NEW s \in Sessions, InsideStep(s) PROVE Commit(s) \/ Step(s) \/ StepFails(s)
  BY <1>1 DEF InsideStep, ReadLatest, CheckBaseline, Exec, ReadBack, Insert, StepRead,
     Checkpoint, Compare, Closing, Close, FailRead, FailRecord, FailUnrecorded, BodyFails,
     SurveySnapshot, SurveyBaseline, SurveyBootstrap, Judge, Evidence, Record
<1>2. ASSUME NEW s \in Sessions,
             \/ \E j \in JobsNow : Start(s, j)
             \/ Lock(s) \/ LockBusy(s) \/ Unlock(s) \/ Probe(s)
             \/ PruneSelect(s) \/ PruneDelete(s) \/ Crash(s)
      PROVE  FALSE
  BY <1>2 DEF Start, Lock, LockBusy, Unlock, Probe, PruneSelect, PruneDelete, Crash
<1>3. CASE \/ \E p \in Plans : PlanDb(p)
           \/ \E h \in Operators : UnlockRead(h) \/ UnlockDelete(h)
           \/ PinMove
           \/ UNCHANGED vars
  BY <1>3 DEF PlanDb, UnlockRead, UnlockDelete, PinMove, vars
<1> QED
  BY <1>1, <1>2, <1>3, NextCases

\* While a baseline is inside the lock, only its own commit or another session writes.
LEMMA BaselineWrites ==
    ASSUME Inv, Held, Order, [Next]_vars, NEW s \in Sessions,
           pc[s] \in Inside, mem[s].op = "baseline", live' # live, left' = left
    PROVE  ~MidDeployment(Newest(ledger'))
<1>1. ASSUME NEW o \in Objects, NEW v \in Values, Drift(o, v) PROVE FALSE
  <2>1. left \in [commands: Nat, moves: Nat, crashes: Nat]
    BY DEF Inv, TypeOK
  <2>2. left' = [left EXCEPT !.moves = @ - 1]
    BY <1>1 DEF Drift
  <2>3. left'.moves = left.moves - 1 /\ left.moves \in Nat
    BY <2>1, <2>2
  <2> QED
    BY <2>3
<1>2. PICK t \in Sessions : Commit(t) \/ Step(t) \/ StepFails(t)
  BY <1>1, OnlyTheseWrite
<1>3. t = s
  BY <1>2, Alone DEF Commit, Step, StepFails, Inside
<1>4. Commit(s)
  BY <1>2, <1>3, InsideFacts DEF Step, StepFails, AtPoint, ApplyPoints
<1>5. /\ ledger' = ledger \cup {txn[s].row} /\ txn[s].row.staged = 0
      /\ txn[s].row.id > Newest(ledger).id
  BY <1>4, InsideFacts DEF Commit, Knows, Inv, Rows
<1>6. ledger' # ledger
  BY <1>5, NewestAbove DEF Inv, TypeOK, Transactions, Entries
<1> QED
  BY <1>4, <1>5, <1>6, CommitOrder DEF MidDeployment

(***************************************************************************)
(* A baseline over a checkpoint removes the temporary CHECKs and records   *)
(* that it did in one transaction: at no step of any process is one done   *)
(* and the other not.                                                      *)
(***************************************************************************)
THEOREM BaselineIsAtomic ==
    ASSUME OverrideLive = FALSE, \A g, h \in Operators : g = h
    PROVE  Spec => BaselineTakesAllOrNothing
<1>1. Inv /\ Held /\ Order /\ [Next]_vars =>
        [\A s \in Sessions :
           /\ pc[s] \in Inside /\ mem[s].op = "baseline"
           /\ MidDeployment(Newest(ledger)) /\ live = Newest(ledger).schema
           /\ left' = left
           => live' = live \/ ~MidDeployment(Newest(ledger'))]_vars
  BY BaselineWrites
<1> QED
  BY <1>1, OrderAlways, PTL DEF Spec, BaselineTakesAllOrNothing
=============================================================================
