---------------------------- MODULE Environment -----------------------------
(***************************************************************************)
(* What the ledger promises about one environment, with no processes, no   *)
(* lock and no database: the recorded state moves from settled state to    *)
(* settled state, or through the checkpoints of one staged plan in order,  *)
(* and a plan is recorded as applied only with the state it promised.      *)
(***************************************************************************)
EXTENDS Ledger

CONSTANT StagedPlans

VARIABLES
    state,      \* the recorded state: known, schema, and progress of a plan
    pinned,     \* the plans written so far and the state each is pinned to
    closed      \* the plans recorded as applied

vars == <<state, pinned, closed>>

Init ==
    /\ state = [known |-> FALSE, schema |-> EmptySchema, done |-> 0, plan |-> NoPlan]
    /\ pinned = [p \in Plans |-> [known |-> FALSE, base |-> EmptySchema]]
    /\ closed = {}

Settled == state.known /\ state.done = 0

\* The recorded states over any of a set of schemas, k statements into plan p.
Recorded(schemas, k, p) ==
    [known : {TRUE}, schema : schemas, done : {k}, plan : {p}]

\* The recorded state becomes a settled one, with one of these schemas.
Settle(schemas) == state' \in Recorded(schemas, 0, NoPlan)

\* A plan is computed against a settled state and pinned to it, once.
Plan(p) ==
    /\ Settled
    /\ ~pinned[p].known
    /\ pinned' = [pinned EXCEPT ![p] = [known |-> TRUE, base |-> state.schema]]
    /\ UNCHANGED <<state, closed>>

\* The database as it stands becomes the recorded state.
Adopt ==
    /\ Settle(Schemas)
    /\ UNCHANGED <<pinned, closed>>

\* A transactional plan: all of it, over exactly the state it is pinned to.
Deploy(p) ==
    /\ p \notin StagedPlans
    /\ Settled
    /\ pinned[p].known
    /\ Settle({[o \in Objects |-> IF o \in Touched(p) THEN Final(p, o)
                                                      ELSE pinned[p].base[o]]})
    /\ closed' = closed \cup {p}
    /\ UNCHANGED pinned

\* The next statement of a plan after the k-th whose completion is recorded.
NextPoint(p, k) ==
    CHOOSE i \in (k + 1)..Len(Steps[p]) :
        /\ Steps[p][i].scan # "add"
        /\ \A j \in (k + 1)..(i - 1) : Steps[p][j].scan = "add"

\* A staged plan begins from a settled state, and goes on one checkpoint at a time.
Advance(p) ==
    /\ p \in StagedPlans
    /\ pinned[p].known
    /\ Settled \/ state.plan = p
    /\ state.done < Len(Steps[p])
    /\ state' \in Recorded(Schemas, NextPoint(p, state.done), p)
    /\ UNCHANGED <<pinned, closed>>

\* It ends after its last statement, at once if it has none, with everything it
\* touches as promised.
Finish(p) ==
    /\ p \in StagedPlans
    /\ pinned[p].known
    /\ Settled \/ state.plan = p
    /\ state.done = Len(Steps[p])
    /\ Settle(Schemas)
    /\ Unmet(p, state'.schema) = {}
    /\ closed' = closed \cup {p}
    /\ UNCHANGED pinned

Next ==
    \/ Adopt
    \/ \E p \in Plans : Plan(p) \/ Deploy(p) \/ Advance(p) \/ Finish(p)

Spec == Init /\ [][Next]_vars
=============================================================================
