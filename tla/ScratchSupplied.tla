--------------------------- MODULE ScratchSupplied ---------------------------
(* The supplied scratch layout on PostgreSQL: the runs of one account share one
   database.  A run takes the database's advisory lock, cleans what a dead
   run left, requires the database empty, makes its claim, unlocks, creates
   its objects and its cluster-wide roles, works and releases.  The claim is
   the run's record: the token, the roles, and the ACL the release restores. *)
EXTENDS Sessions, Naturals

CONSTANTS
  Nobody,
  Roles,                \* the cluster-wide roles one rehearsal makes
  MaxFaults             \* bound on kills, lost sessions, refusals, bad reads

ASSUME NobodyAssumption == Nobody \notin Runs
ASSUME FaultsAssumption == MaxFaults \in Nat

VARIABLES
  phase,                \* where each run's process is
  lock,                 \* the session that holds the advisory lock
  claim,                \* the pbps_claim schema: token and roles, or NoClaim
  contents,             \* the runs whose objects are in the database
  acl,                  \* the database's ACL: as found, or changed
  roles,                \* each run's roles in the cluster
  created,              \* the runs that know they have a claim to release
  doomed,               \* the roles each cleanup read from the claim
  left,                 \* the runs whose cleanup failed to remove something
  faults

database == <<claim, contents, acl, roles>>
vars == <<session, phase, lock, claim, contents, acl, roles, created, doomed, left, faults>>

NoClaim == [token |-> Nobody, roles |-> {}]

Recovering == {"read", "sessions"}
Claiming == {"check", "claim"}
Working == {"create", "record", "roles", "work"}
Cleaning == {"drop_owned", "restore", "drop_roles", "unclaim"}
Ended == {"gone", "killed"}
Phases == {"new", "lock"} \cup Recovering \cup Claiming \cup Working \cup Cleaning \cup Ended

Init ==
  /\ session = {}
  /\ phase = [r \in Runs |-> "new"]
  /\ lock = Nobody
  /\ claim = NoClaim
  /\ contents = {}
  /\ acl = "found"
  /\ roles = [r \in Runs |-> {}]
  /\ created = {}
  /\ doomed = [r \in Runs |-> NoClaim]
  /\ left = {}
  /\ faults = 0

Goto(r, p) == phase' = [phase EXCEPT ![r] = p]

\* A fault the environment may still inject.
Fault == faults < MaxFaults /\ faults' = faults + 1

\* A statement fails: the run's one session is gone, or the server refuses.
Refused(r) == (r \notin session /\ UNCHANGED faults) \/ Fault

\* Mutant of Unlock: an error before the claim leaves the lock to the session.
UnlockForgotten(r) == UNCHANGED lock

\* Scratch::unlock_database: released if held.
Unlock(r) == lock' = IF lock = r THEN Nobody ELSE lock

-----------------------------------------------------------------------------
(* recover_supplied, under the lock. *)

\* A run starts under a token of its own.
Fresh(r) ==
  /\ r \notin session \cup contents /\ roles[r] = {} /\ claim.token # r
  /\ \A s \in Runs: phase[s] \notin Ended => doomed[s].token # r

Connect(r) ==
  /\ phase[r] \in {"new"} \cup Ended /\ Fresh(r)
  /\ Goto(r, "lock")
  /\ session' = session \cup {r}
  /\ created' = created \ {r}
  /\ doomed' = [doomed EXCEPT ![r] = NoClaim]
  /\ left' = left \ {r}
  /\ UNCHANGED <<lock, database, faults>>

\* Mutant of LockFree: the run goes on whoever holds the lock.
LockFreeIgnored(r) == TRUE

LockFree(r) == lock \in {Nobody, r}

Lock(r) ==
  /\ phase[r] = "lock" /\ r \in session /\ LockFree(r)
  /\ lock' = r
  /\ Goto(r, "read")
  /\ UNCHANGED <<session, database, created, doomed, left, faults>>

\* The run ends without a claim: the wait for the lock ran out, or any
\* statement before the claim failed.
Refuse(r) ==
  /\ phase[r] \in {"lock"} \cup Recovering \cup Claiming
  /\ (phase[r] = "lock" /\ ~LockFree(r) /\ UNCHANGED faults) \/ Refused(r)
  /\ Unlock(r)
  /\ Goto(r, "gone")
  /\ UNCHANGED <<session, database, created, doomed, left>>

\* Mutant of ReadClaim: a claim is somebody's, whether or not they are gone.
ReadClaimRefuses(r) ==
  /\ phase[r] = "read" /\ r \in session
  /\ Goto(r, "check")
  /\ UNCHANGED <<session, lock, database, created, doomed, left, faults>>

ReadClaim(r) ==
  /\ phase[r] = "read" /\ r \in session
  /\ Goto(r, IF claim = NoClaim THEN "check" ELSE "sessions")
  /\ doomed' = [doomed EXCEPT ![r] = claim]
  /\ UNCHANGED <<session, lock, database, created, left, faults>>

\* The sweep of the one claim: a live run's refuses this run, a dead run's is
\* released, and one nothing is proved about is left to the emptiness check.
ReadSessions(r) ==
  /\ phase[r] = "sessions" /\ r \in session
  /\ \E seen \in Readings:
       LET liveness == Liveness(r, doomed[r].token, seen) IN
       /\ seen # session => Fault
       /\ seen = session => UNCHANGED faults
       /\ Goto(r, CASE liveness = "alive" -> "gone"
                    [] liveness = "dead" -> "drop_owned"
                    [] OTHER -> "check")
       /\ IF liveness = "alive" THEN Unlock(r) ELSE UNCHANGED lock
  /\ UNCHANGED <<session, database, created, doomed, left>>

-----------------------------------------------------------------------------
(* Scratch::supplied: the checks, the claim, the run's own objects. *)

\* refuse_foreign_objects: the claim schema is an object like any other.  A
\* database that is empty is put into its standard state.
Check(r) ==
  /\ phase[r] = "check" /\ r \in session
  /\ IF contents = {} /\ claim = NoClaim
     THEN Goto(r, "claim") /\ UNCHANGED lock
     ELSE Goto(r, "gone") /\ Unlock(r)
  /\ UNCHANGED <<session, database, created, doomed, left, faults>>

\* record::claim and the unlock after it; the run knows of its claim once the
\* commit is confirmed.
Claim(r) ==
  /\ phase[r] = "claim" /\ r \in session
  /\ IF claim = NoClaim
     THEN /\ claim' = [token |-> r, roles |-> {}]
          /\ created' = created \cup {r}
          /\ Goto(r, "create")
     ELSE /\ Goto(r, "gone")
          /\ UNCHANGED <<claim, created>>
  /\ Unlock(r)
  /\ UNCHANGED <<session, contents, acl, roles, doomed, left, faults>>

\* The claim is committed, the reply is lost: the run ends with nothing it
\* knows of to release.
ClaimUnconfirmed(r) ==
  /\ phase[r] = "claim" /\ r \in session /\ claim = NoClaim
  /\ Fault
  /\ claim' = [token |-> r, roles |-> {}]
  /\ Unlock(r)
  /\ Goto(r, "gone")
  /\ UNCHANGED <<session, contents, acl, roles, created, doomed, left>>

CreateObjects(r) ==
  /\ phase[r] = "create" /\ r \in session
  /\ contents' = contents \cup {r}
  /\ acl' = "changed"
  /\ Goto(r, "record")
  /\ UNCHANGED <<session, lock, claim, roles, created, doomed, left, faults>>

\* rehearsal_roles: recorded in the claim before they are made.  An account
\* that may not create roles makes none.
RecordRoles(r) ==
  /\ phase[r] = "record" /\ r \in session
  /\ \/ /\ claim # NoClaim
        /\ claim' = [claim EXCEPT !.roles = @ \cup Roles]
        /\ Goto(r, "roles")
     \/ Goto(r, "work") /\ UNCHANGED claim
  /\ UNCHANGED <<session, lock, contents, acl, roles, created, doomed, left, faults>>

CreateRole(r) ==
  /\ phase[r] = "roles" /\ r \in session
  /\ \E x \in Roles \ roles[r]:
       /\ roles' = [roles EXCEPT ![r] = @ \cup {x}]
       /\ Goto(r, IF roles'[r] = Roles THEN "work" ELSE "roles")
  /\ UNCHANGED <<session, lock, claim, contents, acl, created, doomed, left, faults>>

\* The resolution ends, or any statement of the run fails: release.  What the
\* run's recovery could not remove is not counted against its own cleanup.
Release(r) ==
  /\ phase[r] \in Working
  /\ (phase[r] = "work" /\ UNCHANGED faults) \/ Refused(r)
  /\ Goto(r, "drop_owned")
  /\ left' = left \ {r}
  /\ UNCHANGED <<session, lock, database, created, doomed>>

-----------------------------------------------------------------------------
(* release_supplied, for the run's own objects and for a dead run's.  Each
   transaction first proves that it is on the checked session.             *)

After(r) == IF r \in created THEN "gone" ELSE "check"

\* The cleanup stops, naming what may remain.
Stops(r) ==
  /\ phase[r] \in Cleaning
  /\ Refused(r)
  /\ left' = left \cup {r}
  /\ Goto(r, After(r))
  /\ UNCHANGED <<session, lock, database, created, doomed>>

\* Mutant of Dropped: the claim goes with everything the account owns.
DroppedWithClaim(r) == claim' = NoClaim

\* DROP OWNED takes the claim with the rest; it is put back before the commit.
Dropped(r) == UNCHANGED claim

DropOwned(r) ==
  /\ phase[r] = "drop_owned" /\ r \in session
  /\ \/ contents' = {} /\ UNCHANGED <<left, faults>>
     \/ Fault /\ left' = left \cup {r} /\ UNCHANGED contents
  /\ Dropped(r)
  /\ Goto(r, "restore")
  /\ UNCHANGED <<session, lock, acl, roles, created, doomed>>

\* The standard state, its verification and the claim's roles, in one
\* transaction.
Restore(r) ==
  /\ phase[r] = "restore" /\ r \in session
  /\ \/ acl' = "found" /\ UNCHANGED <<left, faults>>
     \/ Fault /\ left' = left \cup {r} /\ UNCHANGED acl
  /\ doomed' = [doomed EXCEPT ![r] = claim]
  /\ Goto(r, "drop_roles")
  /\ UNCHANGED <<session, lock, claim, contents, roles, created>>

\* cleanup_roles: a refused batch is tried one role at a time.
DropRoles(r) ==
  LET t == doomed[r].token IN
  /\ phase[r] = "drop_roles" /\ r \in session
  /\ \/ /\ roles' = [s \in Runs |-> IF s = t THEN roles[s] \ doomed[r].roles ELSE roles[s]]
        /\ UNCHANGED <<left, faults>>
     \/ /\ Fault
        /\ \E stay \in SUBSET doomed[r].roles:
             roles' = [s \in Runs |-> IF s = t THEN roles[s] \ (doomed[r].roles \ stay)
                                      ELSE roles[s]]
        /\ left' = left \cup {r}
  /\ Goto(r, "unclaim")
  /\ UNCHANGED <<session, lock, claim, contents, acl, created, doomed>>

\* The claim goes last, and only when nothing remains.
RemoveClaim(r) ==
  /\ phase[r] = "unclaim" /\ r \in session
  /\ claim' = IF r \in left THEN claim ELSE NoClaim
  /\ Goto(r, After(r))
  /\ UNCHANGED <<session, lock, contents, acl, roles, created, doomed, left, faults>>

-----------------------------------------------------------------------------
(* What happens to a run. *)

Kill(r) ==
  /\ phase[r] \notin {"new"} \cup Ended
  /\ Fault
  /\ Goto(r, "killed")
  /\ UNCHANGED <<session, lock, database, created, doomed, left>>

\* An ended session releases the lock it holds.
SessionEnds(r) ==
  /\ r \in session
  /\ IF phase[r] \in Ended THEN UNCHANGED faults ELSE Fault
  /\ session' = session \ {r}
  /\ lock' = IF lock = r THEN Nobody ELSE lock
  /\ UNCHANGED <<phase, database, created, doomed, left>>

Step(r) ==
  \/ Lock(r) \/ Refuse(r) \/ ReadClaim(r) \/ ReadSessions(r)
  \/ Check(r) \/ Claim(r) \/ ClaimUnconfirmed(r)
  \/ CreateObjects(r) \/ RecordRoles(r) \/ CreateRole(r) \/ Release(r)
  \/ Stops(r) \/ DropOwned(r) \/ Restore(r) \/ DropRoles(r) \/ RemoveClaim(r)

Next == \E r \in Runs: Connect(r) \/ Step(r) \/ Kill(r) \/ SessionEnds(r)

\* A process takes its next step, the server notices a client that is gone,
\* and some run is started again after the last.
Fairness ==
  /\ \A r \in Runs: WF_vars(Step(r))
  /\ \A r \in Runs: WF_vars(phase[r] \in Ended /\ SessionEnds(r))
  /\ \A r \in Runs: WF_vars(Connect(r))

Spec == Init /\ [][Next]_vars /\ Fairness

-----------------------------------------------------------------------------
(* Properties. *)

\* The lock is held by the session of a run between the lock and its claim,
\* or of a killed one; a run that ends itself has let go of it.
TypeOK ==
  /\ session \subseteq Runs
  /\ phase \in [Runs -> Phases]
  /\ lock \in {Nobody} \cup
       {r \in session: phase[r] \in Recovering \cup Claiming \cup Cleaning \cup {"killed"}}
  /\ claim \in [token: Runs, roles: SUBSET Roles] \cup {NoClaim}
  /\ contents \subseteq Runs
  /\ acl \in {"found", "changed"}
  /\ roles \in [Runs -> SUBSET Roles]
  /\ created \subseteq Runs
  /\ doomed \in [Runs -> [token: Runs, roles: SUBSET Roles] \cup {NoClaim}]
  /\ left \subseteq Runs
  /\ faults \in 0..MaxFaults

\* The claim outlives what it names: whatever a run left in the database or in
\* the cluster, a changed ACL included, is the claim's, so a kill anywhere
\* leaves a claim the next run finishes from (DEC-2410.1).
ClaimOutlives ==
  /\ contents \subseteq {claim.token}
  /\ \A t \in Runs: roles[t] # {} => claim.token = t /\ roles[t] \subseteq claim.roles
  /\ acl = "changed" => claim # NoClaim

\* No other run takes anything from a run at work in the database: two runs
\* that read the same dead claim would, the one that cleans second emptying
\* what the first, now live, made.
NothingTakenFromLive ==
  [][\A t \in Runs: t \in session /\ phase[t] \in Working =>
       /\ claim.token = t /\ claim'.token = t
       /\ t \in contents => t \in contents'
       /\ roles[t] \subseteq roles'[t]]_vars

\* The claim of a run that ended is removed by some later run, once the faults
\* stop.
DeadClaimGoes ==
  \A t \in Runs: (phase[t] \in Ended /\ claim.token = t) ~> (claim.token # t)
=============================================================================
