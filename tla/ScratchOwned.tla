---------------------------- MODULE ScratchOwned ----------------------------
(* The run-owned scratch layout on PostgreSQL: a run connects, removes what
   killed runs left, creates a login, a database and roles that carry its
   token, works, and releases them.  Any run may be killed, and any session
   lost, between two statements.  The login is the run's record: a later run
   lists only the tokens that have one.                                     *)
EXTENDS Sessions, Naturals, Sequences

CONSTANTS
  Roles,                \* the run-local roles one run creates
  MaxFaults             \* bound on kills, lost sessions, refusals, bad reads

ASSUME FaultsAssumption == MaxFaults \in Nat

VARIABLES
  phase,                \* where each run's process is
  login,                \* the tokens that have a login
  database,             \* each run's database, and whether its login owns it
  roles,                \* each run's roles
  inside,               \* the runs with sessions in their own database
  left,                 \* the runs whose release failed to remove something
  todo,                 \* what each sweep still has to remove, by token
  raced,                \* the runs that created something a sweep's list lacks
  faults

cluster == <<login, database, roles>>
vars == <<session, phase, login, database, roles, inside, left, todo, raced, faults>>

\* The phases in the order a run goes through them.
Sweeping == {"list", "sessions", "remove"}
Creating == {"login", "database", "owner", "enter", "roles", "work"}
Releasing == {"drop_database", "drop_roles", "drop_login"}
Phases == {"new", "gone"} \cup Sweeping \cup Creating \cup Releasing

Nothing == [t \in Runs |-> <<>>]

Init ==
  /\ session = {}
  /\ phase = [r \in Runs |-> "new"]
  /\ login = {}
  /\ database = [r \in Runs |-> "none"]
  /\ roles = [r \in Runs |-> {}]
  /\ inside = {}
  /\ left = {}
  /\ todo = [r \in Runs |-> Nothing]
  /\ raced = {}
  /\ faults = 0

Goto(r, p) == phase' = [phase EXCEPT ![r] = p]

\* A fault the environment may still inject.
Fault == faults < MaxFaults /\ faults' = faults + 1

\* A statement on the run's admin session fails: the session is gone, or the
\* server refuses.
Refused(r) == (r \notin session /\ UNCHANGED faults) \/ Fault

Residue(t) == t \in login \/ database[t] # "none" \/ roles[t] # {}

-----------------------------------------------------------------------------
(* The sweep. *)

\* A run starts under a token of its own: nothing on the server carries it
\* and no sweep has it on its list.
Fresh(r) ==
  ~Residue(r) /\ r \notin session \cup inside /\ \A s \in Runs: todo[s][r] = <<>>

Connect(r) ==
  /\ phase[r] \in {"new", "gone"} /\ Fresh(r)
  /\ Goto(r, "list")
  /\ session' = session \cup {r}
  /\ left' = left \ {r}
  /\ raced' = raced \ {r}
  /\ UNCHANGED <<cluster, inside, todo, faults>>

\* What a token's run left, in removal order: the record is last.
Resources(t) ==
  (IF database[t] # "none" THEN <<[kind |-> "database", names |-> {}]>> ELSE <<>>)
    \o (IF roles[t] # {} THEN <<[kind |-> "role", names |-> roles[t]]>> ELSE <<>>)
    \o <<[kind |-> "login", names |-> {}]>>

\* Server::leftovers: every other token that has a login.
List(r) ==
  /\ phase[r] = "list" /\ r \in session
  /\ todo' = [todo EXCEPT ![r] =
       [t \in Runs |-> IF t # r /\ t \in login THEN Resources(t) ELSE <<>>]]
  /\ Goto(r, IF todo'[r] = Nothing THEN "login" ELSE "sessions")
  /\ UNCHANGED <<session, cluster, inside, left, raced, faults>>

\* The sessions are read after the listing; only the provably dead stay on
\* the list.
ReadSessions(r) ==
  /\ phase[r] = "sessions" /\ r \in session
  /\ \E seen \in Readings:
       /\ seen # session => Fault
       /\ seen = session => UNCHANGED faults
       /\ todo' = [todo EXCEPT ![r] =
            [t \in Runs |-> IF Liveness(r, t, seen) = "dead" THEN todo[r][t] ELSE <<>>]]
  /\ Goto(r, "remove")
  /\ UNCHANGED <<session, cluster, inside, left, raced>>

\* A sweep that could not look is a warning; the run goes on.
Unread(r) ==
  /\ phase[r] \in {"list", "sessions"}
  /\ Refused(r)
  /\ todo' = [todo EXCEPT ![r] = Nothing]
  /\ Goto(r, "login")
  /\ UNCHANGED <<session, cluster, inside, left, raced>>

\* The server refuses to drop a database in use (55006; the sweep never
\* forces) and a login that owns a database.
Droppable(t, kind) ==
  /\ kind = "database" => t \notin inside
  /\ kind = "login" => database[t] # "owned"

Drop(t, res) ==
  /\ login' = IF res.kind = "login" THEN login \ {t} ELSE login
  /\ database' = IF res.kind = "database" THEN [database EXCEPT ![t] = "none"] ELSE database
  /\ roles' = [roles EXCEPT ![t] = @ \ res.names]

Remove(r, t) ==
  LET res == Head(todo[r][t]) IN
  /\ phase[r] = "remove" /\ todo[r][t] # <<>> /\ r \in session
  /\ Droppable(t, res.kind)
  /\ Drop(t, res)
  /\ todo' = [todo EXCEPT ![r][t] = Tail(@)]
  /\ UNCHANGED <<session, phase, inside, left, raced, faults>>

\* Mutant of AfterFailure: the sweep goes on with the rest of the run's
\* resources.
AfterFailureGoesOn(rest) == Tail(rest)

\* After the first failure the rest of that run's resources are kept.
AfterFailure(rest) == <<>>

\* A removal that fails; a batch of roles can drop all but some.
RemoveFails(r, t) ==
  LET res == Head(todo[r][t]) IN
  /\ phase[r] = "remove" /\ todo[r][t] # <<>>
  /\ (~Droppable(t, res.kind) /\ UNCHANGED faults) \/ Refused(r)
  /\ \E gone \in SUBSET res.names:
       /\ gone # {} => gone # res.names /\ r \in session
       /\ roles' = [roles EXCEPT ![t] = @ \ gone]
  /\ todo' = [todo EXCEPT ![r][t] = AfterFailure(@)]
  /\ UNCHANGED <<session, phase, login, database, inside, left, raced>>

EndSweep(r) ==
  /\ phase[r] = "remove" /\ todo[r] = Nothing
  /\ Goto(r, "login")
  /\ UNCHANGED <<session, cluster, inside, left, todo, raced, faults>>

-----------------------------------------------------------------------------
(* Provisioning: create_scratch, then the sessions in the new database. *)

\* Something more of r's exists than a sweep that has listed r knows of.
Outdates(r) ==
  raced' = IF \E s \in Runs: todo[s][r] # <<>> THEN raced \cup {r} ELSE raced

CreateLogin(r) ==
  /\ phase[r] = "login" /\ r \in session
  /\ login' = login \cup {r}
  /\ Goto(r, "database")
  /\ UNCHANGED <<session, database, roles, inside, left, todo, raced, faults>>

CreateDatabase(r) ==
  /\ phase[r] = "database" /\ r \in session
  /\ database' = [database EXCEPT ![r] = "unowned"]
  /\ Goto(r, "owner")
  /\ Outdates(r)
  /\ UNCHANGED <<session, login, roles, inside, left, todo, faults>>

AlterOwner(r) ==
  /\ phase[r] = "owner" /\ r \in session
  /\ database' = [database EXCEPT ![r] = "owned"]
  /\ Goto(r, "enter")
  /\ UNCHANGED <<session, login, roles, inside, left, todo, raced, faults>>

\* The provisioning session is a connection of its own: it needs the
\* database, not the admin session.
Enter(r) ==
  /\ phase[r] = "enter" /\ database[r] # "none"
  /\ inside' = inside \cup {r}
  /\ Goto(r, "roles")
  /\ UNCHANGED <<session, cluster, left, todo, raced, faults>>

\* reconstruct, on the session inside, and rehearsal_roles: a batch of roles
\* is one statement.
CreateRoles(r) ==
  /\ phase[r] = "roles" /\ r \in inside
  /\ \E batch \in SUBSET (Roles \ roles[r]) \ {{}}:
       /\ roles' = [roles EXCEPT ![r] = @ \cup batch]
       /\ Goto(r, IF roles'[r] = Roles THEN "work" ELSE "roles")
  /\ Outdates(r)
  /\ UNCHANGED <<session, login, database, inside, left, todo, faults>>

Resolve(r) ==
  /\ phase[r] = "work"
  /\ Goto(r, "drop_database")
  /\ UNCHANGED <<session, cluster, inside, left, todo, raced, faults>>

\* Any statement of the provisioning or of the resolution fails: the run
\* releases what it recorded before it created anything.
ProvisionFails(r) ==
  /\ phase[r] \in Creating
  /\ \/ Refused(r)
     \/ phase[r] = "enter" /\ database[r] = "none" /\ UNCHANGED faults
     \/ phase[r] = "roles" /\ r \notin inside /\ UNCHANGED faults
  /\ Goto(r, "drop_database")
  /\ UNCHANGED <<session, cluster, inside, left, todo, raced>>

-----------------------------------------------------------------------------
(* release_run_owned: database, roles, login. *)

\* The run's own drop forces: it closes its sessions.
DropDatabase(r) ==
  /\ phase[r] = "drop_database" /\ r \in session
  /\ database' = [database EXCEPT ![r] = "none"]
  /\ inside' = inside \ {r}
  /\ Goto(r, "drop_roles")
  /\ UNCHANGED <<session, login, roles, left, todo, raced, faults>>

DropDatabaseFails(r) ==
  /\ phase[r] = "drop_database"
  /\ Refused(r)
  /\ left' = left \cup {r}
  /\ Goto(r, "drop_roles")
  /\ UNCHANGED <<session, cluster, inside, todo, raced>>

\* drop_roles: a refused batch is tried one role at a time, so any of them
\* may stay.
DropRoles(r) ==
  /\ phase[r] = "drop_roles"
  /\ \/ /\ r \in session
        /\ roles' = [roles EXCEPT ![r] = {}]
        /\ UNCHANGED <<left, faults>>
     \/ /\ Refused(r)
        /\ \E stay \in SUBSET roles[r]:
             /\ r \notin session => stay = roles[r]
             /\ roles' = [roles EXCEPT ![r] = stay]
        /\ left' = left \cup {r}
  /\ Goto(r, "drop_login")
  /\ UNCHANGED <<session, login, database, inside, todo, raced>>

\* The login is the record: it stays while anything else does.
KeepsLogin(r) == r \in left

DropLogin(r) ==
  /\ phase[r] = "drop_login"
  /\ \/ /\ ~KeepsLogin(r) /\ r \in session /\ database[r] # "owned"
        /\ login' = login \ {r}
        /\ UNCHANGED faults
     \/ /\ KeepsLogin(r) \/ database[r] = "owned"
        /\ UNCHANGED <<login, faults>>
     \/ Refused(r) /\ UNCHANGED login
  /\ Goto(r, "gone")
  /\ UNCHANGED <<session, database, roles, inside, left, todo, raced>>

-----------------------------------------------------------------------------
(* What happens to a run. *)

\* The process is killed between two statements.
Kill(r) ==
  /\ phase[r] \notin {"new", "gone"}
  /\ Fault
  /\ Goto(r, "gone")
  /\ todo' = [todo EXCEPT ![r] = Nothing]
  /\ UNCHANGED <<session, cluster, inside, left, raced>>

\* The server ends the admin session: its client is gone, or only cut off.
SessionEnds(r) ==
  /\ r \in session
  /\ IF phase[r] = "gone" THEN UNCHANGED faults ELSE Fault
  /\ session' = session \ {r}
  /\ UNCHANGED <<phase, cluster, inside, left, todo, raced>>

\* The sessions in the run's database end after their process.
InsideEnds(r) ==
  /\ r \in inside /\ phase[r] = "gone"
  /\ inside' = inside \ {r}
  /\ UNCHANGED <<session, phase, cluster, left, todo, raced, faults>>

Step(r) ==
  \/ List(r) \/ ReadSessions(r) \/ Unread(r)
  \/ \E t \in Runs: Remove(r, t) \/ RemoveFails(r, t)
  \/ EndSweep(r)
  \/ CreateLogin(r) \/ CreateDatabase(r) \/ AlterOwner(r) \/ Enter(r) \/ CreateRoles(r)
  \/ Resolve(r) \/ ProvisionFails(r)
  \/ DropDatabase(r) \/ DropDatabaseFails(r) \/ DropRoles(r) \/ DropLogin(r)

Next == \E r \in Runs: Connect(r) \/ Step(r) \/ Kill(r) \/ SessionEnds(r) \/ InsideEnds(r)

\* A process takes its next step, the server notices a client that is gone,
\* and some run is started again after the last.
Fairness ==
  /\ \A r \in Runs: WF_vars(Step(r))
  /\ \A r \in Runs: WF_vars(phase[r] = "gone" /\ (SessionEnds(r) \/ InsideEnds(r)))
  /\ \A r \in Runs: WF_vars(Connect(r))

Spec == Init /\ [][Next]_vars /\ Fairness

-----------------------------------------------------------------------------
(* Properties. *)

TypeOK ==
  /\ session \subseteq Runs
  /\ phase \in [Runs -> Phases]
  /\ login \subseteq Runs
  /\ database \in [Runs -> {"none", "unowned", "owned"}]
  /\ roles \in [Runs -> SUBSET Roles]
  /\ inside \subseteq {r \in Runs: database[r] = "owned"}
  /\ left \subseteq Runs
  /\ \A r, t \in Runs: \A i \in 1..Len(todo[r][t]):
       todo[r][t][i] \in [kind: {"database", "role", "login"}, names: SUBSET Roles]
  /\ raced \subseteq Runs
  /\ faults \in 0..MaxFaults

\* Nothing is taken from a run that still has a session, its named one or one
\* in its own database, except by its own release: removing a live run's
\* resources is the failure the sweep exists to prevent (recovery.rs).
NothingTakenFromRunning ==
  [][\A t \in Runs:
       t \in session \cup inside /\ phase[t] \notin Releasing =>
         /\ t \in login => t \in login'
         /\ database[t] # "none" => database'[t] # "none"
         /\ roles[t] \subseteq roles'[t]]_vars

\* The record outlives what it names (recovery.rs): a database or a role whose
\* token has no login is never listed again, so it would stay for good.  The
\* exception is a run that created something after a sweep had listed it and
\* has lost its session since: the sweep may then remove what it listed, the
\* record with it.  Every variable keeps its type with it.
RecordOutlivesUnraced ==
  /\ TypeOK
  /\ \A t \in Runs: (t \in raced => t \in session) /\ (database[t] # "none" \/ roles[t] # {})
       => t \in login
=============================================================================
