----------------------- MODULE ScratchSuppliedProofs -----------------------
(***************************************************************************)
(* Proofs about ScratchSupplied for every number of runs, roles and        *)
(* faults.  A run works in the shared database without a lock: what keeps  *)
(* a sweep off it is that a sweep holds the lock, was proved on one        *)
(* reading of the sessions, and concerns a token that cannot come back.    *)
(***************************************************************************)
EXTENDS ScratchSupplied, TLAPS

\* The run works under its own claim, or cleans it up.
Owns(r) == phase[r] \in Working \cup Cleaning /\ r \in created

\* The run recovers, checks and claims under the lock.
Sweeps(r) ==
  \/ phase[r] \in Recovering \cup Claiming
  \/ phase[r] \in Cleaning /\ r \notin created

Records == [token: Runs, roles: SUBSET Roles] \cup {NoClaim}

Types ==
  /\ session \subseteq Runs
  /\ phase \in [Runs -> Phases]
  /\ lock \in {Nobody} \cup Runs
  /\ claim \in Records
  /\ contents \subseteq Runs
  /\ acl \in {"found", "changed"}
  /\ roles \in [Runs -> SUBSET Roles]
  /\ created \subseteq Runs
  /\ doomed \in [Runs -> Records]
  /\ left \subseteq Runs
  /\ faults \in 0..MaxFaults

\* The lock is its holder's, and whoever sweeps holds it.
HolderOK(r) ==
  /\ lock = r => r \in session /\ (phase[r] = "killed" \/ Sweeps(r))
  /\ r \in session /\ Sweeps(r) => lock = r

\* A run knows whether it has a claim to release.
KnowingOK(r) ==
  /\ phase[r] \in {"lock"} \cup Recovering \cup Claiming => r \notin created
  /\ phase[r] \in Working => r \in created

\* The claim is the one the run read, or it has gone since.
SameOrGone(r) == claim = NoClaim \/ claim.token = doomed[r].token

\* What a run with a session knows of the database.
RunOK(r) ==
  /\ Owns(r) => claim.token = r
  /\ phase[r] = "sessions" => SameOrGone(r)
  /\ phase[r] \in Cleaning /\ r \notin created =>
       doomed[r].token \notin session /\ SameOrGone(r)
  /\ phase[r] = "roles" => Roles \subseteq claim.roles
  /\ phase[r] = "drop_roles" => doomed[r] = claim
  /\ r \notin left =>
       /\ phase[r] \in {"restore", "drop_roles", "unclaim"} => contents = {}
       /\ phase[r] \in {"drop_roles", "unclaim"} => acl = "found"
       /\ phase[r] = "unclaim" => \A t \in Runs: roles[t] = {}

IInv ==
  /\ Types
  /\ \A r \in Runs: HolderOK(r) /\ KnowingOK(r)
  /\ \A r \in session: RunOK(r)
  /\ ClaimOutlives

(***************************************************************************)
(* What one run's step leaves of the others.                               *)
(***************************************************************************)
Others(r) ==
  \A s \in Runs \ {r}:
    /\ phase'[s] = phase[s] /\ doomed'[s] = doomed[s]
    /\ (s \in created') = (s \in created)
    /\ (s \in left') = (s \in left)
    /\ (s \in session') = (s \in session)

LEMMA Move ==
  ASSUME IInv, NEW r \in Runs, Types', Others(r),
         lock' = lock \/ (lock \in {r, Nobody} /\ lock' \in {r, Nobody}),
         HolderOK(r)', KnowingOK(r)',
         r \in session' => RunOK(r)',
         \A s \in session \ {r}: RunOK(s)',
         ClaimOutlives'
  PROVE  IInv'
<1>1. ASSUME NEW s \in Runs PROVE HolderOK(s)' /\ KnowingOK(s)'
  <2>1. CASE s = r
    BY <2>1
  <2>2. CASE s # r
    BY <2>2, NobodyAssumption DEF IInv, HolderOK, KnowingOK, Others, Sweeps
  <2> QED
    BY <2>1, <2>2
<1>2. ASSUME NEW s \in session' PROVE RunOK(s)'
  <2>1. s \in Runs
    BY DEF Types
  <2> QED
    BY <2>1 DEF Others
<1> QED
  BY <1>1, <1>2 DEF IInv

\* The database is left alone.
LEMMA StillMove ==
  ASSUME IInv, NEW r \in Runs, Types', Others(r), UNCHANGED database,
         r \in session' => r \in session \/ Fresh(r),
         lock' = lock \/ (lock \in {r, Nobody} /\ lock' \in {r, Nobody}),
         HolderOK(r)', KnowingOK(r)',
         r \in session' => RunOK(r)'
  PROVE  IInv'
<1>1. ASSUME NEW s \in session \ {r} PROVE RunOK(s)'
  <2>0. RunOK(s) /\ s \in Runs /\ UNCHANGED <<claim, contents, acl, roles>>
        /\ phase'[s] = phase[s] /\ doomed'[s] = doomed[s]
        /\ (s \in created') = (s \in created) /\ (s \in left') = (s \in left)
    BY DEF IInv, Types, Others, database
  <2>1. phase[s] \in Cleaning => (doomed[s].token \in session' => doomed[s].token \in session)
    <3>1. session' \subseteq Runs
      BY DEF Types
    <3>2. Fresh(r) /\ phase[s] \in Cleaning => doomed[s].token # r
      BY <2>0 DEF Fresh, Cleaning, Ended
    <3> QED
      BY <3>1, <3>2 DEF Others
  <2> QED
    BY <2>0, <2>1 DEF RunOK, Owns, SameOrGone
<1>2. ClaimOutlives'
  BY DEF IInv, ClaimOutlives, database
<1> QED
  BY <1>1, <1>2, Move

\* Nobody else has a part in the database while a run cleans, claims or works.
LEMMA Lone ==
  ASSUME IInv, NEW r \in session,
         phase[r] \in Cleaning \cup Working \/ (phase[r] = "claim" /\ claim = NoClaim),
         NEW s \in session \ {r}
  PROVE  /\ phase[s] \notin Working \cup Cleaning
         /\ phase[s] = "sessions" => Owns(r)
<1>0. /\ r \in Runs /\ s \in Runs /\ Nobody \notin Runs /\ session \subseteq Runs
      /\ RunOK(r) /\ RunOK(s) /\ KnowingOK(s) /\ KnowingOK(r) /\ HolderOK(r) /\ HolderOK(s)
      /\ claim = NoClaim => claim.token = Nobody
  BY NobodyAssumption DEF IInv, Types, NoClaim
<1>1. Owns(r) \/ Sweeps(r)
  BY <1>0 DEF Owns, Sweeps, KnowingOK, Claiming
<1>2. CASE Owns(r)
  <2>1. claim.token = r
    BY <1>0, <1>2 DEF RunOK
  <2>2. ~Owns(s)
    BY <1>0, <2>1 DEF RunOK
  <2>3. ~(phase[s] \in Cleaning /\ s \notin created)
    BY <1>0, <2>1 DEF RunOK, SameOrGone
  <2> QED
    BY <1>0, <1>2, <2>2, <2>3 DEF Owns, KnowingOK
<1>3. CASE ~Owns(r)
  <2>1. lock = r /\ ~Sweeps(s)
    BY <1>0, <1>1, <1>3 DEF HolderOK
  <2>2. ~Owns(s)
    <3>1. claim = NoClaim \/ claim.token \notin session
      BY <1>0, <1>3 DEF RunOK, SameOrGone, Owns, KnowingOK
    <3> QED
      BY <1>0, <3>1 DEF RunOK
  <2> QED
    BY <1>0, <2>1, <2>2 DEF Owns, Sweeps, KnowingOK, Recovering
<1> QED
  BY <1>2, <1>3

\* A run with a part in the database writes to it.
LEMMA WriteMove ==
  ASSUME IInv, NEW r \in session,
         phase[r] \in Cleaning \cup Working \/ (phase[r] = "claim" /\ claim = NoClaim),
         Types', Others(r), session' = session,
         Owns(r) => claim' = NoClaim \/ claim'.token = claim.token,
         lock' = lock \/ (lock \in {r, Nobody} /\ lock' \in {r, Nobody}),
         HolderOK(r)', KnowingOK(r)', RunOK(r)', ClaimOutlives'
  PROVE  IInv'
<1>0. r \in Runs
  BY DEF IInv, Types
<1>1. ASSUME NEW s \in session \ {r} PROVE RunOK(s)'
  <2>0. /\ s \in Runs /\ RunOK(s) /\ phase'[s] = phase[s] /\ doomed'[s] = doomed[s]
        /\ RunOK(r)
    BY DEF IInv, Types, Others
  <2>1. phase[s] \notin Working \cup Cleaning /\ (phase[s] = "sessions" => Owns(r))
    BY Lone
  <2>2. phase[s] = "sessions" => SameOrGone(s)'
    BY <2>0, <2>1, NobodyAssumption DEF RunOK, SameOrGone, NoClaim, IInv, Types
  <2> QED
    BY <2>0, <2>1, <2>2 DEF RunOK, Owns, Working, Cleaning
<1> QED
  BY <1>0, <1>1, Move

-----------------------------------------------------------------------------
(***************************************************************************)
(* One lemma per action, or per group of actions that touch the same.      *)
(***************************************************************************)
LEMMA InitOK == Init => IInv
<1> SUFFICES ASSUME Init PROVE IInv
  OBVIOUS
<1>1. Types
  BY FaultsAssumption DEF Init, Types, Records, Phases
<1>2. \A r \in Runs: HolderOK(r) /\ KnowingOK(r)
  BY NobodyAssumption
     DEF Init, HolderOK, KnowingOK, Sweeps, Recovering, Claiming, Working, Cleaning
<1>3. ClaimOutlives
  BY DEF Init, ClaimOutlives
<1> QED
  BY <1>1, <1>2, <1>3 DEF IInv, Init

\* The types of the state, and what the invariant says of one run.
LEMMA Facts ==
  ASSUME IInv, NEW r \in Runs
  PROVE  /\ session \subseteq Runs /\ phase \in [Runs -> Phases] /\ lock \in {Nobody} \cup Runs
         /\ claim \in Records /\ contents \subseteq Runs /\ acl \in {"found", "changed"}
         /\ roles \in [Runs -> SUBSET Roles] /\ created \subseteq Runs
         /\ doomed \in [Runs -> Records] /\ left \subseteq Runs
         /\ faults \in Nat /\ MaxFaults \in Nat /\ faults <= MaxFaults
         /\ HolderOK(r) /\ KnowingOK(r) /\ (r \in session => RunOK(r))
         /\ Nobody \notin Runs /\ r # Nobody
BY NobodyAssumption, FaultsAssumption DEF IInv, Types

LEMMA FaultType ==
  ASSUME IInv, UNCHANGED faults \/ Fault PROVE faults' \in 0..MaxFaults
BY FaultsAssumption DEF Fault, IInv, Types

\* A run starts: nothing of its token is left anywhere.
LEMMA ConnectOK == ASSUME IInv, NEW r \in Runs, Connect(r) PROVE IInv'
<1> USE DEF Recovering, Claiming, Working, Cleaning, Ended
<1>0. /\ phase' = [phase EXCEPT ![r] = "lock"] /\ phase'[r] = "lock"
      /\ created' = created \ {r} /\ left' = left \ {r} /\ session' = session \cup {r}
      /\ doomed' = [doomed EXCEPT ![r] = NoClaim]
      /\ UNCHANGED <<lock, database, faults>> /\ Fresh(r)
  BY Facts DEF Connect, Goto
<1>1. lock # r
  BY Facts DEF Connect, HolderOK, Fresh
<1>2. Types'
  BY <1>0, Facts, FaultType DEF Types, Phases, Records, database
<1>3. Others(r)
  BY <1>0, Facts DEF Others
<1>4. HolderOK(r)' /\ KnowingOK(r)' /\ RunOK(r)'
  BY <1>0, <1>1 DEF HolderOK, KnowingOK, Sweeps, RunOK, Owns
<1> QED
  BY <1>0, <1>2, <1>3, <1>4, StillMove

\* The lock is free, or the run ends: the steps between the sessions and the claim.
LEMMA LockOK == ASSUME IInv, NEW r \in Runs, Lock(r) PROVE IInv'
<1> USE DEF Recovering, Claiming, Working, Cleaning, Ended
<1>0. /\ phase[r] = "lock" /\ phase' = [phase EXCEPT ![r] = "read"] /\ phase'[r] = "read"
      /\ r \in session /\ lock' = r /\ lock \in {r, Nobody}
      /\ UNCHANGED <<session, database, created, doomed, left, faults>>
  BY Facts DEF Lock, LockFree, Goto
<1>1. Types'
  BY <1>0, Facts, FaultType DEF Types, Phases, database
<1>2. Others(r)
  BY <1>0, Facts DEF Others
<1>3. HolderOK(r)' /\ KnowingOK(r)' /\ RunOK(r)'
  BY <1>0, Facts DEF HolderOK, KnowingOK, Sweeps, RunOK, Owns
<1> QED
  BY <1>0, <1>1, <1>2, <1>3, StillMove

\* The run ends itself, and lets go of the lock.
LEMMA GoneOK ==
  ASSUME IInv, NEW r \in Runs, Goto(r, "gone"), Unlock(r), faults' \in 0..MaxFaults,
         UNCHANGED <<session, database, created, doomed, left>>
  PROVE  IInv'
<1> USE DEF Recovering, Claiming, Working, Cleaning, Ended
<1>0. /\ phase' = [phase EXCEPT ![r] = "gone"] /\ phase'[r] = "gone"
      /\ lock' = IF lock = r THEN Nobody ELSE lock
  BY Facts DEF Goto, Unlock
<1>1. Types'
  BY <1>0, Facts DEF Types, Phases, database
<1>2. Others(r)
  BY <1>0, Facts DEF Others
<1>3. HolderOK(r)' /\ KnowingOK(r)' /\ RunOK(r)'
  BY <1>0, Facts DEF HolderOK, KnowingOK, Sweeps, RunOK, Owns
<1> QED
  BY <1>0, <1>1, <1>2, <1>3, StillMove

\* The claim is read.
LEMMA ReadClaimOK == ASSUME IInv, NEW r \in Runs, ReadClaim(r) PROVE IInv'
<1> USE DEF Recovering, Claiming, Working, Cleaning, Ended
<1>0. /\ phase[r] = "read" /\ r \in session
      /\ phase' = [phase EXCEPT ![r] = phase'[r]] /\ phase'[r] \in {"check", "sessions"}
      /\ doomed' = [doomed EXCEPT ![r] = claim] /\ doomed'[r] = claim
      /\ UNCHANGED <<session, lock, database, created, left, faults>>
  BY Facts DEF ReadClaim, Goto
<1>1. Types'
  BY <1>0, Facts, FaultType DEF Types, Phases, database
<1>2. Others(r)
  BY <1>0, Facts DEF Others
<1>3. HolderOK(r)' /\ KnowingOK(r)' /\ RunOK(r)'
  BY <1>0, Facts DEF HolderOK, KnowingOK, Sweeps, RunOK, Owns, SameOrGone, database
<1> QED
  BY <1>0, <1>1, <1>2, <1>3, StillMove

\* The sweep: whoever is found dead is not on the list, and cannot come back.
LEMMA ReadSessionsOK == ASSUME IInv, NEW r \in Runs, ReadSessions(r) PROVE IInv'
<1> USE DEF Recovering, Claiming, Working, Cleaning, Ended
<1>0. /\ phase[r] = "sessions" /\ r \in session /\ faults' \in 0..MaxFaults
      /\ UNCHANGED <<session, database, created, doomed, left>>
  BY FaultType DEF ReadSessions
<1>1. \/ Goto(r, "gone") /\ Unlock(r)
      \/ Goto(r, "check") /\ UNCHANGED lock
      \/ Goto(r, "drop_owned") /\ UNCHANGED lock /\ doomed[r].token \notin session
  BY DEF ReadSessions, Liveness, Readings
<1>2. CASE Goto(r, "gone") /\ Unlock(r)
  BY <1>0, <1>2, GoneOK
<1>3. ASSUME UNCHANGED lock,
             Goto(r, "check") \/ (Goto(r, "drop_owned") /\ doomed[r].token \notin session)
      PROVE  IInv'
  <2>0. /\ phase' = [phase EXCEPT ![r] = phase'[r]] /\ phase'[r] \in {"check", "drop_owned"}
        /\ phase'[r] = "drop_owned" => doomed[r].token \notin session
    BY <1>3, Facts DEF Goto
  <2>1. Types'
    BY <1>0, <1>3, <2>0, Facts DEF Types, Phases, database
  <2>2. Others(r)
    BY <1>0, <2>0, Facts DEF Others
  <2>3. HolderOK(r)' /\ KnowingOK(r)' /\ RunOK(r)'
    BY <1>0, <1>3, <2>0, Facts DEF HolderOK, KnowingOK, Sweeps, RunOK, Owns, SameOrGone, database
  <2> QED
    BY <1>0, <1>3, <2>1, <2>2, <2>3, StillMove
<1> QED
  BY <1>1, <1>2, <1>3

LEMMA RefuseOK == ASSUME IInv, NEW r \in Runs, Refuse(r) PROVE IInv'
<1>1. faults' \in 0..MaxFaults
  BY FaultType DEF Refuse, Refused
<1> QED
  BY <1>1, GoneOK DEF Refuse

LEMMA CheckOK == ASSUME IInv, NEW r \in Runs, Check(r) PROVE IInv'
<1> USE DEF Recovering, Claiming, Working, Cleaning, Ended
<1>0. /\ phase[r] = "check" /\ r \in session /\ faults' \in 0..MaxFaults
      /\ UNCHANGED <<session, database, created, doomed, left>>
  BY FaultType DEF Check
<1>1. CASE Goto(r, "gone") /\ Unlock(r)
  BY <1>0, <1>1, GoneOK
<1>2. CASE Goto(r, "claim") /\ UNCHANGED lock
  <2>0. phase' = [phase EXCEPT ![r] = "claim"] /\ phase'[r] = "claim"
    BY <1>2, Facts DEF Goto
  <2>1. Types'
    BY <1>0, <1>2, <2>0, Facts DEF Types, Phases, database
  <2>2. Others(r)
    BY <1>0, <2>0, Facts DEF Others
  <2>3. HolderOK(r)' /\ KnowingOK(r)' /\ RunOK(r)'
    BY <1>0, <1>2, <2>0, Facts DEF HolderOK, KnowingOK, Sweeps, RunOK, Owns
  <2> QED
    BY <1>0, <1>2, <2>1, <2>2, <2>3, StillMove
<1> QED
  BY <1>1, <1>2 DEF Check

\* A new claim is made over an empty database: nothing of an earlier run is left.
LEMMA NewClaimOutlives ==
  ASSUME IInv, claim = NoClaim, claim'.token # Nobody, UNCHANGED <<contents, acl, roles>>
  PROVE  ClaimOutlives'
<1>1. /\ contents \subseteq Runs /\ contents \subseteq {Nobody} /\ acl = "found"
      /\ \A t \in Runs: roles[t] = {}
  BY NobodyAssumption DEF IInv, Types, ClaimOutlives, NoClaim
<1> QED
  BY <1>1, NobodyAssumption DEF ClaimOutlives

LEMMA ClaimOK == ASSUME IInv, NEW r \in Runs, Claim(r) \/ ClaimUnconfirmed(r) PROVE IInv'
<1> USE DEF Recovering, Claiming, Working, Cleaning, Ended
<1>0. /\ phase[r] = "claim" /\ r \in session /\ faults' \in 0..MaxFaults /\ Unlock(r)
      /\ UNCHANGED <<session, contents, acl, roles, doomed, left>>
      /\ r \notin created
  BY Facts, FaultType DEF Claim, ClaimUnconfirmed, KnowingOK
<1>1. CASE claim # NoClaim
  BY <1>0, <1>1, GoneOK DEF Claim, ClaimUnconfirmed, database
<1>2. CASE claim = NoClaim
  <2>0. /\ claim' = [token |-> r, roles |-> {}] /\ claim'.token = r
        /\ phase' = [phase EXCEPT ![r] = phase'[r]]
        /\ \/ phase'[r] = "create" /\ created' = created \cup {r}
           \/ phase'[r] = "gone" /\ created' = created
        /\ lock' = IF lock = r THEN Nobody ELSE lock
    BY <1>0, <1>2, Facts DEF Claim, ClaimUnconfirmed, Goto, Unlock
  <2>1. Types'
    BY <1>0, <2>0, Facts DEF Types, Phases, Records
  <2>2. Others(r)
    BY <1>0, <2>0, Facts DEF Others
  <2>3. HolderOK(r)' /\ KnowingOK(r)' /\ RunOK(r)'
    BY <1>0, <2>0, Facts DEF HolderOK, KnowingOK, Sweeps, RunOK, Owns
  <2>4. ClaimOutlives'
    BY <1>0, <1>2, <2>0, Facts, NewClaimOutlives
  <2>5. ~Owns(r)
    BY <1>0 DEF Owns
  <2> QED
    BY <1>0, <1>2, <2>0, <2>1, <2>2, <2>3, <2>4, <2>5, WriteMove
<1> QED
  BY <1>1, <1>2

\* A run at work owns the claim.
LEMMA WorkingOwns ==
  ASSUME IInv, NEW r \in session, phase[r] \in Working
  PROVE  /\ r \in Runs /\ Owns(r) /\ r \in created /\ claim.token = r /\ claim # NoClaim
         /\ claim \in [token: Runs, roles: SUBSET Roles] /\ lock # r
<1>0. r \in Runs
  BY DEF IInv, Types
<1>1. r \in created /\ Owns(r) /\ claim.token = r
  BY <1>0, Facts DEF KnowingOK, Owns, RunOK
<1>2. claim # NoClaim
  BY <1>0, <1>1, NobodyAssumption DEF NoClaim
<1>3. lock # r
  BY <1>0, <1>1, Facts DEF HolderOK, Sweeps, Working, Recovering, Claiming, Cleaning
<1> QED
  BY <1>0, <1>1, <1>2, <1>3, Facts DEF Records

\* What a run at work writes is under its claim.
LEMMA WorkOK ==
  ASSUME IInv, NEW r \in Runs, CreateObjects(r) \/ RecordRoles(r) \/ CreateRole(r)
  PROVE  IInv'
<1> USE DEF Recovering, Claiming, Working, Cleaning, Ended
<1>0. /\ phase[r] \in {"create", "record", "roles"} /\ r \in session
      /\ UNCHANGED <<session, lock, created, doomed, left, faults>>
  BY DEF CreateObjects, RecordRoles, CreateRole
<1>1. /\ Owns(r) /\ r \in created /\ claim.token = r /\ claim # NoClaim
      /\ claim \in [token: Runs, roles: SUBSET Roles] /\ lock # r
  BY <1>0, WorkingOwns
<1>2. /\ phase' = [phase EXCEPT ![r] = phase'[r]] /\ phase'[r] \in {"record", "roles", "work"}
      /\ claim' \in [token: Runs, roles: SUBSET Roles] /\ claim'.token = r
      /\ claim.roles \subseteq claim'.roles
      /\ contents' \subseteq contents \cup {r} /\ acl' \in {"found", "changed"}
      /\ roles' \in [Runs -> SUBSET Roles]
      /\ \A t \in Runs: t # r => roles'[t] = roles[t]
      /\ phase'[r] = "roles" => Roles \subseteq claim'.roles
      /\ roles'[r] = roles[r] \/ Roles \subseteq claim'.roles
  <2>1. CASE CreateObjects(r)
    BY <1>1, <2>1, Facts DEF CreateObjects, Goto
  <2>2. CASE RecordRoles(r)
    BY <1>1, <2>2, Facts DEF RecordRoles, Goto
  <2>3. CASE CreateRole(r)
    <3>1. Roles \subseteq claim.roles
      BY <1>0, <2>3, Facts DEF CreateRole, RunOK
    <3>2. PICK x \in Roles: roles' = [roles EXCEPT ![r] = @ \cup {x}]
      BY <2>3 DEF CreateRole
    <3>3. /\ phase' = [phase EXCEPT ![r] = phase'[r]] /\ phase'[r] \in {"roles", "work"}
          /\ UNCHANGED <<claim, contents, acl>>
      BY <2>3, Facts DEF CreateRole, Goto
    <3> QED
      BY <1>1, <3>1, <3>2, <3>3, Facts
  <2> QED
    BY <2>1, <2>2, <2>3
<1>3. Types'
  BY <1>0, <1>2, Facts, FaultType DEF Types, Phases, Records
<1>4. Others(r)
  BY <1>0, <1>2, Facts DEF Others
<1>5. HolderOK(r)' /\ KnowingOK(r)' /\ RunOK(r)'
  BY <1>0, <1>1, <1>2, Facts DEF HolderOK, KnowingOK, Sweeps, RunOK, Owns
<1>6. ClaimOutlives'
  <2>1. contents' \subseteq {claim'.token}
    BY <1>1, <1>2 DEF IInv, ClaimOutlives
  <2>2. ASSUME NEW t \in Runs, roles'[t] # {}
        PROVE  claim'.token = t /\ roles'[t] \subseteq claim'.roles
    <3>1. CASE t = r
      BY <1>2, <3>1 DEF IInv, ClaimOutlives
    <3>2. CASE t # r
      BY <1>1, <1>2, <2>2, <3>2 DEF IInv, ClaimOutlives
    <3> QED
      BY <3>1, <3>2
  <2>3. claim' # NoClaim
    BY <1>2, NobodyAssumption DEF NoClaim
  <2> QED
    BY <2>1, <2>2, <2>3 DEF ClaimOutlives
<1> QED
  BY <1>0, <1>1, <1>2, <1>3, <1>4, <1>5, <1>6, WriteMove

\* The run turns to its cleanup.
LEMMA ReleaseOK == ASSUME IInv, NEW r \in Runs, Release(r) PROVE IInv'
<1> USE DEF Recovering, Claiming, Working, Cleaning, Ended
<1>0. /\ phase[r] \in Working /\ phase' = [phase EXCEPT ![r] = "drop_owned"]
      /\ phase'[r] = "drop_owned" /\ left' = left \ {r}
      /\ UNCHANGED <<session, lock, database, created, doomed>>
  BY Facts DEF Release, Goto
<1>1. Types'
  <2>1. faults' \in 0..MaxFaults
    BY FaultType DEF Release, Refused
  <2> QED
    BY <1>0, <2>1, Facts DEF Types, Phases, database
<1>2. Others(r)
  BY <1>0, Facts DEF Others
<1>3. HolderOK(r)' /\ KnowingOK(r)' /\ (r \in session' => RunOK(r)')
  BY <1>0, Facts DEF HolderOK, KnowingOK, Sweeps, RunOK, Owns, database
<1> QED
  BY <1>0, <1>1, <1>2, <1>3, StillMove

\* What is true of any run at its cleanup.
LEMMA CleaningFacts ==
  ASSUME IInv, NEW r \in Runs, r \in session, phase[r] \in Cleaning
  PROVE  /\ r \in created => claim.token = r /\ lock # r
         /\ r \notin created => /\ lock = r /\ claim.token \notin session
                                /\ SameOrGone(r)
<1>0. HolderOK(r) /\ RunOK(r) /\ session \subseteq Runs /\ Nobody \notin Runs
  BY Facts
<1>1. r \in created => claim.token = r /\ lock # r
  BY <1>0 DEF HolderOK, RunOK, Owns, Sweeps, Recovering, Claiming, Cleaning
<1>2. r \notin created => lock = r /\ SameOrGone(r) /\ doomed[r].token \notin session
  BY <1>0 DEF HolderOK, RunOK, Sweeps
<1>3. r \notin created => claim.token \notin session
  BY <1>0, <1>2 DEF SameOrGone, NoClaim
<1> QED
  BY <1>1, <1>2, <1>3

LEMMA StopsOK == ASSUME IInv, NEW r \in Runs, Stops(r) PROVE IInv'
<1> USE DEF Recovering, Claiming, Working, Cleaning, Ended
<1>0. /\ phase[r] \in Cleaning /\ phase' = [phase EXCEPT ![r] = phase'[r]]
      /\ phase'[r] = IF r \in created THEN "gone" ELSE "check"
      /\ left' = left \cup {r} /\ UNCHANGED <<session, lock, database, created, doomed>>
  BY Facts DEF Stops, Goto, After
<1>1. Types'
  <2>1. faults' \in 0..MaxFaults
    BY FaultType DEF Stops, Refused
  <2> QED
    BY <1>0, <2>1, Facts DEF Types, Phases, database
<1>2. Others(r)
  BY <1>0, Facts DEF Others
<1>3. HolderOK(r)' /\ KnowingOK(r)' /\ RunOK(r)'
  BY <1>0, Facts DEF HolderOK, KnowingOK, Sweeps, RunOK, Owns
<1> QED
  BY <1>0, <1>1, <1>2, <1>3, StillMove

\* The objects go, the claim stays.
LEMMA DropOwnedOK == ASSUME IInv, NEW r \in Runs, DropOwned(r) PROVE IInv'
<1> USE DEF Recovering, Claiming, Working, Cleaning, Ended
<1>0. /\ phase[r] = "drop_owned" /\ r \in session /\ phase' = [phase EXCEPT ![r] = "restore"]
      /\ phase'[r] = "restore" /\ faults' \in 0..MaxFaults
      /\ contents' \subseteq contents /\ left' \in {left, left \cup {r}}
      /\ r \notin left' => contents' = {}
      /\ UNCHANGED <<session, lock, claim, acl, roles, created, doomed>>
  BY Facts, FaultType DEF DropOwned, Dropped, Goto
<1>1. Types'
  BY <1>0, Facts DEF Types, Phases
<1>2. Others(r)
  BY <1>0, Facts DEF Others
<1>3. HolderOK(r)' /\ KnowingOK(r)' /\ RunOK(r)'
  BY <1>0, Facts DEF HolderOK, KnowingOK, Sweeps, RunOK, Owns, SameOrGone
<1>4. ClaimOutlives'
  BY <1>0 DEF IInv, ClaimOutlives
<1> QED
  BY <1>0, <1>1, <1>2, <1>3, <1>4, WriteMove

\* The standard state comes back, and the roles to drop are read from the claim.
LEMMA RestoreOK == ASSUME IInv, NEW r \in Runs, Restore(r) PROVE IInv'
<1> USE DEF Recovering, Claiming, Working, Cleaning, Ended
<1>0. /\ phase[r] = "restore" /\ r \in session /\ phase' = [phase EXCEPT ![r] = "drop_roles"]
      /\ phase'[r] = "drop_roles" /\ faults' \in 0..MaxFaults
      /\ acl' \in {acl, "found"} /\ left' \in {left, left \cup {r}}
      /\ r \notin left' => acl' = "found"
      /\ doomed' = [doomed EXCEPT ![r] = claim] /\ doomed'[r] = claim
      /\ UNCHANGED <<session, lock, claim, contents, roles, created>>
  BY Facts, FaultType DEF Restore, Goto
<1>1. Types'
  BY <1>0, Facts DEF Types, Phases
<1>2. Others(r)
  BY <1>0, Facts DEF Others
<1>3. HolderOK(r)' /\ KnowingOK(r)'
  BY <1>0, Facts DEF HolderOK, KnowingOK, Sweeps
<1>4. RunOK(r)'
  BY <1>0, Facts, CleaningFacts DEF RunOK, Owns, SameOrGone
<1>5. ClaimOutlives'
  BY <1>0 DEF IInv, ClaimOutlives
<1> QED
  BY <1>0, <1>1, <1>2, <1>3, <1>4, <1>5, WriteMove

\* The roles the claim names go, or are counted as left.
LEMMA DropRolesOK == ASSUME IInv, NEW r \in Runs, DropRoles(r) PROVE IInv'
<1> USE DEF Recovering, Claiming, Working, Cleaning, Ended
<1>0. /\ phase[r] = "drop_roles" /\ r \in session /\ phase' = [phase EXCEPT ![r] = "unclaim"]
      /\ phase'[r] = "unclaim" /\ faults' \in 0..MaxFaults
      /\ left' \in {left, left \cup {r}}
      /\ UNCHANGED <<session, lock, claim, contents, acl, created, doomed>>
  BY Facts, FaultType DEF DropRoles, Goto
<1>1. doomed[r] = claim
  BY <1>0, Facts DEF RunOK
<1>2. /\ roles' \in [Runs -> SUBSET Roles]
      /\ \A t \in Runs: roles'[t] \subseteq roles[t]
      /\ r \notin left' =>
           \A t \in Runs: roles'[t] = IF t = claim.token THEN roles[t] \ claim.roles ELSE roles[t]
  <2>1. CASE roles' = [s \in Runs |-> IF s = doomed[r].token THEN roles[s] \ doomed[r].roles
                                      ELSE roles[s]]
    BY <1>1, <2>1, Facts
  <2>2. ASSUME left' = left \cup {r}, NEW stay \in SUBSET doomed[r].roles,
               roles' = [s \in Runs |-> IF s = doomed[r].token
                                        THEN roles[s] \ (doomed[r].roles \ stay) ELSE roles[s]]
        PROVE  /\ roles' \in [Runs -> SUBSET Roles]
               /\ \A t \in Runs: roles'[t] \subseteq roles[t]
               /\ r \in left'
    BY <2>2, Facts
  <2> QED
    BY <2>1, <2>2 DEF DropRoles
<1>3. Types'
  BY <1>0, <1>2, Facts DEF Types, Phases
<1>4. Others(r)
  BY <1>0, Facts DEF Others
<1>5. HolderOK(r)' /\ KnowingOK(r)'
  BY <1>0, Facts DEF HolderOK, KnowingOK, Sweeps
<1>6. r \notin left' => \A t \in Runs: roles'[t] = {}
  BY <1>2 DEF IInv, ClaimOutlives
<1>7. RunOK(r)'
  BY <1>0, <1>6, Facts DEF RunOK, Owns, SameOrGone
<1>8. ClaimOutlives'
  BY <1>0, <1>2 DEF IInv, ClaimOutlives
<1> QED
  BY <1>0, <1>3, <1>4, <1>5, <1>7, <1>8, WriteMove

\* The claim goes last, and only when nothing remains.
LEMMA RemoveClaimOK == ASSUME IInv, NEW r \in Runs, RemoveClaim(r) PROVE IInv'
<1> USE DEF Recovering, Claiming, Working, Cleaning, Ended
<1>0. /\ phase[r] = "unclaim" /\ r \in session /\ phase' = [phase EXCEPT ![r] = phase'[r]]
      /\ phase'[r] = IF r \in created THEN "gone" ELSE "check"
      /\ claim' = IF r \in left THEN claim ELSE NoClaim
      /\ UNCHANGED <<session, lock, contents, acl, roles, created, doomed, left, faults>>
  BY Facts DEF RemoveClaim, Goto, After
<1>1. Types'
  BY <1>0, Facts, FaultType DEF Types, Phases, Records
<1>2. Others(r)
  BY <1>0, Facts DEF Others
<1>3. HolderOK(r)' /\ KnowingOK(r)' /\ RunOK(r)'
  BY <1>0, Facts, CleaningFacts DEF HolderOK, KnowingOK, Sweeps, RunOK, Owns
<1>4. ClaimOutlives'
  <2>1. CASE r \in left
    BY <1>0, <2>1 DEF IInv, ClaimOutlives
  <2>2. CASE r \notin left
    <3>1. contents = {} /\ acl = "found" /\ \A t \in Runs: roles[t] = {}
      BY <1>0, <2>2, Facts DEF RunOK
    <3> QED
      BY <1>0, <3>1 DEF ClaimOutlives
  <2> QED
    BY <2>1, <2>2
<1> QED
  BY <1>0, <1>1, <1>2, <1>3, <1>4, WriteMove

\* A kill, and the end of a session with its lock.
LEMMA DeathOK == ASSUME IInv, NEW r \in Runs, Kill(r) \/ SessionEnds(r) PROVE IInv'
<1> USE DEF Recovering, Claiming, Working, Cleaning, Ended
<1>0. faults' \in 0..MaxFaults /\ UNCHANGED <<database, created, doomed, left>>
  BY FaultType DEF Kill, SessionEnds
<1>1. CASE Kill(r)
  <2>0. /\ phase[r] \notin {"new"} \cup Ended /\ phase' = [phase EXCEPT ![r] = "killed"]
        /\ phase'[r] = "killed" /\ UNCHANGED <<session, lock>>
    BY <1>1, Facts DEF Kill, Goto
  <2>1. Types'
    BY <1>0, <2>0, Facts DEF Types, Phases, database
  <2>2. Others(r)
    BY <1>0, <2>0, Facts DEF Others
  <2>3. HolderOK(r)' /\ KnowingOK(r)' /\ RunOK(r)'
    BY <2>0, Facts DEF HolderOK, KnowingOK, Sweeps, RunOK, Owns
  <2> QED
    BY <1>0, <2>0, <2>1, <2>2, <2>3, StillMove
<1>2. CASE SessionEnds(r)
  <2>0. /\ r \in session /\ session' = session \ {r} /\ UNCHANGED phase
        /\ lock' = IF lock = r THEN Nobody ELSE lock
    BY <1>2 DEF SessionEnds
  <2>1. Types'
    BY <1>0, <2>0, Facts DEF Types, database
  <2>2. Others(r)
    BY <1>0, <2>0, Facts DEF Others
  <2>3. HolderOK(r)' /\ KnowingOK(r)'
    BY <1>0, <2>0, Facts DEF HolderOK, KnowingOK, Sweeps
  <2> QED
    BY <1>0, <2>0, <2>1, <2>2, <2>3, StillMove
<1> QED
  BY <1>1, <1>2

LEMMA NextOK == ASSUME IInv, [Next]_vars PROVE IInv'
<1>1. ASSUME NEW r \in Runs, Step(r) PROVE IInv'
  BY <1>1, LockOK, RefuseOK, ReadClaimOK, ReadSessionsOK, CheckOK, ClaimOK, WorkOK, ReleaseOK,
     StopsOK, DropOwnedOK, RestoreOK, DropRolesOK, RemoveClaimOK DEF Step
<1>2. ASSUME NEW r \in Runs, Connect(r) \/ Kill(r) \/ SessionEnds(r) PROVE IInv'
  BY <1>2, ConnectOK, DeathOK
<1>3. CASE UNCHANGED vars
  BY <1>3 DEF vars, database, IInv, Types, HolderOK, KnowingOK, RunOK, Owns, Sweeps, SameOrGone,
              ClaimOutlives
<1> QED
  BY <1>1, <1>2, <1>3 DEF Next

(***************************************************************************)
(* The state is well typed, and a run that ends itself, by whatever path,  *)
(* has let go of the advisory lock.                                        *)
(***************************************************************************)
THEOREM SuppliedTyped == Spec => []TypeOK
<1>1. IInv => TypeOK
  BY DEF IInv, Types, TypeOK, HolderOK, Sweeps, Records
<1> QED
  BY <1>1, InitOK, NextOK, PTL DEF Spec

(***************************************************************************)
(* Whatever a run left in the shared database or in the cluster is the     *)
(* claim's, after any sequence of kills, lost sessions, refusals and       *)
(* sweeps: the next run always finds a claim to finish from.               *)
(***************************************************************************)
THEOREM ClaimNamesWhatIsLeft == Spec => []ClaimOutlives
<1>1. IInv => ClaimOutlives
  BY DEF IInv
<1> QED
  BY <1>1, InitOK, NextOK, PTL DEF Spec

-----------------------------------------------------------------------------
(***************************************************************************)
(* No step takes anything from a run at work.                              *)
(***************************************************************************)
Untouched(t) ==
  /\ claim'.token = claim.token
  /\ t \in contents => t \in contents'
  /\ roles[t] \subseteq roles'[t]

\* A run that cleans or claims has the database to itself.
LEMMA WritersAreLone ==
  ASSUME IInv, NEW t \in session, phase[t] \in Working,
         NEW r \in session, phase[r] \in Cleaning \/ (phase[r] = "claim" /\ claim = NoClaim)
  PROVE  FALSE
<1>1. t # r
  BY DEF Working, Cleaning
<1> QED
  BY <1>1, Lone

LEMMA StepSpares ==
  ASSUME IInv, NEW t \in Runs, t \in session, phase[t] \in Working, NEW r \in Runs, Step(r)
  PROVE  Untouched(t)
<1>1. CASE Lock(r) \/ Refuse(r) \/ ReadClaim(r) \/ ReadSessions(r) \/ Check(r) \/ Release(r) \/ Stops(r)
  BY <1>1 DEF Lock, Refuse, ReadClaim, ReadSessions, Check, Release, Stops, database, Untouched
<1>2. CASE Claim(r) \/ ClaimUnconfirmed(r)
  <2>1. phase[r] = "claim" /\ r \in session /\ UNCHANGED <<contents, roles>>
    BY <1>2 DEF Claim, ClaimUnconfirmed
  <2>2. claim # NoClaim
    BY <2>1, WritersAreLone
  <2> QED
    BY <1>2, <2>1, <2>2 DEF Claim, ClaimUnconfirmed, Untouched
<1>3. CASE CreateObjects(r)
  BY <1>3 DEF CreateObjects, Untouched
<1>4. CASE RecordRoles(r)
  <2>1. claim'.token = claim.token
    BY <1>4, Facts DEF RecordRoles, Records, NoClaim
  <2> QED
    BY <1>4, <2>1 DEF RecordRoles, Untouched
<1>5. CASE CreateRole(r)
  BY <1>5, Facts DEF CreateRole, Untouched
<1>6. CASE DropOwned(r) \/ Restore(r) \/ DropRoles(r) \/ RemoveClaim(r)
  <2>1. r \in session /\ phase[r] \in Cleaning
    BY <1>6 DEF DropOwned, Restore, DropRoles, RemoveClaim, Cleaning
  <2> QED
    BY <2>1, WritersAreLone
<1> QED
  BY <1>1, <1>2, <1>3, <1>4, <1>5, <1>6 DEF Step

(***************************************************************************)
(* However many runs share the database and whatever fails, no step of any *)
(* run takes the claim, the objects or the roles of a run that works in it *)
(* without holding the lock: the sweep's proof of death stays good until   *)
(* its last statement.                                                     *)
(***************************************************************************)
THEOREM LiveRunsAreSpared == Spec => NothingTakenFromLive
<1> DEFINE Spares == \A t \in Runs: t \in session /\ phase[t] \in Working =>
                       /\ claim.token = t /\ claim'.token = t
                       /\ t \in contents => t \in contents'
                       /\ roles[t] \subseteq roles'[t]
<1>1. ASSUME IInv, [Next]_vars PROVE [Spares]_vars
  <2> SUFFICES ASSUME Next, NEW t \in Runs, t \in session, phase[t] \in Working
               PROVE  claim.token = t /\ Untouched(t)
    BY <1>1 DEF Untouched
  <2>1. claim.token = t
    BY <1>1, Facts DEF RunOK, Owns, KnowingOK
  <2>2. ASSUME NEW r \in Runs, Step(r) PROVE Untouched(t)
    BY <1>1, <2>2, StepSpares
  <2>3. ASSUME NEW r \in Runs, Connect(r) \/ Kill(r) \/ SessionEnds(r) PROVE Untouched(t)
    BY <2>3 DEF Connect, Kill, SessionEnds, database, Untouched
  <2> QED
    BY <2>1, <2>2, <2>3 DEF Next
<1> QED
  BY <1>1, InitOK, NextOK, PTL DEF Spec, NothingTakenFromLive
=============================================================================
