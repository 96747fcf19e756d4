------------------------- MODULE ScratchOwnedProofs -------------------------
(***************************************************************************)
(* Proofs about the run-owned scratch layout, for any number of runs,      *)
(* roles, kills, lost sessions and refusals.  A sweep lists in one step,   *)
(* reads the sessions in another and removes in later ones; the inductive  *)
(* invariant says what of its list is still true when it acts on it.       *)
(***************************************************************************)
EXTENDS ScratchOwned, SequenceTheorems, TLAPS

\* The phases in which a run has no database and no role yet.
Early == {"new", "list", "sessions", "remove", "login", "database"}

DatabaseRes == [kind |-> "database", names |-> {}]
RoleRes(n)  == [kind |-> "role", names |-> n]
LoginRes    == [kind |-> "login", names |-> {}]

\* What a sweep can still have to remove of one token.
Shaped(q) ==
  \/ q = <<>>
  \/ q = <<LoginRes>>
  \/ q = <<DatabaseRes, LoginRes>>
  \/ \E n \in SUBSET Roles: q = <<RoleRes(n), LoginRes>> \/ q = <<DatabaseRes, RoleRes(n), LoginRes>>

\* The database, which comes first, is in the list.
Opens(q) == q # <<>> /\ Head(q).kind = "database"

\* The roles are the next to go.
RolesNext(q) == q # <<>> /\ Head(q).kind = "role"

\* The list has more than the record.
More(q) == Opens(q) \/ RolesNext(q)

\* The list has the roles in ns.
Covers(q, ns) ==
  \/ ns = {}
  \/ \E n \in SUBSET Roles:
       /\ q = <<RoleRes(n), LoginRes>> \/ q = <<DatabaseRes, RoleRes(n), LoginRes>>
       /\ ns \subseteq n

Items == [kind: {"database", "role", "login"}, names: SUBSET Roles]

Typed ==
  /\ session \subseteq Runs
  /\ phase \in [Runs -> Phases]
  /\ login \subseteq Runs
  /\ database \in [Runs -> {"none", "unowned", "owned"}]
  /\ roles \in [Runs -> SUBSET Roles]
  /\ inside \subseteq Runs
  /\ left \subseteq Runs
  /\ raced \subseteq Runs
  /\ faults \in 0..MaxFaults
  /\ todo \in [Runs -> [Runs -> Seq(Items)]]

\* What run t has, at each point of its way.
RunOK(t) ==
  /\ t \in inside => database[t] = "owned"
  /\ phase[t] \in Early => database[t] = "none" /\ roles[t] = {}
  /\ phase[t] = "owner" /\ t \in session => database[t] # "none"
  /\ phase[t] = "enter" => database[t] # "unowned"
  /\ phase[t] \in {"database", "owner"} /\ t \in session => t \in login
  /\ phase[t] \in {"drop_roles", "drop_login"} /\ t \notin left => database[t] = "none"
  /\ phase[t] = "drop_login" /\ t \notin left => roles[t] = {}
  /\ (t \in raced => t \in session) /\ (database[t] # "none" \/ roles[t] # {}) => t \in login

\* What the sweep of s still knows of t.
SweepOK(s, t) ==
  LET q == todo[s][t] IN
  /\ Shaped(q)
  /\ q # <<>> => phase[s] \in {"sessions", "remove"}
  /\ q # <<>> /\ phase[s] = "remove" => t \notin session
  /\ More(q) => phase[t] \notin Early
  /\ RolesNext(q) => database[t] = "none"
  /\ q # <<>> /\ t \notin raced =>
       /\ database[t] # "none" => Opens(q)
       /\ Covers(q, roles[t])

IInv ==
  /\ Typed
  /\ \A t \in Runs: RunOK(t)
  /\ \A s, t \in Runs: SweepOK(s, t)
-----------------------------------------------------------------------------
(* The lists of a sweep.                                                    *)

LEMMA FirstOfTwo ==
  ASSUME NEW a, NEW b
  PROVE  Head(<<a, b>>) = a
OBVIOUS

LEMMA Joined ==
  ASSUME NEW S, NEW a \in S, NEW b \in S, NEW c \in S
  PROVE  /\ <<>> \o <<>> \o <<c>> = <<c>>
         /\ <<a>> \o <<>> \o <<c>> = <<a, c>>
         /\ <<>> \o <<b>> \o <<c>> = <<b, c>>
         /\ <<a>> \o <<b>> \o <<c>> = <<a, b, c>>
<1>1. ASSUME NEW x \in Seq(S)
      PROVE  x \o <<>> = x /\ <<>> \o x = x
  BY <1>1, ConcatEmptySeq
<1>2. <<a>> \in Seq(S) /\ <<b>> \in Seq(S) /\ <<c>> \in Seq(S) /\ <<>> \in Seq(S)
  OBVIOUS
<1>3. ASSUME NEW x \in S, NEW y \in S PROVE <<x>> \o <<y>> = <<x, y>>
  <2>1. PICK z \in Seq(S) : z = <<x>> \o <<y>>
    <3>1. <<x>> \in Seq(S) /\ <<y>> \in Seq(S)
      BY <1>3
    <3> QED
      BY <3>1, ConcatProperties
  <2>2. Len(z) = 2 /\ z[1] = x /\ z[2] = y
    BY <1>3, <2>1
  <2>3. <<x, y>> \in Seq(S) /\ Len(<<x, y>>) = 2 /\ <<x, y>>[1] = x /\ <<x, y>>[2] = y
    BY <1>3
  <2>4. \A i \in 1..Len(z) : z[i] = <<x, y>>[i]
    BY <2>2, <2>3
  <2> QED
    BY <2>1, <2>2, <2>3, <2>4, SeqEqual
<1>4. <<a, b>> \o <<c>> = <<a, b, c>>
  <2>0. <<a, b>> \in Seq(S) /\ Len(<<a, b>>) = 2 /\ <<a, b>>[1] = a /\ <<a, b>>[2] = b
    OBVIOUS
  <2>1. PICK z \in Seq(S) : z = <<a, b>> \o <<c>>
    BY <1>2, <2>0, ConcatProperties
  <2>2. Len(z) = 3 /\ z[1] = a /\ z[2] = b /\ z[3] = c
    BY <1>2, <2>0, <2>1
  <2>3. /\ <<a, b, c>> \in Seq(S) /\ Len(<<a, b, c>>) = 3 /\ <<a, b, c>>[1] = a /\ <<a, b, c>>[2] = b
        /\ <<a, b, c>>[3] = c
    OBVIOUS
  <2>4. \A i \in 1..Len(z) : z[i] = <<a, b, c>>[i]
    BY <2>2, <2>3
  <2> QED
    BY <2>1, <2>2, <2>3, <2>4, SeqEqual
<1> QED
  BY <1>1, <1>2, <1>3, <1>4

\* What the first of a list is, and what is left after it.
LEMMA Pop ==
  ASSUME NEW q, Shaped(q), q # <<>>
  PROVE  /\ Shaped(Tail(q)) /\ ~Opens(Tail(q))
         /\ RolesNext(Tail(q)) => Opens(q)
         /\ Head(q) \in Items
         /\ Head(q).kind \in {"database", "login"} => Head(q).names = {}
         /\ Head(q).kind = "login" => Tail(q) = <<>> /\ ~Opens(q) /\ ~RolesNext(q)
         /\ Opens(q) <=> Head(q).kind = "database"
         /\ RolesNext(q) <=> Head(q).kind = "role"
<1>1. CASE q = <<LoginRes>>
  BY <1>1 DEF Shaped, Opens, RolesNext, LoginRes, Items
<1>2. CASE q = <<DatabaseRes, LoginRes>>
  <2>1. Head(q) = DatabaseRes /\ Tail(q) = <<LoginRes>>
    BY <1>2
  <2> QED
    BY <2>1, <1>2 DEF Shaped, Opens, RolesNext, LoginRes, DatabaseRes, Items
<1>3. ASSUME NEW n \in SUBSET Roles, q = <<RoleRes(n), LoginRes>>
      PROVE  /\ Head(q) = RoleRes(n) /\ Tail(q) = <<LoginRes>>
  BY <1>3
<1>4. ASSUME NEW n \in SUBSET Roles, q = <<DatabaseRes, RoleRes(n), LoginRes>>
      PROVE  /\ Head(q) = DatabaseRes /\ Tail(q) = <<RoleRes(n), LoginRes>>
  BY <1>4
<1>5. ASSUME NEW n \in SUBSET Roles, q = <<RoleRes(n), LoginRes>>
      PROVE  /\ Shaped(Tail(q)) /\ ~Opens(Tail(q)) /\ ~RolesNext(Tail(q))
             /\ Head(q) \in Items /\ Head(q).kind = "role" /\ ~Opens(q) /\ RolesNext(q)
  BY <1>3, <1>5 DEF Shaped, Opens, RolesNext, LoginRes, RoleRes, Items
<1>6. ASSUME NEW n \in SUBSET Roles, q = <<DatabaseRes, RoleRes(n), LoginRes>>
      PROVE  /\ Shaped(Tail(q)) /\ ~Opens(Tail(q))
             /\ Head(q) \in Items /\ Head(q).kind = "database" /\ Head(q).names = {}
             /\ Opens(q) /\ ~RolesNext(q)
  <2>1. Head(q) = DatabaseRes /\ Tail(q) = <<RoleRes(n), LoginRes>>
    BY <1>4, <1>6
  <2>2. Shaped(Tail(q))
    BY <2>1 DEF Shaped
  <2>3. Head(Tail(q)) = RoleRes(n)
    BY <2>1, FirstOfTwo
  <2> QED
    BY <1>6, <2>1, <2>2, <2>3 DEF Opens, RolesNext, DatabaseRes, RoleRes, Items
<1> QED
  BY <1>1, <1>2, <1>5, <1>6 DEF Shaped

\* A list that covers the roles there are does so when there are fewer.
LEMMA CoversLess ==
  ASSUME NEW q, NEW ns, NEW ms, Covers(q, ns), ms \subseteq ns
  PROVE  Covers(q, ms)
BY DEF Covers

\* The rest of a list covers what the first of it leaves.
LEMMA CoversRest ==
  ASSUME NEW q, Shaped(q), q # <<>>, NEW ns, Covers(q, ns)
  PROVE  /\ Covers(Tail(q), ns \ Head(q).names)
         /\ Head(q).kind = "login" => ns = {}
<1>1. CASE ns = {}
  BY <1>1 DEF Covers
<1>2. ASSUME NEW n \in SUBSET Roles, ns \subseteq n, q = <<RoleRes(n), LoginRes>>
      PROVE  Covers(Tail(q), ns \ Head(q).names) /\ Head(q).kind # "login"
  <2>1. Head(q) = RoleRes(n)
    BY <1>2
  <2> QED
    BY <1>2, <2>1 DEF Covers, RoleRes
<1>3. ASSUME NEW n \in SUBSET Roles, ns \subseteq n, q = <<DatabaseRes, RoleRes(n), LoginRes>>
      PROVE  Covers(Tail(q), ns \ Head(q).names) /\ Head(q).kind # "login"
  <2>1. Head(q) = DatabaseRes /\ Tail(q) = <<RoleRes(n), LoginRes>>
    BY <1>3
  <2> QED
    BY <1>3, <2>1 DEF Covers, DatabaseRes
<1> QED
  BY <1>1, <1>2, <1>3 DEF Covers

\* What a listing finds of a token.
LEMMA Found ==
  ASSUME Typed, NEW t \in Runs
  PROVE  LET q == Resources(t) IN
         /\ q \in Seq(Items) /\ Shaped(q)
         /\ Opens(q) <=> database[t] # "none"
         /\ RolesNext(q) => database[t] = "none" /\ roles[t] # {}
         /\ Covers(q, roles[t])
<1>0. roles[t] \in SUBSET Roles
  BY DEF Typed
<1>1. LoginRes \in Items /\ DatabaseRes \in Items /\ RoleRes(roles[t]) \in Items
  BY <1>0 DEF LoginRes, DatabaseRes, RoleRes, Items
<1>2. CASE database[t] = "none" /\ roles[t] = {}
  <2>1. Resources(t) = <<LoginRes>>
    BY <1>2 DEF Resources, LoginRes
  <2> QED
    BY <1>1, <1>2, <2>1 DEF Shaped, Opens, RolesNext, Covers, LoginRes
<1>3. CASE database[t] # "none" /\ roles[t] = {}
  <2>1. Resources(t) = <<DatabaseRes, LoginRes>>
    BY <1>1, <1>3, Joined DEF Resources, LoginRes, DatabaseRes
  <2> QED
    BY <1>1, <1>3, <2>1 DEF Shaped, Opens, RolesNext, Covers, DatabaseRes
<1>4. CASE database[t] = "none" /\ roles[t] # {}
  <2>1. Resources(t) = <<RoleRes(roles[t]), LoginRes>>
    BY <1>1, <1>4, Joined DEF Resources, LoginRes, RoleRes
  <2> QED
    BY <1>0, <1>1, <1>4, <2>1 DEF Shaped, Opens, RolesNext, Covers, RoleRes
<1>5. CASE database[t] # "none" /\ roles[t] # {}
  <2>1. Resources(t) = <<DatabaseRes, RoleRes(roles[t]), LoginRes>>
    <3>1. Resources(t) = <<DatabaseRes>> \o <<RoleRes(roles[t])>> \o <<LoginRes>>
      BY <1>5 DEF Resources, LoginRes, RoleRes, DatabaseRes
    <3> QED
      BY <1>1, <3>1, Joined
  <2> QED
    BY <1>0, <1>1, <1>5, <2>1 DEF Shaped, Opens, RolesNext, Covers, DatabaseRes
<1> QED
  BY <1>2, <1>3, <1>4, <1>5
-----------------------------------------------------------------------------
(* What a step leaves alone.                                                *)

\* Nothing of t changes but what it may lose: its session, or one inside.
Kept(t) ==
  /\ phase'[t] = phase[t] /\ database'[t] = database[t] /\ roles'[t] = roles[t]
  /\ t \in session' => t \in session
  /\ t \in inside' => t \in inside
  /\ t \in login => t \in login'
  /\ t \in left => t \in left'
  /\ t \in raced => t \in raced'

LEMMA RunKept ==
  ASSUME NEW t \in Runs, RunOK(t), Kept(t)
  PROVE  RunOK(t)'
BY DEF RunOK, Kept

LEMMA SweepKept ==
  ASSUME NEW s \in Runs, NEW t \in Runs, SweepOK(s, t),
         todo'[s][t] = todo[s][t], phase'[s] = phase[s],
         t \in session' => t \in session, phase'[t] \in Early => phase[t] \in Early,
         database'[t] # "none" => database[t] # "none", roles'[t] \subseteq roles[t],
         t \in raced => t \in raced'
  PROVE  SweepOK(s, t)'
<1>1. PICK q : q = todo[s][t]
  OBVIOUS
<1>2. todo'[s][t] = q
  BY <1>1
<1>3. Shaped(q) /\ (More(q) => phase[t] \notin Early)
  BY <1>1 DEF SweepOK
<1>4. ASSUME q # <<>>, t \notin raced' PROVE (database'[t] # "none" => Opens(q)) /\ Covers(q, roles'[t])
  <2>1. (database[t] # "none" => Opens(q)) /\ Covers(q, roles[t])
    BY <1>1, <1>4 DEF SweepOK
  <2> QED
    BY <2>1, CoversLess
<1>5. /\ q # <<>> => phase'[s] \in {"sessions", "remove"}
      /\ q # <<>> /\ phase'[s] = "remove" => t \notin session'
      /\ More(q) => phase'[t] \notin Early
      /\ RolesNext(q) => database'[t] = "none"
  BY <1>1, <1>3 DEF SweepOK
<1> QED
  BY <1>2, <1>3, <1>4, <1>5 DEF SweepOK

\* An empty list says nothing.
LEMMA SweepEmpty ==
  ASSUME NEW s, NEW t, todo'[s][t] = <<>>
  PROVE  SweepOK(s, t)'
<1>1. Shaped(<<>>) /\ ~Opens(<<>>) /\ ~RolesNext(<<>>)
  BY DEF Shaped, Opens, RolesNext
<1> QED
  BY <1>1 DEF SweepOK, More

\* Outside a sweep a run's list is empty.
LEMMA NotSweeping ==
  ASSUME IInv, NEW r \in Runs, phase[r] \notin {"sessions", "remove"}, NEW t \in Runs
  PROVE  todo[r][t] = <<>>
BY DEF IInv, SweepOK

\* A step of r that sweeps nothing.
LEMMA OwnStep ==
  ASSUME IInv, Typed', NEW r \in Runs, phase[r] \notin {"sessions", "remove"}, todo' = todo,
         \A t \in Runs \ {r} : Kept(t), RunOK(r)',
         phase'[r] \in Early => phase[r] \in Early,
         r \in session' => r \in session, r \in raced => r \in raced',
         database'[r] # "none" => database[r] # "none" \/ phase[r] \in Early,
         \/ (database'[r] # "none" => database[r] # "none") /\ roles'[r] \subseteq roles[r]
         \/ \A s \in Runs : todo[s][r] # <<>> => r \in raced'
  PROVE  IInv'
<1>1. \A t \in Runs : RunOK(t)'
  BY RunKept DEF IInv
<1>2. ASSUME NEW s \in Runs, NEW t \in Runs PROVE SweepOK(s, t)'
  <2>0. SweepOK(s, t)
    BY DEF IInv
  <2>1. CASE s = r
    BY <2>1, NotSweeping, SweepEmpty
  <2>2. CASE s # r /\ t # r
    BY <2>0, <2>2, SweepKept DEF Kept
  <2>3. CASE s # r /\ t = r
    <3>0. phase'[s] = phase[s]
      BY <2>3 DEF Kept
    <3>1. CASE (database'[r] # "none" => database[r] # "none") /\ roles'[r] \subseteq roles[r]
      BY <2>0, <2>3, <3>0, <3>1, SweepKept
    <3>2. CASE todo[s][r] # <<>> => r \in raced'
      <4>1. PICK q : q = todo[s][r]
        OBVIOUS
      <4>2. todo'[s][r] = q
        BY <4>1
      <4>3. /\ Shaped(q) /\ (q # <<>> => phase[s] \in {"sessions", "remove"})
            /\ (q # <<>> /\ phase[s] = "remove" => r \notin session)
            /\ (More(q) => phase[r] \notin Early) /\ (RolesNext(q) => database[r] = "none")
        BY <2>0, <2>3, <4>1 DEF SweepOK
      <4>4. RolesNext(q) => database'[r] = "none"
        BY <4>3 DEF More
      <4>5. q # <<>> => r \in raced'
        BY <3>2, <4>1
      <4> QED
        BY <2>3, <3>0, <4>2, <4>3, <4>4, <4>5 DEF SweepOK
    <3> QED
      BY <3>1, <3>2
  <2> QED
    BY <2>1, <2>2, <2>3
<1> QED
  BY <1>1, <1>2 DEF IInv

\* A step of r that changes its list and its phase.
LEMMA SweepStep ==
  ASSUME IInv, Typed', NEW r \in Runs, NEW p \in Early, phase[r] \in Early, phase' = [phase EXCEPT ![r] = p],
         p # "database",
         UNCHANGED <<session, cluster, inside, left, raced>>,
         \A s \in Runs \ {r} : todo'[s] = todo[s], \A t \in Runs : SweepOK(r, t)'
  PROVE  IInv'
<1>0. phase \in [Runs -> Phases]
  BY DEF IInv, Typed
<1>1. phase'[r] = p /\ \A t \in Runs \ {r} : phase'[t] = phase[t]
  BY <1>0
<1>2. UNCHANGED <<session, login, database, roles, inside, left, raced>>
  BY DEF cluster
<1>3. \A t \in Runs \ {r} : RunOK(t)'
  BY <1>1, <1>2, RunKept DEF IInv, Kept
<1>4. RunOK(r)'
  <2>1. RunOK(r)
    BY DEF IInv
  <2> QED
    BY <1>1, <1>2, <2>1 DEF RunOK, Early
<1>5. ASSUME NEW s \in Runs \ {r}, NEW t \in Runs PROVE SweepOK(s, t)'
  <2>1. SweepOK(s, t)
    BY DEF IInv
  <2>2. phase'[t] \in Early => phase[t] \in Early
    BY <1>1
  <2> QED
    BY <1>1, <1>2, <2>1, <2>2, SweepKept
<1> QED
  BY <1>3, <1>4, <1>5 DEF IInv
-----------------------------------------------------------------------------
(* The sweep.                                                               *)

LEMMA NothingListed ==
  ASSUME NEW t \in Runs
  PROVE  Nothing[t] = <<>> /\ Nothing \in [Runs -> Seq(Items)]
BY DEF Nothing

LEMMA FaultTyped ==
  ASSUME Typed, Fault \/ UNCHANGED faults
  PROVE  faults' \in 0..MaxFaults
BY FaultsAssumption DEF Typed, Fault

LEMMA InitHolds ==
  ASSUME Init
  PROVE  IInv
<1>1. Nothing \in [Runs -> Seq(Items)]
  BY DEF Nothing
<1>2. Typed
  <2>1. todo \in [Runs -> [Runs -> Seq(Items)]]
    BY <1>1 DEF Init
  <2>2. faults \in 0..MaxFaults
    BY FaultsAssumption DEF Init
  <2> QED
    BY <2>1, <2>2 DEF Init, Typed, Phases
<1>3. ASSUME NEW t \in Runs PROVE RunOK(t)
  BY DEF Init, RunOK
<1>4. ASSUME NEW s \in Runs, NEW t \in Runs PROVE SweepOK(s, t)
  <2>1. todo[s][t] = <<>>
    BY DEF Init, Nothing
  <2>2. Shaped(<<>>) /\ ~Opens(<<>>) /\ ~RolesNext(<<>>)
    BY DEF Shaped, Opens, RolesNext
  <2> QED
    BY <2>1, <2>2 DEF SweepOK, More
<1> QED
  BY <1>2, <1>3, <1>4 DEF IInv

LEMMA ConnectKeeps ==
  ASSUME IInv, NEW r \in Runs, Connect(r)
  PROVE  IInv'
<1>1. /\ phase[r] \in {"new", "gone"} /\ Fresh(r) /\ phase' = [phase EXCEPT ![r] = "list"]
      /\ session' = session \cup {r} /\ left' = left \ {r} /\ raced' = raced \ {r}
      /\ UNCHANGED <<login, database, roles, inside, todo, faults>>
  BY DEF Connect, Goto, cluster
<1>2. Typed'
  BY <1>1 DEF IInv, Typed, Phases, Sweeping
<1>3. phase'[r] = "list" /\ \A t \in Runs \ {r} : phase'[t] = phase[t]
  BY <1>1 DEF IInv, Typed
<1>4. database[r] = "none" /\ roles[r] = {} /\ r \notin inside /\ \A s \in Runs : todo[s][r] = <<>>
  BY <1>1 DEF Fresh, Residue
<1>5. ASSUME NEW t \in Runs PROVE RunOK(t)'
  <2>1. CASE t = r
    BY <1>1, <1>3, <1>4, <2>1 DEF RunOK, Early
  <2>2. CASE t # r
    BY <1>1, <1>3, <2>2, RunKept DEF IInv, Kept
  <2> QED
    BY <2>1, <2>2
<1>6. ASSUME NEW s \in Runs, NEW t \in Runs PROVE SweepOK(s, t)'
  <2>1. CASE t = r
    BY <1>1, <1>4, <2>1, SweepEmpty
  <2>2. CASE s = r
    BY <1>1, <2>2, NotSweeping, SweepEmpty
  <2>3. CASE s # r /\ t # r
    BY <1>1, <1>3, <2>3, SweepKept DEF IInv
  <2> QED
    BY <2>1, <2>2, <2>3
<1> QED
  BY <1>2, <1>5, <1>6 DEF IInv

LEMMA ListKeeps ==
  ASSUME IInv, NEW r \in Runs, List(r)
  PROVE  IInv'
<1>0. /\ phase \in [Runs -> Phases] /\ todo \in [Runs -> [Runs -> Seq(Items)]] /\ Typed
  BY DEF IInv, Typed
<1>1. PICK w : w = [t \in Runs |-> IF t # r /\ t \in login THEN Resources(t) ELSE <<>>]
  OBVIOUS
<1>2. /\ phase[r] = "list" /\ todo' = [todo EXCEPT ![r] = w]
      /\ UNCHANGED <<session, cluster, inside, left, raced, faults>>
      /\ Goto(r, IF todo'[r] = Nothing THEN "login" ELSE "sessions")
  BY <1>1 DEF List
<1>3. w \in [Runs -> Seq(Items)]
  <2>1. \A t \in Runs : Resources(t) \in Seq(Items)
    BY <1>0, Found
  <2> QED
    BY <1>1, <2>1
<1>4. todo' \in [Runs -> [Runs -> Seq(Items)]] /\ todo'[r] = w /\ \A s \in Runs \ {r} : todo'[s] = todo[s]
  BY <1>0, <1>2, <1>3
<1>5. PICK p \in {"login", "sessions"} : phase' = [phase EXCEPT ![r] = p] /\ (p = "login" <=> w = Nothing)
  BY <1>2, <1>4 DEF Goto
<1>6. Typed'
  BY <1>0, <1>2, <1>4, <1>5 DEF Typed, cluster, Phases, Sweeping, Creating
<1>7. phase'[r] = p /\ \A t \in Runs \ {r} : phase'[t] = phase[t]
  BY <1>0, <1>5
<1>8. UNCHANGED <<session, login, database, roles, inside, left, raced>>
  BY <1>2 DEF cluster
<1>9. ASSUME NEW t \in Runs PROVE SweepOK(r, t)'
  <2>1. CASE w[t] = <<>>
    BY <1>4, <2>1, SweepEmpty
  <2>2. CASE w[t] # <<>>
    <3>1. t # r /\ w[t] = Resources(t)
      BY <1>1, <2>2
    <3>2. p = "sessions"
      BY <1>5, <2>2, NothingListed
    <3>3. PICK q : q = Resources(t)
      OBVIOUS
    <3>4. /\ Shaped(q) /\ (Opens(q) <=> database[t] # "none")
          /\ (RolesNext(q) => database[t] = "none" /\ roles[t] # {}) /\ Covers(q, roles[t])
      BY <1>0, <3>3, Found
    <3>5. More(q) => phase[t] \notin Early
      <4>1. RunOK(t)
        BY DEF IInv
      <4> QED
        BY <3>4, <4>1 DEF More, RunOK
    <3>6. todo'[r][t] = q
      BY <1>4, <3>1, <3>3
    <3> QED
      BY <1>7, <1>8, <3>1, <3>2, <3>4, <3>5, <3>6 DEF SweepOK
  <2> QED
    BY <2>1, <2>2
<1> QED
  BY <1>2, <1>4, <1>5, <1>6, <1>9, SweepStep DEF Early

LEMMA ReadSessionsKeeps ==
  ASSUME IInv, NEW r \in Runs, ReadSessions(r)
  PROVE  IInv'
<1>0. /\ phase \in [Runs -> Phases] /\ todo \in [Runs -> [Runs -> Seq(Items)]] /\ Typed
  BY DEF IInv, Typed
<1>1. PICK seen \in Readings :
         /\ Fault \/ UNCHANGED faults
         /\ todo' = [todo EXCEPT ![r] =
              [t \in Runs |-> IF Liveness(r, t, seen) = "dead" THEN todo[r][t] ELSE <<>>]]
  BY DEF ReadSessions
<1>2. /\ phase[r] = "sessions" /\ phase' = [phase EXCEPT ![r] = "remove"]
      /\ UNCHANGED <<session, cluster, inside, left, raced>>
  BY DEF ReadSessions, Goto
<1>3. /\ \A t \in Runs : todo'[r][t] = IF Liveness(r, t, seen) = "dead" THEN todo[r][t] ELSE <<>>
      /\ \A s \in Runs \ {r} : todo'[s] = todo[s]
      /\ todo' \in [Runs -> [Runs -> Seq(Items)]]
  BY <1>0, <1>1
<1>4. Typed'
  BY <1>0, <1>1, <1>2, <1>3, FaultTyped DEF Typed, cluster, Phases, Sweeping
<1>5. phase'[r] = "remove" /\ \A t \in Runs \ {r} : phase'[t] = phase[t]
  BY <1>0, <1>2
<1>6. UNCHANGED <<session, login, database, roles, inside, left, raced>>
  BY <1>2 DEF cluster
<1>7. ASSUME NEW t \in Runs PROVE SweepOK(r, t)'
  <2>1. CASE todo'[r][t] = <<>>
    BY <2>1, SweepEmpty
  <2>2. CASE todo'[r][t] # <<>>
    <3>1. t \notin session /\ todo'[r][t] = todo[r][t]
      BY <1>1, <1>3, <2>2 DEF Liveness, Readings
    <3>2. SweepOK(r, t)
      BY DEF IInv
    <3>3. phase'[t] \in Early => phase[t] \in Early
      BY <1>2, <1>5 DEF Early
    <3> QED
      BY <1>5, <1>6, <3>1, <3>2, <3>3 DEF SweepOK
  <2> QED
    BY <2>1, <2>2
<1> QED
  BY <1>2, <1>3, <1>4, <1>7, SweepStep DEF Early

LEMMA UnreadKeeps ==
  ASSUME IInv, NEW r \in Runs, Unread(r)
  PROVE  IInv'
<1>0. /\ phase \in [Runs -> Phases] /\ todo \in [Runs -> [Runs -> Seq(Items)]] /\ Typed
  BY DEF IInv, Typed
<1>1. /\ phase[r] \in {"list", "sessions"} /\ todo' = [todo EXCEPT ![r] = Nothing]
      /\ phase' = [phase EXCEPT ![r] = "login"]
      /\ UNCHANGED <<session, cluster, inside, left, raced>> /\ (Fault \/ UNCHANGED faults)
  BY DEF Unread, Goto, Refused
<1>2. /\ todo'[r] = Nothing /\ \A s \in Runs \ {r} : todo'[s] = todo[s]
      /\ todo' \in [Runs -> [Runs -> Seq(Items)]]
  BY <1>0, <1>1, NothingListed
<1>3. Typed'
  BY <1>0, <1>1, <1>2, FaultTyped DEF Typed, cluster, Phases, Creating
<1>4. \A t \in Runs : SweepOK(r, t)'
  BY <1>2, NothingListed, SweepEmpty
<1> QED
  BY <1>1, <1>2, <1>3, <1>4, SweepStep DEF Early

LEMMA EndSweepKeeps ==
  ASSUME IInv, NEW r \in Runs, EndSweep(r)
  PROVE  IInv'
<1>1. /\ phase[r] = "remove" /\ todo[r] = Nothing /\ phase' = [phase EXCEPT ![r] = "login"]
      /\ UNCHANGED <<session, cluster, inside, left, todo, raced, faults>>
  BY DEF EndSweep, Goto
<1>2. Typed'
  BY <1>1 DEF IInv, Typed, cluster, Phases, Creating
<1>3. \A t \in Runs : SweepOK(r, t)'
  BY <1>1, NothingListed, SweepEmpty
<1> QED
  BY <1>1, <1>2, <1>3, SweepStep DEF Early

\* A removal takes only what the list still names.
LEMMA RemoveKeeps ==
  ASSUME IInv, NEW r \in Runs, NEW t \in Runs, Remove(r, t)
  PROVE  IInv'
<1>0. /\ phase \in [Runs -> Phases] /\ todo \in [Runs -> [Runs -> Seq(Items)]] /\ Typed
      /\ database \in [Runs -> {"none", "unowned", "owned"}] /\ roles \in [Runs -> SUBSET Roles]
      /\ login \subseteq Runs /\ RunOK(t) /\ SweepOK(r, t)
  BY DEF IInv, Typed
<1>1. PICK q \in Seq(Items) : q = todo[r][t]
  BY <1>0
<1>2. PICK d : d = Head(q)
  OBVIOUS
<1>3. /\ phase[r] = "remove" /\ q # <<>> /\ Droppable(t, d.kind)
      /\ login' = (IF d.kind = "login" THEN login \ {t} ELSE login)
      /\ database' = (IF d.kind = "database" THEN [database EXCEPT ![t] = "none"] ELSE database)
      /\ roles' = [roles EXCEPT ![t] = roles[t] \ d.names]
      /\ todo' = [todo EXCEPT ![r][t] = Tail(q)]
      /\ UNCHANGED <<session, phase, inside, left, raced, faults>>
  BY <1>1, <1>2 DEF Remove, Drop
<1>4. /\ Shaped(Tail(q)) /\ ~Opens(Tail(q)) /\ (RolesNext(Tail(q)) => Opens(q))
      /\ d \in Items /\ (d.kind \in {"database", "login"} => d.names = {})
      /\ (d.kind = "login" => Tail(q) = <<>> /\ ~Opens(q))
      /\ (Opens(q) <=> d.kind = "database") /\ (RolesNext(q) <=> d.kind = "role")
  BY <1>0, <1>1, <1>2, <1>3, Pop DEF SweepOK
<1>5. Tail(q) \in Seq(Items)
  BY <1>1, <1>3
<1>6. /\ todo' \in [Runs -> [Runs -> Seq(Items)]] /\ todo'[r][t] = Tail(q)
      /\ \A s, u \in Runs : (s # r \/ u # t) => todo'[s][u] = todo[s][u]
  <2>1. PICK w : w = [todo[r] EXCEPT ![t] = Tail(q)]
    OBVIOUS
  <2>2. w \in [Runs -> Seq(Items)] /\ w[t] = Tail(q) /\ \A u \in Runs : u # t => w[u] = todo[r][u]
    BY <1>0, <1>5, <2>1
  <2>3. todo' = [todo EXCEPT ![r] = w]
    BY <1>3, <2>1
  <2> QED
    BY <1>0, <2>2, <2>3
<1>7. /\ \A u \in Runs \ {t} : database'[u] = database[u] /\ roles'[u] = roles[u]
                               /\ (u \in login => u \in login')
      /\ database'[t] = (IF d.kind = "database" THEN "none" ELSE database[t])
      /\ roles'[t] = roles[t] \ d.names
      /\ login' \subseteq Runs /\ database' \in [Runs -> {"none", "unowned", "owned"}]
      /\ roles' \in [Runs -> SUBSET Roles]
  BY <1>0, <1>3
<1>8. Typed'
  BY <1>0, <1>3, <1>6, <1>7 DEF Typed
<1>9. t \notin session
  BY <1>0, <1>1, <1>3 DEF SweepOK
<1>10. t \notin raced =>
          /\ database[t] # "none" => Opens(q)
          /\ Covers(Tail(q), roles[t] \ d.names)
          /\ d.kind = "login" => roles[t] = {}
  BY <1>0, <1>1, <1>2, <1>3, CoversRest DEF SweepOK
<1>11. ASSUME NEW u \in Runs PROVE RunOK(u)'
  <2>1. CASE u # t
    <3>1. Kept(u)
      BY <1>3, <1>7, <2>1 DEF Kept
    <3> QED
      BY <3>1, RunKept DEF IInv
  <2>2. CASE u = t
    <3>1. t \in inside => database'[t] = "owned"
      BY <1>0, <1>3, <1>7 DEF RunOK, Droppable
    <3>2. t \notin raced /\ (database'[t] # "none" \/ roles'[t] # {}) => t \in login'
      <4>1. CASE d.kind = "login"
        BY <1>4, <1>7, <1>10, <4>1
      <4>2. CASE d.kind # "login"
        BY <1>0, <1>3, <1>7, <4>2 DEF RunOK
      <4> QED
        BY <4>1, <4>2
    <3>3. database'[t] \in {"none", database[t]} /\ roles'[t] \subseteq roles[t]
      BY <1>7
    <3> QED
      BY <1>0, <1>3, <1>9, <2>2, <3>1, <3>2, <3>3 DEF RunOK
  <2> QED
    BY <2>1, <2>2
<1>12. ASSUME NEW s \in Runs, NEW u \in Runs PROVE SweepOK(s, u)'
  <2>1. CASE s = r /\ u = t
    <3>1. PICK w : w = Tail(q)
      OBVIOUS
    <3>2. /\ Shaped(w) /\ ~Opens(w) /\ (RolesNext(w) => Opens(q)) /\ todo'[r][t] = w
          /\ (t \notin raced => Covers(w, roles'[t]))
      BY <1>4, <1>6, <1>7, <1>10, <3>1
    <3>3. RolesNext(w) => database'[t] = "none" /\ phase[t] \notin Early
      BY <1>0, <1>1, <1>4, <1>7, <3>2 DEF SweepOK, More
    <3>4. w # <<>> /\ t \notin raced => database'[t] = "none"
      <4>1. CASE d.kind = "database"
        BY <1>7, <4>1
      <4>2. CASE d.kind # "database"
        BY <1>4, <1>7, <1>10, <4>2
      <4> QED
        BY <4>1, <4>2
    <3> QED
      BY <1>3, <1>9, <2>1, <3>2, <3>3, <3>4 DEF SweepOK, More
  <2>2. CASE s # r \/ u # t
    <3>1. SweepOK(s, u)
      BY DEF IInv
    <3>2. (database'[u] # "none" => database[u] # "none") /\ roles'[u] \subseteq roles[u]
      BY <1>7
    <3> QED
      BY <1>3, <1>6, <2>2, <3>1, <3>2, SweepKept
  <2> QED
    BY <2>1, <2>2
<1> QED
  BY <1>8, <1>11, <1>12 DEF IInv

LEMMA RemoveFailsKeeps ==
  ASSUME IInv, NEW r \in Runs, NEW t \in Runs, RemoveFails(r, t)
  PROVE  IInv'
<1>0. /\ todo \in [Runs -> [Runs -> Seq(Items)]] /\ Typed /\ roles \in [Runs -> SUBSET Roles] /\ RunOK(t)
  BY DEF IInv, Typed
<1>1. PICK gone : roles' = [roles EXCEPT ![t] = roles[t] \ gone]
  BY DEF RemoveFails
<1>2. /\ todo' = [todo EXCEPT ![r][t] = <<>>] /\ (Fault \/ UNCHANGED faults)
      /\ UNCHANGED <<session, phase, login, database, inside, left, raced>>
  BY DEF RemoveFails, AfterFailure, Refused
<1>3. /\ todo' \in [Runs -> [Runs -> Seq(Items)]] /\ todo'[r][t] = <<>>
      /\ \A s, u \in Runs : (s # r \/ u # t) => todo'[s][u] = todo[s][u]
  <2>1. PICK w : w = [todo[r] EXCEPT ![t] = <<>>]
    OBVIOUS
  <2>2. w \in [Runs -> Seq(Items)] /\ w[t] = <<>> /\ \A u \in Runs : u # t => w[u] = todo[r][u]
    BY <1>0, <2>1
  <2>3. todo' = [todo EXCEPT ![r] = w]
    BY <1>2, <2>1
  <2> QED
    BY <1>0, <2>2, <2>3
<1>4. /\ \A u \in Runs \ {t} : roles'[u] = roles[u]
      /\ roles'[t] \subseteq roles[t] /\ roles' \in [Runs -> SUBSET Roles]
  BY <1>0, <1>1
<1>5. Typed'
  BY <1>0, <1>2, <1>3, <1>4, FaultTyped DEF Typed
<1>6. ASSUME NEW u \in Runs PROVE RunOK(u)'
  <2>1. CASE u # t
    <3>1. Kept(u)
      BY <1>2, <1>4, <2>1 DEF Kept
    <3> QED
      BY <3>1, RunKept DEF IInv
  <2>2. CASE u = t
    BY <1>0, <1>2, <1>4, <2>2 DEF RunOK
  <2> QED
    BY <2>1, <2>2
<1>7. ASSUME NEW s \in Runs, NEW u \in Runs PROVE SweepOK(s, u)'
  <2>1. CASE s = r /\ u = t
    BY <1>3, <2>1, SweepEmpty
  <2>2. CASE s # r \/ u # t
    <3>1. SweepOK(s, u)
      BY DEF IInv
    <3>2. roles'[u] \subseteq roles[u]
      BY <1>4
    <3> QED
      BY <1>2, <1>3, <2>2, <3>1, <3>2, SweepKept
  <2> QED
    BY <2>1, <2>2
<1> QED
  BY <1>5, <1>6, <1>7 DEF IInv
-----------------------------------------------------------------------------
(* Provisioning and release.                                                *)

LEMMA CreateLoginKeeps ==
  ASSUME IInv, NEW r \in Runs, CreateLogin(r)
  PROVE  IInv'
<1>0. Typed /\ RunOK(r)
  BY DEF IInv
<1>1. /\ phase[r] = "login" /\ login' = login \cup {r} /\ phase' = [phase EXCEPT ![r] = "database"]
      /\ UNCHANGED <<session, database, roles, inside, left, todo, raced, faults>>
  BY DEF CreateLogin, Goto
<1>2. Typed'
  BY <1>0, <1>1 DEF Typed, Phases, Creating
<1>3. phase'[r] = "database" /\ \A t \in Runs \ {r} : phase'[t] = phase[t]
  BY <1>0, <1>1 DEF Typed
<1>4. \A t \in Runs \ {r} : Kept(t)
  BY <1>1, <1>3 DEF Kept
<1>5. RunOK(r)'
  BY <1>0, <1>1, <1>3 DEF RunOK, Early
<1> QED
  BY <1>1, <1>2, <1>4, <1>5, OwnStep DEF Early

LEMMA CreateDatabaseKeeps ==
  ASSUME IInv, NEW r \in Runs, CreateDatabase(r)
  PROVE  IInv'
<1>0. Typed /\ RunOK(r)
  BY DEF IInv
<1>1. /\ phase[r] = "database" /\ r \in session /\ database' = [database EXCEPT ![r] = "unowned"]
      /\ phase' = [phase EXCEPT ![r] = "owner"] /\ Outdates(r)
      /\ UNCHANGED <<session, login, roles, inside, left, todo, faults>>
  BY DEF CreateDatabase, Goto
<1>2. /\ raced' \subseteq Runs /\ raced \subseteq raced' /\ (\A t \in Runs \ {r} : t \in raced' => t \in raced)
      /\ \A s \in Runs : todo[s][r] # <<>> => r \in raced'
  BY <1>0, <1>1 DEF Typed, Outdates
<1>3. Typed'
  BY <1>0, <1>1, <1>2 DEF Typed, Phases, Creating
<1>4. /\ phase'[r] = "owner" /\ (\A t \in Runs \ {r} : phase'[t] = phase[t])
      /\ database'[r] = "unowned" /\ \A t \in Runs \ {r} : database'[t] = database[t]
  BY <1>0, <1>1 DEF Typed
<1>5. \A t \in Runs \ {r} : Kept(t)
  BY <1>1, <1>2, <1>4 DEF Kept
<1>6. RunOK(r)'
  BY <1>0, <1>1, <1>4 DEF RunOK, Early
<1> QED
  BY <1>1, <1>2, <1>3, <1>4, <1>5, <1>6, OwnStep DEF Early

LEMMA AlterOwnerKeeps ==
  ASSUME IInv, NEW r \in Runs, AlterOwner(r)
  PROVE  IInv'
<1>0. Typed /\ RunOK(r)
  BY DEF IInv
<1>1. /\ phase[r] = "owner" /\ r \in session /\ database' = [database EXCEPT ![r] = "owned"]
      /\ phase' = [phase EXCEPT ![r] = "enter"]
      /\ UNCHANGED <<session, login, roles, inside, left, todo, raced, faults>>
  BY DEF AlterOwner, Goto
<1>2. Typed'
  BY <1>0, <1>1 DEF Typed, Phases, Creating
<1>3. /\ phase'[r] = "enter" /\ (\A t \in Runs \ {r} : phase'[t] = phase[t])
      /\ database'[r] = "owned" /\ \A t \in Runs \ {r} : database'[t] = database[t]
  BY <1>0, <1>1 DEF Typed
<1>4. \A t \in Runs \ {r} : Kept(t)
  BY <1>1, <1>3 DEF Kept
<1>5. RunOK(r)' /\ database[r] # "none"
  BY <1>0, <1>1, <1>3 DEF RunOK, Early
<1> QED
  BY <1>1, <1>2, <1>3, <1>4, <1>5, OwnStep DEF Early

LEMMA EnterKeeps ==
  ASSUME IInv, NEW r \in Runs, Enter(r)
  PROVE  IInv'
<1>0. Typed /\ RunOK(r)
  BY DEF IInv
<1>1. /\ phase[r] = "enter" /\ database[r] # "none" /\ inside' = inside \cup {r}
      /\ phase' = [phase EXCEPT ![r] = "roles"]
      /\ UNCHANGED <<session, login, database, roles, left, todo, raced, faults>>
  BY DEF Enter, Goto, cluster
<1>2. Typed'
  BY <1>0, <1>1 DEF Typed, Phases, Creating
<1>3. phase'[r] = "roles" /\ \A t \in Runs \ {r} : phase'[t] = phase[t]
  BY <1>0, <1>1 DEF Typed
<1>4. \A t \in Runs \ {r} : Kept(t)
  BY <1>1, <1>3 DEF Kept
<1>5. RunOK(r)'
  BY <1>0, <1>1, <1>3 DEF RunOK, Early, Typed
<1> QED
  BY <1>1, <1>2, <1>3, <1>4, <1>5, OwnStep DEF Early

LEMMA CreateRolesKeeps ==
  ASSUME IInv, NEW r \in Runs, CreateRoles(r)
  PROVE  IInv'
<1>0. Typed /\ RunOK(r)
  BY DEF IInv
<1>1. PICK batch \in SUBSET Roles, p \in {"work", "roles"} :
         roles' = [roles EXCEPT ![r] = roles[r] \cup batch] /\ phase' = [phase EXCEPT ![r] = p]
  BY DEF CreateRoles, Goto
<1>2. /\ phase[r] = "roles" /\ r \in inside /\ Outdates(r)
      /\ UNCHANGED <<session, login, database, inside, left, todo, faults>>
  BY DEF CreateRoles
<1>3. /\ raced' \subseteq Runs /\ raced \subseteq raced'
      /\ \A s \in Runs : todo[s][r] # <<>> => r \in raced'
  BY <1>0, <1>2 DEF Typed, Outdates
<1>4. Typed'
  BY <1>0, <1>1, <1>2, <1>3 DEF Typed, Phases, Creating
<1>5. /\ phase'[r] = p /\ (\A t \in Runs \ {r} : phase'[t] = phase[t])
      /\ \A t \in Runs \ {r} : roles'[t] = roles[t]
  BY <1>0, <1>1 DEF Typed
<1>6. \A t \in Runs \ {r} : Kept(t)
  BY <1>2, <1>3, <1>5 DEF Kept
<1>7. RunOK(r)'
  BY <1>0, <1>2, <1>3, <1>5 DEF RunOK, Early
<1> QED
  BY <1>2, <1>3, <1>4, <1>5, <1>6, <1>7, OwnStep DEF Early

\* The run turns to its release.
LEMMA TurnKeeps ==
  ASSUME IInv, NEW r \in Runs, Resolve(r) \/ ProvisionFails(r)
  PROVE  IInv'
<1>0. Typed /\ RunOK(r)
  BY DEF IInv
<1>1. /\ phase[r] \in Creating /\ phase' = [phase EXCEPT ![r] = "drop_database"]
      /\ UNCHANGED <<session, login, database, roles, inside, left, todo, raced>>
      /\ Fault \/ UNCHANGED faults
  BY DEF Resolve, ProvisionFails, Refused, Goto, cluster, Creating
<1>2. Typed'
  BY <1>0, <1>1, FaultTyped DEF Typed, Phases, Releasing
<1>3. phase'[r] = "drop_database" /\ \A t \in Runs \ {r} : phase'[t] = phase[t]
  BY <1>0, <1>1 DEF Typed
<1>4. \A t \in Runs \ {r} : Kept(t)
  BY <1>1, <1>3 DEF Kept
<1>5. RunOK(r)'
  BY <1>0, <1>1, <1>3 DEF RunOK, Early
<1> QED
  BY <1>1, <1>2, <1>3, <1>4, <1>5, OwnStep DEF Early, Creating

LEMMA DropDatabaseKeeps ==
  ASSUME IInv, NEW r \in Runs, DropDatabase(r)
  PROVE  IInv'
<1>0. Typed /\ RunOK(r)
  BY DEF IInv
<1>1. /\ phase[r] = "drop_database" /\ database' = [database EXCEPT ![r] = "none"]
      /\ inside' = inside \ {r} /\ phase' = [phase EXCEPT ![r] = "drop_roles"]
      /\ UNCHANGED <<session, login, roles, left, todo, raced, faults>>
  BY DEF DropDatabase, Goto
<1>2. Typed'
  BY <1>0, <1>1 DEF Typed, Phases, Releasing
<1>3. /\ phase'[r] = "drop_roles" /\ (\A t \in Runs \ {r} : phase'[t] = phase[t])
      /\ database'[r] = "none" /\ \A t \in Runs \ {r} : database'[t] = database[t]
  BY <1>0, <1>1 DEF Typed
<1>4. \A t \in Runs \ {r} : Kept(t)
  BY <1>1, <1>3 DEF Kept
<1>5. RunOK(r)'
  BY <1>0, <1>1, <1>3 DEF RunOK, Early
<1> QED
  BY <1>1, <1>2, <1>3, <1>4, <1>5, OwnStep DEF Early

LEMMA DropDatabaseFailsKeeps ==
  ASSUME IInv, NEW r \in Runs, DropDatabaseFails(r)
  PROVE  IInv'
<1>0. Typed /\ RunOK(r)
  BY DEF IInv
<1>1. /\ phase[r] = "drop_database" /\ left' = left \cup {r}
      /\ phase' = [phase EXCEPT ![r] = "drop_roles"]
      /\ UNCHANGED <<session, login, database, roles, inside, todo, raced>>
      /\ Fault \/ UNCHANGED faults
  BY DEF DropDatabaseFails, Refused, Goto, cluster
<1>2. Typed'
  BY <1>0, <1>1, FaultTyped DEF Typed, Phases, Releasing
<1>3. phase'[r] = "drop_roles" /\ \A t \in Runs \ {r} : phase'[t] = phase[t]
  BY <1>0, <1>1 DEF Typed
<1>4. \A t \in Runs \ {r} : Kept(t)
  BY <1>1, <1>3 DEF Kept
<1>5. RunOK(r)'
  BY <1>0, <1>1, <1>3 DEF RunOK, Early
<1> QED
  BY <1>1, <1>2, <1>3, <1>4, <1>5, OwnStep DEF Early

LEMMA DropRolesKeeps ==
  ASSUME IInv, NEW r \in Runs, DropRoles(r)
  PROVE  IInv'
<1>0. Typed /\ RunOK(r)
  BY DEF IInv
<1>1. PICK stay \in SUBSET roles[r] : /\ roles' = [roles EXCEPT ![r] = stay]
                                      /\ (stay = {} /\ left' = left) \/ left' = left \cup {r}
  BY DEF DropRoles
<1>2. /\ phase[r] = "drop_roles" /\ phase' = [phase EXCEPT ![r] = "drop_login"]
      /\ UNCHANGED <<session, login, database, inside, todo, raced>>
      /\ Fault \/ UNCHANGED faults
  BY DEF DropRoles, Refused, Goto
<1>3. Typed'
  BY <1>0, <1>1, <1>2, FaultTyped DEF Typed, Phases, Releasing
<1>4. /\ phase'[r] = "drop_login" /\ (\A t \in Runs \ {r} : phase'[t] = phase[t])
      /\ roles'[r] = stay /\ \A t \in Runs \ {r} : roles'[t] = roles[t]
  BY <1>0, <1>1, <1>2 DEF Typed
<1>5. \A t \in Runs \ {r} : Kept(t)
  BY <1>1, <1>2, <1>4 DEF Kept
<1>6. RunOK(r)'
  BY <1>0, <1>1, <1>2, <1>4 DEF RunOK, Early
<1> QED
  BY <1>1, <1>2, <1>3, <1>4, <1>5, <1>6, OwnStep DEF Early

LEMMA DropLoginKeeps ==
  ASSUME IInv, NEW r \in Runs, DropLogin(r)
  PROVE  IInv'
<1>0. Typed /\ RunOK(r)
  BY DEF IInv
<1>1. /\ phase[r] = "drop_login" /\ phase' = [phase EXCEPT ![r] = "gone"]
      /\ UNCHANGED <<session, database, roles, inside, left, todo, raced>>
      /\ Fault \/ UNCHANGED faults
      /\ login' = login \/ (r \notin left /\ login' = login \ {r})
  BY DEF DropLogin, Refused, Goto, KeepsLogin
<1>2. Typed'
  BY <1>0, <1>1, FaultTyped DEF Typed, Phases
<1>3. phase'[r] = "gone" /\ \A t \in Runs \ {r} : phase'[t] = phase[t]
  BY <1>0, <1>1 DEF Typed
<1>4. \A t \in Runs \ {r} : Kept(t)
  BY <1>1, <1>3 DEF Kept
<1>5. RunOK(r)'
  BY <1>0, <1>1, <1>3 DEF RunOK, Early
<1> QED
  BY <1>1, <1>2, <1>3, <1>4, <1>5, OwnStep DEF Early
-----------------------------------------------------------------------------
(* What happens to a run.                                                   *)

LEMMA KillKeeps ==
  ASSUME IInv, NEW r \in Runs, Kill(r)
  PROVE  IInv'
<1>0. Typed
  BY DEF IInv
<1>1. /\ phase' = [phase EXCEPT ![r] = "gone"] /\ todo' = [todo EXCEPT ![r] = Nothing] /\ Fault
      /\ UNCHANGED <<session, login, database, roles, inside, left, raced>>
  BY DEF Kill, Goto, cluster
<1>2. Nothing \in [Runs -> Seq(Items)] /\ \A t \in Runs : Nothing[t] = <<>>
  BY DEF Nothing
<1>3. Typed'
  BY <1>0, <1>1, <1>2, FaultTyped DEF Typed, Phases
<1>4. /\ phase'[r] = "gone" /\ (\A t \in Runs \ {r} : phase'[t] = phase[t])
      /\ (\A t \in Runs : todo'[r][t] = <<>>) /\ \A s \in Runs \ {r} : todo'[s] = todo[s]
  BY <1>0, <1>1, <1>2 DEF Typed
<1>5. ASSUME NEW t \in Runs PROVE RunOK(t)'
  <2>0. RunOK(t)
    BY DEF IInv
  <2>1. CASE t = r
    BY <1>1, <1>4, <2>0, <2>1 DEF RunOK, Early
  <2>2. CASE t # r
    BY <1>1, <1>4, <2>0, <2>2, RunKept DEF Kept
  <2> QED
    BY <2>1, <2>2
<1>6. ASSUME NEW s \in Runs, NEW t \in Runs PROVE SweepOK(s, t)'
  <2>0. SweepOK(s, t)
    BY DEF IInv
  <2>1. CASE s = r
    BY <1>4, <2>1, SweepEmpty
  <2>2. CASE s # r
    <3>1. phase'[t] \in Early => phase[t] \in Early
      BY <1>4 DEF Early
    <3> QED
      BY <1>1, <1>4, <2>0, <2>2, <3>1, SweepKept
  <2> QED
    BY <2>1, <2>2
<1> QED
  BY <1>3, <1>5, <1>6 DEF IInv

\* A step that ends sessions at most.
LEMMA EndsKeep ==
  ASSUME IInv, session' \subseteq session, inside' \subseteq inside,
         UNCHANGED <<phase, login, database, roles, left, todo, raced>>,
         Fault \/ UNCHANGED faults
  PROVE  IInv'
<1>1. Typed'
  BY FaultTyped DEF IInv, Typed
<1>2. ASSUME NEW t \in Runs PROVE RunOK(t)'
  BY RunKept DEF IInv, Kept
<1>3. ASSUME NEW s \in Runs, NEW t \in Runs PROVE SweepOK(s, t)'
  <2>1. SweepOK(s, t)
    BY DEF IInv
  <2> QED
    BY <2>1, SweepKept
<1> QED
  BY <1>1, <1>2, <1>3 DEF IInv

LEMMA NextKeeps ==
  ASSUME IInv, [Next]_vars
  PROVE  IInv'
<1>1. CASE UNCHANGED vars
  BY <1>1, EndsKeep DEF vars
<1>2. ASSUME NEW r \in Runs, Connect(r) \/ Step(r) \/ Kill(r) \/ SessionEnds(r) \/ InsideEnds(r)
      PROVE  IInv'
  <2>1. CASE Connect(r)
    BY <2>1, ConnectKeeps
  <2>2. CASE List(r)
    BY <2>2, ListKeeps
  <2>3. CASE ReadSessions(r)
    BY <2>3, ReadSessionsKeeps
  <2>4. CASE Unread(r)
    BY <2>4, UnreadKeeps
  <2>5. ASSUME NEW t \in Runs, Remove(r, t) \/ RemoveFails(r, t) PROVE IInv'
    BY <2>5, RemoveKeeps, RemoveFailsKeeps
  <2>6. CASE EndSweep(r)
    BY <2>6, EndSweepKeeps
  <2>7. CASE CreateLogin(r)
    BY <2>7, CreateLoginKeeps
  <2>8. CASE CreateDatabase(r)
    BY <2>8, CreateDatabaseKeeps
  <2>9. CASE AlterOwner(r)
    BY <2>9, AlterOwnerKeeps
  <2>10. CASE Enter(r)
    BY <2>10, EnterKeeps
  <2>11. CASE CreateRoles(r)
    BY <2>11, CreateRolesKeeps
  <2>12. CASE Resolve(r) \/ ProvisionFails(r)
    BY <2>12, TurnKeeps
  <2>13. CASE DropDatabase(r)
    BY <2>13, DropDatabaseKeeps
  <2>14. CASE DropDatabaseFails(r)
    BY <2>14, DropDatabaseFailsKeeps
  <2>15. CASE DropRoles(r)
    BY <2>15, DropRolesKeeps
  <2>16. CASE DropLogin(r)
    BY <2>16, DropLoginKeeps
  <2>17. CASE Kill(r)
    BY <2>17, KillKeeps
  <2>18. CASE SessionEnds(r)
    BY <2>18, EndsKeep DEF SessionEnds, cluster
  <2>19. CASE InsideEnds(r)
    BY <2>19, EndsKeep DEF InsideEnds, cluster
  <2> QED
    BY <1>2, <2>1, <2>2, <2>3, <2>4, <2>5, <2>6, <2>7, <2>8, <2>9, <2>10, <2>11, <2>12,
       <2>13, <2>14, <2>15, <2>16, <2>17, <2>18, <2>19 DEF Step
<1> QED
  BY <1>1, <1>2 DEF Next
-----------------------------------------------------------------------------
(* The theorems.                                                            *)

\* What each run has at its point of the way, and what of each sweep's list
\* is still true, in every reachable state.
THEOREM Invariance == Spec => []IInv
<1>1. Init => IInv
  BY InitHolds
<1>2. IInv /\ [Next]_vars => IInv'
  BY NextKeeps
<1> QED
  BY <1>1, <1>2, PTL DEF Spec

\* The record outlives what it names: a database or a role on the server has a
\* login by which a later run's recovery finds it (recovery.rs), whatever is
\* killed, refused or lost, unless its run created something after a sweep had
\* listed it and has lost its session since.
THEOREM RecordOutlives == Spec => []RecordOutlivesUnraced
<1>1. IInv => RecordOutlivesUnraced
  <2> SUFFICES ASSUME IInv PROVE RecordOutlivesUnraced
    OBVIOUS
  <2>1. Typed
    BY DEF IInv
  <2>2. ASSUME NEW s \in Runs, NEW t \in Runs, NEW i \in 1..Len(todo[s][t])
        PROVE  todo[s][t][i] \in Items
    <3>1. todo[s][t] \in Seq(Items)
      BY <2>1 DEF Typed
    <3> QED
      BY <2>2, <3>1
  <2>3. inside \subseteq {r \in Runs : database[r] = "owned"}
    BY <2>1 DEF IInv, RunOK, Typed
  <2>4. TypeOK
    BY <2>1, <2>2, <2>3 DEF Typed, TypeOK, Items
  <2>5. \A t \in Runs : (t \in raced => t \in session) /\ (database[t] # "none" \/ roles[t] # {})
                         => t \in login
    BY DEF IInv, RunOK
  <2> QED
    BY <2>4, <2>5 DEF RecordOutlivesUnraced
<1> QED
  BY <1>1, Invariance, PTL
-----------------------------------------------------------------------------
(* What a step may take.                                                    *)

\* Nothing of t is taken.
Intact(t) ==
  /\ t \in login => t \in login'
  /\ database[t] # "none" => database'[t] # "none"
  /\ roles[t] \subseteq roles'[t]

\* A sweep takes nothing from a run that has a session.
LEMMA RemoveSpares ==
  ASSUME IInv, NEW r \in Runs, NEW t \in Runs, Remove(r, t) \/ RemoveFails(r, t),
         NEW u \in Runs, u \in session \cup inside
  PROVE  Intact(u)
<1>0. Typed /\ RunOK(t) /\ SweepOK(r, t)
  BY DEF IInv
<1>1. PICK q : q = todo[r][t]
  OBVIOUS
<1>2. phase[r] = "remove" /\ q # <<>>
  BY <1>1 DEF Remove, RemoveFails
<1>3. Shaped(q) /\ t \notin session /\ (RolesNext(q) => database[t] = "none")
  BY <1>0, <1>1, <1>2 DEF SweepOK
<1>4. CASE u # t
  <2>1. CASE Remove(r, t)
    BY <1>0, <1>4, <2>1 DEF Remove, Drop, Intact, Typed
  <2>2. CASE RemoveFails(r, t)
    BY <1>0, <1>4, <2>2 DEF RemoveFails, Intact, Typed
  <2> QED
    BY <2>1, <2>2
<1>5. CASE u = t
  <2>1. t \in inside /\ database[t] = "owned" /\ ~RolesNext(q)
    BY <1>0, <1>3, <1>5 DEF RunOK
  <2>2. Head(q).kind \in {"database", "login"} /\ Head(q).names = {}
    BY <1>2, <1>3, <2>1, Pop DEF Items
  <2>3. ~Remove(r, t)
    BY <1>1, <2>1, <2>2 DEF Remove, Droppable
  <2>4. roles' = [roles EXCEPT ![t] = roles[t] \ {}] /\ UNCHANGED <<login, database>>
    BY <1>1, <2>2, <2>3 DEF RemoveFails
  <2> QED
    BY <1>0, <1>5, <2>4 DEF Intact, Typed
<1> QED
  BY <1>4, <1>5

\* A run's own step takes nothing but while it releases, and nothing from
\* another.
LEMMA OwnSpares ==
  ASSUME IInv, NEW r \in Runs, Connect(r) \/ Step(r) \/ Kill(r) \/ SessionEnds(r) \/ InsideEnds(r),
         NEW u \in Runs, u \in session \cup inside, phase[u] \notin Releasing
  PROVE  Intact(u)
<1>0. Typed
  BY DEF IInv
<1>1. CASE \/ Connect(r) \/ List(r) \/ ReadSessions(r) \/ Unread(r) \/ EndSweep(r) \/ Enter(r)
           \/ Resolve(r) \/ ProvisionFails(r) \/ DropDatabaseFails(r)
           \/ Kill(r) \/ SessionEnds(r) \/ InsideEnds(r)
  <2>1. UNCHANGED <<login, database, roles>>
    BY <1>1 DEF Connect, List, ReadSessions, Unread, EndSweep, Enter, Resolve, ProvisionFails,
                DropDatabaseFails, Kill, SessionEnds, InsideEnds, cluster
  <2> QED
    BY <2>1 DEF Intact
<1>2. ASSUME NEW t \in Runs, Remove(r, t) \/ RemoveFails(r, t) PROVE Intact(u)
  BY <1>2, RemoveSpares
<1>3. CASE CreateLogin(r)
  BY <1>3 DEF CreateLogin, Intact
<1>4. CASE CreateDatabase(r)
  BY <1>0, <1>4 DEF CreateDatabase, Intact, Typed
<1>5. CASE AlterOwner(r)
  BY <1>0, <1>5 DEF AlterOwner, Intact, Typed
<1>6. CASE CreateRoles(r)
  <2>1. PICK batch : roles' = [roles EXCEPT ![r] = roles[r] \cup batch]
    BY <1>6 DEF CreateRoles
  <2> QED
    BY <1>0, <1>6, <2>1 DEF CreateRoles, Intact, Typed
<1>7. CASE DropDatabase(r)
  <2>1. u # r
    BY <1>7 DEF DropDatabase, Releasing
  <2> QED
    BY <1>0, <1>7, <2>1 DEF DropDatabase, Intact, Typed
<1>8. CASE DropRoles(r)
  <2>1. u # r
    BY <1>8 DEF DropRoles, Releasing
  <2>2. PICK stay : roles' = [roles EXCEPT ![r] = stay]
    BY <1>8 DEF DropRoles
  <2> QED
    BY <1>0, <1>8, <2>1, <2>2 DEF DropRoles, Intact, Typed
<1>9. CASE DropLogin(r)
  <2>1. u # r
    BY <1>9 DEF DropLogin, Releasing
  <2> QED
    BY <1>0, <1>9, <2>1 DEF DropLogin, Intact, Typed
<1> QED
  BY <1>1, <1>2, <1>3, <1>4, <1>5, <1>6, <1>7, <1>8, <1>9 DEF Step

\* No step takes a login, a database or a role from a run that still has a
\* session, the named one or one inside its database, unless that run is
\* releasing: the sweep of recovery.rs spares every live run, however the
\* listing, the reading of the sessions and the removals interleave with it.
THEOREM NothingTaken == Spec => NothingTakenFromRunning
<1>1. ASSUME IInv, [Next]_vars, NEW t \in Runs, t \in session \cup inside, phase[t] \notin Releasing
      PROVE  Intact(t)
  <2>1. CASE UNCHANGED vars
    BY <2>1 DEF vars, Intact
  <2>2. CASE Next
    BY <1>1, <2>2, OwnSpares DEF Next
  <2> QED
    BY <1>1, <2>1, <2>2
<1>2. IInv /\ [Next]_vars =>
        [\A t \in Runs:
           t \in session \cup inside /\ phase[t] \notin Releasing =>
             /\ t \in login => t \in login'
             /\ database[t] # "none" => database'[t] # "none"
             /\ roles[t] \subseteq roles'[t]]_vars
  BY <1>1 DEF Intact
<1> QED
  BY <1>2, Invariance, PTL DEF Spec, NothingTakenFromRunning
=============================================================================
