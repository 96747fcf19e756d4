--------------------------- MODULE RepublishProofs ---------------------------
(***************************************************************************)
(* Proofs about Republish for any number of publishers, files and faults.  *)
(* A publisher has no lock but the backup directory it created: what it    *)
(* knows of the files (HeldOK) is good because whoever moves, creates,     *)
(* removes or restores one has the backup (PlaceOK), and the user only     *)
(* creates.                                                                *)
(***************************************************************************)
EXTENDS Republish, WellFoundedInduction, TLAPS

Early == {"list", "look", "directory", "backup"}
Holding == {"save", "create", "write", "cleanup"}
Undoing == {"remove", "occupied", "rename", "drop_backup"}

Mine(p) == {Output(p), Partial(p)}

\* Where a publisher is, and what it then has.
PlaceOK(p) ==
  /\ pc[p] \in Early => moved[p] = {} /\ outputs[p] = {} /\ owner # p /\ p \notin failures
  /\ pc[p] \in Holding => owner = p /\ p \notin failures
  /\ pc[p] \in Undoing => owner = p \/ (moved[p] = {} /\ outputs[p] = {})
  /\ pc[p] = "rename" => moved[p] # {}
  /\ pc[p] \in {"occupied", "rename", "drop_backup", "drop_directory"} => outputs[p] = {}
  /\ pc[p] \in {"drop_backup", "drop_directory"} => moved[p] = {}

\* Until it fails or commits, a publisher knows every file it wrote.
KnownOK(p) ==
  pc[p] \in Early \cup Holding =>
    \A n \in Names: /\ at[n] \in Mine(p) => n \in outputs[p]
                    /\ saved[n] \notin Mine(p)

\* What is at a place, by what the publisher did there.
OutputsOK(p) ==
  /\ \A n \in outputs[p]: at[n] \in Mine(p)
  /\ pc[p] = "save" => outputs[p] = {} /\ moved[p] \subseteq present[p]
  /\ pc[p] \in {"create", "write", "cleanup"} => moved[p] = present[p] /\ outputs[p] \subseteq copies[p]
  /\ pc[p] = "cleanup" => outputs[p] = copies[p]
  /\ pc[p] \in {"create", "cleanup"} => \A n \in outputs[p]: at[n] = Output(p)
  /\ pc[p] = "write" => \E n \in outputs[p]: /\ at[n] = Partial(p)
                                             /\ \A m \in outputs[p] \ {n}: at[m] = Output(p)
  /\ pc[p] \in Holding => \A n \in moved[p] \ outputs[p]: at[n] \in {NoFile, Users}
  /\ pc[p] = "rename" => at[Max(moved[p])] \in {NoFile, Users}

\* What the backup holds, and what that says of before.
BackupOK(p) ==
  p \notin failures =>
    /\ \A n \in Names \ moved[p]: saved[n] = NoFile
    /\ \A n \in Names \ touched[p]:
         /\ n \in moved[p] => saved[n] = before[p][n] /\ (n \notin outputs[p] => at[n] = NoFile)
         /\ n \notin moved[p] => before[p][n] = IF n \in outputs[p] THEN NoFile ELSE at[n]

HeldOK(p) == owner = p /\ pc[p] \in Holding \cup Undoing => OutputsOK(p) /\ BackupOK(p)

RunOK(p) == PlaceOK(p) /\ KnownOK(p) /\ HeldOK(p)

IInv == TypeOK /\ \A p \in Publishers: RunOK(p)

-----------------------------------------------------------------------------
(***************************************************************************)
(* The least and the greatest name of a set are in it.                     *)
(***************************************************************************)
LEMMA Least == ASSUME NEW S \in SUBSET Nat, S # {} PROVE \E x \in S: \A y \in S: x =< y
<1> DEFINE R == OpToRel(<, Nat)
<1>1. \E x \in S: \A y \in S: ~ (<<y, x>> \in R)
  BY NatLessThanWellFounded, WFMin
<1>2. ASSUME NEW x \in Nat, NEW y \in Nat, y < x PROVE <<y, x>> \in R
  BY <1>2 DEF OpToRel
<1> HIDE DEF R
<1>3. PICK x \in S: \A y \in S: ~ (<<y, x>> \in R)
  BY <1>1
<1>4. \A y \in S: ~(y < x)
  BY <1>2, <1>3
<1>5. \A y \in S: x =< y
  BY <1>4
<1> QED
  BY <1>5

LEMMA MinIn == ASSUME NEW S \in SUBSET Names, S # {} PROVE Min(S) \in S
<1>1. S \in SUBSET Nat
  BY DEF Names
<1>2. \E x \in S: \A y \in S: x =< y
  BY <1>1, Least
<1> QED
  BY <1>2 DEF Min

LEMMA MaxIn == ASSUME NEW S \in SUBSET Names, S # {} PROVE Max(S) \in S
<1> DEFINE T == {NameCount - n: n \in S}
<1>0. NameCount \in Nat
  BY RepublishAssumption
<1>1. T \in SUBSET Nat
  <2>1. ASSUME NEW n \in S PROVE NameCount - n \in Nat
    BY <1>0 DEF Names
  <2> QED
    BY <2>1
<1>a. T # {}
  OBVIOUS
<1>2. PICK x \in T: \A y \in T: x =< y
  BY <1>1, <1>a, Least
<1>3. PICK n \in S: x = NameCount - n
  OBVIOUS
<1>4. \A m \in S: NameCount - n =< NameCount - m
  BY <1>2, <1>3
<1>5. \A m \in S: n >= m
  BY <1>0, <1>4 DEF Names
<1> QED
  BY <1>5 DEF Max

-----------------------------------------------------------------------------
(***************************************************************************)
(* What the invariant gives, and what one publisher's step leaves of the   *)
(* others.                                                                 *)
(***************************************************************************)
\* The files of one publisher, of another, of the user and no file differ.
LEMMA Distinct ==
  ASSUME NEW p \in Publishers
  PROVE  /\ NoFile \notin Mine(p) /\ Users \notin Mine(p) /\ Original \notin Mine(p)
         /\ Output(p) \in Mine(p) /\ Partial(p) \in Mine(p) /\ Output(p) # Partial(p)
         /\ NoFile # Users /\ p # NoOne
         /\ Mine(p) \subseteq Contents /\ NoFile \in Contents /\ Users \in Contents
         /\ \A q \in Publishers \ {p}: Mine(p) \cap Mine(q) = {}
<1>1. \A q \in Publishers: \A c \in Mine(q): c.by = q
  BY DEF Mine, Output, Partial
<1>2. /\ p # "no one" /\ p # "user" /\ p # "original" /\ NoOne = "no one"
      /\ NoFile.by = "no one" /\ Users.by = "user" /\ Original.by = "original"
  BY RepublishAssumption DEF NoFile, Users, Original, NoOne
<1>3. NoFile \notin Mine(p) /\ Users \notin Mine(p) /\ Original \notin Mine(p)
  BY <1>1, <1>2
<1>4. Output(p) \in Mine(p) /\ Partial(p) \in Mine(p) /\ Mine(p) \subseteq Contents
      /\ NoFile \in Contents /\ Users \in Contents
  BY DEF Mine, Contents
<1>5. Output(p) # Partial(p)
  BY DEF Output, Partial
<1>6. NoFile # Users /\ p # NoOne
  BY <1>2
<1>7. ASSUME NEW q \in Publishers \ {p} PROVE Mine(p) \cap Mine(q) = {}
  BY <1>1
<1> QED
  BY <1>3, <1>4, <1>5, <1>6, <1>7

LEMMA Facts ==
  ASSUME IInv, NEW p \in Publishers
  PROVE  /\ at \in [Names -> Contents] /\ saved \in [Names -> Contents]
         /\ owner \in Publishers \cup {NoOne} /\ NoOne \notin Publishers
         /\ pc \in [Publishers -> Places]
         /\ present \in [Publishers -> SUBSET Names] /\ copies \in [Publishers -> SUBSET Names]
         /\ moved \in [Publishers -> SUBSET Names] /\ outputs \in [Publishers -> SUBSET Names]
         /\ before \in [Publishers -> [Names -> Contents]]
         /\ touched \in [Publishers -> SUBSET Names]
         /\ failures \subseteq Publishers /\ made \subseteq Publishers
         /\ PlaceOK(p) /\ KnownOK(p) /\ HeldOK(p)
BY RepublishAssumption DEF IInv, TypeOK, RunOK, NoOne

LEMMA FaultBound ==
  ASSUME IInv, Fault \/ UNCHANGED faults PROVE faults' \in 0..MaxFaults
<1>1. faults \in 0..MaxFaults
  BY DEF IInv, TypeOK
<1>2. MaxFaults \in Nat
  BY RepublishAssumption
<1> QED
  BY <1>1, <1>2 DEF Fault

Others(p) ==
  \A q \in Publishers \ {p}:
    /\ pc'[q] = pc[q] /\ present'[q] = present[q] /\ copies'[q] = copies[q]
    /\ moved'[q] = moved[q] /\ outputs'[q] = outputs[q]
    /\ (q \in failures') = (q \in failures)
    /\ before'[q] = before[q] /\ touched'[q] = touched[q]

\* The files are left alone.
LEMMA StillStep ==
  ASSUME IInv, NEW p \in Publishers, TypeOK', Others(p), UNCHANGED <<at, saved, owner>>, RunOK(p)'
  PROVE  IInv'
<1>1. ASSUME NEW q \in Publishers, q # p PROVE RunOK(q)'
  <2>1. RunOK(q)
    BY DEF IInv
  <2>2. PlaceOK(q)' /\ KnownOK(q)'
    BY <1>1, <2>1 DEF RunOK, PlaceOK, KnownOK, Others
  <2>3. HeldOK(q)'
    BY <1>1, <2>1 DEF RunOK, HeldOK, OutputsOK, BackupOK, Others
  <2> QED
    BY <2>2, <2>3 DEF RunOK
<1> QED
  BY <1>1 DEF IInv

\* The publisher with the backup, or one that creates it, moves files about.
LEMMA HolderStep ==
  ASSUME IInv, NEW p \in Publishers, TypeOK', Others(p),
         owner \in {p, NoOne}, owner' \in {p, NoOne},
         \A n \in Names: {at'[n], saved'[n]} \subseteq {at[n], saved[n], NoFile} \cup Mine(p),
         RunOK(p)'
  PROVE  IInv'
<1>1. ASSUME NEW q \in Publishers, q # p PROVE RunOK(q)'
  <2>1. PlaceOK(q) /\ KnownOK(q) /\ owner # q /\ owner' # q
    BY <1>1, Facts
  <2>2. PlaceOK(q)'
    BY <1>1, <2>1 DEF PlaceOK, Others
  <2>3. KnownOK(q)'
    <3> SUFFICES ASSUME pc[q] \in Early \cup Holding, NEW n \in Names
                 PROVE  at'[n] \notin Mine(q) /\ saved'[n] \notin Mine(q)
      BY <1>1 DEF KnownOK, Others
    <3>1. at[n] \notin Mine(q) /\ saved[n] \notin Mine(q)
      BY <2>1 DEF PlaceOK, KnownOK
    <3>2. NoFile \notin Mine(q) /\ Mine(p) \cap Mine(q) = {}
      BY <1>1, Distinct
    <3> QED
      BY <3>1, <3>2
  <2> QED
    BY <2>1, <2>2, <2>3 DEF RunOK, HeldOK
<1> QED
  BY <1>1 DEF IInv

-----------------------------------------------------------------------------
(***************************************************************************)
(* One lemma per action.                                                   *)
(***************************************************************************)
LEMMA InitOK == Init => IInv
<1> SUFFICES ASSUME Init PROVE IInv
  OBVIOUS
<1>1. at \in [Names -> Contents] /\ saved \in [Names -> Contents] /\ Empty \in [Names -> Contents]
  BY DEF Init, Contents, Empty
<1>a. MaxFaults \in Nat
  BY RepublishAssumption
<1>2. 0 \in 0..MaxFaults
  BY <1>a
<1>3. TypeOK
  BY <1>1, <1>2 DEF Init, TypeOK, Places
<1>4. ASSUME NEW p \in Publishers PROVE RunOK(p)
  <2>1. pc[p] = "list" /\ moved[p] = {} /\ outputs[p] = {} /\ owner # p /\ failures = {}
    BY RepublishAssumption DEF Init, NoOne
  <2>2. \A n \in Names: at[n] \in {NoFile, Original} /\ saved[n] = NoFile
    BY DEF Init, Empty
  <2>3. KnownOK(p)
    BY <2>2, Distinct DEF KnownOK
  <2> QED
    BY <2>1, <2>3 DEF RunOK, PlaceOK, HeldOK, Early, Holding, Undoing
<1> QED
  BY <1>3, <1>4 DEF IInv

\* Steps that change where the publisher is, and no file.
LEMMA GotoStep ==
  ASSUME IInv, NEW p \in Publishers, NEW place \in Places, Goto(p, place),
         UNCHANGED <<disk, local, history>>, Fault \/ UNCHANGED faults, RunOK(p)'
  PROVE  IInv'
<1>1. pc' = [pc EXCEPT ![p] = place] /\ pc \in [Publishers -> Places]
  BY Facts DEF Goto
<1>2. Others(p)
  BY <1>1 DEF Others, local, history
<1>3. TypeOK'
  BY <1>1, FaultBound DEF IInv, TypeOK, disk, local, history
<1> QED
  BY <1>2, <1>3, StillStep DEF disk

\* A failure before the commit point starts the restoration.
LEMMA RestoreOK ==
  ASSUME IInv, NEW p \in Publishers, pc[p] \in Early \cup Holding, Restore(p),
         Fault \/ UNCHANGED faults
  PROVE  IInv'
<1>1. /\ pc'[p] = "remove" /\ "remove" \in Places /\ Goto(p, "remove")
      /\ UNCHANGED <<disk, local, history>>
  BY Facts DEF Restore, Goto, Places, Restoring
<1>2. PlaceOK(p)'
  BY <1>1, Facts DEF PlaceOK, Early, Holding, Undoing, local, disk
<1>3. KnownOK(p)'
  BY <1>1 DEF KnownOK, Early, Holding
<1>4. HeldOK(p)'
  <2> SUFFICES ASSUME owner = p PROVE OutputsOK(p)' /\ BackupOK(p)'
    BY <1>1 DEF HeldOK, disk
  <2>1. OutputsOK(p) /\ BackupOK(p)
    BY Facts DEF PlaceOK, HeldOK
  <2>2. OutputsOK(p)'
    BY <1>1, <2>1 DEF OutputsOK, Holding, local, disk
  <2>3. BackupOK(p)'
    BY <1>1, <2>1 DEF BackupOK, local, disk, history
  <2> QED
    BY <2>2, <2>3
<1> QED
  BY <1>1, <1>2, <1>3, <1>4, GotoStep DEF RunOK

LEMMA ListOK == ASSUME IInv, NEW p \in Publishers, List(p) PROVE IInv'
<1>1. /\ pc[p] = "list" /\ pc' = [pc EXCEPT ![p] = "look"] /\ pc'[p] = "look"
      /\ present' = [present EXCEPT ![p] = {n \in Names: There(n)}]
      /\ UNCHANGED <<disk, moved, outputs, made, failures, history, faults>>
  BY Facts DEF List, Goto
<1>2. PICK written \in SUBSET Names: copies' = [copies EXCEPT ![p] = written]
  BY DEF List
<1>3. TypeOK'
  <2>1. present' \in [Publishers -> SUBSET Names] /\ copies' \in [Publishers -> SUBSET Names]
        /\ pc' \in [Publishers -> Places]
    BY <1>1, <1>2, Facts DEF Places, Publishing
  <2> QED
    BY <1>1, <2>1 DEF IInv, TypeOK, disk, history
<1>4. Others(p)
  BY <1>1, <1>2, Facts DEF Others, history
<1>5. RunOK(p)'
  BY <1>1, Facts DEF RunOK, PlaceOK, KnownOK, HeldOK, Early, Holding, Undoing, disk
<1> QED
  BY <1>1, <1>3, <1>4, <1>5, StillStep DEF disk

LEMMA LookOK == ASSUME IInv, NEW p \in Publishers, Look(p) PROVE IInv'
<1>1. pc[p] = "look"
  BY DEF Look
<1>2. CASE Goto(p, "directory") /\ UNCHANGED <<disk, local, history, faults>>
  <2>1. pc'[p] = "directory" /\ "directory" \in Places
    BY <1>2, Facts DEF Goto, Places, Publishing
  <2>2. RunOK(p)'
    BY <1>1, <1>2, <2>1, Facts
       DEF RunOK, PlaceOK, KnownOK, HeldOK, Early, Holding, Undoing, disk, local
  <2> QED
    BY <1>2, <2>1, <2>2, GotoStep
<1>3. CASE Fails(owner = NoOne) /\ Restore(p)
  BY <1>1, <1>3, RestoreOK DEF Fails, Early
<1> QED
  BY <1>2, <1>3 DEF Look

LEMMA MakeDirectoryOK == ASSUME IInv, NEW p \in Publishers, MakeDirectory(p) PROVE IInv'
<1>1. pc[p] = "directory"
  BY DEF MakeDirectory
<1>2. CASE Fault /\ Restore(p)
  BY <1>1, <1>2, RestoreOK DEF Early
<1>3. CASE ~(Fault /\ Restore(p))
  <2>1. /\ pc' = [pc EXCEPT ![p] = "backup"] /\ pc'[p] = "backup" /\ dir' = TRUE
        /\ made' \subseteq Publishers
        /\ UNCHANGED <<at, owner, saved, present, copies, moved, outputs, failures, history, faults>>
    BY <1>3, Facts DEF MakeDirectory, Goto
  <2>2. TypeOK'
    BY <2>1, FaultBound DEF IInv, TypeOK, Places, Publishing, history
  <2>3. Others(p)
    BY <2>1, Facts DEF Others, history
  <2>4. RunOK(p)'
    BY <1>1, <2>1, Facts DEF RunOK, PlaceOK, KnownOK, HeldOK, Early, Holding, Undoing
  <2> QED
    BY <2>1, <2>2, <2>3, <2>4, StillStep
<1> QED
  BY <1>2, <1>3

\* The backup directory is created: the history starts here.
LEMMA MakeBackupOK == ASSUME IInv, NEW p \in Publishers, MakeBackup(p) PROVE IInv'
<1>1. pc[p] = "backup" /\ moved[p] = {} /\ outputs[p] = {} /\ p \notin failures
  BY Facts DEF MakeBackup, PlaceOK, Early
<1>2. CASE Fails(dir /\ owner = NoOne) /\ Restore(p)
  BY <1>1, <1>2, RestoreOK DEF Early, Fails
<1>3. CASE ~(Fails(dir /\ owner = NoOne) /\ Restore(p))
  <2>1. /\ pc' = [pc EXCEPT ![p] = "save"] /\ pc'[p] = "save" /\ dir /\ owner = NoOne /\ owner' = p
        /\ before' = [before EXCEPT ![p] = at] /\ before'[p] = at
        /\ touched' = [touched EXCEPT ![p] = {}]
        /\ UNCHANGED <<dir, at, saved, local, faults>>
    BY <1>3, Facts DEF MakeBackup, Goto
  <2>2. TypeOK'
    <3>1. /\ pc' \in [Publishers -> Places] /\ before' \in [Publishers -> [Names -> Contents]]
          /\ touched' \in [Publishers -> SUBSET Names] /\ owner' # NoOne
      BY <2>1, Facts DEF Places, Publishing
    <3> QED
      BY <2>1, <3>1, FaultBound DEF IInv, TypeOK, local
  <2>3. Others(p)
    BY <2>1, Facts DEF Others, local
  <2>4. PlaceOK(p)'
    BY <1>1, <2>1 DEF PlaceOK, Early, Holding, Undoing, local
  <2>5. KnownOK(p)'
    BY <1>1, <2>1, Facts DEF KnownOK, Early, Holding, local
  <2>6. \A n \in Names: saved[n] = NoFile
    BY <2>1 DEF IInv, TypeOK, Empty
  <2>7. OutputsOK(p)'
    BY <1>1, <2>1 DEF OutputsOK, local
  <2>8. BackupOK(p)'
    BY <1>1, <2>1, <2>6 DEF BackupOK, local
  <2>9. RunOK(p)'
    BY <2>4, <2>5, <2>7, <2>8 DEF RunOK, HeldOK
  <2> QED
    BY <2>1, <2>2, <2>3, <2>9, HolderStep
<1> QED
  BY <1>2, <1>3

\* A listed file is moved into the backup.
LEMMA SaveOK == ASSUME IInv, NEW p \in Publishers, Save(p) PROVE IInv'
<1> USE DEF Early, Holding, Undoing
<1>1. /\ pc[p] = "save" /\ owner = p /\ p \notin failures /\ outputs[p] = {}
      /\ moved[p] \subseteq present[p] /\ OutputsOK(p) /\ BackupOK(p) /\ KnownOK(p)
  BY Facts DEF Save, PlaceOK, HeldOK, OutputsOK
<1> DEFINE n == Min(present[p] \ moved[p])
<1>2. CASE Restore(p) /\ (Fault \/ UNCHANGED faults)
  BY <1>1, <1>2, RestoreOK
<1>3. CASE /\ present[p] \ moved[p] = {} /\ Goto(p, "create")
           /\ UNCHANGED <<disk, local, history, faults>>
  <2>1. pc'[p] = "create" /\ "create" \in Places /\ moved[p] = present[p]
    BY <1>1, <1>3, Facts DEF Goto, Places, Publishing
  <2>2. PlaceOK(p)' /\ KnownOK(p)'
    BY <1>1, <1>3, <2>1 DEF PlaceOK, KnownOK, disk, local
  <2>3. OutputsOK(p)'
    BY <1>1, <1>3, <2>1 DEF OutputsOK, disk, local
  <2>4. BackupOK(p)'
    BY <1>1, <1>3 DEF BackupOK, disk, local, history
  <2> QED
    BY <1>3, <2>1, <2>2, <2>3, <2>4, GotoStep DEF RunOK, HeldOK
<1>4. CASE /\ present[p] \ moved[p] # {} /\ There(n)
           /\ saved' = [saved EXCEPT ![n] = at[n]]
           /\ at' = [at EXCEPT ![n] = NoFile]
           /\ moved' = [moved EXCEPT ![p] = @ \cup {n}]
           /\ UNCHANGED <<dir, owner, pc, present, copies, outputs, made, failures, history, faults>>
  <2>0. present[p] \ moved[p] \in SUBSET Names
    BY Facts
  <2>a. n \in present[p] \ moved[p]
    BY <1>4, <2>0, MinIn
  <2>1. n \in present[p] /\ n \notin moved[p] /\ n \in Names
    BY <2>0, <2>a
  <2> HIDE DEF n
  <2>2. moved'[p] = moved[p] \cup {n}
    BY <1>4, Facts
  <2>3. \A m \in Names: /\ at'[m] = IF m = n THEN NoFile ELSE at[m]
                        /\ saved'[m] = IF m = n THEN at[n] ELSE saved[m]
    BY <1>4, Facts
  <2>4. at[n] # NoFile
    BY <1>4 DEF There
  <2>5. TypeOK'
    <3>1. /\ at' \in [Names -> Contents] /\ saved' \in [Names -> Contents]
          /\ moved' \in [Publishers -> SUBSET Names] /\ NoOne \notin Publishers
      BY <1>4, <2>1, Facts, Distinct
    <3> QED
      BY <1>1, <1>4, <3>1 DEF IInv, TypeOK, history
  <2>6. Others(p)
    BY <1>4, Facts DEF Others, history
  <2>7. PlaceOK(p)'
    BY <1>1, <1>4 DEF PlaceOK
  <2>8. KnownOK(p)'
    BY <1>1, <1>4, <2>1, <2>3, Distinct DEF KnownOK
  <2>9. OutputsOK(p)'
    BY <1>1, <1>4, <2>1, <2>2, <2>3, Facts DEF OutputsOK
  <2>10. BackupOK(p)'
    BY <1>1, <1>4, <2>1, <2>2, <2>3 DEF BackupOK, history
  <2>11. RunOK(p)'
    BY <1>1, <1>4, <2>7, <2>8, <2>9, <2>10 DEF RunOK, HeldOK
  <2> QED
    BY <1>1, <1>4, <2>3, <2>5, <2>6, <2>11, HolderStep
<1> QED
  BY <1>2, <1>3, <1>4 DEF Save, Fails

\* A new declaration is created, and tracked at once.
LEMMA CreateOK == ASSUME IInv, NEW p \in Publishers, Create(p) PROVE IInv'
<1> USE DEF Early, Holding, Undoing
<1>1. /\ pc[p] = "create" /\ owner = p /\ p \notin failures
      /\ outputs[p] \subseteq copies[p] /\ OutputsOK(p) /\ BackupOK(p) /\ KnownOK(p)
      /\ moved[p] = present[p]
  BY Facts DEF Create, PlaceOK, HeldOK, OutputsOK
<1> DEFINE n == Min(copies[p] \ outputs[p])
<1>2. CASE Restore(p) /\ (Fault \/ UNCHANGED faults)
  BY <1>1, <1>2, RestoreOK
<1>3. CASE /\ copies[p] \ outputs[p] = {} /\ Goto(p, "cleanup")
           /\ UNCHANGED <<disk, local, history, faults>>
  <2>1. pc'[p] = "cleanup" /\ "cleanup" \in Places /\ outputs[p] = copies[p]
    BY <1>1, <1>3, Facts DEF Goto, Places, Publishing
  <2>2. PlaceOK(p)' /\ KnownOK(p)'
    BY <1>1, <1>3, <2>1 DEF PlaceOK, KnownOK, disk, local
  <2>3. OutputsOK(p)'
    BY <1>1, <1>3, <2>1 DEF OutputsOK, disk, local
  <2>4. BackupOK(p)'
    BY <1>1, <1>3 DEF BackupOK, disk, local, history
  <2> QED
    BY <1>3, <2>1, <2>2, <2>3, <2>4, GotoStep DEF RunOK, HeldOK
<1>4. CASE /\ copies[p] \ outputs[p] # {} /\ ~There(n)
           /\ at' = [at EXCEPT ![n] = Partial(p)]
           /\ outputs' = [outputs EXCEPT ![p] = @ \cup {n}]
           /\ Goto(p, "write")
           /\ UNCHANGED <<dir, owner, saved, present, copies, moved, made, failures, history, faults>>
  <2>0. copies[p] \ outputs[p] \in SUBSET Names
    BY Facts
  <2>a. n \in copies[p] \ outputs[p]
    BY <1>4, <2>0, MinIn
  <2>1. n \in copies[p] /\ n \notin outputs[p] /\ n \in Names
    BY <2>0, <2>a
  <2> HIDE DEF n
  <2>2. outputs'[p] = outputs[p] \cup {n} /\ pc' = [pc EXCEPT ![p] = "write"] /\ pc'[p] = "write"
    BY <1>4, Facts DEF Goto
  <2>3. \A m \in Names: at'[m] = IF m = n THEN Partial(p) ELSE at[m]
    BY <1>4, Facts
  <2>4. at[n] = NoFile
    BY <1>4 DEF There
  <2>5. TypeOK'
    <3>1. /\ at' \in [Names -> Contents] /\ outputs' \in [Publishers -> SUBSET Names]
          /\ pc' \in [Publishers -> Places] /\ NoOne \notin Publishers
      BY <1>4, <2>1, <2>2, Facts, Distinct DEF Places, Publishing
    <3> QED
      BY <1>1, <1>4, <3>1 DEF IInv, TypeOK, history
  <2>6. Others(p)
    BY <1>4, <2>2, Facts DEF Others, history
  <2>7. PlaceOK(p)'
    BY <1>1, <1>4, <2>2 DEF PlaceOK
  <2>8. KnownOK(p)'
    BY <1>1, <1>4, <2>1, <2>2, <2>3, Distinct DEF KnownOK
  <2>9. OutputsOK(p)'
    <3>1. at'[n] = Partial(p) /\ n \in outputs'[p]
      BY <2>1, <2>2, <2>3
    <3>2. \A m \in outputs'[p] \ {n}: m \in Names /\ at'[m] = Output(p) /\ m \in outputs[p]
      BY <1>1, <2>2, <2>3, Facts DEF OutputsOK
    <3>3. outputs'[p] \subseteq copies'[p] /\ moved'[p] = present'[p]
      BY <1>1, <1>4, <2>1, <2>2
    <3>4. \A m \in moved'[p] \ outputs'[p]: at'[m] \in {NoFile, Users}
      BY <1>1, <1>4, <2>2, <2>3, Facts DEF OutputsOK
    <3>5. \A m \in outputs'[p]: at'[m] \in Mine(p)
      BY <3>1, <3>2, Distinct
    <3> QED
      BY <2>2, <3>1, <3>2, <3>3, <3>4, <3>5 DEF OutputsOK
  <2>10. BackupOK(p)'
    BY <1>1, <1>4, <2>1, <2>2, <2>3, <2>4 DEF BackupOK, history
  <2>11. RunOK(p)'
    BY <1>1, <1>4, <2>2, <2>7, <2>8, <2>9, <2>10 DEF RunOK, HeldOK
  <2>12. \A m \in Names: {at'[m], saved'[m]} \subseteq {at[m], saved[m], NoFile} \cup Mine(p)
    BY <1>4, <2>3, Distinct
  <2> QED
    BY <1>1, <1>4, <2>5, <2>6, <2>11, <2>12, HolderStep
<1> QED
  BY <1>2, <1>3, <1>4 DEF Create, Fails

\* The one file that is not whole is the one just created.
LEMMA TheWritten ==
  ASSUME IInv, NEW p \in Publishers, pc[p] = "write"
  PROVE  LET n == Max({m \in Names: at[m] = Partial(p)})
         IN  /\ n \in outputs[p] /\ n \in Names /\ at[n] = Partial(p)
             /\ \A m \in outputs[p] \ {n}: at[m] = Output(p)
<1> DEFINE S == {m \in Names: at[m] = Partial(p)}
           n == Max(S)
<1>1. PICK k \in outputs[p]: at[k] = Partial(p) /\ \A m \in outputs[p] \ {k}: at[m] = Output(p)
  BY Facts DEF PlaceOK, HeldOK, OutputsOK, Holding
<1>2. k \in Names
  BY Facts
<1>3. \A m \in S: m \in outputs[p]
  BY Facts, Distinct DEF KnownOK, Holding
<1>4. \A m \in S: m = k
  BY <1>1, <1>3, Distinct
<1>5. n \in S
  <2>1. S \in SUBSET Names /\ S # {}
    BY <1>1, <1>2
  <2> QED
    BY <2>1, MaxIn
<1>6. n = k
  BY <1>4, <1>5
<1> QED
  BY <1>1, <1>2, <1>6

LEMMA WriteOK == ASSUME IInv, NEW p \in Publishers, Write(p) PROVE IInv'
<1> USE DEF Early, Holding, Undoing
<1>1. /\ pc[p] = "write" /\ owner = p /\ p \notin failures
      /\ OutputsOK(p) /\ BackupOK(p) /\ KnownOK(p) /\ PlaceOK(p)
  BY Facts DEF Write, PlaceOK, HeldOK
<1>2. CASE Restore(p) /\ (Fault \/ UNCHANGED faults)
  BY <1>1, <1>2, RestoreOK
<1>3. CASE ~(Restore(p) /\ (Fault \/ UNCHANGED faults))
  <2> DEFINE n == Max({m \in Names: at[m] = Partial(p)})
  <2>1. /\ n \in outputs[p] /\ n \in Names /\ at[n] = Partial(p)
        /\ \A m \in outputs[p] \ {n}: at[m] = Output(p)
    BY <1>1, TheWritten
  <2>2. /\ at' = [at EXCEPT ![n] = Output(p)]
        /\ outputs' = [outputs EXCEPT ![p] = @ \cup {n}]
        /\ Goto(p, "create")
        /\ UNCHANGED <<dir, owner, saved, present, copies, moved, made, failures, history, faults>>
    BY <1>3 DEF Write
  <2> HIDE DEF n
  <2>3. /\ pc' = [pc EXCEPT ![p] = "create"] /\ pc'[p] = "create"
        /\ outputs' = outputs
    BY <2>1, <2>2, Facts DEF Goto
  <2>4. \A m \in Names: at'[m] = IF m = n THEN Output(p) ELSE at[m]
    BY <2>1, <2>2, Facts
  <2>5. TypeOK'
    <3>1. /\ at' \in [Names -> Contents]
          /\ pc' \in [Publishers -> Places] /\ NoOne \notin Publishers
      BY <2>1, <2>2, <2>3, Facts, Distinct DEF Places, Publishing
    <3> QED
      BY <1>1, <2>2, <2>3, <3>1 DEF IInv, TypeOK, history
  <2>6. Others(p)
    BY <2>2, <2>3, Facts DEF Others, history
  <2>7. PlaceOK(p)'
    BY <1>1, <2>2, <2>3 DEF PlaceOK
  <2>8. KnownOK(p)'
    BY <1>1, <2>1, <2>2, <2>3, <2>4, Distinct DEF KnownOK
  <2>9. OutputsOK(p)'
    <3>1. \A m \in outputs[p]: m \in Names /\ at'[m] = Output(p) /\ at'[m] \in Mine(p)
      BY <2>1, <2>4, Facts, Distinct
    <3>2. \A m \in moved[p] \ outputs[p]: at'[m] \in {NoFile, Users}
      BY <1>1, <2>1, <2>4, Facts DEF OutputsOK
    <3> QED
      BY <1>1, <2>2, <2>3, <3>1, <3>2 DEF OutputsOK
  <2>10. BackupOK(p)'
    BY <1>1, <2>1, <2>2, <2>3, <2>4 DEF BackupOK, history
  <2>11. RunOK(p)'
    BY <1>1, <2>2, <2>3, <2>7, <2>8, <2>9, <2>10 DEF RunOK, HeldOK
  <2>12. \A m \in Names: {at'[m], saved'[m]} \subseteq {at[m], saved[m], NoFile} \cup Mine(p)
    BY <2>2, <2>4, Distinct
  <2> QED
    BY <1>1, <2>2, <2>5, <2>6, <2>11, <2>12, HolderStep
<1> QED
  BY <1>2, <1>3

\* The commit: the backup goes.
LEMMA CleanupOK == ASSUME IInv, NEW p \in Publishers, Cleanup(p) PROVE IInv'
<1>1. /\ pc[p] = "cleanup" /\ owner = p /\ pc' = [pc EXCEPT ![p] = "published"]
      /\ pc'[p] = "published" /\ UNCHANGED <<dir, at, local, history>>
      /\ Fault \/ UNCHANGED faults
  BY Facts DEF Cleanup, Goto, PlaceOK, Holding
<1>2. /\ saved' \in [Names -> Contents] /\ owner' \in {p, NoOne} /\ (owner' = NoOne => saved' = Empty)
      /\ \A n \in Names: saved'[n] \in {saved[n], NoFile}
  <2>1. CASE owner' = NoOne /\ saved' = Empty
    BY <2>1, Distinct DEF Empty
  <2>2. ASSUME UNCHANGED owner, NEW gone \in SUBSET Names,
               saved' = [n \in Names |-> IF n \in gone THEN NoFile ELSE saved[n]]
        PROVE  /\ saved' \in [Names -> Contents] /\ owner' \in {p, NoOne}
               /\ owner' = NoOne => saved' = Empty
               /\ \A n \in Names: saved'[n] \in {saved[n], NoFile}
    BY <1>1, <2>2, Facts, Distinct
  <2> QED
    BY <2>1, <2>2 DEF Cleanup
<1>3. TypeOK'
  <2>1. pc' \in [Publishers -> Places] /\ NoOne \notin Publishers
    BY <1>1, Facts DEF Places, Ended
  <2> QED
    BY <1>1, <1>2, <2>1, FaultBound DEF IInv, TypeOK, local, history
<1>4. Others(p)
  BY <1>1, Facts DEF Others, local, history
<1>5. RunOK(p)'
  BY <1>1 DEF RunOK, PlaceOK, KnownOK, HeldOK, Early, Holding, Undoing
<1> QED
  BY <1>1, <1>2, <1>3, <1>4, <1>5, HolderStep

LEMMA KillOK == ASSUME IInv, NEW p \in Publishers, Kill(p) PROVE IInv'
<1>1. pc'[p] = "killed" /\ "killed" \in Places
  BY Facts DEF Kill, Goto, Places, Ended
<1>2. RunOK(p)'
  BY <1>1 DEF RunOK, PlaceOK, KnownOK, HeldOK, Early, Holding, Undoing
<1> QED
  BY <1>1, <1>2, GotoStep DEF Kill

\* An output is taken back.
LEMMA RemoveOK == ASSUME IInv, NEW p \in Publishers, Remove(p) PROVE IInv'
<1> USE DEF Early, Holding, Undoing
<1>1. pc[p] = "remove" /\ PlaceOK(p) /\ HeldOK(p)
  BY Facts DEF Remove
<1>2. CASE outputs[p] = {}
  <2>1. /\ pc'[p] = "occupied" /\ "occupied" \in Places /\ Goto(p, "occupied")
        /\ UNCHANGED <<disk, local, history, faults>>
    BY <1>2, Facts DEF Remove, Goto, Places, Restoring
  <2>2. PlaceOK(p)' /\ KnownOK(p)'
    BY <1>1, <1>2, <2>1 DEF PlaceOK, KnownOK, disk, local
  <2>3. HeldOK(p)'
    BY <1>1, <1>2, <2>1 DEF HeldOK, OutputsOK, BackupOK, disk, local, history
  <2> QED
    BY <2>1, <2>2, <2>3, GotoStep DEF RunOK
<1>3. CASE outputs[p] # {}
  <2> DEFINE n == Max(outputs[p])
  <2>0. outputs[p] \in SUBSET Names
    BY Facts
  <2>1. n \in outputs[p] /\ n \in Names
    BY <1>3, <2>0, MaxIn
  <2>2. /\ owner = p /\ OutputsOK(p) /\ BackupOK(p)
    BY <1>1, <1>3 DEF PlaceOK, HeldOK
  <2>3. /\ outputs' = [outputs EXCEPT ![p] = @ \ {n}]
        /\ \/ at' = [at EXCEPT ![n] = NoFile] /\ UNCHANGED <<failures, faults>>
           \/ Fault /\ failures' = failures \cup {p} /\ UNCHANGED at
        /\ UNCHANGED <<dir, owner, saved, pc, present, copies, moved, made, history>>
    BY <1>3 DEF Remove, Incomplete
  <2> HIDE DEF n
  <2>4. /\ outputs'[p] = outputs[p] \ {n} /\ failures' \in {failures, failures \cup {p}}
        /\ \A m \in Names: at'[m] = at[m] \/ (m = n /\ at'[m] = NoFile)
        /\ p \notin failures' => at'[n] = NoFile /\ p \notin failures
    BY <2>1, <2>3, Facts
  <2>5. TypeOK'
    <3>1. /\ at' \in [Names -> Contents] /\ outputs' \in [Publishers -> SUBSET Names]
          /\ NoOne \notin Publishers /\ failures' \subseteq Publishers
      BY <2>1, <2>3, Facts, Distinct
    <3> QED
      BY <2>2, <2>3, <3>1, FaultBound DEF IInv, TypeOK, history
  <2>6. Others(p)
    BY <2>3, Facts DEF Others, history
  <2>7. PlaceOK(p)' /\ KnownOK(p)'
    BY <1>1, <2>2, <2>3, <2>4 DEF PlaceOK, KnownOK
  <2>8. OutputsOK(p)'
    BY <1>1, <2>0, <2>2, <2>3, <2>4 DEF OutputsOK
  <2>9. BackupOK(p)'
    BY <2>1, <2>2, <2>3, <2>4 DEF BackupOK, history
  <2>10. RunOK(p)'
    BY <2>7, <2>8, <2>9 DEF RunOK, HeldOK
  <2>11. \A m \in Names: {at'[m], saved'[m]} \subseteq {at[m], saved[m], NoFile} \cup Mine(p)
    BY <2>3, <2>4
  <2> QED
    BY <2>2, <2>3, <2>5, <2>6, <2>10, <2>11, HolderStep
<1> QED
  BY <1>2, <1>3

\* The place of a moved file is looked at.
LEMMA OccupiedOK == ASSUME IInv, NEW p \in Publishers, Occupied(p) PROVE IInv'
<1> USE DEF Early, Holding, Undoing
<1>1. pc[p] = "occupied" /\ PlaceOK(p) /\ HeldOK(p) /\ outputs[p] = {}
  BY Facts DEF Occupied, PlaceOK
<1>2. CASE moved[p] = {} /\ Goto(p, "drop_backup") /\ UNCHANGED <<disk, local, history, faults>>
  <2>1. pc'[p] = "drop_backup" /\ "drop_backup" \in Places
    BY <1>2, Facts DEF Goto, Places, Restoring
  <2>2. PlaceOK(p)' /\ KnownOK(p)'
    BY <1>1, <1>2, <2>1 DEF PlaceOK, KnownOK, disk, local
  <2>3. HeldOK(p)'
    BY <1>1, <1>2, <2>1 DEF HeldOK, OutputsOK, BackupOK, disk, local, history
  <2> QED
    BY <1>2, <2>1, <2>2, <2>3, GotoStep DEF RunOK
<1>3. CASE /\ moved[p] # {} /\ ~There(Max(moved[p]))
           /\ Goto(p, "rename") /\ UNCHANGED <<disk, local, history, faults>>
  <2>1. pc'[p] = "rename" /\ "rename" \in Places /\ at[Max(moved[p])] = NoFile
    BY <1>3, Facts DEF Goto, Places, Restoring, There
  <2>2. PlaceOK(p)' /\ KnownOK(p)'
    BY <1>1, <1>3, <2>1 DEF PlaceOK, KnownOK, disk, local
  <2>3. HeldOK(p)'
    BY <1>1, <1>3, <2>1 DEF HeldOK, OutputsOK, BackupOK, disk, local, history
  <2> QED
    BY <1>3, <2>1, <2>2, <2>3, GotoStep DEF RunOK
<1>4. CASE /\ moved[p] # {} /\ Fails(~There(Max(moved[p])))
           /\ moved' = [moved EXCEPT ![p] = @ \ {Max(@)}]
           /\ Incomplete(p)
           /\ UNCHANGED <<disk, pc, present, copies, outputs, made, history>>
  <2>1. /\ moved' \in [Publishers -> SUBSET Names]
        /\ \A q \in Publishers \ {p}: moved'[q] = moved[q]
        /\ failures' = failures \cup {p}
    BY <1>4, Facts DEF Incomplete
  <2>2. TypeOK'
    BY <1>4, <2>1, FaultBound DEF IInv, TypeOK, Fails, disk, history
  <2>3. Others(p)
    BY <1>4, <2>1 DEF Others, history
  <2>4. PlaceOK(p)' /\ KnownOK(p)'
    BY <1>1, <1>4 DEF PlaceOK, KnownOK, disk
  <2>5. HeldOK(p)'
    BY <1>1, <1>4, <2>1 DEF HeldOK, OutputsOK, BackupOK
  <2> QED
    BY <1>4, <2>2, <2>3, <2>4, <2>5, StillStep DEF RunOK, disk
<1> QED
  BY <1>2, <1>3, <1>4 DEF Occupied

\* A moved file is renamed back.
LEMMA RenameOK == ASSUME IInv, NEW p \in Publishers, Rename(p) PROVE IInv'
<1> USE DEF Early, Holding, Undoing
<1>1. /\ pc[p] = "rename" /\ owner = p /\ moved[p] # {} /\ outputs[p] = {}
      /\ PlaceOK(p) /\ OutputsOK(p) /\ BackupOK(p)
  BY Facts DEF Rename, PlaceOK, HeldOK
<1> DEFINE n == Max(moved[p])
<1>2. moved[p] \in SUBSET Names
  BY Facts
<1>3. n \in moved[p] /\ n \in Names
  BY <1>1, <1>2, MaxIn
<1>4. /\ moved' = [moved EXCEPT ![p] = @ \ {n}] /\ pc' = [pc EXCEPT ![p] = "occupied"]
      /\ \/ /\ at' = [at EXCEPT ![n] = saved[n]] /\ saved' = [saved EXCEPT ![n] = NoFile]
            /\ UNCHANGED <<failures, faults>>
         \/ Fault /\ failures' = failures \cup {p} /\ UNCHANGED <<at, saved>>
      /\ UNCHANGED <<dir, owner, present, copies, outputs, made, history>>
  BY DEF Rename, Goto, Incomplete
<1> HIDE DEF n
<1>5. /\ moved'[p] = moved[p] \ {n} /\ pc'[p] = "occupied"
      /\ failures' \in {failures, failures \cup {p}}
      /\ \A m \in Names: \/ at'[m] = at[m] /\ saved'[m] = saved[m]
                         \/ m = n /\ at'[m] = saved[m] /\ saved'[m] = NoFile
      /\ p \notin failures' => at'[n] = saved[n] /\ saved'[n] = NoFile /\ p \notin failures
  BY <1>3, <1>4, Facts
<1>6. TypeOK'
  <2>1. /\ at' \in [Names -> Contents] /\ saved' \in [Names -> Contents]
        /\ moved' \in [Publishers -> SUBSET Names] /\ pc' \in [Publishers -> Places]
        /\ NoOne \notin Publishers /\ failures' \subseteq Publishers
    BY <1>3, <1>4, Facts, Distinct DEF Places, Restoring
  <2> QED
    BY <1>1, <1>4, <2>1, FaultBound DEF IInv, TypeOK, history
<1>7. Others(p)
  BY <1>4, Facts DEF Others, history
<1>8. PlaceOK(p)' /\ KnownOK(p)'
  BY <1>1, <1>4, <1>5 DEF PlaceOK, KnownOK
<1>9. OutputsOK(p)'
  BY <1>1, <1>4, <1>5 DEF OutputsOK
<1>10. BackupOK(p)'
  BY <1>1, <1>3, <1>4, <1>5 DEF BackupOK, history
<1>11. RunOK(p)'
  BY <1>8, <1>9, <1>10 DEF RunOK, HeldOK
<1>12. \A m \in Names: {at'[m], saved'[m]} \subseteq {at[m], saved[m], NoFile} \cup Mine(p)
  BY <1>5
<1> QED
  BY <1>1, <1>4, <1>6, <1>7, <1>11, <1>12, HolderStep

LEMMA DropBackupOK == ASSUME IInv, NEW p \in Publishers, DropBackup(p) PROVE IInv'
<1> USE DEF Early, Holding, Undoing
<1>1. /\ pc[p] = "drop_backup" /\ outputs[p] = {} /\ moved[p] = {}
      /\ pc' = [pc EXCEPT ![p] = "drop_directory"] /\ pc'[p] = "drop_directory"
      /\ UNCHANGED <<dir, at, present, copies, moved, outputs, made, history>>
      /\ Fault \/ UNCHANGED faults
      /\ failures' \in {failures, failures \cup {p}}
      /\ \/ owner = p /\ owner' = NoOne /\ saved' = Empty
         \/ UNCHANGED <<owner, saved>>
  BY Facts DEF DropBackup, Goto, PlaceOK, Incomplete
<1>2. TypeOK'
  <2>1. /\ saved' \in [Names -> Contents] /\ pc' \in [Publishers -> Places]
        /\ failures' \subseteq Publishers /\ owner' \in Publishers \cup {NoOne}
    BY <1>1, Facts, Distinct DEF Places, Restoring, Empty
  <2> QED
    BY <1>1, <2>1, FaultBound DEF IInv, TypeOK, history
<1>3. Others(p)
  BY <1>1, Facts DEF Others, history
<1>4. RunOK(p)'
  BY <1>1 DEF RunOK, PlaceOK, KnownOK, HeldOK
<1>5. CASE owner = p /\ owner' = NoOne /\ saved' = Empty
  <2>1. \A n \in Names: {at'[n], saved'[n]} \subseteq {at[n], saved[n], NoFile} \cup Mine(p)
    BY <1>1, <1>5 DEF Empty
  <2> QED
    BY <1>2, <1>3, <1>4, <1>5, <2>1, HolderStep
<1>6. CASE UNCHANGED <<owner, saved>>
  BY <1>1, <1>2, <1>3, <1>4, <1>6, StillStep
<1> QED
  BY <1>1, <1>5, <1>6

LEMMA DropDirectoryOK == ASSUME IInv, NEW p \in Publishers, DropDirectory(p) PROVE IInv'
<1>1. /\ pc' = [pc EXCEPT ![p] = pc'[p]] /\ pc'[p] \in {"incomplete", "unchanged"}
      /\ failures' \in {failures, failures \cup {p}}
      /\ Fault \/ UNCHANGED faults
      /\ dir' = dir \/ (dir' = FALSE /\ Removable)
      /\ UNCHANGED <<at, owner, saved, present, copies, moved, outputs, made, history>>
  BY Facts DEF DropDirectory, Goto, Incomplete, Fails
<1>2. TypeOK'
  <2>1. pc' \in [Publishers -> Places] /\ failures' \subseteq Publishers
    BY <1>1, Facts DEF Places, Ended
  <2>2. dir' \in BOOLEAN /\ (at' # Empty \/ owner' # NoOne => dir')
    <3>1. dir \in BOOLEAN /\ (at # Empty \/ owner # NoOne => dir)
      BY DEF IInv, TypeOK
    <3>2. CASE dir' = dir
      BY <1>1, <3>1, <3>2
    <3>3. CASE dir' = FALSE /\ Removable
      BY <1>1, <3>3 DEF Removable
    <3> QED
      BY <1>1, <3>2, <3>3
  <2> QED
    BY <1>1, <2>1, <2>2, FaultBound DEF IInv, TypeOK, history
<1>3. Others(p)
  BY <1>1, Facts DEF Others, history
<1>4. RunOK(p)'
  BY <1>1 DEF RunOK, PlaceOK, KnownOK, HeldOK, Early, Holding, Undoing
<1> QED
  BY <1>1, <1>2, <1>3, <1>4, StillStep

\* The user creates a file where there is none.
LEMMA UserOK == ASSUME IInv, NEW n \in Names, UserCreates(n) PROVE IInv'
<1> USE DEF Early, Holding, Undoing
<1>1. /\ dir /\ at[n] = NoFile /\ at' = [at EXCEPT ![n] = Users]
      /\ touched' = [p \in Publishers |-> touched[p] \cup {n}]
      /\ UNCHANGED <<dir, owner, saved, pc, local, before, faults>>
  BY DEF UserCreates, There
<1>2. at \in [Names -> Contents]
  BY DEF IInv, TypeOK
<1>3. \A m \in Names: at'[m] = IF m = n THEN Users ELSE at[m]
  BY <1>1, <1>2
<1>4. TypeOK'
  <2>1. at' \in [Names -> Contents]
    BY <1>1, <1>2 DEF Contents
  <2>2. touched' \in [Publishers -> SUBSET Names]
    BY <1>1 DEF IInv, TypeOK
  <2> QED
    BY <1>1, <2>1, <2>2 DEF IInv, TypeOK, local
<1>5. ASSUME NEW p \in Publishers PROVE RunOK(p)'
  <2>1. /\ pc'[p] = pc[p] /\ present'[p] = present[p] /\ copies'[p] = copies[p]
        /\ moved'[p] = moved[p] /\ outputs'[p] = outputs[p] /\ before'[p] = before[p]
        /\ touched'[p] = touched[p] \cup {n} /\ failures' = failures /\ owner' = owner
    BY <1>1 DEF local
  <2>2. moved[p] \subseteq Names /\ outputs[p] \subseteq Names
    BY Facts
  <2>3. PlaceOK(p)'
    BY <2>1, Facts DEF PlaceOK
  <2>4. KnownOK(p)'
    BY <1>1, <1>3, <2>1, Facts, Distinct DEF KnownOK
  <2>5. HeldOK(p)'
    <3> SUFFICES ASSUME owner = p, pc[p] \in Holding \cup Undoing
                 PROVE  OutputsOK(p)' /\ BackupOK(p)'
      BY <2>1 DEF HeldOK
    <3>1. OutputsOK(p) /\ BackupOK(p) /\ n \notin outputs[p]
      BY <1>1, Facts, Distinct DEF HeldOK, OutputsOK
    <3>2. pc[p] = "rename" => Max(moved[p]) \in Names
      BY <2>2, MaxIn, Facts DEF PlaceOK
    <3>3. OutputsOK(p)'
      BY <1>3, <2>1, <2>2, <3>1, <3>2 DEF OutputsOK
    <3>4. BackupOK(p)'
      BY <1>1, <1>3, <2>1, <3>1 DEF BackupOK
    <3> QED
      BY <3>3, <3>4
  <2> QED
    BY <2>3, <2>4, <2>5 DEF RunOK
<1> QED
  BY <1>4, <1>5 DEF IInv

LEMMA NextOK == ASSUME IInv, [Next]_vars PROVE IInv'
<1>1. ASSUME NEW p \in Publishers, Step(p) \/ Kill(p) PROVE IInv'
  BY <1>1, ListOK, LookOK, MakeDirectoryOK, MakeBackupOK, SaveOK, CreateOK, WriteOK, CleanupOK,
     RemoveOK, OccupiedOK, RenameOK, DropBackupOK, DropDirectoryOK, KillOK DEF Step
<1>2. CASE UNCHANGED vars
  <2>1. TypeOK'
    BY <1>2 DEF IInv, TypeOK, vars, disk, local, history
  <2>2. ASSUME NEW p \in Publishers PROVE RunOK(p)'
    BY <1>2, Facts DEF RunOK, PlaceOK, KnownOK, HeldOK, OutputsOK, BackupOK, vars, disk, local, history
  <2> QED
    BY <2>1, <2>2 DEF IInv
<1> QED
  BY <1>1, <1>2, UserOK DEF Next

-----------------------------------------------------------------------------
(***************************************************************************)
(* The invariant holds in every state of every behaviour.                  *)
(***************************************************************************)
THEOREM RepublishInvariance == Spec => []IInv
<1>1. ASSUME IInv, [Next]_vars PROVE IInv'
  BY <1>1, NextOK
<1> QED
  BY <1>1, InitOK, PTL DEF Spec

(***************************************************************************)
(* The exclusive creation of the backup directory is a lock: while one     *)
(* publisher has it, no other moves, creates, removes or restores a file,  *)
(* whoever died or was refused.                                            *)
(***************************************************************************)
THEOREM PublishersExclude == Spec => []OneAtATime
<1>1. IInv => OneAtATime
  <2> SUFFICES ASSUME IInv, NEW p \in Publishers
               PROVE  \/ /\ moved[p] = {} /\ outputs[p] = {}
                         /\ pc[p] \notin {"save", "create", "write", "cleanup"}
                      \/ pc[p] \in Ended \/ owner = p
    BY DEF OneAtATime
  <2>1. pc[p] \in Places /\ PlaceOK(p)
    BY Facts
  <2> QED
    BY <2>1 DEF PlaceOK, Places, Publishing, Restoring, Early, Holding, Undoing
<1> QED
  BY <1>1, RepublishInvariance, PTL

(***************************************************************************)
(* publish's commit point: when the backup goes, every declaration it was  *)
(* to write is there and complete, and no listed one survives beside them. *)
(***************************************************************************)
THEOREM CommittedIsWhole == Spec => []CommitIsWhole
<1>1. IInv => CommitIsWhole
  <2> SUFFICES ASSUME IInv, NEW p \in Publishers, pc[p] = "cleanup", NEW n \in Names
               PROVE  /\ n \in copies[p] => at[n] = Output(p)
                      /\ n \in present[p] \ copies[p] => at[n] \in {NoFile, Users}
    BY DEF CommitIsWhole, IInv
  <2>1. OutputsOK(p)
    BY Facts DEF PlaceOK, HeldOK, Holding
  <2> QED
    BY <2>1 DEF OutputsOK, Holding
<1> QED
  BY <1>1, RepublishInvariance, PTL

(***************************************************************************)
(* The error path's promise: a publisher about to say that the project is  *)
(* unchanged has every file back as it was when it took the backup, but    *)
(* for what the user created since.                                        *)
(***************************************************************************)
THEOREM SaysUnchangedTruly == Spec => []UnchangedIsTrue
<1>1. IInv => UnchangedIsTrue
  <2> SUFFICES ASSUME IInv, NEW p \in Publishers, pc[p] = "drop_backup", owner = p,
                      p \notin failures, NEW n \in Names \ touched[p]
               PROVE  at[n] = before[p][n]
    BY DEF UnchangedIsTrue
  <2>1. BackupOK(p) /\ moved[p] = {} /\ outputs[p] = {}
    BY Facts DEF PlaceOK, HeldOK, Undoing
  <2> QED
    BY <2>1 DEF BackupOK
<1> QED
  BY <1>1, RepublishInvariance, PTL

-----------------------------------------------------------------------------
(***************************************************************************)
(* What a step does with one file.                                         *)
(***************************************************************************)
\* The body of NothingLost, for one content of one name.
Kept(n, c) ==
  \/ ~c.whole \/ c \in {at'[n], saved'[n]}
  \/ c = Users /\ \E p \in Publishers: pc[p] = "rename"
  \/ \E p \in Publishers: pc[p] = "cleanup" /\ n \in present[p]
  \/ \E p \in Publishers: pc[p] = "remove" /\ c = Output(p)

LEMMA StepKeeps ==
  ASSUME IInv, NEW p \in Publishers, Step(p) \/ Kill(p), NEW n \in Names,
         NEW c \in {at[n], saved[n]}, c # NoFile
  PROVE  Kept(n, c)
<1> USE DEF Early, Holding, Undoing
<1>1. CASE UNCHANGED <<at, saved>>
  BY <1>1 DEF Kept
<1>2. CASE Save(p) /\ ~UNCHANGED <<at, saved>>
  <2> DEFINE m == Min(present[p] \ moved[p])
  <2>1. /\ present[p] \ moved[p] # {} /\ There(m)
        /\ saved' = [saved EXCEPT ![m] = at[m]] /\ at' = [at EXCEPT ![m] = NoFile]
    BY <1>2 DEF Save, Restore, disk
  <2>2. present[p] \ moved[p] \in SUBSET Names
    BY Facts
  <2>3. m \in present[p] \ moved[p]
    BY <2>1, <2>2, MinIn
  <2> HIDE DEF m
  <2>4. saved[m] = NoFile
    BY <1>2, <2>2, <2>3, Facts DEF Save, PlaceOK, HeldOK, BackupOK
  <2> QED
    BY <2>1, <2>4, Facts DEF Kept
<1>3. CASE Create(p) /\ ~UNCHANGED <<at, saved>>
  <2> DEFINE m == Min(copies[p] \ outputs[p])
  <2>1. at[m] = NoFile /\ at' = [at EXCEPT ![m] = Partial(p)] /\ UNCHANGED saved
    BY <1>3 DEF Create, Restore, disk, There
  <2> HIDE DEF m
  <2> QED
    BY <2>1, Facts DEF Kept
<1>4. CASE Write(p) /\ ~UNCHANGED <<at, saved>>
  <2> DEFINE m == Max({k \in Names: at[k] = Partial(p)})
  <2>1. at' = [at EXCEPT ![m] = Output(p)] /\ UNCHANGED saved
    BY <1>4 DEF Write, Restore, disk
  <2>2. at[m] = Partial(p)
    BY <1>4, TheWritten DEF Write
  <2> HIDE DEF m
  <2>3. ~Partial(p).whole
    BY DEF Partial
  <2> QED
    BY <2>1, <2>2, <2>3, Facts DEF Kept
<1>5. CASE Cleanup(p)
  <2>1. /\ pc[p] = "cleanup" /\ UNCHANGED at /\ moved[p] = present[p]
        /\ \A m \in Names \ moved[p]: saved[m] = NoFile
    BY <1>5, Facts DEF Cleanup, PlaceOK, HeldOK, OutputsOK, BackupOK
  <2> QED
    BY <2>1 DEF Kept
<1>6. CASE Remove(p) /\ ~UNCHANGED <<at, saved>>
  <2> DEFINE m == Max(outputs[p])
  <2>1. pc[p] = "remove" /\ outputs[p] # {} /\ at' = [at EXCEPT ![m] = NoFile] /\ UNCHANGED saved
    BY <1>6 DEF Remove, disk
  <2>2. outputs[p] \in SUBSET Names
    BY Facts
  <2>3. m \in outputs[p]
    BY <2>1, <2>2, MaxIn
  <2> HIDE DEF m
  <2>4. at[m] \in {Output(p), Partial(p)}
    BY <2>1, <2>3, Facts DEF PlaceOK, HeldOK, OutputsOK, Mine
  <2>5. ~Partial(p).whole
    BY DEF Partial
  <2> QED
    BY <2>1, <2>4, <2>5, Facts DEF Kept
<1>7. CASE Rename(p) /\ ~UNCHANGED <<at, saved>>
  <2> DEFINE m == Max(moved[p])
  <2>1. pc[p] = "rename" /\ at' = [at EXCEPT ![m] = saved[m]] /\ saved' = [saved EXCEPT ![m] = NoFile]
    BY <1>7 DEF Rename
  <2>2. at[m] \in {NoFile, Users}
    BY <2>1, Facts DEF PlaceOK, HeldOK, OutputsOK
  <2> HIDE DEF m
  <2> QED
    BY <2>1, <2>2, Facts DEF Kept
<1>8. CASE DropBackup(p) /\ ~UNCHANGED <<at, saved>>
  <2>1. pc[p] = "drop_backup" /\ owner = p /\ p \notin failures /\ UNCHANGED at
    BY <1>8 DEF DropBackup
  <2>2. saved[n] = NoFile
    BY <2>1, Facts DEF PlaceOK, HeldOK, BackupOK
  <2> QED
    BY <2>1, <2>2 DEF Kept
<1>9. CASE List(p) \/ Look(p) \/ MakeDirectory(p) \/ MakeBackup(p) \/ Occupied(p)
            \/ DropDirectory(p) \/ Kill(p)
  <2>1. UNCHANGED <<at, saved>>
    BY <1>9 DEF List, Look, MakeDirectory, MakeBackup, Occupied, DropDirectory, Kill, Restore, disk
  <2> QED
    BY <1>1, <2>1
<1> QED
  BY <1>1, <1>2, <1>3, <1>4, <1>5, <1>6, <1>7, <1>8, <1>9 DEF Step

(***************************************************************************)
(* No whole declaration is lost: until a publication that listed it has    *)
(* written all of its own, it is in its place or in the backup, whatever   *)
(* step a kill or a refusal falls on.                                      *)
(***************************************************************************)
THEOREM DeclarationsAreKept == Spec => NothingLost
<1> DEFINE Body ==
      \A n \in Names:
        LET held == {at[n], saved[n]} \ {NoFile}
            heldNext == {at'[n], saved'[n]}
        IN \A c \in held:
             \/ ~c.whole \/ c \in heldNext
             \/ c = Users /\ \E p \in Publishers: pc[p] = "rename"
             \/ \E p \in Publishers: pc[p] = "cleanup" /\ n \in present[p]
             \/ \E p \in Publishers: pc[p] = "remove" /\ c = Output(p)
<1>1. ASSUME IInv, [Next]_vars PROVE [Body]_vars
  <2> SUFFICES ASSUME Next, NEW n \in Names, NEW c \in {at[n], saved[n]}, c # NoFile
               PROVE  Kept(n, c)
    BY <1>1 DEF Kept
  <2>1. ASSUME NEW p \in Publishers, Step(p) \/ Kill(p) PROVE Kept(n, c)
    BY <1>1, <2>1, StepKeeps
  <2>2. ASSUME NEW m \in Names, UserCreates(m) PROVE Kept(n, c)
    <3>1. at[m] = NoFile /\ at' = [at EXCEPT ![m] = Users] /\ UNCHANGED saved /\ at \in [Names -> Contents]
      BY <1>1, <2>2 DEF UserCreates, There, IInv, TypeOK
    <3> QED
      BY <3>1 DEF Kept
  <2> QED
    BY <2>1, <2>2 DEF Next
<1> QED
  BY <1>1, RepublishInvariance, PTL DEF Spec, NothingLost
=============================================================================
