----------------------------- MODULE Republish -----------------------------
(* publish: pull --force and state export replace the declarations of a
   project.  The caller lists the files that are there, then publish moves
   them into a backup directory, creates the new ones, and removes the
   backup; an error puts everything back.  Several publishers and the user
   work on one directory, a process may be killed between any two calls, and
   the system may refuse a call.                                            *)
EXTENDS FiniteSetsExt

CONSTANTS
  Publishers,           \* the processes that publish
  NameCount,            \* the declaration files are numbered in path order
  UserWrites,           \* whether the user creates files meanwhile
  MaxFaults             \* bound on kills and on calls the system refuses

ASSUME RepublishAssumption == /\ Publishers \cap {"no one", "original", "user"} = {}
                              /\ NameCount \in Nat
                              /\ UserWrites \in BOOLEAN
                              /\ MaxFaults \in Nat

Names == 1..NameCount

VARIABLES
  dir,                  \* the declaration directory exists
  at,                   \* the file at each name: who wrote it, and if it is whole
  owner,                \* whose backup directory is there
  saved,                \* the files in it, by the name they had
  pc,                   \* where each publisher is
  present,              \* the names each publisher listed
  copies,               \* the names each publisher writes
  moved,                \* the names each publisher has moved into the backup
  outputs,              \* the names each publisher has created
  made,                 \* the publishers that created the directory
  failures,             \* the publishers whose restoration is incomplete
  before,               \* history: the files when each took the backup
  touched,              \* history: the names the user wrote since
  faults

disk == <<dir, at, owner, saved>>
local == <<present, copies, moved, outputs, made, failures>>
history == <<before, touched>>
vars == <<disk, pc, local, history, faults>>

NoFile == [by |-> "no one", whole |-> TRUE]
Original == [by |-> "original", whole |-> TRUE]
Users == [by |-> "user", whole |-> TRUE]
Output(p) == [by |-> p, whole |-> TRUE]
Partial(p) == [by |-> p, whole |-> FALSE]
NoOne == "no one"
Empty == [n \in Names |-> NoFile]
Contents == {NoFile, Original, Users} \cup {Output(p): p \in Publishers}
              \cup {Partial(p): p \in Publishers}

Ended == {"published", "unchanged", "incomplete", "killed"}
Publishing == {"look", "directory", "backup", "save", "create", "write", "cleanup"}
Restoring == {"remove", "occupied", "rename", "drop_backup", "drop_directory"}
Places == {"list"} \cup Publishing \cup Restoring \cup Ended

Init ==
  /\ dir \in BOOLEAN
  /\ at \in [Names -> {NoFile, Original}]
  /\ ~dir => at = Empty
  /\ owner = NoOne /\ saved = Empty
  /\ pc = [p \in Publishers |-> "list"]
  /\ present = [p \in Publishers |-> {}]
  /\ copies = [p \in Publishers |-> {}]
  /\ moved = [p \in Publishers |-> {}]
  /\ outputs = [p \in Publishers |-> {}]
  /\ made = {} /\ failures = {}
  /\ before = [p \in Publishers |-> at]
  /\ touched = [p \in Publishers |-> {}]
  /\ faults = 0

Goto(p, place) == pc' = [pc EXCEPT ![p] = place]

\* A fault the environment may still inject.
Fault == faults < MaxFaults /\ faults' = faults + 1

There(n) == at[n] # NoFile

\* A call that needs what fails without it, and may be refused anyway.
Fails(possible) == (~possible /\ UNCHANGED faults) \/ Fault

\* The error path starts with the outputs.
Restore(p) == Goto(p, "remove") /\ UNCHANGED <<disk, local, history>>

-----------------------------------------------------------------------------
(* publish. *)

\* The caller: what is there now, and what it will write.
List(p) ==
  /\ pc[p] = "list"
  /\ Goto(p, "look")
  /\ present' = [present EXCEPT ![p] = {n \in Names: There(n)}]
  /\ \E written \in SUBSET Names \ {{}}: copies' = [copies EXCEPT ![p] = written]
  /\ UNCHANGED <<disk, moved, outputs, made, failures, history, faults>>

\* A backup that is there belongs to another publisher, or to one that died.
Look(p) ==
  /\ pc[p] = "look"
  /\ \/ owner = NoOne /\ Goto(p, "directory") /\ UNCHANGED <<disk, local, history, faults>>
     \/ Fails(owner = NoOne) /\ Restore(p)

\* The destinations' metadata and the directory.
MakeDirectory(p) ==
  /\ pc[p] = "directory"
  /\ \/ /\ Goto(p, "backup")
        /\ dir' = TRUE
        /\ made' = IF dir THEN made ELSE made \cup {p}
        /\ UNCHANGED <<at, owner, saved, present, copies, moved, outputs, failures, history, faults>>
     \/ Fault /\ Restore(p)

\* Mutant of MakeBackup: a backup directory that is there is used.
MakeBackupShared(p) ==
  /\ pc[p] = "backup"
  /\ dir
  /\ Goto(p, "save")
  /\ owner' = p
  /\ before' = [before EXCEPT ![p] = at]
  /\ touched' = [touched EXCEPT ![p] = {}]
  /\ UNCHANGED <<dir, at, saved, local, faults>>

\* The exclusive creation of the backup directory.
MakeBackup(p) ==
  /\ pc[p] = "backup"
  /\ \/ /\ dir /\ owner = NoOne
        /\ Goto(p, "save")
        /\ owner' = p
        /\ before' = [before EXCEPT ![p] = at]
        /\ touched' = [touched EXCEPT ![p] = {}]
        /\ UNCHANGED <<dir, at, saved, local, faults>>
     \/ Fails(dir /\ owner = NoOne) /\ Restore(p)

\* Mutant of Save: the last of the listed files stays.
SaveAllButLast(p) ==
  /\ pc[p] = "save"
  /\ LET todo == present[p] \ moved[p]
         n == Min(todo)
     IN \/ /\ Cardinality(todo) < 2
           /\ Goto(p, "create") /\ UNCHANGED <<disk, local, history, faults>>
        \/ /\ Cardinality(todo) > 1 /\ There(n)
           /\ saved' = [saved EXCEPT ![n] = at[n]]
           /\ at' = [at EXCEPT ![n] = NoFile]
           /\ moved' = [moved EXCEPT ![p] = @ \cup {n}]
           /\ UNCHANGED <<dir, owner, pc, present, copies, outputs, made, failures, history, faults>>

\* The listed files, moved into the backup in their order.
Save(p) ==
  /\ pc[p] = "save"
  /\ LET todo == present[p] \ moved[p]
         n == Min(todo)
     IN \/ todo = {} /\ Goto(p, "create") /\ UNCHANGED <<disk, local, history, faults>>
        \/ /\ todo # {}
           /\ \/ /\ There(n)
                 /\ saved' = [saved EXCEPT ![n] = at[n]]
                 /\ at' = [at EXCEPT ![n] = NoFile]
                 /\ moved' = [moved EXCEPT ![p] = @ \cup {n}]
                 /\ UNCHANGED <<dir, owner, pc, present, copies, outputs, made, failures, history, faults>>
              \/ Fails(There(n)) /\ Restore(p)

\* Mutant of Create: an output is remembered once its copy is complete.
CreateUntracked(p) ==
  /\ pc[p] = "create"
  /\ LET todo == copies[p] \ outputs[p]
         n == Min(todo)
     IN \/ todo = {} /\ Goto(p, "cleanup") /\ UNCHANGED <<disk, local, history, faults>>
        \/ /\ todo # {} /\ ~There(n)
           /\ at' = [at EXCEPT ![n] = Partial(p)]
           /\ Goto(p, "write")
           /\ UNCHANGED <<dir, owner, saved, local, history, faults>>
        \/ todo # {} /\ Fails(~There(n)) /\ Restore(p)

\* create_new, tracked at once.
Create(p) ==
  /\ pc[p] = "create"
  /\ LET todo == copies[p] \ outputs[p]
         n == Min(todo)
     IN \/ todo = {} /\ Goto(p, "cleanup") /\ UNCHANGED <<disk, local, history, faults>>
        \/ /\ todo # {} /\ ~There(n)
           /\ at' = [at EXCEPT ![n] = Partial(p)]
           /\ outputs' = [outputs EXCEPT ![p] = @ \cup {n}]
           /\ Goto(p, "write")
           /\ UNCHANGED <<dir, owner, saved, present, copies, moved, made, failures, history, faults>>
        \/ todo # {} /\ Fails(~There(n)) /\ Restore(p)

\* The access rights and the copy of the file just created.
Write(p) ==
  /\ pc[p] = "write"
  /\ LET n == Max({m \in Names: at[m] = Partial(p)})
     IN \/ /\ at' = [at EXCEPT ![n] = Output(p)]
           /\ outputs' = [outputs EXCEPT ![p] = @ \cup {n}]
           /\ Goto(p, "create")
           /\ UNCHANGED <<dir, owner, saved, present, copies, moved, made, failures, history, faults>>
        \/ Fault /\ Restore(p)

\* Past the commit point: the backup goes, and if it cannot, that is a note;
\* some of the files may be gone from it.
Cleanup(p) ==
  /\ pc[p] = "cleanup"
  /\ Goto(p, "published")
  /\ \/ owner' = NoOne /\ saved' = Empty /\ UNCHANGED faults
     \/ /\ Fault
        /\ \E gone \in SUBSET Names:
             saved' = [n \in Names |-> IF n \in gone THEN NoFile ELSE saved[n]]
        /\ UNCHANGED owner
  /\ UNCHANGED <<dir, at, local, history>>

-----------------------------------------------------------------------------
(* restore. *)

\* A call of the restoration that fails is remembered, and the next is made.
Incomplete(p) == failures' = failures \cup {p}

\* The outputs, last first; one that is gone already is no failure.
Remove(p) ==
  /\ pc[p] = "remove"
  /\ IF outputs[p] = {}
     THEN Goto(p, "occupied") /\ UNCHANGED <<disk, local, history, faults>>
     ELSE LET n == Max(outputs[p])
          IN /\ outputs' = [outputs EXCEPT ![p] = @ \ {n}]
             /\ \/ at' = [at EXCEPT ![n] = NoFile] /\ UNCHANGED <<failures, faults>>
                \/ Fault /\ Incomplete(p) /\ UNCHANGED at
             /\ UNCHANGED <<dir, owner, saved, pc, present, copies, moved, made, history>>

\* The moved files, last first: a place somebody else has taken is a failure.
Occupied(p) ==
  /\ pc[p] = "occupied"
  /\ \/ moved[p] = {} /\ Goto(p, "drop_backup") /\ UNCHANGED <<disk, local, history, faults>>
     \/ /\ moved[p] # {} /\ ~There(Max(moved[p]))
        /\ Goto(p, "rename") /\ UNCHANGED <<disk, local, history, faults>>
     \/ /\ moved[p] # {} /\ Fails(~There(Max(moved[p])))
        /\ moved' = [moved EXCEPT ![p] = @ \ {Max(@)}]
        /\ Incomplete(p)
        /\ UNCHANGED <<disk, pc, present, copies, outputs, made, history>>

Rename(p) ==
  /\ pc[p] = "rename"
  /\ Goto(p, "occupied")
  /\ LET n == Max(moved[p])
     IN /\ moved' = [moved EXCEPT ![p] = @ \ {n}]
        /\ \/ /\ at' = [at EXCEPT ![n] = saved[n]]
              /\ saved' = [saved EXCEPT ![n] = NoFile]
              /\ UNCHANGED <<failures, faults>>
           \/ Fault /\ Incomplete(p) /\ UNCHANGED <<at, saved>>
  /\ UNCHANGED <<dir, owner, present, copies, outputs, made, history>>

\* Mutant of DropBackup: the backup goes although a file is still in it.
DropBackupAlways(p) ==
  /\ pc[p] = "drop_backup"
  /\ Goto(p, "drop_directory")
  /\ IF owner = p
     THEN owner' = NoOne /\ saved' = Empty
     ELSE UNCHANGED <<owner, saved>>
  /\ UNCHANGED <<dir, at, local, history, faults>>

\* A publisher removes its own backup, and only when all of it is restored.
DropBackup(p) ==
  /\ pc[p] = "drop_backup"
  /\ Goto(p, "drop_directory")
  /\ \/ /\ owner = p /\ p \notin failures
        /\ owner' = NoOne /\ saved' = Empty /\ UNCHANGED <<failures, faults>>
     \/ owner = p /\ p \notin failures /\ Fault /\ Incomplete(p) /\ UNCHANGED <<owner, saved>>
     \/ (owner # p \/ p \in failures) /\ UNCHANGED <<owner, saved, failures, faults>>
  /\ UNCHANGED <<dir, at, present, copies, moved, outputs, made, history>>

\* remove_dir removes an empty directory only.
Removable == owner = NoOne /\ at = Empty

\* The directory, if this publisher created it, and then the report: the
\* project is unchanged, or the restoration is incomplete.
DropDirectory(p) ==
  /\ pc[p] = "drop_directory"
  /\ \/ /\ p \notin made
        /\ UNCHANGED <<dir, failures, faults>>
     \/ /\ p \in made /\ Removable
        /\ dir' = FALSE /\ UNCHANGED <<failures, faults>>
     \/ /\ p \in made /\ Fails(Removable)
        /\ Incomplete(p) /\ UNCHANGED dir
  /\ Goto(p, IF p \in failures' THEN "incomplete" ELSE "unchanged")
  /\ UNCHANGED <<at, owner, saved, present, copies, moved, outputs, made, history>>

-----------------------------------------------------------------------------
(* The environment. *)

Kill(p) ==
  /\ pc[p] \notin Ended
  /\ Fault
  /\ Goto(p, "killed")
  /\ UNCHANGED <<disk, local, history>>

\* The user creates a declaration where there is none.
UserCreates(n) ==
  /\ UserWrites /\ dir /\ ~There(n)
  /\ at' = [at EXCEPT ![n] = Users]
  /\ touched' = [p \in Publishers |-> touched[p] \cup {n}]
  /\ UNCHANGED <<dir, owner, saved, pc, local, before, faults>>

Step(p) ==
  \/ List(p) \/ Look(p) \/ MakeDirectory(p) \/ MakeBackup(p) \/ Save(p)
  \/ Create(p) \/ Write(p) \/ Cleanup(p)
  \/ Remove(p) \/ Occupied(p) \/ Rename(p) \/ DropBackup(p) \/ DropDirectory(p)

Next == (\E p \in Publishers: Step(p) \/ Kill(p)) \/ (\E n \in Names: UserCreates(n))

\* A publisher that runs goes on.
Fairness == \A p \in Publishers: WF_vars(Step(p))

Spec == Init /\ [][Next]_vars /\ Fairness

-----------------------------------------------------------------------------
(* Properties. *)

\* Every variable has its type, and there are files only in a directory.
TypeOK ==
  /\ dir \in BOOLEAN
  /\ at \in [Names -> Contents] /\ saved \in [Names -> Contents]
  /\ owner \in Publishers \cup {NoOne}
  /\ at # Empty \/ owner # NoOne => dir
  /\ owner = NoOne => saved = Empty
  /\ pc \in [Publishers -> Places]
  /\ present \in [Publishers -> SUBSET Names] /\ copies \in [Publishers -> SUBSET Names]
  /\ moved \in [Publishers -> SUBSET Names] /\ outputs \in [Publishers -> SUBSET Names]
  /\ made \subseteq Publishers /\ failures \subseteq Publishers
  /\ before \in [Publishers -> [Names -> Contents]]
  /\ touched \in [Publishers -> SUBSET Names]
  /\ faults \in 0..MaxFaults

\* A whole declaration leaves the disk only when a publication that listed it
\* has written all of its own, or when the publisher that wrote it takes it
\* back: until then it is in its place or in the backup, also after a kill
\* and after a restoration that failed half-way (DEC-2351.1).  The exception
\* is a file the user creates just as an old one is renamed back.
NothingLost ==
  [][\A n \in Names:
       LET held == {at[n], saved[n]} \ {NoFile}
           heldNext == {at'[n], saved'[n]}
       IN \A c \in held:
            \/ ~c.whole \/ c \in heldNext
            \/ c = Users /\ \E p \in Publishers: pc[p] = "rename"
            \/ \E p \in Publishers: pc[p] = "cleanup" /\ n \in present[p]
            \/ \E p \in Publishers: pc[p] = "remove" /\ c = Output(p)]_vars

\* "the project is unchanged" is the truth: a publisher that is about to say
\* so has every file back as it was when it took the backup, but for what the
\* user wrote since (publish's error path, restore).
UnchangedIsTrue ==
  \A p \in Publishers:
    pc[p] = "drop_backup" /\ owner = p /\ p \notin failures
      => \A n \in Names \ touched[p]: at[n] = before[p][n]

\* Mutually exclusive: while one publisher has the backup, no other moves,
\* creates, removes or restores a file (the exclusive creation of the backup).
OneAtATime ==
  \A p \in Publishers:
    \/ moved[p] = {} /\ outputs[p] = {} /\ pc[p] \notin {"save", "create", "write", "cleanup"}
    \/ pc[p] \in Ended \/ owner = p

\* At the commit point, after which the backup goes, the publication is whole:
\* every output is there and complete, and no listed file survives beside them.
\* Every variable keeps its type with it.
CommitIsWhole ==
  /\ TypeOK
  /\ \A p \in Publishers: pc[p] = "cleanup" =>
       \A n \in Names: /\ n \in copies[p] => at[n] = Output(p)
                       /\ n \in present[p] \ copies[p] => at[n] \in {NoFile, Users}
=============================================================================
