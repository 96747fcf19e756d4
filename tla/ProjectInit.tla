---------------------------- MODULE ProjectInit ----------------------------
(* pbps init on one root directory.  Each init looks at the root, prepares a
   complete project in a staging tree of its own, which may take minutes,
   looks again, and installs it: schema.ids.json first, as the claim on the
   root, then schema/, then pbps.yml, the marker other commands discover.  A
   failure undoes the installation in the reverse order.  Other inits and the
   user work on the same root between any two system calls.                 *)
EXTENDS Naturals

CONSTANTS
  Inits,                \* the init processes started on the root
  Acts,                 \* what the user may do on the root
  MaxFaults             \* bound on kills and on calls the system refuses

VARIABLES
  config,               \* who wrote pbps.yml
  ids,                  \* who wrote schema.ids.json
  schema,               \* what schema is: nothing, a directory or a file
  keep,                 \* schema/.gitkeep
  files,                \* the other entries of schema/, by who wrote them
  stages,               \* the staging trees in the root
  pc,                   \* where each init is
  displaced,            \* what each init found at schema/
  moved,                \* the inits that have renamed their tree to schema/
  orig,                 \* history: schema/ before the first init
  touched,              \* history: the user changed the root meanwhile
  dirty,                \* history: the inits killed or refused while undoing
  faults

declarations == <<schema, keep, files>>
root == <<config, ids, declarations>>
vars == <<root, stages, pc, displaced, moved, orig, touched, dirty, faults>>

NoOne == "no one"
User == "user"
Writers == Inits \cup {User}
Keeps == {"none", "empty", "notes"}
AllActs == {"config", "ids", "directory", "file", "notes", "plain"}

ASSUME InitAssumption == /\ Inits \cap {NoOne, User} = {}
                         /\ Acts \subseteq AllActs
                         /\ MaxFaults \in Nat

Looking == {"config", "ids", "schema"}
Rechecking == {"recheck_config", "recheck_ids", "recheck_schema"}
Installing == {"is_dir", "keep", "rmdir", "move", "mark"}
Undoing == {"unmove", "undisplace", "release"}
Ended == {"won", "lost", "killed"}
Places == Looking \cup {"stage", "claim", "clean"} \cup Rechecking \cup Installing
            \cup Undoing \cup Ended

\* A root init accepts: no schema/, an empty one, or one kept in git.
Acceptable == {[schema |-> "absent", keep |-> "none"],
               [schema |-> "dir", keep |-> "none"],
               [schema |-> "dir", keep |-> "empty"]}

Init ==
  /\ config = NoOne /\ ids = NoOne
  /\ orig \in Acceptable
  /\ schema = orig.schema /\ keep = orig.keep /\ files = {}
  /\ stages = {}
  /\ pc = [i \in Inits |-> "config"]
  /\ displaced = [i \in Inits |-> "nothing"]
  /\ moved = {}
  /\ touched = FALSE
  /\ dirty = {}
  /\ faults = 0

Goto(i, p) == pc' = [pc EXCEPT ![i] = p]

\* A fault the environment may still inject.
Fault == faults < MaxFaults /\ faults' = faults + 1

\* The refusal of an init that holds no claim: its staging tree goes.
Refuse(i) ==
  /\ Goto(i, "lost")
  /\ stages' = stages \ {i}
  /\ UNCHANGED <<root, displaced, moved, dirty>>

-----------------------------------------------------------------------------
(* refuse_existing, at the start and again before the installation. *)

\* Mutant of Occupied: a lone .gitkeep is accepted whatever it holds.
OccupiedByFiles == schema = "file" \/ files # {}

\* What refuse_existing refuses at schema/.
Occupied == schema = "file" \/ files # {} \/ keep = "notes"

Look(i, at, found, next) ==
  /\ pc[i] = at
  /\ IF found
     THEN Refuse(i)
     ELSE Goto(i, next) /\ UNCHANGED <<root, stages, displaced, moved, dirty>>
  /\ UNCHANGED faults

LookFirst(i) ==
  \/ Look(i, "config", config # NoOne, "ids")
  \/ Look(i, "ids", ids # NoOne, "schema")
  \/ Look(i, "schema", Occupied, "stage")
  \/ pc[i] = "schema" /\ Fault /\ Refuse(i)

\* Preparation and stage_project: the complete project, written and loaded
\* again from the files, or nothing.
Stage(i) ==
  /\ pc[i] = "stage"
  /\ \/ /\ Goto(i, "recheck_config")
        /\ stages' = stages \cup {i}
        /\ UNCHANGED <<root, displaced, moved, dirty, faults>>
     \/ Fault /\ Refuse(i)

Recheck(i) ==
  \/ Look(i, "recheck_config", config # NoOne, "recheck_ids")
  \/ Look(i, "recheck_ids", ids # NoOne, "recheck_schema")
  \/ Look(i, "recheck_schema", Occupied, "claim")
  \/ pc[i] = "recheck_schema" /\ Fault /\ Refuse(i)

-----------------------------------------------------------------------------
(* commit. *)

\* Mutant of Claim: the identity file is renamed into place, which replaces.
ClaimReplaces(i) ==
  /\ pc[i] = "claim"
  /\ \/ /\ ids' = i /\ Goto(i, "is_dir")
        /\ UNCHANGED <<config, declarations, stages, displaced, moved, dirty, faults>>
     \/ Fault /\ Refuse(i)

\* Mutant of Claim: an identity file that is there already is no obstacle.
ClaimIgnored(i) ==
  /\ pc[i] = "claim"
  /\ ids' = IF ids = NoOne THEN i ELSE ids
  /\ Goto(i, "is_dir")
  /\ UNCHANGED <<config, declarations, stages, displaced, moved, dirty, faults>>

\* The link of schema.ids.json, which never replaces one.
Claim(i) ==
  /\ pc[i] = "claim"
  /\ \/ /\ ids = NoOne
        /\ ids' = i /\ Goto(i, "is_dir")
        /\ UNCHANGED <<config, declarations, stages, displaced, moved, dirty, faults>>
     \/ ids # NoOne /\ Refuse(i) /\ UNCHANGED faults
     \/ Fault /\ Refuse(i)

IsDir(i) ==
  /\ pc[i] = "is_dir"
  /\ Goto(i, IF schema = "dir" THEN "keep" ELSE "move")
  /\ UNCHANGED <<root, stages, displaced, moved, dirty, faults>>

\* The .gitkeep is removed whatever it holds by now; a failure has no branch
\* of its own.
DisplaceKeep(i) ==
  /\ pc[i] = "keep"
  /\ Goto(i, "rmdir")
  /\ displaced' = [displaced EXCEPT ![i] = IF keep # "none" THEN "gitkeep" ELSE "empty"]
  /\ \/ keep' = "none" /\ UNCHANGED faults
     \/ keep # "none" /\ UNCHANGED keep /\ Fault
  /\ UNCHANGED <<config, ids, schema, files, stages, moved, dirty>>

\* Mutant of RemoveDirectory: the directory goes with what it holds.
RemoveDirectoryAll(i) ==
  /\ pc[i] = "rmdir"
  /\ schema' = "absent" /\ keep' = "none" /\ files' = {}
  /\ Goto(i, "move")
  /\ UNCHANGED <<config, ids, stages, displaced, moved, dirty, faults>>

\* remove_dir removes an empty directory only.
Bare == schema = "dir" /\ keep = "none" /\ files = {}

RemoveDirectory(i) ==
  /\ pc[i] = "rmdir"
  /\ \/ /\ Bare
        /\ schema' = "absent"
        /\ Goto(i, "move")
        /\ UNCHANGED <<keep, files, faults>>
     \/ /\ (~Bare /\ UNCHANGED faults) \/ Fault
        /\ Goto(i, "undisplace")
        /\ UNCHANGED declarations
  /\ UNCHANGED <<config, ids, stages, displaced, moved, dirty>>

\* A directory rename replaces nothing but an empty directory.
Replaceable == schema # "file" /\ keep = "none" /\ files = {}

Move(i) ==
  /\ pc[i] = "move"
  /\ \/ /\ Replaceable
        /\ schema' = "dir" /\ keep' = "empty" /\ files' = {i}
        /\ moved' = moved \cup {i}
        /\ Goto(i, "mark")
        /\ UNCHANGED faults
     \/ /\ (~Replaceable /\ UNCHANGED faults) \/ Fault
        /\ Goto(i, "undisplace")
        /\ UNCHANGED <<declarations, moved>>
  /\ UNCHANGED <<config, ids, stages, displaced, dirty>>

\* Mutant of Mark: the root is checked once more before the marker is linked.
MarkRechecks(i) ==
  /\ pc[i] = "mark"
  /\ (ids # NoOne /\ UNCHANGED faults) \/ Fault
  /\ Goto(i, "unmove")
  /\ UNCHANGED <<config, ids, declarations, stages, displaced, moved, dirty>>

\* The link of pbps.yml, which never replaces one.
Mark(i) ==
  /\ pc[i] = "mark"
  /\ \/ config = NoOne /\ config' = i /\ Goto(i, "clean") /\ UNCHANGED faults
     \/ /\ (config # NoOne /\ UNCHANGED faults) \/ Fault
        /\ Goto(i, "unmove")
        /\ UNCHANGED config
  /\ UNCHANGED <<ids, declarations, stages, displaced, moved, dirty>>

\* The end of a successful commit; a staging tree that cannot be removed is
\* a warning.
Clean(i) ==
  /\ pc[i] = "clean"
  /\ Goto(i, "won")
  /\ \/ stages' = stages \ {i} /\ UNCHANGED <<dirty, faults>>
     \/ Fault /\ dirty' = dirty \cup {i} /\ UNCHANGED stages
  /\ UNCHANGED <<root, displaced, moved>>

-----------------------------------------------------------------------------
(* The rollback; what a call of it answers is ignored. *)

\* A call of the rollback that the system refuses.
Ignored(i) == Fault /\ dirty' = dirty \cup {i}

\* remove_dir_all of the directory this init moved in; when it is refused,
\* some of the entries are gone.
Unmove(i) ==
  /\ pc[i] = "unmove"
  /\ Goto(i, "undisplace")
  /\ \/ /\ schema' = "absent" /\ keep' = "none" /\ files' = {}
        /\ UNCHANGED <<dirty, faults>>
     \/ Ignored(i) /\ keep' \in {keep, "none"} /\ files' \in SUBSET files /\ UNCHANGED schema
  /\ UNCHANGED <<config, ids, stages, displaced, moved>>

\* Mutant of Undisplace: the directory comes back without its .gitkeep.
UndisplaceNoKeep(i) ==
  /\ pc[i] = "undisplace"
  /\ Goto(i, "release")
  /\ schema' = IF displaced[i] # "nothing" /\ schema = "absent" THEN "dir" ELSE schema
  /\ UNCHANGED <<config, ids, keep, files, stages, displaced, moved, dirty, faults>>

\* The directory, and an empty .gitkeep in it, as they were: create_dir fails
\* on an entry that is there, and the write needs a directory.
Undisplace(i) ==
  /\ pc[i] = "undisplace"
  /\ Goto(i, "release")
  /\ \/ /\ displaced[i] = "nothing"
        /\ UNCHANGED <<declarations, dirty, faults>>
     \/ /\ displaced[i] # "nothing"
        /\ schema' = IF schema = "absent" THEN "dir" ELSE schema
        /\ keep' = IF displaced[i] = "gitkeep" /\ schema # "file" THEN "empty" ELSE keep
        /\ UNCHANGED <<files, dirty, faults>>
     \/ /\ displaced[i] # "nothing"
        /\ Ignored(i)
        /\ schema' \in {schema, IF schema = "absent" THEN "dir" ELSE schema}
        /\ UNCHANGED <<keep, files>>
  /\ UNCHANGED <<config, ids, stages, moved, displaced>>

\* The claim is released last; the staging tree goes with it.
Release(i) ==
  /\ pc[i] = "release"
  /\ Goto(i, "lost")
  /\ \/ /\ ids' = NoOne
        /\ stages' = stages \ {i}
        /\ UNCHANGED <<dirty, faults>>
     \/ Ignored(i) /\ UNCHANGED ids /\ stages' \in {stages, stages \ {i}}
  /\ UNCHANGED <<config, declarations, displaced, moved>>

-----------------------------------------------------------------------------
(* The environment. *)

Kill(i) ==
  /\ pc[i] \notin Ended
  /\ Fault
  /\ Goto(i, "killed")
  /\ dirty' = dirty \cup {i}
  /\ UNCHANGED <<root, stages, displaced, moved>>

\* The user writes into the root; what is there already stays.
WriteConfig == "config" \in Acts /\ config = NoOne /\ config' = User /\ UNCHANGED <<ids, declarations>>

WriteIds == "ids" \in Acts /\ ids = NoOne /\ ids' = User /\ UNCHANGED <<config, declarations>>

MakeDirectory ==
  /\ "directory" \in Acts /\ schema = "absent" /\ schema' = "dir"
  /\ UNCHANGED <<config, ids, keep, files>>

MakePlainFile ==
  /\ "plain" \in Acts /\ schema = "absent" /\ schema' = "file"
  /\ UNCHANGED <<config, ids, keep, files>>

WriteFile ==
  /\ "file" \in Acts /\ schema = "dir" /\ User \notin files
  /\ files' = files \cup {User}
  /\ UNCHANGED <<config, ids, schema, keep>>

WriteNotes ==
  /\ "notes" \in Acts /\ schema = "dir" /\ keep = "empty"
  /\ keep' = "notes"
  /\ UNCHANGED <<config, ids, schema, files>>

UserActs ==
  /\ WriteConfig \/ WriteIds \/ MakeDirectory \/ MakePlainFile \/ WriteFile \/ WriteNotes
  /\ touched' = TRUE
  /\ UNCHANGED <<stages, pc, displaced, moved, orig, dirty, faults>>

Step(i) ==
  /\ \/ LookFirst(i) \/ Stage(i) \/ Recheck(i) \/ Claim(i) \/ IsDir(i)
     \/ DisplaceKeep(i) \/ RemoveDirectory(i) \/ Move(i) \/ Mark(i) \/ Clean(i)
     \/ Unmove(i) \/ Undisplace(i) \/ Release(i)
  /\ UNCHANGED <<orig, touched>>

Next ==
  \/ \E i \in Inits: Step(i) \/ (Kill(i) /\ UNCHANGED <<orig, touched>>)
  \/ UserActs

\* A process that is running goes on.
Fairness == \A i \in Inits: WF_vars(Step(i))

Spec == Init /\ [][Next]_vars /\ Fairness

-----------------------------------------------------------------------------
(* Properties. *)

\* Every variable has its type.
TypeOK ==
  /\ config \in Writers \cup {NoOne} /\ ids \in Writers \cup {NoOne}
  /\ schema \in {"absent", "dir", "file"} /\ keep \in Keeps /\ files \subseteq Writers
  /\ schema # "dir" => keep = "none" /\ files = {}
  /\ stages \subseteq Inits /\ moved \subseteq Inits /\ dirty \subseteq Inits
  /\ pc \in [Inits -> Places]
  /\ displaced \in [Inits -> {"nothing", "empty", "gitkeep"}]
  /\ orig \in Acceptable /\ touched \in BOOLEAN /\ faults \in 0..MaxFaults

\* Another process sees either no project or a whole one: whenever pbps.yml is
\* an init's, the identity file and the declarations beside it are that same
\* init's, whatever races, dies or is refused (commit, "pbps.yml last").
WholeProject ==
  config \in Inits => ids = config /\ schema = "dir" /\ files \cap Inits = {config}

\* What an init installed is only ever removed by its own rollback: no loser
\* deletes the winner's declarations or identities (commit, the claim).
WinnerKept ==
  [][\A i \in Inits:
       /\ i \in files /\ i \notin files' => pc[i] = "unmove"
       /\ ids = i /\ ids' # i => pc[i] = "release"]_vars

\* Whoever is between the claim and its release holds the identity file; the
\* declarations an init has moved in are the only ones, until it marks the
\* project or takes them back.
Holds ==
  \A i \in Inits:
    /\ pc[i] \in Installing \cup Undoing \cup {"clean"} => ids = i
    /\ pc[i] \in {"mark", "unmove"} => schema = "dir" /\ files \cap Inits = {i}
    /\ pc[i] \in {"keep", "rmdir"} => schema = "dir"
    /\ config = i => pc[i] \in {"clean", "won", "killed"}

\* What makes a visible project whole, as an invariant every step keeps.
Inv == TypeOK /\ Holds /\ WholeProject

\* No init is past its recheck and may still install or undo.
Behind == \A i \in Inits: pc[i] \notin {"claim"} \cup Installing \cup Undoing

\* What the user wrote while init was preparing wins, whatever the inits do:
\* pbps.yml, the identity file and a file named schema for good; an entry of
\* schema/ other than .gitkeep as long as no init has moved its declarations
\* in (commit, the no-replace calls and remove_dir); and content of .gitkeep
\* for good if no init had passed its recheck when it was there, since none
\* then passes it (refuse_existing, called again by commit).  An init that is
\* past its recheck removes a .gitkeep without looking into it again.
UserWins ==
  [][/\ config = User => config' = User
     /\ ids = User => ids' = User
     /\ schema = "file" => schema' = "file"
     /\ User \in files /\ files \cap Inits = {} => User \in files'
     /\ keep = "notes" /\ Behind => keep' = "notes" /\ Behind']_vars

\* Inits that all failed leave the root as it was, staging trees included,
\* unless one was killed, a call of a rollback was refused or the user wrote
\* into the root (commit's rollback, Displaced, Staging::drop).
FailureLeavesNothing ==
  (\A i \in Inits: pc[i] = "lost") /\ dirty = {} /\ ~touched
    => /\ config = NoOne /\ ids = NoOne /\ files = {} /\ stages = {}
       /\ schema = orig.schema /\ keep = orig.keep

\* Inits that race do not all refuse each other: unless the user writes into
\* the root or a call is refused, one of them creates the project.
SomeInitWins == <>((\E i \in Inits: pc[i] = "won") \/ touched \/ faults > 0)
=============================================================================
