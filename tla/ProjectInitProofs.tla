-------------------------- MODULE ProjectInitProofs --------------------------
(* What racing inits and a racing user can never do to a project root, for any
   number of inits, any of the user's acts and any number of faults: a visible
   project is whole (WholeProject), an init's files are removed by its own
   rollback only (WinnerKept), and what the user wrote stays, each entry
   for as long as commit's calls can protect it (UserWins).  All three rest on Inv: an init that
   is past its claim holds the identity file, so at most one is, and the
   declarations it moved in are the only ones.                              *)
EXTENDS ProjectInit, TLAPS

\* The initial states, a root that refuse_existing accepts, satisfy Inv.
LEMMA InitInv == Init => Inv
<1> SUFFICES ASSUME Init PROVE Inv
  OBVIOUS
<1> USE InitAssumption
<1>1. TypeOK
  <2>1. /\ schema \in {"absent", "dir", "file"} /\ keep \in Keeps
        /\ schema # "dir" => keep = "none"
    BY DEF Init, Acceptable, Keeps
  <2>2. "config" \in Places
    BY DEF Places, Looking
  <2>3. touched \in BOOLEAN
    BY DEF Init
  <2>4. 0 \in 0..MaxFaults
    OBVIOUS
  <2>5. pc \in [Inits -> Places]
    BY <2>2 DEF Init
  <2> QED
    BY <2>1, <2>3, <2>4, <2>5 DEF Init, TypeOK
<1>2. Holds
  BY DEF Init, Holds, Installing, Undoing
<1>3. WholeProject
  BY DEF Init, WholeProject
<1> QED
  BY <1>1, <1>2, <1>3 DEF Inv

(* Steps that leave the root alone. *)

\* A step that only moves an init between places without a claim, or to the
\* first place after one it already has, keeps the invariant.
LEMMA RootAlone ==
  ASSUME Inv, NEW i \in Inits, NEW p \in Places, Goto(i, p), UNCHANGED <<root, moved, displaced, orig, touched>>,
         stages' \subseteq Inits, dirty' \subseteq Inits, faults' \in 0..MaxFaults,
         p \in Installing \cup Undoing \cup {"clean"} => ids = i,
         p \in {"mark", "unmove"} => schema = "dir" /\ files \cap Inits = {i},
         p \in {"keep", "rmdir"} => schema = "dir",
         config = i => p \in {"clean", "won", "killed"}
  PROVE  Inv'
<1> USE InitAssumption
<1>0. pc' = [pc EXCEPT ![i] = p] /\ pc \in [Inits -> Places]
  BY DEF Goto, Inv, TypeOK
<1>1. TypeOK'
  BY <1>0 DEF Inv, TypeOK, root, declarations
<1>2. Holds'
  BY <1>0 DEF Inv, Holds, root, declarations
<1>3. WholeProject'
  BY DEF Inv, WholeProject, root, declarations
<1> QED
  BY <1>1, <1>2, <1>3 DEF Inv

\* A fault is within its bound, and so is no fault.
LEMMA FaultBound ==
  ASSUME TypeOK, Fault \/ UNCHANGED faults
  PROVE  faults' \in 0..MaxFaults
BY InitAssumption DEF TypeOK, Fault

\* An init without a claim does not own the marker.
LEMMA NoMarker ==
  ASSUME Inv, NEW i \in Inits, pc[i] \notin {"clean", "won", "killed"}
  PROVE  config # i
BY DEF Inv, Holds

\* A refusal before the claim (refuse_existing, a failed stage or link) keeps Inv.
LEMMA RefuseInv ==
  ASSUME Inv, NEW i \in Inits, Refuse(i), pc[i] \notin {"clean", "won", "killed"},
         Fault \/ UNCHANGED faults, UNCHANGED <<orig, touched>>
  PROVE  Inv'
<1>1. config # i
  BY NoMarker
<1>2. faults' \in 0..MaxFaults
  BY FaultBound DEF Inv
<1>3. "lost" \in Places /\ Goto(i, "lost") /\ UNCHANGED <<root, moved, displaced, orig, touched>>
  BY DEF Places, Ended, Refuse
<1>4. stages' \subseteq Inits /\ dirty' \subseteq Inits
  BY DEF Refuse, Inv, TypeOK
<1>5. "lost" \notin Installing \cup Undoing \cup {"clean", "mark", "unmove", "keep", "rmdir"}
  BY DEF Installing, Undoing
<1> QED
  BY <1>1, <1>2, <1>3, <1>4, <1>5, RootAlone

\* One look of refuse_existing keeps Inv.
LEMMA LookInv ==
  ASSUME Inv, NEW i \in Inits, NEW at, NEW found, NEW next \in Looking \cup Rechecking \cup {"stage", "claim"},
         Look(i, at, found, next), at \in Looking \cup Rechecking, UNCHANGED <<orig, touched>>
  PROVE  Inv'
<1>1. pc[i] \notin {"clean", "won", "killed"}
  BY DEF Look, Looking, Rechecking
<1>2. CASE found
  BY <1>1, <1>2, RefuseInv DEF Look
<1>3. CASE ~found
  <2>1. config # i
    BY <1>1, NoMarker
  <2>2. next \in Places /\ next \notin Installing \cup Undoing \cup {"clean", "mark", "unmove", "keep", "rmdir"}
    BY DEF Places, Looking, Rechecking, Installing, Undoing
  <2>3. Goto(i, next) /\ UNCHANGED <<root, moved, displaced, orig, touched>>
    BY <1>3 DEF Look
  <2>4. stages' \subseteq Inits /\ dirty' \subseteq Inits /\ faults' \in 0..MaxFaults
    BY <1>3 DEF Look, Inv, TypeOK
  <2> QED
    BY <2>1, <2>2, <2>3, <2>4, RootAlone
<1> QED
  BY <1>2, <1>3

\* So do all six, at the start and before the installation.
LEMMA LookingInv ==
  ASSUME Inv, NEW i \in Inits, LookFirst(i) \/ Recheck(i), UNCHANGED <<orig, touched>>
  PROVE  Inv'
<1>1. CASE pc[i] \in {"schema", "recheck_schema"} /\ Fault /\ Refuse(i)
  BY <1>1, RefuseInv
<1>2. CASE Look(i, "config", config # NoOne, "ids")
  BY <1>2, LookInv DEF Looking, Rechecking
<1>3. CASE Look(i, "ids", ids # NoOne, "schema")
  BY <1>3, LookInv DEF Looking, Rechecking
<1>4. CASE Look(i, "schema", Occupied, "stage")
  BY <1>4, LookInv DEF Looking, Rechecking
<1>5. CASE Look(i, "recheck_config", config # NoOne, "recheck_ids")
  BY <1>5, LookInv DEF Looking, Rechecking
<1>6. CASE Look(i, "recheck_ids", ids # NoOne, "recheck_schema")
  BY <1>6, LookInv DEF Looking, Rechecking
<1>7. CASE Look(i, "recheck_schema", Occupied, "claim")
  BY <1>7, LookInv DEF Looking, Rechecking
<1> QED
  BY <1>1, <1>2, <1>3, <1>4, <1>5, <1>6, <1>7 DEF LookFirst, Recheck

\* Staging keeps Inv: it writes beside the root, or is refused.
LEMMA StageInv ==
  ASSUME Inv, NEW i \in Inits, Stage(i), UNCHANGED <<orig, touched>>
  PROVE  Inv'
<1>1. pc[i] = "stage"
  BY DEF Stage
<1>2. config # i
  BY <1>1, NoMarker
<1>3. CASE Fault /\ Refuse(i)
  BY <1>1, <1>3, RefuseInv
<1>4. CASE /\ Goto(i, "recheck_config") /\ stages' = stages \cup {i}
           /\ UNCHANGED <<root, displaced, moved, dirty, faults>>
  <2>1. "recheck_config" \in Places \ (Installing \cup Undoing \cup {"clean", "mark", "unmove", "keep", "rmdir"})
    BY DEF Places, Rechecking, Installing, Undoing
  <2>2. stages' \subseteq Inits /\ dirty' \subseteq Inits /\ faults' \in 0..MaxFaults
    BY <1>4 DEF Inv, TypeOK
  <2> QED
    BY <1>2, <1>4, <2>1, <2>2, RootAlone
<1> QED
  BY <1>3, <1>4 DEF Stage

\* The question whether schema/ is a directory keeps Inv.
LEMMA IsDirInv ==
  ASSUME Inv, NEW i \in Inits, IsDir(i), UNCHANGED <<orig, touched>>
  PROVE  Inv'
<1>1. pc[i] = "is_dir" /\ ids = i
  BY DEF IsDir, Inv, Holds, Installing
<1>2. config # i
  BY <1>1, NoMarker
<1>3. stages' \subseteq Inits /\ dirty' \subseteq Inits /\ faults' \in 0..MaxFaults
      /\ UNCHANGED <<root, moved, displaced, orig, touched>>
  BY DEF IsDir, Inv, TypeOK
<1>4. {"keep", "move"} \subseteq Places
  BY DEF Places, Installing
<1>5. CASE schema = "dir"
  BY <1>1, <1>2, <1>3, <1>4, <1>5, RootAlone DEF IsDir
<1>6. CASE schema # "dir"
  BY <1>1, <1>2, <1>3, <1>4, <1>6, RootAlone DEF IsDir
<1> QED
  BY <1>5, <1>6

\* The end of a successful commit keeps Inv.
LEMMA CleanInv ==
  ASSUME Inv, NEW i \in Inits, Clean(i), UNCHANGED <<orig, touched>>
  PROVE  Inv'
<1>1. stages' \subseteq Inits /\ dirty' \subseteq Inits /\ Goto(i, "won")
      /\ UNCHANGED <<root, moved, displaced, orig, touched>>
  BY DEF Clean, Inv, TypeOK
<1>2. faults' \in 0..MaxFaults
  BY FaultBound DEF Clean, Inv
<1>3. "won" \in Places \ (Installing \cup Undoing \cup {"clean", "mark", "unmove", "keep", "rmdir"})
  BY DEF Places, Ended, Installing, Undoing
<1> QED
  BY <1>1, <1>2, <1>3, RootAlone

\* A kill keeps Inv: the root stays as it is.
LEMMA KillInv ==
  ASSUME Inv, NEW i \in Inits, Kill(i), UNCHANGED <<orig, touched>>
  PROVE  Inv'
<1>1. stages' \subseteq Inits /\ dirty' \subseteq Inits /\ Goto(i, "killed")
      /\ UNCHANGED <<root, moved, displaced, orig, touched>>
  BY DEF Kill, Inv, TypeOK
<1>2. faults' \in 0..MaxFaults
  BY FaultBound DEF Kill, Inv
<1>3. "killed" \in Places \ (Installing \cup Undoing \cup {"clean", "mark", "unmove", "keep", "rmdir"})
  BY DEF Places, Ended, Installing, Undoing
<1> QED
  BY <1>1, <1>2, <1>3, RootAlone

(* Steps that write the root. *)

\* While an init holds the identity file, no other is past its claim.
LEMMA OneHolder ==
  ASSUME Inv, NEW i \in Inits, ids = i
  PROVE  \A j \in Inits: j # i => pc[j] \notin Installing \cup Undoing \cup {"clean"}
BY DEF Inv, Holds

\* An init that is past its claim and has not marked the project holds the
\* root, and there is no marker of an init.
LEMMA Holder ==
  ASSUME Inv, NEW i \in Inits, pc[i] \in Installing \cup Undoing
  PROVE  /\ ids = i /\ config \notin Inits
         /\ \A j \in Inits: j # i => pc[j] \notin Installing \cup Undoing \cup {"clean"}
<1>1. ids = i
  BY DEF Inv, Holds
<1>2. pc[i] \notin {"clean", "won", "killed"}
  BY DEF Installing, Undoing
<1>3. config # i
  BY <1>2, NoMarker
<1>4. config \notin Inits
  BY <1>1, <1>3 DEF Inv, WholeProject
<1> QED
  BY <1>1, <1>4, OneHolder

\* The link of the identity file keeps Inv: nobody was past a claim.
LEMMA ClaimInv ==
  ASSUME Inv, NEW i \in Inits, Claim(i), UNCHANGED <<orig, touched>>
  PROVE  Inv'
<1> USE InitAssumption
<1>1. pc[i] = "claim" /\ pc \in [Inits -> Places]
  BY DEF Claim, Inv, TypeOK
<1>2. CASE Refuse(i) /\ (Fault \/ UNCHANGED faults)
  BY <1>1, <1>2, RefuseInv
<1>3. CASE /\ ids = NoOne /\ ids' = i /\ Goto(i, "is_dir")
           /\ UNCHANGED <<config, declarations, stages, displaced, moved, dirty, faults>>
  <2>1. TypeOK'
    BY <1>1, <1>3 DEF Inv, TypeOK, declarations, Goto, Writers, Places, Installing
  <2>2. \A j \in Inits: pc[j] \notin Installing \cup Undoing \cup {"clean"}
    BY <1>3 DEF Inv, Holds
  <2>3. config \notin Inits
    BY <1>3 DEF Inv, WholeProject
  <2>4. Holds'
    BY <1>1, <1>3, <2>2, <2>3 DEF Inv, Holds, declarations, Goto, Installing, Undoing
  <2>5. WholeProject'
    BY <1>3, <2>3 DEF WholeProject
  <2> QED
    BY <2>1, <2>4, <2>5 DEF Inv
<1> QED
  BY <1>2, <1>3 DEF Claim

\* Removing the .gitkeep keeps Inv.
LEMMA DisplaceKeepInv ==
  ASSUME Inv, NEW i \in Inits, DisplaceKeep(i), UNCHANGED <<orig, touched>>
  PROVE  Inv'
<1> USE InitAssumption
<1>1. pc[i] = "keep" /\ pc \in [Inits -> Places] /\ pc' = [pc EXCEPT ![i] = "rmdir"] /\ schema = "dir"
  BY DEF DisplaceKeep, Goto, Inv, TypeOK, Holds
<1>2. ids = i /\ config \notin Inits /\ UNCHANGED <<config, ids, schema, files>>
      /\ \A j \in Inits: j # i => pc[j] \notin Installing \cup Undoing \cup {"clean"}
  BY <1>1, Holder DEF Installing, DisplaceKeep
<1>3. faults' \in 0..MaxFaults
  BY FaultBound DEF DisplaceKeep, Inv
<1>4. TypeOK'
  BY <1>1, <1>2, <1>3 DEF DisplaceKeep, Inv, TypeOK, Places, Installing, Keeps
<1>5. Holds'
  BY <1>1, <1>2 DEF Inv, Holds, Installing, Undoing
<1>6. WholeProject'
  BY <1>2 DEF WholeProject
<1> QED
  BY <1>4, <1>5, <1>6 DEF Inv

\* remove_dir keeps Inv.
LEMMA RemoveDirectoryInv ==
  ASSUME Inv, NEW i \in Inits, RemoveDirectory(i), UNCHANGED <<orig, touched>>
  PROVE  Inv'
<1> USE InitAssumption
<1>1. pc[i] = "rmdir" /\ pc \in [Inits -> Places]
  BY DEF RemoveDirectory, Inv, TypeOK
<1>2. ids = i /\ config \notin Inits /\ UNCHANGED <<config, ids>>
      /\ \A j \in Inits: j # i => pc[j] \notin Installing \cup Undoing \cup {"clean"}
  BY <1>1, Holder DEF Installing, RemoveDirectory
<1>3. faults' \in 0..MaxFaults
  BY FaultBound DEF RemoveDirectory, Inv
<1>4. PICK p \in {"move", "undisplace"}: pc' = [pc EXCEPT ![i] = p]
  BY DEF RemoveDirectory, Goto
<1>5. TypeOK'
  BY <1>1, <1>2, <1>3, <1>4
     DEF RemoveDirectory, Bare, Inv, TypeOK, declarations, Places, Installing, Undoing
<1>6. Holds'
  BY <1>1, <1>2, <1>4 DEF Inv, Holds, Installing, Undoing
<1>7. WholeProject'
  BY <1>2 DEF WholeProject
<1> QED
  BY <1>5, <1>6, <1>7 DEF Inv

\* Moving schema/ in keeps Inv: what it replaces is empty.
LEMMA MoveInv ==
  ASSUME Inv, NEW i \in Inits, Move(i), UNCHANGED <<orig, touched>>
  PROVE  Inv'
<1> USE InitAssumption
<1>1. pc[i] = "move" /\ pc \in [Inits -> Places]
  BY DEF Move, Inv, TypeOK
<1>2. ids = i /\ config \notin Inits /\ UNCHANGED <<config, ids>>
      /\ \A j \in Inits: j # i => pc[j] \notin Installing \cup Undoing \cup {"clean"}
  BY <1>1, Holder DEF Installing, Move
<1>3. faults' \in 0..MaxFaults
  BY FaultBound DEF Move, Inv
<1>4. CASE schema' = "dir" /\ keep' = "empty" /\ files' = {i} /\ moved' = moved \cup {i} /\ Goto(i, "mark")
  <2>1. TypeOK'
    BY <1>1, <1>2, <1>3, <1>4
       DEF Move, Inv, TypeOK, Goto, Places, Installing, Keeps, Writers
  <2>2. Holds'
    BY <1>1, <1>2, <1>4 DEF Inv, Holds, Goto, Installing, Undoing
  <2> QED
    BY <1>2, <2>1, <2>2 DEF Inv, WholeProject
<1>5. CASE Goto(i, "undisplace") /\ UNCHANGED <<declarations, moved>>
  <2>1. TypeOK'
    BY <1>1, <1>2, <1>3, <1>5 DEF Move, Inv, TypeOK, Goto, declarations, Places, Undoing
  <2>2. Holds'
    BY <1>1, <1>2, <1>5 DEF Inv, Holds, Goto, Installing, Undoing
  <2> QED
    BY <1>2, <2>1, <2>2 DEF Inv, WholeProject
<1> QED
  BY <1>4, <1>5 DEF Move

\* The link of pbps.yml keeps Inv: the rest of the project is there.
LEMMA MarkInv ==
  ASSUME Inv, NEW i \in Inits, Mark(i), UNCHANGED <<orig, touched>>
  PROVE  Inv'
<1> USE InitAssumption
<1>1. pc[i] = "mark" /\ pc \in [Inits -> Places] /\ schema = "dir" /\ files \cap Inits = {i}
  BY DEF Mark, Inv, TypeOK, Holds
<1>2. ids = i /\ config \notin Inits /\ UNCHANGED <<ids, schema, keep, files>>
      /\ \A j \in Inits: j # i => pc[j] \notin Installing \cup Undoing \cup {"clean"}
  BY <1>1, Holder DEF Installing, Mark, declarations
<1>3. faults' \in 0..MaxFaults
  BY FaultBound DEF Mark, Inv
<1>4. CASE config' = i /\ Goto(i, "clean")
  <2>1. TypeOK'
    BY <1>1, <1>2, <1>3, <1>4 DEF Mark, Inv, TypeOK, Goto, Places, Writers
  <2>2. Holds'
    BY <1>1, <1>2, <1>4 DEF Inv, Holds, Goto, Installing, Undoing
  <2>3. WholeProject'
    BY <1>1, <1>2, <1>4 DEF WholeProject
  <2> QED
    BY <2>1, <2>2, <2>3 DEF Inv
<1>5. CASE Goto(i, "unmove") /\ UNCHANGED config
  <2>1. TypeOK'
    BY <1>1, <1>2, <1>3, <1>5 DEF Mark, Inv, TypeOK, Goto, Places, Undoing
  <2>2. Holds'
    BY <1>1, <1>2, <1>5 DEF Inv, Holds, Goto, Installing, Undoing
  <2>3. WholeProject'
    BY <1>2, <1>5 DEF WholeProject
  <2> QED
    BY <2>1, <2>2, <2>3 DEF Inv
<1> QED
  BY <1>4, <1>5 DEF Mark

\* Taking the declarations back keeps Inv: there is no marker yet.
LEMMA UnmoveInv ==
  ASSUME Inv, NEW i \in Inits, Unmove(i), UNCHANGED <<orig, touched>>
  PROVE  Inv'
<1> USE InitAssumption
<1>1. pc[i] = "unmove" /\ pc \in [Inits -> Places] /\ pc' = [pc EXCEPT ![i] = "undisplace"] /\ schema = "dir"
  BY DEF Unmove, Goto, Inv, TypeOK, Holds
<1>2. ids = i /\ config \notin Inits /\ UNCHANGED <<config, ids>>
      /\ \A j \in Inits: j # i => pc[j] \notin Installing \cup Undoing \cup {"clean"}
  BY <1>1, Holder DEF Undoing, Unmove
<1>3. faults' \in 0..MaxFaults
  BY FaultBound DEF Unmove, Inv, Ignored
<1>4. TypeOK'
  BY <1>1, <1>2, <1>3 DEF Unmove, Ignored, Inv, TypeOK, Places, Undoing, Keeps
<1>5. Holds'
  BY <1>1, <1>2 DEF Inv, Holds, Installing, Undoing
<1>6. WholeProject'
  BY <1>2 DEF WholeProject
<1> QED
  BY <1>4, <1>5, <1>6 DEF Inv

\* Putting the directory back keeps Inv.
LEMMA UndisplaceInv ==
  ASSUME Inv, NEW i \in Inits, Undisplace(i), UNCHANGED <<orig, touched>>
  PROVE  Inv'
<1> USE InitAssumption
<1>1. pc[i] = "undisplace" /\ pc \in [Inits -> Places] /\ pc' = [pc EXCEPT ![i] = "release"]
  BY DEF Undisplace, Goto, Inv, TypeOK
<1>2. ids = i /\ config \notin Inits /\ UNCHANGED <<config, ids>>
      /\ \A j \in Inits: j # i => pc[j] \notin Installing \cup Undoing \cup {"clean"}
  BY <1>1, Holder DEF Undoing, Undisplace
<1>3. faults' \in 0..MaxFaults
  BY FaultBound DEF Undisplace, Inv, Ignored
<1>4. TypeOK'
  BY <1>1, <1>2, <1>3 DEF Undisplace, Ignored, Inv, TypeOK, declarations, Places, Undoing, Keeps
<1>5. Holds'
  BY <1>1, <1>2 DEF Inv, Holds, Installing, Undoing
<1>6. WholeProject'
  BY <1>2 DEF WholeProject
<1> QED
  BY <1>4, <1>5, <1>6 DEF Inv

\* Releasing the claim keeps Inv.
LEMMA ReleaseInv ==
  ASSUME Inv, NEW i \in Inits, Release(i), UNCHANGED <<orig, touched>>
  PROVE  Inv'
<1> USE InitAssumption
<1>1. pc[i] = "release" /\ pc \in [Inits -> Places] /\ pc' = [pc EXCEPT ![i] = "lost"]
  BY DEF Release, Goto, Inv, TypeOK
<1>2. ids = i /\ config \notin Inits /\ UNCHANGED <<config, schema, keep, files>>
      /\ \A j \in Inits: j # i => pc[j] \notin Installing \cup Undoing \cup {"clean"}
  BY <1>1, Holder DEF Undoing, Release, declarations
<1>3. faults' \in 0..MaxFaults
  BY FaultBound DEF Release, Inv, Ignored
<1>4. TypeOK'
  BY <1>1, <1>2, <1>3 DEF Release, Ignored, Inv, TypeOK, Places, Ended
<1>5. Holds'
  BY <1>1, <1>2 DEF Inv, Holds, Installing, Undoing
<1>6. WholeProject'
  BY <1>2 DEF WholeProject
<1> QED
  BY <1>4, <1>5, <1>6 DEF Inv

\* The user only adds what is not there.
LEMMA UserInv ==
  ASSUME Inv, UserActs
  PROVE  Inv'
<1> USE InitAssumption
<1>1. UNCHANGED <<stages, pc, displaced, moved, orig, dirty, faults>> /\ touched' = TRUE
  BY DEF UserActs
<1>2. CASE WriteConfig
  BY <1>1, <1>2 DEF WriteConfig, Inv, TypeOK, Holds, WholeProject, declarations, Writers
<1>3. CASE WriteIds
  <2>1. config \notin Inits /\ \A j \in Inits: pc[j] \notin Installing \cup Undoing \cup {"clean"}
    BY <1>3 DEF WriteIds, Inv, Holds, WholeProject
  <2>2. TypeOK'
    BY <1>1, <1>3 DEF WriteIds, Inv, TypeOK, declarations, Writers
  <2>3. Holds' /\ WholeProject'
    BY <1>1, <1>3, <2>1 DEF WriteIds, Inv, Holds, WholeProject, declarations
  <2> QED
    BY <2>2, <2>3 DEF Inv
<1>4. CASE MakeDirectory \/ MakePlainFile
  BY <1>1, <1>4 DEF MakeDirectory, MakePlainFile, Inv, TypeOK, Holds, WholeProject
<1>5. CASE WriteFile \/ WriteNotes
  BY <1>1, <1>5 DEF WriteFile, WriteNotes, Inv, TypeOK, Holds, WholeProject, Writers, Keeps
<1> QED
  BY <1>2, <1>3, <1>4, <1>5 DEF UserActs

\* Every step keeps Inv.
LEMMA NextInv == Inv /\ [Next]_vars => Inv'
<1> SUFFICES ASSUME Inv, [Next]_vars PROVE Inv'
  OBVIOUS
<1>1. CASE UNCHANGED vars
  BY <1>1 DEF vars, root, declarations, Inv, TypeOK, Holds, WholeProject
<1>2. CASE UserActs
  BY <1>2, UserInv
<1>3. ASSUME NEW i \in Inits, Step(i) PROVE Inv'
  BY <1>3, LookingInv, StageInv, ClaimInv, IsDirInv, DisplaceKeepInv, RemoveDirectoryInv,
     MoveInv, MarkInv, CleanInv, UnmoveInv, UndisplaceInv, ReleaseInv DEF Step
<1>4. ASSUME NEW i \in Inits, Kill(i), UNCHANGED <<orig, touched>> PROVE Inv'
  BY <1>4, KillInv
<1> QED
  BY <1>1, <1>2, <1>3, <1>4 DEF Next

\* Inv holds in every state of every behaviour of init (commit and its callers).
THEOREM Invariance == Spec => []Inv
<1>1. Init => Inv
  BY InitInv
<1>2. Inv /\ [Next]_vars => Inv'
  BY NextInv
<1> QED
  BY <1>1, <1>2, PTL DEF Spec

\* commit's promise: another process sees no project or a whole one, however
\* many inits and whatever the user does.
THEOREM ProjectIsWhole == Spec => []WholeProject
<1>1. Inv => WholeProject
  BY DEF Inv
<1> QED
  BY <1>1, Invariance, PTL

(* What one step may never do. *)

\* A step of an init adds to the root, except when it takes back its own
\* declarations or releases its own claim, and never touches a plain file.
LEMMA StepKeeps ==
  ASSUME Inv, NEW j \in Inits, Step(j) \/ Kill(j)
  PROVE  /\ files \subseteq files' \/ (pc[j] = "unmove" /\ files \cap Inits = {j})
         /\ ids' = ids \/ ids = NoOne \/ (ids = j /\ pc[j] = "release")
         /\ config' = config \/ config = NoOne
         /\ schema = "file" => schema' = "file"
<1>1. CASE LookFirst(j) \/ Recheck(j)
  BY <1>1 DEF LookFirst, Recheck, Look, Refuse, root, declarations
<1>2. CASE Stage(j) \/ IsDir(j) \/ Clean(j) \/ Kill(j)
  BY <1>2 DEF Stage, IsDir, Clean, Kill, Refuse, root, declarations
<1>3. CASE Claim(j)
  BY <1>3 DEF Claim, Refuse, root, declarations
<1>4. CASE DisplaceKeep(j) \/ RemoveDirectory(j)
  BY <1>4 DEF DisplaceKeep, RemoveDirectory, Bare, declarations
<1>5. CASE Move(j)
  BY <1>5 DEF Move, Replaceable, declarations
<1>6. CASE Mark(j)
  BY <1>6 DEF Mark, declarations
<1>7. CASE Unmove(j)
  BY <1>7 DEF Unmove, Inv, Holds
<1>8. CASE Undisplace(j)
  BY <1>8 DEF Undisplace, declarations
<1>9. CASE Release(j)
  <2>1. ids = j /\ pc[j] = "release"
    BY <1>9 DEF Release, Inv, Holds, Undoing
  <2> QED
    BY <1>9, <2>1 DEF Release, declarations
<1> QED
  BY <1>1, <1>2, <1>3, <1>4, <1>5, <1>6, <1>7, <1>8, <1>9 DEF Step

\* The user adds to the root, and only what is not there.
LEMMA UserKeeps ==
  ASSUME UserActs
  PROVE  /\ files \subseteq files'
         /\ ids' = ids \/ ids = NoOne
         /\ config' = config \/ config = NoOne
         /\ schema = "file" => schema' = "file"
<1>1. CASE WriteConfig \/ WriteIds
  BY <1>1 DEF WriteConfig, WriteIds, declarations
<1>2. CASE MakeDirectory \/ MakePlainFile \/ WriteFile \/ WriteNotes
  BY <1>2 DEF MakeDirectory, MakePlainFile, WriteFile, WriteNotes
<1> QED
  BY <1>1, <1>2 DEF UserActs

\* The action of WinnerKept, for one init.
LEMMA WinnerStep ==
  ASSUME Inv, Next, NEW i \in Inits
  PROVE  /\ i \in files /\ i \notin files' => pc[i] = "unmove"
         /\ ids = i /\ ids' # i => pc[i] = "release"
<1> USE InitAssumption
<1>1. CASE UserActs
  BY <1>1, UserKeeps
<1>2. ASSUME NEW j \in Inits, Step(j) \/ Kill(j)
      PROVE  /\ i \in files /\ i \notin files' => pc[i] = "unmove"
             /\ ids = i /\ ids' # i => pc[i] = "release"
  BY <1>2, StepKeeps
<1> QED
  BY <1>1, <1>2 DEF Next

\* While .gitkeep has content and no init is past its recheck, none passes it.
LEMMA NotesStay ==
  ASSUME Inv, keep = "notes", Behind, Next
  PROVE  keep' = "notes" /\ Behind'
<1>0. pc \in [Inits -> Places] /\ Occupied
  BY DEF Inv, TypeOK, Occupied
<1>1. CASE UserActs
  BY <1>1 DEF UserActs, WriteConfig, WriteIds, MakeDirectory, MakePlainFile, WriteFile, WriteNotes,
              declarations, Behind
<1>2. ASSUME NEW j \in Inits, Step(j) \/ Kill(j)
      PROVE  keep' = "notes" /\ Behind'
  <2>0. pc[j] \notin {"claim"} \cup Installing \cup Undoing
    BY DEF Behind
  <2>1. ASSUME NEW p, Goto(j, p), p \notin {"claim"} \cup Installing \cup Undoing, UNCHANGED keep
        PROVE  keep' = "notes" /\ Behind'
    BY <1>0, <2>1 DEF Goto, Behind
  <2>2. CASE LookFirst(j)
    <3>1. PICK p \in {"lost", "ids", "schema", "stage"} : Goto(j, p)
      BY <2>2 DEF LookFirst, Look, Refuse
    <3>2. UNCHANGED keep
      BY <2>2 DEF LookFirst, Look, Refuse, root, declarations
    <3> QED
      BY <2>1, <3>1, <3>2 DEF Installing, Undoing
  <2>3. CASE Recheck(j)
    <3>1. PICK p \in {"lost", "recheck_ids", "recheck_schema"} : Goto(j, p)
      BY <1>0, <2>3 DEF Recheck, Look, Refuse
    <3>2. UNCHANGED keep
      BY <2>3 DEF Recheck, Look, Refuse, root, declarations
    <3> QED
      BY <2>1, <3>1, <3>2 DEF Installing, Undoing
  <2>4. CASE Stage(j) \/ Clean(j) \/ Kill(j)
    <3>1. PICK p \in {"recheck_config", "lost", "won", "killed"} : Goto(j, p)
      BY <2>4 DEF Stage, Clean, Kill, Refuse
    <3>2. UNCHANGED keep
      BY <2>4 DEF Stage, Clean, Kill, Refuse, root, declarations
    <3> QED
      BY <2>1, <3>1, <3>2 DEF Installing, Undoing
  <2>5. CASE \/ Claim(j) \/ IsDir(j) \/ DisplaceKeep(j) \/ RemoveDirectory(j) \/ Move(j)
             \/ Mark(j) \/ Unmove(j) \/ Undisplace(j) \/ Release(j)
    BY <2>0, <2>5 DEF Claim, IsDir, DisplaceKeep, RemoveDirectory, Move, Mark, Unmove, Undisplace,
                      Release, Installing, Undoing
  <2> QED
    BY <1>2, <2>2, <2>3, <2>4, <2>5 DEF Step
<1> QED
  BY <1>1, <1>2 DEF Next

\* The action of UserWins.
LEMMA UserStep ==
  ASSUME Inv, Next
  PROVE  /\ config = User => config' = User
         /\ ids = User => ids' = User
         /\ schema = "file" => schema' = "file"
         /\ User \in files /\ files \cap Inits = {} => User \in files'
         /\ keep = "notes" /\ Behind => keep' = "notes" /\ Behind'
<1> USE InitAssumption
<1>1. CASE UserActs
  BY <1>1, UserKeeps, NotesStay DEF User, NoOne
<1>2. ASSUME NEW j \in Inits, Step(j) \/ Kill(j)
      PROVE  /\ config = User => config' = User
             /\ ids = User => ids' = User
             /\ schema = "file" => schema' = "file"
             /\ User \in files /\ files \cap Inits = {} => User \in files'
  BY <1>2, StepKeeps DEF User, NoOne
<1> QED
  BY <1>1, <1>2, NotesStay DEF Next

\* commit's claim: what an init installed is removed by its own rollback only,
\* however many inits race.
THEOREM WinnerIsKept == Spec => WinnerKept
<1>1. Inv /\ [Next]_vars => [\A i \in Inits:
        /\ i \in files /\ i \notin files' => pc[i] = "unmove"
        /\ ids = i /\ ids' # i => pc[i] = "release"]_vars
  BY WinnerStep
<1> QED
  BY <1>1, Invariance, PTL DEF Spec, WinnerKept

\* commit's no-replace calls, remove_dir and recheck: pbps.yml, the identity
\* file and a file named schema that the user wrote stay; entries of schema/
\* other than .gitkeep stay until an init has moved its declarations in; and
\* content of .gitkeep that was there before an init passed its recheck stays,
\* since no init passes it then.
THEOREM UserIsKept == Spec => UserWins
<1>1. Inv /\ [Next]_vars =>
        [/\ config = User => config' = User
         /\ ids = User => ids' = User
         /\ schema = "file" => schema' = "file"
         /\ User \in files /\ files \cap Inits = {} => User \in files'
         /\ keep = "notes" /\ Behind => keep' = "notes" /\ Behind']_vars
  BY UserStep
<1> QED
  BY <1>1, Invariance, PTL DEF Spec, UserWins

-----------------------------------------------------------------------------
(* What a rollback leaves.  While no init was killed or refused in a rollback
   and the user stayed away, each place of the installation says how far the
   root is from what was found, and what the init remembers of it.          *)

Clear == dirty = {} /\ ~touched

Found == schema = orig.schema /\ keep = orig.keep /\ files = {}

\* What commit's `displaced` says is what was there.
Remembers(i) ==
  displaced[i] = IF orig.schema = "absent" THEN "nothing"
                 ELSE IF orig.keep = "none" THEN "empty" ELSE "gitkeep"

Trace(i) ==
  /\ i \in stages => pc[i] # "lost"
  /\ ids = i => pc[i] \in Installing \cup Undoing \cup {"clean", "won"}
  /\ pc[i] \in Looking \cup Rechecking \cup {"stage", "claim"} => displaced[i] = "nothing"
  /\ pc[i] \in {"is_dir", "keep"} => Found /\ displaced[i] = "nothing"
  /\ pc[i] \in {"rmdir", "move", "mark", "unmove", "undisplace"} => Remembers(i)
  /\ pc[i] = "rmdir" => schema = orig.schema /\ keep \in {"none", orig.keep} /\ files = {}
  /\ pc[i] = "move" => schema = "absent" /\ keep = "none" /\ files = {}
  /\ pc[i] = "undisplace" =>
       /\ schema \in {"absent", orig.schema} /\ keep \in {"none", orig.keep} /\ files = {}
  /\ pc[i] = "release" => Found

Trail ==
  Clear => /\ config \in Inits \cup {NoOne} /\ ids \in Inits \cup {NoOne}
           /\ ids = NoOne => Found
           /\ \A i \in Inits: Trace(i)

LEMMA InitTrail == Init => Trail
BY InitAssumption
   DEF Init, Trail, Found, Trace, Installing, Undoing, Looking, Rechecking

\* One init's step: the others' traces rest on the root only while they hold it.
LEMMA TrailMove ==
  ASSUME Inv, NEW i \in Inits, Clear' => Clear, orig' = orig,
         \A j \in Inits \ {i}:
           /\ pc'[j] = pc[j] /\ displaced'[j] = displaced[j]
           /\ (j \in stages') = (j \in stages),
         UNCHANGED root \/ (ids = i /\ ids' \in {i, NoOne}) \/ (ids = NoOne /\ ids' = i),
         Trail,
         Clear' => /\ config' \in {config, i} /\ ids' \in {ids, i, NoOne}
                   /\ ids' = NoOne => Found'
                   /\ Trace(i)'
  PROVE  Trail'
<1> USE InitAssumption
<1> SUFFICES ASSUME Clear' PROVE Trail'
  BY DEF Trail
<1>0. /\ config \in Inits \cup {NoOne} /\ ids \in Inits \cup {NoOne}
      /\ \A j \in Inits: Trace(j)
  BY DEF Trail
<1>1. ASSUME NEW j \in Inits PROVE Trace(j)'
  <2>1. CASE j = i
    BY <2>1
  <2>2. CASE j # i /\ UNCHANGED root
    BY <1>0, <2>2 DEF Trace, Found, Remembers, root, declarations
  <2>3. CASE j # i /\ ids \in {i, NoOne} /\ ids' \in {i, NoOne}
    <3>1. pc[j] \notin Installing \cup Undoing \cup {"clean"}
      BY <2>3 DEF Inv, Holds
    <3> QED
      BY <1>0, <2>3, <3>1 DEF Trace, Installing, Undoing
  <2> QED
    BY <2>1, <2>2, <2>3
<1> QED
  BY <1>0, <1>1 DEF Trail

\* Steps that leave the root alone: looking, staging, refusing, is_dir, clean.
LEMMA TrailStill ==
  ASSUME Inv, Trail, NEW i \in Inits, NEW p \in Places, Goto(i, p),
         UNCHANGED <<root, displaced, orig, touched>>,
         \A j \in Inits \ {i}: (j \in stages') = (j \in stages),
         Clear' => Clear /\ Trace(i)'
  PROVE  Trail'
<1>1. pc' = [pc EXCEPT ![i] = p] /\ pc \in [Inits -> Places]
  BY DEF Goto, Inv, TypeOK
<1>2. \A j \in Inits \ {i}:
        /\ pc'[j] = pc[j] /\ displaced'[j] = displaced[j]
        /\ (j \in stages') = (j \in stages)
  BY <1>1
<1>3. Clear' => /\ config' \in {config, i} /\ ids' \in {ids, i, NoOne}
                /\ ids' = NoOne => Found'
  BY DEF Trail, Found, root, declarations
<1> QED
  BY <1>1, <1>2, <1>3, TrailMove

LEMMA RefuseTrail ==
  ASSUME Inv, Trail, NEW i \in Inits, Refuse(i), UNCHANGED <<orig, touched>>,
         pc[i] \notin Installing \cup Undoing \cup {"clean", "won"}
  PROVE  Trail'
<1>1. pc'[i] = "lost" /\ "lost" \in Places
  BY DEF Refuse, Goto, Inv, TypeOK, Places, Ended
<1>2. Clear' => Clear
  BY DEF Refuse, Clear
<1>3. Clear' => Trace(i)'
  <2> SUFFICES ASSUME Clear' PROVE Trace(i)'
    OBVIOUS
  <2>1. Trace(i)
    BY <1>2 DEF Trail
  <2>2. ids' # i
    BY <2>1 DEF Trace, Refuse, root
  <2> QED
    BY <1>1, <2>2 DEF Trace, Refuse, Looking, Rechecking
<1> QED
  BY <1>1, <1>2, <1>3, TrailStill DEF Refuse

LEMMA LookTrail ==
  ASSUME Inv, Trail, NEW i \in Inits, UNCHANGED <<orig, touched>>,
         NEW at \in Looking \cup Rechecking, NEW found,
         NEW next \in Looking \cup Rechecking \cup {"stage", "claim"},
         Look(i, at, found, next)
  PROVE  Trail'
<1>0. pc[i] \notin Installing \cup Undoing \cup {"clean", "won"}
  BY DEF Look, Looking, Rechecking, Installing, Undoing
<1>1. CASE found
  BY <1>0, <1>1, RefuseTrail DEF Look
<1>2. CASE ~found
  <2>1. next \in Places /\ pc'[i] = next /\ Goto(i, next)
        /\ UNCHANGED <<root, stages, displaced, moved, dirty>>
    BY <1>2 DEF Look, Goto, Inv, TypeOK, Places
  <2>2. (Clear' => Clear) /\ pc[i] \in Looking \cup Rechecking
    BY <2>1 DEF Clear, Look
  <2>3. next \notin {"lost", "is_dir", "keep", "rmdir", "move", "mark", "unmove", "undisplace", "release"}
    BY DEF Looking, Rechecking
  <2>4. Clear' => Trace(i)'
    BY <1>0, <2>1, <2>2, <2>3 DEF Trail, Trace, root
  <2> QED
    BY <2>1, <2>2, <2>4, TrailStill
<1> QED
  BY <1>1, <1>2

LEMMA LookingTrail ==
  ASSUME Inv, Trail, NEW i \in Inits, LookFirst(i) \/ Recheck(i), UNCHANGED <<orig, touched>>
  PROVE  Trail'
<1>1. CASE pc[i] \in {"schema", "recheck_schema"} /\ Fault /\ Refuse(i)
  BY <1>1, RefuseTrail DEF Installing, Undoing
<1>2. CASE Look(i, "config", config # NoOne, "ids")
  BY <1>2, LookTrail DEF Looking, Rechecking
<1>3. CASE Look(i, "ids", ids # NoOne, "schema")
  BY <1>3, LookTrail DEF Looking, Rechecking
<1>4. CASE Look(i, "schema", Occupied, "stage")
  BY <1>4, LookTrail DEF Looking, Rechecking
<1>5. CASE Look(i, "recheck_config", config # NoOne, "recheck_ids")
  BY <1>5, LookTrail DEF Looking, Rechecking
<1>6. CASE Look(i, "recheck_ids", ids # NoOne, "recheck_schema")
  BY <1>6, LookTrail DEF Looking, Rechecking
<1>7. CASE Look(i, "recheck_schema", Occupied, "claim")
  BY <1>7, LookTrail DEF Looking, Rechecking
<1> QED
  BY <1>1, <1>2, <1>3, <1>4, <1>5, <1>6, <1>7 DEF LookFirst, Recheck

LEMMA StageTrail ==
  ASSUME Inv, Trail, NEW i \in Inits, Stage(i), UNCHANGED <<orig, touched>>
  PROVE  Trail'
<1>0. pc[i] = "stage" /\ pc[i] \notin Installing \cup Undoing \cup {"clean", "won"}
  BY DEF Stage, Installing, Undoing
<1>1. CASE Refuse(i)
  BY <1>0, <1>1, RefuseTrail
<1>2. CASE /\ Goto(i, "recheck_config") /\ stages' = stages \cup {i}
           /\ UNCHANGED <<root, displaced, moved, dirty, faults>>
  <2>1. "recheck_config" \in Places /\ pc'[i] = "recheck_config" /\ (Clear' => Clear)
    BY <1>2 DEF Goto, Inv, TypeOK, Places, Rechecking, Clear
  <2>2. Clear' => Trace(i)'
    BY <1>0, <1>2, <2>1 DEF Trail, Trace, root, Rechecking
  <2> QED
    BY <1>2, <2>1, <2>2, TrailStill
<1> QED
  BY <1>1, <1>2 DEF Stage

\* What was found, by the three roots init accepts.
LEMMA OrigKinds ==
  ASSUME Inv
  PROVE  /\ orig.schema \in {"absent", "dir"} /\ orig.keep \in {"none", "empty"}
         /\ orig.schema = "absent" => orig.keep = "none"
BY DEF Inv, TypeOK, Acceptable

LEMMA IsDirTrail ==
  ASSUME Inv, Trail, NEW i \in Inits, IsDir(i), UNCHANGED <<orig, touched>>
  PROVE  Trail'
<1>1. PICK p \in {"keep", "move"}:
        /\ p = IF schema = "dir" THEN "keep" ELSE "move"
        /\ pc'[i] = p /\ Goto(i, p) /\ p \in Places
  BY DEF IsDir, Goto, Inv, TypeOK, Places, Installing
<1>2. pc[i] = "is_dir" /\ UNCHANGED <<root, stages, displaced, dirty>> /\ (Clear' => Clear)
  BY DEF IsDir, Clear
<1>3. Clear' => Trace(i)'
  <2> SUFFICES ASSUME Clear' PROVE Trace(i)'
    OBVIOUS
  <2>1. Found /\ displaced[i] = "nothing" /\ Trace(i)
    BY <1>2 DEF Trail, Trace
  <2>2. Found' /\ displaced'[i] = "nothing" /\ ids' = ids /\ stages' = stages /\ orig' = orig
        /\ schema' = schema
    BY <1>2, <2>1 DEF Found, root, declarations
  <2> QED
    BY <1>1, <1>2, <2>1, <2>2, OrigKinds DEF Trace, Found, Remembers, Installing, Looking, Rechecking
<1> QED
  BY <1>1, <1>2, <1>3, TrailStill

LEMMA CleanTrail ==
  ASSUME Inv, Trail, NEW i \in Inits, Clean(i), UNCHANGED <<orig, touched>>
  PROVE  Trail'
<1>1. /\ pc[i] = "clean" /\ pc'[i] = "won" /\ Goto(i, "won") /\ "won" \in Places
      /\ UNCHANGED <<root, displaced>>
  BY DEF Clean, Goto, Inv, TypeOK, Places, Ended
<1>2. (Clear' => Clear) /\ \A j \in Inits \ {i}: (j \in stages') = (j \in stages)
  BY DEF Clean, Clear
<1>3. Clear' => Trace(i)'
  BY <1>1 DEF Trace, Looking, Rechecking
<1> QED
  BY <1>1, <1>2, <1>3, TrailStill

LEMMA ClaimTrail ==
  ASSUME Inv, Trail, NEW i \in Inits, Claim(i), UNCHANGED <<orig, touched>>
  PROVE  Trail'
<1> USE InitAssumption
<1>0. pc[i] = "claim" /\ pc[i] \notin Installing \cup Undoing \cup {"clean", "won"}
  BY DEF Claim, Installing, Undoing
<1>1. CASE Refuse(i)
  BY <1>0, <1>1, RefuseTrail
<1>2. CASE /\ ids = NoOne /\ ids' = i /\ Goto(i, "is_dir")
           /\ UNCHANGED <<config, declarations, stages, displaced, moved, dirty, faults>>
  <2>1. pc' = [pc EXCEPT ![i] = "is_dir"] /\ pc \in [Inits -> Places] /\ pc'[i] = "is_dir"
    BY <1>2 DEF Goto, Inv, TypeOK
  <2>2. Clear' => Clear
    BY <1>2 DEF Clear
  <2>3. Clear' => Trace(i)'
    BY <1>0, <1>2, <2>1, <2>2
       DEF Trail, Trace, Found, Installing, Looking, Rechecking, declarations
  <2>4. \A j \in Inits \ {i}:
          /\ pc'[j] = pc[j] /\ displaced'[j] = displaced[j]
          /\ (j \in stages') = (j \in stages)
    BY <1>2, <2>1
  <2> QED
    BY <1>2, <2>2, <2>3, <2>4, TrailMove
<1> QED
  BY <1>1, <1>2 DEF Claim

\* A step of the holder: what is left to show of it is its own trace.
LEMMA HolderTrail ==
  ASSUME Inv, Trail, NEW i \in Inits, pc[i] \in Installing \cup Undoing, NEW p,
         pc' = [pc EXCEPT ![i] = p],
         \A j \in Inits \ {i}: displaced'[j] = displaced[j] /\ (j \in stages') = (j \in stages),
         UNCHANGED <<orig, touched>>, dirty' = dirty \/ i \in dirty',
         config' \in {config, i}, ids' \in {ids, NoOne},
         Clear' /\ Clear /\ Trace(i) => Trace(i)' /\ (ids' = NoOne => Found')
  PROVE  Trail'
<1> USE InitAssumption
<1>1. Clear' => Clear
  BY DEF Clear
<1>2. ids = i /\ pc \in [Inits -> Places]
  BY DEF Inv, Holds, TypeOK
<1>3. Clear' => Trace(i)
  BY <1>1 DEF Trail
<1>4. \A j \in Inits \ {i}: pc'[j] = pc[j]
  BY <1>2
<1> QED
  BY <1>1, <1>2, <1>3, <1>4, TrailMove

LEMMA DisplaceKeepTrail ==
  ASSUME Inv, Trail, NEW i \in Inits, DisplaceKeep(i), UNCHANGED <<orig, touched>>
  PROVE  Trail'
<1> USE InitAssumption DEF Installing, Undoing, Looking, Rechecking
<1>1. /\ pc[i] = "keep" /\ pc' = [pc EXCEPT ![i] = "rmdir"] /\ pc'[i] = "rmdir" /\ schema = "dir"
      /\ ids = i /\ UNCHANGED <<config, ids, schema, files, stages, dirty>>
      /\ displaced'[i] = IF keep # "none" THEN "gitkeep" ELSE "empty"
      /\ keep' \in {"none", keep}
      /\ \A j \in Inits \ {i}: displaced'[j] = displaced[j]
  BY DEF DisplaceKeep, Goto, Inv, TypeOK, Holds
<1>2. Trace(i) => Trace(i)'
  BY <1>1, OrigKinds DEF Trace, Found, Remembers
<1> QED
  BY <1>1, <1>2, HolderTrail DEF NoOne

LEMMA RemoveDirectoryTrail ==
  ASSUME Inv, Trail, NEW i \in Inits, RemoveDirectory(i), UNCHANGED <<orig, touched>>
  PROVE  Trail'
<1> USE InitAssumption DEF Installing, Undoing, Looking, Rechecking
<1>1. PICK p \in {"move", "undisplace"}:
        /\ pc' = [pc EXCEPT ![i] = p] /\ pc'[i] = p
        /\ p = "move" => Bare /\ schema' = "absent" /\ UNCHANGED <<keep, files>>
        /\ p = "undisplace" => UNCHANGED <<schema, keep, files>>
  BY DEF RemoveDirectory, Goto, Inv, TypeOK, declarations
<1>2. /\ pc[i] = "rmdir" /\ ids = i /\ UNCHANGED <<config, ids, stages, displaced, dirty>>
  BY DEF RemoveDirectory, Inv, Holds
<1>3. Trace(i) => Trace(i)'
  BY <1>1, <1>2 DEF Trace, Bare, Remembers
<1> QED
  BY <1>1, <1>2, <1>3, HolderTrail

LEMMA MoveTrail ==
  ASSUME Inv, Trail, NEW i \in Inits, Move(i), UNCHANGED <<orig, touched>>
  PROVE  Trail'
<1> USE InitAssumption DEF Installing, Undoing, Looking, Rechecking
<1>1. PICK p \in {"mark", "undisplace"}:
        /\ pc' = [pc EXCEPT ![i] = p] /\ pc'[i] = p
        /\ p = "undisplace" => UNCHANGED <<schema, keep, files>>
  BY DEF Move, Goto, Inv, TypeOK, declarations
<1>2. /\ pc[i] = "move" /\ ids = i /\ UNCHANGED <<config, ids, stages, displaced, dirty>>
  BY DEF Move, Inv, Holds
<1>3. Trace(i) => Trace(i)'
  BY <1>1, <1>2 DEF Trace, Remembers
<1> QED
  BY <1>1, <1>2, <1>3, HolderTrail

LEMMA MarkTrail ==
  ASSUME Inv, Trail, NEW i \in Inits, Mark(i), UNCHANGED <<orig, touched>>
  PROVE  Trail'
<1> USE InitAssumption DEF Installing, Undoing, Looking, Rechecking
<1>1. PICK p \in {"clean", "unmove"}: pc' = [pc EXCEPT ![i] = p] /\ pc'[i] = p
  BY DEF Mark, Goto, Inv, TypeOK
<1>2. /\ pc[i] = "mark" /\ ids = i /\ UNCHANGED <<ids, stages, displaced, dirty>>
      /\ config' \in {config, i}
  BY DEF Mark, Inv, Holds
<1>3. Trace(i) => Trace(i)'
  BY <1>1, <1>2 DEF Trace, Remembers
<1> QED
  BY <1>1, <1>2, <1>3, HolderTrail

LEMMA UnmoveTrail ==
  ASSUME Inv, Trail, NEW i \in Inits, Unmove(i), UNCHANGED <<orig, touched>>
  PROVE  Trail'
<1> USE InitAssumption DEF Installing, Undoing, Looking, Rechecking
<1>1. /\ pc[i] = "unmove" /\ ids = i /\ UNCHANGED <<config, ids, stages, displaced>>
      /\ pc' = [pc EXCEPT ![i] = "undisplace"] /\ pc'[i] = "undisplace"
  BY DEF Unmove, Goto, Inv, TypeOK, Holds
<1>2. /\ dirty' = dirty \/ i \in dirty'
      /\ i \in dirty' \/ (schema' = "absent" /\ keep' = "none" /\ files' = {})
  BY DEF Unmove, Ignored
<1>3. Clear' /\ Trace(i) => Trace(i)'
  BY <1>1, <1>2 DEF Trace, Remembers, Clear
<1> QED
  BY <1>1, <1>2, <1>3, HolderTrail

LEMMA UndisplaceTrail ==
  ASSUME Inv, Trail, NEW i \in Inits, Undisplace(i), UNCHANGED <<orig, touched>>
  PROVE  Trail'
<1> USE InitAssumption DEF Installing, Undoing, Looking, Rechecking
<1>1. /\ pc[i] = "undisplace" /\ ids = i /\ UNCHANGED <<config, ids, stages, displaced>>
      /\ pc' = [pc EXCEPT ![i] = "release"] /\ pc'[i] = "release"
      /\ schema # "dir" => keep = "none"
  BY DEF Undisplace, Goto, Inv, TypeOK, Holds
<1>2. dirty' = dirty \/ i \in dirty'
  BY DEF Undisplace, Ignored
<1>3. Clear' /\ Trace(i) => Found'
  <2> SUFFICES ASSUME Clear', Trace(i) PROVE Found'
    OBVIOUS
  <2>1. i \notin dirty'
    BY DEF Clear
  <2>2. CASE displaced[i] = "nothing"
    BY <1>1, <2>1, <2>2, OrigKinds DEF Undisplace, Ignored, Trace, Remembers, Found, declarations
  <2>3. CASE displaced[i] # "nothing"
    BY <1>1, <2>1, <2>3, OrigKinds DEF Undisplace, Ignored, Trace, Remembers, Found
  <2> QED
    BY <2>2, <2>3
<1>4. Clear' /\ Trace(i) => Trace(i)'
  BY <1>1, <1>3 DEF Trace
<1> QED
  BY <1>1, <1>2, <1>3, <1>4, HolderTrail

LEMMA ReleaseTrail ==
  ASSUME Inv, Trail, NEW i \in Inits, Release(i), UNCHANGED <<orig, touched>>
  PROVE  Trail'
<1> USE InitAssumption DEF Installing, Undoing, Looking, Rechecking
<1>1. /\ pc[i] = "release" /\ ids = i /\ UNCHANGED <<config, schema, keep, files, displaced>>
      /\ pc' = [pc EXCEPT ![i] = "lost"] /\ pc'[i] = "lost" /\ ids' \in {ids, NoOne}
      /\ \A j \in Inits \ {i}: (j \in stages') = (j \in stages)
  BY DEF Release, Goto, Inv, TypeOK, Holds, declarations
<1>2. /\ dirty' = dirty \/ i \in dirty'
      /\ i \in dirty' \/ (ids' = NoOne /\ i \notin stages')
  BY DEF Release, Ignored
<1>3. Clear' /\ Trace(i) => Trace(i)' /\ Found'
  BY <1>1, <1>2 DEF Trace, Clear, Found
<1> QED
  BY <1>1, <1>2, <1>3, HolderTrail

LEMMA NextTrail == Inv /\ Trail /\ [Next]_vars => Trail'
<1> SUFFICES ASSUME Inv, Trail, [Next]_vars PROVE Trail'
  OBVIOUS
<1>1. CASE UNCHANGED vars
  BY <1>1 DEF vars, root, declarations, Trail, Clear, Found, Trace, Remembers
<1>2. CASE UserActs
  BY <1>2 DEF UserActs, Trail, Clear
<1>3. ASSUME NEW i \in Inits, Step(i) PROVE Trail'
  BY <1>3, LookingTrail, StageTrail, ClaimTrail, IsDirTrail, DisplaceKeepTrail,
     RemoveDirectoryTrail, MoveTrail, MarkTrail, CleanTrail, UnmoveTrail, UndisplaceTrail,
     ReleaseTrail DEF Step
<1>4. ASSUME NEW i \in Inits, Kill(i) PROVE Trail'
  BY <1>4 DEF Kill, Trail, Clear
<1> QED
  BY <1>1, <1>2, <1>3, <1>4 DEF Next

\* commit's rollback: inits that all failed leave the root exactly as they
\* found it, however many raced and at whatever step each failed, unless one
\* was killed, a call of a rollback was refused or the user wrote into it.
THEOREM FailedInitsLeaveNothing == Spec => []FailureLeavesNothing
<1>1. Inv /\ Trail => FailureLeavesNothing
  <2> SUFFICES ASSUME Inv, Trail, \A i \in Inits: pc[i] = "lost", dirty = {}, ~touched
               PROVE  /\ config = NoOne /\ ids = NoOne /\ files = {} /\ stages = {}
                      /\ schema = orig.schema /\ keep = orig.keep
    BY DEF FailureLeavesNothing
  <2>1. /\ config \in Inits \cup {NoOne} /\ ids \in Inits \cup {NoOne}
        /\ ids = NoOne => Found
        /\ \A i \in Inits: Trace(i)
    BY DEF Trail, Clear
  <2>2. ids = NoOne
    BY <2>1 DEF Trace, Installing, Undoing
  <2>3. config = NoOne
    BY <2>1 DEF Inv, Holds
  <2>4. stages = {}
    BY <2>1 DEF Trace, Inv, TypeOK
  <2> QED
    BY <2>1, <2>2, <2>3, <2>4 DEF Found
<1> QED
  BY <1>1, InitTrail, NextTrail, Invariance, PTL DEF Spec
=============================================================================
