------------------------ MODULE IndexRecoveryProofs ------------------------
(* What the recovery of a concurrent index build can never do, for any number
   of attempts and faults: remove what held the name before the deployment
   (OthersKept), remove a valid index (ValidKept), or end with an index of its
   own under the name (LeavesNothing).  All three rest on Inv: attempts take
   turns, each knows what it must not remove, and between a failure and the
   end of its recovery no orphaned statement can take the name.             *)
EXTENDS IndexRecovery, TLAPS

\* An attempt that has started and not ended.
Active == {"captured", "waiting", "failed", "cut", "drop"}

\* One attempt at a time, each after those before it.
InTurn == \A a, b \in Tries: a < b /\ pc[b] # "new" => pc[a] \in Ended \ {"built"}

\* What an attempt that could remove it has not seen is not there: a relation
\* that was found at a start stays, and every later attempt finds it.
Seen ==
  /\ index # NoIndex /\ index.by = 0 => \A a \in Tries: pc[a] \in Active => existed[a]
  /\ \A a \in Tries: existed[a] => index # NoIndex /\ index.by # a /\ pc[a] # "new"
  /\ \A a, b \in Tries: existed[a] /\ pc[b] \in Active => existed[b]

\* Between a failure and the end of its recovery nothing is built under the name.
Quiet ==
  \A a \in Tries:
    /\ pc[a] \in {"failed", "drop"} => index # NoIndex /\ building = 0
    /\ pc[a] = "drop" => ~index.valid
    /\ pc[a] = "failed" /\ index.by = a => ~index.valid

\* Where the statement of an attempt, and an index of its own, can still be.
Own ==
  /\ index.by # 0 => index.table = "original"
  /\ \A a \in Tries:
       /\ a \in sent => index.by # a /\ building # a
       /\ pc[a] \in {"new", "captured"} => index.by # a
       /\ \/ pc[a] \in {"new", "captured", "failed", "drop", "clean"}
          \/ pc[a] = "preserved" /\ ~existed[a]
          => a \notin sent /\ building # a

Inv == LeavesNothing /\ InTurn /\ Seen /\ Quiet /\ Own

\* The initial states, with the name free or held by an earlier relation, satisfy Inv.
LEMMA InitInv == Init => Inv
<1> SUFFICES ASSUME Init PROVE Inv
  OBVIOUS
<1> USE RecoveryAssumption
<1>1. LeavesNothing
  BY DEF Init, LeavesNothing, TypeOK, Relations, NoIndex, Places, Tries
<1>2. InTurn
  BY DEF Init, InTurn
<1>3. Seen
  BY DEF Init, Seen, Active
<1>4. Quiet
  BY DEF Init, Quiet
<1>5. Own
  BY DEF Init, Own, NoIndex, Relations, Tries
<1> QED
  BY <1>1, <1>2, <1>3, <1>4, <1>5 DEF Inv

\* The attempt before or after one that is active is not.
LEMMA OnlyActive ==
  ASSUME Inv, NEW a \in Tries, NEW b \in Tries, pc[a] \in Active, pc[b] \in Active
  PROVE  a = b
BY DEF Inv, InTurn, Active, Ended, Tries

\* The reading before the statement keeps Inv: the attempt learns what is there.
LEMMA CaptureInv == ASSUME Inv, NEW a \in Tries, Capture(a) PROVE Inv'
<1> USE RecoveryAssumption
<1>0. /\ TypeOK /\ InTurn /\ Seen /\ Quiet /\ Own /\ a \in 1..Attempts
      /\ \A b \in Tries: pc[a] \in Active /\ pc[b] \in Active => a = b
  BY OnlyActive DEF Inv, LeavesNothing, Tries
<1>1. TypeOK'
  <2>1. (index # NoIndex) \in BOOLEAN
    OBVIOUS
  <2>2. existed' \in [Tries -> BOOLEAN]
    BY <1>0, <2>1 DEF Capture, TypeOK
  <2>3. pc' \in [Tries -> Places]
    BY <1>0 DEF Capture, Goto, TypeOK, Places, Ended
  <2>4. \A b \in Tries: pc'[b] = "drop" => ~existed'[b] /\ building' # b
    BY <1>0 DEF Capture, Goto, TypeOK
  <2>5. faults' \in 0..MaxFaults
    BY <1>0 DEF Capture, Fault, TypeOK
  <2> QED
    BY <1>0, <2>2, <2>3, <2>4, <2>5 DEF Capture, TypeOK
<1>2. InTurn'
  BY <1>0 DEF Capture, Fault, Goto, TypeOK, InTurn, Places, Ended, Tries
<1>3. Seen'
  <2>1. CASE existed' = [existed EXCEPT ![a] = index # NoIndex] /\ Goto(a, "captured")
    <3>1. /\ existed'[a] <=> index # NoIndex
          /\ \A b \in Tries \ {a}: existed'[b] = existed[b]
      BY <1>0, <2>1, Zenon DEF TypeOK
    <3>2. \A b \in Tries: pc'[b] \in Active => b = a
      BY <1>0, <2>1 DEF Capture, Goto, TypeOK, InTurn, Active, Ended, Tries
    <3> QED
      BY <1>0, <2>1, <3>1, <3>2 DEF Capture, Goto, TypeOK, Seen, Own
  <2>2. CASE Goto(a, "refused") /\ UNCHANGED existed
    BY <1>0, <2>2 DEF Capture, Goto, TypeOK, Seen, Active
  <2> QED
    BY <2>1, <2>2 DEF Capture
<1>4. Quiet'
  BY <1>0 DEF Capture, Fault, Goto, TypeOK, Relations, NoIndex, Quiet, Own, Active, Ended
<1>5. Own'
  BY <1>0 DEF Capture, Fault, Goto, TypeOK, Relations, NoIndex, Seen, Quiet, Own, Tries, Ended
<1>6. LeavesNothing'
  BY <1>0, <1>1 DEF Capture, Fault, Goto, Inv, LeavesNothing, TypeOK, Relations, NoIndex, Seen, Quiet, Own, Ended
<1> QED
  BY <1>1, <1>2, <1>3, <1>4, <1>5, <1>6 DEF Inv

\* Sending the statement keeps Inv.
LEMMA SendInv == ASSUME Inv, NEW a \in Tries, Send(a) PROVE Inv'
<1> USE RecoveryAssumption
<1>0. /\ TypeOK /\ InTurn /\ Seen /\ Quiet /\ Own /\ a \in 1..Attempts
      /\ \A b \in Tries: pc[a] \in Active /\ pc[b] \in Active => a = b
  BY OnlyActive DEF Inv, LeavesNothing, Tries
<1>1. TypeOK'
  BY <1>0 DEF Send, Goto, TypeOK, Relations, NoIndex, Places, Ended, Quiet, Own
<1>2. InTurn'
  BY <1>0 DEF Send, Goto, TypeOK, InTurn, Places, Ended, Tries
<1>3. Seen'
  BY <1>0 DEF Send, Goto, TypeOK, Relations, NoIndex, Seen, Quiet, Own, Active, Ended
<1>4. Quiet'
  BY <1>0 DEF Send, Goto, TypeOK, Relations, NoIndex, Quiet, Own, Active, Ended
<1>5. Own'
  BY <1>0 DEF Send, Goto, TypeOK, Relations, NoIndex, Seen, Quiet, Own, Tries, Ended
<1>6. LeavesNothing'
  BY <1>0, <1>1 DEF Send, Goto, Inv, LeavesNothing, TypeOK, Relations, NoIndex, Seen, Quiet, Own, Ended
<1> QED
  BY <1>1, <1>2, <1>3, <1>4, <1>5, <1>6 DEF Inv

\* The reading after a failure keeps Inv: what it is about to drop is its own and invalid.
LEMMA RecoverInv == ASSUME Inv, NEW a \in Tries, Recover(a) PROVE Inv'
<1> USE RecoveryAssumption
<1>0. /\ TypeOK /\ InTurn /\ Seen /\ Quiet /\ Own /\ a \in 1..Attempts
      /\ \A b \in Tries: pc[a] \in Active /\ pc[b] \in Active => a = b
  BY OnlyActive DEF Inv, LeavesNothing, Tries
<1>1. TypeOK'
  BY <1>0 DEF Recover, Fault, Goto, Artifact, TypeOK, Relations, NoIndex, Places, Ended, Quiet, Own
<1>2. InTurn'
  BY <1>0 DEF Recover, Fault, Goto, Artifact, TypeOK, InTurn, Places, Ended, Tries
<1>3. Seen'
  BY <1>0 DEF Recover, Fault, Goto, Artifact, TypeOK, Relations, NoIndex, Seen, Quiet, Own, Active, Ended
<1>4. Quiet'
  BY <1>0 DEF Recover, Fault, Goto, Artifact, TypeOK, Relations, NoIndex, Quiet, Own, Active, Ended
<1>5. Own'
  BY <1>0 DEF Recover, Fault, Goto, Artifact, TypeOK, Relations, NoIndex, Seen, Quiet, Own, Tries, Ended
<1>6. LeavesNothing'
  BY <1>0, <1>1 DEF Recover, Fault, Goto, Artifact, Inv, LeavesNothing, TypeOK, Relations, NoIndex, Seen, Quiet, Own, Ended
<1> QED
  BY <1>1, <1>2, <1>3, <1>4, <1>5, <1>6 DEF Inv

\* A recovery without a connection keeps Inv.
LEMMA RecoverCutInv == ASSUME Inv, NEW a \in Tries, RecoverCut(a) PROVE Inv'
<1> USE RecoveryAssumption
<1>0. /\ TypeOK /\ InTurn /\ Seen /\ Quiet /\ Own /\ a \in 1..Attempts
      /\ \A b \in Tries: pc[a] \in Active /\ pc[b] \in Active => a = b
  BY OnlyActive DEF Inv, LeavesNothing, Tries
<1>1. TypeOK'
  BY <1>0 DEF RecoverCut, Goto, TypeOK, Relations, NoIndex, Places, Ended, Quiet, Own
<1>2. InTurn'
  BY <1>0 DEF RecoverCut, Goto, TypeOK, InTurn, Places, Ended, Tries
<1>3. Seen'
  BY <1>0 DEF RecoverCut, Goto, TypeOK, Relations, NoIndex, Seen, Quiet, Own, Active, Ended
<1>4. Quiet'
  BY <1>0 DEF RecoverCut, Goto, TypeOK, Relations, NoIndex, Quiet, Own, Active, Ended
<1>5. Own'
  BY <1>0 DEF RecoverCut, Goto, TypeOK, Relations, NoIndex, Seen, Quiet, Own, Tries, Ended
<1>6. LeavesNothing'
  BY <1>0, <1>1 DEF RecoverCut, Goto, Inv, LeavesNothing, TypeOK, Relations, NoIndex, Seen, Quiet, Own, Ended
<1> QED
  BY <1>1, <1>2, <1>3, <1>4, <1>5, <1>6 DEF Inv

\* The drop keeps Inv: nobody found the relation it removes.
LEMMA DropInv == ASSUME Inv, NEW a \in Tries, Drop(a) PROVE Inv'
<1> USE RecoveryAssumption
<1>0. /\ TypeOK /\ InTurn /\ Seen /\ Quiet /\ Own /\ a \in 1..Attempts
      /\ \A b \in Tries: pc[a] \in Active /\ pc[b] \in Active => a = b
  BY OnlyActive DEF Inv, LeavesNothing, Tries
<1>1. TypeOK'
  BY <1>0 DEF Drop, Fault, Goto, TypeOK, Relations, NoIndex, Places, Ended, Quiet, Own
<1>2. InTurn'
  BY <1>0 DEF Drop, Fault, Goto, TypeOK, InTurn, Places, Ended, Tries
<1>3. Seen'
  BY <1>0 DEF Drop, Fault, Goto, TypeOK, Relations, NoIndex, Seen, Quiet, Own, Active, Ended
<1>4. Quiet'
  BY <1>0 DEF Drop, Fault, Goto, TypeOK, Relations, NoIndex, Quiet, Own, Active, Ended
<1>5. Own'
  BY <1>0 DEF Drop, Fault, Goto, TypeOK, Relations, NoIndex, Seen, Quiet, Own, Tries, Ended
<1>6. LeavesNothing'
  BY <1>0, <1>1 DEF Drop, Fault, Goto, Inv, LeavesNothing, TypeOK, Relations, NoIndex, Seen, Quiet, Own, Ended
<1> QED
  BY <1>1, <1>2, <1>3, <1>4, <1>5, <1>6 DEF Inv

\* The server taking up a statement keeps Inv, whoever still waits for it.
LEMMA BeginInv == ASSUME Inv, NEW a \in Tries, Begin(a) PROVE Inv'
<1> USE RecoveryAssumption
<1>0. /\ TypeOK /\ InTurn /\ Seen /\ Quiet /\ Own /\ a \in 1..Attempts
      /\ \A b \in Tries: pc[a] \in Active /\ pc[b] \in Active => a = b
  BY OnlyActive DEF Inv, LeavesNothing, Tries
<1>1. TypeOK'
  <2>1. /\ index' \in Relations \cup {NoIndex}
        /\ building' # 0 => index'.by = building' /\ ~index'.valid
    <3>1. CASE UNCHANGED <<index, building>>
      BY <1>0, <3>1 DEF TypeOK
    <3>2. CASE /\ index' = [table |-> "original", valid |-> FALSE, by |-> a]
               /\ building' = a
      <4>1. index' \in Relations
        BY <1>0, <3>2 DEF Relations
      <4> QED
        BY <3>2, <4>1
    <3> QED
      BY <3>1, <3>2 DEF Begin
  <2>2. sent' \subseteq Tries /\ building' \in 0..Attempts
    BY <1>0 DEF Begin, TypeOK, Tries
  <2>3. pc' \in [Tries -> Places]
    BY <1>0 DEF Begin, Answer, TypeOK, Places, Ended
  <2>4. \A b \in Tries: pc'[b] = "drop" => ~existed'[b] /\ building' # b
    BY <1>0 DEF Begin, TypeOK, Tries, Answer, Quiet
  <2>5. faults' \in 0..MaxFaults
    BY <1>0 DEF Begin, Fault, TypeOK
  <2> QED
    BY <1>0, <2>1, <2>2, <2>3, <2>4, <2>5 DEF Begin, TypeOK
<1>2. InTurn'
  BY <1>0 DEF Begin, Answer, TypeOK, InTurn, Places, Ended, Tries
<1>3. Seen'
  BY <1>0 DEF Begin, Answer, TypeOK, Relations, NoIndex, Seen, Quiet, Own, Active, Ended
<1>4. Quiet'
  BY <1>0 DEF Begin, Answer, TypeOK, Relations, NoIndex, Quiet, Own, Active, Ended
<1>5. Own'
  BY <1>0 DEF Begin, Answer, TypeOK, Relations, NoIndex, Seen, Quiet, Own, Tries, Ended
<1>6. LeavesNothing'
  BY <1>0, <1>1 DEF Begin, Answer, Inv, LeavesNothing, TypeOK, Relations, NoIndex, Seen, Quiet, Own, Ended
<1> QED
  BY <1>1, <1>2, <1>3, <1>4, <1>5, <1>6 DEF Inv

\* The server completing a build keeps Inv, whoever still waits for it.
LEMMA FinishInv == ASSUME Inv, NEW a \in Tries, Finish(a) PROVE Inv'
<1> USE RecoveryAssumption
<1>0. /\ TypeOK /\ InTurn /\ Seen /\ Quiet /\ Own /\ a \in 1..Attempts
      /\ \A b \in Tries: pc[a] \in Active /\ pc[b] \in Active => a = b
  BY OnlyActive DEF Inv, LeavesNothing, Tries
<1>1. TypeOK'
  <2>1. /\ index' \in Relations \cup {NoIndex}
        /\ building' # 0 => index'.by = building' /\ ~index'.valid
    <3>1. index \in Relations
      BY <1>0 DEF Finish, TypeOK, NoIndex, Tries
    <3>2. index' \in Relations
      BY <3>1 DEF Finish, Relations
    <3> QED
      BY <3>2 DEF Finish
  <2>2. sent' \subseteq Tries /\ building' \in 0..Attempts
    BY <1>0 DEF Finish, TypeOK, Tries
  <2>3. pc' \in [Tries -> Places]
    BY <1>0 DEF Finish, Answer, TypeOK, Places, Ended
  <2>4. \A b \in Tries: pc'[b] = "drop" => ~existed'[b] /\ building' # b
    BY <1>0 DEF Finish, TypeOK, Tries, Answer, Quiet
  <2>5. faults' \in 0..MaxFaults
    BY <1>0 DEF Finish, Fault, TypeOK
  <2> QED
    BY <1>0, <2>1, <2>2, <2>3, <2>4, <2>5 DEF Finish, TypeOK
<1>2. InTurn'
  BY <1>0 DEF Finish, Answer, TypeOK, InTurn, Places, Ended, Tries
<1>3. Seen'
  BY <1>0 DEF Finish, Answer, TypeOK, Relations, NoIndex, Seen, Quiet, Own, Active, Ended
<1>4. Quiet'
  BY <1>0 DEF Finish, Answer, TypeOK, Relations, NoIndex, Quiet, Own, Active, Ended
<1>5. Own'
  BY <1>0 DEF Finish, Answer, TypeOK, Relations, NoIndex, Seen, Quiet, Own, Tries, Ended
<1>6. LeavesNothing'
  BY <1>0, <1>1 DEF Finish, Answer, Inv, LeavesNothing, TypeOK, Relations, NoIndex, Seen, Quiet, Own, Ended
<1> QED
  BY <1>1, <1>2, <1>3, <1>4, <1>5, <1>6 DEF Inv

\* A build that fails keeps Inv.
LEMMA BreakInv == ASSUME Inv, NEW a \in Tries, Break(a) PROVE Inv'
<1> USE RecoveryAssumption
<1>0. /\ TypeOK /\ InTurn /\ Seen /\ Quiet /\ Own /\ a \in 1..Attempts
      /\ \A b \in Tries: pc[a] \in Active /\ pc[b] \in Active => a = b
  BY OnlyActive DEF Inv, LeavesNothing, Tries
<1>1. TypeOK'
  BY <1>0 DEF Break, Fault, Answer, TypeOK, Relations, NoIndex, Places, Ended, Quiet, Own
<1>2. InTurn'
  BY <1>0 DEF Break, Fault, Answer, TypeOK, InTurn, Places, Ended, Tries
<1>3. Seen'
  BY <1>0 DEF Break, Fault, Answer, TypeOK, Relations, NoIndex, Seen, Quiet, Own, Active, Ended
<1>4. Quiet'
  BY <1>0 DEF Break, Fault, Answer, TypeOK, Relations, NoIndex, Quiet, Own, Active, Ended
<1>5. Own'
  BY <1>0 DEF Break, Fault, Answer, TypeOK, Relations, NoIndex, Seen, Quiet, Own, Tries, Ended
<1>6. LeavesNothing'
  BY <1>0, <1>1 DEF Break, Fault, Answer, Inv, LeavesNothing, TypeOK, Relations, NoIndex, Seen, Quiet, Own, Ended
<1> QED
  BY <1>1, <1>2, <1>3, <1>4, <1>5, <1>6 DEF Inv

\* A lost connection keeps Inv, whether the server goes on or not.
LEMMA CutInv == ASSUME Inv, NEW a \in Tries, Cut(a) PROVE Inv'
<1> USE RecoveryAssumption
<1>0. /\ TypeOK /\ InTurn /\ Seen /\ Quiet /\ Own /\ a \in 1..Attempts
      /\ \A b \in Tries: pc[a] \in Active /\ pc[b] \in Active => a = b
  BY OnlyActive DEF Inv, LeavesNothing, Tries
<1>1. TypeOK'
  <2>1. /\ index' \in Relations \cup {NoIndex}
        /\ building' # 0 => index'.by = building' /\ ~index'.valid
    BY <1>0 DEF Cut, Abandoned, TypeOK
  <2>2. sent' \subseteq Tries /\ building' \in 0..Attempts
    <3>1. CASE UNCHANGED <<sent, building>>
      BY <1>0, <3>1 DEF TypeOK
    <3>2. CASE sent' = sent \ {a} /\ building' = IF building = a THEN 0 ELSE building
      <4>1. sent' \subseteq Tries
        BY <1>0, <3>2 DEF TypeOK
      <4>2. building' \in 0..Attempts
        BY <1>0, <3>2 DEF TypeOK
      <4> QED
        BY <4>1, <4>2
    <3> QED
      BY <3>1, <3>2 DEF Cut, Abandoned
  <2>3. pc' \in [Tries -> Places]
    BY <1>0 DEF Cut, Goto, TypeOK, Places, Ended
  <2>4. \A b \in Tries: pc'[b] = "drop" => ~existed'[b] /\ building' # b
    BY <1>0 DEF Cut, Abandoned, TypeOK, Tries, Goto, Quiet
  <2>5. faults' \in 0..MaxFaults
    BY <1>0 DEF Cut, Fault, TypeOK
  <2> QED
    BY <1>0, <2>1, <2>2, <2>3, <2>4, <2>5 DEF Cut, TypeOK
<1>2. InTurn'
  BY <1>0 DEF Cut, Fault, Goto, Abandoned, TypeOK, InTurn, Places, Ended, Tries
<1>3. Seen'
  BY <1>0 DEF Cut, Fault, Goto, Abandoned, TypeOK, Relations, NoIndex, Seen, Quiet, Own, Active, Ended
<1>4. Quiet'
  BY <1>0 DEF Cut, Fault, Goto, Abandoned, TypeOK, Relations, NoIndex, Quiet, Own, Active, Ended
<1>5. Own'
  BY <1>0 DEF Cut, Fault, Goto, Abandoned, TypeOK, Relations, NoIndex, Seen, Quiet, Own, Tries, Ended
<1>6. LeavesNothing'
  BY <1>0, <1>1 DEF Cut, Fault, Goto, Abandoned, Inv, LeavesNothing, TypeOK, Relations, NoIndex, Seen, Quiet, Own, Ended
<1> QED
  BY <1>1, <1>2, <1>3, <1>4, <1>5, <1>6 DEF Inv

\* A killed process keeps Inv, whether the server goes on or not.
LEMMA KillInv == ASSUME Inv, NEW a \in Tries, Kill(a) PROVE Inv'
<1> USE RecoveryAssumption
<1>0. /\ TypeOK /\ InTurn /\ Seen /\ Quiet /\ Own /\ a \in 1..Attempts
      /\ \A b \in Tries: pc[a] \in Active /\ pc[b] \in Active => a = b
  BY OnlyActive DEF Inv, LeavesNothing, Tries
<1>1. TypeOK'
  <2>1. /\ index' \in Relations \cup {NoIndex}
        /\ building' # 0 => index'.by = building' /\ ~index'.valid
    BY <1>0 DEF Kill, Abandoned, TypeOK
  <2>2. sent' \subseteq Tries /\ building' \in 0..Attempts
    <3>1. CASE UNCHANGED <<sent, building>>
      BY <1>0, <3>1 DEF TypeOK
    <3>2. CASE sent' = sent \ {a} /\ building' = IF building = a THEN 0 ELSE building
      <4>1. sent' \subseteq Tries
        BY <1>0, <3>2 DEF TypeOK
      <4>2. building' \in 0..Attempts
        BY <1>0, <3>2 DEF TypeOK
      <4> QED
        BY <4>1, <4>2
    <3> QED
      BY <3>1, <3>2 DEF Kill, Abandoned
  <2>3. pc' \in [Tries -> Places]
    BY <1>0 DEF Kill, Goto, TypeOK, Places, Ended
  <2>4. \A b \in Tries: pc'[b] = "drop" => ~existed'[b] /\ building' # b
    BY <1>0 DEF Kill, Abandoned, TypeOK, Tries, Goto, Quiet
  <2>5. faults' \in 0..MaxFaults
    BY <1>0 DEF Kill, Fault, TypeOK
  <2> QED
    BY <1>0, <2>1, <2>2, <2>3, <2>4, <2>5 DEF Kill, TypeOK
<1>2. InTurn'
  BY <1>0 DEF Kill, Fault, Goto, Abandoned, TypeOK, InTurn, Places, Ended, Tries
<1>3. Seen'
  BY <1>0 DEF Kill, Fault, Goto, Abandoned, TypeOK, Relations, NoIndex, Seen, Quiet, Own, Active, Ended
<1>4. Quiet'
  BY <1>0 DEF Kill, Fault, Goto, Abandoned, TypeOK, Relations, NoIndex, Quiet, Own, Active, Ended
<1>5. Own'
  BY <1>0 DEF Kill, Fault, Goto, Abandoned, TypeOK, Relations, NoIndex, Seen, Quiet, Own, Tries, Ended
<1>6. LeavesNothing'
  BY <1>0, <1>1 DEF Kill, Fault, Goto, Abandoned, Inv, LeavesNothing, TypeOK, Relations, NoIndex, Seen, Quiet, Own, Ended
<1> QED
  BY <1>1, <1>2, <1>3, <1>4, <1>5, <1>6 DEF Inv

\* Every step keeps Inv.
LEMMA NextInv == Inv /\ [Next]_vars => Inv'
<1> SUFFICES ASSUME Inv, [Next]_vars PROVE Inv'
  OBVIOUS
<1>1. CASE Next
  <2>1. PICK a \in Tries: Step(a) \/ Serve(a) \/ Break(a) \/ Cut(a) \/ Kill(a)
    BY <1>1 DEF Next
  <2> QED
    BY <2>1, CaptureInv, SendInv, RecoverInv, RecoverCutInv, DropInv, BeginInv,
       FinishInv, BreakInv, CutInv, KillInv DEF Step, Serve
<1>2. CASE UNCHANGED vars
  BY <1>2 DEF vars, Inv, LeavesNothing, TypeOK, InTurn, Seen, Quiet, Own
<1> QED
  BY <1>1, <1>2

\* Inv holds always.
THEOREM Invariance == Spec => []Inv
BY InitInv, NextInv, PTL DEF Spec

\* Whatever fails and whichever statement the server still completes, an
\* attempt that could finish its recovery (recover) leaves nothing of its own.
THEOREM NothingIsLeft == Spec => []LeavesNothing
<1>1. Inv => LeavesNothing
  BY DEF Inv
<1> QED
  BY <1>1, Invariance, PTL

\* The only steps that touch a relation under the name: the server completes
\* the build of an invalid one, or a recovery drops an invalid one that the
\* deployment made.
LEMMA Touches ==
  ASSUME Inv, [Next]_vars, index # NoIndex, index' # index
  PROVE  index.by # 0 /\ ~index.valid
<1>0. TypeOK /\ Seen /\ Quiet
  BY DEF Inv, LeavesNothing
<1>1. PICK a \in Tries: Step(a) \/ Serve(a) \/ Break(a) \/ Cut(a) \/ Kill(a)
  BY DEF Next, vars
<1>2. Drop(a) \/ Finish(a)
  BY <1>1 DEF Step, Serve, Capture, Send, Recover, RecoverCut, Begin, Break, Cut, Kill
<1>3. CASE Drop(a)
  BY <1>0, <1>3 DEF Drop, TypeOK, Seen, Quiet, Active
<1>4. CASE Finish(a)
  BY <1>0, <1>4 DEF Finish, TypeOK, Tries
<1> QED
  BY <1>2, <1>3, <1>4

\* What held the name before the deployment stays, for any number of attempts
\* ("existed" in execute).
THEOREM EarlierIsKept == Spec => OthersKept
<1>1. Inv /\ [Next]_vars => [index # NoIndex /\ index.by = 0 => index' = index]_vars
  BY Touches
<1> QED
  BY <1>1, Invariance, PTL DEF Spec, OthersKept

\* No recovery removes a valid index, also not one that the statement of a dead
\* attempt completes between the reading and the drop (recover).
THEOREM ValidIsKept == Spec => ValidKept
<1>1. Inv /\ [Next]_vars => [index.valid => index' = index]_vars
  BY Touches DEF NoIndex
<1> QED
  BY <1>1, Invariance, PTL DEF Spec, ValidKept
=============================================================================
