----------------------------- MODULE Publication -----------------------------
(***************************************************************************)
(* What the compose publisher promises the repository and the remote: for  *)
(* one reviewed candidate Git makes one commit, the output branch is       *)
(* created once, after it, and every push has an authorization of its own. *)
(***************************************************************************)
EXTENDS Naturals

CONSTANTS
    Operations,         \* reviewed candidates
    Authorizations      \* the confirmation, and every informed republish

VARIABLES
    made,       \* commit-tree invocations for each operation
    created,    \* how often its output branch was created
    sent        \* pushes made under each authorization

pubVars == <<made, created, sent>>

PubInit ==
    /\ made = [o \in Operations |-> 0]
    /\ created = [o \in Operations |-> 0]
    /\ sent = [o \in Operations |-> [a \in Authorizations |-> 0]]

MakeCommit(o) ==
    /\ made[o] = 0
    /\ made' = [made EXCEPT ![o] = 1]
    /\ UNCHANGED <<created, sent>>

CreateBranch(o) ==
    /\ made[o] = 1 /\ created[o] = 0
    /\ created' = [created EXCEPT ![o] = 1]
    /\ UNCHANGED <<made, sent>>

SendPush(o, a) ==
    /\ created[o] = 1 /\ sent[o][a] = 0
    /\ sent' = [sent EXCEPT ![o][a] = 1]
    /\ UNCHANGED <<made, created>>

PubNext ==
    \E o \in Operations :
        \/ MakeCommit(o) \/ CreateBranch(o)
        \/ \E a \in Authorizations : SendPush(o, a)

PubSpec == PubInit /\ [][PubNext]_pubVars
==============================================================================
