------------------------------ MODULE MCDeploy ------------------------------
(* Small instances of Deploy for TLC. *)
EXTENDS Deploy, TLC

CONSTANTS x, y, z, a, p, q, s1, s2, h1, h2

Set(o, v) == [obj |-> o, to |-> v, scan |-> "none"]

\* p: a staged plan of two statements; q: a transactional plan of one.
MCSteps == (p :> <<Set(x, a), Set(y, a)>>) @@ (q :> <<Set(z, a)>>)

\* p: a staged attach of x, with its temporary CHECK y.
ScanSteps ==
    (p :> <<[obj |-> y, to |-> NotValid, scan |-> "add"],
            [obj |-> y, to |-> a, scan |-> "validate"],
            Set(x, a), Set(y, Absent)>>)

\* p as above, and q: a transactional plan over the object it attaches.
BothSteps == ScanSteps @@ (q :> <<Set(x, a)>>)

\* p: a staged plan of one statement; q: a transactional one beside it.
LiveSteps == (p :> <<Set(x, a)>>) @@ (q :> <<Set(z, a)>>)

\* q of two statements and the empty plan p, both transactional.
QuickSteps == (q :> <<Set(z, a), Set(x, a)>>) @@ (p :> <<>>)

MCBoot == <<Set(x, a)>>

SessionSymmetry == Permutations(Sessions)
=============================================================================
