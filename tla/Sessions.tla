------------------------------ MODULE Sessions ------------------------------
(* The proof of death both scratch layouts use.  A run keeps one session open
   on the scratch server for as long as it runs, named after its token from
   the first packet; a later run reads the server's list of sessions, and a
   token that is not on it belongs to a run that is gone. *)
CONSTANT Runs           \* the tokens of the runs that share the server

VARIABLE session        \* the tokens pg_stat_activity shows

\* What one reading of the list can return: all of it, or, through a pooler
\* that renames sessions, a list that not even the reader is on.
Readings == {session, {}}

\* Mutant of Liveness: a token that is not on the list is gone, whatever the
\* reader could see.
LivenessUnchecked(own, t, seen) == IF t \in seen THEN "alive" ELSE "dead"

\* Server::liveness over record::alive: a reader that does not see itself has
\* proved nothing about the others.
Liveness(own, t, seen) ==
  IF own \notin seen THEN "unprovable" ELSE IF t \in seen THEN "alive" ELSE "dead"
=============================================================================
