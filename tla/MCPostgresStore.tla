-------------------------- MODULE MCPostgresStore --------------------------
(* Small instances of PostgresStore for TLC.                               *)
EXTENDS PostgresStore

\* Only the empty title.
OneTitle == {NoTitle}

\* Subjects and handlers are interchangeable; for the runs of safety only.
Symmetry == Permutations(Subjects) \cup Permutations(Handlers)
=============================================================================
