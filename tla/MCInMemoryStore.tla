--------------------------- MODULE MCInMemoryStore ---------------------------
(* Small instances of InMemoryStore for TLC.                               *)
EXTENDS InMemoryStore

\* Only the empty title, or that and one other.
OneTitle  == {NoTitle}
TwoTitles == {NoTitle, <<"chat">>}

\* Subjects and contents are interchangeable; the runs check safety only.
Symmetry == Permutations(Subjects) \cup Permutations(Contents)
=============================================================================
