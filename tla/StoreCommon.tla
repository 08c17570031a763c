----------------------------- MODULE StoreCommon -----------------------------
(***************************************************************************)
(* What the two implementations of store.Store (internal/store) share: the *)
(* tables they keep, the answers they give and the title of a branch.      *)
(*                                                                         *)
(* A table (a Go map, or the rows of a Postgres table by primary key) is a *)
(* function whose domain is the set of keys present.                       *)
(***************************************************************************)
EXTENDS Naturals, Sequences, Functions

EmptyTable == [k \in {} |-> {}]

(* The table after m[k] = v, or after an INSERT or UPDATE of the row k.    *)
Put(table, k, v) ==
  [x \in DOMAIN table \cup {k} |-> IF x = k THEN v ELSE table[x]]

(* The table without the keys of S: delete(m, k), or DELETE ... WHERE.     *)
Without(table, S) == Restrict(table, DOMAIN table \ S)

(* The rows of a commit over the rows that were there.                     *)
Overlay(new, old) ==
  [x \in DOMAIN new \cup DOMAIN old |-> IF x \in DOMAIN new THEN new[x] ELSE old[x]]

(***************************************************************************)
(* Answers.  A call returns a value and a nil error, or one of the         *)
(* sentinel errors that the server maps to status codes.                   *)
(***************************************************************************)
Ok(value)   == [err |-> "nil", value |-> value]
ErrNotFound == [err |-> "ErrNotFound"]

(***************************************************************************)
(* A title is the sequence of its words, so the empty string is << >>.     *)
(* A branch is called what the caller asks for or, when that is empty, as  *)
(* its source with the suffix " (branch)".                                 *)
(***************************************************************************)
NoTitle == << >>
Suffix  == "(branch)"

TitlesOver(words) == Seq(words \cup {Suffix})

BranchTitle(asked, sourceTitle) ==
  IF asked = NoTitle THEN Append(sourceTitle, Suffix) ELSE asked
=============================================================================
