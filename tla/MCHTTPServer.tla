---------------------------- MODULE MCHTTPServer ----------------------------
(* A small instance of HTTPServer for TLC.                                 *)
EXTENDS HTTPServer

OneTitle == {NoTitle}

(* Every route, and requests that no route takes or not by their method.   *)
SomeLines ==
  {[method |-> r[1], path |-> r[2]] : r \in Routes} \cup
  {[method |-> "HEAD", path |-> "/conversations"],
   [method |-> "OPTIONS", path |-> "/conversations"],
   [method |-> "PUT", path |-> "/conversations/id"],
   [method |-> "GET", path |-> "/other"]}

Symmetry == Permutations(Subjects)
=============================================================================
