----------------------------- MODULE TenantStore -----------------------------
(***************************************************************************)
(* The contract of store.Store (internal/store/store.go): what a caller of *)
(* either implementation may rely on.  Every call of a subject is one      *)
(* atomic step on rows that belong to that subject; a message belongs to a *)
(* conversation and a rating to a message; ids are given out once.  Where  *)
(* a message stands in its conversation is its place, a number; what it is *)
(* (an index, a time) and whether two messages may share one is up to the  *)
(* implementation.                                                         *)
(*                                                                         *)
(* It says nothing of the times of conversations or of the rows an         *)
(* implementation keeps without showing them: those are properties of the  *)
(* implementations.                                                        *)
(***************************************************************************)
EXTENDS StoreCommon, FiniteSets

CONSTANTS
  Subjects,   \* JWT subjects
  Titles,     \* titles a caller may send
  Contents,   \* contents of messages
  Ratings,    \* ratings a store accepts
  Places      \* numbers: where a message may stand

VARIABLES
  threads,    \* conversation id -> [sub, title]
  posts,      \* message id -> [thread, content, place]
  ratings     \* message id -> the rating its owner gave it

tenantVars == <<threads, posts, ratings>>

TenantInit == threads = EmptyTable /\ posts = EmptyTable /\ ratings = EmptyTable

OwnsThread(s, c) == c \in DOMAIN threads /\ threads[c].sub = s
PostsOf(c) == {m \in DOMAIN posts : posts[m].thread = c}
OwnsPost(s, m) == m \in DOMAIN posts /\ OwnsThread(s, posts[m].thread)
-----------------------------------------------------------------------------
NewThread(s, c, title) ==
  /\ c \notin DOMAIN threads
  /\ threads' = Put(threads, c, [sub |-> s, title |-> title])
  /\ UNCHANGED <<posts, ratings>>

RenameThread(s, c, title) ==
  /\ OwnsThread(s, c)
  /\ threads' = Put(threads, c, [sub |-> s, title |-> title])
  /\ UNCHANGED <<posts, ratings>>

DeleteThread(s, c) ==
  /\ OwnsThread(s, c)
  /\ threads' = Without(threads, {c})
  /\ posts' = Without(posts, PostsOf(c))
  /\ ratings' = Without(ratings, PostsOf(c))

AppendPost(s, c, m, content, place) ==
  /\ OwnsThread(s, c)
  /\ m \notin DOMAIN posts
  /\ posts' = Put(posts, m, [thread |-> c, content |-> content, place |-> place])
  /\ UNCHANGED <<threads, ratings>>

RatePost(s, m, rating) ==
  /\ OwnsPost(s, m)
  /\ ratings' = Put(ratings, m, rating)
  /\ UNCHANGED <<threads, posts>>

(* A branch of the conversation of m is a new one with copies of its       *)
(* messages up to and including m, in their order, under new ids and not   *)
(* rated: of[x] is what the new message x is a copy of, at[x] its place,   *)
(* and due the messages that may not be left out.  (Of those that share    *)
(* the place of m, an implementation copies what it likes.)                *)
CopyThread(s, m, c, title, of, at, due) ==
  /\ OwnsPost(s, m)
  /\ c \notin DOMAIN threads
  /\ DOMAIN of \cap DOMAIN posts = {}
  /\ \A x \in DOMAIN of : of[x] \in PostsOf(posts[m].thread)
  /\ \A x, y \in DOMAIN of : of[x] = of[y] => x = y
  /\ \A p \in due \cup {m} : \E x \in DOMAIN of : of[x] = p
  /\ \A x \in DOMAIN of : posts[of[x]].place <= posts[m].place
  /\ \A x, y \in DOMAIN of : posts[of[x]].place < posts[of[y]].place => at[x] <= at[y]
  /\ threads' = Put(threads, c, [sub |-> s, title |-> title])
  /\ posts' = Overlay(
       [x \in DOMAIN of |->
          [thread |-> c, content |-> posts[of[x]].content, place |-> at[x]]], posts)
  /\ UNCHANGED ratings

(* The messages before m.                                                  *)
Before(m) == {p \in PostsOf(posts[m].thread) : posts[p].place < posts[m].place}

BranchThread(s, m, c, asked, of, at) ==
  CopyThread(s, m, c, BranchTitle(asked, threads[posts[m].thread].title), of, at, Before(m))

(* What the subject gets when the source is deleted while it is branched   *)
(* and the store does not notice: a new conversation of its own.           *)
OrphanBranch(s, c) ==
  /\ c \notin DOMAIN threads
  /\ c \in DOMAIN threads' /\ threads'[c].sub = s
  /\ threads = Without(threads', {c})
  /\ posts = Without(posts', PostsOf(c)')
  /\ UNCHANGED ratings

NewThreads == DOMAIN threads' \ DOMAIN threads
NewPosts   == DOMAIN posts' \ DOMAIN posts
NewPlaces  == [m \in NewPosts |-> posts'[m].place]

Serve(s) ==
  \/ \E c \in NewThreads, t \in Titles : NewThread(s, c, t)
  \/ \E c \in DOMAIN threads, t \in Titles : RenameThread(s, c, t)
  \/ \E c \in DOMAIN threads : DeleteThread(s, c)
  \/ \E c \in DOMAIN threads, m \in NewPosts :
       /\ posts'[m].content \in Contents /\ posts'[m].place \in Places
       /\ AppendPost(s, c, m, posts'[m].content, posts'[m].place)
  \/ \E m \in DOMAIN posts, r \in Ratings : RatePost(s, m, r)
  \/ \E c \in NewThreads, t \in Titles, m \in DOMAIN posts :
       \E of \in [NewPosts -> PostsOf(posts[m].thread)] :
         NewPlaces \in [NewPosts -> Places] /\ BranchThread(s, m, c, t, of, NewPlaces)

TenantNext == \E s \in Subjects : Serve(s)

TenantSpec == TenantInit /\ [][TenantNext]_tenantVars
-----------------------------------------------------------------------------
(* What a caller may conclude from the contract.                           *)

(* The rows of subject s: its threads, their posts and their ratings.      *)
RowsOf(s) ==
  LET mine == {c \in DOMAIN threads : threads[c].sub = s}
      own  == {m \in DOMAIN posts : posts[m].thread \in mine}
  IN <<Restrict(threads, mine), Restrict(posts, own), Restrict(ratings, own \cap DOMAIN ratings)>>

(* Nothing outlives what it belongs to.                                    *)
NoOrphans ==
  /\ \A m \in DOMAIN posts : posts[m].thread \in DOMAIN threads
  /\ DOMAIN ratings \subseteq DOMAIN posts

(* The rows of a subject are changed by its own calls only.                *)
CallsAreSeparate ==
  [][\A s \in Subjects : RowsOf(s)' # RowsOf(s) => Serve(s)]_tenantVars

(* A thread keeps its owner and all it holds, until it is deleted.         *)
HistoryStays ==
  [][/\ \A c \in DOMAIN threads \cap DOMAIN threads' : threads'[c].sub = threads[c].sub
     /\ \A m \in DOMAIN posts :
          posts[m].thread \in DOMAIN threads' => m \in DOMAIN posts' /\ posts'[m] = posts[m]
     /\ \A m \in DOMAIN ratings : m \in DOMAIN posts' => m \in DOMAIN ratings']_tenantVars
=============================================================================
