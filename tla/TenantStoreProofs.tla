-------------------------- MODULE TenantStoreProofs --------------------------
(***************************************************************************)
(* What every store that keeps the contract of TenantStore guarantees, for *)
(* any subjects, titles, contents, ratings and places.                     *)
(***************************************************************************)
EXTENDS TenantStore, TLAPS

(***************************************************************************)
(* What a call of subject s does to all rows.                              *)
(***************************************************************************)
Stays ==
  /\ \A c \in DOMAIN threads \cap DOMAIN threads' : threads'[c].sub = threads[c].sub
  /\ \A m \in DOMAIN posts :
       posts[m].thread \in DOMAIN threads' => m \in DOMAIN posts' /\ posts'[m] = posts[m]
  /\ \A m \in DOMAIN ratings : m \in DOMAIN posts' => m \in DOMAIN ratings'

LEMMA NewThreadKeeps ==
  ASSUME NEW s, NEW c, NEW t, NewThread(s, c, t) PROVE Stays /\ (NoOrphans => NoOrphans')
BY DEF NewThread, Put, Stays, NoOrphans

LEMMA RenameThreadKeeps ==
  ASSUME NEW s, NEW c, NEW t, RenameThread(s, c, t) PROVE Stays /\ (NoOrphans => NoOrphans')
BY DEF RenameThread, OwnsThread, Put, Stays, NoOrphans

LEMMA DeleteThreadKeeps ==
  ASSUME NEW s, NEW c, DeleteThread(s, c) PROVE Stays /\ (NoOrphans => NoOrphans')
<1>1. /\ DOMAIN threads' = DOMAIN threads \ {c}
      /\ \A x \in DOMAIN threads' : threads'[x] = threads[x]
  BY DEF DeleteThread, Without, Restrict
<1>2. /\ DOMAIN posts' = DOMAIN posts \ PostsOf(c)
      /\ \A m \in DOMAIN posts' : posts'[m] = posts[m]
  BY DEF DeleteThread, Without, Restrict
<1>3. DOMAIN ratings' = DOMAIN ratings \ PostsOf(c)
  BY DEF DeleteThread, Without, Restrict
<1>. QED BY <1>1, <1>2, <1>3 DEF PostsOf, Stays, NoOrphans

LEMMA AppendPostKeeps ==
  ASSUME NEW s, NEW c, NEW m, NEW x, NEW p, AppendPost(s, c, m, x, p)
  PROVE  Stays /\ (NoOrphans => NoOrphans')
BY DEF AppendPost, OwnsThread, Put, Stays, NoOrphans

LEMMA RatePostKeeps ==
  ASSUME NEW s, NEW m, NEW r, RatePost(s, m, r) PROVE Stays /\ (NoOrphans => NoOrphans')
BY DEF RatePost, OwnsPost, Put, Stays, NoOrphans

LEMMA CopyThreadKeeps ==
  ASSUME NEW s, NEW m, NEW c, NEW t, NEW of, NEW at, NEW due, CopyThread(s, m, c, t, of, at, due)
  PROVE  Stays /\ (NoOrphans => NoOrphans')
BY DEF CopyThread, Put, Overlay, Stays, NoOrphans

LEMMA OrphanBranchKeeps ==
  ASSUME NEW s, NEW c, OrphanBranch(s, c) PROVE Stays
BY DEF OrphanBranch, Without, Restrict, PostsOf, Stays

LEMMA ServeKeeps == ASSUME NEW s, Serve(s) PROVE Stays /\ (NoOrphans => NoOrphans')
BY NewThreadKeeps, RenameThreadKeeps, DeleteThreadKeeps, AppendPostKeeps, RatePostKeeps,
   CopyThreadKeeps DEF Serve, BranchThread
-----------------------------------------------------------------------------
(***************************************************************************)
(* What it does to the rows of the others: nothing.                        *)
(***************************************************************************)
Mine(s)  == {c \in DOMAIN threads : threads[c].sub = s}
Own(s)   == {m \in DOMAIN posts : posts[m].thread \in Mine(s)}
Rated(s) == Own(s) \cap DOMAIN ratings

LeavesAlone(s) ==
  /\ Mine(s)' = Mine(s) /\ \A c \in Mine(s) : threads'[c] = threads[c]
  /\ Own(s)' = Own(s) /\ \A m \in Own(s) : posts'[m] = posts[m]
  /\ Rated(s)' = Rated(s) /\ \A m \in Rated(s) : ratings'[m] = ratings[m]

(* The rows of a subject are the same if none is added, lost or changed.   *)
LEMMA SameRows == ASSUME NEW s, LeavesAlone(s) PROVE RowsOf(s)' = RowsOf(s)
<1>. USE DEF LeavesAlone
<1>1. Restrict(threads, Mine(s))' = Restrict(threads, Mine(s))
  BY DEF Restrict
<1>2. Restrict(posts, Own(s))' = Restrict(posts, Own(s))
  BY DEF Restrict
<1>3. Restrict(ratings, Rated(s))' = Restrict(ratings, Rated(s))
  BY DEF Restrict
<1>. QED BY <1>1, <1>2, <1>3 DEF RowsOf, Mine, Own, Rated

LEMMA NewThreadApart ==
  ASSUME NEW q, NEW c, NEW t, NewThread(q, c, t), NEW s, s # q PROVE LeavesAlone(s)
BY DEF NewThread, Put, LeavesAlone, Mine, Own, Rated

LEMMA RenameThreadApart ==
  ASSUME NEW q, NEW c, NEW t, RenameThread(q, c, t), NEW s, s # q PROVE LeavesAlone(s)
BY DEF RenameThread, OwnsThread, Put, LeavesAlone, Mine, Own, Rated

LEMMA DeleteThreadApart ==
  ASSUME NEW q, NEW c, DeleteThread(q, c), NEW s, s # q PROVE LeavesAlone(s)
BY DEF DeleteThread, OwnsThread, PostsOf, Without, Restrict, LeavesAlone, Mine, Own, Rated

LEMMA AppendPostApart ==
  ASSUME NEW q, NEW c, NEW m, NEW x, NEW p, AppendPost(q, c, m, x, p), NEW s, s # q
  PROVE  LeavesAlone(s)
BY DEF AppendPost, OwnsThread, Put, LeavesAlone, Mine, Own, Rated

LEMMA RatePostApart ==
  ASSUME NEW q, NEW m, NEW r, RatePost(q, m, r), NEW s, s # q PROVE LeavesAlone(s)
BY DEF RatePost, OwnsPost, OwnsThread, Put, LeavesAlone, Mine, Own, Rated

LEMMA CopyThreadApart ==
  ASSUME NEW q, NEW m, NEW c, NEW t, NEW of, NEW at, NEW due, CopyThread(q, m, c, t, of, at, due),
         NEW s, s # q
  PROVE  LeavesAlone(s)
<1>1. Mine(s)' = Mine(s) /\ \A x \in Mine(s) : threads'[x] = threads[x]
  BY DEF CopyThread, Put, Mine
<1>2. c \notin Mine(s)
  BY DEF CopyThread, Mine
<1>3. Own(s)' = Own(s) /\ \A x \in Own(s) : posts'[x] = posts[x]
  BY <1>1, <1>2 DEF CopyThread, Overlay, Own
<1>. QED BY <1>1, <1>3 DEF CopyThread, LeavesAlone, Rated

(* A call leaves the rows of all other subjects as they are, even if there *)
(* were orphans.                                                           *)
LEMMA ServeApart == ASSUME NEW q, Serve(q), NEW s, s # q PROVE RowsOf(s)' = RowsOf(s)
BY NewThreadApart, RenameThreadApart, DeleteThreadApart, AppendPostApart, RatePostApart,
   CopyThreadApart, SameRows DEF Serve, BranchThread
-----------------------------------------------------------------------------
(***************************************************************************)
(* The guarantees.                                                         *)
(***************************************************************************)

(* NoOrphans: in a store that keeps the contract every message belongs to  *)
(* a conversation and every rating to a message, after any calls.          *)
THEOREM OrphansCorrect == TenantSpec => []NoOrphans
<1>1. TenantInit => NoOrphans
  BY DEF TenantInit, EmptyTable, NoOrphans
<1>2. NoOrphans /\ [TenantNext]_tenantVars => NoOrphans'
  BY ServeKeeps DEF TenantNext, tenantVars, NoOrphans
<1>. QED BY <1>1, <1>2, PTL DEF TenantSpec

(* CallsAreSeparate: no subject can add, change or take away a row of      *)
(* another one by any call, whatever ids it names.                         *)
THEOREM SeparateCorrect == TenantSpec => CallsAreSeparate
<1>1. ASSUME TenantNext, NEW s \in Subjects, RowsOf(s)' # RowsOf(s) PROVE Serve(s)
  BY <1>1, ServeApart DEF TenantNext
<1>2. [TenantNext]_tenantVars => [\A s \in Subjects : RowsOf(s)' # RowsOf(s) => Serve(s)]_tenantVars
  BY <1>1
<1>. QED BY <1>2, PTL DEF TenantSpec, CallsAreSeparate

(* HistoryStays: no call gives a conversation to another subject, or takes *)
(* away or rewrites what is in a conversation that goes on.                *)
THEOREM HistoryCorrect == TenantSpec => HistoryStays
<1>1. TenantNext => Stays
  BY ServeKeeps DEF TenantNext
<1>2. [TenantNext]_tenantVars =>
        [/\ \A c \in DOMAIN threads \cap DOMAIN threads' : threads'[c].sub = threads[c].sub
         /\ \A m \in DOMAIN posts :
              posts[m].thread \in DOMAIN threads' => m \in DOMAIN posts' /\ posts'[m] = posts[m]
         /\ \A m \in DOMAIN ratings : m \in DOMAIN posts' => m \in DOMAIN ratings']_tenantVars
  BY <1>1 DEF Stays
<1>. QED BY <1>2, PTL DEF TenantSpec, HistoryStays
=============================================================================
