----------------------- MODULE PostgresContractProofs -----------------------
(***************************************************************************)
(* More theorems about PostgresStore for every value of its constants: the *)
(* isolation of subjects and the contract of store.Store.                  *)
(***************************************************************************)
EXTENDS PostgresStoreProofs

(***************************************************************************)
(* What the committed tables may undergo in one step of a handler that     *)
(* serves subject s.                                                       *)
(***************************************************************************)
Inserted(s, c, row) ==
  /\ c \notin DOMAIN conversations /\ ~Settled(c)
  /\ row.sub = s /\ row.title \in Titles
  /\ conversations' = Put(conversations, c, row)
  /\ UNCHANGED <<messages, feedback>>

Renamed(s, c, row) ==
  /\ OwnsConversation(s, c)
  /\ row.sub = s /\ row.title \in Titles
  /\ conversations' = Put(conversations, c, row)
  /\ UNCHANGED <<messages, feedback>>

Deleted(s, c) ==
  /\ OwnsConversation(s, c)
  /\ conversations' = Without(conversations, {c})
  /\ messages' = Without(messages, MessagesOf(c))
  /\ feedback' = Without(feedback, {k \in DOMAIN feedback : k[1] \in MessagesOf(c)})

AppendedTo(s, c, row, m, msg) ==
  /\ OwnsConversation(s, c) /\ m \notin DOMAIN messages
  /\ row.sub = s /\ row.title = conversations[c].title
  /\ msg.conv = c /\ msg.sub = s /\ msg.content \in Nat /\ msg.createdAt \in Times
  /\ conversations' = Put(conversations, c, row)
  /\ messages' = Put(messages, m, msg)
  /\ UNCHANGED feedback

RatedBy(s, m, r) ==
  /\ OwnsMessage(s, m) /\ r \in Ratings
  /\ feedback' = Put(feedback, <<m, s>>, r)
  /\ UNCHANGED <<conversations, messages>>

(* The rows of a branch are copies of messages of its source, of one time; *)
(* they include the named one and those that are due, and none later.      *)
FaithfulCopy(rows, source, named, due) ==
  \E time \in Times :
    \E of \in [DOMAIN rows -> MessagesOf(source)] :
      /\ \A x \in DOMAIN rows :
           /\ rows[x].content = messages[of[x]].content /\ rows[x].createdAt = time
           /\ messages[of[x]].createdAt <= messages[named].createdAt
      /\ \A x, y \in DOMAIN rows : of[x] = of[y] => x = y
      /\ \A p \in due \cup {named} : \E x \in DOMAIN rows : of[x] = p

(* The source of a branch, while it is there: it belongs to the subject    *)
(* and has the named message, with the time that was read.                 *)
SourceThere(s, found) ==
  /\ OwnsConversation(s, found.source)
  /\ found.at \in MessagesOf(found.source)
  /\ found.cut = messages[found.at].createdAt

Branched(s, b, row, rows, asked) ==
  /\ b \notin DOMAIN conversations /\ ~Settled(b) /\ b \in DOMAIN promised /\ asked \in Titles
  /\ row.sub = s /\ row.title = BranchTitle(asked, promised[b].title)
  /\ \A m \in DOMAIN rows : m \notin DOMAIN messages /\ rows[m].conv = b /\ rows[m].sub = s
  /\ promised[b].source \in DOMAIN conversations =>
       /\ SourceThere(s, promised[b])
       /\ FaithfulCopy(rows, promised[b].source, promised[b].at, promised[b].due)
  /\ conversations' = Put(conversations, b, row)
  /\ messages' = Overlay(rows, messages)
  /\ UNCHANGED feedback

Effect(s) ==
  \/ \E c, row : Inserted(s, c, row)
  \/ \E c, row : Renamed(s, c, row)
  \/ \E c : Deleted(s, c)
  \/ \E c, row, m, msg : AppendedTo(s, c, row, m, msg)
  \/ \E m, r : RatedBy(s, m, r)
  \/ \E b, row, rows, asked : Branched(s, b, row, rows, asked)

(***************************************************************************)
(* For the last of them the invariant has to say more of a branch on its   *)
(* way: its title, and that it copies the source as long as that is there. *)
(***************************************************************************)
Sourced(h, b) ==
  LET found == promised[b] IN
  /\ tx[h].conversations[b].title = BranchTitle(req[h].title, found.title)
  /\ found.source \in DOMAIN conversations =>
       /\ SourceThere(req[h].sub, found)
       /\ pc[h] = "copyMessages" =>
            found.due \cup {found.at} \subseteq Copied(found.source, req[h].sub, found.cut)
       /\ pc[h] = "commitBranch" =>
            FaithfulCopy(tx[h].messages, found.source, found.at, found.due)

BranchesSourced ==
  \A h \in Handlers :
    pc[h] \in {"copyMessages", "commitBranch"} =>
      \A b \in DOMAIN tx[h].conversations : Sourced(h, b)

ContractInv == PgInv /\ BranchesSourced
-----------------------------------------------------------------------------
(***************************************************************************)
(* Each statement that writes has one of the effects.                      *)
(***************************************************************************)
(* A handler at a statement serves a request.                              *)
LEMMA Serving ==
  ASSUME PgInv, NEW h \in Handlers, pc[h] # "idle"
  PROVE  req[h] \in Request /\ req[h].sub \in Subjects /\ req[h].title \in Titles
<1>1. HandlerOK(h)
  BY DEF PgInv, HandlersOK
<1>2. req[h] \in Request
  BY <1>1 DEF HandlerOK, Idle, Plain, Inserting, Touching, CommittingAppend, Rating, Copying,
              CommittingBranch, At
<1>. QED BY <1>2 DEF Request

LEMMA InsertEffect ==
  ASSUME PgInv, NEW h \in Handlers, InsertConversation(h) PROVE Effect(req[h].sub)
<1> DEFINE Row(now) == [sub |-> req[h].sub, title |-> req[h].title, updatedAt |-> now]
<1>0. PICK now \in Times : conversations' = Put(conversations, nextId, Row(now))
  BY DEF InsertConversation
<1>1. PICK c, row : c = nextId /\ row = Row(now)
  OBVIOUS
<1>2. conversations' = Put(conversations, c, row) /\ UNCHANGED <<messages, feedback>>
  BY <1>0, <1>1 DEF InsertConversation
<1>3. c \notin DOMAIN conversations /\ ~Settled(c)
  BY <1>1, FreshId DEF Settled
<1>4. row.sub = req[h].sub /\ row.title \in Titles
  BY <1>1, Serving DEF InsertConversation, Runs
<1>. QED BY <1>2, <1>3, <1>4 DEF Effect, Inserted

LEMMA RenameEffect ==
  ASSUME PgInv, NEW h \in Handlers, UpdateTitle(h) PROVE UNCHANGED tables \/ Effect(req[h].sub)
<1>1. CASE UNCHANGED conversations
  BY <1>1 DEF UpdateTitle, tables
<1>2. CASE conversations' # conversations
  <2> DEFINE Row(id, now) == [conversations[id] EXCEPT !.title = req[h].title, !.updatedAt = now]
  <2>0. PICK now \in Times : conversations' = Put(conversations, req[h].id, Row(req[h].id, now))
    BY <1>2 DEF UpdateTitle
  <2>1. PICK c, row : c = req[h].id /\ row = Row(c, now)
    OBVIOUS
  <2>2. /\ OwnsConversation(req[h].sub, c) /\ conversations' = Put(conversations, c, row)
        /\ UNCHANGED <<messages, feedback>> /\ pc[h] # "idle"
    BY <1>2, <2>0, <2>1 DEF UpdateTitle, Runs
  <2>3. conversations[c] \in Conversation
    BY <2>2 DEF PgInv, Typed, RowsOK, OwnsConversation
  <2>4. row.sub = req[h].sub /\ row.title \in Titles
    BY <2>1, <2>2, <2>3, Serving DEF OwnsConversation, Conversation
  <2>. QED BY <2>2, <2>4 DEF Effect, Renamed
<1>. QED BY <1>1, <1>2

LEMMA DeleteEffect ==
  ASSUME PgInv, NEW h \in Handlers, DeleteConversation(h) PROVE UNCHANGED tables \/ Effect(req[h].sub)
BY DEF DeleteConversation, Cascade, Effect, Deleted

LEMMA AppendEffect ==
  ASSUME PgInv, NEW h \in Handlers, CommitAppend(h) PROVE Effect(req[h].sub)
<1>1. CommittingAppend(h) /\ UNCHANGED feedback
  BY AtStatement DEF CommitAppend, Runs
<1>2. PICK c, s, cs, ms : c = req[h].id /\ s = req[h].sub /\ cs = tx[h].conversations /\ ms = tx[h].messages
  OBVIOUS
<1>3. PICK m \in Minted : DOMAIN ms = {m} /\ ms[m].conv = c /\ ms[m].sub = s
  BY <1>1, <1>2 DEF CommittingAppend, Wrote
<1>4. PICK row, msg : row = cs[c] /\ msg = ms[m]
  OBVIOUS
<1>5. DOMAIN cs = {c} /\ row.sub = s /\ row.title = conversations[c].title /\ OwnsConversation(s, c)
  BY <1>1, <1>2, <1>4 DEF CommittingAppend, Wrote, Locked, OwnsConversation
<1>6. m \notin DOMAIN messages
  BY <1>1, <1>2, <1>3 DEF CommittingAppend, Wrote, RowsAreNew
<1>7. msg.content \in Nat /\ msg.createdAt \in Times
  BY <1>2, <1>3, <1>4 DEF PgInv, HandlersOK, Session, RowsOK, Message, Minted
<1>8. conversations' = Overlay(cs, conversations) /\ messages' = Overlay(ms, messages)
  BY <1>2 DEF CommitAppend
<1>9. conversations' = Put(conversations, c, row)
  BY <1>4, <1>5, <1>8 DEF Overlay, Put
<1>10. messages' = Put(messages, m, msg)
  BY <1>3, <1>4, <1>8 DEF Overlay, Put
<1>11. AppendedTo(s, c, row, m, msg)
  BY <1>1, <1>3, <1>4, <1>5, <1>6, <1>7, <1>9, <1>10 DEF AppendedTo
<1>. QED BY <1>2, <1>11 DEF Effect

LEMMA RateEffect ==
  ASSUME PgInv, NEW h \in Handlers, UpsertFeedback(h) PROVE UNCHANGED tables \/ Effect(req[h].sub)
<1>1. CASE UNCHANGED feedback
  BY <1>1 DEF UpsertFeedback, tables
<1>2. CASE feedback' # feedback
  <2>1. PICK m, s : m = req[h].id /\ s = req[h].sub
    OBVIOUS
  <2>2. PICK r \in Ratings : feedback' = Put(feedback, <<m, s>>, r)
    BY <1>2, <2>1 DEF UpsertFeedback
  <2>3. m \in DOMAIN messages /\ UNCHANGED <<conversations, messages>>
    BY <1>2, <2>1 DEF UpsertFeedback
  <2>4. messages[m].sub = s
    BY <2>1, <2>3, AtStatement DEF UpsertFeedback, Runs, Rating
  <2>5. RatedBy(s, m, r)
    BY <2>2, <2>3, <2>4 DEF RatedBy, OwnsMessage
  <2>. QED BY <2>1, <2>5 DEF Effect
<1>. QED BY <1>1, <1>2

LEMMA BranchEffect ==
  ASSUME ContractInv, NEW h \in Handlers, CommitBranch(h)
  PROVE  \E b, row, rows : Branched(req[h].sub, b, row, rows, req[h].title)
<1>1. CommittingBranch(h) /\ UNCHANGED feedback /\ pc[h] = "commitBranch"
  BY AtStatement DEF CommitBranch, Runs, ContractInv
<1>2. PICK s, cs, ms, t :
        s = req[h].sub /\ cs = tx[h].conversations /\ ms = tx[h].messages /\ t = req[h].title
  OBVIOUS
<1>3. PICK b \in Minted :
        Branches(h, b) /\ \A m \in DOMAIN ms : ms[m].conv = b /\ ms[m].sub = s
  BY <1>1, <1>2 DEF CommittingBranch
<1>4. PICK row : row = cs[b]
  OBVIOUS
<1>5. /\ DOMAIN cs = {b} /\ row.sub = s /\ b \in DOMAIN promised /\ b \notin DOMAIN conversations
  BY <1>2, <1>3, <1>4 DEF Branches, OnlyIn
<1>6. ~Settled(b)
  BY <1>2, <1>5 DEF Settled
<1>7. \A m \in DOMAIN ms : m \notin DOMAIN messages
  BY <1>1, <1>2 DEF CommittingBranch, RowsAreNew
<1>8. Sourced(h, b)
  BY <1>1, <1>2, <1>5 DEF ContractInv, BranchesSourced
<1>9. /\ row.title = BranchTitle(t, promised[b].title)
      /\ promised[b].source \in DOMAIN conversations =>
           /\ SourceThere(s, promised[b])
           /\ FaithfulCopy(ms, promised[b].source, promised[b].at, promised[b].due)
  BY <1>1, <1>2, <1>4, <1>8 DEF Sourced
<1>10. conversations' = Overlay(cs, conversations) /\ messages' = Overlay(ms, messages)
  BY <1>2 DEF CommitBranch
<1>11. conversations' = Put(conversations, b, row)
  BY <1>4, <1>5, <1>10 DEF Overlay, Put
<1>12. t \in Titles
  BY <1>1, <1>2, Serving DEF ContractInv
<1>13. Branched(s, b, row, ms, t)
  BY <1>1, <1>3, <1>5, <1>6, <1>7, <1>9, <1>10, <1>11, <1>12 DEF Branched
<1>. QED BY <1>2, <1>13

(* The statements that never write to the committed tables.                *)
LEMMA QuietStatements ==
  ASSUME NEW h \in Handlers,
         \/ ReadBack(h) \/ CheckOwner(h) \/ InsertMessage(h) \/ TouchConversation(h)
         \/ CheckListed(h) \/ SelectMessages(h) \/ CheckMessage(h)
         \/ FindSource(h) \/ CopyMessages(h)
  PROVE  UNCHANGED tables
BY DEF ReadBack, CheckOwner, InsertMessage, TouchConversation, CheckListed, SelectMessages,
       CheckMessage, FindSource, CopyMessages

LEMMA StatementEffect ==
  ASSUME ContractInv, NEW h \in Handlers, Statement(h)
  PROVE  UNCHANGED tables \/ Effect(req[h].sub)
<1>1. CASE InsertConversation(h) \/ UpdateTitle(h) \/ DeleteConversation(h)
  BY <1>1, InsertEffect, RenameEffect, DeleteEffect DEF ContractInv
<1>2. CASE CommitAppend(h) \/ UpsertFeedback(h)
  BY <1>2, AppendEffect, RateEffect DEF ContractInv
<1>3. CASE CommitBranch(h)
  BY <1>3, BranchEffect DEF Effect
<1>. QED BY <1>1, <1>2, <1>3, QuietStatements DEF Statement

(* A statement is of a handler that goes on to another, or answers.        *)
LEMMA StatementMoves ==
  ASSUME PgInv, NEW h \in Handlers, Statement(h)
  PROVE  pc[h] # "idle" /\ pc'[h] # pc[h]
<1>1. DOMAIN pc = Handlers
  BY DEF PgInv, HandlersOK, Domains
<1>2. \A answers : Return(h, answers) => pc'[h] = "idle"
  BY <1>1 DEF Return
<1>3. \A statement : GoOn(h, statement) => pc'[h] = statement
  BY <1>1 DEF GoOn
<1>4. CASE InsertConversation(h) \/ UpdateTitle(h) \/ ReadBack(h) \/ DeleteConversation(h)
  BY <1>2, <1>3, <1>4 DEF InsertConversation, UpdateTitle, ReadBack, DeleteConversation, Runs
<1>5. CASE CheckOwner(h) \/ InsertMessage(h) \/ TouchConversation(h) \/ CommitAppend(h)
  BY <1>2, <1>3, <1>5 DEF CheckOwner, InsertMessage, TouchConversation, CommitAppend, Runs
<1>6. CASE CheckListed(h) \/ SelectMessages(h) \/ CheckMessage(h) \/ UpsertFeedback(h)
  BY <1>2, <1>3, <1>6 DEF CheckListed, SelectMessages, CheckMessage, UpsertFeedback, Runs
<1>7. CASE FindSource(h) \/ CopyMessages(h) \/ CommitBranch(h)
  BY <1>2, <1>3, <1>7 DEF FindSource, CopyMessages, CommitBranch, Runs
<1>. QED BY <1>4, <1>5, <1>6, <1>7 DEF Statement

(* Every step either leaves the tables as they are, or has an effect of    *)
(* the subject whose handler moves.                                        *)
LEMMA StepEffect ==
  ASSUME ContractInv, Next
  PROVE  \/ UNCHANGED tables
         \/ \E h \in Handlers : pc[h] # "idle" /\ pc'[h] # pc[h] /\ Effect(req[h].sub)
<1>1. ASSUME NEW h \in Handlers, Begin(h) \/ Acquire(h) \/ Cancel(h) PROVE UNCHANGED tables
  BY <1>1 DEF Begin, Acquire, Cancel
<1>2. CASE Quiescent
  BY <1>2 DEF Quiescent, vars
<1>3. ASSUME NEW h \in Handlers, Statement(h)
      PROVE  UNCHANGED tables \/ (pc[h] # "idle" /\ pc'[h] # pc[h] /\ Effect(req[h].sub))
  BY <1>3, StatementEffect, StatementMoves DEF ContractInv
<1>. QED BY <1>1, <1>2, <1>3 DEF Next
-----------------------------------------------------------------------------
(***************************************************************************)
(* What effects do to the rows that are there.                             *)
(***************************************************************************)
(* A conversation keeps its owner, and one that is settled does not come   *)
(* back; a message stays as it is for as long as its conversation is       *)
(* there, and is rated for as long as it is there.                         *)
RowsEvolve ==
  /\ \A c \in DOMAIN conversations \cap DOMAIN conversations' :
       conversations'[c].sub = conversations[c].sub
  /\ \A c \in DOMAIN conversations' : Settled(c) => c \in DOMAIN conversations
  /\ \A m \in DOMAIN messages :
       messages[m].conv \in DOMAIN conversations' =>
         m \in DOMAIN messages' /\ messages'[m] = messages[m]
  /\ \A k \in DOMAIN feedback : k[1] \in DOMAIN messages' => k \in DOMAIN feedback'

LEMMA EffectEvolves == ASSUME NEW s, Effect(s) PROVE RowsEvolve
<1>1. CASE \E c, row : Inserted(s, c, row)
  BY <1>1 DEF Inserted, RowsEvolve, Put
<1>2. CASE \E c, row : Renamed(s, c, row)
  BY <1>2 DEF Renamed, OwnsConversation, RowsEvolve, Put
<1>3. ASSUME NEW c, Deleted(s, c) PROVE RowsEvolve
  <2>1. /\ DOMAIN conversations' = DOMAIN conversations \ {c}
        /\ \A x \in DOMAIN conversations' : conversations'[x] = conversations[x]
    BY <1>3 DEF Deleted, Without, Restrict
  <2>2. /\ DOMAIN messages' = DOMAIN messages \ MessagesOf(c)
        /\ \A m \in DOMAIN messages' : messages'[m] = messages[m]
    BY <1>3 DEF Deleted, Without, Restrict
  <2>3. DOMAIN feedback' = DOMAIN feedback \ {k \in DOMAIN feedback : k[1] \in MessagesOf(c)}
    BY <1>3 DEF Deleted, Without, Restrict
  <2>. QED BY <2>1, <2>2, <2>3 DEF RowsEvolve, MessagesOf
<1>4. CASE \E c, row, m, msg : AppendedTo(s, c, row, m, msg)
  BY <1>4 DEF AppendedTo, OwnsConversation, RowsEvolve, Put
<1>5. CASE \E m, r : RatedBy(s, m, r)
  BY <1>5 DEF RatedBy, RowsEvolve, Put
<1>6. CASE \E b, row, rows, asked : Branched(s, b, row, rows, asked)
  BY <1>6 DEF Branched, RowsEvolve, Put, Overlay
<1>. QED BY <1>1, <1>2, <1>3, <1>4, <1>5, <1>6 DEF Effect

LEMMA StepEvolves == ASSUME ContractInv, [Next]_vars PROVE RowsEvolve
<1>1. ASSUME UNCHANGED tables PROVE RowsEvolve
  BY <1>1 DEF tables, RowsEvolve
<1>2. CASE UNCHANGED vars
  BY <1>1, <1>2 DEF vars
<1>. QED BY <1>1, <1>2, StepEffect, EffectEvolves
-----------------------------------------------------------------------------
(***************************************************************************)
(* The invariant.                                                          *)
(***************************************************************************)
(* What is promised of a branch is not taken back.                         *)
LEMMA PromisesStand ==
  ASSUME PgInv, [Next]_vars, NEW b \in DOMAIN promised
  PROVE  b \in DOMAIN promised' /\ promised'[b] = promised[b]
<1>1. ASSUME promised' = promised PROVE b \in DOMAIN promised' /\ promised'[b] = promised[b]
  BY <1>1
<1>2. CASE UNCHANGED vars \/ Quiescent
  BY <1>1, <1>2 DEF vars, Quiescent
<1>3. ASSUME NEW h \in Handlers, Begin(h) \/ Acquire(h) \/ Cancel(h) PROVE promised' = promised
  BY <1>3 DEF Begin, Acquire, Cancel
<1>4. ASSUME NEW h \in Handlers, FindSource(h) PROVE b \in DOMAIN promised' /\ promised'[b] = promised[b]
  <2>1. promised' = promised \/ \E v : promised' = Put(promised, nextId, v)
    BY <1>4 DEF FindSource
  <2>2. nextId \notin DOMAIN promised
    BY FreshId
  <2>. QED BY <2>1, <2>2 DEF Put
<1>5. ASSUME NEW h \in Handlers, Statement(h), ~FindSource(h) PROVE promised' = promised
  BY <1>5 DEF Statement, InsertConversation, UpdateTitle, ReadBack, DeleteConversation, CheckOwner,
              InsertMessage, TouchConversation, CommitAppend, CheckListed, SelectMessages,
              CheckMessage, UpsertFeedback, CopyMessages, CommitBranch
<1>. QED BY <1>1, <1>2, <1>3, <1>4, <1>5 DEF Next

(* A handler gets to the copy and to the commit of a branch by the         *)
(* statements before them only.                                            *)
LEMMA WhoBranches ==
  ASSUME PgInv, [Next]_vars, NEW g \in Handlers, pc'[g] \in {"copyMessages", "commitBranch"}
  PROVE  \/ FindSource(g) /\ pc'[g] = "copyMessages"
         \/ CopyMessages(g)
         \/ pc'[g] = pc[g] /\ req'[g] = req[g] /\ tx'[g] = tx[g]
<1> DEFINE Stays == pc'[g] = pc[g] /\ req'[g] = req[g] /\ tx'[g] = tx[g]
<1>1. DOMAIN pc = Handlers /\ DOMAIN req = Handlers /\ DOMAIN tx = Handlers
  BY DEF PgInv, HandlersOK, Domains
<1>2. CASE UNCHANGED vars \/ Quiescent
  BY <1>2 DEF vars, session, Quiescent
<1>3. ASSUME NEW h \in Handlers, Acquire(h) PROVE Stays
  BY <1>3 DEF Acquire
<1>4. ASSUME NEW h \in Handlers, Begin(h) PROVE Stays
  <2>1. PICK op \in Ops, s \in Subjects, id \in 0 .. nextId - 1, t \in Titles :
          /\ (op = "create") <=> (id = 0)
          /\ op \notin {"create", "rename", "branch"} => t = NoTitle
          /\ req' = [req EXCEPT ![h] = [op |-> op, sub |-> s, id |-> id, title |-> t]]
          /\ pc' = [pc EXCEPT ![h] = FirstStatement[op]]
    BY <1>4, Zenon DEF Begin
  <2>2. FirstStatement[op] \notin {"copyMessages", "commitBranch"}
    BY WorkloadAssumption DEF AllOps, FirstStatement
  <2>3. pc'[h] = FirstStatement[op] /\ \A k \in Handlers \ {h} : pc'[k] = pc[k] /\ req'[k] = req[k]
    BY <1>1, <2>1
  <2>4. UNCHANGED tx
    BY <1>4 DEF Begin
  <2>. QED BY <2>2, <2>3, <2>4
<1>5. ASSUME NEW h \in Handlers, NEW answers, Return(h, answers) PROVE Stays
  BY <1>1, <1>5 DEF Return
<1>6. ASSUME NEW h \in Handlers, NEW statement, statement \notin {"copyMessages", "commitBranch"},
             GoOn(h, statement), UNCHANGED tx
      PROVE  Stays
  BY <1>1, <1>6 DEF GoOn
<1>7. ASSUME NEW h \in Handlers,
             \/ InsertConversation(h) \/ UpdateTitle(h) \/ ReadBack(h) \/ DeleteConversation(h)
             \/ CommitAppend(h) \/ SelectMessages(h) \/ UpsertFeedback(h) \/ CommitBranch(h)
             \/ Cancel(h)
      PROVE  Stays
  BY <1>5, <1>6, <1>7 DEF InsertConversation, UpdateTitle, ReadBack, DeleteConversation, CommitAppend,
                          SelectMessages, UpsertFeedback, CommitBranch, Cancel
<1>8. ASSUME NEW h \in Handlers,
             CheckOwner(h) \/ CheckListed(h) \/ CheckMessage(h)
      PROVE  Stays
  BY <1>5, <1>6, <1>8 DEF CheckOwner, CheckListed, CheckMessage
<1>9. ASSUME NEW h \in Handlers, InsertMessage(h) \/ TouchConversation(h) PROVE Stays
  <2>1. \/ \E answers : Return(h, answers)
        \/ /\ GoOn(h, "touchConversation") \/ GoOn(h, "commitAppend")
           /\ \/ \E v : tx' = [tx EXCEPT ![h].messages = v]
              \/ \E v : tx' = [tx EXCEPT ![h].conversations = v]
    BY <1>9 DEF InsertMessage, TouchConversation
  <2>. QED BY <1>1, <1>5, <2>1 DEF GoOn
<1>10. ASSUME NEW h \in Handlers \ {g}, FindSource(h) \/ CopyMessages(h) PROVE Stays
  <2>1. \/ \E answers : Return(h, answers)
        \/ /\ GoOn(h, "copyMessages") \/ GoOn(h, "commitBranch")
           /\ \/ \E v : tx' = [tx EXCEPT ![h].messages = v]
              \/ \E v : tx' = [tx EXCEPT ![h].conversations = v]
    BY <1>10 DEF FindSource, CopyMessages
  <2>. QED BY <1>1, <1>5, <1>10, <2>1 DEF GoOn
<1>11. ASSUME FindSource(g) PROVE pc'[g] = "copyMessages"
  BY <1>1, <1>11 DEF FindSource, Return, GoOn
<1>. QED BY <1>2, <1>3, <1>4, <1>7, <1>8, <1>9, <1>10, <1>11 DEF Next, Statement

(* A branch on its way is promised, and its source will not come back.     *)
LEMMA OnItsWay ==
  ASSUME PgInv, NEW g \in Handlers, pc[g] \in {"copyMessages", "commitBranch"},
         NEW b \in DOMAIN tx[g].conversations
  PROVE  b \in DOMAIN promised /\ Settled(promised[b].source)
<1>1. CASE pc[g] = "copyMessages"
  <2>1. Copying(g)
    BY <1>1, AtStatement
  <2>. QED BY <2>1 DEF Copying, Branches, PgInv, PromisesKept
<1>2. CASE pc[g] = "commitBranch"
  <2>1. CommittingBranch(g)
    BY <1>2, AtStatement
  <2>. QED BY <2>1 DEF CommittingBranch, Branches, PgInv, PromisesKept
<1>. QED BY <1>1, <1>2

(* A copy is one for as long as what it was copied from is there.          *)
LEMMA CopyStays ==
  ASSUME NEW rows, NEW source, NEW named \in MessagesOf(source), NEW due,
         FaithfulCopy(rows, source, named, due),
         MessagesOf(source) \subseteq MessagesOf(source)',
         \A m \in MessagesOf(source) : messages'[m] = messages[m]
  PROVE  FaithfulCopy(rows, source, named, due)'
<1>1. PICK time \in Times :
        \E of \in [DOMAIN rows -> MessagesOf(source)] :
          /\ \A x \in DOMAIN rows :
               /\ rows[x].content = messages[of[x]].content /\ rows[x].createdAt = time
               /\ messages[of[x]].createdAt <= messages[named].createdAt
          /\ \A x, y \in DOMAIN rows : of[x] = of[y] => x = y
          /\ \A p \in due \cup {named} : \E x \in DOMAIN rows : of[x] = p
  BY DEF FaithfulCopy
<1>2. PICK of \in [DOMAIN rows -> MessagesOf(source)] :
        /\ \A x \in DOMAIN rows :
             /\ rows[x].content = messages[of[x]].content /\ rows[x].createdAt = time
             /\ messages[of[x]].createdAt <= messages[named].createdAt
        /\ \A x, y \in DOMAIN rows : of[x] = of[y] => x = y
        /\ \A p \in due \cup {named} : \E x \in DOMAIN rows : of[x] = p
  BY <1>1
<1>3. of \in [DOMAIN rows -> MessagesOf(source)']
  BY <1>2
<1>4. \A x \in DOMAIN rows : messages'[of[x]] = messages[of[x]]
  BY <1>2
<1>5. messages'[named] = messages[named]
  OBVIOUS
<1>. QED BY <1>2, <1>3, <1>4, <1>5 DEF FaithfulCopy

(* What the others do to a branch on its way.                              *)
LEMMA SourcedStays ==
  ASSUME ContractInv, [Next]_vars, NEW g \in Handlers,
         pc[g] \in {"copyMessages", "commitBranch"},
         pc'[g] = pc[g], req'[g] = req[g], tx'[g] = tx[g],
         NEW b \in DOMAIN tx[g].conversations
  PROVE  Sourced(g, b)'
<1>1. RowsEvolve /\ Sourced(g, b) /\ Settled(promised[b].source) /\ promised'[b] = promised[b]
  BY StepEvolves, OnItsWay, PromisesStand DEF ContractInv, BranchesSourced
<1>2. PICK found, s, rows : found = promised[b] /\ s = req[g].sub /\ rows = tx[g].messages
  OBVIOUS
<1>3. ASSUME found.source \in DOMAIN conversations'
      PROVE  /\ SourceThere(s, found)'
             /\ MessagesOf(found.source) \subseteq MessagesOf(found.source)'
             /\ \A m \in MessagesOf(found.source) : messages'[m] = messages[m]
  <2>1. SourceThere(s, found)
    BY <1>1, <1>2, <1>3 DEF RowsEvolve, Sourced
  <2>2. OwnsConversation(s, found.source)'
    BY <1>1, <1>3, <2>1 DEF SourceThere, RowsEvolve, OwnsConversation
  <2>3. /\ MessagesOf(found.source) \subseteq MessagesOf(found.source)'
        /\ \A m \in MessagesOf(found.source) : messages'[m] = messages[m]
    BY <1>1, <1>3 DEF RowsEvolve, MessagesOf
  <2>. QED BY <2>1, <2>2, <2>3 DEF SourceThere
<1>4. Copied(found.source, s, found.cut) \subseteq Copied(found.source, s, found.cut)'
      \/ found.source \notin DOMAIN conversations'
  BY <1>3 DEF Copied
<1>5. ASSUME found.source \in DOMAIN conversations', found.at \in MessagesOf(found.source),
             FaithfulCopy(rows, found.source, found.at, found.due)
      PROVE  FaithfulCopy(rows, found.source, found.at, found.due)'
  BY <1>3, <1>5, CopyStays
<1>. QED BY <1>1, <1>2, <1>3, <1>4, <1>5 DEF Sourced, SourceThere, RowsEvolve

(* Finding the source.                                                     *)
LEMMA FindSourced ==
  ASSUME PgInv, NEW g \in Handlers, FindSource(g), pc'[g] = "copyMessages",
         NEW b \in DOMAIN tx'[g].conversations
  PROVE  Sourced(g, b)'
<1>1. PICK m, c, s, t, x :
        m = req[g].id /\ c = messages[m].conv /\ s = req[g].sub /\ t = req[g].title /\ x = nextId
  OBVIOUS
<1>2. ~(pc'[g] = "idle")
  OBVIOUS
<1>3. \A answers : ~Return(g, answers)
  BY DEF Return, PgInv, HandlersOK, Domains
<1> DEFINE Row(now) ==
      [sub |-> s, updatedAt |-> now, title |-> BranchTitle(t, conversations[c].title)]
<1>3a. PICK now \in Times : tx' = [tx EXCEPT ![g].conversations = Put(EmptyTable, x, Row(now))]
  BY <1>1, <1>3 DEF FindSource
<1>4. PICK row, rows, found :
        /\ row = Row(now) /\ rows = Put(EmptyTable, x, row)
        /\ found = [source |-> c, title |-> conversations[c].title,
                    at |-> m, cut |-> messages[m].createdAt,
                    due |-> UpTo(m), contents |-> {messages[y].content : y \in UpTo(m)}]
  OBVIOUS
<1>5. /\ OwnsMessage(s, m) /\ OwnsConversation(s, c) /\ req' = req /\ UNCHANGED tables
      /\ tx' = [tx EXCEPT ![g].conversations = rows]
      /\ promised' = Put(promised, x, found)
  BY <1>1, <1>3, <1>3a, <1>4 DEF FindSource, GoOn
<1>6. tx'[g].conversations = rows
  <2>1. DOMAIN tx = Handlers
    BY DEF PgInv, HandlersOK, Domains
  <2>2. tx[g] = NoTx
    BY AtStatement DEF FindSource, Runs, PlainStatements, Plain
  <2>3. PICK empty : empty = EmptyTable
    OBVIOUS
  <2>4. tx[g] = [conversations |-> empty, messages |-> empty]
    BY <2>2, <2>3 DEF NoTx
  <2>5. PICK u : u = tx[g]
    OBVIOUS
  <2>6. tx'[g] = [u EXCEPT !.conversations = rows]
    BY <1>5, <2>1, <2>5
  <2>. QED BY <2>4, <2>5, <2>6
<1>7. rows = Put(EmptyTable, x, row) /\ row.title = BranchTitle(t, conversations[c].title)
  BY <1>4
<1>8. b = x /\ rows[b] = row
  <2>1. DOMAIN rows = {x} /\ rows[x] = row
    BY <1>7, OneRow
  <2>. QED BY <1>6, <2>1
<1>9. promised'[b] = found
  BY <1>5, <1>8 DEF Put
<1>10. /\ found.source = c /\ found.title = conversations[c].title
       /\ found.at = m /\ found.cut = messages[m].createdAt /\ found.due = UpTo(m)
  BY <1>4
<1>11. UpTo(m) \cup {m} \subseteq Copied(c, s, messages[m].createdAt) /\ m \in MessagesOf(c)
  <2>1. m \in DOMAIN messages /\ messages[m].sub = s
    BY <1>5 DEF OwnsMessage
  <2>2. messages[m].createdAt \in Int
    BY <2>1, WorkloadAssumption DEF PgInv, Typed, RowsOK, Message
  <2>3. UpTo(m) \subseteq Copied(c, s, messages[m].createdAt)
    BY <1>1, <2>1, UpToIsCopied
  <2>. QED BY <1>1, <2>1, <2>2, <2>3 DEF Copied, MessagesOf
<1>12. conversations' = conversations /\ messages' = messages
  BY <1>5 DEF tables
<1>13. SourceThere(s, found)'
  BY <1>5, <1>10, <1>11, <1>12 DEF SourceThere, OwnsConversation, MessagesOf
<1>14. (found.due \cup {found.at} \subseteq Copied(found.source, s, found.cut))'
  BY <1>10, <1>11, <1>12 DEF Copied, MessagesOf
<1>. QED BY <1>1, <1>5, <1>6, <1>7, <1>8, <1>9, <1>10, <1>13, <1>14 DEF Sourced

(* The copy takes every message it reads once, the named one and those     *)
(* that are due among them, and gives the copies one time.                 *)
LEMMA CopySourced ==
  ASSUME ContractInv, NEW g \in Handlers, CopyMessages(g),
         NEW b0 \in DOMAIN tx'[g].conversations
  PROVE  Sourced(g, b0)'
<1>1. /\ PgInv /\ Copying(g) /\ UNCHANGED <<tables, promised>> /\ GoOn(g, "commitBranch")
      /\ conversations' = conversations /\ messages' = messages /\ req' = req /\ promised' = promised
      /\ pc[g] = "copyMessages"
  BY AtStatement DEF CopyMessages, Runs, tables, ContractInv, GoOn
<1>2. PICK cs, s, t : cs = tx[g].conversations /\ s = req[g].sub /\ t = req[g].title
  OBVIOUS
<1>3. PICK b \in Minted : Branches(g, b)
  BY <1>1 DEF Copying
<1>4. DOMAIN cs = {b} /\ b \in DOMAIN promised
  BY <1>2, <1>3 DEF Branches
<1>5. PICK found, S, n, first, time :
        /\ found = promised[b] /\ S = Copied(found.source, s, found.cut)
        /\ n = Cardinality(S) /\ first = nextId /\ time = cs[b].updatedAt
  OBVIOUS
<1>5a. time \in Times
  BY <1>1, <1>2, <1>4, <1>5 DEF PgInv, HandlersOK, Session, RowsOK, Conversation
<1> DEFINE dst == CHOOSE c \in DOMAIN tx[g].conversations : TRUE
           Rows(d, q) == [m \in nextId .. nextId + Len(q) - 1 |->
                            [conv |-> d, sub |-> req[g].sub,
                             content |-> messages[q[m - nextId + 1]].content,
                             createdAt |-> tx[g].conversations[d].updatedAt]]
<1>6. \E q \in InTimeOrder(Copied(promised[dst].source, req[g].sub, promised[dst].cut)) :
        tx' = [tx EXCEPT ![g].messages = Rows(dst, q)]
  BY Zenon DEF CopyMessages
<1>7. dst = b
  BY <1>2, <1>4
<1>. HIDE DEF dst
<1>8. PICK q \in InTimeOrder(S) : tx' = [tx EXCEPT ![g].messages = Rows(b, q)]
  <2>. HIDE DEF Rows
  <2>. QED BY <1>2, <1>5, <1>6, <1>7
<1>9. PICK rows : rows = Rows(b, q)
  OBVIOUS
<1>10. /\ DOMAIN rows = first .. first + Len(q) - 1
       /\ \A x \in DOMAIN rows :
            rows[x].content = messages[q[x - first + 1]].content /\ rows[x].createdAt = time
  BY <1>2, <1>5, <1>9
<1>. HIDE DEF Rows
<1>11. /\ S \subseteq MessagesOf(found.source) /\ n \in Nat /\ Len(q) = n
       /\ \A y \in S : messages[y].createdAt <= found.cut
       /\ \A i \in 1..n : q[i] \in S
       /\ \A y \in S : \E i \in 1..n : q[i] = y
       /\ \A i, j \in 1..n : q[i] = q[j] => i = j
  <2>1. /\ S \subseteq MessagesOf(found.source) /\ S \subseteq DOMAIN messages
        /\ \A y \in S : messages[y].createdAt <= found.cut
        /\ q \in SetToSeqs(S) /\ n = Cardinality(S)
    BY <1>5, <1>8 DEF Copied, MessagesOf, InTimeOrder
  <2>2. IsFiniteSet(S)
    BY <1>1, <2>1, CopiedFinite
  <2>3. \A i, j \in 1..n : q[i] = q[j] => i = j
    BY <2>1 DEF SetToSeqs
  <2>. QED BY <2>1, <2>2, <2>3, SequenceOfSet
<1>12. first \in Nat /\ DOMAIN rows = first .. first + n - 1
  BY <1>1, <1>5, <1>10, <1>11 DEF PgInv, Typed
<1>13. tx'[g].messages = rows /\ tx'[g].conversations = cs
  <2>1. tx' = [tx EXCEPT ![g].messages = rows] /\ DOMAIN tx = Handlers
    BY <1>1, <1>8, <1>9 DEF PgInv, HandlersOK, Domains
  <2>2. PICK u, empty : u = tx[g] /\ empty = EmptyTable
    OBVIOUS
  <2>3. u = [conversations |-> cs, messages |-> empty]
    BY <1>1, <1>2, <2>2 DEF Copying
  <2>4. tx'[g] = [u EXCEPT !.messages = rows]
    BY <2>1, <2>2
  <2>. QED BY <2>3, <2>4
<1>14. b0 = b /\ Sourced(g, b)
  BY <1>1, <1>2, <1>4, <1>13 DEF ContractInv, BranchesSourced
<1>15. ASSUME found.source \in DOMAIN conversations
       PROVE  SourceThere(s, found) /\ FaithfulCopy(rows, found.source, found.at, found.due)
  <2> DEFINE of == [x \in DOMAIN rows |-> q[x - first + 1]]
  <2>1. \A x \in DOMAIN rows : x \in Nat /\ x - first + 1 \in 1..n /\ of[x] = q[x - first + 1]
    BY <1>12, <1>11
  <2>2. of \in [DOMAIN rows -> MessagesOf(found.source)]
    BY <1>11, <2>1
  <2>3. \A x \in DOMAIN rows :
          /\ rows[x].content = messages[of[x]].content /\ rows[x].createdAt = time
          /\ messages[of[x]].createdAt <= found.cut
    BY <1>10, <1>11, <2>1
  <2>4. ASSUME NEW x \in DOMAIN rows, NEW y \in DOMAIN rows, of[x] = of[y] PROVE x = y
    <3>1. x - first + 1 = y - first + 1
      BY <1>11, <2>1, <2>4
    <3>. QED BY <1>12, <2>1, <3>1
  <2>5. ASSUME NEW p \in found.due \cup {found.at} PROVE \E x \in DOMAIN rows : of[x] = p
    <3>1. p \in S
      BY <1>1, <1>2, <1>5, <1>14, <1>15, <2>5 DEF Sourced
    <3>2. PICK i \in 1..n : q[i] = p
      BY <1>11, <3>1
    <3>3. PICK x : x = first + i - 1
      OBVIOUS
    <3>4. x \in DOMAIN rows /\ x - first + 1 = i
      BY <1>11, <1>12, <3>3
    <3>. QED BY <2>1, <3>2, <3>4
  <2>6. SourceThere(s, found)
    BY <1>1, <1>2, <1>5, <1>14, <1>15 DEF Sourced
  <2>7. found.cut = messages[found.at].createdAt
    BY <2>6 DEF SourceThere
  <2>. HIDE DEF of
  <2>. QED BY <1>5a, <2>2, <2>3, <2>4, <2>5, <2>6, <2>7 DEF FaithfulCopy
<1>16. pc'[g] = "commitBranch"
  BY <1>1 DEF GoOn, PgInv, HandlersOK, Domains
<1>17. ASSUME found.source \in DOMAIN conversations'
       PROVE  SourceThere(s, found)' /\ FaithfulCopy(rows, found.source, found.at, found.due)'
  <2>1. conversations' = conversations /\ messages' = messages
    BY <1>1
  <2>2. MessagesOf(found.source)' = MessagesOf(found.source)
    BY <2>1 DEF MessagesOf
  <2>3. SourceThere(s, found)'
    BY <1>15, <1>17, <2>1, <2>2 DEF SourceThere, OwnsConversation
  <2>4. FaithfulCopy(rows, found.source, found.at, found.due)'
    BY <1>15, <1>17, <2>1, <2>2, CopyStays DEF SourceThere
  <2>. QED BY <2>3, <2>4
<1>. QED BY <1>1, <1>2, <1>5, <1>13, <1>14, <1>16, <1>17 DEF Sourced

LEMMA StepSourced == ContractInv /\ [Next]_vars => BranchesSourced'
<1>. SUFFICES ASSUME ContractInv, [Next]_vars, NEW g \in Handlers,
                     pc'[g] \in {"copyMessages", "commitBranch"},
                     NEW b \in DOMAIN tx'[g].conversations
              PROVE  Sourced(g, b)'
  BY DEF BranchesSourced
<1>1. CASE FindSource(g) /\ pc'[g] = "copyMessages"
  BY <1>1, FindSourced DEF ContractInv
<1>2. CASE CopyMessages(g)
  BY <1>2, CopySourced
<1>3. CASE pc'[g] = pc[g] /\ req'[g] = req[g] /\ tx'[g] = tx[g]
  BY <1>3, SourcedStays
<1>. QED BY <1>1, <1>2, <1>3, WhoBranches DEF ContractInv

LEMMA ContractInvCorrect == Spec => []ContractInv
<1>1. Init => ContractInv
  BY InitPg DEF Init, ContractInv, BranchesSourced
<1>2. ContractInv /\ [Next]_vars => ContractInv'
  BY StepPg, StepSourced DEF ContractInv
<1>. QED BY <1>1, <1>2, PTL DEF Spec

(* HistoryStays: whatever runs between the statements of an append, a      *)
(* branch or a rating, and whichever of them commits first, no commit      *)
(* takes away or rewrites what another has added, and a conversation never *)
(* changes hands.                                                          *)
THEOREM HistoryCorrect == Spec => HistoryStays
<1>1. ContractInv /\ [Next]_vars =>
        [/\ \A c \in DOMAIN conversations \cap DOMAIN conversations' :
              conversations'[c].sub = conversations[c].sub
         /\ \A m \in DOMAIN messages :
              messages[m].conv \in DOMAIN conversations' =>
                m \in DOMAIN messages' /\ messages'[m] = messages[m]
         /\ \A k \in DOMAIN feedback : k[1] \in DOMAIN messages' => k \in DOMAIN feedback']_vars
  BY StepEvolves DEF RowsEvolve
<1>. QED BY <1>1, ContractInvCorrect, PTL DEF Spec, HistoryStays
-----------------------------------------------------------------------------
(***************************************************************************)
(* Isolation.                                                              *)
(***************************************************************************)
ConversationsOf(s) == {c \in DOMAIN conversations : conversations[c].sub = s}

RowsOf(s) == {m \in DOMAIN messages : messages[m].sub = s}

LeavesAlone(s) ==
  /\ ConversationsOf(s)' = ConversationsOf(s)
  /\ \A c \in ConversationsOf(s) : conversations'[c] = conversations[c]
  /\ RowsOf(s)' = RowsOf(s)
  /\ \A m \in RowsOf(s) : messages'[m] = messages[m]
  /\ \A m : /\ <<m, s>> \in DOMAIN feedback' <=> <<m, s>> \in DOMAIN feedback
            /\ <<m, s>> \in DOMAIN feedback => feedback'[<<m, s>>] = feedback[<<m, s>>]

(* A list of the elements of a set has nothing else in it.                 *)
LEMMA ListedFrom == ASSUME NEW S, NEW q \in SetToSeqs(S) PROVE \A i \in DOMAIN q : q[i] \in S
BY DEF SetToSeqs

(* A subject whose rows are left alone observes the same.                  *)
LEMMA OthersSeeNothing ==
  ASSUME NEW s, LeavesAlone(s), NEW id PROVE Observes(s, id)' = Observes(s, id)
<1> DEFINE Recent(q) ==
      \A i, j \in DOMAIN q :
        i < j => conversations[q[i]].updatedAt >= conversations[q[j]].updatedAt
      Ordered(q) ==
      \A i, j \in DOMAIN q : i < j => messages[q[i]].createdAt <= messages[q[j]].createdAt
      Log == {m \in MessagesOf(id) : messages[m].sub = s}
<1>1. ListConversations(s)' = ListConversations(s)
  <2>1. ASSUME NEW q \in SetToSeqs(ConversationsOf(s)) PROVE Recent(q)' <=> Recent(q)
    <3>1. \A i \in DOMAIN q : conversations'[q[i]] = conversations[q[i]]
      BY ListedFrom DEF LeavesAlone
    <3>. QED BY <3>1
  <2>2. ListConversations(s) = {q \in SetToSeqs(ConversationsOf(s)) : Recent(q)}
    BY DEF ListConversations, ConversationsOf
  <2>3. ListConversations(s)' = {q \in SetToSeqs(ConversationsOf(s)') : Recent(q)'}
    BY DEF ListConversations, ConversationsOf
  <2>4. ConversationsOf(s)' = ConversationsOf(s)
    BY DEF LeavesAlone
  <2>. HIDE DEF Recent
  <2>. QED BY <2>1, <2>2, <2>3, <2>4
<1>2. /\ OwnsConversation(s, id) <=> id \in ConversationsOf(s)
      /\ OwnsConversation(s, id)' <=> id \in ConversationsOf(s)'
  BY DEF OwnsConversation, ConversationsOf
<1>3. GetConversation(s, id)' = GetConversation(s, id)
  BY <1>2 DEF LeavesAlone, GetConversation
<1>4. InTimeOrder(Log)' = InTimeOrder(Log)
  <2>1. Log' = Log /\ \A m \in Log : messages'[m] = messages[m]
    <3>1. Log = {m \in RowsOf(s) : messages[m].conv = id}
      BY DEF RowsOf, MessagesOf
    <3>2. Log' = {m \in RowsOf(s)' : messages'[m].conv = id}
      BY DEF RowsOf, MessagesOf
    <3>. QED BY <3>1, <3>2 DEF LeavesAlone
  <2>. HIDE DEF Log
  <2>2. ASSUME NEW q \in SetToSeqs(Log) PROVE Ordered(q)' <=> Ordered(q)
    <3>1. \A i \in DOMAIN q : messages'[q[i]] = messages[q[i]]
      BY <2>1, ListedFrom
    <3>. QED BY <3>1
  <2>3. InTimeOrder(Log) = {q \in SetToSeqs(Log) : Ordered(q)}
    BY DEF InTimeOrder
  <2>4. InTimeOrder(Log)' = {q \in SetToSeqs(Log') : Ordered(q)'}
    BY DEF InTimeOrder
  <2>. HIDE DEF Ordered
  <2>. QED BY <2>1, <2>2, <2>3, <2>4
<1>5. GetFeedback(s, id)' = GetFeedback(s, id)
  BY DEF LeavesAlone, GetFeedback
<1>6. OwnsConversation(s, id)' <=> OwnsConversation(s, id)
  BY <1>2 DEF LeavesAlone
<1>. QED BY <1>1, <1>3, <1>4, <1>5, <1>6 DEF Observes

(* The effects of one subject leave the rows of every other alone.         *)
LEMMA EffectIsolates ==
  ASSUME RowsBelongTogether, NEW s, Effect(s), NEW other, other # s
  PROVE  LeavesAlone(other)
<1>1. CASE \E c, row : Inserted(s, c, row)
  BY <1>1 DEF Inserted, Put, ConversationsOf, RowsOf, LeavesAlone
<1>2. CASE \E c, row : Renamed(s, c, row)
  BY <1>2 DEF Renamed, OwnsConversation, Put, ConversationsOf, RowsOf, LeavesAlone
<1>3. CASE \E c : Deleted(s, c)
  BY <1>3 DEF Deleted, OwnsConversation, Without, Restrict, MessagesOf, RowsBelongTogether,
              ConversationsOf, RowsOf, LeavesAlone
<1>4. CASE \E c, row, m, msg : AppendedTo(s, c, row, m, msg)
  BY <1>4 DEF AppendedTo, OwnsConversation, Put, ConversationsOf, RowsOf, LeavesAlone
<1>5. CASE \E m, r : RatedBy(s, m, r)
  BY <1>5 DEF RatedBy, Put, ConversationsOf, RowsOf, LeavesAlone
<1>6. CASE \E b, row, rows, asked : Branched(s, b, row, rows, asked)
  BY <1>6 DEF Branched, Put, Overlay, ConversationsOf, RowsOf, LeavesAlone
<1>. QED BY <1>1, <1>2, <1>3, <1>4, <1>5, <1>6 DEF Effect

(* A statement of a handler changes nothing that a subject can observe     *)
(* other than the one it serves, whatever it has checked before and        *)
(* however late it runs.                                                   *)
THEOREM IsolationCorrect == Spec => SubjectsAreIsolated
<1> DEFINE Isolated ==
      \A s \in Subjects :
        \/ tables' = tables
        \/ \E h \in Handlers : pc[h] # "idle" /\ pc'[h] # pc[h] /\ req[h].sub = s
        \/ \A id \in 0 .. nextId - 1 : Observes(s, id)' = Observes(s, id)
<1>1. ContractInv /\ Next => Isolated
  <2>. SUFFICES ASSUME ContractInv, Next, ~UNCHANGED tables, NEW s \in Subjects,
                       ~\E h \in Handlers : pc[h] # "idle" /\ pc'[h] # pc[h] /\ req[h].sub = s
                PROVE  LeavesAlone(s)
    BY OthersSeeNothing
  <2>1. PICK h \in Handlers : pc[h] # "idle" /\ pc'[h] # pc[h] /\ Effect(req[h].sub)
    BY StepEffect
  <2>. QED BY <2>1, EffectIsolates DEF ContractInv, PgInv
<1>2. ContractInv /\ [Next]_vars => [Isolated]_vars
  BY <1>1
<1>. QED BY <1>2, ContractInvCorrect, PTL DEF Spec, SubjectsAreIsolated
-----------------------------------------------------------------------------
(***************************************************************************)
(* The contract.  Each effect is a call of TenantStore, for Threads, Posts *)
(* and OwnRatings.                                                         *)
(***************************************************************************)
(* The empty database is the empty store of the contract.                  *)
LEMMA ContractInit == Init => Tenant!TenantInit
<1>. SUFFICES ASSUME Init PROVE Tenant!TenantInit
  OBVIOUS
<1>1. Threads = Tenant!EmptyTable
  BY DEF Init, EmptyTable, Threads, Tenant!EmptyTable
<1>2. Posts = Tenant!EmptyTable
  BY DEF Init, EmptyTable, Posts, Tenant!EmptyTable
<1>3. OwnRatings = Tenant!EmptyTable
  BY DEF Init, EmptyTable, OwnRatings, Rated, Tenant!EmptyTable
<1>. QED BY <1>1, <1>2, <1>3 DEF Tenant!TenantInit

(* What is not committed is not seen.                                      *)
LEMMA QuietContract == ASSUME UNCHANGED tables PROVE UNCHANGED Tenant!tenantVars
<1>1. Threads' = Threads
  BY DEF tables, Threads
<1>2. Posts' = Posts
  BY DEF tables, Posts
<1>3. Rated' = Rated
  BY DEF tables, Rated
<1>4. OwnRatings' = OwnRatings
  BY <1>3 DEF tables, OwnRatings
<1>. QED BY <1>1, <1>2, <1>4 DEF Tenant!tenantVars

LEMMA PostsSame == ASSUME UNCHANGED messages PROVE Posts' = Posts
BY DEF Posts

LEMMA RatingsSame == ASSUME UNCHANGED <<messages, feedback>> PROVE OwnRatings' = OwnRatings
<1>1. Rated' = Rated
  BY DEF Rated
<1>. QED BY <1>1 DEF OwnRatings

(* Messages that are new are not rated.                                    *)
LEMMA NewPostsUnrated ==
  ASSUME RowsBelongTogether, UNCHANGED feedback, NEW rows, messages' = Overlay(rows, messages),
         \A m \in DOMAIN rows : m \notin DOMAIN messages
  PROVE  OwnRatings' = OwnRatings
<1>1. /\ DOMAIN messages' = DOMAIN rows \cup DOMAIN messages
      /\ \A m \in DOMAIN messages : messages'[m] = messages[m]
  BY DEF Overlay
<1>2. \A m, x : <<m, x>> \in DOMAIN feedback => m \in DOMAIN messages
  BY DEF RowsBelongTogether
<1>3. Rated' = Rated
  BY <1>1, <1>2 DEF Rated
<1>. QED BY <1>1, <1>3 DEF OwnRatings, Rated

LEMMA InsertContract ==
  ASSUME NEW s, NEW c, NEW row, Inserted(s, c, row) PROVE Tenant!Serve(s)
<1>1. Posts' = Posts /\ OwnRatings' = OwnRatings
  BY PostsSame, RatingsSame DEF Inserted
<1>2. PICK t \in Titles : t = row.title
  BY DEF Inserted
<1>3. c \notin DOMAIN Threads
  BY DEF Inserted, Threads
<1>4. Threads' = Tenant!Put(Threads, c, [sub |-> s, title |-> t])
  BY <1>2 DEF Inserted, Put, Threads, Tenant!Put
<1>5. c \in Tenant!NewThreads
  BY <1>3, <1>4 DEF Tenant!NewThreads, Tenant!Put
<1>6. Tenant!NewThread(s, c, t)
  BY <1>1, <1>3, <1>4 DEF Tenant!NewThread
<1>. QED BY <1>5, <1>6 DEF Tenant!Serve

LEMMA RenameContract ==
  ASSUME NEW s, NEW c, NEW row, Renamed(s, c, row) PROVE Tenant!Serve(s)
<1>1. Posts' = Posts /\ OwnRatings' = OwnRatings
  BY PostsSame, RatingsSame DEF Renamed
<1>2. PICK t \in Titles : t = row.title
  BY DEF Renamed
<1>3. c \in DOMAIN Threads /\ Tenant!OwnsThread(s, c)
  BY DEF Renamed, OwnsConversation, Threads, Tenant!OwnsThread
<1>4. Threads' = Tenant!Put(Threads, c, [sub |-> s, title |-> t])
  BY <1>2 DEF Renamed, Put, Threads, Tenant!Put
<1>5. Tenant!RenameThread(s, c, t)
  BY <1>1, <1>3, <1>4 DEF Tenant!RenameThread
<1>. QED BY <1>3, <1>5 DEF Tenant!Serve

LEMMA DeleteContract ==
  ASSUME NEW s, NEW c, Deleted(s, c) PROVE Tenant!Serve(s)
<1>1. c \in DOMAIN Threads /\ Tenant!OwnsThread(s, c)
  BY DEF Deleted, OwnsConversation, Threads, Tenant!OwnsThread
<1>2. Threads' = Tenant!Without(Threads, {c})
  BY DEF Deleted, Without, Restrict, Threads, Tenant!Without, Tenant!Restrict
<1>3. Tenant!PostsOf(c) = MessagesOf(c)
  BY DEF Tenant!PostsOf, Posts, MessagesOf
<1>4. /\ DOMAIN messages' = DOMAIN messages \ MessagesOf(c)
      /\ \A m \in DOMAIN messages' : messages'[m] = messages[m]
  BY DEF Deleted, Without, Restrict
<1>5. Posts' = Tenant!Without(Posts, Tenant!PostsOf(c))
  BY <1>3, <1>4 DEF Posts, Tenant!Without, Tenant!Restrict
<1>6. /\ \A m, x : <<m, x>> \in DOMAIN feedback' <=>
                      <<m, x>> \in DOMAIN feedback /\ m \notin MessagesOf(c)
      /\ \A k \in DOMAIN feedback' : feedback'[k] = feedback[k]
  BY DEF Deleted, Without, Restrict
<1>7. Rated' = Rated \ MessagesOf(c)
  BY <1>4, <1>6 DEF Rated
<1>8. \A m \in Rated' : OwnRatings'[m] = OwnRatings[m]
  BY <1>4, <1>6, <1>7 DEF OwnRatings, Rated
<1>9. OwnRatings' = Tenant!Without(OwnRatings, Tenant!PostsOf(c))
  BY <1>3, <1>7, <1>8 DEF OwnRatings, Tenant!Without, Tenant!Restrict
<1>10. Tenant!DeleteThread(s, c)
  BY <1>1, <1>2, <1>5, <1>9 DEF Tenant!DeleteThread
<1>. QED BY <1>1, <1>10 DEF Tenant!Serve

LEMMA AppendContract ==
  ASSUME RowsBelongTogether, NEW s, NEW c, NEW row, NEW m, NEW msg, AppendedTo(s, c, row, m, msg)
  PROVE  Tenant!Serve(s)
<1>1. c \in DOMAIN Threads /\ Tenant!OwnsThread(s, c) /\ m \notin DOMAIN Posts
  BY DEF AppendedTo, OwnsConversation, Threads, Posts, Tenant!OwnsThread
<1>2. Threads' = Threads
  BY DEF AppendedTo, OwnsConversation, Put, Threads
<1>3. PICK x \in Nat, place \in Times : x = msg.content /\ place = msg.createdAt
  BY DEF AppendedTo
<1>4. Posts' = Tenant!Put(Posts, m, [thread |-> c, content |-> x, place |-> place])
  BY <1>3 DEF AppendedTo, Put, Posts, Tenant!Put
<1>5. OwnRatings' = OwnRatings
  <2>1. PICK rows : rows = Put(EmptyTable, m, msg)
    OBVIOUS
  <2>2. messages' = Overlay(rows, messages) /\ DOMAIN rows = {m}
    BY <2>1 DEF AppendedTo, Put, EmptyTable, Overlay
  <2>. QED BY <2>2, NewPostsUnrated DEF AppendedTo
<1>6. Tenant!AppendPost(s, c, m, x, place)
  BY <1>1, <1>2, <1>4, <1>5 DEF Tenant!AppendPost
<1>7. m \in Tenant!NewPosts /\ Posts'[m].content = x /\ Posts'[m].place = place
  BY <1>1, <1>4 DEF Tenant!NewPosts, Tenant!Put
<1>. QED BY <1>1, <1>6, <1>7 DEF Tenant!Serve

LEMMA RateContract ==
  ASSUME RowsBelongTogether, NEW s, NEW m, NEW r, RatedBy(s, m, r) PROVE Tenant!Serve(s)
<1>1. Threads' = Threads /\ Posts' = Posts
  BY DEF RatedBy, Threads, Posts
<1>2. m \in DOMAIN messages /\ messages[m].sub = s /\ r \in Ratings
  BY DEF RatedBy, OwnsMessage
<1>3. m \in DOMAIN Posts /\ Tenant!OwnsPost(s, m)
  BY <1>2 DEF RowsBelongTogether, Threads, Posts, Tenant!OwnsPost, Tenant!OwnsThread
<1>4. /\ DOMAIN feedback' = DOMAIN feedback \cup {<<m, s>>}
      /\ \A k \in DOMAIN feedback' : feedback'[k] = IF k = <<m, s>> THEN r ELSE feedback[k]
      /\ UNCHANGED messages
  BY DEF RatedBy, Put
<1>5. \A k : <<k, messages[k].sub>> = <<m, s>> <=> k = m
  BY <1>2
<1>6. Rated' = Rated \cup {m}
  BY <1>2, <1>4, <1>5 DEF Rated
<1>7. \A k \in Rated' : OwnRatings'[k] = IF k = m THEN r ELSE OwnRatings[k]
  BY <1>4, <1>5, <1>6 DEF OwnRatings, Rated
<1>8. OwnRatings' = Tenant!Put(OwnRatings, m, r)
  BY <1>6, <1>7 DEF OwnRatings, Tenant!Put
<1>9. Tenant!RatePost(s, m, r)
  BY <1>1, <1>3, <1>8 DEF Tenant!RatePost
<1>. QED BY <1>2, <1>3, <1>9 DEF Tenant!Serve

(* A branch is one of the contract, unless its source has been deleted,    *)
(* renamed or given an earlier message since it was found.                 *)
LEMMA BranchContract ==
  ASSUME RowsBelongTogether,
         NEW s, NEW b, NEW row, NEW rows, NEW asked,
         Branched(s, b, row, rows, asked)
  PROVE  b \in Tenant!NewThreads /\ (Tenant!Serve(s) \/ Overtaken(s, b))
<1>1. PICK found, src, named : found = promised[b] /\ src = found.source /\ named = found.at
  OBVIOUS
<1>2. /\ b \notin DOMAIN conversations /\ b \in DOMAIN promised /\ asked \in Titles
      /\ row.sub = s /\ row.title = BranchTitle(asked, found.title)
      /\ conversations' = Put(conversations, b, row) /\ messages' = Overlay(rows, messages)
      /\ \A x \in DOMAIN rows : x \notin DOMAIN messages /\ rows[x].conv = b
  BY <1>1 DEF Branched
<1>3. Threads' = Tenant!Put(Threads, b, [sub |-> s, title |-> row.title]) /\ b \notin DOMAIN Threads
  BY <1>2 DEF Put, Threads, Tenant!Put
<1>4. b \in Tenant!NewThreads
  BY <1>3 DEF Tenant!NewThreads, Tenant!Put
<1>5. OwnRatings' = OwnRatings
  BY <1>2, NewPostsUnrated DEF Branched
<1>6. /\ DOMAIN messages' = DOMAIN rows \cup DOMAIN messages
      /\ \A x \in DOMAIN messages' :
           messages'[x] = IF x \in DOMAIN rows THEN rows[x] ELSE messages[x]
  BY <1>2 DEF Overlay
<1>7. Tenant!NewPosts = DOMAIN rows
  BY <1>2, <1>6 DEF Tenant!NewPosts, Posts
<1>8. CASE src \notin DOMAIN conversations
  <2>1. Threads = Tenant!Without(Threads', {b})
    BY <1>3 DEF Threads, Tenant!Put, Tenant!Without, Tenant!Restrict
  <2>2. Tenant!PostsOf(b)' = DOMAIN rows
    <3>1. /\ DOMAIN Posts' = DOMAIN messages'
          /\ \A x \in DOMAIN messages' : Posts'[x].thread = messages'[x].conv
      BY DEF Posts
    <3>2. \A x \in DOMAIN messages : messages[x].conv # b
      BY <1>2 DEF RowsBelongTogether
    <3>3. \A x \in DOMAIN messages' : messages'[x].conv = b <=> x \in DOMAIN rows
      BY <1>2, <1>6, <3>2
    <3>. QED BY <1>6, <3>1, <3>3 DEF Tenant!PostsOf
  <2>3. Posts = Tenant!Without(Posts', Tenant!PostsOf(b)')
    BY <1>2, <1>6, <2>2 DEF Posts, Tenant!Without, Tenant!Restrict
  <2>4. b \in DOMAIN Threads' /\ Threads'[b].sub = s
    BY <1>3 DEF Tenant!Put
  <2>5. Tenant!OrphanBranch(s, b)
    BY <1>3, <1>5, <2>1, <2>3, <2>4 DEF Tenant!OrphanBranch
  <2>. QED BY <1>1, <1>2, <1>4, <1>8, <2>5 DEF Overtaken
<1>9. CASE src \in DOMAIN conversations
  <2>1. /\ conversations[src].sub = s
        /\ named \in MessagesOf(src) /\ found.cut = messages[named].createdAt
        /\ FaithfulCopy(rows, src, named, found.due)
    BY <1>1, <1>9 DEF Branched, SourceThere, OwnsConversation
  <2>1a. PICK time \in Times :
          \E of \in [DOMAIN rows -> MessagesOf(src)] :
            /\ \A x \in DOMAIN rows :
                 /\ rows[x].content = messages[of[x]].content /\ rows[x].createdAt = time
                 /\ messages[of[x]].createdAt <= messages[named].createdAt
            /\ \A x, y \in DOMAIN rows : of[x] = of[y] => x = y
            /\ \A p \in found.due \cup {named} : \E x \in DOMAIN rows : of[x] = p
    BY <2>1 DEF FaithfulCopy
  <2>2. PICK of \in [DOMAIN rows -> MessagesOf(src)] :
          /\ \A x \in DOMAIN rows :
               /\ rows[x].content = messages[of[x]].content /\ rows[x].createdAt = time
               /\ messages[of[x]].createdAt <= messages[named].createdAt
          /\ \A x, y \in DOMAIN rows : of[x] = of[y] => x = y
          /\ \A p \in found.due \cup {named} : \E x \in DOMAIN rows : of[x] = p
    BY <2>1a
  <2>3. /\ Tenant!PostsOf(src) = MessagesOf(src)
        /\ \A m \in MessagesOf(src) :
             m \in DOMAIN Posts /\ Posts[m].thread = src /\ Posts[m].place = messages[m].createdAt
    BY DEF Tenant!PostsOf, Posts, MessagesOf
  <2>4. named \in MessagesOf(src)
    BY <2>1
  <2>5. Tenant!OwnsPost(s, named)
    BY <1>9, <2>1, <2>3, <2>4 DEF Tenant!OwnsPost, Tenant!OwnsThread, Threads
  <2> DEFINE at == Tenant!NewPlaces
  <2>5a. /\ DOMAIN at = DOMAIN rows /\ at \in [Tenant!NewPosts -> Times]
         /\ \A x \in DOMAIN rows : at[x] = time
    <3>1. \A x \in DOMAIN rows : Posts'[x].place = time
      BY <1>6, <2>2 DEF Posts
    <3>. QED BY <1>7, <3>1 DEF Tenant!NewPlaces
  <2>. HIDE DEF at
  <2>6. Posts' = Tenant!Overlay(
           [x \in DOMAIN of |->
              [thread |-> b, content |-> Posts[of[x]].content, place |-> at[x]]], Posts)
    <3>1. \A x \in DOMAIN rows : Posts[of[x]].content = rows[x].content
      BY <2>2 DEF Posts, MessagesOf
    <3>2. \A x \in DOMAIN rows :
            Posts'[x] = [thread |-> b, content |-> rows[x].content, place |-> at[x]]
      BY <1>2, <1>6, <2>2, <2>5a DEF Posts
    <3>3. \A x \in DOMAIN messages : Posts'[x] = Posts[x]
      BY <1>2, <1>6 DEF Posts
    <3>4. /\ DOMAIN Posts = DOMAIN messages /\ DOMAIN Posts' = DOMAIN messages'
          /\ Posts' = [x \in DOMAIN Posts' |-> Posts'[x]] /\ DOMAIN of = DOMAIN rows
      BY <2>2 DEF Posts
    <3>. QED BY <1>6, <3>1, <3>2, <3>3, <3>4 DEF Tenant!Overlay
  <2>7. DOMAIN of = DOMAIN rows /\ DOMAIN of \cap DOMAIN Posts = {}
    BY <1>2, <2>2 DEF Posts
  <2>8. ASSUME NEW D, D \subseteq found.due PROVE Tenant!CopyThread(s, named, b, row.title, of, at, D)
    <3>1. \A x \in DOMAIN of : of[x] \in MessagesOf(src)
      BY <2>2
    <3>2. \A x \in DOMAIN of : Posts[of[x]].place <= Posts[named].place
      BY <2>2, <2>3, <2>4, <2>7
    <3>3. time \in Int
      BY WorkloadAssumption
    <3>4. \A x, y \in DOMAIN of : at[x] <= at[y]
      BY <2>5a, <2>7, <3>3
    <3>5. \A p \in D \cup {named} : \E x \in DOMAIN of : of[x] = p
      BY <2>2, <2>7, <2>8
    <3>6. \A x, y \in DOMAIN of : of[x] = of[y] => x = y
      BY <2>2, <2>7
    <3>. QED BY <1>3, <1>5, <2>3, <2>4, <2>5, <2>6, <2>7, <3>1, <3>2, <3>4, <3>5, <3>6
             DEF Tenant!CopyThread
  <2>9. of \in [Tenant!NewPosts -> MessagesOf(src)]
    BY <1>7, <2>2
  <2>10. \A a, title : Tenant!BranchTitle(a, title) = BranchTitle(a, title)
    BY DEF BranchTitle, NoTitle, Suffix, Tenant!BranchTitle, Tenant!NoTitle, Tenant!Suffix
  <2> DEFINE late == {x \in MessagesOf(src) \ found.due : messages[x].createdAt < found.cut}
  <2>11. CASE conversations[src].title = found.title /\ late = {}
    <3>1. Threads[src].title = found.title
      BY <1>9, <2>11 DEF Threads
    <3>2. Tenant!Before(named) \subseteq found.due
      <4>1. \A x \in Tenant!Before(named) : x \in MessagesOf(src) /\ messages[x].createdAt < found.cut
        BY <2>1, <2>3, <2>4 DEF Tenant!Before
      <4>. QED BY <2>11, <4>1
    <3>3. Tenant!CopyThread(s, named, b, row.title, of, at, Tenant!Before(named))
      BY <2>8, <3>2
    <3>4. Tenant!BranchThread(s, named, b, asked, of, at)
      BY <1>2, <2>3, <2>4, <2>10, <3>1, <3>3 DEF Tenant!BranchThread
    <3>. QED BY <1>2, <1>4, <2>3, <2>4, <2>5a, <2>9, <3>4 DEF Tenant!Serve, at
  <2>12. CASE conversations[src].title # found.title \/ late # {}
    <3>1. Tenant!CopyThread(s, named, b, BranchTitle(asked, found.title), of, at, found.due)
      BY <1>2, <2>8
    <3>. QED BY <1>1, <1>2, <1>4, <1>9, <2>9, <2>12, <3>1 DEF Overtaken, at
  <2>. QED BY <2>11, <2>12
<1>. QED BY <1>8, <1>9

LEMMA EffectContract ==
  ASSUME RowsBelongTogether, NEW s, Effect(s)
  PROVE  Tenant!Serve(s) \/ \E b \in Tenant!NewThreads : Overtaken(s, b)
<1>1. CASE \/ \E c, row : Inserted(s, c, row) \/ Renamed(s, c, row)
           \/ \E c : Deleted(s, c)
  BY <1>1, InsertContract, RenameContract, DeleteContract
<1>2. CASE \/ \E c, row, m, msg : AppendedTo(s, c, row, m, msg)
           \/ \E m, r : RatedBy(s, m, r)
  BY <1>2, AppendContract, RateContract
<1>3. CASE \E b, row, rows, asked : Branched(s, b, row, rows, asked)
  BY <1>3, BranchContract
<1>. QED BY <1>1, <1>2, <1>3 DEF Effect

(* The Postgres store keeps the contract of store.Store although its calls *)
(* are several statements: every commit is one call of the contract, of    *)
(* the subject it is served to, or the commit of a branch whose source was *)
(* deleted, renamed or given an earlier message after it was found.        *)
THEOREM ContractCorrect == Spec => KeepsContract
<1> DEFINE Kept == \/ Tenant!TenantNext
                   \/ \E s \in Subjects, b \in Tenant!NewThreads : Overtaken(s, b)
<1>1. ContractInv /\ [Next]_vars => [Kept]_(Tenant!tenantVars)
  <2>. SUFFICES ASSUME ContractInv, [Next]_vars PROVE Kept \/ UNCHANGED Tenant!tenantVars
    OBVIOUS
  <2>1. CASE UNCHANGED tables
    BY <2>1, QuietContract
  <2>2. CASE Next /\ ~UNCHANGED tables
    <3>1. PICK h \in Handlers : pc[h] # "idle" /\ Effect(req[h].sub)
      BY <2>2, StepEffect
    <3>2. PICK s \in Subjects : s = req[h].sub
      BY <3>1, Serving DEF ContractInv
    <3>. QED BY <3>1, <3>2, EffectContract DEF ContractInv, PgInv, Tenant!TenantNext
  <2>. QED BY <2>1, <2>2 DEF vars, tables
<1>. QED BY <1>1, ContractInit, ContractInvCorrect, PTL DEF Spec, KeepsContract
=============================================================================
