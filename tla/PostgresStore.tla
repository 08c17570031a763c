---------------------------- MODULE PostgresStore ----------------------------
(***************************************************************************)
(* PostgresStore of internal/store/postgres.go: the handlers of the HTTP   *)
(* server share a pgxpool and run SQL on one Postgres database at its      *)
(* default isolation level, READ COMMITTED.                                *)
(*                                                                         *)
(* One action is one SQL statement (or COMMIT).  A statement sees what was *)
(* committed when it starts, plus the writes of its own transaction; what  *)
(* other transactions have written and not committed is in tx[h] and       *)
(* invisible.  Between two statements of one method every other handler    *)
(* may run.  A method outside a transaction takes a connection from the    *)
(* pool for each statement; a transaction keeps one until it ends.         *)
(*                                                                         *)
(* time.Now().UTC() is the wall clock of whichever process runs the        *)
(* handler, and UTC() drops the monotonic reading: of two readings the     *)
(* later one may well be the smaller.  So a reading is any time, taken in  *)
(* the step that stores it.                                                *)
(*                                                                         *)
(* Row locks.  INSERT INTO messages takes FOR KEY SHARE on the referenced  *)
(* conversation (foreign key), UPDATE takes FOR NO KEY UPDATE, DELETE      *)
(* takes FOR UPDATE; the second waits for itself, the third for all.  Only *)
(* AppendMessage holds such locks across statements, so they are read off  *)
(* tx.  The cascade of a DELETE is part of its statement.                  *)
(*                                                                         *)
(* The database itself is external: it is modelled from the SQL and the    *)
(* schema (schemaSQL) in the file.  Abstracted: the creation time of       *)
(* conversations and feedback and the comment of a feedback row.  The      *)
(* content of an appended message is the id it got, so that every append   *)
(* has a content of its own and a copy can be told from its original.      *)
(***************************************************************************)
EXTENDS StoreCommon, Integers, FiniteSets, SequencesExt

CONSTANTS
  Subjects,     \* JWT subjects
  Words,        \* what titles are made of
  Titles,       \* titles a caller may send
  Handlers,     \* concurrent HTTP handlers
  Ops,          \* the calls clients make in this instance
  Times,        \* what the clock may read
  PoolSize,     \* pgxpool MaxConns
  MaxRequests   \* bound: requests that are started

AllOps == {"create", "rename", "delete", "append", "list", "rate", "branch"}

ASSUME WorkloadAssumption ==
  /\ Ops \subseteq AllOps
  /\ Titles \subseteq TitlesOver(Words) /\ NoTitle \in Titles
  /\ Times \subseteq Int
  /\ PoolSize \in Nat \ {0}
  /\ MaxRequests \in Nat

VARIABLES
  conversations,  \* rows: id -> [sub, title, updatedAt]
  messages,       \* rows: id -> [conv, sub, content, createdAt]
  feedback,       \* rows: <<message id, sub>> -> rating
  nextId,         \* the next uuid
  pc,             \* handler -> the statement it runs next, or "idle"
  req,            \* handler -> the call it serves or served last
  conns,          \* connections handed out: <<handler, what it uses it for>>
  tx,             \* handler -> rows its transaction has written
  reply,          \* handler -> what its last call returned
  promised,       \* history: branch id -> what it should hold
  started         \* bound: requests started so far

tables  == <<conversations, messages, feedback>>
session == <<pc, req, conns, tx, reply, started>>
vars    == <<tables, nextId, session, promised>>

Ratings == {"good", "bad"}
NoRequest == [op |-> "none"]
NoTx    == [conversations |-> EmptyTable, messages |-> EmptyTable]
NoReply == [err |-> "none"]
Failed  == [err |-> "other"]   \* any error that mapPgErr passes on

FirstStatement ==
  [create |-> "insertConversation", rename |-> "updateTitle",
   delete |-> "deleteConversation", append |-> "checkOwner",
   list   |-> "checkListed",        rate   |-> "checkMessage",
   branch |-> "findSource"]

Statements == {FirstStatement[op] : op \in AllOps} \cup
  {"readBack", "insertMessage", "touchConversation", "commitAppend",
   "selectMessages", "upsertFeedback", "copyMessages", "commitBranch"}

(* The statements of the two methods that open a transaction.              *)
TransactionStatements ==
  {"checkOwner", "insertMessage", "touchConversation", "commitAppend",
   "findSource", "copyMessages", "commitBranch"}
-----------------------------------------------------------------------------
(* The database.                                                           *)
(*                                                                         *)
(* A definition named Bug... is what the one after it would be with a      *)
(* plausible slip; the runs' properties have to tell them apart.           *)

(* WHERE id = $1 AND sub = $2                                              *)
BugOwnsAny(s, c) == c \in DOMAIN conversations   \* WHERE id = $1
OwnsConversation(s, c) == c \in DOMAIN conversations /\ conversations[c].sub = s
OwnsMessage(s, m) == m \in DOMAIN messages /\ messages[m].sub = s

MessagesOf(c) == {m \in DOMAIN messages : messages[m].conv = c}

(* ON DELETE CASCADE                                                       *)
BugNoCascade(c) == {}   \* no such clause, and no foreign key
Cascade(c) == MessagesOf(c)

(* ORDER BY created_at ASC: rows with equal times come in any order.       *)
InTimeOrder(S) ==
  {q \in SetToSeqs(S) :
     \A i, j \in DOMAIN q : i < j => messages[q[i]].createdAt <= messages[q[j]].createdAt}

(* The other handlers whose transaction holds a row lock on conversation   *)
(* c: the key share of an INSERT, the lock of an UPDATE.                   *)
KeySharers(h, c) ==
  {g \in Handlers \ {h} : \E m \in DOMAIN tx[g].messages : tx[g].messages[m].conv = c}

BugUpdaters(h, c) ==   \* locks the key, too: waits for key shares
  {g \in Handlers \ {h} : c \in DOMAIN tx[g].conversations} \cup KeySharers(h, c)
Updaters(h, c) == {g \in Handlers \ {h} : c \in DOMAIN tx[g].conversations}

(* uuid.NewString(), n times.                                              *)
BugMintsOnce(n) == nextId' = nextId   \* made once and used again
MintIds(n) == nextId' = nextId + n
-----------------------------------------------------------------------------
(* The handlers and the pool.                                              *)

Init ==
  /\ conversations = EmptyTable /\ messages = EmptyTable /\ feedback = EmptyTable
  /\ nextId = 1
  /\ pc = [h \in Handlers |-> "idle"]
  /\ req = [h \in Handlers |-> NoRequest]
  /\ conns = {}
  /\ tx = [h \in Handlers |-> NoTx]
  /\ reply = [h \in Handlers |-> NoReply]
  /\ promised = EmptyTable
  /\ started = 0

(* A request reaches the store.  Its id is one that was minted before, as  *)
(* a conversation or as a message; only some calls carry a title.          *)
Begin(h) ==
  /\ pc[h] = "idle"
  /\ started < MaxRequests
  /\ \E op \in Ops, s \in Subjects, id \in 0 .. nextId - 1, t \in Titles :
       /\ (op = "create") <=> (id = 0)
       /\ op \notin {"create", "rename", "branch"} => t = NoTitle
       /\ req' = [req EXCEPT ![h] = [op |-> op, sub |-> s, id |-> id, title |-> t]]
       /\ pc' = [pc EXCEPT ![h] = FirstStatement[op]]
  /\ reply' = [reply EXCEPT ![h] = NoReply]
  /\ started' = started + 1
  /\ UNCHANGED <<tables, nextId, conns, tx, promised>>

(* What h needs a connection for: tx.Exec and tx.QueryRow run on the one   *)
(* of the transaction, s.pool.Exec, Query and QueryRow on one of their own *)
(* for the statement.                                                      *)
BugUsesTx(statement) ==   \* s.pool.Exec for tx.Exec of the UPDATE
  statement \in TransactionStatements \ {"touchConversation"}
UsesTx(statement) == statement \in TransactionStatements

ConnOf(h) == {<<h, "tx">>, <<h, "statement">>}
ConnFor(h) == <<h, IF UsesTx(pc[h]) THEN "tx" ELSE "statement">>

(* pool.Acquire, inside Exec, Query, QueryRow and BeginTx.                 *)
Acquire(h) ==
  /\ pc[h] # "idle" /\ ConnFor(h) \notin conns
  /\ Cardinality(conns) < PoolSize
  /\ conns' = conns \cup {ConnFor(h)}
  /\ UNCHANGED <<tables, nextId, pc, req, tx, reply, promised, started>>

Runs(h, statement) == pc[h] = statement /\ ConnFor(h) \in conns

(* The next statement of the same method.  A connection that was taken for *)
(* the statement before goes back, the one of a transaction is kept.       *)
GoOn(h, statement) ==
  /\ pc' = [pc EXCEPT ![h] = statement]
  /\ conns' = conns \ {<<h, "statement">>}
  /\ UNCHANGED <<req, reply, started>>

(* The method returns one of the answers: its connection goes back and a   *)
(* transaction that has not committed is rolled back (defer tx.Rollback).  *)
BugReturnKeepsConnection(h, answers) ==   \* no defer, and no Rollback
  /\ pc' = [pc EXCEPT ![h] = "idle"]
  /\ conns' = conns \ {<<h, "statement">>}
  /\ tx' = [tx EXCEPT ![h] = NoTx]
  /\ \E a \in answers : reply' = [reply EXCEPT ![h] = a]
  /\ UNCHANGED <<req, started>>

Return(h, answers) ==
  /\ pc' = [pc EXCEPT ![h] = "idle"]
  /\ conns' = conns \ ConnOf(h)
  /\ tx' = [tx EXCEPT ![h] = NoTx]
  /\ \E a \in answers : reply' = [reply EXCEPT ![h] = a]
  /\ UNCHANGED <<req, started>>

(* A statement that wrote has been applied when its answer is lost.        *)
Applied(value) == {Ok(value), Failed}

(* The request context ends (client gone, connection lost) or a statement  *)
(* fails: the method returns an error and its transaction has no effect.   *)
Cancel(h) ==
  /\ pc[h] # "idle"
  /\ Return(h, {Failed})
  /\ UNCHANGED <<tables, nextId, promised>>
-----------------------------------------------------------------------------
(* CreateConversation.                                                     *)
InsertConversation(h) ==
  /\ Runs(h, "insertConversation")
  /\ MintIds(1)
  /\ \E now \in Times :
       conversations' = Put(conversations, nextId,
         [sub |-> req[h].sub, title |-> req[h].title, updatedAt |-> now])
  /\ Return(h, Applied(nextId))
  /\ UNCHANGED <<messages, feedback, promised>>

(* RenameConversation: UPDATE, then GetConversation in a statement of its  *)
(* own.  The answer is the title that one reads.                           *)
UpdateTitle(h) ==
  LET c == req[h].id IN
  /\ Runs(h, "updateTitle")
  /\ \/ /\ ~OwnsConversation(req[h].sub, c)
        /\ Return(h, {ErrNotFound})
        /\ UNCHANGED conversations
     \/ /\ OwnsConversation(req[h].sub, c)
        /\ Updaters(h, c) = {}
        /\ \E now \in Times :
             conversations' = Put(conversations, c, [conversations[c] EXCEPT
               !.title = req[h].title, !.updatedAt = now])
        /\ GoOn(h, "readBack")
        /\ UNCHANGED tx
  /\ UNCHANGED <<messages, feedback, nextId, promised>>

GetConversation(s, c) ==
  IF OwnsConversation(s, c) THEN Ok(conversations[c]) ELSE ErrNotFound

ReadBack(h) ==
  /\ Runs(h, "readBack")
  /\ Return(h, {GetConversation(req[h].sub, req[h].id)})
  /\ UNCHANGED <<tables, nextId, promised>>

(* DeleteConversation: messages go by ON DELETE CASCADE, and with them     *)
(* their feedback.                                                         *)
DeleteConversation(h) ==
  LET c == req[h].id IN
  /\ Runs(h, "deleteConversation")
  /\ \/ /\ ~OwnsConversation(req[h].sub, c)
        /\ Return(h, {ErrNotFound})
        /\ UNCHANGED tables
     \/ /\ OwnsConversation(req[h].sub, c)
        /\ KeySharers(h, c) = {} /\ Updaters(h, c) = {}
        /\ conversations' = Without(conversations, {c})
        /\ messages' = Without(messages, Cascade(c))
        /\ feedback' = Without(feedback, {k \in DOMAIN feedback : k[1] \in Cascade(c)})
        /\ Return(h, Applied(c))
  /\ UNCHANGED <<nextId, promised>>

(* AppendMessage, in a transaction: SELECT EXISTS, ...                     *)
CheckOwner(h) ==
  /\ Runs(h, "checkOwner")
  /\ \/ /\ OwnsConversation(req[h].sub, req[h].id)
        /\ GoOn(h, "insertMessage")
        /\ UNCHANGED tx
     \/ /\ ~OwnsConversation(req[h].sub, req[h].id)
        /\ Return(h, {ErrNotFound})
  /\ UNCHANGED <<tables, nextId, promised>>

(* ... INSERT, which the foreign key refuses when the conversation is gone *)
(* (23503, mapped to ErrNotFound), ...                                     *)
InsertMessage(h) ==
  LET c == req[h].id IN
  /\ Runs(h, "insertMessage")
  /\ MintIds(1)
  /\ \/ /\ c \in DOMAIN conversations
        /\ \E now \in Times :
             tx' = [tx EXCEPT ![h].messages = Put(EmptyTable, nextId,
               [conv |-> c, sub |-> req[h].sub, content |-> nextId, createdAt |-> now])]
        /\ GoOn(h, "touchConversation")
     \/ /\ c \notin DOMAIN conversations
        /\ Return(h, {ErrNotFound})
  /\ UNCHANGED <<tables, promised>>

(* ... UPDATE updated_at with the same time, ...                           *)
TouchConversation(h) ==
  LET c == req[h].id
      m == CHOOSE m \in DOMAIN tx[h].messages : TRUE
  IN
  /\ Runs(h, "touchConversation")
  /\ Updaters(h, c) = {}
  /\ tx' = [tx EXCEPT ![h].conversations = Put(EmptyTable, c,
       [conversations[c] EXCEPT !.updatedAt = tx[h].messages[m].createdAt])]
  /\ GoOn(h, "commitAppend")
  /\ UNCHANGED <<tables, nextId, promised>>

(* ... COMMIT.                                                             *)
CommitAppend(h) ==
  /\ Runs(h, "commitAppend")
  /\ conversations' = Overlay(tx[h].conversations, conversations)
  /\ messages' = Overlay(tx[h].messages, messages)
  /\ Return(h, Applied(CHOOSE m \in DOMAIN tx[h].messages : TRUE))
  /\ UNCHANGED <<feedback, nextId, promised>>

(* ListMessages: ownership first, then the rows.                           *)
CheckListed(h) ==
  /\ Runs(h, "checkListed")
  /\ \/ /\ OwnsConversation(req[h].sub, req[h].id)
        /\ GoOn(h, "selectMessages")
        /\ UNCHANGED tx
     \/ /\ ~OwnsConversation(req[h].sub, req[h].id)
        /\ Return(h, {ErrNotFound})
  /\ UNCHANGED <<tables, nextId, promised>>

SelectMessages(h) ==
  /\ Runs(h, "selectMessages")
  /\ Return(h, {Ok(q) : q \in InTimeOrder(
       {m \in MessagesOf(req[h].id) : messages[m].sub = req[h].sub})})
  /\ UNCHANGED <<tables, nextId, promised>>

(* UpsertFeedback: ownership of the message first, then INSERT ... ON      *)
(* CONFLICT DO UPDATE, which the foreign key refuses when the message is   *)
(* gone.                                                                   *)
CheckMessage(h) ==
  /\ Runs(h, "checkMessage")
  /\ \/ /\ OwnsMessage(req[h].sub, req[h].id)
        /\ GoOn(h, "upsertFeedback")
        /\ UNCHANGED tx
     \/ /\ ~OwnsMessage(req[h].sub, req[h].id)
        /\ Return(h, {ErrNotFound})
  /\ UNCHANGED <<tables, nextId, promised>>

UpsertFeedback(h) ==
  LET m == req[h].id IN
  /\ Runs(h, "upsertFeedback")
  /\ \/ /\ m \in DOMAIN messages
        /\ \E r \in Ratings : feedback' = Put(feedback, <<m, req[h].sub>>, r)
        /\ Return(h, Applied(m))
     \/ /\ m \notin DOMAIN messages
        /\ Return(h, {ErrNotFound})
        /\ UNCHANGED feedback
  /\ UNCHANGED <<conversations, messages, nextId, promised>>

(* BranchFromMessage, in a transaction: the source is found through the    *)
(* message, ...  What the branch should hold is noted: the messages of the *)
(* source up to the named one by created_at, of equal times those with ids *)
(* up to its own.                                                          *)
UpTo(m) ==
  {x \in MessagesOf(messages[m].conv) :
     \/ messages[x].createdAt < messages[m].createdAt
     \/ messages[x].createdAt = messages[m].createdAt /\ x <= m}

FindSource(h) ==
  LET m == req[h].id
      c == messages[m].conv
      found == OwnsMessage(req[h].sub, m) /\ OwnsConversation(req[h].sub, c)
  IN
  /\ Runs(h, "findSource")
  /\ \/ /\ found
        /\ MintIds(1)
        /\ \E now \in Times :
             tx' = [tx EXCEPT ![h].conversations = Put(EmptyTable, nextId,
               [sub |-> req[h].sub, updatedAt |-> now,
                title |-> BranchTitle(req[h].title, conversations[c].title)])]
        /\ promised' = Put(promised, nextId,
             [source |-> c, title |-> conversations[c].title,
              at |-> m, cut |-> messages[m].createdAt,
              due |-> UpTo(m), contents |-> {messages[x].content : x \in UpTo(m)}])
        /\ GoOn(h, "copyMessages")
     \/ /\ ~found
        /\ Return(h, {ErrNotFound})
        /\ UNCHANGED <<nextId, promised>>
  /\ UNCHANGED tables

(* ... its rows up to the creation time of the message are read, and       *)
(* inserted under the new conversation with one shared time (the INSERTs   *)
(* touch nothing another transaction sees), ...                            *)
BugCopiedBefore(c, s, time) ==   \* created_at < $3
  {m \in MessagesOf(c) : messages[m].sub = s /\ messages[m].createdAt < time}

Copied(c, s, time) ==
  {m \in MessagesOf(c) : messages[m].sub = s /\ messages[m].createdAt <= time}

CopyMessages(h) ==
  LET dst == CHOOSE c \in DOMAIN tx[h].conversations : TRUE
      S == Copied(promised[dst].source, req[h].sub, promised[dst].cut)
  IN
  /\ Runs(h, "copyMessages")
  /\ MintIds(Cardinality(S))
  /\ \E q \in InTimeOrder(S) :
       tx' = [tx EXCEPT ![h].messages =
         [m \in nextId .. nextId + Len(q) - 1 |->
            [conv |-> dst, sub |-> req[h].sub,
             content |-> messages[q[m - nextId + 1]].content,
             createdAt |-> tx[h].conversations[dst].updatedAt]]]
  /\ GoOn(h, "commitBranch")
  /\ UNCHANGED <<tables, promised>>

(* ... COMMIT.                                                             *)
CommitBranch(h) ==
  /\ Runs(h, "commitBranch")
  /\ conversations' = Overlay(tx[h].conversations, conversations)
  /\ messages' = Overlay(tx[h].messages, messages)
  /\ Return(h, Applied(CHOOSE c \in DOMAIN tx[h].conversations : TRUE))
  /\ UNCHANGED <<feedback, nextId, promised>>
-----------------------------------------------------------------------------
Statement(h) ==
  \/ InsertConversation(h)
  \/ UpdateTitle(h) \/ ReadBack(h)
  \/ DeleteConversation(h)
  \/ CheckOwner(h) \/ InsertMessage(h) \/ TouchConversation(h) \/ CommitAppend(h)
  \/ CheckListed(h) \/ SelectMessages(h)
  \/ CheckMessage(h) \/ UpsertFeedback(h)
  \/ FindSource(h) \/ CopyMessages(h) \/ CommitBranch(h)

(* The workload of the instance is over.                                   *)
Quiescent ==
  /\ started = MaxRequests /\ \A h \in Handlers : pc[h] = "idle"
  /\ UNCHANGED vars

Next ==
  \/ \E h \in Handlers : Begin(h) \/ Acquire(h) \/ Statement(h) \/ Cancel(h)
  \/ Quiescent

(* The pool hands out a free connection to a waiting handler, and Postgres *)
(* runs a statement whose locks are free.  Requests and cancellations are  *)
(* up to the clients.                                                      *)
Fairness == \A h \in Handlers : WF_vars(Acquire(h)) /\ WF_vars(Statement(h))

Spec == Init /\ [][Next]_vars /\ Fairness
-----------------------------------------------------------------------------
(* Every variable holds values of its type; keys are ids already minted.   *)
Minted       == 1 .. nextId - 1
Conversation == [sub : Subjects, title : TitlesOver(Words), updatedAt : Times]
Message      == [conv : Minted, sub : Subjects, content : Minted, createdAt : Times]
Request      == [op : Ops, sub : Subjects, id : 0..nextId-1, title : Titles]

RowsOK(rows, Row) == DOMAIN rows \subseteq Minted /\ rows \in [DOMAIN rows -> Row]

TypeOK ==
  /\ RowsOK(conversations, Conversation)
  /\ RowsOK(messages, Message)
  /\ DOMAIN feedback \subseteq Minted \X Subjects
  /\ feedback \in [DOMAIN feedback -> Ratings]
  /\ pc \in [Handlers -> Statements \cup {"idle"}]
  /\ \A h \in Handlers :
       /\ req[h] \in Request \cup {NoRequest}
       /\ RowsOK(tx[h].conversations, Conversation)
       /\ RowsOK(tx[h].messages, Message)
       /\ reply[h].err \in {"none", "nil", "ErrNotFound", "other"}
  /\ conns \subseteq Handlers \X {"tx", "statement"}
  /\ DOMAIN promised \subseteq Minted
  /\ started \in 0 .. MaxRequests

(* No orphans: a message belongs to a conversation of the same subject and *)
(* feedback to a message of the same subject, whatever deletes, appends,   *)
(* ratings and branches overlap.  The foreign keys know nothing of sub:    *)
(* that it agrees rests on the check each method makes beforehand.         *)
RowsBelongTogether ==
  /\ \A m \in DOMAIN messages :
       /\ messages[m].conv \in DOMAIN conversations
       /\ messages[m].sub = conversations[messages[m].conv].sub
  /\ \A k \in DOMAIN feedback : k[1] \in DOMAIN messages /\ messages[k[1]].sub = k[2]

(* The handlers one of which h waits for: those that hold the connections  *)
(* (h among them, if it needs a second one), when there is none for it, or *)
(* a row lock its next statement needs.                                    *)
WaitsFor(h) ==
  LET c == req[h].id
      mine == OwnsConversation(req[h].sub, c)
  IN
  CASE pc[h] # "idle" /\ ConnFor(h) \notin conns ->
         IF Cardinality(conns) < PoolSize THEN {} ELSE {k[1] : k \in conns}
    [] Runs(h, "touchConversation")           -> Updaters(h, c)
    [] Runs(h, "updateTitle") /\ mine        -> Updaters(h, c)
    [] Runs(h, "deleteConversation") /\ mine -> Updaters(h, c) \cup KeySharers(h, c)
    [] OTHER -> {}

(* No handlers wait for each other in a circle, neither through the row    *)
(* locks, nor through the connections, nor through both: in every group of *)
(* handlers one waits for nobody of the group.                             *)
NoCircularWait ==
  \A S \in (SUBSET Handlers) \ {{}} : \E h \in S : WaitsFor(h) \cap S = {}

(* What a caller was told stays true: an appended message and a rating are *)
(* there for as long as what they hang on, and a deleted conversation is   *)
(* gone with its messages for good, even when an append to it was under    *)
(* way.                                                                    *)
AnswersStayTrue ==
  \A h \in Handlers :
    LET r == req[h] IN
    pc[h] = "idle" /\ reply[h].err = "nil" =>
      /\ r.op = "append" /\ r.id \in DOMAIN conversations =>
           reply[h].value \in MessagesOf(r.id)
      /\ r.op = "rate" /\ r.id \in DOMAIN messages => <<r.id, r.sub>> \in DOMAIN feedback
      /\ r.op = "delete" => r.id \notin DOMAIN conversations /\ MessagesOf(r.id) = {}

ContentsOf(c) == {messages[m].content : m \in MessagesOf(c)}

(* A branch holds every message of its source up to and including the one  *)
(* named, if the source is still there.                                    *)
BranchLosesNothing ==
  \A b \in DOMAIN promised \cap DOMAIN conversations :
    promised[b].source \in DOMAIN conversations => promised[b].contents \subseteq ContentsOf(b)

(* The queries of the read methods that are one statement.                 *)
ListConversations(s) ==
  LET mine == {c \in DOMAIN conversations : conversations[c].sub = s} IN
  {q \in SetToSeqs(mine) :
     \A i, j \in DOMAIN q :
       i < j => conversations[q[i]].updatedAt >= conversations[q[j]].updatedAt}

GetFeedback(s, m) ==
  IF <<m, s>> \in DOMAIN feedback THEN Ok(feedback[<<m, s>>]) ELSE ErrNotFound

(* What subject s can learn from the store: its list, and what it is told  *)
(* of a conversation or message id.                                        *)
Observes(s, id) ==
  [list     |-> ListConversations(s),
   row      |-> GetConversation(s, id),
   log      |-> IF OwnsConversation(s, id)
                THEN InTimeOrder({m \in MessagesOf(id) : messages[m].sub = s})
                ELSE {},
   feedback |-> GetFeedback(s, id)]

(* A step changes what a subject can observe only if it is the step of a   *)
(* handler that serves that subject.                                       *)
SubjectsAreIsolated ==
  [][\A s \in Subjects :
       \/ tables' = tables
       \/ \E h \in Handlers : pc[h] # "idle" /\ pc'[h] # pc[h] /\ req[h].sub = s
       \/ \A id \in 0 .. nextId - 1 : Observes(s, id)' = Observes(s, id)]_vars

(* The history of a conversation is added to and never rewritten: until it *)
(* is deleted it keeps its owner, its messages and their ratings.  (A new  *)
(* message need not come last: of two appends at once, the one that read   *)
(* the clock first may commit second, and the clock may be set back.)      *)
HistoryStays ==
  [][/\ \A c \in DOMAIN conversations \cap DOMAIN conversations' :
          conversations'[c].sub = conversations[c].sub
     /\ \A m \in DOMAIN messages :
          messages[m].conv \in DOMAIN conversations' =>
            m \in DOMAIN messages' /\ messages'[m] = messages[m]
     /\ \A k \in DOMAIN feedback : k[1] \in DOMAIN messages' => k \in DOMAIN feedback']_vars

(* Every request is answered, however few connections the pool has and     *)
(* whatever the other handlers do with theirs.                             *)
EveryRequestAnswered == \A h \in Handlers : pc[h] # "idle" ~> pc[h] = "idle"

(* The store as its caller knows it: what is committed.                    *)
Threads ==
  [c \in DOMAIN conversations |->
     [sub |-> conversations[c].sub, title |-> conversations[c].title]]

Posts ==
  [m \in DOMAIN messages |->
     [thread |-> messages[m].conv, content |-> messages[m].content,
      place |-> messages[m].createdAt]]

Rated == {m \in DOMAIN messages : <<m, messages[m].sub>> \in DOMAIN feedback}

OwnRatings == [m \in Rated |-> feedback[<<m, messages[m].sub>>]]

Tenant == INSTANCE TenantStore WITH
  Contents <- Nat, Places <- Times, threads <- Threads, posts <- Posts, ratings <- OwnRatings

(* A branch is committed as of the statement that found its source.  When  *)
(* the source has been deleted since, it is a conversation of its own.     *)
(* When the source has been renamed, or a message of an earlier time has   *)
(* come into it, the branch is called after the title that was found and   *)
(* holds the messages that were there.                                     *)
Overtaken(s, b) ==
  LET found == promised[b]
      late  == {x \in MessagesOf(found.source) \ found.due : messages[x].createdAt < found.cut}
  IN
  /\ b \in DOMAIN promised
  /\ \/ /\ found.source \notin DOMAIN conversations
        /\ Tenant!OrphanBranch(s, b)
     \/ /\ found.source \in DOMAIN conversations
        /\ conversations[found.source].title # found.title \/ late # {}
        /\ \E t \in Titles, of \in [Tenant!NewPosts -> MessagesOf(found.source)] :
             Tenant!CopyThread(s, found.at, b, BranchTitle(t, found.title), of,
                               Tenant!NewPlaces, found.due)

(* The store keeps the contract of store.Store although each call is       *)
(* several statements: whatever is read, checked and written when, what is *)
(* committed is one atomic call of one subject on its own rows.  The only  *)
(* exception is a branch whose source is deleted, renamed or given an      *)
(* earlier message under it.                                               *)
KeepsContract ==
  Tenant!TenantInit /\
  [][\/ Tenant!TenantNext
     \/ \E s \in Subjects, b \in Tenant!NewThreads : Overtaken(s, b)]_(Tenant!tenantVars)
-----------------------------------------------------------------------------
(* What the comments and tests of the repository say and the code does not *)
(* do.                                                                     *)

(* "copying every message from the source up to AND INCLUDING the named    *)
(* message" (store.go:95).  A branch holds no message after the named one, *)
(* if no two messages were appended at the same time.                      *)
Appended == {m \in DOMAIN messages : messages[m].content = m}

BranchStopsAtNamed ==
  (\A x, y \in Appended : messages[x].createdAt = messages[y].createdAt => x = y) =>
  \A b \in DOMAIN promised \cap DOMAIN conversations :
    \A m \in MessagesOf(b) \ Appended : messages[m].content \in promised[b].contents

(* "copying every message from the source up to AND INCLUDING the named    *)
(* message" (store.go:95), "in one tx to avoid partial branches"           *)
(* (postgres.go:266).  A branch holds all it was to hold.                  *)
BranchIsComplete ==
  \A b \in DOMAIN promised \cap DOMAIN conversations :
    promised[b].contents \subseteq ContentsOf(b)

(* "a single shared CreatedAt so they sort stably" (postgres.go:265).  The *)
(* rows of a branch come back in one order.                                *)
BranchSortsStably ==
  \A b \in DOMAIN promised \cap DOMAIN conversations :
    Cardinality(InTimeOrder(MessagesOf(b))) = 1
=============================================================================
