------------------------- MODULE PostgresStoreProofs -------------------------
(***************************************************************************)
(* Theorems about PostgresStore for any subjects, titles, handlers, pool   *)
(* size, times the clock may read and number of requests.                  *)
(***************************************************************************)
EXTENDS PostgresStore, FiniteSetTheorems, TLAPS

(***************************************************************************)
(* The inductive invariant: what a handler may rely on at each of its      *)
(* statements, though all the others run between them.                     *)
(***************************************************************************)
(* A conversation that no branch is still going to commit: if its id is    *)
(* not there, it never will be (again).  The same for messages.            *)
Settled(c) ==
  /\ c \in Minted
  /\ \A g \in Handlers : c \in DOMAIN tx[g].conversations => c \in DOMAIN conversations

SettledMessage(m) == m \in Minted /\ \A g \in Handlers : m \notin DOMAIN tx[g].messages

(* Ids that only the transaction of h knows of.                            *)
OnlyIn(h, c) ==
  c \notin DOMAIN conversations /\ \A g \in Handlers \ {h} : c \notin DOMAIN tx[g].conversations

RowsAreNew(h) ==
  \A m \in DOMAIN tx[h].messages :
    m \notin DOMAIN messages /\ \A g \in Handlers \ {h} : m \notin DOMAIN tx[g].messages

(* The conversation an append has locked.                                  *)
Locked(h) ==
  /\ req[h].id \in DOMAIN conversations
  /\ conversations[req[h].id].sub = req[h].sub

(* Between two calls.                                                      *)
Told(h) ==
  LET r == req[h] IN
  reply[h].err = "nil" =>
    /\ r.op \in {"append", "delete"} => Settled(r.id)
    /\ r.op = "append" /\ r.id \in DOMAIN conversations => reply[h].value \in MessagesOf(r.id)
    /\ r.op = "rate" => SettledMessage(r.id)
    /\ r.op = "rate" /\ r.id \in DOMAIN messages => <<r.id, r.sub>> \in DOMAIN feedback
    /\ r.op = "delete" => r.id \notin DOMAIN conversations

Idle(h) == pc[h] = "idle" /\ tx[h] = NoTx /\ Told(h)

(* The statements that rely on nothing, each with its call.                *)
PlainStatements ==
  {<<"create", "insertConversation">>, <<"rename", "updateTitle">>, <<"rename", "readBack">>,
   <<"delete", "deleteConversation">>, <<"append", "checkOwner">>, <<"list", "checkListed">>,
   <<"list", "selectMessages">>, <<"rate", "checkMessage">>, <<"branch", "findSource">>}

At(h, op, statement) == req[h] \in Request /\ req[h].op = op /\ pc[h] = statement

Plain(h) == tx[h] = NoTx /\ \E s \in PlainStatements : At(h, s[1], s[2])

(* AppendMessage after each of its statements.                             *)
Inserting(h) ==
  /\ At(h, "append", "insertMessage") /\ tx[h] = NoTx
  /\ Settled(req[h].id)
  /\ req[h].id \in DOMAIN conversations => Locked(h)

(* The row it has written.                                                 *)
Wrote(h) ==
  /\ RowsAreNew(h)
  /\ Locked(h)
  /\ \E m \in Minted :
       /\ DOMAIN tx[h].messages = {m}
       /\ tx[h].messages[m].conv = req[h].id /\ tx[h].messages[m].sub = req[h].sub

Touching(h) ==
  /\ At(h, "append", "touchConversation") /\ Wrote(h)
  /\ tx[h] = [conversations |-> EmptyTable, messages |-> tx[h].messages]

CommittingAppend(h) ==
  LET c == req[h].id IN
  /\ At(h, "append", "commitAppend") /\ Wrote(h)
  /\ DOMAIN tx[h].conversations = {c}
  /\ tx[h].conversations[c].sub = req[h].sub
  /\ tx[h].conversations[c].title = conversations[c].title

(* UpsertFeedback after the check.                                         *)
Rating(h) ==
  /\ At(h, "rate", "upsertFeedback") /\ tx[h] = NoTx
  /\ SettledMessage(req[h].id)
  /\ req[h].id \in DOMAIN messages => messages[req[h].id].sub = req[h].sub

(* BranchFromMessage: b is the conversation it is going to commit.         *)
Branches(h, b) ==
  /\ DOMAIN tx[h].conversations = {b} /\ tx[h].conversations[b].sub = req[h].sub
  /\ b \in DOMAIN promised /\ OnlyIn(h, b)

Copying(h) ==
  /\ At(h, "branch", "copyMessages")
  /\ tx[h] = [conversations |-> tx[h].conversations, messages |-> EmptyTable]
  /\ \E b \in Minted :
       /\ Branches(h, b)
       /\ promised[b].source \in DOMAIN conversations =>
            promised[b].contents \subseteq
              {messages[m].content : m \in Copied(promised[b].source, req[h].sub, promised[b].cut)}

CommittingBranch(h) ==
  /\ At(h, "branch", "commitBranch") /\ RowsAreNew(h)
  /\ \E b \in Minted :
       /\ Branches(h, b)
       /\ \A m \in DOMAIN tx[h].messages :
            tx[h].messages[m].conv = b /\ tx[h].messages[m].sub = req[h].sub
       /\ promised[b].source \in DOMAIN conversations =>
            promised[b].contents \subseteq {tx[h].messages[m].content : m \in DOMAIN tx[h].messages}

HandlerOK(h) ==
  \/ Idle(h) \/ Plain(h)
  \/ Inserting(h) \/ Touching(h) \/ CommittingAppend(h)
  \/ Rating(h)
  \/ Copying(h) \/ CommittingBranch(h)

(* The tables and the variables that every handler sees.                   *)
Typed ==
  /\ nextId \in Nat \ {0}
  /\ RowsOK(conversations, Conversation) /\ RowsOK(messages, Message)
  /\ DOMAIN feedback \subseteq Minted \X Subjects
  /\ feedback \in [DOMAIN feedback -> Ratings]
  /\ conns \subseteq Handlers \X {"tx", "statement"}
  /\ started \in 0 .. MaxRequests

(* What a handler has, with its type.                                      *)
Session(h) ==
  /\ pc[h] \in Statements \cup {"idle"}
  /\ req[h] \in Request \cup {NoRequest}
  /\ RowsOK(tx[h].conversations, Conversation)
  /\ RowsOK(tx[h].messages, Message)
  /\ reply[h].err \in {"none", "nil", "ErrNotFound", "other"}

Domains ==
  /\ pc \in [Handlers -> Statements \cup {"idle"}]
  /\ DOMAIN req = Handlers /\ DOMAIN tx = Handlers /\ DOMAIN reply = Handlers

PromisesKept ==
  /\ DOMAIN promised \subseteq Minted
  /\ \A b \in DOMAIN promised : Settled(promised[b].source)
  /\ BranchLosesNothing

HandlersOK == Domains /\ \A h \in Handlers : Session(h) /\ HandlerOK(h)

PgInv == Typed /\ RowsBelongTogether /\ HandlersOK /\ PromisesKept
-----------------------------------------------------------------------------
(***************************************************************************)
(* What a step of handler h does to what the others rely on.               *)
(***************************************************************************)
SessionsEvolve(h) ==
  /\ Domains'
  /\ \A g \in Handlers \ {h} :
       pc'[g] = pc[g] /\ req'[g] = req[g] /\ tx'[g] = tx[g] /\ reply'[g] = reply[g]
  /\ conns' \subseteq Handlers \X {"tx", "statement"}
  /\ started' \in 0 .. MaxRequests

IdsEvolve == nextId' \in Nat \ {0} /\ nextId <= nextId'

(* Conversations are new, or committed by h; they keep their subject, and  *)
(* what another transaction has locked stays.                              *)
ConversationsEvolve(h) ==
  /\ \A c \in DOMAIN conversations' \ DOMAIN conversations :
       c \in DOMAIN tx[h].conversations \/ c \notin Minted
  /\ \A c \in DOMAIN conversations \cap DOMAIN conversations' :
       /\ conversations'[c].sub = conversations[c].sub
       /\ Updaters(h, c) # {} => conversations'[c].title = conversations[c].title
  /\ \A c \in DOMAIN conversations \ DOMAIN conversations' :
       KeySharers(h, c) = {} /\ Updaters(h, c) = {} /\ c \notin DOMAIN tx'[h].conversations
  /\ \A c \in DOMAIN tx'[h].conversations :
       c \in DOMAIN conversations' \/ c \in DOMAIN tx[h].conversations \/ c \notin Minted

(* Messages are committed by h, never change, and go with their            *)
(* conversation.                                                           *)
MessagesEvolve(h) ==
  /\ \A m \in DOMAIN messages' \ DOMAIN messages :
       /\ m \in DOMAIN tx[h].messages /\ m \notin DOMAIN tx'[h].messages
       /\ messages'[m].conv \in DOMAIN conversations'
       /\ messages'[m].sub = conversations'[messages'[m].conv].sub
  /\ \A m \in DOMAIN messages :
       m \in DOMAIN messages' <=> messages[m].conv \in DOMAIN conversations'
  /\ \A m \in DOMAIN messages \cap DOMAIN messages' : messages'[m] = messages[m]
  /\ \A m \in DOMAIN tx'[h].messages : m \in DOMAIN tx[h].messages \/ m \notin Minted

(* Feedback goes with its message.                                         *)
FeedbackEvolves ==
  /\ \A k \in DOMAIN feedback : k \in DOMAIN feedback' <=> k[1] \in DOMAIN messages'
  /\ \A k \in DOMAIN feedback' \ DOMAIN feedback :
       k[1] \in DOMAIN messages' /\ messages'[k[1]].sub = k[2]

(* A branch that is committed holds what it should.                        *)
PromisesEvolve ==
  /\ DOMAIN promised \subseteq DOMAIN promised' /\ DOMAIN promised' \subseteq Minted'
  /\ \A b \in DOMAIN promised : promised'[b] = promised[b]
  /\ \A b \in DOMAIN promised' \ DOMAIN promised :
       b \notin DOMAIN conversations' /\ promised'[b].source \in DOMAIN conversations'
  /\ \A b \in DOMAIN promised \cap (DOMAIN conversations' \ DOMAIN conversations) :
       promised[b].source \in DOMAIN conversations' => promised[b].contents \subseteq ContentsOf(b)'

Evolves(h) ==
  /\ SessionsEvolve(h) /\ IdsEvolve
  /\ ConversationsEvolve(h) /\ MessagesEvolve(h) /\ FeedbackEvolves /\ PromisesEvolve

(* The types only grow.                                                    *)
LEMMA TypesGrow ==
  ASSUME nextId \in Nat, IdsEvolve
  PROVE  /\ Minted \subseteq Minted' /\ Request \subseteq Request'
         /\ Conversation \subseteq Conversation' /\ Message \subseteq Message'
<1>2. ASSUME NEW a \in Nat, NEW b \in Nat, a <= b PROVE 0 .. a-1 \subseteq 0 .. b-1 /\ 1 .. a-1 \subseteq 1 .. b-1
  BY <1>2
<1>3. 0 .. nextId - 1 \subseteq 0 .. nextId' - 1 /\ 1 .. nextId - 1 \subseteq 1 .. nextId' - 1
  BY <1>2 DEF IdsEvolve
<1>. QED BY <1>3 DEF Request, Conversation, Message, Minted

(* No rows have any type.                                                  *)
LEMMA EmptyRows == ASSUME NEW Row PROVE RowsOK(EmptyTable, Row) /\ DOMAIN EmptyTable = {}
BY DEF RowsOK, EmptyTable

(* A transaction that has written nothing.                                 *)
LEMMA NoTxFacts == NoTx.conversations = EmptyTable /\ NoTx.messages = EmptyTable
BY DEF NoTx

(* Whatever a transaction has inserted, only it knows of.                  *)
LEMMA AllNew == ASSUME NEW h \in Handlers, HandlerOK(h) PROVE RowsAreNew(h)
<1>1. CASE tx[h] = NoTx \/ tx[h].messages = EmptyTable
  <2>1. DOMAIN tx[h].messages = {}
    BY <1>1, EmptyRows, NoTxFacts
  <2>. QED BY <2>1 DEF RowsAreNew
<1>2. CASE Copying(h)
  BY <1>1, <1>2 DEF Copying
<1>. QED BY <1>1, <1>2 DEF HandlerOK, Idle, Plain, Inserting, Touching, CommittingAppend, Rating,
                           CommittingBranch, Wrote

(* What is committed is settled.                                           *)
LEMMA CommittedSettled ==
  ASSUME PgInv
  PROVE  /\ \A c \in DOMAIN conversations : Settled(c)
         /\ \A m \in DOMAIN messages : SettledMessage(m)
<1>1. \A c \in DOMAIN conversations : Settled(c)
  BY DEF PgInv, Typed, RowsOK, Settled
<1>2. \A h \in Handlers : RowsAreNew(h)
  BY AllNew DEF PgInv, HandlersOK
<1>. QED BY <1>1, <1>2 DEF PgInv, Typed, RowsOK, SettledMessage, RowsAreNew

(* What is settled stays settled, and never comes back once it has gone.   *)
LEMMA SettledStays ==
  ASSUME PgInv, NEW h \in Handlers, Evolves(h), NEW c, Settled(c)
  PROVE  /\ Settled(c)'
         /\ c \in DOMAIN conversations' =>
              c \in DOMAIN conversations /\ conversations'[c].sub = conversations[c].sub
<1>1. c \in Minted /\ c \in Minted'
  BY TypesGrow DEF Settled, PgInv, Typed, Evolves
<1>2. c \in DOMAIN conversations' => c \in DOMAIN conversations
  BY <1>1 DEF Settled, Evolves, ConversationsEvolve
<1>3. ASSUME NEW g \in Handlers, c \in DOMAIN tx'[g].conversations PROVE c \in DOMAIN conversations'
  <2>1. CASE g = h
    <3>1. c \in DOMAIN conversations' \/ c \in DOMAIN conversations
      BY <1>1, <1>3, <2>1 DEF Settled, Evolves, ConversationsEvolve
    <3>. QED BY <1>3, <2>1, <3>1 DEF Evolves, ConversationsEvolve
  <2>2. CASE g # h
    <3>1. c \in DOMAIN tx[g].conversations /\ Updaters(h, c) # {}
      BY <1>3, <2>2 DEF Evolves, SessionsEvolve, Updaters
    <3>. QED BY <3>1 DEF Settled, Evolves, ConversationsEvolve
  <2>. QED BY <2>1, <2>2
<1>. QED BY <1>1, <1>2, <1>3 DEF Settled, Evolves, ConversationsEvolve

(* The same for a message, which never changes either.                     *)
LEMMA SettledMessageStays ==
  ASSUME PgInv, NEW h \in Handlers, Evolves(h), NEW m, SettledMessage(m)
  PROVE  /\ SettledMessage(m)'
         /\ m \in DOMAIN messages' => m \in DOMAIN messages /\ messages'[m] = messages[m]
<1>1. m \in Minted /\ m \in Minted'
  BY TypesGrow DEF SettledMessage, PgInv, Typed, Evolves
<1>2. m \in DOMAIN messages' => m \in DOMAIN messages
  BY DEF SettledMessage, Evolves, MessagesEvolve
<1>3. ASSUME NEW g \in Handlers PROVE m \notin DOMAIN tx'[g].messages
  BY <1>1 DEF SettledMessage, Evolves, MessagesEvolve, SessionsEvolve
<1>. QED BY <1>1, <1>2, <1>3 DEF SettledMessage, Evolves, MessagesEvolve
-----------------------------------------------------------------------------
(***************************************************************************)
(* The other handlers: what they rely on stays, wherever they are.         *)
(***************************************************************************)
LEMMA SameSession ==
  ASSUME NEW h \in Handlers, SessionsEvolve(h), NEW g \in Handlers \ {h}
  PROVE  pc'[g] = pc[g] /\ req'[g] = req[g] /\ tx'[g] = tx[g] /\ reply'[g] = reply[g]
BY DEF SessionsEvolve

(* The types of the other handlers, and where they are.                    *)
LEMMA OtherSession ==
  ASSUME PgInv, NEW h \in Handlers, Evolves(h), NEW g \in Handlers \ {h}
  PROVE  /\ Session(g)'
         /\ \A op, statement : At(g, op, statement) => At(g, op, statement)'
<1>1. pc'[g] = pc[g] /\ req'[g] = req[g] /\ tx'[g] = tx[g] /\ reply'[g] = reply[g]
  BY SameSession DEF Evolves
<1>2. /\ Minted \subseteq Minted' /\ Request \subseteq Request'
      /\ Conversation \subseteq Conversation' /\ Message \subseteq Message'
  BY TypesGrow DEF PgInv, Typed, Evolves
<1>3. Session(g)
  BY DEF PgInv, HandlersOK
<1>4. RowsOK(tx[g].conversations, Conversation)' /\ RowsOK(tx[g].messages, Message)'
  BY <1>1, <1>2, <1>3 DEF Session, RowsOK
<1>5. Session(g)'
  BY <1>1, <1>2, <1>3, <1>4 DEF Session
<1>6. ASSUME NEW op, NEW statement, At(g, op, statement) PROVE At(g, op, statement)'
  BY <1>1, <1>2, <1>6 DEF At
<1>. QED BY <1>5, <1>6

(* New rows and a new branch are known to nobody else.                     *)
LEMMA NewStays ==
  ASSUME PgInv, NEW h \in Handlers, Evolves(h), NEW g \in Handlers \ {h}
  PROVE  /\ RowsAreNew(g)'
         /\ \A b \in Minted : OnlyIn(g, b) => OnlyIn(g, b)'
<1>1. \A k \in Handlers \ {h} : tx'[k] = tx[k]
  BY SameSession DEF Evolves
<1>2. RowsAreNew(g)
  BY AllNew DEF PgInv, HandlersOK
<1>3. DOMAIN tx[g].messages \subseteq Minted
  BY DEF PgInv, HandlersOK, Session, RowsOK
<1>4. ASSUME NEW m \in DOMAIN tx[g].messages
      PROVE  m \notin DOMAIN messages' /\ \A k \in Handlers \ {g} : m \notin DOMAIN tx'[k].messages
  <2>1. m \notin DOMAIN messages'
    BY <1>2, <1>4 DEF RowsAreNew, Evolves, MessagesEvolve
  <2>2. ASSUME NEW k \in Handlers \ {g} PROVE m \notin DOMAIN tx'[k].messages
    <3>1. CASE k = h
      BY <1>2, <1>3, <1>4, <3>1 DEF RowsAreNew, Evolves, MessagesEvolve
    <3>2. CASE k # h
      BY <1>1, <1>2, <1>4, <3>2 DEF RowsAreNew
    <3>. QED BY <3>1, <3>2
  <2>. QED BY <2>1, <2>2
<1>5. RowsAreNew(g)'
  BY <1>1, <1>4 DEF RowsAreNew
<1>6. ASSUME NEW b \in Minted, OnlyIn(g, b) PROVE OnlyIn(g, b)'
  <2>1. b \notin DOMAIN conversations'
    BY <1>6 DEF OnlyIn, Evolves, ConversationsEvolve
  <2>2. ASSUME NEW k \in Handlers \ {g} PROVE b \notin DOMAIN tx'[k].conversations
    <3>1. CASE k = h
      BY <1>6, <2>1, <3>1 DEF OnlyIn, Evolves, ConversationsEvolve
    <3>2. CASE k # h
      BY <1>1, <1>6, <3>2 DEF OnlyIn
    <3>. QED BY <3>1, <3>2
  <2>. QED BY <2>1, <2>2 DEF OnlyIn
<1>. QED BY <1>5, <1>6

(* The row locks of an append.                                             *)
LEMMA WroteStays ==
  ASSUME PgInv, NEW h \in Handlers, Evolves(h), NEW g \in Handlers \ {h}, Wrote(g)
  PROVE  /\ Wrote(g)'
         /\ DOMAIN tx[g].conversations = {req[g].id} =>
              conversations'[req[g].id].title = conversations[req[g].id].title
<1>1. tx'[g] = tx[g] /\ req'[g] = req[g]
  BY SameSession DEF Evolves
<1>2. PICK m \in Minted :
        /\ DOMAIN tx[g].messages = {m}
        /\ tx[g].messages[m].conv = req[g].id /\ tx[g].messages[m].sub = req[g].sub
  BY DEF Wrote
<1>3. KeySharers(h, req[g].id) # {}
  BY <1>2 DEF KeySharers
<1>4. Locked(g)'
  BY <1>1, <1>3 DEF Wrote, Locked, Evolves, ConversationsEvolve
<1>5. m \in Minted'
  BY TypesGrow DEF PgInv, Typed, Evolves
<1>6. Wrote(g)'
  BY <1>1, <1>2, <1>4, <1>5, NewStays DEF Wrote
<1>7. ASSUME DOMAIN tx[g].conversations = {req[g].id}
      PROVE  conversations'[req[g].id].title = conversations[req[g].id].title
  <2>1. Updaters(h, req[g].id) # {}
    BY <1>7 DEF Updaters
  <2>2. req[g].id \in DOMAIN conversations \cap DOMAIN conversations'
    BY <1>1, <1>4 DEF Locked, Wrote
  <2>. QED BY <2>1, <2>2 DEF Evolves, ConversationsEvolve
<1>. QED BY <1>6, <1>7

(* What a caller was told.                                                 *)
LEMMA ToldStays ==
  ASSUME PgInv, NEW h \in Handlers, Evolves(h), NEW g \in Handlers \ {h}, Told(g)
  PROVE  Told(g)'
<1>1. PICK r, a : r = req[g] /\ a = reply[g] /\ r = req'[g] /\ a = reply'[g]
  BY SameSession DEF Evolves
<1>2. SUFFICES ASSUME a.err = "nil"
               PROVE  /\ r.op \in {"append", "delete"} => Settled(r.id)'
                      /\ r.op = "append" /\ r.id \in DOMAIN conversations' => a.value \in MessagesOf(r.id)'
                      /\ r.op = "rate" => SettledMessage(r.id)'
                      /\ r.op = "rate" /\ r.id \in DOMAIN messages' => <<r.id, r.sub>> \in DOMAIN feedback'
                      /\ r.op = "delete" => r.id \notin DOMAIN conversations'
  BY <1>1 DEF Told, Settled, SettledMessage, MessagesOf
<1>3. ASSUME r.op \in {"append", "delete"}
      PROVE  Settled(r.id)' /\ (r.id \in DOMAIN conversations' => r.id \in DOMAIN conversations)
  BY <1>1, <1>2, <1>3, SettledStays DEF Told
<1>4. ASSUME r.op = "append", r.id \in DOMAIN conversations' PROVE a.value \in MessagesOf(r.id)'
  <2>1. a.value \in MessagesOf(r.id)
    BY <1>1, <1>2, <1>3, <1>4 DEF Told
  <2>. QED BY <1>4, <2>1 DEF MessagesOf, Evolves, MessagesEvolve
<1>5. ASSUME r.op = "rate"
      PROVE  SettledMessage(r.id)' /\ (r.id \in DOMAIN messages' => r.id \in DOMAIN messages)
  BY <1>1, <1>2, <1>5, SettledMessageStays DEF Told
<1>6. ASSUME r.op = "rate", r.id \in DOMAIN messages' PROVE <<r.id, r.sub>> \in DOMAIN feedback'
  <2>1. <<r.id, r.sub>> \in DOMAIN feedback
    BY <1>1, <1>2, <1>5, <1>6 DEF Told
  <2>. QED BY <1>6, <2>1 DEF Evolves, FeedbackEvolves
<1>. QED BY <1>1, <1>2, <1>3, <1>4, <1>5, <1>6 DEF Told

(* What a branch is going to commit is what it should hold.                *)
LEMMA CopyingStays ==
  ASSUME PgInv, NEW h \in Handlers, Evolves(h), NEW g \in Handlers \ {h}, Copying(g)
  PROVE  Copying(g)'
<1>1. tx'[g] = tx[g] /\ req'[g] = req[g]
  BY SameSession DEF Evolves
<1>2. PICK b \in Minted :
        /\ Branches(g, b)
        /\ promised[b].source \in DOMAIN conversations =>
             promised[b].contents \subseteq
               {messages[m].content : m \in Copied(promised[b].source, req[g].sub, promised[b].cut)}
  BY DEF Copying
<1>3. b \in Minted' /\ promised'[b] = promised[b] /\ b \in DOMAIN promised'
  BY <1>2, TypesGrow DEF PgInv, Typed, Evolves, PromisesEvolve, Branches
<1>4. Branches(g, b)'
  BY <1>1, <1>2, <1>3, NewStays DEF Branches
<1>5. PICK source, cut, contents, sub :
        /\ source = promised[b].source /\ cut = promised[b].cut /\ contents = promised[b].contents
        /\ sub = req[g].sub
  OBVIOUS
<1>6. ASSUME source \in DOMAIN conversations'
      PROVE  contents \subseteq {messages'[m].content : m \in Copied(source, sub, cut)'}
  <2>1. source \in DOMAIN conversations
    BY <1>2, <1>5, <1>6, SettledStays DEF Branches, PgInv, PromisesKept
  <2>2. ASSUME NEW m \in Copied(source, sub, cut)
        PROVE  m \in Copied(source, sub, cut)' /\ messages'[m].content = messages[m].content
    BY <1>6, <2>2 DEF Copied, MessagesOf, Evolves, MessagesEvolve
  <2>. QED BY <1>2, <1>5, <2>1, <2>2
<1>. QED BY <1>1, <1>3, <1>4, <1>5, <1>6, OtherSession DEF Copying, Copied, MessagesOf

(* The same once the messages have been copied.                            *)
LEMMA CommittingBranchStays ==
  ASSUME PgInv, NEW h \in Handlers, Evolves(h), NEW g \in Handlers \ {h}, CommittingBranch(g)
  PROVE  CommittingBranch(g)'
<1>1. tx'[g] = tx[g] /\ req'[g] = req[g]
  BY SameSession DEF Evolves
<1>2. PICK b \in Minted :
        /\ Branches(g, b)
        /\ \A m \in DOMAIN tx[g].messages :
             tx[g].messages[m].conv = b /\ tx[g].messages[m].sub = req[g].sub
        /\ promised[b].source \in DOMAIN conversations =>
             promised[b].contents \subseteq {tx[g].messages[m].content : m \in DOMAIN tx[g].messages}
  BY DEF CommittingBranch
<1>3. b \in Minted' /\ promised'[b] = promised[b] /\ b \in DOMAIN promised'
  BY <1>2, TypesGrow DEF PgInv, Typed, Evolves, PromisesEvolve, Branches
<1>4. Branches(g, b)'
  BY <1>1, <1>2, <1>3, NewStays DEF Branches
<1>5. promised[b].source \in DOMAIN conversations' => promised[b].source \in DOMAIN conversations
  <2>1. PICK source : source = promised[b].source
    OBVIOUS
  <2>. QED BY <1>2, <2>1, SettledStays DEF Branches, PgInv, PromisesKept
<1>. QED BY <1>1, <1>2, <1>3, <1>4, <1>5, NewStays, OtherSession DEF CommittingBranch

(* All of it.                                                              *)
LEMMA OtherOK ==
  ASSUME PgInv, NEW h \in Handlers, Evolves(h), NEW g \in Handlers \ {h}
  PROVE  HandlerOK(g)'
<1>1. pc'[g] = pc[g] /\ req'[g] = req[g] /\ tx'[g] = tx[g] /\ reply'[g] = reply[g]
  BY SameSession DEF Evolves
<1>2. HandlerOK(g)
  BY DEF PgInv, HandlersOK
<1>3. CASE Idle(g)
  BY <1>1, <1>3, ToldStays DEF Idle, HandlerOK, Evolves, SessionsEvolve
<1>4. CASE Plain(g)
  BY <1>1, <1>4, OtherSession DEF Plain, HandlerOK
<1>5. CASE Inserting(g)
  <2>1. PICK r : r = req[g] /\ r = req'[g]
    BY <1>1
  <2>2. /\ Settled(r.id)'
        /\ r.id \in DOMAIN conversations' =>
             r.id \in DOMAIN conversations /\ conversations'[r.id].sub = conversations[r.id].sub
    BY <1>5, <2>1, SettledStays DEF Inserting
  <2>3. Settled(req[g].id)'
    BY <2>1, <2>2 DEF Settled
  <2>4. Locked(g)' \/ req'[g].id \notin DOMAIN conversations'
    BY <1>5, <2>1, <2>2 DEF Inserting, Locked
  <2>. QED BY <1>1, <1>5, <2>3, <2>4, OtherSession DEF Inserting, HandlerOK
<1>6. CASE Touching(g)
  BY <1>1, <1>6, WroteStays, OtherSession DEF Touching, HandlerOK
<1>7. CASE CommittingAppend(g)
  BY <1>1, <1>7, WroteStays, OtherSession DEF CommittingAppend, HandlerOK
<1>8. CASE Rating(g)
  <2>1. PICK r : r = req[g] /\ r = req'[g]
    BY <1>1
  <2>2. /\ SettledMessage(r.id)'
        /\ r.id \in DOMAIN messages' => r.id \in DOMAIN messages /\ messages'[r.id] = messages[r.id]
    BY <1>8, <2>1, SettledMessageStays DEF Rating
  <2>3. SettledMessage(req[g].id)'
    BY <2>1, <2>2 DEF SettledMessage
  <2>4. req'[g].id \in DOMAIN messages' => messages'[req'[g].id].sub = req'[g].sub
    BY <1>8, <2>1, <2>2 DEF Rating
  <2>. QED BY <1>1, <1>8, <2>3, <2>4, OtherSession DEF Rating, HandlerOK
<1>. QED BY <1>2, <1>3, <1>4, <1>5, <1>6, <1>7, <1>8, CopyingStays, CommittingBranchStays DEF HandlerOK

-----------------------------------------------------------------------------
(***************************************************************************)
(* The tables.                                                             *)
(***************************************************************************)
LEMMA BelongStays ==
  ASSUME PgInv, NEW h \in Handlers, Evolves(h)
  PROVE  RowsBelongTogether'
<1>1. ASSUME NEW m \in DOMAIN messages'
      PROVE  /\ messages'[m].conv \in DOMAIN conversations'
             /\ messages'[m].sub = conversations'[messages'[m].conv].sub
  <2>1. CASE m \in DOMAIN messages
    <3>1. messages[m].conv \in DOMAIN conversations /\ messages[m].sub = conversations[messages[m].conv].sub
      BY <2>1 DEF PgInv, RowsBelongTogether
    <3>2. messages[m].conv \in DOMAIN conversations' /\ messages'[m] = messages[m]
      BY <1>1, <2>1 DEF Evolves, MessagesEvolve
    <3>. QED BY <3>1, <3>2 DEF Evolves, ConversationsEvolve
  <2>2. CASE m \notin DOMAIN messages
    BY <1>1, <2>2 DEF Evolves, MessagesEvolve
  <2>. QED BY <2>1, <2>2
<1>2. ASSUME NEW k \in DOMAIN feedback'
      PROVE  k[1] \in DOMAIN messages' /\ messages'[k[1]].sub = k[2]
  <2>1. CASE k \in DOMAIN feedback
    <3>1. k[1] \in DOMAIN messages /\ messages[k[1]].sub = k[2]
      BY <2>1 DEF PgInv, RowsBelongTogether
    <3>2. k[1] \in DOMAIN messages'
      BY <1>2, <2>1 DEF Evolves, FeedbackEvolves
    <3>. QED BY <3>1, <3>2 DEF Evolves, MessagesEvolve
  <2>2. CASE k \notin DOMAIN feedback
    BY <1>2, <2>2 DEF Evolves, FeedbackEvolves
  <2>. QED BY <2>1, <2>2
<1>. QED BY <1>1, <1>2 DEF RowsBelongTogether

(* The messages of a branch go only with the branch.                       *)
LEMMA PromisesStay ==
  ASSUME PgInv, Typed', NEW h \in Handlers, Evolves(h)
  PROVE  PromisesKept'
<1>1. ASSUME NEW b \in DOMAIN promised', NEW source, source = promised'[b].source
      PROVE  Settled(source)'
  <2>1. CASE b \in DOMAIN promised
    <3>1. Settled(source)
      BY <1>1, <2>1 DEF PgInv, PromisesKept, Evolves, PromisesEvolve
    <3>. QED BY <3>1, SettledStays
  <2>2. CASE b \notin DOMAIN promised
    <3>1. source \in DOMAIN conversations'
      BY <1>1, <2>2 DEF Evolves, PromisesEvolve
    <3>. QED BY <3>1 DEF Settled, Typed, RowsOK
  <2>. QED BY <2>1, <2>2
<1>2. \A b \in DOMAIN promised' : Settled(promised[b].source)'
  BY <1>1 DEF Settled
<1>3. ASSUME NEW b \in DOMAIN promised' \cap DOMAIN conversations',
             promised'[b].source \in DOMAIN conversations'
      PROVE  promised'[b].contents \subseteq ContentsOf(b)'
  <2>1. b \in DOMAIN promised /\ promised'[b] = promised[b]
    BY <1>3 DEF Evolves, PromisesEvolve
  <2>2. CASE b \notin DOMAIN conversations
    BY <1>3, <2>1, <2>2 DEF Evolves, PromisesEvolve
  <2>3. CASE b \in DOMAIN conversations
    <3>1. PICK source : source = promised[b].source
      OBVIOUS
    <3>2. source \in DOMAIN conversations
      BY <1>3, <2>1, <3>1, SettledStays DEF PgInv, PromisesKept
    <3>3. promised[b].contents \subseteq ContentsOf(b)
      BY <2>1, <2>3, <3>1, <3>2 DEF PgInv, PromisesKept, BranchLosesNothing
    <3>4. ASSUME NEW m \in MessagesOf(b)
          PROVE  m \in DOMAIN messages' /\ messages'[m].conv = b /\ messages'[m].content = messages[m].content
      BY <1>3, <3>4 DEF MessagesOf, Evolves, MessagesEvolve
    <3>. QED BY <2>1, <3>3, <3>4 DEF ContentsOf, MessagesOf
  <2>. QED BY <2>2, <2>3
<1>4. BranchLosesNothing'
  BY <1>3 DEF BranchLosesNothing, ContentsOf, MessagesOf
<1>. QED BY <1>2, <1>4 DEF PromisesKept, Evolves, PromisesEvolve

(* A step keeps the invariant if it evolves the tables and leaves its own  *)
(* handler in order.                                                       *)
LEMMA StepOK ==
  ASSUME PgInv, NEW h \in Handlers, Evolves(h), Typed', Session(h)', HandlerOK(h)'
  PROVE  PgInv'
<1>1. ASSUME NEW g \in Handlers PROVE Session(g)' /\ HandlerOK(g)'
  <2>1. CASE g = h
    BY <2>1
  <2>2. CASE g # h
    BY <2>2, OtherSession, OtherOK
  <2>. QED BY <2>1, <2>2
<1>2. HandlersOK'
  BY <1>1 DEF HandlersOK, Evolves, SessionsEvolve
<1>. QED BY <1>2, BelongStays, PromisesStay DEF PgInv
-----------------------------------------------------------------------------
(***************************************************************************)
(* The ways a statement may end.                                           *)
(***************************************************************************)
(* The types of a handler that is done.                                    *)
LEMMA RequestStays ==
  ASSUME PgInv, IdsEvolve, NEW h \in Handlers
  PROVE  /\ req[h] \in Request' \cup {NoRequest}
         /\ \A op, statement : At(h, op, statement) => req[h] \in Request'
BY TypesGrow DEF PgInv, Typed, HandlersOK, Session, At

(* A method that returns leaves its handler idle, with an answer.          *)
LEMMA ReturnOK ==
  ASSUME PgInv, NEW h \in Handlers, NEW answers, Return(h, answers), IdsEvolve,
         \A a \in answers : a.err \in {"nil", "ErrNotFound", "other"}
  PROVE  /\ SessionsEvolve(h) /\ Session(h)'
         /\ req' = req /\ tx'[h] = NoTx /\ reply'[h] \in answers
         /\ Told(h)' => HandlerOK(h)'
<1>1. /\ pc' = [pc EXCEPT ![h] = "idle"] /\ conns' \subseteq conns /\ tx' = [tx EXCEPT ![h] = NoTx]
      /\ req' = req /\ started' = started
  BY DEF Return
<1>2. PICK a \in answers : reply' = [reply EXCEPT ![h] = a]
  BY DEF Return
<1>3. Domains
  BY DEF PgInv, HandlersOK
<1>4. SessionsEvolve(h)
  BY <1>1, <1>2, <1>3 DEF SessionsEvolve, Domains, PgInv, Typed
<1>5. pc'[h] = "idle" /\ tx'[h] = NoTx /\ reply'[h] = a /\ req'[h] = req[h]
  BY <1>1, <1>2, <1>3 DEF Domains
<1>6. Session(h)'
  BY <1>2, <1>5, RequestStays, EmptyRows, NoTxFacts DEF Session, RowsOK
<1>. QED BY <1>1, <1>2, <1>4, <1>5, <1>6 DEF HandlerOK, Idle

(* The next statement of the method.                                       *)
LEMMA GoOnOK ==
  ASSUME PgInv, NEW h \in Handlers, NEW statement \in Statements,
         GoOn(h, statement), IdsEvolve,
         NEW new, tx'[h] = new,
         DOMAIN tx' = Handlers, \A g \in Handlers \ {h} : tx'[g] = tx[g],
         RowsOK(new.conversations, Conversation)', RowsOK(new.messages, Message)'
  PROVE  /\ SessionsEvolve(h) /\ Session(h)'
         /\ req' = req /\ pc'[h] = statement /\ tx'[h] = new
<1>1. /\ pc' = [pc EXCEPT ![h] = statement] /\ req' = req /\ conns' \subseteq conns
      /\ reply' = reply /\ started' = started
  BY DEF GoOn
<1>2. Domains
  BY DEF PgInv, HandlersOK
<1>3. SessionsEvolve(h)
  BY <1>1, <1>2 DEF SessionsEvolve, Domains, PgInv, Typed
<1>4. pc'[h] = statement /\ tx'[h] = new /\ reply'[h] = reply[h] /\ req'[h] = req[h]
  BY <1>1, <1>2 DEF Domains
<1>5. Session(h)
  BY DEF PgInv, HandlersOK
<1>6. Session(h)'
  BY <1>4, <1>5, RequestStays DEF Session, RowsOK
<1>. QED BY <1>1, <1>3, <1>4, <1>6

(* The same when nothing has been written.                                 *)
LEMMA PlainGoOnOK ==
  ASSUME PgInv, NEW h \in Handlers, NEW statement \in Statements,
         GoOn(h, statement), tx' = tx, tx[h] = NoTx, IdsEvolve
  PROVE  /\ SessionsEvolve(h) /\ Session(h)'
         /\ req' = req /\ pc'[h] = statement /\ tx'[h] = NoTx
<1>1. RowsOK(NoTx.conversations, Conversation)' /\ RowsOK(NoTx.messages, Message)'
  BY EmptyRows, NoTxFacts DEF RowsOK
<1>2. DOMAIN tx' = Handlers /\ \A g \in Handlers \ {h} : tx'[g] = tx[g]
  BY DEF PgInv, HandlersOK, Domains
<1>. QED BY <1>1, <1>2, GoOnOK

(* A statement that commits nothing.                                       *)
LEMMA QuietTables ==
  ASSUME PgInv, NEW h \in Handlers, IdsEvolve, UNCHANGED tables,
         \A c \in DOMAIN tx'[h].conversations :
           c \in DOMAIN conversations \/ c \in DOMAIN tx[h].conversations \/ c \notin Minted,
         \A m \in DOMAIN tx'[h].messages : m \in DOMAIN tx[h].messages \/ m \notin Minted
  PROVE  ConversationsEvolve(h) /\ MessagesEvolve(h) /\ FeedbackEvolves
<1>1. conversations' = conversations /\ messages' = messages /\ feedback' = feedback
  BY DEF tables
<1>2. RowsBelongTogether
  BY DEF PgInv
<1>. QED BY <1>1, <1>2 DEF ConversationsEvolve, MessagesEvolve, FeedbackEvolves, RowsBelongTogether

(* It leaves the promises as they are ...                                  *)
LEMMA QuietPromises ==
  ASSUME PgInv, IdsEvolve, promised' = promised,
         DOMAIN promised \cap (DOMAIN conversations' \ DOMAIN conversations) = {}
  PROVE  PromisesEvolve
BY TypesGrow DEF PgInv, Typed, PromisesKept, PromisesEvolve

(* ... and the types of the tables.                                        *)
LEMMA QuietTypes ==
  ASSUME PgInv, NEW h \in Handlers, IdsEvolve, SessionsEvolve(h), UNCHANGED tables
  PROVE  Typed'
<1>1. /\ Minted \subseteq Minted' /\ Conversation \subseteq Conversation' /\ Message \subseteq Message'
      /\ conversations' = conversations /\ messages' = messages /\ feedback' = feedback
  BY TypesGrow DEF PgInv, Typed, tables
<1>. QED BY <1>1 DEF PgInv, Typed, RowsOK, IdsEvolve, SessionsEvolve

(* The ids may stay.                                                       *)
LEMMA SameIds == ASSUME PgInv, UNCHANGED nextId PROVE IdsEvolve
BY DEF PgInv, Typed, IdsEvolve

(* A statement that commits nothing, and returns or goes on.               *)
LEMMA QuietOK ==
  ASSUME PgInv, NEW h \in Handlers, IdsEvolve, UNCHANGED <<tables, promised>>,
         SessionsEvolve(h), Session(h)', HandlerOK(h)',
         \A c \in DOMAIN tx'[h].conversations :
           c \in DOMAIN conversations \/ c \in DOMAIN tx[h].conversations \/ c \notin Minted,
         \A m \in DOMAIN tx'[h].messages : m \in DOMAIN tx[h].messages \/ m \notin Minted
  PROVE  PgInv'
<1>1. UNCHANGED tables /\ promised' = promised /\ conversations' = conversations
  BY DEF tables
<1>2. PromisesEvolve
  BY <1>1, QuietPromises
<1>3. ConversationsEvolve(h) /\ MessagesEvolve(h) /\ FeedbackEvolves
  BY <1>1, QuietTables
<1>4. Typed'
  BY <1>1, QuietTypes
<1>. QED BY <1>2, <1>3, <1>4, StepOK DEF Evolves

(* A method that returns without a commit.                                 *)
LEMMA QuietReturnOK ==
  ASSUME PgInv, NEW h \in Handlers, NEW answers, Return(h, answers),
         \A a \in answers : a.err \in {"nil", "ErrNotFound", "other"},
         UNCHANGED <<tables, promised>>, IdsEvolve \/ UNCHANGED nextId, Told(h)'
  PROVE  PgInv'
<1>1. IdsEvolve
  BY SameIds
<1>2. SessionsEvolve(h) /\ Session(h)' /\ tx'[h] = NoTx /\ HandlerOK(h)'
  BY <1>1, ReturnOK
<1>. QED BY <1>1, <1>2, QuietOK, EmptyRows, NoTxFacts

(* An error promises nothing.                                              *)
LEMMA ErrorOK ==
  ASSUME PgInv, NEW h \in Handlers, NEW a \in {ErrNotFound, Failed}, Return(h, {a}),
         UNCHANGED <<tables, promised>>, IdsEvolve \/ UNCHANGED nextId
  PROVE  PgInv'
<1>1. a.err # "nil" /\ a.err \in {"nil", "ErrNotFound", "other"}
  BY DEF ErrNotFound, Failed
<1>2. IdsEvolve
  BY SameIds
<1>3. reply'[h] = a
  BY <1>1, <1>2, ReturnOK
<1>4. Told(h)'
  BY <1>1, <1>3 DEF Told
<1>. QED BY <1>1, <1>4, QuietReturnOK
-----------------------------------------------------------------------------
(***************************************************************************)
(* The actions, one by one.                                                *)
(***************************************************************************)
LEMMA InitPg == Init => PgInv
<1>. SUFFICES ASSUME Init PROVE PgInv
  OBVIOUS
<1>1. Typed
  BY EmptyRows, WorkloadAssumption DEF Init, Typed, EmptyTable
<1>2. RowsBelongTogether /\ PromisesKept
  BY EmptyRows DEF Init, RowsBelongTogether, PromisesKept, BranchLosesNothing
<1>3. HandlersOK
  <2>1. Domains
    BY DEF Init, Domains
  <2>2. ASSUME NEW h \in Handlers PROVE Session(h) /\ HandlerOK(h)
    BY EmptyRows, NoTxFacts DEF Init, Session, HandlerOK, Idle, Told, NoReply
  <2>. QED BY <2>1, <2>2 DEF HandlersOK
<1>. QED BY <1>1, <1>2, <1>3 DEF PgInv

(* Where a handler is tells what it relies on.                             *)
LEMMA AtStatement ==
  ASSUME PgInv, NEW h \in Handlers
  PROVE  /\ pc[h] = "idle" => Idle(h)
         /\ \A s \in PlainStatements : pc[h] = s[2] => Plain(h) /\ At(h, s[1], s[2])
         /\ pc[h] = "insertMessage" => Inserting(h)
         /\ pc[h] = "touchConversation" => Touching(h)
         /\ pc[h] = "commitAppend" => CommittingAppend(h)
         /\ pc[h] = "upsertFeedback" => Rating(h)
         /\ pc[h] = "copyMessages" => Copying(h)
         /\ pc[h] = "commitBranch" => CommittingBranch(h)
<1>1. HandlerOK(h)
  BY DEF PgInv, HandlersOK
<1>2. \A s \in PlainStatements :
        s[2] \notin {"idle", "insertMessage", "touchConversation", "commitAppend", "upsertFeedback",
                     "copyMessages", "commitBranch"}
  BY DEF PlainStatements
<1>3. \A s, t \in PlainStatements : s[2] = t[2] => s = t
  BY DEF PlainStatements
<1>. QED BY <1>1, <1>2, <1>3 DEF HandlerOK, Idle, Plain, Inserting, Touching, CommittingAppend, Rating,
                                Copying, CommittingBranch, At

(* The types of rows that are put, ...                                     *)
LEMMA PutType ==
  ASSUME NEW K, NEW V, NEW table, DOMAIN table \subseteq K, table \in [DOMAIN table -> V],
         NEW k \in K, NEW v \in V, NEW new, new = Put(table, k, v)
  PROVE  DOMAIN new \subseteq K /\ new \in [DOMAIN new -> V]
BY DEF Put

(* ... rows that are removed ...                                           *)
LEMMA WithoutType ==
  ASSUME NEW K, NEW V, NEW table, DOMAIN table \subseteq K, table \in [DOMAIN table -> V],
         NEW S, NEW new, new = Without(table, S)
  PROVE  DOMAIN new \subseteq K /\ new \in [DOMAIN new -> V]
BY DEF Without, Restrict

(* ... and rows that are committed.                                        *)
LEMMA OverlayType ==
  ASSUME NEW K, NEW V, NEW table, DOMAIN table \subseteq K, table \in [DOMAIN table -> V],
         NEW rows, DOMAIN rows \subseteq K, rows \in [DOMAIN rows -> V],
         NEW new, new = Overlay(rows, table)
  PROVE  DOMAIN new \subseteq K /\ new \in [DOMAIN new -> V]
BY DEF Overlay

(* A request reaches the store.                                            *)
LEMMA BeginOK == ASSUME PgInv, NEW h \in Handlers, Begin(h) PROVE PgInv'
<1>1. pc[h] = "idle" /\ UNCHANGED <<tables, nextId, conns, tx, promised>> /\ started' = started + 1
      /\ started < MaxRequests /\ reply' = [reply EXCEPT ![h] = NoReply]
  BY DEF Begin
<1>2. PICK op \in Ops, s \in Subjects, id \in 0 .. nextId - 1, t \in Titles :
        /\ (op = "create") <=> (id = 0)
        /\ op \notin {"create", "rename", "branch"} => t = NoTitle
        /\ req' = [req EXCEPT ![h] = [op |-> op, sub |-> s, id |-> id, title |-> t]]
        /\ pc' = [pc EXCEPT ![h] = FirstStatement[op]]
  BY Zenon DEF Begin
<1>3. nextId \in Nat \ {0} /\ started \in 0 .. MaxRequests /\ Domains
      /\ conns \subseteq Handlers \X {"tx", "statement"}
  BY DEF PgInv, Typed, HandlersOK
<1>4. IdsEvolve
  BY <1>1, <1>3 DEF IdsEvolve
<1>5. started' \in 0 .. MaxRequests
  BY <1>1, <1>3, WorkloadAssumption
<1>6. <<op, FirstStatement[op]>> \in PlainStatements /\ FirstStatement[op] \in Statements
  BY <1>2, WorkloadAssumption DEF AllOps, FirstStatement, PlainStatements, Statements
<1>7. SessionsEvolve(h)
  BY <1>1, <1>2, <1>3, <1>5, <1>6 DEF SessionsEvolve, Domains
<1>8. tx'[h] = NoTx
  BY <1>1, AtStatement DEF Idle
<1>9. req'[h] \in Request' /\ req'[h].op = op /\ pc'[h] = FirstStatement[op] /\ reply'[h] = NoReply
  <2>1. req'[h] = [op |-> op, sub |-> s, id |-> id, title |-> t]
        /\ pc'[h] = FirstStatement[op] /\ reply'[h] = NoReply
    BY <1>1, <1>2, <1>3 DEF Domains
  <2>2. id \in 0 .. nextId' - 1
    BY <1>1
  <2>. QED BY <2>1, <2>2 DEF Request
<1>10. Session(h)'
  BY <1>8, <1>6, <1>9, EmptyRows, NoTxFacts DEF Session, NoReply, RowsOK
<1>11. HandlerOK(h)'
  BY <1>8, <1>6, <1>9 DEF HandlerOK, Plain, At
<1>. QED BY <1>1, <1>4, <1>7, <1>8, <1>10, <1>11, QuietOK, EmptyRows, NoTxFacts

(* A connection is handed out.                                             *)
LEMMA AcquireOK == ASSUME PgInv, NEW h \in Handlers, Acquire(h) PROVE PgInv'
<1>1. /\ pc[h] # "idle" /\ conns' = conns \cup {ConnFor(h)}
      /\ UNCHANGED <<tables, nextId, pc, req, tx, reply, promised, started>>
      /\ conversations' = conversations /\ messages' = messages
  BY DEF Acquire, tables
<1>2. Domains /\ Session(h) /\ HandlerOK(h) /\ conns \subseteq Handlers \X {"tx", "statement"}
      /\ started \in 0 .. MaxRequests
  BY DEF PgInv, HandlersOK, Typed
<1>3. IdsEvolve
  BY <1>1, SameIds
<1>4. conns' \subseteq Handlers \X {"tx", "statement"}
  BY <1>1, <1>2 DEF ConnFor
<1>5. SessionsEvolve(h)
  BY <1>1, <1>2, <1>4 DEF SessionsEvolve, Domains
<1>6. Session(h)'
  BY <1>1, <1>2 DEF Session, RowsOK, Request, Conversation, Message, Minted
<1>7. HandlerOK(h)'
  <2>1. \A op, statement : At(h, op, statement) => At(h, op, statement)'
    BY <1>1 DEF At, Request
  <2>2. (Locked(h) => Locked(h)') /\ (RowsAreNew(h) => RowsAreNew(h)')
    BY <1>1 DEF Locked, RowsAreNew
  <2>3. (Settled(req[h].id) => Settled(req[h].id)') /\ (SettledMessage(req[h].id) => SettledMessage(req[h].id)')
    BY <1>1 DEF Settled, SettledMessage, Minted
  <2>4. Wrote(h) => Wrote(h)'
    BY <1>1, <2>2 DEF Wrote, Minted
  <2>5. \A b : Branches(h, b) => Branches(h, b)'
    BY <1>1 DEF Branches, OnlyIn
  <2>6. CASE Plain(h)
    BY <1>1, <2>1, <2>6 DEF Plain, HandlerOK
  <2>7. CASE Inserting(h)
    BY <1>1, <2>1, <2>2, <2>3, <2>7 DEF Inserting, HandlerOK
  <2>8. CASE Touching(h) \/ CommittingAppend(h)
    BY <1>1, <2>1, <2>4, <2>8 DEF Touching, CommittingAppend, HandlerOK
  <2>9. CASE Rating(h)
    BY <1>1, <2>1, <2>3, <2>9 DEF Rating, HandlerOK
  <2>10. CASE Copying(h)
    BY <1>1, <2>1, <2>5, <2>10 DEF Copying, HandlerOK, Copied, MessagesOf, Minted
  <2>11. CASE CommittingBranch(h)
    BY <1>1, <2>1, <2>2, <2>5, <2>11 DEF CommittingBranch, HandlerOK, Minted
  <2>. QED BY <1>1, <1>2, <2>6, <2>7, <2>8, <2>9, <2>10, <2>11 DEF HandlerOK, Idle
<1>. QED BY <1>1, <1>3, <1>5, <1>6, <1>7, QuietOK

(* A request is cancelled, at any statement.                               *)
LEMMA CancelOK == ASSUME PgInv, NEW h \in Handlers, Cancel(h) PROVE PgInv'
BY ErrorOK DEF Cancel

(* The statements of the calls that make no promise: all answers are fine. *)
LEMMA NothingTold ==
  ASSUME NEW h, req'[h].op \notin {"append", "delete", "rate"} PROVE Told(h)'
BY DEF Told

(* The reads.                                                              *)
LEMMA ReadsOK ==
  ASSUME PgInv, NEW h \in Handlers, ReadBack(h) \/ SelectMessages(h) PROVE PgInv'
<1> DEFINE answers ==
      IF pc[h] = "readBack" THEN {GetConversation(req[h].sub, req[h].id)}
      ELSE {Ok(q) : q \in InTimeOrder({m \in MessagesOf(req[h].id) : messages[m].sub = req[h].sub})}
<1>1. /\ pc[h] \in {"readBack", "selectMessages"} /\ Return(h, answers)
      /\ UNCHANGED <<tables, nextId, promised>>
  BY DEF ReadBack, SelectMessages, Runs
<1>2. \A a \in answers : a.err \in {"nil", "ErrNotFound", "other"}
  <2>1. \A x : Ok(x).err = "nil"
    BY DEF Ok
  <2>2. GetConversation(req[h].sub, req[h].id).err \in {"nil", "ErrNotFound"}
    BY <2>1 DEF GetConversation, ErrNotFound
  <2>. QED BY <2>1, <2>2
<1>3. req[h].op \in {"rename", "list"}
  BY <1>1, AtStatement DEF PlainStatements, At
<1>4. IdsEvolve
  BY <1>1, SameIds
<1>. HIDE DEF answers
<1>5. Told(h)'
  BY <1>1, <1>2, <1>3, <1>4, ReturnOK, NothingTold
<1>. QED BY <1>1, <1>2, <1>5, QuietReturnOK

(* The checks before the statements that rely on them.                     *)
LEMMA ListedOK == ASSUME PgInv, NEW h \in Handlers, CheckListed(h) PROVE PgInv'
<1>1. tx[h] = NoTx /\ At(h, "list", "checkListed") /\ UNCHANGED <<tables, nextId, promised>>
  BY AtStatement DEF CheckListed, Runs, PlainStatements, Plain
<1>2. CASE Return(h, {ErrNotFound})
  BY <1>1, <1>2, ErrorOK
<1>3. CASE GoOn(h, "selectMessages") /\ tx' = tx
  <2>1. IdsEvolve /\ "selectMessages" \in Statements
    BY <1>1, SameIds DEF Statements
  <2>2. SessionsEvolve(h) /\ Session(h)' /\ req' = req /\ pc'[h] = "selectMessages" /\ tx'[h] = NoTx
    BY <1>1, <1>3, <2>1, PlainGoOnOK
  <2>3. HandlerOK(h)'
    BY <1>1, <2>1, <2>2, RequestStays DEF HandlerOK, Plain, PlainStatements, At
  <2>. QED BY <1>1, <2>1, <2>2, <2>3, QuietOK, EmptyRows, NoTxFacts
<1>. QED BY <1>2, <1>3 DEF CheckListed

(* The message to rate is there, and that of the caller.                   *)
LEMMA CheckMessageOK == ASSUME PgInv, NEW h \in Handlers, CheckMessage(h) PROVE PgInv'
<1>1. tx[h] = NoTx /\ At(h, "rate", "checkMessage") /\ UNCHANGED <<tables, nextId, promised>>
  BY AtStatement DEF CheckMessage, Runs, PlainStatements, Plain
<1>2. CASE Return(h, {ErrNotFound})
  BY <1>1, <1>2, ErrorOK
<1>3. CASE OwnsMessage(req[h].sub, req[h].id) /\ GoOn(h, "upsertFeedback") /\ tx' = tx
  <2>1. IdsEvolve /\ "upsertFeedback" \in Statements
    BY <1>1, SameIds DEF Statements
  <2>2. SessionsEvolve(h) /\ Session(h)' /\ req' = req /\ pc'[h] = "upsertFeedback" /\ tx'[h] = NoTx
        /\ tx' = tx
    BY <1>1, <1>3, <2>1, PlainGoOnOK
  <2>3. SettledMessage(req[h].id) /\ messages[req[h].id].sub = req[h].sub
    BY <1>3, CommittedSettled DEF OwnsMessage
  <2>4. Rating(h)'
    BY <1>1, <2>1, <2>2, <2>3, RequestStays
       DEF Rating, At, SettledMessage, Minted, tables
  <2>. QED BY <1>1, <2>1, <2>2, <2>4, QuietOK, EmptyRows, NoTxFacts DEF HandlerOK
<1>. QED BY <1>2, <1>3 DEF CheckMessage

(* The conversation to append to is there, and that of the caller.         *)
LEMMA CheckOwnerOK == ASSUME PgInv, NEW h \in Handlers, CheckOwner(h) PROVE PgInv'
<1>1. tx[h] = NoTx /\ At(h, "append", "checkOwner") /\ UNCHANGED <<tables, nextId, promised>>
  BY AtStatement DEF CheckOwner, Runs, PlainStatements, Plain
<1>2. CASE Return(h, {ErrNotFound})
  BY <1>1, <1>2, ErrorOK
<1>3. CASE OwnsConversation(req[h].sub, req[h].id) /\ GoOn(h, "insertMessage") /\ tx' = tx
  <2>1. IdsEvolve /\ "insertMessage" \in Statements
    BY <1>1, SameIds DEF Statements
  <2>3. SessionsEvolve(h) /\ Session(h)' /\ req' = req /\ pc'[h] = "insertMessage" /\ tx'[h] = NoTx
    BY <1>1, <1>3, <2>1, PlainGoOnOK
  <2>4. Settled(req[h].id) /\ Locked(h)
    BY <1>3, CommittedSettled DEF OwnsConversation, Locked
  <2>5. Inserting(h)'
    BY <1>1, <1>3, <2>1, <2>3, <2>4, RequestStays
       DEF Inserting, At, Settled, Locked, Minted, tables
  <2>. QED BY <1>1, <2>1, <2>3, <2>5, QuietOK, EmptyRows, NoTxFacts DEF HandlerOK
<1>. QED BY <1>2, <1>3 DEF CheckOwner

(* Ids that are minted are new to everybody.                               *)
LEMMA FreshId ==
  ASSUME PgInv
  PROVE  /\ \A x : x \notin Minted => x \notin DOMAIN conversations /\ x \notin DOMAIN messages
                                   /\ x \notin DOMAIN promised
         /\ \A x : x \notin Minted => \A g \in Handlers :
              x \notin DOMAIN tx[g].conversations /\ x \notin DOMAIN tx[g].messages
         /\ \A x \in Nat : x >= nextId => x \notin Minted
         /\ nextId \notin Minted /\ nextId \in Nat
BY DEF PgInv, Typed, HandlersOK, Session, RowsOK, PromisesKept, Minted

(* One id is minted.                                                       *)
LEMMA MintOne == ASSUME PgInv, MintIds(1) PROVE nextId' = nextId + 1 /\ nextId \in Minted'
BY DEF PgInv, Typed, MintIds, Minted

(* What a transaction writes.                                              *)
LEMMA OneRow ==
  ASSUME NEW k, NEW v, NEW rows, rows = Put(EmptyTable, k, v)
  PROVE  DOMAIN rows = {k} /\ rows[k] = v
BY DEF Put, EmptyTable

(* The type of the one row.                                                *)
LEMMA OneRowType ==
  ASSUME NEW K, NEW V, NEW k \in K, NEW v \in V, NEW rows, rows = Put(EmptyTable, k, v)
  PROVE  DOMAIN rows \subseteq K /\ rows \in [DOMAIN rows -> V]
BY DEF Put, EmptyTable

(* The messages a transaction has written.                                 *)
LEMMA TxWritesMessages ==
  ASSUME PgInv, NEW h \in Handlers, NEW rows, tx' = [tx EXCEPT ![h].messages = rows]
  PROVE  /\ DOMAIN tx' = Handlers /\ \A g \in Handlers \ {h} : tx'[g] = tx[g]
         /\ \A x, y : tx[h] = [conversations |-> x, messages |-> y] =>
              tx'[h] = [conversations |-> x, messages |-> rows]
<1>1. DOMAIN tx = Handlers
  BY DEF PgInv, HandlersOK, Domains
<1>2. PICK t : t = tx[h]
  OBVIOUS
<1>3. tx'[h] = [t EXCEPT !.messages = rows]
  BY <1>1, <1>2
<1>4. ASSUME NEW a, NEW b, t = [conversations |-> a, messages |-> b]
      PROVE  [t EXCEPT !.messages = rows] = [conversations |-> a, messages |-> rows]
  BY <1>4
<1>. QED BY <1>1, <1>2, <1>3, <1>4

(* The conversations a transaction has written.                            *)
LEMMA TxWritesConversations ==
  ASSUME PgInv, NEW h \in Handlers, NEW rows, tx' = [tx EXCEPT ![h].conversations = rows]
  PROVE  /\ DOMAIN tx' = Handlers /\ \A g \in Handlers \ {h} : tx'[g] = tx[g]
         /\ \A x, y : tx[h] = [conversations |-> x, messages |-> y] =>
              tx'[h] = [conversations |-> rows, messages |-> y]
<1>1. DOMAIN tx = Handlers
  BY DEF PgInv, HandlersOK, Domains
<1>2. PICK t : t = tx[h]
  OBVIOUS
<1>3. tx'[h] = [t EXCEPT !.conversations = rows]
  BY <1>1, <1>2
<1>4. ASSUME NEW a, NEW b, t = [conversations |-> a, messages |-> b]
      PROVE  [t EXCEPT !.conversations = rows] = [conversations |-> rows, messages |-> b]
  BY <1>4
<1>. QED BY <1>1, <1>2, <1>3, <1>4

(* The append has its row, and the conversation is locked from here on.    *)
LEMMA InsertMessageOK == ASSUME PgInv, NEW h \in Handlers, InsertMessage(h) PROVE PgInv'
<1>0. PICK now :
        \/ Return(h, {ErrNotFound})
        \/ /\ now \in Times /\ req[h].id \in DOMAIN conversations /\ GoOn(h, "touchConversation")
           /\ tx' = [tx EXCEPT ![h].messages = Put(EmptyTable, nextId,
                [conv |-> req[h].id, sub |-> req[h].sub, content |-> nextId, createdAt |-> now])]
  BY DEF InsertMessage
<1>1. PICK row, rows, new, empty :
        /\ row = [conv |-> req[h].id, sub |-> req[h].sub, content |-> nextId, createdAt |-> now]
        /\ rows = Put(EmptyTable, nextId, row)
        /\ new = [conversations |-> EmptyTable, messages |-> rows]
        /\ empty = EmptyTable
  OBVIOUS
<1>2. Inserting(h) /\ UNCHANGED <<tables, promised>> /\ MintIds(1)
  BY AtStatement DEF InsertMessage, Runs
<1>3. nextId' = nextId + 1 /\ nextId \in Minted' /\ nextId \in Nat \ {0}
  BY <1>2, MintOne DEF PgInv, Typed
<1>4. IdsEvolve
  BY <1>3 DEF IdsEvolve
<1>5. CASE Return(h, {ErrNotFound})
  BY <1>2, <1>4, <1>5, ErrorOK
<1>6. CASE /\ now \in Times /\ req[h].id \in DOMAIN conversations /\ GoOn(h, "touchConversation")
           /\ tx' = [tx EXCEPT ![h].messages = Put(EmptyTable, nextId,
                [conv |-> req[h].id, sub |-> req[h].sub, content |-> nextId, createdAt |-> now])]
  <2>1. tx[h] = [conversations |-> EmptyTable, messages |-> EmptyTable]
    BY <1>2 DEF Inserting, NoTx
  <2>2. row \in Message'
    <3>1. req[h].id \in Minted
      BY <1>6 DEF PgInv, Typed, RowsOK
    <3>2. req[h].id \in Minted' /\ req[h].sub \in Subjects
      BY <1>2, <1>4, <3>1, TypesGrow DEF PgInv, Typed, Inserting, At, Request
    <3>. QED BY <1>1, <1>3, <1>6, <3>2 DEF Message
  <2>3. /\ DOMAIN rows = {nextId} /\ rows[nextId].conv = req[h].id /\ rows[nextId].sub = req[h].sub
        /\ DOMAIN rows \subseteq Minted' /\ rows \in [DOMAIN rows -> Message']
    <3>1. row.conv = req[h].id /\ row.sub = req[h].sub
      BY <1>1
    <3>2. nextId \in Minted' /\ rows = Put(EmptyTable, nextId, row)
      BY <1>3, <1>1
    <3>3. DOMAIN rows = {nextId} /\ rows[nextId] = row
      BY <3>2, OneRow
    <3>4. DOMAIN rows \subseteq Minted' /\ rows \in [DOMAIN rows -> Message']
      BY <2>2, <3>2, OneRowType
    <3>. QED BY <3>1, <3>3, <3>4
  <2>5. tx'[h] = new /\ DOMAIN tx' = Handlers /\ \A g \in Handlers \ {h} : tx'[g] = tx[g]
    <3>1. tx' = [tx EXCEPT ![h].messages = rows]
      BY <1>6, <1>1
    <3>2. tx[h] = [conversations |-> empty, messages |-> empty]
      BY <1>1, <2>1
    <3>3. new = [conversations |-> empty, messages |-> rows]
      BY <1>1
    <3>4. tx'[h] = [conversations |-> empty, messages |-> rows]
          /\ DOMAIN tx' = Handlers /\ \A g \in Handlers \ {h} : tx'[g] = tx[g]
      <4>1. DOMAIN tx' = Handlers /\ \A g \in Handlers \ {h} : tx'[g] = tx[g]
        BY <3>1, TxWritesMessages
      <4>2. PICK t : t = tx[h]
        OBVIOUS
      <4>3. tx'[h] = [t EXCEPT !.messages = rows]
        BY <3>1, <4>2 DEF PgInv, HandlersOK, Domains
      <4>4. [t EXCEPT !.messages = rows] = [conversations |-> empty, messages |-> rows]
        BY <3>2, <4>2
      <4>. QED BY <4>1, <4>3, <4>4
    <3>. QED BY <3>3, <3>4
  <2>6. /\ new.conversations = EmptyTable /\ new.messages = rows
        /\ RowsOK(new.conversations, Conversation)' /\ RowsOK(new.messages, Message)'
    BY <1>1, <2>3, EmptyRows DEF RowsOK
  <2>7. SessionsEvolve(h) /\ Session(h)' /\ req' = req /\ pc'[h] = "touchConversation" /\ tx'[h] = new
    <3>1. "touchConversation" \in Statements
      BY DEF Statements
    <3>. QED BY <1>4, <1>6, <2>5, <2>6, <3>1, GoOnOK
  <2>8. Locked(h)'
    BY <1>2, <1>6, <2>7 DEF Inserting, Locked, tables
  <2>9. RowsAreNew(h)'
    BY <1>2, <2>3, <2>5, <2>6, FreshId DEF RowsAreNew, tables
  <2>10. At(h, "append", "touchConversation")'
    BY <1>2, <1>4, <2>7, RequestStays DEF Inserting, At
  <2>11. Touching(h)'
    BY <1>3, <1>1, <2>3, <2>6, <2>7, <2>8, <2>9, <2>10 DEF Touching, Wrote
  <2>. QED BY <1>2, <1>4, <2>3, <2>6, <2>7, <2>11, QuietOK, EmptyRows, FreshId DEF HandlerOK
<1>. QED BY <1>0, <1>5, <1>6

(* Its conversation is still there to be updated.                          *)
LEMMA TouchOK == ASSUME PgInv, NEW h \in Handlers, TouchConversation(h) PROVE PgInv'
<1>1. Touching(h) /\ UNCHANGED <<tables, nextId, promised>> /\ GoOn(h, "commitAppend")
  BY AtStatement DEF TouchConversation, Runs
<1>2. PICK m \in Minted :
        /\ DOMAIN tx[h].messages = {m}
        /\ tx[h].messages[m].conv = req[h].id /\ tx[h].messages[m].sub = req[h].sub
  BY <1>1 DEF Touching, Wrote
<1>3. PICK c, row, rows :
        /\ c = req[h].id
        /\ row = [conversations[c] EXCEPT !.updatedAt = tx[h].messages[m].createdAt]
        /\ rows = Put(EmptyTable, c, row)
  OBVIOUS
<1>4. PICK new : new = [conversations |-> rows, messages |-> tx[h].messages]
  OBVIOUS
<1>5. tx'[h] = new /\ DOMAIN tx' = Handlers /\ \A g \in Handlers \ {h} : tx'[g] = tx[g]
  <2>1. tx' = [tx EXCEPT ![h].conversations = rows]
    BY <1>2, <1>3 DEF TouchConversation
  <2>2. tx[h] = [conversations |-> EmptyTable, messages |-> tx[h].messages]
    BY <1>1 DEF Touching
  <2>3. tx'[h] = [conversations |-> rows, messages |-> tx[h].messages]
        /\ DOMAIN tx' = Handlers /\ \A g \in Handlers \ {h} : tx'[g] = tx[g]
    BY <2>1, <2>2, TxWritesConversations
  <2>. QED BY <1>4, <2>3
<1>6. IdsEvolve /\ c \in DOMAIN conversations /\ c \in Minted /\ c \in Minted'
  <2>1. IdsEvolve /\ c \in DOMAIN conversations /\ c \in Minted
    BY <1>1, <1>3, SameIds DEF Touching, Wrote, Locked, PgInv, Typed, RowsOK
  <2>. QED BY <2>1, TypesGrow DEF PgInv, Typed
<1>7. row \in Conversation /\ row.sub = conversations[c].sub /\ row.title = conversations[c].title
  <2>1. conversations[c] \in Conversation /\ tx[h].messages[m] \in Message
    BY <1>2, <1>6 DEF PgInv, Typed, HandlersOK, Session, RowsOK
  <2>. QED BY <1>3, <2>1 DEF Conversation, Message
<1>8. /\ DOMAIN rows = {c} /\ rows[c] = row
      /\ DOMAIN rows \subseteq Minted /\ rows \in [DOMAIN rows -> Conversation]
  <2>1. rows = Put(EmptyTable, c, row) /\ c \in Minted /\ row \in Conversation
    BY <1>3, <1>6, <1>7
  <2>2. DOMAIN rows = {c} /\ rows[c] = row
    BY <2>1, OneRow
  <2>3. DOMAIN rows \subseteq Minted /\ rows \in [DOMAIN rows -> Conversation]
    BY <2>1, OneRowType
  <2>. QED BY <2>2, <2>3
<1>9. /\ new.conversations = rows /\ new.messages = tx[h].messages
      /\ RowsOK(new.conversations, Conversation)' /\ RowsOK(new.messages, Message)'
  <2>1. Conversation' = Conversation /\ Message' = Message /\ Minted' = Minted
    BY <1>1 DEF Conversation, Message, Minted
  <2>2. RowsOK(tx[h].messages, Message)
    BY DEF PgInv, HandlersOK, Session
  <2>. QED BY <1>4, <1>8, <2>1, <2>2 DEF RowsOK
<1>10. SessionsEvolve(h) /\ Session(h)' /\ req' = req /\ pc'[h] = "commitAppend" /\ tx'[h] = new
  <2>1. "commitAppend" \in Statements
    BY DEF Statements
  <2>. QED BY <1>1, <1>5, <1>6, <1>9, <2>1, GoOnOK
<1>11. Locked(h)' /\ RowsAreNew(h)'
  BY <1>1, <1>5, <1>9, <1>10 DEF Touching, Wrote, Locked, RowsAreNew, tables
<1>12. At(h, "append", "commitAppend")'
  BY <1>1, <1>6, <1>10, RequestStays DEF Touching, At
<1>13. m \in Minted'
  BY <1>6, TypesGrow DEF PgInv, Typed
<1>14. CommittingAppend(h)'
  <2>1. Wrote(h)'
    BY <1>2, <1>9, <1>10, <1>11, <1>13 DEF Wrote
  <2>2. conversations[c].sub = req[h].sub /\ conversations' = conversations
    BY <1>1, <1>3 DEF Touching, Wrote, Locked, tables
  <2>. QED BY <1>3, <1>7, <1>8, <1>9, <1>10, <1>12, <2>1, <2>2 DEF CommittingAppend
<1>. QED BY <1>1, <1>6, <1>8, <1>9, <1>10, <1>14, QuietOK DEF HandlerOK

(* The statements that are committed when they return.                     *)
LEMMA AppliedAnswers ==
  ASSUME NEW v, NEW a \in Applied(v)
  PROVE  a.err \in {"nil", "ErrNotFound", "other"} /\ (a.err = "nil" => a.value = v)
BY DEF Applied, Ok, Failed

(* A method that returns what it has committed.                            *)
LEMMA CommitReturns ==
  ASSUME PgInv, NEW h \in Handlers, NEW v, Return(h, Applied(v)), IdsEvolve
  PROVE  /\ SessionsEvolve(h) /\ Session(h)' /\ req' = req
         /\ DOMAIN tx'[h].conversations = {} /\ DOMAIN tx'[h].messages = {}
         /\ reply'[h].err = "nil" => reply'[h].value = v
         /\ Told(h)' => HandlerOK(h)'
<1>1. /\ SessionsEvolve(h) /\ Session(h)' /\ req' = req /\ tx'[h] = NoTx
      /\ reply'[h] \in Applied(v) /\ (Told(h)' => HandlerOK(h)')
  BY AppliedAnswers, ReturnOK
<1>2. reply'[h].err = "nil" => reply'[h].value = v
  BY <1>1, AppliedAnswers
<1>. QED BY <1>1, <1>2, EmptyRows, NoTxFacts

(* The types when no id is minted.                                         *)
LEMMA SameTypes ==
  ASSUME UNCHANGED nextId
  PROVE  Conversation' = Conversation /\ Message' = Message /\ Minted' = Minted /\ Request' = Request
BY DEF Conversation, Message, Minted, Request

(* The types of what is committed.                                         *)
LEMMA CommitTypes ==
  ASSUME PgInv, NEW h \in Handlers, IdsEvolve, SessionsEvolve(h),
         RowsOK(conversations, Conversation)', RowsOK(messages, Message)',
         DOMAIN feedback' \subseteq Minted \X Subjects, feedback' \in [DOMAIN feedback' -> Ratings]
  PROVE  Typed'
<1>1. Minted \subseteq Minted'
  BY TypesGrow DEF PgInv, Typed
<1>2. DOMAIN feedback' \subseteq Minted' \X Subjects
  BY <1>1
<1>. QED BY <1>2 DEF Typed, IdsEvolve, SessionsEvolve

(* CreateConversation: an id that nobody knows.                            *)
LEMMA InsertConversationOK == ASSUME PgInv, NEW h \in Handlers, InsertConversation(h) PROVE PgInv'
<1>1. /\ tx[h] = NoTx /\ At(h, "create", "insertConversation") /\ MintIds(1)
      /\ Return(h, Applied(nextId)) /\ UNCHANGED <<messages, feedback, promised>>
  BY AtStatement DEF InsertConversation, Runs, PlainStatements, Plain
<1>2. nextId' = nextId + 1 /\ nextId \in Minted' /\ IdsEvolve
  BY <1>1, MintOne DEF PgInv, Typed, IdsEvolve
<1>3. /\ Minted \subseteq Minted' /\ Conversation \subseteq Conversation' /\ Message \subseteq Message'
      /\ Typed /\ RowsBelongTogether
  BY <1>2, TypesGrow DEF PgInv, Typed
<1>4a. PICK now \in Times :
        conversations' = Put(conversations, nextId,
          [sub |-> req[h].sub, title |-> req[h].title, updatedAt |-> now])
  BY DEF InsertConversation
<1>4. PICK row : row = [sub |-> req[h].sub, title |-> req[h].title, updatedAt |-> now]
  OBVIOUS
<1>5. row \in Conversation'
  <2>1. req[h].sub \in Subjects /\ req[h].title \in TitlesOver(Words)
    BY <1>1, WorkloadAssumption DEF At, Request
  <2>. QED BY <1>4, <2>1 DEF Conversation
<1>6. conversations' = Put(conversations, nextId, row)
  BY <1>4a, <1>4
<1>7. /\ DOMAIN conversations' = DOMAIN conversations \cup {nextId}
      /\ \A c \in DOMAIN conversations : c # nextId => conversations'[c] = conversations[c]
  BY <1>6 DEF Put
<1>8. nextId \notin Minted /\ nextId \notin DOMAIN conversations /\ nextId \notin DOMAIN promised
  BY FreshId
<1>9. RowsOK(conversations, Conversation)' /\ RowsOK(messages, Message)'
  <2>1. DOMAIN conversations \subseteq Minted' /\ conversations \in [DOMAIN conversations -> Conversation']
    BY <1>3 DEF Typed, RowsOK
  <2>2. DOMAIN conversations' \subseteq Minted' /\ conversations' \in [DOMAIN conversations' -> Conversation']
    BY <1>2, <1>5, <1>6, <2>1, PutType
  <2>. QED BY <1>1, <1>3, <2>2 DEF Typed, RowsOK
<1>10. /\ SessionsEvolve(h) /\ Session(h)' /\ req' = req
       /\ DOMAIN tx'[h].conversations = {} /\ DOMAIN tx'[h].messages = {}
       /\ Told(h)' => HandlerOK(h)'
  BY <1>1, <1>2, CommitReturns
<1>11. Typed'
  BY <1>1, <1>2, <1>3, <1>9, <1>10, CommitTypes DEF Typed
<1>12. ConversationsEvolve(h)
  BY <1>7, <1>8, <1>10 DEF ConversationsEvolve
<1>13. MessagesEvolve(h) /\ FeedbackEvolves
  BY <1>1, <1>3, <1>7, <1>10 DEF MessagesEvolve, FeedbackEvolves, RowsBelongTogether
<1>14. PromisesEvolve
  BY <1>1, <1>2, <1>7, <1>8, QuietPromises
<1>15. HandlerOK(h)'
  <2>1. req'[h].op = "create"
    BY <1>1, <1>10 DEF At
  <2>. QED BY <1>10, <2>1, NothingTold
<1>. QED BY <1>2, <1>10, <1>11, <1>12, <1>13, <1>14, <1>15, StepOK DEF Evolves

(* RenameConversation: the row keeps its subject.                          *)
LEMMA UpdateTitleOK == ASSUME PgInv, NEW h \in Handlers, UpdateTitle(h) PROVE PgInv'
<1>1. /\ tx[h] = NoTx /\ At(h, "rename", "updateTitle")
      /\ UNCHANGED <<messages, feedback, nextId, promised>>
  BY AtStatement DEF UpdateTitle, Runs, PlainStatements, Plain
<1>2. CASE Return(h, {ErrNotFound}) /\ UNCHANGED conversations
  BY <1>1, <1>2, ErrorOK DEF tables
<1>3. PICK c : c = req[h].id
  OBVIOUS
<1>4. ASSUME NEW now \in Times, NEW row,
             row = [conversations[c] EXCEPT !.title = req[h].title, !.updatedAt = now],
             OwnsConversation(req[h].sub, c), Updaters(h, c) = {},
             conversations' = Put(conversations, c, row), GoOn(h, "readBack"), tx' = tx
      PROVE  PgInv'
  <2>1. IdsEvolve /\ "readBack" \in Statements /\ Typed /\ RowsBelongTogether
    BY <1>1, SameIds DEF Statements, PgInv
  <2>2. c \in DOMAIN conversations /\ c \in Minted /\ conversations[c] \in Conversation
    BY <1>4, <2>1 DEF OwnsConversation, Typed, RowsOK
  <2>3. row \in Conversation /\ row.sub = conversations[c].sub
    <3>1. req[h].title \in TitlesOver(Words)
      BY <1>1, WorkloadAssumption DEF At, Request
    <3>. QED BY <1>4, <2>2, <3>1 DEF Conversation
  <2>4. /\ DOMAIN conversations' = DOMAIN conversations /\ conversations'[c] = row
        /\ \A x \in DOMAIN conversations : x # c => conversations'[x] = conversations[x]
    BY <1>4, <2>2 DEF Put
  <2>5. RowsOK(conversations, Conversation)' /\ RowsOK(messages, Message)'
    <3>1. DOMAIN conversations \subseteq Minted /\ conversations \in [DOMAIN conversations -> Conversation]
      BY <2>1 DEF Typed, RowsOK
    <3>2. DOMAIN conversations' \subseteq Minted /\ conversations' \in [DOMAIN conversations' -> Conversation]
      <4>1. c \in Minted /\ row \in Conversation /\ conversations' = Put(conversations, c, row)
        BY <1>4, <2>2, <2>3
      <4>. QED BY <3>1, <4>1, PutType
    <3>3. Conversation' = Conversation /\ Message' = Message /\ Minted' = Minted /\ messages' = messages
      BY <1>1, SameTypes
    <3>. QED BY <2>1, <3>2, <3>3 DEF Typed, RowsOK
  <2>6. SessionsEvolve(h) /\ Session(h)' /\ req' = req /\ pc'[h] = "readBack" /\ tx'[h] = NoTx
    BY <1>1, <1>4, <2>1, PlainGoOnOK
  <2>7. DOMAIN tx'[h].conversations = {} /\ DOMAIN tx'[h].messages = {}
    BY <2>6, EmptyRows, NoTxFacts
  <2>8. Typed'
    BY <1>1, <2>1, <2>5, <2>6, CommitTypes DEF Typed
  <2>9. ConversationsEvolve(h)
    BY <1>4, <2>3, <2>4, <2>7 DEF ConversationsEvolve
  <2>10. MessagesEvolve(h) /\ FeedbackEvolves
    BY <1>1, <2>1, <2>4, <2>7 DEF MessagesEvolve, FeedbackEvolves, RowsBelongTogether
  <2>11. PromisesEvolve
    BY <1>1, <2>1, <2>4, QuietPromises
  <2>12. HandlerOK(h)'
    <3>1. At(h, "rename", "readBack")'
      BY <1>1, <2>6, SameTypes DEF At
    <3>2. <<"rename", "readBack">> \in PlainStatements
      BY DEF PlainStatements
    <3>. QED BY <2>6, <3>1, <3>2 DEF HandlerOK, Plain
  <2>. QED BY <2>1, <2>6, <2>8, <2>9, <2>10, <2>11, <2>12, StepOK DEF Evolves
<1>. QED BY <1>2, <1>3, <1>4 DEF UpdateTitle

(* DeleteConversation: the cascade takes all that hangs on the row.        *)
LEMMA DeleteOK == ASSUME PgInv, NEW h \in Handlers, DeleteConversation(h) PROVE PgInv'
<1>1. /\ tx[h] = NoTx /\ At(h, "delete", "deleteConversation")
      /\ UNCHANGED <<nextId, promised>>
  BY AtStatement DEF DeleteConversation, Runs, PlainStatements, Plain
<1>2. CASE Return(h, {ErrNotFound}) /\ UNCHANGED tables
  BY <1>1, <1>2, ErrorOK
<1>3. PICK c, S, F : c = req[h].id /\ S = Cascade(c) /\ F = {k \in DOMAIN feedback : k[1] \in S}
  OBVIOUS
<1>4. CASE /\ OwnsConversation(req[h].sub, c) /\ KeySharers(h, c) = {} /\ Updaters(h, c) = {}
           /\ conversations' = Without(conversations, {c})
           /\ messages' = Without(messages, S) /\ feedback' = Without(feedback, F)
           /\ Return(h, Applied(c))
  <2>1. IdsEvolve /\ Typed /\ RowsBelongTogether
    BY <1>1, SameIds DEF PgInv
  <2>2. c \in DOMAIN conversations /\ c \in Minted
    BY <1>4, <2>1 DEF OwnsConversation, Typed, RowsOK
  <2>3. /\ DOMAIN conversations' = DOMAIN conversations \ {c}
        /\ \A x \in DOMAIN conversations' : conversations'[x] = conversations[x]
    BY <1>4 DEF Without, Restrict
  <2>4. /\ DOMAIN messages' = {m \in DOMAIN messages : messages[m].conv # c}
        /\ \A m \in DOMAIN messages' : messages'[m] = messages[m]
    BY <1>3, <1>4 DEF Without, Restrict, Cascade, MessagesOf
  <2>5. DOMAIN feedback' = {k \in DOMAIN feedback : k[1] \notin S}
    BY <1>3, <1>4 DEF Without, Restrict
  <2>6. RowsOK(conversations, Conversation)' /\ RowsOK(messages, Message)'
    <3>1. /\ DOMAIN conversations' \subseteq Minted
          /\ conversations' \in [DOMAIN conversations' -> Conversation]
      BY <1>4, <2>1, WithoutType DEF Typed, RowsOK
    <3>2. DOMAIN messages' \subseteq Minted /\ messages' \in [DOMAIN messages' -> Message]
      BY <1>4, <2>1, WithoutType DEF Typed, RowsOK
    <3>. QED BY <1>1, <3>1, <3>2, SameTypes DEF RowsOK
  <2>7. DOMAIN feedback' \subseteq Minted \X Subjects /\ feedback' \in [DOMAIN feedback' -> Ratings]
    BY <1>4, <2>1, WithoutType DEF Typed
  <2>8. /\ SessionsEvolve(h) /\ Session(h)' /\ req' = req
        /\ DOMAIN tx'[h].conversations = {} /\ DOMAIN tx'[h].messages = {}
        /\ Told(h)' => HandlerOK(h)'
    BY <1>4, <2>1, CommitReturns
  <2>9. Typed'
    BY <2>1, <2>6, <2>7, <2>8, CommitTypes
  <2>10. ConversationsEvolve(h)
    BY <1>4, <2>3, <2>8 DEF ConversationsEvolve
  <2>11. MessagesEvolve(h)
    BY <2>1, <2>3, <2>4, <2>8 DEF MessagesEvolve, RowsBelongTogether
  <2>12. FeedbackEvolves
    BY <1>3, <2>1, <2>4, <2>5 DEF FeedbackEvolves, RowsBelongTogether, Cascade, MessagesOf
  <2>13. PromisesEvolve
    BY <1>1, <2>1, <2>3, QuietPromises
  <2>14. c \in Minted' /\ \A g \in Handlers : c \notin DOMAIN tx'[g].conversations
    <3>1. ASSUME NEW g \in Handlers \ {h} PROVE c \notin DOMAIN tx'[g].conversations
      BY <1>4, <2>8, SameSession DEF Updaters
    <3>. QED BY <1>1, <2>2, <2>8, <3>1, SameTypes
  <2>15. Told(h)'
    <3>1. req'[h].op = "delete" /\ req'[h].id = c
      BY <1>1, <1>3, <2>8 DEF At
    <3>. QED BY <2>3, <2>14, <3>1 DEF Told, Settled
  <2>. QED BY <2>1, <2>8, <2>9, <2>10, <2>11, <2>12, <2>13, <2>15, StepOK DEF Evolves
<1>. QED BY <1>2, <1>3, <1>4 DEF DeleteConversation

(* AppendMessage: what the caller is told is there.                        *)
LEMMA CommitAppendOK == ASSUME PgInv, NEW h \in Handlers, CommitAppend(h) PROVE PgInv'
<1>1. CommittingAppend(h) /\ UNCHANGED <<feedback, nextId, promised>>
  BY AtStatement DEF CommitAppend, Runs
<1>2. PICK c, sub : c = req[h].id /\ sub = req[h].sub
  OBVIOUS
<1>3. PICK cs, ms : cs = tx[h].conversations /\ ms = tx[h].messages
  OBVIOUS
<1>4. PICK m \in Minted : DOMAIN ms = {m} /\ ms[m].conv = c /\ ms[m].sub = sub
  BY <1>1, <1>2, <1>3 DEF CommittingAppend, Wrote
<1>5. /\ c \in DOMAIN conversations /\ conversations[c].sub = sub
      /\ DOMAIN cs = {c} /\ cs[c].sub = sub /\ cs[c].title = conversations[c].title
      /\ m \notin DOMAIN messages /\ At(h, "append", "commitAppend")
  BY <1>1, <1>2, <1>3, <1>4 DEF CommittingAppend, Wrote, Locked, RowsAreNew
<1>6. /\ conversations' = Overlay(cs, conversations) /\ messages' = Overlay(ms, messages)
      /\ Return(h, Applied(m))
  BY <1>3, <1>4 DEF CommitAppend
<1>7. IdsEvolve /\ Typed /\ RowsBelongTogether /\ RowsOK(cs, Conversation) /\ RowsOK(ms, Message)
  BY <1>1, <1>3, SameIds DEF PgInv, HandlersOK, Session
<1>8. /\ DOMAIN conversations' = DOMAIN conversations /\ conversations'[c] = cs[c]
      /\ \A x \in DOMAIN conversations : x # c => conversations'[x] = conversations[x]
  BY <1>5, <1>6 DEF Overlay
<1>9. /\ DOMAIN messages' = DOMAIN messages \cup {m} /\ messages'[m] = ms[m]
      /\ \A x \in DOMAIN messages : messages'[x] = messages[x]
  BY <1>4, <1>5, <1>6 DEF Overlay
<1>10. RowsOK(conversations, Conversation)' /\ RowsOK(messages, Message)'
  <2>1. DOMAIN conversations' \subseteq Minted /\ conversations' \in [DOMAIN conversations' -> Conversation]
    BY <1>6, <1>7, OverlayType DEF Typed, RowsOK
  <2>2. DOMAIN messages' \subseteq Minted /\ messages' \in [DOMAIN messages' -> Message]
    BY <1>6, <1>7, OverlayType DEF Typed, RowsOK
  <2>. QED BY <1>1, <2>1, <2>2, SameTypes DEF RowsOK
<1>11. /\ SessionsEvolve(h) /\ Session(h)' /\ req' = req
       /\ DOMAIN tx'[h].conversations = {} /\ DOMAIN tx'[h].messages = {}
       /\ reply'[h].err = "nil" => reply'[h].value = m
       /\ Told(h)' => HandlerOK(h)'
  BY <1>6, <1>7, CommitReturns
<1>12. Typed'
  BY <1>1, <1>7, <1>10, <1>11, CommitTypes DEF Typed
<1>13. ConversationsEvolve(h)
  BY <1>5, <1>8, <1>11 DEF ConversationsEvolve
<1>14. MessagesEvolve(h)
  BY <1>3, <1>4, <1>5, <1>7, <1>8, <1>9, <1>11 DEF MessagesEvolve, RowsBelongTogether
<1>15. FeedbackEvolves
  BY <1>1, <1>7, <1>9 DEF FeedbackEvolves, RowsBelongTogether
<1>16. PromisesEvolve
  BY <1>1, <1>7, <1>8, QuietPromises
<1>17. Told(h)'
  <2>1. req'[h].op = "append" /\ req'[h].id = c
    BY <1>2, <1>5, <1>11 DEF At
  <2>2. c \in Minted' /\ c \in DOMAIN conversations'
    BY <1>1, <1>5, <1>7, <1>8, SameTypes DEF Typed, RowsOK
  <2>3. m \in DOMAIN messages' /\ messages'[m].conv = c
    BY <1>4, <1>9
  <2>. QED BY <1>11, <2>1, <2>2, <2>3 DEF Told, Settled, MessagesOf
<1>. QED BY <1>7, <1>11, <1>12, <1>13, <1>14, <1>15, <1>16, <1>17, StepOK DEF Evolves

(* UpsertFeedback: the message may have gone since the check, but is no    *)
(* one else's.                                                             *)
LEMMA UpsertFeedbackOK == ASSUME PgInv, NEW h \in Handlers, UpsertFeedback(h) PROVE PgInv'
<1>1. Rating(h) /\ UNCHANGED <<conversations, messages, nextId, promised>>
  BY AtStatement DEF UpsertFeedback, Runs
<1>2. CASE Return(h, {ErrNotFound}) /\ UNCHANGED feedback
  BY <1>1, <1>2, ErrorOK DEF tables
<1>3. PICK m, sub : m = req[h].id /\ sub = req[h].sub
  OBVIOUS
<1>4. CASE /\ m \in DOMAIN messages /\ \E r \in Ratings : feedback' = Put(feedback, <<m, sub>>, r)
           /\ Return(h, Applied(m))
  <2>1. PICK r \in Ratings : feedback' = Put(feedback, <<m, sub>>, r)
    BY <1>4
  <2>2. IdsEvolve /\ Typed /\ RowsBelongTogether
    BY <1>1, SameIds DEF PgInv
  <2>3. DOMAIN feedback' = DOMAIN feedback \cup {<<m, sub>>}
    BY <2>1 DEF Put
  <2>4. messages[m].sub = sub /\ SettledMessage(m) /\ tx[h] = NoTx /\ At(h, "rate", "upsertFeedback")
    BY <1>1, <1>3, <1>4 DEF Rating, SettledMessage
  <2>5. <<m, sub>> \in Minted \X Subjects
    BY <1>3, <2>4 DEF SettledMessage, At, Request
  <2>6. DOMAIN feedback' \subseteq Minted \X Subjects /\ feedback' \in [DOMAIN feedback' -> Ratings]
    <3>1. PICK key, Keys : key = <<m, sub>> /\ Keys = Minted \X Subjects
      OBVIOUS
    <3>2. key \in Keys /\ feedback' = Put(feedback, key, r)
      BY <2>1, <2>5, <3>1
    <3>3. DOMAIN feedback \subseteq Keys /\ feedback \in [DOMAIN feedback -> Ratings]
      BY <2>2, <3>1 DEF Typed
    <3>4. DOMAIN feedback' \subseteq Keys /\ feedback' \in [DOMAIN feedback' -> Ratings]
      BY <3>2, <3>3, PutType
    <3>. QED BY <3>1, <3>4
  <2>7. /\ SessionsEvolve(h) /\ Session(h)' /\ req' = req
        /\ DOMAIN tx'[h].conversations = {} /\ DOMAIN tx'[h].messages = {}
        /\ Told(h)' => HandlerOK(h)'
    BY <1>4, <2>2, CommitReturns
  <2>8. RowsOK(conversations, Conversation)' /\ RowsOK(messages, Message)'
    BY <1>1, <2>2, SameTypes DEF Typed, RowsOK
  <2>9. Typed'
    BY <2>2, <2>6, <2>7, <2>8, CommitTypes
  <2>10. ConversationsEvolve(h) /\ MessagesEvolve(h)
    BY <1>1, <2>2, <2>7 DEF ConversationsEvolve, MessagesEvolve, RowsBelongTogether
  <2>11. FeedbackEvolves
    BY <1>1, <1>4, <2>2, <2>3, <2>4 DEF FeedbackEvolves, RowsBelongTogether
  <2>12. PromisesEvolve
    BY <1>1, <2>2, QuietPromises
  <2>13. Told(h)'
    <3>1. req'[h].op = "rate" /\ req'[h].id = m /\ req'[h].sub = sub
      BY <1>3, <2>4, <2>7 DEF At
    <3>2. m \in Minted' /\ \A g \in Handlers : m \notin DOMAIN tx'[g].messages
      <4>1. \A g \in Handlers \ {h} : tx'[g] = tx[g]
        BY <2>7, SameSession
      <4>. QED BY <1>1, <2>4, <2>7, <4>1, SameTypes DEF SettledMessage
    <3>. QED BY <2>3, <3>1, <3>2 DEF Told, SettledMessage
  <2>. QED BY <2>2, <2>7, <2>9, <2>10, <2>11, <2>12, <2>13, StepOK DEF Evolves
<1>. QED BY <1>2, <1>3, <1>4 DEF UpsertFeedback

(* BranchFromMessage.  The source is found, and what the branch should     *)
(* hold is what the copy will find.                                        *)
LEMMA UpToIsCopied ==
  ASSUME PgInv, NEW m \in DOMAIN messages
  PROVE  UpTo(m) \subseteq Copied(messages[m].conv, messages[m].sub, messages[m].createdAt)
<1>1. \A x \in DOMAIN messages : messages[x].createdAt \in Int
  BY WorkloadAssumption DEF PgInv, Typed, RowsOK, Message
<1>2. ASSUME NEW x \in UpTo(m)
      PROVE  x \in DOMAIN messages /\ messages[x].conv = messages[m].conv
             /\ messages[x].createdAt <= messages[m].createdAt
  BY <1>1, <1>2 DEF UpTo, MessagesOf
<1>3. \A x, y \in DOMAIN messages : messages[x].conv = messages[y].conv => messages[x].sub = messages[y].sub
  BY DEF PgInv, RowsBelongTogether
<1>. QED BY <1>2, <1>3 DEF Copied, MessagesOf

(* The id of the branch is minted here, and nobody else knows it.          *)
LEMMA FindSourceOK == ASSUME PgInv, NEW h \in Handlers, FindSource(h) PROVE PgInv'
<1>1. /\ tx[h] = NoTx /\ At(h, "branch", "findSource") /\ UNCHANGED tables
      /\ conversations' = conversations /\ messages' = messages
  BY AtStatement DEF FindSource, Runs, PlainStatements, Plain, tables
<1>2. CASE Return(h, {ErrNotFound}) /\ UNCHANGED <<nextId, promised>>
  BY <1>1, <1>2, ErrorOK
<1>3. PICK m, c, sub, b, cut, contents :
        /\ m = req[h].id /\ c = messages[m].conv /\ sub = req[h].sub /\ b = nextId
        /\ cut = messages[m].createdAt /\ contents = {messages[x].content : x \in UpTo(m)}
  OBVIOUS
<1>5. ASSUME NEW now \in Times, NEW row, NEW rows, NEW promise, NEW empty, NEW new,
             row = [sub |-> sub, updatedAt |-> now,
                    title |-> BranchTitle(req[h].title, conversations[c].title)],
             rows = Put(EmptyTable, b, row),
             promise = [source |-> c, title |-> conversations[c].title,
                        at |-> m, cut |-> cut, due |-> UpTo(m), contents |-> contents],
             empty = EmptyTable,
             new = [conversations |-> rows, messages |-> empty],
             OwnsMessage(sub, m), OwnsConversation(sub, c),
             MintIds(1), GoOn(h, "copyMessages"),
             tx' = [tx EXCEPT ![h].conversations = rows],
             promised' = Put(promised, b, promise)
      PROVE  PgInv'
  <2>1. /\ b \in Nat \ {0} /\ nextId' = b + 1 /\ b \in Minted' /\ IdsEvolve
        /\ Typed /\ RowsBelongTogether /\ PromisesKept
    <3>1. nextId' = nextId + 1 /\ nextId \in Minted'
      BY <1>5, MintOne
    <3>2. Typed /\ RowsBelongTogether /\ PromisesKept
      BY DEF PgInv
    <3>3. nextId \in Nat \ {0}
      BY <3>2 DEF Typed
    <3>4. IdsEvolve
      BY <3>1, <3>3 DEF IdsEvolve
    <3>. QED BY <1>3, <3>1, <3>2, <3>3, <3>4
  <2>2. /\ b \notin DOMAIN conversations /\ b \notin DOMAIN promised /\ b \notin Minted
        /\ \A g \in Handlers : b \notin DOMAIN tx[g].conversations
    BY <1>3, FreshId
  <2>3. /\ m \in DOMAIN messages /\ messages[m].sub = sub
        /\ c \in DOMAIN conversations /\ conversations[c] \in Conversation
        /\ sub \in Subjects /\ req[h].title \in TitlesOver(Words)
    <3>1. m \in DOMAIN messages /\ messages[m].sub = sub /\ c \in DOMAIN conversations
      BY <1>5 DEF OwnsMessage, OwnsConversation
    <3>2. conversations[c] \in Conversation
      BY <2>1, <3>1 DEF Typed, RowsOK
    <3>3. sub \in Subjects /\ req[h].title \in TitlesOver(Words)
      BY <1>1, <1>3, WorkloadAssumption DEF At, Request
    <3>. QED BY <3>1, <3>2, <3>3
  <2>4. row \in Conversation' /\ row.sub = sub
    <3>1. conversations[c].title \in Seq(Words \cup {Suffix})
      BY <2>3 DEF Conversation, TitlesOver
    <3>2. BranchTitle(req[h].title, conversations[c].title) \in TitlesOver(Words)
      BY <2>3, <3>1 DEF BranchTitle, TitlesOver
    <3>. QED BY <1>5, <2>3, <3>2 DEF Conversation
  <2>5. rows = Put(EmptyTable, b, row) /\ promise.source = c /\ promise.cut = cut /\ promise.contents = contents
    BY <1>5
  <2>6. DOMAIN rows = {b} /\ rows[b] = row
    BY <2>5, OneRow
  <2>7. RowsOK(new.conversations, Conversation)' /\ RowsOK(new.messages, Message)'
    <3>1. DOMAIN rows \subseteq Minted' /\ rows \in [DOMAIN rows -> Conversation']
      BY <2>1, <2>4, <2>5, OneRowType
    <3>. QED BY <1>5, <3>1, EmptyRows DEF RowsOK
  <2>8. tx'[h] = new /\ DOMAIN tx' = Handlers /\ \A g \in Handlers \ {h} : tx'[g] = tx[g]
    <3>1. tx' = [tx EXCEPT ![h].conversations = rows]
      BY <1>5
    <3>2. DOMAIN tx' = Handlers /\ \A g \in Handlers \ {h} : tx'[g] = tx[g]
      BY <3>1, TxWritesConversations
    <3>3. \A x, y : tx[h] = [conversations |-> x, messages |-> y] =>
                     tx'[h] = [conversations |-> rows, messages |-> y]
      BY <3>1, TxWritesConversations
    <3>4. tx[h] = [conversations |-> empty, messages |-> empty]
      BY <1>1, <1>5 DEF NoTx
    <3>. QED BY <1>5, <3>2, <3>3, <3>4
  <2>9. SessionsEvolve(h) /\ Session(h)' /\ req' = req /\ pc'[h] = "copyMessages" /\ tx'[h] = new
    <3>1. "copyMessages" \in Statements
      BY DEF Statements
    <3>. QED BY <1>5, <2>1, <2>7, <2>8, <3>1, GoOnOK
  <2>10. new.conversations = rows /\ new.messages = empty /\ DOMAIN empty = {}
    BY <1>5, EmptyRows
  <2>11. ConversationsEvolve(h) /\ MessagesEvolve(h) /\ FeedbackEvolves
    BY <1>1, <2>1, <2>2, <2>6, <2>9, <2>10, QuietTables
  <2>12. /\ DOMAIN promised' = DOMAIN promised \cup {b} /\ promised'[b] = promise
         /\ \A x \in DOMAIN promised : promised'[x] = promised[x]
    BY <1>5, <2>2 DEF Put
  <2>13. PromisesEvolve
    <3>1. DOMAIN promised' \subseteq Minted'
      BY <2>1, <2>12, TypesGrow DEF Typed, PromisesKept
    <3>. QED BY <1>1, <2>2, <2>3, <2>5, <2>12, <3>1 DEF PromisesEvolve
  <2>14. Branches(h, b)' /\ b \in Minted'
    <3>1. OnlyIn(h, b)'
      BY <1>1, <2>2, <2>8 DEF OnlyIn
    <3>2. req'[h].sub = sub
      BY <1>3, <2>9
    <3>3. b \in DOMAIN promised' /\ tx'[h].conversations = rows
      BY <2>9, <2>10, <2>12
    <3>4. DOMAIN tx'[h].conversations = {b} /\ tx'[h].conversations[b].sub = req'[h].sub
      BY <2>4, <2>6, <3>2, <3>3
    <3>. QED BY <1>3, <2>1, <3>1, <3>3, <3>4 DEF Branches, OnlyIn
  <2>15. contents \subseteq {messages[x].content : x \in Copied(c, sub, cut)}
    BY <1>3, <2>3, UpToIsCopied
  <2>16. At(h, "branch", "copyMessages")'
    BY <1>1, <2>1, <2>9, RequestStays DEF At
  <2>17. Copying(h)'
    <3>1. promised'[b].contents \subseteq
            {messages'[x].content : x \in Copied(promised[b].source, req[h].sub, promised[b].cut)'}
      BY <1>1, <1>3, <2>5, <2>9, <2>12, <2>15 DEF Copied, MessagesOf
    <3>2. tx'[h] = [conversations |-> tx'[h].conversations, messages |-> EmptyTable]
      BY <1>5, <2>9, <2>10
    <3>. QED BY <2>14, <2>16, <3>1, <3>2 DEF Copying
  <2>18. Typed'
    BY <1>1, <2>1, <2>9, QuietTypes
  <2>. QED BY <2>1, <2>9, <2>11, <2>13, <2>17, <2>18, StepOK DEF Evolves, HandlerOK
<1>6. ASSUME OwnsMessage(sub, m), OwnsConversation(sub, c) PROVE PgInv'
  <2>1. /\ MintIds(1) /\ GoOn(h, "copyMessages")
        /\ promised' = Put(promised, b,
             [source |-> c, title |-> conversations[c].title,
              at |-> m, cut |-> cut, due |-> UpTo(m), contents |-> contents])
        /\ \E now \in Times :
             tx' = [tx EXCEPT ![h].conversations = Put(EmptyTable, b,
               [sub |-> sub, updatedAt |-> now,
                title |-> BranchTitle(req[h].title, conversations[c].title)])]
    BY <1>3, <1>6 DEF FindSource
  <2>2. PICK now \in Times :
          tx' = [tx EXCEPT ![h].conversations = Put(EmptyTable, b,
            [sub |-> sub, updatedAt |-> now,
             title |-> BranchTitle(req[h].title, conversations[c].title)])]
    BY <2>1
  <2>3. PICK row, rows, promise, empty, new :
          /\ row = [sub |-> sub, updatedAt |-> now,
                    title |-> BranchTitle(req[h].title, conversations[c].title)]
          /\ rows = Put(EmptyTable, b, row)
          /\ promise = [source |-> c, title |-> conversations[c].title,
                        at |-> m, cut |-> cut, due |-> UpTo(m), contents |-> contents]
          /\ empty = EmptyTable
          /\ new = [conversations |-> rows, messages |-> empty]
    OBVIOUS
  <2>4. tx' = [tx EXCEPT ![h].conversations = rows] /\ promised' = Put(promised, b, promise)
    BY <2>1, <2>2, <2>3
  <2>. QED BY <1>5, <1>6, <2>1, <2>3, <2>4
<1>. QED BY <1>2, <1>3, <1>6 DEF FindSource

(* A sequence of a finite set misses none of its elements.                 *)
LEMMA SequenceOfSet ==
  ASSUME NEW S, IsFiniteSet(S), NEW q \in SetToSeqs(S), NEW n, n = Cardinality(S)
  PROVE  /\ n \in Nat /\ Len(q) = n
         /\ \A i \in 1..n : q[i] \in S
         /\ \A x \in S : \E i \in 1..n : q[i] = x
<1>1. n \in Nat
  BY FS_CardinalityType
<1>2. q \in [1..n -> S] /\ \A i, j \in 1..n : i # j => q[i] # q[j]
  BY DEF SetToSeqs
<1>3. Len(q) = n
  BY <1>1, <1>2
<1>4. q \in Injection(1..n, S)
  BY <1>2 DEF Injection, IsInjective
<1>5. IsFiniteSet(1..n) /\ Cardinality(1..n) = n
  BY <1>1, FS_Interval
<1>6. q \in Surjection(1..n, S)
  BY <1>4, <1>5, FS_Injection
<1>. QED BY <1>1, <1>2, <1>3, <1>6 DEF Surjection

(* There are only finitely many messages.                                  *)
LEMMA CopiedFinite ==
  ASSUME PgInv, NEW S \in SUBSET DOMAIN messages
  PROVE  IsFiniteSet(S)
<1>1. nextId \in Nat /\ DOMAIN messages \subseteq 1 .. nextId - 1
  BY DEF PgInv, Typed, RowsOK, Minted
<1>2. IsFiniteSet(1 .. nextId - 1)
  BY <1>1, FS_Interval
<1>. QED BY <1>1, <1>2, FS_Subset

(* The messages it has read are inserted under ids of their own.           *)
LEMMA CopyMessagesOK == ASSUME PgInv, NEW h \in Handlers, CopyMessages(h) PROVE PgInv'
<1>1. Copying(h) /\ UNCHANGED <<tables, promised>> /\ GoOn(h, "commitBranch")
      /\ conversations' = conversations /\ messages' = messages
  BY AtStatement DEF CopyMessages, Runs, tables
<1>2. PICK cs, sub : cs = tx[h].conversations /\ sub = req[h].sub
  OBVIOUS
<1>3. PICK b \in Minted :
        /\ Branches(h, b)
        /\ promised[b].source \in DOMAIN conversations =>
             promised[b].contents \subseteq
               {messages[m].content : m \in Copied(promised[b].source, sub, promised[b].cut)}
  BY <1>1, <1>2 DEF Copying
<1>4. DOMAIN cs = {b} /\ cs[b].sub = sub /\ b \in DOMAIN promised /\ OnlyIn(h, b)
  BY <1>2, <1>3 DEF Branches
<1>5. PICK S, n, first :
        /\ S = Copied(promised[b].source, sub, promised[b].cut)
        /\ n = Cardinality(S) /\ first = nextId
  OBVIOUS
<1> DEFINE dst == CHOOSE c \in DOMAIN tx[h].conversations : TRUE
           Rows(d, q) == [m \in nextId .. nextId + Len(q) - 1 |->
                            [conv |-> d, sub |-> req[h].sub,
                             content |-> messages[q[m - nextId + 1]].content,
                             createdAt |-> tx[h].conversations[d].updatedAt]]
<1>6. /\ MintIds(Cardinality(Copied(promised[dst].source, req[h].sub, promised[dst].cut)))
       /\ \E q \in InTimeOrder(Copied(promised[dst].source, req[h].sub, promised[dst].cut)) :
            tx' = [tx EXCEPT ![h].messages = Rows(dst, q)]
  BY Zenon DEF CopyMessages
<1>7. dst = b
  BY <1>2, <1>4
<1>. HIDE DEF dst
<1>8. MintIds(n)
  BY <1>2, <1>5, <1>6, <1>7
<1>9. PICK q \in InTimeOrder(S) : tx' = [tx EXCEPT ![h].messages = Rows(b, q)]
  <2>. HIDE DEF Rows
  <2>. QED BY <1>2, <1>5, <1>6, <1>7
<1>10. PICK rows : rows = Rows(b, q)
  OBVIOUS
<1>11. rows = [m \in first .. first + Len(q) - 1 |->
                [conv |-> b, sub |-> sub, content |-> messages[q[m - first + 1]].content,
                 createdAt |-> cs[b].updatedAt]]
  BY <1>2, <1>5, <1>10
<1>. HIDE DEF Rows
<1>12. PICK new : new = [conversations |-> cs, messages |-> rows]
  OBVIOUS
<1>13. /\ S \subseteq DOMAIN messages /\ n \in Nat /\ Len(q) = n
       /\ \A i \in 1..n : q[i] \in S
       /\ \A x \in S : \E i \in 1..n : q[i] = x
  <2>1. S \subseteq DOMAIN messages /\ q \in SetToSeqs(S) /\ n = Cardinality(S)
    BY <1>5, <1>9 DEF Copied, MessagesOf, InTimeOrder
  <2>2. IsFiniteSet(S)
    BY <2>1, CopiedFinite
  <2>. QED BY <2>1, <2>2, SequenceOfSet
<1>14. /\ Typed /\ first \in Nat \ {0} /\ nextId' = first + n /\ IdsEvolve
       /\ \A x \in first .. first + n - 1 : x \in Minted'
  BY <1>1, <1>5, <1>8, <1>13 DEF MintIds, PgInv, Typed, IdsEvolve, Minted
<1>15. /\ DOMAIN rows = first .. first + n - 1
       /\ \A x \in DOMAIN rows : rows[x].conv = b /\ rows[x].sub = sub
       /\ \A i \in 1..n : first + i - 1 \in DOMAIN rows /\ rows[first + i - 1].content = messages[q[i]].content
  <2>1. DOMAIN rows = first .. first + n - 1
    BY <1>11, <1>13
  <2>2. ASSUME NEW i \in 1..n
        PROVE  first + i - 1 \in DOMAIN rows /\ rows[first + i - 1].content = messages[q[i]].content
    <3>1. PICK x : x = first + i - 1
      OBVIOUS
    <3>2. x \in first .. first + n - 1 /\ x - first + 1 = i
      BY <1>13, <1>14, <3>1
    <3>. QED BY <1>11, <1>13, <2>1, <3>1, <3>2
  <2>. QED BY <1>11, <2>1, <2>2
<1>16. rows \in [DOMAIN rows -> Message'] /\ DOMAIN rows \subseteq Minted'
  <2>1. /\ b \in Minted' /\ Minted \subseteq Minted' /\ cs[b].updatedAt \in Times /\ sub \in Subjects
    <3>1. cs[b] \in Conversation
      BY <1>2, <1>4 DEF PgInv, HandlersOK, Session, RowsOK
    <3>2. sub \in Subjects /\ cs[b].updatedAt \in Times
      BY <1>4, <3>1 DEF Conversation
    <3>3. Minted \subseteq Minted'
      BY <1>14, TypesGrow DEF Typed
    <3>. QED BY <1>1, <3>2, <3>3
  <2>2. ASSUME NEW x \in DOMAIN rows PROVE rows[x] \in Message'
    <3>1. PICK y : y = q[x - first + 1]
      OBVIOUS
    <3>2. x - first + 1 \in 1..n
      BY <1>13, <1>14, <1>15
    <3>3. messages[y].content \in Minted'
      BY <1>13, <1>14, <2>1, <3>1, <3>2 DEF Typed, RowsOK, Message
    <3>4. rows[x] = [conv |-> b, sub |-> sub, content |-> messages[y].content, createdAt |-> cs[b].updatedAt]
      BY <1>11, <1>13, <1>15, <3>1
    <3>. QED BY <2>1, <3>3, <3>4 DEF Message
  <2>. QED BY <1>11, <1>14, <1>15, <2>2
<1>17. tx'[h] = new /\ DOMAIN tx' = Handlers /\ \A g \in Handlers \ {h} : tx'[g] = tx[g]
  <2>1. tx' = [tx EXCEPT ![h].messages = rows]
    BY <1>9, <1>10
  <2>2. DOMAIN tx' = Handlers /\ \A g \in Handlers \ {h} : tx'[g] = tx[g]
    BY <2>1, TxWritesMessages
  <2>3. PICK empty : empty = EmptyTable
    OBVIOUS
  <2>4. tx[h] = [conversations |-> cs, messages |-> empty]
    BY <1>1, <1>2, <2>3 DEF Copying
  <2>5. tx'[h] = [conversations |-> cs, messages |-> rows]
    <3>1. PICK t : t = tx[h]
      OBVIOUS
    <3>2. tx'[h] = [t EXCEPT !.messages = rows]
      BY <2>1, <3>1 DEF PgInv, HandlersOK, Domains
    <3>3. [t EXCEPT !.messages = rows] = [conversations |-> cs, messages |-> rows]
      BY <2>4, <3>1
    <3>. QED BY <3>2, <3>3
  <2>. QED BY <1>12, <2>2, <2>5
<1>18. new.conversations = cs /\ new.messages = rows
  BY <1>12
<1>19. RowsOK(new.conversations, Conversation)' /\ RowsOK(new.messages, Message)'
  <2>1. RowsOK(cs, Conversation)
    BY <1>2 DEF PgInv, HandlersOK, Session
  <2>2. Minted \subseteq Minted' /\ Conversation \subseteq Conversation'
    BY <1>14, TypesGrow DEF Typed
  <2>. QED BY <1>16, <1>18, <2>1, <2>2 DEF RowsOK
<1>20. SessionsEvolve(h) /\ Session(h)' /\ req' = req /\ pc'[h] = "commitBranch" /\ tx'[h] = new
  <2>1. "commitBranch" \in Statements
    BY DEF Statements
  <2>. QED BY <1>1, <1>14, <1>17, <1>19, <2>1, GoOnOK
<1>21. \A x \in DOMAIN rows : x \notin Minted /\ x \notin DOMAIN messages
                                /\ \A g \in Handlers : x \notin DOMAIN tx[g].messages
  <2>1. \A x \in DOMAIN rows : x \notin Minted
    BY <1>5, <1>14, <1>15 DEF Minted
  <2>. QED BY <2>1, FreshId
<1>22. RowsAreNew(h)'
  BY <1>1, <1>17, <1>18, <1>20, <1>21 DEF RowsAreNew
<1>23. Branches(h, b)' /\ b \in Minted'
  <2>1. OnlyIn(h, b)'
    BY <1>1, <1>4, <1>17 DEF OnlyIn
  <2>2. b \in Minted'
    BY <1>14, TypesGrow DEF Typed
  <2>. QED BY <1>1, <1>2, <1>4, <1>18, <1>20, <2>1, <2>2 DEF Branches
<1>24. promised[b].source \in DOMAIN conversations =>
         promised[b].contents \subseteq {rows[x].content : x \in DOMAIN rows}
  <2>1. ASSUME NEW x \in S PROVE \E y \in DOMAIN rows : rows[y].content = messages[x].content
    <3>1. PICK i \in 1..n : q[i] = x
      BY <1>13
    <3>. QED BY <1>15, <3>1
  <2>. QED BY <1>3, <1>5, <2>1
<1>25. At(h, "branch", "commitBranch")'
  BY <1>1, <1>14, <1>20, RequestStays DEF Copying, At
<1>26. CommittingBranch(h)'
  <2>1. tx'[h].messages = rows /\ req'[h].sub = sub /\ promised' = promised
    BY <1>1, <1>2, <1>18, <1>20
  <2>. QED BY <1>1, <1>15, <1>22, <1>23, <1>24, <1>25, <2>1 DEF CommittingBranch
<1>. QED BY <1>1, <1>2, <1>14, <1>18, <1>20, <1>21, <1>26, QuietOK DEF HandlerOK

(* The branch and its messages become visible together.                    *)
LEMMA CommitBranchOK == ASSUME PgInv, NEW h \in Handlers, CommitBranch(h) PROVE PgInv'
<1>1. CommittingBranch(h) /\ UNCHANGED <<feedback, nextId, promised>>
  BY AtStatement DEF CommitBranch, Runs
<1>2. PICK cs, ms, sub : cs = tx[h].conversations /\ ms = tx[h].messages /\ sub = req[h].sub
  OBVIOUS
<1>3. PICK b \in Minted :
        /\ Branches(h, b)
        /\ \A m \in DOMAIN ms : ms[m].conv = b /\ ms[m].sub = sub
        /\ promised[b].source \in DOMAIN conversations =>
             promised[b].contents \subseteq {ms[m].content : m \in DOMAIN ms}
  BY <1>1, <1>2 DEF CommittingBranch
<1>4. /\ DOMAIN cs = {b} /\ cs[b].sub = sub /\ b \in DOMAIN promised /\ b \notin DOMAIN conversations
      /\ \A m \in DOMAIN ms : m \notin DOMAIN messages
      /\ At(h, "branch", "commitBranch")
  BY <1>1, <1>2, <1>3 DEF Branches, OnlyIn, CommittingBranch, RowsAreNew
<1>5. /\ conversations' = Overlay(cs, conversations) /\ messages' = Overlay(ms, messages)
      /\ Return(h, Applied(b))
  BY <1>2, <1>4 DEF CommitBranch
<1>6. /\ IdsEvolve /\ Typed /\ RowsBelongTogether /\ PromisesKept
      /\ RowsOK(cs, Conversation) /\ RowsOK(ms, Message)
  BY <1>1, <1>2, SameIds DEF PgInv, HandlersOK, Session
<1>7. /\ DOMAIN conversations' = DOMAIN conversations \cup {b} /\ conversations'[b] = cs[b]
      /\ \A x \in DOMAIN conversations : conversations'[x] = conversations[x]
  BY <1>4, <1>5 DEF Overlay
<1>8. /\ DOMAIN messages' = DOMAIN messages \cup DOMAIN ms
      /\ \A x \in DOMAIN ms : messages'[x] = ms[x]
      /\ \A x \in DOMAIN messages : messages'[x] = messages[x]
  BY <1>4, <1>5 DEF Overlay
<1>9. RowsOK(conversations, Conversation)' /\ RowsOK(messages, Message)'
  <2>1. DOMAIN conversations' \subseteq Minted /\ conversations' \in [DOMAIN conversations' -> Conversation]
    BY <1>5, <1>6, OverlayType DEF Typed, RowsOK
  <2>2. DOMAIN messages' \subseteq Minted /\ messages' \in [DOMAIN messages' -> Message]
    BY <1>5, <1>6, OverlayType DEF Typed, RowsOK
  <2>. QED BY <1>1, <2>1, <2>2, SameTypes DEF RowsOK
<1>10. /\ SessionsEvolve(h) /\ Session(h)' /\ req' = req
       /\ DOMAIN tx'[h].conversations = {} /\ DOMAIN tx'[h].messages = {}
       /\ Told(h)' => HandlerOK(h)'
  BY <1>5, <1>6, CommitReturns
<1>11. Typed'
  BY <1>1, <1>6, <1>9, <1>10, CommitTypes DEF Typed
<1>12. ConversationsEvolve(h)
  BY <1>2, <1>4, <1>7, <1>10 DEF ConversationsEvolve
<1>13. MessagesEvolve(h)
  BY <1>2, <1>3, <1>4, <1>6, <1>7, <1>8, <1>10 DEF MessagesEvolve, RowsBelongTogether
<1>14. FeedbackEvolves
  BY <1>1, <1>6, <1>8 DEF FeedbackEvolves, RowsBelongTogether
<1>15. PromisesEvolve
  <2>1. ASSUME promised[b].source \in DOMAIN conversations' PROVE promised[b].contents \subseteq ContentsOf(b)'
    <3>1. PICK source : source = promised[b].source
      OBVIOUS
    <3>2. source # b
      BY <1>2, <1>4, <1>6, <3>1 DEF PromisesKept, Settled
    <3>3. promised[b].contents \subseteq {ms[m].content : m \in DOMAIN ms}
      BY <1>3, <1>7, <2>1, <3>1, <3>2
    <3>4. \A m \in DOMAIN ms : m \in DOMAIN messages' /\ messages'[m].conv = b /\ messages'[m].content = ms[m].content
      BY <1>3, <1>8
    <3>. QED BY <3>3, <3>4 DEF ContentsOf, MessagesOf
  <2>2. DOMAIN promised' \subseteq Minted'
    BY <1>1, <1>6, SameTypes DEF PromisesKept
  <2>3. DOMAIN conversations' \ DOMAIN conversations = {b}
    BY <1>4, <1>7
  <2>. QED BY <1>1, <2>1, <2>2, <2>3 DEF PromisesEvolve
<1>16. HandlerOK(h)'
  <2>1. req'[h].op = "branch"
    BY <1>4, <1>10 DEF At
  <2>. QED BY <1>10, <2>1, NothingTold
<1>. QED BY <1>6, <1>10, <1>11, <1>12, <1>13, <1>14, <1>15, <1>16, StepOK DEF Evolves
-----------------------------------------------------------------------------
(***************************************************************************)
(* The invariant of the specification and what follows from it.            *)
(***************************************************************************)
LEMMA StutterOK == ASSUME PgInv, UNCHANGED vars PROVE PgInv'
<1>1. /\ conversations' = conversations /\ messages' = messages /\ feedback' = feedback
      /\ nextId' = nextId /\ pc' = pc /\ req' = req /\ conns' = conns
      /\ tx' = tx /\ reply' = reply /\ promised' = promised /\ started' = started
  BY DEF vars, tables, session
<1>2. Conversation' = Conversation /\ Message' = Message /\ Minted' = Minted /\ Request' = Request
  BY <1>1, SameTypes
<1>3. Typed' /\ RowsBelongTogether'
  BY <1>1, <1>2 DEF PgInv, Typed, RowsOK, RowsBelongTogether
<1>4. PromisesKept'
  BY <1>1, <1>2 DEF PgInv, PromisesKept, Settled, BranchLosesNothing, ContentsOf, MessagesOf
<1>5. ASSUME NEW h \in Handlers PROVE Session(h)' /\ HandlerOK(h)'
  <2>1. Session(h) /\ HandlerOK(h)
    BY DEF PgInv, HandlersOK
  <2>2. Session(h)'
    BY <1>1, <1>2, <2>1 DEF Session, RowsOK
  <2>3. /\ Told(h) => Told(h)'
        /\ \A op, statement : At(h, op, statement) => At(h, op, statement)'
        /\ Settled(req[h].id) => Settled(req[h].id)'
        /\ SettledMessage(req[h].id) => SettledMessage(req[h].id)'
        /\ Locked(h) => Locked(h)'
        /\ RowsAreNew(h) => RowsAreNew(h)'
        /\ \A b : Branches(h, b) => Branches(h, b)'
    BY <1>1, <1>2 DEF Told, Settled, SettledMessage, MessagesOf, At, Locked, RowsAreNew, Branches, OnlyIn
  <2>4. Wrote(h) => Wrote(h)'
    BY <1>1, <1>2, <2>3 DEF Wrote
  <2>5. CASE Idle(h) \/ Plain(h)
    BY <1>1, <2>2, <2>3, <2>5 DEF Idle, Plain, HandlerOK
  <2>6. CASE Inserting(h) \/ Rating(h)
    BY <1>1, <2>2, <2>3, <2>6 DEF Inserting, Rating, HandlerOK
  <2>7. CASE Touching(h) \/ CommittingAppend(h)
    BY <1>1, <2>2, <2>3, <2>4, <2>7 DEF Touching, CommittingAppend, HandlerOK
  <2>8. CASE Copying(h)
    BY <1>1, <1>2, <2>2, <2>3, <2>8 DEF Copying, HandlerOK, Copied, MessagesOf
  <2>9. CASE CommittingBranch(h)
    BY <1>1, <1>2, <2>2, <2>3, <2>9 DEF CommittingBranch, HandlerOK
  <2>. QED BY <2>1, <2>2, <2>5, <2>6, <2>7, <2>8, <2>9 DEF HandlerOK
<1>6. HandlersOK'
  BY <1>1, <1>5 DEF PgInv, HandlersOK, Domains
<1>. QED BY <1>3, <1>4, <1>6 DEF PgInv

(* Every statement of every method, every cancellation and everything the  *)
(* pool does keeps the invariant.                                          *)
LEMMA StepPg == PgInv /\ [Next]_vars => PgInv'
<1>1. CASE UNCHANGED vars
  BY <1>1, StutterOK
<1>2. CASE Quiescent
  BY <1>2, StutterOK DEF Quiescent
<1>3. ASSUME PgInv, NEW h \in Handlers, Begin(h) \/ Acquire(h) \/ Cancel(h) PROVE PgInv'
  BY <1>3, BeginOK, AcquireOK, CancelOK
<1>4. ASSUME PgInv, NEW h \in Handlers, Statement(h) PROVE PgInv'
  <2>1. CASE InsertConversation(h) \/ UpdateTitle(h) \/ ReadBack(h) \/ DeleteConversation(h)
    BY <1>4, <2>1, InsertConversationOK, UpdateTitleOK, ReadsOK, DeleteOK
  <2>2. CASE CheckOwner(h) \/ InsertMessage(h) \/ TouchConversation(h) \/ CommitAppend(h)
    BY <1>4, <2>2, CheckOwnerOK, InsertMessageOK, TouchOK, CommitAppendOK
  <2>3. CASE CheckListed(h) \/ SelectMessages(h) \/ CheckMessage(h) \/ UpsertFeedback(h)
    BY <1>4, <2>3, ListedOK, ReadsOK, CheckMessageOK, UpsertFeedbackOK
  <2>4. CASE FindSource(h) \/ CopyMessages(h) \/ CommitBranch(h)
    BY <1>4, <2>4, FindSourceOK, CopyMessagesOK, CommitBranchOK
  <2>. QED BY <1>4, <2>1, <2>2, <2>3, <2>4 DEF Statement
<1>. QED BY <1>1, <1>2, <1>3, <1>4 DEF Next

(* So the invariant always holds.                                          *)
LEMMA PgCorrect == Spec => []PgInv
BY InitPg, StepPg, PTL DEF Spec

(* TypeOK: every row, request and transaction keeps its type, and keys are *)
(* ids that were minted.                                                   *)
THEOREM TypeCorrect == Spec => []TypeOK
<1>1. PgInv => TypeOK
  BY DEF PgInv, Typed, HandlersOK, Domains, Session, PromisesKept, TypeOK
<1>. QED BY <1>1, PgCorrect, PTL

(* RowsBelongTogether: no method leaves an orphan or a row of one subject  *)
(* below a row of another, however the statements of several handlers are  *)
(* interleaved.                                                            *)
THEOREM BelongCorrect == Spec => []RowsBelongTogether
<1>1. PgInv => RowsBelongTogether
  BY DEF PgInv
<1>. QED BY <1>1, PgCorrect, PTL

(* AnswersStayTrue: what an append, a rating or a delete has answered      *)
(* stays true of the tables until the handler takes its next request.      *)
THEOREM AnswersCorrect == Spec => []AnswersStayTrue
<1>1. PgInv => AnswersStayTrue
  <2>. SUFFICES ASSUME PgInv, NEW h \in Handlers, pc[h] = "idle", reply[h].err = "nil"
                PROVE  LET r == req[h] IN
                       /\ r.op = "append" /\ r.id \in DOMAIN conversations =>
                            reply[h].value \in MessagesOf(r.id)
                       /\ r.op = "rate" /\ r.id \in DOMAIN messages => <<r.id, r.sub>> \in DOMAIN feedback
                       /\ r.op = "delete" => r.id \notin DOMAIN conversations /\ MessagesOf(r.id) = {}
    BY DEF AnswersStayTrue
  <2>1. Told(h)
    BY AtStatement DEF Idle
  <2>2. \A c : c \notin DOMAIN conversations => MessagesOf(c) = {}
    BY DEF PgInv, RowsBelongTogether, MessagesOf
  <2>. QED BY <2>1, <2>2 DEF Told
<1>. QED BY <1>1, PgCorrect, PTL

(* BranchLosesNothing: a branch whose source is still there holds every    *)
(* message of it up to the one named, although it is read and written in   *)
(* three statements.                                                       *)
THEOREM BranchCorrect == Spec => []BranchLosesNothing
<1>1. PgInv => BranchLosesNothing
  BY DEF PgInv, PromisesKept
<1>. QED BY <1>1, PgCorrect, PTL
-----------------------------------------------------------------------------
(***************************************************************************)
(* Nobody waits in a circle.  Handlers wait upwards only: for a connection *)
(* and so for those that have one; with one, for the row locks of appends; *)
(* the append that has shared the key, for the one that has updated the    *)
(* row; and that one for nobody, as it has its connection and its locks.   *)
(***************************************************************************)
(* A transaction that has begun.                                           *)
Begun == {"insertMessage", "touchConversation", "commitAppend", "copyMessages", "commitBranch"}

(* A handler has at most the connection its statement runs on, and a       *)
(* transaction has kept its own.                                           *)
Connected(h) ==
  /\ \A k \in conns \cap ConnOf(h) : pc[h] # "idle" /\ k = ConnFor(h)
  /\ pc[h] \in Begun => ConnFor(h) \in conns

WaitInv == PgInv /\ \A h \in Handlers : Connected(h)

(* Which connections a statement needs.                                    *)
LEMMA ConnFacts ==
  ASSUME NEW h
  PROVE  /\ pc[h] \in Begun => ConnFor(h) = <<h, "tx">>
         /\ \A k : k \in ConnOf(h) <=> k = <<h, "tx">> \/ k = <<h, "statement">>
         /\ ConnFor(h) \in ConnOf(h)
         /\ <<h, "tx">> # <<h, "statement">>
BY DEF ConnFor, ConnOf, UsesTx, TransactionStatements, Begun

(* A step of h leaves the connections of the others alone.                 *)
LEMMA OthersConnected ==
  ASSUME WaitInv, NEW h \in Handlers, NEW statement, pc' = [pc EXCEPT ![h] = statement],
         \A k : k \notin ConnOf(h) => (k \in conns' <=> k \in conns),
         Connected(h)'
  PROVE  \A g \in Handlers : Connected(g)'
<1>1. DOMAIN pc = Handlers
  BY DEF WaitInv, PgInv, HandlersOK, Domains
<1>2. ASSUME NEW g \in Handlers, g # h PROVE Connected(g)'
  <2>1. pc'[g] = pc[g]
    BY <1>1, <1>2
  <2>2. ConnFor(g)' = ConnFor(g) /\ ConnOf(g)' = ConnOf(g)
    BY <2>1 DEF ConnFor, ConnOf, UsesTx
  <2>3. \A k \in ConnOf(g) : k \notin ConnOf(h)
    BY <1>2 DEF ConnOf
  <2>4. Connected(g) /\ ConnFor(g) \in ConnOf(g)
    BY ConnFacts DEF WaitInv
  <2>. QED BY <2>1, <2>2, <2>3, <2>4 DEF Connected
<1>. QED BY <1>2

LEMMA ReturnConnection ==
  ASSUME WaitInv, NEW h \in Handlers, NEW answers, Return(h, answers)
  PROVE  \A g \in Handlers : Connected(g)'
<1>1. pc' = [pc EXCEPT ![h] = "idle"] /\ conns' = conns \ ConnOf(h)
  BY DEF Return
<1>2. pc'[h] = "idle"
  BY <1>1 DEF WaitInv, PgInv, HandlersOK, Domains
<1>3. Connected(h)'
  BY <1>1, <1>2 DEF Connected, Begun, ConnOf
<1>. QED BY <1>1, <1>3, OthersConnected

LEMMA GoOnConnection ==
  ASSUME WaitInv, NEW h \in Handlers, NEW statement, GoOn(h, statement), statement # "idle",
         \/ statement \in Begun /\ UsesTx(pc[h]) /\ ConnFor(h) \in conns
         \/ statement \notin Begun /\ ~UsesTx(pc[h]) /\ ~UsesTx(statement)
  PROVE  \A g \in Handlers : Connected(g)'
<1>1. pc' = [pc EXCEPT ![h] = statement] /\ conns' = conns \ {<<h, "statement">>}
  BY DEF GoOn
<1>2. pc'[h] = statement
  BY <1>1 DEF WaitInv, PgInv, HandlersOK, Domains
<1>3. \A k \in conns \cap ConnOf(h) : k = ConnFor(h)
  BY DEF WaitInv, Connected
<1>4. Connected(h)'
  <2>1. CASE statement \in Begun /\ UsesTx(pc[h]) /\ ConnFor(h) \in conns
    <3>1. ConnFor(h) = <<h, "tx">> /\ ConnFor(h)' = <<h, "tx">>
      BY <1>2, <2>1 DEF ConnFor, UsesTx, Begun, TransactionStatements
    <3>. QED BY <1>1, <1>2, <1>3, <2>1, <3>1, ConnFacts DEF Connected, ConnOf
  <2>2. CASE statement \notin Begun /\ ~UsesTx(pc[h]) /\ ~UsesTx(statement)
    <3>1. ConnFor(h) = <<h, "statement">>
      BY <2>2 DEF ConnFor
    <3>2. conns' \cap ConnOf(h) = {}
      BY <1>1, <1>3, <3>1
    <3>. QED BY <1>2, <2>2, <3>2 DEF Connected, ConnOf
  <2>. QED BY <2>1, <2>2
<1>. QED BY <1>1, <1>4, ConnFacts, OthersConnected

LEMMA StepConnection == ASSUME WaitInv, [Next]_vars PROVE \A g \in Handlers : Connected(g)'
<1>1. CASE UNCHANGED vars \/ Quiescent
  <2>1. pc' = pc /\ conns' = conns
    BY <1>1 DEF Quiescent, vars, session
  <2>. QED BY <2>1 DEF WaitInv, Connected, ConnFor, ConnOf, UsesTx
<1>2. ASSUME NEW h \in Handlers, Begin(h) PROVE \A g \in Handlers : Connected(g)'
  <2>1. pc[h] = "idle" /\ conns' = conns /\ \E op \in Ops : pc' = [pc EXCEPT ![h] = FirstStatement[op]]
    BY <1>2 DEF Begin
  <2>2. PICK op \in Ops : pc' = [pc EXCEPT ![h] = FirstStatement[op]]
    BY <2>1
  <2>3. FirstStatement[op] \notin Begun
    BY WorkloadAssumption DEF FirstStatement, AllOps, Begun
  <2>4. conns \cap ConnOf(h) = {}
    BY <2>1 DEF WaitInv, Connected
  <2>5. pc'[h] = FirstStatement[op]
    BY <2>2 DEF WaitInv, PgInv, HandlersOK, Domains
  <2>6. Connected(h)'
    BY <2>1, <2>3, <2>4, <2>5 DEF Connected, ConnOf
  <2>. QED BY <2>1, <2>2, <2>6, OthersConnected
<1>3. ASSUME NEW h \in Handlers, Acquire(h) PROVE \A g \in Handlers : Connected(g)'
  <2>1. pc[h] # "idle" /\ pc' = pc /\ conns' = conns \cup {ConnFor(h)}
    BY <1>3 DEF Acquire
  <2>2. \A g \in Handlers : ConnFor(g)' = ConnFor(g) /\ ConnOf(g)' = ConnOf(g)
    BY <2>1 DEF ConnFor, ConnOf, UsesTx
  <2>3. \A g \in Handlers : g # h => ConnFor(h) \notin ConnOf(g)
    BY DEF ConnFor, ConnOf
  <2>. QED BY <2>1, <2>2, <2>3 DEF WaitInv, Connected
<1>4. ASSUME NEW h \in Handlers, Cancel(h) PROVE \A g \in Handlers : Connected(g)'
  BY <1>4, ReturnConnection DEF Cancel
<1>5. ASSUME NEW h \in Handlers, Statement(h) PROVE \A g \in Handlers : Connected(g)'
  <2>1. CASE InsertConversation(h) \/ ReadBack(h) \/ SelectMessages(h)
    BY <2>1, ReturnConnection DEF InsertConversation, ReadBack, SelectMessages
  <2>2. CASE CommitAppend(h) \/ CommitBranch(h)
    BY <2>2, ReturnConnection DEF CommitAppend, CommitBranch
  <2>3. CASE DeleteConversation(h) \/ UpsertFeedback(h)
    BY <2>3, ReturnConnection DEF DeleteConversation, UpsertFeedback
  <2>4. CASE UpdateTitle(h) \/ CheckListed(h) \/ CheckMessage(h)
    <3>1. pc[h] \in {"updateTitle", "checkListed", "checkMessage"}
      BY <2>4 DEF UpdateTitle, CheckListed, CheckMessage, Runs
    <3>2. ASSUME NEW statement \in {"readBack", "selectMessages", "upsertFeedback"}, GoOn(h, statement)
          PROVE  \A g \in Handlers : Connected(g)'
      <4>1. statement # "idle" /\ statement \notin Begun /\ ~UsesTx(pc[h]) /\ ~UsesTx(statement)
        BY <3>1, <3>2 DEF Begun, UsesTx, TransactionStatements
      <4>. QED BY <3>2, <4>1, GoOnConnection
    <3>. QED BY <2>4, <3>2, ReturnConnection DEF UpdateTitle, CheckListed, CheckMessage
  <2>5. CASE \/ CheckOwner(h) \/ InsertMessage(h) \/ TouchConversation(h)
             \/ FindSource(h) \/ CopyMessages(h)
    <3>1. UsesTx(pc[h]) /\ ConnFor(h) \in conns
      BY <2>5 DEF CheckOwner, InsertMessage, TouchConversation, FindSource, CopyMessages, Runs,
                  UsesTx, TransactionStatements
    <3>2. ASSUME NEW statement \in Begun, GoOn(h, statement)
          PROVE  \A g \in Handlers : Connected(g)'
      BY <3>1, <3>2, "idle" \notin Begun, GoOnConnection DEF Begun
    <3>3. {"insertMessage", "touchConversation", "commitAppend", "copyMessages", "commitBranch"} \subseteq Begun
      BY DEF Begun
    <3>. QED BY <2>5, <3>2, <3>3, ReturnConnection
             DEF CheckOwner, InsertMessage, TouchConversation, FindSource, CopyMessages
  <2>. QED BY <1>5, <2>1, <2>2, <2>3, <2>4, <2>5 DEF Statement
<1>. QED BY <1>1, <1>2, <1>3, <1>4, <1>5 DEF Next

LEMMA WaitCorrect == Spec => []WaitInv
<1>1. Init => WaitInv
  BY InitPg DEF Init, WaitInv, Connected, Begun
<1>2. WaitInv /\ [Next]_vars => WaitInv'
  BY StepPg, StepConnection DEF WaitInv
<1>. QED BY <1>1, <1>2, PTL DEF Spec

(* The only transactions that hold locks on a committed conversation.      *)
LEMMA LocksAreOfAppends ==
  ASSUME PgInv, NEW h \in Handlers, NEW c \in DOMAIN conversations
  PROVE  /\ \A g \in Updaters(h, c) : g \in Handlers /\ pc[g] = "commitAppend"
         /\ \A g \in KeySharers(h, c) :
              g \in Handlers /\ pc[g] \in {"touchConversation", "commitAppend"}
<1>1. ASSUME NEW g \in Handlers, c \in DOMAIN tx[g].conversations PROVE pc[g] = "commitAppend"
  <2>1. tx[g] # NoTx /\ tx[g].conversations # EmptyTable
    BY <1>1, EmptyRows, NoTxFacts
  <2>2. HandlerOK(g)
    BY DEF PgInv, HandlersOK
  <2>3. CASE Touching(g)
    BY <2>1, <2>3 DEF Touching
  <2>4. CASE CommittingAppend(g)
    BY <2>4 DEF CommittingAppend, At
  <2>5. CASE Copying(g) \/ CommittingBranch(g)
    BY <1>1, <2>5 DEF Copying, CommittingBranch, Branches, OnlyIn
  <2>. QED BY <2>1, <2>2, <2>3, <2>4, <2>5 DEF HandlerOK, Idle, Plain, Inserting, Rating
<1>2. ASSUME NEW g \in Handlers, NEW m \in DOMAIN tx[g].messages, tx[g].messages[m].conv = c
      PROVE  pc[g] \in {"touchConversation", "commitAppend"}
  <2>1. tx[g] # NoTx /\ tx[g].messages # EmptyTable
    BY EmptyRows, NoTxFacts
  <2>2. HandlerOK(g)
    BY DEF PgInv, HandlersOK
  <2>3. CASE Touching(g) \/ CommittingAppend(g)
    BY <2>3 DEF Touching, CommittingAppend, At
  <2>4. CASE Copying(g)
    BY <2>1, <2>4 DEF Copying
  <2>5. CASE CommittingBranch(g)
    BY <1>2, <2>5 DEF CommittingBranch, Branches, OnlyIn
  <2>. QED BY <2>1, <2>2, <2>3, <2>4, <2>5 DEF HandlerOK, Idle, Plain, Inserting, Rating
<1>. QED BY <1>1, <1>2 DEF Updaters, KeySharers

(* NoCircularWait: with any number of handlers and connections, whatever   *)
(* renames, deletes, appends and branches compete for the same rows, some  *)
(* handler of every group waits for none of the others.                    *)
THEOREM WaitsCorrect == Spec => []NoCircularWait
<1>1. ASSUME WaitInv, NEW S \in SUBSET Handlers, \A h \in S : WaitsFor(h) \cap S # {} PROVE S = {}
  <2>1. ASSUME NEW h \in S PROVE pc[h] # "commitAppend"
    <3>1. SUFFICES ASSUME pc[h] = "commitAppend" PROVE WaitsFor(h) = {}
      BY <1>1
    <3>2. ConnFor(h) \in conns
      BY <1>1, <3>1 DEF WaitInv, Connected, Begun
    <3>. QED BY <3>1, <3>2 DEF WaitsFor, Runs
  <2>2. ASSUME NEW h \in S PROVE pc[h] # "touchConversation"
    <3>1. SUFFICES ASSUME pc[h] = "touchConversation" PROVE FALSE
      OBVIOUS
    <3>2. ConnFor(h) \in conns
      BY <1>1, <3>1 DEF WaitInv, Connected, Begun
    <3>3. HandlerOK(h)
      BY <1>1 DEF WaitInv, PgInv, HandlersOK
    <3>4. Touching(h)
      BY <3>1, <3>3, AtStatement, <1>1 DEF WaitInv
    <3>5. req[h].id \in DOMAIN conversations
      BY <3>4 DEF Touching, Wrote, Locked
    <3>6. WaitsFor(h) = Updaters(h, req[h].id)
      BY <3>1, <3>2 DEF WaitsFor, Runs
    <3>. QED BY <1>1, <2>1, <3>5, <3>6, LocksAreOfAppends DEF WaitInv
  <2>3. ASSUME NEW h \in S PROVE conns \cap ConnOf(h) = {}
    <3>1. SUFFICES ASSUME conns \cap ConnOf(h) # {} PROVE FALSE
      OBVIOUS
    <3>2. ConnFor(h) \in conns
      BY <1>1, <3>1 DEF WaitInv, Connected
    <3>3. /\ OwnsConversation(req[h].sub, req[h].id)
          /\ WaitsFor(h) \subseteq Updaters(h, req[h].id) \cup KeySharers(h, req[h].id)
      BY <1>1, <2>2, <3>2 DEF WaitsFor, Runs
    <3>4. req[h].id \in DOMAIN conversations
      BY <3>3 DEF OwnsConversation
    <3>. QED BY <1>1, <2>1, <2>2, <3>3, <3>4, LocksAreOfAppends DEF WaitInv
  <2>4. ASSUME NEW h \in S PROVE FALSE
    <3>1. ConnFor(h) \notin conns
      BY <2>3, ConnFacts
    <3>2. WaitsFor(h) \subseteq {k[1] : k \in conns}
      BY <3>1 DEF WaitsFor, Runs
    <3>3. PICK g \in S : g \in {k[1] : k \in conns}
      BY <1>1, <3>2
    <3>4. PICK k \in conns : k[1] = g
      BY <3>3
    <3>5. k \in ConnOf(g)
      <4>1. k \in Handlers \X {"tx", "statement"}
        BY <1>1 DEF WaitInv, PgInv, Typed
      <4>. QED BY <3>4, <4>1 DEF ConnOf
    <3>. QED BY <2>3, <3>5
  <2>. QED BY <2>4
<1>2. WaitInv => NoCircularWait
  BY <1>1 DEF NoCircularWait
<1>. QED BY <1>2, WaitCorrect, PTL
=============================================================================
