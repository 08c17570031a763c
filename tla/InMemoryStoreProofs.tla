------------------------- MODULE InMemoryStoreProofs -------------------------
(***************************************************************************)
(* Theorems about InMemoryStore for every value of its constants.          *)
(***************************************************************************)
EXTENDS InMemoryStore, SequenceTheorems, TLAPS

(* A table stays well typed when a row of the right type is put in it, ... *)
LEMMA PutType ==
  ASSUME NEW K, NEW V, NEW table, NEW k \in K, NEW v \in V,
         DOMAIN table \subseteq K, table \in [DOMAIN table -> V]
  PROVE  /\ DOMAIN Put(table, k, v) \subseteq K
         /\ Put(table, k, v) \in [DOMAIN Put(table, k, v) -> V]
BY DEF Put

(* ... and when rows are removed from it.                                  *)
LEMMA WithoutType ==
  ASSUME NEW K, NEW V, NEW table, NEW S,
         DOMAIN table \subseteq K, table \in [DOMAIN table -> V]
  PROVE  /\ DOMAIN Without(table, S) \subseteq K
         /\ Without(table, S) \in [DOMAIN Without(table, S) -> V]
BY DEF Without, Restrict

(* The log of a conversation is a sequence of messages, also when there is *)
(* none.                                                                   *)
LEMMA LogType == ASSUME TypeOK, NEW c PROVE Log(c) \in Seq(Message)
BY DEF TypeOK, Log

(* The clock stays in its range, and the ids minted are in theirs.         *)
LEMMA ClockType == TypeOK /\ ReadClock => clock' \in 0 .. MaxTime /\ setBack' \in BOOLEAN
BY BoundsAssumption DEF TypeOK, ReadClock

LEMMA MintType ==
  ASSUME TypeOK, NEW n \in Nat \ {0}, MintIds(n)
  PROVE  /\ nextId' \in 1 .. MaxId + 1
         /\ nextId .. nextId + n - 1 \subseteq Ids
         /\ nextId \in Ids
BY BoundsAssumption DEF TypeOK, MintIds, Ids

(* A branch gets a title, and messages.                                    *)
LEMMA BranchTitleType ==
  ASSUME NEW asked \in Titles, NEW sourceTitle \in TitlesOver(Words)
  PROVE  BranchTitle(asked, sourceTitle) \in TitlesOver(Words)
BY TitlesAssumption DEF BranchTitle, TitlesOver

LEMMA CopiesType ==
  ASSUME NEW log \in Seq(Message), NEW cut \in 1 .. Len(log), NEW first \in Nat,
         NEW now \in 0 .. MaxTime, first .. first + cut - 1 \subseteq Ids
  PROVE  Copies(log, cut, first, now) \in Seq(Message)
<1>1. ASSUME NEW i \in 1 .. cut
      PROVE  [id |-> first + i - 1, content |-> log[i].content, createdAt |-> now] \in Message
  <2>1. first + i - 1 \in Ids
    OBVIOUS
  <2>2. log[i] \in Message
    OBVIOUS
  <2>. QED BY <2>1, <2>2 DEF Message
<1>2. Copies(log, cut, first, now) \in [1 .. cut -> Message]
  BY <1>1 DEF Copies
<1>. QED BY <1>2, cut \in Nat
-----------------------------------------------------------------------------
(***************************************************************************)
(* Type correctness.  TypeOK is inductive: one lemma per action.           *)
(***************************************************************************)
LEMMA InitType == Init => TypeOK
<1>. SUFFICES ASSUME Init PROVE TypeOK
  OBVIOUS
<1>1. setBack \in BOOLEAN
  BY Zenon DEF Init
<1>. QED BY <1>1, BoundsAssumption DEF Init, TypeOK, EmptyTable, Ids

LEMMA CreateType ==
  ASSUME TypeOK, NEW h \in Handlers, NEW s \in Subjects, NEW t \in Titles,
         CreateConversation(h, s, t)
  PROVE  TypeOK'
<1>1. nextId' \in 1 .. MaxId + 1 /\ clock' \in 0 .. MaxTime /\ setBack' \in BOOLEAN /\ nextId \in Ids
  BY ClockType, MintType DEF CreateConversation
<1> DEFINE row == [sub |-> s, title |-> t, updatedAt |-> clock']
<1>2. row \in Conversation
  BY <1>1, TitlesAssumption DEF Conversation
<1>3. conversations' = Put(conversations, nextId, row)
  BY DEF CreateConversation
<1>4. /\ DOMAIN conversations' \subseteq Ids
      /\ conversations' \in [DOMAIN conversations' -> Conversation]
  <2>. HIDE DEF row
  <2>. QED BY <1>1, <1>2, <1>3, PutType DEF TypeOK
<1>5. unsent' \in [Handlers -> Created \cup {Idle}]
  <2>1. unsent' = [unsent EXCEPT ![h] = [id |-> nextId, row |-> row]]
    BY DEF CreateConversation
  <2>2. [id |-> nextId, row |-> row] \in Created
    <3>. HIDE DEF row
    <3>. QED BY <1>1, <1>2 DEF Created
  <2>. QED BY <2>1, <2>2 DEF TypeOK
<1>. QED BY <1>1, <1>4, <1>5 DEF CreateConversation, TypeOK

LEMMA RenameType ==
  ASSUME TypeOK, NEW s \in Subjects, NEW c \in Ids, NEW t \in Titles,
         RenameConversation(s, c, t)
  PROVE  TypeOK'
<1>1. clock' \in 0 .. MaxTime /\ setBack' \in BOOLEAN
  BY ClockType DEF RenameConversation
<1> DEFINE row == [conversations[c] EXCEPT !.title = t, !.updatedAt = clock']
<1>2. row \in Conversation
  BY <1>1, TitlesAssumption DEF RenameConversation, Owns, TypeOK, Conversation
<1>3. conversations' = Put(conversations, c, row)
  BY DEF RenameConversation
<1>4. /\ DOMAIN conversations' \subseteq Ids
      /\ conversations' \in [DOMAIN conversations' -> Conversation]
  <2>. HIDE DEF row
  <2>. QED BY <1>2, <1>3, PutType DEF TypeOK
<1>. QED BY <1>1, <1>4 DEF RenameConversation, TypeOK

LEMMA DeleteType ==
  ASSUME TypeOK, NEW s \in Subjects, NEW c \in Ids, DeleteConversation(s, c)
  PROVE  TypeOK'
<1>1. /\ DOMAIN conversations' \subseteq Ids
      /\ conversations' \in [DOMAIN conversations' -> Conversation]
  BY WithoutType DEF TypeOK, DeleteConversation
<1>2. /\ DOMAIN messages' \subseteq Ids
      /\ messages' \in [DOMAIN messages' -> Seq(Message)]
  BY WithoutType DEF TypeOK, DeleteConversation
<1>3. /\ DOMAIN messageIndex' \subseteq Ids
      /\ messageIndex' \in [DOMAIN messageIndex' -> Ids]
  BY WithoutType DEF TypeOK, DeleteConversation
<1>. QED BY <1>1, <1>2, <1>3 DEF DeleteConversation, times, TypeOK

LEMMA AppendType ==
  ASSUME TypeOK, NEW s \in Subjects, NEW c \in Ids, NEW x \in Contents,
         AppendMessage(s, c, x)
  PROVE  TypeOK'
<1>1. nextId' \in 1 .. MaxId + 1 /\ clock' \in 0 .. MaxTime /\ setBack' \in BOOLEAN /\ nextId \in Ids
  BY ClockType, MintType DEF AppendMessage
<1> DEFINE msg == [id |-> nextId, content |-> x, createdAt |-> clock']
<1>2. Append(Log(c), msg) \in Seq(Message)
  <2>1. msg \in Message
    BY <1>1 DEF Message
  <2>. QED BY <2>1, LogType, AppendProperties
<1>3. /\ DOMAIN messages' \subseteq Ids
      /\ messages' \in [DOMAIN messages' -> Seq(Message)]
  <2>1. messages' = Put(messages, c, Append(Log(c), msg))
    BY DEF AppendMessage
  <2>. HIDE DEF msg
  <2>. QED BY <1>2, <2>1, PutType DEF TypeOK
<1>4. /\ DOMAIN messageIndex' \subseteq Ids
      /\ messageIndex' \in [DOMAIN messageIndex' -> Ids]
  BY <1>1, PutType DEF TypeOK, AppendMessage
<1>5. /\ DOMAIN conversations' \subseteq Ids
      /\ conversations' \in [DOMAIN conversations' -> Conversation]
  <2>1. Touched(c) \in Conversation
    BY <1>1 DEF Touched, AppendMessage, Owns, TypeOK, Conversation
  <2>. QED BY <2>1, PutType DEF TypeOK, AppendMessage
<1>. QED BY <1>1, <1>3, <1>4, <1>5 DEF AppendMessage, TypeOK

LEMMA FeedbackType ==
  ASSUME TypeOK, NEW s \in Subjects, NEW m \in Ids, NEW r, UpsertFeedback(s, m, r)
  PROVE  TypeOK'
<1>1. /\ DOMAIN feedback' \subseteq Subjects \X Ids
      /\ feedback' \in [DOMAIN feedback' -> Ratings]
  BY PutType DEF TypeOK, UpsertFeedback, ValidRating
<1>. QED BY <1>1 DEF UpsertFeedback, times, TypeOK

LEMMA BranchType ==
  ASSUME TypeOK, NEW s \in Subjects, NEW m \in Ids, NEW t \in Titles,
         BranchFromMessage(s, m, t)
  PROVE  TypeOK'
<1> DEFINE src == messageIndex[m]
           dst == nextId
           row == [sub |-> s, updatedAt |-> clock',
                   title |-> BranchTitle(t, conversations[src].title)]
<1>1. PICK cut \in Cuts(Log(src), m) :
        /\ MintIds(cut + 1)
        /\ ReadClock
        /\ conversations' = Put(conversations, dst, row)
        /\ messages' = Put(messages, dst, Copies(Log(src), cut, dst + 1, clock'))
        /\ messageIndex' = [x \in DOMAIN messageIndex \cup (dst+1)..(dst+cut) |->
                              IF x > dst THEN dst ELSE messageIndex[x]]
        /\ origin' = Put(origin, dst, [source |-> src, at |-> m, size |-> cut])
  BY DEF BranchFromMessage
<1>2. cut \in 1 .. Len(Log(src)) /\ cut \in Nat \ {0}
  BY LogType DEF Cuts
<1>3. /\ nextId' \in 1 .. MaxId + 1
      /\ dst .. dst + cut \subseteq Ids
      /\ dst \in Ids /\ dst \in Nat
      /\ clock' \in 0 .. MaxTime /\ setBack' \in BOOLEAN
  <2>1. cut + 1 \in Nat \ {0} /\ (cut + 1) - 1 = cut
    BY <1>2
  <2>2. nextId' \in 1 .. MaxId + 1 /\ dst .. dst + (cut + 1) - 1 \subseteq Ids /\ dst \in Ids
    BY <1>1, <2>1, MintType
  <2>3. dst \in Nat /\ dst + (cut + 1) - 1 = dst + cut
    BY <1>2, <2>2 DEF Ids
  <2>. QED BY <1>1, <2>2, <2>3, ClockType
<1>4. /\ DOMAIN conversations' \subseteq Ids
      /\ conversations' \in [DOMAIN conversations' -> Conversation]
  <2>1. src \in DOMAIN conversations /\ conversations[src].title \in TitlesOver(Words)
    BY DEF BranchFromMessage, Owns, TypeOK, Conversation
  <2>2. row \in Conversation
    BY <1>3, <2>1, BranchTitleType DEF Conversation
  <2>3. conversations' = Put(conversations, dst, row)
    BY <1>1
  <2>. HIDE DEF row, dst
  <2>. QED BY <1>3, <2>2, <2>3, PutType DEF TypeOK
<1>5. /\ DOMAIN messages' \subseteq Ids
      /\ messages' \in [DOMAIN messages' -> Seq(Message)]
  <2>1. (dst + 1) .. (dst + 1) + cut - 1 \subseteq Ids
    BY <1>2, <1>3
  <2>2. Copies(Log(src), cut, dst + 1, clock') \in Seq(Message)
    BY <1>2, <1>3, <2>1, LogType, CopiesType
  <2> DEFINE log == Copies(Log(src), cut, dst + 1, clock')
  <2>3. messages' = Put(messages, dst, log) /\ log \in Seq(Message)
    BY <1>1, <2>2
  <2>. HIDE DEF log, dst
  <2>. QED BY <1>3, <2>3, PutType DEF TypeOK
<1>6. /\ DOMAIN messageIndex' \subseteq Ids
      /\ messageIndex' \in [DOMAIN messageIndex' -> Ids]
  BY <1>1, <1>2, <1>3 DEF TypeOK
<1>7. /\ DOMAIN origin' \subseteq Ids
      /\ origin' \in [DOMAIN origin' -> Origin]
  <2>1. [source |-> src, at |-> m, size |-> cut] \in Origin
    BY <1>2 DEF Origin, BranchFromMessage, TypeOK
  <2> DEFINE note == [source |-> src, at |-> m, size |-> cut]
  <2>2. origin' = Put(origin, dst, note) /\ note \in Origin
    BY <1>1, <2>1
  <2>. HIDE DEF note, dst
  <2>. QED BY <1>3, <2>2, PutType DEF TypeOK
<1>. QED BY <1>1, <1>3, <1>4, <1>5, <1>6, <1>7 DEF BranchFromMessage, TypeOK

LEMMA EncodeType ==
  ASSUME TypeOK, NEW h \in Handlers, EncodeCreated(h) PROVE TypeOK'
BY DEF EncodeCreated, tables, times, TypeOK

LEMMA ReadType ==
  ASSUME TypeOK, NEW s \in Subjects, ReadOrReject(s) PROVE TypeOK'
BY DEF ReadOrReject, tables, times, TypeOK

(* Every step keeps the types.                                             *)
LEMMA StepType == TypeOK /\ [Next]_vars => TypeOK'
<1>. SUFFICES ASSUME TypeOK, [Next]_vars PROVE TypeOK'
  OBVIOUS
<1>1. ASSUME NEW s \in Subjects, Call(s) PROVE TypeOK'
  <2>1. CASE \E h \in Handlers, t \in Titles : CreateConversation(h, s, t)
    BY <2>1, CreateType
  <2>2. CASE \E c \in Ids, t \in Titles : RenameConversation(s, c, t)
    BY <2>2, RenameType
  <2>3. CASE \E c \in Ids : DeleteConversation(s, c)
    BY <2>3, DeleteType
  <2>4. CASE \E c \in Ids, x \in Contents : AppendMessage(s, c, x)
    BY <2>4, AppendType
  <2>5. CASE \E m \in Ids, r \in Texts : UpsertFeedback(s, m, r)
    BY <2>5, FeedbackType
  <2>6. CASE \E m \in Ids, t \in Titles : BranchFromMessage(s, m, t)
    BY <2>6, BranchType
  <2>7. CASE ReadOrReject(s)
    BY <2>7, ReadType
  <2>. QED BY <1>1, <2>1, <2>2, <2>3, <2>4, <2>5, <2>6, <2>7 DEF Call
<1>2. ASSUME NEW h \in Handlers, EncodeCreated(h) PROVE TypeOK'
  BY <1>2, EncodeType
<1>3. CASE UNCHANGED vars
  BY <1>3 DEF vars, tables, times, TypeOK
<1>. QED BY <1>1, <1>2, <1>3 DEF Next

(* Whatever calls are made, by whomever and in whatever order, the four    *)
(* maps hold values of their types, and only ids that were minted.         *)
THEOREM TypeCorrect == Spec => []TypeOK
BY InitType, StepType, PTL DEF Spec
-----------------------------------------------------------------------------
(***************************************************************************)
(* The index and the logs.  IndexMatchesLogs is not inductive on its own:  *)
(* an append or a branch whose id were in use already would break it.  So  *)
(* the invariant also says that the ids in use were minted before.         *)
(***************************************************************************)
FreshIds ==
  /\ \A c \in DOMAIN conversations : c < nextId
  /\ \A m \in DOMAIN messageIndex : m < nextId

IndexInv == TypeOK /\ FreshIds /\ IndexMatchesLogs

LEMMA InitIndex == Init => FreshIds /\ IndexMatchesLogs
BY DEF Init, EmptyTable, FreshIds, IndexMatchesLogs, LogsAreOfConversations,
       LoggedIsIndexed, LoggedOnce, IndexedIsLogged

(* A step that leaves the logs and the index alone, and at most adds       *)
(* conversations with fresh ids.                                           *)
LEMMA OtherIndex ==
  ASSUME IndexInv, UNCHANGED <<messages, messageIndex>>,
         DOMAIN conversations \subseteq DOMAIN conversations',
         nextId' \in Nat, nextId <= nextId',
         \A c \in DOMAIN conversations' : c < nextId'
  PROVE  (FreshIds /\ IndexMatchesLogs)'
<1>1. FreshIds'
  BY DEF IndexInv, FreshIds, TypeOK, Ids
<1>2. IndexMatchesLogs'
  BY DEF IndexInv, IndexMatchesLogs, LogsAreOfConversations, LoggedIsIndexed, LoggedOnce,
         IndexedIsLogged
<1>. QED BY <1>1, <1>2

LEMMA DeleteIndex ==
  ASSUME IndexInv, NEW s \in Subjects, NEW c \in Ids, DeleteConversation(s, c)
  PROVE  (FreshIds /\ IndexMatchesLogs)'
<1>1. /\ DOMAIN conversations' = DOMAIN conversations \ {c}
      /\ DOMAIN messages' = DOMAIN messages \ {c}
      /\ \A d \in DOMAIN messages' : messages'[d] = messages[d]
      /\ DOMAIN messageIndex' = DOMAIN messageIndex \ Indexed(c)
      /\ \A m \in DOMAIN messageIndex' : messageIndex'[m] = messageIndex[m]
      /\ nextId' = nextId
  BY DEF DeleteConversation, Without, Restrict
<1>2. ASSUME NEW m \in DOMAIN messageIndex
      PROVE  m \in Indexed(c) <=> messageIndex[m] = c
  <2>1. CASE c \in DOMAIN messages
    <3>1. Indexed(c) = {messages[c][i].id : i \in DOMAIN messages[c]}
      BY <2>1 DEF Indexed, Log
    <3>. QED BY <2>1, <3>1 DEF IndexInv, IndexMatchesLogs, LoggedIsIndexed, IndexedIsLogged
  <2>2. CASE c \notin DOMAIN messages
    <3>1. Indexed(c) = {}
      BY <2>2 DEF Indexed, Log
    <3>. QED BY <2>2, <3>1 DEF IndexInv, IndexMatchesLogs, IndexedIsLogged
  <2>. QED BY <2>1, <2>2
<1>3. FreshIds'
  BY <1>1 DEF IndexInv, FreshIds
<1>4. LogsAreOfConversations'
  BY <1>1 DEF IndexInv, IndexMatchesLogs, LogsAreOfConversations
<1>5. LoggedIsIndexed'
  BY <1>1, <1>2 DEF IndexInv, IndexMatchesLogs, LoggedIsIndexed
<1>6. LoggedOnce'
  BY <1>1 DEF IndexInv, IndexMatchesLogs, LoggedOnce
<1>7. IndexedIsLogged'
  BY <1>1, <1>2 DEF IndexInv, IndexMatchesLogs, IndexedIsLogged
<1>. QED BY <1>3, <1>4, <1>5, <1>6, <1>7 DEF IndexMatchesLogs

IdsOf(log) == {log[i].id : i \in DOMAIN log}

(* What IndexInv says of one log.                                          *)
LEMMA LogFacts ==
  ASSUME IndexInv, NEW c, NEW i \in DOMAIN Log(c)
  PROVE  /\ Log(c)[i].id \in DOMAIN messageIndex
         /\ Log(c)[i].id < nextId
         /\ messageIndex[Log(c)[i].id] = c
         /\ \A j \in DOMAIN Log(c) : Log(c)[i].id = Log(c)[j].id => i = j
<1>1. c \in DOMAIN messages /\ Log(c) = messages[c]
  BY DEF Log
<1>. QED BY <1>1 DEF IndexInv, FreshIds, IndexMatchesLogs, LoggedIsIndexed, LoggedOnce

(* A step that gives c a log whose messages are those it had, or messages  *)
(* of the set New of fresh ids, which it enters in the index under c.      *)
LEMMA GrowIndex ==
  ASSUME IndexInv, NEW c, NEW log \in Seq(Message), NEW New,
         messages' = Put(messages, c, log),
         DOMAIN messageIndex' = DOMAIN messageIndex \cup New,
         \A m \in DOMAIN messageIndex' :
           messageIndex'[m] = IF m \in New THEN c ELSE messageIndex[m],
         DOMAIN conversations' = DOMAIN conversations \cup {c},
         nextId' \in Nat, nextId <= nextId',
         \A d \in DOMAIN conversations' : d < nextId',
         \A m \in New : nextId <= m /\ m < nextId',
         IdsOf(log) = Indexed(c) \cup New,
         \A i, j \in DOMAIN log : log[i].id = log[j].id => i = j
  PROVE  (FreshIds /\ IndexMatchesLogs)'
<1>1. /\ DOMAIN messages' = DOMAIN messages \cup {c}
      /\ messages'[c] = log
      /\ \A d \in DOMAIN messages \ {c} : messages'[d] = messages[d]
  BY DEF Put
<1>2. \A m \in DOMAIN messageIndex : m \notin New /\ m \in Nat /\ m < nextId
  BY DEF IndexInv, FreshIds, TypeOK, Ids
<1>3. FreshIds'
  BY <1>2 DEF FreshIds, IndexInv, TypeOK
<1>4. \A i \in DOMAIN log :
         log[i].id \in New \/ \E j \in DOMAIN Log(c) : log[i].id = Log(c)[j].id
  BY DEF IdsOf, Indexed
<1>5. \A m \in Indexed(c) \cup New : \E i \in DOMAIN log : log[i].id = m
  <2>1. \A m \in IdsOf(log) : \E i \in DOMAIN log : log[i].id = m
    BY DEF IdsOf
  <2>. QED BY <2>1
<1>6. LogsAreOfConversations'
  BY <1>1 DEF IndexInv, IndexMatchesLogs, LogsAreOfConversations
<1>7. ASSUME NEW d \in DOMAIN messages', NEW i \in DOMAIN messages'[d]
      PROVE  /\ messages'[d][i].id \in DOMAIN messageIndex'
             /\ messageIndex'[messages'[d][i].id] = d
  <2>1. CASE d = c
    <3>1. CASE log[i].id \in New
      BY <1>1, <2>1, <3>1
    <3>2. CASE \E j \in DOMAIN Log(c) : log[i].id = Log(c)[j].id
      BY <1>1, <1>2, <2>1, <3>2, LogFacts
    <3>. QED BY <1>1, <1>4, <2>1, <3>1, <3>2
  <2>2. CASE d # c
    <3>1. d \in DOMAIN messages /\ Log(d) = messages[d] /\ i \in DOMAIN Log(d)
      BY <1>1, <2>2 DEF Log
    <3>2. Log(d)[i].id \in DOMAIN messageIndex /\ messageIndex[Log(d)[i].id] = d
      BY <3>1, LogFacts
    <3>. QED BY <1>1, <1>2, <2>2, <3>1, <3>2
  <2>. QED BY <2>1, <2>2
<1>8. LoggedIsIndexed'
  BY <1>7 DEF LoggedIsIndexed
<1>9. LoggedOnce'
  BY <1>1 DEF IndexInv, IndexMatchesLogs, LoggedOnce
<1>10. ASSUME NEW m \in DOMAIN messageIndex'
      PROVE  /\ messageIndex'[m] \in DOMAIN messages'
             /\ \E i \in DOMAIN messages'[messageIndex'[m]] :
                  messages'[messageIndex'[m]][i].id = m
  <2>1. CASE m \in New
    BY <1>1, <1>5, <2>1
  <2>2. CASE m \notin New
    <3>1. /\ m \in DOMAIN messageIndex /\ messageIndex'[m] = messageIndex[m]
          /\ messageIndex[m] \in DOMAIN messages
      BY <2>2 DEF IndexInv, IndexMatchesLogs, IndexedIsLogged
    <3>2. PICK j \in DOMAIN messages[messageIndex[m]] : messages[messageIndex[m]][j].id = m
      BY <3>1 DEF IndexInv, IndexMatchesLogs, IndexedIsLogged
    <3>3. CASE messageIndex[m] = c
      <4>1. Log(c) = messages[c]
        BY <3>1, <3>3 DEF Log
      <4>2. m \in Indexed(c)
        BY <3>2, <3>3, <4>1 DEF Indexed
      <4>3. \E i \in DOMAIN log : log[i].id = m
        BY <1>5, <4>2
      <4>. QED BY <1>1, <3>1, <3>3, <4>3
    <3>4. CASE messageIndex[m] # c
      BY <1>1, <3>1, <3>2, <3>4
    <3>. QED BY <3>3, <3>4
  <2>. QED BY <2>1, <2>2
<1>11. IndexedIsLogged'
  BY <1>10 DEF IndexedIsLogged
<1>. QED BY <1>3, <1>6, <1>8, <1>9, <1>11 DEF IndexMatchesLogs

LEMMA CreateIndex ==
  ASSUME IndexInv, NEW h \in Handlers, NEW s \in Subjects, NEW t \in Titles,
         CreateConversation(h, s, t)
  PROVE  (FreshIds /\ IndexMatchesLogs)'
<1>1. nextId \in Nat /\ nextId' = nextId + 1
  BY DEF CreateConversation, MintIds, IndexInv, TypeOK
<1>2. DOMAIN conversations' = DOMAIN conversations \cup {nextId}
  BY DEF CreateConversation, Put
<1>3. \A c \in DOMAIN conversations : c \in Nat /\ c < nextId
  BY DEF IndexInv, FreshIds, TypeOK, Ids
<1>4. \A c \in DOMAIN conversations' : c < nextId'
  BY <1>1, <1>2, <1>3
<1>. QED BY <1>1, <1>2, <1>4, OtherIndex DEF CreateConversation

LEMMA AppendIndex ==
  ASSUME IndexInv, NEW s \in Subjects, NEW c \in Ids, NEW x \in Contents,
         AppendMessage(s, c, x)
  PROVE  (FreshIds /\ IndexMatchesLogs)'
<1> DEFINE msg == [id |-> nextId, content |-> x, createdAt |-> clock']
           log == Append(Log(c), msg)
           n   == Len(Log(c))
           New == {nextId}
<1>1. nextId \in Nat /\ nextId \in Ids /\ nextId' = nextId + 1 /\ clock' \in 0 .. MaxTime
  BY MintType, ClockType DEF AppendMessage, MintIds, IndexInv, Ids
<1>2. Log(c) \in Seq(Message) /\ msg \in Message
  BY <1>1, LogType DEF IndexInv, Message
<1>3. /\ log \in Seq(Message)
      /\ n \in Nat
      /\ DOMAIN log = 1 .. n + 1
      /\ DOMAIN Log(c) = 1 .. n
      /\ \A i \in 1 .. n : log[i] = Log(c)[i]
      /\ log[n + 1].id = nextId
  <2>. HIDE DEF msg
  <2>1. /\ log \in Seq(Message) /\ n \in Nat /\ DOMAIN log = 1 .. n + 1
        /\ DOMAIN Log(c) = 1 .. n
        /\ \A i \in 1 .. n : log[i] = Log(c)[i]
        /\ log[n + 1] = msg
    BY <1>2, AppendProperties
  <2>2. msg.id = nextId
    BY DEF msg
  <2>. QED BY <2>1, <2>2
<1>4. \A i \in 1 .. n : Log(c)[i].id \in Nat /\ Log(c)[i].id < nextId
  <2>1. DOMAIN messageIndex \subseteq Nat
    BY DEF IndexInv, TypeOK, Ids
  <2>2. \A i \in DOMAIN Log(c) : Log(c)[i].id \in DOMAIN messageIndex /\ Log(c)[i].id < nextId
    BY LogFacts
  <2>3. DOMAIN Log(c) = 1 .. n
    BY <1>3
  <2>. QED BY <2>1, <2>2, <2>3
<1>5. \A i, j \in 1 .. n : Log(c)[i].id = Log(c)[j].id => i = j
  BY <1>3, LogFacts
<1>6. messages' = Put(messages, c, log)
  BY DEF AppendMessage
<1>7. /\ DOMAIN messageIndex' = DOMAIN messageIndex \cup New
      /\ \A m \in DOMAIN messageIndex' :
           messageIndex'[m] = IF m \in New THEN c ELSE messageIndex[m]
  BY DEF AppendMessage, Put
<1>8. /\ DOMAIN conversations' = DOMAIN conversations \cup {c}
      /\ \A d \in DOMAIN conversations' : d < nextId'
  <2>1. DOMAIN conversations' = DOMAIN conversations \cup {c} /\ c \in DOMAIN conversations
    BY DEF AppendMessage, Put, Owns
  <2>2. \A d \in DOMAIN conversations : d \in Nat /\ d < nextId
    BY DEF IndexInv, FreshIds, TypeOK, Ids
  <2>. QED BY <1>1, <2>1, <2>2
<1>. HIDE DEF log, n
<1>9. IdsOf(log) = Indexed(c) \cup New
  BY <1>3 DEF IdsOf, Indexed
<1>10. \A i, j \in DOMAIN log : log[i].id = log[j].id => i = j
  BY <1>1, <1>3, <1>4, <1>5
<1>11. /\ nextId' \in Nat /\ nextId <= nextId'
       /\ \A m \in New : nextId <= m /\ m < nextId'
  BY <1>1
<1>12. log \in Seq(Message)
  BY <1>3
<1>. HIDE DEF New
<1>. QED BY <1>6, <1>7, <1>8, <1>9, <1>10, <1>11, <1>12, GrowIndex

LEMMA BranchIndex ==
  ASSUME IndexInv, NEW s \in Subjects, NEW m \in Ids, NEW t \in Titles,
         BranchFromMessage(s, m, t)
  PROVE  (FreshIds /\ IndexMatchesLogs)'
<1> DEFINE src == messageIndex[m]
           dst == nextId
<1>1. PICK cut \in Cuts(Log(src), m) :
        /\ MintIds(cut + 1)
        /\ ReadClock
        /\ DOMAIN conversations' = DOMAIN conversations \cup {dst}
        /\ messages' = Put(messages, dst, Copies(Log(src), cut, dst + 1, clock'))
        /\ messageIndex' = [x \in DOMAIN messageIndex \cup (dst+1)..(dst+cut) |->
                              IF x > dst THEN dst ELSE messageIndex[x]]
  BY DEF BranchFromMessage, Put
<1> DEFINE log == Copies(Log(src), cut, dst + 1, clock')
           New == (dst + 1) .. (dst + cut)
<1>2. cut \in 1 .. Len(Log(src)) /\ cut \in Nat \ {0} /\ Log(src) \in Seq(Message)
  BY LogType DEF Cuts, IndexInv
<1>3. /\ dst \in Nat /\ dst \in 1 .. MaxId + 1
      /\ nextId' = dst + cut + 1 /\ dst + cut <= MaxId /\ MaxId \in Nat
  BY <1>1, <1>2, BoundsAssumption DEF MintIds, IndexInv, TypeOK
<1>4. /\ log \in Seq(Message)
      /\ DOMAIN log = 1 .. cut
      /\ \A i \in 1 .. cut : log[i].id = dst + i
  <2>1. (dst + 1) .. (dst + 1) + cut - 1 \subseteq Ids
    BY <1>2, <1>3 DEF Ids
  <2>2. log \in Seq(Message)
    BY <1>1, <1>2, <1>3, <2>1, ClockType, CopiesType DEF IndexInv
  <2>3. DOMAIN log = 1 .. cut /\ \A i \in 1 .. cut : log[i].id = (dst + 1) + i - 1
    BY DEF Copies
  <2>. QED BY <1>2, <1>3, <2>2, <2>3
<1>5. dst \notin DOMAIN messages /\ Log(dst) = << >>
  BY DEF IndexInv, FreshIds, TypeOK, Ids, IndexMatchesLogs, LogsAreOfConversations, Log
<1>6. \A x \in DOMAIN messageIndex : x \in Nat /\ x < dst
  BY DEF IndexInv, FreshIds, TypeOK, Ids
<1>7. /\ DOMAIN messageIndex' = DOMAIN messageIndex \cup New
      /\ \A x \in DOMAIN messageIndex' :
           messageIndex'[x] = IF x \in New THEN dst ELSE messageIndex[x]
  BY <1>1, <1>2, <1>3, <1>6
<1>8. \A d \in DOMAIN conversations' : d < nextId'
  <2>1. \A d \in DOMAIN conversations : d \in Nat /\ d < dst
    BY DEF IndexInv, FreshIds, TypeOK, Ids
  <2>. QED BY <1>1, <1>2, <1>3, <2>1
<1>9. messages' = Put(messages, dst, log)
  BY <1>1
<1>10. /\ nextId' \in Nat /\ nextId <= nextId'
       /\ \A x \in New : nextId <= x /\ x < nextId'
  BY <1>2, <1>3
<1>. HIDE DEF log
<1>11. \A i \in DOMAIN log : log[i].id \in New
  BY <1>2, <1>3, <1>4
<1>12. \A i, j \in DOMAIN log : log[i].id = log[j].id => i = j
  BY <1>2, <1>3, <1>4
<1>13. \A x \in New : \E i \in DOMAIN log : log[i].id = x
  <2>. SUFFICES ASSUME NEW x \in New PROVE \E i \in DOMAIN log : log[i].id = x
    OBVIOUS
  <2>1. x - dst \in 1 .. cut /\ dst + (x - dst) = x
    BY <1>2, <1>3
  <2>. QED BY <1>4, <2>1
<1>14. IdsOf(log) = Indexed(dst) \cup New
  BY <1>5, <1>11, <1>13 DEF IdsOf, Indexed
<1>. HIDE DEF New, dst
<1>. QED BY <1>1, <1>4, <1>7, <1>8, <1>9, <1>10, <1>12, <1>14, GrowIndex

(* Every step keeps the index and the logs together.                       *)
LEMMA StepIndex == IndexInv /\ [Next]_vars => (FreshIds /\ IndexMatchesLogs)'
<1>. SUFFICES ASSUME IndexInv, [Next]_vars PROVE (FreshIds /\ IndexMatchesLogs)'
  OBVIOUS
<1>1. nextId \in Nat /\ \A c \in DOMAIN conversations : c < nextId
  BY DEF IndexInv, FreshIds, TypeOK
<1>2. ASSUME NEW s \in Subjects, Call(s) PROVE (FreshIds /\ IndexMatchesLogs)'
  <2>1. CASE \E h \in Handlers, t \in Titles : CreateConversation(h, s, t)
    BY <2>1, CreateIndex
  <2>2. CASE \E c \in Ids, t \in Titles : RenameConversation(s, c, t)
    BY <1>1, <2>2, OtherIndex DEF RenameConversation, Owns, Put
  <2>3. CASE \E c \in Ids : DeleteConversation(s, c)
    BY <2>3, DeleteIndex
  <2>4. CASE \E c \in Ids, x \in Contents : AppendMessage(s, c, x)
    BY <2>4, AppendIndex
  <2>5. CASE \E m \in Ids, r \in Texts : UpsertFeedback(s, m, r)
    BY <1>1, <2>5, OtherIndex DEF UpsertFeedback
  <2>6. CASE \E m \in Ids, t \in Titles : BranchFromMessage(s, m, t)
    BY <2>6, BranchIndex
  <2>7. CASE ReadOrReject(s)
    BY <1>1, <2>7, OtherIndex DEF ReadOrReject, tables, times
  <2>. QED BY <1>2, <2>1, <2>2, <2>3, <2>4, <2>5, <2>6, <2>7 DEF Call
<1>3. ASSUME NEW h \in Handlers, EncodeCreated(h) PROVE (FreshIds /\ IndexMatchesLogs)'
  BY <1>1, <1>3, OtherIndex DEF EncodeCreated, tables, times
<1>4. CASE UNCHANGED vars
  BY <1>1, <1>4, OtherIndex DEF vars, tables, times
<1>. QED BY <1>2, <1>3, <1>4 DEF Next

(* The invariant most of the proofs below start from.                      *)
LEMMA IndexInvCorrect == Spec => []IndexInv
<1>1. Init => IndexInv
  BY InitType, InitIndex DEF IndexInv
<1>2. IndexInv /\ [Next]_vars => IndexInv'
  BY StepType, StepIndex DEF IndexInv
<1>. QED BY <1>1, <1>2, PTL DEF Spec

(* The two maps that AppendMessage, BranchFromMessage and                  *)
(* DeleteConversation keep of the same messages always agree.              *)
THEOREM IndexCorrect == Spec => []IndexMatchesLogs
<1>1. IndexInv => IndexMatchesLogs
  BY DEF IndexInv
<1>. QED BY <1>1, IndexInvCorrect, PTL
-----------------------------------------------------------------------------
(***************************************************************************)
(* What no step does: give a conversation another owner, or a message      *)
(* another conversation.                                                   *)
(***************************************************************************)
OwnersStay ==
  /\ \A c \in DOMAIN conversations \cap DOMAIN conversations' :
       conversations'[c].sub = conversations[c].sub
  /\ \A m \in DOMAIN messageIndex' :
       m < nextId => m \in DOMAIN messageIndex /\ messageIndex'[m] = messageIndex[m]

LEMMA CreateOwners ==
  ASSUME IndexInv, NEW h \in Handlers, NEW s \in Subjects, NEW t \in Titles,
         CreateConversation(h, s, t)
  PROVE  OwnersStay
<1>1. nextId \notin DOMAIN conversations
  BY DEF IndexInv, FreshIds, TypeOK
<1>2. \A c \in DOMAIN conversations : conversations'[c] = conversations[c]
  BY <1>1 DEF CreateConversation, Put
<1>. QED BY <1>2 DEF OwnersStay, CreateConversation

LEMMA RenameOwners ==
  ASSUME IndexInv, NEW s \in Subjects, NEW c \in Ids, NEW t \in Titles,
         RenameConversation(s, c, t)
  PROVE  OwnersStay
<1>1. conversations[c] \in Conversation
  BY DEF RenameConversation, Owns, IndexInv, TypeOK
<1>2. \A d \in DOMAIN conversations : conversations'[d].sub = conversations[d].sub
  BY <1>1 DEF RenameConversation, Put, Conversation
<1>. QED BY <1>2 DEF OwnersStay, RenameConversation

LEMMA DeleteOwners ==
  ASSUME IndexInv, NEW s \in Subjects, NEW c \in Ids, DeleteConversation(s, c)
  PROVE  OwnersStay
BY DEF OwnersStay, DeleteConversation, Without, Restrict

LEMMA AppendOwners ==
  ASSUME IndexInv, NEW s \in Subjects, NEW c \in Ids, NEW x \in Contents,
         AppendMessage(s, c, x)
  PROVE  OwnersStay
<1>1. conversations[c] \in Conversation
  BY DEF AppendMessage, Owns, IndexInv, TypeOK
<1>2. \A d \in DOMAIN conversations : conversations'[d].sub = conversations[d].sub
  BY <1>1 DEF AppendMessage, Put, Touched, Conversation
<1>3. \A m \in DOMAIN messageIndex' :
        m # nextId => m \in DOMAIN messageIndex /\ messageIndex'[m] = messageIndex[m]
  BY DEF AppendMessage, Put
<1>4. ~(nextId < nextId)
  BY DEF IndexInv, TypeOK
<1>. QED BY <1>2, <1>3, <1>4 DEF OwnersStay

LEMMA BranchOwners ==
  ASSUME IndexInv, NEW s \in Subjects, NEW m \in Ids, NEW t \in Titles,
         BranchFromMessage(s, m, t)
  PROVE  OwnersStay
<1>1. PICK cut \in Cuts(Log(messageIndex[m]), m) :
        /\ \E row : conversations' = Put(conversations, nextId, row)
        /\ messageIndex' = [x \in DOMAIN messageIndex \cup (nextId+1)..(nextId+cut) |->
                              IF x > nextId THEN nextId ELSE messageIndex[x]]
  BY DEF BranchFromMessage
<1>2. nextId \notin DOMAIN conversations /\ nextId \in Nat
  BY DEF IndexInv, FreshIds, TypeOK
<1>3. \A c \in DOMAIN conversations : conversations'[c] = conversations[c]
  BY <1>1, <1>2 DEF Put
<1>4. cut \in Nat
  BY LogType DEF Cuts, IndexInv
<1>5. \A x \in DOMAIN messageIndex' : x < nextId =>
        x \in DOMAIN messageIndex /\ messageIndex'[x] = messageIndex[x]
  <2>1. \A x \in (nextId+1)..(nextId+cut) : ~(x < nextId)
    BY <1>2, <1>4
  <2>2. \A x \in DOMAIN messageIndex : x \in Nat
    BY DEF IndexInv, TypeOK, Ids
  <2>. QED BY <1>1, <1>2, <2>1, <2>2
<1>. QED BY <1>3, <1>5 DEF OwnersStay

LEMMA StepOwners == IndexInv /\ [Next]_vars => OwnersStay
<1>. SUFFICES ASSUME IndexInv, [Next]_vars PROVE OwnersStay
  OBVIOUS
<1>1. ASSUME NEW s \in Subjects, Call(s) PROVE OwnersStay
  <2>1. CASE \E h \in Handlers, t \in Titles : CreateConversation(h, s, t)
    BY <2>1, CreateOwners
  <2>2. CASE \E c \in Ids, t \in Titles : RenameConversation(s, c, t)
    BY <2>2, RenameOwners
  <2>3. CASE \E c \in Ids : DeleteConversation(s, c)
    BY <2>3, DeleteOwners
  <2>4. CASE \E c \in Ids, x \in Contents : AppendMessage(s, c, x)
    BY <2>4, AppendOwners
  <2>5. CASE \E m \in Ids, r \in Texts : UpsertFeedback(s, m, r)
    BY <2>5 DEF UpsertFeedback, OwnersStay
  <2>6. CASE \E m \in Ids, t \in Titles : BranchFromMessage(s, m, t)
    BY <2>6, BranchOwners
  <2>7. CASE ReadOrReject(s)
    BY <2>7 DEF ReadOrReject, tables, times, OwnersStay
  <2>. QED BY <1>1, <2>1, <2>2, <2>3, <2>4, <2>5, <2>6, <2>7 DEF Call
<1>2. ASSUME NEW h \in Handlers, EncodeCreated(h) PROVE OwnersStay
  BY <1>2 DEF EncodeCreated, tables, times, OwnersStay
<1>3. CASE UNCHANGED vars
  BY <1>3 DEF vars, tables, times, OwnersStay
<1>. QED BY <1>1, <1>2, <1>3 DEF Next
-----------------------------------------------------------------------------
(***************************************************************************)
(* Ratings.  Feedback outlives its message, so FeedbackByOwner needs that  *)
(* no later message gets the id of a rated one.                            *)
(***************************************************************************)
RatedIds == \A k \in DOMAIN feedback : k[2] < nextId

FeedbackInv == IndexInv /\ RatedIds /\ FeedbackByOwner

(* A row of feedback is an old one, or a rating by the owner.              *)
FeedbackGrows ==
  \A k \in DOMAIN feedback' :
    \/ k \in DOMAIN feedback
    \/ /\ k[2] < nextId
       /\ k[2] \in DOMAIN messageIndex /\ Owns(k[1], messageIndex[k[2]])

LEMMA StepFeedback == IndexInv /\ [Next]_vars => FeedbackGrows /\ nextId <= nextId'
<1>. SUFFICES ASSUME IndexInv, [Next]_vars PROVE FeedbackGrows /\ nextId <= nextId'
  OBVIOUS
<1>1. nextId \in Nat
  BY DEF IndexInv, TypeOK
<1>2. ASSUME NEW s \in Subjects, Call(s) PROVE FeedbackGrows /\ nextId <= nextId'
  <2>1. CASE \E h \in Handlers, t \in Titles : CreateConversation(h, s, t)
    BY <1>1, <2>1 DEF CreateConversation, MintIds, FeedbackGrows
  <2>2. CASE \E c \in Ids, t \in Titles : RenameConversation(s, c, t)
    BY <1>1, <2>2 DEF RenameConversation, FeedbackGrows
  <2>3. CASE \E c \in Ids : DeleteConversation(s, c)
    BY <1>1, <2>3 DEF DeleteConversation, FeedbackGrows
  <2>4. CASE \E c \in Ids, x \in Contents : AppendMessage(s, c, x)
    BY <1>1, <2>4 DEF AppendMessage, MintIds, FeedbackGrows
  <2>5. CASE \E m \in Ids, r \in Texts : UpsertFeedback(s, m, r)
    BY <1>1, <2>5 DEF UpsertFeedback, Put, FeedbackGrows, IndexInv, FreshIds
  <2>6. CASE \E m \in Ids, t \in Titles : BranchFromMessage(s, m, t)
    <3>1. PICK m \in Ids, t \in Titles : BranchFromMessage(s, m, t)
      BY <2>6
    <3>2. PICK cut \in Cuts(Log(messageIndex[m]), m) : MintIds(cut + 1)
      BY <3>1 DEF BranchFromMessage
    <3>3. cut \in Nat
      BY LogType DEF Cuts, IndexInv
    <3>. QED BY <1>1, <3>1, <3>2, <3>3 DEF BranchFromMessage, MintIds, FeedbackGrows
  <2>7. CASE ReadOrReject(s)
    BY <1>1, <2>7 DEF ReadOrReject, tables, times, FeedbackGrows
  <2>. QED BY <1>2, <2>1, <2>2, <2>3, <2>4, <2>5, <2>6, <2>7 DEF Call
<1>3. ASSUME NEW h \in Handlers, EncodeCreated(h) PROVE FeedbackGrows /\ nextId <= nextId'
  BY <1>1, <1>3 DEF EncodeCreated, tables, times, FeedbackGrows
<1>4. CASE UNCHANGED vars
  BY <1>1, <1>4 DEF vars, tables, times, FeedbackGrows
<1>. QED BY <1>2, <1>3, <1>4 DEF Next

LEMMA FeedbackInvCorrect == Spec => []FeedbackInv
<1>1. Init => FeedbackInv
  BY InitType, InitIndex DEF Init, EmptyTable, FeedbackInv, IndexInv, RatedIds, FeedbackByOwner
<1>2. FeedbackInv /\ [Next]_vars => FeedbackInv'
  <2>. SUFFICES ASSUME FeedbackInv, [Next]_vars PROVE FeedbackInv'
    OBVIOUS
  <2>1. IndexInv' /\ OwnersStay /\ FeedbackGrows /\ nextId <= nextId'
    BY StepType, StepIndex, StepOwners, StepFeedback DEF FeedbackInv, IndexInv
  <2>2. \A k \in DOMAIN feedback' : k[2] < nextId
    BY <2>1 DEF FeedbackGrows, FeedbackInv, RatedIds
  <2>3. RatedIds'
    <3>1. \A k \in DOMAIN feedback' : k[2] \in Nat
      BY <2>1 DEF IndexInv, TypeOK, Ids
    <3>2. nextId \in Nat /\ nextId' \in Nat
      BY <2>1 DEF FeedbackInv, IndexInv, TypeOK
    <3>. QED BY <2>1, <2>2, <3>1, <3>2 DEF RatedIds
  <2>4. ASSUME NEW k \in DOMAIN feedback', k[2] \in DOMAIN messageIndex'
        PROVE  conversations'[messageIndex'[k[2]]].sub = k[1]
    <3>1. k[2] \in DOMAIN messageIndex /\ messageIndex'[k[2]] = messageIndex[k[2]]
      BY <2>1, <2>2, <2>4 DEF OwnersStay
    <3>2. conversations[messageIndex[k[2]]].sub = k[1]
      BY <2>1, <3>1 DEF FeedbackGrows, FeedbackInv, FeedbackByOwner, Owns
    <3>3. messageIndex[k[2]] \in DOMAIN conversations
      BY <3>1 DEF FeedbackInv, IndexInv, IndexMatchesLogs, IndexedIsLogged,
                  LogsAreOfConversations
    <3>4. messageIndex'[k[2]] \in DOMAIN conversations'
      BY <2>1, <2>4 DEF IndexInv, IndexMatchesLogs, IndexedIsLogged, LogsAreOfConversations
    <3>. QED BY <2>1, <3>1, <3>2, <3>3, <3>4 DEF OwnersStay
  <2>. QED BY <2>1, <2>3, <2>4 DEF FeedbackInv, FeedbackByOwner
<1>. QED BY <1>1, <1>2, PTL DEF Spec

(* A rating of a message that still exists is its owner's.                 *)
THEOREM FeedbackCorrect == Spec => []FeedbackByOwner
<1>1. FeedbackInv => FeedbackByOwner
  BY DEF FeedbackInv
<1>. QED BY <1>1, FeedbackInvCorrect, PTL
-----------------------------------------------------------------------------
(***************************************************************************)
(* The logs.  A step leaves a log as it is or appends one message to it.   *)
(***************************************************************************)
LEMMA PrefixOfItself == ASSUME NEW S, NEW seq \in Seq(S) PROVE IsPrefix(seq, seq)
BY DEF IsPrefix

LEMMA PrefixOfAppend ==
  ASSUME NEW S, NEW seq \in Seq(S), NEW e \in S PROVE IsPrefix(seq, Append(seq, e))
<1>1. /\ Append(seq, e) \in Seq(S) /\ Len(Append(seq, e)) = Len(seq) + 1
      /\ Len(seq) \in Nat
      /\ \A i \in 1 .. Len(seq) : Append(seq, e)[i] = seq[i]
  BY AppendProperties
<1>2. SubSeq(seq, 1, Len(seq)) = SubSeq(Append(seq, e), 1, Len(seq))
  BY <1>1
<1>. QED BY <1>1, <1>2 DEF IsPrefix

LogsGrow ==
  \A c \in DOMAIN conversations \cap DOMAIN conversations' : IsPrefix(Log(c), Log(c)')

LEMMA SameLogs ==
  ASSUME TypeOK, UNCHANGED messages PROVE LogsGrow
BY LogType, PrefixOfItself DEF LogsGrow, Log

LEMMA DeleteLogs ==
  ASSUME TypeOK, NEW s \in Subjects, NEW c \in Ids, DeleteConversation(s, c)
  PROVE  LogsGrow
<1>. SUFFICES ASSUME NEW d \in DOMAIN conversations \cap DOMAIN conversations'
              PROVE  IsPrefix(Log(d), Log(d)')
  BY DEF LogsGrow
<1>1. d # c
  BY DEF DeleteConversation, Without, Restrict
<1>2. Log(d)' = Log(d)
  BY <1>1 DEF DeleteConversation, Without, Restrict, Log
<1>. QED BY <1>2, LogType, PrefixOfItself

LEMMA AppendLogs ==
  ASSUME TypeOK, NEW s \in Subjects, NEW c \in Ids, NEW x \in Contents,
         AppendMessage(s, c, x)
  PROVE  LogsGrow
<1>. SUFFICES ASSUME NEW d PROVE IsPrefix(Log(d), Log(d)')
  BY DEF LogsGrow
<1> DEFINE msg == [id |-> nextId, content |-> x, createdAt |-> clock']
<1>1. messages' = Put(messages, c, Append(Log(c), msg))
  BY DEF AppendMessage
<1>2. msg \in Message
  BY ClockType, MintType DEF AppendMessage, Message
<1>. HIDE DEF msg
<1>3. CASE d = c
  <2>1. Log(d)' = Append(Log(d), msg)
    BY <1>1, <1>3 DEF Log, Put
  <2>. QED BY <1>2, <2>1, LogType, PrefixOfAppend
<1>4. CASE d # c
  <2>1. Log(d)' = Log(d)
    BY <1>1, <1>4 DEF Log, Put
  <2>. QED BY <2>1, LogType, PrefixOfItself
<1>. QED BY <1>3, <1>4

LEMMA BranchLogs ==
  ASSUME IndexInv, NEW s \in Subjects, NEW m \in Ids, NEW t \in Titles,
         BranchFromMessage(s, m, t)
  PROVE  LogsGrow
<1>. SUFFICES ASSUME NEW d \in DOMAIN conversations PROVE IsPrefix(Log(d), Log(d)')
  BY DEF LogsGrow
<1>1. PICK log : messages' = Put(messages, nextId, log)
  BY DEF BranchFromMessage
<1>2. d # nextId
  BY DEF IndexInv, FreshIds, TypeOK
<1>3. Log(d)' = Log(d)
  BY <1>1, <1>2 DEF Log, Put
<1>. QED BY <1>3, LogType, PrefixOfItself DEF IndexInv

LEMMA StepLogs == IndexInv /\ [Next]_vars => LogsGrow
<1>. SUFFICES ASSUME IndexInv, [Next]_vars PROVE LogsGrow
  OBVIOUS
<1>. USE DEF IndexInv
<1>1. ASSUME NEW s \in Subjects, Call(s) PROVE LogsGrow
  <2>1. CASE \E h \in Handlers, t \in Titles : CreateConversation(h, s, t)
    BY <2>1, SameLogs DEF CreateConversation
  <2>2. CASE \E c \in Ids, t \in Titles : RenameConversation(s, c, t)
    BY <2>2, SameLogs DEF RenameConversation
  <2>3. CASE \E c \in Ids : DeleteConversation(s, c)
    BY <2>3, DeleteLogs
  <2>4. CASE \E c \in Ids, x \in Contents : AppendMessage(s, c, x)
    BY <2>4, AppendLogs
  <2>5. CASE \E m \in Ids, r \in Texts : UpsertFeedback(s, m, r)
    BY <2>5, SameLogs DEF UpsertFeedback
  <2>6. CASE \E m \in Ids, t \in Titles : BranchFromMessage(s, m, t)
    BY <2>6, BranchLogs
  <2>7. CASE ReadOrReject(s)
    BY <2>7, SameLogs DEF ReadOrReject, tables, times
  <2>. QED BY <1>1, <2>1, <2>2, <2>3, <2>4, <2>5, <2>6, <2>7 DEF Call
<1>2. ASSUME NEW h \in Handlers, EncodeCreated(h) PROVE LogsGrow
  BY <1>2, SameLogs DEF EncodeCreated, tables, times
<1>3. CASE UNCHANGED vars
  BY <1>3, SameLogs DEF vars, tables, times
<1>. QED BY <1>1, <1>2, <1>3 DEF Next

(* A conversation keeps its owner, and its log only grows at the end.      *)
THEOREM HistoryCorrect == Spec => HistoryIsAppendOnly
<1>1. IndexInv /\ [Next]_vars => [HistoryGrows]_vars
  <2>. SUFFICES ASSUME IndexInv, [Next]_vars PROVE HistoryGrows
    OBVIOUS
  <2>1. OwnersStay /\ LogsGrow
    BY StepOwners, StepLogs
  <2>. QED BY <2>1 DEF OwnersStay, LogsGrow, HistoryGrows
<1>. QED BY <1>1, IndexInvCorrect, PTL DEF Spec, HistoryIsAppendOnly
=============================================================================
