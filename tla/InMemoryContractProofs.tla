----------------------- MODULE InMemoryContractProofs -----------------------
(***************************************************************************)
(* More theorems about InMemoryStore for every value of its constants: the *)
(* order of the logs, what a branch shares with its source, the isolation  *)
(* of subjects and the contract of store.Store.                            *)
(***************************************************************************)
EXTENDS InMemoryStoreProofs

(***************************************************************************)
(* What a step does to one conversation c and its log.                     *)
(***************************************************************************)
LogKept(c) ==
  /\ c \in DOMAIN conversations
  /\ Log(c)' = Log(c)
  /\ conversations'[c].updatedAt \in {conversations[c].updatedAt, clock'}

LogExtended(c) ==
  /\ c \in DOMAIN conversations
  /\ conversations'[c].updatedAt = clock'
  /\ \E e \in Message : e.createdAt = clock' /\ Log(c)' = Append(Log(c), e)

LogNew(c) ==
  /\ c = nextId
  /\ conversations'[c].updatedAt = clock'
  /\ \A i \in DOMAIN Log(c)' : Log(c)'[i].createdAt = clock'

(* The clock moves on, or setBack is set.                                  *)
ClockStep == ~setBack' => ~setBack /\ clock <= clock'

LogsStep ==
  /\ ClockStep
  /\ \A c \in DOMAIN conversations' : LogKept(c) \/ LogExtended(c) \/ LogNew(c)

(* A step that touches no log and at most the time of conversations.       *)
LEMMA OtherLogs ==
  ASSUME UNCHANGED messages, ClockStep,
         \A c \in DOMAIN conversations' :
           /\ c \in DOMAIN conversations
           /\ conversations'[c].updatedAt \in {conversations[c].updatedAt, clock'}
  PROVE  LogsStep
BY DEF LogsStep, LogKept, Log

(* Every reading of the clock is one of these steps, and so is none.       *)
LEMMA ClockAdvances == TypeOK => (ReadClock => ClockStep) /\ (UNCHANGED times => ClockStep)
<1>. SUFFICES ASSUME TypeOK PROVE (ReadClock => ClockStep) /\ (UNCHANGED times => ClockStep)
  OBVIOUS
<1>1. clock \in Nat
  BY BoundsAssumption DEF TypeOK
<1>2. ASSUME ReadClock PROVE ClockStep
  <2>1. clock' \in Nat
    BY <1>2, BoundsAssumption DEF ReadClock
  <2>2. clock' < clock \/ clock <= clock'
    BY <1>1, <2>1
  <2>. QED BY <1>2, <2>2, Zenon DEF ReadClock, ClockStep
<1>3. ASSUME UNCHANGED times PROVE ClockStep
  <2>1. clock <= clock
    BY <1>1
  <2>. QED BY <1>3, <2>1, Zenon DEF times, ClockStep
<1>. QED BY <1>2, <1>3

(* Each operation moves the logs as LogsStep says: a new one is empty, ... *)
LEMMA CreateLogsStep ==
  ASSUME IndexInv, NEW h \in Handlers, NEW s \in Subjects, NEW t \in Titles,
         CreateConversation(h, s, t)
  PROVE  LogsStep
<1>1. UNCHANGED messages /\ ClockStep
  BY ClockAdvances DEF CreateConversation, IndexInv
<1>2. ASSUME NEW c, c = nextId PROVE LogNew(c)
  <2>1. c \notin DOMAIN messages
    BY <1>2 DEF IndexInv, FreshIds, TypeOK, IndexMatchesLogs, LogsAreOfConversations
  <2>2. Log(c)' = << >>
    BY <1>1, <2>1 DEF Log
  <2>3. conversations'[c].updatedAt = clock'
    BY <1>2 DEF CreateConversation, Put
  <2>. QED BY <1>2, <2>2, <2>3 DEF LogNew
<1>3. ASSUME NEW c \in DOMAIN conversations', c # nextId PROVE LogKept(c)
  <2>1. c \in DOMAIN conversations /\ conversations'[c] = conversations[c]
    BY <1>3 DEF CreateConversation, Put
  <2>. QED BY <1>1, <2>1 DEF LogKept, Log
<1>. QED BY <1>1, <1>2, <1>3 DEF LogsStep

(* ... a rename leaves them, ...                                           *)
LEMMA RenameLogsStep ==
  ASSUME IndexInv, NEW s \in Subjects, NEW c \in Ids, NEW t \in Titles,
         RenameConversation(s, c, t)
  PROVE  LogsStep
<1>1. conversations[c] \in Conversation /\ c \in DOMAIN conversations
  BY DEF RenameConversation, Owns, IndexInv, TypeOK
<1>2. \A d \in DOMAIN conversations' :
        /\ d \in DOMAIN conversations
        /\ conversations'[d].updatedAt \in {conversations[d].updatedAt, clock'}
  BY <1>1 DEF RenameConversation, Put, Conversation
<1>. QED BY <1>2, ClockAdvances, OtherLogs DEF RenameConversation, IndexInv

(* ... a delete takes one, ...                                             *)
LEMMA DeleteLogsStep ==
  ASSUME IndexInv, NEW s \in Subjects, NEW c \in Ids, DeleteConversation(s, c)
  PROVE  LogsStep
<1>1. \A d \in DOMAIN conversations' :
        d # c /\ d \in DOMAIN conversations /\ conversations'[d] = conversations[d]
  BY DEF DeleteConversation, Without, Restrict
<1>2. \A d : d # c => Log(d)' = Log(d)
  BY DEF DeleteConversation, Without, Restrict, Log
<1>3. ClockStep
  BY ClockAdvances DEF DeleteConversation, IndexInv
<1>. QED BY <1>1, <1>2, <1>3 DEF LogsStep, LogKept

(* ... an append adds an entry at the end of one, ...                      *)
LEMMA AppendLogsStep ==
  ASSUME IndexInv, NEW s \in Subjects, NEW c \in Ids, NEW x \in Contents,
         AppendMessage(s, c, x)
  PROVE  LogsStep
<1> DEFINE msg == [id |-> nextId, content |-> x, createdAt |-> clock']
<1>1. msg \in Message /\ msg.createdAt = clock'
  BY ClockType, MintType DEF AppendMessage, Message, IndexInv
<1>2. messages' = Put(messages, c, Append(Log(c), msg))
  BY DEF AppendMessage
<1>. HIDE DEF msg
<1>3. Log(c)' = Append(Log(c), msg) /\ \A d : d # c => Log(d)' = Log(d)
  BY <1>2 DEF Log, Put
<1>4. conversations[c] \in Conversation /\ c \in DOMAIN conversations
  BY DEF AppendMessage, Owns, IndexInv, TypeOK
<1>5. conversations'[c].updatedAt = clock'
  BY <1>4 DEF AppendMessage, Put, Touched, Conversation
<1>6. \A d \in DOMAIN conversations' : d \in DOMAIN conversations
        /\ (d # c => conversations'[d] = conversations[d])
  BY <1>4 DEF AppendMessage, Put
<1>7. ClockStep
  BY ClockAdvances DEF AppendMessage, IndexInv
<1>8. LogExtended(c)
  BY <1>1, <1>3, <1>4, <1>5 DEF LogExtended
<1>9. ASSUME NEW d \in DOMAIN conversations', d # c PROVE LogKept(d)
  BY <1>3, <1>6, <1>9 DEF LogKept
<1>. QED BY <1>7, <1>8, <1>9 DEF LogsStep

(* ... and a branch adds one with copies.                                  *)
LEMMA BranchLogsStep ==
  ASSUME IndexInv, NEW s \in Subjects, NEW m \in Ids, NEW t \in Titles,
         BranchFromMessage(s, m, t)
  PROVE  LogsStep
<1> DEFINE src == messageIndex[m]
           row == [sub |-> s, updatedAt |-> clock',
                   title |-> BranchTitle(t, conversations[src].title)]
<1>1. PICK cut \in Cuts(Log(src), m) :
        /\ conversations' = Put(conversations, nextId, row)
        /\ messages' = Put(messages, nextId, Copies(Log(src), cut, nextId + 1, clock'))
        /\ ReadClock
  BY DEF BranchFromMessage
<1> DEFINE log == Copies(Log(src), cut, nextId + 1, clock')
<1>2. \A i \in DOMAIN log : log[i].createdAt = clock'
  BY DEF Copies
<1>3. \A d : d = nextId => conversations'[d].updatedAt = clock'
  BY <1>1 DEF Put
<1>4. messages' = Put(messages, nextId, log)
  BY <1>1
<1>. HIDE DEF log
<1>5. \A d : Log(d)' = IF d = nextId THEN log ELSE Log(d)
  BY <1>4 DEF Log, Put
<1>6. \A d \in DOMAIN conversations' : d # nextId =>
        d \in DOMAIN conversations /\ conversations'[d] = conversations[d]
  BY <1>1 DEF Put
<1>7. ASSUME NEW d, d = nextId PROVE LogNew(d)
  BY <1>2, <1>3, <1>5, <1>7 DEF LogNew
<1>8. ASSUME NEW d \in DOMAIN conversations', d # nextId PROVE LogKept(d)
  BY <1>5, <1>6, <1>8 DEF LogKept
<1>. QED BY <1>1, <1>7, <1>8, ClockAdvances DEF LogsStep, IndexInv

(* All operations together.                                                *)
LEMMA StepLogsStep == IndexInv /\ [Next]_vars => LogsStep
<1>. SUFFICES ASSUME IndexInv, [Next]_vars PROVE LogsStep
  OBVIOUS
<1>1. UNCHANGED <<conversations, messages, times>> => LogsStep
  BY OtherLogs, ClockAdvances DEF IndexInv
<1>2. ASSUME NEW s \in Subjects, Call(s) PROVE LogsStep
  <2>1. CASE \E h \in Handlers, t \in Titles : CreateConversation(h, s, t)
    BY <2>1, CreateLogsStep
  <2>2. CASE \E c \in Ids, t \in Titles : RenameConversation(s, c, t)
    BY <2>2, RenameLogsStep
  <2>3. CASE \E c \in Ids : DeleteConversation(s, c)
    BY <2>3, DeleteLogsStep
  <2>4. CASE \E c \in Ids, x \in Contents : AppendMessage(s, c, x)
    BY <2>4, AppendLogsStep
  <2>5. CASE \E m \in Ids, r \in Texts : UpsertFeedback(s, m, r)
    BY <1>1, <2>5 DEF UpsertFeedback
  <2>6. CASE \E m \in Ids, t \in Titles : BranchFromMessage(s, m, t)
    BY <2>6, BranchLogsStep
  <2>7. CASE ReadOrReject(s)
    BY <1>1, <2>7 DEF ReadOrReject, tables, times
  <2>. QED BY <1>2, <2>1, <2>2, <2>3, <2>4, <2>5, <2>6, <2>7 DEF Call
<1>3. ASSUME NEW h \in Handlers, EncodeCreated(h) PROVE LogsStep
  BY <1>1, <1>3 DEF EncodeCreated, tables, times
<1>4. CASE UNCHANGED vars
  BY <1>1, <1>4 DEF vars, tables, times
<1>. QED BY <1>2, <1>3, <1>4 DEF Next
-----------------------------------------------------------------------------
(***************************************************************************)
(* Times.  RecencyCoversLog is not inductive by itself: an append puts the *)
(* time of the clock at the end of a log, so no conversation may be ahead  *)
(* of the clock, unless the clock has been set back.                       *)
(***************************************************************************)
NotAhead ==
  ~setBack => \A c \in DOMAIN conversations : conversations[c].updatedAt <= clock

Sorted(log, time) ==
  \A i \in DOMAIN log :
    /\ log[i].createdAt <= time
    /\ \A j \in DOMAIN log : i < j => log[i].createdAt <= log[j].createdAt

RecencyInv == IndexInv /\ NotAhead /\ RecencyCoversLog

(* A sorted log stays sorted when a message with a later time is appended. *)
LEMMA SortedAppend ==
  ASSUME NEW log \in Seq(Message), NEW time \in Nat, NEW now \in Nat, time <= now,
         Sorted(log, time), NEW e \in Message, e.createdAt = now
  PROVE  Sorted(Append(log, e), now)
<1> DEFINE longer == Append(log, e)
<1>1. /\ longer \in Seq(Message) /\ Len(longer) = Len(log) + 1 /\ Len(log) \in Nat
      /\ \A i \in 1 .. Len(log) : longer[i] = log[i]
      /\ longer[Len(log) + 1] = e
  BY AppendProperties
<1>2. \A i \in 1 .. Len(log) : log[i].createdAt \in Nat
  <2>1. \A i \in 1 .. Len(log) : log[i] \in Message
    OBVIOUS
  <2>. QED BY <2>1 DEF Message
<1>3. DOMAIN log = 1 .. Len(log) /\ DOMAIN longer = 1 .. Len(log) + 1
  BY <1>1
<1>4. Sorted(longer, now)
  <2>. HIDE DEF longer
  <2>1. ASSUME NEW i \in 1 .. Len(log)
        PROVE  /\ longer[i].createdAt <= now
               /\ \A j \in 1 .. Len(log) + 1 : i < j => longer[i].createdAt <= longer[j].createdAt
    <3>1. longer[i] = log[i] /\ log[i].createdAt \in Nat
      BY <1>1, <1>2
    <3>2. log[i].createdAt <= time
      BY <1>3 DEF Sorted
    <3>3. log[i].createdAt <= now
      BY <3>1, <3>2
    <3>4. ASSUME NEW j \in 1 .. Len(log), i < j PROVE log[i].createdAt <= log[j].createdAt
      BY <1>3, <3>4 DEF Sorted
    <3>5. \A j \in 1 .. Len(log) + 1 : j \in 1 .. Len(log) \/ j = Len(log) + 1
      BY <1>1
    <3>. QED BY <1>1, <3>1, <3>3, <3>4, <3>5
  <2>2. ~(\E j \in 1 .. Len(log) + 1 : Len(log) + 1 < j)
    BY <1>1
  <2>3. \A i \in 1 .. Len(log) + 1 : i \in 1 .. Len(log) \/ i = Len(log) + 1
    BY <1>1
  <2>. QED BY <1>1, <1>3, <2>1, <2>2, <2>3 DEF Sorted
<1>. QED BY <1>4

(* Every step keeps RecencyInv.                                            *)
LEMMA StepRecency == RecencyInv /\ [Next]_vars => RecencyInv'
<1>. SUFFICES ASSUME RecencyInv, [Next]_vars PROVE RecencyInv'
  OBVIOUS
<1>1. IndexInv /\ IndexInv' /\ LogsStep
  BY StepType, StepIndex, StepLogsStep DEF RecencyInv, IndexInv
<1>. SUFFICES ASSUME ~setBack' PROVE NotAhead' /\ RecencyCoversLog'
  BY <1>1 DEF RecencyInv, NotAhead, RecencyCoversLog
<1>2. ~setBack /\ clock \in Nat /\ clock' \in Nat /\ clock <= clock'
  BY <1>1 DEF IndexInv, TypeOK, LogsStep, ClockStep
<1>3. ASSUME NEW c \in DOMAIN conversations'
      PROVE  conversations'[c].updatedAt <= clock' /\ Sorted(Log(c)', conversations'[c].updatedAt)
  <2>1. CASE c \in DOMAIN conversations /\ (LogKept(c) \/ LogExtended(c))
    <3>1. conversations[c].updatedAt \in Nat
      BY <1>1, <2>1 DEF IndexInv, TypeOK, Conversation
    <3>2. conversations[c].updatedAt <= clock /\ Sorted(Log(c), conversations[c].updatedAt)
      BY <1>2, <2>1 DEF RecencyInv, NotAhead, RecencyCoversLog, Sorted
    <3>3. Log(c) \in Seq(Message)
      BY <1>1, LogType DEF IndexInv
    <3>4. CASE LogExtended(c)
      <4>1. Sorted(Log(c)', clock')
        BY <1>2, <3>1, <3>2, <3>3, <3>4, SortedAppend DEF LogExtended
      <4>. QED BY <1>2, <3>4, <4>1 DEF LogExtended
    <3>5. CASE LogKept(c)
      <4>1. \A i \in DOMAIN Log(c) : Log(c)[i].createdAt \in Nat
        <5>1. \A i \in DOMAIN Log(c) : Log(c)[i] \in Message
          BY <3>3
        <5>. QED BY <5>1 DEF Message
      <4>. QED BY <1>2, <3>1, <3>2, <3>5, <4>1 DEF LogKept, Sorted
    <3>. QED BY <2>1, <3>4, <3>5
  <2>2. CASE LogNew(c)
    <3>1. \A i, j \in DOMAIN Log(c)' : Log(c)'[i].createdAt = clock'
      BY <2>2 DEF LogNew
    <3>. QED BY <1>2, <2>2, <3>1 DEF LogNew, Sorted
  <2>. QED BY <1>1, <2>1, <2>2 DEF LogsStep, LogKept, LogExtended
<1>. QED BY <1>1, <1>3 DEF RecencyInv, NotAhead, RecencyCoversLog, Sorted

(* As long as nobody sets the clock back, a log is in the order of its     *)
(* creation times and a conversation is at least as recent as each of its  *)
(* messages: no operation forgets to touch the conversation, and a branch  *)
(* does not take over the times of its source.                             *)
THEOREM RecencyCorrect == Spec => []RecencyCoversLog
<1>1. Init => RecencyInv
  BY InitType, InitIndex DEF Init, EmptyTable, RecencyInv, IndexInv, NotAhead, RecencyCoversLog
<1>2. RecencyInv => RecencyCoversLog
  BY DEF RecencyInv
<1>. QED BY <1>1, <1>2, StepRecency, PTL DEF Spec
-----------------------------------------------------------------------------
(***************************************************************************)
(* Branches.  What a branch shares with its source is the beginning of two *)
(* logs, and logs only grow at the end.  It is only for conversations of   *)
(* the ids noted in origin that this helps: the invariant has to say that  *)
(* neither id can be given to another conversation.                        *)
(***************************************************************************)
OriginIds ==
  \A b \in DOMAIN origin : b < nextId /\ origin[b].source < nextId /\ origin[b].size # 0

BranchInv == IndexInv /\ OriginIds /\ BranchSharesHistory

Shares(log, srcLog, n, at) ==
  /\ n <= Len(log) /\ n <= Len(srcLog)
  /\ srcLog[n].id = at
  /\ \A i \in 1..n : log[i].content = srcLog[i].content /\ log[i].id # srcLog[i].id

(* The entries of a prefix are those of the longer sequence.               *)
LEMMA PrefixEntries ==
  ASSUME NEW S, NEW seq \in Seq(S), NEW longer \in Seq(S), IsPrefix(seq, longer)
  PROVE  Len(seq) <= Len(longer) /\ \A i \in 1 .. Len(seq) : longer[i] = seq[i]
<1>1. Len(seq) <= Len(longer) /\ SubSeq(seq, 1, Len(seq)) = SubSeq(longer, 1, Len(seq))
  BY DEF IsPrefix
<1>2. \A i \in 1 .. Len(seq) : SubSeq(seq, 1, Len(seq))[i] = seq[i]
                               /\ SubSeq(longer, 1, Len(seq))[i] = longer[i]
  BY <1>1
<1>. QED BY <1>1, <1>2

(* Logs that share a history share it when both have grown.                *)
LEMMA SharesMore ==
  ASSUME NEW log \in Seq(Message), NEW srcLog \in Seq(Message),
         NEW log2 \in Seq(Message), NEW srcLog2 \in Seq(Message),
         IsPrefix(log, log2), IsPrefix(srcLog, srcLog2),
         NEW n \in Nat, n # 0, NEW at, Shares(log, srcLog, n, at)
  PROVE  Shares(log2, srcLog2, n, at)
<1>1. /\ Len(log) <= Len(log2) /\ \A i \in 1 .. Len(log) : log2[i] = log[i]
      /\ Len(srcLog) <= Len(srcLog2) /\ \A i \in 1 .. Len(srcLog) : srcLog2[i] = srcLog[i]
  BY PrefixEntries
<1>2. /\ Len(log) <= Len(log2) /\ Len(srcLog) <= Len(srcLog2)
      /\ Len(log) \in Nat /\ Len(log2) \in Nat /\ Len(srcLog) \in Nat /\ Len(srcLog2) \in Nat
      /\ n <= Len(log) /\ n <= Len(srcLog)
  BY <1>1 DEF Shares
<1>3. \A i \in 1..n : log2[i] = log[i] /\ srcLog2[i] = srcLog[i]
  BY <1>1, <1>2
<1>4. n <= Len(log2) /\ n <= Len(srcLog2) /\ n \in 1..n
  BY <1>2
<1>5. srcLog[n].id = at
      /\ \A i \in 1..n : log[i].content = srcLog[i].content /\ log[i].id # srcLog[i].id
  BY DEF Shares
<1>6. srcLog2[n].id = at
      /\ \A i \in 1..n : log2[i].content = srcLog2[i].content /\ log2[i].id # srcLog2[i].id
  BY <1>3, <1>4, <1>5
<1>. QED BY <1>4, <1>6 DEF Shares

(* A log is a sequence of messages, even that of an id that is not there.  *)
LEMMA LogsTyped == TypeOK => \A d : Log(d) \in Seq(Message)
BY LogType

(* A branch that is there already.                                         *)
LEMMA OldBranch ==
  ASSUME BranchInv, [Next]_vars, TypeOK',
         NEW b \in DOMAIN origin, NEW src, src = origin[b].source,
         {b, src} \subseteq DOMAIN conversations'
  PROVE  Shares(Log(b)', Log(src)', origin[b].size, origin[b].at)
<1>1. b # nextId /\ src # nextId /\ origin[b].size \in Nat \ {0}
  BY DEF BranchInv, OriginIds, IndexInv, TypeOK, Origin
<1>2. {b, src} \subseteq DOMAIN conversations
  BY <1>1, StepLogsStep DEF BranchInv, LogsStep, LogKept, LogExtended, LogNew
<1>3. Shares(Log(b), Log(src), origin[b].size, origin[b].at)
  BY <1>2 DEF BranchInv, BranchSharesHistory, Shares
<1>4. IsPrefix(Log(b), Log(b)') /\ IsPrefix(Log(src), Log(src)')
  BY <1>2, StepLogs DEF BranchInv, LogsGrow
<1>5. Log(b) \in Seq(Message) /\ Log(src) \in Seq(Message)
  BY LogsTyped DEF BranchInv, IndexInv
<1>6. Log(b)' \in Seq(Message) /\ Log(src)' \in Seq(Message)
  <2>1. TypeOK' => (\A d : Log(d) \in Seq(Message))'
    BY LogsTyped, PTL
  <2>. QED BY <2>1
<1>. QED BY <1>1, <1>3, <1>4, <1>5, <1>6, SharesMore

(* A new one: copies of the first messages, under new ids.                 *)
LEMMA NewBranch ==
  ASSUME IndexInv, NEW s \in Subjects, NEW m \in Ids, NEW t \in Titles,
         BranchFromMessage(s, m, t)
  PROVE  \E src \in DOMAIN conversations, n \in Nat \ {0} :
           /\ origin' = Put(origin, nextId, [source |-> src, at |-> m, size |-> n])
           /\ nextId' = nextId + n + 1
           /\ \A b : b = nextId => Shares(Log(b)', Log(src)', n, m)
<1> DEFINE src == messageIndex[m]
<1>1. PICK cut \in Cuts(Log(src), m) :
        /\ MintIds(cut + 1)
        /\ messages' = Put(messages, nextId, Copies(Log(src), cut, nextId + 1, clock'))
        /\ origin' = Put(origin, nextId, [source |-> src, at |-> m, size |-> cut])
  BY DEF BranchFromMessage
<1> DEFINE log == Copies(Log(src), cut, nextId + 1, clock')
<1>2. /\ Log(src) \in Seq(Message) /\ cut \in 1 .. Len(Log(src)) /\ cut \in Nat \ {0}
      /\ Log(src)[cut].id = m
  BY LogType DEF Cuts, IndexInv
<1>3. nextId \in Nat /\ src # nextId /\ src \in DOMAIN conversations
  BY DEF IndexInv, TypeOK, FreshIds, BranchFromMessage, Owns
<1>4. Len(log) = cut /\ \A i \in 1..cut : log[i].id = nextId + i /\ log[i].content = Log(src)[i].content
  BY <1>2, <1>3 DEF Copies
<1>5. \A i \in 1..cut : Log(src)[i].id < nextId /\ Log(src)[i].id \in Nat
  <2>1. ASSUME NEW i \in 1..cut PROVE i \in DOMAIN Log(src)
    BY <1>2
  <2>2. \A i \in 1..cut : Log(src)[i].id < nextId /\ Log(src)[i].id \in DOMAIN messageIndex
    BY <2>1, LogFacts
  <2>. QED BY <2>2 DEF IndexInv, TypeOK, Ids
<1>. HIDE DEF log, src
<1>6. messages' = Put(messages, nextId, log)
  BY <1>1 DEF log
<1>7. \A d : Log(d)' = IF d = nextId THEN log ELSE Log(d)
  BY <1>6 DEF Log, Put
<1>8. ASSUME NEW b, b = nextId, NEW source, source = src
      PROVE  Shares(Log(b)', Log(source)', cut, m)
  <2>1. Log(b)' = log /\ Log(source)' = Log(src)
    BY <1>3, <1>7, <1>8
  <2>2. Shares(log, Log(src), cut, m)
    BY <1>2, <1>3, <1>4, <1>5 DEF Shares
  <2>. QED BY <2>1, <2>2
<1>9. nextId' = nextId + cut + 1
  BY <1>1, <1>2, <1>3 DEF MintIds
<1>. QED BY <1>1, <1>2, <1>3, <1>8, <1>9

(* Only a branch adds to origin.                                           *)
LEMMA OriginStays ==
  [Next]_vars => \/ UNCHANGED origin
                 \/ \E s \in Subjects, m \in Ids, t \in Titles : BranchFromMessage(s, m, t)
BY DEF Next, Call, CreateConversation, RenameConversation, DeleteConversation, AppendMessage,
       UpsertFeedback, ReadOrReject, EncodeCreated, vars, tables

(* Every step keeps BranchInv.                                             *)
LEMMA StepBranch == BranchInv /\ [Next]_vars => BranchInv'
<1>. SUFFICES ASSUME BranchInv, [Next]_vars PROVE BranchInv'
  OBVIOUS
<1>1. IndexInv /\ IndexInv'
  BY StepType, StepIndex DEF BranchInv, IndexInv
<1>2. nextId \in Nat /\ nextId' \in Nat /\ nextId <= nextId'
  BY <1>1, StepFeedback DEF IndexInv, TypeOK
<1> DEFINE OldOrigin(b) ==
      /\ b < nextId' /\ origin[b].source < nextId' /\ origin[b].size # 0
      /\ {b, origin[b].source} \subseteq DOMAIN conversations' =>
           \A src : src = origin[b].source =>
             Shares(Log(b)', Log(src)', origin[b].size, origin[b].at)
<1>3. ASSUME NEW b \in DOMAIN origin PROVE OldOrigin(b)
  <2>1. b \in Nat /\ origin[b].source \in Nat
    BY <1>1 DEF IndexInv, TypeOK, Ids, Origin
  <2>2. b < nextId' /\ origin[b].source < nextId' /\ origin[b].size # 0
    BY <1>2, <2>1 DEF BranchInv, OriginIds
  <2>. QED BY <1>1, <2>2, OldBranch DEF IndexInv
<1>4. ASSUME NEW b \in DOMAIN origin'
      PROVE  /\ b < nextId' /\ origin'[b].source < nextId' /\ origin'[b].size # 0
             /\ {b, origin'[b].source} \subseteq DOMAIN conversations' =>
                  \A src : src = origin'[b].source =>
                    Shares(Log(b)', Log(src)', origin'[b].size, origin'[b].at)
  <2>1. CASE UNCHANGED origin
    BY <1>3, <2>1
  <2>2. CASE \E s \in Subjects, m \in Ids, t \in Titles : BranchFromMessage(s, m, t)
    <3>1. PICK s \in Subjects, m \in Ids, t \in Titles : BranchFromMessage(s, m, t)
      BY <2>2
    <3>2. PICK source \in DOMAIN conversations, n \in Nat \ {0} :
            /\ origin' = Put(origin, nextId, [source |-> source, at |-> m, size |-> n])
            /\ nextId' = nextId + n + 1
            /\ \A d : d = nextId => Shares(Log(d)', Log(source)', n, m)
      BY <1>1, <3>1, NewBranch
    <3>3. CASE b = nextId
      <4>1. origin'[b].source = source /\ origin'[b].at = m /\ origin'[b].size = n
        BY <3>2, <3>3 DEF Put
      <4>2. source < nextId /\ source \in Nat
        BY <1>1 DEF IndexInv, FreshIds, TypeOK, Ids
      <4>. QED BY <1>2, <3>2, <3>3, <4>1, <4>2
    <3>4. CASE b # nextId
      <4>1. b \in DOMAIN origin /\ origin'[b] = origin[b]
        BY <3>2, <3>4 DEF Put
      <4>. QED BY <1>3, <4>1
    <3>. QED BY <3>3, <3>4
  <2>. QED BY <2>1, <2>2, OriginStays
<1>5. OriginIds'
  BY <1>4 DEF OriginIds
<1>6. BranchSharesHistory'
  BY <1>4 DEF BranchSharesHistory, Shares
<1>. QED BY <1>1, <1>5, <1>6 DEF BranchInv

(* A branch and its source keep sharing the messages that were copied, as  *)
(* long as both exist.                                                     *)
THEOREM BranchCorrect == Spec => []BranchSharesHistory
<1>1. Init => BranchInv
  BY InitType, InitIndex DEF Init, EmptyTable, BranchInv, IndexInv, OriginIds, BranchSharesHistory
<1>2. BranchInv => BranchSharesHistory
  BY DEF BranchInv
<1>. QED BY <1>1, <1>2, StepBranch, PTL DEF Spec
-----------------------------------------------------------------------------
(***************************************************************************)
(* Isolation.  What a subject observes depends on its own rows, on their   *)
(* logs and on the feedback under its name only; each call leaves those of *)
(* every other subject alone.                                              *)
(***************************************************************************)
LeavesAlone(s) ==
  /\ Mine(s)' = Mine(s)
  /\ \A c \in Mine(s) : conversations'[c] = conversations[c] /\ Log(c)' = Log(c)
  /\ \A m : /\ <<s, m>> \in DOMAIN feedback' <=> <<s, m>> \in DOMAIN feedback
            /\ <<s, m>> \in DOMAIN feedback => feedback'[<<s, m>>] = feedback[<<s, m>>]

(* A list of the elements of a set has nothing else in it.                 *)
LEMMA ListedFrom == ASSUME NEW S, NEW q \in SetToSeqs(S) PROVE \A i \in DOMAIN q : q[i] \in S
BY DEF SetToSeqs

(* A subject whose rows are left alone observes the same.                  *)
LEMMA OthersSeeNothing ==
  ASSUME NEW s, LeavesAlone(s) PROVE Observes(s)' = Observes(s)
<1> DEFINE Recent(q) ==
      \A i, j \in DOMAIN q :
        i < j => conversations[q[i]].updatedAt >= conversations[q[j]].updatedAt
<1>1. ListConversations(s)' = ListConversations(s)
  <2>1. ASSUME NEW q \in SetToSeqs(Mine(s)) PROVE Recent(q)' <=> Recent(q)
    <3>1. \A i \in DOMAIN q : conversations'[q[i]] = conversations[q[i]]
      BY ListedFrom DEF LeavesAlone
    <3>. QED BY <3>1
  <2>2. ListConversations(s) = {q \in SetToSeqs(Mine(s)) : Recent(q)}
    BY DEF ListConversations
  <2>3. ListConversations(s)' = {q \in SetToSeqs(Mine(s)') : Recent(q)'}
    BY DEF ListConversations
  <2>4. Mine(s)' = Mine(s)
    BY DEF LeavesAlone
  <2>. HIDE DEF Recent
  <2>. QED BY <2>1, <2>2, <2>3, <2>4
<1>2. ASSUME NEW c
      PROVE  GetConversation(s, c)' = GetConversation(s, c) /\ ListMessages(s, c)' = ListMessages(s, c)
  <2>1. (Owns(s, c) <=> c \in Mine(s)) /\ (Owns(s, c)' <=> c \in Mine(s)')
    BY DEF Owns, Mine
  <2>. QED BY <2>1 DEF LeavesAlone, GetConversation, ListMessages
<1>3. ASSUME NEW m PROVE GetFeedback(s, m)' = GetFeedback(s, m)
  BY DEF LeavesAlone, GetFeedback
<1>4. [c \in Ids |-> GetConversation(s, c)]' = [c \in Ids |-> GetConversation(s, c)]
  BY <1>2
<1>5. [c \in Ids |-> ListMessages(s, c)]' = [c \in Ids |-> ListMessages(s, c)]
  BY <1>2
<1>6. [m \in Ids |-> GetFeedback(s, m)]' = [m \in Ids |-> GetFeedback(s, m)]
  BY <1>3
<1>. QED BY <1>1, <1>4, <1>5, <1>6 DEF Observes

(* A call leaves the rows of every subject but its caller alone.           *)
LEMMA CallIsolates ==
  ASSUME IndexInv, NEW caller0 \in Subjects, Call(caller0), NEW s \in Subjects, s # caller0
  PROVE  LeavesAlone(s)
<1>1. nextId \notin DOMAIN conversations
  BY DEF IndexInv, FreshIds, TypeOK
<1>2. CASE \E h \in Handlers, t \in Titles : CreateConversation(h, caller0, t)
  BY <1>1, <1>2 DEF CreateConversation, Put, Mine, Log, LeavesAlone
<1>3. CASE \E c \in Ids, t \in Titles : RenameConversation(caller0, c, t)
  <2>1. PICK c \in Ids, t \in Titles : RenameConversation(caller0, c, t)
    BY <1>3
  <2>2. conversations[c] \in Conversation /\ conversations[c].sub = caller0
    BY <2>1 DEF RenameConversation, Owns, IndexInv, TypeOK
  <2>3. conversations'[c].sub = caller0
    BY <2>1, <2>2 DEF RenameConversation, Put, Conversation
  <2>. QED BY <2>1, <2>2, <2>3 DEF RenameConversation, Owns, Put, Mine, Log, LeavesAlone
<1>4. CASE \E c \in Ids : DeleteConversation(caller0, c)
  BY <1>4 DEF DeleteConversation, Owns, Without, Restrict, Mine, Log, LeavesAlone
<1>5. CASE \E c \in Ids, x \in Contents : AppendMessage(caller0, c, x)
  <2>1. PICK c \in Ids, x \in Contents : AppendMessage(caller0, c, x)
    BY <1>5
  <2>2. conversations[c] \in Conversation /\ conversations[c].sub = caller0
    BY <2>1 DEF AppendMessage, Owns, IndexInv, TypeOK
  <2>3. conversations'[c].sub = caller0
    BY <2>1, <2>2 DEF AppendMessage, Touched, Put, Conversation
  <2>4. \A d : d # c => Log(d)' = Log(d)
    BY <2>1 DEF AppendMessage, Put, Log
  <2>5. UNCHANGED feedback /\ c \in DOMAIN conversations
        /\ DOMAIN conversations' = DOMAIN conversations
        /\ \A d \in DOMAIN conversations : d # c => conversations'[d] = conversations[d]
    BY <2>1 DEF AppendMessage, Owns, Put
  <2>. QED BY <2>2, <2>3, <2>4, <2>5 DEF Mine, LeavesAlone
<1>6. CASE \E m \in Ids, r \in Texts : UpsertFeedback(caller0, m, r)
  BY <1>6 DEF UpsertFeedback, Put, Mine, Log, LeavesAlone
<1>7. CASE \E m \in Ids, t \in Titles : BranchFromMessage(caller0, m, t)
  <2>1. PICK m \in Ids, t \in Titles : BranchFromMessage(caller0, m, t)
    BY <1>7
  <2>2. \E row, log : /\ row.sub = caller0
                      /\ conversations' = Put(conversations, nextId, row)
                      /\ messages' = Put(messages, nextId, log)
    BY <2>1 DEF BranchFromMessage
  <2>3. UNCHANGED feedback
    BY <2>1 DEF BranchFromMessage
  <2>. QED BY <1>1, <2>2, <2>3 DEF Put, Mine, Log, LeavesAlone
<1>8. CASE ReadOrReject(caller0)
  BY <1>8 DEF ReadOrReject, tables, times, Mine, Log, LeavesAlone
<1>. QED BY <1>2, <1>3, <1>4, <1>5, <1>6, <1>7, <1>8 DEF Call

(* Every call names itself as the caller.                                  *)
LEMMA CallerIsCaller == ASSUME NEW s, Call(s) PROVE caller' = s
BY DEF Call, CreateConversation, RenameConversation, DeleteConversation, AppendMessage,
       UpsertFeedback, BranchFromMessage, ReadOrReject

(* A call of one subject changes nothing another subject can observe:      *)
(* neither its rows, nor what it is told of ids it does not own.           *)
THEOREM IsolationCorrect == Spec => SubjectsAreIsolated
<1> DEFINE Isolated == \A s \in Subjects : s # caller' => Observes(s)' = Observes(s)
<1>1. IndexInv /\ Next => Isolated
  <2>. SUFFICES ASSUME IndexInv, Next, NEW s \in Subjects, s # caller'
                PROVE  LeavesAlone(s)
    BY OthersSeeNothing
  <2>1. CASE \E s0 \in Subjects : Call(s0)
    BY <2>1, CallIsolates, CallerIsCaller
  <2>2. CASE \E h \in Handlers : EncodeCreated(h)
    BY <2>2 DEF EncodeCreated, tables, times, Mine, Log, LeavesAlone
  <2>. QED BY <2>1, <2>2 DEF Next
<1>2. IndexInv /\ [Next]_vars => [Isolated]_vars
  BY <1>1
<1>. QED BY <1>2, IndexInvCorrect, PTL DEF Spec, SubjectsAreIsolated
-----------------------------------------------------------------------------
(***************************************************************************)
(* The contract.  Every step of the store is a step of TenantStore, or     *)
(* none, for Threads, Posts and OwnRatings.                                *)
(***************************************************************************)

(* The entry the index leads to is in the log, and it is the only one.     *)
EntriesFound ==
  \A m \in DOMAIN messageIndex :
    /\ messageIndex[m] \in DOMAIN conversations
    /\ \E i \in DOMAIN Log(messageIndex[m]) :
         /\ Log(messageIndex[m])[i].id = m /\ Place[m] = i
         /\ Entry[m] = Log(messageIndex[m])[i]

EntriesUnique ==
  \A c : \A i \in DOMAIN Log(c) : Entry[Log(c)[i].id] = Log(c)[i] /\ Place[Log(c)[i].id] = i

(* Every id in the index has its entry in the log.                         *)
LEMMA EntryFound == IndexInv => EntriesFound
<1>. SUFFICES ASSUME IndexInv, NEW m \in DOMAIN messageIndex
     PROVE  /\ messageIndex[m] \in DOMAIN conversations
            /\ \E i \in DOMAIN Log(messageIndex[m]) :
                 /\ Log(messageIndex[m])[i].id = m /\ Place[m] = i
                 /\ Entry[m] = Log(messageIndex[m])[i]
  BY DEF EntriesFound
<1>1. /\ messageIndex[m] \in DOMAIN conversations /\ messageIndex[m] \in DOMAIN messages
      /\ \E i \in DOMAIN messages[messageIndex[m]] : messages[messageIndex[m]][i].id = m
  BY DEF IndexInv, IndexMatchesLogs, IndexedIsLogged, LogsAreOfConversations
<1>2. \E i \in DOMAIN Log(messageIndex[m]) : Log(messageIndex[m])[i].id = m
  BY <1>1 DEF Log
<1>. QED BY <1>1, <1>2 DEF Entry, Place

(* Every entry of a log is the one its id finds.                           *)
LEMMA EntryUnique == IndexInv => EntriesUnique
<1>. SUFFICES ASSUME IndexInv, NEW c, NEW i \in DOMAIN Log(c)
              PROVE  Entry[Log(c)[i].id] = Log(c)[i] /\ Place[Log(c)[i].id] = i
  BY DEF EntriesUnique
<1> DEFINE m == Log(c)[i].id
<1>1. m \in DOMAIN messageIndex /\ messageIndex[m] = c
  BY LogFacts
<1>2. PICK j \in DOMAIN Log(c) : Log(c)[j].id = m /\ Entry[m] = Log(c)[j] /\ Place[m] = j
  BY <1>1, EntryFound DEF EntriesFound
<1>. QED BY <1>2, LogFacts

(* A message that stays keeps its entry.                                   *)
LEMMA EntriesStay ==
  ASSUME IndexInv, IndexInv', [Next]_vars,
         NEW m \in DOMAIN messageIndex, m \in DOMAIN messageIndex'
  PROVE  /\ messageIndex'[m] = messageIndex[m]
         /\ Entry'[m] = Entry[m] /\ Place'[m] = Place[m]
<1>1. messageIndex'[m] = messageIndex[m]
  BY StepOwners DEF OwnersStay, IndexInv, FreshIds
<1>2. PICK c : c = messageIndex[m]
  OBVIOUS
<1>3. PICK i \in DOMAIN Log(c) : Log(c)[i].id = m /\ Entry[m] = Log(c)[i] /\ Place[m] = i
  BY <1>2, EntryFound DEF EntriesFound
<1>4. c \in DOMAIN conversations /\ c \in DOMAIN conversations'
  <2>1. IndexInv' => EntriesFound'
    BY EntryFound, PTL
  <2>. QED BY <1>1, <1>2, <2>1, EntryFound DEF EntriesFound
<1>5. IsPrefix(Log(c), Log(c)')
  BY <1>4, StepLogs DEF LogsGrow
<1>6. Log(c) \in Seq(Message) /\ Log(c)' \in Seq(Message)
  <2>1. TypeOK' => (\A d : Log(d) \in Seq(Message))'
    BY LogsTyped, PTL
  <2>2. TypeOK /\ TypeOK'
    BY DEF IndexInv
  <2>3. Log(c) \in Seq(Message)
    BY <2>2, LogsTyped
  <2>4. \A d : Log(d)' \in Seq(Message)'
    BY <2>1, <2>2
  <2>. QED BY <2>3, <2>4 DEF Message
<1>7. i \in DOMAIN Log(c)' /\ Log(c)'[i] = Log(c)[i]
  BY <1>5, <1>6, PrefixEntries
<1>8. IndexInv' => EntriesUnique'
  BY EntryUnique, PTL
<1>9. \A d : \A j \in DOMAIN Log(d)' : \A x : x = Log(d)'[j].id =>
        Entry'[x] = Log(d)'[j] /\ Place'[x] = j
  BY <1>8 DEF EntriesUnique
<1>. QED BY <1>1, <1>3, <1>7, <1>9

(* The empty store is the empty store of the contract.                     *)
LEMMA ContractInit == Init => Tenant!TenantInit
<1>. SUFFICES ASSUME Init PROVE Tenant!TenantInit
  OBVIOUS
<1>1. Threads = Tenant!EmptyTable
  BY DEF Init, EmptyTable, Threads, Tenant!EmptyTable
<1>2. Posts = Tenant!EmptyTable
  BY DEF Init, EmptyTable, Posts, Tenant!EmptyTable
<1>3. OwnRatings = Tenant!EmptyTable
  BY DEF Init, EmptyTable, OwnRatings, Rated, Tenant!EmptyTable
<1>. QED BY <1>1, <1>2, <1>3 DEF Tenant!TenantInit

(* The posts that stay are the same posts.                                 *)
LEMMA PostsStay ==
  ASSUME IndexInv, IndexInv', [Next]_vars,
         NEW m \in DOMAIN messageIndex, m \in DOMAIN messageIndex'
  PROVE  Posts'[m] = Posts[m]
BY EntriesStay DEF Posts

(* The posts are the same where the index is.                              *)
LEMMA PostsSame ==
  ASSUME IndexInv, IndexInv', [Next]_vars, UNCHANGED messageIndex PROVE Posts' = Posts
BY EntriesStay DEF Posts

(* Where no feedback is given, ratings go only with their posts; and no    *)
(* new post is rated, though feedback outlives the posts it was given to.  *)
LEMMA RatingsStay ==
  ASSUME FeedbackInv, IndexInv', [Next]_vars, UNCHANGED feedback
  PROVE  OwnRatings' = [m \in Rated \cap DOMAIN messageIndex' |-> OwnRatings[m]]
<1>1. IndexInv /\ EntriesFound /\ EntriesFound' /\ OwnersStay
  <2>1. IndexInv' => EntriesFound'
    BY EntryFound, PTL
  <2>. QED BY <2>1, EntryFound, StepOwners DEF FeedbackInv
<1>2. ASSUME NEW m \in DOMAIN messageIndex', m \in DOMAIN messageIndex
      PROVE  /\ messageIndex'[m] = messageIndex[m]
             /\ conversations'[messageIndex'[m]].sub = conversations[messageIndex[m]].sub
  <2>1. messageIndex'[m] = messageIndex[m]
    BY <1>1, <1>2, EntriesStay
  <2>. QED BY <1>1, <1>2, <2>1 DEF EntriesFound, OwnersStay
<1>3. ASSUME NEW m \in DOMAIN messageIndex', NEW s, <<s, m>> \in DOMAIN feedback
      PROVE  m \in DOMAIN messageIndex
  <2>1. m < nextId
    BY <1>3 DEF FeedbackInv, RatedIds
  <2>. QED BY <1>1, <2>1 DEF OwnersStay
<1>4. Rated' = Rated \cap DOMAIN messageIndex'
  BY <1>2, <1>3 DEF Rated
<1>5. \A m \in Rated' : OwnRatings'[m] = OwnRatings[m]
  <2>. SUFFICES ASSUME NEW m \in Rated' PROVE OwnRatings'[m] = OwnRatings[m]
    OBVIOUS
  <2>1. m \in Rated /\ m \in DOMAIN messageIndex /\ m \in DOMAIN messageIndex'
    BY <1>4 DEF Rated
  <2>. QED BY <1>2, <2>1 DEF OwnRatings
<1>6. OwnRatings' = [m \in Rated' |-> OwnRatings'[m]]
  BY DEF OwnRatings
<1>. QED BY <1>4, <1>5, <1>6

(* And so are the ratings where the feedback is.                           *)
LEMMA RatingsSame ==
  ASSUME FeedbackInv, IndexInv', [Next]_vars, UNCHANGED <<feedback, messageIndex>>
  PROVE  OwnRatings' = OwnRatings
<1>1. OwnRatings' = [m \in Rated \cap DOMAIN messageIndex' |-> OwnRatings[m]]
  BY RatingsStay
<1>2. Rated \cap DOMAIN messageIndex' = Rated
  BY DEF Rated
<1>. QED BY <1>1, <1>2 DEF OwnRatings

(* Each operation is a call of the contract: create, ...                   *)
LEMMA CreateContract ==
  ASSUME FeedbackInv, IndexInv', [Next]_vars,
         NEW h \in Handlers, NEW s \in Subjects, NEW t \in Titles, CreateConversation(h, s, t)
  PROVE  Tenant!Serve(s)
<1>1. Posts' = Posts /\ OwnRatings' = OwnRatings
  BY PostsSame, RatingsSame DEF CreateConversation, FeedbackInv
<1>2. PICK c : c = nextId
  OBVIOUS
<1>3. c \notin DOMAIN Threads
  BY <1>2 DEF FeedbackInv, IndexInv, FreshIds, TypeOK, Threads
<1>4. Threads' = Tenant!Put(Threads, c, [sub |-> s, title |-> t])
  <2>1. conversations' = Put(conversations, c, [sub |-> s, title |-> t, updatedAt |-> clock'])
    BY <1>2 DEF CreateConversation
  <2>. QED BY <2>1 DEF Put, Threads, Tenant!Put
<1>5. c \in Tenant!NewThreads
  BY <1>3, <1>4 DEF Tenant!NewThreads, Tenant!Put
<1>6. Tenant!NewThread(s, c, t)
  BY <1>1, <1>3, <1>4 DEF Tenant!NewThread
<1>. QED BY <1>5, <1>6 DEF Tenant!Serve

(* ... rename, ...                                                         *)
LEMMA RenameContract ==
  ASSUME FeedbackInv, IndexInv', [Next]_vars,
         NEW s \in Subjects, NEW c \in Ids, NEW t \in Titles, RenameConversation(s, c, t)
  PROVE  Tenant!Serve(s)
<1>1. Posts' = Posts /\ OwnRatings' = OwnRatings
  BY PostsSame, RatingsSame DEF RenameConversation, FeedbackInv
<1>2. conversations[c] \in Conversation /\ c \in DOMAIN conversations /\ conversations[c].sub = s
  BY DEF RenameConversation, Owns, FeedbackInv, IndexInv, TypeOK
<1> DEFINE row == [conversations[c] EXCEPT !.title = t, !.updatedAt = clock']
<1>3. conversations' = Put(conversations, c, row)
  BY DEF RenameConversation
<1>4. row.sub = s /\ row.title = t
  BY <1>2 DEF Conversation
<1>. HIDE DEF row
<1>5. Threads' = Tenant!Put(Threads, c, [sub |-> s, title |-> t])
  BY <1>3, <1>4 DEF Put, Threads, Tenant!Put
<1>6. Tenant!OwnsThread(s, c)
  BY <1>2 DEF Tenant!OwnsThread, Threads
<1>7. Tenant!RenameThread(s, c, t)
  BY <1>1, <1>5, <1>6 DEF Tenant!RenameThread
<1>. QED BY <1>2, <1>7 DEF Tenant!Serve, Threads

(* ... delete, ...                                                         *)
LEMMA DeleteContract ==
  ASSUME FeedbackInv, IndexInv', [Next]_vars,
         NEW s \in Subjects, NEW c \in Ids, DeleteConversation(s, c)
  PROVE  Tenant!Serve(s)
<1>1. c \in DOMAIN conversations /\ conversations[c].sub = s
  BY DEF DeleteConversation, Owns
<1>2. Threads' = Tenant!Without(Threads, {c})
  BY DEF DeleteConversation, Without, Restrict, Threads, Tenant!Without, Tenant!Restrict
<1>3. \A m \in DOMAIN messageIndex : m \in Indexed(c) <=> messageIndex[m] = c
  <2>1. IndexInv /\ EntriesFound
    BY EntryFound DEF FeedbackInv
  <2>2. \A m \in Indexed(c) : messageIndex[m] = c
    BY <2>1, LogFacts DEF Indexed
  <2>3. ASSUME NEW m \in DOMAIN messageIndex, messageIndex[m] = c PROVE m \in Indexed(c)
    BY <2>1, <2>3 DEF EntriesFound, Indexed
  <2>. QED BY <2>2, <2>3
<1>4. Tenant!PostsOf(c) = {m \in DOMAIN messageIndex : messageIndex[m] = c}
  BY DEF Tenant!PostsOf, Posts
<1>5. DOMAIN messageIndex' = DOMAIN messageIndex \ Tenant!PostsOf(c)
  BY <1>3, <1>4 DEF DeleteConversation, Without, Restrict
<1>6. Posts' = Tenant!Without(Posts, Tenant!PostsOf(c))
  <2>1. \A m \in DOMAIN messageIndex' : m \in DOMAIN messageIndex /\ Posts'[m] = Posts[m]
    BY <1>5, PostsStay DEF FeedbackInv
  <2>2. DOMAIN Posts = DOMAIN messageIndex /\ DOMAIN Posts' = DOMAIN messageIndex'
        /\ Posts' = [m \in DOMAIN Posts' |-> Posts'[m]]
    BY DEF Posts
  <2>. QED BY <1>5, <2>1, <2>2 DEF Tenant!Without, Tenant!Restrict
<1>7. OwnRatings' = Tenant!Without(OwnRatings, Tenant!PostsOf(c))
  <2>1. OwnRatings' = [m \in Rated \cap DOMAIN messageIndex' |-> OwnRatings[m]]
    BY RatingsStay DEF DeleteConversation
  <2>2. Rated \cap DOMAIN messageIndex' = DOMAIN OwnRatings \ Tenant!PostsOf(c)
    BY <1>5 DEF OwnRatings, Rated
  <2>. QED BY <2>1, <2>2 DEF Tenant!Without, Tenant!Restrict
<1>8. Tenant!DeleteThread(s, c)
  BY <1>1, <1>2, <1>6, <1>7 DEF Tenant!DeleteThread, Tenant!OwnsThread, Threads
<1>. QED BY <1>1, <1>8 DEF Tenant!Serve, Threads

(* ... append, ...                                                         *)
LEMMA AppendContract ==
  ASSUME FeedbackInv, IndexInv', [Next]_vars,
         NEW s \in Subjects, NEW c \in Ids, NEW x \in Contents, AppendMessage(s, c, x)
  PROVE  Tenant!Serve(s)
<1>1. PICK m : m = nextId
  OBVIOUS
<1>2. m \notin DOMAIN messageIndex
  BY <1>1 DEF FeedbackInv, IndexInv, FreshIds, TypeOK
<1>3. conversations[c] \in Conversation /\ c \in DOMAIN conversations /\ conversations[c].sub = s
  BY DEF AppendMessage, Owns, FeedbackInv, IndexInv, TypeOK
<1>4. Threads' = Threads
  <2>1. Touched(c).sub = conversations[c].sub /\ Touched(c).title = conversations[c].title
    BY <1>3 DEF Touched, Conversation
  <2>2. conversations' = Put(conversations, c, Touched(c))
    BY DEF AppendMessage
  <2>. QED BY <1>3, <2>1, <2>2 DEF Put, Threads
<1>5. DOMAIN messageIndex' = DOMAIN messageIndex \cup {m} /\ messageIndex'[m] = c
  BY <1>1 DEF AppendMessage, Put
<1>6. Entry'[m].content = x /\ Place'[m] \in Nat
  <2> DEFINE msg == [id |-> m, content |-> x, createdAt |-> clock']
  <2>1. messages' = Put(messages, c, Append(Log(c), msg))
    BY <1>1 DEF AppendMessage
  <2>. HIDE DEF msg
  <2>2. Log(c)' = Append(Log(c), msg)
    BY <2>1 DEF Log, Put
  <2>3. Log(c) \in Seq(Message)
    BY LogsTyped DEF FeedbackInv, IndexInv
  <2>4. PICK i : i = Len(Log(c)) + 1
    OBVIOUS
  <2>5. i \in DOMAIN Log(c)' /\ Log(c)'[i] = msg /\ i \in Nat
    BY <2>2, <2>3, <2>4
  <2>6. EntriesUnique'
    BY EntryUnique, PTL
  <2>7. \A y : y = Log(c)'[i].id => Entry'[y] = Log(c)'[i] /\ Place'[y] = i
    BY <2>5, <2>6 DEF EntriesUnique
  <2>. QED BY <2>5, <2>7 DEF msg
<1>7. PICK p \in Nat : Posts' = Tenant!Put(Posts, m, [thread |-> c, content |-> x, place |-> p])
  <2>1. DOMAIN Posts = DOMAIN messageIndex /\ DOMAIN Posts' = DOMAIN messageIndex'
        /\ Posts' = [k \in DOMAIN Posts' |-> Posts'[k]]
    BY DEF Posts
  <2>2. \E p \in Nat : Posts'[m] = [thread |-> c, content |-> x, place |-> p]
    BY <1>5, <1>6 DEF Posts
  <2>3. \A k \in DOMAIN messageIndex : Posts'[k] = Posts[k]
    BY <1>5, PostsStay DEF FeedbackInv
  <2>. QED BY <1>2, <1>5, <2>1, <2>2, <2>3 DEF Tenant!Put
<1>8. OwnRatings' = OwnRatings
  <2>1. OwnRatings' = [k \in Rated \cap DOMAIN messageIndex' |-> OwnRatings[k]]
    BY RatingsStay DEF AppendMessage
  <2>2. Rated \cap DOMAIN messageIndex' = DOMAIN OwnRatings
    BY <1>5 DEF OwnRatings, Rated
  <2>3. OwnRatings = [k \in DOMAIN OwnRatings |-> OwnRatings[k]]
    BY DEF OwnRatings
  <2>. QED BY <2>1, <2>2, <2>3
<1>9. DOMAIN Posts = DOMAIN messageIndex /\ DOMAIN Posts' = DOMAIN messageIndex'
      /\ c \in DOMAIN Threads /\ Threads[c].sub = s
  BY <1>3 DEF Posts, Threads
<1>10. Tenant!AppendPost(s, c, m, x, p)
  BY <1>2, <1>4, <1>7, <1>8, <1>9 DEF Tenant!AppendPost, Tenant!OwnsThread
<1>11. m \in Tenant!NewPosts /\ Posts'[m].content = x /\ Posts'[m].place = p
  <2>1. m \in Tenant!NewPosts
    BY <1>2, <1>5, <1>9 DEF Tenant!NewPosts
  <2>. QED BY <1>7, <2>1 DEF Tenant!Put
<1>. QED BY <1>9, <1>10, <1>11 DEF Tenant!Serve

(* ... rate ...                                                            *)
LEMMA RateContract ==
  ASSUME FeedbackInv, IndexInv', [Next]_vars,
         NEW s \in Subjects, NEW m \in Ids, NEW r, UpsertFeedback(s, m, r)
  PROVE  Tenant!Serve(s)
<1>1. Threads' = Threads
  BY DEF UpsertFeedback, Threads
<1>2. Posts' = Posts
  BY PostsSame DEF UpsertFeedback, FeedbackInv
<1>3. m \in DOMAIN messageIndex /\ Owns(s, messageIndex[m]) /\ r \in Ratings
  BY DEF UpsertFeedback, ValidRating
<1>4. OwnRatings' = Tenant!Put(OwnRatings, m, r)
  <2>1. /\ DOMAIN feedback' = DOMAIN feedback \cup {<<s, m>>}
        /\ \A k \in DOMAIN feedback' : feedback'[k] = IF k = <<s, m>> THEN r ELSE feedback[k]
        /\ UNCHANGED <<conversations, messageIndex>>
    BY DEF UpsertFeedback, Put
  <2> DEFINE owner(k) == conversations[messageIndex[k]].sub
  <2>2. owner(m) = s /\ \A k : <<owner(k), k>> = <<s, m>> <=> k = m
    BY <1>3 DEF Owns
  <2>3. Rated' = {k \in DOMAIN messageIndex : <<owner(k), k>> \in DOMAIN feedback'}
        /\ Rated = {k \in DOMAIN messageIndex : <<owner(k), k>> \in DOMAIN feedback}
    BY <2>1 DEF Rated
  <2>4. Rated' = Rated \cup {m}
    <3>. HIDE DEF owner
    <3>. QED BY <1>3, <2>1, <2>2, <2>3
  <2>5. \A k \in Rated' : OwnRatings'[k] = feedback'[<<owner(k), k>>]
        /\ (k \in Rated => OwnRatings[k] = feedback[<<owner(k), k>>])
    BY <2>1 DEF OwnRatings
  <2>6. \A k \in Rated' : OwnRatings'[k] = IF k = m THEN r ELSE OwnRatings[k]
    <3>. HIDE DEF owner
    <3>. QED BY <2>1, <2>2, <2>3, <2>4, <2>5
  <2>7. OwnRatings' = [k \in Rated' |-> OwnRatings'[k]] /\ DOMAIN OwnRatings = Rated
    BY DEF OwnRatings
  <2>. QED BY <2>4, <2>6, <2>7 DEF Tenant!Put
<1>5. Tenant!OwnsPost(s, m) /\ m \in DOMAIN Posts
  BY <1>3 DEF Tenant!OwnsPost, Tenant!OwnsThread, Posts, Threads, Owns
<1>6. Tenant!RatePost(s, m, r)
  BY <1>1, <1>2, <1>4, <1>5 DEF Tenant!RatePost
<1>. QED BY <1>3, <1>5, <1>6 DEF Tenant!Serve

(* ... and branch.                                                         *)
LEMMA BranchContract ==
  ASSUME FeedbackInv, IndexInv', [Next]_vars,
         NEW s \in Subjects, NEW m \in Ids, NEW t \in Titles, BranchFromMessage(s, m, t)
  PROVE  Tenant!Serve(s)
<1>1. PICK src, dst : src = messageIndex[m] /\ dst = nextId
  OBVIOUS
<1>2. m \in DOMAIN messageIndex /\ src \in DOMAIN conversations /\ conversations[src].sub = s
  BY <1>1 DEF BranchFromMessage, Owns
<1> DEFINE row == [sub |-> s, updatedAt |-> clock',
                   title |-> BranchTitle(t, conversations[src].title)]
<1>3. PICK cut \in Cuts(Log(src), m) :
        /\ conversations' = Put(conversations, dst, row)
        /\ messages' = Put(messages, dst, Copies(Log(src), cut, dst + 1, clock'))
        /\ messageIndex' = [x \in DOMAIN messageIndex \cup (dst+1)..(dst+cut) |->
                              IF x > dst THEN dst ELSE messageIndex[x]]
  BY <1>1 DEF BranchFromMessage
<1>4. /\ Log(src) \in Seq(Message) /\ cut \in 1 .. Len(Log(src)) /\ cut \in Nat \ {0}
      /\ Log(src)[cut].id = m /\ dst \in Nat
  BY <1>1, LogType DEF Cuts, FeedbackInv, IndexInv, TypeOK
<1>5. /\ dst \notin DOMAIN conversations
      /\ \A x \in dst+1 .. dst+cut : x \notin DOMAIN messageIndex /\ x - dst \in 1..cut
  BY <1>1, <1>4 DEF FeedbackInv, IndexInv, FreshIds, TypeOK, Ids
<1>6. \A i \in 1..cut : /\ Log(src)[i].id \in DOMAIN messageIndex
                        /\ messageIndex[Log(src)[i].id] = src
                        /\ Entry[Log(src)[i].id] = Log(src)[i]
                        /\ Place[Log(src)[i].id] = i
                        /\ \A j \in 1..cut : Log(src)[i].id = Log(src)[j].id => i = j
  <2>1. IndexInv /\ EntriesUnique
    BY EntryUnique DEF FeedbackInv
  <2>2. \A i \in 1..cut : i \in DOMAIN Log(src)
    BY <1>4
  <2>. QED BY <2>1, <2>2, LogFacts DEF EntriesUnique
<1> DEFINE of == [x \in dst+1 .. dst+cut |-> Log(src)[x - dst].id]
<1>7. /\ DOMAIN of = dst+1 .. dst+cut
      /\ \A x \in DOMAIN of : of[x] = Log(src)[x - dst].id /\ x - dst \in 1..cut
  BY <1>5
<1>8. /\ DOMAIN messageIndex' = DOMAIN messageIndex \cup DOMAIN of
      /\ \A x \in DOMAIN of : messageIndex'[x] = dst
  BY <1>3, <1>4, <1>7
<1>9. \A x \in DOMAIN of : Entry'[x].content = Entry[of[x]].content /\ Place'[x] = x - dst
  <2>1. SUFFICES ASSUME NEW x \in DOMAIN of
                 PROVE  Entry'[x].content = Log(src)[x - dst].content /\ Place'[x] = x - dst
    BY <1>6, <1>7
  <2>2. PICK i \in 1..cut : i = x - dst /\ x = dst + i
    BY <1>4, <1>7
  <2> DEFINE log == Copies(Log(src), cut, dst + 1, clock')
  <2>3. i \in DOMAIN log /\ log[i].id = x /\ log[i].content = Log(src)[i].content
    BY <1>4, <2>2 DEF Copies
  <2>4. messages' = Put(messages, dst, log)
    BY <1>3
  <2>. HIDE DEF log
  <2>5. Log(dst)' = log
    BY <2>4 DEF Log, Put
  <2>6. EntriesUnique'
    BY EntryUnique, PTL
  <2>7. \A y : y = Log(dst)'[i].id => Entry'[y] = Log(dst)'[i] /\ Place'[y] = i
    BY <2>3, <2>5, <2>6 DEF EntriesUnique
  <2>. QED BY <2>2, <2>3, <2>5, <2>7
<1>. HIDE DEF of
<1>10. Threads' = Tenant!Put(Threads, dst,
          [sub |-> s, title |-> Tenant!BranchTitle(t, Threads[src].title)])
  <2>1. Tenant!BranchTitle(t, Threads[src].title) = BranchTitle(t, conversations[src].title)
    BY <1>2 DEF Threads, BranchTitle, NoTitle, Suffix,
                Tenant!BranchTitle, Tenant!NoTitle, Tenant!Suffix
  <2> DEFINE title == BranchTitle(t, conversations[src].title)
  <2>2. conversations' = Put(conversations, dst, [sub |-> s, updatedAt |-> clock', title |-> title])
    BY <1>3
  <2>. HIDE DEF title
  <2>3. Threads' = Tenant!Put(Threads, dst, [sub |-> s, title |-> title])
    BY <2>2 DEF Put, Threads, Tenant!Put
  <2>. QED BY <2>1, <2>3 DEF title
<1>11. /\ DOMAIN Threads = DOMAIN conversations
       /\ DOMAIN Posts = DOMAIN messageIndex /\ DOMAIN Posts' = DOMAIN messageIndex'
       /\ Posts' = [k \in DOMAIN Posts' |-> Posts'[k]]
       /\ \A k \in DOMAIN messageIndex :
            /\ Posts[k].thread = messageIndex[k] /\ Posts[k].content = Entry[k].content
            /\ Posts[k].place = Place[k]
       /\ \A k \in DOMAIN messageIndex' :
            Posts'[k] = [thread |-> messageIndex'[k], content |-> Entry'[k].content,
                         place |-> Place'[k]]
  BY DEF Threads, Posts
<1> DEFINE at == [x \in DOMAIN of |-> x - dst]
<1>12. Posts' = Tenant!Overlay(
          [x \in DOMAIN of |->
             [thread |-> dst, content |-> Posts[of[x]].content, place |-> at[x]]], Posts)
  <2>1. ASSUME NEW x \in DOMAIN of
        PROVE  Posts'[x] = [thread |-> dst, content |-> Posts[of[x]].content, place |-> at[x]]
    <3>1. of[x] \in DOMAIN messageIndex
      BY <1>6, <1>7
    <3>2. Posts[of[x]].content = Entry[of[x]].content
      BY <1>11, <3>1
    <3>3. Posts'[x] = [thread |-> dst, content |-> Entry'[x].content, place |-> at[x]]
      BY <1>8, <1>9, <1>11
    <3>. QED BY <1>9, <3>2, <3>3
  <2>2. \A k \in DOMAIN messageIndex : Posts'[k] = Posts[k]
    BY <1>8, PostsStay DEF FeedbackInv
  <2>3. \A x \in DOMAIN of : x \notin DOMAIN messageIndex
    BY <1>5, <1>7
  <2>. HIDE DEF at
  <2>. QED BY <1>8, <1>11, <2>1, <2>2, <2>3 DEF Tenant!Overlay
<1>13. OwnRatings' = OwnRatings
  <2>1. OwnRatings' = [k \in Rated \cap DOMAIN messageIndex' |-> OwnRatings[k]]
    BY RatingsStay DEF BranchFromMessage
  <2>2. Rated \cap DOMAIN messageIndex' = DOMAIN OwnRatings
    BY <1>8 DEF OwnRatings, Rated
  <2>3. OwnRatings = [k \in DOMAIN OwnRatings |-> OwnRatings[k]]
    BY DEF OwnRatings
  <2>. QED BY <2>1, <2>2, <2>3
<1>14. Tenant!PostsOf(src) = {k \in DOMAIN messageIndex : messageIndex[k] = src}
  BY <1>11 DEF Tenant!PostsOf
<1>15. /\ \A x \in DOMAIN of : of[x] \in Tenant!PostsOf(src)
       /\ \A x, y \in DOMAIN of : of[x] = of[y] => x = y
       /\ \A p \in Tenant!Before(m) \cup {m} : \E x \in DOMAIN of : of[x] = p
       /\ \A x \in DOMAIN of : Posts[of[x]].place <= Posts[m].place
       /\ \A x, y \in DOMAIN of : Posts[of[x]].place < Posts[of[y]].place => at[x] <= at[y]
  <2>1. \A x \in DOMAIN of : of[x] \in Tenant!PostsOf(src)
    BY <1>6, <1>7, <1>14
  <2>2. \A x, y \in DOMAIN of : of[x] = of[y] => x = y
    <3>. SUFFICES ASSUME NEW x \in DOMAIN of, NEW y \in DOMAIN of, of[x] = of[y] PROVE x = y
      OBVIOUS
    <3>1. x - dst = y - dst
      BY <1>6, <1>7
    <3>2. x \in Nat /\ y \in Nat
      BY <1>4, <1>7
    <3>. QED BY <1>4, <3>1, <3>2
  <2>3. dst + cut \in DOMAIN of /\ of[dst + cut] = m
    BY <1>4, <1>7
  <2>4. \A x \in DOMAIN of : Posts[of[x]].place = x - dst
    BY <1>6, <1>7, <1>11
  <2>5. Posts[m].place = cut /\ Posts[m].thread = src
    BY <1>1, <1>2, <1>4, <2>3, <2>4, <1>11
  <2>6. ASSUME NEW p \in Tenant!Before(m) PROVE \E x \in DOMAIN of : of[x] = p
    <3>1. /\ p \in DOMAIN messageIndex /\ messageIndex[p] = src
          /\ Place[p] < cut
      BY <1>11, <1>14, <2>5, <2>6 DEF Tenant!Before
    <3>2. PICK i \in DOMAIN Log(src) : Log(src)[i].id = p /\ Place[p] = i
      BY <3>1, EntryFound DEF EntriesFound, FeedbackInv
    <3>3. i \in 1..cut /\ dst + i \in DOMAIN of /\ (dst + i) - dst = i
      BY <1>4, <1>7, <3>1, <3>2
    <3>4. of[dst + i] = p
      BY <1>7, <3>2, <3>3
    <3>. QED BY <3>3, <3>4
  <2>7. \A x \in DOMAIN of : x - dst \in 1..cut
    BY <1>7
  <2>8. \A x \in DOMAIN of : Posts[of[x]].place <= Posts[m].place
    BY <1>4, <2>4, <2>5, <2>7
  <2>9. \A x, y \in DOMAIN of : Posts[of[x]].place < Posts[of[y]].place => at[x] <= at[y]
    BY <1>4, <2>4, <2>7
  <2>. HIDE DEF at
  <2>. QED BY <2>1, <2>2, <2>3, <2>6, <2>8, <2>9
<1>16. Posts[m].thread = src /\ Tenant!OwnsPost(s, m)
  BY <1>1, <1>2, <1>11 DEF Tenant!OwnsPost, Tenant!OwnsThread, Threads
<1>17. DOMAIN of \cap DOMAIN Posts = {} /\ dst \notin DOMAIN Threads
  BY <1>5, <1>7, <1>11
<1>18. at \in [DOMAIN of -> Nat]
  BY <1>7
<1>. HIDE DEF at
<1>19. Tenant!BranchThread(s, m, dst, t, of, at)
  BY <1>10, <1>12, <1>13, <1>15, <1>16, <1>17 DEF Tenant!BranchThread, Tenant!CopyThread
<1>20. dst \in Tenant!NewThreads /\ DOMAIN of = Tenant!NewPosts
  <2>1. dst \in DOMAIN Threads'
    BY <1>10 DEF Tenant!Put
  <2>. QED BY <1>8, <1>11, <1>17, <2>1 DEF Tenant!NewThreads, Tenant!NewPosts
<1>21. of \in [Tenant!NewPosts -> Tenant!PostsOf(src)]
  <2>1. of = [x \in DOMAIN of |-> of[x]]
    BY DEF of
  <2>. QED BY <1>15, <1>20, <2>1
<1>22. at = Tenant!NewPlaces
  <2>1. \A x \in DOMAIN of : Posts'[x].place = at[x]
    BY <1>12 DEF Tenant!Overlay
  <2>. QED BY <1>18, <1>20, <2>1 DEF Tenant!NewPlaces
<1>23. /\ Tenant!NewPlaces \in [Tenant!NewPosts -> Nat]
       /\ Tenant!BranchThread(s, m, dst, t, of, Tenant!NewPlaces)
  BY <1>18, <1>19, <1>20, <1>22
<1>. QED BY <1>2, <1>11, <1>16, <1>20, <1>21, <1>23 DEF Tenant!Serve

(* The other steps leave what the contract speaks of as it is.             *)
LEMMA IdleContract ==
  ASSUME UNCHANGED tables PROVE UNCHANGED Tenant!tenantVars
<1>1. Threads' = Threads
  BY DEF tables, times, Threads
<1>2. Place' = Place /\ Entry' = Entry
  BY DEF tables, Place, Entry, Log
<1>3. Posts' = Posts
  BY <1>2 DEF tables, times, Posts
<1>4. Rated' = Rated
  BY DEF tables, times, Rated
<1>5. OwnRatings' = OwnRatings
  BY <1>4 DEF tables, times, OwnRatings
<1>. QED BY <1>1, <1>3, <1>5 DEF Tenant!tenantVars

(* Every step is one of the contract, or changes nothing of it.            *)
LEMMA StepContract ==
  ASSUME FeedbackInv, IndexInv', [Next]_vars
  PROVE  Tenant!TenantNext \/ UNCHANGED Tenant!tenantVars
<1>1. ASSUME NEW s \in Subjects, Call(s) PROVE Tenant!Serve(s) \/ UNCHANGED Tenant!tenantVars
  <2>1. CASE \E h \in Handlers, t \in Titles : CreateConversation(h, s, t)
    BY <2>1, CreateContract
  <2>2. CASE \E c \in Ids, t \in Titles : RenameConversation(s, c, t)
    BY <2>2, RenameContract
  <2>3. CASE \E c \in Ids : DeleteConversation(s, c)
    BY <2>3, DeleteContract
  <2>4. CASE \E c \in Ids, x \in Contents : AppendMessage(s, c, x)
    BY <2>4, AppendContract
  <2>5. CASE \E m \in Ids, r \in Texts : UpsertFeedback(s, m, r)
    BY <2>5, RateContract
  <2>6. CASE \E m \in Ids, t \in Titles : BranchFromMessage(s, m, t)
    BY <2>6, BranchContract
  <2>7. CASE ReadOrReject(s)
    BY <2>7, IdleContract DEF ReadOrReject
  <2>. QED BY <1>1, <2>1, <2>2, <2>3, <2>4, <2>5, <2>6, <2>7 DEF Call
<1>2. ASSUME NEW h \in Handlers, EncodeCreated(h) PROVE UNCHANGED Tenant!tenantVars
  BY <1>2, IdleContract DEF EncodeCreated
<1>3. CASE UNCHANGED vars
  BY <1>3, IdleContract DEF vars
<1>. QED BY <1>1, <1>2, <1>3 DEF Next, Tenant!TenantNext

(* The in-memory store keeps the contract of store.Store: each call is one *)
(* step of its caller on its caller's rows, a deletion takes messages and  *)
(* ratings along, and a branch copies every message of its source up to    *)
(* and including the named one, in their order, no other and no rating.    *)
THEOREM ContractCorrect == Spec => KeepsContract
<1>1. FeedbackInv /\ FeedbackInv' /\ [Next]_vars => [Tenant!TenantNext]_(Tenant!tenantVars)
  BY StepContract DEF FeedbackInv
<1>. QED BY <1>1, ContractInit, FeedbackInvCorrect, PTL DEF Spec, KeepsContract, Tenant!TenantSpec
=============================================================================
