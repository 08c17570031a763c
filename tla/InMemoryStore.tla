---------------------------- MODULE InMemoryStore ----------------------------
(***************************************************************************)
(* InMemoryStore of internal/store/store.go: four Go maps behind one       *)
(* sync.RWMutex.  Every method takes the mutex on entry and keeps it until *)
(* it returns, so each method is one action.  The exception is what        *)
(* CreateConversation returns: the very pointer it has put in the map.     *)
(* The HTTP handler encodes that object after the mutex is released, so    *)
(* the reply of a create is an action of its own.                          *)
(*                                                                         *)
(* Abstracted: the role of a message is part of its (opaque) content; the  *)
(* creation time of a conversation and of a feedback row and the comment   *)
(* of a feedback row, which no code reads back; the nested map             *)
(* feedback[sub][message_id] is one table with pairs as keys.              *)
(***************************************************************************)
EXTENDS StoreCommon, FiniteSets, SequencesExt

CONSTANTS
  Subjects,   \* JWT subjects that call the store
  Words,      \* what titles are made of
  Titles,     \* titles a caller may send
  Contents,   \* role and content of a message
  Texts,      \* what a client may send as a rating, valid or not
  Handlers,   \* HTTP handlers that may be answering a create
  Nobody,     \* no subject: the caller before the first call
  MaxId,      \* bound: ids 1..MaxId are minted
  MaxTime     \* bound: the clock stops at MaxTime

ASSUME BoundsAssumption == MaxId \in Nat /\ MaxTime \in Nat
ASSUME TitlesAssumption == Titles \subseteq TitlesOver(Words)
ASSUME NobodyAssumption == Nobody \notin Subjects

VARIABLES
  conversations,  \* conversation id -> [sub, title, updatedAt]
  messages,       \* conversation id -> sequence of [id, content, createdAt]
  messageIndex,   \* message id -> conversation id
  feedback,       \* <<sub, message id>> -> rating
  clock,          \* the last value s.now() returned
  setBack,        \* history: whether the clock has ever been set back
  nextId,         \* the next value s.newID() returns
  unsent,         \* handler -> the conversation its create returned, until
                  \*   the reply is encoded
  caller,         \* history: the subject of the last call
  origin          \* history: branch id -> where and how much it copied

tables == <<conversations, messages, messageIndex, feedback>>
times == <<clock, setBack>>
vars == <<tables, times, nextId, unsent, caller, origin>>

Ids     == 1 .. MaxId
Ratings == {"good", "bad"}
Idle    == [id |-> 0]

Conversation == [sub : Subjects, title : TitlesOver(Words), updatedAt : 0..MaxTime]
Message      == [id : Ids, content : Contents, createdAt : 0..MaxTime]
Origin       == [source : Ids, at : Ids, size : Nat]
Created      == [id : Ids, row : Conversation]

(* The log of a conversation: a missing key reads as the nil slice.        *)
Log(c) == IF c \in DOMAIN messages THEN messages[c] ELSE << >>

(* s.now().UTC(): the time of the wall clock, since UTC() strips the       *)
(* monotonic reading.  Two readings may be equal, and the clock may be set *)
(* back between them.  The reading is clock'.                              *)
ReadClock ==
  /\ clock' \in 0..MaxTime
  /\ setBack' = (setBack \/ clock' < clock)

(* A definition named Bug... is what the one after it would be with a      *)
(* plausible slip; the runs' properties have to tell them apart.           *)

(* s.newID() mints n fresh ids.                                            *)
BugMintsOnce(n) == nextId + n - 1 <= MaxId /\ nextId' = nextId   \* the same one again
MintIds(n) == nextId + n - 1 <= MaxId /\ nextId' = nextId + n

(* Ownership check of every method: the row exists and belongs to s.       *)
BugOwnsAny(s, c) == c \in DOMAIN conversations   \* c.Sub is not compared
Owns(s, c) == c \in DOMAIN conversations /\ conversations[c].sub = s

Mine(s) == {c \in DOMAIN conversations : conversations[c].sub = s}
-----------------------------------------------------------------------------
Init ==
  /\ conversations = EmptyTable
  /\ messages = EmptyTable
  /\ messageIndex = EmptyTable
  /\ feedback = EmptyTable
  /\ clock = 0 /\ setBack = FALSE
  /\ nextId = 1
  /\ unsent = [h \in Handlers |-> Idle]
  /\ caller = Nobody
  /\ origin = EmptyTable

(* The new row is returned by reference: h encodes it later.               *)
CreateConversation(h, s, title) ==
  LET row == [sub |-> s, title |-> title, updatedAt |-> clock'] IN
  /\ unsent[h] = Idle
  /\ MintIds(1)
  /\ ReadClock
  /\ conversations' = Put(conversations, nextId, row)
  /\ unsent' = [unsent EXCEPT ![h] = [id |-> nextId, row |-> row]]
  /\ caller' = s
  /\ UNCHANGED <<messages, messageIndex, feedback, origin>>

(* writeJSON of the create handler h, which reads the shared object.       *)
EncodeCreated(h) ==
  /\ unsent[h] # Idle
  /\ unsent' = [unsent EXCEPT ![h] = Idle]
  /\ UNCHANGED <<tables, times, nextId, caller, origin>>

RenameConversation(s, c, title) ==
  /\ Owns(s, c)
  /\ ReadClock
  /\ conversations' = Put(conversations, c,
       [conversations[c] EXCEPT !.title = title, !.updatedAt = clock'])
  /\ caller' = s
  /\ UNCHANGED <<messages, messageIndex, feedback, nextId, unsent, origin>>

(* The index entries of the messages of a conversation.                    *)
BugIndexKept(c) == {}   \* delete leaves them
Indexed(c) == {Log(c)[i].id : i \in DOMAIN Log(c)}

(* The conversation, the index entry of each of its messages and its log   *)
(* go; feedback on those messages stays.                                   *)
DeleteConversation(s, c) ==
  /\ Owns(s, c)
  /\ conversations' = Without(conversations, {c})
  /\ messageIndex' = Without(messageIndex, Indexed(c))
  /\ messages' = Without(messages, {c})
  /\ caller' = s
  /\ UNCHANGED <<feedback, times, nextId, unsent, origin>>

Touched(c) == [conversations[c] EXCEPT !.updatedAt = clock']

AppendMessage(s, c, content) ==
  /\ Owns(s, c)
  /\ MintIds(1)
  /\ ReadClock
  /\ messages' = Put(messages, c,
       Append(Log(c), [id |-> nextId, content |-> content, createdAt |-> clock']))
  /\ messageIndex' = Put(messageIndex, nextId, c)
  /\ conversations' = Put(conversations, c, Touched(c))
  /\ caller' = s
  /\ UNCHANGED <<feedback, unsent, origin>>

BugAnyRating(rating) == TRUE   \* not validated
ValidRating(rating) == rating \in Ratings

UpsertFeedback(s, m, rating) ==
  /\ ValidRating(rating)
  /\ m \in DOMAIN messageIndex
  /\ Owns(s, messageIndex[m])
  /\ feedback' = Put(feedback, <<s, m>>, rating)
  /\ caller' = s
  /\ UNCHANGED <<conversations, messages, messageIndex, times, nextId, unsent, origin>>

(* The place of message m in a log: the first entry with its id, as the    *)
(* scan in BranchFromMessage finds it.                                     *)
Cuts(log, m) ==
  {i \in 1..Len(log) : log[i].id = m /\ \A j \in 1..(i-1) : log[j].id # m}

(* The first cut entries of a log, as the rows of a branch: ids counted    *)
(* from first, one shared creation time.                                   *)
BugCopiesStopEarly(log, cut, first, now) ==   \* srcMsgs[:cut]
  [i \in 1..(cut - 1) |->
     [id |-> first + i - 1, content |-> log[i].content, createdAt |-> now]]
Copies(log, cut, first, now) ==
  [i \in 1..cut |-> [id |-> first + i - 1, content |-> log[i].content, createdAt |-> now]]

BranchFromMessage(s, m, title) ==
  /\ m \in DOMAIN messageIndex
  /\ Owns(s, messageIndex[m])
  /\ \E cut \in Cuts(Log(messageIndex[m]), m) :
       LET src == messageIndex[m]
           dst == nextId
           row == [sub |-> s, updatedAt |-> clock',
                   title |-> BranchTitle(title, conversations[src].title)]
       IN /\ MintIds(cut + 1)
          /\ ReadClock
          /\ conversations' = Put(conversations, dst, row)
          /\ messages' = Put(messages, dst, Copies(Log(src), cut, dst + 1, clock'))
          /\ messageIndex' = [x \in DOMAIN messageIndex \cup (dst+1)..(dst+cut) |->
                                IF x > dst THEN dst ELSE messageIndex[x]]
          /\ origin' = Put(origin, dst, [source |-> src, at |-> m, size |-> cut])
  /\ caller' = s
  /\ UNCHANGED <<feedback, unsent>>
-----------------------------------------------------------------------------
(* What the read methods return, in the current state.                     *)

(* The rows of s, most recently updated first; equal times in any order:   *)
(* the set of the answers sort.Slice may leave.                            *)
ListConversations(s) ==
  {q \in SetToSeqs(Mine(s)) :
     \A i, j \in DOMAIN q :
       i < j => conversations[q[i]].updatedAt >= conversations[q[j]].updatedAt}

GetConversation(s, c) ==
  IF Owns(s, c) THEN Ok(conversations[c]) ELSE ErrNotFound

ListMessages(s, c) == IF Owns(s, c) THEN Ok(Log(c)) ELSE ErrNotFound

GetFeedback(s, m) ==
  IF <<s, m>> \in DOMAIN feedback THEN Ok(feedback[<<s, m>>]) ELSE ErrNotFound

(* A call that reads, or that fails: nothing changes.                      *)
ReadOrReject(s) ==
  /\ caller' = s
  /\ UNCHANGED <<tables, times, nextId, unsent, origin>>
-----------------------------------------------------------------------------
Call(s) ==
  \/ \E h \in Handlers, t \in Titles : CreateConversation(h, s, t)
  \/ \E c \in Ids, t \in Titles : RenameConversation(s, c, t)
  \/ \E c \in Ids : DeleteConversation(s, c)
  \/ \E c \in Ids, x \in Contents : AppendMessage(s, c, x)
  \/ \E m \in Ids, r \in Texts : UpsertFeedback(s, m, r)
  \/ \E m \in Ids, t \in Titles : BranchFromMessage(s, m, t)
  \/ ReadOrReject(s)

Next ==
  \/ \E s \in Subjects : Call(s)
  \/ \E h \in Handlers : EncodeCreated(h)

Spec == Init /\ [][Next]_vars
-----------------------------------------------------------------------------
(* Every variable holds values of its type; keys are ids already minted.   *)
TypeOK ==
  /\ nextId \in 1 .. MaxId + 1
  /\ clock \in 0 .. MaxTime /\ setBack \in BOOLEAN
  /\ DOMAIN conversations \subseteq Ids
  /\ conversations \in [DOMAIN conversations -> Conversation]
  /\ DOMAIN messages \subseteq Ids
  /\ messages \in [DOMAIN messages -> Seq(Message)]
  /\ DOMAIN messageIndex \subseteq Ids
  /\ messageIndex \in [DOMAIN messageIndex -> Ids]
  /\ DOMAIN feedback \subseteq Subjects \X Ids
  /\ feedback \in [DOMAIN feedback -> Ratings]
  /\ unsent \in [Handlers -> Created \cup {Idle}]
  /\ caller \in Subjects \cup {Nobody}
  /\ DOMAIN origin \subseteq Ids
  /\ origin \in [DOMAIN origin -> Origin]

LogsAreOfConversations == DOMAIN messages \subseteq DOMAIN conversations

LoggedIsIndexed ==
  \A c \in DOMAIN messages : \A i \in DOMAIN messages[c] :
    /\ messages[c][i].id \in DOMAIN messageIndex
    /\ messageIndex[messages[c][i].id] = c

LoggedOnce ==
  \A c \in DOMAIN messages : \A i, j \in DOMAIN messages[c] :
    messages[c][i].id = messages[c][j].id => i = j

IndexedIsLogged ==
  \A m \in DOMAIN messageIndex :
    /\ messageIndex[m] \in DOMAIN messages
    /\ \E i \in DOMAIN messages[messageIndex[m]] : messages[messageIndex[m]][i].id = m

(* messageIndex and the logs describe the same messages: an id in a log is *)
(* indexed under that log, it is there once, an indexed id is in the log   *)
(* it points to, and a log belongs to a live conversation.  Append, branch *)
(* and delete each have to update both maps for this to stay true.         *)
IndexMatchesLogs ==
  LogsAreOfConversations /\ LoggedIsIndexed /\ LoggedOnce /\ IndexedIsLogged

(* A rating of a message that still exists was given by the owner of its   *)
(* conversation, whatever happened to the message since: no other          *)
(* subject's rating can be attached to it.                                 *)
FeedbackByOwner ==
  \A k \in DOMAIN feedback :
    k[2] \in DOMAIN messageIndex => conversations[messageIndex[k[2]]].sub = k[1]

(* As long as the clock has not been set back, a log is in the order of    *)
(* its creation times, and its conversation is at least as recent as every *)
(* message in it, so that a conversation with a new message is not listed  *)
(* behind one that was last touched earlier.                               *)
RecencyCoversLog ==
  ~setBack => \A c \in DOMAIN conversations : \A i \in DOMAIN Log(c) :
    /\ Log(c)[i].createdAt <= conversations[c].updatedAt
    /\ \A j \in DOMAIN Log(c) : i < j => Log(c)[i].createdAt <= Log(c)[j].createdAt

(* A branch holds every message of its source up to and including the one  *)
(* named, with new ids, and nothing that happens later to either           *)
(* conversation disturbs the part they share.                              *)
BranchSharesHistory ==
  \A b \in DOMAIN origin :
    LET src == origin[b].source
        n   == origin[b].size
    IN {b, src} \subseteq DOMAIN conversations =>
         /\ n <= Len(Log(b)) /\ n <= Len(Log(src))
         /\ Log(src)[n].id = origin[b].at
         /\ \A i \in 1..n : /\ Log(b)[i].content = Log(src)[i].content
                            /\ Log(b)[i].id # Log(src)[i].id

HistoryGrows ==
  \A c \in DOMAIN conversations :
    c \in DOMAIN conversations' =>
      /\ conversations'[c].sub = conversations[c].sub
      /\ IsPrefix(Log(c), Log(c)')

(* A conversation keeps its owner, and its log only grows at the end,      *)
(* until both are deleted.  A branch in particular leaves its source as it *)
(* was.                                                                    *)
HistoryIsAppendOnly == [][HistoryGrows]_vars

(* What subject s can learn from the read methods.                         *)
Observes(s) ==
  [list     |-> ListConversations(s),
   row      |-> [c \in Ids |-> GetConversation(s, c)],
   log      |-> [c \in Ids |-> ListMessages(s, c)],
   feedback |-> [m \in Ids |-> GetFeedback(s, m)]]

(* A call of one subject changes nothing another subject can observe:      *)
(* neither its rows, nor what it is told of the ids it does not own.       *)
SubjectsAreIsolated ==
  [][\A s \in Subjects : s # caller' => Observes(s)' = Observes(s)]_vars

(* "InMemoryStore is a thread-safe Store" (store.go:106).  While a create  *)
(* handler encodes the conversation it was given, nobody writes to it.     *)
CreateReplyIsStable ==
  \A h \in Handlers :
    unsent[h] # Idle /\ unsent[h].id \in DOMAIN conversations
      => conversations[unsent[h].id] = unsent[h].row
-----------------------------------------------------------------------------
(* The store as its caller knows it.  A rating is visible with its message *)
(* and only the owner's counts; the store keeps the others' for nobody.    *)
Place ==
  [m \in DOMAIN messageIndex |->
     LET log == Log(messageIndex[m]) IN CHOOSE i \in DOMAIN log : log[i].id = m]

Entry == [m \in DOMAIN messageIndex |-> Log(messageIndex[m])[Place[m]]]

Threads ==
  [c \in DOMAIN conversations |->
     [sub |-> conversations[c].sub, title |-> conversations[c].title]]

Posts ==
  [m \in DOMAIN messageIndex |->
     [thread |-> messageIndex[m], content |-> Entry[m].content, place |-> Place[m]]]

Rated ==
  {m \in DOMAIN messageIndex : <<conversations[messageIndex[m]].sub, m>> \in DOMAIN feedback}

OwnRatings == [m \in Rated |-> feedback[<<conversations[messageIndex[m]].sub, m>>]]

Tenant == INSTANCE TenantStore WITH
  Places <- Nat, threads <- Threads, posts <- Posts, ratings <- OwnRatings

(* The in-memory store keeps the contract of store.Store: each call is one *)
(* step of its caller on its caller's rows, a deletion takes messages and  *)
(* ratings along, and a branch copies every message of its source up to    *)
(* and including the named one, in their order, no other and no rating.    *)
KeepsContract == Tenant!TenantSpec
=============================================================================
