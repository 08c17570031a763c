----------------------------- MODULE HTTPServer -----------------------------
(***************************************************************************)
(* The HTTP layer of internal/server (server.go, mcp.go, subject.go): the  *)
(* way of a request through CORS, authentication, the routes, the decoding *)
(* of its body and a call of the store or of an MCP tool to a status code. *)
(* Handlers run concurrently over one store, which is any that keeps the   *)
(* contract of TenantStore; tokens are read by ClaimsOnlyVerifier, and     *)
(* whatever else a verifier may object to is a refusal.  The tools are     *)
(* those of mcp.NotProvisioned.                                            *)
(*                                                                         *)
(* A part of a request (token, body, id) is chosen by the action that      *)
(* models the code which looks at it first.  Abstracted: headers and the   *)
(* contents of answers, that is, all but the status; redirects of the mux  *)
(* for paths it cleans.                                                    *)
(***************************************************************************)
EXTENDS TenantStore, SequencesExt

CONSTANTS
  Handlers,    \* concurrent requests
  Lines,       \* method and path of the requests of this instance
  NoSubject,   \* the empty subject
  MaxId,       \* bound: ids 1..MaxId are minted
  MaxTime      \* bound: the clock, in seconds, stops at MaxTime

ASSUME ServerAssumption ==
  /\ Places \subseteq Nat /\ Places # {}
  /\ NoSubject \notin Subjects /\ NoTitle \in Titles
  /\ Lines \subseteq [method : STRING, path : STRING]
  /\ MaxId \in Nat /\ MaxTime \in Nat \ {0}

VARIABLES
  setup,    \* which store is used, and whether CORS origins are configured
  leftovers,   \* in memory: <<sub, message id>> of ratings whose message is gone
  clock,
  nextId,   \* the next id the store mints
  http      \* handler -> the request it serves or served last

vars == <<tenantVars, leftovers, setup, clock, nextId, http>>

Setups == [store : {"memory", "postgres"}, cors : BOOLEAN]

(* The routes: method, path and what serves it.                            *)
BugAnyMethod ==   \* a pattern without a method
  {<<m, "/conversations", "list">> : m \in {"GET", "OPTIONS"}}

Lists == {<<"GET", "/conversations", "list">>}

Routes == Lists \cup
  {<<"GET",    "/healthz",               "healthz">>,
   <<"GET",    "/readyz",                "readyz">>,
   <<"POST",   "/conversations",         "create">>,
   <<"GET",    "/conversations/id",      "get">>,
   <<"PATCH",  "/conversations/id",      "rename">>,
   <<"DELETE", "/conversations/id",      "delete">>,
   <<"GET",    "/conversations/id/messages", "messages">>,
   <<"POST",   "/conversations/id/messages", "append">>,
   <<"POST",   "/messages/id/branch",    "branch">>,
   <<"PUT",    "/messages/id/feedback",  "rate">>,
   <<"GET",    "/messages/id/feedback",  "rating">>,
   <<"GET",    "/mcp/tools",             "tools">>,
   <<"POST",   "/mcp/tools/search",      "search">>,
   <<"POST",   "/mcp/tools/fetch_chunk", "fetch_chunk">>,
   <<"POST",   "/mcp/tools/list_documents",   "list_documents">>,
   <<"POST",   "/mcp/tools/add_to_data_room", "add_to_data_room">>,
   <<"POST",   "/mcp/tools/other",       "other_tool">>}

Paths  == {r[2] : r \in Routes}
Health == {"/healthz", "/readyz"}

(* A GET pattern serves HEAD as well.                                      *)
Served(line) ==
  {r \in Routes : /\ r[2] = line.path
                  /\ r[1] = line.method \/ (r[1] = "GET" /\ line.method = "HEAD")}

ReadsOfIds  == {"get", "messages", "rating"}
WritesOfIds == {"rename", "delete", "append", "branch", "rate"}
Writes      == WritesOfIds \cup {"create"}
Tools       == {"search", "fetch_chunk", "list_documents", "add_to_data_room"}
WithBody    == (Writes \ {"delete"}) \cup Tools

(* What a body is to the handler that decodes it: sound, empty, malformed  *)
(* (or with an unknown field), or sound but without what it has to name: a *)
(* title, a valid role, a valid rating, the argument of a tool.            *)
Bodies == {"sound", "empty", "malformed", "lacking"}

(* No token, or one the shape of which is wrong, is the token None.        *)
None   == [sub |-> NoSubject, exp |-> 0]
Tokens == {None} \cup [sub : Subjects, exp : {0, 1}]

(* ClaimsOnlyVerifier: the subject a token claims, or none if it has       *)
(* expired; an exp of 0 is none.                                           *)
BugNoExpiry(token) == FALSE   \* the claim is not looked at
Expired(token) == token.exp # 0 /\ clock > token.exp
Verified(token) == IF Expired(token) THEN NoSubject ELSE token.sub
-----------------------------------------------------------------------------
NoLine == [method |-> "none", path |-> "none"]
NoRequest ==
  [pc |-> "idle", line |-> NoLine, op |-> "none", token |-> None,
   sub |-> NoSubject, fresh |-> FALSE, body |-> "empty", chunked |-> FALSE,
   owned |-> FALSE, done |-> FALSE, status |-> 0]

Init ==
  /\ TenantInit
  /\ leftovers = {}
  /\ setup \in Setups
  /\ clock = 1
  /\ nextId = 1
  /\ http = [h \in Handlers |-> NoRequest]

(* WriteHeader: the first status that is written counts.  Of a request     *)
(* that is answered, what nothing looks at any more is forgotten.          *)
Wrote(r, status) == [r EXCEPT !.status = IF @ = 0 THEN status ELSE @]
Answered(r, status) ==
  [Wrote(r, status) EXCEPT !.pc = "idle", !.line = NoLine,
                           !.token = None, !.sub = NoSubject, !.fresh = FALSE]

Goes(h, from, to) ==
  /\ http[h].pc = from
  /\ http' = [http EXCEPT ![h] = to]
  /\ UNCHANGED <<setup, clock>>

StoreUntouched == UNCHANGED <<tenantVars, leftovers, nextId>>

(* corsMiddleware answers every preflight itself.                          *)
Arrive(h, line) ==
  LET r == [NoRequest EXCEPT !.line = line] IN
  /\ Goes(h, "idle", IF setup.cors /\ line.method = "OPTIONS" THEN Answered(r, 204)
                     ELSE [r EXCEPT !.pc = "auth"])
  /\ StoreUntouched

(* authMiddleware.  fresh is history: had the token not expired?           *)
Bypasses(line) == line.path \in Health \/ line.method = "OPTIONS"

Bypass(h) ==
  /\ Bypasses(http[h].line)
  /\ Goes(h, "auth", [http[h] EXCEPT !.pc = "mux"])
  /\ StoreUntouched

Authenticate(h, token) ==
  LET r == [http[h] EXCEPT !.token = token,
                           !.fresh = token.exp = 0 \/ clock <= token.exp]
      sub == Verified(token)
  IN
  /\ ~Bypasses(http[h].line)
  /\ \/ Goes(h, "auth", Answered(r, 401))
     \/ sub # NoSubject /\ Goes(h, "auth", [r EXCEPT !.pc = "mux", !.sub = sub])
  /\ StoreUntouched

(* The mux: no path, no such method on the path, or a handler.  readyz     *)
(* lists the conversations of a subject of its own.                        *)
Dispatch(h) ==
  LET r == http[h] IN
  /\ \/ /\ Served(r.line) = {}
        /\ Goes(h, "mux", Answered(r, IF r.line.path \in Paths THEN 405 ELSE 404))
     \/ \E route \in Served(r.line) :
          LET op == route[3]
              o == [r EXCEPT !.op = op]
          IN
          \/ op \in {"healthz", "readyz", "tools"} /\ Goes(h, "mux", Answered(o, 200))
          \/ /\ op = "readyz" /\ setup.store = "postgres"
             /\ Goes(h, "mux", Answered(o, 503))
          \/ op = "other_tool" /\ Goes(h, "mux", Answered(o, 404))
          \/ op \in WithBody /\ Goes(h, "mux", [o EXCEPT !.pc = "body"])
          \/ /\ op \in {"list", "delete"} \cup ReadsOfIds
             /\ Goes(h, "mux", [o EXCEPT !.pc = "store"])
  /\ StoreUntouched

(* Is the body looked at?  The length of a chunked one is -1.              *)
BugIfLength(op, body, chunked) ==   \* ContentLength > 0 for tools too
  op \in {"branch", "list_documents"} => ~chunked /\ body # "empty"
Decoded(op, body, chunked) ==
  /\ op = "branch" => ~chunked /\ body # "empty"
  /\ op = "list_documents" => chunked \/ body # "empty"

(* What the handler itself refuses, of a body that decodes.                *)
Checked == {"append", "search", "fetch_chunk", "add_to_data_room"}

BadRequest(op, body, chunked) ==
  /\ op \in WithBody /\ Decoded(op, body, chunked)
  /\ body \in {"empty", "malformed"} \/ (body = "lacking" /\ op \in Checked)

BugGoesOn(r) == [Wrote(r, 400) EXCEPT !.pc = "store"]   \* no return after writeError
AfterBadRequest(r) == Answered(r, 400)

ReadBody(h, body, chunked) ==
  LET r == [http[h] EXCEPT !.body = body, !.chunked = chunked] IN
  /\ IF BadRequest(r.op, body, chunked)
     THEN Goes(h, "body", AfterBadRequest(r))
     ELSE Goes(h, "body", [r EXCEPT !.pc = "store"])
  /\ StoreUntouched

(* mcp.NotProvisioned and mapMCPError.                                     *)
ToolStatus(op) ==
  CASE op \in {"search", "list_documents"} -> 200
    [] op = "fetch_chunk" -> 404
    [] op = "add_to_data_room" -> 503

CallTool(h) ==
  /\ http[h].op \in Tools
  /\ Goes(h, "store", Answered(http[h], ToolStatus(http[h].op)))
  /\ StoreUntouched
-----------------------------------------------------------------------------
(* mapError, and the status of a success.                                  *)
mapError == [ErrNotFound |-> 404, ErrForbidden |-> 403, ErrConflict |-> 409, other |-> 500]

Success(op) ==
  CASE op \in {"create", "append", "branch"} -> 201
    [] op = "delete" -> 204
    [] OTHER -> 200

(* A title, rating or body that was not decoded is empty.                  *)
Given(r) == r.body \in {"sound", "lacking"} /\ Decoded(r.op, r.body, r.chunked)
TitlesGiven(r) == IF Given(r) /\ r.body = "sound" THEN Titles ELSE {NoTitle}

Mint(n) == nextId + n - 1 <= MaxId /\ nextId' = nextId + n

OwnsTarget(r, id) ==
  IF r.op \in {"branch", "rate", "rating"} THEN OwnsPost(r.sub, id) ELSE OwnsThread(r.sub, id)

(* An invalid rating is an error of the store, before it looks at the      *)
(* message, and not one of its sentinel errors.                            *)
InvalidRating(r) == r.op = "rate" /\ r.body = "lacking"

(* The write, and the new ids it takes.                                    *)
Write(r, id) ==
  \/ /\ r.op = "create" /\ Mint(1)
     /\ \E t \in TitlesGiven(r) : NewThread(r.sub, nextId, t)
  \/ /\ r.op = "rename" /\ UNCHANGED nextId
     /\ \E t \in TitlesGiven(r) : RenameThread(r.sub, id, t)
  \/ r.op = "delete" /\ UNCHANGED nextId /\ DeleteThread(r.sub, id)
  \/ /\ r.op = "append" /\ Mint(1)
     /\ \E x \in Contents, p \in Places : AppendPost(r.sub, id, nextId, x, p)
  \/ /\ r.op = "rate" /\ ~InvalidRating(r) /\ UNCHANGED nextId
     /\ \E x \in Ratings : RatePost(r.sub, id, x)
  \/ /\ r.op = "branch" /\ OwnsPost(r.sub, id)
     /\ \E S \in SUBSET PostsOf(posts[id].thread), t \in TitlesGiven(r) :
          LET n == Cardinality(S)
              of == [x \in nextId + 1 .. nextId + n |-> SetToSeq(S)[x - nextId]]
          IN /\ Mint(n + 1)
             /\ \E at \in [DOMAIN of -> Places] : BranchThread(r.sub, id, nextId, t, of, at)

(* A call that writes.  Postgres may report an error for what it has done, *)
(* and a rename reads back a row that may be deleted by then.              *)
AfterWrite(op) ==
  {Success(op)} \cup (IF setup.store = "memory" THEN {}
                      ELSE {mapError["other"]} \cup
                           (IF op = "rename" THEN {mapError["ErrNotFound"]} ELSE {}))

(* In memory, a deletion leaves the ratings of the messages behind; who    *)
(* gave one still reads it.                                                *)
Forgotten(r, id) ==
  IF r.op = "delete" /\ setup.store = "memory"
  THEN {r.sub} \X (PostsOf(id) \cap DOMAIN ratings) ELSE {}

Leftover(r, id) == r.op = "rating" /\ <<r.sub, id>> \in leftovers

CallWrite(h, id) ==
  LET r == http[h] IN
  /\ Write(r, id)
  /\ leftovers' = leftovers \cup Forgotten(r, id)
  /\ \E status \in AfterWrite(r.op) :
       Goes(h, "store", [Answered(r, status) EXCEPT !.owned = TRUE, !.done = TRUE])

(* A call that reads, a rating only if there is one.                       *)
CallRead(h, id) ==
  LET r == http[h]
      found == r.op = "list" \/ (OwnsTarget(r, id) /\ (r.op = "rating" => id \in DOMAIN ratings))
  IN
  /\ r.op \in {"list"} \cup ReadsOfIds
  /\ found
  /\ Goes(h, "store", [Answered(r, 200) EXCEPT !.owned = TRUE])
  /\ StoreUntouched

CallReadLeftover(h, id) ==
  /\ Leftover(http[h], id)
  /\ Goes(h, "store", [Answered(http[h], 200) EXCEPT !.owned = TRUE])
  /\ StoreUntouched

(* An id that is no UUID, which Postgres refuses to compare.               *)
Junk == MaxId + 1

(* Foreign and missing rows are one case to the store.                     *)
BugTells(id) ==
  IF id \in DOMAIN threads \cup DOMAIN posts THEN "ErrForbidden" ELSE "ErrNotFound"
Denial(id) == "ErrNotFound"

CallNotFound(h, id) ==
  LET r == http[h] IN
  /\ r.op \in ReadsOfIds \cup WritesOfIds /\ ~InvalidRating(r)
  /\ ~OwnsTarget(r, id) \/ (r.op = "rating" /\ id \notin DOMAIN ratings)
  /\ ~Leftover(r, id)
  /\ id = Junk => setup.store = "memory"
  /\ Goes(h, "store", [Answered(r, mapError[Denial(id)]) EXCEPT !.owned = OwnsTarget(r, id)])
  /\ StoreUntouched

CallFails(h, id) ==
  LET r == http[h] IN
  /\ r.op \notin Tools
  /\ setup.store = "postgres" \/ InvalidRating(r)
  /\ Goes(h, "store", [Answered(r, mapError["other"]) EXCEPT !.owned = OwnsTarget(r, id)])
  /\ StoreUntouched

Tick ==
  /\ clock < MaxTime
  /\ clock' = clock + 1
  /\ StoreUntouched
  /\ UNCHANGED <<setup, http>>

(* The ids of the instance are used up.                                    *)
Quiescent ==
  /\ \A h \in Handlers : http[h].pc = "store" /\ http[h].op \in {"create", "append", "branch"}
  /\ UNCHANGED vars

Step(h) ==
  \/ Bypass(h)
  \/ \E token \in Tokens : Authenticate(h, token)
  \/ Dispatch(h)
  \/ \E body \in Bodies, chunked \in BOOLEAN : ReadBody(h, body, chunked)
  \/ CallTool(h)
  \/ \E id \in 1..Junk :
       \/ CallWrite(h, id) \/ CallRead(h, id) \/ CallReadLeftover(h, id)
       \/ CallNotFound(h, id) \/ CallFails(h, id)

Next ==
  \/ \E h \in Handlers : Step(h) \/ \E line \in Lines : Arrive(h, line)
  \/ Tick
  \/ Quiescent

Spec == Init /\ [][Next]_vars
-----------------------------------------------------------------------------
Ids      == 1..MaxId
Statuses == {0, 200, 201, 204, 400, 401, 403, 404, 405, 409, 500, 503}
Ops      == {r[3] : r \in Routes} \cup {"none"}

(* Every variable has its type; 403 and 409, which mapError knows, are in  *)
(* fact never sent.                                                        *)
TypeOK ==
  /\ DOMAIN threads \subseteq Ids /\ DOMAIN posts \subseteq Ids
  /\ \A c \in DOMAIN threads : threads[c].sub \in Subjects
  /\ \A m \in DOMAIN posts : posts[m].thread \in Ids /\ posts[m].content \in Contents
                             /\ posts[m].place \in Places
  /\ DOMAIN ratings \subseteq DOMAIN posts
  /\ leftovers \subseteq Subjects \X Ids
  /\ setup \in Setups /\ clock \in 1..MaxTime /\ nextId \in 1..MaxId+1
  /\ \A h \in Handlers :
       /\ http[h].pc \in {"idle", "auth", "mux", "body", "store"}
       /\ http[h].op \in Ops /\ http[h].token \in Tokens /\ http[h].body \in Bodies
       /\ http[h].status \in Statuses \ {403, 409}

(* No handler of the API runs without a subject, although OPTIONS requests *)
(* pass the authentication: with CORS they are answered before it, without *)
(* CORS no route takes them.                                               *)
HandlersHaveSubject ==
  \A h \in Handlers : http[h].pc \in {"body", "store"} => http[h].sub \in Subjects

Replied(h) == http[h].pc = "idle" /\ http[h].status # 0
Succeeded(h) == Replied(h) /\ http[h].status \in 200..299

(* The status tells what was done: a write that succeeds is in the store,  *)
(* and one that is refused, at whatever stage, is not.  Only Postgres may  *)
(* fail (500) with the write done, or miss (404) what it has just renamed. *)
StatusTellsEffect ==
  \A h \in Handlers :
    LET r == http[h] IN
    /\ Succeeded(h) /\ r.op \in Writes => r.done
    /\ Replied(h) /\ r.done => r.status \in AfterWrite(r.op)

(* Rows of another subject cannot be told from rows that do not exist: a   *)
(* request for what its subject does not own, a rating that it has once    *)
(* given included, gets 404, or 400 or 500 for what is wrong with its body *)
(* or with Postgres.                                                       *)
ForeignLooksMissing ==
  \A h \in Handlers :
    LET r == http[h] IN
    Replied(h) /\ r.op \in ReadsOfIds \cup WritesOfIds /\ ~r.owned =>
      \/ r.status = 404
      \/ r.status = 400 /\ BadRequest(r.op, r.body, r.chunked)
      \/ r.status = 500 /\ (setup.store = "postgres" \/ InvalidRating(r))

(* The rows of a subject change only in a step of a request whose token    *)
(* names that subject and had not expired when it was read.                *)
OnlyBearersAct ==
  [][\A s \in Subjects :
       RowsOf(s)' # RowsOf(s) =>
         \E h \in Handlers : http'[h] # http[h] /\ http[h].token.sub = s /\ http[h].fresh]_vars
-----------------------------------------------------------------------------
(* What a comment of the repository says and the code does not do.         *)

(* "Body is optional; ignore decode errors when the request has no body,   *)
(* but reject malformed JSON when one is present" (server.go:331).  No     *)
(* request with a malformed body succeeds, however the body is sent.       *)
BadBodiesFail ==
  \A h \in Handlers :
    Succeeded(h) /\ http[h].op \in WithBody => http[h].body # "malformed"
=============================================================================
