-------------------------- MODULE HTTPServerProofs --------------------------
(***************************************************************************)
(* Theorems about HTTPServer for any subjects, request lines, titles and   *)
(* contents, any number of handlers and any bounds.                        *)
(***************************************************************************)
EXTENDS HTTPServer, TenantStoreProofs, FiniteSetTheorems

(***************************************************************************)
(* The inductive invariant says of every request, by the stage it is in,   *)
(* what the stages before have established.                                *)
(***************************************************************************)
Stages   == {"idle", "auth", "mux", "body", "store"}
AnyLine  == Lines \cup {NoLine}
AnySub   == Subjects \cup {NoSubject}
Sent     == Statuses \ {403, 409}

Request ==
  [pc : Stages, line : AnyLine, op : Ops, token : Tokens, sub : AnySub, fresh : BOOLEAN,
   body : Bodies, chunked : BOOLEAN, owned : BOOLEAN, done : BOOLEAN, status : Sent]

(* Nothing is written before the answer, and no row either.                *)
Unanswered(r) == r.pc # "idle" => r.status = 0 /\ ~r.done

(* The request carries a token of the subject it runs for, which had not   *)
(* expired when it was read.                                               *)
Vouched(r) == r.sub \in Subjects /\ r.token.sub = r.sub /\ r.fresh

(* What runs in a handler, that is, reads a body or calls the store.       *)
HandlerOps == {"list", "delete"} \cup ReadsOfIds \cup WithBody

Staged(r) ==
  /\ r.pc \in {"auth", "mux"} => r.op = "none"
  /\ r.pc = "mux" /\ ~Bypasses(r.line) => Vouched(r)
  /\ r.pc = "body" => Vouched(r) /\ r.op \in WithBody
  /\ r.pc = "store" =>
       /\ Vouched(r) /\ r.op \in HandlerOps
       /\ r.op \in WithBody => ~BadRequest(r.op, r.body, r.chunked)

(* The properties of the status, of one request.                           *)
Answer(r) == r.pc = "idle" /\ r.status # 0
Success2xx(r) == Answer(r) /\ r.status \in 200..299

TellsEffect(r) ==
  /\ Success2xx(r) /\ r.op \in Writes => r.done
  /\ Answer(r) /\ r.done => r.status \in AfterWrite(r.op)

LooksMissing(r) ==
  Answer(r) /\ r.op \in ReadsOfIds \cup WritesOfIds /\ ~r.owned =>
    \/ r.status = 404
    \/ r.status = 400 /\ BadRequest(r.op, r.body, r.chunked)
    \/ r.status = 500 /\ (setup.store = "postgres" \/ InvalidRating(r))

FailsIfBad(r) ==
  Success2xx(r) /\ r.op \in WithBody /\ r.body = "malformed" => r.op = "branch" /\ r.chunked

RequestOK(r) ==
  /\ r \in Request
  /\ Unanswered(r) /\ Staged(r)
  /\ TellsEffect(r) /\ LooksMissing(r) /\ FailsIfBad(r)

TablesOK ==
  /\ DOMAIN threads \subseteq Ids /\ DOMAIN posts \subseteq Ids
  /\ \A c \in DOMAIN threads : threads[c].sub \in Subjects
  /\ \A m \in DOMAIN posts : posts[m].thread \in Ids /\ posts[m].content \in Contents
                             /\ posts[m].place \in Places
  /\ DOMAIN ratings \subseteq DOMAIN posts
  /\ nextId \in 1..MaxId+1

LeftoversOK == leftovers \subseteq Subjects \X Ids

RequestsOK == http \in [Handlers -> Request] /\ \A h \in Handlers : RequestOK(http[h])

ServerInv ==
  TablesOK /\ LeftoversOK /\ setup \in Setups /\ clock \in 1..MaxTime /\ RequestsOK
-----------------------------------------------------------------------------
(***************************************************************************)
(* Lemmas about the operators.                                             *)
(***************************************************************************)

(* A route that leads to a handler is no health check, and none is for     *)
(* OPTIONS: this is what keeps requests that bypass the authentication     *)
(* away from the handlers.                                                 *)
LEMMA RouteFacts ==
  \A route \in Routes :
    /\ route[3] \in HandlerOps => route[2] \notin Health
    /\ route[1] \notin {"OPTIONS", "HEAD"}
    /\ route[3] \in Ops
<1>1. \A route \in Routes : route[1] \notin {"OPTIONS", "HEAD"}
  BY DEF Routes, Lists
<1>2. \A route \in Routes : route[3] \in Ops
  BY DEF Ops
<1>3. \A route \in Routes : route[2] \in Health => route[3] \in {"healthz", "readyz"}
  BY DEF Routes, Lists, Health
<1>4. {"healthz", "readyz"} \cap HandlerOps = {}
  BY DEF HandlerOps, ReadsOfIds, WithBody, Writes, WritesOfIds, Tools
<1>. QED BY <1>1, <1>2, <1>3, <1>4

(* A request whose line is served by a handler has not bypassed anything.  *)
LEMMA NoBypass ==
  ASSUME NEW line \in AnyLine, NEW route \in Served(line), route[3] \in HandlerOps
  PROVE  ~Bypasses(line)
<1>1. route \in Routes /\ route[2] = line.path
      /\ (route[1] = line.method \/ line.method = "HEAD")
  BY DEF Served
<1>. QED BY <1>1, RouteFacts DEF Bypasses

(* The request after its answer.                                           *)
LEMMA EmptyParts ==
  /\ Stages = {"idle", "auth", "mux", "body", "store"}
  /\ NoLine \in AnyLine /\ None \in Tokens /\ NoSubject \in AnySub
  /\ "none" \in Ops /\ 0 \in Sent
BY DEF Stages, AnyLine, Tokens, AnySub, Ops, Sent, Statuses

(* An answer ends a request with the status given.                         *)
LEMMA AnsweredFacts ==
  ASSUME NEW r \in Request, r.status = 0, NEW status \in Sent,
         NEW a, a = Answered(r, status)
  PROVE  /\ a \in Request
         /\ a.pc = "idle" /\ a.status = status
         /\ a.op = r.op /\ a.body = r.body /\ a.chunked = r.chunked
         /\ a.owned = r.owned /\ a.done = r.done
<1>1. Wrote(r, status) = [r EXCEPT !.status = status]
  BY DEF Wrote, Request
<1>2. a = [r EXCEPT !.status = status, !.pc = "idle", !.line = NoLine, !.token = None,
                    !.sub = NoSubject, !.fresh = FALSE]
  BY <1>1 DEF Answered
<1>3. a \in Request
  BY <1>2, EmptyParts DEF Request
<1>. QED BY <1>2, <1>3 DEF Request

(* A step of one request.                                                  *)
LEMMA GoesOK ==
  ASSUME RequestsOK, NEW h \in Handlers, NEW from, NEW to, Goes(h, from, to), RequestOK(to)
  PROVE  RequestsOK'
<1>1. http' \in [Handlers -> Request]
  BY DEF Goes, RequestsOK, RequestOK
<1>2. ASSUME NEW g \in Handlers PROVE RequestOK(http[g])'
  <2>1. RequestOK(http'[g])
    BY DEF Goes, RequestsOK
  <2>2. setup' = setup
    BY DEF Goes
  <2>. QED BY <2>1, <2>2 DEF RequestOK, Unanswered, Staged, TellsEffect, LooksMissing, FailsIfBad,
                             Answer, Success2xx, AfterWrite
<1>. QED BY <1>1, <1>2 DEF RequestsOK

(* The invariant holds before the first request.                           *)
LEMMA InitServer == Init => ServerInv
<1>. SUFFICES ASSUME Init PROVE ServerInv
  OBVIOUS
<1>1. TablesOK
  BY ServerAssumption DEF Init, TenantInit, EmptyTable, TablesOK
<1>2. clock \in 1..MaxTime
  BY ServerAssumption DEF Init
<1>3. NoRequest \in Request
  BY EmptyParts DEF NoRequest, Request, Bodies
<1>4. RequestOK(NoRequest)
  BY <1>3 DEF RequestOK, NoRequest, Unanswered, Staged, TellsEffect, LooksMissing, FailsIfBad,
              Answer, Success2xx
<1>5. RequestsOK
  BY <1>3, <1>4 DEF Init, RequestsOK
<1>. QED BY <1>1, <1>2, <1>5 DEF Init, ServerInv, LeftoversOK
-----------------------------------------------------------------------------
(***************************************************************************)
(* The stages of a request.  Each lemma says that the request is left as   *)
(* the invariant has it.                                                   *)
(***************************************************************************)

(* A request that has been answered.                                       *)
LEMMA AnswerOK ==
  ASSUME NEW a \in Request, a.pc = "idle",
         a.status \in 200..299 /\ a.op \in Writes => a.done,
         a.done => a.status \in AfterWrite(a.op),
         a.status \in 200..299 /\ a.op \in WithBody /\ a.body = "malformed" =>
           a.op = "branch" /\ a.chunked,
         a.op \in ReadsOfIds \cup WritesOfIds /\ ~a.owned =>
           \/ a.status = 404
           \/ a.status = 400 /\ BadRequest(a.op, a.body, a.chunked)
           \/ a.status = 500 /\ (setup.store = "postgres" \/ InvalidRating(a))
  PROVE  RequestOK(a)
BY DEF RequestOK, Unanswered, Staged, TellsEffect, FailsIfBad, LooksMissing, Success2xx, Answer

(* An answer for which nothing was written: by a handler that knows if the *)
(* subject owns what the request names, or before any does.                *)
LEMMA DenialOK ==
  ASSUME NEW r \in Request, r.status = 0, ~r.done, NEW status \in Sent, NEW owned \in BOOLEAN,
         status \in 200..299 => r.op \notin Writes,
         status \in 200..299 /\ r.op \in WithBody /\ r.body = "malformed" =>
           r.op = "branch" /\ r.chunked,
         r.op \in ReadsOfIds \cup WritesOfIds /\ ~owned =>
           \/ status = 404
           \/ status = 400 /\ BadRequest(r.op, r.body, r.chunked)
           \/ status = 500 /\ (setup.store = "postgres" \/ InvalidRating(r))
  PROVE  RequestOK([Answered(r, status) EXCEPT !.owned = owned])
<1> DEFINE w == Answered(r, status)
           a == [w EXCEPT !.owned = owned]
<1>1. /\ w \in Request
      /\ w.pc = "idle" /\ w.status = status /\ w.done = r.done
      /\ w.op = r.op /\ w.body = r.body /\ w.chunked = r.chunked
  BY AnsweredFacts
<1>2. /\ a \in Request
      /\ a.pc = "idle" /\ a.status = status /\ a.done = r.done /\ a.owned = owned
      /\ a.op = r.op /\ a.body = r.body /\ a.chunked = r.chunked
  <2>. HIDE DEF w
  <2>. QED BY <1>1 DEF Request
<1>3. InvalidRating(a) <=> InvalidRating(r)
  BY <1>2 DEF InvalidRating
<1>4. RequestOK(a)
  <2>. HIDE DEF a
  <2>. QED BY <1>2, <1>3, AnswerOK
<1>. QED BY <1>4

(* A request may be refused at any point before its call has an effect, if *)
(* the refusal fits it.                                                    *)
LEMMA RefusalOK ==
  ASSUME NEW r \in Request, r.status = 0, ~r.done, NEW status \in Sent,
         status \in 200..299 => r.op \notin Writes \cup WithBody,
         r.op \in ReadsOfIds \cup WritesOfIds => status = 400 /\ BadRequest(r.op, r.body, r.chunked)
  PROVE  RequestOK(Answered(r, status))
<1> DEFINE a == Answered(r, status)
<1>1. /\ a \in Request
      /\ a.pc = "idle" /\ a.status = status /\ a.done = r.done
      /\ a.op = r.op /\ a.body = r.body /\ a.chunked = r.chunked
  BY AnsweredFacts
<1>2. RequestOK(a)
  <2>. HIDE DEF a
  <2>. QED BY <1>1, AnswerOK
<1>. QED BY <1>2

(* What is left of the invariant of a request on its way.                  *)
LEMMA UnderwayOK ==
  ASSUME NEW r \in Request, r.pc # "idle", r.status = 0, ~r.done, Staged(r)
  PROVE  RequestOK(r)
BY DEF RequestOK, Unanswered, TellsEffect, LooksMissing, FailsIfBad, Success2xx, Answer

(* The statuses the middleware and the handlers send.                      *)
LEMMA StatusFacts ==
  {200, 201, 204, 400, 401, 404, 405, 500, 503} \subseteq Sent \ {0}
BY DEF Sent, Statuses

(* The routes without a call to the store.                                 *)
LEMMA OpFacts ==
  /\ {"none", "healthz", "readyz", "tools", "other_tool"} \cap HandlerOps = {}
  /\ {"none", "list", "healthz", "readyz", "tools", "other_tool"} \cap
       (Writes \cup WithBody \cup ReadsOfIds \cup WritesOfIds) = {}
  /\ Tools \cap (Writes \cup ReadsOfIds \cup WritesOfIds) = {}
  /\ ReadsOfIds \cap (Writes \cup WithBody) = {}
  /\ Writes \subseteq HandlerOps /\ WithBody \subseteq HandlerOps
  /\ Writes = WritesOfIds \cup {"create"}
BY DEF HandlerOps, Writes, WithBody, ReadsOfIds, WritesOfIds, Tools

(* Each step of a request keeps it in order: its arrival, ...              *)
LEMMA ArriveOK ==
  ASSUME ServerInv, NEW h \in Handlers, NEW line \in Lines, Arrive(h, line)
  PROVE  RequestsOK'
<1> DEFINE r == [NoRequest EXCEPT !.line = line]
           to == IF setup.cors /\ line.method = "OPTIONS" THEN Answered(r, 204)
                 ELSE [r EXCEPT !.pc = "auth"]
<1>1. /\ r \in Request
      /\ r.status = 0 /\ ~r.done /\ r.op = "none"
      /\ [r EXCEPT !.pc = "auth"] \in Request
  <2>1. NoRequest \in Request /\ line \in AnyLine
    BY EmptyParts DEF NoRequest, Request, Bodies, AnyLine
  <2>. QED BY <2>1, EmptyParts DEF Request, NoRequest
<1>2. RequestOK(Answered(r, 204))
  <2>. HIDE DEF r
  <2>. QED BY <1>1, RefusalOK, StatusFacts, OpFacts
<1>3. RequestOK([r EXCEPT !.pc = "auth"])
  <2>1. Staged([r EXCEPT !.pc = "auth"])
    BY <1>1 DEF Staged, Request
  <2>. QED BY <1>1, <2>1, UnderwayOK DEF Request
<1>4. Goes(h, "idle", to) /\ RequestOK(to)
  BY <1>2, <1>3 DEF Arrive
<1>. HIDE DEF to
<1>. QED BY <1>4, GoesOK DEF ServerInv

(* The request of a handler that is at some stage.                         *)
LEMMA AtStage ==
  ASSUME RequestsOK, NEW h \in Handlers, http[h].pc # "idle"
  PROVE  http[h] \in Request /\ http[h].status = 0 /\ ~http[h].done /\ Staged(http[h])
BY DEF RequestsOK, RequestOK, Unanswered

(* ... a public path, ...                                                  *)
LEMMA BypassOK ==
  ASSUME ServerInv, NEW h \in Handlers, Bypass(h)
  PROVE  RequestsOK'
<1> DEFINE r == http[h]
           to == [r EXCEPT !.pc = "mux"]
<1>1. r.pc = "auth" /\ Bypasses(r.line) /\ Goes(h, "auth", to)
  BY DEF Bypass, Goes
<1>2. r \in Request /\ r.status = 0 /\ ~r.done /\ Staged(r)
  BY <1>1, AtStage DEF ServerInv
<1>. HIDE DEF r
<1>3. to \in Request /\ to.pc = "mux" /\ to.status = 0 /\ ~to.done
      /\ to.op = r.op /\ to.line = r.line
  BY <1>2, EmptyParts DEF Request
<1>4. Staged(to)
  BY <1>1, <1>2, <1>3 DEF Staged
<1>. HIDE DEF to
<1>. QED BY <1>1, <1>3, <1>4, UnderwayOK, GoesOK DEF ServerInv

(* ... the bearer token, ...                                               *)
LEMMA AuthenticateOK ==
  ASSUME ServerInv, NEW h \in Handlers, NEW token \in Tokens, Authenticate(h, token)
  PROVE  RequestsOK'
<1> DEFINE fresh == token.exp = 0 \/ clock <= token.exp
           r   == [http[h] EXCEPT !.token = token, !.fresh = fresh]
           sub == Verified(token)
           to  == [r EXCEPT !.pc = "mux", !.sub = sub]
<1>1. http[h].pc = "auth"
      /\ (Goes(h, "auth", Answered(r, 401)) \/ (sub # NoSubject /\ Goes(h, "auth", to)))
  BY DEF Authenticate, Goes
<1>2. http[h] \in Request /\ http[h].status = 0 /\ ~http[h].done /\ http[h].op = "none"
  BY <1>1, AtStage DEF ServerInv, Staged
<1>3. /\ r \in Request /\ r.status = 0 /\ ~r.done /\ r.op = "none"
      /\ r.token = token /\ r.fresh = fresh
  <2>1. fresh \in BOOLEAN
    OBVIOUS
  <2>. HIDE DEF fresh
  <2>. QED BY <1>2, <2>1 DEF Request
<1>4. CASE Goes(h, "auth", Answered(r, 401))
  <2>1. RequestOK(Answered(r, 401))
    <3>. HIDE DEF r
    <3>. QED BY <1>3, RefusalOK, StatusFacts, OpFacts
  <2>. HIDE DEF r
  <2>. QED BY <1>4, <2>1, GoesOK DEF ServerInv
<1>5. CASE sub # NoSubject /\ Goes(h, "auth", to)
  <2>1. token.sub = sub /\ sub \in Subjects /\ fresh
    <3>1. ~Expired(token) /\ sub = token.sub
      BY <1>5 DEF Verified
    <3>2. token.sub \in Subjects \cup {NoSubject}
      BY DEF Tokens, None
    <3>3. clock \in Nat /\ token.exp \in Nat
      BY DEF ServerInv, Tokens, None
    <3>. QED BY <1>5, <3>1, <3>2, <3>3 DEF Expired
  <2>2. /\ to \in Request /\ to.pc = "mux" /\ to.status = 0 /\ ~to.done
        /\ to.op = "none" /\ to.sub = sub /\ to.token = token /\ to.fresh = fresh
    <3>1. sub \in AnySub
      BY <2>1 DEF AnySub
    <3>. HIDE DEF r, sub, fresh
    <3>. QED BY <1>3, <3>1, EmptyParts DEF Request
  <2>3. Staged(to)
    <3>. HIDE DEF to
    <3>. QED BY <2>1, <2>2 DEF Staged, Vouched
  <2>. HIDE DEF to
  <2>. QED BY <1>5, <2>2, <2>3, UnderwayOK, GoesOK DEF ServerInv
<1>. QED BY <1>1, <1>4, <1>5

(* The step that chooses the handler; no subject has to be known for the    *)
(* answers the mux gives itself.                                           *)
LEMMA DispatchOK ==
  ASSUME ServerInv, NEW h \in Handlers, Dispatch(h)
  PROVE  RequestsOK'
<1> DEFINE r == http[h]
           Leads(route) ==
             LET op == route[3]
                 o == [r EXCEPT !.op = op]
             IN
             \/ op \in {"healthz", "readyz", "tools"} /\ Goes(h, "mux", Answered(o, 200))
             \/ /\ op = "readyz" /\ setup.store = "postgres"
                /\ Goes(h, "mux", Answered(o, 503))
             \/ op = "other_tool" /\ Goes(h, "mux", Answered(o, 404))
             \/ op \in WithBody /\ Goes(h, "mux", [o EXCEPT !.pc = "body"])
             \/ /\ op \in {"list", "delete"} \cup ReadsOfIds
                /\ Goes(h, "mux", [o EXCEPT !.pc = "store"])
<1>1. r.pc = "mux"
  BY DEF Dispatch, Goes
<1>2. /\ r \in Request /\ r.status = 0 /\ ~r.done /\ r.op = "none"
      /\ ~Bypasses(r.line) => Vouched(r)
  BY <1>1, AtStage DEF ServerInv, Staged
<1>3. ASSUME NEW status \in {404, 405}, Goes(h, "mux", Answered(r, status))
      PROVE  RequestsOK'
  <2>1. RequestOK(Answered(r, status))
    <3>. HIDE DEF r
    <3>. QED BY <1>2, RefusalOK, StatusFacts, OpFacts
  <2>. HIDE DEF r
  <2>. QED BY <1>3, <2>1, GoesOK DEF ServerInv
<1>4. ASSUME NEW route \in Served(r.line), NEW o, o = [r EXCEPT !.op = route[3]],
             NEW status \in {200, 404, 503},
             route[3] \in {"healthz", "readyz", "tools", "other_tool"},
             Goes(h, "mux", Answered(o, status))
      PROVE  RequestsOK'
  <2>1. route[3] \in Ops
    BY RouteFacts DEF Served
  <2>2. o \in Request /\ o.status = 0 /\ ~o.done /\ o.op = route[3]
    <3>. HIDE DEF r
    <3>. QED BY <1>2, <1>4, <2>1 DEF Request
  <2>3. o.op \notin Writes \cup WithBody \cup ReadsOfIds \cup WritesOfIds
    BY <1>4, <2>2, OpFacts
  <2>4. RequestOK(Answered(o, status))
    BY <2>2, <2>3, RefusalOK, StatusFacts
  <2>. QED BY <1>4, <2>4, GoesOK DEF ServerInv
<1>5. ASSUME NEW route \in Served(r.line), NEW o, o = [r EXCEPT !.op = route[3]],
             NEW stage \in {"body", "store"}, route[3] \in HandlerOps,
             stage = "body" => route[3] \in WithBody,
             stage = "store" => route[3] \in {"list", "delete"} \cup ReadsOfIds,
             Goes(h, "mux", [o EXCEPT !.pc = stage])
      PROVE  RequestsOK'
  <2> DEFINE to == [o EXCEPT !.pc = stage]
  <2>1. route[3] \in Ops
    BY RouteFacts DEF Served
  <2>2. Vouched(r)
    <3>1. r.line \in AnyLine
      BY <1>2 DEF Request
    <3>. QED BY <1>2, <1>5, <3>1, NoBypass
  <2>3. /\ to \in Request /\ to.status = 0 /\ ~to.done /\ to.op = route[3] /\ to.pc = stage
        /\ to.sub = r.sub /\ to.token = r.token /\ to.fresh = r.fresh
    <3>. HIDE DEF r
    <3>. QED BY <1>2, <1>5, <2>1, EmptyParts DEF Request
  <2>4. Staged(to)
    <3>1. {"list", "delete"} \cap WithBody = {} /\ ReadsOfIds \cap WithBody = {}
      BY OpFacts DEF WithBody, Writes, WritesOfIds, Tools
    <3>. HIDE DEF to
    <3>. QED BY <1>5, <2>2, <2>3, <3>1 DEF Staged, Vouched
  <2>5. RequestOK(to)
    <3>. HIDE DEF to
    <3>. QED BY <2>3, <2>4, UnderwayOK
  <2>. QED BY <1>5, <2>5, GoesOK DEF ServerInv
<1>6. CASE Goes(h, "mux", Answered(r, IF r.line.path \in Paths THEN 405 ELSE 404))
  BY <1>3, <1>6
<1>7. ASSUME NEW route \in Served(r.line), Leads(route) PROVE RequestsOK'
  <2> DEFINE o == [r EXCEPT !.op = route[3]]
             reply(status) == Goes(h, "mux", Answered(o, status))
             next(stage) == Goes(h, "mux", [o EXCEPT !.pc = stage])
  <2>1. CASE /\ route[3] \in {"healthz", "readyz", "tools", "other_tool"}
             /\ reply(200) \/ reply(404) \/ reply(503)
    BY <1>4, <2>1
  <2>2. CASE route[3] \in WithBody /\ next("body")
    BY <1>5, <2>2 DEF HandlerOps
  <2>3. CASE route[3] \in {"list", "delete"} \cup ReadsOfIds /\ next("store")
    BY <1>5, <2>3 DEF HandlerOps
  <2>4. \/ route[3] \in {"healthz", "readyz", "tools"} /\ reply(200)
        \/ route[3] = "readyz" /\ reply(503)
        \/ route[3] = "other_tool" /\ reply(404)
        \/ route[3] \in WithBody /\ next("body")
        \/ route[3] \in {"list", "delete"} \cup ReadsOfIds /\ next("store")
    BY <1>7
  <2>. HIDE DEF reply, next
  <2>. QED BY <2>1, <2>2, <2>3, <2>4
<1>8. \/ Goes(h, "mux", Answered(r, IF r.line.path \in Paths THEN 405 ELSE 404))
      \/ \E route \in Served(r.line) : Leads(route)
  BY Zenon DEF Dispatch
<1>. HIDE DEF Leads
<1>. QED BY <1>6, <1>7, <1>8, Zenon

(* ... the body, ...                                                       *)
LEMMA ReadBodyOK ==
  ASSUME ServerInv, NEW h \in Handlers, NEW body \in Bodies, NEW chunked \in BOOLEAN,
         ReadBody(h, body, chunked)
  PROVE  RequestsOK'
<1> DEFINE r == [http[h] EXCEPT !.body = body, !.chunked = chunked]
           to == [r EXCEPT !.pc = "store"]
<1>1. /\ http[h].pc = "body"
      /\ \/ BadRequest(r.op, body, chunked) /\ Goes(h, "body", Answered(r, 400))
         \/ ~BadRequest(r.op, body, chunked) /\ Goes(h, "body", to)
  BY DEF ReadBody, AfterBadRequest, Goes
<1>2. /\ http[h] \in Request /\ http[h].status = 0 /\ ~http[h].done
      /\ Vouched(http[h]) /\ http[h].op \in WithBody
  BY <1>1, AtStage DEF ServerInv, Staged
<1>3. /\ r \in Request /\ r.status = 0 /\ ~r.done /\ r.op = http[h].op
      /\ r.body = body /\ r.chunked = chunked
      /\ r.sub = http[h].sub /\ r.token = http[h].token /\ r.fresh = http[h].fresh
  BY <1>2 DEF Request
<1>. HIDE DEF r
<1>4. CASE BadRequest(r.op, body, chunked) /\ Goes(h, "body", Answered(r, 400))
  <2>1. RequestOK(Answered(r, 400))
    BY <1>3, <1>4, RefusalOK, StatusFacts
  <2>. QED BY <1>4, <2>1, GoesOK DEF ServerInv
<1>5. CASE ~BadRequest(r.op, body, chunked) /\ Goes(h, "body", to)
  <2>1. /\ to \in Request /\ to.pc = "store" /\ to.status = 0 /\ ~to.done /\ to.op = r.op
        /\ to.body = body /\ to.chunked = chunked
        /\ to.sub = r.sub /\ to.token = r.token /\ to.fresh = r.fresh
    BY <1>3, EmptyParts DEF Request
  <2>. HIDE DEF to
  <2>2. Staged(to)
    BY <1>2, <1>3, <1>5, <2>1, OpFacts DEF Staged, Vouched
  <2>3. RequestOK(to)
    BY <2>1, <2>2, UnderwayOK
  <2>. QED BY <1>5, <2>3, GoesOK DEF ServerInv
<1>. QED BY <1>1, <1>4, <1>5
-----------------------------------------------------------------------------
(***************************************************************************)
(* The calls of the tools and of the store.                                *)
(***************************************************************************)
LEMMA AtStore ==
  ASSUME ServerInv, NEW h \in Handlers, http[h].pc = "store"
  PROVE  /\ http[h] \in Request /\ http[h].status = 0 /\ ~http[h].done
         /\ Vouched(http[h]) /\ http[h].op \in HandlerOps
         /\ http[h].op \in WithBody /\ http[h].body = "malformed" =>
              http[h].op = "branch" /\ http[h].chunked
<1> DEFINE r == http[h]
<1>1. /\ r \in Request /\ r.status = 0 /\ ~r.done /\ Vouched(r) /\ r.op \in HandlerOps
      /\ r.op \in WithBody => ~BadRequest(r.op, r.body, r.chunked)
  BY AtStage DEF ServerInv, Staged
<1>. QED BY <1>1 DEF BadRequest, Decoded

(* ... a tool that only talks, ...                                         *)
LEMMA CallToolOK ==
  ASSUME ServerInv, NEW h \in Handlers, CallTool(h)
  PROVE  RequestsOK'
<1> DEFINE r == http[h]
           status == ToolStatus(r.op)
<1>1. r.pc = "store" /\ r.op \in Tools /\ Goes(h, "store", Answered(r, status))
  BY DEF CallTool, Goes
<1>2. r \in Request /\ r.status = 0 /\ ~r.done
      /\ (r.op \in WithBody /\ r.body = "malformed" => r.op = "branch" /\ r.chunked)
  BY <1>1, AtStore
<1>3. status \in {200, 404, 503}
  BY <1>1 DEF ToolStatus, Tools
<1>4. RequestOK(Answered(r, status))
  <2> DEFINE a == Answered(r, status)
  <2>. HIDE DEF r, status
  <2>1. /\ a \in Request
        /\ a.pc = "idle" /\ a.status = status /\ a.done = r.done
        /\ a.op = r.op /\ a.body = r.body /\ a.chunked = r.chunked
    BY <1>2, <1>3, AnsweredFacts, StatusFacts
  <2>2. RequestOK(a)
    <3>1. a.op \notin Writes \cup ReadsOfIds \cup WritesOfIds
      BY <1>1, <2>1, OpFacts
    <3>2. ~a.done /\ (a.op \in WithBody /\ a.body = "malformed" => a.op = "branch" /\ a.chunked)
      BY <1>2, <2>1
    <3>. HIDE DEF a
    <3>. QED BY <2>1, <3>1, <3>2, AnswerOK
  <2>. QED BY <2>2
<1>. HIDE DEF r, status
<1>. QED BY <1>1, <1>4, GoesOK DEF ServerInv

(* A reading that finds what it asks for.                                  *)
LEMMA FoundOK ==
  ASSUME NEW r \in Request, r.status = 0, ~r.done, r.op \notin Writes, r.op \notin WithBody
  PROVE  RequestOK([Answered(r, 200) EXCEPT !.owned = TRUE])
<1>1. PICK owned, status : owned = TRUE /\ status = 200
  OBVIOUS
<1>2. status \in Sent /\ owned \in BOOLEAN /\ owned
  BY <1>1, StatusFacts
<1>3. RequestOK([Answered(r, status) EXCEPT !.owned = owned])
  BY <1>2, DenialOK
<1>. QED BY <1>1, <1>3

(* ... a call that reads, ...                                              *)
LEMMA CallReadOK ==
  ASSUME ServerInv, NEW h \in Handlers, NEW id, CallRead(h, id)
  PROVE  RequestsOK'
<1> DEFINE r == http[h]
           to == [Answered(r, 200) EXCEPT !.owned = TRUE]
<1>1. r.pc = "store" /\ r.op \in {"list"} \cup ReadsOfIds /\ Goes(h, "store", to)
  BY DEF CallRead, Goes
<1>2. r \in Request /\ r.status = 0 /\ ~r.done
  BY <1>1, AtStore
<1>3. r.op \notin Writes \cup WithBody
  BY <1>1, OpFacts
<1>4. RequestOK(to)
  BY <1>2, <1>3, FoundOK
<1>. HIDE DEF to
<1>. QED BY <1>1, <1>4, GoesOK DEF ServerInv

(* ... the rating that the store in memory keeps too long, ...             *)
LEMMA CallReadLeftoverOK ==
  ASSUME ServerInv, NEW h \in Handlers, NEW id, CallReadLeftover(h, id)
  PROVE  RequestsOK'
<1> DEFINE r == http[h]
           to == [Answered(r, 200) EXCEPT !.owned = TRUE]
<1>1. r.pc = "store" /\ r.op = "rating" /\ Goes(h, "store", to)
  BY DEF CallReadLeftover, Leftover, Goes
<1>2. r \in Request /\ r.status = 0 /\ ~r.done
  BY <1>1, AtStore
<1>3. r.op \notin Writes \cup WithBody
  BY <1>1, OpFacts DEF ReadsOfIds
<1>4. RequestOK(to)
  BY <1>2, <1>3, FoundOK
<1>. HIDE DEF to
<1>. QED BY <1>1, <1>4, GoesOK DEF ServerInv

(* ... a call that finds nothing, ...                                      *)
LEMMA CallNotFoundOK ==
  ASSUME ServerInv, NEW h \in Handlers, NEW id, CallNotFound(h, id)
  PROVE  RequestsOK'
<1> DEFINE r == http[h]
           owned == OwnsTarget(r, id)
           to == [Answered(r, 404) EXCEPT !.owned = owned]
<1>1. r.pc = "store" /\ Goes(h, "store", to)
  BY DEF CallNotFound, Goes, Denial, mapError
<1>2. r \in Request /\ r.status = 0 /\ ~r.done
  BY <1>1, AtStore
<1>3. owned \in BOOLEAN
  BY DEF OwnsTarget, OwnsPost, OwnsThread
<1>4. RequestOK(to)
  <2>. HIDE DEF r, owned
  <2>. QED BY <1>2, <1>3, DenialOK, StatusFacts
<1>. HIDE DEF to
<1>. QED BY <1>1, <1>4, GoesOK DEF ServerInv

(* ... a call that fails, ...                                              *)
LEMMA CallFailsOK ==
  ASSUME ServerInv, NEW h \in Handlers, NEW id, CallFails(h, id)
  PROVE  RequestsOK'
<1> DEFINE r == http[h]
           owned == OwnsTarget(r, id)
           to == [Answered(r, 500) EXCEPT !.owned = owned]
<1>1. /\ r.pc = "store" /\ Goes(h, "store", to)
      /\ setup.store = "postgres" \/ InvalidRating(r)
  BY DEF CallFails, Goes, mapError
<1>2. r \in Request /\ r.status = 0 /\ ~r.done
  BY <1>1, AtStore
<1>3. owned \in BOOLEAN
  BY DEF OwnsTarget, OwnsPost, OwnsThread
<1>4. RequestOK(to)
  <2>. HIDE DEF r, owned
  <2>. QED BY <1>1, <1>2, <1>3, DenialOK, StatusFacts
<1>. HIDE DEF to
<1>. QED BY <1>1, <1>4, GoesOK DEF ServerInv

(* ... and a call that writes.                                             *)
LEMMA CallWriteOK ==
  ASSUME ServerInv, NEW h \in Handlers, NEW id, CallWrite(h, id)
  PROVE  RequestsOK'
<1> DEFINE r == http[h]
<1>1. /\ r.pc = "store" /\ r.op \in Writes
      /\ \E status \in AfterWrite(r.op) :
           Goes(h, "store", [Answered(r, status) EXCEPT !.owned = TRUE, !.done = TRUE])
  BY DEF CallWrite, Write, Goes, Writes, WritesOfIds
<1>2. PICK status \in AfterWrite(r.op) :
        Goes(h, "store", [Answered(r, status) EXCEPT !.owned = TRUE, !.done = TRUE])
  BY <1>1
<1>3. status \in {200, 201, 204, 404, 500}
  BY <1>2 DEF AfterWrite, Success, mapError
<1>4. /\ r \in Request /\ r.status = 0
      /\ r.op \in WithBody /\ r.body = "malformed" => r.op = "branch" /\ r.chunked
  BY <1>1, AtStore
<1> DEFINE w  == Answered(r, status)
           to == [w EXCEPT !.owned = TRUE, !.done = TRUE]
<1>. HIDE DEF r
<1>5. /\ w \in Request
      /\ w.pc = "idle" /\ w.status = status
      /\ w.op = r.op /\ w.body = r.body /\ w.chunked = r.chunked
  BY <1>3, <1>4, AnsweredFacts, StatusFacts
<1>6. RequestOK(to)
  <2>1. /\ to \in Request /\ to.pc = "idle" /\ to.status = status /\ to.owned /\ to.done
        /\ to.op = r.op /\ to.body = r.body /\ to.chunked = r.chunked
    <3>. HIDE DEF w
    <3>. QED BY <1>5 DEF Request
  <2>. HIDE DEF to
  <2>. QED BY <1>2, <1>4, <2>1, AnswerOK
<1>7. Goes(h, "store", to)
  BY <1>2
<1>. HIDE DEF to
<1>. QED BY <1>6, <1>7, GoesOK DEF ServerInv
-----------------------------------------------------------------------------
(***************************************************************************)
(* The tables of the store.                                                *)
(***************************************************************************)

(* A branch takes finitely many ids.                                       *)
LEMMA BranchIsFinite ==
  ASSUME TablesOK, NEW c, NEW S \in SUBSET PostsOf(c)
  PROVE  Cardinality(S) \in Nat
<1>1. MaxId \in Int
  BY ServerAssumption
<1>2. IsFiniteSet(1..MaxId)
  BY <1>1, FS_Interval
<1>3. S \subseteq 1..MaxId
  BY DEF TablesOK, PostsOf, Ids
<1>. QED BY <1>2, <1>3, FS_Subset, FS_CardinalityType

(* New rows have ids that are below nextId and within the bound.           *)
LEMMA MintFacts ==
  ASSUME TablesOK, NEW n \in Nat, n > 0, Mint(n)
  PROVE  /\ nextId' \in 1..MaxId+1
         /\ nextId .. nextId + n - 1 \subseteq Ids
BY ServerAssumption DEF TablesOK, Mint, Ids

(* A write leaves the tables well formed: threads of subjects, posts of    *)
(* known contents and ratings of posts that exist.                         *)
LEMMA WriteTables ==
  ASSUME TablesOK, NEW r, r.sub \in Subjects, NEW id, Write(r, id)
  PROVE  TablesOK'
<1> USE DEF TablesOK
<1>1. ASSUME NEW t, Mint(1), NewThread(r.sub, nextId, t) PROVE TablesOK'
  <2>1. nextId \in Ids /\ nextId' \in 1..MaxId+1
    BY <1>1, MintFacts
  <2>. QED BY <1>1, <2>1 DEF NewThread, Put
<1>2. ASSUME NEW t, UNCHANGED nextId, RenameThread(r.sub, id, t) PROVE TablesOK'
  BY <1>2 DEF RenameThread, OwnsThread, Put
<1>3. ASSUME UNCHANGED nextId, DeleteThread(r.sub, id) PROVE TablesOK'
  BY <1>3 DEF DeleteThread, OwnsThread, Without, Restrict
<1>4. ASSUME NEW x \in Contents, NEW p \in Places, Mint(1), AppendPost(r.sub, id, nextId, x, p)
      PROVE  TablesOK'
  <2>1. nextId \in Ids /\ nextId' \in 1..MaxId+1
    BY <1>4, MintFacts
  <2>. QED BY <1>4, <2>1 DEF AppendPost, OwnsThread, Put
<1>5. ASSUME NEW x, UNCHANGED nextId, RatePost(r.sub, id, x) PROVE TablesOK'
  BY <1>5 DEF RatePost, OwnsPost, Put
<1>6. ASSUME OwnsPost(r.sub, id), NEW S \in SUBSET PostsOf(posts[id].thread), NEW t, NEW of,
             DOMAIN of = nextId + 1 .. nextId + Cardinality(S), Mint(Cardinality(S) + 1),
             NEW at \in [DOMAIN of -> Places], BranchThread(r.sub, id, nextId, t, of, at)
      PROVE  TablesOK'
  <2>1. Cardinality(S) \in Nat
    BY BranchIsFinite
  <2>2. nextId' \in 1..MaxId+1 /\ nextId \in Ids /\ DOMAIN of \subseteq Ids
    BY <1>6, <2>1, MintFacts
  <2>3. \A x \in DOMAIN of : of[x] \in DOMAIN posts
    BY <1>6 DEF BranchThread, CopyThread, PostsOf
  <2>. QED BY <1>6, <2>2, <2>3 DEF BranchThread, CopyThread, Put, Overlay
<1>. HIDE DEF TablesOK
<1>7. ASSUME r.op = "branch" PROVE TablesOK'
  <2>1. OwnsPost(r.sub, id)
    BY <1>7 DEF Write
  <2>2. PICK S \in SUBSET PostsOf(posts[id].thread), t \in TitlesGiven(r) :
          LET n == Cardinality(S)
              of == [x \in nextId + 1 .. nextId + n |-> SetToSeq(S)[x - nextId]]
          IN /\ Mint(n + 1)
             /\ \E at \in [DOMAIN of -> Places] : BranchThread(r.sub, id, nextId, t, of, at)
    BY <1>7 DEF Write
  <2> DEFINE of == [x \in nextId + 1 .. nextId + Cardinality(S) |-> SetToSeq(S)[x - nextId]]
  <2>3. PICK at \in [DOMAIN of -> Places] : BranchThread(r.sub, id, nextId, t, of, at)
    BY <2>2
  <2>4. DOMAIN of = nextId + 1 .. nextId + Cardinality(S) /\ Mint(Cardinality(S) + 1)
    BY <2>2
  <2>. HIDE DEF of
  <2>. QED BY <1>6, <2>1, <2>3, <2>4
<1>. QED BY <1>1, <1>2, <1>3, <1>4, <1>5, <1>7 DEF Write
-----------------------------------------------------------------------------
(***************************************************************************)
(* Every step.                                                             *)
(***************************************************************************)

(* Only a call that writes touches the tables.                             *)
LEMMA CallWriteTables ==
  ASSUME ServerInv, NEW h \in Handlers, NEW id, CallWrite(h, id)
  PROVE  TablesOK' /\ LeftoversOK'
<1>1. http[h].pc = "store" /\ Write(http[h], id)
  BY DEF CallWrite, Goes
<1>2. http[h].sub \in Subjects
  BY <1>1, AtStore DEF Vouched
<1>3. Forgotten(http[h], id) \subseteq Subjects \X Ids
  BY <1>2 DEF Forgotten, PostsOf, ServerInv, TablesOK
<1>4. LeftoversOK'
  BY <1>3 DEF CallWrite, ServerInv, LeftoversOK
<1>. QED BY <1>1, <1>2, <1>4, WriteTables DEF ServerInv

(* Without a call to the store its tables stay in order.                   *)
LEMMA UntouchedTables ==
  TablesOK /\ LeftoversOK /\ StoreUntouched => TablesOK' /\ LeftoversOK'
BY DEF TablesOK, LeftoversOK, StoreUntouched, tenantVars

(* What a step of a request does besides moving the request on.            *)
LEMMA StepFacts ==
  ASSUME NEW h \in Handlers, Step(h) \/ \E line \in Lines : Arrive(h, line)
  PROVE  /\ UNCHANGED <<setup, clock>>
         /\ StoreUntouched \/ \E id \in 1..Junk : CallWrite(h, id)
<1>1. ASSUME NEW line \in Lines, Arrive(h, line) PROVE UNCHANGED <<setup, clock>> /\ StoreUntouched
  BY <1>1 DEF Arrive, Goes
<1>2. ASSUME Bypass(h) \/ Dispatch(h) \/ CallTool(h)
      PROVE  UNCHANGED <<setup, clock>> /\ StoreUntouched
  BY <1>2 DEF Bypass, Dispatch, CallTool, Goes
<1>3. ASSUME NEW token \in Tokens, Authenticate(h, token)
      PROVE  UNCHANGED <<setup, clock>> /\ StoreUntouched
  BY <1>3 DEF Authenticate, Goes
<1>4. ASSUME NEW body \in Bodies, NEW chunked \in BOOLEAN, ReadBody(h, body, chunked)
      PROVE  UNCHANGED <<setup, clock>> /\ StoreUntouched
  BY <1>4 DEF ReadBody, Goes
<1>5. ASSUME NEW id \in 1..Junk,
             CallRead(h, id) \/ CallReadLeftover(h, id) \/ CallNotFound(h, id) \/ CallFails(h, id)
      PROVE  UNCHANGED <<setup, clock>> /\ StoreUntouched
  BY <1>5 DEF CallRead, CallReadLeftover, CallNotFound, CallFails, Goes
<1>6. ASSUME NEW id \in 1..Junk, CallWrite(h, id) PROVE UNCHANGED <<setup, clock>>
  BY <1>6 DEF CallWrite, Goes
<1>. QED BY <1>1, <1>2, <1>3, <1>4, <1>5, <1>6 DEF Step

(* All steps of requests together.                                         *)
LEMMA StepOfRequest ==
  ASSUME ServerInv, NEW h \in Handlers, Step(h) \/ \E line \in Lines : Arrive(h, line)
  PROVE  ServerInv'
<1>1. RequestsOK'
  BY ArriveOK, BypassOK, AuthenticateOK, DispatchOK, ReadBodyOK, CallToolOK, CallWriteOK,
     CallReadOK, CallReadLeftoverOK, CallNotFoundOK, CallFailsOK DEF Step
<1>2. TablesOK' /\ LeftoversOK'
  BY StepFacts, CallWriteTables, UntouchedTables DEF ServerInv
<1>. QED BY <1>1, <1>2, StepFacts DEF ServerInv

(* The clock: a request depends on it only while its token is checked.     *)
LEMMA RequestsStay == RequestsOK /\ UNCHANGED <<setup, http>> => RequestsOK'
BY DEF RequestsOK, RequestOK, Unanswered, Staged, TellsEffect, LooksMissing, FailsIfBad,
       Answer, Success2xx, AfterWrite

(* Every step keeps the invariant.                                         *)
LEMMA StepServer == ServerInv /\ [Next]_vars => ServerInv'
<1>. SUFFICES ASSUME ServerInv, [Next]_vars PROVE ServerInv'
  OBVIOUS
<1>1. CASE \E h \in Handlers : Step(h) \/ \E line \in Lines : Arrive(h, line)
  BY <1>1, StepOfRequest
<1>2. CASE Tick
  <2>1. clock' \in 1..MaxTime
    BY <1>2, ServerAssumption DEF Tick, ServerInv
  <2>. QED BY <1>2, <2>1, UntouchedTables, RequestsStay DEF Tick, ServerInv
<1>3. CASE UNCHANGED vars
  <2>1. StoreUntouched /\ UNCHANGED <<setup, clock, http>>
    BY <1>3 DEF vars, StoreUntouched
  <2>. QED BY <2>1, UntouchedTables, RequestsStay DEF ServerInv
<1>. QED BY <1>1, <1>2, <1>3 DEF Next, Quiescent

(* So the invariant always holds.                                          *)
LEMMA ServerCorrect == Spec => []ServerInv
<1>. QED BY InitServer, StepServer, PTL DEF Spec

(* Every variable has its type, and neither 403 nor 409 is ever sent: of   *)
(* the errors that mapError knows, the stores use only ErrNotFound.        *)
THEOREM TypeCorrect == Spec => []TypeOK
<1>1. ServerInv => TypeOK
  BY DEF ServerInv, TablesOK, LeftoversOK, RequestsOK, RequestOK, Request, Stages, Sent, TypeOK
<1>. QED BY <1>1, ServerCorrect, PTL

(* authMiddleware lets requests through without a subject (health checks   *)
(* and OPTIONS), and no handler of the API ever gets one of those.         *)
THEOREM SubjectsCorrect == Spec => []HandlersHaveSubject
<1>1. ServerInv => HandlersHaveSubject
  BY DEF ServerInv, RequestsOK, RequestOK, Staged, Vouched, HandlersHaveSubject
<1>. QED BY <1>1, ServerCorrect, PTL

(* What a client may conclude of a status about its write.                 *)
THEOREM StatusCorrect == Spec => []StatusTellsEffect
<1>1. ASSUME ServerInv, NEW h \in Handlers PROVE TellsEffect(http[h])
  BY <1>1 DEF ServerInv, RequestsOK, RequestOK
<1>2. ServerInv => StatusTellsEffect
  BY <1>1 DEF StatusTellsEffect, TellsEffect, Success2xx, Answer, Succeeded, Replied
<1>. QED BY <1>2, ServerCorrect, PTL

(* The status gives nothing away of the rows of other subjects.            *)
THEOREM MissingCorrect == Spec => []ForeignLooksMissing
<1>1. ASSUME ServerInv, NEW h \in Handlers PROVE LooksMissing(http[h])
  BY <1>1 DEF ServerInv, RequestsOK, RequestOK
<1>2. ServerInv => ForeignLooksMissing
  BY <1>1 DEF ForeignLooksMissing, LooksMissing, Answer, Replied
<1>. QED BY <1>2, ServerCorrect, PTL

(* The only malformed body that a request succeeds with is that of a       *)
(* branch which is sent in chunks: of all handlers that read a body, it is *)
(* only there that a Content-Length of -1 is taken for no body.            *)
OnlyChunkedBranches ==
  \A h \in Handlers :
    LET r == http[h] IN
    Succeeded(h) /\ r.op \in WithBody /\ r.body = "malformed" => r.op = "branch" /\ r.chunked

THEOREM BodiesCorrect == Spec => []OnlyChunkedBranches
<1>1. ASSUME ServerInv, NEW h \in Handlers PROVE FailsIfBad(http[h])
  BY <1>1 DEF ServerInv, RequestsOK, RequestOK
<1>2. ServerInv => OnlyChunkedBranches
  BY <1>1 DEF OnlyChunkedBranches, FailsIfBad, Success2xx, Answer, Succeeded, Replied
<1>. QED BY <1>2, ServerCorrect, PTL
-----------------------------------------------------------------------------
(***************************************************************************)
(* The server adds no way to the rows but the calls of the contract.       *)
(***************************************************************************)

(* The new posts of a branch are those it copies.                          *)
LEMMA BranchCall ==
  ASSUME NEW s, NEW m, NEW c, NEW t \in Titles, NEW of, of = [x \in DOMAIN of |-> of[x]],
         NEW at \in [DOMAIN of -> Places], OwnsPost(s, m), BranchThread(s, m, c, t, of, at)
  PROVE  Serve(s)
<1>1. c \in NewThreads
  BY DEF BranchThread, CopyThread, Put, NewThreads
<1>2. DOMAIN of = NewPosts
  BY DEF BranchThread, CopyThread, Overlay, NewPosts
<1>3. \A x \in DOMAIN of : of[x] \in PostsOf(posts[m].thread)
  BY DEF BranchThread, CopyThread
<1>4. of \in [NewPosts -> PostsOf(posts[m].thread)]
  BY <1>2, <1>3
<1>5. \A x \in DOMAIN of : posts'[x].place = at[x]
  BY DEF BranchThread, CopyThread, Overlay
<1>6. NewPlaces = at
  BY <1>2, <1>5 DEF NewPlaces
<1>7. NewPlaces \in [NewPosts -> Places] /\ BranchThread(s, m, c, t, of, NewPlaces)
  BY <1>2, <1>6
<1>. QED BY <1>1, <1>4, <1>7 DEF OwnsPost, Serve

(* A write of a request is one call of its subject.                        *)
LEMMA WriteServes == ASSUME NEW r, NEW id, Write(r, id) PROVE Serve(r.sub)
<1>1. TitlesGiven(r) \subseteq Titles
  BY ServerAssumption DEF TitlesGiven
<1>2. ASSUME NEW t \in Titles, NewThread(r.sub, nextId, t) PROVE Serve(r.sub)
  <2>1. nextId \in NewThreads
    BY <1>2 DEF NewThread, Put, NewThreads
  <2>. QED BY <1>2, <2>1 DEF Serve
<1>3. ASSUME NEW t \in Titles, RenameThread(r.sub, id, t) PROVE Serve(r.sub)
  BY <1>3 DEF RenameThread, OwnsThread, Serve
<1>4. ASSUME DeleteThread(r.sub, id) PROVE Serve(r.sub)
  BY <1>4 DEF DeleteThread, OwnsThread, Serve
<1>5. ASSUME NEW x \in Contents, NEW p \in Places, AppendPost(r.sub, id, nextId, x, p)
      PROVE  Serve(r.sub)
  <2>1. /\ nextId \in NewPosts /\ id \in DOMAIN threads
        /\ posts'[nextId].content = x /\ posts'[nextId].place = p
    BY <1>5 DEF AppendPost, OwnsThread, Put, NewPosts
  <2>. QED BY <1>5, <2>1 DEF Serve
<1>6. ASSUME NEW x \in Ratings, RatePost(r.sub, id, x) PROVE Serve(r.sub)
  BY <1>6 DEF RatePost, OwnsPost, Serve
<1>7. ASSUME r.op = "branch" PROVE Serve(r.sub)
  <2>1. PICK S \in SUBSET PostsOf(posts[id].thread), t \in TitlesGiven(r) :
          LET n == Cardinality(S)
              of == [x \in nextId + 1 .. nextId + n |-> SetToSeq(S)[x - nextId]]
          IN \E at \in [DOMAIN of -> Places] : BranchThread(r.sub, id, nextId, t, of, at)
    BY <1>7 DEF Write
  <2> DEFINE of == [x \in nextId + 1 .. nextId + Cardinality(S) |-> SetToSeq(S)[x - nextId]]
  <2>2. of = [x \in DOMAIN of |-> of[x]]
        /\ \E at \in [DOMAIN of -> Places] : BranchThread(r.sub, id, nextId, t, of, at)
    BY <2>1
  <2>3. OwnsPost(r.sub, id)
    BY <1>7 DEF Write
  <2>4. t \in Titles
    BY <1>1
  <2>. HIDE DEF of
  <2>. QED BY <2>2, <2>3, <2>4, BranchCall
<1>. QED BY <1>1, <1>2, <1>3, <1>4, <1>5, <1>6, <1>7 DEF Write

(* Whatever requests come in, in any order and however many at a time, the *)
(* rows are those of a store that is called by verified subjects with      *)
(* titles, contents and ratings that the contract admits.                  *)
THEOREM TenantCorrect == Spec => TenantSpec
<1>1. Init => TenantInit
  BY DEF Init
<1>2. ServerInv /\ [Next]_vars => [TenantNext]_tenantVars
  <2>1. SUFFICES ASSUME ServerInv, Next, ~UNCHANGED tenantVars PROVE TenantNext
    BY DEF vars, tenantVars, StoreUntouched
  <2>2. PICK h \in Handlers : Step(h) \/ \E line \in Lines : Arrive(h, line)
    BY <2>1 DEF Next, Tick, Quiescent, vars, StoreUntouched
  <2>3. PICK id \in 1..Junk : CallWrite(h, id)
    BY <2>1, <2>2, StepFacts DEF StoreUntouched
  <2>4. http[h].pc = "store" /\ Write(http[h], id)
    BY <2>3 DEF CallWrite, Goes
  <2>5. http[h].sub \in Subjects
    BY <2>1, <2>4, AtStore DEF Vouched
  <2>. QED BY <2>4, <2>5, WriteServes DEF TenantNext
<1>. QED BY <1>1, <1>2, ServerCorrect, PTL DEF Spec, TenantSpec
-----------------------------------------------------------------------------
(***************************************************************************)
(* Whose request changes the rows of a subject.                            *)
(***************************************************************************)
(* A write is a call of the contract, so it leaves the rows of all other   *)
(* subjects alone.                                                         *)
LEMMA WriteRows ==
  ASSUME NEW r, NEW id, Write(r, id), NEW s, s # r.sub
  PROVE  RowsOf(s)' = RowsOf(s)
BY WriteServes, ServeApart

(* Without a call to the store no subject has other rows.                  *)
LEMMA UntouchedRows == ASSUME NEW s, StoreUntouched PROVE RowsOf(s)' = RowsOf(s)
BY DEF StoreUntouched, tenantVars, RowsOf

(* The handler that writes has to be that of a bearer, and it is done then.*)
LEMMA CallWriteBearer ==
  ASSUME ServerInv, NEW h \in Handlers, NEW id, CallWrite(h, id),
         NEW s, RowsOf(s)' # RowsOf(s)
  PROVE  http'[h] # http[h] /\ http[h].token.sub = s /\ http[h].fresh
<1>1. http[h].pc = "store" /\ Write(http[h], id)
  BY DEF CallWrite, Goes
<1>2. http[h] \in Request /\ http[h].status = 0 /\ Vouched(http[h])
  BY <1>1, AtStore
<1>3. http[h].sub = s
  BY <1>1, WriteRows
<1>4. \E status \in AfterWrite(http[h].op) :
        http' = [http EXCEPT ![h] = [Answered(http[h], status) EXCEPT !.owned = TRUE, !.done = TRUE]]
  BY DEF CallWrite, Goes
<1>5. http'[h].pc = "idle"
  BY <1>2, <1>4 DEF ServerInv, RequestsOK, Answered, Wrote, Request
<1>. QED BY <1>1, <1>2, <1>3, <1>5 DEF Vouched

(* The rows of a subject change only in a step of a request whose token    *)
(* names that subject and had not expired when it was read: the stages of  *)
(* the request in between, and all the other requests, do not mix it up.   *)
THEOREM BearersCorrect == Spec => OnlyBearersAct
<1> DEFINE Bearer(s) ==
      \E h \in Handlers : http'[h] # http[h] /\ http[h].token.sub = s /\ http[h].fresh
<1>1. ASSUME ServerInv, Next, NEW s \in Subjects, RowsOf(s)' # RowsOf(s) PROVE Bearer(s)
  <2>1. ~StoreUntouched
    BY <1>1, UntouchedRows
  <2>2. PICK h \in Handlers : Step(h) \/ \E line \in Lines : Arrive(h, line)
    BY <1>1, <2>1 DEF Next, Tick, Quiescent, vars, StoreUntouched
  <2>3. PICK id \in 1..Junk : CallWrite(h, id)
    BY <2>1, <2>2, StepFacts
  <2>. QED BY <1>1, <2>3, CallWriteBearer
<1>2. ServerInv /\ [Next]_vars =>
        [\A s \in Subjects : RowsOf(s)' # RowsOf(s) => Bearer(s)]_vars
  BY <1>1
<1>. QED BY <1>2, ServerCorrect, PTL DEF Spec, OnlyBearersAct
=============================================================================
