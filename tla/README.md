# Specification of private-rag

TLA+ modules for `private-rag` (Go), TLC runs that check them on small
instances, and TLAPS proofs of every safety property for every instance. Paths
below are relative to the repository; `PROJECT.json` maps each definition to the
lines it models.

## 1. The system

`private-rag` keeps chat conversations, messages and feedback for the subjects
(`sub` claims) of signed tokens, behind a REST API and an MCP tool surface.

| Component | State it keeps | Operations | Talks to |
| --- | --- | --- | --- |
| In-memory store (`internal/store/store.go`) | four maps behind one `RWMutex`: conversations, messages per conversation, message id to conversation, feedback per subject and message | create, list, get, rename, delete, append, list messages, branch, rate, get rating | called by the HTTP handlers; one call returns a shared pointer |
| Postgres store (`internal/store/postgres.go`) | three tables with foreign keys; a connection pool | the same; append and branch are transactions, the others one or two statements | Postgres at READ COMMITTED, pgxpool |
| HTTP server (`internal/server/server.go`) | none of its own | CORS, authentication, routing, decoding, error mapping | verifier, store, tools |
| OIDC verifier (`internal/server/oidc.go`) | issuers, a JWKS cache for each, refreshed in the background and on unknown key ids | `NewOIDCVerifier`, `Subject`, `Close` | the issuers |
| Other verifiers (`internal/server/subject.go`) | none | `Subject` | |
| MCP transport and tools (`internal/server/mcp.go`, `internal/mcp/tools.go`) | none (the data plane is a stub) | list the catalogue, call a tool | |
| MCP schemas (`internal/mcp/schema.go`) | a constant catalogue | | |
| Process (`cmd/private-rag/main.go`, `Run` in `server.go`, `migrate` in `postgres.go`) | lifecycle | start, migrate, serve, shut down on a signal | everything |

What makes each correct, and what is hard about it:

* **Both stores.** The store is the place where ownership is enforced: nothing a
  subject does may be visible to another. A log is append-only. A branch is a
  faithful prefix of its source and independent of it. No orphans. All of it
  under calls from many handlers at once.
* **In-memory store.** Concurrency is easy (one mutex) except where an object
  leaves the mutex. The hard part is long sequences of legal calls that have to
  keep several maps in agreement.
* **Postgres store.** A method is several statements, each with its own snapshot.
  Checks go stale before they are used, requests are cancelled between
  statements, the answer of a COMMIT may be lost, connections are few.
* **HTTP server.** Every path has one status code; another subject's row looks
  like a missing one (404, never 403); bodies with and without a length.
* **OIDC verifier.** Routing by an unverified claim must not weaken the check;
  key rotation against a rate-limited refresh.
* **Process.** Startup that fails half-way, a signal during startup, shutdown
  with requests in flight.

`PROJECT.json` lists the hazards one by one with their lines.

## 2. Modules

| Module | Models | Extended by |
| --- | --- | --- |
| `StoreCommon` | tables as functions (`Put`, `Without`, `Overlay`), answers, branch titles | the stores and the contract |
| `TenantStore` | the contract `store.Store` as an abstract specification | `HTTPServer`, `TenantStoreProofs` |
| `InMemoryStore` | `InMemoryStore` | `MCInMemoryStore` (instances for TLC), `InMemoryStoreProofs`, `InMemoryContractProofs` |
| `PostgresStore` | `PostgresStore`, the pool, READ COMMITTED | `MCPostgresStore`, `PostgresStoreProofs`, `PostgresContractProofs` |
| `HTTPServer` | middleware, routes, handlers and error mapping over any store that keeps the contract; MCP dispatch; the claims-only verifier | `MCHTTPServer`, `HTTPServerProofs` |
| `OIDCVerifier` | `Subject`, the key set caches and their refreshes, `Close` | `MCOIDCVerifier`, `OIDCVerifierProofs` |
| `Lifecycle` | `main`, `NewPostgresStore` and `migrate`, `Run`, shutdown, restarts | `LifecycleProofs` |

How they fit together: `InMemoryStore` and `PostgresStore` each implement
`TenantStore` (`KeepsContract`, an instance of it under a refinement mapping);
`HTTPServer` is written over `TenantStore`, so that it need not know which store
is below; `OIDCVerifier` stands for what `HTTPServer` calls `Authenticate`, and
`Lifecycle` for the process around all of it.

### StoreCommon

A Go map, or the rows of a table by primary key, is a function whose domain is
the keys present. `Put` is `m[k] = v` or INSERT/UPDATE, `Without` is `delete` or
DELETE, `Overlay` is what a COMMIT does to the rows that were there. They are
plain function constructors, which TLC evaluates and the provers can reason
about. A title is a sequence of words, so that "empty" and "with the suffix
(branch)" are what they are in the code and nothing more is said of strings.

### InMemoryStore

The variables `conversations`, `messages`, `messageIndex` and `feedback` are the
maps of the struct; `clock` and `nextId` stand for `s.now` and `s.newID`. The clock
is that of the wall (`UTC()` strips Go's monotonic reading), so a reading may be
earlier than the one before (`ReadClock`). Each
writing method is one action, since the mutex is held from entry to return; its
guards are the early returns, and `ReadOrReject` is every call that fails or only
reads. The read methods are operators of the state (`ListConversations` is the
set of answers `sort.Slice`, which is not stable, may leave).

`CreateConversation` returns the pointer it has put in the map, and the handler
encodes the object after the unlock. So a create leaves a note in `unsent` and
`EncodeCreated` is an action of its own: between the two, other calls run.

History variables: `caller` (who made the last call) and `origin` (what each
branch was taken from) are read by properties only, and so is `setBack` (has the clock
ever been set back?).

Abstracted: a role is part of the content; creation times of conversations and
ratings and the comment of a rating are dropped, as nothing reads them back.

### PostgresStore

One action is one SQL statement or COMMIT. `pc[h]` is the statement handler `h`
runs next; `tx[h]` is what its transaction has written, invisible to others until it
commits. `conns` are the connections handed out, each with what its handler uses it
for: `"tx"`, the one of a transaction, on which `tx.Exec` and `tx.QueryRow` run, or
`"statement"`, one that `s.pool.Exec`, `Query` or `QueryRow` takes for itself.
`UsesTx` says which statement runs on which; were one of a transaction sent to the
pool, its handler would hold a connection and ask for a second. `GoOn` gives the
connection of a statement back and keeps that of a transaction. `Return` stands for
the answer together with the deferred `Rollback` and the release of what is held.

* READ COMMITTED: every statement reads the committed tables as they are when it
  runs. No statement reads rows its own transaction has written.
* Row locks: only an append holds row locks across statements; its INSERT share-locks
  the key of the conversation (foreign key) and its UPDATE locks the row. The
  guards on `KeySharers` and `Updaters`, the handlers that hold these locks, make a
  rename, a delete and another append wait for them.
  A deadlock that Postgres itself detects and breaks appears as `Cancel`.
* Failure: `Cancel` ends a request at any statement, with a rollback; a statement
  or COMMIT that wrote may be answered with an error although it was applied
  (`Applied`).
* There is no clock variable: processes on one database read clocks of their own, and
  any of them may be set back, so each reading is any of `Times`.
* The INSERTs of a branch, row by row in the code, are one action with the SELECT
  before them: nobody sees or blocks the rows before the COMMIT, and a failure
  between them is `Cancel`.

The content of an appended message is its own id, so that copies can be told from
originals. `promised` is a history variable: what a branch should hold and the title
of its source, noted when the source is found. `Threads`, `Posts` and `OwnRatings`
are what a caller knows of the committed rows; the contract is stated about them.

Abstracted: a request of a client comes with an id that was minted before (of any
kind, of any owner); an invalid rating is refused before any statement, as a
cancelled request is.

### Lifecycle

`main[p]` is where the main of process `p` is, `serve[p]` the goroutine in
`ListenAndServe`, `requests[p]` the clients it has not answered, `exit[p]` why its
last run ended and `lost[p]` the clients that end cut off; `schema` is what the
migrations of all processes have left in the database. A process may be started
again after any end.

* `End` is `os.Exit`, `log.Fatalf`, the return from main or a kill: nothing that was
  deferred runs, except `CloseStore` before `MainReturns`, which is the one clean way.
* `schemaSQL` is sent in one message without arguments, so it is one implicit
  transaction: `Migrate` looks for the tables, `MigrationCommits` commits them, and a
  process that lost the race for them fails (`MigrationClashes`). A signal, a kill
  or a lost connection leaves it committed or not (`Unanswered`).
* The two branches of the select in `Run` may both be ready. `ListenAndServe` may
  start after `Shutdown` was called, and then returns at once.

Abstracted: issuers (one stands for all), the kind of a request, idle connections.

### TenantStore

What a caller of `store.Store` may rely on: `threads` (conversations), `posts`
(messages) and `ratings`, and one atomic step per call of a subject on its own
rows. A deletion takes messages and ratings along. A message has a place, a number: its
index in the log of the in-memory store, its `created_at` in Postgres, where
messages may share one. A branch is a new conversation with copies of all messages
before the named one and of that one, of no later one, in their order, under new
ids and unrated; of messages in the place of the named one the contract leaves open
which are copied (see `postgres_branch_extra` for what Postgres does). It says
nothing of the times of conversations or of reads.

`NoOrphans`, `CallsAreSeparate` and `HistoryStays` are what a caller may conclude from
it. They are theorems (`TenantStoreProofs`) and no property of a run: the runs check
what the implementations do, under names of their own.

* `InMemoryStore` maps its maps to it; of feedback, only the owner's about a
  message that exists counts. It keeps the contract as it is (`TenantSpec`).
* `PostgresStore` maps its committed rows to it. Its calls are several statements,
  and the refinement says that this cannot be noticed in what is committed. One
  commit is excepted (`Overtaken`): that of a branch whose source has changed since
  it was found. If the source was deleted, the branch is committed although nobody
  has the source any more (`OrphanBranch`); if it was renamed, an unnamed branch is
  still called after the title that was found; if a message with an earlier time was
  committed into it meanwhile, the branch may lack that one.

### HTTPServer

`http[h]` is the request of handler `h` on its way: `auth`, `mux`, `body`, `store`,
`idle`. Each action is one stage, and chooses the part of the request it looks at
first: the token, the body and whether it is chunked, the id. `Answered` is
`WriteHeader` and the return from the handler; `Wrote` alone is a handler that
goes on, which no handler does but which the model could express.

* Authentication is `ClaimsOnlyVerifier` (`Verified`); a refusal is always possible
  and stands for whatever else a verifier objects to, a malformed token included.
* `setup.store` tells the two stores apart where their answers differ: Postgres may
  fail with 500 at any call, also after it has done the write, does not
  compare ids that are no UUIDs (`Junk`), and reads a renamed row back after it may
  have been deleted; the in-memory store still returns the rating of a message
  that is gone, to the subject that gave it (`leftovers`, `CallReadLeftover`).
* Bodies: only what a handler decodes can be malformed to it (`WithBody`, `Decoded`);
  the branch handler looks at a body only when its length is known and positive.
* History: `fresh` (had the token not expired when it was read?), `owned` and `done`.

Not in it: the branch overtaken by a deletion or a renaming of its source (see
`PostgresStore`), values of headers, redirects for paths that the mux cleans, a client that goes
away (no handler notices before its call of the store).

### OIDCVerifier

`call[h]` is a call of `Subject`: the issuers it has left to ask, the audience it
tries, and `parse`, `wait` (for the limiter) or `fetch` (for the key set).
`cache[i]` is the cached key set of issuer `i`, `permit[i]` its limiter,
`published[i]` and `retired[i]` what the issuer has done with its keys. A token is
a record of what the code looks at: its issuer claim (a name, with or without a
trailing slash), whose key signed it, key id, audiences, expiry, subject. Nothing is
assumed of tokens: any may claim any issuer, and the signer may be another issuer or
nobody that is configured.

The key set client, jwt and the issuers are libraries and services outside the
repository, modelled as this code uses them: a refresh replaces the cached set by
what is published at that moment; it fails, after a timeout at the latest; a wait
for the limiter may be refused. `excused` is history: whether a refresh was refused
to the call, or the key of its token was not published all the time (`VouchedFor`).

## 3. Runs

Run one with `tlc -config X.cfg M.tla` in this directory.

| Run | Configuration | Shows |
| --- | --- | --- |
| `inmemory` | `InMemoryStore.cfg` | `TypeOK`, `FeedbackByOwner`, `IndexMatchesLogs`, `BranchSharesHistory`, `SubjectsAreIsolated`, `KeepsContract`, `HistoryIsAppendOnly` |
| `postgres_isolation` | `PostgresIsolation.cfg` | `TypeOK`, `RowsBelongTogether`, `AnswersStayTrue`, `BranchLosesNothing`, `SubjectsAreIsolated`, `HistoryStays`, `KeepsContract` |
| `postgres_answers` | `PostgresAnswers.cfg` | `NoCircularWait`, `EveryRequestAnswered`, and no deadlock, with two connections for three handlers |
| `lifecycle` | `Lifecycle.cfg` | `TypeOK`, `RequestsFindServer`, `PoolOutlivesRequests`, `CleanExitLosesNothing`, `MigrationIsIdempotent`, `SignalEndsProcess` |
| `http` | `HTTPServer.cfg` | `TypeOK`, `HandlersHaveSubject`, `StatusTellsEffect`, `ForeignLooksMissing`, `OnlyBearersAct` |
| `oidc` | `OIDCVerifier.cfg` | `TypeOK`, `AcceptedIsGenuine`, `GenuineIsAccepted`, `CallsReturn`, `WithdrawnKeysAreDropped` |

Runs that end in a violation, each of something the repository says:

| Run | The repository says | What happens |
| --- | --- | --- |
| `inmemory_create_reply` | "thread-safe" (`store.go:106`) | the reply of a create is encoded while a rename or an append writes to the same object |
| `postgres_branch_extra` | up to and including the named message (`store.go:95`) | branching a branch copies the messages after the named one too, since all have one time |
| `postgres_branch_partial` | every message up to and including the named one (`store.go:95`); no partial branches (`postgres.go:266`) | the source is deleted between two statements; an empty branch is reported as a success |
| `postgres_branch_order` | the copies sort stably (`postgres.go:265`) | equal times: any order |
| `oidc_issuer_slash` | the token is validated against the matching issuer (`oidc.go:116`) | a token whose issuer ends in a slash matches one and is refused by it |
| `http_branch_body` | malformed JSON is rejected when a body is present (`server.go:331`) | a chunked body has length -1 and is not looked at: the branch is made |

Further divergences a reader should know of, which are steps of the models but no
run of their own:

* In memory, feedback on a deleted message is still returned to who gave it
  (`store.go:289`), though ownership is to be verified before rows are returned
  (`store.go:83`): `GetFeedback`, and `CallReadLeftover` in `HTTPServer`.
* A process that starts while Postgres refuses connections exits (`main.go:84`)
  and does not block on `/readyz` as `deploy.md:64` has it: `Unreachable` in
  `Lifecycle`.
* A delete between the two statements of `ListMessages` gives an empty list instead
  of `ErrNotFound` (`postgres.go:192`); a rename may be answered with the title of
  another rename, or with 404 though it was done (`postgres.go:126`); a branch without
  a title of its own is called after the title its source had before a rename that was
  committed earlier than the branch (`postgres.go:311`).
* In memory a log grows at its end only (`HistoryIsAppendOnly`). In Postgres it does not:
  `created_at` is read (`postgres.go:161`) before it is settled which of two appends
  commits first, and from a clock that may be set back, so a message may come to
  stand before ones that were already listed. What holds there is that nothing is taken away or rewritten (`HistoryStays`).
* When the clock is set back, an append in memory leaves `updatedAt` (`store.go:234`)
  before the times of earlier messages, and the conversation is listed too late;
  as long as it is not, `RecencyCoversLog` is proved.
* An id that is no UUID is a 500 with Postgres and a 404 in memory; an invalid
  rating is a 500 with both (`CallFails`).

Bounds. `MaxId` stops the in-memory store after six ids: a conversation with two
messages, a branch, and a branch of the branch take as many, and so do two
conversations of two subjects with a message or a branch each. Its clock stands
still in that run (`MaxTime = 0`): no property of it looks at times except through the
order of a listing, where equal times leave the order open. Subjects and contents are
interchangeable, hence the symmetry. In `postgres_isolation` two handlers serve up to
five requests (`MaxRequests`) in any interleaving of their statements: every pair of
methods meets at every pair of statements, on data that earlier requests have left.
`Times = {0, 1}` lets each reading of the clock be before, after or equal to any other.
`postgres_answers` has three handlers and two connections, so that one can wait for
a connection while the other two have both and one of them waits for a row of the
other; times do not matter there (`Times = {0}`), and four requests are a create and
one request for each handler. The branch runs need up to six requests and one or two handlers.
The runs of liveness properties use no symmetry. The lifecycle run has two
processes on one database, three starts between them, one outage and one client,
enough for two migrations to race, for a restart after each kind of end and for a
request to be under way at every step of a shutdown.
The HTTP run has one handler (two exceed what TLC can do in minutes): handlers share nothing but the store, whose calls are
single steps there, so what another handler would do between two stages of a request is
no more than what its earlier requests have done; `MaxId = 4` gives a conversation
with a message, a branch of it, or two conversations of two subjects, two times an
expiry, and one place is enough where a branch copies one message. The OIDC run has two
issuers that use the same key ids, two audiences, one rotation, and nine kinds of
token: good under the old and under the new key, and one for each thing that may be
wrong, among them tokens that claim to be from one issuer and are signed with the
key the other has under the same id, or by nobody; two calls compete for caches and
limiters.

Deadlock is checked in every passing run: `Quiescent` is the only step of a
Postgres instance that has served all its requests.

Fairness. `PostgresStore` assumes weak fairness of `Acquire` and `Statement` for
each handler: a free connection is given to a waiting handler (pgxpool queues
them) and Postgres runs a statement that waits for no lock. Weak fairness is
enough because the requests of an instance are bounded; with an endless stream of
appends a waiting delete would need the fairness of Postgres' lock queue. Clients
may do nothing, and nothing is assumed of `Begin` or `Cancel`. `Lifecycle` assumes weak
fairness of `MainStep`: what main does by itself or under a timeout (discovery has one
in its HTTP client, `Shutdown` in its context). Nothing is assumed of Postgres, of
handlers or of clients. `InMemoryStore` has
no fairness: a call is a single step. `OIDCVerifier` assumes weak fairness of what the
code and its libraries do for a call without an answer from the issuer (`OwnStep`: the
wait is bounded by a minute, the fetch by a timeout), which is why `CallsReturn`
needs no issuer that answers, and of the hourly `BackgroundRefresh`, whose requests
some issuer answers in the end. `HTTPServer` has no fairness: that handlers
end is the business of the stores and the verifier.

Definitions named `Bug...` are faulty variants of the definition after them. They
are not part of any behaviour; substituting one for its neighbour must make the
property listed under "mutants" fail.

## 4. Proofs

Every invariant and every action property of the passing runs is a theorem of the
specification it belongs to, for every value of its constants: any sets of subjects,
titles, contents, handlers, processes, issuers and tokens, any pool and any bounds.
The theorems rest on nothing but the named `ASSUME`s of the modules, which TLC
evaluates: bounds are natural numbers (the time bound of `HTTPServer` and
`OIDCVerifier` at least 1, the pool at least 1), titles are sequences of words, the
empty title can be asked for, nobody is no subject, an expiry is a natural number, the
clock of Postgres' callers reads integers, places in a conversation are natural numbers
to `HTTPServer`, and there is at least one issuer. The fairness in the specifications is
not used.

Each proof has the same layout: an inductive invariant made of named parts; a lemma
for each action that says what it does to each part; a lemma that puts the actions
of `Next` together; and a last step in temporal logic.

**`InMemoryStoreProofs`.** `TypeCorrect` is inductive as it stands. `IndexCorrect`
(the index and the logs agree) is not: an append whose id were in use would break
it, so `IndexInv` adds `FreshIds`, every id in use is below `nextId`. Append and
branch are both instances of `GrowIndex`, a log that grows by fresh ids.
`FeedbackCorrect` needs more, as feedback outlives its message: that no later message
gets its id (`RatedIds`), that the index never moves a message, that no step changes
an owner (`OwnersStay`). `HistoryCorrect` follows from `OwnersStay` and `LogsGrow`.

**`InMemoryContractProofs`.** `RecencyCorrect` says that times agree with the order of
a log as long as the clock has not been set back; it adds to the invariant that no
conversation is ahead of such a clock (`NotAhead`), as an append puts the time of the
clock at the end of a log. No run checks it. `BranchCorrect` (branch and source share their history)
uses that logs only grow at the end, and that neither id will ever go to another
conversation (`OriginIds`). `IsolationCorrect`: each call leaves alone the rows of all other subjects (`LeavesAlone`), and a subject's
observations are a function of its rows. `ContractCorrect`: each action, under the
refinement mapping, is the call of `TenantStore` of the same name. The mapping reads
a message through the index (`Entry`), so the lemmas `EntryFound` and `EntryUnique`
say that the index finds the one entry of the log; and it drops feedback on messages
that are gone, so `RatingsStay` needs that new messages have no old ratings.

**`PostgresStoreProofs`.** The invariant `PgInv` says, for each handler and each
statement it may be at, what it may still rely on while all others run between its
statements (`HandlerOK`: `Inserting`, `Touching`, `Rating`, `Copying`, ...). The
notion that carries it is `Settled`: the id of a conversation that is gone and that
no open transaction is about to commit, so that it never comes back. Together with
the row locks it is what makes a check made in one statement good for the next.
The proof is by rely and guarantee: `Evolves` says what the statement of one handler
may do to the rows; each action is shown to do no more, and `HandlerOK` of every
other handler is shown to survive it. From `PgInv`: `TypeCorrect`,
`BelongCorrect` (no orphans), `AnswersCorrect` (what was answered stays true) and
`BranchCorrect` (a branch loses nothing while its source is there).

`WaitsCorrect` says that no group of handlers can wait in a circle. `WaitInv` adds
`Connected` to `PgInv`: a handler has at most the connection its statement runs on, and
one inside a transaction has it.
So waits only go upwards: who waits for a connection waits for those that have one;
who has one may wait for the row locks of an append that has inserted or updated
(`LocksAreOfAppends`); an append that has inserted may wait for one that has updated; and
that one has its connection and its locks and waits for nobody. In every group a
handler of the highest kind present waits for none of the group. This needs the order
in which the code takes its locks (INSERT before UPDATE, one row only), that an UPDATE
does not wait for shared keys, and that no transaction asks for a second connection.

**`PostgresContractProofs`.** Every step leaves the tables as they are or has one of
six effects on behalf of the subject its handler serves (`Effect`, `StepEffect`).
Five follow from `PgInv`; for the commit of a branch the invariant also has to know
its title and which messages it copies (`BranchesSourced` with `FaithfulCopy`:
every row copies a message of the source, no message twice, all that were due and none
later than the named one, in order, as long as the source is there; `CopyStays` says
that no step of another handler disturbs this). An effect touches no row of another subject,
hence `IsolationCorrect`, and is one call of the contract, hence `ContractCorrect`.
The exception `Overtaken` comes up in the proof where it does in the code: the title,
the messages and the existence of the source are those of an earlier statement. `HistoryCorrect`
follows from the rows a step may change (`RowsEvolve`), the feedback included, and
from fresh ids.

**`TenantStoreProofs`.** What the contract alone guarantees, whatever store keeps it:
`OrphansCorrect`, `SeparateCorrect` (the rows of a subject change by its own calls only)
and `HistoryCorrect`. Each call has a lemma on what it does to all rows (`...Keeps`) and
one on the rows of the others (`...Apart`). The proofs of the server cite them.

**`HTTPServerProofs`.** `ServerInv` says of every request, by its stage, what the
stages before have established: no row is written before the answer, and nothing gets
past `auth` without a token of its subject that was fresh when read, except what
`Bypasses` authentication, which no handler of the API serves (`NoBypass`).
`TypeCorrect`, `SubjectsCorrect`, `StatusCorrect` and `MissingCorrect` are parts of it, and
so is `BodiesCorrect`: a malformed body leads to a success only of a branch whose body
is chunked (`OnlyChunkedBranches`), so `http_branch_body` shows the only such case. `TenantCorrect` says that the server implements `TenantSpec`: only a
request at `store` changes rows, there `Vouched` holds, and what it does is a call of the
contract for its subject (`WriteServes`). So what `TenantStoreProofs` shows of any
store holds under any traffic. `BearersCorrect` goes
further: the call is that of a request whose token was fresh.

**`OIDCVerifierProofs`.** `AcceptedCorrect` and `GenuineCorrect` are about verdicts,
which the tries before them lead up to, so `VerifierInv` follows a call: a cached
key was published by its issuer (`CachesAreGenuine`), a token that names an issuer
exactly is checked by that one only (`Matched`), and its own issuer has failed
to accept it so far only for a reason (`Failed`, `Current`): a refused refresh, a key
that was not published throughout, the expiry, or the audience.

**`LifecycleProofs`.** `LifeInv` relates where main is to what has happened: requests
are under way only before `Run` returns, the pool is open from the migration to the
end of `Run`, a verifier exists before anything is served, and tables do not go away,
so that a migration that found none belongs to a process started before there were
any. From it: `TypeCorrect`, `RequestsCorrect`, `PoolCorrect`, `ExitCorrect`,
`MigrationCorrect`.

Only model-checked: the liveness properties (`EveryRequestAnswered`,
`SignalEndsProcess`, `CallsReturn`, `WithdrawnKeysAreDropped`), since fairness and
ENABLED are out of the provers' reach; the six violations, which are counterexamples;
and TLC's own deadlock check. That no handlers of the Postgres store wait for each other
is proved (`WaitsCorrect`); that whoever need not wait does get on is not.

## 5. What could come next

* The guarantees of `TenantStoreProofs` stated of `InMemoryStore` and `PostgresStore`
  through their refinement mappings. Today each store proves its own form of them
  (`IndexCorrect`, `BelongCorrect`, `IsolationCorrect`, `HistoryCorrect`), which say
  more, as they see times, order and rows that are not shown.
* Reads in the contract, which says nothing of them: what `ListMessages` may answer
  next to a delete, and the ratings of deleted messages in memory.
* The schemas and argument checks of the MCP tools, once there is a data plane behind
  them.

## 6. Not modelled

The MCP schemas (constants), the tools behind `mcp.Tools` (stubs without state),
the static verifier (for tests), the build, compose and deploy scripts, and the
network and TLS below HTTP. Postgres, pgx and the issuers are external: they are
modelled as far as this code relies on them.
