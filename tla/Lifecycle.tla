------------------------------ MODULE Lifecycle ------------------------------
(***************************************************************************)
(* The life of private-rag processes that share one database: main         *)
(* (cmd/private-rag/main.go), NewPostgresStore and migrate                 *)
(* (internal/store/postgres.go), NewOIDCVerifier as far as it may stop the *)
(* start (internal/server/oidc.go) and Run (internal/server/server.go).    *)
(*                                                                         *)
(* One action is one step of main, of the goroutine in ListenAndServe, of  *)
(* a client, of Postgres or of the operator (a signal, a kill, a restart). *)
(* A process that has ended may be started again, with the same schema.    *)
(*                                                                         *)
(* Abstracted: the schema is one flag, since schemaSQL is sent without     *)
(* arguments and so runs as a single implicit transaction; all issuers of  *)
(* a verifier are one; a connection with an unanswered request stands for  *)
(* all that Shutdown waits for; timers are steps that may happen any time. *)
(***************************************************************************)
EXTENDS Naturals

CONSTANTS
  Processes,   \* places a process runs in
  Clients,     \* each has at most one request under way at a process
  MaxStarts,   \* bound: starts of a process, all places together
  MaxOutages   \* bound: times Postgres stops accepting connections

ASSUME LifecycleAssumption == MaxStarts \in Nat /\ MaxOutages \in Nat

VARIABLES
  main,       \* process -> where main is
  config,     \* process -> the store and the verifier its flags ask for
  signalled,  \* process -> is the context of main cancelled?
  pool,       \* process -> its connection pool
  absent,     \* process -> did its migration find no tables?
  serve,      \* process -> the goroutine in ListenAndServe
  requests,   \* process -> clients with an unanswered request
  exit,       \* process -> why its last run ended
  lost,       \* process -> clients whose request that end cut off
  schema,     \* is the schema in the database?
  accepting,  \* does Postgres accept connections?
  starts,     \* number of starts so far
  outages,    \* number of outages so far
  found       \* history: process -> was the schema there when it started?

database == <<schema, accepting, outages>>
vars == <<main, config, signalled, pool, absent, serve, requests, exit, lost,
          database, starts, found>>

Kinds == [store : {"postgres", "memory"}, verifier : {"oidc", "claims", "none"}]

(* store:    NewPostgresStore before the migration runs, or the in-memory  *)
(*           store                                                         *)
(* migrate:  schemaSQL runs, not committed                                 *)
(* verifier: the switch that builds the verifier                           *)
(* run:      in the select of Run                                          *)
(* shutdown: in srv.Shutdown                                               *)
(* close:    Run has returned nil, the deferred Closes are next            *)
(* return:   they are done                                                 *)
Places == {"ended", "store", "migrate", "verifier", "run", "shutdown", "close", "return"}

Exits == {"none", "ok", "cancelled", "unreachable", "database", "duplicate",
          "refused", "issuer", "listen", "timeout", "killed"}

Alive(p) == main[p] # "ended"
UsesPostgres(p) == config[p].store = "postgres"

Init ==
  /\ main = [p \in Processes |-> "ended"]
  /\ config \in [Processes -> {[store |-> "memory", verifier |-> "none"]}]
  /\ signalled = [p \in Processes |-> FALSE]
  /\ pool = [p \in Processes |-> "none"]
  /\ absent = [p \in Processes |-> FALSE]
  /\ serve = [p \in Processes |-> "none"]
  /\ requests = [p \in Processes |-> {}]
  /\ exit = [p \in Processes |-> "none"]
  /\ lost = [p \in Processes |-> {}]
  /\ schema = FALSE
  /\ accepting \in BOOLEAN
  /\ starts = 0
  /\ outages = 0
  /\ found = [p \in Processes |-> FALSE]
-----------------------------------------------------------------------------
(* The process ends, by os.Exit, by a return from main or by a kill, and   *)
(* with it whatever it still did: after log.Fatalf no deferred Close runs. *)
End(p, why) ==
  /\ main' = [main EXCEPT ![p] = "ended"]
  /\ exit' = [exit EXCEPT ![p] = why]
  /\ lost' = [lost EXCEPT ![p] = requests[p]]
  /\ requests' = [requests EXCEPT ![p] = {}]
  /\ serve' = [serve EXCEPT ![p] = "none"]
  /\ pool' = [pool EXCEPT ![p] = "none"]
  /\ UNCHANGED <<config, signalled, absent, starts, found>>

(* main goes from one place to the next and nothing but pool changes with  *)
(* it, or serve.                                                           *)
Advance(p, from, to) ==
  /\ main[p] = from
  /\ main' = [main EXCEPT ![p] = to]
  /\ UNCHANGED <<config, signalled, requests, exit, lost, starts, found>>

(* The flags are parsed and the context that a signal cancels is made.     *)
Start(p, kinds) ==
  /\ ~Alive(p)
  /\ starts < MaxStarts
  /\ starts' = starts + 1
  /\ main' = [main EXCEPT ![p] = "store"]
  /\ config' = [config EXCEPT ![p] = kinds]
  /\ signalled' = [signalled EXCEPT ![p] = FALSE]
  /\ exit' = [exit EXCEPT ![p] = "none"]
  /\ lost' = [lost EXCEPT ![p] = {}]
  /\ found' = [found EXCEPT ![p] = schema]
  /\ UNCHANGED <<pool, absent, serve, requests, database>>

(* --db-url is empty.                                                      *)
OpenMemory(p) ==
  /\ ~UsesPostgres(p)
  /\ Advance(p, "store", "verifier")
  /\ UNCHANGED <<pool, absent, serve, database>>

(* CREATE ... IF NOT EXISTS: does the statement find no tables?            *)
BugCreatesAlways == TRUE   \* CREATE without IF NOT EXISTS
FindsNoTables == ~schema

(* The pool is there and pool.Exec has a connection: schemaSQL looks for   *)
(* the tables and creates what it does not find.                           *)
Migrate(p) ==
  /\ UsesPostgres(p)
  /\ accepting
  /\ Advance(p, "store", "migrate")
  /\ pool' = [pool EXCEPT ![p] = "open"]
  /\ absent' = [absent EXCEPT ![p] = FindsNoTables]
  /\ UNCHANGED <<serve, database>>

(* It can only commit the tables if nobody else has in the meantime.       *)
Clashes(p) == absent[p] /\ schema

MigrationCommits(p) ==
  /\ ~Clashes(p)
  /\ Advance(p, "migrate", "verifier")
  /\ schema' = TRUE
  /\ UNCHANGED <<pool, absent, serve, accepting, outages>>

(* Two sessions create the same table: the second to commit fails with a   *)
(* unique violation in the catalog, IF NOT EXISTS or not.                  *)
MigrationClashes(p) ==
  /\ main[p] = "migrate"
  /\ Clashes(p)
  /\ End(p, "duplicate")
  /\ UNCHANGED database

(* An unreachable database ends the process at once: nothing is retried.   *)
BugUnreachable(p) ==   \* the error of migrate is dropped
  /\ UsesPostgres(p)
  /\ ~accepting
  /\ Advance(p, "store", "verifier")
  /\ pool' = [pool EXCEPT ![p] = "open"]
  /\ UNCHANGED <<absent, serve, database>>

Unreachable(p) ==
  /\ main[p] = "store"
  /\ UsesPostgres(p)
  /\ ~accepting
  /\ End(p, "unreachable")
  /\ UNCHANGED database

(* The migration gets no answer, and has committed or not.                 *)
Unanswered(p) ==
  /\ schema' \in (IF main[p] = "store" \/ Clashes(p) THEN {schema} ELSE {schema, TRUE})
  /\ UNCHANGED <<accepting, outages>>

(* The DSN is bad, a statement of the schema is refused, or the connection *)
(* breaks.                                                                 *)
MigrationFails(p) ==
  /\ main[p] \in {"store", "migrate"}
  /\ UsesPostgres(p)
  /\ Unanswered(p)
  /\ End(p, "database")

(* The context of NewPostgresStore is the one a signal cancels.            *)
MigrationCancelled(p) ==
  /\ main[p] \in {"store", "migrate"}
  /\ UsesPostgres(p)
  /\ signalled[p]
  /\ Unanswered(p)
  /\ End(p, "cancelled")
-----------------------------------------------------------------------------
(* Discovery does not use the context of main but a client with a timeout  *)
(* of its own, so a signal does not end it.  One issuer that fails is      *)
(* enough; that the rest is closed first is lost in the exit.              *)
IssuerFails(p) ==
  /\ main[p] = "verifier"
  /\ config[p].verifier = "oidc"
  /\ End(p, "issuer")
  /\ UNCHANGED database

HasVerifier(p) == config[p].verifier # "none"

(* os.Exit(2), after the store has been opened and migrated.               *)
RefuseToStart(p) ==
  /\ main[p] = "verifier"
  /\ ~HasVerifier(p)
  /\ End(p, "refused")
  /\ UNCHANGED database

EnterRun(p) ==
  /\ HasVerifier(p)
  /\ Advance(p, "verifier", "run")
  /\ serve' = [serve EXCEPT ![p] = "starting"]
  /\ UNCHANGED <<pool, absent, database>>

(* ListenAndServe binds, unless Shutdown came first.                       *)
Listen(p) ==
  /\ serve[p] = "starting"
  /\ serve' = [serve EXCEPT ![p] = IF main[p] = "run" THEN "listening" ELSE "closed"]
  /\ UNCHANGED <<main, config, signalled, pool, absent, requests, exit, lost,
                 database, starts, found>>

(* The address is taken, or Accept fails for good.                         *)
ListenFails(p) ==
  /\ main[p] = "run"
  /\ serve[p] \in {"starting", "listening"}
  /\ serve' = [serve EXCEPT ![p] = "failed"]
  /\ UNCHANGED <<main, config, signalled, pool, absent, requests, exit, lost,
                 database, starts, found>>

(* The two branches of the select in Run: both may be ready.               *)
RunFails(p) ==
  /\ main[p] = "run"
  /\ serve[p] = "failed"
  /\ End(p, "listen")
  /\ UNCHANGED database

BeginShutdown(p) ==
  /\ signalled[p]
  /\ Advance(p, "run", "shutdown")
  /\ serve' = [serve EXCEPT ![p] = IF @ = "listening" THEN "closed" ELSE @]
  /\ UNCHANGED <<pool, absent, database>>

BugDoesNotWait(p) == TRUE   \* srv.Close in place of srv.Shutdown
Drained(p) == requests[p] = {}

ShutdownReturns(p) ==
  /\ Drained(p)
  /\ Advance(p, "shutdown", "close")
  /\ UNCHANGED <<pool, absent, serve, database>>

BugNoTimeout(p) == main[p] = "shutdown" /\ Drained(p)   \* context.Background()
MayTimeOut(p) == main[p] = "shutdown"

(* shutdownTimeout is over: Run returns an error, and main is Fatalf.      *)
BugTimeoutIsNil == "ok"        \* the error of Shutdown is dropped
BugTimeoutPanics == "panic"    \* it is not, but main does not handle it
TimeoutExit == "timeout"

ShutdownTimesOut(p) ==
  /\ MayTimeOut(p)
  /\ End(p, TimeoutExit)
  /\ UNCHANGED database

(* The deferred v.Close and pg.Close, which waits for the connections.     *)
CloseStore(p) ==
  /\ Advance(p, "close", "return")
  /\ pool' = [pool EXCEPT ![p] = IF UsesPostgres(p) THEN "closed" ELSE "none"]
  /\ UNCHANGED <<absent, serve, database>>

MainReturns(p) ==
  /\ main[p] = "return"
  /\ End(p, "ok")
  /\ UNCHANGED database
-----------------------------------------------------------------------------
Accept(p, c) ==
  /\ serve[p] = "listening"
  /\ c \notin requests[p]
  /\ requests' = [requests EXCEPT ![p] = @ \cup {c}]
  /\ UNCHANGED <<main, config, signalled, pool, absent, serve, exit, lost,
                 database, starts, found>>

(* A handler answers; a signal does not cancel the context of a request.   *)
Answer(p, c) ==
  /\ c \in requests[p]
  /\ requests' = [requests EXCEPT ![p] = @ \ {c}]
  /\ UNCHANGED <<main, config, signalled, pool, absent, serve, exit, lost,
                 database, starts, found>>

(* SIGINT or SIGTERM.  Another one changes nothing: it is still caught.    *)
Signal(p) ==
  /\ Alive(p)
  /\ ~signalled[p]
  /\ signalled' = [signalled EXCEPT ![p] = TRUE]
  /\ UNCHANGED <<main, config, pool, absent, serve, requests, exit, lost,
                 database, starts, found>>

Kill(p) ==
  /\ Alive(p)
  /\ IF main[p] = "migrate" THEN Unanswered(p) ELSE UNCHANGED database
  /\ End(p, "killed")

DatabaseStops ==
  /\ accepting
  /\ outages < MaxOutages
  /\ accepting' = FALSE
  /\ outages' = outages + 1
  /\ UNCHANGED <<main, config, signalled, pool, absent, serve, requests, exit,
                 lost, schema, starts, found>>

DatabaseStarts ==
  /\ ~accepting
  /\ accepting' = TRUE
  /\ UNCHANGED <<main, config, signalled, pool, absent, serve, requests, exit,
                 lost, schema, outages, starts, found>>

(* What main does without waiting for anybody else, or with a timeout.     *)
MainStep(p) ==
  \/ OpenMemory(p) \/ MigrationCancelled(p)
  \/ IssuerFails(p) \/ RefuseToStart(p) \/ EnterRun(p)
  \/ RunFails(p) \/ BeginShutdown(p)
  \/ ShutdownReturns(p) \/ ShutdownTimesOut(p)
  \/ CloseStore(p) \/ MainReturns(p)

(* What takes Postgres.                                                    *)
MigrationStep(p) ==
  \/ Migrate(p) \/ MigrationCommits(p) \/ MigrationClashes(p)
  \/ Unreachable(p) \/ MigrationFails(p)

Environment(p) ==
  \/ \E kinds \in Kinds : Start(p, kinds)
  \/ Listen(p) \/ ListenFails(p)
  \/ \E c \in Clients : Accept(p, c) \/ Answer(p, c)
  \/ Signal(p) \/ Kill(p)

(* All starts are used up.                                                 *)
Quiescent ==
  /\ starts = MaxStarts
  /\ \A p \in Processes : ~Alive(p)
  /\ UNCHANGED vars

Next ==
  \/ \E p \in Processes : MainStep(p) \/ MigrationStep(p) \/ Environment(p)
  \/ DatabaseStops \/ DatabaseStarts
  \/ Quiescent

(* main is scheduled and timers fire.  Nothing is assumed of Postgres, of  *)
(* handlers, of clients or of the operator.                                *)
Fairness == \A p \in Processes : WF_vars(MainStep(p))

Spec == Init /\ [][Next]_vars /\ Fairness
-----------------------------------------------------------------------------
(* Every variable has its type; in particular a process ends only in the   *)
(* ways main has.                                                          *)
TypeOK ==
  /\ main \in [Processes -> Places]
  /\ config \in [Processes -> Kinds]
  /\ signalled \in [Processes -> BOOLEAN]
  /\ pool \in [Processes -> {"none", "open", "closed"}]
  /\ absent \in [Processes -> BOOLEAN]
  /\ serve \in [Processes -> {"none", "starting", "listening", "failed", "closed"}]
  /\ requests \in [Processes -> SUBSET Clients]
  /\ exit \in [Processes -> Exits]
  /\ lost \in [Processes -> SUBSET Clients]
  /\ schema \in BOOLEAN /\ accepting \in BOOLEAN
  /\ starts \in 0 .. MaxStarts /\ outages \in 0 .. MaxOutages
  /\ found \in [Processes -> BOOLEAN]

(* No request reaches a process that has no verifier or, with Postgres,    *)
(* before the tables are there, whoever has created them.                  *)
RequestsFindServer ==
  \A p \in Processes : requests[p] # {} =>
    /\ config[p].verifier # "none"
    /\ UsesPostgres(p) => schema

(* No handler ever calls a closed pool: main closes it on its way out, and *)
(* handlers run until Shutdown has waited for them.                        *)
PoolOutlivesRequests ==
  \A p \in Processes : requests[p] # {} /\ UsesPostgres(p) => pool[p] = "open"

(* A process that exits with status 0 has answered every request it took.  *)
CleanExitLosesNothing ==
  \A p \in Processes : exit[p] = "ok" => lost[p] = {}

(* "Creates the schema if missing. Idempotent": after any crash or restart *)
(* no start fails on a schema that was there before it.                    *)
MigrationIsIdempotent ==
  \A p \in Processes : exit[p] = "duplicate" => ~found[p]

(* A signal ends the process, wherever main is and whatever Postgres, its  *)
(* handlers and its clients do.                                            *)
SignalEndsProcess == \A p \in Processes : signalled[p] ~> ~Alive(p)
=============================================================================
