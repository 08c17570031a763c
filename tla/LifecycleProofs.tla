--------------------------- MODULE LifecycleProofs ---------------------------
(***************************************************************************)
(* Theorems about Lifecycle for any number of processes and clients and    *)
(* any bounds.                                                             *)
(***************************************************************************)
EXTENDS Lifecycle, TLAPS

(***************************************************************************)
(* The inductive invariant: where main is tells what has happened so far.  *)
(***************************************************************************)

(* Requests are under way only while Run has not returned ...              *)
RequestsDuringRun ==
  \A p \in Processes : requests[p] # {} => main[p] \in {"run", "shutdown"}

(* ... and new ones come only as long as it waits in its select.           *)
ListensInRun ==
  \A p \in Processes : serve[p] = "listening" => main[p] = "run"

(* The pool is made before the migration and closed after Run; the tables  *)
(* are there once main has gone on from it.                                *)
PostgresIsReady ==
  \A p \in Processes : UsesPostgres(p) =>
    /\ main[p] \in {"migrate", "verifier", "run", "shutdown", "close"} => pool[p] = "open"
    /\ main[p] \in {"verifier", "run", "shutdown", "close", "return"} => schema

(* Nothing is served without a verifier.                                   *)
VerifierIsSet ==
  \A p \in Processes : main[p] \in {"run", "shutdown", "close", "return"} => HasVerifier(p)

(* The tables do not go away, so a migration that has found none belongs   *)
(* to a process that was started before there were any.                    *)
TablesStay ==
  \A p \in Processes :
    /\ found[p] => schema
    /\ main[p] = "migrate" /\ absent[p] => ~found[p]

LifeInv ==
  /\ TypeOK
  /\ RequestsDuringRun /\ ListensInRun /\ PostgresIsReady /\ VerifierIsSet /\ TablesStay
  /\ CleanExitLosesNothing /\ MigrationIsIdempotent
-----------------------------------------------------------------------------
(* The invariant holds before any process runs.                            *)
LEMMA InitLife == Init => LifeInv
<1>. SUFFICES ASSUME Init PROVE LifeInv
  OBVIOUS
<1>1. TypeOK
  <2>1. config \in [Processes -> Kinds]
    BY DEF Init, Kinds
  <2>2. starts \in 0 .. MaxStarts /\ outages \in 0 .. MaxOutages
    BY LifecycleAssumption DEF Init
  <2>. QED BY <2>1, <2>2 DEF Init, TypeOK, Places, Exits
<1>2. RequestsDuringRun /\ ListensInRun /\ PostgresIsReady /\ VerifierIsSet
  BY DEF Init, RequestsDuringRun, ListensInRun, PostgresIsReady, VerifierIsSet
<1>3. TablesStay /\ CleanExitLosesNothing /\ MigrationIsIdempotent
  BY DEF Init, TablesStay, CleanExitLosesNothing, MigrationIsIdempotent
<1>. QED BY <1>1, <1>2, <1>3 DEF LifeInv

(* Most steps of main may be its end.  Whatever it leaves in the database, *)
(* the tables do not go; only an exit with status 0 needs that no request  *)
(* is under way, and only a clash that there were no tables at the start.  *)
LEMMA EndLife ==
  ASSUME LifeInv, NEW p \in Processes, NEW why \in Exits, End(p, why),
         schema' \in {schema, TRUE}, UNCHANGED <<accepting, outages>>,
         why = "ok" => requests[p] = {},
         why = "duplicate" => ~found[p]
  PROVE  LifeInv'
<1>. USE DEF LifeInv, End
<1>1. TypeOK'
  BY DEF TypeOK, Places
<1>2. RequestsDuringRun' /\ ListensInRun' /\ VerifierIsSet'
  BY DEF TypeOK, RequestsDuringRun, ListensInRun, VerifierIsSet, HasVerifier
<1>3. PostgresIsReady' /\ TablesStay'
  BY DEF TypeOK, PostgresIsReady, UsesPostgres, TablesStay
<1>4. CleanExitLosesNothing' /\ MigrationIsIdempotent'
  BY DEF TypeOK, CleanExitLosesNothing, MigrationIsIdempotent
<1>. QED BY <1>1, <1>2, <1>3, <1>4

(* A step of main, or of the goroutine in ListenAndServe, that ends        *)
(* nothing and takes no request.                                           *)
Moves(p) ==
  /\ TypeOK'
  /\ UNCHANGED <<config, requests, exit, lost, found>>
  /\ \A q \in Processes \ {p} :
       main'[q] = main[q] /\ pool'[q] = pool[q] /\ serve'[q] = serve[q] /\ absent'[q] = absent[q]

(* What a step of one process must respect, for all of the invariant to    *)
(* survive it.                                                             *)
LEMMA MoveLife ==
  ASSUME LifeInv, NEW p \in Processes, Moves(p), schema' \in {schema, TRUE},
         requests[p] # {} => main'[p] \in {"run", "shutdown"},
         serve'[p] = "listening" => main'[p] = "run",
         UsesPostgres(p) =>
           /\ main'[p] \in {"migrate", "verifier", "run", "shutdown", "close"} => pool'[p] = "open"
           /\ main'[p] \in {"verifier", "run", "shutdown", "close", "return"} => schema',
         main'[p] \in {"run", "shutdown", "close", "return"} => HasVerifier(p),
         main'[p] = "migrate" /\ absent'[p] => ~found[p]
  PROVE  LifeInv'
<1>. USE DEF LifeInv, Moves
<1>1. RequestsDuringRun' /\ ListensInRun' /\ VerifierIsSet'
  BY DEF RequestsDuringRun, ListensInRun, VerifierIsSet, HasVerifier
<1>2. PostgresIsReady'
  BY DEF PostgresIsReady, UsesPostgres, TypeOK
<1>3. TablesStay'
  BY DEF TablesStay, TypeOK
<1>4. CleanExitLosesNothing' /\ MigrationIsIdempotent'
  BY DEF CleanExitLosesNothing, MigrationIsIdempotent
<1>. QED BY <1>1, <1>2, <1>3, <1>4

(* What a start resets, and what it finds.                                 *)
LEMMA StartLife ==
  ASSUME LifeInv, NEW p \in Processes, NEW kinds \in Kinds, Start(p, kinds)
  PROVE  LifeInv'
<1>. USE DEF LifeInv, Start, Alive, database
<1>1. TypeOK'
  BY LifecycleAssumption DEF TypeOK, Places, Exits
<1>2. RequestsDuringRun' /\ ListensInRun' /\ VerifierIsSet'
  BY DEF TypeOK, RequestsDuringRun, ListensInRun, VerifierIsSet, HasVerifier
<1>3. PostgresIsReady' /\ TablesStay'
  BY DEF TypeOK, PostgresIsReady, UsesPostgres, TablesStay
<1>4. CleanExitLosesNothing' /\ MigrationIsIdempotent'
  BY DEF TypeOK, CleanExitLosesNothing, MigrationIsIdempotent
<1>. QED BY <1>1, <1>2, <1>3, <1>4

(* The steps of main.                                                      *)
LEMMA MainStepLife ==
  ASSUME LifeInv, NEW p \in Processes, MainStep(p) PROVE LifeInv'
<1>. USE DEF LifeInv
<1>1. CASE OpenMemory(p)
  <2>1. Moves(p)
    BY <1>1 DEF OpenMemory, Advance, database, Moves, TypeOK, Places
  <2>2. main[p] = "store" /\ main'[p] = "verifier" /\ ~UsesPostgres(p) /\ UNCHANGED <<serve, schema>>
    BY <1>1 DEF OpenMemory, Advance, database, TypeOK
  <2>. QED BY <2>1, <2>2, MoveLife DEF RequestsDuringRun, ListensInRun
<1>2. CASE MigrationCancelled(p)
  BY <1>2, EndLife DEF MigrationCancelled, Unanswered, Exits
<1>3. CASE IssuerFails(p)
  BY <1>3, EndLife DEF IssuerFails, database, Exits
<1>4. CASE RefuseToStart(p)
  BY <1>4, EndLife DEF RefuseToStart, database, Exits
<1>5. CASE EnterRun(p)
  <2>1. Moves(p)
    BY <1>5 DEF EnterRun, Advance, database, Moves, TypeOK, Places
  <2>2. /\ main[p] = "verifier" /\ main'[p] = "run" /\ HasVerifier(p)
        /\ UNCHANGED <<pool, schema>>
    BY <1>5 DEF EnterRun, Advance, database, TypeOK
  <2>. QED BY <2>1, <2>2, MoveLife DEF PostgresIsReady
<1>6. CASE RunFails(p)
  BY <1>6, EndLife DEF RunFails, database, Exits
<1>7. CASE BeginShutdown(p)
  <2>1. Moves(p)
    BY <1>7 DEF BeginShutdown, Advance, database, Moves, TypeOK, Places
  <2>2. /\ main[p] = "run" /\ main'[p] = "shutdown" /\ serve'[p] # "listening"
        /\ UNCHANGED <<pool, schema>>
    BY <1>7 DEF BeginShutdown, Advance, database, TypeOK
  <2>. QED BY <2>1, <2>2, MoveLife DEF PostgresIsReady, VerifierIsSet
<1>8. CASE ShutdownReturns(p)
  <2>1. Moves(p)
    BY <1>8 DEF ShutdownReturns, Advance, database, Moves, TypeOK, Places
  <2>2. /\ main[p] = "shutdown" /\ main'[p] = "close" /\ requests[p] = {}
        /\ UNCHANGED <<pool, serve, schema>>
    BY <1>8 DEF ShutdownReturns, Drained, Advance, database, TypeOK
  <2>. QED BY <2>1, <2>2, MoveLife DEF PostgresIsReady, VerifierIsSet, ListensInRun
<1>9. CASE ShutdownTimesOut(p)
  BY <1>9, EndLife DEF ShutdownTimesOut, TimeoutExit, database, Exits
<1>10. CASE CloseStore(p)
  <2>1. Moves(p)
    BY <1>10 DEF CloseStore, Advance, database, Moves, TypeOK, Places
  <2>2. main[p] = "close" /\ main'[p] = "return" /\ UNCHANGED <<serve, schema>>
    BY <1>10 DEF CloseStore, Advance, database, TypeOK
  <2>. QED BY <2>1, <2>2, MoveLife
           DEF PostgresIsReady, VerifierIsSet, ListensInRun, RequestsDuringRun
<1>11. CASE MainReturns(p)
  <2>1. requests[p] = {}
    BY <1>11 DEF MainReturns, RequestsDuringRun
  <2>. QED BY <1>11, <2>1, EndLife DEF MainReturns, database, Exits
<1>. QED BY <1>1, <1>2, <1>3, <1>4, <1>5, <1>6, <1>7, <1>8, <1>9, <1>10, <1>11 DEF MainStep

(* The steps of the migration.                                             *)
LEMMA MigrationStepLife ==
  ASSUME LifeInv, NEW p \in Processes, MigrationStep(p) PROVE LifeInv'
<1>. USE DEF LifeInv
<1>1. CASE Migrate(p)
  <2>1. Moves(p)
    BY <1>1 DEF Migrate, FindsNoTables, Advance, database, Moves, TypeOK, Places
  <2>2. /\ main[p] = "store" /\ main'[p] = "migrate" /\ pool'[p] = "open"
        /\ absent'[p] = ~schema /\ UNCHANGED <<serve, schema>>
    BY <1>1 DEF Migrate, FindsNoTables, Advance, database, TypeOK
  <2>. QED BY <2>1, <2>2, MoveLife DEF RequestsDuringRun, ListensInRun, TablesStay
<1>2. CASE MigrationCommits(p)
  <2>1. Moves(p)
    BY <1>2 DEF MigrationCommits, Advance, Moves, TypeOK, Places
  <2>2. /\ main[p] = "migrate" /\ main'[p] = "verifier" /\ schema' = TRUE
        /\ UNCHANGED <<pool, serve>>
    BY <1>2 DEF MigrationCommits, Advance, TypeOK
  <2>. QED BY <2>1, <2>2, MoveLife DEF RequestsDuringRun, ListensInRun, PostgresIsReady
<1>3. CASE MigrationClashes(p)
  <2>1. ~found[p]
    BY <1>3 DEF MigrationClashes, Clashes, TablesStay
  <2>. QED BY <1>3, <2>1, EndLife DEF MigrationClashes, database, Exits
<1>4. CASE Unreachable(p)
  BY <1>4, EndLife DEF Unreachable, database, Exits
<1>5. CASE MigrationFails(p)
  BY <1>5, EndLife DEF MigrationFails, Unanswered, Exits
<1>. QED BY <1>1, <1>2, <1>3, <1>4, <1>5 DEF MigrationStep

(* Starts, signals, requests and crashes.                                  *)
LEMMA EnvironmentLife ==
  ASSUME LifeInv, NEW p \in Processes, Environment(p) PROVE LifeInv'
<1>. USE DEF LifeInv
<1>1. CASE \E kinds \in Kinds : Start(p, kinds)
  BY <1>1, StartLife
<1>2. CASE Listen(p)
  <2>1. Moves(p) /\ UNCHANGED <<main, pool, absent, schema>>
    BY <1>2 DEF Listen, database, Moves, TypeOK
  <2>2. serve'[p] = "listening" => main[p] = "run"
    BY <1>2 DEF Listen, TypeOK
  <2>. QED BY <2>1, <2>2, MoveLife
           DEF RequestsDuringRun, PostgresIsReady, VerifierIsSet, TablesStay
<1>3. CASE ListenFails(p)
  <2>1. Moves(p) /\ UNCHANGED <<main, pool, absent, schema>> /\ serve'[p] = "failed"
    BY <1>3 DEF ListenFails, database, Moves, TypeOK
  <2>. QED BY <2>1, MoveLife DEF RequestsDuringRun, PostgresIsReady, VerifierIsSet, TablesStay
<1>4. ASSUME NEW c \in Clients, Accept(p, c) PROVE LifeInv'
  <2>1. TypeOK'
    BY <1>4 DEF Accept, database, TypeOK
  <2>2. RequestsDuringRun'
    BY <1>4 DEF Accept, TypeOK, RequestsDuringRun, ListensInRun
  <2>. QED BY <1>4, <2>1, <2>2
           DEF Accept, database, ListensInRun, PostgresIsReady, UsesPostgres, VerifierIsSet,
               HasVerifier, TablesStay, CleanExitLosesNothing, MigrationIsIdempotent
<1>5. ASSUME NEW c \in Clients, Answer(p, c) PROVE LifeInv'
  <2>1. TypeOK'
    BY <1>5 DEF Answer, database, TypeOK
  <2>2. RequestsDuringRun'
    BY <1>5 DEF Answer, TypeOK, RequestsDuringRun
  <2>. QED BY <1>5, <2>1, <2>2
           DEF Answer, database, ListensInRun, PostgresIsReady, UsesPostgres, VerifierIsSet,
               HasVerifier, TablesStay, CleanExitLosesNothing, MigrationIsIdempotent
<1>6. CASE Signal(p)
  BY <1>6 DEF Signal, database, TypeOK, RequestsDuringRun, ListensInRun, PostgresIsReady,
              UsesPostgres, VerifierIsSet, HasVerifier, TablesStay, CleanExitLosesNothing,
              MigrationIsIdempotent
<1>7. CASE Kill(p)
  BY <1>7, EndLife DEF Kill, Unanswered, database, Exits, TypeOK
<1>. QED BY <1>1, <1>2, <1>3, <1>4, <1>5, <1>6, <1>7 DEF Environment

(* Every step keeps the invariant.                                         *)
LEMMA StepLife == LifeInv /\ [Next]_vars => LifeInv'
<1>. SUFFICES ASSUME LifeInv, [Next]_vars PROVE LifeInv'
  OBVIOUS
<1>1. CASE \E p \in Processes : MainStep(p) \/ MigrationStep(p) \/ Environment(p)
  BY <1>1, MainStepLife, MigrationStepLife, EnvironmentLife
<1>. USE DEF LifeInv, RequestsDuringRun, ListensInRun, PostgresIsReady, UsesPostgres,
             VerifierIsSet, HasVerifier, TablesStay, CleanExitLosesNothing,
             MigrationIsIdempotent
<1>2. CASE DatabaseStops
  <2>1. outages' \in 0 .. MaxOutages
    BY <1>2, LifecycleAssumption DEF DatabaseStops, TypeOK
  <2>2. TypeOK'
    BY <1>2, <2>1 DEF DatabaseStops, TypeOK
  <2>. QED BY <1>2, <2>2 DEF DatabaseStops
<1>3. CASE DatabaseStarts
  <2>1. TypeOK'
    BY <1>3 DEF DatabaseStarts, TypeOK
  <2>. QED BY <1>3, <2>1 DEF DatabaseStarts
<1>4. CASE UNCHANGED vars
  BY <1>4 DEF vars, database, TypeOK
<1>. QED BY <1>1, <1>2, <1>3, <1>4 DEF Next, Quiescent

(* So the invariant always holds.                                          *)
LEMMA LifeCorrect == Spec => []LifeInv
BY InitLife, StepLife, PTL DEF Spec
-----------------------------------------------------------------------------
(* The types hold: a process is always in a place main has, and ends only  *)
(* in the ways it has.                                                     *)
THEOREM TypeCorrect == Spec => []TypeOK
<1>1. LifeInv => TypeOK
  BY DEF LifeInv
<1>. QED BY <1>1, LifeCorrect, PTL

(* Whatever is killed, signalled and restarted, and whichever of several   *)
(* processes migrates first: a request only ever reaches a process with a  *)
(* verifier and, with Postgres, with the tables in place.                  *)
THEOREM RequestsCorrect == Spec => []RequestsFindServer
<1>1. LifeInv => RequestsFindServer
  BY DEF LifeInv, RequestsFindServer, RequestsDuringRun, PostgresIsReady, VerifierIsSet,
         HasVerifier
<1>. QED BY <1>1, LifeCorrect, PTL

(* No handler runs on a closed pool.                                       *)
THEOREM PoolCorrect == Spec => []PoolOutlivesRequests
<1>1. LifeInv => PoolOutlivesRequests
  BY DEF LifeInv, PoolOutlivesRequests, RequestsDuringRun, PostgresIsReady
<1>. QED BY <1>1, LifeCorrect, PTL

(* Status 0 means that every request was answered.                         *)
THEOREM ExitCorrect == Spec => []CleanExitLosesNothing
<1>1. LifeInv => CleanExitLosesNothing
  BY DEF LifeInv
<1>. QED BY <1>1, LifeCorrect, PTL

(* A process that finds the tables at its start never clashes over them.   *)
THEOREM MigrationCorrect == Spec => []MigrationIsIdempotent
<1>1. LifeInv => MigrationIsIdempotent
  BY DEF LifeInv
<1>. QED BY <1>1, LifeCorrect, PTL
=============================================================================
