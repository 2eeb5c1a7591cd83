-------------------------- MODULE DatabaseManager --------------------------
(***************************************************************************)
(* packages_py/db_connection_postgres: the global DatabaseManager, its     *)
(* engine, and the sessions of an application and of the health check      *)
(* script of postgres, which all use that one manager.  The script tests   *)
(* the connection, asks for the health, and closes the manager.            *)
(*                                                                         *)
(* External, as the code uses it: an engine of SQLAlchemy has a pool; a    *)
(* session takes a connection with its first query and returns it to the   *)
(* pool it is from; dispose() closes what is idle in the pool, one by one, *)
(* awaiting each, and then gives the engine another pool.                  *)
(***************************************************************************)
EXTENDS Naturals

CONSTANTS
  Script,      \* health check scripts
  Server,      \* requests of an application with a session
  MaxEngines,  \* bound: engines that are made
  MaxPools     \* bound: pools that are made

ASSUME ManagerAssumption == MaxEngines \in Nat /\ MaxPools \in Nat

User   == Script \cup Server
Engine == 1 .. MaxEngines
Pool   == 1 .. MaxPools

VARIABLES
  manager,  \* whose DatabaseConfig the manager has: "none" before there is one
  engine,   \* _async_engine, 0 for None
  engines,  \* engines that were made
  poolOf,   \* [Engine -> pool], the pool an engine has
  pools,    \* pools that were made
  idle,     \* [Pool -> Nat], connections in a pool that are not in use
  at,       \* [User -> what it is doing, over which engine, and the pool: the one
            \* that its connection is from, or that it drains]
  overlap   \* history: a dispose() ended beside a session or a newer engine

managerVars == <<manager, engine, engines, poolOf, pools, idle, at, overlap>>

Doing == {"off", "testing", "tested", "probing", "probed", "serving", "disposing", "done"}
InSession == {"testing", "probing", "serving"}

ManagerInit ==
  /\ manager = "none" /\ engine = 0 /\ engines = 0 /\ pools = 0
  /\ poolOf = [e \in Engine |-> 0] /\ idle = [p \in Pool |-> 0]
  /\ at = [u \in User |-> [doing |-> "off", engine |-> 0, pool |-> 0]]
  /\ overlap = FALSE

-----------------------------------------------------------------------------
\* The first configuration stays.
GetDbManager(mine) == manager' = IF manager = "none" THEN mine ELSE manager

\* The engine that there is, or another one with a pool.
SomeEngine ==
  \/ engine # 0 /\ UNCHANGED <<engine, engines, poolOf, pools>>
  \/ /\ engine = 0 /\ engines < MaxEngines /\ pools < MaxPools
     /\ engine' = engines + 1 /\ engines' = engines + 1 /\ pools' = pools + 1
     /\ poolOf' = [poolOf EXCEPT ![engines + 1] = pools + 1]

\* async_session(): a session is for the engine of this moment.
Begin(u, from, doing, mine) ==
  /\ at[u].doing = from
  /\ GetDbManager(mine)
  /\ SomeEngine
  /\ at' = [at EXCEPT ![u] = [doing |-> doing, engine |-> engine', pool |-> 0]]
  /\ UNCHANGED <<idle, overlap>>

\* init_db(), get_health_status() and get_async_session()
Test(u)  == u \in Script /\ Begin(u, "off", "testing", "script")
Probe(u) == u \in Script /\ Begin(u, "tested", "probing", "script")
Serve(u) == u \in Server /\ Begin(u, "off", "serving", "server")

\* The first query of a session.
TakeConnection(u) ==
  /\ at[u].doing \in InSession /\ at[u].pool = 0
  /\ LET p == poolOf[at[u].engine] IN
     /\ at' = [at EXCEPT ![u].pool = p]
     /\ idle' = [idle EXCEPT ![p] = IF @ > 0 THEN @ - 1 ELSE 0]
  /\ UNCHANGED <<manager, engine, engines, poolOf, pools, overlap>>

Returned(u) == IF at[u].doing \notin InSession \/ at[u].pool = 0 THEN idle
               ELSE [idle EXCEPT ![at[u].pool] = @ + 1]

After == [testing |-> "tested", probing |-> "probed", serving |-> "off"]

\* A session ends: it was used, or its query or its connection failed.  The
\* script of postgres goes on in any case.  Before a healthy probe ends it
\* asks for the engine, and there is one then.
EndSession(u) ==
  /\ at[u].doing \in InSession
  /\ IF at[u].doing = "probing" /\ at[u].pool # 0 THEN SomeEngine
     ELSE UNCHANGED <<engine, engines, poolOf, pools>>
  /\ idle' = Returned(u)
  /\ at' = [at EXCEPT ![u] = [doing |-> After[at[u].doing], engine |-> 0, pool |-> 0]]
  /\ UNCHANGED <<manager, overlap>>

\* The end of dispose_async(), with the engine e that it is for.
Dispose(u, e) ==
  /\ pools < MaxPools
  /\ pools' = pools + 1 /\ poolOf' = [poolOf EXCEPT ![e] = pools + 1]
  /\ engine' = 0
  /\ at' = [at EXCEPT ![u] = [doing |-> "done", engine |-> 0, pool |-> 0]]
  /\ overlap' = \/ overlap \/ engine \notin {0, e}
                \/ \E v \in User : at[v].doing \in InSession /\ at[v].engine = e
  /\ UNCHANGED <<manager, engines, idle>>

\* Mutated form: the engine is forgotten, and its pool is not drained.
DrainNothing(u, e, p) == Dispose(u, e)

\* One connection of the pool is closed, and awaited; when there is none that
\* is idle, dispose() ends.
Drain(u, e, p) ==
  \/ idle[p] = 0 /\ Dispose(u, e)
  \/ /\ idle[p] > 0
     /\ idle' = [idle EXCEPT ![p] = @ - 1]
     /\ at' = [at EXCEPT ![u] = [doing |-> "disposing", engine |-> e, pool |-> p]]
     /\ UNCHANGED <<manager, engine, engines, poolOf, pools, overlap>>

\* close_db(), by the script or as the application ends.
Close(u) ==
  /\ at[u].doing = IF u \in Script THEN "probed" ELSE "off"
  /\ \/ engine # 0 /\ Drain(u, engine, poolOf[engine])
     \/ /\ engine = 0
        /\ at' = [at EXCEPT ![u].doing = "done"]
        /\ UNCHANGED <<manager, engine, engines, poolOf, pools, idle, overlap>>

GoOnClosing(u) == at[u].doing = "disposing" /\ Drain(u, at[u].engine, at[u].pool)

\* Cancelled where it awaits: a session is closed, the engine is left.
CancelUser(u) ==
  /\ at[u].doing \in InSession \cup {"disposing"}
  /\ idle' = Returned(u)
  /\ at' = [at EXCEPT ![u] = [doing |-> "done", engine |-> 0, pool |-> 0]]
  /\ UNCHANGED <<manager, engine, engines, poolOf, pools, overlap>>

ManagerStep(u) ==
  \/ Test(u) \/ Probe(u) \/ Serve(u) \/ TakeConnection(u) \/ EndSession(u)
  \/ Close(u) \/ GoOnClosing(u) \/ CancelUser(u)

ManagerNext == \E u \in User : ManagerStep(u)

-----------------------------------------------------------------------------
(* Properties. *)

ManagerTypeOK ==
  /\ manager \in {"none", "script", "server"}
  /\ engine \in {0} \cup Engine /\ engines \in {0} \cup Engine /\ pools \in {0} \cup Pool
  /\ poolOf \in [Engine -> {0} \cup Pool] /\ idle \in [Pool -> Nat]
  /\ at \in [User -> [doing : Doing, engine : {0} \cup Engine, pool : {0} \cup Pool]]
  /\ overlap \in BOOLEAN

Reached == IF engine = 0 THEN {} ELSE {poolOf[engine]}

\* A connection that is open and not in use can be closed by the manager,
\* unless a dispose() ended while a session was under way, or beside another
\* dispose() after which an engine was made that it then forgot.
OrphansByOverlap == \A p \in Pool : idle[p] > 0 => p \in Reached \/ overlap
=============================================================================
