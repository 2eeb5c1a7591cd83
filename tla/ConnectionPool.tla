--------------------------- MODULE ConnectionPool ---------------------------
(***************************************************************************)
(* The asyncio connection pool of packages_py/connection_pool, with its    *)
(* in-memory store and the tasks that use it.                              *)
(*                                                                         *)
(* One event loop runs everything, and a coroutine gives it up only where  *)
(* it really suspends.  With MemoryConnectionStore no store call suspends, *)
(* so a pool method is one step up to its `await future`.  The only loop   *)
(* inside a method, _process_pending_queue, is modelled one iteration per  *)
(* step; `turn` is "serve" for as long as it lasts and no other task runs  *)
(* in between.                                                             *)
(*                                                                         *)
(* A connection id is drawn fresh for every connection.  Conn is a bounded *)
(* supply: an id is drawn again once its connection is gone and no task    *)
(* still has a handle on it, when nobody can tell it from a new one.       *)
(***************************************************************************)
EXTENDS Integers, FiniteSets, Sequences, SequencesExt

CONSTANTS
  Conn,            \* connection ids
  Task,            \* asyncio tasks that call acquire, one request at a time
  Host,            \* host keys, "host:port"
  Priority,        \* AcquireOptions.priority
  MaxConnections,  \* max_connections
  MaxPerHost,      \* max_connections_per_host
  MaxIdle,         \* max_idle_connections
  MaxQueue,        \* max_queue_size
  QueueRequests,   \* queue_requests
  Timed,           \* tasks whose requests have a timeout, of their own or the pool's
  Events,          \* what the surroundings may do: a subset of AllEvents
  NoConn, NoTask

AllEvents == {"fail", "cancel", "age", "rest", "drain", "close"}

ASSUME LimitAssumption ==
  /\ MaxConnections \in Nat
  /\ MaxPerHost \in Nat
  /\ MaxIdle \in Nat
  /\ MaxQueue \in Nat

ASSUME HostAssumption == Host # {}

ASSUME ConstantAssumption ==
  /\ Priority \subseteq Int
  /\ NoConn \notin Conn
  /\ NoTask \notin Task
  /\ QueueRequests \in BOOLEAN
  /\ Timed \subseteq Task
  /\ Events \subseteq AllEvents

VARIABLES
  state,    \* [Conn -> ConnectionState], "absent" for an id not in the store
  host,     \* [Conn -> Host], the host index of the store
  aged,     \* connections older than max_connection_age_seconds
  rested,   \* connections unused for longer than idle_timeout_seconds
  balance,  \* _stats["total_created"] - _stats["total_closed"]
  queue,    \* _pending_queue; task is NoTask once the future is cancelled
  pc,       \* what each task is doing
  handle,   \* the connection of a task's AcquiredConnection
  turn,     \* where the event loop is
  phase     \* "open"; "closing" while close() awaits the health check; "closed"

connVars == <<state, host, aged, rested, balance>>
vars == <<connVars, queue, pc, handle, turn, phase>>

States == {"absent", "active", "idle", "draining"}
PCs    == {"ready", "queued", "granted", "refused", "using", "finally"}
Turns  == {"loop", "serve", "finally"}
Phases == {"open", "closing", "closed"}

Pending ==
  [task : Task \cup {NoTask}, host : Host, priority : Priority, timed : BOOLEAN]

\* The host of an id that is not in the store; nothing reads it.
AnyHost == CHOOSE h \in Host : TRUE

Init ==
  /\ state   = [c \in Conn |-> "absent"]
  /\ host    = [c \in Conn |-> AnyHost]
  /\ aged    = {}
  /\ rested  = {}
  /\ balance = 0
  /\ queue   = << >>
  /\ pc      = [t \in Task |-> "ready"]
  /\ handle  = [t \in Task |-> NoConn]
  /\ turn    = "loop"
  /\ phase   = "open"

-----------------------------------------------------------------------------
(* The store. *)

Live      == {c \in Conn : state[c] # "absent"}
LiveOn(h) == {c \in Live : host[c] = h}
Active    == {c \in Conn : state[c] = "active"}
Idle      == {c \in Conn : state[c] = "idle"}
IdleOn(h) == {c \in Idle : host[c] = h}

\* Mutated form: the limits are checked with <=.
HasRoomOffByOne(h) ==
  /\ Cardinality(Live) <= MaxConnections
  /\ Cardinality(LiveOn(h)) <= MaxPerHost

HasRoom(h) ==
  /\ Cardinality(Live) < MaxConnections
  /\ Cardinality(LiveOn(h)) < MaxPerHost

Fresh(c) == c \notin Live /\ \A t \in Task : handle[t] # c

\* Mutated form: the connection found is not marked ACTIVE.
ReuseUnmarked(c) == rested' = rested \ {c} /\ UNCHANGED <<state, host, aged, balance>>

Reuse(c) ==
  /\ state'  = [state EXCEPT ![c] = "active"]
  /\ rested' = rested \ {c}
  /\ UNCHANGED <<host, aged, balance>>

\* Mutated form: total_created is not incremented.
CreateUncounted(c, h) ==
  /\ state'  = [state EXCEPT ![c] = "active"]
  /\ host'   = [host EXCEPT ![c] = h]
  /\ aged'   = aged \ {c}
  /\ rested' = rested \ {c}
  /\ UNCHANGED balance

Create(c, h) ==
  /\ state'   = [state EXCEPT ![c] = "active"]
  /\ host'    = [host EXCEPT ![c] = h]
  /\ aged'    = aged \ {c}
  /\ rested'  = rested \ {c}
  /\ balance' = balance + 1

\* _close_connection, for each connection of S in turn: it leaves the store and
\* the host index.  Closing one that has already left changes nothing but the
\* statistics.
Close(S) ==
  /\ state'   = [c \in Conn |-> IF c \in S THEN "absent" ELSE state[c]]
  /\ balance' = balance - Cardinality(S)
  /\ host'    = [c \in Conn |-> IF c \in S THEN AnyHost ELSE host[c]]
  /\ UNCHANGED <<aged, rested>>

\* The idle connection of h that is found first (a host's ids are a set), or
\* a new one when none is idle and the limits allow it.
Obtain(c, h) ==
  \/ c \in IdleOn(h) /\ Reuse(c)
  \/ IdleOn(h) = {} /\ HasRoom(h) /\ Fresh(c) /\ Create(c, h)

Satisfiable(h) == IdleOn(h) # {} \/ HasRoom(h)

-----------------------------------------------------------------------------
(* The pending queue. *)

\* Mutated form: before the first entry of the same or a lower priority.
SlotBeforeEquals(p) ==
  CHOOSE i \in 1 .. Len(queue) + 1 :
    /\ \A j \in 1 .. i - 1 : queue[j].priority > p
    /\ i <= Len(queue) => queue[i].priority <= p

\* _insert_by_priority: before the first entry of a strictly lower priority.
Slot(p) ==
  CHOOSE i \in 1 .. Len(queue) + 1 :
    /\ \A j \in 1 .. i - 1 : queue[j].priority >= p
    /\ i <= Len(queue) => queue[i].priority < p

Waiting == {t \in Task : pc[t] = "queued"}

\* Mutated form: the queue is cleared and the futures are forgotten.
RejectNobody == queue' = << >> /\ UNCHANGED pc

\* drain() gives every pending future an exception and empties the queue.
RejectPending ==
  /\ queue' = << >>
  /\ pc' = [t \in Task |-> IF pc[t] = "queued" THEN "refused" ELSE pc[t]]

-----------------------------------------------------------------------------
(* acquire().  The calls that only raise (pool closed, pool full, request  *)
(* queue full) change nothing that is modelled.                            *)

AcquireNow(t, h) ==
  /\ turn = "loop" /\ phase = "open" /\ pc[t] = "ready"
  /\ \E c \in Conn : Obtain(c, h) /\ handle' = [handle EXCEPT ![t] = c]
  /\ pc' = [pc EXCEPT ![t] = "using"]
  /\ UNCHANGED <<queue, turn, phase>>

AcquireLater(t, h, p) ==
  /\ turn = "loop" /\ phase = "open" /\ pc[t] = "ready"
  /\ ~ Satisfiable(h)
  /\ QueueRequests /\ Len(queue) < MaxQueue
  /\ queue' = InsertAt(queue, Slot(p),
                       [task |-> t, host |-> h, priority |-> p, timed |-> t \in Timed])
  /\ pc' = [pc EXCEPT ![t] = "queued"]
  /\ UNCHANGED <<connVars, handle, turn, phase>>

\* The task runs again after its future was completed.
Resume(t) ==
  /\ turn = "loop"
  /\ \/ pc[t] = "granted" /\ pc' = [pc EXCEPT ![t] = "using"]
     \/ pc[t] = "refused" /\ pc' = [pc EXCEPT ![t] = "ready"]
  /\ UNCHANGED <<connVars, queue, handle, turn, phase>>

\* The timer of an entry fires; a cancelled entry still has its timer.
Timeout(i) ==
  /\ turn = "loop" /\ queue[i].timed
  /\ queue' = RemoveAt(queue, i)
  /\ pc' = [t \in Task |-> IF t = queue[i].task THEN "refused" ELSE pc[t]]
  /\ UNCHANGED <<connVars, handle, turn, phase>>

\* The task is cancelled while it awaits the future.  A pending future is
\* cancelled but its entry stays; the result of a completed one is lost.
Cancel(t) ==
  /\ turn = "loop" /\ "cancel" \in Events
  /\ pc[t] \in {"queued", "granted"}
  /\ pc'     = [pc EXCEPT ![t] = "ready"]
  /\ handle' = [handle EXCEPT ![t] = NoConn]
  /\ queue'  = [i \in DOMAIN queue |->
                  IF queue[i].task = t THEN [queue[i] EXCEPT !.task = NoTask]
                                       ELSE queue[i]]
  /\ UNCHANGED <<connVars, turn, phase>>

-----------------------------------------------------------------------------
(* release() and fail(). *)

KeepsNoMore(c) ==
  \/ phase # "open"
  \/ c \in aged
  \/ Cardinality(Idle) >= MaxIdle

\* Mutated forms: a connection that is not kept stays ACTIVE in the store; an
\* update puts a missing connection back; the pending queue is not processed.
GiveBackForgets(c) ==
  \/ KeepsNoMore(c) /\ turn' = "loop" /\ UNCHANGED connVars
  \/ /\ ~ KeepsNoMore(c)
     /\ state'  = [state EXCEPT ![c] = IF c \in Live THEN "idle" ELSE "absent"]
     /\ rested' = rested \ {c}
     /\ turn'   = "serve"
     /\ UNCHANGED <<host, aged, balance>>

GiveBackUpserts(c) ==
  \/ KeepsNoMore(c) /\ Close({c}) /\ turn' = "loop"
  \/ /\ ~ KeepsNoMore(c)
     /\ state'  = [state EXCEPT ![c] = "idle"]
     /\ rested' = rested \ {c}
     /\ turn'   = "serve"
     /\ UNCHANGED <<host, aged, balance>>

GiveBackUnserved(c) ==
  /\ \/ KeepsNoMore(c) /\ Close({c})
     \/ /\ ~ KeepsNoMore(c)
        /\ state'  = [state EXCEPT ![c] = IF c \in Live THEN "idle" ELSE "absent"]
        /\ rested' = rested \ {c}
        /\ UNCHANGED <<host, aged, balance>>
  /\ turn' = "loop"

GiveBack(c) ==
  \/ KeepsNoMore(c) /\ Close({c}) /\ turn' = "loop"
  \/ /\ ~ KeepsNoMore(c)
     /\ state'  = [state EXCEPT ![c] = IF c \in Live THEN "idle" ELSE "absent"]
     /\ rested' = rested \ {c}
     /\ turn'   = "serve"
     /\ UNCHANGED <<host, aged, balance>>

LetGo(t) ==
  /\ pc'     = [pc EXCEPT ![t] = "ready"]
  /\ handle' = [handle EXCEPT ![t] = NoConn]

Release(t) ==
  /\ turn = "loop" /\ pc[t] = "using"
  /\ GiveBack(handle[t])
  /\ LetGo(t)
  /\ UNCHANGED <<queue, phase>>

\* The unhealthy mark of fail() is gone with the connection in the same step.
Fail(t) ==
  /\ turn = "loop" /\ pc[t] = "using" /\ "fail" \in Events
  /\ Close({handle[t]})
  /\ LetGo(t)
  /\ UNCHANGED <<queue, turn, phase>>

\* One iteration of _process_pending_queue that serves the head.  When its
\* future was cancelled, the connection is taken for it all the same.
ServeHead ==
  /\ turn = "serve" /\ queue # << >>
  /\ \E c \in Conn :
       /\ Obtain(c, Head(queue).host)
       /\ handle' = [t \in Task |-> IF t = Head(queue).task THEN c ELSE handle[t]]
  /\ pc' = [t \in Task |-> IF t = Head(queue).task THEN "granted" ELSE pc[t]]
  /\ queue' = Tail(queue)
  /\ UNCHANGED <<turn, phase>>

ServeStop ==
  /\ turn = "serve"
  /\ queue # << >> => ~ Satisfiable(Head(queue).host)
  /\ turn' = "loop"
  /\ UNCHANGED <<connVars, queue, pc, handle, phase>>

-----------------------------------------------------------------------------
(* drain(), close() and the periodic health check. *)

Drain ==
  /\ turn = "loop" /\ phase # "closed" /\ "drain" \in Events
  /\ state' = [c \in Conn |-> IF state[c] = "idle" THEN "draining" ELSE state[c]]
  /\ RejectPending
  /\ UNCHANGED <<host, aged, rested, balance, handle, turn, phase>>

\* close() sets _closed and cancels the health check, then awaits it.
CloseBegin ==
  /\ turn = "loop" /\ phase = "open" /\ "close" \in Events
  /\ phase' = "closing"
  /\ UNCHANGED <<connVars, queue, pc, handle, turn>>

\* ... and goes on: drain(), then every connection of the store is closed.
CloseEnd ==
  /\ turn = "loop" /\ phase = "closing"
  /\ Close(Live)
  /\ RejectPending
  /\ phase' = "closed"
  /\ UNCHANGED <<handle, turn>>

\* Mutated form: expired connections are closed whatever their state.
OverdueInUse == {c \in Live : c \in rested \/ c \in aged}

Overdue == {c \in Idle : c \in rested \/ c \in aged}

HealthCheck ==
  /\ turn = "loop" /\ phase = "open" /\ Overdue # {}
  /\ Close(Overdue)
  /\ UNCHANGED <<queue, pc, handle, turn, phase>>

\* Time passes for a connection that is in the store or still has a handle.
Grow(c) ==
  /\ turn = "loop" /\ ~ Fresh(c)
  /\ \/ "age" \in Events /\ c \notin aged /\ aged' = aged \cup {c}
                         /\ UNCHANGED rested
     \/ "rest" \in Events /\ c \in Idle \ rested /\ rested' = rested \cup {c}
                          /\ UNCHANGED aged
  /\ UNCHANGED <<state, host, balance, queue, pc, handle, turn, phase>>

-----------------------------------------------------------------------------
Acquire(t)  == \E h \in Host : \/ AcquireNow(t, h)
                               \/ \E p \in Priority : AcquireLater(t, h, p)
Expire      == \E i \in DOMAIN queue : Timeout(i)
TimeoutOf(t) == \E i \in DOMAIN queue : queue[i].task = t /\ Timeout(i)
Housekeep   == Drain \/ CloseBegin \/ CloseEnd \/ HealthCheck

\* The steps that every caller of the pool shares ...
PoolNext ==
  \/ \E t \in Task : Acquire(t) \/ Resume(t) \/ Cancel(t) \/ Release(t)
  \/ Expire \/ ServeHead \/ ServeStop \/ Housekeep
  \/ \E c \in Conn : Grow(c)

\* ... and the caller that ends each use with one release() or one fail().
Next == PoolNext \/ \E t \in Task : Fail(t)

Spec == Init /\ [][Next]_vars

-----------------------------------------------------------------------------
(* Properties. *)

Owns(t) == pc[t] \in {"granted", "using", "finally"}

TypeOK ==
  /\ state   \in [Conn -> States]
  /\ host    \in [Conn -> Host]
  /\ aged    \subseteq Conn
  /\ rested  \subseteq Conn
  /\ balance \in Int
  /\ queue   \in Seq(Pending)
  /\ pc      \in [Task -> PCs]
  /\ handle  \in [Task -> Conn \cup {NoConn}]
  /\ turn    \in Turns
  /\ phase   \in Phases

\* max_connections and max_connections_per_host bound the connections in the
\* store, whatever mixture of acquire, release and queue processing made them.
Capacity ==
  /\ Cardinality(Live) <= MaxConnections
  /\ \A h \in Host : Cardinality(LiveOn(h)) <= MaxPerHost

\* No more than max_idle_connections are ever kept idle: the count release()
\* reads is still right when it puts the connection back.
IdleBound == Cardinality(Idle) <= MaxIdle

\* A connection that was handed out belongs to one task, and stays ACTIVE in
\* the store until that task lets go of it: reuse, the health check, drain()
\* and queue processing never take it away.  Only close() does.
ExclusiveUse ==
  /\ \A t, u \in Task : Owns(t) /\ handle[t] = handle[u] => t = u
  /\ phase # "closed" =>
       \A t \in Task : pc[t] \in {"granted", "using"} => handle[t] \in Active

\* Every ACTIVE connection has a task that will give it back.  A lost one
\* would take its place in the pool until close().
NoOrphan == \A c \in Active : \E t \in Task : Owns(t) /\ handle[t] = c

\* A task waits exactly as long as it has one entry in the queue: no request
\* is dropped without an answer and none is answered twice.
QueueMatchesWaiters ==
  /\ Waiting = {queue[i].task : i \in DOMAIN queue} \ {NoTask}
  /\ \A i, j \in DOMAIN queue :
       queue[i].task = queue[j].task /\ queue[i].task # NoTask => i = j

\* Between two event-loop turns the statistics agree with the store: what was
\* created and not closed is there.  (After close(), a late release() counts
\* its connection as closed a second time.)
StatsAgree == phase # "closed" => balance = Cardinality(Live)

\* After close() the pool holds nothing, nobody waits, and no task is left to
\* create a connection again.
ClosedIsEmpty == phase = "closed" => Live = {} /\ queue = << >> /\ Waiting = {}

\* What makes the invariants above inductive: a task has a handle exactly
\* while it owns a connection, what it owns is not idle, and the queue is
\* processed only while the pool is open.
HandleMatches == \A t \in Task : Owns(t) <=> handle[t] # NoConn
HeldNotIdle   == \A t \in Task : Owns(t) => handle[t] \notin Idle
ServingIsOpen == turn = "serve" => phase = "open"

StoreInv == IsFiniteSet(Live) /\ Capacity /\ IdleBound
OwnerInv == ExclusiveUse /\ HandleMatches /\ HeldNotIdle
QueueInv == QueueMatchesWaiters /\ ServingIsOpen /\ ClosedIsEmpty
PoolInv  == TypeOK /\ StoreInv /\ OwnerInv /\ QueueInv

\* The statistics are the one part that the caller can spoil.
IInv == PoolInv /\ StatsAgree

Position(t) == CHOOSE i \in DOMAIN queue : queue[i].task = t
Ahead(t, u) == t # u /\ t \in Waiting /\ u \in Waiting /\ Position(t) < Position(u)

\* A waiter is served before every one that queued after it with the same or
\* a lower priority, through any insertions and timeouts in between.
ServedInOrder ==
  [][ /\ \A t, u \in Task :
           Ahead(t, u) /\ pc'[u] = "granted" => pc'[t] # "queued"
      /\ \A t, u \in Task :
           /\ t \in Waiting /\ u \notin Waiting /\ Waiting' = Waiting \cup {u}
           => (Ahead(u, t)' <=> queue[Position(t)].priority
                                   < queue'[Position(u)'].priority) ]_vars

\* A connection marked DRAINING is never lent again; it leaves the store.
DrainingIsFinal ==
  [][\A c \in Conn : state[c] = "draining" => state'[c] \in {"draining", "absent"}]_vars

\* A release() that closes its connection, and so does not process the queue.
Discards(t) ==
  /\ pc[t] \in {"using", "finally"} /\ pc'[t] = "ready"
  /\ KeepsNoMore(handle[t])

\* The head of the queue could be served now, and nobody is doing it.
LeftBehind == turn = "loop" /\ queue # << >> /\ Satisfiable(Head(queue).host)

\* The head waits for a host that has no connection anybody could give back,
\* and for which there is no room: idle connections of other hosts, which
\* nothing but their age removes, and connections marked DRAINING, which
\* nothing but close() removes, take the places.
ShutOut ==
  /\ queue # << >>
  /\ ~ Satisfiable(Head(queue).host)
  /\ LiveOn(Head(queue).host) \cap Active = {}

\* The head of the queue is left behind only by a release that discards its
\* connection, by the health check, or when a timer removes the entry that stood
\* before it.  In particular a release that keeps its connection, also the one
\* after fail(), serves the queue as far as it can be served from its head.
OnlyThenLeftBehind ==
  [][ LeftBehind' /\ ~ LeftBehind =>
        \/ \E t \in Task : Discards(t)
        \/ \E c \in Overdue : state'[c] = "absent"
        \/ queue # << >> /\ Head(queue).timed /\ queue' = Tail(queue) ]_vars

\* A queued request is answered: it gets a connection, or the error of its timer,
\* of drain() or of close(), whichever comes first.  With a timeout this holds
\* whatever else happens.  Without one the request may wait for ever, if the
\* head of the queue stays shut out or left behind, and then also when what it
\* waits for itself is there; or if releases go on to discard connections.
EveryWaitEnds ==
  \A t \in Task :
    \/ pc[t] = "queued" ~> pc[t] # "queued"
    \/ /\ t \notin Timed
       /\ \/ <>[](ShutOut \/ LeftBehind)
          \/ []<><<\E u \in Task : Discards(u)>>_vars

\* The pool is one way to keep the promise of ConnectionLease: a connection
\* counts as lent from the moment the future of its task is completed.
Lease == INSTANCE ConnectionLease
           WITH open <- Live, lease <- handle, up <- (phase # "closed")

\* Every step of the pool lends a connection that nobody else has, takes one
\* back, closes unused ones or shuts down.  In particular a step of the queue
\* processing, a timeout or a cancellation never lends a connection twice.
LeaseSpec == Lease!Spec

=============================================================================
