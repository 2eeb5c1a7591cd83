----------------------------- MODULE AsyncPool -----------------------------
(***************************************************************************)
(* The connection pool of packages_mjs/connection-pool, the TypeScript     *)
(* twin of ConnectionPool, over its MemoryConnectionStore, and the         *)
(* interceptor of fetch-compose-connection-pool that uses it.              *)
(*                                                                         *)
(* Every store call is awaited.  The store acts where it is called, and    *)
(* what follows the await runs as a microtask of its own, after everything *)
(* that was queued before: acquire(), release() and processPendingQueue()  *)
(* of different requests take turns.  `ready` is the microtask queue; an   *)
(* action named after what a method does next is one microtask.  Awaits    *)
(* after which a method touches only its own variables are left out where  *)
(* nothing follows them.  Code of the application may call the pool        *)
(* between any two microtasks, timers fire when `ready` is empty.          *)
(*                                                                         *)
(* The store keeps one object per connection.  A list of connections that  *)
(* it returns is made when it is called, before the await; the state of an *)
(* object is the one it has when the list is looked at, and an object that *)
(* was removed meanwhile keeps its last one, for no update reaches it.     *)
(***************************************************************************)
EXTENDS Naturals, FiniteSets, Sequences, SequencesExt

CONSTANTS
  Conn,            \* connection ids: a bounded supply, see Fresh
  Task,            \* requests, named again when nothing refers to them
  Host,            \* host keys
  Priority,        \* options.priority
  MaxConnections,  \* maxConnections
  MaxPerHost,      \* maxConnectionsPerHost
  MaxIdle,         \* maxIdleConnections
  MaxQueue,        \* maxQueueSize; 0 is like queueRequests = false
  Events,          \* what may happen besides: a subset of AllEvents
  NoConn, NoTask

AllEvents == {"abort", "age", "close", "error", "fail", "sweep"}
Daemons   == {"closer", "sweeper"}

ASSUME AsyncAssumption ==
  /\ MaxConnections \in Nat /\ MaxPerHost \in Nat
  /\ MaxIdle \in Nat /\ MaxQueue \in Nat
  /\ Priority \subseteq Nat /\ Priority # {}
  /\ NoConn \notin Conn /\ NoTask \notin Task
  /\ Task \cap Daemons = {}
  /\ Events \subseteq AllEvents

VARIABLES
  conns,     \* the store's Map: connections in the order they were added
  state,     \* [Conn -> States], of the object of a connection
  host,      \* [Conn -> Host]
  closed,    \* the field closed
  queue,     \* pendingQueue
  ready,     \* microtasks that are due: who runs next
  at,        \* [Task \cup Daemons -> where it stands]
  want,      \* [Task -> Host], options.host
  rank,      \* [Task -> Priority]
  room,      \* [Task -> BOOLEAN], what the counts that were read allow
  handle,    \* [Task -> Conn \cup {NoConn}], connection of the request or run
  target,    \* [Task -> Task \cup {NoTask}], `pending` of processPendingQueue()
  todo,      \* [Task \cup Daemons -> Seq(Conn)], the list a method got from the store
  loop,      \* [Daemons -> {"drain", "close", "timeouts", "expired"}]
  disturbed, \* history: pendingQueue[0] changed under a run that had read it
  astray,    \* history: connections of requests that ended in an error
  crowd      \* history: how many were between a count and its use at once

connVars == <<conns, state, host>>
taskVars == <<want, rank, room, handle, target>>
history  == <<disturbed, astray, crowd>>
vars == <<connVars, closed, queue, ready, at, taskVars, todo, loop, history>>

States  == {"none", "idle", "active", "draining", "closed"}

Init ==
  /\ conns = <<>> /\ state = [c \in Conn |-> "none"]
  /\ host = [c \in Conn |-> CHOOSE h \in Host : TRUE]
  /\ closed = FALSE /\ queue = <<>> /\ ready = <<>>
  /\ at = [p \in Task \cup Daemons |-> "off"]
  /\ want = [t \in Task |-> CHOOSE h \in Host : TRUE]
  /\ rank = [t \in Task |-> CHOOSE n \in Priority : TRUE]
  /\ room = [t \in Task |-> FALSE]
  /\ handle = [t \in Task |-> NoConn]
  /\ target = [t \in Task |-> NoTask]
  /\ todo = [p \in Task \cup Daemons |-> <<>>]
  /\ loop = [d \in Daemons |-> "drain"]
  /\ disturbed = FALSE /\ astray = {} /\ crowd = 0

-----------------------------------------------------------------------------
(* The store and the microtask queue. *)

Idle(s)  == SelectSeq(s, LAMBDA c : state[c] = "idle")
On(h)    == SelectSeq(conns, LAMBDA c : host[c] = h)
Gone(c)  == IF c \in ToSet(conns)
            THEN RemoveAt(conns, CHOOSE i \in DOMAIN conns : conns[i] = c)
            ELSE conns

\* updateConnection() of one that is no longer in the store does nothing.
Update(c, s) == state' = [state EXCEPT ![c] = IF c \in ToSet(conns) THEN s ELSE @]

\* An id nobody can tell from a new one.
Fresh(c) ==
  /\ c \notin ToSet(conns) \cup astray
  /\ \A t \in Task : handle[t] # c
  /\ \A p \in Task \cup Daemons : c \notin ToSet(todo[p])

Runs(p)    == ready # <<>> /\ Head(ready) = p
Awaits(p)  == ready' = Append(Tail(ready), p)
Ends       == ready' = Tail(ready)
Starts(p)  == ready' = Append(ready, p)

\* pendingQueue[0] is no longer what another run of processPendingQueue()
\* read, or that run has read it and another begins.
Disturbs(t) ==
  \E u \in Task \ {t} :
    /\ target[u] # NoTask /\ at[u] \notin {"born", "hand"}
    /\ queue' = <<>> \/ Head(queue') # target[u]

-----------------------------------------------------------------------------
(* acquire().  find, missed, total and host are shared with                *)
(* processPendingQueue(), which looks for a connection for its target.     *)

\* A closed pool and an aborted signal are refused before anything changes.  The
\* connections are listed at once, and looked at in Find.
Acquire(t, h, n) ==
  /\ at[t] = "off" /\ ~ closed
  /\ \A u \in Task : target[u] # t /\ t \notin ToSet(queue)
  /\ at'   = [at EXCEPT ![t] = "find"]
  /\ want' = [want EXCEPT ![t] = h]
  /\ rank' = [rank EXCEPT ![t] = n]
  /\ todo' = [todo EXCEPT ![t] = conns]
  /\ Starts(t)
  /\ UNCHANGED <<connVars, closed, queue, room, handle, target, loop, history>>

Sought(t) == IF target[t] = NoTask THEN want[t] ELSE want[target[t]]

\* Positions in the list of what findIdleConnection() would take for t.
Usable(t) ==
  {i \in DOMAIN todo[t] : host[todo[t][i]] = Sought(t) /\ state[todo[t][i]] = "idle"}

\* A loop that forgot to mark what it takes.
FindUnmarked(t) ==
  /\ Runs(t) /\ at[t] = "find"
  /\ \/ \E i \in Usable(t) :
          /\ \A j \in Usable(t) : i <= j
          /\ handle' = [handle EXCEPT ![t] = todo[t][i]]
          /\ at'     = [at EXCEPT ![t] = IF target[t] = NoTask THEN "got3" ELSE "found"]
     \/ /\ Usable(t) = {}
        /\ at' = [at EXCEPT ![t] = "missed"]
        /\ UNCHANGED handle
  /\ todo' = [todo EXCEPT ![t] = <<>>]
  /\ Awaits(t)
  /\ UNCHANGED <<connVars, closed, queue, want, rank, room, target, loop, history>>

\* findIdleConnection() takes the first idle connection of its list and marks it
\* as active: to no effect, if it has left the store since it was listed.
Find(t) ==
  /\ Runs(t) /\ at[t] = "find"
  /\ \/ \E i \in Usable(t) :
          /\ \A j \in Usable(t) : i <= j
          /\ Update(todo[t][i], "active")
          /\ handle' = [handle EXCEPT ![t] = todo[t][i]]
          /\ at'     = [at EXCEPT ![t] = IF target[t] = NoTask THEN "got3" ELSE "found"]
     \/ /\ Usable(t) = {}
        /\ at' = [at EXCEPT ![t] = "missed"]
        /\ UNCHANGED <<state, handle>>
  /\ todo' = [todo EXCEPT ![t] = <<>>]
  /\ Awaits(t)
  /\ UNCHANGED <<conns, host, closed, queue, want, rank, room, target, loop, history>>

\* Those that have read a count and not yet acted on it.
Counting == {t \in Task : at[t] \in {"total", "host"}}

\* The limit itself still counts as room.
CountAllOffByOne(t) ==
  /\ Runs(t) /\ at[t] = "missed"
  /\ at'   = [at EXCEPT ![t] = "total"]
  /\ room' = [room EXCEPT ![t] = Len(conns) <= MaxConnections]
  /\ crowd' = IF Cardinality(Counting) >= crowd THEN Cardinality(Counting) + 1 ELSE crowd
  /\ Awaits(t)
  /\ UNCHANGED <<connVars, closed, queue, want, rank, handle, target, todo, loop, disturbed, astray>>

CountAll(t) ==
  /\ Runs(t) /\ at[t] = "missed"
  /\ at'   = [at EXCEPT ![t] = "total"]
  /\ room' = [room EXCEPT ![t] = Len(conns) < MaxConnections]
  /\ crowd' = IF Cardinality(Counting) >= crowd THEN Cardinality(Counting) + 1 ELSE crowd
  /\ Awaits(t)
  /\ UNCHANGED <<connVars, closed, queue, want, rank, handle, target, todo, loop, disturbed, astray>>

CountHost(t) ==
  /\ Runs(t) /\ at[t] = "total"
  /\ at'   = [at EXCEPT ![t] = "host"]
  /\ room' = [room EXCEPT ![t] = @ /\ Len(On(Sought(t))) < MaxPerHost]
  /\ Awaits(t)
  /\ UNCHANGED <<connVars, closed, queue, want, rank, handle, target, todo, loop, history>>

\* createConnection() for the request or the target of t.
Create(t) ==
  \E c \in Conn :
    /\ Fresh(c)
    /\ conns'  = Append(conns, c)
    /\ state'  = [state EXCEPT ![c] = "active"]
    /\ host'   = [host EXCEPT ![c] = Sought(t)]
    /\ handle' = [handle EXCEPT ![t] = c]

\* insertByPriority(): before the first request of a lower priority.
Slot(t) ==
  CHOOSE i \in 1 .. Len(queue) + 1 :
    /\ \A j \in 1 .. i - 1 : rank[queue[j]] >= rank[t]
    /\ i <= Len(queue) => rank[queue[i]] < rank[t]

Inserted(t) == InsertAt(queue, Slot(t), t)

Decide(t) ==
  /\ Runs(t) /\ at[t] = "host" /\ target[t] = NoTask
  /\ IF room[t] THEN Awaits(t) ELSE Ends
  /\ \/ /\ room[t]
        /\ Create(t)
        /\ at' = [at EXCEPT ![t] = "got3"]
        /\ UNCHANGED <<queue, disturbed>>
     \/ /\ ~ room[t] /\ Len(queue) < MaxQueue
        /\ queue' = Inserted(t)
        /\ at' = [at EXCEPT ![t] = "waiting"]
        /\ disturbed' = (disturbed \/ Disturbs(t))
        /\ UNCHANGED <<connVars, handle>>
     \/ /\ ~ room[t] /\ Len(queue) >= MaxQueue
        /\ at' = [at EXCEPT ![t] = "off"]
        /\ UNCHANGED <<connVars, handle, queue, disturbed>>
  /\ room' = [room EXCEPT ![t] = FALSE]
  /\ UNCHANGED <<closed, want, rank, target, todo, loop, astray, crowd>>

\* The caller has its connection three microtasks after acquire() took it,
\* two after a queued request was resolved.
Settle(t) ==
  /\ Runs(t) /\ at[t] \in {"got3", "got2", "got1"}
  /\ at' = [at EXCEPT ![t] = CASE @ = "got3" -> "got2" [] @ = "got2" -> "got1" [] OTHER -> "using"]
  /\ IF at[t] = "got1" THEN Ends ELSE Awaits(t)
  /\ UNCHANGED <<connVars, closed, queue, taskVars, todo, loop, history>>

-----------------------------------------------------------------------------
(* processPendingQueue(), run by the release() of t. *)

\* The head of the queue is read, and read again after each that was served.
Look(t) ==
  IF queue' = <<>>
  THEN /\ at' = [at EXCEPT ![t] = "off"]
       /\ target' = [target EXCEPT ![t] = NoTask]
       /\ Ends
       /\ UNCHANGED todo
  ELSE /\ at' = [at EXCEPT ![t] = "find"]
       /\ target' = [target EXCEPT ![t] = Head(queue')]
       /\ todo' = [todo EXCEPT ![t] = conns]
       /\ Awaits(t)

Shift == IF queue = <<>> THEN <<>> ELSE Tail(queue)

\* The head of the queue goes before it is known whether there is room.
ClaimEarly(t) ==
  /\ Runs(t) /\ at[t] = "host" /\ target[t] # NoTask
  /\ queue' = Shift
  /\ disturbed' = (disturbed \/ Disturbs(t))
  /\ \/ /\ room[t]
        /\ Create(t)
        /\ at' = [at EXCEPT ![t] = "born"]
        /\ Awaits(t)
        /\ UNCHANGED target
     \/ /\ ~ room[t]
        /\ at' = [at EXCEPT ![t] = "off"]
        /\ target' = [target EXCEPT ![t] = NoTask]
        /\ Ends
        /\ UNCHANGED <<connVars, handle>>
  /\ room' = [room EXCEPT ![t] = FALSE]
  /\ UNCHANGED <<closed, want, rank, todo, loop, astray, crowd>>

\* Room or not, once no idle connection was found: the head of the queue goes
\* before the connection is added.
Claim(t) ==
  /\ Runs(t) /\ at[t] = "host" /\ target[t] # NoTask
  /\ \/ /\ room[t]
        /\ queue' = Shift
        /\ disturbed' = (disturbed \/ Disturbs(t))
        /\ Create(t)
        /\ at' = [at EXCEPT ![t] = "born"]
        /\ Awaits(t)
        /\ UNCHANGED target
     \/ /\ ~ room[t]
        /\ at' = [at EXCEPT ![t] = "off"]
        /\ target' = [target EXCEPT ![t] = NoTask]
        /\ Ends
        /\ UNCHANGED <<connVars, handle, queue, disturbed>>
  /\ room' = [room EXCEPT ![t] = FALSE]
  /\ UNCHANGED <<closed, want, rank, todo, loop, astray, crowd>>

\* findIdleConnection() or createConnection() returns.
Return(t) ==
  /\ Runs(t) /\ at[t] \in {"found", "born"}
  /\ at' = [at EXCEPT ![t] = IF @ = "found" THEN "serve" ELSE "hand"]
  /\ Awaits(t)
  /\ UNCHANGED <<connVars, closed, queue, taskVars, todo, loop, history>>

\* resolve() of a request that has its answer already does nothing.
Resolve(t) ==
  LET p == target[t] IN
  /\ handle' = IF at[p] = "waiting" THEN [handle EXCEPT ![t] = NoConn, ![p] = handle[t]]
               ELSE [handle EXCEPT ![t] = NoConn]
  /\ LET next == IF queue' = <<>> THEN "off" ELSE "find" IN
     at' = IF at[p] = "waiting" THEN [at EXCEPT ![t] = next, ![p] = "got2"]
           ELSE [at EXCEPT ![t] = next]
  /\ target' = [target EXCEPT ![t] = IF queue' = <<>> THEN NoTask ELSE Head(queue')]
  /\ todo' = IF queue' = <<>> THEN todo ELSE [todo EXCEPT ![t] = conns]
  /\ ready' = Tail(ready) \o (IF at[p] = "waiting" THEN <<p>> ELSE <<>>)
                          \o (IF queue' = <<>> THEN <<>> ELSE <<t>>)

\* Whoever is the head of the queue by now goes; the connection is for the
\* request that was the head before.
Serve(t) ==
  /\ Runs(t) /\ at[t] = "serve"
  /\ queue' = Shift
  /\ disturbed' = (disturbed \/ Disturbs(t))
  /\ Resolve(t)
  /\ UNCHANGED <<connVars, closed, want, rank, room, loop, astray, crowd>>

Hand(t) ==
  /\ Runs(t) /\ at[t] = "hand"
  /\ UNCHANGED queue
  /\ Resolve(t)
  /\ UNCHANGED <<connVars, closed, want, rank, room, loop, history>>

-----------------------------------------------------------------------------
(* release(), fail() and what the interceptor does with a connection. *)

\* Called in a closed pool, or with a connection that is too old, release()
\* closes it.  Otherwise the connections are listed, to be counted.
Release(t) ==
  /\ at[t] = "using"
  /\ \/ /\ closed \/ "age" \in Events
        /\ Update(handle[t], "closed")
        /\ at' = [at EXCEPT ![t] = "closing"]
        /\ UNCHANGED todo
     \/ /\ ~ closed
        /\ at' = [at EXCEPT ![t] = "counting"]
        /\ todo' = [todo EXCEPT ![t] = conns]
        /\ UNCHANGED state
  /\ Starts(t)
  /\ UNCHANGED <<conns, host, closed, queue, taskVars, loop, history>>

\* getIdleCount()
CountIdle(t) ==
  /\ Runs(t) /\ at[t] = "counting"
  /\ room' = [room EXCEPT ![t] = Len(Idle(todo[t])) < MaxIdle]
  /\ at' = [at EXCEPT ![t] = "counted"]
  /\ todo' = [todo EXCEPT ![t] = <<>>]
  /\ Awaits(t)
  /\ UNCHANGED <<connVars, closed, queue, want, rank, handle, target, loop, history>>

GiveBack(t) ==
  /\ Runs(t) /\ at[t] = "counted"
  /\ IF room[t]
     THEN /\ Update(handle[t], "idle")
          /\ handle' = [handle EXCEPT ![t] = NoConn]
          /\ at' = [at EXCEPT ![t] = "given"]
     ELSE /\ Update(handle[t], "closed")
          /\ at' = [at EXCEPT ![t] = "closing"]
          /\ UNCHANGED handle
  /\ Awaits(t)
  /\ room' = [room EXCEPT ![t] = FALSE]
  /\ UNCHANGED <<conns, host, closed, queue, want, rank, target, todo, loop, history>>

Process(t) ==
  /\ Runs(t) /\ at[t] = "given"
  /\ UNCHANGED queue
  /\ Look(t)
  /\ UNCHANGED <<connVars, closed, want, rank, room, handle, loop, history>>

\* closeConnection(): removeConnection() follows the update.
Removal(t) ==
  /\ Runs(t) /\ at[t] = "closing"
  /\ conns'  = Gone(handle[t])
  /\ handle' = [handle EXCEPT ![t] = NoConn]
  /\ at' = [at EXCEPT ![t] = "off"]
  /\ Ends
  /\ UNCHANGED <<state, host, closed, queue, want, rank, room, target, todo, loop, history>>

\* dispatch() refuses the request: the interceptor calls fail().
Fail(t) ==
  /\ at[t] = "using" /\ "fail" \in Events
  /\ at' = [at EXCEPT ![t] = "failing"]
  /\ Starts(t)
  /\ UNCHANGED <<connVars, closed, queue, taskVars, todo, loop, history>>

\* fail() that marks the connection as unhealthy and leaves it in the store.
FailUnclosed(t) ==
  /\ Runs(t) /\ at[t] = "failing"
  /\ handle' = [handle EXCEPT ![t] = NoConn]
  /\ at' = [at EXCEPT ![t] = "off"]
  /\ Ends
  /\ UNCHANGED <<connVars, closed, queue, want, rank, room, target, todo, loop, history>>

FailClose(t) ==
  /\ Runs(t) /\ at[t] = "failing"
  /\ Update(handle[t], "closed")
  /\ at' = [at EXCEPT ![t] = "closing"]
  /\ Awaits(t)
  /\ UNCHANGED <<conns, host, closed, queue, taskVars, todo, loop, history>>

\* A request that ends in an error is not released: only onResponseEnd is
\* wrapped.
Abandon(t) ==
  /\ at[t] = "using" /\ "error" \in Events
  /\ handle' = [handle EXCEPT ![t] = NoConn]
  /\ at' = [at EXCEPT ![t] = "off"]
  /\ astray' = astray \cup {handle[t]}
  /\ UNCHANGED <<connVars, closed, queue, ready, want, rank, room, target, todo, loop, disturbed, crowd>>

-----------------------------------------------------------------------------
(* Timers and abort signals of queued requests. *)

Leave(t) ==
  /\ \E i \in DOMAIN queue : queue[i] = t /\ queue' = RemoveAt(queue, i)
  /\ at' = IF at[t] = "waiting" THEN [at EXCEPT ![t] = "off"] ELSE at
  /\ UNCHANGED <<connVars, closed, ready, taskVars, todo, loop, astray, crowd>>

\* The timer of a request that was resolved is cleared.
Timeout(t) ==
  /\ ready = <<>> /\ at[t] = "waiting"
  /\ Leave(t)
  /\ UNCHANGED disturbed

Abort(t) ==
  /\ "abort" \in Events
  /\ Leave(t)
  /\ disturbed' = (disturbed \/ Disturbs(NoTask))

-----------------------------------------------------------------------------
(* close() and the health check: a list of connections is taken and worked *)
(* off, one closeConnection() after another.                               *)

\* What of its list a loop looks at, at the moment it gets there.
Suits(d, c) == loop[d] \in {"close", "timeouts"} \/ state[c] = "idle"

Left(d) == {i \in DOMAIN todo[d] : Suits(d, todo[d][i])}

Close ==
  /\ "close" \in Events /\ ~ closed
  /\ closed' = TRUE
  /\ at'   = [at EXCEPT !["closer"] = "next"]
  /\ loop' = [loop EXCEPT !["closer"] = "drain"]
  /\ todo' = [todo EXCEPT !["closer"] = conns]
  /\ Starts("closer")
  /\ UNCHANGED <<connVars, queue, taskVars, history>>

\* performHealthCheck() by its timer: some idle connections are too long idle.
Sweep ==
  /\ "sweep" \in Events /\ ready = <<>> /\ ~ closed
  /\ \E overdue \in SUBSET ToSet(Idle(conns)) :
       todo' = [todo EXCEPT !["sweeper"] = SelectSeq(conns, LAMBDA c : c \in overdue)]
  /\ at'   = [at EXCEPT !["sweeper"] = "next"]
  /\ loop' = [loop EXCEPT !["sweeper"] = "timeouts"]
  /\ Starts("sweeper")
  /\ UNCHANGED <<connVars, closed, queue, taskVars, history>>

\* The next connection of the list is marked as draining or closed.
Work(d) ==
  /\ Runs(d) /\ at[d] = "next" /\ Left(d) # {}
  /\ LET i == Min(Left(d)) IN
     IF loop[d] = "drain"
     THEN /\ Update(todo[d][i], "draining")
          /\ todo' = [todo EXCEPT ![d] = SubSeq(@, i + 1, Len(@))]
          /\ UNCHANGED at
     ELSE /\ Update(todo[d][i], "closed")
          /\ todo' = [todo EXCEPT ![d] = SubSeq(@, i, Len(@))]
          /\ at' = [at EXCEPT ![d] = "remove"]
  /\ Awaits(d)
  /\ UNCHANGED <<conns, host, closed, queue, taskVars, loop, history>>

WorkRemove(d) ==
  /\ Runs(d) /\ at[d] = "remove"
  /\ conns' = Gone(Head(todo[d]))
  /\ todo'  = [todo EXCEPT ![d] = Tail(@)]
  /\ at' = [at EXCEPT ![d] = "removed"]
  /\ Awaits(d)
  /\ UNCHANGED <<state, host, closed, queue, taskVars, loop, history>>

WorkNext(d) ==
  /\ Runs(d) /\ at[d] = "removed"
  /\ at' = [at EXCEPT ![d] = "next"]
  /\ Awaits(d)
  /\ UNCHANGED <<connVars, closed, queue, taskVars, todo, loop, history>>

\* drain() ends with the rejection of all that is queued.
Drained ==
  /\ Runs("closer") /\ at["closer"] = "next" /\ loop["closer"] = "drain"
  /\ Left("closer") = {}
  /\ queue' = <<>>
  /\ at' = [p \in DOMAIN at |->
              IF p = "closer" THEN "list"
              ELSE IF p \in ToSet(queue) /\ at[p] = "waiting" THEN "off" ELSE at[p]]
  /\ disturbed' = (disturbed \/ Disturbs(NoTask))
  /\ Awaits("closer")
  /\ UNCHANGED <<connVars, closed, taskVars, todo, loop, astray, crowd>>

List ==
  /\ Runs("closer") /\ at["closer"] = "list"
  /\ at'   = [at EXCEPT !["closer"] = "next"]
  /\ loop' = [loop EXCEPT !["closer"] = "close"]
  /\ todo' = [todo EXCEPT !["closer"] = conns]
  /\ Awaits("closer")
  /\ UNCHANGED <<connVars, closed, queue, taskVars, history>>

\* store.close() forgets what is left.
Clear ==
  /\ Runs("closer") /\ at["closer"] = "next" /\ loop["closer"] = "close"
  /\ Left("closer") = {}
  /\ conns' = <<>>
  /\ at' = [at EXCEPT !["closer"] = "off"]
  /\ Ends
  /\ UNCHANGED <<state, host, closed, queue, taskVars, todo, loop, history>>

\* After the idle ones those that are too old, whatever their state.
Expire ==
  /\ Runs("sweeper") /\ at["sweeper"] = "next" /\ loop["sweeper"] = "timeouts"
  /\ Left("sweeper") = {}
  /\ \E old \in SUBSET ToSet(conns) :
       todo' = [todo EXCEPT !["sweeper"] = SelectSeq(conns, LAMBDA c : c \in old)]
  /\ loop' = [loop EXCEPT !["sweeper"] = "expired"]
  /\ Awaits("sweeper")
  /\ UNCHANGED <<connVars, closed, queue, at, taskVars, history>>

Swept ==
  /\ Runs("sweeper") /\ at["sweeper"] = "next" /\ loop["sweeper"] = "expired"
  /\ Left("sweeper") = {}
  /\ at'   = [at EXCEPT !["sweeper"] = "off"]
  /\ todo' = [todo EXCEPT !["sweeper"] = <<>>]
  /\ Ends
  /\ UNCHANGED <<connVars, closed, queue, taskVars, loop, history>>

-----------------------------------------------------------------------------
Microtask ==
  \/ \E t \in Task :
       \/ Find(t) \/ CountAll(t) \/ CountHost(t) \/ Decide(t) \/ Settle(t)
       \/ Claim(t) \/ Return(t) \/ Serve(t) \/ Hand(t)
       \/ CountIdle(t) \/ GiveBack(t) \/ Process(t) \/ Removal(t) \/ FailClose(t)
  \/ \E d \in Daemons : Work(d) \/ WorkRemove(d) \/ WorkNext(d)
  \/ Drained \/ List \/ Clear \/ Expire \/ Swept

Next ==
  \/ Microtask
  \/ \E t \in Task :
       \/ \E h \in Host, n \in Priority : Acquire(t, h, n)
       \/ Release(t) \/ Fail(t) \/ Abandon(t) \/ Timeout(t) \/ Abort(t)
  \/ Close \/ Sweep

Spec == Init /\ [][Next]_vars

\* Microtasks are run, the application lets their queue become empty again
\* and again, and timers fire.
FairSpec ==
  /\ Spec
  /\ WF_vars(Microtask)
  /\ []<>(ready = <<>>)
  /\ \A t \in Task : SF_vars(Timeout(t))

-----------------------------------------------------------------------------
(* Properties. *)

Searching == {"find", "missed", "total", "host"}
Having    == {"found", "serve", "born", "hand"}
Using     == {"got3", "got2", "got1", "using", "counting", "counted", "closing", "failing"}
Stands    == Searching \cup Having \cup Using
               \cup {"off", "waiting", "given", "next", "remove", "removed", "list"}

\* Of all but the lists of the daemons.
TypeOK ==
  /\ DOMAIN todo = Task \cup Daemons /\ \A t \in Task : todo[t] \in Seq(Conn)
  /\ conns \in Seq(Conn)
  /\ state \in [Conn -> States]
  /\ queue \in Seq(Task)
  /\ ready \in Seq(Task \cup Daemons)
  /\ at \in [Task \cup Daemons -> Stands]
  /\ rank \in [Task -> Priority]
  /\ room \in [Task -> BOOLEAN]
  /\ handle \in [Task -> Conn \cup {NoConn}]
  /\ target \in [Task -> Task \cup {NoTask}]
  /\ disturbed \in BOOLEAN
  /\ crowd \in Nat

\* An object that left the store idle: it was given back after close() or the
\* health check had marked it as closed and before they removed it.
LeftIdle(c) == c \notin ToSet(conns) /\ state[c] = "idle"

\* No connection is handed to two requests, whatever takes turns, except one
\* that had left the store idle: it is still in lists made before that, and
\* marking it as active reaches nothing.
ExclusiveUse ==
  \A t, u \in Task :
    t # u /\ handle[t] # NoConn /\ handle[t] = handle[u] => LeftIdle(handle[t])

\* A connection of the store that somebody holds cannot be found.
HeldInUse ==
  \A t \in Task : handle[t] \in ToSet(conns) => state[handle[t]] # "idle"

\* Who has a connection, and that one being closed is marked so.
HandleMatches ==
  \A t \in Task :
    /\ handle[t] # NoConn <=> at[t] \in Having \cup Using
    /\ at[t] = "closing" /\ handle[t] \in ToSet(conns) => state[handle[t]] # "active"

\* A run of processPendingQueue() is a microtask that is due, and has a target
\* whenever it has a connection for one.
RunsAreDue ==
  \A t \in Task :
    /\ target[t] # NoTask => at[t] \in Searching \cup Having /\ t \in ToSet(ready)
    /\ at[t] \in Having => target[t] # NoTask

\* Nobody is queued twice.
QueuedOnce ==
  /\ \A i, j \in DOMAIN queue : queue[i] = queue[j] => i = j
  /\ \A t \in Task : at[t] \in Searching /\ target[t] = NoTask => t \notin ToSet(queue)

\* The counts are read before the connection is added: one request at a time
\* keeps to maxConnections, n at once exceed it by n - 1 and not by more.
OverbookedByCrowd ==
  Len(conns) > MaxConnections => crowd > 1 /\ Len(conns) < MaxConnections + crowd

\* What makes that inductive: those that found room count already as the
\* connections they may add.
Promised == {t \in Counting : room[t]}

Booked ==
  /\ IsFiniteSet(Counting) /\ Cardinality(Counting) <= crowd
  /\ \/ Len(conns) + Cardinality(Promised) <= MaxConnections
     \/ Len(conns) + Cardinality(Promised) < MaxConnections + crowd

Held == {handle[t] : t \in Task} \ {NoConn}

\* A promise that nobody will settle: no longer queued, and no run will
\* resolve it.
Lost(t) ==
  /\ at[t] = "waiting" /\ t \notin ToSet(queue)
  /\ \A u \in Task : target[u] # t

\* Requests are lost only where the head of the queue changes under a run of
\* processPendingQueue(): by another run, by a request of higher priority, by
\* an abort or by close().
LostByDisturbance == (\E t \in Task : Lost(t)) => disturbed

\* The same for capacity: a connection is active without a request or a run
\* that has it only when a run was disturbed, or its request ended in an error.
LeakedByDisturbance ==
  \A c \in ToSet(conns) \ Held :
    state[c] = "active" => disturbed \/ c \in astray

\* What makes both inductive: while no run was disturbed, whatever is queued
\* waits, every run has read the head of the queue as it still is, or has taken
\* its target from there, and nobody else is going to resolve that one.
Orderly ==
  /\ \A p \in ToSet(queue) : at[p] = "waiting"
  /\ \A t \in Task : target[t] # NoTask /\ at[t] \notin {"born", "hand"}
                       => queue # <<>> /\ Head(queue) = target[t]
  /\ \A t \in Task : at[t] \in {"born", "hand"} =>
       /\ at[target[t]] = "waiting" /\ target[t] \notin ToSet(queue)
       /\ \A u \in Task : target[u] = target[t] => u = t

CalmInv == disturbed \/ Orderly

HeldInv == ExclusiveUse /\ HeldInUse /\ HandleMatches

IInv ==
  /\ TypeOK /\ HeldInv /\ RunsAreDue /\ QueuedOnce
  /\ Booked /\ CalmInv /\ LostByDisturbance /\ LeakedByDisturbance

\* queueTimeoutMs: no request waits for ever.
EveryWaitEnds == \A t \in Task : at[t] = "waiting" ~> at[t] # "waiting"
=============================================================================
