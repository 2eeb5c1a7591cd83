------------------------------- MODULE DnsCache -------------------------------
(***************************************************************************)
(* DnsCacheResolver of packages_py/cache_dsn over its MemoryStore, and the *)
(* requests that DnsCacheTransport sends to the endpoints it resolves.     *)
(*                                                                         *)
(* The store is synchronous, so resolve() suspends only at                 *)
(* `await resolver(dsn)` and a request at the inner transport.  What the   *)
(* resolver function answers is external: names move to new addresses, and *)
(* an answer is one that was right at some time during the call.  The      *)
(* balancing strategies are one choice among the healthy endpoints.        *)
(***************************************************************************)
EXTENDS Integers, FiniteSets, Sequences

CONSTANTS
  Request,     \* tasks that send requests, or call resolve() themselves
  Worker,      \* background tasks: a bounded supply of _revalidate_in_background
  Name,        \* host names
  MaxEntries,  \* max_entries of the store
  MaxVersion,  \* bound: how often the names move
  Negative,    \* negative_ttl_seconds > 0
  Events,      \* what else happens, of AllEvents
  NoEntry

AllEvents == {"raise", "error", "cancel", "refresh", "invalidate", "clear", "destroy"}
Actor     == Request \cup Worker
Version   == 0 .. MaxVersion
Endpoint  == 0 .. MaxVersion + 1

ASSUME ActorAssumption == IsFiniteSet(Request) /\ Request \cap Worker = {}
ASSUME BoundAssumption == MaxEntries \in Nat /\ MaxVersion \in Nat
ASSUME EventAssumption == Events \subseteq AllEvents /\ Negative \in BOOLEAN

VARIABLES
  dns,           \* external: the version of the zone that the names are in
  cache,         \* [Name -> Entry], _cache
  order,         \* _lru_order: the cached names, least recently used first
  revalidating,  \* _revalidating
  active,        \* active_connections of the balancing state
  task,          \* [Actor -> Task]: what each task is doing
  \* history, for the properties only:
  floor,         \* the newest answer stored, or the version when the name was dropped
  late,          \* tasks whose resolution was under way when floor was set
  destroyed

cacheVars == <<cache, order>>
history   == <<floor, late>>
vars      == <<dns, cacheVars, revalidating, active, task, history, destroyed>>

\* The endpoints of a version: an address stays on for one move.
Endpoints(v) == {v, v + 1}

Entry == [answer : Version, failed : BOOLEAN, age : {"fresh", "stale", "dead"},
          sick : SUBSET Endpoint, late : BOOLEAN]

ASSUME EntryAssumption == NoEntry \notin Entry
ASSUME NameAssumption == Name # {}

\* name: the name it resolves or sent a request for; began: the version when
\* the resolution began; at: the endpoint the request was sent to.
Task == [pc : {"ready", "created", "resolving", "refreshing", "revalidating", "sending"},
         name : Name, began : Version, at : Endpoint]

Some  == CHOOSE n \in Name : TRUE
Ready == [pc |-> "ready", name |-> Some, began |-> 0, at |-> 0]

Init ==
  /\ dns = 0
  /\ cache = [n \in Name |-> NoEntry] /\ order = << >>
  /\ revalidating = {}
  /\ active = [e \in Endpoint |-> 0]
  /\ task = [a \in Actor |-> Ready]
  /\ floor = [n \in Name |-> 0] /\ late = {} /\ destroyed = FALSE

Cached       == {n \in Name : cache[n] # NoEntry}
Resolving(n) == {a \in Actor : task[a].name = n
                               /\ task[a].pc \in {"resolving", "refreshing", "revalidating"}}

-----------------------------------------------------------------------------
(* MemoryStore.                                                            *)

Without(S)   == SelectSeq(order, LAMBDA m : m \notin S)
Touched(n)   == IF n \in Cached THEN Append(Without({n}), n) ELSE order

Victims(n) ==
  IF n \notin Cached /\ Cardinality(Cached) >= MaxEntries /\ order # << >>
  THEN {Head(order)} ELSE {}

Put(n, e) ==
  /\ cache' = [m \in Name |-> IF m = n THEN e
                              ELSE IF m \in Victims(n) THEN NoEntry ELSE cache[m]]
  /\ order' = Append(Without(Victims(n) \cup {n}), n)

Raised(n, v) == IF v > floor[n] THEN v ELSE floor[n]

-----------------------------------------------------------------------------
(* resolve() and the transport around it.                                  *)

Turns(a, t) == task' = [task EXCEPT ![a] = t]
Ends(a)     == Turns(a, Ready)

\* The name is looked up by the resolver function: `await resolver(dsn)`.
Begins(a, n, state) ==
  /\ Turns(a, [pc |-> state, name |-> n, began |-> dns, at |-> 0])
  /\ late' = late \ {a}

\* select_endpoint: any healthy endpoint, the first when there is none.
Selectable(e) ==
  LET healthy == Endpoints(e.answer) \ e.sick
  IN IF healthy # {} THEN healthy ELSE {e.answer}

Sending(n, p) == [pc |-> "sending", name |-> n, began |-> 0, at |-> p]
Created(n)    == [pc |-> "created", name |-> n, began |-> 0, at |-> 0]
Counted(p)    == [active EXCEPT ![p] = @ + 1]

\* Where a request goes that got entry e: to an endpoint of it, counted there,
\* or out unchanged when a failed resolution was cached.
Send(r, n, e) ==
  \/ e.failed /\ UNCHANGED <<task, active>>
  \/ ~ e.failed /\ \E p \in Selectable(e) : Turns(r, Sending(n, p)) /\ active' = Counted(p)

Hit(r, n) ==
  /\ task[r].pc = "ready" /\ n \in Cached /\ cache[n].age = "fresh"
  /\ order' = Touched(n)
  /\ Send(r, n, cache[n])
  /\ UNCHANGED <<dns, cache, revalidating, history, destroyed>>

\* A stale entry is served as it is while a background task is at work.
StaleHit(r, n) ==
  /\ task[r].pc = "ready" /\ n \in Cached /\ cache[n].age = "stale" /\ n \in revalidating
  /\ order' = Touched(n)
  /\ Send(r, n, cache[n])
  /\ UNCHANGED <<dns, cache, revalidating, history, destroyed>>

\* Otherwise a task w is created with it; the supply of workers bounds them.
StaleHitCreates(r, n, w) ==
  /\ task[r].pc = "ready" /\ n \in Cached /\ cache[n].age = "stale" /\ n \notin revalidating
  /\ task[w].pc = "ready"
  /\ order' = Touched(n)
  /\ \/ cache[n].failed /\ Turns(w, Created(n)) /\ UNCHANGED active
     \/ /\ ~ cache[n].failed
        /\ \E p \in Selectable(cache[n]) :
             /\ task'   = [task EXCEPT ![w] = Created(n), ![r] = Sending(n, p)]
             /\ active' = Counted(p)
  /\ UNCHANGED <<dns, cache, revalidating, history, destroyed>>

\* Nothing cached, or an entry past its grace period.
Miss(r, n) ==
  /\ task[r].pc = "ready" /\ (n \in Cached => cache[n].age = "dead")
  /\ order' = Touched(n)
  /\ Begins(r, n, "resolving")
  /\ UNCHANGED <<dns, cache, revalidating, active, floor, destroyed>>

\* resolve(force_refresh = True), called by the application.
Refresh(r, n) ==
  /\ "refresh" \in Events /\ task[r].pc = "ready"
  /\ Begins(r, n, "refreshing")
  /\ UNCHANGED <<dns, cacheVars, revalidating, active, floor, destroyed>>

\* Mutated form: the task does not look whether another one is at work.
StartWorkerUnchecked(w) ==
  /\ task[w].pc = "created"
  /\ revalidating' = revalidating \cup {task[w].name}
  /\ Begins(w, task[w].name, "revalidating")
  /\ UNCHANGED <<dns, cacheVars, active, floor, destroyed>>

\* The background task starts: only now is the name entered in _revalidating.
StartWorker(w) ==
  /\ task[w].pc = "created"
  /\ \/ /\ task[w].name \in revalidating
        /\ Ends(w)
        /\ UNCHANGED <<revalidating, late>>
     \/ /\ task[w].name \notin revalidating
        /\ revalidating' = revalidating \cup {task[w].name}
        /\ Begins(w, task[w].name, "revalidating")
  /\ UNCHANGED <<dns, cacheVars, active, floor, destroyed>>

-----------------------------------------------------------------------------
(* The end of `await resolver(dsn)`.                                       *)

\* finally: a worker leaves _revalidating.
Unmarked(a) == IF task[a].pc = "revalidating" THEN revalidating \ {task[a].name} ELSE revalidating

\* The answer is one that held between the call and now.  A request goes on
\* to an endpoint of it; a forced refresh and a worker are done.
Resolved(a) ==
  LET n == task[a].name IN
  /\ a \in Resolving(n)
  /\ \E v \in task[a].began .. dns :
       LET e == [answer |-> v, failed |-> FALSE, age |-> "fresh", sick |-> {},
                 late |-> a \in late]
       IN /\ Put(n, e)
          /\ IF task[a].pc = "resolving" THEN Send(a, n, e) ELSE Ends(a) /\ UNCHANGED active
          /\ floor' = [floor EXCEPT ![n] = Raised(n, v)]
          /\ late'  = (late \cup Resolving(n)) \ {a}
  /\ revalidating' = Unmarked(a)
  /\ UNCHANGED <<dns, destroyed>>

Nothing == [answer |-> 0, failed |-> TRUE, age |-> "fresh", sick |-> {}, late |-> FALSE]

\* Mutated form: a worker that fails stays in _revalidating.
FailedKeepsMark(a) ==
  LET n == task[a].name IN
  /\ "raise" \in Events /\ a \in Resolving(n)
  /\ IF Negative THEN Put(n, Nothing) ELSE UNCHANGED cacheVars
  /\ Ends(a) /\ late' = late \ {a}
  /\ UNCHANGED <<dns, revalidating, active, floor, destroyed>>

\* The resolver raises: an empty entry takes the place of whatever is cached.
Failed(a) ==
  LET n == task[a].name IN
  /\ "raise" \in Events /\ a \in Resolving(n)
  /\ IF Negative THEN Put(n, Nothing) ELSE UNCHANGED cacheVars
  /\ Ends(a) /\ late' = late \ {a}
  /\ revalidating' = Unmarked(a)
  /\ UNCHANGED <<dns, active, floor, destroyed>>

-----------------------------------------------------------------------------
(* The end of a request, and cancellation.                                 *)

\* finally: decrement_connections, which stops at zero.
CountOut(r) ==
  active' = [active EXCEPT ![task[r].at] = IF @ > 0 THEN @ - 1 ELSE 0]

\* A response, or an error that is no connection error.
Respond(r) ==
  /\ task[r].pc = "sending"
  /\ Ends(r) /\ CountOut(r)
  /\ UNCHANGED <<dns, cacheVars, revalidating, history, destroyed>>

\* Mutated form: what is written back is the answer the request was sent with.
MarkWritesBack(n, p) ==
  IF n \in Cached /\ ~ cache[n].failed /\ p \in Version
  THEN cache' = [cache EXCEPT ![n].answer = p, ![n].sick = {p}]
  ELSE UNCHANGED cache

\* mark_unhealthy: the endpoint of this address in whatever is cached by now.
Mark(n, p) ==
  IF n \in Cached /\ ~ cache[n].failed /\ p \in Endpoints(cache[n].answer)
  THEN cache' = [cache EXCEPT ![n].sick = @ \cup {p}]
  ELSE UNCHANGED cache

\* Mutated form: the request that failed is not counted out.
ErrorStaysCounted(r) ==
  /\ "error" \in Events /\ task[r].pc = "sending"
  /\ Mark(task[r].name, task[r].at)
  /\ order' = Touched(task[r].name)
  /\ Ends(r)
  /\ UNCHANGED <<dns, revalidating, active, history, destroyed>>

\* A connection error.
Error(r) ==
  /\ "error" \in Events /\ task[r].pc = "sending"
  /\ Mark(task[r].name, task[r].at)
  /\ order' = Touched(task[r].name)
  /\ Ends(r) /\ CountOut(r)
  /\ UNCHANGED <<dns, revalidating, history, destroyed>>

\* CancelledError: nothing is cached, and only a sent request is counted out.
Cancel(r) ==
  /\ "cancel" \in Events /\ task[r].pc # "ready"
  /\ IF task[r].pc = "sending" THEN CountOut(r) ELSE UNCHANGED active
  /\ Ends(r) /\ late' = late \ {r}
  /\ UNCHANGED <<dns, cacheVars, revalidating, floor, destroyed>>

-----------------------------------------------------------------------------
(* The application, time, and the world outside.                           *)

Drop(S) ==
  /\ cache' = [n \in Name |-> IF n \in S THEN NoEntry ELSE cache[n]]
  /\ order' = Without(S)
  /\ floor' = [n \in Name |-> IF n \in S THEN dns ELSE floor[n]]
  /\ late'  = late \cup UNION {Resolving(n) : n \in S}

Invalidate(n) ==
  /\ "invalidate" \in Events /\ n \in Cached
  /\ Drop({n})
  /\ UNCHANGED <<dns, revalidating, active, task, destroyed>>

Clear ==
  /\ "clear" \in Events /\ Cached # {}
  /\ Drop(Cached)
  /\ UNCHANGED <<dns, revalidating, active, task, destroyed>>

\* destroy() forgets who is revalidating; what is under way goes on.
Destroy ==
  /\ "destroy" \in Events /\ ~ destroyed
  /\ destroyed' = TRUE /\ revalidating' = {}
  /\ Drop(Cached)
  /\ UNCHANGED <<dns, active, task>>

MarkHealthy(n, e) ==
  /\ n \in Cached /\ e \in cache[n].sick
  /\ cache' = [cache EXCEPT ![n].sick = @ \ {e}]
  /\ order' = Touched(n)
  /\ UNCHANGED <<dns, revalidating, active, task, history, destroyed>>

\* Time passes: the TTL of an entry ends, then its grace period.
Age(n) ==
  /\ n \in Cached /\ cache[n].age # "dead"
  /\ cache' = [cache EXCEPT ![n].age = IF @ = "fresh" THEN "stale" ELSE "dead"]
  /\ UNCHANGED <<dns, order, revalidating, active, task, history, destroyed>>

Move ==
  /\ dns < MaxVersion
  /\ dns' = dns + 1
  /\ UNCHANGED <<cacheVars, revalidating, active, task, history, destroyed>>

\* A closed client sends nothing more.
Ask(r, n) ==
  /\ ~ destroyed
  /\ \/ Hit(r, n) \/ StaleHit(r, n) \/ Miss(r, n) \/ Refresh(r, n)
     \/ \E w \in Worker : StaleHitCreates(r, n, w)
Lookup(a)    == Resolved(a) \/ Failed(a)
Finish(r)    == Respond(r) \/ Error(r) \/ Cancel(r)
OfName(n)    == Invalidate(n) \/ Age(n) \/ \E e \in Endpoint : MarkHealthy(n, e)

Next ==
  \/ \E r \in Request : Finish(r) \/ \E n \in Name : Ask(r, n)
  \/ \E a \in Actor : Lookup(a)
  \/ \E w \in Worker : StartWorker(w)
  \/ \E n \in Name : OfName(n)
  \/ Clear \/ Destroy \/ Move

Spec == Init /\ [][Next]_vars

\* The event loop starts every task, and the resolver function answers or
\* raises in the end.
FairSpec == Spec /\ \A w \in Worker : WF_vars(StartWorker(w)) /\ WF_vars(Lookup(w))

-----------------------------------------------------------------------------
(* Properties. *)

Kinds ==
  /\ \A r \in Request : task[r].pc \in {"ready", "resolving", "refreshing", "sending"}
  /\ \A w \in Worker : task[w].pc \in {"ready", "created", "revalidating"}

TypeOK ==
  /\ dns \in Version /\ floor \in [Name -> Version]
  /\ cache \in [Name -> Entry \cup {NoEntry}]
  /\ revalidating \subseteq Name
  /\ active \in [Endpoint -> Nat]
  /\ task \in [Actor -> Task]
  /\ late \subseteq Actor /\ destroyed \in BOOLEAN
  /\ Kinds

Revalidators == {w \in Worker : task[w].pc = "revalidating"}

\* Stale entries are served to many callers, each of which may create a task:
\* still one background resolution runs per name, until destroy() forgets
\* about those under way.
OneRevalidation ==
  ~ destroyed => \A u, w \in Revalidators : task[u].name = task[w].name => u = w

\* Why: the names in _revalidating are those of the workers at work.
MarksMatch ==
  ~ destroyed => revalidating = {task[w].name : w \in Revalidators}

Sent(e) == {r \in Request : task[r].pc = "sending" /\ task[r].at = e}

\* What least-connections and power-of-two balance by is the number of
\* requests under way at an endpoint, however requests end and whatever
\* happens to the name's entry meanwhile.
ConnectionsExact == \A e \in Endpoint : active[e] = Cardinality(Sent(e))

\* An answer is not replaced by an older one, nor does one from before an
\* invalidate(), clear() or destroy() come back, unless the resolution that
\* brings it was already under way.
OnlyOverlapGoesBack ==
  \A n \in Cached : ~ cache[n].failed /\ cache[n].answer < floor[n] => cache[n].late

\* Why: a resolution that nothing overtook began at the floor or later.
BeganAbove ==
  /\ \A n \in Name : floor[n] <= dns
  /\ \A n \in Name : \A a \in Resolving(n) :
       task[a].began <= dns /\ (a \notin late => floor[n] <= task[a].began)

IInv == TypeOK /\ MarksMatch /\ OneRevalidation /\ ConnectionsExact /\ BeganAbove /\ OnlyOverlapGoesBack

Working(n) == \E w \in Worker : task[w].name = n /\ task[w].pc \in {"created", "revalidating"}
Expired(n) == n \in Cached /\ cache[n].age # "fresh"

\* A stale entry that was served is refreshed or leaves the cache, if failures
\* are cached.
StaleRefreshed == \A n \in Name : Expired(n) /\ Working(n) ~> ~ Expired(n)
=============================================================================
