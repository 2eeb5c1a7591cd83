------------------------------ MODULE RateLimiter ------------------------------
(***************************************************************************)
(* The rate limiter of packages_py/fetch_rate_limiter with its priority    *)
(* queue, one static limit, and a store that counts requests per interval. *)
(*                                                                         *)
(* _process_queue runs as a task of its own, of which many may have been   *)
(* created but only one gets past `_processing`; each request it takes     *)
(* from the queue runs as another task.  With MemoryStore no store call    *)
(* suspends, and the processing task gives up the event loop only when it  *)
(* sleeps; with a store behind a network (RedisStore) it also gives it up  *)
(* while it awaits the count.                                              *)
(*                                                                         *)
(* A request is one call of schedule().  Request is a bounded supply: an   *)
(* id is used again once nothing refers to it any more.                    *)
(***************************************************************************)
EXTENDS Integers, FiniteSets

CONSTANTS
  Request,      \* calls of schedule()
  High,         \* those with a higher priority than the others
  Dated,        \* those with a deadline
  Impatient,    \* those whose caller may be cancelled
  Stamps,       \* what time.time() returns; the wall clock may stand still for
                \* two calls of schedule(), or be set back between them
  MaxRequests,  \* static.max_requests
  Concurrency,  \* concurrency
  MaxQueue,     \* max_queue_size
  MaxRetries,   \* retry.max_retries
  MaxKicks      \* bounds the processing tasks created and not yet started

ASSUME RequestAssumption ==
  /\ High \subseteq Request /\ Dated \subseteq Request /\ Impatient \subseteq Request
  /\ Stamps \subseteq Int
ASSUME LimitAssumption ==
  /\ MaxRequests \in Nat /\ Concurrency \in Nat \ {0}
  /\ MaxQueue \in Nat /\ MaxRetries \in Nat /\ MaxKicks \in Nat \ {0}

VARIABLES
  heap,       \* PriorityQueue._items: the requests in it, with their enqueued_at
  removed,    \* PriorityQueue._removed
  late,       \* requests whose deadline has passed
  waiting,    \* requests whose future is pending
  forsaken,   \* history: those of them whose fn() ended in CancelledError
  job,        \* [Request -> JobStates], its _execute_request task
  tries,      \* [Request -> Nat], retries so far
  active,     \* _active_requests
  count,      \* what the store counts in the current interval
  proc,       \* the task inside _process_queue; "idle" when not _processing
  kicks,      \* processing tasks that were created and have not started
  destroyed,
  suspends    \* whether a store call suspends; fixed when the store is chosen

queueVars == <<heap, removed, late>>
jobVars   == <<job, tries, active>>
callers   == <<waiting, forsaken>>
vars == <<queueVars, jobVars, callers, count, proc, kicks, destroyed, suspends>>

JobStates  == {"none", "spawned", "recording", "running", "backoff"}
ProcStates == {"idle", "scan", "counting", "allowed", "asleep"}

Init ==
  /\ heap = << >> /\ removed = {} /\ late = {}
  /\ waiting = {} /\ forsaken = {}
  /\ job = [r \in Request |-> "none"]
  /\ tries = [r \in Request |-> 0]
  /\ active = 0
  /\ count = 0
  /\ proc = "idle"
  /\ kicks = 0
  /\ destroyed = FALSE
  /\ suspends \in BOOLEAN

-----------------------------------------------------------------------------
(* The priority queue. *)

Entries   == DOMAIN heap \ removed
QueueSize == Cardinality(DOMAIN heap) - Cardinality(removed)

Rank(r) == IF r \in High THEN 1 ELSE 0

\* PriorityItem: higher priorities first, then by time.
Before(r, s) ==
  Rank(r) > Rank(s) \/ (Rank(r) = Rank(s) /\ heap[r] < heap[s])

Without(pops) == [r \in DOMAIN heap \ pops |-> heap[r]]

\* Removed requests that may be popped with nothing left before them.  Which of
\* two equal items heapq pops first depends on what was pushed and popped since.
CanPop(pops) ==
  /\ pops \subseteq DOMAIN heap \cap removed
  /\ \A r \in DOMAIN heap \ pops, s \in pops : ~ Before(r, s)

\* Mutated form: items are compared by time only.
FrontByTime(pops) ==
  {r \in Entries : \A s \in DOMAIN heap \ pops : ~ heap[s] < heap[r]}

\* The requests that may be at the front then and are not removed.
Front(pops) == {r \in Entries : \A s \in DOMAIN heap \ pops : ~ Before(s, r)}

\* is_empty() pops removed requests off the front and leaves them in _removed.
Trim ==
  \E pops \in SUBSET DOMAIN heap :
    /\ CanPop(pops)
    /\ pops = DOMAIN heap \/ Front(pops) # {}
    /\ heap' = Without(pops)

-----------------------------------------------------------------------------
(* Callers. *)

\* The processing task keeps the event loop until it really suspends.
Held == proc = "scan" \/ (~ suspends /\ proc \in {"counting", "allowed"})

Kicked == IF kicks < MaxKicks THEN kicks + 1 ELSE kicks

Unused(r) ==
  /\ r \notin waiting /\ job[r] = "none"
  /\ r \notin DOMAIN heap \cup removed

\* Mutated form: no processing task is created for the request.
ScheduleUnkicked(r, now) ==
  /\ ~ Held /\ ~ destroyed /\ Unused(r)
  /\ QueueSize < MaxQueue
  /\ heap'    = [s \in DOMAIN heap \cup {r} |-> IF s = r THEN now ELSE heap[s]]
  /\ late'    = late \ {r}
  /\ waiting' = waiting \cup {r}
  /\ UNCHANGED <<removed, forsaken, jobVars, count, proc, kicks, destroyed, suspends>>

Schedule(r, now) ==
  /\ ~ Held /\ ~ destroyed /\ Unused(r)
  /\ QueueSize < MaxQueue
  /\ heap'    = [s \in DOMAIN heap \cup {r} |-> IF s = r THEN now ELSE heap[s]]
  /\ late'    = late \ {r}
  /\ waiting' = waiting \cup {r}
  /\ kicks'   = Kicked
  /\ UNCHANGED <<removed, forsaken, jobVars, count, proc, destroyed, suspends>>

\* A caller that is cancelled leaves its request in the queue.
Cancel(r) ==
  /\ ~ Held /\ r \in waiting \cap Impatient
  /\ waiting' = waiting \ {r} /\ forsaken' = forsaken \ {r}
  /\ UNCHANGED <<queueVars, jobVars, count, proc, kicks, destroyed, suspends>>

\* Queued requests are rejected; those that were taken already are left to
\* run.  The store is closed, but nothing reads its count any more.
Destroy ==
  /\ ~ Held /\ ~ destroyed
  /\ destroyed' = TRUE
  /\ waiting'   = waiting \ Entries
  /\ heap' = Without(DOMAIN heap) /\ removed' = {}
  /\ UNCHANGED <<late, forsaken, jobVars, count, proc, kicks, suspends>>

-----------------------------------------------------------------------------
(* _process_queue. *)

\* A processing task starts; it does nothing if another one is under way.
Kick ==
  /\ ~ Held /\ kicks > 0
  /\ kicks' = kicks - 1
  /\ proc'  = IF proc = "idle" /\ ~ destroyed THEN "scan" ELSE proc
  /\ UNCHANGED <<queueVars, jobVars, callers, count, destroyed, suspends>>

ScanStop ==
  /\ proc = "scan"
  /\ Entries = {} \/ destroyed \/ active >= Concurrency
  /\ Trim
  /\ proc' = "idle"
  /\ UNCHANGED <<removed, late, jobVars, callers, count, kicks, destroyed, suspends>>

\* Mutated form: expired requests are marked and their callers forgotten.
RejectNobody ==
  removed' = removed \cup (Entries \cap late) /\ late' = {} /\ UNCHANGED waiting

\* remove_expired, and the answers to the callers.
RejectExpired ==
  /\ removed' = removed \cup (Entries \cap late)
  /\ waiting' = waiting \ (Entries \cap late)
  /\ late'    = {}

\* Mutated form: the loop goes on with every slot taken.
ScanOnFull ==
  /\ proc = "scan"
  /\ Entries # {} /\ ~ destroyed
  /\ Trim
  /\ RejectExpired
  /\ proc' = "counting"
  /\ UNCHANGED <<forsaken, jobVars, count, kicks, destroyed, suspends>>

ScanOn ==
  /\ proc = "scan"
  /\ Entries # {} /\ ~ destroyed /\ active < Concurrency
  /\ Trim
  /\ RejectExpired
  /\ proc' = "counting"
  /\ UNCHANGED <<forsaken, jobVars, count, kicks, destroyed, suspends>>

\* The ready queue of the event loop is first in, first out: the tasks that
\* were created before the processing task suspended start before it goes on.
Started == \A r \in Request : job[r] # "spawned"

\* The store answers get_count.
CountRequests ==
  /\ proc = "counting"
  /\ suspends => Started
  /\ proc' = IF count >= MaxRequests THEN "asleep" ELSE "allowed"
  /\ UNCHANGED <<queueVars, jobVars, callers, count, kicks, destroyed, suspends>>

\* dequeue(), which discards what it pops from _removed.
Take ==
  /\ proc = "allowed"
  /\ \E pops \in SUBSET DOMAIN heap : \E r \in Front(pops) :
       /\ CanPop(pops)
       /\ heap'    = Without(pops \cup {r})
       /\ removed' = removed \ pops
       /\ job'     = [job EXCEPT ![r] = "spawned"]
  /\ proc' = "scan"
  /\ UNCHANGED <<late, tries, active, callers, count, kicks, destroyed, suspends>>

\* dequeue() finds nothing but removed requests.
TakeNone ==
  /\ proc = "allowed" /\ Entries = {}
  /\ heap'    = Without(DOMAIN heap)
  /\ removed' = removed \ DOMAIN heap
  /\ proc'    = "idle"
  /\ UNCHANGED <<late, jobVars, callers, count, kicks, destroyed, suspends>>

\* The sleep for what get_ttl returned is over.
Wake ==
  /\ proc = "asleep" /\ Started
  /\ proc' = "scan"
  /\ UNCHANGED <<queueVars, jobVars, callers, count, kicks, destroyed, suspends>>

-----------------------------------------------------------------------------
(* _execute_request. *)

Move(r, s) == job' = [job EXCEPT ![r] = s]

\* The task starts and records the request in the store.
Start(r) ==
  /\ ~ Held /\ job[r] = "spawned"
  /\ active' = active + 1
  /\ IF suspends THEN Move(r, "recording") /\ UNCHANGED count
                 ELSE Move(r, "running") /\ count' = count + 1
  /\ UNCHANGED <<queueVars, tries, callers, proc, kicks, destroyed, suspends>>

Record(r) ==
  /\ ~ Held /\ job[r] = "recording"
  /\ Move(r, "running") /\ count' = count + 1
  /\ UNCHANGED <<queueVars, tries, active, callers, proc, kicks, destroyed, suspends>>

\* fn() raises a retryable error and the task sleeps.
Retry(r) ==
  /\ ~ Held /\ job[r] = "running" /\ tries[r] < MaxRetries
  /\ Move(r, "backoff") /\ tries' = [tries EXCEPT ![r] = @ + 1]
  /\ UNCHANGED <<queueVars, active, callers, count, proc, kicks, destroyed, suspends>>

Again(r) ==
  /\ ~ Held /\ job[r] = "backoff"
  /\ Move(r, "running")
  /\ UNCHANGED <<queueVars, tries, active, callers, count, proc, kicks, destroyed, suspends>>

\* Mutated form: no processing task is created when a request ends.
EndUnkicked(r) ==
  /\ ~ Held /\ job[r] = "running"
  /\ Move(r, "none") /\ tries' = [tries EXCEPT ![r] = 0]
  /\ active' = active - 1
  /\ UNCHANGED <<queueVars, count, proc, kicks, destroyed, suspends>>

\* The finally block.
End(r) ==
  /\ ~ Held /\ job[r] = "running"
  /\ Move(r, "none") /\ tries' = [tries EXCEPT ![r] = 0]
  /\ active' = active - 1
  /\ kicks'  = Kicked
  /\ UNCHANGED <<queueVars, count, proc, destroyed, suspends>>

\* fn() returns, raises an error that is not retried, or has no retry left.
Return(r) ==
  /\ End(r)
  /\ waiting' = waiting \ {r} /\ UNCHANGED forsaken

\* fn() ends in CancelledError, as when it awaits a task that was cancelled:
\* nothing catches that, and the future stays as it is.
Escape(r) ==
  /\ End(r)
  /\ forsaken' = forsaken \cup (waiting \cap {r}) /\ UNCHANGED waiting

-----------------------------------------------------------------------------
(* Time. *)

PassDeadline(r) ==
  /\ ~ Held /\ r \in (Dated \cap Entries) \ late
  /\ late' = late \cup {r}
  /\ UNCHANGED <<heap, removed, jobVars, callers, count, proc, kicks, destroyed, suspends>>

\* The entry of the store expires with its interval.
EndInterval ==
  /\ ~ Held /\ count > 0
  /\ count' = 0
  /\ UNCHANGED <<queueVars, jobVars, callers, proc, kicks, destroyed, suspends>>

-----------------------------------------------------------------------------
Process    == ScanStop \/ ScanOn \/ CountRequests \/ Take \/ TakeNone
Execute(r) == Start(r) \/ Record(r) \/ Retry(r) \/ Again(r) \/ Return(r) \/ Escape(r)

Next ==
  \/ \E r \in Request, now \in Stamps : Schedule(r, now)
  \/ \E r \in Request : Cancel(r) \/ Execute(r) \/ PassDeadline(r)
  \/ Kick \/ Process \/ Wake
  \/ Destroy \/ EndInterval

Spec == Init /\ [][Next]_vars

\* Whatever a request's task is to do next, short of failing once more.
Advance(r) == Start(r) \/ Record(r) \/ Again(r) \/ Return(r) \/ Escape(r)

\* The event loop runs every task that is ready, timers fire, intervals end,
\* and fn() ends in some way.  Fairness is strong where the processing task
\* may hold the loop in between.
FairSpec ==
  /\ Spec
  /\ WF_vars(Process \/ Wake)
  /\ SF_vars(Kick) /\ SF_vars(EndInterval)
  /\ \A r \in Request : SF_vars(Advance(r))

-----------------------------------------------------------------------------
(* Properties. *)

Executing == {r \in Request : job[r] \in {"recording", "running", "backoff"}}
Jobs      == {r \in Request : job[r] # "none"}

TypeOK ==
  /\ DOMAIN heap \subseteq Request /\ heap \in [DOMAIN heap -> Stamps]
  /\ removed \subseteq Request /\ late \subseteq Request
  /\ waiting \subseteq Request /\ forsaken \subseteq waiting
  /\ job \in [Request -> JobStates]
  /\ tries \in [Request -> 0 .. MaxRetries]
  /\ active \in Nat /\ count \in Nat /\ kicks \in 0 .. MaxKicks
  /\ proc \in ProcStates
  /\ destroyed \in BOOLEAN /\ suspends \in BOOLEAN

\* A caller that waits has its request in the queue or executing, through
\* expiry, retries, the lazy removal from the heap and destroy().  Nothing but
\* an fn() that ends in CancelledError leaves it waiting for good.
NoRequestLost == waiting \ forsaken \subseteq Entries \cup Jobs

\* A request is not in the queue any more once its task was created: no function
\* is executed twice for one call of schedule().
TakenOnce == Entries \cap Jobs = {}

\* _active_requests is the number of requests under way, retries included.
ActiveMatches == active = Cardinality(Executing)

\* Queue, tasks, futures and counter tell the same of every request.
Accounted == NoRequestLost /\ TakenOnce /\ ActiveMatches

\* No lost wake-up: while requests are queued, a processing task is at work or
\* about to start, or a request is under way that will create one.
NobodyForgotten == Entries # {} => proc # "idle" \/ kicks > 0 \/ Jobs # {}

\* A request whose caller was told that it expired or that the limiter is gone
\* is not taken any more, and none is taken while one of a higher priority is
\* queued, or one of the same with an earlier time stamp, whatever was removed
\* from the heap or added to it in between.  The order of arrival is kept as far
\* as the wall clock is: two stamps may be equal, and a later one smaller.
TakenInOrder ==
  [][\A s \in Request : job[s] = "none" /\ job'[s] = "spawned" =>
       /\ s \in Entries
       /\ \A r \in Entries :
            /\ Rank(r) <= Rank(s)
            /\ Rank(r) = Rank(s) => heap[s] <= heap[r]]_vars

\* A request of the same priority that comes later goes before r, or may.
PassedOver(r) ==
  \E s \in DOMAIN heap' \ DOMAIN heap :
    r \in Entries /\ Rank(s) = Rank(r) /\ heap'[s] <= heap[r]

\* Every call of schedule() that no higher priority can hold back is answered if
\* fn() always ends, and not in CancelledError, unless the wall clock keeps
\* standing still or going back, so that others come before it again and again.
EveryRequestAnswered ==
  \A r \in Request :
    (\A s \in Request : Rank(s) <= Rank(r)) =>
      \/ []<><<PassedOver(r)>>_vars
      \/ r \in waiting ~> r \notin waiting \ forsaken

\* With a store that suspends, a request that was taken starts before the next
\* one is, but after the checks: one too many at a time, and "maximum requests
\* per interval" is exceeded by those under way, which may not have been counted
\* yet.  With MemoryStore, everything queued is taken before the first one starts.
\* The queue holds one request too many for every id that is_empty() left in
\* _removed.
LimitsNearly ==
  /\ suspends => active <= Concurrency + 1 /\ count <= MaxRequests + Concurrency
  /\ Cardinality(Entries) <= MaxQueue + Cardinality(removed \ DOMAIN heap)
=============================================================================
