---------------------------- MODULE RequestPath ----------------------------
(***************************************************************************)
(* A request on its way through RetryTransport                             *)
(* (packages_py/fetch_compose_retry) and RateLimitTransport                *)
(* (packages_py/fetch_compose_rate_limiter), composed in either order: the *)
(* examples of compose_transport show both.  Or a caller has its request   *)
(* repeated by a RetryExecutor (packages_py/fetch_retry).                  *)
(*                                                                         *)
(* RateLimitTransport runs what it wraps as a job of its RateLimiter.  The *)
(* job repeats what raises, and goes on when its caller is gone.  How the  *)
(* limiter queues and admits is module RateLimiter; here a queued request  *)
(* is admitted at some time.                                               *)
(*                                                                         *)
(* The synchronous twins of all three are for threads.  They have no job   *)
(* and cannot be cancelled; SyncRateLimitTransport sends when its interval *)
(* is over.                                                                *)
(*                                                                         *)
(* Time is counted in ticks: timers and the Retry-After pause hold what is *)
(* left of them.                                                           *)
(***************************************************************************)
EXTENDS Integers, FiniteSets

CONSTANTS
  Call,              \* calls of handle_async_request(); used again when ended
  Unsafe,            \* those with a method that is not in retry_methods
  TransportRetries,  \* max_retries of RetryTransport
  LimiterRetries,    \* retry.max_retries of the RateLimiter
  Waits,             \* what a Retry-After header asks for
  Backoffs           \* what calculate_backoff_delay() returns

ASSUME PathAssumption ==
  /\ Unsafe \subseteq Call
  /\ TransportRetries \in Nat /\ LimiterRetries \in Nat
  /\ Waits \subseteq Nat \ {0} /\ Backoffs \subseteq Nat

VARIABLES
  way,        \* what is outside, of Ways; fixed
  sync,       \* whether the synchronous twins are used; fixed
  at,         \* [Call -> Places]
  attempt,    \* [Call -> Nat], `attempt` of RetryTransport
  repeats,    \* [Call -> Nat], `retries` of the limiter's job
  timer,      \* [Call -> Nat], what is left of the request's sleep
  pause,      \* what is left until _retry_after_until
  cancelled,  \* requests whose caller is gone
  sends,      \* history: how often the request reached the wrapped transport
  early,      \* history: requests past the check when a pause was last set
  demand,     \* history: what is left of the longest wait asked for
  cut         \* history: a shorter wait replaced a longer one

counters == <<attempt, repeats>>
history  == <<early, demand, cut>>
pathVars == <<way, sync, at, counters, timer, pause, cancelled, sends, history>>

Places == {"idle", "paused", "queued", "sent", "requeued", "backoff", "lost"}

\* RetryTransport around RateLimitTransport, the other way round, or a
\* RetryExecutor around RateLimitTransport.
Ways == {"retry", "limiter", "executor"}

PathInit ==
  /\ way \in Ways /\ sync \in BOOLEAN
  /\ at = [r \in Call |-> "idle"]
  /\ attempt = [r \in Call |-> 0] /\ repeats = [r \in Call |-> 0]
  /\ timer = [r \in Call |-> 0]
  /\ pause = 0
  /\ cancelled = {}
  /\ sends = [r \in Call |-> 0]
  /\ early = {} /\ demand = 0 /\ cut = FALSE

-----------------------------------------------------------------------------
(* RateLimitTransport. *)

\* Mutated form: _retry_after_until is not looked at.
EnterUnpaused(r) ==
  /\ at' = [at EXCEPT ![r] = "queued"]
  /\ UNCHANGED timer
  /\ repeats' = [repeats EXCEPT ![r] = 0]
  /\ early' = early \ {r}

\* The pause is looked at once: whoever slept through it goes on.
Enter(r) ==
  /\ at'    = [at EXCEPT ![r] = IF pause > 0 THEN "paused" ELSE "queued"]
  /\ timer' = [timer EXCEPT ![r] = pause]
  /\ repeats' = [repeats EXCEPT ![r] = 0]
  /\ early' = early \ {r}

Sent(r) ==
  /\ at'    = [at EXCEPT ![r] = "sent"]
  /\ sends' = [sends EXCEPT ![r] = @ + 1]

\* Mutated form: after the sleep the pause is looked at again.
ResumeIfOver(r) ==
  /\ at[r] = "paused" /\ timer[r] = 0
  /\ at'    = [at EXCEPT ![r] = IF pause > 0 THEN "paused" ELSE "queued"]
  /\ timer' = [timer EXCEPT ![r] = pause]
  /\ UNCHANGED <<way, sync, counters, pause, cancelled, sends, history>>

Resume(r) ==
  /\ at[r] = "paused" /\ timer[r] = 0
  /\ at' = [at EXCEPT ![r] = "queued"]
  /\ UNCHANGED <<way, sync, counters, timer, pause, cancelled, sends, history>>

Admit(r) ==
  /\ at[r] = "queued" /\ ~ sync
  /\ Sent(r)
  /\ UNCHANGED <<way, sync, counters, timer, pause, cancelled, history>>

\* SyncRateLimitTransport, when its interval is over.
AdmitSync(r) ==
  /\ at[r] = "queued" /\ sync
  /\ Sent(r)
  /\ UNCHANGED <<way, sync, counters, timer, pause, cancelled, history>>

\* The job repeats what it wraps: a request to the transport below, or a new
\* run of RetryTransport.
Repeat(r) ==
  /\ at[r] = "requeued" /\ timer[r] = 0
  /\ Sent(r)
  /\ attempt' = IF way = "limiter" THEN [attempt EXCEPT ![r] = 0] ELSE attempt
  /\ UNCHANGED <<way, sync, repeats, timer, pause, cancelled, history>>

\* `errors` names those that take the exception for a retryable one.
CanRepeat(r, errors) == ~ sync /\ "limiter" \in errors /\ repeats[r] < LimiterRetries

\* A 429 with Retry-After sets the pause, whatever it was before.
Pause(wait) ==
  /\ pause'  = wait
  /\ demand' = IF wait > demand THEN wait ELSE demand
  /\ cut'    = (cut \/ wait < demand)
  /\ early'  = {r \in Call : at[r] # "idle"}

-----------------------------------------------------------------------------
(* RetryTransport. *)

Begin(r) ==
  /\ at[r] = "idle"
  /\ Enter(r)
  /\ attempt' = [attempt EXCEPT ![r] = 0]
  /\ sends'   = [sends EXCEPT ![r] = 0]
  /\ UNCHANGED <<way, sync, pause, cancelled, demand, cut>>

\* A cancelled caller takes with it what wraps the limiter.
Listening(r) == way # "limiter" => r \notin cancelled

\* Mutated form: an attempt too many.
CanRetryOnceMore(r) ==
  way # "executor" /\ Listening(r) /\ r \notin Unsafe /\ attempt[r] <= TransportRetries

CanRetry(r) ==
  way # "executor" /\ Listening(r) /\ r \notin Unsafe /\ attempt[r] < TransportRetries

RetryAfter(r, delay) ==
  /\ at'      = [at EXCEPT ![r] = "backoff"]
  /\ attempt' = [attempt EXCEPT ![r] = @ + 1]
  /\ timer'   = [timer EXCEPT ![r] = delay]

\* A retry enters whatever RetryTransport wraps.
RetryNow(r) ==
  /\ at[r] = "backoff" /\ timer[r] = 0
  /\ \/ way # "limiter" /\ Enter(r) /\ UNCHANGED sends
     \/ way = "limiter" /\ Sent(r) /\ UNCHANGED <<repeats, timer, early>>
  /\ UNCHANGED <<way, sync, attempt, pause, cancelled, demand, cut>>

Ended(r) ==
  /\ at' = [at EXCEPT ![r] = "idle"]
  /\ cancelled' = cancelled \ {r}

-----------------------------------------------------------------------------
(* What the wrapped transport answers. *)

Succeed(r) ==
  /\ at[r] = "sent"
  /\ Ended(r)
  /\ UNCHANGED <<way, sync, counters, timer, pause, sends, history>>

\* RetryTransport has a response with a status of retry_on_status: another
\* attempt after one of `delays`, or the response is what the caller gets, as
\* any response is that a RetryExecutor has.
Refused(r, delays) ==
  \/ CanRetry(r) /\ UNCHANGED cancelled /\ \E delay \in delays : RetryAfter(r, delay)
  \/ ~ CanRetry(r) /\ Ended(r) /\ UNCHANGED <<attempt, timer>>

\* Such a response without a Retry-After header, or one that asks for nothing.
Refuse(r) ==
  /\ at[r] = "sent"
  /\ Refused(r, Backoffs)
  /\ UNCHANGED <<way, sync, repeats, pause, sends, history>>

\* A 429 with the header.  Inside the rate limiter RetryTransport keeps all
\* but the last of them from RateLimitTransport.
Throttle(r, wait) ==
  /\ at[r] = "sent"
  /\ Refused(r, {wait})
  /\ IF way # "limiter" \/ ~ CanRetry(r) THEN Pause(wait) ELSE UNCHANGED <<pause, history>>
  /\ UNCHANGED <<way, sync, repeats, sends>>

\* A response is not what raises: another attempt, or the exception is what
\* the caller gets.
Raised(r, retries) ==
  /\ \/ retries /\ UNCHANGED cancelled /\ \E delay \in Backoffs : RetryAfter(r, delay)
     \/ ~ retries /\ Ended(r) /\ UNCHANGED <<attempt, timer>>
  /\ UNCHANGED <<way, sync, repeats, pause, sends, history>>

\* The job of the limiter sees the exception first where it is inside, and
\* last where it is outside and RetryTransport has given up.
Requeue(r, errors) ==
  /\ at[r] = "sent" /\ CanRepeat(r, errors)
  /\ way = "limiter" => ~ ("retry" \in errors /\ CanRetry(r))
  /\ at' = [at EXCEPT ![r] = "requeued"]
  /\ repeats' = [repeats EXCEPT ![r] = @ + 1]
  /\ \E delay \in Backoffs : timer' = [timer EXCEPT ![r] = delay]
  /\ UNCHANGED <<way, sync, attempt, pause, cancelled, sends, history>>

\* RetryTransport.
Fail(r, errors) ==
  LET retries == "retry" \in errors /\ CanRetry(r) IN
  /\ at[r] = "sent" /\ way # "executor" /\ ~ sync
  /\ CanRepeat(r, errors) => way = "limiter" /\ retries
  /\ Raised(r, retries)

\* SyncRetryTransport.
FailSync(r, errors) ==
  /\ at[r] = "sent" /\ way # "executor" /\ sync
  /\ Raised(r, "retry" \in errors /\ CanRetry(r))

\* What is sent through ends in CancelledError, as when it awaits a task that was
\* cancelled: neither kind of retry catches that, the job of the limiter ends
\* without an answer, and its caller waits on.
Lose(r) ==
  /\ at[r] = "sent" /\ ~ sync
  /\ \/ r \in cancelled /\ Ended(r)
     \/ r \notin cancelled /\ at' = [at EXCEPT ![r] = "lost"] /\ UNCHANGED cancelled
  /\ UNCHANGED <<way, sync, counters, timer, pause, sends, history>>

-----------------------------------------------------------------------------
(* RetryExecutor. *)

\* Its predicate, or the caller's, says which errors; any method will do.
ShouldRetryAttempt(r, errors) == "retry" \in errors /\ attempt[r] < TransportRetries

\* execute()
ExecuteAsync(r, errors) ==
  /\ at[r] = "sent" /\ way = "executor" /\ ~ sync
  /\ ~ CanRepeat(r, errors)
  /\ Raised(r, Listening(r) /\ ShouldRetryAttempt(r, errors))

\* execute_sync()
ExecuteSync(r, errors) ==
  /\ at[r] = "sent" /\ way = "executor" /\ sync
  /\ Raised(r, ShouldRetryAttempt(r, errors))

-----------------------------------------------------------------------------
(* Callers and time. *)

\* Where the caller itself sleeps, or waits for no job, nothing of the request is
\* left; the job of a request that was handed to the limiter goes on.
Sleeping(r) == at[r] \in {"paused", "lost"} \/ (at[r] = "backoff" /\ way # "limiter")

CancelCaller(r) ==
  /\ ~ sync /\ at[r] # "idle" /\ r \notin cancelled
  /\ \/ Sleeping(r) /\ Ended(r)
     \/ ~ Sleeping(r) /\ cancelled' = cancelled \cup {r} /\ UNCHANGED at
  /\ UNCHANGED <<way, sync, counters, timer, pause, sends, history>>

CountDown(n) == IF n > 0 THEN n - 1 ELSE 0

Tick ==
  /\ pause > 0 \/ \E r \in Call : at[r] # "idle" /\ timer[r] > 0
  /\ timer'  = [r \in Call |-> CountDown(timer[r])]
  /\ pause'  = CountDown(pause)
  /\ demand' = CountDown(demand)
  /\ cut'    = (cut /\ demand > 1)
  /\ UNCHANGED <<way, sync, at, counters, cancelled, sends, early>>

-----------------------------------------------------------------------------
GoOn(r) == Resume(r) \/ Admit(r) \/ AdmitSync(r) \/ Repeat(r) \/ RetryNow(r)

Answer(r) ==
  \/ Succeed(r) \/ Refuse(r) \/ Lose(r)
  \/ \E wait \in Waits : Throttle(r, wait)
  \/ \E errors \in SUBSET {"limiter", "retry"} :
       \/ Requeue(r, errors) \/ Fail(r, errors) \/ FailSync(r, errors)
       \/ ExecuteAsync(r, errors) \/ ExecuteSync(r, errors)

PathNext ==
  \/ \E r \in Call : Begin(r) \/ GoOn(r) \/ Answer(r) \/ CancelCaller(r)
  \/ Tick

PathSpec == PathInit /\ [][PathNext]_pathVars

\* Time passes, sleepers wake up, the limiter admits what is queued and the
\* transport below answers or raises.
PathFairSpec ==
  /\ PathSpec
  /\ WF_pathVars(Tick)
  /\ \A r \in Call : WF_pathVars(GoOn(r)) /\ WF_pathVars(Answer(r))

-----------------------------------------------------------------------------
(* Properties. *)

PathTypeOK ==
  /\ way \in Ways /\ sync \in BOOLEAN
  /\ at \in [Call -> Places]
  /\ attempt \in [Call -> 0 .. TransportRetries]
  /\ repeats \in [Call -> 0 .. LimiterRetries]
  /\ timer \in [Call -> Nat]
  /\ pause \in Nat /\ demand \in Nat /\ cut \in BOOLEAN
  /\ cancelled \subseteq Call /\ early \subseteq Call
  /\ sends \in [Call -> Nat]

\* While a wait that a Retry-After asked for has not ended, nothing is sent but
\* requests that were past the check when it (or another) was set, as long as
\* no shorter wait replaced a longer one.
PauseRespected ==
  [][\A r \in Call : sends'[r] > sends[r] /\ demand > 0 => r \in early \/ cut]_pathVars

\* The retries of the limiter and of what is around it or inside it multiply,
\* also past statuses, errors of both kinds, pauses and a cancelled caller, but
\* no further.  RetryTransport does not repeat an unsafe request; the limiter
\* and a RetryExecutor do.  The synchronous transports have one kind of retry.
Runs(r) == IF r \in Unsafe /\ way # "executor" THEN 1 ELSE 1 + TransportRetries
SendsBounded ==
  \A r \in Call : sends[r] <= Runs(r) * (IF sync THEN 1 ELSE 1 + LimiterRetries)

\* Every request ends, whatever the server answers and however pauses, retries
\* and cancellations fall, unless what is sent through ends in CancelledError.
EveryRequestEnds == \A r \in Call : at[r] # "idle" ~> at[r] \in {"idle", "lost"}
=============================================================================
