---------------------------- MODULE PoolTransport ----------------------------
(***************************************************************************)
(* ConnectionPoolTransport of fetch_compose_connection_pool over the pool: *)
(* every request acquires a connection, hands the request to the inner     *)
(* transport, and ends in `finally: await acquired.release()`, also after  *)
(* `except Exception: await acquired.fail(e)`.                             *)
(*                                                                         *)
(* No store call suspends, so fail() and the release() that follows it run *)
(* in one turn of the event loop; `turn` is "finally" between the two.     *)
(***************************************************************************)
EXTENDS ConnectionPool

CONSTANT MaxDrift   \* bounds how far the statistics may drift below the store

ASSUME DriftAssumption == MaxDrift \in Nat

\* A response, or a cancellation (CancelledError is no Exception): the
\* connection is released once.
Done(t) == Release(t)

\* The inner transport raises: fail(e), the handle stays for `finally`.
Raise(t) ==
  /\ turn = "loop" /\ pc[t] = "using" /\ "fail" \in Events
  /\ Cardinality(Live) - balance < MaxDrift
  /\ Close({handle[t]})
  /\ pc'   = [pc EXCEPT ![t] = "finally"]
  /\ turn' = "finally"
  /\ UNCHANGED <<queue, handle, phase>>

Finally(t) ==
  /\ turn = "finally" /\ pc[t] = "finally"
  /\ GiveBack(handle[t])
  /\ LetGo(t)
  /\ UNCHANGED <<queue, phase>>

TransportNext == PoolNext \/ \E t \in Task : Raise(t) \/ Finally(t)

TransportSpec == Init /\ [][TransportNext]_vars

\* What a task is owed, one kind of step for each thing it may be doing: its
\* request ends, its timer fires when it is due, its completed future resumes it.
Progress(t) == Done(t) \/ Finally(t) \/ Resume(t) \/ TimeoutOf(t)

\* The event loop runs every ready callback before one that became ready later,
\* close() goes on once the cancelled health check has ended, and requests end.
\* Fairness is strong because each of these waits while `turn` is elsewhere.
FairTransportSpec ==
  /\ TransportSpec
  /\ SF_vars(ServeHead \/ ServeStop \/ CloseEnd)
  /\ \A t \in Task : SF_vars(Progress(t))

-----------------------------------------------------------------------------
\* Between fail() and release() the event loop runs nothing else, and the
\* connection is already out of the store.
FinallyInv ==
  /\ \A t \in Task : pc[t] = "finally" => turn = "finally" /\ handle[t] \notin Live
  /\ \A t, u \in Task : pc[t] = "finally" /\ pc[u] = "finally" => t = u

\* Unless tasks are cancelled while they wait, every entry has its task.
NoneCancelled == \A i \in DOMAIN queue : queue[i].task # NoTask

\* What holds of the pool whatever the transport does to the statistics.
TransportInv == PoolInv /\ FinallyInv

\* release() runs on a connection that fail() has already removed from the
\* store.  It does not bring the connection back: neither before nor by that
\* call is a failed connection in the store again.
FailedStaysOut ==
  [][\A t \in Task : pc[t] = "finally" => handle[t] \notin Live \cup Live']_vars

\* The transport's use of the pool is a lease as well: a connection that
\* failed counts as given back, and the second call, which counts it as closed
\* once more or processes the queue, neither opens nor lends anything by itself.
TransportLease == INSTANCE ConnectionLease
  WITH open  <- Live,
       lease <- [t \in Task |-> IF pc[t] = "finally" THEN NoConn ELSE handle[t]],
       up    <- (phase # "closed")

TransportLeaseSpec == TransportLease!Spec

=============================================================================
