------------------------------ MODULE Idempotency ------------------------------
(***************************************************************************)
(* Idempotency keys: IdempotencyManager of packages_py/cache_request over  *)
(* MemoryCacheStore, driven by _handle_idempotent_request of               *)
(* CacheRequestTransport.                                                  *)
(*                                                                         *)
(* No store call suspends, so the check and the start of the request are   *)
(* one step, and so are the end of the request and store().  In between    *)
(* the task awaits the inner transport and everything else may happen.     *)
(* A response is a version: the number of the request that produced it.    *)
(***************************************************************************)
EXTENDS Integers

CONSTANTS
  Task,       \* asyncio tasks, each with one request at a time
  Key,        \* idempotency keys that callers supply
  Body,       \* what the fingerprint of the request tells apart
  MaxSends,   \* bounds the requests handed to the inner transport
  NoEntry

ASSUME SendsAssumption == MaxSends \in Nat
ASSUME RequestAssumption == Key # {} /\ Body # {}

VARIABLES
  cache,     \* [Key -> StoredResponse], NoEntry when there is none
  pc,        \* "ready" or "sent"
  request,   \* the key and body of each task's latest request
  version,   \* the version its latest request was given
  answer,    \* the version its caller was answered with, 0 for an error
  sent,      \* requests handed to the inner transport so far
  promised   \* history: keys with a success answered and not yet expired

vars == <<cache, pc, request, version, answer, sent, promised>>

StoredResponse == [version : 1 .. MaxSends, body : Body, expired : BOOLEAN]
Request        == [key : Key, body : Body]

ASSUME NoEntryAssumption == NoEntry \notin StoredResponse

Init ==
  /\ cache    = [k \in Key |-> NoEntry]
  /\ pc       = [t \in Task |-> "ready"]
  /\ request  = [t \in Task |-> CHOOSE r \in Request : TRUE]
  /\ version  = [t \in Task |-> 0]
  /\ answer   = [t \in Task |-> 0]
  /\ sent     = 0
  /\ promised = {}

-----------------------------------------------------------------------------
\* The keys for which MemoryCacheStore.get returns a response.
Stored == {k \in Key : cache[k] # NoEntry /\ ~ cache[k].expired}

Answered(t, v) ==
  /\ pc'       = [pc EXCEPT ![t] = "ready"]
  /\ answer'   = [answer EXCEPT ![t] = v]
  /\ promised' = IF v = 0 THEN promised ELSE promised \cup {request'[t].key}

\* Mutated form: without the comparison of fingerprints.
CheckAnyBody(t, r) ==
  /\ pc[t] = "ready" /\ r.key \in Stored
  /\ request' = [request EXCEPT ![t] = r]
  /\ version' = [version EXCEPT ![t] = 0]
  /\ Answered(t, cache[r.key].version)
  /\ UNCHANGED <<cache, sent>>

\* check() finds a response: replay it, or raise IdempotencyConflictError when
\* it belongs to another request.
Check(t, r) ==
  /\ pc[t] = "ready" /\ r.key \in Stored
  /\ request' = [request EXCEPT ![t] = r]
  /\ version' = [version EXCEPT ![t] = 0]
  /\ Answered(t, IF cache[r.key].body = r.body THEN cache[r.key].version ELSE 0)
  /\ UNCHANGED <<cache, sent>>

\* check() finds none, removing an expired one: the request goes out.
Send(t, r) ==
  /\ pc[t] = "ready" /\ r.key \notin Stored /\ sent < MaxSends
  /\ cache'   = [cache EXCEPT ![r.key] = NoEntry]
  /\ request' = [request EXCEPT ![t] = r]
  /\ version' = [version EXCEPT ![t] = sent + 1]
  /\ pc'      = [pc EXCEPT ![t] = "sent"]
  /\ answer'  = [answer EXCEPT ![t] = 0]
  /\ sent'    = sent + 1
  /\ UNCHANGED promised

\* A 2xx response is stored, whatever is stored by now, and returned.
Succeed(t) ==
  /\ pc[t] = "sent"
  /\ cache' = [cache EXCEPT ![request[t].key] =
                 [version |-> version[t], body |-> request[t].body, expired |-> FALSE]]
  /\ UNCHANGED <<request, version, sent>>
  /\ Answered(t, version[t])

\* Mutated form: an error invalidates the key.
FailInvalidates(t) ==
  /\ pc[t] = "sent"
  /\ cache' = [cache EXCEPT ![request[t].key] = NoEntry]
  /\ UNCHANGED <<request, version, sent>>
  /\ Answered(t, 0)

\* Any other response, an exception or a cancellation: nothing is stored.
Fail(t) ==
  /\ pc[t] = "sent"
  /\ UNCHANGED <<cache, request, version, sent>>
  /\ Answered(t, 0)

-----------------------------------------------------------------------------
\* expires_at passes.
Expire(k) ==
  /\ k \in Stored
  /\ cache'    = [cache EXCEPT ![k].expired = TRUE]
  /\ promised' = promised \ {k}
  /\ UNCHANGED <<pc, request, version, answer, sent>>

\* The clean-up loop removes what has expired.
Cleanup ==
  /\ \E k \in Key : cache[k] # NoEntry /\ cache[k].expired
  /\ cache' = [k \in Key |-> IF k \in Stored THEN cache[k] ELSE NoEntry]
  /\ UNCHANGED <<pc, request, version, answer, sent, promised>>

\* invalidate(key).
Invalidate(k) ==
  /\ cache[k] # NoEntry
  /\ cache'    = [cache EXCEPT ![k] = NoEntry]
  /\ promised' = promised \ {k}
  /\ UNCHANGED <<pc, request, version, answer, sent>>

Next ==
  \/ \E t \in Task : Succeed(t) \/ Fail(t) \/ \E r \in Request : Check(t, r) \/ Send(t, r)
  \/ \E k \in Key : Expire(k) \/ Invalidate(k)
  \/ Cleanup

Spec == Init /\ [][Next]_vars

-----------------------------------------------------------------------------
(* Properties. *)

TypeOK ==
  /\ cache    \in [Key -> StoredResponse \cup {NoEntry}]
  /\ pc       \in [Task -> {"ready", "sent"}]
  /\ request  \in [Task -> Request]
  /\ version  \in [Task -> 0 .. MaxSends]
  /\ answer   \in [Task -> 0 .. MaxSends]
  /\ sent     \in 0 .. MaxSends
  /\ promised \subseteq Key

\* Once some caller was answered with success, its response stays stored until
\* it expires or is invalidated, so that no later duplicate goes out: neither
\* a failing request that was under way at the time nor the clean-up drops it.
PromiseKept == promised \subseteq Stored

\* A caller that is given the response to another request asked for the same
\* thing under the same key, also while requests with that key overlap and
\* store their responses over each other.
ReplayMatches ==
  \A t, u \in Task : answer[t] # 0 /\ answer[t] = version[u] => request[t] = request[u]

\* Why: a version belongs to one request, and what is stored under a key was
\* the response to a request with that key and body.
VersionsAreNew ==
  /\ \A t \in Task : version[t] <= sent /\ answer[t] <= sent
  /\ \A k \in Key : cache[k] # NoEntry => cache[k].version <= sent
  /\ \A t, u \in Task : version[t] = version[u] /\ version[t] # 0 => t = u

StoredMatches ==
  \A k \in Key, t \in Task :
    cache[k] # NoEntry /\ cache[k].version = version[t]
      => request[t] = [key |-> k, body |-> cache[k].body]

SentHasVersion == \A t \in Task : pc[t] = "sent" => version[t] # 0 /\ answer[t] = 0

IInv == /\ TypeOK /\ PromiseKept /\ ReplayMatches
        /\ VersionsAreNew /\ StoredMatches /\ SentHasVersion
=============================================================================
