--------------------------- MODULE IdempotencyProofs ---------------------------
(***************************************************************************)
(* Proofs about Idempotency, for any tasks, keys, bodies and MaxSends.     *)
(***************************************************************************)
EXTENDS Idempotency, TLAPS

LEMMA InvInit == Init => IInv
<1> SUFFICES ASSUME Init PROVE IInv
  OBVIOUS
<1>1. (CHOOSE r \in Request : TRUE) \in Request
  <2>1. PICK k \in Key, b \in Body : TRUE
    BY RequestAssumption
  <2>2. [key |-> k, body |-> b] \in Request
    BY DEF Request
  <2> QED
    BY <2>2
<1>2. TypeOK
  BY <1>1, SendsAssumption DEF Init, TypeOK
<1> QED
  BY <1>2 DEF Init, IInv, PromiseKept, ReplayMatches, VersionsAreNew, StoredMatches,
              SentHasVersion

LEMMA CheckStep ==
  ASSUME IInv, NEW t \in Task, NEW r \in Request, Check(t, r)
  PROVE  IInv'
<1> USE DEF IInv, TypeOK
<1> DEFINE v == IF cache[r.key].body = r.body THEN cache[r.key].version ELSE 0
<1>1. /\ pc[t] = "ready" /\ r.key \in Stored
      /\ cache[r.key] \in StoredResponse
      /\ v \in 0 .. MaxSends
  BY SendsAssumption DEF Check, Stored, StoredResponse, Request
<1>2. /\ cache' = cache /\ sent' = sent
      /\ \A u \in Task : request'[u] = IF u = t THEN r ELSE request[u]
      /\ \A u \in Task : version'[u] = IF u = t THEN 0 ELSE version[u]
      /\ \A u \in Task : answer'[u] = IF u = t THEN v ELSE answer[u]
      /\ \A u \in Task : pc'[u] = IF u = t THEN "ready" ELSE pc[u]
      /\ promised' = IF v = 0 THEN promised ELSE promised \cup {r.key}
  BY DEF Check, Answered
<1>3. TypeOK'
  BY <1>1, SendsAssumption DEF Check, Answered, Request
<1>4. PromiseKept'
  BY <1>1, <1>2 DEF PromiseKept, Stored
<1>5. r.key \in Key /\ r = [key |-> r.key, body |-> r.body]
  BY DEF Request
<1>6. ReplayMatches'
  BY <1>1, <1>2, <1>5 DEF ReplayMatches, StoredMatches, Stored
<1>7. VersionsAreNew'
  BY <1>1, <1>2 DEF VersionsAreNew, Stored
<1>8. StoredMatches'
  BY <1>1, <1>2 DEF StoredMatches, StoredResponse
<1>9. SentHasVersion'
  BY <1>2 DEF SentHasVersion
<1> QED
  BY <1>3, <1>4, <1>6, <1>7, <1>8, <1>9

LEMMA SendStep ==
  ASSUME IInv, NEW t \in Task, NEW r \in Request, Send(t, r)
  PROVE  IInv'
<1> USE DEF IInv, TypeOK
<1>1. /\ r.key \in Key \ Stored
      /\ sent \in Nat /\ sent < MaxSends
      /\ \A k \in Key : cache'[k] = IF k = r.key THEN NoEntry ELSE cache[k]
      /\ \A u \in Task : request'[u] = IF u = t THEN r ELSE request[u]
      /\ \A u \in Task : version'[u] = IF u = t THEN sent + 1 ELSE version[u]
      /\ \A u \in Task : answer'[u] = IF u = t THEN 0 ELSE answer[u]
      /\ \A u \in Task : pc'[u] = IF u = t THEN "sent" ELSE pc[u]
      /\ sent' = sent + 1 /\ promised' = promised
  BY SendsAssumption DEF Send, Request
<1>2. TypeOK'
  BY <1>1, SendsAssumption DEF Send
<1>3. PromiseKept'
  BY <1>1 DEF PromiseKept, Stored
<1>4. \A u \in Task : version[u] \in Nat /\ answer[u] \in Nat
  OBVIOUS
<1>5. VersionsAreNew'
  <2>1. \A u \in Task : version'[u] <= sent' /\ answer'[u] <= sent'
    BY <1>1, <1>4 DEF VersionsAreNew
  <2>2. \A k \in Key : cache'[k] # NoEntry => cache'[k].version <= sent'
    <3> SUFFICES ASSUME NEW k \in Key, cache'[k] # NoEntry
                 PROVE  cache'[k].version <= sent'
      OBVIOUS
    <3>1. cache'[k] = cache[k] /\ cache[k] \in StoredResponse
      BY <1>1
    <3>2. cache[k].version \in Nat /\ cache[k].version <= sent
      BY <1>1, <3>1, SendsAssumption DEF VersionsAreNew, StoredResponse
    <3> QED
      BY <1>1, <3>1, <3>2
  <2>3. \A u, w \in Task : version'[u] = version'[w] /\ version'[u] # 0 => u = w
    BY <1>1, <1>4 DEF VersionsAreNew
  <2> QED
    BY <2>1, <2>2, <2>3 DEF VersionsAreNew
<1>6. ReplayMatches'
  BY <1>1, <1>4 DEF ReplayMatches, VersionsAreNew
<1>7. StoredMatches'
  <2> SUFFICES ASSUME NEW k \in Key, NEW u \in Task,
                      cache'[k] # NoEntry, cache'[k].version = version'[u]
               PROVE  request'[u] = [key |-> k, body |-> cache'[k].body]
    BY DEF StoredMatches
  <2>1. cache'[k] = cache[k] /\ cache[k] \in StoredResponse
    BY <1>1
  <2>2. cache[k].version \in Nat /\ cache[k].version <= sent
    BY <1>1, <2>1, SendsAssumption DEF VersionsAreNew, StoredResponse
  <2>3. u # t
    BY <1>1, <2>1, <2>2
  <2> QED
    BY <1>1, <2>1, <2>3 DEF StoredMatches
<1>8. SentHasVersion'
  BY <1>1 DEF SentHasVersion
<1> QED
  BY <1>2, <1>3, <1>5, <1>6, <1>7, <1>8

LEMMA SucceedStep ==
  ASSUME IInv, NEW t \in Task, Succeed(t)
  PROVE  IInv'
<1> USE DEF IInv, TypeOK
<1> DEFINE e == [version |-> version[t], body |-> request[t].body, expired |-> FALSE]
<1>1. /\ pc[t] = "sent" /\ version[t] # 0 /\ answer[t] = 0
      /\ request[t].key \in Key /\ request[t].body \in Body
      /\ request[t] = [key |-> request[t].key, body |-> request[t].body]
  BY DEF Succeed, SentHasVersion, Request
<1>2. /\ \A k \in Key : cache'[k] = IF k = request[t].key THEN e ELSE cache[k]
      /\ request' = request /\ version' = version /\ sent' = sent
      /\ \A u \in Task : answer'[u] = IF u = t THEN version[t] ELSE answer[u]
      /\ \A u \in Task : pc'[u] = IF u = t THEN "ready" ELSE pc[u]
      /\ promised' = promised \cup {request[t].key}
  BY <1>1 DEF Succeed, Answered
<1>3. e \in StoredResponse /\ e # NoEntry
  <2>1. version[t] \in 1 .. MaxSends
    BY <1>1, SendsAssumption
  <2>2. e \in StoredResponse
    BY <1>1, <2>1 DEF StoredResponse
  <2> QED
    BY <2>2, NoEntryAssumption
<1>4. TypeOK'
  BY <1>1, <1>3 DEF Succeed, Answered
<1>5. PromiseKept'
  BY <1>1, <1>2, <1>3 DEF PromiseKept, Stored
<1>6. ReplayMatches'
  BY <1>1, <1>2 DEF ReplayMatches, VersionsAreNew
<1>7. VersionsAreNew'
  BY <1>1, <1>2 DEF VersionsAreNew
<1>8. StoredMatches'
  BY <1>1, <1>2 DEF StoredMatches, VersionsAreNew
<1>9. SentHasVersion'
  BY <1>2 DEF SentHasVersion
<1> QED
  BY <1>4, <1>5, <1>6, <1>7, <1>8, <1>9

LEMMA FailStep ==
  ASSUME IInv, NEW t \in Task, Fail(t)
  PROVE  IInv'
<1> USE DEF IInv, TypeOK
<1>1. /\ cache' = cache /\ request' = request /\ version' = version /\ sent' = sent
      /\ \A u \in Task : answer'[u] = IF u = t THEN 0 ELSE answer[u]
      /\ \A u \in Task : pc'[u] = IF u = t THEN "ready" ELSE pc[u]
      /\ promised' = promised
  BY DEF Fail, Answered
<1>2. TypeOK'
  BY SendsAssumption DEF Fail, Answered
<1>3. VersionsAreNew'
  BY <1>1 DEF VersionsAreNew
<1> QED
  BY <1>1, <1>2, <1>3 DEF PromiseKept, Stored, ReplayMatches, StoredMatches, SentHasVersion

\* Expiry, clean-up and invalidation only take entries away or mark them.
LEMMA ForgetStep ==
  ASSUME IInv, UNCHANGED <<pc, request, version, answer, sent>>,
         TypeOK', PromiseKept',
         \A k \in Key : cache'[k] # NoEntry =>
           /\ cache[k] # NoEntry
           /\ cache'[k].version = cache[k].version
           /\ cache'[k].body = cache[k].body
  PROVE  IInv'
BY DEF IInv, ReplayMatches, VersionsAreNew, StoredMatches, SentHasVersion

LEMMA ExpireStep ==
  ASSUME IInv, NEW k \in Key, Expire(k)
  PROVE  IInv'
<1> USE DEF IInv, TypeOK
<1>1. /\ cache[k] \in StoredResponse
      /\ \A j \in Key : cache'[j] = IF j = k THEN [cache[k] EXCEPT !.expired = TRUE]
                                    ELSE cache[j]
      /\ promised' = promised \ {k}
  BY DEF Expire, Stored
<1>2. /\ [cache[k] EXCEPT !.expired = TRUE] \in StoredResponse
      /\ [cache[k] EXCEPT !.expired = TRUE].version = cache[k].version
      /\ [cache[k] EXCEPT !.expired = TRUE].body = cache[k].body
  BY <1>1 DEF StoredResponse
<1>3. TypeOK'
  BY <1>1, <1>2 DEF Expire
<1>4. PromiseKept'
  BY <1>1 DEF PromiseKept, Stored
<1>5. cache[k] # NoEntry
  BY DEF Expire, Stored
<1> QED
  BY <1>1, <1>2, <1>3, <1>4, <1>5, ForgetStep DEF Expire

LEMMA CleanupStep == IInv /\ Cleanup => IInv'
<1> SUFFICES ASSUME IInv, Cleanup PROVE IInv'
  OBVIOUS
<1>1. TypeOK'
  BY DEF IInv, TypeOK, Cleanup
<1>2. PromiseKept'
  BY DEF IInv, TypeOK, PromiseKept, Cleanup, Stored
<1> QED
  BY <1>1, <1>2, ForgetStep DEF Cleanup

LEMMA InvalidateStep ==
  ASSUME IInv, NEW k \in Key, Invalidate(k)
  PROVE  IInv'
<1>1. TypeOK'
  BY DEF IInv, TypeOK, Invalidate
<1>2. PromiseKept'
  BY DEF IInv, TypeOK, PromiseKept, Invalidate, Stored
<1> QED
  BY <1>1, <1>2, ForgetStep DEF Invalidate, IInv, TypeOK

THEOREM Inductive == Spec => []IInv
<1>1. ASSUME IInv, [Next]_vars PROVE IInv'
  <2>1. CASE Next
    BY <1>1, <2>1, CheckStep, SendStep, SucceedStep, FailStep, ExpireStep, CleanupStep,
       InvalidateStep DEF Next
  <2>2. CASE UNCHANGED vars
    BY <1>1, <2>2 DEF vars, IInv, TypeOK, PromiseKept, Stored, ReplayMatches,
       VersionsAreNew, StoredMatches, SentHasVersion
  <2> QED
    BY <1>1, <2>1, <2>2
<1> QED
  BY InvInit, <1>1, PTL DEF Spec

\* What a caller was told stays retrievable until it expires or is invalidated.
THEOREM PromisesKept == Spec => []PromiseKept
<1>1. IInv => PromiseKept
  BY DEF IInv
<1> QED
  BY <1>1, Inductive, PTL

\* A replayed response was the response to the same request.
THEOREM ReplaysMatch == Spec => []ReplayMatches
<1>1. IInv => ReplayMatches
  BY DEF IInv
<1> QED
  BY <1>1, Inductive, PTL
=============================================================================
