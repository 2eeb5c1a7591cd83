------------------------ MODULE ConnectionPoolProofs ------------------------
(***************************************************************************)
(* Proofs about ConnectionPool and PoolTransport, for every value of their *)
(* constants.                                                              *)
(***************************************************************************)
EXTENDS PoolTransport, FiniteSetTheorems, SequenceTheorems, WellFoundedInduction, TLAPS

-----------------------------------------------------------------------------
(* Sequences: what the queue holds after an insertion or a removal. *)

LEMMA InsertAtFacts ==
  ASSUME NEW S, NEW s \in Seq(S), NEW e \in S, NEW k \in 1 .. Len(s) + 1
  PROVE  /\ InsertAt(s, k, e) \in Seq(S)
         /\ Len(InsertAt(s, k, e)) = Len(s) + 1
         /\ \A i \in 1 .. Len(s) + 1 :
              InsertAt(s, k, e)[i] = IF i < k THEN s[i]
                                     ELSE IF i = k THEN e ELSE s[i - 1]
<1> DEFINE a == SubSeq(s, 1, k - 1)
           b == SubSeq(s, k, Len(s))
           m == a \o <<e>>
<1>1. /\ a \in Seq(S) /\ Len(a) = k - 1
      /\ \A i \in 1 .. k - 1 : a[i] = s[i]
  <2>1. \A i \in 1 .. k - 1 : s[i] \in S
    BY ElementOfSeq
  <2> QED BY <2>1, SubSeqProperties
<1>2. /\ b \in Seq(S) /\ Len(b) = Len(s) - k + 1
      /\ \A i \in 1 .. Len(s) - k + 1 : b[i] = s[k + i - 1]
  <2>1. \A i \in k .. Len(s) : s[i] \in S
    BY ElementOfSeq
  <2> QED BY <2>1, SubSeqProperties
<1>3. <<e>> \in Seq(S) /\ Len(<<e>>) = 1 /\ <<e>>[1] = e
  OBVIOUS
<1>4. /\ m \in Seq(S) /\ Len(m) = k
      /\ \A i \in 1 .. k : m[i] = IF i < k THEN s[i] ELSE e
  <2> HIDE DEF a
  <2> QED BY <1>1, <1>3, ConcatProperties
<1>5. /\ m \o b \in Seq(S)
      /\ Len(m \o b) = Len(s) + 1
      /\ \A i \in 1 .. Len(s) + 1 :
           (m \o b)[i] = IF i <= k THEN m[i] ELSE b[i - k]
  <2> HIDE DEF a, m, b
  <2>1. /\ m \o b \in Seq(S)
        /\ Len(m \o b) = Len(m) + Len(b)
        /\ \A i \in 1 .. Len(m) + Len(b) :
             (m \o b)[i] = IF i <= Len(m) THEN m[i] ELSE b[i - Len(m)]
    BY <1>2, <1>4, ConcatProperties
  <2>2. Len(m) = k /\ Len(m) + Len(b) = Len(s) + 1
    BY <1>2, <1>4
  <2> QED BY <2>1, <2>2
<1> QED
  <2> HIDE DEF a, b
  <2>1. \A i \in 1 .. Len(s) + 1 :
           (m \o b)[i] = IF i < k THEN s[i] ELSE IF i = k THEN e ELSE s[i - 1]
    <3> HIDE DEF m
    <3> QED BY <1>2, <1>4, <1>5
  <2>2. InsertAt(s, k, e) = m \o b
    BY DEF InsertAt, m, a, b
  <2> QED BY <1>5, <2>1, <2>2

LEMMA RemoveAtFacts ==
  ASSUME NEW S, NEW s \in Seq(S), NEW k \in 1 .. Len(s)
  PROVE  /\ RemoveAt(s, k) \in Seq(S)
         /\ Len(RemoveAt(s, k)) = Len(s) - 1
         /\ \A i \in 1 .. Len(s) - 1 :
              RemoveAt(s, k)[i] = IF i < k THEN s[i] ELSE s[i + 1]
<1> DEFINE a == SubSeq(s, 1, k - 1)
           b == SubSeq(s, k + 1, Len(s))
<1>1. /\ a \in Seq(S) /\ Len(a) = k - 1
      /\ \A i \in 1 .. k - 1 : a[i] = s[i]
  <2>1. \A i \in 1 .. k - 1 : s[i] \in S
    BY ElementOfSeq
  <2> QED BY <2>1, SubSeqProperties
<1>2. /\ b \in Seq(S) /\ Len(b) = Len(s) - k
      /\ \A i \in 1 .. Len(s) - k : b[i] = s[k + i]
  <2>1. \A i \in k + 1 .. Len(s) : s[i] \in S
    BY ElementOfSeq
  <2> QED BY <2>1, SubSeqProperties
<1>3. /\ a \o b \in Seq(S)
      /\ Len(a \o b) = Len(s) - 1
      /\ \A i \in 1 .. Len(s) - 1 : (a \o b)[i] = IF i < k THEN a[i] ELSE b[i - k + 1]
  <2> HIDE DEF a, b
  <2>1. /\ a \o b \in Seq(S)
        /\ Len(a \o b) = Len(a) + Len(b)
        /\ \A i \in 1 .. Len(a) + Len(b) :
             (a \o b)[i] = IF i <= Len(a) THEN a[i] ELSE b[i - Len(a)]
    BY <1>1, <1>2, ConcatProperties
  <2>2. Len(a) = k - 1 /\ Len(a) + Len(b) = Len(s) - 1
    BY <1>1, <1>2
  <2>3. \A i \in 1 .. Len(s) - 1 :
          (a \o b)[i] = IF i <= k - 1 THEN a[i] ELSE b[i - (k - 1)]
    BY <2>1, <2>2
  <2>4. \A i \in 1 .. Len(s) - 1 : (i <= k - 1 <=> i < k) /\ i - (k - 1) = i - k + 1
    OBVIOUS
  <2> QED BY <2>1, <2>2, <2>3, <2>4
<1>4. RemoveAt(s, k) = a \o b
  BY DEF RemoveAt
<1>5. \A i \in 1 .. Len(s) - 1 : (a \o b)[i] = IF i < k THEN s[i] ELSE s[i + 1]
  <2> SUFFICES ASSUME NEW i \in 1 .. Len(s) - 1
               PROVE  (a \o b)[i] = IF i < k THEN s[i] ELSE s[i + 1]
    OBVIOUS
  <2> HIDE DEF a, b
  <2>1. CASE i < k
    BY <1>1, <1>3, <2>1
  <2>2. CASE ~ (i < k)
    <3>1. i - k + 1 \in 1 .. Len(s) - k /\ k + (i - k + 1) = i + 1
      BY <2>2
    <3>2. b[i - k + 1] = s[k + (i - k + 1)]
      BY <1>2, <3>1
    <3> QED BY <1>3, <2>2, <3>1, <3>2
  <2> QED BY <2>1, <2>2
<1> QED
  <2> HIDE DEF a, b
  <2> QED BY <1>3, <1>4, <1>5

\* The first lower priority exists: _insert_by_priority always finds a place.
LEMMA SlotInRange ==
  ASSUME TypeOK, NEW p \in Priority
  PROVE  /\ Slot(p) \in 1 .. Len(queue) + 1
         /\ \A j \in 1 .. Slot(p) - 1 : queue[j].priority >= p
         /\ Slot(p) <= Len(queue) => queue[Slot(p)].priority < p
<1> DEFINE Lower == {i \in 1 .. Len(queue) + 1 : i <= Len(queue) => queue[i].priority < p}
<1>1. Lower \in SUBSET Nat /\ Len(queue) + 1 \in Lower
  BY DEF TypeOK
<1>2. PICK i \in Lower : \A j \in Lower : i <= j
  <2> DEFINE Less == OpToRel(<, Nat)
  <2> HIDE DEF Lower
  <2>1. \A a, b \in Nat : <<a, b>> \in Less <=> a < b
    BY DEF OpToRel
  <2>2. IsWellFoundedOn(Less, Nat)
    BY NatLessThanWellFounded
  <2> HIDE DEF Less
  <2>3. \E b \in Lower : \A a \in Lower : ~ (<<a, b>> \in Less)
    BY <1>1, <2>2, WFMin
  <2>4. PICK b \in Lower : \A a \in Lower : ~ (<<a, b>> \in Less)
    BY <2>3
  <2>5. \A a \in Lower : a \in Nat
    BY <1>1
  <2>6. \A a \in Lower : ~ (a < b)
    BY <2>1, <2>4, <2>5
  <2>7. \A a \in Lower : b <= a
    BY <2>5, <2>6
  <2> QED BY <2>7
<1>3. \A j \in 1 .. Len(queue) : queue[j].priority \in Int
  <2>1. \A j \in 1 .. Len(queue) : queue[j] \in Pending
    BY ElementOfSeq DEF TypeOK
  <2> QED BY <2>1, ConstantAssumption DEF Pending
<1>4. p \in Int
  BY ConstantAssumption
<1>5. \A j \in 1 .. i - 1 : queue[j].priority >= p
  <2> SUFFICES ASSUME NEW j \in 1 .. i - 1 PROVE queue[j].priority >= p
    OBVIOUS
  <2>1. j \notin Lower
    <3> HIDE DEF Lower
    <3> QED BY <1>1, <1>2
  <2>2. j \in 1 .. Len(queue)
    BY <1>1, <1>2 DEF TypeOK
  <2> QED BY <1>3, <1>4, <2>1, <2>2
<1> DEFINE At(k) == /\ \A j \in 1 .. k - 1 : queue[j].priority >= p
                    /\ k <= Len(queue) => queue[k].priority < p
<1>6. i \in 1 .. Len(queue) + 1 /\ At(i)
  BY <1>2, <1>5
<1>7. Slot(p) = CHOOSE k \in 1 .. Len(queue) + 1 : At(k)
  BY DEF Slot
<1>8. Slot(p) \in 1 .. Len(queue) + 1 /\ At(Slot(p))
  <2> HIDE DEF At, Lower
  <2> QED BY <1>6, <1>7
<1> QED BY <1>8

-----------------------------------------------------------------------------
(* The store: what each of its operations does to the sets of live and     *)
(* idle connections, and that the limits survive it.                       *)

StoreTypeOK ==
  /\ state   \in [Conn -> States]
  /\ host    \in [Conn -> Host]
  /\ aged    \subseteq Conn
  /\ rested  \subseteq Conn
  /\ balance \in Int

LEMMA IdleIsLive == Idle \subseteq Live /\ Active \subseteq Live
BY DEF Idle, Active, Live

LEMMA ReuseKeeps ==
  ASSUME StoreTypeOK, StoreInv, NEW c \in Idle, Reuse(c)
  PROVE  /\ StoreTypeOK' /\ StoreInv'
         /\ Live' = Live /\ balance' = balance
<1>1. c \in Conn /\ state[c] = "idle"
  BY DEF Idle
<1>2. StoreTypeOK'
  BY <1>1 DEF StoreTypeOK, Reuse, States
<1>3. Live' = Live /\ Idle' = Idle \ {c} /\ \A h : LiveOn(h)' = LiveOn(h)
  BY <1>1 DEF StoreTypeOK, Reuse, Live, LiveOn, Idle, States
<1>4. Cardinality(Idle') <= MaxIdle
  <2>1. IsFiniteSet(Idle) /\ Cardinality(Idle) \in Nat
    BY IdleIsLive, FS_Subset, FS_CardinalityType DEF StoreInv
  <2>2. Cardinality(Idle \ {c}) = Cardinality(Idle) - 1
    BY <2>1, FS_RemoveElement
  <2> QED BY <1>3, <2>1, <2>2, LimitAssumption DEF StoreInv, IdleBound
<1> QED
  BY <1>2, <1>3, <1>4 DEF StoreInv, Capacity, IdleBound, Reuse

LEMMA CreateKeeps ==
  ASSUME StoreTypeOK, StoreInv, NEW c \in Conn \ Live, NEW h \in Host,
         HasRoom(h), Create(c, h)
  PROVE  /\ StoreTypeOK' /\ StoreInv'
         /\ Live' = Live \cup {c}
         /\ balance' = balance + 1
         /\ Cardinality(Live)' = Cardinality(Live) + 1
<1>1. StoreTypeOK'
  BY DEF StoreTypeOK, Create, States
<1>2. /\ Live' = Live \cup {c}
      /\ Idle' = Idle
      /\ LiveOn(h)' = LiveOn(h) \cup {c}
      /\ \A k : k # h => LiveOn(k)' = LiveOn(k)
  BY DEF StoreTypeOK, Create, Live, LiveOn, Idle, States
<1>3. IsFiniteSet(Live) /\ Cardinality(Live) \in Nat
  BY FS_CardinalityType DEF StoreInv
<1>4. IsFiniteSet(Live') /\ Cardinality(Live') = Cardinality(Live) + 1
  BY <1>2, <1>3, FS_AddElement
<1>5. Cardinality(LiveOn(h)') <= MaxPerHost
  <2>1. LiveOn(h) \subseteq Live /\ c \notin LiveOn(h)
    BY DEF LiveOn
  <2>2. IsFiniteSet(LiveOn(h)) /\ Cardinality(LiveOn(h)) \in Nat
    BY <1>3, <2>1, FS_Subset, FS_CardinalityType
  <2>3. Cardinality(LiveOn(h)') = Cardinality(LiveOn(h)) + 1
    <3>1. Cardinality(LiveOn(h) \cup {c}) =
            IF c \in LiveOn(h) THEN Cardinality(LiveOn(h)) ELSE Cardinality(LiveOn(h)) + 1
      BY <2>2, FS_AddElement
    <3> QED BY <1>2, <2>1, <3>1
  <2> QED BY <2>2, <2>3, LimitAssumption DEF HasRoom
<1>6. Capacity'
  BY <1>2, <1>3, <1>4, <1>5, LimitAssumption DEF Capacity, StoreInv, HasRoom
<1> QED
  BY <1>1, <1>2, <1>4, <1>6 DEF StoreInv, IdleBound, Create

LEMMA ObtainKeeps ==
  ASSUME StoreTypeOK, StoreInv, NEW c \in Conn, NEW h \in Host, Obtain(c, h)
  PROVE  /\ StoreTypeOK' /\ StoreInv'
         /\ balance = Cardinality(Live) => balance' = Cardinality(Live)'
         /\ c \in Idle \/ Fresh(c)
         /\ state' = [state EXCEPT ![c] = "active"]
<1>1. CASE c \in IdleOn(h) /\ Reuse(c)
  BY <1>1, ReuseKeeps DEF IdleOn, Reuse
<1>2. CASE HasRoom(h) /\ Fresh(c) /\ Create(c, h)
  BY <1>2, CreateKeeps DEF Fresh, Create
<1> QED
  BY <1>1, <1>2 DEF Obtain

LEMMA AnyHostInHost == AnyHost \in Host
BY HostAssumption DEF AnyHost

LEMMA CloseKeeps ==
  ASSUME StoreTypeOK, StoreInv, NEW S \in SUBSET Conn, IsFiniteSet(S), Close(S)
  PROVE  /\ StoreTypeOK' /\ StoreInv'
         /\ Live' = Live \ S
         /\ S \subseteq Live /\ balance = Cardinality(Live)
              => balance' = Cardinality(Live)'
<1>1. Cardinality(S) \in Nat
  BY FS_CardinalityType
<1>2. StoreTypeOK'
  <2>1. state' \in [Conn -> States] /\ balance' \in Int
    BY <1>1 DEF StoreTypeOK, Close, States
  <2>2. host' \in [Conn -> Host]
    BY AnyHostInHost DEF StoreTypeOK, Close
  <2> QED BY <2>1, <2>2 DEF StoreTypeOK, Close
<1>3. /\ Live' = Live \ S
      /\ Idle' = Idle \ S
      /\ \A h : LiveOn(h)' = LiveOn(h) \ S
  BY DEF StoreTypeOK, Close, Live, LiveOn, Idle, States
<1>4. IsFiniteSet(Live) /\ Cardinality(Live) \in Nat
  BY FS_CardinalityType DEF StoreInv
<1>5. ASSUME NEW T, T \subseteq Live
      PROVE  /\ IsFiniteSet(T \ S)
             /\ Cardinality(T \ S) <= Cardinality(T)
             /\ Cardinality(T \ S) \in Nat /\ Cardinality(T) \in Nat
  <2>1. IsFiniteSet(T)
    BY <1>4, <1>5, FS_Subset
  <2>2. T \ S \subseteq T
    OBVIOUS
  <2> QED BY <2>1, <2>2, FS_Subset, FS_CardinalityType
<1>6. StoreInv'
  <2>1. IsFiniteSet(Live') /\ Cardinality(Live') <= MaxConnections
    BY <1>3, <1>4, <1>5, LimitAssumption DEF StoreInv, Capacity
  <2>2. Cardinality(Idle') <= MaxIdle
    BY <1>3, <1>5, IdleIsLive, LimitAssumption DEF StoreInv, IdleBound
  <2>3. ASSUME NEW h \in Host PROVE Cardinality(LiveOn(h)') <= MaxPerHost
    <3>1. LiveOn(h) \subseteq Live /\ Cardinality(LiveOn(h)) <= MaxPerHost
      BY DEF LiveOn, StoreInv, Capacity
    <3> QED BY <1>3, <1>5, <3>1, LimitAssumption
  <2> QED BY <2>1, <2>2, <2>3 DEF StoreInv, Capacity, IdleBound
<1>7. ASSUME S \subseteq Live, balance = Cardinality(Live)
      PROVE  balance' = Cardinality(Live)'
  <2>1. Live \cap S = S
    BY <1>7
  <2>2. Cardinality(Live \ S) = Cardinality(Live) - Cardinality(Live \cap S)
    BY <1>4, FS_Difference
  <2> QED BY <1>3, <1>7, <2>1, <2>2 DEF Close
<1> QED
  BY <1>2, <1>3, <1>6, <1>7

\* The connection goes back as idle: there was room for one more.
LEMMA KeepIdleKeeps ==
  ASSUME StoreTypeOK, StoreInv, NEW c \in Live, Cardinality(Idle) < MaxIdle,
         state' = [state EXCEPT ![c] = "idle"], rested' = rested \ {c},
         UNCHANGED <<host, aged, balance>>
  PROVE  StoreTypeOK' /\ StoreInv' /\ Live' = Live
<1>1. StoreTypeOK'
  BY DEF StoreTypeOK, States
<1>2. /\ Live' = Live
      /\ Idle' = Idle \cup {c}
      /\ \A h : LiveOn(h)' = LiveOn(h)
  BY DEF StoreTypeOK, Live, LiveOn, Idle, States
<1>3. IsFiniteSet(Idle) /\ Cardinality(Idle) \in Nat
  BY IdleIsLive, FS_Subset, FS_CardinalityType DEF StoreInv
<1>4. Cardinality(Idle') <= Cardinality(Idle) + 1
  <2>1. Cardinality(Idle \cup {c}) =
          IF c \in Idle THEN Cardinality(Idle) ELSE Cardinality(Idle) + 1
    BY <1>3, FS_AddElement
  <2> QED BY <1>2, <1>3, <2>1
<1>5. IdleBound'
  <2>1. Cardinality(Idle') \in Nat
    BY <1>2, <1>3, FS_AddElement
  <2> QED BY <1>3, <1>4, <2>1, LimitAssumption DEF IdleBound
<1> QED
  BY <1>1, <1>2, <1>5 DEF StoreInv, Capacity

-----------------------------------------------------------------------------
(* The queue and the tasks that wait in it: the same fact as               *)
(* QueueMatchesWaiters, by index, of any queue q and control state p.      *)

Matches(q, p) ==
  /\ \A t \in Task : p[t] = "queued" <=> \E i \in 1 .. Len(q) : q[i].task = t
  /\ \A i, j \in 1 .. Len(q) : q[i].task = q[j].task /\ q[i].task # NoTask => i = j

LEMMA MatchesByIndex ==
  ASSUME NEW q \in Seq(Pending), NEW p \in [Task -> PCs]
  PROVE  Matches(q, p) <=>
           /\ {t \in Task : p[t] = "queued"} = {q[i].task : i \in DOMAIN q} \ {NoTask}
           /\ \A i, j \in DOMAIN q :
                q[i].task = q[j].task /\ q[i].task # NoTask => i = j
<1>1. DOMAIN q = 1 .. Len(q)
  OBVIOUS
<1>2. \A i \in 1 .. Len(q) : q[i] \in Pending /\ q[i].task \in Task \cup {NoTask}
  <2>1. \A i \in 1 .. Len(q) : q[i] \in Pending
    BY ElementOfSeq
  <2> QED BY <2>1 DEF Pending
<1>3. (\A t \in Task : p[t] = "queued" <=> \E i \in 1 .. Len(q) : q[i].task = t)
      <=> {t \in Task : p[t] = "queued"} = {q[i].task : i \in DOMAIN q} \ {NoTask}
  BY <1>1, <1>2, ConstantAssumption
<1> QED
  BY <1>1, <1>3 DEF Matches

\* An entry is inserted into the queue.
LEMMA PendingInserted ==
  ASSUME NEW q, NEW e, NEW k,
         q \in Seq(Pending), e \in Pending, k \in 1 .. Len(q) + 1
  PROVE  /\ InsertAt(q, k, e) \in Seq(Pending)
         /\ Len(InsertAt(q, k, e)) = Len(q) + 1
         /\ \A i \in 1 .. Len(q) + 1 :
              InsertAt(q, k, e)[i] = IF i < k THEN q[i] ELSE IF i = k THEN e ELSE q[i - 1]
BY SMTT(30), InsertAtFacts

LEMMA InsertMatches ==
  ASSUME NEW q \in Seq(Pending), NEW p \in [Task -> PCs], Matches(q, p),
         NEW e \in Pending, e.task \in Task, p[e.task] # "queued",
         NEW k \in 1 .. Len(q) + 1
  PROVE  Matches(InsertAt(q, k, e), [p EXCEPT ![e.task] = "queued"])
<1> DEFINE r == InsertAt(q, k, e)
           o == [p EXCEPT ![e.task] = "queued"]
<1>1. /\ Len(r) = Len(q) + 1
      /\ \A i \in 1 .. Len(q) + 1 :
           r[i] = IF i < k THEN q[i] ELSE IF i = k THEN e ELSE q[i - 1]
  BY PendingInserted
<1>2. \A i \in 1 .. Len(q) : q[i].task # e.task
  BY DEF Matches
<1> HIDE DEF r
<1>3. \A i, j \in 1 .. Len(r) : r[i].task = r[j].task /\ r[i].task # NoTask => i = j
  <2> SUFFICES ASSUME NEW i \in 1 .. Len(r), NEW j \in 1 .. Len(r),
                      r[i].task = r[j].task, r[i].task # NoTask
               PROVE  i = j
    OBVIOUS
  <2> DEFINE Old(n) == IF n < k THEN n ELSE n - 1
  <2>1. \A n \in 1 .. Len(r) : n # k => r[n] = q[Old(n)] /\ Old(n) \in 1 .. Len(q)
    BY <1>1
  <2>2. \A n \in 1 .. Len(r) : n # k => r[n].task # e.task
    <3> HIDE DEF Old
    <3> QED BY <1>2, <2>1
  <2>3. r[k].task = e.task
    BY <1>1
  <2>4. CASE i = k \/ j = k
    BY <2>2, <2>3, <2>4
  <2>5. CASE i # k /\ j # k
    <3>1. Old(i) = Old(j)
      <4> HIDE DEF Old
      <4> QED BY <2>1, <2>5 DEF Matches
    <3> QED BY <2>5, <3>1
  <2> QED BY <2>4, <2>5
<1>4. ASSUME NEW t \in Task
      PROVE  o[t] = "queued" <=> \E i \in 1 .. Len(r) : r[i].task = t
  <2>1. CASE t = e.task
    <3>1. k \in 1 .. Len(r) /\ r[k] = e
      BY <1>1
    <3> QED BY <2>1, <3>1
  <2>2. CASE t # e.task
    <3>1. o[t] = p[t]
      BY <2>2
    <3>2. ASSUME NEW i \in 1 .. Len(q), q[i].task = t
          PROVE  \E j \in 1 .. Len(r) : r[j].task = t
      <4>1. CASE i < k
        BY <1>1, <3>2, <4>1
      <4>2. CASE ~ (i < k)
        <5>1. i + 1 \in 1 .. Len(r) /\ r[i + 1] = q[i]
          BY <1>1, <4>2
        <5> QED BY <3>2, <5>1
      <4> QED BY <4>1, <4>2
    <3>3. ASSUME NEW j \in 1 .. Len(r), r[j].task = t
          PROVE  \E i \in 1 .. Len(q) : q[i].task = t
      <4>1. j # k
        BY <1>1, <2>2, <3>3
      <4>2. CASE j < k
        BY <1>1, <3>3, <4>2
      <4>3. CASE j > k
        <5>1. j - 1 \in 1 .. Len(q) /\ r[j] = q[j - 1]
          BY <1>1, <4>3
        <5> QED BY <3>3, <5>1
      <4> QED BY <4>1, <4>2, <4>3
    <3> QED BY <3>1, <3>2, <3>3 DEF Matches
  <2> QED BY <2>1, <2>2
<1> QED
  <2> HIDE DEF o
  <2>1. Matches(r, o)
    BY <1>3, <1>4 DEF Matches
  <2> QED BY <2>1 DEF r, o

\* r is q without its entry k, and the task of that entry waits no more.
LEMMA RemoveMatches ==
  ASSUME NEW q \in Seq(Pending), NEW p \in [Task -> PCs], Matches(q, p),
         NEW k \in 1 .. Len(q), NEW r, Len(r) = Len(q) - 1,
         \A i \in 1 .. Len(q) - 1 : r[i] = IF i < k THEN q[i] ELSE q[i + 1],
         NEW v, v # "queued"
  PROVE  Matches(r, [t \in Task |-> IF t = q[k].task THEN v ELSE p[t]])
<1> DEFINE o == [t \in Task |-> IF t = q[k].task THEN v ELSE p[t]]
           At(n) == IF n < k THEN n ELSE n + 1
<1>1. \A i \in 1 .. Len(r) : r[i] = q[At(i)] /\ At(i) \in 1 .. Len(q) /\ At(i) # k
  OBVIOUS
<1>2. \A i, j \in 1 .. Len(r) : At(i) = At(j) => i = j
  OBVIOUS
<1>3. \A n \in 1 .. Len(q) : n # k => \E i \in 1 .. Len(r) : At(i) = n
  <2> SUFFICES ASSUME NEW n \in 1 .. Len(q), n # k
               PROVE  \E i \in 1 .. Len(r) : At(i) = n
    OBVIOUS
  <2>1. CASE n < k
    BY <2>1
  <2>2. CASE n > k
    <3>1. n - 1 \in 1 .. Len(r) /\ At(n - 1) = n
      BY <2>2
    <3> QED BY <3>1
  <2> QED BY <2>1, <2>2
<1>4. \A i, j \in 1 .. Len(r) : r[i].task = r[j].task /\ r[i].task # NoTask => i = j
  <2> HIDE DEF At
  <2> QED BY <1>1, <1>2 DEF Matches
<1>5. ASSUME NEW t \in Task
      PROVE  o[t] = "queued" <=> \E i \in 1 .. Len(r) : r[i].task = t
  <2> HIDE DEF At
  <2>1. CASE t = q[k].task
    <3>1. t # NoTask
      BY ConstantAssumption
    <3>2. \A i \in 1 .. Len(r) : r[i].task # t
      BY <1>1, <2>1, <3>1 DEF Matches
    <3> QED BY <2>1, <3>2
  <2>2. CASE t # q[k].task
    <3>1. o[t] = p[t]
      BY <2>2
    <3>2. ASSUME NEW i \in 1 .. Len(r), r[i].task = t
          PROVE  \E n \in 1 .. Len(q) : q[n].task = t
      BY <1>1, <3>2
    <3>3. ASSUME NEW n \in 1 .. Len(q), q[n].task = t
          PROVE  \E i \in 1 .. Len(r) : r[i].task = t
      <4>1. PICK i \in 1 .. Len(r) : At(i) = n
        BY <1>3, <2>2, <3>3
      <4> QED BY <1>1, <3>3, <4>1
    <3> QED BY <3>1, <3>2, <3>3 DEF Matches
  <2> QED BY <2>1, <2>2
<1> QED
  <2> HIDE DEF o
  <2>1. Matches(r, o)
    BY <1>4, <1>5 DEF Matches
  <2> QED BY <2>1 DEF o

LEMMA QueueMatchesByIndex ==
  ASSUME TypeOK PROVE QueueMatchesWaiters <=> Matches(queue, pc)
<1>1. queue \in Seq(Pending) /\ pc \in [Task -> PCs]
  BY DEF TypeOK
<1> QED
  BY <1>1, MatchesByIndex DEF QueueMatchesWaiters, Waiting

LEMMA InitIInv == Init => IInv
<1> SUFFICES ASSUME Init PROVE IInv
  OBVIOUS
<1>1. Live = {} /\ Idle = {} /\ \A h : LiveOn(h) = {}
  BY DEF Init, Live, Idle, LiveOn
<1>2. IsFiniteSet({}) /\ Cardinality({}) = 0
  BY FS_EmptySet
<1>3. StoreInv /\ StatsAgree
  <2>1. IsFiniteSet(Live) /\ Cardinality(Live) = 0 /\ Cardinality(Idle) = 0
    BY <1>1, <1>2
  <2>2. \A h \in Host : Cardinality(LiveOn(h)) = 0
    BY <1>1, <1>2
  <2>3. StatsAgree
    BY <2>1 DEF Init, StatsAgree
  <2> QED BY <2>1, <2>2, <2>3, LimitAssumption DEF StoreInv, Capacity, IdleBound
<1>4. TypeOK
  <2>1. host \in [Conn -> Host]
    BY AnyHostInHost DEF Init
  <2>2. << >> \in Seq(Pending)
    BY EmptySeq
  <2> QED BY <2>1, <2>2 DEF Init, TypeOK, States, PCs, Turns, Phases
<1>5. OwnerInv
  BY DEF Init, OwnerInv, ExclusiveUse, HandleMatches, HeldNotIdle, Owns
<1>6. QueueInv
  <2>1. Waiting = {} /\ DOMAIN queue = {}
    BY DEF Init, Waiting
  <2> QED BY <2>1 DEF Init, QueueInv, QueueMatchesWaiters, ServingIsOpen, ClosedIsEmpty
<1> QED
  BY <1>3, <1>4, <1>5, <1>6 DEF IInv, PoolInv

LEMMA QueueMatchesPrimed ==
  ASSUME queue' \in Seq(Pending), pc' \in [Task -> PCs], Matches(queue', pc')
  PROVE  QueueMatchesWaiters'
BY MatchesByIndex DEF QueueMatchesWaiters, Waiting

\* Owners only let go, and the connection of one that goes on is left alone
\* (or the pool is closed now, or it failed).
LEMMA OwnersShrink ==
  ASSUME TypeOK, OwnerInv,
         pc' \in [Task -> PCs], handle' \in [Task -> Conn \cup {NoConn}],
         \A u \in Task :
           \/ Owns(u) /\ Owns(u)' /\ handle'[u] = handle[u]
              /\ (pc'[u] # "finally" => pc[u] # "finally")
              /\ \/ state'[handle[u]] = state[handle[u]]
                 \/ /\ phase' = "closed" \/ pc'[u] = "finally"
                    /\ state'[handle[u]] = "absent"
           \/ ~ Owns(u)' /\ handle'[u] = NoConn,
         phase = "closed" => phase' = "closed",
         state' \in [Conn -> States]
  PROVE  OwnerInv'
<1>1. ExclusiveUse'
  <2>1. \A t, u \in Task : Owns(t)' /\ handle'[t] = handle'[u] => t = u
    BY ConstantAssumption DEF OwnerInv, ExclusiveUse, HandleMatches, TypeOK
  <2>2. ASSUME phase' # "closed", NEW t \in Task, pc'[t] \in {"granted", "using"}
        PROVE  handle'[t] \in Active'
    BY <2>2 DEF OwnerInv, ExclusiveUse, HandleMatches, TypeOK, Owns, Active
  <2> QED BY <2>1, <2>2 DEF ExclusiveUse
<1>2. HandleMatches'
  BY DEF OwnerInv, HandleMatches, TypeOK
<1>3. HeldNotIdle'
  BY DEF OwnerInv, HeldNotIdle, HandleMatches, TypeOK, Idle
<1> QED
  BY <1>1, <1>2, <1>3 DEF OwnerInv

LEMMA StoreUnchanged ==
  ASSUME StoreInv, UNCHANGED <<state, host>> PROVE StoreInv' /\ Live' = Live
BY DEF StoreInv, Capacity, IdleBound, Live, LiveOn, Idle

-----------------------------------------------------------------------------
(* One lemma per action: the invariant survives it, and the statistics     *)
(* that were right stay right.                                             *)

StatsKept == StatsAgree => StatsAgree'

LEMMA AcquireNowKeeps ==
  ASSUME PoolInv, NEW t \in Task, NEW h \in Host, AcquireNow(t, h)
  PROVE  PoolInv' /\ StatsKept
<1>1. PICK c \in Conn : Obtain(c, h) /\ handle' = [handle EXCEPT ![t] = c]
  BY DEF AcquireNow
<1>2. StoreTypeOK /\ StoreInv
  BY DEF PoolInv, TypeOK, StoreTypeOK
<1>3. /\ StoreTypeOK' /\ StoreInv'
      /\ balance = Cardinality(Live) => balance' = Cardinality(Live)'
      /\ c \in Idle \/ Fresh(c)
      /\ state' = [state EXCEPT ![c] = "active"]
  BY <1>1, <1>2, ObtainKeeps
<1>4. /\ turn = "loop" /\ phase = "open" /\ pc[t] = "ready"
      /\ pc' = [pc EXCEPT ![t] = "using"]
      /\ UNCHANGED <<queue, turn, phase>>
  BY DEF AcquireNow
<1>5. TypeOK'
  BY <1>1, <1>3, <1>4 DEF PoolInv, TypeOK, StoreTypeOK, PCs
<1>6. StatsKept
  BY <1>3, <1>4 DEF PoolInv, StatsKept, StatsAgree
<1>7. OwnerInv'
  <2>1. \A u \in Task : Owns(u) => handle[u] # c
    BY <1>3 DEF PoolInv, OwnerInv, HeldNotIdle, Fresh
  <2> QED BY <1>1, <1>2, <1>3, <1>4, <2>1, ConstantAssumption
     DEF PoolInv, TypeOK, OwnerInv, ExclusiveUse, HandleMatches, HeldNotIdle, Owns,
         Active, Idle, StoreTypeOK
<1>8. QueueInv'
  <2>1. Waiting' = Waiting
    BY <1>4 DEF Waiting, PoolInv, TypeOK
  <2> QED BY <1>4, <2>1 DEF PoolInv, QueueInv, QueueMatchesWaiters, ServingIsOpen, ClosedIsEmpty
<1> QED
  BY <1>3, <1>5, <1>6, <1>7, <1>8 DEF PoolInv

LEMMA AcquireLaterKeeps ==
  ASSUME PoolInv, NEW t \in Task, NEW h \in Host, NEW p \in Priority,
         AcquireLater(t, h, p)
  PROVE  PoolInv' /\ StatsKept
<1> DEFINE e == [task |-> t, host |-> h, priority |-> p, timed |-> t \in Timed]
<1> USE DEF AcquireLater
<1>1. TypeOK /\ queue \in Seq(Pending) /\ pc \in [Task -> PCs] /\ Matches(queue, pc)
  BY QueueMatchesByIndex DEF PoolInv, TypeOK, QueueInv
<1>2. e \in Pending /\ e.task = t /\ pc[t] = "ready"
  BY DEF Pending
<1>3. Slot(p) \in 1 .. Len(queue) + 1
  BY <1>1, SlotInRange
<1>4. queue' \in Seq(Pending)
  BY <1>1, <1>2, <1>3, PendingInserted
<1>5. pc' \in [Task -> PCs]
  BY <1>1 DEF PCs
<1>6. TypeOK'
  BY <1>1, <1>4, <1>5 DEF TypeOK, connVars
<1>7. Matches(queue', pc')
  <2> HIDE DEF AcquireLater, e
  <2>1. Matches(InsertAt(queue, Slot(p), e), [pc EXCEPT ![e.task] = "queued"])
    BY <1>1, <1>2, <1>3, InsertMatches
  <2> QED BY <1>2, <2>1 DEF AcquireLater, e
<1>8. StoreInv' /\ StatsKept
  BY StoreUnchanged DEF PoolInv, connVars, StatsKept, StatsAgree
<1>9. OwnerInv'
  <2>1. ~ Owns(t)
    BY <1>2 DEF Owns
  <2>2. handle[t] = NoConn
    BY <2>1 DEF PoolInv, OwnerInv, HandleMatches
  <2>3. \A u \in Task : handle'[u] = handle[u] /\ state' = state /\ phase' = phase
                        /\ (u # t => pc'[u] = pc[u]) /\ pc'[t] = "queued"
    BY <1>1 DEF connVars
  <2> QED BY <1>1, <1>5, <1>6, <2>1, <2>2, <2>3, OwnersShrink
     DEF PoolInv, Owns, OwnerInv, HandleMatches, TypeOK
<1>10. QueueInv'
  <2>1. QueueMatchesWaiters'
    BY <1>4, <1>5, <1>7, QueueMatchesPrimed
  <2> QED BY <2>1 DEF QueueInv, ServingIsOpen, ClosedIsEmpty
<1> QED
  BY <1>6, <1>8, <1>9, <1>10 DEF PoolInv

LEMMA ResumeKeeps ==
  ASSUME PoolInv, NEW t \in Task, Resume(t)
  PROVE  PoolInv' /\ StatsKept
<1> USE DEF Resume
<1>1. TypeOK /\ pc \in [Task -> PCs]
  BY DEF PoolInv, TypeOK
<1>2. pc' \in [Task -> PCs] /\ Waiting' = Waiting
  BY <1>1 DEF PCs, Waiting
<1>3. TypeOK'
  BY <1>1, <1>2 DEF TypeOK, connVars
<1>4. StoreInv' /\ StatsKept /\ Live' = Live
  BY StoreUnchanged DEF PoolInv, connVars, StatsKept, StatsAgree
<1>5. OwnerInv'
  <2>1. \A u \in Task : /\ Owns(u)' <=> Owns(u)
                        /\ pc'[u] # "finally" => pc[u] # "finally"
    BY <1>1 DEF Owns
  <2>2. \A u \in Task : ~ Owns(u) => handle[u] = NoConn
    BY DEF PoolInv, OwnerInv, HandleMatches
  <2> QED BY <1>1, <1>2, <1>3, <2>1, <2>2, OwnersShrink DEF PoolInv, connVars, TypeOK
<1>6. QueueInv'
  BY <1>2, <1>4 DEF PoolInv, QueueInv, QueueMatchesWaiters, ServingIsOpen, ClosedIsEmpty
<1> QED
  BY <1>3, <1>4, <1>5, <1>6 DEF PoolInv

LEMMA TimeoutKeeps ==
  ASSUME PoolInv, NEW i \in DOMAIN queue, Timeout(i)
  PROVE  PoolInv' /\ StatsKept
<1> USE DEF Timeout
<1>1. TypeOK /\ queue \in Seq(Pending) /\ pc \in [Task -> PCs] /\ Matches(queue, pc)
  BY QueueMatchesByIndex DEF PoolInv, TypeOK, QueueInv
<1>2. i \in 1 .. Len(queue)
  BY <1>1
<1>3. /\ queue' \in Seq(Pending)
      /\ Len(queue') = Len(queue) - 1
      /\ \A j \in 1 .. Len(queue) - 1 :
           queue'[j] = IF j < i THEN queue[j] ELSE queue[j + 1]
  BY <1>1, <1>2, RemoveAtFacts
<1>4. pc' \in [Task -> PCs]
  BY <1>1 DEF PCs
<1>5. TypeOK'
  BY <1>1, <1>3, <1>4 DEF TypeOK, connVars
<1>6. Matches(queue', pc')
  <2>1. "refused" # "queued"
    OBVIOUS
  <2>2. Matches(queue', [t \in Task |-> IF t = queue[i].task THEN "refused" ELSE pc[t]])
    <3>1. \A r : /\ Len(r) = Len(queue) - 1
                 /\ \A j \in 1 .. Len(queue) - 1 :
                      r[j] = IF j < i THEN queue[j] ELSE queue[j + 1]
                 => Matches(r, [t \in Task |-> IF t = queue[i].task THEN "refused" ELSE pc[t]])
      BY Zenon, <1>1, <1>2, <2>1, RemoveMatches
    <3> QED BY <1>3, <3>1
  <2> QED BY <2>2
<1>7. StoreInv' /\ StatsKept /\ Live' = Live
  BY StoreUnchanged DEF PoolInv, connVars, StatsKept, StatsAgree
<1>8. OwnerInv'
  <2>1. \A u \in Task : u = queue[i].task => pc[u] = "queued"
    BY <1>1, <1>2 DEF Matches
  <2>2. \A u \in Task : /\ Owns(u)' <=> Owns(u)
                        /\ pc'[u] # "finally" => pc[u] # "finally"
    BY <1>1, <2>1 DEF Owns
  <2>3. \A u \in Task : ~ Owns(u) => handle[u] = NoConn
    BY DEF PoolInv, OwnerInv, HandleMatches
  <2> QED BY <1>1, <1>4, <1>5, <2>2, <2>3, OwnersShrink DEF PoolInv, connVars, TypeOK
<1>9. QueueInv'
  <2>1. QueueMatchesWaiters'
    BY <1>3, <1>4, <1>6, QueueMatchesPrimed
  <2>2. phase' = "closed" => queue = << >>
    BY DEF PoolInv, QueueInv, ClosedIsEmpty
  <2> QED BY <1>2, <2>1, <2>2 DEF PoolInv, QueueInv, ServingIsOpen, ClosedIsEmpty
<1> QED
  BY <1>5, <1>7, <1>8, <1>9 DEF PoolInv

LEMMA CancelKeeps ==
  ASSUME PoolInv, NEW t \in Task, Cancel(t)
  PROVE  PoolInv' /\ StatsKept
<1> USE DEF Cancel
<1>1. TypeOK /\ queue \in Seq(Pending) /\ pc \in [Task -> PCs] /\ Matches(queue, pc)
  BY QueueMatchesByIndex DEF PoolInv, TypeOK, QueueInv
<1>2. /\ queue' \in Seq(Pending)
      /\ Len(queue') = Len(queue)
      /\ \A i \in 1 .. Len(queue) :
           queue'[i].task = IF queue[i].task = t THEN NoTask ELSE queue[i].task
  <2>1. \A i \in 1 .. Len(queue) : queue[i] \in Pending
    BY <1>1, ElementOfSeq
  <2>2. \A i \in 1 .. Len(queue) :
          /\ [queue[i] EXCEPT !.task = NoTask] \in Pending
          /\ [queue[i] EXCEPT !.task = NoTask].task = NoTask
    BY <2>1 DEF Pending
  <2>3. DOMAIN queue = 1 .. Len(queue) /\ Len(queue) \in Nat
    BY <1>1
  <2>4. queue' \in [1 .. Len(queue) -> Pending]
    BY <2>1, <2>2, <2>3
  <2>5. queue' \in Seq(Pending) /\ Len(queue') = Len(queue)
    BY <2>3, <2>4
  <2> QED BY <2>2, <2>3, <2>5
<1>3. pc' \in [Task -> PCs] /\ pc'[t] = "ready"
  BY <1>1 DEF PCs
<1>4. TypeOK'
  BY <1>1, <1>2, <1>3 DEF TypeOK, connVars
<1>5. Matches(queue', pc')
  <2>1. \A u \in Task : u # t => pc'[u] = pc[u]
    BY <1>1
  <2>2. t # NoTask /\ \A u \in Task : u # NoTask
    BY ConstantAssumption
  <2>3. \A u \in Task : pc'[u] = "queued" <=> \E i \in 1 .. Len(queue') : queue'[i].task = u
    <3> HIDE DEF Cancel
    <3>1. \A u \in Task : pc[u] = "queued" <=> \E i \in 1 .. Len(queue) : queue[i].task = u
      BY <1>1 DEF Matches
    <3>2. \A u \in Task, i \in 1 .. Len(queue) :
            queue'[i].task = u <=> u # t /\ queue[i].task = u
      BY <1>2, <2>2
    <3>3. pc'[t] # "queued"
      BY <1>3
    <3> QED BY <1>2, <2>1, <3>1, <3>2, <3>3
  <2>4. \A i, j \in 1 .. Len(queue') :
          queue'[i].task = queue'[j].task /\ queue'[i].task # NoTask => i = j
    <3> HIDE DEF Cancel
    <3> QED BY <1>1, <1>2 DEF Matches
  <2> QED BY <2>3, <2>4 DEF Matches
<1>6. StoreInv' /\ StatsKept /\ Live' = Live
  BY StoreUnchanged DEF PoolInv, connVars, StatsKept, StatsAgree
<1>7. OwnerInv'
  <2>1. \A u \in Task : u # t => pc'[u] = pc[u] /\ handle'[u] = handle[u]
    BY <1>1 DEF TypeOK
  <2>2. ~ Owns(t)' /\ handle'[t] = NoConn
    BY <1>1, <1>3 DEF Owns, TypeOK
  <2>3. \A u \in Task : ~ Owns(u) => handle[u] = NoConn
    BY DEF PoolInv, OwnerInv, HandleMatches
  <2> QED BY <1>1, <1>3, <1>4, <2>1, <2>2, <2>3, OwnersShrink
     DEF PoolInv, Owns, connVars, TypeOK
<1>8. QueueInv'
  <2>1. QueueMatchesWaiters'
    BY <1>2, <1>3, <1>5, QueueMatchesPrimed
  <2>2. ASSUME phase' = "closed" PROVE Waiting' = {} /\ queue' = << >>
    <3>1. Waiting = {} /\ queue = << >>
      BY <2>2 DEF PoolInv, QueueInv, ClosedIsEmpty
    <3>2. Waiting' \subseteq Waiting
      BY <1>1, <1>3 DEF Waiting
    <3> QED BY <1>2, <3>1, <3>2
  <2> QED BY <1>6, <2>1, <2>2 DEF PoolInv, QueueInv, ServingIsOpen, ClosedIsEmpty
<1> QED
  BY <1>4, <1>6, <1>7, <1>8 DEF PoolInv

\* What is common to release() and fail(): task t lets go of its connection,
\* and nobody else's connection is touched.
LEMMA LetGoKeeps ==
  ASSUME PoolInv, NEW t \in Task, pc[t] \in {"using", "finally"}, LetGo(t),
         UNCHANGED <<queue, phase>>, StoreTypeOK', \A d \in Conn : d # handle[t] => state'[d] = state[d],
         turn' \in Turns, turn' = "serve" => phase = "open",
         phase = "closed" => Live' = {}
  PROVE  TypeOK' /\ OwnerInv' /\ QueueInv'
<1>1. TypeOK /\ pc \in [Task -> PCs] /\ handle \in [Task -> Conn \cup {NoConn}]
  BY DEF PoolInv, TypeOK
<1>2. /\ pc' \in [Task -> PCs] /\ pc'[t] = "ready"
      /\ handle' \in [Task -> Conn \cup {NoConn}] /\ handle'[t] = NoConn
      /\ \A u \in Task : u # t => pc'[u] = pc[u] /\ handle'[u] = handle[u]
  BY <1>1 DEF LetGo, PCs
<1>3. TypeOK'
  BY <1>1, <1>2 DEF TypeOK, StoreTypeOK
<1>4. OwnerInv'
  <2>1. \A u \in Task : ~ Owns(u) => handle[u] = NoConn
    BY DEF PoolInv, OwnerInv, HandleMatches
  <2>2. \A u \in Task : Owns(u) => handle[u] \in Conn
    BY <1>1 DEF PoolInv, OwnerInv, HandleMatches
  <2>3. \A u \in Task : u # t /\ Owns(u) => handle[u] # handle[t]
    BY DEF PoolInv, OwnerInv, ExclusiveUse
  <2>4. \A u \in Task : u # t => (Owns(u)' <=> Owns(u))
    BY <1>2 DEF Owns
  <2>5. ~ Owns(t)'
    BY <1>2 DEF Owns
  <2>6. OwnerInv /\ state' \in [Conn -> States] /\ (phase = "closed" => phase' = "closed")
    BY DEF PoolInv, StoreTypeOK
  <2>7. ASSUME NEW u \in Task
        PROVE  \/ /\ Owns(u) /\ Owns(u)' /\ handle'[u] = handle[u]
                  /\ (pc'[u] # "finally" => pc[u] # "finally")
                  /\ state'[handle[u]] = state[handle[u]]
               \/ ~ Owns(u)' /\ handle'[u] = NoConn
    BY <1>2, <2>1, <2>2, <2>3, <2>4, <2>5
  <2> QED BY <1>1, <1>2, <2>6, <2>7, OwnersShrink
<1>5. QueueInv'
  <2>1. Waiting' = Waiting
    BY <1>1, <1>2 DEF Waiting
  <2> QED BY <2>1 DEF PoolInv, QueueInv, QueueMatchesWaiters, ServingIsOpen, ClosedIsEmpty
<1> QED
  BY <1>3, <1>4, <1>5

\* Closing the connection that task t uses.
LEMMA CloseOwnKeeps ==
  ASSUME PoolInv, NEW t \in Task, pc[t] = "using", Close({handle[t]}), UNCHANGED phase
  PROVE  /\ StoreTypeOK' /\ StoreInv' /\ StatsKept
         /\ \A d \in Conn : d # handle[t] => state'[d] = state[d]
         /\ phase = "closed" => Live' = {}
<1>1. handle[t] \in Conn /\ (phase # "closed" => handle[t] \in Live)
  BY IdleIsLive DEF PoolInv, TypeOK, OwnerInv, ExclusiveUse, HandleMatches, Owns
<1>2. StoreTypeOK /\ StoreInv
  BY DEF PoolInv, TypeOK, StoreTypeOK
<1>3. IsFiniteSet({handle[t]})
  BY FS_Singleton
<1>4. /\ StoreTypeOK' /\ StoreInv' /\ Live' = Live \ {handle[t]}
      /\ {handle[t]} \subseteq Live /\ balance = Cardinality(Live)
           => balance' = Cardinality(Live)'
  BY <1>1, <1>2, <1>3, CloseKeeps
<1>5. StatsKept
  BY <1>1, <1>4 DEF PoolInv, StatsKept, StatsAgree
<1>6. phase = "closed" => Live' = {}
  BY <1>4 DEF PoolInv, QueueInv, ClosedIsEmpty
<1> QED
  BY <1>4, <1>5, <1>6 DEF Close

LEMMA ReleaseKeeps ==
  ASSUME PoolInv, NEW t \in Task, Release(t)
  PROVE  PoolInv' /\ StatsKept
<1>1. /\ turn = "loop" /\ pc[t] = "using" /\ GiveBack(handle[t]) /\ LetGo(t)
      /\ UNCHANGED <<queue, phase>>
  BY DEF Release
<1>2. CASE KeepsNoMore(handle[t]) /\ Close({handle[t]}) /\ turn' = "loop"
  <2>1. /\ StoreTypeOK' /\ StoreInv' /\ StatsKept
        /\ \A d \in Conn : d # handle[t] => state'[d] = state[d]
        /\ phase = "closed" => Live' = {}
    BY <1>1, <1>2, CloseOwnKeeps
  <2>2. turn' \in Turns
    BY <1>2 DEF Turns
  <2>3. TypeOK' /\ OwnerInv' /\ QueueInv'
    BY <1>1, <1>2, <2>1, <2>2, LetGoKeeps
  <2> QED BY <2>1, <2>3 DEF PoolInv
<1>3. CASE /\ ~ KeepsNoMore(handle[t])
           /\ state' = [state EXCEPT ![handle[t]] =
                          IF handle[t] \in Live THEN "idle" ELSE "absent"]
           /\ rested' = rested \ {handle[t]}
           /\ turn' = "serve"
           /\ UNCHANGED <<host, aged, balance>>
  <2>1. phase = "open" /\ ~ (Cardinality(Idle) >= MaxIdle)
    BY <1>3 DEF PoolInv, TypeOK, KeepsNoMore
  <2>2. handle[t] \in Live
    BY <1>1, <2>1, IdleIsLive DEF PoolInv, OwnerInv, ExclusiveUse
  <2>3. StoreTypeOK /\ StoreInv
    BY DEF PoolInv, TypeOK, StoreTypeOK
  <2>4. Cardinality(Idle) < MaxIdle
    <3>1. Cardinality(Idle) \in Nat
      BY <2>3, IdleIsLive, FS_Subset, FS_CardinalityType DEF StoreInv
    <3> QED BY <2>1, <3>1, LimitAssumption
  <2>5. StoreTypeOK' /\ StoreInv' /\ Live' = Live
    BY <1>3, <2>2, <2>3, <2>4, KeepIdleKeeps
  <2>6. StatsKept
    BY <1>1, <1>3, <2>5 DEF PoolInv, StatsKept, StatsAgree
  <2>7. \A d \in Conn : d # handle[t] => state'[d] = state[d]
    BY <1>3, <2>3 DEF StoreTypeOK
  <2>8. turn' \in Turns
    BY <1>3 DEF Turns
  <2>9. TypeOK' /\ OwnerInv' /\ QueueInv'
    BY <1>1, <2>1, <2>5, <2>7, <2>8, LetGoKeeps
  <2> QED BY <2>5, <2>6, <2>9 DEF PoolInv
<1> QED
  BY <1>1, <1>2, <1>3 DEF GiveBack

LEMMA FailKeeps ==
  ASSUME PoolInv, NEW t \in Task, Fail(t)
  PROVE  PoolInv' /\ StatsKept
<1>1. /\ turn = "loop" /\ pc[t] = "using" /\ Close({handle[t]}) /\ LetGo(t)
      /\ UNCHANGED <<queue, turn, phase>>
  BY DEF Fail
<1>2. /\ StoreTypeOK' /\ StoreInv' /\ StatsKept
      /\ \A d \in Conn : d # handle[t] => state'[d] = state[d]
      /\ phase = "closed" => Live' = {}
  BY <1>1, CloseOwnKeeps
<1>3. turn' \in Turns /\ turn' # "serve"
  BY <1>1 DEF Turns
<1>4. TypeOK' /\ OwnerInv' /\ QueueInv'
  BY <1>1, <1>2, <1>3, LetGoKeeps
<1> QED
  BY <1>2, <1>4 DEF PoolInv

LEMMA ServeHeadKeeps ==
  ASSUME PoolInv, ServeHead
  PROVE  PoolInv' /\ StatsKept
<1> DEFINE t == Head(queue).task
<1>1. PICK c \in Conn : /\ Obtain(c, Head(queue).host)
                        /\ handle' = [u \in Task |-> IF u = t THEN c ELSE handle[u]]
  BY DEF ServeHead
<1>2. /\ TypeOK /\ queue \in Seq(Pending) /\ queue # << >>
      /\ pc \in [Task -> PCs] /\ Matches(queue, pc)
  BY QueueMatchesByIndex DEF PoolInv, TypeOK, QueueInv, ServeHead
<1>3. /\ pc' = [u \in Task |-> IF u = t THEN "granted" ELSE pc[u]]
      /\ queue' = Tail(queue) /\ turn = "serve"
      /\ UNCHANGED <<turn, phase>> /\ phase = "open"
  BY DEF ServeHead, PoolInv, QueueInv, ServingIsOpen
<1>4. /\ queue' \in Seq(Pending)
      /\ Len(queue') = Len(queue) - 1
      /\ \A i \in 1 .. Len(queue) - 1 : queue'[i] = queue[i + 1]
      /\ Head(queue) \in Pending /\ Head(queue) = queue[1] /\ Len(queue) >= 1
  BY <1>2, <1>3, HeadTailProperties
<1>5. Head(queue).host \in Host /\ t \in Task \cup {NoTask}
  BY <1>4 DEF Pending
<1>6. StoreTypeOK /\ StoreInv
  BY DEF PoolInv, TypeOK, StoreTypeOK
<1>7. /\ StoreTypeOK' /\ StoreInv'
      /\ balance = Cardinality(Live) => balance' = Cardinality(Live)'
      /\ c \in Idle \/ Fresh(c)
      /\ state' = [state EXCEPT ![c] = "active"]
  BY <1>1, <1>5, <1>6, ObtainKeeps
<1>8. pc' \in [Task -> PCs] /\ handle' \in [Task -> Conn \cup {NoConn}]
  BY <1>1, <1>2, <1>3 DEF PCs, TypeOK
<1>9. TypeOK'
  BY <1>2, <1>3, <1>4, <1>7, <1>8 DEF TypeOK, StoreTypeOK
<1>10. StatsKept
  BY <1>3, <1>7 DEF PoolInv, StatsKept, StatsAgree
<1> HIDE DEF t
<1>11. OwnerInv'
  <2>1. \A u \in Task : Owns(u) => handle[u] # c
    BY <1>7 DEF PoolInv, OwnerInv, HeldNotIdle, Fresh
  <2>2. \A u \in Task : u # t => pc'[u] = pc[u] /\ handle'[u] = handle[u]
    BY <1>1, <1>3
  <2>3. t \in Task => pc'[t] = "granted" /\ handle'[t] = c
    BY <1>1, <1>3
  <2>4. \A u \in Task : handle[u] # NoConn => handle[u] # c
    BY <2>1 DEF PoolInv, OwnerInv, HandleMatches
  <2>5. c # NoConn /\ state'[c] = "active" /\ \A d \in Conn : d # c => state'[d] = state[d]
    BY <1>6, <1>7, ConstantAssumption DEF StoreTypeOK
  <2>6. HandleMatches'
    BY <2>2, <2>3, <2>5 DEF PoolInv, OwnerInv, HandleMatches, Owns
  <2>7. HeldNotIdle'
    BY <1>2, <1>6, <1>7, <2>1, <2>2, <2>3, <2>5
      DEF PoolInv, OwnerInv, HeldNotIdle, HandleMatches, Owns, Idle, TypeOK
  <2>8. ExclusiveUse'
    BY <1>2, <1>3, <2>1, <2>2, <2>3, <2>4, <2>5
      DEF PoolInv, OwnerInv, ExclusiveUse, HandleMatches, Owns, Active, TypeOK
  <2> QED BY <2>6, <2>7, <2>8 DEF OwnerInv
<1>12. QueueInv'
  <2>1. Matches(queue', pc')
    <3>1. 1 \in 1 .. Len(queue) /\ t = queue[1].task
      BY <1>4 DEF t
    <3>2. \A i \in 1 .. Len(queue) - 1 :
            queue'[i] = IF i < 1 THEN queue[i] ELSE queue[i + 1]
      BY <1>4
    <3>3. "granted" # "queued"
      OBVIOUS
    <3>4. Matches(queue', [u \in Task |-> IF u = queue[1].task THEN "granted" ELSE pc[u]])
      <4> HIDE DEF t
      <4> QED BY Zenon, <1>2, <1>4, <3>1, <3>2, <3>3, RemoveMatches
    <3> QED BY <1>3, <3>1, <3>4
  <2>2. QueueMatchesWaiters'
    BY <1>4, <1>8, <2>1, QueueMatchesPrimed
  <2> QED BY <1>3, <2>2 DEF QueueInv, ServingIsOpen, ClosedIsEmpty
<1> QED
  BY <1>7, <1>9, <1>10, <1>11, <1>12 DEF PoolInv

\* A step that changes neither the queue nor what tasks do and have, and
\* touches no connection that some task owns.
LEMMA OwnersUntouched ==
  ASSUME PoolInv, UNCHANGED <<queue, pc, handle>>, StoreTypeOK',
         turn' \in Turns, phase' \in {phase, "closing"}, phase' # phase => phase = "open",
         turn' = "serve" => phase' = "open",
         phase = "closed" => Live' = {},
         \A d \in Conn : d \notin Idle => state'[d] = state[d]
  PROVE  TypeOK' /\ OwnerInv' /\ QueueInv'
<1>1. TypeOK'
  BY DEF PoolInv, TypeOK, StoreTypeOK, Phases
<1>2. \A u \in Task : /\ Owns(u)' <=> Owns(u)
                      /\ ~ Owns(u) => handle[u] = NoConn
                      /\ Owns(u) => handle[u] \in Conn /\ handle[u] \notin Idle
  BY DEF PoolInv, TypeOK, OwnerInv, HandleMatches, HeldNotIdle, Owns
<1>3. ASSUME NEW u \in Task
      PROVE  \/ /\ Owns(u) /\ Owns(u)' /\ handle'[u] = handle[u]
                /\ (pc'[u] # "finally" => pc[u] # "finally")
                /\ state'[handle[u]] = state[handle[u]]
             \/ ~ Owns(u)' /\ handle'[u] = NoConn
  BY <1>2
<1>4. OwnerInv'
  <2>1. TypeOK /\ OwnerInv /\ (phase = "closed" => phase' = "closed")
    BY DEF PoolInv
  <2>2. /\ pc' \in [Task -> PCs] /\ handle' \in [Task -> Conn \cup {NoConn}]
        /\ state' \in [Conn -> States]
    BY DEF PoolInv, TypeOK, StoreTypeOK
  <2> QED BY <1>3, <2>1, <2>2, OwnersShrink
<1>5. QueueInv'
  BY DEF PoolInv, QueueInv, QueueMatchesWaiters, Waiting, ServingIsOpen, ClosedIsEmpty
<1> QED
  BY <1>1, <1>4, <1>5

LEMMA ServeStopKeeps ==
  ASSUME PoolInv, ServeStop
  PROVE  PoolInv' /\ StatsKept
<1>1. UNCHANGED <<connVars, queue, pc, handle, phase>> /\ turn' = "loop"
  BY DEF ServeStop
<1>2. StoreInv' /\ StatsKept /\ Live' = Live
  BY <1>1, StoreUnchanged DEF PoolInv, connVars, StatsKept, StatsAgree
<1>3. StoreTypeOK' /\ turn' \in Turns /\ \A d \in Conn : state'[d] = state[d]
  BY <1>1 DEF PoolInv, TypeOK, StoreTypeOK, connVars, Turns
<1>4. phase = "closed" => Live' = {}
  BY <1>2 DEF PoolInv, QueueInv, ClosedIsEmpty
<1>5. TypeOK' /\ OwnerInv' /\ QueueInv'
  BY <1>1, <1>3, <1>4, OwnersUntouched
<1> QED
  BY <1>2, <1>5 DEF PoolInv

LEMMA CloseBeginKeeps ==
  ASSUME PoolInv, CloseBegin
  PROVE  PoolInv' /\ StatsKept
<1>1. /\ UNCHANGED <<connVars, queue, pc, handle, turn>>
      /\ turn = "loop" /\ phase = "open" /\ phase' = "closing"
  BY DEF CloseBegin
<1>2. StoreInv' /\ StatsKept
  BY <1>1, StoreUnchanged DEF PoolInv, connVars, StatsKept, StatsAgree
<1>3. StoreTypeOK' /\ turn' \in Turns /\ \A d \in Conn : state'[d] = state[d]
  BY <1>1 DEF PoolInv, TypeOK, StoreTypeOK, connVars, Turns
<1>4. TypeOK' /\ OwnerInv' /\ QueueInv'
  BY <1>1, <1>3, OwnersUntouched
<1> QED
  BY <1>2, <1>4 DEF PoolInv

LEMMA GrowKeeps ==
  ASSUME PoolInv, NEW c \in Conn, Grow(c)
  PROVE  PoolInv' /\ StatsKept
<1>1. /\ UNCHANGED <<state, host, balance, queue, pc, handle, turn, phase>>
      /\ turn = "loop" /\ aged' \subseteq Conn /\ rested' \subseteq Conn
  BY DEF Grow, PoolInv, TypeOK
<1>2. StoreInv' /\ StatsKept /\ Live' = Live
  BY <1>1, StoreUnchanged DEF PoolInv, StatsKept, StatsAgree
<1>3. StoreTypeOK' /\ turn' \in Turns /\ \A d \in Conn : state'[d] = state[d]
  BY <1>1 DEF PoolInv, TypeOK, StoreTypeOK, Turns
<1>4. phase = "closed" => Live' = {}
  BY <1>2 DEF PoolInv, QueueInv, ClosedIsEmpty
<1>5. TypeOK' /\ OwnerInv' /\ QueueInv'
  BY <1>1, <1>3, <1>4, OwnersUntouched
<1> QED
  BY <1>2, <1>5 DEF PoolInv

LEMMA HealthCheckKeeps ==
  ASSUME PoolInv, HealthCheck
  PROVE  PoolInv' /\ StatsKept
<1>1. /\ Close(Overdue) /\ UNCHANGED <<queue, pc, handle, turn, phase>>
      /\ turn = "loop" /\ phase = "open"
  BY DEF HealthCheck
<1>2. StoreTypeOK /\ StoreInv
  BY DEF PoolInv, TypeOK, StoreTypeOK
<1>3. Overdue \subseteq Idle /\ Overdue \subseteq Live /\ Overdue \in SUBSET Conn
  BY IdleIsLive DEF Overdue, Idle
<1>4. IsFiniteSet(Overdue)
  BY <1>2, <1>3, FS_Subset DEF StoreInv
<1>5. /\ StoreTypeOK' /\ StoreInv' /\ Live' = Live \ Overdue
      /\ balance = Cardinality(Live) => balance' = Cardinality(Live)'
  BY <1>1, <1>2, <1>3, <1>4, CloseKeeps
<1>6. StatsKept
  BY <1>1, <1>5 DEF PoolInv, StatsKept, StatsAgree
<1>7. turn' \in Turns /\ \A d \in Conn : d \notin Idle => state'[d] = state[d]
  BY <1>1, <1>3 DEF Close, Turns
<1>8. TypeOK' /\ OwnerInv' /\ QueueInv'
  BY <1>1, <1>5, <1>7, OwnersUntouched
<1> QED
  BY <1>5, <1>6, <1>8 DEF PoolInv

LEMMA RejectKeeps ==
  ASSUME PoolInv, RejectPending, UNCHANGED handle
  PROVE  /\ queue' \in Seq(Pending) /\ pc' \in [Task -> PCs]
         /\ QueueMatchesWaiters' /\ Waiting' = {}
         /\ \A u \in Task : /\ Owns(u)' <=> Owns(u)
                            /\ pc'[u] # "finally" => pc[u] # "finally"
                            /\ ~ Owns(u) => handle[u] = NoConn
                            /\ Owns(u) => handle[u] \in Conn /\ handle[u] \notin Idle
<1>1. pc \in [Task -> PCs] /\ queue' = << >>
  BY DEF PoolInv, TypeOK, RejectPending
<1>2. queue' \in Seq(Pending) /\ DOMAIN queue' = {}
  BY <1>1, EmptySeq
<1>3. pc' \in [Task -> PCs] /\ \A u \in Task : pc'[u] # "queued"
  BY <1>1 DEF RejectPending, PCs
<1>4. Waiting' = {} /\ QueueMatchesWaiters'
  BY <1>2, <1>3 DEF Waiting, QueueMatchesWaiters
<1> QED
  BY <1>1, <1>2, <1>3, <1>4
    DEF RejectPending, Owns, PoolInv, TypeOK, OwnerInv, HandleMatches, HeldNotIdle

LEMMA DrainKeeps ==
  ASSUME PoolInv, Drain
  PROVE  PoolInv' /\ StatsKept
<1>1. /\ state' = [c \in Conn |-> IF state[c] = "idle" THEN "draining" ELSE state[c]]
      /\ RejectPending /\ UNCHANGED <<host, aged, rested, balance, handle, turn, phase>>
      /\ turn = "loop" /\ phase # "closed"
  BY DEF Drain
<1>2. /\ queue' \in Seq(Pending) /\ pc' \in [Task -> PCs]
      /\ QueueMatchesWaiters' /\ Waiting' = {}
      /\ \A u \in Task : /\ Owns(u)' <=> Owns(u)
                         /\ pc'[u] # "finally" => pc[u] # "finally"
                         /\ ~ Owns(u) => handle[u] = NoConn
                         /\ Owns(u) => handle[u] \in Conn /\ handle[u] \notin Idle
  BY <1>1, RejectKeeps
<1>3. StoreTypeOK'
  BY <1>1 DEF PoolInv, TypeOK, StoreTypeOK, States
<1>4. Live' = Live /\ Idle' = {} /\ \A h : LiveOn(h)' = LiveOn(h)
  BY <1>1 DEF Live, Idle, LiveOn
<1>5. Cardinality(Idle') <= MaxIdle
  BY <1>4, FS_EmptySet, LimitAssumption
<1>6. StoreInv' /\ StatsKept
  BY <1>1, <1>4, <1>5 DEF PoolInv, StoreInv, Capacity, IdleBound, StatsKept, StatsAgree
<1>7. TypeOK'
  BY <1>1, <1>2, <1>3 DEF PoolInv, TypeOK, StoreTypeOK
<1>8. OwnerInv'
  <2>1. ASSUME NEW u \in Task, Owns(u) PROVE state'[handle[u]] = state[handle[u]]
    BY <1>1, <1>2, <2>1 DEF Idle
  <2>2. /\ TypeOK /\ OwnerInv /\ (phase = "closed" => phase' = "closed")
        /\ handle' \in [Task -> Conn \cup {NoConn}] /\ state' \in [Conn -> States]
        /\ handle' = handle
    BY <1>1, <1>3 DEF PoolInv, TypeOK, StoreTypeOK
  <2>3. ASSUME NEW u \in Task
        PROVE  \/ /\ Owns(u) /\ Owns(u)' /\ handle'[u] = handle[u]
                  /\ (pc'[u] # "finally" => pc[u] # "finally")
                  /\ state'[handle[u]] = state[handle[u]]
               \/ ~ Owns(u)' /\ handle'[u] = NoConn
    BY <1>2, <2>1, <2>2
  <2> QED BY <1>2, <2>2, <2>3, OwnersShrink
<1>9. QueueInv'
  BY <1>1, <1>2 DEF QueueInv, ServingIsOpen, ClosedIsEmpty
<1> QED
  BY <1>6, <1>7, <1>8, <1>9 DEF PoolInv

LEMMA CloseEndKeeps ==
  ASSUME PoolInv, CloseEnd
  PROVE  PoolInv' /\ StatsKept
<1>1. /\ Close(Live) /\ RejectPending /\ phase' = "closed"
      /\ UNCHANGED <<handle, turn>> /\ turn = "loop"
  BY DEF CloseEnd
<1>2. /\ queue' \in Seq(Pending) /\ pc' \in [Task -> PCs]
      /\ QueueMatchesWaiters' /\ Waiting' = {}
      /\ \A u \in Task : /\ Owns(u)' <=> Owns(u)
                         /\ pc'[u] # "finally" => pc[u] # "finally"
                         /\ ~ Owns(u) => handle[u] = NoConn
                         /\ Owns(u) => handle[u] \in Conn /\ handle[u] \notin Idle
  BY <1>1, RejectKeeps
<1>3. StoreTypeOK /\ StoreInv /\ IsFiniteSet(Live) /\ Live \in SUBSET Conn
  BY DEF PoolInv, TypeOK, StoreTypeOK, StoreInv, Live
<1>4. StoreTypeOK' /\ StoreInv' /\ Live' = Live \ Live
  BY <1>1, <1>3, CloseKeeps
<1>5. TypeOK' /\ StatsKept
  BY <1>1, <1>2, <1>4 DEF PoolInv, TypeOK, StoreTypeOK, StatsKept, StatsAgree, Phases
<1>6. OwnerInv'
  <2>1. \A d \in Conn : state'[d] = state[d] \/ state'[d] = "absent"
    BY <1>1 DEF Close
  <2>2. /\ TypeOK /\ OwnerInv /\ phase' = "closed" /\ handle' = handle
        /\ handle' \in [Task -> Conn \cup {NoConn}] /\ state' \in [Conn -> States]
    BY <1>1, <1>4 DEF PoolInv, TypeOK, StoreTypeOK
  <2>3. ASSUME NEW u \in Task
        PROVE  \/ /\ Owns(u) /\ Owns(u)' /\ handle'[u] = handle[u]
                  /\ (pc'[u] # "finally" => pc[u] # "finally")
                  /\ \/ state'[handle[u]] = state[handle[u]]
                     \/ phase' = "closed" /\ state'[handle[u]] = "absent"
               \/ ~ Owns(u)' /\ handle'[u] = NoConn
    BY <1>2, <2>1, <2>2
  <2> QED BY <1>2, <2>2, <2>3, OwnersShrink
<1>7. QueueInv'
  BY <1>1, <1>2, <1>4 DEF QueueInv, ServingIsOpen, ClosedIsEmpty, RejectPending
<1> QED
  BY <1>4, <1>5, <1>6, <1>7 DEF PoolInv

LEMMA StutterKeeps ==
  ASSUME PoolInv, UNCHANGED vars
  PROVE  PoolInv' /\ StatsKept
<1>1. UNCHANGED <<state, host, aged, rested, balance, queue, pc, handle, turn, phase>>
  BY DEF vars, connVars
<1>2. StoreInv' /\ StatsKept /\ Live' = Live
  BY <1>1, StoreUnchanged DEF PoolInv, StatsKept, StatsAgree
<1>3. StoreTypeOK' /\ turn' \in Turns /\ \A d \in Conn : state'[d] = state[d]
  BY <1>1 DEF PoolInv, TypeOK, StoreTypeOK
<1>4. (phase = "closed" => Live' = {}) /\ (turn' = "serve" => phase' = "open")
  BY <1>1, <1>2 DEF PoolInv, QueueInv, ClosedIsEmpty, ServingIsOpen
<1>5. TypeOK' /\ OwnerInv' /\ QueueInv'
  BY <1>1, <1>3, <1>4, OwnersUntouched
<1> QED
  BY <1>2, <1>5 DEF PoolInv

\* The invariant is inductive for the steps shared by all callers ...
LEMMA PoolNextKeeps ==
  ASSUME PoolInv, PoolNext PROVE PoolInv' /\ StatsKept
<1>1. ASSUME NEW t \in Task, Acquire(t) PROVE PoolInv' /\ StatsKept
  BY <1>1, AcquireNowKeeps, AcquireLaterKeeps DEF Acquire
<1>2. ASSUME Expire PROVE PoolInv' /\ StatsKept
  BY <1>2, TimeoutKeeps DEF Expire
<1>3. ASSUME Housekeep PROVE PoolInv' /\ StatsKept
  BY <1>3, DrainKeeps, CloseBeginKeeps, CloseEndKeeps, HealthCheckKeeps DEF Housekeep
<1> QED
  BY <1>1, <1>2, <1>3, ResumeKeeps, CancelKeeps, ReleaseKeeps, ServeHeadKeeps,
     ServeStopKeeps, GrowKeeps DEF PoolNext

\* ... and for the whole pool.
THEOREM Inductive == Spec => []IInv
<1>1. Init => IInv
  BY InitIInv
<1>2. IInv /\ [Next]_vars => IInv'
  <2> SUFFICES ASSUME IInv, [Next]_vars PROVE IInv'
    OBVIOUS
  <2>1. PoolInv' /\ StatsKept
    BY PoolNextKeeps, FailKeeps, StutterKeeps DEF Next, IInv
  <2> QED BY <2>1 DEF IInv, StatsKept
<1> QED
  BY <1>1, <1>2, PTL DEF Spec

LEMMA PoolInvHolds == Spec => []PoolInv
<1>1. IInv => PoolInv
  BY DEF IInv
<1> QED BY <1>1, Inductive, PTL

-----------------------------------------------------------------------------
(* The results. *)

\* Type correctness, of every pool in every state its tasks, timers, health
\* check, drain() and close() can bring it to.
THEOREM TypeCorrect == Spec => []TypeOK
<1>1. PoolInv => TypeOK
  BY DEF PoolInv
<1> QED BY <1>1, PoolInvHolds, PTL

\* Never more connections than max_connections, or than
\* max_connections_per_host for a host, and never more idle ones than
\* max_idle_connections, for any number of tasks and any configuration.
THEOREM LimitsHold == Spec => [](Capacity /\ IdleBound)
<1>1. PoolInv => Capacity /\ IdleBound
  BY DEF PoolInv, StoreInv
<1> QED BY <1>1, PoolInvHolds, PTL

\* A connection is lent to one task at a time, and nothing but close() takes
\* it from the task that uses it, even when waiters are cancelled.
THEOREM UseIsExclusive == Spec => []ExclusiveUse
<1>1. PoolInv => ExclusiveUse
  BY DEF PoolInv, OwnerInv
<1> QED BY <1>1, PoolInvHolds, PTL

\* The queue and the tasks that wait agree: no request is lost or duplicated.
THEOREM NoRequestLost == Spec => []QueueMatchesWaiters
<1>1. PoolInv => QueueMatchesWaiters
  BY DEF PoolInv, QueueInv
<1> QED BY <1>1, PoolInvHolds, PTL

\* created - closed is the number of connections, until close() has ended;
\* then nothing is left and nobody waits.
THEOREM Accounted == Spec => [](StatsAgree /\ ClosedIsEmpty)
<1>1. IInv => StatsAgree /\ ClosedIsEmpty
  BY DEF IInv, PoolInv, QueueInv
<1> QED BY <1>1, Inductive, PTL

-----------------------------------------------------------------------------
(* DRAINING is final. *)

LEMMA ObtainAvoidsDraining ==
  ASSUME TypeOK, NEW c \in Conn, NEW h, Obtain(c, h), NEW d \in Conn, state[d] = "draining"
  PROVE  state'[d] = "draining"
BY DEF TypeOK, Obtain, Reuse, Create, Fresh, Live, IdleOn, Idle

\* A connection drain() has marked is never lent again, whatever follows; it
\* can only leave the store.
THEOREM DrainingStays == Spec => DrainingIsFinal
<1> DEFINE Stays == \A c \in Conn : state[c] = "draining" => state'[c] \in {"draining", "absent"}
<1>1. PoolInv /\ [Next]_vars => [Stays]_vars
  <2> SUFFICES ASSUME PoolInv, Next, NEW d \in Conn, state[d] = "draining"
               PROVE  state'[d] \in {"draining", "absent"}
    BY DEF Stays
  <2>1. TypeOK
    BY DEF PoolInv
  <2>2. ASSUME NEW t \in Task, Acquire(t) PROVE state'[d] \in {"draining", "absent"}
    <3>1. ASSUME NEW h \in Host, AcquireNow(t, h) PROVE state'[d] = "draining"
      BY <2>1, <3>1, ObtainAvoidsDraining DEF AcquireNow
    <3>2. ASSUME NEW h \in Host, NEW p \in Priority, AcquireLater(t, h, p)
          PROVE  state'[d] = "draining"
      BY <3>2 DEF AcquireLater, connVars
    <3> QED BY <2>2, <3>1, <3>2 DEF Acquire
  <2>3. ASSUME NEW t \in Task, Release(t) PROVE state'[d] \in {"draining", "absent"}
    <3>1. phase = "open" => handle[t] \in Conn /\ handle[t] # d
      BY <2>3 DEF Release, PoolInv, OwnerInv, ExclusiveUse, Active
    <3>2. CASE Close({handle[t]})
      BY <3>2 DEF Close
    <3>3. CASE ~ KeepsNoMore(handle[t])
      <4>1. phase = "open"
        BY <3>3 DEF KeepsNoMore
      <4> QED BY <2>1, <2>3, <3>1, <3>3, <4>1 DEF Release, GiveBack, TypeOK
    <3> QED BY <2>3, <3>2, <3>3 DEF Release, GiveBack
  <2>4. ASSUME NEW t \in Task, Fail(t) PROVE state'[d] \in {"draining", "absent"}
    BY <2>4 DEF Fail, Close
  <2>5. ASSUME ServeHead PROVE state'[d] = "draining"
    BY <2>1, <2>5, ObtainAvoidsDraining DEF ServeHead
  <2>6. ASSUME Housekeep PROVE state'[d] \in {"draining", "absent"}
    BY <2>6 DEF Housekeep, Drain, CloseBegin, CloseEnd, HealthCheck, Close, connVars
  <2>7. ASSUME \/ ServeStop \/ Expire \/ \E t \in Task : Resume(t) \/ Cancel(t)
               \/ \E c \in Conn : Grow(c)
        PROVE  state'[d] = "draining"
    BY <2>7 DEF ServeStop, Expire, Timeout, Resume, Cancel, Grow, connVars
  <2> QED BY <2>2, <2>3, <2>4, <2>5, <2>6, <2>7 DEF Next, PoolNext
<1> QED
  BY <1>1, PoolInvHolds, PTL DEF Spec, DrainingIsFinal

-----------------------------------------------------------------------------
(* The order of service. *)

Sorted(q) ==
  \A i, j \in 1 .. Len(q) : i < j => q[i].priority >= q[j].priority

LEMMA PriorityIsInt ==
  ASSUME NEW q \in Seq(Pending) PROVE \A i \in 1 .. Len(q) : q[i].priority \in Int
<1>1. \A i \in 1 .. Len(q) : q[i] \in Pending
  BY ElementOfSeq
<1> QED BY <1>1, ConstantAssumption DEF Pending

\* The priorities on either side of a new entry's place.
LEMMA SlotSplits ==
  ASSUME TypeOK, Sorted(queue), NEW p \in Priority
  PROVE  /\ Slot(p) \in 1 .. Len(queue) + 1
         /\ \A i \in 1 .. Len(queue) : queue[i].priority >= p <=> i < Slot(p)
<1> DEFINE k == Slot(p)
<1>1. /\ k \in 1 .. Len(queue) + 1
      /\ \A j \in 1 .. k - 1 : queue[j].priority >= p
      /\ k <= Len(queue) => queue[k].priority < p
  BY SlotInRange
<1>2. p \in Int /\ Len(queue) \in Nat /\ \A i \in 1 .. Len(queue) : queue[i].priority \in Int
  BY ConstantAssumption, PriorityIsInt DEF TypeOK
<1> HIDE DEF k
<1>3. ASSUME NEW i \in 1 .. Len(queue), i >= k PROVE queue[i].priority < p
  <2>1. k \in 1 .. Len(queue) /\ queue[k].priority < p
    BY <1>1, <1>2, <1>3
  <2>2. i = k \/ queue[k].priority >= queue[i].priority
    BY <1>1, <1>3, <2>1 DEF Sorted
  <2> QED BY <1>2, <2>1, <2>2
<1>4. ASSUME NEW i \in 1 .. Len(queue)
      PROVE  queue[i].priority >= p <=> i < k
  <2>1. CASE i < k
    BY <1>1, <1>4, <2>1
  <2>2. CASE i >= k
    BY <1>1, <1>2, <1>3, <1>4, <2>2
  <2> QED BY <1>1, <2>1, <2>2
<1> QED BY <1>1, <1>4 DEF k

LEMMA InsertSorted ==
  ASSUME TypeOK, Sorted(queue), NEW e \in Pending
  PROVE  Sorted(InsertAt(queue, Slot(e.priority), e))
<1> DEFINE k == Slot(e.priority)
           r == InsertAt(queue, k, e)
<1>0. e.priority \in Priority /\ e.priority \in Int /\ queue \in Seq(Pending) /\ Len(queue) \in Nat
  <2> HIDE DEF k, r
  <2>1. e.priority \in Priority
    BY DEF Pending
  <2>2. queue \in Seq(Pending)
    BY DEF TypeOK
  <2>3. \A x \in Priority : x \in Int
    BY ConstantAssumption
  <2>4. e.priority \in Int
    BY <2>1, <2>3
  <2>5. Len(queue) \in Nat
    BY <2>2
  <2> QED BY <2>1, <2>2, <2>4, <2>5
<1>1. /\ k \in 1 .. Len(queue) + 1
      /\ \A i \in 1 .. Len(queue) : queue[i].priority >= e.priority <=> i < k
  BY <1>0, SlotSplits
<1> HIDE DEF k
<1>2. /\ Len(r) = Len(queue) + 1
      /\ \A i \in 1 .. Len(queue) + 1 :
           r[i] = IF i < k THEN queue[i] ELSE IF i = k THEN e ELSE queue[i - 1]
  <2>1. \A n \in 1 .. Len(queue) + 1 :
          /\ Len(InsertAt(queue, n, e)) = Len(queue) + 1
          /\ \A i \in 1 .. Len(queue) + 1 :
               InsertAt(queue, n, e)[i]
                 = IF i < n THEN queue[i] ELSE IF i = n THEN e ELSE queue[i - 1]
    BY <1>0, InsertAtFacts
  <2>2. k \in 1 .. Len(queue) + 1
    BY <1>1
  <2> QED BY Zenon, <2>1, <2>2
<1> HIDE DEF r
<1> DEFINE src(i) == IF i < k THEN i ELSE i - 1
<1>3. \A i \in 1 .. Len(r) :
        i # k => /\ src(i) \in 1 .. Len(queue) /\ r[i] = queue[src(i)]
                 /\ (i < k <=> src(i) < k)
  BY <1>0, <1>1, <1>2
<1>4. \A i, j \in 1 .. Len(r) : i # k /\ j # k /\ i < j => src(i) < src(j)
  BY <1>0, <1>1, <1>2
<1> HIDE DEF src
<1>5. r[k] = e
  BY <1>0, <1>1, <1>2
<1>6. \A i \in 1 .. Len(queue) : queue[i].priority \in Int
  BY <1>0, PriorityIsInt
<1> SUFFICES ASSUME NEW i \in 1 .. Len(r), NEW j \in 1 .. Len(r), i < j
             PROVE  r[i].priority >= r[j].priority
  BY DEF Sorted, r, k
<1>7. CASE i = k
  <2>1. j # k /\ ~ (j < k)
    BY <1>1, <1>7
  <2>2. ~ (queue[src(j)].priority >= e.priority)
    BY <1>1, <1>3, <2>1
  <2> QED BY <1>0, <1>3, <1>5, <1>6, <1>7, <2>1, <2>2
<1>8. CASE j = k
  <2>1. i # k /\ i < k
    BY <1>1, <1>8
  <2> QED BY <1>1, <1>3, <1>5, <1>8, <2>1
<1>9. CASE i # k /\ j # k
  BY <1>3, <1>4, <1>9 DEF Sorted
<1> QED BY <1>7, <1>8, <1>9

LEMMA SortedStep ==
  ASSUME PoolInv, Sorted(queue), [Next]_vars
  PROVE  Sorted(queue')
<1>0. TypeOK /\ queue \in Seq(Pending) /\ Len(queue) \in Nat
  BY DEF PoolInv, TypeOK
<1>1. CASE queue' = queue
  BY <1>1
<1>2. CASE queue' = << >>
  BY <1>2 DEF Sorted
<1>3. ASSUME NEW t \in Task, NEW h \in Host, NEW p \in Priority, AcquireLater(t, h, p)
      PROVE  Sorted(queue')
  <2> DEFINE e == [task |-> t, host |-> h, priority |-> p, timed |-> t \in Timed]
  <2>1. e \in Pending /\ e.priority = p
    BY DEF Pending
  <2>2. queue' = InsertAt(queue, Slot(e.priority), e)
    BY <1>3 DEF AcquireLater
  <2> HIDE DEF e
  <2> QED BY <1>0, <2>1, <2>2, InsertSorted
<1>4. ASSUME NEW k \in DOMAIN queue, Timeout(k) PROVE Sorted(queue')
  <2>1. k \in 1 .. Len(queue)
    BY <1>0
  <2>2. /\ Len(queue') = Len(queue) - 1
        /\ \A i \in 1 .. Len(queue) - 1 : queue'[i] = IF i < k THEN queue[i] ELSE queue[i + 1]
    BY <1>0, <1>4, <2>1, RemoveAtFacts DEF Timeout
  <2> DEFINE at(i) == IF i < k THEN i ELSE i + 1
  <2>3. \A i \in 1 .. Len(queue') : at(i) \in 1 .. Len(queue) /\ queue'[i] = queue[at(i)]
    BY <1>0, <2>1, <2>2
  <2>4. \A i, j \in 1 .. Len(queue') : i < j => at(i) < at(j)
    BY <1>0, <2>1, <2>2
  <2> HIDE DEF at
  <2> QED BY <2>3, <2>4 DEF Sorted
<1>5. ASSUME NEW t \in Task, Cancel(t) PROVE Sorted(queue')
  <2>1. queue' = [i \in 1 .. Len(queue) |->
                    IF queue[i].task = t THEN [queue[i] EXCEPT !.task = NoTask]
                                         ELSE queue[i]]
    BY <1>0, <1>5 DEF Cancel
  <2>2. \A i \in 1 .. Len(queue) : queue[i] \in Pending
    BY <1>0, ElementOfSeq
  <2>3. \A i \in 1 .. Len(queue) : queue'[i].priority = queue[i].priority
    BY <2>1, <2>2 DEF Pending
  <2>4. Len(queue') = Len(queue)
    BY <1>0, <2>1
  <2> QED BY <2>3, <2>4 DEF Sorted
<1>6. ASSUME ServeHead PROVE Sorted(queue')
  <2>1. queue' = Tail(queue) /\ queue # << >>
    BY <1>6 DEF ServeHead
  <2>2. /\ Len(queue') = Len(queue) - 1
        /\ \A i \in 1 .. Len(queue') : queue'[i] = queue[i + 1]
    BY <1>0, <2>1
  <2>3. \A i \in 1 .. Len(queue') : i + 1 \in 1 .. Len(queue)
    BY <1>0, <2>2
  <2>4. \A i, j \in 1 .. Len(queue') : i < j => i + 1 < j + 1
    OBVIOUS
  <2> QED BY <2>2, <2>3, <2>4 DEF Sorted
<1>7. \/ queue' = queue \/ queue' = << >>
      \/ \E t \in Task : Acquire(t) \/ Cancel(t)
      \/ Expire \/ ServeHead
  BY DEF Next, PoolNext, Resume, Release, Fail, ServeStop, Housekeep, Drain, CloseBegin,
         CloseEnd, RejectPending, HealthCheck, Grow, vars
<1>8. ASSUME NEW t \in Task, Acquire(t) PROVE Sorted(queue')
  BY <1>1, <1>3, <1>8 DEF Acquire, AcquireNow
<1> QED BY <1>1, <1>2, <1>4, <1>5, <1>6, <1>7, <1>8 DEF Expire

LEMMA PlaceIs ==
  ASSUME NEW q \in Seq(Pending), NEW w \in [Task -> PCs], Matches(q, w),
         NEW t \in Task, NEW i \in 1 .. Len(q), q[i].task = t
  PROVE  (CHOOSE j \in DOMAIN q : q[j].task = t) = i
<1>1. DOMAIN q = 1 .. Len(q) /\ t # NoTask
  BY ConstantAssumption
<1>2. \A j \in DOMAIN q : q[j].task = t => j = i
  BY <1>1 DEF Matches
<1> QED BY <1>1, <1>2

\* Only the head of the queue is served.
LEMMA HeadIsServed ==
  ASSUME PoolInv, [Next]_vars, NEW t \in Task, NEW u \in Task,
         Ahead(t, u), pc'[u] = "granted"
  PROVE  FALSE
<1>0. /\ TypeOK /\ queue \in Seq(Pending) /\ pc \in [Task -> PCs] /\ Len(queue) \in Nat
      /\ Matches(queue, pc)
      /\ pc[u] = "queued" /\ pc[t] = "queued"
  BY QueueMatchesByIndex DEF PoolInv, TypeOK, QueueInv, Ahead, Waiting
<1>1. ServeHead
  BY <1>0 DEF Next, PoolNext, Acquire, AcquireNow, AcquireLater, Resume, Cancel, Release,
              LetGo, Fail, Expire, Timeout, ServeStop, Housekeep, Drain, CloseBegin, CloseEnd,
              RejectPending, HealthCheck, Grow, vars
<1>2. 1 \in 1 .. Len(queue) /\ queue[1].task = u
  BY <1>0, <1>1 DEF ServeHead
<1>3. Position(u) = 1
  BY <1>0, <1>2, PlaceIs DEF Position
<1>4. PICK i \in 1 .. Len(queue) : queue[i].task = t
  BY <1>0 DEF Matches
<1>5. Position(t) = i
  BY <1>0, <1>4, PlaceIs DEF Position
<1> QED BY <1>3, <1>4, <1>5 DEF Ahead

LEMMA NewcomerIsPlaced ==
  ASSUME PoolInv, PoolInv', Sorted(queue), [Next]_vars, NEW t \in Task, NEW u \in Task,
         t \in Waiting, u \notin Waiting, Waiting' = Waiting \cup {u}
  PROVE  Ahead(u, t)' <=> queue[Position(t)].priority < queue'[Position(u)'].priority
<1>0. /\ TypeOK /\ queue \in Seq(Pending) /\ pc \in [Task -> PCs] /\ Len(queue) \in Nat
      /\ Matches(queue, pc)
      /\ pc[t] = "queued" /\ pc[u] # "queued" /\ pc'[u] = "queued"
  BY QueueMatchesByIndex DEF PoolInv, TypeOK, QueueInv, Waiting
<1>1. PICK h \in Host, p \in Priority : AcquireLater(u, h, p)
  <2>1. \E h \in Host, p \in Priority : AcquireLater(u, h, p)
    BY <1>0 DEF Next, PoolNext, Acquire, AcquireNow, AcquireLater, Resume, Cancel, Release,
                LetGo, Fail, Expire, Timeout, ServeHead, ServeStop, Housekeep, Drain,
                CloseBegin, CloseEnd, RejectPending, HealthCheck, Grow, vars
  <2> QED BY <2>1
<1> DEFINE k == Slot(p)
           e == [task |-> u, host |-> h, priority |-> p, timed |-> u \in Timed]
<1>2. /\ k \in 1 .. Len(queue) + 1
      /\ \A i \in 1 .. Len(queue) : queue[i].priority >= p <=> i < k
  BY <1>0, SlotSplits
<1>3. queue' = InsertAt(queue, k, e) /\ e \in Pending
  BY <1>1 DEF AcquireLater, Pending
<1>4. e.task = u /\ e.priority = p
  OBVIOUS
<1> HIDE DEF k, e
<1>5. /\ Len(queue') = Len(queue) + 1
      /\ \A i \in 1 .. Len(queue) + 1 :
           queue'[i] = IF i < k THEN queue[i] ELSE IF i = k THEN e ELSE queue[i - 1]
  <2>1. queue \in Seq(Pending) /\ e \in Pending /\ k \in 1 .. Len(queue) + 1
    BY <1>0, <1>2, <1>3
  <2>2. /\ Len(InsertAt(queue, k, e)) = Len(queue) + 1
        /\ \A i \in 1 .. Len(queue) + 1 :
             InsertAt(queue, k, e)[i] =
               IF i < k THEN queue[i] ELSE IF i = k THEN e ELSE queue[i - 1]
    BY <2>1, PendingInserted
  <2> QED BY <1>3, <2>2
<1>6. queue' \in Seq(Pending) /\ pc' \in [Task -> PCs] /\ Matches(queue', pc')
  <2>1. queue' \in Seq(Pending) /\ pc' \in [Task -> PCs]
    BY DEF PoolInv, TypeOK
  <2> QED BY <2>1, MatchesByIndex DEF PoolInv, QueueInv, QueueMatchesWaiters, Waiting
<1>7. k \in 1 .. Len(queue') /\ queue'[k] = e
  BY <1>0, <1>2, <1>5
<1>8. Position(u)' = k
  BY <1>4, <1>6, <1>7, PlaceIs DEF Position
<1>9. PICK i \in 1 .. Len(queue) : queue[i].task = t
  BY <1>0 DEF Matches
<1>10. Position(t) = i
  BY <1>0, <1>9, PlaceIs DEF Position
<1>11. queue[i].priority \in Int /\ p \in Int
  BY <1>0, PriorityIsInt, ConstantAssumption
<1>12. queue'[Position(u)'].priority = p
  BY <1>4, <1>7, <1>8
<1>13. u # t /\ t \in Waiting' /\ u \in Waiting'
  BY <1>0
<1>14. CASE i < k
  <2>1. i \in 1 .. Len(queue') /\ queue'[i].task = t
    BY <1>0, <1>5, <1>9, <1>14
  <2>2. Position(t)' = i
    BY <1>6, <2>1, PlaceIs DEF Position
  <2>3. ~ Ahead(u, t)'
    BY <1>2, <1>8, <1>14, <2>2 DEF Ahead
  <2>4. queue[i].priority >= p
    BY <1>2, <1>14
  <2> QED BY <1>10, <1>11, <1>12, <2>3, <2>4
<1>15. CASE ~ (i < k)
  <2>1. i + 1 \in 1 .. Len(queue') /\ ~ (i + 1 < k) /\ i + 1 # k /\ i + 1 - 1 = i
    BY <1>0, <1>2, <1>5, <1>15
  <2>2. queue'[i + 1].task = t
    BY <1>5, <1>9, <2>1
  <2>3. Position(t)' = i + 1
    BY <1>6, <2>1, <2>2, PlaceIs DEF Position
  <2>4. k < i + 1
    BY <1>2, <1>15
  <2>5. Ahead(u, t)'
    BY <1>8, <1>13, <2>3, <2>4 DEF Ahead
  <2>6. ~ (queue[i].priority >= p)
    BY <1>2, <1>15
  <2> QED BY <1>10, <1>11, <1>12, <2>5, <2>6
<1> QED BY <1>14, <1>15

\* A waiter is served before every one that queued after it with the same or a
\* lower priority: the queue stays sorted, and only its head is served.
THEOREM OrderIsKept == Spec => ServedInOrder
<1> DEFINE InOrder ==
      /\ \A t, u \in Task :
           Ahead(t, u) /\ pc'[u] = "granted" => pc'[t] # "queued"
      /\ \A t, u \in Task :
           /\ t \in Waiting /\ u \notin Waiting /\ Waiting' = Waiting \cup {u}
           => (Ahead(u, t)' <=> queue[Position(t)].priority
                                   < queue'[Position(u)'].priority)
<1>1. Init => Sorted(queue)
  BY DEF Init, Sorted
<1>2. PoolInv /\ Sorted(queue) /\ [Next]_vars => Sorted(queue)'
  BY SortedStep DEF Sorted
<1>3. PoolInv /\ PoolInv' /\ Sorted(queue) /\ [Next]_vars => [InOrder]_vars
  <2> SUFFICES ASSUME PoolInv, PoolInv', Sorted(queue), [Next]_vars PROVE InOrder
    OBVIOUS
  <2>1. ASSUME NEW t \in Task, NEW u \in Task
        PROVE  Ahead(t, u) /\ pc'[u] = "granted" => pc'[t] # "queued"
    BY HeadIsServed
  <2>2. ASSUME NEW t \in Task, NEW u \in Task,
               t \in Waiting, u \notin Waiting, Waiting' = Waiting \cup {u}
        PROVE  Ahead(u, t)' <=> queue[Position(t)].priority < queue'[Position(u)'].priority
    BY <2>2, NewcomerIsPlaced
  <2> QED BY <2>1, <2>2
<1>4. ServedInOrder <=> [][InOrder]_vars
  BY DEF ServedInOrder
<1> HIDE DEF InOrder
<1> QED
  BY PoolInvHolds, <1>1, <1>2, <1>3, <1>4, PTL DEF Spec

-----------------------------------------------------------------------------
(* The pool implements ConnectionLease. *)

LEMMA SameCardinality == \A S : Lease!Cardinality(S) = Cardinality(S)
BY DEF Lease!Cardinality, Cardinality

LEMMA LendStep ==
  ASSUME PoolInv, phase = "open", phase' = phase, NEW c \in Conn, NEW h \in Host,
         Obtain(c, h)
  PROVE  /\ c \notin Lease!Lent
         /\ c \in Live \/ Lease!Cardinality(Live) < MaxConnections
         /\ Live' = Live \cup {c}
<1>1. StoreTypeOK /\ StoreInv /\ \A u \in Task : handle[u] # NoConn => handle[u] \notin Idle
  BY DEF PoolInv, TypeOK, StoreTypeOK, OwnerInv, HandleMatches, HeldNotIdle
<1>2. CASE c \in IdleOn(h) /\ Reuse(c)
  <2>1. c \in Idle /\ c \in Live
    BY <1>2, IdleIsLive DEF IdleOn
  <2>2. Live' = Live
    BY <1>1, <1>2, <2>1, ReuseKeeps
  <2> QED BY <1>1, <2>1, <2>2 DEF Lease!Lent
<1>3. CASE HasRoom(h) /\ Fresh(c) /\ Create(c, h)
  <2>1. c \notin Live /\ \A u \in Task : handle[u] # c
    BY <1>3 DEF Fresh
  <2>2. Live' = Live \cup {c}
    BY <1>1, <1>3, <2>1, CreateKeeps
  <2> QED BY <1>3, <2>1, <2>2, SameCardinality DEF Lease!Lent, HasRoom
<1> QED
  BY <1>2, <1>3 DEF Obtain

LEMMA ServeIsLend ==
  ASSUME PoolInv, ServeHead
  PROVE  Lease!Next \/ UNCHANGED Lease!vars
<1> DEFINE t == Head(queue).task
<1>1. PICK c \in Conn : /\ Obtain(c, Head(queue).host)
                        /\ handle' = [u \in Task |-> IF u = t THEN c ELSE handle[u]]
  BY DEF ServeHead
<1>2. /\ queue \in Seq(Pending) /\ queue # << >> /\ Matches(queue, pc)
      /\ handle \in [Task -> Conn \cup {NoConn}]
  BY QueueMatchesByIndex DEF PoolInv, TypeOK, QueueInv, ServeHead
<1>3. Head(queue) \in Pending /\ Head(queue) = queue[1] /\ 1 \in 1 .. Len(queue)
  BY <1>2, HeadTailProperties
<1>4. Head(queue).host \in Host /\ t \in Task \cup {NoTask}
  BY <1>3 DEF Pending
<1>5. phase = "open" /\ phase' = phase
  BY DEF ServeHead, PoolInv, QueueInv, ServingIsOpen
<1>6. /\ c \notin Lease!Lent
      /\ c \in Live \/ Lease!Cardinality(Live) < MaxConnections
      /\ Live' = Live \cup {c}
  BY <1>1, <1>4, <1>5, LendStep
<1>7. CASE t \in Task
  <2>1. pc[t] = "queued"
    BY <1>2, <1>3, <1>7 DEF Matches
  <2>2. handle[t] = NoConn
    BY <1>7, <2>1 DEF PoolInv, OwnerInv, HandleMatches, Owns
  <2>3. handle' = [handle EXCEPT ![t] = c]
    BY <1>1, <1>2, <1>7
  <2>4. Lease!Lend(t, c)
    BY <1>5, <1>6, <2>2, <2>3 DEF Lease!Lend
  <2> QED BY <1>7, <2>4 DEF Lease!Next
<1>8. CASE t = NoTask
  <2>1. handle' = handle
    BY <1>1, <1>2, <1>8, ConstantAssumption
  <2>2. CASE c \in Live
    BY <1>5, <1>6, <2>1, <2>2 DEF Lease!vars
  <2>3. CASE c \notin Live
    <3>1. Lease!Open(c)
      BY <1>5, <1>6, <2>1, <2>3 DEF Lease!Open
    <3> QED BY <3>1 DEF Lease!Next
  <2> QED BY <2>2, <2>3
<1> QED
  BY <1>4, <1>7, <1>8

LEMMA LetGoIsReturn ==
  ASSUME PoolInv, NEW t \in Task, pc[t] = "using", LetGo(t), UNCHANGED phase,
         Live' \in {Live, Live \ {handle[t]}}
  PROVE  Lease!Next
<1>1. handle[t] # NoConn
  BY DEF PoolInv, OwnerInv, HandleMatches, Owns
<1>2. Lease!Return(t)
  BY <1>1 DEF Lease!Return, LetGo
<1> QED
  BY <1>2 DEF Lease!Next

LEMMA ReleaseIsReturn ==
  ASSUME PoolInv, NEW t \in Task, Release(t) \/ Fail(t)
  PROVE  Lease!Next
<1>1. pc[t] = "using" /\ LetGo(t) /\ UNCHANGED phase
  BY DEF Release, Fail
<1>2. CASE Close({handle[t]})
  <2>1. Live' = Live \ {handle[t]}
    BY <1>2 DEF Close, Live
  <2> QED BY <1>1, <2>1, LetGoIsReturn
<1>3. CASE Release(t) /\ ~ Close({handle[t]})
  <2>1. state' = [state EXCEPT ![handle[t]] = IF handle[t] \in Live THEN "idle" ELSE "absent"]
    BY <1>3 DEF Release, GiveBack
  <2>2. Live' = Live
    BY <2>1 DEF PoolInv, TypeOK, Live
  <2> QED BY <1>1, <2>2, LetGoIsReturn
<1> QED
  BY <1>2, <1>3 DEF Fail

LEMMA PoolIsLease ==
  ASSUME PoolInv, PoolNext
  PROVE  Lease!Next \/ UNCHANGED Lease!vars
<1>1. ASSUME NEW t \in Task, NEW h \in Host, AcquireNow(t, h) PROVE Lease!Next
  <2>1. PICK c \in Conn : Obtain(c, h) /\ handle' = [handle EXCEPT ![t] = c]
    BY <1>1 DEF AcquireNow
  <2>2. phase = "open" /\ phase' = phase /\ pc[t] = "ready"
    BY <1>1 DEF AcquireNow
  <2>3. handle[t] = NoConn
    BY <2>2 DEF PoolInv, OwnerInv, HandleMatches, Owns
  <2>4. Lease!Lend(t, c)
    BY <2>1, <2>2, <2>3, LendStep DEF Lease!Lend
  <2> QED BY <2>4 DEF Lease!Next
<1>2. ASSUME NEW t \in Task, Cancel(t) PROVE Lease!Next \/ UNCHANGED Lease!vars
  <2>1. /\ handle' = [handle EXCEPT ![t] = NoConn] /\ Live' = Live /\ phase' = phase
        /\ handle \in [Task -> Conn \cup {NoConn}]
    BY <1>2 DEF Cancel, connVars, Live, PoolInv, TypeOK
  <2>2. CASE handle[t] = NoConn
    BY <2>1, <2>2 DEF Lease!vars
  <2>3. CASE handle[t] # NoConn
    <3>1. Lease!Return(t)
      BY <2>1, <2>3 DEF Lease!Return
    <3> QED BY <3>1 DEF Lease!Next
  <2> QED BY <2>2, <2>3
<1>3. ASSUME HealthCheck PROVE Lease!Next
  <2>1. Live' = Live \ Overdue /\ UNCHANGED <<handle, phase>>
    BY <1>3 DEF HealthCheck, Close, Live
  <2>2. Overdue \in SUBSET (Live \ Lease!Lent)
    BY IdleIsLive DEF Overdue, Lease!Lent, PoolInv, OwnerInv, HandleMatches, HeldNotIdle
  <2>3. Lease!Evict
    BY <2>1, <2>2 DEF Lease!Evict
  <2> QED BY <2>3 DEF Lease!Next
<1>4. ASSUME CloseEnd PROVE Lease!Next
  <2>1. Lease!ShutDown
    BY <1>4 DEF CloseEnd, Close, Live, Lease!ShutDown
  <2> QED BY <2>1 DEF Lease!Next
<1>5. ASSUME Drain PROVE UNCHANGED Lease!vars
  <2>1. Live' = Live
    BY <1>5 DEF Drain, Live
  <2> QED BY <1>5, <2>1 DEF Drain, Lease!vars
<1>6. ASSUME CloseBegin PROVE UNCHANGED Lease!vars
  BY <1>6 DEF CloseBegin, connVars, Live, Lease!vars
<1>7. ASSUME \/ ServeStop \/ Expire \/ \E t \in Task : Resume(t)
             \/ \E c \in Conn : Grow(c)
      PROVE  UNCHANGED Lease!vars
  BY <1>7 DEF ServeStop, Expire, Timeout, Resume, Grow, connVars, Live, Lease!vars
<1>8. ASSUME NEW t \in Task, NEW h \in Host, NEW p \in Priority, AcquireLater(t, h, p)
      PROVE  UNCHANGED Lease!vars
  BY <1>8 DEF AcquireLater, connVars, Live, Lease!vars
<1> QED
  BY <1>1, <1>2, <1>3, <1>4, <1>5, <1>6, <1>7, <1>8, ServeIsLend, ReleaseIsReturn
    DEF PoolNext, Acquire, Housekeep

\* Every step of the pool is a step of ConnectionLease or changes nothing
\* there: whatever holds of every lease system holds of this pool.
THEOREM Implements == Spec => LeaseSpec
<1>1. Init => Lease!Init
  BY DEF Init, Lease!Init, Live
<1>2. PoolInv /\ [Next]_vars => [Lease!Next]_(Lease!vars)
  <2> SUFFICES ASSUME PoolInv, [Next]_vars PROVE Lease!Next \/ UNCHANGED Lease!vars
    OBVIOUS
  <2>1. ASSUME UNCHANGED vars PROVE UNCHANGED Lease!vars
    BY <2>1 DEF vars, connVars, Live, Lease!vars
  <2> QED
    BY <2>1, PoolIsLease, ReleaseIsReturn DEF Next
<1> QED
  BY <1>1, <1>2, PoolInvHolds, PTL DEF Spec, LeaseSpec, Lease!Spec

-----------------------------------------------------------------------------
(* The transport: fail() and release() of the same connection. *)

LEMMA RaiseKeeps ==
  ASSUME TransportInv, NEW t \in Task, Raise(t)
  PROVE  TransportInv'
<1>1. /\ turn = "loop" /\ pc[t] = "using" /\ Close({handle[t]})
      /\ pc' = [pc EXCEPT ![t] = "finally"] /\ turn' = "finally"
      /\ UNCHANGED <<queue, handle, phase>>
      /\ PoolInv /\ FinallyInv
  BY DEF Raise, TransportInv
<1>2. TypeOK /\ pc \in [Task -> PCs] /\ handle \in [Task -> Conn \cup {NoConn}] /\ OwnerInv
  BY <1>1 DEF PoolInv, TypeOK
<1>3. /\ StoreTypeOK' /\ StoreInv'
      /\ \A d \in Conn : d # handle[t] => state'[d] = state[d]
      /\ phase = "closed" => Live' = {}
  BY <1>1, CloseOwnKeeps
<1>4. /\ pc' \in [Task -> PCs] /\ pc'[t] = "finally"
      /\ \A u \in Task : u # t => pc'[u] = pc[u]
  BY <1>1, <1>2 DEF PCs
<1>5. handle[t] \in Conn /\ state'[handle[t]] = "absent"
  BY <1>1, <1>2 DEF OwnerInv, HandleMatches, Owns, Close
<1>6. TypeOK'
  BY <1>1, <1>2, <1>3, <1>4 DEF TypeOK, StoreTypeOK, Turns
<1>7. OwnerInv'
  <2>1. ASSUME NEW u \in Task
        PROVE  \/ /\ Owns(u) /\ Owns(u)' /\ handle'[u] = handle[u]
                  /\ (pc'[u] # "finally" => pc[u] # "finally")
                  /\ \/ state'[handle[u]] = state[handle[u]]
                     \/ /\ phase' = "closed" \/ pc'[u] = "finally"
                        /\ state'[handle[u]] = "absent"
               \/ ~ Owns(u)' /\ handle'[u] = NoConn
    <3>1. CASE u = t
      BY <1>1, <1>4, <1>5, <3>1 DEF Owns
    <3>2. CASE u # t /\ Owns(u)
      <4>1. handle[u] \in Conn /\ handle[u] # handle[t]
        BY <1>2, <3>2 DEF OwnerInv, HandleMatches, ExclusiveUse
      <4> QED BY <1>1, <1>3, <1>4, <3>2, <4>1 DEF Owns
    <3>3. CASE u # t /\ ~ Owns(u)
      BY <1>1, <1>2, <1>4, <3>3 DEF Owns, OwnerInv, HandleMatches
    <3> QED BY <3>1, <3>2, <3>3
  <2>2. /\ phase = "closed" => phase' = "closed"
        /\ handle' \in [Task -> Conn \cup {NoConn}] /\ state' \in [Conn -> States]
    BY <1>1, <1>2, <1>3 DEF StoreTypeOK
  <2> QED BY <1>2, <1>4, <2>1, <2>2, OwnersShrink
<1>8. QueueInv'
  <2>1. Waiting' = Waiting
    BY <1>1, <1>2, <1>4 DEF Waiting
  <2> QED BY <1>1, <1>3, <2>1
     DEF PoolInv, QueueInv, QueueMatchesWaiters, ServingIsOpen, ClosedIsEmpty
<1>9. FinallyInv'
  <2>1. \A u \in Task : pc'[u] = "finally" => u = t
    BY <1>1, <1>4 DEF FinallyInv
  <2> QED BY <1>1, <1>5, <2>1 DEF FinallyInv, Live
<1> QED
  BY <1>3, <1>6, <1>7, <1>8, <1>9 DEF TransportInv, PoolInv

\* release() of a connection that is not in the store changes nothing there.
LEMMA FinallyStore ==
  ASSUME TransportInv, NEW t \in Task, Finally(t)
  PROVE  /\ StoreTypeOK' /\ StoreInv' /\ Live' = Live /\ UNCHANGED state
         /\ turn' \in {"loop", "serve"} /\ (turn' = "serve" => phase = "open")
<1>1. /\ pc[t] = "finally" /\ GiveBack(handle[t]) /\ PoolInv /\ FinallyInv
  BY DEF Finally, TransportInv
<1>2. StoreTypeOK /\ StoreInv /\ phase \in Phases
  BY <1>1 DEF PoolInv, TypeOK, StoreTypeOK
<1>3. handle[t] \in Conn /\ handle[t] \notin Live /\ state[handle[t]] = "absent"
  BY <1>1 DEF FinallyInv, PoolInv, TypeOK, OwnerInv, HandleMatches, Owns, Live
<1>4. CASE Close({handle[t]}) /\ turn' = "loop"
  <2>1. IsFiniteSet({handle[t]}) /\ {handle[t]} \in SUBSET Conn
    BY <1>3, FS_Singleton
  <2>2. StoreTypeOK' /\ StoreInv' /\ Live' = Live \ {handle[t]}
    BY <1>2, <1>4, <2>1, CloseKeeps
  <2>3. state' = state
    BY <1>2, <1>3, <1>4 DEF Close, StoreTypeOK
  <2> QED BY <1>3, <1>4, <2>2, <2>3
<1>5. CASE /\ ~ KeepsNoMore(handle[t])
           /\ state' = [state EXCEPT ![handle[t]] =
                          IF handle[t] \in Live THEN "idle" ELSE "absent"]
           /\ rested' = rested \ {handle[t]}
           /\ turn' = "serve"
           /\ UNCHANGED <<host, aged, balance>>
  <2>1. state' = state
    BY <1>2, <1>3, <1>5 DEF StoreTypeOK
  <2>2. StoreTypeOK' /\ StoreInv' /\ Live' = Live
    BY <1>2, <1>5, <2>1, StoreUnchanged DEF StoreTypeOK
  <2> QED BY <1>5, <2>1, <2>2 DEF KeepsNoMore
<1> QED
  BY <1>1, <1>4, <1>5 DEF GiveBack

LEMMA FinallyKeeps ==
  ASSUME TransportInv, NEW t \in Task, Finally(t)
  PROVE  TransportInv'
<1>1. /\ pc[t] = "finally" /\ LetGo(t) /\ UNCHANGED <<queue, phase>>
      /\ PoolInv /\ FinallyInv
  BY DEF Finally, TransportInv
<1>2. /\ StoreTypeOK' /\ StoreInv' /\ Live' = Live /\ UNCHANGED state
      /\ turn' \in {"loop", "serve"} /\ (turn' = "serve" => phase = "open")
  BY FinallyStore
<1>3. (phase = "closed" => Live' = {}) /\ turn' \in Turns
  BY <1>1, <1>2 DEF PoolInv, QueueInv, ClosedIsEmpty, Turns
<1>4. TypeOK' /\ OwnerInv' /\ QueueInv'
  BY <1>1, <1>2, <1>3, LetGoKeeps
<1>5. FinallyInv'
  <2>1. \A u \in Task : pc'[u] # "finally"
    BY <1>1 DEF LetGo, FinallyInv, PoolInv, TypeOK
  <2> QED BY <2>1 DEF FinallyInv
<1> QED
  BY <1>2, <1>4, <1>5 DEF TransportInv, PoolInv

\* While a task is between its two calls nothing but the second one happens,
\* and the pool itself brings no task there.
LEMMA PoolAvoidsFinally ==
  ASSUME TransportInv, PoolNext
  PROVE  \A t \in Task : pc[t] # "finally" /\ pc'[t] # "finally"
<1>1. turn # "finally"
  BY DEF PoolNext, Acquire, AcquireNow, AcquireLater, Resume, Cancel, Release, Expire,
         Timeout, ServeHead, ServeStop, Housekeep, Drain, CloseBegin, CloseEnd,
         HealthCheck, Grow
<1>2. pc \in [Task -> PCs] /\ \A t \in Task : pc[t] # "finally"
  BY <1>1 DEF TransportInv, PoolInv, TypeOK, FinallyInv
<1> QED
  BY <1>2 DEF PoolNext, Acquire, AcquireNow, AcquireLater, Resume, Cancel, Release, LetGo,
         Expire, Timeout, ServeHead, ServeStop, Housekeep, Drain, CloseBegin, CloseEnd,
         RejectPending, HealthCheck, Grow

\* The invariant of the pool holds under the transport, all of it but the
\* agreement of the statistics.
THEOREM TransportInductive == TransportSpec => []TransportInv
<1>1. Init => TransportInv
  BY InitIInv DEF IInv, TransportInv, FinallyInv, Init
<1>2. TransportInv /\ [TransportNext]_vars => TransportInv'
  <2> SUFFICES ASSUME TransportInv, [TransportNext]_vars PROVE TransportInv'
    OBVIOUS
  <2>1. CASE PoolNext
    BY <2>1, PoolNextKeeps, PoolAvoidsFinally DEF TransportInv, FinallyInv
  <2>2. CASE UNCHANGED vars
    <3>1. UNCHANGED <<state, pc, handle, turn>>
      BY <2>2 DEF vars, connVars
    <3> QED BY <2>2, <3>1, StutterKeeps DEF TransportInv, FinallyInv, Live
  <2> QED BY <2>1, <2>2, RaiseKeeps, FinallyKeeps DEF TransportNext
<1> QED
  BY <1>1, <1>2, PTL DEF TransportSpec

\* Also when every failed connection is released a second time, the limits
\* hold, a connection in use has one user, no request is lost, and a closed
\* pool is empty.
THEOREM TransportKeepsPool ==
  TransportSpec => [](Capacity /\ IdleBound /\ ExclusiveUse /\ QueueMatchesWaiters /\ ClosedIsEmpty)
<1>1. TransportInv => Capacity /\ IdleBound /\ ExclusiveUse /\ QueueMatchesWaiters /\ ClosedIsEmpty
  BY DEF TransportInv, PoolInv, StoreInv, OwnerInv, QueueInv
<1> QED BY <1>1, TransportInductive, PTL

\* A connection that failed is not in the store when `finally` releases it,
\* and is not put back by that.
THEOREM FailedIsOut == TransportSpec => FailedStaysOut
<1> DEFINE Out == \A t \in Task : pc[t] = "finally" => handle[t] \notin Live \cup Live'
<1>1. TransportInv /\ [TransportNext]_vars => [Out]_vars
  <2> SUFFICES ASSUME TransportInv, TransportNext, NEW t \in Task, pc[t] = "finally"
               PROVE  handle[t] \notin Live \cup Live'
    BY DEF Out
  <2>1. turn = "finally" /\ handle[t] \notin Live
    BY DEF TransportInv, FinallyInv
  <2>2. \E u \in Task : Finally(u)
    BY <2>1, PoolAvoidsFinally DEF TransportNext, Raise
  <2> QED BY <2>1, <2>2, FinallyStore
<1>2. FailedStaysOut <=> [][Out]_vars
  BY DEF FailedStaysOut
<1> HIDE DEF Out
<1> QED
  BY <1>1, <1>2, TransportInductive, PTL DEF TransportSpec

-----------------------------------------------------------------------------
(* Who leaves the head of the queue behind.                                *)

\* A connection that is taken makes no host easier to serve.
LEMMA ObtainTakesRoom ==
  ASSUME StoreTypeOK, StoreInv, NEW c \in Conn, NEW g \in Host, Obtain(c, g),
         NEW h \in Host, Satisfiable(h)'
  PROVE  Satisfiable(h)
<1>1. CASE c \in IdleOn(g) /\ Reuse(c)
  <2>1. Live' = Live /\ LiveOn(h)' = LiveOn(h) /\ IdleOn(h)' \subseteq IdleOn(h)
    BY <1>1 DEF Reuse, IdleOn, Idle, Live, LiveOn, StoreTypeOK, States
  <2> QED BY <2>1 DEF Satisfiable, HasRoom
<1>2. CASE Fresh(c) /\ Create(c, g)
  <2>1. /\ Live \subseteq Live' /\ LiveOn(h) \subseteq LiveOn(h)'
        /\ Live' = Live \cup {c} /\ LiveOn(h)' \subseteq Live'
        /\ IdleOn(h)' \subseteq IdleOn(h)
    BY <1>2 DEF Fresh, Create, IdleOn, Idle, Live, LiveOn, StoreTypeOK, States
  <2>2. IsFiniteSet(Live \cup {c})
    BY FS_AddElement DEF StoreInv
  <2>3. IsFiniteSet(Live') /\ IsFiniteSet(LiveOn(h)')
    BY <2>1, <2>2, FS_Subset
  <2>4. /\ Cardinality(Live) <= Cardinality(Live') /\ Cardinality(Live) \in Nat
        /\ Cardinality(Live') \in Nat
    BY <2>1, <2>3, FS_Subset, FS_CardinalityType DEF StoreInv
  <2>5. /\ Cardinality(LiveOn(h)) <= Cardinality(LiveOn(h)')
        /\ Cardinality(LiveOn(h)) \in Nat /\ Cardinality(LiveOn(h)') \in Nat
    <3>1. IsFiniteSet(LiveOn(h))
      BY <2>1, <2>3, FS_Subset
    <3> QED BY <2>1, <2>3, <3>1, FS_Subset, FS_CardinalityType
  <2> QED BY <2>1, <2>4, <2>5, LimitAssumption DEF Satisfiable, HasRoom
<1> QED BY <1>1, <1>2 DEF Obtain

\* As long as the store stays as it is, so does what it could serve.
LEMMA SatisfiableStays ==
  ASSUME UNCHANGED <<state, host>>, NEW h PROVE Satisfiable(h)' = Satisfiable(h)
BY DEF Satisfiable, HasRoom, IdleOn, Idle, Live, LiveOn

\* The head of the queue keeps its host, except where something is put before
\* it, or where it is taken from the queue.
LEMMA HeadStays ==
  ASSUME PoolInv, queue # << >>
  PROVE  /\ \A i \in DOMAIN queue : i # 1 /\ Timeout(i) =>
              queue' # << >> /\ Head(queue') = Head(queue)
         /\ \A i \in DOMAIN queue : i = 1 /\ Timeout(i) =>
              Head(queue).timed /\ queue' = Tail(queue)
         /\ \A t \in Task : Cancel(t) => Head(queue').host = Head(queue).host
<1>1. queue \in Seq(Pending) /\ DOMAIN queue = 1 .. Len(queue) /\ Len(queue) \in Nat \ {0}
  BY DEF PoolInv, TypeOK
<1>2. ASSUME NEW i \in DOMAIN queue, i # 1, Timeout(i)
      PROVE  queue' # << >> /\ Head(queue') = Head(queue)
  <2>1. i \in 1 .. Len(queue) /\ queue' = RemoveAt(queue, i)
    BY <1>1, <1>2 DEF Timeout
  <2>2. /\ queue' \in Seq(Pending) /\ Len(queue') = Len(queue) - 1
        /\ \A k \in 1 .. Len(queue) - 1 :
             queue'[k] = IF k < i THEN queue[k] ELSE queue[k + 1]
    BY <1>1, <2>1, RemoveAtFacts
  <2>3. 1 \in 1 .. Len(queue) - 1 /\ 1 < i
    BY <1>1, <1>2, <2>1
  <2> QED BY <1>1, <2>2, <2>3
<1>3. ASSUME NEW i \in DOMAIN queue, i = 1, Timeout(i)
      PROVE  Head(queue).timed /\ queue' = Tail(queue)
  <2>1. queue[1].timed /\ queue' = RemoveAt(queue, 1)
    BY <1>3 DEF Timeout
  <2>2. RemoveAt(queue, 1) \in Seq(Pending) /\ Len(RemoveAt(queue, 1)) = Len(queue) - 1
        /\ \A k \in 1 .. Len(queue) - 1 : RemoveAt(queue, 1)[k] = queue[k + 1]
    <3>1. 1 \in 1 .. Len(queue)
      BY <1>1
    <3>2. /\ RemoveAt(queue, 1) \in Seq(Pending)
          /\ Len(RemoveAt(queue, 1)) = Len(queue) - 1
          /\ \A k \in 1 .. Len(queue) - 1 :
               RemoveAt(queue, 1)[k] = IF k < 1 THEN queue[k] ELSE queue[k + 1]
      BY <1>1, <3>1, RemoveAtFacts
    <3>3. ASSUME NEW k \in 1 .. Len(queue) - 1 PROVE RemoveAt(queue, 1)[k] = queue[k + 1]
      <4>1. ~ (k < 1)
        BY <1>1
      <4> QED BY <3>2, <4>1
    <3> QED BY <3>2, <3>3
  <2>3. Tail(queue) \in Seq(Pending) /\ Len(Tail(queue)) = Len(queue) - 1
        /\ \A k \in 1 .. Len(queue) - 1 : Tail(queue)[k] = queue[k + 1]
    BY <1>1
  <2> QED BY <1>1, <2>1, <2>2, <2>3
<1>4. ASSUME NEW t \in Task, Cancel(t) PROVE Head(queue').host = Head(queue).host
  <2>1. 1 \in DOMAIN queue /\ queue[1] \in Pending
    BY <1>1
  <2>2. queue' = [i \in DOMAIN queue |-> IF queue[i].task = t
                    THEN [queue[i] EXCEPT !.task = NoTask] ELSE queue[i]]
    BY <1>4 DEF Cancel
  <2>3. queue'[1].host = queue[1].host
    BY <2>1, <2>2 DEF Pending
  <2> QED BY <2>3
<1> QED BY <1>2, <1>3, <1>4

\* One that queues up comes before the head, and cannot be served itself, or
\* leaves the head where it is.
LEMMA NewcomerLeavesNobody ==
  ASSUME PoolInv, NEW t \in Task, NEW h \in Host, NEW p \in Priority,
         AcquireLater(t, h, p), LeftBehind'
  PROVE  LeftBehind
<1> DEFINE e == [task |-> t, host |-> h, priority |-> p, timed |-> t \in Timed]
           k == Slot(p)
<1>1. /\ turn = "loop" /\ turn' = turn /\ ~ Satisfiable(h)
      /\ queue' = InsertAt(queue, k, e) /\ UNCHANGED <<state, host>>
  BY DEF AcquireLater, connVars
<1>2. queue \in Seq(Pending) /\ Len(queue) \in Nat /\ e \in Pending /\ e.host = h
  BY DEF PoolInv, TypeOK, Pending
<1>3. k \in 1 .. Len(queue) + 1
  BY SlotInRange DEF PoolInv, TypeOK
<1>4. ~ Satisfiable(h)'
  BY <1>1, SatisfiableStays
<1> HIDE DEF e, k
<1>5. /\ queue' \in Seq(Pending) /\ Len(queue') = Len(queue) + 1
      /\ \A i \in 1 .. Len(queue) + 1 :
           queue'[i] = IF i < k THEN queue[i] ELSE IF i = k THEN e ELSE queue[i - 1]
  BY <1>1, <1>2, <1>3, PendingInserted
<1>6. Head(queue') = queue'[1]
  BY <1>2, <1>5
<1>7. CASE k = 1
  <2>1. queue'[1] = e
    BY <1>2, <1>5, <1>7
  <2> QED BY <1>2, <1>4, <1>6, <2>1 DEF LeftBehind
<1>8. CASE k # 1
  <2>1. 1 < k /\ Len(queue) \in Nat \ {0}
    BY <1>2, <1>3, <1>8
  <2>2. queue'[1] = queue[1] /\ queue # << >> /\ Head(queue) = queue[1]
    BY <1>2, <1>5, <2>1
  <2>3. Satisfiable(Head(queue).host)'
    BY <1>6, <2>2 DEF LeftBehind
  <2>4. Satisfiable(Head(queue).host)
    <3>1. PICK g : g = queue[1].host
      OBVIOUS
    <3>2. g = Head(queue).host /\ g = Head(queue').host
      BY <1>6, <2>2, <3>1
    <3>3. Satisfiable(g)'
      BY <1>1, <3>2 DEF LeftBehind, Satisfiable, HasRoom, IdleOn, Idle, Live, LiveOn
    <3>4. Satisfiable(g)
      BY <1>1, <3>3, SatisfiableStays
    <3> QED BY <3>2, <3>4
  <2> QED BY <1>1, <2>2, <2>4 DEF LeftBehind
<1> QED BY <1>7, <1>8

Excused ==
  \/ \E t \in Task : Discards(t)
  \/ \E c \in Overdue : state'[c] = "absent"
  \/ queue # << >> /\ Head(queue).timed /\ queue' = Tail(queue)

\* A step of the pool's callers.
LEMMA PoolLeavesNobody ==
  ASSUME PoolInv, PoolNext, LeftBehind', ~ LeftBehind
  PROVE  Excused
<1>0. TypeOK /\ StoreTypeOK /\ StoreInv /\ queue \in Seq(Pending)
  BY DEF PoolInv, TypeOK, StoreTypeOK
<1>1. ASSUME UNCHANGED <<state, host, turn>>, queue # << >>,
             Head(queue').host = Head(queue).host
      PROVE  FALSE
  <2>1. PICK g : g = Head(queue).host
    OBVIOUS
  <2>2. Satisfiable(g)'
    BY <1>1, <2>1 DEF LeftBehind, Satisfiable, HasRoom, IdleOn, Idle, Live, LiveOn
  <2>3. Satisfiable(g)
    BY <1>1, <2>2, SatisfiableStays
  <2> QED BY <1>1, <2>1, <2>3 DEF LeftBehind
<1>2. ASSUME NEW t \in Task, NEW h \in Host, AcquireNow(t, h) PROVE FALSE
  <2>1. PICK c \in Conn : Obtain(c, h)
    BY <1>2 DEF AcquireNow
  <2>2. turn = "loop" /\ queue' = queue /\ queue # << >> /\ Head(queue) \in Pending
    BY <1>0, <1>2 DEF AcquireNow, LeftBehind
  <2>3. Head(queue).host \in Host
    BY <2>2 DEF Pending
  <2>4. PICK g \in Host : g = Head(queue).host
    BY <2>3
  <2>5. Satisfiable(g)'
    BY <2>2, <2>4 DEF LeftBehind, Satisfiable, HasRoom, IdleOn, LiveOn
  <2>6. Satisfiable(g)
    BY <1>0, <2>1, <2>5, ObtainTakesRoom
  <2> QED BY <2>2, <2>4, <2>6 DEF LeftBehind
<1>3. ASSUME NEW t \in Task, Resume(t) PROVE FALSE
  BY <1>1, <1>3 DEF Resume, connVars, LeftBehind
<1>4. ASSUME NEW t \in Task, Cancel(t) PROVE FALSE
  <2>1. UNCHANGED <<state, host, turn>> /\ DOMAIN queue' = DOMAIN queue
    BY <1>4 DEF Cancel, connVars
  <2>2. queue # << >>
    <3>1. DOMAIN queue' # {}
      <4>1. CASE queue = << >>
        BY <4>1, <1>4 DEF Cancel, LeftBehind
      <4>2. CASE queue # << >>
        BY <1>0, <2>1, <4>2
      <4> QED BY <4>1, <4>2
    <3> QED BY <1>0, <2>1, <3>1
  <2> QED BY <1>1, <1>4, <2>1, <2>2, HeadStays
<1>5. ASSUME NEW t \in Task, Release(t) PROVE Excused
  <2>1. pc[t] = "using" /\ GiveBack(handle[t]) /\ pc'[t] = "ready"
    BY <1>0, <1>5 DEF Release, LetGo, TypeOK
  <2>2. KeepsNoMore(handle[t])
    BY <2>1 DEF GiveBack, LeftBehind
  <2> QED BY <2>1, <2>2 DEF Discards, Excused
<1>6. ASSUME NEW i \in DOMAIN queue, Timeout(i) PROVE Excused
  <2>1. UNCHANGED <<state, host, turn>> /\ queue # << >>
    BY <1>0, <1>6 DEF Timeout, connVars
  <2>2. CASE i = 1
    BY <1>6, <2>1, <2>2, HeadStays DEF Excused
  <2>3. CASE i # 1
    BY <1>1, <1>6, <2>1, <2>3, HeadStays
  <2> QED BY <2>2, <2>3
<1>7. CASE ServeHead \/ ServeStop
  BY <1>1, <1>7 DEF ServeHead, ServeStop, LeftBehind, connVars, Satisfiable, HasRoom,
                    IdleOn, Idle, Live, LiveOn
<1>8. CASE Housekeep
  <2>1. CASE Drain \/ CloseEnd
    BY <2>1 DEF Drain, CloseEnd, RejectPending, LeftBehind
  <2>2. CASE CloseBegin
    BY <1>1, <2>2 DEF CloseBegin, connVars, LeftBehind
  <2>3. CASE HealthCheck
    <3>1. PICK c : c \in Overdue
      BY <2>3 DEF HealthCheck
    <3>2. c \in Conn /\ state'[c] = "absent"
      BY <2>3, <3>1 DEF HealthCheck, Close, Overdue, Idle
    <3> QED BY <3>1, <3>2 DEF Excused
  <2> QED BY <1>8, <2>1, <2>2, <2>3 DEF Housekeep
<1>9. ASSUME NEW c \in Conn, Grow(c) PROVE FALSE
  BY <1>1, <1>9 DEF Grow, LeftBehind
<1> QED
  BY <1>2, <1>3, <1>4, <1>5, <1>6, <1>7, <1>8, <1>9, NewcomerLeavesNobody
  DEF PoolNext, Acquire, Expire

\* A head that could be served is left behind by a release that discards, by the
\* health check and by a timer; by nothing else that happens to the pool.
THEOREM SeldomLeftBehind == TransportSpec => OnlyThenLeftBehind
<1> DEFINE Step == LeftBehind' /\ ~ LeftBehind => Excused
<1>1. TransportInv /\ [TransportNext]_vars => [Step]_vars
  <2> SUFFICES ASSUME TransportInv, TransportNext, LeftBehind', ~ LeftBehind
               PROVE  Excused
    OBVIOUS
  <2>1. PoolInv
    BY DEF TransportInv
  <2>2. ASSUME NEW t \in Task, Raise(t) PROVE FALSE
    BY <2>2 DEF Raise, LeftBehind
  <2>3. ASSUME NEW t \in Task, Finally(t) PROVE Excused
    <3>1. pc[t] = "finally" /\ GiveBack(handle[t]) /\ pc'[t] = "ready"
      BY <2>1, <2>3 DEF Finally, LetGo, PoolInv, TypeOK
    <3>2. KeepsNoMore(handle[t])
      BY <3>1 DEF GiveBack, LeftBehind
    <3> QED BY <3>1, <3>2 DEF Discards, Excused
  <2> QED BY <2>1, <2>2, <2>3, PoolLeavesNobody DEF TransportNext
<1>2. OnlyThenLeftBehind <=> [][Step]_vars
  BY DEF OnlyThenLeftBehind, Excused
<1> HIDE DEF Step
<1> QED
  BY <1>1, <1>2, TransportInductive, PTL DEF TransportSpec

-----------------------------------------------------------------------------
(* No connection is orphaned, unless a task is cancelled while it waits.   *)

LEMMA OwnersHold ==
  ASSUME NoOrphan,
         \A c \in Active' :
           \/ c \in Active /\ \A u \in Task : Owns(u) /\ handle[u] = c
                                => Owns(u)' /\ handle'[u] = c
           \/ \E u \in Task : Owns(u)' /\ handle'[u] = c
  PROVE  NoOrphan'
BY DEF NoOrphan

\* Nothing but the task of an entry is taken from the queue or put into it.
LEMMA EntriesHaveTasks ==
  ASSUME PoolInv, NoneCancelled, "cancel" \notin Events, PoolNext
  PROVE  NoneCancelled'
<1>1. queue \in Seq(Pending) /\ DOMAIN queue = 1 .. Len(queue) /\ Len(queue) \in Nat
      /\ TypeOK
  BY DEF PoolInv, TypeOK
<1>2. CASE queue' \in {queue, << >>}
  BY <1>2 DEF NoneCancelled
<1>3. ASSUME NEW t \in Task, NEW h \in Host, NEW p \in Priority, AcquireLater(t, h, p)
      PROVE  NoneCancelled'
  <2> DEFINE e == [task |-> t, host |-> h, priority |-> p, timed |-> t \in Timed]
             k == Slot(p)
  <2>1. e \in Pending /\ e.task # NoTask
    BY ConstantAssumption DEF Pending
  <2>2. k \in 1 .. Len(queue) + 1 /\ queue' = InsertAt(queue, k, e)
    BY <1>1, <1>3, SlotInRange DEF AcquireLater
  <2> HIDE DEF e, k
  <2>3. /\ InsertAt(queue, k, e) \in Seq(Pending)
        /\ Len(InsertAt(queue, k, e)) = Len(queue) + 1
        /\ \A i \in 1 .. Len(queue) + 1 :
             InsertAt(queue, k, e)[i] =
               IF i < k THEN queue[i] ELSE IF i = k THEN e ELSE queue[i - 1]
    <3>1. queue \in Seq(Pending) /\ e \in Pending /\ k \in 1 .. Len(queue) + 1
      BY <1>1, <2>1, <2>2
    <3> QED BY <3>1, PendingInserted
  <2>4. DOMAIN queue' = 1 .. Len(queue) + 1
    BY <2>2, <2>3
  <2>5. ASSUME NEW i \in 1 .. Len(queue) + 1 PROVE queue'[i].task # NoTask
    <3>1. CASE i < k
      <4>1. i \in 1 .. Len(queue) /\ queue'[i] = queue[i]
        BY <1>1, <2>2, <2>3, <3>1
      <4> QED BY <1>1, <4>1 DEF NoneCancelled
    <3>2. CASE i = k
      BY <2>1, <2>2, <2>3, <3>2
    <3>3. CASE i > k
      <4>1. i - 1 \in 1 .. Len(queue) /\ queue'[i] = queue[i - 1]
        BY <1>1, <2>2, <2>3, <3>3
      <4> QED BY <1>1, <4>1 DEF NoneCancelled
    <3> QED BY <1>1, <2>2, <3>1, <3>2, <3>3
  <2> QED BY <2>4, <2>5 DEF NoneCancelled
<1>4. ASSUME NEW k \in DOMAIN queue, Timeout(k) PROVE NoneCancelled'
  <2>1. /\ queue' \in Seq(Pending) /\ Len(queue') = Len(queue) - 1
        /\ \A i \in 1 .. Len(queue) - 1 : queue'[i] = IF i < k THEN queue[i] ELSE queue[i + 1]
    <3>1. queue' = RemoveAt(queue, k) /\ k \in 1 .. Len(queue)
      BY <1>1, <1>4 DEF Timeout
    <3> QED BY Zenon, <1>1, <3>1, RemoveAtFacts
  <2>2. DOMAIN queue' = 1 .. Len(queue) - 1
    BY <1>1, <2>1
  <2>3. ASSUME NEW i \in 1 .. Len(queue) - 1 PROVE queue'[i].task # NoTask
    <3>1. CASE i < k
      <4>1. i \in 1 .. Len(queue) /\ queue'[i] = queue[i]
        BY <1>1, <2>1, <3>1
      <4> QED BY <1>1, <4>1 DEF NoneCancelled
    <3>2. CASE ~ (i < k)
      <4>1. i + 1 \in 1 .. Len(queue) /\ queue'[i] = queue[i + 1]
        BY <1>1, <2>1, <3>2
      <4> QED BY <1>1, <4>1 DEF NoneCancelled
    <3> QED BY <3>1, <3>2
  <2> QED BY Zenon, <2>2, <2>3 DEF NoneCancelled
<1>5. ASSUME ServeHead PROVE NoneCancelled'
  <2>1. queue' = Tail(queue) /\ queue # << >>
    BY <1>5 DEF ServeHead
  <2>2. /\ DOMAIN queue' = 1 .. Len(queue) - 1
        /\ \A i \in 1 .. Len(queue) - 1 : queue'[i] = queue[i + 1]
    BY <1>1, <2>1
  <2> QED BY <1>1, <2>2 DEF NoneCancelled
<1>6. \/ queue' \in {queue, << >>}
      \/ \E t \in Task, h \in Host, p \in Priority : AcquireLater(t, h, p)
      \/ Expire \/ ServeHead
  BY DEF PoolNext, Acquire, AcquireNow, Resume, Cancel, Release, ServeStop, Housekeep, Drain,
         CloseBegin, CloseEnd, RejectPending, HealthCheck, Grow
<1> QED
  BY <1>2, <1>3, <1>4, <1>5, <1>6 DEF Expire

\* Whoever takes a connection, for itself or from the queue, owns it.
LEMMA ObtainerOwns ==
  ASSUME PoolInv, NoOrphan, NEW c \in Conn, NEW h \in Host, Obtain(c, h),
         NEW t \in Task, ~ Owns(t), Owns(t)', handle'[t] = c,
         \A u \in Task : u # t => handle'[u] = handle[u] /\ (Owns(u) => Owns(u)')
  PROVE  NoOrphan'
<1>1. state' = [state EXCEPT ![c] = "active"]
  BY ObtainKeeps DEF PoolInv, TypeOK, StoreTypeOK
<1>2. Active' \subseteq Active \cup {c}
  BY <1>1 DEF Active
<1> QED
  BY <1>2, OwnersHold

LEMMA PoolOrphansNothing ==
  ASSUME PoolInv, NoOrphan, NoneCancelled, "cancel" \notin Events, PoolNext
  PROVE  NoOrphan'
<1>1. /\ TypeOK /\ pc \in [Task -> PCs] /\ handle \in [Task -> Conn \cup {NoConn}]
      /\ queue \in Seq(Pending) /\ Matches(queue, pc) /\ state \in [Conn -> States]
  BY QueueMatchesByIndex DEF PoolInv, TypeOK, QueueInv
<1>2. ASSUME Active' \subseteq Active, handle' = handle,
             \A u \in Task : Owns(u) => Owns(u)'
      PROVE  NoOrphan'
  BY <1>2, OwnersHold
<1>3. ASSUME NEW t \in Task, NEW h \in Host, AcquireNow(t, h) PROVE NoOrphan'
  <2>1. PICK c \in Conn : Obtain(c, h) /\ handle' = [handle EXCEPT ![t] = c]
    BY <1>3 DEF AcquireNow
  <2>2. pc[t] = "ready" /\ pc' = [pc EXCEPT ![t] = "using"]
    BY <1>3 DEF AcquireNow
  <2>3. /\ ~ Owns(t) /\ Owns(t)' /\ handle'[t] = c
        /\ \A u \in Task : u # t => handle'[u] = handle[u] /\ (Owns(u) => Owns(u)')
    BY <1>1, <2>1, <2>2 DEF Owns
  <2> QED BY <2>1, <2>3, ObtainerOwns
<1>4. ASSUME ServeHead PROVE NoOrphan'
  <2>0. PICK t : t = Head(queue).task
    OBVIOUS
  <2>1. PICK c \in Conn : /\ Obtain(c, Head(queue).host)
                          /\ handle' = [u \in Task |-> IF u = t THEN c ELSE handle[u]]
    BY <1>4, <2>0 DEF ServeHead
  <2>2. pc' = [u \in Task |-> IF u = t THEN "granted" ELSE pc[u]] /\ queue # << >>
    BY <1>4, <2>0 DEF ServeHead
  <2>3. Head(queue) \in Pending /\ Head(queue) = queue[1] /\ 1 \in 1 .. Len(queue)
    BY <1>1, <2>2, HeadTailProperties
  <2>4. Head(queue).host \in Host /\ t \in Task
    BY <1>1, <2>0, <2>3 DEF Pending, NoneCancelled
  <2>5. pc[t] = "queued"
    BY <1>1, <2>0, <2>3, <2>4 DEF Matches
  <2>6. /\ ~ Owns(t) /\ Owns(t)' /\ handle'[t] = c
        /\ \A u \in Task : u # t => handle'[u] = handle[u] /\ (Owns(u) => Owns(u)')
    BY <1>1, <2>1, <2>2, <2>4, <2>5 DEF Owns
  <2> QED BY <2>1, <2>4, <2>6, ObtainerOwns
<1>5. ASSUME NEW t \in Task, Release(t) PROVE NoOrphan'
  <2>1. /\ GiveBack(handle[t]) /\ pc[t] = "using"
        /\ pc' = [pc EXCEPT ![t] = "ready"] /\ handle' = [handle EXCEPT ![t] = NoConn]
    BY <1>5 DEF Release, LetGo
  <2>2. Active' \subseteq Active \ {handle[t]}
    BY <1>1, <2>1 DEF GiveBack, Close, Active
  <2> QED BY <1>1, <2>1, <2>2, OwnersHold DEF Owns
<1>6. ASSUME NEW t \in Task, NEW h \in Host, NEW p \in Priority, AcquireLater(t, h, p)
      PROVE  NoOrphan'
  BY <1>1, <1>2, <1>6 DEF AcquireLater, connVars, Active, Owns
<1>7. ASSUME NEW t \in Task, Resume(t) PROVE NoOrphan'
  BY <1>1, <1>2, <1>7 DEF Resume, connVars, Active, Owns
<1>8. ASSUME NEW i \in DOMAIN queue, Timeout(i) PROVE NoOrphan'
  <2>1. i \in 1 .. Len(queue) /\ \A u \in Task : u = queue[i].task => pc[u] = "queued"
    BY <1>1 DEF Matches
  <2>2. \A u \in Task : Owns(u) => Owns(u)'
    BY <1>8, <2>1 DEF Timeout, Owns
  <2> QED BY <1>2, <1>8, <2>2 DEF Timeout, connVars, Active
<1>9. ASSUME Housekeep PROVE NoOrphan'
  <2>1. \A u \in Task : Owns(u) => Owns(u)'
    BY <1>9 DEF Housekeep, Drain, CloseBegin, CloseEnd, RejectPending, HealthCheck, Owns
  <2>2. handle' = handle
    BY <1>9 DEF Housekeep, Drain, CloseBegin, CloseEnd, HealthCheck
  <2>3. Active' \subseteq Active
    BY <1>9 DEF Housekeep, Drain, CloseBegin, CloseEnd, HealthCheck, Close, connVars, Active
  <2> QED BY <1>2, <2>1, <2>2, <2>3
<1>10. ASSUME \/ ServeStop \/ \E c \in Conn : Grow(c) PROVE NoOrphan'
  BY <1>2, <1>10 DEF ServeStop, Grow, connVars, Active, Owns
<1> QED
  BY <1>3, <1>4, <1>5, <1>6, <1>7, <1>8, <1>9, <1>10
    DEF PoolNext, Acquire, Expire, Cancel

LEMMA TransportOrphansNothing ==
  ASSUME TransportInv, NoOrphan, NoneCancelled,
         NEW t \in Task, Raise(t) \/ Finally(t)
  PROVE  NoOrphan' /\ NoneCancelled'
<1>1. /\ pc \in [Task -> PCs] /\ handle \in [Task -> Conn \cup {NoConn}]
      /\ queue' = queue
  BY DEF TransportInv, PoolInv, TypeOK, Raise, Finally
<1>2. CASE Raise(t)
  <2>1. Active' \subseteq Active /\ handle' = handle
    BY <1>2 DEF Raise, Close, Active
  <2>2. \A u \in Task : Owns(u) => Owns(u)'
    BY <1>1, <1>2 DEF Raise, Owns
  <2> QED BY <1>1, <2>1, <2>2, OwnersHold DEF NoneCancelled
<1>3. CASE Finally(t)
  <2>1. Active' = Active /\ handle[t] \notin Active
    BY <1>3, FinallyStore, IdleIsLive DEF Active, Finally, TransportInv, FinallyInv
  <2>2. \A u \in Task : u # t /\ Owns(u) => Owns(u)' /\ handle'[u] = handle[u]
    BY <1>1, <1>3 DEF Finally, LetGo, Owns
  <2> QED BY <1>1, <2>1, <2>2, OwnersHold DEF NoneCancelled
<1> QED
  BY <1>2, <1>3

\* Every ACTIVE connection has a task that will give it back, however requests
\* end: a response, an exception, a refusal, drain() or close().  Only the
\* cancellation of a task that waits is set apart: the connection that was
\* already taken for it is then nobody's.
THEOREM NothingOrphaned ==
  ASSUME "cancel" \notin Events
  PROVE  TransportSpec => []NoOrphan
<1>1. Init => NoOrphan /\ NoneCancelled
  BY DEF Init, NoOrphan, Active, NoneCancelled
<1>2. TransportInv /\ NoOrphan /\ NoneCancelled /\ [TransportNext]_vars
        => (NoOrphan /\ NoneCancelled)'
  <2> SUFFICES ASSUME TransportInv, NoOrphan, NoneCancelled, [TransportNext]_vars
               PROVE  NoOrphan' /\ NoneCancelled'
    OBVIOUS
  <2>1. CASE PoolNext
    BY <2>1, PoolOrphansNothing, EntriesHaveTasks DEF TransportInv
  <2>2. CASE UNCHANGED vars
    BY <2>2 DEF vars, connVars, NoOrphan, Active, Owns, NoneCancelled
  <2> QED BY <2>1, <2>2, TransportOrphansNothing DEF TransportNext
<1> QED
  BY <1>1, <1>2, TransportInductive, PTL DEF TransportSpec

-----------------------------------------------------------------------------
(* The transport implements ConnectionLease as well: a connection that     *)
(* failed counts as given back.                                            *)

Borrowed == [t \in Task |-> IF pc[t] = "finally" THEN NoConn ELSE handle[t]]

\* While no task is between its two calls both readings of the lease agree.
LEMMA SameLease ==
  ASSUME TypeOK, TypeOK', \A t \in Task : pc[t] # "finally" /\ pc'[t] # "finally",
         Lease!Next \/ UNCHANGED Lease!vars
  PROVE  TransportLease!Next \/ UNCHANGED TransportLease!vars
<1>1. Borrowed = handle /\ Borrowed' = handle'
  BY DEF Borrowed, TypeOK
<1>2. \A S : TransportLease!Cardinality(S) = Lease!Cardinality(S)
  BY DEF TransportLease!Cardinality, Lease!Cardinality
<1>3. TransportLease!Lent = Lease!Lent
  BY <1>1 DEF TransportLease!Lent, Lease!Lent, Borrowed
<1>4. ASSUME NEW t \in Task, NEW c \in Conn, Lease!Lend(t, c)
      PROVE  TransportLease!Lend(t, c)
  BY <1>1, <1>2, <1>3, <1>4 DEF Lease!Lend, TransportLease!Lend, Borrowed
<1>5. ASSUME NEW t \in Task, Lease!Return(t) PROVE TransportLease!Return(t)
  BY <1>1, <1>5 DEF Lease!Return, TransportLease!Return, Borrowed
<1>6. ASSUME NEW c \in Conn, Lease!Open(c) PROVE TransportLease!Open(c)
  BY <1>1, <1>2, <1>3, <1>6 DEF Lease!Open, TransportLease!Open, Borrowed
<1>7. ASSUME Lease!Evict PROVE TransportLease!Evict
  BY <1>1, <1>3, <1>7 DEF Lease!Evict, TransportLease!Evict, Borrowed
<1>8. ASSUME Lease!ShutDown PROVE TransportLease!ShutDown
  BY <1>1, <1>8 DEF Lease!ShutDown, TransportLease!ShutDown, Borrowed
<1>9. ASSUME UNCHANGED Lease!vars PROVE UNCHANGED TransportLease!vars
  BY <1>1, <1>9 DEF Lease!vars, TransportLease!vars, Borrowed
<1> QED
  BY <1>4, <1>5, <1>6, <1>7, <1>8, <1>9 DEF Lease!Next, TransportLease!Next

\* fail() gives the connection back, and the release() that follows changes
\* nothing that a user of the pool could see.
LEMMA RaiseIsReturn ==
  ASSUME TransportInv, NEW t \in Task, Raise(t)
  PROVE  TransportLease!Return(t)
<1>1. /\ pc[t] = "using" /\ pc' = [pc EXCEPT ![t] = "finally"] /\ UNCHANGED <<handle, phase>>
      /\ pc \in [Task -> PCs] /\ handle \in [Task -> Conn \cup {NoConn}]
  BY DEF Raise, TransportInv, PoolInv, TypeOK
<1>2. handle[t] # NoConn
  BY <1>1 DEF TransportInv, PoolInv, OwnerInv, HandleMatches, Owns
<1>3. Live' = Live \ {handle[t]}
  BY DEF Raise, Close, Live
<1>4. Borrowed[t] = handle[t]
  BY <1>1 DEF Borrowed
<1>5. Borrowed' = [Borrowed EXCEPT ![t] = NoConn]
  BY <1>1 DEF Borrowed
<1> QED
  BY <1>1, <1>2, <1>3, <1>4, <1>5 DEF TransportLease!Return, Borrowed

LEMMA FinallyIsSilent ==
  ASSUME TransportInv, NEW t \in Task, Finally(t)
  PROVE  UNCHANGED TransportLease!vars
<1>1. /\ pc[t] = "finally" /\ LetGo(t) /\ UNCHANGED phase
      /\ pc \in [Task -> PCs] /\ handle \in [Task -> Conn \cup {NoConn}]
  BY DEF Finally, TransportInv, PoolInv, TypeOK
<1>2. Borrowed' = Borrowed
  BY <1>1 DEF LetGo, Borrowed
<1>3. Live' = Live
  BY FinallyStore
<1> QED
  BY <1>1, <1>2, <1>3 DEF TransportLease!vars, Borrowed

\* Every step of a request's way through the transport lends a connection that
\* nobody else has, returns one or changes nothing, also with a second release
\* of what has already failed.
THEOREM TransportImplements == TransportSpec => TransportLeaseSpec
<1>1. Init => TransportLease!Init
  BY DEF Init, TransportLease!Init, Live
<1>2. TransportInv /\ TransportInv' /\ [TransportNext]_vars
        => [TransportLease!Next]_(TransportLease!vars)
  <2> SUFFICES ASSUME TransportInv, TransportInv', [TransportNext]_vars
               PROVE  TransportLease!Next \/ UNCHANGED TransportLease!vars
    OBVIOUS
  <2>1. CASE PoolNext
    BY <2>1, PoolIsLease, PoolAvoidsFinally, SameLease DEF TransportInv, PoolInv
  <2>2. ASSUME NEW t \in Task, Raise(t) PROVE TransportLease!Next
    BY <2>2, RaiseIsReturn DEF TransportLease!Next
  <2>3. CASE UNCHANGED vars
    BY <2>3 DEF vars, connVars, Live, TransportLease!vars
  <2> QED BY <2>1, <2>2, <2>3, FinallyIsSilent DEF TransportNext
<1> QED
  BY <1>1, <1>2, TransportInductive, PTL
    DEF TransportSpec, TransportLeaseSpec, TransportLease!Spec
=============================================================================
