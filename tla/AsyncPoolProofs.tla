--------------------------- MODULE AsyncPoolProofs ---------------------------
(***************************************************************************)
(* Proofs about AsyncPool, for any requests, connections, limits and       *)
(* events.                                                                 *)
(***************************************************************************)
EXTENDS AsyncPool, FiniteSetTheorems, SequenceTheorems, WellFoundedInduction, TLAPS

-----------------------------------------------------------------------------
(* Lists: what is in the queue and among the microtasks.                   *)

LEMMA MemberIs ==
  ASSUME NEW S, NEW s \in Seq(S)
  PROVE  \A x : x \in ToSet(s) <=> \E i \in 1 .. Len(s) : s[i] = x
BY DEF ToSet

LEMMA InsertAtFacts ==
  ASSUME NEW S, NEW s \in Seq(S), NEW e \in S, NEW k \in 1 .. Len(s) + 1
  PROVE  /\ InsertAt(s, k, e) \in Seq(S)
         /\ Len(InsertAt(s, k, e)) = Len(s) + 1
         /\ \A i \in 1 .. Len(s) + 1 :
              InsertAt(s, k, e)[i] = IF i < k THEN s[i]
                                     ELSE IF i = k THEN e ELSE s[i - 1]
<1> DEFINE a == SubSeq(s, 1, k - 1)
           b == SubSeq(s, k, Len(s))
           m == a \o <<e>>
<1>1. /\ a \in Seq(S) /\ Len(a) = k - 1
      /\ \A i \in 1 .. k - 1 : a[i] = s[i]
  <2>1. \A i \in 1 .. k - 1 : s[i] \in S
    BY ElementOfSeq
  <2> QED BY <2>1, SubSeqProperties
<1>2. /\ b \in Seq(S) /\ Len(b) = Len(s) - k + 1
      /\ \A i \in 1 .. Len(s) - k + 1 : b[i] = s[k + i - 1]
  <2>1. \A i \in k .. Len(s) : s[i] \in S
    BY ElementOfSeq
  <2> QED BY <2>1, SubSeqProperties
<1>3. <<e>> \in Seq(S) /\ Len(<<e>>) = 1 /\ <<e>>[1] = e
  OBVIOUS
<1>4. /\ m \in Seq(S) /\ Len(m) = k
      /\ \A i \in 1 .. k : m[i] = IF i < k THEN s[i] ELSE e
  <2> HIDE DEF a
  <2> QED BY <1>1, <1>3, ConcatProperties
<1>5. /\ m \o b \in Seq(S)
      /\ Len(m \o b) = Len(s) + 1
      /\ \A i \in 1 .. Len(s) + 1 :
           (m \o b)[i] = IF i <= k THEN m[i] ELSE b[i - k]
  <2> HIDE DEF a, m, b
  <2>1. /\ m \o b \in Seq(S)
        /\ Len(m \o b) = Len(m) + Len(b)
        /\ \A i \in 1 .. Len(m) + Len(b) :
             (m \o b)[i] = IF i <= Len(m) THEN m[i] ELSE b[i - Len(m)]
    BY <1>2, <1>4, ConcatProperties
  <2>2. Len(m) = k /\ Len(m) + Len(b) = Len(s) + 1
    BY <1>2, <1>4
  <2> QED BY <2>1, <2>2
<1> QED
  <2> HIDE DEF a, b
  <2>1. \A i \in 1 .. Len(s) + 1 :
           (m \o b)[i] = IF i < k THEN s[i] ELSE IF i = k THEN e ELSE s[i - 1]
    <3> HIDE DEF m
    <3> QED BY <1>2, <1>4, <1>5
  <2>2. InsertAt(s, k, e) = m \o b
    BY DEF InsertAt, m, a, b
  <2> QED BY <1>5, <2>1, <2>2

LEMMA RemoveAtFacts ==
  ASSUME NEW S, NEW s \in Seq(S), NEW k \in 1 .. Len(s)
  PROVE  /\ RemoveAt(s, k) \in Seq(S)
         /\ Len(RemoveAt(s, k)) = Len(s) - 1
         /\ \A i \in 1 .. Len(s) - 1 :
              RemoveAt(s, k)[i] = IF i < k THEN s[i] ELSE s[i + 1]
<1> DEFINE a == SubSeq(s, 1, k - 1)
           b == SubSeq(s, k + 1, Len(s))
<1>1. /\ a \in Seq(S) /\ Len(a) = k - 1
      /\ \A i \in 1 .. k - 1 : a[i] = s[i]
  <2>1. \A i \in 1 .. k - 1 : s[i] \in S
    BY ElementOfSeq
  <2> QED BY <2>1, SubSeqProperties
<1>2. /\ b \in Seq(S) /\ Len(b) = Len(s) - k
      /\ \A i \in 1 .. Len(s) - k : b[i] = s[k + i]
  <2>1. \A i \in k + 1 .. Len(s) : s[i] \in S
    BY ElementOfSeq
  <2> QED BY <2>1, SubSeqProperties
<1>3. /\ a \o b \in Seq(S)
      /\ Len(a \o b) = Len(s) - 1
      /\ \A i \in 1 .. Len(s) - 1 : (a \o b)[i] = IF i < k THEN a[i] ELSE b[i - k + 1]
  <2> HIDE DEF a, b
  <2>1. /\ a \o b \in Seq(S)
        /\ Len(a \o b) = Len(a) + Len(b)
        /\ \A i \in 1 .. Len(a) + Len(b) :
             (a \o b)[i] = IF i <= Len(a) THEN a[i] ELSE b[i - Len(a)]
    BY <1>1, <1>2, ConcatProperties
  <2>2. Len(a) = k - 1 /\ Len(a) + Len(b) = Len(s) - 1
    BY <1>1, <1>2
  <2>3. \A i \in 1 .. Len(s) - 1 :
          (a \o b)[i] = IF i <= k - 1 THEN a[i] ELSE b[i - (k - 1)]
    BY <2>1, <2>2
  <2>4. \A i \in 1 .. Len(s) - 1 : (i <= k - 1 <=> i < k) /\ i - (k - 1) = i - k + 1
    OBVIOUS
  <2> QED BY <2>1, <2>2, <2>3, <2>4
<1>4. RemoveAt(s, k) = a \o b
  BY DEF RemoveAt
<1>5. \A i \in 1 .. Len(s) - 1 : (a \o b)[i] = IF i < k THEN s[i] ELSE s[i + 1]
  <2> SUFFICES ASSUME NEW i \in 1 .. Len(s) - 1
               PROVE  (a \o b)[i] = IF i < k THEN s[i] ELSE s[i + 1]
    OBVIOUS
  <2> HIDE DEF a, b
  <2>1. CASE i < k
    BY <1>1, <1>3, <2>1
  <2>2. CASE ~ (i < k)
    <3>1. i - k + 1 \in 1 .. Len(s) - k /\ k + (i - k + 1) = i + 1
      BY <2>2
    <3>2. b[i - k + 1] = s[k + (i - k + 1)]
      BY <1>2, <3>1
    <3> QED BY <1>3, <2>2, <3>1, <3>2
  <2> QED BY <2>1, <2>2
<1> QED
  <2> HIDE DEF a, b
  <2> QED BY <1>3, <1>4, <1>5

Once(s) == \A i, j \in DOMAIN s : s[i] = s[j] => i = j

LEMMA InsertedOnce ==
  ASSUME NEW S, NEW s \in Seq(S), NEW e \in S, NEW k \in 1 .. Len(s) + 1,
         Once(s), e \notin ToSet(s)
  PROVE  /\ InsertAt(s, k, e) \in Seq(S)
         /\ ToSet(InsertAt(s, k, e)) = ToSet(s) \cup {e}
         /\ Once(InsertAt(s, k, e))
<1> DEFINE r == InsertAt(s, k, e)
           src(i) == IF i < k THEN i ELSE i - 1
<1>1. /\ r \in Seq(S) /\ Len(r) = Len(s) + 1 /\ Len(s) \in Nat
      /\ \A i \in 1 .. Len(s) + 1 :
           r[i] = IF i < k THEN s[i] ELSE IF i = k THEN e ELSE s[i - 1]
  BY InsertAtFacts
<1> HIDE DEF r
<1>2. \A i \in 1 .. Len(s) + 1 :
        i # k => src(i) \in 1 .. Len(s) /\ r[i] = s[src(i)]
  BY <1>1
<1>3. \A i, j \in 1 .. Len(s) + 1 : i # k /\ j # k /\ src(i) = src(j) => i = j
  OBVIOUS
<1>4. \A n \in 1 .. Len(s) : \E i \in 1 .. Len(s) + 1 : i # k /\ src(i) = n
  <2> SUFFICES ASSUME NEW n \in 1 .. Len(s)
               PROVE  \E i \in 1 .. Len(s) + 1 : i # k /\ src(i) = n
    OBVIOUS
  <2>1. CASE n < k
    BY <2>1
  <2>2. CASE n >= k
    <3>1. n + 1 \in 1 .. Len(s) + 1 /\ n + 1 # k /\ src(n + 1) = n
      BY <2>2
    <3> QED BY <3>1
  <2> QED BY <2>1, <2>2
<1>5. r[k] = e /\ k \in 1 .. Len(s) + 1
  BY <1>1
<1> HIDE DEF src
<1>6. \A i \in 1 .. Len(s) : s[i] # e
  BY MemberIs
<1>7. Once(r)
  <2>1. DOMAIN r = 1 .. Len(s) + 1 /\ DOMAIN s = 1 .. Len(s)
    BY <1>1
  <2> QED BY <1>2, <1>3, <1>5, <1>6, <2>1 DEF Once
<1>8. \A x : x \in ToSet(r) <=> \E i \in 1 .. Len(s) + 1 : r[i] = x
  BY <1>1, MemberIs
<1>9. \A x : x \in ToSet(s) <=> \E i \in 1 .. Len(s) : s[i] = x
  BY MemberIs
<1>10. ASSUME NEW x \in ToSet(r) PROVE x \in ToSet(s) \cup {e}
  BY <1>2, <1>5, <1>8, <1>9
<1>11. ASSUME NEW x \in ToSet(s) \cup {e} PROVE x \in ToSet(r)
  <2>1. CASE x = e
    BY <1>5, <1>8, <2>1
  <2>2. CASE x \in ToSet(s)
    <3>1. PICK n \in 1 .. Len(s) : s[n] = x
      BY <1>9, <2>2
    <3>2. PICK i \in 1 .. Len(s) + 1 : i # k /\ src(i) = n
      BY <1>4
    <3>3. r[i] = x
      BY <1>2, <3>1, <3>2
    <3> QED BY <1>8, <3>3
  <2> QED BY <2>1, <2>2
<1> QED BY <1>1, <1>7, <1>10, <1>11 DEF r

LEMMA RemovedOnce ==
  ASSUME NEW S, NEW s \in Seq(S), NEW k \in 1 .. Len(s), Once(s)
  PROVE  /\ RemoveAt(s, k) \in Seq(S)
         /\ ToSet(RemoveAt(s, k)) = ToSet(s) \ {s[k]}
         /\ Once(RemoveAt(s, k))
         /\ k # 1 => RemoveAt(s, k) # <<>> /\ RemoveAt(s, k)[1] = s[1]
<1> DEFINE r == RemoveAt(s, k)
           src(i) == IF i < k THEN i ELSE i + 1
<1>1. /\ r \in Seq(S) /\ Len(r) = Len(s) - 1 /\ Len(s) \in Nat
      /\ \A i \in 1 .. Len(s) - 1 : r[i] = IF i < k THEN s[i] ELSE s[i + 1]
  BY RemoveAtFacts
<1> HIDE DEF r
<1>2. \A i \in 1 .. Len(s) - 1 : src(i) \in 1 .. Len(s) /\ src(i) # k /\ r[i] = s[src(i)]
  BY <1>1
<1>3. \A i, j \in 1 .. Len(s) - 1 : src(i) = src(j) => i = j
  OBVIOUS
<1>4. \A n \in 1 .. Len(s) : n # k => \E i \in 1 .. Len(s) - 1 : src(i) = n
  <2> SUFFICES ASSUME NEW n \in 1 .. Len(s), n # k
               PROVE  \E i \in 1 .. Len(s) - 1 : src(i) = n
    OBVIOUS
  <2>1. CASE n < k
    BY <2>1
  <2>2. CASE n > k
    <3>1. n - 1 \in 1 .. Len(s) - 1 /\ src(n - 1) = n
      BY <2>2
    <3> QED BY <3>1
  <2> QED BY <2>1, <2>2
<1>5. k # 1 => r # <<>> /\ r[1] = s[1]
  BY <1>1
<1> HIDE DEF src
<1>6. DOMAIN r = 1 .. Len(s) - 1 /\ DOMAIN s = 1 .. Len(s)
  BY <1>1
<1>7. Once(r)
  BY <1>2, <1>3, <1>6 DEF Once
<1>8. \A x : x \in ToSet(r) <=> \E i \in 1 .. Len(s) - 1 : r[i] = x
  BY <1>1, MemberIs
<1>9. \A x : x \in ToSet(s) <=> \E i \in 1 .. Len(s) : s[i] = x
  BY MemberIs
<1>10. ASSUME NEW x \in ToSet(r) PROVE x \in ToSet(s) \ {s[k]}
  BY <1>2, <1>6, <1>8, <1>9 DEF Once
<1>11. ASSUME NEW x \in ToSet(s) \ {s[k]} PROVE x \in ToSet(r)
  <2>1. PICK n \in 1 .. Len(s) : s[n] = x
    BY <1>9
  <2>2. PICK i \in 1 .. Len(s) - 1 : src(i) = n
    BY <1>4, <2>1
  <2>3. r[i] = x
    BY <1>2, <2>1, <2>2
  <2> QED BY <1>8, <2>3
<1> QED BY <1>1, <1>5, <1>7, <1>10, <1>11 DEF r

\* What goes when the first one goes.
LEMMA TailMembers ==
  ASSUME NEW S, NEW s \in Seq(S), s # <<>>
  PROVE  /\ Tail(s) \in Seq(S) /\ Head(s) \in S /\ Head(s) \in ToSet(s)
         /\ \A x \in ToSet(s) : x # Head(s) => x \in ToSet(Tail(s))
         /\ \A x \in ToSet(Tail(s)) : x \in ToSet(s)
         /\ Once(s) => Once(Tail(s)) /\ Head(s) \notin ToSet(Tail(s))
<1>1. /\ Tail(s) \in Seq(S) /\ Len(Tail(s)) = Len(s) - 1 /\ Len(s) \in Nat /\ Len(s) >= 1
      /\ \A i \in 1 .. Len(s) - 1 : Tail(s)[i] = s[i + 1]
      /\ Head(s) = s[1] /\ Head(s) \in S
  BY HeadTailProperties
<1>2. \A x : x \in ToSet(s) <=> \E i \in 1 .. Len(s) : s[i] = x
  BY MemberIs
<1>3. \A x : x \in ToSet(Tail(s)) <=> \E i \in 1 .. Len(s) - 1 : Tail(s)[i] = x
  <2> DEFINE r == Tail(s)
  <2>1. r \in Seq(S) /\ Len(r) = Len(s) - 1
    BY <1>1
  <2> HIDE DEF r
  <2>2. \A x : x \in ToSet(r) <=> \E i \in 1 .. Len(s) - 1 : r[i] = x
    BY <2>1, MemberIs
  <2> QED BY <2>2 DEF r
<1>4. ASSUME NEW x \in ToSet(s), x # Head(s) PROVE x \in ToSet(Tail(s))
  <2>1. PICK i \in 1 .. Len(s) : s[i] = x
    BY <1>2
  <2>2. i - 1 \in 1 .. Len(s) - 1 /\ Tail(s)[i - 1] = x
    BY <1>1, <1>4, <2>1
  <2> QED BY <1>3, <2>2
<1>5. ASSUME NEW x \in ToSet(Tail(s)) PROVE x \in ToSet(s)
  <2>1. PICK i \in 1 .. Len(s) - 1 : Tail(s)[i] = x
    BY <1>3
  <2>2. i + 1 \in 1 .. Len(s) /\ s[i + 1] = x
    BY <1>1, <2>1
  <2> QED BY <1>2, <2>2
<1>6. ASSUME Once(s) PROVE Once(Tail(s)) /\ Head(s) \notin ToSet(Tail(s))
  <2>1. DOMAIN s = 1 .. Len(s) /\ DOMAIN Tail(s) = 1 .. Len(s) - 1
    BY <1>1
  <2>2. \A i, j \in 1 .. Len(s) - 1 : Tail(s)[i] = Tail(s)[j] => i = j
    BY <1>1, <1>6, <2>1 DEF Once
  <2>3. \A i \in 1 .. Len(s) - 1 : Tail(s)[i] # s[1]
    BY <1>1, <1>6, <2>1 DEF Once
  <2>4. Head(s) \notin ToSet(Tail(s))
    BY <1>1, <1>3, <2>3
  <2> QED BY <2>1, <2>2, <2>4 DEF Once
<1>7. Head(s) \in ToSet(s)
  BY <1>1, <1>2
<1> QED BY <1>1, <1>4, <1>5, <1>6, <1>7

LEMMA AppendMembers ==
  ASSUME NEW S, NEW s \in Seq(S), NEW e \in S
  PROVE  /\ Append(s, e) \in Seq(S) /\ e \in ToSet(Append(s, e))
         /\ \A x \in ToSet(s) : x \in ToSet(Append(s, e))
         /\ \A x \in ToSet(Append(s, e)) : x = e \/ x \in ToSet(s)
<1>1. /\ Append(s, e) \in Seq(S) /\ Len(Append(s, e)) = Len(s) + 1 /\ Len(s) \in Nat
      /\ Append(s, e)[Len(s) + 1] = e
      /\ \A i \in 1 .. Len(s) : Append(s, e)[i] = s[i]
  BY AppendProperties
<1>2. \A x : x \in ToSet(s) <=> \E i \in 1 .. Len(s) : s[i] = x
  BY MemberIs
<1>3. \A x : x \in ToSet(Append(s, e)) <=> \E i \in 1 .. Len(s) + 1 : Append(s, e)[i] = x
  <2> DEFINE r == Append(s, e)
  <2>1. r \in Seq(S) /\ Len(r) = Len(s) + 1
    BY <1>1
  <2> HIDE DEF r
  <2>2. \A x : x \in ToSet(r) <=> \E i \in 1 .. Len(s) + 1 : r[i] = x
    BY <2>1, MemberIs
  <2> QED BY <2>2 DEF r
<1>4. e \in ToSet(Append(s, e))
  <2>1. Len(s) + 1 \in 1 .. Len(s) + 1
    BY <1>1
  <2> QED BY <1>1, <1>3, <2>1
<1>5. ASSUME NEW x \in ToSet(s) PROVE x \in ToSet(Append(s, e))
  <2>1. PICK i \in 1 .. Len(s) : s[i] = x
    BY <1>2
  <2>2. i \in 1 .. Len(s) + 1 /\ Append(s, e)[i] = x
    BY <1>1, <2>1
  <2> QED BY <1>3, <2>2
<1>6. ASSUME NEW x \in ToSet(Append(s, e)), x # e PROVE x \in ToSet(s)
  <2>1. PICK i \in 1 .. Len(s) + 1 : Append(s, e)[i] = x
    BY <1>3
  <2>2. i \in 1 .. Len(s) /\ s[i] = x
    BY <1>1, <1>6, <2>1
  <2> QED BY <1>2, <2>2
<1> QED BY <1>1, <1>4, <1>5, <1>6

\* removeConnection() leaves a list of connections, and no longer one.
LEMMA GoneIsList ==
  ASSUME conns \in Seq(Conn), NEW c
  PROVE  /\ Gone(c) \in Seq(Conn) /\ Len(Gone(c)) <= Len(conns)
         /\ \A d \in ToSet(Gone(c)) : d \in ToSet(conns)
<1>1. CASE c \in ToSet(conns)
  <2> DEFINE i == CHOOSE j \in DOMAIN conns : conns[j] = c
  <2>1. i \in 1 .. Len(conns)
    BY <1>1 DEF ToSet
  <2>0. Gone(c) = RemoveAt(conns, i)
    BY <1>1 DEF Gone
  <2> HIDE DEF i
  <2>2. /\ RemoveAt(conns, i) \in Seq(Conn)
        /\ Len(RemoveAt(conns, i)) = Len(conns) - 1 /\ Len(conns) \in Nat
        /\ \A n \in 1 .. Len(conns) - 1 :
             RemoveAt(conns, i)[n] = IF n < i THEN conns[n] ELSE conns[n + 1]
    BY <2>1, RemoveAtFacts
  <2>3. \A n \in 1 .. Len(conns) - 1 : \E m \in 1 .. Len(conns) : RemoveAt(conns, i)[n] = conns[m]
    BY <2>2
  <2>4. ASSUME NEW d \in ToSet(RemoveAt(conns, i)) PROVE d \in ToSet(conns)
    BY <2>2, <2>3, MemberIs
  <2> QED
    BY <2>0, <2>2, <2>4
<1>2. CASE c \notin ToSet(conns)
  BY <1>2 DEF Gone
<1> QED
  BY <1>1, <1>2

-----------------------------------------------------------------------------
(* The store and what requests hold: a small invariant of its own.         *)

\* What the lists of tasks are made of: connections.
ListsOK ==
  /\ DOMAIN todo = Task \cup Daemons
  /\ \A t \in Task : todo[t] \in Seq(Conn)

StoreTypeOK ==
  /\ conns \in Seq(Conn)
  /\ state \in [Conn -> States]
  /\ handle \in [Task -> Conn \cup {NoConn}]

StoreInv == StoreTypeOK /\ ExclusiveUse /\ HeldInUse

LEMMA StoreInit == Init => StoreInv
<1> SUFFICES ASSUME Init PROVE StoreInv
  OBVIOUS
<1>1. StoreTypeOK
  BY DEF Init, StoreTypeOK, States
<1>2. \A t \in Task : handle[t] = NoConn
  BY DEF Init
<1>3. ToSet(conns) = {}
  BY DEF Init, ToSet
<1>4. ExclusiveUse
  BY <1>2 DEF ExclusiveUse
<1>5. HeldInUse
  BY <1>3 DEF HeldInUse
<1> QED
  BY <1>1, <1>4, <1>5 DEF StoreInv

LEMMA ListsInit == Init => ListsOK
<1> SUFFICES ASSUME Init PROVE ListsOK
  OBVIOUS
<1>1. todo = [p \in Task \cup Daemons |-> <<>>]
  BY DEF Init
<1>2. <<>> \in Seq(Conn)
  OBVIOUS
<1> QED
  BY <1>1, <1>2 DEF ListsOK

\* A list of a task is that of the store or none, one of a daemon is its own.
LEMMA ListsKeep ==
  ASSUME ListsOK, conns \in Seq(Conn), [Next]_vars
  PROVE  ListsOK'
<1>0. ASSUME todo' = todo PROVE ListsOK'
  BY <1>0 DEF ListsOK
<1>1. ASSUME NEW t \in Task,
             \E s \in Seq(Conn) : todo' = [todo EXCEPT ![t] = s]
      PROVE  ListsOK'
  <2>1. PICK s \in Seq(Conn) : todo' = [todo EXCEPT ![t] = s]
    BY <1>1
  <2>2. DOMAIN todo' = DOMAIN todo
    BY <2>1
  <2>3. ASSUME NEW u \in Task PROVE todo'[u] \in Seq(Conn)
    <3>1. u \in DOMAIN todo /\ todo[u] \in Seq(Conn)
      BY DEF ListsOK
    <3>2. todo'[u] = IF u = t THEN s ELSE todo[u]
      BY <2>1, <3>1
    <3> QED BY <3>1, <3>2
  <2> QED
    BY <2>2, <2>3 DEF ListsOK
<1>2. ASSUME NEW d \in Daemons, NEW s, todo' = [todo EXCEPT ![d] = s]
      PROVE  ListsOK'
  <2>1. DOMAIN todo' = DOMAIN todo
    BY <1>2
  <2>2. ASSUME NEW u \in Task PROVE todo'[u] \in Seq(Conn)
    <3>1. u \in DOMAIN todo /\ u # d
      BY AsyncAssumption DEF ListsOK
    <3>2. todo'[u] = todo[u]
      BY <1>2, <3>1
    <3> QED BY <3>2 DEF ListsOK
  <2> QED
    BY <2>1, <2>2 DEF ListsOK
<1>3. <<>> \in Seq(Conn)
  OBVIOUS
<1>4. "closer" \in Daemons /\ "sweeper" \in Daemons
  BY DEF Daemons
<1>5. CASE UNCHANGED vars
  BY <1>0, <1>5 DEF vars
<1>6. ASSUME NEW t \in Task, NEW h \in Host, NEW n \in Priority, Acquire(t, h, n)
      PROVE  ListsOK'
  BY <1>1, <1>6 DEF Acquire
<1>7. ASSUME NEW t \in Task, Find(t) \/ CountIdle(t) PROVE ListsOK'
  <2>1. todo' = [todo EXCEPT ![t] = <<>>]
    BY <1>7 DEF Find, CountIdle
  <2> QED BY <1>1, <1>3, <2>1
<1>8. ASSUME NEW t \in Task, Release(t) PROVE ListsOK'
  <2>1. todo' = todo \/ todo' = [todo EXCEPT ![t] = conns]
    BY <1>8 DEF Release
  <2> QED BY <1>0, <1>1, <2>1
<1>9. ASSUME NEW t \in Task, Process(t) PROVE ListsOK'
  <2>1. todo' = todo \/ todo' = [todo EXCEPT ![t] = conns]
    BY <1>9 DEF Process, Look
  <2> QED BY <1>0, <1>1, <2>1
<1>10. ASSUME NEW t \in Task, Serve(t) \/ Hand(t) PROVE ListsOK'
  <2>1. todo' = todo \/ todo' = [todo EXCEPT ![t] = conns]
    BY <1>10 DEF Serve, Hand, Resolve
  <2> QED BY <1>0, <1>1, <2>1
<1>11. ASSUME NEW t \in Task,
              \/ CountAll(t) \/ CountHost(t) \/ Decide(t) \/ Settle(t) \/ Claim(t)
              \/ Return(t) \/ GiveBack(t) \/ Removal(t) \/ FailClose(t)
       PROVE  ListsOK'
  <2>1. todo' = todo
    BY <1>11 DEF CountAll, CountHost, Decide, Settle, Claim, Return, GiveBack,
                 Removal, FailClose
  <2> QED BY <1>0, <2>1
<1>12. ASSUME NEW t \in Task, Fail(t) \/ Abandon(t) \/ Timeout(t) \/ Abort(t)
       PROVE  ListsOK'
  <2>1. todo' = todo
    BY <1>12 DEF Fail, Abandon, Timeout, Abort, Leave
  <2> QED BY <1>0, <2>1
<1>13. ASSUME NEW d \in Daemons, Work(d) PROVE ListsOK'
  <2>1. \E s : todo' = [todo EXCEPT ![d] = s]
    BY <1>13 DEF Work
  <2> QED BY <1>2, <2>1
<1>14. ASSUME NEW d \in Daemons, WorkRemove(d) PROVE ListsOK'
  <2>1. \E s : todo' = [todo EXCEPT ![d] = s]
    BY <1>14 DEF WorkRemove
  <2> QED BY <1>2, <2>1
<1>15. CASE Sweep
  <2>1. \E s : todo' = [todo EXCEPT !["sweeper"] = s]
    BY <1>15 DEF Sweep
  <2> QED BY <1>2, <1>4, <2>1
<1>16. CASE Expire
  <2>1. \E s : todo' = [todo EXCEPT !["sweeper"] = s]
    BY <1>16 DEF Expire
  <2> QED BY <1>2, <1>4, <2>1
<1>17. CASE Close
  BY <1>2, <1>4, <1>17 DEF Close
<1>18. CASE List
  BY <1>2, <1>4, <1>18 DEF List
<1>19. CASE Swept
  BY <1>2, <1>4, <1>19 DEF Swept
<1>20. CASE Drained \/ Clear \/ \E d \in Daemons : WorkNext(d)
  BY <1>0, <1>20 DEF Drained, Clear, WorkNext
<1> QED
  BY <1>5, <1>6, <1>7, <1>8, <1>9, <1>10, <1>11, <1>12, <1>13, <1>14, <1>15, <1>16,
     <1>17, <1>18, <1>19, <1>20 DEF Next, Microtask

\* What has to be shown of a step.
LEMMA StoreStep ==
  ASSUME conns' \in Seq(Conn), state' \in [Conn -> States],
         handle' \in [Task -> Conn \cup {NoConn}],
         \A u, v \in Task :
           u # v /\ handle'[u] # NoConn /\ handle'[u] = handle'[v]
             => handle'[u] \notin ToSet(conns') /\ state'[handle'[u]] = "idle",
         \A u \in Task : handle'[u] \in ToSet(conns') => state'[handle'[u]] # "idle"
  PROVE  StoreInv'
<1>1. StoreTypeOK'
  BY DEF StoreTypeOK
<1>2. ExclusiveUse'
  BY DEF ExclusiveUse, LeftIdle
<1>3. HeldInUse'
  BY DEF HeldInUse
<1> QED
  BY <1>1, <1>2, <1>3 DEF StoreInv

\* What is known before it.
LEMMA StoreFacts ==
  ASSUME StoreInv
  PROVE  /\ conns \in Seq(Conn) /\ state \in [Conn -> States]
         /\ handle \in [Task -> Conn \cup {NoConn}]
         /\ ToSet(conns) \subseteq Conn /\ NoConn \notin ToSet(conns)
         /\ \A u, v \in Task :
              u # v /\ handle[u] # NoConn /\ handle[u] = handle[v]
                => handle[u] \notin ToSet(conns) /\ state[handle[u]] = "idle"
         /\ \A u \in Task : handle[u] \in ToSet(conns) => state[handle[u]] # "idle"
<1>1. conns \in Seq(Conn) /\ state \in [Conn -> States]
      /\ handle \in [Task -> Conn \cup {NoConn}]
  BY DEF StoreInv, StoreTypeOK
<1>2. ToSet(conns) \subseteq Conn
  BY <1>1, MemberIs
<1> QED
  BY <1>1, <1>2, AsyncAssumption DEF StoreInv, ExclusiveUse, HeldInUse, LeftIdle

LEMMA UpdateIs ==
  ASSUME state \in [Conn -> States], NEW c, NEW s \in States, Update(c, s)
  PROVE  /\ state' \in [Conn -> States]
         /\ \A d \in Conn : state'[d] = IF d = c /\ d \in ToSet(conns) THEN s ELSE state[d]
<1> DEFINE v == IF c \in ToSet(conns) THEN s ELSE state[c]
<1>1. state' = [state EXCEPT ![c] = v]
  BY DEF Update
<1>2. CASE c \in Conn
  <2>1. v \in States
    BY <1>2
  <2> HIDE DEF v
  <2>2. state' \in [Conn -> States] /\ \A d \in Conn : state'[d] = IF d = c THEN v ELSE state[d]
    BY <1>1, <1>2, <2>1
  <2> QED BY <2>2 DEF v
<1>3. CASE c \notin Conn
  <2> HIDE DEF v
  <2>1. state' = state
    BY <1>1, <1>3
  <2> QED BY <1>3, <2>1
<1> QED BY <1>2, <1>3

\* A connection that nobody holds goes to one request, and is marked; or one
\* that left the store idle goes to another request.
LEMMA Taken ==
  ASSUME StoreInv, NEW t \in Task, NEW c \in Conn,
         conns' \in Seq(Conn), state' \in [Conn -> States],
         \A d \in Conn : d # c => /\ d \in ToSet(conns') <=> d \in ToSet(conns)
                                  /\ state'[d] = state[d],
         handle' = [handle EXCEPT ![t] = c],
         \/ (\A u \in Task : handle[u] # c) /\ state'[c] # "idle"
         \/ c \notin ToSet(conns') /\ state'[c] = "idle"
  PROVE  StoreInv'
<1>1. \A u \in Task : handle'[u] = IF u = t THEN c ELSE handle[u]
  BY StoreFacts
<1>2. handle' \in [Task -> Conn \cup {NoConn}]
  BY StoreFacts
<1>3. ToSet(conns') \subseteq Conn
  <2> DEFINE s == conns'
  <2>1. s \in Seq(Conn)
    OBVIOUS
  <2> HIDE DEF s
  <2>2. ToSet(s) \subseteq Conn
    BY <2>1, MemberIs
  <2> QED BY <2>2 DEF s
<1>4. ASSUME NEW u \in Task, NEW v \in Task,
             u # v, handle'[u] # NoConn, handle'[u] = handle'[v]
      PROVE  handle'[u] \notin ToSet(conns') /\ state'[handle'[u]] = "idle"
  <2>1. CASE handle'[u] = c
    <3>1. \E w \in Task : handle[w] = c
      BY <1>1, <1>4, <2>1
    <3> QED BY <2>1, <3>1
  <2>2. CASE handle'[u] # c
    <3>1. handle'[u] = handle[u] /\ handle'[v] = handle[v] /\ handle[u] \in Conn
      BY <1>1, <1>4, <2>2, StoreFacts
    <3>2. handle[u] \notin ToSet(conns) /\ state[handle[u]] = "idle"
      BY <1>4, <3>1, StoreFacts
    <3> QED BY <2>2, <3>1, <3>2
  <2> QED BY <2>1, <2>2
<1>5. ASSUME NEW u \in Task, handle'[u] \in ToSet(conns')
      PROVE  state'[handle'[u]] # "idle"
  <2>1. CASE handle'[u] = c
    BY <1>5, <2>1
  <2>2. CASE handle'[u] # c
    <3>1. handle'[u] = handle[u] /\ handle[u] \in Conn
      BY <1>1, <1>3, <1>5, <2>2
    <3>2. handle[u] \in ToSet(conns)
      BY <1>5, <2>2, <3>1
    <3>3. state[handle[u]] # "idle"
      BY <3>2, StoreFacts
    <3> QED BY <2>2, <3>1, <3>3
  <2> QED BY <2>1, <2>2
<1> QED
  BY <1>2, <1>4, <1>5, StoreStep

LEMMA FindStep ==
  ASSUME StoreInv, ListsOK, NEW t \in Task, Find(t)
  PROVE  StoreInv'
<1>0. conns' = conns
  BY DEF Find
<1>1. CASE UNCHANGED <<state, handle>>
  BY <1>0, <1>1 DEF StoreInv, StoreTypeOK, ExclusiveUse, HeldInUse, LeftIdle
<1>2. ASSUME NEW i \in Usable(t),
             Update(todo[t][i], "active"),
             handle' = [handle EXCEPT ![t] = todo[t][i]]
      PROVE  StoreInv'
  <2> DEFINE c == todo[t][i]
  <2>1. c \in Conn /\ state[c] = "idle"
    <3>1. todo[t] \in Seq(Conn) /\ i \in DOMAIN todo[t] /\ state[todo[t][i]] = "idle"
      BY <1>2 DEF Usable, ListsOK
    <3> QED BY <3>1
  <2>2. Update(c, "active") /\ handle' = [handle EXCEPT ![t] = c]
    BY <1>2
  <2> HIDE DEF c
  <2>3. /\ state' \in [Conn -> States]
        /\ \A d \in Conn : state'[d] = IF d = c /\ d \in ToSet(conns) THEN "active" ELSE state[d]
    BY <2>2, StoreFacts, UpdateIs DEF States
  <2>4. CASE c \in ToSet(conns)
    <3>1. \A u \in Task : handle[u] # c
      BY <2>1, <2>4, StoreFacts
    <3>2. state'[c] # "idle"
      BY <2>1, <2>3, <2>4
    <3> QED
      BY <1>0, <2>1, <2>2, <2>3, <3>1, <3>2, Taken, StoreFacts
  <2>5. CASE c \notin ToSet(conns)
    <3>1. c \notin ToSet(conns') /\ state'[c] = "idle"
      BY <1>0, <2>1, <2>3, <2>5
    <3> QED
      BY <1>0, <2>1, <2>2, <2>3, <3>1, Taken, StoreFacts
  <2> QED
    BY <2>4, <2>5
<1> QED
  BY <1>1, <1>2 DEF Find

LEMMA CreateStep ==
  ASSUME StoreInv, NEW t \in Task, Create(t)
  PROVE  StoreInv'
<1>1. PICK c \in Conn :
        /\ Fresh(c)
        /\ conns'  = Append(conns, c)
        /\ state'  = [state EXCEPT ![c] = "active"]
        /\ handle' = [handle EXCEPT ![t] = c]
  BY DEF Create
<1>2. \A u \in Task : handle[u] # c
  BY <1>1 DEF Fresh
<1>3. /\ conns' \in Seq(Conn)
      /\ \A d \in Conn : d # c => (d \in ToSet(conns') <=> d \in ToSet(conns))
  BY <1>1, StoreFacts, AppendMembers
<1>4. /\ state' \in [Conn -> States] /\ state'[c] # "idle"
      /\ \A d \in Conn : d # c => state'[d] = state[d]
  BY <1>1, StoreFacts DEF States
<1> QED
  BY <1>1, <1>2, <1>3, <1>4, Taken

\* What a request has changes hands, or is let go.
LEMMA Passed ==
  ASSUME StoreInv, NEW t \in Task, NEW p,
         UNCHANGED <<conns, state>>,
         \/ handle' = [handle EXCEPT ![t] = NoConn]
         \/ handle' = [handle EXCEPT ![t] = NoConn, ![p] = handle[t]]
  PROVE  StoreInv'
<1>1. handle' \in [Task -> Conn \cup {NoConn}]
  BY StoreFacts
<1>2. \/ \A u \in Task : handle'[u] = IF u = t THEN NoConn ELSE handle[u]
      \/ \A u \in Task : handle'[u] = IF u = p THEN handle[t]
                                      ELSE IF u = t THEN NoConn ELSE handle[u]
  BY StoreFacts
<1>3. \A u \in Task : handle'[u] \in ToSet(conns) => state[handle'[u]] # "idle"
  BY <1>2, StoreFacts
<1>4. \A u, v \in Task :
        u # v /\ handle'[u] # NoConn /\ handle'[u] = handle'[v]
          => handle'[u] \notin ToSet(conns) /\ state[handle'[u]] = "idle"
  <2>1. CASE \A u \in Task : handle'[u] = IF u = t THEN NoConn ELSE handle[u]
    BY <2>1, StoreFacts
  <2>2. CASE \A u \in Task : handle'[u] = IF u = p THEN handle[t]
                                          ELSE IF u = t THEN NoConn ELSE handle[u]
    BY <2>2, StoreFacts
  <2> QED BY <1>2, <2>1, <2>2
<1> QED
  BY <1>1, <1>3, <1>4, StoreStep, StoreFacts

LEMMA ResolveStep ==
  ASSUME StoreInv, NEW t \in Task, Resolve(t), UNCHANGED <<conns, state>>
  PROVE  StoreInv'
BY Passed DEF Resolve

\* Whatever a connection is marked as, short of idle, nobody gets it.
LEMMA Marked ==
  ASSUME StoreInv, NEW c, NEW s \in States \ {"idle"},
         Update(c, s), UNCHANGED <<conns, handle>>
  PROVE  StoreInv'
<1>1. /\ state' \in [Conn -> States]
      /\ \A d \in Conn : state'[d] = IF d = c /\ d \in ToSet(conns) THEN s ELSE state[d]
  BY StoreFacts, UpdateIs
<1>2. ASSUME NEW u \in Task, handle'[u] \in ToSet(conns')
      PROVE  state'[handle'[u]] # "idle"
  BY <1>1, <1>2, StoreFacts
<1>3. ASSUME NEW u \in Task, NEW v \in Task,
             u # v, handle'[u] # NoConn, handle'[u] = handle'[v]
      PROVE  handle'[u] \notin ToSet(conns') /\ state'[handle'[u]] = "idle"
  <2>1. /\ handle[u] \notin ToSet(conns) /\ state[handle[u]] = "idle"
        /\ handle'[u] = handle[u] /\ handle[u] \in Conn /\ conns' = conns
    BY <1>3, StoreFacts
  <2> QED BY <1>1, <2>1
<1> QED
  BY <1>1, <1>2, <1>3, StoreStep, StoreFacts

LEMMA GiveBackStep ==
  ASSUME StoreInv, NEW t \in Task, GiveBack(t)
  PROVE  StoreInv'
<1>1. CASE room[t]
  <2>1. /\ conns' = conns
        /\ handle' = [handle EXCEPT ![t] = NoConn]
        /\ Update(handle[t], "idle")
    BY <1>1 DEF GiveBack
  <2>2. /\ state' \in [Conn -> States]
        /\ \A d \in Conn : state'[d] = IF d = handle[t] /\ d \in ToSet(conns)
                                       THEN "idle" ELSE state[d]
    BY <2>1, StoreFacts, UpdateIs DEF States
  <2>3. /\ handle' \in [Task -> Conn \cup {NoConn}]
        /\ \A u \in Task : handle'[u] = IF u = t THEN NoConn ELSE handle[u]
    BY <2>1, StoreFacts
  <2>4. ASSUME NEW u \in Task, NEW v \in Task,
               u # v, handle'[u] # NoConn, handle'[u] = handle'[v]
        PROVE  handle'[u] \notin ToSet(conns') /\ state'[handle'[u]] = "idle"
    <3>1. handle'[u] = handle[u] /\ handle'[v] = handle[v] /\ handle[u] \in Conn
      BY <2>3, <2>4, StoreFacts
    <3>2. handle[u] \notin ToSet(conns) /\ state[handle[u]] = "idle"
      BY <2>4, <3>1, StoreFacts
    <3> QED BY <2>1, <2>2, <3>1, <3>2
  <2>5. ASSUME NEW u \in Task, handle'[u] \in ToSet(conns')
        PROVE  state'[handle'[u]] # "idle"
    <3>1. u # t /\ handle'[u] = handle[u] /\ handle[u] \in ToSet(conns) /\ handle[u] \in Conn
      BY <2>1, <2>3, <2>5, StoreFacts
    <3>2. handle[u] # handle[t]
      BY <3>1, StoreFacts
    <3>3. state'[handle[u]] = state[handle[u]]
      BY <2>2, <3>1, <3>2
    <3> QED
      BY <3>1, <3>3, StoreFacts
  <2> QED
    BY <2>1, <2>2, <2>3, <2>4, <2>5, StoreStep, StoreFacts
<1>2. CASE ~ room[t]
  <2>1. Update(handle[t], "closed") /\ UNCHANGED <<conns, handle>>
    BY <1>2 DEF GiveBack
  <2> QED
    BY <2>1, Marked DEF States
<1> QED
  BY <1>1, <1>2

\* What leaves the store is found by nobody who lists it afterwards.
LEMMA Removed ==
  ASSUME StoreInv, conns' \in Seq(Conn), \A d \in ToSet(conns') : d \in ToSet(conns),
         state' = state,
         \/ handle' = handle
         \/ \E t \in Task : handle' = [handle EXCEPT ![t] = NoConn]
  PROVE  StoreInv'
<1>1. /\ handle' \in [Task -> Conn \cup {NoConn}]
      /\ \A u \in Task : handle'[u] \in {handle[u], NoConn}
  BY StoreFacts
<1>2. NoConn \notin ToSet(conns')
  BY StoreFacts
<1>3. ASSUME NEW u \in Task, NEW v \in Task,
             u # v, handle'[u] # NoConn, handle'[u] = handle'[v]
      PROVE  handle'[u] \notin ToSet(conns') /\ state'[handle'[u]] = "idle"
  <2>1. handle'[u] = handle[u] /\ handle'[v] = handle[v]
    BY <1>1, <1>3
  <2>2. handle[u] \notin ToSet(conns) /\ state[handle[u]] = "idle"
    BY <1>3, <2>1, StoreFacts
  <2> QED BY <2>1, <2>2
<1>4. ASSUME NEW u \in Task, handle'[u] \in ToSet(conns')
      PROVE  state'[handle'[u]] # "idle"
  <2>1. handle'[u] = handle[u] /\ handle[u] \in ToSet(conns)
    BY <1>1, <1>2, <1>4
  <2> QED BY <2>1, StoreFacts
<1> QED
  BY <1>1, <1>3, <1>4, StoreStep, StoreFacts

\* One step for each action, those that touch neither the store nor what the
\* requests hold together.
LEMMA StoreKeeps == StoreInv /\ ListsOK /\ [Next]_vars => StoreInv'
<1> SUFFICES ASSUME StoreInv, ListsOK, [Next]_vars PROVE StoreInv'
  OBVIOUS
<1>0. ASSUME UNCHANGED <<conns, state, handle>> PROVE StoreInv'
  BY <1>0 DEF StoreInv, StoreTypeOK, ExclusiveUse, HeldInUse, LeftIdle
<1>1. CASE UNCHANGED vars
  BY <1>0, <1>1 DEF vars, connVars, taskVars
<1>2. ASSUME NEW t \in Task, Find(t) PROVE StoreInv'
  BY <1>2, FindStep
<1>3. ASSUME NEW t \in Task, CountAll(t) \/ CountHost(t) \/ Settle(t) PROVE StoreInv'
  BY <1>0, <1>3 DEF CountAll, CountHost, Settle, connVars, taskVars
<1>4. ASSUME NEW t \in Task, Decide(t) PROVE StoreInv'
  BY <1>0, <1>4, CreateStep DEF Decide, connVars
<1>5. ASSUME NEW t \in Task, Claim(t) PROVE StoreInv'
  BY <1>0, <1>5, CreateStep DEF Claim, connVars
<1>6. ASSUME NEW t \in Task, Return(t) \/ Process(t) \/ CountIdle(t) PROVE StoreInv'
  BY <1>0, <1>6 DEF Return, Process, CountIdle, connVars, taskVars
<1>7. ASSUME NEW t \in Task, Serve(t) \/ Hand(t) PROVE StoreInv'
  BY <1>7, ResolveStep DEF Serve, Hand, connVars
<1>8. ASSUME NEW t \in Task, GiveBack(t) PROVE StoreInv'
  BY <1>8, GiveBackStep
<1>9. ASSUME NEW t \in Task, Removal(t) PROVE StoreInv'
  <2>1. conns' \in Seq(Conn) /\ \A d \in ToSet(conns') : d \in ToSet(conns)
    BY <1>9, GoneIsList, StoreFacts DEF Removal
  <2>2. state' = state /\ handle' = [handle EXCEPT ![t] = NoConn]
    BY <1>9 DEF Removal
  <2> QED
    BY <2>1, <2>2, Removed
<1>10. ASSUME NEW t \in Task, FailClose(t) PROVE StoreInv'
  BY <1>10, Marked DEF FailClose, States, taskVars
<1>11. ASSUME NEW t \in Task, Release(t) PROVE StoreInv'
  <2>1. \/ /\ Update(handle[t], "closed")
           /\ UNCHANGED <<conns, handle>>
        \/ UNCHANGED <<conns, state, handle>>
    BY <1>11 DEF Release, taskVars
  <2> QED
    BY <1>0, <2>1, Marked DEF States
<1>12. ASSUME NEW t \in Task, NEW h \in Host, NEW n \in Priority, Acquire(t, h, n)
       PROVE  StoreInv'
  BY <1>0, <1>12 DEF Acquire, connVars
<1>13. ASSUME NEW t \in Task, Fail(t) \/ Timeout(t) \/ Abort(t) PROVE StoreInv'
  BY <1>0, <1>13 DEF Fail, Timeout, Abort, Leave, connVars, taskVars
<1>14. ASSUME NEW t \in Task, Abandon(t) PROVE StoreInv'
  BY <1>14, Passed DEF Abandon, connVars
<1>15. ASSUME NEW d \in Daemons, Work(d) PROVE StoreInv'
  <2>1. UNCHANGED <<conns, handle>> /\ \E c : Update(c, "draining") \/ Update(c, "closed")
    BY <1>15 DEF Work, taskVars
  <2>2. PICK c : Update(c, "draining") \/ Update(c, "closed")
    BY <2>1
  <2> QED
    BY <2>1, <2>2, Marked DEF States
<1>16. ASSUME NEW d \in Daemons, WorkRemove(d) PROVE StoreInv'
  <2>1. conns' \in Seq(Conn) /\ \A e \in ToSet(conns') : e \in ToSet(conns)
    BY <1>16, GoneIsList, StoreFacts DEF WorkRemove
  <2> QED
    BY <1>16, <2>1, Removed DEF WorkRemove, taskVars
<1>17. CASE Clear
  <2>1. conns' = <<>> /\ state' = state /\ handle' = handle
    BY <1>17 DEF Clear, taskVars
  <2>2. conns' \in Seq(Conn) /\ ToSet(conns') = {}
    BY <2>1 DEF ToSet
  <2> QED
    BY <2>1, <2>2, Removed
<1>18. ASSUME \/ Drained \/ List \/ Expire \/ Swept \/ Close \/ Sweep
              \/ \E d \in Daemons : WorkNext(d)
       PROVE  StoreInv'
  BY <1>0, <1>18 DEF Drained, List, Expire, Swept, Close, Sweep, WorkNext,
                     connVars, taskVars
<1> QED
  BY <1>1, <1>2, <1>3, <1>4, <1>5, <1>6, <1>7, <1>8, <1>9, <1>10, <1>11, <1>12,
     <1>13, <1>14, <1>15, <1>16, <1>17, <1>18 DEF Next, Microtask

-----------------------------------------------------------------------------
(* The microtask queue and the queue of requests.                          *)

LEMMA ConcatMembers ==
  ASSUME NEW S, NEW a \in Seq(S), NEW b \in Seq(S)
  PROVE  /\ a \o b \in Seq(S)
         /\ \A x \in ToSet(a) : x \in ToSet(a \o b)
         /\ \A x \in ToSet(b) : x \in ToSet(a \o b)
<1> DEFINE r == a \o b
<1>1. /\ r \in Seq(S) /\ Len(r) = Len(a) + Len(b) /\ Len(a) \in Nat /\ Len(b) \in Nat
      /\ \A i \in 1 .. Len(a) + Len(b) : r[i] = IF i <= Len(a) THEN a[i] ELSE b[i - Len(a)]
  BY ConcatProperties
<1> HIDE DEF r
<1>2. \A x : x \in ToSet(r) <=> \E i \in 1 .. Len(a) + Len(b) : r[i] = x
  BY <1>1, MemberIs
<1>3. ASSUME NEW x \in ToSet(a) PROVE x \in ToSet(r)
  <2>1. PICK i \in 1 .. Len(a) : a[i] = x
    BY MemberIs
  <2>2. i \in 1 .. Len(a) + Len(b) /\ r[i] = x
    BY <1>1, <2>1
  <2> QED BY <1>2, <2>2
<1>4. ASSUME NEW x \in ToSet(b) PROVE x \in ToSet(r)
  <2>1. PICK i \in 1 .. Len(b) : b[i] = x
    BY MemberIs
  <2>2. /\ Len(a) + i \in 1 .. Len(a) + Len(b)
        /\ ~ (Len(a) + i <= Len(a)) /\ Len(a) + i - Len(a) = i
    BY <1>1, <2>1
  <2>3. r[Len(a) + i] = b[Len(a) + i - Len(a)]
    BY <1>1, <2>2
  <2> QED BY <1>2, <2>1, <2>2, <2>3
<1> QED BY <1>1, <1>3, <1>4 DEF r

Runner == Task \cup Daemons

\* A microtask that is due stays due until it is its turn.
LEMMA DueStays ==
  ASSUME ready \in Seq(Runner), NEW p \in Runner
  PROVE  /\ Starts(p) \/ (Runs(p) /\ Awaits(p)) =>
              /\ ready' \in Seq(Runner) /\ p \in ToSet(ready')
              /\ \A x \in ToSet(ready) : x \in ToSet(ready')
         /\ Runs(p) /\ Ends =>
              /\ ready' \in Seq(Runner)
              /\ \A x \in ToSet(ready) : x # p => x \in ToSet(ready')
<1>1. CASE Starts(p)
  BY <1>1, AppendMembers DEF Starts
<1>2. ASSUME Runs(p)
      PROVE  /\ Tail(ready) \in Seq(Runner)
             /\ \A x \in ToSet(ready) : x # p => x \in ToSet(Tail(ready))
  BY <1>2, TailMembers DEF Runs
<1>3. CASE Runs(p) /\ Awaits(p)
  <2>1. /\ Append(Tail(ready), p) \in Seq(Runner) /\ p \in ToSet(Append(Tail(ready), p))
        /\ \A x \in ToSet(Tail(ready)) : x \in ToSet(Append(Tail(ready), p))
    BY <1>2, <1>3, AppendMembers
  <2> QED BY <1>2, <1>3, <2>1 DEF Awaits
<1>4. ASSUME Runs(p), Ends
      PROVE  /\ ready' \in Seq(Runner)
             /\ \A x \in ToSet(ready) : x # p => x \in ToSet(ready')
  BY <1>2, <1>4 DEF Ends
<1> QED
  <2>1. Starts(p) \/ (Runs(p) /\ Awaits(p)) =>
          /\ ready' \in Seq(Runner) /\ p \in ToSet(ready')
          /\ \A x \in ToSet(ready) : x \in ToSet(ready')
    BY <1>1, <1>3
  <2> QED BY <1>4, <2>1

LEMMA ResolveDue ==
  ASSUME ready \in Seq(Runner), NEW t \in Task, Runs(t), Resolve(t), target[t] \in Task
  PROVE  /\ ready' \in Seq(Runner)
         /\ \A x \in ToSet(ready) : x # t => x \in ToSet(ready')
         /\ queue' # <<>> => t \in ToSet(ready')
<1>1. /\ Tail(ready) \in Seq(Runner)
      /\ \A x \in ToSet(ready) : x # t => x \in ToSet(Tail(ready))
  BY TailMembers DEF Runs
<1> DEFINE a == IF at[target[t]] = "waiting" THEN <<target[t]>> ELSE <<>>
           b == IF queue' = <<>> THEN <<>> ELSE <<t>>
<1>2. a \in Seq(Runner)
  <2>1. target[t] \in Runner
    BY DEF Runner
  <2>2. <<target[t]>> \in Seq(Runner)
    BY <2>1
  <2> QED BY <2>2
<1>3. b \in Seq(Runner) /\ (queue' # <<>> => t \in ToSet(b))
  <2>1. CASE queue' = <<>>
    BY <2>1
  <2>2. CASE queue' # <<>>
    <3>1. b = <<t>> /\ t \in Runner
      BY <2>2 DEF Runner
    <3>2. <<t>> \in Seq(Runner) /\ Len(<<t>>) = 1 /\ <<t>>[1] = t
      BY <3>1
    <3>3. t \in ToSet(<<t>>)
      BY DEF ToSet
    <3> QED BY <3>1, <3>2, <3>3
  <2> QED BY <2>1, <2>2
<1>4. ready' = Tail(ready) \o a \o b
  BY DEF Resolve
<1> HIDE DEF a, b
<1>5. /\ Tail(ready) \o a \in Seq(Runner)
      /\ \A x \in ToSet(Tail(ready)) : x \in ToSet(Tail(ready) \o a)
  BY <1>1, <1>2, ConcatMembers
<1>6. /\ (Tail(ready) \o a) \o b \in Seq(Runner)
      /\ \A x \in ToSet(Tail(ready) \o a) : x \in ToSet((Tail(ready) \o a) \o b)
      /\ \A x \in ToSet(b) : x \in ToSet((Tail(ready) \o a) \o b)
  BY <1>3, <1>5, ConcatMembers
<1> QED BY <1>1, <1>3, <1>4, <1>5, <1>6

LEMMA SlotInRange ==
  ASSUME queue \in Seq(Task), rank \in [Task -> Priority], NEW t \in Task
  PROVE  Slot(t) \in 1 .. Len(queue) + 1
<1> DEFINE Lower == {i \in 1 .. Len(queue) + 1 : i <= Len(queue) => rank[queue[i]] < rank[t]}
<1>1. Lower \in SUBSET Nat /\ Len(queue) + 1 \in Lower
  <2>1. Len(queue) \in Nat
    OBVIOUS
  <2>2. Len(queue) + 1 \in 1 .. Len(queue) + 1 /\ ~ (Len(queue) + 1 <= Len(queue))
    BY <2>1
  <2> QED BY <2>1, <2>2
<1>2. PICK i \in Lower : \A j \in Lower : i <= j
  <2> DEFINE Less == OpToRel(<, Nat)
  <2> HIDE DEF Lower
  <2>1. \A a, b \in Nat : <<a, b>> \in Less <=> a < b
    BY DEF OpToRel
  <2>2. IsWellFoundedOn(Less, Nat)
    BY NatLessThanWellFounded
  <2> HIDE DEF Less
  <2>3. \E b \in Lower : \A a \in Lower : ~ (<<a, b>> \in Less)
    BY <1>1, <2>2, WFMin
  <2>4. PICK b \in Lower : \A a \in Lower : ~ (<<a, b>> \in Less)
    BY <2>3
  <2>5. \A a \in Lower : a \in Nat
    BY <1>1
  <2>6. \A a \in Lower : ~ (a < b)
    BY <2>1, <2>4, <2>5
  <2> QED BY <2>5, <2>6
<1>0. \A n \in Priority : n \in Int
  BY AsyncAssumption
<1>3. \A j \in 1 .. Len(queue) : rank[queue[j]] \in Int
  <2> SUFFICES ASSUME NEW j \in 1 .. Len(queue) PROVE rank[queue[j]] \in Int
    OBVIOUS
  <2>1. queue[j] \in Task
    BY ElementOfSeq
  <2>2. rank[queue[j]] \in Priority
    BY <2>1
  <2> QED BY <1>0, <2>2
<1>4. rank[t] \in Int
  <2>1. rank[t] \in Priority
    OBVIOUS
  <2> QED BY <1>0, <2>1
<1>5. \A j \in 1 .. i - 1 : rank[queue[j]] >= rank[t]
  <2> SUFFICES ASSUME NEW j \in 1 .. i - 1 PROVE rank[queue[j]] >= rank[t]
    OBVIOUS
  <2>1. j \notin Lower
    <3> HIDE DEF Lower
    <3> QED BY <1>1, <1>2
  <2>2. j \in 1 .. Len(queue)
    BY <1>1, <1>2
  <2> QED BY <1>3, <1>4, <2>1, <2>2
<1> DEFINE At(k) == /\ \A j \in 1 .. k - 1 : rank[queue[j]] >= rank[t]
                    /\ k <= Len(queue) => rank[queue[k]] < rank[t]
<1>6. i \in 1 .. Len(queue) + 1 /\ At(i)
  BY <1>2, <1>5
<1>7. \E k \in 1 .. Len(queue) + 1 : At(k)
  BY <1>6
<1>8. Slot(t) = CHOOSE k \in 1 .. Len(queue) + 1 : At(k)
  BY DEF Slot
<1> HIDE DEF At
<1> QED BY <1>7, <1>8

\* Queueing a request that is not queued.
LEMMA InsertedFacts ==
  ASSUME queue \in Seq(Task), rank \in [Task -> Priority], Once(queue),
         NEW t \in Task, t \notin ToSet(queue)
  PROVE  /\ Inserted(t) \in Seq(Task) /\ Once(Inserted(t))
         /\ ToSet(Inserted(t)) = ToSet(queue) \cup {t}
BY SlotInRange, InsertedOnce DEF Inserted

\* The head of the queue goes.
LEMMA ShiftFacts ==
  ASSUME queue \in Seq(Task), Once(queue)
  PROVE  /\ Shift \in Seq(Task) /\ Once(Shift)
         /\ \A x \in ToSet(Shift) : x \in ToSet(queue)
         /\ queue # <<>> =>
              /\ Head(queue) \in ToSet(queue) /\ Head(queue) \notin ToSet(Shift)
              /\ \A x \in ToSet(queue) : x # Head(queue) => x \in ToSet(Shift)
<1>1. CASE queue = <<>>
  BY <1>1 DEF Shift, Once
<1>2. CASE queue # <<>>
  BY <1>2, TailMembers DEF Shift
<1> QED BY <1>1, <1>2

\* A request leaves the queue.
LEMMA LeaveFacts ==
  ASSUME queue \in Seq(Task), Once(queue), NEW t \in Task, Leave(t)
  PROVE  /\ queue' \in Seq(Task) /\ Once(queue') /\ t \in ToSet(queue)
         /\ ToSet(queue') = ToSet(queue) \ {t}
<1>1. PICK i \in 1 .. Len(queue) : queue[i] = t /\ queue' = RemoveAt(queue, i)
  BY DEF Leave
<1>2. t \in ToSet(queue)
  BY <1>1, MemberIs
<1> QED BY <1>1, <1>2, RemovedOnce

\* The head of a queue, where there is one.
LEMMA HeadQueued ==
  ASSUME NEW s \in Seq(Task), s # <<>>
  PROVE  Head(s) \in Task /\ Head(s) \in ToSet(s)
BY TailMembers

-----------------------------------------------------------------------------
(* Where the requests and the daemons stand, and what they have read.      *)

StandOK ==
  /\ at \in [Runner -> Stands]
  /\ rank \in [Task -> Priority]
  /\ room \in [Task -> BOOLEAN]
  /\ target \in [Task -> Task \cup {NoTask}]
  /\ disturbed \in BOOLEAN

LEMMA DaemonIsNoTask ==
  /\ \A t \in Task : t \in Runner /\ t \notin Daemons
  /\ \A d \in Daemons : d \in Runner /\ d \notin Task
  /\ "closer" \in Daemons /\ "sweeper" \in Daemons
BY AsyncAssumption DEF Runner, Daemons

LEMMA StandKeeps ==
  ASSUME StandOK, queue \in Seq(Task), queue' \in Seq(Task), [Next]_vars
  PROVE  StandOK'
<1> USE DaemonIsNoTask
<1>0. ASSUME at' \in [Runner -> Stands], UNCHANGED <<rank, room, target, disturbed>>
      PROVE  StandOK'
  BY <1>0 DEF StandOK
<1>1. CASE UNCHANGED vars
  BY <1>0, <1>1 DEF vars, taskVars, history, StandOK
<1>2. ASSUME NEW t \in Task, Find(t) PROVE StandOK'
  <2>1. at' \in [Runner -> Stands]
    BY <1>2 DEF Find, StandOK, Stands, Searching, Having, Using
  <2> QED BY <1>0, <1>2, <2>1 DEF Find, history
<1>3. ASSUME NEW t \in Task, CountAll(t) PROVE StandOK'
  <2>1. at' \in [Runner -> Stands]
    BY <1>3 DEF CountAll, StandOK, Stands, Searching, Having, Using
  <2>2. room' \in [Task -> BOOLEAN]
    BY <1>3 DEF CountAll, StandOK
  <2> QED BY <1>3, <2>1, <2>2 DEF CountAll, StandOK
<1>4. ASSUME NEW t \in Task, CountHost(t) PROVE StandOK'
  <2>1. at' \in [Runner -> Stands]
    BY <1>4 DEF CountHost, StandOK, Stands, Searching, Having, Using
  <2>2. room' \in [Task -> BOOLEAN]
    BY <1>4 DEF CountHost, StandOK
  <2> QED BY <1>4, <2>1, <2>2 DEF CountHost, StandOK, history
<1>5. ASSUME NEW t \in Task, Decide(t) PROVE StandOK'
  <2>1. at' \in [Runner -> Stands]
    BY <1>5 DEF Decide, StandOK, Stands, Searching, Having, Using
  <2>2. room' \in [Task -> BOOLEAN] /\ disturbed' \in BOOLEAN
    BY <1>5 DEF Decide, StandOK, Disturbs
  <2> QED BY <1>5, <2>1, <2>2 DEF Decide, StandOK
<1>6. ASSUME NEW t \in Task, Settle(t) PROVE StandOK'
  <2>1. at' \in [Runner -> Stands]
    BY <1>6 DEF Settle, StandOK, Stands, Searching, Having, Using
  <2> QED BY <1>0, <1>6, <2>1 DEF Settle, history, taskVars
<1>7. ASSUME NEW t \in Task, Claim(t) PROVE StandOK'
  <2>1. at' \in [Runner -> Stands]
    BY <1>7 DEF Claim, StandOK, Stands, Searching, Having, Using
  <2>2. room' \in [Task -> BOOLEAN] /\ disturbed' \in BOOLEAN
    BY <1>7 DEF Claim, StandOK, Disturbs
  <2>3. target' \in [Task -> Task \cup {NoTask}]
    BY <1>7 DEF Claim, StandOK
  <2> QED BY <1>7, <2>1, <2>2, <2>3 DEF Claim, StandOK
<1>8. ASSUME NEW t \in Task, Return(t) PROVE StandOK'
  <2>1. at' \in [Runner -> Stands]
    BY <1>8 DEF Return, StandOK, Stands, Searching, Having, Using
  <2> QED BY <1>0, <1>8, <2>1 DEF Return, history, taskVars
<1>9. ASSUME NEW t \in Task, Resolve(t) PROVE /\ at' \in [Runner -> Stands]
                                              /\ target' \in [Task -> Task \cup {NoTask}]
  <2>1. at' \in [Runner -> Stands]
    BY <1>9 DEF Resolve, StandOK, Stands, Searching, Having, Using
  <2>2. queue' # <<>> => Head(queue') \in Task
    BY HeadQueued
  <2>3. target' \in [Task -> Task \cup {NoTask}]
    BY <1>9, <2>2 DEF Resolve, StandOK
  <2> QED BY <2>1, <2>3
<1>10. ASSUME NEW t \in Task, Serve(t) PROVE StandOK'
  <2>1. disturbed' \in BOOLEAN
    BY <1>10 DEF Serve, StandOK, Disturbs
  <2> QED BY <1>9, <1>10, <2>1 DEF Serve, StandOK
<1>11. ASSUME NEW t \in Task, Hand(t) PROVE StandOK'
  BY <1>9, <1>11 DEF Hand, StandOK, history
<1>12. ASSUME NEW t \in Task, CountIdle(t) PROVE StandOK'
  <2>1. at' \in [Runner -> Stands]
    BY <1>12 DEF CountIdle, StandOK, Stands, Searching, Having, Using
  <2>2. room' \in [Task -> BOOLEAN]
    BY <1>12 DEF CountIdle, StandOK
  <2> QED BY <1>12, <2>1, <2>2 DEF CountIdle, StandOK, history
<1>13. ASSUME NEW t \in Task, GiveBack(t) PROVE StandOK'
  <2>1. at' \in [Runner -> Stands]
    BY <1>13 DEF GiveBack, StandOK, Stands, Searching, Having, Using
  <2>2. room' \in [Task -> BOOLEAN]
    BY <1>13 DEF GiveBack, StandOK
  <2> QED BY <1>13, <2>1, <2>2 DEF GiveBack, StandOK, history
<1>14. ASSUME NEW t \in Task, Process(t) PROVE StandOK'
  <2>1. at' \in [Runner -> Stands]
    BY <1>14 DEF Process, Look, StandOK, Stands, Searching, Having, Using
  <2>2. queue' # <<>> => Head(queue') \in Task
    BY HeadQueued
  <2>3. target' \in [Task -> Task \cup {NoTask}]
    BY <1>14, <2>2 DEF Process, Look, StandOK
  <2> QED BY <1>14, <2>1, <2>3 DEF Process, StandOK, history
<1>15. ASSUME NEW t \in Task, \/ Removal(t) \/ FailClose(t) \/ Fail(t) \/ Abandon(t) \/ Release(t)
       PROVE  StandOK'
  <2>1. at' \in [Runner -> Stands]
    BY <1>15 DEF Removal, FailClose, Fail, Abandon, Release, StandOK,
                 Stands, Searching, Having, Using
  <2> QED BY <1>0, <1>15, <2>1 DEF Removal, FailClose, Fail, Abandon, Release, history, taskVars
<1>16. ASSUME NEW t \in Task, NEW h \in Host, NEW n \in Priority, Acquire(t, h, n)
       PROVE  StandOK'
  <2>1. at' \in [Runner -> Stands]
    BY <1>16 DEF Acquire, StandOK, Stands, Searching, Having, Using
  <2>2. rank' \in [Task -> Priority]
    BY <1>16 DEF Acquire, StandOK
  <2> QED BY <1>16, <2>1, <2>2 DEF Acquire, StandOK, history
<1>17. ASSUME NEW t \in Task, Timeout(t) \/ Abort(t) PROVE StandOK'
  <2>1. at' \in [Runner -> Stands]
    BY <1>17 DEF Timeout, Abort, Leave, StandOK, Stands, Searching, Having, Using
  <2>2. disturbed' \in BOOLEAN
    BY <1>17 DEF Timeout, Abort, StandOK, Disturbs
  <2> QED BY <1>17, <2>1, <2>2 DEF Timeout, Abort, Leave, StandOK, taskVars
<1>18. ASSUME NEW d \in Daemons, Work(d) \/ WorkRemove(d) \/ WorkNext(d) PROVE StandOK'
  <2>1. at' \in [Runner -> Stands]
    BY <1>18 DEF Work, WorkRemove, WorkNext, StandOK, Stands, Searching, Having, Using
  <2> QED BY <1>0, <1>18, <2>1 DEF Work, WorkRemove, WorkNext, history, taskVars
<1>19. CASE Drained
  <2>1. at' \in [Runner -> Stands]
    BY <1>19 DEF Drained, StandOK, Stands, Searching, Having, Using
  <2>2. disturbed' \in BOOLEAN
    BY <1>19 DEF Drained, StandOK, Disturbs
  <2> QED BY <1>19, <2>1, <2>2 DEF Drained, StandOK, taskVars
<1>20. CASE List \/ Clear \/ Expire \/ Swept \/ Close \/ Sweep
  <2>1. at' \in [Runner -> Stands]
    BY <1>20 DEF List, Clear, Expire, Swept, Close, Sweep, StandOK,
                 Stands, Searching, Having, Using
  <2> QED BY <1>0, <1>20, <2>1 DEF List, Clear, Expire, Swept, Close, Sweep, history, taskVars
<1> QED
  BY <1>1, <1>2, <1>3, <1>4, <1>5, <1>6, <1>7, <1>8, <1>10, <1>11, <1>12, <1>13,
     <1>14, <1>15, <1>16, <1>17, <1>18, <1>19, <1>20 DEF Next, Microtask

QueueOK == queue \in Seq(Task) /\ Once(queue)

\* Who looks for a connection of its own is not queued yet.
Unqueued ==
  \A t \in Task : at[t] \in Searching /\ target[t] = NoTask => t \notin ToSet(queue)

LEMMA QueueKeeps ==
  ASSUME QueueOK, Unqueued, StandOK, [Next]_vars
  PROVE  QueueOK'
<1> USE DEF QueueOK
<1>0. ASSUME UNCHANGED queue PROVE QueueOK'
  BY <1>0 DEF Once
<1>1. ASSUME NEW t \in Task, Decide(t) PROVE QueueOK'
  <2>1. t \notin ToSet(queue)
    BY <1>1 DEF Decide, Unqueued, Searching
  <2>2. Inserted(t) \in Seq(Task) /\ Once(Inserted(t))
    BY <2>1, InsertedFacts DEF StandOK
  <2>3. queue' \in {queue, Inserted(t)}
    BY <1>1 DEF Decide
  <2> QED BY <1>0, <2>2, <2>3 DEF Once
<1>2. ASSUME queue' = Shift PROVE QueueOK'
  <2>1. Shift \in Seq(Task) /\ Once(Shift)
    BY ShiftFacts
  <2> QED BY <1>2, <2>1 DEF Once
<1>3. ASSUME NEW t \in Task, Leave(t) PROVE QueueOK'
  BY <1>3, LeaveFacts DEF Once
<1>4. CASE Drained
  BY <1>4 DEF Drained, Once
<1>5. CASE UNCHANGED vars
  BY <1>0, <1>5 DEF vars
<1>6. ASSUME NEW t \in Task,
             \/ Find(t) \/ CountAll(t) \/ CountHost(t) \/ Settle(t) \/ Claim(t) \/ Return(t)
             \/ Serve(t) \/ Hand(t) \/ CountIdle(t) \/ GiveBack(t) \/ Process(t) \/ Removal(t)
             \/ FailClose(t) \/ Release(t) \/ Fail(t) \/ Abandon(t)
             \/ \E h \in Host, n \in Priority : Acquire(t, h, n)
      PROVE  queue' \in {queue, Shift}
  BY <1>6 DEF Find, CountAll, CountHost, Settle, Claim, Return, Serve, Hand, CountIdle, GiveBack,
              Process, Removal, FailClose, Release, Fail, Abandon, Acquire
<1>7. ASSUME \/ \E d \in Daemons : Work(d) \/ WorkRemove(d) \/ WorkNext(d)
             \/ List \/ Clear \/ Expire \/ Swept \/ Close \/ Sweep
      PROVE  queue' = queue
  BY <1>7 DEF Work, WorkRemove, WorkNext, List, Clear, Expire, Swept, Close, Sweep
<1> QED
  BY <1>0, <1>1, <1>2, <1>3, <1>4, <1>5, <1>6, <1>7 DEF Next, Microtask, Timeout, Abort

LEMMA UnqueuedKeeps ==
  ASSUME QueueOK, Unqueued, StandOK, [Next]_vars
  PROVE  Unqueued'
<1> USE DaemonIsNoTask
<1>0. ASSUME \A x \in ToSet(queue') : x \in ToSet(queue),
             \A u \in Task : at'[u] \in Searching /\ target'[u] = NoTask
                               => at[u] \in Searching /\ target[u] = NoTask
      PROVE  Unqueued'
  BY <1>0 DEF Unqueued
<1>1. CASE UNCHANGED vars
  BY <1>1 DEF vars, taskVars, Unqueued
<1>2. ASSUME NEW t \in Task,
             \/ Find(t) \/ CountAll(t) \/ CountHost(t) \/ Settle(t) \/ Return(t) \/ CountIdle(t)
             \/ GiveBack(t) \/ Removal(t) \/ FailClose(t) \/ Release(t) \/ Fail(t) \/ Abandon(t)
      PROVE  Unqueued'
  <2>1. UNCHANGED <<queue, target>>
    BY <1>2 DEF Find, CountAll, CountHost, Settle, Return, CountIdle, GiveBack, Removal,
                FailClose, Release, Fail, Abandon, taskVars
  <2>2. \A u \in Task : at'[u] \in Searching => at[u] \in Searching
    BY <1>2 DEF Find, CountAll, CountHost, Settle, Return, CountIdle, GiveBack, Removal,
                FailClose, Release, Fail, Abandon, StandOK, Searching
  <2> QED BY <1>0, <2>1, <2>2
<1>3. ASSUME NEW t \in Task, Decide(t) PROVE Unqueued'
  <2>1. t \notin ToSet(queue)
    BY <1>3 DEF Decide, Unqueued, Searching
  <2>2. queue' = queue \/ ToSet(queue') = ToSet(queue) \cup {t}
    BY <1>3, <2>1, InsertedFacts DEF Decide, StandOK, QueueOK
  <2>3. target' = target /\ at'[t] \notin Searching /\ \A u \in Task : u # t => at'[u] = at[u]
    BY <1>3 DEF Decide, StandOK, Searching
  <2> QED BY <2>2, <2>3 DEF Unqueued
<1>4. ASSUME NEW t \in Task, Claim(t) PROVE Unqueued'
  <2>1. queue' \in {queue, Shift} /\ \A x \in ToSet(Shift) : x \in ToSet(queue)
    BY <1>4, ShiftFacts DEF Claim, QueueOK
  <2>2. /\ at'[t] \notin Searching
        /\ \A u \in Task : u # t => at'[u] = at[u] /\ target'[u] = target[u]
    BY <1>4 DEF Claim, StandOK, Searching
  <2> QED BY <1>0, <2>1, <2>2
<1>5. ASSUME NEW t \in Task, Serve(t) \/ Hand(t) PROVE Unqueued'
  <2>1. queue' \in {queue, Shift} /\ \A x \in ToSet(Shift) : x \in ToSet(queue)
    BY <1>5, ShiftFacts DEF Serve, Hand, QueueOK
  <2>2. queue' \in Seq(Task)
    BY <2>1, ShiftFacts DEF QueueOK
  <2>3. queue' # <<>> => Head(queue') # NoTask
    BY <2>2, HeadQueued, AsyncAssumption
  <2>4. /\ at'[t] \in Searching => target'[t] # NoTask
        /\ \A u \in Task : u # t => /\ at'[u] \in Searching => at[u] \in Searching
                                    /\ target'[u] = target[u]
    BY <1>5, <2>3 DEF Serve, Hand, Resolve, StandOK, Searching
  <2> QED BY <1>0, <2>1, <2>4
<1>6. ASSUME NEW t \in Task, Process(t) PROVE Unqueued'
  <2>1. queue' = queue /\ (queue # <<>> => Head(queue) # NoTask)
    BY <1>6, HeadQueued, AsyncAssumption DEF Process, QueueOK
  <2>2. /\ at'[t] \in Searching => target'[t] # NoTask
        /\ \A u \in Task : u # t => at'[u] = at[u] /\ target'[u] = target[u]
    BY <1>6, <2>1 DEF Process, Look, StandOK, Searching
  <2> QED BY <1>0, <2>1, <2>2
<1>7. ASSUME NEW t \in Task, NEW h \in Host, NEW n \in Priority, Acquire(t, h, n)
      PROVE  Unqueued'
  BY <1>7 DEF Acquire, Unqueued, StandOK
<1>8. ASSUME NEW t \in Task, Timeout(t) \/ Abort(t) PROVE Unqueued'
  <2>1. \A x \in ToSet(queue') : x \in ToSet(queue)
    BY <1>8, LeaveFacts DEF Timeout, Abort, QueueOK
  <2>2. target' = target /\ \A u \in Task : at'[u] \in Searching => at[u] \in Searching
    BY <1>8 DEF Timeout, Abort, Leave, StandOK, Searching, taskVars
  <2> QED BY <1>0, <2>1, <2>2
<1>9. ASSUME NEW d \in Daemons, Work(d) \/ WorkRemove(d) \/ WorkNext(d) PROVE Unqueued'
  <2>1. UNCHANGED <<queue, target>> /\ \A u \in Task : at'[u] = at[u]
    BY <1>9 DEF Work, WorkRemove, WorkNext, taskVars, StandOK
  <2> QED BY <1>0, <2>1
<1>10. CASE Drained
  <2>1. queue' = <<>> /\ target' = target
        /\ \A u \in Task : at'[u] \in Searching => at[u] \in Searching
    BY <1>10 DEF Drained, taskVars, StandOK, Searching
  <2> QED BY <2>1 DEF Unqueued, ToSet
<1>11. CASE List \/ Clear \/ Expire \/ Swept \/ Close \/ Sweep
  <2>1. UNCHANGED <<queue, target>> /\ \A u \in Task : at'[u] = at[u]
    BY <1>11 DEF List, Clear, Expire, Swept, Close, Sweep, taskVars, StandOK
  <2> QED BY <1>0, <2>1
<1> QED
  BY <1>1, <1>2, <1>3, <1>4, <1>5, <1>6, <1>7, <1>8, <1>9, <1>10, <1>11 DEF Next, Microtask

\* What is due, and that a run of processPendingQueue() is.
DueOK == ready \in Seq(Runner) /\ RunsAreDue

LEMMA DueKeeps ==
  ASSUME DueOK, QueueOK, QueueOK', StandOK, [Next]_vars
  PROVE  DueOK'
<1> USE DaemonIsNoTask DEF DueOK
<1>0. ASSUME NEW p \in Runner, Starts(p) \/ (Runs(p) /\ Awaits(p)), UNCHANGED target,
             \A u \in Task : /\ target[u] # NoTask => at'[u] \in Searching \cup Having
                             /\ at'[u] \in Having => target[u] # NoTask
      PROVE  DueOK'
  <2>1. /\ ready' \in Seq(Runner) /\ p \in ToSet(ready')
        /\ \A x \in ToSet(ready) : x \in ToSet(ready')
    BY <1>0, DueStays
  <2> QED BY <1>0, <2>1 DEF RunsAreDue
<1>1. ASSUME NEW p \in Runner, Runs(p), Ends,
             p \in Task => target'[p] = NoTask /\ at'[p] \notin Having,
             \A u \in Task : u # p => target'[u] = target[u] /\ at'[u] = at[u]
      PROVE  DueOK'
  <2>1. /\ ready' \in Seq(Runner)
        /\ \A x \in ToSet(ready) : x # p => x \in ToSet(ready')
    BY <1>1, DueStays
  <2> QED BY <1>1, <2>1 DEF RunsAreDue
<1>2. CASE UNCHANGED vars
  BY <1>2 DEF vars, taskVars, RunsAreDue
<1>3. ASSUME NEW t \in Task,
             \/ Find(t) \/ CountAll(t) \/ CountHost(t) \/ Return(t) \/ CountIdle(t)
             \/ GiveBack(t) \/ FailClose(t) \/ Release(t) \/ Fail(t)
             \/ \E h \in Host, n \in Priority : Acquire(t, h, n)
      PROVE  DueOK'
  <2>1. /\ target' = target
        /\ Starts(t) \/ (Runs(t) /\ Awaits(t))
    BY <1>3 DEF Find, CountAll, CountHost, Return, CountIdle, GiveBack,
                FailClose, Release, Fail, Acquire, taskVars
  <2>2. \A u \in Task : u # t => at'[u] = at[u]
    BY <1>3 DEF Find, CountAll, CountHost, Return, CountIdle, GiveBack,
                FailClose, Release, Fail, Acquire, StandOK
  <2>3. /\ target[t] # NoTask => at'[t] \in Searching \cup Having
        /\ at'[t] \in Having => target[t] # NoTask
    BY <1>3 DEF Find, CountAll, CountHost, Return, CountIdle, GiveBack,
                FailClose, Release, Fail, Acquire, StandOK, Searching, Having, RunsAreDue
  <2> QED BY <1>0, <2>1, <2>2, <2>3 DEF RunsAreDue
<1>4. ASSUME NEW t \in Task, Decide(t) PROVE DueOK'
  <2>1. /\ target' = target /\ target[t] = NoTask
        /\ Runs(t) /\ (Awaits(t) \/ Ends)
        /\ at'[t] \notin Having /\ \A u \in Task : u # t => at'[u] = at[u]
    BY <1>4 DEF Decide, StandOK, Having
  <2> QED BY <1>0, <1>1, <2>1 DEF RunsAreDue
<1>5. ASSUME NEW t \in Task, Settle(t) PROVE DueOK'
  <2>1. /\ target' = target /\ Runs(t) /\ (Awaits(t) \/ Ends)
        /\ at'[t] \notin Having /\ \A u \in Task : u # t => at'[u] = at[u]
    BY <1>5 DEF Settle, StandOK, Having, taskVars
  <2>2. target[t] = NoTask
    BY <1>5 DEF Settle, RunsAreDue, Searching, Having
  <2> QED BY <1>0, <1>1, <2>1, <2>2 DEF RunsAreDue
<1>6. ASSUME NEW t \in Task, Claim(t) PROVE DueOK'
  <2>1. Runs(t) /\ target[t] # NoTask /\ \A u \in Task : u # t => at'[u] = at[u]
    BY <1>6 DEF Claim, StandOK
  <2>2. CASE room[t]
    <3>1. target' = target /\ Awaits(t) /\ at'[t] \in Having
      BY <1>6, <2>2 DEF Claim, StandOK, Having
    <3> QED BY <1>0, <2>1, <3>1 DEF RunsAreDue
  <2>3. CASE ~ room[t]
    <3>1. /\ Ends /\ target'[t] = NoTask /\ at'[t] \notin Having
          /\ \A u \in Task : u # t => target'[u] = target[u]
      BY <1>6, <2>3 DEF Claim, StandOK, Having
    <3> QED BY <1>1, <2>1, <3>1
  <2> QED BY <2>2, <2>3
<1>7. ASSUME NEW t \in Task, Serve(t) \/ Hand(t) PROVE DueOK'
  <2>1. Runs(t) /\ Resolve(t) /\ at[t] \in Having
    BY <1>7 DEF Serve, Hand, Having
  <2>2. target[t] \in Task /\ target[t] # NoTask
    BY <2>1 DEF RunsAreDue, StandOK
  <2>3. /\ ready' \in Seq(Runner)
        /\ \A x \in ToSet(ready) : x # t => x \in ToSet(ready')
        /\ queue' # <<>> => t \in ToSet(ready')
    BY <2>1, <2>2, ResolveDue
  <2>4. at[target[t]] = "waiting" => target[target[t]] = NoTask /\ target[t] # t
    BY <2>1, <2>2 DEF RunsAreDue, Searching, Having
  <2>5. /\ target'[t] = IF queue' = <<>> THEN NoTask ELSE Head(queue')
        /\ at'[t] = IF queue' = <<>> THEN "off" ELSE "find"
        /\ \A u \in Task : u # t => target'[u] = target[u]
        /\ \A u \in Task : u # t =>
             at'[u] = IF at[target[t]] = "waiting" /\ u = target[t] THEN "got2" ELSE at[u]
    BY <2>1, <2>2, <2>4 DEF Resolve, StandOK
  <2>6. /\ target'[t] # NoTask => at'[t] \in Searching \cup Having /\ t \in ToSet(ready')
        /\ at'[t] \notin Having
    BY <2>3, <2>5 DEF Searching, Having
  <2>7. ASSUME NEW u \in Task, u # t
        PROVE  /\ target'[u] # NoTask => at'[u] \in Searching \cup Having /\ u \in ToSet(ready')
               /\ at'[u] \in Having => target'[u] # NoTask
    BY <2>3, <2>4, <2>5, <2>7 DEF RunsAreDue, Having
  <2> QED BY <2>3, <2>6, <2>7 DEF RunsAreDue
<1>8. ASSUME NEW t \in Task, Process(t) PROVE DueOK'
  <2>1. /\ Runs(t) /\ target[t] = NoTask
        /\ \A u \in Task : u # t => at'[u] = at[u] /\ target'[u] = target[u]
    BY <1>8 DEF Process, Look, StandOK, RunsAreDue, Searching, Having
  <2>2. CASE queue' = <<>>
    <3>1. Ends /\ target'[t] = NoTask /\ at'[t] \notin Having
      BY <1>8, <2>2 DEF Process, Look, StandOK, Having
    <3> QED BY <1>1, <2>1, <3>1
  <2>3. CASE queue' # <<>>
    <3>1. Awaits(t) /\ at'[t] = "find"
      BY <1>8, <2>3 DEF Process, Look, StandOK
    <3>2. ready' \in Seq(Runner) /\ t \in ToSet(ready') /\ \A x \in ToSet(ready) : x \in ToSet(ready')
      BY <2>1, <3>1, DueStays
    <3> QED BY <2>1, <3>1, <3>2 DEF RunsAreDue, Searching, Having
  <2> QED BY <2>2, <2>3
<1>9. ASSUME NEW t \in Task, Removal(t) PROVE DueOK'
  <2>1. /\ target' = target /\ Runs(t) /\ Ends
        /\ at'[t] \notin Having /\ \A u \in Task : u # t => at'[u] = at[u]
    BY <1>9 DEF Removal, StandOK, Having
  <2>2. target[t] = NoTask
    BY <1>9 DEF Removal, RunsAreDue, Searching, Having
  <2> QED BY <1>1, <2>1, <2>2
<1>10. ASSUME NEW t \in Task, Abandon(t) \/ Timeout(t) \/ Abort(t) PROVE DueOK'
  <2>1. /\ UNCHANGED <<ready, target>>
        /\ at'[t] \notin Having \/ at'[t] = at[t]
        /\ at'[t] # at[t] => at[t] \in {"using", "waiting"}
        /\ \A u \in Task : u # t => at'[u] = at[u]
    BY <1>10 DEF Abandon, Timeout, Abort, Leave, StandOK, taskVars, Having
  <2>2. at'[t] # at[t] => target[t] = NoTask
    BY <2>1 DEF RunsAreDue, Searching, Having
  <2> QED BY <2>1, <2>2 DEF RunsAreDue
<1>11. ASSUME NEW d \in Daemons, Work(d) \/ WorkRemove(d) \/ WorkNext(d) PROVE DueOK'
  <2>1. target' = target /\ Runs(d) /\ Awaits(d) /\ \A u \in Task : at'[u] = at[u]
    BY <1>11 DEF Work, WorkRemove, WorkNext, taskVars, StandOK
  <2> QED BY <1>0, <2>1 DEF RunsAreDue
<1>12. CASE Drained
  <2>1. /\ target' = target /\ Runs("closer") /\ Awaits("closer")
        /\ \A u \in Task : at'[u] = at[u] \/ (at[u] = "waiting" /\ at'[u] = "off")
    BY <1>12 DEF Drained, taskVars, StandOK
  <2> QED BY <1>0, <2>1 DEF RunsAreDue, Searching, Having
<1>13. CASE List \/ Expire
  <2>1. \E d \in Daemons : /\ target' = target /\ Runs(d) /\ Awaits(d)
                           /\ \A u \in Task : at'[u] = at[u]
    BY <1>13 DEF List, Expire, taskVars, StandOK
  <2> QED BY <1>0, <2>1 DEF RunsAreDue
<1>14. CASE Clear \/ Swept
  <2>1. \E d \in Daemons : /\ target' = target /\ Runs(d) /\ Ends
                           /\ \A u \in Task : at'[u] = at[u]
    BY <1>14 DEF Clear, Swept, taskVars, StandOK
  <2> QED BY <1>1, <2>1
<1>15. CASE Close \/ Sweep
  <2>1. \E d \in Daemons : /\ target' = target /\ Starts(d)
                           /\ \A u \in Task : at'[u] = at[u]
    BY <1>15 DEF Close, Sweep, taskVars, StandOK
  <2> QED BY <1>0, <2>1 DEF RunsAreDue
<1> QED
  BY <1>2, <1>3, <1>4, <1>5, <1>6, <1>7, <1>8, <1>9, <1>10, <1>11, <1>12, <1>13, <1>14,
     <1>15 DEF Next, Microtask

-----------------------------------------------------------------------------
(* Who has a connection, and the connections that are being closed.        *)

\* No connection of S is active in the store that was not before.
NoneActivated(S) ==
  \A c \in S : c \in ToSet(conns') /\ state'[c] = "active"
               => c \in ToSet(conns) /\ state[c] = "active"

LEMMA NoneActivatedUnless ==
  ASSUME StoreInv, NEW c, NEW s \in States \ {"active"}, Update(c, s), conns' = conns
  PROVE  NoneActivated(Conn)
BY StoreFacts, UpdateIs DEF NoneActivated

LEMMA NoneActivatedStill == conns' = conns /\ state' = state => NoneActivated(Conn)
BY DEF NoneActivated

LEMMA MatchesKeeps ==
  ASSUME StoreInv, ListsOK, HandleMatches, StandOK, RunsAreDue, [Next]_vars
  PROVE  HandleMatches'
<1> USE DaemonIsNoTask, AsyncAssumption
<1>t. handle \in [Task -> Conn \cup {NoConn}] /\ conns \in Seq(Conn)
      /\ state \in [Conn -> States]
  BY StoreFacts
<1>n. \A u \in Task : at[u] = "closing" => handle[u] \in Conn
  BY <1>t DEF HandleMatches, Using
\* How one who is closing a connection fares.
<1>c. ASSUME NEW u \in Task, handle'[u] = handle[u], at'[u] = "closing" => at[u] = "closing",
             NoneActivated(Conn)
      PROVE  at'[u] = "closing" /\ handle'[u] \in ToSet(conns') => state'[handle'[u]] # "active"
  BY <1>c, <1>n DEF HandleMatches, NoneActivated
<1>0. ASSUME UNCHANGED handle,
             \A u \in Task : /\ at'[u] \in Having \cup Using <=> at[u] \in Having \cup Using
                             /\ at'[u] = "closing" => at[u] = "closing",
             NoneActivated(Conn)
      PROVE  HandleMatches'
  <2> SUFFICES ASSUME NEW u \in Task
               PROVE  /\ handle'[u] # NoConn <=> at'[u] \in Having \cup Using
                      /\ at'[u] = "closing" /\ handle'[u] \in ToSet(conns')
                           => state'[handle'[u]] # "active"
    BY DEF HandleMatches
  <2>1. handle'[u] # NoConn <=> at'[u] \in Having \cup Using
    BY <1>0 DEF HandleMatches
  <2> QED BY <1>0, <1>c, <2>1
\* Another connection is marked, and its holder is not closing it.
<1>1. ASSUME NEW t \in Task, NEW c \in Conn, handle'[t] = c, at'[t] \in (Having \cup Using) \ {"closing"},
             (\A u \in Task : handle[u] # c) \/ c \notin ToSet(conns'),
             \A u \in Task : u # t => handle'[u] = handle[u] /\ at'[u] = at[u],
             NoneActivated(Conn \ {c})
      PROVE  HandleMatches'
  <2>1. ASSUME NEW u \in Task, u # t
        PROVE  /\ handle'[u] # NoConn <=> at'[u] \in Having \cup Using
               /\ at'[u] = "closing" /\ handle'[u] \in ToSet(conns')
                    => state'[handle'[u]] # "active"
    <3>1. ASSUME at'[u] = "closing", handle'[u] \in ToSet(conns')
          PROVE  state'[handle'[u]] # "active"
      <4>1. handle'[u] = handle[u] /\ at[u] = "closing" /\ handle[u] \in Conn
        BY <1>1, <1>n, <2>1, <3>1
      <4>2. handle[u] # c
        BY <1>1, <3>1, <4>1
      <4> QED BY <1>1, <3>1, <4>1, <4>2 DEF HandleMatches, NoneActivated
    <3>2. handle'[u] # NoConn <=> at'[u] \in Having \cup Using
      BY <1>1, <2>1 DEF HandleMatches
    <3> QED BY <3>1, <3>2
  <2>2. handle'[t] # NoConn /\ at'[t] # "closing"
    BY <1>1
  <2> QED BY <1>1, <2>1, <2>2 DEF HandleMatches
\* The connection of t is let go.
<1>2. ASSUME NEW t \in Task, handle' = [handle EXCEPT ![t] = NoConn], at'[t] \notin Having \cup Using,
             \A u \in Task : u # t => at'[u] = at[u],
             NoneActivated(Conn)
      PROVE  HandleMatches'
  <2>1. ASSUME NEW u \in Task, u # t
        PROVE  /\ handle'[u] # NoConn <=> at'[u] \in Having \cup Using
               /\ at'[u] = "closing" /\ handle'[u] \in ToSet(conns')
                    => state'[handle'[u]] # "active"
    <3>1. handle'[u] = handle[u] /\ at'[u] = at[u]
      BY <1>2, <1>t, <2>1
    <3>2. handle'[u] # NoConn <=> at'[u] \in Having \cup Using
      BY <3>1 DEF HandleMatches
    <3> QED BY <1>2, <1>c, <3>1, <3>2
  <2>2. handle'[t] = NoConn /\ at'[t] \notin Having \cup Using /\ at'[t] # "closing"
    BY <1>2, <1>t DEF Using
  <2> QED BY <1>2, <2>1, <2>2 DEF HandleMatches
\* The connection of t is marked as closed, to be removed.
<1>3. ASSUME NEW t \in Task, at[t] \in Using, at'[t] = "closing", UNCHANGED <<conns, handle>>,
             \A u \in Task : u # t => at'[u] = at[u],
             Update(handle[t], "closed")
      PROVE  HandleMatches'
  <2>1. handle[t] \in Conn
    BY <1>3, <1>t DEF HandleMatches
  <2>2. NoneActivated(Conn)
    BY <1>3, NoneActivatedUnless DEF States
  <2>3. ASSUME NEW u \in Task, u # t
        PROVE  /\ handle'[u] # NoConn <=> at'[u] \in Having \cup Using
               /\ at'[u] = "closing" /\ handle'[u] \in ToSet(conns')
                    => state'[handle'[u]] # "active"
    <3>1. handle'[u] = handle[u] /\ at'[u] = at[u]
      BY <1>3, <2>3
    <3>2. handle'[u] # NoConn <=> at'[u] \in Having \cup Using
      BY <3>1 DEF HandleMatches
    <3> QED BY <1>c, <2>2, <3>1, <3>2
  <2>4. /\ handle'[t] # NoConn /\ at'[t] \in Using
        /\ handle'[t] \in ToSet(conns') => state'[handle'[t]] = "closed"
    <3>1. \A d \in Conn : state'[d] = IF d = handle[t] /\ d \in ToSet(conns) THEN "closed" ELSE state[d]
      BY <1>3, <1>t, UpdateIs DEF States
    <3> QED BY <1>3, <2>1, <3>1 DEF Using
  <2> QED BY <2>3, <2>4 DEF HandleMatches
<1>4. CASE UNCHANGED vars
  BY <1>0, <1>4, NoneActivatedStill DEF vars, connVars, taskVars
<1>5. ASSUME NEW t \in Task, Find(t) PROVE HandleMatches'
  <2>0. \A u \in Task : u # t => at'[u] = at[u]
    BY <1>5 DEF Find, StandOK
  <2>1. CASE /\ at' = [at EXCEPT ![t] = "missed"] /\ UNCHANGED <<state, handle>>
    <3>1. NoneActivated(Conn) /\ at[t] = "find"
      BY <1>5, <2>1, NoneActivatedStill DEF Find
    <3> QED BY <1>0, <2>1, <3>1 DEF StandOK, Having, Using
  <2>2. ASSUME NEW i \in Usable(t),
               Update(todo[t][i], "active"),
               handle' = [handle EXCEPT ![t] = todo[t][i]],
               at'     = [at EXCEPT ![t] = IF target[t] = NoTask THEN "got3" ELSE "found"]
        PROVE  HandleMatches'
    <3>1. PICK c : c = todo[t][i]
      OBVIOUS
    <3>2. c \in Conn /\ state[c] = "idle"
      <4>1. todo[t] \in Seq(Conn) /\ i \in DOMAIN todo[t] /\ state[todo[t][i]] = "idle"
        BY <2>2 DEF Usable, ListsOK
      <4> QED BY <3>1, <4>1
    <3>3. at'[t] \in (Having \cup Using) \ {"closing"}
      BY <2>2 DEF StandOK, Having, Using
    <3>4. handle'[t] = c /\ \A u \in Task : u # t => handle'[u] = handle[u]
      BY <1>t, <2>2, <3>1
    <3>5. conns' = conns /\ Update(c, "active")
      BY <1>5, <2>2, <3>1 DEF Find
    <3>6. NoneActivated(Conn \ {c})
      <4>1. \A d \in Conn : d # c => state'[d] = state[d]
        BY <1>t, <3>5, UpdateIs DEF States
      <4> QED BY <3>5, <4>1 DEF NoneActivated
    <3>7. (\A u \in Task : handle[u] # c) \/ c \notin ToSet(conns')
      BY <3>2, <3>5, StoreFacts
    <3> QED BY <1>1, <2>0, <3>2, <3>3, <3>4, <3>6, <3>7
  <2> QED BY <1>5, <2>1, <2>2 DEF Find
<1>6. ASSUME NEW t \in Task, Create(t), at'[t] \in {"got3", "born"},
             \A u \in Task : u # t => at'[u] = at[u]
      PROVE  HandleMatches'
  <2>1. PICK c \in Conn : /\ \A u \in Task : handle[u] # c
                          /\ conns' = Append(conns, c)
                          /\ state' = [state EXCEPT ![c] = "active"]
                          /\ handle' = [handle EXCEPT ![t] = c]
    BY <1>6 DEF Create, Fresh
  <2>2. handle'[t] = c /\ \A u \in Task : u # t => handle'[u] = handle[u]
    BY <1>t, <2>1
  <2>4. NoneActivated(Conn \ {c})
    <3>1. \A d \in ToSet(conns') : d = c \/ d \in ToSet(conns)
      BY <1>t, <2>1, AppendMembers
    <3>2. \A d \in Conn : d # c => state'[d] = state[d]
      BY <1>t, <2>1
    <3> QED BY <3>1, <3>2 DEF NoneActivated
  <2>3. at'[t] \in (Having \cup Using) \ {"closing"}
    BY <1>6 DEF Having, Using
  <2> QED BY <1>1, <1>6, <2>1, <2>2, <2>3, <2>4
<1>7. ASSUME NEW t \in Task,
             CountAll(t) \/ CountHost(t) \/ Settle(t) \/ Return(t) \/ CountIdle(t) \/ Fail(t)
      PROVE  HandleMatches'
  <2>1. UNCHANGED <<conns, state, handle>>
    BY <1>7 DEF CountAll, CountHost, Settle, Return, CountIdle, Fail, connVars, taskVars
  <2>2. /\ at'[t] \in Having \cup Using <=> at[t] \in Having \cup Using
        /\ at'[t] # "closing" /\ \A u \in Task : u # t => at'[u] = at[u]
    BY <1>7 DEF CountAll, CountHost, Settle, Return, CountIdle, Fail, StandOK, Having, Using
  <2> QED BY <1>0, <2>1, <2>2, NoneActivatedStill
<1>8. ASSUME NEW t \in Task, Decide(t) \/ Claim(t) PROVE HandleMatches'
  <2>1. \A u \in Task : u # t => at'[u] = at[u]
    BY <1>8 DEF Decide, Claim, StandOK
  <2>2. CASE Create(t) /\ at'[t] \in {"got3", "born"}
    BY <1>6, <2>1, <2>2
  <2>3. CASE UNCHANGED <<connVars, handle>> /\ at'[t] \in {"waiting", "off"}
    <3>1. at[t] \notin Having \cup Using /\ at'[t] \notin Having \cup Using /\ at'[t] # "closing"
      BY <1>8, <2>3 DEF Decide, Claim, Having, Using
    <3> QED BY <1>0, <2>1, <2>3, <3>1, NoneActivatedStill DEF connVars
  <2> QED BY <1>8, <2>2, <2>3 DEF Decide, Claim, StandOK
<1>9. ASSUME NEW t \in Task, Serve(t) \/ Hand(t) PROVE HandleMatches'
  <2>1. Resolve(t) /\ at[t] \in Having /\ state' = state /\ conns' = conns
    BY <1>9 DEF Serve, Hand, Having, connVars
  <2>2. target[t] \in Task /\ handle[t] # NoConn
    BY <2>1 DEF RunsAreDue, StandOK, HandleMatches
  <2>n. NoneActivated(Conn)
    BY <2>1, NoneActivatedStill
  <2>3. at'[t] \in {"off", "find"} \/ (at[target[t]] = "waiting" /\ target[t] = t)
    BY <2>1, <2>2 DEF Resolve, StandOK
  <2>4. at[t] # "waiting"
    BY <2>1 DEF Having
  <2>5. CASE at[target[t]] = "waiting"
    <3>1. /\ target[t] # t /\ at'[target[t]] = "got2" /\ handle'[target[t]] = handle[t]
          /\ handle'[t] = NoConn
          /\ \A u \in Task : u # t /\ u # target[t] => at'[u] = at[u] /\ handle'[u] = handle[u]
      BY <1>t, <2>1, <2>2, <2>4, <2>5 DEF Resolve, StandOK
    <3>2. ASSUME NEW u \in Task
          PROVE  /\ handle'[u] # NoConn <=> at'[u] \in Having \cup Using
                 /\ at'[u] = "closing" /\ handle'[u] \in ToSet(conns')
                      => state'[handle'[u]] # "active"
      <4>1. CASE u # t /\ u # target[t]
        <5>1. handle'[u] = handle[u] /\ at'[u] = at[u]
          BY <3>1, <4>1
        <5>2. handle'[u] # NoConn <=> at'[u] \in Having \cup Using
          BY <5>1 DEF HandleMatches
        <5> QED BY <1>c, <2>n, <5>1, <5>2
      <4>2. CASE u = t \/ u = target[t]
        BY <2>2, <2>3, <3>1, <4>2 DEF Having, Using
      <4> QED BY <4>1, <4>2
    <3> QED BY <3>2 DEF HandleMatches
  <2>6. CASE at[target[t]] # "waiting"
    <3>1. handle' = [handle EXCEPT ![t] = NoConn] /\ \A u \in Task : u # t => at'[u] = at[u]
      BY <2>1, <2>6 DEF Resolve, StandOK
    <3>2. at'[t] \notin Having \cup Using
      BY <2>3, <2>6 DEF Having, Using
    <3> QED BY <1>2, <2>n, <3>1, <3>2
  <2> QED BY <2>5, <2>6
<1>10. ASSUME NEW t \in Task, GiveBack(t) PROVE HandleMatches'
  <2>1. \A u \in Task : u # t => at'[u] = at[u]
    BY <1>10 DEF GiveBack, StandOK
  <2>2. CASE room[t]
    <3>1. /\ handle' = [handle EXCEPT ![t] = NoConn] /\ at'[t] \notin Having \cup Using
          /\ conns' = conns /\ Update(handle[t], "idle")
      BY <1>10, <2>2 DEF GiveBack, StandOK, Having, Using
    <3>2. NoneActivated(Conn)
      BY <3>1, NoneActivatedUnless DEF States
    <3> QED BY <1>2, <2>1, <3>1, <3>2
  <2>3. CASE ~ room[t]
    BY <1>3, <1>10, <2>1, <2>3 DEF GiveBack, StandOK, Using
  <2> QED BY <2>2, <2>3
<1>11. ASSUME NEW t \in Task, Process(t) PROVE HandleMatches'
  <2>1. /\ UNCHANGED <<conns, state, handle>> /\ \A u \in Task : u # t => at'[u] = at[u]
        /\ at[t] = "given" /\ at'[t] \in {"off", "find"}
    BY <1>11 DEF Process, Look, StandOK, connVars
  <2>2. at[t] \notin Having \cup Using /\ at'[t] \notin Having \cup Using /\ at'[t] # "closing"
    BY <2>1 DEF Having, Using
  <2> QED BY <1>0, <2>1, <2>2, NoneActivatedStill
<1>12. ASSUME NEW t \in Task, Removal(t) \/ Abandon(t) PROVE HandleMatches'
  <2>1. /\ handle' = [handle EXCEPT ![t] = NoConn] /\ at'[t] = "off" /\ state' = state
        /\ \A u \in Task : u # t => at'[u] = at[u]
    BY <1>12 DEF Removal, Abandon, StandOK, connVars
  <2>3. NoneActivated(Conn)
    <3>1. \A d \in ToSet(conns') : d \in ToSet(conns)
      BY <1>12, <1>t, GoneIsList DEF Removal, Abandon, connVars
    <3> QED BY <2>1, <3>1 DEF NoneActivated
  <2>2. at'[t] \notin Having \cup Using
    BY <2>1 DEF Having, Using
  <2> QED BY <1>2, <2>1, <2>2, <2>3
<1>13. ASSUME NEW t \in Task, FailClose(t) PROVE HandleMatches'
  BY <1>3, <1>13 DEF FailClose, StandOK, Using, taskVars
<1>14. ASSUME NEW t \in Task, Release(t) PROVE HandleMatches'
  <2>1. \A u \in Task : u # t => at'[u] = at[u]
    BY <1>14 DEF Release, StandOK
  <2>2. CASE Update(handle[t], "closed") /\ at' = [at EXCEPT ![t] = "closing"]
    BY <1>3, <1>14, <2>1, <2>2 DEF Release, StandOK, Using, taskVars
  <2>3. CASE state' = state /\ at' = [at EXCEPT ![t] = "counting"]
    <3>1. /\ at[t] \in Having \cup Using /\ at'[t] \in Having \cup Using /\ at'[t] # "closing"
          /\ handle' = handle /\ conns' = conns
      BY <1>14, <2>3 DEF Release, StandOK, Having, Using, taskVars
    <3> QED BY <1>0, <2>1, <2>3, <3>1, NoneActivatedStill
  <2> QED BY <1>14, <2>2, <2>3 DEF Release
<1>15. ASSUME NEW t \in Task, NEW h \in Host, NEW n \in Priority, Acquire(t, h, n)
       PROVE  HandleMatches'
  <2>1. /\ UNCHANGED <<conns, state, handle>> /\ \A u \in Task : u # t => at'[u] = at[u]
        /\ at[t] = "off" /\ at'[t] = "find"
    BY <1>15 DEF Acquire, StandOK, connVars
  <2>2. at[t] \notin Having \cup Using /\ at'[t] \notin Having \cup Using /\ at'[t] # "closing"
    BY <2>1 DEF Having, Using
  <2> QED BY <1>0, <2>1, <2>2, NoneActivatedStill
<1>16. ASSUME UNCHANGED <<state, handle>>, \A d \in ToSet(conns') : d \in ToSet(conns),
              \A u \in Task : at'[u] = at[u] \/ (at[u] = "waiting" /\ at'[u] = "off")
       PROVE  HandleMatches'
  <2>1. NoneActivated(Conn)
    BY <1>16 DEF NoneActivated
  <2> QED BY <1>0, <1>16, <2>1 DEF Having, Using
<1>17. ASSUME NEW t \in Task, Timeout(t) \/ Abort(t) PROVE HandleMatches'
  <2>1. UNCHANGED <<conns, state, handle>>
    BY <1>17 DEF Timeout, Abort, Leave, connVars, taskVars
  <2>2. \A u \in Task : at'[u] = at[u] \/ (at[u] = "waiting" /\ at'[u] = "off")
    BY <1>17 DEF Timeout, Abort, Leave, StandOK
  <2> QED BY <1>16, <2>1, <2>2
<1>18. ASSUME NEW d \in Daemons, Work(d) PROVE HandleMatches'
  <2>1. handle' = handle /\ \A u \in Task : at'[u] = at[u]
    BY <1>18 DEF Work, taskVars, StandOK
  <2>2. conns' = conns /\ \E c : Update(c, "draining") \/ Update(c, "closed")
    BY <1>18 DEF Work
  <2>3. NoneActivated(Conn)
    BY <2>2, NoneActivatedUnless DEF States
  <2> QED BY <1>0, <2>1, <2>3
<1>19. ASSUME \/ \E d \in Daemons : WorkRemove(d) \/ WorkNext(d)
              \/ Drained \/ List \/ Clear \/ Expire \/ Swept \/ Close \/ Sweep
       PROVE  HandleMatches'
  <2>1. UNCHANGED <<state, handle>>
    BY <1>19 DEF WorkRemove, WorkNext, Drained, List, Clear, Expire, Swept, Close, Sweep,
                 connVars, taskVars
  <2>3. \A d \in ToSet(conns') : d \in ToSet(conns)
    <3>1. conns' = conns \/ conns' = <<>> \/ \E e : conns' = Gone(e)
      BY <1>19 DEF WorkRemove, WorkNext, Drained, List, Clear, Expire, Swept, Close, Sweep,
                   connVars
    <3>2. CASE conns' = <<>>
      BY <3>2 DEF ToSet
    <3>3. CASE \E e : conns' = Gone(e)
      BY <1>t, <3>3, GoneIsList
    <3> QED BY <3>1, <3>2, <3>3
  <2>2. \A u \in Task : at'[u] = at[u] \/ (at[u] = "waiting" /\ at'[u] = "off")
    <3>1. CASE \E d \in Daemons : WorkRemove(d) \/ WorkNext(d)
      BY <3>1 DEF WorkRemove, WorkNext, StandOK
    <3>2. CASE Drained \/ List \/ Clear \/ Swept \/ Sweep
      BY <3>2 DEF Drained, List, Clear, Swept, Sweep, StandOK
    <3>3. CASE Expire \/ Close
      BY <3>3 DEF Expire, Close, StandOK
    <3> QED BY <1>19, <3>1, <3>2, <3>3
  <2> QED BY <1>16, <2>1, <2>2, <2>3
<1> QED
  BY <1>4, <1>5, <1>7, <1>8, <1>9, <1>10, <1>11, <1>12, <1>13, <1>14, <1>15,
     <1>17, <1>18, <1>19 DEF Next, Microtask

-----------------------------------------------------------------------------
(* How far the pool is booked out.                                         *)

LEMMA BookedKeeps ==
  ASSUME Booked, crowd \in Nat, conns \in Seq(Conn), StandOK, [Next]_vars
  PROVE  Booked' /\ crowd' \in Nat
<1> USE DaemonIsNoTask
<1>f. /\ IsFiniteSet(Counting) /\ IsFiniteSet(Promised)
      /\ Cardinality(Counting) \in Nat /\ Cardinality(Promised) \in Nat
      /\ Cardinality(Promised) <= Cardinality(Counting)
  <2>1. IsFiniteSet(Counting) /\ Promised \subseteq Counting
    BY DEF Booked, Promised
  <2> QED BY <2>1, FS_Subset, FS_CardinalityType
<1>l. Len(conns) \in Nat /\ MaxConnections \in Nat
  BY AsyncAssumption
<1>0. ASSUME Counting' \subseteq Counting, Promised' \subseteq Promised,
             Len(conns') \in Nat, Len(conns') <= Len(conns), crowd' = crowd
      PROVE  Booked' /\ crowd' \in Nat
  <2>1. /\ IsFiniteSet(Counting') /\ Cardinality(Counting') <= Cardinality(Counting)
        /\ Cardinality(Promised') <= Cardinality(Promised)
        /\ Cardinality(Counting') \in Nat /\ Cardinality(Promised') \in Nat
    BY <1>0, <1>f, FS_Subset, FS_CardinalityType
  <2> QED BY <1>0, <1>f, <1>l, <2>1 DEF Booked
<1>1. ASSUME UNCHANGED <<conns, crowd>>,
             \A u \in Task : at'[u] \in {"total", "host"} =>
               at[u] \in {"total", "host"} /\ (room'[u] => room[u])
      PROVE  Booked' /\ crowd' \in Nat
  BY <1>0, <1>1, <1>l DEF Counting, Promised
<1>2. CASE UNCHANGED vars
  BY <1>1, <1>2 DEF vars, connVars, taskVars, history
\* The count that t has read allows one connection more.
<1>3. ASSUME NEW t \in Task, CountAll(t) PROVE Booked' /\ crowd' \in Nat
  <2>1. /\ \A u \in Task : u # t => at'[u] = at[u] /\ room'[u] = room[u]
        /\ at[t] = "missed" /\ at'[t] = "total" /\ room'[t] = (Len(conns) < MaxConnections)
        /\ conns' = conns
        /\ crowd' = IF Cardinality(Counting) >= crowd THEN Cardinality(Counting) + 1 ELSE crowd
    BY <1>3 DEF CountAll, StandOK, connVars
  <2>2. Counting' = Counting \cup {t} /\ t \notin Counting
    BY <2>1 DEF Counting
  <2>3. Promised' = IF Len(conns) < MaxConnections THEN Promised \cup {t} ELSE Promised
    <3>1. \A u \in Task : u \in Promised' <=> u \in Promised \/ (u = t /\ Len(conns) < MaxConnections)
      BY <2>1, <2>2 DEF Promised
    <3>2. \A u : (u \in Promised => u \in Task) /\ (u \in Promised' => u \in Task)
      BY DEF Promised, Counting
    <3>3. \A u : u \in Promised' <=>
            u \in (IF Len(conns) < MaxConnections THEN Promised \cup {t} ELSE Promised)
      BY <3>1, <3>2
    <3> HIDE DEF Promised
    <3> QED BY <3>3
  <2>4. t \notin Promised
    BY <2>2 DEF Promised
  <2>5. IsFiniteSet(Counting') /\ Cardinality(Counting') = Cardinality(Counting) + 1
    BY <1>f, <2>2, FS_AddElement
  <2>6. Cardinality(Promised') = IF Len(conns) < MaxConnections THEN Cardinality(Promised) + 1
                                 ELSE Cardinality(Promised)
    BY <1>f, <2>3, <2>4, FS_AddElement
  <2> QED BY <1>f, <1>l, <2>1, <2>5, <2>6 DEF Booked
\* The connection that t adds was counted since t found room for it.
<1>4. ASSUME NEW t \in Task, at[t] = "host", room[t], at'[t] \notin {"total", "host"},
             \A u \in Task : u # t => at'[u] = at[u] /\ room'[u] = room[u],
             Create(t), crowd' = crowd
      PROVE  Booked' /\ crowd' \in Nat
  <2>1. Len(conns') = Len(conns) + 1
    BY <1>4 DEF Create
  <2>2. Counting' \subseteq Counting
    BY <1>4 DEF Counting
  <2>3. Promised' = Promised \ {t} /\ t \in Promised
    BY <1>4 DEF Promised, Counting
  <2>4. /\ IsFiniteSet(Counting') /\ Cardinality(Counting') <= Cardinality(Counting)
        /\ Cardinality(Counting') \in Nat
    BY <1>f, <2>2, FS_Subset, FS_CardinalityType
  <2>5. Cardinality(Promised') = Cardinality(Promised) - 1
    BY <1>f, <2>3, FS_RemoveElement
  <2> QED BY <1>4, <1>f, <1>l, <2>1, <2>4, <2>5 DEF Booked
<1>5. ASSUME NEW t \in Task, Decide(t) \/ Claim(t) PROVE Booked' /\ crowd' \in Nat
  <2>1. /\ at[t] = "host" /\ at'[t] \notin {"total", "host"} /\ crowd' = crowd
        /\ \A u \in Task : u # t => at'[u] = at[u] /\ room'[u] = room[u]
    BY <1>5 DEF Decide, Claim, StandOK
  <2>2. (room[t] /\ Create(t)) \/ conns' = conns
    BY <1>5 DEF Decide, Claim, connVars
  <2> QED BY <1>1, <1>4, <2>1, <2>2
<1>6. ASSUME NEW t \in Task,
             \/ Find(t) \/ CountHost(t) \/ Settle(t) \/ Return(t) \/ Serve(t) \/ Hand(t)
             \/ CountIdle(t) \/ GiveBack(t) \/ Process(t) \/ FailClose(t) \/ Release(t)
             \/ Fail(t) \/ Abandon(t) \/ Timeout(t) \/ Abort(t)
             \/ \E h \in Host, n \in Priority : Acquire(t, h, n)
      PROVE  Booked' /\ crowd' \in Nat
  <2>1. UNCHANGED <<conns, crowd>>
    BY <1>6 DEF Find, CountHost, Settle, Return, Serve, Hand, CountIdle, GiveBack, Process,
                FailClose, Release, Fail, Abandon, Timeout, Abort, Leave, Acquire,
                connVars, taskVars, history
  <2>2. CASE CountHost(t)
    <3>1. \A u \in Task : at'[u] \in {"total", "host"} =>
               at[u] \in {"total", "host"} /\ (room'[u] => room[u])
      BY <2>2 DEF CountHost, StandOK
    <3> QED BY <1>1, <2>1, <3>1
  <2>3. CASE ~ CountHost(t)
    <3>1. CASE Timeout(t) \/ Abort(t)
      <4>1. room' = room /\ \A u \in Task : at'[u] \in {"total", "host"} => at'[u] = at[u]
        BY <3>1 DEF Timeout, Abort, Leave, StandOK, taskVars
      <4> QED BY <1>1, <2>1, <4>1
    <3>2. CASE Serve(t) \/ Hand(t)
      <4>1. room' = room /\ \A u \in Task : at'[u] \in {"total", "host"} => at'[u] = at[u]
        BY <3>2 DEF Serve, Hand, Resolve, StandOK
      <4> QED BY <1>1, <2>1, <4>1
    <3>3. CASE ~ (Timeout(t) \/ Abort(t) \/ Serve(t) \/ Hand(t))
      <4>1. at'[t] \notin {"total", "host"}
        BY <1>6, <2>3, <3>3 DEF Find, Settle, Return, CountIdle, GiveBack, Process,
                Look, FailClose, Release, Fail, Abandon, Acquire, StandOK
      <4>2. \A u \in Task : u # t => room'[u] = room[u] /\ at'[u] = at[u]
        BY <1>6, <2>3, <3>3 DEF Find, Settle, Return, CountIdle, GiveBack, Process,
                Look, FailClose, Release, Fail, Abandon, Acquire, StandOK, taskVars
      <4> QED BY <1>1, <2>1, <4>1, <4>2
    <3> QED BY <3>1, <3>2, <3>3
  <2> QED BY <2>2, <2>3
<1>7. ASSUME UNCHANGED <<at, room, crowd>>, Len(conns') \in Nat, Len(conns') <= Len(conns)
      PROVE  Booked' /\ crowd' \in Nat
  BY <1>0, <1>7 DEF Counting, Promised
<1>8. ASSUME Len(conns') \in Nat, Len(conns') <= Len(conns), UNCHANGED <<room, crowd>>,
             \A u \in Task : at'[u] \in {"total", "host"} => at'[u] = at[u]
      PROVE  Booked' /\ crowd' \in Nat
  BY <1>0, <1>8 DEF Counting, Promised
<1>9. \A c : Len(Gone(c)) \in Nat /\ Len(Gone(c)) <= Len(conns)
  BY GoneIsList
<1>10. ASSUME NEW t \in Task, Removal(t) PROVE Booked' /\ crowd' \in Nat
  <2>1. conns' = Gone(handle[t]) /\ UNCHANGED <<room, crowd>>
        /\ \A u \in Task : at'[u] \in {"total", "host"} => at'[u] = at[u]
    BY <1>10 DEF Removal, StandOK, history
  <2> QED BY <1>8, <1>9, <2>1
<1>11. ASSUME \/ \E d \in Daemons : Work(d) \/ WorkRemove(d) \/ WorkNext(d)
              \/ Drained \/ List \/ Clear \/ Expire \/ Swept \/ Close \/ Sweep
       PROVE  Booked' /\ crowd' \in Nat
  <2>1. UNCHANGED <<room, crowd>> /\ (conns' = conns \/ conns' = <<>> \/ \E c : conns' = Gone(c))
    BY <1>11 DEF Work, WorkRemove, WorkNext, Drained, List, Clear, Expire, Swept, Close, Sweep,
                 connVars, taskVars, history
  <2>2. Len(conns') \in Nat /\ Len(conns') <= Len(conns)
    BY <1>9, <1>l, <2>1
  <2>3. \A u \in Task : at'[u] \in {"total", "host"} => at'[u] = at[u]
    BY <1>11 DEF Work, WorkRemove, WorkNext, Drained, List, Clear, Expire, Swept, Close, Sweep,
                 StandOK
  <2> QED BY <1>8, <2>1, <2>2, <2>3
<1> QED
  BY <1>2, <1>3, <1>5, <1>6, <1>10, <1>11 DEF Next, Microtask

LEMMA BookedBounds == Booked /\ crowd \in Nat /\ conns \in Seq(Conn) => OverbookedByCrowd
<1> SUFFICES ASSUME Booked, crowd \in Nat, conns \in Seq(Conn) PROVE OverbookedByCrowd
  OBVIOUS
<1>1. Cardinality(Promised) \in Nat
  <2>1. IsFiniteSet(Counting) /\ Promised \subseteq Counting
    BY DEF Booked, Promised
  <2> QED BY <2>1, FS_Subset, FS_CardinalityType
<1>2. Len(conns) \in Nat /\ MaxConnections \in Nat
  BY AsyncAssumption
<1> QED BY <1>1, <1>2 DEF Booked, OverbookedByCrowd

-----------------------------------------------------------------------------
(* As long as nobody disturbs a run.                                       *)

NobodyLost == \A t \in Task : ~ Lost(t)
Calm       == Orderly /\ NobodyLost
Handing    == {"born", "hand"}

LEMMA InQueueIsTask ==
  ASSUME NEW s \in Seq(Task)
  PROVE  \A x \in ToSet(s) : x \in Task
BY DEF ToSet

LEMMA CalmKeeps ==
  ASSUME Calm, StandOK, QueueOK, QueueOK', Unqueued, RunsAreDue, [Next]_vars, ~ disturbed'
  PROVE  Calm'
<1> USE DaemonIsNoTask, AsyncAssumption DEF Calm, Handing
<1>q. /\ \A x \in ToSet(queue) : x \in Task /\ at[x] = "waiting"
      /\ queue # <<>> => Head(queue) \in Task /\ Head(queue) \in ToSet(queue)
  BY InQueueIsTask, HeadQueued DEF QueueOK, Orderly
<1>h. \A t \in Task : at[t] \in Handing =>
        /\ target[t] \in Task /\ at[target[t]] = "waiting" /\ target[t] \notin ToSet(queue)
        /\ \A u \in Task : target[u] = target[t] => u = t
  BY DEF RunsAreDue, StandOK, Orderly, Having
<1>t. \A t \in Task : target[t] # NoTask /\ at[t] \notin Handing =>
        queue # <<>> /\ Head(queue) = target[t]
  BY DEF Orderly
<1>w. \A t \in Task : at[t] = "waiting" => target[t] = NoTask /\ at[t] \notin Handing
  BY DEF RunsAreDue, Searching, Having
<1>0. ASSUME UNCHANGED <<queue, target>>,
             \A u \in Task : /\ at'[u] = "waiting" <=> at[u] = "waiting"
                             /\ at'[u] \in Handing <=> at[u] \in Handing
      PROVE  Calm'
  <2>1. Orderly'
    <3>1. \A p \in ToSet(queue') : at'[p] = "waiting"
      BY <1>0, <1>q
    <3>2. \A t \in Task : target'[t] # NoTask /\ at'[t] \notin Handing
                            => queue' # <<>> /\ Head(queue') = target'[t]
      BY <1>0, <1>t
    <3>3. \A t \in Task : at'[t] \in Handing =>
            /\ at'[target'[t]] = "waiting" /\ target'[t] \notin ToSet(queue')
            /\ \A u \in Task : target'[u] = target'[t] => u = t
      BY <1>0, <1>h
    <3> QED BY <3>1, <3>2, <3>3 DEF Orderly
  <2>2. NobodyLost'
    BY <1>0 DEF NobodyLost, Lost
  <2> QED BY <2>1, <2>2
<1>1. CASE UNCHANGED vars
  BY <1>0, <1>1 DEF vars, taskVars
\* Only t moves, and not in or out of those places.
<1>2. ASSUME NEW t \in Task,
             \/ Find(t) \/ CountAll(t) \/ CountHost(t) \/ Settle(t) \/ Return(t) \/ CountIdle(t)
             \/ GiveBack(t) \/ Removal(t) \/ FailClose(t) \/ Release(t) \/ Fail(t) \/ Abandon(t)
             \/ \E h \in Host, n \in Priority : Acquire(t, h, n)
      PROVE  Calm'
  <2>1. UNCHANGED <<queue, target>>
    BY <1>2 DEF Find, CountAll, CountHost, Settle, Return, CountIdle, GiveBack, Removal,
                FailClose, Release, Fail, Abandon, Acquire, taskVars
  <2>2. /\ \A u \in Task : u # t => at'[u] = at[u]
        /\ at[t] # "waiting" /\ at'[t] # "waiting"
    BY <1>2 DEF Find, CountAll, CountHost, Settle, Return, CountIdle, GiveBack, Removal,
                FailClose, Release, Fail, Abandon, Acquire, StandOK
  <2>3. at'[t] \in Handing <=> at[t] \in Handing
    BY <1>2 DEF Find, CountAll, CountHost, Settle, Return, CountIdle, GiveBack, Removal,
                FailClose, Release, Fail, Abandon, Acquire, StandOK
  <2> QED BY <1>0, <2>1, <2>2, <2>3
<1>3. ASSUME NEW d \in Daemons,
             \/ Work(d) \/ WorkRemove(d) \/ WorkNext(d)
             \/ List \/ Clear \/ Expire \/ Swept \/ Close \/ Sweep
      PROVE  Calm'
  <2>1. UNCHANGED <<queue, target>> /\ \A u \in Task : at'[u] = at[u]
    BY <1>3 DEF Work, WorkRemove, WorkNext, List, Clear, Expire, Swept, Close, Sweep,
                taskVars, StandOK
  <2> QED BY <1>0, <2>1
\* A request is queued; no other run has read a head that it takes the place of.
<1>4. ASSUME NEW t \in Task, at[t] = "host", target[t] = NoTask, at' = [at EXCEPT ![t] = "waiting"],
             queue' = Inserted(t), target' = target, ~ Disturbs(t)
      PROVE  Calm'
  <2>1. t \notin ToSet(queue)
    BY <1>4 DEF Unqueued, Searching
  <2>2. ToSet(queue') = ToSet(queue) \cup {t}
    BY <1>4, <2>1, InsertedFacts DEF StandOK, QueueOK
  <2>3. at'[t] = "waiting" /\ \A u \in Task : u # t => at'[u] = at[u]
    BY <1>4 DEF StandOK
  <2>4. Orderly'
    <3>1. \A p \in ToSet(queue') : at'[p] = "waiting"
      BY <1>q, <2>2, <2>3
    <3>2. \A u \in Task : target'[u] # NoTask /\ at'[u] \notin Handing
                            => queue' # <<>> /\ Head(queue') = target'[u]
      BY <1>4, <2>3 DEF Disturbs
    <3>3. \A u \in Task : at'[u] \in Handing =>
            /\ at'[target'[u]] = "waiting" /\ target'[u] \notin ToSet(queue')
            /\ \A v \in Task : target'[v] = target'[u] => v = u
      BY <1>4, <1>h, <2>2, <2>3
    <3> QED BY <3>1, <3>2, <3>3 DEF Orderly
  <2>5. NobodyLost'
    BY <1>4, <2>2, <2>3 DEF NobodyLost, Lost
  <2> QED BY <2>4, <2>5
<1>5. ASSUME NEW t \in Task, Decide(t) PROVE Calm'
  <2>1. CASE /\ queue' = Inserted(t) /\ at' = [at EXCEPT ![t] = "waiting"]
             /\ disturbed' = (disturbed \/ Disturbs(t))
    BY <1>4, <1>5, <2>1 DEF Decide
  <2>2. CASE queue' = queue /\ \E s \in {"got3", "off"} : at' = [at EXCEPT ![t] = s]
    <3>1. target' = target /\ at[t] = "host" /\ at'[t] \in {"got3", "off"}
          /\ \A u \in Task : u # t => at'[u] = at[u]
      BY <1>5, <2>2 DEF Decide, StandOK
    <3> QED BY <1>0, <2>2, <3>1
  <2> QED BY <1>5, <2>1, <2>2 DEF Decide
\* What the queue loses, and who has read its head.
<1>6. ASSUME queue' = Shift
      PROVE  /\ \A x \in ToSet(queue') : x \in ToSet(queue)
             /\ queue # <<>> => /\ Head(queue) \notin ToSet(queue')
                                /\ \A x \in ToSet(queue) : x # Head(queue) => x \in ToSet(queue')
  BY <1>6, ShiftFacts DEF QueueOK
<1>7. queue' # <<>> => Head(queue') \in Task /\ Head(queue') \in ToSet(queue')
  BY HeadQueued DEF QueueOK
<1>8. ASSUME NEW t \in Task, Claim(t) PROVE Calm'
  <2>1. /\ at[t] = "host" /\ target[t] # NoTask /\ queue # <<>> /\ Head(queue) = target[t]
        /\ target[t] \in Task
    BY <1>8, <1>t, <1>q DEF Claim
  <2>2. CASE room[t]
    <3>1. /\ queue' = Shift /\ ~ Disturbs(t) /\ target' = target
          /\ at'[t] = "born" /\ \A u \in Task : u # t => at'[u] = at[u]
      BY <1>8, <2>2 DEF Claim, StandOK
    <3>2. at[target[t]] = "waiting" /\ target[t] # t /\ target[t] \notin ToSet(queue')
      BY <1>6, <1>q, <2>1, <3>1
    <3>3. \A u \in Task : u # t /\ target[u] # NoTask /\ at[u] \notin Handing
                            => queue' # <<>> /\ Head(queue') = target[u]
      BY <3>1 DEF Disturbs
    <3>4. \A u \in Task : target[u] = target[t] => u = t
      <4> SUFFICES ASSUME NEW u \in Task, target[u] = target[t], u # t PROVE FALSE
        OBVIOUS
      <4>1. at[u] \notin Handing
        BY <1>h, <1>q, <2>1
      <4>2. Head(queue') = target[t] /\ queue' # <<>>
        BY <2>1, <3>3, <4>1
      <4> QED BY <1>7, <3>2, <4>2
    <3>5. Orderly'
      <4>1. \A p \in ToSet(queue') : at'[p] = "waiting"
        BY <1>6, <1>q, <2>1, <3>1
      <4>2. \A u \in Task : target'[u] # NoTask /\ at'[u] \notin Handing
                              => queue' # <<>> /\ Head(queue') = target'[u]
        BY <3>1, <3>3
      <4>3. ASSUME NEW u \in Task, at'[u] \in Handing
            PROVE  /\ at'[target'[u]] = "waiting" /\ target'[u] \notin ToSet(queue')
                   /\ \A v \in Task : target'[v] = target'[u] => v = u
        <5>1. CASE u = t
          BY <2>1, <3>1, <3>2, <3>4, <5>1
        <5>2. CASE u # t
          BY <1>6, <1>h, <2>1, <3>1, <4>3, <5>2
        <5> QED BY <5>1, <5>2
      <4> QED BY <4>1, <4>2, <4>3 DEF Orderly
    <3>6. NobodyLost'
      <4> SUFFICES ASSUME NEW u \in Task, at'[u] = "waiting", u \notin ToSet(queue'),
                          \A v \in Task : target'[v] # u
                   PROVE  FALSE
        BY DEF NobodyLost, Lost
      <4>1. at[u] = "waiting" /\ u # target[t]
        BY <3>1
      <4>2. u \notin ToSet(queue)
        BY <1>6, <2>1, <3>1, <4>1
      <4> QED BY <3>1, <4>1, <4>2 DEF NobodyLost, Lost
    <3> QED BY <3>5, <3>6
  <2>3. CASE ~ room[t]
    <3>1. /\ queue' = queue /\ target'[t] = NoTask /\ at'[t] = "off"
          /\ \A u \in Task : u # t => at'[u] = at[u] /\ target'[u] = target[u]
      BY <1>8, <2>3 DEF Claim, StandOK
    <3>2. Orderly'
      <4>1. \A p \in ToSet(queue') : at'[p] = "waiting"
        BY <1>q, <2>1, <3>1
      <4>2. \A u \in Task : target'[u] # NoTask /\ at'[u] \notin Handing
                              => queue' # <<>> /\ Head(queue') = target'[u]
        BY <3>1, <1>t
      <4>3. ASSUME NEW u \in Task, at'[u] \in Handing
            PROVE  /\ at'[target'[u]] = "waiting" /\ target'[u] \notin ToSet(queue')
                   /\ \A v \in Task : target'[v] = target'[u] => v = u
        BY <1>h, <2>1, <3>1, <4>3
      <4> QED BY <4>1, <4>2, <4>3 DEF Orderly
    <3>3. NobodyLost'
      <4> SUFFICES ASSUME NEW u \in Task, at'[u] = "waiting", u \notin ToSet(queue'),
                          \A v \in Task : target'[v] # u
                   PROVE  FALSE
        BY DEF NobodyLost, Lost
      <4>1. at[u] = "waiting" /\ u \notin ToSet(queue) /\ u # target[t]
        BY <1>q, <2>1, <3>1
      <4> QED BY <3>1, <4>1 DEF NobodyLost, Lost
    <3> QED BY <3>2, <3>3
  <2> QED BY <2>2, <2>3
\* The request that t serves was its target and waits no longer; t goes on
\* with the head of the queue.
<1>9. ASSUME NEW t \in Task, Resolve(t), at[t] \in {"serve", "hand"},
             target[t] \in Task, at[target[t]] = "waiting", target[t] \notin ToSet(queue'),
             \A x \in ToSet(queue') : x \in ToSet(queue),
             \A x \in ToSet(queue) : x # target[t] => x \in ToSet(queue'),
             \A u \in Task : u # t /\ target[u] # NoTask /\ at[u] \notin Handing
                               => queue' # <<>> /\ Head(queue') = target[u],
             \A u \in Task : u # t /\ at[u] \in Handing => target[u] # target[t]
      PROVE  Calm'
  <2>1. target[t] # t
    BY <1>9
  <2>2. /\ target'[t] = IF queue' = <<>> THEN NoTask ELSE Head(queue')
        /\ at'[t] = IF queue' = <<>> THEN "off" ELSE "find"
        /\ at'[target[t]] = "got2"
        /\ \A u \in Task : u # t => target'[u] = target[u]
        /\ \A u \in Task : u # t /\ u # target[t] => at'[u] = at[u]
    BY <1>9, <2>1 DEF Resolve, StandOK
  <2>3. Orderly'
    <3>1. \A p \in ToSet(queue') : at'[p] = "waiting"
      BY <1>9, <1>q, <2>2
    <3>2. ASSUME NEW u \in Task, target'[u] # NoTask, at'[u] \notin Handing
          PROVE  queue' # <<>> /\ Head(queue') = target'[u]
      <4>1. CASE u = t
        BY <2>2, <3>2, <4>1
      <4>2. CASE u = target[t]
        BY <1>9, <1>w, <2>1, <2>2, <3>2, <4>2
      <4>3. CASE u # t /\ u # target[t]
        BY <1>9, <2>2, <3>2, <4>3
      <4> QED BY <4>1, <4>2, <4>3
    <3>3. ASSUME NEW u \in Task, at'[u] \in Handing
          PROVE  /\ at'[target'[u]] = "waiting" /\ target'[u] \notin ToSet(queue')
                 /\ \A v \in Task : target'[v] = target'[u] => v = u
      <4>1. u # t /\ u # target[t] /\ at[u] \in Handing /\ target'[u] = target[u]
        BY <2>2, <3>3
      <4>2. /\ target[u] \in Task /\ at[target[u]] = "waiting" /\ target[u] \notin ToSet(queue)
            /\ \A v \in Task : target[v] = target[u] => v = u
        BY <1>h, <4>1
      <4>3. target[u] # t /\ target[u] # target[t]
        BY <1>9, <4>1, <4>2
      <4>4. target'[t] # target[u]
        BY <1>7, <1>9, <2>2, <4>2
      <4> QED BY <1>9, <2>2, <4>1, <4>2, <4>3, <4>4
    <3> QED BY <3>1, <3>2, <3>3 DEF Orderly
  <2>4. NobodyLost'
    <3> SUFFICES ASSUME NEW u \in Task, at'[u] = "waiting", u \notin ToSet(queue'),
                        \A v \in Task : target'[v] # u
                 PROVE  FALSE
      BY DEF NobodyLost, Lost
    <3>1. u # t /\ u # target[t] /\ at[u] = "waiting"
      BY <2>2
    <3>2. u \notin ToSet(queue)
      BY <1>9, <3>1
    <3> QED BY <2>2, <3>1, <3>2 DEF NobodyLost, Lost
  <2> QED BY <2>3, <2>4
<1>10. ASSUME NEW t \in Task, Serve(t) PROVE Calm'
  <2>1. Resolve(t) /\ at[t] = "serve" /\ queue' = Shift /\ ~ Disturbs(t)
    BY <1>10 DEF Serve
  <2>2. target[t] # NoTask /\ at[t] \notin Handing
    BY <2>1 DEF RunsAreDue, Having
  <2>3. queue # <<>> /\ Head(queue) = target[t]
    BY <1>t, <2>2
  <2>4. target[t] \in Task /\ at[target[t]] = "waiting" /\ target[t] \in ToSet(queue)
    BY <1>q, <2>3
  <2>5. target[t] \notin ToSet(queue') /\ \A x \in ToSet(queue) : x # target[t] => x \in ToSet(queue')
    BY <1>6, <2>1, <2>3
  <2>6. \A u \in Task : u # t /\ target[u] # NoTask /\ at[u] \notin Handing
                          => queue' # <<>> /\ Head(queue') = target[u]
    BY <2>1 DEF Disturbs
  <2>7. \A u \in Task : u # t /\ at[u] \in Handing => target[u] # target[t]
    BY <1>h, <2>4
  <2>8. \A x \in ToSet(queue') : x \in ToSet(queue)
    BY <1>6, <2>1
  <2> QED BY <1>9, <2>1, <2>4, <2>5, <2>6, <2>7, <2>8
<1>11. ASSUME NEW t \in Task, Hand(t) PROVE Calm'
  <2>1. Resolve(t) /\ at[t] = "hand" /\ queue' = queue
    BY <1>11 DEF Hand
  <2>2. /\ target[t] \in Task /\ at[target[t]] = "waiting" /\ target[t] \notin ToSet(queue)
        /\ \A u \in Task : target[u] = target[t] => u = t
    BY <1>h, <2>1
  <2> QED BY <1>9, <1>t, <2>1, <2>2
<1>12. ASSUME NEW t \in Task, Process(t) PROVE Calm'
  <2>1. /\ queue' = queue /\ at[t] = "given" /\ target[t] = NoTask
        /\ \A u \in Task : u # t => at'[u] = at[u] /\ target'[u] = target[u]
    BY <1>12 DEF Process, Look, StandOK, RunsAreDue, Searching, Having
  <2>2. /\ target'[t] = IF queue = <<>> THEN NoTask ELSE Head(queue)
        /\ at'[t] = IF queue = <<>> THEN "off" ELSE "find"
    BY <1>12, <2>1 DEF Process, Look, StandOK
  <2>3. Orderly'
    <3>1. \A p \in ToSet(queue') : at'[p] = "waiting"
      BY <1>q, <2>1
    <3>2. \A u \in Task : target'[u] # NoTask /\ at'[u] \notin Handing
                            => queue' # <<>> /\ Head(queue') = target'[u]
      BY <1>t, <2>1, <2>2
    <3>3. ASSUME NEW u \in Task, at'[u] \in Handing
          PROVE  /\ at'[target'[u]] = "waiting" /\ target'[u] \notin ToSet(queue')
                 /\ \A v \in Task : target'[v] = target'[u] => v = u
      <4>1. u # t /\ at[u] \in Handing /\ target'[u] = target[u]
        BY <2>1, <2>2, <3>3
      <4>2. target'[t] # target[u] /\ target[u] # t
        BY <1>h, <1>q, <2>1, <2>2, <4>1
      <4> QED BY <1>h, <2>1, <4>1, <4>2
    <3> QED BY <3>1, <3>2, <3>3 DEF Orderly
  <2>4. NobodyLost'
    BY <2>1, <2>2 DEF NobodyLost, Lost
  <2> QED BY <2>3, <2>4
\* One that waits leaves the queue, and no run has it as its target.
<1>13. ASSUME NEW t \in Task, Leave(t),
              \A u \in Task : target[u] # NoTask /\ at[u] \notin Handing
                                => queue' # <<>> /\ Head(queue') = target[u]
       PROVE  Calm'
  <2>1. /\ t \in ToSet(queue) /\ ToSet(queue') = ToSet(queue) \ {t}
    BY <1>13, LeaveFacts DEF QueueOK
  <2>2. target' = target /\ at'[t] = "off" /\ \A u \in Task : u # t => at'[u] = at[u]
    BY <1>13, <1>q, <2>1 DEF Leave, taskVars, StandOK
  <2>3. Orderly'
    <3>1. \A p \in ToSet(queue') : at'[p] = "waiting"
      BY <1>q, <2>1, <2>2
    <3>2. \A u \in Task : target'[u] # NoTask /\ at'[u] \notin Handing
                            => queue' # <<>> /\ Head(queue') = target'[u]
      BY <1>13, <1>q, <1>w, <2>1, <2>2
    <3>3. \A u \in Task : at'[u] \in Handing =>
            /\ at'[target'[u]] = "waiting" /\ target'[u] \notin ToSet(queue')
            /\ \A v \in Task : target'[v] = target'[u] => v = u
      BY <1>h, <2>1, <2>2
    <3> QED BY <3>1, <3>2, <3>3 DEF Orderly
  <2>4. NobodyLost'
    BY <2>1, <2>2 DEF NobodyLost, Lost
  <2> QED BY <2>3, <2>4
<1>14. ASSUME NEW t \in Task, Timeout(t) PROVE Calm'
  <2>1. Leave(t) /\ ready = <<>>
    BY <1>14 DEF Timeout
  <2>2. \A u \in Task : target[u] = NoTask
    BY <2>1 DEF RunsAreDue, ToSet
  <2> QED BY <1>13, <2>1, <2>2
<1>15. ASSUME NEW t \in Task, Abort(t) PROVE Calm'
  <2>1. Leave(t) /\ ~ Disturbs(NoTask)
    BY <1>15 DEF Abort
  <2>2. \A u \in Task : target[u] # NoTask /\ at[u] \notin Handing
                          => queue' # <<>> /\ Head(queue') = target[u]
    BY <2>1 DEF Disturbs
  <2> QED BY <1>13, <2>1, <2>2
\* The rejected ones wait no longer, and no run had read the queue.
<1>16. CASE Drained
  <2>1. /\ queue' = <<>> /\ target' = target /\ ~ Disturbs(NoTask)
        /\ \A u \in Task : at'[u] = IF u \in ToSet(queue) /\ at[u] = "waiting" THEN "off" ELSE at[u]
    BY <1>16 DEF Drained, taskVars, StandOK
  <2>2. \A u \in Task : target[u] # NoTask => at[u] \in Handing
    BY <2>1 DEF Disturbs
  <2>3. Orderly'
    <3>1. \A p : p \notin ToSet(queue')
      BY <2>1 DEF ToSet
    <3>2. \A u \in Task : target'[u] # NoTask => at'[u] \in Handing
      BY <2>1, <2>2
    <3>3. \A u \in Task : at'[u] \in Handing =>
            /\ at'[target'[u]] = "waiting"
            /\ \A v \in Task : target'[v] = target'[u] => v = u
      BY <1>h, <2>1
    <3> QED BY <3>1, <3>2, <3>3 DEF Orderly
  <2>4. NobodyLost'
    BY <2>1 DEF NobodyLost, Lost
  <2> QED BY <2>3, <2>4
<1> QED
  BY <1>1, <1>2, <1>3, <1>5, <1>8, <1>10, <1>11, <1>12, <1>14, <1>15, <1>16 DEF Next, Microtask

LEMMA HistoryGrows ==
  ASSUME StandOK, [Next]_vars
  PROVE  (disturbed => disturbed') /\ astray \subseteq astray'
<1>0. ASSUME disturbed' = disturbed \/ \E b : disturbed' = (disturbed \/ b)
      PROVE  disturbed => disturbed'
  BY <1>0 DEF StandOK
<1>1. CASE UNCHANGED vars
  BY <1>1 DEF vars, history
<1>2. ASSUME NEW t \in Task,
             \/ Find(t) \/ CountAll(t) \/ CountHost(t) \/ Settle(t) \/ Return(t) \/ Hand(t)
             \/ CountIdle(t) \/ GiveBack(t) \/ Process(t) \/ Removal(t) \/ FailClose(t)
             \/ Release(t) \/ Fail(t) \/ Timeout(t)
             \/ \E h \in Host, n \in Priority : Acquire(t, h, n)
      PROVE  UNCHANGED <<disturbed, astray>>
  BY <1>2 DEF Find, CountAll, CountHost, Settle, Return, Hand, CountIdle, GiveBack, Process,
              Removal, FailClose, Release, Fail, Timeout, Leave, Acquire, history
<1>3. ASSUME \/ \E d \in Daemons : Work(d) \/ WorkRemove(d) \/ WorkNext(d)
             \/ List \/ Clear \/ Expire \/ Swept \/ Close \/ Sweep
      PROVE  UNCHANGED <<disturbed, astray>>
  BY <1>3 DEF Work, WorkRemove, WorkNext, List, Clear, Expire, Swept, Close, Sweep, history
<1>4. ASSUME NEW t \in Task, Decide(t) \/ Claim(t) \/ Serve(t) \/ Abort(t)
      PROVE  /\ disturbed' = disturbed \/ \E b : disturbed' = (disturbed \/ b)
             /\ astray' = astray
  <2>1. astray' = astray
    BY <1>4 DEF Decide, Claim, Serve, Abort, Leave
  <2>2. \/ disturbed' = disturbed \/ disturbed' = (disturbed \/ Disturbs(t))
        \/ disturbed' = (disturbed \/ Disturbs(NoTask))
    BY <1>4 DEF Decide, Claim, Serve, Abort
  <2> QED BY <2>1, <2>2
<1>5. ASSUME Drained
      PROVE  (disturbed' = disturbed \/ \E b : disturbed' = (disturbed \/ b)) /\ astray' = astray
  <2>1. disturbed' = (disturbed \/ Disturbs(NoTask)) /\ astray' = astray
    BY <1>5 DEF Drained
  <2> QED BY <2>1
<1>6. ASSUME NEW t \in Task, Abandon(t)
      PROVE  disturbed' = disturbed /\ astray \subseteq astray'
  BY <1>6 DEF Abandon
<1> QED
  BY <1>0, <1>1, <1>2, <1>3, <1>4, <1>5, <1>6 DEF Next, Microtask

LEMMA LeakedKeeps ==
  ASSUME LeakedByDisturbance, disturbed \/ Calm, StoreInv, ListsOK, HandleMatches, StandOK, RunsAreDue,
         QueueOK, [Next]_vars
  PROVE  LeakedByDisturbance'
<1> USE DaemonIsNoTask, AsyncAssumption DEF StoreInv, StoreTypeOK
<1>s. conns' \in Seq(Conn)
  BY StoreKeeps
<1> SUFFICES ASSUME NEW c \in ToSet(conns'), state'[c] = "active", ~ disturbed', c \notin astray',
                    \A u \in Task : handle'[u] # c
             PROVE  FALSE
  <2>1. \A c \in ToSet(conns') : c \in Conn
    BY <1>s DEF ToSet
  <2>2. \A c \in ToSet(conns') \ Held' : \A u \in Task : handle'[u] # c
    BY <2>1 DEF Held
  <2> QED BY <2>2 DEF LeakedByDisturbance
<1>c. c \in Conn
  BY <1>s DEF ToSet
<1>m. ~ disturbed /\ c \notin astray /\ Calm
  BY HistoryGrows
<1>0. ASSUME c \in ToSet(conns), state[c] = "active", \A u \in Task : handle[u] # c
      PROVE  FALSE
  BY <1>0, <1>m, <1>c DEF LeakedByDisturbance, Held
<1>1. ASSUME UNCHANGED <<conns, state, handle>> PROVE FALSE
  BY <1>0, <1>1
<1>2. CASE UNCHANGED vars
  BY <1>1, <1>2 DEF vars, connVars, taskVars
<1>3. ASSUME NEW t \in Task,
             \/ CountAll(t) \/ CountHost(t) \/ Settle(t) \/ Return(t) \/ CountIdle(t)
             \/ Process(t) \/ Fail(t) \/ Timeout(t) \/ Abort(t)
             \/ \E h \in Host, n \in Priority : Acquire(t, h, n)
      PROVE  FALSE
  BY <1>1, <1>3 DEF CountAll, CountHost, Settle, Return, CountIdle, Process, Fail, Timeout, Abort,
                    Leave, Acquire, connVars, taskVars
<1>4. ASSUME NEW t \in Task, Find(t) PROVE FALSE
  <2>1. CASE UNCHANGED <<state, handle>>
    BY <1>1, <1>4, <2>1 DEF Find
  <2>2. ASSUME NEW i \in Usable(t),
               Update(todo[t][i], "active"),
               handle' = [handle EXCEPT ![t] = todo[t][i]]
        PROVE  FALSE
    <3>1. PICK e : e = todo[t][i]
      OBVIOUS
    <3>2. conns' = conns /\ Update(e, "active") /\ handle'[t] = e
          /\ \A u \in Task : u # t => handle'[u] = handle[u]
      BY <1>4, <2>2, <3>1 DEF Find
    <3>3. handle[t] # c
      <4>1. at[t] = "find"
        BY <1>4 DEF Find
      <4> QED BY <1>c, <4>1 DEF HandleMatches, Having, Using
    <3>4. c # e /\ \A u \in Task : handle[u] # c
      BY <3>2, <3>3
    <3>5. state[c] = "active"
      <4>1. \A d \in Conn : state'[d] = IF d = e /\ d \in ToSet(conns) THEN "active" ELSE state[d]
        BY <3>2, UpdateIs DEF States
      <4> QED BY <1>c, <3>4, <4>1
    <3> QED BY <1>0, <3>2, <3>4, <3>5
  <2> QED BY <1>4, <2>1, <2>2 DEF Find
<1>5. ASSUME NEW t \in Task, Create(t), handle[t] = NoConn PROVE FALSE
  <2>1. PICK d \in Conn : /\ conns' = Append(conns, d)
                          /\ state' = [state EXCEPT ![d] = "active"]
                          /\ handle' = [handle EXCEPT ![t] = d]
    BY <1>5 DEF Create
  <2>2. c # d /\ \A u \in Task : handle[u] # c
    BY <1>5, <1>c, <2>1
  <2>3. c \in ToSet(conns)
    <3>1. PICK i \in 1 .. Len(conns) + 1 : Append(conns, d)[i] = c
      <4>1. DOMAIN Append(conns, d) = 1 .. Len(conns) + 1
        OBVIOUS
      <4> QED BY <2>1, <4>1 DEF ToSet
    <3>2. i \in 1 .. Len(conns) /\ conns[i] = c
      BY <2>2, <3>1
    <3> QED BY <3>2, MemberIs
  <2>4. state[c] = "active"
    BY <1>c, <2>1, <2>2
  <2> QED BY <1>0, <2>2, <2>3, <2>4
<1>6. ASSUME NEW t \in Task, Decide(t) \/ Claim(t) PROVE FALSE
  <2>1. at[t] = "host"
    BY <1>6 DEF Decide, Claim
  <2>2. handle[t] = NoConn
    BY <2>1 DEF HandleMatches, Having, Using
  <2>3. Create(t) \/ UNCHANGED <<conns, state, handle>>
    BY <1>6 DEF Decide, Claim, connVars
  <2> QED BY <1>1, <1>5, <2>2, <2>3
\* While no run is disturbed, whoever is served waits for it.
<1>7. ASSUME NEW t \in Task, Serve(t) \/ Hand(t) PROVE FALSE
  <2>1. Resolve(t) /\ at[t] \in {"serve", "hand"} /\ UNCHANGED <<conns, state>>
    BY <1>7 DEF Serve, Hand, connVars
  <2>2. target[t] \in Task /\ at[t] # "waiting"
    BY <2>1 DEF RunsAreDue, StandOK, Having
  <2>3. at[target[t]] = "waiting"
    <3>1. CASE at[t] = "hand"
      BY <1>m, <3>1 DEF Calm, Orderly
    <3>2. CASE at[t] = "serve"
      <4>1. queue # <<>> /\ Head(queue) = target[t]
        BY <1>m, <2>2, <3>2 DEF Calm, Orderly
      <4>2. Head(queue) \in ToSet(queue)
        BY <4>1, HeadQueued DEF QueueOK
      <4> QED BY <1>m, <4>1, <4>2 DEF Calm, Orderly
    <3> QED BY <2>1, <3>1, <3>2
  <2>4. /\ handle'[target[t]] = handle[t]
        /\ \A u \in Task : u # t /\ u # target[t] => handle'[u] = handle[u]
    BY <2>1, <2>2, <2>3 DEF Resolve
  <2>5. handle[target[t]] = NoConn
    BY <2>2, <2>3 DEF HandleMatches, Having, Using
  <2>6. \A u \in Task : handle[u] # c
    BY <1>c, <2>2, <2>4, <2>5
  <2> QED BY <1>0, <2>1, <2>6
\* What t lets go is no longer active, or no longer in the store.
<1>8. ASSUME NEW t \in Task, handle' = [handle EXCEPT ![t] = NoConn] \/ handle' = handle,
             handle[t] = c => state'[c] # "active",
             c \in ToSet(conns), state[c] = "active"
      PROVE  FALSE
  BY <1>0, <1>8
\* Nor is one that t marks as something else.
<1>u. ASSUME NEW d, NEW x \in States \ {"active"}, Update(d, x), conns' = conns
      PROVE  c # d /\ state[c] = "active"
  <2>1. state'[c] = IF c = d /\ c \in ToSet(conns) THEN x ELSE state[c]
    BY <1>c, <1>u, UpdateIs
  <2> QED BY <1>u, <2>1
<1>9. ASSUME NEW t \in Task, GiveBack(t) PROVE FALSE
  <2>1. conns' = conns /\ (Update(handle[t], "idle") \/ Update(handle[t], "closed"))
    BY <1>9 DEF GiveBack
  <2>2. handle' = [handle EXCEPT ![t] = NoConn] \/ handle' = handle
    BY <1>9 DEF GiveBack
  <2>3. c # handle[t] /\ state[c] = "active"
    BY <1>u, <2>1 DEF States
  <2> QED BY <1>8, <2>1, <2>2, <2>3
<1>10. ASSUME NEW t \in Task, Release(t) \/ FailClose(t) PROVE FALSE
  <2>1. Update(handle[t], "closed") \/ state' = state
    BY <1>10 DEF Release, FailClose
  <2>2. UNCHANGED <<conns, handle>>
    BY <1>10 DEF Release, FailClose, taskVars
  <2>3. state[c] = "active"
    BY <1>u, <2>1, <2>2 DEF States
  <2> QED BY <1>0, <2>2, <2>3
<1>11. ASSUME NEW t \in Task, Removal(t) PROVE FALSE
  <2>1. /\ state' = state /\ handle' = [handle EXCEPT ![t] = NoConn] /\ conns' = Gone(handle[t])
        /\ at[t] = "closing"
    BY <1>11 DEF Removal
  <2>3. c \in ToSet(conns)
    BY <2>1, GoneIsList
  <2>2. handle[t] # c
    BY <2>1, <2>3 DEF HandleMatches
  <2> QED BY <1>8, <2>1, <2>2, <2>3
<1>12. ASSUME NEW t \in Task, Abandon(t) PROVE FALSE
  <2>1. /\ UNCHANGED <<conns, state>> /\ handle' = [handle EXCEPT ![t] = NoConn]
        /\ astray' = astray \cup {handle[t]}
    BY <1>12 DEF Abandon, connVars
  <2> QED BY <1>8, <2>1
<1>13. ASSUME NEW d \in Daemons, Work(d) PROVE FALSE
  <2>1. UNCHANGED <<conns, handle>>
    BY <1>13 DEF Work, taskVars
  <2>2. \E e : Update(e, "draining") \/ Update(e, "closed")
    BY <1>13 DEF Work
  <2>3. state[c] = "active"
    BY <1>u, <2>1, <2>2 DEF States
  <2> QED BY <1>0, <2>1, <2>3
<1>14. ASSUME \/ \E d \in Daemons : WorkRemove(d) \/ WorkNext(d)
              \/ Drained \/ List \/ Clear \/ Expire \/ Swept \/ Close \/ Sweep
       PROVE  FALSE
  <2>1. /\ UNCHANGED <<state, handle>>
        /\ conns' = conns \/ conns' = <<>> \/ \E e : conns' = Gone(e)
    BY <1>14 DEF WorkRemove, WorkNext, Drained, List, Clear, Expire, Swept, Close, Sweep,
                 connVars, taskVars
  <2>2. c \in ToSet(conns)
    <3>1. CASE conns' = <<>>
      BY <3>1 DEF ToSet
    <3>2. CASE \E e : conns' = Gone(e)
      BY <3>2, GoneIsList
    <3> QED BY <2>1, <3>1, <3>2
  <2> QED BY <1>0, <2>1, <2>2
<1> QED
  BY <1>2, <1>3, <1>4, <1>6, <1>7, <1>9, <1>10, <1>11, <1>12, <1>13, <1>14 DEF Next, Microtask

-----------------------------------------------------------------------------
(* The invariant, from its parts.                                          *)

\* The type invariant is what the lemmas above take one piece at a time.
LEMMA TypeParts ==
  /\ TypeOK <=> /\ ListsOK /\ StoreTypeOK /\ StandOK /\ crowd \in Nat
                /\ queue \in Seq(Task) /\ ready \in Seq(Runner)
  /\ QueuedOnce <=> Once(queue) /\ Unqueued
BY DEF TypeOK, ListsOK, StoreTypeOK, StandOK, Runner, QueuedOnce, Once, Unqueued

LEMMA CalmIs == CalmInv /\ LostByDisturbance <=> disturbed \/ Calm
BY DEF CalmInv, LostByDisturbance, Calm, NobodyLost

LEMMA InitInv ==
  ASSUME Init
  PROVE  IInv
<1> USE DaemonIsNoTask, AsyncAssumption
<1>1. StoreInv
  BY StoreInit
<1>2. \A t \in Task : at[t] = "off" /\ target[t] = NoTask /\ handle[t] = NoConn
  BY DEF Init
<1>3. StandOK
  <2>1. at \in [Runner -> Stands]
    BY DEF Init, Runner, Stands
  <2>2. rank \in [Task -> Priority]
    <3>1. (CHOOSE n \in Priority : TRUE) \in Priority
      OBVIOUS
    <3> QED BY <3>1 DEF Init
  <2> QED BY <2>1, <2>2 DEF Init, StandOK
<1>4. queue = <<>> /\ ready = <<>> /\ conns = <<>> /\ crowd = 0
  BY DEF Init
<1>5. TypeOK
  BY <1>1, ListsInit, <1>3, <1>4, TypeParts DEF StoreInv
<1>6. HeldInv /\ RunsAreDue /\ QueuedOnce
  BY <1>1, <1>2, <1>4 DEF StoreInv, HeldInv, HandleMatches, RunsAreDue, QueuedOnce,
                          Having, Using, Searching
<1>7. Booked
  <2>1. Counting = {} /\ Promised = {}
    BY <1>2 DEF Counting, Promised
  <2> QED BY <1>4, <2>1, FS_EmptySet DEF Booked
<1>8. CalmInv /\ LostByDisturbance
  <2>1. Orderly
    BY <1>2, <1>4 DEF Orderly, ToSet
  <2>2. NobodyLost
    BY <1>2 DEF NobodyLost, Lost
  <2> QED BY <2>1, <2>2, CalmIs DEF Calm
<1>9. LeakedByDisturbance
  BY <1>4 DEF LeakedByDisturbance, ToSet
<1> QED
  BY <1>5, <1>6, <1>7, <1>8, <1>9 DEF IInv

LEMMA NextInv ==
  ASSUME IInv, [Next]_vars
  PROVE  IInv'
<1>1. /\ StoreInv /\ ListsOK /\ StandOK /\ crowd \in Nat /\ conns \in Seq(Conn)
      /\ QueueOK /\ Unqueued /\ DueOK /\ RunsAreDue /\ HandleMatches
      /\ Booked /\ (disturbed \/ Calm) /\ LeakedByDisturbance
  BY TypeParts, CalmIs DEF IInv, HeldInv, StoreInv, StoreTypeOK, QueueOK, DueOK
<1>2. StoreInv' /\ ListsOK'
  BY <1>1, StoreKeeps, ListsKeep
<1>3. QueueOK' /\ Unqueued'
  BY <1>1, QueueKeeps, UnqueuedKeeps
<1>4. StandOK'
  BY <1>1, <1>3, StandKeeps DEF QueueOK
<1>5. DueOK'
  BY <1>1, <1>3, DueKeeps
<1>6. HandleMatches'
  BY <1>1, MatchesKeeps
<1>7. Booked' /\ crowd' \in Nat
  BY <1>1, BookedKeeps
<1>8. disturbed' \/ Calm'
  <2>1. CASE disturbed'
    BY <2>1
  <2>2. CASE ~ disturbed'
    <3>1. Calm
      BY <1>1, <2>2, HistoryGrows
    <3> QED BY <1>1, <1>3, <2>2, <3>1, CalmKeeps
  <2> QED BY <2>1, <2>2
<1>9. LeakedByDisturbance'
  BY <1>1, LeakedKeeps
<1>10. TypeOK' /\ QueuedOnce'
  <2>1. TypeOK'
    BY <1>2, <1>3, <1>4, <1>5, <1>7
       DEF TypeOK, ListsOK, StoreTypeOK, StandOK, Runner, StoreInv, QueueOK, DueOK
  <2>2. QueuedOnce'
    BY <1>3 DEF QueuedOnce, Once, Unqueued, QueueOK
  <2> QED BY <2>1, <2>2
<1>11. CalmInv' /\ LostByDisturbance'
  BY <1>8 DEF CalmInv, LostByDisturbance, Calm, NobodyLost
<1> QED
  BY <1>2, <1>5, <1>6, <1>7, <1>9, <1>10, <1>11 DEF IInv, HeldInv, StoreInv, DueOK

\* Every step of the pool keeps the invariant: what is held, queued, due and
\* booked, and the order of the queue as long as no run is disturbed.
THEOREM Inductive == Spec => []IInv
<1>1. Init => IInv
  BY InitInv
<1>2. IInv /\ [Next]_vars => IInv'
  BY NextInv
<1> QED
  BY <1>1, <1>2, PTL DEF Spec

\* ExclusiveUse: whatever takes turns between the awaits, no connection is
\* handed to two requests, except one that was idle when it left the store:
\* findIdleConnection() may be going through a list that still has it.
THEOREM UseIsExclusive == Spec => []ExclusiveUse
<1>1. IInv => ExclusiveUse
  BY DEF IInv, HeldInv
<1> QED
  BY <1>1, Inductive, PTL

\* OverbookedByCrowd: the counts of acquire() and processPendingQueue() are
\* stale by the time the connection is added, by as much as there were others
\* between them, and by no more.
THEOREM OverbookingIsBounded == Spec => []OverbookedByCrowd
<1>1. IInv => OverbookedByCrowd
  BY BookedBounds DEF IInv, TypeOK
<1> QED
  BY <1>1, Inductive, PTL

\* LostByDisturbance: a request that waits is in the queue or the target of a
\* run of processPendingQueue(), until the head of the queue changes under one.
THEOREM LossNeedsDisturbance == Spec => []LostByDisturbance
<1>1. IInv => LostByDisturbance
  BY DEF IInv
<1> QED
  BY <1>1, Inductive, PTL

\* LeakedByDisturbance: an active connection that neither a request nor a run
\* has is one that a disturbed run resolved in vain, or that of a request that
\* ended in an error.
THEOREM LeakNeedsDisturbance == Spec => []LeakedByDisturbance
<1>1. IInv => LeakedByDisturbance
  BY DEF IInv
<1> QED
  BY <1>1, Inductive, PTL

=============================================================================
