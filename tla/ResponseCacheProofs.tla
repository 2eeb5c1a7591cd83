------------------------- MODULE ResponseCacheProofs -------------------------
(***************************************************************************)
(* Proofs about ResponseCache, for any number of requests, background      *)
(* tasks, URLs, variants and versions, any limits, and whatever happens.   *)
(***************************************************************************)
EXTENDS ResponseCache, TLAPS

USE DEF Actor, Version

-----------------------------------------------------------------------------
(* What the operations of the store do to the entries.                     *)

Fewer == /\ cache' \in [Url -> Entry \cup {NoEntry}]
         /\ \A m \in Url : cache'[m] \in {cache[m], NoEntry}

LEMMA DeleteMeans ==
  ASSUME TypeOK, NEW S, Delete(S)
  PROVE  Fewer
BY DEF TypeOK, Delete, Fewer

LEMMA GetMeans ==
  ASSUME TypeOK, NEW n, Get(n)
  PROVE  Fewer
<1>1. CASE cache' = cache
  BY <1>1 DEF TypeOK, Fewer
<1>2. CASE Delete({n})
  BY <1>2, DeleteMeans
<1> QED
  BY <1>1, <1>2 DEF Get

LEMMA PutMeans ==
  ASSUME TypeOK, NEW n \in Url, NEW e \in Entry, Put(n, e)
  PROVE  /\ cache' \in [Url -> Entry \cup {NoEntry}]
         /\ cache'[n] = e
         /\ \A m \in Url \ {n} : cache'[m] \in {cache[m], NoEntry}
BY DEF TypeOK, Put

LEMMA EntryAged ==
  ASSUME NEW e \in Entry, NEW l \in {"fresh", "stale", "dead"}
  PROVE  /\ [e EXCEPT !.life = l] \in Entry
         /\ [e EXCEPT !.life = l].content = e.content
         /\ [e EXCEPT !.life = l].tag = e.tag
         /\ [e EXCEPT !.life = l].late = e.late
BY DEF Entry

\* What Age does to the entry that it ages.
LEMMA AgeMeans ==
  ASSUME TypeOK, NEW n \in Url, Age(n)
  PROVE  /\ cache' \in [Url -> Entry \cup {NoEntry}] /\ cache[n] \in Entry /\ cache'[n] \in Entry
         /\ cache'[n].content = cache[n].content /\ cache'[n].tag = cache[n].tag
         /\ cache'[n].late = cache[n].late
         /\ \A m \in Url \ {n} : cache'[m] = cache[m]
<1> DEFINE l == IF cache[n].life = "fresh" /\ cache[n].kind = "window" THEN "stale" ELSE "dead"
<1>1. cache[n] \in Entry
  BY DEF Age, Live, Cached, TypeOK
<1>2. l \in {"fresh", "stale", "dead"} /\ cache' = [cache EXCEPT ![n].life = l]
  BY DEF Age
<1> HIDE DEF l
<1> DEFINE e == [cache[n] EXCEPT !.life = l]
<1>3. cache' = [cache EXCEPT ![n] = e]
  BY <1>2
<1>4. /\ e \in Entry /\ e.content = cache[n].content /\ e.tag = cache[n].tag
      /\ e.late = cache[n].late
  BY <1>1, <1>2, EntryAged
<1> HIDE DEF e
<1> QED
  BY <1>1, <1>3, <1>4 DEF TypeOK

-----------------------------------------------------------------------------
(* Types.                                                                  *)

LEMMA TypeInit == Init => TypeOK
<1> SUFFICES ASSUME Init PROVE TypeOK
  OBVIOUS
<1>1. origin \in Version /\ floor \in [Url -> Version]
  BY BoundAssumption DEF Init
<1>2. cache \in [Url -> Entry \cup {NoEntry}] /\ task \in [Actor -> Task \cup {Idle}]
  BY DEF Init
<1> QED
  BY <1>1, <1>2 DEF Init, TypeOK

LEMMA AnswersTyped ==
  ASSUME TypeOK, NEW a \in Busy, NEW c \in Answers(a)
  PROVE  /\ task[a] \in Task /\ task[a].url \in Url /\ c \in Content /\ c \in Tag
         /\ task[a].began \in Int /\ origin \in Int /\ c.version \in Int
         /\ task[a].began <= c.version /\ c.version <= origin
<1>1. task[a] \in Task /\ task[a].url \in Url /\ task[a].for \in For /\ task[a].began \in Version
  BY DEF TypeOK, Busy, Task
<1>2. PICK v \in task[a].began .. origin : c = [version |-> v, for |-> task[a].for]
  BY DEF Answers
<1>3. v \in Version /\ origin \in Int /\ c.version = v
  BY <1>1, <1>2, BoundAssumption DEF TypeOK
<1> QED
  BY <1>1, <1>2, <1>3, BoundAssumption DEF Content, Tag, For

LEMMA AsksTyped ==
  ASSUME TypeOK, NEW a \in Actor, NEW n \in Url, NEW x \in Variant, NEW t \in Tag, Asks(a, n, x, t)
  PROVE  task' \in [Actor -> Task \cup {Idle}] /\ late' \subseteq Actor
<1>1. [url |-> n, for |-> Whom(n, x), began |-> origin, tag |-> t] \in Task
  BY DEF TypeOK, Task, For, Whom
<1> QED
  BY <1>1 DEF Asks, TypeOK

LEMMA EndsTyped ==
  ASSUME TypeOK, NEW a \in Actor, Ends(a)
  PROVE  task' \in [Actor -> Task \cup {Idle}]
BY DEF TypeOK, Ends

\* A response that is kept, and what it does to the history.
LEMMA KeptTyped ==
  ASSUME TypeOK, NEW a \in Actor, NEW n \in Url, NEW v \in Version, Overtakes(a, n, v)
  PROVE  floor' \in [Url -> Version] /\ late' \subseteq Actor
BY DEF TypeOK, Overtakes, UnderWay, Busy

LEMMA StoreTyped ==
  ASSUME TypeOK, NEW a \in Actor, NEW n \in Url, NEW c \in Content, NEW k \in Kind,
         NEW t \in Tag, Store(a, n, c, k, t)
  PROVE  /\ cache' \in [Url -> Entry \cup {NoEntry}]
         /\ floor' \in [Url -> Version] /\ late' \subseteq Actor
<1>1. CASE k # "none" /\ Overtakes(a, n, c.version)
           /\ Put(n, [content |-> c, tag |-> t, kind |-> k, life |-> "fresh", late |-> a \in late])
  <2>1. [content |-> c, tag |-> t, kind |-> k, life |-> "fresh", late |-> a \in late] \in Entry
    BY <1>1 DEF Entry, Kind
  <2>2. c.version \in Version
    BY DEF Content
  <2> QED
    BY <1>1, <2>1, <2>2, PutMeans, KeptTyped
<1>2. CASE UNCHANGED <<cache, floor>> /\ late' = late \ {a}
  BY <1>2 DEF TypeOK
<1> QED
  BY <1>1, <1>2 DEF Store, store

\* A refreshed entry is the one that is there, under the old or the new tag.
LEMMA RefreshMeans ==
  ASSUME TypeOK, NEW a \in Actor, NEW n \in Url, NEW c \in Content, c \in Tag, Refresh(a, n, c), Live(n)
  PROVE  /\ n \in Cached /\ cache[n] \in Entry /\ Overtakes(a, n, c.version)
         /\ \E e \in Entry : /\ Put(n, e)
                             /\ e.content = cache[n].content /\ e.tag \in {c, cache[n].tag}
                             /\ e.late = (cache[n].late \/ a \in late)
<1>1. n \in Cached /\ cache[n] \in Entry
  <2>1. n \in Cached
    BY DEF Live
  <2>2. cache[n] # NoEntry
    BY <2>1 DEF Cached
  <2>3. cache[n] \in Entry \cup {NoEntry}
    BY DEF TypeOK
  <2> QED BY <2>1, <2>2, <2>3
<1>2. PICK t \in {c, cache[n].tag}, k \in Kind \cup {cache[n].kind} :
        /\ Put(n, [cache[n] EXCEPT !.tag = t, !.kind = IF k = "none" THEN "plain" ELSE k,
                                   !.life = IF k = "none" THEN "dead" ELSE "fresh",
                                   !.late = @ \/ a \in late])
        /\ Overtakes(a, n, c.version)
  BY DEF Refresh
<1> DEFINE kd == IF k = "none" THEN "plain" ELSE k
           lf == IF k = "none" THEN "dead" ELSE "fresh"
           lt == cache[n].late \/ a \in late
           e  == [cache[n] EXCEPT !.tag = t, !.kind = kd, !.life = lf, !.late = lt]
<1>3. t \in Tag /\ kd \in {"plain", "window"} /\ lf \in {"fresh", "stale", "dead"} /\ lt \in BOOLEAN
  BY <1>1 DEF Kind, Entry
<1>4. Put(n, e)
  BY <1>2
<1>5. t \in {c, cache[n].tag} /\ Overtakes(a, n, c.version)
  BY <1>2
<1>6. e \in Entry /\ e.content = cache[n].content /\ e.tag = t /\ e.late = lt
  <2> DEFINE old == cache[n]
  <2> HIDE DEF kd, lf, lt, old
  <2>1. old \in Entry
    BY <1>1 DEF old
  <2>2. /\ e \in Entry /\ e.content = old.content
        /\ e.tag = t /\ e.late = lt
    <3>1. e = [old EXCEPT !.tag = t, !.kind = kd, !.life = lf, !.late = lt]
      BY DEF old
    <3> HIDE DEF e
    <3> QED
      BY <1>3, <2>1, <3>1 DEF Entry
  <2> QED
    BY <2>2 DEF old
<1> HIDE DEF kd, lf, lt, e
<1>7. e.tag \in {c, cache[n].tag} /\ e.late = (cache[n].late \/ a \in late)
  BY <1>5, <1>6 DEF lt
<1>8. \E f \in Entry : /\ Put(n, f)
                       /\ f.content = cache[n].content /\ f.tag \in {c, cache[n].tag}
                       /\ f.late = (cache[n].late \/ a \in late)
  BY <1>4, <1>6, <1>7, Zenon
<1> QED
  BY <1>1, <1>5, <1>8

LEMMA RefreshTyped ==
  ASSUME TypeOK, NEW a \in Actor, NEW n \in Url, NEW c \in Content, c \in Tag, Refresh(a, n, c)
  PROVE  /\ cache' \in [Url -> Entry \cup {NoEntry}]
         /\ floor' \in [Url -> Version] /\ late' \subseteq Actor
<1>1. CASE Live(n)
  <2>1. PICK e \in Entry : Put(n, e) /\ Overtakes(a, n, c.version)
    BY <1>1, RefreshMeans
  <2>2. c.version \in Version
    BY DEF Content
  <2> QED
    BY <2>1, <2>2, PutMeans, KeptTyped
<1>2. CASE ~ Live(n)
  <2>1. Get(n) /\ late' = late \ {a} /\ floor' = floor
    BY <1>2 DEF Refresh
  <2> QED
    BY <2>1, GetMeans DEF Fewer, TypeOK
<1> QED
  BY <1>1, <1>2

\* What an answer does to the cache and the history.
LEMMA AnswerMeans ==
  ASSUME TypeOK, NEW a \in Actor, Answer(a)
  PROVE  /\ a \in Busy /\ task[a].url \in Url /\ Ends(a) /\ revalidating' = Unmarked(a)
         /\ UNCHANGED <<origin, closed>>
         /\ \/ UNCHANGED <<cache, floor>> /\ late' = late \ {a}
            \/ \E c \in Answers(a), k \in Kind, t \in Tag :
                 t \in {c, NoTag} /\ Store(a, task[a].url, c, k, t)
            \/ \E c \in Answers(a) : /\ a \in Worker /\ c = task[a].tag
                                     /\ Refresh(a, task[a].url, c)
<1>1. /\ a \in Busy /\ Ends(a) /\ revalidating' = Unmarked(a) /\ UNCHANGED <<origin, closed>>
  BY DEF Answer, Succeed, NotModified, Raise
<1>2. task[a].url \in Url
  BY <1>1 DEF TypeOK, Busy, Task
<1>3. CASE Raise(a)
  BY <1>1, <1>2, <1>3 DEF Raise, store
<1>4. CASE Succeed(a)
  <2>1. PICK c \in Answers(a) : \E k \in Kind, t \in {c, NoTag} : Store(a, task[a].url, c, k, t)
    BY <1>4 DEF Succeed
  <2>2. c \in Tag /\ NoTag \in Tag
    BY <1>1, AnswersTyped DEF Tag
  <2> QED
    BY <1>1, <1>2, <2>1, <2>2
<1>5. CASE NotModified(a)
  BY <1>1, <1>2, <1>5 DEF NotModified, store
<1> QED
  BY <1>3, <1>4, <1>5 DEF Answer

\* A task sends a request for n, or nobody does.
Asked(n, x) ==
  \/ UNCHANGED <<revalidating, task, late>>
  \/ \E r \in Request, t \in OwnTag : Asks(r, n, x, t) /\ revalidating' = revalidating
  \/ \E w \in Worker, own \in OwnTag :
       /\ Asks(w, n, x, IF own = NoTag THEN cache[n].tag ELSE own)
       /\ n \notin revalidating /\ revalidating' = revalidating \cup {n}
       /\ n \in Cached /\ Live(n)

LEMMA AskMeans ==
  ASSUME TypeOK, NEW n \in Url, NEW x \in Variant, Ask(n, x)
  PROVE  Get(n) /\ UNCHANGED <<origin, closed, floor>> /\ Asked(n, x)
<1>1. CASE Hit(n, x)
  BY <1>1 DEF Hit, history, Asked
<1>2. ASSUME NEW r \in Request, Miss(r, n, x)
      PROVE  Get(n) /\ UNCHANGED <<origin, closed, floor>> /\ Asked(n, x)
  BY <1>2 DEF Miss, Asked
<1>3. ASSUME NEW w \in Worker, StaleHit(n, x, w)
      PROVE  Get(n) /\ UNCHANGED <<origin, closed, floor>> /\ Asked(n, x)
  BY <1>3 DEF StaleHit, Suits, Live, Asked
<1> QED
  BY <1>1, <1>2, <1>3 DEF Ask

\* A free task that asks: what it holds from then on, and the others as before.
LEMMA AskedTyped ==
  ASSUME TypeOK, NEW n \in Url, NEW x \in Variant, Asked(n, x)
  PROVE  /\ task' \in [Actor -> Task \cup {Idle}] /\ late' \subseteq Actor
         /\ revalidating' \subseteq Url
<1>1. ASSUME NEW r \in Request, NEW t \in OwnTag, Asks(r, n, x, t)
      PROVE  task' \in [Actor -> Task \cup {Idle}] /\ late' \subseteq Actor
  <2>1. t \in Tag
    BY DEF OwnTag, Tag
  <2> QED
    BY <1>1, <2>1, AsksTyped
<1>2. ASSUME NEW w \in Worker, NEW own \in OwnTag, n \in Cached,
             Asks(w, n, x, IF own = NoTag THEN cache[n].tag ELSE own)
      PROVE  task' \in [Actor -> Task \cup {Idle}] /\ late' \subseteq Actor
  <2>1. own \in Tag /\ cache[n].tag \in Tag
    BY <1>2 DEF OwnTag, Tag, Cached, TypeOK, Entry
  <2> QED
    BY <1>2, <2>1, AsksTyped
<1> QED
  BY <1>1, <1>2 DEF Asked, TypeOK

\* Entries go, for the reasons of Invalidate, Clear and Close.
LEMMA DropTyped ==
  ASSUME TypeOK, NEW S \in SUBSET Url, Drop(S)
  PROVE  floor' \in [Url -> Version] /\ late' \subseteq Actor
BY DEF Drop, UnderWay, Busy, TypeOK

Dropping(S) ==
  /\ Drop(S) /\ UNCHANGED <<origin, revalidating, task>> /\ Fewer
  /\ \A m \in S : cache'[m] = NoEntry

LEMMA DropMeans ==
  ASSUME TypeOK, (\E n \in Url : Invalidate(n)) \/ Clear \/ Close
  PROVE  \E S \in SUBSET Url : Dropping(S)
<1>1. ASSUME NEW n \in Url, Invalidate(n) PROVE Dropping({n})
  BY <1>1, DeleteMeans DEF Invalidate, Delete, Dropping
<1>2. CASE Clear \/ Close
  <2>1. Dropping(Cached) /\ Cached \in SUBSET Url
    BY <1>2 DEF Clear, Close, Dropping, Fewer, Cached
  <2> QED
    BY <2>1
<1> QED
  BY <1>1, <1>2

LEMMA TypeStep == TypeOK /\ [Next]_vars => TypeOK'
<1> SUFFICES ASSUME TypeOK, [Next]_vars PROVE TypeOK'
  OBVIOUS
<1>1. ASSUME NEW n \in Url, NEW x \in Variant, Ask(n, x) PROVE TypeOK'
  <2>1. Get(n) /\ UNCHANGED <<origin, closed, floor>> /\ Asked(n, x)
    BY <1>1, AskMeans
  <2>2. cache' \in [Url -> Entry \cup {NoEntry}]
    BY <2>1, GetMeans DEF Fewer
  <2> QED
    BY <2>1, <2>2, AskedTyped DEF TypeOK
<1>2. ASSUME NEW a \in Actor, Answer(a) PROVE TypeOK'
  <2>1. /\ a \in Busy /\ task[a].url \in Url /\ Ends(a) /\ revalidating' = Unmarked(a)
        /\ UNCHANGED <<origin, closed>>
    BY <1>2, AnswerMeans
  <2>2. /\ cache' \in [Url -> Entry \cup {NoEntry}]
        /\ floor' \in [Url -> Version] /\ late' \subseteq Actor
    <3>1. CASE UNCHANGED <<cache, floor>> /\ late' = late \ {a}
      BY <3>1 DEF TypeOK
    <3>2. ASSUME NEW c \in Answers(a), NEW k \in Kind, NEW t \in Tag, Store(a, task[a].url, c, k, t)
          PROVE  /\ cache' \in [Url -> Entry \cup {NoEntry}]
                 /\ floor' \in [Url -> Version] /\ late' \subseteq Actor
      BY <2>1, <3>2, AnswersTyped, StoreTyped
    <3>3. ASSUME NEW c \in Answers(a), Refresh(a, task[a].url, c)
          PROVE  /\ cache' \in [Url -> Entry \cup {NoEntry}]
                 /\ floor' \in [Url -> Version] /\ late' \subseteq Actor
      BY <2>1, <3>3, AnswersTyped, RefreshTyped
    <3> QED
      BY <1>2, <3>1, <3>2, <3>3, AnswerMeans
  <2>3. task' \in [Actor -> Task \cup {Idle}] /\ revalidating' \subseteq Url
    BY <2>1, EndsTyped DEF Unmarked, TypeOK
  <2> QED
    BY <2>1, <2>2, <2>3 DEF TypeOK
<1>3. CASE (\E n \in Url : Invalidate(n)) \/ Clear \/ Close
  <2>1. PICK S \in SUBSET Url : Dropping(S)
    BY <1>3, DropMeans
  <2>2. closed' \in BOOLEAN
    BY <1>3 DEF Invalidate, Clear, Close, TypeOK
  <2> QED
    BY <2>1, <2>2, DropTyped DEF Dropping, Fewer, TypeOK
<1>4. ASSUME NEW n \in Url, Age(n) PROVE TypeOK'
  BY <1>4, AgeMeans DEF Age, history, TypeOK
<1>5. CASE Cleanup
  BY <1>5, DeleteMeans DEF Cleanup, Fewer, history, TypeOK
<1>6. CASE Move
  BY <1>6, BoundAssumption DEF Move, store, history, TypeOK
<1>7. CASE UNCHANGED vars
  BY <1>7 DEF vars, store, history, TypeOK
<1> QED
  BY <1>1, <1>2, <1>3, <1>4, <1>5, <1>6, <1>7 DEF Next, OfUrl

-----------------------------------------------------------------------------
(* One background request per URL.                                         *)

LEMMA MarksKept ==
  ASSUME OneBackground, revalidating' = revalidating, \A w \in Worker : task'[w] = task[w]
  PROVE  OneBackground'
<1>1. Revalidators' = Revalidators
  BY DEF Revalidators, Busy
<1>2. \A w \in Revalidators : task'[w] = task[w]
  BY DEF Revalidators
<1> QED
  BY <1>1, <1>2 DEF OneBackground

LEMMA MarksBegin ==
  ASSUME TypeOK, OneBackground, NEW n \in Url, NEW x \in Variant, NEW w \in Worker, NEW t \in Tag,
         Asks(w, n, x, t), n \notin revalidating, revalidating' = revalidating \cup {n}
  PROVE  OneBackground'
<1>1. [url |-> n, for |-> Whom(n, x), began |-> origin, tag |-> t] \in Task
  BY DEF TypeOK, Task, For, Whom
<1>2. /\ w \notin Revalidators /\ task'[w] # Idle /\ task'[w].url = n
      /\ \A u \in Actor \ {w} : task'[u] = task[u]
  BY <1>1, NoneAssumption DEF Asks, TypeOK, Revalidators
<1>3. Revalidators' = Revalidators \cup {w}
  BY <1>2 DEF Revalidators, Busy
<1>4. \A u \in Revalidators : task'[u] = task[u] /\ task[u].url # n
  BY <1>2 DEF Revalidators, OneBackground
<1> QED
  BY <1>2, <1>3, <1>4 DEF OneBackground

LEMMA MarksEnd ==
  ASSUME TypeOK, OneBackground, NEW a \in Busy, Ends(a), revalidating' = Unmarked(a)
  PROVE  OneBackground'
<1>1. task'[a] = Idle /\ \A u \in Actor \ {a} : task'[u] = task[u]
  BY DEF Ends, TypeOK, Busy
<1>2. CASE a \in Request
  BY <1>1, <1>2, ActorAssumption, MarksKept DEF Unmarked
<1>3. CASE a \in Worker
  <2>1. Revalidators' = Revalidators \ {a} /\ a \in Revalidators
    BY <1>1, <1>3 DEF Revalidators, Busy
  <2>2. \A u \in Revalidators \ {a} : task'[u] = task[u]
    BY <1>1 DEF Revalidators
  <2> QED
    BY <1>3, <2>1, <2>2 DEF Unmarked, OneBackground
<1> QED
  BY <1>2, <1>3 DEF Busy

LEMMA MarksStep == TypeOK /\ OneBackground /\ [Next]_vars => OneBackground'
<1> SUFFICES ASSUME TypeOK, OneBackground, [Next]_vars PROVE OneBackground'
  OBVIOUS
<1>1. ASSUME NEW n \in Url, NEW x \in Variant, Ask(n, x) PROVE OneBackground'
  <2>1. Asked(n, x)
    BY <1>1, AskMeans
  <2>2. ASSUME NEW r \in Request, NEW t, Asks(r, n, x, t), revalidating' = revalidating
        PROVE  OneBackground'
    BY <2>2, ActorAssumption, MarksKept DEF Asks, TypeOK
  <2>3. ASSUME NEW w \in Worker, NEW own \in OwnTag, n \in Cached, n \notin revalidating,
               Asks(w, n, x, IF own = NoTag THEN cache[n].tag ELSE own),
               revalidating' = revalidating \cup {n}
        PROVE  OneBackground'
    <3>1. own \in Tag /\ cache[n].tag \in Tag
      BY <2>3 DEF OwnTag, Tag, Cached, TypeOK, Entry
    <3> QED
      BY <2>3, <3>1, MarksBegin
  <2> QED
    BY <2>1, <2>2, <2>3, MarksKept DEF Asked
<1>2. ASSUME NEW a \in Actor, Answer(a) PROVE OneBackground'
  BY <1>2, AnswerMeans, MarksEnd
<1>3. CASE UNCHANGED <<revalidating, task>>
  BY <1>3, MarksKept
<1> QED
  BY <1>1, <1>2, <1>3
  DEF Next, OfUrl, Invalidate, Age, Clear, Close, Cleanup, Move, vars

-----------------------------------------------------------------------------
(* Bodies and ETags, when no request brings a tag of its own.              *)

\* AskedForCached and OnlyOverlapMixes, of one URL.
Fits(n) ==
  /\ floor[n] <= origin
  /\ \A a \in UnderWay(n) :
       /\ task[a].began <= origin
       /\ a \notin late => /\ floor[n] <= task[a].began
                           /\ a \in Worker /\ n \in Cached => task[a].tag = cache[n].tag

Pure(n) ==
  n \in Cached /\ ~ cache[n].late =>
    cache[n].tag \in {cache[n].content, NoTag} /\ floor[n] <= cache[n].content.version

LEMMA PerUrl ==
  /\ AskedForCached <=> \A n \in Url : Fits(n)
  /\ OnlyOverlapMixes <=> \A n \in Url : Pure(n)
BY DEF AskedForCached, OnlyOverlapMixes, Fits, Pure, Cached

LEMMA PerUrlPrimed ==
  /\ (\A n \in Url : Fits(n)') => AskedForCached'
  /\ (\A n \in Url : Pure(n)') => OnlyOverlapMixes'
<1>1. ASSUME \A n \in Url : Fits(n)' PROVE AskedForCached'
  BY <1>1 DEF AskedForCached, Fits
<1>2. ASSUME \A n \in Url : Pure(n)' PROVE OnlyOverlapMixes'
  BY <1>2 DEF OnlyOverlapMixes, Pure, Cached
<1> QED
  BY <1>1, <1>2

\* What is cached for n stays, but for its lifetime, or goes.
Stays(n) ==
  cache'[n] # NoEntry =>
    /\ cache[n] # NoEntry
    /\ cache'[n].content = cache[n].content /\ cache'[n].tag = cache[n].tag
    /\ cache'[n].late = cache[n].late

LEMMA FewerStays ==
  ASSUME Fewer, NEW n \in Url
  PROVE  Stays(n)
BY DEF Fewer, Stays

\* Nothing is kept: what is under way for n was under way before.
LEMMA UrlKept ==
  ASSUME TypeOK, TypeOK', NEW n \in Url, Fits(n), Pure(n), Stays(n),
         floor'[n] = floor[n], origin <= origin',
         \A a \in UnderWay(n)' : task'[a] = task[a] /\ (a \in late => a \in late')
  PROVE  Fits(n)' /\ Pure(n)'
<1>1. Pure(n)'
  BY DEF Pure, Stays, Cached
<1>2. floor'[n] <= origin'
  BY BoundAssumption DEF Fits, TypeOK
<1>3. ASSUME NEW a \in UnderWay(n)'
      PROVE  /\ task'[a].began <= origin'
             /\ a \notin late' => /\ floor'[n] <= task'[a].began
                                  /\ a \in Worker /\ n \in Cached' => task'[a].tag = cache'[n].tag
  <2>1. a \in UnderWay(n) /\ task'[a] = task[a] /\ (a \in late => a \in late')
    BY <1>3 DEF UnderWay, Busy
  <2>2. task[a].began \in Int /\ origin \in Int /\ origin' \in Int
    BY <2>1, BoundAssumption DEF UnderWay, Busy, TypeOK, Task
  <2>3. task[a].began <= origin
    BY <2>1 DEF Fits
  <2> QED
    BY <2>1, <2>2, <2>3 DEF Fits, Stays, Cached
<1> QED
  BY <1>1, <1>2, <1>3 DEF Fits

\* Everything that is under way for n is late.
LEMMA UrlOvertaken ==
  ASSUME NEW n \in Url, floor'[n] <= origin',
         \A a \in UnderWay(n)' : a \in late' /\ task'[a].began <= origin'
  PROVE  Fits(n)'
BY DEF Fits

Mixes == AskedForCached /\ OnlyOverlapMixes

\* Nothing is kept, for no URL.
LEMMA MixesKept ==
  ASSUME TypeOK, TypeOK', Mixes, \A n \in Url : Stays(n), floor' = floor, origin <= origin',
         \A a \in Busy' : task'[a] = task[a] /\ (a \in late => a \in late')
  PROVE  Mixes'
<1>1. ASSUME NEW n \in Url PROVE Fits(n)' /\ Pure(n)'
  <2>1. Fits(n) /\ Pure(n)
    BY PerUrl DEF Mixes
  <2>2. \A a \in UnderWay(n)' : task'[a] = task[a] /\ (a \in late => a \in late')
    BY DEF UnderWay
  <2> QED
    BY <2>1, <2>2, UrlKept
<1> QED
  BY <1>1, PerUrlPrimed DEF Mixes

\* A task begins at the newest version, and a worker with the tag that is there.
LEMMA MixesAsks ==
  ASSUME TypeOK, TypeOK', Mixes, NEW a \in Actor, NEW n \in Url, NEW x \in Variant, NEW t \in Tag,
         Asks(a, n, x, t), a \in Worker => t = cache[n].tag, Fewer, UNCHANGED <<origin, floor>>
  PROVE  Mixes'
<1>1. /\ task'[a].url = n /\ task'[a].began = origin /\ task'[a].tag = t
      /\ a \notin Busy /\ late' = late \ {a}
      /\ \A b \in Actor \ {a} : task'[b] = task[b]
  BY DEF Asks, TypeOK
<1>2. ASSUME NEW m \in Url PROVE Fits(m)' /\ Pure(m)'
  <2>1. Fits(m) /\ Pure(m) /\ Stays(m)
    BY PerUrl, FewerStays DEF Mixes
  <2>2. Pure(m)'
    BY <2>1 DEF Pure, Stays, Cached
  <2>3. ASSUME NEW b \in UnderWay(m)'
        PROVE  /\ task'[b].began <= origin'
               /\ b \notin late' => /\ floor'[m] <= task'[b].began
                                    /\ b \in Worker /\ m \in Cached' => task'[b].tag = cache'[m].tag
    <3>1. CASE b = a
      <4>1. m = n
        BY <1>1, <2>3, <3>1 DEF UnderWay
      <4> QED
        BY <1>1, <2>1, <3>1, <4>1, BoundAssumption DEF Fits, Stays, Cached, TypeOK
    <3>2. CASE b # a
      <4>1. b \in UnderWay(m) /\ task'[b] = task[b] /\ (b \in late <=> b \in late')
        BY <1>1, <2>3, <3>2 DEF UnderWay, Busy
      <4> QED
        BY <2>1, <4>1 DEF Fits, Stays, Cached
    <3> QED
      BY <3>1, <3>2
  <2> QED
    BY <2>1, <2>2, <2>3 DEF Fits
<1> QED
  BY <1>2, PerUrlPrimed DEF Mixes

\* A response to a is kept: for its URL the others are late.
LEMMA MixesOvertakes ==
  ASSUME TypeOK, TypeOK', Mixes, NEW a \in Busy, NEW n \in Url, n = task[a].url, Ends(a),
         NEW e \in Entry, Put(n, e), NEW v \in Version, v <= origin, Overtakes(a, n, v),
         UNCHANGED origin,
         ~ e.late => e.tag \in {e.content, NoTag} /\ floor[n] <= v /\ e.content.version = v
  PROVE  Mixes'
<1>1. /\ cache'[n] = e /\ \A m \in Url \ {n} : cache'[m] \in {cache[m], NoEntry}
  BY PutMeans
<1>2. /\ task'[a] = Idle /\ \A b \in Actor \ {a} : task'[b] = task[b]
      /\ floor'[n] = (IF v > floor[n] THEN v ELSE floor[n])
      /\ \A m \in Url \ {n} : floor'[m] = floor[m]
      /\ late' = (late \cup UnderWay(n)) \ {a}
  BY DEF Ends, Overtakes, TypeOK, Busy
<1>3. ASSUME NEW m \in Url, m # n PROVE Fits(m)' /\ Pure(m)'
  <2>1. Fits(m) /\ Pure(m) /\ Stays(m) /\ origin <= origin'
    BY <1>1, <1>3, PerUrl, BoundAssumption DEF Mixes, Stays, TypeOK
  <2>2. \A b \in UnderWay(m)' : task'[b] = task[b] /\ (b \in late => b \in late')
    BY <1>2 DEF UnderWay, Busy
  <2> QED
    BY <1>2, <1>3, <2>1, <2>2, UrlKept
<1>4. Fits(n)'
  <2>1. Fits(n)
    BY PerUrl DEF Mixes
  <2>2. floor'[n] <= origin'
    BY <1>2, <2>1, BoundAssumption DEF Fits, TypeOK
  <2>3. \A b \in UnderWay(n)' : b \in late' /\ task'[b].began <= origin'
    <3>1. \A b \in UnderWay(n)' : b # a /\ b \in UnderWay(n) /\ task'[b] = task[b]
      BY <1>2 DEF UnderWay, Busy
    <3> QED
      BY <1>2, <2>1, <3>1 DEF Fits
  <2> QED
    BY <2>2, <2>3, UrlOvertaken
<1>5. Pure(n)'
  <2>1. ~ e.late => floor'[n] <= e.content.version
    BY <1>2, BoundAssumption DEF TypeOK
  <2> QED
    BY <1>1, <2>1 DEF Pure
<1> QED
  BY <1>3, <1>4, <1>5, PerUrlPrimed DEF Mixes

LEMMA MixesAnswer ==
  ASSUME TypeOK, TypeOK', Mixes, NEW a \in Actor, Answer(a)
  PROVE  Mixes'
<1> DEFINE n == task[a].url
<1>1. a \in Busy /\ n \in Url /\ Ends(a) /\ origin' = origin /\ origin \in Int
  BY AnswerMeans, BoundAssumption DEF TypeOK
<1>2. /\ a \notin Busy' /\ \A b \in Actor \ {a} : task'[b] = task[b]
      /\ a \in UnderWay(n) /\ Fits(n) /\ Pure(n)
  BY <1>1, PerUrl DEF Ends, Busy, TypeOK, UnderWay, Mixes
<1>3. ASSUME floor' = floor, late' = late \ {a}, Fewer PROVE Mixes'
  <2>1. \A b \in Busy' : task'[b] = task[b] /\ (b \in late => b \in late')
    BY <1>2, <1>3 DEF Busy
  <2>2. \A m \in Url : Stays(m)
    BY <1>3, FewerStays
  <2> QED
    BY <1>1, <1>3, <2>1, <2>2, MixesKept
<1>4. ASSUME NEW c \in Answers(a), NEW k \in Kind, NEW t \in Tag, t \in {c, NoTag}, Store(a, n, c, k, t)
      PROVE  Mixes'
  <2>1. CASE UNCHANGED <<cache, floor>> /\ late' = late \ {a}
    BY <1>3, <2>1 DEF Fewer, TypeOK
  <2>2. CASE k # "none" /\ Overtakes(a, n, c.version)
             /\ Put(n, [content |-> c, tag |-> t, kind |-> k, life |-> "fresh", late |-> a \in late])
    <3> DEFINE e == [content |-> c, tag |-> t, kind |-> k, life |-> "fresh", late |-> a \in late]
    <3>1. c \in Content /\ c.version \in Version /\ task[a].began <= c.version /\ c.version <= origin
      BY <1>1, AnswersTyped DEF Content
    <3>2. e \in Entry /\ e.content = c /\ e.tag = t /\ e.late = (a \in late)
      BY <2>2, <3>1 DEF Entry, Kind
    <3>3. Put(n, e)
      BY <2>2
    <3> HIDE DEF e
    <3>4. a \notin late => floor[n] <= c.version
      <4>1. floor[n] \in Int /\ task[a].began \in Int /\ c.version \in Int
        BY <1>1, AnswersTyped, BoundAssumption DEF TypeOK
      <4>2. a \notin late => floor[n] <= task[a].began
        BY <1>2 DEF Fits
      <4> QED
        BY <3>1, <4>1, <4>2
    <3>5. ~ e.late => e.tag \in {e.content, NoTag} /\ floor[n] <= c.version
                      /\ e.content.version = c.version
      BY <1>4, <3>2, <3>4
    <3> HIDE DEF n
    <3> QED
      BY <1>1, <2>2, <3>1, <3>2, <3>3, <3>5, MixesOvertakes DEF n
  <2> QED
    BY <1>4, <2>1, <2>2 DEF Store, store
<1>5. ASSUME NEW c \in Answers(a), a \in Worker, c = task[a].tag, Refresh(a, n, c)
      PROVE  Mixes'
  <2>1. c \in Content /\ c \in Tag /\ c.version \in Version /\ c.version <= origin
    BY <1>1, AnswersTyped DEF Content
  <2>2. CASE ~ Live(n)
    <3>1. Get(n) /\ late' = late \ {a} /\ floor' = floor
      BY <1>5, <2>2 DEF Refresh
    <3> QED
      BY <1>3, <3>1, GetMeans
  <2>3. CASE Live(n)
    <3>1. n \in Cached /\ cache[n] \in Entry /\ Overtakes(a, n, c.version)
      BY <1>1, <1>5, <2>1, <2>3, RefreshMeans
    <3>2. PICK e \in Entry : /\ Put(n, e)
                             /\ e.content = cache[n].content /\ e.tag \in {c, cache[n].tag}
                             /\ e.late = (cache[n].late \/ a \in late)
      BY <1>1, <1>5, <2>1, <2>3, RefreshMeans
    <3>3. ASSUME ~ e.late
          PROVE  e.tag \in {e.content, NoTag} /\ floor[n] <= c.version /\ e.content.version = c.version
      <4>1. ~ cache[n].late /\ a \notin late
        BY <3>2, <3>3
      <4>2. cache[n].tag = c
        BY <1>2, <1>5, <3>1, <4>1 DEF Fits
      <4>3. cache[n].content = c /\ floor[n] <= cache[n].content.version
        BY <1>2, <2>1, <3>1, <4>1, <4>2, NoneAssumption DEF Pure
      <4> QED
        BY <3>2, <4>2, <4>3
    <3> QED
      BY <1>1, <2>1, <3>1, <3>2, <3>3, MixesOvertakes
  <2> QED
    BY <2>2, <2>3
<1> QED
  BY <1>3, <1>4, <1>5, AnswerMeans DEF Fewer, TypeOK

\* Entries go, and what is under way for them becomes late.
LEMMA MixesDrop ==
  ASSUME TypeOK, TypeOK', Mixes, NEW S \in SUBSET Url, Dropping(S)
  PROVE  Mixes'
<1>1. /\ \A m \in Url : floor'[m] = (IF m \in S THEN origin ELSE floor[m])
      /\ \A m \in S : UnderWay(m) \subseteq late'
      /\ late \subseteq late' /\ UNCHANGED <<origin, task>> /\ origin \in Int
  BY BoundAssumption DEF Dropping, Drop, TypeOK
<1>2. ASSUME NEW n \in Url PROVE Fits(n)' /\ Pure(n)'
  <2>1. Fits(n) /\ Pure(n) /\ Stays(n) /\ UnderWay(n)' = UnderWay(n)
    BY <1>1, PerUrl, FewerStays DEF Mixes, Dropping, UnderWay, Busy
  <2>2. CASE n \in S
    <3>1. Pure(n)'
      BY <2>2 DEF Dropping, Pure, Cached
    <3>2. floor'[n] <= origin' /\ \A a \in UnderWay(n)' : a \in late' /\ task'[a].began <= origin'
      BY <1>1, <2>1, <2>2 DEF Fits
    <3> QED
      BY <3>1, <3>2, UrlOvertaken
  <2>3. CASE n \notin S
    <3>1. floor'[n] = floor[n] /\ origin <= origin'
      BY <1>1, <2>3
    <3>2. \A a \in UnderWay(n)' : task'[a] = task[a] /\ (a \in late => a \in late')
      BY <1>1
    <3> QED
      BY <2>1, <3>1, <3>2, UrlKept
  <2> QED
    BY <2>2, <2>3
<1> QED
  BY <1>2, PerUrlPrimed DEF Mixes

LEMMA MixesStep == ~ OwnTags /\ TypeOK /\ TypeOK' /\ Mixes /\ [Next]_vars => Mixes'
<1> SUFFICES ASSUME ~ OwnTags, TypeOK, TypeOK', Mixes, [Next]_vars PROVE Mixes'
  OBVIOUS
<1>0. origin \in Int /\ origin <= origin
  BY BoundAssumption DEF TypeOK
<1>1. ASSUME \A n \in Url : Stays(n), UNCHANGED <<task, late, floor>>, origin <= origin'
      PROVE  Mixes'
  BY <1>1, MixesKept
<1>2. ASSUME NEW n \in Url, NEW x \in Variant, Ask(n, x) PROVE Mixes'
  <2>1. Get(n) /\ UNCHANGED <<origin, floor>> /\ Asked(n, x)
    BY <1>2, AskMeans
  <2>2. Fewer
    BY <2>1, GetMeans
  <2>3. CASE UNCHANGED <<task, late>>
    BY <1>0, <1>1, <2>1, <2>2, <2>3, FewerStays
  <2>4. ASSUME NEW r \in Request, NEW t \in OwnTag, Asks(r, n, x, t) PROVE Mixes'
    <3>1. t \in Tag /\ r \notin Worker
      BY ActorAssumption DEF OwnTag, Tag
    <3> QED
      BY <2>1, <2>2, <2>4, <3>1, MixesAsks
  <2>5. ASSUME NEW w \in Worker, NEW own \in OwnTag, n \in Cached,
               Asks(w, n, x, IF own = NoTag THEN cache[n].tag ELSE own)
        PROVE  Mixes'
    <3>1. own = NoTag /\ cache[n].tag \in Tag
      BY <2>5 DEF OwnTag, Cached, TypeOK, Entry
    <3>2. Asks(w, n, x, cache[n].tag)
      BY <2>5, <3>1
    <3> QED
      BY <2>1, <2>2, <3>1, <3>2, MixesAsks
  <2> QED
    BY <2>1, <2>3, <2>4, <2>5 DEF Asked
<1>3. ASSUME NEW a \in Actor, Answer(a) PROVE Mixes'
  BY <1>3, MixesAnswer
<1>4. CASE (\E n \in Url : Invalidate(n)) \/ Clear \/ Close
  BY <1>4, DropMeans, MixesDrop
<1>5. ASSUME NEW n \in Url, Age(n) PROVE Mixes'
  <2>1. \A m \in Url : Stays(m)
    BY <1>5, AgeMeans, NoneAssumption DEF Stays
  <2> QED
    BY <1>0, <1>1, <1>5, <2>1 DEF Age, history
<1>6. CASE Cleanup
  BY <1>0, <1>1, <1>6, DeleteMeans, FewerStays DEF Cleanup, history
<1>7. CASE Move \/ UNCHANGED vars
  <2>1. \A m \in Url : Stays(m)
    BY <1>7 DEF Move, vars, store, Stays
  <2>2. origin <= origin'
    BY <1>0, <1>7 DEF Move, vars
  <2> QED
    BY <1>1, <1>7, <2>1, <2>2 DEF Move, vars, history
<1> QED
  BY <1>2, <1>3, <1>4, <1>5, <1>6, <1>7 DEF Next, OfUrl

-----------------------------------------------------------------------------
(* The theorems.                                                           *)

IInv == TypeOK /\ OneBackground /\ (~ OwnTags => Mixes)

LEMMA InvInit == Init => IInv
<1> SUFFICES ASSUME Init PROVE IInv
  OBVIOUS
<1>1. TypeOK /\ Busy = {} /\ Cached = {}
  BY TypeInit DEF Init, Busy, Cached
<1>2. OneBackground /\ OnlyOverlapMixes
  BY <1>1 DEF Init, OneBackground, Revalidators, OnlyOverlapMixes
<1>3. AskedForCached
  BY <1>1, BoundAssumption DEF Init, AskedForCached, UnderWay
<1> QED
  BY <1>1, <1>2, <1>3 DEF IInv, Mixes

\* The invariant behind the following theorems is inductive: types, marks, and
\* what the requests under way asked for.
THEOREM Inductive == Spec => []IInv
<1>1. IInv /\ [Next]_vars => IInv'
  BY TypeStep, MarksStep, MixesStep DEF IInv
<1> QED
  BY <1>1, InvInit, PTL DEF Spec

\* However many callers are served a stale entry, one background request runs
\* for its URL, and _revalidating names exactly the URLs of those at work.
THEOREM OneBackgroundRequest == Spec => []OneBackground
<1>1. IInv => OneBackground
  BY DEF IInv
<1> QED
  BY <1>1, Inductive, PTL

\* While no request brings an If-None-Match of its own, a cached body belongs
\* to its ETag and is no older than what was known before, unless responses
\* for its URL overlapped.
THEOREM BodiesKeepTheirTags == ASSUME ~ OwnTags PROVE Spec => []OnlyOverlapMixes
<1>1. IInv => OnlyOverlapMixes
  BY DEF IInv, Mixes
<1> QED
  BY <1>1, Inductive, PTL
=============================================================================
