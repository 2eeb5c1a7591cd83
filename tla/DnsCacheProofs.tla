---------------------------- MODULE DnsCacheProofs ----------------------------
(***************************************************************************)
(* Proofs about DnsCache, for any number of requests, background tasks,    *)
(* names and versions, whatever the events.                                *)
(***************************************************************************)
EXTENDS DnsCache, FiniteSetTheorems, TLAPS

USE DEF Actor, Version

-----------------------------------------------------------------------------
(* Types.                                                                  *)

LEMMA ReadyTyped == Ready \in Task /\ Ready.pc = "ready"
BY NameAssumption, BoundAssumption DEF Ready, Task, Some, Endpoint

\* A request is sent to an endpoint that there is.
LEMMA SelectTyped ==
  ASSUME NEW e \in Entry, NEW p \in Selectable(e)
  PROVE  p \in Endpoint
BY BoundAssumption DEF Entry, Selectable, Endpoints, Endpoint

LEMMA SendingTyped ==
  ASSUME NEW n \in Name, NEW p \in Endpoint
  PROVE  /\ Sending(n, p) \in Task
         /\ Sending(n, p).pc = "sending" /\ Sending(n, p).at = p
BY BoundAssumption DEF Sending, Task

LEMMA SendTyped ==
  ASSUME TypeOK, NEW r \in Actor, NEW n \in Name, NEW e \in Entry, Send(r, n, e)
  PROVE  /\ \/ task' = task /\ active' = active
            \/ \E p \in Endpoint : task' = [task EXCEPT ![r] = Sending(n, p)] /\ active' = Counted(p)
         /\ task' \in [Actor -> Task] /\ active' \in [Endpoint -> Nat]
<1>1. CASE e.failed
  BY <1>1 DEF Send, TypeOK
<1>2. ASSUME NEW p \in Selectable(e), Turns(r, Sending(n, p)), active' = Counted(p)
      PROVE  /\ p \in Endpoint
             /\ task' \in [Actor -> Task] /\ active' \in [Endpoint -> Nat]
  <2>1. p \in Endpoint
    BY <1>2, SelectTyped
  <2>2. Sending(n, p) \in Task
    BY <2>1, SendingTyped
  <2>3. active' \in [Endpoint -> Nat]
    BY <1>2, <2>1 DEF TypeOK, Counted
  <2>4. task' \in [Actor -> Task]
    BY <1>2, <2>2 DEF TypeOK, Turns
  <2> QED
    BY <2>1, <2>3, <2>4
<1> QED
  BY <1>1, <1>2 DEF Send, Turns

LEMMA PutTyped ==
  ASSUME TypeOK, NEW n \in Name, NEW e \in Entry, Put(n, e)
  PROVE  cache' \in [Name -> Entry \cup {NoEntry}]
BY DEF TypeOK, Put

\* Ageing and health marks keep an entry an entry of the same answer.
LEMMA EntryChange ==
  ASSUME NEW e \in Entry
  PROVE  /\ \A S \in SUBSET Endpoint : [e EXCEPT !.sick = S] \in Entry
         /\ \A p : [e EXCEPT !.sick = @ \ {p}] \in Entry
         /\ \A p \in Endpoint : [e EXCEPT !.sick = @ \cup {p}] \in Entry
         /\ [e EXCEPT !.age = IF @ = "fresh" THEN "stale" ELSE "dead"] \in Entry
BY DEF Entry

LEMMA MarkTyped ==
  ASSUME TypeOK, NEW n \in Name, NEW p \in Endpoint, Mark(n, p)
  PROVE  cache' \in [Name -> Entry \cup {NoEntry}]
<1>1. CASE cache' = cache
  BY <1>1 DEF TypeOK
<1>2. CASE n \in Cached /\ cache' = [cache EXCEPT ![n].sick = @ \cup {p}]
  <2>1. cache[n] \in Entry
    BY <1>2 DEF Cached, TypeOK
  <2>2. [cache[n] EXCEPT !.sick = @ \cup {p}] \in Entry
    BY <2>1, EntryChange
  <2> QED
    BY <1>2, <2>2 DEF TypeOK
<1> QED
  BY <1>1, <1>2 DEF Mark

LEMMA TypeInit == Init => TypeOK
<1> SUFFICES ASSUME Init PROVE TypeOK
  OBVIOUS
<1>1. task \in [Actor -> Task] /\ Kinds
  BY ReadyTyped DEF Init, Kinds
<1>2. /\ dns \in Version /\ floor \in [Name -> Version] /\ active \in [Endpoint -> Nat]
      /\ cache \in [Name -> Entry \cup {NoEntry}]
  BY BoundAssumption DEF Init
<1> QED
  BY <1>1, <1>2 DEF Init, TypeOK

\* A request or a worker that goes on, in a way of its kind.
Suits(a, t) ==
  /\ a \in Request => t.pc \in {"ready", "resolving", "refreshing", "sending"}
  /\ a \in Worker => t.pc \in {"ready", "created", "revalidating"}

LEMMA TurnTyped ==
  ASSUME TypeOK, NEW a \in Actor, NEW t \in Task, Suits(a, t), task' = [task EXCEPT ![a] = t]
  PROVE  task' \in [Actor -> Task] /\ Kinds'
BY DEF TypeOK, Kinds, Suits

LEMMA TurnsTyped ==
  ASSUME TypeOK, NEW a \in Actor, NEW t \in Task, Suits(a, t),
         NEW b \in Actor, NEW u \in Task, Suits(b, u),
         task' = [task EXCEPT ![a] = t, ![b] = u]
  PROVE  task' \in [Actor -> Task] /\ Kinds'
BY DEF TypeOK, Kinds, Suits

LEMMA KindsMean ==
  ASSUME TypeOK, NEW a \in Actor
  PROVE  /\ Suits(a, Ready)
         /\ a \in Request => \A n \in Name, p \in Endpoint : Suits(a, Sending(n, p))
         /\ a \in Worker => \A n \in Name : Suits(a, Created(n))
         /\ task[a].pc = "resolving" => a \in Request
BY ReadyTyped, SendingTyped, ActorAssumption DEF TypeOK, Kinds, Suits, Created

LEMMA TypeStep == TypeOK /\ [Next]_vars => TypeOK'
<1> SUFFICES ASSUME TypeOK, [Next]_vars PROVE TypeOK'
  OBVIOUS
<1> USE BoundAssumption
<1>1. ASSUME NEW r \in Request, NEW n \in Name, Hit(r, n) \/ StaleHit(r, n) PROVE TypeOK'
  <2>1. Send(r, n, cache[n]) /\ cache[n] \in Entry
    BY <1>1 DEF Hit, StaleHit, Cached, TypeOK
  <2>2. /\ task' = task \/ \E p \in Endpoint : task' = [task EXCEPT ![r] = Sending(n, p)]
        /\ active' \in [Endpoint -> Nat]
    BY <2>1, SendTyped
  <2>3. task' \in [Actor -> Task] /\ Kinds'
    <3>1. CASE task' = task
      BY <3>1 DEF TypeOK, Kinds
    <3>2. ASSUME NEW p \in Endpoint, task' = [task EXCEPT ![r] = Sending(n, p)]
          PROVE  task' \in [Actor -> Task] /\ Kinds'
      <4>1. r \in Actor /\ Sending(n, p) \in Task /\ Suits(r, Sending(n, p))
        BY SendingTyped, KindsMean, ActorAssumption
      <4> QED BY <3>2, <4>1, TurnTyped
    <3> QED BY <2>2, <3>1, <3>2
  <2> QED
    BY <1>1, <2>2, <2>3 DEF Hit, StaleHit, history, TypeOK
<1>2. ASSUME NEW r \in Request, NEW n \in Name, NEW w \in Worker, StaleHitCreates(r, n, w)
      PROVE  TypeOK'
  <2>1. Created(n) \in Task
    BY DEF Created, Task, Endpoint
  <2>2. /\ cache[n] \in Entry
        /\ \/ task' = [task EXCEPT ![w] = Created(n)] /\ active' = active
           \/ \E p \in Selectable(cache[n]) :
                /\ task' = [task EXCEPT ![w] = Created(n), ![r] = Sending(n, p)]
                /\ active' = Counted(p)
    BY <1>2 DEF StaleHitCreates, Turns, Cached, TypeOK
  <2>3. \/ task' = [task EXCEPT ![w] = Created(n)] /\ active' = active
        \/ \E p \in Endpoint :
             /\ task' = [task EXCEPT ![w] = Created(n), ![r] = Sending(n, p)]
             /\ active' = Counted(p)
    BY <2>2, SelectTyped
  <2>4. task' \in [Actor -> Task] /\ Kinds'
    <3>1. Suits(w, Created(n))
      BY KindsMean
    <3>2. CASE task' = [task EXCEPT ![w] = Created(n)]
      BY <2>1, <3>1, <3>2, TurnTyped
    <3>3. ASSUME NEW p \in Endpoint, task' = [task EXCEPT ![w] = Created(n), ![r] = Sending(n, p)]
          PROVE  task' \in [Actor -> Task] /\ Kinds'
      <4>1. Sending(n, p) \in Task /\ Suits(r, Sending(n, p))
        BY SendingTyped, KindsMean
      <4> QED
        BY <2>1, <3>1, <3>3, <4>1, TurnsTyped
    <3> QED
      BY <2>3, <3>2, <3>3
  <2>5. active' \in [Endpoint -> Nat]
    BY <2>3 DEF Counted, TypeOK
  <2>6. UNCHANGED <<dns, cache, revalidating, history, destroyed>>
    BY <1>2 DEF StaleHitCreates
  <2> QED
    BY <2>4, <2>5, <2>6 DEF history, TypeOK
<1>3. ASSUME NEW r \in Request, NEW n \in Name, Miss(r, n) \/ Refresh(r, n) PROVE TypeOK'
  <2>1. PICK s \in {"resolving", "refreshing"} : Begins(r, n, s)
    BY <1>3 DEF Miss, Refresh
  <2> DEFINE t == [pc |-> s, name |-> n, began |-> dns, at |-> 0]
  <2>2. t \in Task /\ t.pc = s
    BY DEF Task, TypeOK, Endpoint
  <2>3. task' = [task EXCEPT ![r] = t] /\ late' \subseteq Actor
    BY <2>1 DEF Begins, Turns, TypeOK
  <2>4. Suits(r, t)
    BY <2>2, ActorAssumption DEF Suits
  <2> HIDE DEF t
  <2>5. task' \in [Actor -> Task] /\ Kinds'
    BY <2>2, <2>3, <2>4, TurnTyped
  <2> QED
    BY <1>3, <2>3, <2>5 DEF Miss, Refresh, cacheVars, TypeOK
<1>4. ASSUME NEW w \in Worker, StartWorker(w) PROVE TypeOK'
  <2>1. CASE task[w].name \in revalidating
    <3>1. task' \in [Actor -> Task] /\ Kinds'
      BY <1>4, <2>1, ReadyTyped, KindsMean, TurnTyped DEF StartWorker, Ends, Turns
    <3> QED
      BY <1>4, <2>1, <3>1 DEF StartWorker, cacheVars, TypeOK
  <2>2. CASE task[w].name \notin revalidating
    <3> DEFINE n == task[w].name
               t == [pc |-> "revalidating", name |-> n, began |-> dns, at |-> 0]
    <3>1. n \in Name
      BY DEF TypeOK, Task
    <3>2. t \in Task /\ Suits(w, t)
      BY <3>1, ActorAssumption DEF Task, Suits, TypeOK, Endpoint
    <3>3. task' = [task EXCEPT ![w] = t] /\ late' \subseteq Actor
      BY <1>4, <2>2 DEF StartWorker, Begins, Turns, TypeOK
    <3> HIDE DEF t
    <3>4. task' \in [Actor -> Task] /\ Kinds'
      BY <3>2, <3>3, TurnTyped
    <3> QED
      BY <1>4, <2>2, <3>1, <3>3, <3>4 DEF StartWorker, cacheVars, TypeOK
  <2> QED
    BY <2>1, <2>2
<1>5. ASSUME NEW a \in Actor, Resolved(a) PROVE TypeOK'
  <2> DEFINE n == task[a].name
             e(v) == [answer |-> v, failed |-> FALSE, age |-> "fresh", sick |-> {},
                      late |-> a \in late]
  <2>1. PICK v \in task[a].began .. dns :
          /\ Put(n, e(v))
          /\ IF task[a].pc = "resolving" THEN Send(a, n, e(v)) ELSE Ends(a) /\ UNCHANGED active
          /\ floor' = [floor EXCEPT ![n] = Raised(n, v)]
          /\ late'  = (late \cup Resolving(n)) \ {a}
    BY <1>5 DEF Resolved
  <2>2. n \in Name /\ v \in Version
    BY <2>1 DEF TypeOK, Task
  <2>3. e(v) \in Entry
    BY <2>2 DEF Entry
  <2> HIDE DEF e
  <2>4. cache' \in [Name -> Entry \cup {NoEntry}]
    BY <2>1, <2>2, <2>3, PutTyped
  <2>5. CASE task[a].pc = "resolving"
    <3>1. /\ task' = task \/ \E p \in Endpoint : task' = [task EXCEPT ![a] = Sending(n, p)]
          /\ active' \in [Endpoint -> Nat]
      BY <2>1, <2>2, <2>3, <2>5, SendTyped
    <3>2. ASSUME NEW p \in Endpoint, task' = [task EXCEPT ![a] = Sending(n, p)]
          PROVE  task' \in [Actor -> Task] /\ Kinds'
      <4>1. Sending(n, p) \in Task /\ Suits(a, Sending(n, p))
        BY <2>2, <2>5, SendingTyped, KindsMean
      <4> QED
        BY <3>2, <4>1, TurnTyped
    <3>3. task' = task => task' \in [Actor -> Task] /\ Kinds'
      BY DEF TypeOK, Kinds
    <3> QED
      BY <1>5, <2>1, <2>2, <2>4, <3>1, <3>2, <3>3 DEF Resolved, Unmarked, Raised, Resolving, TypeOK
  <2>6. CASE task[a].pc # "resolving"
    <3>1. task' \in [Actor -> Task] /\ Kinds' /\ active' = active
      BY <2>1, <2>6, ReadyTyped, KindsMean, TurnTyped DEF Ends, Turns
    <3> QED
      BY <1>5, <2>1, <2>2, <2>4, <3>1 DEF Resolved, Unmarked, Raised, Resolving, TypeOK
  <2> QED
    BY <2>5, <2>6
<1>6. ASSUME NEW a \in Actor, Failed(a) PROVE TypeOK'
  <2>1. task[a].name \in Name /\ Nothing \in Entry
    BY DEF TypeOK, Task, Nothing, Entry
  <2>2. cache' \in [Name -> Entry \cup {NoEntry}]
    BY <1>6, <2>1, PutTyped DEF Failed, cacheVars, TypeOK
  <2>3. task' \in [Actor -> Task] /\ Kinds'
    BY <1>6, ReadyTyped, KindsMean, TurnTyped DEF Failed, Ends, Turns
  <2> QED
    BY <1>6, <2>2, <2>3 DEF Failed, Unmarked, TypeOK
<1>7. ASSUME NEW r \in Request, Respond(r) \/ Error(r) \/ Cancel(r) PROVE TypeOK'
  <2>1. task[r].at \in Endpoint /\ task[r].name \in Name
    BY DEF TypeOK, Task
  <2>2. active' \in [Endpoint -> Nat]
    <3>1. active' = active \/ CountOut(r)
      BY <1>7 DEF Respond, Error, Cancel
    <3> QED
      BY <2>1, <3>1 DEF CountOut, TypeOK
  <2>3. cache' \in [Name -> Entry \cup {NoEntry}]
    <3>1. cache' = cache \/ Mark(task[r].name, task[r].at)
      BY <1>7 DEF Respond, Error, Cancel, cacheVars
    <3> QED
      BY <2>1, <3>1, MarkTyped DEF TypeOK
  <2>4. /\ task' = [task EXCEPT ![r] = Ready] /\ late' \subseteq Actor
        /\ UNCHANGED <<dns, revalidating, floor, destroyed>>
    BY <1>7 DEF Respond, Error, Cancel, Ends, Turns, history, TypeOK
  <2>5. task' \in [Actor -> Task] /\ Kinds'
    BY <2>4, ReadyTyped, KindsMean, TurnTyped
  <2> QED
    BY <2>2, <2>3, <2>4, <2>5 DEF TypeOK
<1>8. ASSUME NEW S \in SUBSET Name, Drop(S), UNCHANGED <<dns, active, task>>,
             revalidating' \subseteq Name, destroyed' \in BOOLEAN
      PROVE  TypeOK'
  BY <1>8 DEF Drop, Resolving, Kinds, TypeOK
<1>9. ASSUME NEW n \in Name, OfName(n) PROVE TypeOK'
  <2>1. CASE Invalidate(n)
    BY <1>8, <2>1 DEF Invalidate, TypeOK
  <2>2. CASE Age(n) \/ \E e \in Endpoint : MarkHealthy(n, e)
    <3>1. cache' \in [Name -> Entry \cup {NoEntry}]
      <4>1. n \in Cached /\ cache[n] \in Entry
        BY <2>2 DEF Age, MarkHealthy, Cached, TypeOK
      <4>2. PICK e \in Entry : cache' = [cache EXCEPT ![n] = e]
        BY <2>2, <4>1, EntryChange DEF Age, MarkHealthy
      <4> QED
        BY <4>2 DEF TypeOK
    <3> QED
      BY <2>2, <3>1 DEF Age, MarkHealthy, history, Kinds, TypeOK
  <2> QED
    BY <1>9, <2>1, <2>2 DEF OfName
<1>10. CASE Clear \/ Destroy
  <2>1. Cached \in SUBSET Name /\ {} \subseteq Name /\ TRUE \in BOOLEAN
    BY DEF Cached
  <2> QED
    BY <1>8, <1>10, <2>1 DEF Clear, Destroy, TypeOK
<1>11. CASE Move
  BY <1>11 DEF Move, cacheVars, history, Kinds, TypeOK
<1>12. CASE UNCHANGED vars
  BY <1>12 DEF vars, cacheVars, history, Kinds, TypeOK
<1> QED
  BY <1>1, <1>2, <1>3, <1>4, <1>5, <1>6, <1>7, <1>9, <1>10, <1>11, <1>12
  DEF Next, Ask, Lookup, Finish

-----------------------------------------------------------------------------
(* One background resolution per name.                                     *)

\* The names are marked as long as no worker begins or ends a resolution.
LEMMA MarksKept ==
  ASSUME MarksMatch, OneRevalidation, revalidating' = revalidating, destroyed' = destroyed,
         \A w \in Worker : task'[w].pc = "revalidating" \/ task[w].pc = "revalidating"
                             => task'[w] = task[w]
  PROVE  MarksMatch' /\ OneRevalidation'
<1>1. Revalidators' = Revalidators /\ \A w \in Revalidators : task'[w] = task[w]
  BY DEF Revalidators
<1> QED
  BY <1>1 DEF MarksMatch, OneRevalidation

\* A worker that begins is the first one of its name, and marks it.
LEMMA MarksBegin ==
  ASSUME TypeOK, MarksMatch, OneRevalidation, NEW w \in Worker, StartWorker(w)
  PROVE  MarksMatch' /\ OneRevalidation'
<1>0. task[w].pc = "created" /\ destroyed' = destroyed
  BY DEF StartWorker
<1>1. CASE task[w].name \in revalidating
  <2>1. task' = [task EXCEPT ![w] = Ready] /\ revalidating' = revalidating
    BY <1>1 DEF StartWorker, Ends, Turns
  <2> QED
    BY <1>0, <2>1, MarksKept, ReadyTyped DEF TypeOK
<1>2. CASE task[w].name \notin revalidating
  <2>1. /\ revalidating' = revalidating \cup {task[w].name}
        /\ task'[w].pc = "revalidating" /\ task'[w].name = task[w].name
        /\ \A u \in Worker \ {w} : task'[u] = task[u]
    BY <1>2 DEF StartWorker, Begins, Turns, TypeOK
  <2>2. Revalidators' = Revalidators \cup {w} /\ w \notin Revalidators
    BY <1>0, <2>1 DEF Revalidators
  <2>3. \A u \in Revalidators : task'[u] = task[u]
    BY <2>1, <2>2 DEF Revalidators
  <2>4. MarksMatch'
    BY <1>0, <2>1, <2>2, <2>3 DEF MarksMatch
  <2>5. \A u \in Revalidators : ~ destroyed => task[u].name # task[w].name
    BY <1>2 DEF MarksMatch
  <2>6. OneRevalidation'
    BY <1>0, <2>1, <2>2, <2>3, <2>5 DEF OneRevalidation
  <2> QED
    BY <2>4, <2>6
<1> QED
  BY <1>1, <1>2

\* A worker that ends was the only one of its name, which it unmarks.
LEMMA MarksEnd ==
  ASSUME TypeOK, MarksMatch, OneRevalidation, NEW w \in Worker,
         task[w].pc = "revalidating", task' = [task EXCEPT ![w] = Ready],
         revalidating' = Unmarked(w), destroyed' = destroyed
  PROVE  MarksMatch' /\ OneRevalidation'
<1>1. Revalidators' = Revalidators \ {w} /\ w \in Revalidators
  BY ReadyTyped DEF Revalidators, TypeOK
<1>2. \A u \in Revalidators \ {w} : task'[u] = task[u]
  BY DEF TypeOK, Revalidators
<1>3. revalidating' = revalidating \ {task[w].name}
  BY DEF Unmarked
<1> QED
  BY <1>1, <1>2, <1>3 DEF MarksMatch, OneRevalidation

LEMMA MarksStep == TypeOK /\ MarksMatch /\ OneRevalidation /\ [Next]_vars => MarksMatch' /\ OneRevalidation'
<1> SUFFICES ASSUME TypeOK, MarksMatch, OneRevalidation, [Next]_vars
             PROVE  MarksMatch' /\ OneRevalidation'
  OBVIOUS
<1>1. ASSUME NEW r \in Request, NEW t, task' = [task EXCEPT ![r] = t] \/ task' = task,
             UNCHANGED <<revalidating, destroyed>>
      PROVE  MarksMatch' /\ OneRevalidation'
  BY <1>1, MarksKept, ActorAssumption DEF TypeOK
<1>2. ASSUME NEW r \in Request, NEW n \in Name, Hit(r, n) \/ StaleHit(r, n)
      PROVE  MarksMatch' /\ OneRevalidation'
  <2>1. n \in Cached /\ Send(r, n, cache[n]) /\ UNCHANGED <<revalidating, destroyed>>
    BY <1>2 DEF Hit, StaleHit
  <2>2. cache[n] \in Entry
    BY <2>1 DEF Cached, TypeOK
  <2> QED
    BY <1>1, <2>1, <2>2, SendTyped
<1>3. ASSUME NEW r \in Request, NEW n \in Name, Miss(r, n) \/ Refresh(r, n)
      PROVE  MarksMatch' /\ OneRevalidation'
  BY <1>1, <1>3 DEF Miss, Refresh, Begins, Turns
<1>4. ASSUME NEW r \in Request, NEW n \in Name, NEW w \in Worker, StaleHitCreates(r, n, w)
      PROVE  MarksMatch' /\ OneRevalidation'
  <2>1. /\ task[w].pc = "ready" /\ UNCHANGED <<revalidating, destroyed>>
        /\ \/ task' = [task EXCEPT ![w] = Created(n)]
           \/ \E p : task' = [task EXCEPT ![w] = Created(n), ![r] = Sending(n, p)]
    BY <1>4 DEF StaleHitCreates, Turns
  <2>2. task'[w].pc = "created" /\ \A u \in Worker \ {w} : task'[u] = task[u]
    BY <2>1, ActorAssumption DEF TypeOK, Created
  <2> QED
    BY <2>1, <2>2, MarksKept
<1>5. ASSUME NEW a \in Actor, Lookup(a)
      PROVE  MarksMatch' /\ OneRevalidation'
  <2>1. /\ task[a].pc \in {"resolving", "refreshing", "revalidating"}
        /\ revalidating' = Unmarked(a) /\ destroyed' = destroyed
    BY <1>5 DEF Lookup, Resolved, Failed, Resolving
  <2>2. CASE a \in Request
    <3>1. task[a].pc # "revalidating"
      BY <2>2 DEF TypeOK, Kinds
    <3>2. revalidating' = revalidating
      BY <2>1, <3>1 DEF Unmarked
    <3>3. \E t : task' = [task EXCEPT ![a] = t] \/ task' = task
      BY <1>5 DEF Lookup, Resolved, Failed, Send, Ends, Turns
    <3> QED
      BY <1>1, <2>1, <2>2, <3>2, <3>3
  <2>3. CASE a \in Worker
    <3>1. task[a].pc = "revalidating"
      BY <2>1, <2>3 DEF TypeOK, Kinds
    <3>2. task' = [task EXCEPT ![a] = Ready]
      BY <1>5, <3>1 DEF Lookup, Resolved, Failed, Ends, Turns
    <3> QED
      BY <2>1, <2>3, <3>1, <3>2, MarksEnd
  <2> QED
    BY <2>2, <2>3
<1>6. ASSUME NEW r \in Request, Finish(r)
      PROVE  MarksMatch' /\ OneRevalidation'
  BY <1>1, <1>6 DEF Finish, Respond, Error, Cancel, Ends, Turns
<1>7. ASSUME UNCHANGED <<revalidating, task, destroyed>>
      PROVE  MarksMatch' /\ OneRevalidation'
  BY <1>7, MarksKept
<1>8. CASE Destroy
  BY <1>8 DEF Destroy, MarksMatch, OneRevalidation
<1>9. CASE Clear \/ Move \/ UNCHANGED vars
  BY <1>7, <1>9 DEF Clear, Move, vars
<1>10. ASSUME NEW n \in Name, OfName(n)
       PROVE  MarksMatch' /\ OneRevalidation'
  BY <1>7, <1>10 DEF OfName, Invalidate, Age, MarkHealthy
<1> QED
  BY <1>2, <1>3, <1>4, <1>5, <1>6, <1>8, <1>9, <1>10, MarksBegin
  DEF Next, Ask

-----------------------------------------------------------------------------
(* The connection counts.                                                  *)

OthersStay(r) == \A q \in Request \ {r} : task'[q] = task[q]

LEMMA SentFinite ==
  ASSUME NEW e
  PROVE  IsFiniteSet(Sent(e)) /\ Cardinality(Sent(e)) \in Nat
<1>1. Sent(e) \subseteq Request
  BY DEF Sent
<1> QED
  BY <1>1, ActorAssumption, FS_Subset, FS_CardinalityType

LEMMA CountsKept ==
  ASSUME ConnectionsExact, active' = active,
         \A r \in Request : task'[r].pc = "sending" \/ task[r].pc = "sending" => task'[r] = task[r]
  PROVE  ConnectionsExact'
<1>1. \A e \in Endpoint : Sent(e)' = Sent(e)
  BY DEF Sent
<1> QED
  BY <1>1 DEF ConnectionsExact

\* A request that is sent is one more at its endpoint.
LEMMA CountsEnter ==
  ASSUME TypeOK, ConnectionsExact, NEW r \in Request, NEW p \in Endpoint,
         task[r].pc # "sending", task'[r].pc = "sending", task'[r].at = p,
         OthersStay(r), active' = Counted(p)
  PROVE  ConnectionsExact'
<1> SUFFICES ASSUME NEW e \in Endpoint PROVE active'[e] = Cardinality(Sent(e)')
  BY DEF ConnectionsExact
<1>1. active[e] = Cardinality(Sent(e))
  BY DEF ConnectionsExact
<1>2. CASE e = p
  <2>1. Sent(e)' = Sent(e) \cup {r} /\ r \notin Sent(e)
    BY <1>2 DEF Sent, OthersStay
  <2>2. Cardinality(Sent(e)') = Cardinality(Sent(e)) + 1
    BY <2>1, SentFinite, FS_AddElement
  <2> QED
    BY <1>1, <1>2, <2>2 DEF Counted, TypeOK
<1>3. CASE e # p
  <2>1. Sent(e)' = Sent(e)
    BY <1>3 DEF Sent, OthersStay
  <2> QED
    BY <1>1, <1>3, <2>1 DEF Counted, TypeOK
<1> QED
  BY <1>2, <1>3

\* A request that ends was counted, so that its count is not lost at zero.
LEMMA CountsLeave ==
  ASSUME TypeOK, ConnectionsExact, NEW r \in Request,
         task[r].pc = "sending", task'[r].pc # "sending", OthersStay(r), CountOut(r)
  PROVE  ConnectionsExact'
<1> SUFFICES ASSUME NEW e \in Endpoint PROVE active'[e] = Cardinality(Sent(e)')
  BY DEF ConnectionsExact
<1>1. active[e] = Cardinality(Sent(e)) /\ active[e] \in Nat
  BY DEF ConnectionsExact, TypeOK
<1>2. CASE e = task[r].at
  <2>1. Sent(e)' = Sent(e) \ {r} /\ r \in Sent(e)
    BY <1>2 DEF Sent, OthersStay
  <2>2. Cardinality(Sent(e)') = Cardinality(Sent(e)) - 1 /\ IsFiniteSet(Sent(e)')
    BY <2>1, SentFinite, FS_RemoveElement
  <2>3. Cardinality(Sent(e)') \in Nat
    BY <2>2, FS_CardinalityType
  <2>4. active[e] > 0
    BY <1>1, <2>2, <2>3
  <2>5. active'[e] = active[e] - 1
    BY <1>2, <2>4 DEF CountOut, TypeOK
  <2> QED
    BY <1>1, <2>2, <2>5
<1>3. CASE e # task[r].at
  <2>1. Sent(e)' = Sent(e)
    BY <1>3 DEF Sent, OthersStay
  <2> QED
    BY <1>1, <1>3, <2>1 DEF CountOut, TypeOK
<1> QED
  BY <1>2, <1>3

\* Where an entry sends a request that was not under way.
LEMMA CountsSend ==
  ASSUME TypeOK, ConnectionsExact, NEW r \in Request, NEW n \in Name, NEW e \in Entry,
         Send(r, n, e), task[r].pc # "sending"
  PROVE  ConnectionsExact'
<1>1. CASE task' = task /\ active' = active
  BY <1>1, CountsKept
<1>2. ASSUME NEW p \in Endpoint, task' = [task EXCEPT ![r] = Sending(n, p)], active' = Counted(p)
      PROVE  ConnectionsExact'
  <2>1. task'[r].pc = "sending" /\ task'[r].at = p /\ OthersStay(r)
    BY <1>2 DEF Sending, OthersStay, TypeOK
  <2> QED
    BY <1>2, <2>1, CountsEnter
<1> QED
  BY <1>1, <1>2, SendTyped

LEMMA CountsStep == TypeOK /\ ConnectionsExact /\ [Next]_vars => ConnectionsExact'
<1> SUFFICES ASSUME TypeOK, ConnectionsExact, [Next]_vars PROVE ConnectionsExact'
  OBVIOUS
<1>1. ASSUME NEW a \in Actor, NEW t, task' = [task EXCEPT ![a] = t], active' = active,
             t.pc # "sending", a \in Request => task[a].pc # "sending"
      PROVE  ConnectionsExact'
  BY <1>1, CountsKept DEF TypeOK
<1>2. ASSUME NEW r \in Request, NEW n \in Name, Hit(r, n) \/ StaleHit(r, n)
      PROVE  ConnectionsExact'
  <2>1. n \in Cached /\ Send(r, n, cache[n]) /\ task[r].pc # "sending"
    BY <1>2 DEF Hit, StaleHit
  <2>2. cache[n] \in Entry
    BY <2>1 DEF Cached, TypeOK
  <2> QED
    BY <2>1, <2>2, CountsSend
<1>3. ASSUME NEW r \in Request, NEW n \in Name, NEW w \in Worker, StaleHitCreates(r, n, w)
      PROVE  ConnectionsExact'
  <2>1. /\ n \in Cached /\ task[r].pc = "ready" /\ r # w
        /\ Created(n).pc # "sending"
    BY <1>3, ActorAssumption DEF StaleHitCreates, Created
  <2>2. CASE task' = [task EXCEPT ![w] = Created(n)] /\ active' = active
    BY <1>1, <2>1, <2>2, ActorAssumption
  <2>3. ASSUME NEW p \in Selectable(cache[n]),
               task' = [task EXCEPT ![w] = Created(n), ![r] = Sending(n, p)], active' = Counted(p)
        PROVE  ConnectionsExact'
    <3>1. p \in Endpoint
      BY <2>1, SelectTyped DEF Cached, TypeOK
    <3>2. task'[r].pc = "sending" /\ task'[r].at = p /\ OthersStay(r)
      BY <2>1, <2>3, ActorAssumption DEF Sending, OthersStay, TypeOK
    <3> QED
      BY <2>1, <2>3, <3>1, <3>2, CountsEnter
  <2> QED
    BY <1>3, <2>2, <2>3 DEF StaleHitCreates, Turns
<1>4. ASSUME NEW r \in Request, NEW n \in Name, Miss(r, n) \/ Refresh(r, n)
      PROVE  ConnectionsExact'
  BY <1>1, <1>4 DEF Miss, Refresh, Begins, Turns
<1>5. ASSUME NEW w \in Worker, StartWorker(w)
      PROVE  ConnectionsExact'
  BY <1>1, <1>5, ReadyTyped, ActorAssumption DEF StartWorker, Begins, Ends, Turns
<1>6. ASSUME NEW a \in Actor, Lookup(a)
      PROVE  ConnectionsExact'
  <2>1. task[a].pc \in {"resolving", "refreshing", "revalidating"} /\ task[a].name \in Name
    BY <1>6 DEF Lookup, Resolved, Failed, Resolving, TypeOK, Task
  <2>2. CASE Ends(a) /\ active' = active
    BY <1>1, <2>1, <2>2, ReadyTyped DEF Ends, Turns
  <2>3. ASSUME NEW v \in task[a].began .. dns, task[a].pc = "resolving",
               Send(a, task[a].name, [answer |-> v, failed |-> FALSE, age |-> "fresh",
                                      sick |-> {}, late |-> a \in late])
        PROVE  ConnectionsExact'
    <3>1. a \in Request
      BY <2>3, KindsMean
    <3>2. v \in Version
      BY BoundAssumption DEF TypeOK, Task
    <3>3. [answer |-> v, failed |-> FALSE, age |-> "fresh", sick |-> {}, late |-> a \in late] \in Entry
      BY <3>2 DEF Entry
    <3> QED
      BY <2>1, <2>3, <3>1, <3>3, CountsSend
  <2> QED
    BY <1>6, <2>2, <2>3 DEF Lookup, Resolved, Failed
<1>7. ASSUME NEW r \in Request, Finish(r)
      PROVE  ConnectionsExact'
  <2>1. task' = [task EXCEPT ![r] = Ready]
    BY <1>7 DEF Finish, Respond, Error, Cancel, Ends, Turns
  <2>2. CASE task[r].pc = "sending" /\ CountOut(r)
    <3>1. task'[r].pc # "sending" /\ OthersStay(r)
      BY <2>1, ReadyTyped DEF OthersStay, TypeOK
    <3> QED
      BY <2>2, <3>1, CountsLeave
  <2>3. CASE task[r].pc # "sending" /\ active' = active
    BY <1>1, <2>1, <2>3, ReadyTyped
  <2> QED
    BY <1>7, <2>2, <2>3 DEF Finish, Respond, Error, Cancel
<1>8. ASSUME UNCHANGED <<active, task>>
      PROVE  ConnectionsExact'
  BY <1>8, CountsKept
<1>9. ASSUME NEW n \in Name, OfName(n)
      PROVE  ConnectionsExact'
  BY <1>8, <1>9 DEF OfName, Invalidate, Age, MarkHealthy
<1>10. CASE Clear \/ Destroy \/ Move \/ UNCHANGED vars
  BY <1>8, <1>10 DEF Clear, Destroy, Move, vars
<1> QED
  BY <1>2, <1>3, <1>4, <1>5, <1>6, <1>7, <1>9, <1>10 DEF Next, Ask

-----------------------------------------------------------------------------
(* Which answers go back.                                                  *)

UnderWay == {"resolving", "refreshing", "revalidating"}

\* Resolutions go on, or end.
LEMMA BeganKept ==
  ASSUME TypeOK, TypeOK', BeganAbove, floor' = floor, dns <= dns',
         \A b \in Actor : task'[b].pc \in UnderWay =>
             /\ task'[b].pc = task[b].pc /\ task'[b].name = task[b].name
             /\ task'[b].began = task[b].began
             /\ b \in late => b \in late'
  PROVE  BeganAbove'
<1>1. \A n \in Name : floor'[n] <= dns'
  BY BoundAssumption DEF BeganAbove, TypeOK
<1>2. ASSUME NEW n \in Name, NEW a \in Resolving(n)'
      PROVE  task'[a].began <= dns' /\ (a \notin late' => floor'[n] <= task'[a].began)
  <2>1. a \in Resolving(n) /\ task'[a].began = task[a].began /\ (a \in late => a \in late')
    BY <1>2 DEF Resolving, UnderWay
  <2>2. task[a].began \in Int
    BY <2>1, BoundAssumption DEF Resolving, TypeOK, Task
  <2> QED
    BY <2>1, <2>2, BoundAssumption DEF BeganAbove, TypeOK
<1> QED
  BY <1>1, <1>2 DEF BeganAbove

LEMMA BeganBegins ==
  ASSUME TypeOK, TypeOK', BeganAbove, NEW a \in Actor, NEW n \in Name, NEW s,
         Begins(a, n, s), UNCHANGED <<dns, floor>>
  PROVE  BeganAbove'
<1>1. /\ task'[a].name = n /\ task'[a].began = dns
      /\ \A b \in Actor \ {a} : task'[b] = task[b] /\ (b \in late' <=> b \in late)
  BY DEF Begins, Turns, TypeOK
<1>2. ASSUME NEW m \in Name, NEW b \in Resolving(m)'
      PROVE  task'[b].began <= dns' /\ (b \notin late' => floor'[m] <= task'[b].began)
  <2>1. CASE b = a
    BY <1>1, <1>2, <2>1, BoundAssumption DEF Resolving, BeganAbove, TypeOK
  <2>2. CASE b # a
    BY <1>1, <1>2, <2>2 DEF Resolving, BeganAbove
  <2> QED
    BY <2>1, <2>2
<1> QED
  BY <1>2 DEF BeganAbove

LEMMA BeganDrop ==
  ASSUME TypeOK, TypeOK', BeganAbove, NEW S \in SUBSET Name, Drop(S), UNCHANGED <<dns, task>>
  PROVE  BeganAbove'
<1>1. \A n \in Name : floor'[n] = IF n \in S THEN dns ELSE floor[n]
  BY DEF Drop
<1>2. \A n \in Name : Resolving(n)' = Resolving(n) /\ (n \in S => Resolving(n) \subseteq late')
  BY DEF Drop, Resolving
<1>3. late \subseteq late'
  BY DEF Drop
<1> QED
  BY <1>1, <1>2, <1>3, BoundAssumption DEF BeganAbove, TypeOK

\* An answer that comes in makes the other resolutions of its name late.
LEMMA BeganResolved ==
  ASSUME TypeOK, TypeOK', BeganAbove, NEW a \in Actor, Resolved(a)
  PROVE  BeganAbove'
<1> DEFINE n == task[a].name
<1>1. PICK v \in task[a].began .. dns : floor' = [floor EXCEPT ![n] = Raised(n, v)]
  BY DEF Resolved
<1>2. /\ n \in Name /\ a \in Resolving(n) /\ dns' = dns
      /\ late' = (late \cup Resolving(n)) \ {a}
  BY DEF Resolved, TypeOK, Task
<1>3. \A m \in Name : floor'[m] <= dns'
  BY <1>1, <1>2, BoundAssumption DEF Raised, BeganAbove, TypeOK, Task
<1>4. task'[a].pc \notin UnderWay /\ \A b \in Actor \ {a} : task'[b] = task[b]
  BY <1>2, ReadyTyped DEF Resolved, Send, Sending, Ends, Turns, TypeOK, UnderWay
<1>5. ASSUME NEW m \in Name, NEW b \in Resolving(m)'
      PROVE  task'[b].began <= dns' /\ (b \notin late' => floor'[m] <= task'[b].began)
  <2>1. b # a /\ b \in Resolving(m) /\ task'[b] = task[b]
    BY <1>4, <1>5 DEF Resolving, UnderWay
  <2>2. CASE m = n
    BY <1>2, <2>1, <2>2 DEF BeganAbove
  <2>3. CASE m # n
    <3>1. floor'[m] = floor[m]
      BY <1>1, <2>3 DEF TypeOK
    <3>2. b \in late' <=> b \in late
      BY <1>2, <2>1, <2>3 DEF Resolving
    <3> QED
      BY <1>2, <2>1, <3>1, <3>2 DEF BeganAbove
  <2> QED
    BY <2>2, <2>3
<1> QED
  BY <1>3, <1>5 DEF BeganAbove

LEMMA BeganStep == TypeOK /\ TypeOK' /\ BeganAbove /\ [Next]_vars => BeganAbove'
<1> SUFFICES ASSUME TypeOK, TypeOK', BeganAbove, [Next]_vars PROVE BeganAbove'
  OBVIOUS
<1>0. dns \in Int /\ dns <= dns
  BY BoundAssumption DEF TypeOK
<1>1. ASSUME NEW a \in Actor, NEW t, task' = [task EXCEPT ![a] = t] \/ task' = task,
             t.pc \notin UnderWay, UNCHANGED <<dns, floor>>, late \ {a} \subseteq late',
             task' = task => late' = late
      PROVE  BeganAbove'
  BY <1>0, <1>1, BeganKept DEF TypeOK
<1>2. ASSUME NEW r \in Request, NEW n \in Name, Hit(r, n) \/ StaleHit(r, n)
      PROVE  BeganAbove'
  <2>1. Send(r, n, cache[n]) /\ UNCHANGED <<dns, floor, late>>
    BY <1>2 DEF Hit, StaleHit, history
  <2>2. PICK p : task' = task \/ task' = [task EXCEPT ![r] = Sending(n, p)]
    BY <2>1 DEF Send, Turns
  <2>3. Sending(n, p).pc \notin UnderWay
    BY DEF Sending, UnderWay
  <2> QED
    BY <1>1, <2>1, <2>2, <2>3
<1>3. ASSUME NEW r \in Request, NEW n \in Name, NEW w \in Worker, StaleHitCreates(r, n, w)
      PROVE  BeganAbove'
  <2>1. /\ UNCHANGED <<dns, floor, late>>
        /\ \/ task' = [task EXCEPT ![w] = Created(n)]
           \/ \E p : task' = [task EXCEPT ![w] = Created(n), ![r] = Sending(n, p)]
    BY <1>3 DEF StaleHitCreates, Turns, history
  <2>2. \A b \in Actor : task'[b].pc \in UnderWay => task'[b] = task[b]
    BY <2>1 DEF TypeOK, Created, Sending, UnderWay
  <2> QED
    BY <1>0, <2>1, <2>2, BeganKept
<1>4. ASSUME NEW r \in Request, NEW n \in Name, Miss(r, n) \/ Refresh(r, n)
      PROVE  BeganAbove'
  BY <1>4, BeganBegins DEF Miss, Refresh
<1>5. ASSUME NEW w \in Worker, StartWorker(w)
      PROVE  BeganAbove'
  <2>1. task[w].name \in Name /\ UNCHANGED <<dns, floor>>
    BY <1>5 DEF StartWorker, TypeOK, Task
  <2>2. CASE Begins(w, task[w].name, "revalidating")
    BY <2>1, <2>2, BeganBegins
  <2>3. CASE task' = [task EXCEPT ![w] = Ready] /\ late' = late
    BY <1>1, <2>1, <2>3, ReadyTyped DEF UnderWay
  <2> QED
    BY <1>5, <2>2, <2>3 DEF StartWorker, Ends, Turns
<1>6. ASSUME NEW a \in Actor, Failed(a)
      PROVE  BeganAbove'
  <2>1. task' = [task EXCEPT ![a] = Ready] /\ late' = late \ {a} /\ UNCHANGED <<dns, floor>>
    BY <1>6 DEF Failed, Ends, Turns
  <2> QED
    BY <1>0, <2>1, BeganKept, ReadyTyped DEF TypeOK, UnderWay
<1>7. ASSUME NEW r \in Request, Finish(r)
      PROVE  BeganAbove'
  <2>1. /\ task' = [task EXCEPT ![r] = Ready] /\ UNCHANGED <<dns, floor>>
        /\ late' = late \/ late' = late \ {r}
    BY <1>7 DEF Finish, Respond, Error, Cancel, Ends, Turns, history
  <2> QED
    BY <1>0, <2>1, BeganKept, ReadyTyped DEF TypeOK, UnderWay
<1>8. ASSUME UNCHANGED <<dns, task, history>>
      PROVE  BeganAbove'
  BY <1>0, <1>8, BeganKept DEF history
<1>9. ASSUME NEW n \in Name, OfName(n)
      PROVE  BeganAbove'
  <2>1. CASE Invalidate(n)
    <3>1. {n} \in SUBSET Name
      OBVIOUS
    <3> QED
      BY <2>1, <3>1, BeganDrop DEF Invalidate
  <2> QED
    BY <1>8, <1>9, <2>1 DEF OfName, Age, MarkHealthy
<1>10. CASE Clear \/ Destroy
  <2>1. Cached \in SUBSET Name
    BY DEF Cached
  <2> QED
    BY <1>10, <2>1, BeganDrop DEF Clear, Destroy
<1>11. CASE Move
  <2>1. dns <= dns' /\ UNCHANGED <<task, floor, late>>
    BY <1>0, <1>11 DEF Move, history
  <2> QED
    BY <2>1, BeganKept
<1>12. CASE UNCHANGED vars
  BY <1>8, <1>12 DEF vars
<1> QED
  BY <1>2, <1>3, <1>4, <1>5, <1>6, <1>7, <1>9, <1>10, <1>11, <1>12, BeganResolved
  DEF Next, Ask, Lookup

\* Entries that stay what they are, but for their age and health marks.
LEMMA OverlapKept ==
  ASSUME OnlyOverlapGoesBack, floor' = floor,
         \A n \in Cached' :
           cache'[n].failed \/ (/\ n \in Cached /\ cache'[n].failed = cache[n].failed
                                /\ cache'[n].answer = cache[n].answer
                                /\ cache'[n].late = cache[n].late)
  PROVE  OnlyOverlapGoesBack'
<1>1. Cached' \subseteq Name
  BY DEF Cached
<1> QED
  BY <1>1 DEF OnlyOverlapGoesBack

LEMMA OverlapDrop ==
  ASSUME OnlyOverlapGoesBack, NEW S \in SUBSET Name, Drop(S)
  PROVE  OnlyOverlapGoesBack'
<1>1. \A n \in Cached' : n \in Cached /\ cache'[n] = cache[n] /\ floor'[n] = floor[n]
  BY DEF Drop, Cached
<1> QED
  BY <1>1 DEF OnlyOverlapGoesBack

\* A resolution that nothing overtook brings an answer at the floor or above.
LEMMA OverlapResolved ==
  ASSUME TypeOK, BeganAbove, OnlyOverlapGoesBack, NEW a \in Actor, Resolved(a)
  PROVE  OnlyOverlapGoesBack'
<1> DEFINE n == task[a].name
           E(v) == [answer |-> v, failed |-> FALSE, age |-> "fresh", sick |-> {},
                    late |-> a \in late]
<1>1. PICK v \in task[a].began .. dns : Put(n, E(v)) /\ floor' = [floor EXCEPT ![n] = Raised(n, v)]
  BY DEF Resolved
<1>2. n \in Name /\ a \in Resolving(n)
  BY DEF Resolved, TypeOK, Task
<1>3. ASSUME NEW m \in Cached', ~ cache'[m].failed, cache'[m].answer < floor'[m]
      PROVE  cache'[m].late
  <2>1. CASE m = n
    <3>1. cache'[n] = E(v)
      BY <1>1, <1>2 DEF Put
    <3>2. v \in Int /\ floor[n] \in Int /\ floor'[n] = Raised(n, v)
      BY <1>1, <1>2, BoundAssumption DEF TypeOK, Task
    <3>3. v < Raised(n, v)
      <4>1. E(v).answer = v /\ cache'[m] = E(v) /\ floor'[m] = Raised(n, v)
        BY <2>1, <3>1, <3>2
      <4>2. floor'[m] \in Int
        BY <3>2, <4>1 DEF Raised
      <4> HIDE DEF E
      <4> QED
        BY <1>3, <4>1
    <3>4. a \in late
      BY <1>1, <1>2, <3>2, <3>3, BoundAssumption DEF Raised, BeganAbove, TypeOK, Task
    <3>5. E(v).late
      BY <3>4
    <3> HIDE DEF E
    <3> QED
      BY <2>1, <3>1, <3>5
  <2>2. CASE m # n
    <3>1. m \in Cached /\ cache'[m] = cache[m] /\ floor'[m] = floor[m]
      BY <1>1, <1>3, <2>2 DEF Put, Cached, TypeOK
    <3> QED
      BY <1>3, <3>1 DEF OnlyOverlapGoesBack
  <2> QED
    BY <2>1, <2>2
<1> QED
  BY <1>3 DEF OnlyOverlapGoesBack

LEMMA OverlapStep ==
  TypeOK /\ BeganAbove /\ OnlyOverlapGoesBack /\ [Next]_vars => OnlyOverlapGoesBack'
<1> SUFFICES ASSUME TypeOK, BeganAbove, OnlyOverlapGoesBack, [Next]_vars
             PROVE  OnlyOverlapGoesBack'
  OBVIOUS
<1>1. ASSUME UNCHANGED <<cache, floor>>
      PROVE  OnlyOverlapGoesBack'
  BY <1>1 DEF OnlyOverlapGoesBack, Cached
<1>2. ASSUME NEW r \in Request, NEW n \in Name, Ask(r, n)
      PROVE  OnlyOverlapGoesBack'
  BY <1>1, <1>2 DEF Ask, Hit, StaleHit, StaleHitCreates, Miss, Refresh, history, cacheVars
<1>3. ASSUME NEW w \in Worker, StartWorker(w)
      PROVE  OnlyOverlapGoesBack'
  BY <1>1, <1>3 DEF StartWorker, cacheVars
<1>4. ASSUME NEW a \in Actor, Failed(a)
      PROVE  OnlyOverlapGoesBack'
  <2>1. CASE Put(task[a].name, Nothing) /\ floor' = floor
    <3>1. \A n \in Cached' : cache'[n] = Nothing \/ (n \in Cached /\ cache'[n] = cache[n])
      BY <2>1 DEF Put, Cached
    <3> QED
      BY <2>1, <3>1, OverlapKept DEF Nothing
  <2>2. CASE UNCHANGED <<cache, floor>>
    BY <1>1, <2>2
  <2> QED
    BY <1>4, <2>1, <2>2 DEF Failed, cacheVars
<1>5. ASSUME NEW n, NEW S, n \in Cached, cache' = [cache EXCEPT ![n].sick = S], floor' = floor
      PROVE  OnlyOverlapGoesBack'
  <2>1. cache[n] \in Entry /\ n \in Name
    BY <1>5 DEF Cached, TypeOK
  <2>2. [cache[n] EXCEPT !.sick = S].failed = cache[n].failed
        /\ [cache[n] EXCEPT !.sick = S].answer = cache[n].answer
        /\ [cache[n] EXCEPT !.sick = S].late = cache[n].late
    BY <2>1 DEF Entry
  <2> QED
    BY <1>5, <2>1, <2>2, OverlapKept DEF Cached, TypeOK
<1>6. ASSUME NEW r \in Request, Finish(r)
      PROVE  OnlyOverlapGoesBack'
  <2>1. CASE Error(r)
    BY <1>1, <1>5, <2>1 DEF Error, Mark, history
  <2> QED
    BY <1>1, <1>6, <2>1 DEF Finish, Respond, Cancel, history, cacheVars
<1>7. ASSUME NEW n \in Name, OfName(n)
      PROVE  OnlyOverlapGoesBack'
  <2>1. CASE Invalidate(n)
    <3>1. {n} \in SUBSET Name
      OBVIOUS
    <3> QED
      BY <2>1, <3>1, OverlapDrop DEF Invalidate
  <2>2. CASE Age(n)
    <3>1. n \in Cached /\ cache[n] \in Entry /\ floor' = floor
      BY <2>2 DEF Age, Cached, TypeOK, history
    <3>2. PICK g : cache' = [cache EXCEPT ![n].age = g]
      BY <2>2 DEF Age
    <3>3. [cache[n] EXCEPT !.age = g].failed = cache[n].failed
          /\ [cache[n] EXCEPT !.age = g].answer = cache[n].answer
          /\ [cache[n] EXCEPT !.age = g].late = cache[n].late
      BY <3>1 DEF Entry
    <3> QED
      BY <3>1, <3>2, <3>3, OverlapKept DEF Cached, TypeOK
  <2>3. ASSUME NEW e \in Endpoint, MarkHealthy(n, e)
        PROVE  OnlyOverlapGoesBack'
    BY <1>5, <2>3 DEF MarkHealthy, history
  <2> QED
    BY <1>7, <2>1, <2>2, <2>3 DEF OfName
<1>8. CASE Clear \/ Destroy
  <2>1. Cached \in SUBSET Name
    BY DEF Cached
  <2> QED
    BY <1>8, <2>1, OverlapDrop DEF Clear, Destroy
<1>9. CASE Move \/ UNCHANGED vars
  BY <1>1, <1>9 DEF Move, vars, history, cacheVars
<1> QED
  BY <1>2, <1>3, <1>4, <1>6, <1>7, <1>8, <1>9, OverlapResolved DEF Next, Lookup

-----------------------------------------------------------------------------
(* The theorems.                                                           *)

LEMMA InvInit == Init => IInv
<1> SUFFICES ASSUME Init PROVE IInv
  OBVIOUS
<1>1. TypeOK
  BY TypeInit
<1>2. \A a \in Actor : task[a].pc = "ready"
  BY ReadyTyped DEF Init
<1>3. MarksMatch /\ OneRevalidation
  BY <1>2 DEF Init, MarksMatch, OneRevalidation, Revalidators
<1>4. ConnectionsExact
  <2>1. \A e \in Endpoint : Sent(e) = {}
    BY <1>2 DEF Sent
  <2> QED
    BY <2>1, FS_EmptySet DEF Init, ConnectionsExact
<1>5. BeganAbove
  BY <1>1, <1>2, BoundAssumption DEF Init, BeganAbove, Resolving
<1>6. OnlyOverlapGoesBack
  BY DEF Init, OnlyOverlapGoesBack, Cached
<1> QED
  BY <1>1, <1>3, <1>4, <1>5, <1>6 DEF IInv

\* The invariant behind the following theorems is inductive: types, the names
\* in _revalidating, the connection counts, and when resolutions began.
THEOREM Inductive == Spec => []IInv
<1>1. IInv /\ [Next]_vars => IInv'
  BY TypeStep, MarksStep, CountsStep, BeganStep, OverlapStep DEF IInv
<1> QED
  BY <1>1, InvInit, PTL DEF Spec

\* Until destroy(), at most one background resolution runs per name.
THEOREM OneRevalidationAtATime == Spec => []OneRevalidation
<1>1. IInv => OneRevalidation
  BY DEF IInv
<1> QED
  BY <1>1, Inductive, PTL

\* The connection counts are the requests under way at each endpoint.
THEOREM CountsAreExact == Spec => []ConnectionsExact
<1>1. IInv => ConnectionsExact
  BY DEF IInv
<1> QED
  BY <1>1, Inductive, PTL

\* An answer goes back, or comes back, only from an overlapping resolution.
THEOREM AnswersGoForward == Spec => []OnlyOverlapGoesBack
<1>1. IInv => OnlyOverlapGoesBack
  BY DEF IInv
<1> QED
  BY <1>1, Inductive, PTL
=============================================================================
