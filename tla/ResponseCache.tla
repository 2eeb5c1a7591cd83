---------------------------- MODULE ResponseCache ----------------------------
(***************************************************************************)
(* ResponseCache of packages_py/cache_response over its MemoryCacheStore,  *)
(* and CacheResponseTransport, which answers requests from it.             *)
(*                                                                         *)
(* The store is synchronous, so a task suspends only at the inner          *)
(* transport.  The origin server is external: what is at its URLs moves on *)
(* through versions, and a response is one that was right at some time     *)
(* while the request was under way.  Keys are URLs, which stand for GET.   *)
(***************************************************************************)
EXTENDS Integers, FiniteSets, Sequences, FiniteSetsExt

CONSTANTS
  Request,       \* tasks that call handle_async_request
  Worker,        \* background tasks: a bounded supply of _revalidate
  Url,
  Variant,       \* values of the request header that responses vary on
  Bare,          \* the one of them that stands for a request without the header
  Varies,        \* URLs whose responses name that header in Vary
  Anyone,        \* in place of a variant: for every request
  MaxVersion,    \* bound: how often the origin moves on
  Weight,        \* [Version -> bytes of an entry with it]
  MaxSize, MaxEntries, MaxEntrySize,
  OwnTags,       \* whether requests bring an If-None-Match of their own
  Events,        \* what else happens, of AllEvents
  NoEntry, NoTag, Idle

AllEvents == {"raise", "invalidate", "clear", "close"}
Actor     == Request \cup Worker
Version   == 0 .. MaxVersion

ASSUME ActorAssumption  == Request \cap Worker = {}
ASSUME BoundAssumption  == MaxVersion \in Nat /\ MaxSize \in Nat /\ MaxEntrySize \in Nat
\* With max_entries = 0 the eviction raises (stores/memory.py:130).
ASSUME LimitAssumption  == MaxEntries \in Nat \ {0}
ASSUME WeightAssumption == Weight \in [Version -> Nat]
ASSUME VariantAssumption == Bare \in Variant /\ Anyone \notin Variant /\ Varies \subseteq Url
ASSUME EventAssumption  == Events \subseteq AllEvents /\ OwnTags \in BOOLEAN

VARIABLES
  origin,        \* external: the version at the origin
  cache,         \* [Url -> Entry], _cache
  order,         \* the cached URLs, least recently used first
  size,          \* _current_size
  revalidating,  \* _revalidating of the transport
  task,          \* [Actor -> Task]: what each task is doing
  closed,
  \* history, for the properties only:
  floor,         \* the newest version stored, or at the origin when the entry was dropped
  late           \* tasks whose request was under way when floor was set

store   == <<cache, order, size>>
history == <<floor, late>>
vars    == <<origin, store, revalidating, task, closed, history>>

\* A representation of a URL, for the requests with one value of the header or
\* for all; its ETag is the representation itself.
For     == Variant \cup {Anyone}
Content == [version : Version, for : For]
Tag     == Content \cup {NoTag}

\* kind: the Cache-Control it came with has a max-age alone, or a window of
\* stale-while-revalidate or stale-if-error too.
Entry == [content : Content, tag : Tag, kind : {"plain", "window"},
          life : {"fresh", "stale", "dead"}, late : BOOLEAN]

\* "none": no-store, private, an uncacheable status, or expired on arrival.
Kind == {"plain", "window", "none"}

\* A request under way.  for: whom the response will be for; began: the version
\* when it began; tag: its If-None-Match.
Task == [url : Url, for : For, began : Version, tag : Tag]

ASSUME NoneAssumption == NoEntry \notin Entry /\ NoTag \notin Content /\ Idle \notin Task

Init ==
  /\ origin = 0
  /\ cache = [n \in Url |-> NoEntry] /\ order = << >> /\ size = 0
  /\ revalidating = {}
  /\ task = [a \in Actor |-> Idle]
  /\ closed = FALSE
  /\ floor = [n \in Url |-> 0] /\ late = {}

Cached      == {n \in Url : cache[n] # NoEntry}
Busy        == {a \in Actor : task[a] # Idle}
UnderWay(n) == {a \in Busy : task[a].url = n}

-----------------------------------------------------------------------------
(* MemoryCacheStore.                                                       *)

Without(S)  == SelectSeq(order, LAMBDA m : m \notin S)
Bytes(n)    == Weight[cache[n].content.version]
Total(S)    == MapThenSumSet(Bytes, S)
Members(s)  == {s[i] : i \in DOMAIN s}

\* _delete_entry, of every entry of S.
Delete(S) ==
  /\ cache' = [n \in Url |-> IF n \in S THEN NoEntry ELSE cache[n]]
  /\ order' = Without(S)
  /\ size'  = size - Total(S)

\* _evict_if_needed: the oldest go until there is room, or nothing is left.
Survivors(s, need) ==
  LET fits(k) == Total(Members(SubSeq(s, k, Len(s)))) + need <= MaxSize /\ Len(s) - k + 1 < MaxEntries
  IN SubSeq(s, CHOOSE k \in 1 .. Len(s) + 1 :
                 (k = Len(s) + 1 \/ fits(k)) /\ \A j \in 1 .. k - 1 : ~ fits(j), Len(s))

\* set(): what is there is replaced, and room is made.
Put(n, e) ==
  LET need == Weight[e.content.version]
      kept == Survivors(Without({n}), need)
  IN /\ cache' = [m \in Url |-> IF m = n THEN e ELSE IF m \in Members(kept) THEN cache[m] ELSE NoEntry]
     /\ order' = Append(kept, n)
     /\ size'  = Total(Members(kept)) + need

\* get(): an entry past its windows is deleted, another one moves to the end.
Live(n) == n \in Cached /\ cache[n].life # "dead"
Get(n)  ==
  IF n \in Cached /\ ~ Live(n) THEN Delete({n})
  ELSE /\ order' = IF n \in Cached THEN Append(Without({n}), n) ELSE order
       /\ UNCHANGED <<cache, size>>

-----------------------------------------------------------------------------
(* lookup(), and what the transport makes of it.                           *)

\* The header values stored with an entry are those that its request had: none,
\* when the response names no Vary header or the request was without it, and then
\* nothing is compared (cache.py:227).
Suits(n, x) == Live(n) /\ cache[n].content.for \in {x, Anyone, Bare}
OwnTag == IF OwnTags THEN Tag ELSE {NoTag}
Whom(n, x) == IF n \in Varies THEN x ELSE Anyone

\* A free task a sends a request, and lets go of what was late before.
Asks(a, n, x, t) ==
  /\ a \notin Busy
  /\ task' = [task EXCEPT ![a] = [url |-> n, for |-> Whom(n, x), began |-> origin, tag |-> t]]
  /\ late' = late \ {a}
Ends(a) == task' = [task EXCEPT ![a] = Idle]

\* Anybody is served from the cache: fresh, or stale with a background task
\* at work.
Hit(n, x) ==
  /\ Suits(n, x)
  /\ cache[n].life = "fresh" \/ n \in revalidating
  /\ Get(n)
  /\ UNCHANGED <<origin, revalidating, task, closed, history>>

\* Mutated form: a background request is sent whether or not one is under way.
StaleHitUnchecked(n, x, w) ==
  /\ Suits(n, x) /\ cache[n].life = "stale"
  /\ Get(n)
  /\ revalidating' = revalidating \cup {n}
  /\ \E own \in OwnTag : Asks(w, n, x, IF own = NoTag THEN cache[n].tag ELSE own)
  /\ UNCHANGED <<origin, closed, floor>>

\* Served stale; _trigger_background_revalidation creates a task, which asks
\* with the ETag found, unless the request has an If-None-Match of its own.
StaleHit(n, x, w) ==
  /\ Suits(n, x) /\ cache[n].life = "stale" /\ n \notin revalidating
  /\ Get(n)
  /\ revalidating' = revalidating \cup {n}
  /\ \E own \in OwnTag : Asks(w, n, x, IF own = NoTag THEN cache[n].tag ELSE own)
  /\ UNCHANGED <<origin, closed, floor>>

\* Nothing cached that suits.  An expired entry was deleted by get(), so that
\* there is no ETag to ask with, except the request's own.
Miss(r, n, x) ==
  /\ ~ Suits(n, x)
  /\ Get(n)
  /\ \E own \in OwnTag : Asks(r, n, x, own)
  /\ UNCHANGED <<origin, revalidating, closed, floor>>

-----------------------------------------------------------------------------
(* The inner transport answers.                                            *)

Answers(a)  == {[version |-> v, for |-> task[a].for] : v \in task[a].began .. origin}
Unmarked(a) == IF a \in Worker THEN revalidating \ {task[a].url} ELSE revalidating

\* What a response that is kept does to the history.
Overtakes(a, n, v) ==
  /\ floor' = [floor EXCEPT ![n] = IF v > @ THEN v ELSE @]
  /\ late'  = (late \cup UnderWay(n)) \ {a}

\* Mutated form: the new body is stored with the ETag that is there.
StoreKeepsTag(a, n, c, k, t) ==
  IF k = "none" \/ Weight[c.version] > MaxEntrySize
  THEN late' = late \ {a} /\ UNCHANGED <<store, floor>>
  ELSE /\ Put(n, [content |-> c, tag |-> IF n \in Cached THEN cache[n].tag ELSE t, kind |-> k,
                  life |-> "fresh", late |-> a \in late])
       /\ Overtakes(a, n, c.version)

\* store(): what may not be cached, or is too large, leaves the entry alone.
Store(a, n, c, k, t) ==
  IF k = "none" \/ Weight[c.version] > MaxEntrySize
  THEN late' = late \ {a} /\ UNCHANGED <<store, floor>>
  ELSE /\ Put(n, [content |-> c, tag |-> t, kind |-> k, life |-> "fresh", late |-> a \in late])
       /\ Overtakes(a, n, c.version)

\* revalidate(): whatever is cached by now starts anew, with the ETag and the
\* Cache-Control of the 304 where it has them.
Refresh(a, n, c) ==
  IF Live(n)
  THEN \E t \in {c, cache[n].tag}, k \in Kind \cup {cache[n].kind} :
         /\ Put(n, [cache[n] EXCEPT !.tag = t, !.kind = IF k = "none" THEN "plain" ELSE k,
                                    !.life = IF k = "none" THEN "dead" ELSE "fresh",
                                    !.late = @ \/ a \in late])
         /\ Overtakes(a, n, c.version)
  ELSE Get(n) /\ late' = late \ {a} /\ UNCHANGED floor

\* 200, with or without an ETag.
Succeed(a) ==
  /\ a \in Busy
  /\ \E c \in Answers(a) : /\ c # task[a].tag
                           /\ \E k \in Kind, t \in {c, NoTag} : Store(a, task[a].url, c, k, t)
  /\ revalidating' = Unmarked(a)
  /\ Ends(a)
  /\ UNCHANGED <<origin, closed>>

\* 304: a worker refreshes the entry.  To a request that asked with a tag of
\* its own the response is passed on.
NotModified(a) ==
  /\ a \in Busy
  /\ \E c \in Answers(a) :
       /\ c = task[a].tag
       /\ IF a \in Worker THEN Refresh(a, task[a].url, c)
          ELSE late' = late \ {a} /\ UNCHANGED <<store, floor>>
  /\ revalidating' = Unmarked(a)
  /\ Ends(a)
  /\ UNCHANGED <<origin, closed>>

\* The inner transport raises, or the task is cancelled.
Raise(a) ==
  /\ "raise" \in Events /\ a \in Busy
  /\ revalidating' = Unmarked(a)
  /\ Ends(a) /\ late' = late \ {a}
  /\ UNCHANGED <<origin, store, closed, floor>>

-----------------------------------------------------------------------------
(* The application, time, and the world outside.                           *)

Drop(S) ==
  /\ floor' = [n \in Url |-> IF n \in S THEN origin ELSE floor[n]]
  /\ late'  = late \cup UNION {UnderWay(n) : n \in S}

Invalidate(n) ==
  /\ "invalidate" \in Events /\ n \in Cached
  /\ Delete({n}) /\ Drop({n})
  /\ UNCHANGED <<origin, revalidating, task, closed>>

Clear ==
  /\ "clear" \in Events /\ Cached # {}
  /\ cache' = [n \in Url |-> NoEntry] /\ order' = << >> /\ size' = 0
  /\ Drop(Cached)
  /\ UNCHANGED <<origin, revalidating, task, closed>>

\* What is under way goes on, and may still store its response.
Close ==
  /\ "close" \in Events /\ ~ closed
  /\ closed' = TRUE
  /\ cache' = [n \in Url |-> NoEntry] /\ order' = << >> /\ size' = 0
  /\ Drop(Cached)
  /\ UNCHANGED <<origin, revalidating, task>>

\* The cleanup task wakes up.
Cleanup ==
  /\ ~ closed
  /\ \E n \in Cached : ~ Live(n)
  /\ Delete({n \in Cached : ~ Live(n)})
  /\ UNCHANGED <<origin, revalidating, task, closed, history>>

\* Time passes: the lifetime of an entry ends, then its window, if it has one.
Age(n) ==
  /\ Live(n)
  /\ cache' = [cache EXCEPT ![n].life =
                 IF cache[n].life = "fresh" /\ cache[n].kind = "window" THEN "stale" ELSE "dead"]
  /\ UNCHANGED <<origin, order, size, revalidating, task, closed, history>>

Move ==
  /\ origin < MaxVersion
  /\ origin' = origin + 1
  /\ UNCHANGED <<store, revalidating, task, closed, history>>

\* A closed client asks for nothing more.
Ask(n, x) ==
  /\ ~ closed
  /\ \/ Hit(n, x) \/ \E r \in Request : Miss(r, n, x)
     \/ \E w \in Worker : StaleHit(n, x, w)
Answer(a) == Succeed(a) \/ NotModified(a) \/ Raise(a)
OfUrl(n)  == Invalidate(n) \/ Age(n)

Next ==
  \/ \E n \in Url : OfUrl(n) \/ \E x \in Variant : Ask(n, x)
  \/ \E a \in Actor : Answer(a)
  \/ Clear \/ Close \/ Cleanup \/ Move

Spec == Init /\ [][Next]_vars

-----------------------------------------------------------------------------
(* Properties. *)

TypeOK ==
  /\ origin \in Version /\ floor \in [Url -> Version]
  /\ cache \in [Url -> Entry \cup {NoEntry}]
  /\ revalidating \subseteq Url
  /\ task \in [Actor -> Task \cup {Idle}]
  /\ late \subseteq Actor /\ closed \in BOOLEAN

Revalidators == Busy \cap Worker

\* However many callers are served a stale entry, one background request runs
\* for it, and the marks are those of the workers at work.
OneBackground ==
  /\ revalidating = {task[w].url : w \in Revalidators}
  /\ \A u, w \in Revalidators : task[u].url = task[w].url => u = w

\* An entry holds what its ETag stands for, and nothing older than what was
\* stored or known before, unless a request brought or refreshed it that was
\* under way at that time: a 304 refreshes whatever is cached when it arrives.
OnlyOverlapMixes ==
  \A n \in Cached : ~ cache[n].late =>
    cache[n].tag \in {cache[n].content, NoTag} /\ floor[n] <= cache[n].content.version

\* Why: a request that nothing overtook began at the floor or above, and a
\* worker asked with the tag of the entry that is there.
AskedForCached ==
  /\ \A n \in Url : floor[n] <= origin
  /\ \A n \in Url : \A a \in UnderWay(n) \ late :
       /\ floor[n] <= task[a].began
       /\ a \in Worker /\ n \in Cached => task[a].tag = cache[n].tag
  /\ \A n \in Url : \A a \in UnderWay(n) : task[a].began <= origin

=============================================================================
