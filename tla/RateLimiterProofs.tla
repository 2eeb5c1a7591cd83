--------------------------- MODULE RateLimiterProofs ---------------------------
(***************************************************************************)
(* Proofs about RateLimiter, for every value of its constants: Request may *)
(* even be infinite.  The second part is about the transports around the   *)
(* limiter, RequestPath, and does not depend on the first.                 *)
(***************************************************************************)
EXTENDS RateLimiter, RequestPath, FiniteSetTheorems, TLAPS

Spawned   == {r \in Request : job[r] = "spawned"}
Uncounted == {r \in Request : job[r] \in {"spawned", "recording"}}

QueueOK ==
  /\ IsFiniteSet(DOMAIN heap) /\ IsFiniteSet(removed)
  /\ destroyed => DOMAIN heap = {}
  /\ Cardinality(Entries) <= MaxQueue + Cardinality(removed \ DOMAIN heap)

\* With a store that suspends, the processing task lets every task it created
\* start before it takes the next request.
OneAtATime ==
  suspends =>
    /\ \A r, s \in Spawned : r = s
    /\ Cardinality(Jobs) <= Concurrency + 1
    /\ proc \in {"counting", "allowed"} => Cardinality(Jobs) <= Concurrency
    /\ proc = "allowed" => /\ Spawned = {}
                           /\ count + Cardinality(Uncounted) < MaxRequests + Concurrency
    /\ count + Cardinality(Uncounted) <= MaxRequests + Concurrency

\* Nothing is queued or under way for a caller whose fn() ended in CancelledError.
NothingLeft == forsaken \cap (Entries \cup Jobs) = {}

\* The inductive invariant.
IInv ==
  /\ TypeOK /\ QueueOK
  /\ IsFiniteSet(Jobs)
  /\ NoRequestLost
  /\ Entries \cap Jobs = {}
  /\ NothingLeft
  /\ ActiveMatches
  /\ NobodyForgotten
  /\ OneAtATime

-----------------------------------------------------------------------------
(* The priority queue. *)

LEMMA QueueFinite ==
  ASSUME QueueOK
  PROVE  /\ IsFiniteSet(Entries) /\ Cardinality(Entries) \in Nat
         /\ IsFiniteSet(removed \ DOMAIN heap)
         /\ Cardinality(removed \ DOMAIN heap) \in Nat
<1>1. IsFiniteSet(Entries)
  BY FS_Difference DEF QueueOK, Entries
<1>2. IsFiniteSet(removed \ DOMAIN heap)
  BY FS_Difference DEF QueueOK
<1> QED BY <1>1, <1>2, FS_CardinalityType

LEMMA WithoutIs ==
  ASSUME TypeOK, NEW pops
  PROVE  /\ DOMAIN Without(pops) = DOMAIN heap \ pops
         /\ Without(pops) \in [DOMAIN heap \ pops -> Stamps]
BY DEF Without, TypeOK

LEMMA QueueSame ==
  ASSUME QueueOK, UNCHANGED <<heap, removed, destroyed>>
  PROVE  QueueOK' /\ Entries' = Entries
BY DEF QueueOK, Entries

\* No entry is added and no removed id is forgotten that is not popped.
LEMMA QueueShrinks ==
  ASSUME QueueOK, IsFiniteSet(DOMAIN heap'), IsFiniteSet(removed'),
         destroyed' => DOMAIN heap' = {},
         DOMAIN heap' \ removed' \subseteq Entries,
         removed \ DOMAIN heap \subseteq removed' \ DOMAIN heap'
  PROVE  QueueOK'
<1>1. Entries' = DOMAIN heap' \ removed'
  BY DEF Entries
<1>2. Cardinality(Entries') <= Cardinality(Entries) /\ Cardinality(Entries') \in Nat
  BY <1>1, QueueFinite, FS_Subset, FS_CardinalityType
<1>3. IsFiniteSet(removed' \ DOMAIN heap')
  BY FS_Difference
<1>4. /\ Cardinality(removed \ DOMAIN heap) <= Cardinality(removed' \ DOMAIN heap')
      /\ Cardinality(removed' \ DOMAIN heap') \in Nat
  BY <1>3, FS_Subset, FS_CardinalityType
<1>5. Cardinality(Entries') <= MaxQueue + Cardinality(removed' \ DOMAIN heap')
  BY <1>2, <1>4, QueueFinite, LimitAssumption DEF QueueOK
<1> QED BY <1>5 DEF QueueOK

LEMMA TrimKeeps ==
  ASSUME TypeOK, QueueOK, Trim, destroyed' = destroyed,
         NEW X, X \subseteq Entries, removed' = removed \cup X
  PROVE  /\ QueueOK' /\ Entries' = Entries \ X
         /\ DOMAIN heap' \subseteq Request /\ heap' \in [DOMAIN heap' -> Stamps]
<1>1. PICK pops \in SUBSET DOMAIN heap :
        pops \subseteq removed /\ heap' = Without(pops)
  BY DEF Trim, CanPop
<1>2. DOMAIN heap' = DOMAIN heap \ pops /\ heap' \in [DOMAIN heap \ pops -> Stamps]
  BY <1>1, WithoutIs
<1>3. IsFiniteSet(removed')
  BY QueueFinite, FS_Subset, FS_Union DEF QueueOK
<1>4. IsFiniteSet(DOMAIN heap')
  BY <1>2, FS_Difference DEF QueueOK
<1>5. Entries' = Entries \ X
  BY <1>1, <1>2 DEF Entries
<1>6. removed \ DOMAIN heap \subseteq removed' \ DOMAIN heap'
  BY <1>2
<1>7. DOMAIN heap' \ removed' \subseteq Entries
  BY <1>5 DEF Entries
<1>8. destroyed' => DOMAIN heap' = {}
  BY <1>2 DEF QueueOK
<1>9. QueueOK'
  BY <1>3, <1>4, <1>6, <1>7, <1>8, QueueShrinks
<1> QED BY <1>2, <1>5, <1>9 DEF TypeOK

\* The same with nothing rejected.
LEMMA TrimAlone ==
  ASSUME TypeOK, QueueOK, Trim, UNCHANGED <<removed, destroyed>>
  PROVE  /\ QueueOK' /\ Entries' = Entries
         /\ DOMAIN heap' \subseteq Request /\ heap' \in [DOMAIN heap' -> Stamps]
<1>1. PICK X \in SUBSET Entries : X = {}
  OBVIOUS
<1>2. removed' = removed \cup X /\ destroyed' = destroyed
  BY <1>1
<1>3. /\ QueueOK' /\ Entries' = Entries \ X
      /\ DOMAIN heap' \subseteq Request /\ heap' \in [DOMAIN heap' -> Stamps]
  BY <1>2, TrimKeeps
<1> QED BY <1>1, <1>3

\* What Take does, and that what it takes is the first.
LEMMA TakeIs ==
  ASSUME TypeOK, QueueOK, Take
  PROVE  \E r \in Entries :
           /\ r \in Request /\ Move(r, "spawned")
           /\ QueueOK' /\ Entries' = Entries \ {r}
           /\ DOMAIN heap' \subseteq Request /\ heap' \in [DOMAIN heap' -> Stamps]
           /\ removed' \subseteq Request
           /\ \A q \in Entries : ~ Before(q, r)
<1>1. PICK pops \in SUBSET DOMAIN heap : \E r \in Front(pops) :
        /\ CanPop(pops) /\ heap' = Without(pops \cup {r}) /\ removed' = removed \ pops
        /\ job' = [job EXCEPT ![r] = "spawned"]
  BY DEF Take
<1>2. PICK r \in Front(pops) :
        /\ CanPop(pops) /\ heap' = Without(pops \cup {r}) /\ removed' = removed \ pops
        /\ job' = [job EXCEPT ![r] = "spawned"]
  BY <1>1
<1>3. /\ r \in Entries /\ r \in DOMAIN heap /\ r \notin removed /\ r \in Request
      /\ \A q \in DOMAIN heap \ pops : ~ Before(q, r)
  BY DEF Front, Entries, TypeOK
<1>4. pops \subseteq removed
  BY <1>2 DEF CanPop
<1>5. \A q \in Entries : ~ Before(q, r)
  BY <1>3, <1>4 DEF Entries
<1>6. /\ DOMAIN heap' = DOMAIN heap \ (pops \cup {r})
      /\ heap' \in [DOMAIN heap \ (pops \cup {r}) -> Stamps]
  BY <1>2, WithoutIs
<1>7. IsFiniteSet(DOMAIN heap') /\ IsFiniteSet(removed')
  <2>1. IsFiniteSet(DOMAIN heap \ (pops \cup {r})) /\ IsFiniteSet(removed \ pops)
    BY FS_Difference DEF QueueOK
  <2> QED BY <1>2, <1>6, <2>1
<1>8. Entries' = Entries \ {r}
  BY <1>2, <1>3, <1>4, <1>6 DEF Entries
<1>9. removed \ DOMAIN heap \subseteq removed' \ DOMAIN heap'
  BY <1>2, <1>6
<1>10. destroyed' => DOMAIN heap' = {}
  BY <1>3 DEF QueueOK, Take
<1>11. DOMAIN heap' \ removed' \subseteq Entries
  BY <1>8 DEF Entries
<1>12. QueueOK'
  BY <1>7, <1>9, <1>10, <1>11, QueueShrinks
<1>13. Move(r, "spawned")
  BY <1>2 DEF Move
<1> QED BY <1>2, <1>3, <1>5, <1>6, <1>8, <1>12, <1>13 DEF TypeOK

LEMMA EmptyKeeps ==
  ASSUME TypeOK, heap' = Without(DOMAIN heap), IsFiniteSet(removed')
  PROVE  QueueOK' /\ Entries' = {} /\ DOMAIN heap' = {} /\ heap' \in [{} -> Stamps]
<1>1. DOMAIN heap' = {} /\ heap' \in [{} -> Stamps]
  <2>1. DOMAIN heap \ DOMAIN heap = {}
    OBVIOUS
  <2> QED BY <2>1, WithoutIs
<1>2. Entries' = {}
  BY <1>1 DEF Entries
<1>3. IsFiniteSet({}) /\ Cardinality(Entries') = 0
  BY <1>2, FS_EmptySet
<1>4. Cardinality(removed' \ DOMAIN heap') \in Nat
  BY FS_Difference, FS_CardinalityType
<1>5. Cardinality(Entries') <= MaxQueue + Cardinality(removed' \ DOMAIN heap')
  BY <1>3, <1>4, LimitAssumption
<1> QED BY <1>1, <1>2, <1>3, <1>5 DEF QueueOK

LEMMA ScheduleKeepsQueue ==
  ASSUME TypeOK, QueueOK, NEW r \in Request, NEW now \in Stamps, Schedule(r, now)
  PROVE  /\ QueueOK' /\ Entries' = Entries \cup {r}
         /\ DOMAIN heap' \subseteq Request /\ heap' \in [DOMAIN heap' -> Stamps]
<1>1. r \notin DOMAIN heap /\ r \notin removed
  BY DEF Schedule, Unused
<1>2. /\ DOMAIN heap' = DOMAIN heap \cup {r}
      /\ heap' \in [DOMAIN heap \cup {r} -> Stamps]
  BY DEF Schedule, TypeOK
<1>3. removed' = removed /\ destroyed' = destroyed /\ ~ destroyed
  BY DEF Schedule
<1>4. Entries' = Entries \cup {r} /\ r \notin Entries
  BY <1>1, <1>2, <1>3 DEF Entries
<1>5. Cardinality(Entries') = Cardinality(Entries) + 1
  BY <1>4, QueueFinite, FS_AddElement
<1>6. removed' \ DOMAIN heap' = removed \ DOMAIN heap
  BY <1>1, <1>2, <1>3
<1>7. IsFiniteSet(DOMAIN heap')
  BY <1>2, FS_AddElement DEF QueueOK
<1>8. Cardinality(Entries) < MaxQueue + Cardinality(removed \ DOMAIN heap)
  <2>1. /\ IsFiniteSet(DOMAIN heap) /\ Cardinality(DOMAIN heap) \in Nat
        /\ IsFiniteSet(removed) /\ Cardinality(removed) \in Nat
    BY FS_CardinalityType DEF QueueOK
  <2> DEFINE both == Cardinality(DOMAIN heap \cap removed)
  <2>2. Cardinality(Entries) = Cardinality(DOMAIN heap) - both
    BY <2>1, FS_Difference DEF Entries
  <2>3. Cardinality(removed \ DOMAIN heap) = Cardinality(removed) - both
    <3>1. DOMAIN heap \cap removed = removed \cap DOMAIN heap
      OBVIOUS
    <3>2. Cardinality(removed \ DOMAIN heap) =
            Cardinality(removed) - Cardinality(removed \cap DOMAIN heap)
      BY <2>1, FS_Difference
    <3> QED BY <3>1, <3>2
  <2>4. both \in Nat
    BY <2>1, FS_Intersection, FS_CardinalityType
  <2>5. Cardinality(DOMAIN heap) - Cardinality(removed) < MaxQueue
    BY DEF Schedule, QueueSize
  <2> HIDE DEF both
  <2> QED BY <2>1, <2>2, <2>3, <2>4, <2>5, LimitAssumption
<1>9. Cardinality(Entries') <= MaxQueue + Cardinality(removed' \ DOMAIN heap')
  <2>1. \A n, k \in Int : n < k => n + 1 <= k
    OBVIOUS
  <2> DEFINE n == Cardinality(Entries)
             k == Cardinality(removed \ DOMAIN heap)
  <2>2. n \in Int /\ k \in Int
    <3>1. IsFiniteSet(Entries) /\ IsFiniteSet(removed \ DOMAIN heap)
      BY QueueFinite, FS_Difference DEF QueueOK
    <3> QED BY <3>1, FS_CardinalityType
  <2>3. n < MaxQueue + k /\ MaxQueue \in Int
    BY <1>8, LimitAssumption
  <2> HIDE DEF n, k
  <2>4. n + 1 <= MaxQueue + k
    BY <2>1, <2>2, <2>3
  <2> QED BY <1>5, <1>6, <2>4 DEF n, k
<1>10. QueueOK'
  BY <1>3, <1>7, <1>9 DEF QueueOK
<1> QED BY <1>2, <1>4, <1>10 DEF TypeOK

-----------------------------------------------------------------------------
(* Type correctness. *)

LEMMA TypeStep ==
  ASSUME IInv, [Next]_vars
  PROVE  TypeOK'
<1> USE DEF TypeOK, JobStates, ProcStates, callers
<1>0. TypeOK /\ QueueOK
  BY DEF IInv
<1>3. Kicked \in 0 .. MaxKicks
  BY <1>0, LimitAssumption DEF Kicked
<1>4. ASSUME NEW r \in Request, NEW now \in Stamps, Schedule(r, now) PROVE TypeOK'
  <2>1. DOMAIN heap' \subseteq Request /\ heap' \in [DOMAIN heap' -> Stamps]
    BY <1>0, <1>4, ScheduleKeepsQueue
  <2> QED BY <1>0, <1>3, <1>4, <2>1 DEF Schedule, jobVars
<1>5. ASSUME NEW r \in Request, Cancel(r) PROVE TypeOK'
  BY <1>0, <1>5 DEF Cancel, queueVars, jobVars
<1>6. ASSUME NEW r \in Request, PassDeadline(r) PROVE TypeOK'
  BY <1>0, <1>6 DEF PassDeadline, jobVars
<1>7. ASSUME NEW r \in Request, Start(r) PROVE TypeOK'
  <2>1. active' \in Nat /\ count' \in Nat
    BY <1>0, <1>7 DEF Start
  <2>2. job' \in [Request -> JobStates]
    BY <1>0, <1>7 DEF Start, Move
  <2> QED BY <1>0, <1>7, <2>1, <2>2 DEF Start, queueVars
<1>8. ASSUME NEW r \in Request, Record(r) PROVE TypeOK'
  BY <1>0, <1>8 DEF Record, Move, queueVars
<1>9. ASSUME NEW r \in Request, Retry(r) PROVE TypeOK'
  <2>1. tries' \in [Request -> 0 .. MaxRetries]
    BY <1>0, <1>9, LimitAssumption DEF Retry
  <2> QED BY <1>0, <1>9, <2>1 DEF Retry, Move, queueVars
<1>10. ASSUME NEW r \in Request, Again(r) PROVE TypeOK'
  BY <1>0, <1>10 DEF Again, Move, queueVars
<1>11. ASSUME NEW r \in Request, Return(r) \/ Escape(r) PROVE TypeOK'
  <2>0. End(r)
    BY <1>11 DEF Return, Escape
  <2>1. active - 1 \in Nat
    <3>1. r \in Executing
      BY <2>0 DEF End, Executing
    <3>2. IsFiniteSet(Executing)
      BY FS_Subset DEF IInv, Executing, Jobs
    <3>3. Cardinality(Executing) # 0
      BY <3>1, <3>2, FS_EmptySet
    <3> QED BY <1>0, <3>3 DEF IInv, ActiveMatches
  <2>2. tries' \in [Request -> 0 .. MaxRetries]
    BY <1>0, <2>0, LimitAssumption DEF End
  <2>3. /\ waiting' \subseteq Request /\ forsaken' \subseteq waiting'
        /\ job' \in [Request -> JobStates]
    <3>1. job' \in [Request -> JobStates]
      BY <1>0, <2>0 DEF End, Move
    <3>2. r \notin forsaken
      BY <2>0 DEF IInv, NothingLeft, End, Jobs
    <3> QED BY <1>0, <1>11, <3>1, <3>2 DEF Return, Escape
  <2> QED BY <1>0, <1>3, <2>0, <2>1, <2>2, <2>3 DEF End, queueVars
<1>12. ASSUME Kick PROVE TypeOK'
  BY <1>0, <1>12, LimitAssumption DEF Kick, queueVars, jobVars
<1>13. ASSUME ScanStop PROVE TypeOK'
  <2>1. DOMAIN heap' \subseteq Request /\ heap' \in [DOMAIN heap' -> Stamps]
    BY <1>0, <1>13, TrimAlone DEF ScanStop
  <2> QED BY <1>0, <1>13, <2>1 DEF ScanStop, jobVars, callers
<1>14. ASSUME ScanOn PROVE TypeOK'
  <2>1. Entries \subseteq Request
    BY <1>0 DEF Entries
  <2>2. DOMAIN heap' \subseteq Request /\ heap' \in [DOMAIN heap' -> Stamps]
    BY <1>0, <1>14, TrimKeeps DEF ScanOn, RejectExpired
  <2>3. forsaken \subseteq waiting'
    BY <1>0, <1>14 DEF IInv, NothingLeft, ScanOn, RejectExpired
  <2> QED BY <1>0, <1>14, <2>1, <2>2, <2>3 DEF ScanOn, RejectExpired, jobVars
<1>15. ASSUME CountRequests PROVE TypeOK'
  BY <1>0, <1>15 DEF CountRequests, queueVars, jobVars
<1>16. ASSUME Take PROVE TypeOK'
  <2>1. PICK r \in Entries :
          /\ r \in Request /\ Move(r, "spawned")
          /\ DOMAIN heap' \subseteq Request /\ heap' \in [DOMAIN heap' -> Stamps]
          /\ removed' \subseteq Request
    BY <1>0, <1>16, TakeIs
  <2>2. job' \in [Request -> JobStates]
    BY <1>0, <2>1 DEF Move
  <2> QED BY <1>0, <1>16, <2>1, <2>2 DEF Take, callers
<1>17. ASSUME TakeNone PROVE TypeOK'
  <2>1. DOMAIN heap' = {} /\ heap' \in [{} -> Stamps]
    <3>1. IsFiniteSet(removed')
      BY <1>0, <1>17, FS_Difference DEF TakeNone, QueueOK
    <3> QED BY <1>0, <1>17, <3>1, EmptyKeeps DEF TakeNone
  <2> QED BY <1>0, <1>17, <2>1 DEF TakeNone, jobVars, callers
<1>18. ASSUME Wake PROVE TypeOK'
  BY <1>0, <1>18 DEF Wake, queueVars, jobVars
<1>19. ASSUME Destroy PROVE TypeOK'
  <2>1. DOMAIN heap' = {} /\ heap' \in [{} -> Stamps]
    BY <1>0, <1>19, EmptyKeeps, FS_EmptySet DEF Destroy
  <2>2. forsaken \subseteq waiting'
    BY <1>0, <1>19 DEF IInv, NothingLeft, Destroy
  <2> QED BY <1>0, <1>19, <2>1, <2>2 DEF Destroy, jobVars
<1>20. ASSUME EndInterval PROVE TypeOK'
  BY <1>0, <1>20 DEF EndInterval, queueVars, jobVars
<1>21. ASSUME UNCHANGED vars PROVE TypeOK'
  BY <1>0, <1>21 DEF vars, queueVars, jobVars
<1> QED
  BY <1>4, <1>5, <1>6, <1>7, <1>8, <1>9, <1>10, <1>11, <1>12, <1>13, <1>14, <1>15,
     <1>16, <1>17, <1>18, <1>19, <1>20, <1>21 DEF Next, Execute, Process

-----------------------------------------------------------------------------
(* Requests and their tasks. *)

LEMMA JobsSame ==
  ASSUME job' = job
  PROVE  /\ Jobs' = Jobs /\ Executing' = Executing
         /\ Spawned' = Spawned /\ Uncounted' = Uncounted
BY DEF Jobs, Executing, Spawned, Uncounted

LEMMA JobMoves ==
  ASSUME TypeOK, NEW r \in Request, NEW s \in JobStates, Move(r, s)
  PROVE  /\ Jobs' = IF s = "none" THEN Jobs \ {r} ELSE Jobs \cup {r}
         /\ Spawned' = IF s = "spawned" THEN Spawned \cup {r} ELSE Spawned \ {r}
         /\ Executing' = IF s \in {"recording", "running", "backoff"}
                           THEN Executing \cup {r} ELSE Executing \ {r}
         /\ Uncounted' = IF s \in {"spawned", "recording"}
                           THEN Uncounted \cup {r} ELSE Uncounted \ {r}
BY DEF TypeOK, Move, JobStates, Jobs, Spawned, Executing, Uncounted

LEMMA JobsFinite ==
  ASSUME IInv
  PROVE  /\ IsFiniteSet(Jobs) /\ Cardinality(Jobs) \in Nat
         /\ IsFiniteSet(Executing) /\ Cardinality(Executing) \in Nat
         /\ IsFiniteSet(Uncounted) /\ Cardinality(Uncounted) \in Nat
         /\ Executing \subseteq Jobs /\ Uncounted \subseteq Jobs
         /\ Spawned \subseteq Jobs
<1>1. Executing \subseteq Jobs /\ Uncounted \subseteq Jobs /\ Spawned \subseteq Jobs
  BY DEF Executing, Uncounted, Spawned, Jobs
<1>2. IsFiniteSet(Jobs)
  BY DEF IInv
<1> QED BY <1>1, <1>2, FS_Subset, FS_CardinalityType

Flow ==
  /\ QueueOK
  /\ IsFiniteSet(Jobs)
  /\ NoRequestLost
  /\ Entries \cap Jobs = {}
  /\ NothingLeft
  /\ ActiveMatches
  /\ NobodyForgotten

\* A step of a request's task: it neither appears nor ends, and the queue is
\* left alone.
LEMMA TaskKeepsFlow ==
  ASSUME IInv, UNCHANGED <<queueVars, callers, proc, kicks, destroyed>>,
         Jobs' = Jobs, active' = active, Executing' = Executing
  PROVE  Flow'
<1>1. QueueOK' /\ Entries' = Entries
  BY QueueSame DEF IInv, queueVars
<1> QED BY <1>1 DEF IInv, Flow, NoRequestLost, NothingLeft, ActiveMatches, NobodyForgotten, callers

LEMMA FlowStep ==
  ASSUME IInv, [Next]_vars
  PROVE  Flow'
<1> USE DEF NoRequestLost, NothingLeft, ActiveMatches, NobodyForgotten, callers
<1>0. /\ TypeOK /\ QueueOK /\ Flow
      /\ IsFiniteSet(Jobs) /\ IsFiniteSet(Executing)
      /\ Cardinality(Executing) \in Nat
  BY JobsFinite DEF IInv, Flow
<1>1. kicks \in Nat /\ Kicked \in Nat /\ Kicked > 0
  BY <1>0, LimitAssumption DEF TypeOK, Kicked
<1>2. destroyed => Entries = {}
  BY DEF IInv, QueueOK, Entries
<1>3. ASSUME NEW r \in Request, NEW now \in Stamps, Schedule(r, now) PROVE Flow'
  <2>1. QueueOK' /\ Entries' = Entries \cup {r}
    BY <1>0, <1>3, ScheduleKeepsQueue
  <2>2. /\ Jobs' = Jobs /\ Executing' = Executing
    BY <1>3, JobsSame DEF Schedule, jobVars
  <2>3. r \notin Jobs
    BY <1>3 DEF Schedule, Unused, Jobs
  <2>4. NoRequestLost' /\ (Entries \cap Jobs = {})'
    BY <1>0, <1>3, <2>1, <2>2, <2>3 DEF Schedule, Flow
  <2>6. NothingLeft'
    <3>1. r \notin forsaken
      BY <1>0, <1>3 DEF Schedule, Unused, TypeOK
    <3> QED BY <1>0, <1>3, <2>1, <2>2, <3>1 DEF Schedule, Flow
  <2>5. ActiveMatches' /\ NobodyForgotten'
    BY <1>0, <1>1, <1>3, <2>2 DEF Schedule, Flow, jobVars
  <2> QED BY <1>0, <2>1, <2>2, <2>4, <2>5, <2>6 DEF Flow
<1>4. ASSUME NEW r \in Request, Cancel(r) PROVE Flow'
  <2>1. QueueOK' /\ Entries' = Entries
    BY <1>0, <1>4, QueueSame DEF Cancel, queueVars
  <2>2. Jobs' = Jobs /\ Executing' = Executing
    BY <1>4, JobsSame DEF Cancel, jobVars
  <2> QED BY <1>0, <1>4, <2>1, <2>2 DEF Flow, Cancel, jobVars
<1>5. ASSUME NEW r \in Request, PassDeadline(r) PROVE Flow'
  <2>1. QueueOK' /\ Entries' = Entries
    BY <1>0, <1>5, QueueSame DEF PassDeadline
  <2>2. Jobs' = Jobs /\ Executing' = Executing
    BY <1>5, JobsSame DEF PassDeadline, jobVars
  <2> QED BY <1>0, <1>5, <2>1, <2>2 DEF Flow, PassDeadline, jobVars
<1>6. ASSUME NEW r \in Request, Start(r) PROVE Flow'
  <2>1. PICK st \in {"recording", "running"} : Move(r, st)
    BY <1>6 DEF Start
  <2>2. r \in Jobs /\ r \notin Executing
    BY <1>6 DEF Start, Jobs, Executing
  <2>3. Jobs' = Jobs /\ Executing' = Executing \cup {r}
    BY <1>0, <2>1, <2>2, JobMoves DEF JobStates
  <2>4. QueueOK' /\ Entries' = Entries
    BY <1>0, <1>6, QueueSame DEF Start, queueVars
  <2>5. Cardinality(Executing') = Cardinality(Executing) + 1
    BY <1>0, <2>2, <2>3, FS_AddElement
  <2> QED BY <1>0, <1>6, <2>3, <2>4, <2>5 DEF Flow, Start
<1>7. ASSUME NEW r \in Request, Record(r) \/ Again(r) \/ Retry(r) PROVE Flow'
  <2>1. PICK st \in {"running", "backoff"} : Move(r, st)
    BY <1>7 DEF Record, Again, Retry
  <2>2. r \in Jobs /\ r \in Executing
    BY <1>7 DEF Record, Again, Retry, Jobs, Executing
  <2>3. Jobs' = Jobs /\ Executing' = Executing
    BY <1>0, <2>1, <2>2, JobMoves DEF JobStates
  <2> QED BY <1>7, <2>3, TaskKeepsFlow DEF Record, Again, Retry
<1>8. ASSUME NEW r \in Request, Return(r) \/ Escape(r) PROVE Flow'
  <2>0. End(r)
    BY <1>8 DEF Return, Escape
  <2>1. Jobs' = Jobs \ {r} /\ Executing' = Executing \ {r}
    BY <1>0, <2>0, JobMoves DEF End, JobStates
  <2>2. QueueOK' /\ Entries' = Entries
    BY <1>0, <2>0, QueueSame DEF End, queueVars
  <2>3. r \in Executing /\ r \in Jobs
    BY <2>0 DEF End, Executing, Jobs
  <2>4. Cardinality(Executing') = Cardinality(Executing) - 1
    BY <1>0, <2>1, <2>3, FS_RemoveElement
  <2>5. IsFiniteSet(Jobs')
    BY <1>0, <2>1, FS_RemoveElement
  <2>6. NobodyForgotten'
    BY <1>1, <2>0 DEF End
  <2>7. ActiveMatches'
    BY <1>0, <2>0, <2>4 DEF Flow, End
  <2>8. NoRequestLost' /\ NothingLeft' /\ (Entries \cap Jobs = {})'
    BY <1>0, <1>8, <2>1, <2>2, <2>3 DEF Flow, Return, Escape
  <2> QED BY <2>2, <2>5, <2>6, <2>7, <2>8 DEF Flow
<1>9. ASSUME Kick PROVE Flow'
  <2>1. QueueOK' /\ Entries' = Entries
    BY <1>0, <1>9, QueueSame DEF Kick, queueVars
  <2>2. Jobs' = Jobs /\ Executing' = Executing
    BY <1>9, JobsSame DEF Kick, jobVars
  <2>3. NobodyForgotten'
    BY <1>2, <1>9, <2>1 DEF Kick
  <2> QED BY <1>0, <1>9, <2>1, <2>2, <2>3 DEF Flow, Kick, jobVars
<1>10. ASSUME ScanStop PROVE Flow'
  <2>1. QueueOK' /\ Entries' = Entries
    BY <1>0, <1>10, TrimAlone DEF ScanStop
  <2>2. Jobs' = Jobs /\ Executing' = Executing
    BY <1>10, JobsSame DEF ScanStop, jobVars
  <2>3. NobodyForgotten'
    <3>1. CASE Entries = {} \/ destroyed
      BY <1>2, <2>1, <3>1
    <3>2. CASE active >= Concurrency
      <4>1. Executing # {}
        BY <1>0, <3>2, LimitAssumption, FS_EmptySet DEF Flow
      <4> QED BY <2>2, <4>1 DEF Executing, Jobs
    <3> QED BY <1>10, <3>1, <3>2 DEF ScanStop
  <2> QED BY <1>0, <1>10, <2>1, <2>2, <2>3 DEF Flow, ScanStop, jobVars
<1>11. ASSUME ScanOn PROVE Flow'
  <2>1. QueueOK' /\ Entries' = Entries \ (Entries \cap late)
    BY <1>0, <1>11, TrimKeeps DEF ScanOn, RejectExpired
  <2>2. Jobs' = Jobs /\ Executing' = Executing
    BY <1>11, JobsSame DEF ScanOn, jobVars
  <2>3. NobodyForgotten'
    BY <1>11 DEF ScanOn
  <2>4. NoRequestLost' /\ NothingLeft' /\ (Entries \cap Jobs = {})'
    BY <1>0, <1>11, <2>1, <2>2 DEF Flow, ScanOn, RejectExpired
  <2> QED BY <1>0, <1>11, <2>1, <2>2, <2>3, <2>4 DEF Flow, ScanOn, jobVars
<1>12. ASSUME CountRequests PROVE Flow'
  <2>1. QueueOK' /\ Entries' = Entries
    BY <1>0, <1>12, QueueSame DEF CountRequests, queueVars
  <2>2. Jobs' = Jobs /\ Executing' = Executing
    BY <1>12, JobsSame DEF CountRequests, jobVars
  <2> QED BY <1>0, <1>12, <2>1, <2>2 DEF Flow, CountRequests, jobVars
<1>13. ASSUME Take PROVE Flow'
  <2>1. PICK r \in Entries :
          /\ r \in Request /\ Move(r, "spawned")
          /\ QueueOK' /\ Entries' = Entries \ {r}
    BY <1>0, <1>13, TakeIs
  <2>5. r \notin Executing
    BY <1>0, JobsFinite DEF Flow
  <2>6. Jobs' = Jobs \cup {r} /\ Executing' = Executing
    BY <1>0, <2>1, <2>5, JobMoves DEF JobStates
  <2>7. IsFiniteSet(Jobs')
    BY <1>0, <2>6, FS_AddElement
  <2>8. NobodyForgotten'
    BY <1>13 DEF Take
  <2> QED BY <1>0, <1>13, <2>1, <2>6, <2>7, <2>8 DEF Flow, Take
<1>14. ASSUME TakeNone PROVE Flow'
  <2>1. IsFiniteSet(removed')
    BY <1>0, <1>14, FS_Difference DEF TakeNone, QueueOK
  <2>2. QueueOK' /\ Entries' = {} /\ Entries = {}
    BY <1>0, <1>14, <2>1, EmptyKeeps DEF TakeNone
  <2>3. Jobs' = Jobs /\ Executing' = Executing
    BY <1>14, JobsSame DEF TakeNone, jobVars
  <2> QED BY <1>0, <1>14, <2>2, <2>3 DEF Flow, TakeNone, jobVars
<1>15. ASSUME Wake PROVE Flow'
  <2>1. QueueOK' /\ Entries' = Entries
    BY <1>0, <1>15, QueueSame DEF Wake, queueVars
  <2>2. Jobs' = Jobs /\ Executing' = Executing
    BY <1>15, JobsSame DEF Wake, jobVars
  <2> QED BY <1>0, <1>15, <2>1, <2>2 DEF Flow, Wake, jobVars
<1>16. ASSUME Destroy PROVE Flow'
  <2>1. QueueOK' /\ Entries' = {}
    BY <1>0, <1>16, EmptyKeeps, FS_EmptySet DEF Destroy
  <2>2. Jobs' = Jobs /\ Executing' = Executing
    BY <1>16, JobsSame DEF Destroy, jobVars
  <2> QED BY <1>0, <1>16, <2>1, <2>2 DEF Flow, Destroy, jobVars
<1>17. ASSUME EndInterval \/ UNCHANGED vars PROVE Flow'
  <2>1. UNCHANGED <<queueVars, jobVars, callers, proc, kicks, destroyed>>
    BY <1>17 DEF EndInterval, vars
  <2>2. Jobs' = Jobs /\ Executing' = Executing
    BY <2>1, JobsSame DEF jobVars
  <2> QED BY <2>1, <2>2, TaskKeepsFlow DEF jobVars
<1> QED
  BY <1>3, <1>4, <1>5, <1>6, <1>7, <1>8, <1>9, <1>10, <1>11, <1>12, <1>13, <1>14,
     <1>15, <1>16, <1>17 DEF Next, Execute, Process

-----------------------------------------------------------------------------
(* The limits, with a store that suspends. *)

LEMMA OneAtATimeStep ==
  ASSUME IInv, [Next]_vars
  PROVE  OneAtATime'
<1>0. /\ TypeOK /\ ActiveMatches
      /\ IsFiniteSet(Jobs) /\ Cardinality(Jobs) \in Nat
      /\ IsFiniteSet(Uncounted) /\ Cardinality(Uncounted) \in Nat
      /\ Executing \subseteq Jobs /\ Uncounted \subseteq Jobs
      /\ IsFiniteSet(Executing) /\ Cardinality(Executing) \in Nat
      /\ count \in Nat /\ MaxRequests \in Nat /\ Concurrency \in Nat
  BY JobsFinite, LimitAssumption DEF IInv, TypeOK
<1>a. suspends' = suspends
  BY DEF Next, Schedule, Cancel, PassDeadline, Execute, Start, Record, Retry, Again, Return,
         Escape, End,
         Kick, Process, ScanStop, ScanOn, CountRequests, Take, TakeNone, Wake, Destroy,
         EndInterval, vars
<1> SUFFICES ASSUME suspends
             PROVE  /\ \A r, s \in Spawned' : r = s
                    /\ Cardinality(Jobs') <= Concurrency + 1
                    /\ proc' \in {"counting", "allowed"} => Cardinality(Jobs') <= Concurrency
                    /\ proc' = "allowed"
                         => /\ Spawned' = {}
                            /\ count' + Cardinality(Uncounted') < MaxRequests + Concurrency
                    /\ count' + Cardinality(Uncounted') <= MaxRequests + Concurrency
  BY <1>a DEF OneAtATime
<1> DEFINE Goal == /\ \A r, s \in Spawned' : r = s
                   /\ Cardinality(Jobs') <= Concurrency + 1
                   /\ proc' \in {"counting", "allowed"} => Cardinality(Jobs') <= Concurrency
                   /\ proc' = "allowed"
                        => /\ Spawned' = {}
                           /\ count' + Cardinality(Uncounted') < MaxRequests + Concurrency
                   /\ count' + Cardinality(Uncounted') <= MaxRequests + Concurrency
<1>b. /\ \A r, s \in Spawned : r = s
      /\ Cardinality(Jobs) <= Concurrency + 1
      /\ proc \in {"counting", "allowed"} => Cardinality(Jobs) <= Concurrency
      /\ proc = "allowed" => /\ Spawned = {}
                             /\ count + Cardinality(Uncounted) < MaxRequests + Concurrency
      /\ count + Cardinality(Uncounted) <= MaxRequests + Concurrency
  BY DEF IInv, OneAtATime
<1>1. ASSUME UNCHANGED <<job, count>>, proc' = proc \/ proc' \notin {"counting", "allowed"}
      PROVE  Goal
  BY <1>1, <1>b, JobsSame
<1>2. ASSUME NEW r \in Request, (\E now \in Stamps : Schedule(r, now)) \/ Cancel(r) \/ PassDeadline(r)
      PROVE  Goal
  BY <1>1, <1>2 DEF Schedule, Cancel, PassDeadline, jobVars
<1>3. ASSUME Kick \/ ScanStop \/ TakeNone \/ Wake \/ Destroy \/ UNCHANGED vars PROVE Goal
  BY <1>1, <1>3 DEF Kick, ScanStop, TakeNone, Wake, Destroy, vars, jobVars
<1>4. ASSUME EndInterval PROVE Goal
  <2>1. /\ count' = 0 /\ proc' = proc
        /\ Jobs' = Jobs /\ Spawned' = Spawned /\ Uncounted' = Uncounted
    BY <1>4, JobsSame DEF EndInterval, jobVars
  <2> QED BY <1>0, <1>b, <2>1
<1>5. ASSUME ScanOn PROVE Goal
  <2>1. /\ count' = count /\ proc' = "counting"
        /\ Jobs' = Jobs /\ Spawned' = Spawned /\ Uncounted' = Uncounted
    BY <1>5, JobsSame DEF ScanOn, jobVars
  <2>2. Cardinality(Executing) < Concurrency
    BY <1>0, <1>5 DEF ScanOn, ActiveMatches
  <2>3. Jobs = Executing \cup Spawned
    BY <1>0 DEF TypeOK, JobStates, Jobs, Executing, Spawned
  <2>4. Cardinality(Jobs) <= Concurrency
    <3>1. CASE Spawned = {}
      BY <1>0, <2>2, <2>3, <3>1
    <3>2. CASE Spawned # {}
      <4>1. PICK r \in Spawned : Spawned = {r}
        BY <1>b, <3>2
      <4>2. r \notin Executing
        BY <4>1 DEF Spawned, Executing
      <4>3. Cardinality(Jobs) = Cardinality(Executing) + 1
        BY <1>0, <2>3, <4>1, <4>2, FS_AddElement
      <4> QED BY <1>0, <2>2, <4>3
    <3> QED BY <3>1, <3>2
  <2> QED BY <1>b, <2>1, <2>4
<1>6. ASSUME CountRequests PROVE Goal
  <2>1. /\ count' = count /\ proc = "counting"
        /\ Jobs' = Jobs /\ Spawned' = Spawned /\ Uncounted' = Uncounted
    BY <1>6, JobsSame DEF CountRequests, jobVars
  <2>2. Spawned = {}
    BY <1>6 DEF CountRequests, Started, Spawned
  <2>3. Cardinality(Uncounted) <= Cardinality(Jobs)
    BY <1>0, FS_Subset
  <2>4. proc' = "allowed" => count < MaxRequests
    BY <1>0, <1>6 DEF CountRequests
  <2> QED BY <1>0, <1>b, <2>1, <2>2, <2>3, <2>4
<1>7. ASSUME Take PROVE Goal
  <2>1. PICK r \in Entries : r \in Request /\ Move(r, "spawned")
    BY <1>0, <1>7, TakeIs DEF IInv
  <2>2. count' = count /\ proc = "allowed" /\ proc' = "scan"
    BY <1>7 DEF Take
  <2>3. r \notin Jobs
    BY DEF IInv
  <2>5. /\ Jobs' = Jobs \cup {r} /\ Spawned' = Spawned \cup {r}
        /\ Uncounted' = Uncounted \cup {r}
    BY <1>0, <2>1, JobMoves DEF JobStates
  <2>6. /\ Cardinality(Jobs') = Cardinality(Jobs) + 1
        /\ Cardinality(Uncounted') = Cardinality(Uncounted) + 1
    BY <1>0, <2>3, <2>5, FS_AddElement
  <2>7. Spawned' = {r}
    BY <1>b, <2>2, <2>5
  <2> QED BY <1>0, <1>b, <2>2, <2>6, <2>7
<1>8. ASSUME NEW r \in Request, Start(r) PROVE Goal
  <2>1. Move(r, "recording") /\ count' = count /\ proc' = proc
    BY <1>8 DEF Start
  <2>2. r \in Jobs /\ r \in Uncounted
    BY <1>8 DEF Start, Jobs, Uncounted
  <2>3. Jobs' = Jobs /\ Spawned' = Spawned \ {r} /\ Uncounted' = Uncounted
    BY <1>0, <2>1, <2>2, JobMoves DEF JobStates
  <2> QED BY <1>b, <2>1, <2>3
<1>9. ASSUME NEW r \in Request, Record(r) PROVE Goal
  <2>1. Move(r, "running") /\ count' = count + 1 /\ proc' = proc
    BY <1>9 DEF Record
  <2>2. r \in Jobs /\ r \in Uncounted
    BY <1>9 DEF Record, Jobs, Uncounted
  <2>3. Jobs' = Jobs /\ Spawned' = Spawned \ {r} /\ Uncounted' = Uncounted \ {r}
    BY <1>0, <2>1, <2>2, JobMoves DEF JobStates
  <2>4. Cardinality(Uncounted') = Cardinality(Uncounted) - 1
    BY <1>0, <2>2, <2>3, FS_RemoveElement
  <2> QED BY <1>0, <1>b, <2>1, <2>3, <2>4
<1>10. ASSUME NEW r \in Request, Retry(r) \/ Again(r) \/ Return(r) \/ Escape(r) PROVE Goal
  <2>1. PICK st \in {"running", "backoff", "none"} :
          Move(r, st) /\ count' = count /\ proc' = proc
    BY <1>10 DEF Retry, Again, Return, Escape, End
  <2>2. r \in Jobs /\ r \notin Uncounted
    BY <1>10 DEF Retry, Again, Return, Escape, End, Jobs, Uncounted
  <2>3. /\ Jobs' \subseteq Jobs /\ Spawned' = Spawned \ {r} /\ Uncounted' = Uncounted
    BY <1>0, <2>1, <2>2, JobMoves DEF JobStates
  <2>4. Cardinality(Jobs') <= Cardinality(Jobs) /\ Cardinality(Jobs') \in Nat
    BY <1>0, <2>3, FS_Subset, FS_CardinalityType
  <2> QED BY <1>0, <1>b, <2>1, <2>3, <2>4
<1> QED
  <2> HIDE DEF Goal
  <2>1. Goal
    BY <1>2, <1>3, <1>4, <1>5, <1>6, <1>7, <1>8, <1>9, <1>10 DEF Next, Execute, Process
  <2> QED BY <2>1 DEF Goal

-----------------------------------------------------------------------------
(* The theorems. *)

LEMMA InvInit == Init => IInv
<1> SUFFICES ASSUME Init PROVE IInv
  OBVIOUS
<1> USE DEF Init
<1>1. TypeOK
  <2>1. DOMAIN heap \subseteq Request /\ heap \in [DOMAIN heap -> Stamps]
    OBVIOUS
  <2>2. tries \in [Request -> 0 .. MaxRetries] /\ kicks \in 0 .. MaxKicks
    BY LimitAssumption
  <2>3. job \in [Request -> JobStates] /\ proc \in ProcStates
    BY DEF JobStates, ProcStates
  <2> QED BY <2>1, <2>2, <2>3 DEF TypeOK
<1>2. Entries = {} /\ Jobs = {} /\ Executing = {} /\ Spawned = {} /\ Uncounted = {}
  BY DEF Entries, Jobs, Executing, Spawned, Uncounted
<1>3. IsFiniteSet({}) /\ Cardinality({}) = 0
  BY FS_EmptySet
<1>4. QueueOK
  <2>1. removed \ DOMAIN heap = {} /\ DOMAIN heap = {}
    OBVIOUS
  <2> QED BY <1>2, <1>3, <2>1, LimitAssumption DEF QueueOK
<1>5. OneAtATime
  BY <1>2, <1>3, LimitAssumption DEF OneAtATime
<1> QED
  BY <1>1, <1>2, <1>3, <1>4, <1>5
  DEF IInv, NoRequestLost, NothingLeft, ActiveMatches, NobodyForgotten

\* The inductive invariant holds in every state, so TypeOK does.
THEOREM Inductive == Spec => []IInv
<1>1. IInv /\ [Next]_vars => IInv'
  BY TypeStep, FlowStep, OneAtATimeStep DEF IInv, Flow
<1> QED
  BY InvInit, <1>1, PTL DEF Spec

\* Queue, tasks, futures and counter agree on every request, through expiry,
\* retries, the lazy removal from the heap, cancelled callers and destroy(); the
\* one exception are callers whose fn() ended in CancelledError.
THEOREM EverythingAccounted == Spec => []Accounted
<1>1. IInv => Accounted
  BY DEF IInv, Accounted, TakenOnce
<1> QED
  BY Inductive, <1>1, PTL

\* No lost wake-up: a queued request always has a processing task, or a task
\* under way that creates one when it ends.
THEOREM NoLostWakeUp == Spec => []NobodyForgotten
<1>1. IInv => NobodyForgotten
  BY DEF IInv
<1> QED
  BY Inductive, <1>1, PTL

\* With a store that suspends, the checks of the processing task and their
\* effects in the requests' tasks are apart, and still the limits are exceeded
\* by what is under way only; the queue, by what is_empty() left behind.
THEOREM LimitsAreNear == Spec => []LimitsNearly
<1>1. IInv => LimitsNearly
  <2> SUFFICES ASSUME IInv PROVE LimitsNearly
    OBVIOUS
  <2>1. ASSUME suspends
        PROVE  active <= Concurrency + 1 /\ count <= MaxRequests + Concurrency
    <3>1. /\ Cardinality(Jobs) <= Concurrency + 1
          /\ count + Cardinality(Uncounted) <= MaxRequests + Concurrency
      BY <2>1 DEF IInv, OneAtATime
    <3>2. /\ IsFiniteSet(Jobs) /\ Executing \subseteq Jobs
          /\ Cardinality(Jobs) \in Nat /\ Cardinality(Executing) \in Nat
          /\ Cardinality(Uncounted) \in Nat
      BY JobsFinite
    <3>3. Cardinality(Executing) <= Cardinality(Jobs)
      BY <3>2, FS_Subset
    <3>4. active = Cardinality(Executing) /\ count \in Nat
      BY DEF IInv, ActiveMatches, TypeOK
    <3> QED BY <3>1, <3>2, <3>3, <3>4, LimitAssumption
  <2> QED BY <2>1 DEF LimitsNearly, IInv, QueueOK
<1> QED
  BY Inductive, <1>1, PTL

-----------------------------------------------------------------------------
(* The order in which requests are taken. *)

\* Requests are taken by priority and then by time stamp, and none whose caller
\* was answered already, whatever was removed from the heap or added to it.
THEOREM OrderIsKept == Spec => TakenInOrder
<1> DEFINE InOrder ==
      \A s \in Request : job[s] = "none" /\ job'[s] = "spawned" =>
        /\ s \in Entries
        /\ \A r \in Entries :
             /\ Rank(r) <= Rank(s)
             /\ Rank(r) = Rank(s) => heap[s] <= heap[r]
<1>1. IInv /\ [Next]_vars => [InOrder]_vars
  <2> SUFFICES ASSUME IInv, [Next]_vars, NEW s \in Request,
                      job[s] = "none", job'[s] = "spawned"
               PROVE  /\ s \in Entries
                      /\ \A r \in Entries :
                           /\ Rank(r) <= Rank(s)
                           /\ Rank(r) = Rank(s) => heap[s] <= heap[r]
    OBVIOUS
  <2>0. TypeOK /\ QueueOK
    BY DEF IInv
  <2>1. ASSUME NEW q \in Request, NEW st \in JobStates \ {"spawned"}, Move(q, st) PROVE FALSE
    BY <2>0, <2>1 DEF Move, TypeOK
  <2>2. Take
    <3>1. \A q \in Request : ~ Execute(q)
      BY <2>1 DEF Execute, Start, Record, Retry, Again, Return, Escape, End, JobStates
    <3>2. job' # job
      OBVIOUS
    <3> QED BY <3>1, <3>2
      DEF Next, Schedule, Cancel, PassDeadline, Kick, Process, ScanStop, ScanOn,
          CountRequests, TakeNone, Wake, Destroy, EndInterval, vars, jobVars
  <2>3. PICK t \in Entries :
          t \in Request /\ Move(t, "spawned") /\ \A q \in Entries : ~ Before(q, t)
    BY <2>0, <2>2, TakeIs
  <2>4. s = t
    BY <2>0, <2>3 DEF Move, TypeOK
  <2>5. ASSUME NEW r \in Entries
        PROVE  Rank(r) <= Rank(s) /\ (Rank(r) = Rank(s) => heap[s] <= heap[r])
    <3>1. heap[r] \in Int /\ heap[s] \in Int
      BY <2>0, <2>3, <2>4, RequestAssumption DEF TypeOK, Entries
    <3>2. ~ Before(r, s)
      BY <2>3, <2>4
    <3> QED BY <3>1, <3>2 DEF Before, Rank
  <2> QED BY <2>3, <2>4, <2>5
<1>2. TakenInOrder <=> [][InOrder]_vars
  BY DEF TakenInOrder
<1> HIDE DEF InOrder
<1> QED
  BY Inductive, <1>1, <1>2, PTL DEF Spec

-----------------------------------------------------------------------------
(* The transports around the limiter: RequestPath. *)

JobRuns == IF sync THEN 1 ELSE 1 + LimiterRetries

\* The retries that are outside, and those that begin anew with each of them.
Outer(r)     == IF way = "limiter" THEN repeats[r] ELSE attempt[r]
Inner(r)     == IF way = "limiter" THEN attempt[r] ELSE repeats[r]
InnerRuns(r) == IF way = "limiter" THEN Runs(r) ELSE JobRuns

\* How often a request was sent, by what it waits for.
Within(r) ==
  /\ attempt[r] < Runs(r) /\ repeats[r] < JobRuns
  /\ at[r] = "idle" => sends[r] <= Runs(r) * JobRuns
  /\ at[r] \in {"paused", "queued"} => sends[r] <= Outer(r) * InnerRuns(r)
  /\ at[r] \in {"sent", "lost"} => sends[r] <= Outer(r) * InnerRuns(r) + Inner(r) + 1
  /\ at[r] = "requeued" =>
       sends[r] <= Outer(r) * InnerRuns(r) + (IF way = "limiter" THEN 0 ELSE Inner(r))
  /\ at[r] = "backoff" =>
       sends[r] <= Outer(r) * InnerRuns(r) + (IF way = "limiter" THEN Inner(r) ELSE 0)

\* Who looked at the pause since it was set sleeps until it is over, and is
\* past the check only when it was over then.
Heeds(r) ==
  /\ at[r] = "paused" => cut \/ demand <= timer[r]
  /\ at[r] \in {"queued", "sent", "requeued"} \/ (at[r] = "backoff" /\ way = "limiter") =>
       cut \/ demand = 0

PauseInv ==
  /\ cut \/ demand <= pause
  /\ \A r \in Call \ early : Heeds(r)

PathInv == PathTypeOK /\ (\A r \in Call : Within(r)) /\ PauseInv

\* A run more, and no more runs than there are.
LEMMA RunsAdd ==
  ASSUME NEW a \in Nat, NEW b \in Nat, NEW m \in Nat, NEW n \in Nat, a < m, b < n
  PROVE  a * n + b + 1 <= (a + 1) * n /\ (a + 1) * n <= m * n /\ a * n \in Nat
<1>1. a * n \in Nat /\ (a + 1) * n = a * n + n
  OBVIOUS
<1>2. PICK k \in Nat : m = a + 1 + k
  <2>1. m - (a + 1) \in Nat /\ m = a + 1 + (m - (a + 1))
    OBVIOUS
  <2>. QED BY <2>1
<1>3. k * n \in Nat /\ m * n = (a + 1) * n + k * n
  BY <1>2
<1>4. (a + 1) * n \in Nat /\ m * n \in Nat
  OBVIOUS
<1>. QED BY <1>1, <1>3, <1>4

LEMMA CountsAre ==
  ASSUME PathTypeOK, NEW r \in Call
  PROVE  /\ Runs(r) \in Nat \ {0} /\ JobRuns \in Nat \ {0}
         /\ attempt[r] \in Nat /\ repeats[r] \in Nat /\ sends[r] \in Nat /\ timer[r] \in Nat
         /\ Outer(r) \in Nat /\ Inner(r) \in Nat /\ InnerRuns(r) \in Nat \ {0}
         /\ ~ (attempt[r] > TransportRetries) /\ ~ (repeats[r] > LimiterRetries)
<1>1. Runs(r) \in Nat \ {0} /\ JobRuns \in Nat \ {0}
  BY PathAssumption DEF Runs, JobRuns
<1>2. attempt[r] \in 0 .. TransportRetries /\ repeats[r] \in 0 .. LimiterRetries
      /\ sends[r] \in Nat /\ timer[r] \in Nat
  BY DEF PathTypeOK
<1>3. attempt[r] \in Nat /\ repeats[r] \in Nat
      /\ ~ (attempt[r] > TransportRetries) /\ ~ (repeats[r] > LimiterRetries)
  BY <1>2, PathAssumption
<1>. QED BY <1>1, <1>2, <1>3 DEF Outer, Inner, InnerRuns

\* Whatever it waits for, it was not sent more often than all runs together.
LEMMA WithinBounds ==
  ASSUME PathTypeOK, NEW r \in Call, Within(r)
  PROVE  /\ sends[r] <= Runs(r) * JobRuns
         /\ at[r] # "idle" => sends[r] <= Outer(r) * InnerRuns(r) + Inner(r) + 1
         /\ Outer(r) * InnerRuns(r) + Inner(r) + 1 <= (Outer(r) + 1) * InnerRuns(r)
         /\ Outer(r) * InnerRuns(r) \in Nat
<1>. DEFINE a == Outer(r)
            b == Inner(r)
            n == InnerRuns(r)
            m == IF way = "limiter" THEN JobRuns ELSE Runs(r)
<1>1. /\ a \in Nat /\ b \in Nat /\ n \in Nat /\ m \in Nat /\ sends[r] \in Nat
      /\ Runs(r) \in Nat /\ JobRuns \in Nat
  BY CountsAre
<1>2. a < m /\ b < n
  BY DEF Within, Outer, Inner, InnerRuns
<1>3. Runs(r) * JobRuns = m * n
  BY <1>1 DEF InnerRuns
<1>4. at[r] # "idle" => sends[r] <= a * n + b + 1
  <2>1. at[r] \in Places /\ a * n \in Nat
    BY <1>1 DEF PathTypeOK
  <2>2. \/ sends[r] <= a * n \/ sends[r] <= a * n + b \/ sends[r] <= a * n + b + 1
        \/ at[r] = "idle"
    <3>1. a * n + 0 = a * n
      BY <1>1
    <3>. QED BY <2>1, <3>1 DEF Within, Places
  <2>. HIDE DEF a, b, n
  <2>. QED BY <1>1, <2>1, <2>2
<1>. HIDE DEF a, b, n, m
<1>5. a * n + b + 1 <= (a + 1) * n /\ (a + 1) * n <= m * n /\ a * n \in Nat
  BY <1>1, <1>2, RunsAdd
<1>6. at[r] = "idle" => sends[r] <= Runs(r) * JobRuns
  BY DEF Within
<1>7. (a + 1) * n \in Nat /\ m * n \in Nat
  BY <1>1
<1>8. sends[r] <= Runs(r) * JobRuns
  BY <1>1, <1>3, <1>4, <1>5, <1>6, <1>7
<1>. QED BY <1>4, <1>5, <1>8 DEF a, b, n

\* A step of r leaves the other requests alone.
Only(r) ==
  /\ UNCHANGED <<way, sync>>
  /\ \A x \in Call \ {r} :
       /\ at'[x] = at[x] /\ attempt'[x] = attempt[x] /\ repeats'[x] = repeats[x]
       /\ timer'[x] = timer[x] /\ sends'[x] = sends[x]

\* What the counts are made of is fixed.
LEMMA RunsStay ==
  ASSUME UNCHANGED <<way, sync>>, NEW r \in Call
  PROVE  Runs(r)' = Runs(r) /\ JobRuns' = JobRuns /\ InnerRuns(r)' = InnerRuns(r)
BY DEF Runs, JobRuns, InnerRuns

LEMMA OthersWithin ==
  ASSUME NEW r \in Call, NEW x \in Call \ {r}, Only(r), Within(x)
  PROVE  Within(x)'
<1>1. /\ UNCHANGED <<way, sync>> /\ at'[x] = at[x] /\ attempt'[x] = attempt[x]
      /\ repeats'[x] = repeats[x] /\ sends'[x] = sends[x]
  BY DEF Only
<1>2. Runs(x)' = Runs(x) /\ JobRuns' = JobRuns /\ InnerRuns(x)' = InnerRuns(x)
  BY <1>1, RunsStay
<1>3. Outer(x)' = Outer(x) /\ Inner(x)' = Inner(x)
  BY <1>1 DEF Outer, Inner
<1>. QED BY <1>1, <1>2, <1>3 DEF Within

\* A step of r that leaves the pause as it is.
LEMMA StepHeeds ==
  ASSUME PathInv, NEW r \in Call, Only(r), UNCHANGED <<pause, demand, cut>>,
         early \ {r} \subseteq early', r \notin early' => Heeds(r)'
  PROVE  PauseInv'
<1>1. (cut \/ demand <= pause)'
  BY DEF PathInv, PauseInv
<1>2. ASSUME NEW x \in Call \ early' PROVE Heeds(x)'
  <2>1. CASE x = r
    BY <1>2, <2>1
  <2>2. CASE x # r
    <3>1. Heeds(x)
      BY <1>2, <2>2 DEF PathInv, PauseInv
    <3>2. UNCHANGED <<way, demand, cut>> /\ at'[x] = at[x] /\ timer'[x] = timer[x]
      BY <2>2 DEF Only
    <3>. QED BY <3>1, <3>2 DEF Heeds
  <2>. QED BY <2>1, <2>2
<1>. QED BY <1>1, <1>2 DEF PauseInv

LEMMA StepKeeps ==
  ASSUME PathInv, NEW r \in Call, Only(r), PathTypeOK', Within(r)', PauseInv'
  PROVE  PathInv'
<1>1. ASSUME NEW x \in Call PROVE Within(x)'
  BY OthersWithin DEF PathInv
<1>. QED BY <1>1 DEF PathInv

-----------------------------------------------------------------------------
(* How the counts of a request move with it. *)

\* A request enters the limiter, for its first run or its next.
LEMMA EntersWithin ==
  ASSUME PathTypeOK, NEW r \in Call, Within(r), UNCHANGED <<way, sync>>,
         at'[r] \in {"paused", "queued"}, repeats'[r] = 0,
         \/ attempt'[r] = 0 /\ sends'[r] = 0
         \/ /\ at[r] = "backoff" /\ way # "limiter"
            /\ attempt'[r] = attempt[r] /\ sends'[r] = sends[r]
  PROVE  Within(r)'
<1>1. Runs(r)' = Runs(r) /\ JobRuns' = JobRuns /\ InnerRuns(r)' = InnerRuns(r)
  BY RunsStay
<1>2. /\ Runs(r) \in Nat \ {0} /\ JobRuns \in Nat \ {0} /\ InnerRuns(r) \in Nat \ {0}
      /\ attempt[r] \in Nat /\ sends[r] \in Nat /\ Outer(r) \in Nat
  BY CountsAre
<1>3. attempt'[r] < Runs(r) /\ repeats'[r] < JobRuns
  BY <1>2 DEF Within
<1>4. sends'[r] <= Outer(r)' * InnerRuns(r)
  <2>1. CASE attempt'[r] = 0 /\ sends'[r] = 0
    <3>1. Outer(r)' = 0
      BY <2>1 DEF Outer
    <3>2. 0 * InnerRuns(r) = 0
      BY <1>2
    <3>. QED BY <2>1, <3>1, <3>2
  <2>2. CASE /\ at[r] = "backoff" /\ way # "limiter"
             /\ attempt'[r] = attempt[r] /\ sends'[r] = sends[r]
    <3>1. Outer(r)' = Outer(r)
      BY <2>2 DEF Outer
    <3>2. sends[r] <= Outer(r) * InnerRuns(r) + 0
      BY <2>2 DEF Within
    <3>3. Outer(r) * InnerRuns(r) \in Nat
      BY <1>2
    <3>. QED BY <1>2, <2>2, <3>1, <3>2, <3>3
  <2>. QED BY <2>1, <2>2
<1>. QED BY <1>1, <1>3, <1>4 DEF Within

\* A request is sent once more in the run it is in, or first in a new one.
LEMMA SentWithin ==
  ASSUME PathTypeOK, NEW r \in Call, Within(r), UNCHANGED <<way, sync>>,
         \/ at[r] = "queued" \/ at[r] = "requeued"
         \/ at[r] = "backoff" /\ way = "limiter",
         at'[r] = "sent", sends'[r] = sends[r] + 1, repeats'[r] = repeats[r],
         \/ attempt'[r] = attempt[r]
         \/ at[r] = "requeued" /\ way = "limiter" /\ attempt'[r] = 0,
         at[r] = "requeued" /\ way = "limiter" => attempt'[r] = 0
  PROVE  Within(r)'
<1>1. Runs(r)' = Runs(r) /\ JobRuns' = JobRuns /\ InnerRuns(r)' = InnerRuns(r)
  BY RunsStay
<1>2. /\ Runs(r) \in Nat \ {0} /\ JobRuns \in Nat \ {0} /\ InnerRuns(r) \in Nat \ {0}
      /\ attempt[r] \in Nat /\ sends[r] \in Nat /\ Outer(r) \in Nat /\ Inner(r) \in Nat
  BY CountsAre
<1>3. attempt'[r] < Runs(r) /\ repeats'[r] < JobRuns
  BY <1>2 DEF Within
<1>4. Outer(r)' = Outer(r) /\ Inner(r)' \in {0, Inner(r)}
  BY DEF Outer, Inner
<1>5. Inner(r)' = 0 \/ Inner(r)' = Inner(r)
  BY <1>4
<1>6. Outer(r) * InnerRuns(r) \in Nat
  BY <1>2
<1>7. sends[r] <= Outer(r) * InnerRuns(r) + Inner(r)'
  <2>1. CASE at[r] = "queued"
    <3>1. sends[r] <= Outer(r) * InnerRuns(r)
      BY <2>1 DEF Within
    <3>. QED BY <1>2, <1>5, <1>6, <3>1
  <2>2. CASE at[r] = "requeued" /\ way = "limiter"
    <3>1. sends[r] <= Outer(r) * InnerRuns(r) + 0
      BY <2>2 DEF Within
    <3>. QED BY <1>2, <1>5, <1>6, <3>1
  <2>3. CASE at[r] = "requeued" /\ way # "limiter"
    <3>1. sends[r] <= Outer(r) * InnerRuns(r) + Inner(r)
      BY <2>3 DEF Within
    <3>2. Inner(r)' = Inner(r)
      BY <2>3 DEF Inner
    <3>. QED BY <3>1, <3>2
  <2>4. CASE at[r] = "backoff" /\ way = "limiter"
    <3>1. sends[r] <= Outer(r) * InnerRuns(r) + Inner(r)
      BY <2>4 DEF Within
    <3>2. Inner(r)' = Inner(r)
      BY <2>4 DEF Inner
    <3>. QED BY <3>1, <3>2
  <2>. QED BY <2>1, <2>2, <2>3, <2>4
<1>8. sends'[r] <= Outer(r)' * InnerRuns(r) + Inner(r)' + 1
  BY <1>2, <1>4, <1>5, <1>6, <1>7
<1>. QED BY <1>1, <1>3, <1>8 DEF Within

\* One run is over and another is to come, of RetryTransport or of the job.
LEMMA AgainWithin ==
  ASSUME PathTypeOK, NEW r \in Call, Within(r), UNCHANGED <<way, sync>>,
         at[r] = "sent", sends'[r] = sends[r],
         \/ /\ at'[r] = "backoff" /\ attempt[r] + 1 < Runs(r)
            /\ attempt'[r] = attempt[r] + 1 /\ repeats'[r] = repeats[r]
         \/ /\ at'[r] = "requeued" /\ repeats[r] + 1 < JobRuns
            /\ repeats'[r] = repeats[r] + 1 /\ attempt'[r] = attempt[r]
  PROVE  Within(r)'
<1>1. Runs(r)' = Runs(r) /\ JobRuns' = JobRuns /\ InnerRuns(r)' = InnerRuns(r)
  BY RunsStay
<1>2. /\ Runs(r) \in Nat \ {0} /\ JobRuns \in Nat \ {0} /\ InnerRuns(r) \in Nat \ {0}
      /\ attempt[r] \in Nat /\ repeats[r] \in Nat /\ sends[r] \in Nat
      /\ Outer(r) \in Nat /\ Inner(r) \in Nat
  BY CountsAre
<1>3. attempt'[r] < Runs(r) /\ repeats'[r] < JobRuns
  BY DEF Within
<1>4. /\ Outer(r) * InnerRuns(r) \in Nat
      /\ sends[r] <= Outer(r) * InnerRuns(r) + Inner(r) + 1
      /\ Outer(r) * InnerRuns(r) + Inner(r) + 1 <= (Outer(r) + 1) * InnerRuns(r)
  BY WithinBounds
<1>5. (Outer(r) + 1) * InnerRuns(r) \in Nat
  BY <1>2
<1>6. CASE at'[r] = "backoff" /\ way = "limiter"
  <2>1. Outer(r)' = Outer(r) /\ Inner(r)' = Inner(r) + 1
    BY <1>6 DEF Outer, Inner
  <2>2. sends'[r] <= Outer(r)' * InnerRuns(r) + Inner(r)'
    BY <1>2, <1>4, <2>1
  <2>. QED BY <1>1, <1>3, <1>6, <2>2 DEF Within
<1>7. CASE at'[r] = "backoff" /\ way # "limiter"
  <2>1. Outer(r)' = Outer(r) + 1
    BY <1>7 DEF Outer
  <2>2. sends'[r] <= Outer(r)' * InnerRuns(r) + 0
    BY <1>2, <1>4, <1>5, <2>1
  <2>. QED BY <1>1, <1>3, <1>7, <2>2 DEF Within
<1>8. CASE at'[r] = "requeued" /\ way = "limiter"
  <2>1. Outer(r)' = Outer(r) + 1
    BY <1>8 DEF Outer
  <2>2. sends'[r] <= Outer(r)' * InnerRuns(r) + 0
    BY <1>2, <1>4, <1>5, <2>1
  <2>. QED BY <1>1, <1>3, <1>8, <2>2 DEF Within
<1>9. CASE at'[r] = "requeued" /\ way # "limiter"
  <2>1. Outer(r)' = Outer(r) /\ Inner(r)' = Inner(r) + 1
    BY <1>9 DEF Outer, Inner
  <2>2. sends'[r] <= Outer(r)' * InnerRuns(r) + Inner(r)'
    BY <1>2, <1>4, <2>1
  <2>. QED BY <1>1, <1>3, <1>9, <2>2 DEF Within
<1>. QED BY <1>6, <1>7, <1>8, <1>9

\* The request is over, or the step is no news to its counts.
LEMMA RestsWithin ==
  ASSUME PathTypeOK, NEW r \in Call, Within(r), UNCHANGED <<way, sync>>,
         attempt'[r] = attempt[r], repeats'[r] = repeats[r], sends'[r] = sends[r],
         \/ at'[r] = "idle" \/ at'[r] = at[r]
         \/ at[r] = "paused" /\ at'[r] = "queued"
         \/ at[r] = "sent" /\ at'[r] = "lost"
  PROVE  Within(r)'
<1>1. Runs(r)' = Runs(r) /\ JobRuns' = JobRuns /\ InnerRuns(r)' = InnerRuns(r)
  BY RunsStay
<1>2. Outer(r)' = Outer(r) /\ Inner(r)' = Inner(r)
  BY DEF Outer, Inner
<1>3. attempt'[r] < Runs(r) /\ repeats'[r] < JobRuns
  BY DEF Within
<1>4. CASE at'[r] = "idle"
  <2>1. sends'[r] <= Runs(r) * JobRuns
    BY WithinBounds
  <2>. QED BY <1>1, <1>3, <1>4, <2>1 DEF Within
<1>5. CASE at'[r] = at[r]
  BY <1>1, <1>2, <1>5 DEF Within
<1>6. CASE at[r] = "paused" /\ at'[r] = "queued"
  <2>1. sends[r] <= Outer(r) * InnerRuns(r)
    BY <1>6 DEF Within
  <2>. QED BY <1>1, <1>2, <1>3, <1>6, <2>1 DEF Within
<1>7. CASE at[r] = "sent" /\ at'[r] = "lost"
  <2>1. sends[r] <= Outer(r) * InnerRuns(r) + Inner(r) + 1
    BY <1>7 DEF Within
  <2>. QED BY <1>1, <1>2, <1>3, <1>7, <2>1 DEF Within
<1>. QED BY <1>4, <1>5, <1>6, <1>7

-----------------------------------------------------------------------------
(* The steps. *)

LEMMA PathStarts == PathInit => PathInv
<1>. SUFFICES ASSUME PathInit PROVE PathInv
  OBVIOUS
<1>1. PathTypeOK
  <2>1. 0 \in 0 .. TransportRetries /\ 0 \in 0 .. LimiterRetries /\ "idle" \in Places
    BY PathAssumption DEF Places
  <2>2. /\ at \in [Call -> Places] /\ attempt \in [Call -> 0 .. TransportRetries]
        /\ repeats \in [Call -> 0 .. LimiterRetries]
        /\ timer \in [Call -> Nat] /\ sends \in [Call -> Nat]
    BY <2>1 DEF PathInit
  <2>. QED BY <2>2 DEF PathInit, PathTypeOK
<1>2. ASSUME NEW r \in Call PROVE Within(r)
  <2>1. at[r] = "idle" /\ attempt[r] = 0 /\ repeats[r] = 0 /\ sends[r] = 0
    BY DEF PathInit
  <2>2. Runs(r) \in Nat \ {0} /\ JobRuns \in Nat \ {0}
    BY <1>1, CountsAre
  <2>3. Runs(r) * JobRuns \in Nat
    BY <2>2
  <2>. QED BY <2>1, <2>2, <2>3 DEF Within
<1>3. PauseInv
  BY DEF PathInit, PauseInv, Heeds
<1>. QED BY <1>1, <1>2, <1>3 DEF PathInv

\* What a step of r may do to the types.
LEMMA StepTyped ==
  ASSUME PathTypeOK, NEW r \in Call, UNCHANGED <<way, sync, pause, demand, cut>>,
         NEW p \in Places, NEW a \in 0 .. TransportRetries, NEW b \in 0 .. LimiterRetries,
         NEW t \in Nat, NEW s \in Nat,
         at' = [at EXCEPT ![r] = p], attempt' = [attempt EXCEPT ![r] = a],
         repeats' = [repeats EXCEPT ![r] = b], timer' = [timer EXCEPT ![r] = t],
         sends' = [sends EXCEPT ![r] = s],
         cancelled' \subseteq Call, early' \subseteq Call
  PROVE  /\ PathTypeOK' /\ Only(r)
         /\ at'[r] = p /\ attempt'[r] = a /\ repeats'[r] = b /\ timer'[r] = t /\ sends'[r] = s
<1>1. PathTypeOK'
  BY DEF PathTypeOK
<1>2. Only(r)
  BY DEF PathTypeOK, Only
<1>. QED BY <1>1, <1>2 DEF PathTypeOK

\* Begin
LEMMA BeginKeeps ==
  ASSUME PathInv, NEW r \in Call, Begin(r)
  PROVE  PathInv'
<1>1. PathTypeOK /\ Within(r)
  BY DEF PathInv
<1>2. /\ PathTypeOK' /\ Only(r)
      /\ at'[r] = (IF pause > 0 THEN "paused" ELSE "queued")
      /\ attempt'[r] = 0 /\ repeats'[r] = 0 /\ timer'[r] = pause /\ sends'[r] = 0
  <2>1. /\ UNCHANGED <<way, sync, pause, demand, cut, cancelled>>
        /\ early' = early \ {r}
        /\ at' = [at EXCEPT ![r] = IF pause > 0 THEN "paused" ELSE "queued"]
        /\ timer' = [timer EXCEPT ![r] = pause]
        /\ attempt' = [attempt EXCEPT ![r] = 0]
        /\ repeats' = [repeats EXCEPT ![r] = 0]
        /\ sends' = [sends EXCEPT ![r] = 0]
    BY DEF Begin, Enter
  <2>2. /\ cancelled' \subseteq Call /\ early' \subseteq Call /\ pause \in Nat
    BY <1>1, <2>1 DEF PathTypeOK
  <2>3. /\ (IF pause > 0 THEN "paused" ELSE "queued") \in Places
        /\ 0 \in 0 .. TransportRetries /\ 0 \in 0 .. LimiterRetries
    BY PathAssumption DEF Places
  <2>. QED BY <1>1, <2>1, <2>2, <2>3, StepTyped
<1>3. UNCHANGED <<way, sync, pause, demand, cut>> /\ early' = early \ {r}
  BY DEF Begin, Enter
<1>4. Within(r)'
  BY <1>1, <1>2, <1>3, EntersWithin
<1>5. Heeds(r)'
  BY <1>1, <1>2, <1>3 DEF PathInv, PauseInv, PathTypeOK, Heeds
<1>. QED BY <1>2, <1>3, <1>4, <1>5, StepHeeds, StepKeeps

\* Resume
LEMMA ResumeKeeps ==
  ASSUME PathInv, NEW r \in Call, Resume(r)
  PROVE  PathInv'
<1>1. PathTypeOK /\ Within(r) /\ at[r] = "paused" /\ timer[r] = 0
  BY DEF PathInv, Resume
<1>2. /\ UNCHANGED <<way, sync, attempt, repeats, timer, pause, cancelled, sends, early, demand, cut>>
      /\ at' = [at EXCEPT ![r] = "queued"]
  BY DEF Resume, counters, history
<1>3. PathTypeOK' /\ Only(r) /\ at'[r] = "queued"
  BY <1>1, <1>2 DEF PathTypeOK, Only, Places
<1>4. Within(r)'
  BY <1>1, <1>2, <1>3, RestsWithin
<1>5. r \notin early' => Heeds(r)'
  BY <1>1, <1>2, <1>3 DEF PathInv, PauseInv, PathTypeOK, Heeds
<1>. QED BY <1>2, <1>3, <1>4, <1>5, StepHeeds, StepKeeps

\* Admit, AdmitSync and Repeat, and RetryNow where RetryTransport is inside.
LEMMA SentKeeps ==
  ASSUME PathInv, NEW r \in Call, Sent(r),
         \/ at[r] = "queued" \/ at[r] = "requeued"
         \/ at[r] = "backoff" /\ way = "limiter",
         attempt' = IF at[r] = "requeued" /\ way = "limiter"
                      THEN [attempt EXCEPT ![r] = 0] ELSE attempt,
         UNCHANGED <<way, sync, repeats, timer, pause, cancelled, history>>
  PROVE  PathInv'
<1>1. PathTypeOK /\ Within(r) /\ sends[r] \in Nat /\ 0 \in 0 .. TransportRetries
  BY PathAssumption DEF PathInv, PathTypeOK
<1>2. /\ UNCHANGED <<way, sync, repeats, timer, pause, cancelled, early, demand, cut>>
      /\ at' = [at EXCEPT ![r] = "sent"] /\ sends' = [sends EXCEPT ![r] = @ + 1]
  BY DEF Sent, history
<1>3. PathTypeOK' /\ Only(r) /\ at'[r] = "sent" /\ sends'[r] = sends[r] + 1
  <2>1. attempt' \in [Call -> 0 .. TransportRetries]
        /\ \A x \in Call \ {r} : attempt'[x] = attempt[x]
    BY <1>1 DEF PathTypeOK
  <2>. QED BY <1>1, <1>2, <2>1 DEF PathTypeOK, Only, Places
<1>4. \/ at[r] = "requeued" /\ way = "limiter" /\ attempt'[r] = 0
      \/ ~ (at[r] = "requeued" /\ way = "limiter") /\ attempt'[r] = attempt[r]
  BY <1>1 DEF PathTypeOK
<1>5. Within(r)'
  BY <1>1, <1>2, <1>3, <1>4, SentWithin
<1>6. r \notin early' => Heeds(r)'
  BY <1>1, <1>2, <1>3 DEF PathInv, PauseInv, PathTypeOK, Heeds
<1>. QED BY <1>2, <1>3, <1>5, <1>6, StepHeeds, StepKeeps

LEMMA AdmitKeeps ==
  ASSUME PathInv, NEW r \in Call, Admit(r) \/ AdmitSync(r) \/ Repeat(r)
  PROVE  PathInv'
<1>1. CASE Admit(r) \/ AdmitSync(r)
  BY <1>1, SentKeeps DEF Admit, AdmitSync, counters
<1>2. CASE Repeat(r)
  BY <1>2, SentKeeps DEF Repeat
<1>. QED BY <1>1, <1>2

\* RetryNow
LEMMA RetryKeeps ==
  ASSUME PathInv, NEW r \in Call, RetryNow(r)
  PROVE  PathInv'
<1>1. PathTypeOK /\ Within(r) /\ at[r] = "backoff"
  BY DEF PathInv, RetryNow
<1>2. CASE way = "limiter"
  <2>1. Sent(r) /\ UNCHANGED <<way, sync, attempt, repeats, timer, pause, cancelled, history>>
    BY <1>2 DEF RetryNow, history
  <2>. QED BY <1>1, <1>2, <2>1, SentKeeps
<1>3. CASE way # "limiter"
  <2>1. /\ UNCHANGED <<way, sync, pause, demand, cut, cancelled, attempt, sends>>
        /\ early' = early \ {r}
        /\ at' = [at EXCEPT ![r] = IF pause > 0 THEN "paused" ELSE "queued"]
        /\ timer' = [timer EXCEPT ![r] = pause]
        /\ repeats' = [repeats EXCEPT ![r] = 0]
    BY <1>3 DEF RetryNow, Enter
  <2>2. 0 \in 0 .. LimiterRetries
    BY PathAssumption
  <2>3. /\ PathTypeOK' /\ Only(r)
        /\ at'[r] = (IF pause > 0 THEN "paused" ELSE "queued")
        /\ repeats'[r] = 0 /\ timer'[r] = pause
    BY <1>1, <2>1, <2>2 DEF PathTypeOK, Only, Places
  <2>4. Within(r)'
    BY <1>1, <1>3, <2>1, <2>3, EntersWithin
  <2>5. Heeds(r)'
    BY <1>1, <2>1, <2>3 DEF PathInv, PauseInv, PathTypeOK, Heeds
  <2>. QED BY <2>1, <2>3, <2>4, <2>5, StepHeeds, StepKeeps
<1>. QED BY <1>2, <1>3

\* CancelCaller, Succeed, Lose and what gives up: the request is over, or only its
\* caller or its job.
LEMMA EndedKeeps ==
  ASSUME PathInv, NEW r \in Call,
         \/ at' = [at EXCEPT ![r] = "idle"] \/ UNCHANGED at
         \/ at[r] = "sent" /\ at' = [at EXCEPT ![r] = "lost"],
         cancelled' \subseteq Call,
         UNCHANGED <<way, sync, counters, timer, pause, sends, history>>
  PROVE  PathInv'
<1>1. PathTypeOK /\ Within(r)
  BY DEF PathInv
<1>2. UNCHANGED <<way, sync, attempt, repeats, timer, pause, sends, early, demand, cut>>
  BY DEF counters, history
<1>3. PathTypeOK' /\ Only(r) /\ (at'[r] = "idle" \/ at'[r] = at[r] \/ (at[r] = "sent" /\ at'[r] = "lost"))
  BY <1>1, <1>2 DEF PathTypeOK, Only, Places
<1>4. Within(r)'
  BY <1>1, <1>2, <1>3, RestsWithin
<1>5. r \notin early' => Heeds(r)'
  BY <1>1, <1>2, <1>3 DEF PathInv, PauseInv, PathTypeOK, Heeds
<1>. QED BY <1>2, <1>3, <1>4, <1>5, StepHeeds, StepKeeps

\* RetryAfter where another attempt is left, with the pause as it was.
LEMMA BackoffKeeps ==
  ASSUME PathInv, NEW r \in Call, at[r] = "sent", NEW delay \in Nat, RetryAfter(r, delay),
         attempt[r] < TransportRetries, way = "executor" \/ r \notin Unsafe,
         UNCHANGED <<way, sync, repeats, cancelled, sends>>
  PROVE  /\ PathTypeOK /\ Within(r)' /\ Only(r) /\ at'[r] = "backoff"
         /\ at' \in [Call -> Places] /\ attempt' \in [Call -> 0 .. TransportRetries]
         /\ timer' \in [Call -> Nat]
<1>1. PathTypeOK /\ Within(r)
  BY DEF PathInv
<1>2. /\ at' = [at EXCEPT ![r] = "backoff"]
      /\ attempt' = [attempt EXCEPT ![r] = @ + 1]
      /\ timer' = [timer EXCEPT ![r] = delay]
  BY DEF RetryAfter
<1>3. attempt[r] + 1 \in 0 .. TransportRetries /\ attempt[r] + 1 < Runs(r)
  <2>1. attempt[r] \in 0 .. TransportRetries /\ TransportRetries \in Nat
    BY <1>1, PathAssumption DEF PathTypeOK
  <2>. QED BY <2>1 DEF Runs
<1>4. /\ Only(r) /\ at'[r] = "backoff" /\ attempt'[r] = attempt[r] + 1
      /\ at' \in [Call -> Places] /\ attempt' \in [Call -> 0 .. TransportRetries]
      /\ timer' \in [Call -> Nat]
  BY <1>1, <1>2, <1>3 DEF PathTypeOK, Only, Places
<1>5. Within(r)'
  BY <1>1, <1>3, <1>4, AgainWithin
<1>. QED BY <1>1, <1>4, <1>5

\* RetryAfter, from Refuse, Fail, FailSync and RetryExecutor.
LEMMA RetryAfterKeeps ==
  ASSUME PathInv, NEW r \in Call, at[r] = "sent", NEW delay \in Nat, RetryAfter(r, delay),
         attempt[r] < TransportRetries, way = "executor" \/ r \notin Unsafe,
         UNCHANGED <<way, sync, repeats, cancelled, sends, pause, history>>
  PROVE  PathInv'
<1>1. /\ PathTypeOK /\ Within(r)' /\ Only(r) /\ at'[r] = "backoff"
      /\ at' \in [Call -> Places] /\ attempt' \in [Call -> 0 .. TransportRetries]
      /\ timer' \in [Call -> Nat]
  BY BackoffKeeps
<1>2. PathTypeOK' /\ UNCHANGED <<pause, demand, cut, early>>
  BY <1>1 DEF PathTypeOK, history
<1>3. r \notin early' => Heeds(r)'
  BY <1>1, <1>2 DEF PathInv, PauseInv, Heeds
<1>. QED BY <1>1, <1>2, <1>3, StepHeeds, StepKeeps

\* A pause is set.  Whoever is on its way was past the check.
LEMMA PauseHeeds ==
  ASSUME PathTypeOK, PauseInv, NEW r \in Call, NEW wait \in Nat, Pause(wait), at[r] # "idle",
         \A x \in Call \ {r} : at'[x] = at[x]
  PROVE  PauseInv'
<1>1. /\ pause' = wait /\ demand' = IF wait > demand THEN wait ELSE demand
      /\ cut' = (cut \/ wait < demand) /\ early' = {x \in Call : at[x] # "idle"}
  BY DEF Pause
<1>2. cut' \/ demand' <= pause'
  <2>1. demand \in Nat
    BY DEF PathTypeOK
  <2>2. CASE wait < demand
    BY <1>1, <2>2
  <2>3. CASE ~ (wait < demand)
    <3>1. wait = demand \/ wait > demand
      BY <2>1, <2>3
    <3>2. demand' = wait
      BY <1>1, <3>1
    <3>. QED BY <1>1, <3>2
  <2>. QED BY <2>2, <2>3
<1>3. ASSUME NEW x \in Call \ early' PROVE Heeds(x)'
  <2>1. at[x] = "idle" /\ x # r
    BY <1>1, <1>3
  <2>2. at'[x] = "idle"
    BY <2>1
  <2>. QED BY <2>2 DEF Heeds
<1>. QED BY <1>2, <1>3 DEF PauseInv

\* Refuse and Throttle
LEMMA RefuseKeeps ==
  ASSUME PathInv, NEW r \in Call, Refuse(r)
  PROVE  PathInv'
<1>1. /\ at[r] = "sent" /\ Refused(r, Backoffs) /\ UNCHANGED <<way, sync, repeats, pause, sends, history>>
  BY DEF Refuse
<1>2. CASE CanRetry(r) /\ UNCHANGED cancelled /\ \E delay \in Backoffs : RetryAfter(r, delay)
  <2>1. PICK delay \in Backoffs : RetryAfter(r, delay)
    BY <1>2
  <2>2. delay \in Nat /\ attempt[r] < TransportRetries /\ r \notin Unsafe
    BY <1>2, PathAssumption DEF CanRetry
  <2>. QED BY <1>1, <1>2, <2>1, <2>2, RetryAfterKeeps
<1>3. CASE ~ CanRetry(r) /\ Ended(r) /\ UNCHANGED <<attempt, timer>>
  <2>1. cancelled' \subseteq Call
    BY <1>3 DEF PathInv, PathTypeOK, Ended
  <2>. QED BY <1>1, <1>3, <2>1, EndedKeeps DEF Ended, counters
<1>. QED BY <1>1, <1>2, <1>3 DEF Refused

LEMMA PausedKeeps ==
  ASSUME PathInv, NEW r \in Call, NEW wait \in Waits, at[r] = "sent", Refused(r, {wait}),
         Pause(wait), UNCHANGED <<way, sync, repeats, sends>>
  PROVE  PathInv'
<1>1. PathTypeOK /\ Within(r) /\ PauseInv /\ wait \in Nat /\ at[r] # "idle"
  BY PathAssumption DEF PathInv
<1>2. /\ Within(r)' /\ Only(r) /\ cancelled' \subseteq Call
      /\ at' \in [Call -> Places] /\ attempt' \in [Call -> 0 .. TransportRetries]
      /\ timer' \in [Call -> Nat]
  <2>1. CASE CanRetry(r) /\ UNCHANGED cancelled /\ \E delay \in {wait} : RetryAfter(r, delay)
    <3>1. RetryAfter(r, wait) /\ attempt[r] < TransportRetries /\ r \notin Unsafe
      BY <2>1 DEF CanRetry
    <3>2. cancelled' \subseteq Call
      BY <1>1, <2>1 DEF PathTypeOK
    <3>. QED BY <1>1, <2>1, <3>1, <3>2, BackoffKeeps
  <2>2. CASE ~ CanRetry(r) /\ Ended(r) /\ UNCHANGED <<attempt, timer>>
    <3>1. /\ at' = [at EXCEPT ![r] = "idle"] /\ cancelled' \subseteq Call
      BY <1>1, <2>2 DEF Ended, PathTypeOK
    <3>2. /\ at'[r] = "idle" /\ Only(r) /\ at' \in [Call -> Places]
          /\ attempt' \in [Call -> 0 .. TransportRetries] /\ timer' \in [Call -> Nat]
      BY <1>1, <2>2, <3>1 DEF PathTypeOK, Only, Places
    <3>3. Within(r)'
      BY <1>1, <2>2, <3>2, RestsWithin
    <3>. QED BY <3>1, <3>2, <3>3
  <2>. QED BY <2>1, <2>2 DEF Refused
<1>3. PathTypeOK'
  <2>1. /\ pause' \in Nat /\ demand' \in Nat /\ cut' \in BOOLEAN /\ early' \subseteq Call
    BY <1>1 DEF Pause, PathTypeOK
  <2>. QED BY <1>1, <1>2, <2>1 DEF PathTypeOK
<1>4. PauseInv'
  BY <1>1, <1>2, PauseHeeds DEF Only
<1>. QED BY <1>2, <1>3, <1>4, StepKeeps

LEMMA ThrottleKeeps ==
  ASSUME PathInv, NEW r \in Call, NEW wait \in Waits, Throttle(r, wait)
  PROVE  PathInv'
<1>1. at[r] = "sent" /\ Refused(r, {wait}) /\ UNCHANGED <<way, sync, repeats, sends>>
  BY DEF Throttle
<1>2. CASE Pause(wait)
  BY <1>1, <1>2, PausedKeeps
<1>3. CASE way = "limiter" /\ CanRetry(r) /\ UNCHANGED <<pause, history>>
  <2>1. /\ UNCHANGED cancelled /\ RetryAfter(r, wait) /\ wait \in Nat
        /\ attempt[r] < TransportRetries /\ r \notin Unsafe
    BY <1>1, <1>3, PathAssumption DEF Refused, CanRetry
  <2>. QED BY <1>1, <1>3, <2>1, RetryAfterKeeps
<1>. QED BY <1>2, <1>3 DEF Throttle

\* Requeue
LEMMA RequeueKeeps ==
  ASSUME PathInv, NEW r \in Call, NEW errors, Requeue(r, errors)
  PROVE  PathInv'
<1>1. /\ PathTypeOK /\ Within(r) /\ at[r] = "sent" /\ ~ sync /\ repeats[r] < LimiterRetries
  BY DEF PathInv, Requeue, CanRepeat
<1>2. PICK delay \in Backoffs : timer' = [timer EXCEPT ![r] = delay]
  BY DEF Requeue
<1>3. /\ UNCHANGED <<way, sync, attempt, pause, cancelled, sends, early, demand, cut>>
      /\ at' = [at EXCEPT ![r] = "requeued"] /\ repeats' = [repeats EXCEPT ![r] = @ + 1]
  BY DEF Requeue, history
<1>4. repeats[r] + 1 \in 0 .. LimiterRetries /\ repeats[r] + 1 < JobRuns
  <2>1. repeats[r] \in 0 .. LimiterRetries /\ LimiterRetries \in Nat
    BY <1>1, PathAssumption DEF PathTypeOK
  <2>. QED BY <1>1, <2>1 DEF JobRuns
<1>5. /\ PathTypeOK' /\ Only(r) /\ at'[r] = "requeued" /\ repeats'[r] = repeats[r] + 1
  <2>1. delay \in Nat
    BY PathAssumption
  <2>. QED BY <1>1, <1>2, <1>3, <1>4, <2>1 DEF PathTypeOK, Only, Places
<1>6. Within(r)'
  BY <1>1, <1>3, <1>4, <1>5, AgainWithin
<1>7. r \notin early' => Heeds(r)'
  BY <1>1, <1>3, <1>5 DEF PathInv, PauseInv, Heeds
<1>. QED BY <1>3, <1>5, <1>6, <1>7, StepHeeds, StepKeeps

\* Fail, FailSync, ExecuteAsync and ExecuteSync
LEMMA RaisedKeeps ==
  ASSUME PathInv, NEW r \in Call, NEW retries \in BOOLEAN, at[r] = "sent", Raised(r, retries),
         retries => /\ attempt[r] < TransportRetries
                    /\ way = "executor" \/ r \notin Unsafe
  PROVE  PathInv'
<1>1. UNCHANGED <<way, sync, repeats, pause, sends, history>>
  BY DEF Raised
<1>2. CASE retries /\ UNCHANGED cancelled /\ \E delay \in Backoffs : RetryAfter(r, delay)
  <2>1. PICK delay \in Backoffs : RetryAfter(r, delay)
    BY <1>2
  <2>2. delay \in Nat
    BY PathAssumption
  <2>. QED BY <1>1, <1>2, <2>1, <2>2, RetryAfterKeeps
<1>3. CASE ~ retries /\ Ended(r) /\ UNCHANGED <<attempt, timer>>
  <2>1. cancelled' \subseteq Call
    BY <1>3 DEF PathInv, PathTypeOK, Ended
  <2>. QED BY <1>1, <1>3, <2>1, EndedKeeps DEF Ended, counters
<1>. QED BY <1>2, <1>3 DEF Raised

LEMMA FailKeeps ==
  ASSUME PathInv, NEW r \in Call, NEW errors,
         Fail(r, errors) \/ FailSync(r, errors) \/ ExecuteAsync(r, errors) \/ ExecuteSync(r, errors)
  PROVE  PathInv'
<1>1. CASE Fail(r, errors) \/ FailSync(r, errors)
  <2>1. at[r] = "sent" /\ Raised(r, "retry" \in errors /\ CanRetry(r))
    BY <1>1 DEF Fail, FailSync
  <2>. QED BY <2>1, RaisedKeeps DEF CanRetry
<1>2. CASE ExecuteAsync(r, errors)
  <2>1. at[r] = "sent" /\ way = "executor" /\ Raised(r, Listening(r) /\ ShouldRetryAttempt(r, errors))
    BY <1>2 DEF ExecuteAsync
  <2>. QED BY <2>1, RaisedKeeps DEF ShouldRetryAttempt
<1>3. CASE ExecuteSync(r, errors)
  <2>1. at[r] = "sent" /\ way = "executor" /\ Raised(r, ShouldRetryAttempt(r, errors))
    BY <1>3 DEF ExecuteSync
  <2>. QED BY <2>1, RaisedKeeps DEF ShouldRetryAttempt
<1>. QED BY <1>1, <1>2, <1>3

\* Tick
LEMMA TickKeeps ==
  ASSUME PathInv, Tick
  PROVE  PathInv'
<1>1. /\ PathTypeOK /\ PauseInv
      /\ UNCHANGED <<way, sync, at, attempt, repeats, cancelled, sends, early>>
      /\ timer' = [x \in Call |-> CountDown(timer[x])] /\ pause' = CountDown(pause)
      /\ demand' = CountDown(demand) /\ cut' = (cut /\ demand > 1)
  BY DEF PathInv, Tick, counters
<1>2. ASSUME NEW n \in Nat PROVE CountDown(n) \in Nat
  BY DEF CountDown
<1>3. PathTypeOK'
  <2>1. timer' \in [Call -> Nat] /\ pause' \in Nat /\ demand' \in Nat /\ cut' \in BOOLEAN
    BY <1>1, <1>2 DEF PathTypeOK
  <2>. QED BY <1>1, <2>1 DEF PathTypeOK
<1>4. ASSUME NEW x \in Call PROVE Within(x)'
  <2>1. Within(x)
    BY DEF PathInv
  <2>. QED BY <1>1, <2>1, RestsWithin
<1>5. ASSUME NEW n \in Nat, cut \/ demand <= n
      PROVE  cut' \/ demand' <= CountDown(n)
  <2>1. demand \in Nat
    BY <1>1 DEF PathTypeOK
  <2>2. CASE demand <= n
    <3>1. CountDown(demand) <= CountDown(n)
      BY <2>1, <2>2 DEF CountDown
    <3>. QED BY <1>1, <3>1
  <2>3. CASE cut /\ demand > 1
    BY <1>1, <2>3
  <2>4. CASE ~ (demand > 1)
    <3>1. CountDown(demand) = 0 /\ CountDown(n) \in Nat
      BY <2>1, <2>4 DEF CountDown
    <3>2. CountDown(demand) <= CountDown(n)
      BY <3>1
    <3>. QED BY <1>1, <3>2
  <2>. QED BY <1>5, <2>2, <2>3, <2>4
<1>6. demand = 0 => demand' = 0
  BY <1>1 DEF CountDown
<1>7. cut => cut' \/ demand' = 0
  <2>1. demand \in Nat
    BY <1>1 DEF PathTypeOK
  <2>2. CASE demand > 1
    BY <1>1, <2>2
  <2>3. CASE ~ (demand > 1)
    <3>1. CountDown(demand) = 0
      BY <2>1, <2>3 DEF CountDown
    <3>. QED BY <1>1, <3>1
  <2>. QED BY <2>2, <2>3
<1>8. ASSUME NEW x \in Call \ early' PROVE Heeds(x)'
  <2>1. Heeds(x) /\ timer[x] \in Nat /\ timer'[x] = CountDown(timer[x]) /\ at'[x] = at[x]
    BY <1>1, <1>8 DEF PauseInv, PathTypeOK
  <2>2. at'[x] = "paused" => cut' \/ demand' <= timer'[x]
    BY <1>5, <2>1 DEF Heeds
  <2>. QED BY <1>1, <1>6, <1>7, <2>1, <2>2 DEF Heeds
<1>9. PauseInv'
  <2>1. cut' \/ demand' <= pause'
    BY <1>1, <1>5 DEF PauseInv, PathTypeOK
  <2>. QED BY <1>8, <2>1 DEF PauseInv
<1>. QED BY <1>3, <1>4, <1>9 DEF PathInv

LEMMA PathStutters ==
  ASSUME PathInv, UNCHANGED pathVars
  PROVE  PathInv'
<1>1. /\ PathTypeOK /\ PauseInv
      /\ UNCHANGED <<way, sync, at, attempt, repeats, timer, pause, cancelled, sends, early, demand, cut>>
  BY DEF PathInv, pathVars, counters, history
<1>2. PathTypeOK'
  BY <1>1 DEF PathTypeOK
<1>3. ASSUME NEW x \in Call PROVE Within(x)'
  BY <1>1, RestsWithin DEF PathInv
<1>4. PauseInv'
  BY <1>1 DEF PauseInv, Heeds
<1>. QED BY <1>2, <1>3, <1>4 DEF PathInv

LEMMA PathSteps == PathInv /\ [PathNext]_pathVars => PathInv'
<1>. SUFFICES ASSUME PathInv, [PathNext]_pathVars PROVE PathInv'
  OBVIOUS
<1>1. CASE UNCHANGED pathVars
  BY <1>1, PathStutters
<1>2. CASE Tick
  BY <1>2, TickKeeps
<1>3. ASSUME NEW r \in Call, Begin(r) \/ GoOn(r) \/ Answer(r) \/ CancelCaller(r)
      PROVE  PathInv'
  <2>1. CASE Begin(r)
    BY <2>1, BeginKeeps
  <2>2. CASE GoOn(r)
    BY <2>2, ResumeKeeps, AdmitKeeps, RetryKeeps DEF GoOn
  <2>3. CASE Succeed(r)
    <3>1. cancelled' \subseteq Call
      BY <2>3 DEF PathInv, PathTypeOK, Succeed, Ended
    <3>. QED BY <2>3, <3>1, EndedKeeps DEF Succeed, Ended
  <2>10. CASE Lose(r)
    <3>1. cancelled' \subseteq Call
      BY <2>10 DEF PathInv, PathTypeOK, Lose, Ended
    <3>. QED BY <2>10, <3>1, EndedKeeps DEF Lose, Ended
  <2>4. CASE Refuse(r)
    BY <2>4, RefuseKeeps
  <2>5. CASE \E wait \in Waits : Throttle(r, wait)
    BY <2>5, ThrottleKeeps
  <2>6. ASSUME NEW errors,
               \/ Requeue(r, errors) \/ Fail(r, errors) \/ FailSync(r, errors)
               \/ ExecuteAsync(r, errors) \/ ExecuteSync(r, errors)
        PROVE  PathInv'
    BY <2>6, RequeueKeeps, FailKeeps
  <2>7. CASE Answer(r)
    BY <2>3, <2>4, <2>5, <2>6, <2>7, <2>10 DEF Answer
  <2>8. CASE CancelCaller(r)
    <3>1. cancelled' \subseteq Call
      BY <2>8 DEF PathInv, PathTypeOK, CancelCaller, Ended
    <3>. QED BY <2>8, <3>1, EndedKeeps DEF CancelCaller, Ended
  <2>. QED BY <1>3, <2>1, <2>2, <2>7, <2>8
<1>. QED BY <1>1, <1>2, <1>3 DEF PathNext

\* PathInv holds, whatever the transports are told to retry and however the
\* answers, the errors, the pauses and the cancellations of callers fall.
THEOREM PathInductive == PathSpec => []PathInv
BY PathStarts, PathSteps, PTL DEF PathSpec

\* SendsBounded: no more sends than the retries of both kinds together.
THEOREM SendsAreBounded == PathSpec => []SendsBounded
<1>1. PathInv => SendsBounded
  <2>. SUFFICES ASSUME PathInv, NEW r \in Call
                PROVE  sends[r] <= Runs(r) * (IF sync THEN 1 ELSE 1 + LimiterRetries)
    BY DEF SendsBounded
  <2>1. sends[r] <= Runs(r) * JobRuns
    BY WithinBounds DEF PathInv
  <2>. QED BY <2>1 DEF JobRuns
<1>. QED BY <1>1, PathInductive, PTL

\* A step that sends one request more is Admit, AdmitSync, Repeat or the retry
\* of a RetryTransport that is inside.
LEMMA SendersAre ==
  ASSUME PathTypeOK, [PathNext]_pathVars, NEW r \in Call, sends'[r] > sends[r]
  PROVE  \/ at[r] \in {"queued", "requeued"}
         \/ at[r] = "backoff" /\ way = "limiter"
<1>1. ~ (sends[r] > sends[r]) /\ ~ (0 > sends[r])
  BY DEF PathTypeOK
<1>2. sends' # sends
  BY <1>1
<1>3. PICK x \in Call : Begin(x) \/ GoOn(x) \/ Answer(x) \/ CancelCaller(x)
  BY <1>2 DEF PathNext, Tick, pathVars
<1>4. Begin(x) \/ Admit(x) \/ AdmitSync(x) \/ Repeat(x) \/ (RetryNow(x) /\ way = "limiter")
  <2>1. Answer(x) \/ CancelCaller(x) \/ Resume(x) => UNCHANGED sends
    BY DEF Answer, CancelCaller, Resume, Succeed, Refuse, Throttle, Requeue, Fail, FailSync,
           Lose, ExecuteAsync, ExecuteSync, Raised
  <2>2. RetryNow(x) => way = "limiter" \/ UNCHANGED sends
    BY DEF RetryNow
  <2>. QED BY <1>2, <1>3, <2>1, <2>2 DEF GoOn
<1>5. sends \in [Call -> Nat]
  BY DEF PathTypeOK
<1>6. CASE Begin(x)
  <2>1. sends'[r] = 0 \/ sends'[r] = sends[r]
    BY <1>5, <1>6 DEF Begin
  <2>. QED BY <1>1, <2>1
<1>7. CASE Admit(x) \/ AdmitSync(x) \/ Repeat(x) \/ (RetryNow(x) /\ way = "limiter")
  <2>1. Sent(x)
    BY <1>7 DEF Admit, AdmitSync, Repeat, RetryNow
  <2>2. r = x
    BY <1>1, <1>5, <2>1 DEF Sent
  <2>. QED BY <1>7, <2>2 DEF Admit, AdmitSync, Repeat, RetryNow
<1>. QED BY <1>4, <1>6, <1>7

\* PauseRespected: what is sent while a wait that was asked for lasts was past
\* the check when the pause was set.
THEOREM PauseIsRespected == PathSpec => PauseRespected
<1>. DEFINE Respects == \A r \in Call : sends'[r] > sends[r] /\ demand > 0 => r \in early \/ cut
<1>1. PathInv /\ [PathNext]_pathVars => [Respects]_pathVars
  <2>. SUFFICES ASSUME PathInv, [PathNext]_pathVars, NEW r \in Call,
                       sends'[r] > sends[r], demand > 0, r \notin early
                PROVE  cut
    OBVIOUS
  <2>1. PathTypeOK /\ Heeds(r) /\ demand # 0
    BY DEF PathInv, PauseInv, PathTypeOK
  <2>. QED BY <2>1, SendersAre DEF Heeds
<1>2. PauseRespected <=> [][Respects]_pathVars
  BY DEF PauseRespected
<1>. HIDE DEF Respects
<1>. QED BY <1>1, <1>2, PathInductive, PTL DEF PathSpec
================================================================================
