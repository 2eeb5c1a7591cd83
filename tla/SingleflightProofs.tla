-------------------------- MODULE SingleflightProofs --------------------------
(***************************************************************************)
(* Proofs about Singleflight, for any number of tasks, fingerprints and    *)
(* flights.                                                                *)
(***************************************************************************)
EXTENDS Singleflight, TLAPS

USE DEF Leaders, Entries, FutureStates

\* What holds of flights, entries and tasks whatever happened.
Shape == TypeOK /\ NoSharing /\ AwaitsFlight /\ OwnEntry

\* Each action keeps the types.
LEMMA TypeStep == TypeOK /\ [Next]_vars => TypeOK'
<1> SUFFICES ASSUME TypeOK, [Next]_vars PROVE TypeOK'
  OBVIOUS
<1> USE DEF TypeOK
<1>1. CASE Clear
  BY <1>1 DEF Clear, Happens
<1>2. ASSUME NEW t \in Task, NEW k \in Fingerprint, Lead(t, k) PROVE TypeOK'
  BY <1>2 DEF Lead, Awaits
<1>3. ASSUME NEW t \in Task, NEW k \in Fingerprint, Join(t, k) PROVE TypeOK'
  BY <1>3, FlightAssumption DEF Join, Subscribe, Awaits
<1>4. ASSUME NEW t \in Task, NEW k \in Fingerprint, JoinDone(t, k) PROVE TypeOK'
  BY <1>4, FlightAssumption DEF JoinDone, Subscribe
<1>5. ASSUME NEW t \in Task, Resume(t) PROVE TypeOK'
  BY <1>5 DEF Resume, Returns
<1>6. ASSUME NEW t \in Task, NEW o \in Outcomes, Finish(t, o) PROVE TypeOK'
  BY <1>6 DEF Finish, Settle, Returns, Outcomes
<1>7. ASSUME NEW t \in Task, FinishCancelled(t) PROVE TypeOK'
  BY <1>7 DEF FinishCancelled, Returns
<1>8. ASSUME NEW t \in Task, CancelLeader(t) PROVE TypeOK'
  BY <1>8 DEF CancelLeader, Returns, Happens
<1>9. ASSUME NEW t \in Task, CancelFollower(t) PROVE TypeOK'
  BY <1>9 DEF CancelFollower, Returns, Happens
<1>10. CASE UNCHANGED vars
  BY <1>10 DEF vars
<1> QED
  BY <1>1, <1>2, <1>3, <1>4, <1>5, <1>6, <1>7, <1>8, <1>9, <1>10
  DEF Next, Call, End, Cancel

-----------------------------------------------------------------------------
(* Flights are not shared, and a leader removes only its own entry.        *)

\* The effect of Lead: a flight nobody knew is led and registered under k.
LEMMA LeadEffect ==
  ASSUME Shape, NEW t \in Task, NEW k \in Fingerprint, Lead(t, k)
  PROVE  \E f \in Flight :
           /\ pc[t] = "ready" /\ inFlight[k] = NoFlight /\ f # NoFlight
           /\ \A j \in Fingerprint : inFlight[j] # f
           /\ \A u \in Task : flight[u] # f
           /\ \A u \in Task : pc'[u] = IF u = t THEN "leading" ELSE pc[u]
           /\ \A u \in Task : key'[u] = IF u = t THEN k ELSE key[u]
           /\ \A u \in Task : flight'[u] = IF u = t THEN f ELSE flight[u]
           /\ \A j \in Fingerprint : inFlight'[j] = IF j = k THEN f ELSE inFlight[j]
           /\ \A g \in Flight : future'[g] = IF g = f THEN "pending" ELSE future[g]
           /\ past' = past
BY FlightAssumption DEF Shape, TypeOK, Lead, Fresh, Awaits

\* The effect of Finish: the leader's entry is gone and its future is done.
LEMMA FinishEffect ==
  ASSUME Shape, NEW t \in Task, NEW o \in Outcomes, Finish(t, o)
  PROVE  /\ pc[t] = "leading" /\ flight[t] \in Flight /\ o # "pending"
         /\ \A u \in Task : pc'[u] = IF u = t THEN "ready" ELSE pc[u]
         /\ \A u \in Task : flight'[u] = IF u = t THEN NoFlight ELSE flight[u]
         /\ \A j \in Fingerprint :
              inFlight'[j] = IF j = key[t] THEN NoFlight ELSE inFlight[j]
         /\ \A g \in Flight : future'[g] = IF g = flight[t] THEN o ELSE future[g]
         /\ key' = key /\ past' = past
BY DEF Shape, TypeOK, AwaitsFlight, Finish, Settle, Returns, Outcomes

\* A task that returns changes nothing of the store.
LEMMA ReturnEffect ==
  ASSUME Shape, NEW t \in Task,
         Resume(t) \/ FinishCancelled(t) \/ CancelLeader(t) \/ CancelFollower(t)
  PROVE  /\ \A u \in Task : pc'[u] = IF u = t THEN "ready" ELSE pc[u]
         /\ \A u \in Task : flight'[u] = IF u = t THEN NoFlight ELSE flight[u]
         /\ inFlight' = inFlight /\ key' = key /\ past \subseteq past'
         /\ "cancel" \notin past' => future' = future /\ past' = past
BY DEF Shape, TypeOK, Resume, FinishCancelled, CancelLeader, CancelFollower, Happens, Returns

\* A call that joins a flight: the store and the futures stay.
LEMMA JoinEffect ==
  ASSUME Shape, NEW t \in Task, NEW k \in Fingerprint, Join(t, k)
  PROVE  /\ pc[t] = "ready" /\ inFlight[k] \in Flight /\ future[inFlight[k]] = "pending"
         /\ \A u \in Task : pc'[u] = IF u = t THEN "joined" ELSE pc[u]
         /\ \A u \in Task : key'[u] = IF u = t THEN k ELSE key[u]
         /\ \A u \in Task : flight'[u] = IF u = t THEN inFlight[k] ELSE flight[u]
         /\ inFlight' = inFlight /\ future' = future /\ past' = past
BY DEF Shape, TypeOK, Join, Subscribe, Awaits

LEMMA ShapeStep == Shape /\ [Next]_vars => Shape'
<1> SUFFICES ASSUME Shape, [Next]_vars PROVE Shape'
  OBVIOUS
<1>1. TypeOK'
  BY TypeStep DEF Shape
<1> DEFINE Goal == (NoSharing /\ AwaitsFlight /\ OwnEntry)'
<1> USE DEF NoSharing, AwaitsFlight, OwnEntry
<1>2. CASE Clear
  <2>1. /\ pc' = pc /\ key' = key /\ flight' = flight
        /\ \A j \in Fingerprint : inFlight'[j] = NoFlight
    BY <1>2 DEF Clear
  <2> QED
    BY <1>1, <2>1 DEF Shape
<1>3. ASSUME NEW t \in Task, NEW k \in Fingerprint, Lead(t, k) PROVE Goal
  <2>1. PICK f \in Flight :
          /\ inFlight[k] = NoFlight /\ f # NoFlight
          /\ \A j \in Fingerprint : inFlight[j] # f
          /\ \A u \in Task : flight[u] # f
          /\ \A u \in Task : pc'[u] = IF u = t THEN "leading" ELSE pc[u]
          /\ \A u \in Task : key'[u] = IF u = t THEN k ELSE key[u]
          /\ \A u \in Task : flight'[u] = IF u = t THEN f ELSE flight[u]
          /\ \A j \in Fingerprint : inFlight'[j] = IF j = k THEN f ELSE inFlight[j]
    BY <1>3, LeadEffect
  <2>2. NoSharing' /\ AwaitsFlight'
    BY <2>1 DEF Shape
  <2>3. OwnEntry'
    BY <2>1 DEF Shape
  <2> QED
    BY <2>2, <2>3
<1>4. ASSUME NEW t \in Task, NEW k \in Fingerprint, Join(t, k) PROVE Goal
  <2>1. /\ pc[t] = "ready" /\ inFlight[k] \in Flight /\ inFlight[k] # NoFlight
        /\ \A u \in Task : pc'[u] = IF u = t THEN "joined" ELSE pc[u]
        /\ \A u \in Task : key'[u] = IF u = t THEN k ELSE key[u]
        /\ \A u \in Task : flight'[u] = IF u = t THEN inFlight[k] ELSE flight[u]
        /\ inFlight' = inFlight
    BY <1>4, JoinEffect, FlightAssumption
  <2> QED
    BY <2>1 DEF Shape
<1>5. ASSUME NEW t \in Task, NEW k \in Fingerprint, JoinDone(t, k) PROVE Goal
  BY <1>5 DEF JoinDone, Shape
<1>6. ASSUME NEW t \in Task,
             Resume(t) \/ FinishCancelled(t) \/ CancelLeader(t) \/ CancelFollower(t)
      PROVE Goal
  BY <1>6, ReturnEffect DEF Shape
<1>7. ASSUME NEW t \in Task, NEW o \in Outcomes, Finish(t, o) PROVE Goal
  <2>1. /\ \A u \in Task : pc'[u] = IF u = t THEN "ready" ELSE pc[u]
        /\ \A u \in Task : flight'[u] = IF u = t THEN NoFlight ELSE flight[u]
        /\ \A j \in Fingerprint :
             inFlight'[j] = IF j = key[t] THEN NoFlight ELSE inFlight[j]
        /\ key' = key
    BY <1>7, FinishEffect
  <2>2. NoSharing' /\ AwaitsFlight'
    BY <2>1 DEF Shape
  <2>3. OwnEntry'
    BY <2>1, FlightAssumption DEF Shape
  <2> QED
    BY <2>2, <2>3
<1>8. CASE UNCHANGED vars
  BY <1>8, <1>1 DEF vars, Shape
<1> QED
  BY <1>1, <1>2, <1>3, <1>4, <1>5, <1>6, <1>7, <1>8 DEF Next, Call, End, Cancel, Shape

-----------------------------------------------------------------------------
(* One execution per fingerprint: until clear(), a leader's flight stays   *)
(* in the store.                                                           *)

LEMMA RegisteredStep ==
  ASSUME Shape, Registered, [Next]_vars, "clear" \notin past'
  PROVE  Registered'
<1> USE DEF Registered, Shape
<1>1. ASSUME NEW t \in Task, NEW k \in Fingerprint, Lead(t, k) PROVE Registered'
  <2>1. PICK f \in Flight :
          /\ inFlight[k] = NoFlight
          /\ \A u \in Task : pc'[u] = IF u = t THEN "leading" ELSE pc[u]
          /\ \A u \in Task : key'[u] = IF u = t THEN k ELSE key[u]
          /\ \A u \in Task : flight'[u] = IF u = t THEN f ELSE flight[u]
          /\ \A j \in Fingerprint : inFlight'[j] = IF j = k THEN f ELSE inFlight[j]
    BY <1>1, LeadEffect
  <2> QED
    BY <2>1 DEF TypeOK, AwaitsFlight
<1>2. ASSUME NEW t \in Task, NEW k \in Fingerprint, Join(t, k) PROVE Registered'
  BY <1>2, JoinEffect
<1>3. ASSUME NEW t \in Task, NEW k \in Fingerprint, JoinDone(t, k) PROVE Registered'
  BY <1>3 DEF JoinDone
<1>4. ASSUME NEW t \in Task,
             Resume(t) \/ FinishCancelled(t) \/ CancelLeader(t) \/ CancelFollower(t)
      PROVE Registered'
  BY <1>4, ReturnEffect
<1>5. ASSUME NEW t \in Task, NEW o \in Outcomes, Finish(t, o) PROVE Registered'
  <2>1. /\ pc[t] = "leading" /\ key' = key
        /\ \A u \in Task : pc'[u] = IF u = t THEN "ready" ELSE pc[u]
        /\ \A u \in Task : flight'[u] = IF u = t THEN NoFlight ELSE flight[u]
        /\ \A j \in Fingerprint :
             inFlight'[j] = IF j = key[t] THEN NoFlight ELSE inFlight[j]
    BY <1>5, FinishEffect
  <2>2. \A u \in Leaders : u # t => key[u] # key[t]
    BY <2>1 DEF NoSharing
  <2> QED
    BY <2>1, <2>2 DEF TypeOK
<1>6. ~ Clear
  BY DEF Clear, Happens, TypeOK
<1>7. ASSUME UNCHANGED vars PROVE Registered'
  BY <1>7 DEF vars
<1> QED
  BY <1>1, <1>2, <1>3, <1>4, <1>5, <1>6, <1>7 DEF Next, Call, End, Cancel

-----------------------------------------------------------------------------
(* A flight in the store is under way, even across clear().                *)

LEMMA PendingStep ==
  ASSUME Shape, AllPending, [Next]_vars, "cancel" \notin past'
  PROVE  AllPending'
<1> USE DEF AllPending, Shape
<1>1. ASSUME NEW t \in Task, NEW k \in Fingerprint, Lead(t, k) PROVE AllPending'
  <2>1. PICK f \in Flight :
          /\ \A j \in Fingerprint : inFlight'[j] = IF j = k THEN f ELSE inFlight[j]
          /\ \A g \in Flight : future'[g] = IF g = f THEN "pending" ELSE future[g]
    BY <1>1, LeadEffect
  <2> QED
    BY <2>1 DEF TypeOK
<1>2. ASSUME NEW t \in Task, NEW k \in Fingerprint, Join(t, k) PROVE AllPending'
  BY <1>2, JoinEffect
<1>3. ASSUME NEW t \in Task, NEW k \in Fingerprint, JoinDone(t, k) PROVE AllPending'
  BY <1>3 DEF JoinDone
<1>4. ASSUME NEW t \in Task,
             Resume(t) \/ FinishCancelled(t) \/ CancelLeader(t) \/ CancelFollower(t)
      PROVE AllPending'
  BY <1>4, ReturnEffect
<1>5. ASSUME NEW t \in Task, NEW o \in Outcomes, Finish(t, o) PROVE AllPending'
  <2>1. /\ pc[t] = "leading"
        /\ \A j \in Fingerprint :
             inFlight'[j] = IF j = key[t] THEN NoFlight ELSE inFlight[j]
        /\ \A g \in Flight : future'[g] = IF g = flight[t] THEN o ELSE future[g]
    BY <1>5, FinishEffect
  <2> QED
    BY <2>1 DEF TypeOK, OwnEntry
<1>6. ASSUME Clear PROVE AllPending'
  BY <1>6 DEF Clear
<1>7. ASSUME UNCHANGED vars PROVE AllPending'
  BY <1>7 DEF vars
<1> QED
  BY <1>1, <1>2, <1>3, <1>4, <1>5, <1>6, <1>7 DEF Next, Call, End, Cancel

-----------------------------------------------------------------------------
(* Before any cancellation or clear(), nothing waits without a leader.     *)

\* The situation before the first cancellation or clear().
Calm == Shape /\ Registered /\ AllPending /\ AllLed

LEMMA LedLead ==
  ASSUME Calm, NEW t \in Task, NEW k \in Fingerprint, Lead(t, k)
  PROVE  AllLed'
<1> USE DEF Calm, Shape, TypeOK
<1>2. PICK f \in Flight :
        /\ pc[t] = "ready"
        /\ \A u \in Task : flight[u] # f
        /\ \A u \in Task : pc'[u] = IF u = t THEN "leading" ELSE pc[u]
        /\ \A u \in Task : key'[u] = IF u = t THEN k ELSE key[u]
        /\ \A u \in Task : flight'[u] = IF u = t THEN f ELSE flight[u]
        /\ \A j \in Fingerprint : inFlight'[j] = IF j = k THEN f ELSE inFlight[j]
        /\ \A g \in Flight : g # f => future'[g] = future[g]
  BY LeadEffect
<1>3. \A u \in Task : pc[u] # "ready" => flight[u] \in Flight
  BY DEF AwaitsFlight
<1>4. ASSUME NEW j \in Fingerprint, inFlight'[j] # NoFlight
      PROVE  \E u \in Leaders' : key'[u] = j /\ flight'[u] = inFlight'[j]
  <2>1. CASE j = k
    BY <1>2, <2>1
  <2>2. CASE j # k
    <3>1. PICK u \in Leaders : key[u] = j /\ flight[u] = inFlight[j]
      BY <1>2, <1>4, <2>2 DEF AllLed
    <3> QED
      BY <1>2, <2>2, <3>1
  <2> QED
    BY <2>1, <2>2
<1>5. ASSUME NEW v \in Task, pc'[v] # "ready", future'[flight'[v]] = "pending"
      PROVE  \E u \in Leaders' : key'[u] = key'[v] /\ flight'[u] = flight'[v]
  <2>1. CASE v = t
    BY <1>2, <2>1
  <2>2. CASE v # t
    <3>1. PICK u \in Leaders : key[u] = key[v] /\ flight[u] = flight[v]
      BY <1>2, <1>3, <1>5, <2>2 DEF AllLed
    <3> QED
      BY <1>2, <2>2, <3>1
  <2> QED
    BY <2>1, <2>2
<1> QED
  BY <1>4, <1>5 DEF AllLed

LEMMA LedFinish ==
  ASSUME Calm, NEW t \in Task, NEW o \in Outcomes, Finish(t, o)
  PROVE  AllLed'
<1> USE DEF Calm, Shape, TypeOK
<1>1. /\ pc[t] = "leading" /\ flight[t] \in Flight /\ o # "pending"
      /\ \A u \in Task : pc'[u] = IF u = t THEN "ready" ELSE pc[u]
      /\ \A u \in Task : flight'[u] = IF u = t THEN NoFlight ELSE flight[u]
      /\ \A j \in Fingerprint :
           inFlight'[j] = IF j = key[t] THEN NoFlight ELSE inFlight[j]
      /\ \A g \in Flight : future'[g] = IF g = flight[t] THEN o ELSE future[g]
      /\ key' = key
  BY FinishEffect
<1>3. ASSUME NEW j \in Fingerprint, inFlight'[j] # NoFlight
      PROVE  \E u \in Leaders' : key'[u] = j /\ flight'[u] = inFlight'[j]
  <2>1. PICK u \in Leaders : key[u] = j /\ flight[u] = inFlight[j]
    BY <1>1, <1>3 DEF AllLed
  <2> QED
    BY <1>1, <1>3, <2>1
<1>4. ASSUME NEW v \in Task, pc'[v] # "ready", future'[flight'[v]] = "pending"
      PROVE  \E u \in Leaders' : key'[u] = key'[v] /\ flight'[u] = flight'[v]
  <2>1. v # t /\ flight[v] \in Flight
    BY <1>1, <1>4 DEF AwaitsFlight
  <2>2. flight[v] # flight[t] /\ future[flight[v]] = "pending"
    BY <1>1, <1>4, <2>1
  <2>3. PICK u \in Leaders : key[u] = key[v] /\ flight[u] = flight[v]
    BY <1>1, <1>4, <2>1, <2>2 DEF AllLed
  <2> QED
    BY <1>1, <2>1, <2>2, <2>3
<1> QED
  BY <1>3, <1>4 DEF AllLed

\* The future of a leader is pending, so no leader ends by FinishCancelled.
LEMMA LeaderPending ==
  ASSUME Calm, NEW t \in Leaders
  PROVE  future[flight[t]] = "pending" /\ flight[t] \in Flight
BY DEF Calm, Shape, TypeOK, Registered, AwaitsFlight, AllPending

LEMMA LedStep ==
  ASSUME Calm, [Next]_vars, past' = {}
  PROVE  AllLed'
<1> USE DEF Calm, Shape, TypeOK
<1>1. ASSUME NEW t \in Task, NEW k \in Fingerprint, Lead(t, k) PROVE AllLed'
  BY <1>1, LedLead
<1>2. ASSUME NEW t \in Task, NEW k \in Fingerprint, Join(t, k) PROVE AllLed'
  <2>1. /\ pc[t] = "ready" /\ inFlight[k] \in Flight
        /\ \A u \in Task : pc'[u] = IF u = t THEN "joined" ELSE pc[u]
        /\ \A u \in Task : key'[u] = IF u = t THEN k ELSE key[u]
        /\ \A u \in Task : flight'[u] = IF u = t THEN inFlight[k] ELSE flight[u]
        /\ inFlight' = inFlight /\ future' = future
    BY <1>2, JoinEffect
  <2> QED
    BY <2>1, FlightAssumption DEF AllLed
<1>3. ASSUME NEW t \in Task, NEW k \in Fingerprint, JoinDone(t, k) PROVE AllLed'
  BY <1>3 DEF JoinDone, AllLed
<1>4. ASSUME NEW t \in Task, Resume(t) PROVE AllLed'
  BY <1>4 DEF Resume, Returns, AllLed
<1>5. \A t \in Task : ~ FinishCancelled(t) /\ ~ Cancel(t)
  BY LeaderPending DEF FinishCancelled, Cancel, CancelLeader, CancelFollower, Happens
<1>6. ASSUME NEW t \in Task, NEW o \in Outcomes, Finish(t, o) PROVE AllLed'
  BY <1>6, LedFinish
<1>7. ASSUME UNCHANGED vars PROVE AllLed'
  BY <1>7 DEF vars, AllLed
<1>8. ~ Clear
  BY DEF Clear, Happens
<1> HIDE DEF Calm, Shape, TypeOK
<1> QED
  BY <1>1, <1>2, <1>3, <1>4, <1>5, <1>6, <1>7, <1>8 DEF Next, Call, End

-----------------------------------------------------------------------------
(* The invariant and what follows from it.                                 *)

LEMMA PastGrows == Shape /\ [Next]_vars => past \subseteq past'
<1> SUFFICES ASSUME Shape, [Next]_vars PROVE past \subseteq past'
  OBVIOUS
<1>1. ASSUME NEW t \in Task, NEW k \in Fingerprint, Lead(t, k) \/ Join(t, k) \/ JoinDone(t, k)
      PROVE past \subseteq past'
  BY <1>1 DEF Lead, Join, JoinDone
<1>2. ASSUME NEW t \in Task, Resume(t) \/ FinishCancelled(t) \/ Cancel(t) PROVE past \subseteq past'
  BY <1>2, ReturnEffect DEF Cancel
<1>3. ASSUME NEW t \in Task, NEW o \in Outcomes, Finish(t, o) PROVE past \subseteq past'
  BY <1>3 DEF Finish
<1>4. CASE Clear
  BY <1>4 DEF Clear, Happens
<1>5. CASE UNCHANGED vars
  BY <1>5 DEF vars
<1> QED
  BY <1>1, <1>2, <1>3, <1>4, <1>5 DEF Next, Call, End

THEOREM Inductive == Spec => []IInv
<1>1. Init => IInv
  BY FlightAssumption, FingerprintAssumption
  DEF Init, IInv, TypeOK, Registered, NoSharing, AwaitsFlight, OwnEntry,
      EntryIsPending, AllPending, EveryFlightLed, AllLed
<1>2. ASSUME IInv, [Next]_vars PROVE IInv'
  <2>1. Shape
    BY <1>2 DEF IInv, Shape
  <2>2. Shape' /\ past \subseteq past'
    BY <1>2, <2>1, ShapeStep, PastGrows
  <2>3. ("clear" \notin past => Registered)'
    BY <1>2, <2>1, <2>2, RegisteredStep DEF IInv
  <2>4. EntryIsPending'
    BY <1>2, <2>1, <2>2, PendingStep DEF IInv, EntryIsPending
  <2>5. EveryFlightLed'
    <3>1. SUFFICES ASSUME past' = {} PROVE AllLed'
      BY DEF EveryFlightLed
    <3>2. Calm
      BY <1>2, <2>1, <2>2, <3>1 DEF IInv, Calm, EntryIsPending, EveryFlightLed
    <3> QED
      BY <1>2, <3>1, <3>2, LedStep
  <2> QED
    BY <2>2, <2>3, <2>4, <2>5 DEF IInv, Shape
<1> QED
  BY <1>1, <1>2, PTL DEF Spec

\* Whoever raises or is cancelled, and whenever: as long as clear() is not
\* called, no two executions of do() for one fingerprint run at a time.
THEOREM OnlyOneExecution == Spec => []OneExecution
<1>1. IInv => OneExecution
  BY DEF IInv, Registered, NoSharing, OneExecution
<1> QED
  BY <1>1, Inductive, PTL

\* As long as nobody is cancelled, a caller that finds a flight finds one
\* still under way, whatever clear() removed before.
THEOREM EntriesPending == Spec => []EntryIsPending
<1>1. IInv => EntryIsPending
  BY DEF IInv
<1> QED
  BY <1>1, Inductive, PTL

\* As long as nobody is cancelled and clear() is not called, nothing waits
\* without a leader to answer it.
THEOREM FlightsLed == Spec => []EveryFlightLed
<1>1. IInv => EveryFlightLed
  BY DEF IInv
<1> QED
  BY <1>1, Inductive, PTL

-----------------------------------------------------------------------------
(* Until the first cancellation or clear(), do() implements SharedCall.    *)

\* The steps of SharedCall that the actions are.
LEMMA StartsAsking ==
  ASSUME Calm, NEW t \in Task, NEW k \in Fingerprint, Lead(t, k) \/ Join(t, k)
  PROVE  Shared!Ask(t, k)
<1> USE DEF Calm, Shape, TypeOK
<1>1. pc[t] = "ready" /\ Asking[t] = NoKey
  BY DEF Lead, Join, Asking
<1>2. PICK f \in Flight, role \in {"leading", "joined"} :
        /\ Awaits(t, role, k, f)
        /\ future'[f] = "pending"
        /\ \A u \in Task : pc[u] # "ready" => future'[flight[u]] = future[flight[u]]
        /\ role = "joined" => inFlight[k] = f
  <2>1. CASE Lead(t, k)
    <3>1. PICK f \in Flight :
            /\ Fresh(f)
            /\ future' = [future EXCEPT ![f] = "pending"]
            /\ Awaits(t, "leading", k, f)
      BY <2>1 DEF Lead
    <3>2. \A u \in Task : pc[u] # "ready" => flight[u] \in Flight /\ flight[u] # f
      BY <3>1 DEF Fresh, AwaitsFlight
    <3> QED
      BY <3>1, <3>2
  <2>2. CASE Join(t, k)
    BY <2>2 DEF Join, Subscribe
  <2> QED
    BY <2>1, <2>2
<1>3. /\ \A u \in Task : pc'[u] = IF u = t THEN role ELSE pc[u]
      /\ \A u \in Task : key'[u] = IF u = t THEN k ELSE key[u]
      /\ \A u \in Task : flight'[u] = IF u = t THEN f ELSE flight[u]
  BY <1>2 DEF Awaits
<1>4. Asking' = [Asking EXCEPT ![t] = k]
  <2>1. Asking'[t] = k
    BY <1>2, <1>3 DEF Asking
  <2>2. ASSUME NEW u \in Task, u # t PROVE Asking'[u] = Asking[u]
    BY <1>2, <1>3, <2>2 DEF Asking
  <2> QED
    BY <2>1, <2>2 DEF Asking
<1>5. Running' = Running \cup {k}
  <2>1. CASE role = "leading"
    BY <1>1, <1>3, <2>1 DEF Running
  <2>2. CASE role = "joined"
    <3>1. PICK u \in Leaders : key[u] = k
      BY <1>2, <2>2, FlightAssumption DEF AllLed
    <3> QED
      BY <1>1, <1>3, <2>2, <3>1 DEF Running
  <2> QED
    BY <2>1, <2>2
<1> QED
  BY <1>1, <1>4, <1>5 DEF Shared!Ask

LEMMA AnswersAll ==
  ASSUME Calm, NEW t \in Task, NEW o \in Outcomes, Finish(t, o)
  PROVE  Shared!Finish(key[t])
<1> USE DEF Calm, Shape, TypeOK
<1>1. /\ pc[t] = "leading"
      /\ \A u \in Task : pc'[u] = IF u = t THEN "ready" ELSE pc[u]
      /\ \A u \in Task : flight'[u] = IF u = t THEN NoFlight ELSE flight[u]
      /\ future' = [future EXCEPT ![flight[t]] = o]
      /\ key' = key
      /\ o # "pending"
  BY DEF Finish, Settle, Returns, Outcomes
<1>2. flight[t] \in Flight /\ future[flight[t]] = "pending"
  BY <1>1, LeaderPending
<1>3. \A u \in Leaders : u # t => key[u] # key[t]
  BY <1>1 DEF Registered, NoSharing
<1>4. key[t] \in Running /\ Running' = Running \ {key[t]}
  BY <1>1, <1>3 DEF Running
<1>5. ASSUME NEW u \in Task
      PROVE  Asking'[u] = IF Asking[u] = key[t] THEN NoKey ELSE Asking[u]
  <2>1. CASE u = t
    BY <1>1, <1>2, <2>1 DEF Asking
  <2>2. CASE u # t /\ (pc[u] = "ready" \/ future[flight[u]] # "pending")
    BY <1>1, <1>2, <2>2, FingerprintAssumption DEF Asking, AwaitsFlight
  <2>3. CASE u # t /\ pc[u] # "ready" /\ future[flight[u]] = "pending"
    <3>1. PICK v \in Leaders : key[v] = key[u] /\ flight[v] = flight[u]
      BY <2>3 DEF AllLed
    <3>2. flight[u] = flight[t] <=> key[u] = key[t]
      BY <1>1, <1>3, <3>1 DEF NoSharing
    <3>3. flight[u] \in Flight
      BY <2>3 DEF AwaitsFlight
    <3> QED
      BY <1>1, <2>3, <3>2, <3>3 DEF Asking
  <2> QED
    BY <2>1, <2>2, <2>3
<1>6. Asking' = [u \in Task |-> IF Asking[u] = key[t] THEN NoKey ELSE Asking[u]]
  BY <1>5 DEF Asking
<1> QED
  BY <1>4, <1>6 DEF Shared!Finish

LEMMA WakesSilently ==
  ASSUME Calm, NEW t \in Task, Resume(t)
  PROVE  UNCHANGED <<Asking, Running>>
BY DEF Calm, Shape, TypeOK, Resume, Returns, Asking, Running

\* Until somebody is cancelled or clear() is called, every call is answered by
\* exactly the execution that was under way for it.
THEOREM Implements == Spec => SharedSpec
<1>1. Init => Shared!Init
  BY DEF Init, Shared!Init, Asking, Running
<1>2. ASSUME IInv, [Next]_vars
      PROVE  [past' = {} => Shared!Next]_<<Asking, Running>>
  <2> SUFFICES ASSUME past' = {} PROVE [Shared!Next]_<<Asking, Running>>
    OBVIOUS
  <2>1. Calm
    BY <1>2, PastGrows DEF IInv, Shape, Calm, EntryIsPending, EveryFlightLed
  <2>2. ASSUME NEW t \in Task, NEW k \in Fingerprint, Lead(t, k) \/ Join(t, k)
        PROVE  Shared!Next
    BY <2>1, <2>2, StartsAsking DEF Shared!Next
  <2>3. ASSUME NEW t \in Task, NEW k \in Fingerprint, JoinDone(t, k)
        PROVE  UNCHANGED <<Asking, Running>>
    BY <2>3 DEF JoinDone, Asking, Running
  <2>4. ASSUME NEW t \in Task, NEW o \in Outcomes, Finish(t, o) PROVE Shared!Next
    <3>1. key[t] \in Fingerprint
      BY <2>1 DEF Calm, Shape, TypeOK
    <3>2. Shared!Finish(key[t])
      BY <2>1, <2>4, AnswersAll
    <3> QED
      BY <3>1, <3>2 DEF Shared!Next
  <2>5. \A t \in Task : ~ FinishCancelled(t) /\ ~ Cancel(t)
    BY <2>1, LeaderPending DEF FinishCancelled, Cancel, CancelLeader, CancelFollower, Happens
  <2>7. ~ Clear
    BY DEF Clear, Happens
  <2>6. CASE UNCHANGED vars
    BY <2>6 DEF vars, Asking, Running
  <2> QED
    BY <1>2, <2>1, <2>2, <2>3, <2>4, <2>5, <2>6, <2>7, WakesSilently DEF Next, Call, End
<1> QED
  BY Inductive, <1>1, <1>2, PTL DEF Spec, SharedSpec
=============================================================================
