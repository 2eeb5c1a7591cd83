----------------------------- MODULE Singleflight -----------------------------
(***************************************************************************)
(* Request coalescing: Singleflight.do of packages_py/cache_request over   *)
(* MemorySingleflightStore, with the tasks that call it.                   *)
(*                                                                         *)
(* The store is synchronous, so do() suspends at two places only: the      *)
(* leader at `await fn()` and a follower at `await existing.future`.  What *)
(* runs between two suspensions is one step.                               *)
(*                                                                         *)
(* A flight is one InFlightRequest with its future.  Flight is a bounded   *)
(* supply: a flight is used again once it is neither in the store nor      *)
(* awaited by any task.                                                    *)
(***************************************************************************)
EXTENDS Integers, FiniteSets

CONSTANTS
  Task,            \* asyncio tasks that call do(), one call at a time
  Fingerprint,     \* what generate_fingerprint tells apart
  Flight,          \* InFlightRequest objects
  MaxSubscribers,  \* where the model stops counting the calls that join a flight
  Events,          \* what may happen besides normal returns, of AllEvents
  NoFlight,
  NoKey            \* what a task asks for that waits for nothing

AllEvents == {"raise", "cancel", "clear"}

ASSUME FlightAssumption == NoFlight \notin Flight
ASSUME FingerprintAssumption == Fingerprint # {} /\ NoKey \notin Fingerprint
ASSUME EventAssumption == Events \subseteq AllEvents
ASSUME SubscriberAssumption == MaxSubscribers \in Nat

VARIABLES
  inFlight,     \* [Fingerprint -> Flight], the store
  future,       \* [Flight -> FutureStates]
  subscribers,  \* [Flight -> Nat]
  pc,           \* what each task is doing
  key,          \* the fingerprint of its latest call
  flight,       \* the flight whose function or future it awaits
  past          \* history, for the properties only: the events that have happened

vars == <<inFlight, future, subscribers, pc, key, flight, past>>

FutureStates == {"pending", "result", "exception", "cancelled"}
Outcomes     == IF "raise" \in Events THEN {"result", "exception"} ELSE {"result"}

Init ==
  /\ inFlight    = [k \in Fingerprint |-> NoFlight]
  /\ future      = [f \in Flight |-> "pending"]
  /\ subscribers = [f \in Flight |-> 0]
  /\ pc          = [t \in Task |-> "ready"]
  /\ key         = [t \in Task |-> CHOOSE k \in Fingerprint : TRUE]
  /\ flight      = [t \in Task |-> NoFlight]
  /\ past        = {}

-----------------------------------------------------------------------------
Fresh(f) ==
  /\ \A k \in Fingerprint : inFlight[k] # f
  /\ \A t \in Task : flight[t] # f

Awaits(t, role, k, f) ==
  /\ pc'     = [pc EXCEPT ![t] = role]
  /\ key'    = [key EXCEPT ![t] = k]
  /\ flight' = [flight EXCEPT ![t] = f]

Returns(t) ==
  /\ pc'     = [pc EXCEPT ![t] = "ready"]
  /\ flight' = [flight EXCEPT ![t] = NoFlight]
  /\ UNCHANGED key

\* Mutated form: the new flight is not registered.
LeadUnregistered(t, k) ==
  /\ pc[t] = "ready" /\ inFlight[k] = NoFlight
  /\ \E f \in Flight :
       /\ Fresh(f)
       /\ future'      = [future EXCEPT ![f] = "pending"]
       /\ subscribers' = [subscribers EXCEPT ![f] = 1]
       /\ Awaits(t, "leading", k, f)
  /\ UNCHANGED <<inFlight, past>>

\* No flight under this fingerprint: register one and start fn().
Lead(t, k) ==
  /\ pc[t] = "ready" /\ inFlight[k] = NoFlight
  /\ \E f \in Flight :
       /\ Fresh(f)
       /\ inFlight'    = [inFlight EXCEPT ![k] = f]
       /\ future'      = [future EXCEPT ![f] = "pending"]
       /\ subscribers' = [subscribers EXCEPT ![f] = 1]
       /\ Awaits(t, "leading", k, f)
  /\ UNCHANGED past

Subscribe(k) ==
  /\ inFlight[k] # NoFlight
  /\ subscribers' = [subscribers EXCEPT ![inFlight[k]] = IF @ < MaxSubscribers THEN @ + 1 ELSE @]

Join(t, k) ==
  /\ pc[t] = "ready"
  /\ Subscribe(k)
  /\ future[inFlight[k]] = "pending"
  /\ Awaits(t, "joined", k, inFlight[k])
  /\ UNCHANGED <<inFlight, future, past>>

\* Awaiting a future that is done does not suspend: the call ends at once.
JoinDone(t, k) ==
  /\ pc[t] = "ready"
  /\ Subscribe(k)
  /\ future[inFlight[k]] # "pending"
  /\ UNCHANGED <<inFlight, future, pc, key, flight, past>>

\* A completed future wakes its followers, one task at a time.
Resume(t) ==
  /\ pc[t] = "joined" /\ future[flight[t]] # "pending"
  /\ Returns(t)
  /\ UNCHANGED <<inFlight, future, subscribers, past>>

-----------------------------------------------------------------------------
(* The end of fn() in the leader.                                          *)

\* Mutated forms: a failed flight stays in the store; the future is forgotten.
SettleKeepsFailed(t, outcome) ==
  /\ future'   = [future EXCEPT ![flight[t]] = outcome]
  /\ inFlight' = IF outcome = "exception" THEN inFlight
                                          ELSE [inFlight EXCEPT ![key[t]] = NoFlight]

SettleSilently(t, outcome) ==
  /\ inFlight' = [inFlight EXCEPT ![key[t]] = NoFlight]
  /\ UNCHANGED future

\* delete(fingerprint) removes whatever flight is there by now.
Settle(t, outcome) ==
  /\ future'   = [future EXCEPT ![flight[t]] = outcome]
  /\ inFlight' = [inFlight EXCEPT ![key[t]] = NoFlight]

Finish(t, outcome) ==
  /\ pc[t] = "leading" /\ future[flight[t]] = "pending"
  /\ Settle(t, outcome)
  /\ Returns(t)
  /\ UNCHANGED <<subscribers, past>>

\* A follower's cancellation has cancelled the future: set_result raises
\* InvalidStateError, and so does set_exception in the handler, before delete.
FinishCancelled(t) ==
  /\ pc[t] = "leading" /\ future[flight[t]] # "pending"
  /\ Returns(t)
  /\ UNCHANGED <<inFlight, future, subscribers, past>>

-----------------------------------------------------------------------------
(* Cancellation and clear().                                               *)

Happens(e) == e \in Events /\ past' = past \cup {e}

\* CancelledError is no Exception: neither the future nor the store is told.
CancelLeader(t) ==
  /\ pc[t] = "leading"
  /\ Returns(t)
  /\ Happens("cancel")
  /\ UNCHANGED <<inFlight, future, subscribers>>

\* Mutated form: a cancelled follower removes the flight from the store.
CancelFollowerDeletes(t) ==
  /\ pc[t] = "joined"
  /\ future' = [future EXCEPT ![flight[t]] = IF @ = "pending" THEN "cancelled" ELSE @]
  /\ inFlight' = [inFlight EXCEPT ![key[t]] = NoFlight]
  /\ Returns(t)
  /\ Happens("cancel")
  /\ UNCHANGED subscribers

\* The follower awaits the shared future itself, so cancelling the task
\* cancels the future unless it is done already.
CancelFollower(t) ==
  /\ pc[t] = "joined"
  /\ future' = [future EXCEPT ![flight[t]] = IF @ = "pending" THEN "cancelled" ELSE @]
  /\ Returns(t)
  /\ Happens("cancel")
  /\ UNCHANGED <<inFlight, subscribers>>

Clear ==
  /\ Happens("clear")
  /\ inFlight' = [k \in Fingerprint |-> NoFlight]
  /\ UNCHANGED <<future, subscribers, pc, key, flight>>

-----------------------------------------------------------------------------
Call(t)  == \E k \in Fingerprint : Lead(t, k) \/ Join(t, k) \/ JoinDone(t, k)
End(t)   == FinishCancelled(t) \/ \E o \in Outcomes : Finish(t, o)
Cancel(t) == CancelLeader(t) \/ CancelFollower(t)

Next == Clear \/ \E t \in Task : Call(t) \/ Resume(t) \/ End(t) \/ Cancel(t)

Spec == Init /\ [][Next]_vars

\* A done future wakes its waiters, and fn() returns or raises in the end.
FairSpec == Spec /\ \A t \in Task : WF_vars(Resume(t)) /\ WF_vars(End(t))

-----------------------------------------------------------------------------
(* Properties. *)

Leaders == {t \in Task : pc[t] = "leading"}
Entries == {inFlight[k] : k \in Fingerprint} \ {NoFlight}

TypeOK ==
  /\ inFlight    \in [Fingerprint -> Flight \cup {NoFlight}]
  /\ future      \in [Flight -> FutureStates]
  /\ subscribers \in [Flight -> Nat]
  /\ pc          \in [Task -> {"ready", "leading", "joined"}]
  /\ key         \in [Task -> Fingerprint]
  /\ flight      \in [Task -> Flight \cup {NoFlight}]
  /\ past        \subseteq Events

\* "Only one request is made": as long as clear() is not called, at most one
\* fn() runs per fingerprint, even when callers are cancelled at any point.
OneExecution ==
  "clear" \notin past => \A t, u \in Leaders : key[t] = key[u] => t = u

\* Why: until clear() is called, a leader's flight is the one in the store
\* until the leader ends; no two leaders or fingerprints ever share a flight.
Registered == \A t \in Leaders : inFlight[key[t]] = flight[t]
NoSharing ==
  /\ \A t, u \in Leaders : flight[t] = flight[u] => t = u
  /\ \A j, k \in Fingerprint : inFlight[j] = inFlight[k] /\ inFlight[j] # NoFlight => j = k
AwaitsFlight == \A t \in Task : flight[t] = NoFlight <=> pc[t] = "ready"

\* A flight in the store under one fingerprint is led, if it is led at all, by
\* a task that removes just that entry.
OwnEntry == \A t \in Leaders, k \in Fingerprint : inFlight[k] = flight[t] => key[t] = k

\* A caller that finds a flight always finds one still under way: the outcome
\* of a finished execution, failed or not, is never given to a later call.
\* This survives a clear() in the middle of a flight, not a cancellation.
AllPending     == \A f \in Entries : future[f] = "pending"
EntryIsPending == "cancel" \notin past => AllPending

\* Until somebody is cancelled or clear() is called, every flight in the store,
\* and every one that somebody still waits for, has a leader to complete it.
AllLed ==
  /\ \A k \in Fingerprint : inFlight[k] # NoFlight =>
       \E u \in Leaders : key[u] = k /\ flight[u] = inFlight[k]
  /\ \A t \in Task : pc[t] # "ready" /\ future[flight[t]] = "pending" =>
       \E u \in Leaders : key[u] = key[t] /\ flight[u] = flight[t]
EveryFlightLed == past = {} => AllLed

IInv ==
  /\ TypeOK /\ NoSharing /\ AwaitsFlight /\ OwnEntry
  /\ "clear" \notin past => Registered
  /\ EntryIsPending
  /\ EveryFlightLed

\* "Wait for it and share the result": every call to do() ends when fn()
\* always does.  The code breaks this when a leader is cancelled.
EveryCallEnds == \A t \in Task : pc[t] # "ready" ~> pc[t] = "ready"

\* Nothing else breaks it: every call ends when fn() always does and nobody
\* is cancelled, whenever clear() is called.
UncancelledCallsEnd == []("cancel" \notin past) => EveryCallEnds

\* do() is one way to keep the promise of SharedCall, until somebody is
\* cancelled or clear() is called.
Asking  == [t \in Task |-> IF pc[t] # "ready" /\ future[flight[t]] = "pending"
                          THEN key[t] ELSE NoKey]
Running == {key[t] : t \in Leaders}

Shared == INSTANCE SharedCall
            WITH Caller <- Task, Key <- Fingerprint, asking <- Asking, running <- Running

\* Each execution answers exactly the calls that asked while it ran, in every
\* step before the first cancellation or clear().
SharedSpec == Shared!Init /\ [][past' = {} => Shared!Next]_<<Asking, Running>>
=============================================================================
