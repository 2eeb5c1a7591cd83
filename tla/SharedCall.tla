------------------------------ MODULE SharedCall ------------------------------
(***************************************************************************)
(* What request coalescing promises its callers, without saying how: while *)
(* somebody asks for a key there is one execution for it, everybody who    *)
(* asks before it ends is answered when it ends, and nobody else is.       *)
(***************************************************************************)
CONSTANTS Caller, Key, NoKey

VARIABLES
  asking,   \* the key each caller waits for, NoKey when it does not wait
  running   \* the keys with an execution under way

Init ==
  /\ asking  = [t \in Caller |-> NoKey]
  /\ running = {}

\* A caller starts the execution or joins the one under way.
Ask(t, k) ==
  /\ asking[t] = NoKey
  /\ asking'  = [asking EXCEPT ![t] = k]
  /\ running' = running \cup {k}

Finish(k) ==
  /\ k \in running
  /\ asking'  = [t \in Caller |-> IF asking[t] = k THEN NoKey ELSE asking[t]]
  /\ running' = running \ {k}

Next == \E k \in Key : Finish(k) \/ \E t \in Caller : Ask(t, k)

Spec == Init /\ [][Next]_<<asking, running>>
=============================================================================
