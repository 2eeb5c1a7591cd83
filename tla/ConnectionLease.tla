--------------------------- MODULE ConnectionLease ---------------------------
(***************************************************************************)
(* What a connection pool promises to the tasks that use it, whatever its  *)
(* queue, its timers and its bookkeeping do: it keeps a bounded set of     *)
(* connections open and lends each of them to at most one task at a time,  *)
(* until it shuts down.                                                    *)
(***************************************************************************)
EXTENDS Integers, FiniteSets

CONSTANTS Conn, Task, NoConn, MaxConnections

VARIABLES
  open,   \* the connections the pool has open
  lease,  \* [Task -> Conn \cup {NoConn}], the connection a task was lent
  up      \* FALSE once the pool has shut down

vars == <<open, lease, up>>

Lent == {lease[t] : t \in Task} \ {NoConn}

Init == open = {} /\ lease = [t \in Task |-> NoConn] /\ up = TRUE

\* The task gets a connection that nobody else has, opened for it if need be.
Lend(t, c) ==
  /\ up /\ lease[t] = NoConn /\ c \notin Lent
  /\ c \in open \/ Cardinality(open) < MaxConnections
  /\ open'  = open \cup {c}
  /\ lease' = [lease EXCEPT ![t] = c]
  /\ UNCHANGED up

\* The task gives its connection back, to be kept open or closed.
Return(t) ==
  /\ lease[t] # NoConn
  /\ lease' = [lease EXCEPT ![t] = NoConn]
  /\ open' \in {open, open \ {lease[t]}}
  /\ UNCHANGED up

\* Connections that nobody has are closed.
Evict ==
  /\ \E S \in SUBSET (open \ Lent) : open' = open \ S
  /\ UNCHANGED <<lease, up>>

\* A connection is opened ahead of its first use.
Open(c) ==
  /\ up /\ c \notin open \cup Lent /\ Cardinality(open) < MaxConnections
  /\ open' = open \cup {c}
  /\ UNCHANGED <<lease, up>>

ShutDown == up /\ up' = FALSE /\ open' = {} /\ UNCHANGED lease

Next ==
  \/ \E t \in Task : Return(t) \/ \E c \in Conn : Lend(t, c)
  \/ \E c \in Conn : Open(c)
  \/ Evict \/ ShutDown

Spec == Init /\ [][Next]_vars
==============================================================================
