---------------------------- MODULE ConnectionPool ----------------------------
(***************************************************************************)
(* The pool of database connections that every request of the process      *)
(* shares (bootstrap/database.py).  A session checks a connection out at   *)
(* its first statement and gives it back when it is closed; a checkout     *)
(* waits while pool_size + max_overflow connections are in use, and fails  *)
(* after pool_timeout.                                                     *)
(***************************************************************************)
EXTENDS Integers, FiniteSets

CONSTANT Calls   \* the requests that use the pool

VARIABLES
  held,   \* connections checked out by each call
  waits   \* calls suspended in a checkout

\* A connection is a call and the number it has among those of the call.
InUse == Cardinality(UNION {{o} \X (1 .. held[o]) : o \in Calls})

\* The first statement of a session.
Request(o) == waits' = waits \cup {o}

\* The pool hands out a connection, while it has one.
Checkout(o, limit) ==
  /\ o \in waits
  /\ InUse < limit
  /\ held' = [held EXCEPT ![o] = @ + 1]
  /\ waits' = waits \ {o}

\* sqlalchemy.exc.TimeoutError.
Exhausted(o, limit) == o \in waits /\ InUse >= limit

\* Closing a session gives its connection back.
Return(o) == held' = [held EXCEPT ![o] = @ - 1]

\* The request ends: its sessions are closed and its checkout is withdrawn.
ReturnAll(o) ==
  /\ held' = [held EXCEPT ![o] = 0]
  /\ waits' = waits \ {o}

FullPool == held = [o \in Calls |-> 0] /\ waits = {}
=============================================================================
