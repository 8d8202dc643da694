---------------------------- MODULE PoolPromise ----------------------------
(***************************************************************************)
(* What ConnectionPool (Sources/MongoSwift/ConnectionPool.swift) promises  *)
(* to the rest of the driver, with no threads, locks or queues: a phase    *)
(* that only moves forward and a set of libmongoc clients that callers     *)
(* hold.  Connections are handed out only while the pool is open, they may *)
(* come back until it is closed, and it closes only when none is out.      *)
(***************************************************************************)
EXTENDS Naturals, FiniteSets

CONSTANTS
    Handles,     \* the mongoc_client_t identities
    MaxPoolSize  \* the most clients that may be out at once

VARIABLES
    phase,       \* "open", "closing" or "closed"
    held         \* the clients wrapped by a live Connection

vars == <<phase, held>>

Init ==
    /\ phase = "open"
    /\ held = {}

\* Hand a client to a caller.
Acquire ==
    /\ phase = "open"
    /\ Cardinality(held) < MaxPoolSize
    /\ \E h \in Handles \ held : held' = held \cup {h}
    /\ UNCHANGED phase

\* Take one back; the pool must still exist.
Release ==
    /\ phase # "closed"
    /\ \E h \in held : held' = held \ {h}
    /\ UNCHANGED phase

\* No Acquire is possible from here on.
BeginClose ==
    /\ phase = "open"
    /\ phase' = "closing"
    /\ UNCHANGED held

\* The pool is destroyed: nothing may refer to its clients.
FinishClose ==
    /\ phase = "closing"
    /\ held = {}
    /\ phase' = "closed"
    /\ UNCHANGED held

Next == Acquire \/ Release \/ BeginClose \/ FinishClose

Spec == Init /\ [][Next]_vars

=============================================================================
