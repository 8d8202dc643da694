--------------------------- MODULE ConnectionPool ---------------------------
(***************************************************************************)
(* Sources/MongoSwift/ConnectionPool.swift over the libmongoc client pool  *)
(* it wraps (mongoc-client-pool.c).                                        *)
(*                                                                         *)
(* Every method of ConnectionPool runs inside stateLock.withLock.  A       *)
(* critical section that cannot block is one step; one that can block      *)
(* while holding the lock (mongoc_client_pool_pop in checkOut, the pop     *)
(* inside mongoc_client_pool_destroy) or that gives the lock up in the     *)
(* middle (stateLock.wait() in close) is split at that point, and          *)
(* stateLock records who holds the lock in between.  libmongoc's own mutex *)
(* is only ever taken under stateLock, so its sections are never           *)
(* contended and are part of the step that calls them.                     *)
(***************************************************************************)
EXTENDS Integers, FiniteSets

CONSTANTS
    Threads,          \* threads that call the pool: executor threads and users
    NoThread,         \* stateLock is free
    Handles,          \* mongoc_client_t identities
    NoHandle,         \* a thread that is not running Connection.deinit
    MaxPoolSize,      \* max_pool_size
    BlockingCallers   \* the threads that also use checkOut()/withConnection

ASSUME ThreadsAssumption == NoThread \notin Threads
ASSUME BlockingCallersAssumption == BlockingCallers \subseteq Threads
ASSUME HandlesAssumption == IsFiniteSet(Handles) /\ NoHandle \notin Handles
\* libmongoc clamps the option with BSON_MAX(1, ...); there is always an
\* address for a client it allocates.
ASSUME MaxPoolSizeAssumption ==
    MaxPoolSize \in Nat \ {0} /\ MaxPoolSize <= Cardinality(Handles)

VARIABLES
    state,        \* ConnectionPool.state
    connCount,    \* ConnectionPool.connCount
    stateLock,    \* the thread that holds the NSCondition's mutex
    idle,         \* clients in mongoc's queue (its order is not modelled)
    size,         \* mongoc's pool->size: clients allocated so far
    sessionPool,  \* mongoc's topology->session_pool is not empty
    out,          \* clients whose Connection has not been checked in
    dropping,     \* the client of the Connection a thread is deinitialising
    pc            \* where a thread is inside the pool

mongocVars == <<idle, size, sessionPool>>
vars == <<state, connCount, stateLock, idle, size, sessionPool, out, dropping, pc>>

-----------------------------------------------------------------------------
(* mongoc_client_pool_t *)

\* mongoc_client_pool_pop and _try_pop can return a client: the queue has one
\* or another one may be allocated.
CanPop == idle # {} \/ size < MaxPoolSize

\* The clients a pop may return: one of the queue, or a new one when the queue
\* is empty.  (minPoolSize is rejected by ConnectionString, so push never
\* trims the queue.)
Poppable == IF idle # {} THEN idle ELSE Handles \ (idle \cup out)

\* The effect of a pop that returns h.
PopEffect(h) ==
    /\ idle' = idle \ {h}
    /\ size' = IF idle # {} THEN size ELSE size + 1

-----------------------------------------------------------------------------
Init ==
    /\ state = "open"
    /\ connCount = 0
    /\ stateLock = NoThread
    /\ idle = {}
    /\ size = 0
    /\ sessionPool = FALSE
    /\ out = {}
    /\ dropping = [t \in Threads |-> NoHandle]
    /\ pc = [t \in Threads |-> "ready"]

\* t calls a method of the pool and gets stateLock.
Enter(t) == pc[t] = "ready" /\ stateLock = NoThread

\* checkOut() up to mongoc_client_pool_pop: the count is raised first, and the
\* lock is kept across the pop.
CheckOut(t) ==
    /\ t \in BlockingCallers
    /\ Enter(t)
    /\ state = "open"
    /\ connCount' = connCount + 1
    /\ stateLock' = t
    /\ pc' = [pc EXCEPT ![t] = "pop"]
    /\ UNCHANGED <<state, mongocVars, out, dropping>>

\* mongoc_client_pool_pop returns and checkOut leaves withLock.  There is no
\* step while CanPop is false: the thread waits on mongoc's condition.
Pop(t) ==
    /\ pc[t] = "pop"
    /\ CanPop
    /\ \E h \in Poppable : PopEffect(h) /\ out' = out \cup {h}
    /\ stateLock' = NoThread
    /\ pc' = [pc EXCEPT ![t] = "ready"]
    /\ UNCHANGED <<state, connCount, sessionPool, dropping>>

\* Mutant: tryCheckOut() also serves a closing pool, as checkIn does.
TryCheckOutWhileClosing(t) ==
    /\ Enter(t)
    /\ state # "closed"
    /\ CanPop
    /\ \E h \in Poppable : PopEffect(h) /\ out' = out \cup {h}
    /\ connCount' = connCount + 1
    /\ UNCHANGED <<state, stateLock, sessionPool, dropping, pc>>

\* tryCheckOut() that returns a Connection.
TryCheckOut(t) ==
    /\ Enter(t)
    /\ state = "open"
    /\ CanPop
    /\ \E h \in Poppable : PopEffect(h) /\ out' = out \cup {h}
    /\ connCount' = connCount + 1
    /\ UNCHANGED <<state, stateLock, sessionPool, dropping, pc>>

\* tryCheckOut() that returns nil.
TryCheckOutNil(t) ==
    /\ Enter(t)
    /\ state = "open"
    /\ ~CanPop
    /\ UNCHANGED vars

\* checkOut(), tryCheckOut() or close() that throws PoolClosedError.
ThrowPoolClosed(t) ==
    /\ Enter(t)
    /\ state # "open"
    /\ UNCHANGED vars

\* The last reference to a Connection goes away on t: its deinit starts.
Deinit(t, h) ==
    /\ pc[t] = "ready"
    /\ h \in out
    /\ \A u \in Threads : dropping[u] # h
    /\ dropping' = [dropping EXCEPT ![t] = h]
    /\ pc' = [pc EXCEPT ![t] = "checkIn"]
    /\ UNCHANGED <<state, connCount, stateLock, mongocVars, out>>

\* Mutant: the signal is forgotten.
SignalForgotten(t) == pc' = [pc EXCEPT ![t] = "ready"]

\* stateLock.signal(): wakes one thread parked in wait(), if there is one.
\* The thread t itself returns to its caller.
SignalFrom(t) ==
    \/ \E u \in Threads :
          /\ pc[u] = "wait"
          /\ pc' = [pc EXCEPT ![u] = "relock", ![t] = "ready"]
    \/ /\ \A u \in Threads : pc[u] # "wait"
       /\ pc' = [pc EXCEPT ![t] = "ready"]

\* checkIn(), called by deinit.
CheckIn(t) ==
    /\ pc[t] = "checkIn"
    /\ stateLock = NoThread
    /\ state \in {"open", "closing"}
    /\ idle' = idle \cup {dropping[t]}
    /\ out' = out \ {dropping[t]}
    /\ connCount' = connCount - 1
    /\ dropping' = [dropping EXCEPT ![t] = NoHandle]
    /\ SignalFrom(t)
    /\ UNCHANGED <<state, stateLock, size, sessionPool>>

\* Mutant: close() destroys the pool without waiting for its connections.
CloseWithoutWait(t) ==
    /\ Enter(t)
    /\ state = "open"
    /\ state' = "closing"
    /\ pc' = [pc EXCEPT ![t] = "destroy"]
    /\ stateLock' = t
    /\ UNCHANGED <<connCount, mongocVars, out, dropping>>

\* close() to the first test of its loop: park, giving the lock up, or fall
\* through to mongoc_client_pool_destroy, keeping it.
Close(t) ==
    /\ Enter(t)
    /\ state = "open"
    /\ state' = "closing"
    /\ \/ /\ connCount > 0
          /\ pc' = [pc EXCEPT ![t] = "wait"]
          /\ UNCHANGED stateLock
       \/ /\ connCount = 0
          /\ pc' = [pc EXCEPT ![t] = "destroy"]
          /\ stateLock' = t
    /\ UNCHANGED <<connCount, mongocVars, out, dropping>>

\* NSCondition may wake a waiter without a signal.
SpuriousWake(t) ==
    /\ pc[t] = "wait"
    /\ pc' = [pc EXCEPT ![t] = "relock"]
    /\ UNCHANGED <<state, connCount, stateLock, mongocVars, out, dropping>>

\* Mutant: `if` instead of `while` around wait().
RecheckSkipped(t) ==
    /\ pc[t] = "relock"
    /\ stateLock = NoThread
    /\ pc' = [pc EXCEPT ![t] = "destroy"]
    /\ stateLock' = t
    /\ UNCHANGED <<state, connCount, mongocVars, out, dropping>>

\* wait() has the lock again and the loop condition is tested.
Recheck(t) ==
    /\ pc[t] = "relock"
    /\ stateLock = NoThread
    /\ \/ /\ connCount > 0
          /\ pc' = [pc EXCEPT ![t] = "wait"]
          /\ UNCHANGED stateLock
       \/ /\ connCount = 0
          /\ pc' = [pc EXCEPT ![t] = "destroy"]
          /\ stateLock' = t
    /\ UNCHANGED <<state, connCount, mongocVars, out, dropping>>

\* mongoc_client_pool_destroy and the end of close().  If server sessions are
\* pooled, destroy first pops a client to send endSessions with, which blocks
\* like any pop.
Destroy(t) ==
    /\ pc[t] = "destroy"
    /\ state = "closing"
    /\ sessionPool => CanPop
    /\ idle' = {}
    /\ size' = 0
    /\ sessionPool' = FALSE
    /\ state' = "closed"
    /\ stateLock' = NoThread
    /\ pc' = [pc EXCEPT ![t] = "ready"]
    /\ UNCHANGED <<connCount, out, dropping>>

\* A command run on a checked out client leaves a server session in
\* topology->session_pool.
PoolServerSession ==
    /\ out # {}
    /\ ~sessionPool
    /\ sessionPool' = TRUE
    /\ UNCHANGED <<state, connCount, stateLock, idle, size, out, dropping, pc>>

Next ==
    \/ \E t \in Threads :
          \/ CheckOut(t) \/ Pop(t)
          \/ TryCheckOut(t) \/ TryCheckOutNil(t)
          \/ ThrowPoolClosed(t)
          \/ \E h \in Handles : Deinit(t, h)
          \/ CheckIn(t)
          \/ Close(t) \/ SpuriousWake(t) \/ Recheck(t) \/ Destroy(t)
    \/ PoolServerSession

Spec == Init /\ [][Next]_vars

\* A thread inside the pool keeps running; a Connection is released
\* eventually.  Nobody is obliged to call close or to check a client out, and
\* spurious wakeups never have to happen.
Fairness ==
    /\ \A t \in Threads : WF_vars(Pop(t) \/ CheckIn(t) \/ Recheck(t) \/ Destroy(t))
    /\ \A h \in Handles : WF_vars(\E t \in Threads : Deinit(t, h))

FairSpec == Spec /\ Fairness

-----------------------------------------------------------------------------
(* Properties *)

\* Type invariant of the pool, its libmongoc half and the threads inside it.
TypeOK ==
    /\ state \in {"open", "closing", "closed"}
    /\ connCount \in Nat
    /\ stateLock \in Threads \cup {NoThread}
    /\ idle \subseteq Handles
    /\ size \in Nat
    /\ sessionPool \in BOOLEAN
    /\ out \subseteq Handles
    /\ dropping \in [Threads -> Handles \cup {NoHandle}]
    /\ pc \in [Threads -> {"ready", "pop", "checkIn", "wait", "relock", "destroy"}]

\* stateLock is held between steps exactly by a thread inside a blocking
\* libmongoc call (checkOut's pop, close's destroy).
LockInv ==
    \A t \in Threads : pc[t] \in {"pop", "destroy"} <=> stateLock = t

\* connCount, the only thing close() looks at, is the number of live
\* Connections plus the checkOut() that has counted itself but not popped yet.
CountInv ==
    connCount = Cardinality(out) + (IF \E t \in Threads : pc[t] = "pop" THEN 1 ELSE 0)

\* libmongoc's size is the number of clients that exist, all of them queued
\* or checked out and never both, and never exceeds max_pool_size.
SizeInv ==
    /\ idle \cap out = {}
    /\ size = Cardinality(idle) + Cardinality(out)
    /\ size <= MaxPoolSize

\* A Connection being deinitialised is still counted as out, and no two
\* deinits return the same client.
DroppingInv ==
    /\ \A t \in Threads : pc[t] = "checkIn" => dropping[t] \in out
    /\ \A t \in Threads : pc[t] # "checkIn" => dropping[t] = NoHandle
    /\ \A t, u \in Threads :
          pc[t] = "checkIn" /\ pc[u] = "checkIn" /\ t # u => dropping[t] # dropping[u]

\* Only the one close() that moved the pool out of "open" is inside close's
\* loop or destroy, so the unexpected-state throw of close() is unreachable.
CloserInv ==
    /\ \A t \in Threads : pc[t] \in {"wait", "relock", "destroy"} => state = "closing"
    /\ \A t, u \in Threads :
          /\ pc[t] \in {"wait", "relock", "destroy"}
          /\ pc[u] \in {"wait", "relock", "destroy"}
          => t = u

\* A checkOut() in the middle of its pop belongs to an open pool.
PopInv == \A t \in Threads : pc[t] = "pop" => state = "open"

\* close() reaches mongoc_client_pool_destroy, and the pool is closed, only
\* with every client back.
DrainedInv ==
    /\ \A t \in Threads : pc[t] = "destroy" => out = {}
    /\ state = "closed" => out = {} /\ idle = {}

\* A pooled server session implies that a client exists.
SessionInv == sessionPool => idle \cup out # {}

\* No lost wakeup: close() is parked in stateLock.wait() only while a
\* connection is still out, whose checkIn will signal it.
NoLostWakeup == \A t \in Threads : pc[t] = "wait" => connCount > 0

\* The pop inside mongoc_client_pool_destroy never blocks: it runs under
\* stateLock, so no push could ever release it.
DestroyNeverBlocks ==
    \A t \in Threads : pc[t] = "destroy" => (sessionPool => CanPop)

\* Connection.deinit's assertionFailure is unreachable: no Connection is ever
\* checked in, or still used, after its pool was destroyed.
NoCheckInAfterClose ==
    state = "closed" => out = {} /\ \A t \in Threads : pc[t] # "checkIn"

\* The inductive invariant behind the safety properties.
IInv ==
    /\ TypeOK
    /\ LockInv
    /\ CountInv
    /\ SizeInv
    /\ DroppingInv
    /\ CloserInv
    /\ PopInv
    /\ DrainedInv
    /\ SessionInv
    /\ NoLostWakeup

Promise == INSTANCE PoolPromise WITH phase <- state, held <- out

\* The locked, blocking pool implements the abstract one: no client is handed
\* out once close() has begun, phases never go back, and the pool is destroyed
\* only with no client out.
ImplementsPromise == Promise!Spec

\* close() finishes once every connection has been released.
CloseCompletes ==
    \A t \in Threads : pc[t] = "wait" ~> pc[t] = "ready" /\ state = "closed"

\* checkOut() "will block until a connection is available": since every
\* connection is released eventually, it returns.
CheckOutReturns ==
    \A t \in Threads : pc[t] = "pop" ~> pc[t] = "ready"

=============================================================================
