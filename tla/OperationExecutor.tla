------------------------- MODULE OperationExecutor -------------------------
(***************************************************************************)
(* OperationExecutor (Operations/Operation.swift) and the life of a        *)
(* MongoClient (MongoClient.swift): a thread pool of a few workers, the    *)
(* event loops that resubmit operations which found no connection, cursors *)
(* that hold a connection between calls, and close(), which itself runs on *)
(* a worker.                                                               *)
(*                                                                         *)
(* The connection pool appears as its promise (PoolPromise, implemented by *)
(* ConnectionPool): tryCheckOut, checkIn and close are atomic.  A session  *)
(* holds a connection between calls and needs a worker to end it exactly   *)
(* as a cursor does, so Cursors stands for both.  The NIOThreadPool is     *)
(* external: a FIFO queue, items that are still queued at shutdown fail.   *)
(***************************************************************************)
EXTENDS Naturals, FiniteSets, Sequences

CONSTANTS
    Workers,       \* threads of the NIOThreadPool (threadPoolSize of them)
    Commands,      \* operations that need a connection while they run
    Cursors,       \* operations that create a cursor
    Polled,        \* the cursors whose next() the user calls, and which block
    Closes,        \* calls of MongoClient.close()
    SyncCloses,    \* calls of MongoClient.syncClose(), on the user's threads
    MaxPoolSize    \* connections of the pool

ASSUME ExecutorBounds ==
    /\ MaxPoolSize \in Nat \ {0}
    /\ Polled \subseteq Cursors
    /\ IsFiniteSet(Commands \cup Cursors)

\* What the user may submit.  A create, a next and a kill name their cursor.
Work ==
    [kind : {"command"}, id : Commands]
        \cup [kind : {"create", "kill"}, id : Cursors]
        \cup [kind : {"next"}, id : Polled]
        \cup [kind : {"close"}, id : Closes]

Idle == [kind |-> "idle", id |-> 0]

VARIABLES
    active,      \* the thread pool accepts work
    queue,       \* its queue
    worker,      \* the work item each worker runs, or Idle
    future,      \* the future of each work item
    phase, held, \* the connection pool: its state and the holders of connections
    killing,     \* cursors whose isClosing flag is up
    cursor,      \* "none", "open" or "dead"
    runs,        \* how often an operation's body was executed
    sync,        \* the progress of each syncClose
    wasClosed    \* MongoClient.wasClosed

poolVars == <<phase, held>>
execVars == <<active, queue>>
cursorVars == <<killing, cursor>>
vars == <<active, queue, worker, future, phase, held, killing, cursor, runs, sync, wasClosed>>

Init ==
    /\ active = TRUE
    /\ queue = <<>>
    /\ worker = [k \in Workers |-> Idle]
    /\ future = [w \in Work |-> "none"]
    /\ phase = "open"
    /\ held = {}
    /\ killing = {}
    /\ cursor = [c \in Cursors |-> "none"]
    /\ runs = [w \in Work |-> 0]
    /\ sync = [s \in SyncCloses |-> "none"]
    /\ wasClosed = FALSE

-----------------------------------------------------------------------------
(* Users and event loops *)

\* Calls a user can make: cursors are advanced and killed once they exist.
CanSubmit(w) ==
    /\ future[w] = "none"
    /\ w.kind \in {"next", "kill"} => future[[kind |-> "create", id |-> w.id]] = "succeeded"

\* execute(body): runIfActive queues the closure, or fails the future when the
\* thread pool is shut down.
Execute(w) ==
    \/ /\ active
       /\ queue' = Append(queue, w)
       /\ future' = [future EXCEPT ![w] = "queued"]
    \/ /\ ~active
       /\ future' = [future EXCEPT ![w] = "failed"]
       /\ UNCHANGED queue

\* The closure of a close that failed still sets wasClosed (whenComplete).
Complete(w, outcome) ==
    /\ future' = [future EXCEPT ![w] = outcome]
    /\ wasClosed' = (wasClosed \/ w.kind = "close")

Submit(w) ==
    /\ CanSubmit(w)
    /\ Execute(w)
    /\ wasClosed' = (wasClosed \/ (~active /\ w.kind = "close"))
    /\ UNCHANGED <<active, worker, poolVars, cursorVars, runs, sync>>

\* resubmitIfNeeded, on an event loop.
Resubmit(w) ==
    /\ future[w] = "resubmit"
    /\ Execute(w)
    /\ UNCHANGED <<active, worker, poolVars, cursorVars, runs, sync, wasClosed>>

-----------------------------------------------------------------------------
(* Workers *)

Start(k) ==
    /\ worker[k] = Idle
    /\ queue # <<>>
    /\ worker' = [worker EXCEPT ![k] = Head(queue)]
    /\ future' = [future EXCEPT ![Head(queue)] = "running"]
    /\ queue' = Tail(queue)
    /\ UNCHANGED <<active, poolVars, cursorVars, runs, sync, wasClosed>>

Free(k) == worker' = [worker EXCEPT ![k] = Idle]

\* Work items of doOperation: they need a connection of their own.
IsOperation(w) == w.kind \in {"command", "create"}

\* Mutant: doOperation waits for a connection on the worker.
CheckOutOrWait(k) ==
    LET w == worker[k] IN
    /\ IsOperation(w) /\ future[w] = "running" /\ w \notin held
    /\ \/ /\ phase = "open"
          /\ Cardinality(held) < MaxPoolSize
          /\ held' = held \cup {w}
          /\ runs' = [runs EXCEPT ![w] = @ + 1]
          /\ UNCHANGED <<worker, future>>
       \/ /\ phase # "open"
          /\ future' = [future EXCEPT ![w] = "failed"]
          /\ Free(k)
          /\ UNCHANGED <<held, runs>>
    /\ UNCHANGED <<execVars, phase, cursorVars, sync, wasClosed>>

\* Mutant: the body runs before the connection is known to exist.
CheckOutRunsFirst(k) ==
    LET w == worker[k] IN
    /\ IsOperation(w) /\ future[w] = "running" /\ w \notin held
    /\ phase = "open"
    /\ runs' = [runs EXCEPT ![w] = @ + 1]
    /\ \/ /\ Cardinality(held) < MaxPoolSize
          /\ held' = held \cup {w}
          /\ UNCHANGED <<worker, future>>
       \/ /\ Cardinality(held) >= MaxPoolSize
          /\ future' = [future EXCEPT ![w] = "resubmit"]
          /\ Free(k)
          /\ UNCHANGED held
    /\ UNCHANGED <<execVars, phase, cursorVars, sync, wasClosed>>

\* doOperation: tryCheckOut gives a connection and the operation runs; it
\* returns nil, and the item leaves the thread pool to be resubmitted; or the
\* pool is closing and it throws.
CheckOut(k) ==
    LET w == worker[k] IN
    /\ IsOperation(w) /\ future[w] = "running" /\ w \notin held
    /\ \/ /\ phase = "open"
          /\ Cardinality(held) < MaxPoolSize
          /\ held' = held \cup {w}
          /\ runs' = [runs EXCEPT ![w] = @ + 1]
          /\ UNCHANGED <<worker, future>>
       \/ /\ phase = "open"
          /\ Cardinality(held) >= MaxPoolSize
          /\ future' = [future EXCEPT ![w] = "resubmit"]
          /\ Free(k)
          /\ UNCHANGED <<held, runs>>
       \/ /\ phase # "open"
          /\ future' = [future EXCEPT ![w] = "failed"]
          /\ Free(k)
          /\ UNCHANGED <<held, runs>>
    /\ UNCHANGED <<execVars, phase, cursorVars, sync, wasClosed>>

\* The operation returns.  A command's connection goes back; a cursor keeps it.
Finish(k) ==
    LET w == worker[k] IN
    /\ w \in held
    /\ \/ /\ w.kind = "command"
          /\ held' = held \ {w}
          /\ UNCHANGED cursor
       \/ /\ w.kind = "create"
          /\ cursor' = [cursor EXCEPT ![w.id] = "open"]
          /\ UNCHANGED held
    /\ future' = [future EXCEPT ![w] = "succeeded"]
    /\ Free(k)
    /\ UNCHANGED <<execVars, phase, killing, runs, sync, wasClosed>>

\* Mutant: the connection of a failed operation is not given back.
FailLeaks(k) ==
    LET w == worker[k] IN
    /\ w \in held
    /\ future' = [future EXCEPT ![w] = "failed"]
    /\ Free(k)
    /\ UNCHANGED <<execVars, poolVars, cursorVars, runs, sync, wasClosed>>

\* operation.execute throws: the connection goes back.
Fail(k) ==
    LET w == worker[k] IN
    /\ w \in held
    /\ held' = held \ {w}
    /\ future' = [future EXCEPT ![w] = "failed"]
    /\ Free(k)
    /\ UNCHANGED <<execVars, phase, cursorVars, runs, sync, wasClosed>>

Creation(c) == [kind |-> "create", id |-> c]

\* next() ends because the cursor is dead or being killed.
NextEnds(k) ==
    LET w == worker[k] IN
    /\ w.kind = "next"
    /\ cursor[w.id] = "dead" \/ w.id \in killing
    /\ future' = [future EXCEPT ![w] = IF cursor[w.id] = "dead" THEN "failed" ELSE "succeeded"]
    /\ Free(k)
    /\ UNCHANGED <<execVars, poolVars, cursorVars, runs, sync, wasClosed>>

\* next() returns a document, or its cursor is exhausted and closes itself.
\* Neither has to happen: the server may have nothing to say for ever.
NextReturns(k) ==
    LET w == worker[k] IN
    /\ w.kind = "next"
    /\ cursor[w.id] = "open"
    /\ \/ UNCHANGED <<cursor, held>>
       \/ /\ cursor' = [cursor EXCEPT ![w.id] = "dead"]
          /\ held' = held \ {Creation(w.id)}
    /\ future' = [future EXCEPT ![w] = "succeeded"]
    /\ Free(k)
    /\ UNCHANGED <<execVars, phase, killing, runs, sync, wasClosed>>

\* kill() raises isClosing ...
KillBegins(k) ==
    LET w == worker[k] IN
    /\ w.kind = "kill"
    /\ w.id \notin killing
    /\ killing' = killing \cup {w.id}
    /\ UNCHANGED <<execVars, worker, future, poolVars, cursor, runs, sync, wasClosed>>

\* ... and closes the cursor once it gets the cursor's lock, which a polling
\* next holds; the connection goes back.
KillEnds(k) ==
    LET w == worker[k] IN
    /\ w.kind = "kill"
    /\ w.id \in killing
    /\ \A j \in Workers : worker[j] # [kind |-> "next", id |-> w.id]
    /\ cursor' = [cursor EXCEPT ![w.id] = "dead"]
    /\ held' = held \ {Creation(w.id)}
    /\ killing' = killing \ {w.id}
    /\ future' = [future EXCEPT ![w] = "succeeded"]
    /\ Free(k)
    /\ UNCHANGED <<execVars, phase, runs, sync, wasClosed>>

-----------------------------------------------------------------------------
(* close and syncClose *)

\* connectionPool.close() on a worker: the pool stops handing out connections,
\* or throws and the close future fails.
CloseBegins(k) ==
    LET w == worker[k] IN
    /\ w.kind = "close" /\ future[w] = "running"
    /\ \/ /\ phase = "open"
          /\ phase' = "closing"
          /\ future' = [future EXCEPT ![w] = "draining"]
          /\ UNCHANGED <<worker, wasClosed>>
       \/ /\ phase # "open"
          /\ Complete(w, "failed")
          /\ Free(k)
          /\ UNCHANGED phase
    /\ UNCHANGED <<execVars, held, cursorVars, runs, sync>>

\* It waits, on its worker, for the last connection.
CloseDrained(k) ==
    LET w == worker[k] IN
    /\ w.kind = "close" /\ future[w] = "draining"
    /\ held = {}
    /\ phase' = "closed"
    /\ future' = [future EXCEPT ![w] = "shutdown"]
    /\ Free(k)
    /\ UNCHANGED <<execVars, held, cursorVars, runs, sync, wasClosed>>

\* threadPool.shutdownGracefully: items still queued are cancelled.
CancelQueued ==
    future' = [w \in Work |->
        IF \E i \in DOMAIN queue : queue[i] = w THEN "failed" ELSE future[w]]

\* operationExecutor.shutdown(), chained to the pool's close.
Shutdown(w) ==
    /\ future[w] = "shutdown"
    /\ active
    /\ active' = FALSE
    /\ CancelQueued
    /\ queue' = <<>>
    /\ wasClosed' = (wasClosed \/ \E i \in DOMAIN queue : queue[i].kind = "close")
    /\ UNCHANGED <<worker, poolVars, cursorVars, runs, sync>>

\* Mutant: close() succeeds without waiting for the workers.
JoinedEarly(w) ==
    /\ future[w] = "shutdown"
    /\ ~active
    /\ Complete(w, "succeeded")
    /\ UNCHANGED <<execVars, worker, poolVars, cursorVars, runs, sync>>

\* The threads have been joined and the close future succeeds.
Joined(w) ==
    /\ future[w] = "shutdown"
    /\ ~active
    /\ \A k \in Workers : worker[k] = Idle
    /\ Complete(w, "succeeded")
    /\ UNCHANGED <<execVars, worker, poolVars, cursorVars, runs, sync>>

\* syncClose(): connectionPool.close() on the caller's thread.
SyncCloseBegins(s) ==
    /\ sync[s] = "none"
    /\ \/ /\ phase = "open"
          /\ phase' = "closing"
          /\ sync' = [sync EXCEPT ![s] = "draining"]
       \/ /\ phase # "open"
          /\ sync' = [sync EXCEPT ![s] = "failed"]
          /\ UNCHANGED phase
    /\ UNCHANGED <<execVars, worker, future, held, cursorVars, runs, wasClosed>>

SyncCloseDrained(s) ==
    /\ sync[s] = "draining"
    /\ held = {}
    /\ phase' = "closed"
    /\ sync' = [sync EXCEPT ![s] = "shutdown"]
    /\ UNCHANGED <<execVars, worker, future, held, cursorVars, runs, wasClosed>>

\* syncShutdown: cancels what is queued ...
SyncShutdown(s) ==
    /\ sync[s] = "shutdown"
    /\ active
    /\ active' = FALSE
    /\ CancelQueued
    /\ queue' = <<>>
    /\ wasClosed' = (wasClosed \/ \E i \in DOMAIN queue : queue[i].kind = "close")
    /\ UNCHANGED <<worker, poolVars, cursorVars, runs, sync>>

\* ... and joins the threads.
SyncJoined(s) ==
    /\ sync[s] = "shutdown"
    /\ ~active
    /\ \A k \in Workers : worker[k] = Idle
    /\ sync' = [sync EXCEPT ![s] = "succeeded"]
    /\ wasClosed' = TRUE
    /\ UNCHANGED <<execVars, worker, future, poolVars, cursorVars, runs>>

-----------------------------------------------------------------------------
Pending(w) == future[w] \notin {"none", "succeeded", "failed"}

\* The client is closed, and everything the user submitted has been answered.
Finished ==
    /\ ~active
    /\ \A w \in Work : ~Pending(w) /\ ~CanSubmit(w)
    /\ \A s \in SyncCloses : sync[s] \in {"succeeded", "failed"}
    /\ UNCHANGED vars

WorkerStep(k) ==
    \/ Start(k) \/ CheckOut(k) \/ Finish(k) \/ NextEnds(k)
    \/ KillBegins(k) \/ KillEnds(k)
    \/ CloseBegins(k) \/ CloseDrained(k)

Next ==
    \/ \E w \in Work : Submit(w) \/ Resubmit(w) \/ Shutdown(w) \/ Joined(w)
    \/ \E k \in Workers : WorkerStep(k) \/ NextReturns(k) \/ Fail(k)
    \/ \E s \in SyncCloses :
          SyncCloseBegins(s) \/ SyncCloseDrained(s) \/ SyncShutdown(s) \/ SyncJoined(s)
    \/ Finished

Spec == Init /\ [][Next]_vars

\* Threads and event loops make progress.  The user kills every cursor, as its
\* documentation demands; nothing else has to be submitted, and a next() that
\* polls need never get a document.
Fairness ==
    /\ \A k \in Workers : WF_vars(WorkerStep(k))
    /\ \A w \in Work :
          /\ WF_vars(Resubmit(w)) /\ WF_vars(Shutdown(w)) /\ WF_vars(Joined(w))
          /\ w.kind = "kill" => WF_vars(Submit(w))
    /\ \A s \in SyncCloses :
          WF_vars(SyncCloseDrained(s)) /\ WF_vars(SyncShutdown(s)) /\ WF_vars(SyncJoined(s))

FairSpec == Spec /\ Fairness

-----------------------------------------------------------------------------
(* Properties *)

\* Type invariant of the executor.
TypeOK ==
    /\ active \in BOOLEAN
    /\ queue \in Seq(Work)
    /\ worker \in [Workers -> Work \cup {Idle}]
    /\ future \in [Work -> {"none", "queued", "running", "resubmit", "draining",
                            "shutdown", "succeeded", "failed"}]
    /\ phase \in {"open", "closing", "closed"}
    /\ held \subseteq Work
    /\ killing \subseteq Cursors
    /\ cursor \in [Cursors -> {"none", "open", "dead"}]
    /\ runs \in [Work -> 0..1]
    /\ sync \in [SyncCloses -> {"none", "draining", "shutdown", "succeeded", "failed"}]
    /\ wasClosed \in BOOLEAN

\* Resubmission never repeats an operation: its body runs at most once, and
\* exactly once if its future succeeded.
RunsOnce ==
    \A w \in Work :
        /\ runs[w] <= 1
        /\ IsOperation(w) /\ future[w] = "succeeded" => runs[w] = 1

\* Connections are held by running operations and open cursors and by nobody
\* else, so nothing leaks one on an error, resubmission or kill.
HeldByTheLiving ==
    held = {w \in Work : \/ \E k \in Workers : worker[k] = w /\ IsOperation(w) /\ runs[w] = 1
                         \/ w.kind = "create" /\ cursor[w.id] = "open"}

\* Once a close has succeeded wasClosed says so and nothing is left: no connection, no
\* open cursor, no work that runs or waits for a worker.
ClosedIsQuiet ==
    (\E w \in Work : w.kind = "close" /\ future[w] = "succeeded")
        \/ (\E s \in SyncCloses : sync[s] = "succeeded")
    => /\ wasClosed /\ phase = "closed" /\ held = {} /\ queue = <<>>
       /\ \A k \in Workers : worker[k] = Idle
       /\ \A c \in Cursors : cursor[c] # "open"

\* Every future is resolved: an operation without a connection is resubmitted
\* until a cursor gives one up, a close ends once the cursors are killed, and
\* what is queued at shutdown is cancelled.  syncClose() returns.
FuturesResolve ==
    /\ \A w \in Work : Pending(w) ~> future[w] \in {"succeeded", "failed"}
    /\ \A s \in SyncCloses : sync[s] = "draining" ~> sync[s] = "succeeded"

\* MongoClientTests.testConnectionPoolClose: the "cursor can still be used and
\* successfully killed while closing occurs", after which close() succeeds.
CloseResolves ==
    \A w \in Work : w.kind = "close" /\ Pending(w) ~> future[w] \in {"succeeded", "failed"}

-----------------------------------------------------------------------------
(* The executor as a user of the connection pool *)

Promise == INSTANCE PoolPromise WITH Handles <- Work

\* Operations, cursors and both kinds of close use the pool within the promise
\* that ConnectionPool implements: the bodies of doOperation get a connection
\* only from an open pool with one to spare, every connection comes back before
\* the pool is destroyed, and close() destroys it once.
RespectsPromise == Promise!Spec

=============================================================================
