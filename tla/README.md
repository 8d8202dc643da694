# Verification of the MongoDB Swift driver

TLA+ models of the stateful core of `mongo-swift-driver`: the code under
`Sources/MongoSwift` that decides who may use a libmongoc client, when it is
given back, and in which order cursors, sessions and the client itself are
taken down; and the parts of the vendored libmongoc on which the driver's
promises rest: transactions, server discovery, monitoring and selection, change
streams and bulk writes.  Paths below are relative to the repository; `mongoc/`
stands for `Sources/CLibMongoC/mongoc/`.

- [The system](#the-system)
- [Modules and the code they model](#modules-and-the-code-they-model)
- [Runs](#runs)
- [Bounds](#bounds)
- [Fairness](#fairness)
- [Proofs](#proofs)
- [Where code and documentation disagree](#where-code-and-documentation-disagree)
- [What is left out](#what-is-left-out)
- [Plan](#plan)

## The system

A `MongoClient` owns a `ConnectionPool` and an `OperationExecutor`.  Every
asynchronous method of the API wraps its work in an `Operation` and gives it to
the executor, which runs it on one of `threadPoolSize` worker threads with a
connection checked out of the pool, and completes a future on an event loop.
Cursors, change streams and sessions keep a connection between calls.

| Component | State it keeps | Operations | Interacts with |
|---|---|---|---|
| `ConnectionPool` (`ConnectionPool.swift`) | open / closing / closed, `connCount`, an `NSCondition` | `checkOut`, `tryCheckOut`, `checkIn` (from `Connection.deinit`), `close` | libmongoc's client pool; called from every thread |
| `OperationExecutor` (`Operations/Operation.swift`) | a NIO thread pool | `execute` (with resubmission), `shutdown`, `syncShutdown` | pool, sessions, event loops |
| `MongoClient` (`MongoClient.swift`) | `wasClosed`, event handlers, the two above | `init`, `close`, `syncClose`, `startSession`, `withSession`, `watch`, commands | everything |
| `Cursor` (`CursorCommon.swift`) | open / error / closed, cached document, a lock, atomic `isClosing` | `init`, `next`, `tryNext`, `toArray`, `kill`, `isAlive` | connection, session, libmongoc cursor |
| `MongoCursor`, `ChangeStream` | a `Cursor`, a decoder, a resume token | futures over the above | executor |
| `ClientSession` (`ClientSession.swift`) | notStarted / started / ended, cached times | `startIfNeeded`, `end`, `advanceClusterTime`, `advanceOperationTime` | executor, libmongoc session |
| Transactions (`ClientSession.swift`, `mongoc/mongoc-client-session.c`) | libmongoc's transaction state and number | `startTransaction`, `commitTransaction`, `abortTransaction` | server, over connections that fail |
| Server discovery (`mongoc/mongoc-topology-description.c`, `mongoc-server-description.c`; seen through `SDAM.swift`) | topology type, set name, servers, greatest election | `handle_ismaster` with one transition per topology and server type | scanner, handshakes of pooled connections |
| Monitoring and selection (`mongoc/mongoc-topology.c`, `mongoc-topology-scanner.c`, `mongoc-async*.c`) | a background thread, scanner nodes, two condition variables, `scan_requested` | scan, handshake, invalidate, select, stop | every pooled client; sockets |
| Change streams (`ChangeStream.swift`, `mongoc/mongoc-change-stream.c`) | resume token, operation time, implicit session, a cursor that is recreated | `watch`, `next`, `tryNext`, `toArray`, `kill`, `resumeToken` | `Cursor`, server |
| Bulk writes (`MongoCollection+BulkWrite.swift`, `mongoc/mongoc-bulk-operation.c`, `mongoc-write-command.c`) | commands, batches, transaction number, merged result | `bulkWrite`, `insertMany` | server, over connections that fail |
| Event monitoring (`APM.swift`) | handler lists | `addHandler`, publish from libmongoc threads | user callbacks |
| Error mapping (`MongoError.swift`) | none | map libmongoc errors, filter inserted ids | operations |
| BSON, options, connection string, read/write concern | values | encode, decode, iterate, validate | all operations |

What is hard about it, and what has to hold:

- **Locks and blocking calls.**  The pool's methods block inside or give up a
  lock; a poll of a cursor holds a lock that `kill` needs.  Nobody may wait for
  somebody who waits for him, and no wake-up may get lost.
- **Life times across threads.**  libmongoc pools, cursors and sessions are
  destroyed by hand.  None may be used after that, destroyed twice or leaked,
  however calls interleave and whichever of them fail.
- **A bounded thread pool that closes itself.**  `close()` runs on a worker and
  waits for connections that can only be given back on a worker.
- **Asynchronous gaps.**  State read before a future is submitted (cached
  session times) is used after it completed.
- **An unreliable network.**  Commands and answers of a transaction, a bulk
  write or a change stream get lost or arrive late.  What the driver reports
  must still be true, nothing may be applied twice, and no event may be skipped
  or repeated when a stream resumes.
- **Stale knowledge.**  Replies about a replica set arrive on several sockets in
  any order, some from before an election or a reconfiguration.  The description
  must not go back to a deposed primary and must still find the set in the end.
- **Two condition variables and one scanning thread.**  A thread that waits for
  a server must hear of every change that concerns it, and the thread that
  scans must hear of every request and of the stop.

`PROJECT.json` lists these hazards one by one with their source lines.

## Modules and the code they model

Actions are the atomic steps of the code: a critical section that cannot block
is one action; a method that blocks, waits for a lock or goes asynchronous is
split exactly there.  Each module keeps its mutants (plausible bugs used to
validate the properties) next to the definition they replace.

### ConnectionPool, PoolPromise

`ConnectionPool` models `ConnectionPool.swift` with the queue of
`mongoc/mongoc-client-pool.c` below it.  All methods run in
`stateLock.withLock`.  `checkOut` blocks in `mongoc_client_pool_pop` with the
lock held, so it is `CheckOut` and `Pop`; `close` gives the lock up in
`stateLock.wait()`, so it is `Close`, `Recheck` (also after a spurious
wake-up, `SpuriousWake`) and `Destroy`; `checkIn` is reached through
`Connection.deinit` (`Deinit`, then `CheckIn` when the lock is free) and
signals the waiting closer (`SignalFrom`).  `mongoc_client_pool_destroy` pops a
client to end server sessions, which could block under the lock; `Destroy`
contains that pop.

`PoolPromise` is the abstract pool: a set of connections that are out, atomic
check-out, check-in and close, close only when nothing is out.
`ConnectionPool!ImplementsPromise` says that the locked pool implements it.

### Cursor

`Cursor` models the class of the same name.  `next`, `tryNext` and `toArray`
hold `lock` from entry to exit (`Enter`, `Goto`, `Return`) with a step for
every pass of the polling loop (`Poll`) and the start and the outcome of every
libmongoc call (`FetchStarts`, `IODocument`, `IOError`, `IONothing`).  `kill`
is three steps: raise `isClosing`, close under the lock, lower `isClosing`.
`init` of a lazy cursor fetches and caches a first document.  `EndSession` is
another thread that ends the cursor's session.  A cursor is of one of `Kinds`:
lazy (a `MongoCursor`) or not (a `ChangeStream`), tailable or not, with or
without a session.  Documents are numbered, so that order and loss are visible
in `delivered`, `dropped` and the cache.

### OperationExecutor

`OperationExecutor` models `Operations/Operation.swift` and the life cycle in
`MongoClient.swift`: the queue and workers of the thread pool (external, from
how it is used), `execute` with a connection (`CheckOut`: runs the body, or
asks for resubmission when `tryCheckOut` returned nil, or fails when the pool
is closed), the resubmission on an event loop (`Resubmit`), and both ways to
close a client.  It uses the pool through `PoolPromise`'s contract: check-out,
check-in and close are atomic (`RespectsPromise` is the converse).  `Cursors` stands for whatever holds a
connection between calls and needs a worker to give it up.

### ClientSession

`ClientSession` models the session's three states with the asynchronous start:
`Issue` is `startIfNeeded` up to the submitted operation (it captures the
cached times), `StartSession` the worker, `Started` the closure on the event
loop that installs the libmongoc session and the captured times, `Run` and
`Reply` the operation itself.  `AdvanceTime` is both `advance...Time` methods;
`End` and `EndRuns` are `end()`.  A time is a pair (timestamp, increment),
compared as libmongoc does.

Two contracts of the documentation are built in: `end()` is called when all
operations have completed and nothing is called until it returned; and, where
`Sequential` is TRUE, the user waits for one operation before issuing the
next.  `advanceOperationTime` may be called at any time, also while an operation
is under way.  Reads and writes of `ClientSession.state` are atomic in the model;
the class has no lock, so two threads that use one session at the same instant
are outside it.

`promised` is a history variable: the greatest operation time that a reply has
shown or that the user has asked for.  No step of the code reads it, only the
user's choice of a time does.  Two things
the code does not keep are taken out of it, both listed below: an advance made
while an operation is starting the session (`Starting`) promises nothing, and a
sequential user does not ask for a time before the one he was promised.

### Transaction

`Transaction` models the transaction functions of
`mongoc/mongoc-client-session.c` under `startTransaction`,
`commitTransaction`, `abortTransaction` and `end()`: its state machine, the
transaction number, one internal retry of commit and abort, write concern
majority for repeated commits, and the verdict with its
`UnknownTransactionCommitResult` label (`Verdict`).  A commit may be in force
without its write concern, and the code tells the codes apart: 64 (`wcFailed`),
the retryable ones and 50 (`expired`, MaxTimeMSExpired) get the label, 100 and
79 (`wcUnmet`) do not and reach the user as a plain write concern error
(`unmet`).  The server and the network are
external: a command is carried out and answered (`Serve`, `Refuse`), fails
before it arrives (`Fail`), is carried out but its answer lost (`LoseAnswer`),
or outlives its connection and arrives later (`Delay`, `ServeStray`); the
server may abort a transaction by itself (`ServerAborts`).  Calls that return
an error without changing anything are left out.  Numbers spent by retryable
writes outside transactions are not modelled.

### TopologyDescription, MCTopologyDescription

`td` is the `mongoc_topology_description_t`; its only writer is
`HandleIsMaster(t, a, r)`, which is
`mongoc_topology_description_handle_ismaster`: describe the server, take over
the cluster time, apply the entry of `gSDAMTransitionTable`
(`Transition`), then the session timeout and the compatibility check.  The
transitions keep the names of the code (`UpdateRsFromPrimary`,
`UpdateRsWithoutPrimary`, ...).  The replica set is external: configurations
`Config` by version, elections `Winner` by number, and at every address any
reply a server there could have sent at any earlier time (`Answers`), also by
something that is no member at all (`Strangers`): a member of another set, a
mongos, a standalone.  `Settle` ends the elections, after which `Scan` delivers
current replies only.  A client starts as Unknown or as a replica set without a
primary, with or without a set name (an SRV record leaves it Unknown even with
a name, and the name of a TXT record decides the type but is not stored), or
with one seed as Single.  `shown` is history: the setVersion and
electionId of the last primary shown.

### TopologyMonitor, MCTopologyMonitor

One critical section under `topology->mutex` is one action, and so is one event
of the scan, which runs without the mutex and takes it in its callbacks.
`Background` is one pass of the background thread's loop up to the scan
(`StartScan` reconciles the nodes with the description first), `FinishScan` its
end; `Connected`, `Success` and `Fail` are the outcomes of one async command,
with the cancellation of its siblings and the retry on a new stream; `Select`,
`Expire`, `Handshake`, `InvalidateServer` and `Stop` are the other threads.  The
description is abstracted to what selection asks of a host (`known`);
`TopologyDescription` has the detail.  The specification is `MonitorSpec`, so that
both modules can be extended together by their proofs.

### ChangeStream

The `Cursor` object of `ChangeStream.swift` over `mongoc_change_stream_t` over
its cursor.  `Call` is `next`, `tryNext` or `toArray` on a worker; `Pop` takes a
document off the batch (a set of oplog positions, read in their order), `GetMore` and `GetMoreFails` are one reply, `Resume` and
`ResumeFails` the recreation of the cursor from `_make_command`, `Return` the
Swift code behind `mongoc_change_stream_next` (decoding, the second look at the
loop, the error).  `Hand` is what a call leaves behind: `Processed` are the
events whose token `resumeToken` took over, and they reach the user only if all
of the call's events decode; otherwise the call throws and they are `dropped`.
Tokens and operation times are positions in the oplog.  Three
generations of servers differ in what they accept and send
(`startAtOperationTime`, `postBatchResumeToken`).  Events may fail to decode
(`bad`), lack a resume token (`noId`), invalidate the stream or not match it.
Sharing a stream between threads is `Cursor`'s subject.

### BulkWrite

`StreamForWrites` to `EndCommand` is `mongoc_bulk_operation_execute`: one
command per run of models of one type, each sent by `_mongoc_write_opmsg` in
batches (`ShipIt`, or `TooLarge`), retried once under the same transaction
number (`Retry`), its reply merged with an index offset (`Merge`).  The network
and the server (`Execute`) are external: a request may be refused, its reply
lost, or be carried out after its retry; the server remembers the reply of a
transaction number.  `Completed` and `FilteredIDs` are what `BulkWriteOperation`
and `extractBulkWriteError` make of the result.

## Runs

| Run | Instance | What it shows |
|---|---|---|
| `pool` | 5 threads, 4 client handles, pool size 3, every method | `NoLostWakeup` (`close` is parked only while a connection is out), `DestroyNeverBlocks`, `NoCheckInAfterClose`, `ImplementsPromise`; with fair threads `CloseCompletes`: a `close` that waits for connections finishes |
| `pool_checkout_blocks` | 2 threads, pool size 1 | violation of `CheckOutReturns`, see below |
| `cursor` | 3 threads, 2 documents, a find cursor with a session, a tailable cursor, a change stream with a session | never destroyed under a running call (`NoDestroyDuringIO`), documents once and in order (`InOrderOnce`) and none lost (`NothingLost`), dead after the end (`DeadAfterEnd`), for good (`DeadStaysDead`), and `KillCompletes` although `next` would poll for ever and another kill lowers the shared flag |
| `exec_close` | 3 workers, 1 connection, 2 commands, a polled cursor, `close()` and `syncClose()` | bodies run once (`RunsOnce`), connections are held by running operations and open cursors only (`HeldByTheLiving`), a closed client is quiet (`ClosedIsQuiet`), every future resolves and `syncClose` returns (`FuturesResolve`), no deadlock |
| `exec_close_one` | 1 worker | violation of `CloseResolves` |
| `session_life` | 2 operations, 6 stamps, sequential user | `NoLeak`, `RunsOnLiveSession`, `CausalOrder` (an operation runs on a session whose operation time is not before the greatest one that a reply has shown or the user has asked for) |
| `txn_network` | 2 transactions, every network fault | `CommitReported`, `AbortIsFinal`; as long as no command was late also `FailedMeansNotCommitted` (a commit that failed with neither the label nor a write concern error is not in force) and `EndAborts` |
| `topology` | 3 members, an alias, 3 configurations, 3 elections, every seed list | `AtMostOnePrimary`, `NoStalePrimary` (compared with the last primary shown no lesser setVersion and, at the same setVersion, no lesser electionId, also after a time without a primary), `MembersOfPrimary`, `OneSet`, and `Converges`: whatever stale replies came before, a client that still reaches a member finds the whole set |
| `monitor` | a seed, a discovered host that does not always resolve, 1 selecting thread | `NoMissedServer`, `PromptScan`, `OneOutcome` (a node with several commands reports once), `StopCompletes` |
| `change_stream` | 3 events, 2 faults, 2 streams one after the other, 3 server generations | `ExactlyOnce` across driver and user resumes (every matching event up to `resumeToken` once and in order and none behind it, but for calls that threw a `DecodingError`), `TokenNotAhead`, `SessionHeld`, `CallReturns` |
| `bulk` | up to 3 models of 4 kinds and 3 fates, batches of 2 or 3, 3 faults, ordered and unordered | `AtMostOnce`, `SuccessIsComplete`, `ReportIsTrue`, `OrderedCommands`, `IDsAreInserted` |
| `bulk_ordered` | the same, 2 faults | violation of `OrderedStops` |

## Bounds

- Pool: with 5 threads and size 3 the pool is exhausted with callers left over,
  two threads may close, and check-ins race with the closer.
- Cursor: 3 threads allow a poll and two overlapping kills; 2 documents allow
  one in the cache and one behind it.  Three of the eight trait sets are
  checked; they contain every trait both present and absent, and the others
  differ from them only in the session or do not occur.
- Executor: one connection forces resubmission; one polled cursor and one
  `close()` each occupy a worker, so 3 workers leave one to spare.
- Session: 2 operations let one start the session and one find it started (or
  one fail to start it); timestamps up to 2 and increments up to 1 make every
  outcome of the two-level comparison happen.
- Transaction: `MaxTxn` = 2 lets a late command meet the next transaction.  A
  call sends at most two commands, as the code does; calls are not bounded.
  Commit commands are counted up to two, all that the properties tell apart.
- Topology: the set grows and then drops its first member, every member wins an
  election, and every reply of any version and election can arrive at any time;
  a seed outside the configuration is an alias of a member, two addresses may
  answer as strangers.  `MaxTime` 1 is enough to see the cluster time advance.
- Monitor: with one address per name and a second setup a node has two commands
  at once; one host comes, goes and fails to resolve, the seed stays.
- Change stream: three events leave one unread in a batch behind a read one and
  one after a resume; two faults fail a resume too; the second stream is the
  user's own resume.
- Bulk write: three models make one split command, or up to three commands;
  three faults exhaust a retry and fail a later batch.

No cap removes a behaviour below it: `MaxTxn`, `NumDocs`, `MaxTimestamp`,
`MaxIncrement`, `MaxEvents`, `MaxOps` and `MaxTime` bound only what the server
or the user has or how far numbers go, `MaxFaults` and `MaxOpens` how often
something happens.
The deadlock check is off in `pool` because `checkOut` can really block for
ever, and elsewhere because a failed cursor, an ended session, a finished bulk
write, a killed stream or a stopped monitor has no further step; `exec_close`
and `session_life` check it.

## Fairness

- `pool`: a thread inside a method goes on, and users drop every connection they
  hold.  Weak fairness is enough: critical sections that do not block are
  single actions, so the lock is never taken away for good from a thread that
  asks for it.  Nobody has to check out.
- `cursor`: a thread inside a method goes on (a libmongoc call returns after
  `maxAwaitTimeMS` at most).  `KillClose` is strongly fair: the
  cursor's lock is granted eventually to a kill that keeps asking, however many
  other calls get it in between.  No document need ever arrive.
- `exec_close`: workers and event loops make progress, the queue is FIFO.  The
  user kills every cursor, as its documentation demands; `next` need never
  return by itself, and nothing else has to be submitted.
- `topology`: once the deployment is settled every known server is scanned again
  (a heartbeat); nothing is assumed before that.
- `monitor`: time passes, the background thread runs, and the commands of a scan
  end, each having a timeout of `connectTimeoutMS`.  No host need ever answer.
- `change_stream`: the worker goes on, and a getMore that is repeated for ever is
  answered with progress infinitely often if there is any to be had; faults are
  finite.

## Proofs

TLAPS proves the following for all values of the constants, under the named
assumptions of each module (all evaluated by the runs).  Every safety invariant
and every action property that a passing run checks is stated by a theorem; so
are both refinements of `PoolPromise`.  Every proof has the same shape: an
inductive invariant, one lemma per action or per way the data takes, and the
property as a consequence.  The inductive invariants and `TypeOK`,
`DestroyedOnce`, `KillNotMissed`, `EndedIsFinal` and `RetriesAreMajority` are
proved and need no run of their own; they were model-checked on the instances
of the runs, or somewhat larger ones, before they were proved.

**ConnectionPoolProofs** - `IInvTheorem`, `TypeCorrect`, `NoLostWakeupTheorem`,
`DestroyNeverBlocksTheorem`, `NoCheckInAfterCloseTheorem`, `RefinementTheorem`.
That `connCount` is right is not inductive by itself: the invariant ties it to
the set of handles that are out, the handles to libmongoc's queue and size, and
the thread positions to the owner of the lock.  The refinement maps lock and
condition variable away.

**CursorProofs** - `IInvTheorem`, `DestroyedOnceTheorem`,
`NoDestroyDuringIOTheorem`, `KillNotMissedTheorem`, `DeadStaysDeadTheorem`,
`DeadAfterEndTheorem`, `InOrderOnceTheorem`, `NothingLostTheorem`.
`KillNotMissed` is true for a subtle reason: a kill that lowers the shared flag
has already closed the cursor.  `PhaseInv` records this (`killReset => ~Alive`)
and that nothing is cached while a fetch is under way; `LockInv` says who holds
the lock.  `DeadAfterEnd` needs in addition that a raised `isClosing` has a kill
behind it (`ClosingInv`).  The documents are followed by `DataInv`: an array
under construction belongs to a `toArray` that holds the lock (`HandInv`),
everything delivered is below everything pending (`OrderInv`), and a document
has been fetched if and only if it is in one of the four places it can go to
(`PlacedInv`).  There is one lemma for each way a document takes: fetched into
the cache, handed out, collected, returned as an array, discarded.

**OperationExecutorProofs** - `IInvTheorem`, `TypeCorrect`, `RunsOnceTheorem`,
`HeldByTheLivingTheorem`, `ClosedIsQuietTheorem`, `RespectsPromiseTheorem`.  `QueueInv` and
`WorkerInv` say that an item is queued once or with one worker, `RunsInv` which
futures mean that a body has run, `CursorInv` that only a cursor whose creation
succeeded is used.  `RunsOnce` is not inductive without
`HeldByTheLiving`: an operation that is resubmitted holds no connection, hence
has not run.  `CloseInv` orders a close - connections are back, the pool is
closed, threads are stopped, success is reported - so that each stage still has
what the stages before it achieved.  `RespectsPromise` says that the executor, in
turn, uses the pool as `PoolPromise` allows, so the two components meet in that
specification: `ConnectionPool` implements it and the executor asks for nothing
else.  It needs `DrainInv` (one close at a time waits for the pool, and only
while it is closing), and was model-checked on the instance of `exec_close`.

**ClientSessionProofs** - `IInvTheorem`, `RunsOnLiveSessionTheorem`,
`EndedIsFinalTheorem` for every user, `NoLeakTheorem` and `CausalOrderTheorem`
with the assumption `Sequential`.  `PromisedInv` follows the promised operation
time from the cache through `startIfNeeded`'s captured copy to the libmongoc
session.

**TransactionProofs** - `IInvTheorem`, `CommitReportedTheorem`,
`AbortIsFinalTheorem`, `RetriesAreMajorityTheorem`, for any number of
transactions and any mix of lost and late commands; `FailedMeansNotCommittedTheorem`
and `EndAbortsTheorem`, which speak of behaviours without late commands.  The
argument for `AbortIsFinal`: a transaction is committed on the server only if a
commit command for its number was sent (`SentInv`), and none is ever sent for a
number that was aborted (`AbortedInv`).  The last two rest on `PromptInv`: until
a command is late none is astray, a transaction whose commit was refused is
absent or aborted on the server (`RefusedInv`), and one that is open there is
the session's current one, was given up or has an unknown result (`OpenInv`).

**TopologyProofs** - about `TopologyDescription`: `IInvTheorem`,
`AtMostOnePrimaryTheorem`, `NoStalePrimaryTheorem`, `MembersOfPrimaryTheorem`,
`OneSetTheorem`, for every deployment, seed list and order of replies; what is
assumed of the deployment is `DeploymentAssumption`.  The description is a
value, so the invariant is a predicate `Good(t, b)` of a description and the
election last shown: `Kinds` (which server types a topology type admits),
`Names`, `Elections` (what was shown is not later than what is remembered, as
a pair of setVersion and electionId) and `OnlyMembers`.  `NoStalePrimary` is an
action property and follows from `Good` before and after the step.  There is one lemma per operator of the code
(`WithoutPrimaryGood`, `WithPrimaryGood`, `FromPrimaryGood`, ...), and the step
for a reply is their composition along `HandleIsMaster`.  About
`TopologyMonitor`: `MonitorInvTheorem`, `NoMissedServerTheorem`,
`PromptScanTheorem`, `OneOutcomeTheorem`, for any hosts, addresses per host and
threads.  `NodeInv` is the invariant of one scanner node: until it is retired it
owes an outcome exactly while it has commands and no stream, a live command
excludes a stream, and a command that was sent excludes every other live one.
`RequestInv` says that a request for a scan outlives the scan that is running
and the background thread's going to sleep.

**ChangeStreamProofs** - `IInvTheorem`, `TypeCorrect`, `ExactlyOnceTheorem`,
`TokenNotAheadTheorem`, `SessionHeldTheorem`, for any oplog, number of faults
and number of reopened streams.  `Good` is the core: every event the stream has
taken lies before the position it would resume from, every event of the batch
behind it, and no matching event is missing on either side.  Around it stand
`TokenInv` (the user's token exists, and libmongoc then has one that is not
behind it) and `OrderInv` (what a call has in its hands is in order and lies
behind the user's token, so that no event is handed out twice).

**BulkWriteProofs** - `IInvTheorem`, `TypeCorrect`, `AtMostOnceTheorem`,
`SuccessIsCompleteTheorem`, `ReportIsTrueTheorem`, `OrderedCommandsTheorem`,
`IDsAreInsertedTheorem`, for bulk writes, batches and numbers of faults of any
size.  `NetInv`: requests alive at the same time that belong to different
batches have different transaction numbers and no document in common.
`ServerInv`: what was applied under a number is in the log of replies, so a
retry finds it.  `ReplyInv` and `AckedInv`: a reply in hand is the server's, and
the documents of an answered batch are settled for good.  `OrderInv` is the stop
after a failed command, `PrefixInv` the stronger fact that holds if no command
is split.  Counts are compared through cardinalities (`FiniteSetTheorems`).

Only model-checked: liveness (`CloseCompletes`, `KillCompletes`,
`FuturesResolve`, `Converges`, `StopCompletes`, `CallReturns`), which is beyond
the prover, and the absence of deadlock in `exec_close` and `session_life`.  The
properties of the three violation runs are false.

## Where code and documentation disagree

Shown by a run:

1. `ConnectionPool.checkOut` "will block until a connection is available", but
   it blocks with `stateLock` held, so the `checkIn` that would provide one
   never gets the lock (`pool_checkout_blocks`).  The executor uses `tryCheckOut`;
   `withConnection` does not.
2. `MongoClient.close` occupies a worker until every cursor and session gave
   its connection back; with one worker the kills queue behind it for ever
   (`exec_close_one`).  `syncClose` runs on the caller's thread.
3. An ordered bulk write whose command is split into batches goes on with the
   next batch after a write error: the loop of `_mongoc_write_opmsg`
   (`mongoc/mongoc-write-command.c:638`) stops on network and command errors
   only.  "operations will be executed serially in order and a write error will
   abort execution of the entire bulk write"
   (`MongoCollection+BulkWrite.swift:288`) is violated in `bulk_ordered`.
   `OrderedCommands` states what does hold.

Met while reading, and built into the models as the code has it:

- `next()` returns nil as soon as it sees `isClosing`, before the kill has
  closed the cursor, and throws `SessionInactiveError` without closing it; both
  contradict "dead as soon as `next` returns `nil` or an error"
  (`CursorCommon.swift:19`).  `DeadAfterEnd` states what does hold.  An `init`
  that meets an ended session leaves its libmongoc cursor open.
- `MongoClient.wasClosed` is set by a close that failed too
  (`MongoClient.swift:344`); as many polling cursors as workers leave no worker
  for a kill.
- `startIfNeeded` installs the times it captured (`ClientSession.swift:216`) and
  throws away what was cached since (`:220`), so an `advanceOperationTime` between
  the two is lost and later operations run below it: "Advances the operationTime
  for this session to the given time if it is greater than the current
  operationTime" (`:308`).  `CausalOrder` exempts exactly this advance; without
  the exemption TLC finds the lost one with a single operation.
- Two first operations in flight both start a libmongoc session, and one of them
  is leaked.  `NoLeak` therefore needs a user who waits.
- The getter `operationTime` is nil for a time with a zero part
  (`ClientSession.swift:193`).
- `ClientSession.inTransaction` is true after a commit or abort until the next
  command, so `bulkWrite` refuses a write concern then.
- `advanceOperationTime` and `advanceClusterTime` lower the time of a session
  that has not been started (`ClientSession.swift:308-318`), which the
  documentation rules out.  Two `end()` calls before the first has run both
  destroy the same libmongoc session (`ClientSession.swift:271`).
- A `startTransaction` that fails because of its write concern has already spent
  a transaction number (`mongoc/mongoc-client-session.c:1121`) and left the
  state as it was, so a commit retried after it names a transaction that never
  existed.  `get_transaction_state` (`:1196`) calls `abort()` when it is read
  during a commit by another thread.
- A commit that is in force but whose write concern cannot be satisfied (code 100)
  or is not known (79) is reported without `UnknownTransactionCommitResult`, as
  the repository's own tests expect
  (`Tests/Specs/transactions/tests/error-labels.json:1370-1477`).  The missing
  label alone does not mean that the transaction was not committed; the write
  concern failure in the error tells the two apart, and `FailedMeansNotCommitted`
  speaks of errors that have neither.
- `MongoClient.addCommandEventHandler` appends to an array that callbacks on
  other threads read without a lock (`MongoClient.swift:236`).

Server discovery and monitoring:

- "The client remembers the greatest electionId reported by a primary, and
  distrusts primaries with lesser electionIds"
  (`mongoc/mongoc-topology-description.c:1433-1437`, and `:1449`).  The code
  compares setVersion first (`later_election`, `:262-270`), so a primary with a
  lesser electionId is accepted when it reports a greater setVersion, and the
  remembered electionId goes back.  It happens in the run `topology`;
  `NoStalePrimary` states what does hold.
- `set_name` is copied from the original URI (`mongoc/mongoc-topology.c:239`),
  the initial type from the one that a TXT record has completed (`:355`): with a
  set name from a TXT record and `directConnection=false` the client starts as a
  replica set without a name and takes over the name of the first that answers.
- `_mongoc_topology_description_invalidate_primaries_cb`
  (`mongoc/mongoc-topology-description.c:1287-1299`) turns another primary into
  Unknown without a server changed event; `APM.swift:292` says "Published when a
  server description changes."
- `update_rs_with_primary_from_member` can leave the type "replica set with a
  primary" without one, when the member that answers was the primary and reports
  no other or another `me`: `SDAM.swift` says "A replica set with a primary." of
  that type, and a client that asks for a writable server is told there is one.
- A host learnt from a handshake between two scans is set up twice at the start
  of the next one.  `OneOutcome` shows that the two commands do no harm.
- A node whose name does not resolve reports its failure while it is set up, and
  that callback wakes nobody: a thread that waits for a server does not look
  again until the next scan ends.  This is the exception in `PromptScan`
  (`silent`).
- A known server is marked Unknown before the scanner retries it once.
- A scanner without nodes ends the background thread for ever.

Change streams:

- After an invalidate event the cursor is exhausted, but libmongoc answers the
  next call with a client error that counts as resumable; the resume is refused
  by the server, so `next()` throws where `ChangeStream.swift` promises "`nil`
  if the change stream is exhausted".
- `toArray()` throws its whole array away when one event does not decode
  (`ChangeStream.swift:225`).  The events in front of that one are lost for good,
  since `resumeToken` has moved past them; those behind it come again only if the
  user opens a new stream from `resumeToken`.  `ExactlyOnce` allows for them
  (`dropped`).
- Against a server before 4.0 a stream without a token resumes at the present
  time: events written during the failure are lost.  `start` takes account of it.
- The resume loop has no bound: a server that opens every cursor and fails every
  getMore with a resumable error keeps the worker.

Bulk writes:

- A document above the size limit drops the documents collected in front of it
  in the same batch; when an earlier batch of the command succeeded, its error
  is cleared and only the failed flag is left, so the user gets a bulk write
  error without a code.
- After a lost connection an unordered bulk write reports as inserted the ids of
  documents that were never sent: ids are filtered by write errors alone.
  `IDsAreInserted` therefore speaks of unordered writes answered in full.
- When no server can be selected between two commands the user gets the plain
  selection error, without the partial result of the commands before it.

## What is left out

- Decoding of documents beyond its failing in `ChangeStream`; `forEach` (a loop
  of `next`).
- `MongoClient.init` and its options; listing and watch helpers.
- Discovery: latency, tags, last write dates; the choice among suitable servers
  by read preference.  Monitoring: single-threaded clients, which the pools of
  the Swift driver never are, and the polling of SRV records, which only feeds
  the host list; an answer that leaves its server Unknown (a stale primary, an
  `ok: 0`), which for selection is `InvalidateServer`; the Unknown that
  `setup_err_cb` writes for a node added by a reply and not resolved, which was
  Unknown before; and `maxStaleness`, under which losing a primary could make a
  secondary suitable without a broadcast (`mongoc/mongoc-topology.c:1104-1107`).
- Change streams: `startAfter`, which the driver cannot set.
- Bulk writes: unacknowledged writes (nothing is reported) and the OP_QUERY path
  for servers before 3.6, which a server invalidated between two commands also
  takes, its wire version being unknown (`mongoc/mongoc-write-command.c:775-787`).
  A batch is cut by its number of documents only, not by `max_msg_size`
  (`:542-559`), which cuts it in the same way at another place.  `index_offset`
  and the position of the next batch are one variable.
- Delivery of events (`APM.swift`): libmongoc's callbacks are turned into values
  and handed to each handler in turn; the state behind them is in
  `TopologyDescription`.
- Mapping of single errors, BSON, connection strings, read and write concern:
  sequential conversions of values, where what could be wrong is data.  The
  corpus tests of the repository reach it, and a bounded model would repeat it.
- The collection and database API: each method encodes options, submits one
  operation and decodes one reply; the shared control is in `OperationExecutor`.
- The synchronous API waits for the futures of the asynchronous one.
- The rest of libmongoc and libbson.  Four fifths of the repository's code are
  vendored C: wire protocol, authentication, TLS and compression, BSON, URI
  parsing, SASL and crypto back ends, deprecated API.  Modelled is what the
  driver's own promises rest on, so the share of all lines that the models cover
  is small by choice.

## Plan

1. Done: pool, cursor, executor, session, transaction, server discovery,
   monitoring and selection, change streams, bulk writes, each with its runs and
   with a proof of every safety property the runs check.
2. Proofs next: the part of `Converges` that is not temporal (a scan of a settled
   deployment adds only members of its last configuration); that the remembered
   setVersion and the set's name never go back, as action properties.
3. Further modules, if wanted: sessions and cursors composed with the executor,
   with the worker that `end()` needs; server session pool; delivery of events
   while handlers are added.
