------------------------------- MODULE Cursor -------------------------------
(***************************************************************************)
(* Cursor<CursorKind> of Sources/MongoSwift/CursorCommon.swift: the object *)
(* behind MongoCursor and ChangeStream.  Its methods run on the executor's *)
(* threads.  next, tryNext and toArray hold `lock` from start to end, also *)
(* across the blocking libmongoc call; kill raises the atomic isClosing    *)
(* before it asks for the lock, so that a polling next lets go of it.      *)
(*                                                                         *)
(* Documents are numbered in the order the server returns them.  The       *)
(* libmongoc cursor is external: a call of its `next` returns the next     *)
(* document, fails, or returns nothing, and a tailable one may then still  *)
(* have more to come.                                                      *)
(***************************************************************************)
EXTENDS Naturals, Sequences

CONSTANTS
    Threads,      \* executor threads that run methods of this cursor
    NoThread,     \* lock is free
    NumDocs,      \* documents the server has for this cursor
    Kinds         \* kinds of cursor considered, each a set of Traits

ASSUME CursorThreads == NoThread \notin Threads
ASSUME CursorDocs == NumDocs \in Nat

\* "lazy": CursorKind.isLazy, a MongocCursor; without it a change stream.
\* "tailable": type.isTailable.  "session": created with an explicit session.
Traits == {"lazy", "tailable", "session"}

ASSUME CursorKinds == Kinds \subseteq SUBSET Traits

\* Values of `cached`: a document 1..NumDocs, or
Empty == NumDocs + 1        \* .none
CachedNil == NumDocs + 2    \* .cached(nil)

VARIABLES
    phase,          \* "absent", "creating", "live", or "failed": init threw
    state,          \* Cursor.state: "open", "error" or "closed"
    cached,         \* Cursor.cached
    lock,           \* the thread that holds Cursor.lock
    isClosing,      \* Cursor.isClosing
    kind,           \* what this cursor is, fixed when it is created
    sessionActive,  \* session.active
    pos,            \* documents libmongoc has returned so far
    destroys,       \* calls of mongoc_cursor_destroy on the wrapped pointer
    delivered,      \* documents handed to the user, in order
    dropped,        \* documents discarded by a kill or by a toArray that threw
    op,             \* the method a thread is running
    acc,            \* toArray's `results`
    pc,             \* where it is in that method
    result          \* how its last call ended

vars == <<phase, state, cached, lock, isClosing, kind, sessionActive, pos,
          destroys, delivered, dropped, op, acc, pc, result>>

\* _isAlive
Alive == cached # Empty \/ state = "open"

Init ==
    /\ phase = "absent"
    /\ state = "open"
    /\ cached = Empty
    /\ lock = NoThread
    /\ isClosing = FALSE
    /\ kind \in Kinds
    /\ sessionActive = ("session" \in kind)
    /\ pos = 0
    /\ destroys = 0
    /\ delivered = <<>>
    /\ dropped = {}
    /\ op = [t \in Threads |-> "none"]
    /\ acc = [t \in Threads |-> <<>>]
    /\ pc = [t \in Threads |-> "idle"]
    /\ result = [t \in Threads |-> "none"]

-----------------------------------------------------------------------------
(* Helpers: how a method starts, ends and closes the cursor *)

\* t calls method m and gets the lock.
Enter(t, m) ==
    /\ phase = "live"
    /\ pc[t] = "idle"
    /\ lock = NoThread
    /\ op' = [op EXCEPT ![t] = m]

\* t goes on to `next` of its method, holding the lock.
Goto(t, next) ==
    /\ pc' = [pc EXCEPT ![t] = next]
    /\ lock' = t
    /\ result' = [result EXCEPT ![t] = "none"]

\* t leaves its method with outcome r; docs go to the user.
Return(t, r, docs) ==
    /\ pc' = [pc EXCEPT ![t] = "idle"]
    /\ lock' = NoThread
    /\ result' = [result EXCEPT ![t] = r]
    /\ delivered' = delivered \o docs
    /\ acc' = [acc EXCEPT ![t] = <<>>]

\* close(fromError:): destroy the libmongoc cursor, then drop the connection
\* by leaving the open state.  No effect on a cursor that is not open.
CloseCursor(s) ==
    IF state = "open"
    THEN destroys' = destroys + 1 /\ state' = s
    ELSE UNCHANGED <<destroys, state>>

-----------------------------------------------------------------------------
(* init *)

\* The libmongoc cursor was created with an error: init closes it and throws.
CreateFails(t) ==
    /\ phase = "absent"
    /\ phase' = "failed"
    /\ CloseCursor("error")
    /\ UNCHANGED <<cached, lock, isClosing, kind, sessionActive, pos, dropped, delivered, op, acc, pc, result>>

\* A cursor kind that has already done its I/O (change streams).
CreateEager(t) ==
    /\ phase = "absent"
    /\ "lazy" \notin kind
    /\ phase' = "live"
    /\ UNCHANGED <<state, cached, lock, isClosing, kind, sessionActive, pos, dropped, destroys, delivered, op, acc, pc, result>>

\* A lazy one fetches its first document with tryNext, to cache it.
CreateLazy(t) ==
    /\ phase = "absent"
    /\ "lazy" \in kind
    /\ phase' = "creating"
    /\ op' = [op EXCEPT ![t] = "init"]
    /\ Goto(t, "fetch")
    /\ UNCHANGED <<state, cached, isClosing, kind, sessionActive, pos, dropped, destroys, delivered, acc>>

-----------------------------------------------------------------------------
(* next, tryNext, toArray: up to the first libmongoc call *)

\* next() on a dead cursor: nil once after an error, then ClosedCursorError.
NextWhenDead(t) ==
    /\ Enter(t, "next")
    /\ ~Alive
    /\ state' = "closed"
    /\ Return(t, IF state = "error" THEN "nil" ELSE "closedError", <<>>)
    /\ UNCHANGED <<phase, cached, isClosing, kind, sessionActive, pos, dropped, destroys>>

\* Mutant: the cached document is returned but stays cached.
NextFromCacheKept(t) ==
    /\ Enter(t, "next")
    /\ cached # Empty
    /\ state # "open" \/ cached # CachedNil
    /\ Return(t, IF cached = CachedNil THEN "nil" ELSE "doc",
              IF cached = CachedNil THEN <<>> ELSE <<cached>>)
    /\ UNCHANGED <<phase, state, cached, isClosing, kind, sessionActive, pos, dropped, destroys>>

\* next() returns what is cached: a document, or nil if nothing can follow.
NextFromCache(t) ==
    /\ Enter(t, "next")
    /\ cached # Empty
    /\ state # "open" \/ cached # CachedNil
    /\ cached' = Empty
    /\ Return(t, IF cached = CachedNil THEN "nil" ELSE "doc",
              IF cached = CachedNil THEN <<>> ELSE <<cached>>)
    /\ UNCHANGED <<phase, state, isClosing, kind, sessionActive, pos, dropped, destroys>>

\* next() goes to its polling loop; a cached nil is dropped.
NextPolls(t) ==
    /\ Enter(t, "next")
    /\ state = "open"
    /\ cached \in {Empty, CachedNil}
    /\ cached' = Empty
    /\ Goto(t, "poll")
    /\ UNCHANGED <<phase, state, isClosing, kind, sessionActive, pos, dropped, destroys, delivered, acc>>

\* tryNext() returns what is cached.
TryNextFromCache(t) ==
    /\ Enter(t, "tryNext")
    /\ cached # Empty
    /\ cached' = Empty
    /\ Return(t, IF cached = CachedNil THEN "nil" ELSE "doc",
              IF cached = CachedNil THEN <<>> ELSE <<cached>>)
    /\ UNCHANGED <<phase, state, isClosing, kind, sessionActive, pos, dropped, destroys>>

\* tryNext() asks libmongoc, whether or not the cursor is alive.
TryNextFetches(t) ==
    /\ Enter(t, "tryNext")
    /\ cached = Empty
    /\ Goto(t, "fetch")
    /\ UNCHANGED <<phase, state, cached, isClosing, kind, sessionActive, pos, dropped, destroys, delivered, acc>>

\* toArray() on a dead cursor throws; when only the cache was alive it returns
\* what was in it.
ToArrayWithoutCursor(t) ==
    /\ Enter(t, "toArray")
    /\ state # "open"
    /\ cached' = Empty
    /\ Return(t, IF Alive THEN "array" ELSE "closedError",
              IF cached \in {Empty, CachedNil} THEN <<>> ELSE <<cached>>)
    /\ UNCHANGED <<phase, state, isClosing, kind, sessionActive, pos, dropped, destroys>>

\* Mutant: toArray() forgets to start with the cached document.
ToArrayIgnoresCache(t) ==
    /\ Enter(t, "toArray")
    /\ state = "open"
    /\ cached' = Empty
    /\ Goto(t, "fetch")
    /\ UNCHANGED <<phase, state, isClosing, kind, sessionActive, pos, dropped, destroys, delivered, acc>>

\* toArray() starts with the cached document and goes on to libmongoc.
ToArrayFetches(t) ==
    /\ Enter(t, "toArray")
    /\ state = "open"
    /\ cached' = Empty
    /\ acc' = [acc EXCEPT ![t] = IF cached \in {Empty, CachedNil} THEN <<>> ELSE <<cached>>]
    /\ Goto(t, "fetch")
    /\ UNCHANGED <<phase, state, isClosing, kind, sessionActive, pos, dropped, destroys, delivered>>

-----------------------------------------------------------------------------
(* The polling loop of next and getNextDocument *)

\* Mutant: the loop condition ignores isClosing.
PollForever(t) ==
    /\ pc[t] = "poll"
    /\ \/ /\ Alive
          /\ Goto(t, "fetch")
          /\ UNCHANGED <<delivered, acc>>
       \/ /\ ~Alive
          /\ Return(t, "nil", <<>>)
    /\ UNCHANGED <<phase, state, cached, isClosing, kind, sessionActive, pos, dropped, destroys, op>>

\* while self._isAlive && !self.isClosing.load()
Poll(t) ==
    /\ pc[t] = "poll"
    /\ \/ /\ Alive /\ ~isClosing
          /\ Goto(t, "fetch")
          /\ UNCHANGED <<delivered, acc>>
       \/ /\ ~Alive \/ isClosing
          /\ Return(t, "nil", <<>>)
    /\ UNCHANGED <<phase, state, cached, isClosing, kind, sessionActive, pos, dropped, destroys, op>>

\* A throw out of getNextDocument.  toArray loses what it had collected; init
\* leaves no cursor behind.
Throw(t, e) ==
    /\ Return(t, e, <<>>)
    /\ phase' = IF op[t] = "init" THEN "failed" ELSE phase
    /\ dropped' = dropped \cup {acc[t][i] : i \in DOMAIN acc[t]}
    /\ UNCHANGED <<cached, isClosing, kind, sessionActive, pos, op>>

\* getNextDocument on a cursor that is not open.
FetchClosed(t) ==
    /\ pc[t] = "fetch"
    /\ state # "open"
    /\ Throw(t, "closedError")
    /\ UNCHANGED <<state, destroys>>

\* getNextDocument after the cursor's session was ended: the cursor stays as
\* it is.
FetchInactive(t) ==
    /\ pc[t] = "fetch"
    /\ state = "open"
    /\ "session" \in kind /\ ~sessionActive
    /\ Throw(t, "inactiveError")
    /\ UNCHANGED <<state, destroys>>

\* Mutant: getNextDocument does not look at the state.
FetchStartsUnguarded(t) ==
    /\ pc[t] = "fetch"
    /\ "session" \in kind => sessionActive
    /\ Goto(t, "io")
    /\ UNCHANGED <<phase, state, cached, isClosing, kind, sessionActive, pos, dropped, destroys, delivered, op, acc>>

\* mongocCursor.next starts.
FetchStarts(t) ==
    /\ pc[t] = "fetch"
    /\ state = "open"
    /\ "session" \in kind => sessionActive
    /\ Goto(t, "io")
    /\ UNCHANGED <<phase, state, cached, isClosing, kind, sessionActive, pos, dropped, destroys, delivered, op, acc>>

\* It returns the next document: init caches it, toArray collects it and goes
\* on, next and tryNext return it.
IODocument(t) ==
    /\ pc[t] = "io"
    /\ pos < NumDocs
    /\ pos' = pos + 1
    /\ \/ /\ op[t] = "init"
          /\ cached' = pos + 1
          /\ phase' = "live"
          /\ Return(t, "done", <<>>)
       \/ /\ op[t] = "toArray"
          /\ acc' = [acc EXCEPT ![t] = Append(@, pos + 1)]
          /\ Goto(t, "fetch")
          /\ UNCHANGED <<cached, phase, delivered>>
       \/ /\ op[t] \in {"next", "tryNext"}
          /\ Return(t, "doc", <<pos + 1>>)
          /\ UNCHANGED <<cached, phase>>
    /\ UNCHANGED <<state, isClosing, kind, sessionActive, destroys, dropped, op>>

\* Mutant: the error is thrown and the cursor left open.
IOErrorLeavesOpen(t) ==
    /\ pc[t] = "io"
    /\ UNCHANGED <<state, destroys>>
    /\ Throw(t, "mongocError")

\* It fails: the cursor is closed and the error thrown.
IOError(t) ==
    /\ pc[t] = "io"
    /\ CloseCursor("error")
    /\ Throw(t, "mongocError")

\* It returns nothing and there is no error.  A cursor that is not tailable, or
\* that the server has closed, is closed here; a tailable one may just have no
\* data yet.
IONothing(t) ==
    /\ pc[t] = "io"
    /\ \/ /\ "tailable" \in kind \/ pos = NumDocs
          /\ CloseCursor("closed")
       \/ /\ "tailable" \in kind
          /\ UNCHANGED <<state, destroys>>
    /\ \/ /\ op[t] = "init"
          /\ cached' = CachedNil
          /\ phase' = "live"
          /\ Return(t, "done", <<>>)
       \/ /\ op[t] = "next"
          /\ Goto(t, "poll")
          /\ UNCHANGED <<cached, phase, delivered, acc>>
       \/ /\ op[t] = "tryNext"
          /\ Return(t, "nil", <<>>)
          /\ UNCHANGED <<cached, phase>>
       \/ /\ op[t] = "toArray"
          /\ Return(t, "array", acc[t])
          /\ UNCHANGED <<cached, phase>>
    /\ UNCHANGED <<isClosing, kind, sessionActive, pos, dropped, op>>

-----------------------------------------------------------------------------
(* kill, and the session *)

\* self.isClosing.store(true), before the lock is asked for.
Kill(t) ==
    /\ phase = "live"
    /\ pc[t] = "idle"
    /\ op' = [op EXCEPT ![t] = "kill"]
    /\ pc' = [pc EXCEPT ![t] = "killLock"]
    /\ isClosing' = TRUE
    /\ result' = [result EXCEPT ![t] = "none"]
    /\ UNCHANGED <<phase, state, cached, lock, kind, sessionActive, pos, dropped, destroys, delivered, acc>>

\* Mutant: kill closes the cursor without the lock.
KillCloseUnlocked(t) ==
    /\ pc[t] = "killLock"
    /\ cached' = Empty
    /\ dropped' = dropped \cup ({cached} \cap 1..NumDocs)
    /\ CloseCursor("closed")
    /\ pc' = [pc EXCEPT ![t] = "killReset"]
    /\ UNCHANGED <<phase, lock, isClosing, kind, sessionActive, pos, delivered, op, acc, result>>

\* The critical section of kill.
KillClose(t) ==
    /\ pc[t] = "killLock"
    /\ lock = NoThread
    /\ cached' = Empty
    /\ dropped' = dropped \cup ({cached} \cap 1..NumDocs)
    /\ CloseCursor("closed")
    /\ pc' = [pc EXCEPT ![t] = "killReset"]
    /\ UNCHANGED <<phase, lock, isClosing, kind, sessionActive, pos, delivered, op, acc, result>>

\* self.isClosing.store(false), with the lock released.
KillReset(t) ==
    /\ pc[t] = "killReset"
    /\ isClosing' = FALSE
    /\ pc' = [pc EXCEPT ![t] = "idle"]
    /\ result' = [result EXCEPT ![t] = "done"]
    /\ UNCHANGED <<phase, state, cached, lock, kind, sessionActive, pos, dropped, destroys, delivered, op, acc>>

\* Another thread ends the session.
EndSession ==
    /\ sessionActive
    /\ sessionActive' = FALSE
    /\ UNCHANGED <<phase, state, cached, lock, isClosing, kind, pos, dropped, destroys, delivered, op, acc, pc, result>>

Step(t) ==
    \/ Poll(t)
    \/ FetchClosed(t) \/ FetchInactive(t) \/ FetchStarts(t)
    \/ IODocument(t) \/ IOError(t) \/ IONothing(t)
    \/ KillReset(t)

Call(t) ==
    \/ NextWhenDead(t) \/ NextFromCache(t) \/ NextPolls(t)
    \/ TryNextFromCache(t) \/ TryNextFetches(t)
    \/ ToArrayWithoutCursor(t) \/ ToArrayFetches(t)
    \/ Kill(t)

Next ==
    \/ \E t \in Threads :
          \/ CreateFails(t) \/ CreateEager(t) \/ CreateLazy(t)
          \/ Call(t) \/ Step(t) \/ KillClose(t)
    \/ EndSession

Spec == Init /\ [][Next]_vars

\* A libmongoc call returns (it waits maxAwaitTimeMS at most) and a thread
\* inside a method goes on.  The lock is granted eventually to a kill that
\* keeps asking for it, however many other calls get it in between.
Fairness ==
    \A t \in Threads : WF_vars(Step(t)) /\ SF_vars(KillClose(t))

FairSpec == Spec /\ Fairness

-----------------------------------------------------------------------------
(* Properties *)

\* Type invariant of the cursor and of the threads that use it.
TypeOK ==
    /\ phase \in {"absent", "creating", "live", "failed"}
    /\ state \in {"open", "error", "closed"}
    /\ cached \in 1..(NumDocs + 2)
    /\ lock \in Threads \cup {NoThread}
    /\ isClosing \in BOOLEAN
    /\ kind \in Kinds
    /\ sessionActive \in BOOLEAN
    /\ pos \in 0..NumDocs
    /\ destroys \in Nat
    /\ delivered \in Seq(1..NumDocs)
    /\ dropped \subseteq 1..NumDocs
    /\ op \in [Threads -> {"none", "init", "next", "tryNext", "toArray", "kill"}]
    /\ acc \in [Threads -> Seq(1..NumDocs)]
    /\ pc \in [Threads -> {"idle", "poll", "fetch", "io", "killLock", "killReset"}]
    /\ result \in [Threads -> {"none", "doc", "nil", "array", "done",
                               "closedError", "inactiveError", "mongocError"}]

\* mongoc_cursor_destroy is called exactly when the cursor leaves the open
\* state, so never twice, however kills, errors and exhaustion interleave.
DestroyedOnce == destroys = IF state = "open" THEN 0 ELSE 1

\* No thread is inside mongoc_cursor_next while the cursor is destroyed.
NoDestroyDuringIO == \A t \in Threads : pc[t] = "io" => destroys = 0

\* The lock is held exactly by the thread inside next, tryNext or toArray.
LockInv == \A t \in Threads : pc[t] \in {"poll", "fetch", "io"} <=> lock = t

\* A kill that has raised isClosing cannot be missed by a polling next, even if
\* another kill lowers the flag: by then the cursor is dead.
KillNotMissed ==
    \A t \in Threads : pc[t] = "killLock" => isClosing \/ ~Alive

\* A document in the hands of the cursor: cached or collected by toArray.
Pending == {d \in 1..NumDocs : cached = d \/ \E t \in Threads : \E i \in DOMAIN acc[t] : acc[t][i] = d}

\* Documents reach the user in the order the server sent them and never twice,
\* and one that is still cached or being collected has not been delivered.
InOrderOnce ==
    /\ \A i, j \in DOMAIN delivered : i < j => delivered[i] < delivered[j]
    /\ \A i \in DOMAIN delivered : \A d \in Pending : delivered[i] < d

\* A document fetched from the server reaches the user, now or from the cache
\* or the array being built, unless a kill or a failing toArray discards it.
NothingLost ==
    1..pos = Pending \cup {delivered[i] : i \in DOMAIN delivered} \cup dropped

\* A cursor that is dead stays dead and never fetches again.
DeadStaysDead ==
    [][phase = "live" /\ ~Alive => ~Alive' /\ UNCHANGED <<pos, destroys, delivered>>]_vars

\* kill() returns, also while a next on a tailable cursor is polling.
KillCompletes == \A t \in Threads : pc[t] = "killLock" ~> pc[t] = "idle"

\* isAlive after the end: a cursor whose next returned nil is dead, or a kill is
\* about to close it; one that failed in libmongoc is dead; and only an init that
\* found its session ended leaves the libmongoc cursor behind.
DeadAfterEnd ==
    /\ \A t \in Threads :
          /\ op[t] = "next" /\ result[t] = "nil" => ~Alive \/ \E u \in Threads : pc[u] = "killLock"
          /\ result[t] = "mongocError" => ~Alive
    /\ phase = "failed" /\ Alive => "session" \in kind /\ ~sessionActive

\* Kills run on a finished cursor only, init alone on an unfinished one, and a
\* kill past its critical section leaves a dead cursor.
PhaseInv ==
    /\ \A t \in Threads :
          /\ pc[t] \in {"killLock", "killReset"} => phase = "live"
          /\ pc[t] \in {"fetch", "io"} => phase \in {"creating", "live"}
          /\ pc[t] = "poll" => phase = "live" /\ op[t] = "next"
          /\ pc[t] \in {"fetch", "io"} => (op[t] = "init" <=> phase = "creating")
          /\ pc[t] = "io" => state = "open" /\ cached = Empty
          /\ pc[t] \in {"poll", "fetch"} => cached = Empty
          /\ pc[t] = "killReset" => ~Alive
    /\ phase \in {"absent", "creating"} => state = "open" /\ cached = Empty
    /\ phase = "absent" => lock = NoThread

\* The inductive invariant behind the safety of destroy and kill.
IInv ==
    /\ TypeOK
    /\ LockInv
    /\ PhaseInv
    /\ DestroyedOnce
    /\ KillNotMissed

=============================================================================
