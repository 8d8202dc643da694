---------------------------- MODULE CursorProofs ----------------------------
(***************************************************************************)
(* The safety of Cursor for any number of threads and documents and every  *)
(* kind of cursor: the libmongoc cursor is destroyed once and never under  *)
(* a running call, a kill is never missed, a dead cursor stays dead, every *)
(* end of the cursor leaves it dead, and documents reach the user once, in *)
(* order and without loss.                                                 *)
(***************************************************************************)
EXTENDS Cursor, TLAPS

USE CursorThreads, CursorDocs, CursorKinds

Results == {"none", "doc", "nil", "array", "done", "closedError", "inactiveError", "mongocError"}

\* The part of TypeOK about what a returning method assigns.
ReturnTyped ==
    /\ lock \in Threads \cup {NoThread}
    /\ delivered \in Seq(1..NumDocs)
    /\ acc \in [Threads -> Seq(1..NumDocs)]
    /\ pc \in [Threads -> {"idle", "poll", "fetch", "io", "killLock", "killReset"}]
    /\ result \in [Threads -> Results]

\* No documents is a sequence of documents.
LEMMA EmptySeq == <<>> \in Seq(1..NumDocs)
  OBVIOUS

\* What the cache holds is a document, or says that there is none.
LEMMA CachedSeq ==
    ASSUME TypeOK, cached # Empty, cached # CachedNil
    PROVE  <<cached>> \in Seq(1..NumDocs)
  <1>1. cached \in 1..NumDocs
    BY DEF TypeOK, Empty, CachedNil
  <1>2. QED
    BY <1>1

\* toArray's results are documents.
LEMMA ResultsAreDocs ==
    ASSUME TypeOK, NEW t \in Threads, NEW i \in DOMAIN acc[t]
    PROVE  acc[t][i] \in 1..NumDocs
  <1>1. acc[t] \in Seq(1..NumDocs)
    BY DEF TypeOK
  <1>2. QED
    BY <1>1

\* A method that returns a sequence of documents keeps the types.
LEMMA ReturnTypes ==
    ASSUME TypeOK, NEW t \in Threads, NEW r \in Results,
           NEW docs \in Seq(1..NumDocs), Return(t, r, docs)
    PROVE  ReturnTyped'
  <1>1. delivered' \in Seq(1..NumDocs)
    BY DEF TypeOK, Return
  <1>2. acc' \in [Threads -> Seq(1..NumDocs)]
    BY EmptySeq DEF TypeOK, Return
  <1>3. QED
    BY <1>1, <1>2 DEF TypeOK, Return, ReturnTyped, Results

-----------------------------------------------------------------------------
\* Nothing has happened yet.
LEMMA InitIInv == Init => IInv
  <1> SUFFICES ASSUME Init PROVE IInv
    OBVIOUS
  <1>1. TypeOK
    <2>1. cached \in 1..(NumDocs + 2) /\ pos \in 0..NumDocs /\ destroys \in Nat
      BY DEF Init, Empty
    <2>2. sessionActive \in BOOLEAN /\ isClosing \in BOOLEAN /\ kind \in Kinds
      <3>1. ("session" \in kind) \in BOOLEAN
        BY SMT
      <3>2. sessionActive = ("session" \in kind) /\ isClosing = FALSE /\ kind \in Kinds
        BY Zenon DEF Init
      <3>3. QED
        BY <3>1, <3>2, Zenon
    <2>3. QED
      BY <2>1, <2>2, EmptySeq DEF Init, TypeOK
  <1>2. LockInv /\ PhaseInv /\ DestroyedOnce /\ KillNotMissed
    BY DEF Init, LockInv, PhaseInv, DestroyedOnce, KillNotMissed, Alive
  <1>3. QED
    BY <1>1, <1>2 DEF IInv

\* init threw before any I/O.
LEMMA CreateFailsStep ==
    ASSUME IInv, NEW t \in Threads, CreateFails(t)
    PROVE  IInv'
  <1> USE DEF CreateFails, Enter, Goto, CloseCursor, Alive, Empty, CachedNil
  <1>1. TypeOK'
    BY DEF IInv, TypeOK, LockInv, PhaseInv
  <1>2. LockInv'
    BY DEF IInv, TypeOK, LockInv, PhaseInv
  <1>3. PhaseInv'
    BY DEF IInv, TypeOK, LockInv, PhaseInv
  <1>4. DestroyedOnce' /\ KillNotMissed'
    BY DEF IInv, TypeOK, LockInv, PhaseInv, DestroyedOnce, KillNotMissed
  <1>5. QED
    BY <1>1, <1>2, <1>3, <1>4 DEF IInv

\* A change stream is live at once.
LEMMA CreateEagerStep ==
    ASSUME IInv, NEW t \in Threads, CreateEager(t)
    PROVE  IInv'
  <1> USE DEF CreateEager, Enter, Goto, CloseCursor, Alive, Empty, CachedNil
  <1>1. TypeOK'
    BY DEF IInv, TypeOK, LockInv, PhaseInv
  <1>2. LockInv'
    BY DEF IInv, TypeOK, LockInv, PhaseInv
  <1>3. PhaseInv'
    BY DEF IInv, TypeOK, LockInv, PhaseInv
  <1>4. DestroyedOnce' /\ KillNotMissed'
    BY DEF IInv, TypeOK, LockInv, PhaseInv, DestroyedOnce, KillNotMissed
  <1>5. QED
    BY <1>1, <1>2, <1>3, <1>4 DEF IInv

\* init starts its own tryNext.
LEMMA CreateLazyStep ==
    ASSUME IInv, NEW t \in Threads, CreateLazy(t)
    PROVE  IInv'
  <1> USE DEF CreateLazy, Enter, Goto, CloseCursor, Alive, Empty, CachedNil
  <1>1. TypeOK'
    BY DEF IInv, TypeOK, LockInv, PhaseInv
  <1>2. LockInv'
    BY DEF IInv, TypeOK, LockInv, PhaseInv
  <1>3. PhaseInv'
    BY DEF IInv, TypeOK, LockInv, PhaseInv
  <1>4. DestroyedOnce' /\ KillNotMissed'
    BY DEF IInv, TypeOK, LockInv, PhaseInv, DestroyedOnce, KillNotMissed
  <1>5. QED
    BY <1>1, <1>2, <1>3, <1>4 DEF IInv

\* next() on a dead cursor.
LEMMA NextWhenDeadStep ==
    ASSUME IInv, NEW t \in Threads, NextWhenDead(t)
    PROVE  IInv'
  <1> USE DEF NextWhenDead, Enter, Goto, CloseCursor, Alive, Empty, CachedNil, Return
  <1>1. TypeOK'
    <2>1. ReturnTyped'
      BY EmptySeq, ReturnTypes DEF IInv, Results
    <2>2. QED
      BY <2>1 DEF IInv, TypeOK, ReturnTyped
  <1>2. LockInv'
    BY DEF IInv, TypeOK, LockInv, PhaseInv
  <1>3. PhaseInv'
    BY DEF IInv, TypeOK, LockInv, PhaseInv
  <1>4. DestroyedOnce' /\ KillNotMissed'
    BY DEF IInv, TypeOK, LockInv, PhaseInv, DestroyedOnce, KillNotMissed
  <1>5. QED
    BY <1>1, <1>2, <1>3, <1>4 DEF IInv

\* next() empties the cache.
LEMMA NextFromCacheStep ==
    ASSUME IInv, NEW t \in Threads, NextFromCache(t)
    PROVE  IInv'
  <1> USE DEF NextFromCache, Enter, Goto, CloseCursor, Alive, Empty, CachedNil, Return
  <1>1. TypeOK'
    <2> DEFINE docs == IF cached = CachedNil THEN <<>> ELSE <<cached>>
    <2>1. docs \in Seq(1..NumDocs)
      BY CachedSeq, EmptySeq DEF IInv
    <2>2. ReturnTyped'
      BY <2>1, ReturnTypes DEF IInv, Results
    <2>3. QED
      BY <2>2 DEF IInv, TypeOK, ReturnTyped
  <1>2. LockInv'
    BY DEF IInv, TypeOK, LockInv, PhaseInv
  <1>3. PhaseInv'
    BY DEF IInv, TypeOK, LockInv, PhaseInv
  <1>4. DestroyedOnce' /\ KillNotMissed'
    BY DEF IInv, TypeOK, LockInv, PhaseInv, DestroyedOnce, KillNotMissed
  <1>5. QED
    BY <1>1, <1>2, <1>3, <1>4 DEF IInv

\* next() starts to poll with an empty cache.
LEMMA NextPollsStep ==
    ASSUME IInv, NEW t \in Threads, NextPolls(t)
    PROVE  IInv'
  <1> USE DEF NextPolls, Enter, Goto, CloseCursor, Alive, Empty, CachedNil
  <1>1. TypeOK'
    BY DEF IInv, TypeOK, LockInv, PhaseInv
  <1>2. LockInv'
    BY DEF IInv, TypeOK, LockInv, PhaseInv
  <1>3. PhaseInv'
    BY DEF IInv, TypeOK, LockInv, PhaseInv
  <1>4. DestroyedOnce' /\ KillNotMissed'
    BY DEF IInv, TypeOK, LockInv, PhaseInv, DestroyedOnce, KillNotMissed
  <1>5. QED
    BY <1>1, <1>2, <1>3, <1>4 DEF IInv

\* tryNext() empties the cache.
LEMMA TryNextFromCacheStep ==
    ASSUME IInv, NEW t \in Threads, TryNextFromCache(t)
    PROVE  IInv'
  <1> USE DEF TryNextFromCache, Enter, Goto, CloseCursor, Alive, Empty, CachedNil, Return
  <1>1. TypeOK'
    <2> DEFINE docs == IF cached = CachedNil THEN <<>> ELSE <<cached>>
    <2>1. docs \in Seq(1..NumDocs)
      BY CachedSeq, EmptySeq DEF IInv
    <2>2. ReturnTyped'
      BY <2>1, ReturnTypes DEF IInv, Results
    <2>3. QED
      BY <2>2 DEF IInv, TypeOK, ReturnTyped
  <1>2. LockInv'
    BY DEF IInv, TypeOK, LockInv, PhaseInv
  <1>3. PhaseInv'
    BY DEF IInv, TypeOK, LockInv, PhaseInv
  <1>4. DestroyedOnce' /\ KillNotMissed'
    BY DEF IInv, TypeOK, LockInv, PhaseInv, DestroyedOnce, KillNotMissed
  <1>5. QED
    BY <1>1, <1>2, <1>3, <1>4 DEF IInv

\* tryNext() goes to getNextDocument.
LEMMA TryNextFetchesStep ==
    ASSUME IInv, NEW t \in Threads, TryNextFetches(t)
    PROVE  IInv'
  <1> USE DEF TryNextFetches, Enter, Goto, CloseCursor, Alive, Empty, CachedNil
  <1>1. TypeOK'
    BY DEF IInv, TypeOK, LockInv, PhaseInv
  <1>2. LockInv'
    BY DEF IInv, TypeOK, LockInv, PhaseInv
  <1>3. PhaseInv'
    BY DEF IInv, TypeOK, LockInv, PhaseInv
  <1>4. DestroyedOnce' /\ KillNotMissed'
    BY DEF IInv, TypeOK, LockInv, PhaseInv, DestroyedOnce, KillNotMissed
  <1>5. QED
    BY <1>1, <1>2, <1>3, <1>4 DEF IInv

\* toArray() on a cursor that is not open.
LEMMA ToArrayWithoutCursorStep ==
    ASSUME IInv, NEW t \in Threads, ToArrayWithoutCursor(t)
    PROVE  IInv'
  <1> USE DEF ToArrayWithoutCursor, Enter, Goto, CloseCursor, Alive, Empty, CachedNil, Return
  <1>1. TypeOK'
    <2> DEFINE docs == IF cached \in {Empty, CachedNil} THEN <<>> ELSE <<cached>>
    <2>1. docs \in Seq(1..NumDocs)
      BY CachedSeq, EmptySeq DEF IInv
    <2>2. ReturnTyped'
      BY <2>1, ReturnTypes DEF IInv, Results
    <2>3. QED
      BY <2>2 DEF IInv, TypeOK, ReturnTyped
  <1>2. LockInv'
    BY DEF IInv, TypeOK, LockInv, PhaseInv
  <1>3. PhaseInv'
    BY DEF IInv, TypeOK, LockInv, PhaseInv
  <1>4. DestroyedOnce' /\ KillNotMissed'
    BY DEF IInv, TypeOK, LockInv, PhaseInv, DestroyedOnce, KillNotMissed
  <1>5. QED
    BY <1>1, <1>2, <1>3, <1>4 DEF IInv

\* toArray() moves the cache into its results.
LEMMA ToArrayFetchesStep ==
    ASSUME IInv, NEW t \in Threads, ToArrayFetches(t)
    PROVE  IInv'
  <1> USE DEF ToArrayFetches, Enter, Goto, CloseCursor, Alive, Empty, CachedNil
  <1>1. TypeOK'
    <2> DEFINE docs == IF cached \in {Empty, CachedNil} THEN <<>> ELSE <<cached>>
    <2>1. docs \in Seq(1..NumDocs)
      BY CachedSeq, EmptySeq DEF IInv
    <2>2. acc' \in [Threads -> Seq(1..NumDocs)]
      BY <2>1 DEF IInv, TypeOK
    <2>3. QED
      BY <2>2 DEF IInv, TypeOK
  <1>2. LockInv'
    BY DEF IInv, TypeOK, LockInv, PhaseInv
  <1>3. PhaseInv'
    BY DEF IInv, TypeOK, LockInv, PhaseInv
  <1>4. DestroyedOnce' /\ KillNotMissed'
    BY DEF IInv, TypeOK, LockInv, PhaseInv, DestroyedOnce, KillNotMissed
  <1>5. QED
    BY <1>1, <1>2, <1>3, <1>4 DEF IInv

\* The loop condition of next().
LEMMA PollStep ==
    ASSUME IInv, NEW t \in Threads, Poll(t)
    PROVE  IInv'
  <1> USE DEF Poll, Enter, Goto, CloseCursor, Alive, Empty, CachedNil, Return
  <1>1. TypeOK'
    <2>1. CASE Goto(t, "fetch") /\ UNCHANGED <<delivered, acc>>
      BY <2>1 DEF IInv, TypeOK
    <2>2. CASE Return(t, "nil", <<>>)
      <3>1. ReturnTyped'
        BY <2>2, EmptySeq, ReturnTypes DEF IInv, Results
      <3>2. QED
        BY <3>1 DEF IInv, TypeOK, ReturnTyped
    <2>3. QED
      BY <2>1, <2>2
  <1>2. LockInv'
    BY DEF IInv, TypeOK, LockInv, PhaseInv
  <1>3. PhaseInv'
    <2>1. phase = "live" /\ lock = t /\ cached = Empty
      BY DEF IInv, PhaseInv, LockInv
    <2>2. CASE Alive /\ Goto(t, "fetch")
      BY <2>1, <2>2 DEF IInv, TypeOK, LockInv, PhaseInv
    <2>3. CASE Return(t, "nil", <<>>)
      BY <2>1, <2>3 DEF IInv, TypeOK, LockInv, PhaseInv
    <2>4. QED
      BY <2>2, <2>3
  <1>4. DestroyedOnce' /\ KillNotMissed'
    BY DEF IInv, TypeOK, LockInv, PhaseInv, DestroyedOnce, KillNotMissed
  <1>5. QED
    BY <1>1, <1>2, <1>3, <1>4 DEF IInv

\* getNextDocument throws ClosedCursorError.
LEMMA FetchClosedStep ==
    ASSUME IInv, NEW t \in Threads, FetchClosed(t)
    PROVE  IInv'
  <1> USE DEF FetchClosed, Enter, Goto, CloseCursor, Alive, Empty, CachedNil, Return, Throw
  <1>1. TypeOK'
    <2>1. ReturnTyped'
      BY EmptySeq, ReturnTypes DEF IInv, Results, Throw
    <2>2. dropped' \subseteq 1..NumDocs
      <3>1. \A i \in DOMAIN acc[t] : acc[t][i] \in 1..NumDocs
        BY ResultsAreDocs DEF IInv
      <3>2. dropped' = dropped \cup {acc[t][i] : i \in DOMAIN acc[t]}
        BY DEF Throw
      <3>3. dropped \subseteq 1..NumDocs
        BY DEF IInv, TypeOK
      <3>4. QED
        BY <3>1, <3>2, <3>3
    <2>3. QED
      BY <2>1, <2>2 DEF IInv, TypeOK, ReturnTyped, Throw
  <1>2. LockInv'
    BY DEF IInv, TypeOK, LockInv, PhaseInv
  <1>3. PhaseInv'
    BY DEF IInv, TypeOK, LockInv, PhaseInv
  <1>4. DestroyedOnce' /\ KillNotMissed'
    BY DEF IInv, TypeOK, LockInv, PhaseInv, DestroyedOnce, KillNotMissed
  <1>5. QED
    BY <1>1, <1>2, <1>3, <1>4 DEF IInv

\* getNextDocument throws SessionInactiveError.
LEMMA FetchInactiveStep ==
    ASSUME IInv, NEW t \in Threads, FetchInactive(t)
    PROVE  IInv'
  <1> USE DEF FetchInactive, Enter, Goto, CloseCursor, Alive, Empty, CachedNil, Return, Throw
  <1>1. TypeOK'
    <2>1. ReturnTyped'
      BY EmptySeq, ReturnTypes DEF IInv, Results, Throw
    <2>2. dropped' \subseteq 1..NumDocs
      <3>1. \A i \in DOMAIN acc[t] : acc[t][i] \in 1..NumDocs
        BY ResultsAreDocs DEF IInv
      <3>2. dropped' = dropped \cup {acc[t][i] : i \in DOMAIN acc[t]}
        BY DEF Throw
      <3>3. dropped \subseteq 1..NumDocs
        BY DEF IInv, TypeOK
      <3>4. QED
        BY <3>1, <3>2, <3>3
    <2>3. QED
      BY <2>1, <2>2 DEF IInv, TypeOK, ReturnTyped, Throw
  <1>2. LockInv'
    BY DEF IInv, TypeOK, LockInv, PhaseInv
  <1>3. PhaseInv'
    BY DEF IInv, TypeOK, LockInv, PhaseInv
  <1>4. DestroyedOnce' /\ KillNotMissed'
    BY DEF IInv, TypeOK, LockInv, PhaseInv, DestroyedOnce, KillNotMissed
  <1>5. QED
    BY <1>1, <1>2, <1>3, <1>4 DEF IInv

\* The libmongoc call starts on an open cursor.
LEMMA FetchStartsStep ==
    ASSUME IInv, NEW t \in Threads, FetchStarts(t)
    PROVE  IInv'
  <1> USE DEF FetchStarts, Enter, Goto, CloseCursor, Alive, Empty, CachedNil
  <1>1. TypeOK'
    BY DEF IInv, TypeOK, LockInv, PhaseInv
  <1>2. LockInv'
    BY DEF IInv, TypeOK, LockInv, PhaseInv
  <1>3. PhaseInv'
    BY DEF IInv, TypeOK, LockInv, PhaseInv
  <1>4. DestroyedOnce' /\ KillNotMissed'
    BY DEF IInv, TypeOK, LockInv, PhaseInv, DestroyedOnce, KillNotMissed
  <1>5. QED
    BY <1>1, <1>2, <1>3, <1>4 DEF IInv

\* A document arrives.
LEMMA IODocumentStep ==
    ASSUME IInv, NEW t \in Threads, IODocument(t)
    PROVE  IInv'
  <1> USE DEF IODocument, Enter, Goto, CloseCursor, Alive, Empty, CachedNil, Return
  <1>1. TypeOK'
    <2>1. pos + 1 \in 1..NumDocs /\ pos + 1 \in 1..(NumDocs + 2) /\ <<pos + 1>> \in Seq(1..NumDocs)
      BY DEF IInv, TypeOK
    <2>pos. pos' \in 0..NumDocs
      BY DEF IInv, TypeOK
    <2>2. CASE op[t] = "init"
      <3>1. ReturnTyped'
        BY <2>2, EmptySeq, ReturnTypes DEF IInv, Results
      <3>2. QED
        BY <2>1, <2>pos, <2>2, <3>1 DEF IInv, TypeOK, ReturnTyped
    <2>3. CASE op[t] = "toArray"
      <3>1. Append(acc[t], pos + 1) \in Seq(1..NumDocs)
        BY <2>1 DEF IInv, TypeOK
      <3>2. acc' \in [Threads -> Seq(1..NumDocs)]
        BY <2>3, <3>1 DEF IInv, TypeOK
      <3>3. QED
        BY <2>1, <2>pos, <2>3, <3>2 DEF IInv, TypeOK
    <2>4. CASE op[t] \in {"next", "tryNext"}
      <3>1. ReturnTyped'
        BY <2>1, <2>4, ReturnTypes DEF IInv, Results
      <3>2. QED
        BY <2>1, <2>pos, <2>4, <3>1 DEF IInv, TypeOK, ReturnTyped
    <2>5. QED
      BY <2>2, <2>3, <2>4
  <1>2. LockInv'
    <2>1. CASE op[t] = "toArray"
      BY <2>1 DEF IInv, TypeOK, LockInv
    <2>2. CASE op[t] # "toArray"
      BY <2>2 DEF IInv, TypeOK, LockInv
    <2>3. QED
      BY <2>1, <2>2
  <1>3. PhaseInv'
    BY DEF IInv, TypeOK, LockInv, PhaseInv
  <1>4. DestroyedOnce' /\ KillNotMissed'
    BY DEF IInv, TypeOK, LockInv, PhaseInv, DestroyedOnce, KillNotMissed
  <1>5. QED
    BY <1>1, <1>2, <1>3, <1>4 DEF IInv

\* libmongoc fails: the one thread with the lock closes the cursor.
LEMMA IOErrorStep ==
    ASSUME IInv, NEW t \in Threads, IOError(t)
    PROVE  IInv'
  <1> USE DEF IOError, Enter, Goto, CloseCursor, Alive, Empty, CachedNil, Return, Throw
  <1>1. TypeOK'
    <2>1. ReturnTyped'
      BY EmptySeq, ReturnTypes DEF IInv, Results, Throw
    <2>2. dropped' \subseteq 1..NumDocs
      <3>1. \A i \in DOMAIN acc[t] : acc[t][i] \in 1..NumDocs
        BY ResultsAreDocs DEF IInv
      <3>2. dropped' = dropped \cup {acc[t][i] : i \in DOMAIN acc[t]}
        BY DEF Throw
      <3>3. dropped \subseteq 1..NumDocs
        BY DEF IInv, TypeOK
      <3>4. QED
        BY <3>1, <3>2, <3>3
    <2>3. QED
      BY <2>1, <2>2 DEF IInv, TypeOK, ReturnTyped, Throw
  <1>2. LockInv'
    BY DEF IInv, TypeOK, LockInv, PhaseInv
  <1>3. PhaseInv'
    BY DEF IInv, TypeOK, LockInv, PhaseInv
  <1>4. DestroyedOnce' /\ KillNotMissed'
    BY DEF IInv, TypeOK, LockInv, PhaseInv, DestroyedOnce, KillNotMissed
  <1>5. QED
    BY <1>1, <1>2, <1>3, <1>4 DEF IInv

\* Nothing arrives: the cursor may be closed.
LEMMA IONothingStep ==
    ASSUME IInv, NEW t \in Threads, IONothing(t)
    PROVE  IInv'
  <1> USE DEF IONothing, Enter, Goto, CloseCursor, Alive, Empty, CachedNil, Return
  <1>1. TypeOK'
    <2>1. state' \in {"open", "error", "closed"} /\ destroys' \in Nat
      BY DEF IInv, TypeOK
    <2>2. CASE op[t] = "next"
      BY <2>1, <2>2 DEF IInv, TypeOK
    <2>3. CASE op[t] # "next"
      <3>1. acc[t] \in Seq(1..NumDocs)
        BY DEF IInv, TypeOK
      <3>2. ReturnTyped'
        BY <2>3, <3>1, EmptySeq, ReturnTypes DEF IInv, Results
      <3>3. cached' \in 1..(NumDocs + 2) /\ phase' \in {"absent", "creating", "live", "failed"}
        BY <2>3 DEF IInv, TypeOK
      <3>4. UNCHANGED <<isClosing, kind, sessionActive, pos, dropped, op>>
        OBVIOUS
      <3>5. QED
        BY <2>1, <3>2, <3>3, <3>4 DEF IInv, TypeOK, ReturnTyped, Results
    <2>4. QED
      BY <2>2, <2>3
  <1>2. LockInv'
    <2>1. CASE op[t] = "next"
      BY <2>1 DEF IInv, TypeOK, LockInv
    <2>2. CASE op[t] # "next"
      BY <2>2 DEF IInv, TypeOK, LockInv
    <2>3. QED
      BY <2>1, <2>2
  <1>3. PhaseInv'
    BY DEF IInv, TypeOK, LockInv, PhaseInv
  <1>4. DestroyedOnce' /\ KillNotMissed'
    BY DEF IInv, TypeOK, LockInv, PhaseInv, DestroyedOnce, KillNotMissed
  <1>5. QED
    BY <1>1, <1>2, <1>3, <1>4 DEF IInv

\* kill() raises the flag.
LEMMA KillStep ==
    ASSUME IInv, NEW t \in Threads, Kill(t)
    PROVE  IInv'
  <1> USE DEF Kill, Enter, Goto, CloseCursor, Alive, Empty, CachedNil
  <1>1. TypeOK'
    BY DEF IInv, TypeOK, LockInv, PhaseInv
  <1>2. LockInv'
    BY DEF IInv, TypeOK, LockInv, PhaseInv
  <1>3. PhaseInv'
    BY DEF IInv, TypeOK, LockInv, PhaseInv
  <1>4. DestroyedOnce' /\ KillNotMissed'
    BY DEF IInv, TypeOK, LockInv, PhaseInv, DestroyedOnce, KillNotMissed
  <1>5. QED
    BY <1>1, <1>2, <1>3, <1>4 DEF IInv

\* kill() closes the cursor under the lock.
LEMMA KillCloseStep ==
    ASSUME IInv, NEW t \in Threads, KillClose(t)
    PROVE  IInv'
  <1> USE DEF KillClose, Enter, Goto, CloseCursor, Alive, Empty, CachedNil
  <1>1. TypeOK'
    BY DEF IInv, TypeOK, LockInv, PhaseInv
  <1>2. LockInv'
    BY DEF IInv, TypeOK, LockInv, PhaseInv
  <1>3. PhaseInv'
    BY DEF IInv, TypeOK, LockInv, PhaseInv
  <1>4. DestroyedOnce' /\ KillNotMissed'
    BY DEF IInv, TypeOK, LockInv, PhaseInv, DestroyedOnce, KillNotMissed
  <1>5. QED
    BY <1>1, <1>2, <1>3, <1>4 DEF IInv

\* kill() lowers the flag of a dead cursor.
LEMMA KillResetStep ==
    ASSUME IInv, NEW t \in Threads, KillReset(t)
    PROVE  IInv'
  <1> USE DEF KillReset, Enter, Goto, CloseCursor, Alive, Empty, CachedNil
  <1>1. TypeOK'
    BY DEF IInv, TypeOK, LockInv, PhaseInv
  <1>2. LockInv'
    BY DEF IInv, TypeOK, LockInv, PhaseInv
  <1>3. PhaseInv'
    BY DEF IInv, TypeOK, LockInv, PhaseInv
  <1>4. DestroyedOnce' /\ KillNotMissed'
    BY DEF IInv, TypeOK, LockInv, PhaseInv, DestroyedOnce, KillNotMissed
  <1>5. QED
    BY <1>1, <1>2, <1>3, <1>4 DEF IInv

\* The session ends on another thread.
LEMMA EndSessionStep == IInv /\ EndSession => IInv'
  <1> SUFFICES ASSUME IInv, EndSession PROVE IInv'
    OBVIOUS
  <1> USE DEF EndSession
  <1>1. TypeOK'
    BY DEF IInv, TypeOK
  <1>2. LockInv' /\ PhaseInv' /\ DestroyedOnce' /\ KillNotMissed'
    BY DEF IInv, LockInv, PhaseInv, DestroyedOnce, KillNotMissed, Alive
  <1>3. QED
    BY <1>1, <1>2 DEF IInv

\* Stuttering.
LEMMA StutterIInv == IInv /\ UNCHANGED vars => IInv'
  BY DEF IInv, vars, TypeOK, LockInv, PhaseInv, DestroyedOnce, KillNotMissed, Alive

\* Every step preserves the inductive invariant.
LEMMA NextIInv == IInv /\ [Next]_vars => IInv'
  <1> SUFFICES ASSUME IInv, [Next]_vars PROVE IInv'
    OBVIOUS
  <1>1. CASE UNCHANGED vars
    BY <1>1, StutterIInv
  <1>2. CASE EndSession
    BY <1>2, EndSessionStep
  <1>3. ASSUME NEW t \in Threads, CreateFails(t) PROVE IInv'
    BY <1>3, CreateFailsStep
  <1>4. ASSUME NEW t \in Threads, CreateEager(t) PROVE IInv'
    BY <1>4, CreateEagerStep
  <1>5. ASSUME NEW t \in Threads, CreateLazy(t) PROVE IInv'
    BY <1>5, CreateLazyStep
  <1>6. ASSUME NEW t \in Threads, NextWhenDead(t) PROVE IInv'
    BY <1>6, NextWhenDeadStep
  <1>7. ASSUME NEW t \in Threads, NextFromCache(t) PROVE IInv'
    BY <1>7, NextFromCacheStep
  <1>8. ASSUME NEW t \in Threads, NextPolls(t) PROVE IInv'
    BY <1>8, NextPollsStep
  <1>9. ASSUME NEW t \in Threads, TryNextFromCache(t) PROVE IInv'
    BY <1>9, TryNextFromCacheStep
  <1>10. ASSUME NEW t \in Threads, TryNextFetches(t) PROVE IInv'
    BY <1>10, TryNextFetchesStep
  <1>11. ASSUME NEW t \in Threads, ToArrayWithoutCursor(t) PROVE IInv'
    BY <1>11, ToArrayWithoutCursorStep
  <1>12. ASSUME NEW t \in Threads, ToArrayFetches(t) PROVE IInv'
    BY <1>12, ToArrayFetchesStep
  <1>13. ASSUME NEW t \in Threads, Poll(t) PROVE IInv'
    BY <1>13, PollStep
  <1>14. ASSUME NEW t \in Threads, FetchClosed(t) PROVE IInv'
    BY <1>14, FetchClosedStep
  <1>15. ASSUME NEW t \in Threads, FetchInactive(t) PROVE IInv'
    BY <1>15, FetchInactiveStep
  <1>16. ASSUME NEW t \in Threads, FetchStarts(t) PROVE IInv'
    BY <1>16, FetchStartsStep
  <1>17. ASSUME NEW t \in Threads, IODocument(t) PROVE IInv'
    BY <1>17, IODocumentStep
  <1>18. ASSUME NEW t \in Threads, IOError(t) PROVE IInv'
    BY <1>18, IOErrorStep
  <1>19. ASSUME NEW t \in Threads, IONothing(t) PROVE IInv'
    BY <1>19, IONothingStep
  <1>20. ASSUME NEW t \in Threads, Kill(t) PROVE IInv'
    BY <1>20, KillStep
  <1>21. ASSUME NEW t \in Threads, KillClose(t) PROVE IInv'
    BY <1>21, KillCloseStep
  <1>22. ASSUME NEW t \in Threads, KillReset(t) PROVE IInv'
    BY <1>22, KillResetStep
  <1>23. QED
    BY <1>1, <1>2, <1>3, <1>4, <1>5, <1>6, <1>7, <1>8, <1>9, <1>10, <1>11,
       <1>12, <1>13, <1>14, <1>15, <1>16, <1>17, <1>18, <1>19, <1>20, <1>21,
       <1>22
       DEF Next, Call, Step

\* The inductive invariant of the cursor.
THEOREM IInvTheorem == Spec => []IInv
  BY InitIInv, NextIInv, PTL DEF Spec

\* The libmongoc cursor is destroyed exactly when the cursor leaves the open
\* state: errors, exhaustion and any number of kills destroy it once.
THEOREM DestroyedOnceTheorem == Spec => []DestroyedOnce
  <1>1. IInv => DestroyedOnce
    BY DEF IInv
  <1>2. QED
    BY <1>1, IInvTheorem, PTL

\* It is never destroyed under a thread that is inside mongoc_cursor_next.
THEOREM NoDestroyDuringIOTheorem == Spec => []NoDestroyDuringIO
  <1>1. IInv => NoDestroyDuringIO
    BY DEF IInv, PhaseInv, DestroyedOnce, NoDestroyDuringIO
  <1>2. QED
    BY <1>1, IInvTheorem, PTL

\* A polling next sees isClosing, or a dead cursor, as long as a kill waits.
THEOREM KillNotMissedTheorem == Spec => []KillNotMissed
  <1>1. IInv => KillNotMissed
    BY DEF IInv
  <1>2. QED
    BY <1>1, IInvTheorem, PTL

-----------------------------------------------------------------------------
\* One step from a dead cursor: it stays dead and moves no document.
LEMMA DeadStep ==
    ASSUME IInv, [Next]_vars, phase = "live", ~Alive
    PROVE  ~Alive' /\ UNCHANGED <<pos, destroys, delivered>>
  <1> DEFINE Dead == ~Alive' /\ UNCHANGED <<pos, destroys, delivered>>
  <1>a. delivered \o <<>> = delivered
    BY DEF IInv, TypeOK
  <1> USE <1>a DEF IInv, TypeOK, PhaseInv, Alive, Enter, Goto, Return, Throw, CloseCursor, Empty, CachedNil
  <1>1. CASE UNCHANGED vars
    BY <1>1 DEF vars
  <1>2. CASE EndSession
    BY <1>2 DEF EndSession
  <1>3. ASSUME NEW t \in Threads, CreateFails(t) PROVE Dead
    BY <1>3 DEF CreateFails
  <1>4. ASSUME NEW t \in Threads, CreateEager(t) PROVE Dead
    BY <1>4 DEF CreateEager
  <1>5. ASSUME NEW t \in Threads, CreateLazy(t) PROVE Dead
    BY <1>5 DEF CreateLazy
  <1>6. ASSUME NEW t \in Threads, NextWhenDead(t) PROVE Dead
    BY <1>6 DEF NextWhenDead
  <1>7. ASSUME NEW t \in Threads, NextFromCache(t) PROVE Dead
    BY <1>7 DEF NextFromCache
  <1>8. ASSUME NEW t \in Threads, NextPolls(t) PROVE Dead
    BY <1>8 DEF NextPolls
  <1>9. ASSUME NEW t \in Threads, TryNextFromCache(t) PROVE Dead
    BY <1>9 DEF TryNextFromCache
  <1>10. ASSUME NEW t \in Threads, TryNextFetches(t) PROVE Dead
    BY <1>10 DEF TryNextFetches
  <1>11. ASSUME NEW t \in Threads, ToArrayWithoutCursor(t) PROVE Dead
    BY <1>11 DEF ToArrayWithoutCursor
  <1>12. ASSUME NEW t \in Threads, ToArrayFetches(t) PROVE Dead
    BY <1>12 DEF ToArrayFetches
  <1>13. ASSUME NEW t \in Threads, Poll(t) PROVE Dead
    BY <1>13 DEF Poll
  <1>14. ASSUME NEW t \in Threads, FetchClosed(t) PROVE Dead
    BY <1>14 DEF FetchClosed
  <1>15. ASSUME NEW t \in Threads, FetchInactive(t) PROVE Dead
    BY <1>15 DEF FetchInactive
  <1>16. ASSUME NEW t \in Threads, FetchStarts(t) PROVE Dead
    BY <1>16 DEF FetchStarts
  <1>17. ASSUME NEW t \in Threads, IODocument(t) PROVE Dead
    BY <1>17 DEF IODocument
  <1>18. ASSUME NEW t \in Threads, IOError(t) PROVE Dead
    BY <1>18 DEF IOError
  <1>19. ASSUME NEW t \in Threads, IONothing(t) PROVE Dead
    BY <1>19 DEF IONothing
  <1>20. ASSUME NEW t \in Threads, Kill(t) PROVE Dead
    BY <1>20 DEF Kill
  <1>21. ASSUME NEW t \in Threads, KillClose(t) PROVE Dead
    BY <1>21 DEF KillClose
  <1>22. ASSUME NEW t \in Threads, KillReset(t) PROVE Dead
    BY <1>22 DEF KillReset
  <1>23. QED
    BY <1>1, <1>2, <1>3, <1>4, <1>5, <1>6, <1>7, <1>8, <1>9, <1>10, <1>11,
       <1>12, <1>13, <1>14, <1>15, <1>16, <1>17, <1>18, <1>19, <1>20, <1>21,
       <1>22
       DEF Next, Call, Step

\* A dead cursor stays dead, whatever calls come late.
THEOREM DeadStaysDeadTheorem == Spec => DeadStaysDead
  <1>1. IInv /\ [Next]_vars => [phase = "live" /\ ~Alive => ~Alive' /\ UNCHANGED <<pos, destroys, delivered>>]_vars
    BY DeadStep
  <1>2. QED
    BY <1>1, IInvTheorem, PTL DEF Spec, DeadStaysDead

-----------------------------------------------------------------------------
(* The end of the cursor *)

\* isClosing is up only while a kill is under way.
ClosingInv == isClosing => \E u \in Threads : pc[u] \in {"killLock", "killReset"}

\* DeadAfterEnd needs ClosingInv where a poll returns nil because of the flag.
EndInv == ClosingInv /\ DeadAfterEnd

\* No step brings a cursor back to life.
LEMMA AliveStep ==
    ASSUME IInv, [Next]_vars
    PROVE  Alive' => Alive
  <1> USE DEF IInv, TypeOK, PhaseInv, Alive, Enter, Goto, Return, Throw, CloseCursor, Empty, CachedNil
  <1> DEFINE Good == Alive' => Alive
  <1>1. CASE UNCHANGED vars
    BY <1>1 DEF vars
  <1>2. CASE EndSession
    BY <1>2 DEF EndSession
  <1>3. ASSUME NEW t \in Threads, CreateFails(t) PROVE Good
    BY <1>3 DEF CreateFails
  <1>4. ASSUME NEW t \in Threads, CreateEager(t) PROVE Good
    BY <1>4 DEF CreateEager
  <1>5. ASSUME NEW t \in Threads, CreateLazy(t) PROVE Good
    BY <1>5 DEF CreateLazy
  <1>6. ASSUME NEW t \in Threads, NextWhenDead(t) PROVE Good
    BY <1>6 DEF NextWhenDead
  <1>7. ASSUME NEW t \in Threads, NextFromCache(t) PROVE Good
    BY <1>7 DEF NextFromCache
  <1>8. ASSUME NEW t \in Threads, NextPolls(t) PROVE Good
    BY <1>8 DEF NextPolls
  <1>9. ASSUME NEW t \in Threads, TryNextFromCache(t) PROVE Good
    BY <1>9 DEF TryNextFromCache
  <1>10. ASSUME NEW t \in Threads, TryNextFetches(t) PROVE Good
    BY <1>10 DEF TryNextFetches
  <1>11. ASSUME NEW t \in Threads, ToArrayWithoutCursor(t) PROVE Good
    BY <1>11 DEF ToArrayWithoutCursor
  <1>12. ASSUME NEW t \in Threads, ToArrayFetches(t) PROVE Good
    BY <1>12 DEF ToArrayFetches
  <1>13. ASSUME NEW t \in Threads, Poll(t) PROVE Good
    BY <1>13 DEF Poll
  <1>14. ASSUME NEW t \in Threads, FetchClosed(t) PROVE Good
    BY <1>14 DEF FetchClosed
  <1>15. ASSUME NEW t \in Threads, FetchInactive(t) PROVE Good
    BY <1>15 DEF FetchInactive
  <1>16. ASSUME NEW t \in Threads, FetchStarts(t) PROVE Good
    BY <1>16 DEF FetchStarts
  <1>17. ASSUME NEW t \in Threads, IODocument(t) PROVE Good
    BY <1>17 DEF IODocument
  <1>18. ASSUME NEW t \in Threads, IOError(t) PROVE Good
    BY <1>18 DEF IOError
  <1>19. ASSUME NEW t \in Threads, IONothing(t) PROVE Good
    BY <1>19 DEF IONothing
  <1>20. ASSUME NEW t \in Threads, Kill(t) PROVE Good
    BY <1>20 DEF Kill
  <1>21. ASSUME NEW t \in Threads, KillClose(t) PROVE Good
    BY <1>21 DEF KillClose
  <1>22. ASSUME NEW t \in Threads, KillReset(t) PROVE Good
    BY <1>22 DEF KillReset
  <1>23. QED
    BY <1>1, <1>2, <1>3, <1>4, <1>5, <1>6, <1>7, <1>8, <1>9, <1>10, <1>11, <1>12, <1>13, <1>14, <1>15, <1>16, <1>17, <1>18, <1>19, <1>20, <1>21, <1>22
       DEF Next, Call, Step

\* A kill that has raised the flag and not closed the cursor yet.
Killing == \E u \in Threads : pc[u] = "killLock"

\* A kill stops waiting by closing the cursor.
LEMMA KillingStep ==
    ASSUME IInv, [Next]_vars, Killing
    PROVE  Killing' \/ ~Alive'
  <1> USE DEF IInv, TypeOK, PhaseInv, Killing, Alive, Enter, Goto, Return, Throw, CloseCursor, Empty, CachedNil
  <1> DEFINE Good == Killing' \/ ~Alive'
  <1>1. CASE UNCHANGED vars
    BY <1>1 DEF vars
  <1>2. CASE EndSession
    BY <1>2 DEF EndSession
  <1>3. ASSUME NEW t \in Threads, CreateFails(t) PROVE Good
    BY <1>3 DEF CreateFails
  <1>4. ASSUME NEW t \in Threads, CreateEager(t) PROVE Good
    BY <1>4 DEF CreateEager
  <1>5. ASSUME NEW t \in Threads, CreateLazy(t) PROVE Good
    BY <1>5 DEF CreateLazy
  <1>6. ASSUME NEW t \in Threads, NextWhenDead(t) PROVE Good
    BY <1>6 DEF NextWhenDead
  <1>7. ASSUME NEW t \in Threads, NextFromCache(t) PROVE Good
    BY <1>7 DEF NextFromCache
  <1>8. ASSUME NEW t \in Threads, NextPolls(t) PROVE Good
    BY <1>8 DEF NextPolls
  <1>9. ASSUME NEW t \in Threads, TryNextFromCache(t) PROVE Good
    BY <1>9 DEF TryNextFromCache
  <1>10. ASSUME NEW t \in Threads, TryNextFetches(t) PROVE Good
    BY <1>10 DEF TryNextFetches
  <1>11. ASSUME NEW t \in Threads, ToArrayWithoutCursor(t) PROVE Good
    BY <1>11 DEF ToArrayWithoutCursor
  <1>12. ASSUME NEW t \in Threads, ToArrayFetches(t) PROVE Good
    BY <1>12 DEF ToArrayFetches
  <1>13. ASSUME NEW t \in Threads, Poll(t) PROVE Good
    BY <1>13 DEF Poll
  <1>14. ASSUME NEW t \in Threads, FetchClosed(t) PROVE Good
    BY <1>14 DEF FetchClosed
  <1>15. ASSUME NEW t \in Threads, FetchInactive(t) PROVE Good
    BY <1>15 DEF FetchInactive
  <1>16. ASSUME NEW t \in Threads, FetchStarts(t) PROVE Good
    BY <1>16 DEF FetchStarts
  <1>17. ASSUME NEW t \in Threads, IODocument(t) PROVE Good
    BY <1>17 DEF IODocument
  <1>18. ASSUME NEW t \in Threads, IOError(t) PROVE Good
    BY <1>18 DEF IOError
  <1>19. ASSUME NEW t \in Threads, IONothing(t) PROVE Good
    BY <1>19 DEF IONothing
  <1>20. ASSUME NEW t \in Threads, Kill(t) PROVE Good
    BY <1>20 DEF Kill
  <1>21. ASSUME NEW t \in Threads, KillClose(t) PROVE Good
    BY <1>21 DEF KillClose
  <1>22. ASSUME NEW t \in Threads, KillReset(t) PROVE Good
    BY <1>22 DEF KillReset
  <1>23. QED
    BY <1>1, <1>2, <1>3, <1>4, <1>5, <1>6, <1>7, <1>8, <1>9, <1>10, <1>11, <1>12, <1>13, <1>14, <1>15, <1>16, <1>17, <1>18, <1>19, <1>20, <1>21, <1>22
       DEF Next, Call, Step

\* The flag goes down with the first kill that is through.
LEMMA ClosingStep ==
    ASSUME IInv, ClosingInv, [Next]_vars
    PROVE  ClosingInv'
  <1> USE DEF IInv, TypeOK, PhaseInv, ClosingInv, Enter, Goto, Return, Throw, CloseCursor
  <1>1. CASE UNCHANGED vars
    BY <1>1 DEF vars
  <1>2. CASE EndSession
    BY <1>2 DEF EndSession
  <1>3. ASSUME NEW t \in Threads, CreateFails(t) PROVE ClosingInv'
    BY <1>3 DEF CreateFails
  <1>4. ASSUME NEW t \in Threads, CreateEager(t) PROVE ClosingInv'
    BY <1>4 DEF CreateEager
  <1>5. ASSUME NEW t \in Threads, CreateLazy(t) PROVE ClosingInv'
    BY <1>5 DEF CreateLazy
  <1>6. ASSUME NEW t \in Threads, NextWhenDead(t) PROVE ClosingInv'
    BY <1>6 DEF NextWhenDead
  <1>7. ASSUME NEW t \in Threads, NextFromCache(t) PROVE ClosingInv'
    BY <1>7 DEF NextFromCache
  <1>8. ASSUME NEW t \in Threads, NextPolls(t) PROVE ClosingInv'
    BY <1>8 DEF NextPolls
  <1>9. ASSUME NEW t \in Threads, TryNextFromCache(t) PROVE ClosingInv'
    BY <1>9 DEF TryNextFromCache
  <1>10. ASSUME NEW t \in Threads, TryNextFetches(t) PROVE ClosingInv'
    BY <1>10 DEF TryNextFetches
  <1>11. ASSUME NEW t \in Threads, ToArrayWithoutCursor(t) PROVE ClosingInv'
    BY <1>11 DEF ToArrayWithoutCursor
  <1>12. ASSUME NEW t \in Threads, ToArrayFetches(t) PROVE ClosingInv'
    BY <1>12 DEF ToArrayFetches
  <1>13. ASSUME NEW t \in Threads, Poll(t) PROVE ClosingInv'
    BY <1>13 DEF Poll
  <1>14. ASSUME NEW t \in Threads, FetchClosed(t) PROVE ClosingInv'
    BY <1>14 DEF FetchClosed
  <1>15. ASSUME NEW t \in Threads, FetchInactive(t) PROVE ClosingInv'
    BY <1>15 DEF FetchInactive
  <1>16. ASSUME NEW t \in Threads, FetchStarts(t) PROVE ClosingInv'
    BY <1>16 DEF FetchStarts
  <1>17. ASSUME NEW t \in Threads, IODocument(t) PROVE ClosingInv'
    BY <1>17 DEF IODocument
  <1>18. ASSUME NEW t \in Threads, IOError(t) PROVE ClosingInv'
    BY <1>18 DEF IOError
  <1>19. ASSUME NEW t \in Threads, IONothing(t) PROVE ClosingInv'
    BY <1>19 DEF IONothing
  <1>20. ASSUME NEW t \in Threads, Kill(t) PROVE ClosingInv'
    BY <1>20 DEF Kill
  <1>21. ASSUME NEW t \in Threads, KillClose(t) PROVE ClosingInv'
    BY <1>21 DEF KillClose
  <1>22. ASSUME NEW t \in Threads, KillReset(t) PROVE ClosingInv'
    BY <1>22 DEF KillReset
  <1>23. QED
    BY <1>1, <1>2, <1>3, <1>4, <1>5, <1>6, <1>7, <1>8, <1>9, <1>10, <1>11, <1>12, <1>13, <1>14, <1>15, <1>16, <1>17, <1>18, <1>19, <1>20, <1>21, <1>22
       DEF Next, Call, Step

\* A poll gives up for a dead cursor or for a kill.
LEMMA FlagMeansEnd ==
    ASSUME IInv, ClosingInv, isClosing
    PROVE  ~Alive \/ Killing
  BY DEF IInv, PhaseInv, ClosingInv, Killing

\* A next that returned nil, on any thread, leaves the cursor dead or a kill on
\* its way.
NilInv == \A t \in Threads : op[t] = "next" /\ result[t] = "nil" => ~Alive \/ Killing

\* An error of libmongoc leaves it dead.
ErrorInv == \A t \in Threads : result[t] = "mongocError" => ~Alive

\* An init that threw leaves it dead, unless its session had ended.
FailedInv == phase = "failed" /\ Alive => "session" \in kind /\ ~sessionActive

\* The three parts of DeadAfterEnd.
LEMMA EndParts == DeadAfterEnd <=> NilInv /\ ErrorInv /\ FailedInv
  BY DEF DeadAfterEnd, NilInv, ErrorInv, FailedInv, Killing

\* The nil of a next is the last word.
LEMMA NilStep ==
    ASSUME IInv, ClosingInv, NilInv, [Next]_vars
    PROVE  NilInv'
  <1>a. Alive' => Alive
    BY AliveStep
  <1>b. Killing => Killing' \/ ~Alive'
    BY KillingStep
  <1>c. ASSUME NEW u \in Threads, op'[u] = op[u], result'[u] = result[u]
        PROVE  op'[u] = "next" /\ result'[u] = "nil" => ~Alive' \/ Killing'
    BY <1>a, <1>b, <1>c DEF NilInv
  <1> DEFINE Same(t) == \A u \in Threads \ {t} : op'[u] = op[u] /\ result'[u] = result[u]
             New(t) == op'[t] = "next" /\ result'[t] = "nil" => ~Alive' \/ Killing'
             Good(t) == Same(t) /\ New(t)
  <1>d. ASSUME NEW t \in Threads, Good(t) PROVE NilInv'
    BY <1>c, <1>d DEF NilInv
  <1> HIDE DEF Good
  <1>1. CASE UNCHANGED vars
    BY <1>1, <1>c DEF vars, NilInv
  <1>2. CASE EndSession
    BY <1>2, <1>c DEF EndSession, NilInv
  <1> USE DEF IInv, TypeOK, Enter, Goto, Return, Throw
  <1>3. ASSUME NEW t \in Threads, CreateFails(t) PROVE NilInv'
    BY <1>3, <1>c DEF CreateFails, NilInv
  <1>4. ASSUME NEW t \in Threads, CreateEager(t) PROVE NilInv'
    BY <1>4, <1>c DEF CreateEager, NilInv
  <1>5. ASSUME NEW t \in Threads, CreateLazy(t) PROVE NilInv'
    <2>1. Same(t)
      BY <1>5 DEF CreateLazy
    <2>2. New(t)
      BY <1>5 DEF CreateLazy
    <2>3. QED
      BY <2>1, <2>2, <1>d DEF Good
  <1>6. ASSUME NEW t \in Threads, NextWhenDead(t) PROVE NilInv'
    <2>1. Same(t)
      BY <1>6 DEF NextWhenDead
    <2>2. New(t)
      BY <1>6, <1>a DEF NextWhenDead
    <2>3. QED
      BY <2>1, <2>2, <1>d DEF Good
  <1>7. ASSUME NEW t \in Threads, NextFromCache(t) PROVE NilInv'
    <2>1. Same(t)
      BY <1>7 DEF NextFromCache
    <2>2. New(t)
      BY <1>7 DEF NextFromCache, Alive, Empty, CachedNil
    <2>3. QED
      BY <2>1, <2>2, <1>d DEF Good
  <1>8. ASSUME NEW t \in Threads, NextPolls(t) PROVE NilInv'
    <2>1. Same(t)
      BY <1>8 DEF NextPolls
    <2>2. New(t)
      BY <1>8 DEF NextPolls
    <2>3. QED
      BY <2>1, <2>2, <1>d DEF Good
  <1>9. ASSUME NEW t \in Threads, TryNextFromCache(t) PROVE NilInv'
    <2>1. Same(t)
      BY <1>9 DEF TryNextFromCache
    <2>2. New(t)
      BY <1>9 DEF TryNextFromCache
    <2>3. QED
      BY <2>1, <2>2, <1>d DEF Good
  <1>10. ASSUME NEW t \in Threads, TryNextFetches(t) PROVE NilInv'
    <2>1. Same(t)
      BY <1>10 DEF TryNextFetches
    <2>2. New(t)
      BY <1>10 DEF TryNextFetches
    <2>3. QED
      BY <2>1, <2>2, <1>d DEF Good
  <1>11. ASSUME NEW t \in Threads, ToArrayWithoutCursor(t) PROVE NilInv'
    <2>1. Same(t)
      BY <1>11 DEF ToArrayWithoutCursor
    <2>2. New(t)
      BY <1>11 DEF ToArrayWithoutCursor
    <2>3. QED
      BY <2>1, <2>2, <1>d DEF Good
  <1>12. ASSUME NEW t \in Threads, ToArrayFetches(t) PROVE NilInv'
    <2>1. Same(t)
      BY <1>12 DEF ToArrayFetches
    <2>2. New(t)
      BY <1>12 DEF ToArrayFetches
    <2>3. QED
      BY <2>1, <2>2, <1>d DEF Good
  <1>13. ASSUME NEW t \in Threads, Poll(t) PROVE NilInv'
    <2>1. Same(t)
      BY <1>13 DEF Poll
    <2>2. New(t)
      <3>1. CASE Goto(t, "fetch")
        BY <1>13, <3>1 DEF Poll
      <3>2. CASE ~Alive \/ isClosing
        BY <3>2, <1>a, <1>b, FlagMeansEnd
      <3>3. QED
        BY <1>13, <3>1, <3>2 DEF Poll
    <2>3. QED
      BY <2>1, <2>2, <1>d DEF Good
  <1>14. ASSUME NEW t \in Threads, FetchClosed(t) PROVE NilInv'
    <2>1. Same(t)
      BY <1>14 DEF FetchClosed
    <2>2. New(t)
      BY <1>14 DEF FetchClosed
    <2>3. QED
      BY <2>1, <2>2, <1>d DEF Good
  <1>15. ASSUME NEW t \in Threads, FetchInactive(t) PROVE NilInv'
    <2>1. Same(t)
      BY <1>15 DEF FetchInactive
    <2>2. New(t)
      BY <1>15 DEF FetchInactive
    <2>3. QED
      BY <2>1, <2>2, <1>d DEF Good
  <1>16. ASSUME NEW t \in Threads, FetchStarts(t) PROVE NilInv'
    <2>1. Same(t)
      BY <1>16 DEF FetchStarts
    <2>2. New(t)
      BY <1>16 DEF FetchStarts
    <2>3. QED
      BY <2>1, <2>2, <1>d DEF Good
  <1>17. ASSUME NEW t \in Threads, IODocument(t) PROVE NilInv'
    <2>1. Same(t)
      BY <1>17 DEF IODocument
    <2>2. New(t)
      BY <1>17 DEF IODocument
    <2>3. QED
      BY <2>1, <2>2, <1>d DEF Good
  <1>18. ASSUME NEW t \in Threads, IOError(t) PROVE NilInv'
    <2>1. Same(t)
      BY <1>18 DEF IOError
    <2>2. New(t)
      BY <1>18 DEF IOError
    <2>3. QED
      BY <2>1, <2>2, <1>d DEF Good
  <1>19. ASSUME NEW t \in Threads, IONothing(t) PROVE NilInv'
    <2>1. Same(t)
      BY <1>19 DEF IONothing
    <2>2. New(t)
      BY <1>19 DEF IONothing
    <2>3. QED
      BY <2>1, <2>2, <1>d DEF Good
  <1>20. ASSUME NEW t \in Threads, Kill(t) PROVE NilInv'
    <2>1. Same(t)
      BY <1>20 DEF Kill
    <2>2. New(t)
      BY <1>20 DEF Kill
    <2>3. QED
      BY <2>1, <2>2, <1>d DEF Good
  <1>21. ASSUME NEW t \in Threads, KillClose(t) PROVE NilInv'
    BY <1>21, <1>c DEF KillClose, NilInv
  <1>22. ASSUME NEW t \in Threads, KillReset(t) PROVE NilInv'
    <2>1. Same(t)
      BY <1>22 DEF KillReset
    <2>2. New(t)
      BY <1>22 DEF KillReset
    <2>3. QED
      BY <2>1, <2>2, <1>d DEF Good
  <1>23. QED
    BY <1>1, <1>2, <1>3, <1>4, <1>5, <1>6, <1>7, <1>8, <1>9, <1>10, <1>11, <1>12, <1>13, <1>14, <1>15, <1>16, <1>17, <1>18, <1>19, <1>20, <1>21, <1>22
       DEF Next, Call, Step

\* The error is the last word too.
LEMMA ErrorStep ==
    ASSUME IInv, ErrorInv, [Next]_vars
    PROVE  ErrorInv'
  <1>a. Alive' => Alive
    BY AliveStep
  <1> USE <1>a DEF IInv, TypeOK, PhaseInv, ErrorInv, Enter, Goto, Return, Throw
  <1>1. CASE UNCHANGED vars
    BY <1>1 DEF vars
  <1>2. CASE EndSession
    BY <1>2 DEF EndSession
  <1>3. ASSUME NEW t \in Threads, CreateFails(t) PROVE ErrorInv'
    BY <1>3 DEF CreateFails
  <1>4. ASSUME NEW t \in Threads, CreateEager(t) PROVE ErrorInv'
    BY <1>4 DEF CreateEager
  <1>5. ASSUME NEW t \in Threads, CreateLazy(t) PROVE ErrorInv'
    BY <1>5 DEF CreateLazy
  <1>6. ASSUME NEW t \in Threads, NextWhenDead(t) PROVE ErrorInv'
    BY <1>6 DEF NextWhenDead
  <1>7. ASSUME NEW t \in Threads, NextFromCache(t) PROVE ErrorInv'
    BY <1>7 DEF NextFromCache
  <1>8. ASSUME NEW t \in Threads, NextPolls(t) PROVE ErrorInv'
    BY <1>8 DEF NextPolls
  <1>9. ASSUME NEW t \in Threads, TryNextFromCache(t) PROVE ErrorInv'
    BY <1>9 DEF TryNextFromCache
  <1>10. ASSUME NEW t \in Threads, TryNextFetches(t) PROVE ErrorInv'
    BY <1>10 DEF TryNextFetches
  <1>11. ASSUME NEW t \in Threads, ToArrayWithoutCursor(t) PROVE ErrorInv'
    BY <1>11 DEF ToArrayWithoutCursor
  <1>12. ASSUME NEW t \in Threads, ToArrayFetches(t) PROVE ErrorInv'
    BY <1>12 DEF ToArrayFetches
  <1>13. ASSUME NEW t \in Threads, Poll(t) PROVE ErrorInv'
    BY <1>13 DEF Poll
  <1>14. ASSUME NEW t \in Threads, FetchClosed(t) PROVE ErrorInv'
    BY <1>14 DEF FetchClosed
  <1>15. ASSUME NEW t \in Threads, FetchInactive(t) PROVE ErrorInv'
    BY <1>15 DEF FetchInactive
  <1>16. ASSUME NEW t \in Threads, FetchStarts(t) PROVE ErrorInv'
    BY <1>16 DEF FetchStarts
  <1>17. ASSUME NEW t \in Threads, IODocument(t) PROVE ErrorInv'
    BY <1>17 DEF IODocument
  <1>18. ASSUME NEW t \in Threads, IOError(t) PROVE ErrorInv'
    BY <1>18 DEF IOError, CloseCursor, Alive
  <1>19. ASSUME NEW t \in Threads, IONothing(t) PROVE ErrorInv'
    BY <1>19 DEF IONothing
  <1>20. ASSUME NEW t \in Threads, Kill(t) PROVE ErrorInv'
    BY <1>20 DEF Kill
  <1>21. ASSUME NEW t \in Threads, KillClose(t) PROVE ErrorInv'
    BY <1>21 DEF KillClose
  <1>22. ASSUME NEW t \in Threads, KillReset(t) PROVE ErrorInv'
    BY <1>22 DEF KillReset
  <1>23. QED
    BY <1>1, <1>2, <1>3, <1>4, <1>5, <1>6, <1>7, <1>8, <1>9, <1>10, <1>11, <1>12, <1>13, <1>14, <1>15, <1>16, <1>17, <1>18, <1>19, <1>20, <1>21, <1>22
       DEF Next, Call, Step

\* init fails with a closed cursor or an ended session, and sessions end once.
LEMMA FailedStep ==
    ASSUME IInv, FailedInv, [Next]_vars
    PROVE  FailedInv'
  <1>a. Alive' => Alive
    BY AliveStep
  <1> USE <1>a DEF IInv, PhaseInv, FailedInv, Enter, Goto, Return, Throw
  <1>1. CASE UNCHANGED vars
    BY <1>1 DEF vars
  <1>2. CASE EndSession
    BY <1>2 DEF EndSession
  <1>3. ASSUME NEW t \in Threads, CreateFails(t) PROVE FailedInv'
    BY <1>3 DEF CreateFails, CloseCursor, Alive
  <1>4. ASSUME NEW t \in Threads, CreateEager(t) PROVE FailedInv'
    BY <1>4 DEF CreateEager
  <1>5. ASSUME NEW t \in Threads, CreateLazy(t) PROVE FailedInv'
    BY <1>5 DEF CreateLazy
  <1>6. ASSUME NEW t \in Threads, NextWhenDead(t) PROVE FailedInv'
    BY <1>6 DEF NextWhenDead
  <1>7. ASSUME NEW t \in Threads, NextFromCache(t) PROVE FailedInv'
    BY <1>7 DEF NextFromCache
  <1>8. ASSUME NEW t \in Threads, NextPolls(t) PROVE FailedInv'
    BY <1>8 DEF NextPolls
  <1>9. ASSUME NEW t \in Threads, TryNextFromCache(t) PROVE FailedInv'
    BY <1>9 DEF TryNextFromCache
  <1>10. ASSUME NEW t \in Threads, TryNextFetches(t) PROVE FailedInv'
    BY <1>10 DEF TryNextFetches
  <1>11. ASSUME NEW t \in Threads, ToArrayWithoutCursor(t) PROVE FailedInv'
    BY <1>11 DEF ToArrayWithoutCursor
  <1>12. ASSUME NEW t \in Threads, ToArrayFetches(t) PROVE FailedInv'
    BY <1>12 DEF ToArrayFetches
  <1>13. ASSUME NEW t \in Threads, Poll(t) PROVE FailedInv'
    BY <1>13 DEF Poll
  <1>14. ASSUME NEW t \in Threads, FetchClosed(t) PROVE FailedInv'
    BY <1>14 DEF FetchClosed
  <1>15. ASSUME NEW t \in Threads, FetchInactive(t) PROVE FailedInv'
    BY <1>15 DEF FetchInactive
  <1>16. ASSUME NEW t \in Threads, FetchStarts(t) PROVE FailedInv'
    BY <1>16 DEF FetchStarts
  <1>17. ASSUME NEW t \in Threads, IODocument(t) PROVE FailedInv'
    BY <1>17 DEF IODocument
  <1>18. ASSUME NEW t \in Threads, IOError(t) PROVE FailedInv'
    BY <1>18 DEF IOError, CloseCursor, Alive
  <1>19. ASSUME NEW t \in Threads, IONothing(t) PROVE FailedInv'
    BY <1>19 DEF IONothing
  <1>20. ASSUME NEW t \in Threads, Kill(t) PROVE FailedInv'
    BY <1>20 DEF Kill
  <1>21. ASSUME NEW t \in Threads, KillClose(t) PROVE FailedInv'
    BY <1>21 DEF KillClose
  <1>22. ASSUME NEW t \in Threads, KillReset(t) PROVE FailedInv'
    BY <1>22 DEF KillReset
  <1>23. QED
    BY <1>1, <1>2, <1>3, <1>4, <1>5, <1>6, <1>7, <1>8, <1>9, <1>10, <1>11, <1>12, <1>13, <1>14, <1>15, <1>16, <1>17, <1>18, <1>19, <1>20, <1>21, <1>22
       DEF Next, Call, Step

\* Every end of a cursor leaves it dead: exhaustion, an error, a kill.
THEOREM DeadAfterEndTheorem == Spec => []DeadAfterEnd
  <1>1. Init => EndInv
    <2>1. Init => ClosingInv /\ NilInv /\ ErrorInv /\ FailedInv
      BY DEF Init, ClosingInv, NilInv, ErrorInv, FailedInv
    <2>2. QED
      BY <2>1, EndParts DEF EndInv
  <1>2. IInv /\ EndInv /\ [Next]_vars => EndInv'
    <2> SUFFICES ASSUME IInv, EndInv, [Next]_vars PROVE EndInv'
      OBVIOUS
    <2>1. ClosingInv /\ NilInv /\ ErrorInv /\ FailedInv
      BY EndParts DEF EndInv
    <2>2. ClosingInv' /\ NilInv' /\ ErrorInv' /\ FailedInv'
      BY <2>1, ClosingStep, NilStep, ErrorStep, FailedStep
    <2>3. (DeadAfterEnd <=> NilInv /\ ErrorInv /\ FailedInv)'
      BY EndParts, PTL
    <2>4. QED
      BY <2>2, <2>3 DEF EndInv
  <1>3. EndInv => DeadAfterEnd
    BY DEF EndInv
  <1>4. QED
    BY <1>1, <1>2, <1>3, IInvTheorem, PTL DEF Spec

-----------------------------------------------------------------------------
(* Where the documents are *)

\* The numbers in s grow.
Growing(s) == \A i, j \in DOMAIN s : i < j => s[i] < s[j]

\* Every number in s is below every one in u.
Before(s, u) == \A i \in DOMAIN s : \A j \in DOMAIN u : s[i] < u[j]

\* No number in s is above n.
UpTo(s, n) == \A i \in DOMAIN s : s[i] <= n

\* Only toArray, at work, holds documents.
HandInv == \A t \in Threads : acc[t] # <<>> => pc[t] \in {"fetch", "io"} /\ op[t] = "toArray"

\* What was delivered comes before what toArray has collected or the cache
\* holds, and the cached document is the last one fetched.
OrderInv ==
    /\ Growing(delivered) /\ UpTo(delivered, pos)
    /\ \A t \in Threads : Growing(acc[t]) /\ UpTo(acc[t], pos) /\ Before(delivered, acc[t])
    /\ cached \in 1..NumDocs => cached = pos /\ Before(delivered, <<cached>>)

\* d is one of the documents in s.
Has(s, d) == \E i \in DOMAIN s : s[i] = d

Docs == 1..NumDocs

\* The empty sequence.
LEMMA EmptyFacts ==
    /\ Growing(<<>>)
    /\ \A n : UpTo(<<>>, n)
    /\ \A s : Before(s, <<>>) /\ Before(<<>>, s)
    /\ \A d : ~Has(<<>>, d)
  BY DEF Growing, UpTo, Before, Has

\* One document.
LEMMA OneFacts ==
    ASSUME NEW d \in Docs
    PROVE  /\ Growing(<<d>>)
           /\ \A n \in Nat : d <= n => UpTo(<<d>>, n)
           /\ \A s \in Seq(Docs), n \in Nat : UpTo(s, n) /\ n < d => Before(s, <<d>>)
           /\ \A e : Has(<<d>>, e) <=> e = d
  <1>1. DOMAIN <<d>> = {1} /\ <<d>>[1] = d
    OBVIOUS
  <1>2. Growing(<<d>>)
    BY <1>1 DEF Growing
  <1>3. \A n \in Nat : d <= n => UpTo(<<d>>, n)
    BY <1>1 DEF UpTo
  <1>4. ASSUME NEW s \in Seq(Docs), NEW n \in Nat, UpTo(s, n), n < d
        PROVE  Before(s, <<d>>)
    <2> SUFFICES ASSUME NEW i \in DOMAIN s PROVE s[i] < d
      BY <1>1 DEF Before
    <2>1. s[i] <= n /\ s[i] \in Docs
      BY <1>4 DEF UpTo
    <2>2. QED
      BY <1>4, <2>1 DEF Docs
  <1>5. \A e : Has(<<d>>, e) <=> e = d
    BY <1>1 DEF Has
  <1>6. QED
    BY <1>2, <1>3, <1>4, <1>5

\* Two sequences of documents, one after the other.
LEMMA CatFacts ==
    ASSUME NEW s \in Seq(Docs), NEW u \in Seq(Docs)
    PROVE  /\ Growing(s) /\ Growing(u) /\ Before(s, u) => Growing(s \o u)
           /\ \A n : UpTo(s, n) /\ UpTo(u, n) => UpTo(s \o u, n)
           /\ \A w : Before(w, s) /\ Before(w, u) => Before(w, s \o u)
           /\ \A d : Has(s \o u, d) <=> Has(s, d) \/ Has(u, d)
  <1> DEFINE c == s \o u
  <1>1. /\ c \in Seq(Docs) /\ Len(c) = Len(s) + Len(u)
        /\ Len(s) \in Nat /\ Len(u) \in Nat
        /\ DOMAIN s = 1..Len(s) /\ DOMAIN u = 1..Len(u) /\ DOMAIN c = 1..(Len(s) + Len(u))
    OBVIOUS
  <1>2. \A i \in DOMAIN s : i \in DOMAIN c /\ c[i] = s[i]
    BY <1>1
  <1>3. \A j \in DOMAIN u : Len(s) + j \in DOMAIN c /\ c[Len(s) + j] = u[j]
    BY <1>1
  <1>4. \A k \in DOMAIN c : (k \in DOMAIN s /\ c[k] = s[k])
                            \/ (k - Len(s) \in DOMAIN u /\ k > Len(s) /\ c[k] = u[k - Len(s)])
    BY <1>1
  <1> HIDE DEF c
  <1>5. ASSUME Growing(s), Growing(u), Before(s, u) PROVE Growing(c)
    <2> SUFFICES ASSUME NEW i \in DOMAIN c, NEW j \in DOMAIN c, i < j PROVE c[i] < c[j]
      BY DEF Growing
    <2>1. CASE i \in DOMAIN s /\ c[i] = s[i] /\ j \in DOMAIN s /\ c[j] = s[j]
      BY <1>5, <2>1 DEF Growing
    <2>2. CASE i \in DOMAIN s /\ c[i] = s[i] /\ j - Len(s) \in DOMAIN u /\ c[j] = u[j - Len(s)]
      BY <1>5, <2>2 DEF Before
    <2>3. CASE i - Len(s) \in DOMAIN u /\ i > Len(s) /\ j \in DOMAIN s
      BY <1>1, <2>3
    <2>4. CASE i - Len(s) \in DOMAIN u /\ c[i] = u[i - Len(s)] /\ j - Len(s) \in DOMAIN u /\ c[j] = u[j - Len(s)]
      <3>1. i - Len(s) < j - Len(s)
        BY <1>1
      <3>2. QED
        BY <1>5, <2>4, <3>1 DEF Growing
    <2>5. QED
      BY <1>4, <2>1, <2>2, <2>3, <2>4
  <1>6. \A n : UpTo(s, n) /\ UpTo(u, n) => UpTo(c, n)
    BY <1>4 DEF UpTo
  <1>7. \A w : Before(w, s) /\ Before(w, u) => Before(w, c)
    BY <1>4 DEF Before
  <1>8. \A d : Has(c, d) <=> Has(s, d) \/ Has(u, d)
    BY <1>2, <1>3, <1>4 DEF Has
  <1>9. QED
    BY <1>5, <1>6, <1>7, <1>8 DEF c

\* d is cached, collected, delivered or discarded.
Placed(d) == cached = d \/ (\E t \in Threads : Has(acc[t], d)) \/ Has(delivered, d) \/ d \in dropped

\* The documents fetched so far are the ones that have a place.
PlacedInv == \A d \in Docs : d <= pos <=> Placed(d)

LEMMA NothingLostMeansPlaced == TypeOK => (NothingLost <=> PlacedInv)
  <1> SUFFICES ASSUME TypeOK PROVE NothingLost <=> PlacedInv
    OBVIOUS
  <1> DEFINE Given == {delivered[i] : i \in DOMAIN delivered}
             All == Pending \cup Given \cup dropped
  <1>1. \A d \in Docs : d \in All <=> Placed(d)
    BY DEF Placed, Pending, Has, Docs
  <1>2. All \subseteq Docs
    <2>1. Given \subseteq Docs
      BY DEF TypeOK, Docs
    <2>2. Pending \subseteq Docs /\ dropped \subseteq Docs
      BY DEF TypeOK, Docs, Pending
    <2>3. QED
      BY <2>1, <2>2
  <1>3. 1..pos \subseteq Docs /\ \A d \in Docs : d \in 1..pos <=> d <= pos
    BY DEF TypeOK, Docs
  <1> HIDE DEF All
  <1>4. 1..pos = All <=> PlacedInv
    BY <1>1, <1>2, <1>3 DEF PlacedInv
  <1>5. QED
    BY <1>4 DEF NothingLost, All

DataInv == HandInv /\ OrderInv /\ PlacedInv

-----------------------------------------------------------------------------
(* The ways a document can take *)

\* Types, as the lemmas below need them.
LEMMA DocTypes ==
    ASSUME TypeOK
    PROVE  /\ delivered \in Seq(Docs) /\ pos \in 0..NumDocs /\ pos \in Nat
           /\ \A t \in Threads : acc[t] \in Seq(Docs)
           /\ cached \in Docs \/ cached \in {Empty, CachedNil}
           /\ Empty \notin Docs /\ CachedNil \notin Docs
  BY DEF TypeOK, Docs, Empty, CachedNil

\* Nobody holds a document.
Handless == \A t \in Threads : acc[t] = <<>>

\* No document moves.
LEMMA NoDocMoves ==
    ASSUME TypeOK, OrderInv, PlacedInv,
           UNCHANGED <<pos, delivered, acc, dropped>>,
           cached' = cached \/ {cached, cached'} \subseteq {Empty, CachedNil}
    PROVE  OrderInv' /\ PlacedInv'
  <1>1. \A d \in Docs : cached' = d <=> cached = d
    BY DocTypes
  <1>2. OrderInv'
    BY <1>1 DEF OrderInv, Docs
  <1>3. \A d \in Docs : Placed(d)' <=> Placed(d)
    BY <1>1 DEF Placed
  <1>4. QED
    BY <1>2, <1>3 DEF PlacedInv

\* From the cache to the user.
LEMMA CacheToUser ==
    ASSUME TypeOK, OrderInv, PlacedInv,
           Handless,
           cached \in Docs,
           cached' = Empty,
           delivered' = delivered \o <<cached>>,
           UNCHANGED <<pos, acc, dropped>>
    PROVE  OrderInv' /\ PlacedInv'
  <1>1. <<cached>> \in Seq(Docs)
    OBVIOUS
  <1>2. cached = pos /\ Before(delivered, <<cached>>) /\ Growing(delivered) /\ UpTo(delivered, pos)
    BY DEF OrderInv, Docs
  <1>3. Growing(delivered') /\ UpTo(delivered', pos)
    <2>1. Growing(<<cached>>) /\ UpTo(<<cached>>, pos)
      BY <1>2, DocTypes, OneFacts
    <2>2. QED
      BY <1>1, <1>2, <2>1, DocTypes, CatFacts
  <1>4. \A t \in Threads : Before(delivered', acc[t])
    BY EmptyFacts DEF Handless
  <1>5. OrderInv'
    BY <1>3, <1>4, DocTypes DEF OrderInv, Docs
  <1>6. \A d \in Docs : Has(delivered', d) <=> Has(delivered, d) \/ cached = d
    BY <1>1, DocTypes, CatFacts, OneFacts
  <1>7. \A d \in Docs : Placed(d)' <=> Placed(d)
    BY <1>6, DocTypes DEF Placed
  <1>8. QED
    BY <1>5, <1>7 DEF PlacedInv

\* From the cache to toArray's results.
LEMMA CacheToArray ==
    ASSUME TypeOK, OrderInv, PlacedInv,
           NEW t \in Threads,
           Handless,
           cached \in Docs,
           cached' = Empty,
           acc' = [acc EXCEPT ![t] = <<cached>>],
           UNCHANGED <<pos, delivered, dropped>>
    PROVE  OrderInv' /\ PlacedInv'
  <1>1. cached = pos /\ Before(delivered, <<cached>>)
    BY DEF OrderInv, Docs
  <1>2. acc'[t] = <<cached>> /\ \A u \in Threads \ {t} : acc'[u] = acc[u]
    BY DEF TypeOK
  <1>3. Growing(<<cached>>) /\ UpTo(<<cached>>, pos)
    BY <1>1, DocTypes, OneFacts
  <1>4. OrderInv'
    BY <1>1, <1>2, <1>3, DocTypes DEF OrderInv, Docs
  <1>5. \A d \in Docs : Has(acc'[t], d) <=> cached = d
    BY <1>2, OneFacts
  <1>6. \A d \in Docs, u \in Threads : ~Has(acc[u], d)
    BY EmptyFacts DEF Handless
  <1>7. \A d \in Docs : (\E u \in Threads : Has(acc'[u], d)) <=> cached = d
    BY <1>2, <1>5, <1>6
  <1>8. \A d \in Docs : Placed(d)' <=> Placed(d)
    BY <1>6, <1>7, DocTypes DEF Placed
  <1>9. QED
    BY <1>4, <1>8 DEF PlacedInv

\* The next document is above everything fetched before, and all but it keep
\* their place.
LEMMA NextDoc ==
    ASSUME TypeOK, OrderInv, pos < NumDocs
    PROVE  /\ pos + 1 \in Docs /\ <<pos + 1>> \in Seq(Docs) /\ pos + 1 \in Nat
           /\ \A d \in Docs : d <= pos + 1 <=> d <= pos \/ d = pos + 1
           /\ UpTo(delivered, pos + 1) /\ Before(delivered, <<pos + 1>>)
           /\ \A t \in Threads : UpTo(acc[t], pos + 1) /\ Before(acc[t], <<pos + 1>>)
  <1>1. pos + 1 \in Docs /\ pos < pos + 1 /\ pos + 1 \in Nat /\ \A d \in Docs : d <= pos + 1 <=> d <= pos \/ d = pos + 1
    BY DocTypes DEF Docs
  <1>2. ASSUME NEW s \in Seq(Docs), UpTo(s, pos) PROVE UpTo(s, pos + 1) /\ Before(s, <<pos + 1>>)
    <2>1. \A i \in DOMAIN s : s[i] \in Nat /\ s[i] <= pos
      BY <1>2 DEF UpTo, Docs
    <2>2. UpTo(s, pos + 1)
      BY <2>1, DocTypes DEF UpTo
    <2>3. QED
      BY <1>1, <1>2, <2>2, DocTypes, OneFacts
  <1>3. UpTo(delivered, pos) /\ \A t \in Threads : UpTo(acc[t], pos)
    BY DEF OrderInv
  <1>4. QED
    BY <1>1, <1>2, <1>3, DocTypes

\* From the server to the cache.
LEMMA NewToCache ==
    ASSUME TypeOK, OrderInv, PlacedInv,
           pos < NumDocs,
           pos' = pos + 1,
           cached = Empty,
           cached' = pos + 1,
           UNCHANGED <<delivered, acc, dropped>>
    PROVE  OrderInv' /\ PlacedInv'
  <1>1. OrderInv'
    BY NextDoc DEF OrderInv
  <1>2. \A d \in Docs : Placed(d)' <=> Placed(d) \/ d = pos + 1
    BY DocTypes DEF Placed
  <1>3. QED
    BY <1>1, <1>2, NextDoc DEF PlacedInv

\* From the server to the user.
LEMMA NewToUser ==
    ASSUME TypeOK, OrderInv, PlacedInv,
           pos < NumDocs,
           pos' = pos + 1,
           cached = Empty,
           Handless,
           delivered' = delivered \o <<pos + 1>>,
           UNCHANGED <<cached, acc, dropped>>
    PROVE  OrderInv' /\ PlacedInv'
  <1>1. Growing(delivered) /\ Growing(<<pos + 1>>) /\ UpTo(<<pos + 1>>, pos + 1)
    BY NextDoc, OneFacts DEF OrderInv
  <1>2. Growing(delivered') /\ UpTo(delivered', pos + 1)
    BY <1>1, NextDoc, DocTypes, CatFacts
  <1>3. \A t \in Threads : Growing(acc[t]) /\ UpTo(acc[t], pos + 1) /\ Before(delivered', acc[t])
    BY EmptyFacts DEF Handless
  <1>4. OrderInv'
    BY <1>2, <1>3, DocTypes DEF OrderInv, Docs
  <1>5. \A d \in Docs : Has(delivered', d) <=> Has(delivered, d) \/ d = pos + 1
    BY NextDoc, DocTypes, CatFacts, OneFacts
  <1>6. \A d \in Docs : Placed(d)' <=> Placed(d) \/ d = pos + 1
    BY <1>5 DEF Placed
  <1>7. QED
    BY <1>4, <1>6, NextDoc DEF PlacedInv

\* From the server to toArray's results.
LEMMA NewToArray ==
    ASSUME TypeOK, OrderInv, PlacedInv,
           NEW t \in Threads,
           pos < NumDocs,
           pos' = pos + 1,
           cached = Empty,
           acc' = [acc EXCEPT ![t] = Append(@, pos + 1)],
           UNCHANGED <<cached, delivered, dropped>>
    PROVE  OrderInv' /\ PlacedInv'
  <1>1. acc'[t] = acc[t] \o <<pos + 1>> /\ \A u \in Threads \ {t} : acc'[u] = acc[u]
    <2>1. Append(acc[t], pos + 1) = acc[t] \o <<pos + 1>>
      BY NextDoc, DocTypes
    <2>2. QED
      BY <2>1 DEF TypeOK
  <1>2. Growing(acc[t]) /\ Before(delivered, acc[t]) /\ Growing(<<pos + 1>>) /\ UpTo(<<pos + 1>>, pos + 1)
    BY NextDoc, OneFacts DEF OrderInv
  <1>3. Growing(acc'[t]) /\ UpTo(acc'[t], pos + 1) /\ Before(delivered, acc'[t])
    <2>1. acc[t] \in Seq(Docs) /\ UpTo(acc[t], pos + 1) /\ Before(acc[t], <<pos + 1>>) /\ Before(delivered, <<pos + 1>>)
      BY NextDoc, DocTypes
    <2>2. <<pos + 1>> \in Seq(Docs)
      BY NextDoc
    <2>3. QED
      BY <1>1, <1>2, <2>1, <2>2, CatFacts
  <1>4. \A u \in Threads : Growing(acc'[u]) /\ UpTo(acc'[u], pos + 1) /\ Before(delivered, acc'[u])
    BY <1>1, <1>3, NextDoc DEF OrderInv
  <1>5. OrderInv'
    BY <1>4, NextDoc, DocTypes DEF OrderInv, Docs
  <1>6. \A d \in Docs : Has(acc'[t], d) <=> Has(acc[t], d) \/ d = pos + 1
    <2>1. acc[t] \in Seq(Docs) /\ <<pos + 1>> \in Seq(Docs)
      BY NextDoc, DocTypes
    <2>2. \A d : Has(<<pos + 1>>, d) <=> d = pos + 1
      BY NextDoc, OneFacts
    <2>3. \A d : Has(acc[t] \o <<pos + 1>>, d) <=> Has(acc[t], d) \/ Has(<<pos + 1>>, d)
      BY <2>1, CatFacts
    <2>4. QED
      BY <1>1, <2>2, <2>3
  <1>7. \A d \in Docs : (\E u \in Threads : Has(acc'[u], d)) <=> (\E u \in Threads : Has(acc[u], d)) \/ d = pos + 1
    BY <1>1, <1>6
  <1>8. \A d \in Docs : Placed(d)' <=> Placed(d) \/ d = pos + 1
    BY <1>7 DEF Placed
  <1>9. QED
    BY <1>5, <1>8, NextDoc DEF PlacedInv

\* From toArray's results to the user.
LEMMA ArrayToUser ==
    ASSUME TypeOK, OrderInv, PlacedInv,
           NEW t \in Threads,
           cached \notin Docs,
           cached' = cached,
           \A u \in Threads \ {t} : acc[u] = <<>>,
           delivered' = delivered \o acc[t],
           acc' = [acc EXCEPT ![t] = <<>>],
           UNCHANGED <<pos, dropped>>
    PROVE  OrderInv' /\ PlacedInv'
  <1>1. \A u \in Threads : acc'[u] = <<>>
    BY DEF TypeOK
  <1>2. Growing(delivered') /\ UpTo(delivered', pos)
    BY DocTypes, CatFacts DEF OrderInv
  <1>3. OrderInv'
    BY <1>1, <1>2, EmptyFacts DEF OrderInv, Docs
  <1>4. \A d \in Docs : Has(delivered', d) <=> Has(delivered, d) \/ Has(acc[t], d)
    BY DocTypes, CatFacts
  <1>5. \A d \in Docs : (\E u \in Threads : Has(acc[u], d)) <=> Has(acc[t], d)
    BY EmptyFacts
  <1>6. \A d \in Docs : ~\E u \in Threads : Has(acc'[u], d)
    BY <1>1, EmptyFacts
  <1>7. \A d \in Docs : Placed(d)' <=> Placed(d)
    BY <1>4, <1>5, <1>6 DEF Placed
  <1>8. QED
    BY <1>3, <1>7 DEF PlacedInv

\* toArray throws its results away.
LEMMA ArrayDropped ==
    ASSUME TypeOK, OrderInv, PlacedInv,
           NEW t \in Threads,
           acc' = [acc EXCEPT ![t] = <<>>],
           dropped' = dropped \cup {acc[t][i] : i \in DOMAIN acc[t]},
           UNCHANGED <<cached, pos, delivered>>
    PROVE  OrderInv' /\ PlacedInv'
  <1>1. acc'[t] = <<>> /\ \A u \in Threads \ {t} : acc'[u] = acc[u]
    BY DEF TypeOK
  <1>2. OrderInv'
    BY <1>1, EmptyFacts DEF OrderInv
  <1>3. \A d \in Docs : d \in dropped' <=> d \in dropped \/ Has(acc[t], d)
    BY DEF Has
  <1>4. \A d \in Docs : (\E u \in Threads : Has(acc[u], d)) <=> (\E u \in Threads : Has(acc'[u], d)) \/ Has(acc[t], d)
    BY <1>1, EmptyFacts
  <1>5. \A d \in Docs : Placed(d)' <=> Placed(d)
    BY <1>3, <1>4 DEF Placed
  <1>6. QED
    BY <1>2, <1>5 DEF PlacedInv

\* A kill empties the cache.
LEMMA CacheDropped ==
    ASSUME TypeOK, OrderInv, PlacedInv,
           cached' = Empty,
           dropped' = dropped \cup ({cached} \cap Docs),
           UNCHANGED <<pos, delivered, acc>>
    PROVE  OrderInv' /\ PlacedInv'
  <1>1. OrderInv'
    BY DocTypes DEF OrderInv, Docs
  <1>2. \A d \in Docs : Placed(d)' <=> Placed(d)
    BY DocTypes DEF Placed
  <1>3. QED
    BY <1>1, <1>2 DEF PlacedInv

-----------------------------------------------------------------------------
(* The actions *)

\* toArray takes its results along, every other method has none.
LEMMA HandStep ==
    ASSUME IInv, HandInv, [Next]_vars
    PROVE  HandInv'
  <1> USE DEF IInv, TypeOK, PhaseInv, HandInv, Enter, Goto, Return, Throw
  <1>1. CASE UNCHANGED vars
    BY <1>1 DEF vars
  <1>2. CASE EndSession
    BY <1>2 DEF EndSession
  <1>3. ASSUME NEW t \in Threads, CreateFails(t) PROVE HandInv'
    BY <1>3 DEF CreateFails
  <1>4. ASSUME NEW t \in Threads, CreateEager(t) PROVE HandInv'
    BY <1>4 DEF CreateEager
  <1>5. ASSUME NEW t \in Threads, CreateLazy(t) PROVE HandInv'
    BY <1>5 DEF CreateLazy
  <1>6. ASSUME NEW t \in Threads, NextWhenDead(t) PROVE HandInv'
    BY <1>6 DEF NextWhenDead
  <1>7. ASSUME NEW t \in Threads, NextFromCache(t) PROVE HandInv'
    BY <1>7 DEF NextFromCache
  <1>8. ASSUME NEW t \in Threads, NextPolls(t) PROVE HandInv'
    BY <1>8 DEF NextPolls
  <1>9. ASSUME NEW t \in Threads, TryNextFromCache(t) PROVE HandInv'
    BY <1>9 DEF TryNextFromCache
  <1>10. ASSUME NEW t \in Threads, TryNextFetches(t) PROVE HandInv'
    BY <1>10 DEF TryNextFetches
  <1>11. ASSUME NEW t \in Threads, ToArrayWithoutCursor(t) PROVE HandInv'
    BY <1>11 DEF ToArrayWithoutCursor
  <1>12. ASSUME NEW t \in Threads, ToArrayFetches(t) PROVE HandInv'
    BY <1>12 DEF ToArrayFetches
  <1>13. ASSUME NEW t \in Threads, Poll(t) PROVE HandInv'
    BY <1>13 DEF Poll
  <1>14. ASSUME NEW t \in Threads, FetchClosed(t) PROVE HandInv'
    BY <1>14 DEF FetchClosed
  <1>15. ASSUME NEW t \in Threads, FetchInactive(t) PROVE HandInv'
    BY <1>15 DEF FetchInactive
  <1>16. ASSUME NEW t \in Threads, FetchStarts(t) PROVE HandInv'
    BY <1>16 DEF FetchStarts
  <1>17. ASSUME NEW t \in Threads, IODocument(t) PROVE HandInv'
    BY <1>17 DEF IODocument
  <1>18. ASSUME NEW t \in Threads, IOError(t) PROVE HandInv'
    BY <1>18 DEF IOError
  <1>19. ASSUME NEW t \in Threads, IONothing(t) PROVE HandInv'
    BY <1>19 DEF IONothing
  <1>20. ASSUME NEW t \in Threads, Kill(t) PROVE HandInv'
    BY <1>20 DEF Kill
  <1>21. ASSUME NEW t \in Threads, KillClose(t) PROVE HandInv'
    BY <1>21 DEF KillClose
  <1>22. ASSUME NEW t \in Threads, KillReset(t) PROVE HandInv'
    BY <1>22 DEF KillReset
  <1>23. QED
    BY <1>1, <1>2, <1>3, <1>4, <1>5, <1>6, <1>7, <1>8, <1>9, <1>10, <1>11, <1>12, <1>13, <1>14, <1>15, <1>16, <1>17, <1>18, <1>19, <1>20, <1>21, <1>22
       DEF Next, Call, Step

\* While one thread has the lock the others have no results, and so has it
\* outside toArray.
LEMMA OneHand ==
    ASSUME IInv, HandInv, NEW t \in Threads, lock = t
    PROVE  /\ \A u \in Threads \ {t} : acc[u] = <<>>
           /\ op[t] # "toArray" \/ pc[t] = "poll" => Handless
  BY DEF IInv, LockInv, HandInv, Handless

\* A free lock means that nobody is in toArray.
LEMMA NoHand ==
    ASSUME IInv, HandInv, lock = NoThread
    PROVE  Handless
  BY DEF IInv, LockInv, HandInv, Handless

\* To give up empty results changes nothing.
LEMMA ClearEmpty ==
    ASSUME TypeOK, NEW t \in Threads, acc[t] = <<>>
    PROVE  [acc EXCEPT ![t] = <<>>] = acc
  BY DEF TypeOK

\* A method that returns without a document.
LEMMA ReturnNone ==
    ASSUME TypeOK, NEW t \in Threads, NEW r, Return(t, r, <<>>)
    PROVE  delivered' = delivered /\ acc' = [acc EXCEPT ![t] = <<>>]
  BY DEF TypeOK, Return

\* Every step moves documents in one of these ways.
LEMMA DocStep ==
    ASSUME IInv, DataInv, [Next]_vars
    PROVE  OrderInv' /\ PlacedInv'
  <1>a. TypeOK /\ HandInv /\ OrderInv /\ PlacedInv
    BY DEF IInv, DataInv
  <1> USE <1>a
  <1> DEFINE Good == OrderInv' /\ PlacedInv'
  <1>1. CASE UNCHANGED vars
    BY <1>1, NoDocMoves DEF vars
  <1>2. CASE EndSession
    BY <1>2, NoDocMoves DEF EndSession
  <1>3. ASSUME NEW t \in Threads, CreateFails(t) PROVE Good
    BY <1>3, NoDocMoves DEF CreateFails, Goto
  <1>4. ASSUME NEW t \in Threads, CreateEager(t) PROVE Good
    BY <1>4, NoDocMoves DEF CreateEager, Goto
  <1>5. ASSUME NEW t \in Threads, CreateLazy(t) PROVE Good
    BY <1>5, NoDocMoves DEF CreateLazy, Goto
  <1>6. ASSUME NEW t \in Threads, NextWhenDead(t) PROVE Good
    <2>1. Handless
      BY <1>6, NoHand DEF NextWhenDead, Enter
    <2>2. acc' = acc /\ delivered' = delivered /\ UNCHANGED <<cached, pos, dropped>>
      BY <1>6, <2>1, ReturnNone, ClearEmpty DEF NextWhenDead, Handless
    <2>3. QED
      BY <2>2, NoDocMoves
  <1>7. ASSUME NEW t \in Threads, NextFromCache(t) PROVE Good
    <2>0. lock = NoThread
      BY <1>7 DEF NextFromCache, Enter
    <2>1. Handless
      BY <2>0, NoHand
    <2>2. acc' = acc /\ cached' = Empty /\ UNCHANGED <<pos, dropped>>
      BY <1>7, <2>1, ClearEmpty DEF NextFromCache, Return, Handless
    <2>3. CASE cached \in Docs
      <3>1. delivered' = delivered \o <<cached>>
        BY <1>7, <2>3, DocTypes DEF NextFromCache, Return
      <3>2. QED
        BY <2>1, <2>2, <2>3, <3>1, CacheToUser
    <2>4. CASE cached \in {Empty, CachedNil}
      <3>1. delivered' = delivered
        BY <1>7, <2>4, ReturnNone DEF NextFromCache, Return, TypeOK
      <3>2. QED
        BY <2>2, <2>4, <3>1, NoDocMoves
    <2>5. QED
      BY <2>3, <2>4, DocTypes
  <1>8. ASSUME NEW t \in Threads, NextPolls(t) PROVE Good
    <2>1. {cached, cached'} \subseteq {Empty, CachedNil} /\ UNCHANGED <<pos, delivered, acc, dropped>>
      BY <1>8 DEF NextPolls
    <2>2. QED
      BY <2>1, NoDocMoves
  <1>9. ASSUME NEW t \in Threads, TryNextFromCache(t) PROVE Good
    <2>0. lock = NoThread
      BY <1>9 DEF TryNextFromCache, Enter
    <2>1. Handless
      BY <2>0, NoHand
    <2>2. acc' = acc /\ cached' = Empty /\ UNCHANGED <<pos, dropped>>
      BY <1>9, <2>1, ClearEmpty DEF TryNextFromCache, Return, Handless
    <2>3. CASE cached \in Docs
      <3>1. delivered' = delivered \o <<cached>>
        BY <1>9, <2>3, DocTypes DEF TryNextFromCache, Return
      <3>2. QED
        BY <2>1, <2>2, <2>3, <3>1, CacheToUser
    <2>4. CASE cached \in {Empty, CachedNil}
      <3>1. delivered' = delivered
        BY <1>9, <2>4, ReturnNone DEF TryNextFromCache, Return, TypeOK
      <3>2. QED
        BY <2>2, <2>4, <3>1, NoDocMoves
    <2>5. QED
      BY <2>3, <2>4, DocTypes
  <1>10. ASSUME NEW t \in Threads, TryNextFetches(t) PROVE Good
    BY <1>10, NoDocMoves DEF TryNextFetches, Goto
  <1>11. ASSUME NEW t \in Threads, ToArrayWithoutCursor(t) PROVE Good
    <2>0. lock = NoThread
      BY <1>11 DEF ToArrayWithoutCursor, Enter
    <2>1. Handless
      BY <2>0, NoHand
    <2>2. acc' = acc /\ cached' = Empty /\ UNCHANGED <<pos, dropped>>
      BY <1>11, <2>1, ClearEmpty DEF ToArrayWithoutCursor, Return, Handless
    <2>3. CASE cached \in Docs
      <3>1. delivered' = delivered \o <<cached>>
        BY <1>11, <2>3, DocTypes DEF ToArrayWithoutCursor, Return
      <3>2. QED
        BY <2>1, <2>2, <2>3, <3>1, CacheToUser
    <2>4. CASE cached \in {Empty, CachedNil}
      <3>1. delivered' = delivered
        BY <1>11, <2>4, ReturnNone DEF ToArrayWithoutCursor, Return, TypeOK
      <3>2. QED
        BY <2>2, <2>4, <3>1, NoDocMoves
    <2>5. QED
      BY <2>3, <2>4, DocTypes
  <1>12. ASSUME NEW t \in Threads, ToArrayFetches(t) PROVE Good
    <2>1. Handless
      BY <1>12, NoHand DEF ToArrayFetches, Enter
    <2>2. cached' = Empty /\ UNCHANGED <<pos, delivered, dropped>>
      BY <1>12 DEF ToArrayFetches
    <2>3. CASE cached \in Docs
      <3>1. acc' = [acc EXCEPT ![t] = <<cached>>]
        BY <1>12, <2>3, DocTypes DEF ToArrayFetches
      <3>2. QED
        BY <2>1, <2>2, <2>3, <3>1, CacheToArray
    <2>4. CASE cached \in {Empty, CachedNil}
      <3>1. acc' = [acc EXCEPT ![t] = <<>>]
        BY <1>12, <2>4 DEF ToArrayFetches
      <3>2. acc' = acc
        BY <2>1, <3>1, ClearEmpty DEF Handless
      <3>3. QED
        BY <2>2, <2>4, <3>2, NoDocMoves
    <2>5. QED
      BY <2>3, <2>4, DocTypes
  <1>13. ASSUME NEW t \in Threads, Poll(t) PROVE Good
    <2>1. UNCHANGED <<cached, pos, dropped>>
      BY <1>13 DEF Poll
    <2>2. lock = t /\ pc[t] = "poll"
      BY <1>13 DEF Poll, IInv, LockInv
    <2>3. acc[t] = <<>>
      BY <2>2, OneHand DEF Handless
    <2>4. UNCHANGED <<delivered, acc>>
      BY <1>13, <2>3, ReturnNone, ClearEmpty DEF Poll
    <2>5. QED
      BY <2>1, <2>4, NoDocMoves
  <1>14. ASSUME NEW t \in Threads, FetchClosed(t) PROVE Good
    <2>1. delivered' = delivered /\ acc' = [acc EXCEPT ![t] = <<>>]
      BY <1>14, ReturnNone DEF FetchClosed, Throw
    <2>2. dropped' = dropped \cup {acc[t][i] : i \in DOMAIN acc[t]} /\ UNCHANGED <<cached, pos>>
      BY <1>14 DEF FetchClosed, Throw
    <2>3. QED
      BY <2>1, <2>2, ArrayDropped
  <1>15. ASSUME NEW t \in Threads, FetchInactive(t) PROVE Good
    <2>1. delivered' = delivered /\ acc' = [acc EXCEPT ![t] = <<>>]
      BY <1>15, ReturnNone DEF FetchInactive, Throw
    <2>2. dropped' = dropped \cup {acc[t][i] : i \in DOMAIN acc[t]} /\ UNCHANGED <<cached, pos>>
      BY <1>15 DEF FetchInactive, Throw
    <2>3. QED
      BY <2>1, <2>2, ArrayDropped
  <1>16. ASSUME NEW t \in Threads, FetchStarts(t) PROVE Good
    BY <1>16, NoDocMoves DEF FetchStarts, Goto
  <1>17. ASSUME NEW t \in Threads, IODocument(t) PROVE Good
    <2>1. pos < NumDocs /\ pos' = pos + 1 /\ UNCHANGED dropped
      BY <1>17 DEF IODocument
    <2>2. lock = t /\ cached = Empty
      BY <1>17 DEF IODocument, IInv, LockInv, PhaseInv
    <2>3. CASE op[t] = "init"
      <3>1. Handless
        BY <2>2, <2>3, OneHand
      <3>2. cached' = pos + 1 /\ UNCHANGED <<delivered, acc>>
        BY <1>17, <2>3, <3>1, ReturnNone, ClearEmpty DEF IODocument, Handless
      <3>3. QED
        BY <2>1, <2>2, <3>2, NewToCache
    <2>4. CASE op[t] = "toArray"
      <3>1. acc' = [acc EXCEPT ![t] = Append(@, pos + 1)] /\ UNCHANGED <<cached, delivered>>
        BY <1>17, <2>4 DEF IODocument
      <3>2. QED
        BY <2>1, <2>2, <3>1, NewToArray
    <2>5. CASE op[t] \in {"next", "tryNext"}
      <3>1. Handless
        BY <2>2, <2>5, OneHand
      <3>2. delivered' = delivered \o <<pos + 1>> /\ acc' = [acc EXCEPT ![t] = <<>>] /\ UNCHANGED cached
        BY <1>17, <2>5 DEF IODocument, Return
      <3>3. acc' = acc
        BY <3>1, <3>2, ClearEmpty DEF Handless
      <3>4. QED
        BY <2>1, <2>2, <3>1, <3>2, <3>3, NewToUser
    <2>6. QED
      BY <1>17, <2>3, <2>4, <2>5 DEF IODocument
  <1>18. ASSUME NEW t \in Threads, IOError(t) PROVE Good
    <2>1. delivered' = delivered /\ acc' = [acc EXCEPT ![t] = <<>>]
      BY <1>18, ReturnNone DEF IOError, Throw
    <2>2. dropped' = dropped \cup {acc[t][i] : i \in DOMAIN acc[t]} /\ UNCHANGED <<cached, pos>>
      BY <1>18 DEF IOError, Throw
    <2>3. QED
      BY <2>1, <2>2, ArrayDropped
  <1>19. ASSUME NEW t \in Threads, IONothing(t) PROVE Good
    <2>1. UNCHANGED <<pos, dropped>>
      BY <1>19 DEF IONothing
    <2>2. lock = t /\ cached = Empty
      BY <1>19 DEF IONothing, IInv, LockInv, PhaseInv
    <2>3. CASE op[t] \in {"init", "tryNext"}
      <3>1. acc[t] = <<>>
        BY <2>2, <2>3, OneHand DEF Handless
      <3>2. UNCHANGED <<delivered, acc>>
        BY <1>19, <2>3, <3>1, ReturnNone, ClearEmpty DEF IONothing
      <3>3. cached' \in {Empty, CachedNil}
        BY <1>19, <2>2, <2>3 DEF IONothing
      <3>4. QED
        BY <2>1, <2>2, <3>2, <3>3, NoDocMoves
    <2>4. CASE op[t] = "next"
      <3>1. UNCHANGED <<cached, delivered, acc>>
        BY <1>19, <2>4 DEF IONothing
      <3>2. QED
        BY <2>1, <3>1, NoDocMoves
    <2>5. CASE op[t] = "toArray"
      <3>1. delivered' = delivered \o acc[t] /\ acc' = [acc EXCEPT ![t] = <<>>] /\ UNCHANGED cached
        BY <1>19, <2>5 DEF IONothing, Return
      <3>2. \A u \in Threads \ {t} : acc[u] = <<>>
        BY <2>2, OneHand
      <3>3. cached \notin Docs
        BY <2>2, DocTypes
      <3>4. QED
        BY <2>1, <3>1, <3>2, <3>3, ArrayToUser
    <2>6. QED
      BY <1>19, <2>3, <2>4, <2>5 DEF IONothing
  <1>20. ASSUME NEW t \in Threads, Kill(t) PROVE Good
    BY <1>20, NoDocMoves DEF Kill, Goto
  <1>21. ASSUME NEW t \in Threads, KillClose(t) PROVE Good
    <2>1. cached' = Empty /\ dropped' = dropped \cup ({cached} \cap Docs) /\ UNCHANGED <<pos, delivered, acc>>
      BY <1>21 DEF KillClose, Docs
    <2>2. QED
      BY <2>1, CacheDropped
  <1>22. ASSUME NEW t \in Threads, KillReset(t) PROVE Good
    BY <1>22, NoDocMoves DEF KillReset, Goto
  <1>23. QED
    BY <1>1, <1>2, <1>3, <1>4, <1>5, <1>6, <1>7, <1>8, <1>9, <1>10, <1>11, <1>12, <1>13, <1>14, <1>15, <1>16, <1>17, <1>18, <1>19, <1>20, <1>21, <1>22
       DEF Next, Call, Step

\* Where documents are, in every reachable state.
LEMMA DataTheorem == Spec => [](IInv /\ DataInv)
  <1>1. Init => DataInv
    <2> SUFFICES ASSUME Init PROVE DataInv
      OBVIOUS
    <2>1. /\ delivered = <<>> /\ dropped = {} /\ pos = 0 /\ cached = Empty
          /\ \A t \in Threads : acc[t] = <<>>
      BY DEF Init
    <2>2. HandInv
      BY <2>1 DEF HandInv
    <2>3. OrderInv
      BY <2>1, EmptyFacts DEF OrderInv, Empty
    <2>4. \A d \in Docs : ~Placed(d) /\ ~(d <= pos)
      BY <2>1, EmptyFacts DEF Placed, Empty, Docs
    <2>5. QED
      BY <2>2, <2>3, <2>4 DEF DataInv, PlacedInv
  <1>2. IInv /\ DataInv /\ [Next]_vars => DataInv'
    BY HandStep, DocStep DEF DataInv
  <1>3. QED
    BY <1>1, <1>2, IInvTheorem, PTL DEF Spec

\* Documents reach the user in the server's order and never twice, and one that
\* is cached or being collected has not been delivered.
THEOREM InOrderOnceTheorem == Spec => []InOrderOnce
  <1>1. IInv /\ DataInv => InOrderOnce
    <2> SUFFICES ASSUME IInv, DataInv PROVE InOrderOnce
      OBVIOUS
    <2>1. OrderInv
      BY DEF DataInv
    <2>2. \A i, j \in DOMAIN delivered : i < j => delivered[i] < delivered[j]
      BY <2>1 DEF OrderInv, Growing
    <2>3. ASSUME NEW i \in DOMAIN delivered, NEW d \in Pending PROVE delivered[i] < d
      <3>1. CASE cached = d
        <4>1. Before(delivered, <<cached>>)
          BY <2>1, <3>1 DEF OrderInv, Pending
        <4>2. DOMAIN <<cached>> = {1} /\ <<cached>>[1] = cached
          OBVIOUS
        <4>3. QED
          BY <3>1, <4>1, <4>2 DEF Before
      <3>2. CASE \E t \in Threads : \E j \in DOMAIN acc[t] : acc[t][j] = d
        BY <2>1, <3>2 DEF OrderInv, Before
      <3>3. QED
        BY <3>1, <3>2 DEF Pending
    <2>4. QED
      BY <2>2, <2>3 DEF InOrderOnce
  <1>2. QED
    BY <1>1, DataTheorem, PTL

\* Every document fetched is cached, being collected, delivered, or was
\* discarded by a kill or by a toArray that threw.
THEOREM NothingLostTheorem == Spec => []NothingLost
  <1>1. IInv /\ DataInv => NothingLost
    BY NothingLostMeansPlaced DEF IInv, DataInv
  <1>2. QED
    BY <1>1, DataTheorem, PTL

=============================================================================
