------------------------ MODULE ConnectionPoolProofs ------------------------
(***************************************************************************)
(* The safety of ConnectionPool for any threads, any clients and any       *)
(* max_pool_size: IInv is inductive, it implies the checked invariants,    *)
(* and under it every step is a step of PoolPromise or stutters.           *)
(***************************************************************************)
EXTENDS ConnectionPool, FiniteSetTheorems, TLAPS

USE ThreadsAssumption, BlockingCallersAssumption, MaxPoolSizeAssumption, HandlesAssumption

-----------------------------------------------------------------------------
\* Sets of clients are finite, and adding or removing one changes their
\* cardinality by one.
LEMMA HandleSets ==
    ASSUME NEW S \in SUBSET Handles, NEW h \in Handles
    PROVE  /\ IsFiniteSet(S)
           /\ Cardinality(S) \in Nat
           /\ Cardinality(S) = 0 <=> S = {}
           /\ h \notin S => Cardinality(S \cup {h}) = Cardinality(S) + 1
           /\ h \in S => Cardinality(S \ {h}) = Cardinality(S) - 1
  <1>1. IsFiniteSet(S)
    BY FS_Subset
  <1>2. Cardinality(S) \in Nat
    BY <1>1, FS_CardinalityType
  <1>3. Cardinality(S) = 0 <=> S = {}
    BY <1>1, FS_EmptySet
  <1>4. h \notin S => Cardinality(S \cup {h}) = Cardinality(S) + 1
    BY <1>1, FS_AddElement
  <1>5. h \in S => Cardinality(S \ {h}) = Cardinality(S) - 1
    BY <1>1, FS_RemoveElement
  <1>6. QED
    BY <1>1, <1>2, <1>3, <1>4, <1>5

\* The same, without a client to add.
LEMMA HandleSet ==
    ASSUME NEW S \in SUBSET Handles
    PROVE  /\ Cardinality(S) \in Nat
           /\ Cardinality(S) = 0 <=> S = {}
  <1>1. IsFiniteSet(S)
    BY FS_Subset
  <1>2. QED
    BY <1>1, FS_CardinalityType, FS_EmptySet

\* A pop hands out a client that nobody holds, keeps libmongoc's accounting
\* right and raises the number of clients out by one.
LEMMA PopLemma ==
    ASSUME TypeOK, SizeInv, CanPop, NEW h \in Poppable, PopEffect(h),
           out' = out \cup {h}
    PROVE  /\ h \in Handles /\ h \notin out
           /\ idle' \subseteq Handles /\ out' \subseteq Handles /\ size' \in Nat
           /\ SizeInv'
           /\ Cardinality(out') = Cardinality(out) + 1
           /\ Cardinality(out) \in Nat
  <1>1. h \in Handles /\ h \notin out
    BY DEF Poppable, TypeOK, SizeInv
  <1>2. /\ Cardinality(out) \in Nat /\ Cardinality(idle) \in Nat
        /\ Cardinality(idle) = 0 <=> idle = {}
        /\ Cardinality(out \cup {h}) = Cardinality(out) + 1
        /\ h \in idle => Cardinality(idle \ {h}) = Cardinality(idle) - 1
    BY <1>1, HandleSets DEF TypeOK
  <1>3. idle' \subseteq Handles /\ out' \subseteq Handles /\ size' \in Nat
    BY <1>1 DEF PopEffect, TypeOK
  <1>4. CASE idle # {}
    <2>1. h \in idle
      BY <1>4 DEF Poppable
    <2>2. Cardinality(idle') = Cardinality(idle) - 1 /\ size' = size
      BY <1>2, <1>4, <2>1 DEF PopEffect
    <2>3. idle' \cap out' = {}
      BY DEF PopEffect, SizeInv
    <2>4. QED
      BY <1>1, <1>2, <1>3, <2>2, <2>3 DEF SizeInv, TypeOK
  <1>5. CASE idle = {}
    <2>1. idle' = {} /\ size' = size + 1 /\ size < MaxPoolSize
      BY <1>5 DEF PopEffect, CanPop
    <2>2. size' <= MaxPoolSize
      BY <2>1 DEF TypeOK
    <2>3. Cardinality(idle') = 0
      BY <1>2, <1>5, <2>1
    <2>4. QED
      BY <1>1, <1>2, <1>3, <1>5, <2>1, <2>2, <2>3 DEF SizeInv, TypeOK
  <1>6. QED
    BY <1>4, <1>5

-----------------------------------------------------------------------------
\* The pool starts empty.
LEMMA InitIInv == Init => IInv
  <1> SUFFICES ASSUME Init PROVE IInv
    OBVIOUS
  <1>1. Cardinality({}) = 0
    BY FS_EmptySet
  <1>2. TypeOK
    BY DEF Init, TypeOK
  <1>3. CountInv /\ SizeInv
    BY <1>1 DEF Init, CountInv, SizeInv
  <1>4. LockInv /\ DroppingInv /\ CloserInv /\ PopInv /\ DrainedInv /\ SessionInv /\ NoLostWakeup
    BY DEF Init, LockInv, DroppingInv, CloserInv, PopInv, DrainedInv, SessionInv, NoLostWakeup
  <1>5. QED
    BY <1>2, <1>3, <1>4 DEF IInv

\* Only one thread at a time is inside a blocking libmongoc call, and none is
\* while the lock is free.
LEMMA PopAlone ==
    ASSUME LockInv, TypeOK
    PROVE  /\ \A t, u \in Threads : pc[t] \in {"pop", "destroy"} /\ pc[u] \in {"pop", "destroy"} => t = u
           /\ stateLock = NoThread => \A t \in Threads : pc[t] \notin {"pop", "destroy"}
  BY DEF LockInv, TypeOK

\* checkOut() enters: the count runs ahead of the clients by one.
LEMMA CheckOutStep ==
    ASSUME IInv, NEW t \in Threads, CheckOut(t)
    PROVE  IInv'
  <1> USE DEF CheckOut, Enter, mongocVars
  <1>1. TypeOK'
    BY DEF IInv, TypeOK
  <1>2. LockInv'
    BY PopAlone DEF IInv, LockInv, TypeOK
  <1>3. CountInv'
    <2>1. \A u \in Threads : pc[u] # "pop"
      BY PopAlone DEF IInv
    <2>2. pc'[t] = "pop"
      BY DEF IInv, TypeOK
    <2>3. connCount = Cardinality(out)
      BY <2>1, HandleSet DEF IInv, CountInv, TypeOK
    <2>4. QED
      BY <2>2, <2>3, HandleSet DEF CountInv, IInv, TypeOK
  <1>4. SizeInv' /\ SessionInv' /\ DroppingInv'
    BY DEF IInv, TypeOK, SizeInv, SessionInv, DroppingInv
  <1>5. CloserInv' /\ PopInv' /\ NoLostWakeup'
    BY DEF IInv, TypeOK, CloserInv, PopInv, NoLostWakeup
  <1>6. DrainedInv'
    BY DEF IInv, TypeOK, DrainedInv, CloserInv
  <1>7. QED
    BY <1>1, <1>2, <1>3, <1>4, <1>5, <1>6 DEF IInv

\* The pop returns: the client catches up with the count.
LEMMA PopStep ==
    ASSUME IInv, NEW t \in Threads, Pop(t)
    PROVE  IInv'
  <1>1. PICK h \in Poppable : PopEffect(h) /\ out' = out \cup {h}
    BY DEF Pop
  <1>2. /\ h \in Handles /\ h \notin out
        /\ idle' \subseteq Handles /\ out' \subseteq Handles /\ size' \in Nat
        /\ SizeInv'
        /\ Cardinality(out') = Cardinality(out) + 1
        /\ Cardinality(out) \in Nat
    BY <1>1, PopLemma DEF Pop, IInv
  <1> USE DEF Pop
  <1>3. TypeOK'
    BY <1>2 DEF IInv, TypeOK
  <1>4. state = "open" /\ stateLock = t
    BY DEF IInv, PopInv, LockInv
  <1>5. LockInv'
    BY <1>4 DEF IInv, LockInv, TypeOK
  <1>6. CountInv'
    <2>1. \A u \in Threads : pc'[u] # "pop"
      BY <1>4 DEF IInv, LockInv, TypeOK
    <2>2. connCount' = Cardinality(out) + 1
      BY <1>2 DEF IInv, CountInv
    <2>3. QED
      BY <1>2, <2>1, <2>2 DEF CountInv
  <1>7. DroppingInv'
    BY <1>1 DEF IInv, TypeOK, DroppingInv
  <1>8. CloserInv' /\ PopInv' /\ NoLostWakeup'
    BY DEF IInv, TypeOK, CloserInv, PopInv, NoLostWakeup
  <1>9. DrainedInv' /\ SessionInv'
    BY <1>1, <1>4 DEF IInv, TypeOK, DrainedInv, CloserInv, SessionInv
  <1>10. QED
    BY <1>2, <1>3, <1>5, <1>6, <1>7, <1>8, <1>9 DEF IInv

\* tryCheckOut() takes a client and counts it in one critical section.
LEMMA TryCheckOutStep ==
    ASSUME IInv, NEW t \in Threads, TryCheckOut(t)
    PROVE  IInv'
  <1>1. PICK h \in Poppable : PopEffect(h) /\ out' = out \cup {h}
    BY DEF TryCheckOut
  <1>2. /\ h \in Handles /\ h \notin out
        /\ idle' \subseteq Handles /\ out' \subseteq Handles /\ size' \in Nat
        /\ SizeInv'
        /\ Cardinality(out') = Cardinality(out) + 1
        /\ Cardinality(out) \in Nat
    BY <1>1, PopLemma DEF TryCheckOut, IInv
  <1> USE DEF TryCheckOut, Enter
  <1>3. TypeOK'
    BY <1>2 DEF IInv, TypeOK
  <1>4. LockInv' /\ CountInv'
    BY <1>2 DEF IInv, LockInv, CountInv, TypeOK
  <1>5. DroppingInv'
    BY <1>1 DEF IInv, TypeOK, DroppingInv
  <1>6. CloserInv' /\ PopInv' /\ NoLostWakeup'
    BY DEF IInv, TypeOK, CloserInv, PopInv, NoLostWakeup
  <1>7. DrainedInv' /\ SessionInv'
    BY <1>1 DEF IInv, TypeOK, DrainedInv, CloserInv, SessionInv
  <1>8. QED
    BY <1>2, <1>3, <1>4, <1>5, <1>6, <1>7 DEF IInv

\* A Connection starts to go away: its client stays counted as out.
LEMMA DeinitStep ==
    ASSUME IInv, NEW t \in Threads, NEW h \in Handles, Deinit(t, h)
    PROVE  IInv'
  <1> USE DEF Deinit, mongocVars
  <1>1. TypeOK'
    BY DEF IInv, TypeOK
  <1>2. LockInv' /\ CountInv'
    BY DEF IInv, LockInv, CountInv, TypeOK
  <1>3. SizeInv' /\ SessionInv'
    BY DEF IInv, SizeInv, SessionInv
  <1>4. DroppingInv'
    BY DEF IInv, TypeOK, DroppingInv
  <1>5. CloserInv' /\ PopInv' /\ NoLostWakeup' /\ DrainedInv'
    BY DEF IInv, TypeOK, CloserInv, PopInv, NoLostWakeup, DrainedInv
  <1>6. QED
    BY <1>1, <1>2, <1>3, <1>4, <1>5 DEF IInv

\* checkIn() moves a client from out to the queue, lowers the count and wakes
\* the closer if it is parked.
LEMMA CheckInStep ==
    ASSUME IInv, NEW t \in Threads, CheckIn(t)
    PROVE  IInv'
  <1> DEFINE h == dropping[t]
  <1> USE DEF CheckIn
  <1>1. h \in out /\ h \in Handles /\ h \notin idle
    BY DEF IInv, DroppingInv, SizeInv, TypeOK
  <1>2. /\ Cardinality(out) \in Nat /\ Cardinality(idle) \in Nat
        /\ Cardinality(out') = Cardinality(out) - 1
        /\ Cardinality(idle') = Cardinality(idle) + 1
        /\ Cardinality(out') \in Nat
    <2>1. out \in SUBSET Handles /\ idle \in SUBSET Handles /\ out' \in SUBSET Handles
      BY DEF IInv, TypeOK
    <2>2. QED
      BY <1>1, <2>1, HandleSets
  <1>3. \A u \in Threads : pc[u] \notin {"pop", "destroy"}
    BY PopAlone DEF IInv
  <1>4. pc' \in [Threads -> {"ready", "pop", "checkIn", "wait", "relock", "destroy"}]
    BY DEF IInv, TypeOK, SignalFrom
  <1>5. /\ pc'[t] = "ready"
        /\ \A u \in Threads \ {t} :
              \/ pc'[u] = pc[u] /\ pc[u] # "wait"
              \/ pc[u] = "wait" /\ pc'[u] \in {"wait", "relock"}
    BY DEF IInv, TypeOK, SignalFrom
  <1>6. \A u \in Threads : pc'[u] # "wait"
    BY <1>5 DEF IInv, TypeOK, SignalFrom, CloserInv
  <1>7. TypeOK'
    <2>1. connCount = Cardinality(out)
      BY <1>2, <1>3 DEF IInv, CountInv
    <2>2. connCount' \in Nat
      BY <1>2, <2>1
    <2>3. dropping' \in [Threads -> Handles \cup {NoHandle}]
      BY DEF IInv, TypeOK
    <2>4. QED
      BY <1>1, <1>4, <2>2, <2>3 DEF IInv, TypeOK
  <1>8. LockInv'
    BY <1>3, <1>5 DEF IInv, LockInv
  <1>9. CountInv'
    <2>1. \A u \in Threads : pc'[u] # "pop"
      BY <1>3, <1>5
    <2>2. connCount = Cardinality(out)
      BY <1>2, <1>3 DEF IInv, CountInv
    <2>3. QED
      BY <1>2, <2>1, <2>2 DEF CountInv
  <1>10. SizeInv'
    BY <1>1, <1>2 DEF IInv, SizeInv
  <1>11. DroppingInv'
    BY <1>5 DEF IInv, TypeOK, DroppingInv
  <1>12. CloserInv' /\ PopInv' /\ NoLostWakeup'
    BY <1>3, <1>5, <1>6 DEF IInv, CloserInv, PopInv, NoLostWakeup
  <1>13. DrainedInv' /\ SessionInv'
    BY <1>1, <1>3, <1>5 DEF IInv, DrainedInv, SessionInv
  <1>14. QED
    BY <1>7, <1>8, <1>9, <1>10, <1>11, <1>12, <1>13 DEF IInv

\* close() begins, and parks or falls through to destroy.
LEMMA CloseStep ==
    ASSUME IInv, NEW t \in Threads, Close(t)
    PROVE  IInv'
  <1> USE DEF Close, Enter, mongocVars
  <1>1. TypeOK'
    BY DEF IInv, TypeOK
  <1>2. \A u \in Threads : pc[u] \notin {"pop", "destroy", "wait", "relock"}
    BY PopAlone DEF IInv, CloserInv
  <1>3. LockInv'
    BY <1>2 DEF IInv, LockInv, TypeOK
  <1>4. CountInv'
    BY <1>2 DEF IInv, CountInv, TypeOK
  <1>5. SizeInv' /\ SessionInv' /\ DroppingInv'
    BY DEF IInv, TypeOK, SizeInv, SessionInv, DroppingInv
  <1>6. CloserInv' /\ PopInv' /\ NoLostWakeup'
    BY <1>2 DEF IInv, TypeOK, CloserInv, PopInv, NoLostWakeup
  <1>7. DrainedInv'
    <2>1. connCount = Cardinality(out)
      BY <1>2, HandleSet DEF IInv, CountInv, TypeOK
    <2>2. connCount = 0 => out = {}
      BY <2>1, HandleSet DEF IInv, TypeOK
    <2>3. QED
      BY <1>2, <2>2 DEF IInv, TypeOK, DrainedInv
  <1>8. QED
    BY <1>1, <1>3, <1>4, <1>5, <1>6, <1>7 DEF IInv

\* A wakeup without a signal is harmless.
LEMMA SpuriousWakeStep ==
    ASSUME IInv, NEW t \in Threads, SpuriousWake(t)
    PROVE  IInv'
  <1> USE DEF SpuriousWake, mongocVars
  <1>1. TypeOK' /\ LockInv' /\ CountInv'
    BY DEF IInv, TypeOK, LockInv, CountInv
  <1>2. SizeInv' /\ SessionInv' /\ DroppingInv'
    BY DEF IInv, TypeOK, SizeInv, SessionInv, DroppingInv
  <1>3. CloserInv' /\ PopInv' /\ NoLostWakeup' /\ DrainedInv'
    BY DEF IInv, TypeOK, CloserInv, PopInv, NoLostWakeup, DrainedInv
  <1>4. QED
    BY <1>1, <1>2, <1>3 DEF IInv

\* The loop condition of close() is tested again under the lock.
LEMMA RecheckStep ==
    ASSUME IInv, NEW t \in Threads, Recheck(t)
    PROVE  IInv'
  <1> USE DEF Recheck, mongocVars
  <1>1. TypeOK'
    BY DEF IInv, TypeOK
  <1>2. \A u \in Threads : pc[u] \notin {"pop", "destroy"}
    BY PopAlone DEF IInv
  <1>3. LockInv'
    BY <1>2 DEF IInv, LockInv, TypeOK
  <1>4. CountInv'
    BY <1>2 DEF IInv, CountInv, TypeOK
  <1>5. SizeInv' /\ SessionInv' /\ DroppingInv'
    BY DEF IInv, TypeOK, SizeInv, SessionInv, DroppingInv
  <1>6. CloserInv' /\ PopInv' /\ NoLostWakeup'
    BY DEF IInv, TypeOK, CloserInv, PopInv, NoLostWakeup
  <1>7. DrainedInv'
    <2>1. connCount = Cardinality(out)
      BY <1>2, HandleSet DEF IInv, CountInv, TypeOK
    <2>2. connCount = 0 => out = {}
      BY <2>1, HandleSet DEF IInv, TypeOK
    <2>3. QED
      BY <1>2, <2>2 DEF IInv, TypeOK, DrainedInv
  <1>8. QED
    BY <1>1, <1>3, <1>4, <1>5, <1>6, <1>7 DEF IInv

\* The libmongoc pool goes away with nothing out of it.
LEMMA DestroyStep ==
    ASSUME IInv, NEW t \in Threads, Destroy(t)
    PROVE  IInv'
  <1> USE DEF Destroy
  <1>1. TypeOK'
    BY DEF IInv, TypeOK
  <1>2. stateLock = t /\ out = {} /\ Cardinality({}) = 0
    BY FS_EmptySet DEF IInv, LockInv, DrainedInv
  <1>3. LockInv'
    BY <1>2 DEF IInv, LockInv, TypeOK
  <1>4. CountInv'
    BY DEF IInv, CountInv, TypeOK
  <1>5. SizeInv' /\ SessionInv'
    BY <1>2 DEF SizeInv, SessionInv
  <1>6. DroppingInv'
    BY DEF IInv, TypeOK, DroppingInv
  <1>7. CloserInv' /\ PopInv'
    BY DEF IInv, TypeOK, CloserInv, PopInv
  <1>8. DrainedInv' /\ NoLostWakeup'
    BY <1>2 DEF IInv, TypeOK, DrainedInv, NoLostWakeup
  <1>9. QED
    BY <1>1, <1>3, <1>4, <1>5, <1>6, <1>7, <1>8 DEF IInv

\* A server session is pooled only by a client that exists.
LEMMA PoolServerSessionStep == IInv /\ PoolServerSession => IInv'
  <1> SUFFICES ASSUME IInv, PoolServerSession PROVE IInv'
    OBVIOUS
  <1> USE DEF PoolServerSession
  <1>1. TypeOK' /\ LockInv' /\ CountInv' /\ SizeInv' /\ SessionInv'
    BY DEF IInv, TypeOK, LockInv, CountInv, SizeInv, SessionInv
  <1>2. DroppingInv' /\ CloserInv' /\ PopInv' /\ NoLostWakeup' /\ DrainedInv'
    BY DEF IInv, DroppingInv, CloserInv, PopInv, NoLostWakeup, DrainedInv
  <1>3. QED
    BY <1>1, <1>2 DEF IInv

-----------------------------------------------------------------------------
\* Stuttering, tryCheckOut() returning nil and a thrown PoolClosedError change
\* nothing.
LEMMA StutterIInv == IInv /\ UNCHANGED vars => IInv'
  BY DEF IInv, vars, TypeOK, LockInv, CountInv, SizeInv, DroppingInv, CloserInv,
         PopInv, DrainedInv, SessionInv, NoLostWakeup

\* Every step of the pool preserves IInv.
LEMMA NextIInv == IInv /\ [Next]_vars => IInv'
  <1> SUFFICES ASSUME IInv, [Next]_vars PROVE IInv'
    OBVIOUS
  <1>1. CASE UNCHANGED vars
    BY <1>1, StutterIInv
  <1>2. CASE PoolServerSession
    BY <1>2, PoolServerSessionStep
  <1>3. ASSUME NEW t \in Threads, CheckOut(t) PROVE IInv'
    BY <1>3, CheckOutStep
  <1>4. ASSUME NEW t \in Threads, Pop(t) PROVE IInv'
    BY <1>4, PopStep
  <1>5. ASSUME NEW t \in Threads, TryCheckOut(t) PROVE IInv'
    BY <1>5, TryCheckOutStep
  <1>6. ASSUME NEW t \in Threads, TryCheckOutNil(t) \/ ThrowPoolClosed(t) PROVE IInv'
    BY <1>6, StutterIInv DEF TryCheckOutNil, ThrowPoolClosed
  <1>7. ASSUME NEW t \in Threads, NEW h \in Handles, Deinit(t, h) PROVE IInv'
    BY <1>7, DeinitStep
  <1>8. ASSUME NEW t \in Threads, CheckIn(t) PROVE IInv'
    BY <1>8, CheckInStep
  <1>9. ASSUME NEW t \in Threads, Close(t) PROVE IInv'
    BY <1>9, CloseStep
  <1>10. ASSUME NEW t \in Threads, SpuriousWake(t) PROVE IInv'
    BY <1>10, SpuriousWakeStep
  <1>11. ASSUME NEW t \in Threads, Recheck(t) PROVE IInv'
    BY <1>11, RecheckStep
  <1>12. ASSUME NEW t \in Threads, Destroy(t) PROVE IInv'
    BY <1>12, DestroyStep
  <1>13. QED
    BY <1>1, <1>2, <1>3, <1>4, <1>5, <1>6, <1>7, <1>8, <1>9, <1>10, <1>11, <1>12 DEF Next

\* The inductive invariant holds in every reachable state of the pool: its
\* locking, its count and libmongoc's accounting agree.
THEOREM IInvTheorem == Spec => []IInv
  BY InitIInv, NextIInv, PTL DEF Spec

\* Type correctness of the pool.
THEOREM TypeCorrect == Spec => []TypeOK
  <1>1. IInv => TypeOK
    BY DEF IInv
  <1>2. QED
    BY <1>1, IInvTheorem, PTL

\* close() never sleeps through its last wakeup: while it is parked some
\* connection has still to be checked in.
THEOREM NoLostWakeupTheorem == Spec => []NoLostWakeup
  <1>1. IInv => NoLostWakeup
    BY DEF IInv
  <1>2. QED
    BY <1>1, IInvTheorem, PTL

\* mongoc_client_pool_destroy, called with stateLock held, never waits for a
\* client.
THEOREM DestroyNeverBlocksTheorem == Spec => []DestroyNeverBlocks
  <1>1. IInv => DestroyNeverBlocks
    BY DEF IInv, DestroyNeverBlocks, DrainedInv, SessionInv, CanPop
  <1>2. QED
    BY <1>1, IInvTheorem, PTL

\* No Connection outlives its libmongoc pool, so the assertionFailure of
\* Connection.deinit cannot be reached.
THEOREM NoCheckInAfterCloseTheorem == Spec => []NoCheckInAfterClose
  <1>1. IInv => NoCheckInAfterClose
    BY DEF IInv, NoCheckInAfterClose, DrainedInv, DroppingInv
  <1>2. QED
    BY <1>1, IInvTheorem, PTL

-----------------------------------------------------------------------------
\* Under IInv a step of the pool is a step of PoolPromise or leaves its phase
\* and the clients held alone.
LEMMA StepSimulation == IInv /\ [Next]_vars => [Promise!Next]_Promise!vars
  <1> SUFFICES ASSUME IInv, [Next]_vars PROVE [Promise!Next]_Promise!vars
    OBVIOUS
  <1> USE DEF Promise!Next, Promise!vars
  <1>1. CASE UNCHANGED vars
    BY <1>1 DEF vars
  <1>2. CASE PoolServerSession
    BY <1>2 DEF PoolServerSession
  <1>3. ASSUME state = "open", UNCHANGED state, CanPop,
               NEW h \in Poppable, PopEffect(h), out' = out \cup {h}
        PROVE  Promise!Next
    <2>1. /\ h \in Handles /\ h \notin out
          /\ SizeInv'
          /\ Cardinality(out') = Cardinality(out) + 1
          /\ Cardinality(out) \in Nat
          /\ idle' \in SUBSET Handles
      BY <1>3, PopLemma DEF IInv
    <2>2. Cardinality(idle') \in Nat
      BY <2>1, HandleSet
    <2>3. Cardinality(out) < MaxPoolSize
      BY <2>1, <2>2 DEF SizeInv
    <2>4. Promise!Cardinality(out) = Cardinality(out)
      BY DEF Promise!Cardinality, Cardinality
    <2>5. QED
      BY <1>3, <2>1, <2>3, <2>4 DEF Promise!Acquire
  <1>4. ASSUME NEW t \in Threads, Pop(t) PROVE Promise!Next
    BY <1>3, <1>4 DEF Pop, IInv, PopInv
  <1>5. ASSUME NEW t \in Threads, TryCheckOut(t) PROVE Promise!Next
    BY <1>3, <1>5 DEF TryCheckOut
  <1>6. ASSUME NEW t \in Threads, CheckIn(t) PROVE Promise!Next
    BY <1>6 DEF CheckIn, Promise!Release, IInv, DroppingInv
  <1>7. ASSUME NEW t \in Threads, Close(t) PROVE Promise!Next
    BY <1>7 DEF Close, Promise!BeginClose
  <1>8. ASSUME NEW t \in Threads, Destroy(t) PROVE Promise!Next
    BY <1>8 DEF Destroy, Promise!FinishClose, IInv, DrainedInv
  <1>9. ASSUME NEW t \in Threads,
               \/ CheckOut(t) \/ TryCheckOutNil(t) \/ ThrowPoolClosed(t)
               \/ \E h \in Handles : Deinit(t, h)
               \/ SpuriousWake(t) \/ Recheck(t)
        PROVE  UNCHANGED <<state, out>>
    BY <1>9 DEF CheckOut, TryCheckOutNil, ThrowPoolClosed, Deinit, SpuriousWake, Recheck, vars
  <1>10. QED
    BY <1>1, <1>2, <1>4, <1>5, <1>6, <1>7, <1>8, <1>9 DEF Next

\* ConnectionPool.swift implements PoolPromise, whatever its callers do.
THEOREM RefinementTheorem == Spec => ImplementsPromise
  <1>1. Init => Promise!Init
    BY DEF Init, Promise!Init
  <1>2. QED
    BY <1>1, IInvTheorem, StepSimulation, PTL DEF Spec, Promise!Spec, ImplementsPromise

=============================================================================
