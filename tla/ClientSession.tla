--------------------------- MODULE ClientSession ---------------------------
(***************************************************************************)
(* ClientSession.swift with the part of libmongoc's client session it      *)
(* relies on.  A session is lazy: the first operation that uses it starts  *)
(* a libmongoc session on a worker, installs it from an event loop and     *)
(* only then runs.  Until then the times the user sets are cached.         *)
(*                                                                         *)
(* An operation that starts a libmongoc session names it: session o is the *)
(* one created by StartSessionOperation on behalf of operation o.  Users   *)
(* follow the documented contract of end(): every operation has completed  *)
(* when it is called, and nothing is called until it has returned.         *)
(***************************************************************************)
EXTENDS Naturals

CONSTANTS
    Ops,           \* operations the user runs with this session
    NoSession,     \* no libmongoc session
    MaxTimestamp,  \* bound on the seconds of a BSONTimestamp
    MaxIncrement,  \* bound on its increment
    Sequential     \* the user waits for an operation before issuing the next

ASSUME SessionAssumption ==
    /\ NoSession \notin Ops
    /\ MaxTimestamp \in Nat \ {0}
    /\ MaxIncrement \in Nat
    /\ Sequential \in BOOLEAN

\* The two times of a session; libmongoc compares both the same way.
Clocks == {"operation", "cluster"}

Stamps == (0 .. MaxTimestamp) \X (0 .. MaxIncrement)
NoTime == <<0, 0>>
Times == Stamps \ {NoTime}
NoTimes == [c \in Clocks |-> NoTime]

\* a > b, as mongoc_client_session_advance_operation_time and
\* _mongoc_cluster_time_greater compare.
After(a, b) == a[1] > b[1] \/ (a[1] = b[1] /\ a[2] > b[2])

Advanced(old, new) == IF After(new, old) THEN new ELSE old

VARIABLES
    state,      \* ClientSession.state, with the started libmongoc session
    cached,     \* the times stored in .notStarted
    lib,        \* libmongoc sessions: "none", "live" or "destroyed"
    time,       \* the times of each libmongoc session
    pc,         \* where the future chain of each operation is
    captured,   \* the times startIfNeeded captured before going asynchronous
    on,         \* the libmongoc session an operation runs on
    promised,   \* (history) the operation time the user was given or asked for
    ending      \* an end() is queued or running

vars == <<state, cached, lib, time, pc, captured, on, promised, ending>>

Kind(k) == state.kind = k

Init ==
    /\ state = [kind |-> "notStarted", session |-> NoSession]
    /\ cached = NoTimes
    /\ lib = [o \in Ops |-> "none"]
    /\ time = [o \in Ops |-> NoTimes]
    /\ pc = [o \in Ops |-> "idle"]
    /\ captured = [o \in Ops |-> NoTimes]
    /\ on = [o \in Ops |-> NoSession]
    /\ promised = NoTime
    /\ ending = FALSE

-----------------------------------------------------------------------------
(* Operations with this session *)

InFlight == {"starting", "created", "queued", "running"}
Quiet == \A o \in Ops : pc[o] \notin InFlight

Goto(o, there) == pc' = [pc EXCEPT ![o] = there]

\* OperationExecutor.execute with a session calls startIfNeeded, whose switch
\* captures the cached times when the session has not been started.
Issue(o) ==
    /\ pc[o] = "idle"
    /\ Sequential => Quiet
    /\ ~ending
    /\ \/ /\ Kind("notStarted")
          /\ Goto(o, "starting")
          /\ captured' = [captured EXCEPT ![o] = cached]
       \/ /\ Kind("started")
          /\ Goto(o, "queued")
          /\ UNCHANGED captured
       \/ /\ Kind("ended")
          /\ Goto(o, "failed")
          /\ UNCHANGED captured
    /\ UNCHANGED <<state, cached, lib, time, on, promised, ending>>

\* Mutant: the error of mongoc_client_start_session is ignored.
StartSessionIgnoringError(o) ==
    /\ pc[o] = "starting"
    /\ Goto(o, "created")
    /\ UNCHANGED <<state, cached, lib, time, captured, on, promised, ending>>

\* StartSessionOperation on a worker, with a connection of its own.
StartSession(o) ==
    /\ pc[o] = "starting"
    /\ lib' = [lib EXCEPT ![o] = "live"]
    /\ Goto(o, "created")
    /\ UNCHANGED <<state, cached, time, captured, on, promised, ending>>

\* No connection can be had, or mongoc_client_start_session returns an error.
StartFails(o) ==
    /\ pc[o] = "starting"
    /\ Goto(o, "failed")
    /\ captured' = [captured EXCEPT ![o] = NoTimes]
    /\ UNCHANGED <<state, cached, lib, time, on, promised, ending>>

\* Mutant: the cached times are not handed to the libmongoc session.
StartedWithoutTimes(o) ==
    /\ pc[o] = "created"
    /\ state' = [kind |-> "started", session |-> o]
    /\ cached' = NoTimes
    /\ captured' = [captured EXCEPT ![o] = NoTimes]
    /\ Goto(o, "queued")
    /\ UNCHANGED <<lib, time, on, promised, ending>>

\* The closure of startIfNeeded's map, on an event loop: install the libmongoc
\* session, whatever the state is by now, and advance it to the captured times.
Started(o) ==
    /\ pc[o] = "created"
    /\ state' = [kind |-> "started", session |-> o]
    /\ cached' = NoTimes
    /\ time' = [time EXCEPT ![o] =
                  [c \in Clocks |-> Advanced(time[o][c], captured[o][c])]]
    /\ captured' = [captured EXCEPT ![o] = NoTimes]
    /\ Goto(o, "queued")
    /\ UNCHANGED <<lib, on, promised, ending>>

\* doOperation on a worker: getConnection throws unless the session is started.
Run(o) ==
    /\ pc[o] = "queued"
    /\ \/ /\ Kind("started")
          /\ on' = [on EXCEPT ![o] = state.session]
          /\ Goto(o, "running")
       \/ /\ ~Kind("started")
          /\ Goto(o, "failed")
          /\ UNCHANGED on
    /\ UNCHANGED <<state, cached, lib, time, captured, promised, ending>>

\* The reply, or an error without one (all NoTime), advances the libmongoc
\* session as _mongoc_client_session_handle_reply does.
Reply(o, reply) ==
    /\ pc[o] = "running"
    /\ time' = [time EXCEPT ![on[o]] =
                  [c \in Clocks |-> Advanced(time[on[o]][c], reply[c])]]
    /\ on' = [on EXCEPT ![o] = NoSession]
    /\ promised' = Advanced(promised, reply["operation"])
    /\ Goto(o, "done")
    /\ UNCHANGED <<state, cached, lib, captured, ending>>

-----------------------------------------------------------------------------
(* Calls on the session itself *)

\* An operation is starting the libmongoc session: it has captured the cached
\* times and not yet installed the session (startIfNeeded).
Starting == \E o \in Ops : pc[o] \in {"starting", "created"}

\* advanceOperationTime and advanceClusterTime; an ended session ignores both.
\* The user may rely on the operation time he asks for, with one exception: an
\* advance while the session is being started goes to the cache that Started
\* throws away.  A user who waits never asks for a time before the one he has;
\* a session that was not started would go back to it.
AdvanceTime(c, t) ==
    /\ ~ending
    /\ Sequential /\ c = "operation" => ~After(promised, t)
    /\ \/ /\ Kind("notStarted")
          /\ cached' = [cached EXCEPT ![c] = t]
          /\ UNCHANGED time
       \/ /\ Kind("started")
          /\ time' = [time EXCEPT ![state.session][c] = Advanced(@, t)]
          /\ UNCHANGED cached
    /\ promised' = IF c = "operation" /\ ~Starting THEN Advanced(promised, t) ELSE promised
    /\ UNCHANGED <<state, lib, pc, captured, on, ending>>

\* end(): at once when there is no libmongoc session, else on a worker.
End ==
    /\ Quiet /\ ~ending
    /\ \/ /\ ~Kind("started")
          /\ state' = [kind |-> "ended", session |-> NoSession]
          /\ cached' = NoTimes
          /\ UNCHANGED ending
       \/ /\ Kind("started")
          /\ ending' = TRUE
          /\ UNCHANGED <<state, cached>>
    /\ UNCHANGED <<lib, time, pc, captured, on, promised>>

\* Mutant: the state says ended, the libmongoc session is forgotten.
EndRunsWithoutDestroy ==
    /\ ending
    /\ state' = [kind |-> "ended", session |-> NoSession]
    /\ ending' = FALSE
    /\ UNCHANGED <<cached, lib, time, pc, captured, on, promised>>

\* The body end() queued: mongoc_client_session_destroy, then the state.
EndRuns ==
    /\ ending
    /\ lib' = [lib EXCEPT ![state.session] = "destroyed"]
    /\ state' = [kind |-> "ended", session |-> NoSession]
    /\ ending' = FALSE
    /\ UNCHANGED <<cached, time, pc, captured, on, promised>>

Next ==
    \/ \E o \in Ops :
          \/ Issue(o) \/ StartSession(o) \/ StartFails(o) \/ Started(o) \/ Run(o)
          \/ \E reply \in [Clocks -> Stamps] : Reply(o, reply)
    \/ \E c \in Clocks, t \in Times : AdvanceTime(c, t)
    \/ End \/ EndRuns

Spec == Init /\ [][Next]_vars

-----------------------------------------------------------------------------
(* Safety *)

\* Type invariant; exactly the started state refers to a libmongoc session.
TypeOK ==
    /\ state \in [kind : {"notStarted", "started", "ended"}, session : Ops \cup {NoSession}]
    /\ state.kind = "started" <=> state.session \in Ops
    /\ cached \in [Clocks -> Stamps]
    /\ lib \in [Ops -> {"none", "live", "destroyed"}]
    /\ time \in [Ops -> [Clocks -> Stamps]]
    /\ pc \in [Ops -> {"idle", "done", "failed"} \cup InFlight]
    /\ captured \in [Ops -> [Clocks -> Stamps]]
    /\ on \in [Ops -> Ops \cup {NoSession}]
    /\ promised \in Stamps
    /\ ending \in BOOLEAN

\* Connections kept out of the pool: by the result of a StartSessionOperation
\* on its way to the event loop, by the started state, by running operations.
Holding(s) ==
    \/ pc[s] = "created"
    \/ Kind("started") /\ state.session = s
    \/ \E o \in Ops : pc[o] = "running" /\ on[o] = s

\* A live libmongoc session always has its connection out of the pool
\* (startIfNeeded, end): none is leaked with its client back in the pool.
NoLeak == \A s \in Ops : lib[s] = "live" => Holding(s)

\* An operation runs on a libmongoc session that exists and was not destroyed
\* (startIfNeeded before doOperation, getConnection's guard, end()).
RunsOnLiveSession ==
    \A o \in Ops : pc[o] = "running" => on[o] \in Ops /\ lib[on[o]] = "live"

\* Causal consistency: an operation runs on a libmongoc session whose
\* operation time, hence whose afterClusterTime, is not before the greatest one
\* a reply has shown or the user has asked for with advanceOperationTime - also
\* when that time had to travel through startIfNeeded's closures.  Not promised
\* is an advance made while the first operation is starting the session, which
\* startIfNeeded loses (ClientSession.swift:216-220).
CausalOrder ==
    \A o \in Ops : pc[o] = "running" => ~After(promised, time[on[o]]["operation"])

\* Once ended, a session stays ended (startIfNeeded, end, advance...).
EndedIsFinal == [][Kind("ended") => Kind("ended")']_vars

-----------------------------------------------------------------------------
(* The inductive invariant *)

\* Where a libmongoc session is alive: nobody can reach one that is not.
LifeInv ==
    /\ Kind("started") => lib[state.session] = "live"
    /\ \A o \in Ops : pc[o] = "created" => lib[o] = "live"
    /\ RunsOnLiveSession
    /\ ending => Kind("started") /\ Quiet
    /\ Kind("ended") => Quiet

\* A user who waits has one operation in flight; until its StartSession is
\* installed the session is not started, afterwards it runs on that session.
SequentialInv ==
    /\ \A o, p \in Ops : pc[o] \in InFlight /\ pc[p] \in InFlight => o = p
    /\ \A o \in Ops : pc[o] \in {"starting", "created"} => Kind("notStarted")
    /\ \A o \in Ops : pc[o] \in {"queued", "running"} => Kind("started")
    /\ \A o \in Ops : pc[o] = "running" => on[o] = state.session
    /\ NoLeak

\* Where the promised operation time is, on its way to the server.
PromisedInv ==
    /\ Kind("notStarted") => ~After(promised, cached["operation"])
    /\ \A o \in Ops :
          pc[o] \in {"starting", "created"} => ~After(promised, captured[o]["operation"])
    /\ Kind("started") => ~After(promised, time[state.session]["operation"])

IInv == TypeOK /\ LifeInv /\ (Sequential => SequentialInv /\ PromisedInv)

=============================================================================
