------------------------ MODULE ClientSessionProofs ------------------------
(***************************************************************************)
(* The safety of ClientSession for every set of operations and every bound *)
(* on times: operations run on live libmongoc sessions and an ended        *)
(* session stays ended; for a user who waits for each operation, no        *)
(* libmongoc session is leaked and no operation runs before the operation  *)
(* time the user was promised.                                             *)
(***************************************************************************)
EXTENDS ClientSession, TLAPS

USE SessionAssumption

\* The order of times, on the pairs that represent them.
LEMMA AdvancedIsStamp ==
    ASSUME NEW a \in Stamps, NEW b \in Stamps
    PROVE  Advanced(a, b) \in Stamps
  BY DEF Advanced

LEMMA AdvancedCovers ==
    ASSUME NEW a \in Stamps, NEW b \in Stamps
    PROVE  ~After(a, Advanced(a, b)) /\ ~After(b, Advanced(a, b))
  BY DEF Advanced, After, Stamps

LEMMA AfterTransitive ==
    ASSUME NEW a \in Stamps, NEW b \in Stamps, NEW c \in Stamps,
           ~After(a, b), ~After(b, c)
    PROVE  ~After(a, c)
  BY DEF After, Stamps

\* Advancing a time keeps what it already covered.
LEMMA AdvancedKeeps ==
    ASSUME NEW a \in Stamps, NEW b \in Stamps, NEW t \in Stamps, ~After(t, a)
    PROVE  ~After(t, Advanced(a, b))
  BY AdvancedIsStamp, AdvancedCovers, AfterTransitive

LEMMA NoTimeIsStamp == NoTime \in Stamps /\ NoTimes \in [Clocks -> Stamps]
  BY DEF NoTime, NoTimes, Stamps, Clocks

-----------------------------------------------------------------------------
\* Nothing has happened yet.
LEMMA InitIInv == Init => IInv
  <1> SUFFICES ASSUME Init PROVE IInv
    OBVIOUS
  <1>1. TypeOK
    BY NoTimeIsStamp DEF Init, TypeOK
  <1>2. LifeInv
    BY DEF Init, LifeInv, Kind, RunsOnLiveSession
  <1>3. SequentialInv
    BY DEF Init, SequentialInv, NoLeak, InFlight
  <1>4. PromisedInv
    BY NoTimeIsStamp DEF Init, PromisedInv, Kind, NoTimes, NoTime, Clocks, After, Stamps
  <1>5. QED
    BY <1>1, <1>2, <1>3, <1>4 DEF IInv

\* An operation is issued: at most it starts waiting for a session.
LEMMA IssueStep ==
    ASSUME IInv, NEW o \in Ops, Issue(o)
    PROVE  IInv'
  <1> USE DEF Issue, Goto, Kind
  <1>1. TypeOK'
    <2>1. pc' \in [Ops -> {"idle", "done", "failed"} \cup InFlight]
      BY DEF IInv, TypeOK, InFlight
    <2>2. captured' \in [Ops -> [Clocks -> Stamps]]
      <3>1. cached \in [Clocks -> Stamps] /\ captured \in [Ops -> [Clocks -> Stamps]]
        BY DEF IInv, TypeOK
      <3>2. captured' \in {captured, [captured EXCEPT ![o] = cached]}
        OBVIOUS
      <3>3. QED
        BY <3>1, <3>2
    <2>3. QED
      BY <2>1, <2>2 DEF IInv, TypeOK
  <1>2. LifeInv'
    BY DEF IInv, TypeOK, LifeInv, RunsOnLiveSession, Quiet, InFlight
  <1>3. Sequential => SequentialInv'
    BY DEF IInv, TypeOK, LifeInv, SequentialInv, NoLeak, Holding, RunsOnLiveSession, Quiet, InFlight
  <1>4. Sequential => PromisedInv'
    BY DEF IInv, TypeOK, PromisedInv
  <1>5. QED
    BY <1>1, <1>2, <1>3, <1>4 DEF IInv

\* The new libmongoc session is live and its creator holds its connection.
LEMMA StartSessionStep ==
    ASSUME IInv, NEW o \in Ops, StartSession(o)
    PROVE  IInv'
  <1> USE DEF StartSession, Goto, Kind
  <1>1. TypeOK'
    BY NoTimeIsStamp, AdvancedIsStamp DEF IInv, TypeOK, InFlight, Times, Clocks
  <1>2. LifeInv'
    BY DEF IInv, TypeOK, LifeInv, RunsOnLiveSession, Quiet, InFlight
  <1>3. Sequential => SequentialInv'
    BY DEF IInv, TypeOK, LifeInv, SequentialInv, NoLeak, Holding, RunsOnLiveSession, Quiet, InFlight
  <1>4. Sequential => PromisedInv'
    BY DEF IInv, TypeOK, LifeInv, SequentialInv, PromisedInv, Quiet, InFlight
  <1>5. QED
    BY <1>1, <1>2, <1>3, <1>4 DEF IInv

\* Nothing was created.
LEMMA StartFailsStep ==
    ASSUME IInv, NEW o \in Ops, StartFails(o)
    PROVE  IInv'
  <1> USE DEF StartFails, Goto, Kind
  <1>1. TypeOK'
    BY NoTimeIsStamp, AdvancedIsStamp DEF IInv, TypeOK, InFlight, Times, Clocks
  <1>2. LifeInv'
    BY DEF IInv, TypeOK, LifeInv, RunsOnLiveSession, Quiet, InFlight
  <1>3. Sequential => SequentialInv'
    BY DEF IInv, TypeOK, LifeInv, SequentialInv, NoLeak, Holding, RunsOnLiveSession, Quiet, InFlight
  <1>4. Sequential => PromisedInv'
    BY DEF IInv, TypeOK, LifeInv, SequentialInv, PromisedInv, Quiet, InFlight
  <1>5. QED
    BY <1>1, <1>2, <1>3, <1>4 DEF IInv

\* The session is installed with the times captured for it.
LEMMA StartedStep ==
    ASSUME IInv, NEW o \in Ops, Started(o)
    PROVE  IInv'
  <1> USE DEF Started, Goto, Kind
  <1>1. TypeOK'
    BY NoTimeIsStamp, AdvancedIsStamp DEF IInv, TypeOK, InFlight, Times, Clocks
  <1>2. LifeInv'
    BY DEF IInv, TypeOK, LifeInv, RunsOnLiveSession, Quiet, InFlight
  <1>3. Sequential => SequentialInv'
    BY DEF IInv, TypeOK, LifeInv, SequentialInv, NoLeak, Holding, RunsOnLiveSession, Quiet, InFlight
  <1>4. Sequential => PromisedInv'
    <2> SUFFICES ASSUME Sequential PROVE PromisedInv'
      OBVIOUS
    <2>1. \A p \in Ops : pc'[p] \notin {"starting", "created"}
      BY DEF IInv, TypeOK, SequentialInv, InFlight
    <2>2. ~After(promised, captured[o]["operation"])
      BY DEF IInv, PromisedInv
    <2>3. time'[o]["operation"] = Advanced(time[o]["operation"], captured[o]["operation"])
      BY DEF IInv, TypeOK, Clocks
    <2>4. /\ promised \in Stamps
          /\ time[o]["operation"] \in Stamps
          /\ captured[o]["operation"] \in Stamps
      BY DEF IInv, TypeOK, Clocks
    <2>5. ~After(promised, time'[o]["operation"])
      <3>1. ~After(captured[o]["operation"], time'[o]["operation"])
        BY <2>3, <2>4, AdvancedCovers
      <3>2. time'[o]["operation"] \in Stamps
        BY <2>3, <2>4, AdvancedIsStamp
      <3>3. QED
        BY <2>2, <2>4, <3>1, <3>2, AfterTransitive
    <2>6. QED
      BY <2>1, <2>5 DEF PromisedInv
  <1>5. QED
    BY <1>1, <1>2, <1>3, <1>4 DEF IInv

\* The operation runs on the session of the started state.
LEMMA RunStep ==
    ASSUME IInv, NEW o \in Ops, Run(o)
    PROVE  IInv'
  <1> USE DEF Run, Goto, Kind
  <1>1. TypeOK'
    BY NoTimeIsStamp, AdvancedIsStamp DEF IInv, TypeOK, InFlight, Times, Clocks
  <1>2. LifeInv'
    <2>1. RunsOnLiveSession'
      BY DEF IInv, TypeOK, LifeInv, RunsOnLiveSession
    <2>2. ~ending /\ ~Kind("ended")
      BY DEF IInv, TypeOK, LifeInv, Quiet, InFlight
    <2>3. QED
      BY <2>1, <2>2 DEF IInv, TypeOK, LifeInv
  <1>3. Sequential => SequentialInv'
    BY DEF IInv, TypeOK, LifeInv, SequentialInv, NoLeak, Holding, RunsOnLiveSession, Quiet, InFlight
  <1>4. Sequential => PromisedInv'
    BY DEF IInv, TypeOK, LifeInv, SequentialInv, PromisedInv, Quiet, InFlight
  <1>5. QED
    BY <1>1, <1>2, <1>3, <1>4 DEF IInv

\* A reply moves the session's time at least as far as what it promises.
LEMMA ReplyStep ==
    ASSUME IInv, NEW o \in Ops, NEW reply \in [Clocks -> Stamps], Reply(o, reply)
    PROVE  IInv'
  <1> USE DEF Reply, Goto, Kind
  <1>1. TypeOK'
    <2>1. on[o] \in Ops
      BY DEF IInv, LifeInv, RunsOnLiveSession
    <2>2. [c \in Clocks |-> Advanced(time[on[o]][c], reply[c])] \in [Clocks -> Stamps]
      BY <2>1, AdvancedIsStamp DEF IInv, TypeOK
    <2>3. promised' \in Stamps
      BY AdvancedIsStamp DEF IInv, TypeOK, Clocks
    <2>4. QED
      BY <2>1, <2>2, <2>3 DEF IInv, TypeOK
  <1>2. LifeInv'
    BY DEF IInv, TypeOK, LifeInv, RunsOnLiveSession, Quiet, InFlight
  <1>3. Sequential => SequentialInv'
    BY DEF IInv, TypeOK, LifeInv, SequentialInv, NoLeak, Holding, RunsOnLiveSession, Quiet, InFlight
  <1>4. Sequential => PromisedInv'
    <2> SUFFICES ASSUME Sequential PROVE PromisedInv'
      OBVIOUS
    <2> DEFINE old == time[on[o]]["operation"]
               new == reply["operation"]
    <2>1. Kind("started") /\ on[o] = state.session /\ on[o] \in Ops
      BY DEF IInv, TypeOK, SequentialInv
    <2>2. \A p \in Ops : pc'[p] \notin {"starting", "created"}
      BY DEF IInv, TypeOK, SequentialInv, InFlight
    <2>3. promised \in Stamps /\ old \in Stamps /\ new \in Stamps
      BY <2>1 DEF IInv, TypeOK, Clocks
    <2>4. ~After(promised, old)
      BY <2>1 DEF IInv, PromisedInv
    <2>5. time'[on[o]]["operation"] = Advanced(old, new)
      BY <2>1 DEF IInv, TypeOK, Clocks
    <2>6. ~After(promised', Advanced(old, new))
      BY <2>3, <2>4, AdvancedCovers, AdvancedKeeps DEF Advanced
    <2>7. QED
      BY <2>1, <2>2, <2>5, <2>6 DEF PromisedInv
  <1>5. QED
    BY <1>1, <1>2, <1>3, <1>4 DEF IInv

\* The user moves a time; it is promised only where the code will keep it.
LEMMA AdvanceTimeStep ==
    ASSUME IInv, NEW c \in Clocks, NEW t \in Times, AdvanceTime(c, t)
    PROVE  IInv'
  <1> USE DEF AdvanceTime, Goto, Kind
  <1>1. TypeOK'
    <2>1. t \in Stamps /\ promised' \in Stamps
      BY AdvancedIsStamp DEF IInv, TypeOK, Times
    <2>2. CASE Kind("notStarted")
      BY <2>1, <2>2 DEF IInv, TypeOK
    <2>3. CASE Kind("started")
      <3>1. state.session \in Ops
        BY <2>3 DEF IInv, TypeOK
      <3>2. Advanced(time[state.session][c], t) \in Stamps
        BY <2>1, <3>1, AdvancedIsStamp DEF IInv, TypeOK
      <3>3. [time[state.session] EXCEPT ![c] = Advanced(time[state.session][c], t)] \in [Clocks -> Stamps]
        BY <3>1, <3>2 DEF IInv, TypeOK
      <3>4. UNCHANGED cached /\ time' = [time EXCEPT ![state.session] =
                 [time[state.session] EXCEPT ![c] = Advanced(time[state.session][c], t)]]
        BY <2>3, <3>1 DEF IInv, TypeOK
      <3>5. time' \in [Ops -> [Clocks -> Stamps]]
        BY <3>1, <3>3, <3>4 DEF IInv, TypeOK
      <3>6. QED
        BY <2>1, <3>4, <3>5 DEF IInv, TypeOK
    <2>4. QED
      BY <2>2, <2>3
  <1>2. LifeInv'
    BY DEF IInv, TypeOK, LifeInv, RunsOnLiveSession, Quiet, InFlight
  <1>3. Sequential => SequentialInv'
    BY DEF IInv, TypeOK, LifeInv, SequentialInv, NoLeak, Holding, RunsOnLiveSession, Quiet, InFlight
  <1>4. Sequential => PromisedInv'
    <2> SUFFICES ASSUME Sequential PROVE PromisedInv'
      OBVIOUS
    <2>1. promised \in Stamps /\ t \in Stamps
      BY DEF IInv, TypeOK, Times
    <2>2. CASE Kind("notStarted")
      <3>1. ~After(promised', cached'["operation"])
        <4>1. CASE c = "operation"
          BY <2>1, <2>2, <4>1 DEF IInv, TypeOK, After, Advanced, Stamps
        <4>2. CASE c # "operation"
          <5>1. cached'["operation"] = cached["operation"] /\ promised' = promised
            BY <2>2, <4>2 DEF IInv, TypeOK, Clocks
          <5>2. QED
            BY <2>2, <5>1 DEF IInv, PromisedInv
        <4>3. QED
          BY <4>1, <4>2
      <3>2. \A o \in Ops : pc[o] \in {"starting", "created"} => promised' = promised
        BY DEF Starting
      <3>3. QED
        BY <2>2, <3>1, <3>2 DEF IInv, PromisedInv
    <2>3. CASE Kind("started")
      <3> DEFINE old == time[state.session]["operation"]
      <3>1. state.session \in Ops /\ old \in Stamps /\ ~After(promised, old)
        BY <2>3 DEF IInv, TypeOK, PromisedInv, Clocks
      <3>2. \A o \in Ops : pc[o] \notin {"starting", "created"}
        BY <2>3 DEF IInv, SequentialInv
      <3>3. ~After(promised', time'[state.session]["operation"])
        <4>1. CASE c = "operation"
          <5>1. time'[state.session]["operation"] = Advanced(old, t)
            BY <2>3, <3>1, <4>1 DEF IInv, TypeOK, Clocks
          <5>2. ~After(promised', Advanced(old, t))
            BY <2>1, <3>1, AdvancedCovers, AdvancedKeeps DEF Advanced
          <5>3. QED
            BY <5>1, <5>2
        <4>2. CASE c # "operation"
          <5>1. time'[state.session]["operation"] = old
            BY <2>3, <3>1, <4>2 DEF IInv, TypeOK, Clocks
          <5>2. QED
            BY <3>1, <4>2, <5>1
        <4>3. QED
          BY <4>1, <4>2
      <3>4. QED
        BY <2>3, <3>2, <3>3 DEF PromisedInv
    <2>4. QED
      BY <2>2, <2>3
  <1>5. QED
    BY <1>1, <1>2, <1>3, <1>4 DEF IInv

\* Nothing is in flight when the session ends.
LEMMA EndStep ==
    ASSUME IInv, End
    PROVE  IInv'
  <1> USE DEF End, Goto, Kind
  <1>1. TypeOK'
    <2>1. CASE Kind("started")
      BY <2>1 DEF IInv, TypeOK
    <2>2. CASE ~Kind("started")
      BY <2>2, NoTimeIsStamp DEF IInv, TypeOK
    <2>3. QED
      BY <2>1, <2>2
  <1>2. LifeInv'
    BY DEF IInv, TypeOK, LifeInv, RunsOnLiveSession, Quiet, InFlight
  <1>3. Sequential => SequentialInv'
    BY DEF IInv, TypeOK, LifeInv, SequentialInv, NoLeak, Holding, RunsOnLiveSession, Quiet, InFlight
  <1>4. Sequential => PromisedInv'
    BY DEF IInv, TypeOK, LifeInv, SequentialInv, PromisedInv, Quiet, InFlight
  <1>5. QED
    BY <1>1, <1>2, <1>3, <1>4 DEF IInv

\* The one live libmongoc session is destroyed.
LEMMA EndRunsStep ==
    ASSUME IInv, EndRuns
    PROVE  IInv'
  <1> USE DEF EndRuns, Goto, Kind
  <1>1. TypeOK'
    BY NoTimeIsStamp, AdvancedIsStamp DEF IInv, TypeOK, InFlight, Times, Clocks
  <1>2. LifeInv'
    BY DEF IInv, TypeOK, LifeInv, RunsOnLiveSession, Quiet, InFlight
  <1>3. Sequential => SequentialInv'
    BY DEF IInv, TypeOK, LifeInv, SequentialInv, NoLeak, Holding, RunsOnLiveSession, Quiet, InFlight
  <1>4. Sequential => PromisedInv'
    BY DEF IInv, TypeOK, LifeInv, SequentialInv, PromisedInv, Quiet, InFlight
  <1>5. QED
    BY <1>1, <1>2, <1>3, <1>4 DEF IInv

\* IInv is inductive.
LEMMA NextIInv == IInv /\ [Next]_vars => IInv'
  <1> SUFFICES ASSUME IInv, [Next]_vars PROVE IInv'
    OBVIOUS
  <1>1. CASE UNCHANGED vars
    BY <1>1 DEF vars, IInv, TypeOK, LifeInv, SequentialInv, PromisedInv, NoLeak, Holding,
                RunsOnLiveSession, Quiet, Kind
  <1>2. CASE Next
    BY <1>2, IssueStep, StartSessionStep, StartFailsStep, StartedStep, RunStep, ReplyStep,
       AdvanceTimeStep, EndStep, EndRunsStep DEF Next
  <1>3. QED
    BY <1>1, <1>2

\* The inductive invariant holds of every behaviour of the session.
THEOREM IInvTheorem == Spec => []IInv
  BY InitIInv, NextIInv, PTL DEF Spec

\* No operation runs on a libmongoc session that does not exist any more,
\* whether or not the user waits between operations.
THEOREM RunsOnLiveSessionTheorem == Spec => []RunsOnLiveSession
  <1>1. IInv => RunsOnLiveSession
    BY DEF IInv, LifeInv
  <1>2. QED
    BY <1>1, IInvTheorem, PTL

\* For a user who waits, no libmongoc session outlives its connection's stay
\* outside the pool.
THEOREM NoLeakTheorem == ASSUME Sequential PROVE Spec => []NoLeak
  <1>1. IInv => NoLeak
    BY DEF IInv, SequentialInv
  <1>2. QED
    BY <1>1, IInvTheorem, PTL

\* For a user who waits, operations are causally ordered after every reply of
\* the session and every operation time the user asked for, except one asked
\* for while the session is being started.
THEOREM CausalOrderTheorem == ASSUME Sequential PROVE Spec => []CausalOrder
  <1>1. IInv => CausalOrder
    BY DEF IInv, SequentialInv, PromisedInv, CausalOrder, Kind
  <1>2. QED
    BY <1>1, IInvTheorem, PTL

\* An ended session stays ended: no closure of an operation or of end() that
\* is still under way can bring it back.
THEOREM EndedIsFinalTheorem == Spec => EndedIsFinal
  <1>1. IInv /\ [Next]_vars => [Kind("ended") => Kind("ended")']_vars
    <2> SUFFICES ASSUME IInv, Next, Kind("ended") PROVE Kind("ended")'
      BY DEF vars, Kind
    <2>1. ASSUME NEW o \in Ops, Started(o) PROVE FALSE
      BY <2>1 DEF IInv, LifeInv, Quiet, InFlight, Started
    <2>2. ASSUME NEW o \in Ops, Issue(o) \/ StartSession(o) \/ StartFails(o) \/ Run(o)
          PROVE  UNCHANGED state
      BY <2>2 DEF Issue, StartSession, StartFails, Run
    <2>3. ASSUME NEW o \in Ops, NEW reply \in [Clocks -> Stamps], Reply(o, reply)
          PROVE  UNCHANGED state
      BY <2>3 DEF Reply
    <2>4. ASSUME NEW c \in Clocks, NEW t \in Times, AdvanceTime(c, t)
          PROVE  UNCHANGED state
      BY <2>4 DEF AdvanceTime
    <2>5. CASE End
      BY <2>5 DEF End, Kind
    <2>6. CASE EndRuns
      BY <2>6 DEF EndRuns, Kind
    <2>7. QED
      BY <2>1, <2>2, <2>3, <2>4, <2>5, <2>6 DEF Next, Kind
  <1>2. QED
    BY <1>1, IInvTheorem, PTL DEF Spec, EndedIsFinal
=============================================================================
