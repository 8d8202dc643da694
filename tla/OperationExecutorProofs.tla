---------------------- MODULE OperationExecutorProofs ----------------------
(***************************************************************************)
(* Safety of OperationExecutor for any number of workers, operations,      *)
(* cursors and closes: bodies run once, connections are held by the living *)
(* and a closed client is quiet.                                           *)
(***************************************************************************)
EXTENDS OperationExecutor, SequenceTheorems, TLAPS

\* What is queued waits for a worker, once; nothing is queued after shutdown.
QueueInv ==
    /\ \A i \in DOMAIN queue : future[queue[i]] = "queued"
    /\ \A i, j \in DOMAIN queue : queue[i] = queue[j] => i = j
    /\ ~active => queue = <<>>

\* A worker's item is under way, and no other worker has it; only a close has
\* more to do than to run.
WorkerInv ==
    /\ \A k \in Workers : worker[k] # Idle => future[worker[k]] \in {"running", "draining"}
    /\ \A j, k \in Workers : worker[j] = worker[k] => j = k \/ worker[k] = Idle
    /\ \A w \in Work : future[w] \in {"draining", "shutdown"} => w.kind = "close"

\* The body of an operation ran only if a worker has, or had, its item.
RunsInv ==
    \A w \in Work : IsOperation(w) =>
        /\ future[w] \in {"none", "queued", "resubmit"} => runs[w] = 0
        /\ future[w] = "succeeded" => runs[w] = 1

\* A cursor exists once its creation succeeded, and only then is it used.
CursorInv ==
    /\ \A c \in Cursors : cursor[c] # "none" <=> future[Creation(c)] = "succeeded"
    /\ \A w \in Work : w.kind \in {"next", "kill"} /\ future[w] # "none" =>
          future[Creation(w.id)] = "succeeded"

\* Connections are gone before threads are, and both before anybody is told.
CloseInv ==
    /\ phase = "closed" => held = {}
    /\ ~active => phase = "closed"
    /\ \A w \in Work : future[w] = "shutdown" => phase = "closed"
    /\ \A s \in SyncCloses : sync[s] \in {"shutdown", "succeeded"} => phase = "closed"
    /\ (\E w \in Work : w.kind = "close" /\ future[w] = "succeeded")
          \/ (\E s \in SyncCloses : sync[s] = "succeeded")
       => wasClosed /\ ~active /\ \A k \in Workers : worker[k] = Idle

\* The inductive invariant.
IInv ==
    /\ TypeOK /\ QueueInv /\ WorkerInv /\ RunsInv /\ CursorInv /\ CloseInv
    /\ HeldByTheLiving

-----------------------------------------------------------------------------
(* Work items *)

\* All that the proofs use about work items.
LEMMA WorkFacts ==
    /\ \A w \in Work : w # Idle /\ w.kind \in {"command", "create", "kill", "next", "close"}
    /\ \A w \in Work : w.kind \in {"create", "kill", "next"} => w.id \in Cursors
    /\ \A w \in Work : w.kind = "create" => w = Creation(w.id)
    /\ \A c \in Cursors : Creation(c) \in Work /\ Creation(c).kind = "create" /\ Creation(c).id = c
  BY ExecutorBounds DEF Work, Idle, Creation

LEMMA IdleIsNoWork == Idle \notin Work /\ Idle.kind = "idle"
  BY DEF Work, Idle

\* The queue after each operation on it.
LEMMA AppendFacts ==
    ASSUME NEW q \in Seq(Work), NEW w \in Work
    PROVE  /\ Append(q, w) \in Seq(Work)
           /\ DOMAIN q = 1 .. Len(q) /\ DOMAIN Append(q, w) = 1 .. Len(q) + 1
           /\ \A i \in DOMAIN q : Append(q, w)[i] = q[i]
           /\ Append(q, w)[Len(q) + 1] = w
           /\ Len(q) \in Nat
  OBVIOUS

LEMMA TailFacts ==
    ASSUME NEW q \in Seq(Work), q # <<>>
    PROVE  /\ Head(q) \in Work /\ Head(q) = q[1] /\ 1 \in DOMAIN q
           /\ Tail(q) \in Seq(Work)
           /\ \A i \in DOMAIN Tail(q) : Tail(q)[i] = q[i + 1] /\ i + 1 \in DOMAIN q /\ i + 1 # 1
  OBVIOUS

LEMMA InQueue ==
    ASSUME TypeOK, NEW i \in DOMAIN queue
    PROVE  queue[i] \in Work
  BY DEF TypeOK

-----------------------------------------------------------------------------
(* The initial state *)

LEMMA InitIInv == Init => IInv
  <1> SUFFICES ASSUME Init PROVE IInv
    OBVIOUS
  <1>1. TypeOK
    <2>1. queue \in Seq(Work) /\ held \subseteq Work /\ killing \subseteq Cursors
      BY DEF Init
    <2>2. worker \in [Workers -> Work \cup {Idle}] /\ runs \in [Work -> 0 .. 1]
      BY DEF Init
    <2>3. QED
      BY <2>1, <2>2 DEF Init, TypeOK
  <1>2. QueueInv /\ RunsInv /\ WorkerInv
    BY WorkFacts DEF Init, QueueInv, RunsInv, WorkerInv, IsOperation
  <1>3. CursorInv /\ CloseInv
    BY WorkFacts DEF Init, CursorInv, CloseInv
  <1>4. HeldByTheLiving
    BY WorkFacts DEF Init, HeldByTheLiving
  <1>5. QED
    BY <1>1, <1>2, <1>3, <1>4 DEF IInv

-----------------------------------------------------------------------------
(* Users and event loops *)

\* An item that has not run is queued, or fails because the pool is shut down.
LEMMA ExecuteStep ==
    ASSUME IInv, NEW w \in Work, Execute(w), future[w] \in {"none", "resubmit"},
           w.kind \in {"next", "kill"} => future[Creation(w.id)] = "succeeded",
           wasClosed' \in BOOLEAN, wasClosed => wasClosed',
           UNCHANGED <<active, worker, poolVars, cursorVars, runs, sync>>
    PROVE  IInv'
  <1> USE DEF IInv
  <1>1. \E f \in {"queued", "failed"} : future' = [future EXCEPT ![w] = f]
    BY DEF Execute
  <1>2. \A v \in Work : v # w => future'[v] = future[v]
    BY <1>1 DEF TypeOK
  <1>3. future'[w] \in {"queued", "failed"} /\ (active => future'[w] = "queued")
    BY DEF Execute, TypeOK
  <1>4. TypeOK'
    <2>1. queue \in Seq(Work) /\ (queue' = Append(queue, w) \/ queue' = queue)
      BY DEF Execute, TypeOK
    <2>2. queue' \in Seq(Work)
      BY <2>1, AppendFacts
    <2>3. QED
      BY <1>1, <2>2 DEF TypeOK, poolVars, cursorVars
  <1>5. QueueInv'
    <2>1. CASE active
      <3>1. queue' = Append(queue, w) /\ queue \in Seq(Work)
        BY <2>1 DEF Execute, TypeOK
      <3>2. \A i \in DOMAIN queue : queue[i] \in Work /\ queue[i] # w
        BY InQueue DEF QueueInv
      <3>3. QED
        BY <1>2, <1>3, <2>1, <3>1, <3>2, AppendFacts DEF QueueInv
    <2>2. CASE ~active
      BY <2>2 DEF Execute, QueueInv, TypeOK
    <2>3. QED
      BY <2>1, <2>2
  <1>6. WorkerInv'
    BY <1>1, <1>2, <1>3 DEF WorkerInv, TypeOK
  <1>7. RunsInv'
    BY <1>2, <1>3 DEF RunsInv
  <1>8. CursorInv'
    BY <1>2, <1>3, WorkFacts DEF CursorInv, cursorVars
  <1>9. CloseInv'
    BY <1>2, <1>3 DEF CloseInv, poolVars
  <1>10. HeldByTheLiving'
    BY DEF HeldByTheLiving, poolVars, cursorVars
  <1>11. QED
    BY <1>4, <1>5, <1>6, <1>7, <1>8, <1>9, <1>10

LEMMA SubmitStep ==
    ASSUME IInv, NEW w \in Work, Submit(w)
    PROVE  IInv'
  <1>1. future[w] = "none"
        /\ (w.kind \in {"next", "kill"} => future[Creation(w.id)] = "succeeded")
    BY DEF Submit, CanSubmit, Creation
  <1>2. wasClosed' \in BOOLEAN /\ (wasClosed => wasClosed')
    BY DEF Submit, IInv, TypeOK
  <1>3. QED
    BY <1>1, <1>2, ExecuteStep DEF Submit

LEMMA ResubmitStep ==
    ASSUME IInv, NEW w \in Work, Resubmit(w)
    PROVE  IInv'
  <1>1. future[w] = "resubmit"
        /\ (w.kind \in {"next", "kill"} => future[Creation(w.id)] = "succeeded")
    BY DEF Resubmit, IInv, CursorInv
  <1>2. QED
    BY <1>1, ExecuteStep DEF Resubmit, IInv, TypeOK

-----------------------------------------------------------------------------
(* Workers *)

LEMMA StartStep ==
    ASSUME IInv, NEW k \in Workers, Start(k)
    PROVE  IInv'
  <1> USE DEF IInv
  <1> DEFINE w == Head(queue)
  <1>1. w \in Work /\ w # Idle /\ future[w] = "queued" /\ w = queue[1] /\ 1 \in DOMAIN queue
    BY TailFacts, WorkFacts DEF Start, TypeOK, QueueInv
  <1>2. /\ future'[w] = "running" /\ future' \in [Work -> {"none", "queued", "running", "resubmit",
                                        "draining", "shutdown", "succeeded", "failed"}]
        /\ \A v \in Work : v # w => future'[v] = future[v]
    BY <1>1 DEF Start, TypeOK
  <1>3. /\ worker'[k] = w /\ worker' \in [Workers -> Work \cup {Idle}]
        /\ \A j \in Workers : j # k => worker'[j] = worker[j]
        /\ worker[k] = Idle
    BY <1>1 DEF Start, TypeOK
  <1>4. TypeOK'
    BY <1>2, <1>3, TailFacts DEF Start, TypeOK, poolVars, cursorVars
  <1>5. QueueInv'
    <2>1. \A i \in DOMAIN queue' : queue'[i] = queue[i + 1] /\ i + 1 \in DOMAIN queue
                                  /\ i + 1 # 1 /\ queue'[i] \in Work
      BY TailFacts, InQueue DEF Start, TypeOK
    <2>2. \A i, j \in DOMAIN queue' : i \in Nat /\ j \in Nat /\ (i + 1 = j + 1 => i = j)
      BY TailFacts DEF Start, TypeOK
    <2>3. \A i \in DOMAIN queue' : queue'[i] # w
      BY <1>1, <2>1 DEF QueueInv
    <2>4. active' /\ active
      BY DEF Start, QueueInv, TypeOK
    <2>5. QED
      BY <1>2, <2>1, <2>2, <2>3, <2>4 DEF QueueInv
  <1>6. WorkerInv'
    <2>1. \A j \in Workers : worker[j] # w
      BY <1>1 DEF WorkerInv
    <2>2. QED
      BY <1>1, <1>2, <1>3, <2>1 DEF WorkerInv, TypeOK
  <1>7. RunsInv'
    BY <1>2 DEF RunsInv, Start
  <1>8. CursorInv'
    BY <1>1, <1>2, WorkFacts DEF CursorInv, Start, cursorVars
  <1>9. CloseInv'
    BY <1>1, <1>2, <1>3 DEF CloseInv, Start, poolVars, QueueInv, TypeOK
  <1>10. HeldByTheLiving'
    <2>1. IsOperation(w) => runs[w] = 0
      BY <1>1 DEF RunsInv
    <2>2. \A v \in Work : (\E j \in Workers : worker'[j] = v /\ IsOperation(v) /\ runs[v] = 1)
                          <=> (\E j \in Workers : worker[j] = v /\ IsOperation(v) /\ runs[v] = 1)
      BY <1>1, <1>3, <2>1, WorkFacts
    <2>3. QED
      BY <2>2 DEF HeldByTheLiving, Start, poolVars, cursorVars
  <1>11. QED
    BY <1>4, <1>5, <1>6, <1>7, <1>8, <1>9, <1>10

\* A worker whose item is w gives it up with outcome f.
GivesUp(k, w, f) ==
    /\ w = worker[k] /\ Free(k) /\ UNCHANGED execVars
    /\ f \in {"resubmit", "shutdown", "succeeded", "failed"}
    /\ future' = [future EXCEPT ![w] = f]

\* Whatever its outcome, the queue and the other workers are as they were.
LEMMA GivesUpFrame ==
    ASSUME IInv, NEW k \in Workers, NEW w \in Work, NEW f, GivesUp(k, w, f),
           f = "shutdown" => w.kind = "close"
    PROVE  /\ QueueInv' /\ WorkerInv'
           /\ future' \in [Work -> {"none", "queued", "running", "resubmit", "draining",
                                   "shutdown", "succeeded", "failed"}]
           /\ worker' \in [Workers -> Work \cup {Idle}] /\ queue' \in Seq(Work) /\ active' \in BOOLEAN
           /\ future'[w] = f /\ \A v \in Work : v # w => future'[v] = future[v]
           /\ worker'[k] = Idle /\ \A j \in Workers : j # k => worker'[j] = worker[j]
           /\ \A j \in Workers : worker'[j] # w
           /\ future[w] \in {"running", "draining"}
  <1> USE DEF IInv, GivesUp, Free, execVars
  <1>1. w # Idle
    BY WorkFacts
  <1>2. future'[w] = f /\ \A v \in Work : v # w => future'[v] = future[v]
    BY DEF TypeOK
  <1>3. worker'[k] = Idle /\ \A j \in Workers : j # k => worker'[j] = worker[j]
    BY DEF TypeOK
  <1>4. future[w] \in {"running", "draining"}
    BY <1>1 DEF WorkerInv
  <1>5. \A j \in Workers : worker'[j] # w
    BY <1>1, <1>3 DEF WorkerInv
  <1>6. QueueInv'
    BY <1>2, <1>4, InQueue DEF QueueInv
  <1>7. WorkerInv'
    BY <1>1, <1>2, <1>3, <1>5 DEF WorkerInv, TypeOK
  <1>8. QED
    BY <1>2, <1>3, <1>4, <1>5, <1>6, <1>7 DEF TypeOK

\* A worker is inside the body of operation v.
InBody(v) == \E k \in Workers : worker[k] = v /\ IsOperation(v) /\ runs[v] = 1

\* HeldByTheLiving item by item, of a state and of its successor.
LEMMA HeldFacts ==
    ASSUME HeldByTheLiving, NEW v \in Work
    PROVE  v \in held <=> InBody(v) \/ (v.kind = "create" /\ cursor[v.id] = "open")
  BY DEF HeldByTheLiving, InBody

LEMMA HeldNext ==
    ASSUME held' \subseteq Work,
           \A v \in Work : v \in held' <=>
               InBody(v)' \/ (v.kind = "create" /\ cursor'[v.id] = "open")
    PROVE  HeldByTheLiving'
  BY DEF HeldByTheLiving, InBody

\* The item that is given up is the only one whose body ends.
LEMMA GivesUpBody ==
    ASSUME IInv, NEW k \in Workers, NEW w \in Work, NEW f, GivesUp(k, w, f),
           f = "shutdown" => w.kind = "close", UNCHANGED runs
    PROVE  \A v \in Work : InBody(v)' <=> InBody(v) /\ v # w
  <1>1. w = worker[k] /\ Idle \notin Work
    BY IdleIsNoWork DEF GivesUp
  <1>2. QED
    BY <1>1, GivesUpFrame DEF InBody

\* An item whose worker has it now cannot have succeeded before, and no close
\* has succeeded while a worker has an item.
LEMMA BusyFacts ==
    ASSUME IInv, NEW k \in Workers, worker[k] \in Work
    PROVE  /\ worker[k] # Idle /\ future[worker[k]] \in {"running", "draining"}
           /\ \A v \in Work : v.kind = "close" => future[v] # "succeeded"
           /\ \A s \in SyncCloses : sync[s] # "succeeded"
  <1>1. worker[k] # Idle
    BY WorkFacts
  <1>2. QED
    BY <1>1 DEF IInv, WorkerInv, CloseInv

LEMMA WorkerHasWork ==
    ASSUME IInv, NEW k \in Workers, worker[k] \in held \/ worker[k].kind # "idle"
    PROVE  worker[k] \in Work
  BY IdleIsNoWork DEF IInv, TypeOK

LEMMA CheckOutStep ==
    ASSUME IInv, NEW k \in Workers, CheckOut(k)
    PROVE  IInv'
  <1> USE DEF IInv
  <1> DEFINE w == worker[k]
  <1>1. w \in Work /\ IsOperation(w) /\ future[w] = "running" /\ w \notin held
    BY WorkerHasWork DEF CheckOut, IsOperation
  <1>2. runs[w] = 0
    BY <1>1 DEF HeldByTheLiving, TypeOK
  <1>3. CASE phase = "open" /\ held' = held \cup {w} /\ runs' = [runs EXCEPT ![w] = @ + 1]
             /\ UNCHANGED <<worker, future>>
    <2> USE DEF CheckOut, execVars, cursorVars
    <2>1. runs' \in [Work -> 0 .. 1] /\ runs'[w] = 1 /\ \A v \in Work : v # w => runs'[v] = runs[v]
      BY <1>1, <1>2, <1>3 DEF TypeOK
    <2>2. TypeOK'
      BY <1>1, <1>3, <2>1 DEF TypeOK
    <2>3. QueueInv' /\ WorkerInv' /\ CursorInv'
      BY <1>3 DEF QueueInv, WorkerInv, CursorInv
    <2>4. RunsInv'
      BY <1>1, <1>3, <2>1 DEF RunsInv
    <2>5. CloseInv'
      BY <1>3 DEF CloseInv
    <2>6. HeldByTheLiving'
      BY <1>1, <1>2, <1>3, <2>1 DEF HeldByTheLiving
    <2>7. QED
      BY <2>2, <2>3, <2>4, <2>5, <2>6
  <1>4. CASE UNCHANGED <<held, runs>> /\ Free(k)
             /\ \E f \in {"resubmit", "failed"} : future' = [future EXCEPT ![w] = f]
    <2>1. PICK f \in {"resubmit", "failed"} : GivesUp(k, w, f)
      BY <1>4 DEF GivesUp, CheckOut
    <2> USE <2>1, <1>1, GivesUpFrame DEF CheckOut, cursorVars
    <2>2. TypeOK'
      BY <1>4 DEF TypeOK
    <2>3. QueueInv' /\ WorkerInv'
      OBVIOUS
    <2>4. RunsInv'
      BY <1>2, <1>4 DEF RunsInv
    <2>5. CursorInv'
      BY WorkFacts DEF CursorInv
    <2>6. CloseInv'
      BY <1>4, BusyFacts DEF CloseInv, execVars
    <2>7. HeldByTheLiving'
      <3>1. ~InBody(w)
        BY <1>2 DEF InBody
      <3>2. \A v \in Work : InBody(v)' <=> InBody(v)
        BY <1>4, <3>1, GivesUpBody
      <3>3. QED
        BY <1>4, <3>2, HeldFacts, HeldNext DEF TypeOK
    <2>8. QED
      BY <2>2, <2>3, <2>4, <2>5, <2>6, <2>7
  <1>5. QED
    BY <1>3, <1>4 DEF CheckOut

LEMMA FinishStep ==
    ASSUME IInv, NEW k \in Workers, Finish(k)
    PROVE  IInv'
  <1> USE DEF IInv
  <1> DEFINE w == worker[k]
  <1>1. w \in Work /\ w \in held /\ w.kind \in {"command", "create"}
    BY WorkerHasWork DEF Finish
  <1>2. GivesUp(k, w, "succeeded") /\ UNCHANGED <<runs, phase, killing, sync, wasClosed>>
    BY DEF GivesUp, Finish
  <1> USE <1>1, <1>2, GivesUpFrame
  <1>3. w.kind = "create" => w = Creation(w.id) /\ w.id \in Cursors /\ cursor[w.id] = "none"
    <2>1. future[w] # "succeeded"
      BY BusyFacts
    <2>2. QED
      BY <2>1, WorkFacts DEF CursorInv, TypeOK
  <1>4. runs[w] = 1 /\ InBody(w)
    BY <1>3, HeldFacts DEF InBody
  <1>5. \A v \in Work : InBody(v)' <=> InBody(v) /\ v # w
    BY GivesUpBody
  <1>6. TypeOK'
    BY <1>3 DEF TypeOK, Finish
  <1>7. QueueInv' /\ WorkerInv'
    OBVIOUS
  <1>8. RunsInv'
    BY <1>4 DEF RunsInv
  <1>9. CursorInv'
    BY <1>3, WorkFacts DEF CursorInv, Finish, TypeOK
  <1>10. CloseInv'
    BY BusyFacts DEF CloseInv, Finish, execVars, TypeOK
  <1>11. HeldByTheLiving'
    <2>1. CASE w.kind = "command"
      BY <1>5, <2>1, HeldFacts, HeldNext DEF Finish, TypeOK
    <2>2. CASE w.kind = "create"
      <3>1. cursor' = [cursor EXCEPT ![w.id] = "open"] /\ held' = held
        BY <2>2 DEF Finish
      <3>2. \A v \in Work : v.kind = "create" => (cursor'[v.id] = "open" <=> cursor[v.id] = "open" \/ v = w)
        BY <1>3, <2>2, <3>1, WorkFacts DEF TypeOK
      <3>3. QED
        BY <1>5, <2>2, <3>1, <3>2, HeldFacts, HeldNext DEF TypeOK
    <2>3. QED
      BY <2>1, <2>2
  <1>12. QED
    BY <1>6, <1>7, <1>8, <1>9, <1>10, <1>11

LEMMA FailStep ==
    ASSUME IInv, NEW k \in Workers, Fail(k)
    PROVE  IInv'
  <1> USE DEF IInv
  <1> DEFINE w == worker[k]
  <1>1. w \in Work /\ w \in held
    BY WorkerHasWork DEF Fail
  <1>2. GivesUp(k, w, "failed") /\ held' = held \ {w}
        /\ UNCHANGED <<runs, phase, killing, cursor, sync, wasClosed>>
    BY DEF GivesUp, Fail, cursorVars
  <1> USE <1>1, <1>2, GivesUpFrame
  <1>3. w.kind = "create" => cursor[w.id] = "none"
    <2>1. future[w] # "succeeded"
      BY BusyFacts
    <2>2. QED
      BY <2>1, WorkFacts DEF CursorInv, TypeOK
  <1>4. TypeOK' /\ RunsInv'
    BY DEF TypeOK, RunsInv
  <1>5. CursorInv'
    <2>1. \A v \in Work : future'[v] = "succeeded" <=> future[v] = "succeeded"
      BY BusyFacts
    <2>2. \A v \in Work : future[v] = "none" => future'[v] = "none"
      BY BusyFacts
    <2>3. QED
      BY <2>1, <2>2, BusyFacts, WorkFacts DEF CursorInv
  <1>6. CloseInv'
    BY BusyFacts DEF CloseInv, execVars, GivesUp
  <1>7. HeldByTheLiving'
    BY <1>3, GivesUpBody, HeldFacts, HeldNext DEF TypeOK
  <1>8. QED
    BY <1>4, <1>5, <1>6, <1>7

\* next() and kill(): what they do to cursor c of their own.
LEMMA CursorStep ==
    ASSUME IInv, NEW k \in Workers, NEW w \in Work, NEW f \in {"succeeded", "failed"},
           GivesUp(k, w, f), w.kind \in {"next", "kill"},
           \/ UNCHANGED <<held, cursor>>
           \/ /\ cursor' = [cursor EXCEPT ![w.id] = "dead"]
              /\ held' = held \ {Creation(w.id)},
           killing' \subseteq Cursors, UNCHANGED <<phase, runs, sync, wasClosed>>
    PROVE  IInv'
  <1> USE DEF IInv
  <1> USE GivesUpFrame
  <1>1. w.id \in Cursors /\ future[Creation(w.id)] = "succeeded" /\ Creation(w.id) \in Work
    BY WorkFacts DEF CursorInv
  <1>2. ~IsOperation(w) /\ cursor[w.id] # "none"
    BY <1>1 DEF IsOperation, CursorInv
  <1>3. TypeOK' /\ RunsInv'
    <2>1. cursor' \in [Cursors -> {"none", "open", "dead"}] /\ held' \subseteq Work
      BY <1>1 DEF TypeOK
    <2>2. TypeOK'
      BY <2>1 DEF TypeOK
    <2>3. RunsInv'
      BY <1>2 DEF RunsInv
    <2>4. QED
      BY <2>2, <2>3
  <1>4. \A c \in Cursors : cursor'[c] # "none" <=> cursor[c] # "none"
    BY <1>1, <1>2 DEF TypeOK
  <1>5. CursorInv'
    BY <1>1, <1>4, WorkFacts DEF CursorInv
  <1>6. CloseInv'
    BY BusyFacts DEF CloseInv, execVars, GivesUp
  <1>7. HeldByTheLiving'
    <2>1. \A v \in Work : InBody(v)' <=> InBody(v)
      BY <1>2, GivesUpBody DEF InBody
    <2>2. CASE UNCHANGED <<held, cursor>>
      BY <2>1, <2>2, HeldFacts, HeldNext DEF TypeOK
    <2>3. CASE cursor' = [cursor EXCEPT ![w.id] = "dead"] /\ held' = held \ {Creation(w.id)}
      <3>1. ~InBody(Creation(w.id))
        BY <1>1, WorkFacts DEF InBody, WorkerInv
      <3>2. \A v \in Work : v.kind = "create" =>
               (cursor'[v.id] = "open" <=> cursor[v.id] = "open" /\ v # Creation(w.id))
        BY <1>1, <2>3, WorkFacts DEF TypeOK
      <3>3. QED
        BY <1>1, <2>1, <2>3, <3>1, <3>2, WorkFacts, HeldFacts, HeldNext DEF TypeOK
    <2>4. QED
      BY <2>2, <2>3
  <1>8. QED
    BY <1>3, <1>5, <1>6, <1>7

LEMMA NextEndsStep ==
    ASSUME IInv, NEW k \in Workers, NextEnds(k)
    PROVE  IInv'
  <1>1. worker[k] \in Work /\ worker[k].kind = "next"
    BY WorkerHasWork DEF NextEnds
  <1>2. \E f \in {"succeeded", "failed"} : GivesUp(k, worker[k], f)
    BY DEF NextEnds, GivesUp
  <1>3. QED
    BY <1>1, <1>2, CursorStep DEF NextEnds, poolVars, cursorVars, IInv, TypeOK

LEMMA NextReturnsStep ==
    ASSUME IInv, NEW k \in Workers, NextReturns(k)
    PROVE  IInv'
  <1>1. worker[k] \in Work /\ worker[k].kind = "next"
    BY WorkerHasWork DEF NextReturns
  <1>2. GivesUp(k, worker[k], "succeeded")
    BY DEF NextReturns, GivesUp
  <1>3. QED
    BY <1>1, <1>2, CursorStep DEF NextReturns, IInv, TypeOK

LEMMA KillBeginsStep ==
    ASSUME IInv, NEW k \in Workers, KillBegins(k)
    PROVE  IInv'
  <1>1. worker[k] \in Work /\ worker[k].kind = "kill"
    BY WorkerHasWork DEF KillBegins
  <1>2. killing' \subseteq Cursors
    BY <1>1, WorkFacts DEF KillBegins, IInv, TypeOK
  <1>3. UNCHANGED <<active, queue, worker, future, phase, held, cursor, runs, sync, wasClosed>>
    BY DEF KillBegins, execVars, poolVars
  <1>4. TypeOK' /\ QueueInv' /\ WorkerInv' /\ RunsInv'
    BY <1>2, <1>3 DEF IInv, TypeOK, QueueInv, WorkerInv, RunsInv
  <1>5. CursorInv' /\ CloseInv' /\ HeldByTheLiving'
    BY <1>3 DEF IInv, CursorInv, CloseInv, HeldByTheLiving
  <1>6. QED
    BY <1>4, <1>5 DEF IInv

LEMMA KillEndsStep ==
    ASSUME IInv, NEW k \in Workers, KillEnds(k)
    PROVE  IInv'
  <1>1. worker[k] \in Work /\ worker[k].kind = "kill"
    BY WorkerHasWork DEF KillEnds
  <1>2. GivesUp(k, worker[k], "succeeded")
    BY DEF KillEnds, GivesUp
  <1>3. QED
    BY <1>1, <1>2, CursorStep DEF KillEnds, IInv, TypeOK

-----------------------------------------------------------------------------
(* close and syncClose *)

\* The pool's close() begins: no connection moves.
LEMMA CloseBeginsStep ==
    ASSUME IInv, NEW k \in Workers, CloseBegins(k)
    PROVE  IInv'
  <1> USE DEF IInv
  <1> DEFINE w == worker[k]
  <1>1. w \in Work /\ w.kind = "close" /\ future[w] = "running" /\ ~IsOperation(w)
    BY WorkerHasWork DEF CloseBegins, IsOperation
  <1>2. CASE /\ phase = "open" /\ phase' = "closing" /\ UNCHANGED <<worker, wasClosed>>
             /\ future' = [future EXCEPT ![w] = "draining"]
    <2> USE DEF CloseBegins, execVars, cursorVars
    <2>1. future'[w] = "draining" /\ \A v \in Work : v # w => future'[v] = future[v]
      BY <1>1, <1>2 DEF TypeOK
    <2>2. TypeOK' /\ RunsInv'
      BY <1>1, <1>2, <2>1 DEF TypeOK, RunsInv
    <2>3. QueueInv'
      BY <1>1, <1>2, <2>1, InQueue DEF QueueInv
    <2>4. WorkerInv'
      BY <1>1, <1>2, <2>1, WorkFacts DEF WorkerInv, TypeOK
    <2>5. CursorInv'
      BY <1>1, <1>2, <2>1, WorkFacts DEF CursorInv
    <2>6. CloseInv'
      BY <1>1, <1>2, <2>1 DEF CloseInv
    <2>7. HeldByTheLiving'
      BY <1>2 DEF HeldByTheLiving
    <2>8. QED
      BY <2>2, <2>3, <2>4, <2>5, <2>6, <2>7
  <1>3. CASE phase # "open" /\ Complete(w, "failed") /\ Free(k) /\ UNCHANGED phase
    <2>1. GivesUp(k, w, "failed") /\ wasClosed' = TRUE
          /\ UNCHANGED <<held, killing, cursor, runs, sync, active, queue>>
      BY <1>1, <1>3 DEF GivesUp, Complete, CloseBegins, execVars, cursorVars
    <2> USE <1>1, <1>3, <2>1, GivesUpFrame
    <2>2. TypeOK' /\ RunsInv'
      BY DEF TypeOK, RunsInv
    <2>3. CursorInv'
      BY WorkFacts DEF CursorInv
    <2>4. CloseInv'
      BY BusyFacts DEF CloseInv
    <2>5. HeldByTheLiving'
      BY GivesUpBody, HeldFacts, HeldNext DEF TypeOK, InBody
    <2>6. QED
      BY <2>2, <2>3, <2>4, <2>5
  <1>4. QED
    BY <1>2, <1>3 DEF CloseBegins

LEMMA CloseDrainedStep ==
    ASSUME IInv, NEW k \in Workers, CloseDrained(k)
    PROVE  IInv'
  <1> USE DEF IInv
  <1> DEFINE w == worker[k]
  <1>1. w \in Work /\ w.kind = "close" /\ ~IsOperation(w) /\ held = {}
    BY WorkerHasWork DEF CloseDrained, IsOperation
  <1>2. GivesUp(k, w, "shutdown") /\ phase' = "closed"
          /\ UNCHANGED <<held, killing, cursor, runs, sync, active, queue, wasClosed>>
    BY DEF GivesUp, CloseDrained, execVars, cursorVars
  <1> USE <1>1, <1>2, GivesUpFrame
  <1>3. TypeOK' /\ RunsInv'
    BY DEF TypeOK, RunsInv
  <1>4. CursorInv'
    BY WorkFacts DEF CursorInv
  <1>5. CloseInv'
    BY BusyFacts DEF CloseInv
  <1>6. HeldByTheLiving'
    BY GivesUpBody, HeldFacts, HeldNext DEF TypeOK, InBody
  <1>7. QED
    BY <1>3, <1>4, <1>5, <1>6

\* The thread pool is shut down, by close() or syncClose().
LEMMA ShutdownStep ==
    ASSUME IInv, active, active' = FALSE, CancelQueued, queue' = <<>>, phase = "closed",
           wasClosed' \in BOOLEAN, wasClosed => wasClosed',
           UNCHANGED <<worker, poolVars, cursorVars, runs, sync>>
    PROVE  IInv'
  <1> USE DEF IInv, poolVars, cursorVars
  <1>1. \A v \in Work : \/ future[v] = "queued" /\ future'[v] = "failed"
                        \/ future'[v] = future[v]
    BY DEF CancelQueued, QueueInv
  <1>2. TypeOK'
    <2>1. future' \in [Work -> {"none", "queued", "running", "resubmit", "draining",
                               "shutdown", "succeeded", "failed"}]
      BY <1>1 DEF TypeOK, CancelQueued
    <2>2. << >> \in Seq(Work)
      OBVIOUS
    <2>3. QED
      BY <2>1, <2>2 DEF TypeOK
  <1>3. QueueInv'
    BY DEF QueueInv
  <1>4. WorkerInv'
    BY <1>1 DEF WorkerInv, TypeOK
  <1>5. RunsInv'
    BY <1>1 DEF RunsInv
  <1>6. CursorInv'
    BY <1>1, WorkFacts DEF CursorInv
  <1>7. CloseInv'
    BY <1>1 DEF CloseInv
  <1>8. HeldByTheLiving'
    BY DEF HeldByTheLiving
  <1>9. QED
    BY <1>2, <1>3, <1>4, <1>5, <1>6, <1>7, <1>8

LEMMA JoinedStep ==
    ASSUME IInv, NEW w \in Work, Joined(w)
    PROVE  IInv'
  <1> USE DEF IInv, Joined, Complete, execVars, poolVars, cursorVars
  <1>1. w.kind = "close" /\ phase = "closed"
    BY DEF WorkerInv, CloseInv
  <1>2. future'[w] = "succeeded" /\ \A v \in Work : v # w => future'[v] = future[v]
    BY DEF TypeOK
  <1>3. TypeOK'
    BY DEF TypeOK
  <1>4. QueueInv' /\ WorkerInv'
    BY <1>2, InQueue DEF QueueInv, WorkerInv, TypeOK
  <1>5. RunsInv'
    BY <1>1, <1>2 DEF RunsInv, IsOperation
  <1>6. CursorInv'
    BY <1>1, <1>2, WorkFacts DEF CursorInv
  <1>7. CloseInv'
    BY <1>1, <1>2 DEF CloseInv
  <1>8. HeldByTheLiving'
    BY DEF HeldByTheLiving
  <1>9. QED
    BY <1>3, <1>4, <1>5, <1>6, <1>7, <1>8

\* The steps of syncClose() change the pool's phase and its own progress.
LEMMA SyncCloseStep ==
    ASSUME IInv, NEW s \in SyncCloses,
           SyncCloseBegins(s) \/ SyncCloseDrained(s) \/ SyncJoined(s)
    PROVE  IInv'
  <1> USE DEF IInv, SyncCloseBegins, SyncCloseDrained, SyncJoined, execVars, poolVars, cursorVars
  <1>1. TypeOK'
    BY DEF TypeOK
  <1>2. QueueInv' /\ WorkerInv' /\ RunsInv'
    BY DEF QueueInv, WorkerInv, RunsInv
  <1>3. CursorInv'
    BY DEF CursorInv
  <1>4. CloseInv'
    <2>1. CASE SyncCloseBegins(s)
      BY <2>1 DEF CloseInv, TypeOK
    <2>2. CASE SyncCloseDrained(s)
      BY <2>2 DEF CloseInv, TypeOK
    <2>3. CASE SyncJoined(s)
      BY <2>3 DEF CloseInv, TypeOK
    <2>4. QED
      BY <2>1, <2>2, <2>3
  <1>5. HeldByTheLiving'
    BY DEF HeldByTheLiving
  <1>6. QED
    BY <1>1, <1>2, <1>3, <1>4, <1>5

-----------------------------------------------------------------------------
(* The theorems *)

LEMMA NextIInv == IInv /\ [Next]_vars => IInv'
  <1> SUFFICES ASSUME IInv, [Next]_vars PROVE IInv'
    OBVIOUS
  <1>1. ASSUME NEW w \in Work, Submit(w) \/ Resubmit(w) \/ Joined(w) PROVE IInv'
    BY <1>1, SubmitStep, ResubmitStep, JoinedStep
  <1>2. ASSUME NEW w \in Work, Shutdown(w) PROVE IInv'
    <2>1. phase = "closed" /\ wasClosed' \in BOOLEAN /\ (wasClosed => wasClosed')
      BY <1>2 DEF Shutdown, IInv, CloseInv, TypeOK
    <2>2. QED
      BY <1>2, <2>1, ShutdownStep DEF Shutdown
  <1>3. ASSUME NEW s \in SyncCloses, SyncShutdown(s) PROVE IInv'
    <2>1. phase = "closed" /\ wasClosed' \in BOOLEAN /\ (wasClosed => wasClosed')
      BY <1>3 DEF SyncShutdown, IInv, CloseInv, TypeOK
    <2>2. QED
      BY <1>3, <2>1, ShutdownStep DEF SyncShutdown
  <1>4. ASSUME NEW k \in Workers, WorkerStep(k) \/ NextReturns(k) \/ Fail(k) PROVE IInv'
    BY <1>4, StartStep, CheckOutStep, FinishStep, NextEndsStep, KillBeginsStep, KillEndsStep,
       CloseBeginsStep, CloseDrainedStep, NextReturnsStep, FailStep DEF WorkerStep
  <1>5. CASE UNCHANGED vars
    <2>1. TypeOK' /\ QueueInv' /\ WorkerInv' /\ RunsInv'
      BY <1>5 DEF vars, IInv, TypeOK, QueueInv, WorkerInv, RunsInv
    <2>2. CursorInv' /\ CloseInv' /\ HeldByTheLiving'
      BY <1>5 DEF vars, IInv, CursorInv, CloseInv, HeldByTheLiving
    <2>3. QED
      BY <2>1, <2>2 DEF IInv
  <1>6. QED
    BY <1>1, <1>2, <1>3, <1>4, <1>5, SyncCloseStep DEF Next, Finished

\* The executor's invariant holds for all workers, operations and cursors.
THEOREM IInvTheorem == Spec => []IInv
  BY InitIInv, NextIInv, PTL DEF Spec

\* Type correctness of the executor.
THEOREM TypeCorrect == Spec => []TypeOK
  <1>1. IInv => TypeOK
    BY DEF IInv
  <1>2. QED
    BY <1>1, IInvTheorem, PTL

\* execute() and its resubmissions run the body of an operation at most once,
\* and exactly once if the operation's future succeeds.
THEOREM RunsOnceTheorem == Spec => []RunsOnce
  <1>1. IInv => RunsOnce
    BY DEF IInv, RunsOnce, RunsInv, TypeOK
  <1>2. QED
    BY <1>1, IInvTheorem, PTL

\* No error, resubmission or kill leaks a connection or takes one away early.
THEOREM HeldByTheLivingTheorem == Spec => []HeldByTheLiving
  <1>1. IInv => HeldByTheLiving
    BY DEF IInv
  <1>2. QED
    BY <1>1, IInvTheorem, PTL

\* After a successful close() or syncClose() nothing runs, waits or is open.
THEOREM ClosedIsQuietTheorem == Spec => []ClosedIsQuiet
  <1>1. ASSUME IInv PROVE ClosedIsQuiet
    <2> SUFFICES ASSUME \/ \E w \in Work : w.kind = "close" /\ future[w] = "succeeded"
                        \/ \E s \in SyncCloses : sync[s] = "succeeded"
                 PROVE  /\ wasClosed /\ phase = "closed" /\ held = {} /\ queue = <<>>
                        /\ \A k \in Workers : worker[k] = Idle
                        /\ \A c \in Cursors : cursor[c] # "open"
      BY DEF ClosedIsQuiet
    <2>1. wasClosed /\ ~active /\ (\A k \in Workers : worker[k] = Idle) /\ phase = "closed" /\ held = {}
      BY <1>1 DEF IInv, CloseInv
    <2>2. queue = <<>>
      BY <1>1, <2>1 DEF IInv, QueueInv
    <2>3. \A c \in Cursors : cursor[c] # "open"
      BY <1>1, <2>1, WorkFacts, HeldFacts DEF IInv
    <2>4. QED
      BY <2>1, <2>2, <2>3
  <1>2. QED
    BY <1>1, IInvTheorem, PTL

-----------------------------------------------------------------------------
(* The promise of the connection pool *)

\* One close waits for the pool to drain, of either kind, and only while the
\* pool is closing.
DrainInv ==
    /\ \A w \in Work : future[w] = "draining" => phase = "closing"
    /\ \A s \in SyncCloses : sync[s] = "draining" => phase = "closing"
    /\ \A v, w \in Work : future[v] = "draining" /\ future[w] = "draining" => v = w
    /\ \A r, s \in SyncCloses : sync[r] = "draining" /\ sync[s] = "draining" => r = s
    /\ \A w \in Work, s \in SyncCloses : ~(future[w] = "draining" /\ sync[s] = "draining")

\* No step but the beginning of a close makes one wait.
NoneMore ==
    /\ \A w \in Work : future'[w] = "draining" => future[w] = "draining"
    /\ \A s \in SyncCloses : sync'[s] = "draining" => sync[s] = "draining"

\* The steps that leave the pool's phase alone.
LEMMA OtherSteps ==
    ASSUME IInv,
           \/ \E w \in Work : Submit(w) \/ Resubmit(w) \/ Shutdown(w) \/ Joined(w)
           \/ \E k \in Workers : \/ Start(k) \/ CheckOut(k) \/ Finish(k) \/ NextEnds(k) \/ KillBegins(k)
                                 \/ KillEnds(k) \/ NextReturns(k) \/ Fail(k)
           \/ \E s \in SyncCloses : SyncShutdown(s) \/ SyncJoined(s)
    PROVE  NoneMore /\ UNCHANGED phase
  <1> USE DEF NoneMore, execVars, poolVars, cursorVars
  <1>1. /\ future \in [Work -> {"none", "queued", "running", "resubmit", "draining",
                                "shutdown", "succeeded", "failed"}]
        /\ sync \in [SyncCloses -> {"none", "draining", "shutdown", "succeeded", "failed"}]
    BY DEF IInv, TypeOK
  <1>2. ASSUME NEW w \in Work, Submit(w) \/ Resubmit(w) PROVE NoneMore /\ UNCHANGED phase
    BY <1>1, <1>2 DEF Submit, Resubmit, Execute
  <1>3. ASSUME NEW w \in Work, Shutdown(w) \/ Joined(w) PROVE NoneMore /\ UNCHANGED phase
    BY <1>1, <1>3 DEF Shutdown, CancelQueued, Joined, Complete
  <1>4. ASSUME NEW k \in Workers, Start(k) \/ CheckOut(k) \/ Finish(k) \/ Fail(k)
        PROVE  NoneMore /\ UNCHANGED phase
    BY <1>1, <1>4 DEF Start, CheckOut, Finish, Fail
  <1>5. ASSUME NEW k \in Workers, NextEnds(k) \/ NextReturns(k) PROVE NoneMore /\ UNCHANGED phase
    BY <1>1, <1>5 DEF NextEnds, NextReturns
  <1>6. ASSUME NEW k \in Workers, KillBegins(k) \/ KillEnds(k) PROVE NoneMore /\ UNCHANGED phase
    BY <1>1, <1>6 DEF KillBegins, KillEnds
  <1>7. ASSUME NEW s \in SyncCloses, SyncShutdown(s) \/ SyncJoined(s)
        PROVE  NoneMore /\ UNCHANGED phase
    BY <1>1, <1>7 DEF SyncShutdown, CancelQueued, SyncJoined
  <1>8. QED
    BY <1>2, <1>3, <1>4, <1>5, <1>6, <1>7

LEMMA DrainStep == IInv /\ DrainInv /\ [Next]_vars => DrainInv'
  <1> SUFFICES ASSUME IInv, DrainInv, [Next]_vars PROVE DrainInv'
    OBVIOUS
  <1>1. /\ future \in [Work -> {"none", "queued", "running", "resubmit", "draining",
                                "shutdown", "succeeded", "failed"}]
        /\ sync \in [SyncCloses -> {"none", "draining", "shutdown", "succeeded", "failed"}]
    BY DEF IInv, TypeOK
  <1>2. ASSUME NoneMore, UNCHANGED phase PROVE DrainInv'
    BY <1>2 DEF NoneMore, DrainInv
  <1>3. ASSUME NEW k \in Workers, CloseBegins(k) PROVE DrainInv'
    <2>1. worker[k] \in Work
      BY <1>3, WorkerHasWork DEF CloseBegins
    <2>2. QED
      BY <1>1, <1>3, <2>1 DEF CloseBegins, Complete, DrainInv
  <1>4. ASSUME NEW k \in Workers, CloseDrained(k) PROVE DrainInv'
    <2>1. worker[k] \in Work
      BY <1>4, WorkerHasWork DEF CloseDrained
    <2>2. QED
      BY <1>1, <1>4, <2>1 DEF CloseDrained, DrainInv
  <1>5. ASSUME NEW s \in SyncCloses, SyncCloseBegins(s) \/ SyncCloseDrained(s) PROVE DrainInv'
    BY <1>1, <1>5 DEF SyncCloseBegins, SyncCloseDrained, DrainInv
  <1>6. CASE UNCHANGED vars
    BY <1>6 DEF vars, DrainInv
  <1>7. QED
    BY <1>2, <1>3, <1>4, <1>5, <1>6, OtherSteps DEF Next, WorkerStep, Finished

LEMMA DrainTheorem == Spec => []DrainInv
  <1>1. Init => DrainInv
    BY DEF Init, DrainInv
  <1>2. QED
    BY <1>1, DrainStep, IInvTheorem, PTL DEF Spec

\* A step of the executor is a step of the promised pool or does not touch it.
LEMMA PoolStep == IInv /\ DrainInv /\ [Next]_vars => [Promise!Next]_Promise!vars
  <1> SUFFICES ASSUME IInv, DrainInv, [Next]_vars PROVE [Promise!Next]_Promise!vars
    OBVIOUS
  <1> USE DEF Promise!Next, Promise!vars, execVars, poolVars, cursorVars
  <1>1. held \subseteq Work /\ (held # {} => phase # "closed")
    BY DEF IInv, TypeOK, CloseInv
  <1>2. ASSUME NEW w, UNCHANGED phase, held' = held \ {w} PROVE [Promise!Next]_Promise!vars
    BY <1>1, <1>2 DEF Promise!Release
  <1>3. ASSUME NEW k \in Workers, CheckOut(k) PROVE [Promise!Next]_Promise!vars
    <2>1. worker[k] \in Work
      BY <1>3, WorkerHasWork, IdleIsNoWork DEF CheckOut, IsOperation
    <2>2. Promise!Cardinality(held) = Cardinality(held)
      BY DEF Promise!Cardinality, Cardinality
    <2>3. QED
      BY <1>3, <2>1, <2>2 DEF CheckOut, Promise!Acquire
  <1>4. ASSUME NEW k \in Workers, Finish(k) \/ Fail(k) \/ NextReturns(k) \/ KillEnds(k)
        PROVE  [Promise!Next]_Promise!vars
    BY <1>2, <1>4 DEF Finish, Fail, NextReturns, KillEnds
  <1>5. ASSUME NEW k \in Workers, CloseBegins(k) PROVE [Promise!Next]_Promise!vars
    BY <1>5 DEF CloseBegins, Promise!BeginClose
  <1>6. ASSUME NEW k \in Workers, CloseDrained(k) PROVE [Promise!Next]_Promise!vars
    <2>1. worker[k] \in Work
      BY <1>6, WorkerHasWork, IdleIsNoWork DEF CloseDrained
    <2>2. QED
      BY <1>6, <2>1 DEF CloseDrained, DrainInv, Promise!FinishClose
  <1>7. ASSUME NEW s \in SyncCloses, SyncCloseBegins(s) \/ SyncCloseDrained(s)
        PROVE  [Promise!Next]_Promise!vars
    BY <1>7 DEF SyncCloseBegins, SyncCloseDrained, DrainInv, Promise!BeginClose, Promise!FinishClose
  <1>8. ASSUME NEW k \in Workers, Start(k) \/ NextEnds(k) \/ KillBegins(k)
        PROVE  UNCHANGED <<phase, held>>
    BY <1>8 DEF Start, NextEnds, KillBegins
  <1>9. ASSUME NEW w \in Work, Submit(w) \/ Resubmit(w) \/ Shutdown(w) \/ Joined(w)
        PROVE  UNCHANGED <<phase, held>>
    BY <1>9 DEF Submit, Resubmit, Shutdown, Joined
  <1>10. ASSUME NEW s \in SyncCloses, SyncShutdown(s) \/ SyncJoined(s)
         PROVE  UNCHANGED <<phase, held>>
    BY <1>10 DEF SyncShutdown, SyncJoined
  <1>11. CASE UNCHANGED vars
    BY <1>11 DEF vars
  <1>12. QED
    BY <1>3, <1>4, <1>5, <1>6, <1>7, <1>8, <1>9, <1>10, <1>11 DEF Next, WorkerStep, Finished

\* Operation.swift and MongoClient.swift use the connection pool as
\* PoolPromise allows: no check-out once a close began, none beyond its size,
\* no check-in after it was destroyed, and one destruction.
THEOREM RespectsPromiseTheorem == Spec => RespectsPromise
  <1>1. Init => Promise!Init
    BY DEF Init, Promise!Init
  <1>2. QED
    BY <1>1, IInvTheorem, DrainTheorem, PoolStep, PTL DEF Spec, Promise!Spec, RespectsPromise

=============================================================================
