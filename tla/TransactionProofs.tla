------------------------- MODULE TransactionProofs -------------------------
(***************************************************************************)
(* The safety of Transaction for any number of transactions and any mix of *)
(* lost and late commands: what commitTransaction reports is true, an      *)
(* aborted transaction is never committed, and repeated commits ask for    *)
(* majority.  While no command arrives late, also: a failed commit is not  *)
(* in force, and end() leaves no transaction open but known ones.          *)
(***************************************************************************)
EXTENDS Transaction, TLAPS

USE TransactionAssumption

\* What is known of the call in progress.
LEMMA CallShape ==
    ASSUME TypeOK
    PROVE  \/ call = NoCall /\ call.kind = "none"
           \/ /\ call # NoCall
              /\ call \in [kind : {"op", "commit", "abort", "end"}, msg : Msgs, try : 1 .. 2, answer : Answers]
              /\ call.kind \in {"op", "commit", "abort", "end"}
              /\ call.msg \in Msgs
  BY DEF TypeOK, Calls, NoCall

\* The call of a command that is sent for the current number.
LEMMA SendOK ==
    ASSUME number \in Numbers,
           NEW what \in {"op", "commit", "abort", "end"}, NEW kind \in {"op", "commit", "abort"},
           NEW start \in BOOLEAN, NEW majority \in BOOLEAN, Send(what, kind, start, majority)
    PROVE  call' \in Calls
  <1>1. [kind |-> kind, number |-> number, start |-> start, majority |-> majority] \in Msgs
    BY DEF Msgs
  <1>2. "waiting" \in Answers /\ 1 \in 1 .. 2
    BY DEF Answers
  <1>3. QED
    BY <1>1, <1>2 DEF Send, Calls

\* An answer changes nothing else of the call.
LEMMA AnswerOK ==
    ASSUME TypeOK, call # NoCall, NEW a \in Answers, Answer(a)
    PROVE  /\ call' \in Calls /\ call' # NoCall
           /\ call'.kind = call.kind /\ call'.msg = call.msg /\ call'.answer = a
  BY CallShape DEF Answer, Calls, NoCall

\* The server's answer to a command: types, commits are for ever, and only a
\* commit command commits.
LEMMA EffectOK ==
    ASSUME TypeOK, NEW m \in Msgs, Accepts(m)
    PROVE  /\ Effect(m) \in [Numbers -> {"none", "open", "committed", "aborted"}]
           /\ \A n \in Numbers : server[n] = "committed" => Effect(m)[n] = "committed"
           /\ \A n \in Numbers : Effect(m)[n] = "committed" =>
                 server[n] = "committed" \/ (m.kind = "commit" /\ n = m.number)
           /\ m.kind = "commit" => Effect(m)[m.number] = "committed"
  <1>1. m.number \in Numbers /\ m.kind \in {"op", "commit", "abort"} /\ m.start \in BOOLEAN
    BY DEF Msgs
  <1>2. CASE m.kind = "op" /\ m.start
    <2>1. Effect(m) = [n \in Numbers |-> IF n = m.number THEN "open"
                          ELSE IF m.start /\ server[n] = "open" THEN "aborted" ELSE server[n]]
      BY <1>2 DEF Effect
    <2>2. server[m.number] = "none"
      BY <1>1, <1>2 DEF Accepts, Numbers
    <2>3. QED
      BY <1>1, <1>2, <2>1, <2>2 DEF TypeOK
  <1>3. CASE m.kind = "op" /\ ~m.start
    <2>1. Effect(m) = [n \in Numbers |-> IF n = m.number THEN "open"
                          ELSE IF m.start /\ server[n] = "open" THEN "aborted" ELSE server[n]]
      BY <1>3 DEF Effect
    <2>2. server[m.number] = "open"
      BY <1>3 DEF Accepts
    <2>3. QED
      BY <1>1, <1>3, <2>1, <2>2 DEF TypeOK
  <1>4. CASE m.kind = "commit"
    BY <1>1, <1>4 DEF Effect, TypeOK
  <1>5. CASE m.kind = "abort"
    BY <1>1, <1>5 DEF Effect, Accepts, TypeOK
  <1>6. QED
    BY <1>1, <1>2, <1>3, <1>4, <1>5

\* Each unlabelled verdict has one cause.
LEMMA VerdictOK ==
    ASSUME NEW a
    PROVE  /\ Verdict(a) \in {"ok", "unmet", "failed", "unknown"}
           /\ Verdict(a) = "ok" => a = "ok"
           /\ Verdict(a) = "unmet" => a = "wcUnmet"
           /\ Verdict(a) = "failed" => a = "error"
  <1>1. CASE a = "ok"
    BY <1>1 DEF Verdict
  <1>2. CASE a = "error"
    BY <1>2 DEF Verdict
  <1>3. CASE a = "wcUnmet"
    BY <1>3 DEF Verdict
  <1>4. CASE a # "ok" /\ a # "error" /\ a # "wcUnmet"
    BY <1>4 DEF Verdict
  <1>5. QED
    BY <1>1, <1>2, <1>3, <1>4

-----------------------------------------------------------------------------
\* Nothing has happened yet.
LEMMA InitIInv == Init => IInv
  <1> SUFFICES ASSUME Init PROVE IInv
    OBVIOUS
  <1>1. TypeOK
    <2>1. call \in Calls /\ txn \in TxnStates
      BY DEF Init, Calls, TxnStates
    <2>2. commits \in [Numbers -> 0 .. 2] /\ number \in 0 .. MaxTxn
      BY DEF Init
    <2>3. ended \in BOOLEAN /\ late \in BOOLEAN /\ stray \in SUBSET Msgs /\ aborting \in SUBSET Numbers /\ gaveUp \in SUBSET Numbers
      BY DEF Init
    <2>4. QED
      BY <2>1, <2>2, <2>3 DEF Init, TypeOK
  <1>2. CallInv /\ SentInv /\ AbortedInv /\ OkInv /\ RetriesAreMajority
    BY DEF Init, CallInv, SentInv, AbortedInv, OkInv, RetriesAreMajority, CommitReported, InTxn,
           NoCall, Waiting
  <1>3. QED
    BY <1>1, <1>2 DEF IInv

\* A new number has no commit command yet.
LEMMA StartTransactionStep ==
    ASSUME IInv, NEW acknowledged \in BOOLEAN, StartTransaction(acknowledged)
    PROVE  IInv'
  <1> USE DEF StartTransaction, Ready, InTxn, history
  <1>0. TypeOK
    BY DEF IInv
  <1>1. TypeOK'
    BY <1>0, CallShape, EffectOK DEF IInv, TypeOK, CallInv, SentInv, AbortedInv, TxnStates, Calls, NoCall, Msgs, Answers, Numbers, InTxn
  <1>2. CallInv'
    BY <1>0, CallShape DEF IInv, TypeOK, CallInv, NoCall, InTxn
  <1>3. SentInv'
    BY <1>0, CallShape, EffectOK DEF IInv, TypeOK, CallInv, SentInv, InTxn, NoCall, Numbers, TxnStates
  <1>4. AbortedInv'
    BY <1>0, CallShape DEF IInv, TypeOK, CallInv, SentInv, AbortedInv, InTxn, NoCall, Numbers, TxnStates
  <1>5. OkInv'
    BY <1>0, CallShape, EffectOK DEF IInv, TypeOK, CallInv, SentInv, OkInv, CommitReported, NoCall, Numbers
  <1>6. RetriesAreMajority'
    BY <1>0, CallShape DEF IInv, TypeOK, CallInv, SentInv, AbortedInv, RetriesAreMajority, Waiting, NoCall, InTxn, Numbers
  <1>7. QED
    BY <1>1, <1>2, <1>3, <1>4, <1>5, <1>6 DEF IInv

\* An operation sends no commit command.
LEMMA RunOperationStep ==
    ASSUME IInv, RunOperation
    PROVE  IInv'
  <1> USE DEF RunOperation, Ready, InTxn, Send, history
  <1>0. TypeOK
    BY DEF IInv
  <1>1. TypeOK'
    <2>1. CASE InTxn
      <3>1. call' \in Calls
        <4>1. (txn = "starting") \in BOOLEAN
          OBVIOUS
        <4>2. Send("op", "op", txn = "starting", FALSE) /\ number \in Numbers
          BY <2>1 DEF IInv, SentInv, InTxn
        <4>3. QED
          BY <4>1, <4>2, SendOK
      <3>2. QED
        BY <1>0, <2>1, <3>1 DEF TypeOK, TxnStates
    <2>2. CASE ~InTxn
      BY <1>0, <2>2 DEF TypeOK, TxnStates
    <2>3. QED
      BY <2>1, <2>2
  <1>2. CallInv'
    BY <1>0, CallShape DEF IInv, TypeOK, CallInv, NoCall, InTxn
  <1>3. SentInv'
    BY <1>0, CallShape, EffectOK DEF IInv, TypeOK, CallInv, SentInv, InTxn, NoCall, Numbers, TxnStates
  <1>4. AbortedInv'
    BY <1>0, CallShape DEF IInv, TypeOK, CallInv, SentInv, AbortedInv, InTxn, NoCall, Numbers, TxnStates
  <1>5. OkInv'
    BY <1>0, CallShape, EffectOK DEF IInv, TypeOK, CallInv, SentInv, OkInv, CommitReported, NoCall, Numbers
  <1>6. RetriesAreMajority'
    BY <1>0, CallShape DEF IInv, TypeOK, CallInv, SentInv, AbortedInv, RetriesAreMajority, Waiting, NoCall, InTxn, Numbers
  <1>7. QED
    BY <1>1, <1>2, <1>3, <1>4, <1>5, <1>6 DEF IInv

\* Nothing is sent.
LEMMA CommitEmptyStep ==
    ASSUME IInv, CommitEmpty
    PROVE  IInv'
  <1> USE DEF CommitEmpty, Ready, history
  <1>0. TypeOK
    BY DEF IInv
  <1>1. TypeOK'
    BY <1>0, CallShape, EffectOK DEF IInv, TypeOK, CallInv, SentInv, AbortedInv, TxnStates, Calls, NoCall, Msgs, Answers, Numbers, InTxn
  <1>2. CallInv'
    BY <1>0, CallShape DEF IInv, TypeOK, CallInv, NoCall, InTxn
  <1>3. SentInv'
    BY <1>0, CallShape, EffectOK DEF IInv, TypeOK, CallInv, SentInv, InTxn, NoCall, Numbers, TxnStates
  <1>4. AbortedInv'
    BY <1>0, CallShape DEF IInv, TypeOK, CallInv, SentInv, AbortedInv, InTxn, NoCall, Numbers, TxnStates
  <1>5. OkInv'
    BY <1>0, CallShape, EffectOK DEF IInv, TypeOK, CallInv, SentInv, OkInv, CommitReported, NoCall, Numbers
  <1>6. RetriesAreMajority'
    BY <1>0, CallShape DEF IInv, TypeOK, CallInv, SentInv, AbortedInv, RetriesAreMajority, Waiting, NoCall, InTxn, Numbers
  <1>7. QED
    BY <1>1, <1>2, <1>3, <1>4, <1>5, <1>6 DEF IInv

\* The first commit command of a transaction, or one with majority.
LEMMA CommitStep ==
    ASSUME IInv, Commit
    PROVE  IInv'
  <1> USE DEF Commit, Ready, Send, Counted
  <1>0. TypeOK
    BY DEF IInv
  <1>1. TypeOK'
    BY <1>0, CallShape, EffectOK DEF IInv, TypeOK, CallInv, SentInv, AbortedInv, TxnStates, Calls, NoCall, Msgs, Answers, Numbers, InTxn
  <1>2. CallInv'
    BY <1>0, CallShape DEF IInv, TypeOK, CallInv, NoCall, InTxn
  <1>3. SentInv'
    <2>1. number \in Numbers
      BY DEF IInv, SentInv, AbortedInv, InTxn
    <2>2. commits'[number] > 0 /\ \A n \in Numbers : commits[n] > 0 => commits'[n] > 0
      BY <1>0, <2>1 DEF TypeOK
    <2>3. \A n \in Numbers : n > number => commits'[n] = 0
      BY <1>0, <2>1 DEF IInv, SentInv, TypeOK
    <2>4. \A m \in stray : m.number \in Numbers
      BY <1>0 DEF TypeOK, Msgs
    <2>5. QED
      BY <2>1, <2>2, <2>3, <2>4 DEF IInv, SentInv, InTxn
  <1>4. AbortedInv'
    BY <1>0, CallShape DEF IInv, TypeOK, CallInv, SentInv, AbortedInv, InTxn, NoCall, Numbers, TxnStates
  <1>5. OkInv'
    BY <1>0, CallShape, EffectOK DEF IInv, TypeOK, CallInv, SentInv, OkInv, CommitReported, NoCall, Numbers
  <1>6. RetriesAreMajority'
    <2>1. number \in Numbers
      BY DEF IInv, SentInv, AbortedInv, InTxn
    <2>2. CASE txn = "inProgress"
      <3>1. commits'[number] = 1
        BY <1>0, <2>1, <2>2 DEF IInv, SentInv, InTxn, TypeOK
      <3>2. call'.msg.number = number
        OBVIOUS
      <3>3. QED
        BY <3>1, <3>2 DEF RetriesAreMajority
    <2>3. CASE txn = "committed"
      <3>1. call'.msg.majority = (txn = "committed")
        OBVIOUS
      <3>2. QED
        BY <2>3, <3>1 DEF RetriesAreMajority
    <2>4. QED
      BY <2>2, <2>3
  <1>7. QED
    BY <1>1, <1>2, <1>3, <1>4, <1>5, <1>6 DEF IInv

\* No commit command was sent for a transaction that is starting.
LEMMA AbortEmptyStep ==
    ASSUME IInv, AbortEmpty
    PROVE  IInv'
  <1> USE DEF AbortEmpty, Ready
  <1>0. TypeOK
    BY DEF IInv
  <1>1. TypeOK'
    BY <1>0, CallShape, EffectOK DEF IInv, TypeOK, CallInv, SentInv, AbortedInv, TxnStates, Calls, NoCall, Msgs, Answers, Numbers, InTxn
  <1>2. CallInv'
    BY <1>0, CallShape DEF IInv, TypeOK, CallInv, NoCall, InTxn
  <1>3. SentInv'
    BY <1>0, CallShape, EffectOK DEF IInv, TypeOK, CallInv, SentInv, InTxn, NoCall, Numbers, TxnStates
  <1>4. AbortedInv'
    BY <1>0, CallShape DEF IInv, TypeOK, CallInv, SentInv, AbortedInv, InTxn, NoCall, Numbers, TxnStates
  <1>5. OkInv'
    BY <1>0, CallShape, EffectOK DEF IInv, TypeOK, CallInv, SentInv, OkInv, CommitReported, NoCall, Numbers
  <1>6. RetriesAreMajority'
    BY <1>0, CallShape DEF IInv, TypeOK, CallInv, SentInv, AbortedInv, RetriesAreMajority, Waiting, NoCall, InTxn, Numbers
  <1>7. QED
    BY <1>1, <1>2, <1>3, <1>4, <1>5, <1>6 DEF IInv

\* No commit command was sent for a transaction in progress.
LEMMA AbortStep ==
    ASSUME IInv, Abort
    PROVE  IInv'
  <1> USE DEF Abort, Ready, Send
  <1>0. TypeOK
    BY DEF IInv
  <1>1. TypeOK'
    BY <1>0, CallShape, EffectOK DEF IInv, TypeOK, CallInv, SentInv, AbortedInv, TxnStates, Calls, NoCall, Msgs, Answers, Numbers, InTxn
  <1>2. CallInv'
    BY <1>0, CallShape DEF IInv, TypeOK, CallInv, NoCall, InTxn
  <1>3. SentInv'
    BY <1>0, CallShape, EffectOK DEF IInv, TypeOK, CallInv, SentInv, InTxn, NoCall, Numbers, TxnStates
  <1>4. AbortedInv'
    BY <1>0, CallShape DEF IInv, TypeOK, CallInv, SentInv, AbortedInv, InTxn, NoCall, Numbers, TxnStates
  <1>5. OkInv'
    BY <1>0, CallShape, EffectOK DEF IInv, TypeOK, CallInv, SentInv, OkInv, CommitReported, NoCall, Numbers
  <1>6. RetriesAreMajority'
    BY <1>0, CallShape DEF IInv, TypeOK, CallInv, SentInv, AbortedInv, RetriesAreMajority, Waiting, NoCall, InTxn, Numbers
  <1>7. QED
    BY <1>1, <1>2, <1>3, <1>4, <1>5, <1>6 DEF IInv

\* As an abort.
LEMMA EndStep ==
    ASSUME IInv, End
    PROVE  IInv'
  <1> USE DEF End, Ready, Send
  <1>0. TypeOK
    BY DEF IInv
  <1>1. TypeOK'
    <2>1. CASE txn = "inProgress"
      <3>1. number \in Numbers
        BY <2>1 DEF IInv, SentInv, InTxn
      <3>2. Send("end", "abort", FALSE, FALSE)
        BY <2>1
      <3>3. call' \in Calls
        BY <3>1, <3>2, SendOK
      <3>4. QED
        BY <1>0, <2>1, <3>1, <3>3 DEF TypeOK, TxnStates
    <2>2. CASE txn = "starting"
      <3>1. number \in Numbers
        BY <2>2 DEF IInv, SentInv, InTxn
      <3>2. QED
        BY <1>0, <2>2, <3>1 DEF TypeOK, TxnStates
    <2>3. CASE txn \notin {"inProgress", "starting"}
      BY <1>0, <2>3 DEF TypeOK, TxnStates
    <2>4. QED
      BY <2>1, <2>2, <2>3
  <1>2. CallInv'
    BY <1>0, CallShape DEF IInv, TypeOK, CallInv, NoCall, InTxn
  <1>3. SentInv'
    BY <1>0, CallShape, EffectOK DEF IInv, TypeOK, CallInv, SentInv, InTxn, NoCall, Numbers, TxnStates
  <1>4. AbortedInv'
    <2>1. CASE txn \in {"inProgress", "starting"}
      <3>1. number \in Numbers /\ commits[number] = 0
        BY <2>1 DEF IInv, SentInv, InTxn
      <3>2. txn' \in {"ending", "aborted"} /\ aborting' = aborting \cup {number}
        BY <2>1
      <3>3. QED
        BY <1>0, <3>1, <3>2 DEF IInv, AbortedInv, TypeOK, Numbers
    <2>2. CASE txn \notin {"inProgress", "starting"}
      BY <2>2 DEF IInv, AbortedInv
    <2>3. QED
      BY <2>1, <2>2
  <1>5. OkInv'
    BY <1>0, CallShape, EffectOK DEF IInv, TypeOK, CallInv, SentInv, OkInv, CommitReported, NoCall, Numbers
  <1>6. RetriesAreMajority'
    BY <1>0, CallShape DEF IInv, TypeOK, CallInv, SentInv, AbortedInv, RetriesAreMajority, Waiting, NoCall, InTxn, Numbers
  <1>7. QED
    BY <1>1, <1>2, <1>3, <1>4, <1>5, <1>6 DEF IInv

\* The server's answer is true.
LEMMA ServeStep ==
    ASSUME IInv, Serve
    PROVE  IInv'
  <1> USE DEF Serve, ForCommit, Waiting, Answer, history
  <1>0. TypeOK
    BY DEF IInv
  <1>1. TypeOK'
    <2>1. PICK a \in Answers : Answer(a)
      BY DEF Answers
    <2>2. call' \in Calls
      BY <1>0, <2>1, AnswerOK
    <2>3. call.msg \in Msgs
      BY <1>0, CallShape
    <2>4. server' \in [Numbers -> {"none", "open", "committed", "aborted"}]
      BY <1>0, <2>3, EffectOK
    <2>5. QED
      BY <1>0, <2>2, <2>4 DEF TypeOK
  <1>2. CallInv'
    BY <1>0, CallShape DEF IInv, TypeOK, CallInv, NoCall, InTxn
  <1>3. SentInv'
    BY <1>0, CallShape, EffectOK DEF IInv, TypeOK, CallInv, SentInv, InTxn, NoCall, Numbers, TxnStates
  <1>4. AbortedInv'
    BY <1>0, CallShape DEF IInv, TypeOK, CallInv, SentInv, AbortedInv, InTxn, NoCall, Numbers, TxnStates
  <1>5. OkInv'
    BY <1>0, CallShape, EffectOK DEF IInv, TypeOK, CallInv, SentInv, OkInv, CommitReported, NoCall, Numbers
  <1>6. RetriesAreMajority'
    BY <1>0, CallShape DEF IInv, TypeOK, CallInv, SentInv, AbortedInv, RetriesAreMajority, Waiting, NoCall, InTxn, Numbers
  <1>7. QED
    BY <1>1, <1>2, <1>3, <1>4, <1>5, <1>6 DEF IInv

\* The server does nothing.
LEMMA RefuseStep ==
    ASSUME IInv, Refuse
    PROVE  IInv'
  <1> USE DEF Refuse, Waiting, Answer, history
  <1>0. TypeOK
    BY DEF IInv
  <1>1. TypeOK'
    BY <1>0, CallShape, EffectOK DEF IInv, TypeOK, CallInv, SentInv, AbortedInv, TxnStates, Calls, NoCall, Msgs, Answers, Numbers, InTxn
  <1>2. CallInv'
    BY <1>0, CallShape DEF IInv, TypeOK, CallInv, NoCall, InTxn
  <1>3. SentInv'
    BY <1>0, CallShape, EffectOK DEF IInv, TypeOK, CallInv, SentInv, InTxn, NoCall, Numbers, TxnStates
  <1>4. AbortedInv'
    BY <1>0, CallShape DEF IInv, TypeOK, CallInv, SentInv, AbortedInv, InTxn, NoCall, Numbers, TxnStates
  <1>5. OkInv'
    BY <1>0, CallShape, EffectOK DEF IInv, TypeOK, CallInv, SentInv, OkInv, CommitReported, NoCall, Numbers
  <1>6. RetriesAreMajority'
    BY <1>0, CallShape DEF IInv, TypeOK, CallInv, SentInv, AbortedInv, RetriesAreMajority, Waiting, NoCall, InTxn, Numbers
  <1>7. QED
    BY <1>1, <1>2, <1>3, <1>4, <1>5, <1>6 DEF IInv

\* Nobody does anything.
LEMMA FailStep ==
    ASSUME IInv, Fail
    PROVE  IInv'
  <1> USE DEF Fail, ForCommit, Waiting, Answer, history
  <1>0. TypeOK
    BY DEF IInv
  <1>1. TypeOK'
    <2>1. PICK a \in Answers : Answer(a)
      BY DEF Answers
    <2>2. call' \in Calls
      BY <1>0, <2>1, AnswerOK
    <2>3. QED
      BY <1>0, <2>2 DEF TypeOK
  <1>2. CallInv'
    BY <1>0, CallShape DEF IInv, TypeOK, CallInv, NoCall, InTxn
  <1>3. SentInv'
    BY <1>0, CallShape, EffectOK DEF IInv, TypeOK, CallInv, SentInv, InTxn, NoCall, Numbers, TxnStates
  <1>4. AbortedInv'
    BY <1>0, CallShape DEF IInv, TypeOK, CallInv, SentInv, AbortedInv, InTxn, NoCall, Numbers, TxnStates
  <1>5. OkInv'
    BY <1>0, CallShape, EffectOK DEF IInv, TypeOK, CallInv, SentInv, OkInv, CommitReported, NoCall, Numbers
  <1>6. RetriesAreMajority'
    BY <1>0, CallShape DEF IInv, TypeOK, CallInv, SentInv, AbortedInv, RetriesAreMajority, Waiting, NoCall, InTxn, Numbers
  <1>7. QED
    BY <1>1, <1>2, <1>3, <1>4, <1>5, <1>6 DEF IInv

\* The server acts, the client does not know.
LEMMA LoseAnswerStep ==
    ASSUME IInv, LoseAnswer
    PROVE  IInv'
  <1> USE DEF LoseAnswer, Waiting, Answer, history
  <1>0. TypeOK
    BY DEF IInv
  <1>1. TypeOK'
    BY <1>0, CallShape, EffectOK DEF IInv, TypeOK, CallInv, SentInv, AbortedInv, TxnStates, Calls, NoCall, Msgs, Answers, Numbers, InTxn
  <1>2. CallInv'
    BY <1>0, CallShape DEF IInv, TypeOK, CallInv, NoCall, InTxn
  <1>3. SentInv'
    BY <1>0, CallShape, EffectOK DEF IInv, TypeOK, CallInv, SentInv, InTxn, NoCall, Numbers, TxnStates
  <1>4. AbortedInv'
    BY <1>0, CallShape DEF IInv, TypeOK, CallInv, SentInv, AbortedInv, InTxn, NoCall, Numbers, TxnStates
  <1>5. OkInv'
    BY <1>0, CallShape, EffectOK DEF IInv, TypeOK, CallInv, SentInv, OkInv, CommitReported, NoCall, Numbers
  <1>6. RetriesAreMajority'
    BY <1>0, CallShape DEF IInv, TypeOK, CallInv, SentInv, AbortedInv, RetriesAreMajority, Waiting, NoCall, InTxn, Numbers
  <1>7. QED
    BY <1>1, <1>2, <1>3, <1>4, <1>5, <1>6 DEF IInv

\* The command joins the strays.
LEMMA DelayStep ==
    ASSUME IInv, Delay
    PROVE  IInv'
  <1> USE DEF Delay, Waiting, Answer, history
  <1>0. TypeOK
    BY DEF IInv
  <1>1. TypeOK'
    <2>1. "retry" \in Answers
      BY DEF Answers
    <2>2. call' \in Calls
      BY <1>0, <2>1, AnswerOK
    <2>3. call.msg \in Msgs
      BY <1>0, CallShape
    <2>4. QED
      BY <1>0, <2>2, <2>3 DEF TypeOK
  <1>2. CallInv'
    BY <1>0, CallShape DEF IInv, TypeOK, CallInv, NoCall, InTxn
  <1>3. SentInv'
    BY <1>0, CallShape, EffectOK DEF IInv, TypeOK, CallInv, SentInv, InTxn, NoCall, Numbers, TxnStates
  <1>4. AbortedInv'
    BY <1>0, CallShape DEF IInv, TypeOK, CallInv, SentInv, AbortedInv, InTxn, NoCall, Numbers, TxnStates
  <1>5. OkInv'
    BY <1>0, CallShape, EffectOK DEF IInv, TypeOK, CallInv, SentInv, OkInv, CommitReported, NoCall, Numbers
  <1>6. RetriesAreMajority'
    BY <1>0, CallShape DEF IInv, TypeOK, CallInv, SentInv, AbortedInv, RetriesAreMajority, Waiting, NoCall, InTxn, Numbers
  <1>7. QED
    BY <1>1, <1>2, <1>3, <1>4, <1>5, <1>6 DEF IInv

\* A stray commit is a commit command that was sent.
LEMMA ServeStrayStep ==
    ASSUME IInv, NEW m \in Msgs, ServeStray(m)
    PROVE  IInv'
  <1> USE DEF ServeStray, history
  <1>0. TypeOK
    BY DEF IInv
  <1>1. TypeOK'
    BY <1>0, CallShape, EffectOK DEF IInv, TypeOK, CallInv, SentInv, AbortedInv, TxnStates, Calls, NoCall, Msgs, Answers, Numbers, InTxn
  <1>2. CallInv'
    BY <1>0, CallShape DEF IInv, TypeOK, CallInv, NoCall, InTxn
  <1>3. SentInv'
    BY <1>0, CallShape, EffectOK DEF IInv, TypeOK, CallInv, SentInv, InTxn, NoCall, Numbers, TxnStates
  <1>4. AbortedInv'
    BY <1>0, CallShape DEF IInv, TypeOK, CallInv, SentInv, AbortedInv, InTxn, NoCall, Numbers, TxnStates
  <1>5. OkInv'
    <2>1. \A n \in Numbers : server[n] = "committed" => server'[n] = "committed"
      BY <1>0, EffectOK
    <2>2. call.kind = "commit" => number \in Numbers
      BY <1>0, CallShape DEF IInv, CallInv, Msgs, NoCall
    <2>3. QED
      BY <2>1, <2>2 DEF IInv, OkInv, CommitReported
  <1>6. RetriesAreMajority'
    BY <1>0, CallShape DEF IInv, TypeOK, CallInv, SentInv, AbortedInv, RetriesAreMajority, Waiting, NoCall, InTxn, Numbers
  <1>7. QED
    BY <1>1, <1>2, <1>3, <1>4, <1>5, <1>6 DEF IInv

\* Only an open transaction changes.
LEMMA ServerAbortsStep ==
    ASSUME IInv, NEW n \in Numbers, ServerAborts(n)
    PROVE  IInv'
  <1> USE DEF ServerAborts, history
  <1>0. TypeOK
    BY DEF IInv
  <1>1. TypeOK'
    BY <1>0, CallShape, EffectOK DEF IInv, TypeOK, CallInv, SentInv, AbortedInv, TxnStates, Calls, NoCall, Msgs, Answers, Numbers, InTxn
  <1>2. CallInv'
    BY <1>0, CallShape DEF IInv, TypeOK, CallInv, NoCall, InTxn
  <1>3. SentInv'
    <2>1. \A i \in Numbers : server'[i] = "committed" => server[i] = "committed"
      BY <1>0 DEF TypeOK
    <2>2. QED
      BY <2>1 DEF IInv, SentInv, InTxn
  <1>4. AbortedInv'
    BY <1>0, CallShape DEF IInv, TypeOK, CallInv, SentInv, AbortedInv, InTxn, NoCall, Numbers, TxnStates
  <1>5. OkInv'
    BY <1>0, CallShape, EffectOK DEF IInv, TypeOK, CallInv, SentInv, OkInv, CommitReported, NoCall, Numbers
  <1>6. RetriesAreMajority'
    BY <1>0, CallShape DEF IInv, TypeOK, CallInv, SentInv, AbortedInv, RetriesAreMajority, Waiting, NoCall, InTxn, Numbers
  <1>7. QED
    BY <1>1, <1>2, <1>3, <1>4, <1>5, <1>6 DEF IInv

\* The transaction goes on.
LEMMA OperationReturnsStep ==
    ASSUME IInv, OperationReturns
    PROVE  IInv'
  <1> USE DEF OperationReturns, history
  <1>0. TypeOK
    BY DEF IInv
  <1>1. TypeOK'
    BY <1>0, CallShape, EffectOK DEF IInv, TypeOK, CallInv, SentInv, AbortedInv, TxnStates, Calls, NoCall, Msgs, Answers, Numbers, InTxn
  <1>2. CallInv'
    BY <1>0, CallShape DEF IInv, TypeOK, CallInv, NoCall, InTxn
  <1>3. SentInv'
    BY <1>0, CallShape, EffectOK DEF IInv, TypeOK, CallInv, SentInv, InTxn, NoCall, Numbers, TxnStates
  <1>4. AbortedInv'
    BY <1>0, CallShape DEF IInv, TypeOK, CallInv, SentInv, AbortedInv, InTxn, NoCall, Numbers, TxnStates
  <1>5. OkInv'
    BY <1>0, CallShape, EffectOK DEF IInv, TypeOK, CallInv, SentInv, OkInv, CommitReported, NoCall, Numbers
  <1>6. RetriesAreMajority'
    BY <1>0, CallShape DEF IInv, TypeOK, CallInv, SentInv, AbortedInv, RetriesAreMajority, Waiting, NoCall, InTxn, Numbers
  <1>7. QED
    BY <1>1, <1>2, <1>3, <1>4, <1>5, <1>6 DEF IInv

\* The second command of a commit asks for majority.
LEMMA RetryStep ==
    ASSUME IInv, Retry
    PROVE  IInv'
  <1> USE DEF Retry, MustRetry, Counted
  <1>0. TypeOK
    BY DEF IInv
  <1>1. TypeOK'
    <2>1. call.msg \in Msgs /\ call.kind \in {"op", "commit", "abort", "end"}
      BY <1>0, CallShape DEF NoCall
    <2>2. [call.msg EXCEPT !.majority = call.kind = "commit"] \in Msgs
      <3>1. (call.kind = "commit") \in BOOLEAN
        OBVIOUS
      <3>2. QED
        BY <2>1, <3>1 DEF Msgs
    <2>3. call' \in Calls
      <3>1. call' = [call EXCEPT !.try = 2, !.answer = "waiting",
                                 !.msg = [call.msg EXCEPT !.majority = call.kind = "commit"]]
        BY <1>0, CallShape DEF NoCall
      <3>2. call \in [kind : {"op", "commit", "abort", "end"}, msg : Msgs, try : 1 .. 2, answer : Answers]
        BY <1>0, CallShape DEF NoCall
      <3>3. "waiting" \in Answers /\ 2 \in 1 .. 2
        BY DEF Answers
      <3>4. QED
        BY <2>2, <3>1, <3>2, <3>3 DEF Calls
    <2>4. commits' \in [Numbers -> 0 .. 2]
      BY <1>0, <2>1 DEF TypeOK, Msgs
    <2>5. QED
      BY <1>0, <2>3, <2>4 DEF TypeOK
  <1>2. CallInv'
    <2>1. call # NoCall /\ call \in [kind : {"op", "commit", "abort", "end"}, msg : Msgs, try : 1 .. 2, answer : Answers]
      BY <1>0, CallShape DEF NoCall
    <2>2. call'.kind = call.kind
      BY <2>1
    <2>3. call'.msg.number = call.msg.number /\ call'.msg.kind = call.msg.kind
      BY <2>1 DEF Msgs
    <2>4. QED
      BY <2>1, <2>2, <2>3 DEF IInv, CallInv
  <1>3. SentInv'
    BY <1>0, CallShape, EffectOK DEF IInv, TypeOK, CallInv, SentInv, InTxn, NoCall, Numbers, TxnStates
  <1>4. AbortedInv'
    BY <1>0, CallShape DEF IInv, TypeOK, CallInv, SentInv, AbortedInv, InTxn, NoCall, Numbers, TxnStates
  <1>5. OkInv'
    BY <1>0, CallShape, EffectOK DEF IInv, TypeOK, CallInv, SentInv, OkInv, CommitReported, NoCall, Numbers
  <1>6. RetriesAreMajority'
    <2>1. call \in [kind : {"op", "commit", "abort", "end"}, msg : Msgs, try : 1 .. 2, answer : Answers]
      BY <1>0, CallShape DEF NoCall
    <2>2. call'.kind = call.kind
      BY <2>1
    <2>3. call'.msg.majority = (call.kind = "commit")
      BY <2>1 DEF Msgs
    <2>4. QED
      BY <2>2, <2>3 DEF RetriesAreMajority
  <1>7. QED
    BY <1>1, <1>2, <1>3, <1>4, <1>5, <1>6 DEF IInv

\* The verdict is ok only on an ok of the server.
LEMMA CommitReturnsStep ==
    ASSUME IInv, CommitReturns
    PROVE  IInv'
  <1> USE DEF CommitReturns, MustRetry, history
  <1>0. TypeOK
    BY DEF IInv
  <1>1. TypeOK'
    BY <1>0, CallShape, VerdictOK DEF IInv, TypeOK, CallInv, TxnStates, Calls, NoCall, Msgs, Numbers
  <1>2. CallInv'
    BY <1>0, CallShape DEF IInv, TypeOK, CallInv, NoCall, InTxn
  <1>3. SentInv'
    BY <1>0, CallShape, EffectOK DEF IInv, TypeOK, CallInv, SentInv, InTxn, NoCall, Numbers, TxnStates
  <1>4. AbortedInv'
    <2>1. number \in Numbers
      BY <1>0, CallShape DEF IInv, CallInv, Msgs, NoCall
    <2>2. number \notin aborting
      <3>1. commits[number] > 0
        BY DEF IInv, SentInv
      <3>2. QED
        BY <3>1 DEF IInv, AbortedInv
    <2>3. QED
      BY <2>1, <2>2 DEF IInv, AbortedInv
  <1>5. OkInv'
    <2>1. number \in Numbers /\ call.msg.number = number
      BY <1>0, CallShape DEF IInv, CallInv, Msgs, NoCall
    <2>2. reported'[number] \in {"ok", "unmet"} => server[number] = "committed"
      BY <1>0, <2>1, VerdictOK DEF IInv, TypeOK, OkInv
    <2>3. QED
      BY <1>0, <2>1, <2>2 DEF IInv, TypeOK, OkInv, CommitReported, NoCall
  <1>6. RetriesAreMajority'
    BY <1>0, CallShape DEF IInv, TypeOK, CallInv, SentInv, AbortedInv, RetriesAreMajority, Waiting, NoCall, InTxn, Numbers
  <1>7. QED
    BY <1>1, <1>2, <1>3, <1>4, <1>5, <1>6 DEF IInv

\* The transaction is over on the client.
LEMMA AbortReturnsStep ==
    ASSUME IInv, AbortReturns
    PROVE  IInv'
  <1> USE DEF AbortReturns, MustRetry
  <1>0. TypeOK
    BY DEF IInv
  <1>1. TypeOK'
    <2>1. call.msg.number \in Numbers
      BY <1>0, CallShape DEF Msgs, NoCall
    <2>2. call' \in Calls /\ txn' \in TxnStates
      BY DEF Calls, TxnStates
    <2>3. (call.kind = "end") \in BOOLEAN
      OBVIOUS
    <2>4. QED
      BY <1>0, <2>1, <2>2, <2>3 DEF TypeOK
  <1>2. CallInv'
    BY <1>0, CallShape DEF IInv, TypeOK, CallInv, NoCall, InTxn
  <1>3. SentInv'
    BY <1>0, CallShape, EffectOK DEF IInv, TypeOK, CallInv, SentInv, InTxn, NoCall, Numbers, TxnStates
  <1>4. AbortedInv'
    BY <1>0, CallShape DEF IInv, TypeOK, CallInv, SentInv, AbortedInv, InTxn, NoCall, Numbers, TxnStates
  <1>5. OkInv'
    BY <1>0, CallShape, EffectOK DEF IInv, TypeOK, CallInv, SentInv, OkInv, CommitReported, NoCall, Numbers
  <1>6. RetriesAreMajority'
    BY <1>0, CallShape DEF IInv, TypeOK, CallInv, SentInv, AbortedInv, RetriesAreMajority, Waiting, NoCall, InTxn, Numbers
  <1>7. QED
    BY <1>1, <1>2, <1>3, <1>4, <1>5, <1>6 DEF IInv

\* IInv is inductive.
LEMMA NextIInv == IInv /\ [Next]_vars => IInv'
  <1> SUFFICES ASSUME IInv, [Next]_vars PROVE IInv'
    OBVIOUS
  <1>1. CASE UNCHANGED vars
    BY <1>1 DEF vars, IInv, TypeOK, CallInv, SentInv, AbortedInv, OkInv, RetriesAreMajority,
                CommitReported, InTxn, Waiting
  <1>2. CASE Next
    BY <1>2, StartTransactionStep, RunOperationStep, CommitEmptyStep,
       CommitStep, AbortEmptyStep, AbortStep, EndStep, ServeStep, RefuseStep, FailStep,
       LoseAnswerStep, DelayStep, ServeStrayStep, ServerAbortsStep,
       OperationReturnsStep, RetryStep, CommitReturnsStep, AbortReturnsStep DEF Next
  <1>3. QED
    BY <1>1, <1>2

\* The inductive invariant holds of every behaviour.
THEOREM IInvTheorem == Spec => []IInv
  BY InitIInv, NextIInv, PTL DEF Spec

\* What commitTransaction reports as a success, or as a write concern that was
\* not satisfied, is committed on the server, however often it was retried.
THEOREM CommitReportedTheorem == Spec => []CommitReported
  <1>1. IInv => CommitReported
    BY DEF IInv, OkInv
  <1>2. QED
    BY <1>1, IInvTheorem, PTL

\* A transaction the user aborted is never committed.
THEOREM AbortIsFinalTheorem == Spec => []AbortIsFinal
  <1>1. IInv => AbortIsFinal
    BY DEF IInv, TypeOK, SentInv, AbortedInv, AbortIsFinal
  <1>2. QED
    BY <1>1, IInvTheorem, PTL

\* Every commit command after a transaction's first asks for majority.
THEOREM RetriesAreMajorityTheorem == Spec => []RetriesAreMajority
  <1>1. IInv => RetriesAreMajority
    BY DEF IInv
  <1>2. QED
    BY <1>1, IInvTheorem, PTL

-----------------------------------------------------------------------------
(* As long as no command outlives its connection *)

\* A transaction has an outcome only after a commit command; a session is
\* ending a transaction only inside a call, and is ended only outside.  Only
\* the command of an operation is one.
IdleInv ==
    /\ call # NoCall => (call.kind = "op" <=> call.msg.kind = "op")
    /\ \A n \in Numbers : reported[n] # "none" => commits[n] > 0
    /\ call = NoCall => txn # "ending"
    /\ ended => call = NoCall /\ txn # "inProgress"

\* A refused commit is not in force, neither while the call returns nor after.
RefusedInv ==
    /\ \A n \in Numbers : reported[n] = "failed" => server[n] \in {"none", "aborted"}
    /\ call.kind = "commit" /\ call.answer = "error" => server[number] \in {"none", "aborted"}

\* A transaction is open on the server while the session works on it; after
\* that only if its abort failed or its commit has an unknown result.
OpenInv ==
    /\ \A n \in Numbers : server[n] = "open" =>
          \/ n \in gaveUp \/ reported[n] = "unknown"
          \/ n = number /\ txn \in {"inProgress", "ending"}
    /\ call.kind \in {"abort", "end"} /\ call.answer = "ok" => server[number] # "open"

PromptInv == ~late => stray = {} /\ RefusedInv /\ OpenInv

\* What an accepted command opens, and what it leaves closed.
LEMMA EffectOpen ==
    ASSUME TypeOK, NEW m \in Msgs, Accepts(m)
    PROVE  /\ \A n \in Numbers : Effect(m)[n] = "open" => server[n] = "open" \/ (m.kind = "op" /\ n = m.number)
           /\ \A n \in Numbers : server[n] \in {"none", "aborted"} =>
                 Effect(m)[n] \in {"none", "aborted"} \/ (m.kind = "op" /\ n = m.number)
           /\ m.kind = "abort" => Effect(m)[m.number] # "open"
           /\ m.kind = "commit" => server[m.number] \notin {"none", "aborted"}
  <1>1. m.number \in Numbers /\ m.kind \in {"op", "commit", "abort"} /\ m.start \in BOOLEAN
    BY DEF Msgs
  <1>2. CASE m.kind = "op"
    <2>1. Effect(m) = [n \in Numbers |-> IF n = m.number THEN "open"
                          ELSE IF m.start /\ server[n] = "open" THEN "aborted" ELSE server[n]]
      BY <1>2 DEF Effect
    <2>2. QED
      BY <1>1, <1>2, <2>1 DEF TypeOK
  <1>3. CASE m.kind = "commit"
    BY <1>1, <1>3 DEF Effect, Accepts, TypeOK
  <1>4. CASE m.kind = "abort"
    BY <1>1, <1>4 DEF Effect, Accepts, TypeOK
  <1>5. QED
    BY <1>1, <1>2, <1>3, <1>4

\* Calls, outcomes and the end of the session stay in step.
LEMMA IdleStep ==
    ASSUME IInv, IdleInv, [Next]_vars
    PROVE  IdleInv'
  <1>0. TypeOK
    BY DEF IInv
  <1> USE <1>0, CallShape DEF IInv, TypeOK, CallInv, SentInv, IdleInv, Ready, InTxn, NoCall, Send, Counted, history, MustRetry
  <1>1. CASE UNCHANGED vars
    BY <1>1 DEF vars
  <1>2. CASE \E acknowledged \in BOOLEAN : StartTransaction(acknowledged)
    BY <1>2 DEF StartTransaction
  <1>3. CASE RunOperation
    BY <1>3 DEF RunOperation
  <1>4. CASE CommitEmpty
    BY <1>4 DEF CommitEmpty
  <1>5. CASE Commit
    BY <1>5 DEF Commit
  <1>6. CASE AbortEmpty
    BY <1>6 DEF AbortEmpty
  <1>7. CASE Abort
    BY <1>7 DEF Abort
  <1>8. CASE End
    BY <1>8 DEF End
  <1>9. CASE Serve
    BY <1>9, AnswerOK DEF Serve, ForCommit, Waiting, Answers
  <1>10. CASE Refuse
    BY <1>10, AnswerOK DEF Refuse, Waiting, Answers
  <1>11. CASE Fail
    BY <1>11, AnswerOK DEF Fail, ForCommit, Waiting, Answers
  <1>12. CASE LoseAnswer
    BY <1>12, AnswerOK DEF LoseAnswer, Waiting, Answers
  <1>13. CASE Delay
    BY <1>13, AnswerOK DEF Delay, Waiting, Answers
  <1>14. CASE \E m \in Msgs : ServeStray(m)
    BY <1>14 DEF ServeStray
  <1>15. CASE \E n \in Numbers : ServerAborts(n)
    BY <1>15 DEF ServerAborts
  <1>16. CASE OperationReturns
    BY <1>16 DEF OperationReturns
  <1>17. CASE Retry
    <2>1. call # NoCall /\ call \in [kind : {"op", "commit", "abort", "end"}, msg : Msgs, try : 1 .. 2, answer : Answers]
      BY <1>17 DEF Retry
    <2>2. call' # NoCall /\ call'.kind = call.kind /\ call'.msg.kind = call.msg.kind
      BY <1>17, <2>1 DEF Retry, Msgs
    <2>3. \A n \in Numbers : commits[n] > 0 => commits'[n] > 0
      BY <1>17, <2>1 DEF Retry, Msgs
    <2>4. QED
      BY <1>17, <2>1, <2>2, <2>3 DEF Retry
  <1>18. CASE CommitReturns
    BY <1>18 DEF CommitReturns
  <1>19. CASE AbortReturns
    BY <1>19 DEF AbortReturns
  <1>20. QED
    BY <1>1, <1>2, <1>3, <1>4, <1>5, <1>6, <1>7, <1>8, <1>9, <1>10, <1>11, <1>12, <1>13, <1>14, <1>15, <1>16, <1>17, <1>18, <1>19 DEF Next

\* A command that outlived its connection is remembered.
LEMMA LateStep ==
    ASSUME [Next]_vars, ~late'
    PROVE  ~late
  BY DEF Next, vars, StartTransaction, RunOperation, CommitEmpty, Commit, AbortEmpty, Abort, End, Serve, Refuse,
         Fail, LoseAnswer, Delay, ServeStray, ServerAborts, OperationReturns, Retry, CommitReturns, AbortReturns

\* A refused commit stays without effect.
LEMMA RefusedStep ==
    ASSUME IInv, IdleInv, ~late', PromptInv, [Next]_vars
    PROVE  RefusedInv'
  <1>0. TypeOK /\ ~late /\ stray = {}
    BY LateStep DEF IInv, PromptInv
  <1>a. RefusedInv
    BY <1>0 DEF PromptInv
  <1> USE <1>0, <1>a, CallShape DEF IInv, TypeOK, CallInv, SentInv, IdleInv, RefusedInv, Ready, InTxn, NoCall, Send, Counted, history, MustRetry
  <1>1. CASE UNCHANGED vars
    BY <1>1 DEF vars
  <1>2. CASE \E acknowledged \in BOOLEAN : StartTransaction(acknowledged)
    BY <1>2 DEF StartTransaction
  <1>3. CASE RunOperation
    BY <1>3 DEF RunOperation
  <1>4. CASE CommitEmpty
    BY <1>4 DEF CommitEmpty
  <1>5. CASE Commit
    BY <1>5 DEF Commit
  <1>6. CASE AbortEmpty
    BY <1>6 DEF AbortEmpty
  <1>7. CASE Abort
    BY <1>7 DEF Abort
  <1>8. CASE End
    BY <1>8 DEF End
  <1>9. CASE Serve
    BY <1>9, AnswerOK, EffectOpen DEF Serve, ForCommit, Waiting, Answers
  <1>10. CASE Refuse
    <2>1. call # NoCall /\ ~Accepts(call.msg) /\ UNCHANGED <<reported, server, number>> /\ call.msg.number = number
      BY <1>10 DEF Refuse, Waiting
    <2>2. call.msg \in Msgs /\ call'.kind = call.kind
      BY <1>10, <2>1, AnswerOK DEF Refuse, Answers
    <2>3. number \in Numbers
      BY <2>1, <2>2 DEF Msgs
    <2>4. call.kind = "commit" => server[number] \notin {"open", "committed"}
      BY <2>1 DEF Accepts
    <2>5. QED
      BY <2>1, <2>2, <2>3, <2>4
  <1>11. CASE Fail
    BY <1>11, AnswerOK, EffectOpen DEF Fail, ForCommit, Waiting, Answers
  <1>12. CASE LoseAnswer
    BY <1>12, AnswerOK, EffectOpen DEF LoseAnswer, Waiting, Answers
  <1>13. CASE Delay
    BY <1>13, AnswerOK, EffectOpen DEF Delay, Waiting, Answers
  <1>14. CASE \E m \in Msgs : ServeStray(m)
    BY <1>14 DEF ServeStray
  <1>15. CASE \E n \in Numbers : ServerAborts(n)
    BY <1>15 DEF ServerAborts
  <1>16. CASE OperationReturns
    BY <1>16 DEF OperationReturns
  <1>17. CASE Retry
    BY <1>17 DEF Retry
  <1>18. CASE CommitReturns
    <2>1. call # NoCall /\ call.msg.number = number /\ number \in Numbers
      BY <1>18 DEF CommitReturns, Msgs
    <2>2. reported' = [reported EXCEPT ![number] = Verdict(call.answer)]
      BY <1>18, <2>1 DEF CommitReturns
    <2>3. Verdict(call.answer) = "failed" => call.answer = "error"
      BY VerdictOK
    <2>4. reported'[number] = "failed" => server[number] \in {"none", "aborted"}
      BY <1>18, <2>1, <2>2, <2>3 DEF CommitReturns
    <2>5. QED
      BY <1>18, <2>1, <2>2, <2>4 DEF CommitReturns
  <1>19. CASE AbortReturns
    BY <1>19 DEF AbortReturns
  <1>20. QED
    BY <1>1, <1>2, <1>3, <1>4, <1>5, <1>6, <1>7, <1>8, <1>9, <1>10, <1>11, <1>12, <1>13, <1>14, <1>15, <1>16, <1>17, <1>18, <1>19 DEF Next

\* Transactions that the session leaves behind are closed, given up or unknown.
LEMMA OpenStep ==
    ASSUME IInv, IdleInv, ~late', PromptInv, [Next]_vars
    PROVE  OpenInv'
  <1>0. TypeOK /\ ~late /\ stray = {}
    BY LateStep DEF IInv, PromptInv
  <1>a. RefusedInv /\ OpenInv
    BY <1>0 DEF PromptInv
  <1> USE <1>0, <1>a, CallShape DEF IInv, TypeOK, CallInv, IdleInv, OpenInv, Ready, InTxn, NoCall, Send, history, MustRetry
  <1>1. CASE UNCHANGED vars
    BY <1>1 DEF vars
  <1>2. CASE \E acknowledged \in BOOLEAN : StartTransaction(acknowledged)
    BY <1>2 DEF StartTransaction
  <1>3. CASE RunOperation
    BY <1>3 DEF RunOperation
  <1>4. CASE CommitEmpty
    BY <1>4 DEF CommitEmpty
  <1>5. CASE Commit
    BY <1>5 DEF Commit
  <1>6. CASE AbortEmpty
    BY <1>6 DEF AbortEmpty
  <1>7. CASE Abort
    BY <1>7 DEF Abort
  <1>8. CASE End
    BY <1>8 DEF End
  <1>9. CASE Serve
    BY <1>9, AnswerOK, EffectOpen DEF Serve, ForCommit, Waiting, Answers, Msgs
  <1>10. CASE Refuse
    BY <1>10, AnswerOK, EffectOpen DEF Refuse, Waiting, Answers, Msgs
  <1>11. CASE Fail
    BY <1>11, AnswerOK, EffectOpen DEF Fail, ForCommit, Waiting, Answers, Msgs
  <1>12. CASE LoseAnswer
    BY <1>12, AnswerOK, EffectOpen DEF LoseAnswer, Waiting, Answers, Msgs
  <1>13. CASE Delay
    BY <1>13, AnswerOK, EffectOpen DEF Delay, Waiting, Answers, Msgs
  <1>14. CASE \E m \in Msgs : ServeStray(m)
    BY <1>14 DEF ServeStray
  <1>15. CASE \E n \in Numbers : ServerAborts(n)
    BY <1>15 DEF ServerAborts
  <1>16. CASE OperationReturns
    BY <1>16 DEF OperationReturns
  <1>17. CASE Retry
    BY <1>17 DEF Retry
  <1>18. CASE CommitReturns
    <2>1. call # NoCall /\ call.msg.number = number /\ number \in Numbers
      BY <1>18 DEF CommitReturns, Msgs
    <2>2. reported' = [reported EXCEPT ![number] = Verdict(call.answer)]
      BY <1>18, <2>1 DEF CommitReturns
    <2>3. CASE Verdict(call.answer) \in {"ok", "unmet"}
      <3>1. server[number] = "committed"
        BY <1>18, <2>3, VerdictOK DEF CommitReturns, OkInv
      <3>2. QED
        BY <1>18, <2>1, <2>2, <3>1 DEF CommitReturns
    <2>4. CASE Verdict(call.answer) = "failed"
      <3>1. server[number] # "open"
        BY <1>18, <2>4, VerdictOK DEF CommitReturns, RefusedInv
      <3>2. QED
        BY <1>18, <2>1, <2>2, <3>1 DEF CommitReturns
    <2>5. CASE Verdict(call.answer) = "unknown"
      BY <1>18, <2>1, <2>2, <2>5 DEF CommitReturns
    <2>6. QED
      BY <2>3, <2>4, <2>5, VerdictOK
  <1>19. CASE AbortReturns
    <2>1. call # NoCall /\ call.msg.number = number
      BY <1>19 DEF AbortReturns
    <2>2. CASE call.answer = "ok"
      BY <1>19, <2>1, <2>2 DEF AbortReturns
    <2>3. CASE call.answer # "ok"
      BY <1>19, <2>1, <2>3 DEF AbortReturns
    <2>4. QED
      BY <2>2, <2>3
  <1>20. QED
    BY <1>1, <1>2, <1>3, <1>4, <1>5, <1>6, <1>7, <1>8, <1>9, <1>10, <1>11, <1>12, <1>13, <1>14, <1>15, <1>16, <1>17, <1>18, <1>19 DEF Next

\* No command is under way on a failed connection.
LEMMA StrayStep ==
    ASSUME ~late', PromptInv, [Next]_vars
    PROVE  stray' = {}
  <1>1. stray = {}
    BY LateStep DEF PromptInv
  <1>2. QED
    BY <1>1 DEF Next, vars, StartTransaction, RunOperation, CommitEmpty, Commit, AbortEmpty, Abort, End, Serve, Refuse,
         Fail, LoseAnswer, Delay, ServeStray, ServerAborts, OperationReturns, Retry, CommitReturns, AbortReturns

\* While no command is late the session knows where its transactions stand.
LEMMA PromptTheorem == Spec => [](IInv /\ IdleInv /\ PromptInv)
  <1>1. Init => IdleInv /\ PromptInv
    BY DEF Init, IdleInv, PromptInv, RefusedInv, OpenInv, NoCall
  <1>2. IInv /\ IdleInv /\ [Next]_vars => IdleInv'
    BY IdleStep
  <1>3. IInv /\ IdleInv /\ PromptInv /\ [Next]_vars => PromptInv'
    <2> SUFFICES ASSUME IInv, IdleInv, PromptInv, [Next]_vars, ~late' PROVE (stray = {} /\ RefusedInv /\ OpenInv)'
      BY DEF PromptInv
    <2>1. QED
      BY RefusedStep, OpenStep, StrayStep
  <1>4. QED
    BY <1>1, <1>2, <1>3, IInvTheorem, PTL DEF Spec

\* A commit that failed with neither the label UnknownTransactionCommitResult nor
\* a write concern error is not in force on the server, as long as no command
\* arrived late.
THEOREM FailedMeansNotCommittedTheorem == Spec => []FailedMeansNotCommitted
  <1>1. PromptInv => FailedMeansNotCommitted
    BY DEF PromptInv, RefusedInv, FailedMeansNotCommitted
  <1>2. QED
    BY <1>1, PromptTheorem, PTL

\* After end() the server has no open transaction of this session but those
\* whose abort failed or whose commit has an unknown result.
THEOREM EndAbortsTheorem == Spec => []EndAborts
  <1>1. IdleInv /\ PromptInv => EndAborts
    BY DEF IdleInv, PromptInv, OpenInv, EndAborts
  <1>2. QED
    BY <1>1, PromptTheorem, PTL

=============================================================================
