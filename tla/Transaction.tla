---------------------------- MODULE Transaction ----------------------------
(***************************************************************************)
(* The transactions of a started ClientSession: startTransaction,          *)
(* commitTransaction, abortTransaction and end() with the libmongoc state  *)
(* machine below them (mongoc-client-session.c), its retries, and a server *)
(* reached over connections that fail.                                     *)
(*                                                                         *)
(* The session is used by one operation at a time.  The server is external *)
(* and appears as the driver relies on it: a transaction is opened by the  *)
(* command that carries startTransaction, a newer one aborts an older one, *)
(* commit of a committed transaction succeeds again.  Calls that return an *)
(* error without changing anything are left out.                           *)
(***************************************************************************)
EXTENDS Naturals

CONSTANTS
    MaxTxn     \* bound on server_session->txn_number

ASSUME TransactionAssumption == MaxTxn \in Nat \ {0}

Numbers == 1 .. MaxTxn

\* Commands within a transaction.
Msgs == [kind : {"op", "commit", "abort"}, number : Numbers, start : BOOLEAN, majority : BOOLEAN]

VARIABLES
    txn,        \* session->txn.state
    number,     \* session->server_session->txn_number
    call,       \* the call in progress: its command and the answer to it
    ended,      \* the libmongoc session is destroyed
    stray,      \* commands on failed connections that may still arrive
    late,       \* (history) some command outlived its connection
    server,     \* the state of each transaction on the server
    reported,   \* what commitTransaction last told the user
    commits,    \* (history) commit commands sent, counted up to two
    aborting,   \* (history) transactions the user aborted, also by end()
    gaveUp      \* (history) those whose abort command did not succeed

history == <<commits, aborting, gaveUp>>
vars == <<txn, number, call, ended, stray, late, server, reported, commits, aborting, gaveUp>>

TxnStates == {"none", "starting", "inProgress", "ending", "committed", "committedEmpty", "aborted"}
Answers == {"waiting", "ok", "error", "retry", "wcFailed", "wcUnmet", "expired", "noServer"}

NoCall == [kind |-> "none"]
Calls == {NoCall} \cup [kind : {"op", "commit", "abort", "end"}, msg : Msgs, try : 1 .. 2, answer : Answers]

Init ==
    /\ txn = "none"
    /\ number = 0
    /\ call = NoCall
    /\ ended = FALSE
    /\ stray = {}
    /\ late = FALSE
    /\ server = [n \in Numbers |-> "none"]
    /\ reported = [n \in Numbers |-> "none"]
    /\ commits = [n \in Numbers |-> 0]
    /\ aborting = {}
    /\ gaveUp = {}

-----------------------------------------------------------------------------
(* Calls *)

\* The user may make the next call.
Ready == call = NoCall /\ ~ended

\* _mongoc_client_session_in_txn.
InTxn == txn \in {"starting", "inProgress"}

Send(what, kind, start, majority) ==
    call' = [kind |-> what, try |-> 1, answer |-> "waiting",
             msg |-> [kind |-> kind, number |-> number, start |-> start, majority |-> majority]]

Counted(n) == [commits EXCEPT ![n] = IF @ = 0 THEN 1 ELSE 2]

\* The number is spent before the write concern is looked at.
StartTransaction(acknowledged) ==
    /\ Ready /\ ~InTxn /\ number < MaxTxn
    /\ number' = number + 1
    /\ txn' = IF acknowledged THEN "starting" ELSE txn
    /\ UNCHANGED <<call, ended, stray, late, server, reported, history>>

\* _mongoc_client_session_append_txn for a command of an operation.
RunOperation ==
    /\ Ready
    /\ \/ /\ InTxn
          /\ Send("op", "op", txn = "starting", FALSE)
          /\ txn' = "inProgress"
       \/ /\ txn \in {"committed", "committedEmpty", "aborted"}
          /\ txn' = "none"
          /\ UNCHANGED call
    /\ UNCHANGED <<number, ended, stray, late, server, reported, history>>

\* No command was sent: nothing to commit on the server.
CommitEmpty ==
    /\ Ready /\ txn \in {"starting", "committedEmpty"}
    /\ txn' = "committedEmpty"
    /\ UNCHANGED <<number, call, ended, stray, late, server, reported, history>>

\* Mutant: an aborted transaction can be committed.
CommitAborted ==
    /\ Ready /\ txn \in {"inProgress", "committed", "aborted"} /\ number > 0
    /\ Send("commit", "commit", FALSE, txn = "committed")
    /\ txn' = "ending"
    /\ commits' = Counted(number)
    /\ UNCHANGED <<number, ended, stray, late, server, reported, aborting, gaveUp>>

\* commitTransaction; in the committed state an explicit retry.
Commit ==
    /\ Ready /\ txn \in {"inProgress", "committed"}
    /\ Send("commit", "commit", FALSE, txn = "committed")
    /\ txn' = "ending"
    /\ commits' = Counted(number)
    /\ UNCHANGED <<number, ended, stray, late, server, reported, aborting, gaveUp>>

\* abortTransaction before any command was sent.
AbortEmpty ==
    /\ Ready /\ txn = "starting"
    /\ txn' = "aborted"
    /\ aborting' = aborting \cup {number}
    /\ UNCHANGED <<number, call, ended, stray, late, server, reported, commits, gaveUp>>

Abort ==
    /\ Ready /\ txn = "inProgress"
    /\ Send("abort", "abort", FALSE, FALSE)
    /\ txn' = "ending"
    /\ aborting' = aborting \cup {number}
    /\ UNCHANGED <<number, ended, stray, late, server, reported, commits, gaveUp>>

\* Mutant: end() forgets the open transaction.
EndWithoutAbort ==
    /\ Ready
    /\ ended' = TRUE
    /\ UNCHANGED <<txn, number, call, stray, late, server, reported, history>>

\* mongoc_client_session_destroy aborts a transaction that is in progress.
End ==
    /\ Ready
    /\ \/ /\ txn = "inProgress"
          /\ Send("end", "abort", FALSE, FALSE)
          /\ txn' = "ending"
          /\ aborting' = aborting \cup {number}
          /\ UNCHANGED ended
       \/ /\ txn # "inProgress"
          /\ ended' = TRUE
          /\ txn' = IF txn = "starting" THEN "aborted" ELSE txn
          /\ aborting' = IF txn = "starting" THEN aborting \cup {number} ELSE aborting
          /\ UNCHANGED call
    /\ UNCHANGED <<number, stray, late, server, reported, commits, gaveUp>>

-----------------------------------------------------------------------------
(* The server and the connections *)

\* Does the server carry out this command?
Accepts(m) ==
    CASE m.kind = "op" /\ m.start -> \A n \in Numbers : n >= m.number => server[n] = "none"
      [] m.kind = "op" /\ ~m.start -> server[m.number] = "open"
      [] m.kind = "commit" -> server[m.number] \in {"open", "committed"}
      [] m.kind = "abort" -> server[m.number] = "open"

\* A new transaction ends whatever transaction the session had open.
Effect(m) ==
    CASE m.kind = "op" ->
           [n \in Numbers |-> IF n = m.number THEN "open"
                              ELSE IF m.start /\ server[n] = "open" THEN "aborted" ELSE server[n]]
      [] m.kind = "commit" -> [server EXCEPT ![m.number] = "committed"]
      [] m.kind = "abort" -> [server EXCEPT ![m.number] = "aborted"]

Waiting == call # NoCall /\ call.answer = "waiting"

Answer(a) == call' = [call EXCEPT !.answer = a]

ForCommit(answers) == IF call.msg.kind = "commit" THEN answers ELSE {}

\* The server carries the command out and its answer arrives.  A commit may be
\* in force without its write concern: not in time (code 64) or never, since
\* the set cannot satisfy it (100) or does not know it (79); or its maxTimeMS
\* expires (50).  A retryable write concern error is LoseAnswer.
Serve ==
    /\ Waiting /\ Accepts(call.msg)
    /\ server' = Effect(call.msg)
    /\ \E a \in {"ok"} \cup ForCommit({"wcFailed", "wcUnmet", "expired"}) : Answer(a)
    /\ UNCHANGED <<txn, number, ended, stray, late, reported, history>>

Refuse ==
    /\ Waiting /\ ~Accepts(call.msg)
    /\ Answer("error")
    /\ UNCHANGED <<txn, number, ended, stray, late, server, reported, history>>

\* No server can be selected, or one that answers with a retryable error, or
\* the connection fails before the command arrives, or a commit's maxTimeMS
\* expires before it is carried out.
Fail ==
    /\ Waiting
    /\ \E a \in {"noServer", "retry"} \cup ForCommit({"expired"}) : Answer(a)
    /\ UNCHANGED <<txn, number, ended, stray, late, server, reported, history>>

\* The connection fails after the server carried the command out, or the server
\* reports a retryable write concern error.
LoseAnswer ==
    /\ Waiting /\ Accepts(call.msg)
    /\ server' = Effect(call.msg)
    /\ Answer("retry")
    /\ UNCHANGED <<txn, number, ended, stray, late, reported, history>>

\* The connection fails while the command is on its way.
Delay ==
    /\ Waiting
    /\ stray' = stray \cup {call.msg}
    /\ late' = TRUE
    /\ Answer("retry")
    /\ UNCHANGED <<txn, number, ended, server, reported, history>>

ServeStray(m) ==
    /\ m \in stray
    /\ stray' = stray \ {m}
    /\ server' = IF Accepts(m) THEN Effect(m) ELSE server
    /\ UNCHANGED <<txn, number, call, ended, late, reported, history>>

\* The server aborts an open transaction: a conflict, or its time limit.
ServerAborts(n) ==
    /\ server[n] = "open"
    /\ server' = [server EXCEPT ![n] = "aborted"]
    /\ UNCHANGED <<txn, number, call, ended, stray, late, reported, history>>

-----------------------------------------------------------------------------
(* Answers *)

\* The reply of an operation does not change the transaction's state.
OperationReturns ==
    /\ call.kind = "op" /\ call.answer # "waiting"
    /\ call' = NoCall
    /\ UNCHANGED <<txn, number, ended, stray, late, server, reported, history>>

\* txn_commit and txn_abort send their command again once, a commit with
\* write concern majority.
MustRetry == call.answer = "retry" /\ call.try = 1

Retry ==
    /\ call.kind \in {"commit", "abort", "end"} /\ MustRetry
    /\ call' = [call EXCEPT !.try = 2, !.answer = "waiting", !.msg.majority = call.kind = "commit"]
    /\ commits' = IF call.kind = "commit" THEN Counted(call.msg.number) ELSE commits
    /\ UNCHANGED <<txn, number, ended, stray, late, server, reported, aborting, gaveUp>>

\* Mutant: only an explicit error of the server is an error.
VerdictHopeful(a) == IF a = "error" THEN "failed" ELSE "ok"

\* Mutant: no UnknownTransactionCommitResult label.
VerdictUnlabelled(a) == IF a = "ok" THEN "ok" ELSE "failed"

\* What the user learns.  "unknown" is the label UnknownTransactionCommitResult;
\* "unmet" is a failure without it that carries a write concern error.
Verdict(a) ==
    CASE a = "ok" -> "ok"
      [] a = "error" -> "failed"
      [] a = "wcUnmet" -> "unmet"
      [] OTHER -> "unknown"

CommitReturns ==
    /\ call.kind = "commit" /\ call.answer # "waiting" /\ ~MustRetry
    /\ reported' = [reported EXCEPT ![call.msg.number] = Verdict(call.answer)]
    /\ txn' = "committed"
    /\ call' = NoCall
    /\ UNCHANGED <<number, ended, stray, late, server, history>>

\* The error of an abort command is ignored.
AbortReturns ==
    /\ call.kind \in {"abort", "end"} /\ call.answer # "waiting" /\ ~MustRetry
    /\ txn' = "aborted"
    /\ ended' = (call.kind = "end")
    /\ gaveUp' = IF call.answer = "ok" THEN gaveUp ELSE gaveUp \cup {call.msg.number}
    /\ call' = NoCall
    /\ UNCHANGED <<number, stray, late, server, reported, commits, aborting>>

-----------------------------------------------------------------------------
Next ==
    \/ \E acknowledged \in BOOLEAN : StartTransaction(acknowledged)
    \/ RunOperation
    \/ CommitEmpty \/ Commit \/ AbortEmpty \/ Abort \/ End
    \/ Serve \/ Refuse \/ Fail \/ LoseAnswer \/ Delay
    \/ \E m \in Msgs : ServeStray(m)
    \/ \E n \in Numbers : ServerAborts(n)
    \/ OperationReturns \/ Retry \/ CommitReturns \/ AbortReturns

Spec == Init /\ [][Next]_vars

-----------------------------------------------------------------------------
(* Safety *)

\* Type invariant; a call sends its command at most twice.
TypeOK ==
    /\ txn \in TxnStates
    /\ number \in 0 .. MaxTxn
    /\ call \in Calls
    /\ ended \in BOOLEAN
    /\ stray \in SUBSET Msgs
    /\ late \in BOOLEAN
    /\ server \in [Numbers -> {"none", "open", "committed", "aborted"}]
    /\ reported \in [Numbers -> {"none", "ok", "unmet", "failed", "unknown"}]
    /\ commits \in [Numbers -> 0 .. 2]
    /\ aborting \in SUBSET Numbers
    /\ gaveUp \in SUBSET Numbers

\* When commitTransaction succeeds after any number of retries, internal or
\* explicit, or fails with nothing but an unlabelled write concern error, the
\* server has committed that transaction (txn_commit).
CommitReported == \A n \in Numbers : reported[n] \in {"ok", "unmet"} => server[n] = "committed"

\* A transaction the user aborted, by abortTransaction or end(), is never
\* committed: not by a later commit, not by a command that arrives late, and
\* although the error of the abort command is ignored (txn_abort).
AbortIsFinal == \A n \in aborting : server[n] # "committed"

\* From the second commit command of a transaction on, whichever call sends
\* it, the write concern is majority (txn_commit, create_commit_retry_wc).
RetriesAreMajority ==
    Waiting /\ call.kind = "commit" /\ commits[call.msg.number] = 2 => call.msg.majority

\* A commit that failed with neither UnknownTransactionCommitResult nor a write
\* concern error is not in force (txn_commit labels every other error after
\* which it might be); with commands that arrive late nobody can promise this.
FailedMeansNotCommitted ==
    ~late => \A n \in Numbers : reported[n] = "failed" => server[n] # "committed"

\* After end() no transaction is left open on the server, except one whose
\* abort command failed or whose commit was reported with an unknown result
\* (mongoc_client_session_destroy).
EndAborts ==
    ended /\ ~late => \A n \in Numbers : server[n] = "open" => n \in gaveUp \/ reported[n] = "unknown"

-----------------------------------------------------------------------------
(* The inductive invariant *)

\* A call in progress is about the session's current number.
CallInv ==
    call # NoCall =>
       /\ call.msg.number = number
       /\ call.kind = "commit" <=> call.msg.kind = "commit"
       /\ txn = IF call.kind = "op" THEN "inProgress" ELSE "ending"

\* Only a transaction for which a commit command was sent can be committed.
SentInv ==
    /\ \A n \in Numbers : n > number => commits[n] = 0
    /\ InTxn => number \in Numbers /\ commits[number] = 0
    /\ \A m \in stray : m.kind = "commit" => commits[m.number] > 0
    /\ call.kind = "commit" => commits[number] > 0
    /\ \A n \in Numbers : server[n] = "committed" => commits[n] > 0

\* No commit command is ever sent for a transaction the user aborted.
AbortedInv ==
    /\ \A n \in aborting : n <= number /\ commits[n] = 0
    /\ number \in aborting => txn \notin {"starting", "inProgress", "committed"}
    /\ txn = "committed" => number \in Numbers

OkInv ==
    /\ CommitReported
    /\ call.kind = "commit" /\ call.answer \in {"ok", "wcUnmet"} => server[number] = "committed"

IInv == TypeOK /\ CallInv /\ SentInv /\ AbortedInv /\ OkInv /\ RetriesAreMajority

=============================================================================
