----------------------------- MODULE BulkWrite -----------------------------
(***************************************************************************)
(* A bulk write: BulkWriteOperation.execute, mongoc_bulk_operation_execute *)
(* and _mongoc_write_opmsg, with retryable writes over a network that      *)
(* loses replies and delivers requests late.  Neighbouring models of one   *)
(* type make one command; a command is sent in batches.  A document is     *)
(* what the properties tell apart: its kind, and whether the server        *)
(* accepts it ("ok"), rejects it ("bad") or it is too large to send.       *)
(***************************************************************************)
EXTENDS Naturals, Sequences, FiniteSets, FiniteSetsExt

CONSTANTS
    MaxOps,      \* models in the bulk write
    BatchSizes,  \* maxWriteBatchSize of the servers considered
    MaxFaults    \* lost replies, refusals and failed selections

ASSUME BoundsAssumption ==
    MaxOps \in Nat \ {0} /\ BatchSizes \subseteq Nat \ {0} /\ MaxFaults \in Nat

TypeOf == [insert |-> "insert", upsert |-> "update", updateMany |-> "update",
           deleteOne |-> "delete"]
Types == {"insert", "update", "delete"}
Models == [kind : DOMAIN TypeOf, fate : {"ok", "bad", "huge"}]

VARIABLES
    ops, ordered, maxBatch, \* the bulk write and the server's limit
    pc,         \* where mongoc_bulk_operation_execute is
    at, end,    \* next document to send, last document of the command
    txn,        \* txn_number of the server session
    retryable,  \* is_retryable of the batch in hand
    sent,       \* the request in hand
    reply,      \* its reply, once the server has answered
    ret,        \* result of the last mongoc_cluster_run_command_monitored
    result,     \* the mongoc_write_result_t
    net,        \* requests the server has yet to receive
    log,        \* replies the server remembers, by transaction number
    applied,    \* how often the server applied each document
    acked,      \* documents of the batches whose reply was merged
    outcome,    \* what the user's future is completed with
    faults

vars == <<ops, ordered, maxBatch, pc, at, end, txn, retryable, sent, reply, ret,
          result, net, log, applied, acked, outcome, faults>>
bulk == <<ops, ordered, maxBatch>>

NoReply == [n |-> 0, upserted |-> {}, errors |-> {}, wce |-> FALSE, ok |-> FALSE]
NoRequest == [txn |-> 0, first |-> 0, last |-> 0, attempt |-> 0]
Pending == [kind |-> "pending", ids |-> {}]

Docs == DOMAIN ops

-----------------------------------------------------------------------------
(* Building the commands: mongoc_bulk_operation_*_with_opts. *)

SameCommand(i, j) == \A k \in i..j : TypeOf[ops[k].kind] = TypeOf[ops[i].kind]

\* Last document of the command that starts at i.
CommandEnd(i) == Max({j \in i..Len(ops) : SameCommand(i, j)})

CommandStart(i) == Min({j \in 1..i : SameCommand(j, i)})

HasMultiWrite(i, j) == \E k \in i..j : ops[k].kind = "updateMany"

-----------------------------------------------------------------------------
(* The server: it applies a batch in order and remembers the reply to a    *)
(* transaction number, which a retry is answered with.                     *)

FirstBad(q) == {i \in q.first..q.last : ops[i].fate = "bad"}

Reached(q) ==
    IF ordered /\ FirstBad(q) # {} THEN q.first..Min(FirstBad(q)) ELSE q.first..q.last

\* Indexes in a reply count from the first document of the batch.
Relative(S, q) == {i - q.first : i \in S}

ServerReply(q, w) ==
    LET good == Reached(q) \ FirstBad(q)
    IN  [n |-> Cardinality(good),
         upserted |-> Relative({i \in good : ops[i].kind = "upsert"}, q),
         errors |-> Relative(Reached(q) \cap FirstBad(q), q),
         wce |-> w, ok |-> TRUE]

\* The server receives a request, perhaps long after the client gave up.
Execute(q, w) ==
    /\ q \in net
    /\ net' = net \ {q}
    /\ LET old == {e \in log : e.txn = q.txn /\ q.txn # 0}
           stale == q.txn # 0 /\ \E e \in log : e.txn > q.txn
           r == IF old # {} THEN (CHOOSE e \in old : TRUE).reply
                ELSE IF stale THEN NoReply ELSE ServerReply(q, w)
           new == old = {} /\ ~stale
       IN  /\ applied' = [i \in Docs |-> applied[i] +
                            IF new /\ i \in Reached(q) \ FirstBad(q) THEN 1 ELSE 0]
           /\ log' = IF new /\ q.txn # 0 THEN log \cup {[txn |-> q.txn, reply |-> r]} ELSE log
           /\ reply' = IF pc = "sent" /\ q = sent THEN r ELSE reply
    /\ UNCHANGED <<bulk, acked, pc, at, end, txn, retryable, sent, ret, result, outcome, faults>>

-----------------------------------------------------------------------------
(* mongoc_bulk_operation_execute: one server stream per command. *)

StreamForWrites ==
    /\ pc = "stream"
    /\ end' = CommandEnd(at)
    /\ ret' = FALSE
    /\ pc' = "batch"
    /\ UNCHANGED <<bulk, acked, at, txn, retryable, sent, reply, result, net, log, applied,
                   outcome, faults>>

\* No stream: the function returns with an empty reply, and Swift reports
\* the error alone, whatever earlier commands have written.
StreamForWritesFails ==
    /\ pc = "stream" /\ faults < MaxFaults
    /\ faults' = faults + 1
    /\ outcome' = [kind |-> "error", ids |-> {}]
    /\ pc' = "done"
    /\ UNCHANGED <<bulk, acked, at, end, txn, retryable, sent, reply, ret, result, net, log, applied>>

(* _mongoc_write_opmsg *)

BatchEnd == Min({end, at + maxBatch - 1})

\* A document that is too large ends the command before the documents that
\* were collected with it are sent.
TooLarge ==
    /\ pc = "batch"
    /\ \E i \in at..BatchEnd : ops[i].fate = "huge"
    /\ result' = [result EXCEPT !.failed = TRUE, !.error = "tooLarge"]
    /\ pc' = "command"
    /\ UNCHANGED <<bulk, acked, at, end, txn, retryable, sent, reply, ret, net, log, applied,
                   outcome, faults>>

Send(q) == sent' = q /\ net' = net \cup {q} /\ reply' = NoReply

\* The first attempt of a batch takes the next transaction number, unless
\* the command has a multi-document write.
ShipIt ==
    /\ pc = "batch"
    /\ \A i \in at..BatchEnd : ops[i].fate # "huge"
    /\ retryable' = ~HasMultiWrite(CommandStart(end), end)
    /\ txn' = IF retryable' THEN txn + 1 ELSE txn
    /\ Send([txn |-> IF retryable' THEN txn' ELSE 0, first |-> at, last |-> BatchEnd,
             attempt |-> 1])
    /\ pc' = "sent"
    /\ UNCHANGED <<bulk, acked, at, end, ret, result, log, applied, outcome, faults>>

\* Mutant: the number is taken after the retry label.
RetryWithNewNumber ==
    /\ pc = "retry"
    /\ txn' = txn + 1
    /\ Send([sent EXCEPT !.txn = txn', !.attempt = 2])
    /\ pc' = "sent"
    /\ UNCHANGED <<bulk, acked, at, end, retryable, ret, result, log, applied, outcome, faults>>

\* A retry sends the same payload with the same transaction number.
Retry ==
    /\ pc = "retry"
    /\ Send([sent EXCEPT !.attempt = 2])
    /\ pc' = "sent"
    /\ UNCHANGED <<bulk, acked, at, end, txn, retryable, ret, result, log, applied, outcome, faults>>

\* Mutant: indexes are kept as the server counts them.
MergeRelative(r) ==
    [result EXCEPT
        !.n[TypeOf[ops[sent.first].kind]] = @ + r.n - Cardinality(r.upserted),
        !.upserted = @ \cup {1 + i : i \in r.upserted},
        !.errors = @ \cup {1 + i : i \in r.errors},
        !.wce = @ \/ r.wce, !.failed = @ \/ r.errors # {}]

\* result_merge needs "the absolute index for a document".
Merge(r) ==
    LET absolute(S) == {sent.first + i : i \in S}
        ups == Cardinality(r.upserted)
    IN  [result EXCEPT
            !.n[TypeOf[ops[sent.first].kind]] = @ + r.n - ups,
            !.upserted = @ \cup absolute(r.upserted),
            !.errors = @ \cup absolute(r.errors),
            !.wce = @ \/ r.wce,
            !.failed = @ \/ r.errors # {}]

\* The loop goes on while there is more to send, must_stop aside.
AfterBatch(stop) == pc' = IF sent.last < end /\ ~stop THEN "batch" ELSE "command"

Receive ==
    /\ pc = "sent" /\ reply.ok
    /\ ret' = TRUE
    /\ result' = Merge(reply)
    /\ acked' = acked \cup sent.first..sent.last
    /\ at' = sent.last + 1
    /\ AfterBatch(FALSE)
    /\ UNCHANGED <<bulk, end, txn, retryable, sent, reply, net, log, applied, outcome, faults>>

\* The command failed for good: failed and must_stop.
GiveUp(e) ==
    /\ ret' = FALSE
    /\ result' = [result EXCEPT !.failed = TRUE, !.mustStop = TRUE, !.error = e]
    /\ at' = sent.last + 1
    /\ AfterBatch(TRUE)

\* A lost reply or a lost connection; the request may still be on its way.
\* _mongoc_write_error_get_type says RETRY, and a batch is retried once.
Timeout ==
    /\ pc = "sent" /\ faults < MaxFaults
    /\ faults' = faults + 1
    /\ retryable' = FALSE
    /\ IF retryable
       THEN pc' = "retry" /\ UNCHANGED <<at, ret, result>>
       ELSE GiveUp("network")
    /\ UNCHANGED <<bulk, acked, end, txn, sent, reply, net, log, applied, outcome>>

\* The server refuses the command: a state change (retryable) or not.
Refused(e) ==
    /\ pc = "sent" /\ sent \in net /\ faults < MaxFaults
    /\ faults' = faults + 1
    /\ net' = net \ {sent}
    /\ retryable' = FALSE
    /\ IF retryable /\ e = "notMaster"
       THEN pc' = "retry" /\ UNCHANGED <<at, ret, result>>
       ELSE GiveUp(e)
    /\ UNCHANGED <<bulk, acked, end, txn, sent, reply, log, applied, outcome>>

\* No writable server for the retry: the original error is reported.
RetryFails ==
    /\ pc = "retry" /\ faults < MaxFaults
    /\ faults' = faults + 1
    /\ GiveUp("network")
    /\ UNCHANGED <<bulk, acked, end, txn, retryable, sent, reply, net, log, applied, outcome>>

(* The end of a command, and of the bulk write. *)

Inserts == {i \in Docs : ops[i].kind = "insert"}

\* Mutant: only the documents with a write error are left out.
FilteredByError(r) == IF r.n.insert = 0 THEN {} ELSE Inserts \ r.errors

\* extractBulkWriteError: the ids it keeps of all the models' ids.
FilteredIDs(r) ==
    IF r.n.insert = 0 THEN {}
    ELSE IF ordered
         THEN {i \in Inserts : Cardinality({j \in Inserts : j < i}) < r.n.insert}
         ELSE Inserts \ r.errors

\* Mutant: the error alone decides, and not the failed flag.
CompletedByError(r) ==
    IF r.error = "none" /\ r.errors = {} /\ ~r.wce
    THEN [kind |-> "result", ids |-> Inserts]
    ELSE [kind |-> "bulkError", ids |-> FilteredIDs(r)]

\* MONGOC_WRITE_RESULT_COMPLETE and what Swift makes of it.
Completed(r) ==
    IF ~r.failed /\ r.error = "none" /\ r.errors = {} /\ ~r.wce
    THEN [kind |-> "result", ids |-> Inserts]
    ELSE [kind |-> "bulkError", ids |-> FilteredIDs(r)]

\* Mutant: only a lost connection ends the bulk write.
EndCommandGoesOn ==
    /\ pc = "command"
    /\ IF result.mustStop \/ end = Len(ops)
       THEN pc' = "done" /\ outcome' = Completed(result) /\ UNCHANGED at
       ELSE pc' = "stream" /\ at' = end + 1 /\ UNCHANGED outcome
    /\ UNCHANGED <<bulk, acked, end, txn, retryable, sent, reply, ret, result, net, log,
                   applied, faults>>

EndCommand ==
    /\ pc = "command"
    /\ \E r \in {IF ret THEN [result EXCEPT !.error = "none"] ELSE result} :
       /\ result' = r
       /\ IF (r.failed /\ (ordered \/ r.mustStop)) \/ end = Len(ops)
          THEN pc' = "done" /\ outcome' = Completed(r) /\ UNCHANGED at
          ELSE pc' = "stream" /\ at' = end + 1 /\ UNCHANGED outcome
    /\ UNCHANGED <<bulk, acked, end, txn, retryable, sent, reply, ret, net, log, applied, faults>>

-----------------------------------------------------------------------------
Init ==
    /\ ops \in UNION {[1..n -> Models] : n \in 1..MaxOps}
    /\ ordered \in BOOLEAN
    /\ maxBatch \in BatchSizes
    /\ pc = "stream" /\ at = 1 /\ end = 0
    /\ txn = 0 /\ retryable = FALSE /\ ret = FALSE
    /\ sent = NoRequest /\ reply = NoReply
    /\ result = [n |-> [t \in Types |-> 0], upserted |-> {}, errors |-> {}, wce |-> FALSE,
                 failed |-> FALSE, mustStop |-> FALSE, error |-> "none"]
    /\ net = {} /\ log = {}
    /\ applied = [i \in Docs |-> 0]
    /\ acked = {} /\ outcome = Pending /\ faults = 0

Next ==
    \/ StreamForWrites \/ StreamForWritesFails
    \/ TooLarge \/ ShipIt \/ Retry \/ RetryFails
    \/ Receive \/ Timeout
    \/ \E e \in {"notMaster", "other"} : Refused(e)
    \/ EndCommand
    \/ \E q \in net, w \in BOOLEAN : Execute(q, w)

Spec == Init /\ [][Next]_vars

-----------------------------------------------------------------------------
(* Properties. *)

\* However replies are lost and requests delayed, the server never applies a
\* document of the bulk write twice.
AtMostOnce == \A i \in Docs : applied[i] <= 1

\* A bulk write that reports success has had every document applied.
SuccessIsComplete == outcome.kind = "result" => \A i \in Docs : applied[i] = 1

\* What the result says of the batches that were answered is what the server
\* did with them, each count in its place and each error and each upsert at
\* the index of its model, over batches, commands and retries.
ReportIsTrue ==
    LET done(t) == {i \in acked : TypeOf[ops[i].kind] = t /\ applied[i] = 1}
        upserts == {i \in done("update") : ops[i].kind = "upsert"}
        bad == {i \in acked : ops[i].fate = "bad"}
    IN  /\ result.n.insert = Cardinality(done("insert"))
        /\ result.n.delete = Cardinality(done("delete"))
        /\ result.n.update = Cardinality(done("update") \ upserts)
        /\ result.upserted = upserts
        /\ result.errors \subseteq bad
        /\ \A i \in bad \ result.errors : ordered /\ \E j \in result.errors : j < i

\* In an ordered bulk write no document is applied unless every document of
\* the commands before its own was.
OrderedCommands ==
    ordered => \A j \in Docs : applied[j] > 0 =>
                  \A i \in 1..(CommandStart(j) - 1) : applied[i] = 1

\* No command is sent in more than one batch.
Unsplit == \A i \in Docs : i - CommandStart(i) < maxBatch

\* The ids in the result of a failed bulk write are those of the documents
\* known to be inserted, if an ordered one was not split and an unordered one
\* was answered in full.
IDsAreInserted ==
    outcome.kind = "bulkError" /\ (IF ordered THEN Unsplit ELSE acked = Docs) =>
        outcome.ids = {i \in Inserts \cap acked : applied[i] = 1}

\* BulkWriteOptions.ordered: "operations will be executed serially in order
\* and a write error will abort execution of the entire bulk write".
OrderedStops ==
    ordered => \A i, j \in Docs : i < j /\ i \in result.errors => applied[j] = 0

=============================================================================
