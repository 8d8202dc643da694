---------------------------- MODULE ChangeStream ----------------------------
(***************************************************************************)
(* A change stream, from ChangeStream.swift down to libmongoc's            *)
(* mongoc_change_stream_t and the cursor it recreates when a getMore       *)
(* fails.  The server is external: its oplog is a sequence of events of    *)
(* which a stream sees the ones that are not "other".  A resume token and  *)
(* an operation time are positions of the oplog: a stream opened with      *)
(* position p starts with event p + 1.                                     *)
(*                                                                         *)
(* Every step is one reply of the server, or the local code between two of *)
(* them.  The worker holds the cursor's lock during a call, so one call is *)
(* in progress at a time (Cursor.tla is about several).                    *)
(***************************************************************************)
EXTENDS Integers, Sequences, SequencesExt

CONSTANTS
    MaxEvents,  \* length of the oplog
    MaxFaults,  \* failed replies
    MaxOpens    \* streams the user opens, one after the other

ASSUME BoundsAssumption ==
    MaxEvents \in Nat /\ MaxFaults \in Nat /\ MaxOpens \in Nat \ {0}

None == -1

\* "bad" does not decode as T, "noId" lost its _id in the user's pipeline,
\* "invalidate" makes the server close the cursor.
Kinds == {"match", "bad", "noId", "invalidate", "other"}

\* Replies to a failed getMore: no reply at all, the error label, a primary
\* that stepped down, the three excluded codes or no code, any other code.
Errors == {"empty", "NonResumableChangeStreamError", "notMaster", "excluded", "other"}

Calls == {"next", "tryNext", "toArray"}

VARIABLES
    oplog,   \* events of the server so far
    server,  \* [wire7, pbrt]: startAtOperationTime, postBatchResumeToken known
    opts,    \* [resumeAfter, startAt]: the ChangeStreamOptions of this stream
    stream,  \* the mongoc_change_stream_t
    cursor,  \* its cursor, or NoCursor
    swift,   \* the ChangeStream object and the call in progress
    pc,      \* where the worker is in that call
    ret,     \* event that mongoc_change_stream_next returns, or None
    start,   \* position the user's first stream started from
    seen,    \* events handed to the user, by all of his streams
    dropped, \* events of calls that threw instead, as one did not decode
    faults, opens

vars == <<oplog, server, opts, stream, cursor, swift, pc, ret, start, seen,
          dropped, faults, opens>>

ServerTypes == {[wire7 |-> FALSE, pbrt |-> FALSE], [wire7 |-> TRUE, pbrt |-> FALSE],
                [wire7 |-> TRUE, pbrt |-> TRUE]}

\* The events left in a cursor's batch are a set: they are read in oplog order.
NoCursor == [alive |-> FALSE, batch |-> {}, pos |-> None, pbrt |-> None, done |-> FALSE]
NoStream == [token |-> None, opTime |-> None, resumed |-> FALSE, err |-> FALSE,
             session |-> FALSE]
NoObject == [state |-> "none", token |-> None, call |-> "none", results |-> <<>>]

Positions == {None} \cup 0..MaxEvents

TypeOK ==
    /\ oplog \in Seq(Kinds) /\ Len(oplog) <= MaxEvents
    /\ server \in ServerTypes
    /\ opts \in [resumeAfter : Positions, startAt : Positions]
    /\ stream \in [token : Positions, opTime : Positions, resumed : BOOLEAN,
                   err : BOOLEAN, session : BOOLEAN]
    /\ cursor \in [alive : BOOLEAN, batch : SUBSET (1..MaxEvents),
                   pos : Positions, pbrt : Positions, done : BOOLEAN]
    /\ swift \in [state : {"none", "open", "error", "closed"}, token : Positions,
                  call : Calls \cup {"none"}, results : Seq(1..MaxEvents)]
    /\ pc \in {"idle", "pop", "refreshed", "getMore", "resume", "end"}
    /\ ret \in {None} \cup 1..MaxEvents /\ start \in Positions
    /\ seen \in Seq(1..MaxEvents)
    /\ dropped \subseteq 1..MaxEvents
    /\ faults \in 0..MaxFaults /\ opens \in 0..MaxOpens

-----------------------------------------------------------------------------
(* The server. *)

Matching(i) == oplog[i] # "other"

\* Where a scan that starts after position p may stop.
ScanEnds(p) == {q \in p..Len(oplog) : \A i \in (p + 1)..(q - 1) : oplog[i] # "invalidate"}

\* The reply to an aggregate or a getMore that scanned from p to q.
Batch(p, q) ==
    [alive |-> q = p \/ oplog[q] # "invalidate",
     batch |-> {i \in (p + 1)..q : Matching(i)},
     pos   |-> q,
     pbrt  |-> IF server.pbrt THEN q ELSE None,
     done  |-> FALSE]

\* The server refuses two starting points, a time it does not know of and
\* to resume after an invalidate event.
Accepts(cmd) ==
    /\ cmd.resumeAfter = None \/ cmd.startAt = None
    /\ cmd.startAt # None => server.wire7
    /\ cmd.resumeAfter > 0 => oplog[cmd.resumeAfter] # "invalidate"

PositionOf(cmd) ==
    IF cmd.resumeAfter # None THEN cmd.resumeAfter
    ELSE IF cmd.startAt # None THEN cmd.startAt
    ELSE Len(oplog)

Write(kind) ==
    /\ Len(oplog) < MaxEvents
    /\ oplog' = Append(oplog, kind)
    /\ UNCHANGED <<server, opts, stream, cursor, swift, pc, ret, start, seen,
                   dropped, faults, opens>>

-----------------------------------------------------------------------------
(* libmongoc: mongoc-change-stream.c. *)

_is_resumable_error(reply) ==
    reply \notin {"NonResumableChangeStreamError", "excluded"}

\* Mutant: a resumed stream starts again where the user's options say.
MakeCommandReplays(s) ==
    CASE ~s.resumed \/ opts.resumeAfter # None -> opts
      [] s.token # None   -> [resumeAfter |-> s.token, startAt |-> None]
      [] OTHER            -> [resumeAfter |-> None, startAt |-> s.opTime]

\* _make_command: the starting point in the $changeStream stage.
_make_command(s) ==
    IF ~s.resumed THEN opts
    ELSE IF s.token # None THEN [resumeAfter |-> s.token, startAt |-> None]
    ELSE [resumeAfter |-> None, startAt |-> IF server.wire7 THEN s.opTime ELSE None]

end_of_batch(c) == c.batch = {}

\* Mutant: the post-batch token is cached before the batch is read.
CacheTokenEarly(s, c) == IF c.pbrt # None THEN [s EXCEPT !.token = c.pbrt] ELSE s

\* The cached token when a reply or a document has been consumed.
CacheToken(s, c) ==
    IF end_of_batch(c) /\ c.pbrt # None THEN [s EXCEPT !.token = c.pbrt] ELSE s

\* A successful _make_cursor: the first command with resumeAfter caches it,
\* then the post-batch token, then the operation time if there is neither.
Opened(s, o, c) ==
    LET s1 == IF s.resumed \/ o.resumeAfter = None THEN s
              ELSE [s EXCEPT !.token = o.resumeAfter]
        s2 == [CacheToken(s1, c) EXCEPT !.session = TRUE]
    IN  IF /\ o.resumeAfter = None /\ s2.opTime = None /\ s2.token = None
           /\ server.wire7
        THEN [s2 EXCEPT !.opTime = Len(oplog)]
        ELSE s2

\* Mutant: an exhausted cursor's session is kept for the destructor.
AtEndKeepsSession(s, c) == IF c # NoCursor THEN CacheToken(s, c) ELSE s

\* The end: label of mongoc_change_stream_next.
AtEnd(s, c) ==
    LET s1 == IF c # NoCursor THEN CacheToken(s, c) ELSE s
    IN  [s1 EXCEPT !.session = s1.session /\ c.alive]

\* mongoc_cursor_next on a batch: a document, or one getMore, or nothing.  A
\* completed cursor answers with a client error, which counts as resumable.
Pop ==
    /\ pc \in {"pop", "refreshed"}
    /\ \/ \E i \in cursor.batch :
            /\ \A j \in cursor.batch : i <= j
            /\ cursor' = [cursor EXCEPT !.batch = @ \ {i}]
            /\ IF oplog[i] = "noId"
               THEN ret' = None /\ stream' = [stream EXCEPT !.err = TRUE]
               ELSE ret' = i /\ stream' = [stream EXCEPT !.token = i, !.opTime = None]
            /\ pc' = "end"
       \/ /\ end_of_batch(cursor)
          /\ ret' = None
          /\ cursor' = [cursor EXCEPT !.done = ~cursor.alive]
          /\ pc' = IF cursor.done THEN "resume"
                   ELSE IF cursor.alive /\ pc = "pop" THEN "getMore" ELSE "end"
          /\ UNCHANGED stream
    /\ UNCHANGED <<oplog, server, opts, swift, start, seen, dropped, faults, opens>>

GetMore ==
    /\ pc = "getMore"
    /\ \E q \in ScanEnds(cursor.pos) : cursor' = Batch(cursor.pos, q)
    /\ pc' = "refreshed"
    /\ UNCHANGED <<oplog, server, opts, stream, swift, ret, start, seen, dropped,
                   faults, opens>>

\* A getMore fails; whether the server has advanced its cursor is lost too.
GetMoreFails(reply) ==
    /\ pc = "getMore" /\ faults < MaxFaults
    /\ faults' = faults + 1
    /\ IF _is_resumable_error(reply)
       THEN pc' = "resume" /\ UNCHANGED stream
       ELSE pc' = "end" /\ stream' = [stream EXCEPT !.err = TRUE]
    /\ UNCHANGED <<oplog, server, opts, cursor, swift, ret, start, seen, dropped, opens>>

\* The resume loop: destroy the cursor and make another.  A server without
\* operation times starts a stream that has no token yet at the present.
Resume ==
    /\ pc = "resume"
    /\ \E s \in {[stream EXCEPT !.resumed = TRUE]} : \E cmd \in {_make_command(s)} :
       /\ Accepts(cmd)
       /\ \E q \in ScanEnds(PositionOf(cmd)) : \E c \in {Batch(PositionOf(cmd), q)} :
            cursor' = c /\ stream' = Opened(s, opts, c)
       /\ start' = IF server.wire7 \/ s.token # None THEN start ELSE PositionOf(cmd)
    /\ pc' = "pop"
    /\ UNCHANGED <<oplog, server, opts, swift, ret, seen, dropped, faults, opens>>

\* Mutant: a failed resume is left to the next call.
ResumeFailsQuietly ==
    /\ pc = "resume"
    /\ stream' = [stream EXCEPT !.resumed = TRUE]
    /\ \/ ~Accepts(_make_command(stream')) /\ UNCHANGED faults
       \/ faults < MaxFaults /\ faults' = faults + 1
    /\ cursor' = NoCursor /\ ret' = None
    /\ pc' = "end"
    /\ UNCHANGED <<oplog, server, opts, swift, start, seen, dropped, opens>>

ResumeFails ==
    /\ pc = "resume"
    /\ \E s \in {[stream EXCEPT !.resumed = TRUE]} :
       /\ \/ ~Accepts(_make_command(s)) /\ UNCHANGED faults
          \/ faults < MaxFaults /\ faults' = faults + 1
       /\ stream' = [s EXCEPT !.err = TRUE]
    /\ cursor' = NoCursor /\ ret' = None
    /\ pc' = "end"
    /\ UNCHANGED <<oplog, server, opts, swift, start, seen, dropped, opens>>

-----------------------------------------------------------------------------
(* ChangeStream.swift and the Cursor it wraps. *)

\* watch: a first stream with any option, or one that resumes after the
\* token of a stream that has died.
Watch(o) ==
    /\ pc = "idle" /\ swift.state # "open" /\ opens < MaxOpens
    /\ opens = 0 \/ (swift.token # None /\ o = [resumeAfter |-> swift.token, startAt |-> None])
    /\ opens' = opens + 1
    /\ opts' = o
    /\ \E s \in {[NoStream EXCEPT !.opTime = o.startAt]} :
       \/ /\ Accepts(o)
          /\ \E q \in ScanEnds(PositionOf(o)) : \E c \in {Batch(PositionOf(o), q)} :
                cursor' = c /\ stream' = Opened(s, o, c)
          /\ swift' = [state |-> "open", token |-> o.resumeAfter, call |-> "none", results |-> <<>>]
          /\ start' = IF opens = 0 THEN PositionOf(o) ELSE start
          /\ UNCHANGED faults
       \/ /\ \/ ~Accepts(o) /\ UNCHANGED faults
             \/ faults < MaxFaults /\ faults' = faults + 1
          /\ cursor' = NoCursor /\ stream' = NoStream
          /\ UNCHANGED <<swift, start>>
    /\ UNCHANGED <<oplog, server, pc, ret, seen, dropped>>

Call(kind) ==
    /\ pc = "idle" /\ swift.state = "open"
    /\ swift' = [swift EXCEPT !.call = kind, !.results = <<>>]
    /\ pc' = "pop"
    /\ UNCHANGED <<oplog, server, opts, stream, cursor, ret, start, seen, dropped,
                   faults, opens>>

Undecodable(docs) == {k \in DOMAIN docs : oplog[docs[k]] = "bad"}

\* The documents of a call that processEvent is applied to: up to the first
\* that does not decode, whose token it still takes over.
Processed(docs) ==
    IF Undecodable(docs) = {} THEN docs
    ELSE SubSeq(docs, 1, CHOOSE k \in Undecodable(docs) : \A j \in Undecodable(docs) : k <= j)

\* The end of a call: it returns its documents, or throws a DecodingError and
\* none of them, toArray() also those in front of the one it stopped at.
Hand(docs) ==
    LET given == IF Undecodable(docs) = {} THEN docs ELSE <<>>
    IN  /\ seen' = seen \o given
        /\ dropped' = (dropped \cup ToSet(docs)) \ ToSet(given)
        /\ swift' = [swift EXCEPT !.call = "none", !.results = <<>>,
                                  !.token = IF docs = <<>> THEN @ ELSE Last(Processed(docs))]

\* mongoc_change_stream_next returns, and Cursor.getNextDocument with it: an
\* error destroys the stream and the call's results, next() polls again
\* and toArray() collects until there is nothing to collect.
Return ==
    /\ pc = "end"
    /\ \E s \in {AtEnd(stream, cursor)} :
       \/ /\ s.err
          /\ stream' = NoStream /\ cursor' = NoCursor /\ pc' = "idle"
          /\ swift' = [swift EXCEPT !.state = "error", !.call = "none", !.results = <<>>]
          /\ UNCHANGED <<seen, dropped>>
       \/ /\ ~s.err /\ ret # None /\ swift.call = "toArray"
          /\ stream' = s /\ pc' = "pop"
          /\ swift' = [swift EXCEPT !.results = Append(@, ret)]
          /\ UNCHANGED <<cursor, seen, dropped>>
       \/ /\ ~s.err /\ ret = None /\ swift.call = "next"
          /\ stream' = s /\ pc' = "pop"
          /\ UNCHANGED <<cursor, swift, seen, dropped>>
       \/ /\ ~s.err /\ swift.call # IF ret = None THEN "next" ELSE "toArray"
          /\ stream' = s /\ pc' = "idle" /\ UNCHANGED cursor
          /\ Hand(IF ret = None THEN swift.results ELSE <<ret>>)
    /\ ret' = None
    /\ UNCHANGED <<oplog, server, opts, start, faults, opens>>

\* kill between two calls (one during a call waits for it: Cursor.tla).
Kill ==
    /\ pc = "idle" /\ swift.state = "open"
    /\ stream' = NoStream /\ cursor' = NoCursor
    /\ swift' = [swift EXCEPT !.state = "closed"]
    /\ UNCHANGED <<oplog, server, opts, pc, ret, start, seen, dropped, faults, opens>>

-----------------------------------------------------------------------------
Init ==
    /\ oplog = <<>> /\ server \in ServerTypes
    /\ opts = [resumeAfter |-> None, startAt |-> None]
    /\ stream = NoStream /\ cursor = NoCursor /\ swift = NoObject
    /\ pc = "idle" /\ ret = None /\ start = None
    /\ seen = <<>> /\ dropped = {} /\ faults = 0 /\ opens = 0

\* Options name positions that exist.
Options == [resumeAfter : {None} \cup 0..Len(oplog), startAt : {None} \cup 0..Len(oplog)]

StreamStep ==
    \/ Pop \/ GetMore \/ Resume \/ ResumeFails \/ Return
    \/ \E reply \in Errors : GetMoreFails(reply)

Next ==
    \/ \E kind \in Kinds : Write(kind)
    \/ \E o \in Options : Watch(o)
    \/ \E kind \in Calls : Call(kind)
    \/ StreamStep
    \/ Kill

Spec == Init /\ [][Next]_vars

\* The worker goes on, and the server does not withhold events for ever.
FairSpec ==
    Spec /\ WF_vars(StreamStep) /\ SF_vars(GetMore /\ cursor'.pos > cursor.pos)

-----------------------------------------------------------------------------
(* Properties. *)

Handed == ToSet(seen) \cup ToSet(swift.results) \cup {ret} \cup dropped

\* However often the cursor is recreated, by libmongoc after an error or by the
\* user from ChangeStream.resumeToken, events reach the user once and in order,
\* and resumeToken covers exactly what he got: none of the events he was handed
\* lies behind it and none in front of it is missing, except those of calls
\* that threw because an event did not decode (toArray() throws them all away).
ExactlyOnce ==
    /\ \A j, k \in DOMAIN seen : j < k => seen[j] < seen[k]
    /\ \A k \in DOMAIN seen : seen[k] <= swift.token
    /\ \A i \in (start + 1)..swift.token : Matching(i) => i \in ToSet(seen) \cup dropped
    /\ dropped # {} => \E i \in dropped : oplog[i] = "bad"

\* The token mongoc_change_stream_next caches never lies past an event that
\* it has not returned, even when a batch is half read.
TokenNotAhead ==
    swift.state = "open" /\ ~stream.err =>
        \A i \in (start + 1)..stream.token : Matching(i) => i \in Handed

\* The implicit session lives for every getMore, also of a cursor made by a
\* resume, and a stream that is exhausted, destroyed or failed keeps none.
SessionHeld ==
    /\ pc = "getMore" => stream.session
    /\ pc = "idle" /\ stream.session => cursor.alive \/ ~end_of_batch(cursor)

Pending == \E i \in (start + 1)..Len(oplog) : Matching(i) /\ i \notin Handed

\* A call on a stream with events to come returns, through any number of
\* resumes: the loop of mongoc_change_stream_next and the polling of next()
\* do not spin for ever.
CallReturns == (swift.call # "none" /\ Pending) ~> (swift.call = "none" \/ ~Pending)

=============================================================================
