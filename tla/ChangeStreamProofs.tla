------------------------- MODULE ChangeStreamProofs -------------------------
(***************************************************************************)
(* The safety of ChangeStream for an oplog of any length, any number of    *)
(* failed replies and of streams opened one after the other: every event   *)
(* once and in order but for those of calls that threw, a resume token     *)
(* that is never ahead of the events it stands for, and an implicit        *)
(* session for as long as the cursor lives.                                *)
(***************************************************************************)
EXTENDS ChangeStream, WellFoundedInduction, TLAPS

USE BoundsAssumption

\* The numbers in s grow.
Growing(s) == \A i, j \in DOMAIN s : i < j => s[i] < s[j]

\* Where the worker is, and what a call has in its hands there.
CallInv ==
    /\ pc # "idle" => swift.state = "open"
    /\ pc = "idle" => swift.call = "none"
    /\ pc # "end" => ret = None /\ ~stream.err
    /\ swift.call # "toArray" => swift.results = <<>>
    /\ pc = "getMore" => end_of_batch(cursor) /\ cursor.alive
    /\ opens = 0 => swift.state = "none"
    /\ swift.state = "none" => seen = <<>> /\ swift.token = None
    /\ swift.state # "none" => start \in 0..Len(oplog)

\* The events of the user and of the call in progress.
Taken == ToSet(seen) \cup ToSet(swift.results) \cup ({ret} \ {None})

\* They are in order, and those of the call lie behind the user's token.
OrderInv ==
    /\ Growing(seen) /\ Growing(swift.results)
    /\ \A j \in ToSet(swift.results) \cup ({ret} \ {None}) : swift.token < j
    /\ \A i \in ToSet(seen) : \A j \in ToSet(swift.results) : i < j
    /\ ret # None => \A i \in ToSet(seen) \cup ToSet(swift.results) : i < ret

\* ChangeStream.resumeToken is the token of an event that exists; libmongoc then
\* has a token too, which is not behind it.
TokenInv ==
    /\ swift.token <= Len(oplog)
    /\ \A i \in dropped : i <= Len(oplog)
    /\ swift.state = "open" /\ ~stream.err /\ swift.token # None =>
           stream.token # None /\ swift.token <= stream.token

\* Where a resume of the libmongoc stream s starts.
From(s, first) == IF s.token # None THEN s.token ELSE first

\* Every matching event after position p up to q is one of S.
Covered(p, q, S) == \A i \in (p + 1)..q : Matching(i) => i \in S

\* What a stream s with cursor c has done: what was taken lies before the
\* position to resume from, the batch behind it, and nothing is missing on
\* either side.
Good(s, c, first, taken, handed) ==
    /\ s.token = None => /\ taken = {} /\ first \in 0..Len(oplog)
                         /\ server.wire7 => s.opTime = first
    /\ c.pos \in 0..Len(oplog) /\ From(s, first) \in 0..c.pos
    /\ \A i \in taken : i <= From(s, first)
    /\ \A i \in c.batch : From(s, first) < i /\ i <= c.pos
    /\ Covered(first, From(s, first), handed)
    /\ Covered(From(s, first), c.pos, c.batch)
    /\ c.pbrt \in {None, c.pos}

LiveInv ==
    swift.state = "open" /\ ~stream.err => Good(stream, cursor, start, Taken, Handed)

\* A live cursor has its session.
SessionInv ==
    /\ swift.state = "open" /\ cursor.alive => stream.session
    /\ SessionHeld

IInv == TypeOK /\ CallInv /\ OrderInv /\ TokenInv /\ LiveInv /\ SessionInv /\ ExactlyOnce

-----------------------------------------------------------------------------
(* Sequences of events *)

Events == 1..MaxEvents

\* A set of numbers has a least one.
LEMMA LeastExists ==
    ASSUME NEW S \in SUBSET Nat, S # {}
    PROVE  \E x \in S : \A y \in S : x <= y
  <1> DEFINE R == {ss \in Nat \X Nat : ss[1] < ss[2]}
  <1>1. IsWellFoundedOn(R, Nat)
    BY NatLessThanWellFounded DEF OpToRel
  <1> HIDE DEF R
  <1>2. PICK x \in S : \A y \in S : ~ (<<y, x>> \in R)
    BY <1>1, WFMin
  <1>3. ASSUME NEW y \in S, y < x PROVE FALSE
    <2>1. <<y, x>> \in Nat \X Nat /\ <<y, x>>[1] = y /\ <<y, x>>[2] = x
      OBVIOUS
    <2>2. <<y, x>>[1] < <<y, x>>[2]
      BY <1>3, <2>1
    <2>3. <<y, x>> \in R
      BY <2>1, <2>2, Zenon DEF R
    <2>4. QED
      BY <1>2, <2>3
  <1>4. QED
    BY <1>3

LEMMA EmptyFacts ==
    <<>> \in Seq(Events) /\ ToSet(<<>>) = {} /\ Growing(<<>>)
  BY DEF ToSet, Growing

LEMMA OneFacts ==
    ASSUME NEW d \in Events
    PROVE  <<d>> \in Seq(Events) /\ ToSet(<<d>>) = {d} /\ Growing(<<d>>) /\ <<d>> # <<>>
  <1>1. <<d>> \in Seq(Events) /\ DOMAIN <<d>> = {1} /\ <<d>>[1] = d /\ Len(<<d>>) = 1 /\ Len(<<>>) = 0
    OBVIOUS
  <1>2. QED
    BY <1>1 DEF ToSet, Growing

\* The last event of a growing sequence is its greatest.
LEMMA LastFacts ==
    ASSUME NEW s \in Seq(Events), s # <<>>
    PROVE  /\ Last(s) \in ToSet(s) /\ Last(s) \in Events /\ ToSet(s) \subseteq Events
           /\ Growing(s) => \A i \in ToSet(s) : i <= Last(s)
  <1>1. Len(s) \in DOMAIN s /\ Last(s) = s[Len(s)] /\ DOMAIN s = 1..Len(s) /\ Len(s) \in Nat
    BY DEF Last
  <1>2. \A k \in DOMAIN s : s[k] \in Events
    OBVIOUS
  <1>3. ASSUME Growing(s), NEW k \in DOMAIN s PROVE s[k] <= Last(s)
    <2>1. CASE k = Len(s)
      BY <1>1, <1>2, <2>1 DEF Events
    <2>2. CASE k < Len(s)
      BY <1>1, <1>2, <1>3, <2>2 DEF Growing, Events
    <2>3. QED
      BY <1>1, <2>1, <2>2
  <1>4. QED
    BY <1>1, <1>2, <1>3 DEF ToSet

LEMMA ToSetEvents ==
    ASSUME NEW s \in Seq(Events)
    PROVE  ToSet(s) \subseteq Events
  BY DEF ToSet

\* Two sequences, one after the other.
LEMMA CatFacts ==
    ASSUME NEW s \in Seq(Events), NEW u \in Seq(Events)
    PROVE  /\ s \o u \in Seq(Events) /\ ToSet(s \o u) = ToSet(s) \cup ToSet(u)
           /\ Growing(s) /\ Growing(u) /\ (\A i \in ToSet(s) : \A j \in ToSet(u) : i < j) => Growing(s \o u)
           /\ u # <<>> => Last(s \o u) = Last(u) /\ s \o u # <<>>
           /\ u = <<>> => s \o u = s
  <1> DEFINE c == s \o u
  <1>1. /\ c \in Seq(Events) /\ Len(c) = Len(s) + Len(u)
        /\ Len(s) \in Nat /\ Len(u) \in Nat
        /\ DOMAIN s = 1..Len(s) /\ DOMAIN u = 1..Len(u) /\ DOMAIN c = 1..(Len(s) + Len(u))
    OBVIOUS
  <1>2. \A i \in DOMAIN s : i \in DOMAIN c /\ c[i] = s[i]
    BY <1>1
  <1>3. \A j \in DOMAIN u : Len(s) + j \in DOMAIN c /\ c[Len(s) + j] = u[j]
    BY <1>1
  <1>4. \A k \in DOMAIN c : (k \in DOMAIN s /\ c[k] = s[k])
                            \/ (k - Len(s) \in DOMAIN u /\ k > Len(s) /\ c[k] = u[k - Len(s)])
    BY <1>1
  <1>a. u = <<>> => c = s
    OBVIOUS
  <1>b. u # <<>> => Len(u) > 0
    OBVIOUS
  <1>c. c = <<>> => Len(c) = 0
    OBVIOUS
  <1> HIDE DEF c
  <1>5. ASSUME Growing(s), Growing(u), \A i \in ToSet(s) : \A j \in ToSet(u) : i < j PROVE Growing(c)
    <2> SUFFICES ASSUME NEW i \in DOMAIN c, NEW j \in DOMAIN c, i < j PROVE c[i] < c[j]
      BY DEF Growing
    <2>1. CASE i \in DOMAIN s /\ c[i] = s[i] /\ j \in DOMAIN s /\ c[j] = s[j]
      BY <1>5, <2>1 DEF Growing
    <2>2. CASE i \in DOMAIN s /\ c[i] = s[i] /\ j - Len(s) \in DOMAIN u /\ c[j] = u[j - Len(s)]
      BY <1>5, <2>2 DEF ToSet
    <2>3. CASE i - Len(s) \in DOMAIN u /\ i > Len(s) /\ j \in DOMAIN s
      BY <1>1, <2>3
    <2>4. CASE i - Len(s) \in DOMAIN u /\ c[i] = u[i - Len(s)] /\ j - Len(s) \in DOMAIN u /\ c[j] = u[j - Len(s)]
      <3>1. i - Len(s) < j - Len(s)
        BY <1>1
      <3>2. QED
        BY <1>5, <2>4, <3>1 DEF Growing
    <2>5. QED
      BY <1>4, <2>1, <2>2, <2>3, <2>4
  <1>6. ToSet(c) = ToSet(s) \cup ToSet(u)
    <2>1. ToSet(c) \subseteq ToSet(s) \cup ToSet(u)
      BY <1>4 DEF ToSet
    <2>2. ToSet(s) \subseteq ToSet(c) /\ ToSet(u) \subseteq ToSet(c)
      BY <1>2, <1>3 DEF ToSet
    <2>3. QED
      BY <2>1, <2>2
  <1>7. u # <<>> => Last(c) = Last(u) /\ c # <<>>
    BY <1>1, <1>3, <1>b, <1>c DEF Last
  <1>8. QED
    BY <1>1, <1>5, <1>6, <1>7, <1>a DEF c

\* processEvent is given a prefix of a call's documents, up to and with the
\* first that does not decode.
LEMMA ProcessedFacts ==
    ASSUME NEW docs \in Seq(Events), Growing(docs)
    PROVE  /\ Processed(docs) \in Seq(Events) /\ Growing(Processed(docs))
           /\ ToSet(Processed(docs)) \subseteq ToSet(docs)
           /\ docs # <<>> <=> Processed(docs) # <<>>
           /\ Undecodable(docs) = {} => \A i \in ToSet(docs) : oplog[i] # "bad"
           /\ Undecodable(docs) # {} => \E i \in ToSet(docs) : oplog[i] = "bad"
  <1> DEFINE bad == Undecodable(docs)
  <1>a. /\ bad = {} => \A i \in ToSet(docs) : oplog[i] # "bad"
        /\ bad # {} => \E i \in ToSet(docs) : oplog[i] = "bad"
    BY DEF Undecodable, ToSet
  <1>b. bad \subseteq DOMAIN docs
    BY DEF Undecodable
  <1>1. CASE bad = {}
    BY <1>1, <1>a DEF Processed
  <1>2. CASE bad # {}
    <2> DEFINE m == CHOOSE k \in bad : \A j \in bad : k <= j
               g == SubSeq(docs, 1, m)
    <2>1. m \in bad
      <3>1. bad \in SUBSET Nat
        BY <1>b
      <3> HIDE DEF bad
      <3>2. \E k \in bad : \A j \in bad : k <= j
        BY <1>2, <3>1, LeastExists
      <3>3. QED
        BY <3>2
    <2>2. m \in 1..Len(docs) /\ DOMAIN docs = 1..Len(docs) /\ Len(docs) \in Nat
      BY <1>b, <2>1
    <2>3. Processed(docs) = g
      BY <1>2 DEF Processed
    <2> HIDE DEF m
    <2>4. g \in Seq(Events) /\ Len(g) = m /\ DOMAIN g = 1..m /\ \A k \in 1..m : g[k] = docs[k]
      BY <2>2
    <2>n. g # <<>> /\ docs # <<>>
      BY <2>2, <2>4
    <2> HIDE DEF g
    <2>6. Growing(g)
      BY <2>2, <2>4 DEF Growing
    <2>7. ToSet(g) \subseteq ToSet(docs)
      BY <2>2, <2>4 DEF ToSet
    <2>8. QED
      BY <1>2, <1>a, <2>3, <2>4, <2>n, <2>6, <2>7
  <1>3. QED
    BY <1>1, <1>2

-----------------------------------------------------------------------------
(* Streams and cursors *)

Streams == [token : Positions, opTime : Positions, resumed : BOOLEAN, err : BOOLEAN, session : BOOLEAN]
Cursors == [alive : BOOLEAN, batch : SUBSET (1..MaxEvents), pos : Positions, pbrt : Positions, done : BOOLEAN]
Objects == [state : {"none", "open", "error", "closed"}, token : Positions,
            call : Calls \cup {"none"}, results : Seq(1..MaxEvents)]

LEMMA TypeFacts ==
    ASSUME TypeOK
    PROVE  /\ stream \in Streams /\ cursor \in Cursors /\ swift \in Objects
           /\ Len(oplog) \in Nat /\ Len(oplog) <= MaxEvents
           /\ 0..Len(oplog) \subseteq Positions /\ None \in Positions
           /\ Positions \subseteq Int
  <1>1. stream \in Streams /\ cursor \in Cursors /\ swift \in Objects
    BY DEF TypeOK, Streams, Cursors, Objects
  <1>2. oplog \in Seq(Kinds) /\ Len(oplog) <= MaxEvents
    BY DEF TypeOK
  <1>3. QED
    BY <1>1, <1>2 DEF Positions, None

\* A reply of the server that scanned from p to q.
LEMMA BatchFacts ==
    ASSUME TypeOK, NEW p \in 0..Len(oplog), NEW q \in ScanEnds(p)
    PROVE  /\ Batch(p, q) \in Cursors
           /\ q \in p..Len(oplog) /\ Batch(p, q).pos = q
           /\ Batch(p, q).batch = {i \in (p + 1)..q : Matching(i)}
           /\ Batch(p, q).pbrt \in {None, q}
           /\ Batch(p, q).alive \/ ~end_of_batch(Batch(p, q))
  <1>1. q \in p..Len(oplog) /\ Len(oplog) \in Nat /\ Len(oplog) <= MaxEvents
    BY TypeFacts DEF ScanEnds
  <1>2. (q = p \/ oplog[q] # "invalidate") \in BOOLEAN
    OBVIOUS
  <1>3. {i \in (p + 1)..q : Matching(i)} \in SUBSET (1..MaxEvents)
    BY <1>1
  <1>4. q \in Positions /\ (IF server.pbrt THEN q ELSE None) \in Positions
    BY <1>1 DEF Positions
  <1>5. Batch(p, q) \in Cursors
    BY <1>2, <1>3, <1>4 DEF Batch, Cursors
  <1>6. Batch(p, q).pos = q /\ Batch(p, q).batch = {i \in (p + 1)..q : Matching(i)}
    BY DEF Batch
  <1>7. Batch(p, q).pbrt \in {None, q}
    BY DEF Batch
  <1>8. Batch(p, q).alive \/ ~end_of_batch(Batch(p, q))
    <2> SUFFICES ASSUME ~Batch(p, q).alive PROVE q \in Batch(p, q).batch
      BY DEF end_of_batch
    <2>1. ~(q = p \/ oplog[q] # "invalidate")
      BY DEF Batch
    <2>2. q \in (p + 1)..q /\ Matching(q)
      BY <1>1, <2>1 DEF Matching
    <2>3. QED
      BY <1>6, <2>2
  <1>9. QED
    BY <1>1, <1>5, <1>6, <1>7, <1>8

LEMMA NothingBetween ==
    ASSUME NEW p \in Int, NEW S
    PROVE  Covered(p, p, S)
  BY DEF Covered

\* What caching a token changes.
LEMMA CacheFacts ==
    ASSUME NEW s \in Streams, NEW c \in Cursors
    PROVE  /\ CacheToken(s, c) \in Streams
           /\ CacheToken(s, c).opTime = s.opTime /\ CacheToken(s, c).resumed = s.resumed
           /\ CacheToken(s, c).err = s.err /\ CacheToken(s, c).session = s.session
           /\ \/ CacheToken(s, c).token = s.token
              \/ c.batch = {} /\ c.pbrt # None /\ CacheToken(s, c).token = c.pbrt
  BY DEF CacheToken, end_of_batch, Streams, Cursors

\* The post-batch token of a batch that has been read stands for nothing else.
LEMMA CacheGood ==
    ASSUME TypeOK, NEW s \in Streams, NEW c \in Cursors, NEW first \in Positions,
           NEW taken \in SUBSET Events, NEW handed, Good(s, c, first, taken, handed)
    PROVE  Good(CacheToken(s, c), c, first, taken, handed)
  <1> DEFINE r == CacheToken(s, c)
             f == From(s, first)
  <1>1. CASE r.token = s.token
    BY <1>1, CacheFacts DEF Good, From
  <1>2. CASE c.batch = {} /\ c.pbrt # None /\ r.token = c.pbrt
    <2>1. r.token = c.pos /\ c.pos # None /\ c.pos \in 0..Len(oplog) /\ From(r, first) = c.pos
      BY <1>2, TypeFacts DEF Good, None, From
    <2>2. f \in 0..c.pos /\ first \in Int
      BY TypeFacts DEF Good
    <2>3. \A i \in taken : i <= c.pos
      BY <2>1, <2>2, TypeFacts DEF Good, Events
    <2>4. Covered(first, c.pos, handed)
      <3> SUFFICES ASSUME NEW i \in (first + 1)..c.pos, Matching(i) PROVE i \in handed
        BY DEF Covered
      <3>1. CASE i <= f
        BY <2>2, <3>1 DEF Good, Covered
      <3>2. CASE i > f
        <4>1. i \in (f + 1)..c.pos
          BY <2>1, <2>2, <3>2, TypeFacts
        <4>2. QED
          BY <1>2, <4>1 DEF Good, Covered
      <3>3. QED
        BY <2>1, <2>2, <3>1, <3>2, TypeFacts
    <2>5. Covered(c.pos, c.pos, c.batch)
      BY <2>1 DEF Covered
    <2>6. c.pos \in 0..c.pos
      BY <2>1, TypeFacts
    <2>7. QED
      BY <1>2, <2>1, <2>3, <2>4, <2>5, <2>6 DEF Good
  <1>3. QED
    BY <1>1, <1>2, CacheFacts

\* A cursor opened at the position to resume from.
LEMMA OpenGood ==
    ASSUME TypeOK, NEW s \in Streams, NEW first \in Positions,
           NEW taken \in SUBSET Events, NEW handed,
           NEW p \in 0..Len(oplog), p = From(s, first), NEW q \in ScanEnds(p),
           s.token = None => taken = {} /\ (server.wire7 => s.opTime = first),
           \A i \in taken : i <= p,
           Covered(first, p, handed)
    PROVE  Good(s, Batch(p, q), first, taken, handed)
  <1> DEFINE c == Batch(p, q)
  <1>1. /\ q \in p..Len(oplog) /\ c.pos = q /\ c.batch = {i \in (p + 1)..q : Matching(i)}
        /\ c.pbrt \in {None, q} /\ Len(oplog) \in Nat
    BY BatchFacts, TypeFacts
  <1> HIDE DEF c
  <1>2. \A i \in c.batch : p < i /\ i <= c.pos
    BY <1>1
  <1>3. Covered(p, c.pos, c.batch)
    BY <1>1 DEF Covered
  <1>4. c.pos \in 0..Len(oplog) /\ p \in 0..c.pos
    BY <1>1
  <1>5. s.token = None => first \in 0..Len(oplog)
    BY DEF From
  <1>6. QED
    BY <1>1, <1>2, <1>3, <1>4, <1>5 DEF Good, c

\* The end of mongoc_change_stream_next.
LEMMA AtEndFacts ==
    ASSUME NEW s \in Streams, NEW c \in Cursors
    PROVE  /\ AtEnd(s, c) \in Streams
           /\ AtEnd(s, c).err = s.err
           /\ AtEnd(s, c).session = (s.session /\ c.alive)
           /\ AtEnd(s, c).token = CacheToken(s, c).token
           /\ AtEnd(s, c).opTime = s.opTime
  <1> DEFINE s1 == IF c # NoCursor THEN CacheToken(s, c) ELSE s
  <1>1. CacheToken(s, NoCursor) = s
    BY DEF CacheToken, NoCursor
  <1>2. s1 = CacheToken(s, c)
    BY <1>1
  <1>3. (s1.session /\ c.alive) \in BOOLEAN
    OBVIOUS
  <1>4. AtEnd(s, c) = [s1 EXCEPT !.session = s1.session /\ c.alive]
    BY DEF AtEnd
  <1> HIDE DEF s1
  <1>5. s1 \in Streams
    BY <1>2, CacheFacts
  <1>6. QED
    BY <1>2, <1>3, <1>4, <1>5, CacheFacts DEF Streams

\* Good only looks at a stream's token, and at its operation time if it has none.
LEMMA GoodLooks ==
    ASSUME NEW s, NEW r, r.token = s.token, s.token = None /\ server.wire7 => r.opTime = s.opTime,
           NEW c, NEW first, NEW taken, NEW handed, Good(s, c, first, taken, handed)
    PROVE  Good(r, c, first, taken, handed)
  BY DEF Good, From

\* Fewer events taken and more handed out.
LEMMA GoodMono ==
    ASSUME NEW s, NEW c, NEW first, NEW taken, NEW handed, NEW less, NEW more,
           less \subseteq taken, handed \subseteq more, Good(s, c, first, taken, handed)
    PROVE  Good(s, c, first, less, more)
  BY DEF Good, Covered

\* The stream with the token that the first command of a stream caches.
Begun(s, o) == IF s.resumed \/ o.resumeAfter = None THEN s ELSE [s EXCEPT !.token = o.resumeAfter]

\* A successful _make_cursor.
LEMMA OpenedFacts ==
    ASSUME NEW s \in Streams, NEW c \in Cursors, NEW o, o.resumeAfter \in Positions,
           Len(oplog) \in Positions
    PROVE  LET r == Opened(s, o, c)
               t == Begun(s, o)
           IN  /\ r \in Streams /\ t \in Streams
               /\ r.token = CacheToken(t, c).token /\ r.err = s.err /\ r.session = TRUE
               /\ r.opTime = IF /\ o.resumeAfter = None /\ s.opTime = None /\ r.token = None /\ server.wire7
                            THEN Len(oplog) ELSE s.opTime
  <1> DEFINE t == Begun(s, o)
             s2 == [CacheToken(t, c) EXCEPT !.session = TRUE]
             r == Opened(s, o, c)
  <1>1. t \in Streams /\ t.opTime = s.opTime /\ t.err = s.err
    BY DEF Streams, Begun
  <1> HIDE DEF t
  <1>2. CacheToken(t, c) \in Streams /\ CacheToken(t, c).opTime = s.opTime /\ CacheToken(t, c).err = s.err
    BY <1>1, CacheFacts
  <1>3. s2 \in Streams /\ s2.token = CacheToken(t, c).token /\ s2.opTime = s.opTime /\ s2.err = s.err /\ s2.session = TRUE
    BY <1>2 DEF Streams
  <1>4. r = IF /\ o.resumeAfter = None /\ s2.opTime = None /\ s2.token = None /\ server.wire7
            THEN [s2 EXCEPT !.opTime = Len(oplog)] ELSE s2
    BY DEF Opened, Begun, t
  <1> HIDE DEF s2, r
  <1>5. r \in Streams /\ r.token = s2.token /\ r.err = s2.err /\ r.session = s2.session
    BY <1>3, <1>4 DEF Streams
  <1>6. r.opTime = IF /\ o.resumeAfter = None /\ s.opTime = None /\ r.token = None /\ server.wire7
                   THEN Len(oplog) ELSE s.opTime
    BY <1>3, <1>4, <1>5 DEF Streams
  <1>7. QED
    BY <1>1, <1>3, <1>5, <1>6 DEF r, t

\* A stream that has made its cursor at the position to start from.
LEMMA OpenedGood ==
    ASSUME TypeOK, NEW s \in Streams, NEW o, NEW first \in Positions,
           NEW taken \in SUBSET Events, NEW handed, NEW p \in 0..Len(oplog), NEW q \in ScanEnds(p),
           o.resumeAfter \in Positions,
           p = From(Begun(s, o), first),
           Begun(s, o).token = None => taken = {},
           Begun(s, o).token = None /\ server.wire7 =>
               s.opTime = first \/ (o.resumeAfter = None /\ s.opTime = None /\ first = Len(oplog)),
           \A i \in taken : i <= p,
           Covered(first, p, handed)
    PROVE  /\ Good(Opened(s, o, Batch(p, q)), Batch(p, q), first, taken, handed)
           /\ Opened(s, o, Batch(p, q)) \in Streams
           /\ Begun(s, o).token # None => /\ Opened(s, o, Batch(p, q)).token # None
                                          /\ Begun(s, o).token <= Opened(s, o, Batch(p, q)).token
           /\ Opened(s, o, Batch(p, q)).err = s.err /\ Opened(s, o, Batch(p, q)).session = TRUE
  <1>t. PICK t : t = Begun(s, o)
    OBVIOUS
  <1> DEFINE c == Batch(p, q)
             r == Opened(s, o, c)
             u == [t EXCEPT !.opTime = first]
             k == CacheToken(u, c)
  <1>0. c \in Cursors /\ Len(oplog) \in Positions /\ Len(oplog) # None
    BY BatchFacts, TypeFacts DEF None
  <1>1. /\ r \in Streams /\ t \in Streams /\ r.token = CacheToken(t, c).token
        /\ r.err = s.err /\ r.session = TRUE
        /\ r.opTime = IF o.resumeAfter = None /\ s.opTime = None /\ r.token = None /\ server.wire7
                      THEN Len(oplog) ELSE s.opTime
    <2> HIDE DEF c
    <2>1. QED
      BY <1>0, <1>t, OpenedFacts
  <1>2. u \in Streams /\ u.token = t.token /\ u.opTime = first
    BY <1>1 DEF Streams
  <1>3. Good(u, c, first, taken, handed)
    BY <1>2, <1>t, OpenGood DEF From
  <1>4. Good(k, c, first, taken, handed)
    BY <1>0, <1>2, <1>3, CacheGood
  <1> HIDE DEF c, u
  <1>5. k.token = r.token /\ k.opTime = first
    <2>1. CASE end_of_batch(c) /\ c.pbrt # None
      BY <1>1, <1>2, <2>1 DEF CacheToken, Streams
    <2>2. CASE ~(end_of_batch(c) /\ c.pbrt # None)
      BY <1>1, <1>2, <2>2 DEF CacheToken
    <2>3. QED
      BY <2>1, <2>2
  <1>6. t.token # None => r.token # None /\ t.token <= r.token
    <2> SUFFICES ASSUME t.token # None PROVE r.token # None /\ t.token <= r.token
      OBVIOUS
    <2>1. t.token = p /\ p \in Int
      BY <1>t DEF From
    <2>2. c.pbrt \in {None, q} /\ q \in p..Len(oplog)
      BY BatchFacts DEF c
    <2>3. CASE r.token = t.token
      BY <2>1, <2>3
    <2>4. CASE c.pbrt # None /\ r.token = c.pbrt
      BY <2>1, <2>2, <2>4, TypeFacts
    <2>5. QED
      BY <1>0, <1>1, <2>3, <2>4, CacheFacts
  <1> HIDE DEF r, k
  <1>7. k.token = None /\ server.wire7 => r.opTime = k.opTime
    <2> SUFFICES ASSUME k.token = None, server.wire7 PROVE r.opTime = first
      BY <1>5
    <2>1. t.token = None /\ r.token = None
      BY <1>5, <1>6
    <2>2. first = p /\ first # None
      BY <1>t, <2>1 DEF From, None
    <2>3. QED
      BY <1>0, <1>1, <1>t, <2>1, <2>2
  <1>8. Good(r, c, first, taken, handed)
    BY <1>4, <1>5, <1>7, GoodLooks
  <1>9. QED
    BY <1>t, <1>1, <1>6, <1>8 DEF r, c

\* A getMore goes on where the batch ended.
LEMMA GetMoreGood ==
    ASSUME TypeOK, NEW s \in Streams, NEW c \in Cursors, NEW first \in Positions,
           NEW taken \in SUBSET Events, NEW handed, Good(s, c, first, taken, handed),
           c.batch = {}, NEW q \in ScanEnds(c.pos)
    PROVE  Good(s, Batch(c.pos, q), first, taken, handed)
  <1> DEFINE d == Batch(c.pos, q)
             f == From(s, first)
  <1>1. c.pos \in 0..Len(oplog) /\ f \in 0..c.pos /\ Len(oplog) \in Nat
    BY TypeFacts DEF Good
  <1>2. /\ q \in c.pos..Len(oplog) /\ d.pos = q /\ d.batch = {i \in (c.pos + 1)..q : Matching(i)}
        /\ d.pbrt \in {None, q}
    BY <1>1, BatchFacts
  <1> HIDE DEF d
  <1>3. d.pos \in 0..Len(oplog) /\ f \in 0..d.pos /\ \A i \in d.batch : f < i /\ i <= d.pos
    BY <1>1, <1>2
  <1>4. Covered(f, d.pos, d.batch)
    <2> SUFFICES ASSUME NEW i \in (f + 1)..d.pos, Matching(i) PROVE i \in d.batch
      BY DEF Covered
    <2>1. ~(i <= c.pos)
      BY <1>1 DEF Good, Covered
    <2>2. QED
      BY <1>1, <1>2, <2>1
  <1>5. QED
    BY <1>2, <1>3, <1>4 DEF Good, d

-----------------------------------------------------------------------------
(* The actions *)

\* What the invariants need of the events in hand.
LEMMA HandFacts ==
    ASSUME TypeOK
    PROVE  /\ seen \in Seq(Events) /\ swift.results \in Seq(Events)
           /\ ToSet(seen) \subseteq Events /\ ToSet(swift.results) \subseteq Events
           /\ ret \in {None} \cup Events /\ start \in Positions /\ Taken \subseteq Events
  <1>1. seen \in Seq(Events) /\ swift.results \in Seq(Events) /\ ret \in {None} \cup Events /\ start \in Positions
    BY DEF TypeOK, Events
  <1>2. QED
    BY <1>1, ToSetEvents DEF Taken

\* While the server's log does not move, LiveInv is about the rest.
LEMMA LiveStatic ==
    ASSUME UNCHANGED <<oplog, server>>,
           swift'.state = "open" /\ ~stream'.err => Good(stream', cursor', start', Taken', Handed')
    PROVE  LiveInv'
  BY DEF LiveInv, Good, Covered, Matching

\* Nothing is open yet.
LEMMA InitIInv == Init => IInv
  <1> SUFFICES ASSUME Init PROVE IInv
    OBVIOUS
  <1>1. TypeOK
    <2>1. /\ oplog \in Seq(Kinds) /\ Len(oplog) <= MaxEvents /\ seen \in Seq(1..MaxEvents)
          /\ <<>> \in Seq(1..MaxEvents)
      BY DEF Init
    <2>2. None \in Positions
      BY DEF Positions
    <2>3. stream \in Streams /\ cursor \in Cursors /\ swift \in Objects
      BY <2>1, <2>2 DEF Init, Streams, Cursors, Objects, NoStream, NoCursor, NoObject
    <2>4. opts \in [resumeAfter : Positions, startAt : Positions]
      BY <2>2 DEF Init
    <2>5. QED
      BY <2>1, <2>2, <2>3, <2>4 DEF Init, TypeOK, Streams, Cursors, Objects
  <1>2. CallInv
    BY DEF Init, CallInv, NoObject, NoStream
  <1>3. OrderInv
    BY EmptyFacts DEF Init, OrderInv, NoObject
  <1>4. TokenInv /\ LiveInv /\ ExactlyOnce
    BY DEF Init, TokenInv, LiveInv, ExactlyOnce, NoObject, None
  <1>5. SessionInv
    BY DEF Init, SessionInv, SessionHeld, NoObject, NoStream
  <1>6. QED
    BY <1>1, <1>2, <1>3, <1>4, <1>5 DEF IInv

\* A call has nothing in its hands when it starts.
LEMMA CallStep ==
    ASSUME IInv, NEW kind \in Calls, Call(kind)
    PROVE  IInv'
  <1>0. TypeOK /\ pc = "idle" /\ swift.state = "open" /\ ret = None /\ ~stream.err /\ swift.results = <<>>
    BY DEF IInv, Call, CallInv
  <1>1. swift \in Objects /\ <<>> \in Seq(1..MaxEvents)
    BY <1>0, TypeFacts
  <1>2. swift' = [swift EXCEPT !.call = kind, !.results = <<>>] /\ pc' = "pop"
        /\ UNCHANGED <<oplog, server, opts, stream, cursor, ret, start, seen, dropped, faults, opens>>
    BY DEF Call
  <1>3. swift' \in Objects /\ swift'.state = swift.state /\ swift'.token = swift.token /\ swift'.results = swift.results
    BY <1>0, <1>1, <1>2 DEF Objects
  <1>4. TypeOK'
    BY <1>0, <1>2, <1>3 DEF TypeOK, Objects
  <1>5. CallInv'
    BY <1>0, <1>2, <1>3 DEF IInv, CallInv
  <1>6. OrderInv' /\ TokenInv' /\ ExactlyOnce'
    BY <1>2, <1>3 DEF IInv, OrderInv, TokenInv, ExactlyOnce, Matching
  <1>7. LiveInv'
    <2>1. Taken' = Taken /\ Handed' = Handed
      BY <1>2, <1>3 DEF Taken, Handed
    <2>2. QED
      BY <1>0, <1>2, <1>3, <2>1, LiveStatic DEF IInv, LiveInv
  <1>8. SessionInv'
    BY <1>0, <1>2, <1>3 DEF IInv, SessionInv, SessionHeld
  <1>9. QED
    BY <1>4, <1>5, <1>6, <1>7, <1>8 DEF IInv

\* A kill ends a stream between two calls.
LEMMA KillStep ==
    ASSUME IInv, Kill
    PROVE  IInv'
  <1>0. TypeOK /\ pc = "idle" /\ swift.state = "open" /\ ret = None
    BY DEF IInv, Kill, CallInv
  <1>1. swift \in Objects /\ None \in Positions
    BY <1>0, TypeFacts
  <1>2. swift' = [swift EXCEPT !.state = "closed"] /\ stream' = NoStream /\ cursor' = NoCursor
        /\ UNCHANGED <<oplog, server, opts, pc, ret, start, seen, dropped, faults, opens>>
    BY DEF Kill
  <1>3. swift' \in Objects /\ swift'.state = "closed" /\ swift'.token = swift.token
        /\ swift'.results = swift.results /\ swift'.call = swift.call
    BY <1>1, <1>2 DEF Objects
  <1>4. stream' \in Streams /\ cursor' \in Cursors /\ ~stream'.err /\ ~stream'.session /\ ~cursor'.alive
    BY <1>1, <1>2 DEF Streams, Cursors, NoStream, NoCursor
  <1>5. TypeOK'
    BY <1>0, <1>2, <1>3, <1>4 DEF TypeOK, Objects, Streams, Cursors
  <1>6. CallInv'
    BY <1>0, <1>2, <1>3, <1>4 DEF IInv, CallInv
  <1>7. OrderInv' /\ TokenInv' /\ ExactlyOnce'
    BY <1>2, <1>3 DEF IInv, OrderInv, TokenInv, ExactlyOnce, Matching
  <1>8. LiveInv' /\ SessionInv'
    BY <1>0, <1>2, <1>3, <1>4 DEF LiveInv, SessionInv, SessionHeld
  <1>9. QED
    BY <1>5, <1>6, <1>7, <1>8 DEF IInv

\* A new event is behind everything that has been scanned.
LEMMA WriteStep ==
    ASSUME IInv, NEW kind \in Kinds, Write(kind)
    PROVE  IInv'
  <1>0. TypeOK
    BY DEF IInv
  <1>1. oplog' = Append(oplog, kind) /\ Len(oplog) < MaxEvents /\ oplog \in Seq(Kinds)
        /\ UNCHANGED <<server, opts, stream, cursor, swift, pc, ret, start, seen, dropped, faults, opens>>
    BY <1>0 DEF Write, TypeOK
  <1>2. /\ oplog' \in Seq(Kinds) /\ Len(oplog') = Len(oplog) + 1 /\ Len(oplog) \in Nat
        /\ \A i \in 1..Len(oplog) : oplog'[i] = oplog[i]
    BY <1>1
  <1>3. \A i \in 1..Len(oplog) : Matching(i)' <=> Matching(i)
    BY <1>2 DEF Matching
  <1>4. TypeOK'
    BY <1>0, <1>1, <1>2 DEF TypeOK
  <1>5. CallInv'
    BY <1>1, <1>2 DEF IInv, CallInv
  <1>6. OrderInv' /\ SessionInv'
    BY <1>1 DEF IInv, OrderInv, SessionInv, SessionHeld
  <1>t. swift.token \in Int /\ dropped \subseteq Events /\ start \in Int
    BY <1>0, TypeFacts, HandFacts DEF TypeOK, Objects, Events
  <1>7. TokenInv'
    BY <1>1, <1>2, <1>t DEF IInv, TokenInv, Events
  <1>8. LiveInv'
    <2> SUFFICES ASSUME swift.state = "open", ~stream.err PROVE Good(stream, cursor, start, Taken, Handed)'
      BY <1>1 DEF LiveInv
    <2> DEFINE f == From(stream, start)
    <2>1. Good(stream, cursor, start, Taken, Handed) /\ start \in 0..Len(oplog)
      BY DEF IInv, LiveInv, CallInv
    <2>2. cursor.pos \in 0..Len(oplog) /\ f \in 0..cursor.pos
      BY <2>1 DEF Good
    <2>3. Taken' = Taken /\ Handed' = Handed /\ f' = f
      BY <1>1 DEF Taken, Handed, From
    <2>4. Covered(start, f, Handed)'
      <3> SUFFICES ASSUME NEW i \in (start + 1)..f, Matching(i)' PROVE i \in Handed
        BY <1>1, <2>3 DEF Covered
      <3>1. i \in 1..Len(oplog)
        BY <1>2, <2>1, <2>2
      <3>2. QED
        BY <1>3, <2>1, <3>1 DEF Good, Covered
    <2>5. Covered(f, cursor.pos, cursor.batch)'
      <3> SUFFICES ASSUME NEW i \in (f + 1)..cursor.pos, Matching(i)' PROVE i \in cursor.batch
        BY <1>1, <2>3 DEF Covered
      <3>1. i \in 1..Len(oplog)
        BY <1>2, <2>2
      <3>2. QED
        BY <1>3, <2>1, <3>1 DEF Good, Covered
    <2>6. 0..Len(oplog) \subseteq 0..Len(oplog')
      BY <1>2
    <2>7. QED
      BY <1>1, <2>1, <2>3, <2>4, <2>5, <2>6 DEF Good
  <1>9. ExactlyOnce'
    <2>1. ASSUME NEW i \in (start + 1)..swift.token, Matching(i)' PROVE i \in ToSet(seen) \cup dropped
      <3>1. swift.token # None
        BY <1>0, <1>t, HandFacts DEF None, Positions
      <3>2. start \in 0..Len(oplog) /\ swift.token <= Len(oplog)
        BY <3>1 DEF IInv, CallInv, TokenInv
      <3>3. i \in 1..Len(oplog)
        BY <1>2, <1>t, <3>2
      <3>4. QED
        BY <1>3, <2>1, <3>3 DEF IInv, ExactlyOnce
    <2>2. dropped # {} => \E i \in dropped : oplog'[i] = "bad"
      <3> SUFFICES ASSUME dropped # {} PROVE \E i \in dropped : oplog'[i] = "bad"
        OBVIOUS
      <3>1. PICK i \in dropped : oplog[i] = "bad"
        BY DEF IInv, ExactlyOnce
      <3>2. i \in 1..Len(oplog)
        BY <1>2, <1>t DEF IInv, TokenInv, Events
      <3>3. QED
        BY <1>2, <3>1, <3>2
    <2>3. QED
      BY <1>1, <2>1, <2>2 DEF IInv, ExactlyOnce
  <1>10. QED
    BY <1>4, <1>5, <1>6, <1>7, <1>8, <1>9 DEF IInv

\* A document leaves the batch: it is the next one after all that were taken,
\* and the token is its own.
LEMMA PopDocStep ==
    ASSUME IInv, Pop, NEW i \in cursor.batch, \A j \in cursor.batch : i <= j,
           cursor' = [cursor EXCEPT !.batch = @ \ {i}], pc' = "end",
           IF oplog[i] = "noId"
           THEN ret' = None /\ stream' = [stream EXCEPT !.err = TRUE]
           ELSE ret' = i /\ stream' = [stream EXCEPT !.token = i, !.opTime = None]
    PROVE  IInv'
  <1>0. /\ TypeOK /\ pc \in {"pop", "refreshed"} /\ swift.state = "open" /\ ret = None /\ ~stream.err
        /\ UNCHANGED <<oplog, server, opts, swift, start, seen, dropped, faults, opens>>
    BY DEF IInv, Pop, CallInv
  <1>1. /\ stream \in Streams /\ cursor \in Cursors /\ Positions \subseteq Int /\ None \in Positions
        /\ Len(oplog) \in Nat
    BY <1>0, TypeFacts
  <1> DEFINE f == From(stream, start)
  <1>2. Good(stream, cursor, start, Taken, Handed) /\ start \in 0..Len(oplog)
    BY <1>0 DEF IInv, LiveInv, CallInv
  <1>3. i \in Events /\ i \in Positions /\ cursor.batch \subseteq Events
    BY <1>1 DEF Cursors, Events, Positions
  <1>4. cursor.pos \in 0..Len(oplog) /\ f \in 0..cursor.pos /\ f < i /\ i <= cursor.pos
    BY <1>2 DEF Good
  <1>5. /\ cursor' \in Cursors /\ cursor'.batch = cursor.batch \ {i} /\ cursor'.pos = cursor.pos
        /\ cursor'.pbrt = cursor.pbrt /\ cursor'.alive = cursor.alive
    BY <1>1 DEF Cursors
  <1>6. stream' \in Streams /\ stream'.session = stream.session /\ ret' \in {None, i}
    BY <1>1, <1>3 DEF Streams
  <1>7. ret' # None => ret' = i /\ stream'.token = i /\ stream'.err = stream.err
    BY <1>1, <1>3 DEF Streams
  <1>e. ret' = None => stream'.err
    BY <1>1, <1>3 DEF Streams, None, Events
  <1>8. TypeOK'
    <2>1. ret' \in {None} \cup 1..MaxEvents
      BY <1>3, <1>6 DEF Events
    <2>2. QED
      BY <1>0, <1>5, <1>6, <2>1 DEF TypeOK, Streams, Cursors
  <1>9. CallInv'
    BY <1>0 DEF IInv, CallInv
  <1>a. \A k \in ToSet(seen) \cup ToSet(swift.results) : k <= f /\ k \in Events
    BY <1>0, <1>2, HandFacts DEF Good, Taken
  <1>t. swift.token < i /\ swift.token \in Int
    <2>1. swift.token \in Int
      BY <1>0, TypeFacts DEF Objects
    <2>2. swift.token # None => swift.token <= f
      BY <1>0 DEF IInv, TokenInv, From
    <2>3. QED
      BY <1>3, <1>4, <2>1, <2>2 DEF None, Events
  <1>10. OrderInv'
    <2>1. \A k \in ToSet(seen) \cup ToSet(swift.results) : k < i
      BY <1>3, <1>4, <1>a DEF Events
    <2>2. Growing(seen)' /\ Growing(swift.results)' /\ ToSet(seen)' = ToSet(seen) /\ ToSet(swift.results)' = ToSet(swift.results)
      BY <1>0 DEF IInv, OrderInv
    <2>3. \A j \in ToSet(swift.results)' \cup ({ret'} \ {None}) : swift'.token < j
      BY <1>0, <1>6, <1>t, <2>2 DEF IInv, OrderInv
    <2>4. QED
      BY <1>0, <1>7, <2>1, <2>2, <2>3 DEF IInv, OrderInv
  <1>11. TokenInv' /\ ExactlyOnce'
    <2>1. ~stream'.err => stream'.token # None /\ swift.token <= stream'.token
      BY <1>3, <1>7, <1>e, <1>t DEF None, Events
    <2>2. QED
      BY <1>0, <2>1 DEF IInv, TokenInv, ExactlyOnce, Matching
  <1>12. LiveInv'
    <2> SUFFICES ASSUME ~stream'.err PROVE Good(stream', cursor', start', Taken', Handed')
      BY <1>0, LiveStatic
    <2>1. ret' = i /\ stream'.token = i /\ i # None /\ From(stream', start') = i
      BY <1>e, <1>3, <1>6, <1>7 DEF From, None, Events
    <2>2. Taken' = ToSet(seen) \cup ToSet(swift.results) \cup {i}
      BY <1>0, <2>1 DEF Taken
    <2>3. \A k \in Taken' : k <= i
      BY <1>4, <1>3, <1>a, <2>2 DEF Events
    <2>4. \A k \in cursor'.batch : i < k /\ k <= cursor'.pos
      BY <1>2, <1>3, <1>5 DEF Good, Events
    <2>5. Covered(start', i, Handed')
      <3> SUFFICES ASSUME NEW k \in (start + 1)..i, Matching(k) PROVE k \in Handed'
        BY <1>0 DEF Covered
      <3>1. CASE k <= f
        <4>1. k \in Handed /\ k # None
          BY <1>2, <1>3, <1>4, <3>1 DEF Good, Covered, None, Events
        <4>2. QED
          BY <1>0, <4>1 DEF Handed
      <3>2. CASE k > f
        <4>1. k \in (f + 1)..cursor.pos
          BY <1>2, <1>3, <1>4, <3>2 DEF Events
        <4>2. k \in cursor.batch
          BY <1>2, <4>1 DEF Good, Covered
        <4>3. k = i
          BY <1>2, <1>3, <4>2 DEF Events
        <4>4. QED
          BY <2>1, <4>3 DEF Handed
      <3>3. QED
        BY <1>2, <1>3, <1>4, <3>1, <3>2 DEF Events
    <2>6. Covered(i, cursor'.pos, cursor'.batch)
      <3> SUFFICES ASSUME NEW k \in (i + 1)..cursor.pos, Matching(k) PROVE k \in cursor.batch \ {i}
        BY <1>5 DEF Covered
      <3>1. k \in (f + 1)..cursor.pos /\ k # i
        BY <1>3, <1>4 DEF Events
      <3>2. QED
        BY <1>2, <3>1 DEF Good, Covered
    <2>7. i \in 0..cursor'.pos /\ cursor'.pos \in 0..Len(oplog) /\ cursor'.pbrt \in {None, cursor'.pos}
      BY <1>2, <1>3, <1>4, <1>5 DEF Good, Events
    <2>8. QED
      BY <2>1, <2>3, <2>4, <2>5, <2>6, <2>7 DEF Good
  <1>13. SessionInv'
    BY <1>0, <1>5, <1>6 DEF IInv, SessionInv, SessionHeld
  <1>14. QED
    BY <1>8, <1>9, <1>10, <1>11, <1>12, <1>13 DEF IInv

\* Nothing in the batch: a getMore is next, or the call returns, or the client
\* error of a completed cursor is resumed from.
LEMMA PopEmptyStep ==
    ASSUME IInv, Pop, end_of_batch(cursor), ret' = None,
           cursor' = [cursor EXCEPT !.done = ~cursor.alive],
           pc' = IF cursor.done THEN "resume" ELSE IF cursor.alive /\ pc = "pop" THEN "getMore" ELSE "end",
           UNCHANGED stream
    PROVE  IInv'
  <1>0. /\ TypeOK /\ swift.state = "open" /\ ret = None /\ ~stream.err
        /\ UNCHANGED <<oplog, server, opts, swift, start, seen, dropped, faults, opens>>
    BY DEF IInv, Pop, CallInv
  <1>1. cursor \in Cursors
    BY <1>0, TypeFacts
  <1>2. /\ cursor' \in Cursors /\ cursor'.batch = cursor.batch /\ cursor'.pos = cursor.pos
        /\ cursor'.pbrt = cursor.pbrt /\ cursor'.alive = cursor.alive
    BY <1>1 DEF Cursors
  <1>3. pc' \in {"resume", "getMore", "end"} /\ (pc' = "getMore" => cursor.alive)
    OBVIOUS
  <1>4. TypeOK'
    BY <1>0, <1>2, <1>3 DEF TypeOK, Cursors
  <1>5. CallInv'
    BY <1>0, <1>2, <1>3 DEF IInv, CallInv, end_of_batch
  <1>6. OrderInv' /\ TokenInv' /\ ExactlyOnce'
    BY <1>0 DEF IInv, OrderInv, TokenInv, ExactlyOnce, Matching
  <1>7. LiveInv'
    <2>1. Taken' = Taken /\ Handed' = Handed
      BY <1>0 DEF Taken, Handed
    <2>2. Good(stream, cursor, start, Taken, Handed)
      BY <1>0 DEF IInv, LiveInv
    <2>3. Good(stream', cursor', start', Taken', Handed')
      BY <1>0, <1>2, <2>1, <2>2 DEF Good
    <2>4. QED
      BY <1>0, <2>3, LiveStatic
  <1>8. SessionInv'
    BY <1>0, <1>2, <1>3 DEF IInv, SessionInv, SessionHeld
  <1>9. QED
    BY <1>4, <1>5, <1>6, <1>7, <1>8 DEF IInv

LEMMA PopStep ==
    ASSUME IInv, Pop
    PROVE  IInv'
  <1>1. CASE \E i \in cursor.batch :
                 /\ \A j \in cursor.batch : i <= j
                 /\ cursor' = [cursor EXCEPT !.batch = @ \ {i}]
                 /\ IF oplog[i] = "noId"
                    THEN ret' = None /\ stream' = [stream EXCEPT !.err = TRUE]
                    ELSE ret' = i /\ stream' = [stream EXCEPT !.token = i, !.opTime = None]
                 /\ pc' = "end"
    BY <1>1, PopDocStep
  <1>2. CASE /\ end_of_batch(cursor) /\ ret' = None
             /\ cursor' = [cursor EXCEPT !.done = ~cursor.alive]
             /\ pc' = IF cursor.done THEN "resume"
                      ELSE IF cursor.alive /\ pc = "pop" THEN "getMore" ELSE "end"
             /\ UNCHANGED stream
    BY <1>2, PopEmptyStep
  <1>3. QED
    BY <1>1, <1>2 DEF Pop

\* A getMore is answered.
LEMMA GetMoreStep ==
    ASSUME IInv, GetMore
    PROVE  IInv'
  <1>0. /\ TypeOK /\ pc = "getMore" /\ swift.state = "open" /\ ret = None /\ ~stream.err /\ pc' = "refreshed"
        /\ cursor.batch = {} /\ cursor.alive
        /\ UNCHANGED <<oplog, server, opts, stream, swift, ret, start, seen, dropped, faults, opens>>
    BY DEF IInv, GetMore, CallInv, end_of_batch
  <1>1. PICK q \in ScanEnds(cursor.pos) : cursor' = Batch(cursor.pos, q)
    BY DEF GetMore
  <1>2. Good(stream, cursor, start, Taken, Handed)
    BY <1>0 DEF IInv, LiveInv
  <1>3. stream \in Streams /\ cursor \in Cursors /\ start \in Positions /\ Taken \in SUBSET Events
    BY <1>0, TypeFacts, HandFacts
  <1>4. cursor' \in Cursors
    BY <1>0, <1>1, <1>2, BatchFacts DEF Good
  <1>5. TypeOK'
    BY <1>0, <1>4 DEF TypeOK, Cursors
  <1>6. CallInv'
    BY <1>0 DEF IInv, CallInv
  <1>7. OrderInv' /\ TokenInv' /\ ExactlyOnce'
    BY <1>0 DEF IInv, OrderInv, TokenInv, ExactlyOnce, Matching
  <1>8. LiveInv'
    <2>1. Taken' = Taken /\ Handed' = Handed
      BY <1>0 DEF Taken, Handed
    <2>2. Good(stream, cursor', start, Taken, Handed)
      BY <1>0, <1>1, <1>2, <1>3, GetMoreGood
    <2>3. QED
      BY <1>0, <2>1, <2>2, LiveStatic
  <1>9. SessionInv'
    BY <1>0 DEF IInv, SessionInv, SessionHeld
  <1>10. QED
    BY <1>5, <1>6, <1>7, <1>8, <1>9 DEF IInv

\* A getMore fails.
LEMMA GetMoreFailsStep ==
    ASSUME IInv, NEW reply \in Errors, GetMoreFails(reply)
    PROVE  IInv'
  <1>0. /\ TypeOK /\ swift.state = "open" /\ ret = None /\ ~stream.err /\ faults' \in 0..MaxFaults
        /\ UNCHANGED <<oplog, server, opts, cursor, swift, ret, start, seen, dropped, opens>>
    BY DEF IInv, GetMoreFails, CallInv, TypeOK
  <1>1. stream \in Streams
    BY <1>0, TypeFacts
  <1>2. \/ pc' = "resume" /\ stream' = stream
        \/ pc' = "end" /\ stream' = [stream EXCEPT !.err = TRUE]
    BY DEF GetMoreFails
  <1>3. stream' \in Streams /\ stream'.session = stream.session /\ stream'.token = stream.token
        /\ (stream'.err \/ stream' = stream) /\ (pc' # "end" => stream' = stream)
    BY <1>1, <1>2 DEF Streams
  <1>4. TypeOK'
    BY <1>0, <1>2, <1>3 DEF TypeOK, Streams
  <1>5. CallInv'
    BY <1>0, <1>2, <1>3 DEF IInv, CallInv
  <1>6. OrderInv' /\ TokenInv' /\ ExactlyOnce'
    BY <1>0, <1>3 DEF IInv, OrderInv, TokenInv, ExactlyOnce, Matching
  <1>7. LiveInv'
    <2>1. Taken' = Taken /\ Handed' = Handed
      BY <1>0 DEF Taken, Handed
    <2>2. QED
      BY <1>0, <1>3, <2>1, LiveStatic DEF IInv, LiveInv
  <1>8. SessionInv'
    BY <1>0, <1>2, <1>3 DEF IInv, SessionInv, SessionHeld
  <1>9. QED
    BY <1>4, <1>5, <1>6, <1>7, <1>8 DEF IInv

\* A recreated cursor starts behind the last event taken, or where the first
\* one did, or on a server without operation times at the present.
LEMMA ResumeStep ==
    ASSUME IInv, Resume
    PROVE  IInv'
  <1>0. /\ TypeOK /\ swift.state = "open" /\ ret = None /\ ~stream.err /\ pc' = "pop"
        /\ UNCHANGED <<oplog, server, opts, swift, ret, seen, dropped, faults, opens>>
    BY DEF IInv, Resume, CallInv
  <1>a. PICK s : s = [stream EXCEPT !.resumed = TRUE]
    OBVIOUS
  <1>b. PICK cmd : cmd = _make_command(s)
    OBVIOUS
  <1>c. PICK p : p = PositionOf(cmd)
    OBVIOUS
  <1>s. /\ \E q \in ScanEnds(p) : cursor' = Batch(p, q) /\ stream' = Opened(s, opts, Batch(p, q))
        /\ start' = IF server.wire7 \/ s.token # None THEN start ELSE p
    BY <1>a, <1>b, <1>c, Zenon DEF Resume
  <1>1. PICK q \in ScanEnds(p) : cursor' = Batch(p, q) /\ stream' = Opened(s, opts, Batch(p, q))
    BY <1>s
  <1>2. start' = IF server.wire7 \/ s.token # None THEN start ELSE p
    BY <1>s
  <1>3. /\ stream \in Streams /\ start \in Positions /\ Taken \in SUBSET Events
        /\ 0..Len(oplog) \subseteq Positions /\ Len(oplog) \in Nat
    BY <1>0, TypeFacts, HandFacts
  <1>4. s \in Streams /\ s.token = stream.token /\ s.opTime = stream.opTime /\ s.resumed /\ s.err = stream.err
    BY <1>a, <1>3 DEF Streams
  <1>5. Good(stream, cursor, start, Taken, Handed) /\ start \in 0..Len(oplog)
    BY <1>0 DEF IInv, LiveInv, CallInv
  <1>6. p \in 0..Len(oplog) /\ p = From(s, start') /\ start' \in 0..Len(oplog)
    <2>1. CASE s.token # None
      <3>1. cmd = [resumeAfter |-> s.token, startAt |-> None]
        BY <1>b, <1>4, <2>1 DEF _make_command
      <3>2. p = s.token /\ start' = start
        BY <1>c, <1>2, <2>1, <3>1 DEF PositionOf
      <3>3. cursor.pos \in 0..Len(oplog) /\ s.token \in 0..cursor.pos
        BY <1>4, <1>5, <2>1 DEF Good, From
      <3>4. s.token \in 0..Len(oplog)
        BY <1>3, <3>3
      <3>5. QED
        BY <1>5, <2>1, <3>2, <3>4 DEF From
    <2>2. CASE s.token = None /\ server.wire7
      <3>1. s.opTime = start /\ start # None
        BY <1>4, <1>5, <2>2 DEF Good, None
      <3>2. cmd = [resumeAfter |-> None, startAt |-> start]
        BY <1>b, <1>4, <2>2, <3>1 DEF _make_command
      <3>3. p = start /\ start' = start
        BY <1>c, <1>2, <2>2, <3>1, <3>2 DEF PositionOf
      <3>4. QED
        BY <1>5, <2>2, <3>3 DEF From
    <2>3. CASE s.token = None /\ ~server.wire7
      <3>1. cmd = [resumeAfter |-> None, startAt |-> None]
        BY <1>b, <1>4, <2>3 DEF _make_command
      <3>2. p = Len(oplog) /\ start' = p
        BY <1>c, <1>2, <2>3, <3>1 DEF PositionOf
      <3>3. QED
        BY <1>3, <2>3, <3>2 DEF From
    <2>4. QED
      BY <2>1, <2>2, <2>3
  <1>7. start' # start => s.token = None /\ swift.token = None
    BY <1>0, <1>2, <1>4 DEF IInv, TokenInv
  <1>8. /\ Good(stream', cursor', start', Taken, Handed) /\ stream' \in Streams
        /\ s.token # None => stream'.token # None /\ s.token <= stream'.token
        /\ ~stream'.err /\ stream'.session
    <2>1. s.token = None => Taken = {}
      BY <1>4, <1>5 DEF Good
    <2>w. s.token = None /\ server.wire7 =>
              s.opTime = start' \/ (opts.resumeAfter = None /\ s.opTime = None /\ start' = Len(oplog))
      BY <1>2, <1>4, <1>5 DEF Good
    <2>2. \A i \in Taken : i <= p
      BY <1>2, <1>4, <1>5, <1>6, <2>1 DEF Good, From
    <2>3. Covered(start', p, Handed)
      <3>1. CASE s.token # None
        BY <1>2, <1>4, <1>5, <1>6, <3>1 DEF Good, From
      <3>2. CASE s.token = None
        <4>1. p = start' /\ start' \in Int /\ p \in Int
          BY <1>6, <3>2 DEF From
        <4>2. QED
          BY <4>1, NothingBetween
      <3>3. QED
        BY <3>1, <3>2
    <2>4. opts.resumeAfter \in Positions
      BY <1>0 DEF TypeOK
    <2>5. start' \in Positions
      BY <1>3, <1>6
    <2>6. s = Begun(s, opts)
      BY <1>4 DEF Begun
    <2>7. /\ Good(Opened(s, opts, Batch(p, q)), Batch(p, q), start', Taken, Handed)
          /\ Opened(s, opts, Batch(p, q)) \in Streams
          /\ s.token # None => /\ Opened(s, opts, Batch(p, q)).token # None
                               /\ s.token <= Opened(s, opts, Batch(p, q)).token
          /\ Opened(s, opts, Batch(p, q)).err = s.err /\ Opened(s, opts, Batch(p, q)).session = TRUE
      <3>1. TypeOK /\ s \in Streams /\ Taken \in SUBSET Events /\ p \in 0..Len(oplog) /\ p = From(s, start')
        BY <1>0, <1>3, <1>4, <1>6
      <3>2. q \in ScanEnds(p)
        OBVIOUS
      <3>3. PICK first : first = start'
        OBVIOUS
      <3>4. PICK o : o = opts
        OBVIOUS
      <3>t. PICK taken \in SUBSET Events : taken = Taken
        BY <3>1
      <3>h. PICK handed : handed = Handed
        OBVIOUS
      <3>5. /\ first \in Positions /\ p = From(Begun(s, o), first) /\ Covered(first, p, handed)
            /\ o.resumeAfter \in Positions
            /\ Begun(s, o).token = None => taken = {}
            /\ \A i \in taken : i <= p
            /\ Begun(s, o).token = None /\ server.wire7 =>
               s.opTime = first \/ (o.resumeAfter = None /\ s.opTime = None /\ first = Len(oplog))
        BY <2>1, <2>2, <2>3, <2>4, <2>5, <2>6, <2>w, <3>1, <3>3, <3>4, <3>t, <3>h
      <3>6. /\ Good(Opened(s, o, Batch(p, q)), Batch(p, q), first, taken, handed)
            /\ Opened(s, o, Batch(p, q)) \in Streams
            /\ Begun(s, o).token # None => /\ Opened(s, o, Batch(p, q)).token # None
                                           /\ Begun(s, o).token <= Opened(s, o, Batch(p, q)).token
            /\ Opened(s, o, Batch(p, q)).err = s.err /\ Opened(s, o, Batch(p, q)).session = TRUE
        BY <3>1, <3>2, <3>5, OpenedGood
      <3>7. QED
        BY <2>6, <3>3, <3>4, <3>6, <3>t, <3>h
    <2>8. QED
      BY <1>0, <1>1, <1>4, <2>7
  <1>9. cursor' \in Cursors
    BY <1>0, <1>1, <1>6, BatchFacts
  <1>10. TypeOK'
    BY <1>0, <1>3, <1>6, <1>8, <1>9 DEF TypeOK, Streams, Cursors
  <1>11. CallInv'
    BY <1>0, <1>6, <1>8 DEF IInv, CallInv
  <1>12. OrderInv'
    BY <1>0 DEF IInv, OrderInv
  <1>13. TokenInv'
    <2>1. swift.token \in Int /\ stream.token \in Int /\ stream'.token \in Int
      BY <1>0, <1>3, <1>8, TypeFacts DEF Objects, Streams
    <2>2. QED
      BY <1>0, <1>4, <1>8, <2>1 DEF IInv, TokenInv
  <1>14. ExactlyOnce'
    <2>1. start' # start => (start' + 1)..swift.token = {}
      BY <1>3, <1>6, <1>7 DEF None
    <2>2. QED
      BY <1>0, <2>1 DEF IInv, ExactlyOnce, Matching
  <1>15. LiveInv'
    <2>1. Taken' = Taken /\ Handed' = Handed
      BY <1>0 DEF Taken, Handed
    <2>2. QED
      BY <1>0, <1>8, <2>1, LiveStatic
  <1>16. SessionInv'
    BY <1>0, <1>8 DEF SessionInv, SessionHeld
  <1>17. QED
    BY <1>10, <1>11, <1>12, <1>13, <1>14, <1>15, <1>16 DEF IInv

\* A resume that fails ends the stream.
LEMMA ResumeFailsStep ==
    ASSUME IInv, ResumeFails
    PROVE  IInv'
  <1>a. /\ stream' = [[stream EXCEPT !.resumed = TRUE] EXCEPT !.err = TRUE]
        /\ (UNCHANGED faults \/ (faults < MaxFaults /\ faults' = faults + 1))
    BY DEF ResumeFails
  <1>b. faults' \in 0..MaxFaults
    BY <1>a DEF IInv, TypeOK
  <1>0. /\ TypeOK /\ swift.state = "open" /\ pc' = "end" /\ ret' = None
        /\ cursor' = NoCursor
        /\ UNCHANGED <<oplog, server, opts, swift, start, seen, dropped, opens>>
    BY DEF IInv, ResumeFails, CallInv
  <1>1. stream \in Streams /\ None \in Positions
    BY <1>0, TypeFacts
  <1>2. stream' \in Streams /\ stream'.err
    BY <1>a, <1>1 DEF Streams
  <1>3. cursor' \in Cursors /\ ~cursor'.alive
    BY <1>0, <1>1 DEF Cursors, NoCursor
  <1>4. TypeOK'
    BY <1>0, <1>b, <1>2, <1>3 DEF TypeOK, Streams, Cursors
  <1>5. CallInv'
    BY <1>0 DEF IInv, CallInv
  <1>6. OrderInv' /\ TokenInv' /\ ExactlyOnce'
    BY <1>0, <1>2 DEF IInv, OrderInv, TokenInv, ExactlyOnce, Matching
  <1>7. LiveInv' /\ SessionInv'
    BY <1>0, <1>2, <1>3 DEF LiveInv, SessionInv, SessionHeld
  <1>8. QED
    BY <1>4, <1>5, <1>6, <1>7 DEF IInv

\* Nothing is in hand between two streams.
LEMMA WatchFacts ==
    ASSUME IInv, NEW o \in Options, Watch(o)
    PROVE  /\ TypeOK /\ pc = "idle" /\ swift.state # "open" /\ ret = None /\ swift.results = <<>> /\ ~stream.err
           /\ opens' \in 0..MaxOpens /\ opens' # 0 /\ opts' = o
           /\ opts' \in [resumeAfter : Positions, startAt : Positions]
           /\ o.resumeAfter \in {None} \cup 0..Len(oplog) /\ o.startAt \in {None} \cup 0..Len(oplog)
           /\ opens = 0 \/ (swift.token # None /\ o = [resumeAfter |-> swift.token, startAt |-> None])
           /\ UNCHANGED <<oplog, server, pc, ret, seen, dropped>>
  <1>1. /\ TypeOK /\ pc = "idle" /\ swift.state # "open" /\ ret = None /\ swift.results = <<>> /\ ~stream.err
        /\ opts' = o /\ opens < MaxOpens /\ opens' = opens + 1
        /\ opens = 0 \/ (swift.token # None /\ o = [resumeAfter |-> swift.token, startAt |-> None])
        /\ UNCHANGED <<oplog, server, pc, ret, seen, dropped>>
    BY DEF IInv, Watch, CallInv
  <1>2. opens' \in 0..MaxOpens /\ opens' # 0
    BY <1>1 DEF TypeOK
  <1>3. 0..Len(oplog) \subseteq Positions /\ None \in Positions
    BY <1>1, TypeFacts
  <1>4. opts' \in [resumeAfter : Positions, startAt : Positions]
    BY <1>1, <1>3 DEF Options
  <1>5. o.resumeAfter \in {None} \cup 0..Len(oplog) /\ o.startAt \in {None} \cup 0..Len(oplog)
    BY DEF Options
  <1>6. QED
    BY <1>1, <1>2, <1>4, <1>5

LEMMA WatchFailsStep ==
    ASSUME IInv, NEW o \in Options, Watch(o), cursor' = NoCursor, stream' = NoStream, UNCHANGED <<swift, start>>,
           UNCHANGED faults \/ (faults < MaxFaults /\ faults' = faults + 1)
    PROVE  IInv'
  <1>0. /\ TypeOK /\ pc = "idle" /\ swift.state # "open" /\ ret = None
        /\ opens' \in 0..MaxOpens /\ opens' # 0
        /\ opts' \in [resumeAfter : Positions, startAt : Positions]
        /\ UNCHANGED <<oplog, server, pc, ret, seen, dropped, swift, start>>
    BY WatchFacts
  <1>1. None \in Positions
    BY <1>0, TypeFacts
  <1>2. stream' \in Streams /\ cursor' \in Cursors /\ ~stream'.err /\ ~stream'.session
    BY <1>1 DEF Streams, Cursors, NoStream, NoCursor
  <1>3. faults' \in 0..MaxFaults
    BY <1>0 DEF TypeOK
  <1>4. TypeOK'
    BY <1>0, <1>2, <1>3 DEF TypeOK, Streams, Cursors
  <1>5. CallInv'
    BY <1>0, <1>2 DEF IInv, CallInv
  <1>6. OrderInv' /\ TokenInv' /\ ExactlyOnce'
    BY <1>0 DEF IInv, OrderInv, TokenInv, ExactlyOnce, Matching
  <1>7. LiveInv' /\ SessionInv'
    BY <1>0, <1>2 DEF LiveInv, SessionInv, SessionHeld
  <1>8. QED
    BY <1>4, <1>5, <1>6, <1>7 DEF IInv

\* The user's first stream starts where its options say; another one behind
\* the last event the user was handed.
LEMMA WatchOpensStep ==
    ASSUME IInv, NEW o \in Options, Watch(o),
           NEW s \in Streams, s.token = None, s.opTime = o.startAt, ~s.resumed, ~s.err,
           NEW p, p = PositionOf(o), NEW q \in ScanEnds(p),
           cursor' = Batch(p, q), stream' = Opened(s, o, Batch(p, q)),
           swift' = [state |-> "open", token |-> o.resumeAfter, call |-> "none", results |-> <<>>],
           start' = IF opens = 0 THEN p ELSE start,
           UNCHANGED faults
    PROVE  IInv'
  <1>0. /\ TypeOK /\ pc = "idle" /\ ret = None /\ ~stream.err
        /\ opens' \in 0..MaxOpens /\ opens' # 0
        /\ opts' \in [resumeAfter : Positions, startAt : Positions]
        /\ o.resumeAfter \in {None} \cup 0..Len(oplog) /\ o.startAt \in {None} \cup 0..Len(oplog)
        /\ opens = 0 \/ (swift.token # None /\ o = [resumeAfter |-> swift.token, startAt |-> None])
        /\ UNCHANGED <<oplog, server, pc, ret, seen, dropped, faults>>
    BY WatchFacts
  <1>1. /\ None \in Positions /\ 0..Len(oplog) \subseteq Positions /\ Len(oplog) \in Nat
        /\ seen \in Seq(Events) /\ ToSet(seen) \subseteq Events
    BY <1>0, TypeFacts, HandFacts
  <1>3. Begun(s, o).token = o.resumeAfter
    BY DEF Begun, Streams
  <1>4. p \in 0..Len(oplog) /\ (o.resumeAfter # None => p = o.resumeAfter)
        /\ (o.resumeAfter = None => p = IF o.startAt # None THEN o.startAt ELSE Len(oplog))
    BY <1>0, <1>1 DEF PositionOf
  <1>5. opens = 0 => seen = <<>> /\ start' = p
    BY DEF IInv, CallInv
  <1>6. opens # 0 => /\ o.resumeAfter # None /\ o.resumeAfter = swift.token /\ p = swift.token
                     /\ start' = start /\ start \in 0..Len(oplog)
    BY <1>0, <1>4 DEF IInv, CallInv
  <1>7. start' \in 0..Len(oplog)
    BY <1>4, <1>5, <1>6
  <1>8. swift' \in Objects /\ swift'.state = "open" /\ swift'.token = o.resumeAfter /\ swift'.call = "none"
        /\ swift'.results = <<>>
    BY <1>0, <1>1 DEF Objects
  <1>9. Taken' = ToSet(seen) /\ ToSet(seen) \cup dropped \subseteq Handed'
    BY <1>0, <1>8, EmptyFacts DEF Taken, Handed
  <1>10. \A i \in ToSet(seen) : i <= p
    <2>1. CASE opens = 0
      BY <1>5, <2>1, EmptyFacts
    <2>2. CASE opens # 0
      BY <1>6, <2>2 DEF IInv, ExactlyOnce, ToSet
    <2>3. QED
      BY <2>1, <2>2
  <1>11. PICK first : first = start'
    OBVIOUS
  <1>12. PICK handed : handed = Handed'
    OBVIOUS
  <1>13. PICK taken \in SUBSET Events : taken = ToSet(seen)
    BY <1>1
  <1>14. Covered(first, p, handed)
    <2>1. CASE first = p
      BY <1>4, <2>1, NothingBetween
    <2>2. CASE first # p
      <3>1. opens # 0 /\ p = swift.token /\ first = start
        BY <1>5, <1>6, <1>11, <2>2
      <3>2. \A i \in (first + 1)..p : Matching(i) => i \in ToSet(seen) \cup dropped
        BY <3>1 DEF IInv, ExactlyOnce
      <3>3. QED
        BY <1>9, <1>12, <3>2 DEF Covered
    <2>3. QED
      BY <2>1, <2>2
  <1>15. /\ Good(stream', cursor', first, taken, handed) /\ stream' \in Streams
         /\ o.resumeAfter # None => stream'.token # None /\ o.resumeAfter <= stream'.token
         /\ ~stream'.err /\ stream'.session = TRUE
    <2>1. TypeOK /\ first \in Positions /\ o.resumeAfter \in Positions
      BY <1>0, <1>1, <1>7, <1>11
    <2>2. p = From(Begun(s, o), first)
      BY <1>3, <1>4, <1>5, <1>6, <1>11 DEF From
    <2>3. Begun(s, o).token = None => taken = {}
      BY <1>3, <1>5, <1>6, <1>13, EmptyFacts
    <2>4. Begun(s, o).token = None /\ server.wire7 =>
              s.opTime = first \/ (o.resumeAfter = None /\ s.opTime = None /\ first = Len(oplog))
      BY <1>3, <1>4, <1>5, <1>6, <1>11
    <2>5. \A i \in taken : i <= p
      BY <1>10, <1>13
    <2>6. /\ Good(Opened(s, o, Batch(p, q)), Batch(p, q), first, taken, handed)
          /\ Opened(s, o, Batch(p, q)) \in Streams
          /\ Begun(s, o).token # None => /\ Opened(s, o, Batch(p, q)).token # None
                                         /\ Begun(s, o).token <= Opened(s, o, Batch(p, q)).token
          /\ Opened(s, o, Batch(p, q)).err = s.err /\ Opened(s, o, Batch(p, q)).session = TRUE
      BY <1>4, <1>14, <2>1, <2>2, <2>3, <2>4, <2>5, OpenedGood
    <2>7. QED
      BY <1>3, <2>6
  <1>16. cursor' \in Cursors /\ (cursor'.alive \/ ~end_of_batch(cursor'))
    BY <1>0, <1>4, BatchFacts
  <1>17. TypeOK'
    BY <1>0, <1>1, <1>7, <1>8, <1>15, <1>16 DEF TypeOK, Streams, Cursors, Objects
  <1>18. CallInv'
    BY <1>0, <1>7, <1>8, <1>15 DEF CallInv
  <1>19. OrderInv'
    BY <1>0, <1>8, EmptyFacts DEF IInv, OrderInv
  <1>20. TokenInv'
    <2>1. o.resumeAfter <= Len(oplog)
      BY <1>0, <1>1 DEF None
    <2>2. QED
      BY <1>0, <1>8, <1>15, <2>1 DEF IInv, TokenInv
  <1>21. ExactlyOnce'
    <2>1. \A k \in DOMAIN seen : seen[k] <= o.resumeAfter
      <3>1. CASE opens = 0
        BY <1>5, <3>1
      <3>2. CASE opens # 0
        BY <1>6, <3>2 DEF IInv, ExactlyOnce
      <3>3. QED
        BY <3>1, <3>2
    <2>2. \A i \in (start' + 1)..o.resumeAfter : Matching(i) => i \in ToSet(seen) \cup dropped
      <3>1. CASE opens = 0
        <4>1. (start' + 1)..o.resumeAfter = {}
          BY <1>0, <1>1, <1>4, <1>5, <3>1 DEF None
        <4>2. QED
          BY <4>1
      <3>2. CASE opens # 0
        BY <1>6, <3>2 DEF IInv, ExactlyOnce
      <3>3. QED
        BY <3>1, <3>2
    <2>3. QED
      BY <1>0, <1>8, <2>1, <2>2 DEF IInv, ExactlyOnce, Matching
  <1>22. LiveInv'
    BY <1>0, <1>9, <1>11, <1>12, <1>13, <1>15, LiveStatic
  <1>23. SessionInv'
    BY <1>0, <1>15, <1>16 DEF SessionInv, SessionHeld
  <1>24. QED
    BY <1>17, <1>18, <1>19, <1>20, <1>21, <1>22, <1>23 DEF IInv

LEMMA WatchStep ==
    ASSUME IInv, NEW o \in Options, Watch(o)
    PROVE  IInv'
  <1>a. PICK s : s = [NoStream EXCEPT !.opTime = o.startAt]
    OBVIOUS
  <1>b. PICK p : p = PositionOf(o)
    OBVIOUS
  <1>c. s \in Streams /\ s.token = None /\ s.opTime = o.startAt /\ ~s.resumed /\ ~s.err
    <2>1. None \in Positions /\ o.startAt \in Positions
      BY WatchFacts, TypeFacts
    <2>2. QED
      BY <1>a, <2>1 DEF Streams, NoStream
  <1>1. CASE /\ \E q \in ScanEnds(p) : cursor' = Batch(p, q) /\ stream' = Opened(s, o, Batch(p, q))
             /\ swift' = [state |-> "open", token |-> o.resumeAfter, call |-> "none", results |-> <<>>]
             /\ start' = IF opens = 0 THEN p ELSE start
             /\ UNCHANGED faults
    BY <1>1, <1>b, <1>c, WatchOpensStep
  <1>2. CASE /\ \/ ~Accepts(o) /\ UNCHANGED faults
                \/ faults < MaxFaults /\ faults' = faults + 1
             /\ cursor' = NoCursor /\ stream' = NoStream
             /\ UNCHANGED <<swift, start>>
    BY <1>2, WatchFailsStep
  <1>3. QED
    BY <1>1, <1>2, <1>a, <1>b, Zenon DEF Watch

\* The stream that a call which did not fail leaves behind.
LEMMA ReturnFacts ==
    ASSUME IInv, Return, NEW s, s = AtEnd(stream, cursor)
    PROVE  /\ TypeOK /\ pc = "end" /\ swift.state = "open" /\ ret' = None
           /\ UNCHANGED <<oplog, server, opts, start, faults, opens>>
           /\ s \in Streams /\ s.err = stream.err /\ s.session = (stream.session /\ cursor.alive)
           /\ ~s.err /\ stream.token # None => s.token # None /\ stream.token <= s.token
           /\ ~s.err => Good(stream, cursor, start, Taken, Handed) /\ Good(s, cursor, start, Taken, Handed)
           /\ start \in 0..Len(oplog)
  <1>0. /\ TypeOK /\ pc = "end" /\ swift.state = "open" /\ ret' = None
        /\ start \in 0..Len(oplog)
        /\ UNCHANGED <<oplog, server, opts, start, faults, opens>>
    BY DEF IInv, Return, CallInv
  <1>1. stream \in Streams /\ cursor \in Cursors /\ start \in Positions /\ Taken \in SUBSET Events
    BY <1>0, TypeFacts, HandFacts
  <1>2. /\ s \in Streams /\ s.err = stream.err /\ s.session = (stream.session /\ cursor.alive)
        /\ s.token = CacheToken(stream, cursor).token /\ s.opTime = CacheToken(stream, cursor).opTime
    BY <1>1, AtEndFacts, CacheFacts
  <1>4. ASSUME ~s.err
        PROVE  Good(stream, cursor, start, Taken, Handed) /\ Good(s, cursor, start, Taken, Handed)
    <2>1. Good(stream, cursor, start, Taken, Handed)
      BY <1>0, <1>2, <1>4 DEF IInv, LiveInv
    <2>2. Good(CacheToken(stream, cursor), cursor, start, Taken, Handed)
      BY <1>0, <1>1, <2>1, CacheGood
    <2>3. Good(s, cursor, start, Taken, Handed)
      BY <1>2, <2>2, GoodLooks
    <2>4. QED
      BY <2>1, <2>3
  <1>5. ASSUME ~s.err, stream.token # None PROVE s.token # None /\ stream.token <= s.token
    <2>1. /\ cursor.pos \in 0..Len(oplog) /\ stream.token \in 0..cursor.pos
          /\ cursor.pbrt \in {None, cursor.pos}
      BY <1>4, <1>5 DEF Good, From
    <2>2. s.token = stream.token \/ (cursor.pbrt # None /\ s.token = cursor.pbrt)
      BY <1>1, <1>2, CacheFacts
    <2>3. QED
      BY <1>5, <2>1, <2>2
  <1>6. QED
    BY <1>0, <1>2, <1>4, <1>5

\* An error destroys the stream.
LEMMA ReturnErrorStep ==
    ASSUME IInv, Return, stream' = NoStream, cursor' = NoCursor, pc' = "idle",
           swift' = [swift EXCEPT !.state = "error", !.call = "none", !.results = <<>>],
           UNCHANGED <<seen, dropped>>
    PROVE  IInv'
  <1>0. /\ TypeOK /\ swift.state = "open" /\ ret' = None /\ start \in 0..Len(oplog)
        /\ UNCHANGED <<oplog, server, opts, start, faults, opens, seen, dropped>>
    BY ReturnFacts
  <1>1. swift \in Objects /\ None \in Positions /\ <<>> \in Seq(1..MaxEvents)
    BY <1>0, TypeFacts
  <1>2. swift' \in Objects /\ swift'.state = "error" /\ swift'.call = "none" /\ swift'.results = <<>>
        /\ swift'.token = swift.token
    BY <1>1 DEF Objects
  <1>3. stream' \in Streams /\ cursor' \in Cursors /\ ~stream'.err /\ ~stream'.session
    BY <1>1 DEF Streams, Cursors, NoStream, NoCursor
  <1>4. TypeOK'
    BY <1>0, <1>2, <1>3 DEF TypeOK, Streams, Cursors, Objects
  <1>5. CallInv'
    BY <1>0, <1>2, <1>3 DEF IInv, CallInv
  <1>6. OrderInv' /\ TokenInv' /\ ExactlyOnce'
    BY <1>0, <1>2, EmptyFacts DEF IInv, OrderInv, TokenInv, ExactlyOnce, Matching
  <1>7. LiveInv' /\ SessionInv'
    BY <1>0, <1>2, <1>3 DEF LiveInv, SessionInv, SessionHeld
  <1>8. QED
    BY <1>4, <1>5, <1>6, <1>7 DEF IInv

\* The token that libmongoc caches when a call ends is not behind the user's.
LEMMA NotBehind ==
    ASSUME IInv, swift.state = "open", ~stream.err, stream' \in Streams,
           stream.token # None => stream'.token # None /\ stream.token <= stream'.token,
           swift'.token = swift.token, UNCHANGED <<oplog, dropped>>
    PROVE  TokenInv'
  <1>1. swift.token \in Int /\ stream.token \in Int /\ stream'.token \in Int
    BY TypeFacts DEF IInv, Objects, Streams
  <1>2. QED
    BY <1>1 DEF IInv, TokenInv

\* toArray keeps the document and reads on.
LEMMA ReturnCollectsStep ==
    ASSUME IInv, Return, ~AtEnd(stream, cursor).err, ret # None, swift.call = "toArray",
           stream' = AtEnd(stream, cursor), pc' = "pop",
           swift' = [swift EXCEPT !.results = Append(@, ret)],
           UNCHANGED <<cursor, seen, dropped>>
    PROVE  IInv'
  <1>0. /\ TypeOK /\ swift.state = "open" /\ ret' = None /\ start \in 0..Len(oplog)
        /\ UNCHANGED <<oplog, server, opts, start, faults, opens, seen, dropped, cursor>>
        /\ stream' \in Streams /\ ~stream'.err /\ stream'.session = (stream.session /\ cursor.alive)
        /\ stream.token # None => stream'.token # None /\ stream.token <= stream'.token
        /\ Good(stream', cursor, start, Taken, Handed) /\ ~stream.err
    BY ReturnFacts
  <1>1. swift \in Objects /\ ret \in Events /\ swift.results \in Seq(Events)
    BY <1>0, TypeFacts, HandFacts
  <1>2. swift.results \o <<ret>> = Append(swift.results, ret)
    BY <1>1
  <1>3. /\ Append(swift.results, ret) \in Seq(Events)
        /\ ToSet(Append(swift.results, ret)) = ToSet(swift.results) \cup {ret}
        /\ Growing(Append(swift.results, ret))
    <2>1. PICK u : u = <<ret>>
      OBVIOUS
    <2>2. u \in Seq(Events) /\ ToSet(u) = {ret} /\ Growing(u)
      BY <1>1, <2>1, OneFacts
    <2>3. Growing(swift.results) /\ \A i \in ToSet(swift.results) : \A j \in ToSet(u) : i < j
      BY <2>2 DEF IInv, OrderInv
    <2>4. /\ swift.results \o u \in Seq(Events)
          /\ ToSet(swift.results \o u) = ToSet(swift.results) \cup ToSet(u)
          /\ Growing(swift.results \o u)
      BY <1>1, <2>2, <2>3, CatFacts
    <2>5. QED
      BY <1>2, <2>1, <2>2, <2>4
  <1>4. /\ swift' \in Objects /\ swift'.state = "open" /\ swift'.call = "toArray"
        /\ swift'.results = Append(swift.results, ret) /\ swift'.token = swift.token
    BY <1>0, <1>1, <1>3 DEF Objects, Events
  <1>5. TypeOK'
    <2>1. ret' \in {None} \cup 1..MaxEvents
      BY <1>0
    <2>2. QED
      BY <1>0, <1>4, <2>1 DEF TypeOK, Streams, Objects
  <1>6. CallInv'
    BY <1>0, <1>4 DEF IInv, CallInv
  <1>7. OrderInv'
    <2>1. /\ \A i \in ToSet(seen) : \A j \in ToSet(swift.results) \cup {ret} : i < j
          /\ \A j \in ToSet(swift.results) \cup {ret} : swift.token < j
      BY DEF IInv, OrderInv
    <2>2. QED
      BY <1>0, <1>3, <1>4, <2>1 DEF IInv, OrderInv
  <1>8. TokenInv' /\ ExactlyOnce'
    BY <1>0, <1>4, NotBehind DEF IInv, ExactlyOnce, Matching
  <1>9. LiveInv'
    <2>1. Taken' \subseteq Taken /\ Handed \subseteq Handed'
      BY <1>0, <1>3, <1>4 DEF Taken, Handed
    <2>2. PICK less : less = Taken'
      OBVIOUS
    <2>3. PICK more : more = Handed'
      OBVIOUS
    <2>4. Good(stream', cursor, start, less, more)
      BY <1>0, <2>1, <2>2, <2>3, GoodMono
    <2>5. QED
      BY <1>0, <2>2, <2>3, <2>4, LiveStatic
  <1>10. SessionInv'
    BY <1>0, <1>4 DEF IInv, SessionInv, SessionHeld
  <1>11. QED
    BY <1>5, <1>6, <1>7, <1>8, <1>9, <1>10 DEF IInv

\* next polls again.
LEMMA ReturnPollsStep ==
    ASSUME IInv, Return, ~AtEnd(stream, cursor).err, ret = None,
           stream' = AtEnd(stream, cursor), pc' = "pop",
           UNCHANGED <<cursor, swift, seen, dropped>>
    PROVE  IInv'
  <1>0. /\ TypeOK /\ swift.state = "open" /\ ret' = None
        /\ UNCHANGED <<oplog, server, opts, start, faults, opens, seen, dropped, cursor, swift, ret>>
        /\ stream' \in Streams /\ ~stream'.err /\ stream'.session = (stream.session /\ cursor.alive)
        /\ stream.token # None => stream'.token # None /\ stream.token <= stream'.token
        /\ Good(stream', cursor, start, Taken, Handed) /\ ~stream.err
    BY ReturnFacts
  <1>1. TypeOK'
    BY <1>0 DEF TypeOK, Streams
  <1>2. CallInv'
    BY <1>0 DEF IInv, CallInv
  <1>3. OrderInv' /\ TokenInv' /\ ExactlyOnce'
    BY <1>0, NotBehind DEF IInv, OrderInv, ExactlyOnce, Matching
  <1>4. LiveInv'
    <2>1. Taken' = Taken /\ Handed' = Handed
      BY <1>0 DEF Taken, Handed
    <2>2. QED
      BY <1>0, <2>1, LiveStatic
  <1>5. SessionInv'
    BY <1>0 DEF IInv, SessionInv, SessionHeld
  <1>6. QED
    BY <1>1, <1>2, <1>3, <1>4, <1>5 DEF IInv

\* The call returns: what it hands out comes after all that was handed out
\* before, and what it throws away has an event that does not decode.
LEMMA ReturnHandsStep ==
    ASSUME IInv, Return, ~AtEnd(stream, cursor).err,
           swift.call # IF ret = None THEN "next" ELSE "toArray",
           stream' = AtEnd(stream, cursor), pc' = "idle", UNCHANGED cursor,
           NEW docs, docs = IF ret = None THEN swift.results ELSE <<ret>>, Hand(docs)
    PROVE  IInv'
  <1>0. /\ TypeOK /\ swift.state = "open" /\ ret' = None /\ start \in 0..Len(oplog)
        /\ UNCHANGED <<oplog, server, opts, start, faults, opens, cursor>>
        /\ stream' \in Streams /\ ~stream'.err /\ stream'.session = (stream.session /\ cursor.alive)
        /\ stream.token # None => stream'.token # None /\ stream.token <= stream'.token
        /\ Good(stream, cursor, start, Taken, Handed)
        /\ Good(stream', cursor, start, Taken, Handed) /\ ~stream.err
    BY ReturnFacts
  <1>1. /\ swift \in Objects /\ ret \in {None} \cup Events /\ swift.results \in Seq(Events)
        /\ seen \in Seq(Events) /\ Positions \subseteq Int /\ Len(oplog) \in Nat /\ Len(oplog) <= MaxEvents
        /\ ToSet(seen) \subseteq Events /\ dropped \subseteq Events
    BY <1>0, TypeFacts, HandFacts DEF TypeOK, Events
  <1>2. ret # None => swift.results = <<>>
    BY DEF IInv, CallInv
  <1>3. /\ docs \in Seq(Events) /\ Growing(docs)
        /\ \A i \in ToSet(seen) : \A j \in ToSet(docs) : i < j
        /\ ToSet(docs) = ToSet(swift.results) \cup ({ret} \ {None})
    <2>1. CASE ret = None
      BY <1>1, <2>1 DEF IInv, OrderInv
    <2>2. CASE ret # None
      <3>1. ret \in Events /\ docs = <<ret>>
        BY <1>1, <2>2
      <3>2. docs \in Seq(Events) /\ Growing(docs) /\ ToSet(docs) = {ret}
        BY <3>1, OneFacts
      <3>3. QED
        BY <1>2, <2>2, <3>2, EmptyFacts DEF IInv, OrderInv
    <2>3. QED
      BY <2>1, <2>2
  <1>4. PICK g : g = IF Undecodable(docs) = {} THEN docs ELSE <<>>
    OBVIOUS
  <1>l. PICK l : l = Last(Processed(docs))
    OBVIOUS
  <1>5. /\ g \in Seq(Events) /\ Growing(g) /\ ToSet(g) \subseteq ToSet(docs)
        /\ \/ g = docs /\ \A i \in ToSet(docs) : oplog[i] # "bad"
           \/ g = <<>> /\ ToSet(g) = {} /\ \E i \in ToSet(docs) : oplog[i] = "bad"
    <2>1. CASE Undecodable(docs) = {}
      BY <1>3, <1>4, <2>1, ProcessedFacts
    <2>2. CASE Undecodable(docs) # {}
      BY <1>3, <1>4, <2>2, ProcessedFacts, EmptyFacts
    <2>3. QED
      BY <2>1, <2>2
  <1>6. /\ seen' = seen \o g /\ dropped' = (dropped \cup ToSet(docs)) \ ToSet(g)
        /\ swift' = [swift EXCEPT !.call = "none", !.results = <<>>,
                                  !.token = IF docs = <<>> THEN @ ELSE l]
    BY <1>4, <1>l DEF Hand
  <1>7. /\ seen' \in Seq(Events) /\ ToSet(seen') = ToSet(seen) \cup ToSet(g)
        /\ Growing(seen')
    <2>1. \A i \in ToSet(seen) : \A j \in ToSet(g) : i < j
      BY <1>3, <1>5
    <2>2. Growing(seen)
      BY DEF IInv, OrderInv
    <2>3. QED
      BY <1>1, <1>5, <1>6, <2>1, <2>2, CatFacts
  <1>8. docs # <<>> => /\ l \in Events /\ l \in ToSet(docs)
                       /\ l <= From(stream, start) /\ stream.token # None
                       /\ swift.token < l
    <2> SUFFICES ASSUME docs # <<>>
                 PROVE  /\ l \in Events /\ l \in ToSet(docs)
                        /\ l <= From(stream, start) /\ stream.token # None
                        /\ swift.token < l
      OBVIOUS
    <2>1. PICK d : d = Processed(docs)
      OBVIOUS
    <2>2. d \in Seq(Events) /\ d # <<>> /\ ToSet(d) \subseteq ToSet(docs)
      BY <1>3, <2>1, ProcessedFacts
    <2>3. l \in Events /\ l \in ToSet(docs)
      BY <1>l, <2>1, <2>2, LastFacts
    <2>4. l \in Taken
      BY <1>3, <2>3 DEF Taken
    <2>5. swift.token < l
      BY <1>3, <2>3 DEF IInv, OrderInv
    <2>6. QED
      BY <1>0, <2>3, <2>4, <2>5 DEF Good
  <1>e. docs = <<>> => ToSet(docs) = {} /\ ToSet(g) = {}
    BY <1>5, EmptyFacts
  <1>9. From(stream, start) \in 0..Len(oplog) /\ From(stream, start) \in Int
    <2>1. cursor.pos \in 0..Len(oplog) /\ From(stream, start) \in 0..cursor.pos
      BY <1>0 DEF Good
    <2>2. QED
      BY <1>1, <2>1
  <1>10. /\ swift' \in Objects /\ swift'.state = "open" /\ swift'.call = "none" /\ swift'.results = <<>>
         /\ swift'.token = IF docs = <<>> THEN swift.token ELSE l
    <2>1. (IF docs = <<>> THEN swift.token ELSE l) \in Positions
      BY <1>1, <1>8 DEF Objects, Positions, Events
    <2>2. <<>> \in Seq(1..MaxEvents)
      OBVIOUS
    <2>3. QED
      BY <1>0, <1>1, <1>6, <2>1, <2>2 DEF Objects
  <1>t. swift.token \in Int /\ swift'.token \in Int /\ swift.token <= swift'.token
    <2>1. swift.token \in Int /\ swift'.token \in Int
      BY <1>1, <1>10 DEF Objects
    <2>2. QED
      BY <1>8, <1>10, <2>1
  <1>d. ToSet(docs) \subseteq Events
    BY <1>3, ToSetEvents
  <1>11. TypeOK'
    <2>1. dropped' \subseteq 1..MaxEvents
      BY <1>1, <1>d, <1>6 DEF Events
    <2>2. ret' \in {None} \cup 1..MaxEvents /\ seen' \in Seq(1..MaxEvents)
      BY <1>0, <1>7 DEF Events
    <2>3. QED
      BY <1>0, <1>10, <2>1, <2>2 DEF TypeOK, Streams, Objects
  <1>12. CallInv'
    BY <1>0, <1>10 DEF IInv, CallInv
  <1>13. OrderInv'
    BY <1>0, <1>7, <1>10, EmptyFacts DEF OrderInv
  <1>14. TokenInv'
    <2>1. swift'.token <= Len(oplog)
      BY <1>1, <1>8, <1>9, <1>10 DEF IInv, TokenInv, Events
    <2>2. \A i \in dropped' : i <= Len(oplog)
      <3>1. \A i \in ToSet(docs) : i <= From(stream, start) /\ i \in Int
        BY <1>0, <1>3, <1>d DEF Good, Taken, Events
      <3>2. QED
        BY <1>1, <1>6, <1>9, <3>1 DEF IInv, TokenInv
    <2>3. swift'.token # None => stream.token # None /\ swift'.token <= stream.token
      <3>1. CASE docs = <<>>
        BY <1>0, <1>10, <3>1 DEF IInv, TokenInv
      <3>2. CASE docs # <<>>
        BY <1>8, <1>10, <3>2 DEF From
      <3>3. QED
        BY <3>1, <3>2
    <2>4. stream.token \in Int /\ stream'.token \in Int
      BY <1>0, <1>1, TypeFacts DEF Streams
    <2>5. swift'.token # None => stream'.token # None /\ swift'.token <= stream'.token
      BY <1>0, <1>t, <2>3, <2>4
    <2>6. QED
      BY <1>0, <2>1, <2>2, <2>5 DEF TokenInv
  <1>15. ExactlyOnce'
    <2>1. \A j, k \in DOMAIN seen' : j < k => seen'[j] < seen'[k]
      BY <1>7 DEF Growing
    <2>2. \A k \in DOMAIN seen' : seen'[k] <= swift'.token
      <3>1. ASSUME NEW i \in ToSet(seen') PROVE i <= swift'.token
        <4>1. CASE i \in ToSet(seen)
          <5>1. i <= swift.token /\ i \in Int
            BY <1>1, <4>1 DEF IInv, ExactlyOnce, ToSet, Events
          <5>2. QED
            BY <1>t, <5>1
        <4>2. CASE i \in ToSet(g)
          <5>1. g = docs /\ docs # <<>>
            BY <1>5, <1>e, <4>2
          <5>2. Processed(docs) = docs
            BY <1>4, <4>2, <5>1, EmptyFacts DEF Processed
          <5>3. i <= l
            BY <1>3, <1>l, <4>2, <5>1, <5>2, LastFacts
          <5>4. QED
            BY <1>10, <5>1, <5>3
        <4>3. QED
          BY <1>7, <4>1, <4>2
      <3>2. QED
        BY <3>1 DEF ToSet
    <2>3. ASSUME NEW i \in (start + 1)..swift'.token, Matching(i)
          PROVE  i \in ToSet(seen') \cup dropped'
      <3>1. CASE docs = <<>>
        <4>1. ToSet(seen') = ToSet(seen) /\ dropped' = dropped /\ swift'.token = swift.token
          BY <1>6, <1>7, <1>10, <1>e, <3>1
        <4>2. QED
          BY <2>3, <4>1 DEF IInv, ExactlyOnce
      <3>2. CASE docs # <<>>
        <4>1. i \in Int /\ i # None /\ i <= l /\ l \in Int /\ l <= From(stream, start)
          BY <1>0, <1>8, <1>10, <3>2 DEF None, Events
        <4>2. i \in (start + 1)..From(stream, start)
          BY <1>0, <1>9, <4>1
        <4>3. i \in Handed
          BY <1>0, <2>3, <4>2 DEF Good, Covered
        <4>4. i \in ToSet(seen) \cup dropped \cup ToSet(docs)
          BY <1>3, <4>1, <4>3 DEF Handed
        <4>5. QED
          BY <1>6, <1>7, <4>4
      <3>3. QED
        BY <3>1, <3>2
    <2>4. dropped' # {} => \E i \in dropped' : oplog[i] = "bad"
      <3>1. CASE g = docs /\ \A i \in ToSet(docs) : oplog[i] # "bad"
        BY <1>6, <3>1 DEF IInv, ExactlyOnce
      <3>2. CASE ToSet(g) = {} /\ \E i \in ToSet(docs) : oplog[i] = "bad"
        BY <1>6, <3>2
      <3>3. QED
        BY <1>5, <3>1, <3>2
    <2>5. QED
      BY <1>0, <2>1, <2>2, <2>3, <2>4 DEF ExactlyOnce, Matching
  <1>16. LiveInv'
    <2>1. Taken' \subseteq Taken
      BY <1>0, <1>3, <1>5, <1>7, <1>10, EmptyFacts DEF Taken
    <2>2. Handed \subseteq Handed'
      BY <1>0, <1>3, <1>6, <1>7, <1>10, EmptyFacts DEF Handed
    <2>3. PICK less : less = Taken'
      OBVIOUS
    <2>4. PICK more : more = Handed'
      OBVIOUS
    <2>5. Good(stream', cursor, start, less, more)
      BY <1>0, <2>1, <2>2, <2>3, <2>4, GoodMono
    <2>6. QED
      BY <1>0, <2>3, <2>4, <2>5, LiveStatic
  <1>17. SessionInv'
    BY <1>0, <1>10 DEF IInv, SessionInv, SessionHeld
  <1>18. QED
    BY <1>11, <1>12, <1>13, <1>14, <1>15, <1>16, <1>17 DEF IInv

LEMMA ReturnStep ==
    ASSUME IInv, Return
    PROVE  IInv'
  <1>a. PICK s : s = AtEnd(stream, cursor)
    OBVIOUS
  <1>1. CASE /\ s.err
             /\ stream' = NoStream /\ cursor' = NoCursor /\ pc' = "idle"
             /\ swift' = [swift EXCEPT !.state = "error", !.call = "none", !.results = <<>>]
             /\ UNCHANGED <<seen, dropped>>
    BY <1>1, ReturnErrorStep
  <1>2. CASE /\ ~s.err /\ ret # None /\ swift.call = "toArray"
             /\ stream' = s /\ pc' = "pop"
             /\ swift' = [swift EXCEPT !.results = Append(@, ret)]
             /\ UNCHANGED <<cursor, seen, dropped>>
    BY <1>a, <1>2, ReturnCollectsStep
  <1>3. CASE /\ ~s.err /\ ret = None /\ swift.call = "next"
             /\ stream' = s /\ pc' = "pop"
             /\ UNCHANGED <<cursor, swift, seen, dropped>>
    BY <1>a, <1>3, ReturnPollsStep
  <1>4. CASE /\ ~s.err /\ swift.call # IF ret = None THEN "next" ELSE "toArray"
             /\ stream' = s /\ pc' = "idle" /\ UNCHANGED cursor
             /\ Hand(IF ret = None THEN swift.results ELSE <<ret>>)
    BY <1>a, <1>4, ReturnHandsStep
  <1>5. QED
    BY <1>1, <1>2, <1>3, <1>4, <1>a, Zenon DEF Return

-----------------------------------------------------------------------------
(* The theorems *)

LEMMA StutterStep ==
    ASSUME IInv, UNCHANGED vars
    PROVE  IInv'
  <1>1. /\ UNCHANGED <<oplog, server, opts, stream, cursor, swift, pc>>
        /\ UNCHANGED <<ret, start, seen, dropped, faults, opens>>
    BY DEF vars
  <1>2. TypeOK' /\ CallInv' /\ OrderInv' /\ TokenInv'
    BY <1>1 DEF IInv, TypeOK, CallInv, OrderInv, TokenInv
  <1>3. SessionInv' /\ ExactlyOnce'
    BY <1>1 DEF IInv, SessionInv, SessionHeld, ExactlyOnce, Matching
  <1>4. LiveInv'
    <2>1. Taken' = Taken /\ Handed' = Handed
      BY <1>1 DEF Taken, Handed
    <2>2. QED
      BY <1>1, <2>1, LiveStatic DEF IInv, LiveInv
  <1>5. QED
    BY <1>2, <1>3, <1>4 DEF IInv

LEMMA NextIInv == IInv /\ [Next]_vars => IInv'
  <1> SUFFICES ASSUME IInv, [Next]_vars PROVE IInv'
    OBVIOUS
  <1>1. CASE \E kind \in Kinds : Write(kind)
    BY <1>1, WriteStep
  <1>2. CASE \E o \in Options : Watch(o)
    BY <1>2, WatchStep
  <1>3. CASE \E kind \in Calls : Call(kind)
    BY <1>3, CallStep
  <1>4. CASE Pop
    BY <1>4, PopStep
  <1>5. CASE GetMore
    BY <1>5, GetMoreStep
  <1>6. CASE Resume
    BY <1>6, ResumeStep
  <1>7. CASE ResumeFails
    BY <1>7, ResumeFailsStep
  <1>8. CASE Return
    BY <1>8, ReturnStep
  <1>9. CASE \E reply \in Errors : GetMoreFails(reply)
    BY <1>9, GetMoreFailsStep
  <1>10. CASE Kill
    BY <1>10, KillStep
  <1>11. CASE UNCHANGED vars
    BY <1>11, StutterStep
  <1>12. QED
    BY <1>1, <1>2, <1>3, <1>4, <1>5, <1>6, <1>7, <1>8, <1>9, <1>10, <1>11 DEF Next, StreamStep

\* The invariant that the results below rest on: what a stream has taken lies
\* before the position it would resume from, what its cursor holds behind it,
\* and no matching event is missing on either side.
THEOREM IInvTheorem == Spec => []IInv
  <1>1. Init => IInv
    BY InitIInv
  <1>2. IInv /\ [Next]_vars => IInv'
    BY NextIInv
  <1>3. QED
    BY <1>1, <1>2, PTL DEF Spec

\* The state keeps its type.
THEOREM TypeCorrect == Spec => []TypeOK
  <1>1. IInv => TypeOK
    BY DEF IInv
  <1>2. QED
    BY <1>1, IInvTheorem, PTL

\* However often mongoc_change_stream_next resumes and the user reopens a
\* stream from ChangeStream.resumeToken, he is handed every matching event
\* once and in order, but for those of calls that threw because an event did
\* not decode.
THEOREM ExactlyOnceTheorem == Spec => []ExactlyOnce
  <1>1. IInv => ExactlyOnce
    BY DEF IInv
  <1>2. QED
    BY <1>1, IInvTheorem, PTL

\* The token that mongoc_change_stream_next has cached never lies past an
\* event that it has not returned.
THEOREM TokenNotAheadTheorem == Spec => []TokenNotAhead
  <1>1. IInv => TokenNotAhead
    <2> SUFFICES ASSUME IInv, swift.state = "open", ~stream.err,
                        NEW i \in (start + 1)..stream.token, Matching(i)
                 PROVE  i \in Handed
      BY DEF TokenNotAhead
    <2>1. Good(stream, cursor, start, Taken, Handed) /\ start \in 0..Len(oplog)
      BY DEF IInv, LiveInv, CallInv
    <2>2. stream.token # None
      BY <2>1 DEF None
    <2>3. From(stream, start) = stream.token
      BY <2>2 DEF From
    <2>4. QED
      BY <2>1, <2>3 DEF Good, Covered
  <1>2. QED
    BY <1>1, IInvTheorem, PTL

\* Every getMore is sent in the stream's implicit session, also after a
\* resume, and a stream that is exhausted, failed or destroyed holds none.
THEOREM SessionHeldTheorem == Spec => []SessionHeld
  <1>1. IInv => SessionHeld
    BY DEF IInv, SessionInv
  <1>2. QED
    BY <1>1, IInvTheorem, PTL

=============================================================================
