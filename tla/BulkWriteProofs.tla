-------------------------- MODULE BulkWriteProofs --------------------------
(***************************************************************************)
(* Safety of BulkWrite for bulk writes of any length, all batch sizes and  *)
(* any number of faults: documents are applied at most once, success means *)
(* complete, the report agrees with what the server did, ordered commands  *)
(* run in order and the ids reported are those of inserted documents.      *)
(***************************************************************************)
EXTENDS BulkWrite, FiniteSetTheorems, WellFoundedInduction, TLAPS

Request == [txn : Nat, first : Nat, last : Nat, attempt : Nat]
Replies == [n : Nat, upserted : SUBSET Nat, errors : SUBSET Nat, wce : BOOLEAN, ok : BOOLEAN]
Result == [n : [Types -> Int], upserted : SUBSET Nat, errors : SUBSET Nat, wce : BOOLEAN,
           failed : BOOLEAN, mustStop : BOOLEAN,
           error : {"none", "tooLarge", "network", "notMaster", "other"}]
Outcome == [kind : {"pending", "result", "bulkError", "error"}, ids : SUBSET Nat]

FlagInv == ordered \in BOOLEAN /\ retryable \in BOOLEAN /\ ret \in BOOLEAN

TypeInv ==
    /\ FlagInv /\ ops \in Seq(Models) /\ Len(ops) \in Nat \ {0}
    /\ maxBatch \in Nat \ {0}
    /\ pc \in {"stream", "batch", "sent", "retry", "command", "done"}
    /\ at \in Nat \ {0} /\ end \in Nat /\ txn \in Nat
    /\ sent \in Request /\ reply \in Replies /\ net \subseteq Request
    /\ log \subseteq [txn : Nat, reply : Replies]
    /\ result \in Result /\ outcome \in Outcome
    /\ applied \in [Docs -> Nat] /\ acked \subseteq Docs /\ faults \in Nat

InHand == pc \in {"sent", "retry"}

\* Where the loop over commands and batches stands.
PlaceInv ==
    /\ pc = "stream" => at <= Len(ops)
    /\ pc = "batch" \/ InHand => at <= end /\ end <= Len(ops) /\ SameCommand(at, end)
    /\ InHand => sent.first = at /\ at <= sent.last /\ sent.last <= end
    /\ pc = "command" => at <= end + 1 /\ end <= Len(ops)
    /\ pc = "command" /\ ~result.failed => at = end + 1
    /\ acked \subseteq 1..(at - 1)
    /\ ~result.failed => acked = 1..(at - 1)
    /\ result.errors # {} => result.failed
    /\ pc # "done" => outcome = Pending

\* What the user's future was completed with follows from the result.
OutcomeInv ==
    /\ outcome.kind = "result" => acked = Docs /\ result.errors = {}
    /\ outcome.kind = "bulkError" => outcome.ids = FilteredIDs(result)

Batch(q) == q.first..q.last
Good(q) == Reached(q) \ FirstBad(q)

\* The requests that can still change something.
Live == net \cup (IF InHand THEN {sent} ELSE {})
Frontier == IF InHand THEN sent.last ELSE at - 1

\* Requests of different batches have different documents and numbers.
NetInv ==
    /\ \A q \in Live : 1 <= q.first /\ q.first <= q.last /\ q.last <= Len(ops)
                       /\ q.last <= Frontier /\ q.txn <= txn
    /\ \A p, q \in Live : p.txn = q.txn /\ p.txn # 0 => p.first = q.first /\ p.last = q.last
    /\ \A p, q \in Live : Batch(p) \cap Batch(q) # {} => p = q \/ (p.txn = q.txn /\ p.txn # 0)
    /\ InHand /\ (retryable \/ pc = "retry") => sent.txn # 0

Logged(q) == q.txn # 0 /\ \E e \in log : e.txn = q.txn

\* What the server remembers and has applied.
ServerInv ==
    /\ \A e \in log : e.txn <= txn /\ e.txn # 0
    /\ \A e \in log, q \in Live : e.txn = q.txn =>
          /\ \E w \in BOOLEAN : e.reply = ServerReply(q, w)
          /\ \A i \in Good(q) : applied[i] = 1
    /\ \A i \in Docs : applied[i] <= 1
    /\ \A i \in Docs : applied[i] > 0 => i <= Frontier /\ ops[i].fate # "bad"
    /\ \A q \in Live : \A i \in Batch(q) : applied[i] > 0 =>
          i \in Good(q) /\ (q \in net \/ q.txn # 0 => Logged(q))

\* A reply that is in is the server's, and nothing more will come of its request.
ReplyInv ==
    pc = "sent" /\ reply.ok =>
        /\ \E w \in BOOLEAN : reply = ServerReply(sent, w)
        /\ \A i \in Good(sent) : applied[i] = 1
        /\ sent \in net \/ sent.txn # 0 => Logged(sent)

\* No request will touch a document of a batch that was answered.
AckedInv ==
    /\ \A q \in net : Batch(q) \cap acked # {} => Logged(q)
    /\ \A i \in acked : \/ applied[i] = 1
                        \/ i \in result.errors
                        \/ ordered /\ \E j \in result.errors : j < i

\* An ordered bulk write stops after the command that failed.
OrderInv ==
    ordered =>
        /\ pc = "stream" => ~result.failed
        /\ pc = "batch" \/ InHand =>
              \A j \in at..end : \A i \in 1..(CommandStart(j) - 1) : applied[i] = 1
        /\ \A q \in Live : \A j \in Batch(q) : \A i \in 1..(CommandStart(j) - 1) : applied[i] = 1

\* If it was not split, what was applied and answered is a prefix.
PrefixInv ==
    ordered /\ Unsplit =>
        /\ pc = "batch" \/ InHand => ~result.failed
        /\ InHand => sent.last = end
        /\ \A i \in acked : applied[i] = 1 => \A j \in 1..(i - 1) : j \in acked /\ applied[j] = 1

\* The inductive invariant.
IInv ==
    /\ TypeInv /\ PlaceInv /\ OutcomeInv /\ NetInv /\ ServerInv /\ ReplyInv /\ AckedInv
    /\ OrderInv /\ PrefixInv /\ OrderedCommands /\ ReportIsTrue

-----------------------------------------------------------------------------
(* Numbers *)

\* The natural numbers are well-founded, so the minima of the model exist.
LEMMA MinFacts ==
  ASSUME NEW S \in SUBSET Nat, S # {}
  PROVE  Min(S) \in S /\ \A y \in S : Min(S) <= y
  <1> DEFINE R == {ss \in Nat \X Nat : ss[1] < ss[2]}
  <1>1. IsWellFoundedOn(R, Nat)
    BY NatLessThanWellFounded DEF OpToRel
  <1> HIDE DEF R
  <1>2. PICK x \in S : \A y \in S : ~ (<<y, x>> \in R)
    BY <1>1, WFMin
  <1>3. \A y \in S : x <= y
    <2> SUFFICES ASSUME NEW y \in S, y < x PROVE FALSE
      OBVIOUS
    <2>1. <<y, x>> \in Nat \X Nat
      OBVIOUS
    <2>2. <<y, x>>[1] = y /\ <<y, x>>[2] = x
      OBVIOUS
    <2>3. <<y, x>>[1] < <<y, x>>[2]
      BY <2>2
    <2>4. <<y, x>> \in R
      BY <2>1, <2>3, Zenon DEF R
    <2>5. QED
      BY <1>2, <2>4
  <1>4. QED
    BY <1>3 DEF Min

LEMMA MaxFacts ==
  ASSUME NEW S \in SUBSET Nat, S # {}, NEW n \in Nat, \A y \in S : y <= n
  PROVE  Max(S) \in S /\ \A y \in S : y <= Max(S)
  <1> DEFINE T == {n - y : y \in S}
  <1>0. \A y \in S : y \in Nat /\ n - y \in Nat
    OBVIOUS
  <1>1. T \in SUBSET Nat /\ T # {}
    BY <1>0
  <1>2. PICK x \in S : n - x = Min(T)
    BY <1>1, MinFacts
  <1>3. \A y \in S : y <= x
    BY <1>1, <1>2, MinFacts
  <1>4. QED
    BY <1>3 DEF Max

-----------------------------------------------------------------------------
(* Commands, batches and replies *)

LEMMA DocsFacts ==
  ASSUME TypeInv
  PROVE  /\ Docs = 1..Len(ops) /\ \A i \in Docs : ops[i] \in Models /\ TypeOf[ops[i].kind] \in Types
  <1>1. Docs = 1..Len(ops) /\ \A i \in Docs : ops[i] \in Models
    BY DEF TypeInv, Docs
  <1>2. DOMAIN TypeOf = {"insert", "upsert", "updateMany", "deleteOne"}
    BY DEF TypeOf
  <1>3. \A k \in DOMAIN TypeOf : TypeOf[k] \in Types
    BY <1>2 DEF TypeOf, Types
  <1>4. \A m \in Models : m.kind \in DOMAIN TypeOf
    BY DEF Models
  <1>5. QED
    BY <1>1, <1>3, <1>4

LEMMA CommandEndFacts ==
  ASSUME TypeInv, NEW i \in Docs
  PROVE  i <= CommandEnd(i) /\ CommandEnd(i) <= Len(ops) /\ SameCommand(i, CommandEnd(i))
         /\ CommandEnd(i) \in Nat
  <1> DEFINE S == {j \in i..Len(ops) : SameCommand(i, j)}
  <1>1. i \in Nat /\ Len(ops) \in Nat /\ i <= Len(ops)
    BY DocsFacts DEF TypeInv
  <1>2. S \in SUBSET Nat /\ \A j \in S : j <= Len(ops)
    BY <1>1
  <1>3. i \in S
    BY <1>1 DEF SameCommand
  <1> HIDE DEF S
  <1>4. Max(S) \in S
    BY <1>1, <1>2, <1>3, MaxFacts
  <1>5. QED
    BY <1>1, <1>4 DEF S, CommandEnd

LEMMA CommandStartFacts ==
  ASSUME TypeInv, NEW i \in Docs
  PROVE  /\ CommandStart(i) \in 1..i
         /\ \A j \in 1..i : SameCommand(j, i) => CommandStart(i) <= j
  <1> DEFINE S == {j \in 1..i : SameCommand(j, i)}
  <1>1. i \in Nat /\ 1 <= i
    BY DocsFacts DEF TypeInv
  <1>2. S \in SUBSET Nat
    BY <1>1
  <1>3. i \in S
    BY <1>1 DEF SameCommand
  <1> HIDE DEF S
  <1>4. Min(S) \in S /\ \A j \in S : Min(S) <= j
    BY <1>2, <1>3, MinFacts
  <1>5. QED
    BY <1>4 DEF S, CommandStart

\* A part of a command is of one type too.
LEMMA SubCommand ==
  ASSUME NEW i \in Nat, NEW j \in Nat, SameCommand(i, j),
         NEW k \in Nat, NEW l \in Nat, i <= k, l <= j
  PROVE  SameCommand(k, l)
  BY DEF SameCommand

LEMMA BatchEndFacts ==
  ASSUME TypeInv, at <= end
  PROVE  /\ BatchEnd \in Nat /\ at <= BatchEnd /\ BatchEnd <= end
         /\ end <= at + maxBatch - 1 => BatchEnd = end
  <1>1. {end, at + maxBatch - 1} \in SUBSET Nat
    BY DEF TypeInv
  <1>2. BatchEnd \in {end, at + maxBatch - 1} /\ \A y \in {end, at + maxBatch - 1} : BatchEnd <= y
    BY <1>1, MinFacts DEF BatchEnd
  <1>3. QED
    BY <1>2 DEF TypeInv

Sound(q) == q \in Request /\ 1 <= q.first /\ q.first <= q.last /\ q.last <= Len(ops)

\* Which documents of a batch the server applies, and which errors it reports.
LEMMA GoodFacts ==
  ASSUME TypeInv, NEW q, Sound(q)
  PROVE  /\ Good(q) \subseteq Batch(q) /\ Batch(q) \subseteq Docs
         /\ \A i \in Good(q) : ops[i].fate # "bad"
         /\ \A i \in Reached(q) \cap FirstBad(q) : i \in Batch(q) /\ ops[i].fate = "bad"
         /\ \A i \in Batch(q) \ Good(q) :
              \/ i \in Reached(q) \cap FirstBad(q)
              \/ ordered /\ \E j \in Reached(q) \cap FirstBad(q) : j < i
         /\ ordered => \A i \in Good(q) : \A j \in q.first..i : j \in Good(q)
  <1>1. q.first \in Nat /\ q.last \in Nat /\ FirstBad(q) \in SUBSET Nat
    BY DEF Sound, Request, FirstBad
  <1>2. FirstBad(q) # {} => /\ Min(FirstBad(q)) \in FirstBad(q)
                            /\ \A y \in FirstBad(q) : Min(FirstBad(q)) <= y
    BY <1>1, MinFacts
  <1>3. Batch(q) \subseteq Docs
    BY <1>1, DocsFacts DEF Batch, Sound, TypeInv
  <1>4. Reached(q) \subseteq Batch(q) /\ FirstBad(q) \subseteq Batch(q)
    <2>1. FirstBad(q) \subseteq Batch(q)
      BY DEF FirstBad, Batch
    <2>2. FirstBad(q) # {} => q.first..Min(FirstBad(q)) \subseteq Batch(q)
      BY <1>1, <1>2, <2>1 DEF Batch
    <2>3. QED
      BY <2>1, <2>2 DEF Reached, Batch
  <1>5. \A i \in Batch(q) : i \in FirstBad(q) <=> ops[i].fate = "bad"
    BY DEF FirstBad, Batch
  <1>6. \A i \in Batch(q) \ Reached(q) :
          ordered /\ FirstBad(q) # {} /\ Min(FirstBad(q)) < i /\ Min(FirstBad(q)) \in Reached(q)
    BY <1>1, <1>2 DEF Reached, Batch, FirstBad
  <1>7. ordered => \A i \in Good(q) : \A j \in q.first..i : j \in Good(q)
    BY <1>1, <1>2 DEF Reached, Good, FirstBad
  <1>8. QED
    BY <1>2, <1>3, <1>4, <1>5, <1>6, <1>7 DEF Good

\* Nothing that is derived from the bulk write alone changes.
LEMMA Static ==
  ASSUME UNCHANGED bulk
  PROVE  /\ Docs' = Docs /\ Inserts' = Inserts /\ (Unsplit' <=> Unsplit)
         /\ \A q : Good(q)' = Good(q)
         /\ \A q, w : ServerReply(q, w)' = ServerReply(q, w)
         /\ \A i, j : SameCommand(i, j)' = SameCommand(i, j)
         /\ \A i : CommandStart(i)' = CommandStart(i)
         /\ \A r : FilteredIDs(r)' = FilteredIDs(r)
  <1> USE DEF bulk
  <1>1. Docs' = Docs /\ Inserts' = Inserts
    BY DEF Docs, Inserts
  <1>2. \A q : Good(q)' = Good(q)
    BY DEF Good, Reached, FirstBad
  <1>3. \A q, w : ServerReply(q, w)' = ServerReply(q, w)
    BY DEF ServerReply, Reached, FirstBad
  <1>4. \A i, j : SameCommand(i, j)' = SameCommand(i, j)
    BY DEF SameCommand
  <1>5. \A i : CommandStart(i)' = CommandStart(i)
    BY DEF CommandStart, SameCommand
  <1>6. Unsplit' <=> Unsplit
    BY <1>1, <1>5 DEF Unsplit
  <1>7. \A r : FilteredIDs(r)' = FilteredIDs(r)
    BY <1>1 DEF FilteredIDs
  <1>8. QED
    BY <1>1, <1>2, <1>3, <1>4, <1>5, <1>6, <1>7

-----------------------------------------------------------------------------
(* Initially, and steps that leave the server alone. *)

LEMMA PendingFacts == Pending \in Outcome /\ Pending.kind = "pending"
  BY DEF Pending, Outcome

LEMMA InitIInv == Init => IInv
  <1> SUFFICES ASSUME Init PROVE IInv
    OBVIOUS
  <1>1. PICK n \in 1..MaxOps : ops \in [1..n -> Models]
    BY DEF Init
  <1>2. ops \in Seq(Models) /\ Len(ops) = n /\ n \in Nat \ {0}
    BY <1>1, BoundsAssumption
  <1>3. sent \in Request /\ reply \in Replies /\ ~reply.ok /\ outcome = Pending
    BY DEF Init, NoRequest, NoReply, Request, Replies
  <1>4. /\ result \in Result /\ result.errors = {} /\ result.upserted = {} /\ ~result.failed
        /\ result.n = [t \in Types |-> 0]
    BY DEF Init, Result
  <1>5. TypeInv
    <2>1. maxBatch \in Nat \ {0} /\ applied \in [Docs -> Nat] /\ acked \subseteq Docs
      BY BoundsAssumption DEF Init
    <2>2. /\ ordered \in BOOLEAN /\ pc = "stream" /\ at = 1 /\ end = 0 /\ txn = 0 /\ net = {}
          /\ retryable = FALSE /\ ret = FALSE /\ log = {} /\ faults = 0
      BY DEF Init
    <2>3. /\ at \in Nat \ {0} /\ end \in Nat /\ txn \in Nat /\ faults \in Nat
          /\ net \subseteq Request /\ log \subseteq [txn : Nat, reply : Replies]
          /\ outcome \in Outcome /\ Len(ops) \in Nat \ {0}
      BY <1>2, <1>3, <2>2, PendingFacts
    <2>4. QED
      BY <1>2, <1>3, <1>4, <2>1, <2>2, <2>3, Zenon DEF TypeInv, FlagInv
  <1>6. PlaceInv /\ OutcomeInv
    BY <1>2, <1>3, <1>4, PendingFacts DEF Init, PlaceInv, OutcomeInv, InHand
  <1>7. Live = {}
    BY DEF Init, Live, InHand
  <1>8. NetInv /\ ServerInv /\ ReplyInv /\ AckedInv /\ OrderInv /\ PrefixInv
    BY <1>3, <1>4, <1>7 DEF Init, NetInv, ServerInv, ReplyInv, AckedInv, OrderInv, PrefixInv, InHand
  <1>9. OrderedCommands
    BY DEF Init, OrderedCommands
  <1>10. ReportIsTrue
    BY <1>4, FS_EmptySet DEF Init, ReportIsTrue, Types
  <1>11. QED
    BY <1>5, <1>6, <1>8, <1>9, <1>10 DEF IInv

LEMMA FrontierInt == TypeInv => Frontier \in Int
  BY DEF TypeInv, Frontier, Request

\* A step of the client that sends nothing.
LEMMA QuietNet ==
  ASSUME IInv, UNCHANGED <<bulk, applied, log, txn>>, net' \subseteq net, Live' \subseteq Live,
         Frontier' \in Int, Frontier <= Frontier',
         InHand' /\ (retryable' \/ pc' = "retry") => sent'.txn # 0
  PROVE  NetInv' /\ ServerInv'
  <1>1. Frontier \in Int /\ \A q \in Live : q \in Request
    BY FrontierInt DEF IInv, TypeInv, Live
  <1>2. NetInv'
    BY <1>1 DEF IInv, TypeInv, NetInv, bulk, Batch, Request
  <1>3. Docs' = Docs /\ \A i \in Docs : i \in Int
    BY Static, DocsFacts DEF IInv, TypeInv
  <1>4. \A q : Logged(q)' = Logged(q)
    BY DEF Logged
  <1>5. ServerInv'
    BY <1>1, <1>3, <1>4, Static DEF IInv, ServerInv, bulk, Batch
  <1>6. QED
    BY <1>2, <1>5

\* A step that does not touch what has been answered.
LEMMA QuietReport ==
  ASSUME IInv, UNCHANGED <<bulk, applied, log, acked>>, net' \subseteq net,
         result'.n = result.n, result'.upserted = result.upserted, result'.errors = result.errors
  PROVE  AckedInv' /\ ReportIsTrue' /\ OrderedCommands'
  <1>1. AckedInv'
    BY DEF IInv, AckedInv, bulk, Logged, Batch
  <1>2. ReportIsTrue'
    BY DEF IInv, ReportIsTrue, bulk
  <1>3. OrderedCommands'
    BY Static DEF IInv, OrderedCommands, bulk
  <1>4. QED
    BY <1>1, <1>2, <1>3

\* Documents of requests that are still live stay preceded by applied commands.
LEMMA QuietOrder ==
  ASSUME IInv, UNCHANGED <<bulk, applied>>, Live' \subseteq Live, ordered
  PROVE  \A q \in Live' : \A j \in Batch(q) : \A i \in 1..(CommandStart(j)' - 1) : applied'[i] = 1
  BY Static DEF IInv, OrderInv, bulk

\* A document of the command in hand is preceded by applied commands.
LEMMA StreamOrder ==
  ASSUME IInv, pc = "stream", ordered
  PROVE  \A i \in 1..(at - 1) : applied[i] = 1
  BY DEF IInv, OrderInv, PlaceInv, AckedInv

LEMMA StreamForWritesStep == IInv /\ StreamForWrites => IInv'
  <1> SUFFICES ASSUME IInv, StreamForWrites PROVE IInv'
    OBVIOUS
  <1> USE DEF IInv, StreamForWrites
  <1>1. at \in Docs /\ UNCHANGED bulk
    BY DocsFacts DEF PlaceInv, TypeInv, bulk
  <1>2. at <= end' /\ end' <= Len(ops) /\ SameCommand(at, end') /\ end' \in Nat
    BY <1>1, CommandEndFacts
  <1>3. TypeInv'
    BY <1>1, <1>2, Static DEF TypeInv, FlagInv, bulk
  <1>4. PlaceInv'
    BY <1>1, <1>2, Static DEF PlaceInv, InHand, bulk
  <1>5. OutcomeInv'
    BY PendingFacts DEF PlaceInv, OutcomeInv
  <1>6. Live' = Live /\ Frontier' = Frontier /\ ~InHand /\ ~InHand'
    BY DEF Live, Frontier, InHand
  <1>7. NetInv' /\ ServerInv'
    BY <1>1, <1>6, QuietNet, FrontierInt
  <1>8. ReplyInv'
    BY DEF ReplyInv
  <1>9. AckedInv' /\ ReportIsTrue' /\ OrderedCommands'
    BY <1>1, QuietReport
  <1>10. ordered => \A j \in at..end' : CommandStart(j) <= at /\ CommandStart(j) \in Nat
    <2> SUFFICES ASSUME NEW j \in at..end' PROVE CommandStart(j) <= at /\ CommandStart(j) \in Nat
      OBVIOUS
    <2>1. j \in Docs /\ at \in 1..j /\ j \in Nat
      BY <1>1, <1>2, DocsFacts DEF TypeInv
    <2>2. SameCommand(at, j)
      BY <1>2, <2>1, SubCommand DEF TypeInv
    <2>3. QED
      BY <2>1, <2>2, CommandStartFacts
  <1>11. OrderInv'
    BY <1>1, <1>6, <1>10, StreamOrder, QuietOrder, Static DEF OrderInv, bulk, TypeInv
  <1>12. PrefixInv'
    BY <1>1, <1>6, Static DEF PrefixInv, OrderInv, bulk
  <1>13. QED
    BY <1>3, <1>4, <1>5, <1>7, <1>8, <1>9, <1>11, <1>12

LEMMA StreamForWritesFailsStep == IInv /\ StreamForWritesFails => IInv'
  <1> SUFFICES ASSUME IInv, StreamForWritesFails PROVE IInv'
    OBVIOUS
  <1> USE DEF IInv, StreamForWritesFails
  <1>1. UNCHANGED bulk /\ outcome' \in Outcome /\ outcome'.kind = "error"
    BY DEF Outcome
  <1>2. TypeInv'
    BY <1>1, Static, BoundsAssumption DEF TypeInv, FlagInv, bulk
  <1>3. PlaceInv'
    BY <1>1 DEF PlaceInv, InHand, bulk
  <1>4. OutcomeInv'
    BY <1>1 DEF OutcomeInv
  <1>5. Live' = Live /\ Frontier' = Frontier /\ ~InHand /\ ~InHand'
    BY DEF Live, Frontier, InHand
  <1>6. NetInv' /\ ServerInv'
    BY <1>1, <1>5, QuietNet, FrontierInt
  <1>7. AckedInv' /\ ReportIsTrue' /\ OrderedCommands' /\ ReplyInv'
    BY <1>1, QuietReport DEF ReplyInv
  <1>8. OrderInv'
    BY <1>1, <1>5, QuietOrder, Static DEF OrderInv, bulk
  <1>9. PrefixInv'
    BY <1>1, <1>5, Static DEF PrefixInv, bulk
  <1>10. QED
    BY <1>2, <1>3, <1>4, <1>6, <1>7, <1>8, <1>9

\* A command that failed before it was sent.
LEMMA TooLargeStep == IInv /\ TooLarge => IInv'
  <1> SUFFICES ASSUME IInv, TooLarge PROVE IInv'
    OBVIOUS
  <1> USE DEF IInv, TooLarge
  <1>1. /\ UNCHANGED bulk /\ result' \in Result /\ result'.failed /\ result'.n = result.n
        /\ result'.upserted = result.upserted /\ result'.errors = result.errors
    BY DEF TypeInv, Result
  <1>2. TypeInv'
    BY <1>1, Static DEF TypeInv, FlagInv, bulk
  <1>3. PlaceInv'
    BY <1>1 DEF PlaceInv, InHand, bulk, TypeInv
  <1>4. OutcomeInv'
    BY PendingFacts DEF PlaceInv, OutcomeInv
  <1>5. Live' = Live /\ Frontier' = Frontier /\ ~InHand /\ ~InHand'
    BY DEF Live, Frontier, InHand
  <1>6. NetInv' /\ ServerInv'
    BY <1>1, <1>5, QuietNet, FrontierInt
  <1>7. AckedInv' /\ ReportIsTrue' /\ OrderedCommands' /\ ReplyInv'
    BY <1>1, QuietReport DEF ReplyInv
  <1>8. OrderInv'
    BY <1>1, <1>5, QuietOrder, Static DEF OrderInv, bulk
  <1>9. PrefixInv'
    BY <1>1, <1>5, Static DEF PrefixInv, bulk
  <1>10. QED
    BY <1>2, <1>3, <1>4, <1>6, <1>7, <1>8, <1>9

\* What GiveUp does for each of its reasons.
GaveUp ==
    /\ pc' = "command" /\ at' = sent.last + 1
    /\ result' \in Result /\ result'.failed /\ result'.n = result.n
    /\ result'.upserted = result.upserted /\ result'.errors = result.errors

LEMMA GiveUpFacts ==
  ASSUME TypeInv, GiveUp("network") \/ GiveUp("notMaster") \/ GiveUp("other")
  PROVE  GaveUp
  <1> DEFINE Failed(e) == [result EXCEPT !.failed = TRUE, !.mustStop = TRUE, !.error = e]
  <1>1. /\ pc' = "command" /\ at' = sent.last + 1
        /\ result' = Failed("network") \/ result' = Failed("notMaster") \/ result' = Failed("other")
    BY DEF GiveUp, AfterBatch
  <1>2. QED
    BY <1>1 DEF TypeInv, Result, GaveUp

\* A batch that fails for good; net may have lost the request.
LEMMA GiveUpStep ==
  ASSUME IInv, InHand, GaveUp,
         UNCHANGED <<bulk, acked, end, txn, sent, reply, log, applied, outcome>>,
         net' \subseteq net, FlagInv', faults' \in Nat
  PROVE  IInv'
  <1> USE DEF IInv, GaveUp
  <1>2. sent.last \in Nat /\ at <= sent.last /\ sent.last <= end /\ at \in Nat \ {0} /\ end \in Nat
    BY DEF TypeInv, Request, PlaceInv
  <1>3. TypeInv'
    BY <1>2, Static DEF TypeInv, bulk
  <1>4. PlaceInv'
    BY <1>2 DEF PlaceInv, InHand, bulk, TypeInv
  <1>5. OutcomeInv'
    BY PendingFacts DEF PlaceInv, OutcomeInv, InHand
  <1>6. Live' \subseteq Live /\ Frontier' = Frontier /\ ~InHand'
    BY <1>2 DEF Live, Frontier, InHand
  <1>7. NetInv' /\ ServerInv'
    BY <1>6, QuietNet, FrontierInt
  <1>8. AckedInv' /\ ReportIsTrue' /\ OrderedCommands' /\ ReplyInv'
    BY <1>2, QuietReport DEF ReplyInv
  <1>9. OrderInv'
    BY <1>2, <1>6, QuietOrder, Static DEF OrderInv, bulk
  <1>10. PrefixInv'
    BY <1>2, <1>6, Static DEF PrefixInv, bulk
  <1>11. QED
    BY <1>3, <1>4, <1>5, <1>7, <1>8, <1>9, <1>10

\* A batch that will be sent again.
LEMMA ToRetryStep ==
  ASSUME IInv, pc = "sent", retryable, pc' = "retry", retryable' = FALSE, FlagInv',
         UNCHANGED <<at, ret, result, bulk, acked, end, txn, sent, reply, log, applied, outcome>>,
         net' \subseteq net, faults' \in Nat
  PROVE  IInv'
  <1> USE DEF IInv
  <1>1. Live' \subseteq Live /\ Frontier' = Frontier /\ InHand /\ InHand'
    BY DEF Live, Frontier, InHand
  <1>2. TypeInv'
    BY Static DEF TypeInv, bulk
  <1>3. PlaceInv'
    BY Static DEF PlaceInv, InHand, bulk
  <1>4. OutcomeInv'
    BY PendingFacts DEF PlaceInv, OutcomeInv
  <1>5. sent.txn # 0
    BY <1>1 DEF NetInv
  <1>6. NetInv' /\ ServerInv'
    BY <1>1, <1>5, QuietNet, FrontierInt
  <1>7. AckedInv' /\ ReportIsTrue' /\ OrderedCommands' /\ ReplyInv'
    BY QuietReport DEF ReplyInv
  <1>8. OrderInv'
    BY <1>1, QuietOrder, Static DEF OrderInv, bulk
  <1>9. PrefixInv'
    BY <1>1, Static DEF PrefixInv, bulk
  <1>10. QED
    BY <1>2, <1>3, <1>4, <1>6, <1>7, <1>8, <1>9

LEMMA TimeoutStep == IInv /\ Timeout => IInv'
  <1> SUFFICES ASSUME IInv, Timeout PROVE IInv'
    OBVIOUS
  <1>1. faults' \in Nat /\ net' \subseteq net /\ InHand
    BY DEF IInv, TypeInv, Timeout, InHand
  <1>2. FlagInv'
    BY Zenon DEF IInv, TypeInv, Timeout, FlagInv, GiveUp, bulk
  <1>3. CASE retryable
    BY <1>1, <1>2, <1>3, ToRetryStep DEF Timeout
  <1>4. CASE ~retryable
    <2>1. GaveUp
      BY <1>4, GiveUpFacts DEF Timeout, IInv
    <2>2. QED
      BY <1>1, <1>2, <2>1, GiveUpStep DEF Timeout
  <1>5. QED
    BY <1>3, <1>4

LEMMA RefusedStep == IInv /\ (Refused("notMaster") \/ Refused("other")) => IInv'
  <1> SUFFICES ASSUME IInv, Refused("notMaster") \/ Refused("other") PROVE IInv'
    OBVIOUS
  <1>1. faults' \in Nat /\ net' \subseteq net /\ InHand
    BY DEF IInv, TypeInv, Refused, InHand
  <1>2. FlagInv'
    BY Zenon DEF IInv, TypeInv, Refused, FlagInv, GiveUp, bulk
  <1>3. CASE retryable /\ Refused("notMaster")
    BY <1>1, <1>2, <1>3, ToRetryStep DEF Refused
  <1>4. CASE ~retryable \/ Refused("other")
    <2>1. GaveUp
      BY <1>4, GiveUpFacts DEF Refused, IInv
    <2>2. QED
      BY <1>1, <1>2, <2>1, GiveUpStep DEF Refused
  <1>5. QED
    BY <1>3, <1>4

LEMMA RetryFailsStep == IInv /\ RetryFails => IInv'
  <1> SUFFICES ASSUME IInv, RetryFails PROVE IInv'
    OBVIOUS
  <1>1. faults' \in Nat /\ net' \subseteq net /\ InHand
    BY DEF IInv, TypeInv, RetryFails, InHand
  <1>2. FlagInv'
    BY Zenon DEF IInv, TypeInv, RetryFails, FlagInv, GiveUp, bulk
  <1>3. GaveUp
    BY GiveUpFacts DEF RetryFails, IInv
  <1>4. QED
    BY <1>1, <1>2, <1>3, GiveUpStep DEF RetryFails

-----------------------------------------------------------------------------
(* The end of a command *)

LEMMA EndCommandStep == IInv /\ EndCommand => IInv'
  <1> SUFFICES ASSUME IInv, EndCommand PROVE IInv'
    OBVIOUS
  <1> USE DEF IInv
  <1>1. pc = "command" /\ UNCHANGED <<bulk, acked, end, txn, retryable, sent, reply, ret, net, log,
                                      applied, faults>>
    BY Zenon DEF EndCommand
  <1>2. result' = [result EXCEPT !.error = "none"] \/ result' = result
    BY DEF EndCommand
  <1>3. /\ result' \in Result /\ result'.n = result.n /\ result'.upserted = result.upserted
        /\ result'.errors = result.errors /\ result'.failed = result.failed
        /\ result'.mustStop = result.mustStop
    BY <1>2 DEF TypeInv, Result
  <1>4. \/ /\ pc' = "done" /\ outcome' = Completed(result') /\ at' = at
           /\ (result'.failed /\ (ordered \/ result'.mustStop)) \/ end = Len(ops)
        \/ /\ pc' = "stream" /\ at' = end + 1 /\ outcome' = outcome
           /\ ~((result'.failed /\ (ordered \/ result'.mustStop)) \/ end = Len(ops))
    BY DEF EndCommand
  <1>5. Inserts \subseteq Docs /\ Docs \subseteq Nat
    BY DocsFacts DEF Inserts, TypeInv
  <1>6. FilteredIDs(result') \in SUBSET Nat
    BY <1>5 DEF FilteredIDs
  <1>7. /\ Completed(result') \in Outcome
        /\ Completed(result').kind = "result" => ~result'.failed /\ result'.errors = {}
        /\ Completed(result').kind = "bulkError" => Completed(result').ids = FilteredIDs(result')
    BY <1>5, <1>6 DEF Completed, Outcome
  <1>8. TypeInv'
    BY <1>1, <1>3, <1>4, <1>7, Static DEF TypeInv, FlagInv, bulk
  <1>9. at <= end + 1 /\ end <= Len(ops) /\ (~result.failed => at = end + 1)
        /\ outcome = Pending
    BY <1>1 DEF PlaceInv
  <1>10. PlaceInv'
    BY <1>1, <1>3, <1>4, <1>9 DEF PlaceInv, InHand, bulk, TypeInv
  <1>11. OutcomeInv'
    <2>1. CASE pc' = "stream"
      BY <1>4, <1>9, <2>1, PendingFacts DEF OutcomeInv
    <2>2. CASE pc' = "done"
      <3>1. outcome' = Completed(result')
        BY <1>4, <2>2
      <3>2. outcome'.kind = "result" => acked = Docs
        BY <1>1, <1>3, <1>4, <1>7, <1>9, <2>2, <3>1, DocsFacts DEF PlaceInv, TypeInv
      <3>3. FilteredIDs(result') = FilteredIDs(result)'
        BY <1>1, Static
      <3>4. QED
        BY <1>1, <1>7, <3>1, <3>2, <3>3, Static DEF OutcomeInv
    <2>3. QED
      BY <1>4, <2>1, <2>2
  <1>12. Live' = Live /\ Frontier' \in Int /\ Frontier <= Frontier' /\ ~InHand'
    BY <1>1, <1>4, <1>9 DEF Live, Frontier, InHand, TypeInv
  <1>13. NetInv' /\ ServerInv'
    BY <1>1, <1>12, QuietNet
  <1>14. AckedInv' /\ ReportIsTrue' /\ OrderedCommands' /\ ReplyInv'
    BY <1>1, <1>3, <1>4, QuietReport DEF ReplyInv
  <1>15. OrderInv'
    BY <1>1, <1>3, <1>4, <1>12, QuietOrder, Static DEF OrderInv, bulk
  <1>16. PrefixInv'
    BY <1>1, <1>4, <1>12, Static DEF PrefixInv, bulk
  <1>17. QED
    BY <1>8, <1>10, <1>11, <1>13, <1>14, <1>15, <1>16

-----------------------------------------------------------------------------
(* Sending a batch, and sending it again *)

\* Requests of one batch are answered alike.
LEMMA SameBatch ==
  ASSUME NEW p, NEW q, p.first = q.first, p.last = q.last
  PROVE  Good(p) = Good(q) /\ Batch(p) = Batch(q) /\ \A w : ServerReply(p, w) = ServerReply(q, w)
  BY DEF Good, Reached, FirstBad, Batch, ServerReply, Relative

\* What a send has to leave true of the network and the server for the rest.
LEMMA SendStep ==
  ASSUME IInv, pc \in {"batch", "retry"}, pc' = "sent", NEW q \in Request,
         sent' = q, net' = net \cup {q}, reply' = NoReply,
         q.first = at, at <= q.last, q.last <= end, ordered /\ Unsplit => q.last = end,
         UNCHANGED <<bulk, acked, at, end, ret, result, log, applied, outcome, faults>>,
         txn' \in Nat, FlagInv', NetInv', ServerInv'
  PROVE  IInv'
  <1> USE DEF IInv
  <1>1. /\ reply' \in Replies /\ ~reply'.ok
    BY DEF NoReply, Replies
  <1>2. TypeInv'
    BY <1>1, Static DEF TypeInv, bulk
  <1>3. PlaceInv'
    BY Static DEF PlaceInv, InHand, bulk
  <1>4. OutcomeInv'
    BY PendingFacts DEF PlaceInv, OutcomeInv
  <1>5. ReplyInv'
    BY <1>1 DEF ReplyInv
  <1>6. at \in Nat \ {0} /\ end \in Nat /\ q.last \in Nat /\ Batch(q) \subseteq at..end
    BY DEF TypeInv, Request, Batch
  <1>7. AckedInv'
    <2>1. Batch(q) \cap acked = {}
      BY <1>6 DEF PlaceInv
    <2>2. QED
      BY <2>1 DEF AckedInv, bulk, Logged, Batch
  <1>8. ReportIsTrue'
    BY DEF ReportIsTrue, bulk
  <1>9. OrderedCommands'
    BY Static DEF OrderedCommands, bulk
  <1>10. OrderInv'
    <2>1. \A p \in Live' : p \in Live \/ p = q
      BY DEF Live, InHand
    <2>2. ordered => \A j \in at..end : \A i \in 1..(CommandStart(j) - 1) : applied[i] = 1
      BY DEF OrderInv, InHand
    <2>3. QED
      BY <1>6, <2>1, <2>2, Static DEF OrderInv, InHand, bulk
  <1>11. PrefixInv'
    BY Static DEF PrefixInv, InHand, bulk
  <1>12. QED
    BY <1>2, <1>3, <1>4, <1>5, <1>7, <1>8, <1>9, <1>10, <1>11

LEMMA ShipItStep == IInv /\ ShipIt => IInv'
  <1> SUFFICES ASSUME IInv, ShipIt PROVE IInv'
    OBVIOUS
  <1> USE DEF IInv
  <1> DEFINE q == [txn |-> IF retryable' THEN txn' ELSE 0, first |-> at, last |-> BatchEnd, attempt |-> 1]
  <1>1. /\ pc = "batch" /\ pc' = "sent" /\ txn' = IF retryable' THEN txn + 1 ELSE txn
        /\ sent' = q /\ net' = net \cup {q} /\ reply' = NoReply
        /\ UNCHANGED <<bulk, acked, at, end, ret, result, log, applied, outcome, faults>>
    BY DEF ShipIt, Send
  <1>2. FlagInv'
    <2>1. retryable' \in BOOLEAN
      BY Zenon DEF ShipIt
    <2>2. QED
      BY <2>1, Zenon DEF ShipIt, TypeInv, FlagInv, bulk
  <1>3. at \in Nat \ {0} /\ at <= end /\ end <= Len(ops) /\ end \in Nat /\ txn \in Nat /\ txn' \in Nat
    BY <1>1 DEF PlaceInv, TypeInv
  <1>4. BatchEnd \in Nat /\ at <= BatchEnd /\ BatchEnd <= end
    BY <1>3, BatchEndFacts
  <1>5. /\ q \in Request /\ q.first = at /\ q.last = BatchEnd
        /\ (q.txn = 0 \/ (retryable' /\ q.txn = txn + 1)) /\ (retryable' => q.txn # 0)
    BY <1>1, <1>3, <1>4 DEF Request
  <1> HIDE DEF q
  <1>6. Live = net /\ Live' = net \cup {q} /\ Frontier = at - 1 /\ Frontier' = q.last /\ InHand'
    BY <1>1 DEF Live, Frontier, InHand
  <1>7. \A p \in net : p \in Request /\ p.last < at /\ p.txn <= txn /\ 1 <= p.first /\ p.first <= p.last
    BY <1>3, <1>6 DEF NetInv, TypeInv, Request
  <1>8. NetInv'
    <2>1. \A p \in net : Batch(p) \cap Batch(q) = {}
      BY <1>3, <1>4, <1>5, <1>7 DEF Batch, Request
    <2>2. \A p \in net : ~(p.txn = q.txn /\ p.txn # 0)
      BY <1>3, <1>5, <1>7 DEF Request
    <2>3. /\ q.last <= Len(ops) /\ 1 <= q.first /\ q.first <= q.last /\ q.txn <= txn'
          /\ txn <= txn' /\ q.last \in Nat /\ q.first \in Nat
      BY <1>1, <1>3, <1>4, <1>5 DEF Request
    <2>4. \A p \in net : 1 <= p.first /\ p.first <= p.last /\ p.last <= Len(ops)
                         /\ p.last <= q.last /\ p.txn <= txn'
      BY <1>3, <1>4, <1>5, <1>6, <1>7, <2>3 DEF NetInv, Request
    <2>5. \A r \in Live' : r = q \/ r \in net
      BY <1>6
    <2>6. QED
      BY <1>1, <1>5, <1>6, <2>1, <2>2, <2>3, <2>4, <2>5 DEF NetInv, bulk, Batch
  <1>9. ServerInv'
    <2>1. \A i \in Batch(q) : i \in Docs /\ applied[i] = 0
      BY <1>3, <1>4, <1>5, <1>6, DocsFacts DEF Batch, ServerInv, TypeInv
    <2>2. \A e \in log : e.txn # q.txn /\ e.txn <= txn'
      BY <1>1, <1>3, <1>5 DEF ServerInv, TypeInv
    <2>3. \A i \in Docs : applied[i] > 0 => i <= q.last
      BY <1>3, <1>4, <1>5, <1>6, DocsFacts DEF ServerInv, TypeInv
    <2>4. \A r \in Live' : r = q \/ r \in net
      BY <1>6
    <2>5. \A p : Logged(p)' = Logged(p)
      BY <1>1 DEF Logged
    <2>6. UNCHANGED bulk /\ applied' = applied /\ log' = log
      BY <1>1
    <2>7. QED
      BY <1>6, <2>1, <2>2, <2>3, <2>4, <2>5, <2>6, Static DEF ServerInv, bulk, Batch
  <1>10. ordered /\ Unsplit => q.last = end
    <2> SUFFICES ASSUME ordered, Unsplit PROVE q.last = end
      OBVIOUS
    <2>1. end \in Docs /\ SameCommand(at, end)
      BY <1>1, <1>3, DocsFacts DEF PlaceInv, TypeInv
    <2>2. CommandStart(end) <= at /\ CommandStart(end) \in Nat
      BY <1>3, <2>1, CommandStartFacts
    <2>3. end - CommandStart(end) < maxBatch
      BY <2>1 DEF Unsplit
    <2>4. QED
      BY <1>3, <1>5, <2>2, <2>3, BatchEndFacts DEF TypeInv
  <1>11. QED
    BY <1>1, <1>2, <1>3, <1>4, <1>5, <1>8, <1>9, <1>10, SendStep

LEMMA RetryStep == IInv /\ Retry => IInv'
  <1> SUFFICES ASSUME IInv, Retry PROVE IInv'
    OBVIOUS
  <1> USE DEF IInv
  <1> DEFINE q == [sent EXCEPT !.attempt = 2]
  <1>1. /\ pc = "retry" /\ pc' = "sent" /\ sent' = q /\ net' = net \cup {q} /\ reply' = NoReply
        /\ UNCHANGED <<bulk, acked, at, end, txn, retryable, ret, result, log, applied, outcome, faults>>
    BY DEF Retry, Send
  <1>2. FlagInv' /\ txn' \in Nat
    BY <1>1 DEF TypeInv, FlagInv, bulk
  <1>3. q \in Request /\ q.first = sent.first /\ q.last = sent.last /\ q.txn = sent.txn
    BY DEF TypeInv, Request
  <1> HIDE DEF q
  <1>4. /\ Live = net \cup {sent} /\ Live' = net \cup {q} /\ Frontier = sent.last
        /\ Frontier' = q.last /\ InHand /\ InHand'
    BY <1>1 DEF Live, Frontier, InHand
  <1>5. sent.txn # 0
    BY <1>1, <1>4 DEF NetInv
  <1>6. Good(q) = Good(sent) /\ Batch(q) = Batch(sent) /\ \A w : ServerReply(q, w) = ServerReply(sent, w)
    BY <1>3, SameBatch
  <1>7. \A r \in Live' : r = q \/ r \in net
    BY <1>4
  <1>8. NetInv'
    <2>1. \A p \in net : Batch(p) \cap Batch(q) # {} => p.txn = q.txn
      BY <1>3, <1>4, <1>6 DEF NetInv
    <2>2. \A p, r \in Live' : Batch(p) \cap Batch(r) # {} => p = r \/ (p.txn = r.txn /\ p.txn # 0)
      BY <1>3, <1>4, <1>5, <1>7, <2>1 DEF NetInv
    <2>3. \A p, r \in Live' : p.txn = r.txn /\ p.txn # 0 => p.first = r.first /\ p.last = r.last
      BY <1>3, <1>4, <1>7 DEF NetInv
    <2>4. \A p \in Live' : 1 <= p.first /\ p.first <= p.last /\ p.last <= Len(ops)
                           /\ p.last <= q.last /\ p.txn <= txn
      BY <1>3, <1>4, <1>7 DEF NetInv
    <2>5. QED
      BY <1>1, <1>3, <1>4, <1>5, <2>2, <2>3, <2>4 DEF NetInv, bulk, Batch
  <1>9. ServerInv'
    <2>1. \A p : Logged(p)' = Logged(p)
      BY <1>1 DEF Logged
    <2>2. Logged(q) <=> Logged(sent)
      BY <1>3 DEF Logged
    <2>3. UNCHANGED bulk /\ applied' = applied /\ log' = log /\ txn' = txn
      BY <1>1
    <2>4. \A e \in log, r \in Live' : e.txn = r.txn =>
            (\E w \in BOOLEAN : e.reply = ServerReply(r, w)) /\ \A i \in Good(r) : applied[i] = 1
      BY <1>3, <1>4, <1>6, <1>7 DEF ServerInv
    <2>5. \A r \in Live' : \A i \in Batch(r) : applied[i] > 0 => i \in Good(r) /\ Logged(r)
      BY <1>3, <1>4, <1>5, <1>6, <1>7, <2>2 DEF ServerInv
    <2>6. QED
      BY <1>3, <1>4, <2>1, <2>3, <2>4, <2>5, Static DEF ServerInv, bulk, Batch
  <1>10. q.first = at /\ at <= q.last /\ q.last <= end /\ (ordered /\ Unsplit => q.last = end)
    BY <1>3, <1>4 DEF PlaceInv, PrefixInv
  <1>11. QED
    BY <1>1, <1>2, <1>3, <1>8, <1>9, <1>10, SendStep

-----------------------------------------------------------------------------
(* The server *)

\* The server has seen nothing of the batch.
New(q) == ~Logged(q) /\ ~(q.txn # 0 /\ \E e \in log : e.txn > q.txn)

\* What Execute does, old and new requests apart.
LEMMA ExecuteFacts ==
  ASSUME TypeInv, NEW q \in net, NEW w \in BOOLEAN, Execute(q, w)
  PROVE  /\ net' = net \ {q}
         /\ UNCHANGED <<bulk, acked, pc, at, end, txn, retryable, sent, ret, result, outcome, faults>>
         /\ New(q) =>
              /\ applied' = [i \in Docs |-> IF i \in Good(q) THEN applied[i] + 1 ELSE applied[i]]
              /\ log' = IF q.txn # 0 THEN log \cup {[txn |-> q.txn, reply |-> ServerReply(q, w)]}
                        ELSE log
              /\ reply' = IF pc = "sent" /\ q = sent THEN ServerReply(q, w) ELSE reply
         /\ ~New(q) =>
              /\ applied' = applied /\ log' = log
              /\ \/ reply' = reply
                 \/ pc = "sent" /\ q = sent /\ reply' = NoReply
                 \/ pc = "sent" /\ q = sent /\ \E e \in log : e.txn = q.txn /\ reply' = e.reply
  <1> DEFINE old == {e \in log : e.txn = q.txn /\ q.txn # 0}
             stale == q.txn # 0 /\ \E e \in log : e.txn > q.txn
             r == IF old # {} THEN (CHOOSE e \in old : TRUE).reply
                  ELSE IF stale THEN NoReply ELSE ServerReply(q, w)
             new == old = {} /\ ~stale
  <1>1. /\ net' = net \ {q}
        /\ applied' = [i \in Docs |-> applied[i] + IF new /\ i \in Reached(q) \ FirstBad(q) THEN 1 ELSE 0]
        /\ log' = IF new /\ q.txn # 0 THEN log \cup {[txn |-> q.txn, reply |-> r]} ELSE log
        /\ reply' = IF pc = "sent" /\ q = sent THEN r ELSE reply
        /\ UNCHANGED <<bulk, acked, pc, at, end, txn, retryable, sent, ret, result, outcome, faults>>
    BY DEF Execute
  <1>2. (New(q) <=> new) /\ (old # {} <=> Logged(q))
    BY DEF New, Logged
  <1>3. new => r = ServerReply(q, w)
    OBVIOUS
  <1>4. ~new => r = NoReply \/ \E e \in log : e.txn = q.txn /\ r = e.reply
    <2>1. CASE old # {}
      <3>1. (CHOOSE e \in old : TRUE) \in old
        BY <2>1
      <3>2. QED
        BY <2>1, <3>1
    <2>2. CASE old = {}
      BY <2>2
    <2>3. QED
      BY <2>1, <2>2
  <1>5. applied \in [Docs -> Nat]
    BY DEF TypeInv
  <1> HIDE DEF old, stale, r, new
  <1>6. new => applied' = [i \in Docs |-> IF i \in Good(q) THEN applied[i] + 1 ELSE applied[i]]
    BY <1>1, <1>5 DEF Good
  <1>7. ~new => applied' = applied
    BY <1>1, <1>5
  <1>8. QED
    BY <1>1, <1>2, <1>3, <1>4, <1>6, <1>7

\* A request the server has an answer for, or that comes too late.
LEMMA OldStep ==
  ASSUME IInv, NEW q \in net, ~New(q), net' = net \ {q},
         UNCHANGED <<bulk, acked, pc, at, end, txn, retryable, sent, ret, result, outcome, faults>>,
         applied' = applied, log' = log,
         \/ reply' = reply
         \/ pc = "sent" /\ q = sent /\ reply' = NoReply
         \/ pc = "sent" /\ q = sent /\ \E e \in log : e.txn = q.txn /\ reply' = e.reply
  PROVE  IInv'
  <1> USE DEF IInv
  <1>1. Live' \subseteq Live /\ Frontier' = Frontier /\ (InHand' <=> InHand)
    BY DEF Live, Frontier, InHand
  <1>2. /\ reply' \in Replies /\ (reply' = NoReply => ~reply'.ok)
    <2>1. NoReply \in Replies /\ ~NoReply.ok
      BY DEF NoReply, Replies
    <2>2. reply \in Replies /\ \A e \in log : e.reply \in Replies
      BY DEF TypeInv
    <2>3. QED
      BY <2>1, <2>2
  <1>3. TypeInv'
    BY <1>2, Static DEF TypeInv, FlagInv, bulk
  <1>4. PlaceInv'
    BY <1>1, Static DEF PlaceInv, bulk
  <1>5. OutcomeInv'
    BY Static DEF OutcomeInv
  <1>6. NetInv' /\ ServerInv'
    <2>1. InHand' /\ (retryable' \/ pc' = "retry") => sent'.txn # 0
      BY <1>1 DEF NetInv
    <2>2. QED
      BY <1>1, <2>1, QuietNet, FrontierInt
  <1>7. AckedInv' /\ ReportIsTrue' /\ OrderedCommands'
    BY QuietReport
  <1>8. ReplyInv'
    <2> SUFFICES ASSUME pc = "sent", reply'.ok PROVE ReplyInv'
      BY DEF ReplyInv
    <2>1. \A p : Logged(p)' = Logged(p)
      BY DEF Logged
    <2>2. sent \in Live
      BY DEF Live, InHand
    <2>3. CASE reply' = reply
      BY <2>1, <2>3, Static DEF ReplyInv, bulk
    <2>4. CASE q = sent /\ \E e \in log : e.txn = q.txn /\ reply' = e.reply
      <3>1. PICK e \in log : e.txn = sent.txn /\ reply' = e.reply
        BY <2>4
      <3>2. Logged(sent)
        BY <3>1 DEF ServerInv, Logged
      <3>3. (\E x \in BOOLEAN : reply' = ServerReply(sent, x)) /\ \A i \in Good(sent) : applied[i] = 1
        BY <2>2, <3>1 DEF ServerInv
      <3>4. QED
        BY <2>1, <3>2, <3>3, Static DEF ReplyInv, bulk
    <2>5. QED
      BY <1>2, <2>3, <2>4
  <1>9. OrderInv'
    BY <1>1, QuietOrder, Static DEF OrderInv, bulk
  <1>10. PrefixInv'
    BY <1>1, Static DEF PrefixInv, bulk
  <1>11. QED
    BY <1>3, <1>4, <1>5, <1>6, <1>7, <1>8, <1>9, <1>10

LEMMA ReplyType ==
  ASSUME TypeInv, NEW q, Sound(q), NEW w \in BOOLEAN
  PROVE  ServerReply(q, w) \in Replies /\ ServerReply(q, w).ok
  <1> DEFINE G == Reached(q) \ FirstBad(q)
             U == {i \in G : ops[i].kind = "upsert"}
             B == Reached(q) \cap FirstBad(q)
  <1>1. q.first \in Nat /\ q.last \in Nat
    BY DEF Sound, Request
  <1>2. G \subseteq q.first..q.last /\ B \subseteq q.first..q.last /\ U \subseteq q.first..q.last
    BY GoodFacts DEF Good, Batch
  <1>3. Cardinality(G) \in Nat
    <2>1. IsFiniteSet(q.first..q.last)
      BY <1>1, FS_Interval
    <2>2. IsFiniteSet(G)
      BY <1>2, <2>1, FS_Subset
    <2>3. QED
      BY <2>2, FS_CardinalityType
  <1>4. Relative(U, q) \in SUBSET Nat /\ Relative(B, q) \in SUBSET Nat
    BY <1>1, <1>2 DEF Relative
  <1> HIDE DEF G, U, B
  <1>5. ServerReply(q, w) = [n |-> Cardinality(G), upserted |-> Relative(U, q), errors |-> Relative(B, q),
                             wce |-> w, ok |-> TRUE]
    BY DEF ServerReply, G, U, B
  <1>6. QED
    BY <1>3, <1>4, <1>5 DEF Replies

\* A batch the server applies now.
LEMMA NewStep ==
  ASSUME IInv, NEW q \in net, NEW w \in BOOLEAN, New(q), net' = net \ {q},
         UNCHANGED <<bulk, acked, pc, at, end, txn, retryable, sent, ret, result, outcome, faults>>,
         applied' = [i \in Docs |-> IF i \in Good(q) THEN applied[i] + 1 ELSE applied[i]],
         log' = IF q.txn # 0 THEN log \cup {[txn |-> q.txn, reply |-> ServerReply(q, w)]} ELSE log,
         reply' = IF pc = "sent" /\ q = sent THEN ServerReply(q, w) ELSE reply
  PROVE  IInv'
  <1> USE DEF IInv
  <1>1. Live' \subseteq Live /\ Frontier' = Frontier /\ (InHand' <=> InHand) /\ q \in Live
    BY DEF Live, Frontier, InHand
  <1>2. Sound(q) /\ q.last <= Frontier /\ q.txn <= txn /\ q.txn \in Nat
    BY <1>1 DEF Sound, NetInv, TypeInv, Request
  <1>3. ServerReply(q, w) \in Replies /\ ServerReply(q, w).ok
    BY <1>2, ReplyType
  <1>4. Good(q) \subseteq Batch(q) /\ Batch(q) \subseteq Docs /\ \A i \in Good(q) : ops[i].fate # "bad"
    BY <1>2, GoodFacts
  <1>5. \A i \in Docs : applied[i] \in Nat
    BY DEF TypeInv
  <1>6. \A i \in Good(q) : applied[i] = 0
    BY <1>1, <1>4, <1>5 DEF ServerInv, New
  <1>7. /\ \A i \in Docs : applied'[i] = IF i \in Good(q) THEN 1 ELSE applied[i]
        /\ \A i \in Docs : applied[i] = 1 => applied'[i] = 1
    BY <1>4, <1>5, <1>6
  <1>8. \A i \in acked : i \in Docs /\ i \notin Good(q) /\ applied'[i] = applied[i]
    BY <1>4, <1>7 DEF AckedInv, New, TypeInv
  <1>9. /\ \A p : Logged(p) => Logged(p)'
        /\ q.txn # 0 => \A p : p.txn = q.txn => Logged(p)'
    <2> DEFINE new == [txn |-> q.txn, reply |-> ServerReply(q, w)]
    <2>1. log \subseteq log' /\ (q.txn # 0 => new \in log')
      OBVIOUS
    <2>2. new.txn = q.txn
      OBVIOUS
    <2> HIDE DEF new
    <2>3. QED
      BY <2>1, <2>2 DEF Logged
  <1>10. TypeInv'
    <2>1. applied' \in [Docs -> Nat]
      BY <1>5
    <2>2. log' \subseteq [txn : Nat, reply : Replies] /\ reply' \in Replies
      BY <1>2, <1>3 DEF TypeInv
    <2>3. QED
      BY <2>1, <2>2, Static DEF TypeInv, FlagInv, bulk
  <1>11. PlaceInv' /\ OutcomeInv'
    BY <1>1, Static DEF PlaceInv, OutcomeInv, bulk
  <1>12. NetInv'
    BY <1>1 DEF NetInv, bulk, Batch
  <1>13. \A p \in Live : p.txn = q.txn /\ q.txn # 0 =>
           Good(p) = Good(q) /\ ServerReply(p, w) = ServerReply(q, w)
    BY <1>1, SameBatch DEF NetInv
  <1>14. ServerInv'
    <2>1. \A e \in log' : e \in log \/ (q.txn # 0 /\ e.txn = q.txn /\ e.reply = ServerReply(q, w))
      OBVIOUS
    <2>2. \A e \in log' : e.txn <= txn /\ e.txn # 0
      BY <1>2, <2>1 DEF ServerInv
    <2>3. \A p \in Live : Good(p) \subseteq Docs
      <3> SUFFICES ASSUME NEW p \in Live PROVE Good(p) \subseteq Docs
        OBVIOUS
      <3>1. Sound(p)
        BY DEF Sound, NetInv, TypeInv, Live
      <3>2. QED
        BY <3>1, GoodFacts
    <2>4. ASSUME NEW e \in log', NEW p \in Live', e.txn = p.txn
          PROVE  (\E x \in BOOLEAN : e.reply = ServerReply(p, x)) /\ \A i \in Good(p) : applied'[i] = 1
      <3>1. CASE e \in log
        BY <1>1, <1>7, <2>3, <2>4, <3>1 DEF ServerInv
      <3>2. CASE q.txn # 0 /\ e.txn = q.txn /\ e.reply = ServerReply(q, w)
        BY <1>1, <1>7, <1>13, <2>3, <2>4, <3>2
      <3>3. QED
        BY <2>1, <3>1, <3>2
    <2>5. \A i \in Docs : applied'[i] <= 1 /\ (applied'[i] > 0 => i <= Frontier /\ ops[i].fate # "bad")
      <3> SUFFICES ASSUME NEW i \in Docs
                   PROVE  applied'[i] <= 1 /\ (applied'[i] > 0 => i <= Frontier /\ ops[i].fate # "bad")
        OBVIOUS
      <3>1. CASE i \in Good(q)
        <4>1. i <= q.last /\ i \in Int /\ q.last \in Int /\ Frontier \in Int
          BY <1>2, <1>4, <3>1, FrontierInt DEF Batch, Sound, Request
        <4>2. QED
          BY <1>2, <1>4, <1>7, <3>1, <4>1
      <3>2. CASE i \notin Good(q)
        BY <1>7, <3>2 DEF ServerInv
      <3>3. QED
        BY <3>1, <3>2
    <2>6. ASSUME NEW p \in Live', NEW i \in Batch(p), applied'[i] > 0
          PROVE  i \in Good(p) /\ (p \in net' \/ p.txn # 0 => Logged(p)')
      <3>1. p \in Live /\ Sound(p)
        BY <1>1 DEF Sound, NetInv, TypeInv, Live
      <3>2. i \in Docs
        BY <3>1, GoodFacts
      <3>3. CASE i \in Good(q)
        <4>1. p = q \/ (p.txn = q.txn /\ p.txn # 0)
          BY <1>1, <1>4, <3>1, <3>3 DEF NetInv
        <4>2. QED
          BY <1>9, <1>13, <3>1, <3>3, <4>1
      <3>4. CASE i \notin Good(q)
        BY <1>7, <1>9, <2>6, <3>1, <3>2, <3>4 DEF ServerInv
      <3>5. QED
        BY <3>3, <3>4
    <2>7. QED
      BY <1>1, <2>2, <2>4, <2>5, <2>6, Static DEF ServerInv, bulk, Batch
  <1>15. ReplyInv'
    <2> SUFFICES ASSUME pc = "sent", reply'.ok PROVE ReplyInv'
      BY DEF ReplyInv
    <2>1. sent \in Live /\ Sound(sent)
      BY DEF Live, InHand, Sound, NetInv, TypeInv
    <2>2. Good(sent) \subseteq Docs
      BY <2>1, GoodFacts
    <2>3. CASE q = sent
      BY <1>7, <1>9, <2>2, <2>3, Static DEF ReplyInv, bulk
    <2>4. CASE q # sent
      BY <1>7, <1>9, <2>2, <2>4, Static DEF ReplyInv, bulk
    <2>5. QED
      BY <2>3, <2>4
  <1>16. AckedInv'
    BY <1>8, <1>9 DEF AckedInv, bulk, Batch
  <1>17. ReportIsTrue'
    BY <1>8 DEF ReportIsTrue, bulk
  <1>18. \A j \in Docs : 1..(CommandStart(j) - 1) \subseteq Docs
    BY CommandStartFacts, DocsFacts DEF TypeInv
  <1>19. OrderInv'
    <2>1. \A p \in Live : Batch(p) \subseteq Docs
      <3> SUFFICES ASSUME NEW p \in Live PROVE Batch(p) \subseteq Docs
        OBVIOUS
      <3>1. Sound(p)
        BY DEF Sound, NetInv, TypeInv, Live
      <3>2. QED
        BY <3>1, GoodFacts
    <2>2. pc = "batch" \/ InHand => at..end \subseteq Docs
      BY DocsFacts DEF PlaceInv, TypeInv
    <2>3. QED
      BY <1>1, <1>7, <1>18, <2>1, <2>2, Static DEF OrderInv, bulk, Batch
  <1>20. OrderedCommands'
    BY <1>1, <1>4, <1>7, <1>18, Static DEF OrderedCommands, OrderInv, ServerInv, bulk, Batch
  <1>21. PrefixInv'
    BY <1>1, <1>8, Static DEF PrefixInv, bulk
  <1>22. QED
    BY <1>10, <1>11, <1>12, <1>14, <1>15, <1>16, <1>17, <1>19, <1>20, <1>21

LEMMA ExecuteStep == ASSUME IInv, NEW q \in net, NEW w \in BOOLEAN, Execute(q, w) PROVE IInv'
  <1>1. TypeInv
    BY DEF IInv
  <1>2. CASE New(q)
    BY <1>1, <1>2, ExecuteFacts, NewStep
  <1>3. CASE ~New(q)
    BY <1>1, <1>3, ExecuteFacts, OldStep
  <1>4. QED
    BY <1>2, <1>3

-----------------------------------------------------------------------------
(* Merging a reply *)

\* Counting from the batch's first document and back.
LEMMA RelativeFacts ==
  ASSUME NEW q, Sound(q), NEW S, S \subseteq Batch(q)
  PROVE  /\ {q.first + i : i \in Relative(S, q)} = S
         /\ IsFiniteSet(S) /\ Cardinality(S) \in Nat /\ Cardinality(Relative(S, q)) = Cardinality(S)
         /\ Relative(S, q) = {} <=> S = {}
  <1>1. q.first \in Nat /\ q.last \in Nat /\ \A i \in S : i \in Nat /\ i - q.first \in Nat
    BY DEF Sound, Request, Batch
  <1>2. {q.first + i : i \in Relative(S, q)} = S /\ (Relative(S, q) = {} <=> S = {})
    <2>1. \A i \in S : q.first + (i - q.first) = i
      BY <1>1
    <2>2. {q.first + i : i \in Relative(S, q)} = {q.first + (i - q.first) : i \in S}
      BY DEF Relative
    <2>3. {q.first + (i - q.first) : i \in S} = S
      BY <2>1
    <2>4. QED
      BY <2>2, <2>3 DEF Relative
  <1>3. IsFiniteSet(Batch(q))
    BY <1>1, FS_Interval DEF Batch
  <1>4. IsFiniteSet(S)
    BY <1>3, FS_Subset
  <1>5. Cardinality(S) \in Nat
    BY <1>4, FS_CardinalityType
  <1> DEFINE f == [i \in S |-> i - q.first]
  <1>6. f \in Bijection(S, Relative(S, q))
    <2>1. f \in [S -> Relative(S, q)]
      BY DEF Relative
    <2>2. \A a, b \in S : f[a] = f[b] => a = b
      BY <1>1
    <2>3. \A t \in Relative(S, q) : \E i \in S : f[i] = t
      BY DEF Relative
    <2>4. QED
      BY <2>1, <2>2, <2>3 DEF Bijection, Injection, IsInjective, Surjection
  <1>7. Cardinality(Relative(S, q)) = Cardinality(S)
    BY <1>4, <1>6, FS_Bijection DEF ExistsBijection
  <1>8. QED
    BY <1>2, <1>4, <1>5, <1>7

Ups(S) == {i \in S : ops[i].kind = "upsert"}
Errs(q) == Reached(q) \cap FirstBad(q)
SentType == TypeOf[ops[sent.first].kind]

LEMMA MergeFacts ==
  ASSUME TypeInv, Sound(sent), NEW w \in BOOLEAN, reply = ServerReply(sent, w), result' = Merge(reply)
  PROVE  /\ result' \in Result
         /\ result'.errors = result.errors \cup Errs(sent)
         /\ result'.upserted = result.upserted \cup Ups(Good(sent))
         /\ result'.n = [result.n EXCEPT
                           ![SentType] = @ + Cardinality(Good(sent)) - Cardinality(Ups(Good(sent)))]
         /\ result'.failed <=> result.failed \/ Errs(sent) # {}
  <1> DEFINE G == Good(sent)
             U == Ups(Good(sent))
             B == Errs(sent)
             R(S) == Relative(S, sent)
             N == [result.n EXCEPT ![SentType] = @ + Cardinality(G) - Cardinality(U)]
  <1>1. G \subseteq Batch(sent) /\ U \subseteq Batch(sent) /\ B \subseteq Batch(sent)
        /\ Batch(sent) \subseteq Nat
    BY GoodFacts DEF Ups, Errs, Batch, Sound, Request
  <1>2. reply = [n |-> Cardinality(G), upserted |-> R(U), errors |-> R(B), wce |-> w, ok |-> TRUE]
    BY DEF ServerReply, Good, Ups, Errs
  <1>3. /\ {sent.first + i : i \in R(U)} = U /\ {sent.first + i : i \in R(B)} = B
        /\ Cardinality(R(U)) = Cardinality(U) /\ (R(B) = {} <=> B = {})
        /\ Cardinality(G) \in Nat /\ Cardinality(U) \in Nat
    BY <1>1, RelativeFacts
  <1>4. SentType \in Types /\ result.n \in [Types -> Int] /\ N \in [Types -> Int]
    <2>1. sent.first \in Docs
      BY DocsFacts DEF Sound, Request, TypeInv
    <2>2. SentType \in Types
      BY <2>1, DocsFacts DEF SentType
    <2>3. QED
      BY <1>3, <2>2 DEF TypeInv, Result
  <1> HIDE DEF G, U, B, R
  <1>5. /\ reply.n = Cardinality(G) /\ reply.upserted = R(U) /\ reply.errors = R(B) /\ reply.wce = w
    BY <1>2
  <1>6. result' = [result EXCEPT !.n = N, !.upserted = @ \cup U, !.errors = @ \cup B,
                                 !.wce = @ \/ w, !.failed = @ \/ R(B) # {}]
    BY <1>3, <1>4, <1>5 DEF Merge, SentType, TypeInv, Result
  <1> HIDE DEF N
  <1>7. /\ result'.n = N /\ result'.upserted = result.upserted \cup U
        /\ result'.errors = result.errors \cup B /\ result'.failed = (result.failed \/ R(B) # {})
    BY <1>6 DEF TypeInv, Result
  <1>8. result' \in Result
    <2> DEFINE wce == result.wce \/ w
               failed == result.failed \/ R(B) # {}
               ups == result.upserted \cup U
               errs == result.errors \cup B
    <2>1. wce \in BOOLEAN /\ failed \in BOOLEAN
      BY Zenon
    <2>2. ups \in SUBSET Nat /\ errs \in SUBSET Nat
      BY <1>1 DEF TypeInv, Result
    <2>3. result' = [result EXCEPT !.n = N, !.upserted = ups, !.errors = errs, !.wce = wce, !.failed = failed]
      BY <1>6
    <2> HIDE DEF wce, failed, ups, errs
    <2>4. QED
      BY <1>4, <2>1, <2>2, <2>3 DEF TypeInv, Result
  <1>9. QED
    BY <1>3, <1>7, <1>8 DEF G, U, B, N

Done(t) == {i \in acked : TypeOf[ops[i].kind] = t /\ applied[i] = 1}

LEMMA ReportDef ==
  ReportIsTrue <=>
    /\ result.n.insert = Cardinality(Done("insert"))
    /\ result.n.delete = Cardinality(Done("delete"))
    /\ result.n.update = Cardinality(Done("update") \ Ups(Done("update")))
    /\ result.upserted = Ups(Done("update"))
    /\ result.errors \subseteq {i \in acked : ops[i].fate = "bad"}
    /\ \A i \in acked : ops[i].fate = "bad" /\ i \notin result.errors =>
          ordered /\ \E j \in result.errors : j < i
  BY DEF ReportIsTrue, Done, Ups

\* Cardinalities of the parts of a batch and of what was there before.
LEMMA AddDisjoint ==
  ASSUME NEW S, NEW T, IsFiniteSet(S), IsFiniteSet(T), S \cap T = {}
  PROVE  Cardinality(S \cup T) = Cardinality(S) + Cardinality(T)
  <1>1. Cardinality(S \cap T) = 0
    BY FS_EmptySet
  <1>2. Cardinality(S) \in Nat /\ Cardinality(T) \in Nat
    BY FS_CardinalityType
  <1>3. Cardinality(S \cup T) = Cardinality(S) + Cardinality(T) - Cardinality(S \cap T)
    BY FS_Union
  <1>4. QED
    BY <1>1, <1>2, <1>3

LEMMA TakeSubset ==
  ASSUME NEW S, NEW T, IsFiniteSet(S), T \subseteq S
  PROVE  IsFiniteSet(S \ T) /\ Cardinality(S \ T) = Cardinality(S) - Cardinality(T)
  <1>1. S \cap T = T
    OBVIOUS
  <1>2. QED
    BY <1>1, FS_Difference

LEMMA ReceiveStep == IInv /\ Receive => IInv'
  <1> SUFFICES ASSUME IInv, Receive PROVE IInv'
    OBVIOUS
  <1> USE DEF IInv
  <1>1. /\ pc = "sent" /\ reply.ok /\ result' = Merge(reply) /\ acked' = acked \cup Batch(sent)
        /\ at' = sent.last + 1 /\ pc' = IF sent.last < end THEN "batch" ELSE "command"
        /\ UNCHANGED <<bulk, end, txn, retryable, sent, reply, net, log, applied, outcome, faults>>
    BY DEF Receive, AfterBatch, Batch
  <1>2. /\ InHand /\ ~InHand' /\ sent \in Live /\ Live' \subseteq Live
        /\ sent.first = at /\ at <= sent.last /\ sent.last <= end /\ end <= Len(ops)
        /\ sent.first \in Nat /\ sent.last \in Nat /\ at \in Nat \ {0} /\ end \in Nat
    BY <1>1 DEF InHand, Live, PlaceInv, TypeInv, Request
  <1>3. Frontier = sent.last /\ Frontier' = sent.last
    BY <1>1, <1>2 DEF Frontier
  <1>4. Sound(sent)
    BY <1>2 DEF Sound, TypeInv
  <1>5. PICK w \in BOOLEAN : reply = ServerReply(sent, w)
    BY <1>1 DEF ReplyInv
  <1> DEFINE G == Good(sent)
             U == Ups(Good(sent))
             B == Errs(sent)
             N == [result.n EXCEPT ![SentType] = @ + Cardinality(G) - Cardinality(U)]
  <1>6. /\ result' \in Result /\ result'.errors = result.errors \cup B
        /\ result'.upserted = result.upserted \cup U /\ result'.n = N
        /\ result'.failed <=> result.failed \/ B # {}
    BY <1>1, <1>4, <1>5, MergeFacts
  <1>7. /\ G \subseteq Batch(sent) /\ Batch(sent) \subseteq Docs /\ \A i \in G : ops[i].fate # "bad"
        /\ \A i \in B : i \in Batch(sent) /\ ops[i].fate = "bad"
        /\ \A i \in Batch(sent) \ G : i \in B \/ (ordered /\ \E j \in B : j < i)
        /\ ordered => \A i \in G : \A j \in sent.first..i : j \in G
    BY <1>4, GoodFacts DEF Errs
  <1>8. \A i \in Batch(sent) : applied[i] = 1 <=> i \in G
    BY <1>1, <1>2, <1>7 DEF ReplyInv, ServerInv, TypeInv
  <1>9. Batch(sent) = at..sent.last /\ acked \cap Batch(sent) = {}
    BY <1>2 DEF Batch, PlaceInv
  <1> HIDE DEF G, U, B, N
  <1>10. TypeInv'
    <2>1. FlagInv'
      BY Zenon DEF Receive, TypeInv, FlagInv, bulk
    <2>2. QED
      BY <1>1, <1>2, <1>6, <1>7, <2>1, Static DEF TypeInv, bulk
  <1>11. PlaceInv'
    <2>1. pc' = "batch" => SameCommand(at', end)
      BY <1>1, <1>2, SubCommand DEF PlaceInv
    <2>2. acked' \subseteq 1..(at' - 1) /\ (~result'.failed => acked' = 1..(at' - 1))
      <3>1. at' - 1 = sent.last /\ 1..(at - 1) \cup at..sent.last = 1..sent.last
        BY <1>1, <1>2
      <3>2. acked \subseteq 1..(at - 1) /\ (~result.failed => acked = 1..(at - 1))
        BY DEF PlaceInv
      <3>3. acked' = acked \cup at..sent.last
        BY <1>1, <1>9
      <3>4. QED
        BY <1>6, <3>1, <3>2, <3>3
    <2>3. result'.errors # {} => result'.failed
      BY <1>6 DEF PlaceInv
    <2>4. QED
      BY <1>1, <1>2, <2>1, <2>2, <2>3, Static DEF PlaceInv, bulk
  <1>12. OutcomeInv'
    BY <1>1, PendingFacts DEF PlaceInv, OutcomeInv
  <1>13. NetInv' /\ ServerInv'
    BY <1>1, <1>2, <1>3, QuietNet
  <1>14. ReplyInv'
    BY <1>1 DEF ReplyInv
  <1>15. AckedInv'
    <2>1. \A q \in net : Batch(q) \cap Batch(sent) # {} => Logged(q)
      <3> SUFFICES ASSUME NEW q \in net, Batch(q) \cap Batch(sent) # {} PROVE Logged(q)
        OBVIOUS
      <3>1. q \in Live /\ (q = sent \/ (q.txn = sent.txn /\ q.txn # 0))
        BY <1>2 DEF NetInv, Live
      <3>2. sent \in net \/ sent.txn # 0 => Logged(sent)
        BY <1>1 DEF ReplyInv
      <3>3. QED
        BY <3>1, <3>2 DEF Logged
    <2>2. \A i \in Batch(sent) : \/ applied[i] = 1
                                 \/ i \in result'.errors
                                 \/ ordered /\ \E j \in result'.errors : j < i
      BY <1>6, <1>7, <1>8
    <2>3. \A q \in net : Batch(q) \cap acked' # {} => Logged(q)
      BY <1>1, <2>1 DEF AckedInv
    <2>4. \A i \in acked' : \/ applied[i] = 1
                            \/ i \in result'.errors
                            \/ ordered /\ \E j \in result'.errors : j < i
      BY <1>1, <1>6, <2>2 DEF AckedInv
    <2>5. \A q : Logged(q)' = Logged(q)
      BY <1>1 DEF Logged
    <2>6. QED
      BY <1>1, <2>3, <2>4, <2>5 DEF AckedInv, bulk, Batch
  <1>16. OrderedCommands'
    BY <1>1, Static DEF OrderedCommands, bulk
  <1>17. OrderInv'
    BY <1>1, <1>2, QuietOrder, Static DEF OrderInv, bulk
  <1>18. PrefixInv'
    <2> SUFFICES ASSUME ordered, Unsplit PROVE PrefixInv'
      BY <1>1, Static DEF PrefixInv, bulk
    <2>1. sent.last = end /\ ~result.failed /\ result.errors = {} /\ acked = 1..(at - 1)
      BY <1>2 DEF PrefixInv, PlaceInv
    <2>2. \A i \in acked : applied[i] = 1
      BY <2>1 DEF AckedInv
    <2>3. acked' = 1..sent.last
      BY <1>1, <1>2, <1>9, <2>1
    <2>4. \A i \in acked' : applied[i] = 1 => \A j \in 1..(i - 1) : j \in acked' /\ applied[j] = 1
      <3> SUFFICES ASSUME NEW i \in acked', applied[i] = 1, NEW j \in 1..(i - 1)
                   PROVE  j \in acked' /\ applied[j] = 1
        OBVIOUS
      <3>1. i \in Nat /\ j \in Nat /\ j < i /\ i <= sent.last /\ 1 <= j
        BY <1>2, <2>3
      <3>2. j \in acked'
        BY <1>2, <2>3, <3>1
      <3>3. CASE j < at
        <4>1. j \in acked
          BY <1>2, <2>1, <3>1, <3>3
        <4>2. QED
          BY <2>2, <3>2, <4>1
      <3>4. CASE at <= j
        <4>1. i \in Batch(sent) /\ j \in Batch(sent) /\ j \in sent.first..i
          BY <1>2, <1>9, <3>1, <3>4
        <4>2. QED
          BY <1>7, <1>8, <3>2, <4>1
      <3>5. QED
        BY <1>2, <3>1, <3>2, <3>3, <3>4
    <2>5. pc' = "command"
      BY <1>1, <1>2, <2>1
    <2>6. QED
      BY <1>1, <1>2, <2>4, <2>5 DEF PrefixInv
  <1>19. ReportIsTrue'
    <2> DEFINE D(t) == Done(t)
               E(t) == IF t = SentType THEN D(t) \cup G ELSE D(t)
    <2>1. \A i \in Batch(sent) : TypeOf[ops[i].kind] = SentType
      BY <1>2, <1>9 DEF PlaceInv, SameCommand, SentType
    <2>2. \A t : Done(t)' = E(t)
      BY <1>1, <1>7, <1>8, <2>1 DEF Done, bulk
    <2>3. \A t : Ups(E(t)) = IF t = SentType THEN Ups(D(t)) \cup U ELSE Ups(D(t))
      BY DEF Ups, U, G
    <2>4. \A S : Ups(S)' = Ups(S)
      BY <1>1 DEF Ups, bulk
    <2>5. IsFiniteSet(Docs)
      <3>1. Len(ops) \in Int /\ Docs = 1..Len(ops)
        BY DocsFacts DEF TypeInv
      <3>2. IsFiniteSet(1..Len(ops))
        BY <3>1, FS_Interval
      <3>3. QED
        BY <3>1, <3>2
    <2>6. /\ IsFiniteSet(G) /\ Cardinality(G) \in Nat /\ U \subseteq G
          /\ \A t : IsFiniteSet(D(t)) /\ D(t) \cap G = {} /\ Ups(D(t)) \subseteq D(t)
                   /\ D(t) \subseteq acked
      <3>1. IsFiniteSet(G) /\ Cardinality(G) \in Nat
        BY <1>7, <2>5, FS_Subset, FS_CardinalityType
      <3>2. \A t : D(t) \subseteq acked /\ D(t) \subseteq Docs
        BY DEF Done, TypeInv
      <3>3. \A t : IsFiniteSet(D(t))
        BY <2>5, <3>2, FS_Subset
      <3>4. QED
        BY <1>7, <1>9, <3>1, <3>2, <3>3 DEF Ups, U, G
    <2>7. SentType # "update" => U = {}
      BY <1>7, <2>1 DEF U, G, Ups, TypeOf
    <2> HIDE DEF D, E
    <2>8. /\ result.n.insert = Cardinality(D("insert"))
          /\ result.n.delete = Cardinality(D("delete"))
          /\ result.n.update = Cardinality(D("update") \ Ups(D("update")))
          /\ result.upserted = Ups(D("update"))
          /\ result.errors \subseteq {i \in acked : ops[i].fate = "bad"}
          /\ \A i \in acked : ops[i].fate = "bad" /\ i \notin result.errors =>
                ordered /\ \E j \in result.errors : j < i
      BY ReportDef, Zenon DEF D
    <2>9. \A t : Cardinality(D(t) \cup G) = Cardinality(D(t)) + Cardinality(G)
      BY <2>6, AddDisjoint
    <2>10. /\ result.n \in [Types -> Int] /\ SentType \in Types
           /\ \A t \in Types : result'.n[t] = IF t = SentType
                                  THEN result.n[t] + Cardinality(G) - Cardinality(U) ELSE result.n[t]
      <3>1. sent.first \in Batch(sent)
        BY <1>2, <1>9
      <3>2. SentType \in Types /\ result.n \in [Types -> Int]
        BY <1>7, <3>1, DocsFacts DEF SentType, TypeInv, Result
      <3>3. QED
        BY <1>6, <3>2 DEF N
    <2>11. \A t \in {"insert", "delete"} : result'.n[t] = Cardinality(E(t))
      <3>1. \A t \in {"insert", "delete"} : t \in Types /\ t # "update" /\ result.n[t] = Cardinality(D(t))
        BY <2>8 DEF Types
      <3>2. SentType # "update" => Cardinality(U) = 0
        BY <2>7, FS_EmptySet
      <3>3. ASSUME NEW t \in Types, t # "update", result.n[t] = Cardinality(D(t))
            PROVE  result'.n[t] = Cardinality(E(t))
        <4>1. CASE t = SentType
          <5>1. result'.n[t] = result.n[t] + Cardinality(G) - 0
            BY <2>10, <3>2, <3>3, <4>1
          <5>2. E(t) = D(t) \cup G /\ Cardinality(D(t)) \in Nat
            BY <2>6, <4>1, FS_CardinalityType DEF E
          <5>3. QED
            BY <2>6, <2>9, <3>3, <5>1, <5>2
        <4>2. CASE t # SentType
          BY <2>10, <3>3, <4>2 DEF E
        <4>3. QED
          BY <4>1, <4>2
      <3>4. QED
        BY <3>1, <3>3
    <2>12. result'.n["update"] = Cardinality(E("update") \ Ups(E("update")))
      <3>1. CASE SentType # "update"
        BY <2>3, <2>8, <2>10, <3>1 DEF E, Types
      <3>2. CASE SentType = "update"
        <4> DEFINE X == D("update") \ Ups(D("update"))
                   Y == G \ U
        <4>1. E("update") \ Ups(E("update")) = X \cup Y
          BY <2>3, <2>6, <3>2 DEF E, Ups, U, G
        <4>2. IsFiniteSet(X) /\ IsFiniteSet(Y) /\ X \cap Y = {} /\ Cardinality(Y) = Cardinality(G) - Cardinality(U)
          BY <2>6, TakeSubset
        <4>3. Cardinality(X \cup Y) = Cardinality(X) + Cardinality(Y)
          BY <4>2, AddDisjoint
        <4>4. result'.n["update"] = result.n["update"] + Cardinality(G) - Cardinality(U)
          BY <2>10, <3>2 DEF Types
        <4>5. Cardinality(X) \in Nat /\ Cardinality(U) \in Nat
          BY <2>6, <4>2, FS_Subset, FS_CardinalityType
        <4>6. result.n["update"] = Cardinality(X)
          BY <2>8
        <4> HIDE DEF X, Y
        <4>7. QED
          BY <2>6, <4>1, <4>2, <4>3, <4>4, <4>5, <4>6
      <3>3. QED
        BY <3>1, <3>2
    <2>13. result'.upserted = Ups(E("update"))
      BY <1>6, <2>3, <2>7, <2>8
    <2>14. result'.errors \subseteq {i \in acked' : ops[i].fate = "bad"}
      BY <1>1, <1>6, <1>7, <2>8
    <2>15. \A i \in acked' : ops[i].fate = "bad" /\ i \notin result'.errors =>
             ordered /\ \E j \in result'.errors : j < i
      BY <1>1, <1>6, <1>7, <2>8
    <2>16. UNCHANGED <<ops, ordered>>
      BY <1>1 DEF bulk
    <2>17. result'.n.insert = Cardinality(E("insert")) /\ result'.n.delete = Cardinality(E("delete"))
           /\ result'.n.update = Cardinality(E("update") \ Ups(E("update")))
      BY <2>11, <2>12
    <2>18. ReportIsTrue' <=>
             /\ result'.n.insert = Cardinality(Done("insert")')
             /\ result'.n.delete = Cardinality(Done("delete")')
             /\ result'.n.update = Cardinality(Done("update")' \ Ups(Done("update"))')
             /\ result'.upserted = Ups(Done("update"))'
             /\ result'.errors \subseteq {i \in acked' : ops[i].fate = "bad"}
             /\ \A i \in acked' : ops[i].fate = "bad" /\ i \notin result'.errors =>
                   ordered /\ \E j \in result'.errors : j < i
      BY <2>16 DEF ReportIsTrue, Done, Ups
    <2>19. Ups(Done("update"))' = Ups(E("update"))
      BY <2>2, <2>16 DEF Ups
    <2>20. QED
      BY <2>2, <2>13, <2>14, <2>15, <2>17, <2>18, <2>19
  <1>20. QED
    BY <1>10, <1>11, <1>12, <1>13, <1>14, <1>15, <1>16, <1>17, <1>18, <1>19

-----------------------------------------------------------------------------
(* The theorems *)

LEMMA NextIInv == IInv /\ [Next]_vars => IInv'
  <1> SUFFICES ASSUME IInv, [Next]_vars PROVE IInv'
    OBVIOUS
  <1>1. CASE StreamForWrites \/ StreamForWritesFails \/ TooLarge \/ EndCommand
    BY <1>1, StreamForWritesStep, StreamForWritesFailsStep, TooLargeStep, EndCommandStep
  <1>2. CASE ShipIt \/ Retry \/ RetryFails
    BY <1>2, ShipItStep, RetryStep, RetryFailsStep
  <1>3. CASE Receive \/ Timeout
    BY <1>3, ReceiveStep, TimeoutStep
  <1>4. CASE \E e \in {"notMaster", "other"} : Refused(e)
    BY <1>4, RefusedStep
  <1>5. CASE \E q \in net, w \in BOOLEAN : Execute(q, w)
    BY <1>5, ExecuteStep
  <1>6. CASE UNCHANGED vars
    <2>1. UNCHANGED <<bulk, applied, log, txn, acked>> /\ net' \subseteq net /\ result' = result
      BY <1>6 DEF vars, bulk
    <2>2. Live' = Live /\ Frontier' = Frontier /\ (InHand' <=> InHand)
      BY <1>6 DEF vars, Live, Frontier, InHand
    <2>3. TypeInv' /\ PlaceInv' /\ OutcomeInv'
      <3>1. TypeInv'
        BY <1>6, <2>1, Static DEF vars, IInv, TypeInv, FlagInv, bulk
      <3>2. PlaceInv'
        BY <1>6, <2>1, <2>2, Static DEF vars, IInv, PlaceInv, bulk
      <3>3. OutcomeInv'
        BY <1>6, <2>1, Static DEF vars, IInv, OutcomeInv
      <3>4. QED
        BY <3>1, <3>2, <3>3
    <2>4. NetInv' /\ ServerInv'
      <3>1. InHand' /\ (retryable' \/ pc' = "retry") => sent'.txn # 0
        BY <1>6, <2>2 DEF vars, IInv, NetInv
      <3>2. QED
        BY <2>1, <2>2, <3>1, QuietNet, FrontierInt DEF IInv
    <2>5. AckedInv' /\ ReportIsTrue' /\ OrderedCommands'
      BY <2>1, QuietReport
    <2>6. ReplyInv' /\ OrderInv' /\ PrefixInv'
      <3>1. \A q : Logged(q)' = Logged(q)
        BY <2>1 DEF Logged
      <3>2. QED
        BY <1>6, <2>1, <2>2, <3>1, Static DEF vars, IInv, ReplyInv, OrderInv, PrefixInv, bulk, Batch
    <2>7. QED
      BY <2>3, <2>4, <2>5, <2>6 DEF IInv
  <1>7. QED
    BY <1>1, <1>2, <1>3, <1>4, <1>5, <1>6 DEF Next

\* The invariant holds for bulk writes of any length over any network.
THEOREM IInvTheorem == Spec => []IInv
  BY InitIInv, NextIInv, PTL DEF Spec

\* Type correctness.
THEOREM TypeCorrect == Spec => []TypeInv
  <1>1. IInv => TypeInv
    BY DEF IInv
  <1>2. QED
    BY <1>1, IInvTheorem, PTL

\* Retries and late requests never apply a document twice.
THEOREM AtMostOnceTheorem == Spec => []AtMostOnce
  <1>1. IInv => AtMostOnce
    BY DEF IInv, ServerInv, AtMostOnce
  <1>2. QED
    BY <1>1, IInvTheorem, PTL

\* A bulk write reported as a success has been applied in full.
THEOREM SuccessIsCompleteTheorem == Spec => []SuccessIsComplete
  <1>1. IInv => SuccessIsComplete
    BY DEF IInv, OutcomeInv, AckedInv, SuccessIsComplete
  <1>2. QED
    BY <1>1, IInvTheorem, PTL

\* The merged result agrees with the server on every answered batch.
THEOREM ReportIsTrueTheorem == Spec => []ReportIsTrue
  <1>1. IInv => ReportIsTrue
    BY DEF IInv
  <1>2. QED
    BY <1>1, IInvTheorem, PTL

\* An ordered bulk write's commands take effect in order.
THEOREM OrderedCommandsTheorem == Spec => []OrderedCommands
  <1>1. IInv => OrderedCommands
    BY DEF IInv
  <1>2. QED
    BY <1>1, IInvTheorem, PTL

\* Counting off a prefix of the inserts finds the ones before the first that is missing.
LEMMA PrefixCount ==
  ASSUME NEW I \in SUBSET Nat, IsFiniteSet(I), NEW A \in SUBSET I,
         \A i \in A : \A j \in I : j < i => j \in A
  PROVE  {i \in I : Cardinality({j \in I : j < i}) < Cardinality(A)} = A
  <1>1. IsFiniteSet(A) /\ Cardinality(A) \in Nat
    BY FS_Subset, FS_CardinalityType
  <1> SUFFICES ASSUME NEW i \in I PROVE Cardinality({j \in I : j < i}) < Cardinality(A) <=> i \in A
    OBVIOUS
  <1> DEFINE L == {j \in I : j < i}
  <1>2. IsFiniteSet(L) /\ Cardinality(L) \in Nat
    BY FS_Subset, FS_CardinalityType
  <1>3. CASE i \in A
    <2>1. L \in SUBSET A /\ L # A
      <3>1. i \notin L
        OBVIOUS
      <3>2. L \in SUBSET A
        BY <1>3
      <3>3. QED
        BY <1>3, <3>1, <3>2
    <2>2. Cardinality(L) <= Cardinality(A) /\ Cardinality(L) # Cardinality(A)
      BY <1>1, <2>1, FS_Subset
    <2>3. QED
      BY <1>1, <1>2, <1>3, <2>2
  <1>4. CASE i \notin A
    <2>1. A \in SUBSET L
      BY <1>4
    <2>2. Cardinality(A) <= Cardinality(L)
      BY <1>2, <2>1, FS_Subset
    <2>3. QED
      BY <1>1, <1>2, <1>4, <2>2
  <1>5. QED
    BY <1>3, <1>4

\* extractBulkWriteError keeps the ids of the inserted documents and no others.
THEOREM IDsAreInsertedTheorem == Spec => []IDsAreInserted
  <1>1. ASSUME IInv PROVE IDsAreInserted
    <2> DEFINE A == {i \in Inserts \cap acked : applied[i] = 1}
    <2> SUFFICES ASSUME outcome.kind = "bulkError", IF ordered THEN Unsplit ELSE acked = Docs
                 PROVE  FilteredIDs(result) = A
      BY <1>1 DEF IInv, OutcomeInv, IDsAreInserted
    <2>1. Docs \subseteq Nat /\ Inserts \subseteq Docs /\ acked \subseteq Docs
      BY <1>1, DocsFacts DEF IInv, TypeInv, Inserts
    <2>2. IsFiniteSet(Inserts) /\ IsFiniteSet(A)
      <3>1. Len(ops) \in Int /\ Docs = 1..Len(ops)
        BY <1>1, DocsFacts DEF IInv, TypeInv
      <3>2. IsFiniteSet(1..Len(ops))
        BY <3>1, FS_Interval
      <3>3. QED
        BY <2>1, <3>1, <3>2, FS_Subset
    <2>3. A = Done("insert")
      <3>1. \A k \in {"insert", "upsert", "updateMany", "deleteOne"} : TypeOf[k] = "insert" <=> k = "insert"
        BY DEF TypeOf
      <3>2. \A i \in Docs : ops[i].kind \in {"insert", "upsert", "updateMany", "deleteOne"}
        BY <1>1, DocsFacts DEF IInv, Models, TypeOf
      <3>3. QED
        BY <2>1, <3>1, <3>2 DEF Done, Inserts
    <2>4. result.n.insert = Cardinality(A)
      BY <1>1, <2>3, ReportDef DEF IInv
    <2>5. CASE Cardinality(A) = 0
      BY <2>2, <2>4, <2>5, FS_EmptySet DEF FilteredIDs
    <2>6. CASE Cardinality(A) # 0 /\ ordered
      <3>1. \A i \in A : \A j \in Inserts : j < i => j \in A
        <4>1. \A i \in acked : applied[i] = 1 => \A j \in 1..(i - 1) : j \in acked /\ applied[j] = 1
          BY <1>1, <2>6 DEF IInv, PrefixInv
        <4>2. \A i, j \in Docs : j < i => j \in 1..(i - 1)
          BY <1>1, DocsFacts DEF IInv, TypeInv
        <4>3. QED
          BY <2>1, <4>1, <4>2
      <3>2. {i \in Inserts : Cardinality({j \in Inserts : j < i}) < Cardinality(A)} = A
        BY <2>1, <2>2, <3>1, PrefixCount
      <3>3. QED
        BY <2>4, <2>6, <3>2 DEF FilteredIDs
    <2>7. CASE Cardinality(A) # 0 /\ ~ordered
      <3>1. \A i \in Docs : applied[i] = 1 \/ i \in result.errors
        BY <1>1, <2>7 DEF IInv, AckedInv
      <3>2. \A i \in result.errors : i \in Docs /\ ops[i].fate = "bad"
        BY <1>1, <2>1, ReportDef DEF IInv
      <3>3. \A i \in Docs : applied[i] = 1 => i \notin result.errors
        BY <1>1, <3>2 DEF IInv, ServerInv
      <3>4. Inserts \ result.errors = A
        BY <2>1, <2>7, <3>1, <3>3
      <3>5. QED
        BY <2>4, <2>7, <3>4 DEF FilteredIDs
    <2>8. QED
      BY <2>5, <2>6, <2>7
  <1>2. QED
    BY <1>1, IInvTheorem, PTL

=============================================================================
