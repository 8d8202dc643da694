--------------------------- MODULE TopologyProofs ---------------------------
(***************************************************************************)
(* Safety of TopologyDescription for any replica set, history of elections *)
(* and reconfigurations, seed list and order of replies: at most one       *)
(* primary, never a stale one again, only the members it reported, and one *)
(* set.  The invariant is stated about a description t and the election b  *)
(* of the last primary shown, so that each operator on descriptions gets a *)
(* lemma.                                                                  *)
(*                                                                         *)
(* Safety of TopologyMonitor for any hosts, numbers of addresses and       *)
(* threads: one outcome of a node per scan, no request for a scan and no   *)
(* usable server is missed.                                                *)
(***************************************************************************)
EXTENDS TopologyDescription, TopologyMonitor, FiniteSetTheorems, TLAPS

Fields == {"type", "setName", "maxSetVersion", "maxElectionId", "servers",
           "clusterTime", "timeout", "compatible"}
ServerFields == {"type", "setName", "setVersion", "electionId", "timeout"}
SetTypes == {"RSNoPrimary", "RSWithPrimary"}

IsServer(s) ==
  /\ DOMAIN s = ServerFields
  /\ s.setVersion \in Int /\ s.electionId \in Int

\* Types, of what the proofs look at.
Typed(t) ==
  /\ DOMAIN t = Fields
  /\ t.type \in {"Unknown", "Single", "Sharded"} \cup SetTypes
  /\ t.maxSetVersion \in Int /\ t.maxElectionId \in Int
  /\ Members(t) \subseteq Addresses
  /\ \A a \in Members(t) : IsServer(t.servers[a])

\* Which servers a topology of each type can have.
Kinds(t) ==
  /\ t.type \in {"Unknown", "Sharded", "RSNoPrimary"} =>
       \A a \in Members(t) : t.servers[a].type # "RSPrimary"
  /\ t.type # "Single" => \A a \in Members(t) : t.servers[a].type # "Standalone"
  /\ t.type = "Single" => \E a \in Addresses : Members(t) = {a}
  /\ \A p, q \in Primaries(t) : p = q

\* No member is described before the topology is a set; the set's name is known
\* from its first primary on, and its members have no other.
Names(t) ==
  /\ t.type = "Unknown" => \A a \in Members(t) : t.servers[a].setName = None
  /\ t.type = "RSWithPrimary" => t.setName # None
  /\ t.type \in SetTypes => \A a \in Members(t) : t.servers[a].setName \in {None, t.setName}

\* The order that later_election puts pairs <<setVersion, electionId>> in.
Older(p, q) == p[1] < q[1] \/ (p[1] = q[1] /\ p[2] < q[2])

MaxElection(t) == <<t.maxSetVersion, t.maxElectionId>>
Blank == <<NoSetVersion, NoElection>>

IsElection(e) == e = <<e[1], e[2]>> /\ e[1] \in Int /\ e[2] \in Int

\* The remembered election is that of a primary of "rs" and at least as late as
\* the last election shown; a primary that is shown is not of an earlier one.
Elections(t, b) ==
  /\ IsElection(b)
  /\ ~Older(MaxElection(t), b)
  /\ t.setName # "rs" => MaxElection(t) = Blank
  /\ t.type = "RSWithPrimary" => \A p \in Primaries(t) :
       ~Older(ElectionOf(t, p), b) /\ ~Older(MaxElection(t), ElectionOf(t, p))

\* While a primary is shown, so are only the members it reported.
OnlyMembers(t) ==
  t.type = "RSWithPrimary" =>
    \A p \in Primaries(t) :
      t.servers[p].setVersion # NoSetVersion => Members(t) \subseteq Config[t.servers[p].setVersion]

Good(t, b) == Typed(t) /\ Kinds(t) /\ Names(t) /\ Elections(t, b) /\ OnlyMembers(t)

\* The inductive invariant.
IInv == Good(td, shown)

-----------------------------------------------------------------------------
(* Operators on descriptions, field by field. *)

\* u differs from t in its servers only.
SameSet(t, u) ==
  /\ DOMAIN u = Fields /\ u.type = t.type /\ u.setName = t.setName
  /\ u.maxSetVersion = t.maxSetVersion /\ u.maxElectionId = t.maxElectionId

LEMMA RemoveFacts ==
  ASSUME NEW t, DOMAIN t = Fields, NEW A
  PROVE  /\ SameSet(t, RemoveServers(t, A))
         /\ Members(RemoveServers(t, A)) = Members(t) \ A
         /\ \A b \in Members(t) \ A : RemoveServers(t, A).servers[b] = t.servers[b]
  BY DEF RemoveServers, Members, Fields, SameSet

LEMMA AddFacts ==
  ASSUME NEW t, DOMAIN t = Fields, NEW A
  PROVE  /\ SameSet(t, AddServers(t, A))
         /\ Members(AddServers(t, A)) = Members(t) \cup A
         /\ \A b \in Members(t) : AddServers(t, A).servers[b] = t.servers[b]
         /\ \A b \in A \ Members(t) : AddServers(t, A).servers[b] = UnknownServer
  BY DEF AddServers, Members, Fields, SameSet

LEMMA RsTypeFacts ==
  ASSUME NEW t, DOMAIN t = Fields
  PROVE  /\ DOMAIN UpdateRsType(t) = Fields
         /\ UpdateRsType(t).type = IF HasPrimary(t) THEN "RSWithPrimary" ELSE "RSNoPrimary"
         /\ UpdateRsType(t).setName = t.setName
         /\ UpdateRsType(t).maxSetVersion = t.maxSetVersion
         /\ UpdateRsType(t).maxElectionId = t.maxElectionId
         /\ UpdateRsType(t).servers = t.servers
  BY DEF UpdateRsType, Fields

LEMMA UnknownFacts ==
  /\ IsServer(UnknownServer) /\ UnknownServer.type = "Unknown" /\ UnknownServer.setName = None
  BY DEF UnknownServer, IsServer, ServerFields, NoSetVersion, NoElection

\* The label only turns an Unknown server into a PossiblePrimary.
LEMMA LabelFacts ==
  ASSUME NEW t, DOMAIN t = Fields, \A b \in Members(t) : IsServer(t.servers[b]), NEW p
  PROVE  /\ SameSet(t, LabelPossiblePrimary(t, p))
         /\ Members(LabelPossiblePrimary(t, p)) = Members(t)
         /\ \A b \in Members(t) : LET s == LabelPossiblePrimary(t, p).servers[b] IN
              /\ IsServer(s) /\ s.setName = t.servers[b].setName
              /\ s.setVersion = t.servers[b].setVersion /\ s.electionId = t.servers[b].electionId
              /\ s.type = t.servers[b].type \/ (t.servers[b].type = "Unknown" /\ s.type = "PossiblePrimary")
  BY DEF LabelPossiblePrimary, Members, Fields, SameSet, IsServer, ServerFields

LEMMA MaxPair ==
  ASSUME NEW x \in Int, NEW y \in Int
  PROVE  Max({x, y}) = IF x >= y THEN x ELSE y
  BY DEF Max

-----------------------------------------------------------------------------
(* Replies *)

\* What the transitions rely on in a reply.
ReplyOK(r) ==
  /\ r.setVersion \in Int /\ r.electionId \in Int /\ r.hosts \subseteq Addresses
  /\ TypeOf(r) \in {"Unknown", "RSGhost", "Standalone", "Mongos", "RSPrimary"} \cup MemberTypes
  /\ TypeOf(r) \in {"Unknown", "RSGhost", "Standalone", "Mongos"} => r.setName = None
  /\ TypeOf(r) \in {"RSPrimary"} \cup MemberTypes => r.setName # None
  /\ TypeOf(r) = "RSPrimary" =>
       \/ /\ r.setName = "rs" /\ r.setVersion \in Nat \ {0} /\ r.electionId \in Nat \ {0}
          /\ r.hosts = Config[r.setVersion]
       \/ r.setName # "rs" /\ r.setVersion = NoSetVersion /\ r.electionId = NoElection

\* Description u is t in which server a has been described by r.
Described(t, u, a, r) ==
  /\ SameSet(t, u) /\ a \in Members(t) /\ Members(u) = Members(t)
  /\ u.servers[a] = Describe(r)
  /\ \A b \in Members(t) \ {a} : u.servers[b] = t.servers[b]

LEMMA DescribeFacts ==
  ASSUME NEW r, ReplyOK(r)
  PROVE  /\ IsServer(Describe(r)) /\ Describe(r).type = TypeOf(r) /\ Describe(r).setName = r.setName
         /\ Describe(r).setVersion = r.setVersion /\ Describe(r).electionId = r.electionId
  BY DEF Describe, IsServer, ServerFields, ReplyOK

-----------------------------------------------------------------------------
(* Steps that all transitions are made of. *)

\* u has the servers of t that are not removed, and is otherwise like t.
LEMMA FewerGood ==
  ASSUME NEW t, NEW b, Good(t, b), t.type # "Single", NEW u, SameSet(t, u),
         Members(u) \subseteq Members(t), \A x \in Members(u) : u.servers[x] = t.servers[x]
  PROVE  Good(u, b)
  <1> USE DEF Good, SameSet
  <1>1. Typed(u)
    BY DEF Typed
  <1>2. Kinds(u)
    BY DEF Kinds, Primaries
  <1>3. Names(u)
    BY DEF Names
  <1>4. Elections(u, b)
    BY DEF Elections, Primaries, ElectionOf, MaxElection
  <1>5. OnlyMembers(u)
    BY DEF OnlyMembers, Primaries
  <1>6. QED
    BY <1>1, <1>2, <1>3, <1>4, <1>5

\* A described server that is removed again leaves no trace.
LEMMA RemovedGood ==
  ASSUME NEW t, NEW b, Good(t, b), t.type # "Single", NEW u, NEW a, NEW r, Described(t, u, a, r)
  PROVE  Good(RemoveServers(u, {a}), b)
  <1>1. DOMAIN u = Fields
    BY DEF Described, SameSet
  <1>2. QED
    BY <1>1, FewerGood, RemoveFacts DEF Described, SameSet

\* The topology's type follows from the servers.
LEMMA RetypedGood ==
  ASSUME NEW t, NEW b, Good(t, b), t.type \in {"Unknown"} \cup SetTypes
  PROVE  Good(UpdateRsType(t), b)
  <1> DEFINE u == UpdateRsType(t)
  <1>1. /\ DOMAIN u = Fields /\ u.setName = t.setName /\ u.servers = t.servers
        /\ u.maxSetVersion = t.maxSetVersion /\ u.maxElectionId = t.maxElectionId
        /\ u.type \in SetTypes /\ (u.type = "RSWithPrimary" <=> HasPrimary(t))
    BY RsTypeFacts DEF Good, Typed, SetTypes
  <1>2. HasPrimary(t) <=> Primaries(t) # {}
    BY DEF HasPrimary, Primaries, Good, Kinds, SetTypes
  <1>3. Members(u) = Members(t) /\ Primaries(u) = Primaries(t)
    BY <1>1 DEF Members, Primaries
  <1>4. u.type = "RSWithPrimary" => t.type = "RSWithPrimary"
    BY <1>1, <1>2 DEF Good, Kinds, Primaries, SetTypes
  <1> HIDE DEF u
  <1>5. Typed(u)
    BY <1>1, <1>3 DEF Good, Typed
  <1>6. Kinds(u)
    BY <1>1, <1>2, <1>3 DEF Good, Kinds, SetTypes, Primaries
  <1>7. Names(u)
    BY <1>1, <1>3, <1>4 DEF Good, Names, SetTypes
  <1>8. Elections(u, b)
    BY <1>1, <1>3, <1>4 DEF Good, Elections, MaxElection, ElectionOf
  <1>9. OnlyMembers(u)
    BY <1>1, <1>3, <1>4 DEF Good, OnlyMembers
  <1>10. QED
    BY <1>5, <1>6, <1>7, <1>8, <1>9 DEF Good, u

\* A described server that is no primary and belongs here may stay.
LEMMA PlainGood ==
  ASSUME NEW t, NEW b, Good(t, b), NEW u, NEW a, NEW r, Described(t, u, a, r), ReplyOK(r),
         TypeOf(r) \notin {"RSPrimary", "Standalone"}, t.type # "Single",
         t.type = "Unknown" => r.setName = None,
         t.type \in SetTypes => r.setName \in {None, t.setName}
  PROVE  Good(u, b)
  <1> USE DescribeFacts DEF Good, Described, SameSet
  <1>1. Typed(u)
    BY DEF Typed
  <1>2. \A x \in Primaries(u) : x \in Primaries(t) /\ x # a
    BY DEF Primaries
  <1>3. Kinds(u)
    BY <1>2 DEF Kinds, Primaries
  <1>4. Names(u)
    BY DEF Names
  <1>5. Elections(u, b)
    BY <1>2 DEF Elections, ElectionOf, MaxElection, Primaries
  <1>6. OnlyMembers(u)
    BY <1>2 DEF OnlyMembers, Primaries
  <1>7. QED
    BY <1>1, <1>3, <1>4, <1>5, <1>6

\* A direct connection keeps its one server, whatever it is.
LEMMA SingleGood ==
  ASSUME NEW t, NEW b, Good(t, b), NEW u, NEW a, NEW r, Described(t, u, a, r), ReplyOK(r),
         t.type = "Single"
  PROVE  Good(u, b)
  <1> USE DescribeFacts DEF Good, Described, SameSet
  <1>1. Typed(u)
    BY DEF Typed
  <1>2. Kinds(u)
    BY DEF Kinds, Primaries
  <1>3. Names(u) /\ OnlyMembers(u)
    BY DEF Names, OnlyMembers, SetTypes
  <1>4. Elections(u, b)
    BY DEF Elections, MaxElection
  <1>5. QED
    BY <1>1, <1>2, <1>3, <1>4

-----------------------------------------------------------------------------
(* The transitions *)

LEMMA StandaloneGood ==
  ASSUME NEW t, NEW b, Good(t, b), NEW u, NEW a, NEW r, Described(t, u, a, r), ReplyOK(r),
         t.type = "Unknown"
  PROVE  Good(UpdateUnknownWithStandalone(u, a), b)
  <1>1. CASE Cardinality(Members(u)) > 1
    BY <1>1, RemovedGood DEF UpdateUnknownWithStandalone
  <1>2. CASE ~(Cardinality(Members(u)) > 1)
    <2> DEFINE v == [u EXCEPT !.type = "Single"]
    <2>1. /\ DOMAIN v = Fields /\ v.type = "Single" /\ v.setName = t.setName /\ v.servers = u.servers
          /\ v.maxSetVersion = t.maxSetVersion /\ v.maxElectionId = t.maxElectionId
      BY DEF Described, SameSet, Fields
    <2>2. \E c \in Addresses : Members(u) = {c}
      <3>1. IsFiniteSet(Members(u)) /\ a \in Members(u) /\ a \in Addresses
        BY FS_Subset, DeploymentAssumption DEF Described, Good, Typed
      <3>2. Cardinality(Members(u)) \in Nat /\ Cardinality(Members(u)) # 0
        BY <3>1, FS_CardinalityType, FS_EmptySet
      <3>3. Cardinality(Members(u)) = 1
        BY <1>2, <3>2
      <3>4. PICK c : Members(u) = {c}
        BY <3>1, <3>3, FS_Singleton
      <3>5. QED
        BY <3>1, <3>4
    <2>3. Members(v) = Members(u) /\ v = UpdateUnknownWithStandalone(u, a)
      BY <1>2, <2>1 DEF Members, UpdateUnknownWithStandalone
    <2> HIDE DEF v
    <2>4. Typed(v)
      BY <2>1, <2>3, DescribeFacts DEF Typed, Good, Described, SameSet
    <2>5. Kinds(v)
      BY <2>1, <2>2, <2>3 DEF Kinds, Primaries
    <2>6. Names(v) /\ OnlyMembers(v)
      BY <2>1 DEF Names, OnlyMembers, SetTypes
    <2>7. Elections(v, b)
      BY <2>1 DEF Good, Elections, MaxElection
    <2>8. QED
      BY <2>3, <2>4, <2>5, <2>6, <2>7 DEF Good
  <1>3. QED
    BY <1>1, <1>2

LEMMA ShardedGood ==
  ASSUME NEW t, NEW b, Good(t, b), NEW u, NEW a, NEW r, Described(t, u, a, r), ReplyOK(r),
         t.type = "Unknown", TypeOf(r) = "Mongos"
  PROVE  Good([u EXCEPT !.type = "Sharded"], b)
  <1> DEFINE v == [u EXCEPT !.type = "Sharded"]
  <1>1. Good(u, b) /\ u.type = "Unknown"
    BY PlainGood DEF ReplyOK, SetTypes, Described, SameSet
  <1>2. /\ DOMAIN v = Fields /\ v.type = "Sharded" /\ v.setName = u.setName /\ v.servers = u.servers
        /\ v.maxSetVersion = u.maxSetVersion /\ v.maxElectionId = u.maxElectionId
    BY DEF Described, SameSet, Fields
  <1>3. Members(v) = Members(u) /\ Primaries(v) = Primaries(u)
    BY <1>2 DEF Members, Primaries
  <1> HIDE DEF v
  <1>4. Typed(v) /\ Kinds(v)
    BY <1>1, <1>2, <1>3 DEF Good, Typed, Kinds
  <1>5. Names(v) /\ OnlyMembers(v) /\ Elections(v, b)
    BY <1>1, <1>2, <1>3 DEF Good, Names, OnlyMembers, Elections, MaxElection, SetTypes
  <1>6. QED
    BY <1>4, <1>5 DEF Good, v

\* A member names the set, and its hosts are added.
LEMMA WithoutPrimaryGood ==
  ASSUME NEW t, NEW b, Good(t, b), NEW u, NEW a, NEW r, Described(t, u, a, r), ReplyOK(r),
         t.type \in {"Unknown", "RSNoPrimary"}, TypeOf(r) \in MemberTypes,
         NEW w, DOMAIN w = Fields, w.type = "RSNoPrimary", w.setName = u.setName,
         w.servers = u.servers, w.maxSetVersion = u.maxSetVersion, w.maxElectionId = u.maxElectionId
  PROVE  Good(UpdateRsWithoutPrimary(w, a, r), b)
  <1>1. /\ DOMAIN w = Fields /\ w.type = "RSNoPrimary" /\ w.setName = t.setName /\ w.servers = u.servers
        /\ w.maxSetVersion = t.maxSetVersion /\ w.maxElectionId = t.maxElectionId
        /\ Members(w) = Members(t)
    BY DEF Described, SameSet, Fields, Members
  <1>2. CASE t.setName \notin {None, r.setName}
    <2> DEFINE v == RemoveServers(w, {a})
    <2>1. /\ SameSet(w, v) /\ Members(v) = Members(t) \ {a}
          /\ \A x \in Members(v) : v.servers[x] = t.servers[x]
      BY <1>1, RemoveFacts DEF Described
    <2> HIDE DEF v
    <2>2. Primaries(v) = {} /\ Typed(v) /\ Kinds(v)
      BY <1>1, <2>1 DEF Good, Typed, Kinds, Primaries, SameSet, SetTypes
    <2>3. Names(v)
      BY <1>1, <2>1 DEF Good, Names, SameSet, SetTypes
    <2>4. Elections(v, b) /\ OnlyMembers(v)
      BY <1>1, <2>1, <2>2 DEF Good, Elections, MaxElection, OnlyMembers, SameSet
    <2>5. QED
      BY <1>1, <1>2, <2>2, <2>3, <2>4 DEF Good, UpdateRsWithoutPrimary, v
  <1>3. CASE t.setName \in {None, r.setName}
    <2> DEFINE n == [w EXCEPT !.setName = r.setName]
               g == AddServers(n, r.hosts)
               l == LabelPossiblePrimary(g, r.primary)
    <2>1. /\ DOMAIN n = Fields /\ n.type = "RSNoPrimary" /\ n.setName = r.setName
          /\ n.servers = u.servers /\ Members(n) = Members(t)
          /\ n.maxSetVersion = t.maxSetVersion /\ n.maxElectionId = t.maxElectionId
      BY <1>1 DEF Fields, Members
    <2> HIDE DEF n
    <2>2. \A x \in Members(t) : /\ IsServer(n.servers[x])
                                /\ n.servers[x].type \notin {"RSPrimary", "Standalone"}
                                /\ n.servers[x].setName \in {None, r.setName}
      BY <1>3, <2>1, DescribeFacts DEF Good, Typed, Kinds, Names, Described, MemberTypes, SetTypes
    <2>3. /\ SameSet(n, g) /\ DOMAIN g = Fields /\ Members(g) = Members(t) \cup r.hosts
          /\ \A x \in Members(g) : /\ IsServer(g.servers[x])
                                   /\ g.servers[x].type \notin {"RSPrimary", "Standalone"}
                                   /\ g.servers[x].setName \in {None, r.setName}
      BY <2>1, <2>2, AddFacts, UnknownFacts DEF SameSet
    <2> HIDE DEF g
    <2>4. /\ SameSet(g, l) /\ Members(l) = Members(g)
          /\ \A x \in Members(l) : /\ IsServer(l.servers[x])
                                   /\ l.servers[x].type \notin {"RSPrimary", "Standalone"}
                                   /\ l.servers[x].setName \in {None, r.setName}
      BY <2>3, LabelFacts
    <2> HIDE DEF l
    <2>5. Typed(l)
      BY <2>1, <2>3, <2>4 DEF Typed, SameSet, Good, ReplyOK, SetTypes
    <2>6. Primaries(l) = {} /\ Kinds(l)
      BY <2>1, <2>3, <2>4 DEF Kinds, Primaries, SameSet
    <2>7. Names(l)
      BY <2>1, <2>3, <2>4 DEF Names, SameSet, ReplyOK
    <2>8. Elections(l, b)
      BY <1>3, <2>1, <2>3, <2>4, DeploymentAssumption DEF Good, Elections, MaxElection, SameSet
    <2>9. OnlyMembers(l)
      BY <2>6 DEF OnlyMembers
    <2>10. Good(l, b) /\ l.type = "RSNoPrimary"
      BY <2>1, <2>3, <2>4, <2>5, <2>6, <2>7, <2>8, <2>9 DEF Good, SameSet
    <2>11. Good(RemoveServers(l, {a}), b)
      BY <2>10, FewerGood, RemoveFacts DEF Good, Typed
    <2>12. UpdateRsWithoutPrimary(w, a, r) = IF MatchesMe(a, r) THEN l ELSE RemoveServers(l, {a})
      BY <1>1, <1>3 DEF UpdateRsWithoutPrimary, l, g, n
    <2>13. QED
      BY <2>10, <2>11, <2>12
  <1>4. QED
    BY <1>2, <1>3

LEMMA WithPrimaryGood ==
  ASSUME NEW t, NEW b, Good(t, b), NEW u, NEW a, NEW r, Described(t, u, a, r), ReplyOK(r),
         t.type = "RSWithPrimary", TypeOf(r) \in MemberTypes
  PROVE  Good(UpdateRsWithPrimaryFromMember(u, a, r), b)
  <1>1. u.type = "RSWithPrimary" /\ u.setName = t.setName /\ DOMAIN u = Fields
    BY DEF Described, SameSet
  <1>2. Good(RemoveServers(u, {a}), b) /\ RemoveServers(u, {a}).type = "RSWithPrimary"
    BY <1>1, RemovedGood, RemoveFacts DEF SameSet
  <1>3. Good(UpdateRsType(RemoveServers(u, {a})), b)
    BY <1>2, RetypedGood DEF SetTypes
  <1>4. CASE u.setName = r.setName
    <2>1. Good(u, b)
      BY <1>1, <1>4, PlainGood DEF MemberTypes, SetTypes
    <2>2. ASSUME ~HasPrimary(u) PROVE Good(LabelPossiblePrimary([u EXCEPT !.type = "RSNoPrimary"], r.primary), b)
      <3> DEFINE n == [u EXCEPT !.type = "RSNoPrimary"]
                 l == LabelPossiblePrimary(n, r.primary)
      <3>1. Good(n, b) /\ n.type = "RSNoPrimary"
        <4>1. n = UpdateRsType(u)
          BY <2>2 DEF UpdateRsType
        <4>2. QED
          BY <1>1, <2>1, <4>1, RetypedGood DEF SetTypes, Fields
      <3> HIDE DEF n
      <3>2. /\ SameSet(n, l) /\ Members(l) = Members(n)
            /\ \A x \in Members(l) : /\ IsServer(l.servers[x])
                                     /\ l.servers[x].type \notin {"RSPrimary", "Standalone"}
                                     /\ l.servers[x].setName = n.servers[x].setName
        BY <3>1, LabelFacts DEF Good, Typed, Kinds
      <3> HIDE DEF l
      <3>3. Primaries(l) = {} /\ Typed(l) /\ Kinds(l)
        BY <3>1, <3>2 DEF Good, Typed, Kinds, SameSet, Primaries
      <3>4. Names(l) /\ Elections(l, b) /\ OnlyMembers(l)
        BY <3>1, <3>2, <3>3 DEF Good, Names, Elections, OnlyMembers, MaxElection, SameSet
      <3>5. QED
        BY <3>3, <3>4 DEF Good, l, n
    <2>3. QED
      BY <1>2, <1>4, <2>1, <2>2 DEF UpdateRsWithPrimaryFromMember
  <1>5. CASE u.setName # r.setName
    BY <1>3, <1>5 DEF UpdateRsWithPrimaryFromMember
  <1>6. QED
    BY <1>4, <1>5

\* What AcceptPrimary makes of each field.
LEMMA AcceptFacts ==
  ASSUME NEW t, DOMAIN t = Fields, t.maxSetVersion \in Int,
         \A x \in Members(t) : IsServer(t.servers[x]),
         NEW a, NEW r, ReplyOK(r), NEW v, v = AcceptPrimary(t, a, r)
  PROVE  /\ DOMAIN v = Fields /\ v.setName = t.setName /\ Members(v) = r.hosts
         /\ v.type = IF HasPrimary(v) THEN "RSWithPrimary" ELSE "RSNoPrimary"
         /\ v.maxSetVersion = IF t.maxSetVersion >= r.setVersion THEN t.maxSetVersion ELSE r.setVersion
         /\ v.maxElectionId = IF r.setVersion # NoSetVersion /\ r.electionId # NoElection
                              THEN r.electionId ELSE t.maxElectionId
         /\ \A x \in r.hosts :
              /\ IsServer(v.servers[x])
              /\ x \notin Members(t) => v.servers[x] = UnknownServer
              /\ x \in Members(t) => v.servers[x].setName = t.servers[x].setName
              /\ x \in Members(t) /\ (x = a \/ t.servers[x].type # "RSPrimary") => v.servers[x] = t.servers[x]
              /\ x \in Members(t) /\ x # a /\ t.servers[x].type = "RSPrimary" => v.servers[x].type = "Unknown"
  <1> DEFINE s == [x \in r.hosts |->
                      IF x \notin DOMAIN t.servers THEN UnknownServer
                      ELSE IF x # a /\ t.servers[x].type = "RSPrimary"
                      THEN [t.servers[x] EXCEPT !.type = "Unknown", !.setVersion = NoSetVersion,
                                        !.electionId = NoElection]
                      ELSE t.servers[x]]
             i == [t EXCEPT
                     !.maxElectionId = IF r.setVersion # NoSetVersion /\ r.electionId # NoElection
                                       THEN r.electionId ELSE t.maxElectionId,
                     !.maxSetVersion = Max({t.maxSetVersion, r.setVersion}),
                     !.servers = s]
  <1>1. v = UpdateRsType(i)
    BY DEF AcceptPrimary
  <1>2. /\ DOMAIN i = Fields /\ i.setName = t.setName /\ i.servers = s
        /\ i.maxSetVersion = Max({t.maxSetVersion, r.setVersion})
        /\ i.maxElectionId = IF r.setVersion # NoSetVersion /\ r.electionId # NoElection
                             THEN r.electionId ELSE t.maxElectionId
    BY DEF Fields
  <1>3. DOMAIN s = r.hosts
    OBVIOUS
  <1>4. \A x \in r.hosts :
              /\ IsServer(s[x])
              /\ x \notin Members(t) => s[x] = UnknownServer
              /\ x \in Members(t) => s[x].setName = t.servers[x].setName
              /\ x \in Members(t) /\ (x = a \/ t.servers[x].type # "RSPrimary") => s[x] = t.servers[x]
              /\ x \in Members(t) /\ x # a /\ t.servers[x].type = "RSPrimary" => s[x].type = "Unknown"
    <2>1. SUFFICES ASSUME NEW x \in r.hosts
                   PROVE  /\ IsServer(s[x])
                          /\ x \notin Members(t) => s[x] = UnknownServer
                          /\ x \in Members(t) => s[x].setName = t.servers[x].setName
                          /\ x \in Members(t) /\ (x = a \/ t.servers[x].type # "RSPrimary") =>
                               s[x] = t.servers[x]
                          /\ x \in Members(t) /\ x # a /\ t.servers[x].type = "RSPrimary" =>
                               s[x].type = "Unknown"
      OBVIOUS
    <2>2. CASE x \notin Members(t)
      BY <2>1, <2>2, UnknownFacts DEF Members
    <2>3. CASE x \in Members(t) /\ (x = a \/ t.servers[x].type # "RSPrimary")
      BY <2>1, <2>3 DEF Members
    <2>4. CASE x \in Members(t) /\ x # a /\ t.servers[x].type = "RSPrimary"
      <3> DEFINE o == t.servers[x]
      <3>1. s[x] = [o EXCEPT !.type = "Unknown", !.setVersion = NoSetVersion, !.electionId = NoElection]
        BY <2>1, <2>4 DEF Members
      <3>2. IsServer(o)
        BY <2>4
      <3> HIDE DEF o, s
      <3>3. IsServer(s[x]) /\ s[x].setName = o.setName /\ s[x].type = "Unknown"
        <4>1. DOMAIN o = ServerFields /\ NoSetVersion \in Int /\ NoElection \in Int
          BY <3>2 DEF IsServer, NoSetVersion, NoElection
        <4>2. DOMAIN s[x] = ServerFields
          BY <3>1, <4>1
        <4>3. s[x].setName = o.setName /\ s[x].type = "Unknown"
          BY <3>1, <4>1 DEF ServerFields
        <4>4. s[x].setVersion = NoSetVersion /\ s[x].electionId = NoElection
          BY <3>1, <4>1 DEF ServerFields
        <4>5. QED
          BY <4>1, <4>2, <4>3, <4>4 DEF IsServer
      <3>4. QED
        BY <2>4, <3>3 DEF o
    <2>5. QED
      BY <2>2, <2>3, <2>4
  <1> HIDE DEF i, s
  <1>5. /\ DOMAIN v = Fields /\ v.setName = t.setName /\ v.servers = s
        /\ v.maxSetVersion = i.maxSetVersion /\ v.maxElectionId = i.maxElectionId
        /\ v.type = IF HasPrimary(i) THEN "RSWithPrimary" ELSE "RSNoPrimary"
    BY <1>1, <1>2, RsTypeFacts
  <1>6. HasPrimary(i) <=> HasPrimary(v)
    BY <1>2, <1>5 DEF HasPrimary, Members
  <1>7. v.maxSetVersion = IF t.maxSetVersion >= r.setVersion THEN t.maxSetVersion ELSE r.setVersion
    BY <1>2, <1>5, MaxPair DEF ReplyOK
  <1>8. QED
    BY <1>2, <1>3, <1>4, <1>5, <1>6, <1>7 DEF Members

LEMMA AcceptGood ==
  ASSUME NEW t, NEW b, Good(t, b), NEW u, NEW a, NEW r, Described(t, u, a, r), ReplyOK(r),
         t.type \in {"Unknown"} \cup SetTypes, TypeOf(r) = "RSPrimary",
         t.setName \in {None, r.setName},
         ~(r.setVersion # NoSetVersion /\ r.electionId # NoElection /\ LaterElection(u, r))
  PROVE  Good(AcceptPrimary([u EXCEPT !.setName = r.setName], a, r), b)
  <1> DEFINE n == [u EXCEPT !.setName = r.setName]
             v == AcceptPrimary(n, a, r)
  <1>1. /\ DOMAIN n = Fields /\ n.setName = r.setName /\ n.servers = u.servers
        /\ n.maxSetVersion = t.maxSetVersion /\ n.maxElectionId = t.maxElectionId
        /\ Members(n) = Members(t) /\ n.servers[a] = Describe(r) /\ a \in Members(n)
        /\ \A x \in Members(t) \ {a} : n.servers[x] = t.servers[x]
    BY DEF Described, SameSet, Fields, Members
  <1>2. \A x \in Members(n) : IsServer(n.servers[x])
    BY <1>1, DescribeFacts DEF Good, Typed
  <1> HIDE DEF n
  <1>3. t.maxSetVersion \in Int /\ t.maxElectionId \in Int
    BY DEF Good, Typed
  <1>4. /\ DOMAIN v = Fields /\ v.setName = r.setName /\ Members(v) = r.hosts
        /\ v.type = IF HasPrimary(v) THEN "RSWithPrimary" ELSE "RSNoPrimary"
        /\ v.maxSetVersion = IF t.maxSetVersion >= r.setVersion THEN t.maxSetVersion ELSE r.setVersion
        /\ v.maxElectionId = IF r.setVersion # NoSetVersion /\ r.electionId # NoElection
                             THEN r.electionId ELSE t.maxElectionId
        /\ \A x \in r.hosts : IsServer(v.servers[x])
    BY <1>1, <1>2, <1>3, AcceptFacts
  <1>5. \A x \in r.hosts \ {a} :
           v.servers[x].type \notin {"RSPrimary", "Standalone"} /\ v.servers[x].setName \in {None, r.setName}
    <2>1. SUFFICES ASSUME NEW x \in r.hosts, x # a
                   PROVE  v.servers[x].type \notin {"RSPrimary", "Standalone"}
                          /\ v.servers[x].setName \in {None, r.setName}
      OBVIOUS
    <2>2. CASE x \notin Members(n)
      BY <1>1, <1>2, <1>3, <2>1, <2>2, AcceptFacts, UnknownFacts
    <2>3. CASE x \in Members(n)
      <3>1. n.servers[x] = t.servers[x] /\ t.servers[x].type # "Standalone"
            /\ t.servers[x].setName \in {None, r.setName}
        BY <1>1, <2>1, <2>3 DEF Good, Kinds, Names, SetTypes
      <3>2. QED
        BY <1>1, <1>2, <1>3, <2>1, <2>3, <3>1, AcceptFacts
    <2>4. QED
      BY <2>2, <2>3
  <1>6. a \in r.hosts => v.servers[a] = Describe(r)
    BY <1>1, <1>2, <1>3, AcceptFacts
  <1> HIDE DEF v
  <1>7. Typed(v)
    BY <1>3, <1>4 DEF Typed, ReplyOK, SetTypes
  <1>8. Primaries(v) \subseteq {a} /\ (v.type = "RSWithPrimary" <=> Primaries(v) # {})
        /\ \A x \in r.hosts : v.servers[x].type # "Standalone"
    BY <1>4, <1>5, <1>6, DescribeFacts DEF Primaries, HasPrimary
  <1>9. Kinds(v)
    BY <1>4, <1>8 DEF Kinds, Primaries
  <1>10. Names(v)
    BY <1>4, <1>5, <1>6, DescribeFacts DEF Names, ReplyOK, SetTypes
  <1>11. \A p \in Primaries(v) : p = a /\ ElectionOf(v, p) = <<r.setVersion, r.electionId>>
                                 /\ v.servers[p].setVersion = r.setVersion
    BY <1>4, <1>6, <1>8, DescribeFacts DEF Primaries, ElectionOf
  <1>12. Elections(v, b)
    <2>1. IsElection(b) /\ ~Older(MaxElection(t), b) /\ (t.setName # "rs" => MaxElection(t) = Blank)
      BY DEF Good, Elections
    <2>2. CASE r.setName = "rs" /\ r.setVersion \in Nat \ {0} /\ r.electionId \in Nat \ {0}
      <3>1. MaxElection(v) = <<r.setVersion, r.electionId>>
            /\ ~Older(<<r.setVersion, r.electionId>>, MaxElection(t))
        BY <1>3, <1>4, <2>2 DEF LaterElection, MaxElection, Older, NoSetVersion, NoElection, Described, SameSet
      <3>2. ~Older(MaxElection(v), b)
        BY <1>3, <2>1, <2>2, <3>1 DEF Older, MaxElection, IsElection
      <3>3. ~Older(MaxElection(v), MaxElection(v))
        BY <2>2, <3>1 DEF Older
      <3>4. QED
        BY <1>4, <1>11, <2>1, <2>2, <3>1, <3>2, <3>3 DEF Elections
    <2>3. CASE r.setName # "rs" /\ r.setVersion = NoSetVersion /\ r.electionId = NoElection
      <3>1. MaxElection(t) = Blank
        BY <2>1, <2>3, DeploymentAssumption
      <3>2. MaxElection(v) = Blank
        BY <1>4, <2>3, <3>1 DEF MaxElection, Blank, NoSetVersion, NoElection
      <3>3. ~Older(Blank, b) /\ ~Older(Blank, Blank)
        BY <2>1, <3>1 DEF Older, Blank, NoSetVersion, NoElection
      <3>4. QED
        BY <1>4, <1>11, <2>1, <2>3, <3>2, <3>3 DEF Elections, Blank
    <2>4. QED
      BY <2>2, <2>3 DEF ReplyOK
  <1>13. OnlyMembers(v)
    BY <1>4, <1>11 DEF OnlyMembers, ReplyOK
  <1>14. QED
    BY <1>7, <1>9, <1>10, <1>12, <1>13 DEF Good, v, n

LEMMA FromPrimaryGood ==
  ASSUME NEW t, NEW b, Good(t, b), NEW u, NEW a, NEW r, Described(t, u, a, r), ReplyOK(r),
         t.type \in {"Unknown"} \cup SetTypes, TypeOf(r) = "RSPrimary"
  PROVE  Good(UpdateRsFromPrimary(u, a, r), b)
  <1>1. u.type = t.type /\ u.setName = t.setName /\ DOMAIN u = Fields
    BY DEF Described, SameSet
  <1>2. CASE t.setName \notin {None, r.setName}
    <2>1. Good(RemoveServers(u, {a}), b) /\ RemoveServers(u, {a}).type = t.type
      BY <1>1, RemovedGood, RemoveFacts DEF SameSet, SetTypes
    <2>2. QED
      BY <1>1, <1>2, <2>1, RetypedGood DEF UpdateRsFromPrimary
  <1>3. CASE t.setName \in {None, r.setName}
             /\ r.setVersion # NoSetVersion /\ r.electionId # NoElection /\ LaterElection(u, r)
    <2> DEFINE n == [u EXCEPT !.servers[a] = UnknownServer, !.setName = r.setName]
               v == UpdateRsType(n)
    <2>1. v = UpdateRsFromPrimary(u, a, r)
      BY <1>1, <1>3 DEF UpdateRsFromPrimary
    <2>2. /\ DOMAIN n = Fields /\ n.setName = r.setName /\ Members(n) = Members(t)
          /\ n.maxSetVersion = t.maxSetVersion /\ n.maxElectionId = t.maxElectionId
          /\ n.servers[a] = UnknownServer /\ a \in Members(n) /\ n.type = t.type
          /\ \A x \in Members(t) \ {a} : n.servers[x] = t.servers[x]
      BY DEF Described, SameSet, Fields, Members
    <2> HIDE DEF n
    <2>3. /\ DOMAIN v = Fields /\ v.setName = r.setName /\ v.servers = n.servers
          /\ v.maxSetVersion = t.maxSetVersion /\ v.maxElectionId = t.maxElectionId
          /\ v.type = IF HasPrimary(n) THEN "RSWithPrimary" ELSE "RSNoPrimary"
          /\ Members(v) = Members(t)
      BY <2>2, RsTypeFacts DEF Members
    <2> HIDE DEF v
    <2>4. Typed(v)
      BY <2>2, <2>3, UnknownFacts DEF Good, Typed, SetTypes
    <2>5. \A p \in Primaries(v) : p \in Primaries(t) /\ v.servers[p] = t.servers[p]
      BY <2>2, <2>3, UnknownFacts DEF Primaries
    <2>6. \A x \in Members(v) : v.servers[x].type # "Standalone"
      BY <2>2, <2>3, UnknownFacts DEF Good, Kinds, SetTypes
    <2>7. (v.type = "RSWithPrimary" <=> Primaries(v) # {}) /\ v.type \in SetTypes
      BY <2>3, <2>6 DEF HasPrimary, Primaries, Members, SetTypes
    <2>8. v.type = "RSWithPrimary" => t.type = "RSWithPrimary"
      BY <2>5, <2>7 DEF Good, Kinds, Primaries, SetTypes
    <2>9. Kinds(v)
      BY <2>5, <2>6, <2>7 DEF Good, Kinds, Primaries, SetTypes
    <2>10. Names(v)
      BY <1>3, <2>2, <2>3, <2>7, UnknownFacts DEF Good, Names, ReplyOK, SetTypes
    <2>11. Elections(v, b)
      BY <1>3, <2>3, <2>5, <2>8, DeploymentAssumption DEF Good, Elections, MaxElection, ElectionOf
    <2>12. OnlyMembers(v)
      BY <2>3, <2>5, <2>8 DEF Good, OnlyMembers
    <2>13. QED
      BY <2>1, <2>4, <2>9, <2>10, <2>11, <2>12 DEF Good
  <1>4. CASE t.setName \in {None, r.setName}
             /\ ~(r.setVersion # NoSetVersion /\ r.electionId # NoElection /\ LaterElection(u, r))
    BY <1>1, <1>4, AcceptGood DEF UpdateRsFromPrimary
  <1>5. QED
    BY <1>2, <1>3, <1>4

\* Every entry of gSDAMTransitionTable.
LEMMA TransitionGood ==
  ASSUME NEW t, NEW b, Good(t, b), NEW u, NEW a, NEW r, Described(t, u, a, r), ReplyOK(r)
  PROVE  Good(Transition(u, a, r), b)
  <1> DEFINE type == TypeOf(r)
  <1>1. /\ u.type = t.type /\ DOMAIN u = Fields /\ u.servers[a].type = type
        /\ t.type \in {"Unknown", "Single", "Sharded", "RSNoPrimary", "RSWithPrimary"}
        /\ type \in {"Unknown", "RSGhost", "Standalone", "Mongos", "RSPrimary"} \cup MemberTypes
    BY DescribeFacts DEF Described, SameSet, Good, Typed, SetTypes, ReplyOK
  <1>2. CASE t.type = "Single"
    BY <1>1, <1>2, SingleGood DEF Transition
  <1>3. CASE t.type = "RSWithPrimary" /\ type \in {"Unknown", "RSGhost"}
    <2>1. Good(u, b)
      BY <1>3, PlainGood DEF ReplyOK
    <2>2. Transition(u, a, r) = UpdateRsType(u)
      BY <1>1, <1>3 DEF Transition, MemberTypes
    <2>3. QED
      BY <1>1, <1>3, <2>1, <2>2, RetypedGood DEF SetTypes
  <1>4. CASE t.type = "Unknown" /\ type = "Standalone"
    BY <1>1, <1>4, StandaloneGood DEF Transition, MemberTypes
  <1>5. CASE t.type = "Unknown" /\ type = "Mongos"
    BY <1>1, <1>5, ShardedGood DEF Transition, MemberTypes
  <1>6. CASE t.type \in {"Unknown"} \cup SetTypes /\ type = "RSPrimary"
    BY <1>1, <1>6, FromPrimaryGood DEF Transition, MemberTypes, SetTypes
  <1>7. CASE t.type = "Unknown" /\ type \in MemberTypes
    <2>1. Transition(u, a, r) = UpdateRsWithoutPrimary([u EXCEPT !.type = "RSNoPrimary"], a, r)
      BY <1>1, <1>7 DEF Transition, MemberTypes
    <2> DEFINE w == [u EXCEPT !.type = "RSNoPrimary"]
    <2>2. /\ DOMAIN w = Fields /\ w.type = "RSNoPrimary" /\ w.setName = u.setName
          /\ w.servers = u.servers /\ w.maxSetVersion = u.maxSetVersion
          /\ w.maxElectionId = u.maxElectionId
      BY <1>1 DEF Fields
    <2> HIDE DEF w
    <2>3. Good(UpdateRsWithoutPrimary(w, a, r), b)
      BY <1>7, <2>2, WithoutPrimaryGood
    <2>4. QED
      BY <2>1, <2>3 DEF w
  <1>8. CASE t.type = "RSNoPrimary" /\ type \in MemberTypes
    <2>1. Transition(u, a, r) = UpdateRsWithoutPrimary(u, a, r)
      BY <1>1, <1>8 DEF Transition, MemberTypes
    <2>2. QED
      BY <1>1, <1>8, <2>1, WithoutPrimaryGood
  <1>9. CASE t.type = "RSWithPrimary" /\ type \in MemberTypes
    <2>1. Transition(u, a, r) = UpdateRsWithPrimaryFromMember(u, a, r)
      BY <1>1, <1>9 DEF Transition, MemberTypes
    <2>2. QED
      BY <1>9, <2>1, WithPrimaryGood
  <1>10. CASE \/ t.type = "Sharded" /\ type \notin {"Unknown", "Mongos"}
              \/ t.type = "RSNoPrimary" /\ type \in {"Standalone", "Mongos"}
    <2>1. Transition(u, a, r) = RemoveServers(u, {a})
      BY <1>1, <1>10 DEF Transition, MemberTypes
    <2>2. QED
      BY <1>10, <2>1, RemovedGood
  <1>11. CASE t.type = "RSWithPrimary" /\ type \in {"Standalone", "Mongos"}
    <2>1. Transition(u, a, r) = UpdateRsType(RemoveServers(u, {a}))
      BY <1>1, <1>11 DEF Transition, MemberTypes
    <2>2. Good(RemoveServers(u, {a}), b) /\ RemoveServers(u, {a}).type = "RSWithPrimary"
      BY <1>1, <1>11, RemovedGood, RemoveFacts DEF SameSet
    <2>3. QED
      BY <2>1, <2>2, RetypedGood DEF SetTypes
  <1>12. CASE \/ t.type \in {"Unknown", "RSNoPrimary"} /\ type \in {"Unknown", "RSGhost"}
              \/ t.type = "Sharded" /\ type \in {"Unknown", "Mongos"}
    <2>1. Transition(u, a, r) = u
      BY <1>1, <1>12 DEF Transition, MemberTypes
    <2>2. QED
      BY <1>12, <2>1, PlainGood DEF ReplyOK, SetTypes
  <1>13. QED
    BY <1>1, <1>2, <1>3, <1>4, <1>5, <1>6, <1>7, <1>8, <1>9, <1>10, <1>11, <1>12 DEF SetTypes, MemberTypes

-----------------------------------------------------------------------------
(* The handler *)

LEMMA SameGood ==
  ASSUME NEW t, NEW b, Good(t, b), NEW u, SameSet(t, u), u.servers = t.servers
  PROVE  Good(u, b)
  <1>1. Members(u) = Members(t) /\ Primaries(u) = Primaries(t)
    BY DEF Members, Primaries
  <1>2. Typed(u) /\ Kinds(u) /\ Names(u)
    BY <1>1 DEF Good, Typed, Kinds, Names, SameSet
  <1>3. Elections(u, b) /\ OnlyMembers(u)
    BY <1>1 DEF Good, Elections, OnlyMembers, ElectionOf, MaxElection, SameSet
  <1>4. QED
    BY <1>2, <1>3 DEF Good

LEMMA HandleGood ==
  ASSUME NEW t, NEW b, Good(t, b), NEW a \in Members(t), NEW r, ReplyOK(r)
  PROVE  Good(HandleIsMaster(t, a, r), b)
  <1> DEFINE d == [t EXCEPT !.servers[a] = Describe(r)]
             u == UpdateClusterTime(d, r)
             v == Transition(u, a, r)
             m == UpdateSessionTimeout(v)
             c == CheckCompatible(m)
  <1>1. Described(t, d, a, r)
    BY DEF Described, SameSet, Members, Good, Typed, Fields
  <1> HIDE DEF d
  <1>2. Described(t, u, a, r)
    BY <1>1 DEF Described, SameSet, Members, UpdateClusterTime, Fields
  <1> HIDE DEF u
  <1>3. Good(v, b)
    BY <1>2, TransitionGood
  <1> HIDE DEF v
  <1>4. SameSet(v, m) /\ m.servers = v.servers
    BY <1>3 DEF Good, Typed, SameSet, UpdateSessionTimeout, Fields
  <1>5. Good(m, b)
    BY <1>3, <1>4, SameGood
  <1> HIDE DEF m
  <1>6. SameSet(m, c) /\ c.servers = m.servers
    BY <1>5 DEF Good, Typed, SameSet, CheckCompatible, Fields
  <1>7. Good(c, b)
    BY <1>5, <1>6, SameGood
  <1>8. HandleIsMaster(t, a, r) = IF r.received THEN c ELSE m
    BY DEF HandleIsMaster, d, u, v, m
  <1>9. QED
    BY <1>5, <1>7, <1>8

\* The history variable follows the primary that is shown, whose election is
\* not older than that of the last one shown.
LEMMA DeliverStep ==
  ASSUME IInv, NEW a, NEW r, ReplyOK(r), Deliver(a, r)
  PROVE  /\ IInv'
         /\ ShowsPrimary(td') => \A p \in Primaries(td') : ~Older(ElectionOf(td', p), shown)
  <1> DEFINE t == HandleIsMaster(td, a, r)
  <1>1. td' = t /\ Good(t, shown)
    BY HandleGood DEF Deliver, IInv
  <1>2. shown' = IF ShowsPrimary(t) THEN ElectionOf(t, CHOOSE p \in Primaries(t) : TRUE) ELSE shown
    BY DEF Deliver
  <1> HIDE DEF t
  <1>3. ShowsPrimary(t) => \A p \in Primaries(t) : ~Older(ElectionOf(t, p), shown)
    BY <1>1 DEF ShowsPrimary, Good, Elections
  <1>4. CASE ~ShowsPrimary(t)
    BY <1>1, <1>2, <1>4 DEF IInv
  <1>5. CASE ShowsPrimary(t)
    <2>1. PICK p \in Primaries(t) : p = CHOOSE x \in Primaries(t) : TRUE
      BY <1>5 DEF ShowsPrimary
    <2>2. Primaries(t) = {p}
      BY <1>1 DEF Good, Kinds
    <2> DEFINE e == ElectionOf(t, p)
    <2>3. ~Older(MaxElection(t), e)
      BY <1>1, <1>5 DEF ShowsPrimary, Good, Elections
    <2>4. IsElection(e)
      BY <1>1 DEF Good, Typed, IsServer, Primaries, IsElection, ElectionOf
    <2>5. ~Older(e, e)
      BY <2>4 DEF Older, IsElection
    <2>6. Elections(t, e)
      BY <1>1, <2>2, <2>3, <2>4, <2>5 DEF Good, Elections
    <2>7. shown' = e
      BY <1>2, <1>5, <2>1
    <2> HIDE DEF e
    <2>8. Good(t, e)
      BY <1>1, <2>6 DEF Good
    <2>9. QED
      BY <1>1, <1>3, <2>7, <2>8 DEF IInv
  <1>6. QED
    BY <1>1, <1>3, <1>4, <1>5

-----------------------------------------------------------------------------
(* The deployment sends nothing else. *)

ReplyFields == {"msg", "setName", "hidden", "ismaster", "secondary", "arbiterOnly", "isreplicaset",
                "setVersion", "electionId", "hosts", "me", "primary", "timeout", "clusterTime",
                "ok", "received"}

LEMMA BlankFacts ==
  /\ DOMAIN BlankReply = ReplyFields
  /\ ~BlankReply.msg /\ BlankReply.setName = None /\ ~BlankReply.hidden /\ ~BlankReply.ismaster
  /\ ~BlankReply.secondary /\ ~BlankReply.arbiterOnly /\ ~BlankReply.isreplicaset
  /\ BlankReply.setVersion = NoSetVersion /\ BlankReply.electionId = NoElection
  /\ BlankReply.hosts = {} /\ BlankReply.ok
  BY DEF BlankReply, ReplyFields

LEMMA MemberFacts ==
  ASSUME NEW a, NEW v \in DOMAIN Config
  PROVE  LET r == MemberReply(a, v) IN
         /\ DOMAIN r = ReplyFields
         /\ ~r.msg /\ r.setName = "rs" /\ ~r.hidden /\ ~r.ismaster
         /\ ~r.secondary /\ ~r.arbiterOnly /\ ~r.isreplicaset
         /\ r.setVersion = v /\ r.electionId = NoElection
         /\ r.hosts = Config[v] /\ r.ok
  BY BlankFacts DEF MemberReply, ReplyFields

LEMMA NumbersOK ==
  /\ NoSetVersion \in Int /\ NoElection \in Int
  /\ \A v \in DOMAIN Config : v \in Nat \ {0} /\ Config[v] \subseteq Addresses
  /\ \A e \in DOMAIN Winner : e \in Nat \ {0}
  /\ None # "rs" /\ None # "other" /\ "rs" # "other"
  BY DeploymentAssumption DEF NoSetVersion, NoElection

\* $clusterTime is of no concern to a transition.
LEMMA ClusterTimeOK ==
  ASSUME NEW q, DOMAIN q = ReplyFields, ReplyOK(q), NEW c
  PROVE  ReplyOK([q EXCEPT !.clusterTime = c])
  <1> DEFINE r == [q EXCEPT !.clusterTime = c]
  <1>1. /\ r.msg = q.msg /\ r.setName = q.setName /\ r.hidden = q.hidden /\ r.ismaster = q.ismaster
        /\ r.secondary = q.secondary /\ r.arbiterOnly = q.arbiterOnly
        /\ r.isreplicaset = q.isreplicaset /\ r.setVersion = q.setVersion
        /\ r.electionId = q.electionId /\ r.hosts = q.hosts /\ r.ok = q.ok
    BY DEF ReplyFields
  <1> HIDE DEF r
  <1>2. TypeOf(r) = TypeOf(q)
    BY <1>1 DEF TypeOf
  <1>3. ReplyOK(r)
    BY <1>1, <1>2 DEF ReplyOK
  <1>4. QED
    BY <1>3 DEF r

LEMMA PrimaryRepliesOK ==
  ASSUME NEW a, NEW q \in PrimaryReplies(a)
  PROVE  DOMAIN q = ReplyFields /\ ReplyOK(q)
  <1>1. PICK v \in DOMAIN Config, e \in DOMAIN Winner : q = PrimaryReply(a, v, e)
    BY DEF PrimaryReplies
  <1>2. /\ DOMAIN q = ReplyFields /\ ~q.msg /\ q.setName = "rs" /\ ~q.hidden /\ q.ismaster
        /\ q.setVersion = v /\ q.electionId = e /\ q.hosts = Config[v] /\ q.ok
    BY <1>1, MemberFacts DEF PrimaryReply, ReplyFields
  <1>3. TypeOf(q) = "RSPrimary"
    BY <1>2, NumbersOK DEF TypeOf
  <1>4. QED
    BY <1>2, <1>3, NumbersOK DEF ReplyOK, MemberTypes

LEMMA SecondaryRepliesOK ==
  ASSUME NEW a, NEW q \in SecondaryReplies(a)
  PROVE  DOMAIN q = ReplyFields /\ ReplyOK(q)
  <1>0. PICK v \in DOMAIN Config : \E p : q = SecondaryReply(a, v, p)
    BY DEF SecondaryReplies
  <1>1. PICK p : q = SecondaryReply(a, v, p)
    BY <1>0
  <1>2. /\ DOMAIN q = ReplyFields /\ ~q.msg /\ q.setName = "rs" /\ ~q.hidden /\ ~q.ismaster
        /\ q.secondary /\ q.setVersion = v /\ q.electionId = NoElection /\ q.hosts = Config[v] /\ q.ok
    BY <1>1, MemberFacts DEF SecondaryReply, ReplyFields
  <1>3. TypeOf(q) = "RSSecondary"
    BY <1>2, NumbersOK DEF TypeOf
  <1>4. QED
    BY <1>2, <1>3, NumbersOK DEF ReplyOK, MemberTypes

\* A reply without a set name is of no set; one with another name is of that set.
LEMMA NamelessOK ==
  ASSUME NEW q, DOMAIN q = ReplyFields, q.setName = None, q.setVersion = NoSetVersion,
         q.electionId = NoElection, q.hosts = {}
  PROVE  ReplyOK(q)
  <1>1. TypeOf(q) \in {"Unknown", "Mongos", "RSGhost", "Standalone"}
    BY DEF TypeOf
  <1>2. QED
    BY <1>1, NumbersOK DEF ReplyOK, MemberTypes

LEMMA NamedOK ==
  ASSUME NEW q, DOMAIN q = ReplyFields, q.ok, ~q.msg, q.setName # None, q.setVersion = NoSetVersion,
         q.electionId = NoElection, q.hosts \subseteq Addresses, q.setName = "rs" => q.hidden
  PROVE  ReplyOK(q)
  <1>1. TypeOf(q) \in {"RSPrimary"} \cup MemberTypes /\ (q.setName = "rs" => TypeOf(q) = "RSOther")
    BY DEF TypeOf, MemberTypes
  <1>2. QED
    BY <1>1, NumbersOK DEF ReplyOK, MemberTypes

LEMMA StrangeRepliesOK ==
  ASSUME NEW a \in Addresses, NEW q \in StrangeReplies(a)
  PROVE  DOMAIN q = ReplyFields /\ ReplyOK(q)
  <1>1. CASE \/ q = [BlankReply EXCEPT !.ok = FALSE]
             \/ q = [BlankReply EXCEPT !.isreplicaset = TRUE]
             \/ q = [BlankReply EXCEPT !.timeout = Timeout[a]]
             \/ q = [BlankReply EXCEPT !.msg = TRUE, !.timeout = Timeout[a]]
    <2>1. /\ DOMAIN q = ReplyFields /\ q.setName = None /\ q.setVersion = NoSetVersion
          /\ q.electionId = NoElection /\ q.hosts = {}
      BY <1>1, BlankFacts DEF ReplyFields
    <2>2. QED
      BY <2>1, NamelessOK
  <1>2. CASE \/ q = [BlankReply EXCEPT !.setName = "other", !.ismaster = TRUE, !.hosts = {a}, !.me = a]
             \/ q = [BlankReply EXCEPT !.setName = "other", !.arbiterOnly = TRUE, !.hosts = {a}, !.me = a]
    <2>1. /\ DOMAIN q = ReplyFields /\ q.ok /\ ~q.msg /\ q.setName = "other"
          /\ q.setVersion = NoSetVersion /\ q.electionId = NoElection /\ q.hosts = {a}
      BY <1>2, BlankFacts DEF ReplyFields
    <2>2. QED
      BY <2>1, NamedOK, NumbersOK
  <1>3. CASE q = [BlankReply EXCEPT !.setName = "rs", !.hidden = TRUE, !.hosts = Config[LastVersion]]
    <2>1. /\ DOMAIN q = ReplyFields /\ q.ok /\ ~q.msg /\ q.setName = "rs" /\ q.hidden
          /\ q.setVersion = NoSetVersion /\ q.electionId = NoElection /\ q.hosts = Config[LastVersion]
      BY <1>3, BlankFacts DEF ReplyFields
    <2>2. q.hosts \subseteq Addresses
      BY <2>1, NumbersOK, DeploymentAssumption
    <2>3. QED
      BY <2>1, <2>2, NamedOK, NumbersOK
  <1>4. QED
    BY <1>1, <1>2, <1>3 DEF StrangeReplies

LEMMA NoReplyOK == ReplyOK(NoReply)
  <1>1. /\ DOMAIN NoReply = ReplyFields /\ NoReply.setName = None /\ NoReply.setVersion = NoSetVersion
        /\ NoReply.electionId = NoElection /\ NoReply.hosts = {}
    BY BlankFacts DEF NoReply, ReplyFields
  <1>2. QED
    BY <1>1, NamelessOK

LEMMA AnswersOK ==
  ASSUME NEW a \in Addresses, NEW r \in Answers(a)
  PROVE  ReplyOK(r)
  <1>1. PICK c \in 0..MaxTime,
             q \in PrimaryReplies(a) \cup SecondaryReplies(a)
                   \cup (IF a \in Strangers THEN StrangeReplies(a) ELSE {}) :
          r = [q EXCEPT !.clusterTime = c]
    BY DEF Answers
  <1>2. QED
    BY <1>1, PrimaryRepliesOK, SecondaryRepliesOK, StrangeRepliesOK, ClusterTimeOK

LEMMA CurrentReplyOK ==
  ASSUME NEW a \in Addresses
  PROVE  ReplyOK(CurrentReply(a))
  <1>1. CASE Alias[a] \notin Config[LastVersion]
    BY <1>1, NoReplyOK DEF CurrentReply
  <1>2. CASE Alias[a] \in Config[LastVersion]
    <2> DEFINE q == CurrentReply(a)
               primary == Alias[a] = Winner[LastElection]
    <2>1. LastVersion \in DOMAIN Config /\ LastElection \in DOMAIN Winner
      BY DeploymentAssumption
    <2>2. /\ DOMAIN q = ReplyFields /\ ~q.msg /\ q.setName = "rs" /\ ~q.hidden /\ q.ok
          /\ (q.ismaster <=> primary) /\ (q.secondary <=> ~primary)
          /\ q.setVersion = LastVersion /\ q.hosts = Config[LastVersion]
          /\ q.electionId = IF primary THEN LastElection ELSE NoElection
      <3> DEFINE m == MemberReply(a, LastVersion)
      <3>1. q = [m EXCEPT !.ismaster = primary, !.secondary = ~primary,
                          !.electionId = IF primary THEN LastElection ELSE NoElection,
                          !.primary = Winner[LastElection]]
        BY <1>2, Zenon DEF CurrentReply
      <3>2. /\ DOMAIN m = ReplyFields /\ ~m.msg /\ m.setName = "rs" /\ ~m.hidden /\ m.ok
            /\ m.setVersion = LastVersion /\ m.hosts = Config[LastVersion]
        BY <2>1, MemberFacts
      <3> HIDE DEF m, q, primary
      <3>3. QED
        BY <3>1, <3>2 DEF ReplyFields
    <2> HIDE DEF q
    <2>3. TypeOf(q) = IF primary THEN "RSPrimary" ELSE "RSSecondary"
      BY <2>2, NumbersOK DEF TypeOf
    <2>4. ReplyOK(q)
      BY <2>1, <2>2, <2>3, NumbersOK DEF ReplyOK, MemberTypes
    <2>5. QED
      BY <2>4 DEF q
  <1>3. QED
    BY <1>1, <1>2

-----------------------------------------------------------------------------
(* The theorems *)

LEMMA InitIInv == Init => IInv
  <1> SUFFICES ASSUME Init PROVE IInv
    OBVIOUS
  <1>1. PICK seeds \in SUBSET Addresses \ {{}}, name \in {None, "rs"} :
          \E type \in InitialTypes(seeds) : td = NewDescription(seeds, type, name)
    BY DEF Init
  <1>2. PICK type \in InitialTypes(seeds) : td = NewDescription(seeds, type, name)
    BY <1>1
  <1>3. /\ DOMAIN td = Fields /\ td.type = type /\ td.setName = name /\ Members(td) = seeds
        /\ td.maxSetVersion = NoSetVersion /\ td.maxElectionId = NoElection
        /\ \A a \in seeds : td.servers[a] = UnknownServer
    BY <1>2 DEF NewDescription, Members, Fields
  <1>4. /\ type \in {"Unknown", "Single", "RSNoPrimary"}
        /\ (type = "Single" => Cardinality(seeds) = 1)
    BY DEF InitialTypes
  <1>5. type = "Single" => \E a \in Addresses : seeds = {a}
    <2>1. SUFFICES ASSUME type = "Single" PROVE \E a \in Addresses : seeds = {a}
      OBVIOUS
    <2>2. IsFiniteSet(seeds)
      BY FS_Subset, DeploymentAssumption
    <2>3. PICK a : seeds = {a}
      BY <1>4, <2>1, <2>2, FS_Singleton
    <2>4. QED
      BY <2>3
  <1>6. Primaries(td) = {} /\ Typed(td) /\ Kinds(td)
    BY <1>3, <1>4, <1>5, UnknownFacts, NumbersOK DEF Typed, Kinds, Primaries, SetTypes
  <1>7. Names(td) /\ OnlyMembers(td)
    BY <1>3, <1>4, <1>6, UnknownFacts, NumbersOK DEF Names, OnlyMembers, SetTypes
  <1>8. shown = Blank /\ MaxElection(td) = Blank /\ ~Older(Blank, Blank) /\ IsElection(Blank)
    BY <1>3 DEF Init, Blank, MaxElection, Older, NoSetVersion, NoElection, IsElection
  <1>9. Elections(td, shown)
    BY <1>6, <1>8 DEF Elections
  <1>10. QED
    BY <1>6, <1>7, <1>9 DEF IInv, Good

\* Every step preserves the invariant and shows no stale primary.
LEMMA NextStep ==
  ASSUME IInv, [Next]_vars
  PROVE  /\ IInv'
         /\ ShowsPrimary(td') => \A p \in Primaries(td') : ~Older(ElectionOf(td', p), shown)
  <1> DEFINE Fresh == ShowsPrimary(td') => \A p \in Primaries(td') : ~Older(ElectionOf(td', p), shown)
  <1>1. ASSUME NEW a \in Addresses, Reply(a) PROVE IInv' /\ Fresh
    BY <1>1, AnswersOK, DeliverStep DEF Reply
  <1>2. ASSUME NEW a \in Addresses, Invalidate(a) PROVE IInv' /\ Fresh
    BY <1>2, NoReplyOK, DeliverStep DEF Invalidate
  <1>3. ASSUME NEW a \in Addresses, Scan(a) PROVE IInv' /\ Fresh
    BY <1>3, CurrentReplyOK, DeliverStep DEF Scan
  <1>4. CASE Settle \/ UNCHANGED vars
    <2>1. td' = td /\ shown' = shown
      BY <1>4 DEF Settle, vars
    <2>2. Fresh
      BY <2>1 DEF IInv, Good, Elections, ShowsPrimary
    <2>3. QED
      BY <2>1, <2>2 DEF IInv
  <1>5. QED
    BY <1>1, <1>2, <1>3, <1>4 DEF Next

LEMMA NextIInv == IInv /\ [Next]_vars => IInv'
  BY NextStep

\* The invariant holds for every deployment, seed list and order of replies.
THEOREM IInvTheorem == Spec => []IInv
  BY InitIInv, NextIInv, PTL DEF Spec

\* update_rs_from_primary leaves at most one primary, whoever claims to be one.
THEOREM AtMostOnePrimaryTheorem == Spec => []AtMostOnePrimary
  <1>1. ASSUME IInv PROVE AtMostOnePrimary
    <2>1. CASE Primaries(td) = {}
      BY <2>1, FS_EmptySet DEF AtMostOnePrimary
    <2>2. CASE Primaries(td) # {}
      <3>1. PICK p \in Primaries(td) : TRUE
        BY <2>2
      <3>2. Primaries(td) = {p}
        BY <1>1 DEF IInv, Good, Kinds
      <3>3. Cardinality({p}) = 1
        BY FS_Singleton
      <3>4. QED
        BY <3>2, <3>3 DEF AtMostOnePrimary
    <2>3. QED
      BY <2>1, <2>2
  <1>2. QED
    BY <1>1, IInvTheorem, PTL

\* In whatever order old replies arrive, a primary is shown only if neither its
\* setVersion, nor with the same setVersion its electionId, is less than that of
\* the last primary shown.
THEOREM NoStalePrimaryTheorem == Spec => NoStalePrimary
  <1>1. IInv /\ [Next]_vars =>
          [ShowsPrimary(td') =>
             \A p \in Primaries(td') :
               LET now == ElectionOf(td', p) IN
               /\ now[1] >= shown[1]
               /\ now[2] < shown[2] => now[1] > shown[1]]_vars
    <2> SUFFICES ASSUME IInv, [Next]_vars, ShowsPrimary(td'), NEW p \in Primaries(td')
                 PROVE  LET now == ElectionOf(td', p) IN
                        /\ now[1] >= shown[1]
                        /\ now[2] < shown[2] => now[1] > shown[1]
      OBVIOUS
    <2>1. ~Older(ElectionOf(td', p), shown) /\ IInv'
      BY NextStep
    <2>2. IsElection(shown)
      BY DEF IInv, Good, Elections
    <2>3. ElectionOf(td', p)[1] \in Int /\ ElectionOf(td', p)[2] \in Int
      BY <2>1 DEF IInv, Good, Typed, IsServer, Primaries, ElectionOf
    <2>4. QED
      BY <2>1, <2>2, <2>3 DEF Older, IsElection
  <1>2. QED
    BY <1>1, IInvTheorem, PTL DEF Spec, NoStalePrimary

\* With a primary, the description holds only members which that primary reported.
THEOREM MembersOfPrimaryTheorem == Spec => []MembersOfPrimary
  <1>1. IInv => MembersOfPrimary
    BY DEF IInv, Good, OnlyMembers, MembersOfPrimary
  <1>2. QED
    BY <1>1, IInvTheorem, PTL

\* All members are of one set, whose name is known where the code relies on it.
THEOREM OneSetTheorem == Spec => []OneSet
  <1>1. IInv => OneSet
    BY DEF IInv, Good, Names, OneSet, SetTypes
  <1>2. QED
    BY <1>1, IInvTheorem, PTL

-----------------------------------------------------------------------------
(* Monitoring: nodes of the scanner *)

Statuses == {"none", "current", "stale", "retired"}
Phases == {"none", "connecting", "sent", "canceled"}
Live == {"connecting", "sent"}

Nodes(h) == [status : Statuses, cmds : [Indices(h) -> Phases], stream : BOOLEAN, owed : {0, 1}]

\* The commands of a node: until it is retired it owes an outcome exactly while
\* it has commands and no stream; a live command excludes a stream, and one that
\* was sent every other live one.
NodeInv(h, n) ==
  /\ n \in Nodes(h)
  /\ \A i \in Indices(h) : n.cmds[i] \in Live => ~n.stream /\ n.status # "retired"
  /\ n.status # "retired" => n.owed = IF n.stream \/ Running(n) = {} THEN 0 ELSE 1
  /\ \A i, j \in Indices(h) : n.cmds[i] = "sent" /\ i # j => n.cmds[j] \notin Live

\* A node that can be set up: it has no commands, or just began with its first.
Ready(n) ==
  /\ n.status # "retired"
  /\ Running(n) # {} => ~n.stream /\ \A i \in Running(n) : n.cmds[i] = "connecting"

\* A scanner all of whose nodes are right.
Scanner(s) == s = [h \in Hosts |-> s[h]] /\ \A h \in Hosts : NodeInv(h, s[h])

\* Outside a scan no node has commands.
ScannerInv ==
  /\ Scanner(ts)
  /\ bg # "scan" => \A h \in Hosts : Running(ts[h]) = {}

Known == {"absent", "Unknown", "Other", "Suitable"}
Waiting == \E c \in Clients : pc[c] = "waiting"

MonitorTypeOK ==
  /\ known \in [Hosts -> Known]
  /\ bg \in {"off", "wait", "scan", "done"} /\ deadline \in 0..2 /\ elapsed \in 0..2
  /\ requested \in BOOLEAN /\ stopping \in BOOLEAN /\ signalled \in BOOLEAN /\ silent \in BOOLEAN
  /\ pc \in [Clients -> {"idle", "waiting", "woken"}]

\* The scan that a waiting thread asked for is not forgotten: neither while
\* another one is running, nor when the background thread goes to sleep.
RequestInv ==
  /\ bg = "off" => ~Waiting
  /\ ~silent /\ Waiting => /\ bg \in {"wait", "scan"} => requested
                           /\ bg = "wait" => signalled \/ deadline <= 1

MonitorInv == MonitorTypeOK /\ ScannerInv /\ NoMissedServer /\ RequestInv

\* Every name has room for two sets of commands.
LEMMA IndexFacts ==
    ASSUME NEW h \in Hosts
    PROVE  /\ 1 \in Indices(h) /\ FirstSet(h) \subseteq Indices(h)
           /\ FirstSet(h) # {} /\ Indices(h) \ FirstSet(h) # {}
  <1>1. Results[h] \in Nat /\ Results[h] # 0
    BY MonitorAssumption
  <1>2. 1 \in FirstSet(h) /\ 1 \in Indices(h) /\ Results[h] + 1 \in Indices(h) /\ Results[h] + 1 \notin FirstSet(h)
    BY <1>1 DEF Indices, FirstSet
  <1>3. FirstSet(h) \subseteq Indices(h)
    BY <1>1 DEF Indices, FirstSet
  <1>4. QED
    BY <1>2, <1>3

LEMMA NewNodeInv ==
    ASSUME NEW h \in Hosts
    PROVE  /\ NodeInv(h, NoNode(h)) /\ Running(NoNode(h)) = {}
           /\ NodeInv(h, NewNode(h)) /\ Running(NewNode(h)) = {} /\ ~NewNode(h).stream
           /\ NewNode(h).status = "current"
  <1> DEFINE a == NoNode(h)
             b == NewNode(h)
  <1>1. /\ Idle(h) \in [Indices(h) -> Phases] /\ DOMAIN Idle(h) = Indices(h)
        /\ \A i \in Indices(h) : Idle(h)[i] = "none"
    BY DEF Idle, Phases
  <1>2. a \in Nodes(h) /\ a.status = "none" /\ a.cmds = Idle(h) /\ a.stream = FALSE /\ a.owed = 0
    BY <1>1 DEF NoNode, Nodes, Statuses
  <1>3. b \in Nodes(h) /\ b.status = "current" /\ b.cmds = Idle(h) /\ b.stream = FALSE /\ b.owed = 0
    BY <1>2 DEF NewNode, Nodes, Statuses
  <1> HIDE DEF a, b
  <1>4. Running(a) = {} /\ Running(b) = {}
    BY <1>1, <1>2, <1>3 DEF Running
  <1>5. NodeInv(h, a) /\ NodeInv(h, b)
    BY <1>1, <1>2, <1>3, <1>4 DEF NodeInv, Live
  <1>6. QED
    BY <1>2, <1>3, <1>4, <1>5 DEF a, b

\* A setup keeps a node right, and a node that had nothing ready for another.
LEMMA SetUpInv ==
    ASSUME NEW h \in Hosts, NEW n, NodeInv(h, n), Ready(n), NEW resolves
    PROVE  /\ NodeInv(h, SetUp(h, n, resolves)) /\ SetUp(h, n, resolves).status = n.status
           /\ Running(n) = {} => Ready(SetUp(h, n, resolves))
  <1> DEFINE m == SetUp(h, n, resolves)
             set == IF Running(n) = {} THEN FirstSet(h) ELSE Indices(h) \ FirstSet(h)
  <1>0. n \in Nodes(h) /\ DOMAIN n.cmds = Indices(h) /\ n.cmds \in [Indices(h) -> Phases] /\ n.status # "retired"
    BY DEF NodeInv, Nodes, Ready
  <1>1. /\ 1 \in Indices(h) /\ set \subseteq Indices(h) /\ set # {}
    BY IndexFacts
  <1>2. CASE n.stream
    <2>1. m = [n EXCEPT !.stream = FALSE, !.owed = 1, !.cmds[1] = "connecting"]
      BY <1>2 DEF SetUp
    <2> HIDE DEF m
    <2>2. m \in Nodes(h) /\ m.stream = FALSE /\ m.owed = 1 /\ m.status = n.status
          /\ m.cmds = [n.cmds EXCEPT ![1] = "connecting"]
      BY <1>0, <1>1, <2>1 DEF Nodes, Phases
    <2>3. Running(n) = {}
      BY <1>2 DEF Ready
    <2>4. \A i \in Indices(h) : n.cmds[i] = "none"
      BY <1>0, <2>3 DEF Running
    <2>5. DOMAIN m.cmds = Indices(h) /\ \A i \in Indices(h) : m.cmds[i] = IF i = 1 THEN "connecting" ELSE "none"
      BY <1>0, <1>1, <2>2, <2>4
    <2>6. Running(m) = {1}
      BY <1>1, <2>5 DEF Running
    <2>7. NodeInv(h, m) /\ Ready(m)
      <3>1. Running(m) # {} /\ \A i \in Running(m) : m.cmds[i] = "connecting"
        BY <1>1, <2>5, <2>6
      <3>2. \A i \in Indices(h) : m.cmds[i] \in {"none", "connecting"}
        BY <2>5
      <3> HIDE DEF Running
      <3>3. QED
        BY <1>0, <2>2, <3>1, <3>2 DEF NodeInv, Ready, Live
    <2>8. QED
      BY <2>2, <2>7 DEF m
  <1>3. CASE ~n.stream /\ resolves
    <2> DEFINE c == [i \in Indices(h) |-> IF i \in set THEN "connecting" ELSE n.cmds[i]]
    <2>1. m = [n EXCEPT !.owed = 1, !.cmds = c]
      BY <1>3 DEF SetUp
    <2>2. c \in [Indices(h) -> Phases]
      BY <1>0 DEF Phases
    <2>3. DOMAIN c = Indices(h) /\ \A i \in Indices(h) : c[i] = IF i \in set THEN "connecting" ELSE n.cmds[i]
      OBVIOUS
    <2> HIDE DEF m, c, set
    <2>4. m \in Nodes(h) /\ m.stream = n.stream /\ m.owed = 1 /\ m.status = n.status /\ m.cmds = c
      BY <1>0, <2>1, <2>2 DEF Nodes
    <2>5. \A i \in Indices(h) : n.cmds[i] \in {"none", "connecting"}
      BY <1>0 DEF Ready, Running
    <2>6. \A i \in Indices(h) : m.cmds[i] \in {"none", "connecting"}
      BY <2>3, <2>4, <2>5
    <2>7. Running(m) # {} /\ \A i \in Running(m) : m.cmds[i] = "connecting"
      BY <1>1, <2>3, <2>4, <2>6 DEF Running
    <2>8. NodeInv(h, m) /\ Ready(m)
      BY <1>0, <1>3, <2>4, <2>6, <2>7 DEF NodeInv, Ready, Live
    <2>9. QED
      BY <2>4, <2>8 DEF m
  <1>4. CASE ~n.stream /\ ~resolves
    BY <1>4 DEF SetUp
  <1>5. QED
    BY <1>2, <1>3, <1>4

LEMMA RetireInv ==
    ASSUME NEW h \in Hosts, NEW n, NodeInv(h, n)
    PROVE  NodeInv(h, Retire(n)) /\ Retire(n).status = "retired"
  <1> DEFINE m == Retire(n)
             c == Cancel(n.cmds, {})
  <1>0. n \in Nodes(h) /\ DOMAIN n.cmds = Indices(h) /\ n.cmds \in [Indices(h) -> Phases]
    BY DEF NodeInv, Nodes
  <1>1. c \in [Indices(h) -> Phases] /\ \A i \in Indices(h) : c[i] \in {"none", "canceled"}
    BY <1>0 DEF Cancel, Phases
  <1>2. m = [n EXCEPT !.status = "retired", !.cmds = c]
    BY DEF Retire
  <1> HIDE DEF m, c
  <1>3. m \in Nodes(h) /\ m.status = "retired" /\ m.cmds = c
    BY <1>0, <1>1, <1>2 DEF Nodes, Statuses
  <1>4. NodeInv(h, m)
    BY <1>1, <1>3 DEF NodeInv, Live
  <1>5. QED
    BY <1>3, <1>4 DEF m

\* mongoc_topology_reconcile keeps it, and has only nodes of its own set up.
LEMMA ReconcileInv ==
    ASSUME NEW s, Scanner(s), NEW t, NEW resolving
    PROVE  LET r == Reconcile(s, t, resolving)
           IN  /\ Scanner(r)
               /\ \A h \in Hosts : Running(s[h]) = {} /\ r[h].status # "retired" => Ready(r[h])
  <1> DEFINE r == Reconcile(s, t, resolving)
  <1>1. r = [h \in Hosts |-> r[h]]
    BY DEF Reconcile
  <1>2. ASSUME NEW h \in Hosts
        PROVE  NodeInv(h, r[h]) /\ (Running(s[h]) = {} /\ r[h].status # "retired" => Ready(r[h]))
    <2>0. NodeInv(h, s[h])
      BY DEF Scanner
    <2>1. CASE s[h].status = "none" /\ t[h] # "absent"
      <3>1. r[h] = SetUp(h, NewNode(h), h \in resolving)
        BY <2>1 DEF Reconcile
      <3>2. NodeInv(h, NewNode(h)) /\ Ready(NewNode(h)) /\ Running(NewNode(h)) = {}
        BY NewNodeInv DEF Ready
      <3>3. QED
        BY <3>1, <3>2, SetUpInv
    <2>2. CASE ~(s[h].status = "none" /\ t[h] # "absent") /\ s[h].status = "stale"
      BY <2>0, <2>2, RetireInv DEF Reconcile
    <2>3. CASE ~(s[h].status = "none" /\ t[h] # "absent") /\ s[h].status # "stale"
      <3>1. r[h] = s[h]
        BY <2>3 DEF Reconcile
      <3>2. QED
        BY <2>0, <3>1 DEF Ready
    <2>4. QED
      BY <2>1, <2>2, <2>3
  <1>3. QED
    BY <1>1, <1>2 DEF Scanner

LEMMA DeleteRetiredInv ==
    ASSUME NEW s, Scanner(s)
    PROVE  /\ Scanner(DeleteRetired(s))
           /\ \A h \in Hosts : \/ DeleteRetired(s)[h] = s[h] /\ s[h].status # "retired"
                               \/ DeleteRetired(s)[h] = NoNode(h)
  <1> DEFINE r == DeleteRetired(s)
  <1>1. r = [h \in Hosts |-> IF s[h].status = "retired" THEN NoNode(h) ELSE s[h]]
    BY DEF DeleteRetired
  <1>2. \A h \in Hosts : \/ r[h] = s[h] /\ s[h].status # "retired"
                         \/ r[h] = NoNode(h)
    BY <1>1
  <1>3. r = [h \in Hosts |-> r[h]]
    BY <1>1
  <1> HIDE DEF r
  <1>4. \A h \in Hosts : NodeInv(h, r[h])
    BY <1>2, NewNodeInv DEF Scanner
  <1>5. QED
    BY <1>2, <1>3, <1>4 DEF Scanner, r

\* A host that leaves the description only makes its node stale.
LEMMA LeftInv ==
    ASSUME NEW s, Scanner(s), NEW t
    PROVE  Scanner(Left(s, t)) /\ \A h \in Hosts : Running(Left(s, t)[h]) = Running(s[h])
  <1> DEFINE r == Left(s, t)
  <1>1. r = [h \in Hosts |-> IF s[h].status = "current" /\ t[h] = "absent"
                             THEN [s[h] EXCEPT !.status = "stale"] ELSE s[h]]
    BY DEF Left
  <1>2. ASSUME NEW h \in Hosts PROVE NodeInv(h, r[h]) /\ Running(r[h]) = Running(s[h])
    <2>0. NodeInv(h, s[h])
      BY DEF Scanner
    <2>1. CASE s[h].status = "current" /\ t[h] = "absent"
      <3> DEFINE m == r[h]
      <3>1. m = [s[h] EXCEPT !.status = "stale"]
        BY <1>1, <2>1
      <3>2. s[h] \in Nodes(h)
        BY <2>0 DEF NodeInv
      <3> HIDE DEF m
      <3>3. m \in Nodes(h) /\ m.status = "stale" /\ m.cmds = s[h].cmds /\ m.stream = s[h].stream /\ m.owed = s[h].owed
        BY <3>1, <3>2 DEF Nodes, Statuses
      <3>4. Running(m) = Running(s[h])
        BY <3>3 DEF Running
      <3>5. NodeInv(h, m)
        BY <2>0, <2>1, <3>3, <3>4 DEF NodeInv
      <3>6. QED
        BY <3>4, <3>5 DEF m
    <2>2. CASE ~(s[h].status = "current" /\ t[h] = "absent")
      BY <1>1, <2>0, <2>2
    <2>3. QED
      BY <2>1, <2>2
  <1>3. r = [h \in Hosts |-> r[h]]
    BY <1>1
  <1>4. QED
    BY <1>2, <1>3 DEF Scanner

\* One node is replaced.
LEMMA OneNodeInv ==
    ASSUME NEW s, Scanner(s), NEW h \in Hosts, NEW m, NodeInv(h, m)
    PROVE  Scanner([s EXCEPT ![h] = m])
  BY DEF Scanner

-----------------------------------------------------------------------------
(* Monitoring: the actions *)

\* The steps of a scan on one node: a command connects, and cancels the others.
LEMMA ConnectedInv ==
    ASSUME NEW h \in Hosts, NEW n, NodeInv(h, n), NEW i \in Indices(h), n.cmds[i] = "connecting",
           NEW m, m = [n EXCEPT !.cmds = [Cancel(@, {i}) EXCEPT ![i] = "sent"]]
    PROVE  NodeInv(h, m)
  <1> DEFINE c == [Cancel(n.cmds, {i}) EXCEPT ![i] = "sent"]
  <1>0. n \in Nodes(h) /\ DOMAIN n.cmds = Indices(h) /\ n.cmds \in [Indices(h) -> Phases]
    BY DEF NodeInv, Nodes
  <1>1. /\ c \in [Indices(h) -> Phases] /\ c[i] = "sent" /\ DOMAIN c = Indices(h)
        /\ \A j \in Indices(h) : j # i => c[j] \in {"none", "canceled"}
    BY <1>0 DEF Cancel, Phases
  <1> HIDE DEF c
  <1>2. m \in Nodes(h) /\ m.cmds = c /\ m.status = n.status /\ m.stream = n.stream /\ m.owed = n.owed
    BY <1>0, <1>1 DEF Nodes, c
  <1>3. Running(m) # {} /\ Running(n) # {}
    BY <1>0, <1>1, <1>2 DEF Running
  <1>4. ~n.stream /\ n.status # "retired"
    BY DEF NodeInv, Live
  <1>5. QED
    BY <1>1, <1>2, <1>3, <1>4 DEF NodeInv, Live

\* The command that was sent succeeds: the node has its stream and owes nothing.
LEMMA SucceededInv ==
    ASSUME NEW h \in Hosts, NEW n, NodeInv(h, n), NEW i \in Indices(h), n.cmds[i] = "sent",
           NEW m, m = [n EXCEPT !.cmds[i] = "none", !.stream = TRUE, !.owed = @ - 1]
    PROVE  NodeInv(h, m)
  <1>0. n \in Nodes(h) /\ DOMAIN n.cmds = Indices(h) /\ n.cmds \in [Indices(h) -> Phases]
    BY DEF NodeInv, Nodes
  <1>1. Running(n) # {} /\ ~n.stream /\ n.status # "retired"
    BY <1>0 DEF NodeInv, Live, Running
  <1>2. n.owed = 1
    BY <1>1 DEF NodeInv
  <1>3. /\ m.status = n.status /\ m.stream = TRUE /\ m.owed = n.owed - 1
        /\ m.cmds = [n.cmds EXCEPT ![i] = "none"]
        /\ m = [status |-> m.status, cmds |-> m.cmds, stream |-> m.stream, owed |-> m.owed]
    BY <1>0 DEF Nodes
  <1>4. m.owed = 0 /\ m.cmds \in [Indices(h) -> Phases]
    BY <1>0, <1>2, <1>3 DEF Phases
  <1>5. m \in Nodes(h)
    BY <1>0, <1>3, <1>4 DEF Nodes
  <1>6. \A j \in Indices(h) : m.cmds[j] \notin Live
    BY <1>0, <1>3 DEF NodeInv, Live
  <1>7. QED
    BY <1>3, <1>4, <1>5, <1>6 DEF NodeInv, Live

\* A command fails that is not the node's last word.
LEMMA DroppedInv ==
    ASSUME NEW h \in Hosts, NEW n, NodeInv(h, n), NEW i \in Indices(h),
           n.status = "retired" \/ n.stream \/ Running(n) # {i}, n.cmds[i] # "none",
           NEW m, m = [n EXCEPT !.cmds[i] = "none"]
    PROVE  NodeInv(h, m)
  <1>0. n \in Nodes(h) /\ DOMAIN n.cmds = Indices(h) /\ n.cmds \in [Indices(h) -> Phases]
    BY DEF NodeInv, Nodes
  <1>1. /\ m \in Nodes(h) /\ m.status = n.status /\ m.stream = n.stream /\ m.owed = n.owed
        /\ m.cmds = [n.cmds EXCEPT ![i] = "none"]
    BY <1>0 DEF Nodes, Phases
  <1>2. \A j \in Indices(h) : m.cmds[j] = IF j = i THEN "none" ELSE n.cmds[j]
    BY <1>0, <1>1
  <1>3. DOMAIN m.cmds = Indices(h)
    BY <1>0, <1>1
  <1>4. Running(n) # {i} => Running(m) # {} /\ Running(n) # {}
    <2>1. i \in Running(n) /\ Running(n) \subseteq Indices(h)
      BY <1>0 DEF Running
    <2>2. Running(m) = Running(n) \ {i}
      BY <1>0, <1>2, <1>3 DEF Running
    <2>3. QED
      BY <2>1, <2>2
  <1>5. m.status # "retired" => m.owed = IF m.stream \/ Running(m) = {} THEN 0 ELSE 1
    BY <1>1, <1>4 DEF NodeInv
  <1>6. QED
    BY <1>1, <1>2, <1>5 DEF NodeInv, Live

\* The last command of a node fails.
LEMMA FailedInv ==
    ASSUME NEW h \in Hosts, NEW n, NodeInv(h, n), NEW i \in Indices(h),
           n.status # "retired", ~n.stream, Running(n) = {i},
           NEW m, m = [n EXCEPT !.cmds[i] = "none", !.owed = @ - 1]
    PROVE  NodeInv(h, m) /\ Ready(m)
  <1>0. n \in Nodes(h) /\ DOMAIN n.cmds = Indices(h) /\ n.cmds \in [Indices(h) -> Phases]
    BY DEF NodeInv, Nodes
  <1>2. n.owed = 1
    BY DEF NodeInv
  <1>3. /\ m.status = n.status /\ m.stream = n.stream /\ m.owed = n.owed - 1
        /\ m.cmds = [n.cmds EXCEPT ![i] = "none"]
        /\ m = [status |-> m.status, cmds |-> m.cmds, stream |-> m.stream, owed |-> m.owed]
    BY <1>0 DEF Nodes
  <1>4. m.owed = 0 /\ m.cmds \in [Indices(h) -> Phases]
    BY <1>0, <1>2, <1>3 DEF Phases
  <1>5. m \in Nodes(h)
    BY <1>0, <1>3, <1>4 DEF Nodes
  <1>6. \A j \in Indices(h) : m.cmds[j] = "none"
    BY <1>0, <1>3 DEF Running
  <1>7. Running(m) = {}
    BY <1>4, <1>6 DEF Running
  <1>8. QED
    BY <1>3, <1>4, <1>5, <1>6, <1>7 DEF NodeInv, Ready, Live

\* A broadcast leaves nobody waiting.
LEMMA BroadcastFacts ==
    ASSUME MonitorTypeOK, Broadcast
    PROVE  /\ pc' \in [Clients -> {"idle", "waiting", "woken"}] /\ silent' = FALSE
           /\ NoMissedServer' /\ RequestInv'
  <1>1. /\ pc' = [c \in Clients |-> IF pc[c] = "waiting" THEN "woken" ELSE pc[c]]
        /\ silent' = FALSE
    BY DEF Broadcast
  <1>2. pc' \in [Clients -> {"idle", "waiting", "woken"}]
    BY <1>1 DEF MonitorTypeOK
  <1>3. \A c \in Clients : pc'[c] # "waiting"
    BY <1>1
  <1>4. ~Waiting'
    BY <1>3 DEF Waiting
  <1>5. QED
    BY <1>1, <1>2, <1>3, <1>4 DEF NoMissedServer, RequestInv

\* Nobody begins to wait, and no server becomes selectable.
LEMMA NoMissedStatic ==
    ASSUME NoMissedServer, UNCHANGED pc, \A h \in Hosts : known'[h] = "Suitable" => known[h] = "Suitable"
    PROVE  NoMissedServer'
  BY DEF NoMissedServer

LEMMA ConnectedStep ==
    ASSUME MonitorInv, bg = "scan", NEW h \in Hosts, NEW i \in Indices(h), Connected(h, i)
    PROVE  MonitorInv'
  <1>1. /\ ts[h].cmds[i] = "connecting"
        /\ ts' = [ts EXCEPT ![h] = [ts[h] EXCEPT !.cmds = [Cancel(@, {i}) EXCEPT ![i] = "sent"]]]
        /\ UNCHANGED <<known, bg, deadline, requested, elapsed, stopping, signalled, silent, pc>>
    BY DEF Connected, bgVars
  <1>2. PICK m : m = [ts[h] EXCEPT !.cmds = [Cancel(@, {i}) EXCEPT ![i] = "sent"]]
    OBVIOUS
  <1>3. Scanner(ts) /\ NodeInv(h, ts[h])
    BY DEF MonitorInv, ScannerInv, Scanner
  <1>4. NodeInv(h, m)
    BY <1>1, <1>2, <1>3, ConnectedInv
  <1>5. Scanner([ts EXCEPT ![h] = m])
    BY <1>3, <1>4, OneNodeInv
  <1>6. ScannerInv'
    BY <1>1, <1>2, <1>5 DEF ScannerInv, Scanner
  <1>7. MonitorTypeOK' /\ NoMissedServer' /\ RequestInv'
    BY <1>1 DEF MonitorInv, MonitorTypeOK, NoMissedServer, RequestInv, Waiting
  <1>8. QED
    BY <1>6, <1>7 DEF MonitorInv

\* What an answer may make of the description.
LEMMA RepliesFacts ==
    ASSUME MonitorTypeOK, NEW h \in Hosts, NEW t \in Replies(h)
    PROVE  t \in [Hosts -> Known]
  BY DEF Replies, Known

LEMMA SuccessStep ==
    ASSUME MonitorInv, bg = "scan", NEW h \in Hosts, NEW i \in Indices(h), Success(h, i)
    PROVE  MonitorInv'
  <1>0. MonitorTypeOK /\ Scanner(ts) /\ NodeInv(h, ts[h])
    BY DEF MonitorInv, ScannerInv, Scanner
  <1>1. /\ ts[h].cmds[i] = "sent" /\ Broadcast
        /\ UNCHANGED <<bg, deadline, requested, elapsed, stopping, signalled>>
    BY DEF Success, bgVars
  <1>2. PICK s : s = [ts EXCEPT ![h].cmds[i] = "none", ![h].stream = TRUE, ![h].owed = @ - 1]
    OBVIOUS
  <1>3. PICK t \in IF ts[h].status = "current" THEN Replies(h) ELSE {known}, resolving \in Resolvable :
            known' = t /\ ts' = Reconcile(Left(s, t), t, resolving)
    BY <1>2 DEF Success
  <1>4. PICK m : m = [ts[h] EXCEPT !.cmds[i] = "none", !.stream = TRUE, !.owed = @ - 1]
    OBVIOUS
  <1>5. s = [ts EXCEPT ![h] = m]
    BY <1>2, <1>4
  <1>6. NodeInv(h, m)
    BY <1>0, <1>1, <1>4, SucceededInv
  <1>7. Scanner(s)
    BY <1>0, <1>5, <1>6, OneNodeInv
  <1>8. Scanner(Left(s, t))
    BY <1>7, LeftInv
  <1>9. Scanner(Reconcile(Left(s, t), t, resolving))
    BY <1>8, ReconcileInv
  <1>10. ScannerInv'
    BY <1>1, <1>3, <1>9 DEF ScannerInv, Scanner
  <1>11. known' \in [Hosts -> Known]
    BY <1>0, <1>3, RepliesFacts DEF MonitorTypeOK
  <1>12. MonitorTypeOK' /\ NoMissedServer' /\ RequestInv'
    BY <1>0, <1>1, <1>11, BroadcastFacts DEF MonitorTypeOK
  <1>13. QED
    BY <1>10, <1>12 DEF MonitorInv

LEMMA FailStep ==
    ASSUME MonitorInv, bg = "scan", NEW h \in Hosts, NEW i \in Indices(h), Fail(h, i)
    PROVE  MonitorInv'
  <1>0. MonitorTypeOK /\ Scanner(ts) /\ NodeInv(h, ts[h]) /\ NoMissedServer /\ RequestInv
    BY DEF MonitorInv, ScannerInv, Scanner
  <1>1. ts[h].cmds[i] # "none" /\ UNCHANGED <<bg, deadline, requested, elapsed, stopping, signalled>>
    BY DEF Fail, bgVars
  <1>2. CASE ts[h].status # "retired" /\ ~ts[h].stream /\ Running(ts[h]) = {i}
    <2>1. PICK s : s = [ts EXCEPT ![h].cmds[i] = "none", ![h].owed = @ - 1]
      OBVIOUS
    <2>2. PICK resolving \in Resolvable :
            IF ts[h].status = "current" /\ known[h] # "Unknown"
            THEN /\ known' = [known EXCEPT ![h] = "Unknown"]
                 /\ ts' = [s EXCEPT ![h] = SetUp(h, @, h \in resolving)]
                 /\ UNCHANGED <<silent, pc>>
            ELSE ts' = Reconcile(s, known, resolving) /\ Broadcast /\ UNCHANGED known
      BY <1>2, <2>1 DEF Fail, NodeFailed
    <2>3. PICK m : m = [ts[h] EXCEPT !.cmds[i] = "none", !.owed = @ - 1]
      OBVIOUS
    <2>4. s = [ts EXCEPT ![h] = m]
      BY <2>1, <2>3
    <2>5. NodeInv(h, m) /\ Ready(m)
      BY <1>0, <1>2, <2>3, FailedInv
    <2>6. Scanner(s) /\ s[h] = m
      BY <1>0, <2>4, <2>5, OneNodeInv DEF Scanner
    <2>7. CASE ts[h].status = "current" /\ known[h] # "Unknown"
      <3>1. /\ known' = [known EXCEPT ![h] = "Unknown"]
            /\ ts' = [s EXCEPT ![h] = SetUp(h, m, h \in resolving)]
            /\ UNCHANGED <<silent, pc>>
        BY <2>2, <2>6, <2>7
      <3>2. NodeInv(h, SetUp(h, m, h \in resolving))
        BY <2>5, SetUpInv
      <3>3. Scanner(ts')
        BY <2>6, <3>1, <3>2, OneNodeInv
      <3>4. ScannerInv'
        BY <1>1, <3>3 DEF ScannerInv, Scanner
      <3>5. known' \in [Hosts -> Known] /\ \A g \in Hosts : known'[g] = "Suitable" => known[g] = "Suitable"
        BY <1>0, <3>1 DEF MonitorTypeOK, Known
      <3>6. NoMissedServer'
        BY <1>0, <3>1, <3>5, NoMissedStatic
      <3>7. MonitorTypeOK' /\ RequestInv'
        BY <1>0, <1>1, <3>1, <3>5 DEF MonitorTypeOK, RequestInv, Waiting
      <3>8. QED
        BY <3>4, <3>6, <3>7 DEF MonitorInv
    <2>8. CASE ~(ts[h].status = "current" /\ known[h] # "Unknown")
      <3>1. ts' = Reconcile(s, known, resolving) /\ Broadcast /\ UNCHANGED known
        BY <2>2, <2>8
      <3>2. Scanner(Reconcile(s, known, resolving))
        BY <2>6, ReconcileInv
      <3>3. ScannerInv'
        BY <1>1, <3>1, <3>2 DEF ScannerInv, Scanner
      <3>4. MonitorTypeOK' /\ NoMissedServer' /\ RequestInv'
        BY <1>0, <1>1, <3>1, BroadcastFacts DEF MonitorTypeOK
      <3>5. QED
        BY <3>3, <3>4 DEF MonitorInv
    <2>9. QED
      BY <2>7, <2>8
  <1>3. CASE ~(ts[h].status # "retired" /\ ~ts[h].stream /\ Running(ts[h]) = {i})
    <2>1. ts' = [ts EXCEPT ![h].cmds[i] = "none"] /\ UNCHANGED <<known, silent, pc>>
      BY <1>3 DEF Fail
    <2>2. PICK m : m = [ts[h] EXCEPT !.cmds[i] = "none"]
      OBVIOUS
    <2>3. ts' = [ts EXCEPT ![h] = m]
      BY <2>1, <2>2
    <2>4. NodeInv(h, m)
      BY <1>0, <1>1, <1>3, <2>2, DroppedInv
    <2>5. Scanner([ts EXCEPT ![h] = m])
      BY <1>0, <2>4, OneNodeInv
    <2>6. ScannerInv'
      BY <1>1, <2>3, <2>5 DEF ScannerInv, Scanner
    <2>7. MonitorTypeOK' /\ NoMissedServer' /\ RequestInv'
      BY <1>0, <1>1, <2>1 DEF MonitorTypeOK, NoMissedServer, RequestInv, Waiting
    <2>8. QED
      BY <2>6, <2>7 DEF MonitorInv
  <1>4. QED
    BY <1>2, <1>3

\* A scan starts: every node is set up, those that were just added once more.
LEMMA StartScanFacts ==
    ASSUME MonitorInv, bg # "scan", NEW found, NEW resolving, StartScan(found, resolving)
    PROVE  /\ bg' = "scan" /\ requested' = FALSE /\ silent' = TRUE
           /\ Scanner(ts') /\ known' \in [Hosts -> Known]
           /\ \A h \in Hosts : known'[h] = "Suitable" => known[h] = "Suitable"
  <1>1. PICK r : r = Reconcile(ts, known, found)
    OBVIOUS
  <1>2. PICK s : s = DeleteRetired(r)
    OBVIOUS
  <1>3. /\ bg' = "scan" /\ requested' = FALSE /\ silent' = TRUE
        /\ ts' = [h \in Hosts |-> IF s[h].status = "none" THEN s[h] ELSE SetUp(h, s[h], h \in resolving)]
        /\ known' = [h \in Hosts |-> IF s[h].status = "current" /\ ~s[h].stream /\ h \notin resolving
                                     THEN "Unknown" ELSE known[h]]
    BY <1>1, <1>2 DEF StartScan
  <1>4. Scanner(ts) /\ \A h \in Hosts : Running(ts[h]) = {}
    BY DEF MonitorInv, ScannerInv
  <1>5. Scanner(r) /\ \A h \in Hosts : r[h].status # "retired" => Ready(r[h])
    BY <1>1, <1>4, ReconcileInv
  <1>6. Scanner(s) /\ \A h \in Hosts : (s[h] = r[h] /\ r[h].status # "retired") \/ s[h] = NoNode(h)
    BY <1>2, <1>5, DeleteRetiredInv
  <1>7. \A h \in Hosts : NodeInv(h, s[h]) /\ Ready(s[h])
    <2>1. \A h \in Hosts : Ready(NoNode(h))
      BY NewNodeInv DEF Ready, NoNode
    <2>2. QED
      BY <1>5, <1>6, <2>1 DEF Scanner
  <1>8. \A h \in Hosts : NodeInv(h, SetUp(h, s[h], h \in resolving))
    BY <1>7, SetUpInv
  <1>9. ts' = [h \in Hosts |-> ts'[h]] /\ \A h \in Hosts : NodeInv(h, ts'[h])
    BY <1>3, <1>7, <1>8
  <1>10. known \in [Hosts -> Known]
    BY DEF MonitorInv, MonitorTypeOK
  <1>11. known' \in [Hosts -> Known] /\ \A h \in Hosts : known'[h] = "Suitable" => known[h] = "Suitable"
    BY <1>3, <1>10 DEF Known
  <1>12. QED
    BY <1>3, <1>9, <1>11 DEF Scanner

LEMMA BackgroundStep ==
    ASSUME MonitorInv, Background
    PROVE  MonitorInv'
  <1>0. MonitorTypeOK /\ ScannerInv /\ NoMissedServer /\ RequestInv
    BY DEF MonitorInv
  <1>1. bg = "wait" /\ signalled' = FALSE /\ UNCHANGED <<elapsed, stopping, pc>>
    BY DEF Background
  <1>2. CASE stopping
    <2>1. bg' = "done" /\ UNCHANGED <<known, ts, deadline, requested, silent>>
      BY <1>2 DEF Background
    <2>2. QED
      BY <1>0, <1>1, <2>1 DEF MonitorInv, MonitorTypeOK, ScannerInv, Scanner, NoMissedServer, RequestInv, Waiting
  <1>3. CASE ~stopping /\ elapsed >= Due
    <2>1. PICK found \in Resolvable, resolving \in Resolvable : StartScan(found, resolving)
      BY <1>3 DEF Background
    <2>2. UNCHANGED deadline
      BY <1>3 DEF Background
    <2>3. /\ bg' = "scan" /\ requested' = FALSE /\ silent' = TRUE
          /\ Scanner(ts') /\ known' \in [Hosts -> Known]
          /\ \A h \in Hosts : known'[h] = "Suitable" => known[h] = "Suitable"
      BY <1>1, <2>1, StartScanFacts
    <2>4. NoMissedServer'
      BY <1>0, <1>1, <2>3, NoMissedStatic
    <2>5. ScannerInv'
      BY <2>3 DEF ScannerInv, Scanner
    <2>6. MonitorTypeOK'
      BY <1>0, <1>1, <2>2, <2>3 DEF MonitorTypeOK
    <2>7. RequestInv'
      BY <2>3 DEF RequestInv
    <2>8. QED
      BY <2>4, <2>5, <2>6, <2>7 DEF MonitorInv
  <1>4. CASE ~stopping /\ ~(elapsed >= Due)
    <2>1. deadline' = Due /\ UNCHANGED <<known, ts, bg, requested, silent>>
      BY <1>4 DEF Background
    <2>2. Due \in 0..2 /\ (requested => Due = 1)
      BY DEF Due
    <2>3. MonitorTypeOK' /\ ScannerInv' /\ NoMissedServer'
      BY <1>0, <1>1, <2>1, <2>2 DEF MonitorTypeOK, ScannerInv, Scanner, NoMissedServer
    <2>4. Waiting' <=> Waiting
      BY <1>1 DEF Waiting
    <2>5. RequestInv'
      BY <1>0, <1>1, <2>1, <2>2, <2>4 DEF RequestInv
    <2>6. QED
      BY <2>3, <2>5 DEF MonitorInv
  <1>5. QED
    BY <1>2, <1>3, <1>4

LEMMA FinishScanStep ==
    ASSUME MonitorInv, FinishScan
    PROVE  MonitorInv'
  <1>0. MonitorTypeOK /\ Scanner(ts) /\ NoMissedServer /\ RequestInv
    BY DEF MonitorInv, ScannerInv
  <1>1. /\ bg = "scan" /\ ts' = DeleteRetired(ts) /\ elapsed' = 0 /\ signalled' = FALSE
        /\ \A h \in Hosts : Running(ts[h]) = {}
        /\ UNCHANGED <<known, requested, stopping, silent, pc>>
        /\ \/ bg' = "wait" /\ deadline' = Due
           \/ bg' = "done" /\ UNCHANGED deadline
    BY DEF FinishScan
  <1>2. /\ Scanner(DeleteRetired(ts))
        /\ \A h \in Hosts : DeleteRetired(ts)[h] = ts[h] \/ DeleteRetired(ts)[h] = NoNode(h)
    BY <1>0, DeleteRetiredInv
  <1>3. \A h \in Hosts : Running(DeleteRetired(ts)[h]) = {}
    BY <1>1, <1>2, NewNodeInv
  <1>4. ScannerInv'
    BY <1>1, <1>2, <1>3 DEF ScannerInv, Scanner
  <1>5. Due \in 0..2 /\ (requested => Due = 1)
    BY DEF Due
  <1>6. MonitorTypeOK' /\ NoMissedServer'
    <2>1. deadline' \in 0..2 /\ elapsed' \in 0..2
      BY <1>0, <1>1, <1>5 DEF MonitorTypeOK
    <2>2. bg' \in {"off", "wait", "scan", "done"} /\ signalled' \in BOOLEAN
      BY <1>1, Zenon
    <2>3. QED
      BY <1>0, <1>1, <2>1, <2>2 DEF MonitorTypeOK, NoMissedServer
  <1>7. Waiting' <=> Waiting
    BY <1>1 DEF Waiting
  <1>8. RequestInv'
    BY <1>0, <1>1, <1>5, <1>7 DEF RequestInv
  <1>9. QED
    BY <1>4, <1>6, <1>8 DEF MonitorInv

\* The steps that leave the scanner alone.
LEMMA StartStopStep ==
    ASSUME MonitorInv, StartBackground \/ Tick \/ Stop
    PROVE  MonitorInv'
  <1>0. MonitorTypeOK /\ ScannerInv /\ NoMissedServer /\ RequestInv
    BY DEF MonitorInv
  <1>1. UNCHANGED <<known, ts, pc, silent, requested>> /\ (bg' = bg \/ (bg = "off" /\ bg' = "wait"))
    BY DEF StartBackground, Tick, Stop
  <1>2. ScannerInv' /\ NoMissedServer'
    BY <1>0, <1>1 DEF ScannerInv, Scanner, NoMissedServer
  <1>3. MonitorTypeOK' /\ RequestInv'
    <2>1. CASE StartBackground
      BY <1>0, <1>1, <2>1 DEF StartBackground, MonitorTypeOK, RequestInv, Waiting
    <2>2. CASE Tick
      BY <1>0, <1>1, <2>2 DEF Tick, MonitorTypeOK, RequestInv, Waiting
    <2>3. CASE Stop
      <3>1. ~Waiting /\ ~Waiting'
        BY <1>1, <2>3 DEF Stop, Waiting
      <3>2. QED
        BY <1>0, <1>1, <2>3, <3>1 DEF Stop, MonitorTypeOK, RequestInv
    <2>4. QED
      BY <2>1, <2>2, <2>3
  <1>5. QED
    BY <1>2, <1>3 DEF MonitorInv

LEMMA HandshakeStep ==
    ASSUME MonitorInv, NEW h \in Hosts, Handshake(h)
    PROVE  MonitorInv'
  <1>0. MonitorTypeOK /\ Scanner(ts) /\ ScannerInv
    BY DEF MonitorInv, ScannerInv
  <1>1. Broadcast /\ UNCHANGED <<bg, deadline, requested, elapsed, stopping, signalled>>
    BY DEF Handshake, bgVars
  <1>2. PICK t \in Replies(h) : known' = t /\ ts' = Left(ts, t)
    BY DEF Handshake
  <1>3. Scanner(Left(ts, t)) /\ \A g \in Hosts : Running(Left(ts, t)[g]) = Running(ts[g])
    BY <1>0, LeftInv
  <1>4. ScannerInv'
    BY <1>0, <1>1, <1>2, <1>3 DEF ScannerInv, Scanner
  <1>5. known' \in [Hosts -> Known]
    BY <1>0, <1>2, RepliesFacts
  <1>6. MonitorTypeOK' /\ NoMissedServer' /\ RequestInv'
    BY <1>0, <1>1, <1>5, BroadcastFacts DEF MonitorTypeOK
  <1>7. QED
    BY <1>4, <1>6 DEF MonitorInv

LEMMA InvalidateServerStep ==
    ASSUME MonitorInv, NEW h \in Hosts, InvalidateServer(h)
    PROVE  MonitorInv'
  <1>0. MonitorTypeOK /\ ScannerInv /\ NoMissedServer /\ RequestInv
    BY DEF MonitorInv
  <1>1. /\ known' = [known EXCEPT ![h] = "Unknown"]
        /\ UNCHANGED <<ts, bg, deadline, requested, elapsed, stopping, signalled, silent, pc>>
    BY DEF InvalidateServer, bgVars
  <1>2. known' \in [Hosts -> Known] /\ \A g \in Hosts : known'[g] = "Suitable" => known[g] = "Suitable"
    BY <1>0, <1>1 DEF MonitorTypeOK, Known
  <1>3. NoMissedServer'
    BY <1>0, <1>1, <1>2, NoMissedStatic
  <1>4. MonitorTypeOK' /\ ScannerInv' /\ RequestInv'
    BY <1>0, <1>1, <1>2 DEF MonitorTypeOK, ScannerInv, Scanner, RequestInv, Waiting
  <1>5. QED
    BY <1>3, <1>4 DEF MonitorInv

\* A thread that begins to wait asks for a scan.
LEMMA SelectStep ==
    ASSUME MonitorInv, NEW c \in Clients, Select(c)
    PROVE  MonitorInv'
  <1>0. MonitorTypeOK /\ ScannerInv /\ NoMissedServer /\ RequestInv
    BY DEF MonitorInv
  <1>1. bg # "off" /\ UNCHANGED <<known, ts, bg, deadline, elapsed, stopping, silent>>
    BY DEF Select
  <1>2. ScannerInv'
    BY <1>0, <1>1 DEF ScannerInv, Scanner
  <1>3. CASE \E h \in Hosts : known[h] = "Suitable"
    <2>1. pc' = [pc EXCEPT ![c] = "idle"] /\ UNCHANGED <<requested, signalled>>
      BY <1>3 DEF Select
    <2>2. pc' \in [Clients -> {"idle", "waiting", "woken"}] /\ (Waiting' => Waiting)
      BY <1>0, <2>1 DEF MonitorTypeOK, Waiting
    <2>3. ~Waiting'
      BY <1>0, <1>3, <2>2 DEF NoMissedServer, Waiting
    <2>4. MonitorTypeOK' /\ NoMissedServer' /\ RequestInv'
      BY <1>0, <1>1, <2>1, <2>2, <2>3 DEF MonitorTypeOK, NoMissedServer, RequestInv, Waiting
    <2>5. QED
      BY <1>2, <2>4 DEF MonitorInv
  <1>4. CASE ~\E h \in Hosts : known[h] = "Suitable"
    <2>1. pc' = [pc EXCEPT ![c] = "waiting"] /\ requested' = TRUE /\ signalled' = (bg = "wait")
      BY <1>4 DEF Select, RequestScan
    <2>2. pc' \in [Clients -> {"idle", "waiting", "woken"}]
      BY <1>0, <2>1 DEF MonitorTypeOK
    <2>3. (bg = "wait") \in BOOLEAN
      OBVIOUS
    <2>4. MonitorTypeOK'
      BY <1>0, <1>1, <2>1, <2>2, <2>3 DEF MonitorTypeOK
    <2>5. NoMissedServer' /\ RequestInv'
      BY <1>1, <1>4, <2>1 DEF NoMissedServer, RequestInv
    <2>6. QED
      BY <1>2, <2>4, <2>5 DEF MonitorInv
  <1>5. QED
    BY <1>3, <1>4

LEMMA ExpireStep ==
    ASSUME MonitorInv, NEW c \in Clients, Expire(c)
    PROVE  MonitorInv'
  <1>0. MonitorTypeOK /\ ScannerInv /\ NoMissedServer /\ RequestInv
    BY DEF MonitorInv
  <1>1. /\ pc' = [pc EXCEPT ![c] = "idle"]
        /\ UNCHANGED <<known, ts, bg, deadline, requested, elapsed, stopping, signalled, silent>>
    BY DEF Expire, bgVars
  <1>2. pc' \in [Clients -> {"idle", "waiting", "woken"}] /\ (Waiting' => Waiting)
    BY <1>0, <1>1 DEF MonitorTypeOK, Waiting
  <1>3. MonitorTypeOK' /\ ScannerInv' /\ RequestInv'
    BY <1>0, <1>1, <1>2 DEF MonitorTypeOK, ScannerInv, Scanner, RequestInv
  <1>4. NoMissedServer'
    BY <1>0, <1>1, <1>2 DEF NoMissedServer, Waiting
  <1>5. QED
    BY <1>3, <1>4 DEF MonitorInv

LEMMA MonitorInitInv == MonitorInit => MonitorInv
  <1> SUFFICES ASSUME MonitorInit PROVE MonitorInv
    OBVIOUS
  <1>1. MonitorTypeOK
    <2>1. known \in [Hosts -> Known] /\ pc \in [Clients -> {"idle", "waiting", "woken"}]
      BY DEF MonitorInit, Known
    <2>2. deadline \in 0..2 /\ elapsed \in 0..2
      BY DEF MonitorInit
    <2>3. /\ bg \in {"off", "wait", "scan", "done"}
          /\ requested \in BOOLEAN /\ stopping \in BOOLEAN /\ signalled \in BOOLEAN /\ silent \in BOOLEAN
      BY Zenon DEF MonitorInit
    <2>4. QED
      BY <2>1, <2>2, <2>3 DEF MonitorTypeOK
  <1>2. \A h \in Hosts : ts[h] = NewNode(h) \/ ts[h] = NoNode(h)
    BY DEF MonitorInit
  <1>3. ts = [h \in Hosts |-> ts[h]]
    BY DEF MonitorInit
  <1>4. ScannerInv
    BY <1>2, <1>3, NewNodeInv DEF ScannerInv, Scanner
  <1>5. ~Waiting
    BY DEF MonitorInit, Waiting
  <1>6. NoMissedServer /\ RequestInv
    BY <1>5 DEF NoMissedServer, RequestInv, Waiting
  <1>7. QED
    BY <1>1, <1>4, <1>6 DEF MonitorInv

LEMMA MonitorNextInv == MonitorInv /\ [MonitorNext]_monitorVars => MonitorInv'
  <1> SUFFICES ASSUME MonitorInv, [MonitorNext]_monitorVars PROVE MonitorInv'
    OBVIOUS
  <1>1. CASE StartBackground \/ Tick \/ Stop
    BY <1>1, StartStopStep
  <1>2. CASE Background
    BY <1>2, BackgroundStep
  <1>3. CASE FinishScan
    BY <1>3, FinishScanStep
  <1>4. CASE \E h \in Hosts : Handshake(h)
    BY <1>4, HandshakeStep
  <1>5. CASE \E h \in Hosts : InvalidateServer(h)
    BY <1>5, InvalidateServerStep
  <1>6. ASSUME NEW h \in Hosts, NEW i \in Indices(h), Async(h, i) PROVE MonitorInv'
    BY <1>6, ConnectedStep, SuccessStep, FailStep DEF Async
  <1>7. CASE \E c \in Clients : Select(c)
    BY <1>7, SelectStep
  <1>8. CASE \E c \in Clients : Expire(c)
    BY <1>8, ExpireStep
  <1>9. CASE UNCHANGED monitorVars
    BY <1>9 DEF monitorVars, bgVars, MonitorInv, MonitorTypeOK, ScannerInv, Scanner, NoMissedServer, RequestInv, Waiting
  <1>10. QED
    BY <1>1, <1>2, <1>3, <1>4, <1>5, <1>6, <1>7, <1>8, <1>9 DEF MonitorNext

\* The invariant behind the results on monitoring: every node of the scanner is
\* right, a scan that was asked for is not forgotten, nobody sleeps through a
\* server that can be selected.
THEOREM MonitorInvTheorem == MonitorSpec => []MonitorInv
  <1>1. QED
    BY MonitorInitInv, MonitorNextInv, PTL DEF MonitorSpec

\* No thread stays parked in cond_client of mongoc_topology_select_server_id
\* while there is a server it could be given.
THEOREM NoMissedServerTheorem == MonitorSpec => []NoMissedServer
  <1>1. MonitorInv => NoMissedServer
    BY DEF MonitorInv
  <1>2. QED
    BY <1>1, MonitorInvTheorem, PTL

\* While threads wait, _mongoc_topology_run_background scans or looks again as
\* soon as minHeartbeatFrequencyMS allows, but after a scan without a wake-up.
THEOREM PromptScanTheorem == MonitorSpec => []PromptScan
  <1>1. MonitorInv => PromptScan
    BY DEF MonitorInv, RequestInv, Waiting, PromptScan
  <1>2. QED
    BY <1>1, MonitorInvTheorem, PTL

\* A node of the scanner reports one outcome, whatever the number of its
\* addresses and of its setups, and BSON_ASSERT (!node->stream) holds.
THEOREM OneOutcomeTheorem == MonitorSpec => []OneOutcome
  <1>1. MonitorInv => OneOutcome
    <2> SUFFICES ASSUME MonitorInv, NEW h \in Hosts
                 PROVE  /\ ts[h].owed \in {0, 1}
                        /\ (ts[h].status = "current" /\ bg # "scan") => ts[h].owed = 0
                        /\ ts[h].stream => \A i \in Running(ts[h]) : ts[h].cmds[i] = "canceled"
      BY DEF OneOutcome
    <2>1. NodeInv(h, ts[h]) /\ (bg # "scan" => Running(ts[h]) = {})
      BY DEF MonitorInv, ScannerInv, Scanner
    <2>2. ts[h] \in Nodes(h) /\ DOMAIN ts[h].cmds = Indices(h)
      BY <2>1 DEF NodeInv, Nodes
    <2>3. ts[h].owed \in {0, 1}
      BY <2>2 DEF Nodes
    <2>4. (ts[h].status = "current" /\ bg # "scan") => ts[h].owed = 0
      BY <2>1 DEF NodeInv
    <2>5. ts[h].stream => \A i \in Running(ts[h]) : ts[h].cmds[i] = "canceled"
      BY <2>1, <2>2 DEF NodeInv, Nodes, Running, Live, Phases
    <2>6. QED
      BY <2>3, <2>4, <2>5
  <1>2. QED
    BY <1>1, MonitorInvTheorem, PTL

=============================================================================
