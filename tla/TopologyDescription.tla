------------------------- MODULE TopologyDescription -------------------------
(***************************************************************************)
(* Server discovery (mongoc-topology-description.c and the ismaster        *)
(* handler of mongoc-server-description.c).  The description `td` is only   *)
(* changed by mongoc_topology_description_handle_ismaster, under the        *)
(* topology's mutex, but the replies it is given come from scanner sockets *)
(* and from the handshakes of pooled connections, so replies of one server *)
(* and of several servers arrive stale and in any order.                   *)
(*                                                                         *)
(* The deployment is external: a replica set "rs" whose configuration of   *)
(* version v has the members Config[v] and whose election e was won by      *)
(* Winner[e]; Alias[a] is the member reached at address a (an address that *)
(* is not in the configuration reaches a member under another name, or     *)
(* nothing).  Any server may send any reply it could have sent at any      *)
(* earlier time; once `stable` holds they all report the last election.    *)
(***************************************************************************)
EXTENDS Integers, FiniteSets, FiniteSetsExt

CONSTANTS Addresses,      \* host:port strings
          None,           \* NULL: no set name, no primary, no timeout
          Config,         \* setVersion -> addresses of the members
          Winner,         \* electionId -> the member that won it
          Alias,          \* address -> member answering there, or None
          Timeout,        \* address -> logicalSessionTimeoutMinutes, or None
          Incompatible,   \* addresses whose wire versions do not fit ours
          Strangers,      \* addresses that may also answer as something else
          MaxTime         \* greatest $clusterTime gossiped

VARIABLES td,       \* mongoc_topology_description_t
          shown,    \* history: <<setVersion, electionId>> of the last primary shown
          stable    \* external: no more elections, reconfigurations, late replies

vars == <<td, shown, stable>>

LastVersion == Max(DOMAIN Config)
LastElection == Max(DOMAIN Winner)

ASSUME DeploymentAssumption ==
  /\ DOMAIN Config \subseteq Nat \ {0} /\ DOMAIN Winner \subseteq Nat \ {0}
  /\ \A v \in DOMAIN Config : Config[v] \subseteq Addresses
  /\ \A e \in DOMAIN Winner : Winner[e] \in Addresses
  /\ \A a \in Addresses : a \in UNION {Config[v] : v \in DOMAIN Config} => Alias[a] = a
  /\ LastVersion \in DOMAIN Config /\ Winner[LastElection] \in Config[LastVersion]
  /\ LastElection \in DOMAIN Winner
  /\ None \notin Addresses \cup {"rs", "other"}
  /\ IsFiniteSet(Addresses)

NoSetVersion == -1
NoElection == 0      \* the all-zero ObjectId

(***************************************************************************)
(* Server descriptions and the replies they are made from.                 *)
(***************************************************************************)
UnknownServer == [type |-> "Unknown", setName |-> None, setVersion |-> NoSetVersion,
                  electionId |-> NoElection, timeout |-> None]

\* The fields of an ismaster reply that a description or a transition uses.
BlankReply == [msg |-> FALSE, setName |-> None, hidden |-> FALSE, ismaster |-> FALSE,
               secondary |-> FALSE, arbiterOnly |-> FALSE, isreplicaset |-> FALSE,
               setVersion |-> NoSetVersion, electionId |-> NoElection, hosts |-> {},
               me |-> None, primary |-> None, timeout |-> None, clusterTime |-> 0,
               ok |-> TRUE, received |-> TRUE]

\* NULL reply: the command failed, or the application lost a connection.
NoReply == [BlankReply EXCEPT !.ok = FALSE, !.received = FALSE]

\* The server type that the flags of a reply amount to.
TypeOf(r) ==
  IF ~r.ok THEN "Unknown"
  ELSE IF r.msg THEN "Mongos"
  ELSE IF r.setName # None
       THEN IF r.hidden THEN "RSOther"
            ELSE IF r.ismaster THEN "RSPrimary"
            ELSE IF r.secondary THEN "RSSecondary"
            ELSE IF r.arbiterOnly THEN "RSArbiter" ELSE "RSOther"
  ELSE IF r.isreplicaset THEN "RSGhost" ELSE "Standalone"

\* mongoc_server_description_handle_ismaster: everything is reset, then read again.
Describe(r) ==
  [type |-> TypeOf(r), setName |-> r.setName, setVersion |-> r.setVersion,
   electionId |-> r.electionId, timeout |-> r.timeout]

(***************************************************************************)
(* Helpers on descriptions.                                                *)
(***************************************************************************)
Members(t) == DOMAIN t.servers
DataTypes == {"Mongos", "Standalone", "RSSecondary", "RSPrimary"}
IsDataNode(s) == s.type \in DataTypes

HasPrimary(t) == \E a \in Members(t) : t.servers[a].type \in {"RSPrimary", "Standalone"}

RemoveServers(t, A) ==
  [t EXCEPT !.servers = [a \in Members(t) \ A |-> t.servers[a]]]

AddServers(t, A) ==
  [t EXCEPT !.servers = [a \in Members(t) \cup A |->
                          IF a \in Members(t) THEN t.servers[a] ELSE UnknownServer]]

UpdateRsType(t) ==
  [t EXCEPT !.type = IF HasPrimary(t) THEN "RSWithPrimary" ELSE "RSNoPrimary"]

LabelPossiblePrimary(t, p) ==
  IF p \in Members(t) /\ t.servers[p].type = "Unknown"
  THEN [t EXCEPT !.servers[p].type = "PossiblePrimary"] ELSE t

\* Mutant: only the set version is compared.
LaterElectionByVersion(t, s) == t.maxSetVersion > s.setVersion

LaterElection(t, s) ==
  \/ t.maxSetVersion > s.setVersion
  \/ (t.maxSetVersion = s.setVersion /\ t.maxElectionId > s.electionId)

MatchesMe(a, r) == r.me \in {None, a}

(***************************************************************************)
(* The transitions of gSDAMTransitionTable: from a description in which    *)
(* server `a` already has its new type, and the reply it came from.        *)
(***************************************************************************)
\* Mutant: the rivals stay.
AcceptPrimaryOnly(t, a, r) ==
  UpdateRsType([t EXCEPT !.maxElectionId = r.electionId, !.maxSetVersion = r.setVersion,
                         !.servers = [b \in r.hosts |-> IF b \in DOMAIN @ THEN @[b] ELSE UnknownServer]])

\* The member is shown as primary: its election is remembered, its rivals are
\* invalidated (no event is published for them), the servers it reports are
\* added and the ones it does not report, itself included, removed.
AcceptPrimary(t, a, r) ==
  UpdateRsType(
    [t EXCEPT
       !.maxElectionId = IF r.setVersion # NoSetVersion /\ r.electionId # NoElection
                         THEN r.electionId ELSE @,
       !.maxSetVersion = Max({@, r.setVersion}),
       !.servers = [b \in r.hosts |->
                      IF b \notin DOMAIN @ THEN UnknownServer
                      ELSE IF b # a /\ @[b].type = "RSPrimary"
                      THEN [@[b] EXCEPT !.type = "Unknown", !.setVersion = NoSetVersion,
                                        !.electionId = NoElection]
                      ELSE @[b]]])

UpdateRsFromPrimary(t, a, r) ==
  IF t.setName \notin {None, r.setName} THEN UpdateRsType(RemoveServers(t, {a}))
  ELSE IF /\ r.setVersion # NoSetVersion /\ r.electionId # NoElection
          /\ LaterElection(t, r)
  THEN UpdateRsType([t EXCEPT !.servers[a] = UnknownServer, !.setName = r.setName])
  ELSE AcceptPrimary([t EXCEPT !.setName = r.setName], a, r)

\* Mutants: the set name is not compared; the member's hosts are not added.
UpdateRsAnySet(t, a, r) ==
  LabelPossiblePrimary(AddServers([t EXCEPT !.setName = r.setName], r.hosts), r.primary)

UpdateRsKnownHosts(t, a, r) ==
  IF t.setName \notin {None, r.setName} \/ ~MatchesMe(a, r) THEN RemoveServers(t, {a})
  ELSE LabelPossiblePrimary([t EXCEPT !.setName = r.setName], r.primary)

UpdateRsWithoutPrimary(t, a, r) ==
  IF t.setName \notin {None, r.setName} THEN RemoveServers(t, {a})
  ELSE LET grown == LabelPossiblePrimary(
                      AddServers([t EXCEPT !.setName = r.setName], r.hosts), r.primary)
       IN  IF MatchesMe(a, r) THEN grown ELSE RemoveServers(grown, {a})

\* Mutant: a member's hosts are added although a primary is known.
UpdateRsAddFromMember(t, a, r) == UpdateRsWithoutPrimary(t, a, r)

UpdateRsWithPrimaryFromMember(t, a, r) ==
  IF t.setName # r.setName THEN UpdateRsType(RemoveServers(t, {a}))
  ELSE IF ~MatchesMe(a, r) THEN RemoveServers(t, {a})
  ELSE IF ~HasPrimary(t) /\ r.primary # None
  THEN LabelPossiblePrimary([t EXCEPT !.type = "RSNoPrimary"], r.primary)
  ELSE t

UpdateUnknownWithStandalone(t, a) ==
  IF Cardinality(Members(t)) > 1 THEN RemoveServers(t, {a})
  ELSE [t EXCEPT !.type = "Single"]

MemberTypes == {"RSSecondary", "RSArbiter", "RSOther"}

Transition(t, a, r) ==
  LET type == t.servers[a].type IN
  CASE t.type = "Single" -> t
    [] t.type = "RSWithPrimary" /\ type \in {"Unknown", "RSGhost"} -> UpdateRsType(t)
    [] t.type = "Unknown" /\ type = "Standalone" -> UpdateUnknownWithStandalone(t, a)
    [] t.type = "Unknown" /\ type = "Mongos" -> [t EXCEPT !.type = "Sharded"]
    [] t.type \notin {"Single", "Sharded"} /\ type = "RSPrimary" -> UpdateRsFromPrimary(t, a, r)
    [] t.type = "Unknown" /\ type \in MemberTypes ->
         UpdateRsWithoutPrimary([t EXCEPT !.type = "RSNoPrimary"], a, r)
    [] t.type = "RSNoPrimary" /\ type \in MemberTypes -> UpdateRsWithoutPrimary(t, a, r)
    [] t.type = "RSWithPrimary" /\ type \in MemberTypes ->
         UpdateRsWithPrimaryFromMember(t, a, r)
    [] t.type = "Sharded" /\ type \notin {"Unknown", "Mongos"} -> RemoveServers(t, {a})
    [] t.type = "RSNoPrimary" /\ type \in {"Standalone", "Mongos"} -> RemoveServers(t, {a})
    [] t.type = "RSWithPrimary" /\ type \in {"Standalone", "Mongos"} ->
         UpdateRsType(RemoveServers(t, {a}))
    [] OTHER -> t

UpdateClusterTime(t, r) == [t EXCEPT !.clusterTime = Max({@, r.clusterTime})]

UpdateSessionTimeout(t) ==
  LET values == {t.servers[a].timeout : a \in {x \in Members(t) : IsDataNode(t.servers[x])}}
  IN  [t EXCEPT !.timeout = IF values = {} \/ None \in values THEN None ELSE Min(values)]

\* Recomputed from a reply that came without an error only.
CheckCompatible(t) ==
  [t EXCEPT !.compatible = \A a \in Members(t) \cap Incompatible :
                              t.servers[a].type \in {"Unknown", "PossiblePrimary"}]

(***************************************************************************)
(* mongoc_topology_description_handle_ismaster.                            *)
(***************************************************************************)
HandleIsMaster(t, a, r) ==
  LET described == UpdateClusterTime([t EXCEPT !.servers[a] = Describe(r)], r)
      moved == UpdateSessionTimeout(Transition(described, a, r))
  IN  IF r.received THEN CheckCompatible(moved) ELSE moved

Primaries(t) == {a \in Members(t) : t.servers[a].type = "RSPrimary"}
ElectionOf(t, a) == <<t.servers[a].setVersion, t.servers[a].electionId>>

ShowsPrimary(t) == t.type = "RSWithPrimary" /\ Primaries(t) # {}

\* A reply to an id that is no longer in the description is dropped.
Deliver(a, r) ==
  /\ a \in Members(td)
  /\ \E t \in {HandleIsMaster(td, a, r)} :
       /\ td' = t
       /\ shown' = IF ShowsPrimary(t)
                   THEN ElectionOf(t, CHOOSE p \in Primaries(t) : TRUE) ELSE shown
  /\ UNCHANGED stable

(***************************************************************************)
(* The replies the deployment can produce.                                 *)
(***************************************************************************)
MemberReply(a, v) ==
  [BlankReply EXCEPT !.setName = "rs", !.setVersion = v, !.hosts = Config[v],
                     !.me = Alias[a], !.timeout = Timeout[a]]

PrimaryReply(a, v, e) ==
  [MemberReply(a, v) EXCEPT !.ismaster = TRUE, !.electionId = e, !.primary = Alias[a]]

SecondaryReply(a, v, p) == [MemberReply(a, v) EXCEPT !.secondary = TRUE, !.primary = p]

PrimaryReplies(a) ==
  {PrimaryReply(a, v, e) :
      v \in {w \in DOMAIN Config : Alias[a] \in Config[w]},
      e \in {f \in DOMAIN Winner : Winner[f] = Alias[a]}}

SecondaryReplies(a) ==
  {SecondaryReply(a, v, p) :
      v \in {w \in DOMAIN Config : Alias[a] \in Config[w]},
      p \in {None} \cup {Winner[e] : e \in DOMAIN Winner}}

\* A removed member, a misconfigured host, another set behind the same address.
StrangeReplies(a) ==
  {[BlankReply EXCEPT !.ok = FALSE],
   [BlankReply EXCEPT !.isreplicaset = TRUE],
   [BlankReply EXCEPT !.timeout = Timeout[a]],
   [BlankReply EXCEPT !.msg = TRUE, !.timeout = Timeout[a]],
   [BlankReply EXCEPT !.setName = "other", !.ismaster = TRUE, !.hosts = {a}, !.me = a],
   [BlankReply EXCEPT !.setName = "other", !.arbiterOnly = TRUE, !.hosts = {a}, !.me = a],
   [BlankReply EXCEPT !.setName = "rs", !.hidden = TRUE, !.hosts = Config[LastVersion]]}

Answers(a) ==
  {[r EXCEPT !.clusterTime = c] : c \in 0..MaxTime,
     r \in PrimaryReplies(a) \cup SecondaryReplies(a)
           \cup (IF a \in Strangers THEN StrangeReplies(a) ELSE {})}

CurrentReply(a) ==
  IF Alias[a] \notin Config[LastVersion] THEN NoReply
  ELSE [MemberReply(a, LastVersion) EXCEPT
          !.ismaster = Alias[a] = Winner[LastElection],
          !.secondary = ~(Alias[a] = Winner[LastElection]),
          !.electionId = IF Alias[a] = Winner[LastElection] THEN LastElection ELSE NoElection,
          !.primary = Winner[LastElection]]

(***************************************************************************)
(* Specification.                                                          *)
(***************************************************************************)
\* mongoc_topology_new: the type follows from the URI's options and seed list.
\* A set's name comes with type Unknown from an SRV URI, and no name with
\* RSNoPrimary if the name is in the TXT record and directConnection is false.
NewDescription(seeds, type, name) ==
  [type |-> type, setName |-> name, maxSetVersion |-> NoSetVersion,
   maxElectionId |-> NoElection, servers |-> [a \in seeds |-> UnknownServer],
   clusterTime |-> 0, timeout |-> None, compatible |-> TRUE]

InitialTypes(seeds) ==
  {"Unknown", "RSNoPrimary"} \cup (IF Cardinality(seeds) = 1 THEN {"Single"} ELSE {})

Init ==
  /\ \E seeds \in SUBSET Addresses \ {{}}, name \in {None, "rs"} :
       \E type \in InitialTypes(seeds) : td = NewDescription(seeds, type, name)
  /\ shown = <<NoSetVersion, NoElection>>
  /\ stable = FALSE

\* A reply to a scan or a handshake, of any age.
Reply(a) == ~stable /\ \E r \in Answers(a) : Deliver(a, r)

\* The command failed, or mongoc_topology_invalidate_server after a network error.
Invalidate(a) == ~stable /\ Deliver(a, NoReply)

Settle == ~stable /\ stable' = TRUE /\ UNCHANGED <<td, shown>>

\* A scan of the settled deployment.
Scan(a) == stable /\ \E r \in {CurrentReply(a)} : Deliver(a, r)

Next == Settle \/ \E a \in Addresses : Reply(a) \/ Invalidate(a) \/ Scan(a)

Spec == Init /\ [][Next]_vars

\* The background thread scans every known server on every heartbeat.
FairSpec == Spec /\ \A a \in Addresses : WF_vars(Scan(a))

(***************************************************************************)
(* Properties.                                                             *)
(***************************************************************************)
\* Two members never appear as primary at once, although during an election
\* both may say they are (update_rs_from_primary invalidates the other one).
AtMostOnePrimary == Cardinality(Primaries(td)) <= 1

\* A stale primary never comes back, not even after a time without a primary:
\* compared with the last primary shown, the one shown now does not report a
\* lesser setVersion, nor a lesser electionId unless its setVersion is greater
\* (later_election).  So among primaries of one configuration the client never
\* goes back to the older one; across a reconfiguration the code does accept a
\* lesser electionId, although update_rs_from_primary says that it "distrusts
\* primaries with lesser electionIds".
NoStalePrimary ==
  [][ShowsPrimary(td') =>
       \A p \in Primaries(td') :
         LET now == ElectionOf(td', p) IN
         /\ now[1] >= shown[1]
         /\ now[2] < shown[2] => now[1] > shown[1]]_vars

\* While a primary is known the description holds no server outside the
\* configuration that primary reported, whatever members said before or since.
MembersOfPrimary ==
  td.type = "RSWithPrimary" =>
    \A p \in Primaries(td) :
      td.servers[p].setVersion # NoSetVersion => Members(td) \subseteq Config[td.servers[p].setVersion]

\* In a replica set topology every described member belongs to the set the
\* topology is named after, and that name is known wherever
\* update_rs_with_primary_from_member compares it ("set_name should never be null here").
OneSet ==
  /\ td.type = "RSWithPrimary" => td.setName # None
  /\ td.type \in {"RSNoPrimary", "RSWithPrimary"} =>
       \A a \in Members(td) : td.servers[a].setName \in {None, td.setName}

Discovered ==
  /\ td.type = "RSWithPrimary"
  /\ Members(td) = Config[LastVersion]
  /\ Primaries(td) = {Winner[LastElection]}

\* Once elections and reconfigurations stop, heartbeats make any replica set
\* topology that still reaches one member find all of them and the primary,
\* whatever stale replies it had processed before.
Converges ==
  (/\ stable /\ td.type \notin {"Single", "Sharded"} /\ td.setName \in {None, "rs"}
   /\ \E a \in Members(td) : Alias[a] \in Config[LastVersion]) ~> Discovered

==============================================================================
