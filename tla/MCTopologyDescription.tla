------------------------ MODULE MCTopologyDescription ------------------------
\* Three members and a seed that is another name of the first one; the set
\* first grows, then drops its first member, and each member won an election.
EXTENDS TopologyDescription, TLC

CONSTANTS a, b, c, s

MCConfig == 1 :> {a, b} @@ 2 :> {a, b, c} @@ 3 :> {b, c}
MCWinner == 1 :> a @@ 2 :> b @@ 3 :> c
MCAlias == a :> a @@ b :> b @@ c :> c @@ s :> a
MCTimeout == a :> 30 @@ b :> 20 @@ c :> 30 @@ s :> None
==============================================================================
