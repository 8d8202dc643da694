-------------------------- MODULE MCTopologyMonitor --------------------------
\* A seed and a host discovered later.  A node that is set up twice has two
\* commands at once, as one whose name resolves to two addresses has.
EXTENDS TopologyMonitor, TLC

CONSTANTS h1, h2

MCResults == h1 :> 1 @@ h2 :> 1
==============================================================================
