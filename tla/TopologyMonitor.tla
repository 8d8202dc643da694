--------------------------- MODULE TopologyMonitor ---------------------------
(***************************************************************************)
(* Monitoring and server selection of a pooled client: the background      *)
(* thread of mongoc-topology.c, the scanner's nodes and their async        *)
(* commands (mongoc-topology-scanner.c, mongoc-async.c, mongoc-async-cmd.c) *)
(* and the threads waiting in mongoc_topology_select_server_id.  Each      *)
(* action is one critical section under topology->mutex, or one step of    *)
(* the scan, which runs with the mutex released and takes it in callbacks. *)
(*                                                                         *)
(* A description is abstracted to what selection asks of each host:        *)
(* "absent", "Unknown", "Other" (known, not selectable) or "Suitable"; a   *)
(* reply of one host may change it in every way TopologyDescription allows.*)
(* Time is counted from the end of the last scan: 0, then 1 once            *)
(* minHeartbeatFrequencyMS has passed, 2 once heartbeatFrequencyMS has.     *)
(***************************************************************************)
EXTENDS Integers

CONSTANTS Hosts,
          Seeds,       \* hosts of the URI
          Clients,     \* application threads
          Results,     \* host -> number of addresses its name resolves to
          Flaky        \* hosts whose name sometimes does not resolve

ASSUME MonitorAssumption ==
  /\ Seeds \subseteq Hosts /\ Seeds # {}
  /\ Results \in [Hosts -> Nat \ {0}] /\ Flaky \subseteq Hosts

\* The hosts whose names resolve, each time anew.
Resolvable == {R \in SUBSET Hosts : Hosts \ R \subseteq Flaky}

VARIABLES known,       \* host -> what selection knows of it
          ts,          \* host -> its scanner node, a record
          bg,          \* background thread: off, wait, scan, done
          deadline,    \* elapsed time until which bg waits on cond_server
          signalled,   \* cond_server was signalled since bg began to wait
          requested,   \* topology->scan_requested
          elapsed,     \* time since the last scan
          silent,      \* history: no broadcast since the last scan began
          stopping,    \* scanner_state is SHUTTING_DOWN
          pc           \* client -> idle, waiting (in cond_client), woken

bgVars == <<bg, deadline, requested, elapsed, stopping>>
monitorVars == <<known, ts, bgVars, signalled, silent, pc>>

(***************************************************************************)
(* A node: "none", "current", "stale" (its id left the description) or     *)
(* "retired"; the phases of its async commands, one per resolved address,  *)
(* with room for a second set; whether it holds a connected stream; and    *)
(* the outcomes it owes the topology since it was set up.                  *)
(***************************************************************************)
Indices(h) == 1..(2 * Results[h])
FirstSet(h) == 1..Results[h]
Idle(h) == [i \in Indices(h) |-> "none"]
NoNode(h) == [status |-> "none", cmds |-> Idle(h), stream |-> FALSE, owed |-> 0]
NewNode(h) == [NoNode(h) EXCEPT !.status = "current"]
Running(n) == {i \in DOMAIN n.cmds : n.cmds[i] # "none"}
Cancel(c, keep) == [i \in DOMAIN c |-> IF i \in keep \/ c[i] = "none" THEN c[i] ELSE "canceled"]

\* mongoc_topology_scanner_node_setup: a command on the stream the node has, or
\* one per address, whether or not it has commands already; the setup of a name
\* that does not resolve fails at once.  A node that remembers an address that
\* worked tries that one only, which is as if the others failed first.
SetUp(h, n, resolves) ==
  LET set == IF Running(n) = {} THEN FirstSet(h) ELSE Indices(h) \ FirstSet(h) IN
  IF n.stream THEN [n EXCEPT !.stream = FALSE, !.owed = 1, !.cmds[1] = "connecting"]
  ELSE IF resolves
  THEN [n EXCEPT !.owed = 1, !.cmds = [i \in Indices(h) |-> IF i \in set THEN "connecting" ELSE @[i]]]
  ELSE n

Retire(n) == [n EXCEPT !.status = "retired", !.cmds = Cancel(@, {})]

\* mongoc_topology_reconcile: a host without a node gets one that is scanned at
\* once, unless a node of an earlier id is still there; nodes whose id left go.
Reconcile(s, t, resolving) ==
  [h \in Hosts |->
     IF s[h].status = "none" /\ t[h] # "absent" THEN SetUp(h, NewNode(h), h \in resolving)
     ELSE IF s[h].status = "stale" THEN Retire(s[h]) ELSE s[h]]

DeleteRetired(s) == [h \in Hosts |-> IF s[h].status = "retired" THEN NoNode(h) ELSE s[h]]

ScannerValid(s) == \E h \in Hosts : s[h].status # "none"

MonitorInit ==
  /\ known = [h \in Hosts |-> IF h \in Seeds THEN "Unknown" ELSE "absent"]
  /\ ts = [h \in Hosts |-> IF h \in Seeds THEN NewNode(h) ELSE NoNode(h)]
  /\ bg = "off" /\ deadline = 0 /\ requested = FALSE /\ elapsed = 2 /\ stopping = FALSE
  /\ signalled = FALSE /\ silent = FALSE
  /\ pc = [c \in Clients |-> "idle"]

(***************************************************************************)
(* The description after a reply of h: h is described anew or removed,      *)
(* others are added, removed or invalidated.  A host that leaves makes its  *)
(* node stale, and has a new id when it returns.                           *)
(***************************************************************************)
Replies(h) ==
  {t \in [Hosts -> {"absent", "Unknown", "Other", "Suitable"}] :
     t[h] # "Unknown" /\ \A g \in Hosts \ {h} : t[g] \in {known[g], "Unknown", "absent"}}

Left(s, t) ==
  [h \in Hosts |-> IF s[h].status = "current" /\ t[h] = "absent"
                   THEN [s[h] EXCEPT !.status = "stale"] ELSE s[h]]

Broadcast ==
  /\ pc' = [c \in Clients |-> IF pc[c] = "waiting" THEN "woken" ELSE pc[c]]
  /\ silent' = FALSE

(***************************************************************************)
(* The scan: steps of mongoc_async_run and its callbacks.                  *)
(***************************************************************************)
\* Mutant: the commands to the host's other addresses go on.
ConnectedAlone(h, i) ==
  /\ ts[h].cmds[i] = "connecting"
  /\ ts' = [ts EXCEPT ![h].cmds[i] = "sent"]
  /\ UNCHANGED <<known, bgVars, signalled, silent, pc>>

\* The first command to connect cancels the others; those may not even have been
\* initiated, the addresses of a host being tried 250 ms apart.
Connected(h, i) ==
  /\ ts[h].cmds[i] = "connecting"
  /\ ts' = [ts EXCEPT ![h].cmds = [Cancel(@, {i}) EXCEPT ![i] = "sent"]]
  /\ UNCHANGED <<known, bgVars, signalled, silent, pc>>

\* The reply arrived: _async_success and _mongoc_topology_scanner_cb.
Success(h, i) ==
  /\ ts[h].cmds[i] = "sent"
  /\ \E t \in IF ts[h].status = "current" THEN Replies(h) ELSE {known}, resolving \in Resolvable :
       LET s == [ts EXCEPT ![h].cmds[i] = "none", ![h].stream = TRUE, ![h].owed = @ - 1]
       IN  known' = t /\ ts' = Reconcile(Left(s, t), t, resolving)
  /\ Broadcast
  /\ UNCHANGED <<bgVars, signalled>>

\* Mutant: a server that keeps failing is tried again and again.
NodeFailedRetry(h, i) ==
  \E resolving \in Resolvable :
    /\ known' = [known EXCEPT ![h] = "Unknown"]
    /\ ts' = [ts EXCEPT ![h] = SetUp(h, [@ EXCEPT !.cmds[i] = "none", !.owed = @ - 1], h \in resolving)]
    /\ UNCHANGED <<silent, pc>>

\* The last command of the node failed: a known server becomes Unknown and is
\* tried once more in this scan, an unknown one wakes the waiting clients.
NodeFailed(h, i) ==
  \E resolving \in Resolvable :
    LET s == [ts EXCEPT ![h].cmds[i] = "none", ![h].owed = @ - 1] IN
    IF ts[h].status = "current" /\ known[h] # "Unknown"
    THEN /\ known' = [known EXCEPT ![h] = "Unknown"]
         /\ ts' = [s EXCEPT ![h] = SetUp(h, @, h \in resolving)]
         /\ UNCHANGED <<silent, pc>>
    ELSE ts' = Reconcile(s, known, resolving) /\ Broadcast /\ UNCHANGED known

\* A command failed, timed out or was canceled: _async_error_or_timeout.
Fail(h, i) ==
  /\ ts[h].cmds[i] # "none"
  /\ IF ts[h].status # "retired" /\ ~ts[h].stream /\ Running(ts[h]) = {i}
     THEN NodeFailed(h, i)
     ELSE ts' = [ts EXCEPT ![h].cmds[i] = "none"] /\ UNCHANGED <<known, silent, pc>>
  /\ UNCHANGED <<bgVars, signalled>>

(***************************************************************************)
(* The background thread.                                                  *)
(***************************************************************************)
\* _mongoc_topology_start_background_scanner, from the first client of the pool.
StartBackground ==
  /\ bg = "off" /\ ~stopping
  /\ bg' = "wait" /\ deadline' = 0
  /\ UNCHANGED <<known, ts, requested, elapsed, stopping, signalled, silent, pc>>

\* How long the thread may wait: less if a scan was requested.
Due == IF requested THEN 1 ELSE 2

\* mongoc_topology_scan_once up to the release of the mutex: nodes that reconcile
\* adds for hosts learnt from handshakes are set up there and once more here.
StartScan(found, resolving) ==
  LET s == DeleteRetired(Reconcile(ts, known, found)) IN
  /\ bg' = "scan" /\ requested' = FALSE /\ silent' = TRUE
  /\ ts' = [h \in Hosts |-> IF s[h].status = "none" THEN s[h]
                            ELSE SetUp(h, s[h], h \in resolving)]
  /\ known' = [h \in Hosts |-> IF s[h].status = "current" /\ ~s[h].stream /\ h \notin resolving
                            THEN "Unknown" ELSE known[h]]

\* The inner loop of _mongoc_topology_run_background after a wake-up or a timeout.
Background ==
  /\ bg = "wait" /\ (signalled \/ elapsed >= deadline)
  /\ signalled' = FALSE
  /\ IF stopping
     THEN bg' = "done" /\ UNCHANGED <<known, ts, deadline, requested, silent>>
     ELSE IF elapsed >= Due
     THEN (\E found, resolving \in Resolvable : StartScan(found, resolving)) /\ UNCHANGED deadline
     ELSE deadline' = Due /\ UNCHANGED <<known, ts, bg, requested, silent>>
  /\ UNCHANGED <<elapsed, stopping, pc>>

\* The scan ends when no command is left; a scanner without nodes ends the thread.
FinishScan ==
  /\ bg = "scan" /\ \A h \in Hosts : Running(ts[h]) = {}
  /\ ts' = DeleteRetired(ts)
  /\ elapsed' = 0 /\ signalled' = FALSE
  /\ IF ScannerValid(ts') /\ ~stopping THEN bg' = "wait" /\ deadline' = Due
     ELSE bg' = "done" /\ UNCHANGED deadline
  /\ UNCHANGED <<known, requested, stopping, silent, pc>>

Tick ==
  /\ elapsed < 2 /\ elapsed' = elapsed + 1
  /\ UNCHANGED <<known, ts, bg, deadline, requested, stopping, signalled, silent, pc>>

(***************************************************************************)
(* Application threads.                                                    *)
(***************************************************************************)
\* Mutant: the scan is requested without a signal.
RequestScanQuietly == requested' = TRUE /\ UNCHANGED signalled

RequestScan == requested' = TRUE /\ signalled' = (bg = "wait")

\* One turn of the loop of mongoc_topology_select_server_id.
Select(c) ==
  /\ bg # "off" /\ ~stopping /\ pc[c] \in {"idle", "woken"}
  /\ pc[c] = "idle" => ScannerValid(ts)
  /\ IF \E h \in Hosts : known[h] = "Suitable"
     THEN pc' = [pc EXCEPT ![c] = "idle"] /\ UNCHANGED <<requested, signalled>>
     ELSE pc' = [pc EXCEPT ![c] = "waiting"] /\ RequestScan
  /\ UNCHANGED <<known, ts, bg, deadline, elapsed, stopping, silent>>

\* serverSelectionTimeoutMS expired, or the wire versions do not fit
\* (mongoc_topology_compatible): selection gives up with an error.
Expire(c) ==
  /\ pc[c] \in {"waiting", "woken"}
  /\ pc' = [pc EXCEPT ![c] = "idle"]
  /\ UNCHANGED <<known, ts, bgVars, signalled, silent>>

\* _mongoc_topology_update_from_handshake: the description changes, the
\* scanner's nodes are left to the next scan.
HandshakeQuietly(h) ==
  /\ ~stopping /\ known[h] # "absent"
  /\ \E t \in Replies(h) : known' = t /\ ts' = Left(ts, t)
  /\ UNCHANGED <<bgVars, signalled, silent, pc>>

Handshake(h) ==
  /\ ~stopping /\ known[h] # "absent"
  /\ \E t \in Replies(h) : known' = t /\ ts' = Left(ts, t)
  /\ Broadcast
  /\ UNCHANGED <<bgVars, signalled>>

\* mongoc_topology_invalidate_server, after a network error.
InvalidateServer(h) ==
  /\ ~stopping /\ known[h] # "absent"
  /\ known' = [known EXCEPT ![h] = "Unknown"]
  /\ UNCHANGED <<ts, bgVars, signalled, silent, pc>>

\* _mongoc_topology_background_thread_stop, from the pool's destruction: no
\* client is left.  It joins the thread.
Stop ==
  /\ ~stopping /\ bg # "off" /\ \A c \in Clients : pc[c] = "idle"
  /\ stopping' = TRUE /\ signalled' = (bg = "wait")
  /\ UNCHANGED <<known, ts, bg, deadline, requested, elapsed, silent, pc>>

Async(h, i) ==
  bg = "scan" /\ (Connected(h, i) \/ Success(h, i) \/ Fail(h, i))

MonitorNext ==
  \/ StartBackground \/ Background \/ FinishScan \/ Tick \/ Stop
  \/ \E h \in Hosts : Handshake(h) \/ InvalidateServer(h) \/ \E i \in Indices(h) : Async(h, i)
  \/ \E c \in Clients : Select(c) \/ Expire(c)

MonitorSpec == MonitorInit /\ [][MonitorNext]_monitorVars

\* Time passes, the thread runs, and every command of a scan ends: it has a
\* timeout of connectTimeoutMS.
MonitorFairSpec ==
  /\ MonitorSpec
  /\ WF_monitorVars(Tick) /\ WF_monitorVars(Background) /\ WF_monitorVars(FinishScan)
  /\ \A h \in Hosts : WF_monitorVars(\E i \in Indices(h) : Async(h, i))

(***************************************************************************)
(* Properties.                                                             *)
(***************************************************************************)
\* A thread stays parked in cond_client only while there is no server for it:
\* every update that can make one selectable broadcasts.
NoMissedServer ==
  (\E c \in Clients : pc[c] = "waiting") => \A h \in Hosts : known[h] # "Suitable"

\* While threads wait, the background thread is scanning or will look again as
\* soon as minHeartbeatFrequencyMS allows, except after a scan in which no
\* callback woke them.
PromptScan ==
  (bg = "wait" /\ ~silent /\ \E c \in Clients : pc[c] = "waiting") =>
    requested /\ (signalled \/ deadline <= 1)

\* A node reports one outcome of a scan, by its last command and never while
\* another address may still answer, however many addresses it has and however
\* often it was set up; and a node with a stream has no live command, so that
\* BSON_ASSERT (!node->stream) in _async_success holds.
OneOutcome ==
  \A h \in Hosts :
    /\ ts[h].owed \in {0, 1}
    /\ (ts[h].status = "current" /\ bg # "scan") => ts[h].owed = 0
    /\ ts[h].stream => \A i \in Running(ts[h]) : ts[h].cmds[i] = "canceled"

\* The join in _mongoc_topology_background_thread_stop returns.
StopCompletes == stopping ~> bg = "done"
==============================================================================
