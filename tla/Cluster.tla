------------------------------ MODULE Cluster -------------------------------
(***************************************************************************)
(* The cluster manager of the head node (csrc/runtime/ClusterManager.cpp)  *)
(* composed with the scheduler and the region directory it owns.  Four     *)
(* threads meet here: the heartbeat sender, the heartbeat monitor, the     *)
(* scheduler loop, and callers of the public methods.  A method that holds *)
(* state_mu_ throughout is one action; the loops are cut where they let go *)
(* of it.                                                                  *)
(*                                                                         *)
(* version and online_count are written and never read but for log lines,  *)
(* and are left out, like names and addresses.  DEGRADED is never set.     *)
(***************************************************************************)
EXTENDS Scheduler, MemoryCatalog

CONSTANTS
  Nodes,        \* total_nodes_: ids 0 to Nodes - 1
  Self,         \* node_id_, the head
  InUse,        \* per node, the memory it reported as taken when it joined
  Region,       \* ids of published regions
  Timeout,      \* heartbeat_timeout_ms_, in ticks of the clock
  MaxLag,       \* bound on the ticks one scan of the monitor takes
  Wrap          \* what uint64_t counts modulo, reduced

Node == 0 .. Nodes - 1

ASSUME ClusterAssumption ==
  /\ Nodes \in Nat \ {0} /\ Self \in Node /\ Region \subseteq Nat
  /\ Timeout \in Nat /\ MaxLag \in Nat /\ Wrap \in Nat
  /\ Timeout + MaxLag < Wrap

VARIABLES
  status,    \* per node, its status
  age,       \* per node, how long ago last_heartbeat_us is
  leader,    \* leader_id
  catalog,   \* catalog_
  stuck,     \* a thread that holds state_mu_ waits for state_mu_
  pings,     \* sender: nodes of its snapshot still to be pinged
  mon,       \* monitor: where it is, how old its clock reading is, its index
  tick,      \* scheduler loop: the snapshot it took of the online nodes
  excused    \* history: nodes offline that left, or got a job by a late tick

clusterVars ==
  <<status, age, leader, catalog, stuck, pings, mon, tick, excused>>

vars == <<clusterVars, schedVars>>

Asleep == [at |-> "sleep", lag |-> 0, i |-> 0, j |-> 0]

\* Ages are exact up to this one, which stands for all that are greater: no
\* scan can tell them apart.
OldAge == Timeout + MaxLag + 1

online_nodes == {n \in Node : status[n] = "ONLINE"}

Init ==
  /\ SchedInit
  /\ status = [n \in Node |-> IF n = Self THEN "ONLINE" ELSE "UNKNOWN"]
  /\ age = [n \in Node |-> 0]
  /\ leader = Self
  /\ catalog = EmptyCatalog
  /\ stuck = FALSE
  /\ pings = {}
  /\ mon = Asleep
  /\ tick = <<>>
  /\ excused = {}

elect_leader(stat) ==
  LET online == {n \in Node : stat[n] = "ONLINE"}
  IN  IF online = {} THEN Self ELSE Min(online)

\* Time passes.  The age of a node that is not online is not looked at
\* before a new heartbeat resets it, and is kept at 0.
Tick ==
  /\ mon.at # "sleep" => mon.lag < MaxLag
  /\ age' = [n \in Node |->
              IF status[n] = "ONLINE" /\ n # Self /\ age[n] < OldAge
              THEN age[n] + 1 ELSE age[n]]
  /\ mon' = IF mon.at = "sleep" THEN mon ELSE [mon EXCEPT !.lag = @ + 1]
  /\ <<age, mon>>' # <<age, mon>>
  /\ UNCHANGED <<status, leader, catalog, stuck, pings, tick, excused,
                 schedVars>>

-----------------------------------------------------------------------------
(* The public methods.                                                     *)

handle_join(n) ==
  /\ ~stuck
  /\ status' = [status EXCEPT ![n] = "ONLINE"]
  /\ age' = [age EXCEPT ![n] = 0]
  /\ leader' = elect_leader(status')
  /\ excused' = excused \ {n}
  /\ UNCHANGED <<catalog, stuck, pings, mon, tick, schedVars>>

\* When the node that leaves is the leader also after the election (the head
\* itself, with nobody else online), handle_node_failure is called with
\* state_mu_ held and locks it again: the thread never gets on.
handle_leave(n) ==
  /\ ~stuck
  /\ status[n] # "OFFLINE"
  /\ status' = [status EXCEPT ![n] = "OFFLINE"]
  /\ age' = [age EXCEPT ![n] = 0]
  /\ catalog' = RemoveNode(catalog, n)
  /\ leader' = elect_leader(status')
  /\ stuck' = (leader' = n)
  /\ excused' = excused \cup {n}
  /\ UNCHANGED <<pings, mon, tick, schedVars>>

publish_region(r) ==
  /\ catalog' = Upsert(catalog, r, r)
  /\ UNCHANGED <<status, age, leader, stuck, pings, mon, tick, excused,
                 schedVars>>

unpublish_region(r) ==
  /\ Lookup(catalog, 0, r) # {}
  /\ catalog' = RemoveRegion(catalog, r)
  /\ UNCHANGED <<status, age, leader, stuck, pings, mon, tick, excused,
                 schedVars>>

submit_job == UNCHANGED clusterVars /\ \E req \in Requests : submit(req)

cancel_job == UNCHANGED clusterVars /\ \E id \in 1 .. MaxJobs : cancel(id)

complete_job ==
  /\ UNCHANGED clusterVars
  /\ \E id \in 1 .. MaxJobs : complete(id)

-----------------------------------------------------------------------------
(* Heartbeats.  The sender pings, one after the other, the nodes that were *)
(* online when its round began; an answer may never come.                  *)

handle_heartbeat(n) ==
  /\ status' = [status EXCEPT ![n] = "ONLINE"]
  /\ age' = [age EXCEPT ![n] = 0]
  /\ excused' = excused \ {n}

\* Mutant of PingTargets: the head pings itself too.
PingTargetsAll == online_nodes

PingTargets == online_nodes \ {Self}

SenderRound ==
  /\ pings = {}
  /\ ~stuck
  /\ pings' = PingTargets
  /\ pings' # {}
  /\ UNCHANGED <<status, age, leader, catalog, stuck, mon, tick, excused,
                 schedVars>>

PingAnswered ==
  /\ pings # {}
  /\ ~stuck
  /\ pings' = pings \ {Min(pings)}
  /\ handle_heartbeat(Min(pings))
  /\ UNCHANGED <<leader, catalog, stuck, mon, tick, schedVars>>

PingLost ==
  /\ pings # {}
  /\ ~stuck
  /\ pings' = pings \ {Min(pings)}
  /\ UNCHANGED <<status, age, leader, catalog, stuck, mon, tick, excused,
                 schedVars>>

-----------------------------------------------------------------------------
(* The monitor.  It reads the clock before it takes state_mu_, scans the   *)
(* nodes under it, lets go of it for each node found failed, and goes on   *)
(* with the same reading.                                                  *)

\* elapsed_us, the unsigned difference of the monitor's clock reading and
\* the last heartbeat.
Elapsed(n) == (age[n] - mon.lag) % Wrap

\* Mutant of Expired: a node is failed already when the timeout is reached.
ExpiredEarly(n) == Elapsed(n) >= Timeout

Expired(n) == Elapsed(n) > Timeout

MonitorWake ==
  /\ mon.at = "sleep"
  /\ mon' = [Asleep EXCEPT !.at = "scan"]
  /\ UNCHANGED <<status, age, leader, catalog, stuck, pings, tick, excused, schedVars>>

MonitorScan ==
  /\ mon.at = "scan"
  /\ ~stuck
  /\ LET failed == {n \in (mon.i .. Nodes - 1) \ {Self} :
                      status[n] = "ONLINE" /\ Expired(n)}
     IN  mon' = IF failed = {} THEN Asleep
                ELSE [mon EXCEPT !.at = "mark", !.i = Min(failed)]
  /\ UNCHANGED <<status, age, leader, catalog, stuck, pings, tick, excused, schedVars>>

\* handle_node_failure, step by step.
FailureMark ==
  /\ mon.at = "mark"
  /\ ~stuck
  /\ status' = [status EXCEPT ![mon.i] = "OFFLINE"]
  /\ age' = [age EXCEPT ![mon.i] = 0]
  /\ mon' = [mon EXCEPT !.at = "evict"]
  /\ UNCHANGED <<leader, catalog, stuck, pings, tick, excused, schedVars>>

\* catalog_mu_ and then the scheduler's mu_: nothing depends on both.
FailureEvict ==
  /\ mon.at = "evict"
  /\ catalog' = RemoveNode(catalog, mon.i)
  /\ evict_node(mon.i)
  /\ mon' = [mon EXCEPT !.at = "leader"]
  /\ UNCHANGED <<status, age, leader, stuck, pings, tick, excused>>

NextScan == [mon EXCEPT !.at = "scan", !.i = @ + 1, !.j = 0]

FailureIsLeader ==
  /\ mon.at = "leader"
  /\ ~stuck
  /\ mon' = IF leader = Self THEN [mon EXCEPT !.at = "elect"] ELSE NextScan
  /\ UNCHANGED <<status, age, leader, catalog, stuck, pings, tick, excused, schedVars>>

\* The election here runs without state_mu_: it reads node by node.
FailureElect ==
  /\ mon.at = "elect"
  /\ mon' = IF mon.j = Nodes \/ status[mon.j] = "ONLINE"
            THEN [mon EXCEPT !.at = "write"] ELSE [mon EXCEPT !.j = @ + 1]
  /\ UNCHANGED <<status, age, leader, catalog, stuck, pings, tick, excused, schedVars>>

FailureElected ==
  /\ mon.at = "write"
  /\ leader' = IF mon.j = Nodes THEN Self ELSE mon.j
  /\ mon' = NextScan
  /\ UNCHANGED <<status, age, catalog, stuck, pings, tick, excused,
                 schedVars>>

-----------------------------------------------------------------------------
(* The scheduler loop.  The loads are what the nodes reported, in which    *)
(* the jobs running have no part.                                          *)

SchedulerSnapshot ==
  /\ tick = <<>>
  /\ ~stuck
  /\ tick' = <<online_nodes>>
  /\ UNCHANGED <<status, age, leader, catalog, stuck, pings, mon, excused, schedVars>>

NewlyActive == {i \in DOMAIN active' : active'[i].id \notin IdsIn(active)}

SchedulerTick ==
  /\ tick # <<>>
  /\ schedule_tick(tick[1], InUse)
  /\ tick' = <<>>
  /\ excused' = excused \cup
       UNION {active'[i].assigned \ online_nodes : i \in NewlyActive}
  /\ UNCHANGED <<status, age, leader, catalog, stuck, pings, mon>>

Callers ==
  \/ \E n \in Node \ {Self} : handle_join(n)
  \/ \E n \in Node : handle_leave(n)
  \/ \E r \in Region : publish_region(r) \/ unpublish_region(r)
  \/ submit_job \/ cancel_job \/ complete_job

Sender == SenderRound \/ PingAnswered \/ PingLost

Monitor ==
  \/ MonitorWake \/ MonitorScan \/ FailureMark \/ FailureEvict
  \/ FailureIsLeader \/ FailureElect \/ FailureElected

SchedulerLoop == SchedulerSnapshot \/ SchedulerTick

Next == Tick \/ Callers \/ Sender \/ Monitor \/ SchedulerLoop

Spec == Init /\ [][Next]_vars

-----------------------------------------------------------------------------

\* The types of the state of the manager and of the scheduler; the head never
\* pings itself, so that its own entry has no heartbeat.
TypeOK ==
  /\ status \in [Node -> {"UNKNOWN", "ONLINE", "OFFLINE"}]
  /\ age \in [Node -> 0 .. OldAge]
  /\ leader \in Node
  /\ DOMAIN catalog \subseteq {0} \X Region
  /\ stuck \in BOOLEAN
  /\ pings \subseteq Node \ {Self}
  /\ mon \in [at : {"sleep", "scan", "mark", "evict", "leader", "elect", "write"},
             lag : 0 .. MaxLag, i : 0 .. Nodes, j : 0 .. Nodes]
  /\ tick \in {<<>>} \cup {<<s>> : s \in SUBSET Node}
  /\ excused \subseteq Node
  /\ SchedTypeOK

\* A job that was submitted is pending, running, in the history, or was
\* cancelled while pending, and only one of these: ticks, preemption,
\* eviction, cancellation and completion neither lose nor double it.
JobInOnePlace ==
  \A id \in 1 .. next_job_id - 1 :
    Cardinality({i \in DOMAIN queue : queue[i].id = id}) +
    Cardinality({i \in DOMAIN active : active[i].id = id}) +
    Cardinality({id} \cap history) + Cardinality({id} \cap gone) = 1

\* A running job has as many nodes as it asked for: one that lost a node, or
\* was preempted, does not run on with what is left of its assignment.
FullyPlaced ==
  \A i \in DOMAIN active : Cardinality(active[i].assigned) = active[i].nodes

\* The jobs one tick starts fit together into the memory that the nodes
\* reported free (jobs of earlier ticks are not counted by the code).
TickFits ==
  [][tick # tick' /\ tick # <<>> =>
       \A n \in Node :
         InUse[n] + MapThenSumSet(LAMBDA i : IF n \in active'[i].assigned
                                             THEN active'[i].mem ELSE 0,
                                  NewlyActive) <= MemPerNode]_vars

\* The monitor takes a node offline only when nothing was heard of it for
\* longer than the timeout, or when it was heard of since the monitor read
\* its clock: then the unsigned difference wraps, or the answer came after
\* the scan let go of state_mu_.  No other live node is failed.
FailedForCause ==
  [][mon.at = "mark" /\ mon'.at = "evict" /\ status[mon.i] = "ONLINE" =>
       age[mon.i] > Timeout \/ age[mon.i] <= mon.lag]_vars

\* No running job has a node that the monitor failed, once eviction has come
\* by, unless a tick placed it there from a snapshot taken earlier; nodes
\* that left by themselves keep their jobs.
FailedNodesAreVacated ==
  \A i \in DOMAIN active : \A n \in active[i].assigned :
    status[n] = "OFFLINE" /\ n \notin excused => mon.at = "evict" /\ mon.i = n
=============================================================================
