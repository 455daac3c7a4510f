----------------------------- MODULE MCCluster ------------------------------
(* An instance of Cluster: a head and one other node.                      *)
EXTENDS Cluster

\* The head reports a part of its memory as taken.
MCInUse == [n \in Node |-> IF n = Self THEN 1 ELSE 0]

Request(owner, nodes, mem, prio) ==
  [owner |-> owner, nodes |-> nodes, mem |-> mem, prio |-> prio]

\* A small job for one node, one for both, and one that the head has no room
\* for, which therefore preempts and is never placed.
MCRequests ==
  { Request("a", 1, 1, LOW), Request("b", 2, 1, LOW),
    Request("b", 2, 2, HIGH) }
=============================================================================
