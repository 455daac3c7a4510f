------------------------ MODULE MCPeerMeshBootstrap -------------------------
(***************************************************************************)
(* Three ranks, each pair joined by two cables, and all of them on one     *)
(* Wi-Fi subnet as well, which only rank 1 lists.                          *)
(***************************************************************************)
EXTENDS PeerMeshBootstrap

MCNets ==
  <<{"ab", "ab2", "ac", "ac2", "wifi"},
    {"ab", "ab2", "bc", "bc2", "wifi"},
    {"ac", "ac2", "bc", "bc2", "wifi"}>>

MCPriority ==
  <<<<{"ab2"}, {"ab", "ac"}, {"ac2"}>>,
    <<{"ab"}, {"ab2", "bc"}, {"bc2"}, {"wifi"}>>,
    <<{"ac", "bc"}, {"ac2"}, {"bc2"}>>>>

NetsOf == [r \in Rank |-> MCNets[r + 1]]
PriorityOf == [r \in Rank |-> MCPriority[r + 1]]
=============================================================================
