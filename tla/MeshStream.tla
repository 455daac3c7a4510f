----------------------------- MODULE MeshStream -----------------------------
(***************************************************************************)
(* The data plane of PeerMesh (csrc/backend/PeerMesh.cpp): one TCP stream  *)
(* per ordered pair of ranks.  A stream is a FIFO of elements without any  *)
(* framing.  write_all and read_all move their buffer piece by piece, so   *)
(* a transfer is many steps: a piece can be written only while the kernel  *)
(* buffers of that direction (SockBuf pieces) have room, and read only     *)
(* once it is there.  A transfer of length zero touches the wire not at    *)
(* all: neither loop is entered.                                           *)
(***************************************************************************)
EXTENDS Ranks, Sequences

CONSTANT SockBuf

ASSUME SockBufAssumption == SockBuf \in Nat \ {0}

EmptyWire == [p \in Rank |-> [q \in Rank |-> <<>>]]

CanWrite(wire, p, q) == Len(wire[p][q]) < SockBuf

WirePut(wire, p, q, x) == [wire EXCEPT ![p][q] = Append(@, x)]

CanRead(wire, p, q) == wire[p][q] # <<>>

WireDrop(wire, p, q) == [wire EXCEPT ![p][q] = Tail(@)]
=============================================================================
