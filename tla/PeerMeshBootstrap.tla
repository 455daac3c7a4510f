-------------------------- MODULE PeerMeshBootstrap -------------------------
(***************************************************************************)
(* The constructor of PeerMesh (csrc/backend/PeerMesh.cpp) on all ranks.   *)
(* Every rank listens, publishes its addresses in the store and looks up   *)
(* those of the others.  Then it connects to the ranks above it, one after *)
(* the other, while a second thread accepts one connection for each rank   *)
(* below it.  Each side of a connection sends its rank.  The connecting    *)
(* side waits one second for the answer, closes and tries again until a    *)
(* deadline; the accepting side counts every connection it takes.          *)
(***************************************************************************)
EXTENDS Ranks, FiniteSets, Sequences, Functions

CONSTANTS
  Nets,       \* per rank, the /24 subnets its interfaces are on
  Priority,   \* per rank, MCCL_IFACE_PRIORITY: a sequence of sets of subnets
  MaxPasses   \* bound on the passes over a peer's addresses before the deadline

ASSUME MaxPassesAssumption == MaxPasses \in Nat \ {0}

\* getifaddrs returns a list; a priority list may be empty.
ASSUME AddressesAssumption ==
  \A r \in Rank :
    /\ IsFiniteSet(Nets[r])
    /\ Len(Priority[r]) \in Nat
    /\ DOMAIN Priority[r] = 1 .. Len(Priority[r])

VARIABLES
  pc,         \* per rank, where the constructor is
  store,      \* ranks whose endpoint is in the store
  nxt,        \* per rank, the peer it connects to
  try,        \* per rank, its attempts to connect to that peer so far
  open,       \* per rank, whether the last of them waits for the answer
  conn,       \* connections: [from, to, k] and what happened at each end
  backlog,    \* per rank, connections not yet accepted
  acc,        \* per rank, the acceptor: where it is, accepts made, connection
  peer_fds    \* per rank and peer, the connection kept, or NoFd

vars == <<pc, store, nxt, try, open, conn, backlog, acc, peer_fds>>

NoFd == [from |-> -1, to |-> -1, k |-> 0]

Id(r, p, k) == [from |-> r, to |-> p, k |-> k]

-----------------------------------------------------------------------------
(* Addresses.  A rank has one address on each of its subnets, so that an   *)
(* address is told by its subnet.                                          *)

Wanted(r, net) == \E i \in DOMAIN Priority[r] : net \in Priority[r][i]

score(r, net) ==
  IF Wanted(r, net)
  THEN CHOOSE i \in DOMAIN Priority[r] :
         /\ net \in Priority[r][i]
         /\ \A j \in 1 .. i - 1 : net \notin Priority[r][j]
  ELSE Len(Priority[r]) + 1

\* Mutant of Advertised: the endpoint has all addresses.
AdvertisedAll(r) == Nets[r]

Advertised(r) == {net \in Nets[r] : Priority[r] = <<>> \/ Wanted(r, net)}

\* The peer's addresses on a subnet of this rank, once more filtered, in the
\* order in which they are tried; std::sort leaves that of equal ones open.
Reachable(r, p) ==
  {net \in Advertised(p) \cap Advertised(r) : Priority[r] = <<>> \/ Wanted(r, net)}

Candidates ==
  [r \in Rank |-> [p \in Rank |->
     CHOOSE s \in Injection(1 .. Cardinality(Reachable(r, p)), Reachable(r, p)) :
       \A i, j \in DOMAIN s : i < j => score(r, s[i]) <= score(r, s[j])]]

-----------------------------------------------------------------------------

Init ==
  /\ pc = [r \in Rank |-> "start"]
  /\ store = {}
  /\ nxt = [r \in Rank |-> r + 1]
  /\ try = [r \in Rank |-> 0]
  /\ open = [r \in Rank |-> FALSE]
  /\ conn = [c \in {} |-> {}]
  /\ backlog = [r \in Rank |-> <<>>]
  /\ acc = [r \in Rank |-> [at |-> "none", n |-> 0, c |-> NoFd]]
  /\ peer_fds = [r \in Rank |-> [p \in Rank |-> NoFd]]

\* socket, bind, listen, and the endpoint into the store.
Publish(r) ==
  /\ pc[r] = "start"
  /\ IF Advertised(r) = {}
     THEN /\ pc' = [pc EXCEPT ![r] = "threw"]
          /\ UNCHANGED store
     ELSE /\ pc' = [pc EXCEPT ![r] = "lookup"]
          /\ store' = store \cup {r}
  /\ UNCHANGED <<nxt, try, open, conn, backlog, acc, peer_fds>>

Lookup(r) ==
  /\ pc[r] = "lookup"
  /\ store = Rank
  /\ pc' = [pc EXCEPT ![r] = "connect"]
  /\ acc' = [acc EXCEPT ![r].at = "accept"]
  /\ UNCHANGED <<store, nxt, try, open, conn, backlog, peer_fds>>

\* The store throws when a key does not appear in time.
LookupTimeout(r) ==
  /\ pc[r] = "lookup"
  /\ store # Rank
  /\ pc' = [pc EXCEPT ![r] = "threw"]
  /\ UNCHANGED <<store, nxt, try, open, conn, backlog, acc, peer_fds>>

-----------------------------------------------------------------------------
(* The connecting side.                                                    *)

Connecting(r) == pc[r] = "connect" /\ nxt[r] < World

Current(r) == Id(r, nxt[r], try[r])

\* connect succeeds as soon as the peer listens, also when nobody accepts; it
\* fails when there is no route or the peer is gone.  When sending the rank
\* fails, the socket is closed at once.
Connect(r, how) ==
  LET p == nxt[r]
      c == Id(r, p, try[r] + 1)
      nets == Candidates[r][p]
      sent == how = "sent"
  IN  /\ Connecting(r)
      /\ ~open[r]
      /\ try[r] < MaxPasses * Len(nets)
      /\ pc[p] = "dead" => how = "refused"
      /\ try' = [try EXCEPT ![r] = @ + 1]
      /\ open' = [open EXCEPT ![r] = sent]
      /\ IF how = "refused" THEN UNCHANGED <<conn, backlog>>
         ELSE /\ conn' = [d \in DOMAIN conn \cup {c} |->
                           IF d # c THEN conn[d]
                           ELSE [net |-> nets[(try[r] % Len(nets)) + 1],
                                 sent |-> sent, client |-> sent,
                                 answer |-> FALSE]]
              /\ backlog' = [backlog EXCEPT ![p] = Append(@, c)]
      /\ UNCHANGED <<pc, store, nxt, acc, peer_fds>>

HasAnswer(r) == conn[Current(r)].answer

Answered(r) ==
  LET p == nxt[r]
  IN  /\ Connecting(r)
      /\ open[r]
      /\ HasAnswer(r)
      /\ peer_fds' = [peer_fds EXCEPT ![r][p] = Current(r)]
      /\ nxt' = [nxt EXCEPT ![r] = p + 1]
      /\ try' = [try EXCEPT ![r] = 0]
      /\ open' = [open EXCEPT ![r] = FALSE]
      /\ UNCHANGED <<pc, store, conn, backlog, acc>>

\* One second without the answer (which may be on its way), or the peer
\* closed the connection.
AnswerTimeout(r) ==
  /\ Connecting(r)
  /\ open[r]
  /\ open' = [open EXCEPT ![r] = FALSE]
  /\ conn' = [conn EXCEPT ![Current(r)].client = FALSE]
  /\ UNCHANGED <<pc, store, nxt, try, backlog, acc, peer_fds>>

\* No address of the peer is on a shared subnet, or the deadline has passed
\* after a pass over the addresses: the check throws while the acceptor is
\* joinable, which ends the process and closes its sockets.
GiveUp(r) ==
  /\ Connecting(r)
  /\ ~open[r]
  /\ LET n == Len(Candidates[r][nxt[r]])
     IN  n > 0 => try[r] > 0 /\ try[r] % n = 0
  /\ pc' = [pc EXCEPT ![r] = "dead"]
  /\ conn' = [c \in DOMAIN conn |->
                IF c.from = r THEN [conn[c] EXCEPT !.client = FALSE] ELSE conn[c]]
  /\ UNCHANGED <<store, nxt, try, open, backlog, acc, peer_fds>>

-----------------------------------------------------------------------------
(* The accepting side.                                                     *)

Accepting(r, at) == pc[r] # "dead" /\ acc[r].at = at

\* Mutant of pending_accepts: one for each other rank.
PendingAll(r) == World - 1

pending_accepts(r) == r

\* On to the next accept, whatever became of this connection.
Taken(r) == [acc EXCEPT ![r] = [at |-> "accept", c |-> NoFd, n |-> @.n + 1]]

\* Mutant of Keep: the first connection of a peer stays.
KeepFirst(r, c) ==
  [peer_fds EXCEPT ![r][c.from] = IF @ = NoFd THEN c ELSE @]

Keep(r, c) == [peer_fds EXCEPT ![r][c.from] = c]

\* A connection that its client has closed may make accept fail.
Accept(r) ==
  /\ Accepting(r, "accept")
  /\ acc[r].n < pending_accepts(r)
  /\ backlog[r] # <<>>
  /\ backlog' = [backlog EXCEPT ![r] = Tail(@)]
  /\ LET c == Head(backlog[r])
     IN  \/ acc' = [acc EXCEPT ![r] = [@ EXCEPT !.at = "read", !.c = c]]
         \/ ~conn[c].client /\ acc' = Taken(r)
  /\ UNCHANGED <<pc, store, nxt, try, open, conn, peer_fds>>

\* Reads the rank of the peer; there is no timeout on this socket.
ReadRank(r) ==
  LET c == acc[r].c
  IN  /\ Accepting(r, "read")
      /\ conn[c].sent \/ ~conn[c].client
      /\ acc' = IF conn[c].sent THEN [acc EXCEPT ![r].at = "write"]
                ELSE Taken(r)
      /\ UNCHANGED <<pc, store, nxt, try, open, conn, backlog, peer_fds>>

\* Sends this rank and keeps the socket.  Writing to a connection that its
\* client has closed succeeds or fails.
WriteRank(r) ==
  LET c == acc[r].c
  IN  /\ Accepting(r, "write")
      /\ \/ /\ conn' = [conn EXCEPT ![c].answer = TRUE]
            /\ peer_fds' = Keep(r, c)
            /\ acc' = Taken(r)
         \/ /\ ~conn[c].client
            /\ acc' = Taken(r)
            /\ UNCHANGED <<conn, peer_fds>>
      /\ UNCHANGED <<pc, store, nxt, try, open, backlog>>

-----------------------------------------------------------------------------

Complete(r) == \A p \in Rank \ {r} : peer_fds[r][p] # NoFd

\* acceptor.join() and the check for missing sockets.
Join(r) ==
  /\ pc[r] = "connect"
  /\ nxt[r] = World
  /\ acc[r].at = "accept" /\ acc[r].n = pending_accepts(r)
  /\ pc' = [pc EXCEPT ![r] = IF Complete(r) THEN "done" ELSE "threw"]
  /\ UNCHANGED <<store, nxt, try, open, conn, backlog, acc, peer_fds>>

Connector(r) ==
  \/ \E how \in {"refused", "unsent", "sent"} : Connect(r, how)
  \/ Answered(r) \/ AnswerTimeout(r) \/ GiveUp(r)

Acceptor(r) == Accept(r) \/ ReadRank(r) \/ WriteRank(r)

RankStep(r) ==
  \/ Publish(r) \/ Lookup(r) \/ LookupTimeout(r)
  \/ Connector(r) \/ Acceptor(r) \/ Join(r)

Next == \E r \in Rank : RankStep(r)

Spec == Init /\ [][Next]_vars /\ WF_vars(Next)

-----------------------------------------------------------------------------

\* Type invariant: an acceptor takes at most one connection for each rank
\* below it, and the answer on a connection comes after the rank was sent.
TypeOK ==
  /\ pc \in [Rank -> {"start", "lookup", "connect", "done", "threw", "dead"}]
  /\ store \subseteq Rank
  /\ nxt \in [Rank -> 1 .. World]
  /\ try \in [Rank -> Nat]
  /\ open \in [Rank -> BOOLEAN]
  /\ \A c \in DOMAIN conn :
       /\ c.from \in Rank /\ c.to \in Rank /\ c.from < c.to
       /\ conn[c].answer => conn[c].sent
  /\ \A r \in Rank :
       /\ acc[r].n \in 0 .. r
       /\ \A i \in DOMAIN backlog[r] :
            backlog[r][i] \in DOMAIN conn /\ backlog[r][i].to = r

\* The two threads and the retries of PeerMesh::PeerMesh agree on the socket:
\* once the lower rank of a pair has stored peer_fds_[p], the higher rank has
\* stored the other end of that very connection, although earlier attempts
\* that the lower rank abandoned may be accepted, answered and stored late.
SameConnection ==
  \A r, p \in Rank :
    r < p /\ nxt[r] > p =>
      peer_fds[r][p] # NoFd /\ peer_fds[p][r] = peer_fds[r][p]

\* Every socket a rank has stored runs over a subnet that both ranks have,
\* and that both MCCL_IFACE_PRIORITY lists name: "a peer can never pick"
\* another one, even when the two lists differ.
OnlyPriorityLinks ==
  \A r, p \in Rank :
    LET c == peer_fds[r][p]
        Allowed(q) == c # NoFd =>
          /\ conn[c].net \in Nets[q]
          /\ Priority[q] # <<>> => Wanted(q, conn[c].net)
    IN  Allowed(r) /\ Allowed(p)

\* Every constructor returns, or some rank has failed with an error: the join
\* of an acceptor never waits for ever while all ranks are well, although
\* connections that were abandoned use up its accepts.
NoSilentHang ==
  <>(\/ \A r \in Rank : pc[r] = "done"
     \/ \E r \in Rank : pc[r] \in {"threw", "dead"})
=============================================================================
