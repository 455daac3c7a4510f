---------------------- MODULE PeerMeshBootstrapProofs -----------------------
(***************************************************************************)
(* Proofs about the bootstrap of the mesh, for every number of ranks,      *)
(* every set of addresses and priority lists, and any number of passes:    *)
(* the two ends of a link agree on the connection, and every link runs     *)
(* over a subnet that both priority lists allow.                           *)
(***************************************************************************)
EXTENDS PeerMeshBootstrap, TLAPS

-----------------------------------------------------------------------------
(* The invariant.                                                          *)

\* The identities of connections.
ConnId == [from : Rank, to : Rank, k : Nat \ {0}]

\* The shape of the state; that of conn is in Connections.
Shape ==
  /\ pc \in [Rank -> {"start", "lookup", "connect", "done", "threw", "dead"}]
  /\ store \subseteq Rank
  /\ nxt \in [Rank -> 1 .. World]
  /\ \A r \in Rank : r < nxt[r]
  /\ try \in [Rank -> Nat]
  /\ open \in [Rank -> BOOLEAN]
  /\ backlog \in [Rank -> Seq(ConnId)]
  /\ acc \in [Rank -> [at : {"none", "accept", "read", "write"}, n : Nat,
                       c : ConnId \cup {NoFd}]]
  /\ peer_fds \in [Rank -> [Rank -> ConnId \cup {NoFd}]]

\* Connections were made by the attempts so far, over a reachable subnet.
Connections ==
  \A c \in DOMAIN conn :
    /\ c \in ConnId
    /\ c.from < c.to
    /\ c.to <= nxt[c.from]
    /\ c.to = nxt[c.from] => c.k <= try[c.from]
    /\ conn[c].net \in Reachable(c.from, c.to)
    /\ conn[c] \in [net : {conn[c].net}, sent : BOOLEAN, client : BOOLEAN,
                    answer : BOOLEAN]
    /\ conn[c].answer => conn[c].sent

\* A rank that waits for an answer does so on its last attempt.
Waits ==
  \A r \in Rank : open[r] =>
    pc[r] = "connect" /\ nxt[r] < World /\ Current(r) \in DOMAIN conn

\* The connection the acceptor of p is busy with, as a set.
InHand(p) == IF acc[p].at \in {"read", "write"} THEN {acc[p].c} ELSE {}

\* Connections reach the acceptor in the order in which they were made.
InOrder ==
  \A p \in Rank :
    /\ acc[p].n <= p
    /\ InHand(p) # {} => acc[p].n < p
    /\ \A c \in InHand(p) :
         /\ c \in DOMAIN conn /\ c.to = p
         /\ acc[p].at = "write" => conn[c].sent
         /\ \A i \in DOMAIN backlog[p] :
              backlog[p][i].from = c.from => c.k < backlog[p][i].k
    /\ \A i \in DOMAIN backlog[p] :
         backlog[p][i] \in DOMAIN conn /\ backlog[p][i].to = p
    /\ \A i, j \in DOMAIN backlog[p] :
         i < j /\ backlog[p][i].from = backlog[p][j].from =>
           backlog[p][i].k < backlog[p][j].k

\* The higher rank keeps the last connection it answered, and what it has
\* not answered yet is younger.
LastAnswered ==
  \A c \in DOMAIN conn : conn[c].answer =>
    /\ \A d \in InHand(c.to) : d.from = c.from => c.k < d.k
    /\ \A i \in DOMAIN backlog[c.to] :
         backlog[c.to][i].from = c.from => c.k < backlog[c.to][i].k
    /\ peer_fds[c.to][c.from] # NoFd
    /\ c.k <= peer_fds[c.to][c.from].k

\* A stored socket is one of a connection between the two ranks.
Stored ==
  \A r, p \in Rank : peer_fds[r][p] # NoFd =>
    /\ peer_fds[r][p] \in DOMAIN conn
    /\ \/ peer_fds[r][p].from = r /\ peer_fds[r][p].to = p
       \/ peer_fds[r][p].from = p /\ peer_fds[r][p].to = r

\* Once the lower rank went on to the next peer, it made no further attempt
\* and keeps the last one, which was answered.
Settled ==
  \A r, p \in Rank : r < p /\ p < nxt[r] =>
    /\ peer_fds[r][p] \in DOMAIN conn
    /\ conn[peer_fds[r][p]].answer
    /\ \A c \in DOMAIN conn :
         c.from = r /\ c.to = p => c.k <= peer_fds[r][p].k
    /\ peer_fds[p][r] = peer_fds[r][p]

\* The inductive invariant.
IInv ==
  /\ Shape /\ Connections /\ Waits /\ InOrder /\ LastAnswered /\ Stored
  /\ Settled

-----------------------------------------------------------------------------
(* The invariant.                                                          *)

\* The inductive invariant implies the three that TLC checks.
LEMMA IInvImplies == IInv => TypeOK /\ SameConnection /\ OnlyPriorityLinks
<1> SUFFICES ASSUME IInv PROVE TypeOK /\ SameConnection /\ OnlyPriorityLinks
  OBVIOUS
<1>1. TypeOK
  <2>1. \A c \in DOMAIN conn :
          /\ c.from \in Rank /\ c.to \in Rank /\ c.from < c.to
          /\ conn[c].answer => conn[c].sent
    BY Zenon DEF IInv, Connections, ConnId
  <2>2. \A r \in Rank :
          /\ acc[r].n \in 0 .. r
          /\ \A i \in DOMAIN backlog[r] :
               backlog[r][i] \in DOMAIN conn /\ backlog[r][i].to = r
    BY DEF IInv, Shape, InOrder, Rank
  <2> QED
    BY <2>1, <2>2, Zenon DEF IInv, Shape, TypeOK
<1>2. SameConnection
  <2>1. \A r, p \in Rank : peer_fds[r][p] \in ConnId => peer_fds[r][p] # NoFd
    BY DEF ConnId, NoFd
  <2> QED
    BY <2>1 DEF IInv, Shape, Connections, Settled, SameConnection, Rank
<1>3. OnlyPriorityLinks
  <2> SUFFICES ASSUME NEW r \in Rank, NEW p \in Rank, peer_fds[r][p] # NoFd,
                      NEW q \in {r, p}
               PROVE  /\ conn[peer_fds[r][p]].net \in Nets[q]
                      /\ Priority[q] # <<>> =>
                           Wanted(q, conn[peer_fds[r][p]].net)
    BY Zenon DEF OnlyPriorityLinks
  <2> DEFINE c == peer_fds[r][p]
  <2>1. c \in DOMAIN conn /\ q \in {c.from, c.to}
    BY Zenon DEF IInv, Stored
  <2>2. conn[c].net \in Reachable(c.from, c.to)
    BY <2>1, Zenon DEF IInv, Connections
  <2>3. conn[c].net \in Advertised(q)
    BY <2>1, <2>2, Zenon DEF Reachable
  <2> QED
    BY <2>3, Zenon DEF Advertised
<1> QED
  BY <1>1, <1>2, <1>3, Zenon

\* Before the constructors run nothing is connected.
LEMMA InitIInv == Init => IInv
<1> SUFFICES ASSUME Init PROVE IInv
  OBVIOUS
<1>1. Shape
  <2>1. nxt \in [Rank -> 1 .. World] /\ try \in [Rank -> Nat]
        /\ (\A r \in Rank : r < nxt[r])
        /\ store \subseteq Rank /\ open \in [Rank -> BOOLEAN]
    BY WorldAssumption DEF Init, Rank
  <2>2. pc \in [Rank -> {"start", "lookup", "connect", "done", "threw", "dead"}]
    BY Zenon DEF Init
  <2>3. backlog \in [Rank -> Seq(ConnId)]
    BY DEF Init
  <2>4. acc \in [Rank -> [at : {"none", "accept", "read", "write"}, n : Nat,
                          c : ConnId \cup {NoFd}]]
    BY Zenon DEF Init
  <2>5. peer_fds \in [Rank -> [Rank -> ConnId \cup {NoFd}]]
    BY Zenon DEF Init
  <2> QED
    BY <2>1, <2>2, <2>3, <2>4, <2>5, Zenon DEF Shape
<1>2. DOMAIN conn = {}
  BY Zenon DEF Init
<1>3. Connections /\ LastAnswered
  BY <1>2, Zenon DEF Connections, LastAnswered
<1>4. Waits /\ Stored
  BY Zenon DEF Init, Waits, Stored
<1>5. InOrder
  BY DEF Init, InOrder, InHand, Rank
<1>6. Settled
  BY DEF Init, Settled, Rank
<1> QED
  BY <1>1, <1>3, <1>4, <1>5, <1>6, Zenon DEF IInv

\* Steps that only move the constructor of a rank on keep the invariant.
LEMMA PcStep ==
  ASSUME IInv,
         UNCHANGED <<nxt, try, open, conn, backlog, acc, peer_fds>>,
         pc' \in [Rank -> {"start", "lookup", "connect", "done", "threw", "dead"}],
         store' \subseteq Rank,
         \A r \in Rank : open[r] => pc'[r] = "connect"
  PROVE  IInv'
<1>1. Shape'
  BY Zenon DEF IInv, Shape
<1>2. Connections' /\ Stored' /\ Settled'
  BY DEF IInv, Connections, Stored, Settled
<1>3. Waits'
  BY Zenon DEF IInv, Waits, Current
<1>4. InOrder' /\ LastAnswered'
  BY DEF IInv, InOrder, LastAnswered, InHand
<1> QED
  BY <1>1, <1>2, <1>3, <1>4, Zenon DEF IInv

\* Publishing the endpoint, and the throw when there is none.
LEMMA PublishStep ==
  ASSUME IInv, NEW r \in Rank, Publish(r)
  PROVE  IInv'
<1>1. /\ pc' \in [Rank -> {"start", "lookup", "connect", "done", "threw", "dead"}]
      /\ store' \subseteq Rank
  BY Zenon DEF IInv, Shape, Publish
<1>2. \A q \in Rank : open[q] => pc'[q] = "connect"
  BY Zenon DEF IInv, Shape, Waits, Publish
<1> QED
  BY <1>1, <1>2, PcStep, Zenon DEF Publish

\* The store not answering in time.
LEMMA LookupTimeoutStep ==
  ASSUME IInv, NEW r \in Rank, LookupTimeout(r)
  PROVE  IInv'
<1>1. /\ pc' \in [Rank -> {"start", "lookup", "connect", "done", "threw", "dead"}]
      /\ store' \subseteq Rank
  BY Zenon DEF IInv, Shape, LookupTimeout
<1>2. \A q \in Rank : open[q] => pc'[q] = "connect"
  BY Zenon DEF IInv, Shape, Waits, LookupTimeout
<1> QED
  BY <1>1, <1>2, PcStep, Zenon DEF LookupTimeout

\* The join of the acceptor: the rank has no attempt open any more.
LEMMA JoinStep ==
  ASSUME IInv, NEW r \in Rank, Join(r)
  PROVE  IInv'
<1>1. /\ pc' \in [Rank -> {"start", "lookup", "connect", "done", "threw", "dead"}]
      /\ store' \subseteq Rank
  BY Zenon DEF IInv, Shape, Join
<1>2. \A q \in Rank : open[q] => pc'[q] = "connect"
  BY DEF IInv, Shape, Waits, Join
<1> QED
  BY <1>1, <1>2, PcStep, Zenon DEF Join

\* All endpoints are known: the acceptor is started.
LEMMA LookupStep ==
  ASSUME IInv, NEW r \in Rank, Lookup(r)
  PROVE  IInv'
<1>1. Shape'
  BY Zenon DEF IInv, Shape, Lookup
<1>2. Connections' /\ Stored' /\ Settled'
  BY DEF IInv, Connections, Stored, Settled, Lookup
<1>3. Waits'
  BY Zenon DEF IInv, Shape, Waits, Current, Lookup
<1>4. \A p \in Rank : InHand(p)' \subseteq InHand(p) /\ acc'[p].n = acc[p].n
                      /\ (acc'[p].at = "write" => acc[p].at = "write")
  BY Zenon DEF IInv, Shape, InHand, Lookup
<1>5. InOrder' /\ LastAnswered'
  <2>1. UNCHANGED <<conn, backlog, peer_fds>>
    BY Zenon DEF Lookup
  <2>2. \A c \in DOMAIN conn : c.to \in Rank
    BY Zenon DEF IInv, Connections, ConnId
  <2>3. InOrder'
    BY <1>4, <2>1 DEF IInv, InOrder
  <2>4. LastAnswered'
    BY <1>4, <2>1, <2>2, Zenon DEF IInv, LastAnswered
  <2> QED
    BY <2>3, <2>4, Zenon
<1> QED
  BY <1>1, <1>2, <1>3, <1>5, Zenon DEF IInv

\* Closing the client's end of some connections keeps the invariant: only
\* the acceptor asks whether it is open.
LEMMA CloseStep ==
  ASSUME IInv, NEW S,
         conn' = [c \in DOMAIN conn |->
                    IF c \in S THEN [conn[c] EXCEPT !.client = FALSE]
                    ELSE conn[c]],
         pc' \in [Rank -> {"start", "lookup", "connect", "done", "threw", "dead"}],
         open' \in [Rank -> BOOLEAN],
         \A r \in Rank : open'[r] => open[r] /\ pc'[r] = "connect",
         UNCHANGED <<store, nxt, try, backlog, acc, peer_fds>>
  PROVE  IInv'
<1>1. Shape'
  BY Zenon DEF IInv, Shape
<1>2. /\ DOMAIN conn' = DOMAIN conn
      /\ \A c \in DOMAIN conn :
           /\ conn'[c].net = conn[c].net
           /\ conn'[c].sent = conn[c].sent
           /\ conn'[c].answer = conn[c].answer
           /\ conn'[c] \in [net : {conn[c].net}, sent : BOOLEAN,
                            client : BOOLEAN, answer : BOOLEAN]
  BY Zenon DEF IInv, Connections
<1>3. Connections'
  BY <1>2 DEF IInv, Connections
<1>4. Waits'
  BY <1>2, Zenon DEF IInv, Waits, Current
<1>5. InOrder'
  BY <1>2 DEF IInv, InOrder, InHand
<1>6. LastAnswered'
  <2>1. \A p : InHand(p)' = InHand(p)
    BY Zenon DEF InHand
  <2>2. ASSUME NEW c \in DOMAIN conn, conn'[c].answer PROVE conn[c].answer
    BY <1>2, <2>2, Zenon
  <2>3. ASSUME NEW c \in DOMAIN conn, conn[c].answer
        PROVE  /\ \A d \in InHand(c.to) : d.from = c.from => c.k < d.k
               /\ \A i \in DOMAIN backlog[c.to] :
                    backlog[c.to][i].from = c.from => c.k < backlog[c.to][i].k
               /\ peer_fds[c.to][c.from] # NoFd
               /\ c.k <= peer_fds[c.to][c.from].k
    BY <2>3, Zenon DEF IInv, LastAnswered
  <2>4. ASSUME NEW c \in DOMAIN conn', conn'[c].answer
        PROVE  c \in DOMAIN conn /\ conn[c].answer
    BY <1>2, <2>2, <2>4, Zenon
  <2>5. UNCHANGED <<backlog, peer_fds>>
    OBVIOUS
  <2> QED
    BY <2>1, <2>3, <2>4, <2>5, Zenon DEF LastAnswered
<1>7. Stored' /\ Settled'
  BY <1>2 DEF IInv, Stored, Settled
<1> QED
  BY <1>1, <1>3, <1>4, <1>5, <1>6, <1>7, Zenon DEF IInv

\* The connecting side gives up waiting for the answer.
LEMMA AnswerTimeoutStep ==
  ASSUME IInv, NEW r \in Rank, AnswerTimeout(r)
  PROVE  IInv'
<1>1. Current(r) \in DOMAIN conn
  BY Zenon DEF IInv, Waits, AnswerTimeout
<1>2. conn' = [c \in DOMAIN conn |->
                 IF c \in {Current(r)} THEN [conn[c] EXCEPT !.client = FALSE]
                 ELSE conn[c]]
  BY <1>1, Zenon DEF AnswerTimeout
<1>3. open' \in [Rank -> BOOLEAN]
      /\ \A q \in Rank : open'[q] => open[q] /\ pc'[q] = "connect"
  BY Zenon DEF IInv, Shape, Waits, AnswerTimeout
<1> QED
  BY <1>2, <1>3, CloseStep, Zenon DEF AnswerTimeout, IInv, Shape

\* The deadline passes: the process ends and its sockets are closed.
LEMMA GiveUpStep ==
  ASSUME IInv, NEW r \in Rank, GiveUp(r)
  PROVE  IInv'
<1> DEFINE S == {c \in DOMAIN conn : c.from = r}
<1>1. conn' = [c \in DOMAIN conn |->
                 IF c \in S THEN [conn[c] EXCEPT !.client = FALSE]
                 ELSE conn[c]]
  BY Zenon DEF GiveUp
<1>2. pc' \in [Rank -> {"start", "lookup", "connect", "done", "threw", "dead"}]
  BY Zenon DEF IInv, Shape, GiveUp
<1>3. open' \in [Rank -> BOOLEAN]
      /\ \A q \in Rank : open'[q] => open[q] /\ pc'[q] = "connect"
  BY Zenon DEF IInv, Shape, Waits, GiveUp
<1> HIDE DEF S
<1> QED
  BY <1>1, <1>2, <1>3, CloseStep, Zenon DEF GiveUp

\* The answer has come: by the order of connections it is on the one that
\* the higher rank has stored last, and there is no younger one.
LEMMA AnsweredStep ==
  ASSUME IInv, NEW r \in Rank, Answered(r)
  PROVE  IInv'
<1> DEFINE p == nxt[r]
           c == Current(r)
<1>1. /\ p \in Rank /\ p + 1 \in 1 .. World /\ open[r]
      /\ c \in DOMAIN conn /\ conn[c].answer
  <2>1. open[r] /\ p < World /\ conn[c].answer
    BY Zenon DEF Answered, Connecting, HasAnswer
  <2>2. p \in 1 .. World
    BY Zenon DEF IInv, Shape
  <2>3. c \in DOMAIN conn
    BY <2>1, Zenon DEF IInv, Waits
  <2> QED
    BY <2>1, <2>2, <2>3, WorldAssumption DEF Rank
<1>2. c \in ConnId /\ c.from = r /\ c.to = p /\ c.k = try[r] /\ r < p
  BY <1>1, Zenon DEF IInv, Connections, Current, Id
<1>3. /\ peer_fds' = [peer_fds EXCEPT ![r][p] = c]
      /\ nxt' = [nxt EXCEPT ![r] = p + 1]
      /\ try' = [try EXCEPT ![r] = 0]
      /\ open' = [open EXCEPT ![r] = FALSE]
      /\ UNCHANGED <<pc, store, conn, backlog, acc>>
  BY Zenon DEF Answered
<1>4. \A d \in DOMAIN conn : d.from = r /\ d.to = p => d.k <= c.k
  BY <1>2, Zenon DEF IInv, Connections
<1>5. peer_fds[p][r] = c
  <2>1. peer_fds[p][r] # NoFd /\ c.k <= peer_fds[p][r].k
    BY <1>1, <1>2, Zenon DEF IInv, LastAnswered
  <2> DEFINE d == peer_fds[p][r]
  <2>2. d \in DOMAIN conn
    BY <1>1, <2>1, Zenon DEF IInv, Stored
  <2>3. d.from < d.to /\ d \in ConnId
    BY <2>2, Zenon DEF IInv, Connections
  <2>4. d.from = r /\ d.to = p
    BY <1>1, <1>2, <2>1, <2>3 DEF IInv, Stored, Rank
  <2>5. d.k = c.k
    BY <1>2, <1>4, <2>1, <2>2, <2>3, <2>4 DEF ConnId
  <2> QED
    BY <1>2, <2>3, <2>4, <2>5 DEF ConnId
<1> HIDE DEF p, c
<1>6. Shape'
  <2>1. /\ nxt' \in [Rank -> 1 .. World] /\ try' \in [Rank -> Nat]
        /\ open' \in [Rank -> BOOLEAN]
    BY <1>1, <1>3, Zenon DEF IInv, Shape
  <2>2. \A q \in Rank : q < nxt'[q]
    BY <1>1, <1>2, <1>3 DEF IInv, Shape, Rank
  <2>3. peer_fds' \in [Rank -> [Rank -> ConnId \cup {NoFd}]]
    BY <1>1, <1>2, <1>3, Zenon DEF IInv, Shape
  <2> QED
    BY <1>3, <2>1, <2>2, <2>3, Zenon DEF IInv, Shape
<1>7. \A a, b \in Rank : peer_fds'[a][b] = IF a = r /\ b = p THEN c
                                           ELSE peer_fds[a][b]
  BY <1>1, <1>3, Zenon DEF IInv, Shape
<1>8. \A q \in Rank : /\ nxt'[q] = IF q = r THEN p + 1 ELSE nxt[q]
                      /\ q # r => try'[q] = try[q]
  BY <1>3, Zenon DEF IInv, Shape
<1>9. p = nxt[r]
  BY Zenon DEF p
<1>10. \A d \in DOMAIN conn : d.from \in Rank /\ d.to \in Rank /\ d \in ConnId
  BY Zenon DEF IInv, Connections, ConnId
<1>11. Connections'
  BY <1>1, <1>3, <1>8, <1>9, <1>10 DEF IInv, Connections, Rank
<1>12. Waits'
  <2>1. \A q \in Rank : open'[q] => q # r /\ open[q]
    BY <1>3, Zenon DEF IInv, Shape
  <2> QED
    BY <1>3, <1>8, <2>1, Zenon DEF IInv, Waits, Current
<1>13. InOrder'
  BY <1>3 DEF IInv, InOrder, InHand
<1>14. LastAnswered'
  <2>1. \A d \in DOMAIN conn : peer_fds'[d.to][d.from] = peer_fds[d.to][d.from]
    <3>1. \A d \in DOMAIN conn : ~(d.to = r /\ d.from = p)
      BY <1>1, <1>2, <1>10 DEF IInv, Connections, Rank
    <3> QED
      BY <1>7, <1>10, <3>1, Zenon
  <2>2. \A q : InHand(q)' = InHand(q)
    BY <1>3, Zenon DEF InHand
  <2> QED
    BY <1>3, <2>1, <2>2, Zenon DEF IInv, LastAnswered
<1>15. Stored'
  BY <1>1, <1>2, <1>3, <1>7 DEF IInv, Stored
<1>16. Settled'
  <2> SUFFICES ASSUME NEW a \in Rank, NEW b \in Rank, a < b, b < nxt'[a]
               PROVE  /\ peer_fds'[a][b] \in DOMAIN conn
                      /\ conn[peer_fds'[a][b]].answer
                      /\ \A d \in DOMAIN conn : d.from = a /\ d.to = b =>
                           d.k <= peer_fds'[a][b].k
                      /\ peer_fds'[b][a] = peer_fds'[a][b]
    BY <1>3 DEF Settled
  <2>1. CASE a = r /\ b = p
    BY <1>1, <1>2, <1>4, <1>5, <1>7, <2>1 DEF Rank
  <2>2. CASE ~(a = r /\ b = p)
    <3>1. b < nxt[a] /\ ~(b = r /\ a = p)
      BY <1>1, <1>2, <1>8, <1>9, <2>2 DEF Rank
    <3> QED
      BY <1>7, <2>2, <3>1 DEF IInv, Settled
  <2> QED
    BY <2>1, <2>2, Zenon
<1> QED
  BY <1>6, <1>11, <1>12, <1>13, <1>14, <1>15, <1>16, Zenon DEF IInv

\* The position in a list of n addresses after a attempts.
LEMMA ModIndex ==
  ASSUME NEW a \in Nat, NEW n \in Nat, n # 0
  PROVE  (a % n) + 1 \in 1 .. n
OBVIOUS

\* Every address in the list that the constructor of r tries for p is one it
\* may use (CandidateReachable below).
Usable(r, p) ==
  /\ Len(Candidates[r][p]) \in Nat
  /\ \A i \in 1 .. Len(Candidates[r][p]) :
       Candidates[r][p][i] \in Reachable(r, p)

\* A new attempt is younger than all those before it, and the last in the
\* backlog; a refused one only counts.
LEMMA ConnectStep ==
  ASSUME IInv, NEW r \in Rank, NEW how \in {"refused", "unsent", "sent"},
         Connect(r, how), \A p \in Rank : Usable(r, p)
  PROVE  IInv'
<1> DEFINE p == nxt[r]
           c == Id(r, p, try[r] + 1)
           nets == Candidates[r][p]
           sent == how = "sent"
           v == [net |-> nets[(try[r] % Len(nets)) + 1], sent |-> sent,
                 client |-> sent, answer |-> FALSE]
<1>1. /\ pc[r] = "connect" /\ p < World /\ ~open[r]
      /\ try[r] < MaxPasses * Len(nets)
      /\ try' = [try EXCEPT ![r] = @ + 1]
      /\ open' = [open EXCEPT ![r] = sent]
      /\ UNCHANGED <<pc, store, nxt, acc, peer_fds>>
  BY Zenon DEF Connect, Connecting
<1>2. /\ p \in Rank /\ try[r] \in Nat /\ sent \in BOOLEAN
  <2>1. p \in 1 .. World /\ try[r] \in Nat
    BY Zenon DEF IInv, Shape
  <2> QED
    BY <1>1, <2>1, WorldAssumption DEF Rank
<1>3. /\ try' \in [Rank -> Nat] /\ open' \in [Rank -> BOOLEAN]
      /\ \A q \in Rank : try'[q] = IF q = r THEN try[r] + 1 ELSE try[q]
      /\ \A q \in Rank : open'[q] = IF q = r THEN sent ELSE open[q]
  BY <1>1, <1>2 DEF IInv, Shape
<1>4. CASE how = "refused"
  <2>1. UNCHANGED <<conn, backlog>> /\ sent = FALSE
    BY <1>4, Zenon DEF Connect
  <2>2. Shape'
    BY <1>1, <1>3, <2>1, Zenon DEF IInv, Shape
  <2>3. Connections'
    <3>1. \A d \in DOMAIN conn : d.from \in Rank /\ d.k \in Nat
      BY Zenon DEF IInv, Connections, ConnId
    <3>2. \A d \in DOMAIN conn : d.to = nxt[d.from] => d.k <= try'[d.from]
      BY <1>2, <1>3, <3>1 DEF IInv, Connections
    <3> QED
      BY <1>1, <2>1, <3>2, Zenon DEF IInv, Connections
  <2>4. Waits'
    <3>1. \A q \in Rank : open'[q] => q # r /\ open[q]
      BY <1>3, <2>1, Zenon
    <3> QED
      BY <1>1, <1>3, <2>1, <3>1, Zenon DEF IInv, Waits, Current
  <2>5. InOrder' /\ Stored' /\ Settled'
    BY <1>1, <2>1 DEF IInv, InOrder, InHand, Stored, Settled
  <2>6. LastAnswered'
    <3>1. \A q : InHand(q)' = InHand(q)
      BY <1>1, Zenon DEF InHand
    <3> QED
      BY <1>1, <2>1, <3>1, Zenon DEF IInv, LastAnswered
  <2> QED
    BY <2>2, <2>3, <2>4, <2>5, <2>6, Zenon DEF IInv
<1>5. CASE how # "refused"
  <2>1. /\ conn' = [d \in DOMAIN conn \cup {c} |-> IF d # c THEN conn[d] ELSE v]
        /\ backlog' = [backlog EXCEPT ![p] = Append(@, c)]
    BY <1>5, Zenon DEF Connect
  <2>2. c \in ConnId /\ c.from = r /\ c.to = p /\ c.k = try[r] + 1
    BY <1>2 DEF ConnId, Id
  <2>3. c \notin DOMAIN conn
        /\ \A d \in DOMAIN conn : d.from = r /\ d.to = p => d.k < c.k
    BY <1>2, <2>2 DEF IInv, Connections, ConnId
  <2>4. /\ v.net \in Reachable(r, p)
        /\ v \in [net : {v.net}, sent : BOOLEAN, client : BOOLEAN,
                  answer : BOOLEAN]
        /\ v.answer = FALSE
    <3>1. Len(nets) \in Nat
      BY <1>2, Zenon DEF Usable
    <3>2. Len(nets) # 0
      <4>1. MaxPasses * 0 = 0
        BY MaxPassesAssumption
      <4> QED
        BY <1>1, <1>2, <4>1
    <3>3. (try[r] % Len(nets)) + 1 \in 1 .. Len(nets)
      BY <1>2, <3>1, <3>2, ModIndex, Zenon
    <3>4. nets[(try[r] % Len(nets)) + 1] \in Reachable(r, p)
      BY <1>2, <3>3, Zenon DEF Usable
    <3> QED
      BY <1>2, <3>4, Zenon
  <2> HIDE DEF v
  <2>5. /\ DOMAIN conn' = DOMAIN conn \cup {c}
        /\ conn'[c] = v
        /\ \A d \in DOMAIN conn : conn'[d] = conn[d]
    BY <2>1, <2>3, Zenon
  <2> HIDE DEF p, c, sent, nets
  <2>6. /\ backlog' \in [Rank -> Seq(ConnId)]
        /\ \A q \in Rank : q # p => backlog'[q] = backlog[q]
        /\ DOMAIN backlog[p] = 1 .. Len(backlog[p]) /\ Len(backlog[p]) \in Nat
        /\ DOMAIN backlog'[p] = 1 .. Len(backlog[p]) + 1
        /\ \A i \in DOMAIN backlog[p] : backlog'[p][i] = backlog[p][i]
        /\ backlog'[p][Len(backlog[p]) + 1] = c
    BY <1>2, <2>1, <2>2 DEF IInv, Shape
  <2>7. Shape'
    BY <1>1, <1>3, <2>6, Zenon DEF IInv, Shape
  <2>8. \A d \in DOMAIN conn : d.from \in Rank /\ d.to \in Rank /\ d.k \in Nat
    BY Zenon DEF IInv, Connections, ConnId
  <2>9. p = nxt[r] /\ r < p
    <3>1. r < nxt[r]
      BY Zenon DEF IInv, Shape
    <3> QED
      BY <3>1, Zenon DEF p
  <2>10. Connections'
    <3>1. ASSUME NEW d \in DOMAIN conn
          PROVE  d.to = nxt[d.from] => d.k <= try'[d.from]
      BY <1>2, <1>3, <2>8 DEF IInv, Connections
    <3>2. c.to <= nxt[c.from] /\ c.k <= try'[c.from]
      BY <1>2, <1>3, <2>2, <2>9 DEF Rank
    <3> QED
      BY <1>1, <2>2, <2>4, <2>5, <2>9, <3>1, <3>2, Zenon DEF IInv, Connections
  <2>11. Waits'
    <3> SUFFICES ASSUME NEW q \in Rank, open'[q]
                 PROVE  pc[q] = "connect" /\ nxt[q] < World
                        /\ Id(q, nxt[q], try'[q]) \in DOMAIN conn'
      BY <1>1, Zenon DEF Waits, Current
    <3>1. CASE q = r
      BY <1>1, <1>3, <2>5, <2>9, <3>1, Zenon DEF c, p
    <3>2. CASE q # r
      BY <1>3, <2>5, <3>2, Zenon DEF IInv, Waits, Current
    <3> QED
      BY <3>1, <3>2, Zenon
  <2>12. \A q : InHand(q)' = InHand(q)
    BY <1>1, Zenon DEF InHand
  <2>13. InOrder'
    <3> SUFFICES ASSUME NEW q \in Rank
                 PROVE  /\ acc[q].n <= q
                        /\ InHand(q) # {} => acc[q].n < q
                        /\ \A d \in InHand(q) :
                             /\ d \in DOMAIN conn' /\ d.to = q
                             /\ acc[q].at = "write" => conn'[d].sent
                             /\ \A i \in DOMAIN backlog'[q] :
                                  backlog'[q][i].from = d.from =>
                                    d.k < backlog'[q][i].k
                        /\ \A i \in DOMAIN backlog'[q] :
                             backlog'[q][i] \in DOMAIN conn'
                             /\ backlog'[q][i].to = q
                        /\ \A i, j \in DOMAIN backlog'[q] :
                             i < j /\ backlog'[q][i].from = backlog'[q][j].from
                               => backlog'[q][i].k < backlog'[q][j].k
      BY <1>1, <2>12, Zenon DEF InOrder
    <3>1. acc[q].n <= q /\ (InHand(q) # {} => acc[q].n < q)
      BY Zenon DEF IInv, InOrder
    <3>2. \A d \in InHand(q) :
            d \in DOMAIN conn /\ d.to = q /\ (acc[q].at = "write" => conn[d].sent)
      BY Zenon DEF IInv, InOrder
    <3>3. \A i \in DOMAIN backlog[q] :
            backlog[q][i] \in DOMAIN conn /\ backlog[q][i].to = q
      BY Zenon DEF IInv, InOrder
    <3>4. CASE q # p
      <4>1. backlog'[q] = backlog[q]
        BY <2>6, <3>4, Zenon
      <4>2. /\ \A d \in InHand(q) : \A i \in DOMAIN backlog[q] :
                 backlog[q][i].from = d.from => d.k < backlog[q][i].k
            /\ \A i, j \in DOMAIN backlog[q] :
                 i < j /\ backlog[q][i].from = backlog[q][j].from =>
                   backlog[q][i].k < backlog[q][j].k
        BY Zenon DEF IInv, InOrder
      <4> QED
        BY <2>5, <3>1, <3>2, <3>3, <4>1, <4>2
    <3>5. CASE q = p
      <4>1. \A i \in DOMAIN backlog'[p] :
              \/ i \in DOMAIN backlog[p] /\ backlog'[p][i] = backlog[p][i]
              \/ i = Len(backlog[p]) + 1 /\ backlog'[p][i] = c
        BY <2>6
      <4>2. ASSUME NEW d \in InHand(p), NEW i \in DOMAIN backlog'[p],
                   backlog'[p][i].from = d.from
            PROVE  d.k < backlog'[p][i].k
        BY <2>2, <2>3, <3>2, <3>5, <4>1, <4>2, <1>2 DEF IInv, InOrder
      <4>3. ASSUME NEW i \in DOMAIN backlog'[p], NEW j \in DOMAIN backlog'[p],
                   i < j, backlog'[p][i].from = backlog'[p][j].from
            PROVE  backlog'[p][i].k < backlog'[p][j].k
        <5>1. i \in DOMAIN backlog[p] /\ backlog'[p][i] = backlog[p][i]
          BY <2>6, <4>3
        <5>2. CASE j \in DOMAIN backlog[p]
          <6>1. backlog'[p][j] = backlog[p][j]
            BY <2>6, <5>2, Zenon
          <6>2. \A a, b \in DOMAIN backlog[p] :
                  a < b /\ backlog[p][a].from = backlog[p][b].from =>
                    backlog[p][a].k < backlog[p][b].k
            BY <1>2, Zenon DEF IInv, InOrder
          <6> QED
            BY <4>3, <5>1, <5>2, <6>1, <6>2, Zenon
        <5>3. CASE j \notin DOMAIN backlog[p]
          BY <2>2, <2>3, <3>3, <3>5, <4>1, <4>3, <5>1, <5>3, Zenon
        <5> QED
          BY <5>2, <5>3, Zenon
      <4>4. \A i \in DOMAIN backlog'[p] :
              backlog'[p][i] \in DOMAIN conn' /\ backlog'[p][i].to = p
        BY <2>2, <2>5, <3>3, <3>5, <4>1
      <4> QED
        BY <2>5, <3>1, <3>2, <3>5, <4>2, <4>3, <4>4, Zenon
    <3> QED
      BY <3>4, <3>5, Zenon
  <2>14. LastAnswered'
    <3> SUFFICES ASSUME NEW d \in DOMAIN conn, conn[d].answer
                 PROVE  /\ \A e \in InHand(d.to) : e.from = d.from => d.k < e.k
                        /\ \A i \in DOMAIN backlog'[d.to] :
                             backlog'[d.to][i].from = d.from =>
                               d.k < backlog'[d.to][i].k
                        /\ peer_fds[d.to][d.from] # NoFd
                        /\ d.k <= peer_fds[d.to][d.from].k
      BY <1>1, <2>4, <2>5, <2>12, Zenon DEF LastAnswered
    <3>1. /\ \A e \in InHand(d.to) : e.from = d.from => d.k < e.k
          /\ \A i \in DOMAIN backlog[d.to] :
               backlog[d.to][i].from = d.from => d.k < backlog[d.to][i].k
          /\ peer_fds[d.to][d.from] # NoFd
          /\ d.k <= peer_fds[d.to][d.from].k
      BY Zenon DEF IInv, LastAnswered
    <3>2. CASE d.to # p
      BY <2>6, <2>8, <3>1, <3>2, Zenon
    <3>3. CASE d.to = p
      <4>1. ASSUME NEW i \in DOMAIN backlog'[p], backlog'[p][i].from = d.from
            PROVE  d.k < backlog'[p][i].k
        <5>1. CASE i \in DOMAIN backlog[p]
          BY <2>6, <3>1, <3>3, <4>1, <5>1, Zenon
        <5>2. CASE i \notin DOMAIN backlog[p]
          <6>1. i = Len(backlog[p]) + 1
            BY <2>6, <4>1, <5>2
          <6>2. backlog'[p][i] = c
            BY <2>6, <6>1, Zenon
          <6> QED
            BY <2>2, <2>3, <3>3, <4>1, <6>2
        <5> QED
          BY <5>1, <5>2, Zenon
      <4> QED
        BY <3>1, <3>3, <4>1, Zenon
    <3> QED
      BY <3>2, <3>3, Zenon
  <2>15. Stored'
    BY <1>1, <2>5 DEF IInv, Stored
  <2>16. Settled'
    <3> SUFFICES ASSUME NEW a \in Rank, NEW b \in Rank, a < b, b < nxt[a]
                 PROVE  /\ peer_fds[a][b] \in DOMAIN conn'
                        /\ conn'[peer_fds[a][b]].answer
                        /\ \A d \in DOMAIN conn' : d.from = a /\ d.to = b =>
                             d.k <= peer_fds[a][b].k
                        /\ peer_fds[b][a] = peer_fds[a][b]
      BY <1>1 DEF Settled
    <3>1. /\ peer_fds[a][b] \in DOMAIN conn
          /\ conn[peer_fds[a][b]].answer
          /\ \A d \in DOMAIN conn : d.from = a /\ d.to = b =>
               d.k <= peer_fds[a][b].k
          /\ peer_fds[b][a] = peer_fds[a][b]
      BY Zenon DEF IInv, Settled
    <3>2. ~(c.from = a /\ c.to = b)
      BY <2>2, <2>9 DEF Rank
    <3> QED
      BY <2>5, <3>1, <3>2, Zenon
  <2> QED
    BY <2>7, <2>10, <2>11, <2>13, <2>14, <2>15, <2>16, Zenon DEF IInv
<1> QED
  BY <1>4, <1>5, Zenon

\* The acceptor goes on to the next accept without storing anything.
LEMMA DropStep ==
  ASSUME IInv, NEW r \in Rank, acc' = Taken(r), acc[r].n < r,
         \/ UNCHANGED backlog
         \/ backlog[r] # <<>> /\ backlog' = [backlog EXCEPT ![r] = Tail(@)],
         UNCHANGED <<pc, store, nxt, try, open, conn, peer_fds>>
  PROVE  IInv'
<1>1. /\ acc' \in [Rank -> [at : {"none", "accept", "read", "write"}, n : Nat,
                            c : ConnId \cup {NoFd}]]
      /\ \A p \in Rank : p # r => acc'[p] = acc[p]
      /\ acc'[r].at = "accept" /\ acc'[r].n = acc[r].n + 1
  BY DEF IInv, Shape, Taken
<1>2. \A p \in Rank : InHand(p)' \subseteq InHand(p)
  BY <1>1, Zenon DEF InHand
<1>3. /\ backlog' \in [Rank -> Seq(ConnId)]
      /\ \A p \in Rank :
           \E k \in {0, 1} : \A i \in DOMAIN backlog'[p] :
             i + k \in DOMAIN backlog[p] /\ backlog'[p][i] = backlog[p][i + k]
  <2>1. CASE UNCHANGED backlog
    BY <2>1 DEF IInv, Shape
  <2>2. CASE backlog[r] # <<>> /\ backlog' = [backlog EXCEPT ![r] = Tail(@)]
    <3>1. backlog[r] \in Seq(ConnId)
      BY Zenon DEF IInv, Shape
    <3>2. /\ Tail(backlog[r]) \in Seq(ConnId)
          /\ \A i \in DOMAIN Tail(backlog[r]) :
               i + 1 \in DOMAIN backlog[r]
               /\ Tail(backlog[r])[i] = backlog[r][i + 1]
      BY <2>2, <3>1
    <3>3. backlog' \in [Rank -> Seq(ConnId)]
      BY <2>2, <3>2, Zenon DEF IInv, Shape
    <3>4. ASSUME NEW p \in Rank
          PROVE  \E k \in {0, 1} : \A i \in DOMAIN backlog'[p] :
                   i + k \in DOMAIN backlog[p]
                   /\ backlog'[p][i] = backlog[p][i + k]
      <4>1. CASE p = r
        <5>1. backlog'[p] = Tail(backlog[r])
          BY <2>2, <4>1, Zenon DEF IInv, Shape
        <5> QED
          BY <3>2, <4>1, <5>1, Zenon
      <4>2. CASE p # r
        <5>1. backlog'[p] = backlog[p] /\ backlog[p] \in Seq(ConnId)
          BY <2>2, <4>2, Zenon DEF IInv, Shape
        <5>2. \A i \in DOMAIN backlog[p] : i + 0 = i
          BY <5>1
        <5> QED
          BY <5>1, <5>2, Zenon
      <4> QED
        BY <4>1, <4>2, Zenon
    <3> QED
      BY <3>3, <3>4, Zenon
  <2> QED
    BY <2>1, <2>2, Zenon
<1>4. Shape'
  BY <1>1, <1>3, Zenon DEF IInv, Shape
<1>5. Connections' /\ Stored' /\ Settled'
  BY DEF IInv, Connections, Stored, Settled
<1>6. Waits'
  BY Zenon DEF IInv, Waits, Current
<1>7. InOrder'
  <2> SUFFICES ASSUME NEW p \in Rank
               PROVE  /\ acc'[p].n <= p
                      /\ InHand(p)' # {} => acc'[p].n < p
                      /\ \A c \in InHand(p)' :
                           /\ c \in DOMAIN conn /\ c.to = p
                           /\ acc'[p].at = "write" => conn[c].sent
                           /\ \A i \in DOMAIN backlog'[p] :
                                backlog'[p][i].from = c.from =>
                                  c.k < backlog'[p][i].k
                      /\ \A i \in DOMAIN backlog'[p] :
                           backlog'[p][i] \in DOMAIN conn
                           /\ backlog'[p][i].to = p
                      /\ \A i, j \in DOMAIN backlog'[p] :
                           i < j /\ backlog'[p][i].from = backlog'[p][j].from
                             => backlog'[p][i].k < backlog'[p][j].k
    BY Zenon DEF InOrder
  <2>1. PICK k \in {0, 1} : \A i \in DOMAIN backlog'[p] :
          i + k \in DOMAIN backlog[p] /\ backlog'[p][i] = backlog[p][i + k]
    BY <1>3, Zenon
  <2>2. DOMAIN backlog'[p] \subseteq Nat
    BY <1>3
  <2>3. acc'[p].n <= p /\ (InHand(p)' # {} => acc'[p].n < p)
    <3>1. CASE p = r
      BY <1>1, <3>1 DEF IInv, Shape, InHand, Rank
    <3>2. CASE p # r
      BY <1>1, <3>2, Zenon DEF IInv, InOrder, InHand
    <3> QED
      BY <3>1, <3>2, Zenon
  <2>4. \A c \in InHand(p)' :
          /\ c \in DOMAIN conn /\ c.to = p
          /\ acc'[p].at = "write" => conn[c].sent
    <3>1. CASE p = r
      BY <1>1, <3>1, Zenon DEF InHand
    <3>2. CASE p # r
      BY <1>1, <1>2, <3>2 DEF IInv, InOrder
    <3> QED
      BY <3>1, <3>2, Zenon
  <2>5. ASSUME NEW c \in InHand(p)', NEW i \in DOMAIN backlog'[p],
               backlog'[p][i].from = c.from
        PROVE  c.k < backlog'[p][i].k
    BY <1>2, <2>1, <2>5 DEF IInv, InOrder
  <2>6. \A i \in DOMAIN backlog'[p] :
          backlog'[p][i] \in DOMAIN conn /\ backlog'[p][i].to = p
    BY <2>1 DEF IInv, InOrder
  <2>7. ASSUME NEW i \in DOMAIN backlog'[p], NEW j \in DOMAIN backlog'[p],
               i < j, backlog'[p][i].from = backlog'[p][j].from
        PROVE  backlog'[p][i].k < backlog'[p][j].k
    <3>1. i + k < j + k
      BY <2>2, <2>7
    <3> QED
      BY <2>1, <2>7, <3>1 DEF IInv, InOrder
  <2> QED
    BY <2>3, <2>4, <2>5, <2>6, <2>7, Zenon
<1>8. LastAnswered'
  <2> SUFFICES ASSUME NEW d \in DOMAIN conn, conn[d].answer
               PROVE  /\ \A e \in InHand(d.to)' : e.from = d.from => d.k < e.k
                      /\ \A i \in DOMAIN backlog'[d.to] :
                           backlog'[d.to][i].from = d.from =>
                             d.k < backlog'[d.to][i].k
                      /\ peer_fds[d.to][d.from] # NoFd
                      /\ d.k <= peer_fds[d.to][d.from].k
    BY Zenon DEF LastAnswered
  <2>1. d.to \in Rank
    BY Zenon DEF IInv, Connections, ConnId
  <2>2. /\ \A e \in InHand(d.to) : e.from = d.from => d.k < e.k
        /\ \A i \in DOMAIN backlog[d.to] :
             backlog[d.to][i].from = d.from => d.k < backlog[d.to][i].k
        /\ peer_fds[d.to][d.from] # NoFd
        /\ d.k <= peer_fds[d.to][d.from].k
    BY Zenon DEF IInv, LastAnswered
  <2>3. PICK k \in {0, 1} : \A i \in DOMAIN backlog'[d.to] :
          i + k \in DOMAIN backlog[d.to]
          /\ backlog'[d.to][i] = backlog[d.to][i + k]
    BY <1>3, <2>1, Zenon
  <2> QED
    BY <1>2, <2>1, <2>2, <2>3
<1> QED
  BY <1>4, <1>5, <1>6, <1>7, <1>8, Zenon DEF IInv

\* Reading the rank of the peer, or finding that the client is gone.
LEMMA ReadRankStep ==
  ASSUME IInv, NEW r \in Rank, ReadRank(r)
  PROVE  IInv'
<1> DEFINE c == acc[r].c
<1>1. /\ acc[r].at = "read" /\ UNCHANGED <<pc, store, nxt, try, open, conn,
                                           backlog, peer_fds>>
      /\ acc' = IF conn[c].sent THEN [acc EXCEPT ![r].at = "write"]
                ELSE Taken(r)
  BY Zenon DEF ReadRank, Accepting
<1>2. InHand(r) = {c} /\ acc[r].n < r /\ c \in DOMAIN conn
  <2>1. InHand(r) = {c}
    BY <1>1, Zenon DEF InHand
  <2> QED
    BY <2>1, Zenon DEF IInv, InOrder
<1>3. CASE ~conn[c].sent
  BY <1>1, <1>2, <1>3, DropStep, Zenon
<1>4. CASE conn[c].sent
  <2>1. /\ acc' \in [Rank -> [at : {"none", "accept", "read", "write"}, n : Nat,
                              c : ConnId \cup {NoFd}]]
        /\ \A p \in Rank : p # r => acc'[p] = acc[p]
        /\ acc'[r].at = "write" /\ acc'[r].n = acc[r].n /\ acc'[r].c = c
    BY <1>1, <1>4, Zenon DEF IInv, Shape
  <2>2. \A p \in Rank : InHand(p)' = InHand(p)
    <3>1. InHand(r)' = {c}
      BY <2>1, Zenon DEF InHand
    <3>2. \A p \in Rank : p # r => InHand(p)' = InHand(p)
      BY <2>1, Zenon DEF InHand
    <3> QED
      BY <1>2, <3>1, <3>2, Zenon
  <2>3. Shape'
    BY <1>1, <2>1, Zenon DEF IInv, Shape
  <2>4. Connections' /\ Stored' /\ Settled'
    BY <1>1 DEF IInv, Connections, Stored, Settled
  <2>5. Waits'
    BY <1>1, Zenon DEF IInv, Waits, Current
  <2>6. InOrder'
    <3>1. \A p \in Rank : acc'[p].n = acc[p].n
      BY <2>1, Zenon
    <3>2. \A p \in Rank : \A d \in InHand(p) : acc'[p].at = "write" => conn[d].sent
      BY <1>2, <1>4, <2>1 DEF IInv, InOrder
    <3> QED
      BY <1>1, <2>2, <3>1, <3>2 DEF IInv, InOrder
  <2>7. LastAnswered'
    <3>1. \A d \in DOMAIN conn : d.to \in Rank
      BY Zenon DEF IInv, Connections, ConnId
    <3> QED
      BY <1>1, <2>2, <3>1, Zenon DEF IInv, LastAnswered
  <2> QED
    BY <2>3, <2>4, <2>5, <2>6, <2>7, Zenon DEF IInv
<1> QED
  BY <1>3, <1>4, Zenon

\* Taking the oldest connection of the backlog, or finding it closed.
LEMMA AcceptStep ==
  ASSUME IInv, NEW r \in Rank, Accept(r)
  PROVE  IInv'
<1> DEFINE c == Head(backlog[r])
<1>1. /\ acc[r].n < r /\ backlog[r] # <<>> /\ acc[r].at = "accept"
      /\ backlog' = [backlog EXCEPT ![r] = Tail(@)]
      /\ UNCHANGED <<pc, store, nxt, try, open, conn, peer_fds>>
  BY Zenon DEF Accept, Accepting, pending_accepts
<1>2. CASE acc' = Taken(r)
  BY <1>1, <1>2, DropStep, Zenon
<1>3. CASE acc' = [acc EXCEPT ![r] = [@ EXCEPT !.at = "read", !.c = c]]
  <2>1. backlog[r] \in Seq(ConnId)
    BY Zenon DEF IInv, Shape
  <2>2. /\ 1 \in DOMAIN backlog[r] /\ c = backlog[r][1] /\ c \in ConnId
        /\ Tail(backlog[r]) \in Seq(ConnId)
        /\ DOMAIN Tail(backlog[r]) \subseteq Nat \ {0}
        /\ \A i \in DOMAIN Tail(backlog[r]) :
             i + 1 \in DOMAIN backlog[r]
             /\ Tail(backlog[r])[i] = backlog[r][i + 1]
    BY <1>1, <2>1
  <2> HIDE DEF c
  <2>3. /\ acc' \in [Rank -> [at : {"none", "accept", "read", "write"}, n : Nat,
                              c : ConnId \cup {NoFd}]]
        /\ \A p \in Rank : p # r => acc'[p] = acc[p]
        /\ acc'[r].at = "read" /\ acc'[r].n = acc[r].n /\ acc'[r].c = c
    <3> DEFINE R == [at : {"none", "accept", "read", "write"}, n : Nat,
                     c : ConnId \cup {NoFd}]
               a == [acc[r] EXCEPT !.at = "read", !.c = c]
    <3>1. acc' = [acc EXCEPT ![r] = a] /\ acc \in [Rank -> R]
      BY <1>3, Zenon DEF IInv, Shape
    <3>2. a \in R /\ a.at = "read" /\ a.n = acc[r].n /\ a.c = c
      <4>1. acc[r] \in R
        BY <3>1, Zenon
      <4> QED
        BY <2>2, <4>1, Zenon
    <3> HIDE DEF a, R
    <3>3. acc' \in [Rank -> R]
      BY <3>1, <3>2, Zenon
    <3>4. acc'[r] = a /\ \A p \in Rank : p # r => acc'[p] = acc[p]
      BY <3>1, Zenon
    <3> QED
      BY <3>2, <3>3, <3>4, Zenon DEF R
  <2>4. /\ InHand(r)' = {c} /\ \A p \in Rank : p # r => InHand(p)' = InHand(p)
    BY <2>3, Zenon DEF InHand
  <2>5. /\ backlog' \in [Rank -> Seq(ConnId)]
        /\ backlog'[r] = Tail(backlog[r])
        /\ \A p \in Rank : p # r => backlog'[p] = backlog[p]
        /\ \A i \in DOMAIN backlog'[r] :
             i \in Nat /\ i + 1 \in DOMAIN backlog[r] /\ 1 < i + 1
             /\ backlog'[r][i] = backlog[r][i + 1]
    <3>1. /\ backlog' \in [Rank -> Seq(ConnId)]
          /\ backlog'[r] = Tail(backlog[r])
          /\ \A p \in Rank : p # r => backlog'[p] = backlog[p]
      BY <1>1, <2>2, Zenon DEF IInv, Shape
    <3>2. \A i \in DOMAIN Tail(backlog[r]) :
             i \in Nat /\ i + 1 \in DOMAIN backlog[r] /\ 1 < i + 1
      BY <2>2
    <3> QED
      BY <2>2, <3>1, <3>2, Zenon
  <2>6. Shape'
    BY <1>1, <2>3, <2>5, Zenon DEF IInv, Shape
  <2>7. Connections' /\ Stored' /\ Settled'
    BY <1>1 DEF IInv, Connections, Stored, Settled
  <2>8. Waits'
    BY <1>1, Zenon DEF IInv, Waits, Current
  <2>9. \A i, j \in DOMAIN backlog[r] :
          i < j /\ backlog[r][i].from = backlog[r][j].from =>
            backlog[r][i].k < backlog[r][j].k
    BY Zenon DEF IInv, InOrder
  <2>10. \A i \in DOMAIN backlog[r] :
           backlog[r][i] \in DOMAIN conn /\ backlog[r][i].to = r
    BY Zenon DEF IInv, InOrder
  <2>11. InOrder'
    <3> SUFFICES ASSUME NEW p \in Rank
                 PROVE  /\ acc'[p].n <= p
                        /\ InHand(p)' # {} => acc'[p].n < p
                        /\ \A d \in InHand(p)' :
                             /\ d \in DOMAIN conn /\ d.to = p
                             /\ acc'[p].at = "write" => conn[d].sent
                             /\ \A i \in DOMAIN backlog'[p] :
                                  backlog'[p][i].from = d.from =>
                                    d.k < backlog'[p][i].k
                        /\ \A i \in DOMAIN backlog'[p] :
                             backlog'[p][i] \in DOMAIN conn
                             /\ backlog'[p][i].to = p
                        /\ \A i, j \in DOMAIN backlog'[p] :
                             i < j /\ backlog'[p][i].from = backlog'[p][j].from
                               => backlog'[p][i].k < backlog'[p][j].k
      BY <1>1 DEF InOrder
    <3>1. CASE p # r
      <4>1. acc'[p] = acc[p] /\ InHand(p)' = InHand(p) /\ backlog'[p] = backlog[p]
        BY <2>3, <2>4, <2>5, <3>1, Zenon
      <4> QED
        BY <4>1 DEF IInv, InOrder
    <3>2. CASE p = r
      <4>1. acc'[p].n <= p /\ acc'[p].n < p /\ acc'[p].at # "write"
        BY <1>1, <2>3, <3>2, Zenon DEF IInv, InOrder
      <4>2. ASSUME NEW i \in DOMAIN backlog'[p], backlog'[p][i].from = c.from
            PROVE  c.k < backlog'[p][i].k
        BY <2>2, <2>5, <2>9, <3>2, <4>2, Zenon
      <4>3. \A i \in DOMAIN backlog'[p] :
              backlog'[p][i] \in DOMAIN conn /\ backlog'[p][i].to = p
        BY <2>5, <2>10, <3>2, Zenon
      <4>4. ASSUME NEW i \in DOMAIN backlog'[p], NEW j \in DOMAIN backlog'[p],
                   i < j, backlog'[p][i].from = backlog'[p][j].from
            PROVE  backlog'[p][i].k < backlog'[p][j].k
        <5>1. i + 1 < j + 1
          BY <2>5, <3>2, <4>4
        <5> QED
          BY <2>5, <2>9, <3>2, <4>4, <5>1, Zenon
      <4> QED
        BY <2>2, <2>4, <2>10, <3>2, <4>1, <4>2, <4>3, <4>4
    <3> QED
      BY <3>1, <3>2, Zenon
  <2>12. LastAnswered'
    <3> SUFFICES ASSUME NEW d \in DOMAIN conn, conn[d].answer
                 PROVE  /\ \A e \in InHand(d.to)' : e.from = d.from => d.k < e.k
                        /\ \A i \in DOMAIN backlog'[d.to] :
                             backlog'[d.to][i].from = d.from =>
                               d.k < backlog'[d.to][i].k
                        /\ peer_fds[d.to][d.from] # NoFd
                        /\ d.k <= peer_fds[d.to][d.from].k
      BY <1>1, Zenon DEF LastAnswered
    <3>1. d.to \in Rank
      BY Zenon DEF IInv, Connections, ConnId
    <3>2. /\ \A e \in InHand(d.to) : e.from = d.from => d.k < e.k
          /\ \A i \in DOMAIN backlog[d.to] :
               backlog[d.to][i].from = d.from => d.k < backlog[d.to][i].k
          /\ peer_fds[d.to][d.from] # NoFd
          /\ d.k <= peer_fds[d.to][d.from].k
      BY Zenon DEF IInv, LastAnswered
    <3>3. CASE d.to # r
      <4>1. InHand(d.to)' = InHand(d.to) /\ backlog'[d.to] = backlog[d.to]
        <5>1. InHand(d.to)' = InHand(d.to)
          BY <2>4, <3>1, <3>3, Zenon
        <5>2. backlog'[d.to] = backlog[d.to]
          BY <2>5, <3>1, <3>3, Zenon
        <5> QED
          BY <5>1, <5>2, Zenon
      <4> QED
        BY <3>2, <4>1, Zenon
    <3>4. CASE d.to = r
      <4>1. InHand(d.to)' = {c}
        BY <2>3, <3>4, Zenon DEF InHand
      <4>2. \A i \in DOMAIN backlog'[d.to] :
              i + 1 \in DOMAIN backlog[d.to]
              /\ backlog'[d.to][i] = backlog[d.to][i + 1]
        BY <2>5, <3>4, Zenon
      <4> QED
        BY <2>2, <3>2, <3>4, <4>1, <4>2
    <3> QED
      BY <3>3, <3>4, Zenon
  <2> QED
    BY <2>6, <2>7, <2>8, <2>11, <2>12, Zenon DEF IInv
<1> QED
  BY <1>2, <1>3, Zenon DEF Accept

\* Sending the answer and storing the socket: the connection is younger than
\* all the acceptor answered before, so that the lower rank cannot have
\* settled on one of those.
LEMMA WriteRankStep ==
  ASSUME IInv, NEW r \in Rank, WriteRank(r)
  PROVE  IInv'
<1> DEFINE c == acc[r].c
<1>1. /\ acc[r].at = "write" /\ acc' = Taken(r)
      /\ UNCHANGED <<pc, store, nxt, try, open, backlog>>
  BY Zenon DEF WriteRank, Accepting
<1>2. InHand(r) = {c} /\ acc[r].n < r /\ c \in DOMAIN conn /\ c.to = r
      /\ conn[c].sent
  <2>1. InHand(r) = {c}
    BY <1>1, Zenon DEF InHand
  <2> QED
    BY <1>1, <2>1, Zenon DEF IInv, InOrder
<1>3. CASE UNCHANGED <<conn, peer_fds>>
  BY <1>1, <1>2, <1>3, DropStep, Zenon
<1>4. CASE /\ conn' = [conn EXCEPT ![c].answer = TRUE]
           /\ peer_fds' = Keep(r, c)
  <2>1. /\ c \in ConnId /\ c.from \in Rank /\ c.k \in Nat /\ c # NoFd
        /\ c.from < r
    BY <1>2 DEF IInv, Connections, ConnId, NoFd
  <2>2. /\ acc' \in [Rank -> [at : {"none", "accept", "read", "write"}, n : Nat,
                              c : ConnId \cup {NoFd}]]
        /\ \A p \in Rank : p # r => acc'[p] = acc[p]
        /\ acc'[r].at = "accept" /\ acc'[r].n = acc[r].n + 1
    BY <1>1 DEF IInv, Shape, Taken
  <2>3. InHand(r)' = {} /\ \A p \in Rank : p # r => InHand(p)' = InHand(p)
    BY <2>2, Zenon DEF InHand
  <2>4. /\ peer_fds' \in [Rank -> [Rank -> ConnId \cup {NoFd}]]
        /\ \A a, b \in Rank : peer_fds'[a][b] = IF a = r /\ b = c.from THEN c
                                                ELSE peer_fds[a][b]
    BY <1>4, <2>1, Zenon DEF IInv, Shape, Keep
  <2>5. /\ DOMAIN conn' = DOMAIN conn
        /\ \A d \in DOMAIN conn :
             /\ conn'[d].net = conn[d].net
             /\ conn'[d].sent = conn[d].sent
             /\ conn'[d] \in [net : {conn[d].net}, sent : BOOLEAN,
                              client : BOOLEAN, answer : BOOLEAN]
             /\ d # c => conn'[d] = conn[d]
        /\ conn'[c].answer
    BY <1>2, <1>4, Zenon DEF IInv, Connections
  <2> HIDE DEF c
  <2>6. \A d \in DOMAIN conn : d.from \in Rank /\ d.to \in Rank /\ d.k \in Nat
                               /\ d \in ConnId
    BY Zenon DEF IInv, Connections, ConnId
  <2>7. Shape'
    BY <1>1, <2>2, <2>4, Zenon DEF IInv, Shape
  <2>8. Connections'
    <3>1. ASSUME NEW d \in DOMAIN conn, conn'[d].answer PROVE conn'[d].sent
      BY <1>2, <2>5, <3>1, Zenon DEF IInv, Connections
    <3> QED
      BY <1>1, <2>5, <3>1, Zenon DEF IInv, Connections
  <2>9. Waits'
    BY <1>1, <2>5, Zenon DEF IInv, Waits, Current
  <2>10. InOrder'
    <3> SUFFICES ASSUME NEW p \in Rank
                 PROVE  /\ acc'[p].n <= p
                        /\ InHand(p)' # {} => acc'[p].n < p
                        /\ \A d \in InHand(p)' :
                             /\ d \in DOMAIN conn /\ d.to = p
                             /\ acc'[p].at = "write" => conn'[d].sent
                             /\ \A i \in DOMAIN backlog[p] :
                                  backlog[p][i].from = d.from =>
                                    d.k < backlog[p][i].k
                        /\ \A i \in DOMAIN backlog[p] :
                             backlog[p][i] \in DOMAIN conn
                             /\ backlog[p][i].to = p
                        /\ \A i, j \in DOMAIN backlog[p] :
                             i < j /\ backlog[p][i].from = backlog[p][j].from
                               => backlog[p][i].k < backlog[p][j].k
      BY <1>1, <2>5 DEF InOrder
    <3>1. /\ \A i \in DOMAIN backlog[p] :
               backlog[p][i] \in DOMAIN conn /\ backlog[p][i].to = p
          /\ \A i, j \in DOMAIN backlog[p] :
               i < j /\ backlog[p][i].from = backlog[p][j].from
                 => backlog[p][i].k < backlog[p][j].k
      BY Zenon DEF IInv, InOrder
    <3>2. CASE p = r
      <4>1. acc'[p].n <= p
        BY <1>2, <2>2, <3>2 DEF IInv, Shape, Rank
      <4> QED
        BY <2>3, <3>1, <3>2, <4>1, Zenon
    <3>3. CASE p # r
      <4>1. /\ acc[p].n <= p
            /\ InHand(p) # {} => acc[p].n < p
            /\ \A d \in InHand(p) :
                 /\ d \in DOMAIN conn /\ d.to = p
                 /\ acc[p].at = "write" => conn[d].sent
                 /\ \A i \in DOMAIN backlog[p] :
                      backlog[p][i].from = d.from => d.k < backlog[p][i].k
        BY Zenon DEF IInv, InOrder
      <4> QED
        BY <2>2, <2>3, <2>5, <3>1, <3>3, <4>1
    <3> QED
      BY <3>2, <3>3, Zenon
  <2>11. \A d \in DOMAIN conn : conn[d].answer /\ d.from = c.from /\ d.to = r =>
           d.k < c.k
    BY <1>2, Zenon DEF IInv, LastAnswered
  <2>12. LastAnswered'
    <3> SUFFICES ASSUME NEW d \in DOMAIN conn, conn'[d].answer
                 PROVE  /\ \A e \in InHand(d.to)' : e.from = d.from => d.k < e.k
                        /\ \A i \in DOMAIN backlog[d.to] :
                             backlog[d.to][i].from = d.from =>
                               d.k < backlog[d.to][i].k
                        /\ peer_fds'[d.to][d.from] # NoFd
                        /\ d.k <= peer_fds'[d.to][d.from].k
      BY <1>1, <2>5, Zenon DEF LastAnswered
    <3>1. CASE d = c
      <4>1. \A i \in DOMAIN backlog[r] :
              backlog[r][i].from = c.from => c.k < backlog[r][i].k
        BY <1>2, Zenon DEF IInv, InOrder
      <4>2. peer_fds'[r][c.from] = c
        BY <2>1, <2>4, Zenon
      <4> QED
        BY <1>2, <2>1, <2>3, <3>1, <4>1, <4>2
    <3>2. CASE d # c
      <4>1. conn[d].answer
        BY <2>5, <3>2, Zenon
      <4>2. /\ \A e \in InHand(d.to) : e.from = d.from => d.k < e.k
            /\ \A i \in DOMAIN backlog[d.to] :
                 backlog[d.to][i].from = d.from => d.k < backlog[d.to][i].k
            /\ peer_fds[d.to][d.from] # NoFd
            /\ d.k <= peer_fds[d.to][d.from].k
        BY <4>1, Zenon DEF IInv, LastAnswered
      <4>3. \A e \in InHand(d.to)' : e.from = d.from => d.k < e.k
        BY <2>3, <2>6, <4>2, Zenon
      <4>4. CASE d.to = r /\ d.from = c.from
        BY <2>1, <2>4, <2>6, <2>11, <4>1, <4>2, <4>3, <4>4
      <4>5. CASE ~(d.to = r /\ d.from = c.from)
        BY <2>4, <2>6, <4>2, <4>3, <4>5, Zenon
      <4> QED
        BY <4>4, <4>5, Zenon
    <3> QED
      BY <3>1, <3>2, Zenon
  <2>13. Stored'
    BY <1>2, <2>1, <2>4, <2>5 DEF IInv, Stored
  <2>14. Settled'
    <3> SUFFICES ASSUME NEW a \in Rank, NEW b \in Rank, a < b, b < nxt[a]
                 PROVE  /\ peer_fds'[a][b] \in DOMAIN conn
                        /\ conn'[peer_fds'[a][b]].answer
                        /\ \A d \in DOMAIN conn : d.from = a /\ d.to = b =>
                             d.k <= peer_fds'[a][b].k
                        /\ peer_fds'[b][a] = peer_fds'[a][b]
      BY <1>1, <2>5 DEF Settled
    <3>1. /\ peer_fds[a][b] \in DOMAIN conn
          /\ conn[peer_fds[a][b]].answer
          /\ \A d \in DOMAIN conn : d.from = a /\ d.to = b =>
               d.k <= peer_fds[a][b].k
          /\ peer_fds[b][a] = peer_fds[a][b]
      BY Zenon DEF IInv, Settled
    <3>2. peer_fds'[a][b] = peer_fds[a][b] /\ ~(a = r /\ b = c.from)
      BY <2>1, <2>4 DEF Rank
    <3>3. conn'[peer_fds[a][b]].answer
      BY <2>5, <3>1, Zenon
    <3>4. ~(b = r /\ a = c.from)
      <4> SUFFICES ASSUME b = r, a = c.from PROVE FALSE
        OBVIOUS
      <4>1. c.k <= peer_fds[a][b].k
        BY <1>2, <3>1, Zenon
      <4>2. peer_fds[a][b].from = a /\ peer_fds[a][b].to = b
        <5>1. peer_fds[a][b] \in ConnId /\ peer_fds[a][b].from < peer_fds[a][b].to
          BY <3>1, Zenon DEF IInv, Connections
        <5>2. peer_fds[a][b] # NoFd
          BY <5>1 DEF ConnId, NoFd
        <5> QED
          BY <5>1, <5>2 DEF IInv, Stored, Rank
      <4>3. peer_fds[a][b].k < c.k
        BY <2>11, <3>1, <4>2, Zenon
      <4> QED
        BY <2>1, <2>6, <3>1, <4>1, <4>3
    <3>5. peer_fds'[b][a] = peer_fds[b][a]
      BY <2>4, <3>4, Zenon
    <3> QED
      BY <3>1, <3>2, <3>3, <3>5, Zenon
  <2> QED
    BY <2>7, <2>8, <2>9, <2>10, <2>12, <2>13, <2>14, Zenon DEF IInv
<1> QED
  BY <1>3, <1>4, Zenon DEF WriteRank

-----------------------------------------------------------------------------

-----------------------------------------------------------------------------
(* Sorting.  The induction takes a least counterexample.                   *)
INSTANCE FiniteSetTheorems
INSTANCE WellFoundedInduction
INSTANCE NaturalsInduction

\* A set of naturals that is not empty has a least element.
LEMMA LeastNat ==
  ASSUME NEW T, T \subseteq Nat, T # {}
  PROVE  \E x \in T : \A y \in T : x <= y
<1>1. PICK x \in T : \A y \in T : ~(<<y, x>> \in OpToRel(<, Nat))
  BY NatLessThanWellFounded, WFMin, Zenon
<1>2. \A y \in T : ~(y < x)
  BY <1>1, Zenon DEF OpToRel
<1> QED
  BY <1>2

\* The enumerations of S in which f does not decrease.
Orders(S, f) ==
  {s \in [1 .. Cardinality(S) -> S] :
     /\ \A i, j \in 1 .. Cardinality(S) : i # j => s[i] # s[j]
     /\ \A i, j \in 1 .. Cardinality(S) : i < j => f[s[i]] <= f[s[j]]}

\* A finite set can be sorted, equal keys in any order: put an element with
\* the least key in front of the others, sorted.
LEMMA CanSort ==
  ASSUME NEW S, IsFiniteSet(S), NEW f \in [S -> Nat]
  PROVE  Orders(S, f) # {}
<1> DEFINE Bad == {A \in SUBSET S : Orders(A, f) = {}}
           Sizes == {Cardinality(A) : A \in Bad}
<1> SUFFICES ASSUME Bad # {} PROVE FALSE
  OBVIOUS
<1>1. \A A \in SUBSET S : IsFiniteSet(A) /\ Cardinality(A) \in Nat
  BY FS_Subset, FS_CardinalityType, Zenon
<1>2. PICK A \in Bad : \A B \in Bad : Cardinality(A) <= Cardinality(B)
  <2>1. Sizes \subseteq Nat /\ Sizes # {}
    BY <1>1, Zenon
  <2>2. PICK n \in Sizes : \A m \in Sizes : n <= m
    BY <2>1, LeastNat, Zenon
  <2> QED
    BY <2>2
<1>3. A # {}
  <2> SUFFICES ASSUME A = {} PROVE FALSE
    OBVIOUS
  <2>1. Cardinality(A) = 0
    BY FS_EmptySet, Zenon
  <2>2. [i \in 1 .. 0 |-> 0] \in Orders(A, f)
    BY <2>1 DEF Orders
  <2> QED
    BY <2>2, Zenon
<1>4. PICK a \in A : \A b \in A : f[a] <= f[b]
  <2>1. {f[b] : b \in A} \subseteq Nat /\ {f[b] : b \in A} # {}
    BY <1>3, Zenon
  <2>2. PICK n \in {f[b] : b \in A} : \A m \in {f[b] : b \in A} : n <= m
    BY <2>1, LeastNat, Zenon
  <2> QED
    BY <2>2, Zenon
<1> DEFINE B == A \ {a}
           n == Cardinality(B)
<1>5. n \in Nat /\ Cardinality(A) = n + 1
  BY <1>1, FS_RemoveElement
<1>6. Orders(B, f) # {}
  <2>1. ~(Cardinality(A) <= n)
    BY <1>5
  <2>2. B \notin Bad
    BY <1>2, <2>1, Zenon
  <2> QED
    BY <2>2, Zenon
<1>7. PICK s \in Orders(B, f) : TRUE
  BY <1>6, Zenon
<1>8. /\ s \in [1 .. n -> B]
      /\ \A i, j \in 1 .. n : i # j => s[i] # s[j]
      /\ \A i, j \in 1 .. n : i < j => f[s[i]] <= f[s[j]]
  BY <1>7, Zenon DEF Orders
<1> HIDE DEF B, n
<1> DEFINE t == [i \in 1 .. n + 1 |-> IF i = 1 THEN a ELSE s[i - 1]]
<1>9. \A i \in 1 .. n + 1 : i = 1 \/ (i - 1 \in 1 .. n /\ s[i - 1] \in B)
  BY <1>5, <1>8
<1>10. t \in [1 .. n + 1 -> A]
  BY <1>9, Zenon DEF B
<1>11. ASSUME NEW i \in 1 .. n + 1, NEW j \in 1 .. n + 1, i < j
       PROVE  t[i] # t[j] /\ f[t[i]] <= f[t[j]]
  <2>1. j # 1 /\ t[j] = s[j - 1] /\ j - 1 \in 1 .. n /\ s[j - 1] \in B
    BY <1>5, <1>9, <1>11
  <2>2. CASE i = 1
    BY <1>4, <2>1, <2>2, Zenon DEF B
  <2>3. CASE i # 1
    <3>1. t[i] = s[i - 1] /\ i - 1 \in 1 .. n /\ i - 1 < j - 1
      BY <1>5, <1>11, <2>3
    <3> QED
      BY <1>8, <2>1, <3>1
  <2> QED
    BY <2>2, <2>3, Zenon
<1>12. ASSUME NEW i \in 1 .. n + 1, NEW j \in 1 .. n + 1, i # j
       PROVE  t[i] # t[j]
  <2>1. i < j \/ j < i
    BY <1>5, <1>12
  <2> QED
    BY <1>11, <2>1, Zenon
<1>13. t \in Orders(A, f)
  <2> HIDE DEF t
  <2> QED
    BY <1>5, <1>10, <1>11, <1>12, Zenon DEF Orders
<1> QED
  BY <1>13, Zenon

-----------------------------------------------------------------------------
(* Addresses.                                                              *)

\* score gives every subnet a natural number.
LEMMA ScoreNat ==
  ASSUME NEW r \in Rank, NEW net
  PROVE  score(r, net) \in Nat
<1>1. /\ Len(Priority[r]) \in Nat
      /\ DOMAIN Priority[r] = 1 .. Len(Priority[r])
  BY AddressesAssumption, Zenon
<1>2. CASE Wanted(r, net)
  <2> DEFINE T == {i \in DOMAIN Priority[r] : net \in Priority[r][i]}
  <2>1. T # {} /\ T \subseteq Nat
    BY <1>1, <1>2 DEF Wanted
  <2>2. PICK i \in T : \A j \in T : i <= j
    BY <2>1, LeastNat, Zenon
  <2>3. /\ i \in DOMAIN Priority[r] /\ net \in Priority[r][i]
        /\ \A j \in 1 .. i - 1 : net \notin Priority[r][j]
    BY <1>1, <2>2
  <2>4. score(r, net) \in DOMAIN Priority[r]
    BY <1>2, <2>3, Zenon DEF score
  <2> QED
    BY <1>1, <2>4
<1>3. CASE ~Wanted(r, net)
  BY <1>1, <1>3 DEF score
<1> QED
  BY <1>2, <1>3, Zenon

\* Every address in the list that the constructor tries is one it may use.
LEMMA CandidateReachable ==
  ASSUME NEW r \in Rank, NEW p \in Rank
  PROVE  Usable(r, p)
<1> DEFINE S == Reachable(r, p)
           f == [net \in S |-> score(r, net)]
           D == 1 .. Cardinality(S)
<1>1. IsFiniteSet(S)
  <2>1. S \subseteq Nets[r] /\ IsFiniteSet(Nets[r])
    BY AddressesAssumption, Zenon DEF Reachable, Advertised
  <2> QED
    BY <2>1, FS_Subset, Zenon
<1>2. f \in [S -> Nat]
  BY ScoreNat, Zenon
<1>3. PICK s \in Orders(S, f) : TRUE
  BY <1>1, <1>2, CanSort
<1>4. s \in Injection(D, S) /\ s \in [D -> S]
  BY <1>3, Zenon DEF Orders, Injection, IsInjective
<1>5. \A i, j \in DOMAIN s : i < j => score(r, s[i]) <= score(r, s[j])
  BY <1>3, <1>4, Zenon DEF Orders
<1>6. Candidates[r][p] \in Injection(D, S)
  BY <1>4, <1>5, Zenon DEF Candidates
<1>7. Candidates[r][p] \in [D -> S]
  BY <1>6, Zenon DEF Injection
<1>8. Cardinality(S) \in Nat
  BY <1>1, FS_CardinalityType, Zenon
<1>9. Len(Candidates[r][p]) = Cardinality(S)
  BY <1>7, <1>8
<1> QED
  BY <1>7, <1>8, <1>9, Zenon DEF Usable

-----------------------------------------------------------------------------
(* Every step keeps the invariant.                                         *)

\* Every step of every rank, and every step of another program, keeps the
\* inductive invariant.
LEMMA NextIInv == IInv /\ [Next]_vars => IInv'
<1> SUFFICES ASSUME IInv, [Next]_vars PROVE IInv'
  OBVIOUS
<1>1. CASE UNCHANGED vars
  BY <1>1, PcStep DEF vars, IInv, Shape, Waits
<1>2. CASE Next
  <2> SUFFICES ASSUME NEW r \in Rank, RankStep(r) PROVE IInv'
    BY <1>2, Zenon DEF Next
  <2>1. ASSUME NEW how \in {"refused", "unsent", "sent"}, Connect(r, how)
        PROVE  IInv'
    BY <2>1, ConnectStep, CandidateReachable, Zenon
  <2> QED
    BY <2>1, PublishStep, LookupStep, LookupTimeoutStep, AnsweredStep,
       AnswerTimeoutStep, GiveUpStep, AcceptStep, ReadRankStep, WriteRankStep,
       JoinStep DEF RankStep, Connector, Acceptor
<1> QED
  BY <1>1, <1>2, Zenon

\* The inductive invariant holds in every run of the constructors.
LEMMA Invariant == Spec => []IInv
BY InitIInv, NextIInv, PTL DEF Spec

\* The types of the bootstrap's state: an acceptor never takes more
\* connections than there are ranks below it, and no answer is sent before
\* the rank was read.
THEOREM TypeCorrect == Spec => []TypeOK
BY Invariant, IInvImplies, PTL

\* For any number of ranks and of retries: once the lower rank of a pair has
\* gone on to its next peer, both ends of the pair have stored the two ends
\* of one connection, whatever abandoned attempts were accepted meanwhile.
THEOREM BothEndsAgree == Spec => []SameConnection
BY Invariant, IInvImplies, PTL

\* For any addresses and priority lists: no stored socket runs over a subnet
\* that MCCL_IFACE_PRIORITY of either rank leaves out.
THEOREM LinksArePriority == Spec => []OnlyPriorityLinks
BY Invariant, IInvImplies, PTL
=============================================================================
