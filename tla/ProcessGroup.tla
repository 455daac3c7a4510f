---------------------------- MODULE ProcessGroup ----------------------------
(***************************************************************************)
(* ProcessGroupMCCL (csrc/backend/ProcessGroupMCCL.cpp) on all ranks: the  *)
(* calling thread issues collectives in program order; every collective    *)
(* but allreduce is handed to the rank's progress engine, which runs its   *)
(* tasks one after the other; allreduce runs at once on the calling        *)
(* thread.  Both threads use the same sockets, under one mutex per peer    *)
(* and direction that is held for one transfer.                            *)
(*                                                                         *)
(* What a collective does is its pattern of transfers: a sequence of       *)
(* stages, in each of which threads run side by side and are joined, each  *)
(* making transfers one after the other.  What the transfers carry is the  *)
(* subject of the algorithm modules; here a piece only tells which         *)
(* collective sent it.                                                     *)
(***************************************************************************)
EXTENDS MeshStream, FiniteSets, Folds

\* A program is what the ranks' callers do: [Rank -> Seq(call)].  A call is
\* a record with a kind, the id of the collective (send and recv that belong
\* together share one), and what the kind needs.  The group has the ranks
\* that call anything, 0 to Size - 1; World is the largest group.
CONSTANT Programs

ASSUME ProgramsAssumption ==
  \A program \in Programs : \A r \in Rank :
    /\ Len(program[r]) \in Nat
    /\ DOMAIN program[r] = 1 .. Len(program[r])

VARIABLES
  prog,      \* the program being run
  pc,        \* per rank, the next call to issue
  q,         \* per rank, q_ of the engine: indices of calls
  run,       \* per rank and thread (caller, engine), the task in progress
  done,      \* per rank, calls whose work is complete
  failed,    \* per rank, calls whose work completed with an exception
  locked,    \* the mutexes held: rank, direction (send_mu_, recv_mu_), peer
  wire,
  store,     \* keys set in the c10d store by barriers
  mixed      \* history: pieces read by a collective that did not send them

vars == <<prog, pc, q, run, done, failed, locked, wire, store, mixed>>

Actors == {"caller", "engine"}

Idle == [call |-> 0]

Busy(r, a) == run[r][a] # Idle

CallOf(r, a) == prog[r][run[r][a].call]

Size == Cardinality({r \in Rank : prog[r] # <<>>})

Peers(r) == (0 .. Size - 1) \ {r}

-----------------------------------------------------------------------------
(* The transfers of each collective.                                       *)

Snd(p, n) ==
  [dir |-> "send", peer |-> p, len |-> n, hdr |-> FALSE, size |-> 0]

Rcv(p, n) ==
  [dir |-> "recv", peer |-> p, len |-> n, hdr |-> FALSE, size |-> 0]

\* The transfer of the header that announces n pieces.
HeaderOf(x, n) == [x EXCEPT !.hdr = TRUE, !.size = n]

\* A stage is a function from threads to sequences of transfers: thread r
\* of rank r is the thread that runs the collective, the others it spawned.
\* Below, n is the size of the tensor at hand.
OnlyMain(r, xfers) == [th \in {r} |-> xfers]

\* What the turns of a loop do, one after the other.
Concat(turns) ==
  MapThenFoldSet(\o, <<>>, LAMBDA i : turns[i],
                 LAMBDA s : CHOOSE i \in s : \A j \in s : i <= j, DOMAIN turns)

BroadcastStages(c, r, n) ==
  IF r = c.root THEN << [p \in Peers(r) |-> <<Snd(p, n)>>] >>
  ELSE << OnlyMain(r, <<Rcv(c.root, n)>>) >>

\* Mutant of AllgatherStages: receive and then send.
AllgatherReceiveFirst(c, r, n) ==
  << [p \in Peers(r) |-> <<Rcv(p, n), Snd(p, n)>>] >>

\* allgather, _allgather_base: one thread per peer, which first sends this
\* rank's tensor and then receives the peer's.
AllgatherStages(c, r, n) ==
  << [p \in Peers(r) |-> <<Snd(p, n), Rcv(p, n)>>] >>

\* reduce_scatter, _reduce_scatter_base: the same with the peer's share.
ReduceScatterStages(c, r, n) ==
  << [p \in Peers(r) |-> <<Snd(p, n), Rcv(p, n)>>] >>

\* Mutant of AlltoallStages: nothing is received where nothing is sent.
AlltoallIfSending(c, r) ==
  << [p \in Peers(r) |->
        IF c.split[r][p] = 0 THEN <<>>
        ELSE <<Snd(p, c.split[r][p]), Rcv(p, c.split[p][r])>>] >>

\* alltoall, alltoall_base: the lengths differ per pair and may be zero;
\* alltoall_base makes no transfer then.
AlltoallStages(c, r) ==
  << [p \in Peers(r) |->
        SelectSeq(<<Snd(p, c.split[r][p]), Rcv(p, c.split[p][r])>>,
                  LAMBDA x : x.len > 0 \/ ~c.base)] >>

SendStages(c, r, n) ==
  << OnlyMain(r, <<HeaderOf(Snd(c.peer, 1), n), Snd(c.peer, n)>>) >>

RecvStages(c, r, n) ==
  << OnlyMain(r, <<HeaderOf(Rcv(c.peer, 1), n), Rcv(c.peer, n)>>) >>

\* allreduce_ring: per step a send thread, while the caller receives.
RingStages(r, n) ==
  LET nxt == (r + 1) % Size
      prv == (r - 1 + Size) % Size
  IN  [k \in 1 .. 2 * (Size - 1) |->
         [th \in {r, Size} |-> IF th = r THEN <<Rcv(prv, n)>>
                               ELSE <<Snd(nxt, n)>>]]

\* allreduce_tree: the caller's transfers with masks up, then down.
TreeStages(r, n) ==
  LET masks == [i \in 1 .. Cardinality({k \in 0 .. Size : 2^k < Size}) |->
                  2^(i - 1)]
      up(m) == CASE r % m # 0 -> <<>>
                 [] r % (2 * m) = m -> <<Snd(r - m, n)>>
                 [] r % (2 * m) = 0 /\ r + m < Size -> <<Rcv(r + m, n)>>
                 [] OTHER -> <<>>
      down(m) == CASE r % (2 * m) = 0 /\ r + m < Size -> <<Snd(r + m, n)>>
                   [] r % (2 * m) = m -> <<Rcv(r - m, n)>>
                   [] OTHER -> <<>>
      top == Len(masks)
  IN  << OnlyMain(r, Concat([i \in 1 .. top |-> up(masks[i])]) \o
                     Concat([i \in 1 .. top |-> down(masks[top + 1 - i])])) >>

\* allreduce_butterfly: a send and a receive thread per peer, in two phases.
ButterflyStages(r, n) ==
  LET phase == [th \in Peers(r) \cup {Size + p : p \in Peers(r)} |->
                  IF th < Size THEN <<Snd(th, n)>> ELSE <<Rcv(th - Size, n)>>]
  IN  <<phase, phase>>

\* The loop over the algorithms chosen for the tensors of one call.
AllreduceStages(c, r, i) ==
  CASE c.algs[i] = "ring" -> RingStages(r, c.lens[i])
    [] c.algs[i] = "tree" -> TreeStages(r, c.lens[i])
    [] c.algs[i] = "butterfly" -> ButterflyStages(r, c.lens[i])

TensorStages(c, r, i) ==
  CASE c.kind = "broadcast" -> BroadcastStages(c, r, c.lens[i])
    [] c.kind = "allgather" -> AllgatherStages(c, r, c.lens[i])
    [] c.kind = "reduce_scatter" -> ReduceScatterStages(c, r, c.lens[i])
    [] c.kind = "alltoall" -> AlltoallStages(c, r)
    [] c.kind = "send" -> SendStages(c, r, c.lens[i])
    [] c.kind = "recv" -> RecvStages(c, r, c.lens[i])
    [] c.kind = "allreduce" -> AllreduceStages(c, r, i)

\* A collective handles the tensors of its list one after the other; a
\* barrier has none.
Stages(c, r) ==
  IF c.kind = "barrier" THEN <<>>
  ELSE Concat([i \in DOMAIN c.lens |-> TensorStages(c, r, i)])

-----------------------------------------------------------------------------

NotHeld == -1

\* A stage in progress: per thread, the transfers left to make and, while it
\* holds the mutex of the first of them, the pieces it has moved.
Spawned(stage) ==
  [th \in DOMAIN stage |-> [xfers |-> stage[th], moved |-> NotHeld]]

\* A task in progress: the stage it is in and those left.
Started(c, r, i) ==
  LET stages == Stages(c, r)
  IN  [call |-> i, left |-> stages,
       thr |-> IF stages = <<>> THEN <<>> ELSE Spawned(Head(stages))]

Init ==
  /\ prog \in Programs
  /\ pc = [r \in Rank |-> 1]
  /\ q = [r \in Rank |-> <<>>]
  /\ run = [r \in Rank |-> [a \in Actors |-> Idle]]
  /\ done = [r \in Rank |-> {}]
  /\ failed = [r \in Rank |-> {}]
  /\ locked = {}
  /\ wire = EmptyWire
  /\ store = {}
  /\ mixed = {}

\* The caller of rank r may go on: no inline collective is in progress.
CanIssue(r) == pc[r] <= Len(prog[r]) /\ ~Busy(r, "caller")

\* async_submit_: the work is returned to the caller at once.
Submit(r) ==
  /\ CanIssue(r)
  /\ prog[r][pc[r]].kind \notin {"allreduce", "wait"}
  /\ q' = [q EXCEPT ![r] = Append(@, pc[r])]
  /\ pc' = [pc EXCEPT ![r] = @ + 1]
  /\ UNCHANGED <<prog, run, done, failed, locked, wire, store, mixed>>

\* allreduce: on the calling thread.
CallAllreduce(r) ==
  /\ CanIssue(r)
  /\ prog[r][pc[r]].kind = "allreduce"
  /\ run' = [run EXCEPT ![r]["caller"] = Started(prog[r][pc[r]], r, pc[r])]
  /\ pc' = [pc EXCEPT ![r] = @ + 1]
  /\ UNCHANGED <<prog, q, done, failed, locked, wire, store, mixed>>

\* Work::wait() on the work of an earlier call.
Wait(r) ==
  /\ CanIssue(r)
  /\ prog[r][pc[r]].kind = "wait"
  /\ prog[r][pc[r]].call \in done[r]
  /\ pc' = [pc EXCEPT ![r] = @ + 1]
  /\ UNCHANGED <<prog, q, run, done, failed, locked, wire, store, mixed>>

\* Mutant of TakeTask: the newest task first.
TakeNewest(r) ==
  /\ ~Busy(r, "engine")
  /\ q[r] # <<>>
  /\ run' = [run EXCEPT ![r]["engine"] =
               Started(prog[r][q[r][Len(q[r])]], r, q[r][Len(q[r])])]
  /\ q' = [q EXCEPT ![r] = SubSeq(@, 1, Len(@) - 1)]
  /\ UNCHANGED <<prog, pc, done, failed, locked, wire, store, mixed>>

\* The engine takes the front task.
TakeTask(r) ==
  /\ ~Busy(r, "engine")
  /\ q[r] # <<>>
  /\ run' = [run EXCEPT ![r]["engine"] =
               Started(prog[r][Head(q[r])], r, Head(q[r]))]
  /\ q' = [q EXCEPT ![r] = Tail(@)]
  /\ UNCHANGED <<prog, pc, done, failed, locked, wire, store, mixed>>

\* Thread th of the stage in progress is inside, or before, a transfer.
InXfer(r, a, th) ==
  /\ Busy(r, a)
  /\ th \in DOMAIN run[r][a].thr
  /\ run[r][a].thr[th].xfers # <<>>

Xfer(r, a, th) == Head(run[r][a].thr[th].xfers)

\* The mutex that transfer x of rank r takes.
MutexOf(r, x) == <<r, x.dir, x.peer>>

Moved(r, a, th) == run[r][a].thr[th].moved

\* The thread is done with its transfer and has released the mutex.
Released(thread) == [xfers |-> Tail(thread.xfers), moved |-> NotHeld]

\* The thread has moved one more piece of its transfer.
Further(thread) == [thread EXCEPT !.moved = @ + 1]

\* PeerMesh::send and recv: the lock_guard.  A transfer of no bytes is over
\* as soon as it has the mutex.
Acquire(r, a, th) ==
  /\ InXfer(r, a, th)
  /\ Moved(r, a, th) = NotHeld
  /\ LET x == Xfer(r, a, th)
     IN  /\ MutexOf(r, x) \notin locked
         /\ locked' = IF x.len > 0 THEN locked \cup {MutexOf(r, x)} ELSE locked
         /\ run' = [run EXCEPT ![r][a].thr[th] =
                      IF x.len > 0 THEN [@ EXCEPT !.moved = 0]
                      ELSE Released(@)]
  /\ UNCHANGED <<prog, pc, q, done, failed, wire, store, mixed>>

\* What goes over the wire: hdr is {tag, nbytes}.
Piece(c, x) ==
  [id |-> c.id, hdr |-> x.hdr, tag |-> IF x.hdr THEN c.tag ELSE 0,
   size |-> x.size]

\* A piece of transfer x was moved; with the last one the mutex is released
\* and the thread is at its next transfer.
Advance(r, a, th, x) ==
  LET last == Moved(r, a, th) + 1 = x.len
  IN  /\ run' = [run EXCEPT ![r][a].thr[th] =
                   IF last THEN Released(@) ELSE Further(@)]
      /\ locked' = IF last THEN locked \ {MutexOf(r, x)} ELSE locked

\* write_all, one piece.
SendPiece(r, a, th) ==
  /\ InXfer(r, a, th)
  /\ Moved(r, a, th) # NotHeld
  /\ LET x == Xfer(r, a, th)
     IN  /\ x.dir = "send"
         /\ CanWrite(wire, r, x.peer)
         /\ wire' = WirePut(wire, r, x.peer, Piece(CallOf(r, a), x))
         /\ Advance(r, a, th, x)
  /\ UNCHANGED <<prog, pc, q, done, failed, store, mixed>>

\* What reading piece y in collective c adds to the history.
MixedBy(r, c, y) ==
  IF y.id = c.id THEN mixed ELSE mixed \cup {<<r, c.id, y.id>>}

\* read_all, one piece.
RecvPiece(r, a, th) ==
  /\ InXfer(r, a, th)
  /\ Moved(r, a, th) # NotHeld
  /\ LET x == Xfer(r, a, th)
     IN  /\ x.dir = "recv" /\ ~x.hdr
         /\ CanRead(wire, x.peer, r)
         /\ mixed' = MixedBy(r, CallOf(r, a), Head(wire[x.peer][r]))
         /\ wire' = WireDrop(wire, x.peer, r)
         /\ Advance(r, a, th, x)
  /\ UNCHANGED <<prog, pc, q, done, failed, store>>

\* Mutant of Completed: an exception does not complete the work.
CompletedIfOk(r, a, ok) ==
  /\ run' = [run EXCEPT ![r][a] = Idle]
  /\ done' = IF ok THEN [done EXCEPT ![r] = @ \cup {run[r][a].call}] ELSE done
  /\ failed' = IF ok THEN failed
               ELSE [failed EXCEPT ![r] = @ \cup {run[r][a].call}]

\* The task is over: work->finish(), or finishWithException().
Completed(r, a, ok) ==
  /\ run' = [run EXCEPT ![r][a] = Idle]
  /\ done' = [done EXCEPT ![r] = @ \cup {run[r][a].call}]
  /\ failed' = IF ok THEN failed
               ELSE [failed EXCEPT ![r] = @ \cup {run[r][a].call}]

\* The checks of ProcessGroupMCCL::recv; a negative tag accepts any.
HeaderFits(c, x, y) ==
  /\ y.hdr
  /\ c.tag < 0 \/ y.tag = c.tag
  /\ y.size = x.size

\* recv: read the header, check it, and go on to the payload or throw; a
\* throw leaves the payload on the stream.
RecvHeader(r, a, th) ==
  /\ InXfer(r, a, th)
  /\ Moved(r, a, th) # NotHeld
  /\ LET x == Xfer(r, a, th)
         c == CallOf(r, a)
         y == Head(wire[x.peer][r])
     IN  /\ x.dir = "recv" /\ x.hdr
         /\ CanRead(wire, x.peer, r)
         /\ wire' = WireDrop(wire, x.peer, r)
         /\ mixed' = MixedBy(r, c, y)
         /\ IF HeaderFits(c, x, y)
            THEN /\ Advance(r, a, th, x)
                 /\ UNCHANGED <<done, failed>>
            ELSE /\ Completed(r, a, FALSE)
                 /\ locked' = locked \ {MutexOf(r, x)}
  /\ UNCHANGED <<prog, pc, q, store>>

\* All threads of the stage are joined: the next stage, or the end.
Joined(r, a) ==
  /\ Busy(r, a)
  /\ run[r][a].left # <<>>
  /\ \A th \in DOMAIN run[r][a].thr : ~InXfer(r, a, th)

EndStage(r, a) ==
  /\ Joined(r, a)
  /\ LET rest == Tail(run[r][a].left)
     IN  IF rest # <<>>
         THEN /\ run' = [run EXCEPT ![r][a].left = rest,
                                     ![r][a].thr = Spawned(Head(rest))]
              /\ UNCHANGED <<done, failed>>
         ELSE Completed(r, a, TRUE)
  /\ UNCHANGED <<prog, pc, q, locked, wire, store, mixed>>

-----------------------------------------------------------------------------
(* barrier: Rendezvous::barrier on the engine, over the c10d store.        *)

InBarrier(r) == Busy(r, "engine") /\ CallOf(r, "engine").kind = "barrier"

\* next_seq_(), counted by the barrier calls of the rank.
BarrierSeq(r, i) ==
  Cardinality({j \in 1 .. i - 1 : prog[r][j].kind = "barrier"})

Tag(r) == BarrierSeq(r, run[r]["engine"].call)

\* store_->set of this rank's key.
SetKey(r) ==
  /\ InBarrier(r)
  /\ <<Tag(r), r>> \notin store
  /\ store' = store \cup {<<Tag(r), r>>}
  /\ UNCHANGED <<prog, pc, q, run, done, failed, locked, wire, mixed>>

KeyIsSet(r) == InBarrier(r) /\ <<Tag(r), r>> \in store

\* Mutant of PassBarrier: the first peer's key is enough.
PassOnFirstKey(r) ==
  /\ KeyIsSet(r)
  /\ \E p \in Peers(r) : <<Tag(r), p>> \in store
  /\ Completed(r, "engine", TRUE)
  /\ UNCHANGED <<prog, pc, q, locked, wire, store, mixed>>

\* store_->wait for the key of every peer; keys are never deleted, so the
\* waits one after the other end when all keys are there.
PassBarrier(r) ==
  /\ KeyIsSet(r)
  /\ \A p \in Peers(r) : <<Tag(r), p>> \in store
  /\ Completed(r, "engine", TRUE)
  /\ UNCHANGED <<prog, pc, q, locked, wire, store, mixed>>

\* A wait times out: TimeoutError fails the work.
BarrierTimeout(r) ==
  /\ KeyIsSet(r)
  /\ \E p \in Peers(r) : <<Tag(r), p>> \notin store
  /\ Completed(r, "engine", FALSE)
  /\ UNCHANGED <<prog, pc, q, locked, wire, store, mixed>>

-----------------------------------------------------------------------------

Issue(r) == Submit(r) \/ CallAllreduce(r) \/ Wait(r)

Thread(r, a, th) ==
  \/ Acquire(r, a, th) \/ SendPiece(r, a, th) \/ RecvPiece(r, a, th)
  \/ RecvHeader(r, a, th)

AllDone ==
  \A r \in Rank :
    /\ pc[r] > Len(prog[r]) /\ q[r] = <<>>
    /\ \A a \in Actors : ~Busy(r, a)

Terminating == AllDone /\ UNCHANGED vars

ThreadIds == 0 .. 2 * World - 1

Progress(r) ==
  \/ Issue(r) \/ TakeTask(r) \/ SetKey(r) \/ PassBarrier(r)
  \/ \E a \in Actors :
       EndStage(r, a) \/ \E th \in ThreadIds : Thread(r, a, th)

Next == (\E r \in Rank : Progress(r) \/ BarrierTimeout(r)) \/ Terminating

\* The ranks' threads run as long as any of them can; timeouts need not
\* happen.  Every step of a program is made at most once, so this is all the
\* fairness the scheduler has to provide.
Fairness == WF_vars(\E r \in Rank : Progress(r))

Spec == Init /\ [][Next]_vars /\ Fairness

-----------------------------------------------------------------------------

\* The types of the state of the process group.
TypeOK ==
  /\ prog \in Programs
  /\ \A r \in Rank :
       /\ pc[r] \in 1 .. Len(prog[r]) + 1
       /\ \A i \in 1 .. Len(q[r]) : q[r][i] \in 1 .. pc[r] - 1
       /\ failed[r] \subseteq done[r]
       /\ done[r] \subseteq 1 .. pc[r] - 1
       /\ \A a \in Actors : run[r][a].call \in 0 .. pc[r] - 1
  /\ \A m \in locked : m[1] \in Rank
  /\ DOMAIN wire = Rank
  /\ \A key \in store :
       \E r \in Rank : \E i \in 1 .. Len(prog[r]) : key = <<BarrierSeq(r, i), r>>

\* Progress.hpp: "cross-rank send/recv frame matching depends on every rank
\* dispatching collectives in the same order".  No collective reads what
\* another one sent, although the streams carry no frames and ranks run
\* ahead of each other by whole collectives.
FramesMatch == mixed = {}

\* When a barrier has succeeded on one rank, every collective that any rank
\* of the group, this one included, issued before that barrier is complete
\* there: the barrier goes through the same FIFO as the collectives.
BarrierFences ==
  \A r \in Rank : \A i \in done[r] \ failed[r] :
    prog[r][i].kind = "barrier" =>
      \A p \in Peers(r) \cup {r} : \E j \in 1 .. Len(prog[p]) :
        /\ prog[p][j].kind = "barrier" /\ BarrierSeq(p, j) = BarrierSeq(r, i)
        /\ \A k \in 1 .. j - 1 :
             prog[p][k].kind \notin {"allreduce", "wait"} => k \in done[p]

\* When all programs have ended nothing is left on the streams, unless a
\* recv threw after its header and left its payload behind.
WireClean ==
  AllDone /\ (\A r \in Rank : failed[r] = {}) => wire = EmptyWire

\* Every call of every program completes: no rank waits for ever for a
\* mutex, a piece, room in a socket buffer or a peer's key.
EveryCallCompletes == <>AllDone
=============================================================================
