---------------------------- MODULE TreeAllreduce ----------------------------
(***************************************************************************)
(* allreduce_tree (csrc/backend/AllreduceAlgos.cpp), for any number of     *)
(* ranks.  The first loop reduces towards rank 0 with mask 1, 2, 4, ...    *)
(* and is left by a rank once it has sent its partial result; the second   *)
(* loop sends the result back down with the same masks in reverse order,   *)
(* received straight into the tensor.  All transfers are made by the       *)
(* calling thread.  A rank's phase is idle, reduce (the first loop), bcast *)
(* (the second) or done.                                                   *)
(***************************************************************************)
EXTENDS AllreduceState

treeVars == <<phase, mask, pos, t, scratch, wire>>

\* The values of mask in the first loop: 1, and then shifted left as long
\* as the result is less than world; the least set with these two.
Masks ==
  {m \in 1 .. World - 1 :
     \A S \in SUBSET (1 .. World - 1) :
       1 \in S /\ (\A x \in S : 2 * x < World => 2 * x \in S) => m \in S}

\* Mutant of TopMask: the loop that computes it stops one shift early.
TopMaskTooSmall == (CHOOSE m \in Masks : 2 * m >= World) \div 2

\* top_mask: where the loop "while (top_mask * 2 < world)" stops.
TopMask == CHOOSE m \in Masks : 2 * m >= World

\* rank & mask, for a mask with one bit.
HasBit(r, m) == (r \div m) % 2 = 1

NoPeer == -1

\* Whom rank r sends to, and receives from, in the current iteration.
SendPeer(r) ==
  CASE phase[r] = "reduce" /\ HasBit(r, mask[r]) -> r - mask[r]
    [] phase[r] = "bcast" /\ r % (2 * mask[r]) = 0
                          /\ r + mask[r] < World -> r + mask[r]
    [] OTHER -> NoPeer

RecvPeer(r) ==
  CASE phase[r] = "reduce" /\ ~HasBit(r, mask[r])
                           /\ r + mask[r] < World -> r + mask[r]
    [] phase[r] = "bcast" /\ r % (2 * mask[r]) = mask[r] -> r - mask[r]
    [] OTHER -> NoPeer

TreeInit ==
  /\ phase = [r \in Rank |-> "idle"]
  /\ mask = [r \in Rank |-> 1]
  /\ pos = [r \in Rank |-> 0]
  /\ t = [r \in Rank |-> Input(r)]
  /\ scratch = [r \in Rank |-> [e \in Elem |-> Garbage]]
  /\ wire = EmptyWire

\* The caller enters allreduce.
TreeEnter(r) ==
  /\ phase[r] = "idle"
  /\ phase' = [phase EXCEPT ![r] = "reduce"]
  /\ UNCHANGED <<mask, pos, t, scratch, wire>>

\* mesh->send of the whole tensor, element by element.
TreeSendElem(r) ==
  /\ SendPeer(r) # NoPeer
  /\ pos[r] < Numel
  /\ CanWrite(wire, r, SendPeer(r))
  /\ wire' = WirePut(wire, r, SendPeer(r), t[r][pos[r]])
  /\ pos' = [pos EXCEPT ![r] = @ + 1]
  /\ UNCHANGED <<phase, mask, t, scratch>>

\* mesh->recv of the whole tensor, into scratch going up, into t going down.
TreeRecvElem(r) ==
  /\ RecvPeer(r) # NoPeer
  /\ pos[r] < Numel
  /\ CanRead(wire, RecvPeer(r), r)
  /\ LET x == Head(wire[RecvPeer(r)][r])
     IN  IF phase[r] = "reduce"
         THEN /\ scratch' = [scratch EXCEPT ![r][pos[r]] = x]
              /\ UNCHANGED t
         ELSE /\ t' = [t EXCEPT ![r][pos[r]] = x]
              /\ UNCHANGED scratch
  /\ wire' = WireDrop(wire, RecvPeer(r), r)
  /\ pos' = [pos EXCEPT ![r] = @ + 1]
  /\ UNCHANGED <<phase, mask>>

\* The transfer of this iteration, if there is one, is complete.
TransferDone(r) ==
  (SendPeer(r) = NoPeer /\ RecvPeer(r) = NoPeer) \/ pos[r] = Numel

\* Leaving the first loop: on mask >= world, or once the rank is inactive.
LeavesReduce(r) == HasBit(r, mask[r]) \/ 2 * mask[r] >= World

\* End of an iteration of the first loop: reduce what was received, then
\* mask <<= 1; a rank that has sent (active = false) goes to the second loop.
EndReduce(r) ==
  /\ phase[r] = "reduce"
  /\ TransferDone(r)
  /\ t' = [t EXCEPT ![r] =
             IF RecvPeer(r) = NoPeer THEN @
             ELSE [e \in Elem |-> ReduceInto(r, @[e], scratch[r][e])]]
  /\ phase' = [phase EXCEPT ![r] = IF LeavesReduce(r) THEN "bcast" ELSE @]
  /\ mask' = [mask EXCEPT ![r] = IF LeavesReduce(r) THEN TopMask ELSE 2 * @]
  /\ pos' = [pos EXCEPT ![r] = 0]
  /\ UNCHANGED <<scratch, wire>>

\* End of an iteration of the second loop: mask >>= 1.  After mask 1 comes
\* the AVG scaling, and the call returns.
EndBcast(r) ==
  /\ phase[r] = "bcast"
  /\ TransferDone(r)
  /\ IF mask[r] > 1
     THEN /\ mask' = [mask EXCEPT ![r] = @ \div 2]
          /\ UNCHANGED <<phase, t>>
     ELSE /\ phase' = [phase EXCEPT ![r] = "done"]
          /\ t' = [t EXCEPT ![r] = ScaleIfAvg(@)]
          /\ UNCHANGED mask
  /\ pos' = [pos EXCEPT ![r] = 0]
  /\ UNCHANGED <<scratch, wire>>

TreeStep(r) ==
  TreeSendElem(r) \/ TreeRecvElem(r) \/ EndReduce(r) \/ EndBcast(r)

TreeNext == \E r \in Rank : TreeEnter(r) \/ TreeStep(r)

\* A rank's single thread is scheduled for ever, and every rank calls.
TreeFairness ==
  \A r \in Rank : WF_treeVars(TreeEnter(r)) /\ WF_treeVars(TreeStep(r))

-----------------------------------------------------------------------------

\* The types of the state of allreduce_tree.
TreeTypeOK ==
  /\ phase \in [Rank -> {"idle", "reduce", "bcast", "done"}]
  /\ mask \in [Rank -> Masks]
  /\ pos \in [Rank -> 0 .. Numel]
  /\ t \in [Rank -> [Elem -> Value]]
  /\ scratch \in [Rank -> [Elem -> Value]]
  /\ wire \in [Rank -> [Rank -> Seq(Value)]]

\* While the result comes down, a rank that still waits for it holds only a
\* partial sum, and what is on the wire towards it is the complete one: no
\* partial sum of the first loop is ever mistaken for the result.
OnlyResultsComeDown ==
  \A r \in Rank :
    phase[r] = "bcast" /\ RecvPeer(r) # NoPeer =>
      \A i \in 1 .. Len(wire[RecvPeer(r)][r]) :
        wire[RecvPeer(r)][r][i].cnt = [q \in Rank |-> 1]
=============================================================================
