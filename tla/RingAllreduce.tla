---------------------------- MODULE RingAllreduce ----------------------------
(***************************************************************************)
(* allreduce_ring (csrc/backend/AllreduceAlgos.cpp).  In every step a rank *)
(* starts a thread that sends one chunk of its tensor to the next rank,    *)
(* receives a chunk from the previous rank itself, and joins the thread.   *)
(* The first World-1 steps (reduce-scatter) receive into the scratch       *)
(* buffer and then reduce it into the tensor; the last World-1 steps       *)
(* (allgather) receive straight into the tensor while the thread is still  *)
(* reading it.  A rank's phase is idle, running or done.                   *)
(***************************************************************************)
EXTENDS AllreduceState

ringVars == <<phase, step, sent, rcvd, t, scratch, wire>>

Steps == World - 1

next(r) == (r + 1) % World

prev(r) == (r - 1 + World) % World

Scattering(r) == step[r] < Steps

\* send_idx and recv_idx; in the allgather loop k restarts at zero.
SendIdx(r) ==
  IF Scattering(r) THEN (r - step[r] + World) % World
  ELSE (r - (step[r] - Steps) + 1 + World) % World

RecvIdx(r) ==
  IF Scattering(r) THEN (r - step[r] - 1 + World) % World
  ELSE (r - (step[r] - Steps) + World) % World

SendLen(r) == Count(SendIdx(r))

RecvLen(r) == Count(RecvIdx(r))

SendAt(r) == Start(SendIdx(r)) + sent[r]

RecvAt(r) == Start(RecvIdx(r)) + rcvd[r]

RingSlots == 0 .. Per(Numel, World) - 1

InStep(r) == phase[r] = "running" /\ step[r] < 2 * Steps

\* Mutant of RingSending: the loop of the sender runs once too often.
SendingOnceMore(r) ==
  phase[r] = "running" /\ step[r] <= 2 * Steps /\ sent[r] < SendLen(r)

\* Mutant of RingReceiving: one element too many is read.
ReceivingOneMore(r) == InStep(r) /\ rcvd[r] <= RecvLen(r)

\* The two threads of a step, while their transfer is not complete.
RingSending(r) == InStep(r) /\ sent[r] < SendLen(r)

RingReceiving(r) == InStep(r) /\ rcvd[r] < RecvLen(r)

RingInit ==
  /\ phase = [r \in Rank |-> "idle"]
  /\ step = [r \in Rank |-> 0]
  /\ sent = [r \in Rank |-> 0]
  /\ rcvd = [r \in Rank |-> 0]
  /\ t = [r \in Rank |-> Input(r)]
  /\ scratch = [r \in Rank |-> [i \in RingSlots |-> Garbage]]
  /\ wire = EmptyWire

\* The call; numel >= world is checked first.
RingEnter(r) ==
  /\ phase[r] = "idle"
  /\ Numel >= World
  /\ phase' = [phase EXCEPT ![r] = "running"]
  /\ UNCHANGED <<step, sent, rcvd, t, scratch, wire>>

\* Thread st: mesh->send(next, t + s.byte_off, s.byte_len).
RingSendElem(r) ==
  /\ RingSending(r)
  /\ CanWrite(wire, r, next(r))
  /\ wire' = WirePut(wire, r, next(r), t[r][SendAt(r)])
  /\ sent' = [sent EXCEPT ![r] = @ + 1]
  /\ UNCHANGED <<phase, step, rcvd, t, scratch>>

\* mesh->recv(prev, scratch or t + r.byte_off, r.byte_len).
RingRecvElem(r) ==
  /\ RingReceiving(r)
  /\ CanRead(wire, prev(r), r)
  /\ LET x == Head(wire[prev(r)][r])
     IN  IF Scattering(r)
         THEN /\ scratch' = [scratch EXCEPT ![r][rcvd[r]] = x]
              /\ UNCHANGED t
         ELSE /\ t' = [t EXCEPT ![r][RecvAt(r)] = x]
              /\ UNCHANGED scratch
  /\ wire' = WireDrop(wire, prev(r), r)
  /\ rcvd' = [rcvd EXCEPT ![r] = @ + 1]
  /\ UNCHANGED <<phase, step, sent>>

\* Mutant of RingReduced: what was received replaces the chunk.
Overwritten(r) ==
  [e \in Elem |->
     IF e \in Elems(RecvIdx(r))
     THEN scratch[r][e - Start(RecvIdx(r))]
     ELSE t[r][e]]

\* metal_reduce_op_view(t + r.byte_off, scratch, r.elem_count).
RingReduced(r) ==
  [e \in Elem |->
     IF e \in Elems(RecvIdx(r))
     THEN ReduceInto(r, t[r][e], scratch[r][e - Start(RecvIdx(r))])
     ELSE t[r][e]]

\* st.join() and, in the first loop, the reduction; then ++k.
EndStep(r) ==
  /\ InStep(r)
  /\ sent[r] = SendLen(r)
  /\ rcvd[r] = RecvLen(r)
  /\ t' = [t EXCEPT ![r] = IF Scattering(r) THEN RingReduced(r) ELSE @]
  /\ step' = [step EXCEPT ![r] = @ + 1]
  /\ sent' = [sent EXCEPT ![r] = 0]
  /\ rcvd' = [rcvd EXCEPT ![r] = 0]
  /\ UNCHANGED <<phase, scratch, wire>>

\* After both loops: the AVG scaling, and the call returns.
RingReturn(r) ==
  /\ phase[r] = "running"
  /\ step[r] = 2 * Steps
  /\ t' = [t EXCEPT ![r] = ScaleIfAvg(@)]
  /\ phase' = [phase EXCEPT ![r] = "done"]
  /\ UNCHANGED <<step, sent, rcvd, scratch, wire>>

RingStep(r) ==
  RingSendElem(r) \/ RingRecvElem(r) \/ EndStep(r) \/ RingReturn(r)

RingNext == \E r \in Rank : RingEnter(r) \/ RingStep(r)

\* Both threads of a rank are scheduled for ever; that every rank calls
\* allreduce is the SPMD contract of the caller.
RingFairness ==
  \A r \in Rank :
    /\ WF_ringVars(RingEnter(r))
    /\ WF_ringVars(RingSendElem(r)) /\ WF_ringVars(RingRecvElem(r))
    /\ WF_ringVars(EndStep(r)) /\ WF_ringVars(RingReturn(r))

-----------------------------------------------------------------------------

\* The types of the state of allreduce_ring.
RingTypeOK ==
  /\ phase \in [Rank -> {"idle", "running", "done"}]
  /\ step \in [Rank -> 0 .. 2 * Steps]
  /\ sent \in [Rank -> 0 .. Per(Numel, World)]
  /\ rcvd \in [Rank -> 0 .. Per(Numel, World)]
  /\ t \in [Rank -> [Elem -> Value]]
  /\ scratch \in [Rank -> [RingSlots -> Value]]
  /\ wire \in [Rank -> [Rank -> Seq(Value)]]

\* The streams carry no frame header, so allreduce_ring relies on the next
\* element on the wire being the one recv_idx asks for, also while the two
\* neighbours are in different steps, and when a chunk in between is empty.
RingFrameMatch ==
  \A r \in Rank :
    InStep(r) /\ rcvd[r] < RecvLen(r) /\ CanRead(wire, prev(r), r)
      => Head(wire[prev(r)][r]).elem = RecvAt(r)

\* When rank r leaves the reduce-scatter loop, the chunk it sends first in
\* the allgather loop, (r + 1) % World, is completely reduced.
OwnsReduced ==
  \A r \in Rank : step[r] >= Steps =>
    \A e \in Elems(next(r)) :
      t[r][e].cnt = [q \in Rank |-> 1]
=============================================================================
