------------------------- MODULE ButterflyAllreduce -------------------------
(***************************************************************************)
(* allreduce_butterfly (csrc/backend/AllreduceAlgos.cpp).  Phase 1: one    *)
(* thread per peer p sends chunk p to p and one receives this rank's chunk *)
(* from p into a slot of the scratch buffer; all are joined and the slots  *)
(* are reduced one after the other.  Phase 2: one thread per peer sends    *)
(* this rank's reduced chunk and one receives chunk p into the tensor.  A  *)
(* rank's phase is idle, scatter, gather or done.                          *)
(***************************************************************************)
EXTENDS AllreduceState

butterflyVars == <<phase, sent, rcvd, t, scratch, wire>>

Peers(r) == Rank \ {r}

Running(r) == phase[r] \in {"scatter", "gather"}

\* The chunk the thread for peer p sends, and the one it receives.
SendChunk(r, p) == IF phase[r] = "scatter" THEN p ELSE r

RecvChunk(r, p) == IF phase[r] = "scatter" THEN r ELSE p

\* Mutant of ButterflySending: one thread per peer, which first receives.
SendingAfterReceive(r, p) ==
  /\ Running(r)
  /\ rcvd[r][p] = Count(RecvChunk(r, p))
  /\ sent[r][p] < Count(SendChunk(r, p))

\* The two threads for peer p, while their transfer is not complete.
ButterflySending(r, p) == Running(r) /\ sent[r][p] < Count(SendChunk(r, p))

ButterflyReceiving(r, p) == Running(r) /\ rcvd[r][p] < Count(RecvChunk(r, p))

\* Mutant of Slot: slot is not incremented.
SameSlot(r, p) == 0

\* slot: the peers in rank order without r; recv_off in elements.
Slot(r, p) == IF p < r THEN p ELSE p - 1

RecvOff(r, p) == Slot(r, p) * Count(r)

\* Allocated by ProcessGroupMCCL::allreduce: (world - 1) * per elements.
ButterflySlots == 0 .. (World - 1) * Per(Numel, World) - 1

ButterflyInit ==
  /\ phase = [r \in Rank |-> "idle"]
  /\ sent = [r \in Rank |-> [p \in Rank |-> 0]]
  /\ rcvd = [r \in Rank |-> [p \in Rank |-> 0]]
  /\ t = [r \in Rank |-> Input(r)]
  /\ scratch = [r \in Rank |-> [i \in ButterflySlots |-> Garbage]]
  /\ wire = EmptyWire

\* The call; numel >= world is checked first.
ButterflyEnter(r) ==
  /\ phase[r] = "idle"
  /\ Numel >= World
  /\ phase' = [phase EXCEPT ![r] = "scatter"]
  /\ UNCHANGED <<sent, rcvd, t, scratch, wire>>

\* The send thread for peer p.
ButterflySendElem(r, p) ==
  /\ ButterflySending(r, p)
  /\ CanWrite(wire, r, p)
  /\ wire' = WirePut(wire, r, p,
                     t[r][Start(SendChunk(r, p)) + sent[r][p]])
  /\ sent' = [sent EXCEPT ![r][p] = @ + 1]
  /\ UNCHANGED <<phase, rcvd, t, scratch>>

\* The receive thread for peer p.
ButterflyRecvElem(r, p) ==
  /\ ButterflyReceiving(r, p)
  /\ CanRead(wire, p, r)
  /\ LET x == Head(wire[p][r])
     IN  IF phase[r] = "scatter"
         THEN /\ scratch' =
                   [scratch EXCEPT ![r][RecvOff(r, p) + rcvd[r][p]] = x]
              /\ UNCHANGED t
         ELSE /\ t' = [t EXCEPT ![r][Start(p) + rcvd[r][p]] = x]
              /\ UNCHANGED scratch
  /\ wire' = WireDrop(wire, p, r)
  /\ rcvd' = [rcvd EXCEPT ![r][p] = @ + 1]
  /\ UNCHANGED <<phase, sent>>

\* Mutant of Joined: the receive threads are not joined.
JoinedSenders(r) ==
  \A p \in Peers(r) : sent[r][p] = Count(SendChunk(r, p))

\* All threads of the phase have been joined.
Joined(r) ==
  \A p \in Peers(r) :
    /\ sent[r][p] = Count(SendChunk(r, p))
    /\ rcvd[r][p] = Count(RecvChunk(r, p))

\* Element e of the rank's chunk with the first n slots reduced into it.
ReducedSlots(r, e) ==
  LET acc[n \in 0 .. World - 1] ==
        IF n = 0 THEN t[r][e]
        ELSE ReduceInto(r, acc[n - 1],
                        scratch[r][(n - 1) * Count(r) + e - Start(r)])
  IN  acc[World - 1]

\* End of phase 1: reduce every slot into the rank's own chunk.
EndScatter(r) ==
  /\ phase[r] = "scatter"
  /\ Joined(r)
  /\ t' = [t EXCEPT ![r] =
             [e \in Elem |-> IF e \in Elems(r)
                             THEN ReducedSlots(r, e) ELSE @[e]]]
  /\ phase' = [phase EXCEPT ![r] = "gather"]
  /\ sent' = [sent EXCEPT ![r] = [p \in Rank |-> 0]]
  /\ rcvd' = [rcvd EXCEPT ![r] = [p \in Rank |-> 0]]
  /\ UNCHANGED <<scratch, wire>>

\* End of phase 2: the AVG scaling, and the call returns.
EndGather(r) ==
  /\ phase[r] = "gather"
  /\ Joined(r)
  /\ t' = [t EXCEPT ![r] = ScaleIfAvg(@)]
  /\ phase' = [phase EXCEPT ![r] = "done"]
  /\ UNCHANGED <<sent, rcvd, scratch, wire>>

Threads(r) ==
  \E p \in Peers(r) : ButterflySendElem(r, p) \/ ButterflyRecvElem(r, p)

ButterflyNext ==
  \E r \in Rank :
    ButterflyEnter(r) \/ Threads(r) \/ EndScatter(r) \/ EndGather(r)

\* Every thread is scheduled for ever, and every rank calls.
ButterflyFairness ==
  \A r \in Rank :
    /\ WF_butterflyVars(ButterflyEnter(r))
    /\ WF_butterflyVars(EndScatter(r))
    /\ WF_butterflyVars(EndGather(r))
    /\ \A p \in Peers(r) : /\ WF_butterflyVars(ButterflySendElem(r, p))
                            /\ WF_butterflyVars(ButterflyRecvElem(r, p))

-----------------------------------------------------------------------------

\* The types of the state of allreduce_butterfly.
ButterflyTypeOK ==
  /\ phase \in [Rank -> {"idle", "scatter", "gather", "done"}]
  /\ sent \in [Rank -> [Rank -> 0 .. Per(Numel, World)]]
  /\ rcvd \in [Rank -> [Rank -> 0 .. Per(Numel, World)]]
  /\ t \in [Rank -> [Elem -> Value]]
  /\ scratch \in [Rank -> [ButterflySlots -> Value]]
  /\ wire \in [Rank -> [Rank -> Seq(Value)]]

\* A fast rank already sends its reduced chunk of phase 2 while its peer is
\* still receiving phase 1 on the same stream: the receiver must still read,
\* next, the element of the chunk it expects, and of the phase it is in.
PhasesDoNotMix ==
  \A r \in Rank : \A p \in Peers(r) :
    Running(r) /\ rcvd[r][p] < Count(RecvChunk(r, p)) /\ CanRead(wire, p, r)
      => LET x == Head(wire[p][r])
         IN  /\ x.elem = Start(RecvChunk(r, p)) + rcvd[r][p]
             /\ phase[r] = "scatter" <=> x = Input(p)[x.elem]
=============================================================================
