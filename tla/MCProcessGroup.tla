--------------------------- MODULE MCProcessGroup ---------------------------
(* Programs for ProcessGroup: what the callers of all ranks do.            *)
EXTENDS ProcessGroup

\* The calls; lens has the size of each tensor of the call (an alltoall is
\* one exchange, whose sizes are in split).
Broadcast(id, root, lens) ==
  [kind |-> "broadcast", id |-> id, lens |-> lens, root |-> root]
Allgather(id, lens) == [kind |-> "allgather", id |-> id, lens |-> lens]
ReduceScatter(id, lens) ==
  [kind |-> "reduce_scatter", id |-> id, lens |-> lens]
Alltoall(id, base, split) ==
  [kind |-> "alltoall", id |-> id, lens |-> <<0>>, base |-> base,
   split |-> split]
AllreduceBy(id, algs, lens) ==
  [kind |-> "allreduce", id |-> id, lens |-> lens, algs |-> algs]
SendTo(id, peer, tag, lens) ==
  [kind |-> "send", id |-> id, lens |-> lens, peer |-> peer, tag |-> tag]
RecvFrom(id, peer, tag, lens) ==
  [kind |-> "recv", id |-> id, lens |-> lens, peer |-> peer, tag |-> tag]
BarrierCall(id) == [kind |-> "barrier", id |-> id, lens |-> <<>>]
WaitFor(i) == [kind |-> "wait", id |-> 0, lens |-> <<>>, call |-> i]

\* In a group of n ranks every rank makes the same calls.
Same(n, calls) == [r \in Rank |-> IF r < n THEN calls ELSE <<>>]

\* In a group of two, each rank makes its own.
Pair(calls0, calls1) ==
  [r \in Rank |-> CASE r = 0 -> calls0 [] r = 1 -> calls1 [] OTHER -> <<>>]

\* Splits of an alltoall in which one rank sends nothing to another.
Uneven == [r \in Rank |-> [p \in Rank |-> IF r < p THEN 1 ELSE 0]]

\* Asynchronous collectives in flight together on the engine, and allreduce
\* only when the works issued before it were waited for.
Orderly ==
  { Same(2, <<Broadcast(1, 0, <<2, 1>>), Allgather(2, <<1>>), WaitFor(2)>>),
    Same(2, <<ReduceScatter(1, <<2>>), Alltoall(2, TRUE, Uneven),
              Alltoall(3, FALSE, Uneven), Broadcast(4, 1, <<1>>)>>),
    Same(2, <<Broadcast(1, 0, <<1>>), WaitFor(1),
              AllreduceBy(2, <<"tree", "ring">>, <<1, 2>>),
              Allgather(3, <<1>>)>>),
    Same(2, <<AllreduceBy(1, <<"butterfly">>, <<1>>), Broadcast(2, 1, <<1>>)>>),
    Same(2, <<Broadcast(1, 0, <<1>>), BarrierCall(2), Broadcast(3, 1, <<1>>),
              BarrierCall(4)>>),
    Pair(<<SendTo(1, 1, 7, <<2>>), RecvFrom(2, 1, -1, <<1>>),
           Allgather(3, <<1>>)>>,
         <<RecvFrom(1, 0, 7, <<2>>), SendTo(2, 0, 9, <<1>>),
           Allgather(3, <<1>>)>>),
    Pair(<<SendTo(1, 1, 7, <<1>>), BarrierCall(2)>>,
         <<RecvFrom(1, 0, 8, <<1>>), BarrierCall(2)>>),
    Same(3, <<Broadcast(1, 0, <<1>>), Broadcast(2, 2, <<1>>), WaitFor(2),
              AllreduceBy(3, <<"tree">>, <<1>>)>>),
    Same(3, <<AllreduceBy(1, <<"ring">>, <<1>>), Broadcast(2, 1, <<1>>)>>),
    Same(3, <<Allgather(1, <<1>>)>>),
    Same(3, <<BarrierCall(1), Broadcast(2, 1, <<1>>), BarrierCall(3)>>) }

\* A broadcast still in flight when an allreduce is called.
Overlapping ==
  { Same(2, <<Broadcast(1, 0, <<1>>),
              AllreduceBy(2, <<"tree">>, <<1>>)>>) }
=============================================================================
