-------------------------- MODULE AllreduceStreams --------------------------
(***************************************************************************)
(* What the proofs about the three allreduce algorithms say of the streams *)
(* of the mesh and of what a step of a rank does to the promise of the     *)
(* call.  Nothing here is part of the model.                               *)
(***************************************************************************)
EXTENDS AllreduceState

\* Element e of the sum of all tensors, as rank o computes it, before
\* scale_if_avg.
Complete(e, o) ==
  [elem |-> e, cnt |-> [q \in Rank |-> 1], by |-> o, scl |-> 0]

\* The streams of the mesh.
Wires == [Rank -> [Rank -> Seq(Value)]]

\* Between w and v, x was put on the stream from p to q, or its first
\* element was taken off it, and nothing else happened.
OnePut(v, w, p, q, x) ==
  /\ v \in Wires
  /\ v[p][q] = Append(w[p][q], x)
  /\ \A a, b \in Rank : a # p \/ b # q => v[a][b] = w[a][b]

OneDrop(v, w, p, q) ==
  /\ v \in Wires
  /\ v[p][q] = Tail(w[p][q])
  /\ \A a, b \in Rank : a # p \/ b # q => v[a][b] = w[a][b]

\* w has what is at the places b to a - 1 of the stream f.
Carries(w, f, a, b) ==
  /\ w \in Seq(Value)
  /\ Len(w) = a - b
  /\ \A i \in 1 .. Len(w) : w[i] = f[b + i - 1]

\* A step of a call of allreduce, as its caller sees it: a rank calls, or
\* goes on, or returns when all ranks have called, with the complete
\* reduction that those before it have returned with.
KeepsPromise(owner) ==
  \E r \in Rank :
    /\ \A q \in Rank \ {r} :
         phase'[q] = phase[q] /\ (phase[q] = "done" => t'[q] = t[q])
    /\ phase[r] # "done" /\ phase'[r] # "idle"
    /\ phase[r] = "idle" => phase'[r] # "done"
    /\ phase'[r] = "done" =>
         /\ t'[r] = Reduction(owner)
         /\ \A q \in Rank :
              phase[q] # "idle" /\ (phase[q] = "done" => t[q] = Reduction(owner))
=============================================================================
