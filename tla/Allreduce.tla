------------------------------ MODULE Allreduce ------------------------------
(***************************************************************************)
(* What an allreduce promises, whatever the algorithm: a rank returns only *)
(* after every rank has entered the call; every element it returns holds   *)
(* the contribution of every rank exactly once, scaled exactly once for    *)
(* AVG; and all ranks return the same bits.                                *)
(***************************************************************************)
EXTENDS Tensor

VARIABLES phase, out

vars == <<phase, out>>

NoOutput == <<>>

Init ==
  /\ phase = [r \in Rank |-> "idle"]
  /\ out = [r \in Rank |-> NoOutput]

Enter(r) ==
  /\ phase[r] = "idle"
  /\ phase' = [phase EXCEPT ![r] = "running"]
  /\ UNCHANGED out

Return(r) ==
  /\ phase[r] = "running"
  /\ \A q \in Rank : phase[q] # "idle"
  /\ phase' = [phase EXCEPT ![r] = "done"]
  /\ \E owner \in [Elem -> Rank] :
       /\ out' = [out EXCEPT ![r] = Reduction(owner)]
       /\ \A q \in Rank : phase[q] = "done" => out[q] = Reduction(owner)

Next == \E r \in Rank : Enter(r) \/ Return(r)

Spec == Init /\ [][Next]_vars
=============================================================================
