--------------------------- MODULE ProgressProofs ---------------------------
(***************************************************************************)
(* Proofs about the progress engine, for every set of tasks: the engine    *)
(* runs tasks in submission order, has run all of them when shutdown has   *)
(* joined the worker, and never runs one after the mesh was closed.        *)
(***************************************************************************)
EXTENDS Progress, SequenceTheorems, TLAPS

\* How the worker's end and the owner's shutdown follow each other: the
\* worker returns only after stop_ was set and with an empty queue, nobody
\* pushes any more, and the owner is past the join only once it returned.
Lifecycle ==
  /\ stop <=> owner # "alive"
  /\ worker = "returned" => stop /\ q = <<>>
  /\ owner \in {"joined", "gone"} => worker = "returned"
  /\ ~meshOpen => owner = "gone"

\* The inductive invariant.
IInv == TypeOK /\ FifoOrder /\ Lifecycle

\* A Progress that was just constructed satisfies the invariant.
LEMMA InitIInv == Init => IInv
<1> SUFFICES ASSUME Init PROVE IInv
  OBVIOUS
<1>1. q = <<>> /\ submitted = <<>> /\ ran = <<>>
  BY DEF Init
<1>2. TypeOK
  <2>1. q \in Seq(Tasks) /\ submitted \in Seq(Tasks) /\ ran \in Seq(Tasks)
    BY <1>1
  <2>2. caller \in [Tasks -> {"before", "pushed", "after"}]
    BY DEF Init
  <2> QED
    BY <2>1, <2>2, Zenon DEF Init, TypeOK
<1>3. FifoOrder
  BY DEF Init, FifoOrder, Taken
<1>4. Lifecycle
  BY DEF Init, Lifecycle
<1> QED
  BY <1>2, <1>3, <1>4 DEF IInv

\* A step that leaves the queue and the histories alone, and does not start
\* or end a task, keeps the FIFO order.
LEMMA QueueUntouched ==
  ASSUME FifoOrder, UNCHANGED <<q, task, submitted, ran>>,
         worker = "run" <=> worker' = "run"
  PROVE  FifoOrder'
BY DEF FifoOrder, Taken

\* submit() keeps the invariant: the pushed task is the last one of q_ and
\* the last one submitted.
LEMMA PushStep ==
  ASSUME IInv, NEW t \in Tasks, Push(t)
  PROVE  IInv'
<1> USE DEF IInv, Push
<1>1. TypeOK'
  BY DEF TypeOK
<1>2. FifoOrder'
  <2>1. /\ Len(q') = Len(q) + 1
        /\ \A i \in 1 .. Len(q) : q'[i] = q[i]
        /\ q'[Len(q) + 1] = t
    BY DEF TypeOK
  <2>2. /\ Len(submitted') = Len(submitted) + 1
        /\ \A i \in 1 .. Len(submitted) : submitted'[i] = submitted[i]
        /\ submitted'[Len(submitted) + 1] = t
    BY DEF TypeOK
  <2>3. /\ Taken \in Nat /\ Taken' = Taken /\ Len(ran) <= Taken
        /\ worker = "run" => Taken >= 1
    BY DEF TypeOK, Taken
  <2>4. Len(q) \in Nat /\ Len(submitted) \in Nat /\ Len(ran) \in Nat
    BY DEF TypeOK
  <2>5. /\ Len(submitted) = Taken + Len(q)
        /\ \A i \in 1 .. Len(ran) : ran[i] = submitted[i]
        /\ worker = "run" => task = submitted[Taken]
        /\ \A i \in 1 .. Len(q) : q[i] = submitted[Taken + i]
        /\ ran' = ran /\ worker' = worker /\ task' = task
    BY DEF FifoOrder
  <2> HIDE DEF IInv, Push
  <2>6. Len(submitted') = Taken' + Len(q')
    BY <2>1, <2>2, <2>3, <2>4, <2>5
  <2>7. \A i \in 1 .. Len(ran') : ran'[i] = submitted'[i]
    BY <2>2, <2>3, <2>4, <2>5
  <2>8. worker' = "run" => task' = submitted'[Taken']
    BY <2>2, <2>3, <2>4, <2>5
  <2>9. ASSUME NEW i \in 1 .. Len(q') PROVE q'[i] = submitted'[Taken' + i]
    <3>1. CASE i = Len(q) + 1
      <4>1. Taken' + i = Len(submitted) + 1
        BY <2>3, <2>4, <2>5, <3>1
      <4> QED
        BY <2>1, <2>2, <3>1, <4>1
    <3>2. CASE i # Len(q) + 1
      <4>1. i \in 1 .. Len(q) /\ Taken + i \in 1 .. Len(submitted)
        BY <2>1, <2>3, <2>4, <2>5, <3>2
      <4> QED
        BY <2>1, <2>2, <2>3, <2>5, <4>1
    <3> QED
      BY <3>1, <3>2
  <2> QED
    BY <2>6, <2>7, <2>8, <2>9 DEF FifoOrder
<1>3. Lifecycle'
  BY DEF TypeOK, Lifecycle
<1> QED
  BY <1>1, <1>2, <1>3

\* Taking the front task in run() keeps the invariant: the worker takes what
\* was submitted next, and returns only with an empty queue.
LEMMA TakeStep ==
  ASSUME IInv, Take
  PROVE  IInv'
<1>1. CASE q = <<>>
  <2> USE <1>1 DEF IInv, Take
  <2>1. TypeOK'
    BY DEF TypeOK
  <2>2. FifoOrder'
    BY QueueUntouched
  <2>3. Lifecycle'
    BY DEF TypeOK, Lifecycle
  <2> QED
    BY <2>1, <2>2, <2>3
<1>2. CASE q # <<>>
  <2> USE <1>2 DEF IInv, Take
  <2>0. /\ Head(q) \in Tasks /\ Tail(q) \in Seq(Tasks)
        /\ Head(q) = q[1] /\ Len(q) \in Nat /\ Len(q) >= 1
        /\ Len(Tail(q)) = Len(q) - 1
        /\ \A i \in 1 .. Len(q) - 1 : Tail(q)[i] = q[i + 1]
    BY DEF TypeOK
  <2>1. TypeOK'
    BY <2>0, NoTaskAssumption DEF TypeOK
  <2>2. FifoOrder'
    <3>1. Taken \in Nat /\ Taken' = Taken + 1
      BY DEF TypeOK, Taken
    <3>2. worker # "run" /\ worker' = "run" /\ task' = Head(q)
          /\ q' = Tail(q) /\ submitted' = submitted /\ ran' = ran
      BY DEF TypeOK
    <3>3. Len(submitted) \in Nat /\ Len(ran) \in Nat
      BY DEF TypeOK
    <3>4. /\ Len(submitted) = Taken + Len(q)
          /\ \A i \in 1 .. Len(ran) : ran[i] = submitted[i]
          /\ \A i \in 1 .. Len(q) : q[i] = submitted[Taken + i]
      BY DEF FifoOrder
    <3> HIDE DEF IInv, Take
    <3>5. Len(submitted') = Taken' + Len(q')
      BY <2>0, <3>1, <3>2, <3>3, <3>4
    <3>6. task' = submitted'[Taken']
      BY <2>0, <3>1, <3>2, <3>4
    <3>7. ASSUME NEW i \in 1 .. Len(q') PROVE q'[i] = submitted'[Taken' + i]
      <4>1. i + 1 \in 1 .. Len(q) /\ i \in 1 .. Len(q) - 1
        BY <2>0, <3>2
      <4>2. Taken + (i + 1) = Taken' + i
        BY <3>1, <4>1
      <4> QED
        BY <2>0, <3>2, <3>4, <4>1, <4>2
    <3> QED
      BY <3>2, <3>4, <3>5, <3>6, <3>7 DEF FifoOrder
  <2>3. Lifecycle'
    BY DEF TypeOK, Lifecycle
  <2> QED
    BY <2>1, <2>2, <2>3
<1> QED
  BY <1>1, <1>2

\* Running a task keeps the invariant, whether or not it throws.
LEMMA RunStep ==
  ASSUME IInv, Run
  PROVE  IInv'
<1> USE DEF IInv, Run
<1>1. task \in Tasks
  BY DEF TypeOK, FifoOrder, Taken
<1>2. TypeOK'
  BY <1>1 DEF TypeOK
<1>3. FifoOrder'
  BY DEF TypeOK, FifoOrder, Taken
<1>4. Lifecycle'
  BY DEF TypeOK, Lifecycle
<1> QED
  BY <1>2, <1>3, <1>4

\* Every other step leaves the queue and the histories alone.
LEMMA OtherStep ==
  ASSUME IInv,
         \/ \E t \in Tasks : Notify(t)
         \/ Lock \/ Test \/ Sleep \/ SpuriousWakeup
         \/ ExchangeStop \/ NotifyAll \/ Join \/ CloseMesh
         \/ UNCHANGED vars
  PROVE  IInv'
<1> USE DEF IInv
<1>1. CASE \E t \in Tasks : Notify(t)
  <2>1. PICK t \in Tasks : Notify(t)
    BY <1>1
  <2>2. TypeOK'
    BY <2>1 DEF TypeOK, Notify, Wake
  <2>3. FifoOrder'
    BY <2>1, QueueUntouched DEF Notify, Wake
  <2>4. Lifecycle'
    BY <2>1 DEF Lifecycle, TypeOK, Notify, Wake
  <2> QED
    BY <2>2, <2>3, <2>4
<1>2. CASE Lock \/ Test \/ Sleep \/ SpuriousWakeup
  <2> USE <1>2 DEF Lock, Test, Sleep, SpuriousWakeup
  <2>1. TypeOK'
    BY DEF TypeOK
  <2>2. FifoOrder'
    BY QueueUntouched
  <2>3. Lifecycle'
    BY DEF Lifecycle, TypeOK
  <2> QED
    BY <2>1, <2>2, <2>3
<1>3. CASE ExchangeStop \/ NotifyAll \/ Join \/ CloseMesh
  <2> USE <1>3 DEF ExchangeStop, NotifyAll, Join, CloseMesh, Wake
  <2>1. TypeOK'
    BY DEF TypeOK
  <2>2. FifoOrder'
    BY QueueUntouched
  <2>3. Lifecycle'
    BY DEF Lifecycle, TypeOK
  <2> QED
    BY <2>1, <2>2, <2>3
<1>4. CASE UNCHANGED vars
  BY <1>4 DEF vars, TypeOK, FifoOrder, Taken, Lifecycle
<1> QED
  BY <1>1, <1>2, <1>3, <1>4

\* Every step of callers, worker and owner keeps the invariant.
LEMMA NextIInv == IInv /\ [Next]_vars => IInv'
<1> SUFFICES ASSUME IInv, [Next]_vars PROVE IInv'
  OBVIOUS
<1> QED
  BY PushStep, TakeStep, RunStep, OtherStep DEF Next, WorkerStep, Terminating

\* In every reachable state the inductive invariant holds.
THEOREM Inductive == Spec => []IInv
BY InitIInv, NextIInv, PTL DEF Spec

\* The engine's state has the types of Progress.hpp's members: the worker
\* never runs anything but a submitted task.
THEOREM TypeCorrect == Spec => []TypeOK
<1>1. IInv => TypeOK
  BY DEF IInv
<1> QED
  BY Inductive, <1>1, PTL

\* run() executes the tasks in the order in which submit() pushed them, each
\* exactly once, for every number of tasks and every interleaving.
THEOREM RunsInOrder == Spec => []FifoOrder
<1>1. IInv => FifoOrder
  BY DEF IInv
<1> QED
  BY Inductive, <1>1, PTL

\* The worker returns from run() only when everything submitted has run.
LEMMA ReturnedIsDrained ==
  ASSUME IInv, worker = "returned"
  PROVE  ran = submitted
<1>1. q = <<>>
  BY DEF IInv, Lifecycle
<1>2. Len(ran) \in Nat /\ Len(q) = 0
  BY <1>1 DEF IInv, TypeOK
<1>3. Len(ran) = Len(submitted) /\ \A i \in 1 .. Len(ran) : ran[i] = submitted[i]
  BY <1>1, <1>2 DEF IInv, FifoOrder, Taken
<1> QED
  BY <1>3, SeqEqual, Zenon DEF IInv, TypeOK

\* When shutdown() has joined the worker, every task ever submitted has run.
THEOREM Drained == Spec => []DrainedOnShutdown
<1>1. IInv => DrainedOnShutdown
  BY ReturnedIsDrained DEF IInv, Lifecycle, DrainedOnShutdown
<1> QED
  BY Inductive, <1>1, PTL

\* ~ProcessGroupMCCL closes the sockets only when no task runs or will run.
THEOREM MeshOutlivesTasks == Spec => []NoTaskOnClosedMesh
<1>1. IInv => NoTaskOnClosedMesh
  BY DEF IInv, Lifecycle, NoTaskOnClosedMesh
<1> QED
  BY Inductive, <1>1, PTL

\* The engine implements the FIFO executor the collectives rely on.
THEOREM Refinement == Spec => ImplementsFifo
<1>1. Init => Executor!Init
  BY DEF Init, Executor!Init
<1>2. IInv /\ IInv' /\ [Next]_vars => [Executor!Next]_(Executor!vars)
  <2> SUFFICES ASSUME IInv, IInv', [Next]_vars
               PROVE  [Executor!Next]_(Executor!vars)
    OBVIOUS
  <2> USE DEF Executor!vars
  <2>1. ASSUME NEW t \in Tasks, Push(t) PROVE Executor!Submit(t)
    BY <2>1 DEF Push, Executor!Submit
  <2>2. ASSUME Run PROVE Executor!RunNext
    <3>1. task = submitted[Len(ran) + 1] /\ Len(ran) < Len(submitted)
      BY <2>2 DEF Run, IInv, FifoOrder, TypeOK, Taken
    <3>2. owner \notin {"joined", "gone"} /\ owner' = owner
      BY <2>2 DEF Run, IInv, Lifecycle
    <3> QED
      BY <2>2, <3>1, <3>2 DEF Run, Executor!RunNext
  <2>3. ASSUME Join PROVE Executor!Close
    <3>1. ran = submitted
      BY <2>3, ReturnedIsDrained DEF Join
    <3> QED
      BY <2>3, <3>1 DEF Join, Executor!Close
  <2>4. ASSUME \/ \E t \in Tasks : Notify(t)
               \/ Lock \/ Test \/ Sleep \/ SpuriousWakeup \/ Take
               \/ ExchangeStop \/ NotifyAll \/ CloseMesh
               \/ UNCHANGED vars
        PROVE  UNCHANGED Executor!vars
    BY <2>4 DEF Notify, Lock, Test, Sleep, SpuriousWakeup, Take, ExchangeStop,
                NotifyAll, CloseMesh, vars
  <2> QED
    BY <2>1, <2>2, <2>3, <2>4 DEF Next, WorkerStep, Terminating, Executor!Next
<1> QED
  BY <1>1, <1>2, Inductive, PTL DEF Spec, ImplementsFifo, Executor!Spec
=============================================================================
