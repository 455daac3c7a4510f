--------------------------- MODULE WorkMCCLProofs ---------------------------
(***************************************************************************)
(* Proofs about the completion object, for every set of finishers, waiters *)
(* and pollers: all observers agree on one outcome.                        *)
(***************************************************************************)
EXTENDS WorkMCCL, TLAPS

\* A thread inside a critical section of more than one step holds mu_.
Mutex ==
  /\ \A f \in Finishers : fin[f] = "setexc" => mu = f
  /\ \A w \in Waiters : wtr[w] \in {"test", "sleep", "lasttest"} => mu = w

Winning == {"setexc", "value", "error", "notify"}

\* completed_.exchange(true) elects one finisher, which alone sets
\* exception_ and fulfils the future, in that order.
OneWinner ==
  /\ \A f, g \in Finishers : fin[f] \in Winning /\ fin[g] \in Winning => f = g
  /\ \A f \in Finishers :
       /\ fin[f] \in Winning => completed
       /\ fin[f] \in {"setexc", "value", "error"} => future = "pending"
       /\ fin[f] \in {"setexc", "value"} => ~exception
       /\ fin[f] = "error" => exception
  /\ exception \/ future # "pending" => completed
  /\ future = "value" => ~exception
  /\ future = "error" => exception

\* exception_ does not change any more.
Settled == completed /\ \A f \in Finishers : fin[f] # "setexc"

\* An observer reports exception_ as it stays.
Observed ==
  /\ \A w \in Waiters : /\ wtr[w] = "true" => Settled /\ ~exception
                        /\ wtr[w] = "threw" => exception
  /\ \A p \in Pollers : /\ poll[p] = "query" => completed
                        /\ poll[p] = "success" => Settled /\ ~exception
                        /\ poll[p] = "failure" => exception

\* The inductive invariant.
IInv == TypeOK /\ Mutex /\ OneWinner /\ Observed

\* The invariant holds of a WorkMCCL that was just constructed.
LEMMA InitIInv == Init => IInv
BY ThreadsAssumption
   DEF Init, IInv, TypeOK, Mutex, OneWinner, Winning, Observed, Settled

\* finish() and finishWithException() keep the invariant.
LEMMA FinisherPreserves ==
  ASSUME IInv, NEW f \in Finishers, FinisherStep(f)
  PROVE  IInv'
<1> USE ThreadsAssumption DEF IInv
<1>1. CASE SyncCallback(f)
  <2> USE <1>1 DEF SyncCallback
  <2>1. TypeOK'
    BY DEF TypeOK
  <2>2. Mutex'
    BY DEF TypeOK, Mutex
  <2>3. OneWinner'
    BY DEF TypeOK, Mutex, OneWinner, Winning
  <2>4. Observed'
    BY DEF TypeOK, Mutex, OneWinner, Winning, Observed, Settled
  <2> QED
    BY <2>1, <2>2, <2>3, <2>4
<1>2. CASE FinishExchange(f)
  <2> USE <1>2 DEF FinishExchange
  <2>1. TypeOK'
    BY DEF TypeOK
  <2>2. Mutex'
    BY DEF TypeOK, Mutex
  <2>3. OneWinner'
    BY DEF TypeOK, Mutex, OneWinner, Winning
  <2>4. Observed'
    BY DEF TypeOK, Mutex, OneWinner, Winning, Observed, Settled
  <2> QED
    BY <2>1, <2>2, <2>3, <2>4
<1>3. CASE FailExchange(f)
  <2> USE <1>3 DEF FailExchange
  <2>1. TypeOK'
    BY DEF TypeOK
  <2>2. Mutex'
    BY DEF TypeOK, Mutex
  <2>3. OneWinner'
    BY DEF TypeOK, Mutex, OneWinner, Winning
  <2>4. Observed'
    BY DEF TypeOK, Mutex, OneWinner, Winning, Observed, Settled
  <2> QED
    BY <2>1, <2>2, <2>3, <2>4
<1>4. CASE SetException(f)
  <2> USE <1>4 DEF SetException
  <2>1. TypeOK'
    BY DEF TypeOK
  <2>2. Mutex'
    BY DEF TypeOK, Mutex
  <2>3. OneWinner'
    BY DEF TypeOK, Mutex, OneWinner, Winning
  <2>4. Observed'
    BY DEF TypeOK, Mutex, OneWinner, Winning, Observed, Settled
  <2> QED
    BY <2>1, <2>2, <2>3, <2>4
<1>5. CASE FulfilFuture(f)
  <2> USE <1>5 DEF FulfilFuture
  <2>1. TypeOK'
    BY DEF TypeOK
  <2>2. Mutex'
    BY DEF TypeOK, Mutex
  <2>3. OneWinner'
    BY DEF TypeOK, Mutex, OneWinner, Winning
  <2>4. Observed'
    BY DEF TypeOK, Mutex, OneWinner, Winning, Observed, Settled
  <2> QED
    BY <2>1, <2>2, <2>3, <2>4
<1>6. CASE NotifyAll(f)
  <2> USE <1>6 DEF NotifyAll
  <2>1. TypeOK'
    BY DEF TypeOK
  <2>2. Mutex'
    BY DEF TypeOK, Mutex
  <2>3. OneWinner'
    BY DEF TypeOK, Mutex, OneWinner, Winning
  <2>4. Observed'
    BY DEF TypeOK, Mutex, OneWinner, Winning, Observed, Settled
  <2> QED
    BY <2>1, <2>2, <2>3, <2>4
<1> QED
  BY <1>1, <1>2, <1>3, <1>4, <1>5, <1>6 DEF FinisherStep

\* wait() keeps the invariant.
LEMMA WaiterPreserves ==
  ASSUME IInv, NEW w \in Waiters, WaiterStep(w) \/ SpuriousWakeup(w) \/ Expire(w)
  PROVE  IInv'
<1> USE ThreadsAssumption DEF IInv
<1>1. CASE WaitLock(w)
  <2> USE <1>1 DEF WaitLock
  <2>1. TypeOK'
    BY DEF TypeOK
  <2>2. Mutex'
    BY DEF TypeOK, Mutex
  <2>3. OneWinner'
    BY DEF TypeOK, Mutex, OneWinner, Winning
  <2>4. Observed'
    BY DEF TypeOK, Mutex, OneWinner, Winning, Observed, Settled
  <2> QED
    BY <2>1, <2>2, <2>3, <2>4
<1>2. CASE WaitTest(w)
  <2> USE <1>2 DEF WaitTest, Outcome
  <2>1. TypeOK'
    BY DEF TypeOK
  <2>2. Mutex'
    BY DEF TypeOK, Mutex
  <2>3. OneWinner'
    BY DEF TypeOK, Mutex, OneWinner, Winning
  <2>4. Observed'
    BY DEF TypeOK, Mutex, OneWinner, Winning, Observed, Settled
  <2> QED
    BY <2>1, <2>2, <2>3, <2>4
<1>3. CASE WaitSleep(w)
  <2> USE <1>3 DEF WaitSleep
  <2>1. TypeOK'
    BY DEF TypeOK
  <2>2. Mutex'
    BY DEF TypeOK, Mutex
  <2>3. OneWinner'
    BY DEF TypeOK, Mutex, OneWinner, Winning
  <2>4. Observed'
    BY DEF TypeOK, Mutex, OneWinner, Winning, Observed, Settled
  <2> QED
    BY <2>1, <2>2, <2>3, <2>4
<1>4. CASE LastTest(w)
  <2> USE <1>4 DEF LastTest, Outcome
  <2>1. TypeOK'
    BY DEF TypeOK
  <2>2. Mutex'
    BY DEF TypeOK, Mutex
  <2>3. OneWinner'
    BY DEF TypeOK, Mutex, OneWinner, Winning
  <2>4. Observed'
    BY DEF TypeOK, Mutex, OneWinner, Winning, Observed, Settled
  <2> QED
    BY <2>1, <2>2, <2>3, <2>4
<1>5. CASE SpuriousWakeup(w)
  <2> USE <1>5 DEF SpuriousWakeup
  <2>1. TypeOK'
    BY DEF TypeOK
  <2>2. Mutex'
    BY DEF TypeOK, Mutex
  <2>3. OneWinner'
    BY DEF TypeOK, Mutex, OneWinner, Winning
  <2>4. Observed'
    BY DEF TypeOK, Mutex, OneWinner, Winning, Observed, Settled
  <2> QED
    BY <2>1, <2>2, <2>3, <2>4
<1>6. CASE Expire(w)
  <2> USE <1>6 DEF Expire
  <2>1. TypeOK'
    BY DEF TypeOK
  <2>2. Mutex'
    BY DEF TypeOK, Mutex
  <2>3. OneWinner'
    BY DEF TypeOK, Mutex, OneWinner, Winning
  <2>4. Observed'
    BY DEF TypeOK, Mutex, OneWinner, Winning, Observed, Settled
  <2> QED
    BY <2>1, <2>2, <2>3, <2>4
<1> QED
  BY <1>1, <1>2, <1>3, <1>4, <1>5, <1>6 DEF WaiterStep

\* isCompleted() and isSuccess() keep the invariant.
LEMMA PollerPreserves ==
  ASSUME IInv, NEW p \in Pollers, PollerStep(p)
  PROVE  IInv'
<1> USE ThreadsAssumption DEF IInv
<1>1. CASE PollCompleted(p)
  <2> USE <1>1 DEF PollCompleted
  <2>1. TypeOK'
    BY DEF TypeOK
  <2>2. Mutex'
    BY DEF TypeOK, Mutex
  <2>3. OneWinner'
    BY DEF TypeOK, Mutex, OneWinner, Winning
  <2>4. Observed'
    BY DEF TypeOK, Mutex, OneWinner, Winning, Observed, Settled
  <2> QED
    BY <2>1, <2>2, <2>3, <2>4
<1>2. CASE QuerySuccess(p)
  <2> USE <1>2 DEF QuerySuccess
  <2>1. TypeOK'
    BY DEF TypeOK
  <2>2. Mutex'
    BY DEF TypeOK, Mutex
  <2>3. OneWinner'
    BY DEF TypeOK, Mutex, OneWinner, Winning
  <2>4. Observed'
    BY DEF TypeOK, Mutex, OneWinner, Winning, Observed, Settled
  <2> QED
    BY <2>1, <2>2, <2>3, <2>4
<1> QED
  BY <1>1, <1>2 DEF PollerStep

\* Every step keeps the invariant.
LEMMA NextIInv == IInv /\ [Next]_vars => IInv'
<1> SUFFICES ASSUME IInv, [Next]_vars PROVE IInv'
  OBVIOUS
<1>1. CASE UNCHANGED vars
  BY <1>1 DEF vars, IInv, TypeOK, Mutex, OneWinner, Winning, Observed, Settled
<1> QED
  BY <1>1, FinisherPreserves, WaiterPreserves, PollerPreserves
  DEF Next, Terminating

\* In every reachable state the inductive invariant holds.
THEOREM Inductive == Spec => []IInv
BY InitIInv, NextIInv, PTL DEF Spec

\* The state of a WorkMCCL and of its callers has its types.
THEOREM TypeCorrect == Spec => []TypeOK
<1>1. IInv => TypeOK
  BY DEF IInv
<1> QED
  BY Inductive, <1>1, PTL

\* wait(), isSuccess() and the future never disagree on whether the
\* collective succeeded, for any number of threads that call finish() or
\* finishWithException(), wait() or poll.
THEOREM Agreement == Spec => []OneOutcome
<1>1. IInv => OneOutcome
  BY DEF IInv, OneWinner, Observed, OneOutcome
<1> QED
  BY Inductive, <1>1, PTL
=============================================================================
