------------------------------ MODULE WorkMCCL ------------------------------
(***************************************************************************)
(* The completion object of a collective (csrc/backend/WorkMCCL.cpp):      *)
(* completed_ is an atomic flag that is set under mu_ and also read        *)
(* without it; exception_ is guarded by mu_; the c10 Future is fulfilled   *)
(* after mu_ was released, and only then are waiters notified.             *)
(*                                                                         *)
(* Finishers call finish() or finishWithException(), several of them       *)
(* ("Thread-safe; calling multiple times is a no-op", WorkMCCL.hpp).       *)
(* Waiters call wait(), TimedWaiters with a timeout.  Pollers call         *)
(* isCompleted() until it is true and then isSuccess().                    *)
(***************************************************************************)
CONSTANTS Finishers, Waiters, TimedWaiters, Pollers, NoThread

ASSUME TimedAssumption == TimedWaiters \subseteq Waiters
ASSUME ThreadsAssumption ==
  /\ NoThread \notin Finishers \cup Waiters \cup Pollers
  /\ Finishers \cap Waiters = {}

VARIABLES
  mu,         \* the thread that holds mu_, or NoThread
  completed,  \* completed_
  exception,  \* exception_ is set
  future,     \* future_: pending, value or error
  fin,        \* per finisher, where it is
  wtr,        \* per waiter, where it is, at the end with its result
  poll        \* per poller, where it is, at the end with its result

vars == <<mu, completed, exception, future, fin, wtr, poll>>

Init ==
  /\ mu = NoThread
  /\ completed = FALSE
  /\ exception = FALSE
  /\ future = "pending"
  /\ fin = [f \in Finishers |-> "call"]
  /\ wtr = [w \in Waiters |-> "call"]
  /\ poll = [p \in Pollers |-> "poll"]

\* finish(): the sync callback runs first, and may throw, which turns the
\* call into finishWithException(), as does a body that threw.
SyncCallback(f) ==
  /\ fin[f] = "call"
  /\ \E ok \in BOOLEAN :
       fin' = [fin EXCEPT ![f] = IF ok THEN "finish" ELSE "fail"]
  /\ UNCHANGED <<mu, completed, exception, future, wtr, poll>>

\* finish(), the block under mu_: the first one to complete goes on.
FinishExchange(f) ==
  /\ fin[f] = "finish"
  /\ mu = NoThread
  /\ fin' = [fin EXCEPT ![f] = IF completed THEN "returned" ELSE "value"]
  /\ completed' = TRUE
  /\ UNCHANGED <<mu, exception, future, wtr, poll>>

\* Mutant of FailExchange: completed_ is stored, not exchanged.
FailStore(f) ==
  /\ fin[f] = "fail"
  /\ mu = NoThread
  /\ fin' = [fin EXCEPT ![f] = "setexc"]
  /\ mu' = f
  /\ completed' = TRUE
  /\ UNCHANGED <<exception, future, wtr, poll>>

\* finishWithException(), under mu_: completed_.exchange(true); pollers that
\* do not take mu_ see the flag before exception_ is set.
FailExchange(f) ==
  /\ fin[f] = "fail"
  /\ mu = NoThread
  /\ IF completed
     THEN /\ fin' = [fin EXCEPT ![f] = "returned"]
          /\ UNCHANGED <<mu, completed>>
     ELSE /\ fin' = [fin EXCEPT ![f] = "setexc"]
          /\ mu' = f
          /\ completed' = TRUE
  /\ UNCHANGED <<exception, future, wtr, poll>>

\* Mutant of SetException: mu_ is not released.
SetExceptionHeld(f) ==
  /\ fin[f] = "setexc"
  /\ exception' = TRUE
  /\ fin' = [fin EXCEPT ![f] = "error"]
  /\ UNCHANGED <<mu, completed, future, wtr, poll>>

\* exception_ = eptr, and mu_ is released.
SetException(f) ==
  /\ fin[f] = "setexc"
  /\ exception' = TRUE
  /\ mu' = NoThread
  /\ fin' = [fin EXCEPT ![f] = "error"]
  /\ UNCHANGED <<completed, future, wtr, poll>>

\* Mutant of FulfilFuture: only a value fulfils the future.
FulfilOnlyValue(f) ==
  /\ fin[f] \in {"value", "error"}
  /\ future' = IF future = "pending" /\ fin[f] = "value" THEN "value" ELSE future
  /\ fin' = [fin EXCEPT ![f] = "notify"]
  /\ UNCHANGED <<mu, completed, exception, wtr, poll>>

\* if (!future_->completed()) markCompleted or setError.
FulfilFuture(f) ==
  /\ fin[f] \in {"value", "error"}
  /\ future' = IF future = "pending" THEN fin[f] ELSE future
  /\ fin' = [fin EXCEPT ![f] = "notify"]
  /\ UNCHANGED <<mu, completed, exception, wtr, poll>>

\* Mutant of NotifyAll: notify_one.
NotifyOne(f) ==
  /\ fin[f] = "notify"
  /\ fin' = [fin EXCEPT ![f] = "returned"]
  /\ \/ \E w \in Waiters :
          wtr[w] = "sleeping" /\ wtr' = [wtr EXCEPT ![w] = "call"]
     \/ (\A w \in Waiters : wtr[w] # "sleeping") /\ UNCHANGED wtr
  /\ UNCHANGED <<mu, completed, exception, future, poll>>

\* cv_.notify_all: every thread that sleeps in wait() wakes up.
NotifyAll(f) ==
  /\ fin[f] = "notify"
  /\ fin' = [fin EXCEPT ![f] = "returned"]
  /\ wtr' = [w \in Waiters |-> IF wtr[w] = "sleeping" THEN "call" ELSE wtr[w]]
  /\ UNCHANGED <<mu, completed, exception, future, poll>>

\* wait(): take mu_, when called and again after every wakeup.
WaitLock(w) ==
  /\ wtr[w] \in {"call", "expired"}
  /\ mu = NoThread
  /\ mu' = w
  /\ wtr' = [wtr EXCEPT ![w] = IF @ = "call" THEN "test" ELSE "lasttest"]
  /\ UNCHANGED <<completed, exception, future, fin, poll>>

\* What wait() does once completed_ is true: rethrow, or return true.
Outcome == IF exception THEN "threw" ELSE "true"

\* The predicate of the wait; if it holds, the rest of wait().
WaitTest(w) ==
  /\ wtr[w] = "test"
  /\ wtr' = [wtr EXCEPT ![w] = IF completed THEN Outcome ELSE "sleep"]
  /\ mu' = IF completed THEN NoThread ELSE mu
  /\ UNCHANGED <<completed, exception, future, fin, poll>>

\* Release mu_ and sleep.
WaitSleep(w) ==
  /\ wtr[w] = "sleep"
  /\ wtr' = [wtr EXCEPT ![w] = "sleeping"]
  /\ mu' = NoThread
  /\ UNCHANGED <<completed, exception, future, fin, poll>>

\* A condition variable may wake a waiter for no reason.
SpuriousWakeup(w) ==
  /\ wtr[w] = "sleeping"
  /\ wtr' = [wtr EXCEPT ![w] = "call"]
  /\ UNCHANGED <<mu, completed, exception, future, fin, poll>>

\* wait_for: the timeout expires while the thread sleeps.
Expire(w) ==
  /\ w \in TimedWaiters
  /\ wtr[w] = "sleeping"
  /\ wtr' = [wtr EXCEPT ![w] = "expired"]
  /\ UNCHANGED <<mu, completed, exception, future, fin, poll>>

\* wait_for evaluates the predicate once more and returns it.
LastTest(w) ==
  /\ wtr[w] = "lasttest"
  /\ wtr' = [wtr EXCEPT ![w] = IF completed THEN Outcome ELSE "false"]
  /\ mu' = NoThread
  /\ UNCHANGED <<completed, exception, future, fin, poll>>

\* isCompleted(), without mu_.
PollCompleted(p) ==
  /\ poll[p] = "poll"
  /\ completed
  /\ poll' = [poll EXCEPT ![p] = "query"]
  /\ UNCHANGED <<mu, completed, exception, future, fin, wtr>>

\* isSuccess(), under mu_.
QuerySuccess(p) ==
  /\ poll[p] = "query"
  /\ mu = NoThread
  /\ poll' = [poll EXCEPT ![p] =
                IF completed /\ ~exception THEN "success" ELSE "failure"]
  /\ UNCHANGED <<mu, completed, exception, future, fin, wtr>>

FinisherStep(f) ==
  \/ SyncCallback(f) \/ FinishExchange(f) \/ FailExchange(f)
  \/ SetException(f) \/ FulfilFuture(f) \/ NotifyAll(f)

WaiterStep(w) == WaitLock(w) \/ WaitTest(w) \/ WaitSleep(w) \/ LastTest(w)

PollerStep(p) == PollCompleted(p) \/ QuerySuccess(p)

WaitReturned(w) == wtr[w] \in {"true", "threw", "false"}

Terminating ==
  /\ \A f \in Finishers : fin[f] = "returned"
  /\ \A w \in Waiters : WaitReturned(w)
  /\ \A p \in Pollers : poll[p] \in {"success", "failure"}
  /\ UNCHANGED vars

Next ==
  \/ \E f \in Finishers : FinisherStep(f)
  \/ \E w \in Waiters : WaiterStep(w) \/ SpuriousWakeup(w) \/ Expire(w)
  \/ \E p \in Pollers : PollerStep(p)
  \/ Terminating

\* Every thread inside one of the calls is run by the operating system, the
\* mutex is granted in the end to a thread that waits for it, and the engine
\* does call finish() (the tasks of the progress engine terminate).
Fairness ==
  /\ \A f \in Finishers :
       /\ WF_vars(SyncCallback(f) \/ SetException(f) \/ FulfilFuture(f)
                  \/ NotifyAll(f))
       /\ SF_vars(FinishExchange(f) \/ FailExchange(f))
  /\ \A w \in Waiters :
       /\ SF_vars(WaitLock(w))
       /\ WF_vars(WaitTest(w) \/ WaitSleep(w) \/ LastTest(w))

Spec == Init /\ [][Next]_vars /\ Fairness

-----------------------------------------------------------------------------

\* The types of the state of a WorkMCCL and of the threads that use it; mu_
\* is held by nobody who has left its critical section.
TypeOK ==
  /\ mu \in Finishers \cup Waiters \cup {NoThread}
  /\ mu \in Finishers => fin[mu] = "setexc"
  /\ mu \in Waiters => wtr[mu] \in {"test", "sleep", "lasttest"}
  /\ completed \in BOOLEAN
  /\ exception \in BOOLEAN
  /\ future \in {"pending", "value", "error"}
  /\ fin \in [Finishers -> {"call", "finish", "fail", "setexc", "value",
                            "error", "notify", "returned"}]
  /\ wtr \in [Waiters -> {"call", "test", "sleep", "sleeping", "expired",
                          "lasttest", "true", "threw", "false"}]
  /\ poll \in [Pollers -> {"poll", "query", "success", "failure"}]

\* All observers agree on the outcome, however many threads finish the work
\* and whether they report success or an exception: nobody sees a success
\* and somebody else a failure, the future included.
OneOutcome ==
  LET ok == \/ future = "value"
            \/ \E w \in Waiters : wtr[w] = "true"
            \/ \E p \in Pollers : poll[p] = "success"
      bad == \/ future = "error"
             \/ \E w \in Waiters : wtr[w] = "threw"
             \/ \E p \in Pollers : poll[p] = "failure"
  IN  ~(ok /\ bad)

\* An untimed wait() returns: the notification that follows completed_ is
\* never lost.
WaitReturns == \A w \in Waiters : <>WaitReturned(w)

\* The future is fulfilled.
FutureFulfilled == <>(future # "pending")

\* WorkMCCL.hpp: wait() "blocks until then; getFuture() returns a fulfilled
\* Future once the work is done": after a wait() that reported the outcome
\* the future is fulfilled.
FulfilledAfterWait ==
  \A w \in Waiters : wtr[w] \in {"true", "threw"} => future # "pending"
=============================================================================
