------------------------------ MODULE Progress ------------------------------
(***************************************************************************)
(* The progress engine (csrc/backend/Progress.cpp): a FIFO of tasks and    *)
(* one worker thread, with a mutex mu_, a condition variable cv_ and an    *)
(* atomic flag stop_ that is written without the mutex.  The owner is the  *)
(* ProcessGroupMCCL, whose destructor destroys the engine first and the    *)
(* mesh (whose sockets the tasks use) afterwards.                          *)
(*                                                                         *)
(* cv_.wait(lk, pred) is the loop while (!pred()) wait(lk): evaluating the *)
(* predicate and going to sleep are two steps under the mutex, sleeping    *)
(* releases it, and a notification reaches only a thread that sleeps.      *)
(***************************************************************************)
EXTENDS Naturals, Sequences

CONSTANTS Tasks, NoTask

ASSUME NoTaskAssumption == NoTask \notin Tasks

VARIABLES
  q,          \* q_
  stop,       \* stop_
  worker,     \* where the worker thread is in run()
  task,       \* the task the worker has taken, or NoTask
  caller,     \* per task, where its caller is in submit()
  owner,      \* where the destructor of the process group is
  meshOpen,   \* mesh_ has not been destroyed
  submitted,  \* history: the tasks in the order in which they were pushed
  ran,        \* history: the tasks in the order in which they were run
  failed      \* history: the tasks that threw

vars == <<q, stop, worker, task, caller, owner, meshOpen,
          submitted, ran, failed>>

\* The worker holds mu_ from lock to the wait, the return or the pop.
MuFree == worker \notin {"test", "sleep", "take"}

Init ==
  /\ q = <<>>
  /\ stop = FALSE
  /\ worker = "lock"
  /\ task = NoTask
  /\ caller = [t \in Tasks |-> "before"]
  /\ owner = "alive"
  /\ meshOpen = TRUE
  /\ submitted = <<>>
  /\ ran = <<>>
  /\ failed = {}

\* Mutant of Push: a stack instead of a queue.
PushFront(t) ==
  /\ caller[t] = "before"
  /\ owner = "alive"
  /\ MuFree
  /\ q' = <<t>> \o q
  /\ submitted' = Append(submitted, t)
  /\ caller' = [caller EXCEPT ![t] = "pushed"]
  /\ UNCHANGED <<stop, worker, task, owner, meshOpen, ran, failed>>

\* submit, first half: push under the mutex.
Push(t) ==
  /\ caller[t] = "before"
  /\ owner = "alive"
  /\ MuFree
  /\ q' = Append(q, t)
  /\ submitted' = Append(submitted, t)
  /\ caller' = [caller EXCEPT ![t] = "pushed"]
  /\ UNCHANGED <<stop, worker, task, owner, meshOpen, ran, failed>>

\* Mutant of Wake: nobody is notified.
NoWake == worker' = worker

\* cv_.notify_one and cv_.notify_all: the worker is the only waiter.
Wake == worker' = IF worker = "sleeping" THEN "lock" ELSE worker

\* submit, second half: notify_one, after the mutex was released.
Notify(t) ==
  /\ caller[t] = "pushed"
  /\ caller' = [caller EXCEPT ![t] = "after"]
  /\ Wake
  /\ UNCHANGED <<q, stop, task, owner, meshOpen, submitted, ran, failed>>

\* The worker gets mu_, at the top of the loop or when it was woken.
Lock ==
  /\ worker = "lock"
  /\ worker' = "test"
  /\ UNCHANGED <<q, stop, task, caller, owner, meshOpen, submitted, ran,
                 failed>>

\* The predicate of cv_.wait.
Test ==
  /\ worker = "test"
  /\ worker' = IF stop \/ q # <<>> THEN "take" ELSE "sleep"
  /\ UNCHANGED <<q, stop, task, caller, owner, meshOpen, submitted, ran,
                 failed>>

\* The predicate was false: release mu_ and sleep.
Sleep ==
  /\ worker = "sleep"
  /\ worker' = "sleeping"
  /\ UNCHANGED <<q, stop, task, caller, owner, meshOpen, submitted, ran,
                 failed>>

\* A condition variable may wake its waiter for no reason.
SpuriousWakeup ==
  /\ worker = "sleeping"
  /\ worker' = "lock"
  /\ UNCHANGED <<q, stop, task, caller, owner, meshOpen, submitted, ran,
                 failed>>

\* Mutant of Take: the task is popped and not moved out.
TakeNothing ==
  /\ worker = "take"
  /\ q # <<>>
  /\ q' = Tail(q)
  /\ worker' = "run"
  /\ UNCHANGED <<stop, task, caller, owner, meshOpen, submitted, ran, failed>>

\* Mutant of Take: stop_ is tested before the queue.
TakeUnlessStopped ==
  /\ worker = "take"
  /\ IF stop
     THEN /\ worker' = "returned"
          /\ UNCHANGED <<q, task>>
     ELSE /\ task' = Head(q)
          /\ q' = Tail(q)
          /\ worker' = "run"
  /\ UNCHANGED <<stop, caller, owner, meshOpen, submitted, ran, failed>>

\* With mu_ held after the wait: return if there is nothing to do and stop_
\* is set, else take the front task and release mu_.
Take ==
  /\ worker = "take"
  /\ IF q = <<>>
     THEN /\ worker' = IF stop THEN "returned" ELSE "lock"
          /\ UNCHANGED <<q, task>>
     ELSE /\ task' = Head(q)
          /\ q' = Tail(q)
          /\ worker' = "run"
  /\ UNCHANGED <<stop, caller, owner, meshOpen, submitted, ran, failed>>

\* task(), outside the mutex; what it throws is swallowed.
Run ==
  /\ worker = "run"
  /\ \E throws \in BOOLEAN :
       failed' = IF throws THEN failed \cup {task} ELSE failed
  /\ ran' = Append(ran, task)
  /\ task' = NoTask
  /\ worker' = "lock"
  /\ UNCHANGED <<q, stop, caller, owner, meshOpen, submitted>>

\* ~Progress, shutdown: stop_.exchange(true).  The owner destroys the
\* engine when no call to submit is in progress or will be made.
ExchangeStop ==
  /\ owner = "alive"
  /\ \A t \in Tasks : caller[t] # "pushed"
  /\ owner' = "stopping"
  /\ stop' = TRUE
  /\ UNCHANGED <<q, worker, task, caller, meshOpen, submitted, ran, failed>>

\* shutdown: cv_.notify_all.
NotifyAll ==
  /\ owner = "stopping"
  /\ owner' = "joining"
  /\ Wake
  /\ UNCHANGED <<q, stop, task, caller, meshOpen, submitted, ran, failed>>

\* Mutant of Join: the thread is detached.
Detach ==
  /\ owner = "joining"
  /\ owner' = "joined"
  /\ UNCHANGED <<q, stop, worker, task, caller, meshOpen, submitted, ran,
                 failed>>

\* shutdown: t_.join returns.
Join ==
  /\ owner = "joining"
  /\ worker = "returned"
  /\ owner' = "joined"
  /\ UNCHANGED <<q, stop, worker, task, caller, meshOpen, submitted, ran,
                 failed>>

\* Mutant of CloseMesh: mesh_ is declared after engine_ and destroyed first.
CloseMeshFirst ==
  /\ owner = "alive"
  /\ meshOpen
  /\ meshOpen' = FALSE
  /\ UNCHANGED <<q, stop, worker, task, caller, owner, submitted, ran, failed>>

\* ~ProcessGroupMCCL goes on: members are destroyed in reverse order of
\* declaration, so mesh_ closes its sockets after engine_ is gone.
CloseMesh ==
  /\ owner = "joined"
  /\ owner' = "gone"
  /\ meshOpen' = FALSE
  /\ UNCHANGED <<q, stop, worker, task, caller, submitted, ran, failed>>

Terminating == owner = "gone" /\ UNCHANGED vars

WorkerStep == Lock \/ Test \/ Sleep \/ Take \/ Run

Next ==
  \/ \E t \in Tasks : Push(t) \/ Notify(t)
  \/ WorkerStep \/ SpuriousWakeup
  \/ ExchangeStop \/ NotifyAll \/ Join \/ CloseMesh
  \/ Terminating

\* The operating system runs the worker, a caller inside submit and the
\* owner inside the destructor.  Nobody has to call submit or to destroy the
\* group, and spurious wakeups need not happen.
Fairness ==
  /\ WF_vars(WorkerStep)
  /\ \A t \in Tasks : WF_vars(Notify(t))
  /\ WF_vars(NotifyAll) /\ WF_vars(Join) /\ WF_vars(CloseMesh)

Spec == Init /\ [][Next]_vars /\ Fairness

-----------------------------------------------------------------------------

\* The types of the engine's state; it holds a task while it runs one.
TypeOK ==
  /\ q \in Seq(Tasks)
  /\ stop \in BOOLEAN
  /\ worker \in {"lock", "test", "sleep", "sleeping", "take", "run",
                 "returned"}
  /\ task \in Tasks \cup {NoTask} /\ (task # NoTask <=> worker = "run")
  /\ caller \in [Tasks -> {"before", "pushed", "after"}]
  /\ owner \in {"alive", "stopping", "joining", "joined", "gone"}
  /\ meshOpen \in BOOLEAN
  /\ submitted \in Seq(Tasks)
  /\ ran \in Seq(Tasks)
  /\ failed \in SUBSET Tasks

\* Taken by the worker so far: the tasks that ran and the one that runs.
Taken == Len(ran) + IF worker = "run" THEN 1 ELSE 0

\* Progress.hpp: "the engine thread runs tasks in submission order".  What
\* ran, what runs and what is queued are together exactly what was
\* submitted, in that order: nothing is lost, run twice or overtaken, whatever
\* a task throws and however callers, worker and shutdown interleave.
FifoOrder ==
  /\ Len(submitted) = Taken + Len(q)
  /\ \A i \in 1 .. Len(ran) : ran[i] = submitted[i]
  /\ worker = "run" => task = submitted[Taken]
  /\ \A i \in 1 .. Len(q) : q[i] = submitted[Taken + i]

\* "dtor drains the queue" (test_progress.cpp): when shutdown has joined the
\* worker, every task ever submitted has run.
DrainedOnShutdown ==
  owner \in {"joined", "gone"} => ran = submitted

\* No task runs, or will run, once the sockets are closed: the engine is
\* joined before the mesh is destroyed.
NoTaskOnClosedMesh ==
  ~meshOpen => worker = "returned" /\ q = <<>>

\* The engine is a FIFO executor: it implements the specification that only
\* knows of submitting, running the next one and closing when all have run.
Executor ==
  INSTANCE FifoExecutor WITH closed <- owner \in {"joined", "gone"}

ImplementsFifo == Executor!Spec

\* Every task that was pushed is eventually run: no wakeup of submit is lost.
EverySubmittedRuns ==
  \A t \in Tasks :
    caller[t] = "pushed" ~> \E i \in DOMAIN ran : ran[i] = t

\* "shutdown is idempotent", "dtor drains the queue" (test_progress.cpp):
\* shutdown returns.
ShutdownReturns == owner = "stopping" ~> owner = "gone"
=============================================================================
