--------------------------- MODULE ProgressEngine ---------------------------
(***************************************************************************)
(* The bounded progress engine of the runtime (csrc/runtime/               *)
(* ProgressEngine.cpp): callers of submit, one worker thread, and an owner *)
(* that may start and stop it several times.  mu_ guards the queue; callers*)
(* wait on not_full_, the worker on not_empty_; stop_requested_ is set     *)
(* under mu_ by stop and cleared without it by start.                      *)
(*                                                                         *)
(* Each operation carries a buffer of the staging pool: its caller takes   *)
(* it before submit, the closures own it (a SharedPooledBuffer), and it    *)
(* goes back when they are destroyed.                                      *)
(***************************************************************************)
EXTENDS MemoryPool

CONSTANTS
  Ops,         \* the operations callers will submit
  Bytes,       \* Bytes[o]: the size of the buffer of o
  max_depth,   \* max_depth_
  MaxStarts    \* bound: how often the owner calls start

ASSUME DepthAssumption == max_depth \in Nat \ {0}

ASSUME CallersAssumption ==
  /\ IsFiniteSet(Ops) /\ \A o \in Ops : Bytes[o] \in Nat
  /\ MaxStarts \in Nat

VARIABLES
  queue,            \* queue_
  running,          \* running_
  stop_requested,   \* stop_requested_
  mu,               \* the caller that holds mu_ between two steps, as a set
  caller,           \* per operation, where its caller is in submit
  worker,           \* where the worker is in worker_loop; "none": no thread
  op,               \* the operation the worker has taken, as a sequence
  owner,            \* where the owner is in start or stop
  starts,           \* calls of start so far
  pool, total,      \* the staging pool
  held,             \* per operation, the buffers its closures own
  accepted, ran,    \* history: the order of push_back, and of execute
  told              \* per operation, how often its outcome was reported

engine == <<queue, running, stop_requested, mu, worker, op, owner, starts>>
memory == <<pool, total, held>>
history == <<accepted, ran, told>>
vars == <<engine, caller, memory, history>>

HeldBuffers == UNION {held[o] : o \in Ops}

Live == {b.data : b \in HeldBuffers \cup Range(pool)}

Init ==
  /\ queue = <<>> /\ running = FALSE /\ stop_requested = FALSE /\ mu = {}
  /\ caller = [o \in Ops |-> "before"]
  /\ worker = "none" /\ op = <<>> /\ owner = "stopped" /\ starts = 0
  /\ pool = <<>> /\ total = 0 /\ held = [o \in Ops |-> {}]
  /\ accepted = <<>> /\ ran = <<>> /\ told = [o \in Ops |-> 0]

-----------------------------------------------------------------------------

\* The caller makes its PooledBuffer; posix_memalign may fail, which throws.
Acquire(o) ==
  /\ caller[o] = "before"
  /\ \/ /\ Fitting(pool, Bytes[o]) # {} \/ ~(Addresses \subseteq Live)
        /\ held' = [held EXCEPT ![o] = {Acquired(pool, Live, Bytes[o])}]
        /\ pool' = PoolAfter(pool, Bytes[o])
        /\ total' = TotalAfter(pool, total, Bytes[o])
        /\ caller' = [caller EXCEPT ![o] = "check"]
     \/ /\ Fitting(pool, Bytes[o]) = {}
        /\ caller' = [caller EXCEPT ![o] = "threw"]
        /\ UNCHANGED memory
  /\ UNCHANGED <<engine, history>>

\* Mutant of Destroy: the destructor runs for the moved-from guard too.
DestroyTwice(o) ==
  /\ pool' = IF held[o] = {} THEN pool
             ELSE LET c == CHOOSE b \in held[o] : TRUE
                  IN  release(release(pool, c), c)
  /\ held' = [held EXCEPT ![o] = {}]
  /\ UNCHANGED total

\* ~PooledBuffer: the closures of o are destroyed and its buffer released.
Destroy(o) ==
  /\ pool' = IF held[o] = {} THEN pool
             ELSE release(pool, CHOOSE b \in held[o] : TRUE)
  /\ held' = [held EXCEPT ![o] = {}]
  /\ UNCHANGED total

\* submit, the check on entry; a throw unwinds the caller's closures.
Check(o) ==
  /\ caller[o] = "check"
  /\ \/ running /\ caller' = [caller EXCEPT ![o] = "lock"] /\ UNCHANGED memory
     \/ ~running /\ caller' = [caller EXCEPT ![o] = "threw"] /\ Destroy(o)
  /\ UNCHANGED <<engine, history>>

HasRoom == Len(queue) < max_depth

\* not_full_.wait: evaluate the predicate under mu_, go on or sleep.
Await(o) ==
  /\ caller[o] = "lock"
  /\ mu = {}
  /\ IF HasRoom \/ stop_requested
     THEN mu' = {o} /\ caller' = [caller EXCEPT ![o] = "locked"]
     ELSE mu' = mu /\ caller' = [caller EXCEPT ![o] = "waiting"]
  /\ UNCHANGED <<queue, running, stop_requested, worker, op, owner, starts,
                 memory, history>>

\* With mu_ held after the wait: throw when the engine stops, else push_back.
Push(o) ==
  /\ caller[o] = "locked"
  /\ mu' = {}
  /\ \/ /\ stop_requested
        /\ caller' = [caller EXCEPT ![o] = "threw"]
        /\ Destroy(o)
        /\ UNCHANGED <<queue, accepted>>
     \/ /\ ~stop_requested
        /\ queue' = Append(queue, o)
        /\ accepted' = Append(accepted, o)
        /\ caller' = [caller EXCEPT ![o] = "notify"]
        /\ UNCHANGED memory
  /\ UNCHANGED <<running, stop_requested, worker, op, owner, starts, ran,
                 told>>

\* not_empty_.notify_one, whose only waiter is the worker.
WakeWorker == worker' = IF worker = "waiting" THEN "lock" ELSE worker

\* submit, the end.
Notify(o) ==
  /\ caller[o] = "notify"
  /\ caller' = [caller EXCEPT ![o] = "returned"]
  /\ WakeWorker
  /\ UNCHANGED <<queue, running, stop_requested, mu, op, owner, starts,
                 memory, history>>

-----------------------------------------------------------------------------

\* Mutant of Take: stop_requested_ ends the loop whatever is queued.
TakeUnlessStopped ==
  /\ worker = "lock" /\ mu = {}
  /\ \/ stop_requested /\ worker' = "exited" /\ UNCHANGED <<queue, op>>
     \/ ~stop_requested /\ queue = <<>> /\ worker' = "waiting"
        /\ UNCHANGED <<queue, op>>
     \/ ~stop_requested /\ queue # <<>> /\ worker' = "taken"
        /\ op' = <<Head(queue)>> /\ queue' = Tail(queue)
  /\ UNCHANGED <<running, stop_requested, mu, caller, owner, starts, memory,
                 history>>

\* not_empty_.wait and what follows it under mu_: sleep, leave the loop, or
\* take the front operation.
Take ==
  /\ worker = "lock" /\ mu = {}
  /\ \/ queue = <<>> /\ ~stop_requested /\ worker' = "waiting"
        /\ UNCHANGED <<queue, op>>
     \/ queue = <<>> /\ stop_requested /\ worker' = "exited"
        /\ UNCHANGED <<queue, op>>
     \/ queue # <<>> /\ worker' = "taken"
        /\ op' = <<Head(queue)>> /\ queue' = Tail(queue)
  /\ UNCHANGED <<running, stop_requested, mu, caller, owner, starts, memory,
                 history>>

Waiting == {o \in Ops : caller[o] = "waiting"}

\* not_full_.notify_one: any one of the callers that wait.
SignalNotFull ==
  IF Waiting = {} THEN UNCHANGED caller
  ELSE \E o \in Waiting : caller' = [caller EXCEPT ![o] = "lock"]

Freed ==
  /\ worker = "taken"
  /\ worker' = "execute"
  /\ SignalNotFull
  /\ UNCHANGED <<queue, running, stop_requested, mu, op, owner, starts,
                 memory, history>>

\* op.execute(), outside mu_, which may throw.
Execute ==
  /\ worker = "execute"
  /\ worker' \in {"on_complete", "on_error"}
  /\ ran' = ran \o op
  /\ UNCHANGED <<queue, running, stop_requested, mu, op, owner, starts,
                 caller, memory, accepted, told>>

Tell == told' = [told EXCEPT ![op[1]] = @ + 1]

\* op.on_complete(), which reports the outcome unless it throws; then the
\* exception goes to on_error.
OnComplete ==
  /\ worker = "on_complete"
  /\ \/ worker' = "destroy" /\ Tell
     \/ worker' = "on_error" /\ UNCHANGED told
  /\ UNCHANGED <<queue, running, stop_requested, mu, op, owner, starts,
                 caller, memory, accepted, ran>>

\* op.on_error(ex); what it throws is swallowed.
OnError ==
  /\ worker = "on_error"
  /\ worker' = "destroy"
  /\ Tell
  /\ UNCHANGED <<queue, running, stop_requested, mu, op, owner, starts,
                 caller, memory, accepted, ran>>

\* The end of the loop's body: op goes out of scope.
EndOfScope ==
  /\ worker = "destroy"
  /\ worker' = "lock"
  /\ op' = <<>>
  /\ Destroy(op[1])
  /\ UNCHANGED <<queue, running, stop_requested, mu, owner, starts, caller,
                 history>>

-----------------------------------------------------------------------------

\* start: stop_requested_ and running_, then the thread.
Start ==
  /\ owner = "stopped" /\ starts < MaxStarts
  /\ owner' = "starting" /\ starts' = starts + 1
  /\ stop_requested' = FALSE
  /\ UNCHANGED <<queue, running, mu, worker, op, caller, memory, history>>

StartThread ==
  /\ owner = "starting"
  /\ owner' = "started"
  /\ running' = TRUE
  /\ worker' = "lock"
  /\ UNCHANGED <<queue, stop_requested, mu, op, starts, caller, memory,
                 history>>

\* stop and ~ProgressEngine: the flag, under mu_.
RequestStop ==
  /\ owner = "started" /\ mu = {}
  /\ owner' = "stopping"
  /\ stop_requested' = TRUE
  /\ UNCHANGED <<queue, running, mu, worker, op, starts, caller, memory,
                 history>>

\* Mutant of WakeAll: callers that wait for room are not told.
WakeNone == UNCHANGED caller

\* not_full_.notify_all.
WakeAll ==
  caller' = [o \in Ops |-> IF o \in Waiting THEN "lock" ELSE caller[o]]

NotifyStop ==
  /\ owner = "stopping"
  /\ owner' = "joining"
  /\ WakeWorker
  /\ WakeAll
  /\ UNCHANGED <<queue, running, stop_requested, mu, op, starts, memory,
                 history>>

Join ==
  /\ owner = "joining" /\ worker = "exited"
  /\ owner' = "stopped"
  /\ worker' = "none"
  /\ running' = FALSE
  /\ UNCHANGED <<queue, stop_requested, mu, op, starts, caller, memory,
                 history>>

\* MemoryPool::trim, from any thread.
Trim ==
  /\ total' = TrimmedTotal(pool, total)
  /\ pool' = <<>>
  /\ UNCHANGED <<engine, caller, held, history>>

\* A condition variable may wake a waiter for no reason.
SpuriousWakeup ==
  /\ \/ WakeWorker /\ UNCHANGED caller
     \/ (\E o \in Waiting : caller' = [caller EXCEPT ![o] = "lock"])
        /\ UNCHANGED worker
  /\ UNCHANGED <<queue, running, stop_requested, mu, op, owner, starts,
                 memory, history>>

Submit(o) == Acquire(o) \/ Check(o) \/ Await(o) \/ Push(o) \/ Notify(o)

WorkerStep ==
  Take \/ Freed \/ Execute \/ OnComplete \/ OnError \/ EndOfScope

OwnerStep == StartThread \/ NotifyStop \/ Join

Next ==
  \/ \E o \in Ops : Submit(o)
  \/ WorkerStep \/ OwnerStep
  \/ Start \/ RequestStop \/ Trim \/ SpuriousWakeup

\* The operating system runs a caller inside submit, the worker, and the
\* owner inside start or stop; execute and the callbacks return.  Nobody has
\* to call submit, start, stop or trim.
Fairness ==
  /\ \A o \in Ops : WF_vars(Check(o) \/ Await(o) \/ Push(o) \/ Notify(o))
  /\ WF_vars(WorkerStep)
  /\ WF_vars(OwnerStep)

Spec == Init /\ [][Next]_vars /\ Fairness

-----------------------------------------------------------------------------

\* The types of the engine's state.
TypeOK ==
  /\ queue \in Seq(Ops) /\ op \in Seq(Ops) /\ Len(op) <= 1
  /\ running \in BOOLEAN /\ stop_requested \in BOOLEAN
  /\ mu \subseteq Ops /\ \A o \in Ops : o \in mu <=> caller[o] = "locked"
  /\ caller \in [Ops -> {"before", "check", "lock", "waiting", "locked",
                         "notify", "returned", "threw"}]
  /\ worker \in {"none", "lock", "waiting", "taken", "execute",
                 "on_complete", "on_error", "destroy", "exited"}
  /\ owner \in {"stopped", "starting", "started", "stopping", "joining"}
  /\ starts \in 0 .. MaxStarts
  /\ pool \in Seq(Buffers) /\ total \in Nat
  /\ held \in [Ops -> SUBSET Buffers]
  /\ accepted \in Seq(Ops) /\ ran \in Seq(Ops)
  /\ told \in [Ops -> Nat]

\* "Drain the queue and stop the engine thread" (ProgressEngine.hpp): while
\* the engine is stopped, everything submit ever accepted, in this life or an
\* earlier one, has been executed in the order of acceptance and its outcome
\* reported once, by on_complete or by on_error; what was refused was not.
\* At any time no more than max_depth_ operations are queued.
StopDrains ==
  /\ Len(queue) <= max_depth
  /\ owner = "stopped" =>
       /\ ran = accepted
       /\ \A o \in Ops : told[o] = IF o \in Range(accepted) THEN 1 ELSE 0

\* "Total bytes currently allocated (pooled + in-use)" (MemoryPool.hpp),
\* with no buffer owned twice: a buffer that an operation still holds is not
\* in the pool, where trim would free it and acquire hand it out again, and
\* it is large enough.
Accounted ==
  /\ total = SumFunction(Capacities(pool))
               + SumFunction([b \in HeldBuffers |-> b.capacity])
  /\ IsInjective([i \in DOMAIN pool |-> pool[i].data])
  /\ \A o \in Ops : \A b \in held[o] :
       /\ b.capacity >= Bytes[o]
       /\ b.data \notin {c.data : c \in Range(pool)}
       /\ \A p \in Ops \ {o} : \A c \in held[p] : b.data # c.data

\* Every call of submit ends, although the queue is full or the engine is
\* stopped and started while it waits: it throws, or the operation is
\* executed, called back and its buffer given back.
EveryCallEnds ==
  \A o \in Ops :
    caller[o] = "check" ~>
      \/ caller[o] = "threw"
      \/ caller[o] = "returned" /\ told[o] = 1 /\ held[o] = {}
=============================================================================
