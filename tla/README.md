# A TLA+ model of mccl

mccl is a `torch.distributed` backend for clusters of Apple-silicon machines.
This directory has TLA+ modules that model its backend and most of its
distributed runtime, TLC configurations that check them, and proofs that TLAPS checks. `PROJECT.json` lists components, runs,
mutants, findings, hazards and theorems, and maps every definition to the source
lines it models. Paths below are relative to the root of the repository.

## The system

| Part | Sources | State | Operations | Talks to |
|---|---|---|---|---|
| Process group | `csrc/backend/ProcessGroupMCCL.*` | sequence number; owns the parts below | the collectives, `send`, `recv`, `barrier` | all of the parts below |
| Allreduce algorithms | `csrc/backend/AllreduceAlgos.*` | tensor and scratch views | ring, tree, butterfly | mesh, Metal kernels |
| Progress engine | `csrc/backend/Progress.*` | task queue, mutex, condition variable, stop flag, thread | `submit`, `run`, `shutdown` | runs the tasks of the process group |
| Work object | `csrc/backend/WorkMCCL.*` | completed flag, exception, future | `finish`, `finishWithException`, `wait`, `isCompleted`, `isSuccess` | engine thread and callers |
| Peer mesh | `csrc/backend/PeerMesh.*` | one socket per peer, one mutex per peer and direction | constructor (handshakes), `send`, `recv` | peers, store |
| Rendezvous | `csrc/runtime/Rendezvous.*` | keys in the c10d store | `exchange_endpoints`, `barrier` | store |
| Metal kernels | `csrc/metal/MetalKernels.*` | pipelines, a global batch command buffer | reductions, scaling, begin and end of a batch | GPU |
| MPS interop | `csrc/metal/MPSInterop.*`, `EventSync.*` | staging pool, event counter | staging, stream synchronisation | GPU |
| Cluster manager | `csrc/runtime/ClusterManager.*` | members, heartbeats, leader | join, leave, heartbeat, election, failure detection | scheduler, memory |
| Scheduler | `csrc/runtime/Scheduler.*` | job queue, allocations | submit, cancel, tick, complete, evict | cluster manager |
| Coherence | `csrc/coherence/*` | page directory, pending requests | read, exclusive, invalidate, barrier | memory manager |
| Distributed memory | `csrc/dmem/*` | catalogue, registered regions | register, unregister, put, get | coherence, RDMA |
| Runtime facade | `csrc/runtime/DistributedMetalRuntime.*` | a socket for each agent | dispatch, `sync_all` | agents, coherence, memory |
| Agent | `csrc/agent/*` | running flag, memory manager | the commands of `Protocol.hpp` | runtime facade, cluster manager |
| Bounded engine, buffer pool | `csrc/runtime/ProgressEngine.*`, `MemoryPool.*` | bounded queue, worker; free buffers | start, submit, stop; acquire, release, trim | each other |
| RDMA, Python, shaders | `csrc/transport`, `mccl` | connections, configuration | device I/O, command line, arithmetic | |

`setup.py` builds the backend (first eight rows) into the extension; the
distributed runtime (the other rows but the last) is in the tree, not in the
extension.

What is hard in the backend:

* The TCP streams carry no frames. A receive takes the next bytes, so every rank
  must put its transfers on a stream in the order in which its peer takes them
  off. Ranks run ahead of each other by steps, phases and whole collectives.
* Every collective is queued to the engine except `allreduce`, which runs on the
  calling thread and shares the streams with the engine.
* Transfers block on socket buffers, so the order of sends and receives decides
  whether ranks wait for each other for ever.
* The engine and the work object use condition variables together with atomics
  that are written or read outside the mutex.
* Failures: tasks that throw, mismatching `recv`, barriers that time out.
* While the mesh is built, a rank connects and accepts at once, gives up
  connections that its peer accepts later, and counts what it accepts.

And in the distributed runtime: the loops of the cluster manager act on snapshots
that the others change meanwhile; the bounded engine can be stopped and started
while callers wait for room; the agent's commands have no frames beyond a length
that each side takes from its own knowledge of the command.

## Modules

| Module | Models | How |
|---|---|---|
| `Ranks` | rank and size | `World`, `Rank` |
| `MeshStream` | `write_all`, `read_all`, socket buffers | a bounded FIFO per ordered pair of ranks |
| `Chunks` | `chunkize` | pure operators |
| `Tensor` | what kernels do to an element | an element counts how often each rank's input is in it, who computed it and how often it was scaled |
| `Allreduce` | the promise of an allreduce | abstract specification |
| `RingAllreduce`, `TreeAllreduce`, `ButterflyAllreduce` | the functions of the same names | element by element, with the sending and receiving threads as separate actions |
| `AllreduceCall` | `ProcessGroupMCCL::allreduce` | chooses an algorithm and runs it; shown to implement `Allreduce` |
| `FifoExecutor` | what the collectives expect of the engine | abstract specification |
| `Progress` | the engine, and the order of destruction of engine and mesh | `submit` and `shutdown` are split where they leave the mutex; a wait is test, sleep, wake up |
| `WorkMCCL` | the work object | any number of finishers, waiters, timed waiters and pollers |
| `ProcessGroup`, `MCProcessGroup` | all collectives together | see below |
| `PeerMeshBootstrap`, `MCPeerMeshBootstrap` | the constructor of `PeerMesh` on all ranks | connector and acceptor as two threads per rank, connections with a backlog, address filters, timeouts and retries |
| `Scheduler`, `MemoryCatalog` | the classes of the same names | operators on their state, one for each method |
| `Cluster`, `MCCluster` | `ClusterManager` on the head, with its scheduler and catalogue | heartbeat sender, monitor and scheduler loop cut where they release `state_mu_`, and callers of the public methods |
| `MemoryPool` | the buffer pool | operators |
| `ProgressEngine`, `MCProgressEngine` | the bounded engine, each operation with a pooled buffer | callers, worker and owner cut at locks, waits and notifications |
| `AgentProtocol` | `Protocol.hpp` | streams as runs of bytes: what a sender writes, what the agent reads |
| `Agent` | the agent process | accept loop and one thread per connection |
| `MetalRuntime`, `MCMetalRuntime` | the head's runtime composed with agents and other clients | each dispatch as its requests and the responses it reads |
| `ProgressProofs`, `WorkMCCLProofs` | | theorems and proofs |

In `ProcessGroup` a rank has a calling thread, an engine with its queue, and the
per-peer mutexes of the mesh. A collective is a sequence of stages; a stage is a
set of threads that run side by side and are joined, and a thread makes transfers
one after the other. `BroadcastStages`, `AllgatherStages` and so on translate each
method of `ProcessGroupMCCL.cpp` to such a pattern. A piece on a stream tells only
which collective sent it, which is what `FramesMatch` needs. The programs, that
is, what callers do, are in `MCProcessGroup`.

A floating-point sum depends on the order of its operands, so two ranks that
compute the same reduction separately may return different bits. `Tensor`
therefore remembers the rank that computed an element, and `Allreduce` demands
that all ranks return copies of one computation.

## Runs

| Run | Instance | Shows |
|---|---|---|
| `allreduce` | 3 ranks, 4 elements, buffers of 1, AVG | for each algorithm: types, `FrameMatch`, `OwnsReducedChunk` (ring), `WireClean`, the refinement of `Allreduce`, and that every call returns |
| `allreduce_few` | 6 ranks, 2 elements | the fallback to the tree, for a number of ranks that is no power of two: `FrameMatch` and the refinement |
| `progress` | 3 tasks | types, `FifoOrder`, `DrainedOnShutdown`, `NoTaskOnClosedMesh`, the refinement of `FifoExecutor`, `EverySubmittedRuns` |
| `work` | 2 finishers, 2 waiters (1 timed), 1 poller | types, `OneOutcome`, `WaitReturns`, `FutureFulfilled` |
| `process_group` | 11 programs on 2 and 3 ranks, buffers of 2 | types, `FramesMatch`, `BarrierFences`, `WireClean`, `EveryCallCompletes` |
| `bootstrap` | 3 ranks, two cables per pair and a shared subnet, one pass over the addresses | types, `SameConnection`, `OnlyPriorityLinks`, `NoSilentHang` |
| `cluster` | a head and a node, 2 jobs | types, `JobInOnePlace`, `FullyPlaced`, `FailedNodesAreVacated`, `TickFits`, `FailedForCause` |
| `engine` | 3 operations, queue of 1, 2 starts | types, `StopDrains`, `Accounted`, `EveryCallEnds` |
| `progress_shutdown` | 1 task | violated: `ShutdownReturns` |
| `work_future` | 1 finisher, 1 waiter | violated: `FulfilledAfterWait` |
| `pg_overlap` | 2 ranks, broadcast then allreduce | violated: `FramesMatch` |
| `agent_stream` | 2 agents, the head's connections, 1 other client | violated: `HeadersInStep` |

The four violations are disagreements between the code and what its comments or
tests say of it:

* `Progress::shutdown` sets `stop_` without `mu_`. The worker may have found its
  predicate false and not be asleep yet; the single notification is lost and
  `join` waits for ever. Setting `stop_` under `mu_` would repair it.
* `allreduce` on the calling thread overtakes collectives that are still in the
  engine. `Progress.hpp` says that frame matching depends on one order on all
  ranks. Callers that wait for their asynchronous collectives before an
  `allreduce` are safe; that is what the programs of `process_group` do.
* `WorkMCCL::finish` completes the work before it fulfils the future, so `wait()`
  may return while `getFuture()` is pending.
* The head sends `sizeof(req)`, 88 bytes with padding, after the header of
  SHADER_RUN; the agent reads the 81 bytes that `Protocol.hpp` lays out. The rest
  is taken for the next header. With 81 bytes sent the property holds in all
  6,778,200 states of the same instance.

Some properties of `cluster` and `bootstrap` name what they do not promise,
because the code does it, and say that it is the only exception:

* `FailedForCause`: the monitor reads its clock before it takes `state_mu_`. An
  answer recorded in between makes the unsigned difference wrap, and a live node
  is failed.
* `FailedNodesAreVacated`: a tick works on nodes read earlier and can place a job
  on one that has failed since; and `handle_leave` evicts no jobs.
* `TickFits` is about one tick: jobs that already run are not in the loads.
* `NoSilentHang`: once a rank has failed, ranks above it wait in `accept` for
  ever.

In `cluster` the head can also lock itself out: `handle_leave` of the last node
online, if that is the head, calls `handle_node_failure` with `state_mu_` held.

### Bounds

* 4 elements on 3 ranks give chunks of 2, 2 and 0 elements: full and empty
  chunks, and several elements per transfer. Buffers of one element make every
  send block as early as possible, so that a deadlock by blocking sends shows.
* 6 ranks have a tree with three levels in which some ranks lack a partner.
* 3 tasks are enough for one running, one queued and one being submitted.
* Two finishers can race with success against an exception; two waiters show
  whether all are woken.
* In `process_group` a transfer fits into the socket buffers. `allgather`,
  `reduce_scatter` and `alltoall` send before they receive in one thread per
  peer, so two ranks whose transfers are larger than the buffers of the
  connection block each other; `PeerMesh` asks for 16 MiB in each direction.
* In `bootstrap` the second cable gives each pair a retry after an abandoned
  connection, and the lists of priorities differ between ranks.
* In `cluster` ages are kept up to the first that is past every test, and the
  clock wraps at 8 instead of 2^64. A job for both nodes shows lost and preempted
  assignments. Two jobs are too few for the fair-share boost to change an order.
* In `engine` one operation can execute, one be queued and one wait for room; two
  starts let a caller sleep through a stop and a start.

Runs without a deadlock check stop for a reason: calls and retries are bounded,
and the head can lock itself out.

### Fairness

Threads that can run do run: weak fairness of the worker's steps, of a caller
inside `submit`, of the owner inside the destructor, and of the threads of a
collective. A mutex that is free again and again is obtained in the end by a
thread that waits for it, hence strong fairness of the lock steps of `WorkMCCL`.
For collectives, every rank calls: that is the contract of SPMD programs. Nothing
is assumed of spurious wakeups and timeouts. In `ProcessGroup` a single weak
fairness condition on all steps is enough, since every step of a program is made
at most once and a behaviour therefore ends only where nothing is enabled; the
same holds of `PeerMeshBootstrap`, where attempts are bounded by the deadline.
For `ProgressEngine` see the comment at its `Fairness`.

## Proofs

`ProgressProofs`, for every set of tasks, from `NoTask \notin Tasks` alone:

* `TypeCorrect`, `RunsInOrder`, `Drained`, `MeshOutlivesTasks`: the invariants of
  the run `progress`. The inductive invariant is `TypeOK /\ FifoOrder /\
  Lifecycle`. `FifoOrder` describes what ran, what runs and what is queued as one
  sequence, and is nearly inductive by itself. The facts about shutdown are not:
  that the worker returns only with an empty queue helps only if nobody pushes
  afterwards, and that the owner is past the join only if the worker returned.
  `Lifecycle` says so.
* `Refinement`: the engine implements `FifoExecutor`. Push, run and join map to
  submit, run next and close; every other step is a stutter.

`WorkMCCLProofs`, for every set of threads, from the assumptions that the threads
are different and `NoThread` is none of them:

* `TypeCorrect` and `Agreement` (`OneOutcome`). The inductive invariant adds
  `Mutex` (who is in a critical section of several steps holds `mu_`),
  `OneWinner` (`completed_.exchange` elects one finisher, which alone sets the
  exception and fulfils the future) and `Observed` (an observer reports the
  exception as it stays). The delicate state is the one in which `completed_` is
  already set and `exception_` not yet: only the mutex keeps a poller out of it.

Only model-checked: the algorithms and their refinement, `ProcessGroup`, the
bootstrap, the cluster, the bounded engine, the agents, and all liveness
properties, which are beyond the proof system.

## Not modelled

* In the backend: socket errors after the bootstrap (a spawned thread lets the
  exception escape, which ends the process), the bf16 wire type, values moved by
  collectives other than allreduce, argument checks, tensors of 2^32 elements,
  ranks whose environments disagree on the algorithm, a future whose callbacks
  throw.
* The global batch command buffer and the staging buffer: what can go wrong with
  them is decided by how Metal orders command buffers and by PyTorch's streams.
* Coherence: `handle_message` has no caller, so that no message of the protocol is
  handled. A model that delivers them would be of another program. Only the
  head's wait in `barrier_all` is there: with more than one node it never ends.
* `put` and `get` of distributed memory: `deserialize_from` has no caller, so that
  no catalogue has entries of other nodes.
* Metrics, event synchronisation (never initialised), RDMA wrappers, bindings,
  Python, shaders: no state that others depend on, or device I/O.

`PROJECT.json` lists every part with its reason.

## Plan

Modelling is complete but for what is listed above. Next, proofs: that the chunks
partition the tensor for every size and number of ranks; `FrameMatch` of the ring
for every number of ranks; `JobInOnePlace` and `FullyPlaced`; `StopDrains` and
`Accounted`; `SameConnection`; mutual exclusion of transfers in `ProcessGroup`.
