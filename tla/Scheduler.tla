----------------------------- MODULE Scheduler ------------------------------
(***************************************************************************)
(* The job scheduler of the head node (csrc/runtime/Scheduler.cpp).  Each  *)
(* method runs under mu_ and is one action.  The time of submission is the *)
(* order of the ids, which the same critical section hands out.  Of the    *)
(* jobs in history_ only the ids are kept; gone has the ids of those       *)
(* cancelled while pending, of which the code keeps nothing.               *)
(***************************************************************************)
EXTENDS Integers, FiniteSets, SequencesExt

CONSTANTS
  Requests,      \* what submit_job may be given: owner, nodes, mem, prio
  MemPerNode,    \* config_.memory_per_node
  MaxJobs,       \* bound on the jobs submitted
  MaxElapsed     \* bound on the whole seconds a job runs

\* A request for no node at all would be started on none and then dropped by
\* the clean-up after a preemption, so callers are taken to ask for some.
ASSUME RequestsAssumption ==
  \A q \in Requests : q.nodes \in Nat \ {0} /\ q.mem \in Nat

VARIABLES queue, active, history, tenant_stats, next_job_id, gone

schedVars == <<queue, active, history, tenant_stats, next_job_id, gone>>

LOW == 0
NORMAL == 1
HIGH == 2
CRITICAL == 3

Job == [id : 1 .. MaxJobs, owner : {q.owner : q \in Requests},
        nodes : {q.nodes : q \in Requests}, mem : {q.mem : q \in Requests},
        prio : LOW .. CRITICAL, assigned : SUBSET Nat,
        status : {"PENDING", "RUNNING", "RESCHEDULING"}]

IdsIn(jobs) == {jobs[i].id : i \in DOMAIN jobs}

WithoutId(jobs, id) == SelectSeq(jobs, LAMBDA j : j.id # id)

JobOf(jobs, id) == jobs[CHOOSE i \in DOMAIN jobs : jobs[i].id = id]

SchedInit ==
  /\ queue = <<>>
  /\ active = <<>>
  /\ history = {}
  /\ tenant_stats = [o \in {} |-> 0]
  /\ next_job_id = 1
  /\ gone = {}

-----------------------------------------------------------------------------
(* Submission, cancellation, completion.                                   *)

submit(req) ==
  /\ next_job_id <= MaxJobs
  /\ queue' = Append(queue,
       [id |-> next_job_id, owner |-> req.owner, nodes |-> req.nodes,
        mem |-> req.mem, prio |-> req.prio, assigned |-> {},
        status |-> "PENDING"])
  /\ next_job_id' = next_job_id + 1
  /\ UNCHANGED <<active, history, tenant_stats, gone>>

Retire(id) ==
  /\ history' = history \cup {id}
  /\ active' = WithoutId(active, id)

cancel(id) ==
  /\ \/ /\ id \in IdsIn(queue)
        /\ queue' = WithoutId(queue, id)
        /\ gone' = gone \cup {id}
        /\ UNCHANGED <<active, history>>
     \/ /\ id \in IdsIn(active) \ IdsIn(queue)
        /\ Retire(id)
        /\ UNCHANGED <<queue, gone>>
  /\ UNCHANGED <<tenant_stats, next_job_id>>

\* The first completion of an owner's job makes its entry in tenant_stats_.
StatsOf(o) == IF o \in DOMAIN tenant_stats THEN tenant_stats[o] ELSE 0

complete(id) ==
  /\ id \in IdsIn(active)
  /\ LET job == JobOf(active, id)
     IN  \E s \in 0 .. MaxElapsed :
           tenant_stats' =
             (job.owner :> StatsOf(job.owner) + s * Cardinality(job.assigned))
               @@ tenant_stats
  /\ Retire(id)
  /\ UNCHANGED <<queue, next_job_id, gone>>

-----------------------------------------------------------------------------
(* One tick, as a function of the queue and the active jobs, given the     *)
(* online nodes and the memory in use on each.                             *)

Sorted(jobs) ==
  SortSeq(jobs, LAMBDA a, b : a.prio > b.prio \/ (a.prio = b.prio /\ a.id < b.id))

TotalNodeSeconds == FoldFunction(+, 0, tenant_stats)

BelowShare(o) ==
  /\ o \in DOMAIN tenant_stats
  /\ tenant_stats[o] * Cardinality(DOMAIN tenant_stats) < TotalNodeSeconds

Boosted(job) ==
  IF job.prio = LOW /\ BelowShare(job.owner) THEN [job EXCEPT !.prio = NORMAL]
  ELSE job

Fitting(job, online, used) ==
  {n \in online : used[n] + job.mem <= MemPerNode}

\* Mutant of can_allocate: one node with room is enough.
CanAllocateSome(job, online, used) == Fitting(job, online, used) # {}

can_allocate(job, online, used) ==
  Cardinality(Fitting(job, online, used)) >= job.nodes

\* The nodes allocate takes: of those with room, the first it meets.
Chosen(job, online, used) ==
  LET fit == Fitting(job, online, used)
  IN  {n \in fit : Cardinality({m \in fit : m < n}) < job.nodes}

\* Mutant of Charged: the memory of the job is not added.
ChargedNothing(job, nodes, used) == used

Charged(job, nodes, used) ==
  [n \in DOMAIN used |-> used[n] + IF n \in nodes THEN job.mem ELSE 0]

Started(job, online, used) ==
  [job EXCEPT !.assigned = Chosen(job, online, used), !.status = "RUNNING"]

\* One turn of the loop over the queue: start the job or leave it.
TryStart(st, job, online) ==
  IF can_allocate(job, online, st.used)
  THEN LET run == Started(job, online, st.used)
       IN  [st EXCEPT !.used = Charged(job, run.assigned, @),
                      !.active = Append(@, run)]
  ELSE [st EXCEPT !.queue = Append(@, job)]

\* What stays of active_ when the preempted job was overwritten: the code
\* drops every entry that has no node.
Kept(jobs) == SelectSeq(jobs, LAMBDA j : j.assigned # {})

\* Mutant of Requeued: a preempted job does not come back.
RequeuedNot(q, job) == q

Requeued(q, job) == <<[job EXCEPT !.status = "RESCHEDULING"]>> \o q

\* One turn of the preemption loop.  The loads are not reduced by what the
\* victim gives back, and a job that does start is left in the queue.  The
\* code inserts into the deque it iterates over; the loop goes on with the
\* elements that were there, unless the insertion moved the deque's table,
\* which can end the process.
Preempt(st, job, online) ==
  LET victims == {i \in DOMAIN st.active :
                    /\ st.active[i].prio = LOW
                    /\ Cardinality(st.active[i].assigned) >= job.nodes}
      v == CHOOSE i \in victims : \A k \in victims : i <= k
      cleared == [st.active EXCEPT ![v].assigned = {}]
      again == can_allocate(job, online, st.used)
      run == Started(job, online, st.used)
  IN  IF job.prio < HIGH \/ can_allocate(job, online, st.used) THEN st
      ELSE IF victims = {} THEN [st EXCEPT !.active = Kept(@)]
      ELSE [used |-> IF again THEN Charged(job, run.assigned, st.used) ELSE st.used,
            queue |-> Requeued(st.queue, st.active[v]),
            active |-> Kept(IF again THEN Append(cleared, run) ELSE cleared)]

schedule_tick(online, used) ==
  LET jobs == Sorted(queue)
      start(st, job) == TryStart(st, job, online)
      preempt(st, job) == Preempt(st, job, online)
      placed == FoldLeft(start, [used |-> used, queue |-> <<>>, active |-> active],
                         [i \in DOMAIN jobs |-> Boosted(jobs[i])])
      final == FoldLeft(preempt, placed, placed.queue)
  IN  /\ queue' = final.queue
      /\ active' = final.active
      /\ UNCHANGED <<history, tenant_stats, next_job_id, gone>>

-----------------------------------------------------------------------------
(* A node failed.                                                          *)

\* Mutant of evict_node: only jobs with no other node are taken off.
EvictOrphans(n) ==
  LET lost == SelectSeq(active, LAMBDA j : j.assigned = {n})
  IN  /\ history' = history \cup IdsIn(lost)
      /\ active' = SelectSeq(active, LAMBDA j : j.assigned # {n})
      /\ UNCHANGED <<queue, tenant_stats, next_job_id, gone>>

\* A job with no node left failed; the others go back to the front.
evict_node(n) ==
  LET hit == SelectSeq(active, LAMBDA j : n \in j.assigned)
      lost == SelectSeq(hit, LAMBDA j : j.assigned = {n})
      moved == SelectSeq(hit, LAMBDA j : j.assigned # {n})
      shrunk == [i \in DOMAIN moved |->
                   [moved[i] EXCEPT !.assigned = @ \ {n}, !.status = "RESCHEDULING"]]
  IN  /\ history' = history \cup IdsIn(lost)
      /\ queue' = Reverse(shrunk) \o queue
      /\ active' = SelectSeq(active, LAMBDA j : n \notin j.assigned)
      /\ UNCHANGED <<tenant_stats, next_job_id, gone>>

SchedTypeOK ==
  /\ \A i \in DOMAIN queue : queue[i] \in Job
  /\ \A i \in DOMAIN active : active[i] \in Job /\ active[i].status = "RUNNING"
  /\ history \cup gone \subseteq 1 .. MaxJobs
  /\ \A o \in DOMAIN tenant_stats : tenant_stats[o] \in Nat
  /\ next_job_id \in 1 .. MaxJobs + 1
=============================================================================
