------------------------- MODULE ProcessGroupProofs -------------------------
(***************************************************************************)
(* Proofs about the process group, for every number of ranks, every size   *)
(* of the socket buffers and every program: a barrier that succeeded on    *)
(* one rank fences what every rank submitted before it.                    *)
(***************************************************************************)
EXTENDS ProcessGroup, TLAPS

\* The call a thread of rank r works on; 0 when it is idle.
CallAt(r, a) == run[r][a].call

\* Call i of rank r goes through the engine.
Async(r, i) == prog[r][i].kind \notin {"allreduce", "wait"}

\* The types that the argument needs.
Types ==
  /\ prog \in Programs
  /\ pc \in [Rank -> Nat]
  /\ \A r \in Rank : pc[r] \in 1 .. Len(prog[r]) + 1
  /\ q \in [Rank -> Seq(Nat)]
  /\ done \in [Rank -> SUBSET Nat] /\ failed \in [Rank -> SUBSET Nat]
  /\ DOMAIN run = Rank /\ DOMAIN wire = Rank
  /\ \A m \in locked : m[1] \in Rank
  /\ \A key \in store : key = <<key[1], key[2]>> /\ key[2] \in Rank

\* Tasks in progress: on the calling thread only allreduce, on the engine
\* the rest; a barrier has no transfers.
Tasks ==
  \A r \in Rank :
    /\ DOMAIN run[r] = Actors
    /\ \A a \in Actors :
         \/ run[r][a] = Idle
         \/ /\ DOMAIN run[r][a] = {"call", "left", "thr"}
            /\ CallAt(r, a) \in 1 .. pc[r] - 1
            /\ Async(r, CallAt(r, a)) <=> a = "engine"
            /\ prog[r][CallAt(r, a)].kind = "barrier" => run[r][a].left = <<>>

\* Completed calls were issued.
Finished ==
  \A r \in Rank : failed[r] \subseteq done[r] /\ done[r] \subseteq 1 .. pc[r] - 1

\* The queue holds tasks in the order of issue, all of them younger than the
\* one in progress, and every task issued is queued, in progress or done.
Fifo ==
  \A r \in Rank :
    /\ \A i \in DOMAIN q[r] :
         /\ q[r][i] \in 1 .. pc[r] - 1 /\ Async(r, q[r][i])
         /\ CallAt(r, "engine") < q[r][i]
    /\ \A i, j \in DOMAIN q[r] : i < j => q[r][i] < q[r][j]
    /\ \A k \in 1 .. pc[r] - 1 : Async(r, k) =>
         k \in done[r] \/ k = CallAt(r, "engine") \/ \E i \in DOMAIN q[r] : q[r][i] = k

\* Rank r has begun call j on the engine.
Begun(r, j) == j = CallAt(r, "engine") \/ (j \in done[r] /\ Async(r, j))

\* The engine begins a task when all tasks issued before it are complete.
InTurn ==
  \A r \in Rank : \A j \in 1 .. pc[r] - 1 : Begun(r, j) =>
    \A k \in 1 .. j - 1 : Async(r, k) => k \in done[r]

\* A key in the store was set by a barrier that its rank has begun.
Keys ==
  \A t : \A p \in Rank : <<t, p>> \in store =>
    \E j \in 1 .. pc[p] - 1 :
      /\ prog[p][j].kind = "barrier" /\ BarrierSeq(p, j) = t
      /\ Begun(p, j)

\* A barrier that succeeded has set its key and seen the keys of all peers.
Passed ==
  \A r \in Rank : \A i \in done[r] \ failed[r] :
    prog[r][i].kind = "barrier" =>
      \A p \in Peers(r) \cup {r} : <<BarrierSeq(r, i), p>> \in store

\* The inductive invariant.
IInv == Types /\ Tasks /\ Finished /\ Fifo /\ InTurn /\ Keys /\ Passed

-----------------------------------------------------------------------------
(* What the steps have in common.                                          *)

\* What only depends on the program: it never changes.
LEMMA SameProgram ==
  ASSUME prog' = prog
  PROVE  /\ \A r, i : BarrierSeq(r, i)' = BarrierSeq(r, i)
         /\ \A r : Peers(r)' = Peers(r)
         /\ \A r, i : Async(r, i)' = Async(r, i)
<1>1. \A r, i : BarrierSeq(r, i)' = BarrierSeq(r, i)
  BY Zenon DEF BarrierSeq
<1>2. \A r : Peers(r)' = Peers(r)
  BY Zenon DEF Peers, Size
<1>3. \A r, i : Async(r, i)' = Async(r, i)
  BY Zenon DEF Async
<1> QED
  BY <1>1, <1>2, <1>3, Zenon

\* Every call has a place in its rank's program.
LEMMA CallsInRange ==
  ASSUME Types, NEW r \in Rank
  PROVE  /\ Len(prog[r]) \in Nat
         /\ pc[r] \in Nat /\ pc[r] >= 1 /\ pc[r] <= Len(prog[r]) + 1
BY ProgramsAssumption DEF Types

\* An idle thread works on call 0, a busy one on a call that was issued.
LEMMA CallTypes ==
  ASSUME Types, Tasks, NEW r \in Rank, NEW a \in Actors
  PROVE  /\ CallAt(r, a) \in Nat /\ CallAt(r, a) <= pc[r] - 1
         /\ Busy(r, a) <=> CallAt(r, a) # 0
         /\ Busy(r, a) => /\ CallAt(r, a) \in 1 .. pc[r] - 1
                          /\ Async(r, CallAt(r, a)) <=> a = "engine"
<1>1. pc[r] \in Nat /\ pc[r] >= 1
  BY CallsInRange, Zenon
<1>2. Idle.call = 0
  BY Zenon DEF Idle
<1>3. CASE run[r][a] = Idle
  BY <1>1, <1>2, <1>3 DEF Busy, CallAt
<1>4. CASE run[r][a] # Idle
  <2>1. /\ CallAt(r, a) \in 1 .. pc[r] - 1
        /\ Async(r, CallAt(r, a)) <=> a = "engine"
    BY <1>4, Zenon DEF Tasks
  <2> QED
    BY <1>1, <1>4, <2>1 DEF Busy
<1> QED
  BY <1>3, <1>4, Zenon

\* A step that changes no call's place among those issued, queued, in
\* progress and done, and deletes no key.
LEMMA QuietStep ==
  ASSUME IInv, UNCHANGED <<prog, pc, q, done, failed, store>>,
         \A r \in Rank : \A a \in Actors : CallAt(r, a)' = CallAt(r, a)
  PROVE  Finished' /\ Fifo' /\ InTurn' /\ Keys' /\ Passed'
<1>1. "engine" \in Actors
  BY Zenon DEF Actors
<1>2. /\ \A r, i : BarrierSeq(r, i)' = BarrierSeq(r, i)
      /\ \A r : Peers(r)' = Peers(r)
      /\ \A r, i : Async(r, i)' = Async(r, i)
  BY SameProgram, Zenon
<1>3. \A r \in Rank : CallAt(r, "engine")' = CallAt(r, "engine")
  BY <1>1, Zenon
<1>4. Finished'
  BY Zenon DEF IInv, Finished
<1>5. Fifo'
  BY <1>2, <1>3 DEF IInv, Fifo
<1>6. \A r \in Rank : \A j : Begun(r, j)' = Begun(r, j)
  BY <1>2, <1>3, Zenon DEF Begun
<1>7. InTurn'
  BY <1>2, <1>6, Zenon DEF IInv, InTurn
<1>8. Keys'
  BY <1>2, <1>6, Zenon DEF IInv, Keys
<1>9. Passed'
  BY <1>2, Zenon DEF IInv, Passed
<1> QED
  BY <1>4, <1>5, <1>7, <1>8, <1>9, Zenon

-----------------------------------------------------------------------------
(* The end of a task.                                                      *)

\* A thread that finishes a task is idle; the others go on.
LEMMA CompletedRun ==
  ASSUME Types, Tasks, NEW r \in Rank, NEW a \in Actors, NEW ok \in BOOLEAN,
         Completed(r, a, ok)
  PROVE  /\ DOMAIN run' = Rank
         /\ \A s \in Rank : DOMAIN run'[s] = Actors
         /\ run'[r][a] = Idle
         /\ \A s \in Rank : \A b \in Actors :
              <<s, b>> # <<r, a>> => run'[s][b] = run[s][b]
BY Zenon DEF Types, Tasks, Completed

\* Completion of a call in progress, when a barrier completes without
\* exception only once the keys of its peers and its own are set.
LEMMA CompletedStep ==
  ASSUME IInv, NEW r \in Rank, NEW a \in Actors, NEW ok \in BOOLEAN,
         Busy(r, a), Completed(r, a, ok),
         UNCHANGED <<prog, pc, q, store>>,
         ok /\ prog[r][CallAt(r, a)].kind = "barrier" =>
           \A p \in Peers(r) \cup {r} :
             <<BarrierSeq(r, CallAt(r, a)), p>> \in store
  PROVE  Tasks' /\ Finished' /\ Fifo' /\ InTurn' /\ Keys' /\ Passed'
<1> DEFINE c == CallAt(r, a)
<1>1. /\ \A s, i : BarrierSeq(s, i)' = BarrierSeq(s, i)
      /\ \A s : Peers(s)' = Peers(s)
      /\ \A s, i : Async(s, i)' = Async(s, i)
  BY SameProgram, Zenon
<1>2. /\ c \in 1 .. pc[r] - 1
      /\ Async(r, c) <=> a = "engine"
  BY CallTypes, Zenon DEF IInv
<1>3. /\ \A s \in Rank : done'[s] = IF s = r THEN done[r] \cup {c} ELSE done[s]
      /\ \A s \in Rank : failed'[s] = IF s = r /\ ~ok THEN failed[r] \cup {c}
                                     ELSE failed[s]
  BY Zenon DEF Completed, CallAt, IInv, Types
<1>4. /\ \A s \in Rank : DOMAIN run'[s] = Actors
      /\ run'[r][a] = Idle
      /\ \A s \in Rank : \A b \in Actors :
           <<s, b>> # <<r, a>> => run'[s][b] = run[s][b]
  BY CompletedRun, ZenonT(30) DEF IInv
<1>5. /\ CallAt(r, a)' = 0
      /\ \A s \in Rank : \A b \in Actors :
           <<s, b>> # <<r, a>> => CallAt(s, b)' = CallAt(s, b)
  <2>1. Idle.call = 0
    BY Zenon DEF Idle
  <2> QED
    BY <1>4, <2>1, Zenon DEF CallAt
<1>6. Tasks'
  <2> SUFFICES ASSUME NEW s \in Rank, NEW b \in Actors, run'[s][b] # Idle
      PROVE  /\ DOMAIN run'[s][b] = {"call", "left", "thr"}
             /\ CallAt(s, b)' \in 1 .. pc'[s] - 1
             /\ (Async(s, CallAt(s, b)) <=> b = "engine")'
             /\ prog'[s][CallAt(s, b)'].kind = "barrier" => run'[s][b].left = <<>>
    BY <1>4 DEF Tasks
  <2>1. run'[s][b] = run[s][b] /\ CallAt(s, b)' = CallAt(s, b)
    BY <1>4, <1>5, Zenon
  <2> QED
    BY <1>1, <2>1 DEF IInv, Tasks
<1>7. Finished'
  BY <1>2, <1>3, Zenon DEF IInv, Finished
<1>8. "engine" \in Actors
  BY Zenon DEF Actors
<1>9. \A s \in Rank : CallAt(s, "engine") \in Nat
  BY <1>8, CallTypes, Zenon DEF IInv
<1>10. \A s \in Rank : CallAt(s, "engine")' = IF s = r /\ a = "engine" THEN 0
                                              ELSE CallAt(s, "engine")
  BY <1>5, <1>8, Zenon
<1>11. Fifo'
  <2> SUFFICES ASSUME NEW s \in Rank
      PROVE  /\ \A i \in DOMAIN q[s] :
                  /\ q[s][i] \in 1 .. pc[s] - 1 /\ Async(s, q[s][i])
                  /\ CallAt(s, "engine")' < q[s][i]
             /\ \A i, j \in DOMAIN q[s] : i < j => q[s][i] < q[s][j]
             /\ \A k \in 1 .. pc[s] - 1 : Async(s, k) =>
                  \/ k \in done'[s] \/ k = CallAt(s, "engine")'
                  \/ \E i \in DOMAIN q[s] : q[s][i] = k
    BY <1>1 DEF Fifo
  <2>1. \A i \in DOMAIN q[s] : CallAt(s, "engine")' < q[s][i]
    <3>1. \A i \in DOMAIN q[s] :
            q[s][i] \in 1 .. pc[s] - 1 /\ CallAt(s, "engine") < q[s][i]
      BY Zenon DEF IInv, Fifo
    <3>2. pc[s] \in Nat
      BY CallsInRange, Zenon DEF IInv
    <3> QED
      BY <3>1, <3>2, <1>9, <1>10
  <2>2. \A k \in 1 .. pc[s] - 1 : Async(s, k) =>
          \/ k \in done'[s] \/ k = CallAt(s, "engine")'
          \/ \E i \in DOMAIN q[s] : q[s][i] = k
    BY <1>3, <1>10 DEF IInv, Fifo
  <2> QED
    BY <2>1, <2>2, Zenon DEF IInv, Fifo
<1>12. \A s \in Rank : \A j \in 1 .. pc[s] - 1 : Begun(s, j)' <=> Begun(s, j)
  BY <1>1, <1>2, <1>3, <1>10 DEF Begun
<1>13. InTurn'
  BY <1>1, <1>3, <1>12, Zenon DEF IInv, InTurn
<1>14. Keys'
  BY <1>1, <1>12, Zenon DEF IInv, Keys
<1>15. Passed'
  <2> SUFFICES ASSUME NEW s \in Rank, NEW i \in done'[s] \ failed'[s],
                      prog[s][i].kind = "barrier", NEW p \in Peers(s) \cup {s}
      PROVE  <<BarrierSeq(s, i), p>> \in store
    BY <1>1, Zenon DEF Passed
  <2>1. CASE i \in done[s] \ failed[s]
    BY <2>1, Zenon DEF IInv, Passed
  <2>2. CASE i \notin done[s] \ failed[s]
    <3>1. s = r /\ i = c /\ ok
      BY <1>3, <2>2, Zenon
    <3> QED
      BY <3>1, Zenon
  <2> QED
    BY <2>1, <2>2, Zenon
<1> QED
  BY <1>6, <1>7, <1>11, <1>13, <1>14, <1>15, Zenon

-----------------------------------------------------------------------------
(* The caller issues a call.                                               *)

\* The caller of rank r moves on, and the engine's task stays what it is.
IssuedBy(r) ==
  /\ CanIssue(r)
  /\ pc' = [pc EXCEPT ![r] = @ + 1]
  /\ UNCHANGED <<prog, done, failed, store>>
  /\ \A s \in Rank : CallAt(s, "engine")' = CallAt(s, "engine")

\* The call that is issued has not begun yet.
LEMMA IssueStep ==
  ASSUME IInv, NEW r \in Rank, IssuedBy(r)
  PROVE  /\ pc' \in [Rank -> Nat]
         /\ \A s \in Rank : pc'[s] \in 1 .. Len(prog'[s]) + 1
         /\ Finished' /\ InTurn' /\ Keys' /\ Passed'
<1>1. /\ \A s, i : BarrierSeq(s, i)' = BarrierSeq(s, i)
      /\ \A s : Peers(s)' = Peers(s)
      /\ \A s, i : Async(s, i)' = Async(s, i)
  BY SameProgram, Zenon DEF IssuedBy
<1>2. \A s \in Rank : pc'[s] = IF s = r THEN pc[s] + 1 ELSE pc[s]
  BY Zenon DEF IInv, Types, IssuedBy
<1>3. \A s \in Rank : /\ Len(prog[s]) \in Nat
                       /\ pc[s] \in Nat /\ pc[s] >= 1 /\ pc[s] <= Len(prog[s]) + 1
  BY CallsInRange, Zenon DEF IInv
<1>4. pc[r] <= Len(prog[r])
  BY Zenon DEF IssuedBy, CanIssue
<1>5. pc' \in [Rank -> Nat]
  BY DEF IInv, Types, IssuedBy
<1>6. \A s \in Rank : pc'[s] \in 1 .. Len(prog'[s]) + 1
  BY <1>2, <1>3, <1>4 DEF IssuedBy
<1>7. Finished'
  BY <1>2, <1>3 DEF IInv, Finished, IssuedBy
<1>8. \A s \in Rank : \A j : Begun(s, j)' = Begun(s, j)
  BY <1>1, Zenon DEF Begun, IssuedBy
<1>9. "engine" \in Actors
  BY Zenon DEF Actors
<1>10. \A s \in Rank : CallAt(s, "engine") <= pc[s] - 1 /\ CallAt(s, "engine") \in Nat
  BY <1>9, CallTypes, Zenon DEF IInv
<1>11. ~Begun(r, pc[r])
  BY <1>3, <1>10 DEF Begun, IInv, Finished
<1>12. InTurn'
  <2> SUFFICES ASSUME NEW s \in Rank, NEW j \in 1 .. pc'[s] - 1, Begun(s, j),
                      NEW k \in 1 .. j - 1, Async(s, k)
      PROVE  k \in done[s]
    BY <1>1, <1>8, Zenon DEF InTurn, IssuedBy
  <2>1. j \in 1 .. pc[s] - 1
    BY <1>2, <1>3, <1>11
  <2> QED
    BY <2>1, Zenon DEF IInv, InTurn
<1>13. Keys'
  <2> SUFFICES ASSUME NEW t, NEW p \in Rank, <<t, p>> \in store
      PROVE  \E j \in 1 .. pc'[p] - 1 :
               prog[p][j].kind = "barrier" /\ BarrierSeq(p, j) = t /\ Begun(p, j)
    BY <1>1, <1>8 DEF Keys, IssuedBy
  <2>1. PICK j \in 1 .. pc[p] - 1 :
               prog[p][j].kind = "barrier" /\ BarrierSeq(p, j) = t /\ Begun(p, j)
    BY Zenon DEF IInv, Keys
  <2>2. j \in 1 .. pc'[p] - 1
    BY <1>2, <1>3
  <2> QED
    BY <2>1, <2>2, Zenon
<1>14. Passed'
  BY <1>1 DEF IInv, Passed, IssuedBy
<1> QED
  BY <1>5, <1>6, <1>7, <1>12, <1>13, <1>14, Zenon

\* Tasks in progress stay so when the caller of rank r moves on.
LEMMA TasksStay ==
  ASSUME IInv, NEW r \in Rank, IssuedBy(r),
         NEW s \in Rank, NEW a \in Actors, run'[s][a] = run[s][a], run[s][a] # Idle
  PROVE  /\ DOMAIN run'[s][a] = {"call", "left", "thr"}
         /\ CallAt(s, a)' \in 1 .. pc'[s] - 1
         /\ (Async(s, CallAt(s, a)) <=> a = "engine")'
         /\ prog'[s][CallAt(s, a)'].kind = "barrier" => run'[s][a].left = <<>>
<1>1. \A t, i : Async(t, i)' = Async(t, i)
  BY SameProgram, Zenon DEF IssuedBy
<1>2. CallAt(s, a)' = CallAt(s, a)
  BY Zenon DEF CallAt
<1>3. /\ DOMAIN run[s][a] = {"call", "left", "thr"}
      /\ CallAt(s, a) \in 1 .. pc[s] - 1
      /\ Async(s, CallAt(s, a)) <=> a = "engine"
      /\ prog[s][CallAt(s, a)].kind = "barrier" => run[s][a].left = <<>>
  BY Zenon DEF IInv, Tasks
<1>4. pc'[s] \in Nat /\ pc[s] \in Nat /\ pc'[s] >= pc[s]
  BY DEF IInv, Types, IssuedBy
<1> QED
  BY <1>1, <1>2, <1>3, <1>4 DEF IssuedBy

\* async_submit_ puts the youngest task at the end of the queue.
LEMMA SubmitStep ==
  ASSUME IInv, NEW r \in Rank, Submit(r)
  PROVE  IInv'
<1>1. run' = run /\ prog' = prog /\ done' = done
  BY Zenon DEF Submit
<1>2. \A s, a : CallAt(s, a)' = CallAt(s, a)
  BY <1>1, Zenon DEF CallAt
<1>3. IssuedBy(r)
  BY <1>2, Zenon DEF Submit, IssuedBy
<1>4. \A s, i : Async(s, i)' = Async(s, i)
  BY <1>1, SameProgram, Zenon
<1>5. \A s \in Rank : pc[s] \in Nat /\ pc[s] >= 1
  BY CallsInRange, Zenon DEF IInv
<1>6. \A s \in Rank : pc'[s] = IF s = r THEN pc[s] + 1 ELSE pc[s]
  BY Zenon DEF IInv, Types, Submit
<1>7. q' \in [Rank -> Seq(Nat)]
  BY <1>5 DEF IInv, Types, Submit
<1>8. Types'
  BY <1>3, <1>7, IssueStep, Zenon DEF IInv, Types, Submit
<1>9. Tasks'
  <2>1. \A s \in Rank : DOMAIN run'[s] = Actors
    BY <1>1, Zenon DEF IInv, Tasks
  <2>2. ASSUME NEW s \in Rank, NEW a \in Actors, run'[s][a] # Idle
        PROVE  /\ DOMAIN run'[s][a] = {"call", "left", "thr"}
               /\ CallAt(s, a)' \in 1 .. pc'[s] - 1
               /\ (Async(s, CallAt(s, a)) <=> a = "engine")'
               /\ prog'[s][CallAt(s, a)'].kind = "barrier" => run'[s][a].left = <<>>
    BY <1>1, <1>3, <2>2, TasksStay, Zenon
  <2> QED
    BY <2>1, <2>2, Zenon DEF Tasks
<1>10. Fifo'
  <2>1. ASSUME NEW s \in Rank, s # r
        PROVE  /\ q'[s] = q[s] /\ pc'[s] = pc[s]
    BY <2>1, Zenon DEF IInv, Types, Submit
  <2>2. /\ q[r] \in Seq(Nat) /\ q'[r] = Append(q[r], pc[r])
        /\ Async(r, pc[r])
    BY Zenon DEF IInv, Types, Submit, Async
  <2>3. /\ DOMAIN q'[r] = 1 .. Len(q[r]) + 1 /\ DOMAIN q[r] = 1 .. Len(q[r])
        /\ Len(q[r]) \in Nat
        /\ \A i \in DOMAIN q[r] : q'[r][i] = q[r][i]
        /\ q'[r][Len(q[r]) + 1] = pc[r]
    BY <1>5, <2>2
  <2>4. CallAt(r, "engine") < pc[r]
    <3>1. "engine" \in Actors
      BY Zenon DEF Actors
    <3> QED
      BY <1>5, <3>1, CallTypes DEF IInv
  <2>5. \A i \in DOMAIN q[r] : /\ q[r][i] \in 1 .. pc[r] - 1 /\ Async(r, q[r][i])
                               /\ CallAt(r, "engine") < q[r][i]
    BY Zenon DEF IInv, Fifo
  <2>6. \A i \in DOMAIN q'[r] : /\ q'[r][i] \in 1 .. pc'[r] - 1 /\ Async(r, q'[r][i])
                                /\ CallAt(r, "engine") < q'[r][i]
    <3> TAKE i \in DOMAIN q'[r]
    <3>1. CASE i \in DOMAIN q[r]
      BY <1>5, <1>6, <2>3, <2>5, <3>1
    <3>2. CASE i \notin DOMAIN q[r]
      <4>1. i = Len(q[r]) + 1
        BY <2>3, <3>2
      <4> QED
        BY <1>5, <1>6, <2>2, <2>3, <2>4, <4>1
    <3> QED
      BY <3>1, <3>2, Zenon
  <2>7. \A i, j \in DOMAIN q'[r] : i < j => q'[r][i] < q'[r][j]
    <3> SUFFICES ASSUME NEW i \in DOMAIN q'[r], NEW j \in DOMAIN q'[r], i < j
        PROVE  q'[r][i] < q'[r][j]
      OBVIOUS
    <3>1. i \in DOMAIN q[r]
      BY <2>3
    <3>2. CASE j \in DOMAIN q[r]
      BY <2>3, <3>1, <3>2, Zenon DEF IInv, Fifo
    <3>3. CASE j \notin DOMAIN q[r]
      <4>1. j = Len(q[r]) + 1
        BY <2>3, <3>3
      <4> QED
        BY <1>5, <2>3, <2>5, <3>1, <4>1
    <3> QED
      BY <3>2, <3>3, Zenon
  <2>8. \A k \in 1 .. pc'[r] - 1 : Async(r, k) =>
          \/ k \in done[r] \/ k = CallAt(r, "engine")
          \/ \E i \in DOMAIN q'[r] : q'[r][i] = k
    <3> SUFFICES ASSUME NEW k \in 1 .. pc'[r] - 1, Async(r, k), k \notin done[r],
                        k # CallAt(r, "engine")
        PROVE  \E i \in DOMAIN q'[r] : q'[r][i] = k
      OBVIOUS
    <3>1. CASE k = pc[r]
      BY <2>3, <3>1
    <3>2. CASE k # pc[r]
      <4>1. k \in 1 .. pc[r] - 1
        BY <1>5, <1>6, <3>2
      <4>2. PICK i \in DOMAIN q[r] : q[r][i] = k
        BY <4>1, Zenon DEF IInv, Fifo
      <4> QED
        BY <2>3, <4>2
    <3> QED
      BY <3>1, <3>2, Zenon
  <2>9. ASSUME NEW s \in Rank
        PROVE  /\ \A i \in DOMAIN q'[s] :
                    /\ q'[s][i] \in 1 .. pc'[s] - 1 /\ Async(s, q'[s][i])
                    /\ CallAt(s, "engine") < q'[s][i]
               /\ \A i, j \in DOMAIN q'[s] : i < j => q'[s][i] < q'[s][j]
               /\ \A k \in 1 .. pc'[s] - 1 : Async(s, k) =>
                    \/ k \in done[s] \/ k = CallAt(s, "engine")
                    \/ \E i \in DOMAIN q'[s] : q'[s][i] = k
    <3>1. CASE s = r
      BY <2>6, <2>7, <2>8, <3>1, Zenon
    <3>2. CASE s # r
      BY <2>1, <3>2 DEF IInv, Fifo
    <3> QED
      BY <3>1, <3>2, Zenon
  <2> QED
    BY <1>1, <1>2, <1>4, <2>9, Zenon DEF Fifo
<1> QED
  BY <1>3, <1>8, <1>9, <1>10, IssueStep, Zenon DEF IInv

\* A call that is not a task of the engine leaves the queue in order.
LEMMA InlineStep ==
  ASSUME IInv, NEW r \in Rank, IssuedBy(r), q' = q, ~Async(r, pc[r])
  PROVE  Fifo'
<1>1. \A s, i : Async(s, i)' = Async(s, i)
  BY SameProgram, Zenon DEF IssuedBy
<1>2. \A s \in Rank : pc[s] \in Nat /\ pc'[s] = IF s = r THEN pc[s] + 1 ELSE pc[s]
  BY Zenon DEF IInv, Types, IssuedBy
<1>3. ASSUME NEW s \in Rank
      PROVE  /\ \A i \in DOMAIN q[s] :
                  /\ q[s][i] \in 1 .. pc'[s] - 1 /\ Async(s, q[s][i])
                  /\ CallAt(s, "engine") < q[s][i]
             /\ \A i, j \in DOMAIN q[s] : i < j => q[s][i] < q[s][j]
             /\ \A k \in 1 .. pc'[s] - 1 : Async(s, k) =>
                  \/ k \in done[s] \/ k = CallAt(s, "engine")
                  \/ \E i \in DOMAIN q[s] : q[s][i] = k
  <2>1. \A i \in DOMAIN q[s] : q[s][i] \in 1 .. pc'[s] - 1
    BY <1>2 DEF IInv, Fifo
  <2>2. \A k \in 1 .. pc'[s] - 1 : Async(s, k) => k \in 1 .. pc[s] - 1
    BY <1>2
  <2> QED
    BY <2>1, <2>2, Zenon DEF IInv, Fifo
<1> QED
  BY <1>1, <1>3 DEF Fifo, IssuedBy

\* Thread a of rank r begins call i.
Starts(r, a, i) == run' = [run EXCEPT ![r][a] = Started(prog[r][i], r, i)]

\* The thread that begins a call works on that call, the others go on.
LEMMA StartsRun ==
  ASSUME Types, Tasks, NEW r \in Rank, NEW a \in Actors, NEW i \in Nat \ {0},
         Starts(r, a, i)
  PROVE  /\ DOMAIN run' = Rank
         /\ \A s \in Rank : DOMAIN run'[s] = Actors
         /\ run'[r][a] = Started(prog[r][i], r, i)
         /\ DOMAIN run'[r][a] = {"call", "left", "thr"}
         /\ CallAt(r, a)' = i
         /\ prog[r][i].kind = "barrier" => run'[r][a].left = <<>>
         /\ \A s \in Rank : \A b \in Actors : <<s, b>> # <<r, a>> =>
              run'[s][b] = run[s][b] /\ CallAt(s, b)' = CallAt(s, b)
<1> DEFINE st == Started(prog[r][i], r, i)
<1>1. /\ DOMAIN st = {"call", "left", "thr"}
      /\ st.call = i /\ st.left = Stages(prog[r][i], r)
  BY Zenon DEF Started
<1>2. prog[r][i].kind = "barrier" => Stages(prog[r][i], r) = <<>>
  BY Zenon DEF Stages
<1> HIDE DEF st
<1>3. run' = [run EXCEPT ![r][a] = st]
  BY Zenon DEF Starts, st
<1>4. /\ DOMAIN run' = Rank
      /\ \A s \in Rank : DOMAIN run'[s] = Actors
      /\ run'[r][a] = st
      /\ \A s \in Rank : \A b \in Actors :
           <<s, b>> # <<r, a>> => run'[s][b] = run[s][b]
  BY <1>3, Zenon DEF Types, Tasks
<1>5. /\ CallAt(r, a)' = i
      /\ \A s \in Rank : \A b \in Actors :
           <<s, b>> # <<r, a>> => CallAt(s, b)' = CallAt(s, b)
  BY <1>1, <1>4, Zenon DEF CallAt
<1> QED
  BY <1>1, <1>2, <1>4, <1>5, Zenon DEF st

\* allreduce begins on the calling thread at once, past the queue.
LEMMA CallAllreduceStep ==
  ASSUME IInv, NEW r \in Rank, CallAllreduce(r)
  PROVE  IInv'
<1>1. prog' = prog /\ q' = q
  BY Zenon DEF CallAllreduce
<1>2. Starts(r, "caller", pc[r])
  BY Zenon DEF CallAllreduce, Starts
<1>3. "caller" \in Actors /\ "engine" \in Actors
  BY Zenon DEF Actors
<1>4. \A s \in Rank : pc[s] \in Nat /\ pc[s] >= 1
  BY CallsInRange, Zenon DEF IInv
<1>5. pc[r] \in Nat \ {0}
  BY <1>4
<1>6. /\ DOMAIN run' = Rank
      /\ \A s \in Rank : DOMAIN run'[s] = Actors
      /\ DOMAIN run'[r]["caller"] = {"call", "left", "thr"}
      /\ CallAt(r, "caller")' = pc[r]
      /\ prog[r][pc[r]].kind = "barrier" => run'[r]["caller"].left = <<>>
      /\ \A s \in Rank : \A b \in Actors : <<s, b>> # <<r, "caller">> =>
           run'[s][b] = run[s][b] /\ CallAt(s, b)' = CallAt(s, b)
  BY <1>2, <1>3, <1>5, StartsRun, ZenonT(30) DEF IInv
<1>7. \A s \in Rank : CallAt(s, "engine")' = CallAt(s, "engine")
  BY <1>3, <1>6, Zenon
<1>8. IssuedBy(r)
  BY <1>7, Zenon DEF CallAllreduce, IssuedBy
<1>9. ~Async(r, pc[r])
  BY Zenon DEF CallAllreduce, Async
<1>10. \A s, i : Async(s, i)' = Async(s, i)
  BY <1>1, SameProgram, Zenon
<1>11. pc'[r] = pc[r] + 1
  BY Zenon DEF CallAllreduce, IInv, Types
<1>12. Types'
  BY <1>6, <1>8, IssueStep, Zenon DEF IInv, Types, CallAllreduce
<1>13. Tasks'
  <2>1. ASSUME NEW s \in Rank, NEW a \in Actors, run'[s][a] # Idle
        PROVE  /\ DOMAIN run'[s][a] = {"call", "left", "thr"}
               /\ CallAt(s, a)' \in 1 .. pc'[s] - 1
               /\ (Async(s, CallAt(s, a)) <=> a = "engine")'
               /\ prog'[s][CallAt(s, a)'].kind = "barrier" => run'[s][a].left = <<>>
    <3>1. CASE <<s, a>> = <<r, "caller">>
      <4>1. pc[r] \in 1 .. pc'[r] - 1
        BY <1>4, <1>11
      <4> QED
        BY <1>1, <1>6, <1>9, <1>10, <3>1, <4>1, Zenon
    <3>2. CASE <<s, a>> # <<r, "caller">>
      <4>1. run'[s][a] = run[s][a]
        BY <1>6, <3>2, Zenon
      <4> QED
        BY <1>8, <2>1, <4>1, TasksStay, Zenon
    <3> QED
      BY <3>1, <3>2, Zenon
  <2> QED
    BY <1>6, <2>1, Zenon DEF Tasks
<1> QED
  BY <1>1, <1>8, <1>9, <1>12, <1>13, IssueStep, InlineStep, Zenon DEF IInv

\* Work::wait() returns.
LEMMA WaitStep ==
  ASSUME IInv, NEW r \in Rank, Wait(r)
  PROVE  IInv'
<1>1. run' = run /\ prog' = prog /\ q' = q
  BY Zenon DEF Wait
<1>2. \A s, a : CallAt(s, a)' = CallAt(s, a)
  BY <1>1, Zenon DEF CallAt
<1>3. IssuedBy(r)
  BY <1>2, Zenon DEF Wait, IssuedBy
<1>4. ~Async(r, pc[r])
  BY Zenon DEF Wait, Async
<1>5. Types'
  BY <1>1, <1>3, IssueStep, Zenon DEF IInv, Types, Wait
<1>6. Tasks'
  <2>1. \A s \in Rank : DOMAIN run'[s] = Actors
    BY <1>1, Zenon DEF IInv, Tasks
  <2>2. ASSUME NEW s \in Rank, NEW a \in Actors, run'[s][a] # Idle
        PROVE  /\ DOMAIN run'[s][a] = {"call", "left", "thr"}
               /\ CallAt(s, a)' \in 1 .. pc'[s] - 1
               /\ (Async(s, CallAt(s, a)) <=> a = "engine")'
               /\ prog'[s][CallAt(s, a)'].kind = "barrier" => run'[s][a].left = <<>>
    BY <1>1, <1>3, <2>2, TasksStay, Zenon
  <2> QED
    BY <2>1, <2>2, Zenon DEF Tasks
<1> QED
  BY <1>1, <1>3, <1>4, <1>5, <1>6, IssueStep, InlineStep, Zenon DEF IInv

-----------------------------------------------------------------------------
(* The engine takes a task.                                                *)

\* The oldest task queued: all those issued before it are complete.
LEMMA TakeTaskStep ==
  ASSUME IInv, NEW r \in Rank, TakeTask(r)
  PROVE  IInv'
<1> DEFINE h == Head(q[r])
<1>1. /\ UNCHANGED <<prog, pc, done, failed, locked, wire, store>>
      /\ q[r] # <<>> /\ ~Busy(r, "engine")
      /\ q' = [q EXCEPT ![r] = Tail(q[r])]
  BY Zenon DEF TakeTask
<1>2. Starts(r, "engine", h)
  BY Zenon DEF TakeTask, Starts
<1>3. "engine" \in Actors
  BY Zenon DEF Actors
<1>4. \A s \in Rank : pc[s] \in Nat /\ pc[s] >= 1
  BY CallsInRange, Zenon DEF IInv
<1>5. q[r] \in Seq(Nat) /\ q[r] # <<>>
  BY <1>1, Zenon DEF IInv, Types
<1>6. /\ Len(q[r]) \in Nat /\ Len(q[r]) >= 1 /\ DOMAIN q[r] = 1 .. Len(q[r])
      /\ h = q[r][1]
      /\ Tail(q[r]) \in Seq(Nat)
      /\ DOMAIN Tail(q[r]) = 1 .. Len(q[r]) - 1
      /\ \A i \in 1 .. Len(q[r]) - 1 : Tail(q[r])[i] = q[r][i + 1]
  BY <1>5
<1>7. /\ q' \in [Rank -> Seq(Nat)] /\ q'[r] = Tail(q[r])
      /\ \A s \in Rank : s # r => q'[s] = q[s]
  BY <1>1, <1>6, Zenon DEF IInv, Types
<1>8. /\ \A i \in DOMAIN q[r] : q[r][i] \in 1 .. pc[r] - 1 /\ Async(r, q[r][i])
      /\ \A i, j \in DOMAIN q[r] : i < j => q[r][i] < q[r][j]
  BY Zenon DEF IInv, Fifo
<1>9. h \in 1 .. pc[r] - 1 /\ Async(r, h)
  BY <1>6, <1>8
<1>10. h \in Nat \ {0}
  BY <1>4, <1>9
<1> HIDE DEF h
<1>11. /\ DOMAIN run' = Rank
       /\ \A s \in Rank : DOMAIN run'[s] = Actors
       /\ DOMAIN run'[r]["engine"] = {"call", "left", "thr"}
       /\ CallAt(r, "engine")' = h
       /\ prog[r][h].kind = "barrier" => run'[r]["engine"].left = <<>>
       /\ \A s \in Rank : \A b \in Actors : <<s, b>> # <<r, "engine">> =>
            run'[s][b] = run[s][b] /\ CallAt(s, b)' = CallAt(s, b)
  BY <1>2, <1>3, <1>10, StartsRun, ZenonT(30) DEF IInv
<1>12. CallAt(r, "engine") = 0
  BY <1>1, <1>3, CallTypes, Zenon DEF IInv
<1>13. /\ \A s, i : BarrierSeq(s, i)' = BarrierSeq(s, i)
       /\ \A s : Peers(s)' = Peers(s)
       /\ \A s, i : Async(s, i)' = Async(s, i)
  BY <1>1, SameProgram, Zenon
<1>14. \A s \in Rank : CallAt(s, "engine")' = IF s = r THEN h ELSE CallAt(s, "engine")
  BY <1>3, <1>11, Zenon
<1>15. Types'
  BY <1>1, <1>7, <1>11, Zenon DEF IInv, Types
<1>16. Tasks'
  <2>1. ASSUME NEW s \in Rank, NEW a \in Actors, run'[s][a] # Idle
        PROVE  /\ DOMAIN run'[s][a] = {"call", "left", "thr"}
               /\ CallAt(s, a)' \in 1 .. pc'[s] - 1
               /\ (Async(s, CallAt(s, a)) <=> a = "engine")'
               /\ prog'[s][CallAt(s, a)'].kind = "barrier" => run'[s][a].left = <<>>
    <3>1. CASE <<s, a>> = <<r, "engine">>
      BY <1>1, <1>9, <1>11, <1>13, <3>1, Zenon
    <3>2. CASE <<s, a>> # <<r, "engine">>
      <4>1. run'[s][a] = run[s][a] /\ CallAt(s, a)' = CallAt(s, a)
        BY <1>11, <3>2, Zenon
      <4> QED
        BY <1>1, <1>13, <2>1, <4>1 DEF IInv, Tasks
    <3> QED
      BY <3>1, <3>2, Zenon
  <2> QED
    BY <1>11, <2>1, Zenon DEF Tasks
<1>17. Finished'
  BY <1>1, Zenon DEF IInv, Finished
<1>18. Fifo'
  <2>1. \A i \in DOMAIN q'[r] : /\ i + 1 \in DOMAIN q[r] /\ q'[r][i] = q[r][i + 1]
                                /\ i \in Nat /\ 1 < i + 1
    <3> SUFFICES ASSUME NEW i \in DOMAIN q'[r]
        PROVE  /\ i + 1 \in DOMAIN q[r] /\ q'[r][i] = q[r][i + 1]
               /\ i \in Nat /\ 1 < i + 1
      OBVIOUS
    <3>1. i \in 1 .. Len(q[r]) - 1
      BY <1>6, <1>7, Zenon
    <3>2. i + 1 \in 1 .. Len(q[r]) /\ i \in Nat /\ 1 < i + 1
      BY <1>6, <3>1
    <3>3. q'[r][i] = q[r][i + 1]
      BY <1>6, <1>7, <3>1, Zenon
    <3> QED
      BY <1>6, <3>2, <3>3, Zenon
  <2>2. 1 \in DOMAIN q[r]
    BY <1>6
  <2>3. \A i \in DOMAIN q'[r] : /\ q'[r][i] \in 1 .. pc[r] - 1 /\ Async(r, q'[r][i])
                                /\ h < q'[r][i]
    BY <1>6, <1>8, <2>1, <2>2, Zenon
  <2>4. \A i, j \in DOMAIN q'[r] : i < j => q'[r][i] < q'[r][j]
    <3> SUFFICES ASSUME NEW i \in DOMAIN q'[r], NEW j \in DOMAIN q'[r], i < j
        PROVE  q'[r][i] < q'[r][j]
      OBVIOUS
    <3>1. i + 1 < j + 1
      BY <2>1
    <3> QED
      BY <1>8, <2>1, <3>1, Zenon
  <2>5. \A k \in 1 .. pc[r] - 1 : Async(r, k) =>
          \/ k \in done[r] \/ k = h
          \/ \E i \in DOMAIN q'[r] : q'[r][i] = k
    <3> SUFFICES ASSUME NEW k \in 1 .. pc[r] - 1, Async(r, k), k \notin done[r], k # h
        PROVE  \E i \in DOMAIN q'[r] : q'[r][i] = k
      OBVIOUS
    <3>1. k # 0
      BY <1>4
    <3>2. PICK i \in DOMAIN q[r] : q[r][i] = k
      BY <1>12, <3>1, Zenon DEF IInv, Fifo
    <3>3. i # 1
      BY <1>6, <3>2, Zenon
    <3>4. i - 1 \in DOMAIN q'[r] /\ (i - 1) + 1 = i
      BY <1>6, <1>7, <3>3
    <3> QED
      BY <2>1, <3>2, <3>4, Zenon
  <2>6. ASSUME NEW s \in Rank
        PROVE  /\ \A i \in DOMAIN q'[s] :
                    /\ q'[s][i] \in 1 .. pc[s] - 1 /\ Async(s, q'[s][i])
                    /\ CallAt(s, "engine")' < q'[s][i]
               /\ \A i, j \in DOMAIN q'[s] : i < j => q'[s][i] < q'[s][j]
               /\ \A k \in 1 .. pc[s] - 1 : Async(s, k) =>
                    \/ k \in done[s] \/ k = CallAt(s, "engine")'
                    \/ \E i \in DOMAIN q'[s] : q'[s][i] = k
    <3>1. CASE s = r
      BY <1>14, <2>3, <2>4, <2>5, <3>1, Zenon
    <3>2. CASE s # r
      <4>1. q'[s] = q[s] /\ CallAt(s, "engine")' = CallAt(s, "engine")
        BY <1>7, <1>14, <3>2, Zenon
      <4>2. /\ \A i \in DOMAIN q[s] :
                 /\ q[s][i] \in 1 .. pc[s] - 1 /\ Async(s, q[s][i])
                 /\ CallAt(s, "engine") < q[s][i]
            /\ \A i, j \in DOMAIN q[s] : i < j => q[s][i] < q[s][j]
            /\ \A k \in 1 .. pc[s] - 1 : Async(s, k) =>
                 \/ k \in done[s] \/ k = CallAt(s, "engine")
                 \/ \E i \in DOMAIN q[s] : q[s][i] = k
        BY Zenon DEF IInv, Fifo
      <4> QED
        BY <4>1, <4>2
    <3> QED
      BY <3>1, <3>2, Zenon
  <2> QED
    BY <1>1, <1>13, <2>6 DEF Fifo
<1>19. \A s \in Rank : \A j \in 1 .. pc[s] - 1 :
         Begun(s, j)' <=> Begun(s, j) \/ (s = r /\ j = h)
  <2> TAKE s \in Rank
  <2> TAKE j \in 1 .. pc[s] - 1
  <2>1. j # 0
    BY <1>4
  <2> QED
    BY <1>1, <1>12, <1>13, <1>14, <2>1, Zenon DEF Begun
<1>20. InTurn'
  <2> SUFFICES ASSUME NEW s \in Rank, NEW j \in 1 .. pc[s] - 1, Begun(s, j)',
                      NEW k \in 1 .. j - 1, Async(s, k)
      PROVE  k \in done[s]
    BY <1>1, <1>13, Zenon DEF InTurn
  <2>1. CASE Begun(s, j)
    BY <2>1, Zenon DEF IInv, InTurn
  <2>2. CASE s = r /\ j = h
    <3>1. k \in 1 .. pc[r] - 1 /\ k # 0 /\ k \in Nat /\ k < h
      BY <1>4, <2>2
    <3>2. \A i \in DOMAIN q[r] : q[r][i] # k
      <4> TAKE i \in DOMAIN q[r]
      <4>1. 1 \in DOMAIN q[r] /\ (i = 1 \/ 1 < i)
        BY <1>6
      <4>2. h \in Nat /\ (q[r][i] = h \/ h < q[r][i])
        BY <1>6, <1>8, <1>10, <4>1, Zenon
      <4> QED
        BY <3>1, <4>2
    <3> QED
      BY <1>12, <2>2, <3>1, <3>2, Zenon DEF IInv, Fifo
  <2> QED
    BY <1>19, <2>1, <2>2, Zenon
<1>21. Keys'
  BY <1>1, <1>13, <1>19, Zenon DEF IInv, Keys
<1>22. Passed'
  BY <1>1, <1>13, Zenon DEF IInv, Passed
<1> QED
  BY <1>15, <1>16, <1>17, <1>18, <1>20, <1>21, <1>22, Zenon DEF IInv

-----------------------------------------------------------------------------
(* Barriers.                                                               *)

\* A rank inside a barrier.
LEMMA InBarrierCall ==
  ASSUME IInv, NEW r \in Rank, InBarrier(r)
  PROVE  /\ Busy(r, "engine") /\ "engine" \in Actors
         /\ CallAt(r, "engine") \in 1 .. pc[r] - 1
         /\ prog[r][CallAt(r, "engine")].kind = "barrier"
         /\ Tag(r) = BarrierSeq(r, CallAt(r, "engine"))
<1>1. "engine" \in Actors
  BY Zenon DEF Actors
<1>2. Busy(r, "engine")
  BY Zenon DEF InBarrier
<1>3. CallAt(r, "engine") \in 1 .. pc[r] - 1 /\ CallAt(r, "engine") \in Nat
  BY <1>1, <1>2, CallTypes, Zenon DEF IInv
<1>4. prog[r][CallAt(r, "engine")].kind = "barrier"
  BY Zenon DEF InBarrier, CallOf, CallAt
<1>5. Tag(r) = BarrierSeq(r, CallAt(r, "engine"))
  BY Zenon DEF Tag, CallAt
<1> QED
  BY <1>1, <1>2, <1>3, <1>4, <1>5, Zenon

\* store_->set: the barrier whose key it is has begun.
LEMMA SetKeyStep ==
  ASSUME IInv, NEW r \in Rank, SetKey(r)
  PROVE  IInv'
<1>1. /\ UNCHANGED <<prog, pc, q, run, done, failed, locked, wire>>
      /\ store' = store \cup {<<Tag(r), r>>}
      /\ InBarrier(r)
  BY Zenon DEF SetKey
<1>2. /\ "engine" \in Actors
      /\ CallAt(r, "engine") \in 1 .. pc[r] - 1
      /\ prog[r][CallAt(r, "engine")].kind = "barrier"
      /\ Tag(r) = BarrierSeq(r, CallAt(r, "engine"))
  BY <1>1, InBarrierCall, Zenon
<1>3. /\ \A s, i : BarrierSeq(s, i)' = BarrierSeq(s, i)
      /\ \A s : Peers(s)' = Peers(s)
      /\ \A s, i : Async(s, i)' = Async(s, i)
      /\ \A s, a : CallAt(s, a)' = CallAt(s, a)
  BY <1>1, SameProgram, Zenon DEF CallAt
<1>4. \A s, j : Begun(s, j)' <=> Begun(s, j)
  BY <1>1, <1>3, Zenon DEF Begun
<1>5. Types'
  BY <1>1, <1>2 DEF IInv, Types
<1>6. Tasks'
  BY <1>1, <1>3, Zenon DEF IInv, Tasks
<1>7. Finished'
  BY <1>1, Zenon DEF IInv, Finished
<1>8. Fifo'
  BY <1>1, <1>3 DEF IInv, Fifo
<1>9. InTurn'
  BY <1>1, <1>3, <1>4, Zenon DEF IInv, InTurn
<1>10. Keys'
  <2> SUFFICES ASSUME NEW t, NEW p \in Rank, <<t, p>> \in store'
      PROVE  \E j \in 1 .. pc[p] - 1 :
               prog[p][j].kind = "barrier" /\ BarrierSeq(p, j) = t /\ Begun(p, j)
    BY <1>1, <1>3, <1>4, Zenon DEF Keys
  <2>1. CASE <<t, p>> \in store
    BY <2>1, Zenon DEF IInv, Keys
  <2>2. CASE <<t, p>> = <<Tag(r), r>>
    <3>1. t = Tag(r) /\ p = r
      BY <2>2, Zenon
    <3>2. Begun(r, CallAt(r, "engine"))
      BY Zenon DEF Begun
    <3> QED
      BY <1>2, <3>1, <3>2, Zenon
  <2> QED
    BY <1>1, <2>1, <2>2, Zenon
<1>11. Passed'
  BY <1>1, <1>3, Zenon DEF IInv, Passed
<1> QED
  BY <1>5, <1>6, <1>7, <1>8, <1>9, <1>10, <1>11, Zenon DEF IInv

\* The types after a completion.
LEMMA CompletedTypes ==
  ASSUME IInv, NEW r \in Rank, NEW a \in Actors, NEW ok \in BOOLEAN,
         Completed(r, a, ok)
  PROVE  /\ DOMAIN run' = Rank
         /\ done' \in [Rank -> SUBSET Nat] /\ failed' \in [Rank -> SUBSET Nat]
<1>1. run[r][a].call \in Nat
  BY CallTypes, Zenon DEF IInv, CallAt
<1>2. DOMAIN run' = Rank
  BY CompletedRun, Zenon DEF IInv
<1>3. done' \in [Rank -> SUBSET Nat] /\ failed' \in [Rank -> SUBSET Nat]
  BY <1>1, Zenon DEF Completed, IInv, Types
<1> QED
  BY <1>2, <1>3, Zenon

\* A barrier succeeds when all keys are there, its own included.
LEMMA PassBarrierStep ==
  ASSUME IInv, NEW r \in Rank, PassBarrier(r)
  PROVE  IInv'
<1>1. /\ UNCHANGED <<prog, pc, q, locked, wire, store>>
      /\ InBarrier(r) /\ Completed(r, "engine", TRUE)
      /\ \A p \in Peers(r) \cup {r} : <<Tag(r), p>> \in store
  BY Zenon DEF PassBarrier, KeyIsSet
<1>2. /\ Busy(r, "engine") /\ "engine" \in Actors
      /\ Tag(r) = BarrierSeq(r, CallAt(r, "engine"))
  BY <1>1, InBarrierCall, Zenon
<1>3. Types'
  BY <1>1, <1>2, CompletedTypes, Zenon DEF IInv, Types
<1>4. Tasks' /\ Finished' /\ Fifo' /\ InTurn' /\ Keys' /\ Passed'
  BY <1>1, <1>2, CompletedStep, Zenon
<1> QED
  BY <1>3, <1>4, Zenon DEF IInv

\* A barrier that times out completes with an exception.
LEMMA BarrierTimeoutStep ==
  ASSUME IInv, NEW r \in Rank, BarrierTimeout(r)
  PROVE  IInv'
<1>1. /\ UNCHANGED <<prog, pc, q, locked, wire, store>>
      /\ InBarrier(r) /\ Completed(r, "engine", FALSE)
  BY Zenon DEF BarrierTimeout, KeyIsSet
<1>2. Busy(r, "engine") /\ "engine" \in Actors
  BY <1>1, InBarrierCall, Zenon
<1>3. Types'
  BY <1>1, <1>2, CompletedTypes, Zenon DEF IInv, Types
<1>4. Tasks' /\ Finished' /\ Fifo' /\ InTurn' /\ Keys' /\ Passed'
  BY <1>1, <1>2, CompletedStep, Zenon
<1> QED
  BY <1>3, <1>4, Zenon DEF IInv

-----------------------------------------------------------------------------
(* Transfers.                                                              *)

\* Thread th of a task goes on as v.
Moves(r, a, th, v) == run' = [run EXCEPT ![r][a].thr[th] = v]

\* The task of thread a of rank r goes on with its call, and all other tasks
\* stay as they are.
GoesOn(r, a) ==
  /\ DOMAIN run' = Rank
  /\ \A s \in Rank : DOMAIN run'[s] = Actors
  /\ \A s \in Rank : \A b \in Actors :
       <<s, b>> # <<r, a>> => run'[s][b] = run[s][b]
  /\ DOMAIN run'[r][a] = {"call", "left", "thr"}
  /\ run'[r][a].call = run[r][a].call
  /\ prog[r][run[r][a].call].kind = "barrier" => run'[r][a].left = <<>>

\* Only thread th of the task changes, to v.
Turns(r, a, th, v) == run'[r][a].thr = [run[r][a].thr EXCEPT ![th] = v]

\* A move of thread th changes nothing else.
LEMMA MovesRun ==
  ASSUME Types, Tasks, NEW r \in Rank, NEW a \in Actors, Busy(r, a),
         NEW th, NEW v, Moves(r, a, th, v)
  PROVE  GoesOn(r, a) /\ Turns(r, a, th, v)
<1> DEFINE new == [run[r][a] EXCEPT !.thr = [run[r][a].thr EXCEPT ![th] = v]]
<1>1. /\ DOMAIN run[r][a] = {"call", "left", "thr"}
      /\ prog[r][run[r][a].call].kind = "barrier" => run[r][a].left = <<>>
  BY Zenon DEF Tasks, Busy, CallAt
<1>2. /\ DOMAIN new = {"call", "left", "thr"}
      /\ new.call = run[r][a].call /\ new.left = run[r][a].left
      /\ new.thr = [run[r][a].thr EXCEPT ![th] = v]
  BY <1>1, Zenon
<1>3. run' = [run EXCEPT ![r][a] = new]
  BY Zenon DEF Moves
<1> HIDE DEF new
<1>4. /\ DOMAIN run' = Rank
      /\ \A s \in Rank : DOMAIN run'[s] = Actors
      /\ \A s \in Rank : \A b \in Actors :
           <<s, b>> # <<r, a>> => run'[s][b] = run[s][b]
      /\ run'[r][a] = new
  BY <1>3, Zenon DEF Types, Tasks
<1> QED
  BY <1>1, <1>2, <1>4, Zenon DEF GoesOn, Turns

\* A step inside a task leaves all calls where they are.
LEMMA GoesOnStep ==
  ASSUME IInv, NEW r \in Rank, NEW a \in Actors, Busy(r, a), GoesOn(r, a),
         UNCHANGED <<prog, pc, q, done, failed, store>>,
         DOMAIN wire' = Rank, \A m \in locked' : m[1] \in Rank
  PROVE  IInv'
<1>1. \A s \in Rank : \A b \in Actors : CallAt(s, b)' = CallAt(s, b)
  BY Zenon DEF CallAt, GoesOn
<1>2. Types'
  BY Zenon DEF IInv, Types, GoesOn
<1>3. Tasks'
  <2>1. \A s, i : Async(s, i)' = Async(s, i)
    BY SameProgram, Zenon
  <2>2. ASSUME NEW s \in Rank, NEW b \in Actors, run'[s][b] # Idle
        PROVE  /\ DOMAIN run'[s][b] = {"call", "left", "thr"}
               /\ CallAt(s, b)' \in 1 .. pc'[s] - 1
               /\ (Async(s, CallAt(s, b)) <=> b = "engine")'
               /\ prog'[s][CallAt(s, b)'].kind = "barrier" => run'[s][b].left = <<>>
    <3>1. run[s][b] # Idle
      BY <2>2, Zenon DEF Busy, GoesOn
    <3>2. /\ CallAt(s, b) \in 1 .. pc[s] - 1
          /\ Async(s, CallAt(s, b)) <=> b = "engine"
      BY <3>1, Zenon DEF IInv, Tasks
    <3>3. /\ DOMAIN run'[s][b] = {"call", "left", "thr"}
          /\ prog[s][CallAt(s, b)].kind = "barrier" => run'[s][b].left = <<>>
      <4>1. CASE <<s, b>> = <<r, a>>
        BY <4>1, Zenon DEF GoesOn, CallAt
      <4>2. CASE <<s, b>> # <<r, a>>
        BY <3>1, <4>2 DEF GoesOn, IInv, Tasks
      <4> QED
        BY <4>1, <4>2, Zenon
    <3> QED
      BY <1>1, <2>1, <3>2, <3>3, Zenon
  <2> QED
    BY <2>2 DEF Tasks, GoesOn
<1> QED
  BY <1>1, <1>2, <1>3, QuietStep, Zenon DEF IInv

\* What thread th becomes with the next piece of transfer x.
Advanced(r, a, th, x) ==
  IF Moved(r, a, th) + 1 = x.len THEN Released(run[r][a].thr[th])
  ELSE Further(run[r][a].thr[th])

\* What thread th becomes with the mutex of transfer x.
Acquired(r, a, th, x) ==
  IF x.len > 0 THEN [run[r][a].thr[th] EXCEPT !.moved = 0]
  ELSE Released(run[r][a].thr[th])

\* The steps of a transfer are moves of its thread.
LEMMA ThreadMoves ==
  ASSUME NEW r, NEW a, NEW th
  PROVE  /\ Acquire(r, a, th) => Moves(r, a, th, Acquired(r, a, th, Xfer(r, a, th)))
         /\ \A x : Advance(r, a, th, x) => Moves(r, a, th, Advanced(r, a, th, x))
<1>1. Acquire(r, a, th) => Moves(r, a, th, Acquired(r, a, th, Xfer(r, a, th)))
  BY Zenon DEF Acquire, Moves, Acquired
<1>2. ASSUME NEW x, Advance(r, a, th, x)
      PROVE  Moves(r, a, th, Advanced(r, a, th, x))
  BY <1>2, Zenon DEF Advance, Moves, Advanced
<1> QED
  BY <1>1, <1>2, Zenon

\* A mutex belongs to the rank that takes it.
LEMMA MutexRank ==
  ASSUME IInv, NEW r \in Rank, NEW x,
         \/ locked' = locked
         \/ locked' = locked \cup {MutexOf(r, x)}
         \/ locked' = locked \ {MutexOf(r, x)}
  PROVE  \A m \in locked' : m[1] \in Rank
<1>1. MutexOf(r, x)[1] = r
  BY Zenon DEF MutexOf
<1>2. \A m \in locked : m[1] \in Rank
  BY Zenon DEF IInv, Types
<1> QED
  BY <1>1, <1>2, Zenon

LEMMA AcquireStep ==
  ASSUME IInv, NEW r \in Rank, NEW a \in Actors, NEW th, Acquire(r, a, th)
  PROVE  IInv'
<1>1. Busy(r, a)
  BY Zenon DEF Acquire, InXfer
<1>2. GoesOn(r, a)
  <2>1. Moves(r, a, th, Acquired(r, a, th, Xfer(r, a, th)))
    BY ThreadMoves, Zenon
  <2> QED
    BY <1>1, <2>1, MovesRun, Zenon DEF IInv
<1>3. UNCHANGED <<prog, pc, q, done, failed, wire, store>>
  BY Zenon DEF Acquire
<1>4. \A m \in locked' : m[1] \in Rank
  <2> DEFINE x == Xfer(r, a, th)
  <2>1. locked' = locked \/ locked' = locked \cup {MutexOf(r, x)}
    BY Zenon DEF Acquire
  <2> QED
    BY <2>1, MutexRank, Zenon
<1>5. DOMAIN wire' = Rank
  BY <1>3, Zenon DEF IInv, Types
<1> QED
  BY <1>1, <1>2, <1>3, <1>4, <1>5, GoesOnStep, Zenon

\* One more piece moved.
LEMMA AdvanceStep ==
  ASSUME IInv, NEW r \in Rank, NEW a \in Actors, NEW th, NEW x, Busy(r, a),
         Advance(r, a, th, x), UNCHANGED <<prog, pc, q, done, failed, store>>,
         DOMAIN wire' = Rank
  PROVE  IInv'
<1>1. GoesOn(r, a)
  <2>1. Moves(r, a, th, Advanced(r, a, th, x))
    BY ThreadMoves, Zenon
  <2> QED
    BY <2>1, MovesRun, Zenon DEF IInv
<1>2. \A m \in locked' : m[1] \in Rank
  <2>1. locked' = locked \/ locked' = locked \ {MutexOf(r, x)}
    BY Zenon DEF Advance
  <2> QED
    BY <2>1, MutexRank, Zenon
<1> QED
  BY <1>1, <1>2, GoesOnStep, Zenon

\* The streams after a piece was written or read.
LEMMA WireDomain ==
  ASSUME IInv, NEW s, NEW t
  PROVE  /\ \A y : wire' = WirePut(wire, s, t, y) => DOMAIN wire' = Rank
         /\ wire' = WireDrop(wire, s, t) => DOMAIN wire' = Rank
BY Zenon DEF IInv, Types, WirePut, WireDrop

LEMMA ThreadStep ==
  ASSUME IInv, NEW r \in Rank, NEW a \in Actors, NEW th, Thread(r, a, th)
  PROVE  IInv'
<1> DEFINE x == Xfer(r, a, th)
<1>1. CASE Acquire(r, a, th)
  BY <1>1, AcquireStep, Zenon
<1>2. CASE SendPiece(r, a, th)
  <2>1. /\ Busy(r, a) /\ Advance(r, a, th, x)
        /\ UNCHANGED <<prog, pc, q, done, failed, store>>
        /\ wire' = WirePut(wire, r, x.peer, Piece(CallOf(r, a), x))
    BY <1>2, Zenon DEF SendPiece, InXfer
  <2>2. DOMAIN wire' = Rank
    BY <2>1, WireDomain, Zenon
  <2> HIDE DEF x
  <2> QED
    BY <2>1, <2>2, AdvanceStep, Zenon
<1>3. CASE RecvPiece(r, a, th)
  <2>1. /\ Busy(r, a) /\ Advance(r, a, th, x)
        /\ UNCHANGED <<prog, pc, q, done, failed, store>>
        /\ wire' = WireDrop(wire, x.peer, r)
    BY <1>3, Zenon DEF RecvPiece, InXfer
  <2>2. DOMAIN wire' = Rank
    BY <2>1, WireDomain, Zenon
  <2> HIDE DEF x
  <2> QED
    BY <2>1, <2>2, AdvanceStep, Zenon
<1>4. CASE RecvHeader(r, a, th)
  <2>1. /\ Busy(r, a)
        /\ UNCHANGED <<prog, pc, q, store>>
        /\ wire' = WireDrop(wire, x.peer, r)
        /\ \/ Advance(r, a, th, x) /\ UNCHANGED <<done, failed>>
           \/ Completed(r, a, FALSE) /\ locked' = locked \ {MutexOf(r, x)}
    BY <1>4, Zenon DEF RecvHeader, InXfer
  <2>2. DOMAIN wire' = Rank
    BY <2>1, WireDomain, Zenon
  <2> HIDE DEF x
  <2>3. CASE Advance(r, a, th, x) /\ UNCHANGED <<done, failed>>
    BY <2>1, <2>2, <2>3, AdvanceStep, Zenon
  <2>4. CASE Completed(r, a, FALSE) /\ locked' = locked \ {MutexOf(r, x)}
    <3>1. \A m \in locked' : m[1] \in Rank
      BY <2>4, MutexRank, Zenon
    <3>2. Types'
      BY <2>1, <2>2, <2>4, <3>1, CompletedTypes, Zenon DEF IInv, Types
    <3>3. Tasks' /\ Finished' /\ Fifo' /\ InTurn' /\ Keys' /\ Passed'
      BY <2>1, <2>4, CompletedStep, Zenon
    <3> QED
      BY <3>2, <3>3, Zenon DEF IInv
  <2> QED
    BY <2>1, <2>3, <2>4, Zenon
<1> QED
  BY <1>1, <1>2, <1>3, <1>4, Zenon DEF Thread

\* A stage ends: the task goes on with the next one, or completes.  It is no
\* barrier, which has no stage.
LEMMA EndStageStep ==
  ASSUME IInv, NEW r \in Rank, NEW a \in Actors, EndStage(r, a)
  PROVE  IInv'
<1> DEFINE rest == Tail(run[r][a].left)
           next == [run[r][a] EXCEPT !.left = rest, !.thr = Spawned(Head(rest))]
<1>1. /\ Busy(r, a) /\ run[r][a].left # <<>>
      /\ UNCHANGED <<prog, pc, q, locked, wire, store>>
  BY Zenon DEF EndStage, Joined
<1>2. /\ DOMAIN run[r][a] = {"call", "left", "thr"}
      /\ prog[r][CallAt(r, a)].kind # "barrier"
  BY <1>1, Zenon DEF IInv, Tasks, Busy
<1>3. DOMAIN wire' = Rank /\ \A m \in locked' : m[1] \in Rank
  BY <1>1, Zenon DEF IInv, Types
<1>4. CASE rest # <<>>
  <2>1. /\ run' = [run EXCEPT ![r][a] = next]
        /\ UNCHANGED <<done, failed>>
    BY <1>4, ZenonT(30) DEF EndStage
  <2>2. DOMAIN next = {"call", "left", "thr"} /\ next.call = run[r][a].call
    BY <1>2, Zenon
  <2> HIDE DEF next
  <2>3. GoesOn(r, a)
    BY <1>2, <2>1, <2>2 DEF IInv, Types, Tasks, GoesOn, CallAt
  <2> QED
    BY <1>1, <1>3, <2>1, <2>3, GoesOnStep, Zenon
<1>5. CASE rest = <<>>
  <2>1. Completed(r, a, TRUE)
    BY <1>5, Zenon DEF EndStage
  <2>2. Types'
    BY <1>1, <1>3, <2>1, CompletedTypes, Zenon DEF IInv, Types
  <2>3. Tasks' /\ Finished' /\ Fifo' /\ InTurn' /\ Keys' /\ Passed'
    BY <1>1, <1>2, <2>1, CompletedStep, Zenon
  <2> QED
    BY <2>2, <2>3, Zenon DEF IInv
<1> QED
  BY <1>4, <1>5, Zenon

-----------------------------------------------------------------------------
(* The theorems.                                                           *)

\* Nothing has been issued yet.
LEMMA InitIInv == Init => IInv
<1> SUFFICES ASSUME Init PROVE IInv
  OBVIOUS
<1>1. /\ \A r \in Rank : pc[r] = 1 /\ q[r] = <<>> /\ done[r] = {} /\ failed[r] = {}
      /\ \A r \in Rank : DOMAIN run[r] = Actors
      /\ \A r \in Rank : \A a \in Actors : run[r][a] = Idle
      /\ store = {} /\ locked = {} /\ prog \in Programs
  BY Zenon DEF Init
<1>2. /\ pc \in [Rank -> Nat] /\ q \in [Rank -> Seq(Nat)]
      /\ done \in [Rank -> SUBSET Nat] /\ failed \in [Rank -> SUBSET Nat]
      /\ DOMAIN run = Rank /\ DOMAIN wire = Rank
  BY DEF Init, EmptyWire
<1>3. \A r \in Rank : pc[r] \in 1 .. Len(prog[r]) + 1
  BY <1>1, ProgramsAssumption
<1>4. Types
  BY <1>1, <1>2, <1>3, Zenon DEF Types
<1>5. Tasks
  BY <1>1, Zenon DEF Tasks
<1>6. Finished /\ Fifo /\ InTurn
  <2>1. \A r \in Rank : 1 .. pc[r] - 1 = {}
    BY <1>1
  <2>2. \A r \in Rank : DOMAIN q[r] = {}
    BY <1>1
  <2> QED
    BY <1>1, <2>1, <2>2, Zenon DEF Finished, Fifo, InTurn
<1>7. Keys /\ Passed
  BY <1>1, Zenon DEF Keys, Passed
<1> QED
  BY <1>4, <1>5, <1>6, <1>7, Zenon DEF IInv

\* Every step keeps the invariant.
LEMMA NextIInv ==
  ASSUME IInv, [Next]_vars
  PROVE  IInv'
<1>1. CASE UNCHANGED vars
  <2>1. /\ UNCHANGED <<prog, pc, q, run, done, failed, locked, wire, store>>
    BY <1>1, Zenon DEF vars
  <2>2. \A r, a : CallAt(r, a)' = CallAt(r, a)
    BY <2>1, Zenon DEF CallAt
  <2>3. Types'
    BY <2>1, Zenon DEF IInv, Types
  <2>4. Tasks'
    <3>1. \A s, i : Async(s, i)' = Async(s, i)
      BY <2>1, SameProgram, Zenon
    <3> QED
      BY <2>1, <2>2, <3>1, Zenon DEF IInv, Tasks
  <2> QED
    BY <2>1, <2>2, <2>3, <2>4, QuietStep, Zenon DEF IInv
<1>2. ASSUME NEW r \in Rank, Progress(r)
      PROVE  IInv'
  <2>1. CASE Issue(r)
    BY <2>1, SubmitStep, CallAllreduceStep, WaitStep, Zenon DEF Issue
  <2>2. CASE TakeTask(r)
    BY <2>2, TakeTaskStep, Zenon
  <2>3. CASE SetKey(r)
    BY <2>3, SetKeyStep, Zenon
  <2>4. CASE PassBarrier(r)
    BY <2>4, PassBarrierStep, Zenon
  <2>5. ASSUME NEW a \in Actors, EndStage(r, a)
        PROVE  IInv'
    BY <2>5, EndStageStep, Zenon
  <2>6. ASSUME NEW a \in Actors, NEW th \in ThreadIds, Thread(r, a, th)
        PROVE  IInv'
    BY <2>6, ThreadStep, Zenon
  <2> QED
    BY <1>2, <2>1, <2>2, <2>3, <2>4, <2>5, <2>6, Zenon DEF Progress
<1>3. ASSUME NEW r \in Rank, BarrierTimeout(r)
      PROVE  IInv'
  BY <1>3, BarrierTimeoutStep, Zenon
<1> QED
  BY <1>1, <1>2, <1>3, Zenon DEF Next, Terminating

\* The invariant holds throughout.
LEMMA Invariant == Spec => []IInv
BY InitIInv, NextIInv, PTL DEF Spec

\* The types of the state of the process group, for every program.
THEOREM TypeCorrect == Spec => []TypeOK
<1>1. ASSUME IInv PROVE TypeOK
  <2>1. ASSUME NEW r \in Rank
        PROVE  /\ pc[r] \in 1 .. Len(prog[r]) + 1
               /\ \A i \in 1 .. Len(q[r]) : q[r][i] \in 1 .. pc[r] - 1
               /\ failed[r] \subseteq done[r]
               /\ done[r] \subseteq 1 .. pc[r] - 1
    <3>1. DOMAIN q[r] = 1 .. Len(q[r])
      BY <1>1 DEF IInv, Types
    <3> QED
      BY <1>1, <3>1, Zenon DEF IInv, Types, Fifo, Finished
  <2>2. ASSUME NEW r \in Rank, NEW a \in Actors
        PROVE  run[r][a].call \in 0 .. pc[r] - 1
    <3>1. CallAt(r, a) \in Nat /\ CallAt(r, a) <= pc[r] - 1 /\ pc[r] \in Nat
      BY <1>1, CallTypes, CallsInRange, Zenon DEF IInv
    <3> QED
      BY <3>1 DEF CallAt
  <2>3. ASSUME NEW key \in store
        PROVE  \E r \in Rank : \E i \in 1 .. Len(prog[r]) : key = <<BarrierSeq(r, i), r>>
    <3>1. key = <<key[1], key[2]>> /\ key[2] \in Rank
      BY <1>1, Zenon DEF IInv, Types
    <3>2. PICK p \in Rank : p = key[2]
      BY <3>1, Zenon
    <3>3. PICK j \in 1 .. pc[p] - 1 : BarrierSeq(p, j) = key[1]
      BY <1>1, <3>1, <3>2, Zenon DEF IInv, Keys
    <3>4. j \in 1 .. Len(prog[p])
      BY <1>1, CallsInRange DEF IInv
    <3> QED
      BY <3>1, <3>2, <3>3, <3>4, Zenon
  <2> QED
    BY <1>1, <2>1, <2>2, <2>3, Zenon DEF TypeOK, IInv, Types
<1> QED
  BY <1>1, Invariant, PTL

\* A barrier that has succeeded on one rank fences what every rank of the
\* group gave to its engine before that barrier: one barrier of that rank
\* set the key, when it had begun, and the engine begins a task only when
\* all tasks issued before it are complete.
THEOREM BarriersFence == Spec => []BarrierFences
<1>1. ASSUME IInv PROVE BarrierFences
  <2> SUFFICES ASSUME NEW r \in Rank, NEW i \in done[r] \ failed[r],
                      prog[r][i].kind = "barrier", NEW p \in Peers(r) \cup {r}
      PROVE  \E j \in 1 .. Len(prog[p]) :
               /\ prog[p][j].kind = "barrier" /\ BarrierSeq(p, j) = BarrierSeq(r, i)
               /\ \A k \in 1 .. j - 1 :
                    prog[p][k].kind \notin {"allreduce", "wait"} => k \in done[p]
    BY Zenon DEF BarrierFences
  <2>1. <<BarrierSeq(r, i), p>> \in store
    BY <1>1, Zenon DEF IInv, Passed
  <2>2. p \in Rank
    <3>1. PICK key \in store : key = <<BarrierSeq(r, i), p>>
      BY <2>1, Zenon
    <3>2. key[2] \in Rank
      BY <1>1, Zenon DEF IInv, Types
    <3> QED
      BY <3>1, <3>2, Zenon
  <2>3. PICK j \in 1 .. pc[p] - 1 :
               /\ prog[p][j].kind = "barrier" /\ BarrierSeq(p, j) = BarrierSeq(r, i)
               /\ Begun(p, j)
    BY <1>1, <2>1, <2>2, Zenon DEF IInv, Keys
  <2>4. \A k \in 1 .. j - 1 :
          prog[p][k].kind \notin {"allreduce", "wait"} => k \in done[p]
    BY <1>1, <2>2, <2>3, Zenon DEF IInv, InTurn, Async
  <2>5. j \in 1 .. Len(prog[p])
    BY <1>1, <2>2, CallsInRange DEF IInv
  <2> QED
    BY <2>3, <2>4, <2>5, Zenon
<1> QED
  BY <1>1, Invariant, PTL

-----------------------------------------------------------------------------
(* The streams.                                                            *)

\* The threads of a task that hold the mutex of their transfer.
Holders(r, a) ==
  IF Busy(r, a) THEN {th \in DOMAIN run[r][a].thr : Moved(r, a, th) # NotHeld}
  ELSE {}

\* The threads of a task.
ThreadsOf(r, a) ==
  Busy(r, a) => \A th \in DOMAIN run[r][a].thr :
                  /\ DOMAIN run[r][a].thr[th] = {"xfers", "moved"}
                  /\ Moved(r, a, th) \in Nat \cup {NotHeld}

Threads == \A r \in Rank : \A a \in Actors : ThreadsOf(r, a)

\* A thread inside a transfer has its mutex locked.
Locks ==
  \A r \in Rank : \A a \in Actors : \A th \in Holders(r, a) :
    MutexOf(r, Xfer(r, a, th)) \in locked

\* No two threads of a rank, of the same task or of the two that can be in
\* progress, are inside transfers with the same peer and direction.
Exclusive ==
  \A r \in Rank : \A a, b \in Actors :
    \A th \in Holders(r, a) : \A uh \in Holders(r, b) :
      MutexOf(r, Xfer(r, a, th)) = MutexOf(r, Xfer(r, b, uh)) => a = b /\ th = uh

\* A stream is a sequence.
Streams ==
  /\ DOMAIN wire = Rank
  /\ \A r \in Rank : DOMAIN wire[r] = Rank
  /\ \A r, p \in Rank : \E S : wire[r][p] \in Seq(S)

\* The last m elements of w, or all of them if they are fewer, are y.
EndsWith(w, m, y) == \A i \in 1 .. Len(w) : i > Len(w) - m => w[i] = y

\* What a transfer to rank p has written is the end of the stream.
Whole(r, p, a, th) ==
  Xfer(r, a, th).dir = "send" /\ Xfer(r, a, th).peer = p =>
    EndsWith(wire[r][p], Moved(r, a, th), Piece(CallOf(r, a), Xfer(r, a, th)))

\* What any transfer in progress has written is the end of its stream, but
\* for what the peer has read of it: nothing else was written since it began.
TransfersAreWhole ==
  \A r, p \in Rank : \A a \in Actors : \A th \in Holders(r, a) : Whole(r, p, a, th)

\* The invariant of the streams.
SInv == Threads /\ Locks /\ Exclusive /\ Streams /\ TransfersAreWhole

\* Writing one more y, and reading from the front.
LEMMA EndsWithFacts ==
  ASSUME NEW S, NEW w \in Seq(S), NEW m \in Nat, NEW y
  PROVE  /\ EndsWith(w, 0, y)
         /\ EndsWith(w, m, y) => EndsWith(Append(w, y), m + 1, y)
         /\ w # <<>> /\ EndsWith(w, m, y) => EndsWith(Tail(w), m, y)
<1>1. Len(w) \in Nat
  OBVIOUS
<1>2. EndsWith(w, 0, y)
  BY <1>1 DEF EndsWith
<1>3. ASSUME EndsWith(w, m, y)
      PROVE  EndsWith(Append(w, y), m + 1, y)
  <2>1. w \in Seq(S \cup {y}) /\ y \in S \cup {y}
    OBVIOUS
  <2>2. /\ Len(Append(w, y)) = Len(w) + 1
        /\ \A i \in 1 .. Len(w) : Append(w, y)[i] = w[i]
        /\ Append(w, y)[Len(w) + 1] = y
    BY <2>1
  <2> SUFFICES ASSUME NEW i \in 1 .. Len(w) + 1, i > (Len(w) + 1) - (m + 1)
      PROVE  Append(w, y)[i] = y
    BY <2>2, Zenon DEF EndsWith
  <2>3. CASE i = Len(w) + 1
    BY <2>2, <2>3, Zenon
  <2>4. CASE i # Len(w) + 1
    <3>1. i \in 1 .. Len(w) /\ i > Len(w) - m
      BY <1>1, <2>4
    <3> QED
      BY <1>3, <2>2, <3>1, Zenon DEF EndsWith
  <2> QED
    BY <2>3, <2>4, Zenon
<1>4. ASSUME w # <<>>, EndsWith(w, m, y)
      PROVE  EndsWith(Tail(w), m, y)
  <2>1. /\ Len(w) >= 1 /\ Len(Tail(w)) = Len(w) - 1
        /\ \A i \in 1 .. Len(w) - 1 : Tail(w)[i] = w[i + 1]
    BY <1>4
  <2> SUFFICES ASSUME NEW i \in 1 .. Len(w) - 1, i > (Len(w) - 1) - m
      PROVE  Tail(w)[i] = y
    BY <2>1, Zenon DEF EndsWith
  <2>2. i + 1 \in 1 .. Len(w) /\ i + 1 > Len(w) - m
    BY <1>1
  <2> QED
    BY <1>4, <2>1, <2>2, Zenon DEF EndsWith
<1> QED
  BY <1>2, <1>3, <1>4, Zenon

\* A piece read leaves every transfer in progress at the end of its stream.
LEMMA DropKeeps ==
  ASSUME Streams, NEW s, NEW t, CanRead(wire, s, t),
         wire' = WireDrop(wire, s, t)
  PROVE  /\ Streams'
         /\ \A r, p \in Rank : \A m \in Nat : \A y :
              EndsWith(wire[r][p], m, y) => EndsWith(wire'[r][p], m, y)
<1>1. /\ DOMAIN wire' = Rank
      /\ \A r \in Rank : DOMAIN wire'[r] = Rank
      /\ \A r, p \in Rank : wire'[r][p] = IF <<r, p>> = <<s, t>> THEN Tail(wire[r][p])
                                         ELSE wire[r][p]
  BY Zenon DEF Streams, WireDrop
<1>2. ASSUME NEW r \in Rank, NEW p \in Rank
      PROVE  /\ \E S : wire'[r][p] \in Seq(S)
             /\ \A m \in Nat : \A y :
                  EndsWith(wire[r][p], m, y) => EndsWith(wire'[r][p], m, y)
  <2>1. PICK S : wire[r][p] \in Seq(S)
    BY Zenon DEF Streams
  <2>2. CASE <<r, p>> = <<s, t>>
    <3>1. wire[r][p] # <<>> /\ wire'[r][p] = Tail(wire[r][p])
      BY <1>1, <2>2, Zenon DEF CanRead
    <3>2. Tail(wire[r][p]) \in Seq(S)
      BY <2>1, <3>1
    <3> QED
      BY <2>1, <3>1, <3>2, EndsWithFacts, Zenon
  <2>3. CASE <<r, p>> # <<s, t>>
    BY <1>1, <2>1, <2>3, Zenon
  <2> QED
    BY <2>2, <2>3, Zenon
<1> QED
  BY <1>1, <1>2, Zenon DEF Streams

\* A piece written is the end of its stream; the other streams stay.
LEMMA PutKeeps ==
  ASSUME Streams, NEW s, NEW t, NEW y, wire' = WirePut(wire, s, t, y)
  PROVE  /\ Streams'
         /\ \A r, p \in Rank : <<r, p>> # <<s, t>> => wire'[r][p] = wire[r][p]
         /\ \A r, p \in Rank : \A m \in Nat :
              <<r, p>> = <<s, t>> /\ EndsWith(wire[r][p], m, y)
                => EndsWith(wire'[r][p], m + 1, y)
<1>1. /\ DOMAIN wire' = Rank
      /\ \A r \in Rank : DOMAIN wire'[r] = Rank
      /\ \A r, p \in Rank : wire'[r][p] = IF <<r, p>> = <<s, t>>
                                         THEN Append(wire[r][p], y)
                                         ELSE wire[r][p]
  BY Zenon DEF Streams, WirePut
<1>2. ASSUME NEW r \in Rank, NEW p \in Rank
      PROVE  /\ \E S : wire'[r][p] \in Seq(S)
             /\ \A m \in Nat :
                  <<r, p>> = <<s, t>> /\ EndsWith(wire[r][p], m, y)
                    => EndsWith(wire'[r][p], m + 1, y)
  <2>1. PICK S : wire[r][p] \in Seq(S)
    BY Zenon DEF Streams
  <2>2. CASE <<r, p>> = <<s, t>>
    <3>1. wire'[r][p] = Append(wire[r][p], y)
      BY <1>1, <2>2, Zenon
    <3>2. wire[r][p] \in Seq(S \cup {y}) /\ y \in S \cup {y}
      BY <2>1
    <3>3. Append(wire[r][p], y) \in Seq(S \cup {y})
      BY <3>2
    <3>4. \A m \in Nat : EndsWith(wire[r][p], m, y)
                           => EndsWith(Append(wire[r][p], y), m + 1, y)
      BY <2>1, EndsWithFacts, Zenon
    <3> QED
      BY <3>1, <3>3, <3>4, Zenon
  <2>3. CASE <<r, p>> # <<s, t>>
    BY <1>1, <2>1, <2>3, Zenon
  <2> QED
    BY <2>2, <2>3, Zenon
<1> QED
  BY <1>1, <1>2, Zenon DEF Streams

\* Thread th of a task stays where it is in its transfer.
Stays(r, a, th) ==
  /\ th \in Holders(r, a)
  /\ Xfer(r, a, th)' = Xfer(r, a, th) /\ Moved(r, a, th)' = Moved(r, a, th)
  /\ CallOf(r, a)' = CallOf(r, a)

\* ... and what it has written stays the end of its stream.
Unspoilt(r, a, th) ==
  \A p \in Rank : Xfer(r, a, th).dir = "send" /\ Xfer(r, a, th).peer = p =>
    \A m \in Nat : \A y : EndsWith(wire[r][p], m, y) => EndsWith(wire'[r][p], m, y)

\* A task that did not change.
LEMMA SameTask ==
  ASSUME NEW r, NEW a, run'[r][a] = run[r][a], prog' = prog
  PROVE  /\ Holders(r, a)' = Holders(r, a) /\ (Busy(r, a)' <=> Busy(r, a))
         /\ \A th \in Holders(r, a) : Stays(r, a, th)
         /\ \A th : Moved(r, a, th)' = Moved(r, a, th)
<1>1. /\ \A th : Moved(r, a, th)' = Moved(r, a, th)
      /\ \A th : Xfer(r, a, th)' = Xfer(r, a, th)
      /\ CallOf(r, a)' = CallOf(r, a)
      /\ Busy(r, a)' <=> Busy(r, a)
  BY Zenon DEF Moved, Xfer, CallOf, Busy
<1>2. Holders(r, a)' = Holders(r, a)
  BY <1>1 DEF Holders
<1> QED
  BY <1>1, <1>2, Zenon DEF Stays

\* A step in which only thread th of the task (r, a) moves in a transfer, or
\* enters or leaves one, and others may go.
LEMMA OneMoves ==
  ASSUME SInv, Threads', Streams', NEW r \in Rank, NEW a \in Actors, NEW th,
         \A s \in Rank : \A b \in Actors : \A uh \in Holders(s, b)' :
           <<s, b, uh>> # <<r, a, th>> =>
             /\ Stays(s, b, uh) /\ Unspoilt(s, b, uh)
             /\ MutexOf(s, Xfer(s, b, uh)) \in locked'
             /\ th \in Holders(r, a)' =>
                  MutexOf(s, Xfer(s, b, uh)) # MutexOf(r, Xfer(r, a, th)')
         ,
         th \in Holders(r, a)' =>
           /\ MutexOf(r, Xfer(r, a, th)') \in locked'
           /\ \A p \in Rank : Whole(r, p, a, th)'
  PROVE  SInv'
<1>1. Locks'
  <2> SUFFICES ASSUME NEW s \in Rank, NEW b \in Actors, NEW uh \in Holders(s, b)'
      PROVE  MutexOf(s, Xfer(s, b, uh)') \in locked'
    BY Zenon DEF Locks, MutexOf
  <2>1. CASE <<s, b, uh>> = <<r, a, th>>
    BY <2>1, Zenon
  <2>2. CASE <<s, b, uh>> # <<r, a, th>>
    BY <2>2, Zenon DEF Stays
  <2> QED
    BY <2>1, <2>2, Zenon
<1>2. Exclusive'
  <2> SUFFICES ASSUME NEW s \in Rank, NEW b \in Actors, NEW c \in Actors,
                      NEW uh \in Holders(s, b)', NEW vh \in Holders(s, c)',
                      MutexOf(s, Xfer(s, b, uh)') = MutexOf(s, Xfer(s, c, vh)')
      PROVE  b = c /\ uh = vh
    BY Zenon DEF Exclusive, MutexOf
  <2>1. CASE <<s, b, uh>> = <<r, a, th>> /\ <<s, c, vh>> = <<r, a, th>>
    BY <2>1, Zenon
  <2>2. CASE <<s, b, uh>> = <<r, a, th>> /\ <<s, c, vh>> # <<r, a, th>>
    BY <2>2 DEF Stays
  <2>3. CASE <<s, b, uh>> # <<r, a, th>> /\ <<s, c, vh>> = <<r, a, th>>
    BY <2>3 DEF Stays
  <2>4. CASE <<s, b, uh>> # <<r, a, th>> /\ <<s, c, vh>> # <<r, a, th>>
    BY <2>4 DEF Stays, SInv, Exclusive
  <2> QED
    BY <2>1, <2>2, <2>3, <2>4, Zenon
<1>3. TransfersAreWhole'
  <2> SUFFICES ASSUME NEW s \in Rank, NEW p \in Rank, NEW b \in Actors,
                      NEW uh \in Holders(s, b)'
      PROVE  Whole(s, p, b, uh)'
    BY Zenon DEF TransfersAreWhole
  <2>1. CASE <<s, b, uh>> = <<r, a, th>>
    BY <2>1, Zenon
  <2>2. CASE <<s, b, uh>> # <<r, a, th>>
    <3>1. Stays(s, b, uh) /\ Unspoilt(s, b, uh)
      BY <2>2, Zenon
    <3>2. Whole(s, p, b, uh) /\ Moved(s, b, uh) \in Nat
      BY <3>1, Zenon DEF Stays, SInv, TransfersAreWhole, Threads, ThreadsOf,
         Holders
    <3>3. ASSUME Xfer(s, b, uh)'.dir = "send", Xfer(s, b, uh)'.peer = p
          PROVE  EndsWith(wire'[s][p], Moved(s, b, uh)',
                          Piece(CallOf(s, b)', Xfer(s, b, uh)'))
      <4>1. Xfer(s, b, uh).dir = "send" /\ Xfer(s, b, uh).peer = p
        BY <3>1, <3>3, Zenon DEF Stays
      <4>2. EndsWith(wire[s][p], Moved(s, b, uh), Piece(CallOf(s, b), Xfer(s, b, uh)))
        BY <3>2, <4>1, Zenon DEF Whole
      <4>3. EndsWith(wire'[s][p], Moved(s, b, uh), Piece(CallOf(s, b), Xfer(s, b, uh)))
        BY <3>1, <3>2, <4>1, <4>2, Zenon DEF Unspoilt
      <4> QED
        BY <3>1, <4>3, Zenon DEF Stays
    <3> QED
      BY <3>3, Zenon DEF Whole, EndsWith, Piece
  <2> QED
    BY <2>1, <2>2, Zenon
<1> QED
  BY <1>1, <1>2, <1>3, Zenon DEF SInv

\* All tasks but that of thread a of rank r stay as they are.
OthersStay(r, a) ==
  /\ prog' = prog
  /\ \A s \in Rank : \A b \in Actors :
       <<s, b>> # <<r, a>> => run'[s][b] = run[s][b]

\* ... and so do their threads.
LEMMA OtherThreads ==
  ASSUME SInv, NEW r \in Rank, NEW a \in Actors, OthersStay(r, a)
  PROVE  /\ \A s \in Rank : \A b \in Actors : <<s, b>> # <<r, a>> =>
              \A th \in Holders(s, b)' : Stays(s, b, th)
         /\ ThreadsOf(r, a)' => Threads'
<1>1. ASSUME NEW s \in Rank, NEW b \in Actors, <<s, b>> # <<r, a>>
      PROVE  /\ \A th \in Holders(s, b)' : Stays(s, b, th)
             /\ ThreadsOf(s, b)'
  <2>1. run'[s][b] = run[s][b] /\ prog' = prog
    BY <1>1, Zenon DEF OthersStay
  <2>2. \A th \in Holders(s, b)' : Stays(s, b, th)
    BY <2>1, SameTask, Zenon
  <2>3. /\ Busy(s, b)' <=> Busy(s, b)
        /\ \A th : Moved(s, b, th)' = Moved(s, b, th)
    BY <2>1, SameTask, Zenon
  <2>4. ThreadsOf(s, b)
    BY Zenon DEF SInv, Threads
  <2> QED
    BY <2>1, <2>2, <2>3, <2>4, Zenon DEF ThreadsOf
<1>2. ASSUME ThreadsOf(r, a)'
      PROVE  Threads'
  <2> SUFFICES ASSUME NEW s \in Rank, NEW b \in Actors
      PROVE  ThreadsOf(s, b)'
    BY Zenon DEF Threads
  <2>1. CASE <<s, b>> = <<r, a>>
    BY <1>2, <2>1, Zenon
  <2>2. CASE <<s, b>> # <<r, a>>
    BY <1>1, <2>2, Zenon
  <2> QED
    BY <2>1, <2>2, Zenon
<1> QED
  BY <1>1, <1>2, Zenon

\* The threads of task (r, a) are all out of their transfers afterwards; the
\* mutex of one of them may have been released, and the peers may have read.
LEMMA GoneStep ==
  ASSUME SInv, NEW r \in Rank, NEW a \in Actors, NEW th, OthersStay(r, a),
         Holders(r, a)' = {}, ThreadsOf(r, a)', Streams',
         \A s, p \in Rank : \A m \in Nat : \A y :
           EndsWith(wire[s][p], m, y) => EndsWith(wire'[s][p], m, y),
         \/ locked' = locked
         \/ /\ th \in Holders(r, a)
            /\ locked' = locked \ {MutexOf(r, Xfer(r, a, th))}
  PROVE  SInv'
<1>1. Threads'
  BY OtherThreads, Zenon
<1>2. ASSUME NEW s \in Rank, NEW b \in Actors, NEW uh \in Holders(s, b)'
      PROVE  /\ Stays(s, b, uh) /\ Unspoilt(s, b, uh)
             /\ MutexOf(s, Xfer(s, b, uh)) \in locked'
  <2>1. <<s, b>> # <<r, a>>
    BY <1>2, Zenon
  <2>2. Stays(s, b, uh)
    BY <2>1, OtherThreads, Zenon
  <2>3. MutexOf(s, Xfer(s, b, uh)) \in locked
    BY <2>2, Zenon DEF Stays, SInv, Locks
  <2>4. th \in Holders(r, a) =>
          MutexOf(s, Xfer(s, b, uh)) # MutexOf(r, Xfer(r, a, th))
    <3>1. s # r => MutexOf(s, Xfer(s, b, uh)) # MutexOf(r, Xfer(r, a, th))
      BY Zenon DEF MutexOf
    <3>2. s = r => b # a
      BY <2>1, Zenon
    <3> QED
      BY <2>2, <3>1, <3>2 DEF Stays, SInv, Exclusive
  <2> QED
    BY <2>2, <2>3, <2>4, Zenon DEF Unspoilt
<1>3. th \notin Holders(r, a)'
  OBVIOUS
<1> QED
  BY <1>1, <1>2, <1>3, OneMoves, Zenon

\* The threads of a stage that has just begun: none is inside a transfer.
Fresh(threads) ==
  \A th \in DOMAIN threads : /\ DOMAIN threads[th] = {"xfers", "moved"}
                             /\ threads[th].moved = NotHeld

LEMMA FreshThreads ==
  ASSUME NEW r, NEW a, run'[r][a] = Idle \/ Fresh(run'[r][a].thr)
  PROVE  Holders(r, a)' = {} /\ ThreadsOf(r, a)'
<1>1. CASE run'[r][a] = Idle
  <2>1. ~Busy(r, a)'
    BY <1>1, Zenon DEF Busy
  <2> QED
    BY <2>1, Zenon DEF Holders, ThreadsOf
<1>2. CASE Fresh(run'[r][a].thr)
  <2>1. \A th \in DOMAIN run'[r][a].thr :
          /\ DOMAIN run'[r][a].thr[th] = {"xfers", "moved"}
          /\ Moved(r, a, th)' = NotHeld
    BY <1>2, Zenon DEF Fresh, Moved
  <2> QED
    BY <2>1, Zenon DEF Holders, ThreadsOf
<1> QED
  BY <1>1, <1>2, Zenon

\* Threads are spawned, and tasks started, outside transfers.
LEMMA SpawnedFresh ==
  /\ \A stage : Fresh(Spawned(stage))
  /\ \A c, r, i : Fresh(Started(c, r, i).thr)
<1>1. ASSUME NEW stage PROVE Fresh(Spawned(stage))
  BY Zenon DEF Fresh, Spawned
<1>2. ASSUME NEW c, NEW r, NEW i PROVE Fresh(Started(c, r, i).thr)
  <2>1. Started(c, r, i).thr = IF Stages(c, r) = <<>> THEN <<>>
                               ELSE Spawned(Head(Stages(c, r)))
    BY Zenon DEF Started
  <2>2. Fresh(<<>>)
    BY DEF Fresh
  <2> QED
    BY <1>1, <2>1, <2>2, Zenon
<1> QED
  BY <1>1, <1>2, Zenon

\* A step that touches no task, no mutex and no stream.
LEMMA AsideStep ==
  ASSUME SInv, UNCHANGED <<prog, run, locked, wire>>
  PROVE  SInv'
<1>1. \A r, a : Busy(r, a)' <=> Busy(r, a)
  BY Zenon DEF Busy
<1>2. \A r, a, th : Moved(r, a, th)' = Moved(r, a, th)
  BY Zenon DEF Moved
<1>3. \A r, a : Holders(r, a)' = Holders(r, a)
  BY <1>1, <1>2, Zenon DEF Holders
<1>4. \A r, a, th : Xfer(r, a, th)' = Xfer(r, a, th)
  BY Zenon DEF Xfer
<1>5. \A r, a : CallOf(r, a)' = CallOf(r, a)
  BY Zenon DEF CallOf
<1>6. Threads'
  BY <1>1, <1>2, Zenon DEF SInv, Threads, ThreadsOf
<1>7. Locks' /\ Exclusive'
  BY <1>3, <1>4 DEF SInv, Locks, Exclusive, MutexOf
<1>8. TransfersAreWhole'
  BY <1>2, <1>3, <1>4, <1>5 DEF SInv, TransfersAreWhole, Whole, EndsWith, Piece
<1> QED
  BY <1>6, <1>7, <1>8, Zenon DEF SInv, Streams

\* A task begins.
LEMMA StartsStreams ==
  ASSUME IInv, SInv, NEW r \in Rank, NEW a \in Actors, NEW i \in Nat \ {0},
         Starts(r, a, i), UNCHANGED <<prog, locked, wire>>
  PROVE  SInv'
<1>1. /\ run'[r][a] = Started(prog[r][i], r, i)
      /\ \A s \in Rank : \A b \in Actors : <<s, b>> # <<r, a>> =>
           run'[s][b] = run[s][b] /\ CallAt(s, b)' = CallAt(s, b)
  BY StartsRun, Zenon DEF IInv
<1>2. OthersStay(r, a)
  BY <1>1, Zenon DEF OthersStay
<1>3. Fresh(run'[r][a].thr)
  BY <1>1, SpawnedFresh, ZenonT(30)
<1>4. Holders(r, a)' = {} /\ ThreadsOf(r, a)'
  BY <1>3, FreshThreads, Zenon
<1>5. Streams'
  BY Zenon DEF SInv, Streams
<1>6. \A s, p \in Rank : \A m \in Nat : \A y :
        EndsWith(wire[s][p], m, y) => EndsWith(wire'[s][p], m, y)
  BY Zenon DEF EndsWith
<1> QED
  BY <1>2, <1>4, <1>5, <1>6, GoneStep, Zenon

\* A task completes, and with it the transfer that thread th was in, if any.
LEMMA CompletedStreams ==
  ASSUME IInv, SInv, NEW r \in Rank, NEW a \in Actors, NEW ok \in BOOLEAN,
         NEW th, Completed(r, a, ok), prog' = prog, Streams',
         \A s, p \in Rank : \A m \in Nat : \A y :
           EndsWith(wire[s][p], m, y) => EndsWith(wire'[s][p], m, y),
         \/ locked' = locked
         \/ /\ th \in Holders(r, a)
            /\ locked' = locked \ {MutexOf(r, Xfer(r, a, th))}
  PROVE  SInv'
<1>1. /\ run'[r][a] = Idle
      /\ \A s \in Rank : \A b \in Actors :
           <<s, b>> # <<r, a>> => run'[s][b] = run[s][b]
  BY CompletedRun, ZenonT(30) DEF IInv
<1>2. OthersStay(r, a)
  BY <1>1, Zenon DEF OthersStay
<1>3. Holders(r, a)' = {} /\ ThreadsOf(r, a)'
  BY <1>1, FreshThreads, Zenon
<1> QED
  BY <1>2, <1>3, GoneStep, Zenon

\* Where thread th goes on as v, all others stay.
LEMMA MovesThreads ==
  ASSUME IInv, SInv, NEW r \in Rank, NEW a \in Actors, Busy(r, a),
         NEW th \in DOMAIN run[r][a].thr, NEW v, Moves(r, a, th, v), prog' = prog,
         DOMAIN v = {"xfers", "moved"}, v.moved \in Nat \cup {NotHeld}
  PROVE  /\ Threads'
         /\ \A s \in Rank : \A b \in Actors : \A uh \in Holders(s, b)' :
              <<s, b, uh>> # <<r, a, th>> => Stays(s, b, uh)
         /\ th \in Holders(r, a)' <=> v.moved # NotHeld
         /\ Xfer(r, a, th)' = Head(v.xfers)
         /\ Moved(r, a, th)' = v.moved
         /\ CallOf(r, a)' = CallOf(r, a)
<1>1. GoesOn(r, a) /\ Turns(r, a, th, v)
  BY MovesRun, Zenon DEF IInv
<1>2. OthersStay(r, a)
  BY <1>1, Zenon DEF GoesOn, OthersStay
<1>3. /\ DOMAIN run'[r][a].thr = DOMAIN run[r][a].thr
      /\ run'[r][a].thr[th] = v
      /\ \A uh \in DOMAIN run[r][a].thr :
           uh # th => run'[r][a].thr[uh] = run[r][a].thr[uh]
  BY <1>1, Zenon DEF Turns
<1>4. Busy(r, a)'
  <2>1. "left" \in DOMAIN run'[r][a] /\ "left" \notin DOMAIN Idle
    BY <1>1, Zenon DEF GoesOn, Idle
  <2> QED
    BY <2>1, Zenon DEF Busy
<1>5. CallOf(r, a)' = CallOf(r, a)
  BY <1>1, Zenon DEF GoesOn, CallOf
<1>6. /\ Xfer(r, a, th)' = Head(v.xfers) /\ Moved(r, a, th)' = v.moved
      /\ \A uh \in DOMAIN run[r][a].thr : uh # th =>
           Xfer(r, a, uh)' = Xfer(r, a, uh) /\ Moved(r, a, uh)' = Moved(r, a, uh)
  BY <1>3, Zenon DEF Xfer, Moved
<1>7. th \in Holders(r, a)' <=> v.moved # NotHeld
  BY <1>3, <1>4, <1>6, Zenon DEF Holders
<1>8. ThreadsOf(r, a)'
  <2>1. ThreadsOf(r, a)
    BY Zenon DEF SInv, Threads
  <2> SUFFICES ASSUME NEW uh \in DOMAIN run[r][a].thr
      PROVE  /\ DOMAIN run'[r][a].thr[uh] = {"xfers", "moved"}
             /\ Moved(r, a, uh)' \in Nat \cup {NotHeld}
    BY <1>3, Zenon DEF ThreadsOf, NotHeld
  <2>2. CASE uh = th
    BY <1>3, <1>6, <2>2, Zenon
  <2>3. CASE uh # th
    BY <1>3, <1>6, <2>1, <2>3, Zenon DEF ThreadsOf
  <2> QED
    BY <2>2, <2>3, Zenon
<1>9. Threads'
  BY <1>2, <1>8, OtherThreads, Zenon
<1>10. ASSUME NEW s \in Rank, NEW b \in Actors, NEW uh \in Holders(s, b)',
              <<s, b, uh>> # <<r, a, th>>
       PROVE  Stays(s, b, uh)
  <2>1. CASE <<s, b>> = <<r, a>>
    <3>1. s = r /\ b = a /\ uh # th
      BY <1>10, <2>1, Zenon
    <3>2. uh \in DOMAIN run[r][a].thr /\ Moved(r, a, uh)' # NotHeld
      BY <1>3, <1>4, <3>1, Zenon DEF Holders, NotHeld
    <3>3. uh \in Holders(r, a)
      BY <1>6, <3>1, <3>2, Zenon DEF Holders
    <3> QED
      BY <1>5, <1>6, <3>1, <3>2, <3>3, Zenon DEF Stays
  <2>2. CASE <<s, b>> # <<r, a>>
    BY <1>2, <2>2, OtherThreads, Zenon
  <2> QED
    BY <2>1, <2>2, Zenon
<1> QED
  BY <1>5, <1>6, <1>7, <1>9, <1>10, Zenon

\* A thread that holds its mutex is the only one of its rank that does.
LEMMA OnlyHolder ==
  ASSUME SInv, NEW r \in Rank, NEW a \in Actors, NEW th \in Holders(r, a),
         NEW s \in Rank, NEW b \in Actors, NEW uh \in Holders(s, b),
         <<s, b, uh>> # <<r, a, th>>
  PROVE  MutexOf(s, Xfer(s, b, uh)) # MutexOf(r, Xfer(r, a, th))
<1>1. s # r => MutexOf(s, Xfer(s, b, uh)) # MutexOf(r, Xfer(r, a, th))
  BY Zenon DEF MutexOf
<1>2. s = r => ~(b = a /\ uh = th)
  OBVIOUS
<1> QED
  BY <1>1, <1>2 DEF SInv, Exclusive

\* The lock_guard of PeerMesh::send and recv.
LEMMA AcquireStreams ==
  ASSUME IInv, SInv, NEW r \in Rank, NEW a \in Actors, NEW th, Acquire(r, a, th)
  PROVE  SInv'
<1> DEFINE x == Xfer(r, a, th)
           t == run[r][a].thr[th]
           v == Acquired(r, a, th, x)
<1>1. /\ Busy(r, a) /\ th \in DOMAIN run[r][a].thr
      /\ MutexOf(r, x) \notin locked
      /\ locked' = IF x.len > 0 THEN locked \cup {MutexOf(r, x)} ELSE locked
      /\ UNCHANGED <<prog, wire>>
  BY Zenon DEF Acquire, InXfer
<1>2. Moves(r, a, th, v)
  BY ThreadMoves, Zenon
<1>3. DOMAIN t = {"xfers", "moved"}
  BY <1>1, Zenon DEF SInv, Threads, ThreadsOf
<1>4. /\ DOMAIN v = {"xfers", "moved"}
      /\ x.len > 0 => v.moved = 0 /\ v.xfers = t.xfers
      /\ ~(x.len > 0) => v.moved = NotHeld
  <2>1. CASE x.len > 0
    BY <1>3, <2>1, Zenon DEF Acquired
  <2>2. CASE ~(x.len > 0)
    BY <2>2, Zenon DEF Acquired, Released
  <2> QED
    BY <2>1, <2>2, Zenon
<1>5. v.moved \in Nat \cup {NotHeld}
  BY <1>4
<1>6. x = Head(t.xfers)
  BY Zenon DEF Xfer
<1> HIDE DEF v, t, x
<1>7. /\ Threads'
      /\ \A s \in Rank : \A b \in Actors : \A uh \in Holders(s, b)' :
           <<s, b, uh>> # <<r, a, th>> => Stays(s, b, uh)
      /\ th \in Holders(r, a)' <=> v.moved # NotHeld
      /\ Xfer(r, a, th)' = Head(v.xfers)
      /\ Moved(r, a, th)' = v.moved
      /\ CallOf(r, a)' = CallOf(r, a)
  BY <1>1, <1>2, <1>4, <1>5, MovesThreads, Zenon
<1>8. th \in Holders(r, a)' => x.len > 0 /\ Xfer(r, a, th)' = x /\ Moved(r, a, th)' = 0
  BY <1>4, <1>6, <1>7, Zenon
<1>9. Streams'
  BY <1>1, Zenon DEF SInv, Streams
<1>10. ASSUME NEW s \in Rank, NEW b \in Actors, NEW uh \in Holders(s, b)',
              <<s, b, uh>> # <<r, a, th>>
       PROVE  /\ Stays(s, b, uh) /\ Unspoilt(s, b, uh)
              /\ MutexOf(s, Xfer(s, b, uh)) \in locked'
              /\ th \in Holders(r, a)' =>
                   MutexOf(s, Xfer(s, b, uh)) # MutexOf(r, Xfer(r, a, th)')
  <2>1. Stays(s, b, uh)
    BY <1>7, <1>10, Zenon
  <2>2. MutexOf(s, Xfer(s, b, uh)) \in locked
    BY <2>1, Zenon DEF Stays, SInv, Locks
  <2>3. Unspoilt(s, b, uh)
    BY <1>1, Zenon DEF Unspoilt, EndsWith
  <2> QED
    BY <1>1, <1>8, <2>1, <2>2, <2>3, Zenon
<1>11. ASSUME th \in Holders(r, a)'
       PROVE  /\ MutexOf(r, Xfer(r, a, th)') \in locked'
              /\ \A p \in Rank : Whole(r, p, a, th)'
  <2>1. MutexOf(r, Xfer(r, a, th)') \in locked'
    BY <1>1, <1>8, <1>11, Zenon
  <2>2. ASSUME NEW p \in Rank
        PROVE  Whole(r, p, a, th)'
    <3>1. PICK S : wire'[r][p] \in Seq(S)
      BY <1>9, Zenon DEF Streams
    <3>2. \A y : EndsWith(wire'[r][p], 0, y)
      BY <3>1, EndsWithFacts, Zenon
    <3> QED
      BY <1>8, <1>11, <3>2 DEF Whole, EndsWith, Piece
  <2> QED
    BY <2>1, <2>2, Zenon
<1> QED
  BY <1>7, <1>9, <1>10, <1>11, OneMoves, Zenon

\* Transfer x of rank r puts its next piece on its stream, or takes it off.
Flows(r, a, x) ==
  \/ /\ x.dir = "send"
     /\ wire' = WirePut(wire, r, x.peer, Piece(CallOf(r, a), x))
  \/ /\ x.dir = "recv" /\ CanRead(wire, x.peer, r)
     /\ wire' = WireDrop(wire, x.peer, r)

\* Only the stream of the transfer changes at its end.
LEMMA FlowsKeeps ==
  ASSUME SInv, NEW r \in Rank, NEW a \in Actors, NEW th \in Holders(r, a),
         Flows(r, a, Xfer(r, a, th)), CallOf(r, a)' = CallOf(r, a)
  PROVE  /\ Streams'
         /\ \A s \in Rank : \A b \in Actors : \A uh \in Holders(s, b) :
              <<s, b, uh>> # <<r, a, th>> => Unspoilt(s, b, uh)
         /\ Xfer(r, a, th)' = Xfer(r, a, th) /\ Moved(r, a, th)' = Moved(r, a, th) + 1
              => \A p \in Rank : Whole(r, p, a, th)'
<1> DEFINE x == Xfer(r, a, th)
           y == Piece(CallOf(r, a), x)
           m == Moved(r, a, th)
<1>1. Streams
  BY Zenon DEF SInv
<1>2. m \in Nat
  BY Zenon DEF SInv, Threads, ThreadsOf, Holders
<1>3. CASE x.dir = "send" /\ wire' = WirePut(wire, r, x.peer, y)
  <2>1. /\ Streams'
        /\ \A s, p \in Rank : <<s, p>> # <<r, x.peer>> => wire'[s][p] = wire[s][p]
        /\ \A s, p \in Rank : \A k \in Nat :
             <<s, p>> = <<r, x.peer>> /\ EndsWith(wire[s][p], k, y)
               => EndsWith(wire'[s][p], k + 1, y)
    <3> HIDE DEF x, y
    <3> QED
      BY <1>1, <1>3, PutKeeps, Zenon
  <2>2. ASSUME NEW s \in Rank, NEW b \in Actors, NEW uh \in Holders(s, b),
               <<s, b, uh>> # <<r, a, th>>
        PROVE  Unspoilt(s, b, uh)
    <3> SUFFICES ASSUME NEW p \in Rank, Xfer(s, b, uh).dir = "send",
                        Xfer(s, b, uh).peer = p
        PROVE  wire'[s][p] = wire[s][p]
      BY Zenon DEF Unspoilt
    <3>1. MutexOf(s, Xfer(s, b, uh)) # MutexOf(r, Xfer(r, a, th))
      BY <2>2, OnlyHolder, Zenon
    <3>2. <<s, p>> # <<r, x.peer>>
      BY <1>3, <3>1, Zenon DEF MutexOf
    <3> QED
      BY <2>1, <3>2, Zenon
  <2>3. ASSUME Xfer(r, a, th)' = x, Moved(r, a, th)' = m + 1, NEW p \in Rank
        PROVE  Whole(r, p, a, th)'
    <3> SUFFICES ASSUME x.peer = p
        PROVE  EndsWith(wire'[r][p], m + 1, y)
      BY <2>3, Zenon DEF Whole, EndsWith, Piece
    <3>1. EndsWith(wire[r][p], m, y)
      BY <1>3, Zenon DEF SInv, TransfersAreWhole, Whole
    <3> QED
      BY <1>2, <2>1, <3>1, Zenon
  <2> QED
    BY <2>1, <2>2, <2>3, Zenon
<1>4. CASE /\ x.dir = "recv" /\ CanRead(wire, x.peer, r)
           /\ wire' = WireDrop(wire, x.peer, r)
  <2>1. /\ Streams'
        /\ \A s, p \in Rank : \A k \in Nat : \A z :
             EndsWith(wire[s][p], k, z) => EndsWith(wire'[s][p], k, z)
    <3> HIDE DEF x
    <3> QED
      BY <1>1, <1>4, DropKeeps, Zenon
  <2>2. Xfer(r, a, th)' = x => \A p \in Rank : Whole(r, p, a, th)'
    BY <1>4, Zenon DEF Whole
  <2> QED
    BY <2>1, <2>2, Zenon DEF Unspoilt
<1> QED
  BY <1>3, <1>4, Zenon DEF Flows

\* One more piece of a transfer.
LEMMA AdvanceStreams ==
  ASSUME IInv, SInv, NEW r \in Rank, NEW a \in Actors, NEW th \in Holders(r, a),
         Advance(r, a, th, Xfer(r, a, th)), Flows(r, a, Xfer(r, a, th)), prog' = prog
  PROVE  SInv'
<1> DEFINE x == Xfer(r, a, th)
           t == run[r][a].thr[th]
           v == Advanced(r, a, th, x)
           last == Moved(r, a, th) + 1 = x.len
<1>1. /\ Busy(r, a) /\ th \in DOMAIN run[r][a].thr
      /\ DOMAIN t = {"xfers", "moved"} /\ Moved(r, a, th) \in Nat
  BY Zenon DEF Holders, SInv, Threads, ThreadsOf
<1>2. locked' = IF last THEN locked \ {MutexOf(r, x)} ELSE locked
  BY Zenon DEF Advance
<1>3. Moves(r, a, th, v)
  BY ThreadMoves, Zenon
<1>4. t.moved = Moved(r, a, th) /\ x = Head(t.xfers)
  BY Zenon DEF Moved, Xfer
<1>5. /\ DOMAIN v = {"xfers", "moved"}
      /\ last => v.moved = NotHeld
      /\ ~last => v.moved = Moved(r, a, th) + 1 /\ v.xfers = t.xfers
  <2>1. CASE last
    BY <2>1, Zenon DEF Advanced, Released
  <2>2. CASE ~last
    <3>1. v = [t EXCEPT !.moved = t.moved + 1]
      BY <2>2, Zenon DEF Advanced, Further
    <3> QED
      BY <1>1, <1>4, <2>2, <3>1, Zenon
  <2> QED
    BY <2>1, <2>2, Zenon
<1>6. v.moved \in Nat \cup {NotHeld} /\ (v.moved # NotHeld <=> ~last)
  <2>1. CASE last
    BY <1>5, <2>1, Zenon
  <2>2. CASE ~last
    <3>1. v.moved = Moved(r, a, th) + 1
      BY <1>5, <2>2, Zenon
    <3>2. Moved(r, a, th) + 1 \in Nat /\ Moved(r, a, th) + 1 # NotHeld
      BY <1>1 DEF NotHeld
    <3> QED
      BY <2>2, <3>1, <3>2, Zenon
  <2> QED
    BY <2>1, <2>2, Zenon
<1> HIDE DEF v, t, x, last
<1>7. /\ Threads'
      /\ \A s \in Rank : \A b \in Actors : \A uh \in Holders(s, b)' :
           <<s, b, uh>> # <<r, a, th>> => Stays(s, b, uh)
      /\ th \in Holders(r, a)' <=> v.moved # NotHeld
      /\ Xfer(r, a, th)' = Head(v.xfers)
      /\ Moved(r, a, th)' = v.moved
      /\ CallOf(r, a)' = CallOf(r, a)
  BY <1>1, <1>3, <1>5, <1>6, MovesThreads, Zenon
<1>8. th \in Holders(r, a)' => /\ ~last /\ Xfer(r, a, th)' = x
                               /\ Moved(r, a, th)' = Moved(r, a, th) + 1
  BY <1>4, <1>5, <1>6, <1>7, Zenon
<1>9. /\ Streams'
      /\ \A s \in Rank : \A b \in Actors : \A uh \in Holders(s, b) :
           <<s, b, uh>> # <<r, a, th>> => Unspoilt(s, b, uh)
      /\ Xfer(r, a, th)' = x /\ Moved(r, a, th)' = Moved(r, a, th) + 1
           => \A p \in Rank : Whole(r, p, a, th)'
  BY <1>7, FlowsKeeps, Zenon DEF x
<1>10. ASSUME NEW s \in Rank, NEW b \in Actors, NEW uh \in Holders(s, b)',
              <<s, b, uh>> # <<r, a, th>>
       PROVE  /\ Stays(s, b, uh) /\ Unspoilt(s, b, uh)
              /\ MutexOf(s, Xfer(s, b, uh)) \in locked'
              /\ th \in Holders(r, a)' =>
                   MutexOf(s, Xfer(s, b, uh)) # MutexOf(r, Xfer(r, a, th)')
  <2>1. Stays(s, b, uh) /\ uh \in Holders(s, b)
    BY <1>7, <1>10, Zenon DEF Stays
  <2>2. MutexOf(s, Xfer(s, b, uh)) \in locked
    BY <2>1, Zenon DEF SInv, Locks
  <2>3. MutexOf(s, Xfer(s, b, uh)) # MutexOf(r, x)
    BY <1>10, <2>1, OnlyHolder, Zenon DEF x
  <2> QED
    BY <1>2, <1>8, <1>9, <1>10, <2>1, <2>2, <2>3, Zenon
<1>11. MutexOf(r, x) \in locked
  BY Zenon DEF SInv, Locks, x
<1> QED
  BY <1>2, <1>7, <1>8, <1>9, <1>10, <1>11, OneMoves, Zenon

LEMMA ThreadStreams ==
  ASSUME IInv, SInv, NEW r \in Rank, NEW a \in Actors, NEW th, Thread(r, a, th)
  PROVE  SInv'
<1> DEFINE x == Xfer(r, a, th)
<1>1. CASE Acquire(r, a, th)
  BY <1>1, AcquireStreams, Zenon
<1>2. ASSUME InXfer(r, a, th), Moved(r, a, th) # NotHeld
      PROVE  th \in Holders(r, a)
  BY <1>2, Zenon DEF InXfer, Holders
<1>3. CASE SendPiece(r, a, th)
  <2>1. th \in Holders(r, a)
    BY <1>2, <1>3, Zenon DEF SendPiece
  <2>2. /\ Advance(r, a, th, x) /\ Flows(r, a, x) /\ prog' = prog
    BY <1>3, Zenon DEF SendPiece, Flows
  <2> QED
    BY <2>1, <2>2, AdvanceStreams, Zenon
<1>4. CASE RecvPiece(r, a, th)
  <2>1. th \in Holders(r, a)
    BY <1>2, <1>4, Zenon DEF RecvPiece
  <2>2. /\ Advance(r, a, th, x) /\ Flows(r, a, x) /\ prog' = prog
    BY <1>4, Zenon DEF RecvPiece, Flows
  <2> QED
    BY <2>1, <2>2, AdvanceStreams, Zenon
<1>5. CASE RecvHeader(r, a, th)
  <2>1. th \in Holders(r, a)
    BY <1>2, <1>5, Zenon DEF RecvHeader
  <2>2. /\ x.dir = "recv" /\ CanRead(wire, x.peer, r)
        /\ wire' = WireDrop(wire, x.peer, r) /\ prog' = prog
        /\ \/ Advance(r, a, th, x)
           \/ Completed(r, a, FALSE) /\ locked' = locked \ {MutexOf(r, x)}
    BY <1>5, Zenon DEF RecvHeader
  <2>3. CASE Advance(r, a, th, x)
    <3>1. Flows(r, a, x)
      BY <2>2, Zenon DEF Flows
    <3> QED
      BY <2>1, <2>2, <2>3, <3>1, AdvanceStreams, Zenon
  <2>4. CASE Completed(r, a, FALSE) /\ locked' = locked \ {MutexOf(r, x)}
    <3>1. /\ Streams'
          /\ \A s, p \in Rank : \A m \in Nat : \A y :
               EndsWith(wire[s][p], m, y) => EndsWith(wire'[s][p], m, y)
      <4>1. Streams
        BY Zenon DEF SInv
      <4> HIDE DEF x
      <4> QED
        BY <2>2, <4>1, DropKeeps, Zenon
    <3> QED
      BY <2>1, <2>2, <2>4, <3>1, CompletedStreams, Zenon
  <2> QED
    BY <2>2, <2>3, <2>4, Zenon
<1> QED
  BY <1>1, <1>3, <1>4, <1>5, Zenon DEF Thread

LEMMA EndStageStreams ==
  ASSUME IInv, SInv, NEW r \in Rank, NEW a \in Actors, EndStage(r, a)
  PROVE  SInv'
<1> DEFINE rest == Tail(run[r][a].left)
           next == [run[r][a] EXCEPT !.left = rest, !.thr = Spawned(Head(rest))]
<1>1. Busy(r, a) /\ UNCHANGED <<prog, locked, wire>>
  BY Zenon DEF EndStage, Joined
<1>2. DOMAIN run[r][a] = {"call", "left", "thr"}
  BY <1>1, Zenon DEF IInv, Tasks, Busy
<1>3. Streams'
  BY <1>1, Zenon DEF SInv, Streams
<1>4. \A s, p \in Rank : \A m \in Nat : \A y :
        EndsWith(wire[s][p], m, y) => EndsWith(wire'[s][p], m, y)
  BY <1>1, Zenon DEF EndsWith
<1>5. CASE rest # <<>>
  <2>1. run' = [run EXCEPT ![r][a] = next]
    BY <1>5, ZenonT(30) DEF EndStage
  <2>2. next.thr = Spawned(Head(rest))
    BY <1>2, Zenon
  <2> HIDE DEF next
  <2>3. /\ run'[r][a] = next
        /\ \A s \in Rank : \A b \in Actors :
             <<s, b>> # <<r, a>> => run'[s][b] = run[s][b]
    BY <2>1, Zenon DEF IInv, Types, Tasks
  <2>4. OthersStay(r, a)
    BY <1>1, <2>3, Zenon DEF OthersStay
  <2>5. Fresh(run'[r][a].thr)
    BY <2>2, <2>3, SpawnedFresh, Zenon
  <2>6. Holders(r, a)' = {} /\ ThreadsOf(r, a)'
    BY <2>5, FreshThreads, Zenon
  <2> QED
    BY <1>1, <1>3, <1>4, <2>4, <2>6, GoneStep, Zenon
<1>6. CASE rest = <<>>
  <2>1. Completed(r, a, TRUE)
    BY <1>6, Zenon DEF EndStage
  <2> QED
    BY <1>1, <1>3, <1>4, <2>1, CompletedStreams, Zenon
<1> QED
  BY <1>5, <1>6, Zenon

\* Every step keeps the invariant of the streams.
LEMMA NextSInv ==
  ASSUME IInv, SInv, [Next]_vars
  PROVE  SInv'
<1>1. "caller" \in Actors /\ "engine" \in Actors
  BY Zenon DEF Actors
<1>2. CASE UNCHANGED vars
  BY <1>2, AsideStep, Zenon DEF vars
<1>3. ASSUME NEW r \in Rank, Progress(r)
      PROVE  SInv'
  <2>1. CASE Submit(r) \/ Wait(r) \/ SetKey(r)
    BY <2>1, AsideStep, Zenon DEF Submit, Wait, SetKey
  <2>2. CASE CallAllreduce(r)
    <3>1. pc[r] \in Nat \ {0}
      BY CallsInRange DEF IInv
    <3>2. Starts(r, "caller", pc[r]) /\ UNCHANGED <<prog, locked, wire>>
      BY <2>2, Zenon DEF CallAllreduce, Starts
    <3> QED
      BY <1>1, <3>1, <3>2, StartsStreams, Zenon
  <2>3. CASE TakeTask(r)
    <3>1. /\ Starts(r, "engine", Head(q[r])) /\ UNCHANGED <<prog, locked, wire>>
          /\ q[r] # <<>>
      BY <2>3, Zenon DEF TakeTask, Starts
    <3>2. q[r] \in Seq(Nat) /\ pc[r] \in Nat
      BY Zenon DEF IInv, Types
    <3>3. 1 \in DOMAIN q[r] /\ Head(q[r]) = q[r][1]
      BY <3>1, <3>2
    <3>4. q[r][1] \in 1 .. pc[r] - 1
      BY <3>3, Zenon DEF IInv, Fifo
    <3>5. Head(q[r]) \in Nat \ {0}
      BY <3>2, <3>3, <3>4
    <3> QED
      BY <1>1, <3>1, <3>5, StartsStreams, Zenon
  <2>4. CASE PassBarrier(r)
    <3>1. Completed(r, "engine", TRUE) /\ UNCHANGED <<prog, locked, wire>>
      BY <2>4, Zenon DEF PassBarrier
    <3>2. Streams' /\ \A s, p \in Rank : \A m \in Nat : \A y :
            EndsWith(wire[s][p], m, y) => EndsWith(wire'[s][p], m, y)
      BY <3>1, Zenon DEF SInv, Streams, EndsWith
    <3> QED
      BY <1>1, <3>1, <3>2, CompletedStreams, Zenon
  <2>5. ASSUME NEW a \in Actors, EndStage(r, a)
        PROVE  SInv'
    BY <2>5, EndStageStreams, Zenon
  <2>6. ASSUME NEW a \in Actors, NEW th \in ThreadIds, Thread(r, a, th)
        PROVE  SInv'
    BY <2>6, ThreadStreams, Zenon
  <2> QED
    BY <1>3, <2>1, <2>2, <2>3, <2>4, <2>5, <2>6, Zenon DEF Progress, Issue
<1>4. ASSUME NEW r \in Rank, BarrierTimeout(r)
      PROVE  SInv'
  <2>1. Completed(r, "engine", FALSE) /\ UNCHANGED <<prog, locked, wire>>
    BY <1>4, Zenon DEF BarrierTimeout
  <2>2. Streams' /\ \A s, p \in Rank : \A m \in Nat : \A y :
          EndsWith(wire[s][p], m, y) => EndsWith(wire'[s][p], m, y)
    BY <2>1, Zenon DEF SInv, Streams, EndsWith
  <2> QED
    BY <1>1, <2>1, <2>2, CompletedStreams, Zenon
<1> QED
  BY <1>2, <1>3, <1>4, Zenon DEF Next, Terminating

\* The one mutex per peer and direction does for the two threads of a rank
\* what framing does elsewhere: whatever the callers do, what a transfer has
\* written is contiguous on its stream, and a rank never has two transfers
\* with one peer in one direction under way.
THEOREM WholeTransfers == Spec => [](Exclusive /\ TransfersAreWhole)
<1>1. ASSUME Init PROVE SInv
  <2>1. \A r \in Rank : \A a \in Actors : run[r][a] = Idle
    BY <1>1, Zenon DEF Init
  <2>2. \A r \in Rank : \A a \in Actors : ~Busy(r, a)
    BY <2>1, Zenon DEF Busy
  <2>3. \A r \in Rank : \A a \in Actors : Holders(r, a) = {} /\ ThreadsOf(r, a)
    BY <2>2, Zenon DEF Holders, ThreadsOf
  <2>4. Streams
    <3>1. wire = [s \in Rank |-> [t \in Rank |-> <<>>]]
      BY <1>1, Zenon DEF Init, EmptyWire
    <3>2. <<>> \in Seq(Nat)
      OBVIOUS
    <3> QED
      BY <3>1, <3>2, Zenon DEF Streams
  <2> QED
    BY <2>3, <2>4, Zenon DEF SInv, Threads, Locks, Exclusive, TransfersAreWhole
<1>2. SInv => Exclusive /\ TransfersAreWhole
  BY Zenon DEF SInv
<1> QED
  BY <1>1, <1>2, NextSInv, Invariant, PTL DEF Spec
=============================================================================
