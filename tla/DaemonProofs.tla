----------------------------- MODULE DaemonProofs -----------------------------
(***************************************************************************)
(* Proofs about the daemon: its background jobs, and at the end of the     *)
(* module the life of its processes (DaemonLifecycle, as Life).            *)
(*                                                                         *)
(* JobRegistry is proved for any finite set of jobs and any kinds,         *)
(* cancel calls, cap and retention: type correctness, the exclusion of two *)
(* workers of one kind, the finality of a job's end, and the bound on the  *)
(* registry once no worker is left.                                        *)
(*                                                                         *)
(* Exclusion follows from the queue of the kind: a worker past the lock is *)
(* its head (QueueInv).  Finality and the bound follow from where a worker *)
(* may be when its job has an end (EndInv), and from the count of finished *)
(* jobs whose worker has swept (SweptInv): a cancel may add finished jobs  *)
(* without sweeping, but never one whose worker no longer will.            *)
(***************************************************************************)
EXTENDS JobRegistry, DaemonFiles, FiniteSetTheorems, TLAPS

USE JobAssumption

Past == {"holding", "running", "ending", "recorded", "swept"}
Ends == {"Succeeded", "Failed", "Cancelled"}

\* A job is in the queue of its kind until its worker is over, at the head once it has the lock.
QueueInv ==
  \A j \in Jobs : LET q == queue[worker[j].kind] IN
    /\ worker[j].pc # "none" => worker[j].kind \in Kinds
    /\ worker[j].pc \in Past \cup {"waiting"} => \E n \in 1 .. Len(q) : q[n] = j
    /\ worker[j].pc \in Past => q[1] = j

\* What the registry says of a job, by where its worker is.
EndInv ==
  \A j \in Jobs :
    /\ worker[j].pc = "none" => jobs[j] = None
    /\ worker[j].pc = "ending" => worker[j].end \in Ends
    /\ jobs[j] # None /\ jobs[j].status \in {"Succeeded", "Failed"}
         => worker[j].pc \in {"recorded", "swept", "over"}
    /\ jobs[j] # None /\ worker[j].pc \in {"recorded", "swept", "over"}
         => jobs[j].status \in Ends /\ jobs[j].finished # None

\* A token is registered before its job waits and removed by its job's own worker.
TokenInv == \A j \in tokens : worker[j].pc \in {"waiting", "holding", "running", "ending", "recorded"}

\* Finished jobs whose worker will not sweep any more.
Swept == {j \in Finished(jobs) : worker[j].pc \in {"swept", "over"}}
SweptInv == Cardinality(Swept) <= FinishedCap

-----------------------------------------------------------------------------
\* A sweep takes finished jobs, and as many as leave the cap.
LEMMA SweepPicks ==
  ASSUME NEW removed \in SweepSets(jobs)
  PROVE  /\ removed \subseteq Finished(jobs)
         /\ removed \subseteq Jobs
         /\ Cardinality(Finished(jobs) \ removed) <= FinishedCap
  <1> DEFINE rest == Finished(jobs) \ TooOld(jobs)
             excess == IF Cardinality(rest) > FinishedCap THEN Cardinality(rest) - FinishedCap ELSE 0
  <1>1. PICK s \in SUBSET rest : removed = TooOld(jobs) \cup s /\ Cardinality(s) = excess
    BY DEF SweepSets
  <1>2. TooOld(jobs) \subseteq Finished(jobs) /\ Finished(jobs) \subseteq Jobs
    BY DEF TooOld, Finished
  <1>3. IsFiniteSet(rest)
    BY <1>2, FS_Subset DEF JobAssumption
  <1>4. Cardinality(rest) \in Nat /\ IsFiniteSet(s) /\ Cardinality(s) \in Nat
    BY <1>3, <1>1, FS_Subset, FS_CardinalityType
  <1>5. Cardinality(rest \ s) = Cardinality(rest) - Cardinality(rest \cap s)
    BY <1>3, FS_Difference
  <1>6. rest \cap s = s /\ Finished(jobs) \ removed = rest \ s
    BY <1>1, <1>2
  <1>7. Cardinality(rest \ s) <= FinishedCap
    <2>1. Cardinality(rest \ s) = Cardinality(rest) - excess
      BY <1>1, <1>5, <1>6
    <2> QED BY <2>1, <1>4 DEF JobAssumption
  <1> QED BY <1>1, <1>2, <1>6, <1>7

\* The updates a worker and a job go through.
LEMMA WorkerTypes ==
  ASSUME worker \in [Jobs -> Worker], NEW j \in Jobs
  PROVE  /\ \A p \in {"waiting", "holding", "running", "recorded"} :
              [worker EXCEPT ![j].pc = p] \in [Jobs -> Worker]
         /\ \A k \in Kinds : [worker EXCEPT ![j].pc = "new", ![j].kind = k] \in [Jobs -> Worker]
         /\ \A e \in Statuses : [worker EXCEPT ![j].pc = "ending", ![j].end = e] \in [Jobs -> Worker]
         /\ \A R \in SUBSET Jobs : /\ [worker EXCEPT ![j].pc = "swept", ![j].removed = R] \in [Jobs -> Worker]
                                  /\ [worker EXCEPT ![j].pc = "over", ![j].removed = {}] \in [Jobs -> Worker]
  <1>1. worker[j] \in Worker
    OBVIOUS
  <1>2. \A p \in {"waiting", "holding", "running", "recorded"} : [worker[j] EXCEPT !.pc = p] \in Worker
    BY <1>1 DEF Worker
  <1>3. \A k \in Kinds : [worker[j] EXCEPT !.pc = "new", !.kind = k] \in Worker
    BY <1>1 DEF Worker
  <1>4. \A e \in Statuses : [worker[j] EXCEPT !.pc = "ending", !.end = e] \in Worker
    BY <1>1 DEF Worker
  <1>5. \A R \in SUBSET Jobs : /\ [worker[j] EXCEPT !.pc = "swept", !.removed = R] \in Worker
                              /\ [worker[j] EXCEPT !.pc = "over", !.removed = {}] \in Worker
    BY <1>1 DEF Worker
  <1>6. \A w \in Worker : [worker EXCEPT ![j] = w] \in [Jobs -> Worker]
    OBVIOUS
  <1> QED BY <1>2, <1>3, <1>4, <1>5, <1>6, Zenon

\* The job rows the registry writes are job rows.
LEMMA JobTypes ==
  ASSUME jobs \in [Jobs -> Job \cup {None}], NEW j \in Jobs, jobs[j] # None, now \in Nat
  PROVE  /\ \A st \in Statuses :
              [jobs EXCEPT ![j].status = st, ![j].progress = "starting"] \in [Jobs -> Job \cup {None}]
         /\ \A st \in Statuses :
              [jobs EXCEPT ![j].status = st, ![j].finished = now] \in [Jobs -> Job \cup {None}]
         /\ [jobs EXCEPT ![j].progress = "complete"] \in [Jobs -> Job \cup {None}]
         /\ \A st \in Statuses, r \in BOOLEAN, e \in BOOLEAN :
              [jobs EXCEPT ![j].status = st, ![j].finished = now, ![j].result = r, ![j].error = e]
                \in [Jobs -> Job \cup {None}]
  <1>1. jobs[j] \in Job
    OBVIOUS
  <1>2. \A st \in Statuses : /\ [jobs[j] EXCEPT !.status = st, !.progress = "starting"] \in Job
                            /\ [jobs[j] EXCEPT !.status = st, !.finished = now] \in Job
                            /\ [jobs[j] EXCEPT !.progress = "complete"] \in Job
    BY <1>1 DEF Job
  <1>3. \A st \in Statuses, r \in BOOLEAN, e \in BOOLEAN :
          [jobs[j] EXCEPT !.status = st, !.finished = now, !.result = r, !.error = e] \in Job
    BY <1>1 DEF Job
  <1>4. \A w \in Job : [jobs EXCEPT ![j] = w] \in [Jobs -> Job \cup {None}]
    OBVIOUS
  <1>5. [jobs[j] EXCEPT !.progress = "complete"] \in Job
    BY <1>1 DEF Job
  <1>6. \A st \in Statuses :
          /\ [jobs EXCEPT ![j].status = st, ![j].progress = "starting"] \in [Jobs -> Job \cup {None}]
          /\ [jobs EXCEPT ![j].status = st, ![j].finished = now] \in [Jobs -> Job \cup {None}]
    BY <1>2, <1>4, Zenon
  <1>7. \A st \in Statuses, r \in BOOLEAN, e \in BOOLEAN :
          [jobs EXCEPT ![j].status = st, ![j].finished = now, ![j].result = r, ![j].error = e]
            \in [Jobs -> Job \cup {None}]
    BY <1>3, <1>4, ZenonT(60)
  <1>8. [jobs EXCEPT ![j].progress = "complete"] \in [Jobs -> Job \cup {None}]
    BY <1>4, <1>5, Zenon
  <1> QED BY <1>6, <1>7, <1>8, Zenon

\* Every step of a worker or a cancel keeps the types.
LEMMA StepType == TypeOK /\ EndInv /\ QueueInv /\ [Next]_vars => TypeOK'
  <1> SUFFICES ASSUME TypeOK, EndInv, QueueInv, [Next]_vars PROVE TypeOK'
    OBVIOUS
  <1> USE DEF TypeOK
  <1>1. ASSUME NEW j \in Jobs, Register(j) PROVE TypeOK'
    <2>1. worker' \in [Jobs -> Worker]
      BY <1>1, WorkerTypes DEF Register
    <2>2. worker[j].kind \in Kinds
      BY <1>1 DEF Register, QueueInv
    <2>3. queue[worker[j].kind] \in Seq(Jobs)
      BY <2>2
    <2>4. Append(queue[worker[j].kind], j) \in Seq(Jobs)
      BY <2>3
    <2>5. queue' \in [Kinds -> Seq(Jobs)]
      BY <1>1, <2>2, <2>4 DEF Register
    <2> QED BY <1>1, <2>1, <2>5 DEF Register
  <1>2. ASSUME NEW j \in Jobs, Acquire(j) PROVE TypeOK'
    <2>1. worker' \in [Jobs -> Worker]
      BY <1>2, WorkerTypes DEF Acquire, Statuses
    <2> QED BY <1>2, <2>1 DEF Acquire
  <1>3. ASSUME NEW j \in Jobs, MarkRunning(j) PROVE TypeOK'
    <2>1. worker' \in [Jobs -> Worker]
      BY <1>3, WorkerTypes DEF MarkRunning
    <2>2. jobs' \in [Jobs -> Job \cup {None}]
      <3>1. CASE jobs[j] = None
        BY <1>3, <3>1 DEF MarkRunning
      <3>2. CASE jobs[j] # None
        <4> DEFINE st == IF jobs[j].status = "Pending" THEN "Running" ELSE jobs[j].status
        <4>1. st \in Statuses
          BY <3>2 DEF Job, Statuses
        <4>2. jobs' = [jobs EXCEPT ![j].status = st, ![j].progress = "starting"]
          BY <1>3, <3>2 DEF MarkRunning
        <4> HIDE DEF st
        <4> QED BY <3>2, <4>1, <4>2, JobTypes
      <3> QED BY <3>1, <3>2
    <2> QED BY <1>3, <2>1, <2>2 DEF MarkRunning
  <1>4. ASSUME NEW j \in Jobs, NEW ok \in BOOLEAN, RunEnds(j, ok) PROVE TypeOK'
    <2>1. worker' \in [Jobs -> Worker]
      <3> DEFINE e == IF ~ok THEN "Failed" ELSE IF j \in fired THEN "Cancelled" ELSE "Succeeded"
      <3>1. e \in Statuses
        BY DEF Statuses
      <3>2. worker' = [worker EXCEPT ![j].pc = "ending", ![j].end = e]
        BY <1>4 DEF RunEnds
      <3> HIDE DEF e
      <3> QED BY <3>1, <3>2, WorkerTypes
    <2>2. jobs' \in [Jobs -> Job \cup {None}]
      <3>1. \/ jobs' = jobs
            \/ jobs[j] # None /\ jobs' = [jobs EXCEPT ![j].progress = "complete"]
        BY <1>4 DEF RunEnds
      <3>2. CASE jobs' = jobs
        BY <3>2
      <3>3. CASE jobs[j] # None /\ jobs' = [jobs EXCEPT ![j].progress = "complete"]
        BY <3>3, JobTypes
      <3> QED BY <3>1, <3>2, <3>3
    <2> QED BY <1>4, <2>1, <2>2 DEF RunEnds
  <1>5. ASSUME NEW j \in Jobs, FinishJob(j) PROVE TypeOK'
    <2>1. worker' \in [Jobs -> Worker]
      BY <1>5, WorkerTypes DEF FinishJob
    <2>2. jobs' \in [Jobs -> Job \cup {None}]
      <3>1. CASE jobs[j] = None
        BY <1>5, <3>1 DEF FinishJob
      <3>2. CASE jobs[j] # None
        <4> DEFINE st == IF jobs[j].status = "Cancelled" THEN jobs[j].status ELSE worker[j].end
                   r == worker[j].end = "Succeeded"
                   e == worker[j].end = "Failed"
        <4>1. st \in Statuses /\ r \in BOOLEAN /\ e \in BOOLEAN
          BY <1>5, <3>2 DEF FinishJob, EndInv, Ends, Job, Statuses
        <4>2. jobs' = [jobs EXCEPT ![j].status = st, ![j].finished = now, ![j].result = r, ![j].error = e]
          BY <1>5, <3>2 DEF FinishJob
        <4> HIDE DEF st, r, e
        <4> QED BY <3>2, <4>1, <4>2, JobTypes
      <3> QED BY <3>1, <3>2
    <2> QED BY <1>5, <2>1, <2>2 DEF FinishJob
  <1>6. ASSUME NEW j \in Jobs, FinishSweep(j) PROVE TypeOK'
    <2>1. PICK removed \in SweepSets(jobs) :
            /\ jobs' = [i \in Jobs |-> IF i \in removed THEN None ELSE jobs[i]]
            /\ worker' = [worker EXCEPT ![j].pc = "swept", ![j].removed = removed]
      BY <1>6 DEF FinishSweep
    <2>2. removed \in SUBSET Jobs
      BY SweepPicks
    <2>3. worker' \in [Jobs -> Worker]
      BY <2>1, <2>2, WorkerTypes
    <2> QED BY <1>6, <2>1, <2>3 DEF FinishSweep
  <1>7. ASSUME NEW j \in Jobs, FinishTokens(j) PROVE TypeOK'
    <2>1. worker' \in [Jobs -> Worker]
      <3>1. {} \in SUBSET Jobs
        OBVIOUS
      <3> QED BY <1>7, <3>1, WorkerTypes DEF FinishTokens
    <2>2. worker[j].kind \in Kinds /\ queue[worker[j].kind] \in Seq(Jobs)
      BY <1>7 DEF FinishTokens, QueueInv
    <2>3. queue[worker[j].kind] # << >>
      <3>1. PICK n \in 1 .. Len(queue[worker[j].kind]) : queue[worker[j].kind][n] = j
        BY <1>7 DEF FinishTokens, QueueInv, Past
      <3> QED BY <3>1, <2>2
    <2>4. Tail(queue[worker[j].kind]) \in Seq(Jobs)
      BY <2>2, <2>3
    <2>5. queue' \in [Kinds -> Seq(Jobs)]
      BY <1>7, <2>2, <2>4 DEF FinishTokens
    <2> QED BY <1>7, <2>1, <2>5 DEF FinishTokens
  <1>8. ASSUME NEW j \in Jobs, NEW k \in Kinds, Insert(j, k) PROVE TypeOK'
    <2>1. worker' \in [Jobs -> Worker]
      BY <1>8, WorkerTypes DEF Insert
    <2>2. [kind |-> k, status |-> "Pending", finished |-> None, progress |-> None,
           result |-> FALSE, error |-> FALSE] \in Job
      BY DEF Job, Statuses
    <2> QED BY <1>8, <2>1, <2>2 DEF Insert
  <1>9. ASSUME NEW x \in Cancels, NEW j \in Jobs, CancelCheck(x, j) PROVE TypeOK'
    BY <1>9 DEF CancelCheck
  <1>10. ASSUME NEW x \in Cancels, CancelToken(x) PROVE TypeOK'
    <2>1. \A p \in {"fired", "no"} : [cancels[x] EXCEPT !.pc = p]
              \in [pc: {"idle", "checked", "fired", "yes", "no"}, job: Jobs \cup {None}]
      OBVIOUS
    <2>2. cancels' \in [Cancels -> [pc: {"idle", "checked", "fired", "yes", "no"}, job: Jobs \cup {None}]]
      BY <1>10, <2>1 DEF CancelToken
    <2>3. cancels[x].job \in tokens => cancels[x].job \in Jobs
      OBVIOUS
    <2> QED BY <1>10, <2>2, <2>3 DEF CancelToken
  <1>11. ASSUME NEW x \in Cancels, CancelStatus(x) PROVE TypeOK'
    <2>1. [cancels[x] EXCEPT !.pc = "yes"]
              \in [pc: {"idle", "checked", "fired", "yes", "no"}, job: Jobs \cup {None}]
      OBVIOUS
    <2>2. cancels' \in [Cancels -> [pc: {"idle", "checked", "fired", "yes", "no"}, job: Jobs \cup {None}]]
      BY <1>11, <2>1 DEF CancelStatus
    <2>3. jobs' \in [Jobs -> Job \cup {None}]
      <3> DEFINE j == cancels[x].job
      <3>1. CASE jobs' = jobs
        BY <3>1
      <3>2. CASE jobs' # jobs
        <4>1. jobs[j] # None /\ jobs' = [jobs EXCEPT ![j].status = "Cancelled", ![j].finished = now]
          BY <1>11, <3>2 DEF CancelStatus
        <4>2. CASE j \in Jobs
          BY <4>1, <4>2, JobTypes DEF Statuses
        <4>3. CASE j \notin Jobs
          BY <4>1, <4>3, <3>2
        <4> QED BY <4>2, <4>3
      <3> QED BY <3>1, <3>2
    <2> QED BY <1>11, <2>2, <2>3 DEF CancelStatus
  <1>12. CASE Tick
    BY <1>12 DEF Tick, JobAssumption
  <1>13. CASE UNCHANGED vars
    BY <1>13 DEF vars
  <1> HIDE DEF TypeOK
  <1> QED
    BY <1>1, <1>2, <1>3, <1>4, <1>5, <1>6, <1>7, <1>8, <1>9, <1>10, <1>11, <1>12, <1>13, Zenon
       DEF Next, Work, Cancel

\* The lock goes to the head of the queue, and only the head leaves it.
LEMMA QueueStep == TypeOK /\ QueueInv /\ [Next]_vars => QueueInv'
  <1> SUFFICES ASSUME TypeOK, QueueInv, [Next]_vars PROVE QueueInv'
    OBVIOUS
  <1> USE DEF TypeOK, QueueInv, Past
  <1>1. ASSUME NEW j \in Jobs, Register(j) PROVE QueueInv'
    <2> DEFINE k == worker[j].kind
               q == queue[k]
    <2>1. k \in Kinds /\ q \in Seq(Jobs)
      BY <1>1 DEF Register, Worker
    <2>2. worker' = [worker EXCEPT ![j].pc = "waiting"] /\ queue' = [queue EXCEPT ![k] = Append(q, j)]
      BY <1>1 DEF Register
    <2>3. queue'[k] = Append(q, j) /\ \A m \in Kinds \ {k} : queue'[m] = queue[m]
      BY <2>1, <2>2
    <2>4. /\ Len(queue'[k]) = Len(q) + 1 /\ Len(q) \in Nat
          /\ queue'[k][Len(q) + 1] = j
          /\ \A n \in 1 .. Len(q) : queue'[k][n] = q[n]
      BY <2>1, <2>3
    <2>5. \A i \in Jobs : worker'[i].kind = worker[i].kind /\ (i # j => worker'[i].pc = worker[i].pc)
      BY <2>2 DEF Worker
    <2>6. worker'[j].pc = "waiting"
      BY <2>2 DEF Worker
    <2> HIDE DEF k, q
    <2>7. \A i \in Jobs : worker[i].kind = k /\ worker[i].pc \in Past => 1 \in 1 .. Len(q)
      BY <2>4 DEF q, k
    <2>8. ASSUME NEW i \in Jobs, i # j, worker[i].kind = k
          PROVE  /\ worker[i].pc \in Past \cup {"waiting"} => \E n \in 1 .. Len(queue'[k]) : queue'[k][n] = i
                 /\ worker[i].pc \in Past => queue'[k][1] = i
      <3>1. worker[i].pc \in Past \cup {"waiting"} => \E n \in 1 .. Len(q) : q[n] = i
        BY <2>8 DEF q
      <3>2. worker[i].pc \in Past => q[1] = i
        BY <2>8 DEF q
      <3>3. 1 .. Len(q) \subseteq 1 .. Len(queue'[k])
        BY <2>4
      <3> QED BY <3>1, <3>2, <3>3, <2>4, <2>7, <2>8
    <2>9. \E n \in 1 .. Len(queue'[k]) : queue'[k][n] = j
      BY <2>4
    <2>10. ASSUME NEW i \in Jobs
           PROVE  LET p == queue'[worker'[i].kind] IN
                    /\ worker'[i].pc # "none" => worker'[i].kind \in Kinds
                    /\ worker'[i].pc \in Past \cup {"waiting"} => \E n \in 1 .. Len(p) : p[n] = i
                    /\ worker'[i].pc \in Past => p[1] = i
      <3>1. CASE i = j
        <4>1. worker'[i].kind = k /\ worker'[i].pc = "waiting"
          BY <3>1, <2>5, <2>6 DEF k
        <4> QED BY <3>1, <4>1, <2>1, <2>9
      <3>2. CASE i # j /\ worker[i].kind = k
        <4>1. worker'[i].kind = k /\ worker'[i].pc = worker[i].pc
          BY <3>2, <2>5
        <4> QED BY <3>2, <4>1, <2>1, <2>8
      <3>3. CASE i # j /\ worker[i].kind # k
        <4>1. worker[i].pc # "none" => queue'[worker'[i].kind] = queue[worker[i].kind]
          BY <3>3, <2>3, <2>5
        <4> QED BY <3>3, <4>1, <2>5
      <3> QED BY <3>1, <3>2, <3>3
    <2> QED BY <2>10
  <1>14. ASSUME NEW j \in Jobs, queue' = queue,
                \A i \in Jobs : worker'[i].kind = worker[i].kind /\ (i # j => worker'[i].pc = worker[i].pc),
                worker'[j].pc \in Past, worker[j].pc \in Past \cup {"waiting"},
                worker[j].pc = "waiting" => queue[worker[j].kind][1] = j
         PROVE  QueueInv'
    <2>1. ASSUME NEW i \in Jobs
          PROVE  LET p == queue'[worker'[i].kind] IN
                   /\ worker'[i].pc # "none" => worker'[i].kind \in Kinds
                   /\ worker'[i].pc \in Past \cup {"waiting"} => \E n \in 1 .. Len(p) : p[n] = i
                   /\ worker'[i].pc \in Past => p[1] = i
      <3>1. queue'[worker'[i].kind] = queue[worker[i].kind]
        BY <1>14
      <3>2. CASE i = j
        BY <1>14, <3>1, <3>2
      <3>3. CASE i # j
        BY <1>14, <3>1, <3>3
      <3> QED BY <3>2, <3>3
    <2> QED BY <2>1
  <1>2. ASSUME NEW j \in Jobs, Acquire(j) PROVE QueueInv'
    <2>1. queue' = queue /\ worker[j].pc = "waiting" /\ Head(queue[worker[j].kind]) = j
      BY <1>2 DEF Acquire
    <2>2. /\ \A i \in Jobs : worker'[i].kind = worker[i].kind /\ (i # j => worker'[i].pc = worker[i].pc)
          /\ worker'[j].pc \in {"ending", "holding"}
      BY <1>2 DEF Acquire, Worker
    <2>3. queue[worker[j].kind][1] = j
      <3>1. worker[j].kind \in Kinds /\ queue[worker[j].kind] \in Seq(Jobs)
        BY <2>1
      <3> QED BY <2>1, <3>1
    <2> QED BY <1>14, <2>1, <2>2, <2>3
  <1>3. ASSUME NEW j \in Jobs, MarkRunning(j) PROVE QueueInv'
    <2>1. /\ queue' = queue /\ worker[j].pc = "holding" /\ worker'[j].pc = "running"
          /\ \A i \in Jobs : worker'[i].kind = worker[i].kind /\ (i # j => worker'[i].pc = worker[i].pc)
      BY <1>3 DEF MarkRunning, Worker
    <2> QED BY <1>14, <2>1
  <1>4. ASSUME NEW j \in Jobs, NEW ok \in BOOLEAN, RunEnds(j, ok) PROVE QueueInv'
    <2>1. /\ queue' = queue /\ worker[j].pc = "running" /\ worker'[j].pc = "ending"
          /\ \A i \in Jobs : worker'[i].kind = worker[i].kind /\ (i # j => worker'[i].pc = worker[i].pc)
      BY <1>4 DEF RunEnds, Worker
    <2> QED BY <1>14, <2>1
  <1>5. ASSUME NEW j \in Jobs, FinishJob(j) PROVE QueueInv'
    <2>1. /\ queue' = queue /\ worker[j].pc = "ending" /\ worker'[j].pc = "recorded"
          /\ \A i \in Jobs : worker'[i].kind = worker[i].kind /\ (i # j => worker'[i].pc = worker[i].pc)
      BY <1>5 DEF FinishJob, Worker
    <2> QED BY <1>14, <2>1
  <1>6. ASSUME NEW j \in Jobs, FinishSweep(j) PROVE QueueInv'
    <2>1. /\ queue' = queue /\ worker[j].pc = "recorded" /\ worker'[j].pc = "swept"
          /\ \A i \in Jobs : worker'[i].kind = worker[i].kind /\ (i # j => worker'[i].pc = worker[i].pc)
      BY <1>6 DEF FinishSweep, Worker
    <2> QED BY <1>14, <2>1
  <1>7. ASSUME NEW j \in Jobs, FinishTokens(j) PROVE QueueInv'
    <2> DEFINE k == worker[j].kind
               q == queue[k]
    <2>1. k \in Kinds /\ q \in Seq(Jobs) /\ q[1] = j
      BY <1>7 DEF FinishTokens, Worker
    <2>2. worker' = [worker EXCEPT ![j].pc = "over", ![j].removed = {}] /\ queue' = [queue EXCEPT ![k] = Tail(q)]
      BY <1>7 DEF FinishTokens
    <2>3. queue'[k] = Tail(q) /\ \A m \in Kinds \ {k} : queue'[m] = queue[m]
      BY <2>1, <2>2
    <2>4. \E n \in 1 .. Len(q) : q[n] = j
      BY <1>7 DEF FinishTokens
    <2>5. /\ Len(queue'[k]) = Len(q) - 1 /\ Len(q) \in Nat
          /\ \A n \in 1 .. Len(q) - 1 : queue'[k][n] = q[n + 1]
      BY <2>1, <2>3, <2>4
    <2>6. \A i \in Jobs : worker'[i].kind = worker[i].kind /\ (i # j => worker'[i].pc = worker[i].pc)
      BY <2>2 DEF Worker
    <2>7. worker'[j].pc = "over"
      BY <2>2 DEF Worker
    <2> HIDE DEF k, q
    <2>8. ASSUME NEW i \in Jobs, i # j, worker[i].kind = k
          PROVE  /\ worker[i].pc = "waiting" => \E n \in 1 .. Len(queue'[k]) : queue'[k][n] = i
                 /\ worker[i].pc \notin Past
      <3>1. worker[i].pc \in Past => q[1] = i
        BY <2>8 DEF q
      <3>2. worker[i].pc \notin Past
        BY <3>1, <2>1, <2>8
      <3>3. ASSUME worker[i].pc = "waiting" PROVE \E n \in 1 .. Len(queue'[k]) : queue'[k][n] = i
        <4>1. PICK n \in 1 .. Len(q) : q[n] = i
          BY <2>8, <3>3 DEF q
        <4>2. n # 1
          BY <4>1, <2>1, <2>8
        <4>3. n - 1 \in 1 .. Len(queue'[k]) /\ queue'[k][n - 1] = i
          BY <4>1, <4>2, <2>5
        <4> QED BY <4>3
      <3> QED BY <3>2, <3>3
    <2>10. ASSUME NEW i \in Jobs
           PROVE  LET p == queue'[worker'[i].kind] IN
                    /\ worker'[i].pc # "none" => worker'[i].kind \in Kinds
                    /\ worker'[i].pc \in Past \cup {"waiting"} => \E n \in 1 .. Len(p) : p[n] = i
                    /\ worker'[i].pc \in Past => p[1] = i
      <3>1. CASE i = j
        <4>1. worker'[i].kind = k /\ worker'[i].pc = "over"
          BY <3>1, <2>6, <2>7 DEF k
        <4> QED BY <3>1, <4>1, <2>1
      <3>2. CASE i # j /\ worker[i].kind = k
        <4>1. worker'[i].kind = k /\ worker'[i].pc = worker[i].pc
          BY <3>2, <2>6
        <4> QED BY <3>2, <4>1, <2>1, <2>8
      <3>3. CASE i # j /\ worker[i].kind # k
        <4>1. worker[i].pc # "none" => queue'[worker'[i].kind] = queue[worker[i].kind]
          BY <3>3, <2>3, <2>6
        <4> QED BY <3>3, <4>1, <2>6
      <3> QED BY <3>1, <3>2, <3>3
    <2> QED BY <2>10
  <1>8. ASSUME NEW j \in Jobs, NEW k \in Kinds, Insert(j, k) PROVE QueueInv'
    BY <1>8 DEF Insert
  <1>9. ASSUME NEW x \in Cancels, NEW j \in Jobs, CancelCheck(x, j) PROVE QueueInv'
    BY <1>9 DEF CancelCheck
  <1>10. ASSUME NEW x \in Cancels, CancelToken(x) PROVE QueueInv'
    BY <1>10 DEF CancelToken
  <1>11. ASSUME NEW x \in Cancels, CancelStatus(x) PROVE QueueInv'
    BY <1>11 DEF CancelStatus
  <1>12. CASE Tick
    BY <1>12 DEF Tick
  <1>13. CASE UNCHANGED vars
    BY <1>13 DEF vars
  <1> HIDE DEF TypeOK, QueueInv, Past
  <1> QED
    BY <1>1, <1>2, <1>3, <1>4, <1>5, <1>6, <1>7, <1>8, <1>9, <1>10, <1>11, <1>12, <1>13, Zenon
       DEF Next, Work, Cancel

\* Only finish and cancel give a job its end.
LEMMA EndStep == TypeOK /\ EndInv /\ [Next]_vars => EndInv'
  <1> SUFFICES ASSUME TypeOK, EndInv, [Next]_vars PROVE EndInv'
    OBVIOUS
  <1> USE DEF TypeOK, Job, EndInv, Ends, Statuses
  <1>1. ASSUME NEW j \in Jobs, Register(j) PROVE EndInv'
    BY <1>1 DEF Register
  <1>2. ASSUME NEW j \in Jobs, Acquire(j) PROVE EndInv'
    BY <1>2 DEF Acquire
  <1>3. ASSUME NEW j \in Jobs, MarkRunning(j) PROVE EndInv'
    BY <1>3 DEF MarkRunning
  <1>4. ASSUME NEW j \in Jobs, NEW ok \in BOOLEAN, RunEnds(j, ok) PROVE EndInv'
    <2>1. \A i \in Jobs : i # j => worker'[i] = worker[i]
      BY <1>4 DEF RunEnds
    <2>2. worker'[j].pc = "ending" /\ worker'[j].end \in Ends
      BY <1>4 DEF RunEnds, Worker
    <2>3. \A i \in Jobs : jobs[i] = None => jobs'[i] = None
      BY <1>4 DEF RunEnds
    <2>4. \A i \in Jobs : jobs'[i] # None /\ jobs[i] # None
            => jobs'[i].status = jobs[i].status /\ jobs'[i].finished = jobs[i].finished
      BY <1>4 DEF RunEnds
    <2>5. worker[j].pc = "running"
      BY <1>4 DEF RunEnds
    <2> QED BY <2>1, <2>2, <2>3, <2>4, <2>5
  <1>5. ASSUME NEW j \in Jobs, FinishJob(j) PROVE EndInv'
    BY <1>5 DEF FinishJob
  <1>6. ASSUME NEW j \in Jobs, FinishSweep(j) PROVE EndInv'
    BY <1>6, SweepPicks DEF FinishSweep
  <1>7. ASSUME NEW j \in Jobs, FinishTokens(j) PROVE EndInv'
    BY <1>7 DEF FinishTokens
  <1>8. ASSUME NEW j \in Jobs, NEW k \in Kinds, Insert(j, k) PROVE EndInv'
    BY <1>8 DEF Insert
  <1>9. ASSUME NEW x \in Cancels, NEW j \in Jobs, CancelCheck(x, j) PROVE EndInv'
    BY <1>9 DEF CancelCheck
  <1>10. ASSUME NEW x \in Cancels, CancelToken(x) PROVE EndInv'
    BY <1>10 DEF CancelToken
  <1>11. ASSUME NEW x \in Cancels, CancelStatus(x) PROVE EndInv'
    BY <1>11 DEF CancelStatus
  <1>12. CASE Tick
    BY <1>12 DEF Tick
  <1>13. CASE UNCHANGED vars
    BY <1>13 DEF vars
  <1> HIDE DEF TypeOK, Job, EndInv, Ends, Statuses
  <1> QED
    BY <1>1, <1>2, <1>3, <1>4, <1>5, <1>6, <1>7, <1>8, <1>9, <1>10, <1>11, <1>12, <1>13, Zenon
       DEF Next, Work, Cancel

\* A worker removes its own token before it is over.
LEMMA TokenStep == TypeOK /\ TokenInv /\ [Next]_vars => TokenInv'
  <1> SUFFICES ASSUME TypeOK, TokenInv, [Next]_vars PROVE TokenInv'
    OBVIOUS
  <1> USE DEF TypeOK, TokenInv
  <1>1. ASSUME NEW j \in Jobs, Register(j) PROVE TokenInv'
    BY <1>1 DEF Register
  <1>2. ASSUME NEW j \in Jobs, Acquire(j) PROVE TokenInv'
    BY <1>2 DEF Acquire
  <1>3. ASSUME NEW j \in Jobs, MarkRunning(j) PROVE TokenInv'
    BY <1>3 DEF MarkRunning
  <1>4. ASSUME NEW j \in Jobs, NEW ok \in BOOLEAN, RunEnds(j, ok) PROVE TokenInv'
    BY <1>4 DEF RunEnds
  <1>5. ASSUME NEW j \in Jobs, FinishJob(j) PROVE TokenInv'
    BY <1>5 DEF FinishJob
  <1>6. ASSUME NEW j \in Jobs, FinishSweep(j) PROVE TokenInv'
    BY <1>6, SweepPicks DEF FinishSweep
  <1>7. ASSUME NEW j \in Jobs, FinishTokens(j) PROVE TokenInv'
    BY <1>7 DEF FinishTokens
  <1>8. ASSUME NEW j \in Jobs, NEW k \in Kinds, Insert(j, k) PROVE TokenInv'
    BY <1>8 DEF Insert
  <1>9. ASSUME NEW x \in Cancels, NEW j \in Jobs, CancelCheck(x, j) PROVE TokenInv'
    BY <1>9 DEF CancelCheck
  <1>10. ASSUME NEW x \in Cancels, CancelToken(x) PROVE TokenInv'
    BY <1>10 DEF CancelToken
  <1>11. ASSUME NEW x \in Cancels, CancelStatus(x) PROVE TokenInv'
    BY <1>11 DEF CancelStatus
  <1>12. CASE Tick
    BY <1>12 DEF Tick
  <1>13. CASE UNCHANGED vars
    BY <1>13 DEF vars
  <1> HIDE DEF TypeOK, TokenInv
  <1> QED
    BY <1>1, <1>2, <1>3, <1>4, <1>5, <1>6, <1>7, <1>8, <1>9, <1>10, <1>11, <1>12, <1>13, Zenon
       DEF Next, Work, Cancel

\* The count of finished jobs whose workers are done grows only with a sweep, which trims it.
LEMMA SweptStep == TypeOK /\ EndInv /\ SweptInv /\ [Next]_vars => SweptInv'
  <1> SUFFICES ASSUME TypeOK, EndInv, SweptInv, [Next]_vars PROVE SweptInv'
    OBVIOUS
  <1>0. IsFiniteSet(Swept) /\ Cardinality(Swept) \in Nat
    BY FS_Subset, FS_CardinalityType DEF Swept, Finished, JobAssumption
  <1>1. ASSUME NEW j \in Jobs, FinishSweep(j) PROVE SweptInv'
    <2>1. PICK removed \in SweepSets(jobs) : jobs' = [i \in Jobs |-> IF i \in removed THEN None ELSE jobs[i]]
      BY <1>1 DEF FinishSweep
    <2>2. Swept' \subseteq Finished(jobs) \ removed
      BY <2>1 DEF Swept, Finished
    <2>3. IsFiniteSet(Finished(jobs) \ removed)
      BY FS_Subset DEF Finished, JobAssumption
    <2>4. /\ Cardinality(Swept') <= Cardinality(Finished(jobs) \ removed)
          /\ Cardinality(Swept') \in Nat /\ Cardinality(Finished(jobs) \ removed) \in Nat
      BY <2>2, <2>3, FS_Subset, FS_CardinalityType
    <2>5. Cardinality(Finished(jobs) \ removed) <= FinishedCap
      BY SweepPicks
    <2>6. FinishedCap \in Nat
      BY DEF JobAssumption
    <2> QED BY <2>4, <2>5, <2>6 DEF SweptInv
  <1>2. ASSUME Swept' \subseteq Swept PROVE SweptInv'
    <2>1. Cardinality(Swept') <= Cardinality(Swept) /\ Cardinality(Swept') \in Nat
      BY <1>0, <1>2, FS_Subset, FS_CardinalityType
    <2> QED BY <1>0, <2>1 DEF SweptInv, JobAssumption
  <1>3. ASSUME NEW j \in Jobs, Register(j) PROVE Swept' \subseteq Swept
    BY <1>3 DEF Register, Swept, Finished, TypeOK, Worker, Job, EndInv, Ends
  <1>4. ASSUME NEW j \in Jobs, Acquire(j) PROVE Swept' \subseteq Swept
    BY <1>4 DEF Acquire, Swept, Finished, TypeOK, Worker, Job, EndInv, Ends
  <1>5. ASSUME NEW j \in Jobs, MarkRunning(j) PROVE Swept' \subseteq Swept
    BY <1>5 DEF MarkRunning, Swept, Finished, TypeOK, Worker, Job, EndInv, Ends
  <1>6. ASSUME NEW j \in Jobs, NEW ok \in BOOLEAN, RunEnds(j, ok) PROVE Swept' \subseteq Swept
    BY <1>6 DEF RunEnds, Swept, Finished, TypeOK, Worker, Job, EndInv, Ends
  <1>7. ASSUME NEW j \in Jobs, FinishJob(j) PROVE Swept' \subseteq Swept
    BY <1>7 DEF FinishJob, Swept, Finished, TypeOK, Worker, Job, EndInv, Ends
  <1>8. ASSUME NEW j \in Jobs, FinishTokens(j) PROVE Swept' \subseteq Swept
    BY <1>8 DEF FinishTokens, Swept, Finished, TypeOK, Worker, Job, EndInv, Ends
  <1>9. ASSUME NEW j \in Jobs, NEW k \in Kinds, Insert(j, k) PROVE Swept' \subseteq Swept
    BY <1>9 DEF Insert, Swept, Finished, TypeOK, Worker, Job, EndInv, Ends
  <1>10. ASSUME NEW x \in Cancels, NEW j \in Jobs, CancelCheck(x, j) PROVE Swept' \subseteq Swept
    BY <1>10 DEF CancelCheck, Swept, Finished, TypeOK, Worker, Job, EndInv, Ends
  <1>11. ASSUME NEW x \in Cancels, CancelToken(x) PROVE Swept' \subseteq Swept
    BY <1>11 DEF CancelToken, Swept, Finished, TypeOK, Worker, Job, EndInv, Ends
  <1>12. ASSUME NEW x \in Cancels, CancelStatus(x) PROVE Swept' \subseteq Swept
    BY <1>12 DEF CancelStatus, Swept, Finished, TypeOK, Worker, Job, EndInv, Ends
  <1>13. ASSUME Tick PROVE Swept' \subseteq Swept
    BY <1>13 DEF Tick, Swept, Finished, TypeOK, Worker, Job, EndInv, Ends
  <1>14. ASSUME UNCHANGED vars PROVE Swept' \subseteq Swept
    BY <1>14 DEF vars, Swept, Finished, TypeOK, Worker, Job, EndInv, Ends
  <1> QED
    BY <1>0, <1>1, <1>2, <1>3, <1>4, <1>5, <1>6, <1>7, <1>8, <1>9, <1>10, <1>11, <1>12, <1>13, <1>14, Zenon
       DEF Next, Work, Cancel

-----------------------------------------------------------------------------
\* Everything the argument carries from step to step.
IndInv == TypeOK /\ QueueInv /\ EndInv /\ TokenInv /\ SweptInv

\* An empty registry.
LEMMA InitInd == Init => IndInv
  <1> SUFFICES ASSUME Init PROVE IndInv
    OBVIOUS
  <1>1. worker \in [Jobs -> Worker]
    BY DEF Init, Worker
  <1>2. << >> \in Seq(Jobs)
    OBVIOUS
  <1>3. TypeOK
    BY <1>1, <1>2 DEF Init, TypeOK, Job
  <1>4. QueueInv /\ EndInv /\ TokenInv
    BY DEF Init, QueueInv, Past, EndInv, TokenInv
  <1>5. Swept = {}
    BY DEF Init, Swept, Finished
  <1>6. SweptInv
    BY <1>5, FS_EmptySet DEF SweptInv, JobAssumption
  <1> QED BY <1>3, <1>4, <1>6 DEF IndInv

\* The step lemmas together.
LEMMA StepInd == IndInv /\ [Next]_vars => IndInv'
  BY StepType, QueueStep, EndStep, TokenStep, SweptStep, Zenon DEF IndInv

\* The inductive invariant holds in every reachable state.
THEOREM Inductive == Spec => []IndInv
  BY InitInd, StepInd, PTL DEF Spec

\* Workers, cancels and the clock keep every component of the state well formed.
THEOREM TypeCorrect == Spec => []TypeOK
  <1>1. IndInv => TypeOK
    BY DEF IndInv
  <1> QED BY <1>1, Inductive, PTL

\* Two workers of one kind are never both past its lock.
THEOREM KindsExclude == Spec => []KindExclusive
  <1>1. IndInv => KindExclusive
    BY DEF IndInv, QueueInv, Past, KindExclusive, Busy
  <1> QED BY <1>1, Inductive, PTL

\* When no worker is left the registry is within its cap and holds no token.
THEOREM RegistryBounded == Spec => []QuietRegistryBounded
  <1>1. IndInv => QuietRegistryBounded
    <2> SUFFICES ASSUME IndInv, \A j \in Jobs : worker[j].pc \in {"none", "over"}
                 PROVE  /\ Cardinality(Finished(jobs)) <= FinishedCap
                        /\ tokens = {}
                        /\ \A j \in Jobs : jobs[j] # None => jobs[j].finished # None
      BY DEF QuietRegistryBounded
    <2>1. Swept = Finished(jobs)
      BY DEF IndInv, EndInv, Swept, Finished
    <2>2. tokens = {}
      BY DEF IndInv, TokenInv, TypeOK
    <2> QED BY <2>1, <2>2 DEF IndInv, EndInv, SweptInv
  <1> QED BY <1>1, Inductive, PTL

\* No step of finish or cancel changes the status of a job that ended.
LEMMA EndKept ==
  TypeOK /\ EndInv /\ [Next]_vars =>
    \A j \in Jobs : jobs[j] # None /\ jobs[j].status \in {"Succeeded", "Failed", "Cancelled"}
      => jobs'[j] = None \/ jobs'[j].status = jobs[j].status
  <1> SUFFICES ASSUME TypeOK, EndInv, [Next]_vars, NEW i \in Jobs,
                      jobs[i] # None, jobs[i].status \in {"Succeeded", "Failed", "Cancelled"}
               PROVE  jobs'[i] = None \/ jobs'[i].status = jobs[i].status
    OBVIOUS
  <1> DEFINE Kept == jobs'[i] = None \/ jobs'[i].status = jobs[i].status
  <1>1. ASSUME NEW j \in Jobs, Register(j) PROVE Kept
    BY <1>1 DEF Register, TypeOK, Job, EndInv, Ends
  <1>2. ASSUME NEW j \in Jobs, Acquire(j) PROVE Kept
    BY <1>2 DEF Acquire, TypeOK, Job, EndInv, Ends
  <1>3. ASSUME NEW j \in Jobs, MarkRunning(j) PROVE Kept
    BY <1>3 DEF MarkRunning, TypeOK, Job, EndInv, Ends
  <1>4. ASSUME NEW j \in Jobs, NEW ok \in BOOLEAN, RunEnds(j, ok) PROVE Kept
    <2>1. jobs'[i] # None => jobs'[i].status = jobs[i].status
      BY <1>4 DEF RunEnds, TypeOK, Job
    <2> QED BY <2>1
  <1>5. ASSUME NEW j \in Jobs, FinishJob(j) PROVE Kept
    BY <1>5 DEF FinishJob, TypeOK, Job, EndInv, Ends
  <1>6. ASSUME NEW j \in Jobs, FinishSweep(j) PROVE Kept
    BY <1>6 DEF FinishSweep, TypeOK, Job, EndInv, Ends
  <1>7. ASSUME NEW j \in Jobs, FinishTokens(j) PROVE Kept
    BY <1>7 DEF FinishTokens, TypeOK, Job, EndInv, Ends
  <1>8. ASSUME NEW j \in Jobs, NEW k \in Kinds, Insert(j, k) PROVE Kept
    BY <1>8 DEF Insert, TypeOK, Job, EndInv, Ends
  <1>9. ASSUME NEW x \in Cancels, NEW j \in Jobs, CancelCheck(x, j) PROVE Kept
    BY <1>9 DEF CancelCheck, TypeOK, Job, EndInv, Ends
  <1>10. ASSUME NEW x \in Cancels, CancelToken(x) PROVE Kept
    BY <1>10 DEF CancelToken, TypeOK, Job, EndInv, Ends
  <1>11. ASSUME NEW x \in Cancels, CancelStatus(x) PROVE Kept
    BY <1>11 DEF CancelStatus, TypeOK, Job, EndInv, Ends
  <1>12. CASE Tick
    BY <1>12 DEF Tick, TypeOK, Job, EndInv, Ends
  <1>13. CASE UNCHANGED vars
    BY <1>13 DEF vars, TypeOK, Job, EndInv, Ends
  <1> QED
    BY <1>1, <1>2, <1>3, <1>4, <1>5, <1>6, <1>7, <1>8, <1>9, <1>10, <1>11, <1>12, <1>13, Zenon
       DEF Next, Work, Cancel

\* The end of a job is final.
THEOREM EndsFinal == Spec => EndIsFinal
  <1>1. IndInv /\ [Next]_vars =>
          [\A j \in Jobs : jobs[j] # None /\ jobs[j].status \in {"Succeeded", "Failed", "Cancelled"}
             => jobs'[j] = None \/ jobs'[j].status = jobs[j].status]_vars
    BY EndKept DEF IndInv
  <1> QED BY <1>1, Inductive, PTL DEF Spec, EndIsFinal

-----------------------------------------------------------------------------
(* The life of the daemon processes, for any number of daemons, starts, clients
   and stops: type correctness, and that a daemon which ended by itself has left
   neither its socket nor its runtime files behind. *)
CONSTANTS Starts, Clients, Stops
VARIABLES pinned, notified, user, stop, conn

Life == INSTANCE DaemonLifecycle

\* None is no daemon (LifecycleAssumption of DaemonLifecycle).
NoneApart == None \notin Daemons

\* The path leads to a daemon that listens or was killed while it did, and the files
\* name a process that has not been through its own cleanup.
OwnerInv ==
  /\ \A d \in Daemons : sock = d => daemon[d] \in {"serving", "closing", "killed"}
  /\ \A d \in Daemons : files = d => daemon[d] # "exited"

UserRow == [pc: {"idle", "probe", "spawn", "wait", "connect", "reply", "done"},
            kind: {None, "start", "start_pinned", "request", "hold"}]
StopRow == [pc: {"idle", "probe", "reply", "waitdown", "term", "waitterm", "done"},
            pid: Daemons \cup {None}]
ConnRow == [at: Daemons, st: {"queued", "asked", "held"}] \cup {Life!NoConn}

\* Connections that end leave every row well formed (CutFrom).
LEMMA CutTypes ==
  ASSUME Life!TypeOK, NEW d, NEW k, Life!CutFrom(d, k)
  PROVE  /\ user' \in [Life!Users -> UserRow] /\ stop' \in [Stops -> StopRow]
         /\ conn' \in [Life!Peers -> ConnRow]
  <1>1. Life!Over \in UserRow /\ Life!Stopped \in StopRow /\ Life!NoConn \in ConnRow
    BY DEF Life!Over, UserRow, Life!Stopped, StopRow, ConnRow
  <1>2. user \in [Life!Users -> UserRow] /\ stop \in [Stops -> StopRow] /\ conn \in [Life!Peers -> ConnRow]
    BY DEF Life!TypeOK, UserRow, StopRow, ConnRow
  <1>3. \A s \in Stops : [stop[s] EXCEPT !.pc = "waitdown"] \in StopRow
    BY <1>2 DEF StopRow
  <1> QED BY <1>1, <1>2, <1>3 DEF Life!CutFrom

\* A progress step of a user or a stop, and a connection that begins or ends.
LEMMA RowTypes ==
  ASSUME Life!TypeOK
  PROVE  /\ \A u \in Life!Users : \A pc \in {"probe", "spawn", "wait", "connect", "reply", "done"} :
              Life!Go(u, pc) => user' \in [Life!Users -> UserRow]
         /\ \A u \in Life!Users : Life!Finish(u) => user' \in [Life!Users -> UserRow]
         /\ \A s \in Stops : \A pc \in {"probe", "reply", "waitdown", "term", "waitterm", "done"} :
              Life!Step(s, pc) => stop' \in [Stops -> StopRow]
         /\ \A s \in Stops : Life!End(s) => stop' \in [Stops -> StopRow]
         /\ \A x \in Life!Peers : conn' = [conn EXCEPT ![x] = Life!NoConn] => conn' \in [Life!Peers -> ConnRow]
         /\ \A x \in Life!Peers : sock \in Daemons /\ Life!Queue(x) => conn' \in [Life!Peers -> ConnRow]
  <1>1. \A u \in Life!Users : \A pc \in {"probe", "spawn", "wait", "connect", "reply", "done"} :
          Life!Go(u, pc) => user' \in [Life!Users -> UserRow]
    <2>1. user \in [Life!Users -> UserRow]
      BY DEF Life!TypeOK, UserRow
    <2>2. \A row \in UserRow : \A pc \in {"probe", "spawn", "wait", "connect", "reply", "done"} :
            [row EXCEPT !.pc = pc] \in UserRow
      BY DEF UserRow
    <2>3. ASSUME NEW u \in Life!Users, NEW pc \in {"probe", "spawn", "wait", "connect", "reply", "done"}, Life!Go(u, pc)
          PROVE  user' \in [Life!Users -> UserRow]
      <3>1. [user[u] EXCEPT !.pc = pc] \in UserRow
        BY <2>1, <2>2
      <3>2. user' = [user EXCEPT ![u] = [user[u] EXCEPT !.pc = pc]]
        BY <2>3 DEF Life!Go
      <3> QED BY <2>1, <3>1, <3>2
    <2> QED BY <2>3
  <1>2. \A u \in Life!Users : Life!Finish(u) => user' \in [Life!Users -> UserRow]
    BY DEF Life!TypeOK, UserRow, Life!Over, Life!Finish
  <1>3. \A s \in Stops : \A pc \in {"probe", "reply", "waitdown", "term", "waitterm", "done"} :
          Life!Step(s, pc) => stop' \in [Stops -> StopRow]
    <2>1. stop \in [Stops -> StopRow]
      BY DEF Life!TypeOK, StopRow
    <2>2. \A row \in StopRow : \A pc \in {"probe", "reply", "waitdown", "term", "waitterm", "done"} :
            [row EXCEPT !.pc = pc] \in StopRow
      BY DEF StopRow
    <2>3. ASSUME NEW s \in Stops, NEW pc \in {"probe", "reply", "waitdown", "term", "waitterm", "done"}, Life!Step(s, pc)
          PROVE  stop' \in [Stops -> StopRow]
      <3>1. [stop[s] EXCEPT !.pc = pc] \in StopRow
        BY <2>1, <2>2
      <3>2. stop' = [stop EXCEPT ![s] = [stop[s] EXCEPT !.pc = pc]]
        BY <2>3 DEF Life!Step
      <3> QED BY <2>1, <3>1, <3>2
    <2> QED BY <2>3
  <1>4. \A s \in Stops : Life!End(s) => stop' \in [Stops -> StopRow]
    BY DEF Life!TypeOK, StopRow, Life!Stopped, Life!End
  <1>5. \A x \in Life!Peers : conn' = [conn EXCEPT ![x] = Life!NoConn] => conn' \in [Life!Peers -> ConnRow]
    BY DEF Life!TypeOK, ConnRow
  <1>6. \A x \in Life!Peers : sock \in Daemons /\ Life!Queue(x) => conn' \in [Life!Peers -> ConnRow]
    BY DEF Life!TypeOK, ConnRow, Life!Queue
  <1> QED BY <1>1, <1>2, <1>3, <1>4, <1>5, <1>6

\* What a live endpoint is (endpoint_alive).
LEMMA AliveDaemon == Life!TypeOK /\ Life!Alive => sock \in Daemons
  BY DEF Life!TypeOK, Life!Alive

\* The stretches of the daemon process keep the types (server.rs, serve.rs).
LEMMA DaemonTypes == Life!TypeOK /\ (\E d \in Daemons : Life!DaemonStep(d)) => Life!TypeOK'
  <1> SUFFICES ASSUME Life!TypeOK, NEW d \in Daemons, Life!DaemonStep(d) PROVE Life!TypeOK'
    OBVIOUS
  <1>1. CASE Life!Drain(d)
    <2>1. /\ user' \in [Life!Users -> UserRow] /\ stop' \in [Stops -> StopRow]
          /\ conn' \in [Life!Peers -> ConnRow]
      BY <1>1, CutTypes DEF Life!Drain
    <2> QED BY <1>1, <2>1 DEF Life!Drain, Life!TypeOK, UserRow, StopRow, ConnRow
  <1>2. CASE Life!WriteFiles(d) \/ Life!BootFails(d) \/ Life!PrepareListener(d) \/ Life!Bind(d)
    BY <1>2 DEF Life!WriteFiles, Life!BootFails, Life!PrepareListener, Life!Bind, Life!TypeOK
  <1>3. CASE Life!IdleMonitor(d) \/ Life!LeaveLoop(d) \/ Life!CleanupListener(d) \/ Life!Exit(d)
    BY <1>3 DEF Life!IdleMonitor, Life!LeaveLoop, Life!CleanupListener, Life!Exit, Life!TypeOK, Life!Ended
  <1> QED BY <1>1, <1>2, <1>3 DEF Life!DaemonStep

\* The connections keep the types (handle_connection).
LEMMA ConnTypes ==
  Life!TypeOK /\ ((\E x \in Life!Peers : Life!ConnStep(x)) \/ (\E c \in Clients : Life!Release(c))) => Life!TypeOK'
  <1> SUFFICES ASSUME Life!TypeOK, (\E x \in Life!Peers : Life!ConnStep(x)) \/ (\E c \in Clients : Life!Release(c))
               PROVE  Life!TypeOK'
    OBVIOUS
  <1>1. ASSUME NEW x \in Life!Peers, Life!Accept(x) PROVE Life!TypeOK'
    <2>1. conn[x] \in [at: Daemons, st: {"queued", "asked", "held"}]
      BY <1>1 DEF Life!Accept, Life!TypeOK, Life!NoConn
    <2> QED BY <1>1, <2>1 DEF Life!Accept, Life!TypeOK
  <1>2. ASSUME NEW x \in Life!Peers, Life!Respond(x) PROVE Life!TypeOK'
    <2>1. conn' \in [Life!Peers -> ConnRow]
      BY <1>2, RowTypes DEF Life!Respond
    <2>2. CASE x \in Stops
      <3>1. stop' \in [Stops -> StopRow] /\ user' = user
        BY <1>2, <2>2, RowTypes DEF Life!Respond, Life!Step
      <3> QED BY <1>2, <2>1, <2>2, <3>1 DEF Life!Respond, Life!TypeOK, StopRow, ConnRow
    <2>3. CASE x \notin Stops
      <3>1. user' \in [Life!Users -> UserRow] /\ stop' = stop
        BY <1>2, <2>3, RowTypes DEF Life!Respond, Life!Finish, Life!Peers, Life!Users
      <3> QED BY <1>2, <2>1, <2>3, <3>1 DEF Life!Respond, Life!TypeOK, UserRow, ConnRow
    <2> QED BY <2>2, <2>3
  <1>3. ASSUME NEW c \in Clients, Life!Release(c) PROVE Life!TypeOK'
    <2>1. user' \in [Life!Users -> UserRow] /\ conn' \in [Life!Peers -> ConnRow]
      BY <1>3, RowTypes DEF Life!Release, Life!Finish, Life!Peers, Life!Users
    <2> QED BY <1>3, <2>1 DEF Life!Release, Life!TypeOK, UserRow, ConnRow
  <1> QED BY <1>1, <1>2, <1>3 DEF Life!ConnStep

\* The commands that start keep the types (start.rs, tui_client.rs).
LEMMA UserTypes ==
  Life!TypeOK /\ (\E u \in Life!Users : Life!UserStep(u) \/ \E kind \in Life!Kinds(u) : Life!Begin(u, kind)) => Life!TypeOK'
  <1> SUFFICES ASSUME Life!TypeOK, NEW u \in Life!Users, Life!UserStep(u) \/ \E kind \in Life!Kinds(u) : Life!Begin(u, kind)
               PROVE  Life!TypeOK'
    OBVIOUS
  <1>1. ASSUME user' \in [Life!Users -> UserRow], conn' \in [Life!Peers -> ConnRow],
               UNCHANGED <<pinned, notified, sock, stop>>, daemon' = daemon, files' \in {files, None}
        PROVE  Life!TypeOK'
    BY <1>1 DEF Life!TypeOK, UserRow, ConnRow
  <1>2. user \in [Life!Users -> UserRow] /\ conn \in [Life!Peers -> ConnRow]
    BY DEF Life!TypeOK, UserRow, ConnRow
  <1>3. ASSUME NEW kind \in Life!Kinds(u), Life!Begin(u, kind) PROVE Life!TypeOK'
    <2>1. kind \in {"start", "start_pinned", "request", "hold"}
      BY DEF Life!Kinds
    <2>2. \A pc \in {"probe", "reply"} : [user EXCEPT ![u].pc = pc, ![u].kind = kind] \in [Life!Users -> UserRow]
      BY <1>2, <2>1 DEF UserRow
    <2>3. conn' \in [Life!Peers -> ConnRow]
      BY <1>2, <1>3, RowTypes, AliveDaemon DEF Life!Begin, Life!Peers
    <2> QED BY <1>1, <1>3, <2>2, <2>3 DEF Life!Begin
  <1>4. CASE Life!Probe(u)
    <2>1. user' \in [Life!Users -> UserRow]
      BY <1>4, RowTypes DEF Life!Probe, Life!IsUp
    <2> QED BY <1>1, <1>2, <1>4, <2>1 DEF Life!Probe
  <1>5. CASE Life!SpawnFails(u)
    <2>1. user' \in [Life!Users -> UserRow]
      BY <1>5, RowTypes DEF Life!SpawnFails
    <2> QED BY <1>1, <1>2, <1>5, <2>1 DEF Life!SpawnFails
  <1>6. CASE Life!Wait(u)
    <2>1. user' \in [Life!Users -> UserRow]
      BY <1>6, RowTypes DEF Life!Wait, Life!IsUp
    <2> QED BY <1>1, <1>2, <1>6, <2>1 DEF Life!Wait
  <1>7. CASE Life!Connect(u)
    <2>1. user' \in [Life!Users -> UserRow]
      BY <1>7, RowTypes DEF Life!Connect
    <2>2. u \in Life!Peers => conn' \in [Life!Peers -> ConnRow]
      BY <1>2, <1>7, RowTypes, AliveDaemon DEF Life!Connect
    <2>3. u \notin Life!Peers => conn' = conn
      BY <1>7 DEF Life!Connect, Life!Queue, Life!TypeOK
    <2> QED BY <1>1, <1>2, <1>7, <2>1, <2>2, <2>3 DEF Life!Connect
  <1>8. ASSUME NEW d \in Daemons, Life!Spawn(u, d) PROVE Life!TypeOK'
    <2>1. user' \in [Life!Users -> UserRow]
      BY <1>8, RowTypes DEF Life!Spawn, Life!Go
    <2> QED BY <1>8, <2>1 DEF Life!Spawn, Life!TypeOK, UserRow
  <1> QED BY <1>3, <1>4, <1>5, <1>6, <1>7, <1>8 DEF Life!UserStep

\* The stop command keeps the types (stop.rs).
LEMMA StopTypes == Life!TypeOK /\ (\E s \in Stops : Life!ReadPid(s) \/ Life!StopStep(s)) => Life!TypeOK'
  <1> SUFFICES ASSUME Life!TypeOK, NEW s \in Stops, Life!ReadPid(s) \/ Life!StopStep(s) PROVE Life!TypeOK'
    OBVIOUS
  <1>1. stop \in [Stops -> StopRow] /\ conn \in [Life!Peers -> ConnRow] /\ s \in Life!Peers
    BY DEF Life!TypeOK, StopRow, ConnRow, Life!Peers
  <1>2. CASE Life!ReadPid(s)
    <2>1. stop' \in [Stops -> StopRow]
      <3>1. files \in Daemons \cup {None}
        BY DEF Life!TypeOK
      <3>2. [stop[s] EXCEPT !.pc = "probe", !.pid = files] \in StopRow
        BY <1>1, <3>1 DEF StopRow
      <3>3. stop' = [stop EXCEPT ![s] = [stop[s] EXCEPT !.pc = "probe", !.pid = files]]
        BY <1>1, <1>2 DEF Life!ReadPid
      <3> QED BY <1>1, <3>2, <3>3
    <2> QED BY <1>2, <2>1 DEF Life!ReadPid, Life!TypeOK, StopRow
  <1>3. CASE Life!ProbeStop(s)
    <2>1. stop' \in [Stops -> StopRow]
      BY <1>3, RowTypes DEF Life!ProbeStop
    <2>2. conn' \in [Life!Peers -> ConnRow]
      BY <1>1, <1>3, RowTypes, AliveDaemon DEF Life!ProbeStop
    <2> QED BY <1>3, <2>1, <2>2 DEF Life!ProbeStop, Life!TypeOK, StopRow, ConnRow
  <1>4. CASE Life!WaitDown(s)
    <2>1. stop' \in [Stops -> StopRow]
      BY <1>4, RowTypes DEF Life!WaitDown
    <2> QED BY <1>4, <2>1 DEF Life!WaitDown, Life!TypeOK, StopRow
  <1>5. CASE Life!Terminate(s)
    <2>1. stop' \in [Stops -> StopRow]
      BY <1>5, RowTypes DEF Life!Terminate
    <2>2. /\ daemon' \in {daemon, [daemon EXCEPT ![stop[s].pid] = "killed"]}
          /\ notified' \in {notified, [notified EXCEPT ![stop[s].pid] = TRUE]}
      BY <1>5 DEF Life!Terminate
    <2> QED BY <1>5, <2>1, <2>2 DEF Life!Terminate, Life!TypeOK, StopRow, Life!Ended
  <1>6. CASE Life!WaitTerm(s)
    <2>1. CASE UNCHANGED <<conn, user>>
      <3>1. stop' \in [Stops -> StopRow]
        BY <1>6, <2>1, CutTypes, RowTypes DEF Life!WaitTerm
      <3> QED BY <1>6, <2>1, <3>1 DEF Life!WaitTerm, Life!TypeOK, StopRow, Life!Ended
    <2>2. CASE Life!CutFrom(stop[s].pid, s)
      <3>1. /\ user' \in [Life!Users -> UserRow] /\ stop' \in [Stops -> StopRow]
            /\ conn' \in [Life!Peers -> ConnRow]
        BY <2>2, CutTypes
      <3> QED BY <1>6, <3>1 DEF Life!WaitTerm, Life!TypeOK, UserRow, StopRow, ConnRow, Life!Ended
    <2> QED BY <1>6, <2>1, <2>2 DEF Life!WaitTerm
  <1> QED BY <1>2, <1>3, <1>4, <1>5, <1>6 DEF Life!StopStep

\* Every step keeps the types.
LEMMA LifeStepTypes == Life!TypeOK /\ [Life!Next]_(Life!vars) => Life!TypeOK'
  <1> SUFFICES ASSUME Life!TypeOK, [Life!Next]_(Life!vars) PROVE Life!TypeOK'
    OBVIOUS
  <1>1. CASE UNCHANGED Life!vars
    BY <1>1 DEF Life!vars, Life!TypeOK
  <1> QED BY <1>1, DaemonTypes, ConnTypes, UserTypes, StopTypes DEF Life!Next

\* Only Bind points the path at a daemon, only WriteFiles names one, and both come before
\* the daemon's own cleanup; a kill needs neither.
LEMMA LifeStep == NoneApart /\ Life!TypeOK /\ OwnerInv /\ [Life!Next]_(Life!vars) => OwnerInv'
  <1> SUFFICES ASSUME NoneApart, Life!TypeOK, OwnerInv, [Life!Next]_(Life!vars) PROVE OwnerInv'
    OBVIOUS
  <1>1. ASSUME NEW d \in Daemons, Life!DaemonStep(d) PROVE OwnerInv'
    <2>1. CASE Life!WriteFiles(d) \/ Life!BootFails(d) \/ Life!PrepareListener(d) \/ Life!Bind(d)
      BY <2>1 DEF NoneApart, Life!WriteFiles, Life!BootFails, Life!PrepareListener, Life!Bind, OwnerInv, Life!TypeOK
    <2>2. CASE Life!IdleMonitor(d) \/ Life!LeaveLoop(d) \/ Life!CleanupListener(d)
      BY <2>2 DEF NoneApart, Life!IdleMonitor, Life!LeaveLoop, Life!CleanupListener, OwnerInv, Life!TypeOK
    <2>3. CASE Life!Drain(d) \/ Life!Exit(d)
      BY <2>3 DEF NoneApart, Life!Drain, Life!Exit, OwnerInv, Life!TypeOK
    <2> QED BY <1>1, <2>1, <2>2, <2>3 DEF Life!DaemonStep
  <1>2. ASSUME UNCHANGED <<daemon, sock>>, files' \in {files, None} PROVE OwnerInv'
    BY <1>2 DEF NoneApart, OwnerInv
  <1>3. ASSUME NEW x \in Life!Peers, Life!ConnStep(x) PROVE OwnerInv'
    BY <1>2, <1>3 DEF Life!ConnStep, Life!Accept, Life!Respond
  <1>4. ASSUME NEW c \in Clients, Life!Release(c) PROVE OwnerInv'
    BY <1>2, <1>4 DEF Life!Release
  <1>5. ASSUME NEW u \in Life!Users, Life!UserStep(u) \/ \E kind \in Life!Kinds(u) : Life!Begin(u, kind) PROVE OwnerInv'
    <2>1. ASSUME NEW d \in Daemons, Life!Spawn(u, d) PROVE OwnerInv'
      BY <2>1 DEF NoneApart, Life!Spawn, OwnerInv, Life!TypeOK
    <2>2. CASE Life!Probe(u) \/ Life!SpawnFails(u) \/ Life!Wait(u) \/ Life!Connect(u) \/ \E kind \in Life!Kinds(u) : Life!Begin(u, kind)
      BY <1>2, <2>2 DEF Life!Probe, Life!SpawnFails, Life!Wait, Life!Connect, Life!Begin
    <2> QED BY <1>5, <2>1, <2>2 DEF Life!UserStep
  <1>6. ASSUME NEW s \in Stops, Life!ReadPid(s) \/ Life!StopStep(s) PROVE OwnerInv'
    <2>1. CASE Life!ReadPid(s) \/ Life!ProbeStop(s) \/ Life!WaitDown(s)
      BY <1>2, <2>1 DEF Life!ReadPid, Life!ProbeStop, Life!WaitDown
    <2>2. CASE Life!Terminate(s)
      BY <2>2 DEF NoneApart, Life!Terminate, OwnerInv, Life!TypeOK
    <2>3. CASE Life!WaitTerm(s)
      BY <2>3 DEF NoneApart, Life!WaitTerm, OwnerInv, Life!TypeOK
    <2> QED BY <1>6, <2>1, <2>2, <2>3 DEF Life!StopStep
  <1>7. CASE UNCHANGED Life!vars
    BY <1>2, <1>7 DEF Life!vars
  <1> QED BY <1>1, <1>3, <1>4, <1>5, <1>6, <1>7 DEF Life!Next

\* No daemon, no files.
LEMMA LifeInit == Life!Init => Life!TypeOK /\ (NoneApart => OwnerInv)
  <1>1. Life!Init => Life!TypeOK
    BY DEF Life!Init, Life!TypeOK, Life!IdleUser, Life!IdleStop, Life!NoConn, Life!Ended
  <1>2. Life!Init /\ NoneApart => OwnerInv
    BY DEF NoneApart, Life!Init, OwnerInv
  <1> QED BY <1>1, <1>2

\* Processes, commands and connections keep their types.
THEOREM LifeTypes == Life!Spec => []Life!TypeOK
  <1>1. Life!Init => Life!TypeOK
    BY LifeInit
  <1>2. Life!TypeOK /\ [Life!Next]_(Life!vars) => Life!TypeOK'
    BY LifeStepTypes
  <1> QED BY <1>1, <1>2, PTL DEF Life!Spec

\* cleanup_listener and cleanup_runtime_files_for_current_process leave nothing of a daemon
\* that ended by itself.
THEOREM ExitsClean == NoneApart => (Life!Spec => []CleanExit)
  <1> SUFFICES ASSUME NoneApart PROVE Life!Spec => []CleanExit
    OBVIOUS
  <1>1. Life!Init => Life!TypeOK /\ OwnerInv
    BY LifeInit
  <1>2. Life!TypeOK /\ OwnerInv /\ [Life!Next]_(Life!vars) => (Life!TypeOK /\ OwnerInv)'
    BY LifeStepTypes, LifeStep
  <1>3. Life!TypeOK /\ OwnerInv => CleanExit
    BY DEF OwnerInv, CleanExit
  <1> QED BY <1>1, <1>2, <1>3, PTL DEF Life!Spec
===============================================================================
