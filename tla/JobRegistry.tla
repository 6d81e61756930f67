----------------------------- MODULE JobRegistry -----------------------------
(***************************************************************************)
(* Background jobs of the daemon: crates/snow_daemon/src/jobs.             *)
(*                                                                         *)
(* start_job inserts a job and its cancel token and spawns a worker task;  *)
(* the worker waits for the lock of its kind, runs, and records how it     *)
(* ended.  cancel_job runs beside it.  The registry's maps are behind      *)
(* tokio locks, and acquiring one may yield to other tasks, so finish() is *)
(* three steps (the job, the token, the retention sweep) and cancel() is   *)
(* three (the check, the token, the status).                               *)
(*                                                                         *)
(* A worker's context keeps its own clone of the token, so "fired" is the  *)
(* token's state and "tokens" the registry's map.  Log lines go with the   *)
(* progress reports and are left out.                                      *)
(***************************************************************************)
EXTENDS Naturals, Sequences, FiniteSets

CONSTANTS Jobs,          \* job ids
          Kinds,         \* job kinds
          Cancels,       \* cancel_job calls
          None,
          FinishedCap,   \* FINISHED_CAP
          Retention,     \* FINISHED_RETENTION_SECS
          MaxNow         \* bound on the clock

ASSUME JobAssumption ==
  /\ FinishedCap \in Nat
  /\ Retention \in Nat
  /\ MaxNow \in Nat
  /\ IsFiniteSet(Jobs)
  /\ None \notin Jobs \cup Kinds \cup Nat

VARIABLES now,
          jobs,     \* the registry's map; None when the id is not in it
          tokens,   \* ids in cancel_tokens
          fired,    \* tokens that were cancelled
          queue,    \* queue[kind]: holder of the kind's lock, then its waiters
          worker,   \* worker tasks
          cancels   \* cancel_job calls

vars == <<now, jobs, tokens, fired, queue, worker, cancels>>

Statuses == {"Pending", "Running", "Succeeded", "Failed", "Cancelled"}
Job == [kind: Kinds, status: Statuses, finished: Nat \cup {None},
        progress: {None, "starting", "complete"}, result: BOOLEAN, error: BOOLEAN]
Worker == [pc: {"none", "new", "waiting", "holding", "running", "ending", "recorded", "swept", "over"},
           kind: Kinds \cup {None}, end: Statuses \cup {None}, removed: SUBSET Jobs]
Finished(js) == {j \in Jobs : js[j] # None /\ js[j].finished # None}
Busy(j) == worker[j].pc \in {"holding", "running", "ending", "recorded", "swept"}

TypeOK ==
  /\ now \in Nat
  /\ jobs \in [Jobs -> Job \cup {None}]
  /\ tokens \subseteq Jobs
  /\ fired \subseteq Jobs
  /\ queue \in [Kinds -> Seq(Jobs)]
  /\ worker \in [Jobs -> Worker]
  /\ cancels \in [Cancels -> [pc: {"idle", "checked", "fired", "yes", "no"},
                              job: Jobs \cup {None}]]

Init ==
  /\ now = 0
  /\ jobs = [j \in Jobs |-> None]
  /\ tokens = {}
  /\ fired = {}
  /\ queue = [k \in Kinds |-> << >>]
  /\ worker = [j \in Jobs |-> [pc |-> "none", kind |-> None, end |-> None, removed |-> {}]]
  /\ cancels = [x \in Cancels |-> [pc |-> "idle", job |-> None]]

-----------------------------------------------------------------------------
(* spawn *)

\* insert: the job is visible before its token is registered.
Insert(j, k) ==
  /\ worker[j].pc = "none"
  /\ jobs' = [jobs EXCEPT ![j] = [kind |-> k, status |-> "Pending", finished |-> None,
                                  progress |-> None, result |-> FALSE, error |-> FALSE]]
  /\ worker' = [worker EXCEPT ![j].pc = "new", ![j].kind = k]
  /\ UNCHANGED <<now, tokens, fired, queue, cancels>>

\* register_token, kind_lock and spawn_local: the task queues for its kind.
Register(j) ==
  /\ worker[j].pc = "new"
  /\ tokens' = tokens \cup {j}
  /\ worker' = [worker EXCEPT ![j].pc = "waiting"]
  /\ queue' = [queue EXCEPT ![worker[j].kind] = Append(@, j)]
  /\ UNCHANGED <<now, jobs, fired, cancels>>

\* Variant with a fault: the kind's lock is not waited for.
AcquireUnlocked(j) ==
  /\ worker[j].pc = "waiting"
  /\ worker' = IF j \in fired THEN [worker EXCEPT ![j].pc = "ending", ![j].end = "Cancelled"]
                              ELSE [worker EXCEPT ![j].pc = "holding"]
  /\ UNCHANGED <<now, jobs, tokens, fired, queue, cancels>>

\* The kind lock is fair.  A job cancelled while it waited ends here.
Acquire(j) ==
  /\ worker[j].pc = "waiting"
  /\ Head(queue[worker[j].kind]) = j
  /\ worker' = IF j \in fired THEN [worker EXCEPT ![j].pc = "ending", ![j].end = "Cancelled"]
                              ELSE [worker EXCEPT ![j].pc = "holding"]
  /\ UNCHANGED <<now, jobs, tokens, fired, queue, cancels>>

\* mark_running, then run_kind reports its start.
MarkRunning(j) ==
  /\ worker[j].pc = "holding"
  /\ jobs' = IF jobs[j] = None THEN jobs
             ELSE [jobs EXCEPT ![j].status = IF @ = "Pending" THEN "Running" ELSE @,
                               ![j].progress = "starting"]
  /\ worker' = [worker EXCEPT ![j].pc = "running"]
  /\ UNCHANGED <<now, tokens, fired, queue, cancels>>

\* run_kind returns: an error, or a value, which a token that has fired by
\* then turns into Cancelled.  A worker that saw its token before the core
\* call returns without reporting completion.
RunEnds(j, ok) ==
  /\ worker[j].pc = "running"
  /\ worker' = [worker EXCEPT ![j].pc = "ending",
                              ![j].end = IF ~ok THEN "Failed"
                                         ELSE IF j \in fired THEN "Cancelled" ELSE "Succeeded"]
  /\ \/ jobs' = IF jobs[j] # None /\ ok THEN [jobs EXCEPT ![j].progress = "complete"] ELSE jobs
     \/ j \in fired /\ ok /\ jobs' = jobs
  /\ UNCHANGED <<now, tokens, fired, queue, cancels>>

-----------------------------------------------------------------------------
(* finish *)

\* Variant with a fault: the last writer wins.
FinishJobOverwrite(j) ==
  /\ worker[j].pc = "ending"
  /\ jobs' = IF jobs[j] = None THEN jobs
             ELSE [jobs EXCEPT ![j].status = worker[j].end, ![j].finished = now,
                               ![j].result = worker[j].end = "Succeeded",
                               ![j].error = worker[j].end = "Failed"]
  /\ worker' = [worker EXCEPT ![j].pc = "recorded"]
  /\ UNCHANGED <<now, tokens, fired, queue, cancels>>

\* A status of Cancelled is kept; time, result and error are overwritten.
FinishJob(j) ==
  /\ worker[j].pc = "ending"
  /\ jobs' = IF jobs[j] = None THEN jobs
             ELSE [jobs EXCEPT ![j].status = IF @ = "Cancelled" THEN @ ELSE worker[j].end,
                               ![j].finished = now,
                               ![j].result = worker[j].end = "Succeeded",
                               ![j].error = worker[j].end = "Failed"]
  /\ worker' = [worker EXCEPT ![j].pc = "recorded"]
  /\ UNCHANGED <<now, tokens, fired, queue, cancels>>

\* sweep_retention's choice: everything older than the retention, then the
\* oldest of the rest beyond the cap (ties in hash-map order).
TooOld(js) == {j \in Finished(js) : js[j].finished + Retention < now}

\* Variant with a fault: the cap is off by one.
SweepSetsLoose(js) ==
  LET rest == Finished(js) \ TooOld(js)
      excess == IF Cardinality(rest) > FinishedCap + 1 THEN Cardinality(rest) - FinishedCap - 1 ELSE 0
  IN {TooOld(js) \cup s : s \in {s \in SUBSET rest :
        /\ Cardinality(s) = excess
        /\ \A a \in s, b \in rest \ s : js[a].finished <= js[b].finished}}

SweepSets(js) ==
  LET rest == Finished(js) \ TooOld(js)
      excess == IF Cardinality(rest) > FinishedCap THEN Cardinality(rest) - FinishedCap ELSE 0
  IN {TooOld(js) \cup s : s \in {s \in SUBSET rest :
        /\ Cardinality(s) = excess
        /\ \A a \in s, b \in rest \ s : js[a].finished <= js[b].finished}}

\* cancel_tokens.remove(id), then the sweep under the jobs lock.
FinishSweep(j) ==
  /\ worker[j].pc = "recorded"
  /\ \E removed \in SweepSets(jobs) :
       /\ jobs' = [i \in Jobs |-> IF i \in removed THEN None ELSE jobs[i]]
       /\ worker' = [worker EXCEPT ![j].pc = "swept", ![j].removed = removed]
  /\ tokens' = tokens \ {j}
  /\ UNCHANGED <<now, fired, queue, cancels>>

\* Variant with a fault: the guard outlives the task.
FinishTokensHeld(j) ==
  /\ worker[j].pc = "swept"
  /\ tokens' = tokens \ worker[j].removed
  /\ worker' = [worker EXCEPT ![j].pc = "over", ![j].removed = {}]
  /\ UNCHANGED <<now, jobs, fired, queue, cancels>>

\* The tokens of the swept jobs go; the task ends and drops the kind lock.
FinishTokens(j) ==
  /\ worker[j].pc = "swept"
  /\ tokens' = tokens \ worker[j].removed
  /\ worker' = [worker EXCEPT ![j].pc = "over", ![j].removed = {}]
  /\ queue' = [queue EXCEPT ![worker[j].kind] = Tail(@)]
  /\ UNCHANGED <<now, jobs, fired, cancels>>

-----------------------------------------------------------------------------
(* cancel *)

CancelCheck(x, j) ==
  /\ cancels[x].pc = "idle"
  /\ cancels' = [cancels EXCEPT ![x] =
       [pc |-> IF jobs[j] # None /\ jobs[j].status \in {"Pending", "Running"}
                 THEN "checked" ELSE "no", job |-> j]]
  /\ UNCHANGED <<now, jobs, tokens, fired, queue, worker>>

CancelToken(x) ==
  LET j == cancels[x].job
  IN /\ cancels[x].pc = "checked"
     /\ IF j \in tokens /\ j \notin fired
          THEN fired' = fired \cup {j} /\ cancels' = [cancels EXCEPT ![x].pc = "fired"]
          ELSE fired' = fired /\ cancels' = [cancels EXCEPT ![x].pc = "no"]
     /\ UNCHANGED <<now, jobs, tokens, queue, worker>>

CancelStatus(x) ==
  LET j == cancels[x].job
  IN /\ cancels[x].pc = "fired"
     /\ jobs' = IF jobs[j] # None /\ jobs[j].status \in {"Pending", "Running"}
                  THEN [jobs EXCEPT ![j].status = "Cancelled", ![j].finished = now] ELSE jobs
     /\ cancels' = [cancels EXCEPT ![x].pc = "yes"]
     /\ UNCHANGED <<now, tokens, fired, queue, worker>>

Tick ==
  /\ now < MaxNow
  /\ now' = now + 1
  /\ UNCHANGED <<jobs, tokens, fired, queue, worker, cancels>>

Work(j) ==
  \/ Register(j)
  \/ Acquire(j)
  \/ MarkRunning(j)
  \/ \E ok \in BOOLEAN : RunEnds(j, ok)
  \/ FinishJob(j)
  \/ FinishSweep(j)
  \/ FinishTokens(j)

Cancel(x) == CancelToken(x) \/ CancelStatus(x)

Next ==
  \/ \E j \in Jobs, k \in Kinds : Insert(j, k)
  \/ \E j \in Jobs : Work(j)
  \/ \E x \in Cancels, j \in Jobs : CancelCheck(x, j)
  \/ \E x \in Cancels : Cancel(x)
  \/ Tick

Spec == Init /\ [][Next]_vars

\* The runtime polls every task that can run; core calls end.
FairSpec ==
  /\ Spec
  /\ \A j \in Jobs : WF_vars(Work(j))
  /\ \A x \in Cancels : WF_vars(Cancel(x))

-----------------------------------------------------------------------------
(* Properties *)

\* "Only one job of a given kind may be running at a time": two workers of one
\* kind are never both between the lock and its release.
KindExclusive ==
  \A i, j \in Jobs : Busy(i) /\ Busy(j) /\ worker[i].kind = worker[j].kind => i = j

\* The status of a job that ended never changes, whatever cancel and finish do
\* to each other; the job may only leave the registry.
EndIsFinal ==
  [][\A j \in Jobs : jobs[j] # None /\ jobs[j].status \in {"Succeeded", "Failed", "Cancelled"}
       => jobs'[j] = None \/ jobs'[j].status = jobs[j].status]_vars

\* When no worker is left, the registry holds at most FINISHED_CAP jobs, no
\* token, and no job that did not end, even though cancel() adds finished jobs
\* without sweeping.
QuietRegistryBounded ==
  (\A j \in Jobs : worker[j].pc \in {"none", "over"}) =>
    /\ Cardinality(Finished(jobs)) <= FinishedCap
    /\ tokens = {}
    /\ \A j \in Jobs : jobs[j] # None => jobs[j].finished # None

\* Every spawned job's worker ends and gives its kind's lock back, so waiting
\* jobs of the kind get their turn.
WorkersEnd == \A j \in Jobs : worker[j].pc # "none" ~> worker[j].pc = "over"

=============================================================================
