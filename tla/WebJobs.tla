------------------------------ MODULE WebJobs ------------------------------
(***************************************************************************)
(* The background jobs of the web server (td_webserver.py): long snapshot  *)
(* refreshes, health processing and device actions.  All of it runs on one *)
(* asyncio event loop, so a step here is what the loop runs between two    *)
(* suspension points: a request handler, one resumption of a job's task, a *)
(* done callback, or one pass of the cleanup loop.  The clients, the       *)
(* clock and the td_cli subprocesses are the environment.                  *)
(***************************************************************************)
EXTENDS Naturals, Sequences, SequencesExt, FiniteSets

CONSTANTS Files,      \* snapshot filenames refreshed by long jobs
          Datasets,   \* datasets a health job can process
          Devices,    \* device actions, by what they target
          SourceOf,   \* the source lock each of them takes: action_args[0]
          MaxJobs,    \* bound on the jobs ever created
          MaxAged,    \* bound on those of them that outlive the TTL
          None

Targets == Files \cup Datasets \cup Devices
Sources == {SourceOf[t] : t \in Targets}
JobIds  == 1..MaxJobs

\* What the constants satisfy.
JobsAssumption ==
    /\ MaxJobs \in Nat /\ MaxAged \in Nat
    /\ None \notin JobIds \cup Targets
    /\ Files \cap Datasets = {} /\ Files \cap Devices = {} /\ Datasets \cap Devices = {}

VARIABLES created,   \* how many jobs were created; their ids are 1..created
          target,    \* what each job works on
          status,    \* the status the registry reports, "evicted" once removed
          task,      \* where the job's coroutine is suspended
          cancels,   \* the jobs whose task has a CancelledError pending
          process,   \* the td_cli subprocess of each job
          holder,    \* the job inside each source lock
          waiters,   \* the jobs queued on each source lock
          runtime,   \* the jobs with a runtime handle
          healthJob, \* the job registered for each dataset
          aged       \* history: the jobs created more than a TTL ago

registry == <<created, target>>
vars == <<created, target, status, task, cancels, process, holder, waiters,
          runtime, healthJob, aged>>

Live     == {"running", "cancelling"}
Terminal == {"cancelled", "done", "error"}
Settled  == Terminal \cup {"evicted"}

SourceOfJob(j) == SourceOf[target[j]]

Init ==
    /\ created = 0
    /\ target = [j \in JobIds |-> None]
    /\ status = [j \in JobIds |-> "none"]
    /\ task = [j \in JobIds |-> "none"]
    /\ cancels = {}
    /\ process = [j \in JobIds |-> "none"]
    /\ holder = [s \in Sources |-> None]
    /\ waiters = [s \in Sources |-> <<>>]
    /\ runtime = {}
    /\ healthJob = [d \in Datasets |-> None]
    /\ aged = {}

-----------------------------------------------------------------------------
(* Requests that create jobs *)

\* The request joins a job that is already there and creates none.
Duplicate(t) ==
    \/ /\ t \in Files
       /\ \E j \in JobIds : target[j] = t /\ status[j] = "running"
    \/ /\ t \in Datasets
       /\ healthJob[t] # None
       /\ status[healthJob[t]] \in Live

Submit(t) ==
    /\ created < MaxJobs
    /\ ~Duplicate(t)
    /\ created' = created + 1
    /\ target' = [target EXCEPT ![created'] = t]
    /\ status' = [status EXCEPT ![created'] = "running"]
    /\ task' = [task EXCEPT ![created'] = "created"]
    /\ runtime' = runtime \cup {created'}
    /\ healthJob' = [d \in Datasets |-> IF d = t THEN created' ELSE healthJob[d]]
    /\ UNCHANGED <<cancels, process, holder, waiters, aged>>

-----------------------------------------------------------------------------
(* The end of a job's task: the status it writes, and what it gives back *)

\* The status when td_cli exited, by exit code and by what is read from it.
ReturnStatuses(j) ==
    IF target[j] \in Devices \/ status[j] # "cancelling" THEN {"done", "error"}
    ELSE IF target[j] \in Files THEN {"cancelled", "error"}
    ELSE {"cancelled"}

\* The status when a CancelledError leaves the task.
CancelledStatus(j) ==
    IF target[j] \in Files /\ status[j] # "cancelling" THEN status[j] ELSE "cancelled"

\* The rest of the coroutine runs: status, finally blocks, release of the lock.
End(j, newStatus) ==
    /\ status' = [status EXCEPT ![j] = newStatus]
    /\ task' = [task EXCEPT ![j] = "over"]
    /\ cancels' = cancels \ {j}
    /\ healthJob' = [d \in Datasets |-> IF d = target[j] THEN None ELSE healthJob[d]]

Release(j) ==
    holder' = [s \in Sources |-> IF holder[s] = j THEN None ELSE holder[s]]

-----------------------------------------------------------------------------
(* A job's task, up to its subprocess *)

\* The task has the source lock: the recheck of its status, then the spawn.
Locked(j) ==
    IF status[j] \in {"evicted", "cancelling"}
    THEN /\ End(j, IF status[j] = "evicted" THEN "evicted" ELSE "cancelled")
         /\ UNCHANGED <<process, holder>>
    ELSE /\ holder' = [holder EXCEPT ![SourceOfJob(j)] = j]
         /\ process' = [process EXCEPT ![j] = "alive"]
         /\ task' = [task EXCEPT ![j] = "running"]
         /\ UNCHANGED <<status, cancels, healthJob>>

\* Mutant: the lock is looked up under a name nobody else uses.
BeginUnshared(j) ==
    /\ task[j] = "created" /\ j \notin cancels
    /\ Locked(j)
    /\ UNCHANGED <<registry, waiters, runtime, aged>>

\* The first step of the coroutine takes a free lock that nobody waits for ...
BeginLocked(j) ==
    /\ task[j] = "created" /\ j \notin cancels
    /\ holder[SourceOfJob(j)] = None /\ waiters[SourceOfJob(j)] = <<>>
    /\ Locked(j)
    /\ UNCHANGED <<registry, waiters, runtime, aged>>

\* ... or queues for it.
BeginQueued(j) ==
    /\ task[j] = "created" /\ j \notin cancels
    /\ holder[SourceOfJob(j)] # None \/ waiters[SourceOfJob(j)] # <<>>
    /\ task' = [task EXCEPT ![j] = "queued"]
    /\ waiters' = [waiters EXCEPT ![SourceOfJob(j)] = Append(@, j)]
    /\ UNCHANGED <<registry, status, cancels, process, holder, runtime, healthJob, aged>>

\* A task cancelled before its first step is over without running any of it.
NeverBegins(j) ==
    /\ task[j] = "created" /\ j \in cancels
    /\ task' = [task EXCEPT ![j] = "over"]
    /\ cancels' = cancels \ {j}
    /\ UNCHANGED <<registry, status, process, holder, waiters, runtime, healthJob, aged>>

LockGranted(j) ==
    /\ task[j] = "queued" /\ j \notin cancels
    /\ holder[SourceOfJob(j)] = None /\ Head(waiters[SourceOfJob(j)]) = j
    /\ waiters' = [waiters EXCEPT ![SourceOfJob(j)] = Tail(@)]
    /\ Locked(j)
    /\ UNCHANGED <<registry, runtime, aged>>

\* CancelledError at the lock: the waiter leaves the queue.
CancelledInQueue(j) ==
    /\ task[j] = "queued" /\ j \in cancels
    /\ \E p \in DOMAIN waiters[SourceOfJob(j)] :
         /\ waiters[SourceOfJob(j)][p] = j
         /\ waiters' = [waiters EXCEPT ![SourceOfJob(j)] = RemoveAt(@, p)]
    /\ End(j, CancelledStatus(j))
    /\ UNCHANGED <<registry, process, holder, runtime, aged>>

-----------------------------------------------------------------------------
(* A job's task and its subprocess: run_td_cli and run_device_action_cli *)

\* td_cli ends by itself, or of the signal it was sent.
ProcessExits(j) ==
    /\ process[j] \in {"alive", "terminated", "killed"}
    /\ process' = [process EXCEPT ![j] = "exited"]
    /\ UNCHANGED <<registry, status, task, cancels, holder, waiters, runtime, healthJob, aged>>

\* The task is resumed with td_cli's result.  A CancelledError that arrives at
\* the same time may be dropped by wait_for (Python 3.11), which returns.
Returned(j) ==
    /\ task[j] = "running" /\ process[j] = "exited"
    /\ \E s \in ReturnStatuses(j) : End(j, s)
    /\ Release(j)
    /\ UNCHANGED <<registry, process, waiters, runtime, aged>>

\* Mutant: only device actions and health jobs have a deadline.
DeadlineNotForFiles(j) ==
    /\ task[j] = "running" /\ process[j] = "alive" /\ j \notin cancels
    /\ target[j] \notin Files
    /\ task' = [task EXCEPT ![j] = "timing-out"]
    /\ process' = [process EXCEPT ![j] = "terminated"]
    /\ UNCHANGED <<registry, status, cancels, holder, waiters, runtime, healthJob, aged>>

\* The deadline passes.  run_td_cli kills, run_device_action_cli terminates.
Deadline(j) ==
    /\ task[j] = "running" /\ process[j] = "alive" /\ j \notin cancels
    /\ task' = [task EXCEPT ![j] = "timing-out"]
    /\ process' = [process EXCEPT ![j] = IF target[j] \in Files THEN "killed" ELSE "terminated"]
    /\ UNCHANGED <<registry, status, cancels, holder, waiters, runtime, healthJob, aged>>

\* CancelledError at the subprocess: terminate it and wait for it ...
CancelledRunning(j) ==
    /\ task[j] = "running" /\ process[j] = "alive" /\ j \in cancels
    /\ task' = [task EXCEPT ![j] = "stopping"]
    /\ process' = [process EXCEPT ![j] = "terminated"]
    /\ cancels' = cancels \ {j}
    /\ UNCHANGED <<registry, status, holder, waiters, runtime, healthJob, aged>>

\* ... unless it has exited already, or the task is waiting for the process it
\* stopped at the deadline: then the error leaves the task at once.
CancelledAwaitingExit(j) ==
    /\ j \in cancels
    /\ \/ task[j] = "running" /\ process[j] = "exited"
       \/ task[j] = "timing-out"
    /\ End(j, CancelledStatus(j))
    /\ Release(j)
    /\ UNCHANGED <<registry, process, waiters, runtime, aged>>

\* The process survived the grace period.
GraceExpires(j) ==
    /\ task[j] \in {"stopping", "timing-out"}
    /\ process[j] = "terminated" /\ j \notin cancels
    /\ process' = [process EXCEPT ![j] = "killed"]
    /\ UNCHANGED <<registry, status, task, cancels, holder, waiters, runtime, healthJob, aged>>

\* The stopped process is reaped, and the error raised again.
Stopped(j) ==
    /\ process[j] = "exited"
    /\ \/ /\ task[j] = "stopping"
          /\ End(j, CancelledStatus(j))
       \/ /\ task[j] = "timing-out"
          /\ End(j, "error")
    /\ Release(j)
    /\ UNCHANGED <<registry, process, waiters, runtime, aged>>

\* The done callback drops the runtime handle.
TaskDone(j) ==
    /\ task[j] = "over" /\ j \in runtime
    /\ runtime' = runtime \ {j}
    /\ UNCHANGED <<registry, status, task, cancels, process, holder, waiters, healthJob, aged>>

-----------------------------------------------------------------------------
(* Cancellation requests, and the cleanup loop *)

\* Mutant: a job that is already terminal is cancellable too.
CancelJobsTerminalToo(S) ==
    LET cancellable == {j \in S : status[j] \in {"running"} \cup Terminal}
        lost == {j \in cancellable : j \notin runtime \/ task[j] = "over"}
    IN  /\ cancellable # {}
        /\ status' = [j \in JobIds |-> IF j \in lost THEN "cancelled"
                                       ELSE IF j \in cancellable THEN "cancelling"
                                       ELSE status[j]]
        /\ cancels' = cancels \cup (cancellable \ lost)
        /\ UNCHANGED <<registry, task, process, holder, waiters, runtime, healthJob, aged>>

\* _cancel_generic_job and _cancel_device_action_job on each job of S.
CancelJobs(S) ==
    LET cancellable == {j \in S : status[j] = "running"}
        lost == {j \in cancellable : j \notin runtime \/ task[j] = "over"}
    IN  /\ cancellable # {}
        /\ status' = [j \in JobIds |-> IF j \in lost THEN "cancelled"
                                       ELSE IF j \in cancellable THEN "cancelling"
                                       ELSE status[j]]
        /\ cancels' = cancels \cup (cancellable \ lost)
        /\ UNCHANGED <<registry, task, process, holder, waiters, runtime, healthJob, aged>>

\* DELETE of one job: its id was answered to a client, so the task has begun.
Cancel(j) == task[j] # "created" /\ CancelJobs({j})

\* DELETE of /api/jobs: every pending job, one begun in the same pass included.
CancelAll == CancelJobs({j \in JobIds : status[j] \in Live})

\* One pass of the cleanup loop.
Sweep ==
    LET expired == {j \in aged : status[j] \in Terminal} IN
    /\ expired # {}
    /\ status' = [j \in JobIds |-> IF j \in expired THEN "evicted" ELSE status[j]]
    /\ healthJob' = [d \in Datasets |->
                        IF \E j \in expired : target[j] = d THEN None ELSE healthJob[d]]
    /\ runtime' = runtime \ expired
    /\ UNCHANGED <<registry, task, cancels, process, holder, waiters, aged>>

\* Time passes: the oldest job outlives the TTL, which counts from its creation.
Ages(j) ==
    /\ j \in 1..created /\ j <= MaxAged /\ j \notin aged /\ 1..(j-1) \subseteq aged
    /\ aged' = aged \cup {j}
    /\ UNCHANGED <<registry, status, task, cancels, process, holder, waiters, runtime, healthJob>>

-----------------------------------------------------------------------------
\* What the event loop, its timers and the kernel do for a job: a ready task is
\* resumed, a deadline fires, a killed process dies.
Advance(j) ==
    \/ BeginLocked(j) \/ BeginQueued(j) \/ NeverBegins(j)
    \/ LockGranted(j) \/ CancelledInQueue(j)
    \/ Returned(j) \/ Deadline(j) \/ CancelledRunning(j) \/ CancelledAwaitingExit(j)
    \/ GraceExpires(j) \/ Stopped(j)
    \/ TaskDone(j)

Next ==
    \/ \E t \in Targets : Submit(t)
    \/ \E j \in JobIds : Advance(j) \/ ProcessExits(j) \/ Cancel(j) \/ Ages(j)
    \/ CancelAll
    \/ Sweep

Spec == Init /\ [][Next]_vars

FairSpec ==
    /\ Spec
    /\ \A j \in JobIds : /\ WF_vars(Advance(j))
                         /\ WF_vars(process[j] = "killed" /\ ProcessExits(j))

-----------------------------------------------------------------------------
\* Every status is one of the documented five (or the job is unknown), and
\* the locks, queues and indexes hold jobs.
TypeOK ==
    /\ created \in 0..MaxJobs
    /\ target \in [JobIds -> Targets \cup {None}]
    /\ status \in [JobIds -> {"none"} \cup Live \cup Settled]
    /\ task \in [JobIds -> {"none", "created", "queued", "running", "timing-out", "stopping", "over"}]
    /\ cancels \subseteq JobIds
    /\ process \in [JobIds -> {"none", "alive", "terminated", "killed", "exited"}]
    /\ holder \in [Sources -> JobIds \cup {None}]
    /\ waiters \in [Sources -> Seq(JobIds)]
    /\ runtime \subseteq JobIds
    /\ healthJob \in [Datasets -> JobIds \cup {None}]
    /\ aged \subseteq JobIds

\* The source lock serializes collection: of the subprocesses of one source
\* at most one has not been told to stop, and it is the lock holder's
\* (the async with around run_td_cli and run_device_action_cli).
SourceSerialized ==
    \A j \in JobIds : process[j] = "alive" => holder[SourceOfJob(j)] = j

\* Refreshes of one file are deduplicated: never two running jobs for it,
\* however cancellations and evictions interleave with requests.
OneRunningJobPerFile ==
    \A i, j \in JobIds :
        /\ target[i] = target[j] /\ target[i] \in Files
        /\ status[i] = "running" /\ status[j] = "running"
        => i = j

\* A client that polls a terminal status can rely on it: the job's task is over, it
\* neither holds nor waits for its source, and no process of it runs unsignalled.
SettledHoldsNothing ==
    \A j \in JobIds : status[j] \in Settled =>
        /\ task[j] = "over"
        /\ process[j] # "alive"
        /\ holder[SourceOfJob(j)] # j
        /\ ~Contains(waiters[SourceOfJob(j)], j)

\* What jobs exclude, and what they give back.
JobsExclude == TypeOK /\ SourceSerialized /\ OneRunningJobPerFile /\ SettledHoldsNothing

\* A terminal status stays until the record is evicted: it is not overwritten by the
\* task's own error handlers, or by the next job on the same target.  A snapshot or
\* health job whose cancellation was accepted is never reported done, even if its
\* subprocess finished first.
VerdictStands(j) ==
    /\ status[j] \in Terminal => status'[j] \in {status[j], "evicted"}
    /\ status[j] = "cancelling" /\ target[j] \notin Devices => status'[j] # "done"
VerdictsStand == [][\A j \in JobIds : VerdictStands(j)]_vars

\* Every job that has begun comes to a terminal status: the queue moves, deadlines
\* fire and the stop escalates to a kill.
StartedJobsSettle ==
    \A j \in JobIds :
        task[j] \notin {"none", "created", "over"} ~> status[j] \in Settled

\* The documentation: a job is never left indefinitely in cancelling.
CancellingEnds ==
    \A j \in JobIds : status[j] = "cancelling" ~> status[j] # "cancelling"

\* The tests: a second request for a dataset joins the health job that is live.
OneLiveHealthJob ==
    \A i, j \in JobIds :
        /\ target[i] = target[j] /\ target[i] \in Datasets
        /\ status[i] \in Live /\ status[j] \in Live
        => i = j

\* The documentation: two actions of one source do not run concurrently.
OneProcessPerSource ==
    \A i, j \in JobIds :
        /\ process[i] \in {"alive", "terminated", "killed"}
        /\ process[j] \in {"alive", "terminated", "killed"}
        /\ SourceOfJob(i) = SourceOfJob(j)
        => i = j
=============================================================================
