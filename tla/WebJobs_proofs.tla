---------------------------- MODULE WebJobs_proofs ----------------------------
(***************************************************************************)
(* What jobs exclude and what they give back, for any number of jobs,      *)
(* files and sources: one live subprocess per source, one running refresh  *)
(* per file, nothing held by a job that is settled, and a verdict that     *)
(* stands.                                                                 *)
(***************************************************************************)
EXTENDS WebJobs, TLAPS

\* The registry holds jobs, and what is not created yet does nothing.
Registry ==
    /\ created \in Nat /\ created <= MaxJobs
    /\ DOMAIN target = JobIds /\ DOMAIN status = JobIds /\ DOMAIN task = JobIds
    /\ DOMAIN process = JobIds /\ DOMAIN holder = Sources
    /\ \A j \in JobIds :
         /\ task[j] # "none" => target[j] \in Targets
         /\ j > created => task[j] = "none"

\* Only a task that waits for its subprocess has one that was not told to stop.
AliveIsAwaited == \A j \in JobIds : process[j] = "alive" => task[j] = "running"

IInv == Registry /\ AliveIsAwaited /\ SourceSerialized /\ OneRunningJobPerFile

-----------------------------------------------------------------------------

LEMMA InitIInv == ASSUME JobsAssumption PROVE Init => IInv
BY DEF JobsAssumption, Init, IInv, Registry, AliveIsAwaited, SourceSerialized,
       OneRunningJobPerFile, JobIds

\* A step that makes no job running keeps the refreshes of a file apart.
LEMMA NoneBecomesRunning ==
    ASSUME OneRunningJobPerFile, UNCHANGED target,
           \A j \in JobIds : status'[j] = "running" => status[j] = "running"
    PROVE  OneRunningJobPerFile'
BY DEF OneRunningJobPerFile

\* A step after which every live subprocess was live, with its lock as it was.
LEMMA NoneBecomesAlive ==
    ASSUME SourceSerialized, UNCHANGED target,
           \A j \in JobIds : process'[j] = "alive" =>
              process[j] = "alive" /\ (holder[SourceOfJob(j)] = j => holder'[SourceOfJob(j)] = j)
    PROVE  SourceSerialized'
BY DEF SourceSerialized, SourceOfJob

\* A request creates a job that has not begun, and no second refresh of a file.
LEMMA SubmitStep ==
    ASSUME JobsAssumption, IInv, NEW t \in Targets, Submit(t)
    PROVE  IInv'
<1>1. created' = created + 1 /\ created' \in JobIds /\ task[created'] = "none"
  BY DEF JobsAssumption, Submit, IInv, Registry, JobIds
<1>2. /\ target' = [target EXCEPT ![created'] = t]
      /\ status' = [status EXCEPT ![created'] = "running"]
      /\ task' = [task EXCEPT ![created'] = "created"]
      /\ UNCHANGED <<process, holder>>
  BY DEF Submit
<1>3. Registry'
  <2>1. \A j \in JobIds : j > created' => j > created /\ j # created'
    BY <1>1 DEF IInv, Registry, JobIds
  <2>2. created' \in Nat /\ created' <= MaxJobs
    BY <1>1 DEF JobsAssumption, JobIds, IInv, Registry
  <2> QED
    BY <1>1, <1>2, <2>1, <2>2 DEF IInv, Registry
<1>4. process[created'] # "alive"
  BY <1>1 DEF IInv, AliveIsAwaited
<1>5. AliveIsAwaited' /\ SourceSerialized'
  BY <1>1, <1>2, <1>4 DEF IInv, AliveIsAwaited, SourceSerialized, SourceOfJob, Registry
<1>6. OneRunningJobPerFile'
  <2>1. t \in Files => \A j \in JobIds : ~(target[j] = t /\ status[j] = "running")
    BY DEF Submit, Duplicate
  <2> QED
    BY <1>1, <1>2, <2>1 DEF IInv, Registry, OneRunningJobPerFile
<1> QED
  BY <1>3, <1>5, <1>6 DEF IInv

\* A task that has the lock was not cancelled, or ends.
LEMMA LockedStep ==
    ASSUME IInv, NEW j \in JobIds, Locked(j), holder[SourceOfJob(j)] = None,
           JobsAssumption, task[j] \in {"created", "queued"}, UNCHANGED registry
    PROVE  IInv'
<1>1. target[j] \in Targets /\ SourceOfJob(j) \in Sources
  BY DEF IInv, Registry, SourceOfJob, Sources
<1>2. process[j] # "alive"
  BY DEF IInv, AliveIsAwaited
<1>3. UNCHANGED <<created, target>>
  BY DEF registry
<1>4. CASE status[j] \in {"evicted", "cancelling"}
  <2>1. /\ task' = [task EXCEPT ![j] = "over"] /\ UNCHANGED <<process, holder>>
        /\ status' = [status EXCEPT ![j] = IF status[j] = "evicted" THEN "evicted" ELSE "cancelled"]
    BY <1>4 DEF Locked, End
  <2>2. Registry' /\ AliveIsAwaited'
    BY <1>2, <1>3, <2>1 DEF IInv, Registry, AliveIsAwaited
  <2>3. OneRunningJobPerFile' /\ SourceSerialized'
    BY <1>3, <2>1, NoneBecomesRunning, NoneBecomesAlive DEF IInv, Registry
  <2> QED
    BY <2>2, <2>3 DEF IInv
<1>5. CASE status[j] \notin {"evicted", "cancelling"}
  <2>1. /\ holder' = [holder EXCEPT ![SourceOfJob(j)] = j]
        /\ process' = [process EXCEPT ![j] = "alive"]
        /\ task' = [task EXCEPT ![j] = "running"]
        /\ UNCHANGED status
    BY <1>5 DEF Locked
  <2>2. Registry' /\ AliveIsAwaited'
    BY <1>3, <2>1 DEF IInv, Registry, AliveIsAwaited
  <2>3. \A i \in JobIds : process[i] = "alive" => SourceOfJob(i) # SourceOfJob(j)
    BY DEF IInv, SourceSerialized, JobsAssumption
  <2>4. SourceSerialized'
    BY <1>1, <1>3, <2>1, <2>3 DEF IInv, Registry, SourceSerialized, SourceOfJob
  <2>5. OneRunningJobPerFile'
    BY <1>3, <2>1, NoneBecomesRunning DEF IInv
  <2> QED
    BY <2>2, <2>4, <2>5 DEF IInv
<1> QED
  BY <1>4, <1>5

\* A task whose subprocess is not live ends, and gives up no lock of another.
LEMMA EndStep ==
    ASSUME IInv, NEW j \in JobIds, task[j] # "none", process[j] # "alive", NEW s,
           s = "running" => status[j] = "running",
           End(j, s), UNCHANGED <<registry, process>>, Release(j) \/ UNCHANGED holder
    PROVE  IInv'
<1>1. UNCHANGED <<created, target>>
  BY DEF registry
<1>2. task' = [task EXCEPT ![j] = "over"] /\ status' = [status EXCEPT ![j] = s]
  BY DEF End
<1>3. DOMAIN holder' = Sources
  BY DEF Release, IInv, Registry
<1>4. Registry' /\ AliveIsAwaited'
  BY <1>1, <1>2, <1>3 DEF IInv, Registry, AliveIsAwaited
<1>5. OneRunningJobPerFile'
  BY <1>1, <1>2, NoneBecomesRunning DEF IInv, Registry
<1>6. SourceSerialized'
  <2>1. \A i \in JobIds : process'[i] = "alive" =>
           /\ process[i] = "alive" /\ i # j /\ task[i] # "none"
           /\ SourceOfJob(i) \in Sources
    BY DEF IInv, Registry, AliveIsAwaited, SourceOfJob, Sources
  <2>2. \A i \in JobIds : process'[i] = "alive" =>
           (holder[SourceOfJob(i)] = i => holder'[SourceOfJob(i)] = i)
    BY <2>1 DEF Release
  <2> QED
    BY <1>1, <2>1, <2>2, NoneBecomesAlive DEF IInv
<1> QED
  BY <1>4, <1>5, <1>6 DEF IInv

-----------------------------------------------------------------------------

LEMMA BeginSteps ==
    ASSUME JobsAssumption, IInv, NEW j \in JobIds,
           \/ BeginLocked(j) \/ BeginQueued(j) \/ NeverBegins(j)
           \/ LockGranted(j) \/ CancelledInQueue(j)
    PROVE  IInv'
<1>1. CASE BeginLocked(j) \/ LockGranted(j)
  BY <1>1, LockedStep DEF BeginLocked, LockGranted
<1>2. CASE BeginQueued(j) \/ NeverBegins(j)
  <2>1. PICK stage \in {"queued", "over"} :
           /\ task[j] = "created" /\ task' = [task EXCEPT ![j] = stage]
           /\ UNCHANGED <<created, target, status, process, holder>>
    BY <1>2 DEF BeginQueued, NeverBegins, registry
  <2>2. Registry' /\ AliveIsAwaited'
    BY <2>1 DEF IInv, Registry, AliveIsAwaited
  <2> QED
    BY <2>1, <2>2, NoneBecomesRunning, NoneBecomesAlive DEF IInv
<1>3. CASE CancelledInQueue(j)
  <2>1. CancelledStatus(j) = "running" => status[j] = "running"
    BY DEF CancelledStatus
  <2>2. task[j] = "queued" /\ process[j] # "alive"
    BY <1>3 DEF CancelledInQueue, IInv, AliveIsAwaited
  <2> QED
    BY <1>3, <2>1, <2>2, EndStep DEF CancelledInQueue
<1> QED
  BY <1>1, <1>2, <1>3

\* A subprocess ends or is stopped, and its task waits for that.
LEMMA ProcessSteps ==
    ASSUME IInv, NEW j \in JobIds,
           ProcessExits(j) \/ Deadline(j) \/ CancelledRunning(j) \/ GraceExpires(j)
    PROVE  IInv'
<1>1. PICK how \in {"exited", "killed", "terminated"} : process' = [process EXCEPT ![j] = how]
  BY DEF ProcessExits, Deadline, CancelledRunning, GraceExpires
<1>2. \/ UNCHANGED task
      \/ task[j] = "running" /\ \E stage \in {"timing-out", "stopping"} :
                                   task' = [task EXCEPT ![j] = stage]
  BY DEF ProcessExits, Deadline, CancelledRunning, GraceExpires
<1>3. UNCHANGED <<created, target, status, holder>>
  BY DEF ProcessExits, Deadline, CancelledRunning, GraceExpires, registry
<1>4. Registry' /\ AliveIsAwaited'
  BY <1>1, <1>2, <1>3 DEF IInv, Registry, AliveIsAwaited
<1>5. SourceSerialized' /\ OneRunningJobPerFile'
  BY <1>1, <1>3, NoneBecomesRunning, NoneBecomesAlive DEF IInv, Registry
<1> QED
  BY <1>4, <1>5 DEF IInv

LEMMA EndSteps ==
    ASSUME IInv, NEW j \in JobIds, Returned(j) \/ CancelledAwaitingExit(j) \/ Stopped(j)
    PROVE  IInv'
<1>1. process[j] # "alive" /\ task[j] # "none"
  BY DEF Returned, CancelledAwaitingExit, Stopped, IInv, AliveIsAwaited
<1>2. CASE Returned(j)
  <2>1. PICK s \in ReturnStatuses(j) : End(j, s)
    BY <1>2 DEF Returned
  <2>2. s # "running"
    BY DEF ReturnStatuses
  <2> QED
    BY <1>1, <1>2, <2>1, <2>2, EndStep DEF Returned
<1>3. CASE CancelledAwaitingExit(j) \/ Stopped(j)
  <2>1. CancelledStatus(j) = "running" => status[j] = "running"
    BY DEF CancelledStatus
  <2>2. PICK s \in {"error", CancelledStatus(j)} : End(j, s)
    BY <1>3 DEF CancelledAwaitingExit, Stopped
  <2> QED
    BY <1>1, <1>3, <2>1, <2>2, EndStep DEF CancelledAwaitingExit, Stopped
<1> QED
  BY <1>2, <1>3

\* Requests to cancel and the cleanup loop touch no lock, task or process, and make no
\* job running.
LEMMA RegistrySteps ==
    ASSUME IInv,
           \/ \E j \in JobIds : TaskDone(j) \/ Cancel(j) \/ Ages(j)
           \/ CancelAll \/ Sweep \/ UNCHANGED vars
    PROVE  IInv'
<1>1. UNCHANGED <<created, target, task, process, holder>>
  BY DEF TaskDone, Cancel, CancelAll, CancelJobs, Ages, Sweep, vars, registry
<1>2. /\ DOMAIN status' = JobIds
      /\ \A j \in JobIds : status'[j] = "running" => status[j] = "running"
  <2>1. CASE UNCHANGED status
    BY <2>1 DEF IInv, Registry
  <2>2. ASSUME NEW S, CancelJobs(S)
        PROVE  /\ DOMAIN status' = JobIds
               /\ \A j \in JobIds : status'[j] = "running" => status[j] = "running"
    BY <2>2 DEF CancelJobs
  <2>3. CASE Sweep
    BY <2>3 DEF Sweep
  <2> QED
    BY <2>1, <2>2, <2>3 DEF TaskDone, Cancel, CancelAll, Ages, vars
<1>3. SourceSerialized' /\ OneRunningJobPerFile'
  BY <1>1, <1>2, NoneBecomesRunning, NoneBecomesAlive DEF IInv
<1> QED
  BY <1>1, <1>2, <1>3 DEF IInv, Registry, AliveIsAwaited

-----------------------------------------------------------------------------

LEMMA NextIInv == ASSUME JobsAssumption PROVE IInv /\ [Next]_vars => IInv'
<1> SUFFICES ASSUME IInv, [Next]_vars PROVE IInv'
  OBVIOUS
<1> QED
  BY SubmitStep, BeginSteps, ProcessSteps, EndSteps, RegistrySteps DEF Next, Advance

\* The second layer.  A task that was not created has no status, one that may still run
\* has its handle, and one whose job is settled is over.
Life(j) ==
    /\ task[j] = "none" <=> status[j] = "none"
    /\ task[j] \notin {"none", "over"} => j \in runtime
    /\ status[j] \in Settled => task[j] = "over"

\* A lock is held by a task of its source that waits for a subprocess.
HolderWorks ==
    \A s \in Sources : holder[s] # None =>
        /\ task[holder[s]] \in {"running", "timing-out", "stopping"}
        /\ SourceOfJob(holder[s]) = s

\* A lock is awaited by exactly the queued tasks of its source, each of them once.
Queued(s, q) ==
    /\ \A p \in 1..Len(q) : task[q[p]] = "queued" /\ SourceOfJob(q[p]) = s
    /\ \A p1, p2 \in 1..Len(q) : q[p1] = q[p2] => p1 = p2

Queues ==
    /\ \A s \in Sources : Queued(s, waiters[s])
    /\ \A j \in JobIds : task[j] = "queued" =>
         \E p \in 1..Len(waiters[SourceOfJob(j)]) : waiters[SourceOfJob(j)][p] = j

Orderly == TypeOK /\ HolderWorks /\ Queues /\ \A j \in JobIds : Life(j)

-----------------------------------------------------------------------------

\* The lock around a job's subprocess is never lost, released by another or granted
\* twice, however cancellations, deadlines and evictions interleave.
THEOREM SourcesAreSerialized == ASSUME JobsAssumption PROVE Spec => []SourceSerialized
<1>1. IInv => SourceSerialized
  BY DEF IInv
<1> QED
  BY <1>1, InitIInv, NextIInv, PTL DEF Spec

\* No second refresh of a file runs beside the first, whatever was cancelled or evicted.
THEOREM RefreshesAreDeduplicated == ASSUME JobsAssumption PROVE Spec => []OneRunningJobPerFile
<1>1. IInv => OneRunningJobPerFile
  BY DEF IInv
<1> QED
  BY <1>1, InitIInv, NextIInv, PTL DEF Spec

LEMMA InitOrderly == ASSUME JobsAssumption PROVE Init => Orderly
<1> SUFFICES ASSUME Init PROVE Orderly
  OBVIOUS
<1>1. TypeOK
  BY DEF JobsAssumption, Init, TypeOK, JobIds
<1>2. HolderWorks /\ Queues /\ \A j \in JobIds : Life(j)
  BY DEF Init, HolderWorks, Queues, Queued, Life, Settled, Terminal
<1> QED
  BY <1>1, <1>2 DEF Orderly

-----------------------------------------------------------------------------
(* The queues of the locks *)

\* A sequence without one of its elements.
Without(w, q, p) ==
    /\ Len(w) = Len(q) - 1
    /\ \A i \in 1..Len(w) : w[i] = IF i < p THEN q[i] ELSE q[i + 1]

LEMMA RemoveAtIsWithout ==
    ASSUME NEW S, NEW q \in Seq(S), NEW p \in 1..Len(q)
    PROVE  RemoveAt(q, p) \in Seq(S) /\ Without(RemoveAt(q, p), q, p)
<1>1. /\ SubSeq(q, 1, p - 1) \in Seq(S) /\ Len(SubSeq(q, 1, p - 1)) = p - 1
      /\ \A i \in 1..p - 1 : SubSeq(q, 1, p - 1)[i] = q[i]
  OBVIOUS
<1>2. /\ SubSeq(q, p + 1, Len(q)) \in Seq(S) /\ Len(SubSeq(q, p + 1, Len(q))) = Len(q) - p
      /\ \A i \in 1..Len(q) - p : SubSeq(q, p + 1, Len(q))[i] = q[p + i]
  OBVIOUS
<1>3. PICK a \in Seq(S), b \in Seq(S) : a = SubSeq(q, 1, p - 1) /\ b = SubSeq(q, p + 1, Len(q))
  BY <1>1, <1>2
<1>4. /\ Len(a) = p - 1 /\ Len(b) = Len(q) - p /\ Len(q) \in Nat
      /\ \A i \in 1..p - 1 : a[i] = q[i]
      /\ \A i \in 1..Len(q) - p : b[i] = q[p + i]
  BY <1>1, <1>2, <1>3
<1>5. /\ a \o b \in Seq(S) /\ Len(a \o b) = Len(a) + Len(b)
      /\ \A i \in 1..Len(a) + Len(b) : (a \o b)[i] = IF i <= Len(a) THEN a[i] ELSE b[i - Len(a)]
  OBVIOUS
<1>6. /\ a \o b \in Seq(S) /\ Len(a \o b) = Len(q) - 1
      /\ \A i \in 1..Len(q) - 1 : (a \o b)[i] = IF i < p THEN q[i] ELSE q[i + 1]
  <2>1. ASSUME NEW i \in 1..Len(q) - 1 PROVE (a \o b)[i] = IF i < p THEN q[i] ELSE q[i + 1]
    <3>1. CASE i < p
      BY <1>4, <1>5, <3>1
    <3>2. CASE ~(i < p)
      <4>1. /\ i \in 1..Len(a) + Len(b) /\ ~(i <= Len(a))
            /\ i - Len(a) \in 1..Len(q) - p /\ p + (i - Len(a)) = i + 1
        BY <1>4, <3>2
      <4>2. (a \o b)[i] = b[i - Len(a)]
        BY <1>5, <4>1
      <4>3. b[i - Len(a)] = q[p + (i - Len(a))]
        BY <1>4, <4>1
      <4> QED
        BY <3>2, <4>1, <4>2, <4>3
    <3> QED
      BY <3>1, <3>2
  <2> QED
    BY <1>4, <1>5, <2>1
<1> QED
  BY <1>3, <1>6 DEF RemoveAt, Without

\* A sequence with one more.
LEMMA Appended ==
    ASSUME NEW S, NEW q \in Seq(S), NEW e \in S
    PROVE  /\ Append(q, e) \in Seq(S) /\ Len(Append(q, e)) = Len(q) + 1
           /\ \A i \in 1..Len(q) + 1 : Append(q, e)[i] = IF i = Len(q) + 1 THEN e ELSE q[i]
OBVIOUS

LEMMA TailIsWithout ==
    ASSUME NEW S, NEW q \in Seq(S), q # <<>>
    PROVE  Tail(q) \in Seq(S) /\ Without(Tail(q), q, 1)
BY DEF Without

\* A task leaves its queue for good.
LEMMA QueueLeft ==
    ASSUME IInv, Orderly, NEW j \in JobIds, NEW p \in 1..Len(waiters[SourceOfJob(j)]),
           waiters[SourceOfJob(j)][p] = j, task[j] = "queued",
           NEW w \in Seq(JobIds), Without(w, waiters[SourceOfJob(j)], p),
           waiters' = [waiters EXCEPT ![SourceOfJob(j)] = w],
           NEW stage, stage # "queued", task' = [task EXCEPT ![j] = stage],
           UNCHANGED target
    PROVE  Queues'
<1> DEFINE s == SourceOfJob(j)
           q == waiters[s]
<1>1. s \in Sources /\ q \in Seq(JobIds)
  BY DEF IInv, Registry, SourceOfJob, Sources, Orderly, TypeOK
<1>2. \A i \in JobIds : SourceOfJob(i)' = SourceOfJob(i)
  BY DEF SourceOfJob
<1>3. \A z \in Sources : Queued(z, waiters[z])
  BY DEF Orderly, Queues
<1>4. \A i \in 1..Len(w) : \E k \in 1..Len(q) : w[i] = q[k] /\ k # p
  <2> TAKE i \in 1..Len(w)
  <2>1. CASE i < p
    BY <1>1, <2>1 DEF Without
  <2>2. CASE ~(i < p)
    BY <1>1, <2>2 DEF Without
  <2> QED
    BY <2>1, <2>2
<1>5. \A i1, i2 \in 1..Len(w) : w[i1] = w[i2] => i1 = i2
  BY <1>1, <1>3 DEF Without, Queued
<1>6. \A z \in Sources : Queued(z, waiters[z])'
  <2> TAKE z \in Sources
  <2>0. waiters'[z] = (IF z = s THEN w ELSE waiters[z]) /\ waiters[z] \in Seq(JobIds)
    BY <1>1 DEF Orderly, TypeOK
  <2>1. CASE z = s
    <3>1. \A i \in 1..Len(w) : /\ w[i] \in JobIds /\ w[i] # j
                              /\ task[w[i]] = "queued" /\ SourceOfJob(w[i]) = s
      BY <1>1, <1>3, <1>4 DEF Queued
    <3>2. \A i \in 1..Len(w) : task'[w[i]] = "queued" /\ SourceOfJob(w[i])' = s
      BY <1>2, <3>1 DEF IInv, Registry
    <3> QED
      BY <2>0, <2>1, <1>5, <3>2 DEF Queued
  <2>2. CASE z # s
    <3>1. \A i \in 1..Len(waiters[z]) :
             waiters[z][i] \in JobIds /\ waiters[z][i] # j
      BY <2>0, <2>2, <1>3 DEF Queued
    <3> QED
      BY <2>0, <2>2, <1>2, <1>3, <3>1 DEF Queued, IInv, Registry
  <2> QED
    BY <2>1, <2>2
<1>7. ASSUME NEW i \in JobIds, task'[i] = "queued"
      PROVE  \E k \in 1..Len(waiters'[SourceOfJob(i)']) : waiters'[SourceOfJob(i)'][k] = i
  <2>1. i # j /\ task[i] = "queued"
    BY <1>7 DEF IInv, Registry
  <2>2. PICK k \in 1..Len(waiters[SourceOfJob(i)]) : waiters[SourceOfJob(i)][k] = i
    BY <2>1 DEF Orderly, Queues
  <2>3. SourceOfJob(i) \in Sources
    BY <2>1 DEF IInv, Registry, SourceOfJob, Sources
  <2>4. CASE SourceOfJob(i) # s
    BY <1>1, <1>2, <2>2, <2>3, <2>4 DEF Orderly, TypeOK
  <2>5. CASE SourceOfJob(i) = s
    <3>0. k # p /\ k \in 1..Len(q) /\ q[k] = i
      BY <2>1, <2>2, <2>5
    <3>1. waiters'[SourceOfJob(i)'] = w
      BY <1>1, <1>2, <2>5 DEF Orderly, TypeOK
    <3>2. CASE k < p
      <4>1. k \in 1..Len(w) /\ w[k] = i
        BY <1>1, <3>0, <3>2 DEF Without
      <4> QED
        BY <3>1, <4>1
    <3>3. CASE k > p
      <4>1. k - 1 \in 1..Len(w) /\ w[k - 1] = i
        BY <1>1, <3>0, <3>3 DEF Without
      <4> QED
        BY <3>1, <4>1
    <3> QED
      BY <1>1, <3>0, <3>2, <3>3
  <2> QED
    BY <2>4, <2>5
<1> QED
  BY <1>6, <1>7 DEF Queues

\* A task joins the queue of its source.
LEMMA QueueJoined ==
    ASSUME IInv, Orderly, NEW j \in JobIds, task[j] = "created",
           waiters' = [waiters EXCEPT ![SourceOfJob(j)] = Append(@, j)],
           task' = [task EXCEPT ![j] = "queued"], UNCHANGED target
    PROVE  Queues'
<1> DEFINE s == SourceOfJob(j)
           q == waiters[s]
<1>1. s \in Sources /\ q \in Seq(JobIds)
  BY DEF IInv, Registry, SourceOfJob, Sources, Orderly, TypeOK
<1>2. \A i \in JobIds : SourceOfJob(i)' = SourceOfJob(i)
  BY DEF SourceOfJob
<1>3. \A z \in Sources : /\ waiters[z] \in Seq(JobIds) /\ Queued(z, waiters[z])
                        /\ waiters'[z] = IF z = s THEN Append(q, j) ELSE waiters[z]
  BY <1>1 DEF Orderly, Queues, TypeOK
<1>4. \A z \in Sources : Queued(z, waiters[z])'
  <2> TAKE z \in Sources
  <2>1. \A i \in 1..Len(waiters[z]) :
           /\ waiters[z][i] \in JobIds /\ waiters[z][i] # j
           /\ task'[waiters[z][i]] = "queued" /\ SourceOfJob(waiters[z][i]) = z
    BY <1>3 DEF Queued, IInv, Registry
  <2>2. CASE z # s
    BY <1>3, <2>1, <2>2 DEF Queued, SourceOfJob
  <2>3. CASE z = s
    <3>1. /\ Append(q, j) \in Seq(JobIds) /\ Len(Append(q, j)) = Len(q) + 1
          /\ \A i \in 1..Len(q) + 1 : Append(q, j)[i] = IF i = Len(q) + 1 THEN j ELSE q[i]
      BY <1>1, Appended
    <3>2. PICK w \in Seq(JobIds) : w = Append(q, j)
      BY <3>1
    <3>3. task'[j] = "queued" /\ \A i \in 1..Len(w) : i # Len(w) => i \in 1..Len(q)
      BY <1>1, <3>1, <3>2 DEF IInv, Registry
    <3>4. /\ \A i \in 1..Len(w) : task'[w[i]] = "queued" /\ SourceOfJob(w[i]) = z
          /\ \A i1, i2 \in 1..Len(w) : w[i1] = w[i2] => i1 = i2
      BY <1>1, <1>3, <2>1, <2>3, <3>1, <3>2, <3>3 DEF Queued
    <3>5. waiters'[z] = w
      BY <1>3, <2>3, <3>2
    <3> QED
      <4>1. \A i \in 1..Len(waiters'[z]) :
               task'[waiters'[z][i]] = "queued" /\ SourceOf[target'[waiters'[z][i]]] = z
        BY <3>4, <3>5 DEF SourceOfJob
      <4>2. \A i1, i2 \in 1..Len(waiters'[z]) : waiters'[z][i1] = waiters'[z][i2] => i1 = i2
        BY <3>4, <3>5
      <4> QED
        BY <4>1, <4>2 DEF Queued, SourceOfJob
  <2> QED
    BY <2>2, <2>3
<1>5. ASSUME NEW i \in JobIds, task'[i] = "queued"
      PROVE  \E k \in 1..Len(waiters'[SourceOfJob(i)']) : waiters'[SourceOfJob(i)'][k] = i
  <2>1. CASE i = j
    <3>1. Len(q) + 1 \in 1..Len(Append(q, j)) /\ Append(q, j)[Len(q) + 1] = j
      BY <1>1
    <3> QED
      BY <1>1, <1>2, <1>3, <2>1, <3>1
  <2>2. CASE i # j
    <3>1. task[i] = "queued" /\ SourceOfJob(i) \in Sources
      BY <1>5, <2>2 DEF IInv, Registry, SourceOfJob, Sources
    <3>2. PICK k \in 1..Len(waiters[SourceOfJob(i)]) : waiters[SourceOfJob(i)][k] = i
      BY <3>1 DEF Orderly, Queues
    <3>3. CASE SourceOfJob(i) = s
      <4>1. k \in 1..Len(Append(q, j)) /\ Append(q, j)[k] = i
        BY <1>1, <3>2, <3>3
      <4> QED
        BY <1>2, <1>3, <3>1, <3>3, <4>1
    <3>4. CASE SourceOfJob(i) # s
      BY <1>2, <1>3, <3>1, <3>2, <3>4
    <3> QED
      BY <3>3, <3>4
  <2> QED
    BY <2>1, <2>2
<1> QED
  BY <1>4, <1>5 DEF Queues

\* Other steps leave the queues alone, and move no queued task.
LEMMA QueuesKept ==
    ASSUME IInv, Orderly, UNCHANGED <<waiters, target>>,
           \A j \in JobIds : task[j] = "queued" <=> task'[j] = "queued"
    PROVE  Queues'
<1>1. \A i \in JobIds : SourceOfJob(i)' = SourceOfJob(i)
  BY DEF SourceOfJob
<1>2. \A z \in Sources : \A i \in 1..Len(waiters[z]) : waiters[z][i] \in JobIds
  BY DEF Orderly, TypeOK
<1> QED
  BY <1>1, <1>2 DEF Orderly, Queues, Queued

-----------------------------------------------------------------------------
(* The steps *)

\* A job ends: it is settled for good, unless its status was left as it stood.
LEMMA EndOrderly ==
    ASSUME JobsAssumption, IInv, Orderly, NEW j \in JobIds, task[j] \notin {"none", "over"},
           NEW s \in Live \cup Settled, End(j, s), UNCHANGED <<registry, process, runtime, aged>>,
           Release(j) \/ (UNCHANGED holder /\ \A z \in Sources : holder[z] # j),
           waiters' \in [Sources -> Seq(JobIds)], Queues'
    PROVE  Orderly'
<1>1. /\ status' = [status EXCEPT ![j] = s] /\ task' = [task EXCEPT ![j] = "over"]
      /\ cancels' \subseteq cancels
      /\ \A d \in Datasets : healthJob'[d] \in {None, healthJob[d]}
      /\ healthJob' \in [Datasets -> JobIds \cup {None}]
  BY DEF End, Orderly, TypeOK
<1>2. holder' \in [Sources -> JobIds \cup {None}]
  BY DEF Release, Orderly, TypeOK
<1>3. \A z \in Sources : holder'[z] # None => holder'[z] = holder[z] /\ holder[z] # j
  BY DEF Release
<1>4. UNCHANGED <<created, target>>
  BY DEF registry
<1>5. TypeOK'
  BY <1>1, <1>2, <1>4 DEF Orderly, TypeOK
<1>6. \A i \in JobIds : Life(i)'
  BY <1>1 DEF Orderly, TypeOK, Life, Live, Settled, Terminal
<1>7. HolderWorks'
  <2>1. \A z \in Sources : holder'[z] # None =>
           /\ holder[z] # None /\ holder[z] \in JobIds /\ holder'[z] = holder[z]
           /\ task'[holder[z]] = task[holder[z]]
    BY <1>1, <1>3 DEF Orderly, TypeOK
  <2> QED
    BY <1>4, <2>1 DEF Orderly, HolderWorks, SourceOfJob
<1> QED
  BY <1>5, <1>6, <1>7 DEF Orderly

\* A task that holds no lock yet is under none.
LEMMA HoldsNone ==
    ASSUME JobsAssumption, Orderly, NEW j \in JobIds,
           task[j] \notin {"running", "timing-out", "stopping"}
    PROVE  \A z \in Sources : holder[z] # j
BY DEF Orderly, HolderWorks, JobsAssumption

\* The lock is taken, or the task ends.
LEMMA LockedOrderly ==
    ASSUME JobsAssumption, IInv, Orderly, NEW j \in JobIds, Locked(j),
           task[j] \in {"created", "queued"}, holder[SourceOfJob(j)] = None,
           UNCHANGED <<registry, runtime, aged>>,
           waiters' \in [Sources -> Seq(JobIds)],
           \A stage \in {"over", "running"} : task' = [task EXCEPT ![j] = stage] => Queues'
    PROVE  Orderly'
<1>1. CASE status[j] \in {"evicted", "cancelling"}
  <2>1. /\ End(j, IF status[j] = "evicted" THEN "evicted" ELSE "cancelled")
        /\ UNCHANGED <<process, holder>>
    BY <1>1 DEF Locked
  <2>2. task' = [task EXCEPT ![j] = "over"]
    BY <2>1 DEF End
  <2>3. (IF status[j] = "evicted" THEN "evicted" ELSE "cancelled") \in Live \cup Settled
    BY DEF Settled, Terminal
  <2> QED
    BY <2>1, <2>2, <2>3, HoldsNone, EndOrderly
<1>2. CASE status[j] \notin {"evicted", "cancelling"}
  <2>1. /\ holder' = [holder EXCEPT ![SourceOfJob(j)] = j]
        /\ process' = [process EXCEPT ![j] = "alive"]
        /\ task' = [task EXCEPT ![j] = "running"]
        /\ UNCHANGED <<created, target, status, cancels, healthJob, runtime, aged>>
    BY <1>2 DEF Locked, registry
  <2>2. SourceOfJob(j) \in Sources
    BY DEF IInv, Registry, SourceOfJob, Sources
  <2>3. TypeOK'
    BY <2>1, <2>2 DEF Orderly, TypeOK
  <2>4. \A i \in JobIds : Life(i)'
    BY <2>1 DEF Orderly, TypeOK, Life
  <2>5. HolderWorks'
    <3>1. ASSUME NEW z \in Sources, holder'[z] # None
          PROVE  /\ task'[holder'[z]] \in {"running", "timing-out", "stopping"}
                 /\ SourceOf[target'[holder'[z]]] = z
      <4>1. CASE z = SourceOfJob(j)
        BY <2>1, <4>1 DEF Orderly, TypeOK, SourceOfJob
      <4>2. CASE z # SourceOfJob(j)
        <5>1. holder'[z] = holder[z] /\ holder[z] # None /\ holder[z] \in JobIds /\ holder[z] # j
          BY <2>1, <3>1, <4>2, HoldsNone DEF Orderly, TypeOK
        <5> QED
          BY <2>1, <5>1 DEF Orderly, TypeOK, HolderWorks, SourceOfJob
      <4> QED
        BY <4>1, <4>2
    <3> QED
      BY <3>1 DEF HolderWorks, SourceOfJob
  <2> QED
    BY <2>1, <2>3, <2>4, <2>5 DEF Orderly
<1> QED
  BY <1>1, <1>2

LEMMA SubmitOrderly ==
    ASSUME JobsAssumption, IInv, Orderly, NEW t \in Targets, Submit(t)
    PROVE  Orderly'
<1>1. created' = created + 1 /\ created' \in JobIds /\ task[created'] = "none"
  BY DEF JobsAssumption, Submit, IInv, Registry, JobIds
<1>2. /\ target' = [target EXCEPT ![created'] = t]
      /\ status' = [status EXCEPT ![created'] = "running"]
      /\ task' = [task EXCEPT ![created'] = "created"]
      /\ runtime' = runtime \cup {created'}
      /\ healthJob' = [d \in Datasets |-> IF d = t THEN created' ELSE healthJob[d]]
      /\ UNCHANGED <<cancels, process, holder, waiters, aged>>
  BY DEF Submit
<1>3. \A i \in JobIds : i # created' => SourceOf[target'[i]] = SourceOfJob(i) /\ task'[i] = task[i]
  BY <1>1, <1>2 DEF SourceOfJob, Orderly, TypeOK
<1>4. TypeOK'
  <2>1. created' \in 0..MaxJobs
    BY <1>1 DEF JobIds
  <2> QED
    BY <1>1, <1>2, <2>1 DEF Orderly, TypeOK, Live
<1>5. \A i \in JobIds : Life(i)'
  BY <1>1, <1>2 DEF Orderly, TypeOK, Life, Settled, Terminal
<1>6. HolderWorks'
  <2>1. \A z \in Sources : holder[z] # None => holder[z] \in JobIds /\ holder[z] # created'
    BY <1>1 DEF Orderly, TypeOK, HolderWorks
  <2> QED
    BY <1>2, <1>3, <2>1 DEF Orderly, HolderWorks, SourceOfJob
<1>7. Queues'
  <2>1. \A z \in Sources : \A p \in 1..Len(waiters[z]) :
           waiters[z][p] \in JobIds /\ waiters[z][p] # created'
    BY <1>1 DEF Orderly, TypeOK, Queues, Queued
  <2>2. \A z \in Sources : Queued(z, waiters[z])'
    BY <1>2, <1>3, <2>1 DEF Orderly, Queues, Queued, SourceOfJob
  <2>3. \A i \in JobIds : task'[i] = "queued" => i # created' /\ task[i] = "queued"
    BY <1>2, <1>3, <1>1 DEF Orderly, TypeOK
  <2>4. \A i \in JobIds : task'[i] = "queued" =>
           \E p \in 1..Len(waiters'[SourceOf[target'[i]]]) : waiters'[SourceOf[target'[i]]][p] = i
    BY <1>2, <1>3, <2>3 DEF Orderly, Queues
  <2> QED
    BY <2>2, <2>4 DEF Queues, SourceOfJob
<1> QED
  BY <1>4, <1>5, <1>6, <1>7 DEF Orderly

LEMMA BeginOrderly ==
    ASSUME JobsAssumption, IInv, Orderly, NEW j \in JobIds,
           \/ BeginLocked(j) \/ BeginQueued(j) \/ NeverBegins(j)
           \/ LockGranted(j) \/ CancelledInQueue(j)
    PROVE  Orderly'
<1>0. SourceOfJob(j) \in Sources /\ waiters[SourceOfJob(j)] \in Seq(JobIds)
  BY DEF BeginLocked, BeginQueued, NeverBegins, LockGranted, CancelledInQueue,
         IInv, Registry, SourceOfJob, Sources, Orderly, TypeOK
<1>1. CASE BeginLocked(j)
  <2>1. UNCHANGED <<waiters, target>> /\ task[j] = "created"
    BY <1>1 DEF BeginLocked, registry
  <2>2. \A stage \in {"over", "running"} : task' = [task EXCEPT ![j] = stage] => Queues'
    BY <2>1, QueuesKept DEF Orderly, TypeOK
  <2>3. waiters' \in [Sources -> Seq(JobIds)]
    BY <2>1 DEF Orderly, TypeOK
  <2> QED
    BY <1>1, <2>2, <2>3, LockedOrderly DEF BeginLocked
<1>2. CASE LockGranted(j)
  <2>1. /\ UNCHANGED <<registry, target, runtime, aged>> /\ task[j] = "queued" /\ Locked(j)
        /\ waiters' = [waiters EXCEPT ![SourceOfJob(j)] = Tail(@)]
        /\ Head(waiters[SourceOfJob(j)]) = j /\ holder[SourceOfJob(j)] = None
    BY <1>2 DEF LockGranted, registry
  <2>2. waiters[SourceOfJob(j)] # <<>>
    BY <1>0, <2>1 DEF Orderly, Queues
  <2>3. /\ Tail(waiters[SourceOfJob(j)]) \in Seq(JobIds)
        /\ Without(Tail(waiters[SourceOfJob(j)]), waiters[SourceOfJob(j)], 1)
        /\ 1 \in 1..Len(waiters[SourceOfJob(j)]) /\ waiters[SourceOfJob(j)][1] = j
    BY <1>0, <2>1, <2>2, TailIsWithout
  <2>4. \A stage \in {"over", "running"} : task' = [task EXCEPT ![j] = stage] => Queues'
    BY <2>1, <2>3, QueueLeft
  <2>5. waiters' \in [Sources -> Seq(JobIds)]
    BY <1>0, <2>1, <2>3 DEF Orderly, TypeOK
  <2> QED
    BY <2>1, <2>4, <2>5, LockedOrderly
<1>3. CASE CancelledInQueue(j)
  <2>1. /\ UNCHANGED <<registry, target, process, holder, runtime, aged>>
        /\ task[j] = "queued" /\ End(j, CancelledStatus(j)) /\ task' = [task EXCEPT ![j] = "over"]
    BY <1>3 DEF CancelledInQueue, registry, End
  <2>2. PICK p \in 1..Len(waiters[SourceOfJob(j)]) :
           /\ waiters[SourceOfJob(j)][p] = j
           /\ waiters' = [waiters EXCEPT ![SourceOfJob(j)] = RemoveAt(@, p)]
    <3>1. DOMAIN waiters[SourceOfJob(j)] = 1..Len(waiters[SourceOfJob(j)])
      BY <1>0
    <3> QED
      BY <1>3, <3>1 DEF CancelledInQueue
  <2>3. /\ RemoveAt(waiters[SourceOfJob(j)], p) \in Seq(JobIds)
        /\ Without(RemoveAt(waiters[SourceOfJob(j)], p), waiters[SourceOfJob(j)], p)
    BY <1>0, RemoveAtIsWithout
  <2>4. Queues'
    BY <2>1, <2>2, <2>3, QueueLeft
  <2>5. waiters' \in [Sources -> Seq(JobIds)]
    BY <1>0, <2>2, <2>3 DEF Orderly, TypeOK
  <2>6. CancelledStatus(j) \in Live \cup Settled
    BY <2>1 DEF Live, CancelledStatus, Orderly, TypeOK, Life, Settled, Terminal
  <2> QED
    BY <2>1, <2>4, <2>5, <2>6, HoldsNone, EndOrderly
<1>4. CASE BeginQueued(j)
  <2>1. /\ UNCHANGED <<created, target, status, cancels, process, holder, runtime, healthJob, aged>>
        /\ task[j] = "created" /\ task' = [task EXCEPT ![j] = "queued"]
        /\ waiters' = [waiters EXCEPT ![SourceOfJob(j)] = Append(@, j)]
    BY <1>4 DEF BeginQueued, registry
  <2>2. Queues'
    BY <2>1, QueueJoined
  <2>3. Append(waiters[SourceOfJob(j)], j) \in Seq(JobIds)
    BY <1>0, Appended
  <2>4. TypeOK'
    BY <1>0, <2>1, <2>3 DEF Orderly, TypeOK
  <2>5. \A i \in JobIds : Life(i)'
    BY <2>1 DEF Orderly, TypeOK, Life, Settled, Terminal
  <2>6. HolderWorks'
    BY <2>1, HoldsNone DEF Orderly, TypeOK, HolderWorks, SourceOfJob
  <2> QED
    BY <2>2, <2>4, <2>5, <2>6 DEF Orderly
<1>5. CASE NeverBegins(j)
  <2>1. /\ UNCHANGED <<created, target, status, process, holder, waiters, runtime, healthJob, aged>>
        /\ task[j] = "created" /\ task' = [task EXCEPT ![j] = "over"] /\ cancels' \subseteq cancels
    BY <1>5 DEF NeverBegins, registry
  <2>2. Queues'
    BY <2>1, QueuesKept DEF Orderly, TypeOK
  <2>4. TypeOK'
    BY <2>1 DEF Orderly, TypeOK
  <2>5. \A i \in JobIds : Life(i)'
    BY <2>1 DEF Orderly, TypeOK, Life, Settled, Terminal
  <2>6. HolderWorks'
    BY <2>1, HoldsNone DEF Orderly, TypeOK, HolderWorks, SourceOfJob
  <2> QED
    BY <2>2, <2>4, <2>5, <2>6 DEF Orderly
<1> QED
  BY <1>1, <1>2, <1>3, <1>4, <1>5

LEMMA ProcessOrderly ==
    ASSUME JobsAssumption, IInv, Orderly, NEW j \in JobIds,
           ProcessExits(j) \/ Deadline(j) \/ CancelledRunning(j) \/ GraceExpires(j)
    PROVE  Orderly'
<1>1. PICK how \in {"exited", "killed", "terminated"} : process' = [process EXCEPT ![j] = how]
  BY DEF ProcessExits, Deadline, CancelledRunning, GraceExpires
<1>2. \/ UNCHANGED task
      \/ task[j] = "running" /\ \E stage \in {"timing-out", "stopping"} :
                                   task' = [task EXCEPT ![j] = stage]
  BY DEF ProcessExits, Deadline, CancelledRunning, GraceExpires
<1>3. /\ UNCHANGED <<created, target, status, holder, waiters, runtime, healthJob, aged>>
      /\ cancels' \subseteq cancels
  BY DEF ProcessExits, Deadline, CancelledRunning, GraceExpires, registry
<1>4. TypeOK'
  BY <1>1, <1>2, <1>3 DEF Orderly, TypeOK
<1>5. Queues'
  BY <1>2, <1>3, QueuesKept DEF Orderly, TypeOK
<1>6. \A i \in JobIds : Life(i)'
  BY <1>2, <1>3 DEF Orderly, TypeOK, Life, Settled, Terminal
<1>7. HolderWorks'
  BY <1>2, <1>3 DEF Orderly, TypeOK, HolderWorks, SourceOfJob
<1> QED
  BY <1>4, <1>5, <1>6, <1>7 DEF Orderly

LEMMA EndStepsOrderly ==
    ASSUME JobsAssumption, IInv, Orderly, NEW j \in JobIds,
           Returned(j) \/ CancelledAwaitingExit(j) \/ Stopped(j)
    PROVE  Orderly'
<1>1. /\ task[j] \in {"running", "timing-out", "stopping"} /\ Release(j)
      /\ UNCHANGED <<registry, target, process, waiters, runtime, aged>>
  BY DEF Returned, CancelledAwaitingExit, Stopped, registry
<1>2. PICK s \in Live \cup Settled : End(j, s)
  <2>1. CancelledStatus(j) \in Live \cup Settled
    BY <1>1 DEF CancelledStatus, Orderly, TypeOK, Life, Settled, Terminal
  <2>2. {"done", "error", "cancelled"} \subseteq Live \cup Settled
    BY DEF Settled, Terminal
  <2>3. CASE Returned(j)
    <3>1. ReturnStatuses(j) \subseteq {"done", "error", "cancelled"}
      BY DEF ReturnStatuses
    <3> QED
      BY <2>2, <2>3, <3>1 DEF Returned
  <2>4. CASE CancelledAwaitingExit(j) \/ Stopped(j)
    BY <2>1, <2>2, <2>4 DEF CancelledAwaitingExit, Stopped
  <2> QED
    BY <2>3, <2>4
<1>3. Queues'
  <2>1. task' = [task EXCEPT ![j] = "over"]
    BY <1>2 DEF End
  <2> QED
    BY <1>1, <2>1, QueuesKept DEF Orderly, TypeOK
<1>4. waiters' \in [Sources -> Seq(JobIds)]
  BY <1>1 DEF Orderly, TypeOK
<1> QED
  BY <1>1, <1>2, <1>3, <1>4, EndOrderly

LEMMA RegistryOrderly ==
    ASSUME JobsAssumption, IInv, Orderly,
           \/ \E j \in JobIds : TaskDone(j) \/ Cancel(j) \/ Ages(j)
           \/ CancelAll \/ Sweep \/ UNCHANGED vars
    PROVE  Orderly'
<1>1. UNCHANGED <<created, target, task, process, holder, waiters>>
  BY DEF TaskDone, Cancel, CancelAll, CancelJobs, Ages, Sweep, vars, registry
<1>2. HolderWorks' /\ Queues'
  BY <1>1, QueuesKept DEF Orderly, HolderWorks, SourceOfJob
<1>3. ASSUME NEW S \in SUBSET JobIds, CancelJobs(S)
      PROVE  TypeOK' /\ \A i \in JobIds : Life(i)'
  <2>1. /\ status' \in [JobIds -> {"none"} \cup Live \cup Settled]
        /\ \A i \in JobIds :
             \/ status'[i] = status[i]
             \/ status[i] = "running" /\ status'[i] = "cancelling"
             \/ /\ status[i] = "running" /\ status'[i] = "cancelled"
                /\ i \notin runtime \/ task[i] = "over"
    BY <1>3 DEF CancelJobs, Orderly, TypeOK, Live, Settled, Terminal
  <2>2. cancels' \subseteq JobIds /\ UNCHANGED <<runtime, healthJob, aged>>
    BY <1>3 DEF CancelJobs, Orderly, TypeOK
  <2>3. TypeOK'
    BY <1>1, <2>1, <2>2 DEF Orderly, TypeOK
  <2>4. \A i \in JobIds : Life(i)'
    BY <1>1, <2>1, <2>2 DEF Orderly, Life, Settled, Terminal
  <2> QED
    BY <2>3, <2>4
<1>4. ASSUME Sweep PROVE TypeOK' /\ \A i \in JobIds : Life(i)'
  <2>1. /\ status' \in [JobIds -> {"none"} \cup Live \cup Settled]
        /\ \A i \in JobIds : \/ status'[i] = status[i]
                             \/ status[i] \in Terminal /\ status'[i] = "evicted"
        /\ healthJob' \in [Datasets -> JobIds \cup {None}]
        /\ runtime' \subseteq runtime
        /\ \A i \in runtime \ runtime' : status[i] \in Terminal
        /\ UNCHANGED <<cancels, aged>>
    BY <1>4 DEF Sweep, Orderly, TypeOK, Settled
  <2>2. TypeOK'
    BY <1>1, <2>1 DEF Orderly, TypeOK
  <2>3. \A i \in JobIds : Life(i)'
    BY <1>1, <2>1 DEF Orderly, Life, Settled, Terminal
  <2> QED
    BY <2>2, <2>3
<1>5. ASSUME NEW j \in JobIds, TaskDone(j) PROVE TypeOK' /\ \A i \in JobIds : Life(i)'
  BY <1>1, <1>5 DEF TaskDone, Orderly, TypeOK, Life
<1>6. ASSUME UNCHANGED <<status, cancels, runtime, healthJob>>, aged' \subseteq JobIds
      PROVE  TypeOK' /\ \A i \in JobIds : Life(i)'
  BY <1>1, <1>6 DEF Orderly, TypeOK, Life
<1>7. TypeOK' /\ \A i \in JobIds : Life(i)'
  <2>1. aged \subseteq JobIds
    BY DEF Orderly, TypeOK
  <2> QED
    BY <1>3, <1>4, <1>5, <1>6, <2>1 DEF Cancel, CancelAll, Ages, vars
<1> QED
  BY <1>2, <1>7 DEF Orderly

LEMMA NextOrderly == ASSUME JobsAssumption PROVE IInv /\ Orderly /\ [Next]_vars => Orderly'
<1> SUFFICES ASSUME IInv, Orderly, [Next]_vars PROVE Orderly'
  OBVIOUS
<1> QED
  BY SubmitOrderly, BeginOrderly, ProcessOrderly, EndStepsOrderly, RegistryOrderly DEF Next, Advance

-----------------------------------------------------------------------------
(* The properties of both layers *)

Inv == IInv /\ Orderly

LEMMA Invariance == ASSUME JobsAssumption PROVE Spec => []Inv
<1>1. Init => Inv
  BY InitIInv, InitOrderly DEF Inv
<1>2. Inv /\ [Next]_vars => Inv'
  BY NextIInv, NextOrderly DEF Inv
<1> QED
  BY <1>1, <1>2, PTL DEF Spec

\* What a job excludes it gives back: a job that is settled has no task, holds and awaits
\* no lock and has no subprocess that was not told to stop.
THEOREM JobsExcludeAndRelease == ASSUME JobsAssumption PROVE Spec => []JobsExclude
<1>1. Inv => JobsExclude
  <2> SUFFICES ASSUME Inv PROVE SettledHoldsNothing
    BY DEF Inv, IInv, Orderly, JobsExclude
  <2> SUFFICES ASSUME NEW j \in JobIds, status[j] \in Settled
               PROVE  /\ task[j] = "over"
                      /\ process[j] # "alive"
                      /\ holder[SourceOfJob(j)] # j
                      /\ ~Contains(waiters[SourceOfJob(j)], j)
    BY DEF SettledHoldsNothing
  <2>1. task[j] = "over"
    BY DEF Inv, Orderly, Life
  <2>2. process[j] # "alive"
    BY <2>1 DEF Inv, IInv, AliveIsAwaited
  <2>3. SourceOfJob(j) \in Sources
    BY <2>1 DEF Inv, IInv, Registry, SourceOfJob, Sources
  <2>4. holder[SourceOfJob(j)] # j
    BY <2>1, <2>3, HoldsNone DEF Inv
  <2>5. ~Contains(waiters[SourceOfJob(j)], j)
    BY <2>1, <2>3 DEF Contains, Inv, Orderly, Queues, Queued
  <2> QED
    BY <2>1, <2>2, <2>4, <2>5
<1> QED
  BY <1>1, Invariance, PTL

\* The task of a settled job does nothing more, so only the cleanup loop touches its
\* status; and a job that is being cancelled ends cancelled, or in error.
LEMMA VerdictStep ==
    ASSUME JobsAssumption, Inv, [Next]_vars, NEW j \in JobIds
    PROVE  VerdictStands(j)
<1> USE DEF VerdictStands
<1>0. /\ status[j] \in Terminal => task[j] = "over"
      /\ status \in [JobIds -> {"none"} \cup Live \cup Settled]
  BY DEF Inv, Orderly, TypeOK, Life, Settled
<1>1. CASE UNCHANGED status
  BY <1>1 DEF Terminal
<1>2. ASSUME NEW t \in Targets, Submit(t) PROVE VerdictStands(j)
  <2>1. /\ created' \in JobIds /\ task[created'] = "none"
        /\ status' = [status EXCEPT ![created'] = "running"]
    BY <1>2 DEF JobsAssumption, Submit, Inv, IInv, Registry, JobIds
  <2>2. status[created'] = "none"
    BY <2>1 DEF Inv, Orderly, Life
  <2> QED
    BY <1>0, <2>1, <2>2 DEF Terminal
<1>3. ASSUME NEW i \in JobIds, NEW s, task[i] # "over", End(i, s),
             i = j /\ status[j] = "cancelling" /\ target[j] \notin Devices => s # "done"
      PROVE  VerdictStands(j)
  BY <1>0, <1>3 DEF End, Terminal
<1>4. ASSUME NEW i \in JobIds, BeginLocked(i) \/ LockGranted(i) PROVE VerdictStands(j)
  <2>1. CASE status[i] \in {"evicted", "cancelling"}
    <3>1. End(i, IF status[i] = "evicted" THEN "evicted" ELSE "cancelled") /\ task[i] # "over"
      BY <1>4, <2>1 DEF BeginLocked, LockGranted, Locked
    <3> QED
      BY <1>3, <3>1
  <2>2. CASE status[i] \notin {"evicted", "cancelling"}
    BY <1>1, <1>4, <2>2 DEF BeginLocked, LockGranted, Locked
  <2> QED
    BY <2>1, <2>2
<1>5. ASSUME NEW i \in JobIds, CancelledInQueue(i) \/ CancelledAwaitingExit(i) \/ Stopped(i)
      PROVE  VerdictStands(j)
  <2>1. PICK s \in {"error", CancelledStatus(i)} : End(i, s)
    BY <1>5 DEF CancelledInQueue, CancelledAwaitingExit, Stopped
  <2>2. task[i] # "over"
    BY <1>5 DEF CancelledInQueue, CancelledAwaitingExit, Stopped
  <2>3. status[i] = "cancelling" => s # "done"
    BY DEF CancelledStatus
  <2> QED
    BY <1>3, <2>1, <2>2, <2>3
<1>6. ASSUME NEW i \in JobIds, Returned(i) PROVE VerdictStands(j)
  <2>1. PICK s \in ReturnStatuses(i) : End(i, s)
    BY <1>6 DEF Returned
  <2>2. status[i] = "cancelling" /\ target[i] \notin Devices => s # "done"
    BY <2>1 DEF ReturnStatuses
  <2>3. task[i] # "over"
    BY <1>6 DEF Returned
  <2> QED
    BY <1>3, <2>1, <2>2, <2>3
<1>7. ASSUME NEW S \in SUBSET JobIds, CancelJobs(S) PROVE VerdictStands(j)
  BY <1>0, <1>7 DEF CancelJobs, Terminal
<1>8. CASE Sweep
  BY <1>0, <1>8 DEF Sweep, Terminal
<1>9. ASSUME NEW i \in JobIds,
             \/ BeginQueued(i) \/ NeverBegins(i) \/ Deadline(i) \/ CancelledRunning(i)
             \/ GraceExpires(i) \/ TaskDone(i) \/ ProcessExits(i) \/ Ages(i)
      PROVE  UNCHANGED status
  BY <1>9 DEF BeginQueued, NeverBegins, Deadline, CancelledRunning, GraceExpires, TaskDone,
              ProcessExits, Ages
<1>10. ASSUME NEW i \in JobIds, Cancel(i) PROVE VerdictStands(j)
  BY <1>7, <1>10 DEF Cancel
<1>11. CASE CancelAll
  BY <1>7, <1>11 DEF CancelAll
<1>12. CASE UNCHANGED vars
  BY <1>1, <1>12 DEF vars
<1> HIDE DEF VerdictStands
<1> QED
  BY <1>1, <1>2, <1>4, <1>5, <1>6, <1>8, <1>9, <1>10, <1>11, <1>12 DEF Next, Advance

\* A verdict a client has seen stands until the record is evicted, and a snapshot or
\* health job whose cancellation was accepted is never reported done.
THEOREM VerdictsAreFinal == ASSUME JobsAssumption PROVE Spec => VerdictsStand
<1>1. Inv /\ [Next]_vars => [\A j \in JobIds : VerdictStands(j)]_vars
  BY VerdictStep
<1> QED
  BY <1>1, Invariance, PTL DEF Spec, VerdictsStand

===============================================================================
