----------------------------- MODULE WebRequests -----------------------------
(***************************************************************************)
(* The short refreshes of the web server (src/src/td_webserver.py), which  *)
(* answer the request that asked for them, and the server's shutdown.      *)
(*                                                                         *)
(* One source, hence one source lock: requests for its files and the       *)
(* background jobs (module WebJobs, here only a holder of the lock)        *)
(* compete for it on one event loop.  The td_cli processes, the clock and  *)
(* the drain of the connections by aiohttp are the environment.            *)
(***************************************************************************)
EXTENDS Integers, Sequences

CONSTANTS Requests,    \* 1..n, numbered as they arrive
          Files,
          CatalogAge,  \* max_age_s of the files
          Ages,        \* the max-age values clients ask for
          MaxTime,     \* bound on the clock
          Job, None

RequestsAssumption ==
    /\ CatalogAge \in Nat /\ Ages \subseteq Nat /\ MaxTime \in Nat
    /\ Job \notin Requests /\ None \notin Requests \cup Nat \cup {Job}

VARIABLES
    clock,
    written,   \* modification time of each file, None when it is absent
    wants,     \* what each request asks for
    at,        \* where its handler is
    joined,    \* the request whose task it awaits
    answer,    \* modification time of the file it was answered with, and when that was
    answered,
    holder, queue,  \* the source lock
    active,    \* _active_processes: the request that started a file's task
    process,   \* its td_cli
    server     \* "up", "stopping" (on_shutdown), "draining" or "exited"

handlers == <<wants, at, joined, answer, answered>>
lock     == <<holder, queue>>
vars     == <<clock, written, handlers, lock, active, process, server>>

Init ==
    /\ clock = 0 /\ written \in [Files -> {None, 0}]
    /\ wants = [r \in Requests |-> None] /\ at = [r \in Requests |-> "none"]
    /\ joined = [r \in Requests |-> None] /\ answer = [r \in Requests |-> None]
    /\ answered = [r \in Requests |-> None]
    /\ holder = None /\ queue = <<>> /\ active = [f \in Files |-> None]
    /\ process = [r \in Requests |-> "none"] /\ server = "up"

-------------------------------------------------------------------------------
(* A request and the lock.                                                 *)

Fresh(f, age) == written[f] # None /\ clock - written[f] < age

Regenerate(w) == w.noCache \/ ~Fresh(w.file, IF w.age = None THEN CatalogAge ELSE w.age)

Answered(r, f) ==
    /\ at' = [at EXCEPT ![r] = "answered"] /\ answer' = [answer EXCEPT ![r] = written[f]]
    /\ answered' = [answered EXCEPT ![r] = clock]

\* Mutant: a file that is there after the wait is taken to be the one waited for.
UpToDateIfThere(w) == written[w.file] # None /\ ~w.noCache

\* Under the lock: another request may have written the file meanwhile.
UpToDate(w) == Fresh(w.file, CatalogAge) /\ ~w.noCache

\* The lock is had: answer from the file, or start td_cli.
Locked(r, w) ==
    IF UpToDate(w)
    THEN Answered(r, w.file) /\ UNCHANGED <<holder, active, process>>
    ELSE /\ holder' = r /\ active' = [active EXCEPT ![w.file] = r]
         /\ process' = [process EXCEPT ![r] = "alive"]
         /\ at' = [at EXCEPT ![r] = "running"] /\ UNCHANGED <<answer, answered>>

Free == holder = None /\ queue = <<>>

Request(r, w) ==
    /\ server = "up" /\ at[r] = "none" /\ \A q \in 1..(r-1) : at[q] # "none"
    /\ wants' = [wants EXCEPT ![r] = [file |-> w.file, noCache |-> w.noCache, age |-> w.age,
                                      asked |-> clock]]
    /\ UNCHANGED <<clock, written, server>>
    /\ CASE ~Regenerate(w) ->
              Answered(r, w.file) /\ UNCHANGED <<joined, lock, active, process>>
         [] Regenerate(w) /\ active[w.file] # None ->
              /\ at' = [at EXCEPT ![r] = "joining"]
              /\ joined' = [joined EXCEPT ![r] = active[w.file]]
              /\ UNCHANGED <<answer, answered, lock, active, process>>
         [] Regenerate(w) /\ active[w.file] = None /\ Free ->
              Locked(r, w) /\ UNCHANGED <<joined, queue>>
         [] Regenerate(w) /\ active[w.file] = None /\ ~Free ->
              /\ at' = [at EXCEPT ![r] = "waiting"] /\ queue' = Append(queue, r)
              /\ UNCHANGED <<joined, answer, answered, holder, active, process>>

Granted(r) ==
    /\ at[r] = "waiting" /\ holder = None /\ Head(queue) = r
    /\ queue' = Tail(queue) /\ Locked(r, wants[r])
    /\ UNCHANGED <<clock, written, wants, joined, server>>

JobTakes ==
    /\ server = "up" /\ Free /\ holder' = Job
    /\ UNCHANGED <<clock, written, handlers, queue, active, process, server>>

\* The job is over, or was cancelled by the shutdown.
JobReleases ==
    /\ holder = Job /\ holder' = None
    /\ UNCHANGED <<clock, written, handlers, queue, active, process, server>>

-------------------------------------------------------------------------------
(* run_td_cli.                                                             *)

\* td_cli ends, with its file written or not; told to end, it counts as failed.
Exits(r) ==
    /\ process[r] \in {"alive", "terminated", "killed"}
    /\ \/ /\ process' = [process EXCEPT ![r] = IF process[r] = "alive" THEN "done" ELSE "failed"]
          /\ written' = [written EXCEPT ![wants[r].file] = clock]
       \/ process' = [process EXCEPT ![r] = "failed"] /\ UNCHANGED written
    /\ UNCHANGED <<clock, handlers, lock, active, server>>

\* The deadline kills at once; the grace of a terminated process ends.
Kill(r) ==
    /\ process[r] \in {"alive", "terminated"}
    /\ process' = [process EXCEPT ![r] = "killed"]
    /\ UNCHANGED <<clock, written, handlers, lock, active, server>>

Over(r) == process[r] \in {"done", "failed"}

\* The task is over: its own request goes on, and gives the lock back.
Returns(r) ==
    /\ at[r] = "running" /\ Over(r)
    /\ IF process[r] = "done" THEN Answered(r, wants[r].file)
       ELSE at' = [at EXCEPT ![r] = "failed"] /\ UNCHANGED <<answer, answered>>
    /\ holder' = None /\ active' = [active EXCEPT ![wants[r].file] = None]
    /\ UNCHANGED <<clock, written, wants, joined, queue, process, server>>

\* And so do the requests that joined it.
Joins(r) ==
    /\ at[r] = "joining" /\ Over(joined[r])
    /\ IF process[joined[r]] = "done" THEN Answered(r, wants[r].file)
       ELSE at' = [at EXCEPT ![r] = "failed"] /\ UNCHANGED <<answer, answered>>
    /\ UNCHANGED <<clock, written, wants, joined, lock, active, process, server>>

-------------------------------------------------------------------------------
(* Shutdown.                                                               *)

\* CancelledError in the tasks of S: each terminates its process, and waits for it.
CancelTasks(S) ==
    /\ process' = [r \in Requests |->
                     IF r \in S /\ process[r] = "alive" THEN "terminated" ELSE process[r]]
    /\ at' = [r \in Requests |->
                IF r \in S /\ at[r] \in {"waiting", "joining"} THEN "failed" ELSE at[r]]

Running == {r \in Requests : at[r] = "running"}
Pending == {r \in Requests : at[r] \in {"waiting", "running", "joining"}}

\* on_shutdown cancels the tasks it sees.  A request that waits for the lock has none yet.
Shutdown ==
    /\ server = "up" /\ server' = "stopping"
    /\ CancelTasks(Running)
    /\ UNCHANGED <<clock, written, wants, joined, answer, answered, lock, active>>

\* It waits for them, and clears the table; what waited for the lock may have begun since.
ShutdownEnds ==
    /\ server = "stopping" /\ holder # Job
    /\ \A r \in Running : process[r] = "alive"
    /\ server' = "draining" /\ active' = [f \in Files |-> None]
    /\ UNCHANGED <<clock, written, handlers, lock, process>>

\* aiohttp cancels the handlers that are left, and with them the tasks they await.
Drain ==
    /\ server = "draining" /\ server' = "cancelling"
    /\ CancelTasks(Pending) /\ queue' = <<>>
    /\ UNCHANGED <<clock, written, wants, joined, answer, answered, holder, active>>

ServerExits ==
    /\ server = "cancelling" /\ Pending = {} /\ server' = "exited"
    /\ UNCHANGED <<clock, written, handlers, lock, active, process>>

Tick ==
    /\ clock < MaxTime /\ clock' = clock + 1
    /\ UNCHANGED <<written, handlers, lock, active, process, server>>

Wishes ==
    [file : Files, noCache : {FALSE}, age : Ages \cup {None}]
      \cup [file : Files, noCache : {TRUE}, age : {None}]

Next ==
    \/ \E r \in Requests :
         \/ \E w \in Wishes : Request(r, w)
         \/ Granted(r) \/ Exits(r) \/ Kill(r) \/ Returns(r) \/ Joins(r)
    \/ JobTakes \/ JobReleases
    \/ Shutdown \/ ShutdownEnds \/ Drain \/ ServerExits
    \/ Tick

Spec == Init /\ [][Next]_vars

-------------------------------------------------------------------------------
TypeOK ==
    /\ clock \in 0..MaxTime /\ written \in [Files -> 0..clock \cup {None}]
    /\ at \in [Requests -> {"none", "waiting", "running", "joining", "answered", "failed"}]
    /\ holder \in Requests \cup {Job, None} /\ queue \in Seq(Requests)
    /\ active \in [Files -> Requests \cup {None}]
    /\ process \in [Requests -> {"none", "alive", "terminated", "killed", "done", "failed"}]
    /\ server \in {"up", "stopping", "draining", "cancelling", "exited"}

\* Whoever ran td_cli, and however long the request waited, the file it is answered with
\* was written since it asked, or since the request whose task it joined asked, or is not
\* older than the catalog, or the client, allows; with no-cache age is no excuse.
AnswersAreFresh ==
    \A r \in Requests : at[r] = "answered" =>
        LET w == wants[r] IN
        \/ answer[r] # None /\ answer[r] >= wants[IF joined[r] = None THEN r ELSE joined[r]].asked
        \/ ~w.noCache /\ answered[r] - answer[r] < CatalogAge
        \/ ~w.noCache /\ w.age # None /\ answered[r] - answer[r] < w.age

\* The tasks of one file's requests never run at the same time, in a shutdown either, and
\* none survives the server.
OneTaskAtATime ==
    /\ \A r, q \in Requests : {process[r], process[q]} \subseteq {"alive", "terminated", "killed"}
                               => r = q
    /\ server = "exited" =>
          \A r \in Requests : process[r] \notin {"alive", "terminated", "killed"}
==============================================================================
