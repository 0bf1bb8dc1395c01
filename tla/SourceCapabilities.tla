-------------------------- MODULE SourceCapabilities --------------------------
(***************************************************************************)
(* SourceCapabilityService (src/src/td_source_capabilities.py): what the   *)
(* dashboard is told of a source, from its cached files when there are     *)
(* any, else from a live probe.                                            *)
(*                                                                         *)
(* The inspection of the files runs in a thread while collectors replace   *)
(* them; every read of one file is a step.  Inspections and probes in      *)
(* flight are shared by the requests, on one event loop.                   *)
(***************************************************************************)
EXTENDS Integers, Sequences, FiniteSets

CONSTANTS Callers,
          NumFiles,   \* the files of the source are 1..NumFiles
          Attempts,   \* of an inspection: 3
          Ttl,        \* probe_ttl_seconds
          ProbeTime,  \* a probe is cut off by its timeouts after so long
          MaxWrites, MaxTime,  \* bounds
          None

SourceFiles == 1..NumFiles

CapabilitiesAssumption ==
    /\ NumFiles \in Nat \ {0} /\ Attempts \in Nat \ {0} /\ Ttl \in Nat /\ ProbeTime \in Nat
    /\ MaxWrites \in Nat /\ MaxTime \in Nat
    /\ None \notin Nat \cup [began : Nat, looked : Nat \cup {None}]

VARIABLES
    disk,      \* the version of each file, which is its signature too; 0 while it is absent
    writes, clock,
    step,      \* the inspecting thread: "off", "before", "read", "after"
    next,      \* the file it looks at next
    attempt,   \* the how maniest it is
    before, seen, after,  \* signatures and contents it has read
    cache,     \* _inspection_cache: the signatures found, and the contents read with them
    since,     \* history: what the disk held while the inspection in flight ran
    at, asked, \* where each request is, and when it asked for a probe
    files,     \* the inspection it was given, and what the disk had held meanwhile
    probe,     \* _inflight: when the running probe began and looked; None
    known,     \* _probe_cache: expiry, and when the probe had looked
    age        \* of the probe result each request was answered with

thread == <<step, next, attempt, before, seen, after>>
vars   == <<disk, writes, clock, thread, cache, since, at, asked, files, probe, known, age>>

Nothing == <<>>

Init ==
    /\ disk \in [SourceFiles -> {0, 1}] /\ writes = 0 /\ clock = 0
    /\ step = "off" /\ next = 1 /\ attempt = 1
    /\ before = Nothing /\ seen = Nothing /\ after = Nothing
    /\ cache = Nothing /\ since = {}
    /\ at = [c \in Callers |-> "idle"] /\ files = [c \in Callers |-> None]
    /\ asked = [c \in Callers |-> None]
    /\ probe = None /\ known = None /\ age = [c \in Callers |-> None]

-------------------------------------------------------------------------------
(* The collectors and the clock.                                           *)

Probing == {c \in Callers : at[c] = "probing"}
Cached(contents) == \E f \in SourceFiles : contents[f] > 0

\* A file is written, or removed.  A version never comes back, as the inode and the times in
\* the signature do not; but absence does: its signature is always the same.
Write(f) ==
    /\ writes < MaxWrites
    /\ writes' = writes + 1
    /\ \E v \in {writes + 2, 0} \ {disk[f]} : disk' = [disk EXCEPT ![f] = v]
    /\ since' = IF step = "off" THEN since ELSE since \cup {disk'}
    /\ UNCHANGED <<clock, thread, cache, at, files, probe, known, age, asked>>

Tick ==
    /\ clock < MaxTime /\ clock' = clock + 1
    /\ Probing # {} => clock < probe.began + ProbeTime
    /\ UNCHANGED <<disk, writes, thread, cache, since, at, files, probe, known, age, asked>>

-------------------------------------------------------------------------------
(* The inspection.                                                         *)

Goes(s) == step' = s /\ next' = 1

\* capabilities(): the request joins the inspection in flight, or starts one.
Ask(c) ==
    /\ at[c] = "idle" /\ at' = [at EXCEPT ![c] = "inspecting"]
    /\ IF step = "off"
       THEN /\ Goes("before") /\ attempt' = 1 /\ since' = {disk}
            /\ before' = Nothing /\ seen' = Nothing /\ after' = Nothing
       ELSE UNCHANGED <<thread, since>>
    /\ UNCHANGED <<disk, writes, clock, cache, files, probe, known, age, asked>>

Inspecting == {c \in Callers : at[c] = "inspecting"}

\* The shared result reaches everybody who awaits it.
Deliver(contents) ==
    /\ files' = [c \in Callers |-> IF c \in Inspecting THEN [got |-> contents, of |-> since]
                                   ELSE files[c]]
    /\ at' = [c \in Callers |-> IF c \in Inspecting THEN "deciding" ELSE at[c]]
    /\ step' = "off" /\ since' = {} /\ next' = 1 /\ attempt' = 1
    /\ before' = Nothing /\ seen' = Nothing /\ after' = Nothing

ReadSignature ==
    /\ step = "before" /\ next <= NumFiles
    /\ before' = Append(before, disk[next]) /\ next' = next + 1
    /\ UNCHANGED <<disk, writes, clock, step, attempt, seen, after, cache, since,
                   at, files, probe, known, age, asked>>

SignatureRead ==
    /\ step = "before" /\ next > NumFiles
    /\ IF cache # Nothing /\ cache.sign = before THEN Deliver(cache.got)
       ELSE Goes("read") /\ UNCHANGED <<attempt, before, seen, after, since, at, files>>
    /\ UNCHANGED <<disk, writes, clock, cache, probe, known, age, asked>>

ReadFile ==
    /\ step = "read" /\ next <= NumFiles
    /\ seen' = Append(seen, disk[next])
    /\ IF next < NumFiles THEN next' = next + 1 /\ UNCHANGED step ELSE Goes("after")
    /\ UNCHANGED <<disk, writes, clock, attempt, before, after, cache, since,
                   at, files, probe, known, age, asked>>

ReadSignatureAgain ==
    /\ step = "after" /\ next <= NumFiles
    /\ after' = Append(after, disk[next]) /\ next' = next + 1
    /\ UNCHANGED <<disk, writes, clock, step, attempt, before, seen, cache, since,
                   at, files, probe, known, age, asked>>

\* Mutant: what was read is kept, whatever was written meanwhile.
UndisturbedAnyhow == TRUE

Undisturbed == before = after

\* The signatures have not changed while the files were read: that is the answer, and it is
\* kept under them.
Inspected ==
    /\ step = "after" /\ next > NumFiles /\ Undisturbed
    /\ cache' = [sign |-> before, got |-> seen] /\ Deliver(seen)
    /\ UNCHANGED <<disk, writes, clock, probe, known, age, asked>>

\* Otherwise again, as often as that is allowed.
Retry ==
    /\ step = "after" /\ next > NumFiles /\ ~Undisturbed /\ attempt < Attempts
    /\ Goes("before") /\ attempt' = attempt + 1
    /\ before' = Nothing /\ seen' = Nothing /\ after' = Nothing
    /\ UNCHANGED <<disk, writes, clock, cache, since, at, files, probe, known, age, asked>>

GivesUp ==
    /\ step = "after" /\ next > NumFiles /\ ~Undisturbed /\ attempt = Attempts
    /\ step' = "off" /\ since' = {} /\ next' = 1 /\ attempt' = 1
    /\ before' = Nothing /\ seen' = Nothing /\ after' = Nothing
    /\ at' = [c \in Callers |-> IF c \in Inspecting THEN "idle" ELSE at[c]]
    /\ UNCHANGED <<disk, writes, clock, cache, files, probe, known, age, asked>>

-------------------------------------------------------------------------------
(* The probe of a source without cached files.                             *)

\* The request is answered, and forgotten.
FromFiles(c) ==
    /\ at[c] = "deciding" /\ Cached(files[c].got)
    /\ at' = [at EXCEPT ![c] = "idle"] /\ files' = [files EXCEPT ![c] = None]
    /\ age' = [age EXCEPT ![c] = None]
    /\ UNCHANGED <<disk, writes, clock, thread, cache, since, probe, known, asked>>

Known == known # None /\ known.until > clock

\* _run_probe: what is known, or the probe in flight, or a new one.
Probe(c) ==
    /\ at[c] = "deciding" /\ ~Cached(files[c].got)
    /\ files' = [files EXCEPT ![c] = None]
    /\ IF Known
       THEN /\ at' = [at EXCEPT ![c] = "idle"]
            /\ age' = [age EXCEPT ![c] = clock - known.looked] /\ UNCHANGED <<asked, probe>>
       ELSE /\ at' = [at EXCEPT ![c] = "probing"] /\ UNCHANGED age
            /\ asked' = [asked EXCEPT ![c] = clock]
            /\ probe' = IF probe = None THEN [began |-> clock, looked |-> None] ELSE probe
    /\ UNCHANGED <<disk, writes, clock, thread, cache, since, known>>

\* The source answers, or is found silent.
Looks ==
    /\ probe # None /\ probe.looked = None
    /\ probe' = [probe EXCEPT !.looked = clock]
    /\ UNCHANGED <<disk, writes, clock, thread, cache, since, at, files, known, age, asked>>

\* Whoever awaited the finished task removes it.
Forgotten(p) == None

\* It ends: each of those who await it stores the result with the expiry of its own
\* question, the latest last.  A task that failed is only removed.
Probed ==
    /\ probe # None /\ probe.looked # None /\ Probing # {}
    /\ \/ /\ age' = [c \in Callers |-> IF c \in Probing THEN clock - probe.looked ELSE age[c]]
          /\ \E c \in Probing : /\ \A d \in Probing : asked[d] <= asked[c]
                                /\ known' = [until |-> asked[c] + Ttl, looked |-> probe.looked]
       \/ UNCHANGED <<known, age>>
    /\ at' = [c \in Callers |-> IF c \in Probing THEN "idle" ELSE at[c]]
    /\ asked' = [c \in Callers |-> None]
    /\ probe' = Forgotten(probe)
    /\ UNCHANGED <<disk, writes, clock, thread, cache, since, files>>

Next ==
    \/ \E f \in SourceFiles : Write(f)
    \/ Tick
    \/ \E c \in Callers : Ask(c) \/ FromFiles(c) \/ Probe(c)
    \/ ReadSignature \/ SignatureRead \/ ReadFile \/ ReadSignatureAgain
    \/ Inspected \/ Retry \/ GivesUp
    \/ Looks \/ Probed

Spec == Init /\ [][Next]_vars

-------------------------------------------------------------------------------
TypeOK ==
    /\ disk \in [SourceFiles -> 0..MaxWrites + 1] /\ step \in {"off", "before", "read", "after"}
    /\ attempt \in 1..Attempts /\ (step = "off" <=> since = {})
    /\ at \in [Callers -> {"idle", "inspecting", "deciding", "probing"}]

\* The files a request is told of were on the disk together, at a moment of the inspection
\* it awaited, though neither the reads nor the signatures are atomic; what is cached too.
\* Only of a file that was absent at a moment of that inspection it may be told anything:
\* one that is written and removed between the two signatures has the signature of a file
\* that never was there, and its contents are kept, and told of later, under that.
PresentFilesAreSnapshot ==
    \A c \in Callers : files[c] # None =>
      \E d \in files[c].of : \A f \in SourceFiles :
        files[c].got[f] # d[f] => \E e \in files[c].of : e[f] = 0

\* Nobody is told the outcome of a probe that looked longer ago than the time to live
\* and the length of a probe: shared and stored outcomes age like one's own.
ProbeIsRecent == \A c \in Callers : age[c] # None => age[c] <= Ttl + ProbeTime
===============================================================================
