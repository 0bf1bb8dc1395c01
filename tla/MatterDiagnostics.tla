-------------------------- MODULE MatterDiagnostics --------------------------
(***************************************************************************)
(* The commands that collect the Thread diagnostics of the Matter server   *)
(* (src/src/ha_matter_ws_cli.py and ha_matter_ws_thread.py): `get` follows *)
(* the progressive batches of one network until it is complete or its      *)
(* time is over, `list` saves the server's cache, and both leave a final   *)
(* file and an outcome; `get` also keeps the last unfinished batch.        *)
(*                                                                         *)
(* One command runs at a time.  Its process may be killed, interrupted or  *)
(* meet a full disk between any two steps; the files stay.                 *)
(***************************************************************************)
EXTENDS Naturals, Sequences

CONSTANTS MaxTime,     \* collectedAt of a batch is in 1..MaxTime
          Variants,    \* contents of batches collected at the same time
          MaxEvents,   \* bound: update events of one collection
          MaxRuns      \* bound: commands

\* What the constants satisfy.
DiagnosticsAssumption ==
    /\ MaxTime \in Nat \ {0}
    /\ Variants # {}
    /\ MaxEvents \in Nat
    /\ MaxRuns \in Nat

\* partialReason is absent, or says that the server still collects, or that it ended.
Reasons == {"complete", "transient", "terminal"}
Batches == [at : 1..MaxTime, reason : Reasons, variant : Variants]
NoBatch == [at |-> 0, reason |-> "none", variant |-> "none"]

VARIABLES
    run,       \* commands started
    phase,     \* where the command is
    log,       \* matching events of the client, from event_cursor on
    cursor,    \* how many of them were taken
    failed,    \* the client's reader has failed
    latest,    \* the batch accepted last
    saved,     \* last_checkpoint_batch
    result,    \* status of SelectedDiagnosticsResult
    seen,      \* history: the batches this command consumed
    final, partial, outcome   \* the files

session == <<log, cursor, failed, latest, saved, result, seen>>
files   == <<final, partial, outcome>>
vars    == <<run, phase, session, files>>

NoFile    == [run |-> 0, batch |-> NoBatch]
NoOutcome == [run |-> 0, status |-> "none", batch |-> NoBatch]

Fresh ==
    /\ log = <<>> /\ cursor = 0 /\ failed = FALSE /\ latest = NoBatch
    /\ saved = NoBatch /\ result = "none" /\ seen = {}

Init ==
    /\ run = 0 /\ phase = "idle" /\ Fresh
    /\ final = NoFile /\ partial = NoFile /\ outcome = NoOutcome

-------------------------------------------------------------------------------
(* The server and the time.                                                *)

Event(b) ==
    /\ phase \in {"requesting", "collecting"} /\ ~failed /\ Len(log) < MaxEvents
    /\ log' = Append(log, b)
    /\ UNCHANGED <<run, phase, cursor, failed, latest, saved, result, seen, files>>

ReaderFails ==
    /\ phase \in {"requesting", "collecting"} /\ ~failed /\ failed' = TRUE
    /\ UNCHANGED <<run, phase, log, cursor, latest, saved, result, seen, files>>

-------------------------------------------------------------------------------
(* collect_selected_thread_diagnostics()                                   *)

StartGet ==
    /\ phase = "idle" /\ run < MaxRuns
    /\ run' = run + 1 /\ phase' = "requesting"
    /\ UNCHANGED <<session, files>>

\* write_checkpoint: a transient batch may come too soon after the last checkpoint.
Checkpoint(b, required) ==
    IF b = saved THEN UNCHANGED <<partial, saved>>
    ELSE \/ partial' = [run |-> run, batch |-> b] /\ saved' = b
         \/ ~required /\ saved # NoBatch /\ UNCHANGED <<partial, saved>>

\* An older batch is stale, another one of the same time is kept out.
Newer(b) == latest = NoBatch \/ b.at > latest.at

After(reason) ==
    IF reason = "transient" THEN phase' = "collecting" /\ UNCHANGED result
    ELSE /\ phase' = "collected"
         /\ result' = IF reason = "complete" THEN "complete" ELSE "partial"

Accept(b) ==
    /\ seen' = seen \cup {b}
    /\ IF Newer(b)
       THEN /\ latest' = b
            /\ After(b.reason)
            /\ IF b.reason = "complete" THEN UNCHANGED <<partial, saved>>
               ELSE Checkpoint(b, b.reason = "terminal")
       ELSE phase' = "collecting" /\ UNCHANGED <<latest, result, partial, saved>>
    /\ UNCHANGED <<run, log, failed, final, outcome>>

Respond(b) == phase = "requesting" /\ ~failed /\ Accept(b) /\ UNCHANGED cursor

\* The server has nothing for this network.
RespondNothing ==
    /\ phase = "requesting" /\ ~failed
    /\ phase' = "closing" /\ result' = "unavailable"
    /\ UNCHANGED <<run, log, cursor, failed, latest, saved, seen, files>>

\* next_event: what is retained comes before the failure of the reader.
Take ==
    /\ phase = "collecting" /\ cursor < Len(log)
    /\ cursor' = cursor + 1
    /\ Accept(log[cursor + 1])

Expire ==
    /\ phase = "collecting"
    /\ phase' = "collected" /\ result' = "partial"
    /\ UNCHANGED <<run, log, cursor, failed, latest, saved, seen, files>>

\* Mutant: the last unfinished batch is only in the outcome.
CollectedUnsaved ==
    /\ phase = "collected" /\ ~failed
    /\ phase' = "closing"
    /\ UNCHANGED <<run, log, cursor, failed, latest, saved, partial, result, seen, final,
                   outcome>>

Collected ==
    /\ phase = "collected" /\ ~failed
    /\ phase' = "closing"
    /\ IF result = "partial" THEN Checkpoint(latest, TRUE) ELSE UNCHANGED <<partial, saved>>
    /\ UNCHANGED <<run, log, cursor, failed, latest, result, seen, final, outcome>>

-------------------------------------------------------------------------------
(* _run_selected_thread_diagnostics()                                      *)

End == phase' = "idle" /\ log' = <<>> /\ cursor' = 0 /\ failed' = FALSE
       /\ latest' = NoBatch /\ saved' = NoBatch /\ result' = "none" /\ seen' = {}

WriteOutcome(status, b) ==
    /\ outcome' = [run |-> run, status |-> status, batch |-> b]
    /\ End /\ UNCHANGED run

\* An answer that is refused or of another network, a lost connection, a reader that
\* failed before the request, during it or when everything was collected.
Fails ==
    /\ \/ phase \in {"requesting", "collecting"}
       \/ phase = "collected" /\ failed
    /\ phase = "collecting" /\ cursor = Len(log) => failed
    /\ WriteOutcome("failed", NoBatch)
    /\ UNCHANGED <<final, partial>>

RequestTimeout ==
    /\ phase = "requesting"
    /\ WriteOutcome("timeout", NoBatch)
    /\ UNCHANGED <<final, partial>>

\* The deadline passes before the client is closed.
CloseTimeout ==
    /\ phase = "closing"
    /\ WriteOutcome("timeout", NoBatch)
    /\ UNCHANGED <<final, partial>>

Closed ==
    /\ phase = "closing"
    /\ phase' = IF result = "complete" THEN "saving" ELSE "reporting"
    /\ UNCHANGED <<run, session, files>>

\* Left out: the explicit path of --output, which takes the place of the final file.
SaveFinal ==
    /\ phase = "saving" /\ phase' = "unlinking"
    /\ final' = [run |-> run, batch |-> latest]
    /\ UNCHANGED <<run, session, partial, outcome>>

UnlinkPartial ==
    /\ phase = "unlinking" /\ phase' = "reporting"
    /\ partial' = NoFile
    /\ UNCHANGED <<run, session, final, outcome>>

Report ==
    /\ phase = "reporting"
    /\ WriteOutcome(result, latest)
    /\ UNCHANGED <<final, partial>>

-------------------------------------------------------------------------------
(* _run_native_thread_command(): `thread diagnostics list`                 *)

\* coalesce_thread_diagnostics_batches over two batches of one network.
Coalesced(first, second) == IF second.at > first.at THEN second ELSE first

List(first, second) ==
    /\ phase = "idle" /\ run < MaxRuns
    /\ run' = run + 1 /\ phase' = "listed"
    /\ final' = [run |-> run', batch |-> Coalesced(first, second)]
    /\ latest' = Coalesced(first, second)
    /\ UNCHANGED <<log, cursor, failed, saved, result, seen, partial, outcome>>

ListFails ==
    /\ phase = "idle" /\ run < MaxRuns
    /\ run' = run + 1
    /\ outcome' = [run |-> run', status |-> "failed", batch |-> NoBatch]
    /\ UNCHANGED <<phase, session, final, partial>>

ReportList ==
    /\ phase = "listed"
    /\ WriteOutcome("listed", latest)
    /\ UNCHANGED <<final, partial>>

-------------------------------------------------------------------------------
\* The process is killed or interrupted, or a file cannot be written.
Stop == phase # "idle" /\ End /\ UNCHANGED <<run, files>>

Step ==
    \/ \E b \in Batches : Event(b) \/ Respond(b)
    \/ ReaderFails \/ StartGet \/ RespondNothing \/ Take \/ Expire \/ Collected
    \/ Fails \/ RequestTimeout \/ CloseTimeout \/ Closed
    \/ SaveFinal \/ UnlinkPartial \/ Report
    \/ \E first, second \in Batches : List(first, second)
    \/ ListFails \/ ReportList

Next == Step \/ Stop

Spec == Init /\ [][Next]_vars

-------------------------------------------------------------------------------
(* Properties.                                                             *)

TypeOK ==
    /\ run \in 0..MaxRuns
    /\ phase \in {"idle", "requesting", "collecting", "collected", "closing", "saving",
                  "unlinking", "reporting", "listed"}
    /\ log \in Seq(Batches) /\ cursor \in 0..Len(log) /\ failed \in BOOLEAN
    /\ latest \in Batches \cup {NoBatch} /\ saved \in Batches \cup {NoBatch}
    /\ result \in {"none", "complete", "partial", "unavailable"}
    /\ seen \subseteq Batches
    /\ {final, partial} \subseteq [run : 0..MaxRuns, batch : Batches \cup {NoBatch}]
    /\ outcome.run \in 0..MaxRuns

\* A `get` that ends with a batch ends with the newest it was given: whatever the order
\* in which the response and the events arrived, nothing it consumed is newer than what
\* it will save, and the interval between checkpoints delays none past the end
\* (accept, write_checkpoint, the checkpoint after the loop).
EndsWithNewest ==
    phase \in {"closing", "saving", "unlinking", "reporting"} /\ result # "unavailable" =>
        /\ \A b \in seen : b.at <= latest.at
        /\ result = "partial" => partial = [run |-> run, batch |-> latest]

\* The outcome tells what the files hold, however many commands were killed since:
\* a complete one has its batch in the final file and left no unfinished batch, a
\* partial one has its batch in the checkpoint, unless a later command replaced it.
OutcomeTellsFiles ==
    LET Superseded(f) == f.run > outcome.run IN
    /\ outcome.status \in {"complete", "listed"} =>
          Superseded(final) \/ final = [run |-> outcome.run, batch |-> outcome.batch]
    /\ outcome.status = "complete" => Superseded(partial) \/ partial = NoFile
    /\ outcome.status = "partial" =>
          \/ Superseded(partial) \/ partial = [run |-> outcome.run, batch |-> outcome.batch]
          \/ partial = NoFile /\ Superseded(final)

\* What `get` collected is kept: in the checkpoint until it is complete, then in the
\* final file, and the outcome says which.
DiagnosticsKept == EndsWithNewest /\ OutcomeTellsFiles
===============================================================================
