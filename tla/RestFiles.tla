------------------------------ MODULE RestFiles ------------------------------
(***************************************************************************)
(* The files of `diagnostics fetch-all` over the OTBR REST API             *)
(* (src/src/otbr_restapi_diagnostics.py), written one after the other by a *)
(* command that may die in between, and the unified build's read of them   *)
(* beside it (src/src/td_unified_dataset.py: read_rest_diagnostic_recovery *)
(* and the binding of src/src/td_restapi_diagnostic_recovery.py).          *)
(***************************************************************************)
EXTENDS Naturals, FiniteSets

CONSTANTS Devices, Networks,
          Ids,       \* identifiers of diagnostics, which a border router may give again
          MaxRuns    \* bound: commands

VARIABLES
    clock, run,
    writer,      \* where the command is: idle, collect, outcome, outcomeScope, final, finalScope
    rest,        \* devices it has not asked yet
    started, rows, skipped,  \* and what it holds
    network,     \* the network of the border router
    disk,        \* the four files, and the checkpoint
    reader, got  \* the build: how many files it has read, and what it read

vars == <<clock, run, writer, rest, started, rows, skipped, network, disk, reader, got>>

Names == <<"outcome", "final", "outcomeScope", "finalScope">>
Nothing == [run |-> 0]

Init ==
    /\ clock = 1 /\ run = 0 /\ writer = "idle" /\ rest = {} /\ started = 0 /\ rows = {}
    /\ skipped = FALSE /\ network \in Networks
    /\ disk = [n \in {Names[i] : i \in 1..4} |-> Nothing]
    /\ reader = 0 /\ got = disk

mine == <<run, started, network>>

-------------------------------------------------------------------------------
(* The command.                                                            *)

Start ==
    /\ writer = "idle" /\ run < MaxRuns
    /\ run' = run + 1 /\ started' = clock /\ clock' = clock + 1
    /\ rest' = Devices /\ rows' = {} /\ skipped' = FALSE /\ writer' = "collect"
    /\ network' \in Networks
    /\ UNCHANGED <<disk, reader, got>>

\* The next device answers, or is skipped.
Collect ==
    /\ writer = "collect" /\ rest # {}
    /\ LET d == CHOOSE e \in rest : TRUE IN
       /\ rest' = rest \ {d}
       /\ \/ \E i \in Ids \ {r.id : r \in rows} :
                rows' = rows \cup {[of |-> d, id |-> i, created |-> clock]}
             /\ clock' = clock + 1 /\ UNCHANGED skipped
          \/ skipped' = TRUE /\ UNCHANGED <<rows, clock>>
    /\ UNCHANGED <<mine, writer, disk, reader, got>>

Collected ==
    /\ writer = "collect" /\ rest = {} /\ writer' = "outcome"
    /\ UNCHANGED <<clock, mine, rest, rows, skipped, disk, reader, got>>

Put(name, content) == disk' = [disk EXCEPT ![name] = content]

\* write_rest_collection_outcome: the outcome and its sidecar go first.
WriteOutcome ==
    /\ writer = "outcome" /\ writer' = "outcomeScope" /\ clock' = clock + 1
    /\ Put("outcome", [run |-> run, started |-> started, completed |-> clock, rows |-> rows,
                       partial |-> skipped])
    /\ UNCHANGED <<mine, rest, rows, skipped, reader, got>>

\* write_network_scope digests the file as it now is.
WriteScope(name, of, next) ==
    /\ writer = name /\ writer' = next
    /\ \E seen \in BOOLEAN :
         Put(name, [run |-> run, of |-> disk[of].run,
                    network |-> IF seen THEN network ELSE "unknown"])
    /\ UNCHANGED <<clock, mine, rest, rows, skipped, reader, got>>

\* preserve_prior_dataset: without a row the final file and its sidecar stay.
WriteFinal ==
    /\ writer = "final"
    /\ IF skipped /\ rows = {} THEN writer' = "idle" /\ UNCHANGED disk
       ELSE writer' = "finalScope" /\ Put("final", [run |-> run, rows |-> rows])
    /\ UNCHANGED <<clock, mine, rest, rows, skipped, reader, got>>

Die ==
    /\ writer # "idle" /\ writer' = "idle"
    /\ UNCHANGED <<clock, mine, rest, rows, skipped, disk, reader, got>>

-------------------------------------------------------------------------------
(* The build.                                                              *)

\* _read_stable, of one file after the other.
Read ==
    /\ reader < 4 /\ reader' = reader + 1
    /\ got' = [got EXCEPT ![Names[reader + 1]] = disk[Names[reader + 1]]]
    /\ UNCHANGED <<clock, mine, writer, rest, rows, skipped, disk>>

\* _recheck: every file is read again; one that changed fails the build.
Recheck ==
    /\ reader = 4
    /\ IF \A n \in DOMAIN disk : got[n] = disk[n] THEN reader' = 5 /\ UNCHANGED got
       ELSE reader' = 0 /\ got' = [n \in DOMAIN got |-> Nothing]
    /\ UNCHANGED <<clock, mine, writer, rest, rows, skipped, disk>>

Forget ==
    /\ reader = 5 /\ reader' = 0 /\ got' = [n \in DOMAIN got |-> Nothing]
    /\ UNCHANGED <<clock, mine, writer, rest, rows, skipped, disk>>

Next ==
    \/ Start \/ Collect \/ Collected \/ WriteOutcome
    \/ WriteScope("outcomeScope", "outcome", "final")
    \/ WriteFinal
    \/ WriteScope("finalScope", "final", "idle")
    \/ Die \/ Read \/ Recheck \/ Forget

Spec == Init /\ [][Next]_vars

-------------------------------------------------------------------------------
(* What the build concludes of the files it captured.                      *)

Present == got["outcome"].run # 0 /\ got["final"].run # 0

\* The sidecars are of these very files, and both observed one network.
Verified ==
    /\ Present /\ got["outcomeScope"].run # 0 /\ got["finalScope"].run # 0
    /\ got["outcomeScope"].of = got["outcome"].run /\ got["finalScope"].of = got["final"].run
    /\ got["outcomeScope"].network = got["finalScope"].network
    /\ got["outcomeScope"].network # "unknown"

\* Mutant: the time a row was created is not compared.
BoundRowOfAnyTime(r) == \E s \in got["final"].rows : s.of = r.of /\ s.id = r.id

\* bound_row: the row of the outcome is in the final file, with the identifier, the device
\* and the time of creation, and it was created while the command ran.
BoundRow(r) ==
    /\ \E s \in got["final"].rows : s.of = r.of /\ s.id = r.id /\ s.created = r.created
    /\ got["outcome"].started <= r.created /\ r.created <= got["outcome"].completed

-------------------------------------------------------------------------------
TypeOK ==
    /\ run \in 0..MaxRuns /\ reader \in 0..5 /\ rest \subseteq Devices
    /\ writer \in {"idle", "collect", "outcome", "outcomeScope", "final", "finalScope"}
    /\ \A n \in DOMAIN disk : disk[n].run <= run /\ got[n].run <= disk[n].run
    /\ \A r \in rows : r.created < clock

\* A row that recovers a device was written by the run the outcome reports, and both files
\* belong to one network, whatever runs died between the files, kept the diagnostics of an
\* earlier run, or wrote while the build read.
RecoveredIsOfItsRun ==
    Verified => \A r \in got["outcome"].rows :
                   BoundRow(r) => got["final"].run = got["outcome"].run
===============================================================================
