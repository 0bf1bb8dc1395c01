----------------------------- MODULE MCCollectors -----------------------------
(***************************************************************************)
(* Six parts of the collectors that share no state: three of the HA Matter *)
(* commands and three of the OTBR REST sweep and its recovery. Which one a *)
(* behavior is about is chosen at its start.                               *)
(***************************************************************************)
EXTENDS Naturals, FiniteSets, Sequences

CONSTANTS MaxTime, Variants, MaxEvents, MaxRuns, Nodes, Attributes, MaxChanges, Artifacts,
          Products, NumNodes, MaxCommands, Routers, Listed, Guarded, Slots, RouterRlocs,
          MaxDiscoveries, Fields, Networks, Devices, Ids

VARIABLES
    part,
    stream, getting, log, cursor, failed, latest, saved, result, collected, final, partial,
    reason,
    world, changes, fetching, wire, listed, events, asOf, nodes,
    clock, number, command, step, nodesLeft, startedAt, observedAt, lost, artifact, scope,
    checkpoint, collection, product, report, done,
    phase, style, discovery, todo, now, pass, tries, sent, seen, record, items, conflict, stop,
    active,
    meshPhase, before, after, witnessed, rebound, meshTodo, meshNow, meshStep, left, tables,
    check, running,
    time, run, writer, rest, started, rows, skipped, network, disk, reader, got

(***************************************************************************)
(* RestSweep: two routers, a listed child and a guarded one; the first     *)
(* router has two RLOC16s of children.  Answers: a child table may be      *)
(* missing, or of a router that answers for another; an RLOC16 may be      *)
(* anybody's.                                                              *)

MCParentOf == [s \in Slots |-> "A"]

Row(ext, rloc, hasTable, kids) ==
    [ext |-> ext, rloc |-> rloc, hasTable |-> hasTable, table |-> kids]

MCAnswers == [t \in Routers \cup Listed \cup Guarded \cup Slots |->
    CASE t = "r1" -> {Row("r1", "A", TRUE, {"A1", "A2"}), Row("r1", "A", TRUE, {"A1"}),
                      Row("none", "none", FALSE, {}), Row("r1", "A", FALSE, {})}
      [] t = "r2" -> {Row("r2", "B", TRUE, {}), Row("r2", "A", TRUE, {"A2"}),
                      Row("r1", "A", TRUE, {"A1"}), Row("r2", "A1", TRUE, {})}
      [] t = "c1" -> {Row("c1", "A1", FALSE, {}), Row("c1", "A2", FALSE, {}),
                      Row("none", "A1", FALSE, {}), Row("g1", "A1", FALSE, {})}
      [] t = "g1" -> {}
      [] OTHER -> {Row(e, r, FALSE, {}) : e \in {"c1", "g1", "r1"}, r \in {"A1", "A2"}}]

D == INSTANCE MatterDiagnostics
       WITH run <- stream, phase <- getting, seen <- collected, outcome <- reason
S == INSTANCE MatterSnapshot WITH stage <- fetching
F == INSTANCE MatterFiles
       WITH MaxRuns <- MaxCommands, run <- number, todo <- nodesLeft, outcome <- report
W == INSTANCE RestSweep WITH ParentOf <- MCParentOf, Answers <- MCAnswers
M == INSTANCE RestMesh
       WITH phase <- meshPhase, todo <- meshTodo, now <- meshNow, step <- meshStep,
            record <- tables
R == INSTANCE RestFiles WITH clock <- time

diagnosticsVars == <<stream, getting, log, cursor, failed, latest, saved, result, collected,
                     final, partial, reason>>
snapshotVars == <<world, changes, fetching, wire, listed, events, asOf, nodes>>
filesVars == <<clock, number, command, step, nodesLeft, startedAt, observedAt, lost, artifact,
               scope, checkpoint, collection, product, report, done>>
sweepVars == <<phase, style, discovery, todo, now, pass, tries, sent, seen, record, items,
               conflict, stop, active>>
meshVars == <<meshPhase, before, after, witnessed, rebound, meshTodo, meshNow, meshStep, left,
              tables, check, running>>
recoveryVars == <<time, run, writer, rest, started, rows, skipped, network, disk, reader, got>>
vars == <<part, diagnosticsVars, snapshotVars, filesVars, sweepVars, meshVars, recoveryVars>>

ASSUME CollectorsAssumptions ==
    /\ D!DiagnosticsAssumption
    /\ S!SnapshotAssumption
    /\ F!FilesAssumption
    /\ W!SweepAssumption

\* The parts that a behavior is not about stay in one initial state.
Init ==
    /\ part \in {"diagnostics", "snapshot", "files", "sweep", "mesh", "recovery"}
    /\ D!Init /\ S!Init /\ F!Init /\ W!Init /\ M!Init /\ R!Init
    /\ part = "snapshot" \/ \A n \in Nodes : ~world[n].there
    /\ part = "sweep" \/ style = "legacy"
    /\ part = "mesh" \/ (before = "none" /\ witnessed = {})
    /\ before # "n2"     \* networks are interchangeable
    /\ part = "recovery" \/ network = CHOOSE n \in Networks : TRUE

Next ==
    /\ part' = part
    /\ \/ /\ part = "diagnostics" /\ D!Next
          /\ UNCHANGED <<snapshotVars, filesVars, sweepVars, meshVars, recoveryVars>>
       \/ /\ part = "snapshot" /\ S!Next
          /\ UNCHANGED <<diagnosticsVars, filesVars, sweepVars, meshVars, recoveryVars>>
       \/ /\ part = "files" /\ F!Next
          /\ UNCHANGED <<diagnosticsVars, snapshotVars, sweepVars, meshVars, recoveryVars>>
       \/ /\ part = "sweep" /\ W!Next
          /\ UNCHANGED <<diagnosticsVars, snapshotVars, filesVars, meshVars, recoveryVars>>
       \/ /\ part = "mesh" /\ M!Next
          /\ UNCHANGED <<diagnosticsVars, snapshotVars, filesVars, sweepVars, recoveryVars>>
       \/ /\ part = "recovery" /\ R!Next
          /\ UNCHANGED <<diagnosticsVars, snapshotVars, filesVars, sweepVars, meshVars>>

Spec == Init /\ [][Next]_vars

-------------------------------------------------------------------------------
\* MatterDiagnostics: what `get` collected is kept, and the outcome says where.
DiagnosticsKept == part = "diagnostics" => D!DiagnosticsKept

\* MatterSnapshot: the nodes fetched are the server's.
SnapshotIsServerState == part = "snapshot" => S!SnapshotIsServerState

\* MatterFiles: what is accepted with an outcome was written by the command it reports, and
\* a command that succeeds leaves what it wrote accepted.
AcceptedIsOfItsOutcome == part = "files" => F!AcceptedIsOfItsOutcome /\ F!SuccessIsAccepted

\* RestSweep: nothing is asked beside an action that may still run, a row collected by
\* RLOC16 is of that RLOC16 and of nobody else, and an outcome that is reconciled to complete
\* hides nothing.
SweepIsSound == part = "sweep" => /\ W!TypeOK /\ W!NothingBesideUnresolved
                                  /\ W!ExpandedAreIdentified /\ W!CompleteMeansHeard

\* RestMesh: a sweep that qualifies leaves no table unexplained.
MeshExplained == part = "mesh" => M!MeshExplained

\* RestFiles: a row that recovers a device is of the run the outcome reports.
RecoveredIsOfItsRun == part = "recovery" => R!RecoveredIsOfItsRun
===============================================================================
