----------------------------- MODULE MatterFiles -----------------------------
(***************************************************************************)
(* The files of the HA Matter commands other than Thread diagnostics       *)
(* (src/src/ha_matter_ws_cli.py): `all` and the single fetch-all commands  *)
(* over one inventory, and the native products with an outcome each.  And  *)
(* what the unified build accepts of them (src/src/ha_matter_ws_unified.py).*)
(*                                                                         *)
(* Commands run one at a time; a command may die between any two steps.    *)
(***************************************************************************)
EXTENDS Naturals, FiniteSets

CONSTANTS Artifacts,   \* the datasets of one inventory
          Products,    \* native products: border routers, network topology
          NumNodes,    \* nodes of the controller
          MaxRuns      \* bound: commands

\* What the constants satisfy.
FilesAssumption ==
    /\ IsFiniteSet(Artifacts) /\ Artifacts # {}
    /\ NumNodes \in Nat \ {0} /\ MaxRuns \in Nat

VARIABLES
    clock,       \* a tick for every time a command takes
    run, command, step, todo,   \* the command: its number, what it is, where it is
    startedAt, observedAt,
    lost,        \* nodes that normalization lost
    artifact,    \* the final files: who wrote them, and sourceObservedAt
    scope,       \* the network sidecars: of which content
    checkpoint,  \* the .partial files: who wrote them, and how many nodes they hold
    collection,  \* the outcome of `all`
    product,     \* the native files
    outcome,     \* and their outcomes
    done         \* history: the command that ended last, when it succeeded

times == <<clock, startedAt, observedAt>>
vars  == <<times, run, command, step, todo, lost, artifact, scope, checkpoint, collection,
           product, outcome, done>>

Commands == [kind : {"all"}, of : {"none"}, standard : {TRUE}]
              \cup [kind : {"single"}, of : Artifacts, standard : BOOLEAN]
              \cup [kind : {"native"}, of : Products, standard : BOOLEAN]
NoCommand  == [kind |-> "none", of |-> "none", standard |-> TRUE]
NoContent  == [run |-> 0, at |-> 0]
NoOutcome  == [run |-> 0, status |-> "none", standard |-> TRUE, started |-> 0, completed |-> 0]
Unbound    == [f \in Artifacts |-> NoContent]

Init ==
    /\ clock = 1 /\ startedAt = 0 /\ observedAt = 0
    /\ run = 0 /\ command = NoCommand /\ step = "idle" /\ todo = {} /\ lost = FALSE
    /\ artifact = Unbound /\ scope = Unbound
    /\ checkpoint = [f \in Artifacts |-> [run |-> 0, nodes |-> 0]]
    /\ collection = [run |-> 0, at |-> 0, started |-> 0, completed |-> 0, bound |-> Unbound]
    /\ product = [p \in Products |-> NoContent]
    /\ outcome = [p \in Products |-> NoOutcome]
    /\ done = NoCommand

Content == [run |-> run, at |-> observedAt]

\* The standard artifacts a command writes.
Targets(c) == CASE c.kind = "all" -> Artifacts
                [] c.kind = "single" /\ c.standard -> {c.of}
                [] OTHER -> {}

Goto(s) == step' = s
Tick    == clock' = clock + 1

-------------------------------------------------------------------------------
Start(c) ==
    /\ step = "idle" /\ run < MaxRuns
    /\ run' = run + 1 /\ command' = c /\ startedAt' = clock /\ Tick
    /\ Goto("fetching") /\ done' = NoCommand
    /\ UNCHANGED <<observedAt, todo, lost, artifact, scope, checkpoint, collection, product,
                   outcome>>

\* fetch_node_snapshot and, for a native product, the answer that was validated.
Fetch ==
    /\ step = "fetching" /\ observedAt' = clock /\ Tick
    /\ Goto(IF command.kind = "native" THEN "saving" ELSE "extracting")
    /\ todo' = IF command.kind = "native" THEN {} ELSE 1..NumNodes
    /\ UNCHANGED <<startedAt, run, command, lost, artifact, scope, checkpoint, collection,
                   product, outcome, done>>

\* Only a native command reports its failure.
FetchFails ==
    /\ step = "fetching"
    /\ outcome' = IF command.kind # "native" THEN outcome
                  ELSE [outcome EXCEPT ![command.of] =
                          [run |-> run, status |-> "failed", standard |-> command.standard,
                           started |-> startedAt, completed |-> clock]]
    /\ Tick /\ Goto("idle") /\ command' = NoCommand
    /\ UNCHANGED <<startedAt, observedAt, run, todo, lost, artifact, scope, checkpoint,
                   collection, product, done>>

\* extract_node_info of the next node, and its checkpoints: one file after the other,
\* none after the last node, and a file that cannot be written is skipped.
Extract ==
    /\ step = "extracting" /\ todo # {}
    /\ LET k == CHOOSE i \in todo : \A j \in todo : i <= j IN
       /\ todo' = todo \ {k}
       /\ \E lose \in BOOLEAN : lost' = (lost \/ lose)
       /\ IF k = NumNodes THEN UNCHANGED checkpoint
          ELSE \E written \in SUBSET Targets(command) :
                 checkpoint' = [f \in Artifacts |->
                    IF f \in written THEN [run |-> run, nodes |-> k] ELSE checkpoint[f]]
    /\ UNCHANGED <<times, run, command, step, artifact, scope, collection, product, outcome,
                   done>>

\* MatterPartialCollectionError: nothing final is written.
Extracted ==
    /\ step = "extracting" /\ todo = {}
    /\ IF lost THEN Goto("idle") /\ command' = NoCommand /\ UNCHANGED todo
       ELSE Goto("saving") /\ todo' = Targets(command) /\ UNCHANGED command
    /\ lost' = FALSE
    /\ UNCHANGED <<times, run, artifact, scope, checkpoint, collection, product, outcome, done>>

\* save_final_json: the file, then its sidecar.  The order of the files is immaterial.
SaveArtifact(f) ==
    /\ step = "saving" /\ f \in todo
    /\ artifact' = [artifact EXCEPT ![f] = Content]
    /\ Goto("scoping")
    /\ UNCHANGED <<times, run, command, todo, lost, scope, checkpoint, collection, product,
                   outcome, done>>

SaveScope(f) ==
    /\ step = "scoping" /\ f \in todo /\ artifact[f] = Content
    /\ scope' = [scope EXCEPT ![f] = artifact[f]]
    /\ todo' = todo \ {f} /\ Goto("saving")
    /\ UNCHANGED <<times, run, command, lost, artifact, checkpoint, collection, product,
                   outcome, done>>

Finish == Goto("idle") /\ command' = NoCommand /\ done' = command

FinishSingle ==
    /\ step = "saving" /\ todo = {} /\ command.kind = "single" /\ Finish
    /\ UNCHANGED <<times, run, todo, lost, artifact, scope, checkpoint, collection, product,
                   outcome>>

\* The outcome of `all` binds every artifact to the digest the file now has.
ReportCollection ==
    /\ step = "saving" /\ todo = {} /\ command.kind = "all"
    /\ collection' = [run |-> run, at |-> observedAt, started |-> startedAt,
                      completed |-> clock, bound |-> artifact]
    /\ Tick /\ Finish
    /\ UNCHANGED <<startedAt, observedAt, run, todo, lost, artifact, scope, checkpoint,
                   product, outcome>>

\* With --output the file is another one; the outcome is always the standard one.
SaveProduct ==
    /\ step = "saving" /\ command.kind = "native"
    /\ product' = IF command.standard THEN [product EXCEPT ![command.of] = Content]
                                      ELSE product
    /\ Goto("reporting")
    /\ UNCHANGED <<times, run, command, todo, lost, artifact, scope, checkpoint, collection,
                   outcome, done>>

ReportProduct ==
    /\ step = "reporting"
    /\ outcome' = [outcome EXCEPT ![command.of] =
                     [run |-> run, status |-> "complete", standard |-> command.standard,
                      started |-> startedAt, completed |-> clock]]
    /\ Tick /\ Finish
    /\ UNCHANGED <<startedAt, observedAt, run, todo, lost, artifact, scope, checkpoint,
                   collection, product>>

\* A kill, an interrupt, a file that cannot be written.
Die ==
    /\ step # "idle" /\ Goto("idle") /\ command' = NoCommand /\ todo' = {} /\ lost' = FALSE
    /\ UNCHANGED <<times, run, artifact, scope, checkpoint, collection, product, outcome, done>>

Next ==
    \/ \E c \in Commands : Start(c)
    \/ Fetch \/ FetchFails \/ Extract \/ Extracted
    \/ \E f \in Artifacts : SaveArtifact(f) \/ SaveScope(f)
    \/ FinishSingle \/ ReportCollection \/ SaveProduct \/ ReportProduct \/ Die

Spec == Init /\ [][Next]_vars

-------------------------------------------------------------------------------
(* What the unified build accepts.                                         *)

\* controller_observation_time: the digest and the times the outcome gives.
Bound(f) ==
    /\ collection.run # 0 /\ artifact[f] # NoContent
    /\ collection.bound[f] = artifact[f]
    /\ artifact[f].at = collection.at
    /\ collection.started <= collection.at /\ collection.at <= collection.completed

\* Mutant: the standard name is not asked for.
AcceptedElsewhere(p) ==
    /\ outcome[p].status = "complete" /\ product[p] # NoContent
    /\ outcome[p].started <= product[p].at

\* validate_cached_outcome and assess_cached_outcomes: a complete outcome that names the
\* file and encloses the time it was observed.
Accepted(p) ==
    /\ outcome[p].status = "complete" /\ outcome[p].standard /\ product[p] # NoContent
    /\ outcome[p].started <= product[p].at /\ product[p].at <= outcome[p].completed

-------------------------------------------------------------------------------
(* Properties.                                                             *)

TypeOK ==
    /\ run \in 0..MaxRuns /\ command \in Commands \cup {NoCommand}
    /\ step \in {"idle", "fetching", "extracting", "saving", "scoping", "reporting"}
    /\ {artifact, scope, collection.bound} \subseteq [Artifacts -> [run : 0..run, at : 0..clock]]
    /\ \A f \in Artifacts : checkpoint[f].nodes \in 0..(NumNodes - 1)
    /\ \A p \in Products : product[p].run <= run /\ outcome[p].run <= run

\* What is accepted with an outcome was written by the very command the outcome reports,
\* whatever commands died, failed, wrote a single file or wrote elsewhere since; so all
\* artifacts that are bound are of one inventory.
AcceptedIsOfItsOutcome ==
    /\ \A f \in Artifacts : Bound(f) => artifact[f].run = collection.run
    /\ \A p \in Products : Accepted(p) => product[p].run = outcome[p].run

\* A command that succeeds leaves what it wrote accepted: the build needs no second one.
SuccessIsAccepted ==
    /\ done.kind = "all" => \A f \in Artifacts : Bound(f) /\ scope[f] = artifact[f]
    /\ done.kind = "native" /\ done.standard => Accepted(done.of)
===============================================================================
