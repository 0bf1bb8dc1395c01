------------------------------- MODULE MCRecords ------------------------------
(***************************************************************************)
(* Five parts that share no state: the per-router tables, the attribution  *)
(* of answers and the collection of the OTBR command line, and the merge   *)
(* of records and of their fields. Which one a behavior is about is chosen *)
(* at its start.                                                           *)
(***************************************************************************)
EXTENDS CliTables

CONSTANTS Devices, Tagged, Has, Target, MaxFrames,
          RouterSlots, ChildSlots, Parent, Start, Policies, MaxMoves, CastAttempts,
          FastAttempts, DetailAttempts, Files, MaxRows, Width, Versions,
          Dests, Partitions, Exts, Rlocs, MaxSteps

VARIABLES
    part,
    cmd, asked, answered, inflight, obs, origins, groups, batch, parsed, kept,
    at, used, late, phase, cast, todo, routers, try, records, locations, saved, direct,
    mode, file, count, nodes,
    routes, partition, seen, children, named, steps

\* CliAttribution: a device that answers everything and one that answers little.
MCHas == [d \in Devices |-> IF d = "a" THEN {"base", "ip", "stack", "more"} ELSE {"base", "stack"}]

\* CliCollection: a router and its child, with room to move.
MCParent == [s \in {"c1", "c2"} |-> "r1"]
MCStart == [d \in Devices |-> IF d = "a" THEN "r1" ELSE "c1"]
MCPolicies == << "fast", "detail" >>

\* MergeRecords: rows that share some of their keys and contradict each other in others.
Row(e, o, m, r, s) == [ext |-> e, omr |-> o, mat |-> m, rloc |-> r, says |-> s]
MCRows ==
    { Row({"e1"}, {}, {}, {"r1"}, TRUE), Row({"e1"}, {"o1"}, {}, {}, FALSE),
      Row({"e2"}, {}, {"m1"}, {"r1"}, TRUE), Row({}, {"o1"}, {"m1"}, {}, TRUE),
      Row({}, {"o1"}, {"m2"}, {}, FALSE), Row({}, {}, {"m2"}, {"r1"}, TRUE),
      Row({}, {}, {}, {"r1"}, TRUE), Row({"e2"}, {"o2"}, {}, {"r2"}, TRUE),
      Row({}, {"o2"}, {"m1"}, {"r2"}, FALSE) }
MCDiagnostics == {2}

A == INSTANCE CliAttribution
C == INSTANCE CliCollection WITH stage <- phase
R == INSTANCE MergeRecords WITH Rows <- MCRows, Diagnostics <- MCDiagnostics
F == INSTANCE MergeFields WITH told <- named

attributionVars == <<cmd, asked, answered, inflight, obs, origins, groups, batch, parsed,
                     kept>>
collectionVars == <<at, used, late, phase, cast, todo, routers, try, records, locations, saved,
                    direct>>
recordsVars == <<mode, file, count, nodes>>
fieldsVars == <<routes, partition, seen, children, named, steps>>
allVars == <<part, vars, attributionVars, collectionVars, recordsVars, fieldsVars>>

ASSUME RecordsAssumptions ==
    /\ TablesAssumption
    /\ A!AttributionAssumption
    /\ C!CollectionAssumption
    /\ R!RecordsAssumption
    /\ F!FieldsAssumption

\* The parts that a behavior is not about stay in one initial state.
AllInit ==
    /\ part \in {"tables", "attribution", "collection", "records", "fields"}
    /\ Init /\ A!Init /\ C!Init /\ R!Init /\ F!Init
    /\ part = "records" \/ mode = "strict"

AllNext ==
    /\ part' = part
    /\ \/ /\ part = "tables" /\ Next
          /\ UNCHANGED <<attributionVars, collectionVars, recordsVars, fieldsVars>>
       \/ /\ part = "attribution" /\ A!Next
          /\ UNCHANGED <<vars, collectionVars, recordsVars, fieldsVars>>
       \/ /\ part = "collection" /\ C!Next
          /\ UNCHANGED <<vars, attributionVars, recordsVars, fieldsVars>>
       \/ /\ part = "records" /\ R!Next
          /\ UNCHANGED <<vars, attributionVars, collectionVars, fieldsVars>>
       \/ /\ part = "fields" /\ F!Next
          /\ UNCHANGED <<vars, attributionVars, collectionVars, recordsVars>>

AllSpec == AllInit /\ [][AllNext]_allVars

-------------------------------------------------------------------------------
\* CliAttribution: an answer is attributed to the request it answered, and a record's history
\* is what the collection knows.
AttributionSound == part = "attribution" => A!AttributionSound /\ A!HistoryCurrent

\* CliCollection: nobody who was heard of is dropped, an answer is not taken back by a later
\* silence, and the checkpoint lacks at most what known routers have answered.
AnsweredAreKept ==
    part = "collection" => C!AnsweredAreKept /\ C!AnswerSticks /\ C!CheckpointIsCurrent

\* CliCollection: the doc of _upsert_device_record says that duplicates are prevented.
NamedOnce == part = "collection" => C!NamedOnce

\* MergeRecords: no identities are mixed, no row is lost, and a summary is the best one.
RecordsSound == part = "records" => R!IdentitiesApart /\ R!RowsKept /\ R!SummaryIsBest

\* MergeFields: routes are of one version, of the newest, and children are not mixed.
FieldsSound == part = "fields" => F!RoutesOfOneVersion /\ F!NewestRoutes /\ F!ChildrenApart
===============================================================================
