----------------------------- MODULE MCOperations -----------------------------
(***************************************************************************)
(* Six parts of the system's upkeep that share no state: backup and        *)
(* restore, the upgrade of the schema, the migration of assessments, the   *)
(* purges of the health store, the short web requests and the capability   *)
(* probes. Which one a behavior is about is chosen at its start.           *)
(***************************************************************************)
EXTENDS SystemBackups

CONSTANTS Processes, Supported, Oldest, Cohorts, CohortOf, NumObs, MaxRevision, Limit, Requests,
          CatalogAge, Ages, MaxTime, Job, None, Callers, NumFiles, Attempts, Ttl, ProbeTime, ProbeMaxTime

VARIABLES
    part,
    version, content, created, upgradePc, planned, holder, inTx, copy, backups,
    native, outdated, broken, upgrades, preference, comparisons, pc, todo, target, preview,
    chosen, found, reserved, mine, backup, disturbed,
    clock, written, wants, at, joined, answer, answered, lockHolder, queue, active, process,
    server,
    disk, fileWrites, time, step, next, attempt, before, seen, after, cache, since, callerAt,
    asked, files, probe, known, age,
    snapshot, newest, rosterClock, ingested, samples, assessments, preferred, current, roster,
    revision, sent, receipts, processing, birth, acted

\* HealthMigration: the first two of three observations are of one cohort.
MCCohortOf == << "x", "x", "y" >>
MCCohorts == {"x", "y"}

\* HealthRoster, with its purges: d1 is always seen, d2 only at the end.
MCRosterDevices == {"d1", "d2"}
MCSampled == << {"d1"}, {"d1"}, {"d1", "d2"} >>
MCPurges == {"before", "device", "all"}
MCCliStates == {"expected", "retired"}
MCProcesses == {"p1"}

U == INSTANCE SchemaUpgrade WITH pc <- upgradePc
M == INSTANCE HealthMigration
       WITH old <- outdated, before <- found
W == INSTANCE WebRequests WITH holder <- lockHolder
C == INSTANCE SourceCapabilities
       WITH MaxTime <- ProbeMaxTime, writes <- fileWrites, clock <- time, at <- callerAt
P == INSTANCE HealthRoster
       WITH Devices <- MCRosterDevices, NumObservations <- 3, Sampled <- MCSampled,
            MaxRetained <- 2, Requests <- {}, Actions <- {}, CliStates <- MCCliStates,
            Purges <- MCPurges, Processes <- MCProcesses, MaxClock <- 3, clock <- rosterClock,
            process <- processing

upgradeVars == <<version, content, created, upgradePc, planned, holder, inTx, copy, backups>>
migrationVars == <<native, outdated, broken, upgrades, preference, comparisons, pc, todo,
                   target, preview, chosen, found, reserved, mine, backup, disturbed>>
requestsVars == <<clock, written, wants, at, joined, answer, answered, lockHolder, queue,
                  active, process, server>>
capabilitiesVars == <<disk, fileWrites, time, step, next, attempt, before, seen, after, cache,
                      since, callerAt, asked, files, probe, known, age>>
purgesVars == <<snapshot, newest, rosterClock, ingested, samples, assessments, preferred,
                current, roster, revision, sent, receipts, processing, birth, acted>>
allVars == <<part, vars, upgradeVars, migrationVars, requestsVars, capabilitiesVars, purgesVars>>

ASSUME OperationsAssumptions ==
    /\ U!UpgradeAssumption
    /\ M!MigrationAssumption
    /\ W!RequestsAssumption
    /\ C!CapabilitiesAssumption
    /\ P!NoneAssumption /\ P!RosterAssumption

\* The parts that a behavior is not about stay in one initial state.
AllInit ==
    /\ part \in {"backups", "upgrade", "migration", "requests", "capabilities", "purges"}
    /\ Init /\ U!Init /\ M!Init /\ W!Init /\ C!Init /\ P!Init
    /\ part = "backups" \/ (~mounted /\ data = [c \in Children |-> 1])
    /\ part = "upgrade" \/ (version = Oldest /\ ~created)
    /\ part = "migration" \/ \A o \in M!Obs : native[o] = 0
    /\ part = "requests" \/ \A f \in Files : written[f] = 0
    /\ part = "capabilities" \/ \A f \in C!SourceFiles : disk[f] = 0

AllNext ==
    /\ part' = part
    /\ \/ /\ part = "backups" /\ Next
          /\ UNCHANGED <<upgradeVars, migrationVars, requestsVars, capabilitiesVars, purgesVars>>
       \/ /\ part = "upgrade" /\ U!Next
          /\ UNCHANGED <<vars, migrationVars, requestsVars, capabilitiesVars, purgesVars>>
       \/ /\ part = "migration" /\ M!Next
          /\ UNCHANGED <<vars, upgradeVars, requestsVars, capabilitiesVars, purgesVars>>
       \/ /\ part = "requests" /\ W!Next
          /\ UNCHANGED <<vars, upgradeVars, migrationVars, capabilitiesVars, purgesVars>>
       \/ /\ part = "capabilities" /\ C!Next
          /\ UNCHANGED <<vars, upgradeVars, migrationVars, requestsVars, purgesVars>>
       \/ /\ part = "purges" /\ P!Next
          /\ UNCHANGED <<vars, upgradeVars, migrationVars, requestsVars, capabilitiesVars>>

AllSpec == AllInit /\ [][AllNext]_allVars

-------------------------------------------------------------------------------
\* SchemaUpgrade: a store's schema changes only after a copy of its very content.
\* HealthMigration: what a cohort commits was announced, and can be taken back.
ChangesHaveBackup == U!UpgradeHasBackup /\ M!CommitsAreBackedUp

\* HealthMigration: nothing newer hides behind a migrated assessment, and a migration that
\* nobody disturbs completes.
MigrationSound == part = "migration" => M!TypeOK /\ M!Lineage /\ M!UndisturbedSucceeds

\* WebRequests: answers are as fresh as their requests may expect, and the tasks of one
\* source, in a shutdown too, run one at a time and do not survive it.
RequestsSound == part = "requests" => W!TypeOK /\ W!AnswersAreFresh /\ W!OneTaskAtATime

\* SourceCapabilities: the files a request is told of were on disk together, but for those
\* that were absent at some moment of its inspection, and a probe result is recent.
ProbesSound == part = "capabilities" => C!TypeOK /\ C!PresentFilesAreSnapshot /\ C!ProbeIsRecent

\* HealthRoster: through every purge and retention, the current assessment is the latest, and
\* a change of the roster made by the command line renews it.
CurrentThroughPurges ==
    /\ [](part = "purges" => P!TypeOK /\ P!CurrentIsLatest)
    /\ P!MutationReassessesCurrent
===============================================================================
