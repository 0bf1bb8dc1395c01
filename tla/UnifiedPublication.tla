------------------------- MODULE UnifiedPublication -------------------------
(***************************************************************************)
(* The build, publication and crash recovery of one Unified dataset        *)
(* (src/src/td_unified_dataset.py: build_unified_dataset, _build_locked,   *)
(* _publish, _recover, _clear_recovery), against collectors that replace   *)
(* the cached evidence at any moment and against a builder process that    *)
(* dies between any two of its file operations.                            *)
(*                                                                         *)
(* A product is Report files: the artifacts 1..NumArtifacts, in the order  *)
(* of _artifact_names, and the report, which is always replaced last.      *)
(* Builders exclude one another with flock on .td-unified.lock, so at any  *)
(* moment at most one builder has local state: the holder of the lock.     *)
(***************************************************************************)
EXTENDS Integers

CONSTANTS NumInputs,     \* evidence files and sidecars a recipe reads
          NumArtifacts,  \* rows, network sidecar, identity, outcome
          Networks,      \* values the --network argument selects
          Coverages,     \* coverage a builder version reports for evidence
          MaxVersion,    \* bound: replacements of each evidence file
          Digests,       \* distinct contents of an evidence file
          MaxCrashes,    \* bound: builder deaths
          Absent,        \* a file that does not exist
          None           \* no journal, no target, no previous generation

ASSUME NumInputsAssumption == NumInputs \in Nat \ {0}
ASSUME NumArtifactsAssumption == NumArtifacts \in Nat \ {0}
ASSUME BoundsAssumption == MaxVersion \in Nat /\ MaxCrashes \in Nat
ASSUME DigestsAssumption == Digests \in Nat \ {0}

Inputs == 1 .. NumInputs
Report == NumArtifacts + 1
Artifacts == 1 .. NumArtifacts
Names == 1 .. Report

(* A version is one replacement of an evidence file, told from the others  *)
(* by digest and mtime together; 0: the file does not exist.  Later        *)
(* versions may have the content, hence the digest, of earlier ones.       *)
Versions == 0 .. MaxVersion
Evidence == [Inputs -> Versions]
Digest(v) == IF v = 0 THEN 0 ELSE 1 + ((v - 1) % Digests)
DigestsOf(e) == [i \in Inputs |-> Digest(e[i])]

(* generationId is the fingerprint of the evidence digests and of the      *)
(* selected network; a report also carries coverage, outside the id.       *)
Generations == [evidence : [Inputs -> 0 .. Digests], network : Networks]
Reports == [generation : Generations, coverage : Coverages]

(* What generation g writes in artifact n.  The row file (the first one)   *)
(* holds rows drawn from the first input alone, so two generations may     *)
(* share it; every companion embeds the generationId.                      *)
ArtifactOf(n, g) == IF n = 1 THEN [rows |-> g.evidence[1]]
                    ELSE [generationId |-> g]

(* The content of every file of the product whose report is r.             *)
ContentOf(n, r) == IF n = Report THEN r ELSE ArtifactOf(n, r.generation)

Contents == {ContentOf(n, r) : n \in Names, r \in Reports} \cup {Absent}
Products == {f \in [Names -> Contents] : f[Report] \in Reports \cup {Absent}}
NoFiles == [n \in Names |-> Absent]

Journals == [present : SUBSET Names, generation : Generations,
             previous : Generations \cup {None}]

(* No value of the model is mistaken for a file, report, generation or     *)
(* journal that is not there.                                              *)
ASSUME AbsentAssumption ==
    /\ Absent \notin Reports
    /\ None \notin Reports /\ None \notin Generations /\ None \notin Journals
    /\ \A n \in Names, r \in Reports : ContentOf(n, r) # Absent

VARIABLES
    input,     \* [Inputs -> Versions]: the evidence cached now
    past,      \* history: every vector of evidence there has been
    files,     \* [Names -> Contents]: the public files
    dir,       \* whether the recovery directory exists
    backup,    \* [Names -> Contents]: the copies in the recovery directory
    journal,   \* its commit.json, or None
    pc,        \* where the holder of the lock is; "idle": the lock is free
    k,         \* the builder's position in the loop pc names
    captured,  \* [Inputs -> Versions]: the evidence it captured
    target,    \* the report it is to publish
    previous,  \* the generation it found in place, or None
    crashes    \* bound: deaths so far

disk == <<files, dir, backup, journal>>
locals == <<captured, target, previous>>
vars == <<input, past, files, dir, backup, journal, pc, k, captured, target,
          previous, crashes>>

Phases == {"idle", "recover", "rollback", "clearOld", "capture", "decide",
           "check", "backup", "recheck", "replace", "clearNew"}

TypeOK ==
    /\ input \in Evidence
    /\ past \subseteq Evidence
    /\ files \in Products
    /\ dir \in BOOLEAN
    /\ backup \in Products
    /\ journal \in Journals \cup {None}
    /\ pc \in Phases
    /\ k \in Nat
    /\ captured \in Evidence
    /\ target \in Reports \cup {None}
    /\ previous \in Generations \cup {None}
    /\ crashes \in 0 .. MaxCrashes

NoEvidence == [i \in Inputs |-> 0]

Init ==
    /\ input = NoEvidence
    /\ past = {input}
    /\ files = NoFiles
    /\ dir = FALSE
    /\ backup = NoFiles
    /\ journal = None
    /\ pc = "idle"
    /\ k = 1
    /\ captured = NoEvidence
    /\ target = None
    /\ previous = None
    /\ crashes = 0

-----------------------------------------------------------------------------
(* read_generation succeeds: the report exists and every artifact has the  *)
(* digest it records, companions naming the same generation.  The lock     *)
(* holder is the only writer of these files, so for it a read is atomic.   *)
Whole(f) == /\ f[Report] # Absent
            /\ \A n \in Artifacts : f[n] = ArtifactOf(n, f[Report].generation)

GenerationOf(f) == IF Whole(f) THEN f[Report].generation ELSE None

Go(phase, position) == pc' = phase /\ k' = position

(* The builder returns, raises or dies: flock is released with it.         *)
Release == /\ Go("idle", 1)
           /\ captured' = NoEvidence
           /\ target' = None
           /\ previous' = None

(* A collector replaces one evidence file or sidecar: each is atomic, the  *)
(* pair is not.                                                            *)
Collect(i) ==
    /\ input[i] < MaxVersion
    /\ input' = [input EXCEPT ![i] = @ + 1]
    /\ past' = past \cup {input'}
    /\ UNCHANGED <<disk, pc, k, locals, crashes>>

AcquireLock ==
    /\ pc = "idle"
    /\ Go("recover", 1)
    /\ UNCHANGED <<input, past, disk, locals, crashes>>

-----------------------------------------------------------------------------
(* _recover.                                                               *)

RecoverNothing ==
    /\ pc = "recover" /\ ~dir
    /\ Go("capture", 1)
    /\ UNCHANGED <<input, past, disk, locals, crashes>>

(* Mutant: an unjournaled directory is left for mkdir to trip over.        *)
RecoverUnjournaledLeft ==
    /\ pc = "recover" /\ dir /\ journal = None
    /\ Go("capture", 1)
    /\ UNCHANGED <<input, past, disk, locals, crashes>>

RecoverUnjournaled ==
    /\ pc = "recover" /\ dir /\ journal = None
    /\ Go("clearOld", 1)
    /\ UNCHANGED <<input, past, disk, locals, crashes>>

(* Mutant: any journal is taken for a finished publication.                *)
RecoverCommittedAnyway ==
    /\ pc = "recover" /\ dir /\ journal # None
    /\ Go("clearOld", 1)
    /\ UNCHANGED <<input, past, disk, locals, crashes>>

(* The generation the journal announces is in place: keep it.              *)
RecoverCommitted ==
    /\ pc = "recover" /\ dir /\ journal # None
    /\ GenerationOf(files) = journal.generation
    /\ Go("clearOld", 1)
    /\ UNCHANGED <<input, past, disk, locals, crashes>>

RecoverInterrupted ==
    /\ pc = "recover" /\ dir /\ journal # None
    /\ GenerationOf(files) # journal.generation
    /\ Go("rollback", 1)
    /\ UNCHANGED <<input, past, disk, locals, crashes>>

(* Copy one backup back, or remove a file that did not exist before.       *)
RestoreFile ==
    /\ pc = "rollback" /\ k <= Report
    /\ k \in journal.present => backup[k] # Absent
    /\ files' = [files EXCEPT ![k] =
                   IF k \in journal.present THEN backup[k] ELSE Absent]
    /\ Go("rollback", k + 1)
    /\ UNCHANGED <<input, past, dir, backup, journal, locals, crashes>>

MissingBackup == pc = "rollback" /\ k \in journal.present /\ backup[k] = Absent

(* raise UnifiedDatasetError("Missing recovery artifact: ...")             *)
RestoreFails ==
    /\ MissingBackup
    /\ Release
    /\ UNCHANGED <<input, past, disk, crashes>>

RestoredMatches ==
    journal.previous = None \/ GenerationOf(files) = journal.previous

FinishRollback ==
    /\ pc = "rollback" /\ k = Report + 1
    /\ IF RestoredMatches
         THEN Go("clearOld", 1) /\ UNCHANGED locals
         ELSE Release
    /\ UNCHANGED <<input, past, disk, crashes>>

(* _clear_recovery: unlink the copies in order, then the journal, then     *)
(* remove the directory.                                                   *)
Clearing == pc \in {"clearOld", "clearNew"}

UnlinkBackup ==
    /\ Clearing /\ k <= Report
    /\ backup' = [backup EXCEPT ![k] = Absent]
    /\ Go(pc, k + 1)
    /\ UNCHANGED <<input, past, files, dir, journal, locals, crashes>>

UnlinkJournal ==
    /\ Clearing /\ k = Report + 1
    /\ journal' = None
    /\ Go(pc, k + 1)
    /\ UNCHANGED <<input, past, files, dir, backup, locals, crashes>>

RemoveRecovery ==
    /\ Clearing /\ k = Report + 2
    /\ dir' = FALSE
    /\ IF pc = "clearOld"
         THEN Go("capture", 1) /\ UNCHANGED locals
         ELSE Release
    /\ UNCHANGED <<input, past, files, backup, journal, crashes>>

-----------------------------------------------------------------------------
(* _build_locked.                                                          *)

CaptureInput ==
    /\ pc = "capture" /\ k <= NumInputs
    /\ captured' = [captured EXCEPT ![k] = input[k]]
    /\ Go("capture", k + 1)
    /\ UNCHANGED <<input, past, disk, target, previous, crashes>>

(* Evidence that is malformed, mis-scoped or missing without               *)
(* --allow-partial ends the build before anything is written.              *)
RejectInputs ==
    /\ pc = "capture"
    /\ Release
    /\ UNCHANGED <<input, past, disk, crashes>>

ChooseTarget(network, coverage) ==
    /\ pc = "capture" /\ k = NumInputs + 1
    /\ captured[1] # 0
    /\ target' = [generation |-> [evidence |-> DigestsOf(captured),
                                  network |-> network],
                  coverage |-> coverage]
    /\ previous' = GenerationOf(files)
    /\ Go("decide", 1)
    /\ UNCHANGED <<input, past, disk, captured, crashes>>

UpToDate == Whole(files) /\ files[Report] = target

(* An unchanged generation is left as it is; the final _recheck can only   *)
(* turn the no-op into an error, and either way the build ends.            *)
NoOp ==
    /\ pc = "decide" /\ UpToDate
    /\ Release
    /\ UNCHANGED <<input, past, disk, crashes>>

StartPublication ==
    /\ pc = "decide" /\ ~UpToDate
    /\ Go("check", 1)
    /\ UNCHANGED <<input, past, disk, locals, crashes>>

-----------------------------------------------------------------------------
(* _publish.                                                               *)

Checking == pc \in {"check", "recheck"}

(* Mutant: the recheck reads the evidence but compares nothing.            *)
RecheckInputBlind ==
    /\ Checking /\ k <= NumInputs
    /\ Go(pc, k + 1)
    /\ UNCHANGED <<input, past, disk, locals, crashes>>

RecheckInput ==
    /\ Checking /\ k <= NumInputs
    /\ captured[k] = input[k]
    /\ Go(pc, k + 1)
    /\ UNCHANGED <<input, past, disk, locals, crashes>>

(* raise UnifiedDatasetError("Cached input changed during build: ..."):    *)
(* after the journal is written this leaves the recovery directory behind. *)
InputChanged ==
    /\ Checking /\ k <= NumInputs
    /\ captured[k] # input[k]
    /\ Release
    /\ UNCHANGED <<input, past, disk, crashes>>

(* mkdir: a directory left over would make it raise.                       *)
MakeRecovery ==
    /\ pc = "check" /\ k = NumInputs + 1
    /\ dir' = TRUE
    /\ IF dir THEN Release ELSE Go("backup", 1) /\ UNCHANGED locals
    /\ UNCHANGED <<input, past, files, backup, journal, crashes>>

(* Mutants: copies filed under the wrong names; the report not copied.     *)
BackupFileSwapped ==
    /\ pc = "backup" /\ k <= Report
    /\ backup' = [backup EXCEPT ![Report + 1 - k] = files[k]]
    /\ Go("backup", k + 1)
    /\ UNCHANGED <<input, past, files, dir, journal, locals, crashes>>

BackupArtifactOnly ==
    /\ pc = "backup" /\ k <= Report
    /\ backup' = [backup EXCEPT ![k] = IF k = Report THEN Absent ELSE files[k]]
    /\ Go("backup", k + 1)
    /\ UNCHANGED <<input, past, files, dir, journal, locals, crashes>>

BackupFile ==
    /\ pc = "backup" /\ k <= Report
    /\ backup' = [backup EXCEPT ![k] = files[k]]
    /\ Go("backup", k + 1)
    /\ UNCHANGED <<input, past, files, dir, journal, locals, crashes>>

(* commit.json appears by hard link, complete or not at all.               *)
WriteJournal ==
    /\ pc = "backup" /\ k = Report + 1
    /\ journal' = [present |-> {n \in Names : backup[n] # Absent},
                   generation |-> target.generation, previous |-> previous]
    /\ Go("recheck", 1)
    /\ UNCHANGED <<input, past, files, dir, backup, locals, crashes>>

StartReplacing ==
    /\ pc = "recheck" /\ k = NumInputs + 1
    /\ Go("replace", 1)
    /\ UNCHANGED <<input, past, disk, locals, crashes>>

ReplaceFile ==
    /\ pc = "replace" /\ k <= Report
    /\ files' = [files EXCEPT ![k] = ContentOf(k, target)]
    /\ Go("replace", k + 1)
    /\ UNCHANGED <<input, past, dir, backup, journal, locals, crashes>>

VerifyPublication ==
    /\ pc = "replace" /\ k = Report + 1
    /\ IF Whole(files)
         THEN Go("clearNew", 1) /\ UNCHANGED locals
         ELSE Release
    /\ UNCHANGED <<input, past, disk, crashes>>

-----------------------------------------------------------------------------
(* The builder is killed (job cancel, CLI timeout, reboot) or an OSError   *)
(* unwinds it: what is on disk stays.                                      *)
Crash ==
    /\ pc # "idle"
    /\ crashes < MaxCrashes
    /\ crashes' = crashes + 1
    /\ Release
    /\ UNCHANGED <<input, past, disk>>

Recover == \/ RecoverNothing \/ RecoverUnjournaled \/ RecoverCommitted
           \/ RecoverInterrupted \/ RestoreFile \/ RestoreFails
           \/ FinishRollback

ClearRecovery == UnlinkBackup \/ UnlinkJournal \/ RemoveRecovery

Build == \/ CaptureInput \/ RejectInputs \/ NoOp \/ StartPublication
         \/ \E n \in Networks, c \in Coverages : ChooseTarget(n, c)

Publish == \/ RecheckInput \/ InputChanged \/ MakeRecovery \/ BackupFile
           \/ WriteJournal \/ StartReplacing \/ ReplaceFile
           \/ VerifyPublication

BuilderStep == Recover \/ ClearRecovery \/ Build \/ Publish

Next == \/ AcquireLock \/ BuilderStep \/ Crash
        \/ \E i \in Inputs : Collect(i)

Spec == Init /\ [][Next]_vars

(* A builder that is running goes on, and builds keep being requested      *)
(* (every explicit build or Process All starts one).                       *)
Fairness == WF_vars(BuilderStep) /\ WF_vars(AcquireLock)

FairSpec == Spec /\ Fairness

-----------------------------------------------------------------------------
(* Properties.                                                             *)

(* A generation that can be read was built from evidence that was all in   *)
(* the cache at one moment, however collectors interleave with the         *)
(* captures: the two rounds of _recheck see to it.                         *)
SnapshotConsistent ==
    Whole(files) =>
        \E e \in past : files[Report].generation.evidence = DigestsOf(e)

(* Whatever steps builders died at, public files of different generations  *)
(* only ever coexist under a journal that says how to undo them.           *)
NoMixWithoutJournal == journal = None => Whole(files) \/ files = NoFiles

(* The product is the committed store: publications and crash recoveries   *)
(* only make it unavailable or commit the builder's report, and what was   *)
(* committed is never lost nor rolled back.                                *)
Committed == IF Whole(files) THEN files[Report]
             ELSE IF journal # None THEN backup[Report] ELSE Absent

Store == INSTANCE CommittedStore WITH
             Values <- Reports, NoValue <- Absent,
             value <- Committed, available <- Whole(files)

CommittedIsStored == Store!StoreSpec

-----------------------------------------------------------------------------
(* The inductive invariant behind these: what each phase of the builder    *)
(* has established, and what the recovery directory guarantees to whoever  *)
(* finds it.                                                               *)
Settled(f) == Whole(f) \/ f = NoFiles

(* Every file that existed before the publication has its copy.            *)
Intact == journal.present = {n \in Names : backup[n] # Absent}

(* Under a journal: the old files were all there or none was; copies go    *)
(* missing first copy first, and only once the product is whole; intact    *)
(* copies are a product; and until the announced generation is in place    *)
(* the report is still the old one.                                        *)
JournalSound ==
    journal # None =>
        /\ dir
        /\ journal.present \in {{}, Names}
        /\ journal.present = {} => backup = NoFiles
        /\ Intact \/ (backup[1] = Absent /\ Whole(files))
        /\ Intact => Settled(backup)
        /\ Whole(files) \/ files[Report] = backup[Report]
        /\ Intact /\ GenerationOf(files) # journal.generation
             => files[Report] = backup[Report]

CopiesSound == ~dir => journal = None /\ backup = NoFiles

InRecover == pc = "recover" => k = 1

InRollback ==
    pc = "rollback" =>
        /\ journal # None /\ k \in 1 .. Report + 1
        /\ k = 1 => GenerationOf(files) # journal.generation
        /\ k > 1 => /\ Intact /\ files[Report] = backup[Report]
                    /\ \A n \in Names : n < k => files[n] = backup[n]

InClear ==
    pc \in {"clearOld", "clearNew"} =>
        /\ dir /\ Settled(files) /\ k \in 1 .. Report + 2
        /\ \A n \in Names : n < k => backup[n] = Absent
        /\ k = Report + 2 => journal = None

InBuild ==
    /\ pc \in {"capture", "decide", "check"} => ~dir
    /\ pc \in {"decide", "check", "backup", "recheck", "replace"} => target # None

InBackup ==
    pc = "backup" =>
        /\ dir /\ journal = None /\ k \in 1 .. Report + 1
        /\ \A n \in Names : backup[n] = IF n < k THEN files[n] ELSE Absent

InReplace ==
    pc \in {"recheck", "replace"} =>
        /\ journal # None /\ journal.generation = target.generation
        /\ Intact

InRecheck == pc = "recheck" => files = backup

Replaced ==
    pc = "replace" =>
        /\ k \in 1 .. Report + 1
        /\ \A n \in Names : files[n] = IF n < k THEN ContentOf(n, target)
                                              ELSE backup[n]

RecoverySound == NoMixWithoutJournal /\ JournalSound /\ CopiesSound

PhaseSound == /\ InRecover /\ InRollback /\ InClear /\ InBuild
              /\ InBackup /\ InReplace /\ InRecheck /\ Replaced

DiskInv == RecoverySound /\ PhaseSound

(* Captured evidence bracketed by one vector that was all cached at once;  *)
(* below m the rechecks have pinned it to that vector.                     *)
Bracketed(m) ==
    \E e \in past : \A i \in Inputs : /\ captured[i] <= e[i] /\ e[i] <= input[i]
                                      /\ i < m => captured[i] = e[i]

Backed(r) == \E e \in past : r.generation.evidence = DigestsOf(e)

InCapture ==
    pc = "capture" =>
        /\ k \in 1 .. NumInputs + 1
        /\ \A i \in Inputs : i < k => captured[i] <= input[i]
        /\ k = NumInputs + 1 => Bracketed(1)

InCheck ==
    /\ pc = "decide" => Bracketed(1)
    /\ pc = "check" => k \in 1 .. NumInputs + 1 /\ Bracketed(k)
    /\ pc \in {"decide", "check"} =>
         target.generation.evidence = DigestsOf(captured)

TargetBacked == pc \in {"backup", "recheck", "replace"} => Backed(target)

FilesBacked == /\ files[Report] # Absent => Backed(files[Report])
               /\ backup[Report] # Absent => Backed(backup[Report])

EvidenceInv == /\ input \in past
               /\ InCapture /\ InCheck /\ TargetBacked /\ FilesBacked

Inv == TypeOK /\ DiskInv /\ EvidenceInv

-----------------------------------------------------------------------------
(* A rollback that finished but died while unlinking its copies: the       *)
(* journal remains, a copy it needs does not.                              *)
Stuck == /\ dir /\ journal # None
         /\ GenerationOf(files) # journal.generation
         /\ \E n \in journal.present : backup[n] = Absent

(* An interrupted publication is recovered once builds run undisturbed,    *)
(* except in the one case above.                                           *)
RecoveredOrStuck == dir ~> (~dir \/ Stuck)

(* README.md:95 "Interrupted publication is recovered only by the next     *)
(* explicit build": the next explicit build recovers every interruption.   *)
NextBuildRecovers == dir ~> ~dir

=============================================================================
