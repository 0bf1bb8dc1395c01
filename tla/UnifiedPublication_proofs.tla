---------------------- MODULE UnifiedPublication_proofs ----------------------
(* Theorems about UnifiedPublication, for every value of its constants,    *)
(* and about UnifiedReaders, for any number of readers, of evidence files  *)
(* and of artifacts, any number of builds and of builders that die.        *)
EXTENDS UnifiedReaders, TLAPS

USE NumInputsAssumption, NumArtifactsAssumption, BoundsAssumption,
    DigestsAssumption

LEMMA NamesFacts ==
    /\ Report \in Names /\ 1 \in Names /\ Report \in Nat /\ Report > 1
    /\ Names = Artifacts \cup {Report} /\ Report \notin Artifacts
    /\ \A n \in Names : n \in Nat /\ n >= 1 /\ n <= Report
    /\ \A n \in Nat : n >= 1 /\ n <= Report => n \in Names
    /\ \A i \in Inputs : i \in Nat /\ i >= 1 /\ i <= NumInputs
    /\ \A i \in Nat : i >= 1 /\ i <= NumInputs => i \in Inputs
    /\ 1 \in Inputs
  BY DEF Names, Report, Artifacts, Inputs

(* A published file is a content of its kind; the report is itself.        *)
LEMMA ContentFacts ==
    /\ \A n \in Names, r \in Reports : ContentOf(n, r) \in Contents
    /\ \A r \in Reports : ContentOf(Report, r) = r
    /\ \A n \in Artifacts, r \in Reports :
          ContentOf(n, r) = ArtifactOf(n, r.generation)
    /\ \A n \in Names, r \in Reports : ContentOf(n, r) # Absent
    /\ Absent \in Contents
  BY NamesFacts, AbsentAssumption DEF Contents, ContentOf

LEMMA DigestType == \A v \in Versions : Digest(v) \in 0 .. Digests
  BY DEF Versions, Digest

LEMMA DigestsOfType == \A e \in Evidence :
                           DigestsOf(e) \in [Inputs -> 0 .. Digests]
  BY DigestType DEF Evidence, DigestsOf

LEMMA ReportsType ==
    \A r \in Reports : r.generation \in Generations /\ r # None /\ r.generation # None
  BY AbsentAssumption DEF Reports

(* Replacing one file by a content of its kind keeps a product a product.  *)
LEMMA ProductUpdate ==
    ASSUME NEW f \in Products, NEW n \in Names, NEW c \in Contents,
           n = Report => c \in Reports \cup {Absent}
    PROVE  [f EXCEPT ![n] = c] \in Products
  BY NamesFacts DEF Products

LEMMA ProductFacts ==
    /\ \A f \in Products : /\ f \in [Names -> Contents]
                           /\ f[Report] \in Reports \cup {Absent}
                           /\ GenerationOf(f) \in Generations \cup {None}
    /\ NoFiles \in Products
    /\ ~Whole(NoFiles)
    /\ \A n \in Names : NoFiles[n] = Absent
  BY NamesFacts, ContentFacts, ReportsType
  DEF Products, GenerationOf, NoFiles, Whole

-----------------------------------------------------------------------------
(* Type correctness.  The types of a journal and of a published report     *)
(* rest on the builder having chosen a target, hence on DiskInv.           *)

LEMMA TypeInit == Init => TypeOK
<1> SUFFICES ASSUME Init PROVE TypeOK
  OBVIOUS
<1>1. NoEvidence \in Evidence
  BY DEF NoEvidence, Evidence, Versions
<1>2. files \in Products /\ backup \in Products
  BY ProductFacts DEF Init
<1>3. pc \in Phases /\ k \in Nat /\ crashes \in 0 .. MaxCrashes
  BY DEF Init, Phases
<1> QED BY <1>1, <1>2, <1>3 DEF Init, TypeOK

LEMMA TypeStep ==
    ASSUME TypeOK, DiskInv, Next
    PROVE  TypeOK'
<1> USE DEF TypeOK, Go, Phases, disk, locals
<1>r. ASSUME Release
      PROVE /\ pc' \in Phases /\ k' \in Nat /\ captured' \in Evidence
            /\ target' \in Reports \cup {None}
            /\ previous' \in Generations \cup {None}
  BY <1>r DEF Release, Evidence, Versions, NoEvidence
<1>1. ASSUME NEW i \in Inputs, Collect(i) PROVE TypeOK'
  <2>1. input' \in Evidence
    BY <1>1 DEF Collect, Evidence, Versions
  <2> QED BY <1>1, <2>1 DEF Collect
<1>2. CASE AcquireLock
  BY <1>2 DEF AcquireLock
<1>3. CASE RecoverNothing \/ RecoverUnjournaled \/ RecoverCommitted
           \/ RecoverInterrupted
  BY <1>3 DEF RecoverNothing, RecoverUnjournaled, RecoverCommitted,
              RecoverInterrupted
<1>4. CASE RestoreFile
  <2>1. k \in Names
    BY <1>4, NamesFacts DEF RestoreFile, DiskInv, PhaseSound, InRollback
  <2> DEFINE c == IF k \in journal.present THEN backup[k] ELSE Absent
  <2>3. c \in Contents /\ (k = Report => c \in Reports \cup {Absent})
    BY <2>1, ProductFacts, ContentFacts
  <2>4. files' = [files EXCEPT ![k] = c]
    BY <1>4 DEF RestoreFile
  <2> HIDE DEF c
  <2>2. files' \in Products
    BY <2>1, <2>3, <2>4, ProductUpdate
  <2> QED BY <1>4, <2>2 DEF RestoreFile
<1>5. CASE RestoreFails
  BY <1>5, <1>r DEF RestoreFails
<1>6. CASE FinishRollback
  BY <1>6, <1>r DEF FinishRollback
<1>7. CASE UnlinkBackup
  <2>1. k \in Names
    BY <1>7, NamesFacts DEF UnlinkBackup, Clearing, DiskInv, PhaseSound, InClear
  <2>2. backup' \in Products
    BY <1>7, <2>1, ProductUpdate, ContentFacts DEF UnlinkBackup
  <2> QED BY <1>7, <2>2 DEF UnlinkBackup
<1>8. CASE UnlinkJournal
  BY <1>8 DEF UnlinkJournal
<1>9. CASE RemoveRecovery
  <2>1. CASE pc = "clearOld"
    <3>1. /\ dir' = FALSE /\ pc' = "capture" /\ k' = 1
          /\ UNCHANGED <<input, past, files, backup, journal, captured, target,
                         previous, crashes>>
      BY <1>9, <2>1 DEF RemoveRecovery
    <3> QED BY <3>1
  <2>2. CASE pc # "clearOld"
    BY <1>9, <2>2, <1>r DEF RemoveRecovery
  <2> QED BY <2>1, <2>2
<1>10. CASE CaptureInput
  <2>1. captured' \in Evidence
    BY <1>10 DEF CaptureInput, Evidence
  <2> QED BY <1>10, <2>1 DEF CaptureInput
<1>11. CASE RejectInputs \/ NoOp \/ InputChanged \/ Crash
  BY <1>11, <1>r DEF RejectInputs, NoOp, InputChanged, Crash
<1>12. ASSUME NEW network \in Networks, NEW coverage \in Coverages,
              ChooseTarget(network, coverage)
       PROVE  TypeOK'
  <2>1. target' \in Reports
    BY <1>12, DigestsOfType DEF ChooseTarget, Reports, Generations
  <2>2. previous' \in Generations \cup {None}
    BY <1>12, ProductFacts DEF ChooseTarget
  <2> QED BY <1>12, <2>1, <2>2 DEF ChooseTarget
<1>13. CASE StartPublication \/ RecheckInput \/ StartReplacing
  BY <1>13 DEF StartPublication, RecheckInput, StartReplacing
<1>14. CASE MakeRecovery
  BY <1>14, <1>r DEF MakeRecovery
<1>15. CASE BackupFile
  <2>1. k \in Names
    BY <1>15, NamesFacts DEF BackupFile, DiskInv, PhaseSound, InBackup
  <2>2. backup' \in Products
    BY <1>15, <2>1, ProductFacts, ProductUpdate DEF BackupFile
  <2> QED BY <1>15, <2>2 DEF BackupFile
<1>16. CASE WriteJournal
  <2>1. target \in Reports
    BY <1>16 DEF WriteJournal, DiskInv, PhaseSound, InBuild
  <2>2. journal' \in Journals
    BY <1>16, <2>1, ReportsType DEF WriteJournal, Journals
  <2> QED BY <1>16, <2>2 DEF WriteJournal
<1>17. CASE ReplaceFile
  <2>1. k \in Names /\ target \in Reports
    BY <1>17, NamesFacts DEF ReplaceFile, DiskInv, PhaseSound, InBuild, Replaced
  <2>2. files' \in Products
    BY <1>17, <2>1, ProductUpdate, ContentFacts DEF ReplaceFile
  <2> QED BY <1>17, <2>2 DEF ReplaceFile
<1>18. CASE VerifyPublication
  BY <1>18, <1>r DEF VerifyPublication
<1> QED
  BY <1>1, <1>2, <1>3, <1>4, <1>5, <1>6, <1>7, <1>8, <1>9, <1>10, <1>11, <1>12,
     <1>13, <1>14, <1>15, <1>16, <1>17, <1>18
  DEF Next, BuilderStep, Recover, ClearRecovery, Build, Publish

-----------------------------------------------------------------------------
(* What the recovery directory guarantees.                                 *)

(* Whole products: nothing is missing, the report determines the rest, and *)
(* publishing every file of a report makes one.                            *)
LEMMA WholeFacts ==
    /\ \A f \in Products : Whole(f) => /\ f[Report] \in Reports
                                       /\ GenerationOf(f) = f[Report].generation
                                       /\ \A n \in Names : f[n] # Absent
    /\ \A f \in Products : \A r \in Reports :
          (\A n \in Names : f[n] = ContentOf(n, r)) =>
              Whole(f) /\ f[Report] = r /\ GenerationOf(f) = r.generation
<1>1. ASSUME NEW f \in Products, Whole(f)
      PROVE  /\ f[Report] \in Reports /\ GenerationOf(f) = f[Report].generation
             /\ \A n \in Names : f[n] # Absent
  <2>1. f[Report] \in Reports
    BY <1>1, ProductFacts DEF Whole
  <2>2. \A n \in Names : f[n] # Absent
    BY <1>1, <2>1, NamesFacts, ContentFacts DEF Whole
  <2> QED BY <1>1, <2>1, <2>2 DEF GenerationOf
<1>2. ASSUME NEW f \in Products, NEW r \in Reports,
             \A n \in Names : f[n] = ContentOf(n, r)
      PROVE  Whole(f) /\ f[Report] = r /\ GenerationOf(f) = r.generation
  <2>1. f[Report] = r /\ f[Report] # Absent
    BY <1>2, NamesFacts, ContentFacts
  <2>2. \A n \in Artifacts : f[n] = ArtifactOf(n, r.generation)
    BY <1>2, NamesFacts, ContentFacts
  <2> QED BY <2>1, <2>2 DEF Whole, GenerationOf
<1> QED BY <1>1, <1>2

LEMMA SameProduct ==
    ASSUME NEW f \in Products, NEW g \in Products
    PROVE  /\ (\A n \in Names : f[n] = g[n]) => f = g
           /\ Whole(f) /\ Whole(g) /\ f[Report] = g[Report] => f = g
<1>1. f \in [Names -> Contents] /\ g \in [Names -> Contents]
  BY ProductFacts
<1>2. (\A n \in Names : f[n] = g[n]) => f = g
  BY <1>1
<1>3. ASSUME Whole(f), Whole(g), f[Report] = g[Report]
      PROVE  \A n \in Names : f[n] = g[n]
  BY <1>3, NamesFacts DEF Whole
<1> QED BY <1>2, <1>3

(* Intact copies of nothing, or of everything.                             *)
LEMMA IntactFacts ==
    ASSUME TypeOK, JournalSound, journal # None
    PROVE  /\ Intact => \A n \in Names : n \in journal.present <=> backup[n] # Absent
           /\ journal.present = {} => Intact /\ backup = NoFiles
           /\ journal.present # {} => journal.present = Names
           /\ ~Intact => /\ journal.present = Names /\ backup[1] = Absent
                         /\ Whole(files)
           /\ Intact /\ ~Whole(backup) => journal.present = {}
<1>1. journal.present \in {{}, Names}
  BY DEF JournalSound
<1>2. journal.present = {} => Intact /\ backup = NoFiles
  BY ProductFacts DEF JournalSound, Intact
<1>3. Intact => \A n \in Names : n \in journal.present <=> backup[n] # Absent
  BY DEF Intact
<1>4. Intact /\ ~Whole(backup) => journal.present = {}
  <2> SUFFICES ASSUME Intact, ~Whole(backup) PROVE journal.present = {}
    OBVIOUS
  <2>1. backup = NoFiles
    BY DEF JournalSound, Settled
  <2> QED BY <2>1, ProductFacts DEF Intact
<1> QED BY <1>1, <1>2, <1>3, <1>4 DEF JournalSound

LEMMA DiskInit == Init => DiskInv
  BY NamesFacts, ProductFacts
  DEF Init, DiskInv, RecoverySound, PhaseSound, NoMixWithoutJournal, JournalSound,
      CopiesSound, InRecover, InRollback, InClear, InBuild, InBackup, InReplace,
      InRecheck, Replaced

-----------------------------------------------------------------------------
(* Steps that leave the disk alone keep what recovery relies on.           *)
LEMMA SameDisk == RecoverySound /\ UNCHANGED disk => RecoverySound'
  BY DEF RecoverySound, disk, NoMixWithoutJournal, JournalSound, CopiesSound,
         Whole, Settled, Intact, GenerationOf

LEMMA IdlePhase == pc' = "idle" => PhaseSound'
  BY DEF PhaseSound, InRecover, InRollback, InClear, InBuild, InBackup,
         InReplace, InRecheck, Replaced

(* _recover only ever restores old files, and ends with all of them back.  *)
LEMMA RecoverStep ==
    ASSUME TypeOK, DiskInv, Recover
    PROVE  DiskInv'
<1> USE DEF Go
<1>t. TypeOK /\ RecoverySound /\ JournalSound /\ InRollback /\ files \in Products
      /\ backup \in Products
  BY DEF DiskInv, PhaseSound, RecoverySound, TypeOK
<1>1. CASE RecoverNothing
  <2>1. RecoverySound'
    BY <1>1, <1>t, SameDisk DEF RecoverNothing
  <2>2. pc' = "capture" /\ dir' = FALSE
    BY <1>1 DEF RecoverNothing, disk, TypeOK
  <2>3. PhaseSound'
    BY <2>2 DEF PhaseSound, InRecover, InRollback, InClear, InBuild, InBackup,
                InReplace, InRecheck, Replaced
  <2> QED BY <2>1, <2>3 DEF DiskInv
<1>2. CASE RecoverUnjournaled \/ RecoverCommitted
  <2>1. RecoverySound'
    BY <1>2, <1>t, SameDisk DEF RecoverUnjournaled, RecoverCommitted
  <2>2. pc' = "clearOld" /\ k' = 1 /\ dir /\ UNCHANGED disk
    BY <1>2 DEF RecoverUnjournaled, RecoverCommitted
  <2>3. Settled(files)
    <3>1. CASE RecoverUnjournaled
      BY <3>1, <1>t DEF RecoverUnjournaled, RecoverySound, NoMixWithoutJournal,
                        Settled
    <3>2. CASE RecoverCommitted
      <4>1. GenerationOf(files) # None
        BY <3>2, AbsentAssumption DEF RecoverCommitted, TypeOK, Journals
      <4> QED BY <4>1 DEF GenerationOf, Settled
    <3> QED BY <1>2, <3>1, <3>2
  <2>4. InClear'
    BY <2>2, <2>3, NamesFacts DEF InClear, disk, Settled, Whole
  <2>5. PhaseSound'
    BY <2>2, <2>4 DEF PhaseSound, InRecover, InRollback, InBuild, InBackup,
                      InReplace, InRecheck, Replaced
  <2> QED BY <2>1, <2>5 DEF DiskInv
<1>3. CASE RecoverInterrupted
  <2>1. RecoverySound'
    BY <1>3, <1>t, SameDisk DEF RecoverInterrupted
  <2>2. /\ pc' = "rollback" /\ k' = 1 /\ journal # None /\ UNCHANGED disk
        /\ GenerationOf(files) # journal.generation
    BY <1>3 DEF RecoverInterrupted
  <2>4. InRollback'
    BY <2>2, NamesFacts DEF InRollback, disk, GenerationOf, Whole
  <2>5. PhaseSound'
    BY <2>2, <2>4 DEF PhaseSound, InRecover, InClear, InBuild, InBackup,
                      InReplace, InRecheck, Replaced
  <2> QED BY <2>1, <2>5 DEF DiskInv
<1>4. CASE RestoreFile
  <2>1. /\ pc = "rollback" /\ k \in Names /\ k <= Report /\ journal # None
        /\ pc' = "rollback" /\ k' = k + 1
        /\ UNCHANGED <<dir, backup, journal>>
        /\ k \in journal.present => backup[k] # Absent
    BY <1>4, <1>t, NamesFacts DEF RestoreFile, InRollback
  <2>2. Intact /\ files[Report] = backup[Report]
        /\ \A n \in Names : n < k => files[n] = backup[n]
    <3>1. CASE k > 1
      BY <3>1, <2>1, <1>t DEF InRollback
    <3>2. CASE k = 1
      <4>1. Intact
        BY <3>2, <2>1, <1>t, IntactFacts
      <4> QED BY <4>1, <3>2, <2>1, <1>t, NamesFacts DEF InRollback, JournalSound
    <3>3. k = 1 \/ k > 1
      BY <2>1, NamesFacts
    <3> QED BY <3>1, <3>2, <3>3
  <2>3. files' = [files EXCEPT ![k] = backup[k]]
    <3>1. k \notin journal.present => backup[k] = Absent
      BY <2>1, <2>2, <1>t, IntactFacts
    <3> QED BY <3>1, <1>4 DEF RestoreFile
  <2>4. /\ files'[Report] = backup'[Report]
        /\ \A n \in Names : n < k' => files'[n] = backup'[n]
    <3>1. \A n \in Names : files'[n] = IF n = k THEN backup[k] ELSE files[n]
      BY <2>3, <1>t, ProductFacts
    <3> QED BY <3>1, <2>1, <2>2, NamesFacts
  <2>5. Intact'
    BY <2>1, <2>2 DEF Intact
  <2>6. RecoverySound'
    BY <2>1, <2>2, <2>4, <2>5, <1>t
    DEF RecoverySound, NoMixWithoutJournal, JournalSound, CopiesSound, Settled,
        Whole
  <2>7. InRollback'
    <3>1. k' \in 1 .. Report + 1 /\ k' # 1 /\ journal' # None
      BY <2>1, NamesFacts
    <3> QED BY <3>1, <2>4, <2>5 DEF InRollback
  <2>8. PhaseSound'
    BY <2>1, <2>7 DEF PhaseSound, InRecover, InClear, InBuild, InBackup,
                      InReplace, InRecheck, Replaced
  <2> QED BY <2>6, <2>8 DEF DiskInv
<1>5. CASE RestoreFails
  BY <1>5, <1>t, SameDisk, IdlePhase DEF RestoreFails, Release, DiskInv
<1>6. CASE FinishRollback
  <2>1. UNCHANGED disk /\ RecoverySound'
    BY <1>6, <1>t, SameDisk DEF FinishRollback
  <2>2. CASE ~RestoredMatches
    BY <1>6, <2>1, <2>2, IdlePhase DEF FinishRollback, Release, DiskInv
  <2>3. CASE RestoredMatches
    <3>1. /\ pc = "rollback" /\ k = Report + 1 /\ journal # None
          /\ pc' = "clearOld" /\ k' = 1
      BY <1>6, <2>3, <1>t DEF FinishRollback, InRollback
    <3>2. Intact /\ files = backup
      <4>1. Intact /\ \A n \in Names : files[n] = backup[n]
        BY <3>1, <1>t, NamesFacts DEF InRollback
      <4> QED BY <4>1, <1>t, SameProduct
    <3>3. dir /\ Settled(files)
      BY <3>1, <3>2, <1>t DEF JournalSound
    <3>4. InClear'
      BY <3>1, <3>3, <2>1, NamesFacts DEF InClear, disk, Settled, Whole
    <3>5. PhaseSound'
      BY <3>1, <3>4 DEF PhaseSound, InRecover, InRollback, InBuild, InBackup,
                        InReplace, InRecheck, Replaced
    <3> QED BY <2>1, <3>5 DEF DiskInv
  <2> QED BY <2>2, <2>3
<1> QED BY <1>1, <1>2, <1>3, <1>4, <1>5, <1>6 DEF Recover

(* _clear_recovery runs only on a settled product, so nothing it removes   *)
(* is needed by the product; it loses the copies before the journal.       *)
LEMMA ClearStep ==
    ASSUME TypeOK, DiskInv, ClearRecovery
    PROVE  DiskInv'
<1> USE DEF Go, Clearing
<1>t. /\ TypeOK /\ RecoverySound /\ NoMixWithoutJournal /\ JournalSound
      /\ CopiesSound /\ files \in Products /\ backup \in Products
  BY DEF DiskInv, RecoverySound, TypeOK
<1>c. /\ pc \in {"clearOld", "clearNew"} /\ dir /\ Settled(files)
      /\ k \in 1 .. Report + 2 /\ k \in Nat
      /\ \A n \in Names : n < k => backup[n] = Absent
      /\ k = Report + 2 => journal = None
  BY NamesFacts DEF ClearRecovery, UnlinkBackup, UnlinkJournal, RemoveRecovery,
     DiskInv, PhaseSound, InClear
<1>1. CASE UnlinkBackup
  <2>1. /\ k \in Names /\ pc' = pc /\ k' = k + 1
        /\ UNCHANGED <<files, dir, journal>>
        /\ backup' = [backup EXCEPT ![k] = Absent]
    BY <1>1, <1>c, NamesFacts DEF UnlinkBackup
  <2>2. \A n \in Names : backup'[n] = IF n = k THEN Absent ELSE backup[n]
    BY <2>1, <1>t, ProductFacts
  <2>3. \A n \in Names : n < k' => backup'[n] = Absent
    BY <2>1, <2>2, <1>c, NamesFacts
  <2>4. backup'[1] = Absent
    BY <2>1, <2>3, NamesFacts
  <2>5. backup' \in Products
    BY <2>1, <1>t, ProductUpdate, ContentFacts
  <2>6. ASSUME journal # None, journal.present = {}
        PROVE  backup' = NoFiles /\ backup = NoFiles
    <3>1. backup = NoFiles
      BY <2>6, <1>t, IntactFacts
    <3>2. \A n \in Names : backup'[n] = NoFiles[n]
      BY <3>1, <2>2, ProductFacts
    <3> QED BY <3>1, <3>2, <2>5, ProductFacts, SameProduct
  <2>7. ASSUME journal # None, journal.present # {}
        PROVE  ~Intact' /\ Whole(files)
    <3>1. journal.present = Names
      BY <2>7, <1>t, IntactFacts
    <3>2. ~Intact'
      BY <3>1, <2>1, <2>4, NamesFacts DEF Intact
    <3>3. Whole(files)
      <4>1. CASE Intact
        <5>1. Whole(backup)
          BY <4>1, <2>7, <1>t, IntactFacts
        <5>2. files[Report] # Absent
          BY <5>1, <1>t, <2>7, WholeFacts, NamesFacts DEF JournalSound
        <5> QED BY <5>2, <1>c, NamesFacts, ProductFacts DEF Settled
      <4>2. CASE ~Intact
        BY <4>2, <2>7, <1>t, IntactFacts
      <4> QED BY <4>1, <4>2
    <3> QED BY <3>2, <3>3
  <2>8. JournalSound'
    <3> SUFFICES ASSUME journal' # None PROVE JournalSound'
      BY DEF JournalSound
    <3>1. CASE journal.present = {}
      BY <3>1, <2>1, <2>6, <1>t DEF JournalSound, Intact, Settled, Whole, GenerationOf
    <3>2. CASE journal.present # {}
      <4>1. ~Intact' /\ Whole(files)
        BY <3>2, <2>1, <2>7
      <4> QED BY <4>1, <3>2, <2>1, <2>4, <1>t, <1>c DEF JournalSound, Whole
    <3> QED BY <3>1, <3>2
  <2>9. RecoverySound'
    BY <2>1, <2>8, <1>c, <1>t DEF RecoverySound, NoMixWithoutJournal, CopiesSound, Whole
  <2>10. InClear'
    <3>1. k' \in 1 .. Report + 2
      BY <2>1, <1>c, NamesFacts
    <3>2. Settled(files)'
      BY <2>1, <1>c DEF Settled, Whole
    <3> QED BY <3>1, <3>2, <2>1, <2>3, <1>c, NamesFacts DEF InClear
  <2>11. PhaseSound'
    BY <2>1, <2>10, <1>c DEF PhaseSound, InRecover, InRollback, InBuild, InBackup,
                             InReplace, InRecheck, Replaced
  <2> QED BY <2>9, <2>11 DEF DiskInv
<1>2. CASE UnlinkJournal
  <2>1. /\ pc' = pc /\ k' = Report + 2 /\ journal' = None
        /\ UNCHANGED <<files, dir, backup>> /\ k = Report + 1
    BY <1>2, NamesFacts DEF UnlinkJournal
  <2>2. \A n \in Names : n < k' => backup'[n] = Absent
    BY <2>1, <1>c, NamesFacts
  <2>3. Settled(files)'
    BY <2>1, <1>c DEF Settled, Whole
  <2>4. InClear'
    BY <2>1, <2>2, <2>3, <1>c, NamesFacts DEF InClear
  <2>5. RecoverySound'
    BY <2>1, <2>3, <1>c DEF RecoverySound, NoMixWithoutJournal, JournalSound,
                            CopiesSound, Settled
  <2>6. PhaseSound'
    BY <2>1, <2>4, <1>c DEF PhaseSound, InRecover, InRollback, InBuild, InBackup,
                            InReplace, InRecheck, Replaced
  <2> QED BY <2>5, <2>6 DEF DiskInv
<1>3. CASE RemoveRecovery
  <2>1. /\ k = Report + 2 /\ dir' = FALSE /\ UNCHANGED <<files, backup, journal>>
        /\ pc' \in {"idle", "capture"}
    BY <1>3 DEF RemoveRecovery, Release
  <2>2. journal = None /\ backup = NoFiles
    <3>1. \A n \in Names : backup[n] = NoFiles[n]
      BY <2>1, <1>c, NamesFacts, ProductFacts
    <3> QED BY <3>1, <2>1, <1>c, <1>t, ProductFacts, SameProduct
  <2>3. RecoverySound'
    BY <2>1, <2>2, <1>t DEF RecoverySound, NoMixWithoutJournal, JournalSound,
                            CopiesSound, Whole
  <2>4. PhaseSound'
    BY <2>1 DEF PhaseSound, InRecover, InRollback, InClear, InBuild, InBackup,
                InReplace, InRecheck, Replaced
  <2> QED BY <2>3, <2>4 DEF DiskInv
<1> QED BY <1>1, <1>2, <1>3 DEF ClearRecovery

(* Up to the decision to publish nothing on disk changes.                  *)
LEMMA BuildStep ==
    ASSUME TypeOK, DiskInv,
           Build \/ AcquireLock \/ Crash \/ \E i \in Inputs : Collect(i)
    PROVE  DiskInv'
<1> USE DEF Go
<1>1. RecoverySound'
  BY SameDisk DEF DiskInv, Build, AcquireLock, Crash, Collect, CaptureInput,
     RejectInputs, NoOp, StartPublication, ChooseTarget
<1>2. CASE Crash \/ RejectInputs \/ NoOp
  BY <1>1, <1>2, IdlePhase DEF Crash, RejectInputs, NoOp, Release, DiskInv
<1>3. CASE AcquireLock
  BY <1>1, <1>3 DEF AcquireLock, DiskInv, PhaseSound, InRecover, InRollback,
     InClear, InBuild, InBackup, InReplace, InRecheck, Replaced
<1>4. CASE \E i \in Inputs : Collect(i)
  <2>1. UNCHANGED <<files, dir, backup, journal, pc, k, captured, target>>
    BY <1>4 DEF Collect, disk, locals
  <2>2. PhaseSound'
    BY <2>1 DEF DiskInv, PhaseSound, InRecover, InRollback, InClear, InBuild,
       InBackup, InReplace, InRecheck, Replaced, Settled, Intact, Whole,
       GenerationOf, ContentOf
  <2> QED BY <1>1, <2>2 DEF DiskInv
<1>5. CASE \/ CaptureInput \/ StartPublication
           \/ \E n \in Networks, c \in Coverages : ChooseTarget(n, c)
  <2>1. dir' = FALSE /\ pc' \in {"capture", "decide", "check"}
        /\ (pc' # "capture" => target' # None)
    <3>1. CASE CaptureInput
      BY <3>1 DEF CaptureInput, disk, DiskInv, PhaseSound, InBuild, TypeOK
    <3>2. CASE StartPublication
      BY <3>2 DEF StartPublication, disk, locals, DiskInv, PhaseSound, InBuild,
                  TypeOK
    <3>3. ASSUME NEW n \in Networks, NEW c \in Coverages, ChooseTarget(n, c)
          PROVE  dir' = FALSE /\ pc' = "decide" /\ target' # None
      <4>1. target' \in Reports
        BY <3>3, DigestsOfType
        DEF ChooseTarget, Reports, Generations, TypeOK
      <4> QED BY <3>3, <4>1, AbsentAssumption
          DEF ChooseTarget, disk, DiskInv, PhaseSound, InBuild, TypeOK
    <3> QED BY <1>5, <3>1, <3>2, <3>3
  <2>2. PhaseSound'
    BY <2>1 DEF PhaseSound, InRecover, InRollback, InClear, InBuild, InBackup,
                InReplace, InRecheck, Replaced
  <2> QED BY <1>1, <2>2 DEF DiskInv
<1> QED BY <1>2, <1>3, <1>4, <1>5 DEF Build

(* Publication keeps the old product recoverable until the new report is   *)
(* in place.                                                               *)
LEMMA PublishStep ==
    ASSUME TypeOK, DiskInv, Publish
    PROVE  DiskInv'
<1> USE DEF Go, Checking
<1>t. /\ RecoverySound /\ NoMixWithoutJournal /\ JournalSound /\ CopiesSound
      /\ PhaseSound /\ files \in Products /\ backup \in Products
  BY DEF DiskInv, RecoverySound, TypeOK
<1>1. CASE RecheckInput
  <2>1. /\ pc' = pc /\ pc \in {"check", "recheck"}
        /\ UNCHANGED <<files, dir, backup, journal, target>>
    BY <1>1 DEF RecheckInput, disk, locals
  <2>2. PhaseSound'
    BY <2>1, <1>t DEF PhaseSound, InRecover, InRollback, InClear, InBuild, InBackup,
                      InReplace, InRecheck, Replaced, Intact
  <2> QED BY <1>1, <2>2, <1>t, SameDisk DEF RecheckInput, DiskInv
<1>2. CASE InputChanged
  BY <1>2, <1>t, SameDisk, IdlePhase DEF InputChanged, Release, DiskInv
<1>3. CASE MakeRecovery
  <2>1. /\ pc = "check" /\ ~dir /\ dir' = TRUE /\ target # None
        /\ UNCHANGED <<files, backup, journal>>
        /\ pc' = "backup" /\ k' = 1 /\ target' = target
    <3>1. pc = "check" /\ ~dir /\ target # None
      BY <1>3, <1>t DEF MakeRecovery, PhaseSound, InBuild
    <3> QED BY <1>3, <3>1 DEF MakeRecovery, locals
  <2>2. journal = None /\ backup = NoFiles
    BY <2>1, <1>t DEF CopiesSound
  <2>3. RecoverySound'
    BY <2>1, <2>2, <1>t DEF RecoverySound, NoMixWithoutJournal, JournalSound,
                            CopiesSound, Whole
  <2>4. InBackup'
    BY <2>1, <2>2, NamesFacts, ProductFacts DEF InBackup
  <2>5. PhaseSound'
    BY <2>1, <2>4 DEF PhaseSound, InRecover, InRollback, InClear, InBuild,
                      InReplace, InRecheck, Replaced
  <2> QED BY <2>3, <2>5 DEF DiskInv
<1>4. CASE BackupFile
  <2>1. /\ pc = "backup" /\ k \in Names /\ dir /\ journal = None /\ target # None
        /\ \A n \in Names : backup[n] = IF n < k THEN files[n] ELSE Absent
        /\ backup' = [backup EXCEPT ![k] = files[k]]
        /\ pc' = "backup" /\ k' = k + 1
        /\ UNCHANGED <<files, dir, journal, target>>
    BY <1>4, <1>t, NamesFacts DEF BackupFile, PhaseSound, InBackup, InBuild, locals
  <2>2. \A n \in Names : backup'[n] = IF n = k THEN files[n] ELSE backup[n]
    BY <2>1, <1>t, ProductFacts
  <2>3. \A n \in Names : backup'[n] = IF n < k' THEN files'[n] ELSE Absent
    BY <2>1, <2>2, NamesFacts
  <2>4. k' \in 1 .. Report + 1
    BY <2>1, NamesFacts
  <2>5. InBackup'
    BY <2>1, <2>3, <2>4 DEF InBackup
  <2>6. PhaseSound'
    BY <2>1, <2>5 DEF PhaseSound, InRecover, InRollback, InClear, InBuild,
                      InReplace, InRecheck, Replaced
  <2>7. RecoverySound'
    BY <2>1, <1>t DEF RecoverySound, NoMixWithoutJournal, JournalSound,
                      CopiesSound, Whole
  <2> QED BY <2>6, <2>7 DEF DiskInv
<1>5. CASE WriteJournal
  <2>1. /\ pc = "backup" /\ k = Report + 1 /\ dir /\ journal = None
        /\ target \in Reports
        /\ \A n \in Names : backup[n] = IF n < k THEN files[n] ELSE Absent
        /\ journal' = [present |-> {n \in Names : backup[n] # Absent},
                       generation |-> target.generation, previous |-> previous]
        /\ pc' = "recheck" /\ k' = 1
        /\ UNCHANGED <<files, dir, backup, target>>
    BY <1>5, <1>t DEF WriteJournal, PhaseSound, InBackup, InBuild, locals, TypeOK
  <2>2. files = backup
    <3>1. \A n \in Names : n < k
      BY <2>1, NamesFacts
    <3>2. \A n \in Names : files[n] = backup[n]
      BY <2>1, <3>1
    <3> QED BY <3>2, <1>t, SameProduct
  <2>3. Settled(files)
    BY <2>1, <1>t DEF NoMixWithoutJournal, Settled
  <2>4. journal' # None
    <3>1. journal' \in Journals
      BY <2>1, ReportsType DEF TypeOK, Journals
    <3> QED BY <3>1, AbsentAssumption
  <2>5. journal'.present \in {{}, Names} /\ (journal'.present = {} => backup = NoFiles)
    <3>1. CASE Whole(files)
      <4>1. \A n \in Names : backup[n] # Absent
        BY <3>1, <2>2, <1>t, WholeFacts
      <4>2. journal'.present = Names
        BY <4>1, <2>1
      <4> QED BY <4>2, NamesFacts
    <3>2. CASE files = NoFiles
      BY <3>2, <2>1, <2>2, ProductFacts
    <3> QED BY <2>3, <3>1, <3>2 DEF Settled
  <2>6. Intact'
    BY <2>1 DEF Intact
  <2>7. JournalSound'
    BY <2>1, <2>2, <2>3, <2>5, <2>6 DEF JournalSound, Settled, Whole
  <2>8. RecoverySound'
    BY <2>1, <2>4, <2>7 DEF RecoverySound, NoMixWithoutJournal, CopiesSound
  <2>9. PhaseSound'
    BY <2>1, <2>2, <2>4, <2>6, AbsentAssumption
    DEF PhaseSound, InRecover, InRollback, InClear, InBuild, InBackup, InReplace,
        InRecheck, Replaced
  <2> QED BY <2>8, <2>9 DEF DiskInv
<1>6. CASE StartReplacing
  <2>1. /\ pc = "recheck" /\ pc' = "replace" /\ k' = 1 /\ files = backup
        /\ UNCHANGED <<files, dir, backup, journal, target>>
    BY <1>6, <1>t DEF StartReplacing, disk, locals, PhaseSound, InRecheck
  <2>2. Replaced'
    BY <2>1, NamesFacts DEF Replaced
  <2>3. PhaseSound'
    BY <2>1, <2>2, <1>t DEF PhaseSound, InRecover, InRollback, InClear, InBuild,
                            InBackup, InReplace, InRecheck, Intact
  <2> QED BY <1>6, <2>3, <1>t, SameDisk DEF StartReplacing, DiskInv
<1>7. CASE ReplaceFile
  <2>1. /\ pc = "replace" /\ k \in Names /\ target \in Reports
        /\ journal # None /\ journal.generation = target.generation /\ Intact
        /\ \A n \in Names : files[n] = IF n < k THEN ContentOf(n, target)
                                              ELSE backup[n]
        /\ files' = [files EXCEPT ![k] = ContentOf(k, target)]
        /\ pc' = "replace" /\ k' = k + 1
        /\ UNCHANGED <<dir, backup, journal, target>>
    BY <1>7, <1>t, NamesFacts
    DEF ReplaceFile, PhaseSound, InBuild, InReplace, Replaced, locals, TypeOK
  <2>2. \A n \in Names : files'[n] = IF n < k' THEN ContentOf(n, target')
                                            ELSE backup'[n]
    <3>1. \A n \in Names : files'[n] = IF n = k THEN ContentOf(n, target)
                                              ELSE files[n]
      BY <2>1, <1>t, ProductFacts
    <3> QED BY <3>1, <2>1, NamesFacts
  <2>3. files' \in Products
    BY <2>1, <1>t, ProductUpdate, ContentFacts
  <2>4. Intact'
    BY <2>1 DEF Intact
  <2>5. CASE k < Report
    <3>1. files'[Report] = backup'[Report]
      <4>1. k \in Nat /\ Report \in Nat /\ k' = k + 1 /\ k < Report
        BY <2>5, <2>1, NamesFacts
      <4>2. ~(Report < k')
        BY <4>1
      <4> QED BY <4>2, <2>2, NamesFacts
    <3> QED BY <3>1, <2>1, <2>2, <2>4, <2>5, <1>t, NamesFacts
        DEF DiskInv, RecoverySound, NoMixWithoutJournal, JournalSound, CopiesSound,
            Settled, Whole, PhaseSound, InRecover, InRollback, InClear, InBuild,
            InBackup, InReplace, InRecheck, Replaced
  <2>6. CASE k = Report
    <3>1. \A n \in Names : files'[n] = ContentOf(n, target)
      BY <2>6, <2>1, <2>2, NamesFacts
    <3>2. Whole(files') /\ GenerationOf(files') = journal'.generation
      BY <3>1, <2>1, <2>3, WholeFacts
    <3>3. RecoverySound'
      BY <3>2, <2>1, <2>4, <1>t DEF RecoverySound, NoMixWithoutJournal,
         JournalSound, CopiesSound, Settled, Whole, GenerationOf
    <3>4. k' \in 1 .. Report + 1
      BY <2>1, NamesFacts
    <3>5. PhaseSound'
      BY <3>4, <2>1, <2>2, <2>4, <1>t DEF PhaseSound, InRecover, InRollback,
         InClear, InBuild, InBackup, InReplace, InRecheck, Replaced
    <3> QED BY <3>3, <3>5 DEF DiskInv
  <2> QED BY <2>1, <2>5, <2>6, NamesFacts
<1>8. CASE VerifyPublication
  <2>1. pc = "replace" /\ k = Report + 1 /\ target \in Reports /\ UNCHANGED disk
        /\ journal # None
    BY <1>8, <1>t DEF VerifyPublication, PhaseSound, InBuild, InReplace, TypeOK
  <2>2. Whole(files)
    <3>1. \A n \in Names : files[n] = ContentOf(n, target)
      BY <2>1, <1>t, NamesFacts DEF PhaseSound, Replaced
    <3> QED BY <3>1, <2>1, <1>t, WholeFacts
  <2>3. pc' = "clearNew" /\ k' = 1
    BY <1>8, <2>2 DEF VerifyPublication
  <2>4. InClear'
    BY <2>1, <2>2, <2>3, <1>t, NamesFacts DEF InClear, Settled, Whole, disk,
                                              JournalSound
  <2>5. PhaseSound'
    BY <2>3, <2>4 DEF PhaseSound, InRecover, InRollback, InBuild, InBackup,
                      InReplace, InRecheck, Replaced
  <2> QED BY <2>1, <2>5, <1>t, SameDisk DEF DiskInv
<1> QED BY <1>1, <1>2, <1>3, <1>4, <1>5, <1>6, <1>7, <1>8 DEF Publish

LEMMA DiskStep == TypeOK /\ DiskInv /\ [Next]_vars => DiskInv'
<1> SUFFICES ASSUME TypeOK, DiskInv, [Next]_vars PROVE DiskInv'
  OBVIOUS
<1>1. CASE Next
  BY <1>1, RecoverStep, ClearStep, BuildStep, PublishStep DEF Next, BuilderStep
<1>2. CASE UNCHANGED vars
  <2>1. UNCHANGED <<files, dir, backup, journal, pc, k, captured, target>>
    BY <1>2 DEF vars, disk, locals
  <2> QED BY <2>1 DEF DiskInv, RecoverySound, NoMixWithoutJournal, JournalSound,
       CopiesSound, PhaseSound, InRecover, InRollback, InClear, InBuild, InBackup,
       InReplace, InRecheck, Replaced, Settled, Intact, Whole, GenerationOf,
       ContentOf
<1> QED BY <1>1, <1>2

-----------------------------------------------------------------------------
LEMMA TypeAndDisk == Spec => [](TypeOK /\ DiskInv)
<1>1. Init => TypeOK /\ DiskInv
  BY TypeInit, DiskInit
<1>2. TypeOK /\ DiskInv /\ [Next]_vars => (TypeOK /\ DiskInv)'
  <2> SUFFICES ASSUME TypeOK, DiskInv, [Next]_vars PROVE TypeOK' /\ DiskInv'
    OBVIOUS
  <2>1. CASE Next
    BY <2>1, TypeStep, DiskStep
  <2>2. CASE UNCHANGED vars
    BY <2>2, DiskStep DEF vars, disk, locals, TypeOK
  <2> QED BY <2>1, <2>2
<1> QED BY <1>1, <1>2, PTL DEF Spec

(* Every variable keeps its type: in particular what a builder restores,   *)
(* backs up or publishes is always a file of the product (_publish,        *)
(* _recover), for every number of artifacts, inputs and crashes.           *)
THEOREM TypeCorrect == Spec => []TypeOK
  BY TypeAndDisk, PTL

(* Wherever builders die, public files of different generations coexist    *)
(* only under a commit.json that tells the next build how to undo them.    *)
THEOREM MixNeedsJournal == Spec => []NoMixWithoutJournal
<1>1. DiskInv => NoMixWithoutJournal
  BY DEF DiskInv, RecoverySound
<1> QED BY <1>1, TypeAndDisk, PTL

-----------------------------------------------------------------------------
(* Refinement of CommittedStore.  What is committed is simply what the     *)
(* report file says: publication replaces it last, a rollback only ever    *)
(* rewrites it with itself.                                                *)
LEMMA CommittedIsReport == TypeOK /\ DiskInv => Committed = files[Report]
<1> SUFFICES ASSUME TypeOK, DiskInv PROVE Committed = files[Report]
  OBVIOUS
<1>1. CASE Whole(files)
  BY <1>1 DEF Committed
<1>2. CASE ~Whole(files) /\ journal # None
  BY <1>2 DEF Committed, DiskInv, RecoverySound, JournalSound
<1>3. CASE ~Whole(files) /\ journal = None
  <2>1. files = NoFiles
    BY <1>3 DEF DiskInv, RecoverySound, NoMixWithoutJournal
  <2> QED BY <2>1, <1>3, NamesFacts, ProductFacts DEF Committed
<1> QED BY <1>1, <1>2, <1>3

LEMMA ReportStep ==
    ASSUME TypeOK, DiskInv, [Next]_vars
    PROVE  \/ files'[Report] = files[Report]
           \/ target \in Reports /\ Whole(files)' /\ files'[Report] = target
<1>t. files \in [Names -> Contents] /\ PhaseSound /\ JournalSound
  BY ProductFacts DEF TypeOK, DiskInv, RecoverySound
<1>1. CASE RestoreFile
  <2>1. /\ k \in Names /\ journal # None
        /\ k \in journal.present => backup[k] # Absent
        /\ files' = [files EXCEPT ![k] = IF k \in journal.present THEN backup[k]
                                                                ELSE Absent]
    BY <1>1, <1>t, NamesFacts DEF RestoreFile, PhaseSound, InRollback
  <2>2. CASE k # Report
    BY <2>1, <2>2, <1>t, NamesFacts
  <2>3. CASE k = Report
    <3>1. Intact /\ files[Report] = backup[Report]
      BY <2>3, <1>1, <1>t, NamesFacts DEF RestoreFile, PhaseSound, InRollback
    <3>2. Report \notin journal.present => backup[Report] = Absent
      BY <3>1, <2>1, <1>t, IntactFacts, NamesFacts
    <3> QED BY <3>1, <3>2, <2>1, <2>3, <1>t, NamesFacts
  <2> QED BY <2>2, <2>3
<1>2. CASE ReplaceFile
  <2>1. /\ k \in Names /\ target \in Reports
        /\ \A n \in Names : n < k => files[n] = ContentOf(n, target)
        /\ files' = [files EXCEPT ![k] = ContentOf(k, target)]
    BY <1>2, <1>t, NamesFacts DEF ReplaceFile, PhaseSound, Replaced, InBuild, TypeOK
  <2>2. CASE k # Report
    BY <2>1, <2>2, <1>t, NamesFacts
  <2>3. CASE k = Report
    <3>1. \A n \in Names : files'[n] = ContentOf(n, target)
      BY <2>1, <2>3, <1>t, NamesFacts
    <3>2. files' \in Products
      BY <2>1, ProductUpdate, ContentFacts DEF TypeOK
    <3>3. Whole(files') /\ files'[Report] = target
      BY <3>1, <3>2, <2>1, WholeFacts
    <3> QED BY <3>3, <2>1 DEF Whole
  <2> QED BY <2>2, <2>3
<1>3. CASE ~RestoreFile /\ ~ReplaceFile
  <2>1. files' = files
    BY <1>3 DEF Next, BuilderStep, Recover, ClearRecovery, Build, Publish, vars,
       disk, AcquireLock, Crash, Collect, RecoverNothing, RecoverUnjournaled,
       RecoverCommitted, RecoverInterrupted, RestoreFails, FinishRollback,
       UnlinkBackup, UnlinkJournal, RemoveRecovery, CaptureInput, RejectInputs,
       NoOp, StartPublication, ChooseTarget, RecheckInput, InputChanged,
       MakeRecovery, BackupFile, WriteJournal, StartReplacing, VerifyPublication
  <2> QED BY <2>1
<1> QED BY <1>1, <1>2, <1>3

LEMMA StoreStep ==
    ASSUME TypeOK, DiskInv, [Next]_vars
    PROVE  [Store!StoreNext]_(Store!storeVars)
<1>1. Committed = files[Report] /\ Committed' = files'[Report]
  <2>1. TypeOK' /\ DiskInv'
    BY TypeStep, DiskStep DEF vars, disk, locals, TypeOK
  <2>2. (TypeOK /\ DiskInv => Committed = files[Report])'
    BY CommittedIsReport, PTL
  <2> QED BY <2>1, <2>2, CommittedIsReport
<1>2. Whole(files)' => files'[Report] # Absent
  BY DEF Whole
<1>3. Whole(files) \in BOOLEAN /\ Whole(files)' \in BOOLEAN
  BY DEF Whole
<1>4. CASE files'[Report] = files[Report]
  <2>1. CASE Whole(files) /\ ~Whole(files)'
    BY <1>1, <1>4, <2>1 DEF Store!StoreNext, Store!Interrupt
  <2>2. CASE ~Whole(files) /\ Whole(files)'
    BY <1>1, <1>2, <1>4, <2>2 DEF Store!StoreNext, Store!Resume
  <2>3. CASE Whole(files) <=> Whole(files)'
    BY <1>1, <1>3, <1>4, <2>3 DEF Store!storeVars
  <2> QED BY <1>3, <2>1, <2>2, <2>3
<1>5. CASE target \in Reports /\ Whole(files)' /\ files'[Report] = target
  BY <1>1, <1>5 DEF Store!StoreNext, Store!Commit
<1> QED BY <1>4, <1>5, ReportStep

(* Publication, crash recovery and everything that interrupts them         *)
(* implement the committed store: readers lose at most availability, the   *)
(* committed report changes only when a builder replaces it by its own,    *)
(* and no crash loses it or brings an older one back.                      *)
THEOREM CommittedStoreImplemented == Spec => CommittedIsStored
<1>1. Init => Store!StoreInit
  BY ProductFacts DEF Init, Store!StoreInit, Committed
<1>2. TypeOK /\ DiskInv /\ [Next]_vars => [Store!StoreNext]_(Store!storeVars)
  BY StoreStep
<1> QED BY <1>1, <1>2, TypeAndDisk, PTL DEF Spec, CommittedIsStored, Store!StoreSpec

-----------------------------------------------------------------------------
(* The evidence of what is published.                                      *)

(* Evidence only moves forward, and history forgets nothing.               *)
LEMMA EvidenceGrows ==
    ASSUME TypeOK, [Next]_vars
    PROVE  /\ past \subseteq past'
           /\ \A i \in Inputs : /\ input[i] \in Int /\ input'[i] \in Int
                                /\ captured[i] \in Int /\ input[i] <= input'[i]
           /\ input \in past => input' \in past'
<1>1. \A i \in Inputs : input[i] \in Nat /\ captured[i] \in Nat
  BY DEF TypeOK, Evidence, Versions
<1>2. ASSUME NEW j \in Inputs, Collect(j)
      PROVE  /\ past \subseteq past' /\ input' \in past'
             /\ \A i \in Inputs : input'[i] \in Int /\ input[i] <= input'[i]
  BY <1>1, <1>2 DEF Collect, TypeOK, Evidence
<1>3. CASE ~\E j \in Inputs : Collect(j)
  <2>1. input' = input /\ past' = past
    BY <1>3 DEF Next, BuilderStep, Recover, ClearRecovery, Build, Publish, vars,
       AcquireLock, Crash, RecoverNothing, RecoverUnjournaled, RestoreFile,
       RecoverCommitted, RecoverInterrupted, RestoreFails, FinishRollback,
       UnlinkBackup, UnlinkJournal, RemoveRecovery, CaptureInput, RejectInputs,
       NoOp, StartPublication, ChooseTarget, RecheckInput, InputChanged,
       MakeRecovery, BackupFile, WriteJournal, StartReplacing, ReplaceFile,
       VerifyPublication
  <2> QED BY <2>1, <1>1
<1> QED BY <1>1, <1>2, <1>3

LEMMA BackedGrows ==
    ASSUME past \subseteq past', NEW r, Backed(r)
    PROVE  \E e \in past' : r.generation.evidence = DigestsOf(e)
  BY DEF Backed

LEMMA BracketGrows ==
    ASSUME TypeOK, [Next]_vars, NEW m \in Int, Bracketed(m)
    PROVE  \E e \in past' : \A i \in Inputs :
              /\ captured[i] <= e[i] /\ e[i] <= input'[i]
              /\ i < m => captured[i] = e[i]
<1>1. PICK e \in past : \A i \in Inputs : /\ captured[i] <= e[i] /\ e[i] <= input[i]
                                          /\ i < m => captured[i] = e[i]
  BY DEF Bracketed
<1>2. \A i \in Inputs : e[i] \in Int
  BY DEF TypeOK, Evidence, Versions
<1>3. \A i \in Inputs : e[i] <= input'[i]
  <2> TAKE i \in Inputs
  <2>1. e[i] <= input[i] /\ input[i] <= input'[i]
    BY <1>1, EvidenceGrows
  <2>2. e[i] \in Int /\ input[i] \in Int /\ input'[i] \in Int
    BY <1>2, EvidenceGrows
  <2> QED BY <2>1, <2>2
<1>4. e \in past'
  BY EvidenceGrows
<1> QED BY <1>1, <1>3, <1>4

(* Evidence pinned in full by the rechecks was all cached at one moment.   *)
LEMMA BracketPins ==
    ASSUME TypeOK, Bracketed(NumInputs + 1),
           target.generation.evidence = DigestsOf(captured)
    PROVE  Backed(target)
<1>0. \A i \in Inputs : i < NumInputs + 1
  BY DEF Inputs
<1>1. PICK e \in past : \A i \in Inputs : captured[i] = e[i]
  BY <1>0 DEF Bracketed
<1>2. DigestsOf(captured) = DigestsOf(e)
  BY <1>1 DEF DigestsOf
<1> QED BY <1>2 DEF Backed

LEMMA EvidenceInit == Init => EvidenceInv
  BY NamesFacts, ProductFacts
  DEF Init, EvidenceInv, InCapture, InCheck, TargetBacked, FilesBacked

LEMMA FilesBackedStep ==
    ASSUME TypeOK, DiskInv, EvidenceInv, [Next]_vars
    PROVE  FilesBacked'
<1>1. files[Report] # Absent => Backed(files[Report])
  BY DEF EvidenceInv, FilesBacked
<1>2. backup[Report] # Absent => Backed(backup[Report])
  BY DEF EvidenceInv, FilesBacked
<1>3. (files'[Report] # Absent => Backed(files[Report])')
  <2>1. CASE files'[Report] = files[Report]
    BY <2>1, <1>1, EvidenceGrows, BackedGrows DEF Backed
  <2>2. CASE files'[Report] # files[Report]
    <3>1. pc = "replace" /\ files'[Report] = target
      <4>1. ReplaceFile \/ RestoreFile
        BY <2>2 DEF Next, BuilderStep, Recover, ClearRecovery, Build, Publish, vars,
           disk, AcquireLock, Crash, Collect, RecoverNothing, RecoverUnjournaled,
           RecoverCommitted, RecoverInterrupted, RestoreFails, FinishRollback,
           UnlinkBackup, UnlinkJournal, RemoveRecovery, CaptureInput, RejectInputs,
           NoOp, StartPublication, ChooseTarget, RecheckInput, InputChanged,
           MakeRecovery, BackupFile, WriteJournal, StartReplacing,
           VerifyPublication
      <4>2. files'[Report] = target /\ target \in Reports
        BY <2>2, ReportStep
      <4>3. CASE ReplaceFile
        BY <4>2, <4>3 DEF ReplaceFile
      <4>4. CASE RestoreFile
        <5>0. k \in 1 .. Report + 1 /\ k <= Report
          BY <4>4 DEF RestoreFile, DiskInv, PhaseSound, InRollback
        <5>1. k \in Names
          BY <5>0, NamesFacts
        <5>6. files \in [Names -> Contents]
          BY ProductFacts DEF TypeOK
        <5>2. k = Report
          BY <5>1, <5>6, <4>4, <2>2, NamesFacts DEF RestoreFile
        <5>3. Intact /\ files[Report] = backup[Report] /\ journal # None
          BY <5>2, <4>4, NamesFacts DEF RestoreFile, DiskInv, PhaseSound, InRollback
        <5>4. Report \notin journal.present => backup[Report] = Absent
          BY <5>3, NamesFacts, IntactFacts DEF DiskInv, RecoverySound
        <5>5. files'[Report] = files[Report]
          BY <5>1, <5>2, <5>3, <5>4, <5>6, <4>4, NamesFacts DEF RestoreFile
        <5> QED BY <5>5, <2>2
      <4> QED BY <4>1, <4>3, <4>4
    <3>2. Backed(target)
      BY <3>1 DEF EvidenceInv, TargetBacked
    <3> QED BY <3>1, <3>2, EvidenceGrows, BackedGrows DEF Backed
  <2> QED BY <2>1, <2>2
<1>4. (backup'[Report] # Absent => Backed(backup[Report])')
  <2>1. \/ backup'[Report] = backup[Report] \/ backup'[Report] = Absent
        \/ backup'[Report] = files[Report]
    <3>1. CASE UnlinkBackup \/ BackupFile
      <4>1. k \in Names
        BY <3>1, NamesFacts DEF UnlinkBackup, BackupFile, Clearing, DiskInv,
                                PhaseSound, InClear, InBackup
      <4> QED BY <3>1, <4>1, NamesFacts, ProductFacts
          DEF UnlinkBackup, BackupFile, TypeOK
    <3>2. CASE ~UnlinkBackup /\ ~BackupFile
      BY <3>2 DEF Next, BuilderStep, Recover, ClearRecovery, Build, Publish, vars,
         disk, AcquireLock, Crash, Collect, RecoverNothing, RecoverUnjournaled,
         RecoverCommitted, RecoverInterrupted, RestoreFile, RestoreFails,
         FinishRollback, UnlinkJournal, RemoveRecovery, CaptureInput,
         RejectInputs, NoOp, StartPublication, ChooseTarget, RecheckInput,
         InputChanged, MakeRecovery, WriteJournal, StartReplacing, ReplaceFile,
         VerifyPublication
    <3> QED BY <3>1, <3>2
  <2> QED BY <2>1, <1>1, <1>2, EvidenceGrows, BackedGrows DEF Backed
<1> QED BY <1>3, <1>4 DEF FilesBacked

(* The two rounds of _recheck, step by step.                               *)
LEMMA CaptureStep ==
    ASSUME TypeOK, DiskInv, EvidenceInv, Next
    PROVE  InCapture' /\ InCheck' /\ TargetBacked'
<1> USE DEF Go
<1>e. InCapture /\ InCheck /\ TargetBacked /\ input \in past
  BY DEF EvidenceInv
<1>g. /\ past \subseteq past' /\ input' \in past'
      /\ \A i \in Inputs : /\ input[i] \in Int /\ input'[i] \in Int
                           /\ captured[i] \in Int /\ input[i] <= input'[i]
  BY <1>e, EvidenceGrows
<1>n. NumInputs + 1 \in Int /\ 1 \in Int /\ k \in Int
  BY DEF TypeOK
<1>1. ASSUME NEW j \in Inputs, Collect(j)
      PROVE  InCapture' /\ InCheck' /\ TargetBacked'
  <2>1. /\ pc' = pc /\ k' = k /\ captured' = captured /\ target' = target
    BY <1>1 DEF Collect, locals
  <2>2. \A m \in Int : Bracketed(m) => Bracketed(m)'
    BY <2>1, BracketGrows DEF Bracketed
  <2>3. InCapture'
    <3> SUFFICES ASSUME pc' = "capture" PROVE InCapture'
      BY DEF InCapture
    <3>1. k' \in 1 .. NumInputs + 1 /\ (k' = NumInputs + 1 => Bracketed(1)')
      BY <2>1, <2>2, <1>e DEF InCapture
    <3>2. \A i \in Inputs : i < k' => captured'[i] <= input'[i]
      BY <2>1, <1>e, <1>g DEF InCapture
    <3> QED BY <3>1, <3>2 DEF InCapture
  <2>4. InCheck'
    <3>1. pc = "check" => Bracketed(k)'
      <4> SUFFICES ASSUME pc = "check" PROVE Bracketed(k)'
        OBVIOUS
      <4>1. Bracketed(k)
        BY <1>e DEF InCheck
      <4>2. \E e \in past' : \A i \in Inputs :
               /\ captured[i] <= e[i] /\ e[i] <= input'[i]
               /\ i < k => captured[i] = e[i]
        BY <4>1, <1>n, BracketGrows
      <4> QED BY <4>2, <2>1 DEF Bracketed
    <3> QED BY <2>1, <2>2, <3>1, <1>e DEF InCheck
  <2>5. TargetBacked'
    BY <2>1, <1>e, <1>g, BackedGrows DEF TargetBacked, Backed
  <2> QED BY <2>3, <2>4, <2>5
<1>2. CASE pc' \notin {"capture", "decide", "check", "backup", "recheck", "replace"}
  BY <1>2 DEF InCapture, InCheck, TargetBacked
<1>3. CASE pc' = "capture" /\ ~\E j \in Inputs : Collect(j)
  <2>1. CASE CaptureInput
    <3>1. /\ k \in 1 .. NumInputs /\ k' = k + 1 /\ input' = input /\ k \in Inputs
          /\ captured' = [captured EXCEPT ![k] = input[k]]
      BY <2>1, <1>e, NamesFacts DEF CaptureInput, InCapture
    <3>2. \A i \in Inputs : captured'[i] = IF i = k THEN input[i] ELSE captured[i]
      BY <3>1 DEF TypeOK, Evidence
    <3>3. \A i \in Inputs : i < k' => captured'[i] <= input'[i]
      <4> TAKE i \in Inputs
      <4>1. i \in Nat /\ input[i] \in Int /\ (i < k => captured[i] <= input[i])
        BY <2>1, <1>e, <1>g, NamesFacts DEF InCapture, CaptureInput
      <4> QED BY <4>1, <3>1, <3>2
    <3>4. ASSUME k' = NumInputs + 1 PROVE Bracketed(1)'
      <4>1. \A i \in Inputs : i < k'
        BY <3>4, NamesFacts
      <4>2. \A i \in Inputs : captured'[i] <= input'[i] /\ input'[i] <= input'[i]
                              /\ ~(i < 1)
        BY <4>1, <3>3, <1>g, NamesFacts
      <4> QED BY <4>2, <1>g DEF Bracketed
    <3>5. k' \in 1 .. NumInputs + 1
      BY <3>1
    <3> QED BY <1>3, <3>3, <3>4, <3>5 DEF InCapture, InCheck, TargetBacked
  <2>2. CASE ~CaptureInput
    <3>1. k' = 1
      BY <1>3, <2>2 DEF Next, BuilderStep, Recover, ClearRecovery, Build, Publish,
         AcquireLock, Crash, RecoverNothing, RecoverUnjournaled, RestoreFile,
         RecoverCommitted, RecoverInterrupted, RestoreFails, FinishRollback,
         UnlinkBackup, UnlinkJournal, RemoveRecovery, RejectInputs, Release,
         NoOp, StartPublication, ChooseTarget, RecheckInput, InputChanged,
         MakeRecovery, BackupFile, WriteJournal, StartReplacing, ReplaceFile,
         VerifyPublication, Clearing, Checking
    <3>2. \A i \in Inputs : ~(i < k')
      BY <3>1, NamesFacts
    <3>3. k' \in 1 .. NumInputs + 1 /\ k' # NumInputs + 1
      BY <3>1
    <3> QED BY <1>3, <3>2, <3>3 DEF InCapture, InCheck, TargetBacked
  <2> QED BY <2>1, <2>2
<1>4. CASE pc' = "decide" /\ ~\E j \in Inputs : Collect(j)
  <2>1. PICK n \in Networks, c \in Coverages : ChooseTarget(n, c)
    BY <1>4 DEF Next, BuilderStep, Recover, ClearRecovery, Build, Publish,
       AcquireLock, Crash, RecoverNothing, RecoverUnjournaled, RestoreFile,
       RecoverCommitted, RecoverInterrupted, RestoreFails, FinishRollback,
       UnlinkBackup, UnlinkJournal, RemoveRecovery, RejectInputs, Release,
       NoOp, StartPublication, RecheckInput, InputChanged, CaptureInput,
       MakeRecovery, BackupFile, WriteJournal, StartReplacing, ReplaceFile,
       VerifyPublication, Clearing, Checking
  <2>2. /\ captured' = captured /\ input' = input /\ past' = past
        /\ target'.generation.evidence = DigestsOf(captured)
    BY <2>1 DEF ChooseTarget
  <2>3. Bracketed(1)
    BY <2>1, <1>e DEF ChooseTarget, InCapture
  <2>4. Bracketed(1)' /\ DigestsOf(captured)' = DigestsOf(captured)
    BY <2>2, <2>3 DEF Bracketed, DigestsOf
  <2> QED BY <1>4, <2>2, <2>4 DEF InCapture, InCheck, TargetBacked
<1>5. CASE pc' = "check" /\ ~\E j \in Inputs : Collect(j)
  <2>1. /\ captured' = captured /\ target' = target /\ input' = input /\ past' = past
        /\ \/ StartPublication /\ pc = "decide" /\ k' = 1
           \/ RecheckInput /\ pc = "check" /\ k' = k + 1
    BY <1>5 DEF Next, BuilderStep, Recover, ClearRecovery, Build, Publish,
       AcquireLock, Crash, RecoverNothing, RecoverUnjournaled, RestoreFile,
       RecoverCommitted, RecoverInterrupted, RestoreFails, FinishRollback,
       UnlinkBackup, UnlinkJournal, RemoveRecovery, RejectInputs, Release,
       NoOp, StartPublication, RecheckInput, InputChanged, CaptureInput,
       MakeRecovery, BackupFile, WriteJournal, StartReplacing, ReplaceFile,
       VerifyPublication, ChooseTarget, Clearing, Checking, locals
  <2>2. k' \in 1 .. NumInputs + 1 /\ Bracketed(k')
    <3>1. CASE StartPublication
      BY <2>1, <3>1, <1>e DEF InCheck, StartPublication
    <3>2. CASE RecheckInput
      <4>1. /\ k \in Inputs /\ captured[k] = input[k] /\ Bracketed(k) /\ k' = k + 1
        BY <2>1, <3>2, <1>e, NamesFacts DEF RecheckInput, InCheck, StartPublication
      <4>2. PICK e \in past : \A i \in Inputs :
                /\ captured[i] <= e[i] /\ e[i] <= input[i]
                /\ i < k => captured[i] = e[i]
        BY <4>1 DEF Bracketed
      <4>3. \A i \in Inputs : e[i] \in Int
        BY DEF TypeOK, Evidence, Versions
      <4>4. captured[k] = e[k]
        BY <4>1, <4>2, <4>3, <1>g
      <4>5. \A i \in Inputs : i < k' => captured[i] = e[i]
        BY <4>1, <4>2, <4>4, NamesFacts
      <4>6. k' \in 1 .. NumInputs + 1
        BY <4>1, NamesFacts
      <4> QED BY <4>2, <4>5, <4>6 DEF Bracketed
    <3> QED BY <2>1, <3>1, <3>2
  <2>3. Bracketed(k)'
    BY <2>1, <2>2 DEF Bracketed
  <2>4. target'.generation.evidence = DigestsOf(captured)'
    BY <2>1, <1>e DEF InCheck, DigestsOf
  <2> QED BY <1>5, <2>2, <2>3, <2>4 DEF InCapture, InCheck, TargetBacked
<1>6. CASE pc' \in {"backup", "recheck", "replace"} /\ ~\E j \in Inputs : Collect(j)
  <2>1. /\ target' = target /\ past' = past
        /\ \/ pc \in {"backup", "recheck", "replace"}
           \/ pc = "check" /\ k = NumInputs + 1
    BY <1>6 DEF Next, BuilderStep, Recover, ClearRecovery, Build, Publish,
       AcquireLock, Crash, RecoverNothing, RecoverUnjournaled, RestoreFile,
       RecoverCommitted, RecoverInterrupted, RestoreFails, FinishRollback,
       UnlinkBackup, UnlinkJournal, RemoveRecovery, RejectInputs, Release,
       NoOp, StartPublication, RecheckInput, InputChanged, CaptureInput,
       MakeRecovery, BackupFile, WriteJournal, StartReplacing, ReplaceFile,
       VerifyPublication, ChooseTarget, Clearing, Checking, locals
  <2>2. Backed(target)
    <3>1. CASE pc = "check" /\ k = NumInputs + 1
      <4>1. Bracketed(NumInputs + 1) /\ target.generation.evidence = DigestsOf(captured)
        BY <3>1, <1>e DEF InCheck
      <4> QED BY <4>1, BracketPins
    <3>2. CASE pc \in {"backup", "recheck", "replace"}
      BY <3>2, <1>e DEF TargetBacked
    <3> QED BY <2>1, <3>1, <3>2
  <2>3. Backed(target)'
    BY <2>1, <2>2 DEF Backed
  <2> QED BY <1>6, <2>3 DEF InCapture, InCheck, TargetBacked
<1> QED BY <1>1, <1>2, <1>3, <1>4, <1>5, <1>6

(* The whole inductive invariant: in every phase of a build, and wherever  *)
(* builders died, the recovery directory, the public files and the         *)
(* captured evidence are such that the next build can go on from them.     *)
THEOREM PublicationInvariant == Spec => []Inv
<1>1. Init => EvidenceInv
  BY EvidenceInit
<1>2. TypeOK /\ DiskInv /\ EvidenceInv /\ [Next]_vars => EvidenceInv'
  <2> SUFFICES ASSUME TypeOK, DiskInv, EvidenceInv, [Next]_vars PROVE EvidenceInv'
    OBVIOUS
  <2>1. CASE Next
    BY <2>1, CaptureStep, FilesBackedStep, EvidenceGrows DEF EvidenceInv
  <2>2. CASE UNCHANGED vars
    BY <2>2 DEF vars, disk, locals, EvidenceInv, InCapture, InCheck, TargetBacked,
       FilesBacked, Bracketed, Backed, DigestsOf
  <2> QED BY <2>1, <2>2
<1> QED BY <1>1, <1>2, TypeAndDisk, PTL DEF Spec, Inv

(* A readable generation was built from evidence that was all cached at    *)
(* one moment, for any number of evidence files and collectors replacing   *)
(* them at any moment: what the two rounds of _recheck in _publish buy.    *)
THEOREM PublishedSnapshotConsistent == Spec => []SnapshotConsistent
<1>1. Inv => SnapshotConsistent
  BY DEF Inv, EvidenceInv, FilesBacked, Backed, SnapshotConsistent, Whole
<1> QED BY <1>1, PublicationInvariant, PTL

-----------------------------------------------------------------------------
(* The readers.                                                            *)

ReportFile == <<"product", Report>>

-----------------------------------------------------------------------------
(* The inductive invariant.                                                *)

(* Where a read is says what it holds, and what is left of the phase.      *)
Placed(r) ==
    /\ phase[r] # "idle" => marker[r] \in Reports
    /\ phase[r] = "evidence" => verify[r]
    /\ phase[r] = "recheck" /\ ReportFile \in left[r] => left[r] = Rechecked(verify[r])

(* The artifacts that are not those of the report the reader holds.        *)
Differs(r, n) == ~DigestAgrees(n, marker[r])

(* While a read has not seen its report's generation whole, the product is *)
(* interrupted under that report.  As long as a publication replaces files *)
(* the reader has yet to read one that is replaced already; once only a    *)
(* rollback can go on, the final recheck has before it whatever is not yet *)
(* restored, and the report cannot change.                                 *)
Unseen(r) == phase[r] # "idle" /\ marker[r] \notin whole[r]
Interrupted(r) == files[Report] = marker[r]

AtomicInv(r) ==
    Unseen(r) =>
        /\ phase[r] # "done"
        /\ Interrupted(r) => ~Whole(files)
        /\ Interrupted(r) /\ pc = "replace" =>
             /\ phase[r] = "artifacts"
             /\ \E n \in Artifacts : <<"product", n>> \in left[r] /\ Differs(r, n)
        /\ phase[r] = "recheck" /\ ReportFile \notin left[r] => Interrupted(r)
        /\ phase[r] = "recheck" /\ Interrupted(r) =>
             \A n \in Artifacts : Differs(r, n) => <<"product", n>> \in left[r]

(* The evidence a verified read has captured has the digests its report    *)
(* records, and what is cached now is that or younger.                     *)
Captured(r, i) ==
    /\ seen[r][i] <= input[i]
    /\ Digest(seen[r][i]) = marker[r].generation.evidence[i]

(* Once the report was read again, either it was then committed over this  *)
(* very evidence, or some evidence was already younger and has yet to be   *)
(* read again.                                                             *)
VerifiedInv(r) ==
    verify[r] =>
        /\ phase[r] = "evidence" =>
             \A i \in Inputs : <<"evidence", i>> \notin left[r] => Captured(r, i)
        /\ phase[r] = "recheck" => \A i \in Inputs : Captured(r, i)
        /\ phase[r] = "recheck" /\ marker[r] \notin current[r] =>
             \/ ReportFile \in left[r]
             \/ \E i \in Inputs : <<"evidence", i>> \in left[r] /\ seen[r][i] < input[i]
        /\ phase[r] = "done" => marker[r] \in current[r]

ReadersInv ==
    /\ ReadersTypeOK
    /\ \A r \in Readers : Placed(r) /\ AtomicInv(r) /\ VerifiedInv(r)

-----------------------------------------------------------------------------
(* A reader is beside what the builders do: their invariant is unaffected. *)
LEMMA BuildersUndisturbed == ReadersSpec => [](TypeOK /\ DiskInv)
<1>1. ReadersInit => Init
  BY DEF ReadersInit
<1>2. [ReadersNext]_allVars => [Next]_vars
  BY DEF ReadersNext, allVars
<1> QED BY <1>1, <1>2, TypeAndDisk, PTL DEF ReadersSpec, Spec

(* An interrupted product has copies of all its files.                     *)
LEMMA InterruptedCopies ==
    ASSUME TypeOK, DiskInv, ~Whole(files), files[Report] # Absent
    PROVE  /\ journal # None /\ Intact
           /\ Whole(backup) /\ backup[Report] = files[Report]
<1>1. files # NoFiles
  BY ProductFacts, NamesFacts
<1>2. NoMixWithoutJournal /\ JournalSound
  BY DEF DiskInv, RecoverySound
<1>3. journal # None
  BY <1>1, <1>2 DEF NoMixWithoutJournal
<1>4. Intact /\ files[Report] = backup[Report] /\ Settled(backup)
  BY <1>2, <1>3 DEF JournalSound
<1>5. backup # NoFiles
  BY <1>4, ProductFacts, NamesFacts
<1> QED BY <1>3, <1>4, <1>5 DEF Settled

(* Under one report, a publication only begins on a whole product, never   *)
(* undoes what it replaced, and outside of it artifacts only come back.    *)
LEMMA InterruptedStep ==
    ASSUME TypeOK, DiskInv, [Next]_vars,
           NEW m \in Reports, files[Report] = m, files'[Report] = m,
           ~Whole(files)
    PROVE  /\ pc' = "replace" => pc = "replace"
           /\ pc = "replace" => \A n \in Artifacts :
                 files[n] # ArtifactOf(n, m.generation) => files'[n] = files[n]
           /\ pc # "replace" => \A n \in Artifacts :
                 files[n] = ArtifactOf(n, m.generation) => files'[n] = files[n]
<1> USE DEF Go
<1>c. /\ journal # None /\ Intact /\ Whole(backup) /\ backup[Report] = m
  BY InterruptedCopies, ContentFacts, NamesFacts
<1>b. \A n \in Artifacts : backup[n] = ArtifactOf(n, m.generation)
  BY <1>c DEF Whole
<1>t. files \in [Names -> Contents] /\ PhaseSound
  BY ProductFacts DEF TypeOK, DiskInv
<1>1. CASE RestoreFile
  <2>1. k \in 1 .. Report /\ pc = "rollback" /\ pc' = "rollback"
    BY <1>1, <1>t DEF RestoreFile, PhaseSound, InRollback
  <2>2. k \in Names /\ (k \in journal.present)
    BY <2>1, <1>c, <1>b, NamesFacts, ContentFacts, WholeFacts DEF Intact, TypeOK, Names
  <2>3. files' = [files EXCEPT ![k] = backup[k]]
    BY <1>1, <2>2 DEF RestoreFile
  <2> QED BY <2>1, <2>2, <2>3, <1>b, <1>t, NamesFacts
<1>2. CASE ReplaceFile
  <2>1. /\ pc = "replace" /\ k <= Report /\ k \in 1 .. Report + 1
        /\ \A n \in Names : files[n] = IF n < k THEN ContentOf(n, target) ELSE backup[n]
    BY <1>2, <1>t DEF ReplaceFile, PhaseSound, Replaced
  <2>2. ASSUME NEW n \in Artifacts, files[n] # ArtifactOf(n, m.generation)
        PROVE  n # k
    BY <2>1, <2>2, <1>b, NamesFacts
  <2>3. files' = [files EXCEPT ![k] = ContentOf(k, target)]
    BY <1>2 DEF ReplaceFile
  <2> QED BY <2>1, <2>2, <2>3, <1>t, NamesFacts
<1>3. CASE ~RestoreFile /\ ~ReplaceFile
  <2>1. files' = files
    BY <1>3 DEF Next, BuilderStep, Recover, ClearRecovery, Build, Publish, vars,
       AcquireLock, Crash, Collect, CaptureInput, RecoverNothing, RecoverUnjournaled,
       RecoverCommitted, RecoverInterrupted, RestoreFails, FinishRollback,
       UnlinkBackup, UnlinkJournal, RemoveRecovery, RejectInputs, Release, disk,
       NoOp, StartPublication, RecheckInput, InputChanged,
       MakeRecovery, BackupFile, WriteJournal, StartReplacing,
       VerifyPublication, ChooseTarget
  <2>2. ASSUME pc' = "replace", pc # "replace" PROVE FALSE
    <3>1. pc = "recheck"
      BY <1>3, <2>2 DEF Next, BuilderStep, Recover, ClearRecovery, Build, Publish, vars,
         AcquireLock, Crash, Collect, CaptureInput, RecoverNothing, RecoverUnjournaled,
         RecoverCommitted, RecoverInterrupted, RestoreFails, FinishRollback,
         UnlinkBackup, UnlinkJournal, RemoveRecovery, RejectInputs, Release, disk,
         NoOp, StartPublication, RecheckInput, InputChanged, Clearing, Checking,
         MakeRecovery, BackupFile, WriteJournal, StartReplacing,
         VerifyPublication, ChooseTarget
    <3> QED BY <3>1, <1>c, <1>t DEF PhaseSound, InRecheck
  <2> QED BY <2>1, <2>2
<1> QED BY <1>1, <1>2, <1>3

-----------------------------------------------------------------------------
(* The readers' steps.                                                     *)

SameRead(r) == /\ phase'[r] = phase[r] /\ verify'[r] = verify[r] /\ marker'[r] = marker[r]
               /\ left'[r] = left[r] /\ seen'[r] = seen[r]

LEMMA FilesFacts ==
    /\ ReportFile \in ProductFiles /\ ReportFile \notin ArtifactFiles
    /\ ReportFile \notin EvidenceFiles
    /\ \A n \in Artifacts : <<"product", n>> \in ArtifactFiles
    /\ \A n \in Artifacts : <<"product", n>> \in ProductFiles
    /\ \A n \in Artifacts : <<"product", n>> # ReportFile
    /\ \A i \in Inputs : <<"evidence", i>> \in EvidenceFiles
    /\ \A v \in BOOLEAN : ProductFiles \subseteq Rechecked(v)
    /\ EvidenceFiles \subseteq Rechecked(TRUE)
    /\ ProductFiles \cap EvidenceFiles = {}
    /\ Files = ProductFiles \cup EvidenceFiles
  BY NamesFacts DEF ReportFile, ProductFiles, ArtifactFiles, EvidenceFiles, Rechecked, Files

LEMMA FinishEndsRead ==
    ASSUME ReadersTypeOK, NEW r \in Readers, Finish(r)
    PROVE  phase'[r] = "idle" /\ \A q \in Readers \ {r} : SameRead(q)
  BY DEF Finish, ReadersTypeOK, SameRead

(* What one reader does leaves the others where they are.                  *)
LEMMA OtherReads ==
    ASSUME ReadersTypeOK, NEW r \in Readers, NEW q \in Readers, q # r, ReaderStep(r)
    PROVE  SameRead(q)
  BY FinishEndsRead
  DEF ReaderStep, ReadMarker, ReadArtifact, ArtifactsRead, ReadEvidence, EvidenceRead,
      RecheckFile, ReturnReport, EndRead, SameRead, ReadersTypeOK

(* A step of the read, when it goes on.                                    *)
LEMMA ReadGoesOn ==
    ASSUME ReadersTypeOK, NEW r \in Readers, ReaderStep(r), phase'[r] # "idle"
    PROVE
      \/ /\ phase[r] = "idle" /\ phase'[r] = "artifacts"
         /\ files[Report] # Absent /\ marker'[r] = files[Report] /\ left'[r] = ArtifactFiles
      \/ /\ phase[r] # "idle" /\ marker'[r] = marker[r] /\ verify'[r] = verify[r]
         /\ \/ \E n \in Artifacts :
                  /\ phase[r] = "artifacts" /\ phase'[r] = "artifacts" /\ seen'[r] = seen[r]
                  /\ DigestAgrees(n, marker[r]) /\ left'[r] = left[r] \ {<<"product", n>>}
            \/ /\ phase[r] = "artifacts" /\ left[r] = {} /\ verify[r] /\ seen'[r] = seen[r]
               /\ phase'[r] = "evidence" /\ left'[r] = EvidenceFiles
            \/ /\ phase[r] = "artifacts" /\ left[r] = {} /\ ~verify[r]
               /\ phase'[r] = "recheck" /\ left'[r] = Rechecked(FALSE) /\ seen'[r] = seen[r]
            \/ \E i \in Inputs :
                  /\ phase[r] = "evidence" /\ phase'[r] = "evidence"
                  /\ EvidenceAgrees(i, marker[r])
                  /\ left'[r] = left[r] \ {<<"evidence", i>>}
                  /\ seen'[r] = [seen[r] EXCEPT ![i] = input[i]]
            \/ /\ phase[r] = "evidence" /\ left[r] = {} /\ seen'[r] = seen[r]
               /\ phase'[r] = "recheck" /\ left'[r] = Rechecked(TRUE)
            \/ \E f \in Files :
                  /\ phase[r] = "recheck" /\ phase'[r] = "recheck" /\ seen'[r] = seen[r]
                  /\ f \in left[r] /\ (ReportFile \in left[r] => f = ReportFile)
                  /\ Unchanged(r, f) /\ left'[r] = left[r] \ {f}
            \/ /\ phase[r] = "recheck" /\ left[r] = {}
               /\ phase'[r] = "done" /\ left'[r] = left[r] /\ seen'[r] = seen[r]
<1> USE DEF ReadersTypeOK, ReaderPhases
<1>1. CASE \E v \in BOOLEAN : ReadMarker(r, v)
  BY <1>1 DEF ReadMarker
<1>2. CASE \E n \in Artifacts : ReadArtifact(r, n)
  BY <1>2, FinishEndsRead DEF ReadArtifact
<1>3. CASE ArtifactsRead(r)
  BY <1>3 DEF ArtifactsRead
<1>4. CASE \E i \in Inputs : ReadEvidence(r, i)
  BY <1>4, FinishEndsRead DEF ReadEvidence
<1>5. CASE EvidenceRead(r)
  BY <1>5 DEF EvidenceRead
<1>6. CASE \E f \in Files : RecheckFile(r, f)
  BY <1>6, FinishEndsRead DEF RecheckFile, ReportFile
<1>7. CASE ReturnReport(r)
  BY <1>7 DEF ReturnReport
<1>8. CASE EndRead(r)
  BY <1>8, FinishEndsRead DEF EndRead
<1> QED BY <1>1, <1>2, <1>3, <1>4, <1>5, <1>6, <1>7, <1>8 DEF ReaderStep

-----------------------------------------------------------------------------
(* Types.                                                                  *)

LEMMA ObservedType ==
    TypeOK /\ DiskInv => Observable \subseteq Reports /\ Fresh \subseteq Reports
  BY ProductFacts, CommittedIsReport DEF Observable, Fresh, TypeOK, Whole

LEMMA ReadersTypeStep ==
    ASSUME TypeOK, TypeOK', DiskInv', ReadersTypeOK, ReadersNext
    PROVE  ReadersTypeOK'
<1> USE DEF ReadersTypeOK
<1> DEFINE Typed == /\ phase' \in [Readers -> ReaderPhases]
                    /\ verify' \in [Readers -> BOOLEAN]
                    /\ marker' \in [Readers -> Reports \cup {None}]
                    /\ left' \in [Readers -> SUBSET Files]
                    /\ seen' \in [Readers -> Evidence]
<1>f. /\ ArtifactFiles \subseteq Files /\ EvidenceFiles \subseteq Files
      /\ \A v \in BOOLEAN : Rechecked(v) \subseteq Files
  BY NamesFacts DEF ArtifactFiles, EvidenceFiles, Rechecked, Files, ProductFiles
<1>n. NoEvidence \in Evidence
  BY BoundsAssumption DEF NoEvidence, Evidence, Versions
<1>1. (Observable \subseteq Reports /\ Fresh \subseteq Reports)'
  <2>1. (TypeOK /\ DiskInv => Observable \subseteq Reports /\ Fresh \subseteq Reports)'
    BY ObservedType, PTL
  <2> QED BY <2>1
<1>2. whole' \in [Readers -> SUBSET Reports] /\ current' \in [Readers -> SUBSET Reports]
  BY <1>1 DEF ReadersNext, Observe
<1>3. Typed
  <2>1. CASE UNCHANGED readerVars
    BY <2>1 DEF readerVars
  <2>2. ASSUME NEW r \in Readers, Finish(r) PROVE Typed
    BY <2>2, <1>n DEF Finish, ReaderPhases
  <2>3. ASSUME NEW r \in Readers, ReaderStep(r) PROVE Typed
    <3>1. CASE \E v \in BOOLEAN : ReadMarker(r, v)
      <4>1. files[Report] # Absent => files[Report] \in Reports
        BY ProductFacts DEF TypeOK
      <4> QED BY <3>1, <4>1, <1>f DEF ReadMarker, ReaderPhases
    <3>2. CASE \E n \in Artifacts : ReadArtifact(r, n)
      BY <3>2, <2>2 DEF ReadArtifact
    <3>3. CASE ArtifactsRead(r)
      BY <3>3, <1>f DEF ArtifactsRead, ReaderPhases
    <3>4. CASE \E i \in Inputs : ReadEvidence(r, i)
      <4>1. PICK i \in Inputs : ReadEvidence(r, i)
        BY <3>4
      <4>2. [seen[r] EXCEPT ![i] = input[i]] \in Evidence
        BY DEF Evidence, TypeOK
      <4> QED BY <4>1, <4>2, <2>2 DEF ReadEvidence
    <3>5. CASE EvidenceRead(r)
      BY <3>5, <1>f DEF EvidenceRead, ReaderPhases
    <3>6. CASE \E f \in Files : RecheckFile(r, f)
      BY <3>6, <2>2 DEF RecheckFile
    <3>7. CASE ReturnReport(r)
      BY <3>7 DEF ReturnReport, ReaderPhases
    <3>8. CASE EndRead(r)
      BY <3>8, <2>2 DEF EndRead
    <3> QED BY <2>3, <3>1, <3>2, <3>3, <3>4, <3>5, <3>6, <3>7, <3>8 DEF ReaderStep
  <2> QED BY <2>1, <2>3 DEF ReadersNext
<1> QED BY <1>2, <1>3

-----------------------------------------------------------------------------
(* The invariant of each read.  A step of the system is, to the reader r,  *)
(* a step of its own, or one that leaves it where it is.                   *)

LEMMA ReaderView ==
    ASSUME ReadersTypeOK, NEW r \in Readers, [ReadersNext]_allVars
    PROVE  \/ ReaderStep(r) /\ UNCHANGED vars /\ Observe
           \/ [Next]_vars /\ SameRead(r) /\ Observe
           \/ UNCHANGED allVars
<1>1. CASE Next /\ UNCHANGED readerVars /\ Observe
  BY <1>1 DEF readerVars, SameRead
<1>2. ASSUME NEW q \in Readers, ReaderStep(q), UNCHANGED vars, Observe
      PROVE  \/ ReaderStep(r) /\ UNCHANGED vars /\ Observe
             \/ [Next]_vars /\ SameRead(r) /\ Observe
  BY <1>2, OtherReads
<1> QED BY <1>1, <1>2 DEF ReadersNext

LEMMA ObservedStep ==
    ASSUME ReadersTypeOK, NEW r \in Readers, Observe, phase'[r] # "idle"
    PROVE  /\ marker'[r] \notin whole'[r] =>
                /\ phase[r] # "idle" /\ marker'[r] = marker[r] => marker[r] \notin whole[r]
                /\ files'[Report] = marker'[r] => ~Whole(files)'
           /\ current'[r] = current[r] \cup Fresh'
  BY DEF Observe, Observable, ReadersTypeOK

LEMMA PlacedStep ==
    ASSUME TypeOK, ReadersTypeOK, [ReadersNext]_allVars, NEW r \in Readers, Placed(r)
    PROVE  Placed(r)'
<1>1. CASE ReaderStep(r) /\ phase'[r] # "idle"
  <2>1. files[Report] # Absent => files[Report] \in Reports
    BY ProductFacts DEF TypeOK
  <2> QED BY <1>1, <2>1, ReadGoesOn, FilesFacts DEF Placed, ReadersTypeOK
<1>2. CASE phase'[r] = "idle"
  BY <1>2 DEF Placed
<1>3. CASE SameRead(r)
  BY <1>3 DEF Placed, SameRead, Rechecked, ProductFiles, EvidenceFiles
<1>4. CASE UNCHANGED allVars
  BY <1>4 DEF Placed, allVars, readerVars, Rechecked, ProductFiles, EvidenceFiles
<1> QED BY <1>1, <1>2, <1>3, <1>4, ReaderView

(* A read that has not seen its report's generation whole cannot return:   *)
(* the reader's own steps.                                                 *)
LEMMA AtomicReader ==
    ASSUME TypeOK, DiskInv, ReadersTypeOK, NEW r \in Readers, Placed(r), AtomicInv(r),
           ReaderStep(r), UNCHANGED vars, Observe
    PROVE  AtomicInv(r)'
<1> SUFFICES ASSUME Unseen(r)' PROVE AtomicInv(r)'
  BY DEF AtomicInv
<1>1. phase'[r] # "idle" /\ marker'[r] \notin whole'[r]
  BY DEF Unseen
<1>2. files' = files /\ pc' = pc /\ (Whole(files)' <=> Whole(files))
  BY DEF vars, Whole
<1>3. files[Report] = marker'[r] => ~Whole(files)
  BY <1>1, <1>2, ObservedStep
<1>4. CASE phase[r] = "idle"
  <2>1. /\ phase'[r] = "artifacts" /\ marker'[r] = files[Report] /\ files[Report] # Absent
        /\ left'[r] = ArtifactFiles
    BY <1>1, <1>4, ReadGoesOn
  <2>2. \E n \in Artifacts : files[n] # ArtifactOf(n, files[Report].generation)
    BY <2>1, <1>3 DEF Whole
  <2>3. \E n \in Artifacts : <<"product", n>> \in left'[r] /\ Differs(r, n)'
    BY <2>1, <2>2, <1>2, FilesFacts DEF Differs, DigestAgrees
  <2> QED BY <2>1, <2>3, <1>2, <1>3 DEF AtomicInv, Interrupted
<1>5. CASE phase[r] # "idle"
  <2>1. marker'[r] = marker[r] /\ marker[r] \in Reports /\ Unseen(r)
    BY <1>1, <1>5, ReadGoesOn, ObservedStep DEF Placed, Unseen
  <2>2. \A n \in Artifacts : Differs(r, n)' <=> Differs(r, n)
    BY <2>1, <1>2 DEF Differs, DigestAgrees
  <2>i. Interrupted(r)' <=> Interrupted(r)
    BY <2>1, <1>2 DEF Interrupted
  <2>u. /\ Interrupted(r) => ~Whole(files)
        /\ Interrupted(r) /\ pc = "replace" =>
             /\ phase[r] = "artifacts"
             /\ \E n \in Artifacts : <<"product", n>> \in left[r] /\ Differs(r, n)
        /\ phase[r] = "recheck" /\ ReportFile \notin left[r] => Interrupted(r)
        /\ phase[r] = "recheck" /\ Interrupted(r) =>
             \A n \in Artifacts : Differs(r, n) => <<"product", n>> \in left[r]
    BY <2>1 DEF AtomicInv
  <2> DEFINE Goal == /\ phase'[r] # "done"
                     /\ Interrupted(r) /\ pc = "replace" =>
                          /\ phase'[r] = "artifacts"
                          /\ \E n \in Artifacts : <<"product", n>> \in left'[r] /\ Differs(r, n)
                     /\ phase'[r] = "recheck" /\ ReportFile \notin left'[r] => Interrupted(r)
                     /\ phase'[r] = "recheck" /\ Interrupted(r) =>
                          \A n \in Artifacts : Differs(r, n) => <<"product", n>> \in left'[r]
  <2>3. Goal
    <3>3. ASSUME NEW n \in Artifacts,
                 phase[r] = "artifacts", phase'[r] = "artifacts",
                 DigestAgrees(n, marker[r]), left'[r] = left[r] \ {<<"product", n>>}
          PROVE  Goal
      BY <3>3, <2>u DEF Differs
    <3>4. CASE phase[r] = "artifacts" /\ left[r] = {} /\ phase'[r] = "evidence"
      BY <3>4, <2>u
    <3>5. CASE /\ phase[r] \in {"artifacts", "evidence"} /\ left[r] = {}
               /\ phase'[r] = "recheck" /\ ProductFiles \subseteq left'[r]
      BY <3>5, <2>u, FilesFacts
    <3>6. CASE phase[r] = "evidence" /\ phase'[r] = "evidence"
      BY <3>6, <2>u
    <3>7. ASSUME NEW f \in Files, phase[r] = "recheck", phase'[r] = "recheck",
                 Unchanged(r, f), left'[r] = left[r] \ {f}
          PROVE  Goal
      <4>1. CASE f = ReportFile
        <5>1. Interrupted(r)
          BY <4>1, <3>7, <2>1, ContentFacts DEF Unchanged, ReportFile, Interrupted
        <5> QED BY <5>1, <4>1, <3>7, <2>u, FilesFacts
      <4>2. ASSUME NEW n \in Artifacts, f = <<"product", n>>
            PROVE  ~Differs(r, n)
        BY <4>2, <3>7, <2>1, ContentFacts DEF Unchanged, Differs, DigestAgrees
      <4> QED BY <4>1, <4>2, <3>7, <2>u
    <3>8. CASE phase[r] = "recheck" /\ left[r] = {}
      <4>1. Interrupted(r) /\ \A n \in Artifacts : ~Differs(r, n)
        BY <3>8, <2>u
      <4>2. Whole(files)
        BY <4>1, <2>1, ContentFacts, ReportsType, AbsentAssumption, NamesFacts
        DEF Whole, Interrupted, Differs, DigestAgrees
      <4> QED BY <4>1, <4>2, <2>u
    <3> QED BY <1>1, <1>5, <3>3, <3>4, <3>5, <3>6, <3>7, <3>8, ReadGoesOn, FilesFacts
  <2> QED BY <2>3, <2>2, <2>i, <1>2, <1>3, <2>1 DEF AtomicInv, Interrupted
<1> QED BY <1>4, <1>5

(* The same read, when a builder or a collector takes the step: the report *)
(* only becomes the reader's again by a publication of it, which is whole. *)
LEMMA AtomicBuilder ==
    ASSUME TypeOK, DiskInv, ReadersTypeOK, NEW r \in Readers, Placed(r), AtomicInv(r),
           [Next]_vars, SameRead(r), Observe
    PROVE  AtomicInv(r)'
<1> SUFFICES ASSUME Unseen(r)' PROVE AtomicInv(r)'
  BY DEF AtomicInv
<1>1. phase'[r] # "idle" /\ marker'[r] \notin whole'[r]
  BY DEF Unseen
<1>2. /\ phase'[r] = phase[r] /\ marker'[r] = marker[r] /\ left'[r] = left[r]
      /\ marker[r] \in Reports /\ Unseen(r)
  BY <1>1, ObservedStep DEF SameRead, Placed, Unseen
<1>3. Interrupted(r)' => ~Whole(files)'
  BY <1>1, ObservedStep DEF Interrupted
<1>4. Interrupted(r)' => Interrupted(r)
  BY <1>2, <1>3, ReportStep DEF Interrupted
<1>u. /\ phase[r] # "done"
      /\ Interrupted(r) => ~Whole(files)
      /\ Interrupted(r) /\ pc = "replace" =>
           /\ phase[r] = "artifacts"
           /\ \E n \in Artifacts : <<"product", n>> \in left[r] /\ Differs(r, n)
      /\ phase[r] = "recheck" /\ ReportFile \notin left[r] => Interrupted(r)
      /\ phase[r] = "recheck" /\ Interrupted(r) =>
           \A n \in Artifacts : Differs(r, n) => <<"product", n>> \in left[r]
  BY <1>2 DEF AtomicInv
<1>5. phase[r] = "recheck" /\ Interrupted(r) => Interrupted(r)'
  <2> SUFFICES ASSUME phase[r] = "recheck", Interrupted(r), ~Interrupted(r)' PROVE FALSE
    OBVIOUS
  <2>1. files'[Report] # files[Report] /\ pc # "replace" /\ ~Whole(files)
    BY <1>2, <1>u DEF Interrupted
  <2>2. CASE RestoreFile
    <3>1. /\ journal # None /\ Intact /\ Whole(backup) /\ backup[Report] = files[Report]
      BY <2>1, <1>2, InterruptedCopies, ContentFacts, NamesFacts DEF Interrupted
    <3>2. files' = [files EXCEPT ![k] = IF k \in journal.present THEN backup[k] ELSE Absent]
      BY <2>2 DEF RestoreFile
    <3>3. k = Report /\ files'[Report] = IF Report \in journal.present THEN backup[Report]
                                          ELSE Absent
      BY <2>1, <3>2, ProductFacts DEF TypeOK
    <3>4. Report \in journal.present
      BY <3>1, <1>2, ContentFacts, NamesFacts DEF Intact, Interrupted
    <3> QED BY <2>1, <3>1, <3>3, <3>4
  <2>3. CASE ~RestoreFile
    BY <2>1, <2>3 DEF Next, BuilderStep, Recover, ClearRecovery, Build, Publish, vars,
       AcquireLock, Crash, Collect, CaptureInput, RecoverNothing, RecoverUnjournaled,
       RecoverCommitted, RecoverInterrupted, RestoreFails, FinishRollback,
       UnlinkBackup, UnlinkJournal, RemoveRecovery, RejectInputs, Release, disk,
       NoOp, StartPublication, RecheckInput, InputChanged, ReplaceFile,
       MakeRecovery, BackupFile, WriteJournal, StartReplacing,
       VerifyPublication, ChooseTarget
  <2> QED BY <2>2, <2>3
<1>6. CASE ~Interrupted(r)'
  BY <1>6, <1>2, <1>5, <1>u DEF AtomicInv
<1>7. CASE Interrupted(r)'
  <2>1. /\ files[Report] = marker[r] /\ files'[Report] = marker[r] /\ ~Whole(files)
        /\ Interrupted(r)
    BY <1>7, <1>2, <1>4, <1>u DEF Interrupted
  <2>2. /\ pc' = "replace" => pc = "replace"
        /\ pc = "replace" => \A n \in Artifacts : Differs(r, n) => files'[n] = files[n]
        /\ pc # "replace" => \A n \in Artifacts : ~Differs(r, n) => files'[n] = files[n]
    BY <2>1, <1>2, InterruptedStep DEF Differs, DigestAgrees
  <2>3. /\ pc = "replace" => \A n \in Artifacts : Differs(r, n) => Differs(r, n)'
        /\ pc # "replace" => \A n \in Artifacts : Differs(r, n)' => Differs(r, n)
    BY <2>2, <1>2 DEF Differs, DigestAgrees
  <2> QED BY <2>1, <2>2, <2>3, <1>2, <1>3, <1>7, <1>u DEF AtomicInv
<1> QED BY <1>6, <1>7

LEMMA AtomicStep ==
    ASSUME TypeOK, DiskInv, ReadersTypeOK, [ReadersNext]_allVars,
           NEW r \in Readers, Placed(r), AtomicInv(r)
    PROVE  AtomicInv(r)'
<1>1. CASE UNCHANGED allVars
  BY <1>1 DEF allVars, readerVars, vars, AtomicInv, Unseen, Interrupted, Whole, Differs,
              DigestAgrees
<1> QED BY <1>1, ReaderView, AtomicReader, AtomicBuilder

-----------------------------------------------------------------------------
(* Verified reads.                                                         *)

(* Evidence that is no younger than what was captured is what was captured.*)
LEMMA CapturedIsFresh ==
    ASSUME TypeOK, DiskInv, ReadersTypeOK, NEW r \in Readers, marker[r] \in Reports,
           \A i \in Inputs : Captured(r, i) /\ ~(seen[r][i] < input[i]),
           files[Report] = marker[r]
    PROVE  marker[r] \in Fresh
<1>1. \A i \in Inputs : seen[r][i] \in Int /\ input[i] \in Int
  BY DEF TypeOK, ReadersTypeOK, Evidence, Versions
<1>2. \A i \in Inputs : Digest(input[i]) = marker[r].generation.evidence[i]
  BY <1>1 DEF Captured
<1>3. marker[r].generation.evidence \in [Inputs -> 0 .. Digests]
  BY DEF Reports, Generations
<1>4. marker[r].generation.evidence = DigestsOf(input)
  BY <1>2, <1>3 DEF DigestsOf
<1>5. marker[r] # Absent
  BY ContentFacts, NamesFacts
<1> QED BY <1>4, <1>5, CommittedIsReport DEF Fresh

LEMMA VerifiedReader ==
    ASSUME TypeOK, DiskInv, ReadersTypeOK, NEW r \in Readers, Placed(r), VerifiedInv(r),
           ReaderStep(r), UNCHANGED vars, Observe
    PROVE  VerifiedInv(r)'
<1> SUFFICES ASSUME verify'[r], phase'[r] # "idle" PROVE VerifiedInv(r)'
  BY DEF VerifiedInv
<1>2. input' = input /\ current'[r] = current[r] \cup Fresh' /\ Fresh' = Fresh
  <2>1. Fresh' = Fresh
    BY DEF vars, Fresh, Committed, Whole, DigestsOf
  <2> QED BY <2>1, ObservedStep DEF vars
<1>t. \A i \in Inputs : seen[r][i] \in Int /\ input[i] \in Int
  BY DEF TypeOK, ReadersTypeOK, Evidence, Versions
<1>4. CASE phase[r] = "idle"
  BY <1>4, ReadGoesOn DEF VerifiedInv
<1>5. CASE phase[r] # "idle"
  <2>1. marker'[r] = marker[r] /\ verify'[r] = verify[r] /\ verify[r] /\ marker[r] \in Reports
    BY <1>5, ReadGoesOn DEF Placed
  <2>2. (\A i \in Inputs : seen'[r][i] = seen[r][i]) =>
           \A i \in Inputs : Captured(r, i)' <=> Captured(r, i)
    BY <2>1, <1>2 DEF Captured
  <2>3. CASE phase'[r] = "artifacts"
    BY <2>3 DEF VerifiedInv
  <2>4. CASE phase[r] = "artifacts" /\ phase'[r] = "evidence" /\ left'[r] = EvidenceFiles
    BY <2>4, FilesFacts DEF VerifiedInv
  <2>5. ASSUME NEW i \in Inputs, phase[r] = "evidence", phase'[r] = "evidence",
               EvidenceAgrees(i, marker[r]), left'[r] = left[r] \ {<<"evidence", i>>},
               seen'[r] = [seen[r] EXCEPT ![i] = input[i]]
        PROVE  VerifiedInv(r)'
    <3>1. seen[r] \in [Inputs -> Versions]
      BY DEF ReadersTypeOK, Evidence
    <3>2. Captured(r, i)'
      BY <2>5, <2>1, <3>1, <1>2, <1>t DEF Captured, EvidenceAgrees
    <3>3. ASSUME NEW j \in Inputs, j # i PROVE Captured(r, j)' <=> Captured(r, j)
      BY <2>5, <2>1, <3>1, <3>3, <1>2 DEF Captured
    <3> QED BY <2>5, <2>1, <3>2, <3>3 DEF VerifiedInv
  <2>6. CASE /\ phase[r] = "evidence" /\ left[r] = {} /\ seen'[r] = seen[r]
             /\ phase'[r] = "recheck" /\ left'[r] = Rechecked(TRUE)
    BY <2>6, <2>1, <2>2, FilesFacts DEF VerifiedInv
  <2>7. ASSUME NEW f \in Files, phase[r] = "recheck", phase'[r] = "recheck",
               seen'[r] = seen[r], f \in left[r], ReportFile \in left[r] => f = ReportFile,
               Unchanged(r, f), left'[r] = left[r] \ {f}
        PROVE  VerifiedInv(r)'
    <3>1. \A i \in Inputs : Captured(r, i) /\ Captured(r, i)'
      BY <2>7, <2>1, <2>2 DEF VerifiedInv
    <3>2. ASSUME marker[r] \notin current'[r]
          PROVE  \E i \in Inputs : <<"evidence", i>> \in left'[r] /\ seen[r][i] < input[i]
      <4>1. CASE f = ReportFile
        <5>1. files[Report] = marker[r]
          BY <4>1, <2>7, <2>1, ContentFacts DEF Unchanged, ReportFile
        <5>2. PICK i \in Inputs : seen[r][i] < input[i]
          BY <5>1, <3>1, <3>2, <2>1, <1>2, CapturedIsFresh
        <5>3. left[r] = Rechecked(TRUE)
          BY <4>1, <2>7, <2>1 DEF Placed
        <5> QED BY <4>1, <5>2, <5>3, <2>7, FilesFacts
      <4>2. CASE f # ReportFile
        <5>1. PICK i \in Inputs : <<"evidence", i>> \in left[r] /\ seen[r][i] < input[i]
          BY <4>2, <3>2, <2>7, <2>1, <1>2 DEF VerifiedInv
        <5>2. f # <<"evidence", i>>
          BY <5>1, <2>7, <1>t DEF Unchanged
        <5> QED BY <5>1, <5>2, <2>7
      <4> QED BY <4>1, <4>2
    <3> QED BY <3>1, <3>2, <2>7, <2>1, <1>2 DEF VerifiedInv
  <2>8. CASE phase[r] = "recheck" /\ left[r] = {} /\ phase'[r] = "done"
    BY <2>8, <2>1, <1>2 DEF VerifiedInv
  <2> QED BY <1>5, <2>1, <2>3, <2>4, <2>5, <2>6, <2>7, <2>8, ReadGoesOn
<1> QED BY <1>4, <1>5

LEMMA VerifiedBuilder ==
    ASSUME TypeOK, ReadersTypeOK, NEW r \in Readers, VerifiedInv(r),
           [Next]_vars, SameRead(r), Observe
    PROVE  VerifiedInv(r)'
<1> SUFFICES ASSUME phase'[r] # "idle" PROVE VerifiedInv(r)'
  BY DEF VerifiedInv
<1>1. current'[r] = current[r] \cup Fresh'
  BY ObservedStep
<1>2. \A i \in Inputs : seen[r][i] \in Int /\ input[i] \in Int /\ input'[i] \in Int
                        /\ input[i] <= input'[i]
  BY EvidenceGrows DEF TypeOK, ReadersTypeOK, Evidence, Versions
<1>3. \A i \in Inputs : Captured(r, i) => Captured(r, i)'
  BY <1>2 DEF Captured, SameRead
<1>4. \A i \in Inputs : seen[r][i] < input[i] => seen'[r][i] < input'[i]
  BY <1>2 DEF SameRead
<1> QED BY <1>1, <1>3, <1>4 DEF VerifiedInv, SameRead

LEMMA VerifiedStep ==
    ASSUME TypeOK, DiskInv, ReadersTypeOK, [ReadersNext]_allVars,
           NEW r \in Readers, Placed(r), VerifiedInv(r)
    PROVE  VerifiedInv(r)'
<1>1. CASE UNCHANGED allVars
  BY <1>1 DEF allVars, readerVars, vars, VerifiedInv, Captured
<1> QED BY <1>1, ReaderView, VerifiedReader, VerifiedBuilder

-----------------------------------------------------------------------------
(* The theorems.                                                           *)

LEMMA ReadersInvariant == ReadersSpec => []ReadersInv
<1>1. ReadersInit /\ TypeOK => ReadersInv
  <2> SUFFICES ASSUME ReadersInit PROVE ReadersInv
    OBVIOUS
  <2>1. NoEvidence \in Evidence
    BY BoundsAssumption DEF NoEvidence, Evidence, Versions
  <2>2. ReadersTypeOK
    BY <2>1 DEF ReadersInit, ReadersTypeOK, ReaderPhases
  <2>3. \A r \in Readers : Placed(r) /\ AtomicInv(r) /\ VerifiedInv(r)
    BY DEF ReadersInit, Placed, AtomicInv, Unseen, VerifiedInv
  <2> QED BY <2>2, <2>3 DEF ReadersInv
<1>2. TypeOK /\ DiskInv /\ (TypeOK /\ DiskInv)' /\ ReadersInv /\ [ReadersNext]_allVars
        => ReadersInv'
  <2> SUFFICES ASSUME TypeOK, DiskInv, TypeOK', DiskInv', ReadersInv, [ReadersNext]_allVars
               PROVE  ReadersInv'
    OBVIOUS
  <2>1. ReadersTypeOK'
    <3>1. CASE UNCHANGED allVars
      BY <3>1 DEF allVars, readerVars, ReadersInv, ReadersTypeOK, Reports, Generations
    <3> QED BY <3>1, ReadersTypeStep DEF ReadersInv
  <2>2. \A r \in Readers : (Placed(r) /\ AtomicInv(r) /\ VerifiedInv(r))'
    BY PlacedStep, AtomicStep, VerifiedStep DEF ReadersInv
  <2> QED BY <2>1, <2>2 DEF ReadersInv
<1> QED BY <1>1, <1>2, BuildersUndisturbed, PTL DEF ReadersSpec

(* A read that returns found, at one moment of it, the whole product of    *)
(* the generation it reports, although it takes no lock and builders       *)
(* publish, die and roll back between any two of the files it reads.       *)
THEOREM ReadsAreAtomic == ReadersSpec => []ReadAtomic
<1>1. ReadersInv => ReadAtomic
  BY DEF ReadersInv, AtomicInv, Unseen, ReadAtomic
<1> QED BY <1>1, ReadersInvariant, PTL

(* A verified read that returns reports what was committed at a moment     *)
(* when all the evidence it was built from was the cached evidence,        *)
(* whatever collectors replaced while it read.                             *)
THEOREM VerifiedReadsAreCurrent == ReadersSpec => []VerifiedReadCurrent
<1>1. ReadersInv => VerifiedReadCurrent
  BY DEF ReadersInv, VerifiedInv, VerifiedReadCurrent
<1> QED BY <1>1, ReadersInvariant, PTL
===============================================================================
