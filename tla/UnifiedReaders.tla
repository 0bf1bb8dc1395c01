--------------------------- MODULE UnifiedReaders ---------------------------
(***************************************************************************)
(* Lock-free readers of a Unified product against its builders             *)
(* (src/src/td_unified_dataset.py: read_generation, with and without       *)
(* verify_inputs).  The data API serves a product through an unverified    *)
(* read and answers 409 when it raises; health processing reads with       *)
(* verify_inputs, which also demands that the cached evidence is still the *)
(* evidence the generation was built from.                                 *)
(***************************************************************************)
EXTENDS UnifiedPublication

CONSTANTS Readers

VARIABLES
    phase,    \* [Readers -> ReaderPhases]
    verify,   \* [Readers -> BOOLEAN]: the argument verify_inputs
    marker,   \* [Readers -> Reports \cup {None}]: the report parsed first
    left,     \* [Readers -> SUBSET Files]: what the current phase still reads
    seen,     \* [Readers -> Evidence]: the evidence captured
    whole,    \* history: the reports that were the whole product, at one
              \* moment of the read
    current   \* history: the reports that were committed while their evidence
              \* was cached, at one moment of the read

readerVars == <<phase, verify, marker, left, seen>>
allVars == <<vars, readerVars, whole, current>>

ReaderPhases == {"idle", "artifacts", "evidence", "recheck", "done"}

(* The files a read touches: the product's own and the evidence.           *)
Files == ({"product"} \X Names) \cup ({"evidence"} \X Inputs)
ProductFiles == {"product"} \X Names
ArtifactFiles == {"product"} \X Artifacts
EvidenceFiles == {"evidence"} \X Inputs

ReadersTypeOK ==
    /\ phase \in [Readers -> ReaderPhases]
    /\ verify \in [Readers -> BOOLEAN]
    /\ marker \in [Readers -> Reports \cup {None}]
    /\ left \in [Readers -> SUBSET Files]
    /\ seen \in [Readers -> Evidence]
    /\ whole \in [Readers -> SUBSET Reports]
    /\ current \in [Readers -> SUBSET Reports]

ReadersInit ==
    /\ Init
    /\ phase = [r \in Readers |-> "idle"]
    /\ verify = [r \in Readers |-> FALSE]
    /\ marker = [r \in Readers |-> None]
    /\ left = [r \in Readers |-> {}]
    /\ seen = [r \in Readers |-> NoEvidence]
    /\ whole = [r \in Readers |-> {}]
    /\ current = [r \in Readers |-> {}]

-----------------------------------------------------------------------------
(* The read of artifact n agrees with the digest, and the companion with   *)
(* the generationId, that report records.                                  *)
DigestAgrees(n, report) == files[n] = ArtifactOf(n, report.generation)

(* verify_inputs: the evidence has the digest the report records.          *)
EvidenceAgrees(i, report) == Digest(input[i]) = report.generation.evidence[i]

(* The read ends, with an answer or with UnifiedDatasetError.              *)
Finish(r) ==
    /\ phase' = [phase EXCEPT ![r] = "idle"]
    /\ verify' = [verify EXCEPT ![r] = FALSE]
    /\ marker' = [marker EXCEPT ![r] = None]
    /\ left' = [left EXCEPT ![r] = {}]
    /\ seen' = [seen EXCEPT ![r] = NoEvidence]

(* Read the report; without one the read raises and leaves no state.       *)
ReadMarker(r, verifying) ==
    /\ phase[r] = "idle"
    /\ files[Report] # Absent
    /\ phase' = [phase EXCEPT ![r] = "artifacts"]
    /\ verify' = [verify EXCEPT ![r] = verifying]
    /\ marker' = [marker EXCEPT ![r] = files[Report]]
    /\ left' = [left EXCEPT ![r] = ArtifactFiles]
    /\ UNCHANGED seen

(* Artifacts are read in the order of the report's JSON object, which is   *)
(* not the order of publication: any order is allowed for.                 *)
ReadArtifact(r, n) ==
    /\ phase[r] = "artifacts" /\ <<"product", n>> \in left[r]
    /\ IF DigestAgrees(n, marker[r])
         THEN /\ left' = [left EXCEPT ![r] = @ \ {<<"product", n>>}]
              /\ UNCHANGED <<phase, verify, marker, seen>>
         ELSE Finish(r)

(* Mutant: the closing _recheck forgets the evidence.                      *)
RecheckedProductOnly(verifying) == ProductFiles

(* What the closing _recheck reads again.                                  *)
Rechecked(verifying) ==
    ProductFiles \cup (IF verifying THEN EvidenceFiles ELSE {})

ArtifactsRead(r) ==
    /\ phase[r] = "artifacts" /\ left[r] = {}
    /\ phase' = [phase EXCEPT ![r] = IF verify[r] THEN "evidence" ELSE "recheck"]
    /\ left' = [left EXCEPT ![r] =
                  IF verify[r] THEN EvidenceFiles ELSE Rechecked(FALSE)]
    /\ UNCHANGED <<verify, marker, seen>>

ReadEvidence(r, i) ==
    /\ phase[r] = "evidence" /\ <<"evidence", i>> \in left[r]
    /\ IF EvidenceAgrees(i, marker[r])
         THEN /\ left' = [left EXCEPT ![r] = @ \ {<<"evidence", i>>}]
              /\ seen' = [seen EXCEPT ![r][i] = input[i]]
              /\ UNCHANGED <<phase, verify, marker>>
         ELSE Finish(r)

EvidenceRead(r) ==
    /\ phase[r] = "evidence" /\ left[r] = {}
    /\ phase' = [phase EXCEPT ![r] = "recheck"]
    /\ left' = [left EXCEPT ![r] = Rechecked(TRUE)]
    /\ UNCHANGED <<verify, marker, seen>>

(* Mutant: the closing _recheck forgets the product's own files.           *)
UnchangedEvidenceOnly(r, f) == f[1] = "evidence" => input[f[2]] = seen[r][f[2]]

(* _recheck compares digest and mtime.  For a product file only content is *)
(* compared here, which accepts whatever the code accepts and more.        *)
Unchanged(r, f) ==
    IF f[1] = "product" THEN files[f[2]] = ContentOf(f[2], marker[r])
                        ELSE input[f[2]] = seen[r][f[2]]

(* It goes through the report, the artifacts and the evidence in turn.     *)
RecheckFile(r, f) ==
    /\ phase[r] = "recheck" /\ f \in left[r]
    /\ <<"product", Report>> \in left[r] => f = <<"product", Report>>
    /\ f[1] = "evidence" => left[r] \subseteq EvidenceFiles
    /\ IF Unchanged(r, f)
         THEN /\ left' = [left EXCEPT ![r] = @ \ {f}]
              /\ UNCHANGED <<phase, verify, marker, seen>>
         ELSE Finish(r)

(* return report                                                           *)
ReturnReport(r) ==
    /\ phase[r] = "recheck" /\ left[r] = {}
    /\ phase' = [phase EXCEPT ![r] = "done"]
    /\ UNCHANGED <<verify, marker, left, seen>>

EndRead(r) == phase[r] = "done" /\ Finish(r)

ReaderStep(r) ==
    \/ \E verifying \in BOOLEAN : ReadMarker(r, verifying)
    \/ \E n \in Artifacts : ReadArtifact(r, n)
    \/ ArtifactsRead(r)
    \/ \E i \in Inputs : ReadEvidence(r, i)
    \/ EvidenceRead(r)
    \/ \E f \in Files : RecheckFile(r, f)
    \/ ReturnReport(r)
    \/ EndRead(r)

(* History: what each read in progress could have observed at one moment.  *)
Observable == IF Whole(files) THEN {files[Report]} ELSE {}
Fresh == {r \in {Committed} : /\ r # Absent
                              /\ r.generation.evidence = DigestsOf(input)}

Observe ==
    /\ whole' = [r \in Readers |-> IF phase'[r] = "idle" THEN {}
                                   ELSE whole[r] \cup Observable']
    /\ current' = [r \in Readers |-> IF phase'[r] = "idle" THEN {}
                                     ELSE current[r] \cup Fresh']

ReadersNext ==
    /\ \/ Next /\ UNCHANGED readerVars
       \/ (\E r \in Readers : ReaderStep(r)) /\ UNCHANGED vars
    /\ Observe

ReadersSpec == ReadersInit /\ [][ReadersNext]_allVars

-----------------------------------------------------------------------------
(* Properties.                                                             *)

(* A read that returns reports a generation that was, whole and at one     *)
(* moment of the read, the public product: readers need no lock against    *)
(* publication, rollback or a builder that dies between two replaces.      *)
ReadAtomic ==
    /\ ReadersTypeOK
    /\ \A r \in Readers : phase[r] = "done" => marker[r] \in whole[r]

(* A verified read that returns reports the generation that was committed  *)
(* at a moment when the cached evidence, all of it, was the evidence that  *)
(* generation was built from.  (At that moment a rollback may still have   *)
(* been bringing its artifacts back.)                                      *)
VerifiedReadCurrent ==
    \A r \in Readers :
        phase[r] = "done" /\ verify[r] => marker[r] \in current[r]

=============================================================================
