--------------------------- MODULE Collectors_proofs ---------------------------
(***************************************************************************)
(* Proofs about the collectors, each part by an invariant of its own       *)
(* variables: a step of another part leaves them as they are.              *)
(***************************************************************************)
EXTENDS MCCollectors, WellFoundedInduction, TLAPS

-------------------------------------------------------------------------------
(* RestMesh.                                                               *)

MeshErrorKinds == {"failed", "invalid", "timeout", "lost"}
MeshRecords == [rows : SUBSET Routers, covered : SUBSET Fields, ids : Nat,
                responsive : BOOLEAN, errors : SUBSET MeshErrorKinds, asked : Nat]

MeshTypes ==
    /\ meshTodo \subseteq Routers /\ meshNow \in Routers \cup {M!None}
    /\ M!Asked => meshNow # M!None
    /\ left \subseteq Fields /\ tables \in [Routers -> MeshRecords]
    /\ running \subseteq Routers \X Nat

\* That nothing was answered means that there is no row.
MeshSilence == \A r \in Routers :
    tables[r].ids = 0 => tables[r].rows = {} /\ ~tables[r].responsive

\* An action that may still run is the only one of its router, which is not among those
\* that are left, and if it is the one being asked, it is the one whose answer is awaited.
MeshAlone ==
    /\ meshNow # M!None => meshNow \notin meshTodo
    /\ \A a, b \in running : a[1] = b[1] => a = b
    /\ \A a \in running : a[1] \notin meshTodo
    /\ \A a \in running : meshNow # M!None /\ a[1] = meshNow => M!Asked /\ a = M!This

MeshInv == MeshTypes /\ MeshSilence /\ MeshAlone

LEMMA MeshBegins == M!Init => MeshInv
<1> SUFFICES ASSUME M!Init PROVE MeshInv
  OBVIOUS
<1>1. M!NoRecord \in MeshRecords
  BY DEF M!NoRecord, MeshRecords
<1>2. tables \in [Routers -> MeshRecords]
  BY <1>1 DEF M!Init
<1> QED
  BY <1>2 DEF M!Init, MeshInv, MeshTypes, MeshSilence, MeshAlone, M!NoRecord, M!Asked, M!None

LEMMA MeshAnswer ==
  ASSUME NEW r \in MeshRecords, NEW ws \in SUBSET Routers, NEW cs \in SUBSET Fields,
         NEW n \in Nat \ {0}
  PROVE  LET row == [r EXCEPT !.rows = ws, !.covered = cs, !.ids = n, !.responsive = TRUE]
         IN  row \in MeshRecords /\ row.ids # 0
BY DEF MeshRecords

\* An error that is recorded changes nothing of what was answered.
LEMMA MeshErrors ==
  ASSUME MeshTypes, MeshSilence, meshNow \in Routers, NEW kind \in MeshErrorKinds,
         tables' = [tables EXCEPT ![meshNow].errors = @ \cup {kind}]
  PROVE  tables' \in [Routers -> MeshRecords] /\ MeshSilence'
<1> DEFINE row == [tables[meshNow] EXCEPT !.errors = @ \cup {kind}]
<1>1. /\ row \in MeshRecords /\ row.ids = tables[meshNow].ids
      /\ row.rows = tables[meshNow].rows /\ row.responsive = tables[meshNow].responsive
  BY DEF MeshTypes, MeshRecords
<1>2. tables' = [tables EXCEPT ![meshNow] = row]
  OBVIOUS
<1> HIDE DEF row
<1> QED
  BY <1>1, <1>2 DEF MeshTypes, MeshSilence

LEMMA MeshStep == MeshInv /\ M!Next => MeshInv'
<1> SUFFICES ASSUME MeshInv, M!Next PROVE MeshInv'
  OBVIOUS
<1> USE DEF MeshInv
<1>1. CASE M!Take
  BY <1>1 DEF M!Take, MeshTypes, MeshSilence, MeshAlone, M!Asked, M!This, M!world, M!None
<1>2. CASE M!Send
  <2>1. /\ meshNow \in Routers /\ meshNow # M!None /\ ~M!Asked
        /\ UNCHANGED <<meshTodo, meshNow, left>>
    BY <1>2 DEF M!Send, MeshTypes, M!Asking, M!Asked, M!None
  <2>2. M!Asked'
    <3>1. CASE meshStep = "all"
      BY <1>2, <3>1 DEF M!Send, M!Asked
    <3>2. CASE meshStep = "one"
      BY <1>2, <3>2 DEF M!Send, M!Asked
    <3>3. CASE meshStep = "basic"
      BY <1>2, <3>3 DEF M!Send, M!Asked
    <3> QED
      BY <1>2, <3>1, <3>2, <3>3 DEF M!Send, M!Asking
  <2>3. PICK row \in MeshRecords :
          /\ tables' = [tables EXCEPT ![meshNow] = row]
          /\ row = [tables[meshNow] EXCEPT !.asked = @ + 1]
    <3> DEFINE row == [tables[meshNow] EXCEPT !.asked = @ + 1]
    <3>1. row \in MeshRecords
      BY <2>1 DEF MeshTypes, MeshRecords
    <3>2. tables' = [tables EXCEPT ![meshNow] = row]
      BY <1>2 DEF M!Send
    <3> QED
      BY <3>1, <3>2
  <2>4. row.asked = tables[meshNow].asked + 1 /\ row.ids = tables[meshNow].ids
        /\ row.rows = tables[meshNow].rows /\ row.responsive = tables[meshNow].responsive
    BY <2>1, <2>3 DEF MeshTypes, MeshRecords
  <2>5. running' = running \cup {<<meshNow, tables[meshNow].asked + 1>>}
    BY <1>2 DEF M!Send
  <2>6. MeshTypes'
    BY <2>1, <2>2, <2>3, <2>5 DEF MeshTypes, MeshRecords
  <2>7. MeshSilence'
    BY <2>1, <2>3, <2>4 DEF MeshSilence, MeshTypes
  <2>8. MeshAlone'
    BY <2>1, <2>2, <2>3, <2>4, <2>5 DEF MeshAlone, MeshTypes, M!This
  <2> QED
    BY <2>6, <2>7, <2>8
<1>3. CASE M!Answered
  <2>1. /\ meshNow \in Routers /\ meshNow # M!None /\ M!Asked
        /\ meshTodo' = meshTodo /\ running' = running \ {M!This}
    BY <1>3 DEF M!Answered, MeshTypes
  <2>2. meshNow' \in {meshNow, M!None} /\ ~M!Asked' /\ left' \subseteq Fields
    BY <1>3 DEF M!Answered, MeshTypes, M!Continue, M!NextField, M!Asked
  <2>3. tables[meshNow] \in MeshRecords /\ tables[meshNow].ids + 1 \in Nat \ {0}
    <3>1. tables[meshNow] \in MeshRecords
      BY <2>1 DEF MeshTypes
    <3> QED
      BY <3>1 DEF MeshRecords
  <2>4. PICK row \in MeshRecords :
          /\ tables' = [tables EXCEPT ![meshNow] = row]
          /\ row.ids # 0
    <3>1. PICK who \in Routers,
               fs \in SUBSET IF meshStep = "all sent" THEN Fields ELSE M!NextField :
            tables' = [tables EXCEPT ![meshNow] =
              [tables[meshNow] EXCEPT
                 !.rows = IF meshStep = "basic sent" THEN @ ELSE @ \cup {who},
                 !.covered = @ \cup (IF meshStep = "basic sent" THEN {} ELSE fs),
                 !.ids = @ + 1, !.responsive = TRUE]]
      BY <1>3 DEF M!Answered
    <3> DEFINE ws == IF meshStep = "basic sent" THEN tables[meshNow].rows
                     ELSE tables[meshNow].rows \cup {who}
               cs == tables[meshNow].covered \cup (IF meshStep = "basic sent" THEN {} ELSE fs)
               row == [tables[meshNow] EXCEPT !.rows = ws, !.covered = cs,
                         !.ids = tables[meshNow].ids + 1, !.responsive = TRUE]
    <3>2. fs \subseteq Fields
      BY <3>1 DEF MeshTypes, M!NextField
    <3>3. ws \subseteq Routers /\ cs \subseteq Fields
      BY <2>3, <3>2 DEF MeshRecords
    <3>4. tables' = [tables EXCEPT ![meshNow] = row]
      BY <3>1
    <3> HIDE DEF ws, cs
    <3>5. row \in MeshRecords /\ row.ids # 0
      BY <2>3, <3>3, MeshAnswer
    <3> HIDE DEF row
    <3> QED
      BY <3>4, <3>5
  <2>5. MeshTypes'
    BY <2>1, <2>2, <2>4 DEF MeshTypes, M!None
  <2>6. MeshSilence'
    BY <2>1, <2>4 DEF MeshSilence, MeshTypes
  <2>7. MeshAlone'
    BY <2>1, <2>2 DEF MeshAlone, MeshTypes, M!None
  <2> QED
    BY <2>5, <2>6, <2>7
<1>4. CASE M!Refused
  <2>1. /\ meshNow \in Routers /\ meshNow # M!None /\ M!Asked
        /\ meshTodo' = meshTodo /\ running' = running \ {M!This}
    BY <1>4 DEF M!Refused, MeshTypes
  <2>2. meshNow' \in {meshNow, M!None} /\ ~M!Asked' /\ left' \subseteq Fields
    BY <1>4 DEF M!Refused, MeshTypes, M!Continue, M!NextField, M!Asked
  <2>3. PICK kind \in MeshErrorKinds : tables' = [tables EXCEPT ![meshNow].errors = @ \cup {kind}]
    BY <1>4 DEF M!Refused, MeshErrorKinds
  <2>4. tables' \in [Routers -> MeshRecords] /\ MeshSilence'
    BY <2>1, <2>3, MeshErrors
  <2>5. MeshTypes' /\ MeshAlone'
    BY <2>1, <2>2, <2>4 DEF MeshTypes, MeshAlone, M!None
  <2> QED
    BY <2>4, <2>5
<1>5. CASE M!GiveUp
  <2>1. /\ meshNow \in Routers /\ meshNow # M!None /\ M!Asked
        /\ UNCHANGED <<meshTodo, running>>
        /\ meshNow' = M!None /\ left' = {} /\ meshStep' = "idle"
    BY <1>5 DEF M!GiveUp, MeshTypes
  <2>2. PICK kind \in MeshErrorKinds : tables' = [tables EXCEPT ![meshNow].errors = @ \cup {kind}]
    BY <1>5 DEF M!GiveUp, MeshErrorKinds
  <2>3. tables' \in [Routers -> MeshRecords] /\ MeshSilence'
    BY <2>1, <2>2, MeshErrors
  <2>4. MeshTypes' /\ MeshAlone'
    BY <2>1, <2>3 DEF MeshTypes, MeshAlone, M!None, M!Asked
  <2> QED
    BY <2>3, <2>4
<1>6. CASE M!StartProbes \/ (\E r \in Routers : M!Probe(r)) \/ M!Conclude
  BY <1>6 DEF M!StartProbes, M!Probe, M!Conclude, MeshTypes, MeshSilence, MeshAlone, M!Asked,
         M!This, M!world, M!None
<1> QED
  BY <1>1, <1>2, <1>3, <1>4, <1>5, <1>6 DEF M!Next

LEMMA MeshStays == MeshInv /\ UNCHANGED meshVars => MeshInv'
BY DEF MeshInv, MeshTypes, MeshSilence, MeshAlone, meshVars, M!Asked, M!This

LEMMA MeshIsExplained == MeshInv => M!MeshExplained
BY DEF MeshInv, MeshSilence, MeshAlone, M!MeshExplained, M!Qualified, M!Classification,
       M!ProvidedBy, M!NotProvidedBy, M!Eligible, M!Complete

\* RestMesh: no router is asked beside an action of its that may still run, and a sweep that
\* qualifies leaves no table unexplained.
THEOREM MeshGapsAreExplained == Spec => []MeshExplained
<1>1. Init => MeshInv
  BY MeshBegins DEF Init
<1>2. MeshInv /\ [Next]_vars => MeshInv'
  BY MeshStep, MeshStays DEF Next, vars, meshVars
<1>3. MeshInv => MeshExplained
  BY MeshIsExplained DEF MeshExplained
<1> QED
  BY <1>1, <1>2, <1>3, PTL DEF Spec

-------------------------------------------------------------------------------
(* RestFiles.                                                              *)

FileNames == {"outcome", "final", "outcomeScope", "finalScope"}

\* Who holds rows: the command, the two files, and what the build read of them.
Holders == {[run |-> run, rows |-> rows], disk["outcome"], disk["final"], got["outcome"],
            got["final"]}
RowsOf(h) == IF h.run = 0 THEN {} ELSE h.rows

\* The clock ticks with every row, so a time of creation tells the run, whoever holds the row.
CreatedOnce ==
    \A a, b \in Holders : \A r \in RowsOf(a), s \in RowsOf(b) :
        /\ r.created \in Nat /\ r.created < time
        /\ r.created = s.created => a.run = b.run

RecoveryInv ==
    /\ time \in Nat /\ run \in Nat
    /\ DOMAIN disk = FileNames /\ DOMAIN got = FileNames
    /\ CreatedOnce

LEMMA NamesAre == /\ {R!Names[i] : i \in 1..4} = FileNames
                  /\ \A i \in 0..3 : R!Names[i + 1] \in FileNames
<1>1. /\ R!Names[1] = "outcome" /\ R!Names[2] = "final" /\ R!Names[3] = "outcomeScope"
      /\ R!Names[4] = "finalScope"
  BY DEF R!Names
<1>2. 1..4 = {1, 2, 3, 4} /\ \A i \in 0..3 : i + 1 \in {1, 2, 3, 4}
  OBVIOUS
<1> QED
  BY <1>1, <1>2 DEF FileNames

LEMMA RecoveryBegins == R!Init => RecoveryInv
<1> SUFFICES ASSUME R!Init PROVE RecoveryInv
  OBVIOUS
<1>1. disk = [n \in FileNames |-> R!Nothing] /\ got = disk
  BY NamesAre DEF R!Init
<1>2. \A h \in Holders : RowsOf(h) = {}
  BY <1>1 DEF Holders, RowsOf, R!Init, R!Nothing, FileNames
<1> QED
  BY <1>1, <1>2 DEF RecoveryInv, CreatedOnce, R!Init

\* A step that creates no row.
LEMMA RowsKept ==
  ASSUME RecoveryInv, time' \in Nat, time' >= time,
         \A a \in Holders' : \/ RowsOf(a) = {}
                             \/ \E b \in Holders : a.run = b.run /\ a.rows = b.rows
  PROVE  CreatedOnce'
<1>1. \A a \in Holders' : \/ RowsOf(a) = {}
                          \/ \E b \in Holders : a.run = b.run /\ RowsOf(a) = RowsOf(b)
  BY DEF RowsOf
<1>2. ASSUME NEW a \in Holders', NEW b \in Holders', NEW r \in RowsOf(a), NEW s \in RowsOf(b)
      PROVE  /\ r.created \in Nat /\ r.created < time'
             /\ r.created = s.created => a.run = b.run
  BY <1>1, <1>2 DEF RecoveryInv, CreatedOnce
<1> QED
  BY <1>2 DEF CreatedOnce, RowsOf

LEMMA RecoveryStep == RecoveryInv /\ R!Next => RecoveryInv'
<1> SUFFICES ASSUME RecoveryInv, R!Next PROVE RecoveryInv'
  OBVIOUS
<1>1. CASE R!Start
  BY <1>1, RowsKept DEF R!Start, RecoveryInv, Holders, RowsOf
<1>2. CASE R!Collect
  <2>1. UNCHANGED <<run, disk, got>>
    BY <1>2 DEF R!Collect, R!mine
  <2>2. CASE UNCHANGED <<rows, time>>
    BY <2>1, <2>2, RowsKept DEF RecoveryInv, Holders, RowsOf
  <2>3. CASE ~UNCHANGED <<rows, time>>
    <3>1. PICK new : time' = time + 1 /\ new.created = time /\ rows' = rows \cup {new}
      <4> DEFINE d == CHOOSE e \in rest : TRUE
      <4>1. PICK i : time' = time + 1 /\ rows' = rows \cup {[of |-> d, id |-> i, created |-> time]}
        BY <1>2, <2>3 DEF R!Collect
      <4> HIDE DEF d
      <4>2. [of |-> d, id |-> i, created |-> time].created = time
        OBVIOUS
      <4> QED
        BY <4>1, <4>2
    <3>2. \A a \in Holders' : \E b \in Holders :
             a.run = b.run /\ RowsOf(a) \subseteq RowsOf(b) \cup {new}
      BY <2>1, <3>1 DEF Holders, RowsOf
    <3>3. \A a \in Holders' : new \in RowsOf(a) => a.run = run
      BY <2>1, <3>1 DEF Holders, RowsOf, RecoveryInv, CreatedOnce
    <3> QED
      BY <2>1, <3>1, <3>2, <3>3 DEF RecoveryInv, CreatedOnce
  <2> QED
    BY <2>2, <2>3
<1>3. CASE R!WriteOutcome
  BY <1>3, RowsKept DEF R!WriteOutcome, R!Put, R!mine, RecoveryInv, Holders, RowsOf, FileNames
<1>4. CASE R!WriteFinal
  BY <1>4, RowsKept DEF R!WriteFinal, R!Put, R!mine, RecoveryInv, Holders, RowsOf, FileNames
<1>5. CASE \/ R!WriteScope("outcomeScope", "outcome", "final")
           \/ R!WriteScope("finalScope", "final", "idle")
  BY <1>5, RowsKept DEF R!WriteScope, R!Put, R!mine, RecoveryInv, Holders, RowsOf, FileNames
<1>6. CASE R!Collected \/ R!Die
  BY <1>6, RowsKept DEF R!Collected, R!Die, R!mine, RecoveryInv, Holders, RowsOf, FileNames
<1>7. CASE R!Read
  BY <1>7, RowsKept, NamesAre DEF R!Read, R!mine, RecoveryInv, Holders, RowsOf, FileNames
<1>8. CASE R!Recheck \/ R!Forget
  BY <1>8, RowsKept DEF R!Recheck, R!Forget, R!Nothing, R!mine, RecoveryInv, Holders, RowsOf,
         FileNames
<1> QED
  BY <1>1, <1>2, <1>3, <1>4, <1>5, <1>6, <1>7, <1>8 DEF R!Next

LEMMA RecoveryStays == RecoveryInv /\ UNCHANGED recoveryVars => RecoveryInv'
BY DEF RecoveryInv, CreatedOnce, Holders, recoveryVars

LEMMA RecoveryIsSound == RecoveryInv => R!RecoveredIsOfItsRun
BY DEF RecoveryInv, CreatedOnce, Holders, RowsOf, R!RecoveredIsOfItsRun, R!Verified, R!Present,
       R!BoundRow

\* RestFiles: a row that recovers a device was written by the run the outcome reports.
THEOREM RecoveredRowsAreOfTheRun == Spec => []RecoveredIsOfItsRun
<1>1. Init => RecoveryInv
  BY RecoveryBegins DEF Init
<1>2. RecoveryInv /\ [Next]_vars => RecoveryInv'
  BY RecoveryStep, RecoveryStays DEF Next, vars, recoveryVars
<1>3. RecoveryInv => RecoveredIsOfItsRun
  BY RecoveryIsSound DEF RecoveredIsOfItsRun
<1> QED
  BY <1>1, <1>2, <1>3, PTL DEF Spec

-------------------------------------------------------------------------------
(* MatterFiles.                                                            *)

Contents == [run : Nat, at : Nat]
Working  == {"extracting", "saving", "scoping", "reporting"}

FilesTypes ==
    /\ clock \in Nat /\ number \in Nat /\ startedAt \in Nat /\ observedAt \in Nat
    /\ step \in {"idle", "fetching"} \cup Working
    /\ IF step = "idle" THEN command = F!NoCommand ELSE command \in F!Commands
    /\ step \in {"extracting", "scoping"} => command.kind # "native"
    /\ step = "saving" /\ command.kind = "native" => nodesLeft = {}
    /\ step = "reporting" => command.kind = "native"
    /\ {artifact, scope} \subseteq [Artifacts -> Contents]
    /\ product \in [Products -> Contents]
    /\ collection \in [run : Nat, at : Nat, started : Nat, completed : Nat,
                       bound : [Artifacts -> Contents]]
    /\ report \in [Products -> [run : Nat, status : {"none", "failed", "complete"},
                                standard : BOOLEAN, started : Nat, completed : Nat]]

\* A time of observation tells the run, whichever file holds it.
ObservedOnce ==
    /\ collection.at < clock /\ \A f \in Artifacts : artifact[f].at < clock
    /\ step \in Working =>
          /\ \A f \in Artifacts : artifact[f].at = observedAt => artifact[f].run = number
          /\ collection.at = observedAt => collection.run = number
    /\ \A f \in Artifacts : artifact[f].at = collection.at => artifact[f].run = collection.run

\* The intervals of the outcomes are disjoint, and a native file lies in that of its run.
IntervalsDisjoint ==
    \A p \in Products :
        /\ product[p].at < clock /\ (product[p].at >= startedAt => product[p].run = number)
        /\ report[p].completed < clock /\ (step # "idle" => report[p].completed < startedAt)
        /\ F!Accepted(p) => product[p].run = report[p].run

\* What the command has written so far is what it holds.
WrittenSoFar ==
    /\ startedAt < clock /\ observedAt < clock
    /\ step # "idle" => number > 0 /\ done = F!NoCommand
    /\ step \in Working => startedAt < observedAt
    /\ step \in {"saving", "scoping"} =>
          \A f \in F!Targets(command) \ nodesLeft : artifact[f] = F!Content /\ scope[f] = F!Content
    /\ step = "reporting" /\ command.standard => product[command.of] = F!Content

FilesInv ==
    FilesTypes /\ ObservedOnce /\ IntervalsDisjoint /\ WrittenSoFar /\ F!SuccessIsAccepted

LEMMA FilesBegin == F!Init => FilesInv
<1> SUFFICES ASSUME F!Init PROVE FilesInv
  OBVIOUS
<1>1. FilesTypes
  BY DEF F!Init, FilesTypes, Contents, Working, F!NoContent, F!NoOutcome, F!Unbound
<1>2. ObservedOnce /\ IntervalsDisjoint
  BY DEF F!Init, ObservedOnce, IntervalsDisjoint, Working, F!NoContent, F!NoOutcome, F!Unbound,
         F!Accepted
<1>3. WrittenSoFar /\ F!SuccessIsAccepted
  BY DEF F!Init, WrittenSoFar, Working, F!SuccessIsAccepted, F!NoCommand
<1> QED
  BY <1>1, <1>2, <1>3 DEF FilesInv

LEMMA FilesTyped == FilesTypes /\ F!Next => FilesTypes'
<1> SUFFICES ASSUME FilesTypes, F!Next PROVE FilesTypes'
  OBVIOUS
<1> USE DEF FilesTypes, Working, F!times, F!Goto, F!Tick, F!Finish
<1>1. CASE \E c \in F!Commands : F!Start(c)
  BY <1>1 DEF F!Start
<1>2. CASE F!Fetch
  BY <1>2 DEF F!Fetch
<1>3. CASE F!FetchFails
  <2>1. command.kind = "native" => command.of \in Products
    BY <1>3 DEF F!FetchFails, F!Commands
  <2>2. report' \in [Products -> [run : Nat, status : {"none", "failed", "complete"},
                                standard : BOOLEAN, started : Nat, completed : Nat]]
    BY <1>3, <2>1 DEF F!FetchFails, F!Commands
  <2> QED
    BY <1>3, <2>2 DEF F!FetchFails
<1>4. CASE F!Extract \/ F!Extracted
  <2>1. CASE F!Extract
    BY <2>1 DEF F!Extract
  <2>2. CASE F!Extracted
    <3>1. \/ step' = "idle" /\ command' = F!NoCommand
          \/ step' = "saving" /\ command' = command
      BY <2>2 DEF F!Extracted
    <3>2. UNCHANGED <<clock, startedAt, observedAt, number, artifact, scope, collection,
                      product, report>>
      BY <2>2 DEF F!Extracted
    <3> QED
      BY <2>2, <3>1, <3>2 DEF F!Extracted
  <2> QED
    BY <1>4, <2>1, <2>2
<1>5. CASE \E f \in Artifacts : F!SaveArtifact(f) \/ F!SaveScope(f)
  <2>1. ASSUME NEW f \in Artifacts, F!SaveArtifact(f) PROVE FilesTypes'
    <3>1. step' = "scoping" /\ command' = command /\ command.kind # "native" /\ step = "saving"
      BY <2>1 DEF F!SaveArtifact
    <3>2. artifact' \in [Artifacts -> Contents]
      BY <2>1 DEF F!SaveArtifact, F!Content, Contents
    <3> QED
      BY <2>1, <3>1, <3>2 DEF F!SaveArtifact
  <2>2. ASSUME NEW f \in Artifacts, F!SaveScope(f) PROVE FilesTypes'
    BY <2>2 DEF F!SaveScope
  <2> QED
    BY <1>5, <2>1, <2>2
<1>6. CASE F!FinishSingle \/ F!Die
  <2>1. CASE F!FinishSingle
    BY <2>1 DEF F!FinishSingle
  <2>2. CASE F!Die
    BY <2>2 DEF F!Die
  <2> QED
    BY <1>6, <2>1, <2>2
<1>7. CASE F!ReportCollection
  BY <1>7 DEF F!ReportCollection
<1>8. CASE F!SaveProduct
  BY <1>8 DEF F!SaveProduct, F!Content, Contents
<1>9. CASE F!ReportProduct
  <2>1. command.of \in Products /\ command.standard \in BOOLEAN
    BY <1>9 DEF F!ReportProduct, F!Commands
  <2>2. report' \in [Products -> [run : Nat, status : {"none", "failed", "complete"},
                                  standard : BOOLEAN, started : Nat, completed : Nat]]
    BY <1>9, <2>1 DEF F!ReportProduct
  <2> QED
    BY <1>9, <2>2 DEF F!ReportProduct
<1> QED
  BY <1>1, <1>2, <1>3, <1>4, <1>5, <1>6, <1>7, <1>8, <1>9 DEF F!Next

LEMMA FilesObserved == FilesInv /\ F!Next => ObservedOnce'
<1> SUFFICES ASSUME FilesInv, F!Next PROVE ObservedOnce'
  OBVIOUS
<1> USE DEF FilesInv, ObservedOnce, Working, F!times, F!Goto, F!Tick, F!Finish
<1>0. /\ clock \in Nat /\ number \in Nat /\ observedAt \in Nat
      /\ \A f \in Artifacts : artifact[f].at \in Nat
      /\ collection.at \in Nat
  BY DEF FilesTypes, Contents
<1>1. CASE \E c \in F!Commands : F!Start(c)
  BY <1>0, <1>1 DEF F!Start
<1>2. CASE F!Fetch
  BY <1>0, <1>2 DEF F!Fetch
<1>3. CASE F!FetchFails
  BY <1>0, <1>3 DEF F!FetchFails
<1>4. CASE F!Extract \/ F!Extracted
  BY <1>0, <1>4 DEF F!Extract, F!Extracted
<1>5. CASE \E f \in Artifacts : F!SaveArtifact(f)
  BY <1>0, <1>5 DEF F!SaveArtifact, F!Content, FilesTypes, WrittenSoFar
<1>6. CASE (\E f \in Artifacts : F!SaveScope(f)) \/ F!FinishSingle \/ F!Die
  BY <1>0, <1>6 DEF F!FinishSingle, F!Die, F!SaveScope
<1>7. CASE F!ReportCollection
  BY <1>0, <1>7 DEF F!ReportCollection, WrittenSoFar
<1>8. CASE F!SaveProduct \/ F!ReportProduct
  BY <1>0, <1>8 DEF F!SaveProduct, F!ReportProduct
<1> QED
  BY <1>1, <1>2, <1>3, <1>4, <1>5, <1>6, <1>7, <1>8 DEF F!Next

LEMMA FilesInTheirIntervals == FilesInv /\ F!Next => IntervalsDisjoint'
<1> SUFFICES ASSUME FilesInv, F!Next PROVE IntervalsDisjoint'
  OBVIOUS
<1>0. /\ clock \in Nat /\ number \in Nat /\ startedAt \in Nat /\ observedAt \in Nat
      /\ \A p \in Products : product[p].at \in Nat /\ report[p].completed \in Nat
                             /\ report[p].started \in Nat
  BY DEF FilesTypes, Contents, FilesInv
<1> USE <1>0 DEF FilesInv, IntervalsDisjoint, F!times, F!Goto, F!Tick, F!Finish, F!Accepted,
       F!NoContent
<1>1. CASE \E c \in F!Commands : F!Start(c)
  BY <1>1 DEF F!Start
<1>2. CASE F!Fetch
  BY <1>2 DEF F!Fetch
<1>3. CASE F!FetchFails
  BY <1>3 DEF F!FetchFails, FilesTypes
<1>4. CASE F!Extract \/ F!Extracted
  BY <1>4 DEF F!Extract, F!Extracted
<1>5. CASE \E f \in Artifacts : F!SaveArtifact(f) \/ F!SaveScope(f)
  BY <1>5 DEF F!SaveArtifact, F!SaveScope
<1>6. CASE F!FinishSingle \/ F!Die
  BY <1>6 DEF F!FinishSingle, F!Die
<1>7. CASE F!ReportCollection
  BY <1>7 DEF F!ReportCollection
<1>8. CASE F!SaveProduct
  BY <1>8 DEF F!SaveProduct, F!Content, FilesTypes, WrittenSoFar, Working
<1>9. CASE F!ReportProduct
  BY <1>9 DEF F!ReportProduct, FilesTypes
<1> QED
  BY <1>1, <1>2, <1>3, <1>4, <1>5, <1>6, <1>7, <1>8, <1>9 DEF F!Next

LEMMA FilesKeepWork == FilesInv /\ F!Next => WrittenSoFar' /\ F!SuccessIsAccepted'
<1> SUFFICES ASSUME FilesInv, F!Next PROVE WrittenSoFar' /\ F!SuccessIsAccepted'
  OBVIOUS
<1> USE DEF FilesInv, WrittenSoFar, Working, F!times, F!Goto, F!Tick, F!Finish, F!NoCommand,
       F!Targets, F!Content
<1>1. CASE \E c \in F!Commands : F!Start(c)
  BY <1>1 DEF F!Start, FilesTypes, F!SuccessIsAccepted
<1>2. CASE F!Fetch
  BY <1>2 DEF F!Fetch, FilesTypes, F!SuccessIsAccepted
<1>3. CASE F!FetchFails
  BY <1>3 DEF F!FetchFails, FilesTypes, F!SuccessIsAccepted
<1>4. CASE F!Extract \/ F!Extracted
  BY <1>4 DEF F!Extract, F!Extracted, FilesTypes, F!SuccessIsAccepted
<1>5. CASE \E f \in Artifacts : F!SaveArtifact(f) \/ F!SaveScope(f)
  <2>1. ASSUME NEW f \in Artifacts, F!SaveArtifact(f)
        PROVE  WrittenSoFar' /\ F!SuccessIsAccepted'
    BY <2>1 DEF F!SaveArtifact, FilesTypes, F!SuccessIsAccepted
  <2>2. ASSUME NEW f \in Artifacts, F!SaveScope(f)
        PROVE  WrittenSoFar' /\ F!SuccessIsAccepted'
    <3>1. artifact[f] = F!Content /\ scope' = [scope EXCEPT ![f] = F!Content] /\ UNCHANGED artifact
      BY <2>2 DEF F!SaveScope
    <3> QED
      BY <2>2, <3>1 DEF F!SaveScope, FilesTypes, F!SuccessIsAccepted
  <2> QED
    BY <1>5, <2>1, <2>2
<1>6. CASE F!FinishSingle \/ F!Die
  BY <1>6 DEF F!FinishSingle, F!Die, FilesTypes, F!SuccessIsAccepted
<1>7. CASE F!ReportCollection
  BY <1>7 DEF F!ReportCollection, FilesTypes, Contents, F!SuccessIsAccepted, F!Bound, F!NoContent
<1>8. CASE F!SaveProduct
  <2>1. command.of \in Products
    BY <1>8 DEF F!SaveProduct, FilesTypes, F!Commands
  <2>2. product' = IF command.standard THEN [product EXCEPT ![command.of] = F!Content] ELSE product
    BY <1>8 DEF F!SaveProduct
  <2>3. command.standard => product'[command.of] = F!Content
    BY <2>1, <2>2 DEF FilesTypes
  <2> QED
    BY <1>8, <2>3 DEF F!SaveProduct, FilesTypes, F!SuccessIsAccepted
<1>9. CASE F!ReportProduct
  <2>1. command.of \in Products /\ done' = command /\ product' = product /\ step' = "idle"
    BY <1>9 DEF F!ReportProduct, FilesTypes, F!Commands
  <2>2. report'[command.of] = [run |-> number, status |-> "complete", standard |-> command.standard,
                               started |-> startedAt, completed |-> clock]
    BY <1>9, <2>1 DEF F!ReportProduct, FilesTypes
  <2>3. /\ startedAt \in Nat /\ observedAt \in Nat /\ clock \in Nat /\ number \in Nat \ {0}
        /\ startedAt <= observedAt /\ observedAt <= clock
    BY <1>9 DEF F!ReportProduct, FilesTypes
  <2>4. command.standard => product'[command.of] = [run |-> number, at |-> observedAt]
    BY <1>9, <2>1 DEF F!ReportProduct
  <2>5. done'.standard => F!Accepted(done.of)'
    BY <2>1, <2>2, <2>3, <2>4 DEF F!Accepted, F!NoContent
  <2>6. WrittenSoFar'
    BY <1>9, <2>1 DEF F!ReportProduct, FilesTypes
  <2>7. F!SuccessIsAccepted'
    BY <1>9, <2>1, <2>5 DEF FilesTypes, F!SuccessIsAccepted, F!ReportProduct
  <2> QED
    BY <2>6, <2>7
<1> QED
  BY <1>1, <1>2, <1>3, <1>4, <1>5, <1>6, <1>7, <1>8, <1>9 DEF F!Next

LEMMA FilesStay == FilesInv /\ UNCHANGED filesVars => FilesInv'
BY DEF FilesInv, FilesTypes, ObservedOnce, IntervalsDisjoint, WrittenSoFar, F!SuccessIsAccepted,
       F!Accepted, F!Bound,
       F!Content, F!Targets, filesVars

LEMMA FilesAreSound == FilesInv => F!AcceptedIsOfItsOutcome
BY DEF FilesInv, ObservedOnce, IntervalsDisjoint, F!AcceptedIsOfItsOutcome, F!Bound, F!Accepted

\* MatterFiles: what the build accepts with an outcome was written by the command that the
\* outcome reports, and a command that succeeds leaves what it wrote accepted.
THEOREM AcceptedFilesAreOfTheirRun == Spec => []AcceptedIsOfItsOutcome
<1>1. Init => FilesInv
  BY FilesBegin DEF Init
<1>2. FilesInv /\ [Next]_vars => FilesInv'
  <2>1. FilesInv /\ F!Next => FilesInv'
    BY FilesTyped, FilesObserved, FilesInTheirIntervals, FilesKeepWork DEF FilesInv
  <2> QED
    BY <2>1, FilesStay DEF Next, vars, filesVars
<1>3. FilesInv => AcceptedIsOfItsOutcome
  BY FilesAreSound DEF FilesInv, AcceptedIsOfItsOutcome
<1> QED
  BY <1>1, <1>2, <1>3, PTL DEF Spec

-------------------------------------------------------------------------------
(* MatterSnapshot.  What reconcile_nodes computes is a recursive function; *)
(* that an index below which all is well and at which it fails cannot be   *)
(* the least such index stands in for an induction over the events.        *)

\* Every set of numbers has a least one.
LEMMA LeastNumber == ASSUME NEW T \in SUBSET Nat, T # {} PROVE \E x \in T : \A y \in T : ~(y < x)
<1> DEFINE Less == OpToRel(<, Nat)
<1>1. IsWellFoundedOn(Less, Nat)
  BY NatLessThanWellFounded
<1>2. \A x, y \in Nat : <<x, y>> \in Less <=> x < y
  BY DEF OpToRel
<1> HIDE DEF Less
<1>3. \E x \in T : \A y \in T : ~ (<<y, x>> \in Less)
  BY <1>1, WFMin
<1> QED
  BY <1>2, <1>3

\* What holds of 0, and of each number after one of which it holds, holds up to n.
LEMMA UpTo ==
  ASSUME NEW n \in Nat, NEW T, 0 \in T, \A i \in 0..n - 1 : i \in T => i + 1 \in T
  PROVE  \A i \in 0..n : i \in T
<1> SUFFICES ASSUME \E i \in 0..n : i \notin T PROVE FALSE
  OBVIOUS
<1> DEFINE U == {i \in 0..n : i \notin T}
<1>1. U \in SUBSET Nat /\ U # {}
  OBVIOUS
<1>2. PICK x \in U : \A y \in U : ~(y < x)
  BY <1>1, LeastNumber
<1>3. x - 1 \in 0..n - 1 /\ x - 1 \notin U
  BY <1>2
<1>4. x - 1 \in T
  BY <1>3
<1> QED
  BY <1>2, <1>3, <1>4

\* The worlds on the way, from the base to the last of the events.
Way(f, base, es) ==
    f = [i \in 0..Len(es) |-> IF i = 0 THEN base ELSE S!Applied(f[i - 1], es[i])]
Folded(base, es) == (CHOOSE f : Way(f, base, es))[Len(es)]

\* There is one such way only.
LEMMA OneWay ==
  ASSUME NEW base, NEW es, Len(es) \in Nat, NEW f, NEW g, Way(f, base, es), Way(g, base, es)
  PROVE  f[Len(es)] = g[Len(es)]
<1> DEFINE T == {i \in 0..Len(es) : f[i] = g[i]}
<1>1. 0 \in T
  BY DEF Way
<1>2. ASSUME NEW i \in 0..Len(es) - 1, f[i] = g[i] PROVE f[i + 1] = g[i + 1]
  <2>1. i + 1 \in 0..Len(es) /\ i + 1 # 0 /\ (i + 1) - 1 = i
    OBVIOUS
  <2>2. f[i + 1] = S!Applied(f[i], es[i + 1])
    BY <2>1 DEF Way
  <2>3. g[i + 1] = S!Applied(g[i], es[i + 1])
    BY <2>1 DEF Way
  <2> QED
    BY <1>2, <2>2, <2>3
<1>3. \A i \in 0..Len(es) - 1 : i \in T => i + 1 \in T
  BY <1>2
<1> HIDE DEF T
<1>4. \A i \in 0..Len(es) : i \in T
  BY <1>1, <1>3, UpTo
<1> QED
  BY <1>4 DEF T

LEMMA FoldEmpty == \A base : Way([i \in 0..0 |-> base], base, <<>>) /\ Folded(base, <<>>) = base
<1> TAKE base
<1>1. Way([i \in 0..0 |-> base], base, <<>>)
  BY DEF Way
<1>2. PICK g : g = (CHOOSE f : Way(f, base, <<>>))
  OBVIOUS
<1>3. Way(g, base, <<>>)
  BY <1>1, <1>2
<1>4. g[0] = base
  BY <1>3 DEF Way
<1> QED
  BY <1>1, <1>2, <1>4 DEF Folded

\* One more event is applied to what the others led to.
LEMMA FoldAppend ==
  ASSUME NEW base, NEW V, NEW es \in Seq(V), NEW e \in V, NEW f, Way(f, base, es)
  PROVE  /\ \E g : Way(g, base, Append(es, e))
         /\ Folded(base, Append(es, e)) = S!Applied(Folded(base, es), e)
<1> DEFINE n == Len(es)
           s == Append(es, e)
           g == [i \in 0..n + 1 |-> IF i = n + 1 THEN S!Applied(f[n], e) ELSE f[i]]
<1>1. n \in Nat /\ Len(s) = n + 1 /\ s[n + 1] = e /\ \A i \in 1..n : s[i] = es[i]
  OBVIOUS
<1> HIDE DEF n, s
<1>2. f = [i \in 0..n |-> IF i = 0 THEN base ELSE S!Applied(f[i - 1], es[i])]
  BY DEF Way, n
<1>3. ASSUME NEW i \in 0..n + 1
      PROVE  g[i] = IF i = 0 THEN base ELSE S!Applied(g[i - 1], s[i])
  <2>1. CASE i = n + 1
    <3>1. i # 0 /\ i - 1 = n /\ n \in 0..n + 1 /\ n # n + 1
      BY <1>1, <2>1
    <3>2. g[i - 1] = f[n] /\ g[i] = S!Applied(f[n], e)
      BY <2>1, <3>1
    <3> QED
      BY <1>1, <2>1, <3>1, <3>2
  <2>2. CASE i \in 1..n
    <3>1. i # 0 /\ i - 1 \in 0..n + 1 /\ i - 1 # n + 1 /\ i # n + 1 /\ i \in 0..n
      BY <1>1, <2>2
    <3>2. g[i - 1] = f[i - 1] /\ g[i] = f[i]
      BY <3>1
    <3>3. f[i] = S!Applied(f[i - 1], es[i])
      BY <1>2, <3>1
    <3> QED
      BY <1>1, <2>2, <3>1, <3>2, <3>3
  <2>3. CASE i = 0
    BY <1>1, <1>2, <2>3
  <2> QED
    BY <1>1, <2>1, <2>2, <2>3
<1>4. Way(g, base, s)
  <2> HIDE DEF g
  <2>1. g = [i \in 0..n + 1 |-> g[i]]
    BY DEF g
  <2> QED
    BY <1>1, <1>3, <2>1 DEF Way
<1>5. PICK h : h = (CHOOSE k : Way(k, base, s)) /\ Way(h, base, s)
  BY <1>4
<1>6. h[n + 1] = g[n + 1]
  <2> HIDE DEF g
  <2> QED
    BY <1>1, <1>4, <1>5, OneWay
<1>7. PICK k : k = (CHOOSE x : Way(x, base, es)) /\ Way(k, base, es)
  OBVIOUS
<1>8. k[n] = f[n]
  BY <1>1, <1>7, OneWay DEF n
<1>9. g[n + 1] = S!Applied(f[n], e)
  BY <1>1
<1> HIDE DEF g
<1> QED
  BY <1>1, <1>4, <1>5, <1>6, <1>7, <1>8, <1>9 DEF Folded, n, s

\* What reconcile_nodes returns is such a fold over the answer.
LEMMA ReconcileIsFold == S!Reconcile = Folded(listed, events)
BY DEF S!Reconcile, Folded, Way

Servers == [Nodes -> [there : BOOLEAN, attributes : [Attributes -> Nat]]]
Listings == [kind : {S!Listing}, sent : Servers]

\* An event tells of one node what it was when it was sent: that it is gone, or the
\* values of some of its attributes.
Describes(e) ==
    IF e.kind = "node_removed" THEN e.sent[e.node] = S!Gone
    ELSE /\ e.sent[e.node].there
         /\ \A a \in Attributes :
               e.update[a] # 0 => e.sent[e.node].attributes[a] = e.update[a]
Told == {e \in [kind : S!Events, node : Nodes, update : [Attributes -> Nat], sent : Servers] :
            Describes(e)}

\* From one frame to the next no other node changed, and of this one no attribute the event
\* leaves out, unless it is there no more.
Follows(w, e) ==
    /\ \A n \in Nodes \ {e.node} : e.sent[n] = w[n]
    /\ e.kind # "node_removed" =>
          \A a \in Attributes : e.update[a] = 0 =>
             e.sent[e.node].attributes[a] \in {0, w[e.node].attributes[a]}
Link(w, f) == IF f.kind = S!Listing THEN f.sent = w ELSE Follows(w, f)

Heard == fetching = "listening" /\ \A i \in DOMAIN wire : wire[i].kind # S!Listing

SnapTypes ==
    /\ {world, listed, asOf} \subseteq Servers /\ changes \in Nat
    /\ wire \in Seq(Listings \cup Told) /\ events \in Seq(Told)
    /\ fetching = "asked" => wire = <<>> /\ events = <<>>

\* The frames under way lead from what was received last to what the server has.
FramesLead ==
    /\ \A i \in 1..Len(wire) - 1 : Link(wire[i].sent, wire[i + 1])
    /\ wire # <<>> => world = wire[Len(wire)].sent
    /\ events # <<>> \/ Heard =>
          IF wire = <<>> THEN world = asOf ELSE Link(asOf, wire[1])

Traced(k, l, w) ==
    \/ k = l
    \/ /\ k.there = w.there
       /\ \A a \in Attributes :
             w.attributes[a] # 0 => k.attributes[a] \in {w.attributes[a], l.attributes[a]}
Matches(k, w) ==
    /\ k.there = w.there
    /\ \A a \in Attributes : w.attributes[a] # 0 => k.attributes[a] = w.attributes[a]

\* Whatever list the events are applied over, each node and attribute is as it was there, or
\* as the last frame received had it.
FoldsTraced == \A base \in Servers :
    /\ \E f : Way(f, base, events)
    /\ Folded(base, events) \in Servers
    /\ \A n \in Nodes : Traced(Folded(base, events)[n], base[n], asOf[n])

FoldMatches == Heard => \A n \in Nodes : Matches(Folded(listed, events)[n], asOf[n])

SnapInv ==
    SnapTypes /\ FramesLead /\ FoldsTraced /\ FoldMatches /\ S!SnapshotIsServerState

LEMMA GoneNode == S!Gone \in [there : BOOLEAN, attributes : [Attributes -> Nat]]
BY DEF S!Gone

LEMMA AppliedOver ==
  ASSUME NEW K \in Servers, NEW e \in Told
  PROVE  /\ S!Applied(K, e) \in Servers
         /\ \A n \in Nodes \ {e.node} : S!Applied(K, e)[n] = K[n]
         /\ e.kind = "node_removed" => S!Applied(K, e)[e.node] = S!Gone
         /\ e.kind # "node_removed" =>
               /\ S!Applied(K, e)[e.node].there
               /\ \A a \in Attributes : S!Applied(K, e)[e.node].attributes[a] =
                     IF e.update[a] # 0 THEN e.update[a] ELSE K[e.node].attributes[a]
<1>1. e.node \in Nodes /\ e.update \in [Attributes -> Nat]
  BY DEF Told
<1> DEFINE new == IF e.kind = "node_removed" THEN S!Gone ELSE S!MergeNode(K[e.node], e.update)
<1>2. S!Applied(K, e) = [K EXCEPT ![e.node] = new]
  BY DEF S!Applied, Servers
<1>3. K[e.node] \in [there : BOOLEAN, attributes : [Attributes -> Nat]]
  BY <1>1 DEF Servers
<1>4. new \in [there : BOOLEAN, attributes : [Attributes -> Nat]]
  BY <1>1, <1>3, GoneNode DEF S!MergeNode
<1>5. /\ e.kind = "node_removed" => new = S!Gone
      /\ e.kind # "node_removed" =>
            /\ new.there
            /\ \A a \in Attributes : new.attributes[a] =
                  IF e.update[a] # 0 THEN e.update[a] ELSE K[e.node].attributes[a]
  BY DEF S!MergeNode
<1> HIDE DEF new
<1>6. S!Applied(K, e)[e.node] = new
  BY <1>1, <1>2 DEF Servers
<1> QED
  BY <1>1, <1>2, <1>4, <1>5, <1>6 DEF Servers

LEMMA TracedOver ==
  ASSUME NEW L \in Servers, NEW K \in Servers, NEW A \in Servers, NEW e \in Told,
         Follows(A, e) \/ K = L, \A n \in Nodes : Traced(K[n], L[n], A[n])
  PROVE  \A n \in Nodes : Traced(S!Applied(K, e)[n], L[n], e.sent[n])
<1> SUFFICES ASSUME NEW n \in Nodes PROVE Traced(S!Applied(K, e)[n], L[n], e.sent[n])
  OBVIOUS
<1>1. e.node \in Nodes /\ e.sent \in Servers /\ Describes(e)
  BY DEF Told
<1>2. CASE n # e.node
  <2>1. S!Applied(K, e)[n] = K[n]
    BY <1>2, AppliedOver
  <2>2. CASE K = L
    BY <2>1, <2>2 DEF Traced
  <2>3. CASE Follows(A, e)
    BY <1>2, <2>1, <2>3 DEF Follows
  <2> QED
    BY <2>2, <2>3
<1>3. CASE n = e.node /\ e.kind = "node_removed"
  BY <1>1, <1>3, AppliedOver DEF Traced, Describes, S!Gone
<1>4. CASE n = e.node /\ e.kind # "node_removed"
  <2> DEFINE k == S!Applied(K, e)[n]
  <2>1. /\ k.there
        /\ \A a \in Attributes :
              k.attributes[a] = IF e.update[a] # 0 THEN e.update[a] ELSE K[n].attributes[a]
    BY <1>4, AppliedOver
  <2>2. /\ e.sent[n].there
        /\ \A a \in Attributes :
              e.update[a] # 0 => e.sent[n].attributes[a] = e.update[a]
    BY <1>1, <1>4 DEF Describes
  <2>3. e.sent[n].there \in BOOLEAN /\ k.there \in BOOLEAN
    <3>1. S!Applied(K, e) \in Servers /\ e.sent \in Servers
      BY <1>1, AppliedOver
    <3> QED
      BY <3>1 DEF Servers
  <2> HIDE DEF k
  <2>4. ASSUME NEW a \in Attributes, e.sent[n].attributes[a] # 0
        PROVE  k.attributes[a] \in {e.sent[n].attributes[a], L[n].attributes[a]}
    <3>1. CASE e.update[a] # 0
      BY <2>1, <2>2, <3>1
    <3>2. CASE e.update[a] = 0 /\ K = L
      BY <2>1, <3>2
    <3>3. CASE e.update[a] = 0 /\ Follows(A, e)
      <4>1. e.sent[n].attributes[a] = A[n].attributes[a]
        BY <1>4, <2>4, <3>3 DEF Follows
      <4>2. K[n].attributes[a] \in {A[n].attributes[a], L[n].attributes[a]}
        BY <2>4, <4>1 DEF Traced
      <4> QED
        BY <2>1, <3>3, <4>1, <4>2
    <3> QED
      BY <3>1, <3>2, <3>3
  <2> QED
    BY <2>1, <2>2, <2>3, <2>4 DEF Traced, k
<1> QED
  BY <1>2, <1>3, <1>4

LEMMA MatchesOver ==
  ASSUME NEW K \in Servers, NEW A \in Servers, NEW e \in Told,
         Follows(A, e), \A n \in Nodes : Matches(K[n], A[n])
  PROVE  \A n \in Nodes : Matches(S!Applied(K, e)[n], e.sent[n])
<1> SUFFICES ASSUME NEW n \in Nodes PROVE Matches(S!Applied(K, e)[n], e.sent[n])
  OBVIOUS
<1>1. e.node \in Nodes /\ e.sent \in Servers /\ Describes(e)
  BY DEF Told
<1>2. CASE n # e.node
  BY <1>2, AppliedOver DEF Follows
<1>3. CASE n = e.node /\ e.kind = "node_removed"
  BY <1>1, <1>3, AppliedOver DEF Matches, Describes
<1>4. CASE n = e.node /\ e.kind # "node_removed"
  <2> DEFINE k == S!Applied(K, e)[n]
  <2>1. /\ k.there
        /\ \A a \in Attributes :
              k.attributes[a] = IF e.update[a] # 0 THEN e.update[a] ELSE K[n].attributes[a]
    BY <1>4, AppliedOver
  <2>2. /\ e.sent[n].there
        /\ \A a \in Attributes :
              e.update[a] # 0 => e.sent[n].attributes[a] = e.update[a]
    BY <1>1, <1>4 DEF Describes
  <2>3. e.sent[n].there \in BOOLEAN /\ k.there \in BOOLEAN
    <3>1. S!Applied(K, e) \in Servers /\ e.sent \in Servers
      BY <1>1, AppliedOver
    <3> QED
      BY <3>1 DEF Servers
  <2> HIDE DEF k
  <2>4. ASSUME NEW a \in Attributes, e.sent[n].attributes[a] # 0
        PROVE  k.attributes[a] = e.sent[n].attributes[a]
    <3>1. CASE e.update[a] # 0
      BY <2>1, <2>2, <3>1
    <3>2. CASE e.update[a] = 0
      BY <1>4, <2>1, <2>4, <3>2 DEF Follows, Matches
    <3> QED
      BY <3>1, <3>2
  <2> QED
    BY <2>1, <2>2, <2>3, <2>4 DEF Matches, k
<1> QED
  BY <1>2, <1>3, <1>4

LEMMA SnapBegins == S!Init => SnapInv
<1> SUFFICES ASSUME S!Init PROVE SnapInv
  OBVIOUS
<1>1. {S!Gone, [there |-> TRUE, attributes |-> [a \in Attributes |-> 1]]}
      \subseteq [there : BOOLEAN, attributes : [Attributes -> Nat]]
  BY GoneNode
<1>2. world \in Servers
  BY <1>1 DEF S!Init, Servers
<1>3. /\ listed = world /\ asOf = world /\ changes = 1 /\ fetching = "asked"
      /\ wire = <<>> /\ events = <<>>
  BY DEF S!Init
<1>4. SnapTypes
  BY <1>2, <1>3 DEF SnapTypes
<1>5. ~Heard /\ FramesLead
  BY <1>3 DEF FramesLead, Heard
<1>6. FoldsTraced
  BY <1>3, FoldEmpty DEF FoldsTraced, Traced
<1> QED
  BY <1>3, <1>4, <1>5, <1>6 DEF SnapInv, FoldMatches, S!SnapshotIsServerState

\* The server's steps leave alone what the client made of the frames.
LEMMA FoldsKept ==
  ASSUME SnapInv, UNCHANGED <<listed, events, asOf, nodes>>, Heard' => Heard,
         fetching' # "done"
  PROVE  FoldsTraced' /\ FoldMatches' /\ S!SnapshotIsServerState'
<1>1. FoldsTraced'
  BY DEF SnapInv, FoldsTraced
<1>2. FoldMatches'
  BY DEF SnapInv, FoldMatches
<1> QED
  BY <1>1, <1>2 DEF S!SnapshotIsServerState

\* A frame that is sent after what is under way.
LEMMA FrameIsSent ==
  ASSUME SnapInv, fetching \in {"subscribed", "listening"}, world' \in Servers,
         UNCHANGED <<listed, events, asOf, nodes>>, changes' \in Nat,
         fetching' \in {"subscribed", "listening"},
         NEW f \in Listings \cup Told, f.sent = world', Link(world, f),
         wire' = Append(wire, f), f.kind = S!Listing \/ fetching' = fetching
  PROVE  SnapInv'
<1>1. /\ wire \in Seq(Listings \cup Told) /\ wire' \in Seq(Listings \cup Told)
      /\ Len(wire') = Len(wire) + 1 /\ wire' # <<>> /\ Len(wire) \in Nat
      /\ wire'[Len(wire) + 1] = f /\ \A i \in 1..Len(wire) : wire'[i] = wire[i]
  BY DEF SnapInv, SnapTypes
<1>2. Heard' => Heard
  BY <1>1 DEF Heard
<1>3. SnapTypes'
  BY <1>1 DEF SnapInv, SnapTypes
<1>4. FramesLead'
  <2> USE DEF SnapInv, FramesLead
  <2>1. ASSUME NEW i \in 1..Len(wire) PROVE Link(wire'[i].sent, wire'[i + 1])
    <3>1. CASE i = Len(wire)
      <4>1. wire # <<>> /\ wire[i] = wire'[i] /\ wire'[i + 1] = f
        BY <1>1, <3>1
      <4> QED
        BY <3>1, <4>1
    <3>2. CASE i # Len(wire)
      <4>1. i \in 1..Len(wire) - 1 /\ wire'[i] = wire[i] /\ wire'[i + 1] = wire[i + 1]
        BY <1>1, <3>2
      <4> QED
        BY <4>1
    <3> QED
      BY <3>1, <3>2
  <2>2. world' = wire'[Len(wire')].sent
    BY <1>1
  <2>3. ASSUME events # <<>> \/ Heard PROVE Link(asOf, wire'[1])
    <3>1. CASE wire = <<>>
      <4>1. wire'[1] = f
        BY <1>1, <3>1
      <4> QED
        BY <2>3, <3>1, <4>1
    <3>2. CASE wire # <<>>
      <4>1. wire'[1] = wire[1]
        BY <1>1, <3>2
      <4> QED
        BY <2>3, <3>2, <4>1
    <3> QED
      BY <3>1, <3>2
  <2>4. Len(wire') - 1 = Len(wire)
    BY <1>1
  <2>5. \A i \in 1..Len(wire') - 1 : Link(wire'[i].sent, wire'[i + 1])
    BY <2>1, <2>4
  <2>6. events' # <<>> \/ Heard' =>
          IF wire' = <<>> THEN world' = asOf' ELSE Link(asOf', wire'[1])
    BY <1>1, <1>2, <2>3
  <2> QED
    BY <1>1, <2>2, <2>5, <2>6 DEF Link, Follows
<1> QED
  BY <1>2, <1>3, <1>4, FoldsKept DEF SnapInv

LEMMA ServerChanges ==
  ASSUME SnapInv, NEW n \in Nodes,
         NEW node \in [there : BOOLEAN, attributes : [Attributes -> Nat]],
         NEW kind \in S!Events, NEW update \in [Attributes -> Nat],
         S!ChangeTo(n, node), S!Send(kind, n, update),
         kind = "node_removed" => node = S!Gone,
         kind # "node_removed" =>
            /\ node.there
            /\ \A a \in Attributes :
                  /\ update[a] # 0 => node.attributes[a] = update[a]
                  /\ update[a] = 0 => node.attributes[a] \in {0, world[n].attributes[a]}
  PROVE  SnapInv'
<1>1. /\ world \in Servers /\ world' = [world EXCEPT ![n] = node]
      /\ UNCHANGED <<fetching, listed, events, asOf, nodes>>
      /\ changes' \in Nat /\ fetching \in {"asked", "subscribed", "listening"}
  BY DEF SnapInv, SnapTypes, S!ChangeTo
<1>2. world' \in Servers /\ world'[n] = node /\ \A m \in Nodes \ {n} : world'[m] = world[m]
  BY <1>1 DEF Servers
<1>3. CASE fetching = "asked"
  <2>1. wire' = wire /\ wire = <<>> /\ events = <<>> /\ ~Heard /\ ~Heard'
    BY <1>1, <1>3 DEF S!Send, SnapInv, SnapTypes, Heard
  <2>2. SnapTypes' /\ FramesLead'
    BY <1>1, <1>2, <2>1 DEF SnapInv, SnapTypes, FramesLead
  <2> QED
    BY <1>1, <1>3, <2>1, <2>2, FoldsKept DEF SnapInv
<1>4. CASE fetching # "asked"
  <2> DEFINE f == [kind |-> kind, node |-> n, update |-> update, sent |-> world']
  <2>1. wire' = Append(wire, f)
    BY <1>4 DEF S!Send
  <2>2. f \in Told
    BY <1>2 DEF Told, Describes
  <2>3. f.kind # S!Listing /\ f.sent = world'
    BY DEF S!Events, S!Listing
  <2>4. Link(world, f)
    BY <1>1, <1>2, <2>3 DEF Link, Follows
  <2> HIDE DEF f
  <2>5. PICK g : g = f
    OBVIOUS
  <2>6. fetching \in {"subscribed", "listening"} /\ fetching' = fetching
    BY <1>1, <1>4
  <2> QED
    BY <1>1, <1>2, <2>1, <2>2, <2>3, <2>4, <2>5, <2>6, FrameIsSent
<1> QED
  BY <1>3, <1>4

LEMMA AnswerIsSent == SnapInv /\ S!Answer => SnapInv'
<1> SUFFICES ASSUME SnapInv, S!Answer PROVE SnapInv'
  OBVIOUS
<1>1. /\ fetching = "subscribed" /\ fetching' = "listening" /\ world' = world
      /\ UNCHANGED <<listed, events, asOf, nodes>> /\ changes' \in Nat /\ world \in Servers
  BY DEF S!Answer, SnapInv, SnapTypes
<1> DEFINE f == [kind |-> S!Listing, sent |-> world]
<1>2. wire' = Append(wire, f) /\ f \in Listings \cup Told /\ f.sent = world'
      /\ f.kind = S!Listing /\ Link(world, f)
  BY <1>1 DEF S!Answer, Listings, Link
<1> HIDE DEF f
<1>3. PICK g : g = f
  OBVIOUS
<1> QED
  BY <1>1, <1>2, <1>3, FrameIsSent

LEMMA FrameIsReceived == SnapInv /\ S!Receive => SnapInv'
<1> SUFFICES ASSUME SnapInv, S!Receive PROVE SnapInv'
  OBVIOUS
<1> USE DEF SnapInv
<1>1. PICK f : f = wire[1]
  OBVIOUS
<1>2. /\ fetching \in {"subscribed", "listening"} /\ wire # <<>> /\ wire' = Tail(wire)
      /\ asOf' = f.sent /\ UNCHANGED <<world, changes, fetching, nodes>>
      /\ IF f.kind = S!Listing THEN listed' = f.sent /\ UNCHANGED events
         ELSE events' = Append(events, f) /\ UNCHANGED listed
  BY <1>1 DEF S!Receive
<1>3. /\ wire \in Seq(Listings \cup Told) /\ f \in Listings \cup Told
      /\ wire' \in Seq(Listings \cup Told) /\ Len(wire) \in Nat \ {0}
      /\ Len(wire') = Len(wire) - 1 /\ \A i \in 1..Len(wire') : wire'[i] = wire[i + 1]
  BY <1>1, <1>2 DEF SnapTypes
<1>4. f.sent \in Servers /\ (f.kind # S!Listing => f \in Told)
  BY <1>3 DEF Listings, Told
<1>5. SnapTypes'
  BY <1>2, <1>3, <1>4 DEF SnapTypes
<1>6. events # <<>> \/ Heard => Link(asOf, f)
  BY <1>1, <1>2 DEF FramesLead
<1>7. FramesLead'
  <2>1. ASSUME NEW i \in 1..Len(wire') - 1 PROVE Link(wire'[i].sent, wire'[i + 1])
    <3>1. i + 1 \in 1..Len(wire) - 1 /\ wire'[i] = wire[i + 1] /\ wire'[i + 1] = wire[(i + 1) + 1]
      BY <1>3
    <3> QED
      BY <3>1 DEF FramesLead
  <2>2. wire' # <<>> => wire'[Len(wire')] = wire[Len(wire)]
    BY <1>2, <1>3
  <2>3. wire' = <<>> => wire[Len(wire)] = f
    <3>1. wire' = <<>> => Len(wire') = 0
      OBVIOUS
    <3>2. wire' = <<>> => Len(wire) = 1
      BY <1>3, <3>1
    <3> QED
      BY <1>1, <3>2
  <2>4. world = wire[Len(wire)].sent
    BY <1>2 DEF FramesLead
  <2>5. wire' # <<>> => Link(f.sent, wire'[1])
    <3>1. wire' # <<>> => 1 \in 1..Len(wire) - 1 /\ wire'[1] = wire[1 + 1]
      BY <1>3
    <3> QED
      BY <1>1, <3>1 DEF FramesLead
  <2> QED
    BY <1>2, <2>1, <2>2, <2>3, <2>4, <2>5 DEF FramesLead, Link, Follows
<1>8. CASE f.kind = S!Listing
  <2>1. listed' = f.sent /\ events' = events /\ (events # <<>> \/ Heard => f.sent = asOf)
    BY <1>2, <1>6, <1>8 DEF Link
  <2>2. FoldsTraced'
    <3> SUFFICES ASSUME NEW base \in Servers
                 PROVE  /\ \E g : Way(g, base, events)
                        /\ Folded(base, events) \in Servers
                        /\ \A n \in Nodes : Traced(Folded(base, events)[n], base[n], f.sent[n])
      BY <1>2, <2>1 DEF FoldsTraced
    <3>1. CASE events = <<>>
      BY <3>1, FoldEmpty DEF Traced
    <3>2. CASE events # <<>>
      BY <2>1, <3>2 DEF FoldsTraced
    <3> QED
      BY <3>1, <3>2
  <2>3. FoldMatches'
    <3>1. \A n \in Nodes : Traced(Folded(listed', events')[n], listed'[n], listed'[n])
      BY <1>2, <1>4, <2>1, <2>2 DEF FoldsTraced
    <3>2. \A n \in Nodes : Matches(Folded(listed', events')[n], listed'[n])
      BY <3>1 DEF Traced, Matches
    <3> QED
      BY <1>2, <2>1, <3>2 DEF FoldMatches
  <2> QED
    BY <1>2, <1>5, <1>7, <2>2, <2>3 DEF S!SnapshotIsServerState
<1>9. CASE f.kind # S!Listing
  <2>1. /\ f \in Told /\ events' = Append(events, f) /\ listed' = listed
        /\ events \in Seq(Told) /\ (events # <<>> \/ Heard => Follows(asOf, f))
        /\ asOf \in Servers /\ listed \in Servers
    BY <1>2, <1>4, <1>6, <1>9 DEF Link, SnapTypes
  <2>2. ASSUME NEW base \in Servers
        PROVE  /\ \E g : Way(g, base, events')
               /\ Folded(base, events') = S!Applied(Folded(base, events), f)
    BY <2>1, FoldAppend DEF FoldsTraced
  <2>3. FoldsTraced'
    <3> SUFFICES ASSUME NEW base \in Servers
                 PROVE  /\ \E g : Way(g, base, events')
                        /\ Folded(base, events') \in Servers
                        /\ \A n \in Nodes : Traced(Folded(base, events')[n], base[n], f.sent[n])
      BY <1>2 DEF FoldsTraced
    <3>1. PICK K : K = Folded(base, events)
      OBVIOUS
    <3>2. K \in Servers /\ \A n \in Nodes : Traced(K[n], base[n], asOf[n])
      BY <3>1 DEF FoldsTraced
    <3>3. Follows(asOf, f) \/ K = base
      BY <2>1, <3>1, FoldEmpty
    <3>4. PICK A \in Servers : A = asOf
      BY <2>1
    <3>5. \A n \in Nodes : Traced(S!Applied(K, f)[n], base[n], f.sent[n])
      BY <2>1, <3>2, <3>3, <3>4, TracedOver
    <3>6. S!Applied(K, f) \in Servers
      BY <2>1, <3>2, AppliedOver
    <3> QED
      BY <2>2, <3>1, <3>5, <3>6
  <2>4. FoldMatches'
    <3>1. CASE Heard
      <4>1. PICK K \in Servers : K = Folded(listed, events)
        BY <2>1 DEF FoldsTraced
      <4>2. PICK A \in Servers : A = asOf
        BY <2>1
      <4>3. \A n \in Nodes : Matches(S!Applied(K, f)[n], f.sent[n])
        BY <2>1, <3>1, <4>1, <4>2, MatchesOver DEF FoldMatches
      <4>4. Folded(listed', events') = S!Applied(K, f)
        BY <2>1, <2>2, <4>1
      <4> QED
        BY <1>2, <4>3, <4>4 DEF FoldMatches
    <3>2. CASE ~Heard
      <4>1. ASSUME Heard' PROVE Heard
        <5>1. fetching = "listening" /\ \A i \in 1..Len(wire') : wire'[i].kind # S!Listing
          <6>1. DOMAIN wire' = 1..Len(wire')
            BY <1>3
          <6> QED
            BY <1>2, <4>1, <6>1 DEF Heard
        <5>2. ASSUME NEW i \in 1..Len(wire) PROVE wire[i].kind # S!Listing
          <6>1. CASE i = 1
            BY <1>1, <1>9, <6>1
          <6>2. CASE i # 1
            <7>1. i - 1 \in 1..Len(wire') /\ wire'[i - 1] = wire[(i - 1) + 1] /\ (i - 1) + 1 = i
              BY <1>3, <6>2
            <7> QED
              BY <5>1, <7>1
          <6> QED
            BY <6>1, <6>2
        <5> QED
          BY <1>3, <5>1, <5>2 DEF Heard
      <4> QED
        BY <3>2, <4>1 DEF FoldMatches
    <3> QED
      BY <3>1, <3>2
  <2> QED
    BY <1>2, <1>5, <1>7, <2>3, <2>4 DEF S!SnapshotIsServerState
<1> QED
  BY <1>8, <1>9

LEMMA SnapshotSettles == SnapInv /\ S!Settle => SnapInv'
<1> SUFFICES ASSUME SnapInv, S!Settle PROVE SnapInv'
  OBVIOUS
<1> USE DEF SnapInv
<1>1. /\ Heard /\ fetching' = "done" /\ nodes' = Folded(listed, events)
      /\ UNCHANGED <<world, changes, wire, listed, events, asOf>>
  BY ReconcileIsFold DEF S!Settle, Heard
<1>2. ~Heard'
  BY <1>1 DEF Heard
<1>3. SnapTypes' /\ FramesLead' /\ FoldsTraced' /\ FoldMatches'
  BY <1>1, <1>2 DEF SnapTypes, FramesLead, FoldsTraced, FoldMatches
<1>4. S!SnapshotIsServerState'
  BY <1>1 DEF FoldMatches, Matches, S!SnapshotIsServerState
<1> QED
  BY <1>3, <1>4

LEMMA SnapStep == SnapInv /\ S!Next => SnapInv'
<1> SUFFICES ASSUME SnapInv, S!Next PROVE SnapInv'
  OBVIOUS
<1> DEFINE Node == [there : BOOLEAN, attributes : [Attributes -> Nat]]
<1>1. world \in Servers /\ changes \in Nat
  BY DEF SnapInv, SnapTypes
<1>2. PICK next \in Nat : next = changes + 1
  BY <1>1
<1>3. ASSUME NEW n \in Nodes, S!Add(n) PROVE SnapInv'
  <2>1. PICK values \in [Attributes -> Nat] : values = [a \in Attributes |-> next]
    OBVIOUS
  <2>2. PICK node \in Node : node = [there |-> TRUE, attributes |-> values]
    OBVIOUS
  <2>3. S!ChangeTo(n, node) /\ S!Send("node_added", n, values)
    BY <1>2, <1>3, <2>1, <2>2 DEF S!Add
  <2> QED
    BY <1>2, <2>1, <2>2, <2>3, ServerChanges DEF S!Events
<1>4. ASSUME NEW n \in Nodes, S!Remove(n) PROVE SnapInv'
  <2>1. S!ChangeTo(n, S!Gone) /\ S!Send("node_removed", n, S!Gone.attributes)
    BY <1>4 DEF S!Remove
  <2>2. S!Gone \in Node /\ S!Gone.attributes \in [Attributes -> Nat]
    BY GoneNode
  <2> QED
    BY <2>1, <2>2, ServerChanges DEF S!Events
<1>5. ASSUME NEW n \in Nodes, NEW a \in Attributes, S!SetAttribute(n, a) PROVE SnapInv'
  <2>1. PICK old \in Node : old = world[n]
    BY <1>1 DEF Servers
  <2>2. PICK node : node = [old EXCEPT !.attributes[a] = next]
    OBVIOUS
  <2>3. /\ node \in Node /\ node.there = old.there
        /\ node.attributes = [old.attributes EXCEPT ![a] = next]
    BY <2>2
  <2>4. /\ old.there /\ S!ChangeTo(n, node)
        /\ \/ S!Send("node_updated", n, node.attributes)
           \/ S!Send("attribute_updated", n, [S!Gone.attributes EXCEPT ![a] = next])
    BY <1>2, <1>5, <2>1, <2>2 DEF S!SetAttribute
  <2>5. CASE S!Send("node_updated", n, node.attributes)
    BY <2>1, <2>3, <2>4, <2>5, ServerChanges DEF S!Events
  <2>6. CASE S!Send("attribute_updated", n, [S!Gone.attributes EXCEPT ![a] = next])
    <3>1. PICK update : update = [S!Gone.attributes EXCEPT ![a] = next]
      OBVIOUS
    <3>2. /\ update \in [Attributes -> Nat] /\ update[a] = next
          /\ \A b \in Attributes \ {a} : update[b] = 0
      BY <3>1 DEF S!Gone
    <3>3. \A b \in Attributes :
            /\ update[b] # 0 => node.attributes[b] = update[b]
            /\ update[b] = 0 => node.attributes[b] \in {0, world[n].attributes[b]}
      BY <1>2, <2>1, <2>3, <3>2
    <3> QED
      BY <2>3, <2>4, <2>6, <3>1, <3>2, <3>3, ServerChanges DEF S!Events
  <2> QED
    BY <2>4, <2>5, <2>6
<1>6. ASSUME NEW n \in Nodes, NEW a \in Attributes, S!DropAttribute(n, a) PROVE SnapInv'
  <2>1. PICK old \in Node : old = world[n]
    BY <1>1 DEF Servers
  <2>2. PICK node : node = [old EXCEPT !.attributes[a] = 0]
    OBVIOUS
  <2>3. /\ node \in Node /\ node.there = old.there
        /\ node.attributes = [old.attributes EXCEPT ![a] = 0]
    BY <2>2
  <2>4. old.there /\ S!ChangeTo(n, node) /\ S!Send("node_updated", n, node.attributes)
    BY <1>6, <2>1, <2>2 DEF S!DropAttribute
  <2> QED
    BY <2>1, <2>3, <2>4, ServerChanges DEF S!Events
<1>7. CASE S!Subscribe \/ S!Fail
  <2>1. /\ UNCHANGED <<world, changes, wire, listed, events, asOf, nodes>>
        /\ fetching' \in {"subscribed", "failed"} /\ ~Heard'
    BY <1>7 DEF S!Subscribe, S!Fail, Heard
  <2> QED
    BY <2>1 DEF SnapInv, SnapTypes, FramesLead, FoldsTraced, FoldMatches,
                S!SnapshotIsServerState
<1> QED
  BY <1>3, <1>4, <1>5, <1>6, <1>7, AnswerIsSent, FrameIsReceived, SnapshotSettles DEF S!Next

LEMMA SnapStays == SnapInv /\ UNCHANGED snapshotVars => SnapInv'
BY DEF SnapInv, snapshotVars, SnapTypes, FramesLead, FoldsTraced, FoldMatches, Heard,
       S!SnapshotIsServerState

\* The nodes fetch_node_snapshot returns are those the server had when it sent the last frame
\* received, whatever changed while the answer was under way: the events from before the
\* answer, applied over it once more, spoil nothing.
THEOREM FetchedNodesAreTheServers == Spec => []SnapshotIsServerState
<1>1. Init => SnapInv
  BY SnapBegins DEF Init
<1>2. SnapInv /\ [Next]_vars => SnapInv'
  BY SnapStep, SnapStays DEF Next, vars
<1>3. SnapInv => SnapshotIsServerState
  BY DEF SnapInv, SnapshotIsServerState
<1> QED
  BY <1>1, <1>2, <1>3, PTL DEF Spec

-------------------------------------------------------------------------------
(* MatterDiagnostics.                                                      *)

\* D!Batches, D!NoBatch and what a file holds.
Got    == D!Batches \cup {D!NoBatch}
Stored == [run : Nat, batch : Got]

GetTypes ==
    /\ stream \in Nat
    /\ getting \in {"idle", "requesting", "collecting", "collected", "closing", "saving",
                    "unlinking", "reporting", "listed"}
    /\ log \in Seq(D!Batches) /\ cursor \in 0..Len(log)
    /\ latest \in Got /\ saved \in Got /\ collected \subseteq D!Batches
    /\ {final, partial} \subseteq Stored /\ reason.run \in 0..stream
    /\ final.run \in 0..stream /\ partial.run \in 0..stream

\* What is known before the first batch, and of the result as `get` goes on.
GetGoesOn ==
    /\ getting \in {"idle", "requesting"} => latest = D!NoBatch
    /\ getting \in {"idle", "requesting", "listed"} =>
          saved = D!NoBatch /\ collected = {} /\ result = "none"
    /\ getting \in {"collecting", "collected", "saving", "unlinking", "listed"} =>
          latest \in D!Batches
    /\ getting = "closing" /\ result # "unavailable" => latest \in D!Batches
    /\ getting = "collecting" => result = "none"
    /\ getting = "collected" => result \in {"complete", "partial"}
    /\ getting \in {"closing", "reporting"} => result \in {"complete", "partial", "unavailable"}
    /\ getting \in {"saving", "unlinking"} => result = "complete"

\* Nothing consumed is newer than what was accepted last, and this run's checkpoint is the
\* batch saved last, the last one of all when the result is a partial one.
NewestIsLatest ==
    /\ \A b \in collected : b.at <= latest.at
    /\ getting \in {"collecting", "collected"} /\ saved # D!NoBatch =>
          partial = [run |-> stream, batch |-> saved]
    /\ getting \in {"closing", "reporting"} /\ result = "partial" =>
          partial = [run |-> stream, batch |-> latest]

\* What a complete collection and a list have left in the files when they report.
FilesAreWritten ==
    /\ getting \in {"unlinking", "listed"} \/ (getting = "reporting" /\ result = "complete") =>
          final = [run |-> stream, batch |-> latest]
    /\ getting = "reporting" /\ result = "complete" => partial = D!NoFile

\* A command that runs has not reported.
ReportsOnce == getting # "idle" => reason.run < stream

GetInv ==
    GetTypes /\ GetGoesOn /\ NewestIsLatest /\ FilesAreWritten /\ ReportsOnce
    /\ D!OutcomeTellsFiles

LEMMA BatchesAre == /\ D!NoBatch \notin D!Batches /\ D!NoBatch.at = 0
                    /\ \A b \in D!Batches : b.at \in Nat /\ b.at > 0 /\ b.reason \in D!Reasons
BY DEF D!Batches, D!NoBatch

LEMMA FilesAre == D!NoFile \in Stored /\ D!NoFile.run = 0
BY DEF D!NoFile, Stored, Got

LEMMA GetBegins == D!Init => GetInv
BY FilesAre DEF D!Init, D!Fresh, D!NoOutcome, GetInv, GetTypes, GetGoesOn, NewestIsLatest,
   FilesAreWritten, ReportsOnce, D!OutcomeTellsFiles, Got

\* Nothing but the outcome is left to do.
LEMMA GetReports ==
  ASSUME GetInv, getting # "idle", NEW status, NEW b, D!WriteOutcome(status, b),
         UNCHANGED <<final, partial>>,
         status = "complete" => /\ final = [run |-> stream, batch |-> b]
                                /\ partial = D!NoFile,
         status = "listed" => final = [run |-> stream, batch |-> b],
         status = "partial" => partial = [run |-> stream, batch |-> b]
  PROVE  GetInv'
<1>1. /\ reason' = [run |-> stream, status |-> status, batch |-> b] /\ stream' = stream
      /\ getting' = "idle" /\ log' = <<>> /\ cursor' = 0 /\ latest' = D!NoBatch
      /\ saved' = D!NoBatch /\ result' = "none" /\ collected' = {}
  BY DEF D!WriteOutcome, D!End
<1>2. GetTypes'
  BY <1>1 DEF GetInv, GetTypes, Got
<1>3. (GetGoesOn /\ NewestIsLatest /\ FilesAreWritten /\ ReportsOnce)'
  BY <1>1 DEF GetGoesOn, NewestIsLatest, FilesAreWritten, ReportsOnce
<1>4. D!OutcomeTellsFiles'
  BY <1>1 DEF D!OutcomeTellsFiles
<1> QED
  BY <1>2, <1>3, <1>4 DEF GetInv

\* A file of this run replaces what the last outcome told of.
LEMMA OutcomeStands ==
  ASSUME GetInv, getting # "idle", UNCHANGED <<stream, reason>>,
         final' \in Stored, partial' \in Stored,
         final' = final \/ final'.run = stream,
         \/ partial' = partial
         \/ partial'.run = stream
         \/ partial' = D!NoFile /\ final.run = stream
  PROVE  /\ (D!OutcomeTellsFiles)'
         /\ final'.run \in 0..stream /\ partial'.run \in 0..stream
<1>1. reason.run \in Nat /\ stream \in Nat /\ reason.run < stream
  BY DEF GetInv, GetTypes, ReportsOnce
<1>2. final'.run \in 0..stream /\ partial'.run \in 0..stream
  BY <1>1, FilesAre DEF GetInv, GetTypes
<1> QED
  BY <1>1, <1>2 DEF GetInv, D!OutcomeTellsFiles

\* A batch is consumed: the response, or the next event.
LEMMA BatchAccepted ==
  ASSUME GetInv, getting \in {"requesting", "collecting"}, NEW b \in D!Batches, D!Accept(b),
         cursor' \in 0..Len(log)
  PROVE  GetInv'
<1> USE DEF GetInv
<1>1. /\ stream \in Nat /\ latest \in Got /\ saved \in Got /\ result = "none"
      /\ collected \subseteq D!Batches /\ \A c \in collected : c.at <= latest.at
      /\ partial \in Stored /\ final \in Stored
  BY DEF GetTypes, GetGoesOn, NewestIsLatest
<1>2. /\ collected' = collected \cup {b}
      /\ UNCHANGED <<stream, log, failed, final, reason>>
  BY DEF D!Accept
<1>3. CASE D!Newer(b)
  <2>1. latest' = b /\ D!After(b.reason) /\ latest.at <= b.at
    BY <1>1, <1>3, BatchesAre DEF D!Accept, D!Newer, Got
  <2>2. \/ UNCHANGED <<partial, saved>>
        \/ partial' = [run |-> stream, batch |-> b] /\ saved' = b
    BY <1>3 DEF D!Accept, D!Checkpoint
  <2>3. \A c \in collected' : c.at <= latest'.at
    <3>1. b.at \in Nat /\ \A c \in collected : c.at \in Nat /\ latest.at \in Nat
      BY <1>1, BatchesAre DEF Got
    <3> QED
      BY <1>1, <1>2, <2>1, <3>1
  <2>4. /\ getting' \in {"collecting", "collected"}
        /\ getting' = "collecting" => result' = "none"
        /\ getting' = "collected" => result' \in {"complete", "partial"}
    BY <1>1, <2>1 DEF D!After
  <2>5. partial' \in Stored /\ (partial' = partial \/ partial'.run = stream) /\ saved' \in Got
    BY <1>1, <2>2 DEF Stored, Got
  <2>6. D!OutcomeTellsFiles' /\ final'.run \in 0..stream /\ partial'.run \in 0..stream
    BY <1>1, <1>2, <2>5, OutcomeStands
  <2>7. saved' # D!NoBatch => partial' = [run |-> stream, batch |-> saved']
    <3>1. getting = "requesting" => saved = D!NoBatch
      BY DEF GetGoesOn
    <3> QED
      BY <2>2, <3>1 DEF NewestIsLatest
  <2>8. GetTypes'
    BY <1>1, <1>2, <2>1, <2>4, <2>5, <2>6 DEF GetTypes, Got
  <2> QED
    BY <1>2, <2>1, <2>3, <2>4, <2>6, <2>7, <2>8
       DEF GetGoesOn, NewestIsLatest, FilesAreWritten, ReportsOnce
<1>4. CASE ~D!Newer(b)
  <2>1. /\ getting' = "collecting" /\ UNCHANGED <<latest, result, partial, saved>>
        /\ latest \in D!Batches /\ b.at <= latest.at
    BY <1>1, <1>4, BatchesAre DEF D!Accept, D!Newer, Got
  <2>2. GetTypes'
    BY <1>2, <2>1 DEF GetTypes
  <2>3. D!OutcomeTellsFiles'
    BY <1>2, <2>1 DEF D!OutcomeTellsFiles
  <2>4. NewestIsLatest'
    <3>1. getting = "requesting" => saved = D!NoBatch
      BY DEF GetGoesOn
    <3> QED
      BY <1>1, <1>2, <2>1, <3>1 DEF NewestIsLatest
  <2> QED
    BY <1>1, <1>2, <2>1, <2>2, <2>3, <2>4 DEF GetGoesOn, FilesAreWritten, ReportsOnce
<1> QED
  BY <1>3, <1>4

LEMMA GetStep == GetInv /\ D!Next => GetInv'
<1> SUFFICES ASSUME GetInv, D!Next PROVE GetInv'
  OBVIOUS
<1> USE DEF GetInv
<1>1. ASSUME NEW b \in D!Batches, D!Event(b) PROVE GetInv'
  <2>1. /\ log' = Append(log, b) /\ log' \in Seq(D!Batches) /\ cursor \in 0..Len(log')
    BY <1>1 DEF D!Event, GetTypes
  <2> QED
    BY <1>1, <2>1 DEF D!Event, D!files, GetTypes, GetGoesOn, NewestIsLatest, FilesAreWritten,
                      ReportsOnce, D!OutcomeTellsFiles
<1>2. ASSUME NEW b \in D!Batches, D!Respond(b) PROVE GetInv'
  BY <1>2, BatchAccepted DEF D!Respond, GetTypes
<1>3. CASE D!Take
  <2>1. PICK b \in D!Batches : b = log[cursor + 1]
    BY <1>3 DEF D!Take, GetTypes
  <2>2. cursor' \in 0..Len(log)
    BY <1>3 DEF D!Take, GetTypes
  <2> QED
    BY <1>3, <2>1, <2>2, BatchAccepted DEF D!Take
<1>4. CASE D!ReaderFails \/ D!StartGet
  BY <1>4 DEF D!ReaderFails, D!StartGet, D!files, D!session, GetTypes, GetGoesOn,
              NewestIsLatest, FilesAreWritten, ReportsOnce, D!OutcomeTellsFiles
<1>5. CASE D!RespondNothing \/ D!Expire
  BY <1>5 DEF D!RespondNothing, D!Expire, D!files, GetTypes, GetGoesOn,
              NewestIsLatest, FilesAreWritten, ReportsOnce, D!OutcomeTellsFiles
<1>6. CASE D!Collected
  <2>1. /\ getting = "collected" /\ getting' = "closing" /\ result \in {"complete", "partial"}
        /\ UNCHANGED <<stream, log, cursor, failed, latest, result, collected, final, reason>>
        /\ latest \in D!Batches /\ partial \in Stored /\ saved \in Got /\ stream \in Nat
        /\ final \in Stored
    BY <1>6 DEF D!Collected, GetGoesOn, GetTypes
  <2>2. \/ UNCHANGED <<partial, saved>>
        \/ partial' = [run |-> stream, batch |-> latest] /\ saved' = latest
    BY <1>6 DEF D!Collected, D!Checkpoint
  <2>3. result = "partial" => partial' = [run |-> stream, batch |-> latest]
    BY <1>6, <2>1, BatchesAre DEF D!Collected, D!Checkpoint, NewestIsLatest
  <2>4. partial' \in Stored /\ (partial' = partial \/ partial'.run = stream) /\ saved' \in Got
    BY <2>1, <2>2 DEF Stored, Got
  <2>5. D!OutcomeTellsFiles' /\ final'.run \in 0..stream /\ partial'.run \in 0..stream
    BY <2>1, <2>4, OutcomeStands
  <2>6. GetTypes'
    BY <2>1, <2>4, <2>5 DEF GetTypes
  <2> QED
    BY <2>1, <2>3, <2>5, <2>6 DEF GetGoesOn, NewestIsLatest, FilesAreWritten, ReportsOnce
<1>7. CASE D!Fails \/ D!RequestTimeout \/ D!CloseTimeout
  <2>1. PICK status \in {"failed", "timeout"} : D!WriteOutcome(status, D!NoBatch)
    BY <1>7 DEF D!Fails, D!RequestTimeout, D!CloseTimeout
  <2>2. getting # "idle" /\ UNCHANGED <<final, partial>>
    BY <1>7 DEF D!Fails, D!RequestTimeout, D!CloseTimeout
  <2> QED
    BY <2>1, <2>2, GetReports
<1>8. CASE D!Closed
  BY <1>8 DEF D!Closed, D!files, D!session, GetTypes, GetGoesOn,
              NewestIsLatest, FilesAreWritten, ReportsOnce, D!OutcomeTellsFiles
<1>9. CASE D!SaveFinal
  <2>1. /\ getting = "saving" /\ getting' = "unlinking" /\ latest \in D!Batches
        /\ final' = [run |-> stream, batch |-> latest] /\ stream \in Nat
        /\ UNCHANGED <<stream, log, cursor, failed, latest, saved, result, collected>>
        /\ UNCHANGED <<partial, reason>> /\ partial \in Stored
    BY <1>9 DEF D!SaveFinal, D!session, GetTypes, GetGoesOn
  <2>2. final' \in Stored /\ final'.run = stream
    BY <2>1 DEF Stored, Got
  <2>3. D!OutcomeTellsFiles' /\ final'.run \in 0..stream /\ partial'.run \in 0..stream
    BY <2>1, <2>2, OutcomeStands
  <2>4. GetTypes'
    BY <2>1, <2>2, <2>3 DEF GetTypes
  <2> QED
    BY <2>1, <2>3, <2>4 DEF GetGoesOn, NewestIsLatest, FilesAreWritten, ReportsOnce
<1>10. CASE D!UnlinkPartial
  <2>1. /\ getting = "unlinking" /\ getting' = "reporting" /\ partial' = D!NoFile
        /\ UNCHANGED <<stream, log, cursor, failed, latest, saved, result, collected>>
        /\ UNCHANGED <<final, reason>> /\ final \in Stored /\ stream \in Nat
        /\ final = [run |-> stream, batch |-> latest] /\ result = "complete"
    BY <1>10 DEF D!UnlinkPartial, D!session, GetTypes, GetGoesOn, FilesAreWritten
  <2>2. D!OutcomeTellsFiles' /\ final'.run \in 0..stream /\ partial'.run \in 0..stream
    BY <2>1, FilesAre, OutcomeStands
  <2>3. GetTypes'
    BY <2>1, <2>2, FilesAre DEF GetTypes
  <2> QED
    BY <2>1, <2>2, <2>3 DEF GetGoesOn, NewestIsLatest, FilesAreWritten, ReportsOnce
<1>11. CASE D!Report
  <2>1. /\ getting = "reporting" /\ UNCHANGED <<final, partial>>
        /\ D!WriteOutcome(result, latest) /\ result \in {"complete", "partial", "unavailable"}
    BY <1>11 DEF D!Report, GetGoesOn
  <2>2. PICK status, b : status = result /\ b = latest
    OBVIOUS
  <2> QED
    BY <2>1, <2>2, GetReports DEF FilesAreWritten, NewestIsLatest
<1>12. ASSUME NEW first \in D!Batches, NEW second \in D!Batches, D!List(first, second)
       PROVE  GetInv'
  <2>1. PICK b \in D!Batches : b = D!Coalesced(first, second)
    BY DEF D!Coalesced
  <2>2. /\ getting = "idle" /\ getting' = "listed" /\ stream' = stream + 1 /\ stream \in Nat
        /\ final' = [run |-> stream', batch |-> b] /\ latest' = b
        /\ UNCHANGED <<log, cursor, failed, saved, result, collected, partial, reason>>
        /\ reason.run \in 0..stream /\ partial.run \in 0..stream /\ partial \in Stored
    BY <1>12, <2>1 DEF D!List, GetTypes
  <2>3. final' \in Stored /\ final'.run = stream + 1
    BY <2>2 DEF Stored, Got
  <2>4. D!OutcomeTellsFiles'
    BY <2>2, <2>3 DEF D!OutcomeTellsFiles, GetTypes
  <2>5. GetTypes'
    BY <2>2, <2>3 DEF GetTypes, Got
  <2> QED
    BY <2>2, <2>4, <2>5 DEF GetGoesOn, NewestIsLatest, FilesAreWritten, ReportsOnce
<1>13. CASE D!ListFails
  BY <1>13 DEF D!ListFails, D!session, GetTypes, GetGoesOn, NewestIsLatest,
               FilesAreWritten, ReportsOnce, D!OutcomeTellsFiles
<1>14. CASE D!ReportList
  <2>1. getting = "listed" /\ UNCHANGED <<final, partial>> /\ D!WriteOutcome("listed", latest)
    BY <1>14 DEF D!ReportList
  <2>2. PICK b : b = latest
    OBVIOUS
  <2> QED
    BY <2>1, <2>2, GetReports DEF FilesAreWritten
<1>15. CASE D!Stop
  BY <1>15 DEF D!Stop, D!End, D!files, GetTypes, GetGoesOn, NewestIsLatest,
               FilesAreWritten, ReportsOnce, D!OutcomeTellsFiles, Got
<1> QED
  BY <1>1, <1>2, <1>3, <1>4, <1>5, <1>6, <1>7, <1>8, <1>9, <1>10, <1>11, <1>12, <1>13, <1>14,
     <1>15 DEF D!Next, D!Step

LEMMA GetStays == GetInv /\ UNCHANGED diagnosticsVars => GetInv'
BY DEF GetInv, diagnosticsVars, GetTypes, GetGoesOn, NewestIsLatest, FilesAreWritten,
       ReportsOnce, D!OutcomeTellsFiles

LEMMA GetIsSound == GetInv => D!DiagnosticsKept
BY DEF GetInv, GetGoesOn, NewestIsLatest, D!DiagnosticsKept, D!EndsWithNewest

\* A collection of Thread diagnostics ends with the newest batch it was given, in the
\* checkpoint unless it is complete, and the outcome of the last command tells what the
\* files hold, however many commands were killed since.
THEOREM CollectedDiagnosticsAreKept == Spec => []DiagnosticsKept
<1>1. Init => GetInv
  BY GetBegins DEF Init
<1>2. GetInv /\ [Next]_vars => GetInv'
  BY GetStep, GetStays DEF Next, vars
<1>3. GetInv => DiagnosticsKept
  BY GetIsSound DEF DiagnosticsKept
<1> QED
  BY <1>1, <1>2, <1>3, PTL DEF Spec

-------------------------------------------------------------------------------
(* RestSweep.                                                              *)

Refusals == Nat \X {"refused", "identity", "timeout", "lost"}
Statuses == {"none", "completed", "partial", "failed", "skipped", "not_attempted"}
Records == [status : Statuses, errors : SUBSET Refusals, passed : SUBSET (1..2),
            attempts : 0..4]
Rows    == {W!NoItem} \cup UNION {MCAnswers[t] : t \in W!Target}

SweepTypes ==
    /\ phase \in {"discover", "base", "expand", "done"} /\ style \in W!Styles
    /\ discovery \in [sent : Nat, status : {"none", "sent", "completed", "failed", "unresolved"}]
    /\ todo \subseteq W!Target /\ now \in W!Target \cup {W!None}
    /\ pass \in 1..2 /\ tries \in 0..2 /\ sent \in BOOLEAN /\ conflict \subseteq Slots
    /\ record \in [W!Target -> Records]
    /\ items \in [W!Target -> Rows]
    /\ \A t \in W!Target : items[t] # W!NoItem => items[t] \in MCAnswers[t]

\* Where the sweep is: nothing is asked twice, guarded children never, and those of a later
\* phase have no record yet.
Progress ==
    /\ now = W!None => pass = 1 /\ tries = 0 /\ ~sent /\ seen = W!NoSeen
    /\ now # W!None => now \notin todo /\ now \notin Guarded
    /\ ~sent => tries < 2
    /\ phase \in {"discover", "done"} => now = W!None /\ todo = {}
    /\ phase = "base" => todo \subseteq W!Base /\ now \in W!Base \cup {W!None}
    /\ phase = "expand" => todo \subseteq Slots /\ now \in Slots \cup {W!None}
    /\ phase = "discover" => \A t \in W!Target : record[t] = W!NoRecord
    /\ phase \in {"discover", "base"} => \A s \in Slots : record[s] = W!NoRecord
    /\ \A t \in todo : record[t].attempts = 0
    /\ now # W!None => record[now].attempts <= 2 * (pass - 1) + tries

\* A pass that counts has left a row, and nothing completes without a pass.
RowsAreKept ==
    /\ \A t \in W!Target : record[t].passed # {} <=> items[t] # W!NoItem
    /\ \A t \in W!Target : record[t].status = "completed" => record[t].passed # {}
    /\ \A t \in Guarded : record[t].passed = {}
    /\ now \in Slots /\ seen.ext # W!None => items[now] # W!NoItem /\ items[now].ext = seen.ext

\* What may still run was asked of a target that is left, or is what is awaited; a discovery
\* that is to be repeated runs no more.  In the base sweep what may still run has left its
\* error; while the expansion asks, nothing else runs.
ActiveAreAccounted ==
    /\ phase = "discover" =>
          /\ discovery.status \in {"none", "failed"} => active = {}
          /\ \A a, b \in active : a = b
    /\ phase \in {"base", "expand"} =>
          /\ \A a, b \in active : a[1] = b[1] => a = b
          /\ \A a \in active : a[1] \in W!Target /\ a[1] \notin todo
          /\ \A a \in active : now # W!None /\ a[1] = now => sent /\ a = W!This
    /\ phase = "base" => \A a \in active :
          \/ sent /\ a = W!This
          \/ a[1] \in W!Base /\ \E e \in record[a[1]].errors : e[2] \in W!Unresolved
    /\ phase = "expand" =>
          /\ now # W!None => ~stop
          /\ ~stop => active = IF sent THEN {W!This} ELSE {}
    /\ phase = "done" => active = {}

SweepInv ==
    SweepTypes /\ Progress /\ RowsAreKept /\ ActiveAreAccounted /\ W!ExpandedAreIdentified

LEMMA SweepConstants ==
    /\ W!None \notin W!Target /\ Slots \subseteq W!Target /\ W!Base \subseteq W!Target
    /\ Slots \cap W!Base = {} /\ Guarded \subseteq W!Base
    /\ Guarded \cap (Routers \cup Listed) = {} /\ Routers \cup Listed \subseteq W!Base
    /\ W!Target = W!Base \cup Slots
    /\ \A t \in W!Target : \A i \in MCAnswers[t] :
          i # W!NoItem /\ i.table \subseteq {s \in Slots : MCParentOf[s] = i.rloc}
BY CollectorsAssumptions DEF W!SweepAssumption, W!Base, W!Target

LEMMA PassesAre ==
  ASSUME SweepTypes, NEW t PROVE W!Passes(t) \subseteq 1..2
BY DEF SweepTypes, W!Styles, W!Passes

LEMMA CompletedPassed ==
  ASSUME NEW t, NEW p
  PROVE  W!Status(t, p) \in Statuses /\ (W!Status(t, p) = "completed" => p # {})
BY DEF W!Status, Statuses

LEMMA SweepBegins == W!Init => SweepInv
<1> SUFFICES ASSUME W!Init PROVE SweepInv
  OBVIOUS
<1>1. /\ W!NoRecord \in Records /\ W!NoRecord.attempts = 0 /\ W!NoRecord.passed = {}
      /\ W!NoRecord.status = "none"
  BY DEF W!NoRecord, Records, Statuses
<1>2. /\ record = [t \in W!Target |-> W!NoRecord] /\ items = [t \in W!Target |-> W!NoItem]
      /\ now = W!None /\ todo = {} /\ active = {} /\ phase = "discover" /\ style \in W!Styles
      /\ pass = 1 /\ tries = 0 /\ sent = FALSE /\ seen = W!NoSeen /\ conflict = {}
      /\ discovery = [sent |-> 0, status |-> "none"]
  BY DEF W!Init
<1>3. SweepTypes
  <2>1. items \in [W!Target -> Rows] /\ record \in [W!Target -> Records]
    BY <1>1, <1>2 DEF Rows
  <2> QED
    <3>1. \A t \in W!Target : items[t] = W!NoItem
      BY <1>2
    <3>2. todo \subseteq W!Target /\ conflict \subseteq Slots
      BY <1>2
    <3>3. now \in W!Target \cup {W!None}
      BY <1>2
    <3>4. pass \in 1..2 /\ tries \in 0..2
      BY <1>2
    <3>6. sent \in BOOLEAN
      BY <1>2, Zenon
    <3>5. /\ phase \in {"discover", "base", "expand", "done"} /\ style \in W!Styles
          /\ discovery \in [sent : Nat,
                             status : {"none", "sent", "completed", "failed", "unresolved"}]
      BY <1>2
    <3> QED
      BY <2>1, <3>1, <3>2, <3>3, <3>4, <3>5, <3>6 DEF SweepTypes
<1>4. Progress
  BY <1>2, SweepConstants DEF Progress
<1>5. RowsAreKept
  BY <1>1, <1>2, SweepConstants DEF RowsAreKept
<1>6. ActiveAreAccounted
  BY <1>2 DEF ActiveAreAccounted
<1>7. W!ExpandedAreIdentified
  BY <1>2, SweepConstants DEF W!ExpandedAreIdentified, W!Collected
<1> QED
  BY <1>3, <1>4, <1>5, <1>6, <1>7 DEF SweepInv

\* An attempt at `now` is over, with the passes p and the errors es.
AttemptOver(p, es, fixed) ==
    /\ record' \in [W!Target -> Records]
    /\ \A u \in W!Target \ {now} : record'[u] = record[u]
    /\ record'[now].passed = p /\ record'[now].errors = es
    /\ record'[now].attempts = record[now].attempts
    /\ record'[now].status = "completed" => p # {}
    /\ sent' = FALSE
    /\ \/ /\ now' = now /\ pass' = pass + 1 /\ pass' \in 1..2 /\ tries' = 0
          /\ seen' = fixed /\ stop' = stop
       \/ /\ now' = now /\ pass' = pass /\ tries' = tries /\ tries < 2
          /\ seen' = seen /\ fixed = seen /\ stop' = stop
       \/ /\ now' = W!None /\ pass' = 1 /\ tries' = 0 /\ seen' = W!NoSeen
          /\ stop' = (stop \/ (phase = "expand" /\ \E e \in es : e[2] \in W!Unresolved))

LEMMA Leaves ==
  ASSUME SweepInv, sent, NEW p \in SUBSET (1..2), NEW es \in SUBSET Refusals, NEW fixed,
         W!Leave(p, es)
  PROVE  AttemptOver(p, es, fixed) /\ now' = W!None
<1>1. now \in W!Target /\ record \in [W!Target -> Records]
  BY DEF SweepInv, SweepTypes, Progress
<1> DEFINE status == IF W!Legacy(now) /\ p # {} /\ tries > 1 THEN "partial"
                     ELSE W!Status(now, p)
<1>2. record' = [record EXCEPT ![now].status = status, ![now].passed = p, ![now].errors = es]
  BY DEF W!Leave
<1>3. status \in Statuses /\ (status = "completed" => p # {})
  BY CompletedPassed DEF Statuses
<1> HIDE DEF status
<1> DEFINE row == [record[now] EXCEPT !.status = status, !.passed = p, !.errors = es]
<1>4. /\ row \in Records /\ row.status = status /\ row.errors = es /\ row.passed = p
      /\ row.attempts = record[now].attempts
  BY <1>1, <1>3 DEF Records
<1>5. record' = [record EXCEPT ![now] = row]
  BY <1>1, <1>2 DEF Records
<1> HIDE DEF row
<1>6. /\ record' \in [W!Target -> Records] /\ record'[now] = row
      /\ \A u \in W!Target \ {now} : record'[u] = record[u]
  BY <1>1, <1>4, <1>5
<1> QED
  BY <1>3, <1>4, <1>6 DEF W!Leave, AttemptOver

LEMMA TriesAgain ==
  ASSUME SweepInv, sent, NEW es \in SUBSET Refusals, tries < 2, W!Again(es)
  PROVE  AttemptOver(record[now].passed, es, seen)
<1>1. now \in W!Target /\ record \in [W!Target -> Records]
  BY DEF SweepInv, SweepTypes, Progress
<1> DEFINE row == [record[now] EXCEPT !.errors = es]
<1>2. /\ row \in Records /\ row.status = record[now].status /\ row.errors = es
      /\ row.passed = record[now].passed /\ row.attempts = record[now].attempts
  BY <1>1 DEF Records
<1>3. record' = [record EXCEPT ![now] = row]
  BY <1>1 DEF W!Again, Records
<1> HIDE DEF row
<1>4. /\ record' \in [W!Target -> Records] /\ record'[now] = row
      /\ \A u \in W!Target \ {now} : record'[u] = record[u]
  BY <1>1, <1>2, <1>3
<1> QED
  BY <1>1, <1>2, <1>4 DEF W!Again, AttemptOver, SweepInv, RowsAreKept

LEMMA PassesOn ==
  ASSUME SweepInv, sent, NEW p \in SUBSET (1..2), NEW es \in SUBSET Refusals, NEW fixed,
         record[now].passed \subseteq p, W!NextPass(p, es, fixed)
  PROVE  AttemptOver(p, es, fixed)
<1>1. now \in W!Target /\ record \in [W!Target -> Records] /\ pass \in 1..2
  BY DEF SweepInv, SweepTypes, Progress
<1>2. CASE pass + 1 \notin W!Passes(now)
  BY <1>2, Leaves DEF W!NextPass
<1>3. CASE pass + 1 \in W!Passes(now)
  <2> DEFINE row == [record[now] EXCEPT !.passed = p, !.errors = es]
  <2>1. /\ row \in Records /\ row.status = record[now].status /\ row.errors = es
        /\ row.passed = p /\ row.attempts = record[now].attempts
    BY <1>1 DEF Records
  <2>2. record' = [record EXCEPT ![now].passed = p, ![now].errors = es]
    BY <1>3 DEF W!NextPass
  <2>3. record' = [record EXCEPT ![now] = row]
    BY <1>1, <2>2 DEF Records
  <2> HIDE DEF row
  <2>4. /\ record' \in [W!Target -> Records] /\ record'[now] = row
        /\ \A u \in W!Target \ {now} : record'[u] = record[u]
    BY <1>1, <2>1, <2>3
  <2>5. pass + 1 \in 1..2
    BY <1>3, PassesAre DEF SweepInv
  <2> QED
    BY <1>1, <1>3, <2>1, <2>4, <2>5 DEF W!NextPass, AttemptOver, SweepInv, RowsAreKept
<1> QED
  BY <1>2, <1>3

\* What becomes of the rows, and of the action that was awaited.
RowTaken(p, fixed) ==
    \/ items' = items /\ p = record[now].passed /\ fixed = seen
    \/ /\ p # {} /\ record[now].passed \subseteq p
       /\ \E i \in MCAnswers[now] :
             W!Identifies(i) /\ items' = [items EXCEPT ![now] = i] /\ fixed.ext = i.ext
ActionOver(es) ==
    \/ active' = active \ {W!This}
    \/ active' = active /\ now' = W!None /\ \E e \in es : e[2] \in W!Unresolved

\* The step that ends an attempt, with p, es and fixed.
Ends(p, es, fixed) ==
    /\ AttemptOver(p, es, fixed) /\ RowTaken(p, fixed) /\ ActionOver(es)
    /\ UNCHANGED <<phase, style, discovery, todo, conflict>>

LEMMA AskedNow ==
  ASSUME SweepInv, sent
  PROVE  /\ now # W!None /\ now \in W!Target /\ now \notin todo /\ now \notin Guarded
         /\ phase \in {"base", "expand"} /\ W!This[1] = now
BY DEF SweepInv, SweepTypes, Progress, W!This

LEMMA EndTyped ==
  ASSUME SweepInv, sent, NEW p \in SUBSET (1..2), NEW es, NEW fixed, Ends(p, es, fixed)
  PROVE  /\ SweepTypes' /\ W!NoItem \notin MCAnswers[now]
         /\ \A u \in W!Target \ {now} : items'[u] = items[u]
<1> USE AskedNow DEF SweepInv, Ends
<1>1. /\ pass' \in 1..2 /\ tries' \in 0..2 /\ sent' = FALSE /\ now' \in W!Target \cup {W!None}
      /\ record' \in [W!Target -> Records]
      /\ phase' = phase /\ style' = style /\ todo' = todo /\ conflict' = conflict
      /\ discovery' = discovery
  BY DEF AttemptOver, SweepTypes
<1>2. /\ items' \in [W!Target -> Rows] /\ \A u \in W!Target \ {now} : items'[u] = items[u]
      /\ items' = items \/ items'[now] \in MCAnswers[now]
  BY DEF RowTaken, SweepTypes, Rows
<1>3. \A t \in W!Target : items'[t] # W!NoItem => items'[t] \in MCAnswers[t]
  BY <1>2 DEF SweepTypes
<1>4. sent' \in BOOLEAN
  BY <1>1, Zenon
<1> QED
  BY <1>1, <1>2, <1>3, <1>4, SweepConstants DEF SweepTypes

LEMMA EndProgress ==
  ASSUME SweepInv, sent, NEW p \in SUBSET (1..2), NEW es, NEW fixed, Ends(p, es, fixed)
  PROVE  Progress'
<1> USE AskedNow, EndTyped DEF Ends
<1>1. Progress /\ SweepTypes
  BY DEF SweepInv
<1>2. now' \in {now, W!None} /\ sent' = FALSE
  BY DEF AttemptOver
<1>3. /\ now' = W!None => pass' = 1 /\ tries' = 0 /\ seen' = W!NoSeen
      /\ tries' < 2
  BY DEF AttemptOver
<1>4. now' # W!None => record'[now'].attempts <= 2 * (pass' - 1) + tries'
  <2>1. /\ record[now].attempts <= 2 * (pass - 1) + tries
        /\ record[now].attempts \in Nat /\ pass \in 1..2 /\ tries \in 0..2
    BY <1>1 DEF Progress, SweepTypes, Records
  <2> QED
    BY <2>1 DEF AttemptOver
<1>5. phase = "base" => \A s \in Slots : record'[s] = W!NoRecord
  BY <1>1, SweepConstants DEF Progress, AttemptOver
<1>6. \A t \in todo : record'[t].attempts = 0
  BY <1>1 DEF Progress, AttemptOver, SweepTypes
<1> QED
  BY <1>1, <1>2, <1>3, <1>4, <1>5, <1>6 DEF Progress

LEMMA EndRows ==
  ASSUME SweepInv, sent, NEW p \in SUBSET (1..2), NEW es, NEW fixed, Ends(p, es, fixed)
  PROVE  RowsAreKept'
<1> USE AskedNow, EndTyped DEF Ends
<1>1. RowsAreKept
  BY DEF SweepInv
<1>2. \A u \in W!Target \ {now} : record'[u] = record[u] /\ items'[u] = items[u]
  BY DEF AttemptOver
<1>3. /\ record'[now].passed # {} <=> items'[now] # W!NoItem
      /\ record'[now].status = "completed" => record'[now].passed # {}
  <2>1. CASE items' = items /\ p = record[now].passed
    BY <1>1, <2>1 DEF RowsAreKept, AttemptOver
  <2>2. CASE p # {} /\ \E i \in MCAnswers[now] : items' = [items EXCEPT ![now] = i]
    <3>1. items'[now] \in MCAnswers[now]
      BY <2>2 DEF SweepInv, SweepTypes
    <3> QED
      BY <2>2, <3>1 DEF AttemptOver
  <2> QED
    BY <2>1, <2>2 DEF RowTaken
<1>4. \A t \in Guarded : record'[t].passed = {}
  BY <1>1, <1>2, SweepConstants DEF RowsAreKept
<1>5. now' \in Slots /\ seen'.ext # W!None =>
         items'[now'] # W!NoItem /\ items'[now'].ext = seen'.ext
  <2> SUFFICES ASSUME now' \in Slots, seen'.ext # W!None
               PROVE  items'[now'] # W!NoItem /\ items'[now'].ext = seen'.ext
    OBVIOUS
  <2>1. now' = now /\ seen' = fixed
    BY SweepConstants DEF AttemptOver
  <2>2. CASE items' = items /\ fixed = seen
    BY <1>1, <2>1, <2>2 DEF RowsAreKept
  <2>3. CASE \E i \in MCAnswers[now] : items' = [items EXCEPT ![now] = i] /\ fixed.ext = i.ext
    BY <2>1, <2>3 DEF SweepInv, SweepTypes
  <2> QED
    BY <2>2, <2>3 DEF RowTaken
<1> QED
  BY <1>1, <1>2, <1>3, <1>4, <1>5 DEF RowsAreKept

LEMMA EndActive ==
  ASSUME SweepInv, sent, NEW p \in SUBSET (1..2), NEW es, NEW fixed, Ends(p, es, fixed)
  PROVE  ActiveAreAccounted'
<1> USE AskedNow DEF Ends
<1>1. ActiveAreAccounted /\ Progress
  BY DEF SweepInv
<1>2. now' \in {now, W!None} /\ sent' = FALSE
  BY DEF AttemptOver
<1>3. active' \subseteq active /\ \A a \in active : a[1] = now => a = W!This
  BY <1>1 DEF ActiveAreAccounted, ActionOver
<1>4. \A a \in active' : now' # W!None => a[1] # now'
  BY <1>2, <1>3 DEF ActionOver
<1>5. ASSUME phase = "base", NEW a \in active'
      PROVE  a[1] \in W!Base /\ \E e \in record'[a[1]].errors : e[2] \in W!Unresolved
  <2>1. CASE a[1] = now
    <3>1. a = W!This /\ \E e \in es : e[2] \in W!Unresolved
      BY <1>3, <1>5, <2>1 DEF ActionOver
    <3> QED
      BY <1>1, <1>5, <2>1, <3>1 DEF AttemptOver, Progress
  <2>2. CASE a[1] # now
    <3>1. a[1] \in W!Base /\ \E e \in record[a[1]].errors : e[2] \in W!Unresolved
      BY <1>1, <1>3, <1>5, <2>2 DEF ActiveAreAccounted
    <3> QED
      BY <2>2, <3>1, SweepConstants DEF AttemptOver
  <2> QED
    BY <2>1, <2>2
<1>6. ASSUME phase = "expand"
      PROVE  (now' # W!None => ~stop') /\ (~stop' => active' = {})
  <2>1. ~stop /\ active = {W!This}
    BY <1>1, <1>6 DEF ActiveAreAccounted
  <2>2. now' = W!None /\ (\E e \in es : e[2] \in W!Unresolved) => stop'
    BY <1>6, <2>1 DEF AttemptOver
  <2> QED
    BY <2>1, <2>2 DEF AttemptOver, ActionOver
<1>7. phase' = phase /\ todo' = todo
  OBVIOUS
<1> QED
  BY <1>1, <1>2, <1>3, <1>4, <1>5, <1>6, <1>7 DEF ActiveAreAccounted

LEMMA EndIdentified ==
  ASSUME SweepInv, sent, NEW p \in SUBSET (1..2), NEW es, NEW fixed, Ends(p, es, fixed)
  PROVE  W!ExpandedAreIdentified'
<1> USE AskedNow, EndTyped DEF Ends
<1>1. W!ExpandedAreIdentified /\ RowsAreKept /\ SweepTypes
  BY DEF SweepInv
<1>2. CASE items' = items
  BY <1>1, <1>2 DEF W!ExpandedAreIdentified, W!Collected
<1>3. ASSUME NEW i \in MCAnswers[now], W!Identifies(i), items' = [items EXCEPT ![now] = i]
      PROVE  W!ExpandedAreIdentified'
  <2>1. /\ items'[now] = i /\ i # W!NoItem /\ \A u \in W!Target \ {now} : items'[u] = items[u]
    BY <1>1, <1>3 DEF SweepTypes
  <2>2. W!Collected' = W!Collected \cup {now}
    BY <2>1 DEF W!Collected
  <2>3. CASE phase = "base"
    <3>1. Slots \cap W!Collected' = {}
      <4>1. \A s \in Slots : s # now /\ record[s].passed = {}
        BY <2>3, SweepConstants DEF SweepInv, Progress, W!NoRecord
      <4> QED
        BY <1>1, <2>1, <4>1, SweepConstants DEF RowsAreKept, W!Collected
    <3> QED
      BY <3>1 DEF W!ExpandedAreIdentified
  <2>4. CASE phase = "expand"
    <3>1. now \in Slots /\ now \notin Listed
      BY <2>4, SweepConstants DEF SweepInv, Progress
    <3>2. /\ i.ext # W!None /\ i.rloc = now
          /\ IF seen.ext # W!None THEN i.ext = seen.ext
             ELSE \A t \in W!Collected : items[t].ext # i.ext
      BY <1>3, <3>1 DEF W!Identifies
    <3>3. \A t \in W!Collected \ {now} : items[t].ext # i.ext
      <4>1. CASE seen.ext # W!None
        BY <1>1, <3>1, <3>2, <4>1, SweepConstants
           DEF RowsAreKept, W!Collected, W!ExpandedAreIdentified
      <4> QED
        BY <3>2, <4>1
    <3> QED
      BY <1>1, <2>1, <2>2, <3>2, <3>3, SweepConstants DEF W!ExpandedAreIdentified, W!Collected
  <2> QED
    BY <2>3, <2>4
<1> QED
  BY <1>2, <1>3 DEF RowTaken

\* However an attempt ends, the sweep stays sound.
LEMMA AttemptsEnd ==
  ASSUME SweepInv, sent, NEW p \in SUBSET (1..2), NEW es, NEW fixed, Ends(p, es, fixed)
  PROVE  SweepInv'
BY EndTyped, EndProgress, EndRows, EndActive, EndIdentified DEF SweepInv

LEMMA ErrorsAre ==
  ASSUME SweepInv, sent, NEW kind \in {"refused", "identity", "timeout", "lost"}
  PROVE  /\ W!Errors(kind) \in SUBSET Refusals /\ <<pass, kind>> \in W!Errors(kind)
         /\ record[now].errors \in SUBSET Refusals /\ record[now].passed \in SUBSET (1..2)
<1>1. record[now] \in Records /\ pass \in Nat
  BY AskedNow DEF SweepInv, SweepTypes
<1> QED
  BY <1>1 DEF W!Errors, Refusals, Records

LEMMA SweepAnswered == SweepInv /\ W!Answered => SweepInv'
<1> SUFFICES ASSUME SweepInv, W!Answered PROVE SweepInv'
  OBVIOUS
<1>1. /\ sent /\ UNCHANGED <<phase, style, discovery, todo, conflict>>
      /\ active' = active \ {W!This}
  BY DEF W!Answered
<1>2. PICK i \in MCAnswers[now] :
        IF W!Identifies(i)
        THEN /\ items' = [items EXCEPT ![now] = i]
             /\ W!NextPass(record[now].passed \cup {pass}, record[now].errors,
                           [ext |-> i.ext, rloc |-> IF seen.rloc = W!None THEN i.rloc
                                                    ELSE seen.rloc])
        ELSE items' = items
             /\ W!NextPass(record[now].passed, W!Errors("identity"), seen)
  BY DEF W!Answered
<1>3. PICK passed \in SUBSET (1..2) : passed = record[now].passed
  BY <1>1, ErrorsAre
<1>4. CASE W!Identifies(i)
  <2>1. PICK p \in SUBSET (1..2) : p = passed \cup {pass}
    BY DEF SweepInv, SweepTypes
  <2>2. PICK es \in SUBSET Refusals : es = record[now].errors
    BY <1>1, ErrorsAre
  <2>3. PICK fixed : fixed = [ext |-> i.ext, rloc |-> IF seen.rloc = W!None THEN i.rloc
                                                      ELSE seen.rloc]
    OBVIOUS
  <2>4. W!NextPass(p, es, fixed) /\ items' = [items EXCEPT ![now] = i] /\ fixed.ext = i.ext
    BY <1>2, <1>3, <1>4, <2>1, <2>2, <2>3
  <2>5. AttemptOver(p, es, fixed)
    BY <1>1, <1>3, <2>1, <2>4, PassesOn
  <2>6. RowTaken(p, fixed) /\ ActionOver(es)
    BY <1>1, <1>3, <1>4, <2>1, <2>4 DEF RowTaken, ActionOver
  <2> QED
    BY <1>1, <2>5, <2>6, AttemptsEnd DEF Ends
<1>5. CASE ~W!Identifies(i)
  <2>1. PICK es \in SUBSET Refusals : es = W!Errors("identity")
    BY <1>1, ErrorsAre
  <2>2. PICK fixed : fixed = seen
    OBVIOUS
  <2>3. W!NextPass(passed, es, fixed) /\ items' = items
    BY <1>2, <1>3, <1>5, <2>1, <2>2
  <2>4. AttemptOver(passed, es, fixed)
    BY <1>1, <1>3, <2>3, PassesOn
  <2>5. RowTaken(passed, fixed) /\ ActionOver(es)
    BY <1>1, <1>3, <2>2, <2>3 DEF RowTaken, ActionOver
  <2> QED
    BY <1>1, <2>4, <2>5, AttemptsEnd DEF Ends
<1> QED
  BY <1>4, <1>5

LEMMA SweepUnanswered == SweepInv /\ (W!Refused \/ W!GiveUp) => SweepInv'
<1> SUFFICES ASSUME SweepInv, W!Refused \/ W!GiveUp PROVE SweepInv'
  OBVIOUS
<1>1. sent /\ UNCHANGED <<phase, style, discovery, todo, conflict>> /\ items' = items
  BY DEF W!Refused, W!GiveUp
<1>2. PICK passed \in SUBSET (1..2) : passed = record[now].passed
  BY <1>1, ErrorsAre
<1>3. PICK fixed : fixed = seen
  OBVIOUS
<1>4. CASE W!Refused
  <2>1. PICK es \in SUBSET Refusals : es = W!Errors("refused")
    BY <1>1, ErrorsAre
  <2>2. AttemptOver(passed, es, fixed)
    <3>1. CASE tries < 2
      <4>1. W!Again(es)
        BY <1>4, <2>1, <3>1 DEF W!Refused, W!MaxTries
      <4> QED
        BY <1>1, <1>2, <1>3, <3>1, <4>1, TriesAgain
    <3>2. CASE ~(tries < 2)
      <4>1. W!NextPass(passed, es, fixed)
        BY <1>2, <1>3, <1>4, <2>1, <3>2 DEF W!Refused, W!MaxTries
      <4> QED
        BY <1>1, <1>2, <4>1, PassesOn
    <3> QED
      BY <3>1, <3>2
  <2>3. RowTaken(passed, fixed) /\ ActionOver(es)
    BY <1>1, <1>2, <1>3, <1>4 DEF RowTaken, ActionOver, W!Refused
  <2> QED
    BY <1>1, <2>2, <2>3, AttemptsEnd DEF Ends
<1>5. CASE W!GiveUp
  <2>1. PICK kind \in W!Unresolved : W!Leave(passed, W!Errors(kind))
    BY <1>2, <1>5 DEF W!GiveUp
  <2>2. PICK es \in SUBSET Refusals : es = W!Errors(kind) /\ \E e \in es : e[2] \in W!Unresolved
    <3>1. <<pass, kind>> \in W!Errors(kind) /\ W!Errors(kind) \in SUBSET Refusals
      BY <1>1, ErrorsAre DEF W!Unresolved
    <3>2. <<pass, kind>>[2] = kind
      OBVIOUS
    <3> QED
      BY <3>1, <3>2
  <2>3. AttemptOver(passed, es, fixed) /\ now' = W!None
    BY <1>1, <2>1, <2>2, Leaves
  <2>4. RowTaken(passed, fixed) /\ ActionOver(es)
    BY <1>1, <1>2, <1>3, <1>5, <2>2, <2>3 DEF RowTaken, ActionOver, W!GiveUp
  <2> QED
    BY <1>1, <2>3, <2>4, AttemptsEnd DEF Ends
<1> QED
  BY <1>4, <1>5

\* The steps that ask, discover or go on to the next phase leave the rows as they are.
LEMMA RowsStay ==
  ASSUME SweepInv, UNCHANGED items
  PROVE  W!ExpandedAreIdentified'
BY DEF SweepInv, W!ExpandedAreIdentified, W!Collected

LEMMA SweepDiscovers == SweepInv /\ (W!SendDiscovery \/ W!DiscoveryEnds) => SweepInv'
<1> SUFFICES ASSUME SweepInv, W!SendDiscovery \/ W!DiscoveryEnds PROVE SweepInv'
  OBVIOUS
<1> USE DEF SweepInv
<1>1. /\ phase = "discover" /\ UNCHANGED <<phase, style, todo, now, pass, tries, sent, seen>>
      /\ UNCHANGED <<record, items, conflict, stop>>
  BY DEF W!SendDiscovery, W!DiscoveryEnds, W!progress
<1>2. SweepTypes'
  <2>1. discovery' \in [sent : Nat, status : {"none", "sent", "completed", "failed", "unresolved"}]
    BY DEF W!SendDiscovery, W!DiscoveryEnds, SweepTypes
  <2> QED
    BY <1>1, <2>1 DEF SweepTypes
<1>3. Progress'
  BY <1>1 DEF Progress
<1>4. RowsAreKept'
  BY <1>1 DEF RowsAreKept
<1>5. ActiveAreAccounted'
  <2>1. CASE W!SendDiscovery
    <3>1. active = {} /\ discovery'.status = "sent"
      BY <1>1, <2>1 DEF W!SendDiscovery, ActiveAreAccounted
    <3>2. active' = {<<"discovery", 0, discovery.sent + 1>>}
      BY <2>1, <3>1 DEF W!SendDiscovery
    <3> QED
      BY <1>1, <3>1, <3>2 DEF ActiveAreAccounted
  <2>2. CASE W!DiscoveryEnds
    <3>1. active' = {} \/ (active' = active /\ discovery'.status \notin {"none", "failed"})
      BY <2>2 DEF W!DiscoveryEnds, SweepTypes
    <3> QED
      BY <1>1, <3>1 DEF ActiveAreAccounted
  <2> QED
    BY <2>1, <2>2
<1> QED
  BY <1>1, <1>2, <1>3, <1>4, <1>5, RowsStay

LEMMA SweepTakes == SweepInv /\ W!Take => SweepInv'
<1> SUFFICES ASSUME SweepInv, W!Take PROVE SweepInv'
  OBVIOUS
<1> USE DEF SweepInv
<1>1. PICK t \in todo : t = CHOOSE x \in todo : TRUE
  BY DEF W!Take
<1>2. /\ phase \in {"base", "expand"} /\ now = W!None /\ todo' = todo \ {t}
      /\ UNCHANGED <<phase, style, discovery, pass, tries, sent, seen>>
      /\ UNCHANGED <<items, conflict, stop, active>>
  BY <1>1 DEF W!Take, W!progress
<1>3. /\ t \in W!Target /\ t # W!None /\ ~sent /\ pass = 1 /\ tries = 0 /\ seen = W!NoSeen
      /\ record[t].attempts = 0 /\ record \in [W!Target -> Records]
  BY <1>1, <1>2, SweepConstants DEF SweepTypes, Progress
<1>4. CASE \E status \in {"not_attempted", "skipped"} :
               record' = [record EXCEPT ![t].status = status] /\ now' = now
  <2>1. PICK status \in {"not_attempted", "skipped"} :
               record' = [record EXCEPT ![t].status = status] /\ now' = now
    BY <1>4
  <2> DEFINE row == [record[t] EXCEPT !.status = status]
  <2>2. /\ row \in Records /\ row.status = status /\ row.errors = record[t].errors
        /\ row.passed = record[t].passed /\ row.attempts = record[t].attempts
    BY <1>3 DEF Records, Statuses
  <2>3. record' = [record EXCEPT ![t] = row]
    BY <1>3, <2>1 DEF Records
  <2> HIDE DEF row
  <2>4. /\ record' \in [W!Target -> Records] /\ record'[t] = row
        /\ \A u \in W!Target \ {t} : record'[u] = record[u]
    BY <1>3, <2>2, <2>3
  <2>5. SweepTypes'
    BY <1>2, <2>1, <2>4 DEF SweepTypes
  <2>6. Progress'
    <3>1. phase = "base" => t \notin Slots
      BY <1>1, SweepConstants DEF Progress
    <3> QED
      BY <1>2, <1>3, <2>1, <2>2, <2>4, <3>1, SweepConstants DEF Progress, SweepTypes
  <2>7. RowsAreKept'
    BY <1>2, <2>1, <2>2, <2>4, SweepConstants DEF RowsAreKept
  <2>8. ActiveAreAccounted'
    <3>1. \A u \in W!Target : record'[u].errors = record[u].errors
      BY <2>2, <2>4
    <3> QED
      BY <1>2, <2>1, <3>1, SweepConstants DEF ActiveAreAccounted, W!This
  <2> QED
    BY <1>2, <2>5, <2>6, <2>7, <2>8, RowsStay
<1>5. CASE t \notin Guarded /\ ~(phase = "expand" /\ stop) /\ now' = t /\ record' = record
  <2>1. SweepTypes'
    BY <1>2, <1>3, <1>5 DEF SweepTypes
  <2>2. Progress'
    BY <1>1, <1>2, <1>3, <1>5 DEF Progress
  <2>3. RowsAreKept'
    BY <1>2, <1>3, <1>5 DEF RowsAreKept, W!NoSeen
  <2>4. ActiveAreAccounted'
    <3>1. \A a \in active : a[1] # t
      BY <1>1, <1>2 DEF ActiveAreAccounted
    <3> QED
      BY <1>2, <1>3, <1>5, <3>1 DEF ActiveAreAccounted
  <2> QED
    BY <1>2, <2>1, <2>2, <2>3, <2>4, RowsStay
<1> QED
  BY <1>1, <1>4, <1>5 DEF W!Take

LEMMA SweepSends == SweepInv /\ W!Send => SweepInv'
<1> SUFFICES ASSUME SweepInv, W!Send PROVE SweepInv'
  OBVIOUS
<1> USE DEF SweepInv
<1>1. /\ now # W!None /\ ~sent /\ sent' = TRUE /\ tries' = tries + 1
      /\ active' = active \cup {<<now, pass, tries + 1>>}
      /\ record' = [record EXCEPT ![now].attempts = @ + 1]
      /\ UNCHANGED <<phase, style, discovery, todo, now, pass, seen, items, conflict, stop>>
  BY DEF W!Send
<1>2. /\ now \in W!Target /\ now \notin todo /\ now \notin Guarded /\ tries \in 0..1
      /\ pass \in 1..2 /\ phase \in {"base", "expand"}
      /\ record \in [W!Target -> Records] /\ record[now].attempts <= 2 * (pass - 1) + tries
  BY <1>1 DEF SweepTypes, Progress
<1> DEFINE row == [record[now] EXCEPT !.attempts = record[now].attempts + 1]
<1>3. record[now] \in Records /\ record[now].attempts \in 0..3
  BY <1>2 DEF Records
<1>4. /\ row \in Records /\ row.status = record[now].status /\ row.errors = record[now].errors
      /\ row.passed = record[now].passed /\ row.attempts = record[now].attempts + 1
  BY <1>3 DEF Records
<1>5. record' = [record EXCEPT ![now] = row]
  BY <1>1, <1>2 DEF Records
<1> HIDE DEF row
<1>6. /\ record' \in [W!Target -> Records] /\ record'[now] = row
      /\ \A u \in W!Target \ {now} : record'[u] = record[u]
  BY <1>2, <1>4, <1>5
<1>7. SweepTypes'
  <2>1. sent' \in BOOLEAN
    BY <1>1, Zenon
  <2> QED
    BY <1>1, <1>2, <1>6, <2>1 DEF SweepTypes
<1>8. Progress'
  <2>1. phase = "base" => now \notin Slots
    BY <1>1, SweepConstants DEF Progress
  <2>2. record'[now].attempts <= 2 * (pass - 1) + tries + 1
    BY <1>2, <1>3, <1>4, <1>6
  <2>3. \A t \in todo : record'[t].attempts = 0
    BY <1>2, <1>6 DEF Progress, SweepTypes
  <2>4. phase = "base" => \A s \in Slots : record'[s] = W!NoRecord
    BY <1>6, <2>1, SweepConstants DEF Progress
  <2> QED
    BY <1>1, <1>2, <2>2, <2>3, <2>4 DEF Progress
<1>9. RowsAreKept'
  BY <1>1, <1>4, <1>6, SweepConstants DEF RowsAreKept
<1>10. ActiveAreAccounted'
  <2>1. \A a \in active : a[1] # now
    BY <1>1, <1>2 DEF ActiveAreAccounted
  <2>2. W!This' = <<now, pass, tries + 1>> /\ (W!This')[1] = now
    BY <1>1 DEF W!This
  <2>3. active' = active \cup {W!This'}
    BY <1>1, <2>2
  <2>4. \A u \in W!Target : record'[u].errors = record[u].errors
    BY <1>4, <1>6
  <2> QED
    BY <1>1, <1>2, <2>1, <2>2, <2>3, <2>4, SweepConstants DEF ActiveAreAccounted
<1> QED
  BY <1>1, <1>7, <1>8, <1>9, <1>10, RowsStay

\* The children named in the tables of the base sweep.
LEMMA EntriesAreSlots == SweepInv => W!Entries \subseteq Slots
BY SweepConstants DEF SweepInv, SweepTypes, W!Entries, W!Parents, W!Heard, W!Collected

LEMMA SweepGoesOn == SweepInv /\ (W!StartSweep \/ W!Expand \/ W!Finish) => SweepInv'
<1> SUFFICES ASSUME SweepInv, W!StartSweep \/ W!Expand \/ W!Finish PROVE SweepInv'
  OBVIOUS
<1> USE DEF SweepInv
<1>1. /\ now = W!None /\ UNCHANGED <<style, now, pass, tries, sent, seen, record, items>>
      /\ pass = 1 /\ tries = 0 /\ ~sent /\ seen = W!NoSeen
  BY DEF W!StartSweep, W!Expand, W!Finish, W!progress, Progress
<1>2. RowsAreKept'
  BY <1>1 DEF RowsAreKept
<1>3. CASE W!StartSweep
  <2>1. /\ phase = "discover" /\ phase' = "base" /\ todo' = W!Base /\ active' = {}
        /\ UNCHANGED conflict /\ discovery' = [sent |-> 0, status |-> "none"]
    BY <1>3 DEF W!StartSweep
  <2>2. SweepTypes'
    BY <1>1, <2>1, SweepConstants DEF SweepTypes
  <2>3. Progress'
    BY <1>1, <2>1, SweepConstants DEF Progress, W!NoRecord
  <2>4. ActiveAreAccounted'
    BY <2>1 DEF ActiveAreAccounted
  <2> QED
    BY <1>1, <1>2, <2>2, <2>3, <2>4, RowsStay
<1>4. CASE W!Expand
  <2>1. /\ phase = "base" /\ phase' = "expand" /\ todo = {} /\ todo' \subseteq Slots
        /\ conflict' \subseteq Slots /\ stop' = W!BaseUnresolved /\ active' = active
        /\ UNCHANGED discovery
    BY <1>4, EntriesAreSlots DEF W!Expand
  <2>2. SweepTypes'
    BY <1>1, <2>1, SweepConstants DEF SweepTypes
  <2>3. Progress'
    BY <1>1, <2>1, SweepConstants DEF Progress, W!NoRecord
  <2>4. ActiveAreAccounted'
    <3>1. \A a \in active : a[1] \in W!Base /\ \E e \in record[a[1]].errors : e[2] \in W!Unresolved
      BY <1>1, <2>1 DEF ActiveAreAccounted
    <3>2. active # {} => stop'
      BY <2>1, <3>1 DEF W!BaseUnresolved
    <3>3. \A a \in active : a[1] \notin todo'
      BY <2>1, <3>1, SweepConstants
    <3> QED
      BY <1>1, <2>1, <3>1, <3>2, <3>3, SweepConstants DEF ActiveAreAccounted
  <2> QED
    BY <1>1, <1>2, <2>2, <2>3, <2>4, RowsStay
<1>5. CASE W!Finish
  <2>1. /\ phase' = "done" /\ todo = {} /\ active' = {}
        /\ UNCHANGED <<todo, conflict, discovery>>
    BY <1>5 DEF W!Finish
  <2>2. SweepTypes'
    BY <1>1, <2>1 DEF SweepTypes
  <2>3. Progress'
    BY <1>1, <2>1 DEF Progress
  <2>4. ActiveAreAccounted'
    BY <2>1 DEF ActiveAreAccounted
  <2> QED
    BY <1>1, <1>2, <2>2, <2>3, <2>4, RowsStay
<1> QED
  BY <1>3, <1>4, <1>5

LEMMA SweepStep == SweepInv /\ W!Next => SweepInv'
BY SweepAnswered, SweepUnanswered, SweepDiscovers, SweepTakes, SweepSends, SweepGoesOn
   DEF W!Next

LEMMA SweepStays == SweepInv /\ UNCHANGED sweepVars => SweepInv'
BY DEF SweepInv, sweepVars, SweepTypes, Progress, RowsAreKept, ActiveAreAccounted,
       W!ExpandedAreIdentified, W!Collected, W!This

\* What the outcome of a complete sweep says of a target was heard: a record that is complete
\* has a row, and what recovers another one is a row of its own.
LEMMA NothingIsHidden == SweepInv => W!CompleteMeansHeard
<1> SUFFICES ASSUME SweepInv, ~W!EffectivelyPartial
             PROVE  /\ \A d \in Routers \cup Listed : d \in W!Collected
                    /\ \A d \in Guarded : \E t \in W!Collected : items[t].ext = d
                    /\ \A b \in W!Heard : \A s \in items[b].table :
                          \E t \in W!Collected : items[t].rloc = s
  BY DEF W!CompleteMeansHeard
<1> USE DEF SweepInv
<1>1. \A t \in W!Target : record[t].status = "completed" =>
         t \in W!Collected /\ t \notin Guarded
  BY DEF RowsAreKept, W!Collected
<1>2. ASSUME NEW d \in Routers \cup Listed PROVE d \in W!Collected
  <2>1. d \in W!Target /\ d \in W!Base /\ d \notin Guarded
    BY SweepConstants
  <2>2. record[d].status = "completed" \/ W!Recovered(d)
    BY <2>1 DEF W!EffectivelyPartial
  <2>3. W!Recovered(d) => W!Bound(d)
    <3>1. CASE d \in Listed
      <4>1. d \notin Routers
        BY <3>1, CollectorsAssumptions DEF W!SweepAssumption
      <4> QED
        BY <2>1, <3>1, <4>1 DEF W!Recovered
    <3>2. CASE d \in Routers
      <4>1. d \notin Listed
        BY <3>2, CollectorsAssumptions DEF W!SweepAssumption
      <4> QED
        BY <2>1, <3>2, <4>1 DEF W!Recovered
    <3> QED
      BY <3>1, <3>2
  <2> QED
    BY <1>1, <2>1, <2>2, <2>3 DEF W!Bound
<1>3. ASSUME NEW d \in Guarded PROVE \E t \in W!Collected : items[t].ext = d
  <2>1. d \in W!Target /\ d \in W!Base /\ d \notin Routers \cup Listed
    BY SweepConstants
  <2>2. W!Recovered(d)
    BY <1>1, <2>1 DEF W!EffectivelyPartial
  <2>3. PICK s \in W!Entries : d \in W!NamedBy(s) /\ ~W!Covered(s) /\ W!TargetRow(s)
    BY <2>1, <2>2 DEF W!Recovered
  <2> QED
    BY <2>3 DEF W!NamedBy, W!TargetRow, W!Bound
<1>4. ASSUME NEW b \in W!Heard, NEW s \in items[b].table
      PROVE  \E t \in W!Collected : items[t].rloc = s
  <2>1. b \in W!Target /\ items[b] \in MCAnswers[b]
    BY SweepConstants DEF W!Heard, W!Collected, SweepTypes
  <2>2. s \in Slots /\ items[b].rloc = MCParentOf[s] /\ MCParentOf[s] \in RouterRlocs
    BY <2>1, SweepConstants, CollectorsAssumptions DEF W!SweepAssumption
  <2>3. items[b].hasTable
    BY <2>2 DEF W!EffectivelyPartial, W!Issues, W!TableGap
  <2>4. s \in W!Entries
    BY <2>2, <2>3 DEF W!Entries, W!Parents
  <2>5. CASE W!Covered(s)
    BY <2>5 DEF W!Covered, W!CoveredBy, W!Heard
  <2>6. CASE ~W!Covered(s)
    <3>1. record[s].status = "completed" \/ W!TargetRow(s)
      BY <2>4, <2>6 DEF W!EffectivelyPartial, W!SlotComplete, W!RecoveredSlot
    <3>2. s \in W!Collected
      BY <1>1, <2>2, <3>1, SweepConstants DEF W!TargetRow, W!Bound
    <3> QED
      BY <2>2, <3>2 DEF W!ExpandedAreIdentified
  <2> QED
    BY <2>5, <2>6
<1> QED
  BY <1>2, <1>3, <1>4

LEMMA SweepSound == SweepInv => /\ W!TypeOK /\ W!NothingBesideUnresolved
                                /\ W!ExpandedAreIdentified /\ W!CompleteMeansHeard
<1> SUFFICES ASSUME SweepInv PROVE W!TypeOK /\ W!NothingBesideUnresolved
  BY NothingIsHidden DEF SweepInv
<1> USE DEF SweepInv
<1>1. W!TypeOK
  <2>1. \A t \in W!Target : record[t].passed \subseteq 1..2 /\ record[t].attempts \in 0..4
    BY DEF SweepTypes, Records
  <2> QED
    BY <2>1 DEF W!TypeOK, SweepTypes, W!Collected, W!MaxTries
<1>2. W!NothingBesideUnresolved
  BY DEF W!NothingBesideUnresolved, ActiveAreAccounted, SweepTypes, Progress
<1> QED
  BY <1>1, <1>2

\* A sweep asks nothing beside an action that may still run, keeps the rows collected by RLOC16
\* apart although RLOC16s are reassigned meanwhile, and an outcome that is reconciled to
\* complete has heard every router, every listed child and every child of a child table.
THEOREM SweepsHideNothing == Spec => []SweepIsSound
<1>1. Init => SweepInv
  BY SweepBegins DEF Init
<1>2. SweepInv /\ [Next]_vars => SweepInv'
  BY SweepStep, SweepStays DEF Next, vars
<1>3. SweepInv => SweepIsSound
  BY SweepSound DEF SweepIsSound
<1> QED
  BY <1>1, <1>2, <1>3, PTL DEF Spec
===============================================================================
