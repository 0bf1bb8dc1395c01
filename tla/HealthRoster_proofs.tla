------------------------- MODULE HealthRoster_proofs -------------------------
(* Theorems about HealthRoster, for every value of its constants: which of *)
(* its promises survive which purges.                                      *)
EXTENDS HealthRoster, FiniteSetTheorems, WellFoundedInduction, TLAPS

USE NoneAssumption, RosterAssumption

(* The part of the type invariant that the theorems rest on.               *)
Typed ==
    /\ newest \in 0..NumObservations /\ revision \in Nat
    /\ roster \in [Devices -> Enrolments \cup {None}]
    /\ birth \in [Devices -> Nat]
    /\ process = [p \in Processes |-> process[p]]
    /\ sent = [r \in Requests |-> sent[r]]
    /\ \A r \in Requests : sent[r] # None => /\ sent[r].device \in Devices
                                             /\ sent[r].action \in Actions
    /\ acted \in [Requests -> Nat]

(* What a processing has computed is of the roster it names: the same      *)
(* revision means that nothing was changed since.                          *)
ResultsCurrent ==
    \A p \in Processes : process[p].step = "ready" =>
        /\ process[p].result.id.rev \in Nat /\ process[p].result.id.rev <= revision
        /\ process[p].result.id.rev = revision =>
              /\ process[p].result.id.records = roster
              /\ process[p].result.births = birth

RosterInv == Typed /\ ResultsCurrent /\ ContextsAreLive

LEMMA AssessmentFacts ==
    ASSUME NEW o, NEW seen, NEW records, NEW rev, NEW births, NEW at
    PROVE  LET a == Assessment(o, seen, records, rev, births, at)
           IN  a.id.records = records /\ a.id.rev = rev /\ a.births = births
  BY DEF Assessment

LEMMA RevisionType ==
    ASSUME Typed, NEW d \in Devices
    PROVE  RevisionOf(d) \in Nat /\ (roster[d] # None => RevisionOf(d) > 0)
  BY DEF Typed, RevisionOf, Enrolments

LEMMA PutType ==
    Typed => \A d \in Devices, state \in States, since \in 0..NumObservations + 1 :
                 /\ Put(d, state, since) \in Enrolments /\ Put(d, state, since) # None
                 /\ Put(d, state, since).rev = RevisionOf(d) + 1
<1> SUFFICES ASSUME Typed, NEW d \in Devices, NEW state \in States,
                    NEW since \in 0..NumObservations + 1
             PROVE  /\ Put(d, state, since) \in Enrolments /\ Put(d, state, since) # None
                    /\ Put(d, state, since).rev = RevisionOf(d) + 1
  OBVIOUS
<1>1. newest + 1 \in 0..NumObservations + 1
  BY DEF Typed
<1>2. Put(d, state, since) \in Enrolments
  BY <1>1, RevisionType DEF Put, Enrolments
<1> QED BY <1>2 DEF Put

(* The epoch that a change starts from.                                    *)
LEMMA SinceType ==
    Typed => /\ 0 \in 0..NumObservations + 1
             /\ \A d \in Devices : roster[d] # None => roster[d].since \in 0..NumObservations + 1
  BY DEF Typed, Enrolments

-----------------------------------------------------------------------------
(* A change of the roster: some devices get a row, the revision advances,  *)
(* and the current assessment is made again.                               *)

Changes(S) ==
    /\ S \subseteq Devices
    /\ roster' \in [Devices -> Enrolments \cup {None}]
    /\ \A d \in Devices \ S : roster'[d] = roster[d]
    /\ \A d \in S : roster'[d] # None /\ roster'[d].rev = RevisionOf(d) + 1
    /\ revision' \in Nat /\ revision' > revision
    /\ birth' = Births(S)

LEMMA ApplyChanges ==
    ASSUME Typed, NEW r \in Requests, ApplyAction(r)
    PROVE  \/ UNCHANGED <<clock, results, rosterVars, acted>>
           \/ Changes({sent[r].device}) /\ Reassess
<1> DEFINE d == sent[r].device
           state == Target(sent[r].action)
           row == Put(d, state, IF roster[d] = None THEN 0 ELSE roster[d].since)
<1>1. d \in Devices /\ state \in States
  BY DEF ApplyAction, Typed, Target, States
<1>2. row \in Enrolments /\ row # None /\ row.rev = RevisionOf(d) + 1
  BY <1>1, PutType, SinceType
<1>3. CASE /\ roster' = [roster EXCEPT ![d] = row]
           /\ revision' = revision + 1
           /\ birth' = Births({d})
           /\ Reassess
  <2> HIDE DEF row, d, state
  <2> QED BY <1>1, <1>2, <1>3 DEF Changes, Typed, d
<1> QED BY <1>3 DEF ApplyAction

LEMMA SetChanges ==
    ASSUME Typed, NEW d \in Devices, SetDevice(d)
    PROVE  Changes({d}) /\ Reassess
<1>1. PICK state \in CliStates :
         roster' = [roster EXCEPT ![d] =
             Put(d, state, IF state # "expected" \/ roster[d] = None THEN 0
                           ELSE roster[d].since)]
  BY DEF SetDevice
<1> DEFINE row == Put(d, state, IF state # "expected" \/ roster[d] = None THEN 0
                                ELSE roster[d].since)
<1>2. row \in Enrolments /\ row # None /\ row.rev = RevisionOf(d) + 1
  BY PutType, SinceType
<1>3. roster' = [roster EXCEPT ![d] = row]
  BY <1>1
<1> HIDE DEF row
<1> QED BY <1>2, <1>3 DEF SetDevice, Changes, Typed

LEMMA ImportChanges ==
    ASSUME Typed, NEW S \in SUBSET Devices, ImportDevices(S)
    PROVE  \E T \in SUBSET Devices : Changes(T) /\ Reassess
<1> DEFINE added == {d \in S : roster[d] = None}
<1>1. added \subseteq Devices /\ added # {}
  BY DEF ImportDevices
<1>2. Cardinality(added) \in Nat /\ Cardinality(added) > 0
  <2>1. IsFiniteSet(added)
    BY <1>1, FS_Subset
  <2> HIDE DEF added
  <2> QED BY <1>1, <2>1, FS_CardinalityType, FS_EmptySet
<1>3. \A d \in added : /\ Put(d, "expected", 0) \in Enrolments
                       /\ Put(d, "expected", 0) # None
                       /\ Put(d, "expected", 0).rev = RevisionOf(d) + 1
  <2> SUFFICES ASSUME NEW d \in added
               PROVE  /\ Put(d, "expected", 0) \in Enrolments
                      /\ Put(d, "expected", 0) # None
                      /\ Put(d, "expected", 0).rev = RevisionOf(d) + 1
    OBVIOUS
  <2>1. d \in Devices /\ "expected" \in States
    BY <1>1 DEF States
  <2> QED BY <2>1, PutType, SinceType
<1>4. /\ roster' = [d \in Devices |-> IF d \in added THEN Put(d, "expected", 0) ELSE roster[d]]
      /\ revision' = revision + Cardinality(added) /\ birth' = Births(added) /\ Reassess
  BY DEF ImportDevices
<1> HIDE DEF added
<1>5. Changes(added)
  BY <1>1, <1>2, <1>3, <1>4 DEF Changes, Typed
<1> QED BY <1>1, <1>4, <1>5

-----------------------------------------------------------------------------
(* The type invariant's part.                                              *)

Frame == UNCHANGED <<newest, rosterVars, requests, process>>

LEMMA TypedFrame ==
    ASSUME Typed, Frame
    PROVE  Typed'
  BY DEF Typed, Frame, rosterVars, requests

LEMMA TypedChanges ==
    ASSUME Typed, NEW S \in SUBSET Devices, Changes(S), UNCHANGED <<newest, process, sent>>,
           acted' \in [Requests -> Nat]
    PROVE  Typed'
<1>1. birth' \in [Devices -> Nat]
  BY DEF Typed, Changes, Births
<1> QED BY <1>1 DEF Typed, Changes

LEMMA TypedProcess ==
    ASSUME Typed, NEW p \in Processes, Processing(p)
    PROVE  Typed'
<1>1. /\ UNCHANGED <<newest, rosterVars, requests>>
      /\ \E w : process' = [process EXCEPT ![p] = w]
  BY DEF Processing, StartProcessing, ReadRoster, SaveStale, SaveFails, Save, evidence
<1> QED BY <1>1 DEF Typed, rosterVars, requests

LEMMA TypedSend ==
    ASSUME Typed, NEW r \in Requests, NEW d \in Devices, Send(r, d)
    PROVE  Typed'
<1>1. PICK action \in Actions :
         sent' = [sent EXCEPT ![r] =
            [device |-> d, action |-> action, expected |-> RevisionOf(d),
             shown |-> <<birth[d], roster[d]>>,
             context |-> IF action = "enroll" THEN current.id ELSE None]]
  BY DEF Send
<1>2. UNCHANGED <<newest, rosterVars, acted, process>>
  BY DEF Send, evidence
<1> DEFINE b == [device |-> d, action |-> action, expected |-> RevisionOf(d),
                 shown |-> <<birth[d], roster[d]>>,
                 context |-> IF action = "enroll" THEN current.id ELSE None]
<1>3. sent' = [sent EXCEPT ![r] = b] /\ b.device \in Devices /\ b.action \in Actions
  BY <1>1
<1> HIDE DEF b
<1> QED BY <1>2, <1>3 DEF Typed, rosterVars

LEMMA TypedPurge ==
    ASSUME Typed, PurgeAll \/ \E d \in Devices : PurgeDevice(d)
    PROVE  Typed'
<1>1. CASE PurgeAll
  <2>1. /\ roster' = [d \in Devices |-> None] /\ revision' = 0
        /\ UNCHANGED <<newest, birth, sent, acted, process>>
    BY <1>1 DEF PurgeAll, evidence
  <2> QED BY <2>1 DEF Typed
<1>2. ASSUME NEW d \in Devices, PurgeDevice(d) PROVE Typed'
  <2>1. /\ roster' = [roster EXCEPT ![d] = None] /\ revision' = NextRevision(d)
        /\ UNCHANGED <<newest, birth, sent, acted, process>>
    BY <1>2 DEF PurgeDevice, evidence
  <2> QED BY <2>1 DEF Typed, NextRevision
<1> QED BY <1>1, <1>2

LEMMA TypedStep ==
    ASSUME Typed, [Next]_vars
    PROVE  Typed'
<1>a. acted \in [Requests -> Nat]
  BY DEF Typed
<1>1. CASE Collect
  <2>1. newest' \in 0..NumObservations /\ UNCHANGED <<rosterVars, requests, process>>
    BY <1>1 DEF Collect, Observations, Typed
  <2> QED BY <2>1 DEF Typed, rosterVars, requests
<1>2. ASSUME NEW r \in Requests, ApplyAction(r) PROVE Typed'
  <2>1. UNCHANGED <<newest, sent, process>>
    BY <1>2 DEF ApplyAction, evidence
  <2>2. CASE UNCHANGED <<clock, results, rosterVars, acted>>
    BY <2>1, <2>2 DEF Typed, rosterVars
  <2>3. CASE Changes({sent[r].device})
    <3>1. acted' \in [Requests -> Nat]
      BY <1>2, <1>a DEF ApplyAction
    <3>2. {sent[r].device} \in SUBSET Devices
      BY <1>2 DEF ApplyAction, Typed
    <3> QED BY <2>1, <2>3, <3>1, <3>2, TypedChanges
  <2> QED BY <1>2, <2>2, <2>3, ApplyChanges
<1>3. ASSUME NEW S \in SUBSET Devices, Changes(S), UNCHANGED <<newest, requests, process>>
      PROVE  Typed'
  <2>1. UNCHANGED sent /\ UNCHANGED acted
    BY <1>3 DEF requests
  <2> QED BY <1>3, <1>a, <2>1, TypedChanges
<1>4. ASSUME NEW d \in Devices, SetDevice(d) PROVE Typed'
  <2>1. Changes({d}) /\ {d} \in SUBSET Devices
    BY <1>4, SetChanges
  <2> QED BY <1>3, <1>4, <2>1 DEF SetDevice, evidence
<1>5. ASSUME NEW S \in SUBSET Devices, ImportDevices(S) PROVE Typed'
  <2>1. PICK T \in SUBSET Devices : Changes(T)
    BY <1>5, ImportChanges
  <2> QED BY <1>3, <1>5, <2>1 DEF ImportDevices, evidence
<1>6. ASSUME NEW o \in Observations, PurgeBefore(o) PROVE Typed'
  BY <1>6, TypedFrame DEF PurgeBefore, Frame, evidence
<1>7. CASE UNCHANGED vars
  BY <1>7, TypedFrame DEF vars, Frame, evidence
<1> QED BY <1>1, <1>2, <1>4, <1>5, <1>6, <1>7, TypedProcess, TypedSend, TypedPurge DEF Next

LEMMA TypedInit == Init => Typed
  BY DEF Init, Typed

-----------------------------------------------------------------------------
(* What is stored was judged by the roster of the time.                    *)

StoresCurrent ==
    \A a \in assessments' \ assessments : a.id.records = roster' /\ a.id.rev = revision'

LEMMA ReassessStores ==
    ASSUME Reassess
    PROVE  /\ StoresCurrent
           /\ \A a \in assessments' \ assessments : a.births = birth'
<1>1. \A a \in assessments' \ assessments : a = Reassessment
  BY DEF Reassess, results
<1>2. /\ Reassessment.id.records = roster' /\ Reassessment.id.rev = revision'
      /\ Reassessment.births = birth'
  BY AssessmentFacts DEF Reassessment
<1> QED BY <1>1, <1>2 DEF StoresCurrent

LEMMA ChangesKeep ==
    ASSUME RosterInv, NEW S \in SUBSET Devices, Changes(S), Reassess, UNCHANGED process
    PROVE  ResultsCurrent' /\ ContextsAreLive'
<1>1. ResultsCurrent'
  BY DEF RosterInv, Typed, ResultsCurrent, Changes
<1>2. ASSUME NEW a \in assessments', NEW d \in Devices, a.id.records[d] # None
      PROVE  roster'[d] # None /\ a.births[d] = birth'[d]
  <2>1. CASE a \in assessments
    <3>1. roster[d] # None /\ a.births[d] = birth[d]
      BY <1>2, <2>1 DEF RosterInv, ContextsAreLive
    <3> QED BY <3>1 DEF Changes, Births
  <2>2. CASE a \notin assessments
    <3>1. a.id.records = roster' /\ a.births = birth'
      BY <2>2, ReassessStores DEF StoresCurrent
    <3> QED BY <1>2, <3>1
  <2> QED BY <2>1, <2>2
<1> QED BY <1>1, <1>2 DEF ContextsAreLive

LEMMA SaveStores ==
    ASSUME RosterInv, NEW p \in Processes, Save(p)
    PROVE  StoresCurrent /\ ResultsCurrent' /\ ContextsAreLive'
<1> DEFINE a == process[p].result
<1>1. /\ process[p].step = "ready" /\ a.id.rev = revision
      /\ Insertable(a) \/ Stored(a)
      /\ assessments' \subseteq assessments \cup {Row(a)}
      /\ process' = [process EXCEPT ![p] = Idle]
      /\ UNCHANGED rosterVars
  BY DEF Save, UpToDate
<1>2. Row(a) \in assessments \cup {a}
  BY <1>1 DEF Row, Stored
<1>3. a.id.records = roster /\ a.births = birth
  BY <1>1 DEF RosterInv, ResultsCurrent
<1>4. \A b \in assessments' : b \in assessments \/ b = a
  BY <1>1, <1>2
<1>5. StoresCurrent
  BY <1>1, <1>3, <1>4 DEF StoresCurrent, rosterVars
<1>6. ContextsAreLive'
  BY <1>1, <1>3, <1>4 DEF RosterInv, ContextsAreLive, rosterVars
<1>7. ResultsCurrent'
  BY <1>1 DEF RosterInv, Typed, ResultsCurrent, rosterVars, Idle
<1> QED BY <1>5, <1>6, <1>7

LEMMA ProcessStores ==
    ASSUME RosterInv, NEW p \in Processes, Processing(p)
    PROVE  StoresCurrent /\ ResultsCurrent' /\ ContextsAreLive'
<1>1. CASE Save(p)
  BY <1>1, SaveStores
<1>2. ASSUME UNCHANGED <<results, rosterVars>>
      PROVE  StoresCurrent /\ ContextsAreLive'
  BY <1>2 DEF RosterInv, ContextsAreLive, StoresCurrent, results, rosterVars
<1>3. ASSUME UNCHANGED rosterVars, NEW w, process' = [process EXCEPT ![p] = w], w.step # "ready"
      PROVE  ResultsCurrent'
  BY <1>3 DEF RosterInv, Typed, ResultsCurrent, rosterVars
<1>4. CASE StartProcessing(p)
  <2>1. PICK w : w.step = "started" /\ process' = [process EXCEPT ![p] = w]
    BY <1>4 DEF StartProcessing
  <2> QED BY <1>2, <1>3, <1>4, <2>1 DEF StartProcessing
<1>5. CASE SaveStale(p)
  <2>1. UNCHANGED <<results, rosterVars>> /\ process' = [process EXCEPT ![p] = Idle]
    BY <1>5 DEF SaveStale
  <2>2. Idle.step # "ready"
    BY DEF Idle
  <2> QED BY <1>2, <1>3, <2>1, <2>2
<1>6. CASE SaveFails(p)
  <2> DEFINE w == [step |-> "failed"]
  <2>1. UNCHANGED <<results, rosterVars>> /\ process' = [process EXCEPT ![p] = w]
    BY <1>6 DEF SaveFails
  <2>2. w.step # "ready"
    OBVIOUS
  <2> HIDE DEF w
  <2> QED BY <1>2, <1>3, <2>1, <2>2
<1>7. CASE ReadRoster(p)
  <2> DEFINE a == Assessment(process[p].obs, Sampled[process[p].obs], roster, revision,
                             birth, process[p].at)
  <2>1. /\ process' = [process EXCEPT ![p] = [step |-> "ready", result |-> a]]
        /\ UNCHANGED <<results, rosterVars>>
    BY <1>7 DEF ReadRoster
  <2>2. a.id.records = roster /\ a.id.rev = revision /\ a.births = birth
    BY AssessmentFacts
  <2> HIDE DEF a
  <2>3. ResultsCurrent'
    BY <2>1, <2>2 DEF RosterInv, Typed, ResultsCurrent, rosterVars
  <2> QED BY <1>2, <2>1, <2>3
<1> QED BY <1>1, <1>4, <1>5, <1>6, <1>7 DEF Processing

LEMMA PurgeDeviceStores ==
    ASSUME RosterInv, NEW d \in Devices, PurgeDevice(d)
    PROVE  StoresCurrent /\ ResultsCurrent' /\ ContextsAreLive'
<1>1. /\ roster' = [roster EXCEPT ![d] = None] /\ revision' = NextRevision(d)
      /\ UNCHANGED <<birth, process>>
  BY DEF PurgeDevice
<1>2. \A a \in assessments' : a \in assessments /\ ~Names(a, d)
  BY DEF PurgeDevice, KeepAssessments
<1>3. StoresCurrent
  BY <1>2 DEF StoresCurrent
<1>4. ContextsAreLive'
  BY <1>1, <1>2 DEF RosterInv, Typed, ContextsAreLive, Names
<1>5. ResultsCurrent'
  <2>1. CASE roster[d] = None
    BY <1>1, <2>1 DEF RosterInv, Typed, ResultsCurrent, NextRevision
  <2>2. CASE roster[d] # None
    BY <1>1, <2>2 DEF RosterInv, Typed, ResultsCurrent, NextRevision
  <2> QED BY <2>1, <2>2
<1> QED BY <1>3, <1>4, <1>5

LEMMA KeepStores ==
    ASSUME RosterInv, UNCHANGED <<rosterVars, process>>, assessments' \subseteq assessments
    PROVE  StoresCurrent /\ ResultsCurrent' /\ ContextsAreLive'
  BY DEF RosterInv, StoresCurrent, ResultsCurrent, ContextsAreLive, rosterVars

-----------------------------------------------------------------------------
(* The step, unless everything is purged.                                 *)

LEMMA RosterInit == Init => RosterInv
<1> SUFFICES ASSUME Init PROVE RosterInv
  OBVIOUS
<1>1. ResultsCurrent /\ ContextsAreLive
  BY DEF Init, ResultsCurrent, ContextsAreLive, Idle
<1> QED BY <1>1, TypedInit DEF RosterInv

LEMMA RosterStep ==
    ASSUME RosterInv, [Next]_vars, "all" \notin Purges
    PROVE  RosterInv' /\ StoresCurrent
<1> SUFFICES StoresCurrent /\ ResultsCurrent' /\ ContextsAreLive'
  BY TypedStep DEF RosterInv
<1>t. Typed
  BY DEF RosterInv
<1>1. CASE Collect
  BY <1>1, KeepStores DEF Collect, results
<1>2. ASSUME NEW r \in Requests, ApplyAction(r)
      PROVE  StoresCurrent /\ ResultsCurrent' /\ ContextsAreLive'
  <2>1. UNCHANGED process
    BY <1>2 DEF ApplyAction
  <2>2. CASE UNCHANGED <<clock, results, rosterVars, acted>>
    BY <2>1, <2>2, KeepStores DEF results
  <2>3. CASE Changes({sent[r].device}) /\ Reassess
    <3>1. {sent[r].device} \in SUBSET Devices
      BY <1>2, <1>t DEF ApplyAction, Typed
    <3> QED BY <2>1, <2>3, <3>1, ChangesKeep, ReassessStores
  <2> QED BY <1>2, <1>t, <2>2, <2>3, ApplyChanges
<1>3. ASSUME NEW r \in Requests, NEW d \in Devices, Send(r, d)
      PROVE  StoresCurrent /\ ResultsCurrent' /\ ContextsAreLive'
  BY <1>3, KeepStores DEF Send, results
<1>4. ASSUME NEW d \in Devices, SetDevice(d)
      PROVE  StoresCurrent /\ ResultsCurrent' /\ ContextsAreLive'
  <2>1. Changes({d}) /\ Reassess /\ {d} \in SUBSET Devices
    BY <1>4, <1>t, SetChanges
  <2>2. UNCHANGED process
    BY <1>4 DEF SetDevice
  <2> QED BY <2>1, <2>2, ChangesKeep, ReassessStores
<1>5. ASSUME NEW S \in SUBSET Devices, ImportDevices(S)
      PROVE  StoresCurrent /\ ResultsCurrent' /\ ContextsAreLive'
  <2>1. PICK T \in SUBSET Devices : Changes(T) /\ Reassess
    BY <1>5, <1>t, ImportChanges
  <2>2. UNCHANGED process
    BY <1>5 DEF ImportDevices
  <2> QED BY <2>1, <2>2, ChangesKeep, ReassessStores
<1>6. ASSUME NEW o \in Observations, PurgeBefore(o)
      PROVE  StoresCurrent /\ ResultsCurrent' /\ ContextsAreLive'
  <2>1. UNCHANGED <<rosterVars, process>> /\ assessments' \subseteq assessments
    BY <1>6 DEF PurgeBefore, KeepAssessments
  <2> QED BY <2>1, KeepStores
<1>7. CASE UNCHANGED vars
  BY <1>7, KeepStores DEF vars, results
<1>8. ~PurgeAll
  BY DEF PurgeAll
<1> QED BY <1>1, <1>2, <1>3, <1>4, <1>5, <1>6, <1>7, <1>8, ProcessStores, PurgeDeviceStores DEF Next

(* Unless everything is purged, an assessment is stored only while the     *)
(* roster is the one it was judged by, however many processings, requests, *)
(* edits, imports and other purges come in between (the revision compared  *)
(* by save_processing_result identifies the roster).                       *)
THEOREM ResultsAreOfTheirRoster ==
    ASSUME "all" \notin Purges
    PROVE  Spec => SavedAgainstCurrentRoster
<1>1. RosterInv /\ [Next]_vars => RosterInv'
  BY RosterStep
<1>2. RosterInv /\ [Next]_vars =>
        [\A a \in assessments' \ assessments : a.id.records = roster' /\ a.id.rev = revision']_vars
  BY RosterStep DEF StoresCurrent
<1> QED BY RosterInit, <1>1, <1>2, PTL DEF Spec, SavedAgainstCurrentRoster

(* Unless everything is purged, no stored assessment refers to an          *)
(* enrolment that was purged: purge_device deletes those that do, and the  *)
(* revision it advances refuses those that were being computed.            *)
THEOREM PurgedEnrolmentsAreForgotten ==
    ASSUME "all" \notin Purges
    PROVE  Spec => []ContextsAreLive
<1>1. RosterInv /\ [Next]_vars => RosterInv'
  BY RosterStep
<1>2. RosterInv => ContextsAreLive
  BY DEF RosterInv
<1> QED BY RosterInit, <1>1, <1>2, PTL DEF Spec

-----------------------------------------------------------------------------
(* Requests.  A request that acts on the enrolment it was made for finds   *)
(* the row as it was shown: revisions of one enrolment only grow.          *)

Shown(r, d) ==
    /\ sent[r].expected \in Nat
    /\ sent[r].shown[1] \in Nat /\ sent[r].shown[1] <= birth[d]
    /\ sent[r].expected = 0 => sent[r].shown[2] = None
    /\ birth[d] = sent[r].shown[1] /\ roster[d] # None =>
          /\ sent[r].expected <= roster[d].rev
          /\ sent[r].expected = roster[d].rev => sent[r].shown[2] = roster[d]

RequestsShown ==
    \A r \in Requests, d \in Devices : sent[r] # None /\ sent[r].device = d => Shown(r, d)

ActsAsShown ==
    \A r \in Requests : acted'[r] # acted[r] =>
        LET d == sent[r].device IN
        birth[d] = sent[r].shown[1] => roster[d] = sent[r].shown[2]

LEMMA ShownFrame ==
    ASSUME RequestsShown, UNCHANGED <<roster, birth, sent>>
    PROVE  RequestsShown'
  BY DEF RequestsShown, Shown

LEMMA ShownChanges ==
    ASSUME Typed, RequestsShown, NEW S \in SUBSET Devices, Changes(S), UNCHANGED sent
    PROVE  RequestsShown'
<1> SUFFICES ASSUME NEW r \in Requests, NEW d \in Devices, sent[r] # None, sent[r].device = d
             PROVE  Shown(r, d)'
  BY DEF RequestsShown
<1>1. Shown(r, d)
  BY DEF RequestsShown
<1>2. birth[d] \in Nat /\ (roster[d] # None => roster[d].rev \in Nat)
  BY DEF Typed, Enrolments
<1>3. CASE d \notin S
  <2>1. roster'[d] = roster[d] /\ birth'[d] = birth[d]
    BY <1>3 DEF Changes, Births
  <2> QED BY <1>1, <2>1 DEF Shown
<1>4. CASE d \in S /\ roster[d] = None
  <2>1. birth'[d] = birth[d] + 1
    BY <1>4 DEF Changes, Births
  <2> QED BY <1>1, <1>2, <2>1 DEF Shown
<1>5. CASE d \in S /\ roster[d] # None
  <2>1. birth'[d] = birth[d] /\ roster'[d].rev = roster[d].rev + 1
    BY <1>5 DEF Changes, Births, RevisionOf
  <2> QED BY <1>1, <1>2, <1>5, <2>1 DEF Shown
<1> QED BY <1>3, <1>4, <1>5

LEMMA ShownPurge ==
    ASSUME Typed, RequestsShown, PurgeAll \/ \E d \in Devices : PurgeDevice(d)
    PROVE  RequestsShown'
<1>1. /\ UNCHANGED <<birth, sent>>
      /\ \A d \in Devices : roster'[d] = roster[d] \/ roster'[d] = None
  BY DEF PurgeAll, PurgeDevice, Typed
<1> QED BY <1>1 DEF RequestsShown, Shown

LEMMA ShownSend ==
    ASSUME Typed, RequestsShown, NEW r \in Requests, NEW d \in Devices, Send(r, d)
    PROVE  RequestsShown'
<1>1. PICK action \in Actions :
         sent' = [sent EXCEPT ![r] =
            [device |-> d, action |-> action, expected |-> RevisionOf(d),
             shown |-> <<birth[d], roster[d]>>,
             context |-> IF action = "enroll" THEN current.id ELSE None]]
  BY DEF Send
<1> DEFINE b == [device |-> d, action |-> action, expected |-> RevisionOf(d),
                 shown |-> <<birth[d], roster[d]>>,
                 context |-> IF action = "enroll" THEN current.id ELSE None]
<1>2. /\ sent' = [sent EXCEPT ![r] = b] /\ b.device = d /\ b.expected = RevisionOf(d)
      /\ b.shown[1] = birth[d] /\ b.shown[2] = roster[d]
  BY <1>1
<1>3. UNCHANGED <<roster, birth>>
  BY DEF Send, rosterVars
<1>4. /\ RevisionOf(d) \in Nat /\ birth[d] \in Nat
      /\ RevisionOf(d) = 0 => roster[d] = None
      /\ roster[d] # None => RevisionOf(d) = roster[d].rev
  BY RevisionType DEF Typed, RevisionOf
<1> HIDE DEF b
<1>5. \A q \in Requests : sent'[q] = IF q = r THEN b ELSE sent[q]
  BY <1>2 DEF Typed
<1>6. Shown(r, d)'
  BY <1>2, <1>3, <1>4, <1>5 DEF Shown
<1>7. ASSUME NEW q \in Requests, q # r, NEW e \in Devices, sent'[q] # None, sent'[q].device = e
      PROVE  Shown(q, e)'
  <2>1. Shown(q, e) /\ sent'[q] = sent[q]
    BY <1>5, <1>7 DEF RequestsShown
  <2> QED BY <1>3, <2>1 DEF Shown
<1>8. sent'[r].device = d
  BY <1>2, <1>5
<1> QED BY <1>6, <1>7, <1>8 DEF RequestsShown

LEMMA ApplyAsShown ==
    ASSUME Typed, RequestsShown, NEW r \in Requests, ApplyAction(r)
    PROVE  ActsAsShown
<1>1. /\ sent[r] # None /\ RevisionOf(sent[r].device) = sent[r].expected
      /\ acted' = acted \/ acted' = [acted EXCEPT ![r] = @ + 1]
  BY DEF ApplyAction, Admitted
<1>2. PICK d \in Devices : d = sent[r].device
  BY <1>1 DEF Typed
<1>3. birth[d] = sent[r].shown[1] => roster[d] = sent[r].shown[2]
  <2>1. Shown(r, d)
    BY <1>1, <1>2 DEF RequestsShown
  <2> QED BY <1>1, <1>2, <2>1 DEF Shown, RevisionOf
<1>4. \A q \in Requests : acted'[q] # acted[q] => q = r
  BY <1>1 DEF Typed
<1> QED BY <1>2, <1>3, <1>4 DEF ActsAsShown

LEMMA ShownStep ==
    ASSUME Typed, RequestsShown, [Next]_vars
    PROVE  RequestsShown' /\ ActsAsShown
<1>1. ASSUME UNCHANGED acted PROVE ActsAsShown
  BY <1>1 DEF ActsAsShown
<1>2. ASSUME UNCHANGED <<rosterVars, requests>> PROVE RequestsShown' /\ ActsAsShown
  BY <1>1, <1>2, ShownFrame DEF rosterVars, requests
<1>3. CASE Collect
  BY <1>2, <1>3 DEF Collect
<1>4. ASSUME NEW p \in Processes, Processing(p)
      PROVE  RequestsShown' /\ ActsAsShown
  BY <1>2, <1>4 DEF Processing, StartProcessing, ReadRoster, SaveStale, SaveFails, Save
<1>5. ASSUME NEW r \in Requests, ApplyAction(r)
      PROVE  RequestsShown' /\ ActsAsShown
  <2>1. UNCHANGED sent
    BY <1>5 DEF ApplyAction
  <2>2. ASSUME UNCHANGED <<clock, results, rosterVars, acted>> PROVE RequestsShown'
    BY <2>1, <2>2, ShownFrame DEF rosterVars
  <2>3. ASSUME Changes({sent[r].device}) PROVE RequestsShown'
    <3>1. {sent[r].device} \in SUBSET Devices
      BY <1>5 DEF ApplyAction, Typed
    <3> QED BY <2>1, <2>3, <3>1, ShownChanges
  <2>4. RequestsShown'
    BY <1>5, <2>2, <2>3, ApplyChanges
  <2> QED BY <1>5, <2>4, ApplyAsShown
<1>6. ASSUME NEW r \in Requests, NEW d \in Devices, Send(r, d)
      PROVE  RequestsShown' /\ ActsAsShown
  BY <1>1, <1>6, ShownSend DEF Send
<1>7. ASSUME NEW d \in Devices, SetDevice(d)
      PROVE  RequestsShown' /\ ActsAsShown
  <2>1. Changes({d}) /\ {d} \in SUBSET Devices
    BY <1>7, SetChanges
  <2> QED BY <1>1, <1>7, <2>1, ShownChanges DEF SetDevice, requests
<1>8. ASSUME NEW S \in SUBSET Devices, ImportDevices(S)
      PROVE  RequestsShown' /\ ActsAsShown
  <2>1. PICK T \in SUBSET Devices : Changes(T)
    BY <1>8, ImportChanges
  <2> QED BY <1>1, <1>8, <2>1, ShownChanges DEF ImportDevices, requests
<1>9. ASSUME NEW o \in Observations, PurgeBefore(o)
      PROVE  RequestsShown' /\ ActsAsShown
  BY <1>2, <1>9 DEF PurgeBefore
<1>10. ASSUME PurgeAll \/ \E d \in Devices : PurgeDevice(d)
       PROVE  RequestsShown' /\ ActsAsShown
  BY <1>1, <1>10, ShownPurge DEF PurgeAll, PurgeDevice
<1>11. CASE UNCHANGED vars
  BY <1>2, <1>11 DEF vars
<1> QED BY <1>3, <1>4, <1>5, <1>6, <1>7, <1>8, <1>9, <1>10, <1>11 DEF Next

LEMMA ShownInit == Init => RequestsShown
<1> SUFFICES ASSUME Init PROVE RequestsShown
  OBVIOUS
<1>1. \A r \in Requests : sent[r] = None
  BY DEF Init
<1> QED BY <1>1 DEF RequestsShown

(* However often a request is sent and whatever is purged, a browser's     *)
(* action on the enrolment it was shown finds its row as it was shown: the *)
(* revision it names identifies the row (apply_browser_roster_action).     *)
THEOREM StaleActionsAreRefused == Spec => ActsOnWhatWasShown
<1>1. Typed /\ RequestsShown /\ [Next]_vars => Typed' /\ RequestsShown'
  BY TypedStep, ShownStep
<1>2. Typed /\ RequestsShown /\ [Next]_vars =>
        [\A r \in Requests : acted'[r] # acted[r] =>
            LET d == sent[r].device IN
            birth[d] = sent[r].shown[1] => roster[d] = sent[r].shown[2]]_vars
  BY ShownStep DEF ActsAsShown
<1> QED BY TypedInit, ShownInit, <1>1, <1>2, PTL DEF Spec, ActsOnWhatWasShown

-----------------------------------------------------------------------------
(* Receipts.  Where a request may act on a device that is enrolled, it has  *)
(* not acted on this enrolment: a purge that forgets a receipt takes the   *)
(* enrolment of its device away.                                           *)

Replayed(r, d) ==
    /\ acted[r] <= birth[d]
    /\ roster[d] # None /\ r \notin receipts => acted[r] < birth[d]

ReceiptsKept ==
    /\ \A d \in Devices : roster[d] # None => birth[d] # 0
    /\ \A r \in Requests : sent[r] = None => acted[r] = 0
    /\ \A r \in Requests, d \in Devices :
         sent[r] # None /\ sent[r].device = d => Replayed(r, d)

LEMMA ReceiptsFrame ==
    ASSUME ReceiptsKept, UNCHANGED <<roster, birth, sent, acted>>, receipts \subseteq receipts'
    PROVE  ReceiptsKept'
  BY DEF ReceiptsKept, Replayed

(* Rows that are added or changed are of other devices than those whose    *)
(* requests act, or the request acts on them and leaves its receipt.       *)
LEMMA ReceiptsChanges ==
    ASSUME Typed, ReceiptsKept, NEW S \in SUBSET Devices, Changes(S), UNCHANGED sent,
           receipts \subseteq receipts',
           \A r \in Requests :
             \/ acted'[r] = acted[r]
             \/ /\ acted'[r] = acted[r] + 1 /\ r \notin receipts /\ r \in receipts'
                /\ sent[r] # None /\ sent[r].device \in S
    PROVE  ReceiptsKept'
<1>1. \A d \in Devices : /\ birth[d] \in Nat
                         /\ birth'[d] = IF d \in S /\ roster[d] = None THEN birth[d] + 1
                                        ELSE birth[d]
                         /\ roster'[d] = None => d \notin S /\ roster[d] = None
                         /\ d \notin S => roster'[d] = roster[d]
  BY DEF Typed, Changes, Births
<1>2. \A d \in Devices : roster'[d] # None => birth'[d] # 0
  BY <1>1 DEF ReceiptsKept
<1>3. \A r \in Requests : sent'[r] = None => acted'[r] = 0
  BY DEF ReceiptsKept
<1>4. ASSUME NEW r \in Requests, NEW d \in Devices, sent'[r] # None, sent'[r].device = d
      PROVE  Replayed(r, d)'
  <2>1. Replayed(r, d) /\ acted[r] \in Nat
    BY <1>4 DEF ReceiptsKept, Typed
  <2>2. CASE acted'[r] = acted[r]
    BY <1>1, <2>1, <2>2 DEF Replayed
  <2>3. CASE acted'[r] # acted[r]
    <3>1. acted'[r] = acted[r] + 1 /\ r \notin receipts /\ r \in receipts' /\ d \in S
      BY <1>4, <2>3
    <3> QED BY <1>1, <2>1, <3>1 DEF Replayed
  <2> QED BY <2>2, <2>3
<1> QED BY <1>2, <1>3, <1>4 DEF ReceiptsKept

LEMMA ReceiptsApply ==
    ASSUME Typed, ReceiptsKept, NEW r \in Requests, ApplyAction(r) PROVE ReceiptsKept'
<1>1. /\ sent[r] # None /\ r \notin receipts /\ receipts' = receipts \cup {r}
      /\ UNCHANGED sent /\ sent[r].device \in Devices
      /\ acted' = acted \/ acted' = [acted EXCEPT ![r] = @ + 1]
  BY DEF ApplyAction, WriteReceipt, Typed
<1>2. CASE UNCHANGED <<clock, results, rosterVars, acted>>
  BY <1>1, <1>2, ReceiptsFrame DEF rosterVars
<1>3. CASE Changes({sent[r].device})
  <2>1. \A q \in Requests : acted'[q] = acted[q] \/ (q = r /\ acted'[q] = acted[q] + 1)
    BY <1>1 DEF Typed
  <2>2. {sent[r].device} \in SUBSET Devices
    BY <1>1
  <2> QED BY <1>1, <1>3, <2>1, <2>2, ReceiptsChanges
<1> QED BY <1>2, <1>3, ApplyChanges

LEMMA ReceiptsSend ==
    ASSUME Typed, ReceiptsKept, NEW r \in Requests, NEW d \in Devices, Send(r, d)
    PROVE  ReceiptsKept'
<1>1. PICK b : sent' = [sent EXCEPT ![r] = b] /\ b.device = d
  <2> DEFINE B(action) ==
        [device |-> d, action |-> action, expected |-> RevisionOf(d),
         shown |-> <<birth[d], roster[d]>>,
         context |-> IF action = "enroll" THEN current.id ELSE None]
  <2>1. PICK action \in Actions : sent' = [sent EXCEPT ![r] = B(action)]
    BY Zenon DEF Send
  <2>2. B(action).device = d
    OBVIOUS
  <2> QED BY Zenon, <2>1, <2>2
<1>2. /\ sent[r] = None /\ UNCHANGED <<roster, birth, receipts, acted>>
  BY DEF Send, rosterVars
<1>3. \A q \in Requests : sent'[q] = IF q = r THEN b ELSE sent[q]
  BY <1>1 DEF Typed
<1>4. acted[r] = 0 /\ birth[d] \in Nat /\ (roster[d] # None => birth[d] # 0)
  BY <1>2 DEF ReceiptsKept, Typed
<1>5. Replayed(r, d)'
  BY <1>2, <1>4 DEF Replayed
<1>6. ASSUME NEW q \in Requests, NEW e \in Devices, sent'[q] # None, sent'[q].device = e
      PROVE  Replayed(q, e)'
  <2>1. CASE q = r
    BY <1>1, <1>3, <1>5, <1>6, <2>1
  <2>2. CASE q # r
    <3>1. Replayed(q, e)
      BY <1>3, <1>6, <2>2 DEF ReceiptsKept
    <3> QED BY <1>2, <3>1 DEF Replayed
  <2> QED BY <2>1, <2>2
<1>7. \A q \in Requests : sent'[q] = None => acted'[q] = 0
  BY <1>2, <1>3, <1>4 DEF ReceiptsKept
<1> QED BY <1>2, <1>6, <1>7 DEF ReceiptsKept

LEMMA ReceiptsPurge ==
    ASSUME Typed, ReceiptsKept, PurgeAll \/ \E d \in Devices : PurgeDevice(d)
    PROVE  ReceiptsKept'
<1>1. /\ UNCHANGED <<birth, sent, acted>>
      /\ \A d \in Devices : \/ roster'[d] = None
                            \/ /\ roster'[d] = roster[d]
                               /\ \A r \in Requests : sent[r].device = d /\ r \in receipts =>
                                    r \in receipts'
  <2>1. CASE PurgeAll
    BY <2>1 DEF PurgeAll, Typed
  <2>2. ASSUME NEW e \in Devices, PurgeDevice(e)
        PROVE  /\ UNCHANGED <<birth, sent, acted>>
               /\ roster' = [roster EXCEPT ![e] = None]
               /\ receipts' = {r \in receipts : sent[r].device # e}
    BY <2>2 DEF PurgeDevice
  <2>3. ASSUME NEW e \in Devices, PurgeDevice(e), NEW d \in Devices
        PROVE  \/ roster'[d] = None
               \/ /\ roster'[d] = roster[d]
                  /\ \A r \in Requests : sent[r].device = d /\ r \in receipts =>
                       r \in receipts'
    <3>1. CASE d = e
      BY <2>2, <2>3, <3>1 DEF Typed
    <3>2. CASE d # e
      BY <2>2, <2>3, <3>2 DEF Typed
    <3> QED BY <3>1, <3>2
  <2> QED BY <2>1, <2>2, <2>3
<1> QED BY <1>1 DEF ReceiptsKept, Replayed

LEMMA ReceiptsStep ==
    ASSUME Typed, ReceiptsKept, [Next]_vars PROVE ReceiptsKept'
<1>1. ASSUME UNCHANGED <<rosterVars, requests>> PROVE ReceiptsKept'
  BY <1>1, ReceiptsFrame DEF rosterVars, requests
<1>2. ASSUME NEW S \in SUBSET Devices, Changes(S), UNCHANGED requests PROVE ReceiptsKept'
  BY <1>2, ReceiptsChanges DEF requests
<1>3. ASSUME NEW p \in Processes, Processing(p) PROVE ReceiptsKept'
  BY <1>1, <1>3 DEF Processing, StartProcessing, ReadRoster, SaveStale, SaveFails, Save
<1>4. ASSUME Collect \/ \E o \in Observations : PurgeBefore(o) PROVE ReceiptsKept'
  BY <1>1, <1>4 DEF Collect, PurgeBefore
<1>5. ASSUME NEW d \in Devices, SetDevice(d) PROVE ReceiptsKept'
  <2>1. Changes({d}) /\ {d} \in SUBSET Devices /\ UNCHANGED requests
    BY <1>5, SetChanges DEF SetDevice
  <2> QED BY <1>2, <2>1
<1>6. ASSUME NEW S \in SUBSET Devices, ImportDevices(S) PROVE ReceiptsKept'
  <2>1. (\E T \in SUBSET Devices : Changes(T)) /\ UNCHANGED requests
    BY <1>6, ImportChanges DEF ImportDevices
  <2> QED BY <1>2, <2>1
<1>7. CASE UNCHANGED vars
  BY <1>1, <1>7 DEF vars
<1> QED
  BY <1>3, <1>4, <1>5, <1>6, <1>7, ReceiptsApply, ReceiptsSend, ReceiptsPurge DEF Next

(* However often a request is sent and whatever is purged, it changes the  *)
(* roster at most once for every time its device was enrolled: a receipt   *)
(* outlives every step but a purge that takes the enrolment away with it   *)
(* (roster_mutation_receipts).                                             *)
THEOREM RetriesActOncePerEnrolment == Spec => []ActsOncePerEnrolment
<1>1. Typed /\ ReceiptsKept /\ [Next]_vars => Typed' /\ ReceiptsKept'
  BY TypedStep, ReceiptsStep
<1>2. Init => ReceiptsKept
  <2> SUFFICES ASSUME Init PROVE ReceiptsKept
    OBVIOUS
  <2>1. /\ \A d \in Devices : roster[d] = None
        /\ \A r \in Requests : sent[r] = None /\ acted[r] = 0
    BY DEF Init
  <2> QED BY <2>1 DEF ReceiptsKept
<1>3. Typed /\ ReceiptsKept => ActsOncePerEnrolment
  BY DEF Typed, ReceiptsKept, Replayed, ActsOncePerEnrolment
<1> QED BY TypedInit, <1>1, <1>2, <1>3, PTL DEF Spec

-----------------------------------------------------------------------------
(* The current assessment.                                                 *)

(* The assessments of a store: they differ in their times, and of those of *)
(* an observation the preferred one is the best.                           *)
StoreFits(stored, pref, rev, time) ==
    /\ stored \subseteq Conclusions
    /\ \A a \in stored : a.id.rev <= rev /\ a.at \in 1..time
    /\ \A a, b \in stored : a.at = b.at => a = b
    /\ pref \in [Observations -> stored \cup {None}]
    /\ \A o \in Observations : pref[o] # None => pref[o].id.obs = o
    /\ \A a \in stored : /\ pref[a.id.obs] # None
                         /\ a = pref[a.id.obs] \/ Preferable(pref[a.id.obs], a)

(* The times of the assessments in progress are nobody else's.             *)
Busy(p) == process[p].step \in {"started", "ready"}
TimeOf(p) == IF process[p].step = "started" THEN process[p].at ELSE process[p].result.at
TimesApart ==
    /\ \A p \in Processes : Busy(p) => /\ TimeOf(p) \in 1..clock
                                       /\ \A a \in assessments : a.at # TimeOf(p)
    /\ \A p, q \in Processes : Busy(p) /\ Busy(q) /\ TimeOf(p) = TimeOf(q) => p = q

ProcessesFit ==
    \A p \in Processes :
        /\ process[p].step = "started" => process[p].obs \in Observations
        /\ process[p].step = "ready" =>
              /\ process[p].result \in Conclusions
              /\ process[p].result.id.seen = Sampled[process[p].result.id.obs]

(* What is retained, and what the evidence and the receipts are.           *)
RetainedFit ==
    /\ snapshot \in 0..newest /\ clock \in 0..MaxClock
    /\ ingested \in [Observations -> 0..MaxClock]
    /\ \A o \in Observations : samples[o] \subseteq Sampled[o]
    /\ \A a \in assessments : ingested[a.id.obs] # 0
    /\ receipts \subseteq {r \in Requests : sent[r] # None}

LatestInv ==
    /\ Typed /\ RetainedFit /\ ProcessesFit /\ TimesApart
    /\ StoreFits(assessments, preferred, revision, clock)
    /\ current # None => current = Latest(preferred)

LEMMA LastObservation ==
    ASSUME NEW T \in SUBSET Observations, T # {}
    PROVE  \E x \in T : \A y \in T : y <= x
<1> DEFINE Less == OpToRel(<, Nat)
           U == {NumObservations - o : o \in T}
<1>1. IsWellFoundedOn(Less, Nat)
  BY NatLessThanWellFounded
<1>2. \A x, y \in Nat : <<x, y>> \in Less <=> x < y
  BY DEF OpToRel
<1>3. U \in SUBSET Nat /\ U # {}
  <2>1. NumObservations \in Nat /\ \A o \in T : o \in 1..NumObservations
    BY RosterAssumption DEF Observations
  <2>2. \A o \in T : NumObservations - o \in Nat
    BY <2>1
  <2>3. PICK o \in T : TRUE
    OBVIOUS
  <2>4. NumObservations - o \in U
    BY <2>3
  <2> QED BY <2>2, <2>4
<1> HIDE DEF Less, U
<1>4. PICK x \in U : \A y \in U : ~ (<<y, x>> \in Less)
  BY <1>1, <1>3, WFMin
<1>5. PICK o \in T : x = NumObservations - o
  BY <1>4 DEF U
<1>6. ASSUME NEW y \in T PROVE y <= o
  <2>1. NumObservations - y \in U
    BY DEF U
  <2>2. ~(NumObservations - y < x)
    BY <1>2, <1>3, <1>4, <2>1
  <2>3. NumObservations \in Nat /\ y \in 1..NumObservations /\ o \in 1..NumObservations
    BY RosterAssumption DEF Observations
  <2> QED BY <1>5, <2>2, <2>3
<1> QED BY <1>6

(* The assessment that is current: of the last observation that has any.   *)
LEMMA LatestOf ==
    ASSUME NEW pref
    PROVE  \/ (\A o \in Observations : pref[o] = None) /\ Latest(pref) = None
           \/ \E o \in Observations : /\ pref[o] # None /\ Latest(pref) = pref[o]
                                      /\ \A q \in Observations : q > o => pref[q] = None
<1>1. CASE \A o \in Observations : pref[o] = None
  BY <1>1 DEF Latest
<1>2. CASE \E o \in Observations : pref[o] # None
  <2> DEFINE T == {o \in Observations : pref[o] # None}
             L(o) == /\ pref[o] # None
                     /\ \A q \in Observations : q > o => pref[q] = None
  <2>1. PICK x \in T : \A y \in T : y <= x
    BY <1>2, LastObservation
  <2>2. x \in Observations /\ L(x)
    BY <2>1 DEF Observations
  <2>3. Latest(pref) = pref[CHOOSE o \in Observations : L(o)]
    BY <1>2 DEF Latest
  <2> HIDE DEF L
  <2>4. (CHOOSE o \in Observations : L(o)) \in Observations /\ L(CHOOSE o \in Observations : L(o))
    BY <2>2
  <2> QED BY <2>3, <2>4 DEF L
<1> QED BY <1>1, <1>2

LEMMA LatestIs ==
    ASSUME NEW pref, NEW x \in Observations, pref[x] # None,
           \A q \in Observations : q > x => pref[q] = None
    PROVE  Latest(pref) = pref[x]
<1>1. PICK y \in Observations : /\ pref[y] # None /\ Latest(pref) = pref[y]
                                /\ \A q \in Observations : q > y => pref[q] = None
  BY LatestOf
<1>2. x \in Nat /\ y \in Nat
  BY DEF Observations
<1>3. y = x
  BY <1>1, <1>2
<1> QED BY <1>1, <1>3

LEMMA NoneIsNoConclusion == None \notin Conclusions
  BY NoneAssumption

LEMMA ConclusionFields ==
    \A a \in Conclusions : /\ a.id \in Identities /\ a.at \in Nat
                           /\ a.id.obs \in Observations /\ a.id.rev \in Nat
  BY DEF Conclusions, Identities

(* A new assessment is recorded, or one that is there is considered again. *)
LEMMA PreferStep ==
    ASSUME NEW stored, NEW pref, NEW rev \in Nat, NEW time \in Nat,
           StoreFits(stored, pref, rev, time),
           NEW rev2 \in Nat, NEW time2 \in Nat, rev <= rev2, time <= time2,
           NEW b \in Conclusions, b.id.rev <= rev2, b.at \in 1..time2,
           b \in stored \/ \A a \in stored : a.at # b.at,
           NEW n, n = [pref EXCEPT ![b.id.obs] = IF @ = None \/ Preferable(b, @) THEN b ELSE @]
    PROVE  StoreFits(stored \cup {b}, n, rev2, time2)
<1> DEFINE s == stored \cup {b}
<1>1. stored \subseteq Conclusions /\ pref \in [Observations -> stored \cup {None}]
  BY DEF StoreFits
<1>2. s \subseteq Conclusions
  BY <1>1
<1>3. \A a \in s : a.id.rev <= rev2 /\ a.at \in 1..time2
  BY <1>1, ConclusionFields DEF StoreFits
<1>4. \A a, c \in s : a.at = c.at => a = c
  BY DEF StoreFits
<1>5. b.id.obs \in Observations
  BY ConclusionFields
<1>6. n \in [Observations -> s \cup {None}]
  BY <1>1, <1>5
<1>7. \A o \in Observations : n[o] = IF o = b.id.obs /\ (pref[o] = None \/ Preferable(b, pref[o]))
                                     THEN b ELSE pref[o]
  BY <1>1, <1>5
<1>8. \A o \in Observations : n[o] # None => n[o].id.obs = o
  BY <1>7 DEF StoreFits
<1>9. ASSUME NEW a \in s
      PROVE  /\ n[a.id.obs] # None
             /\ a = n[a.id.obs] \/ Preferable(n[a.id.obs], a)
  <2> DEFINE o == a.id.obs
  <2>0. o \in Observations /\ b # None
    BY <1>2, ConclusionFields, NoneIsNoConclusion
  <2>1. CASE o # b.id.obs
    <3>1. a \in stored /\ n[o] = pref[o]
      BY <1>7, <2>0, <2>1
    <3> QED BY <3>1 DEF StoreFits
  <2>2. CASE o = b.id.obs /\ pref[o] = None
    <3>1. a = b
      BY <2>2 DEF StoreFits
    <3> QED BY <1>7, <2>0, <2>2, <3>1
  <2>3. CASE o = b.id.obs /\ pref[o] # None
    <3>1. pref[o] \in stored /\ pref[o].id.obs = o
      BY <1>1, <2>0, <2>3 DEF StoreFits
    <3>2. /\ pref[o].id.rev \in Nat /\ pref[o].at \in Nat /\ b.id.rev \in Nat /\ b.at \in Nat
          /\ a.id.rev \in Nat /\ a.at \in Nat
      BY <1>1, <1>2, <3>1, ConclusionFields
    <3>3. CASE a \in stored
      <4>1. a = pref[o] \/ Preferable(pref[o], a)
        BY <3>3 DEF StoreFits
      <4>2. CASE Preferable(b, pref[o])
        <5>1. n[o] = b
          BY <1>7, <2>0, <2>3, <4>2
        <5>2. Preferable(b, a)
          BY <4>1, <4>2, <3>2 DEF Preferable
        <5> QED BY <5>1, <5>2, <2>0
      <4>3. CASE ~Preferable(b, pref[o])
        <5>1. n[o] = pref[o]
          BY <1>7, <2>0, <2>3, <4>3
        <5> QED BY <5>1, <4>1, <2>3
      <4> QED BY <4>2, <4>3
    <3>4. CASE a = b /\ b \notin stored
      <4>1. pref[o].at # b.at
        BY <3>1, <3>4
      <4>2. CASE Preferable(b, pref[o])
        BY <1>7, <2>0, <2>3, <4>2, <3>4
      <4>3. CASE ~Preferable(b, pref[o])
        <5>1. Preferable(pref[o], b)
          BY <4>1, <4>3, <3>2 DEF Preferable
        <5>2. n[o] = pref[o]
          BY <1>7, <2>0, <2>3, <4>3
        <5> QED BY <5>1, <5>2, <3>4, <2>3
      <4> QED BY <4>2, <4>3
    <3> QED BY <3>3, <3>4
  <2> QED BY <2>1, <2>2, <2>3
<1> HIDE DEF s
<1>10. StoreFits(s, n, rev2, time2)
  BY <1>2, <1>3, <1>4, <1>6, <1>8, <1>9 DEF StoreFits
<1> QED BY <1>10 DEF s

(* The assessments of some observations are forgotten.                     *)
StoredOf(stored, S) == {a \in stored : a.id.obs \in S}
PreferredOf(pref, S) == [o \in Observations |-> IF o \in S THEN pref[o] ELSE None]

LEMMA KeepStep ==
    ASSUME NEW stored, NEW pref, NEW rev, NEW time, StoreFits(stored, pref, rev, time), NEW S
    PROVE  StoreFits(StoredOf(stored, S), PreferredOf(pref, S), rev, time)
<1> DEFINE s == StoredOf(stored, S)
           n == PreferredOf(pref, S)
<1>0. /\ s = {a \in stored : a.id.obs \in S}
      /\ n = [o \in Observations |-> IF o \in S THEN pref[o] ELSE None]
  BY DEF StoredOf, PreferredOf
<1> HIDE DEF s, n
<1>1. stored \subseteq Conclusions /\ pref \in [Observations -> stored \cup {None}]
  BY DEF StoreFits
<1>2. /\ s \subseteq Conclusions
      /\ \A a \in s : a.id.rev <= rev /\ a.at \in 1..time
      /\ \A a, b \in s : a.at = b.at => a = b
  BY <1>0 DEF StoreFits
<1>3. \A o \in Observations : pref[o] # None => pref[o].id.obs = o
  BY DEF StoreFits
<1>4. \A o \in Observations : n[o] \in s \cup {None}
  BY <1>0, <1>1, <1>3
<1>5. n \in [Observations -> s \cup {None}]
  BY <1>0, <1>4
<1>6. \A o \in Observations : n[o] # None => n[o].id.obs = o
  BY <1>0, <1>3
<1>7. ASSUME NEW a \in s
      PROVE  n[a.id.obs] # None /\ (a = n[a.id.obs] \/ Preferable(n[a.id.obs], a))
  <2>1. a.id.obs \in Observations /\ a.id.obs \in S /\ a \in stored
    BY <1>0, <1>2, ConclusionFields
  <2>2. n[a.id.obs] = pref[a.id.obs]
    BY <1>0, <2>1
  <2> QED BY <2>1, <2>2 DEF StoreFits
<1> QED BY <1>2, <1>5, <1>6, <1>7 DEF StoreFits, s, n

LEMMA AbsencesFit ==
    ASSUME NEW o, NEW records
    PROVE  PriorAbsences(o, records) \in UNION {[S -> Observations \cup {0}] : S \in SUBSET Devices}
<1> DEFINE D == {e \in Devices : /\ records[e] # None
                                 /\ records[e].state = "expected"
                                 /\ records[e].since <= o}
           Run(d) == {p \in Assessed :
                         /\ records[d].since <= p /\ p < o
                         /\ \A q \in Assessed : p <= q /\ q < o => d \notin samples[q]}
           N(d) == IF o \in Assessed /\ d \in samples[o] THEN 0 ELSE Cardinality(Run(d))
<1>1. PriorAbsences(o, records) = [d \in D |-> N(d)]
  BY DEF PriorAbsences
<1>2. \A d \in D : Run(d) \subseteq Observations
  BY DEF Assessed
<1>3. \A S : S \subseteq Observations => Cardinality(S) \in Observations \cup {0}
  <2> SUFFICES ASSUME NEW S, S \subseteq Observations
               PROVE  Cardinality(S) \in Observations \cup {0}
    OBVIOUS
  <2>1. IsFiniteSet(Observations) /\ Cardinality(Observations) = NumObservations
    BY RosterAssumption, FS_Interval DEF Observations
  <2>2. IsFiniteSet(S) /\ Cardinality(S) <= NumObservations
    <3> HIDE DEF D, Run, N
    <3> QED BY <2>1, FS_Subset
  <2>3. Cardinality(S) \in Nat
    BY <2>2, FS_CardinalityType
  <2> QED BY <2>2, <2>3, RosterAssumption DEF Observations
<1> HIDE DEF Run
<1>4. \A d \in D : N(d) \in Observations \cup {0}
  BY <1>2, <1>3
<1> HIDE DEF N
<1>5. [d \in D |-> N(d)] \in [D -> Observations \cup {0}]
  BY <1>4
<1>6. D \in SUBSET Devices
  OBVIOUS
<1> HIDE DEF D
<1> QED BY <1>1, <1>5, <1>6

LEMMA AssessmentFits ==
    ASSUME NEW o \in Observations, NEW seen \in SUBSET Devices,
           NEW records \in [Devices -> Enrolments \cup {None}], NEW rev \in Nat,
           NEW births \in [Devices -> Nat], NEW at \in Nat
    PROVE  /\ Assessment(o, seen, records, rev, births, at) \in Conclusions
           /\ Assessment(o, seen, records, rev, births, at).id.obs = o
           /\ Assessment(o, seen, records, rev, births, at).id.seen = seen
           /\ Assessment(o, seen, records, rev, births, at).at = at
<1> DEFINE absences == PriorAbsences(o, records)
<1>1. absences \in UNION {[S -> Observations \cup {0}] : S \in SUBSET Devices}
  BY AbsencesFit
<1>2. Assessment(o, seen, records, rev, births, at) =
        [id |-> [obs |-> o, seen |-> seen, records |-> records, rev |-> rev,
                 absences |-> absences], at |-> at, births |-> births]
  BY DEF Assessment
<1> HIDE DEF absences
<1>3. [obs |-> o, seen |-> seen, records |-> records, rev |-> rev,
       absences |-> absences] \in Identities
  BY <1>1 DEF Identities
<1> QED BY <1>2, <1>3 DEF Conclusions

(* The current assessment is made again.                                   *)
StoresReassessed ==
    /\ clock' = clock + 1 /\ clock' \in 0..MaxClock
    /\ StoreFits(assessments', preferred', revision', clock')
    /\ current' # None => current' = Latest(preferred')
    /\ \A a \in assessments' : \/ a \in assessments
                               \/ /\ a.at = clock'
                                  /\ \E c \in assessments : a.id.obs = c.id.obs
    /\ UNCHANGED <<ingested, samples>>

MutationReassesses ==
    current # None => /\ current' # None
                      /\ current'.id.obs = current.id.obs
                      /\ current'.id.records = roster' /\ current'.id.rev = revision'

LEMMA ReassessFits ==
    ASSUME LatestInv, Reassess, NEW S \in SUBSET Devices, Changes(S)
    PROVE  StoresReassessed /\ MutationReassesses
<1>1. /\ clock \in 0..MaxClock /\ clock' = clock + 1 /\ clock < MaxClock /\ MaxClock \in Nat
      /\ clock \in Nat /\ clock' \in Nat
  BY RosterAssumption DEF LatestInv, RetainedFit, Reassess
<1>2. /\ revision \in Nat /\ revision' \in Nat /\ revision < revision'
      /\ roster' \in [Devices -> Enrolments \cup {None}]
      /\ birth' \in [Devices -> Nat]
  BY DEF LatestInv, Typed, Changes, Births
<1>3. StoreFits(assessments, preferred, revision, clock)
  BY DEF LatestInv
<1>4. CASE current = None
  <2>1. UNCHANGED <<ingested, samples, assessments, preferred, current>>
    BY <1>4 DEF Reassess, results
  <2>2. assessments \subseteq Conclusions
    BY <1>3 DEF StoreFits
  <2>3. StoreFits(assessments, preferred, revision', clock')
    BY <1>1, <1>2, <1>3, <2>2, ConclusionFields DEF StoreFits
  <2> QED BY <1>1, <1>4, <2>1, <2>3 DEF StoresReassessed, MutationReassesses
<1>5. CASE current # None
  <2> DEFINE b == Reassessment
             o == current.id.obs
  <2>1. current = Latest(preferred)
    BY <1>5 DEF LatestInv
  <2>2. PICK x \in Observations : /\ preferred[x] # None /\ Latest(preferred) = preferred[x]
                                  /\ \A q \in Observations : q > x => preferred[q] = None
    BY <1>5, <2>1, LatestOf
  <2>3. o = x /\ current \in assessments /\ assessments \subseteq Conclusions
    BY <1>3, <2>1, <2>2 DEF StoreFits
  <2>4. samples[o] \in SUBSET Devices
    BY <2>2, <2>3, RosterAssumption DEF LatestInv, RetainedFit
  <2>5. /\ b \in Conclusions /\ b.id.obs = o /\ b.at = clock'
    BY <1>1, <1>2, <2>2, <2>3, <2>4, AssessmentFits DEF Reassessment
  <2>6. b.id.records = roster' /\ b.id.rev = revision'
    BY AssessmentFacts DEF Reassessment
  <2>7. /\ assessments' = assessments \cup {b} /\ preferred' = Prefer(b)
        /\ current' = Latest(preferred') /\ UNCHANGED <<ingested, samples>>
    BY <1>5 DEF Reassess
  <2> HIDE DEF b
  <2>8. preferred' = [preferred EXCEPT ![b.id.obs] =
                         IF @ = None \/ Preferable(b, @) THEN b ELSE @]
    BY <2>7 DEF Prefer
  <2>9. \A a \in assessments : a.at # b.at
    <3>1. \A a \in assessments : a.at \in 1..clock
      BY <1>3 DEF StoreFits
    <3> QED BY <1>1, <2>5, <3>1
  <2>10. b.id.rev <= revision' /\ b.at \in 1..clock' /\ revision <= revision' /\ clock <= clock'
    BY <1>1, <1>2, <2>5, <2>6
  <2>11. StoreFits(assessments \cup {b}, preferred', revision', clock')
    BY <1>1, <1>2, <1>3, <2>5, <2>8, <2>9, <2>10, PreferStep
  <2>12. preferred[o].id.rev <= revision /\ preferred[o].id.rev \in Nat
    BY <1>3, <2>1, <2>2, <2>3, ConclusionFields DEF StoreFits
  <2>13. Preferable(b, preferred[o])
    BY <1>2, <2>6, <2>12 DEF Preferable
  <2>14. preferred \in [Observations -> assessments \cup {None}]
    BY <1>3 DEF StoreFits
  <2>15. /\ preferred'[o] = b
         /\ \A q \in Observations : q # o => preferred'[q] = preferred[q]
    BY <2>2, <2>3, <2>5, <2>8, <2>13, <2>14
  <2>16. b # None
    BY <2>5, NoneIsNoConclusion
  <2>17. Latest(preferred') = b
    <3>1. \A q \in Observations : q > o => preferred'[q] = None
      BY <2>2, <2>3, <2>15 DEF Observations
    <3> QED BY <2>2, <2>3, <2>15, <2>16, <3>1, LatestIs
  <2>18. StoresReassessed
    BY <1>1, <2>3, <2>5, <2>7, <2>11 DEF StoresReassessed
  <2>19. MutationReassesses
    BY <2>5, <2>6, <2>7, <2>16, <2>17 DEF MutationReassesses
  <2> QED BY <2>18, <2>19
<1> QED BY <1>4, <1>5

(* Nothing in progress is disturbed by what is stored at a later time.     *)
LEMMA ReassessKeeps ==
    ASSUME LatestInv, StoresReassessed, UNCHANGED process
    PROVE  /\ ProcessesFit' /\ TimesApart'
           /\ \A a \in assessments' : ingested'[a.id.obs] # 0
<1>1. clock \in Nat /\ clock' = clock + 1
  BY RosterAssumption DEF LatestInv, RetainedFit, StoresReassessed
<1>2. ProcessesFit'
  BY DEF LatestInv, ProcessesFit
<1>3. TimesApart'
  <2>1. \A p \in Processes : Busy(p)' = Busy(p) /\ TimeOf(p)' = TimeOf(p)
    BY DEF Busy, TimeOf
  <2>2. ASSUME NEW p \in Processes, Busy(p), NEW a \in assessments'
        PROVE  a.at # TimeOf(p)
    <3>1. TimeOf(p) \in 1..clock
      BY <2>2 DEF LatestInv, TimesApart
    <3>2. CASE a \in assessments
      BY <2>2, <3>2 DEF LatestInv, TimesApart
    <3>3. CASE a.at = clock'
      BY <1>1, <3>1, <3>3
    <3> QED BY <3>2, <3>3 DEF StoresReassessed
  <2>3. \A p \in Processes : Busy(p) => TimeOf(p) \in 1..clock'
    BY <1>1 DEF LatestInv, TimesApart
  <2>4. \A p, q \in Processes : Busy(p) /\ Busy(q) /\ TimeOf(p) = TimeOf(q) => p = q
    BY DEF LatestInv, TimesApart
  <2> QED BY <2>1, <2>2, <2>3, <2>4 DEF TimesApart
<1>4. \A a \in assessments' : ingested'[a.id.obs] # 0
  BY DEF LatestInv, RetainedFit, StoresReassessed
<1> QED BY <1>2, <1>3, <1>4

(* What the steps must preserve besides the types.                         *)
StateFits ==
    /\ RetainedFit /\ ProcessesFit /\ TimesApart
    /\ StoreFits(assessments, preferred, revision, clock)
    /\ current # None => current = Latest(preferred)

LEMMA ChangeFits ==
    ASSUME LatestInv, Reassess, NEW S \in SUBSET Devices, Changes(S),
           UNCHANGED <<evidence, process, sent>>,
           receipts' \subseteq {r \in Requests : sent[r] # None}
    PROVE  StateFits' /\ MutationReassesses
<1>1. StoresReassessed /\ MutationReassesses
  BY ReassessFits
<1>2. /\ ProcessesFit' /\ TimesApart'
      /\ \A a \in assessments' : ingested'[a.id.obs] # 0
  BY <1>1, ReassessKeeps
<1>3. RetainedFit'
  BY <1>1, <1>2 DEF StoresReassessed, LatestInv, RetainedFit, evidence
<1> QED BY <1>1, <1>2, <1>3 DEF StoresReassessed, StateFits

LEMMA QuietFits ==
    ASSUME LatestInv, UNCHANGED <<clock, results, revision>>
    PROVE  /\ StoreFits(assessments, preferred, revision, clock)'
           /\ (current # None => current = Latest(preferred))'
           /\ UNCHANGED process => ProcessesFit' /\ TimesApart'
<1>1. UNCHANGED <<assessments, preferred, current>>
  BY DEF results
<1>2. /\ StoreFits(assessments, preferred, revision, clock)
      /\ current # None => current = Latest(preferred)
  BY DEF LatestInv
<1>3. StoreFits(assessments', preferred', revision', clock')
  BY <1>1, <1>2
<1>4. current' # None => current' = Latest(preferred')
  BY <1>1, <1>2
<1>5. ASSUME UNCHANGED process PROVE ProcessesFit' /\ TimesApart'
  BY <1>1, <1>5 DEF LatestInv, ProcessesFit, TimesApart, Busy, TimeOf
<1> QED BY <1>3, <1>4, <1>5

(* A processing takes a step: what it computes is its own, made at time t. *)
OwnStep(p, w, t) ==
    /\ process' = [process EXCEPT ![p] = w]
    /\ clock \in Nat /\ clock' \in Nat /\ clock <= clock'
    /\ w.step = "started" => w.obs \in Observations /\ w.at = t
    /\ w.step = "ready" => /\ w.result \in Conclusions
                           /\ w.result.id.seen = Sampled[w.result.id.obs]
                           /\ w.result.at = t
    /\ w.step \in {"started", "ready"} =>
          /\ t \in 1..clock'
          /\ \A a \in assessments' : a.at # t
          /\ \A q \in Processes : q # p /\ Busy(q) => TimeOf(q) # t
    /\ \A a \in assessments', q \in Processes : q # p /\ Busy(q) => a.at # TimeOf(q)

LEMMA ProcessFits ==
    ASSUME LatestInv, NEW p \in Processes, NEW w, NEW t, OwnStep(p, w, t)
    PROVE  ProcessesFit' /\ TimesApart'
<1> USE DEF OwnStep
<1>1. process'[p] = w /\ \A q \in Processes : q # p => process'[q] = process[q]
  BY DEF LatestInv, Typed
<1>2. ProcessesFit'
  BY <1>1 DEF LatestInv, ProcessesFit
<1>3. /\ \A q \in Processes : q # p => Busy(q)' = Busy(q) /\ TimeOf(q)' = TimeOf(q)
      /\ Busy(p)' => w.step \in {"started", "ready"} /\ TimeOf(p)' = t
  BY <1>1 DEF Busy, TimeOf
<1>4. /\ \A q \in Processes : Busy(q) => TimeOf(q) \in 1..clock
      /\ \A q, r \in Processes : Busy(q) /\ Busy(r) /\ TimeOf(q) = TimeOf(r) => q = r
  BY DEF LatestInv, TimesApart
<1>5. ASSUME NEW q \in Processes, Busy(q)'
      PROVE  TimeOf(q)' \in 1..clock' /\ \A a \in assessments' : a.at # TimeOf(q)'
  <2>1. CASE q = p
    BY <1>3, <1>5, <2>1
  <2>2. CASE q # p
    BY <1>3, <1>4, <1>5, <2>2
  <2> QED BY <2>1, <2>2
<1>6. ASSUME NEW q \in Processes, NEW r \in Processes, Busy(q)', Busy(r)', TimeOf(q)' = TimeOf(r)'
      PROVE  q = r
  BY <1>3, <1>4, <1>6
<1> QED BY <1>2, <1>5, <1>6 DEF TimesApart

LEMMA StartFits ==
    ASSUME LatestInv, NEW p \in Processes, StartProcessing(p)
    PROVE  StateFits'
<1> DEFINE w == [step |-> "started", obs |-> snapshot, at |-> clock']
<1>1. /\ process' = [process EXCEPT ![p] = w] /\ clock' = clock + 1 /\ clock < MaxClock
      /\ snapshot # 0 /\ UNCHANGED <<evidence, results, rosterVars, requests>>
  BY DEF StartProcessing
<1>2. UNCHANGED <<snapshot, newest, ingested, samples, assessments, preferred, current, revision,
                  sent, receipts>>
  BY <1>1 DEF evidence, results, rosterVars, requests
<1>3. /\ clock \in 0..MaxClock /\ MaxClock \in Nat /\ clock \in Nat /\ clock' \in Nat
      /\ snapshot \in Observations
  BY <1>1, RosterAssumption DEF LatestInv, RetainedFit, Typed, Observations
<1>4. StoreFits(assessments, preferred, revision, clock)
  BY DEF LatestInv
<1>5. StoreFits(assessments', preferred', revision', clock')
  <2>1. \A a \in assessments : a.at \in 1..clock'
    BY <1>1, <1>3, <1>4 DEF StoreFits
  <2>2. StoreFits(assessments, preferred, revision, clock')
    BY <1>4, <2>1 DEF StoreFits
  <2> QED BY <1>2, <2>2
<1>6. w.step = "started" /\ w.obs = snapshot /\ w.at = clock'
  OBVIOUS
<1> HIDE DEF w
<1>7. \A a \in assessments' : a.at # clock'
  BY <1>1, <1>2, <1>3, <1>4 DEF StoreFits
<1>8. \A q \in Processes : Busy(q) => TimeOf(q) # clock' /\ \A a \in assessments' : a.at # TimeOf(q)
  BY <1>1, <1>2, <1>3 DEF LatestInv, TimesApart
<1>9. ProcessesFit' /\ TimesApart'
  <2> DEFINE t == clock'
  <2>1. w.step = "started" => w.obs \in Observations
    BY <1>3, <1>6
  <2>2. /\ w.step = "ready" => /\ w.result \in Conclusions
                               /\ w.result.id.seen = Sampled[w.result.id.obs]
        /\ w.step = "started" => w.at = t
        /\ w.step = "ready" => w.result.at = t
    BY <1>6
  <2>3. w.step \in {"started", "ready"} =>
            /\ t \in 1..clock'
            /\ \A a \in assessments' : a.at # t
            /\ \A q \in Processes : q # p /\ Busy(q) => TimeOf(q) # t
    BY <1>1, <1>3, <1>7, <1>8
  <2>4. \A a \in assessments', q \in Processes : q # p /\ Busy(q) => a.at # TimeOf(q)
    BY <1>8
  <2>5. process' = [process EXCEPT ![p] = w] /\ clock <= clock' /\ clock \in Nat /\ clock' \in Nat
    BY <1>1, <1>3
  <2> HIDE DEF t
  <2>6. OwnStep(p, w, t)
    BY <2>1, <2>2, <2>3, <2>4, <2>5 DEF OwnStep
  <2> QED BY <2>6, ProcessFits
<1>10. RetainedFit'
  BY <1>1, <1>2, <1>3 DEF LatestInv, RetainedFit
<1>11. current' # None => current' = Latest(preferred')
  BY <1>2 DEF LatestInv
<1> QED BY <1>5, <1>9, <1>10, <1>11 DEF StateFits

LEMMA ReadFits ==
    ASSUME LatestInv, NEW p \in Processes, ReadRoster(p)
    PROVE  StateFits'
<1> DEFINE a == Assessment(process[p].obs, Sampled[process[p].obs], roster, revision,
                           birth, process[p].at)
           w == [step |-> "ready", result |-> a]
<1>1. /\ process[p].step = "started" /\ process' = [process EXCEPT ![p] = w]
      /\ UNCHANGED <<evidence, clock, results, rosterVars, requests>>
  BY DEF ReadRoster
<1>2. UNCHANGED <<snapshot, newest, clock, ingested, samples, assessments, revision, sent,
                  receipts>>
  BY <1>1 DEF evidence, results, rosterVars, requests
<1>3. process[p].obs \in Observations
  BY <1>1 DEF LatestInv, ProcessesFit
<1>4. /\ Busy(p) /\ TimeOf(p) = process[p].at /\ process[p].at \in 1..clock
      /\ \A b \in assessments : b.at # process[p].at
  BY <1>1 DEF LatestInv, TimesApart, Busy, TimeOf
<1>5. /\ clock \in Nat /\ Sampled[process[p].obs] \in SUBSET Devices /\ process[p].at \in Nat
      /\ roster \in [Devices -> Enrolments \cup {None}] /\ revision \in Nat
      /\ birth \in [Devices -> Nat]
  BY <1>3, <1>4, RosterAssumption DEF LatestInv, RetainedFit, Typed
<1>6. /\ a \in Conclusions /\ a.id.obs = process[p].obs
      /\ a.id.seen = Sampled[process[p].obs] /\ a.at = process[p].at
  BY <1>3, <1>5, AssessmentFits
<1>7. w.step = "ready" /\ w.result = a
  OBVIOUS
<1> HIDE DEF w, a
<1>8. \A q \in Processes : Busy(q) => /\ q # p => TimeOf(q) # process[p].at
                                      /\ \A b \in assessments' : b.at # TimeOf(q)
  BY <1>2, <1>4 DEF LatestInv, TimesApart
<1>9. ProcessesFit' /\ TimesApart'
  <2> DEFINE t == process[p].at
  <2>1. w.step = "started" => w.obs \in Observations /\ w.at = t
    BY <1>7
  <2>2. w.step = "ready" => /\ w.result \in Conclusions
                            /\ w.result.id.seen = Sampled[w.result.id.obs]
                            /\ w.result.at = t
    BY <1>6, <1>7
  <2>3. w.step \in {"started", "ready"} =>
            /\ t \in 1..clock'
            /\ \A b \in assessments' : b.at # t
            /\ \A q \in Processes : q # p /\ Busy(q) => TimeOf(q) # t
    BY <1>2, <1>4, <1>8
  <2>4. \A b \in assessments', q \in Processes : q # p /\ Busy(q) => b.at # TimeOf(q)
    BY <1>8
  <2>5. process' = [process EXCEPT ![p] = w] /\ clock <= clock' /\ clock \in Nat /\ clock' \in Nat
    BY <1>1, <1>2, <1>5
  <2> HIDE DEF t
  <2>6. OwnStep(p, w, t)
    BY <2>1, <2>2, <2>3, <2>4, <2>5 DEF OwnStep
  <2> QED BY <2>6, ProcessFits
<1>10. RetainedFit'
  BY <1>2 DEF LatestInv, RetainedFit
<1>11. /\ StoreFits(assessments, preferred, revision, clock)'
       /\ (current # None => current = Latest(preferred))'
  BY <1>1, <1>2, QuietFits
<1> QED BY <1>9, <1>10, <1>11 DEF StateFits

LEMMA RowFits ==
    ASSUME NEW a, Insertable(a) \/ Stored(a)
    PROVE  Row(a) = a \/ (Row(a) \in assessments /\ Row(a).id = a.id)
  BY DEF Row, Stored

LEMMA SaveFits ==
    ASSUME LatestInv, NEW p \in Processes, Save(p)
    PROVE  StateFits'
<1> DEFINE a == process[p].result
           o == a.id.obs
           new == ingested[o] = 0
           times == [ingested EXCEPT ![o] = IF new THEN a.at ELSE @]
           b == Row(a)
           pref == Prefer(b)
           kept == Kept(times)
           stored == assessments \cup {b}
<1>1. /\ process[p].step = "ready" /\ UpToDate(a) /\ (Insertable(a) \/ Stored(a))
      /\ ingested' = [q \in Observations |-> IF q \in kept THEN times[q] ELSE 0]
      /\ samples' = [q \in Observations |-> IF q \notin kept THEN {}
                                            ELSE IF q = o /\ new THEN a.id.seen
                                            ELSE samples[q]]
      /\ assessments' = {c \in stored : c.id.obs \in kept}
      /\ preferred' = [q \in Observations |-> IF q \in kept THEN pref[q] ELSE None]
      /\ current' = IF Latest(pref).id.obs \in kept THEN Latest(pref) ELSE None
      /\ process' = [process EXCEPT ![p] = Idle]
      /\ UNCHANGED <<evidence, clock, rosterVars, requests>>
  BY DEF Save
<1>2. UNCHANGED <<snapshot, newest, clock, revision, sent, receipts>>
  BY <1>1 DEF evidence, rosterVars, requests
<1>3. a \in Conclusions /\ a.id.seen = Sampled[o] /\ o \in Observations /\ a.id.rev = revision
  <2>1. process[p].step = "ready" /\ UpToDate(a)
    BY <1>1
  <2>2. a \in Conclusions /\ a.id.seen = Sampled[o]
    BY <2>1 DEF LatestInv, ProcessesFit
  <2> HIDE DEF a
  <2> QED BY <2>1, <2>2, ConclusionFields DEF UpToDate
<1>4. /\ Busy(p) /\ TimeOf(p) = a.at /\ a.at \in 1..clock
      /\ \A c \in assessments : c.at # a.at
  <2>1. process[p].step = "ready"
    BY <1>1
  <2>2. Busy(p) /\ TimeOf(p) = a.at
    BY <2>1 DEF Busy, TimeOf
  <2> QED BY <2>2 DEF LatestInv, TimesApart
<1>5. StoreFits(assessments, preferred, revision, clock)
  BY DEF LatestInv
<1>6. clock \in 0..MaxClock /\ MaxClock \in Nat /\ clock \in Nat /\ revision \in Nat
  BY RosterAssumption DEF LatestInv, RetainedFit, Typed
<1>7. \A q \in kept : q \in Observations /\ times[q] # 0
  BY DEF Kept
<1>8. ingested \in [Observations -> 0..MaxClock] /\ times \in [Observations -> 0..MaxClock]
  BY <1>3, <1>4, <1>6 DEF LatestInv, RetainedFit
<1>9. b = a \/ (b \in assessments /\ b.id = a.id)
  BY <1>1, RowFits
<1> HIDE DEF times, kept, b, new
<1>10. b \in Conclusions /\ b.id = a.id /\ b.at \in 1..clock
  BY <1>3, <1>4, <1>5, <1>9 DEF StoreFits
<1>11. pref = [preferred EXCEPT ![b.id.obs] = IF @ = None \/ Preferable(b, @) THEN b ELSE @]
  BY DEF Prefer
<1>12. b \in assessments \/ \A c \in assessments : c.at # b.at
  BY <1>4, <1>9
<1>13. b.id.rev <= revision
  BY <1>3, <1>6, <1>10
<1> HIDE DEF pref
<1>14. StoreFits(stored, pref, revision, clock)
  <2>1. revision <= revision /\ clock <= clock
    BY <1>6
  <2> QED BY <1>5, <1>6, <1>10, <1>11, <1>12, <1>13, <2>1, PreferStep
<1>15. StoreFits(assessments', preferred', revision', clock')
  <2>1. StoreFits(assessments', preferred', revision, clock)
    <3>1. assessments' = StoredOf(stored, kept) /\ preferred' = PreferredOf(pref, kept)
      BY <1>1 DEF StoredOf, PreferredOf
    <3> QED BY <1>14, <3>1, KeepStep
  <2> QED BY <1>1, <1>2, <2>1
<1>16. RetainedFit'
  <2>1. ingested' \in [Observations -> 0..MaxClock]
    BY <1>1, <1>6, <1>8
  <2>2. \A c \in assessments' : ingested'[c.id.obs] # 0
    BY <1>1, <1>7
  <2>3. \A q \in Observations : samples'[q] \subseteq Sampled[q]
    BY <1>1, <1>3 DEF LatestInv, RetainedFit
  <2> QED BY <1>2, <2>1, <2>2, <2>3 DEF LatestInv, RetainedFit
<1>17. ProcessesFit' /\ TimesApart'
  <2>1. ASSUME NEW c \in assessments', NEW q \in Processes, q # p, Busy(q)
        PROVE  c.at # TimeOf(q)
    <3>1. c \in assessments \/ c = a
      BY <1>1, <1>9
    <3> QED BY <1>4, <2>1, <3>1 DEF LatestInv, TimesApart
  <2>2. Idle.step = "idle"
    BY DEF Idle
  <2>3. OwnStep(p, Idle, 0)
    BY <1>1, <1>2, <1>6, <2>1, <2>2 DEF OwnStep
  <2> QED BY <2>3, ProcessFits
<1>18. ASSUME current' # None PROVE current' = Latest(preferred')
  <2>1. current' = Latest(pref) /\ Latest(pref).id.obs \in kept /\ Latest(pref) # None
    BY <1>1, <1>18
  <2>2. PICK x \in Observations : /\ pref[x] # None /\ Latest(pref) = pref[x]
                                  /\ \A q \in Observations : q > x => pref[q] = None
    BY <2>1, LatestOf
  <2>3. pref[x].id.obs = x
    BY <1>14, <2>2 DEF StoreFits
  <2>4. preferred'[x] = pref[x] /\ \A q \in Observations : q > x => preferred'[q] = None
    BY <1>1, <2>1, <2>2, <2>3
  <2>5. Latest(preferred') = preferred'[x]
    BY <2>2, <2>4, LatestIs
  <2> QED BY <2>1, <2>2, <2>4, <2>5
<1> QED BY <1>15, <1>16, <1>17, <1>18 DEF StateFits

LEMMA ProcessingFits ==
    ASSUME LatestInv, NEW p \in Processes, Processing(p)
    PROVE  StateFits'
<1>1. ASSUME NEW w, w.step \notin {"started", "ready"}, process' = [process EXCEPT ![p] = w],
             UNCHANGED <<evidence, clock, results, rosterVars, requests>>
      PROVE  StateFits'
  <2>1. /\ UNCHANGED <<snapshot, newest, clock, ingested, samples, assessments, revision,
                       sent, receipts>>
        /\ clock \in Nat
    BY <1>1, RosterAssumption DEF evidence, results, rosterVars, requests, LatestInv, RetainedFit
  <2>2. \A a \in assessments', q \in Processes : q # p /\ Busy(q) => a.at # TimeOf(q)
    BY <2>1 DEF LatestInv, TimesApart
  <2>3. OwnStep(p, w, 0)
    BY <1>1, <2>1, <2>2 DEF OwnStep
  <2>4. ProcessesFit' /\ TimesApart'
    BY <2>3, ProcessFits
  <2>5. RetainedFit'
    BY <2>1 DEF LatestInv, RetainedFit
  <2> QED BY <1>1, <2>1, <2>4, <2>5, QuietFits DEF StateFits
<1>2. CASE SaveStale(p)
  <2>1. Idle.step \notin {"started", "ready"}
    BY DEF Idle
  <2> QED BY <1>1, <1>2, <2>1 DEF SaveStale
<1>3. CASE SaveFails(p)
  <2> DEFINE w == [step |-> "failed"]
  <2>1. w.step \notin {"started", "ready"}
    OBVIOUS
  <2>2. process' = [process EXCEPT ![p] = w]
    BY <1>3 DEF SaveFails
  <2> HIDE DEF w
  <2> QED BY <1>1, <1>3, <2>1, <2>2 DEF SaveFails
<1> QED BY <1>2, <1>3, StartFits, ReadFits, SaveFits DEF Processing

(* Assessments are purged.                                                 *)
LEMMA KeepFits ==
    ASSUME LatestInv, NEW S, KeepAssessments(S), UNCHANGED <<clock, process>>,
           NEW rev \in Nat, \A a \in assessments' : a.id.rev <= rev
    PROVE  /\ StoreFits(assessments', preferred', rev, clock')
           /\ current' # None => current' = Latest(preferred')
           /\ ProcessesFit' /\ TimesApart' /\ assessments' \subseteq assessments
<1>1. /\ assessments' = {a \in assessments : a.id.obs \in S}
      /\ preferred' = [o \in Observations |-> IF o \in S THEN preferred[o] ELSE None]
      /\ current' = Latest(preferred')
  BY DEF KeepAssessments
<1>2. StoreFits(assessments, preferred, revision, clock)
  BY DEF LatestInv
<1>3. StoreFits(assessments', preferred', revision, clock)
  <2>1. assessments' = StoredOf(assessments, S) /\ preferred' = PreferredOf(preferred, S)
    BY <1>1 DEF StoredOf, PreferredOf
  <2> QED BY <1>2, <2>1, KeepStep
<1>4. StoreFits(assessments', preferred', revision, clock')
  BY <1>1, <1>3
<1>5. StoreFits(assessments', preferred', rev, clock')
  BY <1>4 DEF StoreFits
<1>6. ProcessesFit' /\ TimesApart'
  BY <1>1 DEF LatestInv, ProcessesFit, TimesApart, Busy, TimeOf
<1> QED BY <1>1, <1>5, <1>6

LEMMA PurgeFits ==
    ASSUME LatestInv,
           PurgeAll \/ (\E d \in Devices : PurgeDevice(d)) \/ \E o \in Observations : PurgeBefore(o)
    PROVE  StateFits'
<1>0. /\ assessments \subseteq Conclusions /\ revision \in Nat
      /\ \A a \in assessments : a.id.rev <= revision /\ a.id.rev \in Nat
  BY ConclusionFields DEF LatestInv, StoreFits, Typed
<1>1. ASSUME NEW o \in Observations, PurgeBefore(o) PROVE StateFits'
  <2>1. /\ ingested' = [q \in Observations |-> IF q < o THEN 0 ELSE ingested[q]]
        /\ samples' = [q \in Observations |-> IF q < o THEN {} ELSE samples[q]]
        /\ KeepAssessments(o..NumObservations)
        /\ UNCHANGED <<snapshot, newest, clock, revision, sent, receipts, process>>
    BY <1>1 DEF PurgeBefore, evidence, rosterVars, requests
  <2>2. \A a \in assessments' : a \in assessments /\ a.id.obs \in o..NumObservations
    BY <2>1 DEF KeepAssessments
  <2>3. /\ StoreFits(assessments', preferred', revision, clock')
        /\ current' # None => current' = Latest(preferred')
        /\ ProcessesFit' /\ TimesApart'
    BY <1>0, <2>1, <2>2, KeepFits
  <2>4. RetainedFit'
    <3>1. ingested' \in [Observations -> 0..MaxClock]
      BY <2>1, RosterAssumption DEF LatestInv, RetainedFit
    <3>2. \A a \in assessments' : ingested'[a.id.obs] # 0
      <4> SUFFICES ASSUME NEW a \in assessments' PROVE ingested'[a.id.obs] # 0
        OBVIOUS
      <4>1. a.id.obs \in Observations /\ a.id.obs \in o..NumObservations
        BY <1>0, <2>2, ConclusionFields
      <4>2. ~(a.id.obs < o)
        BY <4>1 DEF Observations
      <4>3. ingested[a.id.obs] # 0
        BY <2>2 DEF LatestInv, RetainedFit
      <4> QED BY <2>1, <4>1, <4>2, <4>3
    <3> QED BY <2>1, <3>1, <3>2 DEF LatestInv, RetainedFit
  <2> QED BY <2>1, <2>3, <2>4 DEF StateFits
<1>2. ASSUME PurgeAll PROVE StateFits'
  <2>1. /\ ingested' = [o \in Observations |-> 0] /\ samples' = [o \in Observations |-> {}]
        /\ KeepAssessments({}) /\ revision' = 0 /\ receipts' = {}
        /\ UNCHANGED <<snapshot, newest, clock, sent, process>>
    BY <1>2 DEF PurgeAll, evidence
  <2>2. assessments' = {}
    BY <2>1 DEF KeepAssessments
  <2>3. /\ StoreFits(assessments', preferred', 0, clock')
        /\ current' # None => current' = Latest(preferred')
        /\ ProcessesFit' /\ TimesApart'
    BY <2>1, <2>2, KeepFits
  <2>4. RetainedFit'
    BY <2>1, <2>2, RosterAssumption DEF LatestInv, RetainedFit
  <2> QED BY <2>1, <2>3, <2>4 DEF StateFits
<1>3. ASSUME NEW d \in Devices, PurgeDevice(d) PROVE StateFits'
  <2>1. PICK S : KeepAssessments(S)
    BY <1>3 DEF PurgeDevice
  <2>2. /\ samples' = [o \in Observations |-> samples[o] \ {d}]
        /\ revision' = NextRevision(d) /\ receipts' \subseteq receipts
        /\ UNCHANGED <<snapshot, newest, clock, ingested, sent, process>>
    BY <1>3 DEF PurgeDevice, evidence
  <2>3. revision' \in Nat /\ revision <= revision'
    BY <1>0, <2>2 DEF NextRevision
  <2>4. assessments' \subseteq assessments
    BY <2>1 DEF KeepAssessments
  <2>5. \A a \in assessments' : a.id.rev <= revision'
    BY <1>0, <2>3, <2>4
  <2>6. /\ StoreFits(assessments', preferred', revision', clock')
        /\ current' # None => current' = Latest(preferred')
        /\ ProcessesFit' /\ TimesApart'
    BY <2>1, <2>2, <2>3, <2>5, KeepFits
  <2>7. RetainedFit'
    BY <2>2, <2>4 DEF LatestInv, RetainedFit
  <2> QED BY <2>6, <2>7 DEF StateFits
<1> QED BY <1>1, <1>2, <1>3

MutationStep ==
    clock' # clock /\ revision' # revision /\ current # None =>
        /\ current' # None
        /\ current'.id.obs = current.id.obs
        /\ current'.id.records = roster' /\ current'.id.rev = revision'

LEMMA LatestStep ==
    ASSUME LatestInv, [Next]_vars
    PROVE  LatestInv' /\ MutationStep
<1>t. Typed /\ Typed'
  BY TypedStep DEF LatestInv
<1>a. receipts \subseteq {r \in Requests : sent[r] # None}
  BY DEF LatestInv, RetainedFit
<1> SUFFICES StateFits' /\ MutationStep
  BY <1>t DEF LatestInv, StateFits
<1>1. CASE Collect
  <2>1. /\ UNCHANGED <<clock, results, revision, process, ingested, samples, assessments,
                       sent, receipts>>
        /\ snapshot' \in 0..newest'
    <3>1. PICK o \in Observations : /\ o <= newest + 1 /\ snapshot' = o
                                    /\ newest' = IF o > newest THEN o ELSE newest
      BY <1>1 DEF Collect
    <3>2. newest \in Nat /\ o \in Nat
      BY <1>t DEF Typed, Observations
    <3>3. snapshot' \in 0..newest'
      BY <3>1, <3>2
    <3> QED BY <1>1, <3>3 DEF Collect, results, rosterVars, requests
  <2>2. RetainedFit'
    BY <2>1 DEF LatestInv, RetainedFit
  <2> QED BY <2>1, <2>2, QuietFits DEF StateFits, MutationStep
<1>2. ASSUME NEW r \in Requests, ApplyAction(r) PROVE StateFits' /\ MutationStep
  <2>1. /\ UNCHANGED <<evidence, process, sent>> /\ sent[r] # None
        /\ receipts' = receipts \cup {r}
    BY <1>2 DEF ApplyAction, WriteReceipt
  <2>2. receipts' \subseteq {q \in Requests : sent[q] # None}
    BY <1>a, <2>1
  <2>3. CASE UNCHANGED <<clock, results, rosterVars, acted>>
    <3>1. UNCHANGED <<snapshot, newest, clock, ingested, samples, assessments, revision>>
      BY <2>1, <2>3 DEF evidence, results, rosterVars
    <3>2. RetainedFit'
      BY <2>1, <2>2, <3>1 DEF LatestInv, RetainedFit
    <3> QED BY <2>1, <2>3, <3>1, <3>2, QuietFits DEF StateFits, MutationStep
  <2>4. CASE Changes({sent[r].device}) /\ Reassess
    <3>1. {sent[r].device} \in SUBSET Devices
      BY <1>t, <2>1 DEF Typed
    <3> QED BY <2>1, <2>2, <2>4, <3>1, ChangeFits DEF MutationStep, MutationReassesses
  <2> QED BY <1>2, <1>t, <2>3, <2>4, ApplyChanges
<1>3. ASSUME NEW r \in Requests, NEW d \in Devices, Send(r, d) PROVE StateFits' /\ MutationStep
  <2>1. /\ UNCHANGED <<snapshot, newest, clock, results, ingested, samples, assessments,
                       revision, receipts, process>>
        /\ sent[r] = None /\ \A q \in Requests : q # r => sent'[q] = sent[q]
    BY <1>3, <1>t DEF Send, Typed, evidence, results, rosterVars
  <2>2. receipts' \subseteq {q \in Requests : sent'[q] # None}
    BY <1>a, <2>1
  <2>3. RetainedFit'
    BY <2>1, <2>2 DEF LatestInv, RetainedFit
  <2> QED BY <2>1, <2>3, QuietFits DEF StateFits, MutationStep
<1>4. ASSUME NEW d \in Devices, SetDevice(d) PROVE StateFits' /\ MutationStep
  <2>1. Changes({d}) /\ Reassess /\ {d} \in SUBSET Devices
    BY <1>4, <1>t, SetChanges
  <2>2. UNCHANGED <<evidence, process, sent, receipts>>
    BY <1>4 DEF SetDevice, requests
  <2> QED BY <1>a, <2>1, <2>2, ChangeFits DEF MutationStep, MutationReassesses
<1>5. ASSUME NEW S \in SUBSET Devices, ImportDevices(S) PROVE StateFits' /\ MutationStep
  <2>1. PICK T \in SUBSET Devices : Changes(T) /\ Reassess
    BY <1>5, <1>t, ImportChanges
  <2>2. UNCHANGED <<evidence, process, sent, receipts>>
    BY <1>5 DEF ImportDevices, requests
  <2> QED BY <1>a, <2>1, <2>2, ChangeFits DEF MutationStep, MutationReassesses
<1>6. ASSUME NEW p \in Processes, Processing(p) PROVE StateFits' /\ MutationStep
  <2>1. UNCHANGED revision
    BY <1>6 DEF Processing, StartProcessing, ReadRoster, SaveStale, SaveFails, Save, rosterVars
  <2> QED BY <1>6, <2>1, ProcessingFits DEF MutationStep
<1>7. ASSUME \/ PurgeAll \/ (\E d \in Devices : PurgeDevice(d))
             \/ \E o \in Observations : PurgeBefore(o)
      PROVE  StateFits' /\ MutationStep
  <2>1. UNCHANGED clock
    BY <1>7 DEF PurgeAll, PurgeDevice, PurgeBefore
  <2> QED BY <1>7, <2>1, PurgeFits DEF MutationStep
<1>8. CASE UNCHANGED vars
  <2>1. UNCHANGED <<snapshot, newest, clock, results, ingested, samples, assessments,
                    revision, sent, receipts, process>>
    BY <1>8 DEF vars, evidence, results, rosterVars, requests
  <2>2. RetainedFit'
    BY <2>1 DEF LatestInv, RetainedFit
  <2> QED BY <2>1, <2>2, QuietFits DEF StateFits, MutationStep
<1> QED BY <1>1, <1>2, <1>3, <1>4, <1>5, <1>6, <1>7, <1>8 DEF Next

LEMMA LatestInit == Init => LatestInv
<1> SUFFICES ASSUME Init PROVE LatestInv
  OBVIOUS
<1>1. StoreFits(assessments, preferred, revision, clock)
  BY DEF Init, StoreFits
<1>2. ProcessesFit /\ TimesApart
  BY DEF Init, Idle, ProcessesFit, TimesApart, Busy
<1>3. RetainedFit
  BY RosterAssumption DEF Init, RetainedFit
<1> QED BY <1>1, <1>2, <1>3, TypedInit DEF LatestInv, Init

LEMMA LatestGoal == LatestInv => TypeOK /\ CurrentIsLatest
<1> SUFFICES ASSUME LatestInv PROVE TypeOK /\ CurrentIsLatest
  OBVIOUS
<1>1. StoreFits(assessments, preferred, revision, clock) /\ Typed /\ RetainedFit
  BY DEF LatestInv
<1>2. /\ assessments \subseteq Conclusions
      /\ preferred \in [Observations -> assessments \cup {None}]
      /\ \A o \in Observations : preferred[o] # None => preferred[o].id.obs = o
      /\ \A a \in assessments : /\ preferred[a.id.obs] # None
                                /\ a = preferred[a.id.obs] \/ Preferable(preferred[a.id.obs], a)
  BY <1>1 DEF StoreFits
<1>3. CASE current # None
  <2>1. current = Latest(preferred)
    BY <1>3 DEF LatestInv
  <2>2. PICK x \in Observations : /\ preferred[x] # None /\ Latest(preferred) = preferred[x]
                                  /\ \A q \in Observations : q > x => preferred[q] = None
    BY <1>3, <2>1, LatestOf
  <2>3. current \in assessments /\ current.id.obs = x /\ current = preferred[x]
    BY <1>2, <2>1, <2>2
  <2>4. ASSUME NEW a \in assessments
        PROVE  \/ a = current
               \/ current.id.obs > a.id.obs
               \/ current.id.obs = a.id.obs /\ Preferable(current, a)
    <3>1. a.id.obs \in Observations /\ preferred[a.id.obs] # None
      BY <1>2, ConclusionFields
    <3>2. a.id.obs \in Nat /\ x \in Nat /\ ~(a.id.obs > x)
      BY <2>2, <3>1 DEF Observations
    <3>3. CASE a.id.obs = x
      BY <1>2, <2>3, <3>3
    <3>4. CASE x > a.id.obs
      BY <2>3, <3>4
    <3> QED BY <3>2, <3>3, <3>4
  <2> QED BY <1>1, <1>2, <2>3, <2>4 DEF TypeOK, CurrentIsLatest, Typed, RetainedFit
<1>4. CASE current = None
  BY <1>1, <1>2, <1>4 DEF TypeOK, CurrentIsLatest, Typed, RetainedFit
<1> QED BY <1>3, <1>4

(* Through every order of saves, roster changes, retention and purges the  *)
(* current assessment is of the newest observation that has any, by the    *)
(* latest roster and then the latest in time.                              *)
THEOREM CurrentStaysLatest == Spec => [](TypeOK /\ CurrentIsLatest)
<1>1. LatestInv /\ [Next]_vars => LatestInv'
  BY LatestStep
<1> QED BY LatestInit, LatestGoal, <1>1, PTL DEF Spec

(* A change of the roster judges the current observation anew, by the new  *)
(* roster, in the same transaction (_reassess_network).                    *)
THEOREM MutationsReassess == Spec => MutationReassessesCurrent
<1>1. LatestInv /\ [Next]_vars => LatestInv'
  BY LatestStep
<1>2. LatestInv /\ [Next]_vars =>
        [clock' # clock /\ revision' # revision /\ current # None =>
           /\ current' # None
           /\ current'.id.obs = current.id.obs
           /\ current'.id.records = roster' /\ current'.id.rev = revision']_vars
  BY LatestStep DEF MutationStep
<1> QED BY LatestInit, <1>1, <1>2, PTL DEF Spec, MutationReassessesCurrent
=============================================================================
