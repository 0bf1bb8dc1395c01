---------------------------- MODULE HealthRoster ----------------------------
(***************************************************************************)
(* The health store of one network and one dataset: retained observations, *)
(* their assessments, the roster of expected devices they are judged by,   *)
(* and the current assessment (td_health_sqlite.py,                        *)
(* td_health_roster_mutation.py, process_health of td_health_processor.py).*)
(* Every step of the store is one BEGIN IMMEDIATE transaction; health      *)
(* processing is three steps, so that anything can be committed between    *)
(* the roster it reads and the result it saves.                            *)
(*                                                                         *)
(* Observations are numbered in the order of observedAt.  An enrolment's   *)
(* expectedSince is the first number that counts, 0 for NULL.              *)
(***************************************************************************)
EXTENDS Naturals, FiniteSets

CONSTANTS Devices,
          NumObservations, \* bound on the collections of evidence
          Sampled,         \* the devices seen in each of them
          MaxRetained,     \* max_observations
          Requests,        \* request ids of the browser
          Actions,         \* the browser's actions in play
          CliStates,       \* the states --roster-state sets
          Purges,          \* the purge commands in play
          Processes,       \* health processing that runs at the same time
          MaxClock,        \* bound on the times anything is assessed
          None

Observations == 1..NumObservations
States == {"expected", "intentionally-offline", "intermittent", "retired"}
Enrolments == [state : States, rev : Nat \ {0}, since : 0..NumObservations + 1]

\* What an assessment may be; None is none of them.
Identities ==
    [obs : Observations, seen : SUBSET Devices, records : [Devices -> Enrolments \cup {None}],
     rev : Nat, absences : UNION {[S -> Observations \cup {0}] : S \in SUBSET Devices}]
Conclusions == [id : Identities, at : Nat, births : [Devices -> Nat]]

ASSUME NoneAssumption == None \notin Enrolments \cup Conclusions

ASSUME RosterAssumption ==
    /\ IsFiniteSet(Devices)
    /\ NumObservations \in Nat \ {0} /\ MaxRetained \in Nat \ {0} /\ MaxClock \in Nat
    /\ Sampled \in [Observations -> SUBSET Devices]
    /\ CliStates \subseteq States
    /\ Actions \subseteq {"enroll", "mark-offline", "clear-offline", "retire", "unretire"}
    /\ Purges \subseteq {"before", "device", "all"}

VARIABLES snapshot,    \* the evidence on disk, 0 before the first collection
          newest,      \* the latest evidence ever collected
          clock,       \* how many times something was assessed
          ingested,    \* when each observation was ingested, 0 if not retained
          samples,     \* the device samples retained of each
          assessments, \* what was concluded: its identity, when, and its basis
          preferred,   \* the preferred assessment of each observation
          current,     \* the current assessment
          roster,      \* expected_devices
          revision,    \* the network's roster revision
          sent,        \* the browser's requests
          receipts,    \* requests with a receipt
          process,     \* health processing in progress
          birth,       \* history: which enrolment of the device the roster holds
          acted        \* history: how often each request changed the roster

evidence == <<snapshot, newest>>
results == <<ingested, samples, assessments, preferred, current>>
rosterVars == <<roster, revision, birth>>
requests == <<sent, receipts, acted>>
vars == <<evidence, clock, results, rosterVars, requests, process>>

Idle == [step |-> "idle"]

Init ==
    /\ snapshot = 0 /\ newest = 0 /\ clock = 0
    /\ ingested = [o \in Observations |-> 0]
    /\ samples = [o \in Observations |-> {}]
    /\ assessments = {}
    /\ preferred = [o \in Observations |-> None]
    /\ current = None
    /\ roster = [d \in Devices |-> None] /\ revision = 0
    /\ birth = [d \in Devices |-> 0]
    /\ sent = [r \in Requests |-> None] /\ receipts = {}
    /\ acted = [r \in Requests |-> 0]
    /\ process = [p \in Processes |-> Idle]

\* New evidence, or evidence brought back by a restored backup.
Collect ==
    /\ \E o \in Observations :
          /\ o <= newest + 1 /\ o # snapshot
          /\ snapshot' = o
          /\ newest' = IF o > newest THEN o ELSE newest
    /\ UNCHANGED <<clock, results, rosterVars, requests, process>>

-----------------------------------------------------------------------------
(* Evaluation *)

Assessed == {o \in Observations : preferred[o] # None}

\* Complete collections in a row, up to o, that a device was not in.
PriorAbsences(o, records) ==
    [d \in {e \in Devices : /\ records[e] # None
                            /\ records[e].state = "expected"
                            /\ records[e].since <= o} |->
        IF o \in Assessed /\ d \in samples[o] THEN 0
        ELSE Cardinality({p \in Assessed :
                 /\ records[d].since <= p /\ p < o
                 /\ \A q \in Assessed : p <= q /\ q < o => d \notin samples[q]})]

\* An assessment: its identity, which is a digest of all that was evaluated, when
\* it was made, and (history) the enrolments it was judged by.
Assessment(o, seen, records, rev, births, at) ==
    [id |-> [obs |-> o, seen |-> seen, records |-> records, rev |-> rev,
             absences |-> PriorAbsences(o, records)],
     at |-> at,
     births |-> births]

\* UNIQUE (observation_id, policy_digest, roster_context_digest): the devices seen
\* are in the digest of the primary key only.
Conflicts(a, b) == [a.id EXCEPT !.seen = {}] = [b.id EXCEPT !.seen = {}]

Stored(a) == \E b \in assessments : b.id = a.id
Insertable(a) == ~\E b \in assessments : Conflicts(a, b)

\* The row that INSERT OR IGNORE leaves under the id of a.
Row(a) == IF Insertable(a) THEN a ELSE CHOOSE b \in assessments : b.id = a.id

\* consider_native_preference: roster revision first, then the time.
Preferable(a, b) == \/ a.id.rev > b.id.rev
                    \/ a.id.rev = b.id.rev /\ a.at > b.at

Prefer(a) ==
    [preferred EXCEPT ![a.id.obs] = IF @ = None \/ Preferable(a, @) THEN a ELSE @]

\* _latest_assessment_id among the preferred assessments.
Latest(pref) ==
    IF \A o \in Observations : pref[o] = None THEN None
    ELSE pref[CHOOSE o \in Observations : /\ pref[o] # None
                                          /\ \A q \in Observations : q > o => pref[q] = None]

-----------------------------------------------------------------------------
(* Health processing *)

\* The evidence is read, and the time of the assessment taken.
StartProcessing(p) ==
    /\ process[p].step = "idle" /\ snapshot # 0 /\ clock < MaxClock
    /\ clock' = clock + 1
    /\ process' = [process EXCEPT ![p] = [step |-> "started", obs |-> snapshot, at |-> clock']]
    /\ UNCHANGED <<evidence, results, rosterVars, requests>>

\* roster_evaluation_inputs, then the evaluation.
ReadRoster(p) ==
    /\ process[p].step = "started"
    /\ LET w == process[p] IN
       process' = [process EXCEPT ![p] =
           [step |-> "ready", result |-> Assessment(w.obs, Sampled[w.obs], roster, revision,
                                                    birth, w.at)]]
    /\ UNCHANGED <<evidence, clock, results, rosterVars, requests>>

\* The observations that _prune_observations keeps.
Kept(times) ==
    {o \in Observations : /\ times[o] # 0
                          /\ Cardinality({q \in Observations : times[q] > times[o]}) < MaxRetained}

\* Mutant: the roster may have changed since it was read.
UpToDateAlways(a) == TRUE

\* The guard of save_processing_result.
UpToDate(a) == a.id.rev = revision

\* StaleRosterContextError: processing starts over, now or when it is asked again.
SaveStale(p) ==
    /\ process[p].step = "ready" /\ ~UpToDate(process[p].result)
    /\ process' = [process EXCEPT ![p] = Idle]
    /\ UNCHANGED <<evidence, clock, results, rosterVars, requests>>

\* consider_native_preference finds no row of that id, and everything is rolled back.
SaveFails(p) ==
    /\ process[p].step = "ready" /\ UpToDate(process[p].result)
    /\ ~Insertable(process[p].result) /\ ~Stored(process[p].result)
    /\ process' = [process EXCEPT ![p] = [step |-> "failed"]]
    /\ UNCHANGED <<evidence, clock, results, rosterVars, requests>>

Save(p) ==
    /\ process[p].step = "ready" /\ UpToDate(process[p].result)
    /\ LET a == process[p].result
           o == a.id.obs
           new == ingested[o] = 0
           times == [ingested EXCEPT ![o] = IF new THEN a.at ELSE @]
           pref == Prefer(Row(a))
           kept == Kept(times)
       IN  /\ Insertable(a) \/ Stored(a)
           /\ ingested' = [q \in Observations |-> IF q \in kept THEN times[q] ELSE 0]
           /\ samples' = [q \in Observations |-> IF q \notin kept THEN {}
                                                 ELSE IF q = o /\ new THEN a.id.seen
                                                 ELSE samples[q]]
           /\ assessments' = {b \in assessments \cup {Row(a)} : b.id.obs \in kept}
           /\ preferred' = [q \in Observations |-> IF q \in kept THEN pref[q] ELSE None]
           /\ current' = IF Latest(pref).id.obs \in kept THEN Latest(pref) ELSE None
    /\ process' = [process EXCEPT ![p] = Idle]
    /\ UNCHANGED <<evidence, clock, rosterVars, requests>>

-----------------------------------------------------------------------------
(* Changes of the roster *)

\* The evaluation of _reassess_network: the observation as it is retained, the
\* roster as it is being changed.
Reassessment ==
    LET o == current.id.obs IN
    Assessment(o, samples[o], roster', revision', birth', clock')

\* The current assessment is made again in the same transaction.
Reassess ==
    /\ clock < MaxClock /\ clock' = clock + 1
    /\ IF current = None THEN UNCHANGED results
       ELSE /\ assessments' = assessments \cup {Reassessment}
            /\ preferred' = Prefer(Reassessment)
            /\ current' = Latest(preferred')
            /\ UNCHANGED <<ingested, samples>>

RevisionOf(d) == IF roster[d] = None THEN 0 ELSE roster[d].rev

\* The rows of a change: returning to expected starts a new epoch.
Put(d, state, since) ==
    [state |-> state, rev |-> RevisionOf(d) + 1,
     since |-> IF state = "expected" /\ (roster[d] = None \/ roster[d].state # "expected")
               THEN newest + 1 ELSE since]

Births(S) == [d \in Devices |-> IF d \in S /\ roster[d] = None THEN birth[d] + 1 ELSE birth[d]]

Target(action) ==
    CASE action \in {"enroll", "clear-offline", "unretire"} -> "expected"
      [] action = "mark-offline" -> "intentionally-offline"
      [] action = "retire" -> "retired"

From(action) ==
    CASE action = "enroll" -> {}
      [] action = "mark-offline" -> {"expected"}
      [] action = "clear-offline" -> {"intentionally-offline"}
      [] action = "retire" -> {"expected", "intentionally-offline", "intermittent"}
      [] action = "unretire" -> {"retired"}

\* The browser asks for an action on the device as it shows it.
Send(r, d) ==
    /\ sent[r] = None
    /\ \E action \in Actions :
          /\ action = "enroll" => current # None
          /\ sent' = [sent EXCEPT ![r] =
                [device |-> d, action |-> action, expected |-> RevisionOf(d),
                 shown |-> <<birth[d], roster[d]>>,
                 context |-> IF action = "enroll" THEN current.id ELSE None]]
    /\ UNCHANGED <<evidence, clock, results, rosterVars, receipts, acted, process>>

\* Mutant: the device's revision is not compared.
AdmittedUnguarded(b) ==
    /\ b.context # None => \E a \in assessments : a.id = b.context
    /\ IF roster[b.device] = None
       THEN b.action = "enroll" /\ b.device \in samples[b.context.obs]
       ELSE roster[b.device].state \in From(b.action) \cup {Target(b.action)}

\* The checks of apply_browser_roster_action; a request that fails one changes nothing.
Admitted(b) ==
    /\ b.context # None => \E a \in assessments : a.id = b.context
    /\ RevisionOf(b.device) = b.expected
    /\ IF roster[b.device] = None
       THEN b.action = "enroll" /\ b.device \in samples[b.context.obs]
       ELSE roster[b.device].state \in From(b.action) \cup {Target(b.action)}

\* The receipt from which a retry of the request is answered.
WriteReceipt(r) == receipts' = receipts \cup {r}

\* A request arrives, for the first time or again.
ApplyAction(r) ==
    /\ sent[r] # None /\ r \notin receipts /\ Admitted(sent[r])
    /\ LET d == sent[r].device
           state == Target(sent[r].action)
       IN  IF roster[d] # None /\ roster[d].state = state
           THEN UNCHANGED <<clock, results, rosterVars, acted>>
           ELSE /\ roster' = [roster EXCEPT ![d] =
                       Put(d, state, IF roster[d] = None THEN 0 ELSE roster[d].since)]
                /\ revision' = revision + 1
                /\ birth' = Births({d})
                /\ acted' = [acted EXCEPT ![r] = @ + 1]
                /\ Reassess
    /\ WriteReceipt(r)
    /\ UNCHANGED <<evidence, sent, process>>

\* set_cli_roster_device: the state, or only the label, of one device.
SetDevice(d) ==
    /\ \E state \in CliStates :
          roster' = [roster EXCEPT ![d] =
              Put(d, state, IF state # "expected" \/ roster[d] = None THEN 0
                            ELSE roster[d].since)]
    /\ revision' = revision + 1
    /\ birth' = Births({d})
    /\ Reassess
    /\ UNCHANGED <<evidence, requests, process>>

\* add_expected_devices_from_label_map: those that are not there yet.
ImportDevices(S) ==
    LET added == {d \in S : roster[d] = None} IN
    /\ added # {}
    /\ roster' = [d \in Devices |-> IF d \in added THEN Put(d, "expected", 0) ELSE roster[d]]
    /\ revision' = revision + Cardinality(added)
    /\ birth' = Births(added)
    /\ Reassess
    /\ UNCHANGED <<evidence, requests, process>>

-----------------------------------------------------------------------------
(* Purges *)

\* Mutant: the pointer is not repaired.
KeepAssessmentsUnrepaired(S) ==
    /\ assessments' = {a \in assessments : a.id.obs \in S}
    /\ preferred' = [o \in Observations |-> IF o \in S THEN preferred[o] ELSE None]
    /\ current' = current

\* Only the assessments of S are kept, and the pointer is repaired.
KeepAssessments(S) ==
    /\ assessments' = {a \in assessments : a.id.obs \in S}
    /\ preferred' = [o \in Observations |-> IF o \in S THEN preferred[o] ELSE None]
    /\ current' = Latest(preferred')

PurgeBefore(cutoff) ==
    /\ "before" \in Purges
    /\ \E o \in Observations : o < cutoff /\ ingested[o] # 0
    /\ ingested' = [o \in Observations |-> IF o < cutoff THEN 0 ELSE ingested[o]]
    /\ samples' = [o \in Observations |-> IF o < cutoff THEN {} ELSE samples[o]]
    /\ KeepAssessments(cutoff..NumObservations)
    /\ UNCHANGED <<evidence, clock, rosterVars, requests, process>>

PurgeAll ==
    /\ "all" \in Purges
    /\ revision # 0 \/ \E o \in Observations : ingested[o] # 0
    /\ ingested' = [o \in Observations |-> 0]
    /\ samples' = [o \in Observations |-> {}]
    /\ KeepAssessments({})
    /\ roster' = [d \in Devices |-> None] /\ revision' = 0
    /\ receipts' = {}
    /\ UNCHANGED <<evidence, clock, birth, sent, acted, process>>

\* An assessment that names the device.
Names(a, d) == d \in a.id.seen \/ a.id.records[d] # None

\* Mutant: only the row goes, the roster's revision stays.
NextRevisionSame(d) == revision

\* purge_device advances the revision if it removed an expectation.
NextRevision(d) == IF roster[d] = None THEN revision ELSE revision + 1

PurgeDevice(d) ==
    LET affected == {o \in Observations : \/ d \in samples[o]
                                          \/ \E a \in assessments : a.id.obs = o /\ Names(a, d)}
    IN  /\ "device" \in Purges
        /\ affected # {} \/ roster[d] # None
        /\ KeepAssessments(Observations \ affected)
        /\ samples' = [o \in Observations |-> samples[o] \ {d}]
        /\ roster' = [roster EXCEPT ![d] = None]
        /\ revision' = NextRevision(d)
        /\ receipts' = {r \in receipts : sent[r].device # d}
        /\ UNCHANGED <<evidence, clock, ingested, birth, sent, acted, process>>

Processing(p) == StartProcessing(p) \/ ReadRoster(p) \/ SaveStale(p) \/ SaveFails(p) \/ Save(p)

Next ==
    \/ Collect
    \/ \E p \in Processes : Processing(p)
    \/ \E r \in Requests : ApplyAction(r) \/ \E d \in Devices : Send(r, d)
    \/ \E d \in Devices : SetDevice(d) \/ PurgeDevice(d)
    \/ \E S \in SUBSET Devices : ImportDevices(S)
    \/ \E o \in Observations : PurgeBefore(o)
    \/ PurgeAll

Spec == Init /\ [][Next]_vars

-----------------------------------------------------------------------------
(* Properties *)

\* Type correctness of the store: what is current or preferred is stored, what is
\* stored belongs to a retained observation.
TypeOK ==
    /\ snapshot \in 0..newest /\ newest \in 0..NumObservations /\ clock \in 0..MaxClock
    /\ ingested \in [Observations -> 0..MaxClock]
    /\ \A o \in Observations : /\ samples[o] \subseteq Sampled[o]
                               /\ preferred[o] \in assessments \cup {None}
    /\ \A a \in assessments : ingested[a.id.obs] # 0 /\ preferred[a.id.obs] # None
    /\ current \in assessments \cup {None}
    /\ roster \in [Devices -> Enrolments \cup {None}] /\ revision \in Nat
    /\ receipts \subseteq {r \in Requests : sent[r] # None}
    /\ acted \in [Requests -> Nat]

\* The current assessment is of the newest retained observation that has any, by
\* the latest roster and then the latest in time: no order of saves, reassessments,
\* prunings and purges leaves the pointer behind (_set_current_assessment,
\* consider_native_preference).
CurrentIsLatest ==
    current # None =>
        \A a \in assessments : \/ a = current
                               \/ current.id.obs > a.id.obs
                               \/ current.id.obs = a.id.obs /\ Preferable(current, a)

\* Whatever a stored assessment says of the roster is about enrolments that are
\* still there: a device that was purged from the roster is in no assessment that
\* was kept, nor in one that was being computed meanwhile (purge_device,
\* save_processing_result).
ContextsAreLive ==
    \A a \in assessments : \A d \in Devices :
        a.id.records[d] # None => roster[d] # None /\ a.births[d] = birth[d]

\* A change of the roster leaves no current assessment judged by the roster before
\* it: the same observation is current, judged by the new roster (_reassess_network).
MutationReassessesCurrent ==
    [][clock' # clock /\ revision' # revision /\ current # None =>
          /\ current' # None
          /\ current'.id.obs = current.id.obs
          /\ current'.id.records = roster' /\ current'.id.rev = revision']_vars

\* An assessment is stored only while the roster is the one it was judged by
\* ("Roster changed during health processing; retry with the current roster.").
SavedAgainstCurrentRoster ==
    [][\A a \in assessments' \ assessments : a.id.records = roster' /\ a.id.rev = revision']_vars

\* "Acting on a stale revision returns a conflict": a request that acts on the
\* enrolment the browser showed finds its row as it was shown.
ActsOnWhatWasShown ==
    [][\A r \in Requests : acted'[r] # acted[r] =>
          LET d == sent[r].device IN
          birth[d] = sent[r].shown[1] => roster[d] = sent[r].shown[2]]_vars

\* "A retry with the same request ID and exact request body replays the stored
\* response": however often it arrives, a request changes the roster at most once for
\* every time its device was enrolled. Only a purge that takes the enrolment away
\* forgets the receipt (purge_device, purge_all).
ActsOncePerEnrolment ==
    \A r \in Requests : sent[r] # None => acted[r] <= birth[sent[r].device]

\* "Reprocessing unchanged inputs and policy is idempotent": health processing
\* never finds the store corrupt (consider_native_preference).
SavesSucceed == \A p \in Processes : process[p].step # "failed"
=============================================================================
