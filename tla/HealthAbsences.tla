---------------------------- MODULE HealthAbsences ----------------------------
(***************************************************************************)
(* When is an expected device Offline?  Collections of the mesh are        *)
(* processed into observations, some more than once, by different          *)
(* datasets, late or out of order; the roster changes meanwhile.  Every    *)
(* assessment counts the collections in which a device was absent          *)
(* (roster_evaluation_inputs and its helpers in td_health_sqlite.py) and   *)
(* decides between missing and Offline (td_health_evaluator.py).           *)
(***************************************************************************)
EXTENDS Integers, FiniteSets, Sequences

CONSTANTS
    Devices,
    Required,           \* offlineConsecutiveCompleteObservations
    Percent,            \* offlinePoorDeviceRatioThreshold, in percent
    MaxTime,            \* bound: the time of the last event
    MaxCollections,     \* bound: collections of the mesh
    MaxRows,            \* bound: different observations
    None

\* What the constants satisfy.
AbsencesAssumption ==
    /\ Required \in Nat /\ Required >= 2 /\ Percent \in 0 .. 100
    /\ {MaxTime, MaxCollections, MaxRows} \subseteq Nat

VARIABLES
    now,
    times,          \* when each collection was made
    rows,           \* the observations stored
    roster          \* expected_devices: expected since when, or None

vars == << now, times, rows, roster >>

Init ==
    /\ now = 1 /\ times = << >> /\ rows = {}
    /\ roster = [d \in Devices |-> None]

-----------------------------------------------------------------------------
(* The world and the roster                                                *)

Tick == now < MaxTime /\ now' = now + 1 /\ UNCHANGED << times, rows, roster >>

Collect ==
    /\ Len(times) < MaxCollections
    /\ times' = Append(times, now)
    /\ UNCHANGED << now, rows, roster >>

\* enroll, clear-offline, unretire: the absences are counted from now on.
Expect(d) ==
    /\ roster[d] = None
    /\ roster' = [roster EXCEPT ![d] = now]
    /\ UNCHANGED << now, times, rows >>

\* mark-offline, retire
Excuse(d) ==
    /\ roster[d] # None
    /\ roster' = [roster EXCEPT ![d] = None]
    /\ UNCHANGED << now, times, rows >>

-----------------------------------------------------------------------------
(* The absences of an assessment                                           *)

\* Mutant: an incomplete observation counts, too.
QualifiedAll(r) == r.witness
\* _qualified_absence_groups: the observations that count, by collection
Qualified(r) == r.complete /\ r.witness

Grouped == {r.col : r \in {q \in rows : Qualified(q)}}
\* the devices seen in a collection by any of its observations
Present(c) == UNION {r.seen : r \in {q \in rows : Qualified(q) /\ q.col = c}}

\* the collections not after c but c
Preceding(c) == {g \in Grouped \ {c} : times[g] <= times[c]}
Ordered(c) ==
    \A x, y \in Preceding(c) \cup {c} : x # y => times[x] # times[y]

InEpoch(d, g) == roster[d] <= times[g]

\* _count_qualified_absences, for one device not seen in c
Count(d, c) ==
    LET stops == {g \in Preceding(c) : ~InEpoch(d, g) \/ d \in Present(g)}
    IN  IF d \in Present(c) THEN 0
        ELSE Cardinality({g \in Preceding(c) : \A s \in stops : times[s] < times[g]})

Expected(c) == {d \in Devices : roster[d] # None /\ roster[d] <= times[c]}

\* absenceAvailable of roster_evaluation_inputs: a file dataset has no absence
\* history when another observation of its collection has seen a device that
\* it has not.
Available(o) ==
    /\ o.witness /\ Ordered(o.col)
    /\ o.mode = "file" => (Expected(o.col) \ o.seen) \cap Present(o.col) = {}

\* _evaluate_availability
Offline(o) ==
    {d \in Expected(o.col) \ o.seen :
        /\ o.complete /\ Available(o) /\ d \notin Present(o.col)
        /\ Count(d, o.col) + 1 >= Required}
Material(o) == Cardinality(Offline(o)) * 100 > Percent * Cardinality(Expected(o.col))

\* aggregate_assessment_state: worst is that of the findings of the other rules,
\* enough that every pillar has sufficient evidence.
Status(o, worst, enough) ==
    IF Material(o) THEN "poor" ELSE IF worst # "none" THEN worst ELSE
        IF /\ o.complete /\ enough
           /\ Available(o) \/ Expected(o.col) \subseteq o.seen
        THEN "strong" ELSE "unknown"

\* An observation of a collection by a file dataset or a Unified one; its witness
\* is the diagnostic it was made from, if that is valid.
Observation ==
    {o \in [col : DOMAIN times, seen : SUBSET Devices, mode : {"file", "unified"},
            complete : BOOLEAN, witness : BOOLEAN] :
        o.mode = "unified" /\ ~o.witness => ~o.complete}

\* Processing of a collection: its assessment, Offline(o) and Status(o, ...), is
\* made from the state before and stored with the observation.
Process(o) ==
    /\ rows' = rows \cup {[col |-> o.col, seen |-> o.seen, complete |-> o.complete,
                         witness |-> o.witness]}
    /\ Cardinality(rows') <= MaxRows
    /\ UNCHANGED << now, times, roster >>

Next ==
    \/ Tick \/ Collect
    \/ \E d \in Devices : Expect(d) \/ Excuse(d)
    \/ \E o \in Observation : Process(o)

Spec == Init /\ [][Next]_vars

-----------------------------------------------------------------------------

\* d was absent, as of an observation o, from the last Required of the
\* collections made since it is expected.
Gone(d, o) ==
    LET full == {r \in rows : r.complete /\ r.witness}
        counted == {r.col : r \in full}
        within == {c \in counted \cup {o.col} : roster[d] <= times[c] /\ times[c] <= times[o.col]}
        sawIt(c) == \/ \E r \in full : r.col = c /\ d \in r.seen
                    \/ c = o.col /\ d \in o.seen
    IN  \E last \in SUBSET within :
          /\ Cardinality(last) = Required
          /\ \A c \in last : ~sawIt(c)
          /\ \A c \in last, b \in within \ last : times[b] < times[c]

\* the time of no collection before that of o is that of another one
Dated(o) ==
    LET made == {r.col : r \in {q \in rows : q.complete /\ q.witness}} \cup {o.col}
    IN  \A b, c \in made : b # c /\ times[b] <= times[o.col] => times[b] # times[c]

\* "A device becomes Offline after absence from two distinct eligible complete
\* observations" (doc/thread_network_health.md): an assessment calls the expected devices
\* Offline that no complete observation of the last Required collections since
\* they are expected has seen; neither a collection processed twice nor an
\* incomplete observation, a late or undated one or one before the epoch counts.
\* A network is Strong only when its absences were decided.
OfflineIsAbsence ==
    \A o \in Observation :
        /\ \A d \in Offline(o) :
              roster[d] # None /\ o.complete /\ o.witness /\ Gone(d, o) /\ Dated(o)
        /\ Status(o, "none", TRUE) = "strong" =>
              \A d \in Expected(o.col) : d \in o.seen \/ (o.witness /\ Dated(o))

\* "... independent of other roster devices" (doc/thread_network_health.md): and
\* every such device is called Offline.
OfflineIsIndependent ==
    \A o \in Observation : o.complete /\ o.witness /\ Dated(o) =>
        \A d \in Expected(o.col) : Gone(d, o) => d \in Offline(o)
=============================================================================
