--------------------------- MODULE HealthComparisons ---------------------------
(***************************************************************************)
(* The comparisons of the health store and the derived evidence kept to    *)
(* make them again: observations and their assessments, the comparisons    *)
(* made of them when a result is saved or the roster is changed, prepared  *)
(* observations and pairs, "health prepare-history", and the purges        *)
(* (td_health_sqlite.py, td_health_comparison.py, td_health_preparation.py)*)
(* Every action is one transaction; one that fails changes nothing.        *)
(*                                                                         *)
(* One network and one dataset.  Observations are numbered in the order of *)
(* observedAt, which is also their distance in time.                       *)
(***************************************************************************)
EXTENDS Naturals, FiniteSets, FiniteSetsExt, SequencesExt

CONSTANTS
    NumObservations,    \* bound on the collections of evidence
    Subjects,           \* links of the mesh, each of a device of its own
    Files,              \* source files: numbers, in the order of their names
    ReadAt,             \* when each file of an observation was collected, 0 if unusable
    InFiles,            \* the files of an observation that report each link
    Whole,              \* the files of an observation that report all of a device's links
    Complete,           \* the observations whose sources were all usable
    MaxGap,             \* max_comparison_gap_seconds
    Intervals,          \* COMPARISON_INTERVALS
    MaxRetained,        \* max_observations
    MaxComparisons,     \* comparisons retained
    MaxRecords,         \* MAX_RECORDS of prepared observations, and of prepared pairs
    Limit,              \* --limit of prepare-history
    MaxVersion,         \* bound: versions of the evaluator
    MaxClock,           \* bound: assessments made
    None

Observations == 1..NumObservations

\* What the constants satisfy.
ComparisonsAssumption ==
    /\ NumObservations \in Nat /\ MaxClock \in Nat /\ MaxVersion \in Nat \ {0}
    /\ Files \subseteq Nat /\ IsFiniteSet(Files)
    /\ Intervals \subseteq Nat /\ IsFiniteSet(Intervals)
    /\ ReadAt \in [Observations -> [Files -> Nat]]
    /\ InFiles \in [Observations -> [Subjects -> SUBSET Files]]
    /\ Whole \in [Observations -> SUBSET Files]
    /\ Complete \subseteq Observations
    /\ {MaxGap, MaxRetained, MaxComparisons, MaxRecords, Limit} \subseteq Nat
    /\ MaxRetained > 0

VARIABLES
    ingested,       \* when each observation was ingested, 0 if it is not retained
    purged,         \* the links removed from the samples of each
    assessments,    \* assessments of retained observations
    comparisons,    \* stored comparisons
    bodies,         \* prepared observations: the samples they were made of
    pairs,          \* prepared pairs: the samples they were made of, and the items
    version,        \* the evaluator's version
    revision,       \* the roster's revision
    clock,          \* assessments made so far
    cursor,         \* the last cursor prepare-history returned
    finished        \* history: the last transaction was its last page

store    == << ingested, purged, assessments, comparisons, bodies, pairs >>
vars     == << store, version, revision, clock, cursor, finished >>

Init ==
    /\ ingested = [o \in Observations |-> 0] /\ purged = [o \in Observations |-> {}]
    /\ assessments = {} /\ comparisons = {} /\ bodies = {} /\ pairs = {}
    /\ version = 1 /\ revision = 0 /\ clock = 0 /\ cursor = None /\ finished = FALSE

-----------------------------------------------------------------------------
(* What a comparison says                                                  *)

Retained(ing) == {o \in Observations : ing[o] # 0}
Reported(o, gone, s) == IF s \in gone THEN {} ELSE InFiles[o][s]

\* The file was usable at both ends and collected anew in between ("source-not-newer").
Advanced(b, a, f) == 0 < ReadAt[b][f] /\ ReadAt[b][f] < ReadAt[a][f]

\* _common_newer_source: the first file with the link, where there is a link, at both
\* ends, that was collected anew in between.
Newer(b, a, old, new) ==
    {f \in old \cup new : /\ old # {} => f \in old
                          /\ new # {} => f \in new
                          /\ Advanced(b, a, f)}

\* compare_interval
Comparable(b, a, bv, av) ==
    b < a /\ {b, a} \subseteq Complete /\ bv = av /\ a - b <= MaxGap

\* The coverage rule of route64: both collections of that file reported all links.
Witnessed(b, a, fs) == fs # {} /\ Min(fs) \in Whole[b] \cap Whole[a]

\* _derive_relationship_comparison_items and derive_discrete_item
Transition(b, a, old, new) ==
    IF ~Witnessed(b, a, Newer(b, a, old, new)) THEN "unknown"
    ELSE CASE old = {} -> "added" [] new = {} -> "removed" [] OTHER -> "retained"

\* derive_comparison, of the samples that are left
Items(b, a, bgone, agone, bv, av) ==
    [s \in {t \in Subjects : Reported(b, bgone, t) \cup Reported(a, agone, t) # {}} |->
        IF Comparable(b, a, bv, av)
        THEN Transition(b, a, Reported(b, bgone, s), Reported(a, agone, s))
        ELSE "unknown"]

-----------------------------------------------------------------------------
(* Prepared evidence                                                       *)

\* The identity under which _derive_pair looks for a prepared pair.
PairKey(b, a, bv, av) == << b, a, bv, av >>

\* load_pair, or else derive_comparison
Derived(ps, x, y, gone) ==
    LET known == {p \in ps : p.key = PairKey(x.obs, y.obs, x.ver, y.ver)}
    IN  IF known # {} THEN (CHOOSE p \in known : TRUE).items
        ELSE Items(x.obs, y.obs, gone[x.obs], gone[y.obs], x.ver, y.ver)

Pair(ps, x, y, gone) ==
    [key |-> PairKey(x.obs, y.obs, x.ver, y.ver), before |-> x.obs, obs |-> y.obs,
     inputs |-> << gone[x.obs], gone[y.obs] >>, items |-> Derived(ps, x, y, gone)]

\* What a table keeps when it holds more than n rows: those of the latest
\* observations, in an order among equals that is fixed but of no meaning.
Latest(rows, n) ==
    IF Cardinality(rows) <= n THEN {rows}
    ELSE {k \in kSubset(n, rows) : \A r \in k, q \in rows \ k : r.obs >= q.obs}

Publish(ps, new) ==     \* publish_pair: a known pair stays
    ps \cup {p \in new : \A q \in ps : q.key # p.key}

\* publish_observation
Body(o, ver, gone) == [obs |-> o, ver |-> ver, input |-> gone[o]]
Prepared(bs, o, ver) == \E b \in bs : b.obs = o /\ b.ver = ver
PublishBody(bs, new) == bs \cup {b \in new : ~Prepared(bs, b.obs, b.ver)}

-----------------------------------------------------------------------------
(* The inventory of prepare-history: assessments, and comparisons of two of *)
(* them                                                                     *)

Id(a) == [obs |-> a.obs, ver |-> a.ver, rev |-> a.rev, gone |-> a.gone]

\* The comparisons with both assessments retained, and the bodies of all assessments,
\* in an order that does not change while they do not.
PairsToDo == {c \in comparisons : \A i \in {c.before, c.after} : \E a \in assessments : Id(a) = i}
Bodies    == {<< a.obs, a.ver >> : a \in assessments}
Position(k) == Cardinality({j \in Bodies : j[1] < k[1] \/ (j[1] = k[1] /\ j[2] <= k[2])})
PairSeq   == SetToSeq(PairsToDo)

Inventory == << assessments, PairsToDo >>

\* A cursor of another inventory is refused, and the user starts over without it.
Unprepared ==
    /\ cursor' = IF Inventory' = Inventory THEN cursor ELSE None
    /\ finished' = FALSE

-----------------------------------------------------------------------------
(* Assessments and the comparisons made with them                          *)

\* consider_native_preference
Preferred(as, o) ==
    CHOOSE a \in as : /\ a.obs = o
                      /\ \A b \in as : b.obs = o =>
                             b.rev < a.rev \/ (b.rev = a.rev /\ b.at <= a.at)
Assessed(as) == {a.obs : a \in as}

\* resolve_interval_candidate: the latest complete observation n before o
Earlier(as, o, n) == {p \in Assessed(as) \cap Complete : p + n <= o}

\* _auto_compare: the adjacent complete observation, and one for every interval
Baselines(as, o) ==
    IF o \notin Complete THEN {}
    ELSE {Preferred(as, Max(Earlier(as, o, n))) :
             n \in {m \in Intervals \cup {1} : Earlier(as, o, m) # {}}}

Comparison(ps, x, y, gone, at) ==
    [before |-> Id(x), after |-> Id(y), obs |-> y.obs, items |-> Derived(ps, x, y, gone),
     at |-> at]
Known(cs, x, y) == \E c \in cs : c.before = Id(x) /\ c.after = Id(y)

\* The comparisons _auto_compare adds for the assessment y.
Added(as, cs, ps, y, gone) ==
    {Comparison(ps, x, y, gone, clock + 1) : x \in {b \in Baselines(as, y.obs) : ~Known(cs, b, y)}}
AddedPairs(as, cs, ps, y, gone) ==
    {Pair(ps, x, y, gone) : x \in {b \in Baselines(as, y.obs) : ~Known(cs, b, y)}}

\* INSERT OR IGNORE, and the UNIQUE constraint that makes the transaction fail.
Row(as, a) == IF \E b \in as : Id(b) = Id(a) THEN CHOOSE b \in as : Id(b) = Id(a) ELSE a
Conflict(as, a) == \E b \in as : [Id(b) EXCEPT !.gone = a.gone] = Id(a) /\ b.gone # a.gone

\* _prune_observations
Pruned(ing) ==
    [o \in Observations |->
        IF Cardinality({p \in Observations : ing[p] > ing[o]}) < MaxRetained
        THEN ing[o] ELSE 0]

\* What cascades from the observations that are deleted; comparisons stay.
Cascade(ing, gone, as, bs, ps) ==
    /\ ingested' = ing
    /\ purged' = [o \in Observations |-> IF ing[o] = 0 THEN {} ELSE gone[o]]
    /\ assessments' = {a \in as : ing[a.obs] # 0}
    /\ bodies' = {b \in bs : ing[b.obs] # 0}
    /\ pairs' = {p \in ps : ing[p.before] # 0 /\ ing[p.obs] # 0}

\* save_processing_result with prepare: an observation that may have been seen
\* before, and may be older than others.
Process(o) ==
    /\ clock < MaxClock /\ clock' = clock + 1
    /\ LET fresh == [obs |-> o, ver |-> version, rev |-> revision, gone |-> {}, at |-> clock + 1]
           y     == Row(assessments, fresh)
           as    == assessments \cup {y}
           ing   == [ingested EXCEPT ![o] = IF @ = 0 THEN clock + 1 ELSE @]
       IN  /\ ~Conflict(assessments, fresh)
           /\ \E bs \in Latest(PublishBody(bodies, {Body(o, version, purged)}), MaxRecords),
                 ps \in Latest(Publish(pairs, AddedPairs(as, comparisons, pairs, y, purged)),
                               MaxRecords),
                 cs \in Latest(comparisons \cup Added(as, comparisons, pairs, y, purged),
                               MaxComparisons) :
                 /\ comparisons' = cs
                 /\ Cascade(Pruned(ing), purged, as, bs, ps)
    /\ UNCHANGED << version, revision >>
    /\ Unprepared

\* A roster mutation: _reassess_network judges the current observation again, by the
\* samples that are left.  Prepared pairs are used, none is published.
Reassess ==
    /\ clock < MaxClock /\ clock' = clock + 1
    /\ assessments # {}
    /\ revision' = revision + 1
    /\ LET o  == Max(Assessed(assessments))
           y  == [obs |-> o, ver |-> version, rev |-> revision + 1, gone |-> purged[o],
                  at |-> clock + 1]
           as == assessments \cup {y}
       IN  /\ assessments' = as
           /\ comparisons' \in Latest(comparisons \cup Added(as, comparisons, pairs, y, purged),
                                      MaxComparisons)
    /\ UNCHANGED << ingested, purged, bodies, pairs, version >>
    /\ Unprepared

\* compare_assessments: "health compare", which does not use prepared evidence.  A
\* comparison of two assessments of one observation, all unknown, is left out.
Compare(x, y) ==
    /\ x.obs < y.obs /\ ~Known(comparisons, x, y)
    /\ comparisons' \in Latest(comparisons \cup {Comparison({}, x, y, purged, clock)},
                               MaxComparisons)
    /\ UNCHANGED << ingested, purged, assessments, bodies, pairs, version, revision, clock >>
    /\ Unprepared

-----------------------------------------------------------------------------
(* Purges                                                                  *)

\* Mutant: the pairs that end at an affected observation are forgotten.
DropPairsBefore(os) == {p \in pairs : p.before \notin os}
DropPairs(os) == {p \in pairs : p.before \notin os /\ p.obs \notin os}

\* purge_device: the observations it is sampled in, and those in refs, whose
\* assessments name it (all, if it is on the roster).
PurgeDevice(s, refs) ==
    LET os == refs \cup {o \in Retained(ingested) : Reported(o, purged[o], s) # {}}
    IN  /\ os # {}
        /\ purged' = [o \in Observations |-> IF o \in os THEN purged[o] \cup {s} ELSE purged[o]]
        /\ bodies' = {b \in bodies : b.obs \notin os}
        /\ pairs' = DropPairs(os)
        /\ comparisons' = {c \in comparisons : c.before.obs \notin os /\ c.after.obs \notin os}
        /\ assessments' = {a \in assessments : a.obs \notin os}
        /\ UNCHANGED << ingested, version, revision, clock >>
        /\ Unprepared

\* purge_before
PurgeBefore(o) ==
    /\ \E p \in Retained(ingested) : p < o
    /\ comparisons' = {c \in comparisons : c.before.obs >= o /\ c.after.obs >= o}
    /\ Cascade([p \in Observations |-> IF p < o THEN 0 ELSE ingested[p]],
               purged, assessments, bodies, pairs)
    /\ UNCHANGED << version, revision, clock >>
    /\ Unprepared

Upgrade ==
    /\ version < MaxVersion /\ version' = version + 1
    /\ UNCHANGED << store, revision, clock >>
    /\ Unprepared

-----------------------------------------------------------------------------
(* Preparing retained history, page by page                                *)

EndsOf(c) == {<< c.before.obs, c.before.ver >>, << c.after.obs, c.after.ver >>}

\* How many of the pairs from position m on fit a page that admitted the bodies in held.
Fitting(m, held) ==
    LET admitted(n) == held \cup UNION {EndsOf(PairSeq[i]) : i \in m + 1 .. n}
    IN  Max({n \in m .. Len(PairSeq) : n = m \/ Cardinality(admitted(n)) <= Limit})

\* One page, with the cursor of the last one if the user has one.
PreparePage ==
    /\ assessments # {}
    /\ LET last  == Cardinality(Bodies)
           from  == IF cursor # None THEN cursor ELSE [body |-> 0, pair |-> 0]
           body  == Min({from.body + Limit, last})
           held  == {k \in Bodies : Position(k) \in from.body + 1 .. body}
           done  == PublishBody(bodies, {Body(k[1], k[2], purged) : k \in held})
       IN  \E bs \in Latest(done, MaxRecords) :
           LET pair == IF body < last THEN from.pair ELSE Fitting(from.pair, held)
               took == {PairSeq[i] : i \in from.pair + 1 .. pair}
               made == {LET x == CHOOSE a \in assessments : Id(a) = c.before
                            y == CHOOSE a \in assessments : Id(a) = c.after
                        IN  Pair(pairs, x, y, purged) : c \in took}
               more == body < last \/ pair < Len(PairSeq)
           IN  \* a pair whose body was evicted, or that needs a larger limit, fails
               /\ \A c \in took : \A k \in EndsOf(c) : Prepared(bs, k[1], k[2])
               /\ body > from.body \/ pair > from.pair \/ ~more
               /\ bodies' = bs
               /\ pairs' \in Latest(Publish(pairs, made), MaxRecords)
               /\ cursor' = IF more THEN [body |-> body, pair |-> pair]
                            ELSE None
               /\ finished' = ~more
    /\ UNCHANGED << ingested, purged, assessments, comparisons, version, revision, clock >>

Next ==
    \/ \E o \in Observations : Process(o) \/ PurgeBefore(o)
    \/ Reassess \/ Upgrade \/ PreparePage
    \/ \E x, y \in assessments : Compare(x, y)
    \/ \E s \in Subjects, refs \in {{}, Retained(ingested)} : PurgeDevice(s, refs)

Spec == Init /\ [][Next]_vars

-----------------------------------------------------------------------------

\* "Prepared reads verify current native SQL inputs": a prepared observation or
\* pair whose samples have changed fails every later operation that reads it, so
\* none is ever left behind (purge_device, _delete_orphans, the cascades).
PreparedIsCurrent ==
    /\ \A b \in bodies : ingested[b.obs] # 0 /\ b.input = purged[b.obs]
    /\ \A p \in pairs : /\ ingested[p.before] # 0 /\ ingested[p.obs] # 0
                        /\ p.inputs = << purged[p.before], purged[p.obs] >>

\* Both observations are still there, not pruned and stored again since.
Kept(c) == \A o \in {c.before.obs, c.after.obs} : ingested[o] \in 1..c.at

\* A stored comparison of observations that were kept says what deriving it from the samples
\* that are left would say, whichever of the ways it was made (_derive_pair).
StoredIsDerived ==
    \A c \in comparisons :
        Kept(c) => c.items = Items(c.before.obs, c.after.obs, purged[c.before.obs],
                                   purged[c.after.obs], c.before.ver, c.after.ver)

\* "Repeat with the returned --cursor TOKEN until nextCursor is null": when it is,
\* every stored pair is prepared, unless the
\* newest MaxRecords fill the table (prepare_history).
PreparedWhenDone ==
    finished =>
        \A c \in PairsToDo :
            \/ \E p \in pairs :
                   p.key = PairKey(c.before.obs, c.after.obs, c.before.ver, c.after.ver)
            \/ Cardinality(pairs) >= MaxRecords

\* A link is only said to be gone when a file that reported it was collected again,
\* reported all links of the device, and did not report this one.
RemovalsAreWitnessed ==
    \A c \in comparisons : \A s \in DOMAIN c.items :
        c.items[s] = "removed" =>
            \E f \in InFiles[c.before.obs][s] :
                /\ ReadAt[c.before.obs][f] < ReadAt[c.after.obs][f]
                /\ f \in Whole[c.after.obs]
                /\ Kept(c) => f \notin InFiles[c.after.obs][s] \/ s \in purged[c.after.obs]
=============================================================================
