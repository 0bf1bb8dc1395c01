------------------------------ MODULE RosterFacts ------------------------------
(***************************************************************************)
(* What the roster knows of a device: the facts that the source files of   *)
(* an observation state, the last-known row of every field, the devices    *)
(* that hold one alias, and the names under which devices are shown        *)
(* (td_health_sqlite.py, td_health_roster.py and td_health_read.py).       *)
(* Devices and files are numbers, in the order of their ids and names.     *)
(***************************************************************************)
EXTENDS Integers, FiniteSets

CONSTANTS
    NumDevices,
    NumFiles,
    Aliases,            \* the fields eui, eui64, rloc16 and routerId
    Label,              \* the field deviceLabel
    Rank,               \* rosterPolicy.fields: rank of a source, by field and file
    Expiry,             \* freshnessSeconds by field, or None
    Window,             \* aliasCollisionWindowSeconds
    Static,             \* the device label map: a label or None
    Labels,             \* labels of expected devices
    Offered,            \* what files may say: [device, field, file, value]
    MaxReadings,        \* bound: facts in an observation
    MaxIngests,         \* bound: observations
    MaxRetained,        \* max_observations
    MaxClock,           \* bound: the time
    None

Devices == 1 .. NumDevices
Files == 1 .. NumFiles
Fields == Aliases \cup {Label}

\* What the constants satisfy.
RosterFactsAssumption ==
    /\ {NumDevices, NumFiles, Window, MaxReadings, MaxIngests, MaxRetained, MaxClock} \subseteq Nat
    /\ MaxRetained > 0 /\ MaxClock > 0
    /\ Label \notin Aliases
    /\ \A r \in Offered : r.device \in Devices /\ r.field \in Fields /\ r.file \in Files
    /\ \A f \in Fields, s \in Files : Rank[f][s] \in Nat \ {0}
    /\ \A f \in Fields : Expiry[f] \in Nat \cup {None}

VARIABLES
    clock,
    policy,         \* 1, or 2 once the manifest's roster policy has changed
    ingests,        \* the number of observations ever stored
    seen,           \* device_samples by observation, {} when pruned
    whole,          \* the complete observations
    samples,        \* device_fact_samples
    last,           \* device_last_known: a row or None, by device and field
    conflicts,      \* device_identity_conflicts
    expected        \* expected_devices: a label or None

vars == << clock, policy, ingests, seen, whole, samples, last, conflicts, expected >>

Init ==
    /\ clock = 1 /\ policy = 1 /\ ingests = 0
    /\ seen = [o \in 1 .. MaxIngests |-> {}]
    /\ whole = {} /\ samples = {} /\ conflicts = {}
    /\ last = [d \in Devices |-> [f \in Fields |-> None]]
    /\ expected = [d \in Devices |-> None]

-----------------------------------------------------------------------------
(* The facts of an observation                                             *)

\* The readings of the observed devices, grouped by device, field and file: a value,
\* or more that contradict each other (extract_roster_facts, _insert_roster_facts).
Grouped(readings, observed) ==
    {[device |-> r.device, field |-> r.field, file |-> r.file,
      values |-> {q.value : q \in {p \in readings : /\ p.device = r.device
                                                    /\ p.field = r.field
                                                    /\ p.file = r.file}}] :
     r \in {q \in readings : q.device \in observed}}

About(facts, d, f) == {g \in facts : g.device = d /\ g.field = f}
Contradictory(g) == Cardinality(g.values) > 1

\* the facts that could become the last known one: their source has a time, and one value
Candidates(facts, times, d, f) ==
    {g \in About(facts, d, f) : times[g.file] # None /\ ~Contradictory(g)}

\* Mutant: sources that contradict each other are not noticed.
DisputedInOne(facts, times, d, f) == \E g \in About(facts, d, f) : Contradictory(g)
Disputed(facts, times, d, f) ==
    \/ \E g \in About(facts, d, f) : Contradictory(g)
    \/ \E g, h \in Candidates(facts, times, d, f) : g.values # h.values

Samples(o, facts, times) ==
    {[obs |-> o, device |-> g.device, field |-> g.field, file |-> g.file,
      values |-> g.values, dated |-> times[g.file] # None,
      conflict |-> IF Contradictory(g) THEN "same-source"
                   ELSE IF Disputed(facts, times, g.device, g.field)
                        THEN "cross-source" ELSE "none"] : g \in facts}

\* of the highest rank, the latest; of these the file named last
Best(options, times) ==
    CHOOSE g \in options :
        \A h \in options : \/ Rank[g.field][g.file] > Rank[h.field][h.file]
                           \/ /\ Rank[g.field][g.file] = Rank[h.field][h.file]
                              /\ \/ times[g.file] > times[h.file]
                                 \/ times[g.file] = times[h.file] /\ g.file >= h.file

\* Mutant: a row of a higher rank replaces a later one.
AdvancesByRank(row, new) ==
    \/ row = None
    \/ /\ row.policy = new.policy
       /\ \/ new.rank > row.rank
          \/ new.rank = row.rank /\ new.time > row.time
\* May the fact of a complete observation replace the last-known row?  An unattributed row
\* of an old schema is not modelled; that of another policy stays.  Between files of one time
\* the code compares the ids of the observations, here their numbers.
Advances(row, new) ==
    \/ row = None
    \/ /\ row.policy = new.policy /\ row.rank <= new.rank
       /\ \/ new.time > row.time
          \/ /\ new.time = row.time /\ new.file # row.file
             /\ \/ new.obs > row.obs
                \/ new.obs = row.obs /\ new.file > row.file

LastKnown(o, facts, times) ==
    [d \in Devices |-> [f \in Fields |->
        LET options == Candidates(facts, times, d, f)
            g == Best(options, times)
            new == [value |-> CHOOSE v \in g.values : TRUE, file |-> g.file, obs |-> o,
                    time |-> times[g.file], policy |-> policy, rank |-> Rank[f][g.file]]
        IN  IF options # {} /\ ~Disputed(facts, times, d, f) /\ Advances(last[d][f], new)
            THEN new ELSE last[d][f]]]

-----------------------------------------------------------------------------
(* Devices that hold one alias                                             *)

Age(row) == clock - row.time
NotExpired(f, row) == Expiry[f] = None \/ Age(row) <= Expiry[f]

\* the rows of two devices, the first of them earlier in the order of ids
Collide(f, row, other) ==
    /\ row # None /\ other # None
    /\ row.policy = policy /\ other.policy = policy
    /\ row.value = other.value
    /\ NotExpired(f, row) /\ Age(row) <= Window /\ NotExpired(f, other)
    /\ row.time - other.time \in -Window .. Window

\* the devices that collide with d, in known
Colliding(known, d, f) ==
    {e \in Devices \ {d} : IF d < e THEN Collide(f, known[d][f], known[e][f])
                                    ELSE Collide(f, known[e][f], known[d][f])}

\* _refresh_alias_conflicts: pairs in the order of ids, and one row a device and value
AliasConflicts(known) ==
    LET conflict(d, f) ==
            [device |-> d, field |-> f, value |-> known[d][f].value,
             other |-> CHOOSE e \in Colliding(known, d, f) :
                           \A x \in Colliding(known, d, f) : e <= x]
    IN  UNION {{conflict(d, f) : d \in {x \in Devices : Colliding(known, x, f) # {}}} :
               f \in Aliases}

-----------------------------------------------------------------------------
(* save_processing_result, a purge, and the rest of the world              *)

\* _delete_orphans: a device that no retained observation saw and nobody expects
Kept(presence, d) == (\E o \in DOMAIN presence : d \in presence[o]) \/ expected[d] # None

Surviving(known, presence) ==
    [d \in Devices |-> IF Kept(presence, d) THEN known[d] ELSE [f \in Fields |-> None]]
Grounded(known, rows) ==
    {c \in rows : known[c.device][c.field] # None
                  /\ known[c.device][c.field].value = c.value}

\* A new observation: its facts, the last known ones if it is complete, and what the
\* retention limit leaves.
Save(observed, readings, times, complete) ==
    /\ ingests < MaxIngests
    /\ LET o == ingests + 1
           facts == Grouped(readings, observed)
           known == IF complete THEN LastKnown(o, facts, times) ELSE last
           rows == IF complete /\ readings # {} THEN AliasConflicts(known) ELSE conflicts
           presence == [x \in 1 .. MaxIngests |->
                            IF x = o THEN observed
                            ELSE IF x > o - MaxRetained THEN seen[x] ELSE {}]
       IN  /\ ingests' = o
           /\ seen' = presence
           /\ whole' = {x \in whole : x > o - MaxRetained}
                         \cup (IF complete THEN {o} ELSE {})
           /\ samples' = {s \in samples : s.obs > o - MaxRetained}
                           \cup Samples(o, facts, times)
           /\ last' = Surviving(known, presence)
           /\ conflicts' = Grounded(last', rows)
    /\ UNCHANGED << clock, policy, expected >>

\* the roster mutations, by label: enroll, an import of the label map, and its undoing
Expect(d, label) ==
    /\ expected[d] = None
    /\ expected' = [expected EXCEPT ![d] = label]
    /\ UNCHANGED << clock, policy, ingests, seen, whole, samples, last, conflicts >>

\* purge_device
Purge(d) ==
    /\ expected' = [expected EXCEPT ![d] = None]
    /\ seen' = [o \in 1 .. MaxIngests |-> seen[o] \ {d}]
    /\ samples' = {s \in samples : s.device # d}
    /\ last' = Surviving([last EXCEPT ![d] = [f \in Fields |-> None]], seen')
    /\ conflicts' = Grounded(last', {c \in conflicts : d \notin {c.device, c.other}})
    /\ UNCHANGED << clock, policy, ingests, whole >>

Tick == clock < MaxClock /\ clock' = clock + 1
        /\ UNCHANGED << policy, ingests, seen, whole, samples, last, conflicts, expected >>

\* a new version of the program comes with another roster policy
ChangePolicy ==
    /\ policy = 1 /\ policy' = 2
    /\ UNCHANGED << clock, ingests, seen, whole, samples, last, conflicts, expected >>

Readings == {x \in SUBSET Offered : IsFiniteSet(x) /\ Cardinality(x) <= MaxReadings}

Next ==
    \/ \E readings \in Readings, complete \in BOOLEAN :
          \E observed \in {Devices, {r.device : r \in readings}},
             times \in [{r.file : r \in readings} -> (1 .. clock) \cup {None}] :
              Save(observed, readings, times, complete)
    \/ \E d \in Devices : (\E label \in Labels : Expect(d, label)) \/ Purge(d)
    \/ Tick \/ ChangePolicy

Spec == Init /\ [][Next]_vars

-----------------------------------------------------------------------------
(* What a read shows                                                       *)

Fresh(f, row) == row.policy = policy /\ NotExpired(f, row)

\* _roster_projection: the join finds the other device's row with the same value
ShownConflict(d, f) ==
    \E c \in conflicts :
        /\ c.device = d /\ c.field = f
        /\ last[d][f] # None /\ Fresh(f, last[d][f]) /\ last[d][f].value = c.value
        /\ Age(last[d][f]) <= Window
        /\ last[c.other][f] # None /\ last[c.other][f].value = c.value
        /\ Age(last[c.other][f]) <= Window /\ NotExpired(f, last[c.other][f])

\* the label of a device and where it is from; None for the fallback to its address
LabelOf(d) ==
    IF expected[d] # None THEN expected[d]
    ELSE IF Static[d] # None THEN Static[d]
    ELSE IF last[d][Label] # None /\ Fresh(Label, last[d][Label])
         THEN last[d][Label].value ELSE None

\* roster_rows: the devices of the roster's pages
Listed == {d \in Devices : \E f \in Fields : last[d][f] # None}
\* roster_device_row has something to say of the device
HasRow(d) == d \in Listed \/ expected[d] # None \/ \E o \in 1 .. MaxIngests : d \in seen[o]

\* roster_label_candidates, with something in its fields
Namesakes(label) ==
    {e \in Listed : \/ expected[e] = label
                    \/ last[e][Label] # None /\ last[e][Label].value = label}

\* _disambiguate_roster_labels: does d's name get a suffix on a page with these devices?
Suffixed(d, page) ==
    LET label == LabelOf(d)
        others == Devices \ {e \in page : LabelOf(e) = label}
    IN  /\ label # None
        /\ \/ \E e \in page \ {d} : LabelOf(e) = label
           \/ \E e \in others : Static[e] = label /\ HasRow(e) /\ LabelOf(e) = label
           \/ \E e \in others \cap Namesakes(label) : LabelOf(e) = label

-----------------------------------------------------------------------------
(* Properties                                                              *)

Row == [value : {r.value : r \in Offered}, file : Files, obs : 1 .. MaxIngests,
        time : 1 .. MaxClock, policy : 1 .. 2, rank : Nat]

TypeOK ==
    /\ clock \in 1 .. MaxClock /\ policy \in 1 .. 2 /\ ingests \in 0 .. MaxIngests
    /\ seen \in [1 .. MaxIngests -> SUBSET Devices] /\ whole \subseteq 1 .. MaxIngests
    /\ last \in [Devices -> [Fields -> Row \cup {None}]]
    /\ \A c \in conflicts : c.device \in Devices /\ c.other \in Devices \ {c.device}
    /\ expected \in [Devices -> Labels \cup {None}]

\* What is last known of a device was stated by a complete observation, whose dated sources
\* all say the same; as long as the observation is retained, the fact samples show it.
\* (_insert_roster_facts keeps both tables and decides on the way.)
LastKnownUndisputed ==
    \A d \in Devices, f \in Fields :
        last[d][f] # None /\ d \in seen[last[d][f].obs] =>
            /\ last[d][f].obs \in whole
            /\ \E s \in samples :
                  /\ s.obs = last[d][f].obs /\ s.device = d /\ s.field = f
                  /\ s.file = last[d][f].file /\ s.dated /\ s.conflict = "none"
            /\ \A s \in samples :
                  s.obs = last[d][f].obs /\ s.device = d /\ s.field = f /\ s.dated
                  => s.values = {last[d][f].value}

\* An alias collision that a read shows is one now, whatever expired, was replaced or was
\* purged since the conflicts were last computed (_refresh_alias_conflicts runs only when a
\* complete observation is stored).
CollisionsAreReal ==
    \A d \in Devices, f \in Aliases :
        ShownConflict(d, f) =>
            \E e \in Devices \ {d} :
                /\ last[e][f] # None /\ last[e][f].value = last[d][f].value
                /\ \A x \in {d, e} : Age(last[x][f]) <= Window /\ NotExpired(f, last[x][f])

\* A complete observation that changes what is known leaves every device marked that holds
\* a recent alias of another one, unless the retention limit removed a device meanwhile, or a
\* row that is neither recent nor expired holds it, too (then that one may be the only partner
\* kept, which a read does not show).
Known(d, f) == last[d][f] # None
NoneForgotten == \A d \in Devices, f \in Fields : Known(d, f) => Known(d, f)'
Shared(d, e, f) ==
    /\ Known(d, f) /\ Known(e, f) /\ last[d][f].value = last[e][f].value
    /\ Fresh(f, last[d][f]) /\ Fresh(f, last[e][f])
AllMarked ==
    \A d, e \in Devices, f \in Aliases :
        /\ d # e /\ Shared(d, e, f)
        /\ \A x \in Devices : Shared(d, x, f) => Age(last[x][f]) <= Window
        => ShownConflict(d, f)
Marks == (last' # last /\ ingests' # ingests /\ NoneForgotten) => AllMarked'
CollisionsAreMarked == [][Marks]_vars

\* What is known of a device never goes back: the next row is as authoritative, and later, or
\* of the same time and another file.  A file read again with the same time changes nothing.
Advance ==
    \A d \in Devices, f \in Fields :
        Known(d, f) /\ last'[d][f] \notin {None, last[d][f]} =>
            /\ last'[d][f].rank >= last[d][f].rank
            /\ \/ last'[d][f].time > last[d][f].time
               \/ last'[d][f].time = last[d][f].time /\ last'[d][f].file # last[d][f].file
KnownNeverGoesBack == [][Advance]_vars

\* Two listed devices of one name are told apart on every page, on which both, one or none
\* of the others is.
NamesApart ==
    \A d, e \in Listed :
        d # e /\ LabelOf(d) # None /\ LabelOf(d) = LabelOf(e)
          => Suffixed(d, {d}) /\ Suffixed(d, {d, e}) /\ Suffixed(d, Listed)

=============================================================================
