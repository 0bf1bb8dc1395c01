---------------------------- MODULE CliCollection ----------------------------
(***************************************************************************)
(* One "otbr-cli networkdiag fetch-all" (otbr_cli_networkdiag_topology.py):*)
(* router table, mesh diagnostic, multicast, a direct query of every       *)
(* router that is not known well enough, then of every child in the        *)
(* children tables of the routers, with retries by two policies and a ping *)
(* after silence.  Meanwhile devices change their RLOC16 and late answers  *)
(* to the multicast turn up in the output of later commands.  The records  *)
(* are kept by RLOC16, with a second map from extended address to RLOC16.  *)
(*                                                                         *)
(* A record keeps what the collector decides by: whom it names, whether    *)
(* enough TLVs were received, whether a direct query was answered, the     *)
(* verdict on its child and the children it lists.                         *)
(***************************************************************************)
EXTENDS Naturals, FiniteSets, SequencesExt

CONSTANTS
    Devices,
    RouterSlots, ChildSlots,    \* RLOC16s
    Parent,             \* the router RLOC16 in a child RLOC16
    Start,              \* where the devices are when the collection starts
    Policies,           \* the enabled child policies, "fast" before "detail"
    MaxMoves,           \* bound: changes of RLOC16 during the collection
    CastAttempts,       \* bound: multicast queries (the code sends 4)
    FastAttempts, DetailAttempts,   \* bounds (3 and 7 in the code)
    None

Slots == RouterSlots \cup ChildSlots
Unknown == "unknown"    \* the placeholder identities "Offline-..." and "found-..."
Records == [who : Devices \cup {Unknown}, rich : BOOLEAN, heard : BOOLEAN, answered : BOOLEAN,
            status : {"none", "responded", "no-response"},
            reach : {"none", "reachable", "unknown"}, kids : SUBSET ChildSlots]
Frames == [dev : Devices, slot : Slots, rec : Records]

\* What the constants satisfy; no two devices of a mesh have one RLOC16.
CollectionAssumption ==
    /\ RouterSlots \cap ChildSlots = {} /\ Start \in [Devices -> Slots]
    /\ \A d, e \in Devices : Start[d] = Start[e] => d = e
    /\ IsFiniteSet(Devices) /\ Unknown \notin Devices
    /\ None \notin Devices \cup Slots \cup Records \cup Frames
    /\ Parent \in [ChildSlots -> RouterSlots] /\ Policies \in Seq({"fast", "detail"})
    /\ MaxMoves \in Nat /\ {CastAttempts, FastAttempts, DetailAttempts} \subseteq Nat \ {0}

VARIABLES
    at,         \* the mesh: the RLOC16 of every device
    used,       \* the RLOC16s given out so far
    late,       \* multicast answers on their way
    stage,      \* the phase of the collection
    cast,       \* multicast: << queries sent, consolidated records by device >>
    todo,       \* the routers, then the children, still to be queried
    routers,    \* router_rlocs
    try,        \* the query in progress
    records,    \* network_topology_map
    locations,  \* extaddr_to_rloc
    saved,      \* the records of the last checkpoint written
    direct      \* the devices that have answered a direct child query

vars == << at, used, late, stage, cast, todo, routers, try, records, locations,
           saved, direct >>
mesh == << at, used >>

Record(d, rich, heard, kids) ==
    [who |-> d, rich |-> rich, heard |-> heard, answered |-> FALSE,
     status |-> "none", reach |-> "none", kids |-> kids]
Placeholder == Record(Unknown, FALSE, FALSE, {})

\* the child RLOC16s a router at slot r lists
KidsOf(r) == {s \in ChildSlots : Parent[s] = r /\ \E d \in Devices : at[d] = s}
\* what device d answers when asked for many or for few TLVs
Says(d, rich) ==
    Record(d, rich, TRUE, IF rich /\ at[d] \in RouterSlots THEN KidsOf(at[d]) ELSE {})

\* reconcile_device_record
Reconciled(e, i) ==
    [who |-> IF e.who = Unknown THEN i.who ELSE e.who,
     rich |-> e.rich \/ i.rich, heard |-> e.heard \/ i.heard,
     answered |-> e.answered \/ i.answered,
     status |-> IF e.status = "none" THEN i.status ELSE e.status,
     reach |-> IF e.reach = "none" THEN i.reach ELSE e.reach,
     kids |-> IF i.kids # {} THEN i.kids ELSE e.kids]

\* _upsert_device_record into the state m of the two maps
Upsert(m, slot, r) ==
    LET old == IF r.who = Unknown THEN None ELSE m.loc[r.who]
        loc == IF r.who = Unknown THEN m.loc ELSE [m.loc EXCEPT ![r.who] = slot]
    IN  IF old \notin {None, slot}
        THEN LET moved == IF m.rec[old] = None THEN r ELSE Reconciled(r, m.rec[old])
             IN  [rec |-> [m.rec EXCEPT ![old] = None, ![slot] = moved], loc |-> loc]
        ELSE [rec |-> [m.rec EXCEPT ![slot] =
                           IF @ = None THEN r ELSE Reconciled(@, r)],
              loc |-> loc]
\* ... of frames, records with the slots they are for, in the order of the list
UpsertAll(m, frames) ==
    LET after[i \in 0 .. Len(frames)] ==
            IF i = 0 THEN m ELSE Upsert(after[i - 1], frames[i].slot, frames[i].rec)
    IN  after[Len(frames)]
Maps == [rec |-> records, loc |-> locations]
Keep(m) == records' = m.rec /\ locations' = m.loc

Idle == [slot |-> None]

Init ==
    /\ at = Start /\ used = {Start[d] : d \in Devices} /\ late = {}
    /\ stage = "table" /\ cast = << 0, << >> >> /\ todo = {} /\ routers = {}
    /\ try = Idle /\ saved = [s \in Slots |-> None] /\ direct = {}
    /\ records = [s \in Slots |-> None] /\ locations = [d \in Devices |-> None]

-----------------------------------------------------------------------------
(* The mesh: a device takes an RLOC16 nobody had during the collection.    *)

Move(d) ==
    /\ stage # "done" /\ Cardinality(used) < Cardinality(Devices) + MaxMoves
    /\ \E s \in Slots \ used :
          at' = [at EXCEPT ![d] = s] /\ used' = used \cup {s}
    /\ UNCHANGED << late, stage, cast, todo, routers, try, records, locations,
                    saved, direct >>

-----------------------------------------------------------------------------
(* Router table, mesh diagnostic, multicast                                *)

ListedRouters == {d \in Devices : at[d] \in RouterSlots}

\* fetch_network_diag_topology_router_table; a failed command lists no router.
RouterTable ==
    /\ stage = "table"
    /\ \E ds \in {ListedRouters, {}} :
          LET rows == {[slot |-> at[d], rec |-> Record(d, FALSE, FALSE, {})] : d \in ds}
          IN  /\ \E frames \in SetToSeqs(rows) : Keep(UpsertAll(Maps, frames))
              /\ routers' = {at[d] : d \in ds}
    /\ saved' = records'
    /\ stage' = "meshdiag"
    /\ UNCHANGED << mesh, late, cast, todo, try, direct >>

\* fetch_network_diag_topology_meshdiag_topology
Meshdiag ==
    /\ stage = "meshdiag"
    /\ \E ds \in {ListedRouters, {}} :
          LET rows == {[slot |-> at[d], rec |-> Record(d, FALSE, FALSE, KidsOf(at[d]))] : d \in ds}
          IN  \E frames \in SetToSeqs(rows) : Keep(UpsertAll(Maps, frames))
    /\ saved' = records'
    /\ stage' = "cast"
    /\ UNCHANGED << mesh, late, cast, todo, routers, try, direct >>

\* One query of fetch_network_diag_multicast: the devices in ds answer in time,
\* those in ls too late.  The first asks for more TLVs than the others.  A
\* consolidated record keeps the RLOC16 of its first answer.
Cast(ds, ls) ==
    /\ stage = "cast" /\ cast[1] < CastAttempts
    /\ LET rich == cast[1] = 0
           first(d) == d \notin DOMAIN cast[2]
       IN  /\ cast' = << cast[1] + 1,
                  [d \in DOMAIN cast[2] \cup ds |->
                      IF d \notin ds THEN cast[2][d]
                      ELSE IF first(d) THEN [slot |-> at[d], rec |-> Says(d, rich)]
                      ELSE [cast[2][d] EXCEPT !.rec = Reconciled(@, Says(d, rich))]] >>
           /\ late' = late \cup {[dev |-> d, slot |-> at[d], rec |-> Says(d, rich)] : d \in ls}
    /\ UNCHANGED << mesh, stage, todo, routers, try, records, locations, saved, direct >>

\* fetch_network_diag_topology_multicast: the records join the map.
Join ==
    /\ stage = "cast" /\ cast[1] = CastAttempts
    /\ \E frames \in SetToSeqs({cast[2][d] : d \in DOMAIN cast[2]}) :
          Keep(UpsertAll(Maps, frames))
    /\ saved' = IF DOMAIN cast[2] = {} THEN saved ELSE records'
    /\ stage' = "routers" /\ todo' = routers
    /\ UNCHANGED << mesh, late, cast, routers, try, direct >>

-----------------------------------------------------------------------------
(* Direct queries                                                          *)

\* What the output of a direct query holds: the answer of a device at the slot
\* or nothing, and at most one late multicast answer.  A late answer from the
\* slot itself counts as its answer, any other is caught for later.
Outputs(slot) ==
    {[own |-> a, stray |-> f] :
        a \in {Says(d, TRUE) : d \in {x \in Devices : at[x] = slot}} \cup {None},
        f \in late \cup {None}}
Answered(out, slot) ==
    LET fromStray == out.stray # None /\ out.stray.slot = slot
    IN  IF out.own # None
        THEN IF fromStray THEN Reconciled(out.stray.rec, out.own) ELSE out.own
        ELSE IF fromStray THEN out.stray.rec ELSE None
Caught(out, slot) ==
    IF out.stray = None \/ out.stray.slot = slot THEN << >> ELSE << out.stray >>

\* The routers that need no direct query: enough TLVs were received from them.
KnownWell(r) == records[r] # None /\ records[r].heard /\ records[r].rich

\* Where only the response histories, which are not kept here, decide whether a checkpoint
\* is written, they may have changed or not.
RouterSkip(r) ==
    /\ stage = "routers" /\ try = Idle /\ r \in todo /\ KnownWell(r)
    /\ Keep(Upsert(Maps, r, records[r]))
    /\ \E changed \in BOOLEAN : saved' = IF changed THEN records' ELSE saved
    /\ todo' = todo \ {r}
    /\ UNCHANGED << mesh, late, stage, cast, routers, try, direct >>

\* The record of the map is put aside before the query.
RouterStart(r) ==
    /\ stage = "routers" /\ try = Idle /\ r \in todo /\ ~KnownWell(r)
    /\ try' = [slot |-> r, n |-> 0, prior |-> records[r], answer |-> None, caught |-> << >>]
    /\ UNCHANGED << mesh, late, stage, cast, todo, routers, records, locations, saved, direct >>

RouterAttempts == 2
RouterQuery ==
    /\ stage = "routers" /\ try # Idle /\ try.n < RouterAttempts /\ try.answer = None
    /\ \E out \in Outputs(try.slot) :
          /\ try' = [try EXCEPT !.n = @ + 1, !.answer = Answered(out, try.slot),
                                !.caught = @ \o Caught(out, try.slot)]
          /\ late' = late \ {out.stray}
    /\ UNCHANGED << mesh, stage, cast, todo, routers, records, locations, saved, direct >>

\* Mutant: a router that does not answer is recorded as unknown.
FallbackUnknown(m, r, prior) == [m EXCEPT !.rec[r] = Placeholder]
\* A router that does not answer gets back the record put aside, if any.
Fallback(m, r, prior) ==
    [m EXCEPT !.rec[r] = IF prior = None THEN Placeholder ELSE [prior EXCEPT !.heard = TRUE]]

\* Every caught record has a history of its own and is followed by a checkpoint; the answer of
\* the router itself only when the router is new or a history has changed.
RouterSettle ==
    /\ stage = "routers" /\ try # Idle
    /\ try.answer # None \/ try.n = RouterAttempts
    /\ LET caught == UpsertAll(Maps, try.caught)
           m == IF try.answer = None THEN Fallback(caught, try.slot, try.prior)
                ELSE Upsert(caught, try.slot, try.answer)
       IN  /\ Keep(m)
           /\ \E changed \in BOOLEAN :
                 saved' = IF try.answer = None \/ caught.rec[try.slot] = None \/ changed THEN m.rec
                          ELSE IF try.caught # << >> THEN caught.rec
                          ELSE saved
    /\ todo' = todo \ {try.slot} /\ try' = Idle
    /\ UNCHANGED << mesh, late, stage, cast, routers, direct >>

\* collect_child_fetch_targets
Expand ==
    /\ stage = "routers" /\ try = Idle /\ todo = {}
    /\ stage' = "children"
    /\ todo' = UNION {records[r].kids : r \in {s \in routers : records[s] # None}}
    /\ UNCHANGED << mesh, late, cast, routers, try, records, locations, saved, direct >>

-----------------------------------------------------------------------------
(* Children: fetch_network_diag_topology_expand_children                   *)

Open(c, p) == [slot |-> c, policy |-> p, n |-> 0, answer |-> None, caught |-> << >>,
               end |-> "open"]
Attempts(p) == IF Policies[p] = "fast" THEN FastAttempts ELSE DetailAttempts

ChildStart(c) ==
    /\ stage = "children" /\ try = Idle /\ c \in todo /\ Policies # << >>
    /\ try' = Open(c, 1)
    /\ UNCHANGED << mesh, late, stage, cast, todo, routers, records, locations, saved, direct >>

\* _has_fast_child_diagnostic_coverage
Covered(c) == records[c] # None /\ records[c].rich /\ records[c].who # Unknown

ChildSatisfied ==
    /\ stage = "children" /\ try # Idle /\ try.n = 0 /\ try.end = "open"
    /\ Policies[try.policy] = "fast" /\ Covered(try.slot)
    /\ try' = [try EXCEPT !.end = "satisfied"]
    /\ UNCHANGED << mesh, late, stage, cast, todo, routers, records, locations, saved, direct >>

\* the child has answered, in this policy or in an earlier one
AnsweredBefore(c) ==
    try.answer # None \/ (records[c] # None /\ records[c].answered)

\* One attempt of fetch_child_with_retries.
ChildQuery ==
    /\ stage = "children" /\ try # Idle /\ try.end = "open"
    /\ ~(try.n = 0 /\ Policies[try.policy] = "fast" /\ Covered(try.slot))
    /\ \E out \in Outputs(try.slot) :
          LET a == Answered(out, try.slot)
              last == try.n + 1 = Attempts(try.policy)
          IN  /\ try' = [try EXCEPT
                     !.n = @ + 1,
                     !.answer = IF a = None THEN @ ELSE IF @ = None THEN a ELSE Reconciled(@, a),
                     !.caught = @ \o Caught(out, try.slot),
                     !.end =
                       IF a # None
                       THEN IF Policies[try.policy] = "fast" \/ last THEN "responded" ELSE "open"
                       ELSE IF AnsweredBefore(try.slot) THEN "retained"
                       ELSE IF last THEN "exhausted" ELSE "open"]
              /\ late' = late \ {out.stray}
    /\ UNCHANGED << mesh, stage, cast, todo, routers, records, locations, saved, direct >>

LastPolicy == try.policy = Len(Policies)
\* The end of a policy: the records caught on the way and, unless it was
\* exhausted, the answers join the map (reconcile_child_fetch_outcome). A
\* checkpoint follows unless nothing has joined it and no history has changed.
ChildReconcile ==
    /\ stage = "children" /\ try # Idle /\ try.end \notin {"open", "silent"}
    /\ LET caught == UpsertAll(Maps, try.caught)
           told == Upsert(caught, try.slot, [try.answer EXCEPT !.answered = TRUE])
           m == IF try.answer = None THEN caught
                ELSE [told EXCEPT !.rec[try.slot].status = "responded",
                                  !.rec[try.slot].reach = "reachable"]
       IN  /\ Keep(m)
           /\ \E changed \in BOOLEAN :
                 saved' = IF try.answer # None \/ try.caught # << >> \/ changed THEN m.rec
                          ELSE saved
    /\ direct' = IF try.answer = None THEN direct ELSE direct \cup {try.answer.who}
    /\ IF ~LastPolicy THEN try' = Open(try.slot, try.policy + 1) /\ UNCHANGED todo
       ELSE IF try.end = "exhausted" THEN try' = [try EXCEPT !.end = "silent"] /\ UNCHANGED todo
       ELSE try' = Idle /\ todo' = todo \ {try.slot}
    /\ UNCHANGED << mesh, late, stage, cast, routers >>

\* After the last policy in vain: perhaps a ping, a placeholder for a child
\* nobody has heard of, and the verdict.
ChildSilent(reply) ==
    /\ stage = "children" /\ try # Idle /\ try.end = "silent"
    /\ LET c == try.slot
           known == records[c] # None /\ records[c].who # Unknown
           m == IF known THEN Maps ELSE Upsert(Maps, c, Placeholder)
           told == [m EXCEPT !.rec[c].status = "no-response",
                             !.rec[c].reach = IF reply THEN "reachable" ELSE "unknown"]
       IN  /\ Keep(told)
           /\ \E changed \in BOOLEAN :
                 saved' = IF told.rec # records \/ changed THEN told.rec ELSE saved
    /\ todo' = todo \ {try.slot} /\ try' = Idle
    /\ UNCHANGED << mesh, late, stage, cast, routers, direct >>

\* The result goes to a file of its own; what is still late arrives after the end.
Done ==
    /\ stage = "children" /\ try = Idle /\ todo = {}
    /\ stage' = "done" /\ late' = {}
    /\ UNCHANGED << mesh, cast, todo, routers, try, records, locations, saved, direct >>

Next ==
    \/ \E d \in Devices : Move(d)
    \/ RouterTable \/ Meshdiag \/ Join \/ Expand \/ Done
    \/ \E ds \in SUBSET Devices : \E ls \in SUBSET (Devices \ ds) : Cast(ds, ls)
    \/ \E r \in RouterSlots : RouterSkip(r) \/ RouterStart(r)
    \/ RouterQuery \/ RouterSettle
    \/ \E c \in ChildSlots : ChildStart(c)
    \/ ChildSatisfied \/ ChildQuery \/ ChildReconcile
    \/ \E reply \in BOOLEAN : ChildSilent(reply)

Spec == Init /\ [][Next]_vars

-----------------------------------------------------------------------------

\* Between two queries, every device the collector has heard of has a record
\* that names it, where the second map says: whatever moved, went silent or
\* answered late, nobody is dropped from the topology.
AnsweredAreKept ==
    try = Idle =>
        \A d \in Devices : locations[d] # None =>
            /\ records[locations[d]] # None
            /\ records[locations[d]].who = d

\* A child that has answered a direct query stays "responded": the silence of a
\* later attempt, of a later policy or at a later RLOC16 does not take it back.
AnswerSticks ==
    \A d \in direct : LET s == locations[d] IN
        records[s] # None /\ records[s].who = d => records[s].status = "responded"

\* Whom a record names and the verdict on it.
VerdictOn(x) == << x.who, x.answered, x.status, x.reach >>
\* What the checkpoint may lack of a record of the map: what a router that was known already
\* has added to it by its direct answer, TLVs and children.
Lags(r) ==
    /\ stage # "cast" /\ r \in routers \ todo
    /\ saved[r] # None /\ records[r] # None /\ VerdictOn(saved[r]) = VerdictOn(records[r])

\* A collector that is killed between two queries leaves every device of the map, at its RLOC16
\* and with the verdict on it, in the checkpoint on disk, and nothing that the map has dropped.
CheckpointIsCurrent ==
    (try = Idle /\ stage \in {"cast", "routers", "children", "done"}) =>
        \A s \in Slots : saved[s] = records[s] \/ Lags(s)

\* _upsert_device_record: "This prevents duplicates when devices change roles
\* during topology polling": no device is named by two records.
NamedOnce ==
    \A s, t \in Slots :
        /\ records[s] # None /\ records[t] # None
        /\ records[s].who = records[t].who /\ records[s].who # Unknown
        => s = t
=============================================================================
