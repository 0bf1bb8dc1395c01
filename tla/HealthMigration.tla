--------------------------- MODULE HealthMigration ---------------------------
(***************************************************************************)
(* Migration of the stored assessments to a new health policy              *)
(* (src/src/td_health_migration.py: inventory_health_history and           *)
(* migrate_health_history), cohort by cohort, while the store is written   *)
(* by others (src/src/td_health_sqlite.py).                                *)
(*                                                                         *)
(* An assessment is named by its observation, its revision and its origin. *)
(* Observations are numbered in the order of their times.                  *)
(***************************************************************************)
EXTENDS Naturals, FiniteSets

CONSTANTS Cohorts, CohortOf,  \* [1..NumObs -> Cohorts]: network and dataset
          NumObs,
          MaxRevision,        \* bound: native assessments of an observation
          Limit               \* comparisons the store retains

Obs == 1..NumObs

\* What the constants satisfy.
MigrationAssumption ==
    /\ NumObs \in Nat /\ Limit \in Nat /\ MaxRevision \in Nat \ {0} /\ IsFiniteSet(Cohorts)
    /\ CohortOf \in [Obs -> Cohorts]

VARIABLES
    native,      \* the latest native assessment of each observation; 0: not observed
    old,         \* observations whose latest native assessment is of the old policy
    broken,      \* observations whose retained evidence cannot be replayed
    upgrades,    \* committed upgrades: <<observation, revision>> of their source
    preference,  \* the preferred assessment of each: its origin (the basis is `native`)
    comparisons, \* stored pairs of assessments
    pc, todo,    \* the migration, and the cohorts left
    target,      \* its policy: "new", or "old" when the program was taken back
    preview,     \* its inventory, and what was preferred then
    chosen,
    before, reserved, mine,  \* comparisons it found, may store, has stored
    backup,      \* what the backup holds
    disturbed    \* history: the store or the disk was touched by others since the preview

store     == <<native, old, broken, upgrades, preference, comparisons>>
migration == <<pc, todo, target, preview, chosen, before, reserved, mine, backup>>
vars      == <<store, migration, disturbed>>

NoBackup  == [of |-> <<>>, pairs |-> {}]
Present   == {o \in Obs : native[o] > 0}
Endpoint(o) == <<o, native[o], preference[o]>>

Outdated  == IF target = "new" THEN old ELSE Present \ old

\* What the migration prefers of an observation: its native assessment when that is of the
\* target policy, else the replay of its evidence under that policy.
TargetOf(o) == <<o, native[o], IF o \in Outdated THEN "migration" ELSE "native">>

Largest(S) == CHOOSE x \in S : \A y \in S : y <= x

\* The command ends, and with it what it knew.
Forget ==
    /\ todo' = {} /\ preview' = <<>> /\ chosen' = <<>>
    /\ before' = {} /\ reserved' = {} /\ mine' = {} /\ backup' = NoBackup

Init ==
    /\ native \in [Obs -> {0, 1}] /\ old \in SUBSET Present
    /\ broken \in SUBSET old /\ Cardinality(broken) <= 1
    /\ upgrades = {} /\ preference = [o \in Obs |-> "native"] /\ comparisons = {}
    /\ pc = "idle" /\ todo = {} /\ target = "new" /\ preview = <<>>
    /\ chosen = <<>> /\ before = {} /\ reserved = {} /\ mine = {}
    /\ backup = NoBackup /\ disturbed = FALSE

-------------------------------------------------------------------------------
(* The other writers.                                                      *)

\* Bound: once a migration has run, one write of others before the next.
Quiet == pc = "idle" \/ ~disturbed

\* The 2000 comparisons of the latest observations stay.
Retain(pairs) ==
    IF Cardinality(pairs) <= Limit THEN pairs
    ELSE CHOOSE kept \in SUBSET pairs :
           /\ Cardinality(kept) = Limit
           /\ \A k \in kept, x \in pairs \ kept : k[2][1] >= x[2][1]

\* save_processing_result: a new native assessment becomes the basis and is preferred; it is
\* compared with the preferred assessment of the observation before it.
Process(o) ==
    /\ Quiet /\ native[o] < MaxRevision
    /\ native' = [native EXCEPT ![o] = @ + 1]
    /\ old' = old \ {o} /\ broken' = broken \ {o}
    /\ preference' = [preference EXCEPT ![o] = "native"]
    /\ LET earlier == {e \in Present : e < o /\ CohortOf[e] = CohortOf[o]}
       IN comparisons' = IF earlier = {} THEN comparisons
                         ELSE Retain(comparisons \cup
                                {<<Endpoint(Largest(earlier)), <<o, native[o] + 1, "native">>>>})
    /\ disturbed' = (pc # "idle")
    /\ UNCHANGED <<upgrades, migration>>

\* _prune_observations: an old observation goes with all that refers to it.
Prune(o) ==
    /\ Quiet /\ o \in Present
    /\ native' = [native EXCEPT ![o] = 0]
    /\ old' = old \ {o} /\ broken' = broken \ {o}
    /\ preference' = [preference EXCEPT ![o] = "native"]
    /\ upgrades' = {u \in upgrades : u[1] # o}
    /\ comparisons' = {p \in comparisons : p[1][1] # o /\ p[2][1] # o}
    /\ disturbed' = (pc # "idle")
    /\ UNCHANGED migration

-------------------------------------------------------------------------------
(* The inventory and the reservations.                                     *)

\* inventory_health_history: eligible are those whose target is not the preferred one.
Inventory == [basis |-> native, old |-> old, bad |-> broken]
Stale(o)  == IF target = "new" THEN o \in preview.old ELSE o \notin preview.old
Cohort(c)     == {o \in Present : CohortOf[o] = c}
Actionable(c) == {o \in Cohort(c) : TargetOf(o) # Endpoint(o)}
Invalid(c)    == Cohort(c) \cap broken # {}

\* The pairs of a cohort after its migration: each observation with the one before it.
Pairs(c) ==
    {<<TargetOf(Largest({e \in Cohort(c) : e < o})), TargetOf(o)>> :
        o \in {a \in Cohort(c) : \E e \in Cohort(c) : e < a}}

\* _comparison_reservations: of the new pairs, those of the latest observations, as many as
\* there are slots.
Reservations ==
    LET new   == UNION {Pairs(c) : c \in {d \in Cohorts : Actionable(d) # {} /\ ~Invalid(d)}}
                   \ comparisons
        slots == IF Cardinality(comparisons) >= Limit THEN 0
                 ELSE Limit - Cardinality(comparisons)
        n     == IF Cardinality(new) < slots THEN Cardinality(new) ELSE slots
    IN CHOOSE kept \in SUBSET new :
          Cardinality(kept) = n /\ \A k \in kept, x \in new \ kept : k[2][1] >= x[2][1]

\* The command may be run again, and by a program of the other policy.
Preview ==
    /\ pc \in {"idle", "done", "failed"} /\ pc' = "reserve"
    /\ target' \in {"new", "old"} /\ preview' = Inventory /\ chosen' = preference
    /\ backup' = NoBackup /\ disturbed' = FALSE
    /\ UNCHANGED <<store, todo, before, reserved, mine>>

\* A source that is gone since the preview ends it; otherwise the store may have moved on.
Reserve ==
    /\ pc = "reserve"
    /\ IF \A o \in Obs : preview.basis[o] > 0 => native[o] > 0
       THEN pc' = "cohorts" /\ todo' = Cohorts /\ reserved' = Reservations
            /\ before' = comparisons /\ UNCHANGED <<preview, chosen, mine, backup>>
       ELSE pc' = "failed" /\ Forget
    /\ UNCHANGED <<store, target, disturbed>>

-------------------------------------------------------------------------------
(* migrate_health_history, one transaction a cohort.                       *)

\* Under the write lock: the comparisons and the inventory are the ones the preview saw.
Unchanged ==
    /\ comparisons = before \cup mine
    /\ Inventory = preview

\* Nothing to do, or evidence that cannot be replayed, says the preview.
Idle(c) ==
    \/ \E o \in preview.bad : CohortOf[o] = c
    \/ ~\E o \in Obs : /\ CohortOf[o] = c /\ preview.basis[o] > 0
                       /\ chosen[o] # (IF Stale(o) THEN "migration" ELSE "native")

Skip(c) ==
    /\ pc = "cohorts" /\ c \in todo /\ Idle(c)
    /\ todo' = todo \ {c}
    /\ UNCHANGED <<store, pc, target, preview, chosen, before, reserved, mine, backup, disturbed>>

\* The first cohort makes the backup.
Backup ==
    IF backup = NoBackup THEN [of |-> native, pairs |-> comparisons] ELSE backup

\* Mutant: the preference is set without an edge to what it replays.
EdgesForgotten(c) == upgrades

\* The edges from the native assessments to their replays.
Edges(c) == upgrades \cup {<<o, native[o]>> : o \in Cohort(c) \cap Outdated}

\* Every member becomes preferred in its new form, and the reserved comparisons are stored.
Commit(c) ==
    /\ pc = "cohorts" /\ c \in todo /\ ~Idle(c) /\ Unchanged
    /\ backup' = Backup
    /\ preference' = [o \in Obs |-> IF o \in Cohort(c) THEN TargetOf(o)[3] ELSE preference[o]]
    /\ upgrades' = Edges(c)
    /\ LET new == (Pairs(c) \cap reserved) \ comparisons
       IN comparisons' = comparisons \cup new /\ mine' = mine \cup new
    /\ todo' = todo \ {c}
    /\ UNCHANGED <<native, old, broken, pc, target, preview, chosen, before, reserved, disturbed>>

\* Anything else, and a backup that cannot be made, rolls the cohort back and ends it all.
Stop == pc' = "failed" /\ Forget /\ UNCHANGED <<store, target>>

Abort(c) ==
    /\ pc = "cohorts" /\ c \in todo /\ ~Idle(c) /\ ~Unchanged
    /\ Stop /\ UNCHANGED disturbed

DiskFails(c) ==
    /\ pc = "cohorts" /\ c \in todo /\ ~Idle(c) /\ backup = NoBackup
    /\ Stop /\ disturbed' = TRUE

Finish ==
    /\ pc = "cohorts" /\ todo = {} /\ pc' = "done"
    /\ Forget /\ UNCHANGED <<store, target, disturbed>>

Next ==
    \/ \E o \in Obs : Process(o) \/ Prune(o)
    \/ Preview \/ Reserve
    \/ \E c \in Cohorts : Skip(c) \/ Commit(c) \/ Abort(c) \/ DiskFails(c)
    \/ Finish

Spec == Init /\ [][Next]_vars

-------------------------------------------------------------------------------
TypeOK ==
    /\ native \in [Obs -> 0..MaxRevision] /\ old \subseteq Present /\ broken \subseteq old
    /\ upgrades \subseteq Obs \X (1..MaxRevision)
    /\ preference \in [Obs -> {"native", "migration"}]
    /\ pc \in {"idle", "reserve", "cohorts", "done", "failed"} /\ todo \subseteq Cohorts
    /\ target \in {"new", "old"} /\ disturbed \in BOOLEAN

\* An assessment preferred over the native one is the committed upgrade of the very
\* native assessment that would be preferred without it: nothing newer hides behind it.
Lineage ==
    \A o \in Obs : preference[o] = "migration" => <<o, native[o]>> \in upgrades

\* What a migration commits it can take back and had announced: the backup holds the
\* assessments the commit changes the preference of, no comparison goes, and it stores only
\* comparisons it had reserved, within what the store retains.
CommitsAreBackedUp ==
    [][\A c \in Cohorts : Commit(c) =>
          /\ backup'.of = native /\ backup'.pairs \subseteq comparisons'
          /\ comparisons \subseteq comparisons' /\ comparisons' \ comparisons \subseteq reserved
          /\ Cardinality(comparisons') <= Limit]_vars

\* A migration that nobody disturbs is never ended by its own writes, one cohort's by the
\* next: it completes, and prefers the target of every observation it could replay.
UndisturbedSucceeds ==
    ~disturbed =>
        /\ pc # "failed"
        /\ pc = "done" =>
             \A o \in Present : ~Invalid(CohortOf[o]) => Endpoint(o) = TargetOf(o)
===============================================================================
