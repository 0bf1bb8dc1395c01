---------------------------- MODULE SchemaUpgrade ----------------------------
(***************************************************************************)
(* Schema migrations of the health store                                   *)
(* (src/src/td_health_sqlite.py: _run_schema_migrations and                *)
(* _create_migration_backup), by several processes that open the store at  *)
(* the same time, any of which may be killed, beside a writer.             *)
(***************************************************************************)
EXTENDS Naturals, FiniteSets

CONSTANTS Processes,
          Supported,  \* SCHEMA_VERSION: the newest schema this code knows
          Oldest,     \* the oldest schema the store may have
          MaxWrites   \* bound: transactions of a writer

VARIABLES
    version, content,  \* the committed database: its schema and a count of transactions
    created,           \* it has tables
    pc, planned,       \* of each process, and the schema it planned from
    holder,            \* who holds the write lock
    inTx,              \* the schema in the holder's transaction
    copy,              \* the backup it makes: the schema and content, and what was published
    backups            \* recovery copies with metadata

vars == <<version, content, created, pc, planned, holder, inTx, copy, backups>>

Nobody == "nobody"

UpgradeAssumption == Supported \in Nat /\ Oldest \in Nat /\ Nobody \notin Processes

NoCopy == [version |-> 0, content |-> 0, linked |-> FALSE, described |-> FALSE]

Init ==
    /\ version \in Oldest..(Supported + 1) /\ content = 0 /\ created \in BOOLEAN
    /\ created \/ version = Oldest
    /\ pc = [p \in Processes |-> "new"] /\ planned = [p \in Processes |-> 0]
    /\ holder = Nobody /\ inTx = 0 /\ copy = NoCopy /\ backups = {}

Goto(p, s) == pc' = [pc EXCEPT ![p] = s]
database   == <<version, content, created>>

-------------------------------------------------------------------------------
\* initialize_health_store: a store without a table gets the newest schema at once.
Bootstrap(p) ==
    /\ pc[p] = "new" /\ ~created /\ holder = Nobody
    /\ created' = TRUE /\ version' = Supported /\ Goto(p, "ready")
    /\ UNCHANGED <<content, planned, holder, inTx, copy, backups>>

\* _migration_plan, before the lock: a newer schema is refused.
Plan(p) ==
    /\ pc[p] = "new" /\ created
    /\ planned' = [planned EXCEPT ![p] = version]
    /\ Goto(p, CASE version > Supported -> "refused"
                 [] version = Supported -> "ready"
                 [] OTHER               -> "planned")
    /\ UNCHANGED <<database, holder, inTx, copy, backups>>

\* BEGIN IMMEDIATE, and the plan again: another process may have migrated meanwhile.
Lock(p) ==
    /\ pc[p] = "planned" /\ holder = Nobody
    /\ IF version # planned[p] THEN Goto(p, "refused") /\ UNCHANGED <<holder, inTx>>
       ELSE Goto(p, "locked") /\ holder' = p /\ inTx' = version
    /\ UNCHANGED <<database, planned, copy, backups>>

Busy(p) ==
    /\ pc[p] = "planned" /\ holder # Nobody /\ Goto(p, "refused")
    /\ UNCHANGED <<database, planned, holder, inTx, copy, backups>>

\* source.backup(destination): another connection reads what is committed.
Copy(p) ==
    /\ pc[p] = "locked" /\ Goto(p, "copied")
    /\ copy' = [NoCopy EXCEPT !.version = version, !.content = content]
    /\ UNCHANGED <<database, planned, holder, inTx, backups>>

\* Its ledger and its tables are those of the schema the plan started from.
Verified(p) == copy.version = planned[p]

\* The copy is verified, linked under its name, described, and both are verified again.
Link(p) ==
    /\ pc[p] = "copied" /\ Verified(p) /\ Goto(p, "linked")
    /\ copy' = [copy EXCEPT !.linked = TRUE]
    /\ UNCHANGED <<database, planned, holder, inTx, backups>>

Describe(p) ==
    /\ pc[p] = "linked" /\ Goto(p, "described")
    /\ copy' = [copy EXCEPT !.described = TRUE]
    /\ UNCHANGED <<database, planned, holder, inTx, backups>>

\* Mutant: a failed backup does not stop the migration.
VerifyAnyhow(p) ==
    /\ pc[p] \in {"copied", "linked", "described"} /\ Goto(p, "migrating")
    /\ backups' = backups \cup IF copy.described THEN {copy} ELSE {}
    /\ copy' = NoCopy
    /\ UNCHANGED <<database, planned, holder, inTx>>

Verify(p) ==
    /\ pc[p] = "described" /\ Goto(p, "migrating")
    /\ backups' = backups \cup {copy} /\ copy' = NoCopy
    /\ UNCHANGED <<database, planned, holder, inTx>>

\* apply_registered_schema_migrations: one version after the other, each checked, in the
\* one transaction.
Migrate(p) ==
    /\ pc[p] = "migrating" /\ inTx < Supported
    /\ inTx' = inTx + 1
    /\ UNCHANGED <<database, pc, planned, holder, copy, backups>>

Commit(p) ==
    /\ pc[p] = "migrating" /\ inTx = Supported
    /\ version' = inTx /\ holder' = Nobody /\ inTx' = 0 /\ Goto(p, "ready")
    /\ UNCHANGED <<content, created, planned, copy, backups>>

\* A failure rolls back, and takes an incomplete backup away.
Fail(p) ==
    /\ holder = p /\ Goto(p, "refused") /\ holder' = Nobody /\ inTx' = 0 /\ copy' = NoCopy
    /\ UNCHANGED <<database, planned, backups>>

\* A kill leaves the files; the lock and the transaction go with the process.
Kill(p) ==
    /\ pc[p] \notin {"refused", "killed"} /\ Goto(p, "killed")
    /\ IF holder = p
       THEN /\ holder' = Nobody /\ inTx' = 0 /\ copy' = NoCopy
            /\ backups' = backups \cup IF copy.linked /\ copy.described THEN {copy} ELSE {}
       ELSE UNCHANGED <<holder, inTx, copy, backups>>
    /\ UNCHANGED <<database, planned>>

\* A process whose store is ready writes; an older version of the program may be one too.
Write ==
    /\ created /\ holder = Nobody /\ content < MaxWrites
    /\ content' = content + 1
    /\ UNCHANGED <<version, created, pc, planned, holder, inTx, copy, backups>>

Next ==
    \/ \E p \in Processes :
         \/ Bootstrap(p) \/ Plan(p) \/ Lock(p) \/ Busy(p) \/ Copy(p) \/ Link(p) \/ Describe(p)
         \/ Verify(p) \/ Migrate(p) \/ Commit(p) \/ Fail(p) \/ Kill(p)
    \/ Write

Spec == Init /\ [][Next]_vars

-------------------------------------------------------------------------------
TypeOK ==
    /\ version \in Oldest..(Supported + 1) /\ content \in 0..MaxWrites
    /\ holder \in Processes \cup {Nobody} /\ inTx \in 0..Supported
    /\ \A p \in Processes : planned[p] \in 0..(Supported + 1)
    /\ \A b \in backups : b.version \in Oldest..Supported

\* A step that changes the schema of a store with tables is a migration to the newest one
\* at once, and a described copy of the very transactions and the schema it replaces is on
\* disk: whoever migrates, and whatever was written or killed before.
UpgradeHasBackup ==
    [][created /\ version' # version =>
          /\ version' = Supported
          /\ \E b \in backups : b.version = version /\ b.content = content /\ b.described]_vars
===============================================================================
