---------------------------- MODULE SystemBackups ----------------------------
(***************************************************************************)
(* Backup and restore of the data directory                                *)
(* (src/src/td_system_backups.py), beside a writer of the data, and with a *)
(* failure or a kill at any step.                                          *)
(***************************************************************************)
EXTENDS Naturals, FiniteSets

CONSTANTS Files,      \* children of the data directory, without the next two
          MaxWrites   \* bound: times the data is written

ASSUME FilesAssumption == IsFiniteSet(Files)

\* The database, and the directory of recovery copies that migrations made.
Database == "database"
Recovery == "recovery"
Children == Files \cup {Database, Recovery}

Absent == 0   \* no such child; contents are numbered by the write that made them

VARIABLES
    writes, data,     \* the writes so far, and the data directory
    mounted,          \* it is a mount point
    exists,           \* there is such a directory
    source,           \* the backup that is restored from, or that create makes
    manifest,         \* its manifest: the digests of its files
    staging, previous,\* the directories beside it, during a restore
    state, left,      \* where the command is, and the children left in this step
    old               \* what the directory held when it was replaced

vars == <<writes, data, mounted, exists, source, manifest, staging, previous, state, left, old>>
dirs == <<staging, previous>>

Empty == [c \in Children |-> Absent]
Holds(d) == {c \in Children : d[c] # Absent}

Init ==
    /\ writes = 1 /\ mounted \in BOOLEAN /\ exists = TRUE
    /\ data \in {d \in [Children -> {Absent, 1}] : d[Database] = 1}
    /\ source = Empty /\ manifest = Empty
    /\ staging = Empty /\ previous = Empty /\ state = "idle" /\ left = {}
    /\ old = Empty

\* Collectors and the health store write beside a backup; a restore demands that no writer
\* is active, and looks for one of the database only.
Write ==
    /\ state \in {"idle", "copying", "database", "verifying"} /\ exists /\ writes < MaxWrites
    /\ writes' = writes + 1
    /\ \E c \in Children : data' = [data EXCEPT ![c] = writes + 1]
    /\ UNCHANGED <<mounted, exists, source, manifest, dirs, state, left, old>>

-------------------------------------------------------------------------------
(* create_backup.                                                          *)

Create ==
    /\ state = "idle" /\ exists /\ data[Database] # Absent /\ source = Empty
    /\ state' = "copying" /\ left' = Files /\ staging' = Empty
    /\ UNCHANGED <<writes, data, mounted, exists, source, manifest, previous, old>>

\* _copy_data_files: one file after the other, each as it is then; the recovery copies are
\* left out.
CopyFile ==
    /\ state = "copying" /\ left # {}
    /\ LET f == CHOOSE g \in left : TRUE IN
         left' = left \ {f} /\ staging' = [staging EXCEPT ![f] = data[f]]
    /\ UNCHANGED <<writes, data, mounted, exists, source, manifest, previous, state, old>>

\* _copy_sqlite, and the manifest of what was copied.
CopyDatabase ==
    /\ state = "copying" /\ left = {}
    /\ staging' = [staging EXCEPT ![Database] = data[Database]] /\ state' = "verifying"
    /\ UNCHANGED <<writes, data, mounted, exists, source, manifest, previous, left, old>>

Publish ==
    /\ state = "verifying"
    /\ source' = staging /\ manifest' = staging /\ staging' = Empty /\ state' = "idle"
    /\ UNCHANGED <<writes, data, mounted, exists, previous, left, old>>

\* A file disappears, a disk is full.
CreateFails ==
    /\ state \in {"copying", "verifying"} /\ state' = "idle" /\ staging' = Empty /\ left' = {}
    /\ UNCHANGED <<writes, data, mounted, exists, source, manifest, previous, old>>

\* The medium the backup is kept on.
Damage ==
    /\ state = "idle" /\ source # Empty
    /\ \E c \in Children : source' = [source EXCEPT ![c] = Absent]
    /\ UNCHANGED <<writes, data, mounted, exists, manifest, dirs, state, left, old>>

-------------------------------------------------------------------------------
(* restore_backup.                                                         *)

\* validate_backup, and the copy beside the data directory with the recovery copies the
\* directory has.
Restore ==
    /\ state = "idle" /\ source # Empty /\ source = manifest /\ Cardinality(Holds(previous)) = 0
    /\ staging' = [source EXCEPT ![Recovery] = IF exists THEN data[Recovery] ELSE Absent]
    /\ state' = "staged"
    /\ UNCHANGED <<writes, data, mounted, exists, source, manifest, previous, left, old>>

\* A writer holds the database, or the copy is not sound.
Refuse ==
    /\ state = "staged" /\ state' = "idle" /\ staging' = Empty
    /\ UNCHANGED <<writes, data, mounted, exists, source, manifest, previous, left, old>>

SetAside ==
    /\ state = "staged" /\ ~mounted /\ old' = data
    /\ IF exists THEN previous' = data /\ data' = Empty ELSE UNCHANGED <<previous, data>>
    /\ exists' = FALSE /\ state' = "aside"
    /\ UNCHANGED <<writes, mounted, source, manifest, staging, left>>

Activate ==
    /\ state = "aside" /\ data' = staging /\ staging' = Empty /\ exists' = TRUE
    /\ state' = "clean"
    /\ UNCHANGED <<writes, mounted, source, manifest, previous, left, old>>

PutBack ==
    /\ state = "aside" /\ data' = previous /\ previous' = Empty
    /\ exists' = (Holds(previous) # {}) /\ staging' = Empty /\ state' = "idle"
    /\ UNCHANGED <<writes, mounted, source, manifest, left, old>>

\* A mount point cannot be renamed: its children are, one after the other
\* (_restore_mount_contents).
StartMoving ==
    /\ state = "staged" /\ mounted /\ old' = data
    /\ state' = "moving-out" /\ left' = Holds(data)
    /\ UNCHANGED <<writes, data, mounted, exists, source, manifest, dirs>>

MoveOut ==
    /\ state = "moving-out" /\ left # {}
    /\ \E c \in left : /\ left' = left \ {c}
                       /\ previous' = [previous EXCEPT ![c] = data[c]]
                       /\ data' = [data EXCEPT ![c] = Absent]
    /\ UNCHANGED <<writes, mounted, exists, source, manifest, staging, state, old>>

MovedOut ==
    /\ state = "moving-out" /\ left = {} /\ state' = "moving-in" /\ left' = Holds(staging)
    /\ UNCHANGED <<writes, data, mounted, exists, source, manifest, dirs, old>>

MoveIn ==
    /\ state = "moving-in" /\ left # {}
    /\ \E c \in left : /\ left' = left \ {c}
                       /\ data' = [data EXCEPT ![c] = staging[c]]
                       /\ staging' = [staging EXCEPT ![c] = Absent]
    /\ UNCHANGED <<writes, mounted, exists, source, manifest, previous, state, old>>

MovedIn ==
    /\ state = "moving-in" /\ left = {} /\ state' = "clean"
    /\ UNCHANGED <<writes, data, mounted, exists, source, manifest, dirs, left, old>>

\* A rename fails: what was activated is removed, then what was set aside is moved back.
MoveFails ==
    /\ state \in {"moving-out", "moving-in"}
    /\ state' = IF state = "moving-in" THEN "removing" ELSE "moving-back"
    /\ left' = IF state = "moving-in" THEN {c \in Children : data[c] # Absent} ELSE Holds(previous)
    /\ UNCHANGED <<writes, data, mounted, exists, source, manifest, dirs, old>>

Remove ==
    /\ state = "removing"
    /\ IF left = {} THEN state' = "moving-back" /\ left' = Holds(previous) /\ UNCHANGED data
       ELSE \E c \in left : /\ left' = left \ {c} /\ UNCHANGED state
                            /\ data' = [data EXCEPT ![c] = Absent]
    /\ UNCHANGED <<writes, mounted, exists, source, manifest, dirs, old>>

MoveBack ==
    /\ state = "moving-back"
    /\ IF left = {} THEN state' = "idle" /\ staging' = Empty /\ UNCHANGED <<left, data, previous>>
       ELSE \E c \in left :
              /\ left' = left \ {c} /\ UNCHANGED <<state, staging>>
              /\ data' = [data EXCEPT ![c] = previous[c]]
              /\ previous' = [previous EXCEPT ![c] = Absent]
    /\ UNCHANGED <<writes, mounted, exists, source, manifest, old>>

\* Mutant: the previous directory is removed before the new one is in place.
CleanEarly ==
    /\ state \in {"clean", "aside", "moving-in"}
    /\ \E c \in Holds(previous) : previous' = [previous EXCEPT ![c] = Absent]
    /\ UNCHANGED <<writes, data, mounted, exists, source, manifest, staging, state, left, old>>

\* shutil.rmtree(previous), child by child.
Clean ==
    /\ state = "clean"
    /\ IF Holds(previous) = {} THEN state' = "idle" /\ UNCHANGED previous
       ELSE /\ \E c \in Holds(previous) : previous' = [previous EXCEPT ![c] = Absent]
            /\ UNCHANGED state
    /\ UNCHANGED <<writes, data, mounted, exists, source, manifest, staging, left, old>>

\* Killed: nothing is put back, and nothing looks for it later.
Kill ==
    /\ state \notin {"idle", "dead"} /\ state' = IF state \in {"copying", "verifying", "staged"}
                                                 THEN "idle" ELSE "dead"
    /\ UNCHANGED <<writes, data, mounted, exists, source, manifest, dirs, left, old>>

Next ==
    \/ Write \/ Create \/ CopyFile \/ CopyDatabase \/ Publish \/ CreateFails \/ Damage
    \/ Restore \/ Refuse \/ SetAside \/ Activate \/ PutBack
    \/ StartMoving \/ MoveOut \/ MovedOut \/ MoveIn \/ MovedIn \/ MoveFails \/ Remove \/ MoveBack
    \/ Clean \/ Kill

Spec == Init /\ [][Next]_vars

-------------------------------------------------------------------------------
TypeOK ==
    /\ \A d \in {data, source, manifest, staging, previous, old} : d \in [Children -> 0..writes]
    /\ exists \in BOOLEAN /\ mounted \in BOOLEAN /\ left \subseteq Children
    /\ state \in {"idle", "copying", "verifying", "staged", "aside", "moving-out", "moving-in",
                  "removing", "moving-back", "clean", "dead"}

\* Whatever fails or is killed during a restore, nothing of the data is gone unless all of
\* the restored data is in place: every child of the replaced directory is still in it or
\* set aside beside it.  A restore that ended has put the directory back or replaced it.
NothingLost ==
    LET restored == [manifest EXCEPT ![Recovery] = old[Recovery]] IN
    /\ state \in {"aside", "moving-out", "moving-in", "removing", "moving-back", "clean", "dead"} =>
          \/ \A c \in Children : old[c] \in {data[c], previous[c]}
          \/ data = restored
    /\ state = "idle" /\ old # Empty => exists
===============================================================================
