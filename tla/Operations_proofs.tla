------------------------- MODULE Operations_proofs ---------------------------
(***************************************************************************)
(* The system's upkeep, for every set of files, processes, cohorts,        *)
(* requests and callers: a restore that fails or is killed loses nothing,  *)
(* a change of the schema or of the assessments is made on a copy,         *)
(* requests are answered with what is new enough, and what is told of the  *)
(* present files of a source was true of them at one time.  One part a     *)
(* section, each proved from an inductive invariant of its own.            *)
(***************************************************************************)
EXTENDS MCOperations, Integers, Sequences, FiniteSetTheorems, WellFoundedInduction, TLAPS

-------------------------------------------------------------------------------
(* SystemBackups: for every stage of a restore, where each child of the    *)
(* replaced directory is.                                                  *)

Contents == [Children -> Nat]

Typed ==
    /\ writes \in Nat
    /\ data \in Contents /\ source \in Contents /\ manifest \in Contents
    /\ staging \in Contents /\ previous \in Contents /\ old \in Contents
    /\ exists \in BOOLEAN /\ mounted \in BOOLEAN /\ left \subseteq Children
    /\ state \in {"idle", "copying", "verifying", "staged", "aside", "moving-out", "moving-in",
                  "removing", "moving-back", "clean", "dead"}

\* What the directory is to hold: the backup with the recovery copies there were.
Restored == [manifest EXCEPT ![Recovery] = old[Recovery]]

\* There is a directory except while a restore has it aside, and one that is set
\* aside has left nothing behind.  A mount point is never renamed.
Present ==
    /\ mounted => exists
    /\ state \in {"moving-out", "moving-in", "removing", "moving-back"} => mounted
    /\ ~exists => data = Empty
    /\ state \notin {"aside", "dead"} /\ old # Empty => exists

\* A restore starts beside no earlier one, with the backup its manifest tells of.
Staged ==
    state = "staged" =>
        /\ previous = Empty
        /\ staging = [manifest EXCEPT ![Recovery] = IF exists THEN data[Recovery] ELSE Absent]

\* Renamed: the old directory is there under the other name.
Aside ==
    state = "aside" =>
        /\ ~exists /\ previous = old /\ data = Empty /\ staging = Restored

\* Moved child by child: what is left to move is in its place, the rest is aside.
MovingOut ==
    state = "moving-out" =>
        /\ staging = Restored
        /\ \A c \in Children : IF c \in left THEN data[c] = old[c] /\ previous[c] = Absent
                               ELSE data[c] = Absent /\ previous[c] = old[c]

\* All of it is aside; what is left to move in is in the staging directory.
MovingIn ==
    state = "moving-in" =>
        /\ previous = old
        /\ \A c \in Children : IF c \in left THEN data[c] = Absent /\ staging[c] = Restored[c]
                               ELSE data[c] = Restored[c]

Removing == state = "removing" => previous = old

\* A child still to be moved back is aside, the others are in their place.
MovingBack ==
    state = "moving-back" =>
        \A c \in Children : /\ old[c] \in {data[c], previous[c]}
                            /\ c \in left => previous[c] = old[c]

Replaced == state = "clean" => data = Restored

\* A restore that was killed left all of the old data or all of the new.
KilledSafe ==
    state = "dead" =>
        \/ \A c \in Children : old[c] \in {data[c], previous[c]}
        \/ data = Restored

IInv == /\ Typed /\ Present /\ Staged /\ Aside /\ MovingOut /\ MovingIn
        /\ Removing /\ MovingBack /\ Replaced /\ KilledSafe

-------------------------------------------------------------------------------

\* The directory of nothing.
LEMMA EmptyContents == Empty \in Contents /\ \A c \in Children : Empty[c] = Absent
BY DEF Empty, Contents, Absent

\* A directory in which nothing is held is the empty one.
LEMMA HoldsNothing ==
    ASSUME NEW d \in Contents, Cardinality(Holds(d)) = 0
    PROVE  d = Empty
<1>1. IsFiniteSet(Children)
  <2>1. IsFiniteSet((Files \cup {Database}) \cup {Recovery})
    BY FilesAssumption, FS_AddElement
  <2>2. Children = (Files \cup {Database}) \cup {Recovery}
    BY DEF Children
  <2> QED
    BY <2>1, <2>2
<1>2. IsFiniteSet(Holds(d))
  BY <1>1, FS_Subset DEF Holds
<1>3. Holds(d) = {}
  BY <1>2, FS_EmptySet
<1> QED
  BY <1>3 DEF Holds, Empty, Contents, Absent

\* The invariant gives the property: the stages say where the data is.
LEMMA StagesLoseNothing == IInv => NothingLost
<1> SUFFICES ASSUME IInv PROVE NothingLost
  OBVIOUS
<1> USE DEF IInv, Typed, Contents, Restored
<1>1. CASE state = "aside"
  BY <1>1 DEF Aside, NothingLost
<1>2. CASE state = "moving-out"
  BY <1>2 DEF MovingOut, NothingLost
<1>3. CASE state \in {"moving-in", "removing"}
  BY <1>3 DEF MovingIn, Removing, NothingLost
<1>4. CASE state = "moving-back"
  BY <1>4 DEF MovingBack, NothingLost
<1>5. CASE state = "clean"
  BY <1>5 DEF Replaced, NothingLost
<1>6. CASE state = "dead"
  BY <1>6 DEF KilledSafe, NothingLost
<1>7. CASE state = "idle"
  BY <1>7 DEF Present, NothingLost
<1> QED
  BY <1>1, <1>2, <1>3, <1>4, <1>5, <1>6, <1>7 DEF NothingLost

LEMMA InitIInv == Init => IInv
BY EmptyContents
   DEF Init, IInv, Typed, Contents, Present, Staged, Aside, MovingOut, MovingIn, Removing,
       MovingBack, Replaced, KilledSafe, Absent, Children

-------------------------------------------------------------------------------
(* Steps that are no part of a restore.                                    *)

\* Writing and backing up do not happen while a restore moves anything.
LEMMA BackupSteps ==
    ASSUME IInv,
           Write \/ Create \/ CopyFile \/ CopyDatabase \/ Publish \/ CreateFails \/ Damage
    PROVE  IInv'
<1> USE EmptyContents DEF Contents, Absent
<1>1. CASE Write
  <2>1. Typed'
    <3>1. PICK c \in Children : data' = [data EXCEPT ![c] = writes + 1]
      BY <1>1 DEF Write
    <3>2. writes' = writes + 1
      BY <1>1 DEF Write
    <3>3. data \in Contents /\ writes \in Nat
      BY DEF IInv, Typed
    <3>4. data' \in Contents /\ writes' \in Nat
      BY <3>1, <3>2, <3>3
    <3>5. UNCHANGED <<mounted, exists, source, manifest, staging, previous, state, left, old>>
      BY <1>1 DEF Write, dirs
    <3> QED
      BY <3>4, <3>5 DEF IInv, Typed
  <2>2. Present'
    BY <1>1 DEF IInv, Present, Write, Empty
  <2> QED
    BY <1>1, <2>1, <2>2
       DEF Write, IInv, Staged, Aside, MovingOut, MovingIn, Removing, MovingBack, Replaced,
           KilledSafe
<1>2. CASE Create \/ CopyFile \/ CopyDatabase \/ Publish \/ CreateFails \/ Damage
  <2>1. Typed'
    <3>1. CASE Create
      BY <3>1 DEF IInv, Typed, Create, Children
    <3>2. CASE CopyFile
      BY <3>2 DEF IInv, Typed, CopyFile
    <3>3. CASE CopyDatabase
      BY <3>3 DEF IInv, Typed, CopyDatabase, Children
    <3>4. CASE Publish
      BY <3>4 DEF IInv, Typed, Publish
    <3>5. CASE CreateFails
      BY <3>5 DEF IInv, Typed, CreateFails
    <3>6. CASE Damage
      BY <3>6 DEF IInv, Typed, Damage, dirs
    <3> QED
      BY <1>2, <3>1, <3>2, <3>3, <3>4, <3>5, <3>6
  <2>2. state' \in {"idle", "copying", "verifying"} /\ state \in {"idle", "copying", "verifying"}
    BY <1>2 DEF Create, CopyFile, CopyDatabase, Publish, CreateFails, Damage
  <2>3. /\ data' = data /\ exists' = exists /\ mounted' = mounted /\ old' = old
    BY <1>2 DEF Create, CopyFile, CopyDatabase, Publish, CreateFails, Damage, dirs
  <2>4. Present'
    BY <2>2, <2>3 DEF IInv, Present, Empty
  <2> QED
    BY <2>1, <2>2, <2>4
       DEF IInv, Staged, Aside, MovingOut, MovingIn, Removing, MovingBack, Replaced, KilledSafe
<1> QED
  BY <1>1, <1>2

-------------------------------------------------------------------------------
(* A restore by renaming.                                                  *)

LEMMA RenameSteps ==
    ASSUME IInv, Restore \/ Refuse \/ SetAside \/ Activate \/ PutBack
    PROVE  IInv'
<1> USE EmptyContents DEF Contents, Absent, IInv
<1>1. CASE Restore
  <2>1. previous = Empty
    BY <1>1, HoldsNothing DEF Restore, Typed
  <2>2. Typed'
    BY <1>1 DEF Restore, Typed, Children
  <2> QED
    BY <1>1, <2>1, <2>2
       DEF Restore, Present, Staged, Aside, MovingOut, MovingIn, Removing, MovingBack,
           Replaced, KilledSafe, Empty
<1>2. CASE Refuse
  BY <1>2 DEF Refuse, Typed, Present, Staged, Aside, MovingOut, MovingIn, Removing,
              MovingBack, Replaced, KilledSafe, Empty
<1>3. CASE SetAside
  <2>1. Typed'
    BY <1>3 DEF SetAside, Typed
  <2>2. Aside'
    <3>1. CASE exists
      BY <1>3, <3>1 DEF SetAside, Aside, Staged, Restored, Typed
    <3>2. CASE ~exists
      <4>1. data = Empty /\ data[Recovery] = Absent
        BY <3>2 DEF Present, Children
      <4> QED
        BY <1>3, <3>2, <4>1 DEF SetAside, Aside, Staged, Restored, Typed
    <3> QED
      BY <3>1, <3>2
  <2>3. Present'
    BY <1>3 DEF SetAside, Present
  <2> QED
    BY <1>3, <2>1, <2>2, <2>3
       DEF SetAside, Staged, MovingOut, MovingIn, Removing, MovingBack, Replaced, KilledSafe
<1>4. CASE Activate
  <2>1. Typed'
    BY <1>4 DEF Activate, Typed
  <2>2. Replaced' /\ Present'
    BY <1>4 DEF Activate, Aside, Replaced, Restored, Present
  <2> QED
    BY <1>4, <2>1, <2>2
       DEF Activate, Staged, Aside, MovingOut, MovingIn, Removing, MovingBack, KilledSafe
<1>5. CASE PutBack
  <2>1. Typed'
    BY <1>5 DEF PutBack, Typed
  <2>2. previous # Empty => Holds(previous) # {}
    BY DEF Holds, Empty, Typed
  <2>3. previous = Empty => Holds(previous) = {}
    BY DEF Holds
  <2>4. Present'
    <3>1. previous = old
      BY <1>5 DEF PutBack, Aside
    <3>2. ~exists' => old = Empty
      BY <1>5, <2>2, <3>1 DEF PutBack
    <3>3. data' = old /\ old' = old /\ Empty' = Empty
      BY <1>5, <3>1 DEF PutBack, Empty
    <3>4. ~mounted' /\ state' = "idle"
      BY <1>5 DEF PutBack, Present, Aside
    <3> QED
      BY <3>2, <3>3, <3>4 DEF Present
  <2> QED
    BY <1>5, <2>1, <2>4
       DEF PutBack, Staged, Aside, MovingOut, MovingIn, Removing, MovingBack, Replaced,
           KilledSafe
<1> QED
  BY <1>1, <1>2, <1>3, <1>4, <1>5

-------------------------------------------------------------------------------
(* A restore child by child.                                               *)

LEMMA MoveSteps ==
    ASSUME IInv, StartMoving \/ MoveOut \/ MovedOut \/ MoveIn \/ MovedIn
    PROVE  IInv'
<1> USE EmptyContents DEF Contents, Absent, IInv
<1>1. CASE StartMoving
  <2>1. Typed'
    BY <1>1 DEF StartMoving, Typed, dirs, Holds
  <2>2. exists
    BY <1>1 DEF StartMoving, Present
  <2>3. Present'
    BY <1>1, <2>2 DEF StartMoving, Present
  <2>4. MovingOut'
    <3>1. staging' = Restored'
      BY <1>1, <2>2 DEF StartMoving, Staged, dirs, Restored
    <3>2. \A c \in Children : IF c \in left' THEN data'[c] = old'[c] /\ previous'[c] = Absent
                              ELSE data'[c] = Absent /\ previous'[c] = old'[c]
      BY <1>1 DEF StartMoving, Staged, dirs, Holds
    <3> QED
      BY <3>1, <3>2 DEF MovingOut
  <2> QED
    BY <1>1, <2>1, <2>3, <2>4
       DEF StartMoving, Staged, Aside, MovingIn, Removing, MovingBack, Replaced, KilledSafe
<1>2. CASE MoveOut
  <2>1. Typed'
    BY <1>2 DEF MoveOut, Typed
  <2>2. Present'
    BY <1>2 DEF MoveOut, Present, Empty
  <2>3. MovingOut'
    BY <1>2 DEF MoveOut, MovingOut, Restored, Typed
  <2> QED
    BY <1>2, <2>1, <2>2, <2>3
       DEF MoveOut, Staged, Aside, MovingIn, Removing, MovingBack, Replaced, KilledSafe
<1>3. CASE MovedOut
  <2>1. Typed'
    BY <1>3 DEF MovedOut, Typed, dirs, Holds
  <2>2. Present'
    BY <1>3 DEF MovedOut, Present
  <2>3. MovingIn'
    <3>1. previous' = old'
      <4>1. \A c \in Children : previous[c] = old[c]
        BY <1>3 DEF MovedOut, MovingOut
      <4>2. previous = old
        <5> DEFINE Kids == Children
        <5>1. previous \in [Kids -> Nat] /\ old \in [Kids -> Nat]
          BY DEF Typed
        <5>2. \A c \in Kids : previous[c] = old[c]
          BY <4>1
        <5> HIDE DEF Kids
        <5> QED
          BY <5>1, <5>2
      <4> QED
        BY <1>3, <4>2 DEF MovedOut, dirs
    <3>2. \A c \in Children : IF c \in left'
                              THEN data'[c] = Absent /\ staging'[c] = Restored'[c]
                              ELSE data'[c] = Restored'[c]
      <4>1. staging = Restored /\ Restored' = Restored
        BY <1>3 DEF MovedOut, MovingOut, Restored
      <4>2. \A c \in Children : data[c] = Absent
        BY <1>3 DEF MovedOut, MovingOut
      <4> QED
        BY <1>3, <4>1, <4>2 DEF MovedOut, Holds, dirs
    <3> QED
      BY <3>1, <3>2 DEF MovingIn
  <2> QED
    BY <1>3, <2>1, <2>2, <2>3
       DEF MovedOut, Staged, Aside, MovingOut, Removing, MovingBack, Replaced, KilledSafe
<1>4. CASE MoveIn
  <2>1. Typed'
    BY <1>4 DEF MoveIn, Typed
  <2>2. Present'
    <3>1. exists
      BY <1>4 DEF MoveIn, Present, MovingIn, Typed
    <3> QED
      BY <1>4, <3>1 DEF MoveIn, Present
  <2>3. MovingIn'
    <3>1. Restored' = Restored
      BY <1>4 DEF MoveIn, Restored
    <3> QED
      BY <1>4, <3>1 DEF MoveIn, MovingIn, Typed
  <2> QED
    BY <1>4, <2>1, <2>2, <2>3
       DEF MoveIn, Staged, Aside, MovingOut, Removing, MovingBack, Replaced, KilledSafe
<1>5. CASE MovedIn
  <2>1. Typed'
    BY <1>5 DEF MovedIn, Typed, dirs
  <2>2. Present'
    BY <1>5 DEF MovedIn, Present
  <2>3. Replaced'
    <3>1. \A c \in Children : data[c] = Restored[c]
      BY <1>5 DEF MovedIn, MovingIn
    <3>2. data = Restored
      BY <3>1 DEF Restored, Typed
    <3> QED
      BY <1>5, <3>2 DEF MovedIn, Replaced, Restored
  <2> QED
    BY <1>5, <2>1, <2>2, <2>3
       DEF MovedIn, Staged, Aside, MovingOut, MovingIn, Removing, MovingBack, KilledSafe
<1> QED
  BY <1>1, <1>2, <1>3, <1>4, <1>5

-------------------------------------------------------------------------------
(* A restore that fails, ends or is killed.                                *)

LEMMA EndSteps ==
    ASSUME IInv, MoveFails \/ Remove \/ MoveBack \/ Clean \/ Kill
    PROVE  IInv'
<1> USE EmptyContents DEF Contents, Absent, IInv
<1>1. CASE MoveFails
  <2>1. Typed'
    BY <1>1 DEF MoveFails, Typed, dirs, Holds
  <2>2. Present'
    BY <1>1 DEF MoveFails, Present
  <2>3. Removing' /\ MovingBack'
    BY <1>1 DEF MoveFails, MovingOut, MovingIn, Removing, MovingBack, dirs, Holds, Typed
  <2> QED
    BY <1>1, <2>1, <2>2, <2>3
       DEF MoveFails, Staged, Aside, MovingOut, MovingIn, Replaced, KilledSafe
<1>2. CASE Remove
  <2>1. Typed'
    BY <1>2 DEF Remove, Typed, dirs, Holds
  <2>2. Present'
    BY <1>2 DEF Remove, Present, Empty
  <2>3. Removing' /\ MovingBack'
    BY <1>2 DEF Remove, Removing, MovingBack, dirs, Holds, Typed
  <2> QED
    BY <1>2, <2>1, <2>2, <2>3
       DEF Remove, Staged, Aside, MovingOut, MovingIn, Replaced, KilledSafe
<1>3. CASE MoveBack
  <2>1. Typed'
    BY <1>3 DEF MoveBack, Typed
  <2>2. Present'
    BY <1>3 DEF MoveBack, Present, Empty
  <2>3. MovingBack'
    BY <1>3 DEF MoveBack, MovingBack, Typed
  <2> QED
    BY <1>3, <2>1, <2>2, <2>3
       DEF MoveBack, Staged, Aside, MovingOut, MovingIn, Removing, Replaced, KilledSafe
<1>4. CASE Clean
  <2>1. Typed'
    BY <1>4 DEF Clean, Typed, Holds
  <2>2. Present' /\ Replaced'
    BY <1>4 DEF Clean, Present, Replaced, Restored, Empty
  <2> QED
    BY <1>4, <2>1, <2>2
       DEF Clean, Staged, Aside, MovingOut, MovingIn, Removing, MovingBack, KilledSafe
<1>5. CASE Kill
  <2>1. Typed'
    BY <1>5 DEF Kill, Typed, dirs
  <2>2. Present'
    BY <1>5 DEF Kill, Present, Empty
  <2>3. state' = "dead" =>
          \/ \A c \in Children : old[c] \in {data[c], previous[c]}
          \/ data = Restored
    BY <1>5, StagesLoseNothing DEF Kill, NothingLost, Restored, Typed
  <2>4. KilledSafe'
    <3>1. /\ data' = data /\ previous' = previous /\ old' = old /\ Restored' = Restored
          /\ Children' = Children
      BY <1>5 DEF Kill, Restored, dirs, Children
    <3> QED
      BY <2>3, <3>1 DEF KilledSafe
  <2> QED
    BY <1>5, <2>1, <2>2, <2>4
       DEF Kill, Staged, Aside, MovingOut, MovingIn, Removing, MovingBack, Replaced
<1> QED
  BY <1>1, <1>2, <1>3, <1>4, <1>5

-------------------------------------------------------------------------------

LEMMA IInvStays == IInv /\ UNCHANGED vars => IInv'
<1> SUFFICES ASSUME IInv, UNCHANGED vars PROVE IInv'
  OBVIOUS
<1> QED
  BY DEF vars, dirs, IInv, Typed, Present, Staged, Aside, MovingOut, MovingIn, Removing,
         MovingBack, Replaced, KilledSafe, Restored, Empty

\* Whatever the data directory holds, whenever a restore fails or is killed and
\* whatever is written and backed up around it: nothing of the data is gone
\* unless the restored data is in its place.
THEOREM RestoresLoseNothing == AllSpec => []NothingLost
<1>1. AllInit => IInv
  BY InitIInv DEF AllInit
<1>2. IInv /\ [AllNext]_allVars => IInv'
  BY IInvStays, BackupSteps, RenameSteps, MoveSteps, EndSteps DEF AllNext, Next, allVars
<1> QED
  BY <1>1, <1>2, StagesLoseNothing, PTL DEF AllSpec

-------------------------------------------------------------------------------
(* SchemaUpgrade.                                                          *)

Critical == {"locked", "copied", "linked", "described", "migrating"}
UpgradeStates == Critical \cup {"new", "ready", "planned", "refused", "killed"}
Copies == [version : Int, content : Int, linked : BOOLEAN, described : BOOLEAN]

\* Who is between the lock and its end holds it, and what it planned from is what there is.
\* Nobody writes meanwhile, so the copy it makes is of what there is; and before it migrates,
\* a described one is on disk.
UpgradeInv ==
    /\ version \in Int /\ content \in Int
    /\ upgradePc \in [Processes -> UpgradeStates] /\ planned \in [Processes -> Int]
    /\ copy \in Copies
    /\ \A p \in Processes : upgradePc[p] \in Critical <=> holder = p
    /\ \A p \in Processes : upgradePc[p] \in Critical => planned[p] = version
    /\ \A p \in Processes : upgradePc[p] \in Critical \cup {"planned"} => created
    /\ \A p \in Processes : upgradePc[p] \in {"copied", "linked", "described"} =>
         copy.version = version /\ copy.content = content
    /\ \A p \in Processes : upgradePc[p] = "described" => copy.described
    /\ \A p \in Processes : upgradePc[p] = "migrating" =>
         \E b \in backups : b.version = version /\ b.content = content /\ b.described

LEMMA UpgradeConstants == Supported \in Nat /\ Oldest \in Nat /\ U!Nobody \notin Processes
BY OperationsAssumptions DEF U!UpgradeAssumption

LEMMA UpgradeBegins == U!Init => UpgradeInv
<1> SUFFICES ASSUME U!Init PROVE UpgradeInv
  OBVIOUS
<1>1. copy \in Copies
  BY DEF U!Init, U!NoCopy, Copies
<1> QED
  BY <1>1, UpgradeConstants DEF U!Init, UpgradeInv, UpgradeStates, Critical

\* A step of a store with tables that changes the schema.
UpgradeIsBackedUp ==
    created /\ version' # version =>
        /\ version' = Supported
        /\ \E b \in backups : b.version = version /\ b.content = content /\ b.described

LEMMA UpgradeStep == UpgradeInv /\ U!Next => UpgradeInv' /\ UpgradeIsBackedUp
<1> SUFFICES ASSUME UpgradeInv, U!Next PROVE UpgradeInv' /\ UpgradeIsBackedUp
  OBVIOUS
<1> USE UpgradeConstants
<1>1. ASSUME NEW p \in Processes, U!Bootstrap(p)
      PROVE  UpgradeInv' /\ UpgradeIsBackedUp
  <2>1. \A q \in Processes : upgradePc[q] \notin Critical /\ upgradePc'[q] \notin Critical
    BY <1>1 DEF U!Bootstrap, U!Goto, UpgradeInv, Critical
  <2> QED
    BY <1>1, <2>1
       DEF U!Bootstrap, U!Goto, UpgradeInv, UpgradeIsBackedUp, UpgradeStates, Critical
<1>2. ASSUME NEW p \in Processes, U!Plan(p) \/ U!Lock(p) \/ U!Busy(p)
      PROVE  UpgradeInv' /\ UpgradeIsBackedUp
  <2>1. PICK s \in {"refused", "ready", "planned", "locked"} :
           upgradePc' = [upgradePc EXCEPT ![p] = s]
    BY <1>2 DEF U!Plan, U!Lock, U!Busy, U!Goto, UpgradeInv
  <2>2. /\ UNCHANGED <<version, content, created, copy, backups>>
        /\ upgradePc[p] \in {"new", "planned"} /\ created
        /\ s = "locked" => planned[p] = version /\ holder = U!Nobody
        /\ IF s = "locked" THEN holder' = p ELSE holder' = holder
        /\ IF upgradePc[p] = "new" THEN planned' = [planned EXCEPT ![p] = version]
           ELSE planned' = planned
    BY <1>2, <2>1 DEF U!Plan, U!Lock, U!Busy, U!Goto, U!database, UpgradeInv, UpgradeStates,
                      Critical
  <2>3. \A q \in Processes : upgradePc'[q] = IF q = p THEN s ELSE upgradePc[q]
    BY <2>1 DEF UpgradeInv
  <2>4. upgradePc[p] = "new" => s # "locked"
    BY <1>2, <2>1 DEF U!Plan, U!Lock, U!Busy, U!Goto, UpgradeInv
  <2> QED
    BY <2>1, <2>2, <2>3, <2>4 DEF UpgradeInv, UpgradeIsBackedUp, UpgradeStates, Critical
<1>3. ASSUME NEW p \in Processes, U!Copy(p)
      PROVE  UpgradeInv' /\ UpgradeIsBackedUp
  <2>1. copy' \in Copies /\ copy'.version = version /\ copy'.content = content
    BY <1>3 DEF U!Copy, UpgradeInv, U!NoCopy, Copies
  <2>2. /\ upgradePc[p] = "locked" /\ upgradePc' = [upgradePc EXCEPT ![p] = "copied"]
        /\ UNCHANGED <<version, content, created, planned, holder, backups>>
    BY <1>3 DEF U!Copy, U!Goto, U!database
  <2> QED
    BY <2>1, <2>2 DEF UpgradeInv, UpgradeIsBackedUp, UpgradeStates, Critical
<1>4. ASSUME NEW p \in Processes, U!Link(p) \/ U!Describe(p)
      PROVE  UpgradeInv' /\ UpgradeIsBackedUp
  <2>1. /\ copy' \in Copies /\ copy'.version = copy.version /\ copy'.content = copy.content
        /\ U!Describe(p) => copy'.described
    BY <1>4 DEF U!Link, U!Describe, UpgradeInv, Copies
  <2>2. /\ \/ upgradePc[p] = "copied" /\ upgradePc' = [upgradePc EXCEPT ![p] = "linked"]
           \/ /\ upgradePc[p] = "linked" /\ upgradePc' = [upgradePc EXCEPT ![p] = "described"]
              /\ copy'.described
        /\ UNCHANGED <<version, content, created, planned, holder, backups>>
    BY <1>4, <2>1 DEF U!Link, U!Describe, U!Goto, U!database
  <2> QED
    BY <2>1, <2>2 DEF UpgradeInv, UpgradeIsBackedUp, UpgradeStates, Critical
<1>5. ASSUME NEW p \in Processes, U!Verify(p) \/ U!Migrate(p)
      PROVE  UpgradeInv' /\ UpgradeIsBackedUp
  <2>1. U!NoCopy \in Copies
    BY DEF U!NoCopy, Copies
  <2> QED
    BY <1>5, <2>1 DEF U!Verify, U!Migrate, U!Goto, U!database, UpgradeInv, UpgradeIsBackedUp,
                UpgradeStates, Critical
<1>6. ASSUME NEW p \in Processes, U!Commit(p)
      PROVE  UpgradeInv' /\ UpgradeIsBackedUp
  BY <1>6 DEF U!Commit, U!Goto, UpgradeInv, UpgradeIsBackedUp, UpgradeStates, Critical
<1>7. ASSUME NEW p \in Processes, U!Fail(p) \/ U!Kill(p)
      PROVE  UpgradeInv' /\ UpgradeIsBackedUp
  <2>1. U!NoCopy \in Copies
    BY DEF U!NoCopy, Copies
  <2> QED
    BY <1>7, <2>1 DEF U!Fail, U!Kill, U!Goto, U!database, UpgradeInv, UpgradeIsBackedUp,
                UpgradeStates, Critical
<1>8. CASE U!Write
  BY <1>8 DEF U!Write, UpgradeInv, UpgradeIsBackedUp, UpgradeStates, Critical
<1> QED
  BY <1>1, <1>2, <1>3, <1>4, <1>5, <1>6, <1>7, <1>8 DEF U!Next

LEMMA UpgradeStays == UpgradeInv /\ UNCHANGED upgradeVars => UpgradeInv'
BY DEF UpgradeInv, upgradeVars, Critical

-------------------------------------------------------------------------------
(* HealthMigration.                                                        *)

Origins == {"native", "migration"}
Endpoints == M!Obs \X (0 .. MaxRevision) \X Origins
PairSet == Endpoints \X Endpoints

MigrationTypes ==
    /\ native \in [M!Obs -> 0 .. MaxRevision] /\ outdated \subseteq M!Present
    /\ broken \subseteq outdated
    /\ upgrades \subseteq M!Obs \X (1 .. MaxRevision)
    /\ preference \in [M!Obs -> Origins] /\ comparisons \subseteq PairSet
    /\ pc \in {"idle", "reserve", "cohorts", "done", "failed"} /\ todo \subseteq Cohorts
    /\ target \in {"new", "old"} /\ disturbed \in BOOLEAN

\* The store never holds more comparisons than it retains, and with those it found a
\* migration may store as many as there is room for.
WithinLimit ==
    /\ Cardinality(comparisons) <= Limit
    /\ pc = "cohorts" =>
         /\ found \subseteq PairSet /\ reserved \subseteq PairSet /\ mine \subseteq reserved
         /\ Cardinality(found) + Cardinality(reserved) <= Limit

\* What the backup holds is what the migration found, and what it added.
BackupHolds ==
    /\ pc = "reserve" => backup = M!NoBackup
    /\ pc # "cohorts" => mine = {}
    /\ pc = "cohorts" /\ backup # M!NoBackup =>
         backup.of = preview.basis /\ backup.pairs \subseteq found \cup mine

\* Without others the store is as the migration found it, but for the cohorts that are done.
Untouched == ~disturbed =>
    /\ pc # "failed"
    /\ pc \in {"reserve", "cohorts"} =>
         preview = M!Inventory /\ chosen \in [M!Obs -> Origins]
    /\ pc = "reserve" => chosen = preference
    /\ pc = "cohorts" =>
         /\ comparisons = found \cup mine
         /\ \A o \in M!Present : CohortOf[o] \in todo => chosen[o] = preference[o]
    /\ pc \in {"cohorts", "done"} =>
         \A o \in M!Present : CohortOf[o] \notin todo /\ ~M!Invalid(CohortOf[o])
           => M!Endpoint(o) = M!TargetOf(o)
    /\ pc = "done" => todo = {}

MigrationInv == MigrationTypes /\ M!Lineage /\ WithinLimit /\ BackupHolds /\ Untouched

LEMMA MigrationConstants ==
    /\ NumObs \in Nat /\ Limit \in Nat /\ MaxRevision \in Nat \ {0}
    /\ CohortOf \in [M!Obs -> Cohorts] /\ M!Obs = 1 .. NumObs
BY OperationsAssumptions DEF M!MigrationAssumption, M!Obs

\* Every set of numbers has a least one.
LEMMA LeastNumber == ASSUME NEW T \in SUBSET Nat, T # {} PROVE \E x \in T : \A y \in T : x <= y
<1> DEFINE Less == OpToRel(<, Nat)
<1>1. IsWellFoundedOn(Less, Nat)
  BY NatLessThanWellFounded
<1>2. \A x, y \in Nat : <<x, y>> \in Less <=> x < y
  BY DEF OpToRel
<1> HIDE DEF Less
<1>3. PICK x \in T : \A y \in T : ~ (<<y, x>> \in Less)
  BY <1>1, WFMin
<1>4. \A y \in T : ~(y < x)
  BY <1>2, <1>3
<1>5. \A y \in T : x \in Nat /\ y \in Nat
  OBVIOUS
<1> QED
  BY <1>4, <1>5

\* Hence observations have a latest one.
LEMMA LargestIsThere ==
    ASSUME NEW S \in SUBSET M!Obs, S # {}
    PROVE  M!Largest(S) \in S /\ \A y \in S : y <= M!Largest(S)
<1> USE MigrationConstants
<1> DEFINE T == {NumObs - x : x \in S}
<1>0. \A x \in S : x \in Nat /\ NumObs - x \in Nat
  OBVIOUS
<1>1. T \in SUBSET Nat /\ T # {}
  BY <1>0
<1>2. PICK t \in T : \A u \in T : t <= u
  BY <1>1, LeastNumber
<1>3. PICK x \in S : t = NumObs - x
  OBVIOUS
<1>4. \A y \in S : y <= x
  <2> SUFFICES ASSUME NEW y \in S PROVE y <= x
    OBVIOUS
  <2>1. NumObs - y \in T
    OBVIOUS
  <2>2. NumObs - x <= NumObs - y
    BY <1>2, <1>3, <2>1
  <2> QED
    BY <1>0, <2>2
<1> QED
  BY <1>3, <1>4 DEF M!Largest

LEMMA PairsAreFinite ==
    ASSUME NEW S \in SUBSET PairSet
    PROVE  IsFiniteSet(S) /\ Cardinality(S) \in Nat
<1> USE MigrationConstants
<1> DEFINE Flat == (M!Obs \X (0 .. MaxRevision)) \X Origins
           turn == [x \in Flat |-> <<x[1][1], x[1][2], x[2]>>]
<1>1. IsFiniteSet(M!Obs) /\ IsFiniteSet(0 .. MaxRevision)
  BY FS_Interval
<1>2. IsFiniteSet(Origins)
  <2>1. IsFiniteSet({"native"} \cup {"migration"})
    <3>1. IsFiniteSet({"native"})
      BY FS_Singleton
    <3> QED
      BY <3>1, FS_AddElement
  <2>2. Origins = {"native"} \cup {"migration"}
    BY DEF Origins
  <2> QED
    BY <2>1, <2>2
<1>3. IsFiniteSet(Flat)
  BY <1>1, <1>2, FS_Product
<1>4. turn \in Surjection(Flat, Endpoints)
  <2>1. turn \in [Flat -> Endpoints]
    BY DEF Endpoints
  <2>2. ASSUME NEW e \in Endpoints PROVE \E x \in Flat : turn[x] = e
    <3>1. PICK o \in M!Obs, n \in 0 .. MaxRevision, k \in Origins : e = <<o, n, k>>
      BY DEF Endpoints
    <3>2. <<<<o, n>>, k>> \in Flat /\ turn[<<<<o, n>>, k>>] = e
      BY <3>1
    <3> QED
      BY <3>2
  <2> QED
    BY <2>1, <2>2 DEF Surjection
<1>5. IsFiniteSet(Endpoints)
  BY <1>3, <1>4, FS_Surjection
<1>6. IsFiniteSet(PairSet)
  BY <1>5, FS_Product DEF PairSet
<1> QED
  BY <1>6, FS_Subset, FS_CardinalityType

\* Of any comparisons there are those of the latest observations, as many as one likes.
Latest(kept, S) == \A k \in kept, x \in S \ kept : k[2][1] >= x[2][1]

LEMMA LatestAreThere ==
    ASSUME NEW S \in SUBSET PairSet, NEW n \in 0 .. Cardinality(S)
    PROVE  \E kept \in SUBSET S : Cardinality(kept) = n /\ Latest(kept, S)
<1> USE MigrationConstants
<1> DEFINE Bad == {m \in 0 .. Cardinality(S) :
                     ~\E kept \in SUBSET S : Cardinality(kept) = m /\ Latest(kept, S)}
<1> SUFFICES ASSUME Bad # {} PROVE FALSE
  OBVIOUS
<1>1. IsFiniteSet(S) /\ Cardinality(S) \in Nat /\ \A p \in S : p[2][1] \in M!Obs
  BY PairsAreFinite DEF PairSet, Endpoints
<1>2. PICK m \in Bad : \A y \in Bad : m <= y
  <2>1. Bad \in SUBSET Nat
    BY <1>1
  <2> HIDE DEF Bad
  <2> QED
    BY <2>1, LeastNumber
<1>3. m # 0
  BY FS_EmptySet DEF Latest
<1>4. PICK kept \in SUBSET S : Cardinality(kept) = m - 1 /\ Latest(kept, S)
  <2>1. m - 1 \in 0 .. Cardinality(S) /\ m - 1 \notin Bad
    BY <1>1, <1>2, <1>3
  <2> QED
    BY <2>1
<1>5. IsFiniteSet(kept) /\ S \ kept # {}
  <2>1. kept # S
    BY <1>1, <1>4
  <2> QED
    BY <1>1, <2>1, FS_Subset
<1> DEFINE ranks == {p[2][1] : p \in S \ kept}
<1>6. ranks \in SUBSET M!Obs /\ ranks # {}
  BY <1>1, <1>5
<1>7. PICK p \in S \ kept : \A x \in S \ kept : p[2][1] >= x[2][1]
  <2>1. M!Largest(ranks) \in ranks /\ \A y \in ranks : y <= M!Largest(ranks)
    BY <1>6, LargestIsThere
  <2>2. PICK p \in S \ kept : p[2][1] = M!Largest(ranks)
    BY <2>1
  <2> QED
    BY <1>1, <2>1, <2>2
<1>8. Cardinality(kept \cup {p}) = m /\ kept \cup {p} \in SUBSET S
  <2>1. Cardinality(kept \cup {p}) = Cardinality(kept) + 1
    BY <1>5, <1>7, FS_AddElement
  <2> QED
    BY <1>1, <1>4, <1>7, <2>1
<1>9. Latest(kept \cup {p}, S)
  BY <1>4, <1>7 DEF Latest
<1> QED
  BY <1>8, <1>9

\* Cardinality is the one of module FiniteSets.
LEMMA SameCardinality == \A S : M!Cardinality(S) = Cardinality(S)
<1>1. \A S : M!IsFiniteSet(S) <=> IsFiniteSet(S)
  BY DEF M!IsFiniteSet, IsFiniteSet
<1> QED
  BY <1>1 DEF M!Cardinality, Cardinality

LEMMA Retained ==
    ASSUME NEW pairs \in SUBSET PairSet
    PROVE  M!Retain(pairs) \subseteq pairs /\ Cardinality(M!Retain(pairs)) <= Limit
<1> USE MigrationConstants, SameCardinality
<1>1. CASE Cardinality(pairs) <= Limit
  BY <1>1 DEF M!Retain
<1>2. CASE ~(Cardinality(pairs) <= Limit)
  <2>1. Limit \in 0 .. Cardinality(pairs)
    BY <1>2, PairsAreFinite
  <2>2. \E kept \in SUBSET pairs : /\ Cardinality(kept) = Limit
                                   /\ \A k \in kept, x \in pairs \ kept : k[2][1] >= x[2][1]
    BY <2>1, LatestAreThere DEF Latest
  <2> QED
    BY <1>2, <2>2 DEF M!Retain
<1> QED
  BY <1>1, <1>2

-------------------------------------------------------------------------------

LEMMA MigrationBegins == M!Init => MigrationInv
<1> SUFFICES ASSUME M!Init PROVE MigrationInv
  OBVIOUS
<1> USE MigrationConstants DEF M!Init
<1>1. MigrationTypes
  <2>1. native \in [M!Obs -> 0 .. MaxRevision]
    <3>1. {0, 1} \subseteq 0 .. MaxRevision
      OBVIOUS
    <3> QED
      BY <3>1
  <2>2. preference \in [M!Obs -> Origins]
    BY DEF Origins
  <2> QED
    BY <2>1, <2>2 DEF MigrationTypes
<1>2. M!Lineage /\ BackupHolds /\ Untouched
  BY DEF M!Lineage, BackupHolds, Untouched
<1>3. WithinLimit
  BY FS_EmptySet DEF WithinLimit
<1> QED
  BY <1>1, <1>2, <1>3 DEF MigrationInv

LEMMA EndpointType ==
    ASSUME MigrationTypes, NEW o \in M!Obs
    PROVE  M!Endpoint(o) \in Endpoints /\ M!TargetOf(o) \in Endpoints
BY DEF MigrationTypes, M!Endpoint, M!TargetOf, Endpoints, Origins

\* Who writes beside a migration disturbs it.
LEMMA ProcessStep ==
    ASSUME MigrationInv, NEW o \in M!Obs, M!Process(o)
    PROVE  MigrationInv'
<1> USE MigrationConstants DEF MigrationInv
<1>1. /\ native[o] < MaxRevision /\ native' = [native EXCEPT ![o] = native[o] + 1]
      /\ outdated' = outdated \ {o} /\ broken' = broken \ {o}
      /\ preference' = [preference EXCEPT ![o] = "native"]
      /\ disturbed' = (pc # "idle")
      /\ UNCHANGED <<upgrades, pc, todo, target, preview, chosen, found, reserved, mine, backup>>
  BY DEF M!Process, M!migration
<1> DEFINE earlier == {e \in M!Present : e < o /\ CohortOf[e] = CohortOf[o]}
<1>2. /\ comparisons' \subseteq PairSet
      /\ Cardinality(comparisons') <= Limit
  <2>1. CASE earlier = {}
    BY <2>1 DEF M!Process, MigrationTypes, WithinLimit
  <2>2. CASE earlier # {}
    <3>1. M!Largest(earlier) \in M!Obs
      BY <2>2, LargestIsThere DEF M!Present
    <3>2. <<o, native[o] + 1, "native">> \in Endpoints
      BY <1>1 DEF MigrationTypes, Endpoints, Origins
    <3> DEFINE pairs == comparisons \cup
                          {<<M!Endpoint(M!Largest(earlier)), <<o, native[o] + 1, "native">>>>}
    <3>3. pairs \in SUBSET PairSet
      <4>1. M!Endpoint(M!Largest(earlier)) \in Endpoints
        BY <3>1, EndpointType
      <4>2. comparisons \subseteq PairSet
        BY DEF MigrationTypes
      <4> HIDE DEF earlier
      <4> QED
        BY <3>2, <4>1, <4>2 DEF PairSet
    <3>4. comparisons' = M!Retain(pairs)
      BY <2>2 DEF M!Process
    <3> HIDE DEF pairs
    <3> QED
      BY <3>3, <3>4, Retained
  <2> QED
    BY <2>1, <2>2
<1>3. MigrationTypes'
  <2>1. /\ native' \in [M!Obs -> 0 .. MaxRevision] /\ native'[o] > 0
        /\ \A e \in M!Obs : e # o => native'[e] = native[e]
    BY <1>1 DEF MigrationTypes
  <2>2. preference' \in [M!Obs -> Origins]
    BY <1>1 DEF MigrationTypes, Origins
  <2>3. disturbed' \in BOOLEAN
    BY <1>1
  <2>4. outdated' \subseteq M!Present' /\ broken' \subseteq outdated'
    BY <1>1, <2>1 DEF MigrationTypes, M!Present
  <2> QED
    BY <1>1, <1>2, <2>1, <2>2, <2>3, <2>4 DEF MigrationTypes
<1>4. M!Lineage'
  BY <1>1 DEF M!Lineage, MigrationTypes
<1>5. WithinLimit' /\ BackupHolds'
  BY <1>1, <1>2 DEF WithinLimit, BackupHolds
<1>6. Untouched'
  BY <1>1 DEF Untouched
<1> QED
  BY <1>3, <1>4, <1>5, <1>6

LEMMA PruneStep ==
    ASSUME MigrationInv, NEW o \in M!Obs, M!Prune(o)
    PROVE  MigrationInv'
<1> USE MigrationConstants DEF MigrationInv
<1>1. /\ native' = [native EXCEPT ![o] = 0]
      /\ outdated' = outdated \ {o} /\ broken' = broken \ {o}
      /\ preference' = [preference EXCEPT ![o] = "native"]
      /\ upgrades' = {u \in upgrades : u[1] # o} /\ comparisons' \subseteq comparisons
      /\ disturbed' = (pc # "idle")
      /\ UNCHANGED <<pc, todo, target, preview, chosen, found, reserved, mine, backup>>
  BY DEF M!Prune, M!migration
<1>2. Cardinality(comparisons') <= Limit
  <2>1. IsFiniteSet(comparisons) /\ Cardinality(comparisons) \in Nat
    BY PairsAreFinite DEF MigrationTypes
  <2>2. Cardinality(comparisons') <= Cardinality(comparisons) /\ Cardinality(comparisons') \in Nat
    BY <1>1, <2>1, FS_Subset, FS_CardinalityType
  <2> QED
    BY <2>1, <2>2 DEF WithinLimit
<1>3. MigrationTypes'
  <2>1. /\ native' \in [M!Obs -> 0 .. MaxRevision] /\ preference' \in [M!Obs -> Origins]
        /\ \A e \in M!Obs : e # o => native'[e] = native[e]
    BY <1>1 DEF MigrationTypes, Origins
  <2>2. disturbed' \in BOOLEAN
    BY <1>1
  <2>3. outdated' \subseteq M!Present' /\ broken' \subseteq outdated'
    BY <1>1, <2>1 DEF MigrationTypes, M!Present
  <2> QED
    BY <1>1, <2>1, <2>2, <2>3 DEF MigrationTypes
<1>4. M!Lineage'
  BY <1>1 DEF M!Lineage, MigrationTypes
<1>5. WithinLimit' /\ BackupHolds'
  BY <1>1, <1>2 DEF WithinLimit, BackupHolds
<1>6. Untouched'
  BY <1>1 DEF Untouched
<1> QED
  BY <1>3, <1>4, <1>5, <1>6

LEMMA PreviewStep == MigrationInv /\ M!Preview => MigrationInv'
<1> SUFFICES ASSUME MigrationInv, M!Preview PROVE MigrationInv'
  OBVIOUS
<1> USE DEF MigrationInv
<1>1. /\ pc \in {"idle", "done", "failed"} /\ pc' = "reserve" /\ target' \in {"new", "old"}
      /\ preview' = M!Inventory /\ chosen' = preference /\ backup' = M!NoBackup
      /\ disturbed' = FALSE
      /\ UNCHANGED <<native, outdated, broken, upgrades, preference, comparisons, todo, found,
                     reserved, mine>>
  BY DEF M!Preview, M!store
<1>2. MigrationTypes' /\ M!Lineage' /\ WithinLimit' /\ BackupHolds'
  BY <1>1 DEF MigrationTypes, M!Present, M!Lineage, WithinLimit, BackupHolds
<1>3. Untouched'
  BY <1>1 DEF Untouched, M!Inventory, MigrationTypes
<1> QED
  BY <1>2, <1>3

\* The command ends without more writes.
LEMMA EndsStep ==
    ASSUME MigrationInv, pc' \in {"done", "failed"}, M!Forget, disturbed' \in BOOLEAN,
           UNCHANGED <<native, outdated, broken, upgrades, preference, comparisons, target>>,
           ~disturbed' => ~disturbed /\ pc = "cohorts" /\ todo = {} /\ pc' = "done"
    PROVE  MigrationInv'
<1> USE DEF MigrationInv
<1>1. MigrationTypes' /\ M!Lineage' /\ WithinLimit' /\ BackupHolds'
  BY DEF M!Forget, MigrationTypes, M!Present, M!Lineage, WithinLimit, BackupHolds
<1>2. Untouched'
  BY DEF M!Forget, Untouched, M!Present, M!Invalid, M!Cohort, M!Endpoint, M!TargetOf,
         M!Outdated
<1> QED
  BY <1>1, <1>2

\* The pairs of a cohort are comparisons.
LEMMA PairsType == ASSUME MigrationTypes, NEW c PROVE M!Pairs(c) \subseteq PairSet
<1> USE MigrationConstants
<1> SUFFICES ASSUME NEW o \in M!Cohort(c), \E e \in M!Cohort(c) : e < o
             PROVE  <<M!TargetOf(M!Largest({e \in M!Cohort(c) : e < o})), M!TargetOf(o)>>
                      \in PairSet
  BY DEF M!Pairs
<1> DEFINE earlier == {e \in M!Cohort(c) : e < o}
<1>1. earlier \in SUBSET M!Obs /\ earlier # {} /\ o \in M!Obs
  BY DEF M!Cohort, M!Present
<1>2. M!Largest(earlier) \in M!Obs
  BY <1>1, LargestIsThere
<1>3. M!TargetOf(M!Largest(earlier)) \in Endpoints /\ M!TargetOf(o) \in Endpoints
  BY <1>1, <1>2, EndpointType
<1> QED
  BY <1>3 DEF PairSet

\* What is reserved has room beside what is there.
LEMMA ReservationsFit ==
    ASSUME MigrationTypes, Cardinality(comparisons) <= Limit
    PROVE  /\ M!Reservations \subseteq PairSet
           /\ Cardinality(comparisons) + Cardinality(M!Reservations) <= Limit
<1> USE MigrationConstants, SameCardinality
<1> DEFINE new == UNION {M!Pairs(c) :
                           c \in {d \in Cohorts : M!Actionable(d) # {} /\ ~M!Invalid(d)}}
                    \ comparisons
           slots == IF Cardinality(comparisons) >= Limit THEN 0
                    ELSE Limit - Cardinality(comparisons)
           n == IF Cardinality(new) < slots THEN Cardinality(new) ELSE slots
<1>1. new \in SUBSET PairSet
  BY PairsType
<1>2. Cardinality(new) \in Nat /\ Cardinality(comparisons) \in Nat
  BY <1>1, PairsAreFinite DEF MigrationTypes
<1>3. M!Reservations = CHOOSE kept \in SUBSET new :
          Cardinality(kept) = n /\ \A k \in kept, x \in new \ kept : k[2][1] >= x[2][1]
  BY DEF M!Reservations
<1> HIDE DEF new
<1>4. n \in 0 .. Cardinality(new) /\ Cardinality(comparisons) + n <= Limit
  BY <1>2
<1> HIDE DEF n
<1>5. \E kept \in SUBSET new :
          Cardinality(kept) = n /\ \A k \in kept, x \in new \ kept : k[2][1] >= x[2][1]
  BY <1>1, <1>4, LatestAreThere DEF Latest
<1>6. M!Reservations \in SUBSET new /\ Cardinality(M!Reservations) = n
  BY <1>3, <1>5
<1> QED
  BY <1>1, <1>4, <1>6

LEMMA ReserveStep == MigrationInv /\ M!Reserve => MigrationInv'
<1> SUFFICES ASSUME MigrationInv, M!Reserve PROVE MigrationInv'
  OBVIOUS
<1> USE DEF MigrationInv
<1>1. CASE \A o \in M!Obs : preview.basis[o] > 0 => native[o] > 0
  <2>1. /\ pc = "reserve" /\ pc' = "cohorts" /\ todo' = Cohorts /\ reserved' = M!Reservations
        /\ found' = comparisons
        /\ UNCHANGED <<native, outdated, broken, upgrades, preference, comparisons, target,
                       disturbed, preview, chosen, mine, backup>>
    BY <1>1 DEF M!Reserve, M!store
  <2>2. MigrationTypes' /\ M!Lineage'
    BY <2>1 DEF MigrationTypes, M!Present, M!Lineage
  <2>3. WithinLimit' /\ BackupHolds'
    <3>1. /\ M!Reservations \subseteq PairSet
          /\ Cardinality(comparisons) + Cardinality(M!Reservations) <= Limit
      BY ReservationsFit DEF WithinLimit
    <3>2. mine = {} /\ comparisons \subseteq PairSet
      BY <2>1 DEF BackupHolds, MigrationTypes
    <3> QED
      BY <2>1, <3>1, <3>2 DEF WithinLimit, BackupHolds
  <2>4. Untouched'
    <3>1. \A o \in M!Present' : CohortOf[o] \in todo'
      BY <2>1, MigrationConstants DEF M!Present
    <3>2. M!Inventory' = M!Inventory
      BY <2>1 DEF M!Inventory
    <3> QED
      BY <2>1, <3>1, <3>2 DEF Untouched, BackupHolds
  <2> QED
    BY <2>2, <2>3, <2>4
<1>2. CASE ~\A o \in M!Obs : preview.basis[o] > 0 => native[o] > 0
  <2>1. /\ pc = "reserve" /\ pc' = "failed" /\ M!Forget
        /\ UNCHANGED <<native, outdated, broken, upgrades, preference, comparisons, target,
                       disturbed>>
    BY <1>2 DEF M!Reserve, M!store
  <2>2. disturbed
    BY <1>2, <2>1 DEF Untouched, M!Inventory
  <2> QED
    BY <2>1, <2>2, EndsStep DEF MigrationTypes
<1> QED
  BY <1>1, <1>2

\* What the preview says of an observation is so, as long as nobody writes.
LEMMA PreviewIsRight ==
    ASSUME MigrationInv, ~disturbed, pc = "cohorts", NEW c \in todo
    PROVE  /\ M!Unchanged
           /\ M!Idle(c) /\ ~M!Invalid(c) =>
                \A o \in M!Cohort(c) : M!Endpoint(o) = M!TargetOf(o)
<1> USE MigrationConstants DEF MigrationInv
<1>1. /\ preview = M!Inventory /\ comparisons = found \cup mine
      /\ \A o \in M!Present : CohortOf[o] \in todo => chosen[o] = preference[o]
  BY DEF Untouched
<1>2. preview.basis = native /\ preview.old = outdated /\ preview.bad = broken
  BY <1>1 DEF M!Inventory
<1>3. SUFFICES ASSUME M!Idle(c), ~M!Invalid(c), NEW o \in M!Cohort(c)
               PROVE  M!Endpoint(o) = M!TargetOf(o)
  BY <1>1 DEF M!Unchanged
<1>4. o \in M!Obs /\ o \in M!Present /\ CohortOf[o] = c /\ native[o] > 0
  BY DEF M!Cohort, M!Present
<1>5. ~\E e \in preview.bad : CohortOf[e] = c
  BY <1>2, <1>3 DEF M!Invalid, M!Cohort, MigrationTypes
<1>6. chosen[o] = IF M!Stale(o) THEN "migration" ELSE "native"
  BY <1>2, <1>3, <1>4, <1>5 DEF M!Idle
<1>7. M!Stale(o) <=> o \in M!Outdated
  BY <1>2, <1>4 DEF M!Stale, M!Outdated, MigrationTypes
<1>8. preference[o] = IF o \in M!Outdated THEN "migration" ELSE "native"
  BY <1>1, <1>4, <1>6, <1>7
<1> QED
  BY <1>8 DEF M!Endpoint, M!TargetOf

LEMMA SkipStep == ASSUME MigrationInv, NEW c \in Cohorts, M!Skip(c) PROVE MigrationInv'
<1> USE DEF MigrationInv
<1>1. /\ pc = "cohorts" /\ c \in todo /\ M!Idle(c) /\ todo' = todo \ {c}
      /\ UNCHANGED <<native, outdated, broken, upgrades, preference, comparisons, pc, target,
                     preview, chosen, found, reserved, mine, backup, disturbed>>
  BY DEF M!Skip, M!store
<1>2. MigrationTypes' /\ M!Lineage' /\ WithinLimit' /\ BackupHolds'
  BY <1>1 DEF MigrationTypes, M!Present, M!Lineage, WithinLimit, BackupHolds
<1>3. /\ M!Present' = M!Present /\ M!Inventory' = M!Inventory
      /\ \A o \in M!Obs : M!Endpoint(o)' = M!Endpoint(o) /\ M!TargetOf(o)' = M!TargetOf(o)
      /\ \A d : M!Invalid(d)' = M!Invalid(d)
  BY <1>1 DEF M!Present, M!Inventory, M!Endpoint, M!TargetOf, M!Outdated, M!Invalid, M!Cohort
<1>4. ASSUME ~disturbed, NEW o \in M!Present, CohortOf[o] = c, ~M!Invalid(c)
      PROVE  M!Endpoint(o) = M!TargetOf(o)
  BY <1>1, <1>4, PreviewIsRight DEF M!Cohort
<1>5. Untouched'
  BY <1>1, <1>3, <1>4 DEF Untouched, M!Present
<1> QED
  BY <1>2, <1>5

\* A commit is backed up, adds what was reserved and takes nothing away.
CommitIsBackedUp ==
    /\ backup'.of = native /\ backup'.pairs \subseteq comparisons'
    /\ comparisons \subseteq comparisons' /\ comparisons' \ comparisons \subseteq reserved
    /\ M!Cardinality(comparisons') <= Limit

LEMMA CommitStep ==
    ASSUME MigrationInv, NEW c \in Cohorts, M!Commit(c)
    PROVE  MigrationInv' /\ CommitIsBackedUp
<1> USE MigrationConstants DEF MigrationInv
<1>1. /\ pc = "cohorts" /\ c \in todo /\ todo' = todo \ {c} /\ backup' = M!Backup
      /\ comparisons = found \cup mine /\ M!Inventory = preview
      /\ upgrades' = upgrades \cup {<<o, native[o]>> : o \in M!Cohort(c) \cap M!Outdated}
      /\ UNCHANGED <<native, outdated, broken, pc, target, preview, chosen, found, reserved,
                     disturbed>>
  BY DEF M!Commit, M!Unchanged, M!Edges
<1>2. preference' = [o \in M!Obs |-> IF o \in M!Cohort(c)
                       THEN IF o \in M!Outdated THEN "migration" ELSE "native"
                       ELSE preference[o]]
  BY DEF M!Commit, M!TargetOf
<1>3. PICK new \in SUBSET reserved :
        comparisons' = comparisons \cup new /\ mine' = mine \cup new
  BY DEF M!Commit
<1>4. preview.basis = native
  BY <1>1 DEF M!Inventory
<1>5. \A o \in M!Cohort(c) : o \in M!Obs /\ native[o] > 0 /\ native[o] \in 1 .. MaxRevision
  BY DEF M!Cohort, M!Present, MigrationTypes
<1>6. MigrationTypes'
  <2>1. upgrades' \subseteq M!Obs \X (1 .. MaxRevision)
    BY <1>1, <1>5 DEF MigrationTypes
  <2>2. preference' \in [M!Obs -> Origins]
    BY <1>2 DEF MigrationTypes, Origins
  <2>3. comparisons' \subseteq PairSet
    BY <1>1, <1>3 DEF MigrationTypes, WithinLimit
  <2> QED
    BY <1>1, <2>1, <2>2, <2>3 DEF MigrationTypes, M!Present
<1>7. M!Lineage'
  BY <1>1, <1>2 DEF M!Lineage
<1>8. Cardinality(comparisons') <= Limit
  <2>1. IsFiniteSet(found) /\ IsFiniteSet(reserved)
    BY <1>1, PairsAreFinite DEF WithinLimit
  <2>2. /\ IsFiniteSet(found \cup reserved)
        /\ Cardinality(found \cup reserved) =
             Cardinality(found) + Cardinality(reserved) - Cardinality(found \cap reserved)
    BY <2>1, FS_Union
  <2>3. Cardinality(found \cap reserved) \in Nat /\ Cardinality(found) \in Nat
        /\ Cardinality(reserved) \in Nat
    BY <2>1, FS_Intersection, FS_CardinalityType
  <2>4. comparisons' \in SUBSET (found \cup reserved)
    BY <1>1, <1>3 DEF WithinLimit
  <2>5. Cardinality(comparisons') <= Cardinality(found \cup reserved)
        /\ Cardinality(comparisons') \in Nat
    BY <2>2, <2>4, FS_Subset, FS_CardinalityType
  <2> QED
    BY <1>1, <2>2, <2>3, <2>5 DEF WithinLimit
<1>9. WithinLimit'
  BY <1>1, <1>3, <1>8 DEF WithinLimit
<1>10. backup'.of = native /\ backup'.pairs \subseteq comparisons
  BY <1>1, <1>4 DEF BackupHolds, M!Backup
<1>11. BackupHolds'
  BY <1>1, <1>3, <1>4, <1>10 DEF BackupHolds
<1>12. Untouched'
  <2>1. /\ M!Present' = M!Present /\ M!Inventory' = M!Inventory
        /\ \A o \in M!Obs : M!TargetOf(o)' = M!TargetOf(o)
        /\ \A d : M!Invalid(d)' = M!Invalid(d)
    BY <1>1 DEF M!Present, M!Inventory, M!TargetOf, M!Outdated, M!Invalid, M!Cohort
  <2>2. \A o \in M!Present : CohortOf[o] = c => M!Endpoint(o)' = M!TargetOf(o)
    BY <1>1, <1>2 DEF M!Endpoint, M!TargetOf, M!Cohort, M!Present
  <2>3. \A o \in M!Present : CohortOf[o] # c =>
           preference'[o] = preference[o] /\ M!Endpoint(o)' = M!Endpoint(o)
    BY <1>1, <1>2 DEF M!Endpoint, M!Cohort, M!Present
  <2> QED
    BY <1>1, <1>3, <2>1, <2>2, <2>3 DEF Untouched, M!Present
<1>13. CommitIsBackedUp
  BY <1>3, <1>8, <1>10, SameCardinality DEF CommitIsBackedUp
<1> QED
  BY <1>6, <1>7, <1>9, <1>11, <1>12, <1>13

LEMMA MigrationStep == MigrationInv /\ M!Next => MigrationInv'
<1> SUFFICES ASSUME MigrationInv, M!Next PROVE MigrationInv'
  OBVIOUS
<1>1. ASSUME NEW c \in Cohorts, M!Abort(c) PROVE MigrationInv'
  <2>1. disturbed
    BY <1>1, PreviewIsRight DEF M!Abort
  <2> QED
    BY <1>1, <2>1, EndsStep DEF M!Abort, M!Stop, M!store, MigrationInv, MigrationTypes
<1>2. ASSUME NEW c \in Cohorts, M!DiskFails(c) PROVE MigrationInv'
  BY <1>2, EndsStep DEF M!DiskFails, M!Stop, M!store
<1>3. CASE M!Finish
  BY <1>3, EndsStep DEF M!Finish, M!store, MigrationInv, MigrationTypes
<1> QED
  BY <1>1, <1>2, <1>3, ProcessStep, PruneStep, PreviewStep, ReserveStep, SkipStep, CommitStep
     DEF M!Next

LEMMA MigrationStays == MigrationInv /\ UNCHANGED migrationVars => MigrationInv'
BY DEF MigrationInv, migrationVars, MigrationTypes, M!Present, M!Lineage, WithinLimit,
       BackupHolds, Untouched, M!Inventory, M!Invalid, M!Cohort, M!Endpoint, M!TargetOf,
       M!Outdated

\* Nothing newer hides behind an assessment that a migration put in front of the native one,
\* and a migration that nobody disturbs completes and prefers its target everywhere: no
\* cohort's commit makes another cohort's preview wrong.
THEOREM MigrationsAreSound == AllSpec => []MigrationSound
<1>1. AllInit => MigrationInv
  BY MigrationBegins DEF AllInit
<1>2. MigrationInv /\ [AllNext]_allVars => MigrationInv'
  BY MigrationStep, MigrationStays DEF AllNext, allVars
<1>3. MigrationInv => MigrationSound
  BY DEF MigrationInv, MigrationTypes, Untouched, MigrationSound, M!TypeOK, M!Lineage,
         M!UndisturbedSucceeds, Origins, M!Present
<1> QED
  BY <1>1, <1>2, <1>3, PTL DEF AllSpec

-------------------------------------------------------------------------------
(* Both changes of a store that are made on a copy of it.                  *)

\* A schema that is changed under data was copied with that very data, and what a cohort's
\* migration commits was announced in a backup, takes nothing away and keeps to the limit.
THEOREM ChangesAreBackedUp == AllSpec => ChangesHaveBackup
<1>1. AllInit => UpgradeInv /\ MigrationInv
  BY UpgradeBegins, MigrationBegins DEF AllInit
<1>2. UpgradeInv /\ [AllNext]_allVars => UpgradeInv' /\ [UpgradeIsBackedUp]_U!vars
  <2> SUFFICES ASSUME UpgradeInv, [AllNext]_allVars
               PROVE  UpgradeInv' /\ [UpgradeIsBackedUp]_U!vars
    OBVIOUS
  <2>1. U!Next \/ UNCHANGED upgradeVars
    BY DEF AllNext, allVars
  <2> QED
    BY <2>1, UpgradeStep, UpgradeStays DEF upgradeVars, U!vars
<1>3. MigrationInv /\ [AllNext]_allVars =>
        MigrationInv' /\ [\A c \in Cohorts : M!Commit(c) => CommitIsBackedUp]_M!vars
  BY MigrationStep, MigrationStays, CommitStep DEF AllNext, allVars
<1>4. AllSpec => [][UpgradeIsBackedUp]_U!vars
  BY <1>1, <1>2, PTL DEF AllSpec
<1>5. AllSpec => [][\A c \in Cohorts : M!Commit(c) => CommitIsBackedUp]_M!vars
  BY <1>1, <1>3, PTL DEF AllSpec
<1> QED
  BY <1>4, <1>5
     DEF ChangesHaveBackup, U!UpgradeHasBackup, M!CommitsAreBackedUp, UpgradeIsBackedUp,
         CommitIsBackedUp

-------------------------------------------------------------------------------
(* WebRequests.                                                            *)

Live == {"alive", "terminated", "killed"}
Handlers == {"none", "waiting", "running", "joining", "answered", "failed"}
Wanted == [file : Files, noCache : BOOLEAN, age : Ages \cup {None}, asked : Nat]

RequestTypes ==
    /\ clock \in 0 .. MaxTime /\ written \in [Files -> Nat \cup {None}]
    /\ \A f \in Files : written[f] # None => written[f] <= clock
    /\ at \in [Requests -> Handlers]
    /\ process \in [Requests -> Live \cup {"none", "done", "failed"}]
    /\ wants \in [Requests -> Wanted \cup {None}]
    /\ \A r \in Requests : at[r] # "none" => wants[r] \in Wanted /\ wants[r].asked <= clock
    /\ joined \in [Requests -> Requests \cup {None}]
    /\ answer \in [Requests -> Nat \cup {None}] /\ answered \in [Requests -> Nat \cup {None}]
    /\ lockHolder \in Requests \cup {Job, None} /\ queue \in Seq(Requests)
    /\ active \in [Files -> Requests \cup {None}]
    /\ server \in {"up", "stopping", "draining", "cancelling", "exited"}

\* Who runs a task holds the lock, until the task is over; who waits is in the queue.
LockGuards ==
    /\ \A r \in Requests : at[r] = "running" <=> lockHolder = r
    /\ \A r \in Requests : process[r] \in Live => at[r] = "running"
    /\ \A r \in Requests : at[r] \in {"none", "waiting"} => process[r] = "none"
    /\ \A r \in Requests : at[r] \in {"none", "waiting", "running"} => joined[r] = None
    /\ \A r \in Requests : at[r] = "joining" => joined[r] # None
    /\ \A r \in Requests : at[r] = "waiting" => \E i \in 1 .. Len(queue) : queue[i] = r
    /\ server = "exited" => \A r \in Requests : at[r] \notin {"waiting", "running", "joining"}

\* A task is for the file its request wants, and so is the task a request joins; once it has
\* succeeded the file is there, written since its request.
TasksWrite ==
    /\ \A f \in Files : active[f] # None => at[active[f]] # "none" /\ wants[active[f]].file = f
    /\ \A r \in Requests : joined[r] # None =>
         at[r] # "none" /\ at[joined[r]] # "none" /\ wants[joined[r]].file = wants[r].file
    /\ \A r \in Requests : process[r] = "done" =>
         /\ at[r] # "none" /\ written[wants[r].file] # None
         /\ written[wants[r].file] >= wants[r].asked

RequestsInv == RequestTypes /\ LockGuards /\ TasksWrite /\ W!AnswersAreFresh

LEMMA RequestConstants ==
    /\ CatalogAge \in Nat /\ Ages \subseteq Nat /\ MaxTime \in Nat
    /\ Job \notin Requests /\ None \notin Requests \cup Nat \cup {Job}
BY OperationsAssumptions DEF W!RequestsAssumption

LEMMA RequestsBegin == W!Init => RequestsInv
<1> SUFFICES ASSUME W!Init PROVE RequestsInv
  OBVIOUS
<1> USE RequestConstants DEF W!Init
<1>1. RequestTypes
  BY DEF RequestTypes, Handlers
<1>2. LockGuards
  BY DEF LockGuards, Live
<1>3. TasksWrite /\ W!AnswersAreFresh
  BY DEF TasksWrite, W!AnswersAreFresh
<1> QED
  BY <1>1, <1>2, <1>3 DEF RequestsInv

\* What is said of the other requests' answers stays true.
LEMMA OthersAnswers ==
    ASSUME RequestTypes, W!AnswersAreFresh, NEW r \in Requests,
           \A q \in Requests : q # r /\ at'[q] = "answered" =>
             /\ at[q] = "answered" /\ answer'[q] = answer[q] /\ answered'[q] = answered[q]
             /\ joined'[q] = joined[q],
           \A q \in Requests : at[q] # "none" => wants'[q] = wants[q],
           \A q \in Requests : at[q] = "answered" /\ joined[q] # None => at[joined[q]] # "none",
           at'[r] = "answered" =>
             LET w == wants'[r] IN
             \/ /\ answer'[r] # None
                /\ answer'[r] >= wants'[IF joined'[r] = None THEN r ELSE joined'[r]].asked
             \/ ~w.noCache /\ answered'[r] - answer'[r] < CatalogAge
             \/ ~w.noCache /\ w.age # None /\ answered'[r] - answer'[r] < w.age
    PROVE  W!AnswersAreFresh'
<1> SUFFICES ASSUME NEW q \in Requests, at'[q] = "answered", q # r
             PROVE  LET w == wants'[q] IN
                    \/ /\ answer'[q] # None
                       /\ answer'[q] >= wants'[IF joined'[q] = None THEN q ELSE joined'[q]].asked
                    \/ ~w.noCache /\ answered'[q] - answer'[q] < CatalogAge
                    \/ ~w.noCache /\ w.age # None /\ answered'[q] - answer'[q] < w.age
  BY DEF W!AnswersAreFresh
<1>1. wants'[q] = wants[q] /\ at[q] = "answered"
  OBVIOUS
<1>2. joined[q] # None => joined[q] \in Requests /\ wants'[joined[q]] = wants[joined[q]]
  BY <1>1 DEF RequestTypes
<1> QED
  BY <1>1, <1>2 DEF W!AnswersAreFresh

\* Nobody is answered.
LEMMA NobodyAnswered ==
    ASSUME RequestsInv, UNCHANGED <<answer, answered, joined, wants>>,
           \A r \in Requests : at'[r] = "answered" => at[r] = "answered"
    PROVE  W!AnswersAreFresh'
BY DEF RequestsInv, W!AnswersAreFresh

LEMMA ExitsStep ==
    ASSUME RequestsInv, NEW r \in Requests, W!Exits(r)
    PROVE  RequestsInv'
<1> USE RequestConstants DEF RequestsInv
<1>1. /\ process[r] \in Live /\ at[r] = "running" /\ wants[r] \in Wanted
      /\ wants[r].file \in Files /\ wants[r].asked \in Nat /\ wants[r].asked <= clock
      /\ clock \in Nat
      /\ UNCHANGED <<clock, wants, at, joined, answer, answered, lockHolder, queue, active, server>>
  BY DEF W!Exits, Live, LockGuards, RequestTypes, Wanted, W!handlers, W!lock
<1>2. PICK s \in {"done", "failed"} :
        /\ process' = [process EXCEPT ![r] = s]
        /\ \/ written' = [written EXCEPT ![wants[r].file] = clock]
           \/ s = "failed" /\ written' = written
  BY DEF W!Exits
<1>3. RequestTypes'
  <2>1. process' \in [Requests -> Live \cup {"none", "done", "failed"}]
    BY <1>2 DEF RequestTypes
  <2>2. /\ written' \in [Files -> Nat \cup {None}]
        /\ \A f \in Files : written'[f] # None => written'[f] <= clock
    BY <1>1, <1>2 DEF RequestTypes
  <2> QED
    BY <1>1, <2>1, <2>2 DEF RequestTypes
<1>4. LockGuards'
  BY <1>1, <1>2 DEF LockGuards, RequestTypes, Live
<1>5. TasksWrite'
  <2>1. \A f \in Files : written[f] # None =>
           written'[f] # None /\ written[f] \in Nat /\ written'[f] >= written[f]
    BY <1>1, <1>2 DEF RequestTypes
  <2>2. ASSUME NEW q \in Requests, process'[q] = "done"
        PROVE  /\ at[q] # "none" /\ written'[wants[q].file] # None
               /\ written'[wants[q].file] >= wants[q].asked
    <3>1. CASE q = r
      BY <1>1, <1>2, <2>2, <3>1 DEF RequestTypes
    <3>2. CASE q # r
      <4>1. process[q] = "done"
        BY <1>2, <2>2, <3>2 DEF RequestTypes
      <4>2. wants[q].file \in Files /\ wants[q].asked \in Nat
        BY <4>1 DEF TasksWrite, RequestTypes, Wanted
      <4>3. written'[wants[q].file] \in Nat
        BY <1>1, <1>2, <2>1, <4>1, <4>2 DEF TasksWrite, RequestTypes
      <4> QED
        BY <2>1, <4>1, <4>2, <4>3 DEF TasksWrite
    <3> QED
      BY <3>1, <3>2
  <2> QED
    BY <1>1, <2>2 DEF TasksWrite
<1>6. W!AnswersAreFresh'
  BY <1>1, NobodyAnswered
<1> QED
  BY <1>3, <1>4, <1>5, <1>6

LEMMA KillStep ==
    ASSUME RequestsInv, NEW r \in Requests, W!Kill(r)
    PROVE  RequestsInv'
<1> USE RequestConstants DEF RequestsInv
<1>1. /\ process[r] \in Live /\ process' = [process EXCEPT ![r] = "killed"]
      /\ UNCHANGED <<clock, written, wants, at, joined, answer, answered, lockHolder, queue,
                     active, server>>
  BY DEF W!Kill, Live, W!handlers, W!lock
<1>2. RequestTypes'
  BY <1>1 DEF RequestTypes, Live
<1>3. LockGuards' /\ TasksWrite'
  BY <1>1 DEF LockGuards, TasksWrite, RequestTypes, Live
<1>4. W!AnswersAreFresh'
  BY <1>1, NobodyAnswered
<1> QED
  BY <1>2, <1>3, <1>4

LEMMA ReturnsStep ==
    ASSUME RequestsInv, NEW r \in Requests, W!Returns(r)
    PROVE  RequestsInv'
<1> USE RequestConstants DEF RequestsInv
<1>1. /\ at[r] = "running" /\ process[r] \in {"done", "failed"} /\ lockHolder = r
      /\ joined[r] = None /\ lockHolder' = None /\ wants[r] \in Wanted
      /\ active' = [active EXCEPT ![wants[r].file] = None]
      /\ UNCHANGED <<clock, written, wants, joined, queue, process, server>>
  BY DEF W!Returns, W!Over, LockGuards, RequestTypes
<1>2. PICK s \in {"answered", "failed"} :
        /\ at' = [at EXCEPT ![r] = s]
        /\ s = "answered" => /\ process[r] = "done"
                             /\ answer' = [answer EXCEPT ![r] = written[wants[r].file]]
                             /\ answered' = [answered EXCEPT ![r] = clock]
        /\ s = "failed" => UNCHANGED <<answer, answered>>
  BY <1>1 DEF W!Returns, W!Answered
<1>3. RequestTypes'
  <2>1. at' \in [Requests -> Handlers] /\ \A q \in Requests : at'[q] # "none" => at[q] # "none"
    BY <1>1, <1>2 DEF RequestTypes, Handlers
  <2>2. answer' \in [Requests -> Nat \cup {None}] /\ answered' \in [Requests -> Nat \cup {None}]
    <3>1. written[wants[r].file] \in Nat \cup {None} /\ clock \in Nat
      BY <1>1 DEF RequestTypes, Wanted
    <3> QED
      BY SMTT(30), <1>2, <3>1 DEF RequestTypes
  <2> QED
    BY <1>1, <2>1, <2>2 DEF RequestTypes
<1>4. LockGuards'
  BY <1>1, <1>2 DEF LockGuards, RequestTypes, Live
<1>5. TasksWrite'
  <2>1. \A q \in Requests : at[q] # "none" => at'[q] # "none"
    BY <1>2 DEF RequestTypes
  <2>2. \A f \in Files : active'[f] # None => active'[f] = active[f] /\ active[f] \in Requests
    BY <1>1 DEF RequestTypes
  <2>3. \A q \in Requests : joined[q] # None => joined[q] \in Requests
    BY DEF RequestTypes
  <2> QED
    BY <1>1, <2>1, <2>2, <2>3 DEF TasksWrite
<1>6. W!AnswersAreFresh'
  <2>1. s = "answered" => /\ answer'[r] = written[wants[r].file]
                          /\ written[wants[r].file] # None
                          /\ written[wants[r].file] >= wants[r].asked
    BY <1>2 DEF TasksWrite, RequestTypes
  <2>2. /\ at'[r] = s
        /\ \A q \in Requests : q # r => at'[q] = at[q] /\ answer'[q] = answer[q]
                                        /\ answered'[q] = answered[q]
    BY <1>2 DEF RequestTypes
  <2> QED
    BY <1>1, <2>1, <2>2, OthersAnswers DEF TasksWrite
<1> QED
  BY <1>3, <1>4, <1>5, <1>6

LEMMA JoinsStep ==
    ASSUME RequestsInv, NEW r \in Requests, W!Joins(r)
    PROVE  RequestsInv'
<1> USE RequestConstants DEF RequestsInv
<1>1. /\ at[r] = "joining" /\ joined[r] \in Requests /\ joined[r] # None
      /\ wants[r] \in Wanted /\ wants[joined[r]].file = wants[r].file
      /\ UNCHANGED <<clock, written, wants, joined, lockHolder, queue, active, process, server>>
  BY DEF W!Joins, LockGuards, TasksWrite, RequestTypes, W!lock
<1>2. PICK s \in {"answered", "failed"} :
        /\ at' = [at EXCEPT ![r] = s]
        /\ s = "answered" => /\ process[joined[r]] = "done"
                             /\ answer' = [answer EXCEPT ![r] = written[wants[r].file]]
                             /\ answered' = [answered EXCEPT ![r] = clock]
        /\ s = "failed" => UNCHANGED <<answer, answered>>
  BY <1>1 DEF W!Joins, W!Answered
<1>3. RequestTypes'
  <2>1. at' \in [Requests -> Handlers] /\ \A q \in Requests : at'[q] # "none" => at[q] # "none"
    BY <1>1, <1>2 DEF RequestTypes, Handlers
  <2>2. answer' \in [Requests -> Nat \cup {None}] /\ answered' \in [Requests -> Nat \cup {None}]
    <3>1. written[wants[r].file] \in Nat \cup {None} /\ clock \in Nat
      BY <1>1 DEF RequestTypes, Wanted
    <3> QED
      BY <1>2, <3>1 DEF RequestTypes
  <2> QED
    BY <1>1, <2>1, <2>2 DEF RequestTypes
<1>4. LockGuards'
  BY <1>1, <1>2 DEF LockGuards, RequestTypes, Live
<1>5. TasksWrite'
  <2>1. \A q \in Requests : at[q] # "none" => at'[q] # "none"
    BY <1>2 DEF RequestTypes
  <2>2. \A f \in Files : active[f] # None => active[f] \in Requests
    BY DEF RequestTypes
  <2>3. \A q \in Requests : joined[q] # None => joined[q] \in Requests
    BY DEF RequestTypes
  <2> QED
    BY <1>1, <2>1, <2>2, <2>3 DEF TasksWrite
<1>6. W!AnswersAreFresh'
  <2>1. s = "answered" => /\ answer'[r] = written[wants[r].file]
                          /\ written[wants[r].file] # None
                          /\ written[wants[r].file] >= wants[joined[r]].asked
    BY <1>1, <1>2 DEF TasksWrite, RequestTypes
  <2>2. /\ at'[r] = s
        /\ \A q \in Requests : q # r => at'[q] = at[q] /\ answer'[q] = answer[q]
                                        /\ answered'[q] = answered[q]
    BY <1>2 DEF RequestTypes
  <2> QED
    BY <1>1, <2>1, <2>2, OthersAnswers DEF TasksWrite
<1> QED
  BY <1>3, <1>4, <1>5, <1>6

\* A request that has neither an answer nor a task yet: it comes, or has waited for the lock.
Opens(r) ==
    /\ at[r] \in {"none", "waiting"} /\ server # "exited" /\ UNCHANGED <<clock, written, server>>
    /\ wants' \in [Requests -> Wanted \cup {None}] /\ wants'[r] \in Wanted
    /\ wants'[r].asked <= clock
    /\ \A q \in Requests : q # r => wants'[q] = wants[q]
    /\ at[r] = "waiting" => wants'[r] = wants[r]
    /\ queue' \in Seq(Requests)
    /\ \A q \in Requests : at[q] = "waiting" /\ q # r => \E i \in 1 .. Len(queue') : queue'[i] = q

\* Whoever has asked already is not touched by it.
LEMMA OpensOthers ==
    ASSUME RequestsInv, NEW r \in Requests, Opens(r)
    PROVE  /\ \A q \in Requests : at[q] # "none" => wants'[q] = wants[q]
           /\ process[r] = "none" /\ joined[r] = None /\ lockHolder # r
           /\ \A q \in Requests : q # r /\ at[q] # "none" =>
                wants'[q] \in Wanted /\ wants'[q].asked <= clock
           /\ clock \in Nat /\ wants'[r].file \in Files
BY RequestConstants DEF RequestsInv, Opens, LockGuards, RequestTypes, Wanted

LEMMA AnswerStep ==
    ASSUME RequestsInv, NEW r \in Requests, Opens(r), W!Answered(r, wants'[r].file), NEW bound,
           W!Fresh(wants'[r].file, bound), ~wants'[r].noCache,
           bound = CatalogAge \/ (bound = wants'[r].age /\ bound # None),
           UNCHANGED <<joined, lockHolder, active, process>>
    PROVE  RequestsInv'
<1> USE RequestConstants DEF RequestsInv
<1>1. /\ \A q \in Requests : at[q] # "none" => wants'[q] = wants[q]
      /\ process[r] = "none" /\ joined[r] = None /\ lockHolder # r
      /\ \A q \in Requests : q # r /\ at[q] # "none" =>
           wants'[q] \in Wanted /\ wants'[q].asked <= clock
      /\ clock \in Nat /\ wants'[r].file \in Files
  BY OpensOthers
<1>2. /\ at' = [at EXCEPT ![r] = "answered"]
      /\ answer' = [answer EXCEPT ![r] = written[wants'[r].file]]
      /\ answered' = [answered EXCEPT ![r] = clock]
      /\ UNCHANGED <<joined, lockHolder, active, process>>
  BY DEF W!Answered
<1>3. RequestTypes'
  <2>1. at' \in [Requests -> Handlers] /\ \A q \in Requests : q # r => at'[q] = at[q]
    BY <1>2 DEF RequestTypes, Handlers
  <2>2. answer' \in [Requests -> Nat \cup {None}] /\ answered' \in [Requests -> Nat \cup {None}]
    <3>1. written[wants'[r].file] \in Nat \cup {None}
      BY <1>1 DEF RequestTypes
    <3> QED
      BY <1>1, <1>2, <3>1 DEF RequestTypes
  <2> QED
    BY <1>1, <1>2, <2>1, <2>2 DEF RequestTypes, Opens
<1>4. LockGuards'
  BY <1>1, <1>2 DEF LockGuards, RequestTypes, Live, Opens
<1>5. TasksWrite'
  <2>1. \A q \in Requests : at[q] # "none" => at'[q] # "none"
    BY <1>2 DEF RequestTypes
  <2>2. \A f \in Files : active[f] # None => active[f] \in Requests
    BY DEF RequestTypes
  <2>3. \A q \in Requests : joined[q] # None => joined[q] \in Requests
    BY DEF RequestTypes
  <2> QED
    BY <1>1, <1>2, <2>1, <2>2, <2>3 DEF TasksWrite, Opens
<1>6. W!AnswersAreFresh'
  <2>1. clock - written[wants'[r].file] < bound
    BY DEF W!Fresh
  <2>2. /\ answer'[r] = written[wants'[r].file] /\ answered'[r] = clock
        /\ \A q \in Requests : q # r => at'[q] = at[q] /\ answer'[q] = answer[q]
                                        /\ answered'[q] = answered[q]
    BY <1>2 DEF RequestTypes
  <2>3. \/ ~wants'[r].noCache /\ answered'[r] - answer'[r] < CatalogAge
        \/ /\ ~wants'[r].noCache /\ wants'[r].age # None
           /\ answered'[r] - answer'[r] < wants'[r].age
    BY <2>1, <2>2
  <2>4. \A q \in Requests : q # r /\ at'[q] = "answered" =>
             /\ at[q] = "answered" /\ answer'[q] = answer[q] /\ answered'[q] = answered[q]
             /\ joined'[q] = joined[q]
    BY <1>2, <2>2
  <2>5. \A q \in Requests : at[q] = "answered" /\ joined[q] # None => at[joined[q]] # "none"
    BY DEF TasksWrite
  <2> QED
    BY <1>1, <2>3, <2>4, <2>5, OthersAnswers
<1> QED
  BY <1>3, <1>4, <1>5, <1>6

\* It starts its task, waits for the lock, or joins a task for its file.
LEMMA OpenStep ==
    ASSUME RequestsInv, NEW r \in Requests, Opens(r), NEW s \in {"running", "waiting", "joining"},
           at' = [at EXCEPT ![r] = s], UNCHANGED <<answer, answered>>,
           IF s = "running"
           THEN /\ lockHolder = None /\ lockHolder' = r
                /\ active' = [active EXCEPT ![wants'[r].file] = r]
                /\ process' = [process EXCEPT ![r] = "alive"]
           ELSE UNCHANGED <<lockHolder, active, process>>,
           IF s = "joining"
           THEN /\ active[wants'[r].file] # None
                /\ joined' = [joined EXCEPT ![r] = active[wants'[r].file]]
           ELSE joined' = joined,
           s = "waiting" => \E i \in 1 .. Len(queue') : queue'[i] = r
    PROVE  RequestsInv'
<1> USE RequestConstants DEF RequestsInv
<1>1. /\ \A q \in Requests : at[q] # "none" => wants'[q] = wants[q]
      /\ process[r] = "none" /\ joined[r] = None /\ lockHolder # r
      /\ \A q \in Requests : q # r /\ at[q] # "none" =>
           wants'[q] \in Wanted /\ wants'[q].asked <= clock
      /\ clock \in Nat /\ wants'[r].file \in Files
  BY OpensOthers
<1>2. at' \in [Requests -> Handlers] /\ at'[r] = s /\ \A q \in Requests : q # r => at'[q] = at[q]
  BY DEF RequestTypes, Handlers
<1>3. RequestTypes'
  <2>1. /\ active' \in [Files -> Requests \cup {None}]
        /\ process' \in [Requests -> Live \cup {"none", "done", "failed"}]
        /\ joined' \in [Requests -> Requests \cup {None}]
        /\ lockHolder' \in Requests \cup {Job, None}
    <3>1. active' \in [Files -> Requests \cup {None}]
      <4>1. CASE active' = active
        BY <4>1 DEF RequestTypes
      <4>2. CASE active' = [active EXCEPT ![wants'[r].file] = r]
        BY <4>2 DEF RequestTypes
      <4> QED
        BY <4>1, <4>2
    <3>2. process' \in [Requests -> Live \cup {"none", "done", "failed"}]
      BY DEF RequestTypes, Live
    <3>3. joined' \in [Requests -> Requests \cup {None}]
      <4>1. CASE s = "joining"
        <5>1. active[wants'[r].file] \in Requests
          BY <1>1, <4>1 DEF RequestTypes
        <5> QED
          BY <4>1, <5>1 DEF RequestTypes
      <4>2. CASE s # "joining"
        BY <4>2 DEF RequestTypes
      <4> QED
        BY <4>1, <4>2
    <3>4. lockHolder' \in Requests \cup {Job, None}
      BY DEF RequestTypes
    <3> QED
      BY <3>1, <3>2, <3>3, <3>4
  <2> QED
    BY <1>1, <1>2, <2>1 DEF RequestTypes, Opens
<1>4. LockGuards'
  <2>1. s = "joining" => joined'[r] # None
    BY <1>1 DEF RequestTypes
  <2>2. \A q \in Requests : q # r => joined'[q] = joined[q] /\ process'[q] = process[q]
    BY DEF RequestTypes
  <2>3. s # "running" => process'[r] = "none"
    BY <1>1
  <2>4. s # "joining" => joined'[r] = None
    BY <1>1
  <2> QED
    BY <1>1, <1>2, <2>1, <2>2, <2>3, <2>4 DEF LockGuards, Opens
<1>5. TasksWrite'
  <2>1. \A q \in Requests : at[q] # "none" => at'[q] # "none"
    BY <1>2
  <2>2. ASSUME NEW f \in Files, active'[f] # None
        PROVE  at'[active'[f]] # "none" /\ wants'[active'[f]].file = f
    <3>1. CASE active'[f] = r /\ f = wants'[r].file
      BY <1>2, <3>1
    <3>2. CASE active'[f] = active[f]
      <4>1. active[f] \in Requests /\ at[active[f]] # "none" /\ wants[active[f]].file = f
        BY <2>2, <3>2 DEF RequestTypes, TasksWrite
      <4> QED
        BY <1>1, <2>1, <3>2, <4>1
    <3> QED
      BY <3>1, <3>2 DEF RequestTypes
  <2>3. ASSUME NEW q \in Requests, joined'[q] # None
        PROVE  /\ at'[q] # "none" /\ at'[joined'[q]] # "none"
               /\ wants'[joined'[q]].file = wants'[q].file
    <3>1. CASE q = r
      <4>1. s = "joining" /\ joined'[r] = active[wants'[r].file]
        BY <1>1, <2>3, <3>1 DEF RequestTypes
      <4>2. active[wants'[r].file] \in Requests /\ at[active[wants'[r].file]] # "none"
            /\ wants[active[wants'[r].file]].file = wants'[r].file
        BY <1>1, <4>1 DEF RequestTypes, TasksWrite
      <4> QED
        BY <1>1, <1>2, <2>1, <3>1, <4>1, <4>2
    <3>2. CASE q # r
      <4>1. joined'[q] = joined[q] /\ joined[q] \in Requests
        BY <2>3, <3>2 DEF RequestTypes
      <4>2. at[q] # "none" /\ at[joined[q]] # "none" /\ wants[joined[q]].file = wants[q].file
        BY <2>3, <4>1 DEF TasksWrite
      <4> QED
        BY <1>1, <2>1, <4>1, <4>2
    <3> QED
      BY <3>1, <3>2
  <2>4. ASSUME NEW q \in Requests, process'[q] = "done"
        PROVE  /\ at'[q] # "none" /\ written'[wants'[q].file] # None
               /\ written'[wants'[q].file] >= wants'[q].asked
    <3>1. process[q] = "done"
      BY <1>1, <2>4 DEF RequestTypes
    <3> QED
      BY <1>1, <2>1, <3>1 DEF TasksWrite, Opens
  <2> QED
    BY <2>2, <2>3, <2>4 DEF TasksWrite
<1>6. W!AnswersAreFresh'
  <2>1. at'[r] # "answered"
    BY <1>2
  <2>2. \A q \in Requests : q # r => joined'[q] = joined[q]
    BY DEF RequestTypes
  <2>3. \A q \in Requests : q # r /\ at'[q] = "answered" =>
             /\ at[q] = "answered" /\ answer'[q] = answer[q] /\ answered'[q] = answered[q]
             /\ joined'[q] = joined[q]
    BY <1>2, <2>2
  <2>4. \A q \in Requests : at[q] = "answered" /\ joined[q] # None => at[joined[q]] # "none"
    BY DEF TasksWrite
  <2> QED
    BY <1>1, <2>1, <2>3, <2>4, OthersAnswers
<1> QED
  BY <1>3, <1>4, <1>5, <1>6

LEMMA RequestStep ==
    ASSUME RequestsInv, NEW r \in Requests, NEW w \in W!Wishes, W!Request(r, w)
    PROVE  RequestsInv'
<1> USE RequestConstants
<1>1. w.file \in Files /\ w.noCache \in BOOLEAN /\ w.age \in Ages \cup {None}
  BY DEF W!Wishes
<1>2. /\ at[r] = "none" /\ server # "exited" /\ UNCHANGED <<clock, written, server>>
      /\ clock \in Nat /\ queue \in Seq(Requests) /\ wants \in [Requests -> Wanted \cup {None}]
  BY DEF W!Request, RequestsInv, RequestTypes
<1>3. PICK row \in Wanted :
        /\ wants' = [wants EXCEPT ![r] = row]
        /\ row.file = w.file /\ row.noCache = w.noCache /\ row.age = w.age /\ row.asked = clock
  <2> DEFINE row == [file |-> w.file, noCache |-> w.noCache, age |-> w.age, asked |-> clock]
  <2>1. row \in Wanted
    BY <1>1, <1>2 DEF Wanted
  <2>2. wants' = [wants EXCEPT ![r] = row]
    BY DEF W!Request
  <2> QED
    BY <2>1, <2>2
<1>4. wants'[r] = row /\ \A q \in Requests : q # r => wants'[q] = wants[q]
  BY <1>2, <1>3
<1>5. ASSUME queue' \in Seq(Requests),
             \A q \in Requests : at[q] = "waiting" => \E i \in 1 .. Len(queue') : queue'[i] = q
      PROVE  Opens(r)
  BY <1>2, <1>3, <1>4, <1>5 DEF Opens
<1>6. \A q \in Requests : at[q] = "waiting" => \E i \in 1 .. Len(queue) : queue[i] = q
  BY DEF RequestsInv, LockGuards
<1>7. CASE ~W!Regenerate(w)
  <2>1. /\ W!Answered(r, w.file) /\ UNCHANGED <<joined, lockHolder, queue, active, process>>
    BY <1>7 DEF W!Request, W!lock
  <2>2. Opens(r)
    BY <1>2, <1>5, <1>6, <2>1
  <2>3. ~w.noCache /\ W!Fresh(w.file, IF w.age = None THEN CatalogAge ELSE w.age)
    BY <1>7 DEF W!Regenerate
  <2> QED
    BY <1>3, <1>4, <2>1, <2>2, <2>3, AnswerStep
<1>8. CASE W!Regenerate(w) /\ active[w.file] # None
  <2>1. /\ at' = [at EXCEPT ![r] = "joining"]
        /\ joined' = [joined EXCEPT ![r] = active[w.file]]
        /\ UNCHANGED <<answer, answered, lockHolder, queue, active, process>>
    BY <1>8 DEF W!Request, W!lock
  <2>2. Opens(r)
    BY <1>2, <1>5, <1>6, <2>1
  <2> QED
    BY <1>3, <1>4, <1>8, <2>1, <2>2, OpenStep
<1>9. CASE W!Regenerate(w) /\ active[w.file] = None /\ W!Free
  <2>1. W!Locked(r, w) /\ UNCHANGED <<joined, queue>> /\ lockHolder = None
    BY <1>9 DEF W!Request, W!Free
  <2>2. Opens(r)
    BY <1>2, <1>5, <1>6, <2>1
  <2>3. CASE W!UpToDate(w)
    BY <1>3, <1>4, <2>1, <2>2, <2>3, AnswerStep DEF W!Locked, W!UpToDate
  <2>4. CASE ~W!UpToDate(w)
    BY <1>3, <1>4, <2>1, <2>2, <2>4, OpenStep DEF W!Locked
  <2> QED
    BY <2>3, <2>4
<1>10. CASE W!Regenerate(w) /\ active[w.file] = None /\ ~W!Free
  <2>1. /\ at' = [at EXCEPT ![r] = "waiting"] /\ queue' = Append(queue, r)
        /\ UNCHANGED <<joined, answer, answered, lockHolder, active, process>>
    BY <1>10 DEF W!Request
  <2>2. /\ queue' \in Seq(Requests) /\ queue'[Len(queue')] = r
        /\ Len(queue') = Len(queue) + 1 /\ Len(queue) \in Nat
        /\ \A i \in 1 .. Len(queue) : queue'[i] = queue[i]
    BY <1>2, <2>1
  <2>3. /\ \A q \in Requests : at[q] = "waiting" => \E i \in 1 .. Len(queue') : queue'[i] = q
        /\ \E i \in 1 .. Len(queue') : queue'[i] = r
    BY <1>6, <2>2
  <2>4. Opens(r)
    BY <1>5, <2>2, <2>3
  <2> QED
    BY <1>3, <1>4, <2>1, <2>3, <2>4, OpenStep
<1> QED
  BY <1>7, <1>8, <1>9, <1>10

LEMMA GrantedStep ==
    ASSUME RequestsInv, NEW r \in Requests, W!Granted(r)
    PROVE  RequestsInv'
<1> USE RequestConstants
<1>1. /\ at[r] = "waiting" /\ lockHolder = None /\ Head(queue) = r /\ queue' = Tail(queue)
      /\ W!Locked(r, wants[r]) /\ UNCHANGED <<clock, written, wants, joined, server>>
  BY DEF W!Granted
<1>2. /\ queue \in Seq(Requests) /\ server # "exited" /\ wants[r] \in Wanted
      /\ wants[r].asked <= clock /\ wants \in [Requests -> Wanted \cup {None}]
      /\ \A q \in Requests : at[q] = "waiting" => \E i \in 1 .. Len(queue) : queue[i] = q
  BY <1>1 DEF RequestsInv, RequestTypes, LockGuards
<1>3. /\ queue' \in Seq(Requests) /\ Len(queue') = Len(queue) - 1 /\ queue[1] = r
      /\ \A i \in 1 .. Len(queue) - 1 : queue'[i] = queue[i + 1]
  <2>1. queue # <<>>
    BY <1>1, <1>2
  <2> QED
    BY <1>1, <1>2, <2>1
<1>4. ASSUME NEW q \in Requests, at[q] = "waiting", q # r
      PROVE  \E i \in 1 .. Len(queue') : queue'[i] = q
  <2>1. PICK i \in 1 .. Len(queue) : queue[i] = q
    BY <1>2, <1>4
  <2>2. i # 1 /\ i - 1 \in 1 .. Len(queue') /\ queue'[i - 1] = queue[i]
    BY <1>2, <1>3, <1>4, <2>1
  <2> QED
    BY <2>1, <2>2
<1>5. Opens(r)
  BY <1>1, <1>2, <1>3, <1>4 DEF Opens
<1>6. CASE W!UpToDate(wants[r])
  BY <1>1, <1>5, <1>6, AnswerStep DEF W!Locked, W!UpToDate
<1>7. CASE ~W!UpToDate(wants[r])
  BY <1>1, <1>5, <1>7, OpenStep DEF W!Locked
<1> QED
  BY <1>6, <1>7

LEMMA JobStep == RequestsInv /\ (W!JobTakes \/ W!JobReleases) => RequestsInv'
<1> SUFFICES ASSUME RequestsInv, W!JobTakes \/ W!JobReleases PROVE RequestsInv'
  OBVIOUS
<1> USE RequestConstants DEF RequestsInv
<1>1. /\ lockHolder \in {Job, None} /\ lockHolder' \in {Job, None}
      /\ UNCHANGED <<clock, written, wants, at, joined, answer, answered, queue, active,
                     process, server>>
  BY DEF W!JobTakes, W!JobReleases, W!Free, W!handlers
<1>2. RequestTypes' /\ LockGuards' /\ TasksWrite'
  BY <1>1 DEF RequestTypes, LockGuards, TasksWrite
<1>3. W!AnswersAreFresh'
  BY <1>1, NobodyAnswered
<1> QED
  BY <1>2, <1>3

\* A task that is cancelled terminates its process, and keeps the lock until that has ended.
LEMMA CancelStep ==
    ASSUME RequestsInv, NEW S \in SUBSET Requests, W!CancelTasks(S),
           server' \in {"stopping", "cancelling"},
           queue' = queue \/ (queue' = <<>> /\ \A r \in Requests : at[r] = "waiting" => r \in S),
           UNCHANGED <<clock, written, wants, joined, answer, answered, lockHolder, active>>
    PROVE  RequestsInv'
<1> USE RequestConstants DEF RequestsInv
<1>1. /\ process' \in [Requests -> Live \cup {"none", "done", "failed"}]
      /\ at' \in [Requests -> Handlers]
      /\ \A r \in Requests :
           /\ process'[r] \in Live <=> process[r] \in Live
           /\ process'[r] \in {"none", "done"} <=> process[r] \in {"none", "done"}
           /\ process'[r] = "none" <=> process[r] = "none"
           /\ at'[r] = at[r] \/ (at[r] \in {"waiting", "joining"} /\ at'[r] = "failed")
           /\ r \in S => at'[r] # "waiting"
  BY DEF W!CancelTasks, RequestTypes, Live, Handlers
<1>2. RequestTypes'
  <2>1. queue' \in Seq(Requests)
    <3>1. <<>> \in Seq(Requests)
      OBVIOUS
    <3>2. queue \in Seq(Requests)
      BY DEF RequestTypes
    <3> QED
      BY <3>1, <3>2
  <2>2. \A r \in Requests : at'[r] # "none" => at[r] # "none"
    BY <1>1
  <2> QED
    BY <1>1, <2>1, <2>2 DEF RequestTypes
<1>3. LockGuards'
  BY <1>1 DEF LockGuards
<1>4. TasksWrite'
  <2>1. /\ \A r \in Requests : at[r] # "none" => at'[r] # "none"
        /\ \A r \in Requests : process'[r] = "done" => process[r] = "done"
    BY <1>1
  <2>2. /\ \A f \in Files : active[f] # None => active[f] \in Requests
        /\ \A q \in Requests : joined[q] # None => joined[q] \in Requests
    BY DEF RequestTypes
  <2> QED
    BY <2>1, <2>2 DEF TasksWrite
<1>5. W!AnswersAreFresh'
  BY <1>1, NobodyAnswered
<1> QED
  BY <1>2, <1>3, <1>4, <1>5

LEMMA RequestsStep == RequestsInv /\ W!Next => RequestsInv'
<1> SUFFICES ASSUME RequestsInv, W!Next PROVE RequestsInv'
  OBVIOUS
<1> USE RequestConstants
<1>1. CASE W!Shutdown
  BY <1>1, CancelStep DEF W!Shutdown, W!lock, W!Running
<1>2. CASE W!Drain
  BY <1>2, CancelStep DEF W!Drain, W!Pending
<1>3. CASE W!ShutdownEnds
  <2>1. /\ active' = [f \in Files |-> None] /\ server' = "draining"
        /\ UNCHANGED <<clock, written, wants, at, joined, answer, answered, lockHolder, queue,
                       process>>
    BY <1>3 DEF W!ShutdownEnds, W!handlers, W!lock
  <2>2. W!AnswersAreFresh'
    BY <2>1, NobodyAnswered
  <2> QED
    BY <2>1, <2>2 DEF RequestsInv, RequestTypes, LockGuards, TasksWrite
<1>4. CASE W!ServerExits
  <2>1. /\ server' = "exited" /\ \A r \in Requests : at[r] \notin {"waiting", "running", "joining"}
        /\ UNCHANGED <<clock, written, wants, at, joined, answer, answered, lockHolder, queue,
                       active, process>>
    BY <1>4 DEF W!ServerExits, W!handlers, W!lock, W!Pending
  <2>2. W!AnswersAreFresh'
    BY <2>1, NobodyAnswered
  <2> QED
    BY <2>1, <2>2 DEF RequestsInv, RequestTypes, LockGuards, TasksWrite
<1>5. CASE W!Tick
  <2>1. /\ clock < MaxTime /\ clock' = clock + 1
        /\ UNCHANGED <<written, wants, at, joined, answer, answered, lockHolder, queue,
                       active, process, server>>
    BY <1>5 DEF W!Tick, W!handlers, W!lock
  <2>2. W!AnswersAreFresh'
    BY <2>1, NobodyAnswered
  <2>3. \A f \in Files : written[f] # None => written[f] \in Nat
    BY DEF RequestsInv, RequestTypes
  <2>4. \A r \in Requests : at[r] # "none" => wants[r].asked \in Nat
    BY DEF RequestsInv, RequestTypes, Wanted
  <2>5. RequestTypes'
    BY <2>1, <2>3, <2>4 DEF RequestsInv, RequestTypes
  <2> QED
    BY <2>1, <2>2, <2>5 DEF RequestsInv, LockGuards, TasksWrite
<1> QED
  BY <1>1, <1>2, <1>3, <1>4, <1>5, RequestStep, GrantedStep, ExitsStep, KillStep, ReturnsStep,
     JoinsStep, JobStep DEF W!Next

LEMMA RequestsStay == RequestsInv /\ UNCHANGED requestsVars => RequestsInv'
BY DEF RequestsInv, requestsVars, RequestTypes, LockGuards, TasksWrite, W!AnswersAreFresh

\* The file a request is answered with is as new as it may expect, whoever had it written and
\* however long it waited; the tasks of a source run one at a time, in a shutdown too, and
\* none survives the server.
THEOREM RequestsAreServed == AllSpec => []RequestsSound
<1>1. AllInit => RequestsInv
  BY RequestsBegin DEF AllInit
<1>2. RequestsInv /\ [AllNext]_allVars => RequestsInv'
  BY RequestsStep, RequestsStay DEF AllNext, allVars
<1>3. RequestsInv => RequestsSound
  <2>1. RequestsInv => W!TypeOK
    <3> SUFFICES ASSUME RequestsInv PROVE W!TypeOK
      OBVIOUS
    <3>1. \A f \in Files : written[f] \in 0 .. clock \cup {None}
      BY RequestConstants DEF RequestsInv, RequestTypes
    <3> QED
      BY <3>1 DEF RequestsInv, RequestTypes, Handlers, Live, W!TypeOK
  <2>2. RequestsInv => W!OneTaskAtATime
    BY DEF RequestsInv, LockGuards, Live, W!OneTaskAtATime
  <2> QED
    BY <2>1, <2>2 DEF RequestsInv, RequestsSound
<1> QED
  BY <1>1, <1>2, <1>3, PTL DEF AllSpec

-------------------------------------------------------------------------------
(* SourceCapabilities.                                                     *)

Versions == 0 .. MaxWrites + 1
DiskStates == [C!SourceFiles -> Versions]
Inspections == [sign : DiskStates, got : DiskStates]
Outcomes == [began : Nat, looked : Nat \cup {None}]
Stored == [until : Nat, looked : Nat]
CallerStates == {"idle", "inspecting", "deciding", "probing"}

CapTypes ==
    /\ disk \in DiskStates /\ fileWrites \in 0 .. MaxWrites /\ time \in Nat
    /\ \A f \in C!SourceFiles : disk[f] <= fileWrites + 1
    /\ step \in {"off", "before", "read", "after"}
    /\ next \in Nat \ {0} /\ attempt \in 1 .. Attempts
    /\ before \in Seq(Versions) /\ seen \in Seq(Versions) /\ after \in Seq(Versions)
    /\ cache = C!Nothing \/ cache \in Inspections
    /\ callerAt \in [Callers -> CallerStates]

\* How far the inspecting thread is with the files.
Reading ==
    /\ step = "before" => /\ next <= NumFiles + 1 /\ Len(before) = next - 1
                          /\ seen = C!Nothing /\ after = C!Nothing
    /\ step = "read" => /\ next <= NumFiles /\ Len(before) = NumFiles /\ Len(seen) = next - 1
                        /\ after = C!Nothing
    /\ step = "after" => /\ next <= NumFiles + 1 /\ Len(before) = NumFiles
                         /\ Len(seen) = NumFiles /\ Len(after) = next - 1
    /\ step = "off" <=> since = {}
    /\ step # "off" => disk \in since
    /\ since \subseteq DiskStates

\* The file f has been present with the signature v, which is not there any more, and will
\* never be again.
Gone(v, f) == v > 0 /\ disk[f] # v

\* Signatures that present files have had, no later than now.
Past(v) == v <= fileWrites + 1

\* The files that are present by these signatures had them at one moment of the inspection.
Together(signs) ==
    \E d \in since : \A f \in C!SourceFiles : signs[f] > 0 => d[f] = signs[f]

Lacked(f) == \E e \in since : e[f] = 0

\* The contents of the cached files are those their signatures tell of, but where these tell
\* of absence; and if all signatures are found again now, the present files were there
\* when this inspection read the first of them.
CacheTrails == cache # C!Nothing =>
    /\ \A f \in C!SourceFiles :
         Past(cache.sign[f]) /\ (cache.sign[f] > 0 => cache.got[f] = cache.sign[f])
    /\ step = "before" =>
         \/ Together(cache.sign)
         \/ \E f \in C!SourceFiles :
              IF f < next THEN before[f] # cache.sign[f] ELSE Gone(cache.sign[f], f)

\* What the second pass has found, or will find, to differ.
Differs(f) == IF step = "after" /\ f < next THEN after[f] # before[f] ELSE Gone(before[f], f)

\* A file whose signature is absence was absent during this inspection.  What is read
\* between two equal signatures of a present file is of the version they tell of; and if all
\* signatures are found again, all present files had them when the first pass ended.
ReadsTrail ==
    /\ step # "off" => \A f \in 1 .. Len(before) :
                         Past(before[f]) /\ (before[f] = 0 => Lacked(f))
    /\ step \in {"read", "after"} =>
         /\ \A f \in C!SourceFiles :
              \/ step = "read" /\ f >= next
              \/ before[f] = 0 \/ seen[f] = before[f] \/ Differs(f)
         /\ Together(before) \/ \E f \in C!SourceFiles : Differs(f)

\* A probe runs for those who await it, no longer than its timeouts allow; what is stored
\* expires within the time to live of the last question a probe answered.
ProbesInTime ==
    /\ probe \in {None} \cup Outcomes /\ known \in {None} \cup Stored
    /\ age \in [Callers -> {None} \cup Nat] /\ asked \in [Callers -> {None} \cup Nat]
    /\ probe = None => C!Probing = {}
    /\ probe # None =>
         /\ probe.began <= time
         /\ C!Probing # {} /\ time <= probe.began + ProbeTime
         /\ probe.looked # None => probe.began <= probe.looked /\ probe.looked <= time
         /\ \A c \in C!Probing : asked[c] \in Nat /\ asked[c] <= time
    /\ known # None => known.looked <= time /\ known.until <= known.looked + Ttl + ProbeTime

CapInv == CapTypes /\ Reading /\ CacheTrails /\ ReadsTrail
          /\ C!PresentFilesAreSnapshot /\ ProbesInTime /\ C!ProbeIsRecent


LEMMA CapConstants ==
    /\ NumFiles \in Nat \ {0} /\ Attempts \in Nat \ {0} /\ Ttl \in Nat /\ ProbeTime \in Nat
    /\ MaxWrites \in Nat /\ None \notin Nat \cup Outcomes
    /\ C!SourceFiles = 1 .. NumFiles
BY OperationsAssumptions DEF C!CapabilitiesAssumption, Outcomes, C!SourceFiles

LEMMA CapBegins == C!Init => CapInv
<1> SUFFICES ASSUME C!Init PROVE CapInv
  OBVIOUS
<1> USE CapConstants DEF C!Init
<1>1. CapTypes
  BY DEF CapTypes, DiskStates, Versions, C!Nothing, CallerStates
<1>2. Reading
  BY DEF Reading
<1>3. CacheTrails /\ ReadsTrail
  BY DEF CacheTrails, ReadsTrail
<1>4. C!PresentFilesAreSnapshot /\ C!ProbeIsRecent
  BY DEF C!PresentFilesAreSnapshot, C!ProbeIsRecent
<1>5. ProbesInTime
  BY DEF ProbesInTime, C!Probing
<1> QED
  BY <1>1, <1>2, <1>3, <1>4, <1>5 DEF CapInv

-------------------------------------------------------------------------------
(* The inspection.                                                         *)

Inspection ==
    CapTypes /\ Reading /\ CacheTrails /\ ReadsTrail /\ C!PresentFilesAreSnapshot

\* Signatures and contents of all files are a state of the disk.
LEMMA WholeRead ==
    ASSUME NEW s \in Seq(Versions), Len(s) = NumFiles
    PROVE  s \in DiskStates
BY CapConstants DEF DiskStates

\* Signatures are numbers.
LEMMA SignaturesRead ==
    ASSUME CapTypes, Reading
    PROVE  /\ cache # C!Nothing =>
                cache \in Inspections /\ \A f \in C!SourceFiles : cache.sign[f] \in Nat
           /\ \A f \in 1 .. Len(before) : before[f] \in Nat
           /\ step # "off" => 1 .. Len(before) \subseteq C!SourceFiles
           /\ step \in {"read", "after"} => 1 .. Len(before) = C!SourceFiles
<1> USE CapConstants
<1>1. \A v \in Versions : v \in Nat
  BY DEF Versions
<1>2. cache # C!Nothing =>
        cache \in Inspections /\ \A f \in C!SourceFiles : cache.sign[f] \in Nat
  BY <1>1 DEF CapTypes, Inspections, DiskStates
<1>3. before \in Seq(Versions)
  BY DEF CapTypes
<1>4. \A f \in 1 .. Len(before) : before[f] \in Nat
  BY <1>1, <1>3
<1>5. /\ step # "off" => 1 .. Len(before) \subseteq C!SourceFiles
      /\ step \in {"read", "after"} => 1 .. Len(before) = C!SourceFiles
  BY <1>3 DEF Reading, CapTypes
<1> QED
  BY <1>2, <1>4, <1>5

LEMMA WriteStep ==
    ASSUME Inspection, NEW f \in C!SourceFiles, C!Write(f)
    PROVE  Inspection'
<1> USE CapConstants DEF Inspection
<1>1. PICK v \in {fileWrites + 2, 0} : disk' = [disk EXCEPT ![f] = v]
  BY DEF C!Write
<1>2. /\ fileWrites < MaxWrites /\ fileWrites' = fileWrites + 1
      /\ UNCHANGED <<step, next, attempt, before, seen, after, cache, callerAt, files, time>>
      /\ since' = IF step = "off" THEN since ELSE since \cup {disk'}
  BY DEF C!Write, C!thread
<1>3. disk \in DiskStates /\ disk' \in DiskStates /\ fileWrites \in 0 .. MaxWrites
      /\ \A g \in C!SourceFiles : disk[g] \in Int /\ disk[g] <= fileWrites + 1
  BY <1>1, <1>2 DEF CapTypes, DiskStates, Versions
<1>4. \A g \in C!SourceFiles : disk'[g] = IF g = f THEN v ELSE disk[g]
  BY <1>1, <1>3 DEF DiskStates
<1>5. CapTypes'
  BY <1>2, <1>3, <1>4 DEF CapTypes
<1>6. Reading'
  BY <1>2, <1>3 DEF Reading
<1>7. ASSUME NEW g \in C!SourceFiles, NEW w \in Nat, Past(w)
      PROVE  Past(w)' /\ (Gone(w, g) => Gone(w, g)')
  BY <1>1, <1>2, <1>3, <1>4, <1>7 DEF Gone, Past
<1>8. since \subseteq since'
  BY <1>2
<1>9. CacheTrails'
  <2>1. SUFFICES ASSUME cache # C!Nothing PROVE CacheTrails'
    BY <1>2 DEF CacheTrails
  <2>2. \A g \in C!SourceFiles : /\ cache.sign[g] \in Nat /\ Past(cache.sign[g])
                                 /\ cache.sign[g] > 0 => cache.got[g] = cache.sign[g]
    BY <2>1, SignaturesRead DEF CacheTrails
  <2>3. \A g \in C!SourceFiles : /\ Past(cache.sign[g])'
                                 /\ Gone(cache.sign[g], g) => Gone(cache.sign[g], g)'
    BY <1>2, <1>7, <2>2
  <2>4. Together(cache.sign) => Together(cache.sign)'
    BY <1>2, <1>8 DEF Together
  <2> QED
    BY <1>2, <2>1, <2>2, <2>3, <2>4 DEF CacheTrails
<1>10. ReadsTrail'
  <2>1. SUFFICES ASSUME step # "off" PROVE ReadsTrail'
    BY <1>2 DEF ReadsTrail
  <2>2. \A g \in 1 .. Len(before) :
          /\ g \in C!SourceFiles /\ before[g] \in Nat /\ Past(before[g])
          /\ before[g] = 0 => Lacked(g)
    BY <2>1, SignaturesRead DEF ReadsTrail
  <2>3. \A g \in 1 .. Len(before) :
          /\ Past(before[g])' /\ (before[g] = 0 => Lacked(g)')
          /\ Gone(before[g], g) => Gone(before[g], g)'
    BY <1>2, <1>7, <1>8, <2>2 DEF Lacked
  <2>4. Together(before) => Together(before)'
    BY <1>2, <1>8 DEF Together
  <2>5. CASE step \in {"read", "after"}
    <3>1. \A g \in C!SourceFiles : Differs(g) => Differs(g)'
      BY <1>2, <2>3, <2>5, SignaturesRead DEF Differs
    <3> QED
      BY <1>2, <2>3, <2>4, <2>5, <3>1 DEF ReadsTrail
  <2>6. CASE step \notin {"read", "after"}
    BY <1>2, <2>3, <2>6 DEF ReadsTrail
  <2> QED
    BY <2>5, <2>6
<1>11. C!PresentFilesAreSnapshot'
  BY <1>2 DEF C!PresentFilesAreSnapshot
<1> QED
  BY <1>5, <1>6, <1>9, <1>10, <1>11

\* What a step that only moves the requests leaves alone.
LEMMA InspectionFrame ==
    ASSUME Inspection, C!PresentFilesAreSnapshot', time' \in Nat,
           callerAt' \in [Callers -> CallerStates],
           UNCHANGED <<disk, fileWrites, step, next, attempt, before, seen, after, cache, since>>
    PROVE  Inspection'
BY DEF Inspection, CapTypes, Reading, CacheTrails, ReadsTrail, Gone, Past, Together, Lacked,
       Differs

\* The cache is followed as well through a step that leaves it and the disk alone, when no
\* signature is read before it.
LEMMA CacheFrame ==
    ASSUME CacheTrails, step' # "before", UNCHANGED <<disk, fileWrites, cache>>
    PROVE  CacheTrails'
BY DEF CacheTrails, Past

\* An inspection that starts, or starts again, finds the cached files that are present, or
\* never will.
LEMMA Starts ==
    ASSUME CapTypes, CacheTrails, disk \in since', step' = "before", next' = 1,
           UNCHANGED <<disk, fileWrites, cache>>
    PROVE  CacheTrails'
<1> USE CapConstants
<1>1. SUFFICES ASSUME cache # C!Nothing,
                      \A f \in C!SourceFiles : ~ Gone(cache.sign[f], f)
               PROVE  Together(cache.sign)'
  BY DEF CacheTrails, Gone, Past
<1>2. \A f \in C!SourceFiles : cache.sign[f] > 0 => disk[f] = cache.sign[f]
  BY <1>1 DEF Gone
<1> QED
  BY <1>2 DEF Together

LEMMA AskStep ==
    ASSUME Inspection, NEW c \in Callers, C!Ask(c)
    PROVE  Inspection'
<1> USE CapConstants DEF Inspection
<1>1. /\ callerAt' \in [Callers -> CallerStates] /\ C!PresentFilesAreSnapshot' /\ time' \in Nat
      /\ UNCHANGED <<disk, fileWrites, cache>>
  BY DEF C!Ask, CapTypes, CallerStates, C!PresentFilesAreSnapshot
<1>2. CASE step = "off"
  <2>1. /\ step' = "before" /\ next' = 1 /\ attempt' = 1 /\ since' = {disk}
        /\ before' = C!Nothing /\ seen' = C!Nothing /\ after' = C!Nothing
    BY <1>2 DEF C!Ask, C!Goes
  <2>2. CapTypes' /\ Reading'
    BY <1>1, <2>1 DEF CapTypes, Reading, C!Nothing
  <2>3. CacheTrails' /\ ReadsTrail'
    BY <1>1, <2>1, Starts DEF ReadsTrail, C!Nothing
  <2> QED
    BY <1>1, <2>2, <2>3
<1>3. CASE step # "off"
  BY <1>1, <1>3, InspectionFrame DEF C!Ask, C!thread
<1> QED
  BY <1>2, <1>3

\* The inspection is over.
LEMMA Stops ==
    ASSUME Inspection, step' = "off", since' = {}, next' = 1, attempt' = 1,
           before' = C!Nothing, seen' = C!Nothing, after' = C!Nothing,
           UNCHANGED <<disk, fileWrites, time>>,
           callerAt' \in [Callers -> CallerStates], C!PresentFilesAreSnapshot',
           cache' = C!Nothing \/ cache' \in Inspections, CacheTrails'
    PROVE  Inspection'
BY CapConstants DEF Inspection, CapTypes, Reading, ReadsTrail, C!Nothing

\* What is delivered was on the disk together meanwhile, but for what was absent.
LEMMA Delivers ==
    ASSUME Inspection, NEW contents, C!Deliver(contents),
           NEW d \in since, \A f \in C!SourceFiles : contents[f] # d[f] => Lacked(f)
    PROVE  C!PresentFilesAreSnapshot' /\ callerAt' \in [Callers -> CallerStates]
<1>1. callerAt' \in [Callers -> CallerStates]
  BY DEF C!Deliver, Inspection, CapTypes, CallerStates
<1>2. files' = [c \in Callers |-> IF c \in C!Inspecting THEN [got |-> contents, of |-> since]
                                  ELSE files[c]]
  BY DEF C!Deliver
<1>3. ASSUME NEW c \in Callers, files'[c] # None
      PROVE  \E e \in files'[c].of : \A f \in C!SourceFiles :
               files'[c].got[f] # e[f] => \E g \in files'[c].of : g[f] = 0
  <2>1. CASE c \in C!Inspecting
    <3>1. files'[c].got = contents /\ files'[c].of = since
      BY <1>2, <2>1
    <3> QED
      BY <3>1 DEF Lacked
  <2>2. CASE c \notin C!Inspecting
    BY <1>2, <1>3, <2>2 DEF Inspection, C!PresentFilesAreSnapshot
  <2> QED
    BY <2>1, <2>2
<1> QED
  BY <1>1, <1>3 DEF C!PresentFilesAreSnapshot

LEMMA ReadSignatureStep == Inspection /\ C!ReadSignature => Inspection'
<1> SUFFICES ASSUME Inspection, C!ReadSignature PROVE Inspection'
  OBVIOUS
<1> USE CapConstants DEF Inspection
<1>1. /\ step = "before" /\ next <= NumFiles /\ before' = Append(before, disk[next])
      /\ next' = next + 1
      /\ UNCHANGED <<disk, fileWrites, time, step, attempt, seen, after, cache, since,
                     callerAt, files>>
  BY DEF C!ReadSignature
<1>2. /\ next \in C!SourceFiles /\ disk[next] \in Versions /\ before \in Seq(Versions)
      /\ Len(before) = next - 1
  BY <1>1 DEF CapTypes, DiskStates, Reading
<1>3. /\ before' \in Seq(Versions) /\ Len(before') = next /\ before'[next] = disk[next]
      /\ \A f \in 1 .. next - 1 : before'[f] = before[f]
  BY <1>1, <1>2
<1>4. CapTypes' /\ Reading' /\ C!PresentFilesAreSnapshot'
  <2>1. CapTypes'
    BY <1>1, <1>2, <1>3 DEF CapTypes
  <2>2. Reading'
    BY <1>1, <1>2, <1>3 DEF Reading, CapTypes
  <2>3. C!PresentFilesAreSnapshot'
    BY <1>1 DEF C!PresentFilesAreSnapshot
  <2> QED
    BY <2>1, <2>2, <2>3
<1>5. ReadsTrail'
  <2>1. Past(disk[next]) /\ (disk[next] = 0 => Lacked(next))
    BY <1>1, <1>2 DEF CapTypes, Past, Reading, Lacked
  <2>2. \A f \in 1 .. next : Past(before'[f]) /\ (before'[f] = 0 => Lacked(f))
    BY <1>1, <1>2, <1>3, <2>1 DEF ReadsTrail
  <2> QED
    BY <1>1, <1>3, <2>2 DEF ReadsTrail, Past, Lacked
<1>6. CacheTrails'
  <2>1. SUFFICES ASSUME cache # C!Nothing, ~ Together(cache.sign)
                 PROVE  \E f \in C!SourceFiles :
                          IF f < next + 1 THEN before'[f] # cache.sign[f]
                          ELSE Gone(cache.sign[f], f)
    BY <1>1 DEF CacheTrails, Gone, Past, Together
  <2>2. PICK f \in C!SourceFiles :
          IF f < next THEN before[f] # cache.sign[f] ELSE Gone(cache.sign[f], f)
    BY <1>1, <2>1 DEF CacheTrails
  <2>3. CASE f < next
    BY <1>2, <1>3, <2>2, <2>3
  <2>4. CASE f = next
    BY <1>2, <1>3, <2>2, <2>4 DEF Gone
  <2>5. CASE f > next
    BY <1>2, <2>2, <2>5
  <2> QED
    BY <1>2, <2>3, <2>4, <2>5
<1> QED
  BY <1>4, <1>5, <1>6

LEMMA SignatureReadStep == Inspection /\ C!SignatureRead => Inspection'
<1> SUFFICES ASSUME Inspection, C!SignatureRead PROVE Inspection'
  OBVIOUS
<1> USE CapConstants DEF Inspection
<1>1. /\ step = "before" /\ next = NumFiles + 1 /\ Len(before) = NumFiles
      /\ seen = C!Nothing /\ after = C!Nothing /\ disk \in since
      /\ UNCHANGED <<disk, fileWrites, time, cache>>
  BY DEF C!SignatureRead, Reading, CapTypes
<1>2. \A f \in C!SourceFiles : /\ before[f] \in Nat /\ Past(before[f])
                               /\ before[f] = 0 => Lacked(f)
  BY <1>1, SignaturesRead DEF ReadsTrail
<1>3. CASE cache # C!Nothing /\ cache.sign = before
  <2>1. C!Deliver(cache.got)
    BY <1>3 DEF C!SignatureRead
  <2>2. PICK d \in since : \A f \in C!SourceFiles : cache.sign[f] > 0 => d[f] = cache.sign[f]
    BY <1>1, <1>3 DEF CacheTrails, Together
  <2>3. ASSUME NEW f \in C!SourceFiles, cache.got[f] # d[f] PROVE Lacked(f)
    <3>1. cache.sign[f] > 0 => cache.got[f] = cache.sign[f]
      BY <1>3 DEF CacheTrails
    <3>2. before[f] = 0
      BY <1>2, <1>3, <2>2, <2>3, <3>1
    <3> QED
      BY <1>2, <3>2
  <2>4. C!PresentFilesAreSnapshot' /\ callerAt' \in [Callers -> CallerStates]
    BY <2>1, <2>3, Delivers
  <2>5. /\ step' = "off" /\ since' = {} /\ next' = 1 /\ attempt' = 1
        /\ before' = C!Nothing /\ seen' = C!Nothing /\ after' = C!Nothing
    BY <2>1 DEF C!Deliver
  <2>6. CacheTrails' /\ cache' \in Inspections
    BY <1>1, <1>3, <2>5, CacheFrame, SignaturesRead
  <2> QED
    BY <1>1, <2>4, <2>5, <2>6, Stops
<1>4. CASE ~ (cache # C!Nothing /\ cache.sign = before)
  <2>1. /\ step' = "read" /\ next' = 1 /\ next' <= NumFiles
        /\ UNCHANGED <<attempt, before, seen, after, since, callerAt, files>>
    BY <1>4 DEF C!SignatureRead, C!Goes
  <2>2. CapTypes' /\ Reading' /\ C!PresentFilesAreSnapshot'
    BY <1>1, <2>1 DEF CapTypes, Reading, C!PresentFilesAreSnapshot, C!Nothing
  <2>3. CacheTrails'
    BY <1>1, <2>1, CacheFrame
  <2>4. Together(before) \/ \E f \in C!SourceFiles : Gone(before[f], f)
    BY <1>1 DEF Together, Gone
  <2>5. ReadsTrail'
    BY <1>1, <1>2, <2>1, <2>4 DEF ReadsTrail, Past, Lacked, Together, Gone, Differs
  <2> QED
    BY <2>2, <2>3, <2>5
<1> QED
  BY <1>3, <1>4

LEMMA ReadFileStep == Inspection /\ C!ReadFile => Inspection'
<1> SUFFICES ASSUME Inspection, C!ReadFile PROVE Inspection'
  OBVIOUS
<1> USE CapConstants DEF Inspection
<1>1. /\ step = "read" /\ next <= NumFiles /\ seen' = Append(seen, disk[next])
      /\ UNCHANGED <<disk, fileWrites, time, attempt, before, after, cache, since,
                     callerAt, files>>
      /\ IF next < NumFiles THEN next' = next + 1 /\ step' = "read"
         ELSE next' = 1 /\ step' = "after"
  BY DEF C!ReadFile, C!Goes
<1>2. /\ next \in C!SourceFiles /\ disk[next] \in Versions /\ seen \in Seq(Versions)
      /\ Len(seen) = next - 1
  BY <1>1 DEF CapTypes, DiskStates, Reading
<1>3. /\ seen' \in Seq(Versions) /\ Len(seen') = next /\ seen'[next] = disk[next]
      /\ \A f \in 1 .. next - 1 : seen'[f] = seen[f]
  BY <1>1, <1>2
<1>4. CapTypes' /\ C!PresentFilesAreSnapshot'
  <2>1. CapTypes'
    BY <1>1, <1>2, <1>3 DEF CapTypes
  <2>2. C!PresentFilesAreSnapshot'
    BY <1>1 DEF C!PresentFilesAreSnapshot
  <2> QED
    BY <2>1, <2>2
<1>5. Reading'
  BY <1>1, <1>2, <1>3 DEF Reading, CapTypes, C!Nothing
<1>6. CacheTrails'
  BY <1>1, CacheFrame
<1>7. \A f \in C!SourceFiles : Differs(f) = Gone(before[f], f) /\ Differs(f)' = Gone(before[f], f)
  BY <1>1, <1>2 DEF Differs, Gone
<1>8. ASSUME NEW f \in C!SourceFiles, f <= next
      PROVE  before[f] = 0 \/ seen'[f] = before[f] \/ Gone(before[f], f)
  <2>1. CASE f < next
    <3>1. before[f] = 0 \/ seen[f] = before[f] \/ Differs(f)
      BY <1>1, <1>2, <2>1 DEF ReadsTrail
    <3> QED
      BY <1>2, <1>3, <1>7, <2>1, <3>1
  <2>2. CASE f = next
    <3>1. before[f] \in Nat
      BY <1>1, SignaturesRead
    <3> QED
      BY <1>3, <2>2, <3>1 DEF Gone
  <2> QED
    BY <1>2, <1>8, <2>1, <2>2
<1>9. ReadsTrail'
  <2>1. \A f \in 1 .. Len(before') : Past(before[f])' /\ (before'[f] = 0 => Lacked(f)')
    BY <1>1 DEF ReadsTrail, Past, Lacked
  <2>2. \A f \in C!SourceFiles :
          (step' = "read" /\ f >= next') \/ before[f] = 0 \/ seen'[f] = before[f] \/ Differs(f)'
    BY <1>1, <1>2, <1>7, <1>8
  <2>3. Together(before)' \/ \E f \in C!SourceFiles : Differs(f)'
    BY <1>1, <1>7 DEF ReadsTrail, Together
  <2> QED
    BY <1>1, <2>1, <2>2, <2>3 DEF ReadsTrail
<1> QED
  BY <1>4, <1>5, <1>6, <1>9

LEMMA ReadSignatureAgainStep == Inspection /\ C!ReadSignatureAgain => Inspection'
<1> SUFFICES ASSUME Inspection, C!ReadSignatureAgain PROVE Inspection'
  OBVIOUS
<1> USE CapConstants DEF Inspection
<1>1. /\ step = "after" /\ next <= NumFiles /\ after' = Append(after, disk[next])
      /\ next' = next + 1
      /\ UNCHANGED <<disk, fileWrites, time, step, attempt, before, seen, cache, since,
                     callerAt, files>>
  BY DEF C!ReadSignatureAgain
<1>2. /\ next \in C!SourceFiles /\ disk[next] \in Versions /\ after \in Seq(Versions)
      /\ Len(after) = next - 1
  BY <1>1 DEF CapTypes, DiskStates, Reading
<1>3. /\ after' \in Seq(Versions) /\ Len(after') = next /\ after'[next] = disk[next]
      /\ \A f \in 1 .. next - 1 : after'[f] = after[f]
  BY <1>1, <1>2
<1>4. CapTypes' /\ Reading' /\ C!PresentFilesAreSnapshot'
  <2>1. CapTypes'
    BY <1>1, <1>2, <1>3 DEF CapTypes
  <2>2. Reading'
    BY <1>1, <1>2, <1>3 DEF Reading, CapTypes
  <2>3. C!PresentFilesAreSnapshot'
    BY <1>1 DEF C!PresentFilesAreSnapshot
  <2> QED
    BY <2>1, <2>2, <2>3
<1>5. CacheTrails'
  BY <1>1, CacheFrame
<1>6. ASSUME NEW f \in C!SourceFiles, Differs(f) PROVE Differs(f)'
  <2>1. CASE f < next
    BY <1>1, <1>2, <1>3, <1>6, <2>1 DEF Differs
  <2>2. CASE f = next
    BY <1>1, <1>2, <1>3, <1>6, <2>2 DEF Differs, Gone
  <2>3. CASE f > next
    BY <1>1, <1>2, <1>6, <2>3 DEF Differs, Gone
  <2> QED
    BY <1>2, <2>1, <2>2, <2>3
<1>7. ReadsTrail'
  <2>1. \A f \in 1 .. Len(before') : Past(before[f])' /\ (before'[f] = 0 => Lacked(f)')
    BY <1>1 DEF ReadsTrail, Past, Lacked
  <2>2. \A f \in C!SourceFiles : before[f] = 0 \/ seen[f] = before[f] \/ Differs(f)'
    BY <1>1, <1>6 DEF ReadsTrail
  <2>3. Together(before)' \/ \E f \in C!SourceFiles : Differs(f)'
    BY <1>1, <1>6 DEF ReadsTrail, Together
  <2> QED
    BY <1>1, <2>1, <2>2, <2>3 DEF ReadsTrail
<1> QED
  BY <1>4, <1>5, <1>7

LEMMA InspectedStep == Inspection /\ C!Inspected => Inspection'
<1> SUFFICES ASSUME Inspection, C!Inspected PROVE Inspection'
  OBVIOUS
<1> USE CapConstants DEF Inspection
<1>1. /\ step = "after" /\ next = NumFiles + 1 /\ before = after
      /\ cache' = [sign |-> before, got |-> seen]
      /\ C!Deliver(seen) /\ UNCHANGED <<disk, fileWrites, time>>
  BY DEF C!Inspected, C!Undisturbed, Reading, CapTypes
<1>2. cache' \in Inspections
  BY <1>1, WholeRead DEF CapTypes, Reading, Inspections
<1>3. \A f \in C!SourceFiles : /\ before[f] \in Nat /\ Past(before[f])
                               /\ before[f] = 0 => Lacked(f)
                               /\ before[f] > 0 => seen[f] = before[f]
  <2>1. \A f \in C!SourceFiles : ~ Differs(f)
    BY <1>1 DEF Differs
  <2> QED
    BY <1>1, <2>1, SignaturesRead DEF ReadsTrail
<1>4. PICK d \in since : \A f \in C!SourceFiles : before[f] > 0 => d[f] = before[f]
  <2>1. \A f \in C!SourceFiles : ~ Differs(f)
    BY <1>1 DEF Differs
  <2> QED
    BY <1>1, <2>1 DEF ReadsTrail, Together
<1>5. \A f \in C!SourceFiles : seen[f] # d[f] => Lacked(f)
  BY <1>3, <1>4
<1>6. C!PresentFilesAreSnapshot' /\ callerAt' \in [Callers -> CallerStates]
  BY <1>1, <1>5, Delivers
<1>7. /\ step' = "off" /\ since' = {} /\ next' = 1 /\ attempt' = 1
      /\ before' = C!Nothing /\ seen' = C!Nothing /\ after' = C!Nothing
  BY <1>1 DEF C!Deliver
<1>8. CacheTrails'
  BY <1>1, <1>3, <1>7 DEF CacheTrails, Past
<1> QED
  BY <1>1, <1>2, <1>6, <1>7, <1>8, Stops

LEMMA RetryStep == Inspection /\ C!Retry => Inspection'
<1> SUFFICES ASSUME Inspection, C!Retry PROVE Inspection'
  OBVIOUS
<1> USE CapConstants DEF Inspection
<1>1. /\ step = "after" /\ step' = "before" /\ next' = 1 /\ attempt' = attempt + 1
      /\ attempt < Attempts /\ before' = C!Nothing /\ seen' = C!Nothing /\ after' = C!Nothing
      /\ UNCHANGED <<disk, fileWrites, time, cache, since, callerAt, files>>
  BY DEF C!Retry, C!Goes
<1>2. CapTypes' /\ Reading' /\ C!PresentFilesAreSnapshot' /\ disk \in since'
  BY <1>1 DEF CapTypes, Reading, C!PresentFilesAreSnapshot, C!Nothing
<1>3. CacheTrails' /\ ReadsTrail'
  BY <1>1, <1>2, Starts DEF ReadsTrail, C!Nothing
<1> QED
  BY <1>2, <1>3

LEMMA InspectionStep == Inspection /\ C!Next => Inspection'
<1> SUFFICES ASSUME Inspection, C!Next PROVE Inspection'
  OBVIOUS
<1> USE CapConstants
<1>1. CASE C!Tick
  BY <1>1, InspectionFrame DEF C!Tick, C!thread, Inspection, CapTypes, C!PresentFilesAreSnapshot
<1>2. ASSUME NEW c \in Callers, C!FromFiles(c) \/ C!Probe(c) PROVE Inspection'
  <2>1. UNCHANGED <<disk, fileWrites, time, step, next, attempt, before, seen, after, cache,
                    since>> /\ files' = [files EXCEPT ![c] = None]
    BY <1>2 DEF C!FromFiles, C!Probe, C!thread
  <2>2. callerAt' \in [Callers -> CallerStates]
    BY <1>2 DEF C!FromFiles, C!Probe, Inspection, CapTypes, CallerStates
  <2>3. \A d \in Callers : files'[d] # None => files'[d] = files[d]
    BY <2>1
  <2>4. C!PresentFilesAreSnapshot'
    BY <2>3 DEF Inspection, C!PresentFilesAreSnapshot
  <2> QED
    BY <2>1, <2>2, <2>4, InspectionFrame DEF Inspection, CapTypes
<1>3. CASE C!GivesUp
  <2>1. callerAt' \in [Callers -> CallerStates] /\ C!PresentFilesAreSnapshot'
    BY <1>3 DEF C!GivesUp, Inspection, CapTypes, CallerStates, C!PresentFilesAreSnapshot
  <2>2. CacheTrails' /\ (cache' = C!Nothing \/ cache' \in Inspections)
    BY <1>3, CacheFrame DEF C!GivesUp, Inspection, CapTypes
  <2> QED
    BY <1>3, <2>1, <2>2, Stops DEF C!GivesUp
<1>4. CASE C!Looks
  BY <1>4, InspectionFrame DEF C!Looks, C!thread, Inspection, CapTypes, C!PresentFilesAreSnapshot
<1>5. CASE C!Probed
  <2>1. callerAt' \in [Callers -> CallerStates] /\ C!PresentFilesAreSnapshot'
    BY <1>5 DEF C!Probed, Inspection, CapTypes, CallerStates, C!PresentFilesAreSnapshot
  <2> QED
    BY <1>5, <2>1, InspectionFrame DEF C!Probed, C!thread, Inspection, CapTypes
<1> QED
  BY <1>1, <1>2, <1>3, <1>4, <1>5, WriteStep, AskStep, ReadSignatureStep, SignatureReadStep,
     ReadFileStep, ReadSignatureAgainStep, InspectedStep, RetryStep DEF C!Next

-------------------------------------------------------------------------------
(* The probes.                                                             *)

\* The steps of an inspection are none of a probe.
LEMMA ProbesFrame ==
    ASSUME ProbesInTime, C!ProbeIsRecent, C!Probing' = C!Probing,
           UNCHANGED <<time, asked, probe, known>>,
           age' \in [Callers -> {None} \cup Nat],
           \A c \in Callers : age'[c] = None \/ age'[c] = age[c]
    PROVE  ProbesInTime' /\ C!ProbeIsRecent'
BY DEF ProbesInTime, C!ProbeIsRecent

LEMMA TickStep ==
    ASSUME CapTypes, ProbesInTime, C!ProbeIsRecent, C!Tick
    PROVE  ProbesInTime' /\ C!ProbeIsRecent'
<1> USE CapConstants
<1>1. /\ time' = time + 1 /\ UNCHANGED <<asked, probe, known, age, callerAt>>
      /\ C!Probing # {} => time < probe.began + ProbeTime
  BY DEF C!Tick
<1>2. C!Probing' = C!Probing
  BY <1>1 DEF C!Probing
<1>3. probe # None => probe.began \in Nat /\ probe.looked \in Nat \cup {None}
  BY DEF ProbesInTime, Outcomes
<1>4. known # None => known.looked \in Nat /\ known.until \in Nat
  BY DEF ProbesInTime, Stored
<1>5. time \in Nat
  BY DEF CapTypes
<1>6. ProbesInTime'
  BY SMTT(30), <1>1, <1>2, <1>3, <1>4, <1>5 DEF ProbesInTime
<1> QED
  BY <1>1, <1>6 DEF C!ProbeIsRecent

LEMMA ProbeStep ==
    ASSUME CapTypes, ProbesInTime, C!ProbeIsRecent, NEW c \in Callers, C!Probe(c)
    PROVE  ProbesInTime' /\ C!ProbeIsRecent'
<1> USE CapConstants
<1>1. callerAt \in [Callers -> CallerStates] /\ callerAt[c] = "deciding" /\ time \in Nat
      /\ UNCHANGED <<time, known>>
  BY DEF C!Probe, CapTypes
<1>2. CASE C!Known
  <2>1. /\ callerAt' = [callerAt EXCEPT ![c] = "idle"]
        /\ age' = [age EXCEPT ![c] = time - known.looked] /\ UNCHANGED <<asked, probe>>
    BY <1>2 DEF C!Probe
  <2>2. C!Probing' = C!Probing
    BY <1>1, <2>1 DEF C!Probing
  <2>3. /\ known.looked \in Nat /\ known.until \in Nat /\ known.until > time
        /\ known.looked <= time /\ known.until <= known.looked + Ttl + ProbeTime
    BY <1>2 DEF C!Known, ProbesInTime, Stored
  <2>4. time - known.looked \in Nat /\ time - known.looked <= Ttl + ProbeTime
    BY SMTT(30), <1>1, <2>3
  <2>5. age' \in [Callers -> {None} \cup Nat]
    BY <2>1, <2>4 DEF ProbesInTime
  <2>6. ProbesInTime'
    BY <1>1, <2>1, <2>2, <2>5 DEF ProbesInTime
  <2>7. C!ProbeIsRecent'
    BY <2>1, <2>4 DEF C!ProbeIsRecent, ProbesInTime
  <2> QED
    BY <2>6, <2>7
<1>3. CASE ~C!Known
  <2>1. /\ callerAt' = [callerAt EXCEPT ![c] = "probing"] /\ UNCHANGED age
        /\ asked' = [asked EXCEPT ![c] = time]
        /\ probe' = IF probe = None THEN [began |-> time, looked |-> None] ELSE probe
    BY <1>3 DEF C!Probe
  <2>2. C!Probing' = C!Probing \cup {c}
    BY <1>1, <2>1 DEF C!Probing
  <2>3. \A d \in C!Probing : asked'[d] = asked[d]
    BY <1>1, <2>1 DEF C!Probing
  <2>4. CASE probe = None
    <3>1. /\ probe' \in Outcomes /\ probe' # None /\ probe'.began = time
          /\ probe'.looked = None
      BY <1>1, <2>1, <2>4 DEF Outcomes
    <3>2. C!Probing = {}
      BY <2>4 DEF ProbesInTime
    <3>3. C!Probing' = {c} /\ asked'[c] = time
      BY <2>1, <2>2, <3>2 DEF ProbesInTime
    <3> QED
      BY <1>1, <2>1, <3>1, <3>3 DEF ProbesInTime, C!ProbeIsRecent
  <2>5. CASE probe # None
    BY <1>1, <2>1, <2>2, <2>3, <2>5 DEF ProbesInTime, C!ProbeIsRecent
  <2> QED
    BY <2>4, <2>5
<1> QED
  BY <1>2, <1>3

LEMMA LooksStep ==
    ASSUME CapTypes, ProbesInTime, C!ProbeIsRecent, C!Looks
    PROVE  ProbesInTime' /\ C!ProbeIsRecent'
<1> USE CapConstants
<1>1. /\ probe # None /\ UNCHANGED <<time, asked, known, age, callerAt>>
      /\ probe' = [probe EXCEPT !.looked = time] /\ time \in Nat
  BY DEF C!Looks, CapTypes
<1>2. probe \in Outcomes /\ C!Probing' = C!Probing
  BY <1>1 DEF ProbesInTime, C!Probing
<1>3. probe' \in Outcomes /\ probe'.began = probe.began /\ probe'.looked = time
  BY <1>1, <1>2 DEF Outcomes
<1> HIDE <1>1
<1>4. UNCHANGED <<time, asked, known, age>> /\ probe # None /\ time \in Nat
  BY <1>1
<1> QED
  BY <1>2, <1>3, <1>4 DEF ProbesInTime, C!ProbeIsRecent

LEMMA ProbedStep ==
    ASSUME CapTypes, ProbesInTime, C!ProbeIsRecent, C!Probed
    PROVE  ProbesInTime' /\ C!ProbeIsRecent'
<1> USE CapConstants
<1>1. /\ probe \in Outcomes /\ probe.looked \in Nat /\ probe.looked <= time
      /\ probe.began \in Nat /\ probe.began <= probe.looked /\ time <= probe.began + ProbeTime
      /\ time \in Nat /\ \A c \in C!Probing : asked[c] \in Nat /\ asked[c] <= time
  BY DEF C!Probed, ProbesInTime, CapTypes, Outcomes
<1>2. C!Probing' = {}
  BY DEF C!Probed, C!Probing, CapTypes
<1>3. UNCHANGED time /\ probe' = None /\ asked' \in [Callers -> {None} \cup Nat]
  BY DEF C!Probed, C!Forgotten
<1>4. time - probe.looked \in Nat /\ time - probe.looked <= Ttl + ProbeTime
  BY <1>1
<1>5. age' \in [Callers -> {None} \cup Nat] /\ C!ProbeIsRecent'
  <2>1. CASE age' = age
    BY <2>1 DEF ProbesInTime, C!ProbeIsRecent
  <2>2. CASE age' = [c \in Callers |-> IF c \in C!Probing THEN time - probe.looked ELSE age[c]]
    BY <1>4, <2>2 DEF ProbesInTime, C!ProbeIsRecent
  <2> QED
    BY <2>1, <2>2 DEF C!Probed
<1>6. /\ known' \in {None} \cup Stored
      /\ known' # None =>
           known'.looked <= time /\ known'.until <= known'.looked + Ttl + ProbeTime
  <2>1. CASE known' = known
    BY <2>1 DEF ProbesInTime
  <2>2. ASSUME NEW c \in C!Probing,
               known' = [until |-> asked[c] + Ttl, looked |-> probe.looked]
        PROVE  /\ known' \in Stored /\ known'.looked <= time
               /\ known'.until <= known'.looked + Ttl + ProbeTime
    <3>1. asked[c] \in Nat /\ asked[c] <= time /\ Ttl \in Nat /\ ProbeTime \in Nat
      BY <1>1, CapConstants
    <3>2. known'.until = asked[c] + Ttl /\ known'.looked = probe.looked
      BY <2>2
    <3>3. asked[c] + Ttl \in Nat /\ asked[c] + Ttl <= probe.looked + Ttl + ProbeTime
      BY SMTT(30), <1>1, <3>1
    <3>4. known' \in Stored
      BY <1>1, <2>2, <3>3 DEF Stored
    <3> QED
      BY <1>1, <3>2, <3>3, <3>4
  <2> QED
    BY <2>1, <2>2 DEF C!Probed
<1> QED
  BY <1>2, <1>3, <1>5, <1>6 DEF ProbesInTime

LEMMA ProbesStep ==
    ASSUME CapTypes, ProbesInTime, C!ProbeIsRecent, C!Next
    PROVE  ProbesInTime' /\ C!ProbeIsRecent'
<1> USE CapConstants
<1>1. /\ callerAt \in [Callers -> CallerStates] /\ age \in [Callers -> {None} \cup Nat]
  BY DEF CapTypes, ProbesInTime
<1>2. ASSUME NEW f \in C!SourceFiles, C!Write(f) PROVE ProbesInTime' /\ C!ProbeIsRecent'
  BY <1>1, <1>2, ProbesFrame DEF C!Write, C!Probing
<1>3. ASSUME NEW c \in Callers, C!Ask(c) \/ C!FromFiles(c)
      PROVE  ProbesInTime' /\ C!ProbeIsRecent'
  <2>1. C!Probing' = C!Probing
    BY <1>1, <1>3 DEF C!Ask, C!FromFiles, C!Probing
  <2>2. /\ UNCHANGED <<time, asked, probe, known>> /\ age' \in [Callers -> {None} \cup Nat]
        /\ \A d \in Callers : age'[d] = None \/ age'[d] = age[d]
    BY <1>1, <1>3 DEF C!Ask, C!FromFiles
  <2> QED
    BY <2>1, <2>2, ProbesFrame
<1>4. CASE \/ C!ReadSignature \/ C!ReadFile \/ C!ReadSignatureAgain \/ C!Retry
  BY <1>1, <1>4, ProbesFrame
     DEF C!ReadSignature, C!ReadFile, C!ReadSignatureAgain, C!Retry, C!Probing
<1>5. CASE \/ C!SignatureRead \/ C!Inspected \/ C!GivesUp
  <2>1. C!Probing' = C!Probing
    BY <1>1, <1>5
       DEF C!SignatureRead, C!Inspected, C!GivesUp, C!Deliver, C!Probing, C!Inspecting
  <2> QED
    BY <1>1, <1>5, <2>1, ProbesFrame DEF C!SignatureRead, C!Inspected, C!GivesUp
<1> QED
  BY <1>2, <1>3, <1>4, <1>5, TickStep, ProbeStep, LooksStep, ProbedStep DEF C!Next

LEMMA CapStep == CapInv /\ C!Next => CapInv'
BY InspectionStep, ProbesStep DEF CapInv, Inspection

LEMMA CapStays == CapInv /\ UNCHANGED capabilitiesVars => CapInv'
BY DEF CapInv, capabilitiesVars, CapTypes, Reading, CacheTrails, ReadsTrail, Past,
       Together, Lacked, Differs, Gone, C!PresentFilesAreSnapshot, ProbesInTime, C!Probing,
       C!ProbeIsRecent

\* The files a request is told of were on disk together while its inspection ran, but for those
\* that were absent at a moment of it, although they are read one after the other beside their
\* writers, and although what is cached is recognized by signatures that are read so too; no
\* probe result is older than the time to live and the length of a probe.
THEOREM CapabilitiesAreConsistent == AllSpec => []ProbesSound
<1>1. AllInit => CapInv
  BY CapBegins DEF AllInit
<1>2. CapInv /\ [AllNext]_allVars => CapInv'
  BY CapStep, CapStays DEF AllNext, allVars
<1>3. CapInv => ProbesSound
  <2>1. CapInv => C!TypeOK
    BY DEF CapInv, CapTypes, Reading, C!TypeOK, DiskStates, Versions, CallerStates
  <2> QED
    BY <2>1 DEF CapInv, ProbesSound
<1> QED
  BY <1>1, <1>2, <1>3, PTL DEF AllSpec

-------------------------------------------------------------------------------
(* HealthRoster, with its purges: the theorems of HealthRoster_proofs, for *)
(* the instance of MCOperations. An operator of the one instance is that   *)
(* of the other.                                                           *)

Roster == INSTANCE HealthRoster_proofs
            WITH Devices <- MCRosterDevices, NumObservations <- 3, Sampled <- MCSampled,
                 MaxRetained <- 2, Requests <- {}, Actions <- {}, CliStates <- MCCliStates,
                 Purges <- MCPurges, Processes <- MCProcesses, MaxClock <- 3,
                 clock <- rosterClock, process <- processing

LEMMA SameConstants ==
    /\ P!Observations = 1..3 /\ Roster!Observations = 1..3
    /\ P!States = Roster!States /\ P!Enrolments = Roster!Enrolments
    /\ P!Idle = Roster!Idle
    /\ \A S : P!Cardinality(S) = Roster!Cardinality(S)
    /\ \A S : P!IsFiniteSet(S) <=> Roster!IsFiniteSet(S)
BY DEF P!Observations, Roster!Observations, P!States, Roster!States, P!Enrolments,
       Roster!Enrolments, P!Idle, Roster!Idle, P!Cardinality, Roster!Cardinality,
       P!IsFiniteSet, Roster!IsFiniteSet

LEMMA SameAbsences == \A o, r : Roster!PriorAbsences(o, r) = P!PriorAbsences(o, r)
BY SameConstants
   DEF Roster!PriorAbsences, P!PriorAbsences, Roster!Assessed, P!Assessed,
       Roster!Observations, P!Observations

LEMMA SameAssessments ==
    \A o, s, r, v, b, t : Roster!Assessment(o, s, r, v, b, t) = P!Assessment(o, s, r, v, b, t)
BY SameAbsences DEF Roster!Assessment, P!Assessment

LEMMA SameRetention == \A t : Roster!Kept(t) = P!Kept(t)
BY SameConstants DEF Roster!Kept, P!Kept, Roster!Observations, P!Observations

LEMMA SameLatest == \A t : Roster!Latest(t) = P!Latest(t)
BY DEF Roster!Latest, P!Latest, Roster!Observations, P!Observations

LEMMA SameStore ==
    /\ \A a : /\ Roster!Prefer(a) = P!Prefer(a) /\ Roster!Row(a) = P!Row(a)
             /\ Roster!Insertable(a) = P!Insertable(a) /\ Roster!Stored(a) = P!Stored(a)
             /\ Roster!UpToDate(a) = P!UpToDate(a)
    /\ \A a, b : Roster!Preferable(a, b) = P!Preferable(a, b)
BY DEF Roster!Conflicts, P!Conflicts, Roster!Preferable, P!Preferable, Roster!Prefer,
       P!Prefer, Roster!Row, P!Row, Roster!Insertable, P!Insertable, Roster!Stored, P!Stored,
       Roster!UpToDate, P!UpToDate

LEMMA SameVariables ==
    /\ Roster!evidence = P!evidence /\ Roster!results = P!results
    /\ Roster!rosterVars = P!rosterVars /\ Roster!requests = P!requests
    /\ Roster!evidence' = P!evidence' /\ Roster!results' = P!results'
    /\ Roster!rosterVars' = P!rosterVars' /\ Roster!requests' = P!requests'
BY DEF Roster!evidence, P!evidence, Roster!results, P!results, Roster!rosterVars,
       P!rosterVars, Roster!requests, P!requests

\* The steps of health processing.
SaveForm(p, row, pref, kept, last, idle) ==
    LET a == processing[p].result
        new == ingested[a.id.obs] = 0
        times == [ingested EXCEPT ![a.id.obs] = IF new THEN a.at ELSE @]
    IN  /\ processing[p].step = "ready"
        /\ ingested' = [q \in 1..3 |-> IF q \in kept THEN times[q] ELSE 0]
        /\ samples' = [q \in 1..3 |-> IF q \notin kept THEN {}
                                      ELSE IF q = a.id.obs /\ new THEN a.id.seen
                                      ELSE samples[q]]
        /\ assessments' = {b \in assessments \cup {row} : b.id.obs \in kept}
        /\ preferred' = [q \in 1..3 |-> IF q \in kept THEN pref[q] ELSE None]
        /\ current' = IF last.id.obs \in kept THEN last ELSE None
        /\ processing' = [processing EXCEPT ![p] = idle]

LEMMA SameSave == ASSUME NEW p, P!Save(p) PROVE Roster!Save(p)
<1> DEFINE a == processing[p].result
           new == ingested[a.id.obs] = 0
           times == [ingested EXCEPT ![a.id.obs] = IF new THEN a.at ELSE @]
           pref == P!Prefer(P!Row(a))
           kept == P!Kept(times)
<1>1. /\ SaveForm(p, P!Row(a), pref, kept, P!Latest(pref), P!Idle)
      /\ P!UpToDate(a) /\ (P!Insertable(a) \/ P!Stored(a))
      /\ UNCHANGED <<P!evidence, rosterClock, P!rosterVars, P!requests>>
  BY SameConstants DEF P!Save, SaveForm
<1>2. /\ P!Row(a) = Roster!Row(a) /\ pref = Roster!Prefer(Roster!Row(a))
      /\ kept = Roster!Kept(times) /\ P!Latest(pref) = Roster!Latest(pref)
      /\ P!Idle = Roster!Idle
  BY SameRetention, SameLatest, SameStore, SameConstants
<1>3. /\ Roster!UpToDate(a) /\ (Roster!Insertable(a) \/ Roster!Stored(a))
      /\ UNCHANGED <<Roster!evidence, rosterClock, Roster!rosterVars, Roster!requests>>
  BY <1>1, SameStore, SameVariables
<1> DEFINE pref2 == Roster!Prefer(Roster!Row(a))
           kept2 == Roster!Kept(times)
<1>4. SaveForm(p, Roster!Row(a), pref2, kept2, Roster!Latest(pref2), Roster!Idle)
  <2> HIDE DEF a, times, pref, kept
  <2> QED BY <1>1, <1>2
<1> QED BY <1>3, <1>4, SameConstants DEF Roster!Save, SaveForm

LEMMA SameProcessing == ASSUME NEW p, P!Processing(p) PROVE Roster!Processing(p)
<1>1. CASE P!StartProcessing(p)
  BY <1>1, SameVariables DEF P!StartProcessing, Roster!StartProcessing, Roster!Processing
<1>2. CASE P!ReadRoster(p)
  BY <1>2, SameVariables, SameAssessments
     DEF P!ReadRoster, Roster!ReadRoster, Roster!Processing
<1>3. CASE P!SaveStale(p)
  BY <1>3, SameVariables, SameStore, SameConstants
     DEF P!SaveStale, Roster!SaveStale, Roster!Processing
<1>4. CASE P!SaveFails(p)
  BY <1>4, SameVariables, SameStore DEF P!SaveFails, Roster!SaveFails, Roster!Processing
<1>5. CASE P!Save(p)
  BY <1>5, SameSave DEF Roster!Processing
<1> QED
  BY <1>1, <1>2, <1>3, <1>4, <1>5 DEF P!Processing

\* The changes of the roster.
LEMMA SameReassess == P!Reassess => Roster!Reassess
<1>1. P!Reassessment = Roster!Reassessment
  BY SameAssessments DEF P!Reassessment, Roster!Reassessment
<1>2. /\ P!Prefer(P!Reassessment) = Roster!Prefer(Roster!Reassessment)
      /\ P!Latest(preferred') = Roster!Latest(preferred')
  BY <1>1, SameStore, SameLatest
<1> QED
  BY <1>1, <1>2, SameVariables DEF P!Reassess, Roster!Reassess

LEMMA SameRows ==
    /\ \A d, s, n : P!Put(d, s, n) = Roster!Put(d, s, n)
    /\ \A S : P!Births(S) = Roster!Births(S)
    /\ \A d : P!NextRevision(d) = Roster!NextRevision(d)
    /\ \A a, d : P!Names(a, d) = Roster!Names(a, d)
BY DEF P!Put, Roster!Put, P!RevisionOf, Roster!RevisionOf, P!Births, Roster!Births,
       P!NextRevision, Roster!NextRevision, P!Names, Roster!Names

LEMMA SameChanges ==
    /\ \A d : P!SetDevice(d) => Roster!SetDevice(d)
    /\ \A S : P!ImportDevices(S) => Roster!ImportDevices(S)
<1>1. ASSUME NEW d, P!SetDevice(d) PROVE Roster!SetDevice(d)
  <2>1. PICK st \in MCCliStates :
          roster' = [roster EXCEPT ![d] =
              P!Put(d, st, IF st # "expected" \/ roster[d] = None THEN 0
                              ELSE roster[d].since)]
    BY <1>1 DEF P!SetDevice
  <2>2. roster' = [roster EXCEPT ![d] =
              Roster!Put(d, st, IF st # "expected" \/ roster[d] = None THEN 0
                                   ELSE roster[d].since)]
    BY <2>1, SameRows
  <2>3. /\ revision' = revision + 1 /\ birth' = Roster!Births({d}) /\ Roster!Reassess
        /\ UNCHANGED <<Roster!evidence, Roster!requests, processing>>
    BY <1>1, SameRows, SameReassess, SameVariables DEF P!SetDevice
  <2> QED
    BY <2>2, <2>3 DEF Roster!SetDevice
<1>2. ASSUME NEW S, P!ImportDevices(S) PROVE Roster!ImportDevices(S)
  <2> DEFINE added == {d \in S : roster[d] = None}
  <2>1. /\ added # {}
        /\ roster' = [d \in MCRosterDevices |->
                         IF d \in added THEN P!Put(d, "expected", 0) ELSE roster[d]]
        /\ revision' = revision + P!Cardinality(added) /\ birth' = P!Births(added)
        /\ P!Reassess /\ UNCHANGED <<P!evidence, P!requests, processing>>
    BY <1>2 DEF P!ImportDevices
  <2> HIDE DEF added
  <2>2. roster' = [d \in MCRosterDevices |->
                      IF d \in added THEN Roster!Put(d, "expected", 0) ELSE roster[d]]
    BY <2>1, SameRows
  <2>3. /\ revision' = revision + Roster!Cardinality(added) /\ birth' = Roster!Births(added)
        /\ Roster!Reassess /\ UNCHANGED <<Roster!evidence, Roster!requests, processing>>
    BY <2>1, SameRows, SameReassess, SameVariables, SameConstants
  <2> QED
    BY <2>1, <2>2, <2>3 DEF Roster!ImportDevices, added
<1> QED
  BY <1>1, <1>2

\* The purges.
LEMMA SameKeep == \A S : P!KeepAssessments(S) => Roster!KeepAssessments(S)
BY SameConstants, SameLatest DEF P!KeepAssessments, Roster!KeepAssessments

LEMMA SamePurges ==
    /\ \A d : P!PurgeDevice(d) => Roster!PurgeDevice(d)
    /\ \A o : P!PurgeBefore(o) => Roster!PurgeBefore(o)
    /\ P!PurgeAll => Roster!PurgeAll
<1>1. ASSUME NEW d, P!PurgeDevice(d) PROVE Roster!PurgeDevice(d)
  <2> DEFINE affected == {o \in 1..3 : \/ d \in samples[o]
                                       \/ \E a \in assessments : a.id.obs = o /\ P!Names(a, d)}
             affected2 == {o \in 1..3 : \/ d \in samples[o]
                                        \/ \E a \in assessments :
                                              a.id.obs = o /\ Roster!Names(a, d)}
  <2>1. affected = affected2
    BY SameRows
  <2>2. /\ "device" \in MCPurges /\ (affected # {} \/ roster[d] # None)
        /\ P!KeepAssessments((1..3) \ affected)
        /\ samples' = [o \in 1..3 |-> samples[o] \ {d}]
        /\ roster' = [roster EXCEPT ![d] = None]
        /\ revision' = P!NextRevision(d)
        /\ receipts' = {r \in receipts : sent[r].device # d}
        /\ UNCHANGED <<P!evidence, rosterClock, ingested, birth, sent, acted, processing>>
    BY <1>1, SameConstants DEF P!PurgeDevice
  <2> HIDE DEF affected, affected2
  <2>3. /\ (affected2 # {} \/ roster[d] # None)
        /\ Roster!KeepAssessments((1..3) \ affected2)
        /\ revision' = Roster!NextRevision(d)
        /\ UNCHANGED <<Roster!evidence, rosterClock, ingested, birth, sent, acted, processing>>
    BY <2>1, <2>2, SameRows, SameKeep, SameVariables
  <2> QED
    BY <2>2, <2>3, SameConstants DEF Roster!PurgeDevice, affected2
<1>2. ASSUME NEW o, P!PurgeBefore(o) PROVE Roster!PurgeBefore(o)
  BY <1>2, SameConstants, SameKeep, SameVariables DEF P!PurgeBefore, Roster!PurgeBefore
<1>3. ASSUME P!PurgeAll PROVE Roster!PurgeAll
  BY <1>3, SameConstants, SameKeep, SameVariables DEF P!PurgeAll, Roster!PurgeAll
<1> QED
  BY <1>1, <1>2, <1>3

LEMMA SameNext == P!Next => Roster!Next
<1>1. P!Collect => Roster!Collect
  BY SameConstants, SameVariables DEF P!Collect, Roster!Collect
<1> QED
  BY <1>1, SameConstants, SameProcessing, SameChanges, SamePurges DEF P!Next, Roster!Next

LEMMA SameInit == P!Init => Roster!Init
BY DEF P!Init, Roster!Init, P!Idle, Roster!Idle, P!Observations, Roster!Observations

LEMMA SameProperties ==
    /\ Roster!TypeOK => P!TypeOK
    /\ Roster!CurrentIsLatest => P!CurrentIsLatest
<1>1. Roster!TypeOK => P!TypeOK
  BY SameConstants DEF Roster!TypeOK, P!TypeOK
<1>2. Roster!CurrentIsLatest => P!CurrentIsLatest
  BY SameStore DEF Roster!CurrentIsLatest, P!CurrentIsLatest
<1> QED
  BY <1>1, <1>2

LEMMA RosterAssumptions == Roster!NoneAssumption /\ Roster!RosterAssumption
<1>1. P!NoneAssumption /\ P!RosterAssumption
  BY OperationsAssumptions
<1>2. P!Conclusions = Roster!Conclusions
  BY SameConstants DEF P!Conclusions, Roster!Conclusions, P!Identities, Roster!Identities
<1> QED
  BY <1>1, <1>2, SameConstants
     DEF P!NoneAssumption, Roster!NoneAssumption, P!RosterAssumption, Roster!RosterAssumption

\* Through every retention and purge, and every change of the roster made by the command line
\* meanwhile, the current assessment is the latest, and a change renews it.
THEOREM PurgesKeepCurrent == AllSpec => CurrentThroughPurges
<1>1. AllInit => Roster!Init
  BY SameInit DEF AllInit
<1>2. [AllNext]_allVars => [Roster!Next]_(Roster!vars)
  <2> SUFFICES ASSUME [AllNext]_allVars PROVE [Roster!Next]_(Roster!vars)
    OBVIOUS
  <2>1. ASSUME UNCHANGED purgesVars PROVE UNCHANGED Roster!vars
    BY <2>1 DEF purgesVars, Roster!vars, Roster!evidence, Roster!results, Roster!rosterVars,
                Roster!requests
  <2>2. UNCHANGED allVars => UNCHANGED purgesVars
    BY DEF allVars
  <2> QED
    BY <2>1, <2>2, SameNext DEF AllNext
<1>3. Roster!Init /\ [][Roster!Next]_(Roster!vars) => [](Roster!TypeOK /\ Roster!CurrentIsLatest)
  BY RosterAssumptions, Roster!CurrentStaysLatest DEF Roster!Spec
<1>4. Roster!Init /\ [][Roster!Next]_(Roster!vars) => Roster!MutationReassessesCurrent
  BY RosterAssumptions, Roster!MutationsReassess DEF Roster!Spec
<1>5. Roster!TypeOK /\ Roster!CurrentIsLatest =>
        (part = "purges" => P!TypeOK /\ P!CurrentIsLatest)
  BY SameProperties
<1>6. P!vars = Roster!vars /\ P!vars' = Roster!vars'
  BY SameVariables DEF P!vars, Roster!vars
<1>7. AllSpec => Roster!Init /\ [][Roster!Next]_(Roster!vars)
  BY <1>1, <1>2, PTL DEF AllSpec
<1>8. [rosterClock' # rosterClock /\ revision' # revision /\ current # None =>
          /\ current' # None
          /\ current'.id.obs = current.id.obs
          /\ current'.id.records = roster' /\ current'.id.rev = revision']_(Roster!vars)
      => [rosterClock' # rosterClock /\ revision' # revision /\ current # None =>
             /\ current' # None
             /\ current'.id.obs = current.id.obs
             /\ current'.id.records = roster' /\ current'.id.rev = revision']_(P!vars)
  BY <1>6
<1>9. Roster!MutationReassessesCurrent => P!MutationReassessesCurrent
  BY <1>8, PTL DEF P!MutationReassessesCurrent, Roster!MutationReassessesCurrent
<1> QED
  BY <1>3, <1>4, <1>5, <1>7, <1>9, PTL DEF CurrentThroughPurges
===============================================================================
