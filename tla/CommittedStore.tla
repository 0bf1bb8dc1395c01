--------------------------- MODULE CommittedStore ---------------------------
(***************************************************************************)
(* What a Unified dataset promises to whoever reads it                     *)
(* (src/src/td_unified_dataset.py): one value, the generation committed    *)
(* last, which is at times unavailable while a publication or its recovery *)
(* is under way, and which only a commit ever changes.  An interruption,   *)
(* however it ends, never changes or loses it.                             *)
(***************************************************************************)
CONSTANTS Values, NoValue

VARIABLES value,      \* the report of the generation committed last
          available   \* whether a read of it succeeds at this moment

storeVars == <<value, available>>

StoreTypeOK == value \in Values \cup {NoValue} /\ available \in BOOLEAN

StoreInit == value = NoValue /\ available = FALSE

(* A publication begins to overwrite artifacts: reads are refused.         *)
Interrupt == /\ available
             /\ available' = FALSE
             /\ value' = value

(* Recovery restored what had been committed: the same value is back.      *)
Resume == /\ ~available
          /\ value # NoValue
          /\ available' = TRUE
          /\ value' = value

(* The report of a new generation replaces the old one.                    *)
Commit(v) == /\ value' = v
             /\ available' = TRUE

StoreNext == Interrupt \/ Resume \/ \E v \in Values : Commit(v)

StoreSpec == StoreInit /\ [][StoreNext]_storeVars
=============================================================================
