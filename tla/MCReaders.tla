------------------------------ MODULE MCReaders ------------------------------
(***************************************************************************)
(* UnifiedReaders in two parts, chosen at the start.  "crash": two         *)
(* networks are published in turn, over one evidence file that changes,    *)
(* and a builder dies once.  "evidence": two evidence files change under   *)
(* one network's publication and its verified reads, and return to earlier *)
(* contents.                                                               *)
(***************************************************************************)
EXTENDS UnifiedReaders

CONSTANTS n1, n2

VARIABLE part

partVars == <<part, allVars>>

PartInit == part \in {"crash", "evidence"} /\ ReadersInit

\* The steps each part is about.
InPart ==
    IF part = "crash"
    THEN input'[1] <= 2 /\ input'[2] = 0
    ELSE /\ crashes' = 0
         /\ target' # None => target'.generation.network = n1
         /\ \A r \in Readers : phase'[r] # "idle" => verify'[r]

PartNext == ReadersNext /\ part' = part /\ InPart

PartSpec == PartInit /\ [][PartNext]_partVars
=============================================================================
