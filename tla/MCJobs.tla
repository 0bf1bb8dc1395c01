------------------------------- MODULE MCJobs -------------------------------
(***************************************************************************)
(* WebJobs in two parts, chosen at the start.  "safety": three jobs, a     *)
(* snapshot and a device action that share the source "otbr" and a health  *)
(* job with a source of its own, the first of which may expire.            *)
(* "liveness": two jobs of one source that may both expire, under fairness.*)
(***************************************************************************)
EXTENDS MCWebJobs

VARIABLE part

ASSUME MCJobsAssumption == JobsAssumption

partVars == <<part, vars>>

PartInit == part \in {"safety", "liveness"} /\ Init

\* The steps each part is about.
InPart ==
    IF part = "safety"
    THEN aged' \subseteq {1}
    ELSE created' <= 2 /\ \A j \in JobIds : target'[j] \notin Datasets

PartNext == Next /\ part' = part /\ InPart

LiveAdvance(j) == part = "liveness" /\ part' = part /\ Advance(j)
KilledExits(j) == /\ part = "liveness" /\ part' = part
                  /\ process[j] = "killed" /\ ProcessExits(j)

PartSpec ==
    /\ PartInit /\ [][PartNext]_partVars
    /\ \A j \in 1 .. 2 : WF_partVars(LiveAdvance(j)) /\ WF_partVars(KilledExits(j))

-----------------------------------------------------------------------------
\* WebJobs: every job that has begun comes to a terminal status.
LiveJobsSettle == part = "liveness" => StartedJobsSettle
=============================================================================
