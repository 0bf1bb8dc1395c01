----------------------------- MODULE MCWebJobs -----------------------------
(* Instances of WebJobs for TLC: one snapshot and one device action share   *)
(* the source "otbr", health jobs have a source of their own.               *)
EXTENDS WebJobs, TLC

CONSTANTS f1, f2, d1, h1

MCSourceOf == f1 :> "otbr" @@ f2 :> "otbr" @@ d1 :> "otbr" @@ h1 :> "health"
=============================================================================
