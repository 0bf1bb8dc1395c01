--------------------------- MODULE MCHealthRoster ---------------------------
(***************************************************************************)
(* A device that is always seen, and one that comes back. The purges that  *)
(* forget observations are a part of MCOperations, where the browser's     *)
(* requests are left out.                                                  *)
(***************************************************************************)
EXTENDS HealthRoster

CONSTANTS d1, d2

MCSampled == [o \in Observations |-> IF o = NumObservations THEN {d1, d2} ELSE {d1}]

MCNext ==
    \/ Collect
    \/ \E p \in Processes : Processing(p)
    \/ \E r \in Requests : ApplyAction(r) \/ \E d \in Devices : Send(r, d)
    \/ \E d \in Devices : SetDevice(d) \/ PurgeDevice(d)
    \/ \E S \in SUBSET Devices : ImportDevices(S)

MCSpec == Init /\ [][MCNext]_vars
=============================================================================
