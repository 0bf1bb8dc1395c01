------------------------------ MODULE CliTables ------------------------------
(***************************************************************************)
(* "otbr-cli meshdiag childtable", "childip6" and "routerneighbortable":   *)
(* the router table is read, then every router in it is asked for its      *)
(* table and, if that fails, pinged (otbr_cli_util.py and the collectors). *)
(* The results are checkpointed after every router and saved at the end    *)
(* when the run was complete or brought something; "otbr-cli router table" *)
(* saves the router table alone.                                           *)
(***************************************************************************)
EXTENDS Naturals, FiniteSets

CONSTANTS
    Routers,        \* router RLOC16s
    MaxRuns,        \* bound: collections
    None

\* What the constants satisfy.
TablesAssumption == MaxRuns \in Nat /\ None \notin Routers

VARIABLES
    stage,          \* "idle", or "query" while a collection is running
    pending,        \* the routers still to be asked
    ambiguous,      \* the listed RLOC16s with two extended addresses
    results,        \* the records so far: how the attempt at every router ended
    partial,        \* the checkpoint on disk
    final,          \* the snapshot on disk
    table,          \* the saved router table
    heard,          \* the last router table command was answered by ot-ctl
    runs            \* collections started

vars == << stage, pending, ambiguous, results, partial, final, table, heard, runs >>

Nothing == [r \in {} |-> None]

Init ==
    /\ stage = "idle" /\ pending = {} /\ ambiguous = {} /\ results = Nothing
    /\ partial = None /\ final = None /\ table = None /\ heard = TRUE /\ runs = 0

-----------------------------------------------------------------------------
(* The router table                                                        *)

\* exec_ot_ctl returns the text of a failure: parse_router_table finds no
\* header in it, and the table is empty.
Listing == [routers : SUBSET Routers, ok : {TRUE}] \cup [routers : {{}}, ok : {FALSE}]

\* fetch_and_parse_router_table with an output file; the command may also print
\* nothing, which raises, and the write may fail.
RouterTable(l) ==
    /\ stage = "idle" /\ runs < MaxRuns
    /\ table' = l.routers /\ heard' = l.ok /\ runs' = runs + 1
    /\ UNCHANGED << stage, pending, ambiguous, results, partial, final >>

\* collect_per_router: the rows of the table by RLOC16; the RLOC16s in ds have
\* rows with different extended addresses.
Collect(l, ds) ==
    /\ stage = "idle" /\ runs < MaxRuns
    /\ stage' = "query" /\ pending' = l.routers /\ ambiguous' = ds
    /\ results' = Nothing /\ heard' = l.ok /\ runs' = runs + 1
    /\ UNCHANGED << partial, final, table >>

-----------------------------------------------------------------------------
(* One router                                                              *)

\* classify_meshdiag_table_response; a timeout and an OTBR error are both "failed"
TableStatus == {"success", "failed", "protocol-error"}
\* add_meshdiag_table_evidence: a failed table is followed by a ping, "silence" is
\* any end of it but a reply.
Ping(status) == IF status = "failed" THEN {"reply", "silence"} ELSE {"not-attempted"}

\* Mutant: a ping reply is as good as a table.
AnsweredPing(attempt) == attempt[1] = "success" \/ attempt[2] = "reply"
\* classify_meshdiag_router_table: "answered"
Answered(attempt) == attempt[1] = "success"

Add(rs, r, a) == [q \in DOMAIN rs \cup {r} |-> IF q = r THEN a ELSE rs[q]]

Heard(rs) == \E r \in DOMAIN rs : Answered(rs[r])

\* save_checkpoint_json in _write_checkpoint_best_effort: a checkpoint needs a
\* record without an error, and a failed write only loses the checkpoint.
Checkpoint(rs) ==
    partial' \in {partial} \cup (IF Heard(rs) THEN {rs} ELSE {})

\* An ambiguous router is not asked (build_meshdiag_ambiguous_result).
Attempts(r) ==
    IF r \in ambiguous THEN {<< "failed", "silence" >>}
    ELSE UNION {{s} \X Ping(s) : s \in TableStatus}

Query(r) ==
    /\ stage = "query" /\ r \in pending
    /\ \E a \in Attempts(r) :
          LET rs == Add(results, r, a)
          IN  results' = rs /\ Checkpoint(rs)
    /\ pending' = pending \ {r}
    /\ UNCHANGED << stage, ambiguous, final, table, heard, runs >>

\* meshdiag_collection_outcome and save_final_json: the run was complete
\* (nothing listed, or no router unanswered and one answered) or partial with
\* an answered router.
Saved(rs) == DOMAIN rs = {} \/ Heard(rs)

Final ==
    /\ stage = "query" /\ pending = {}
    /\ final' = IF Saved(results) THEN results ELSE final
    /\ stage' = "idle"
    /\ UNCHANGED << pending, ambiguous, results, partial, table, heard, runs >>

\* The collector is killed, or a write of the final snapshot fails.
Kill ==
    /\ stage = "query" /\ stage' = "idle"
    /\ UNCHANGED << pending, ambiguous, results, partial, final, table, heard, runs >>

Next ==
    \/ \E l \in Listing :
          RouterTable(l) \/ (\E ds \in SUBSET l.routers : Collect(l, ds))
    \/ \E r \in Routers : Query(r)
    \/ Final \/ Kill

Spec == Init /\ [][Next]_vars

-----------------------------------------------------------------------------

\* "a reply does not turn a failed table collection into a success, and an
\* all-failed run retains its prior final snapshot" (doc/codebase_overview.md):
\* a snapshot that is replaced by records of routers is replaced by a run in
\* which a router really answered with its table.
AllFailedRetains ==
    [][final' # final =>
        \/ DOMAIN final' = {}
        \/ \E r \in DOMAIN final' : final'[r][1] = "success" /\ r \notin ambiguous]_vars

\* fetch_and_parse_router_table: "Raises: Exception: If retrieving or parsing
\* router table fails": the saved router table, the list a collection works
\* with and the snapshot come from a command that was answered.
RetrievalFailureRaises ==
    [][/\ table' # table => heard'
       /\ final' # final => heard]_vars
=============================================================================
