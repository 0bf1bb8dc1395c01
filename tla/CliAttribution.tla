--------------------------- MODULE CliAttribution ---------------------------
(***************************************************************************)
(* Which request did an answer answer?  One collection of the OTBR command *)
(* line asks the whole mesh four times with ever smaller sets of TLVs, and *)
(* then single devices (otbr_cli_networkdiag_topology.py).  Answers are    *)
(* delayed, lost, reordered and split into frames, and the output of a     *)
(* command holds whatever arrived while it ran.                            *)
(* otbr_cli_networkdiag_parsers.py attributes each frame to a request,     *)
(* revises earlier attributions when a query id is recognised, and puts    *)
(* the frames of one device together.                                      *)
(*                                                                         *)
(* TLVs are abstracted to the groups the four requests tell apart.  The    *)
(* observations kept in a record are copies: the code shares some of the   *)
(* dicts, which can only make them newer.                                  *)
(***************************************************************************)
EXTENDS Naturals, FiniteSets, Sequences

CONSTANTS
    Devices,
    Tagged,         \* the devices whose multicast answers carry the query id
    Has,            \* the TLV groups each device answers, when asked
    Target,         \* the device asked directly after the multicast
    MaxFrames,      \* bound: frames the mesh sends in one collection
    None

\* What the constants satisfy.
AttributionAssumption ==
    /\ Tagged \subseteq Devices /\ Target \in Devices /\ MaxFrames \in Nat /\ None \notin Nat
    /\ Has \in [Devices -> SUBSET {"base", "ip", "stack", "more"}]

\* the TLV groups of the levels 500, 480, 470 and 460, and of the direct
\* requests 500 and 490
Requested == << {"base", "ip", "stack", "more"}, {"base", "ip"},
                {"base", "stack"}, {"base"},
                {"base", "ip", "stack", "more"}, {"base", "ip", "more"} >>
Multicast == 1 .. 4
Commands == 1 .. 6

VARIABLES
    cmd,            \* the command in progress: its request, 0 between commands
    asked,          \* the last request sent
    answered,       \* << d, r >>: d has answered request r
    inflight,       \* frames on their way
    obs,            \* collection_context["observations"]
    origins,        \* collection_context["query_origins"]
    groups,         \* collection_context["response_group_records"]
    batch,          \* the records parsed from the current output
    parsed,         \* the observations of collection_context["parsed_records"]
    kept            \* the consolidated records

vars == << cmd, asked, answered, inflight, obs, origins, groups, batch,
           parsed, kept >>

NoRecord == [vals |-> {}, hist |-> {}]
Merged(r, s) ==
    [vals |-> r.vals \cup s.vals,
     hist |-> s.hist \cup {h \in r.hist : \A k \in s.hist : k.id # h.id}]
Copy(o, i) == [id |-> i, dev |-> o[i].dev, assoc |-> o[i].assoc, attr |-> o[i].attr]

Init ==
    /\ cmd = 0 /\ asked = 0 /\ answered = {} /\ inflight = {} /\ obs = << >>
    /\ origins = [q \in Multicast |-> None]
    /\ groups = [g \in Devices \X Multicast |-> NoRecord]
    /\ batch = [d \in Devices |-> NoRecord]
    /\ parsed = [d \in Devices |-> {}]
    /\ kept = [d \in Devices |-> NoRecord]

-----------------------------------------------------------------------------
(* The mesh                                                                *)

\* d answers the request in progress with the TLVs it has, in one frame or, the
\* TLVs U in a second, in two; the first holds the extended address.  A frame
\* may reach a later command, before or after others, or none: it is then lost.
Answer(d, U) ==
    /\ cmd # 0 /\ << d, asked >> \notin answered
    /\ asked \in Multicast \/ d = Target
    /\ U \subseteq (Requested[asked] \cap Has[d]) \ {"base"}
    /\ LET T == (Requested[asked] \cap Has[d]) \ U
           frames == {[dev |-> d, req |-> asked, types |-> T, first |-> TRUE]} \cup
                     (IF U = {} THEN {}
                      ELSE {[dev |-> d, req |-> asked, types |-> U, first |-> FALSE]})
       IN  /\ Cardinality(inflight) + Len(obs) + Cardinality(frames) <= MaxFrames
           /\ inflight' = inflight \cup frames
    /\ answered' = answered \cup {<< d, asked >>}
    /\ UNCHANGED << cmd, asked, obs, origins, groups, batch, parsed, kept >>

-----------------------------------------------------------------------------
(* The collector                                                           *)

\* register_diagnostic_request (the multicast schedule is registered before
\* the first query), exec_ot_ctl, mark_diagnostic_request_sent
Ask ==
    /\ cmd = 0 /\ asked + 1 \in Commands
    /\ cmd' = asked + 1 /\ asked' = asked + 1
    /\ batch' = [d \in Devices |-> NoRecord]
    /\ UNCHANGED << answered, inflight, obs, origins, groups, parsed, kept >>

QueryId(f) == IF f.req \in Multicast /\ f.dev \in Tagged THEN f.req ELSE None

\* the multicast requests sent so far that ask for all of the types
Compatible(types) ==
    IF cmd \in Multicast THEN {r \in 1 .. cmd : types \subseteq Requested[r]} ELSE {}
\* Mutant: a fitting frame belongs to the request whose output it is in.
IdentifyingLatest(types) == Compatible(types) \cap {cmd}
\* those of which an asked-for type is asked for by no other request, sent or to come
Identifying(types) ==
    {r \in Compatible(types) :
        types \cap (Requested[r] \ UNION {Requested[s] : s \in Multicast \ {r}}) # {}}

\* request_association and attributed_request of a frame
Attribution(f) ==
    LET q == QueryId(f)
    IN  CASE q = None /\ cmd \notin Multicast /\ f.dev = Target ->
               [assoc |-> "responder-target", attr |-> cmd]
          [] q = None /\ (cmd \in Multicast \/ f.dev # Target) ->
               [assoc |-> "uncorrelated", attr |-> None]
          [] q # None /\ origins[q] # None ->
               [assoc |-> "query-id", attr |-> origins[q]]
          [] q # None /\ origins[q] = None /\ Cardinality(Identifying(f.types)) = 1 ->
               [assoc |-> "request-set",
                attr |-> CHOOSE r \in Identifying(f.types) : TRUE]
          [] OTHER ->
               [assoc |-> IF Compatible(f.types) = {} THEN "unknown" ELSE "ambiguous",
                attr |-> None]

Undecided == {"unknown", "ambiguous", "uncorrelated"}
\* build_tlv_response_observation: the new observation, after the earlier ones
\* of its query have been attributed to the request now known
Observed(f, a) ==
    LET q == QueryId(f)
        revised(o) == IF q # None /\ a.attr # None /\ o.q = q /\ o.assoc \in Undecided
                      THEN [o EXCEPT !.assoc = "query-id", !.attr = a.attr] ELSE o
    IN  Append([i \in 1 .. Len(obs) |-> revised(obs[i])],
               [dev |-> f.dev, cmd |-> cmd, q |-> q, truth |-> f.req,
                assoc |-> a.assoc, attr |-> a.attr])

\* _diagnostic_response_group_key: responder and query id
SameAnswer(f, g) == QueryId(f) # None /\ g = << f.dev, QueryId(f) >>

\* parse_multicast_diag_output, for one frame.  A frame without an extended
\* address is put with the earlier frame of its responder and query, in
\* whichever output that was; a frame without one leaves only an observation.
Capture(f) ==
    /\ cmd # 0
    /\ LET a == Attribution(f)
           o == Observed(f, a)
           mine == {g \in Devices \X Multicast : SameAnswer(f, g) /\ groups[g] # NoRecord}
           owners == IF f.first THEN {f.dev} ELSE {g[1] : g \in mine}
       IN  /\ obs' = o
           /\ origins' = IF a.assoc = "request-set"
                         THEN [origins EXCEPT ![QueryId(f)] = a.attr] ELSE origins
           /\ IF owners = {} THEN UNCHANGED << batch, groups >>
              ELSE LET d == CHOOSE x \in owners : TRUE
                       new == [vals |-> {f.dev} \X f.types, hist |-> {Copy(o, Len(o))}]
                       heard == {Copy(o, i) : i \in {j \in 1 .. Len(o) : o[j].dev = f.dev}}
                       previous == IF batch[d] # NoRecord THEN batch[d]
                                   ELSE IF mine # {} THEN groups[CHOOSE g \in mine : g[1] = d]
                                   ELSE NoRecord
                       record == IF previous = NoRecord THEN new
                                 ELSE Merged(Merged(previous, new), [vals |-> {}, hist |-> heard])
                   IN  /\ batch' = [batch EXCEPT ![d] = record]
                       /\ groups' = IF QueryId(f) = None THEN groups
                                    ELSE [groups EXCEPT ![<< d, QueryId(f) >>] = record]
    /\ inflight' = inflight \ {f}
    /\ UNCHANGED << cmd, asked, answered, parsed, kept >>

\* _refresh_response_histories
Refreshed(records, o, ids) ==
    [d \in Devices |->
        Merged(records[d], [vals |-> {}, hist |-> {Copy(o, i) : i \in ids[d]}])]

\* The end of a command: its records join parsed_records and the consolidated
\* ones.  A direct request no frame of its target answered leaves a
\* "no-response" observation in the target's record.
Finish ==
    /\ cmd # 0
    /\ LET silent == /\ cmd \notin Multicast
                     /\ \A i \in 1 .. Len(obs) : obs[i].cmd # cmd \/ obs[i].dev # Target
           o == IF silent
                THEN Append(obs, [dev |-> Target, cmd |-> cmd, q |-> None, truth |-> cmd,
                                  assoc |-> "no-response", attr |-> cmd])
                ELSE obs
           ids == [d \in Devices |-> parsed[d] \cup {h.id : h \in batch[d].hist}]
           all == [d \in Devices |-> Merged(kept[d], batch[d])]
           told == IF silent
                   THEN [all EXCEPT ![Target] =
                            Merged(@, [vals |-> {}, hist |-> {Copy(o, Len(o))}])]
                   ELSE all
       IN  /\ obs' = o /\ parsed' = ids
           /\ kept' = Refreshed(told, o, ids)
    /\ cmd' = 0
    /\ UNCHANGED << asked, answered, inflight, origins, groups, batch >>

Next ==
    \/ Ask \/ Finish
    \/ \E d \in Devices, U \in SUBSET Requested[1] : Answer(d, U)
    \/ \E f \in inflight : Capture(f)

Spec == Init /\ [][Next]_vars

-----------------------------------------------------------------------------

\* A request an answer is attributed to, by its query id or by the set of its
\* types, is the request it answered: whatever was lost, delayed into a later
\* command or split, and however late the query was recognised.  All the
\* answers of a recognised query are attributed to its request.
AttributionSound ==
    \A i \in 1 .. Len(obs) :
        /\ obs[i].assoc \in {"query-id", "request-set"} => obs[i].attr = obs[i].truth
        /\ obs[i].q # None /\ origins[obs[i].q] # None => obs[i].attr = origins[obs[i].q]

\* Between commands the history in a device's record is what the collection
\* knows now: its own observations, with the attributions made since they were
\* parsed, and its values come from its own frames.
HistoryCurrent ==
    cmd = 0 => \A d \in Devices :
        /\ \A h \in kept[d].hist : h = Copy(obs, h.id) /\ h.dev = d
        /\ \A v \in kept[d].vals : v[1] = d
=============================================================================
