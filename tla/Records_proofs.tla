----------------------------- MODULE Records_proofs ----------------------------
(***************************************************************************)
(* The command-line collectors and the merge of what they collect, for any *)
(* number of routers, devices, frames and rows: a table collection that no *)
(* router answered leaves the snapshot alone, an answer is attributed to   *)
(* the request it answered, nobody a topology collection has heard of is   *)
(* dropped from its map, and the merge neither mixes nor loses anything.   *)
(***************************************************************************)
EXTENDS MCRecords, Integers, Sequences, FiniteSetTheorems, WellFoundedInduction, TLAPS

-------------------------------------------------------------------------------
(* CliTables.                                                              *)

\* The records of an ambiguous router say that nobody asked it: what it could
\* have said is never taken for an answer.
AmbiguousUnanswered ==
    \A r \in DOMAIN results : r \in ambiguous => results[r][1] = "failed"

\* No record is about a router before the first query.
LEMMA NothingRecorded == DOMAIN Nothing = {}
BY DEF Nothing

\* An ambiguous router is recorded as failed, and the others do not become
\* ambiguous while a collection is running.
LEMMA AmbiguousKept == AmbiguousUnanswered /\ [Next]_vars => AmbiguousUnanswered'
<1> SUFFICES ASSUME AmbiguousUnanswered, [Next]_vars PROVE AmbiguousUnanswered'
  OBVIOUS
<1> USE DEF AmbiguousUnanswered
<1>1. ASSUME NEW l \in Listing, RouterTable(l) PROVE AmbiguousUnanswered'
  BY <1>1 DEF RouterTable
<1>2. ASSUME NEW l \in Listing, NEW ds \in SUBSET l.routers, Collect(l, ds)
      PROVE  AmbiguousUnanswered'
  BY <1>2, NothingRecorded DEF Collect
<1>3. ASSUME NEW r \in Routers, Query(r) PROVE AmbiguousUnanswered'
  <2>1. PICK a \in Attempts(r) :
           results' = [q \in DOMAIN results \cup {r} |-> IF q = r THEN a ELSE results[q]]
    BY <1>3 DEF Query, Add
  <2>2. ambiguous' = ambiguous
    BY <1>3 DEF Query
  <2>3. r \in ambiguous => a[1] = "failed"
    BY DEF Attempts
  <2> QED
    BY <2>1, <2>2, <2>3
<1>4. CASE Final
  BY <1>4 DEF Final
<1>5. CASE Kill
  BY <1>5 DEF Kill
<1>6. CASE UNCHANGED vars
  BY <1>6 DEF vars
<1> QED
  BY <1>1, <1>2, <1>3, <1>4, <1>5, <1>6 DEF Next

\* Only the end of a collection replaces the snapshot, with its records.
LEMMA SnapshotReplaced ==
    ASSUME AmbiguousUnanswered, [Next]_vars, final' # final
    PROVE  \/ DOMAIN final' = {}
           \/ \E r \in DOMAIN final' : final'[r][1] = "success" /\ r \notin ambiguous
<1>1. Final
  BY DEF Next, vars, RouterTable, Collect, Query, Kill
<1>2. final' = results /\ Saved(results)
  BY <1>1 DEF Final
<1>3. CASE DOMAIN results = {}
  BY <1>2, <1>3
<1>4. CASE Heard(results)
  <2>1. PICK r \in DOMAIN results : results[r][1] = "success"
    BY <1>4 DEF Heard, Answered
  <2>2. r \notin ambiguous
    BY <2>1 DEF AmbiguousUnanswered
  <2> QED
    BY <1>2, <2>1, <2>2
<1> QED
  BY <1>2, <1>3, <1>4 DEF Saved

\* A run in which no router answered with its table retains the snapshot there
\* was, whatever replied to a ping and whatever was ambiguous.
THEOREM FailedRunsRetain == AllSpec => AllFailedRetains
<1>1. Init => AmbiguousUnanswered
  BY NothingRecorded DEF Init, AmbiguousUnanswered
<1>2. AmbiguousUnanswered /\ [Next]_vars =>
        [final' # final =>
           \/ DOMAIN final' = {}
           \/ \E r \in DOMAIN final' : final'[r][1] = "success" /\ r \notin ambiguous]_vars
  BY SnapshotReplaced
<1>3. AllInit => Init
  BY DEF AllInit
<1>4. [AllNext]_allVars => [Next]_vars
  BY DEF AllNext, allVars
<1> QED
  BY <1>1, <1>2, <1>3, <1>4, AmbiguousKept, PTL DEF AllSpec, AllFailedRetains

-------------------------------------------------------------------------------
(* CliAttribution. The invariant follows what an observation knows of its  *)
(* request, and what a record may still hold that was revised since.       *)

Types == {"base", "ip", "stack", "more"}
Frames == [dev : Devices, req : 1 .. 6, types : SUBSET Types, first : BOOLEAN]
Undecided == {"unknown", "ambiguous", "uncorrelated"}
Associations == Undecided \cup {"query-id", "request-set", "responder-target", "no-response"}
Observations == [dev : Devices, cmd : 1 .. 6, q : (1 .. 4) \cup {None}, truth : 1 .. 6,
                 assoc : Associations, attr : (1 .. 6) \cup {None}]

\* A frame on its way answers a request that was sent, with types that were asked for.
FramesAnswer ==
    /\ asked \in 0 .. 6 /\ cmd \in {0, asked}
    /\ inflight \subseteq Frames
    /\ \A f \in inflight : f.types \subseteq A!Requested[f.req]

\* A query id is that of the request the frame answers. What is known of an id is right, and
\* what was observed of it is attributed accordingly, or undecided while nothing is known.
AttributionsHold ==
    /\ obs \in Seq(Observations)
    /\ origins \in [1 .. 4 -> (1 .. 4) \cup {None}]
    /\ \A q \in 1 .. 4 : origins[q] \in {q, None}
    /\ \A i \in 1 .. Len(obs) :
         /\ obs[i].q \in {obs[i].truth, None}
         /\ obs[i].assoc \in {"query-id", "request-set"} => obs[i].attr = obs[i].truth
         /\ obs[i].q # None =>
              IF origins[obs[i].q] = None THEN obs[i].assoc \in Undecided
              ELSE obs[i].attr = origins[obs[i].q]

\* A record of device d: its history is of observations of d, its values are of d.
Own(o, d, r) ==
    /\ \A h \in r.hist : h.id \in 1 .. Len(o) /\ h.dev = d /\ o[h.id].dev = d
    /\ \A v \in r.vals : v[1] = d

\* Records are of their own device; what is not looked up again in a consolidated one is
\* without a query id, and so never revised.
RecordsOwn ==
    /\ \A d \in Devices : Own(obs, d, batch[d]) /\ Own(obs, d, kept[d])
    /\ \A d \in Devices, q \in 1 .. 4 : Own(obs, d, groups[<<d, q>>])
    /\ DOMAIN batch = Devices /\ DOMAIN groups = Devices \X (1 .. 4)
    /\ \A d \in Devices : \A i \in parsed[d] : i \in 1 .. Len(obs) /\ obs[i].dev = d
    /\ \A d \in Devices : \A h \in kept[d].hist :
         h.id \in parsed[d] \/ (obs[h.id].q = None /\ h = A!Copy(obs, h.id))

AttributionInv == FramesAnswer /\ AttributionsHold /\ RecordsOwn /\ A!HistoryCurrent

LEMMA AttributionConstants ==
    /\ Target \in Devices /\ None \notin Nat
    /\ A!Multicast = 1 .. 4 /\ A!Commands = 1 .. 6
BY RecordsAssumptions
   DEF A!AttributionAssumption, A!Multicast, A!Commands

LEMMA RequestedTypes == \A r \in 1 .. 6 : A!Requested[r] \subseteq Types
BY DEF A!Requested, Types

LEMMA AttributionBegins == A!Init => AttributionInv
<1> SUFFICES ASSUME A!Init PROVE AttributionInv
  OBVIOUS
<1>1. obs = <<>> /\ obs \in Seq(Observations) /\ Len(obs) = 0
  BY DEF A!Init
<1>2. FramesAnswer /\ AttributionsHold
  BY <1>1, AttributionConstants DEF A!Init, FramesAnswer, AttributionsHold
<1>3. RecordsOwn
  BY AttributionConstants DEF A!Init, RecordsOwn, Own, A!NoRecord
<1>4. A!HistoryCurrent
  BY DEF A!Init, A!HistoryCurrent, A!NoRecord
<1> QED
  BY <1>2, <1>3, <1>4 DEF AttributionInv

LEMMA AnswerStep ==
    ASSUME AttributionInv, NEW d \in Devices, NEW U \in SUBSET A!Requested[1], A!Answer(d, U)
    PROVE  AttributionInv'
<1> USE AttributionConstants DEF AttributionInv
<1>1. /\ cmd # 0 /\ cmd = asked /\ asked \in 1 .. 6
      /\ UNCHANGED <<cmd, asked, obs, origins, groups, batch, parsed, kept>>
  BY DEF A!Answer, FramesAnswer
<1>2. \A f \in inflight' : f \in inflight \/
         (f \in Frames /\ f.req = asked /\ f.types \subseteq A!Requested[asked])
  <2> SUFFICES ASSUME NEW f \in inflight', f \notin inflight
               PROVE  f \in Frames /\ f.req = asked /\ f.types \subseteq A!Requested[asked]
    OBVIOUS
  <2> DEFINE T == (A!Requested[asked] \cap Has[d]) \ U
  <2>1. f = [dev |-> d, req |-> asked, types |-> T, first |-> TRUE]
        \/ f = [dev |-> d, req |-> asked, types |-> U, first |-> FALSE]
    BY DEF A!Answer
  <2>2. U \subseteq A!Requested[asked] /\ T \subseteq A!Requested[asked]
    BY DEF A!Answer
  <2>3. U \in SUBSET Types /\ T \in SUBSET Types
    BY <1>1, <2>2, RequestedTypes
  <2> HIDE DEF T
  <2>4. CASE f = [dev |-> d, req |-> asked, types |-> T, first |-> TRUE]
    <3>1. T \in SUBSET Types /\ asked \in 1 .. 6
      BY <1>1, <2>3
    <3> QED
      BY <2>2, <2>4, <3>1 DEF Frames
  <2>5. CASE f = [dev |-> d, req |-> asked, types |-> U, first |-> FALSE]
    <3>1. U \in SUBSET Types /\ asked \in 1 .. 6
      BY <1>1, <2>3
    <3> QED
      BY <2>2, <2>5, <3>1 DEF Frames
  <2> QED
    BY <2>1, <2>4, <2>5
<1>3. FramesAnswer'
  BY <1>1, <1>2 DEF FramesAnswer
<1>4. RecordsOwn' /\ A!HistoryCurrent'
  BY <1>1 DEF RecordsOwn, A!Copy, A!HistoryCurrent
<1>5. AttributionsHold'
  BY <1>1 DEF AttributionsHold
<1> QED
  BY <1>3, <1>4, <1>5

LEMMA AskStep == AttributionInv /\ A!Ask => AttributionInv'
<1> SUFFICES ASSUME AttributionInv, A!Ask PROVE AttributionInv'
  OBVIOUS
<1> USE AttributionConstants DEF AttributionInv
<1>1. /\ cmd' = asked + 1 /\ asked' = asked + 1 /\ asked + 1 \in 1 .. 6
      /\ batch' = [d \in Devices |-> A!NoRecord]
      /\ UNCHANGED <<answered, inflight, obs, origins, groups, parsed, kept>>
  BY DEF A!Ask
<1>2. FramesAnswer'
  BY <1>1 DEF FramesAnswer
<1>3. RecordsOwn'
  <2>1. \A d \in Devices : Own(obs, d, batch'[d])
    BY <1>1 DEF Own, A!NoRecord
  <2>2. DOMAIN batch' = Devices
    BY <1>1
  <2> QED
    BY <1>1, <2>1, <2>2 DEF RecordsOwn, A!Copy
<1>4. A!HistoryCurrent'
  BY <1>1 DEF A!HistoryCurrent, FramesAnswer
<1> QED
  BY <1>1, <1>2, <1>3, <1>4 DEF AttributionsHold

\* A query id that a frame shows is the request it answers.
LEMMA QueryIds ==
    ASSUME NEW f \in Frames
    PROVE  A!QueryId(f) \in {f.req, None} /\ A!QueryId(f) \in (1 .. 4) \cup {None}
BY AttributionConstants DEF A!QueryId

LEMMA InstanceCardinality == A!Cardinality({}) = 0
<1>1. A!Cardinality({}) = Cardinality({})
  BY DEF A!Cardinality, Cardinality
<1> QED
  BY <1>1, FS_EmptySet

\* A request that is identified by the types of an answer is the one it answers.
LEMMA IdentifiedIsAsked ==
    ASSUME NEW f \in Frames, f.req \in 1 .. 4, f.types \subseteq A!Requested[f.req],
           NEW r \in A!Identifying(f.types)
    PROVE  r = f.req
<1>1. /\ r \in A!Compatible(f.types)
      /\ f.types \cap (A!Requested[r] \ UNION {A!Requested[s] : s \in (1 .. 4) \ {r}}) # {}
  BY AttributionConstants DEF A!Identifying
<1>2. PICK t \in f.types : t \notin UNION {A!Requested[s] : s \in (1 .. 4) \ {r}}
  BY <1>1
<1>3. t \in A!Requested[f.req]
  BY <1>2
<1> QED
  BY <1>2, <1>3

\* What a frame is attributed to.
AttributedRight(f, a, q) ==
    /\ a.assoc \in Associations /\ a.attr \in (1 .. 6) \cup {None}
    /\ a.assoc \in {"query-id", "request-set"} => q = f.req /\ a.attr = f.req
    /\ q # None /\ origins[q] # None => a.attr = origins[q]
    /\ q # None /\ origins[q] = None =>
         \/ a.assoc = "request-set"
         \/ a.assoc \in Undecided /\ a.attr = None
    /\ q = None => a.assoc \in {"responder-target", "uncorrelated"}
    /\ a.assoc = "request-set" => q # None /\ origins[q] = None

LEMMA AttributionOfFrame ==
    ASSUME AttributionInv, cmd # 0, NEW f \in inflight
    PROVE  AttributedRight(f, A!Attribution(f), A!QueryId(f))
<1> DEFINE a == A!Attribution(f)
           q == A!QueryId(f)
<1> USE AttributionConstants
<1>1. /\ f \in Frames /\ f.types \subseteq A!Requested[f.req] /\ cmd \in 1 .. 6
      /\ f.req \in 1 .. 6
  BY DEF AttributionInv, FramesAnswer, Frames
<1>2. q \in {f.req, None} /\ q \in (1 .. 4) \cup {None}
  BY <1>1, QueryIds
<1>3. q # None => origins[q] \in {q, None} /\ q = f.req /\ f.req \in 1 .. 4
  BY <1>2 DEF AttributionInv, AttributionsHold
<1> DEFINE one == A!Cardinality(A!Identifying(f.types)) = 1
<1>4. \/ /\ q = None
         /\ a.assoc \in {"responder-target", "uncorrelated"} /\ a.attr \in {cmd, None}
      \/ q # None /\ origins[q] # None /\ a.assoc = "query-id" /\ a.attr = origins[q]
      \/ /\ q # None /\ origins[q] = None /\ one /\ a.assoc = "request-set"
         /\ a.attr = CHOOSE r \in A!Identifying(f.types) : TRUE
      \/ /\ q # None /\ origins[q] = None /\ a.assoc \in {"unknown", "ambiguous"}
         /\ a.attr = None
  <2>1. CASE q = None /\ cmd \notin 1 .. 4 /\ f.dev = Target
    BY <2>1 DEF A!Attribution
  <2>2. CASE q = None /\ (cmd \in 1 .. 4 \/ f.dev # Target)
    BY <2>2 DEF A!Attribution
  <2>3. CASE q # None /\ origins[q] # None
    BY <2>3 DEF A!Attribution
  <2>4. CASE q # None /\ origins[q] = None /\ one
    BY <2>4 DEF A!Attribution
  <2>5. CASE q # None /\ origins[q] = None /\ ~one
    BY <2>5 DEF A!Attribution
  <2> QED
    BY <2>1, <2>2, <2>3, <2>4, <2>5
<1>5. one => (CHOOSE r \in A!Identifying(f.types) : TRUE) \in A!Identifying(f.types)
  BY InstanceCardinality
<1>6. q # None /\ one => (CHOOSE r \in A!Identifying(f.types) : TRUE) = f.req
  BY <1>1, <1>3, <1>5, IdentifiedIsAsked
<1> HIDE DEF a, q, one
<1>7. AttributedRight(f, a, q)
  BY <1>1, <1>2, <1>3, <1>4, <1>6 DEF AttributedRight, Associations, Undecided
<1> QED
  BY <1>7 DEF a, q

\* The observations after a frame: earlier ones keep whom and what they are about, and those of
\* the frame's query that were undecided are attributed as the frame is.
LEMMA ObservedFrame ==
    ASSUME AttributionInv, cmd # 0, NEW f \in inflight
    PROVE  LET a == A!Attribution(f)
               q == A!QueryId(f)
               o == A!Observed(f, a)
           IN  /\ o \in Seq(Observations) /\ Len(o) = Len(obs) + 1
               /\ o[Len(o)] = [dev |-> f.dev, cmd |-> cmd, q |-> q, truth |-> f.req,
                               assoc |-> a.assoc, attr |-> a.attr]
               /\ \A i \in 1 .. Len(obs) :
                    /\ o[i].dev = obs[i].dev /\ o[i].q = obs[i].q /\ o[i].truth = obs[i].truth
                    /\ IF q # None /\ a.attr # None /\ obs[i].q = q /\ obs[i].assoc \in Undecided
                       THEN o[i].assoc = "query-id" /\ o[i].attr = a.attr
                       ELSE o[i] = obs[i]
<1> DEFINE a == A!Attribution(f)
           q == A!QueryId(f)
           last == [dev |-> f.dev, cmd |-> cmd, q |-> q, truth |-> f.req,
                    assoc |-> a.assoc, attr |-> a.attr]
           changes(i) == q # None /\ a.attr # None /\ obs[i].q = q /\ obs[i].assoc \in Undecided
           revised == [i \in 1 .. Len(obs) |->
                         IF changes(i) THEN [obs[i] EXCEPT !.assoc = "query-id", !.attr = a.attr]
                         ELSE obs[i]]
<1>1. obs \in Seq(Observations) /\ Len(obs) \in Nat
  BY DEF AttributionInv, AttributionsHold
<1>2. /\ f \in Frames /\ cmd \in 1 .. 6 /\ q \in (1 .. 4) \cup {None}
      /\ a.assoc \in Associations /\ a.attr \in (1 .. 6) \cup {None}
  BY AttributionOfFrame, QueryIds DEF AttributionInv, FramesAnswer, AttributedRight
<1>3. A!Observed(f, a) = Append(revised, last)
  BY DEF A!Observed, A!Undecided, Undecided
<1>4. last \in Observations
  <2> HIDE DEF a, q
  <2> QED
    BY <1>2 DEF Observations, Frames
<1>5. ASSUME NEW i \in 1 .. Len(obs)
      PROVE  /\ revised[i] \in Observations
             /\ revised[i].dev = obs[i].dev /\ revised[i].q = obs[i].q
             /\ revised[i].truth = obs[i].truth
             /\ IF changes(i) THEN revised[i].assoc = "query-id" /\ revised[i].attr = a.attr
                ELSE revised[i] = obs[i]
  <2> HIDE DEF a, q, last
  <2>1. obs[i] \in Observations
    BY <1>1
  <2>2. CASE changes(i)
    <3>1. revised[i] = [obs[i] EXCEPT !.assoc = "query-id", !.attr = a.attr]
      BY <2>2
    <3>2. [obs[i] EXCEPT !.assoc = "query-id", !.attr = a.attr] \in Observations
      BY <1>2, <2>1 DEF Observations, Associations
    <3>3. /\ [obs[i] EXCEPT !.assoc = "query-id", !.attr = a.attr].dev = obs[i].dev
          /\ [obs[i] EXCEPT !.assoc = "query-id", !.attr = a.attr].q = obs[i].q
          /\ [obs[i] EXCEPT !.assoc = "query-id", !.attr = a.attr].truth = obs[i].truth
          /\ [obs[i] EXCEPT !.assoc = "query-id", !.attr = a.attr].assoc = "query-id"
          /\ [obs[i] EXCEPT !.assoc = "query-id", !.attr = a.attr].attr = a.attr
      BY <2>1 DEF Observations
    <3> HIDE DEF revised, changes
    <3> QED
      BY <2>2, <3>1, <3>2, <3>3
  <2>3. CASE ~changes(i)
    <3>1. revised[i] = obs[i]
      BY <2>3
    <3> HIDE DEF revised, changes
    <3> QED
      BY <2>1, <2>3, <3>1
  <2> QED
    BY <2>2, <2>3
<1>6. revised \in Seq(Observations) /\ Len(revised) = Len(obs)
  <2>1. \A i \in 1 .. Len(obs) : revised[i] \in Observations
    BY <1>5
  <2>2. DOMAIN revised = 1 .. Len(obs)
    OBVIOUS
  <2>3. revised = [i \in 1 .. Len(obs) |-> revised[i]]
    OBVIOUS
  <2> HIDE DEF revised, last
  <2> QED
    BY <1>1, <2>1, <2>2, <2>3
<1>7. /\ Append(revised, last) \in Seq(Observations)
      /\ Len(Append(revised, last)) = Len(obs) + 1
      /\ Append(revised, last)[Len(obs) + 1] = last
      /\ \A i \in 1 .. Len(obs) : Append(revised, last)[i] = revised[i]
  <2> HIDE DEF revised, last
  <2> QED
    BY <1>1, <1>4, <1>6
<1> HIDE DEF revised
<1> QED
  BY <1>3, <1>5, <1>7

\* Observations are only added, and stay about the device they are about.
LEMMA OwnGrows ==
    ASSUME NEW o, NEW p, NEW d, NEW r, Own(o, d, r), Len(o) \in Nat, Len(p) \in Nat,
           Len(o) <= Len(p), \A i \in 1 .. Len(o) : p[i].dev = o[i].dev
    PROVE  Own(p, d, r)
BY DEF Own

\* Merging records of one device gives a record of it.
LEMMA MergedOwn ==
    ASSUME NEW o, NEW d, NEW r, NEW s, Own(o, d, r), Own(o, d, s)
    PROVE  Own(o, d, A!Merged(r, s))
<1>1. /\ \A h \in A!Merged(r, s).hist : h \in r.hist \/ h \in s.hist
      /\ \A v \in A!Merged(r, s).vals : v \in r.vals \/ v \in s.vals
  BY DEF A!Merged
<1> QED
  BY <1>1 DEF Own

\* The record a frame is put into, if there was the previous one.
Recorded(o, f, previous) ==
    LET new == [vals |-> {f.dev} \X f.types, hist |-> {A!Copy(o, Len(o))}]
        every == {A!Copy(o, i) : i \in {j \in 1 .. Len(o) : o[j].dev = f.dev}}
    IN  IF previous = A!NoRecord THEN new
        ELSE A!Merged(A!Merged(previous, new), [vals |-> {}, hist |-> every])

LEMMA CapturedOwn ==
    ASSUME AttributionInv, cmd # 0, NEW f \in inflight, NEW o, Len(o) = Len(obs) + 1,
           o[Len(o)].dev = f.dev, \A i \in 1 .. Len(obs) : o[i].dev = obs[i].dev,
           NEW previous, previous = A!NoRecord \/ Own(obs, f.dev, previous)
    PROVE  Own(o, f.dev, Recorded(o, f, previous))
<1> DEFINE new == [vals |-> {f.dev} \X f.types, hist |-> {A!Copy(o, Len(o))}]
           every == {A!Copy(o, i) : i \in {j \in 1 .. Len(o) : o[j].dev = f.dev}}
           all == [vals |-> {}, hist |-> every]
<1>1. Len(obs) \in Nat /\ Len(o) \in Nat /\ Len(obs) <= Len(o) /\ Len(o) \in 1 .. Len(o)
  BY DEF AttributionInv, AttributionsHold
<1>2. Own(o, f.dev, new)
  BY <1>1 DEF Own, A!Copy
<1>3. Own(o, f.dev, all)
  BY DEF Own, A!Copy
<1>4. previous # A!NoRecord => Own(o, f.dev, previous)
  BY <1>1, OwnGrows
<1> HIDE DEF new, all
<1>5. previous # A!NoRecord => Own(o, f.dev, A!Merged(A!Merged(previous, new), all))
  BY <1>2, <1>3, <1>4, MergedOwn
<1> QED
  BY <1>2, <1>5 DEF Recorded, new, all

LEMMA CaptureStep ==
    ASSUME AttributionInv, NEW f \in inflight, A!Capture(f)
    PROVE  AttributionInv'
<1> DEFINE a == A!Attribution(f)
           q == A!QueryId(f)
           o == A!Observed(f, a)
<1> USE AttributionConstants
<1>1. /\ cmd # 0 /\ obs' = o /\ inflight' = inflight \ {f}
      /\ origins' = IF a.assoc = "request-set" THEN [origins EXCEPT ![q] = a.attr] ELSE origins
      /\ UNCHANGED <<cmd, asked, answered, parsed, kept>>
  BY DEF A!Capture
<1>2. /\ o \in Seq(Observations) /\ Len(o) = Len(obs) + 1
      /\ o[Len(o)] = [dev |-> f.dev, cmd |-> cmd, q |-> q, truth |-> f.req,
                      assoc |-> a.assoc, attr |-> a.attr]
      /\ \A i \in 1 .. Len(obs) :
           /\ o[i].dev = obs[i].dev /\ o[i].q = obs[i].q /\ o[i].truth = obs[i].truth
           /\ IF q # None /\ a.attr # None /\ obs[i].q = q /\ obs[i].assoc \in Undecided
              THEN o[i].assoc = "query-id" /\ o[i].attr = a.attr
              ELSE o[i] = obs[i]
  BY <1>1, ObservedFrame
<1>3. /\ AttributedRight(f, a, q) /\ q \in {f.req, None} /\ q \in (1 .. 4) \cup {None}
      /\ f \in Frames /\ f.dev \in Devices /\ Len(obs) \in Nat
  BY <1>1, AttributionOfFrame, QueryIds DEF AttributionInv, FramesAnswer, AttributionsHold, Frames
<1>4. /\ groups' = groups /\ batch' = batch
      \/ \E previous :
           /\ previous = A!NoRecord \/ Own(obs, f.dev, previous)
           /\ batch' = [batch EXCEPT ![f.dev] = Recorded(o, f, previous)]
           /\ groups' = IF q = None THEN groups
                        ELSE [groups EXCEPT ![<<f.dev, q>>] = Recorded(o, f, previous)]
  <2> DEFINE mine == {g \in Devices \X A!Multicast :
                        A!SameAnswer(f, g) /\ groups[g] # A!NoRecord}
             owners == IF f.first THEN {f.dev} ELSE {g[1] : g \in mine}
             owner == CHOOSE x \in owners : TRUE
             group == groups[CHOOSE g \in mine : g[1] = owner]
             previous == IF batch[owner] # A!NoRecord THEN batch[owner]
                         ELSE IF mine # {} THEN group ELSE A!NoRecord
  <2>1. CASE owners = {}
    BY <2>1 DEF A!Capture
  <2>2. CASE owners # {}
    <3>1. \A g \in mine : g = <<f.dev, q>> /\ q \in 1 .. 4
      BY <1>3 DEF A!SameAnswer
    <3>2. owner = f.dev
      BY <2>2, <3>1
    <3>3. mine # {} => group = groups[<<f.dev, q>>] /\ q \in 1 .. 4
      BY <3>1, <3>2
    <3>4. /\ Own(obs, f.dev, batch[f.dev])
          /\ q \in 1 .. 4 => Own(obs, f.dev, groups[<<f.dev, q>>])
      BY <1>3 DEF AttributionInv, RecordsOwn
    <3>5. previous = A!NoRecord \/ Own(obs, f.dev, previous)
      <4> HIDE DEF mine, owner, group
      <4> QED
        BY <3>2, <3>3, <3>4
    <3>6. /\ batch' = [batch EXCEPT ![owner] = Recorded(o, f, previous)]
          /\ groups' = IF q = None THEN groups
                       ELSE [groups EXCEPT ![<<owner, q>>] = Recorded(o, f, previous)]
      BY <2>2 DEF A!Capture, Recorded
    <3> HIDE DEF previous, o, owner
    <3> QED
      BY <3>2, <3>5, <3>6
  <2> QED
    BY <2>1, <2>2
<1> HIDE DEF a, q, o
<1>5. FramesAnswer'
  BY <1>1 DEF AttributionInv, FramesAnswer
<1>6. AttributionsHold'
  <2>1. origins' \in [1 .. 4 -> (1 .. 4) \cup {None}] /\ \A p \in 1 .. 4 : origins'[p] \in {p, None}
    BY <1>1, <1>3 DEF AttributionInv, AttributionsHold, AttributedRight
  <2>2. /\ q # None /\ a.attr # None => a.attr = q /\ origins'[q] = q
        /\ q # None /\ a.attr = None => origins'[q] = None /\ a.assoc \in Undecided
        /\ \A p \in 1 .. 4 : p # q => origins'[p] = origins[p]
        /\ origins' # origins => q # None /\ origins[q] = None /\ a.attr # None
    BY <1>1, <1>3 DEF AttributionInv, AttributionsHold, AttributedRight
  <2>3. ASSUME NEW i \in 1 .. Len(obs)
        PROVE  /\ o[i].q \in {o[i].truth, None}
               /\ o[i].assoc \in {"query-id", "request-set"} => o[i].attr = o[i].truth
               /\ o[i].q # None => IF origins'[o[i].q] = None THEN o[i].assoc \in Undecided
                                   ELSE o[i].attr = origins'[o[i].q]
    <3>1. /\ obs[i].q \in {obs[i].truth, None} /\ obs[i].q \in (1 .. 4) \cup {None}
          /\ obs[i].assoc \in {"query-id", "request-set"} => obs[i].attr = obs[i].truth
          /\ obs[i].q # None => IF origins[obs[i].q] = None THEN obs[i].assoc \in Undecided
                                ELSE obs[i].attr = origins[obs[i].q]
      <4>1. obs[i] \in Observations
        BY DEF AttributionInv, AttributionsHold
      <4> QED
        BY <4>1 DEF AttributionInv, AttributionsHold, Observations
    <3>2. CASE q # None /\ a.attr # None /\ obs[i].q = q /\ obs[i].assoc \in Undecided
      BY <1>2, <2>2, <3>1, <3>2
    <3>3. CASE ~(q # None /\ a.attr # None /\ obs[i].q = q /\ obs[i].assoc \in Undecided)
      <4>1. o[i] = obs[i]
        BY <1>2, <3>3
      <4>2. obs[i].q # None => origins'[obs[i].q] = origins[obs[i].q]
        BY <2>2, <3>1, <3>3
      <4> QED
        BY <3>1, <4>1, <4>2
    <3> QED
      BY <3>2, <3>3
  <2>4. /\ o[Len(o)].q \in {o[Len(o)].truth, None}
        /\ o[Len(o)].assoc \in {"query-id", "request-set"} => o[Len(o)].attr = o[Len(o)].truth
        /\ o[Len(o)].q # None =>
             IF origins'[o[Len(o)].q] = None THEN o[Len(o)].assoc \in Undecided
             ELSE o[Len(o)].attr = origins'[o[Len(o)].q]
    BY <1>2, <1>3, <2>2 DEF AttributedRight
  <2>5. \A i \in 1 .. Len(o) : i \in 1 .. Len(obs) \/ i = Len(o)
    BY <1>2, <1>3
  <2> QED
    BY <1>1, <1>2, <2>1, <2>3, <2>4, <2>5 DEF AttributionsHold
<1>7. RecordsOwn'
  <2>1. \A d, r : Own(obs, d, r) => Own(o, d, r)
    BY <1>2, <1>3, OwnGrows
  <2>2. /\ \A d \in Devices : Own(o, d, batch'[d])
        /\ \A d \in Devices, p \in 1 .. 4 : Own(o, d, groups'[<<d, p>>])
        /\ DOMAIN batch' = Devices /\ DOMAIN groups' = Devices \X (1 .. 4)
    <3>1. CASE groups' = groups /\ batch' = batch
      BY <2>1, <3>1 DEF AttributionInv, RecordsOwn
    <3>2. ASSUME NEW record, Own(o, f.dev, record), batch' = [batch EXCEPT ![f.dev] = record],
                 groups' = IF q = None THEN groups ELSE [groups EXCEPT ![<<f.dev, q>>] = record]
          PROVE  <2>2!:
      <4>1. /\ DOMAIN batch = Devices /\ DOMAIN groups = Devices \X (1 .. 4)
            /\ \A d \in Devices : Own(o, d, batch[d])
            /\ \A d \in Devices, p \in 1 .. 4 : Own(o, d, groups[<<d, p>>])
        BY <2>1 DEF AttributionInv, RecordsOwn
      <4>2. DOMAIN batch' = Devices /\ DOMAIN groups' = Devices \X (1 .. 4)
        BY <3>2, <4>1
      <4>3. \A d \in Devices : batch'[d] = IF d = f.dev THEN record ELSE batch[d]
        BY <3>2, <4>1
      <4>4. \A d \in Devices, p \in 1 .. 4 :
              groups'[<<d, p>>] = groups[<<d, p>>] \/ (d = f.dev /\ groups'[<<d, p>>] = record)
        BY <3>2, <4>1
      <4> QED
        BY <3>2, <4>1, <4>2, <4>3, <4>4
    <3>3. CASE ~(groups' = groups /\ batch' = batch)
      <4>1. PICK previous :
           /\ previous = A!NoRecord \/ Own(obs, f.dev, previous)
           /\ batch' = [batch EXCEPT ![f.dev] = Recorded(o, f, previous)]
           /\ groups' = IF q = None THEN groups
                        ELSE [groups EXCEPT ![<<f.dev, q>>] = Recorded(o, f, previous)]
        BY <1>4, <3>3
      <4>2. Own(o, f.dev, Recorded(o, f, previous))
        <5>1. /\ cmd # 0 /\ Len(o) = Len(obs) + 1 /\ o[Len(o)].dev = f.dev
              /\ \A i \in 1 .. Len(obs) : o[i].dev = obs[i].dev
          BY <1>1, <1>2
        <5>2. previous = A!NoRecord \/ Own(obs, f.dev, previous)
          BY <4>1
        <5> QED
          BY <5>1, <5>2, CapturedOwn
      <4> QED
        BY <3>2, <4>1, <4>2
    <3> QED
      BY <3>1, <3>3
  <2>3. \A d \in Devices : Own(o, d, kept[d])
    BY <2>1 DEF AttributionInv, RecordsOwn
  <2>4. \A d \in Devices : \A i \in parsed[d] : i \in 1 .. Len(o) /\ o[i].dev = d
    BY <1>2, <1>3 DEF AttributionInv, RecordsOwn
  <2>5. \A d \in Devices : \A h \in kept[d].hist :
          h.id \in parsed[d] \/ (o[h.id].q = None /\ h = A!Copy(o, h.id))
    <3> SUFFICES ASSUME NEW d \in Devices, NEW h \in kept[d].hist, h.id \notin parsed[d]
                 PROVE  o[h.id].q = None /\ h = A!Copy(o, h.id)
      OBVIOUS
    <3>1. h.id \in 1 .. Len(obs) /\ obs[h.id].q = None /\ h = A!Copy(obs, h.id)
      BY DEF AttributionInv, RecordsOwn, Own
    <3>2. o[h.id] = obs[h.id]
      BY <1>2, <3>1
    <3> QED
      BY <3>1, <3>2 DEF A!Copy
  <2> QED
    BY <1>1, <2>2, <2>3, <2>4, <2>5 DEF RecordsOwn
<1>8. A!HistoryCurrent'
  BY <1>1 DEF A!HistoryCurrent
<1> QED
  BY <1>5, <1>6, <1>7, <1>8 DEF AttributionInv

\* What a device's record is told at the end of a command: what was parsed, and the silence o ends
\* with, if it is about the device.
Told(o, d, silent, r, s) ==
    IF silent /\ d = Target
    THEN A!Merged(A!Merged(r, s), [vals |-> {}, hist |-> {A!Copy(o, Len(o))}])
    ELSE A!Merged(r, s)
Refreshed(o, known, r) ==
    A!Merged(r, [vals |-> {}, hist |-> {A!Copy(o, i) : i \in known}])

\* In a record that was refreshed the observations that are known are current.
LEMMA RefreshedHistory ==
    ASSUME NEW o, NEW known, NEW r, NEW h \in Refreshed(o, known, r).hist
    PROVE  (h.id \in known /\ h = A!Copy(o, h.id)) \/ (h \in r.hist /\ h.id \notin known)
<1> DEFINE told == {A!Copy(o, i) : i \in known}
<1>1. h \in told \/ (h \in r.hist /\ \A k \in told : k.id # h.id)
  BY DEF Refreshed, A!Merged
<1>2. \A i : A!Copy(o, i).id = i
  BY DEF A!Copy
<1>3. CASE h \in told
  BY <1>2, <1>3
<1>4. CASE h \in r.hist /\ \A k \in told : k.id # h.id
  <2>1. \A i \in known : A!Copy(o, i) \in told
    OBVIOUS
  <2> HIDE DEF told
  <2> QED
    BY <1>2, <1>4, <2>1
<1> QED
  BY <1>1, <1>3, <1>4

LEMMA ToldHistory ==
    ASSUME NEW o, NEW d, NEW silent, NEW r, NEW s, NEW h \in Told(o, d, silent, r, s).hist
    PROVE  \/ h \in r.hist \/ h \in s.hist
           \/ silent /\ d = Target /\ h = A!Copy(o, Len(o))
BY DEF Told, A!Merged

LEMMA ToldOwn ==
    ASSUME NEW o, NEW d, NEW silent, NEW r, NEW s, Own(o, d, r), Own(o, d, s), Len(o) \in Nat,
           silent /\ d = Target => Len(o) > 0 /\ o[Len(o)].dev = d
    PROVE  Own(o, d, Told(o, d, silent, r, s))
<1>1. Own(o, d, A!Merged(r, s))
  BY MergedOwn
<1>2. silent /\ d = Target => Own(o, d, [vals |-> {}, hist |-> {A!Copy(o, Len(o))}])
  BY DEF Own, A!Copy
<1> QED
  BY <1>1, <1>2, MergedOwn DEF Told

LEMMA RefreshedOwn ==
    ASSUME NEW o, NEW d, NEW known, NEW r, Own(o, d, r),
           \A i \in known : i \in 1 .. Len(o) /\ o[i].dev = d
    PROVE  Own(o, d, Refreshed(o, known, r))
<1>1. Own(o, d, [vals |-> {}, hist |-> {A!Copy(o, i) : i \in known}])
  BY DEF Own, A!Copy
<1> QED
  BY <1>1, MergedOwn DEF Refreshed

LEMMA FinishStep == AttributionInv /\ A!Finish => AttributionInv'
<1> SUFFICES ASSUME AttributionInv, A!Finish PROVE AttributionInv'
  OBVIOUS
<1> USE AttributionConstants
<1> DEFINE silent == /\ cmd \notin 1 .. 4
                     /\ \A i \in 1 .. Len(obs) : obs[i].cmd # cmd \/ obs[i].dev # Target
           last == [dev |-> Target, cmd |-> cmd, q |-> None, truth |-> cmd,
                    assoc |-> "no-response", attr |-> cmd]
           o == IF silent THEN Append(obs, last) ELSE obs
           ids == [d \in Devices |-> parsed[d] \cup {h.id : h \in batch[d].hist}]
           told(d) == Told(o, d, silent, kept[d], batch[d])
<1>1. /\ cmd \in 1 .. 6 /\ cmd' = 0 /\ obs' = o /\ parsed' = ids
      /\ UNCHANGED <<asked, answered, inflight, origins, groups, batch>>
  BY DEF A!Finish, AttributionInv, FramesAnswer
<1>2. \A d \in Devices : kept'[d] = Refreshed(o, ids[d], told(d))
  <2>1. kept' = [d \in Devices |-> Refreshed(o, ids[d], told(d))]
    <3> DEFINE both == [d \in Devices |-> A!Merged(kept[d], batch[d])]
               after == IF silent
                        THEN [both EXCEPT ![Target] =
                                 A!Merged(@, [vals |-> {}, hist |-> {A!Copy(o, Len(o))}])]
                        ELSE both
    <3>1. kept' = A!Refreshed(after, o, ids)
      BY DEF A!Finish
    <3>2. \A d \in Devices : after[d] = told(d)
      <4> HIDE DEF silent, o
      <4> QED
        BY DEF Told
    <3> HIDE DEF after, told, o, ids
    <3> QED
      BY <3>1, <3>2 DEF A!Refreshed, Refreshed
  <2> HIDE DEF o, ids, told
  <2> QED
    BY <2>1
<1>3. obs \in Seq(Observations) /\ Len(obs) \in Nat
  BY DEF AttributionInv, AttributionsHold
<1>4. /\ o \in Seq(Observations) /\ Len(o) \in Nat /\ Len(obs) <= Len(o)
      /\ \A i \in 1 .. Len(obs) : o[i] = obs[i]
      /\ silent => Len(o) = Len(obs) + 1 /\ o[Len(o)] = last
      /\ ~silent => o = obs
  <2>1. last \in Observations
    BY <1>1 DEF Observations, Associations
  <2> HIDE DEF last, silent
  <2> QED
    BY <1>3, <2>1
<1>5. FramesAnswer'
  BY <1>1 DEF AttributionInv, FramesAnswer
<1>6. AttributionsHold'
  <2>1. \A i \in 1 .. Len(o) : i \in 1 .. Len(obs) \/ (i = Len(o) /\ o[i] = last)
    <3> HIDE DEF silent, last, o
    <3> QED
      BY <1>3, <1>4
  <2>2. /\ last.q = None /\ last.assoc = "no-response"
    OBVIOUS
  <2> HIDE DEF silent, last, o, ids
  <2> QED
    BY <1>1, <1>4, <2>1, <2>2 DEF AttributionInv, AttributionsHold
<1>7. /\ DOMAIN batch = Devices /\ DOMAIN groups = Devices \X (1 .. 4)
      /\ \A d, r : Own(obs, d, r) => Own(o, d, r)
  <2> HIDE DEF silent, last, o
  <2> QED
    BY <1>3, <1>4, OwnGrows DEF AttributionInv, RecordsOwn
<1>8. \A d \in Devices : \A i \in ids[d] : i \in 1 .. Len(o) /\ o[i].dev = d
  <2> SUFFICES ASSUME NEW d \in Devices, NEW i \in ids[d]
               PROVE  i \in 1 .. Len(o) /\ o[i].dev = d
    OBVIOUS
  <2>1. i \in parsed[d] \/ \E h \in batch[d].hist : i = h.id
    OBVIOUS
  <2>2. i \in 1 .. Len(obs) /\ obs[i].dev = d
    BY <2>1 DEF AttributionInv, RecordsOwn, Own
  <2> HIDE DEF silent, last, o
  <2> QED
    BY <1>3, <1>4, <2>2
<1>9. \A d \in Devices : Own(o, d, told(d))
  <2> SUFFICES ASSUME NEW d \in Devices PROVE Own(o, d, told(d))
    OBVIOUS
  <2>1. Own(o, d, kept[d]) /\ Own(o, d, batch[d])
    BY <1>7 DEF AttributionInv, RecordsOwn
  <2>2. last.dev = Target
    OBVIOUS
  <2>3. silent /\ d = Target => Len(o) > 0 /\ o[Len(o)].dev = d
    <3> HIDE DEF silent, last, o
    <3> QED
      BY <1>3, <1>4, <2>2
  <2> HIDE DEF silent, o
  <2> QED
    BY <1>4, <2>1, <2>3, ToldOwn
<1>10. ASSUME NEW d \in Devices, NEW h \in kept'[d].hist
       PROVE  \/ h.id \in ids[d] /\ h = A!Copy(o, h.id)
              \/ o[h.id].q = None /\ h = A!Copy(o, h.id)
  <2>1. \/ h.id \in ids[d] /\ h = A!Copy(o, h.id)
        \/ h \in told(d).hist /\ h.id \notin ids[d]
    <3> HIDE DEF told, o, ids
    <3> QED
      BY <1>2, RefreshedHistory
  <2>2. ASSUME h \in told(d).hist, h.id \notin ids[d]
        PROVE  o[h.id].q = None /\ h = A!Copy(o, h.id)
    <3>1. h \in kept[d].hist \/ h \in batch[d].hist \/ (silent /\ h = A!Copy(o, Len(o)))
      <4> HIDE DEF o, silent, ids
      <4> QED
        BY <2>2, ToldHistory
    <3>2. h \notin batch[d].hist /\ h.id \notin parsed[d]
      BY <2>2
    <3>3. CASE h \in kept[d].hist
      <4>1. h.id \in 1 .. Len(obs) /\ obs[h.id].q = None /\ h = A!Copy(obs, h.id)
        BY <3>2, <3>3 DEF AttributionInv, RecordsOwn, Own
      <4> HIDE DEF silent, last, o, ids, told
      <4>2. o[h.id] = obs[h.id]
        BY <1>4, <4>1
      <4> QED
        BY <4>1, <4>2 DEF A!Copy
    <3>4. CASE silent /\ h = A!Copy(o, Len(o))
      <4>1. last.q = None
        OBVIOUS
      <4> HIDE DEF silent, last, o, ids, told
      <4>2. o[Len(o)] = last
        BY <1>4, <3>4
      <4>3. h.id = Len(o)
        BY <3>4 DEF A!Copy
      <4> QED
        BY <3>4, <4>1, <4>2, <4>3
    <3> QED
      BY <3>1, <3>2, <3>3, <3>4
  <2> QED
    BY <2>1, <2>2
<1>11. \A d \in Devices : Own(o, d, kept'[d])
  <2> HIDE DEF o, ids, told
  <2> QED
    BY <1>2, <1>8, <1>9, RefreshedOwn
<1>12. RecordsOwn'
  <2> HIDE DEF o, told, silent, last
  <2>1. \A d \in Devices : Own(o, d, batch[d])
    BY <1>7 DEF AttributionInv, RecordsOwn
  <2>2. \A d \in Devices, q \in 1 .. 4 : Own(o, d, groups[<<d, q>>])
    BY <1>7 DEF AttributionInv, RecordsOwn
  <2>3. \A d \in Devices : \A h \in kept'[d].hist :
          h.id \in ids[d] \/ (o[h.id].q = None /\ h = A!Copy(o, h.id))
    BY <1>10
  <2> HIDE DEF ids
  <2> QED
    BY <1>1, <1>7, <1>8, <1>11, <2>1, <2>2, <2>3 DEF RecordsOwn
<1>13. A!HistoryCurrent'
  <2> HIDE DEF o, ids, told, silent, last
  <2>1. \A d \in Devices : \A h \in kept'[d].hist : h = A!Copy(o, h.id) /\ h.dev = d
    BY <1>10, <1>11 DEF Own
  <2>2. \A d \in Devices : \A v \in kept'[d].vals : v[1] = d
    BY <1>11 DEF Own
  <2> QED
    BY <1>1, <2>1, <2>2 DEF A!HistoryCurrent
<1> QED
  BY <1>5, <1>6, <1>12, <1>13 DEF AttributionInv

LEMMA AttributionStep == AttributionInv /\ A!Next => AttributionInv'
<1> SUFFICES ASSUME AttributionInv, A!Next PROVE AttributionInv'
  OBVIOUS
<1>1. CASE A!Ask
  BY <1>1, AskStep
<1>2. CASE A!Finish
  BY <1>2, FinishStep
<1>3. ASSUME NEW d \in Devices, NEW U \in SUBSET A!Requested[1], A!Answer(d, U)
      PROVE  AttributionInv'
  BY <1>3, AnswerStep
<1>4. ASSUME NEW f \in inflight, A!Capture(f) PROVE AttributionInv'
  BY <1>4, CaptureStep
<1> QED
  BY <1>1, <1>2, <1>3, <1>4 DEF A!Next

LEMMA AttributionStays == AttributionInv /\ UNCHANGED attributionVars => AttributionInv'
<1> SUFFICES ASSUME AttributionInv, UNCHANGED attributionVars PROVE AttributionInv'
  OBVIOUS
<1> USE DEF AttributionInv, attributionVars
<1>1. FramesAnswer'
  BY DEF FramesAnswer
<1>2. AttributionsHold'
  BY DEF AttributionsHold
<1>3. RecordsOwn'
  BY DEF RecordsOwn, A!Copy
<1>4. A!HistoryCurrent'
  BY DEF A!HistoryCurrent, A!Copy
<1> QED
  BY <1>1, <1>2, <1>3, <1>4

LEMMA AttributionGoal == AttributionInv => A!AttributionSound /\ A!HistoryCurrent
<1> SUFFICES ASSUME AttributionInv PROVE A!AttributionSound
  BY DEF AttributionInv
<1>1. \A i \in 1 .. Len(obs) : obs[i] \in Observations
  BY DEF AttributionInv, AttributionsHold
<1> QED
  BY <1>1 DEF AttributionInv, AttributionsHold, A!AttributionSound

\* An answer attributed to a request by its query id or by the set of its types answered that
\* request, and between commands a device's record holds its own observations as they are known.
THEOREM AttributionsAreSound == AllSpec => []AttributionSound
<1>1. AllInit => AttributionInv
  BY AttributionBegins DEF AllInit
<1>2. AttributionInv /\ [AllNext]_allVars => AttributionInv'
  <2>1. AllNext \/ UNCHANGED allVars => A!Next \/ UNCHANGED attributionVars
    BY DEF AllNext, allVars
  <2> QED
    BY <2>1, AttributionStep, AttributionStays
<1>3. AttributionInv => AttributionSound
  BY AttributionGoal DEF AttributionSound
<1> QED
  BY <1>1, <1>2, <1>3, PTL DEF AllSpec

-------------------------------------------------------------------------------
(* CliCollection.                                                          *)

Owners == [C!Slots -> Devices \cup {None}]

\* The two maps name at every RLOC16 only its owner, and a device that has a place is named
\* there.
MapFits(m, owner) ==
    /\ m = [rec |-> m.rec, loc |-> m.loc]
    /\ m.rec \in [C!Slots -> C!Records \cup {None}]
    /\ m.loc \in [Devices -> C!Slots \cup {None}]
    /\ \A s \in C!Slots :
         m.rec[s] # None => m.rec[s].who \in {C!Unknown, owner[s]}
    /\ \A d \in Devices : m.loc[d] # None =>
         m.rec[m.loc[d]] # None /\ m.rec[m.loc[d]].who = d

\* In the slots S every record names a device, and where it has its place.
Exact(m, S) ==
    \A s \in S : m.rec[s] # None => m.rec[s].who # C!Unknown /\ m.loc[m.rec[s].who] = s

\* The devices in D have answered.
Sticks(m, D) ==
    \A d \in D : /\ m.loc[d] # None /\ m.rec[m.loc[d]].answered
                 /\ m.rec[m.loc[d]].status = "responded"

\* No verdict has been given on a record.
NoVerdict(r) == r.status = "none" /\ r.reach = "none" /\ ~r.answered

\* A frame is of the owner of its slot, and no verdict on it.
FrameFits(f, owner) ==
    /\ f.slot \in C!Slots /\ f.rec \in C!Records /\ f.rec.status = "none"
    /\ ~f.rec.answered /\ f.rec.reach = "none"
    /\ f.rec.who \in Devices /\ f.rec.who = owner[f.slot]

\* What an upsert, or several, may do, slots in T being none of theirs.
Follows(m, n, owner, T) ==
    /\ MapFits(n, owner)
    /\ \A S \in SUBSET C!Slots : Exact(m, S) => Exact(n, S)
    /\ \A D \in SUBSET Devices : Sticks(m, D) => Sticks(n, D)
    /\ \A t \in T : n.rec[t] \in {m.rec[t], None}

LEMMA CollectionConstants ==
    /\ C!Unknown \notin Devices /\ None \notin Devices /\ None \notin C!Slots
    /\ None \notin C!Records /\ None \notin C!Frames
    /\ ChildSlots \subseteq C!Slots /\ RouterSlots \subseteq C!Slots
    /\ Start \in [Devices -> C!Slots]
BY RecordsAssumptions DEF C!CollectionAssumption, C!Slots

LEMMA ReconciledRecord ==
    ASSUME NEW e \in C!Records, NEW i \in C!Records
    PROVE  LET r == C!Reconciled(e, i)
           IN  /\ r \in C!Records
               /\ r.who = IF e.who = C!Unknown THEN i.who ELSE e.who
               /\ r.answered = (e.answered \/ i.answered)
               /\ r.status = IF e.status = "none" THEN i.status ELSE e.status
               /\ r.reach = IF e.reach = "none" THEN i.reach ELSE e.reach
BY DEF C!Records, C!Reconciled

\* Reconciling a record with itself changes nothing.
LEMMA ReconciledSelf == \A e \in C!Records : C!Reconciled(e, e) = e
<1> TAKE e \in C!Records
<1>1. e = [who |-> e.who, rich |-> e.rich, heard |-> e.heard, answered |-> e.answered,
           status |-> e.status, reach |-> e.reach, kids |-> e.kids]
  BY DEF C!Records
<1>2. e.rich \in BOOLEAN /\ e.heard \in BOOLEAN /\ e.answered \in BOOLEAN
  BY DEF C!Records
<1>3. (e.rich \/ e.rich) = e.rich /\ (e.heard \/ e.heard) = e.heard
      /\ (e.answered \/ e.answered) = e.answered
  BY <1>2
<1> QED
  BY <1>1, <1>3 DEF C!Reconciled

LEMMA UpsertStep ==
    ASSUME NEW owner \in Owners, NEW m, MapFits(m, owner), NEW slot \in C!Slots,
           NEW r \in C!Records, r.who = C!Unknown \/ (r.who \in Devices /\ r.who = owner[slot]),
           NEW n, n = C!Upsert(m, slot, r)
    PROVE  /\ MapFits(n, owner)
           /\ \A S \in SUBSET C!Slots :
                Exact(m, S) /\ (r.who # C!Unknown \/ slot \notin S) => Exact(n, S)
           /\ r.status = "none" => \A D \in SUBSET Devices : Sticks(m, D) => Sticks(n, D)
           /\ \A t \in C!Slots \ {slot} : n.rec[t] \in {m.rec[t], None}
           /\ n.rec[slot] # None
           /\ r.who = C!Unknown => n.loc = m.loc
           /\ r.who # C!Unknown => n.loc[r.who] = slot /\ n.rec[slot].who = r.who
           /\ r.answered => n.rec[slot].answered
<1> USE CollectionConstants
<1> DEFINE d == r.who
           old == m.loc[d]
           merged == IF m.rec[slot] = None THEN r ELSE C!Reconciled(m.rec[slot], r)
           moved == IF m.rec[old] = None THEN r ELSE C!Reconciled(r, m.rec[old])
<1>1. /\ m.rec \in [C!Slots -> C!Records \cup {None}] /\ m.loc \in [Devices -> C!Slots \cup {None}]
      /\ \A s \in C!Slots : m.rec[s] # None => m.rec[s].who \in {C!Unknown, owner[s]}
      /\ \A e \in Devices : m.loc[e] # None => m.rec[m.loc[e]] # None /\ m.rec[m.loc[e]].who = e
  BY DEF MapFits
<1>2. m.rec[slot] # None => m.rec[slot] \in C!Records
  BY <1>1
<1>3. /\ merged \in C!Records
      /\ merged.who = IF m.rec[slot] # None /\ m.rec[slot].who # C!Unknown THEN m.rec[slot].who
                      ELSE d
      /\ r.answered => merged.answered
      /\ m.rec[slot] # None /\ m.rec[slot].answered => merged.answered
      /\ m.rec[slot] # None /\ m.rec[slot].status = "responded" => merged.status = "responded"
  <2>1. CASE m.rec[slot] = None
    BY <2>1
  <2>2. CASE m.rec[slot] # None
    BY <1>2, <2>2, ReconciledRecord
  <2> QED
    BY <2>1, <2>2
<1>4. CASE d \in Devices /\ old # None /\ old # slot
  <2>1. n = [rec |-> [m.rec EXCEPT ![old] = None, ![slot] = moved],
             loc |-> [m.loc EXCEPT ![d] = slot]]
    BY <1>4 DEF C!Upsert
  <2>2. old \in C!Slots /\ m.rec[old] # None /\ m.rec[old].who = d /\ m.rec[old] \in C!Records
    BY <1>1, <1>4
  <2>3. /\ moved \in C!Records /\ moved.who = d /\ (r.answered => moved.answered)
        /\ m.rec[old].answered => moved.answered
        /\ r.status = "none" => moved.status = m.rec[old].status
    <3>1. moved = C!Reconciled(r, m.rec[old]) /\ d # C!Unknown
      BY <1>4, <2>2
    <3> HIDE DEF moved, old
    <3> QED
      BY <2>2, <3>1, ReconciledRecord
  <2> HIDE DEF old, merged, moved
  <2>4. /\ n = [rec |-> n.rec, loc |-> n.loc]
        /\ n.rec \in [C!Slots -> C!Records \cup {None}]
        /\ n.loc \in [Devices -> C!Slots \cup {None}]
        /\ \A s \in C!Slots : n.rec[s] = IF s = slot THEN moved
                                         ELSE IF s = old THEN None ELSE m.rec[s]
        /\ \A e \in Devices : n.loc[e] = IF e = d THEN slot ELSE m.loc[e]
    BY <1>1, <1>4, <2>1, <2>2, <2>3
  <2>5. \A e \in Devices : e # d /\ m.loc[e] # None => m.loc[e] # slot /\ m.loc[e] # old
    BY <1>1, <1>4, <2>2
  <2>6. MapFits(n, owner)
    BY <1>1, <1>4, <2>3, <2>4, <2>5 DEF MapFits
  <2>7. ASSUME NEW S \in SUBSET C!Slots, Exact(m, S), d # C!Unknown \/ slot \notin S
        PROVE  Exact(n, S)
    <3> SUFFICES ASSUME NEW s \in S, n.rec[s] # None
                 PROVE  n.rec[s].who # C!Unknown /\ n.loc[n.rec[s].who] = s
      BY DEF Exact
    <3>1. CASE s = slot
      BY <1>4, <2>3, <2>4, <3>1
    <3>2. CASE s # slot
      <4>1. s # old /\ n.rec[s] = m.rec[s] /\ m.rec[s] \in C!Records
        BY <1>1, <2>4, <3>2
      <4>2. m.loc[m.rec[s].who] = s /\ m.rec[s].who \in Devices
        BY <2>7, <4>1 DEF Exact, C!Records
      <4> QED
        BY <2>4, <4>1, <4>2 DEF old
    <3> QED
      BY <3>1, <3>2
  <2>8. ASSUME r.status = "none", NEW D \in SUBSET Devices, Sticks(m, D) PROVE Sticks(n, D)
    <3> SUFFICES ASSUME NEW e \in D
                 PROVE  /\ n.loc[e] # None /\ n.rec[n.loc[e]].answered
                        /\ n.rec[n.loc[e]].status = "responded"
      BY DEF Sticks
    <3>1. /\ m.loc[e] # None /\ m.rec[m.loc[e]].answered
          /\ m.rec[m.loc[e]].status = "responded" /\ m.loc[e] \in C!Slots
      BY <1>1, <2>8 DEF Sticks
    <3>2. CASE e = d
      <4>1. moved.answered /\ moved.status = "responded"
        BY <2>3, <2>8, <3>1, <3>2 DEF old
      <4> QED
        BY <2>4, <3>2, <4>1
    <3>3. CASE e # d
      BY <2>4, <2>5, <3>1, <3>3
    <3> QED
      BY <3>2, <3>3
  <2> QED
    BY <1>4, <2>3, <2>4, <2>6, <2>7, <2>8
<1>5. CASE d = C!Unknown \/ old = None \/ old = slot
  <2>1. n = [rec |-> [m.rec EXCEPT ![slot] = merged],
             loc |-> IF d = C!Unknown THEN m.loc ELSE [m.loc EXCEPT ![d] = slot]]
    BY <1>5 DEF C!Upsert
  <2>2. d # C!Unknown => d \in Devices /\ merged.who = d
    BY <1>1, <1>3
  <2>3. d = C!Unknown => (m.rec[slot] # None => merged.who = m.rec[slot].who)
    BY <1>3
  <2>a. d \in Devices => old \in {None, slot}
    BY <1>5
  <2> HIDE DEF merged
  <2>4. /\ n = [rec |-> n.rec, loc |-> n.loc]
        /\ n.rec \in [C!Slots -> C!Records \cup {None}]
        /\ n.loc \in [Devices -> C!Slots \cup {None}]
        /\ \A s \in C!Slots : n.rec[s] = IF s = slot THEN merged ELSE m.rec[s]
        /\ \A e \in Devices : n.loc[e] = IF e = d THEN slot ELSE m.loc[e]
        /\ d = C!Unknown => n.loc = m.loc
    BY <1>1, <1>3, <2>1, <2>2
  <2>5. \A e \in Devices : e # d /\ m.loc[e] = slot =>
          d = C!Unknown /\ m.rec[slot] # None /\ merged.who = e
    BY <1>1, <1>3, <2>3
  <2>6. MapFits(n, owner)
    <3>1. \A s \in C!Slots : n.rec[s] # None => n.rec[s].who \in {C!Unknown, owner[s]}
      BY <1>1, <1>3, <2>2, <2>4
    <3>2. \A e \in Devices : n.loc[e] # None => n.rec[n.loc[e]] # None /\ n.rec[n.loc[e]].who = e
      BY <1>1, <1>3, <2>2, <2>4, <2>5
    <3> QED
      BY <2>4, <3>1, <3>2 DEF MapFits
  <2>7. ASSUME NEW S \in SUBSET C!Slots, Exact(m, S), d # C!Unknown \/ slot \notin S
        PROVE  Exact(n, S)
    <3> SUFFICES ASSUME NEW s \in S, n.rec[s] # None
                 PROVE  n.rec[s].who # C!Unknown /\ n.loc[n.rec[s].who] = s
      BY DEF Exact
    <3>1. CASE s = slot /\ d # C!Unknown
      BY <2>2, <2>4, <3>1
    <3>2. CASE s # slot
      <4>1. n.rec[s] = m.rec[s] /\ m.rec[s] \in C!Records
        BY <1>1, <2>4, <3>2
      <4>2. m.loc[m.rec[s].who] = s /\ m.rec[s].who \in Devices
        BY <2>7, <4>1 DEF Exact, C!Records
      <4> QED
        BY <2>7, <2>a, <2>4, <3>2, <4>1, <4>2
    <3> QED
      BY <2>7, <3>1, <3>2
  <2>8. ASSUME r.status = "none", NEW D \in SUBSET Devices, Sticks(m, D) PROVE Sticks(n, D)
    <3> SUFFICES ASSUME NEW e \in D
                 PROVE  /\ n.loc[e] # None /\ n.rec[n.loc[e]].answered
                        /\ n.rec[n.loc[e]].status = "responded"
      BY DEF Sticks
    <3>1. /\ m.loc[e] # None /\ m.rec[m.loc[e]].answered
          /\ m.rec[m.loc[e]].status = "responded" /\ m.loc[e] \in C!Slots
          /\ m.rec[m.loc[e]] # None
      BY <1>1, <2>8 DEF Sticks
    <3>2. n.loc[e] = m.loc[e]
      BY <2>a, <2>4, <3>1
    <3> QED
      BY <1>3, <2>4, <3>1, <3>2
  <2> QED
    BY <1>3, <2>2, <2>4, <2>6, <2>7, <2>8
<1> QED
  BY <1>4, <1>5

\* Every set of numbers has a least one.
LEMMA LeastNumber == ASSUME NEW T \in SUBSET Nat, T # {} PROVE \E x \in T : \A y \in T : ~(y < x)
<1> DEFINE Less == OpToRel(<, Nat)
<1>1. IsWellFoundedOn(Less, Nat)
  BY NatLessThanWellFounded
<1>2. \A x, y \in Nat : <<x, y>> \in Less <=> x < y
  BY DEF OpToRel
<1> HIDE DEF Less
<1>3. \E x \in T : \A y \in T : ~ (<<y, x>> \in Less)
  BY <1>1, WFMin
<1> QED
  BY <1>2, <1>3

\* What holds of 0, and of each number after one of which it holds, holds up to n.
LEMMA UpTo ==
  ASSUME NEW n \in Nat, NEW T, 0 \in T, \A i \in 0..n - 1 : i \in T => i + 1 \in T
  PROVE  \A i \in 0..n : i \in T
<1> SUFFICES ASSUME \E i \in 0..n : i \notin T PROVE FALSE
  OBVIOUS
<1> DEFINE U == {i \in 0..n : i \notin T}
<1>1. U \in SUBSET Nat /\ U # {}
  OBVIOUS
<1>2. PICK x \in U : \A y \in U : ~(y < x)
  BY <1>1, LeastNumber
<1>3. x - 1 \in 0..n - 1 /\ x - 1 \notin U
  BY <1>2
<1>4. x - 1 \in T
  BY <1>3
<1> QED
  BY <1>2, <1>3, <1>4

\* The maps after the first i of the frames, up to k.
Way(f, m, frames, k) ==
    f = [i \in 0 .. k |-> IF i = 0 THEN m
                          ELSE C!Upsert(f[i - 1], frames[i].slot, frames[i].rec)]

LEMMA WayExists ==
    ASSUME NEW m, NEW frames, Len(frames) \in Nat
    PROVE  \E f : Way(f, m, frames, Len(frames))
<1> DEFINE T == {k \in 0 .. Len(frames) : \E f : Way(f, m, frames, k)}
<1>1. 0 \in T
  <2>1. Way([i \in 0 .. 0 |-> m], m, frames, 0)
    BY DEF Way
  <2> QED
    BY <2>1
<1>2. ASSUME NEW k \in 0 .. Len(frames) - 1, k \in T PROVE k + 1 \in T
  <2>1. PICK f : Way(f, m, frames, k)
    BY <1>2
  <2> DEFINE more == C!Upsert(f[k], frames[k + 1].slot, frames[k + 1].rec)
             g == [i \in 0 .. k + 1 |-> IF i = k + 1 THEN more ELSE f[i]]
  <2>2. ASSUME NEW i \in 0 .. k + 1
        PROVE  g[i] = IF i = 0 THEN m ELSE C!Upsert(g[i - 1], frames[i].slot, frames[i].rec)
    <3>1. CASE i = k + 1
      <4>1. i # 0 /\ i - 1 = k /\ g[i - 1] = f[k] /\ g[i] = more
        BY <3>1
      <4> QED
        BY <3>1, <4>1
    <3>2. CASE i \in 1 .. k
      <4>1. g[i] = f[i] /\ g[i - 1] = f[i - 1] /\ i # 0 /\ i \in 0 .. k
        BY <3>2
      <4>2. f[i] = C!Upsert(f[i - 1], frames[i].slot, frames[i].rec)
        BY <2>1, <4>1 DEF Way
      <4> QED
        BY <4>1, <4>2
    <3>3. CASE i = 0
      <4>1. g[i] = f[0] /\ 0 \in 0 .. k
        BY <3>3
      <4> QED
        BY <2>1, <3>3, <4>1 DEF Way
    <3> QED
      BY <3>1, <3>2, <3>3
  <2>3. g = [i \in 0 .. k + 1 |-> g[i]]
    OBVIOUS
  <2> HIDE DEF g
  <2>4. Way(g, m, frames, k + 1)
    BY <2>2, <2>3 DEF Way
  <2>5. k + 1 \in 0 .. Len(frames)
    OBVIOUS
  <2> QED
    BY <2>4, <2>5
<1> HIDE DEF T
<1>3. \A k \in 0 .. Len(frames) : k \in T
  BY <1>1, <1>2, UpTo
<1> QED
  BY <1>3 DEF T

LEMMA FollowsTrans ==
    ASSUME NEW owner, NEW T, NEW k, NEW m, NEW n, Follows(k, m, owner, T), Follows(m, n, owner, T)
    PROVE  Follows(k, n, owner, T)
BY DEF Follows

LEMMA FollowsSelf ==
    ASSUME NEW owner, NEW T, NEW m, MapFits(m, owner)
    PROVE  Follows(m, m, owner, T)
BY DEF Follows

\* An upsert of a frame.
LEMMA FrameUpserted ==
    ASSUME NEW owner \in Owners, NEW m, MapFits(m, owner), NEW f, FrameFits(f, owner),
           NEW T \in SUBSET C!Slots, f.slot \notin T
    PROVE  Follows(m, C!Upsert(m, f.slot, f.rec), owner, T)
<1> DEFINE n == C!Upsert(m, f.slot, f.rec)
<1>1. /\ f.slot \in C!Slots /\ f.rec \in C!Records /\ f.rec.status = "none"
      /\ f.rec.who \in Devices /\ f.rec.who = owner[f.slot]
  BY DEF FrameFits
<1>2. /\ MapFits(n, owner)
      /\ \A S \in SUBSET C!Slots : Exact(m, S) => Exact(n, S)
      /\ \A D \in SUBSET Devices : Sticks(m, D) => Sticks(n, D)
      /\ \A t \in C!Slots \ {f.slot} : n.rec[t] \in {m.rec[t], None}
  BY <1>1, UpsertStep, CollectionConstants
<1> HIDE DEF n
<1>3. Follows(m, n, owner, T)
  BY <1>2 DEF Follows
<1> QED
  BY <1>3 DEF n

\* ... and of several.
LEMMA FramesUpserted ==
    ASSUME NEW owner \in Owners, NEW m, MapFits(m, owner), NEW frames, Len(frames) \in Nat,
           NEW T \in SUBSET C!Slots,
           \A i \in 1 .. Len(frames) : FrameFits(frames[i], owner) /\ frames[i].slot \notin T
    PROVE  Follows(m, C!UpsertAll(m, frames), owner, T)
<1>1. PICK g : g = CHOOSE f : Way(f, m, frames, Len(frames))
  OBVIOUS
<1>2. Way(g, m, frames, Len(frames))
  BY <1>1, WayExists
<1>3. C!UpsertAll(m, frames) = g[Len(frames)]
  BY <1>1 DEF C!UpsertAll, Way
<1> DEFINE U == {i \in 0 .. Len(frames) : Follows(m, g[i], owner, T)}
<1>4. 0 \in U
  <2>1. g[0] = m
    BY <1>2 DEF Way
  <2> QED
    BY <2>1, FollowsSelf
<1>5. ASSUME NEW i \in 0 .. Len(frames) - 1, i \in U PROVE i + 1 \in U
  <2>1. /\ i + 1 \in 1 .. Len(frames) /\ i + 1 \in 0 .. Len(frames) /\ i + 1 # 0
        /\ (i + 1) - 1 = i
    OBVIOUS
  <2>2. g[i + 1] = C!Upsert(g[i], frames[i + 1].slot, frames[i + 1].rec)
    BY <1>2, <2>1 DEF Way
  <2>3. Follows(m, g[i], owner, T) /\ MapFits(g[i], owner)
    BY <1>5 DEF Follows
  <2>4. Follows(g[i], g[i + 1], owner, T)
    BY <2>1, <2>2, <2>3, FrameUpserted
  <2>5. Follows(m, g[i + 1], owner, T)
    BY <2>3, <2>4, FollowsTrans
  <2> QED
    BY <2>1, <2>5
<1> HIDE DEF U
<1>6. \A i \in 0 .. Len(frames) : i \in U
  BY <1>4, <1>5, UpTo
<1>7. Len(frames) \in U
  BY <1>6
<1> QED
  BY <1>3, <1>7 DEF U

\* The mesh, the answers on their way and the consolidated ones are of the owners of their
\* slots; nobody but its owner has ever had a slot.
MeshFits(owner) ==
    /\ \A d \in Devices : owner[at[d]] = d
    /\ \A s \in C!Slots : owner[s] # None => s \in used
    /\ \A f \in late : FrameFits(f, owner)
    /\ \A d \in DOMAIN cast[2] : FrameFits(cast[2][d], owner)

\* Frames of other slots than this one.
Foreign(frames, slot, owner) ==
    /\ frames \in Seq(C!Frames)
    /\ \A i \in 1 .. Len(frames) : FrameFits(frames[i], owner) /\ frames[i].slot # slot

\* What a query has received: an answer of the owner of its slot, and frames of other slots.
HeardFits(t, owner) ==
    /\ t.answer # None => FrameFits([slot |-> t.slot, rec |-> t.answer], owner)
    /\ Foreign(t.caught, t.slot, owner)

\* The query of a router has put its record aside; that of a child only gives up where nobody
\* has answered.
TryFits ==
    \/ try = C!Idle
    \/ /\ phase = "routers" /\ try.slot \in todo
       /\ try = [slot |-> try.slot, n |-> try.n, prior |-> try.prior, answer |-> try.answer,
                 caught |-> try.caught]
       /\ try.prior = records[try.slot]
    \/ /\ phase = "children" /\ try.slot \in todo
       /\ try = [slot |-> try.slot, policy |-> try.policy, n |-> try.n, answer |-> try.answer,
                 caught |-> try.caught, end |-> try.end]
       /\ try.end \in {"exhausted", "silent"} =>
            /\ try.answer = None
            /\ records[try.slot] = None \/ ~records[try.slot].answered

Fits(owner) ==
    MeshFits(owner) /\ MapFits(C!Maps, owner) /\ (try # C!Idle => HeardFits(try, owner))

CollectionTypes ==
    /\ at \in [Devices -> C!Slots] /\ used \subseteq C!Slots /\ late \subseteq C!Frames
    /\ phase \in {"table", "meshdiag", "cast", "routers", "children", "done"}
    /\ DOMAIN cast[2] \subseteq Devices /\ direct \subseteq Devices /\ routers \subseteq RouterSlots
    /\ todo \subseteq IF phase = "routers" THEN routers ELSE ChildSlots

\* The slots in which a device is only named where it has its place.
Certain ==
    IF phase \in {"table", "meshdiag", "cast"} THEN C!Slots
    ELSE IF phase = "routers" THEN todo ELSE {}

\* The checkpoint lacks at most what known routers have answered.
Current == \A s \in C!Slots : saved[s] = records[s] \/ C!Lags(s)

CollectionInv ==
    /\ CollectionTypes
    /\ TryFits
    /\ phase \notin {"table", "meshdiag"} => Current
    /\ phase \notin {"children", "done"} => direct = {}
    /\ Sticks(C!Maps, direct)
    /\ Exact(C!Maps, Certain)
    /\ \E owner \in Owners : Fits(owner)

LEMMA DevicesFinite == IsFiniteSet(Devices) /\ \A S : C!Cardinality(S) = Cardinality(S)
<1>1. C!IsFiniteSet(Devices)
  BY RecordsAssumptions DEF C!CollectionAssumption
<1>2. \A S : C!IsFiniteSet(S) <=> IsFiniteSet(S)
  BY DEF C!IsFiniteSet, IsFiniteSet
<1>3. \A S : C!Cardinality(S) = Cardinality(S)
  BY DEF C!Cardinality, Cardinality
<1> QED
  BY <1>1, <1>2, <1>3

LEMMA NothingUpserted ==
    ASSUME NEW m, NEW frames, Len(frames) = 0 PROVE C!UpsertAll(m, frames) = m
<1>1. PICK g : g = CHOOSE f : Way(f, m, frames, Len(frames))
  OBVIOUS
<1>2. Way(g, m, frames, Len(frames))
  <2>1. Len(frames) \in Nat
    OBVIOUS
  <2> QED
    BY <1>1, <2>1, WayExists
<1>3. C!UpsertAll(m, frames) = g[Len(frames)]
  BY <1>1 DEF C!UpsertAll, Way
<1> QED
  BY <1>2, <1>3 DEF Way

\* Rows of several devices, put into the map in some order.
LEMMA RowsUpserted ==
    ASSUME NEW owner \in Owners, NEW m, MapFits(m, owner), NEW ds \in SUBSET Devices, NEW row,
           \A d \in ds : FrameFits(row[d], owner),
           NEW frames \in C!SetToSeqs({row[d] : d \in ds})
    PROVE  /\ Follows(m, C!UpsertAll(m, frames), owner, {})
           /\ ds = {} => C!UpsertAll(m, frames) = m
<1> DEFINE rows == {row[d] : d \in ds}
<1>1. IsFiniteSet(rows)
  <2>1. IsFiniteSet(ds)
    BY DevicesFinite, FS_Subset
  <2>2. [d \in ds |-> row[d]] \in Surjection(ds, rows)
    BY DEF Surjection
  <2> QED
    BY <2>1, <2>2, FS_Surjection
<1>2. Cardinality(rows) \in Nat /\ (ds = {} => Cardinality(rows) = 0)
  BY <1>1, FS_CardinalityType, FS_EmptySet
<1>3. frames \in [1 .. Cardinality(rows) -> rows]
  BY DevicesFinite DEF C!SetToSeqs
<1> HIDE DEF rows
<1>4. Len(frames) = Cardinality(rows)
  BY <1>2, <1>3
<1>5. \A i \in 1 .. Len(frames) : FrameFits(frames[i], owner)
  BY <1>3, <1>4 DEF rows
<1>6. Follows(m, C!UpsertAll(m, frames), owner, {})
  BY <1>2, <1>4, <1>5, FramesUpserted
<1>7. ASSUME ds = {} PROVE C!UpsertAll(m, frames) = m
  <2>1. Len(frames) = 0
    BY <1>2, <1>4, <1>7
  <2> QED
    BY <2>1, NothingUpserted
<1> QED
  BY <1>6, <1>7

\* What a device is recorded with, and what it says.
LEMMA RowFits ==
    ASSUME NEW owner, NEW d \in Devices, NEW s \in C!Slots, owner[s] = d,
           NEW rich \in BOOLEAN, NEW sent \in BOOLEAN, NEW kids \in SUBSET ChildSlots
    PROVE  FrameFits([slot |-> s, rec |-> C!Record(d, rich, sent, kids)], owner)
<1>1. C!Record(d, rich, sent, kids) \in C!Records
  BY DEF C!Record, C!Records
<1>2. LET r == C!Record(d, rich, sent, kids)
      IN  r.who = d /\ r.status = "none" /\ r.reach = "none" /\ ~r.answered
  BY DEF C!Record
<1> HIDE DEF C!Record
<1> QED
  BY <1>1, <1>2 DEF FrameFits

LEMMA SaysFits ==
    ASSUME NEW owner, NEW d \in Devices, at[d] \in C!Slots, owner[at[d]] = d, NEW rich \in BOOLEAN
    PROVE  /\ FrameFits([slot |-> at[d], rec |-> C!Says(d, rich)], owner)
           /\ C!Says(d, rich) \in C!Records
<1> DEFINE kids == IF rich /\ at[d] \in RouterSlots THEN C!KidsOf(at[d]) ELSE {}
<1>1. kids \in SUBSET ChildSlots
  BY DEF C!KidsOf
<1>2. C!Says(d, rich) = C!Record(d, rich, TRUE, kids)
  BY DEF C!Says
<1> HIDE DEF kids
<1>3. FrameFits([slot |-> at[d], rec |-> C!Record(d, rich, TRUE, kids)], owner)
  BY <1>1, RowFits
<1> QED
  BY <1>2, <1>3 DEF FrameFits

LEMMA NoTry == C!Idle.slot = None /\ (try.slot \in C!Slots => try # C!Idle)
BY CollectionConstants DEF C!Idle

LEMMA CollectionBegins == C!Init => CollectionInv
<1> SUFFICES ASSUME C!Init PROVE CollectionInv
  OBVIOUS
<1> USE CollectionConstants
<1> DEFINE owner == [s \in C!Slots |-> IF \E d \in Devices : Start[d] = s
                                       THEN CHOOSE d \in Devices : Start[d] = s ELSE None]
<1>1. owner \in Owners
  BY DEF Owners
<1>2. \A d \in Devices : owner[at[d]] = d
  <2>1. \A d, e \in Devices : Start[d] = Start[e] => d = e
    BY RecordsAssumptions DEF C!CollectionAssumption
  <2> QED
    BY <2>1 DEF C!Init
<1>3. MeshFits(owner)
  <2>1. DOMAIN cast[2] = {}
    BY DEF C!Init
  <2> QED
    BY <1>2, <2>1 DEF C!Init, MeshFits
<1>4. MapFits(C!Maps, owner)
  BY DEF C!Init, MapFits, C!Maps
<1>5. Fits(owner)
  BY <1>3, <1>4 DEF Fits, C!Init
<1> HIDE DEF owner
<1>6. CollectionTypes
  <2>1. DOMAIN cast[2] = {}
    BY DEF C!Init
  <2> QED
    BY <2>1 DEF C!Init, CollectionTypes
<1>7. Sticks(C!Maps, direct) /\ Exact(C!Maps, Certain) /\ TryFits
  BY DEF C!Init, Sticks, Exact, C!Maps, TryFits, Certain
<1>8. phase = "table" /\ direct = {}
  BY DEF C!Init
<1> QED
  BY <1>1, <1>5, <1>6, <1>7, <1>8 DEF CollectionInv

LEMMA MoveStep == ASSUME CollectionInv, NEW d \in Devices, C!Move(d) PROVE CollectionInv'
<1> USE CollectionConstants
<1>1. PICK s \in C!Slots \ used : at' = [at EXCEPT ![d] = s] /\ used' = used \cup {s}
  BY DEF C!Move
<1>2. UNCHANGED << late, phase, cast, todo, routers, try, records, locations, saved, direct >>
  BY DEF C!Move
<1>3. PICK owner \in Owners : Fits(owner)
  BY DEF CollectionInv
<1> DEFINE mine == [owner EXCEPT ![s] = d]
<1>4. mine \in Owners /\ mine[s] = d /\ \A t \in C!Slots : t # s => mine[t] = owner[t]
  BY DEF Owners
<1>5. owner[s] = None
  BY <1>3 DEF Fits, MeshFits
<1> HIDE DEF mine
<1>6. \A f : FrameFits(f, owner) => FrameFits(f, mine)
  BY <1>4, <1>5 DEF FrameFits
<1>7. at \in [Devices -> C!Slots]
  BY DEF CollectionInv, CollectionTypes
<1>8. MeshFits(mine)'
  <2>1. \A e \in Devices : at[e] # s
    BY <1>3, <1>5, <1>7 DEF Fits, MeshFits
  <2>2. \A e \in Devices : mine[at'[e]] = e
    BY <1>1, <1>3, <1>4, <1>7, <2>1 DEF Fits, MeshFits
  <2>3. \A t \in C!Slots : mine[t] # None => t \in used'
    BY <1>1, <1>3, <1>4 DEF Fits, MeshFits
  <2> QED
    BY <1>2, <1>3, <1>6, <2>2, <2>3 DEF Fits, MeshFits
<1>9. MapFits(C!Maps, mine)
  <2>1. MapFits(C!Maps, owner) /\ C!Maps.rec = records
    BY <1>3 DEF Fits, C!Maps
  <2>2. \A t \in C!Slots : C!Maps.rec[t] # None => C!Maps.rec[t].who \in {C!Unknown, mine[t]}
    <3> SUFFICES ASSUME NEW t \in C!Slots, C!Maps.rec[t] # None
                 PROVE  C!Maps.rec[t].who \in {C!Unknown, mine[t]}
      OBVIOUS
    <3>1. C!Maps.rec[t] \in C!Records /\ C!Maps.rec[t].who \in {C!Unknown, owner[t]}
      BY <2>1 DEF MapFits
    <3>2. C!Maps.rec[t].who \in Devices \cup {C!Unknown}
      BY <3>1 DEF C!Records
    <3> QED
      BY <1>4, <1>5, <3>1, <3>2
  <2> QED
    BY <2>1, <2>2 DEF MapFits
<1>10. C!Maps' = C!Maps
  BY <1>2 DEF C!Maps
<1>11. Fits(mine)'
  <2>1. try # C!Idle => HeardFits(try, mine)
    BY <1>3, <1>6 DEF Fits, HeardFits, Foreign
  <2> QED
    BY <1>2, <1>8, <1>9, <1>10, <2>1 DEF Fits, HeardFits
<1>12. CollectionTypes'
  BY <1>1, <1>2, <1>7 DEF CollectionInv, CollectionTypes
<1>13. TryFits'
  BY <1>2 DEF CollectionInv, TryFits
<1>14. Certain' = Certain
  BY <1>2 DEF Certain
<1>15. Sticks(C!Maps, direct)' /\ Exact(C!Maps, Certain)'
  BY <1>2, <1>10, <1>14 DEF CollectionInv
<1>16. Current <=> Current'
  BY <1>2 DEF Current, C!Lags
<1> QED
  BY <1>2, <1>4, <1>11, <1>12, <1>13, <1>15, <1>16 DEF CollectionInv

\* What the map becomes when it is replaced.
LEMMA MapsKept == ASSUME NEW m, NEW owner, MapFits(m, owner), C!Keep(m) PROVE C!Maps' = m
BY DEF MapFits, C!Keep, C!Maps

\* A step that puts frames into the map.
LEMMA MapsFollow ==
    ASSUME CollectionInv, NEW owner \in Owners, NEW T, Follows(C!Maps, C!Maps', owner, T),
           Certain' \subseteq Certain
    PROVE  /\ MapFits(C!Maps, owner)' /\ Sticks(C!Maps', direct)
           /\ Exact(C!Maps, Certain)'
<1> USE CollectionConstants
<1>1. direct \in SUBSET Devices /\ Certain \in SUBSET C!Slots
  BY DEF CollectionInv, CollectionTypes, Certain
<1>2. Exact(C!Maps', Certain) /\ Sticks(C!Maps', direct) /\ MapFits(C!Maps', owner)
  BY <1>1 DEF CollectionInv, Follows
<1>3. Exact(C!Maps', Certain')
  BY <1>2 DEF Exact
<1> QED
  BY <1>2, <1>3

\* A step that changes neither the mesh nor the answers on their way.
LEMMA MeshFitsKept ==
    ASSUME NEW owner, MeshFits(owner), UNCHANGED << at, used, cast >>, late' \subseteq late
    PROVE  MeshFits(owner)'
BY DEF MeshFits

LEMMA ListedFit ==
    ASSUME CollectionInv, NEW owner \in Owners, Fits(owner), NEW d \in Devices
    PROVE  /\ at[d] \in C!Slots /\ owner[at[d]] = d
           /\ FrameFits([slot |-> at[d], rec |-> C!Record(d, FALSE, FALSE, {})], owner)
           /\ FrameFits([slot |-> at[d], rec |-> C!Record(d, FALSE, FALSE, C!KidsOf(at[d]))],
                        owner)
<1>1. at[d] \in C!Slots /\ owner[at[d]] = d
  BY DEF CollectionInv, CollectionTypes, Fits, MeshFits
<1>2. {} \in SUBSET ChildSlots /\ C!KidsOf(at[d]) \in SUBSET ChildSlots
  BY DEF C!KidsOf
<1> QED
  BY <1>1, <1>2, RowFits

LEMMA RouterTableStep == ASSUME CollectionInv, C!RouterTable PROVE CollectionInv'
<1> USE CollectionConstants
<1>1. /\ phase = "table" /\ phase' = "meshdiag"
      /\ UNCHANGED << at, used, late, cast, todo, try, direct >>
  BY DEF C!RouterTable, C!mesh
<1>2. PICK ds \in {C!ListedRouters, {}} :
        /\ \E frames \in C!SetToSeqs({[slot |-> at[d], rec |-> C!Record(d, FALSE, FALSE, {})] :
                                        d \in ds}) :
             C!Keep(C!UpsertAll(C!Maps, frames))
        /\ routers' = {at[d] : d \in ds}
  BY DEF C!RouterTable
<1>3. ds \in SUBSET Devices /\ routers' \subseteq RouterSlots
  BY <1>2 DEF C!ListedRouters
<1>4. PICK owner \in Owners : Fits(owner)
  BY DEF CollectionInv
<1> DEFINE row == [d \in ds |-> [slot |-> at[d], rec |-> C!Record(d, FALSE, FALSE, {})]]
           rows == {row[d] : d \in ds}
<1>5. PICK frames \in C!SetToSeqs(rows) : C!Keep(C!UpsertAll(C!Maps, frames))
  <2>1. rows = {[slot |-> at[d], rec |-> C!Record(d, FALSE, FALSE, {})] : d \in ds}
    OBVIOUS
  <2> QED
    BY <1>2, <2>1
<1>6. \A d \in ds : FrameFits(row[d], owner)
  BY <1>3, <1>4, ListedFit
<1> HIDE DEF row
<1>7. Follows(C!Maps, C!UpsertAll(C!Maps, frames), owner, {})
  BY <1>3, <1>4, <1>5, <1>6, RowsUpserted DEF Fits
<1>8. C!Maps' = C!UpsertAll(C!Maps, frames)
  BY <1>5, <1>7, MapsKept DEF Follows
<1>9. Certain' = Certain
  BY <1>1 DEF Certain
<1>10. MapFits(C!Maps, owner)' /\ Sticks(C!Maps', direct) /\ Exact(C!Maps, Certain)'
  BY <1>7, <1>8, <1>9, MapsFollow
<1>11. CollectionTypes'
  BY <1>1, <1>3 DEF CollectionInv, CollectionTypes
<1>12. try = C!Idle
  BY <1>1, NoTry DEF CollectionInv, TryFits
<1>13. Fits(owner)'
  BY <1>1, <1>4, <1>10, <1>12, MeshFitsKept DEF Fits, C!Idle
<1>14. TryFits'
  BY <1>1, <1>12 DEF TryFits, C!Idle
<1> QED
  BY <1>1, <1>10, <1>11, <1>13, <1>14 DEF CollectionInv

LEMMA MeshdiagStep == ASSUME CollectionInv, C!Meshdiag PROVE CollectionInv'
<1> USE CollectionConstants
<1>1. /\ phase = "meshdiag" /\ phase' = "cast" /\ saved' = records'
      /\ UNCHANGED << at, used, late, cast, todo, routers, try, direct >>
  BY DEF C!Meshdiag, C!mesh
<1> DEFINE said(d) == [slot |-> at[d], rec |-> C!Record(d, FALSE, FALSE, C!KidsOf(at[d]))]
<1>2. PICK ds \in {C!ListedRouters, {}} :
        \E frames \in C!SetToSeqs({said(d) : d \in ds}) : C!Keep(C!UpsertAll(C!Maps, frames))
  BY DEF C!Meshdiag
<1>3. ds \in SUBSET Devices
  BY <1>2 DEF C!ListedRouters
<1>4. PICK owner \in Owners : Fits(owner)
  BY DEF CollectionInv
<1> DEFINE row == [d \in ds |-> said(d)]
           rows == {row[d] : d \in ds}
<1>5. PICK frames \in C!SetToSeqs(rows) : C!Keep(C!UpsertAll(C!Maps, frames))
  <2>1. rows = {said(d) : d \in ds}
    OBVIOUS
  <2> QED
    BY <1>2, <2>1
<1>6. \A d \in ds : FrameFits(row[d], owner)
  BY <1>3, <1>4, ListedFit
<1> HIDE DEF row
<1>7. Follows(C!Maps, C!UpsertAll(C!Maps, frames), owner, {})
  BY <1>3, <1>4, <1>5, <1>6, RowsUpserted DEF Fits
<1>8. C!Maps' = C!UpsertAll(C!Maps, frames)
  BY <1>5, <1>7, MapsKept DEF Follows
<1>9. Certain' = Certain
  BY <1>1 DEF Certain
<1>10. MapFits(C!Maps, owner)' /\ Sticks(C!Maps', direct) /\ Exact(C!Maps, Certain)'
  BY <1>7, <1>8, <1>9, MapsFollow
<1>11. CollectionTypes'
  BY <1>1, <1>3 DEF CollectionInv, CollectionTypes
<1>12. try = C!Idle
  BY <1>1, NoTry DEF CollectionInv, TryFits
<1>13. Fits(owner)'
  BY <1>1, <1>4, <1>10, <1>12, MeshFitsKept DEF Fits, C!Idle
<1>14. TryFits'
  BY <1>1, <1>12 DEF TryFits, C!Idle
<1>15. Current'
  BY <1>1 DEF Current
<1> QED
  BY <1>1, <1>10, <1>11, <1>13, <1>14, <1>15 DEF CollectionInv

LEMMA JoinStep == ASSUME CollectionInv, C!Join PROVE CollectionInv'
<1> USE CollectionConstants
<1> DEFINE ds == DOMAIN cast[2]
           row == cast[2]
<1>1. /\ phase = "cast" /\ phase' = "routers" /\ todo' = routers
      /\ saved' = IF ds = {} THEN saved ELSE records'
      /\ UNCHANGED << at, used, late, cast, routers, try, direct >>
  BY DEF C!Join, C!mesh
<1>2. PICK frames \in C!SetToSeqs({row[d] : d \in ds}) : C!Keep(C!UpsertAll(C!Maps, frames))
  BY DEF C!Join
<1>3. ds \in SUBSET Devices
  BY DEF CollectionInv, CollectionTypes
<1>4. PICK owner \in Owners : Fits(owner)
  BY DEF CollectionInv
<1>6. \A d \in ds : FrameFits(row[d], owner)
  BY <1>4 DEF Fits, MeshFits
<1> HIDE DEF row, ds
<1>7. /\ Follows(C!Maps, C!UpsertAll(C!Maps, frames), owner, {})
      /\ ds = {} => C!UpsertAll(C!Maps, frames) = C!Maps
  BY <1>2, <1>3, <1>4, <1>6, RowsUpserted DEF Fits
<1>8. C!Maps' = C!UpsertAll(C!Maps, frames)
  BY <1>2, <1>7, MapsKept DEF Follows
<1>9. Certain' \subseteq Certain
  BY <1>1 DEF Certain, CollectionInv, CollectionTypes
<1>10. MapFits(C!Maps, owner)' /\ Sticks(C!Maps', direct) /\ Exact(C!Maps, Certain)'
  BY <1>7, <1>8, <1>9, MapsFollow
<1>11. CollectionTypes'
  BY <1>1, <1>3 DEF CollectionInv, CollectionTypes
<1>12. try = C!Idle
  BY <1>1, NoTry DEF CollectionInv, TryFits
<1>13. Fits(owner)'
  BY <1>1, <1>4, <1>10, <1>12, MeshFitsKept DEF Fits, C!Idle
<1>14. TryFits'
  BY <1>1, <1>12 DEF TryFits, C!Idle
<1>15. Current'
  <2>1. C!Maps' = C!Maps => records' = records
    BY DEF C!Maps
  <2>2. \A s \in C!Slots : saved[s] = records[s]
    BY <1>1 DEF CollectionInv, Current, C!Lags
  <2> QED
    BY <1>1, <1>7, <1>8, <2>1, <2>2 DEF Current
<1> QED
  BY <1>1, <1>10, <1>11, <1>13, <1>14, <1>15 DEF CollectionInv

LEMMA CastStep ==
    ASSUME CollectionInv, NEW ds \in SUBSET Devices, NEW ls \in SUBSET Devices, C!Cast(ds, ls)
    PROVE  CollectionInv'
<1> USE CollectionConstants
<1> DEFINE rich == cast[1] = 0
           told == cast[2]
<1>1. /\ phase = "cast"
      /\ UNCHANGED << at, used, phase, todo, routers, try, records, locations, saved, direct >>
      /\ late' = late \cup {[dev |-> d, slot |-> at[d], rec |-> C!Says(d, rich)] : d \in ls}
      /\ cast'[2] = [d \in DOMAIN told \cup ds |->
                       IF d \notin ds THEN told[d]
                       ELSE IF d \notin DOMAIN told THEN [slot |-> at[d], rec |-> C!Says(d, rich)]
                       ELSE [told[d] EXCEPT !.rec = C!Reconciled(@, C!Says(d, rich))]]
  BY DEF C!Cast, C!mesh
<1>2. PICK owner \in Owners : Fits(owner)
  BY DEF CollectionInv
<1>3. rich \in BOOLEAN
  OBVIOUS
<1> HIDE DEF rich
<1>4. ASSUME NEW d \in Devices
      PROVE  /\ at[d] \in C!Slots /\ C!Says(d, rich) \in C!Records
             /\ FrameFits([slot |-> at[d], rec |-> C!Says(d, rich)], owner)
  <2>1. at[d] \in C!Slots /\ owner[at[d]] = d
    BY <1>2, ListedFit
  <2> QED
    BY <1>3, <2>1, SaysFits
<1>5. \A f \in late' : f \in C!Frames /\ FrameFits(f, owner)
  <2> SUFFICES ASSUME NEW d \in ls
               PROVE  LET f == [dev |-> d, slot |-> at[d], rec |-> C!Says(d, rich)]
                      IN  f \in C!Frames /\ FrameFits(f, owner)
    BY <1>1, <1>2 DEF CollectionInv, CollectionTypes, Fits, MeshFits
  <2> QED
    BY <1>4 DEF C!Frames, FrameFits
<1>6. /\ DOMAIN told \subseteq Devices
      /\ \A d \in DOMAIN told : FrameFits(told[d], owner)
  BY <1>2 DEF CollectionInv, CollectionTypes, Fits, MeshFits
<1> HIDE DEF told
<1>7. ASSUME NEW d \in DOMAIN cast'[2] PROVE FrameFits(cast'[2][d], owner)
  <2>1. d \in Devices
    BY <1>1, <1>6
  <2>2. CASE d \notin ds
    BY <1>1, <1>6, <2>2
  <2>3. CASE d \in ds /\ d \notin DOMAIN told
    BY <1>1, <1>4, <2>3
  <2>4. CASE d \in ds /\ d \in DOMAIN told
    <3> DEFINE all == C!Reconciled(told[d].rec, C!Says(d, rich))
    <3>1. cast'[2][d] = [told[d] EXCEPT !.rec = all]
      BY <1>1, <2>4
    <3>2. /\ told[d].rec \in C!Records /\ told[d].slot \in C!Slots
          /\ told[d].rec.who \in Devices /\ told[d].rec.who = owner[told[d].slot]
          /\ NoVerdict(told[d].rec)
      BY <1>6, <2>4 DEF FrameFits, NoVerdict
    <3>3. C!Says(d, rich) \in C!Records /\ NoVerdict(C!Says(d, rich))
      BY <1>4, <2>1 DEF FrameFits, NoVerdict
    <3>4. all \in C!Records /\ all.who = told[d].rec.who /\ NoVerdict(all)
      BY <3>2, <3>3, CollectionConstants, ReconciledRecord DEF NoVerdict
    <3> HIDE DEF all
    <3> QED
      BY <3>1, <3>2, <3>4 DEF FrameFits, NoVerdict
  <2> QED
    BY <2>2, <2>3, <2>4
<1>8. Fits(owner)'
  <2>1. MeshFits(owner)'
    BY <1>1, <1>2, <1>5, <1>7 DEF Fits, MeshFits
  <2>2. C!Maps' = C!Maps
    BY <1>1 DEF C!Maps
  <2>3. MapFits(C!Maps, owner)'
    BY <1>2, <2>2 DEF Fits
  <2> QED
    BY <1>1, <1>2, <2>1, <2>3 DEF Fits
<1>9. CollectionTypes'
  BY <1>1, <1>5, <1>6 DEF CollectionInv, CollectionTypes
<1>10. TryFits'
  BY <1>1 DEF CollectionInv, TryFits
<1>11. Sticks(C!Maps, direct)' /\ Exact(C!Maps, Certain)'
  BY <1>1 DEF CollectionInv, Certain, C!Maps
<1>12. Current <=> Current'
  BY <1>1 DEF Current, C!Lags
<1> QED
  BY <1>1, <1>8, <1>9, <1>10, <1>11, <1>12 DEF CollectionInv

\* Where the map stays and the checkpoint does, or follows it, it lacks no more than before.
LEMMA CurrentKept ==
    ASSUME CollectionInv, CollectionTypes', phase \in {"routers", "children"},
           phase' \in {phase, "children", "done"}, phase' = "routers" => todo' \subseteq todo,
           UNCHANGED << routers, records >>, saved' \in {saved, records}
    PROVE  Current'
<1>1. ASSUME NEW s \in C!Slots, C!Lags(s), saved' = saved PROVE C!Lags(s)'
  <2>1. s \in routers' \ todo'
    <3>1. s \in RouterSlots /\ s \notin ChildSlots
      BY <1>1, RecordsAssumptions
      DEF C!CollectionAssumption, C!Lags, CollectionInv, CollectionTypes
    <3> QED
      BY <1>1, <3>1 DEF C!Lags, CollectionTypes
  <2> QED
    BY <1>1, <2>1 DEF C!Lags
<1>2. Current
  BY DEF CollectionInv
<1>3. CASE saved' = saved
  BY <1>1, <1>2, <1>3 DEF Current
<1>4. CASE saved' = records
  BY <1>4 DEF Current
<1> QED
  BY <1>3, <1>4

\* A step of the collector that leaves the maps and everything they came from alone.
LEMMA QuietStep ==
    ASSUME CollectionInv, CollectionTypes', TryFits', phase' \in {phase, "children", "done"},
           phase \in {"routers", "children"}, Certain' \subseteq Certain, late' \subseteq late,
           phase' = "routers" => todo' \subseteq todo, saved' \in {saved, records},
           UNCHANGED << at, used, cast, routers, records, locations, direct >>,
           \A owner \in Owners : Fits(owner) /\ try' # C!Idle => HeardFits(try', owner)
    PROVE  CollectionInv'
<1>1. C!Maps' = C!Maps
  BY DEF C!Maps
<1>2. Exact(C!Maps, Certain)' /\ Sticks(C!Maps, direct)'
  BY <1>1 DEF CollectionInv, Exact
<1>3. PICK owner \in Owners : Fits(owner)
  BY DEF CollectionInv
<1>4. MeshFits(owner)' /\ MapFits(C!Maps, owner)'
  BY <1>1, <1>3, MeshFitsKept DEF Fits
<1>5. HeardFits(try, owner)' <=> HeardFits(try', owner)
  BY DEF HeardFits, Foreign, FrameFits
<1>6. Fits(owner)'
  BY <1>3, <1>4, <1>5 DEF Fits, C!Idle
<1>7. Current'
  BY CurrentKept
<1> QED
  BY <1>2, <1>6, <1>7 DEF CollectionInv

LEMMA RouterSkipStep ==
    ASSUME CollectionInv, NEW r \in RouterSlots, C!RouterSkip(r) PROVE CollectionInv'
<1> USE CollectionConstants
<1>1. /\ phase = "routers" /\ try = C!Idle /\ r \in todo /\ records[r] # None
      /\ C!Keep(C!Upsert(C!Maps, r, records[r])) /\ todo' = todo \ {r}
      /\ saved' \in {saved, records'}
      /\ UNCHANGED << at, used, late, phase, cast, routers, try, direct >>
  BY DEF C!RouterSkip, C!KnownWell, C!mesh
<1>2. PICK owner \in Owners : Fits(owner)
  BY DEF CollectionInv
<1>3. /\ records \in [C!Slots -> C!Records \cup {None}]
      /\ locations \in [Devices -> C!Slots \cup {None}] /\ records[r] \in C!Records
  BY <1>1, <1>2 DEF Fits, MapFits, C!Maps
<1>4. records[r].who # C!Unknown => records[r].who \in Devices /\ locations[records[r].who] = r
  BY <1>1, <1>3 DEF CollectionInv, Exact, Certain, C!Maps, C!Records
<1>5. C!Reconciled(records[r], records[r]) = records[r]
  BY <1>3, ReconciledSelf
<1>6. C!Upsert(C!Maps, r, records[r]) = C!Maps
  <2> DEFINE d == records[r].who
             old == IF d = C!Unknown THEN None ELSE locations[d]
             loc == IF d = C!Unknown THEN locations ELSE [locations EXCEPT ![d] = r]
  <2>1. old \in {None, r} /\ loc = locations
    BY <1>3, <1>4
  <2>2. C!Upsert(C!Maps, r, records[r]) =
          [rec |-> [records EXCEPT ![r] = IF @ = None THEN records[r]
                                          ELSE C!Reconciled(@, records[r])],
           loc |-> loc]
    BY <2>1 DEF C!Upsert, C!Maps
  <2>3. [records EXCEPT ![r] = IF @ = None THEN records[r] ELSE C!Reconciled(@, records[r])]
          = records
    BY <1>1, <1>3, <1>5
  <2> HIDE DEF loc
  <2> QED
    BY <2>1, <2>2, <2>3 DEF C!Maps
<1>7. UNCHANGED << records, locations >>
  BY <1>1, <1>6 DEF C!Keep, C!Maps
<1>8. CollectionTypes' /\ TryFits' /\ Certain' \subseteq Certain
  BY <1>1, <1>7 DEF CollectionInv, CollectionTypes, TryFits, Certain, C!Idle
<1> QED
  BY <1>1, <1>7, <1>8, QuietStep DEF Fits

LEMMA RouterStartStep ==
    ASSUME CollectionInv, NEW r \in RouterSlots, C!RouterStart(r) PROVE CollectionInv'
<1>1. /\ phase = "routers" /\ r \in todo
      /\ try' = [slot |-> r, n |-> 0, prior |-> records[r], answer |-> None, caught |-> << >>]
      /\ UNCHANGED << at, used, late, phase, cast, todo, routers, records, locations, saved,
                      direct >>
  BY DEF C!RouterStart, C!mesh
<1>2. CollectionTypes' /\ Certain' \subseteq Certain
  BY <1>1 DEF CollectionInv, CollectionTypes, Certain
<1>3. TryFits'
  BY <1>1 DEF TryFits
<1>4. \A owner \in Owners : HeardFits(try', owner)
  BY <1>1 DEF HeardFits, Foreign
<1> QED
  BY <1>1, <1>2, <1>3, <1>4, QuietStep

\* The children a router lists are children.
LEMMA ExpandStep == ASSUME CollectionInv, C!Expand PROVE CollectionInv'
<1>1. /\ phase = "routers" /\ try = C!Idle /\ phase' = "children"
      /\ todo' = UNION {records[r].kids : r \in {s \in routers : records[s] # None}}
      /\ UNCHANGED << at, used, late, cast, routers, try, records, locations, saved, direct >>
  BY DEF C!Expand, C!mesh
<1>2. PICK owner \in Owners : Fits(owner)
  BY DEF CollectionInv
<1>3. records \in [C!Slots -> C!Records \cup {None}]
  BY <1>2 DEF Fits, MapFits, C!Maps
<1>4. \A r \in routers : records[r] # None => records[r].kids \subseteq ChildSlots
  BY <1>3, CollectionConstants DEF CollectionInv, CollectionTypes, C!Records
<1>5. todo' \subseteq ChildSlots
  BY <1>1, <1>4
<1>6. CollectionTypes' /\ Certain' \subseteq Certain
  BY <1>1, <1>5 DEF CollectionInv, CollectionTypes, Certain
<1>7. TryFits'
  BY <1>1 DEF TryFits, C!Idle
<1> QED
  BY <1>1, <1>6, <1>7, QuietStep DEF Fits

LEMMA OpenFits ==
    ASSUME NEW c, NEW p
    PROVE  LET t == C!Open(c, p)
           IN  /\ t = [slot |-> t.slot, policy |-> t.policy, n |-> t.n, answer |-> t.answer,
                       caught |-> t.caught, end |-> t.end]
               /\ t.slot = c /\ t.end = "open"
               /\ \A owner : HeardFits(t, owner)
BY DEF C!Open, HeardFits, Foreign

LEMMA ChildStartStep ==
    ASSUME CollectionInv, NEW c \in ChildSlots, C!ChildStart(c) PROVE CollectionInv'
<1>1. /\ phase = "children" /\ c \in todo /\ try' = C!Open(c, 1)
      /\ UNCHANGED << at, used, late, phase, cast, todo, routers, records, locations, saved,
                      direct >>
  BY DEF C!ChildStart, C!mesh
<1>2. CollectionTypes' /\ Certain' \subseteq Certain
  BY <1>1 DEF CollectionInv, CollectionTypes, Certain
<1>3. TryFits' /\ \A owner \in Owners : HeardFits(try', owner)
  BY <1>1, OpenFits DEF TryFits
<1> QED
  BY <1>1, <1>2, <1>3, QuietStep

\* What a query of a child is made of.
LEMMA ChildTry ==
    ASSUME CollectionInv, phase = "children", try # C!Idle
    PROVE  /\ try = [slot |-> try.slot, policy |-> try.policy, n |-> try.n,
                     answer |-> try.answer, caught |-> try.caught, end |-> try.end]
           /\ try.slot \in todo /\ try.slot \in ChildSlots /\ try.slot \in C!Slots
           /\ try.end \in {"exhausted", "silent"} =>
                /\ try.answer = None
                /\ records[try.slot] = None \/ ~records[try.slot].answered
BY CollectionConstants DEF CollectionInv, TryFits, CollectionTypes

LEMMA ChildSatisfiedStep == ASSUME CollectionInv, C!ChildSatisfied PROVE CollectionInv'
<1>1. /\ phase = "children" /\ try # C!Idle /\ try' = [try EXCEPT !.end = "satisfied"]
      /\ UNCHANGED << at, used, late, phase, cast, todo, routers, records, locations, saved,
                      direct >>
  BY DEF C!ChildSatisfied, C!mesh
<1>2. try = [slot |-> try.slot, policy |-> try.policy, n |-> try.n,
             answer |-> try.answer, caught |-> try.caught, end |-> try.end] /\ try.slot \in todo
  BY <1>1, ChildTry
<1>3. try' = [slot |-> try.slot, policy |-> try.policy, n |-> try.n,
              answer |-> try.answer, caught |-> try.caught, end |-> "satisfied"]
  BY <1>1, <1>2
<1>4. CollectionTypes' /\ Certain' \subseteq Certain
  BY <1>1 DEF CollectionInv, CollectionTypes, Certain
<1>5. TryFits'
  BY <1>1, <1>2, <1>3 DEF TryFits
<1>6. \A owner \in Owners : Fits(owner) => HeardFits(try', owner)
  BY <1>1, <1>3 DEF Fits, HeardFits
<1> QED
  BY <1>1, <1>4, <1>5, <1>6, QuietStep

LEMMA DoneStep == ASSUME CollectionInv, C!Done PROVE CollectionInv'
<1>1. /\ phase = "children" /\ try = C!Idle /\ todo = {} /\ phase' = "done" /\ late' = {}
      /\ UNCHANGED << at, used, cast, todo, routers, try, records, locations, saved, direct >>
  BY DEF C!Done, C!mesh
<1>2. CollectionTypes' /\ Certain' \subseteq Certain
  BY <1>1 DEF CollectionInv, CollectionTypes, Certain
<1>3. TryFits'
  BY <1>1 DEF TryFits, C!Idle
<1> QED
  BY <1>1, <1>2, <1>3, QuietStep DEF Fits

LEMMA OutputParts ==
    ASSUME NEW owns, NEW strays, NEW out \in {[own |-> a, stray |-> f] : a \in owns, f \in strays}
    PROVE  out.own \in owns /\ out.stray \in strays
<1>1. PICK a \in owns, f \in strays : out = [own |-> a, stray |-> f]
  OBVIOUS
<1> QED
  BY <1>1

\* What one command prints: an answer of the slot's owner, and frames of other slots.
LEMMA OutputFits ==
    ASSUME CollectionInv, NEW owner \in Owners, Fits(owner), NEW slot \in C!Slots,
           NEW out \in C!Outputs(slot)
    PROVE  /\ C!Answered(out, slot) # None =>
                FrameFits([slot |-> slot, rec |-> C!Answered(out, slot)], owner)
           /\ Foreign(C!Caught(out, slot), slot, owner)
<1> USE CollectionConstants
<1>1. /\ out.own # None => \E d \in Devices : at[d] = slot /\ out.own = C!Says(d, TRUE)
      /\ out.stray # None => out.stray \in late
  <2> DEFINE owns == {C!Says(d, TRUE) : d \in {x \in Devices : at[x] = slot}}
             some == owns \cup {None}
             strays == late \cup {None}
  <2>1. C!Outputs(slot) = {[own |-> a, stray |-> f] : a \in some, f \in strays}
    BY DEF C!Outputs
  <2>2. out.own \in some /\ out.stray \in strays
    <3> HIDE DEF some, strays
    <3> QED
      BY <2>1, OutputParts
  <2> QED
    BY <2>2
<1>2. out.own # None => FrameFits([slot |-> slot, rec |-> out.own], owner)
  <2> SUFFICES ASSUME NEW d \in Devices, at[d] = slot, out.own = C!Says(d, TRUE)
               PROVE  FrameFits([slot |-> slot, rec |-> out.own], owner)
    BY <1>1
  <2>1. owner[at[d]] = d
    BY ListedFit
  <2> QED
    BY <2>1, SaysFits
<1>3. out.stray # None => out.stray \in C!Frames /\ FrameFits(out.stray, owner)
  BY <1>1 DEF CollectionInv, CollectionTypes, Fits, MeshFits
<1>4. ASSUME out.own # None, out.stray # None, out.stray.slot = slot
      PROVE  FrameFits([slot |-> slot, rec |-> C!Reconciled(out.stray.rec, out.own)], owner)
  <2> DEFINE both == C!Reconciled(out.stray.rec, out.own)
  <2>1. /\ out.stray.rec \in C!Records /\ out.own \in C!Records
        /\ out.stray.rec.who \in Devices /\ out.stray.rec.who = owner[slot]
        /\ NoVerdict(out.stray.rec) /\ NoVerdict(out.own)
    BY <1>2, <1>3, <1>4 DEF FrameFits, NoVerdict
  <2>2. both \in C!Records /\ both.who = out.stray.rec.who /\ NoVerdict(both)
    BY <2>1, ReconciledRecord DEF NoVerdict
  <2> HIDE DEF both
  <2>3. FrameFits([slot |-> slot, rec |-> both], owner)
    BY <2>1, <2>2 DEF FrameFits, NoVerdict
  <2> QED
    BY <2>3 DEF both
<1>5. ASSUME out.stray # None, out.stray.slot = slot
      PROVE  FrameFits([slot |-> slot, rec |-> out.stray.rec], owner)
  BY <1>3, <1>5 DEF FrameFits
<1>6. C!Answered(out, slot) # None =>
        FrameFits([slot |-> slot, rec |-> C!Answered(out, slot)], owner)
  BY <1>2, <1>4, <1>5 DEF C!Answered
<1>7. Foreign(C!Caught(out, slot), slot, owner)
  <2>1. CASE out.stray # None /\ out.stray.slot # slot
    <3>1. C!Caught(out, slot) = << out.stray >>
      BY <2>1 DEF C!Caught
    <3> QED
      BY <1>3, <2>1, <3>1 DEF Foreign
  <2>2. CASE out.stray = None \/ out.stray.slot = slot
    <3>1. C!Caught(out, slot) = << >>
      BY <2>2 DEF C!Caught
    <3> QED
      BY <3>1 DEF Foreign
  <2> QED
    BY <2>1, <2>2
<1> QED
  BY <1>6, <1>7

\* The frames caught so far, with those of one more command.
LEMMA CaughtFits ==
    ASSUME NEW owner, NEW slot, NEW cs, NEW more, Foreign(cs, slot, owner),
           Foreign(more, slot, owner)
    PROVE  Foreign(cs \o more, slot, owner)
<1>1. cs \in Seq(C!Frames) /\ more \in Seq(C!Frames)
  BY DEF Foreign
<1>2. /\ cs \o more \in Seq(C!Frames) /\ Len(cs \o more) = Len(cs) + Len(more)
      /\ \A i \in 1 .. Len(cs) + Len(more) :
           (cs \o more)[i] = IF i <= Len(cs) THEN cs[i] ELSE more[i - Len(cs)]
  BY <1>1
<1> DEFINE both == cs \o more
<1> HIDE DEF both
<1>3. ASSUME NEW i \in 1 .. Len(both)
      PROVE  FrameFits(both[i], owner) /\ both[i].slot # slot
  <2>1. CASE i <= Len(cs)
    <3>1. i \in 1 .. Len(cs) /\ both[i] = cs[i]
      BY <1>1, <1>2, <2>1 DEF both
    <3> QED
      BY <3>1 DEF Foreign
  <2>2. CASE ~(i <= Len(cs))
    <3>1. i - Len(cs) \in 1 .. Len(more) /\ both[i] = more[i - Len(cs)]
      BY <1>1, <1>2, <2>2 DEF both
    <3> QED
      BY <3>1 DEF Foreign
  <2> QED
    BY <2>1, <2>2
<1>4. both \in Seq(C!Frames)
  BY <1>2 DEF both
<1> QED
  BY <1>3, <1>4 DEF both, Foreign

\* What a query of a router is made of.
LEMMA RouterTry ==
    ASSUME CollectionInv, phase = "routers", try # C!Idle
    PROVE  /\ try = [slot |-> try.slot, n |-> try.n, prior |-> try.prior,
                     answer |-> try.answer, caught |-> try.caught]
           /\ try.slot \in todo /\ try.slot \in RouterSlots /\ try.slot \in C!Slots
           /\ try.prior = records[try.slot]
BY CollectionConstants DEF CollectionInv, TryFits, CollectionTypes

LEMMA RouterQueryStep == ASSUME CollectionInv, C!RouterQuery PROVE CollectionInv'
<1>1. /\ phase = "routers" /\ try # C!Idle /\ try.answer = None
      /\ UNCHANGED << at, used, phase, cast, todo, routers, records, locations, saved, direct >>
  BY DEF C!RouterQuery, C!mesh
<1>2. PICK out \in C!Outputs(try.slot) :
        /\ try' = [try EXCEPT !.n = @ + 1, !.answer = C!Answered(out, try.slot),
                              !.caught = @ \o C!Caught(out, try.slot)]
        /\ late' = late \ {out.stray}
  BY DEF C!RouterQuery
<1>3. /\ try = [slot |-> try.slot, n |-> try.n, prior |-> try.prior,
                answer |-> try.answer, caught |-> try.caught]
      /\ try.slot \in todo /\ try.slot \in C!Slots /\ try.prior = records[try.slot]
  BY <1>1, RouterTry
<1>4. try' = [slot |-> try.slot, n |-> try.n + 1, prior |-> try.prior,
              answer |-> C!Answered(out, try.slot),
              caught |-> try.caught \o C!Caught(out, try.slot)]
  BY <1>2, <1>3
<1>5. CollectionTypes' /\ Certain' \subseteq Certain
  BY <1>1, <1>2 DEF CollectionInv, CollectionTypes, Certain
<1>6. TryFits'
  BY <1>1, <1>3, <1>4 DEF TryFits
<1>7. ASSUME NEW owner \in Owners, Fits(owner) PROVE HeardFits(try', owner)
  <2>1. /\ try'.answer # None => FrameFits([slot |-> try.slot, rec |-> try'.answer], owner)
        /\ Foreign(C!Caught(out, try.slot), try.slot, owner)
    BY <1>3, <1>4, <1>7, OutputFits
  <2>2. Foreign(try.caught, try.slot, owner)
    BY <1>1, <1>7 DEF Fits, HeardFits
  <2>3. /\ try'.caught = try.caught \o C!Caught(out, try.slot) /\ try'.slot = try.slot
    BY <1>4
  <2>4. Foreign(try'.caught, try.slot, owner)
    BY <2>1, <2>2, <2>3, CaughtFits
  <2> QED
    BY <2>1, <2>3, <2>4 DEF HeardFits
<1>8. late' \subseteq late
  BY <1>2
<1> QED
  BY <1>1, <1>5, <1>6, <1>7, <1>8, QuietStep

LEMMA ChildQueryStep == ASSUME CollectionInv, C!ChildQuery PROVE CollectionInv'
<1>1. /\ phase = "children" /\ try # C!Idle
      /\ UNCHANGED << at, used, phase, cast, todo, routers, records, locations, saved, direct >>
  BY DEF C!ChildQuery, C!mesh
<1> DEFINE slot == try.slot
           a(out) == C!Answered(out, slot)
           all(out) == IF a(out) = None THEN try.answer
                       ELSE IF try.answer = None THEN a(out)
                       ELSE C!Reconciled(try.answer, a(out))
<1>2. PICK out \in C!Outputs(slot), end \in {"responded", "open", "retained", "exhausted"} :
        /\ try' = [try EXCEPT !.n = @ + 1, !.answer = all(out),
                              !.caught = @ \o C!Caught(out, slot), !.end = end]
        /\ late' = late \ {out.stray}
        /\ end = "exhausted" => a(out) = None /\ ~C!AnsweredBefore(slot)
  <2> DEFINE last == try.n + 1 = C!Attempts(try.policy)
             end(out) == IF a(out) # None
                         THEN IF Policies[try.policy] = "fast" \/ last THEN "responded" ELSE "open"
                         ELSE IF C!AnsweredBefore(slot) THEN "retained"
                         ELSE IF last THEN "exhausted" ELSE "open"
             next(out) == [try EXCEPT !.n = @ + 1, !.answer = all(out),
                                      !.caught = @ \o C!Caught(out, slot), !.end = end(out)]
  <2>1. PICK out \in C!Outputs(slot) : try' = next(out) /\ late' = late \ {out.stray}
    BY DEF C!ChildQuery
  <2>2. /\ end(out) \in {"responded", "open", "retained", "exhausted"}
        /\ end(out) = "exhausted" => a(out) = None /\ ~C!AnsweredBefore(slot)
    OBVIOUS
  <2> HIDE DEF a, all, end
  <2> QED
    BY <2>1, <2>2
<1>3. /\ try = [slot |-> try.slot, policy |-> try.policy, n |-> try.n,
                answer |-> try.answer, caught |-> try.caught, end |-> try.end]
      /\ slot \in todo /\ slot \in C!Slots
  BY <1>1, ChildTry
<1> DEFINE found == all(out)
           gathered == try.caught \o C!Caught(out, slot)
<1>4. try' = [slot |-> slot, policy |-> try.policy, n |-> try.n + 1,
              answer |-> found, caught |-> gathered, end |-> end]
  <2> HIDE DEF found, gathered
  <2>1. try' = [try EXCEPT !.n = @ + 1, !.answer = found, !.caught = gathered, !.end = end]
    BY <1>2 DEF found, gathered
  <2> QED
    BY <1>3, <2>1
<1>5. CollectionTypes' /\ Certain' \subseteq Certain
  BY <1>1, <1>2 DEF CollectionInv, CollectionTypes, Certain
<1>6. end = "exhausted" => found = None /\ (records[slot] = None \/ ~records[slot].answered)
  BY <1>2 DEF C!AnsweredBefore
<1>7. TryFits'
  <2> HIDE DEF found, gathered
  <2>1. /\ try' = [slot |-> try'.slot, policy |-> try'.policy, n |-> try'.n,
                   answer |-> try'.answer, caught |-> try'.caught, end |-> try'.end]
        /\ try'.slot = slot /\ try'.end = end /\ try'.answer = found
    BY <1>4
  <2> QED
    BY <1>1, <1>2, <1>3, <1>6, <2>1 DEF TryFits
<1>8. ASSUME NEW owner \in Owners, Fits(owner) PROVE HeardFits(try', owner)
  <2>1. /\ a(out) # None => FrameFits([slot |-> slot, rec |-> a(out)], owner)
        /\ Foreign(C!Caught(out, slot), slot, owner)
    BY <1>3, <1>8, OutputFits
  <2>2. /\ try.answer # None => FrameFits([slot |-> slot, rec |-> try.answer], owner)
        /\ Foreign(try.caught, slot, owner)
    BY <1>1, <1>8 DEF Fits, HeardFits
  <2>3. found # None => FrameFits([slot |-> slot, rec |-> found], owner)
    <3>1. CASE a(out) # None /\ try.answer # None
      <4>1. /\ try.answer \in C!Records /\ a(out) \in C!Records
            /\ try.answer.who \in Devices /\ try.answer.who = owner[slot]
            /\ try.answer.status = "none" /\ a(out).status = "none"
            /\ ~try.answer.answered /\ ~a(out).answered
            /\ try.answer.reach = "none" /\ a(out).reach = "none"
        BY <2>1, <2>2, <3>1 DEF FrameFits
      <4>2. found = C!Reconciled(try.answer, a(out))
        BY <3>1
      <4> HIDE DEF found, a
      <4>3. /\ found \in C!Records /\ found.who = try.answer.who /\ found.status = "none"
            /\ ~found.answered /\ found.reach = "none"
        BY <4>1, <4>2, CollectionConstants, ReconciledRecord
      <4> QED
        BY <1>3, <4>1, <4>3 DEF FrameFits
    <3>2. CASE a(out) = None \/ try.answer = None
      BY <2>1, <2>2, <3>2
    <3> QED
      BY <3>1, <3>2
  <2>4. Foreign(gathered, slot, owner)
    BY <2>1, <2>2, CaughtFits
  <2> HIDE DEF found, gathered
  <2> QED
    BY <1>4, <2>3, <2>4 DEF HeardFits
<1>9. late' \subseteq late
  BY <1>2
<1> QED
  BY <1>1, <1>5, <1>7, <1>8, <1>9, QuietStep

\* The map after a verdict on a slot.
Verdict(m, slot, status, reach) ==
    [m EXCEPT !.rec[slot].status = status, !.rec[slot].reach = reach]
Judged(r, status, reach) ==
    [who |-> r.who, rich |-> r.rich, heard |-> r.heard, answered |-> r.answered,
     status |-> status, reach |-> reach, kids |-> r.kids]

LEMMA VerdictForm ==
    ASSUME NEW m, NEW rec, NEW loc, NEW S, NEW slot \in S, DOMAIN rec = S,
           rec = [s \in S |-> rec[s]], m = [rec |-> rec, loc |-> loc],
           rec[slot] \in C!Records, NEW status, NEW reach
    PROVE  Verdict(m, slot, status, reach)
             = [rec |-> [rec EXCEPT ![slot] = Judged(rec[slot], status, reach)], loc |-> loc]
<1> DEFINE r == rec[slot]
           one == [r EXCEPT !.status = status]
           k == [m EXCEPT !.rec[slot].status = status]
<1>1. r = [who |-> r.who, rich |-> r.rich, heard |-> r.heard, answered |-> r.answered,
           status |-> r.status, reach |-> r.reach, kids |-> r.kids]
  BY DEF C!Records
<1>2. one = [who |-> r.who, rich |-> r.rich, heard |-> r.heard, answered |-> r.answered,
             status |-> status, reach |-> r.reach, kids |-> r.kids]
  <2> HIDE DEF r
  <2> QED
    BY <1>1
<1>3. [one EXCEPT !.reach = reach] = Judged(r, status, reach)
  <2> HIDE DEF r, one
  <2> QED
    BY <1>2 DEF Judged
<1>4. k = [rec |-> [rec EXCEPT ![slot] = one], loc |-> loc]
  <2> HIDE DEF r, one
  <2>1. k = [m EXCEPT !.rec = [rec EXCEPT ![slot] = one]]
    BY DEF one, r
  <2> DEFINE told == [rec EXCEPT ![slot] = one]
  <2> HIDE DEF k, told
  <2>2. k = [m EXCEPT !.rec = told]
    BY <2>1 DEF told
  <2>3. k = [rec |-> told, loc |-> loc]
    BY <2>2
  <2> QED
    BY <2>3 DEF told
<1> DEFINE told == [rec EXCEPT ![slot] = one]
<1>5. told[slot] = one /\ DOMAIN told = S
  <2> HIDE DEF one
  <2> QED
    OBVIOUS
<1>6. Verdict(m, slot, status, reach) = [k EXCEPT !.rec[slot].reach = reach]
  BY DEF Verdict
<1>7. [k EXCEPT !.rec[slot].reach = reach]
        = [rec |-> [told EXCEPT ![slot] = [one EXCEPT !.reach = reach]], loc |-> loc]
  <2>1. k = [rec |-> told, loc |-> loc]
    BY <1>4
  <2> HIDE DEF k, told, one
  <2> QED
    BY <1>5, <2>1
<1>8. [told EXCEPT ![slot] = [one EXCEPT !.reach = reach]]
        = [rec EXCEPT ![slot] = Judged(r, status, reach)]
  <2> HIDE DEF one, r
  <2> QED
    BY <1>3
<1> QED
  BY <1>6, <1>7, <1>8

\* A verdict changes nothing of a record but its status and whether it was reached.
LEMMA VerdictSet ==
    ASSUME NEW owner \in Owners, NEW m, MapFits(m, owner), NEW slot \in C!Slots,
           m.rec[slot] # None, NEW status \in {"none", "responded", "no-response"},
           NEW reach \in {"none", "reachable", "unknown"},
           NEW n, n = Verdict(m, slot, status, reach)
    PROVE  /\ MapFits(n, owner) /\ n.loc = m.loc
           /\ \A s \in C!Slots \ {slot} : n.rec[s] = m.rec[s]
           /\ n.rec[slot] # None /\ n.rec[slot].who = m.rec[slot].who
           /\ m.rec[slot].answered => n.rec[slot].answered
           /\ n.rec[slot].status = status
<1> USE CollectionConstants
<1> DEFINE r == m.rec[slot]
           v == Judged(r, status, reach)
<1>1. /\ m = [rec |-> m.rec, loc |-> m.loc] /\ m.rec \in [C!Slots -> C!Records \cup {None}]
      /\ m.loc \in [Devices -> C!Slots \cup {None}] /\ r \in C!Records
  BY DEF MapFits
<1>2. v \in C!Records /\ v.who = r.who /\ v.answered = r.answered /\ v.status = status
  BY <1>1 DEF C!Records, Judged
<1>4. n = [rec |-> [m.rec EXCEPT ![slot] = v], loc |-> m.loc]
  BY <1>1, VerdictForm
<1> HIDE DEF v, r
<1>5. /\ n = [rec |-> n.rec, loc |-> n.loc] /\ n.loc = m.loc
      /\ n.rec \in [C!Slots -> C!Records \cup {None}]
      /\ n.rec[slot] = v /\ \A s \in C!Slots \ {slot} : n.rec[s] = m.rec[s]
  BY <1>1, <1>2, <1>4
<1>6. v # None
  BY <1>2
<1>7. \A s \in C!Slots : n.rec[s] # None => m.rec[s] # None /\ n.rec[s].who = m.rec[s].who
  BY <1>2, <1>5 DEF r
<1>8. \A s \in C!Slots : m.rec[s] # None => n.rec[s] # None /\ n.rec[s].who = m.rec[s].who
  BY <1>2, <1>5, <1>6 DEF r
<1>9. MapFits(n, owner)
  BY <1>1, <1>5, <1>7, <1>8 DEF MapFits
<1> QED
  BY <1>2, <1>5, <1>6, <1>9 DEF r

\* A step of the collector that changes the maps.
LEMMA MapStep ==
    ASSUME CollectionInv, phase \in {"routers", "children"}, CollectionTypes', TryFits',
           UNCHANGED << at, used, late, cast, phase >>,
           NEW owner \in Owners, Fits(owner), MapFits(C!Maps', owner),
           try' # C!Idle => HeardFits(try', owner),
           Sticks(C!Maps', direct'), Exact(C!Maps', Certain'), Current',
           phase = "routers" => direct' = {}
    PROVE  CollectionInv'
<1>1. MeshFits(owner)'
  BY MeshFitsKept DEF Fits
<1>2. HeardFits(try, owner)' <=> HeardFits(try', owner)
  BY DEF HeardFits, Foreign, FrameFits
<1>3. Fits(owner)'
  BY <1>1, <1>2 DEF Fits, C!Idle
<1>4. Sticks(C!Maps, direct)' /\ Exact(C!Maps, Certain)'
  OBVIOUS
<1> QED
  BY <1>3, <1>4 DEF CollectionInv

\* The frames that were caught join the map, which keeps to the slot of the query.
LEMMA CaughtJoin ==
    ASSUME CollectionInv, NEW owner \in Owners, Fits(owner), try # C!Idle, try.slot \in C!Slots
    PROVE  /\ Follows(C!Maps, C!UpsertAll(C!Maps, try.caught), owner, {try.slot})
           /\ MapFits(C!UpsertAll(C!Maps, try.caught), owner)
           /\ \A s \in {try.slot} : C!UpsertAll(C!Maps, try.caught).rec[s] \in {records[s], None}
<1> DEFINE n == C!UpsertAll(C!Maps, try.caught)
<1>1. Foreign(try.caught, try.slot, owner) /\ MapFits(C!Maps, owner)
  BY DEF Fits, HeardFits
<1>2. Len(try.caught) \in Nat /\ {try.slot} \in SUBSET C!Slots
  BY <1>1 DEF Foreign
<1>3. \A i \in 1 .. Len(try.caught) :
        FrameFits(try.caught[i], owner) /\ try.caught[i].slot \notin {try.slot}
  BY <1>1 DEF Foreign
<1>4. Follows(C!Maps, n, owner, {try.slot})
  BY <1>1, <1>2, <1>3, FramesUpserted
<1> HIDE DEF n
<1>5. MapFits(n, owner) /\ \A s \in {try.slot} : n.rec[s] \in {records[s], None}
  BY <1>4 DEF Follows, C!Maps
<1> QED
  BY <1>4, <1>5 DEF n

\* A router that did not answer gets its record back: nobody else was put in its slot.
LEMMA FallbackFits ==
    ASSUME NEW owner \in Owners, NEW m, MapFits(m, owner), NEW slot \in C!Slots,
           NEW prior \in C!Records \cup {None}, m.rec[slot] \in {prior, None},
           prior # None => prior.who \in {C!Unknown, owner[slot]},
           NEW n, n = C!Fallback(m, slot, prior)
    PROVE  /\ MapFits(n, owner)
           /\ \A S \in SUBSET C!Slots : slot \notin S /\ Exact(m, S) => Exact(n, S)
<1> USE CollectionConstants
<1> DEFINE back == IF prior = None THEN C!Placeholder ELSE [prior EXCEPT !.heard = TRUE]
<1>1. back \in C!Records
  BY DEF C!Placeholder, C!Record, C!Records
<1>2. back.who = IF prior = None THEN C!Unknown ELSE prior.who
  <2>1. prior # None => [prior EXCEPT !.heard = TRUE].who = prior.who
    BY DEF C!Records
  <2> QED
    BY <2>1 DEF C!Placeholder, C!Record
<1>3. /\ m = [rec |-> m.rec, loc |-> m.loc] /\ m.rec \in [C!Slots -> C!Records \cup {None}]
      /\ m.loc \in [Devices -> C!Slots \cup {None}]
      /\ \A s \in C!Slots : m.rec[s] # None => m.rec[s].who \in {C!Unknown, owner[s]}
      /\ \A d \in Devices : m.loc[d] # None => m.rec[m.loc[d]] # None /\ m.rec[m.loc[d]].who = d
  BY DEF MapFits
<1>4. n = [m EXCEPT !.rec[slot] = back]
  BY DEF C!Fallback
<1> HIDE DEF back
<1>5. n = [rec |-> [m.rec EXCEPT ![slot] = back], loc |-> m.loc]
  BY <1>3, <1>4
<1>6. /\ n = [rec |-> n.rec, loc |-> n.loc] /\ n.loc = m.loc
      /\ n.rec \in [C!Slots -> C!Records \cup {None}]
      /\ n.rec[slot] = back /\ \A s \in C!Slots \ {slot} : n.rec[s] = m.rec[s]
  BY <1>1, <1>3, <1>5
<1>7. \A s \in C!Slots : n.rec[s] # None => n.rec[s].who \in {C!Unknown, owner[s]}
  BY <1>2, <1>3, <1>6
<1>8. ASSUME NEW d \in Devices, n.loc[d] # None
      PROVE  n.rec[n.loc[d]] # None /\ n.rec[n.loc[d]].who = d
  <2>1. n.loc[d] = m.loc[d] /\ m.loc[d] \in C!Slots /\ m.rec[m.loc[d]] # None
        /\ m.rec[m.loc[d]].who = d
    BY <1>3, <1>6, <1>8
  <2>2. CASE m.loc[d] = slot
    <3>1. m.rec[slot] = prior /\ prior # None
      BY <2>1, <2>2
    <3> QED
      BY <1>1, <1>2, <1>6, <2>1, <2>2, <3>1
  <2>3. CASE m.loc[d] # slot
    BY <1>6, <2>1, <2>3
  <2> QED
    BY <2>2, <2>3
<1>9. MapFits(n, owner)
  BY <1>3, <1>6, <1>7, <1>8 DEF MapFits
<1>10. \A S \in SUBSET C!Slots : slot \notin S /\ Exact(m, S) => Exact(n, S)
  BY <1>6 DEF Exact
<1> QED
  BY <1>9, <1>10

\* The answer of a router that is known adds to its record, no verdict, and to no other.
LEMMA AnswerAdds ==
    ASSUME NEW owner \in Owners, NEW m, MapFits(m, owner), NEW slot \in C!Slots,
           NEW a, FrameFits([slot |-> slot, rec |-> a], owner),
           m.rec[slot] # None, Exact(m, {slot}), NEW n, n = C!Upsert(m, slot, a)
    PROVE  /\ n.rec[slot] # None /\ C!VerdictOn(n.rec[slot]) = C!VerdictOn(m.rec[slot])
           /\ \A s \in C!Slots \ {slot} : n.rec[s] = m.rec[s]
<1> USE CollectionConstants
<1>1. /\ m.rec \in [C!Slots -> C!Records \cup {None}] /\ m.rec[slot] \in C!Records
      /\ m.rec[slot].who \in {C!Unknown, owner[slot]}
  BY DEF MapFits
<1>2. a \in C!Records /\ NoVerdict(a) /\ a.who \in Devices /\ a.who = owner[slot]
  BY DEF FrameFits, NoVerdict
<1>3. m.rec[slot].who = a.who /\ m.loc[a.who] = slot
  BY <1>1, <1>2 DEF Exact
<1> DEFINE all == C!Reconciled(m.rec[slot], a)
<1>4. n.rec = [m.rec EXCEPT ![slot] = all]
  BY <1>2, <1>3 DEF C!Upsert
<1>5. /\ all \in C!Records /\ all.who = m.rec[slot].who /\ all.status = m.rec[slot].status
      /\ all.reach = m.rec[slot].reach /\ all.answered = m.rec[slot].answered
  <2>1. m.rec[slot].answered \in BOOLEAN
    BY <1>1 DEF C!Records
  <2> QED
    BY <1>1, <1>2, <1>3, <2>1, ReconciledRecord DEF NoVerdict
<1> HIDE DEF all
<1> QED
  BY <1>1, <1>4, <1>5 DEF C!VerdictOn

LEMMA RouterSettleStep == ASSUME CollectionInv, C!RouterSettle PROVE CollectionInv'
<1> USE CollectionConstants
<1> DEFINE caught == C!UpsertAll(C!Maps, try.caught)
           m == IF try.answer = None THEN C!Fallback(caught, try.slot, try.prior)
                ELSE C!Upsert(caught, try.slot, try.answer)
<1>1. /\ phase = "routers" /\ try # C!Idle /\ C!Keep(m)
      /\ \/ saved' = m.rec
         \/ /\ try.answer # None /\ caught.rec[try.slot] # None
            /\ saved' = IF try.caught # << >> THEN caught.rec ELSE saved
      /\ todo' = todo \ {try.slot} /\ try' = C!Idle
      /\ UNCHANGED << at, used, late, phase, cast, routers, direct >>
  BY DEF C!RouterSettle, C!mesh
<1>2. PICK owner \in Owners : Fits(owner)
  BY DEF CollectionInv
<1>3. /\ try.slot \in todo /\ try.slot \in RouterSlots /\ try.slot \in C!Slots
      /\ try.prior = records[try.slot]
  BY <1>1, RouterTry
<1>4. /\ Follows(C!Maps, caught, owner, {try.slot}) /\ MapFits(caught, owner)
      /\ caught.rec[try.slot] \in {records[try.slot], None}
  BY <1>1, <1>2, <1>3, CaughtJoin
<1>5. Exact(C!Maps, todo) /\ todo \in SUBSET C!Slots
  BY <1>1 DEF CollectionInv, Certain, CollectionTypes
<1>6. Exact(caught, todo)
  BY <1>4, <1>5 DEF Follows
<1>7. Exact(caught, todo \ {try.slot})
  BY <1>6 DEF Exact
<1>8. /\ todo \ {try.slot} \in SUBSET C!Slots
  BY <1>5
<1>9. MapFits(m, owner) /\ Exact(m, todo \ {try.slot})
  <2>1. CASE try.answer = None
    <3>1. m = C!Fallback(caught, try.slot, try.prior)
      BY <2>1
    <3>2. /\ records[try.slot] \in C!Records \cup {None}
          /\ records[try.slot] # None => records[try.slot].who \in {C!Unknown, owner[try.slot]}
      BY <1>2, <1>3 DEF Fits, MapFits, C!Maps
    <3> HIDE DEF m, caught
    <3>3. /\ MapFits(m, owner)
          /\ \A S \in SUBSET C!Slots : try.slot \notin S /\ Exact(caught, S) => Exact(m, S)
      BY <1>3, <1>4, <3>1, <3>2, FallbackFits
    <3>4. try.slot \notin todo \ {try.slot}
      OBVIOUS
    <3> QED
      BY <1>7, <1>8, <3>3, <3>4
  <2>2. CASE try.answer # None
    <3>1. m = C!Upsert(caught, try.slot, try.answer)
      BY <2>2
    <3>2. /\ try.answer \in C!Records /\ try.answer.who \in Devices
          /\ try.answer.who = owner[try.slot]
      BY <1>1, <1>2, <2>2 DEF Fits, HeardFits, FrameFits
    <3> HIDE DEF m, caught
    <3>3. MapFits(m, owner) /\ \A S \in SUBSET C!Slots : Exact(caught, S) => Exact(m, S)
      BY <1>3, <1>4, <3>1, <3>2, UpsertStep
    <3> QED
      BY <1>7, <1>8, <3>3
  <2> QED
    BY <2>1, <2>2
<1>10. try.answer # None /\ caught.rec[try.slot] # None =>
        /\ m.rec[try.slot] # None
        /\ C!VerdictOn(m.rec[try.slot]) = C!VerdictOn(caught.rec[try.slot])
        /\ \A s \in C!Slots \ {try.slot} : m.rec[s] = caught.rec[s]
  <2> SUFFICES ASSUME try.answer # None, caught.rec[try.slot] # None
               PROVE  /\ m.rec[try.slot] # None
                      /\ C!VerdictOn(m.rec[try.slot]) = C!VerdictOn(caught.rec[try.slot])
                      /\ \A s \in C!Slots \ {try.slot} : m.rec[s] = caught.rec[s]
    OBVIOUS
  <2>1. m = C!Upsert(caught, try.slot, try.answer)
    OBVIOUS
  <2>2. FrameFits([slot |-> try.slot, rec |-> try.answer], owner)
    BY <1>1, <1>2 DEF Fits, HeardFits
  <2> HIDE DEF m, caught
  <2>3. Exact(caught, {try.slot})
    BY <1>3, <1>6 DEF Exact
  <2> QED
    BY <1>3, <1>4, <2>1, <2>2, <2>3, AnswerAdds
<1>11. try.caught = << >> => caught = C!Maps
  BY NothingUpserted
<1> HIDE DEF m, caught
<1>12. C!Maps' = m /\ records' = m.rec
  BY <1>1, <1>9, MapsKept DEF C!Keep
<1>13. Current'
  <2>1. CASE saved' = m.rec
    BY <1>12, <2>1 DEF Current
  <2>2. CASE /\ try.answer # None /\ caught.rec[try.slot] # None
             /\ saved' = IF try.caught # << >> THEN caught.rec ELSE saved
    <3> SUFFICES ASSUME NEW s \in C!Slots PROVE saved'[s] = records'[s] \/ C!Lags(s)'
      BY DEF Current
    <3>1. saved[s] = records[s] \/ C!Lags(s)
      BY <1>1 DEF CollectionInv, Current
    <3>2. try.slot \in routers \ todo' /\ phase' = "routers" /\ routers' = routers
      BY <1>1, <1>3 DEF CollectionInv, CollectionTypes
    <3>3. CASE s = try.slot
      <4>1. ~C!Lags(s)
        BY <1>3, <3>3 DEF C!Lags
      <4>2. saved'[s] = caught.rec[s]
        BY <1>11, <2>2, <3>1, <3>3, <4>1 DEF C!Maps
      <4>3. C!Lags(s)'
        BY <1>10, <1>12, <2>2, <3>2, <3>3, <4>2 DEF C!Lags, C!VerdictOn
      <4> QED
        BY <4>3
    <3>4. CASE s # try.slot
      <4>1. records'[s] = caught.rec[s]
        BY <1>10, <1>12, <2>2, <3>4
      <4>2. CASE try.caught # << >>
        BY <2>2, <4>1, <4>2
      <4>3. CASE try.caught = << >>
        <5>1. records'[s] = records[s] /\ saved' = saved
          BY <1>11, <2>2, <4>1, <4>3 DEF C!Maps
        <5>2. C!Lags(s) => C!Lags(s)'
          BY <1>1, <3>2, <5>1 DEF C!Lags, C!VerdictOn
        <5> QED
          BY <3>1, <5>1, <5>2
      <4> QED
        BY <4>2, <4>3
    <3> QED
      BY <3>3, <3>4
  <2> QED
    BY <1>1, <2>1, <2>2
<1>14. direct = {} /\ direct' = {}
  BY <1>1 DEF CollectionInv
<1>15. Sticks(C!Maps', direct')
  BY <1>14 DEF Sticks
<1>16. Certain' = todo \ {try.slot}
  BY <1>1 DEF Certain
<1>17. CollectionTypes' /\ TryFits'
  BY <1>1 DEF CollectionInv, CollectionTypes, TryFits, C!Idle
<1> QED
  BY <1>1, <1>2, <1>9, <1>12, <1>13, <1>14, <1>15, <1>16, <1>17, MapStep

\* An answer of a child joins the map with its verdict, and sticks there.
Joined(m, slot, a) ==
    Verdict(C!Upsert(m, slot, [a EXCEPT !.answered = TRUE]), slot, "responded", "reachable")

LEMMA AnswerJoins ==
    ASSUME NEW owner \in Owners, NEW m, MapFits(m, owner), NEW slot \in C!Slots, NEW a,
           FrameFits([slot |-> slot, rec |-> a], owner), NEW D \in SUBSET Devices, Sticks(m, D),
           NEW n, n = Joined(m, slot, a)
    PROVE  MapFits(n, owner) /\ Sticks(n, D \cup {a.who}) /\ a.who \in Devices
<1> USE CollectionConstants
<1> DEFINE r == [a EXCEPT !.answered = TRUE]
           told == C!Upsert(m, slot, r)
<1>1. a \in C!Records /\ a.status = "none" /\ a.who \in Devices /\ a.who = owner[slot]
  BY DEF FrameFits
<1>2. r \in C!Records /\ r.status = "none" /\ r.who = a.who /\ r.answered
  BY <1>1 DEF C!Records
<1> HIDE DEF r
<1>3. /\ MapFits(told, owner) /\ Sticks(told, D)
      /\ told.rec[slot] # None /\ told.loc[a.who] = slot /\ told.rec[slot].who = a.who
      /\ told.rec[slot].answered
  BY <1>1, <1>2, UpsertStep
<1>4. n = Verdict(told, slot, "responded", "reachable")
  BY DEF Joined, r
<1> HIDE DEF told
<1>5. /\ MapFits(n, owner) /\ n.loc = told.loc
      /\ \A s \in C!Slots \ {slot} : n.rec[s] = told.rec[s]
      /\ n.rec[slot].answered /\ n.rec[slot].status = "responded"
  BY <1>3, <1>4, VerdictSet
<1>6. told.loc \in [Devices -> C!Slots \cup {None}]
  BY <1>3 DEF MapFits
<1>7. ASSUME NEW d \in D \cup {a.who}
      PROVE  n.loc[d] # None /\ n.rec[n.loc[d]].answered /\ n.rec[n.loc[d]].status = "responded"
  <2>1. CASE told.loc[d] = slot
    <3>1. n.loc[d] = slot /\ slot # None
      BY <1>5, <2>1
    <3> QED
      BY <1>5, <3>1
  <2>2. CASE told.loc[d] # slot
    <3>1. /\ d \in D /\ told.loc[d] \in C!Slots \ {slot}
          /\ told.rec[told.loc[d]].answered /\ told.rec[told.loc[d]].status = "responded"
      BY <1>3, <1>6, <2>2 DEF Sticks
    <3> QED
      BY <1>5, <3>1
  <2> QED
    BY <2>1, <2>2
<1> QED
  BY <1>1, <1>5, <1>7 DEF Sticks

LEMMA ChildReconcileStep == ASSUME CollectionInv, C!ChildReconcile PROVE CollectionInv'
<1> USE CollectionConstants
<1> DEFINE slot == try.slot
           caught == C!UpsertAll(C!Maps, try.caught)
           told == Joined(caught, slot, try.answer)
           m == IF try.answer = None THEN caught ELSE told
<1>1. /\ phase = "children" /\ try # C!Idle
      /\ C!Keep(m)
      /\ saved' = m.rec \/ (saved' = saved /\ try.answer = None /\ try.caught = << >>)
      /\ direct' = IF try.answer = None THEN direct ELSE direct \cup {try.answer.who}
      /\ \/ try' = C!Open(slot, try.policy + 1) /\ UNCHANGED todo
         \/ /\ try.end = "exhausted" /\ try' = [try EXCEPT !.end = "silent"]
            /\ UNCHANGED todo
         \/ try' = C!Idle /\ todo' = todo \ {slot}
      /\ UNCHANGED << at, used, late, phase, cast, routers >>
  BY DEF C!ChildReconcile, C!mesh, Joined, Verdict
<1>2. PICK owner \in Owners : Fits(owner)
  BY DEF CollectionInv
<1>3. /\ try = [slot |-> slot, policy |-> try.policy, n |-> try.n,
                answer |-> try.answer, caught |-> try.caught, end |-> try.end]
      /\ slot \in todo /\ slot \in ChildSlots /\ slot \in C!Slots
      /\ try.end \in {"exhausted", "silent"} =>
           try.answer = None /\ (records[slot] = None \/ ~records[slot].answered)
  BY <1>1, ChildTry
<1>4. /\ Follows(C!Maps, caught, owner, {slot}) /\ MapFits(caught, owner)
      /\ caught.rec[slot] \in {records[slot], None}
  BY <1>1, <1>2, <1>3, CaughtJoin
<1>5. direct \in SUBSET Devices /\ Sticks(C!Maps, direct)
  BY DEF CollectionInv, CollectionTypes
<1>6. Sticks(caught, direct)
  BY <1>4, <1>5 DEF Follows
<1>7. MapFits(m, owner) /\ Sticks(m, direct') /\ direct' \subseteq Devices
  <2>1. CASE try.answer = None
    BY <1>1, <1>4, <1>5, <1>6, <2>1
  <2>2. CASE try.answer # None
    <3>1. FrameFits([slot |-> slot, rec |-> try.answer], owner)
      BY <1>1, <1>2, <2>2 DEF Fits, HeardFits
    <3>2. m = told /\ direct' = direct \cup {try.answer.who}
      BY <1>1, <2>2
    <3> HIDE DEF caught, m
    <3>3. /\ MapFits(told, owner) /\ Sticks(told, direct \cup {try.answer.who})
          /\ try.answer.who \in Devices
      BY <1>3, <1>4, <1>5, <1>6, <3>1, AnswerJoins
    <3> QED
      BY <1>5, <3>2, <3>3
  <2> QED
    BY <2>1, <2>2
<1>8. /\ try.answer = None => m = caught
      /\ try.caught = << >> => caught = C!Maps
  BY NothingUpserted
<1> HIDE DEF m, caught, told
<1>9. C!Maps' = m /\ records' = m.rec
  BY <1>1, <1>7, MapsKept DEF C!Keep
<1>10. CollectionTypes'
  BY <1>1, <1>7 DEF CollectionInv, CollectionTypes
<1>11. Current'
  <2>1. CASE saved' = m.rec
    BY <1>9, <2>1 DEF Current
  <2>2. CASE saved' = saved /\ try.answer = None /\ try.caught = << >>
    <3>1. records' = records
      BY <1>8, <1>9, <2>2 DEF C!Maps
    <3> QED
      BY <1>1, <1>10, <2>2, <3>1, CurrentKept
  <2> QED
    BY <1>1, <2>1, <2>2
<1>12. TryFits' /\ (try' # C!Idle => HeardFits(try', owner))
  <2>1. CASE try' = C!Open(slot, try.policy + 1) /\ UNCHANGED todo
    BY <1>1, <1>3, <2>1, OpenFits DEF TryFits
  <2>2. CASE try.end = "exhausted" /\ try' = [try EXCEPT !.end = "silent"] /\ UNCHANGED todo
    <3>1. try' = [slot |-> slot, policy |-> try.policy, n |-> try.n,
                  answer |-> try.answer, caught |-> try.caught, end |-> "silent"]
      BY <1>3, <2>2
    <3>2. /\ try' = [slot |-> try'.slot, policy |-> try'.policy, n |-> try'.n,
                     answer |-> try'.answer, caught |-> try'.caught, end |-> try'.end]
          /\ try'.slot = slot /\ try'.answer = try.answer /\ try'.caught = try.caught
      BY <3>1
    <3>3. try.answer = None /\ (records[slot] = None \/ ~records[slot].answered)
      BY <1>3, <2>2
    <3>4. records'[slot] = None \/ ~records'[slot].answered
      BY <1>4, <1>8, <1>9, <3>3
    <3>5. TryFits'
      BY <1>1, <1>3, <2>2, <3>2, <3>3, <3>4 DEF TryFits
    <3>6. HeardFits(try', owner)
      BY <1>1, <1>2, <3>2 DEF Fits, HeardFits
    <3> QED
      BY <3>5, <3>6
  <2>3. CASE try' = C!Idle
    BY <2>3 DEF TryFits, C!Idle
  <2> QED
    BY <1>1, <2>1, <2>2, <2>3
<1>13. Exact(C!Maps', Certain') /\ Sticks(C!Maps', direct')
  BY <1>1, <1>7, <1>9 DEF Exact, Certain
<1> QED
  BY <1>1, <1>2, <1>7, <1>9, <1>10, <1>11, <1>12, <1>13, MapStep

LEMMA ChildSilentStep ==
    ASSUME CollectionInv, NEW reply \in BOOLEAN, C!ChildSilent(reply) PROVE CollectionInv'
<1> USE CollectionConstants
<1> DEFINE slot == try.slot
           known == records[slot] # None /\ records[slot].who # C!Unknown
           m == IF known THEN C!Maps ELSE C!Upsert(C!Maps, slot, C!Placeholder)
           reach == IF reply THEN "reachable" ELSE "unknown"
           told == Verdict(m, slot, "no-response", reach)
<1>1. /\ phase = "children" /\ try # C!Idle /\ try.end = "silent"
      /\ C!Keep(told)
      /\ saved' = told.rec \/ (saved' = saved /\ told.rec = records)
      /\ todo' = todo \ {slot} /\ try' = C!Idle
      /\ UNCHANGED << at, used, late, phase, cast, routers, direct >>
  BY DEF C!ChildSilent, C!mesh, Verdict
<1>2. PICK owner \in Owners : Fits(owner)
  BY DEF CollectionInv
<1>3. slot \in C!Slots /\ (records[slot] = None \/ ~records[slot].answered)
  BY <1>1, ChildTry
<1>4. direct \in SUBSET Devices /\ Sticks(C!Maps, direct) /\ MapFits(C!Maps, owner)
  BY <1>2 DEF CollectionInv, CollectionTypes, Fits
<1>5. MapFits(m, owner) /\ m.rec[slot] # None /\ m.loc = locations /\ Sticks(m, direct)
  <2>1. CASE known
    BY <1>4, <2>1 DEF C!Maps
  <2>2. CASE ~known
    <3>1. /\ C!Placeholder \in C!Records /\ C!Placeholder.who = C!Unknown
          /\ C!Placeholder.status = "none"
      BY DEF C!Placeholder, C!Record, C!Records
    <3>2. m = C!Upsert(C!Maps, slot, C!Placeholder)
      BY <2>2
    <3> HIDE DEF m
    <3>3. /\ MapFits(m, owner) /\ m.rec[slot] # None /\ m.loc = C!Maps.loc
          /\ \A D \in SUBSET Devices : Sticks(C!Maps, D) => Sticks(m, D)
      BY <1>3, <1>4, <3>1, <3>2, UpsertStep
    <3> QED
      BY <1>4, <3>3 DEF C!Maps
  <2> QED
    BY <2>1, <2>2
<1>6. \A d \in direct : locations[d] \in C!Slots \ {slot}
  <2> SUFFICES ASSUME NEW d \in direct PROVE locations[d] \in C!Slots \ {slot}
    OBVIOUS
  <2>1. locations[d] # None /\ records[locations[d]].answered /\ locations[d] \in C!Slots
        /\ records[locations[d]] # None
    BY <1>4 DEF Sticks, MapFits, C!Maps
  <2> QED
    BY <1>3, <2>1
<1>7. reach \in {"none", "reachable", "unknown"}
  OBVIOUS
<1> HIDE DEF m, reach
<1>8. /\ MapFits(told, owner) /\ told.loc = m.loc
      /\ \A s \in C!Slots \ {slot} : told.rec[s] = m.rec[s]
  BY <1>3, <1>5, <1>7, VerdictSet
<1> HIDE DEF told
<1>9. Sticks(told, direct)
  BY <1>5, <1>6, <1>8 DEF Sticks
<1>10. C!Maps' = told /\ records' = told.rec
  BY <1>1, <1>8, MapsKept DEF C!Keep
<1>11. CollectionTypes' /\ TryFits'
  BY <1>1 DEF CollectionInv, CollectionTypes, TryFits, C!Idle
<1>12. Current'
  <2>1. CASE saved' = told.rec
    BY <1>10, <2>1 DEF Current
  <2>2. CASE saved' = saved /\ told.rec = records
    BY <1>1, <1>10, <1>11, <2>2, CurrentKept
  <2> QED
    BY <1>1, <2>1, <2>2
<1>13. Exact(C!Maps', Certain') /\ Sticks(C!Maps', direct')
  BY <1>1, <1>9, <1>10 DEF Exact, Certain
<1> QED
  BY <1>1, <1>2, <1>8, <1>10, <1>11, <1>12, <1>13, MapStep

LEMMA CollectionStep == CollectionInv /\ C!Next => CollectionInv'
<1> SUFFICES ASSUME CollectionInv, C!Next PROVE CollectionInv'
  OBVIOUS
<1>1. ASSUME NEW d \in Devices, C!Move(d) PROVE CollectionInv'
  BY <1>1, MoveStep
<1>2. CASE C!RouterTable
  BY <1>2, RouterTableStep
<1>3. CASE C!Meshdiag
  BY <1>3, MeshdiagStep
<1>4. CASE C!Join
  BY <1>4, JoinStep
<1>5. CASE C!Expand
  BY <1>5, ExpandStep
<1>6. CASE C!Done
  BY <1>6, DoneStep
<1>7. ASSUME NEW ds \in SUBSET Devices, NEW ls \in SUBSET (Devices \ ds), C!Cast(ds, ls)
      PROVE  CollectionInv'
  <2>1. ls \in SUBSET Devices
    OBVIOUS
  <2> QED
    BY <1>7, <2>1, CastStep
<1>8. ASSUME NEW r \in RouterSlots, C!RouterSkip(r) PROVE CollectionInv'
  BY <1>8, RouterSkipStep
<1>9. ASSUME NEW r \in RouterSlots, C!RouterStart(r) PROVE CollectionInv'
  BY <1>9, RouterStartStep
<1>10. CASE C!RouterQuery
  BY <1>10, RouterQueryStep
<1>11. CASE C!RouterSettle
  BY <1>11, RouterSettleStep
<1>12. ASSUME NEW c \in ChildSlots, C!ChildStart(c) PROVE CollectionInv'
  BY <1>12, ChildStartStep
<1>13. CASE C!ChildSatisfied
  BY <1>13, ChildSatisfiedStep
<1>14. CASE C!ChildQuery
  BY <1>14, ChildQueryStep
<1>15. CASE C!ChildReconcile
  BY <1>15, ChildReconcileStep
<1>16. ASSUME NEW reply \in BOOLEAN, C!ChildSilent(reply) PROVE CollectionInv'
  BY <1>16, ChildSilentStep
<1> QED
  BY <1>1, <1>2, <1>3, <1>4, <1>5, <1>6, <1>7, <1>8, <1>9, <1>10, <1>11, <1>12, <1>13,
     <1>14, <1>15, <1>16 DEF C!Next

LEMMA CollectionStays == CollectionInv /\ UNCHANGED collectionVars => CollectionInv'
<1> SUFFICES ASSUME CollectionInv, UNCHANGED collectionVars PROVE CollectionInv'
  OBVIOUS
<1>1. UNCHANGED << at, used, late, phase, cast, todo, routers, try, records, locations, saved,
                   direct >>
  BY DEF collectionVars
<1>2. CollectionTypes' /\ TryFits' /\ Certain' = Certain /\ C!Maps' = C!Maps
  BY <1>1 DEF CollectionInv, CollectionTypes, TryFits, Certain, C!Maps
<1>3. PICK owner \in Owners : Fits(owner)
  BY DEF CollectionInv
<1>4. Fits(owner)'
  BY <1>1, <1>2, <1>3 DEF Fits, MeshFits, HeardFits, Foreign, C!Idle
<1>5. Exact(C!Maps, Certain)' /\ Sticks(C!Maps, direct)'
  BY <1>1, <1>2 DEF CollectionInv
<1>6. Current <=> Current'
  BY <1>1 DEF Current, C!Lags
<1> QED
  BY <1>1, <1>2, <1>4, <1>5, <1>6 DEF CollectionInv

LEMMA CollectionGoal ==
    CollectionInv => C!AnsweredAreKept /\ C!AnswerSticks /\ C!CheckpointIsCurrent
<1> SUFFICES ASSUME CollectionInv
             PROVE  C!AnsweredAreKept /\ C!AnswerSticks /\ C!CheckpointIsCurrent
  OBVIOUS
<1>1. PICK owner \in Owners : MapFits(C!Maps, owner)
  BY DEF CollectionInv, Fits
<1>2. C!AnsweredAreKept
  BY <1>1 DEF MapFits, C!Maps, C!AnsweredAreKept
<1>3. C!AnswerSticks
  BY DEF CollectionInv, Sticks, C!Maps, C!AnswerSticks
<1>4. C!CheckpointIsCurrent
  BY DEF CollectionInv, Current, C!CheckpointIsCurrent
<1> QED
  BY <1>2, <1>3, <1>4

\* Whatever moves, falls silent or answers late: a device the collector has heard of keeps a
\* record that names it, an answer is not taken back, and the checkpoint lacks at most what
\* routers that were known have answered.
THEOREM AnsweredStayKnown == AllSpec => []AnsweredAreKept
<1>1. AllInit => CollectionInv
  BY CollectionBegins DEF AllInit
<1>2. CollectionInv /\ [AllNext]_allVars => CollectionInv'
  <2>1. AllNext \/ UNCHANGED allVars => C!Next \/ UNCHANGED collectionVars
    BY DEF AllNext, allVars
  <2> QED
    BY <2>1, CollectionStep, CollectionStays
<1>3. CollectionInv => AnsweredAreKept
  BY CollectionGoal DEF AnsweredAreKept
<1> QED
  BY <1>1, <1>2, <1>3, PTL DEF AllSpec

-------------------------------------------------------------------------------
(* MergeRecords.                                                           *)

ToldIn(rows) == {x.file : x \in {y \in rows : y.says}}

\* What of a device is true whichever rows are merged into it: its sources are those of its
\* rows, its summary is the best, and the rank a summary has been given is its own.
Summed(d) ==
    /\ d.files \subseteq 1 .. Files /\ d.first \in d.files /\ d.rank \in Nat \cup {None}
    /\ d.files = {x.file : x \in d.rows}
    /\ \A x \in d.rows : x.says \in BOOLEAN
    /\ R!Best(d.summary, ToldIn(d.rows))
    /\ d.summary # None => R!SummaryRank(d) = R!Rank(d.summary)

\* Whose keys do not contradict each other.
Coherent(d, kind) ==
    /\ \A x, y \in d.ext : x = y
    /\ kind = "cached" =>
          /\ \A x, y \in d.mat : x = y
          /\ \A x, y \in d.rows : x.file = y.file /\ x # y => x.file \in MCDiagnostics

\* Each row is in one device.
RowsApart ==
    /\ \A n \in DOMAIN nodes : \A x \in nodes[n].rows : x.id \in 1 .. count
    /\ \A m, n \in DOMAIN nodes :
          m # n => \A x \in nodes[m].rows, y \in nodes[n].rows : x.id # y.id
    /\ \A i \in 1 .. count : \E n \in DOMAIN nodes : \E x \in nodes[n].rows : x.id = i

AddressesApart ==
    mode = "strict" => \A m, n \in DOMAIN nodes : m # n => nodes[m].ext \cap nodes[n].ext = {}

RecordsInv ==
    /\ mode \in {"strict", "guard", "cached"} /\ file \in 1 .. Files /\ count \in Nat
    /\ DOMAIN nodes \subseteq 1 .. count
    /\ nodes = [n \in DOMAIN nodes |-> nodes[n]]
    /\ \A n \in DOMAIN nodes : Summed(nodes[n]) /\ Coherent(nodes[n], mode)
    /\ RowsApart /\ AddressesApart

LEMMA RecordsConstants ==
    /\ Files \in Nat /\ Files >= 1 /\ None \notin Nat
    /\ \A row \in MCRows : /\ row.says \in BOOLEAN
                           /\ \A x, y \in row.ext : x = y
                           /\ \A x, y \in row.mat : x = y
BY RecordsAssumptions DEF R!RecordsAssumption

LEMMA ToldOfBoth == \A s, t : ToldIn(s \cup t) = ToldIn(s) \cup ToldIn(t)
BY DEF ToldIn

\* Absorbing a device takes the better summary with its rank.
LEMMA AbsorbSummed ==
    ASSUME NEW a, NEW b, Summed(a), Summed(b)
    PROVE  Summed(R!Absorb(a, b))
<1> DEFINE d == R!Absorb(a, b)
           s == R!SummaryRank(a)
           t == R!SummaryRank(b)
<1>1. /\ d.first = a.first /\ d.files = a.files \cup b.files /\ d.rows = a.rows \cup b.rows
      /\ d.summary = (IF R!Takes(a, b) THEN b.summary ELSE a.summary)
      /\ d.rank = IF b.summary = None THEN a.rank ELSE IF R!Takes(a, b) THEN t ELSE s
  BY DEF R!Absorb
<1> HIDE DEF d
<1>2. d.files = {x.file : x \in d.rows}
  BY <1>1 DEF Summed
<1>3. ToldIn(d.rows) = ToldIn(a.rows) \cup ToldIn(b.rows)
  BY <1>1, ToldOfBoth
<1>4. ToldIn(a.rows) \subseteq 1 .. Files /\ ToldIn(b.rows) \subseteq 1 .. Files
  BY DEF Summed, ToldIn
<1>5. /\ a.summary # None => a.summary \in ToldIn(a.rows) /\ s = Files - a.summary
      /\ b.summary # None => b.summary \in ToldIn(b.rows) /\ t = Files - b.summary
      /\ a.summary = None => ToldIn(a.rows) = {}
      /\ b.summary = None => ToldIn(b.rows) = {}
  BY <1>4, RecordsConstants DEF Summed, R!Best, R!Rank
<1>6. s \in Nat /\ t \in Nat
  <2>1. \A f \in 1 .. Files : R!Rank(f) \in Nat
    BY RecordsConstants DEF R!Rank
  <2>2. /\ a.first \in 1 .. Files /\ a.rank \in Nat \cup {None}
        /\ b.first \in 1 .. Files /\ b.rank \in Nat \cup {None}
    BY DEF Summed
  <2> QED
    BY <2>1, <2>2 DEF R!SummaryRank
<1>7. R!Takes(a, b) <=> b.summary # None /\ (a.summary = None \/ t > s)
  BY DEF R!Takes
<1> HIDE DEF s, t
<1>8. R!Best(d.summary, ToldIn(d.rows))
  <2>1. \A f \in ToldIn(a.rows) : a.summary <= f
    BY <1>5 DEF Summed, R!Best
  <2>2. \A f \in ToldIn(b.rows) : b.summary <= f
    BY <1>5 DEF Summed, R!Best
  <2>3. CASE b.summary = None
    BY <1>1, <1>3, <1>5, <1>7, <2>1, <2>3 DEF R!Best
  <2>4. CASE b.summary # None /\ a.summary = None
    BY <1>1, <1>3, <1>5, <1>7, <2>2, <2>4 DEF R!Best
  <2>5. CASE b.summary # None /\ a.summary # None
    <3>1. a.summary \in 1 .. Files /\ b.summary \in 1 .. Files
      BY <1>4, <1>5, <2>5
    <3>2. t > s <=> b.summary < a.summary
      BY <1>5, <2>5, <3>1, RecordsConstants
    <3>3. \A f \in ToldIn(d.rows) : f \in 1 .. Files
      BY <1>3, <1>4
    <3>4. d.summary = IF b.summary < a.summary THEN b.summary ELSE a.summary
      BY <1>1, <1>7, <2>5, <3>2
    <3>5. d.summary \in ToldIn(d.rows)
      BY <1>3, <1>5, <2>5, <3>4
    <3>6. ASSUME NEW f \in ToldIn(d.rows) PROVE d.summary <= f
      <4>1. f \in 1 .. Files
        BY <3>3, <3>6
      <4>2. CASE f \in ToldIn(a.rows)
        BY <2>1, <3>1, <3>4, <4>1, <4>2
      <4>3. CASE f \in ToldIn(b.rows)
        BY <2>2, <3>1, <3>4, <4>1, <4>3
      <4> QED
        BY <1>3, <3>6, <4>2, <4>3
    <3> QED
      BY <3>5, <3>6 DEF R!Best
  <2> QED
    BY <2>3, <2>4, <2>5
<1>9. d.rank \in Nat \cup {None}
  BY <1>1, <1>6 DEF Summed
<1>10. d.summary # None => R!SummaryRank(d) = R!Rank(d.summary)
  <2>1. R!SummaryRank(d) = IF d.rank # None THEN d.rank ELSE R!Rank(d.first)
    BY DEF R!SummaryRank
  <2>2. CASE b.summary = None
    <3>1. R!SummaryRank(d) = R!SummaryRank(a) /\ d.summary = a.summary
      BY <1>1, <1>7, <2>1, <2>2 DEF R!SummaryRank
    <3> QED
      BY <3>1 DEF Summed
  <2>3. CASE b.summary # None
    <3>1. d.rank # None /\ R!SummaryRank(d) = d.rank
      BY <1>1, <1>6, <2>1, <2>3, RecordsConstants
    <3> QED
      BY <1>1, <1>5, <1>7, <2>3, <3>1 DEF R!Rank
  <2> QED
    BY <2>2, <2>3
<1>11. /\ d.files \subseteq 1 .. Files /\ d.first \in d.files
       /\ \A x \in d.rows : x.says \in BOOLEAN
  BY <1>1 DEF Summed
<1> QED
  BY <1>2, <1>8, <1>9, <1>10, <1>11 DEF Summed, d

\* A row as a device of its own.
LEMMA SingleFits ==
    ASSUME NEW row \in MCRows, NEW i \in Nat, file \in 1 .. Files
    PROVE  Summed(R!Single(row, file, i)) /\ Coherent(R!Single(row, file, i), mode)
<1> DEFINE r == R!Single(row, file, i)
           x == [id |-> i, file |-> file, says |-> row.says]
<1>1. /\ r.ext = row.ext /\ r.mat = row.mat /\ r.first = file /\ r.files = {file}
      /\ r.rows = {x} /\ r.rank = None
      /\ r.summary = IF row.says THEN file ELSE None
  BY DEF R!Single
<1>2. x.file = file /\ x.says = row.says
  OBVIOUS
<1> HIDE DEF r, x
<1>3. row.says \in BOOLEAN /\ (\A u, v \in row.ext : u = v) /\ \A u, v \in row.mat : u = v
  BY RecordsConstants
<1>4. Coherent(r, mode)
  BY <1>1, <1>3 DEF Coherent
<1>5. ToldIn(r.rows) = IF row.says THEN {file} ELSE {}
  BY <1>1, <1>2 DEF ToldIn
<1>6. R!Best(r.summary, ToldIn(r.rows))
  <2>1. file <= file
    OBVIOUS
  <2> QED
    BY <1>1, <1>3, <1>5, <2>1 DEF R!Best
<1>7. r.summary # None => R!SummaryRank(r) = R!Rank(r.summary)
  BY <1>1 DEF R!SummaryRank
<1>8. r.files = {y.file : y \in r.rows} /\ \A y \in r.rows : y.says \in BOOLEAN
  BY <1>1, <1>2, <1>3
<1> QED
  BY <1>1, <1>4, <1>6, <1>7, <1>8 DEF Summed, r

LEMMA OldestIs ==
    ASSUME NEW K, K \subseteq DOMAIN nodes, K # {}, DOMAIN nodes \subseteq 1 .. count, count \in Nat
    PROVE  R!Oldest(K) \in K /\ R!Oldest(K) \in 1 .. count /\ \A n \in K : R!Oldest(K) <= n
<1>1. K \in SUBSET Nat
  OBVIOUS
<1>2. PICK x \in K : \A y \in K : ~(y < x)
  BY <1>1, LeastNumber
<1>3. \A y \in K : x <= y
  BY <1>1, <1>2
<1>4. R!Oldest(K) \in K /\ \A n \in K : R!Oldest(K) <= n
  BY <1>3 DEF R!Oldest
<1> QED
  BY <1>4

\* The oldest of the candidates as the later ones up to k are absorbed, one after the other.
Absorbing(f, K, k) ==
    f = [n \in 0 .. k |-> IF n <= R!Oldest(K) THEN nodes[R!Oldest(K)]
                          ELSE IF n \in K THEN R!Absorb(f[n - 1], nodes[n]) ELSE f[n - 1]]

LEMMA AbsorbingExists ==
    ASSUME NEW K, R!Oldest(K) \in Nat, count \in Nat
    PROVE  \E f : Absorbing(f, K, count)
<1> DEFINE o == R!Oldest(K)
           T == {k \in 0 .. count : \E f : Absorbing(f, K, k)}
<1>1. 0 \in T
  <2>1. Absorbing([n \in 0 .. 0 |-> nodes[o]], K, 0)
    BY DEF Absorbing
  <2> QED
    BY <2>1
<1>2. ASSUME NEW k \in 0 .. count - 1, k \in T PROVE k + 1 \in T
  <2>1. PICK f : Absorbing(f, K, k)
    BY <1>2
  <2> DEFINE more == IF k + 1 <= o THEN nodes[o]
                     ELSE IF k + 1 \in K THEN R!Absorb(f[k], nodes[k + 1]) ELSE f[k]
             g == [n \in 0 .. k + 1 |-> IF n = k + 1 THEN more ELSE f[n]]
  <2>2. ASSUME NEW n \in 0 .. k + 1
        PROVE  g[n] = IF n <= o THEN nodes[o]
                      ELSE IF n \in K THEN R!Absorb(g[n - 1], nodes[n]) ELSE g[n - 1]
    <3>1. CASE n = k + 1
      <4>1. n - 1 = k /\ g[n - 1] = f[k] /\ g[n] = more
        BY <3>1
      <4> QED
        BY <3>1, <4>1
    <3>2. CASE n \in 1 .. k
      <4>1. g[n] = f[n] /\ g[n - 1] = f[n - 1] /\ n \in 0 .. k
        BY <3>2
      <4>2. f[n] = IF n <= o THEN nodes[o]
                   ELSE IF n \in K THEN R!Absorb(f[n - 1], nodes[n]) ELSE f[n - 1]
        BY <2>1, <4>1 DEF Absorbing
      <4> QED
        BY <4>1, <4>2
    <3>3. CASE n = 0
      <4>1. g[n] = f[0] /\ 0 \in 0 .. k /\ 0 <= o
        BY <3>3
      <4> QED
        BY <2>1, <3>3, <4>1 DEF Absorbing
    <3> QED
      BY <3>1, <3>2, <3>3
  <2>3. g = [n \in 0 .. k + 1 |-> g[n]]
    OBVIOUS
  <2> HIDE DEF g
  <2>4. Absorbing(g, K, k + 1)
    BY <2>2, <2>3 DEF Absorbing
  <2>5. k + 1 \in 0 .. count
    OBVIOUS
  <2> QED
    BY <2>4, <2>5
<1> HIDE DEF T
<1>3. \A k \in 0 .. count : k \in T
  BY <1>1, <1>2, UpTo
<1> QED
  BY <1>3 DEF T

\* A device that has absorbed those in S has their keys and their rows.
Joins(d, S) ==
    /\ Summed(d)
    /\ d.ext = UNION {nodes[n].ext : n \in S}
    /\ d.mat = UNION {nodes[n].mat : n \in S}
    /\ d.rows = UNION {nodes[n].rows : n \in S}

LEMMA AbsorbJoins ==
    ASSUME NEW d, NEW S, Joins(d, S), NEW n, Summed(nodes[n])
    PROVE  Joins(R!Absorb(d, nodes[n]), S \cup {n})
<1>1. Summed(R!Absorb(d, nodes[n]))
  BY AbsorbSummed DEF Joins
<1>2. /\ R!Absorb(d, nodes[n]).ext = d.ext \cup nodes[n].ext
      /\ R!Absorb(d, nodes[n]).mat = d.mat \cup nodes[n].mat
      /\ R!Absorb(d, nodes[n]).rows = d.rows \cup nodes[n].rows
  BY DEF R!Absorb
<1> QED
  BY <1>1, <1>2 DEF Joins

LEMMA GatheredJoins ==
    ASSUME RecordsInv, NEW K, K \subseteq DOMAIN nodes, K # {}
    PROVE  Joins(R!Gathered(K), K)
<1> DEFINE o == R!Oldest(K)
<1>1. o \in K /\ o \in 1 .. count /\ \A n \in K : o <= n
  BY OldestIs DEF RecordsInv
<1>2. count \in Nat /\ \A n \in K : n \in 1 .. count /\ Summed(nodes[n])
  BY DEF RecordsInv
<1>3. PICK f : f = CHOOSE g : Absorbing(g, K, count)
  OBVIOUS
<1>4. Absorbing(f, K, count)
  BY <1>1, <1>2, <1>3, AbsorbingExists
<1>5. R!Gathered(K) = f[count]
  BY <1>3 DEF R!Gathered, Absorbing
<1> HIDE DEF o
<1> DEFINE S(n) == {m \in K : m <= n} \cup {o}
           T == {n \in 0 .. count : Joins(f[n], S(n))}
<1>6. \A n \in 0 .. count : f[n] = IF n <= o THEN nodes[o]
                                   ELSE IF n \in K THEN R!Absorb(f[n - 1], nodes[n]) ELSE f[n - 1]
  BY <1>4 DEF Absorbing, o
<1>7. Joins(nodes[o], {o})
  BY <1>1, <1>2 DEF Joins
<1>8. ASSUME NEW n \in 0 .. count, n <= o PROVE n \in T
  <2>1. S(n) = {o}
    BY <1>1, <1>2, <1>8
  <2>2. f[n] = nodes[o]
    BY <1>6, <1>8
  <2> QED
    BY <1>7, <2>1, <2>2
<1>9. ASSUME NEW n \in 0 .. count - 1, n \in T PROVE n + 1 \in T
  <2>1. n + 1 \in 0 .. count /\ (n + 1) - 1 = n
    BY <1>2
  <2>2. CASE n + 1 <= o
    BY <1>8, <2>1, <2>2
  <2>3. CASE ~(n + 1 <= o) /\ n + 1 \in K
    <3>1. f[n + 1] = R!Absorb(f[n], nodes[n + 1])
      BY <1>6, <2>1, <2>3
    <3>2. Joins(f[n], S(n)) /\ Summed(nodes[n + 1])
      BY <1>2, <1>9, <2>3
    <3>3. S(n + 1) = S(n) \cup {n + 1}
      BY <1>2, <2>3
    <3> HIDE DEF S
    <3>4. Joins(R!Absorb(f[n], nodes[n + 1]), S(n) \cup {n + 1})
      BY <3>2, AbsorbJoins
    <3> QED
      BY <2>1, <3>1, <3>3, <3>4
  <2>4. CASE ~(n + 1 <= o) /\ n + 1 \notin K
    <3>1. f[n + 1] = f[n]
      BY <1>6, <2>1, <2>4
    <3>2. S(n + 1) = S(n)
      BY <1>2, <2>4
    <3> QED
      BY <1>9, <2>1, <3>1, <3>2
  <2> QED
    BY <2>2, <2>3, <2>4
<1>10. 0 \in T
  BY <1>1, <1>2, <1>8
<1> HIDE DEF T
<1>11. \A n \in 0 .. count : n \in T
  BY <1>2, <1>9, <1>10, UpTo
<1>12. S(count) = K
  BY <1>1, <1>2
<1>13. Joins(f[count], S(count))
  BY <1>2, <1>11 DEF T
<1> QED
  BY <1>5, <1>12, <1>13

\* What a row is known to have in common with the devices it is merged into.
LEMMA CandidatesFit ==
    ASSUME RecordsInv, NEW row \in MCRows,
           NEW r, r = R!Single(row, file, count + 1), NEW K, K = R!Candidates(r)
    PROVE  /\ K \subseteq DOMAIN nodes
           /\ \A n \in K : R!Compatible(nodes[n], r)
           /\ mode = "cached" =>
                 \A n \in K : /\ ~R!Disjoint(r.mat, nodes[n].mat)
                              /\ file \in nodes[n].files => R!Observation(r)
<1>1. K \subseteq R!Matched(r)
  BY DEF R!Candidates, R!Preserved
<1>2. R!Matched(r) \subseteq DOMAIN nodes /\ \A n \in R!Matched(r) : R!Compatible(nodes[n], r)
  BY DEF R!Matched, R!Strong, R!Weak
<1>3. mode = "cached" => K = R!Preserved(r)
  BY DEF R!Candidates
<1> QED
  BY <1>1, <1>2, <1>3 DEF R!Preserved

\* Devices that are merged with a row agree with it and with each other.
LEMMA JoinedFits ==
    ASSUME RecordsInv, NEW row \in MCRows,
           NEW r, r = R!Single(row, file, count + 1), NEW K, K = R!Candidates(r), K # {},
           ~R!Ambiguous(r, K), NEW d, d = R!Absorb(R!Gathered(K), r)
    PROVE  /\ Summed(d) /\ Coherent(d, mode)
           /\ d.ext = (UNION {nodes[n].ext : n \in K}) \cup r.ext
           /\ d.rows = (UNION {nodes[n].rows : n \in K}) \cup r.rows
<1> DEFINE g == R!Gathered(K)
<1>1. /\ K \subseteq DOMAIN nodes
      /\ \A n \in K : R!Compatible(nodes[n], r)
      /\ mode = "cached" =>
            \A n \in K : /\ ~R!Disjoint(r.mat, nodes[n].mat)
                         /\ file \in nodes[n].files => R!Observation(r)
  BY CandidatesFit
<1>2. Joins(g, K)
  BY <1>1, GatheredJoins
<1>3. /\ d.ext = g.ext \cup r.ext /\ d.mat = g.mat \cup r.mat /\ d.rows = g.rows \cup r.rows
  BY DEF R!Absorb
<1>4. Summed(r) /\ Coherent(r, mode)
  BY SingleFits DEF RecordsInv
<1>5. Summed(d)
  BY <1>2, <1>4, AbsorbSummed DEF Joins
<1>6. \A n \in K : Summed(nodes[n]) /\ Coherent(nodes[n], mode)
  BY <1>1 DEF RecordsInv
<1>7. \A m, n \in K : m # n => R!Compatible(nodes[m], nodes[n])
  BY DEF R!Ambiguous
<1>8. mode = "cached" =>
        \A m, n \in K : m # n => /\ ~R!Disjoint(nodes[m].mat, nodes[n].mat)
                                 /\ R!SourcesOf(r, m) \cap R!SourcesOf(r, n) = {}
  BY DEF R!Ambiguous
<1> HIDE DEF g
<1>9. /\ d.ext = (UNION {nodes[n].ext : n \in K}) \cup r.ext
      /\ d.mat = (UNION {nodes[n].mat : n \in K}) \cup r.mat
      /\ d.rows = (UNION {nodes[n].rows : n \in K}) \cup r.rows
  BY <1>2, <1>3 DEF Joins
<1>10. \A x, y \in d.ext : x = y
  <2>1. \A n \in K : \A x, y \in nodes[n].ext : x = y
    BY <1>6 DEF Coherent
  <2>2. \A m, n \in K : \A x \in nodes[m].ext, y \in nodes[n].ext : x = y
    BY <2>1, <1>7 DEF R!Compatible
  <2>3. \A n \in K : \A x \in nodes[n].ext, y \in r.ext : x = y
    BY <2>1, <1>1 DEF R!Compatible
  <2>4. \A x, y \in r.ext : x = y
    BY <1>4 DEF Coherent
  <2> QED
    BY <2>2, <2>3, <2>4, <1>9
<1>11. ASSUME mode = "cached" PROVE \A x, y \in d.mat : x = y
  <2>1. \A n \in K : \A x, y \in nodes[n].mat : x = y
    BY <1>6, <1>11 DEF Coherent
  <2>2. \A m, n \in K : \A x \in nodes[m].mat, y \in nodes[n].mat : x = y
    BY <2>1, <1>8, <1>11 DEF R!Disjoint
  <2>4. \A x, y \in r.mat : x = y
    BY <1>4, <1>11 DEF Coherent
  <2>3. \A n \in K : \A x \in nodes[n].mat, y \in r.mat : x = y
    BY <2>1, <2>4, <1>1, <1>11 DEF R!Disjoint
  <2> QED
    BY <2>2, <2>3, <2>4, <1>9
<1>12. ASSUME mode = "cached", NEW x \in d.rows, NEW y \in d.rows, x.file = y.file, x # y
       PROVE  x.file \in MCDiagnostics
  <2>1. \A n \in K : \A z \in nodes[n].rows : z.file \in nodes[n].files
    BY <1>6 DEF Summed
  <2>2. R!Observation(r) => file \in MCDiagnostics
    BY DEF R!Observation
  <2>3. \A z \in r.rows : z.file = file
    BY <1>4 DEF R!Single
  <2>4. \A z, w \in r.rows : z = w
    BY DEF R!Single
  <2>5. CASE \E m, n \in K : x \in nodes[m].rows /\ y \in nodes[n].rows
    <3>1. PICK m \in K, n \in K : x \in nodes[m].rows /\ y \in nodes[n].rows
      BY <2>5
    <3>2. CASE m = n
      BY <1>6, <1>12, <3>1, <3>2 DEF Coherent
    <3>3. CASE m # n
      <4>1. R!SourcesOf(r, m) \cap R!SourcesOf(r, n) = {}
        BY <1>8, <1>12, <3>3
      <4>2. x.file \in nodes[m].files /\ x.file \in nodes[n].files
        BY <1>12, <2>1, <3>1
      <4>3. R!Observation(r) /\ x.file = file
        BY <4>1, <4>2 DEF R!SourcesOf
      <4> QED
        BY <2>2, <4>3
    <3> QED
      BY <3>2, <3>3
  <2>6. CASE \E n \in K : x \in nodes[n].rows /\ y \in r.rows
    BY <1>1, <1>12, <2>1, <2>2, <2>3, <2>6
  <2>7. CASE \E n \in K : y \in nodes[n].rows /\ x \in r.rows
    BY <1>1, <1>12, <2>1, <2>2, <2>3, <2>7
  <2>8. CASE x \in r.rows /\ y \in r.rows
    BY <1>12, <2>4, <2>8
  <2> QED
    BY <1>9, <2>5, <2>6, <2>7, <2>8
<1>13. Coherent(d, mode)
  BY <1>10, <1>11, <1>12 DEF Coherent
<1> QED
  BY <1>5, <1>9, <1>13

\* In the default mode a device with the address of the row is among its candidates, and they do
\* not contradict each other.
LEMMA AddressMatched ==
    ASSUME RecordsInv, NEW row \in MCRows, mode = "strict",
           NEW r, r = R!Single(row, file, count + 1), NEW n \in DOMAIN nodes,
           nodes[n].ext \cap r.ext # {}
    PROVE  n \in R!Candidates(r) /\ ~R!Ambiguous(r, R!Candidates(r))
<1>1. \A x, y \in r.ext : x = y
  BY SingleFits DEF RecordsInv, Coherent
<1>2. \A m \in DOMAIN nodes : \A x, y \in nodes[m].ext : x = y
  BY DEF RecordsInv, Coherent
<1>3. nodes[n].ext = r.ext
  BY <1>1, <1>2
<1>4. n \in R!Strong(r)
  BY <1>3 DEF R!Strong, R!Compatible
<1>5. R!Candidates(r) = R!Strong(r)
  BY <1>4 DEF R!Candidates, R!Matched
<1>6. \A m \in R!Strong(r) : nodes[m].ext = {} \/ nodes[m].ext = r.ext
  BY <1>3 DEF R!Strong, R!Compatible
<1> QED
  BY <1>4, <1>5, <1>6 DEF R!Ambiguous, R!Compatible

LEMMA RecordsBegin == R!Init => RecordsInv
<1> SUFFICES ASSUME R!Init PROVE RecordsInv
  OBVIOUS
<1>1. DOMAIN nodes = {} /\ count = 0 /\ file = 1 /\ nodes = [n \in DOMAIN nodes |-> nodes[n]]
  BY DEF R!Init
<1> QED
  BY <1>1, RecordsConstants DEF R!Init, RecordsInv, RowsApart, AddressesApart

\* A row that belongs to none of the devices, or to several that contradict each other, becomes
\* a device of its own.
LEMMA NewDevice ==
    ASSUME RecordsInv, NEW row \in MCRows, R!Merge(row),
           LET r == R!Single(row, file, count + 1)
           IN  R!Candidates(r) = {} \/ R!Ambiguous(r, R!Candidates(r))
    PROVE  RecordsInv'
<1> DEFINE r == R!Single(row, file, count + 1)
           k == count + 1
<1>1. /\ nodes' = [n \in DOMAIN nodes \cup {k} |-> IF n = k THEN r ELSE nodes[n]]
      /\ count' = k /\ mode' = mode /\ file' = file
  BY DEF R!Merge
<1>2. /\ count \in Nat /\ DOMAIN nodes \subseteq 1 .. count /\ k \notin DOMAIN nodes
      /\ file \in 1 .. Files
  BY DEF RecordsInv
<1>3. /\ DOMAIN nodes' = DOMAIN nodes \cup {k} /\ nodes'[k] = r
      /\ \A n \in DOMAIN nodes : nodes'[n] = nodes[n]
      /\ nodes' = [n \in DOMAIN nodes' |-> nodes'[n]]
  BY <1>1, <1>2
<1>4. Summed(r) /\ Coherent(r, mode)
  BY <1>2, SingleFits
<1>5. /\ \A x \in r.rows : x.id = k
      /\ \E x \in r.rows : x.id = k
  <2> DEFINE x == [id |-> k, file |-> file, says |-> row.says]
  <2>1. r.rows = {x}
    BY DEF R!Single
  <2>2. x.id = k
    OBVIOUS
  <2> HIDE DEF x, r, k
  <2> QED
    BY <2>1, <2>2
<1>6. mode = "strict" => \A n \in DOMAIN nodes : nodes[n].ext \cap r.ext = {}
  <2> SUFFICES ASSUME mode = "strict", NEW n \in DOMAIN nodes, nodes[n].ext \cap r.ext # {}
               PROVE  FALSE
    OBVIOUS
  <2> QED
    BY AddressMatched
<1> HIDE DEF r
<1>8. \A n \in DOMAIN nodes' : Summed(nodes'[n]) /\ Coherent(nodes'[n], mode')
  BY <1>1, <1>3, <1>4 DEF RecordsInv
<1>10. RowsApart'
  <2>1. ASSUME NEW i \in 1 .. k
        PROVE  \E n \in DOMAIN nodes' : \E x \in nodes'[n].rows : x.id = i
    <3>1. CASE i = k
      BY <1>3, <1>5, <3>1
    <3>2. CASE i \in 1 .. count
      BY <1>3, <3>2 DEF RecordsInv, RowsApart
    <3> QED
      BY <1>2, <3>1, <3>2
  <2>2. ASSUME NEW n \in DOMAIN nodes', NEW x \in nodes'[n].rows
        PROVE  /\ x.id \in 1 .. k
               /\ n # k => x.id \in 1 .. count
               /\ n = k => x.id = k
    BY <1>2, <1>3, <1>5 DEF RecordsInv, RowsApart
  <2>3. ASSUME NEW m \in DOMAIN nodes', NEW n \in DOMAIN nodes', m # n,
               NEW x \in nodes'[m].rows, NEW y \in nodes'[n].rows
        PROVE  x.id # y.id
    <3>1. CASE m # k /\ n # k
      BY <1>3, <2>3, <3>1 DEF RecordsInv, RowsApart
    <3>2. CASE m = k \/ n = k
      BY <1>2, <2>2, <2>3, <3>2
    <3> QED
      BY <3>1, <3>2
  <2> QED
    BY <1>1, <2>1, <2>2, <2>3 DEF RowsApart
<1>11. AddressesApart'
  BY <1>1, <1>3, <1>6 DEF RecordsInv, AddressesApart
<1>12. DOMAIN nodes' \subseteq 1 .. count' /\ count' \in Nat
  BY <1>1, <1>2, <1>3
<1> QED
  BY <1>1, <1>2, <1>3, <1>8, <1>10, <1>11, <1>12 DEF RecordsInv

\* The devices a row belongs to become one, which has the number of the oldest.
LEMMA JoinedDevice ==
    ASSUME RecordsInv, NEW row \in MCRows, R!Merge(row),
           NEW r, r = R!Single(row, file, count + 1), NEW K, K = R!Candidates(r), K # {},
           ~R!Ambiguous(r, K)
    PROVE  RecordsInv'
<1> DEFINE o == R!Oldest(K)
           d == R!Absorb(R!Gathered(K), r)
           k == count + 1
<1>1. /\ nodes' = R!Joined(K, r) /\ count' = k /\ mode' = mode /\ file' = file
  BY DEF R!Merge
<1>2. /\ count \in Nat /\ DOMAIN nodes \subseteq 1 .. count /\ file \in 1 .. Files
      /\ K \subseteq DOMAIN nodes
  BY CandidatesFit DEF RecordsInv
<1>3. o \in K
  BY <1>2, OldestIs
<1>4. /\ Summed(d) /\ Coherent(d, mode)
      /\ d.ext = (UNION {nodes[n].ext : n \in K}) \cup r.ext
      /\ d.rows = (UNION {nodes[n].rows : n \in K}) \cup r.rows
  BY JoinedFits
<1>5. /\ \A x \in r.rows : x.id = k
      /\ \E x \in r.rows : x.id = k
  <2> DEFINE x == [id |-> k, file |-> file, says |-> row.says]
  <2>1. r.rows = {x}
    BY DEF R!Single
  <2>2. x.id = k
    OBVIOUS
  <2> HIDE DEF x, k
  <2> QED
    BY <2>1, <2>2
<1>6. R!Joined(K, r) = [n \in DOMAIN nodes \ (K \ {o}) |-> IF n = o THEN d ELSE nodes[n]]
  BY DEF R!Joined
<1> HIDE DEF d, o
<1>7. /\ DOMAIN nodes' = DOMAIN nodes \ (K \ {o}) /\ nodes'[o] = d
      /\ \A n \in DOMAIN nodes \ K : n \in DOMAIN nodes' /\ nodes'[n] = nodes[n]
      /\ \A n \in DOMAIN nodes' : n = o \/ n \in DOMAIN nodes \ K
      /\ nodes' = [n \in DOMAIN nodes' |-> nodes'[n]]
  BY <1>1, <1>2, <1>3, <1>6
<1>8. \A n \in DOMAIN nodes' : Summed(nodes'[n]) /\ Coherent(nodes'[n], mode')
  BY <1>1, <1>4, <1>7 DEF RecordsInv
<1>9. \A x \in d.rows : x \in r.rows \/ \E n \in K : x \in nodes[n].rows
  BY <1>4
<1>10. RowsApart'
  <2>1. ASSUME NEW i \in 1 .. k
        PROVE  \E n \in DOMAIN nodes' : \E x \in nodes'[n].rows : x.id = i
    <3>1. CASE i = k
      BY <1>3, <1>4, <1>5, <1>7, <1>2, <3>1
    <3>2. CASE i \in 1 .. count
      <4>1. PICK n \in DOMAIN nodes : \E x \in nodes[n].rows : x.id = i
        BY <3>2 DEF RecordsInv, RowsApart
      <4>2. CASE n \in K
        <5>1. nodes[n].rows \subseteq d.rows /\ o \in DOMAIN nodes'
          BY <1>2, <1>3, <1>4, <1>7, <4>2
        <5> QED
          BY <1>7, <4>1, <5>1
      <4>3. CASE n \notin K
        BY <1>7, <4>1, <4>3
      <4> QED
        BY <4>2, <4>3
    <3> QED
      BY <1>2, <3>1, <3>2
  <2>2. ASSUME NEW n \in DOMAIN nodes', NEW x \in nodes'[n].rows
        PROVE  \/ x.id = k /\ n = o
               \/ /\ x.id \in 1 .. count
                  /\ \E m \in DOMAIN nodes : /\ x \in nodes[m].rows
                                             /\ IF n = o THEN m \in K ELSE m = n
    <3>1. CASE n = o /\ x \in r.rows
      BY <1>5, <3>1
    <3>2. CASE n = o /\ x \notin r.rows
      <4>1. PICK m \in K : x \in nodes[m].rows
        BY <1>7, <1>9, <2>2, <3>2
      <4> QED
        BY <1>2, <3>2, <4>1 DEF RecordsInv, RowsApart
    <3>3. CASE n # o
      BY <1>7, <2>2, <3>3 DEF RecordsInv, RowsApart
    <3> QED
      BY <3>1, <3>2, <3>3
  <2>3. ASSUME NEW m \in DOMAIN nodes', NEW n \in DOMAIN nodes', m # n,
               NEW x \in nodes'[m].rows, NEW y \in nodes'[n].rows
        PROVE  x.id # y.id
    <3>1. CASE x.id = k \/ y.id = k
      BY <1>2, <2>2, <2>3, <3>1
    <3>2. CASE x.id # k /\ y.id # k
      <4>1. PICK p \in DOMAIN nodes : /\ x \in nodes[p].rows
                                      /\ IF m = o THEN p \in K ELSE p = m
        BY <2>2, <3>2
      <4>2. PICK q \in DOMAIN nodes : /\ y \in nodes[q].rows
                                      /\ IF n = o THEN q \in K ELSE q = n
        BY <2>2, <3>2
      <4>3. p # q
        BY <1>7, <2>3, <4>1, <4>2
      <4> QED
        BY <4>1, <4>2, <4>3 DEF RecordsInv, RowsApart
    <3> QED
      BY <3>1, <3>2
  <2>4. \A n \in DOMAIN nodes' : \A x \in nodes'[n].rows : x.id \in 1 .. k
    BY <1>2, <2>2
  <2> QED
    BY <1>1, <2>1, <2>3, <2>4 DEF RowsApart
<1>11. ASSUME mode = "strict", NEW n \in DOMAIN nodes \ K PROVE nodes[n].ext \cap d.ext = {}
  <2>1. \A m \in K : nodes[n].ext \cap nodes[m].ext = {}
    BY <1>2, <1>11 DEF RecordsInv, AddressesApart
  <2>2. nodes[n].ext \cap r.ext = {}
    <3> SUFFICES ASSUME nodes[n].ext \cap r.ext # {} PROVE FALSE
      OBVIOUS
    <3> QED
      BY <1>11, AddressMatched
  <2> QED
    BY <1>4, <2>1, <2>2
<1>12. AddressesApart'
  <2> SUFFICES ASSUME mode = "strict", NEW m \in DOMAIN nodes', NEW n \in DOMAIN nodes', m # n
               PROVE  nodes'[m].ext \cap nodes'[n].ext = {}
    BY <1>1 DEF AddressesApart
  <2>1. CASE m = o
    BY <1>7, <1>11, <2>1
  <2>2. CASE n = o
    BY <1>7, <1>11, <2>2
  <2>3. CASE m # o /\ n # o
    BY <1>7, <2>3 DEF RecordsInv, AddressesApart
  <2> QED
    BY <2>1, <2>2, <2>3
<1>13. DOMAIN nodes' \subseteq 1 .. count' /\ count' \in Nat
  BY <1>1, <1>2, <1>7
<1> QED
  BY <1>1, <1>2, <1>7, <1>8, <1>10, <1>12, <1>13 DEF RecordsInv

LEMMA RecordsStep == RecordsInv /\ R!Next => RecordsInv'
<1> SUFFICES ASSUME RecordsInv, R!Next PROVE RecordsInv'
  OBVIOUS
<1>1. CASE R!NextFile
  <2>1. /\ file' \in 1 .. Files /\ UNCHANGED << mode, count, nodes >>
    BY <1>1, RecordsConstants DEF R!NextFile, RecordsInv
  <2> QED
    BY <2>1 DEF RecordsInv, RowsApart, AddressesApart
<1>2. ASSUME NEW row \in MCRows, R!Merge(row) PROVE RecordsInv'
  BY <1>2, NewDevice, JoinedDevice
<1> QED
  BY <1>1, <1>2 DEF R!Next

LEMMA RecordsStay == RecordsInv /\ UNCHANGED recordsVars => RecordsInv'
BY DEF RecordsInv, RowsApart, AddressesApart, recordsVars

LEMMA RecordsCardinality ==
    /\ \A S : (\A x, y \in S : x = y) => R!Cardinality(S) <= 1
    /\ \A S : (\E x \in S : \A y \in S : y = x) => R!Cardinality(S) = 1
<1>1. \A S : R!Cardinality(S) = Cardinality(S)
  BY DEF R!Cardinality, Cardinality
<1>2. ASSUME NEW S, \E x \in S : \A y \in S : y = x PROVE R!Cardinality(S) = 1
  <2>1. PICK x : S = {x}
    BY <1>2
  <2> QED
    BY <1>1, <2>1, FS_Singleton
<1>3. ASSUME NEW S, \A x, y \in S : x = y PROVE R!Cardinality(S) <= 1
  <2>1. CASE S = {}
    BY <1>1, <2>1, FS_EmptySet
  <2>2. CASE S # {}
    BY <1>2, <1>3, <2>2
  <2> QED
    BY <2>1, <2>2
<1> QED
  BY <1>2, <1>3

LEMMA RecordsGoal == RecordsInv => R!IdentitiesApart /\ R!RowsKept /\ R!SummaryIsBest
<1> SUFFICES ASSUME RecordsInv PROVE R!IdentitiesApart /\ R!RowsKept /\ R!SummaryIsBest
  OBVIOUS
<1>1. \A n \in DOMAIN nodes : Summed(nodes[n]) /\ Coherent(nodes[n], mode)
  BY DEF RecordsInv
<1>2. R!IdentitiesApart
  BY <1>1, RecordsCardinality DEF R!IdentitiesApart, Coherent, RecordsInv, AddressesApart
<1>3. R!RowsKept
  <2>1. ASSUME NEW i \in 1 .. count
        PROVE  R!Cardinality({n \in DOMAIN nodes : \E x \in nodes[n].rows : x.id = i}) = 1
    <3> DEFINE S == {n \in DOMAIN nodes : \E x \in nodes[n].rows : x.id = i}
    <3>1. PICK n \in DOMAIN nodes : \E x \in nodes[n].rows : x.id = i
      BY DEF RecordsInv, RowsApart
    <3>2. n \in S /\ \A m \in S : m = n
      BY <3>1 DEF RecordsInv, RowsApart
    <3> QED
      BY <3>2, RecordsCardinality
  <2>2. \A n \in DOMAIN nodes : nodes[n].files = {x.file : x \in nodes[n].rows}
    BY <1>1 DEF Summed
  <2> QED
    BY <2>1, <2>2 DEF R!RowsKept
<1>4. R!SummaryIsBest
  BY <1>1 DEF R!SummaryIsBest, Summed, ToldIn, R!Told
<1> QED
  BY <1>2, <1>3, <1>4

\* Whatever rows come in whatever order, from however many files: no identities are mixed, each
\* row is in one device, and the summary of a device is the best of its rows.
THEOREM MergedRecordsAreSound == AllSpec => []RecordsSound
<1>1. AllInit => RecordsInv
  BY RecordsBegin DEF AllInit
<1>2. RecordsInv /\ [AllNext]_allVars => RecordsInv'
  BY RecordsStep, RecordsStay DEF AllNext, allVars
<1>3. RecordsInv => RecordsSound
  BY RecordsGoal DEF RecordsSound
<1> QED
  BY <1>1, <1>2, <1>3, PTL DEF AllSpec

-------------------------------------------------------------------------------
(* MergeFields: the routes.                                                *)

LEMMA Quotient ==
    ASSUME NEW w \in Nat, w > 0, NEW a \in Int
    PROVE  a = w * (a \div w) + (a % w) /\ a % w \in 0 .. w - 1 /\ a \div w \in Int
OBVIOUS

\* A number has one quotient.
LEMMA OneQuotient ==
    ASSUME NEW w \in Nat, w > 0, NEW q \in Int, NEW r \in 0 .. w - 1, NEW k \in Int,
           NEW s \in 0 .. w - 1, w * q + r = w * k + s
    PROVE  r = s
<1>1. w * (q - k) = s - r
  OBVIOUS
<1>2. CASE q - k >= 1
  <2>1. w * (q - k) >= w
    BY <1>2
  <2> QED
    BY <1>1, <2>1
<1>3. CASE q - k <= -1
  <2>1. w * (q - k) <= -w
    BY <1>3
  <2> QED
    BY <1>1, <2>1
<1>4. CASE q = k
  BY <1>1, <1>4
<1> QED
  BY <1>2, <1>3, <1>4

LEMMA Remainder ==
    ASSUME NEW w \in Nat, w > 0, NEW q \in Int, NEW r \in 0 .. w - 1
    PROVE  (w * q + r) % w = r
<1>1. w * q + r \in Int
  OBVIOUS
<1>2. PICK a \in Int : a = w * q + r
  BY <1>1
<1>3. a = w * (a \div w) + (a % w) /\ a % w \in 0 .. w - 1 /\ a \div w \in Int
  BY Quotient
<1> QED
  BY <1>2, <1>3, OneQuotient

\* The difference of two wrapped numbers is that of the numbers, wrapped.
LEMMA WrappedDifference ==
    ASSUME NEW w \in Nat, w > 0, NEW a \in Nat, NEW b \in Nat
    PROVE  ((a % w) + w - (b % w)) % w = (a - b) % w
<1> DEFINE d == a - b
           e == (a % w) + w - (b % w)
           i == a \div w
           j == b \div w
           k == d \div w
<1>1. a = w * i + (a % w) /\ i \in Int /\ a % w \in 0 .. w - 1
  BY Quotient
<1>2. b = w * j + (b % w) /\ j \in Int /\ b % w \in 0 .. w - 1
  BY Quotient
<1>3. d = w * k + (d % w) /\ k \in Int /\ d % w \in 0 .. w - 1 /\ d \in Int
  BY Quotient
<1> HIDE DEF i, j, k
<1>4. e = d + w * (1 - i + j)
  BY <1>1, <1>2
<1>5. e = w * (k + 1 - i + j) + (d % w) /\ k + 1 - i + j \in Int
  BY <1>1, <1>2, <1>3, <1>4
<1> HIDE DEF d, e
<1>6. e % w = d % w
  BY <1>3, <1>5, Remainder
<1> QED
  BY <1>6 DEF d, e

LEMMA FieldsConstants == Width \in Nat /\ Width > 1 /\ Versions \subseteq Nat /\ None \notin Nat
BY RecordsAssumptions DEF F!FieldsAssumption

\* Within half the range of the sequence, the newer version is found to be newer.
LEMMA NewerIsLater ==
    ASSUME NEW v \in Nat, NEW w \in Nat, w < v, v - w < Width \div 2
    PROVE  /\ F!Compared(v % Width, w % Width) = "a_newer"
           /\ F!Compared(w % Width, v % Width) = "b_newer"
<1>1. Width \in Nat /\ Width > 1 /\ None \notin Nat
  BY FieldsConstants
<1>2. v % Width \in 0 .. Width - 1 /\ w % Width \in 0 .. Width - 1
  BY <1>1, Quotient
<1> DEFINE d == v - w
<1>3. /\ d \in 1 .. Width - 1 /\ d < Width \div 2 /\ d \in Int
      /\ Width - d \in 1 .. Width - 1 /\ ~(Width - d < Width \div 2)
  BY <1>1
<1>4. ((v % Width) + Width - (w % Width)) % Width = d
  <2>1. d % Width = d
    BY <1>1, <1>3
  <2>2. Width > 0
    BY <1>1
  <2>3. ((v % Width) + Width - (w % Width)) % Width = d % Width
    BY <1>1, <2>2, WrappedDifference, Zenon
  <2> QED
    BY <2>1, <2>3
<1>5. ((w % Width) + Width - (v % Width)) % Width = Width - d
  <2>1. (w - v) % Width = Width - d
    <3>1. w - v = Width * (-1) + (Width - d)
      BY <1>1
    <3> QED
      BY <1>1, <1>3, <3>1, Remainder
  <2>2. Width > 0
    BY <1>1
  <2>3. ((w % Width) + Width - (v % Width)) % Width = (w - v) % Width
    BY <1>1, <2>2, WrappedDifference, Zenon
  <2> QED
    BY <2>1, <2>3
<1> HIDE DEF d
<1>6. F!Newer(v % Width, w % Width) /\ ~F!Newer(w % Width, v % Width)
  BY <1>3, <1>4, <1>5 DEF F!Newer
<1>7. v % Width # w % Width
  <2> SUFFICES ASSUME v % Width = w % Width PROVE FALSE
    OBVIOUS
  <2>1. F!Newer(v % Width, v % Width) /\ ~F!Newer(v % Width, v % Width)
    BY <1>6
  <2> QED
    BY <2>1
<1>8. v % Width # None /\ w % Width # None
  BY <1>1, <1>2
<1> QED
  BY <1>6, <1>7, <1>8 DEF F!Compared

\* While the versions lie within half the range, the routes are of the newest.
RoutesInv ==
    /\ seen \subseteq Nat
    /\ routes = [seq |-> routes.seq, list |-> routes.list]
    /\ F!RoutesOfOneVersion
    /\ seen = {} => routes.seq = None
    /\ F!NewestRoutes

LEMMA RoutesBegin == F!Init => RoutesInv
<1> SUFFICES ASSUME F!Init PROVE RoutesInv
  OBVIOUS
<1>1. routes.seq = None /\ routes.list = {} /\ seen = {} /\ routes = [seq |-> None, list |-> {}]
  BY DEF F!Init
<1> QED
  BY <1>1 DEF RoutesInv, F!RoutesOfOneVersion, F!NewestRoutes

LEMMA RoutesStep ==
    ASSUME RoutesInv, NEW v \in Versions, NEW known \in BOOLEAN, NEW ds, NEW p,
           F!ObserveRoutes(v, known, ds, p)
    PROVE  RoutesInv'
<1> DEFINE s == IF known THEN v % Width ELSE None
           new == [seq |-> s, list |-> [dest : ds, seq : {s}, part : {p}]]
           near(S) == \A u, w \in S : u - w < Width \div 2
<1>1. /\ routes' = IF F!Rejected(p) THEN routes ELSE F!MergedRoutes(routes, new)
      /\ seen' = IF F!Rejected(p) \/ ~known THEN seen ELSE seen \cup {v}
      /\ partition' = IF partition = None THEN p ELSE partition
  BY DEF F!ObserveRoutes
<1>2. Width \in Nat /\ Width > 1 /\ Versions \subseteq Nat /\ None \notin Nat /\ v \in Nat
  BY FieldsConstants
<1>3. v % Width \in Nat /\ v % Width # None
  BY <1>2, Quotient
<1>4. /\ new.seq = s /\ \A r \in new.list : r.seq = s /\ r.part = p
      /\ new = [seq |-> new.seq, list |-> new.list]
  OBVIOUS
<1> DEFINE c == F!Compared(routes.seq, s)
<1>5. /\ c = "equal" => routes.seq = s
      /\ c = "unknown" => routes.seq = s
      /\ c \in {"unknown", "b_newer", "a_newer", "equal", "ambiguous"}
  BY DEF F!Compared
<1>6. F!MergedRoutes(routes, new) =
        IF c = "b_newer" THEN new
        ELSE IF c \in {"a_newer", "ambiguous"} THEN routes
        ELSE [routes EXCEPT !.list = routes.list \cup
                                       {r \in new.list : r.dest \notin F!Reached(routes.list)}]
  BY <1>4, <1>5 DEF F!MergedRoutes
<1> DEFINE more == {r \in new.list : r.dest \notin F!Reached(routes.list)}
<1> HIDE DEF new, c, more
<1>7. \/ routes' = routes
      \/ ~F!Rejected(p) /\ c = "b_newer" /\ routes' = new
      \/ /\ ~F!Rejected(p) /\ c \in {"equal", "unknown"}
         /\ routes' = [routes EXCEPT !.list = routes.list \cup more] /\ more \subseteq new.list
  BY <1>1, <1>5, <1>6 DEF more
<1>8. \/ routes' = routes
      \/ ~F!Rejected(p) /\ routes' = new
      \/ /\ ~F!Rejected(p) /\ routes.seq = s /\ routes'.seq = s
         /\ routes'.list = routes.list \cup more /\ more \subseteq new.list
         /\ routes' = [seq |-> routes'.seq, list |-> routes'.list]
  <2>1. CASE /\ ~F!Rejected(p) /\ c \in {"equal", "unknown"}
             /\ routes' = [routes EXCEPT !.list = routes.list \cup more] /\ more \subseteq new.list
    <3>1. routes' = [seq |-> routes.seq, list |-> routes.list \cup more]
      BY <2>1 DEF RoutesInv
    <3>2. routes'.seq = routes.seq /\ routes'.list = routes.list \cup more
      BY <3>1
    <3> QED
      BY <1>5, <2>1, <3>1, <3>2
  <2> QED
    BY <1>7, <2>1
<1>9. routes' = [seq |-> routes'.seq, list |-> routes'.list]
  BY <1>4, <1>8 DEF RoutesInv
<1>10. F!RoutesOfOneVersion'
  <2>1. ~F!Rejected(p) => p \in {None, partition'}
    BY <1>1 DEF F!Rejected
  <2>2. \A r \in routes.list : r.seq = routes.seq /\ r.part \in {None, partition'}
    BY <1>1 DEF RoutesInv, F!RoutesOfOneVersion
  <2> QED
    BY <1>4, <1>8, <2>1, <2>2 DEF F!RoutesOfOneVersion
<1>11. routes'.seq = IF ~F!Rejected(p) /\ c = "b_newer" THEN s ELSE routes.seq
  BY <1>1, <1>4, <1>5, <1>6, <1>7, <1>8
<1>12. CASE F!Rejected(p) \/ ~known
  <2>1. seen' = seen
    BY <1>1, <1>12
  <2>2. routes'.seq = routes.seq
    <3>1. CASE F!Rejected(p)
      BY <1>11, <3>1
    <3>2. CASE ~known
      <4>1. c # "b_newer"
        BY <3>2 DEF c, F!Compared
      <4> QED
        BY <1>11, <4>1
    <3> QED
      BY <1>12, <3>1, <3>2
  <2>3. F!NewestRoutes'
    BY <2>1, <2>2 DEF RoutesInv, F!NewestRoutes
  <2> QED
    BY <1>9, <1>10, <2>1, <2>2, <2>3 DEF RoutesInv
<1>13. CASE ~F!Rejected(p) /\ known
  <2>1. seen' = seen \cup {v} /\ s = v % Width
    BY <1>1, <1>13
  <2>2. ASSUME near(seen')
        PROVE  \E u \in seen' : (\A w \in seen' : w <= u) /\ routes'.seq = u % Width
    <3>1. CASE seen = {}
      <4>1. routes.seq = None
        BY <3>1 DEF RoutesInv
      <4>2. c = "b_newer"
        BY <1>3, <2>1, <4>1 DEF c, F!Compared
      <4>3. routes'.seq = v % Width /\ seen' = {v} /\ v <= v
        BY <1>2, <1>11, <1>13, <2>1, <3>1, <4>2
      <4> QED
        BY <4>3
    <3>2. CASE seen # {}
      <4>1. near(seen)
        BY <2>1, <2>2
      <4>2. PICK u \in seen : (\A w \in seen : w <= u) /\ routes.seq = u % Width
        BY <3>2, <4>1 DEF RoutesInv, F!NewestRoutes
      <4>3. u \in Nat /\ seen \subseteq Nat
        BY DEF RoutesInv
      <4>4. v - u < Width \div 2 /\ u - v < Width \div 2
        BY <2>1, <2>2
      <4>5. CASE v = u
        <5>1. routes'.seq = u % Width
          BY <1>11, <2>1, <4>2, <4>5
        <5> QED
          BY <2>1, <4>2, <4>5, <5>1
      <4>6. CASE u < v
        <5>1. c = "b_newer"
          BY <1>2, <2>1, <4>2, <4>3, <4>4, <4>6, NewerIsLater DEF c
        <5>2. routes'.seq = v % Width
          BY <1>11, <1>13, <2>1, <5>1
        <5>3. \A w \in seen' : w <= v
          BY <1>2, <2>1, <4>2, <4>3, <4>6
        <5> QED
          BY <2>1, <5>2, <5>3
      <4>7. CASE v < u
        <5>1. c = "a_newer"
          BY <1>2, <2>1, <4>2, <4>3, <4>4, <4>7, NewerIsLater DEF c
        <5>2. routes'.seq = u % Width
          BY <1>11, <4>2, <5>1
        <5>3. \A w \in seen' : w <= u
          BY <1>2, <2>1, <4>2, <4>3, <4>7
        <5> QED
          BY <2>1, <5>2, <5>3
      <4> QED
        BY <1>2, <4>3, <4>5, <4>6, <4>7
    <3> QED
      BY <3>1, <3>2
  <2>3. F!NewestRoutes'
    BY <2>2 DEF F!NewestRoutes
  <2>4. seen' # {} /\ seen' \subseteq Nat
    BY <1>2, <2>1 DEF RoutesInv
  <2> QED
    BY <1>9, <1>10, <2>3, <2>4 DEF RoutesInv
<1> QED
  BY <1>12, <1>13

-------------------------------------------------------------------------------
(* MergeFields: the children.                                              *)

Entries ==
    [ext : Exts \cup {None}, rloc : Rlocs \cup {None}, rlocs : SUBSET Rlocs,
     exts : SUBSET (Exts \cup {None})]

\* A child that is merged, of an observation or of the entries there are.
KidFits(c) ==
    c.ext \in Exts \cup {None} /\ c.rloc \in Rlocs \cup {None} /\ c.exts = {c.ext} \ {None}

\* The entries are of different children.
EntriesApart(list) ==
    /\ \A i \in DOMAIN list : list[i].exts = {list[i].ext} \ {None}
    /\ \A i, j \in DOMAIN list : i # j /\ list[i].ext = list[j].ext => list[i].ext = None

ListFits(list) == list \in Seq(Entries) /\ EntriesApart(list)

Listed(list, e) == \E i \in DOMAIN list : list[i].ext = e

ChildrenInv ==
    /\ ListFits(children)
    /\ \A e \in named : e # None /\ Listed(children, e)

\* A child is merged into the entry of its address, if there is one: no address goes, and none
\* comes twice.
LEMMA PutFits ==
    ASSUME NEW list, ListFits(list), NEW c, KidFits(c)
    PROVE  /\ ListFits(F!Put(list, c))
           /\ \A e : e # None /\ Listed(list, e) => Listed(F!Put(list, c), e)
           /\ c.ext # None => Listed(F!Put(list, c), c.ext)
<1> DEFINE o == F!Owner(list, c)
           same == {i \in DOMAIN list : c.ext # None /\ c.ext = list[i].ext}
           near == {i \in DOMAIN list : c.rloc # None /\ c.rloc \in list[i].rlocs}
           n == F!Put(list, c)
<1>1. o = IF same # {} THEN same
          ELSE IF F!Cardinality(near) = 1 THEN {i \in near : F!Fits(list[i], c)} ELSE {}
  BY DEF F!Owner
<1>2. /\ o \subseteq DOMAIN list
      /\ \A i \in o : c.ext = None \/ list[i].ext = None \/ list[i].ext = c.ext
      /\ c.ext # None =>
            \/ \A i \in DOMAIN list : list[i].ext # c.ext
            \/ \A i \in o : list[i].ext = c.ext
      /\ o = {} => c.ext = None \/ \A i \in DOMAIN list : list[i].ext # c.ext
  BY <1>1 DEF F!Fits
<1> HIDE DEF o
<1>3. list \in Seq(Entries) /\ EntriesApart(list)
  BY DEF ListFits
<1>4. CASE o = {}
  <2> DEFINE new == F!Entry(c)
  <2>1. n = Append(list, new)
    BY <1>4 DEF F!Put, o
  <2>2. new \in Entries /\ new.ext = c.ext /\ new.exts = {c.ext} \ {None}
    BY DEF F!Entry, Entries, KidFits
  <2> HIDE DEF n, new
  <2>3. n \in Seq(Entries)
    BY <1>3, <2>1, <2>2
  <2>4. /\ DOMAIN n = DOMAIN list \cup {Len(list) + 1} /\ n[Len(list) + 1] = new
        /\ Len(list) + 1 \notin DOMAIN list
        /\ \A i \in DOMAIN list : n[i] = list[i]
    BY <1>3, <2>1
  <2>5. EntriesApart(n)
    BY <1>2, <1>3, <1>4, <2>2, <2>4 DEF EntriesApart
  <2>6. /\ \A e : e # None /\ Listed(list, e) => Listed(n, e)
        /\ c.ext # None => Listed(n, c.ext)
    BY <2>2, <2>4 DEF Listed
  <2> QED
    BY <2>3, <2>5, <2>6 DEF ListFits, n
<1>5. CASE o # {}
  <2>1. PICK k : k = CHOOSE i \in o : TRUE
    OBVIOUS
  <2>2. k \in o /\ k \in DOMAIN list
    BY <1>2, <1>5, <2>1
  <2> DEFINE old == list[k]
             new == [ext |-> IF old.ext = None THEN c.ext ELSE old.ext,
                     rloc |-> IF old.rloc = None THEN c.rloc ELSE old.rloc,
                     rlocs |-> old.rlocs \cup ({c.rloc} \ {None}),
                     exts |-> old.exts \cup c.exts]
  <2>3. n = [list EXCEPT ![k] = new]
    BY <1>5, <2>1 DEF F!Put, o
  <2>4. old \in Entries /\ old.exts = {old.ext} \ {None}
    BY <1>3, <2>2 DEF EntriesApart
  <2>5. /\ old.ext \in Exts \cup {None} /\ old.rloc \in Rlocs \cup {None}
        /\ old.rlocs \subseteq Rlocs /\ old.exts \subseteq Exts \cup {None}
    BY <2>4 DEF Entries
  <2>6. c.ext = None \/ old.ext = None \/ old.ext = c.ext
    BY <1>2, <2>2
  <2> HIDE DEF old
  <2>7. /\ new.ext = IF old.ext = None THEN c.ext ELSE old.ext
        /\ new.exts = {new.ext} \ {None}
    BY <2>4, <2>6 DEF KidFits
  <2>8. new \in Entries
    BY <2>5 DEF Entries, KidFits
  <2> HIDE DEF n, new
  <2>9. n \in Seq(Entries)
    BY <1>3, <2>2, <2>3, <2>8
  <2>10. /\ DOMAIN n = DOMAIN list /\ n[k] = new
         /\ \A i \in DOMAIN list : i # k => n[i] = list[i]
    BY <1>3, <2>2, <2>3
  <2>11. \A i \in DOMAIN list : i # k /\ list[i].ext = new.ext => new.ext = None
    <3>1. CASE old.ext = None /\ c.ext # None
      BY <1>2, <2>2, <2>7, <3>1 DEF old
    <3>2. CASE old.ext # None
      BY <1>3, <2>2, <2>7, <3>2 DEF EntriesApart, old
    <3>3. CASE old.ext = None /\ c.ext = None
      BY <2>7, <3>3
    <3> QED
      BY <3>1, <3>2, <3>3
  <2>12. EntriesApart(n)
    BY <1>3, <2>2, <2>7, <2>10, <2>11 DEF EntriesApart
  <2>13. ASSUME NEW e, e # None, Listed(list, e) PROVE Listed(n, e)
    BY <2>2, <2>7, <2>10, <2>13 DEF Listed, old
  <2>14. c.ext # None => Listed(n, c.ext)
    BY <2>2, <2>6, <2>7, <2>10 DEF Listed
  <2> QED
    BY <2>9, <2>12, <2>13, <2>14 DEF ListFits, n
<1> QED
  BY <1>4, <1>5

\* The entries after the first i children, up to k.
Putting(f, list, k) ==
    f = [i \in 0 .. k |-> IF i = 0 THEN << >> ELSE F!Put(f[i - 1], list[i])]

LEMMA PuttingExists ==
    ASSUME NEW list, Len(list) \in Nat
    PROVE  \E f : Putting(f, list, Len(list))
<1> DEFINE T == {k \in 0 .. Len(list) : \E f : Putting(f, list, k)}
<1>1. 0 \in T
  <2>1. Putting([i \in 0 .. 0 |-> << >>], list, 0)
    BY DEF Putting
  <2> QED
    BY <2>1
<1>2. ASSUME NEW k \in 0 .. Len(list) - 1, k \in T PROVE k + 1 \in T
  <2>1. PICK f : Putting(f, list, k)
    BY <1>2
  <2> DEFINE more == F!Put(f[k], list[k + 1])
             g == [i \in 0 .. k + 1 |-> IF i = k + 1 THEN more ELSE f[i]]
  <2>2. ASSUME NEW i \in 0 .. k + 1
        PROVE  g[i] = IF i = 0 THEN << >> ELSE F!Put(g[i - 1], list[i])
    <3>1. CASE i = k + 1
      <4>1. i # 0 /\ i - 1 = k /\ g[i - 1] = f[k] /\ g[i] = more
        BY <3>1
      <4> QED
        BY <3>1, <4>1
    <3>2. CASE i \in 1 .. k
      <4>1. g[i] = f[i] /\ g[i - 1] = f[i - 1] /\ i # 0 /\ i \in 0 .. k
        BY <3>2
      <4>2. f[i] = F!Put(f[i - 1], list[i])
        BY <2>1, <4>1 DEF Putting
      <4> QED
        BY <4>1, <4>2
    <3>3. CASE i = 0
      <4>1. g[i] = f[0] /\ 0 \in 0 .. k
        BY <3>3
      <4> QED
        BY <2>1, <3>3, <4>1 DEF Putting
    <3> QED
      BY <3>1, <3>2, <3>3
  <2>3. g = [i \in 0 .. k + 1 |-> g[i]]
    OBVIOUS
  <2> HIDE DEF g
  <2>4. Putting(g, list, k + 1)
    BY <2>2, <2>3 DEF Putting
  <2>5. k + 1 \in 0 .. Len(list)
    OBVIOUS
  <2> QED
    BY <2>4, <2>5
<1> HIDE DEF T
<1>3. \A k \in 0 .. Len(list) : k \in T
  BY <1>1, <1>2, UpTo
<1> QED
  BY <1>3 DEF T

LEMMA MergedFits ==
    ASSUME NEW list, Len(list) \in Nat, \A i \in 1 .. Len(list) : KidFits(list[i])
    PROVE  /\ ListFits(F!Merged(list))
           /\ \A i \in 1 .. Len(list) : list[i].ext # None => Listed(F!Merged(list), list[i].ext)
<1>1. PICK g : g = CHOOSE f : Putting(f, list, Len(list))
  OBVIOUS
<1>2. Putting(g, list, Len(list))
  BY <1>1, PuttingExists
<1>3. F!Merged(list) = g[Len(list)]
  BY <1>1 DEF F!Merged, Putting
<1> DEFINE U == {k \in 0 .. Len(list) :
                    /\ ListFits(g[k])
                    /\ \A i \in 1 .. k : list[i].ext # None => Listed(g[k], list[i].ext)}
<1>4. 0 \in U
  <2>1. g[0] = << >>
    BY <1>2 DEF Putting
  <2>2. ListFits(<< >>)
    BY DEF ListFits, EntriesApart
  <2> QED
    BY <2>1, <2>2
<1>5. ASSUME NEW k \in 0 .. Len(list) - 1, k \in U PROVE k + 1 \in U
  <2>1. /\ k + 1 \in 1 .. Len(list) /\ k + 1 \in 0 .. Len(list) /\ k + 1 # 0
        /\ (k + 1) - 1 = k
    OBVIOUS
  <2>2. g[k + 1] = F!Put(g[k], list[k + 1])
    BY <1>2, <2>1 DEF Putting
  <2>3. ListFits(g[k]) /\ KidFits(list[k + 1])
    BY <1>5, <2>1
  <2>4. /\ ListFits(g[k + 1])
        /\ \A e : e # None /\ Listed(g[k], e) => Listed(g[k + 1], e)
        /\ list[k + 1].ext # None => Listed(g[k + 1], list[k + 1].ext)
    BY <2>2, <2>3, PutFits
  <2>5. ASSUME NEW i \in 1 .. k + 1, list[i].ext # None PROVE Listed(g[k + 1], list[i].ext)
    <3>1. CASE i = k + 1
      BY <2>4, <2>5, <3>1
    <3>2. CASE i \in 1 .. k
      BY <1>5, <2>4, <2>5, <3>2
    <3> QED
      BY <3>1, <3>2
  <2> QED
    BY <2>1, <2>4, <2>5
<1> HIDE DEF U
<1>6. \A k \in 0 .. Len(list) : k \in U
  BY <1>4, <1>5, UpTo
<1>7. Len(list) \in U
  BY <1>6
<1> QED
  BY <1>3, <1>7 DEF U

LEMMA ChildrenBegin == F!Init => ChildrenInv
BY DEF F!Init, ChildrenInv, ListFits, EntriesApart

LEMMA ChildrenStep ==
    ASSUME ChildrenInv, NEW cs, cs \in Seq(F!Child), F!ObserveChildren(cs)
    PROVE  ChildrenInv'
<1> DEFINE list == children \o cs
<1>1. children' = F!Merged(list) /\ named' = named \cup UNION {cs[i].exts : i \in DOMAIN cs}
  BY DEF F!ObserveChildren
<1>2. children \in Seq(Entries) /\ EntriesApart(children)
  BY DEF ChildrenInv, ListFits
<1>3. \A c \in F!Child : KidFits(c)
  BY DEF F!Child, KidFits
<1>4. \A i \in 1 .. Len(children) : KidFits(children[i])
  <2> SUFFICES ASSUME NEW i \in 1 .. Len(children) PROVE KidFits(children[i])
    OBVIOUS
  <2>1. children[i] \in Entries /\ i \in DOMAIN children
    BY <1>2
  <2> QED
    BY <1>2, <2>1 DEF Entries, KidFits, EntriesApart
<1>5. /\ Len(list) = Len(children) + Len(cs) /\ Len(children) \in Nat /\ Len(cs) \in Nat
      /\ DOMAIN cs = 1 .. Len(cs) /\ DOMAIN children = 1 .. Len(children)
      /\ \A i \in 1 .. Len(children) : list[i] = children[i]
      /\ \A i \in 1 .. Len(cs) : list[Len(children) + i] = cs[i] /\ cs[i] \in F!Child
  BY <1>2
<1>9. \A i \in 1 .. Len(list) : \/ i \in 1 .. Len(children)
                                \/ \E j \in 1 .. Len(cs) : i = Len(children) + j
  <2> SUFFICES ASSUME NEW i \in 1 .. Len(list), i \notin 1 .. Len(children)
               PROVE  \E j \in 1 .. Len(cs) : i = Len(children) + j
    OBVIOUS
  <2>1. i - Len(children) \in 1 .. Len(cs) /\ i = Len(children) + (i - Len(children))
    BY <1>5
  <2> QED
    BY <2>1
<1> HIDE DEF list
<1>6. \A i \in 1 .. Len(list) : KidFits(list[i])
  BY <1>3, <1>4, <1>5, <1>9
<1>7. /\ ListFits(children')
      /\ \A i \in 1 .. Len(list) : list[i].ext # None => Listed(children', list[i].ext)
  BY <1>1, <1>5, <1>6, MergedFits
<1>8. ASSUME NEW e \in named' PROVE e # None /\ Listed(children', e)
  <2>1. CASE e \in named
    <3>1. e # None /\ \E i \in 1 .. Len(children) : children[i].ext = e
      BY <1>5, <2>1 DEF ChildrenInv, Listed
    <3>2. PICK i \in 1 .. Len(children) : children[i].ext = e
      BY <3>1
    <3>3. i \in 1 .. Len(list)
      BY <1>5
    <3> QED
      BY <1>5, <1>7, <3>1, <3>2, <3>3
  <2>2. CASE e \notin named
    <3>1. PICK j \in 1 .. Len(cs) : e \in cs[j].exts
      BY <1>1, <1>5, <1>8, <2>2
    <3>2. e = cs[j].ext /\ e # None
      BY <1>3, <1>5, <3>1 DEF KidFits
    <3>3. Len(children) + j \in 1 .. Len(list)
      BY <1>5
    <3> QED
      BY <1>5, <1>7, <3>2, <3>3
  <2> QED
    BY <2>1, <2>2
<1> QED
  BY <1>7, <1>8 DEF ChildrenInv

FieldsInv == RoutesInv /\ ChildrenInv

LEMMA FieldsStep == FieldsInv /\ F!Next => FieldsInv'
<1> SUFFICES ASSUME FieldsInv, F!Next PROVE FieldsInv'
  OBVIOUS
<1>1. ASSUME NEW v \in Versions, NEW known \in BOOLEAN, NEW ds \in SUBSET Dests,
             NEW p \in Partitions \cup {None}, F!ObserveRoutes(v, known, ds, p)
      PROVE  FieldsInv'
  <2>1. UNCHANGED << children, named >>
    BY <1>1 DEF F!ObserveRoutes
  <2>2. ChildrenInv'
    BY <2>1 DEF FieldsInv, ChildrenInv
  <2>3. RoutesInv'
    BY <1>1, RoutesStep DEF FieldsInv
  <2> QED
    BY <2>2, <2>3 DEF FieldsInv
<1>2. ASSUME NEW cs \in Seq(F!Child), F!ObserveChildren(cs) PROVE FieldsInv'
  <2>1. UNCHANGED << routes, partition, seen >>
    BY <1>2 DEF F!ObserveChildren
  <2>2. RoutesInv'
    BY <2>1 DEF FieldsInv, RoutesInv, F!RoutesOfOneVersion, F!NewestRoutes
  <2>3. ChildrenInv'
    BY <1>2, ChildrenStep DEF FieldsInv
  <2> QED
    BY <2>2, <2>3 DEF FieldsInv
<1>3. \A c, d \in F!Child : << c >> \in Seq(F!Child) /\ << c, d >> \in Seq(F!Child)
  OBVIOUS
<1> QED
  BY <1>1, <1>2, <1>3 DEF F!Next

LEMMA FieldsStay == FieldsInv /\ UNCHANGED fieldsVars => FieldsInv'
BY DEF FieldsInv, RoutesInv, ChildrenInv, F!RoutesOfOneVersion, F!NewestRoutes, fieldsVars

LEMMA FieldsGoal == FieldsInv => F!RoutesOfOneVersion /\ F!NewestRoutes /\ F!ChildrenApart
<1> SUFFICES ASSUME FieldsInv PROVE F!RoutesOfOneVersion /\ F!NewestRoutes /\ F!ChildrenApart
  OBVIOUS
<1>1. ASSUME NEW e \in named
      PROVE  F!Cardinality({i \in DOMAIN children : children[i].ext = e}) = 1
  <2> DEFINE S == {i \in DOMAIN children : children[i].ext = e}
  <2>0. e # None
    BY DEF FieldsInv, ChildrenInv
  <2>1. PICK i \in DOMAIN children : children[i].ext = e
    BY DEF FieldsInv, ChildrenInv, Listed
  <2>2. S = {i}
    BY <2>0, <2>1 DEF FieldsInv, ChildrenInv, ListFits, EntriesApart
  <2>3. F!Cardinality(S) = Cardinality(S)
    BY DEF F!Cardinality, Cardinality
  <2> QED
    BY <2>2, <2>3, FS_Singleton
<1>2. F!ChildrenApart
  BY <1>1 DEF F!ChildrenApart, FieldsInv, ChildrenInv, ListFits, EntriesApart
<1> QED
  BY <1>2 DEF FieldsInv, RoutesInv

\* For any width of the sequences, versions and children, in whatever order the observations are
\* merged: the routes are of one version and one partition, of the newest as long as the sequences
\* tell, and no child is lost, listed twice or mixed with another.
THEOREM MergedFieldsAreSound == AllSpec => []FieldsSound
<1>1. AllInit => FieldsInv
  BY RoutesBegin, ChildrenBegin DEF AllInit, FieldsInv
<1>2. FieldsInv /\ [AllNext]_allVars => FieldsInv'
  BY FieldsStep, FieldsStay DEF AllNext, allVars
<1>3. FieldsInv => FieldsSound
  BY FieldsGoal DEF FieldsSound
<1> QED
  BY <1>1, <1>2, <1>3, PTL DEF AllSpec
===============================================================================
