----------------------------- MODULE NetworkVerdict -----------------------------
(***************************************************************************)
(* What an assessment says of a network (td_health_evaluator.py): from the *)
(* sampled observation and the inputs of the roster and the history, the   *)
(* findings of the rules, the state of the coverage pillars and the        *)
(* aggregate status.  A roster change reassesses the observation: the      *)
(* rules of the roster are evaluated anew, the other findings are those of *)
(* the assessment before.                                                  *)
(***************************************************************************)
EXTENDS Connectivity, Integers

CONSTANTS
    Routers, Children,
    Border,             \* the devices that are Border Routers
    Links,              \* relationships: <<reporter, peer>>, of a parent its child
    Profiles,           \* by name: coverage by pillar, topology, border (authorities)
    Values, Usual,      \* of each feature of an observation: its values, the usual one
    MaxUnusual,         \* bound: features of an observation that are not as usual
    Rosters,            \* the inputs of a roster: [state, expected]
    Histories,          \* the inputs of absence history: [state, absences, positive]
    Required,           \* offlineConsecutiveCompleteObservations
    Percent,            \* offlinePoorDeviceRatioThreshold
    Few,                \* unstableAtOrBelow, for Routers and for Border Routers
    None

Devices == Routers \cup Children

\* seen: the devices, the ends of every reported relationship among them; failed: those
\* detached, disabled or orphaned; quality: "none" where no relationship was reported, else
\* "lq3", "weak" or "critical" (a delivery rate over the critical threshold); ratios: MAC
\* ratios by device, "none", "low" or "critical"; partition: what the membership evidence
\* says; omr: the input domains of the OMR prefix and of the device addresses, with the
\* Border Routers that have an address in it.
Observations ==
    {o \in [seen : Values.seen, failed : Values.failed, complete : Values.complete,
            quality : Values.quality, ratios : Values.ratios,
            partition : Values.partition, omr : Values.omr, profile : Values.profile] :
        /\ Cardinality({k \in DOMAIN Usual : o[k] # Usual[k]}) <= MaxUnusual
        /\ \A l \in Links : o.quality[l] # "none" => {l[1], l[2]} \subseteq o.seen}

\* What the constants satisfy.
NetworkVerdictAssumption ==
    /\ Routers \cap Children = {} /\ Border \subseteq Routers /\ IsFiniteSet(Devices)
    /\ Links \subseteq Devices \X Devices
    /\ \A l \in Links : {l[1], l[2]} \cap Routers # {}
    /\ \A r \in Rosters : r.expected \subseteq Devices
    /\ Values.partition \subseteq {"one", "dominated", "split", "conflicting", "unavailable",
                                  "not-applicable"}
    /\ Required \in Nat /\ Percent \in 0 .. 100 /\ Few \in Nat

VARIABLES
    obs,            \* the observation
    inputs,         \* the roster and history inputs of the latest assessment, or None
    assessment      \* [findings, pillars, status], or None

vars == << obs, inputs, assessment >>

-----------------------------------------------------------------------------
(* The rules.  A finding is [rule, about, status].                         *)

Finding(rule, about, status) == [rule |-> rule, about |-> about, status |-> status]
One(condition, finding) == IF condition THEN {finding} ELSE {}

Coverage(o) == Profiles[o.profile].coverage
\* _profile_supports_rule, by the pillar that the rule requires
Supports(o, pillar) == Coverage(o)[pillar] # "missing"

\* Mutant: the device of an Offline finding decides about the network.
MaterialDevice(rule) ==
    rule \notin {"device.observed", "device.missing",
                 "device.diagnostic-timeout", "relationship.bidirectional-lq3",
                 "observation.evaluation-context-unavailable"}
\* the materiality in the rule catalog: the findings that the network's status follows
Material(rule) ==
    rule \in {"network.border-router-redundancy", "network.router-redundancy",
              "network.external-routing", "network.current-path-redundancy",
              "network.offline-impact", "network.partition-distribution",
              "device.attachment-failure", "relationship.directional-quality"}

Expected(in) == IF in.roster.state = "available" THEN in.roster.expected ELSE {}
Failed(o) == o.failed \cap o.seen

Missing(o, in) == Expected(in) \ o.seen
Offline(o, in) ==
    {d \in Missing(o, in) :
        /\ o.complete /\ in.history.state = "available"
        /\ d \notin in.history.positive
        /\ in.history.absences[d] + 1 >= Required}
TooManyOffline(o, in) ==
    100 * Cardinality(Offline(o, in)) > Percent * Cardinality(Expected(in))

\* _evaluate_availability, without and with the findings about observed devices
RosterFindings(o, in) ==
    {Finding("device.offline", d, "poor") : d \in Offline(o, in)}
      \cup {Finding("device.missing", d, "unknown") : d \in Missing(o, in) \ Offline(o, in)}
      \cup One(Offline(o, in) # {} /\ TooManyOffline(o, in),
               Finding("network.offline-impact", "network", "poor"))
ObservedFindings(o) ==
    {Finding("device.observed", d, "strong") : d \in o.seen}
      \cup {Finding("device.attachment-failure", d, "poor") : d \in Failed(o)}

-----------------------------------------------------------------------------
SeenRouters(o) == Routers \cap o.seen
SeenBorder(o) == Border \cap o.seen
Reported(o) == {l \in Links : o.quality[l] # "none"}
RouterLink(l) == {l[1], l[2]} \subseteq Routers
\* router_relationships, as the edges of the graph
Edges(o) == {{l[1], l[2]} : l \in {k \in Reported(o) : {k[1], k[2]} \subseteq SeenRouters(o)}}

Bridges(o) == {e \in Edges(o) : IsBridge(SeenRouters(o), Edges(o), e)}
Articulations(o) == {r \in SeenRouters(o) : IsArticulation(SeenRouters(o), Edges(o), r)}

ByCount(n) == IF n = 0 THEN "unknown" ELSE IF n <= Few THEN "moderate" ELSE "strong"

\* the OMR border routers, when the domains are available to a complete observation
OmrKnown(o) == o.complete /\ Profiles[o.profile].border /\ o.omr.state = "available"
               /\ Supports(o, "externalRouting")

RedundancyFindings(o) ==
    LET routers == Cardinality(SeenRouters(o))
        border == Cardinality(SeenBorder(o))
        paths == IF routers < 2 \/ Edges(o) = {} THEN "unknown"
                 ELSE IF Bridges(o) # {} \/ Articulations(o) # {} THEN "moderate"
                 ELSE "strong"
    IN  One(Coverage(o)["resilience"] = "sufficient",
            Finding("network.router-redundancy", "network", ByCount(routers)))
          \cup One(Profiles[o.profile].border,
                   Finding("network.border-router-redundancy", "network",
                           IF o.complete THEN ByCount(border) ELSE "unknown"))
          \cup One(Profiles[o.profile].topology,
                   Finding("network.current-path-redundancy", "network", paths))

RoutingFindings(o) ==
    One(OmrKnown(o),
        Finding("network.external-routing", "network",
                IF o.omr.carried \cap SeenBorder(o) # {} THEN "strong"
                ELSE IF SeenBorder(o) # {} THEN "moderate" ELSE "unknown"))

-----------------------------------------------------------------------------
\* the child of a parent-child relationship: its first end if the observation has it as child
ChildOf(o, l) == IF l[1] \in Children \cap o.seen THEN l[1] ELSE l[2]

\* a bridge, or the link of a child with one parent
SolePath(o, l) ==
    IF RouterLink(l) THEN {l[1], l[2]} \in Bridges(o)
    ELSE {k \in Reported(o) : ~RouterLink(k) /\ ChildOf(o, k) = ChildOf(o, l)} = {l}

BadLink(o, l) == o.quality[l] \in {"weak", "critical"}

\* _evaluate_relationships
LinkFindings(o) ==
    {Finding("relationship.directional-quality", l,
             IF o.quality[l] = "critical" /\ SolePath(o, l) THEN "poor" ELSE "moderate") :
        l \in {k \in Reported(o) : BadLink(o, k) /\ Supports(o, "delivery")}}
      \cup {Finding("relationship.bidirectional-lq3", l, "strong") :
              l \in {k \in Reported(o) : o.quality[k] = "lq3" /\ Supports(o, "connectivity")}}
      \cup {Finding("device.multiple-reporters-high-error", d, "moderate") :
              d \in {x \in Devices :
                       /\ Supports(o, "delivery")
                       /\ Cardinality({l \in Reported(o) : /\ l[2] = x
                                                            /\ o.quality[l] = "critical"}) > 1}}

\* _evaluate_metrics: the MAC ratios
MetricFindings(o) ==
    {Finding("device.totalMacErrorRatio", d, IF d \in Failed(o) THEN "poor" ELSE "moderate") :
        d \in {x \in o.seen : o.ratios[x] = "critical" /\ Supports(o, "delivery")}}

\* _evaluate_partition_distribution
PartitionFindings(o) ==
    One(Supports(o, "resilience") /\ o.partition # "not-applicable",
        Finding("network.partition-distribution", "network",
                IF ~o.complete \/ o.partition \in {"unavailable", "conflicting"} THEN "unknown"
                ELSE IF o.partition = "one" THEN "strong"
                ELSE IF o.partition = "dominated" THEN "moderate" ELSE "poor"))

\* _evaluate_observation_evidence, without the rules on queued messages and on the ratios of
\* observed link quality, which are moderate at most
EvidenceFindings(o) ==
    RedundancyFindings(o) \cup RoutingFindings(o) \cup MetricFindings(o)
      \cup PartitionFindings(o) \cup LinkFindings(o)

\* the domains that are unavailable to an assessment
Gaps(o, in) ==
    {d \in {"roster", "absenceHistory", "omrPrefix", "partitionMembership"} :
        \/ d = "roster" /\ in.roster.state = "unavailable"
        \/ d = "absenceHistory" /\ in.history.state = "unavailable"
        \/ d = "omrPrefix" /\ o.omr.state = "unavailable"
        \/ d = "partitionMembership" /\ o.partition = "unavailable"}
ContextFindings(o, in) ==
    One(Gaps(o, in) # {},
        Finding("observation.evaluation-context-unavailable", "network", "unknown"))

-----------------------------------------------------------------------------
(* The pillars and the status                                              *)

Pillars == {"availability", "connectivity", "delivery", "resilience", "externalRouting"}

\* _observation_evidence_counts, whether any of a pillar's counts is positive
Evident(o, in, pillar) ==
    CASE pillar = "availability" -> o.seen # {} \/ Expected(in) # {}
      [] pillar = "connectivity" -> Reported(o) # {}
      [] pillar = "delivery" -> \/ \E d \in o.seen : o.ratios[d] # "none"
                                \/ \E l \in Reported(o) : o.quality[l] = "critical"
      [] pillar = "resilience" -> \/ SeenRouters(o) # {}
                                  \/ Profiles[o.profile].topology
                                  \/ Profiles[o.profile].border
      [] pillar = "externalRouting" -> o.omr.state = "available" \/ SeenBorder(o) # {}

\* context_limited_pillars
Limited(o, in, pillar) ==
    \/ pillar = "availability" /\ in.roster.state = "unavailable"
    \/ pillar = "availability" /\ in.history.state = "unavailable"
                               /\ o.complete /\ Missing(o, in) # {}
    \/ /\ pillar = "externalRouting" /\ o.omr.state = "unavailable"
       /\ Profiles[o.profile].border /\ Supports(o, pillar)

PillarState(o, in, pillar) ==
    IF ~Supports(o, pillar) \/ ~Evident(o, in, pillar) THEN "missing"
    ELSE IF \/ Coverage(o)[pillar] = "limited" \/ ~o.complete \/ Limited(o, in, pillar)
         THEN "limited" ELSE "sufficient"

\* _verdict_context_complete
ContextComplete(o, in, findings) ==
    /\ in.roster.state # "unavailable" /\ o.omr.state # "unavailable"
    /\ ~(/\ in.history.state = "unavailable" /\ o.complete
         /\ \E f \in findings : f.rule \in {"device.missing", "device.offline"})

\* aggregate_assessment_state
Verdict(o, in, findings, pillars) ==
    LET material == {f.status : f \in {g \in findings : Material(g.rule)}}
    IN  IF "poor" \in material THEN "poor"
        ELSE IF "moderate" \in material THEN "moderate"
        ELSE IF /\ o.complete /\ o.seen # {}
                /\ \A p \in Pillars : pillars[p] = "sufficient"
                /\ ContextComplete(o, in, findings)
             THEN "strong" ELSE "unknown"

Assessment(o, in, findings) ==
    LET pillars == [p \in Pillars |-> PillarState(o, in, p)]
    IN  [findings |-> findings, pillars |-> pillars,
         status |-> Verdict(o, in, findings, pillars)]

\* evaluate_observation without a retained assessment
Evaluation(o, in) ==
    Assessment(o, in, RosterFindings(o, in) \cup ObservedFindings(o)
                        \cup EvidenceFindings(o) \cup ContextFindings(o, in))

\* ROSTER_REASSESSMENT_RULE_IDS
RosterRules ==
    {"device.missing", "device.offline", "network.offline-impact",
     "observation.evaluation-context-unavailable"}

\* evaluate_observation with the findings of the retained assessment
Reevaluation(o, in, retained) ==
    Assessment(o, in, RosterFindings(o, in)
                        \cup {f \in retained.findings : f.rule \notin RosterRules}
                        \cup ContextFindings(o, in))

-----------------------------------------------------------------------------
Contexts == [roster : Rosters, history : Histories]

Init == obs \in Observations /\ inputs = None /\ assessment = None

\* Processing, or a migration that lost the roster or the history.
Evaluate(in) ==
    /\ assessment = None
    /\ inputs' = in /\ assessment' = Evaluation(obs, in)
    /\ UNCHANGED obs

\* _reassess_network, for a current assessment whose roster was known
Reassess(in) ==
    /\ assessment # None /\ inputs.roster.state = "available"
    /\ in.roster.state = "available"
    /\ inputs' = in /\ assessment' = Reevaluation(obs, in, assessment)
    /\ UNCHANGED obs

Next == \E in \in Contexts : Evaluate(in) \/ Reassess(in)

Spec == Init /\ [][Next]_vars

-----------------------------------------------------------------------------
TypeOK ==
    /\ obs \in Observations /\ inputs \in Contexts \cup {None}
    /\ assessment # None => /\ assessment.status \in {"strong", "moderate", "poor", "unknown"}
                            /\ DOMAIN assessment.pillars = Pillars

\* However often the roster changes, the assessment of an observation is the one that
\* processing it under the present roster and history would make.
\* (_reassess_network passes the previous findings to evaluate_observation.)
ReassessmentIsEvaluation ==
    assessment # None => assessment = Evaluation(obs, inputs)

\* A Poor network has a detached device, more than the allowed part of its expected devices
\* Offline, its partitions apart, or a link that fails and that nothing replaces; one Offline
\* device or one bad link with a way around is not enough.
\* (aggregate_assessment_state over the findings of all rules.)
PoorHasGrounds ==
    assessment # None /\ assessment.status = "poor" =>
        \/ obs.failed \cap obs.seen # {}
        \/ /\ obs.complete /\ obs.partition = "split"
        \/ 100 * Cardinality(Expected(inputs) \ obs.seen)
             > Percent * Cardinality(Expected(inputs))
        \/ \E l \in Links :
              /\ obs.quality[l] = "critical"
              /\ LET around == {{k[1], k[2]} : k \in {j \in Links : obs.quality[j] # "none"}}
                                 \ {{l[1], l[2]}}
                     nodes == IF RouterLink(l) THEN SeenRouters(obs) ELSE Devices
                     within == {e \in around : e \subseteq nodes}
                 IN  l[2] \notin Reachable(nodes, within, l[1])

\* A gap in the roster, in the history of a device that is missing, or in the OMR evidence of
\* a profile that judges it leaves its pillar at limited, and no gap of these leaves the
\* network Strong.  An incomplete observation has no sufficient pillar.
GapsCap ==
    assessment # None =>
        /\ \A p \in Pillars :
              assessment.pillars[p] = "sufficient" => obs.complete
        /\ inputs.roster.state = "unavailable" =>
              /\ assessment.pillars["availability"] # "sufficient"
              /\ assessment.status # "strong"
        /\ obs.omr.state = "unavailable" =>
              /\ assessment.status # "strong"
              /\ Profiles[obs.profile].border =>
                    assessment.pillars["externalRouting"] # "sufficient"

\* "Every assessment also records observedPillars, which applies the same states to evidence
\* actually present in that observation" (doc/thread_network_health.md): Router, Border Router
\* and path evidence takes a Router.
SufficientHasEvidence ==
    assessment # None /\ assessment.pillars["resilience"] = "sufficient" =>
        SeenRouters(obs) # {}
===============================================================================
