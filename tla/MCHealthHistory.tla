---------------------------- MODULE MCHealthHistory ---------------------------
(***************************************************************************)
(* Five parts of the health history that share no state: the comparisons,  *)
(* the absences, the roster facts, the mesh graph and the verdict on a     *)
(* network. Which one a behavior is about is chosen at its start.          *)
(***************************************************************************)
EXTENDS Naturals, FiniteSets, Sequences, TLC

CONSTANTS
    None, Required, MaxTime, MaxCollections, MaxRows, MaxReadings, MaxIngests, MaxUnusual,
    NumObservations, Subjects, ComparedFiles, ReadAt, InFiles, Whole, Complete, MaxGap, Intervals,
    ComparedRetained, MaxComparisons, MaxRecords, Limit, MaxVersion, MaxAssessments,
    RosterDevices, AbsentPercent,
    NumDevices, NumFiles, Aliases, Label, Rank, Expiry, Window, Static, Labels, Offered,
    FactsRetained, FactsTime,
    Nodes, Relationships,
    Routers, Children, Border, Links, Profiles, Values, Usual, Rosters, Histories, OfflinePercent,
    Few

VARIABLES
    part,
    ingested, purged, stored, comparisons, bodies, pairs, version, revision, clock, cursor,
    finished,
    now, times, rows, since,
    time, policy, ingests, seen, whole, facts, last, conflicts, expected,
    links, discovery, low, parents, counter, stack, bridges, articulations,
    obs, inputs, assessment

\* HealthComparisons: four observations of one link, kept by two files; the third does not
\* show it, and the last is told twice by one file only.
MCReadAt == << << 1, 1 >>, << 1, 2 >>, << 2, 3 >>, << 3, 3 >> >>
MCInFiles == << [a |-> {1}], [a |-> {2}], [a |-> {}], [a |-> {1}] >>
MCWhole == << {1, 2}, {1, 2}, {2}, {1} >>

\* RosterFacts: an RLOC16 that two sources dispute and two devices share, and a label.
Reading(d, f, s, v) == [device |-> d, field |-> f, file |-> s, value |-> v]
MCOffered ==
    { Reading(1, "rloc", 1, "v"), Reading(1, "rloc", 2, "w"), Reading(2, "rloc", 1, "v"),
      Reading(1, "label", 2, "L") }
MCRank == [f \in {"rloc", "label"} |-> << 2, 1 >>]
MCExpiry == [rloc |-> 2, label |-> 1]
MCStatic == << None, "L" >>

\* MeshGraph: every graph of five devices.
MCNodes == 1 .. 5
MCRelationships == {l \in MCNodes \X MCNodes : l[1] < l[2]}

\* NetworkVerdict: a triangle of routers and a child that two of them may hear.
MCRouters == {"r", "s", "t"}
MCChildren == {"c"}
MCLinks == { << "r", "s" >>, << "s", "t" >>, << "t", "r" >>, << "r", "c" >>, << "s", "c" >> }
Everybody == MCRouters \cup MCChildren
AllPillars ==
    [p \in {"availability", "connectivity", "delivery", "resilience", "externalRouting"} |->
        "sufficient"]
MCProfiles ==
    [whole |-> [coverage |-> AllPillars, topology |-> TRUE, border |-> TRUE],
     topology |-> [coverage |-> [AllPillars EXCEPT !["externalRouting"] = "limited"],
                   topology |-> TRUE, border |-> TRUE],
     matter |-> [coverage |-> [p \in DOMAIN AllPillars |->
                                  IF p = "externalRouting" THEN "missing" ELSE "limited"],
                 topology |-> FALSE, border |-> FALSE]]
Qualities(rs, st, tr, rc, sc) ==
    << "r", "s" >> :> rs @@ << "s", "t" >> :> st @@ << "t", "r" >> :> tr
      @@ << "r", "c" >> :> rc @@ << "s", "c" >> :> sc
Ratios(c) == [d \in Everybody |-> IF d = "c" THEN c ELSE "low"]
MCUsual ==
    [seen |-> Everybody, failed |-> {}, complete |-> TRUE,
     quality |-> Qualities("lq3", "lq3", "lq3", "lq3", "none"), ratios |-> Ratios("low"),
     partition |-> "one", omr |-> [state |-> "available", carried |-> {"r"}],
     profile |-> "whole"]
MCValues ==
    [seen |-> {Everybody, {"r", "s", "c"}, {"c"}, {}}, failed |-> {{}, {"c"}, {"r"}},
     complete |-> BOOLEAN,
     quality |-> {Qualities(a, b, c, d, e) :
                     a \in {"none", "lq3", "weak", "critical"}, b \in {"none", "lq3"},
                     c \in {"none", "lq3"}, d \in {"none", "lq3", "critical"},
                     e \in {"none", "lq3", "critical"}},
     ratios |-> {Ratios("low"), [d \in Everybody |-> "none"], Ratios("critical")},
     partition |-> {"one", "dominated", "split", "conflicting", "unavailable"},
     omr |-> {[state |-> "available", carried |-> {"r"}], [state |-> "available", carried |-> {}],
              [state |-> "unavailable", carried |-> {}],
              [state |-> "not-applicable", carried |-> {}]},
     profile |-> {"whole", "topology", "matter"}]
MCRosters ==
    {[state |-> s, expected |-> {}] : s \in {"available", "unavailable"}} \cup
    {[state |-> "available", expected |-> e] : e \in {{"t", "c"}, Everybody}}
NeverAbsent == [d \in Everybody |-> 0]
MCHistories ==
    {[state |-> "available", absences |-> [NeverAbsent EXCEPT !["t"] = n], positive |-> {}] :
        n \in {0, 1}}
      \cup {[state |-> "unavailable", absences |-> NeverAbsent, positive |-> {}]}

C == INSTANCE HealthComparisons
       WITH Files <- ComparedFiles, MaxRetained <- ComparedRetained, assessments <- stored,
            MaxClock <- MaxAssessments
A == INSTANCE HealthAbsences
       WITH Devices <- RosterDevices, Percent <- AbsentPercent, roster <- since
F == INSTANCE RosterFacts
       WITH MaxRetained <- FactsRetained, MaxClock <- FactsTime, clock <- time, samples <- facts
G == INSTANCE MeshGraph WITH index <- counter
V == INSTANCE NetworkVerdict WITH Percent <- OfflinePercent

comparisonsVars == <<ingested, purged, stored, comparisons, bodies, pairs, version, revision,
                     clock, cursor, finished>>
absencesVars == <<now, times, rows, since>>
factsVars == <<time, policy, ingests, seen, whole, facts, last, conflicts, expected>>
graphVars == <<links, discovery, low, parents, counter, stack, bridges, articulations>>
verdictVars == <<obs, inputs, assessment>>
vars == <<part, comparisonsVars, absencesVars, factsVars, graphVars, verdictVars>>

ASSUME HealthHistoryAssumptions ==
    /\ C!ComparisonsAssumption
    /\ A!AbsencesAssumption
    /\ F!RosterFactsAssumption
    /\ G!MeshGraphAssumption
    /\ V!NetworkVerdictAssumption

\* The parts that a behavior is not about stay in one initial state.
Init ==
    /\ part \in {"comparisons", "absences", "facts", "graph", "verdict"}
    /\ part = "graph" \/ links = {}
    /\ part = "verdict" \/ (obs = Usual)
    /\ C!Init /\ A!Init /\ F!Init /\ G!Init /\ V!Init

Next ==
    /\ part' = part
    /\ \/ /\ part = "comparisons" /\ C!Next
          /\ UNCHANGED <<absencesVars, factsVars, graphVars, verdictVars>>
       \/ /\ part = "absences" /\ A!Next
          /\ UNCHANGED <<comparisonsVars, factsVars, graphVars, verdictVars>>
       \/ /\ part = "facts" /\ F!Next
          /\ UNCHANGED <<comparisonsVars, absencesVars, graphVars, verdictVars>>
       \/ /\ part = "graph" /\ G!Next
          /\ UNCHANGED <<comparisonsVars, absencesVars, factsVars, verdictVars>>
       \/ /\ part = "verdict" /\ V!Next
          /\ UNCHANGED <<comparisonsVars, absencesVars, factsVars, graphVars>>

Spec == Init /\ [][Next]_vars

-------------------------------------------------------------------------------
\* HealthAbsences: nobody is Offline who was not absent.
OfflineIsAbsence == part = "absences" => A!OfflineIsAbsence

\* HealthComparisons: what is prepared and what is stored is what the samples say now, the
\* pages of a preparation leave nothing out, and a removal has a witness.
PreparedIsCurrent ==
    part = "comparisons" => /\ C!PreparedIsCurrent /\ C!StoredIsDerived
                            /\ C!PreparedWhenDone /\ C!RemovalsAreWitnessed

\* RosterFacts: what is last known is undisputed, the collisions that are shown are real,
\* and devices of one name are told apart.
FactsSound ==
    part = "facts" => F!TypeOK /\ F!LastKnownUndisputed /\ F!CollisionsAreReal /\ F!NamesApart

\* RosterFacts: collisions are marked at once, and what is known does not go back.
FactsAdvance == F!CollisionsAreMarked /\ F!KnownNeverGoesBack

\* MeshGraph: exactly the bridges and articulation points are found.
PathsFound == part = "graph" => G!TypeOK /\ G!PathsFound

\* NetworkVerdict: a verdict does not depend on how it was reached, has grounds, and no gap
\* in the evidence is overlooked.
VerdictSound ==
    part = "verdict" => /\ V!TypeOK /\ V!ReassessmentIsEvaluation
                        /\ V!PoorHasGrounds /\ V!GapsCap
===============================================================================
