------------------------------- MODULE MeshGraph -------------------------------
(***************************************************************************)
(* analyze_undirected_graph (td_health_graph.py): the depth-first search   *)
(* that finds the bridges and the articulation points of the router mesh,  *)
(* a step for every neighbour that it looks at.  Devices are numbers, in   *)
(* the order of their ids; a relationship is a pair of devices.            *)
(***************************************************************************)
EXTENDS Connectivity, Integers, Sequences

CONSTANTS
    Nodes,          \* a set of numbers
    Relationships,  \* pairs that may be reported, some with one end or foreign ends
    None

\* What the constants satisfy.
MeshGraphAssumption ==
    Nodes \subseteq Nat /\ IsFiniteSet(Nodes) /\ None \notin Nodes

VARIABLES
    links,          \* the relationships reported
    discovery, low, \* by node, -1 before it is visited
    parents,        \* None for a root
    index,          \* next_index
    stack,          \* the calls of visit: [node, left, children]
    bridges,        \* bridge_pairs
    articulations   \* articulation_ids

vars == << links, discovery, low, parents, index, stack, bridges, articulations >>

\* one edge for all relationships of a pair; self links and unknown ends are dropped
Edges == {{l[1], l[2]} : l \in {k \in links : /\ k[1] # k[2]
                                               /\ {k[1], k[2]} \subseteq Nodes}}
Adjacent(v) == {w \in Nodes : {v, w} \in Edges}

Init ==
    /\ links \in SUBSET Relationships
    /\ discovery = [v \in Nodes |-> -1] /\ low = discovery
    /\ parents = [v \in Nodes |-> None]
    /\ index = 0 /\ stack = << >>
    /\ bridges = {} /\ articulations = {}

Least(S) == CHOOSE x \in S : \A y \in S : x <= y
Smaller(x, y) == IF x < y THEN x ELSE y

Undiscovered == {v \in Nodes : discovery[v] = -1}
Call(v) == [node |-> v, left |-> Adjacent(v), children |-> 0]
Discover(v) ==
    /\ discovery' = [discovery EXCEPT ![v] = index]
    /\ index' = index + 1

\* the loop over ordered_nodes: visit a node that is not discovered
Start ==
    /\ stack = << >> /\ Undiscovered # {}
    /\ LET v == Least(Undiscovered)
       IN  /\ Discover(v)
           /\ low' = [low EXCEPT ![v] = index]
           /\ stack' = << Call(v) >>
    /\ UNCHANGED << links, parents, bridges, articulations >>

Top == stack[Len(stack)]
Rest == SubSeq(stack, 1, Len(stack) - 1)
Looked(call, w) == [call EXCEPT !.left = @ \ {w}]

\* visit(neighbor)
Descend ==
    /\ stack # << >> /\ Top.left # {}
    /\ LET w == Least(Top.left)
       IN  /\ discovery[w] = -1
           /\ Discover(w)
           /\ low' = [low EXCEPT ![w] = index]
           /\ parents' = [parents EXCEPT ![w] = Top.node]
           /\ stack' = Append(Append(Rest, [Looked(Top, w) EXCEPT !.children = @ + 1]),
                              Call(w))
    /\ UNCHANGED << links, bridges, articulations >>

\* a neighbour that was discovered before: a way back, unless it is the parent
LookBack ==
    /\ stack # << >> /\ Top.left # {}
    /\ LET w == Least(Top.left)
       IN  /\ discovery[w] # -1
           /\ low' = IF w = parents[Top.node] THEN low
                     ELSE [low EXCEPT ![Top.node] = Smaller(@, discovery[w])]
           /\ stack' = Append(Rest, Looked(Top, w))
    /\ UNCHANGED << links, discovery, parents, index, bridges, articulations >>

\* Mutant: a root is treated as any other node.
CutsRoot(v, w, children) == low[w] >= discovery[v]
\* Is v an articulation point, now that its child w returned?
Cuts(v, w, children) ==
    IF parents[v] = None THEN children > 1 ELSE low[w] >= discovery[v]

\* the rest of the loop's body in the caller, after visit(neighbor)
Return ==
    /\ stack # << >> /\ Top.left = {}
    /\ IF Len(stack) = 1
       THEN UNCHANGED << low, bridges, articulations >>
       ELSE LET v == Rest[Len(Rest)].node
                w == Top.node
            IN  /\ low' = [low EXCEPT ![v] = Smaller(@, low[w])]
                /\ bridges' = bridges \cup (IF low[w] > discovery[v] THEN {{v, w}} ELSE {})
                /\ articulations' = articulations \cup
                       (IF Cuts(v, w, Rest[Len(Rest)].children) THEN {v} ELSE {})
    /\ stack' = Rest
    /\ UNCHANGED << links, discovery, parents, index >>

Next == Start \/ Descend \/ LookBack \/ Return

Spec == Init /\ [][Next]_vars

-----------------------------------------------------------------------------
TypeOK ==
    /\ \A v \in Nodes : low[v] <= discovery[v] /\ discovery[v] < index
    /\ index = Cardinality(Nodes \ Undiscovered)
    /\ \A k \in 1 .. Len(stack) : stack[k].left \subseteq Adjacent(stack[k].node)

\* Whatever the search has found is one, at every moment: no bridge or articulation point is
\* reported that removing would not tear the mesh apart.  At its end it has found all of
\* them.
PathsFound ==
    /\ \A e \in bridges : IsBridge(Nodes, Edges, e)
    /\ \A v \in articulations : IsArticulation(Nodes, Edges, v)
    /\ stack = << >> /\ Undiscovered = {} =>
          /\ \A e \in Edges : IsBridge(Nodes, Edges, e) => e \in bridges
          /\ \A v \in Nodes : IsArticulation(Nodes, Edges, v) => v \in articulations
===============================================================================
