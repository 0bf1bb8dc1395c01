----------------------------- MODULE Connectivity -----------------------------
(***************************************************************************)
(* Undirected graphs: what it means that nodes are connected, that an edge *)
(* is a bridge and that a node is an articulation point.  An edge is a set *)
(* of two nodes.                                                           *)
(***************************************************************************)
EXTENDS Naturals, FiniteSets

\* What can be reached from a node (_components of td_health_graph.py).
Reachable(nodes, edges, v) ==
    LET within[n \in 0 .. Cardinality(nodes)] ==
            IF n = 0 THEN {v}
            ELSE LET inner == within[n - 1]
                 IN  inner \cup {y \in nodes : \E x \in inner : {x, y} \in edges}
    IN  within[Cardinality(nodes)]

Components(nodes, edges) == {Reachable(nodes, edges, v) : v \in nodes}

\* the edges among nodes without v
Without(edges, v) == {e \in edges : v \notin e}

IsBridge(nodes, edges, e) ==
    /\ e \in edges
    /\ Cardinality(Components(nodes, edges \ {e})) > Cardinality(Components(nodes, edges))

IsArticulation(nodes, edges, v) ==
    Cardinality(Components(nodes \ {v}, Without(edges, v)))
        > Cardinality(Components(nodes, edges))
===============================================================================
