---------------------------- MODULE MatterSnapshot ----------------------------
(***************************************************************************)
(* fetch_node_snapshot (src/src/ha_matter_ws_client.py): one               *)
(* start_listening request, whose answer is a list of nodes, and the       *)
(* events that follow or overtake it, applied over that list until the     *)
(* server has been quiet for the settle timeout.                           *)
(***************************************************************************)
EXTENDS Naturals, Sequences

CONSTANTS Nodes, Attributes,
          MaxChanges   \* bound: changes on the server, and frames it sends for them

\* What the constants satisfy.
SnapshotAssumption == MaxChanges \in Nat

\* A node and its attributes; 0 stands for an attribute that is not there.
Values   == [Attributes -> 0..MaxChanges]
Gone     == [there |-> FALSE, attributes |-> [a \in Attributes |-> 0]]
Worlds   == [Nodes -> {Gone} \cup [there : {TRUE}, attributes : Values]]
Listing  == "listing"
Events   == {"node_added", "node_updated", "attribute_updated", "node_removed"}

VARIABLES
    world,     \* the server's nodes
    changes,   \* how often they changed
    stage,     \* of the command: "asked", "subscribed", "listening", "done", "failed"
    wire,      \* frames under way, each with the world it was sent in
    listed,    \* the answer to start_listening
    events,    \* client.events
    asOf,      \* history: the world when the last frame received was sent
    nodes      \* NodeSnapshot.nodes

vars == <<world, changes, stage, wire, listed, events, asOf, nodes>>

Init ==
    /\ world \in [Nodes -> {Gone, [there |-> TRUE, attributes |-> [a \in Attributes |-> 1]]}]
    /\ changes = 1 /\ stage = "asked" /\ wire = <<>> /\ events = <<>>
    /\ listed = world /\ asOf = world /\ nodes = [n \in Nodes |-> Gone]

-------------------------------------------------------------------------------
(* The server: events are sent from the moment it subscribed the client.   *)

Send(kind, n, update) ==
    wire' = IF stage = "asked" THEN wire
            ELSE Append(wire, [kind |-> kind, node |-> n, update |-> update, sent |-> world'])

ChangeTo(n, node) ==
    /\ changes < MaxChanges /\ changes' = changes + 1
    /\ stage \in {"asked", "subscribed", "listening"}
    /\ world' = [world EXCEPT ![n] = node]
    /\ UNCHANGED <<stage, listed, events, asOf, nodes>>

Add(n) ==
    LET node == [there |-> TRUE, attributes |-> [a \in Attributes |-> changes + 1]] IN
    /\ ~world[n].there
    /\ ChangeTo(n, node) /\ Send("node_added", n, node.attributes)

Remove(n) ==
    /\ world[n].there
    /\ ChangeTo(n, Gone) /\ Send("node_removed", n, Gone.attributes)

SetAttribute(n, a) ==
    LET node == [world[n] EXCEPT !.attributes[a] = changes + 1] IN
    /\ world[n].there
    /\ ChangeTo(n, node)
    /\ \/ Send("node_updated", n, node.attributes)
       \/ Send("attribute_updated", n, [Gone.attributes EXCEPT ![a] = changes + 1])

DropAttribute(n, a) ==
    LET node == [world[n] EXCEPT !.attributes[a] = 0] IN
    /\ world[n].there /\ world[n].attributes[a] # 0
    /\ ChangeTo(n, node) /\ Send("node_updated", n, node.attributes)

Subscribe ==
    /\ stage = "asked" /\ stage' = "subscribed"
    /\ UNCHANGED <<world, changes, wire, listed, events, asOf, nodes>>

Answer ==
    /\ stage = "subscribed" /\ stage' = "listening"
    /\ wire' = Append(wire, [kind |-> Listing, sent |-> world])
    /\ UNCHANGED <<world, changes, listed, events, asOf, nodes>>

-------------------------------------------------------------------------------
(* The client.                                                             *)

Receive ==
    /\ stage \in {"subscribed", "listening"} /\ wire # <<>>
    /\ LET f == Head(wire) IN
       /\ wire' = Tail(wire) /\ asOf' = f.sent
       /\ IF f.kind = Listing THEN listed' = f.sent /\ UNCHANGED events
          ELSE events' = Append(events, f) /\ UNCHANGED listed
    /\ UNCHANGED <<world, changes, stage, nodes>>

\* Mutant: an event replaces what is known of its node.
MergeNodeReplacing(current, update) == [there |-> TRUE, attributes |-> update]

\* _merge_node: attributes an update leaves out stay.
MergeNode(current, update) ==
    [there |-> TRUE,
     attributes |-> [a \in Attributes |->
        IF update[a] # 0 THEN update[a] ELSE current.attributes[a]]]

Applied(known, e) ==
    [known EXCEPT ![e.node] = IF e.kind = "node_removed" THEN Gone
                              ELSE MergeNode(@, e.update)]

\* reconcile_nodes: every event of the session, also those before the answer.
Reconcile ==
    LET known[i \in 0..Len(events)] ==
            IF i = 0 THEN listed ELSE Applied(known[i - 1], events[i])
    IN  known[Len(events)]

\* wait_for_event_settle: quiet for long enough, whatever is under way.
Settle ==
    /\ stage = "listening" /\ \A i \in DOMAIN wire : wire[i].kind # Listing
    /\ stage' = "done" /\ nodes' = Reconcile
    /\ UNCHANGED <<world, changes, wire, listed, events, asOf>>

\* A timeout, a lost connection or too many frames: there is no snapshot.
Fail ==
    /\ stage \in {"asked", "subscribed", "listening"} /\ stage' = "failed"
    /\ UNCHANGED <<world, changes, wire, listed, events, asOf, nodes>>

Next ==
    \/ \E n \in Nodes :
         Add(n) \/ Remove(n) \/ \E a \in Attributes : SetAttribute(n, a) \/ DropAttribute(n, a)
    \/ Subscribe \/ Answer \/ Receive \/ Settle \/ Fail

Spec == Init /\ [][Next]_vars

-------------------------------------------------------------------------------
(* Properties.                                                             *)

TypeOK ==
    /\ {world, listed, asOf, nodes} \subseteq Worlds
    /\ changes \in 1..MaxChanges
    /\ stage \in {"asked", "subscribed", "listening", "done", "failed"}
    /\ \A i \in DOMAIN events : events[i].kind \in Events

\* What fetch_node_snapshot returns is what the server had when it sent the last frame
\* that was received: the same nodes, each with the value of every attribute it then
\* had, although events from before the answer are applied over it once more
\* (reconcile_nodes).  An attribute the node had lost may still be there.
SnapshotIsServerState ==
    stage = "done" =>
        \A n \in Nodes :
            /\ nodes[n].there = asOf[n].there
            /\ \A a \in Attributes : asOf[n].attributes[a] # 0 =>
                  nodes[n].attributes[a] = asOf[n].attributes[a]
===============================================================================
