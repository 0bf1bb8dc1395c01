------------------------------ MODULE MergeFields ------------------------------
(***************************************************************************)
(* The field handlers of the merge (merge_policy_relationship.py): what    *)
(* becomes of the route table and of the child table of one device when    *)
(* observations of it, made at different times, by different sources and   *)
(* in different partitions, are merged in the order of their sources.      *)
(*                                                                         *)
(* The routers of a partition number the versions of the routes with a     *)
(* counter that wraps around (8 bits; Width here).                         *)
(***************************************************************************)
EXTENDS Integers, FiniteSets, Sequences

CONSTANTS
    Width,          \* the id sequences are 0 .. Width - 1
    Versions,       \* bound: versions of the routes that are observed
    Dests,          \* destinations of routes
    Partitions,
    Exts, Rlocs,    \* of children
    MaxSteps,       \* bound: observations
    None

\* What the constants satisfy.
FieldsAssumption ==
    /\ Width \in Nat \ {0, 1} /\ Versions \subseteq Nat /\ MaxSteps \in Nat
    /\ None \notin Nat

VARIABLES
    routes,         \* route: its sequence and the routes, each with its origin
    partition,      \* the partition of the device, as merged
    seen,           \* versions merged so far with their sequence
    children,       \* children: in order, each with the addresses merged into it
    told,           \* the children's extended addresses in all observations
    steps

vars == << routes, partition, seen, children, told, steps >>

Init ==
    /\ routes = [seq |-> None, list |-> {}] /\ partition = None /\ seen = {}
    /\ children = << >> /\ told = {} /\ steps = 0

-----------------------------------------------------------------------------
(* Routes                                                                  *)

\* Mutant: sequences do not wrap around.
NewerPlain(a, b) == a > b
\* is_sequence_newer
Newer(a, b) ==
    LET diff == (a + Width - b) % Width IN 0 < diff /\ diff < Width \div 2

\* compare_sequences
Compared(a, b) ==
    CASE a = None /\ b = None -> "unknown"
      [] a = None /\ b # None -> "b_newer"
      [] a # None /\ b = None -> "a_newer"
      [] OTHER -> IF a = b THEN "equal" ELSE IF Newer(a, b) THEN "a_newer"
                  ELSE IF Newer(b, a) THEN "b_newer" ELSE "ambiguous"

Reached(list) == {r.dest : r \in list}

\* merge_route_data; an ambiguous sequence only enriches routes that are there.  Left out: the
\* entries of a table that name another partition than the device's are dropped (eligible).
MergedRoutes(base, new) ==
    CASE Compared(base.seq, new.seq) = "b_newer" -> new
      [] Compared(base.seq, new.seq) \in {"a_newer", "ambiguous"} -> base
      [] OTHER ->
           [base EXCEPT !.list = @ \cup {r \in new.list : r.dest \notin Reached(base.list)}]

\* _merge_route_field
Rejected(p) == p # None /\ partition # None /\ p # partition

\* A device is observed in partition p with the routes of version v to ds;
\* the source need not tell the partition or the sequence.
ObserveRoutes(v, known, ds, p) ==
    /\ steps < MaxSteps
    /\ LET s == IF known THEN v % Width ELSE None
           new == [seq |-> s, list |-> [dest : ds, seq : {s}, part : {p}]]
       IN  /\ routes' = IF Rejected(p) THEN routes ELSE MergedRoutes(routes, new)
           /\ seen' = IF Rejected(p) \/ ~known THEN seen ELSE seen \cup {v}
    /\ partition' = IF partition = None THEN p ELSE partition
    /\ steps' = steps + 1
    /\ UNCHANGED << children, told >>

-----------------------------------------------------------------------------
(* Children                                                                *)

\* a child of a list as an entry; rlocs and exts are those merged into it
Entry(c) == [ext |-> c.ext, rloc |-> c.rloc, rlocs |-> {c.rloc} \ {None},
             exts |-> c.exts]

Fits(e, c) == c.ext = None \/ e.ext = None \/ e.ext = c.ext

\* The entry a child is merged into: that of its address, or the only one with
\* its RLOC16 unless their addresses differ.
Owner(list, c) ==
    LET same == {i \in DOMAIN list : c.ext # None /\ c.ext = list[i].ext}
        near == {i \in DOMAIN list : c.rloc # None /\ c.rloc \in list[i].rlocs}
    IN  IF same # {} THEN same
        ELSE IF Cardinality(near) = 1 THEN {i \in near : Fits(list[i], c)} ELSE {}

Put(list, c) ==
    LET o == Owner(list, c)
    IN  IF o = {} THEN Append(list, Entry(c))
        ELSE [list EXCEPT ![CHOOSE i \in o : TRUE] =
                 [ext |-> IF @.ext = None THEN c.ext ELSE @.ext,
                  rloc |-> IF @.rloc = None THEN c.rloc ELSE @.rloc,
                  rlocs |-> @.rlocs \cup ({c.rloc} \ {None}),
                  exts |-> @.exts \cup c.exts]]

Merged(list) ==
    LET upTo[n \in 0 .. Len(list)] ==
            IF n = 0 THEN << >> ELSE Put(upTo[n - 1], list[n])
    IN  upTo[Len(list)]

\* _merge_relationship_records: all the entries again, then the new ones; of the
\* RLOC16s merged into an entry before only the first is in it.
ObserveChildren(cs) ==
    /\ steps < MaxSteps
    /\ children' = Merged(children \o cs)
    /\ told' = told \cup UNION {cs[i].exts : i \in DOMAIN cs}
    /\ steps' = steps + 1
    /\ UNCHANGED << routes, partition, seen >>

Child == {[ext |-> e, rloc |-> r, exts |-> {e} \ {None}] :
             e \in Exts \cup {None}, r \in Rlocs \cup {None}}

Next ==
    \/ \E v \in Versions, known \in BOOLEAN, ds \in SUBSET Dests, p \in Partitions \cup {None} :
          ObserveRoutes(v, known, ds, p)
    \/ \E c, d \in Child : ObserveChildren(<< c >>) \/ ObserveChildren(<< c, d >>)

Spec == Init /\ [][Next]_vars

-----------------------------------------------------------------------------

\* "No stale route is attributed to a newer sequence", "known conflicting owner/
\* entry partitions are rejected" (doc/merge_thread_device_info.md): the routes
\* of a device were observed with its sequence, in its partition.
RoutesOfOneVersion ==
    \A r \in routes.list :
        r.seq = routes.seq /\ r.part \in {None, partition}

\* In whichever order the observations are merged: when the versions lie within
\* half the range of the sequence, the routes are those of the newest.
NewestRoutes ==
    (seen # {} /\ \A v, w \in seen : v - w < Width \div 2) =>
        \E v \in seen : (\A w \in seen : w <= v) /\ routes.seq = v % Width

\* No child is lost, listed twice or mixed with another, however its RLOC16 was
\* shared: every extended address that was observed is that of one entry.
ChildrenApart ==
    /\ \A e \in told : Cardinality({i \in DOMAIN children : children[i].ext = e}) = 1
    /\ \A i \in DOMAIN children : children[i].exts = {children[i].ext} \ {None}
=============================================================================
