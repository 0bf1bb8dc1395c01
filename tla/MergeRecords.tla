----------------------------- MODULE MergeRecords -----------------------------
(***************************************************************************)
(* The merge of collected records into devices (merge_dataset.py and its   *)
(* policies): the source files in the order of their precedence, the rows  *)
(* of a file one after the other.  A row is correlated with the devices    *)
(* found so far by extended address, OMR address and Matter fabric and     *)
(* node, and only when none of these matches by RLOC16; the devices it     *)
(* matches become one, unless they contradict each other.                  *)
(*                                                                         *)
(* Of the merged values a device keeps where two of them come from: a      *)
(* generic scalar, and the TLV summary, which is replaced as a whole.      *)
(***************************************************************************)
EXTENDS Integers, FiniteSets

CONSTANTS
    Rows,           \* what a row may hold
    Files,          \* bound: the source files are 1 .. Files
    Diagnostics,    \* the REST diagnostic files, whose rows are observations
    MaxRows,        \* bound: rows in all files together
    None

\* What the constants satisfy.
RecordsAssumption ==
    /\ Files \in Nat \ {0} /\ MaxRows \in Nat /\ Diagnostics \subseteq 1 .. Files
    /\ None \notin Nat
    /\ \A row \in Rows : /\ row.says \in BOOLEAN
                         /\ \A x, y \in row.ext : x = y
                         /\ \A x, y \in row.mat : x = y

VARIABLES
    mode,           \* "strict" and "guard" are merge-dataset's, "cached" the builder's
    file,           \* the file being read
    count,          \* rows merged
    nodes           \* the devices, each by the number of the row that created it

vars == << mode, file, count, nodes >>

\* Earlier files have the higher precedence.
Rank(f) == Files - f

\* A row as a device of its own.
Single(row, f, i) ==
    [ext |-> row.ext, omr |-> row.omr, mat |-> row.mat, rloc |-> row.rloc,
     first |-> f, files |-> {f}, rows |-> {[id |-> i, file |-> f, says |-> row.says]},
     value |-> IF row.says THEN f ELSE None,
     summary |-> IF row.says THEN f ELSE None, rank |-> None]

Init ==
    /\ mode \in {"strict", "guard", "cached"}
    /\ file = 1 /\ count = 0 /\ nodes = [n \in {} |-> None]

-----------------------------------------------------------------------------
(* Correlation                                                             *)

Disjoint(s, t) == s # {} /\ t # {} /\ s \cap t = {}

\* identities_compatible; a device has the keys of all its rows.
Compatible(a, b) ==
    /\ a.ext # {} /\ b.ext # {} => a.ext = b.ext
    /\ mode = "guard" /\ a.ext \cap b.ext = {} => ~Disjoint(a.mat, b.mat)

Strong(r) ==
    {n \in DOMAIN nodes : /\ Compatible(nodes[n], r)
                          /\ (nodes[n].ext \cap r.ext) \cup (nodes[n].omr \cap r.omr)
                               \cup (nodes[n].mat \cap r.mat) # {}}
Weak(r) == {n \in DOMAIN nodes : Compatible(nodes[n], r) /\ nodes[n].rloc \cap r.rloc # {}}
Matched(r) == IF Strong(r) # {} THEN Strong(r) ELSE Weak(r)

Observation(r) == file \in Diagnostics /\ r.ext # {}
\* preserve_matter_fabrics and preserve_same_file_duplicates
Preserved(r) ==
    {n \in Matched(r) :
        /\ ~Disjoint(r.mat, nodes[n].mat)
        /\ \/ file \notin nodes[n].files
           \/ Observation(r) /\ nodes[n].ext = r.ext}
Candidates(r) == IF mode = "cached" THEN Preserved(r) ELSE Matched(r)

\* the source files of the candidates but, for an observation, its own
SourcesOf(r, n) ==
    {f \in nodes[n].files : ~(Observation(r) /\ f = file)}
\* Mutant: the candidates are compared with the row only.
AmbiguousRow(r, C) == FALSE
Ambiguous(r, C) ==
    \E m, n \in C : m # n /\
        \/ ~Compatible(nodes[m], nodes[n])
        \/ /\ mode = "cached"
           /\ \/ Disjoint(nodes[m].mat, nodes[n].mat)
              \/ SourcesOf(r, m) \cap SourcesOf(r, n) # {}

-----------------------------------------------------------------------------
(* deep_merge                                                              *)

\* the priority a TLV summary has been given, or that of the first source
SummaryRank(a) == IF a.rank # None THEN a.rank ELSE Rank(a.first)

Takes(a, b) == b.summary # None /\ (a.summary = None \/ SummaryRank(b) > SummaryRank(a))

\* Device a after the values, keys and sources of b were merged into it.
Absorb(a, b) ==
    [ext |-> a.ext \cup b.ext, omr |-> a.omr \cup b.omr,
     mat |-> a.mat \cup b.mat, rloc |-> a.rloc \cup b.rloc,
     first |-> a.first, files |-> a.files \cup b.files, rows |-> a.rows \cup b.rows,
     value |-> IF a.value = None THEN b.value ELSE a.value,
     summary |-> IF Takes(a, b) THEN b.summary ELSE a.summary,
     rank |-> IF b.summary = None THEN a.rank
              ELSE IF Takes(a, b) THEN SummaryRank(b) ELSE SummaryRank(a)]

\* merge_nodes for all candidates, oldest first, then the row
Oldest(C) == CHOOSE n \in C : \A m \in C : n <= m
Gathered(C) ==
    LET device[n \in 0 .. count] ==
            IF n <= Oldest(C) THEN nodes[Oldest(C)]
            ELSE IF n \in C THEN Absorb(device[n - 1], nodes[n])
            ELSE device[n - 1]
    IN  device[count]
Joined(C, r) ==
    [n \in DOMAIN nodes \ (C \ {Oldest(C)}) |->
        IF n = Oldest(C) THEN Absorb(Gathered(C), r) ELSE nodes[n]]

\* _merge_record_into_nodes
Merge(row) ==
    /\ count < MaxRows
    /\ LET r == Single(row, file, count + 1)
           C == Candidates(r)
       IN  nodes' = IF C = {} \/ Ambiguous(r, C)
                    THEN [n \in DOMAIN nodes \cup {count + 1} |->
                             IF n = count + 1 THEN r ELSE nodes[n]]
                    ELSE Joined(C, r)
    /\ count' = count + 1
    /\ UNCHANGED << mode, file >>

NextFile ==
    /\ file < Files /\ file' = file + 1
    /\ UNCHANGED << mode, count, nodes >>

Next == NextFile \/ \E row \in Rows : Merge(row)

Spec == Init /\ [][Next]_vars

-----------------------------------------------------------------------------

\* "conflicting concrete extended addresses never merge"
\* (doc/merge_thread_device_info.md), whatever weaker evidence connects their
\* rows and in whichever order it comes; in the builder's merge no two fabrics
\* and no two rows of a file become one device either, but for diagnostic
\* observations of one address; and merge-dataset's default mode has one device
\* for an extended address.
IdentitiesApart ==
    /\ \A n \in DOMAIN nodes :
          /\ Cardinality(nodes[n].ext) <= 1
          /\ mode = "cached" =>
                /\ Cardinality(nodes[n].mat) <= 1
                /\ \A x, y \in nodes[n].rows :
                      x.file = y.file /\ x # y => x.file \in Diagnostics
    /\ mode = "strict" =>
          \A m, n \in DOMAIN nodes : m # n => nodes[m].ext \cap nodes[n].ext = {}

\* Every row read is part of exactly one device, which names its file among
\* its sources and no other file.
RowsKept ==
    /\ \A i \in 1 .. count :
          Cardinality({n \in DOMAIN nodes : \E x \in nodes[n].rows : x.id = i}) = 1
    /\ \A n \in DOMAIN nodes : nodes[n].files = {x.file : x \in nodes[n].rows}

Told(n) == {x.file : x \in {y \in nodes[n].rows : y.says}}
Best(f, fs) == IF fs = {} THEN f = None ELSE f \in fs /\ \A g \in fs : f <= g

\* The TLV summary of a device is that of the best of its sources that has one,
\* also when devices with summaries of their own have become one.
SummaryIsBest == \A n \in DOMAIN nodes : Best(nodes[n].summary, Told(n))

\* "Scalars retain the highest-priority non-empty observation"
\* (doc/merge_thread_device_info.md).
ScalarIsBest == \A n \in DOMAIN nodes : Best(nodes[n].value, Told(n))
=============================================================================
