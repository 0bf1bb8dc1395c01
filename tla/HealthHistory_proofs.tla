-------------------------- MODULE HealthHistory_proofs --------------------------
(* Theorems about the parts of the health history, for every value of      *)
(* their constants.                                                        *)
EXTENDS MCHealthHistory, FiniteSetTheorems, NaturalsInduction, TLAPS

\* Every set of numbers has a least one.
LEMMA LeastNumber == ASSUME NEW T \in SUBSET Nat, T # {} PROVE \E x \in T : \A y \in T : ~(y < x)
<1> DEFINE Less == OpToRel(<, Nat)
<1>1. IsWellFoundedOn(Less, Nat)
  BY NatLessThanWellFounded
<1>2. \A x, y \in Nat : <<x, y>> \in Less <=> x < y
  BY DEF OpToRel
<1> HIDE DEF Less
<1>3. \E x \in T : \A y \in T : ~ (<<y, x>> \in Less)
  BY <1>1, WFMin
<1> QED
  BY <1>2, <1>3

\* What holds of 0, and of each number after one of which it holds, holds up to n.
LEMMA UpTo ==
  ASSUME NEW n \in Nat, NEW T, 0 \in T, \A i \in 0..n - 1 : i \in T => i + 1 \in T
  PROVE  \A i \in 0..n : i \in T
<1> SUFFICES ASSUME \E i \in 0..n : i \notin T PROVE FALSE
  OBVIOUS
<1> DEFINE U == {i \in 0..n : i \notin T}
<1>1. U \in SUBSET Nat /\ U # {}
  OBVIOUS
<1>2. PICK x \in U : \A y \in U : ~(y < x)
  BY <1>1, LeastNumber
<1>3. x - 1 \in 0..n - 1 /\ x - 1 \notin U
  BY <1>2
<1>4. x - 1 \in T
  BY <1>3
<1>5. (x - 1) + 1 \in T
  BY <1>3, <1>4
<1> QED
  BY <1>3, <1>5

-----------------------------------------------------------------------------
(* HealthAbsences                                                          *)

AbsencesInv ==
    /\ now \in Nat /\ times \in Seq(Nat)
    /\ since \in [RosterDevices -> Nat \cup {None}]
    /\ \A r \in rows : r.col \in DOMAIN times

\* The last of a set of collections that no two of are of one time: as many as wanted, all of
\* them after the others.
LEMMA LastOnes ==
  ASSUME NEW S, IsFiniteSet(S), NEW T \in [S -> Nat], NEW top \in Nat, \A c \in S : T[c] <= top,
         \A b, c \in S : b # c => T[b] # T[c],
         NEW n \in Nat, n <= Cardinality(S)
  PROVE  \E ones \in SUBSET S :
            Cardinality(ones) = n /\ \A c \in ones, b \in S \ ones : T[b] < T[c]
<1> DEFINE From(k) == {c \in S : k <= T[c]}
           Enough == {k \in Nat : Cardinality(From(k)) <= n}
<1>1. \A k \in Nat : From(k) \in SUBSET S
  OBVIOUS
<1>2. \A k \in Nat : IsFiniteSet(From(k)) /\ Cardinality(From(k)) \in Nat
  BY <1>1, FS_Subset, FS_CardinalityType
<1>3. Cardinality(From(top + 1)) <= n
  <2>1. From(top + 1) = {}
    OBVIOUS
  <2> HIDE DEF From
  <2> QED
    BY <2>1, FS_EmptySet
<1>4. PICK k \in Nat : /\ Cardinality(From(k)) <= n
                       /\ \A y \in Nat : Cardinality(From(y)) <= n => ~(y < k)
  <2> HIDE DEF From
  <2>1. PICK k \in Enough : \A y \in Enough : ~(y < k)
    <3>1. Enough \in SUBSET Nat /\ Enough # {}
      BY <1>3
    <3> QED
      BY <3>1, LeastNumber
  <2> QED
    BY <2>1
<1>5. n <= Cardinality(From(k))
  <2>1. CASE k = 0
    <3>1. From(k) = S
      BY <2>1
    <3> QED
      BY <3>1
  <2>2. CASE k # 0
    <3>1. k - 1 \in Nat /\ Cardinality(From(k - 1)) > n
      <4> HIDE DEF From
      <4>1. k - 1 \in Nat /\ k - 1 < k
        BY <2>2
      <4>2. ~(Cardinality(From(k - 1)) <= n)
        BY <4>1, <1>4
      <4> QED
        BY <4>1, <4>2, <1>2
    <3>2. PICK x : From(k - 1) \subseteq From(k) \cup {x}
      <4>1. CASE \E x \in S : T[x] = k - 1
        BY <3>1, <4>1
      <4>2. CASE ~\E x \in S : T[x] = k - 1
        BY <3>1, <4>2
      <4> QED
        BY <4>1, <4>2
    <3> HIDE DEF From
    <3>3. IsFiniteSet(From(k)) /\ Cardinality(From(k)) \in Nat /\ Cardinality(From(k - 1)) \in Nat
      BY <1>2, <3>1
    <3>4. /\ IsFiniteSet(From(k) \cup {x})
          /\ Cardinality(From(k) \cup {x}) <= Cardinality(From(k)) + 1
          /\ Cardinality(From(k) \cup {x}) \in Nat
      BY <3>3, FS_AddElement
    <3>5. Cardinality(From(k - 1)) <= Cardinality(From(k) \cup {x})
      BY <3>2, <3>4, FS_Subset
    <3> QED
      BY <3>1, <3>3, <3>4, <3>5
  <2> QED
    BY <2>1, <2>2
<1>6. \A c \in From(k), b \in S \ From(k) : T[b] < T[c]
  OBVIOUS
<1> HIDE DEF From
<1>7. Cardinality(From(k)) = n
  BY <1>2, <1>4, <1>5
<1> QED
  BY <1>1, <1>6, <1>7

LEMMA SameCount == \A S : A!Cardinality(S) = Cardinality(S)
  BY DEF A!Cardinality, Cardinality

LEMMA AbsencesInit == ASSUME A!Init PROVE AbsencesInv
<1>1. rows = {} /\ times = << >> /\ now = 1 /\ since = [d \in RosterDevices |-> None]
  BY DEF A!Init
<1> QED
  BY <1>1 DEF AbsencesInv

LEMMA AbsencesStep == ASSUME AbsencesInv, A!Next \/ UNCHANGED absencesVars PROVE AbsencesInv'
<1> USE DEF AbsencesInv
<1>1. CASE A!Tick
  BY <1>1 DEF A!Tick
<1>2. CASE A!Collect
  <2>1. times' \in Seq(Nat) /\ DOMAIN times \subseteq DOMAIN times'
    BY <1>2 DEF A!Collect
  <2> QED
    BY <1>2, <2>1 DEF A!Collect
<1>3. ASSUME NEW d \in RosterDevices, A!Expect(d) \/ A!Excuse(d) PROVE AbsencesInv'
  BY <1>3 DEF A!Expect, A!Excuse
<1>4. ASSUME NEW o \in A!Observation, A!Process(o) PROVE AbsencesInv'
  <2>1. o.col \in DOMAIN times
    BY DEF A!Observation
  <2> QED
    BY <1>4, <2>1 DEF A!Process
<1>5. CASE UNCHANGED absencesVars
  BY <1>5 DEF absencesVars
<1> QED
  BY <1>1, <1>2, <1>3, <1>4, <1>5 DEF A!Next

\* What an assessment calls Offline is what the collections that count say.
LEMMA OfflineWasAbsent ==
  ASSUME AbsencesInv, A!AbsencesAssumption,
         NEW o \in A!Observation, NEW d \in A!Offline(o)
  PROVE  A!Gone(d, o)
<1> DEFINE c0 == o.col
           S == {g \in A!Preceding(c0) : \A s \in
                   {g2 \in A!Preceding(c0) : ~A!InEpoch(d, g2) \/ d \in A!Present(g2)} :
                      times[s] < times[g]}
           full == {r \in rows : r.complete /\ r.witness}
           counted == {r.col : r \in full}
           within == {c \in counted \cup {o.col} :
                         since[d] <= times[c] /\ times[c] <= times[o.col]}
           sawIt(c) == \/ \E r \in full : r.col = c /\ d \in r.seen
                       \/ c = o.col /\ d \in o.seen
<1>1. /\ c0 \in DOMAIN times /\ A!Ordered(c0) /\ d \notin A!Present(c0)
      /\ A!Count(d, c0) + 1 >= Required /\ since[d] # None /\ since[d] <= times[c0]
      /\ d \notin o.seen /\ d \in RosterDevices
  BY DEF A!Offline, A!Available, A!Expected, A!Observation
<1>2. A!Grouped = counted /\ A!Grouped \subseteq DOMAIN times
  BY DEF A!Grouped, A!Qualified, AbsencesInv
<1>3. S \subseteq A!Preceding(c0) /\ A!Preceding(c0) \subseteq DOMAIN times \ {c0}
  BY <1>2 DEF A!Preceding
<1>4. IsFiniteSet(DOMAIN times) /\ \A c \in DOMAIN times : times[c] \in Nat
  <2>1. DOMAIN times = 1 .. Len(times) /\ Len(times) \in Nat
    BY DEF AbsencesInv
  <2> QED
    <3>1. IsFiniteSet(1 .. Len(times))
      BY <2>1, FS_Interval
    <3> QED
      BY <2>1, <3>1 DEF AbsencesInv
<1>5. A!Count(d, c0) = Cardinality(S)
  <2>1. A!Count(d, c0) = A!Cardinality(S)
    BY <1>1 DEF A!Count
  <2> HIDE DEF S
  <2> QED
    BY <2>1, SameCount
<1>6. IsFiniteSet(S) /\ Cardinality(S) \in Nat
  BY <1>3, <1>4, FS_Subset, FS_CardinalityType
<1>7. IsFiniteSet(S \cup {c0}) /\ Cardinality(S \cup {c0}) = Cardinality(S) + 1
  <2>1. c0 \notin S
    BY <1>3
  <2> HIDE DEF S
  <2> QED
    BY <1>6, <2>1, FS_AddElement
<1>8. Required \in Nat /\ Required <= Cardinality(S \cup {c0})
  <2> HIDE DEF S
  <2> QED
    BY <1>1, <1>5, <1>6, <1>7 DEF A!AbsencesAssumption
<1>9. \A g \in S : since[d] <= times[g] /\ d \notin A!Present(g)
  BY <1>4, <1>3 DEF A!InEpoch
<1>10. S \cup {c0} \subseteq within
  BY <1>1, <1>2, <1>4, <1>9 DEF A!Preceding, AbsencesInv
<1>11. \A c \in S \cup {c0} : ~sawIt(c)
  <2>1. \A c \in S \cup {c0} : d \notin A!Present(c)
    BY <1>1, <1>9
  <2>2. \A c, r : r \in full /\ r.col = c /\ d \in r.seen => d \in A!Present(c)
    BY DEF A!Present, A!Qualified
  <2> QED
    BY <1>1, <1>3, <2>1, <2>2
<1>12. \A b \in within \ (S \cup {c0}), c \in S \cup {c0} : times[b] < times[c]
  <2> SUFFICES ASSUME NEW b \in within \ (S \cup {c0}), NEW c \in S \cup {c0}
               PROVE  times[b] < times[c]
    OBVIOUS
  <2>1. b \in A!Preceding(c0)
    BY <1>2 DEF A!Preceding
  <2>2. times[b] \in Nat /\ times[c] \in Nat /\ times[c0] \in Nat
    BY <1>1, <1>2, <1>3, <1>4, <2>1
  <2>3. CASE c = c0
    <3>1. times[b] # times[c0]
      BY <2>1, <1>1, <1>3 DEF A!Ordered
    <3>2. times[b] <= times[c0]
      BY DEF within
    <3> QED
      BY <2>2, <2>3, <3>1, <3>2
  <2>4. CASE c \in S
    <3>1. PICK s \in {g2 \in A!Preceding(c0) : ~A!InEpoch(d, g2) \/ d \in A!Present(g2)} :
             ~(times[s] < times[b])
      BY <2>1
    <3>2. times[s] < times[c]
      BY <2>4
    <3>3. times[s] \in Nat
      BY <1>3, <1>4
    <3> QED
      BY <2>2, <3>1, <3>2, <3>3
  <2> QED
    BY <2>3, <2>4
<1>13. \A b, c \in S \cup {c0} : b # c => times[b] # times[c]
  BY <1>1, <1>3 DEF A!Ordered
<1>14. S \cup {c0} \subseteq DOMAIN times
  BY <1>1, <1>3
<1>15. \A c \in S \cup {c0} : times[c] <= times[c0]
  BY <1>1, <1>3, <1>4 DEF A!Preceding
<1> HIDE DEF S, within, sawIt
<1>16. PICK ones \in SUBSET (S \cup {c0}) :
          /\ Cardinality(ones) = Required
          /\ \A c \in ones, b \in (S \cup {c0}) \ ones : times[b] < times[c]
  <2> DEFINE T == [c \in S \cup {c0} |-> times[c]]
  <2>1. T \in [S \cup {c0} -> Nat]
    BY <1>4, <1>14
  <2>2. times[c0] \in Nat
    BY <1>1, <1>4
  <2>3. /\ \A c \in S \cup {c0} : T[c] <= times[c0]
        /\ \A b, c \in S \cup {c0} : b # c => T[b] # T[c]
    BY <1>13, <1>15
  <2>4. \A c \in S \cup {c0} : T[c] = times[c]
    OBVIOUS
  <2> HIDE DEF T
  <2>5. \E kept \in SUBSET (S \cup {c0}) :
            Cardinality(kept) = Required /\ \A c \in kept, b \in (S \cup {c0}) \ kept : T[b] < T[c]
    BY <1>7, <1>8, <2>1, <2>2, <2>3, LastOnes
  <2> QED
    BY <2>4, <2>5
<1>17. \E kept \in SUBSET within :
          /\ A!Cardinality(kept) = Required
          /\ \A c \in kept : ~sawIt(c)
          /\ \A c \in kept, b \in within \ kept : times[b] < times[c]
  <2>1. ones \in SUBSET within /\ \A c \in ones : ~sawIt(c)
    BY <1>10, <1>11, <1>16
  <2>2. \A c \in ones, b \in within \ ones : times[b] < times[c]
    BY <1>12, <1>16
  <2>3. A!Cardinality(ones) = Required
    BY <1>16, SameCount
  <2> QED
    BY <2>1, <2>2, <2>3
<1> QED
  BY <1>17 DEF A!Gone, within, sawIt

LEMMA AbsencesDecided == ASSUME AbsencesInv, A!AbsencesAssumption
                         PROVE  A!OfflineIsAbsence
<1> SUFFICES ASSUME NEW o \in A!Observation
             PROVE  /\ \A d \in A!Offline(o) :
                          /\ since[d] # None /\ o.complete /\ o.witness
                          /\ A!Gone(d, o) /\ A!Dated(o)
                    /\ A!Status(o, "none", TRUE) = "strong" =>
                          \A d \in A!Expected(o.col) : d \in o.seen \/ (o.witness /\ A!Dated(o))
  BY DEF A!OfflineIsAbsence
<1>1. A!Available(o) => o.witness /\ A!Dated(o)
  <2>1. ASSUME A!Available(o) PROVE A!Dated(o)
    <3> SUFFICES ASSUME NEW b \in A!Grouped \cup {o.col}, NEW c \in A!Grouped \cup {o.col},
                        b # c, times[b] <= times[o.col], times[b] = times[c]
                 PROVE  FALSE
      BY DEF A!Dated, A!Grouped, A!Qualified
    <3>1. b \in A!Preceding(o.col) \cup {o.col} /\ c \in A!Preceding(o.col) \cup {o.col}
      BY DEF A!Preceding
    <3> QED
      BY <2>1, <3>1 DEF A!Available, A!Ordered
  <2> QED
    BY <2>1 DEF A!Available
<1>2. ASSUME NEW d \in A!Offline(o)
      PROVE  since[d] # None /\ o.complete /\ o.witness /\ A!Gone(d, o) /\ A!Dated(o)
  BY <1>1, <1>2, OfflineWasAbsent DEF A!Offline, A!Expected
<1>3. ASSUME A!Status(o, "none", TRUE) = "strong", NEW d \in A!Expected(o.col)
      PROVE  d \in o.seen \/ (o.witness /\ A!Dated(o))
  BY <1>1, <1>3 DEF A!Status
<1> QED
  BY <1>2, <1>3

\* Nobody is Offline who was not absent from the last Required collections since it is
\* expected, and a network is Strong only when its absences were decided
\* (_evaluate_availability over roster_evaluation_inputs).
THEOREM OfflineWereAbsent == Spec => []OfflineIsAbsence
<1>1. Init => AbsencesInv
  BY AbsencesInit DEF Init
<1>2. AbsencesInv /\ [Next]_vars => AbsencesInv'
  BY AbsencesStep DEF Next, vars
<1>3. AbsencesInv => OfflineIsAbsence
  BY AbsencesDecided, HealthHistoryAssumptions DEF OfflineIsAbsence
<1> QED
  BY <1>1, <1>2, <1>3, PTL DEF Spec

-----------------------------------------------------------------------------
(* Connectivity: what is reached from a node is the least set with it that *)
(* the edges do not leave.                                                 *)

LEMMA SameVerdictCount ==
    \A S : V!Cardinality(S) = Cardinality(S) /\ (V!IsFiniteSet(S) <=> IsFiniteSet(S))
  BY DEF V!Cardinality, Cardinality, V!IsFiniteSet, IsFiniteSet

\* The nodes no further than i steps from v, up to k.
Spreading(f, N, E, v, k) ==
    f = [i \in 0 .. k |->
            IF i = 0 THEN {v}
            ELSE f[i - 1] \cup {y \in N : \E x \in f[i - 1] : {x, y} \in E}]

LEMMA SpreadingExists ==
    ASSUME NEW n \in Nat, NEW N, NEW E, NEW v
    PROVE  \E f : Spreading(f, N, E, v, n)
<1> DEFINE T == {k \in 0 .. n : \E f : Spreading(f, N, E, v, k)}
<1>1. 0 \in T
  <2>1. Spreading([i \in 0 .. 0 |-> {v}], N, E, v, 0)
    BY DEF Spreading
  <2> QED
    BY <2>1
<1>2. ASSUME NEW k \in 0 .. n - 1, k \in T PROVE k + 1 \in T
  <2>1. PICK f : Spreading(f, N, E, v, k)
    BY <1>2
  <2> DEFINE Near(S) == S \cup {y \in N : \E x \in S : {x, y} \in E}
             g == [i \in 0 .. k + 1 |-> IF i = k + 1 THEN Near(f[k]) ELSE f[i]]
  <2>2. \A i \in 0 .. k : f[i] = IF i = 0 THEN {v} ELSE Near(f[i - 1])
    BY <2>1 DEF Spreading
  <2> HIDE DEF Near
  <2>3. ASSUME NEW i \in 0 .. k + 1 PROVE g[i] = IF i = 0 THEN {v} ELSE Near(g[i - 1])
    <3>1. CASE i = k + 1
      <4>1. i # 0 /\ i - 1 = k /\ g[i - 1] = f[k] /\ g[i] = Near(f[k])
        BY <3>1
      <4> QED
        BY <3>1, <4>1
    <3>2. CASE i \in 1 .. k
      <4>1. g[i] = f[i] /\ g[i - 1] = f[i - 1] /\ i # 0 /\ i \in 0 .. k
        BY <3>2
      <4> QED
        BY <4>1, <2>2
    <3>3. CASE i = 0
      <4>1. g[i] = f[0] /\ 0 \in 0 .. k
        BY <3>3
      <4> QED
        BY <2>2, <3>3, <4>1
    <3> QED
      BY <3>1, <3>2, <3>3
  <2>4. g = [i \in 0 .. k + 1 |-> g[i]]
    OBVIOUS
  <2> HIDE DEF g
  <2>5. g = [i \in 0 .. k + 1 |-> IF i = 0 THEN {v} ELSE Near(g[i - 1])]
    BY <2>3, <2>4
  <2>6. Spreading(g, N, E, v, k + 1)
    BY <2>5 DEF Spreading, Near
  <2>7. k + 1 \in 0 .. n
    OBVIOUS
  <2> QED
    BY <2>6, <2>7
<1> HIDE DEF T
<1>3. \A k \in 0 .. n : k \in T
  BY <1>1, <1>2, UpTo
<1> QED
  BY <1>3 DEF T

\* No edge leads out of S.
Shut(N, E, S) == \A x \in S, y \in N : {x, y} \in E => y \in S

LEMMA ReachableIsLeastShut ==
    ASSUME NEW N, IsFiniteSet(N), NEW E, NEW v \in N
    PROVE  /\ v \in V!Reachable(N, E, v) /\ V!Reachable(N, E, v) \subseteq N
           /\ Shut(N, E, V!Reachable(N, E, v))
           /\ \A S : v \in S /\ Shut(N, E, S) => V!Reachable(N, E, v) \subseteq S
<1> DEFINE n == Cardinality(N)
<1>1. n \in Nat /\ V!Cardinality(N) = n
  BY FS_CardinalityType, SameVerdictCount
<1>2. PICK g : g = CHOOSE f : Spreading(f, N, E, v, n)
  OBVIOUS
<1>3. Spreading(g, N, E, v, n)
  BY <1>1, <1>2, SpreadingExists
<1>4. V!Reachable(N, E, v) = g[n]
  BY <1>1, <1>2 DEF V!Reachable, Spreading
<1>5. /\ g[0] = {v}
      /\ \A k \in 0 .. n - 1 : g[k + 1] = g[k] \cup {y \in N : \E x \in g[k] : {x, y} \in E}
  <2> HIDE DEF n
  <2>1. \A i \in 0 .. n : g[i] = IF i = 0 THEN {v}
                               ELSE g[i - 1] \cup {y \in N : \E x \in g[i - 1] : {x, y} \in E}
    BY <1>3 DEF Spreading
  <2> QED
    <3>1. g[0] = {v}
      <4>1. 0 \in 0 .. n
        BY <1>1
      <4> QED
        BY <4>1, <2>1, Zenon
    <3>2. ASSUME NEW k \in 0 .. n - 1
          PROVE  g[k + 1] = g[k] \cup {y \in N : \E x \in g[k] : {x, y} \in E}
      <4>1. k + 1 \in 0 .. n /\ k + 1 # 0 /\ (k + 1) - 1 = k
        BY <1>1
      <4>2. g[k + 1] = g[(k + 1) - 1] \cup {y \in N : \E x \in g[(k + 1) - 1] : {x, y} \in E}
        BY <2>1, <4>1
      <4> QED
        BY <4>1, <4>2
    <3> QED
      BY <3>1, <3>2
<1> HIDE DEF n
<1> DEFINE Fine(k) ==
               /\ v \in g[k] /\ g[k] \subseteq N
               /\ Shut(N, E, g[k]) \/ Cardinality(g[k]) >= k + 1
               /\ \A S : v \in S /\ Shut(N, E, S) => g[k] \subseteq S
           U == {k \in 0 .. n : Fine(k)}
<1>6. 0 \in U
  <2>1. Cardinality(g[0]) = 1
    BY <1>5, FS_Singleton
  <2>2. v \in g[0] /\ g[0] \subseteq N /\ Cardinality(g[0]) >= 0 + 1
    BY <1>5, <2>1
  <2>3. \A S : v \in S => g[0] \subseteq S
    BY <1>5
  <2>4. 0 \in 0 .. n
    BY <1>1
  <2> QED
    BY <2>2, <2>3, <2>4
<1>7. ASSUME NEW k \in 0 .. n - 1, k \in U PROVE k + 1 \in U
  <2>1. g[k + 1] = g[k] \cup {y \in N : \E x \in g[k] : {x, y} \in E}
    BY <1>5
  <2>2. v \in g[k + 1] /\ g[k + 1] \subseteq N
    BY <1>7, <2>1
  <2>3. \A S : v \in S /\ Shut(N, E, S) => g[k + 1] \subseteq S
    BY <1>7, <2>1 DEF Shut
  <2>4. Shut(N, E, g[k + 1]) \/ Cardinality(g[k + 1]) >= (k + 1) + 1
    <3>1. CASE Shut(N, E, g[k])
      <4>1. g[k + 1] = g[k]
        BY <2>1, <3>1 DEF Shut
      <4> QED
        BY <3>1, <4>1
    <3>2. CASE ~Shut(N, E, g[k])
      <4>1. PICK y \in g[k + 1] : y \notin g[k]
        BY <2>1, <3>2 DEF Shut
      <4>2. IsFiniteSet(g[k]) /\ IsFiniteSet(g[k + 1])
        BY <1>7, <2>2, FS_Subset
      <4>3. g[k] \cup {y} \subseteq g[k + 1]
        BY <2>1, <4>1
      <4>4. Cardinality(g[k]) >= k + 1
        BY <1>7, <3>2
      <4> HIDE DEF Fine, U
      <4>5. /\ IsFiniteSet(g[k] \cup {y}) /\ Cardinality(g[k] \cup {y}) = Cardinality(g[k]) + 1
            /\ Cardinality(g[k]) \in Nat
        BY <4>1, <4>2, FS_AddElement, FS_CardinalityType
      <4>6. Cardinality(g[k] \cup {y}) <= Cardinality(g[k + 1])
        BY <4>2, <4>3, FS_Subset
      <4>7. Cardinality(g[k + 1]) \in Nat
        BY <4>2, FS_CardinalityType
      <4> QED
        BY <4>4, <4>5, <4>6, <4>7
    <3> QED
      BY <3>1, <3>2
  <2>5. k + 1 \in 0 .. n
    BY <1>1
  <2> QED
    BY <2>2, <2>3, <2>4, <2>5
<1> HIDE DEF Fine, U
<1>8. \A k \in 0 .. n : k \in U
  BY <1>1, <1>6, <1>7, UpTo
<1>9. Fine(n)
  BY <1>1, <1>8 DEF U
<1>10. Shut(N, E, g[n])
  <2>1. g[n] \subseteq N /\ (Shut(N, E, g[n]) \/ Cardinality(g[n]) >= n + 1)
    BY <1>9 DEF Fine
  <2>2. Cardinality(g[n]) <= n /\ Cardinality(g[n]) \in Nat
    BY <2>1, FS_Subset, FS_CardinalityType DEF n
  <2> QED
    BY <1>1, <2>1, <2>2
<1> QED
  BY <1>4, <1>9, <1>10 DEF Fine

\* The ends of a bridge are apart without it.
LEMMA BridgeSeparates ==
    ASSUME NEW N, IsFiniteSet(N), NEW E, NEW a \in N, NEW b \in N,
           V!IsBridge(N, E, {a, b})
    PROVE  b \notin V!Reachable(N, E \ {{a, b}}, a)
<1> SUFFICES ASSUME b \in V!Reachable(N, E \ {{a, b}}, a) PROVE FALSE
  OBVIOUS
<1> DEFINE L == E \ {{a, b}}
           R(v) == V!Reachable(N, E, v)
           P(v) == V!Reachable(N, L, v)
<1>1. \A v \in N : /\ v \in R(v) /\ R(v) \subseteq N /\ Shut(N, E, R(v))
                   /\ \A S : v \in S /\ Shut(N, E, S) => R(v) \subseteq S
  BY ReachableIsLeastShut
<1>2. \A v \in N : /\ v \in P(v) /\ P(v) \subseteq N /\ Shut(N, L, P(v))
                   /\ \A S : v \in S /\ Shut(N, L, S) => P(v) \subseteq S
  BY ReachableIsLeastShut
<1>3. b \in P(a)
  OBVIOUS
<1> HIDE DEF R, P
<1>4. ASSUME NEW v \in N PROVE R(v) = P(v)
  <2>1. P(v) \subseteq R(v)
    <3>1. Shut(N, L, R(v))
      BY <1>1 DEF Shut, L
    <3> QED
      BY <1>1, <1>2, <3>1
  <2>2. Shut(N, E, P(v))
    <3>1. a \in P(v) => b \in P(v)
      BY <1>2, <1>3
    <3>2. b \in P(v) => a \in P(v)
      <4> SUFFICES ASSUME b \in P(v), a \notin P(v) PROVE FALSE
        OBVIOUS
      <4>1. Shut(N, L, N \ P(v))
        <5> SUFFICES ASSUME NEW x \in N \ P(v), NEW y \in N, {x, y} \in L, y \in P(v)
                     PROVE  FALSE
          BY DEF Shut
        <5>1. {y, x} = {x, y}
          OBVIOUS
        <5> QED
          BY <1>2, <5>1 DEF Shut
      <4>2. P(a) \subseteq N \ P(v)
        BY <1>2, <4>1
      <4> QED
        BY <1>3, <4>2
    <3> SUFFICES ASSUME NEW x \in P(v), NEW y \in N, {x, y} \in E PROVE y \in P(v)
      BY DEF Shut
    <3>3. CASE {x, y} = {a, b}
      <4>1. (x = a /\ y = b) \/ (x = b /\ y = a) \/ x = y
        BY <3>3
      <4> QED
        BY <3>1, <3>2, <4>1
    <3>4. CASE {x, y} # {a, b}
      BY <1>2, <3>4 DEF Shut, L
    <3> QED
      BY <3>3, <3>4
  <2>3. R(v) \subseteq P(v)
    BY <1>1, <1>2, <2>2
  <2> QED
    BY <2>1, <2>3
<1>5. V!Components(N, E) = V!Components(N, L)
  BY <1>4 DEF V!Components, R, P
<1>6. V!Cardinality(V!Components(N, L)) > V!Cardinality(V!Components(N, E))
  BY DEF V!IsBridge
<1>7. IsFiniteSet(V!Components(N, E))
  <2> DEFINE f == [v \in N |-> R(v)]
  <2>1. f \in Surjection(N, V!Components(N, E))
    BY DEF V!Components, Surjection, R
  <2> QED
    BY <2>1, FS_Surjection
<1> QED
  BY <1>5, <1>6, <1>7, SameVerdictCount, FS_CardinalityType

-----------------------------------------------------------------------------
(* NetworkVerdict                                                          *)

\* What _evaluate_relationships finds.
IsLinkFinding(o, f) ==
    \/ /\ f.rule = "relationship.directional-quality"
       /\ f.status = "poor" => /\ f.about \in V!Reported(o) /\ o.quality[f.about] = "critical"
                               /\ V!SolePath(o, f.about)
    \/ f.rule = "relationship.bidirectional-lq3"
    \/ f.rule = "device.multiple-reporters-high-error"

LEMMA LinkFindingsAre == \A o : \A f \in V!LinkFindings(o) : IsLinkFinding(o, f)
<1> SUFFICES ASSUME NEW o, NEW f \in V!LinkFindings(o) PROVE IsLinkFinding(o, f)
  OBVIOUS
<1> DEFINE bad == {k \in V!Reported(o) : V!BadLink(o, k) /\ V!Supports(o, "delivery")}
           good == {k \in V!Reported(o) : o.quality[k] = "lq3" /\ V!Supports(o, "connectivity")}
           devices == {x \in V!Devices :
                          /\ V!Supports(o, "delivery")
                          /\ V!Cardinality({l \in V!Reported(o) :
                                              l[2] = x /\ o.quality[l] = "critical"}) > 1}
           grave(l) == o.quality[l] = "critical" /\ V!SolePath(o, l)
<1>1. \/ \E l \in bad : f = V!Finding("relationship.directional-quality", l,
                                     IF grave(l) THEN "poor" ELSE "moderate")
      \/ \E l \in good : f = V!Finding("relationship.bidirectional-lq3", l, "strong")
      \/ \E d \in devices : f = V!Finding("device.multiple-reporters-high-error", d, "moderate")
  BY DEF V!LinkFindings
<1>2. bad \subseteq V!Reported(o)
  OBVIOUS
<1> HIDE DEF bad, good, devices, grave
<1>3. CASE \E l \in bad : f = V!Finding("relationship.directional-quality", l,
                                     IF grave(l) THEN "poor" ELSE "moderate")
  <2>1. PICK l \in bad : f = V!Finding("relationship.directional-quality", l,
                                     IF grave(l) THEN "poor" ELSE "moderate")
    BY <1>3
  <2>2. /\ f.rule = "relationship.directional-quality" /\ f.about = l
        /\ f.status = "poor" => grave(l)
    BY <2>1 DEF V!Finding
  <2> QED
    BY <1>2, <2>2 DEF IsLinkFinding, grave
<1>4. CASE \E l \in good : f = V!Finding("relationship.bidirectional-lq3", l, "strong")
  BY <1>4 DEF V!Finding, IsLinkFinding
<1>5. CASE \E d \in devices : f = V!Finding("device.multiple-reporters-high-error", d, "moderate")
  BY <1>5 DEF V!Finding, IsLinkFinding
<1> QED
  BY <1>1, <1>3, <1>4, <1>5

\* The rules of a roster are those that a reassessment evaluates anew, and no other rule is.
LEMMA RulesApart ==
    ASSUME NEW o, NEW in
    PROVE  /\ \A f \in V!RosterFindings(o, in) \cup V!ContextFindings(o, in) :
                 f.rule \in V!RosterRules
           /\ \A f \in V!ObservedFindings(o) \cup V!EvidenceFindings(o) :
                 f.rule \notin V!RosterRules
<1>1. \A f \in V!RosterFindings(o, in) \cup V!ContextFindings(o, in) : f.rule \in V!RosterRules
  BY DEF V!RosterFindings, V!ContextFindings, V!One, V!Finding, V!RosterRules
<1>2. \A f \in V!ObservedFindings(o) : f.rule \notin V!RosterRules
  BY DEF V!ObservedFindings, V!Finding, V!RosterRules
<1>3. \A f \in V!RedundancyFindings(o) \cup V!RoutingFindings(o) : f.rule \notin V!RosterRules
  BY DEF V!RedundancyFindings, V!RoutingFindings, V!One, V!Finding, V!RosterRules
<1>4. \A f \in V!MetricFindings(o) \cup V!PartitionFindings(o) : f.rule \notin V!RosterRules
  BY DEF V!MetricFindings, V!PartitionFindings, V!One, V!Finding, V!RosterRules
<1>5. \A f \in V!LinkFindings(o) : f.rule \notin V!RosterRules
  <2>1. \A f \in V!LinkFindings(o) : IsLinkFinding(o, f)
    BY LinkFindingsAre
  <2> QED
    BY <2>1 DEF IsLinkFinding, V!RosterRules
<1> QED
  BY <1>1, <1>2, <1>3, <1>4, <1>5 DEF V!EvidenceFindings

\* Evaluating the rules of the roster anew is evaluating all of them.
LEMMA ReevaluationIsEvaluation ==
    ASSUME NEW o, NEW before, NEW in
    PROVE  V!Reevaluation(o, in, V!Evaluation(o, before)) = V!Evaluation(o, in)
<1> DEFINE old == V!Evaluation(o, before).findings
           lasting == V!ObservedFindings(o) \cup V!EvidenceFindings(o)
<1>1. old = V!RosterFindings(o, before) \cup V!ObservedFindings(o)
              \cup V!EvidenceFindings(o) \cup V!ContextFindings(o, before)
  BY DEF V!Evaluation, V!Assessment
<1>2. {f \in old : f.rule \notin V!RosterRules} = lasting
  BY <1>1, RulesApart
<1> HIDE DEF old
<1>3. V!RosterFindings(o, in) \cup {f \in old : f.rule \notin V!RosterRules}
        \cup V!ContextFindings(o, in)
      = V!RosterFindings(o, in) \cup V!ObservedFindings(o)
          \cup V!EvidenceFindings(o) \cup V!ContextFindings(o, in)
  BY <1>2
<1> QED
  BY <1>3 DEF V!Reevaluation, V!Evaluation, old

VerdictInv ==
    /\ obs \in V!Observations /\ inputs \in V!Contexts \cup {None}
    /\ assessment # None => inputs \in V!Contexts /\ assessment = V!Evaluation(obs, inputs)

LEMMA VerdictBegins == ASSUME V!Init PROVE VerdictInv
  BY DEF V!Init, VerdictInv

LEMMA VerdictStep == ASSUME VerdictInv, V!Next \/ UNCHANGED verdictVars PROVE VerdictInv'
<1> USE DEF VerdictInv
<1>1. ASSUME NEW in \in V!Contexts, V!Evaluate(in) PROVE VerdictInv'
  BY <1>1 DEF V!Evaluate
<1>2. ASSUME NEW in \in V!Contexts, V!Reassess(in) PROVE VerdictInv'
  BY <1>2, ReevaluationIsEvaluation DEF V!Reassess
<1>3. CASE UNCHANGED verdictVars
  BY <1>3 DEF verdictVars
<1> QED
  BY <1>1, <1>2, <1>3 DEF V!Next

\* A network that a bad link makes Poor has lost a way.
LEMMA SolePathIsOnly ==
    ASSUME V!NetworkVerdictAssumption, NEW o \in V!Observations,
           NEW l \in V!Reported(o), V!SolePath(o, l)
    PROVE  LET around == {{k[1], k[2]} : k \in {j \in Links : o.quality[j] # "none"}}
                           \ {{l[1], l[2]}}
               nodes == IF V!RouterLink(l) THEN V!SeenRouters(o) ELSE V!Devices
               within == {e \in around : e \subseteq nodes}
           IN  l[2] \notin V!Reachable(nodes, within, l[1])
<1> DEFINE around == {{k[1], k[2]} : k \in {j \in Links : o.quality[j] # "none"}}
                       \ {{l[1], l[2]}}
<1>1. /\ IsFiniteSet(V!Devices) /\ V!SeenRouters(o) \subseteq V!Devices
      /\ l \in Links /\ Links \subseteq V!Devices \X V!Devices
  BY SameVerdictCount DEF V!NetworkVerdictAssumption, V!SeenRouters, V!Devices, V!Reported
<1>2. \A k \in V!Reported(o) : k \in Links /\ k[1] \in o.seen /\ k[2] \in o.seen
  BY DEF V!Observations, V!Reported
<1>3. CASE V!RouterLink(l)
  <2> DEFINE within == {e \in around : e \subseteq V!SeenRouters(o)}
  <2>1. l[1] \in V!SeenRouters(o) /\ l[2] \in V!SeenRouters(o)
    BY <1>2, <1>3 DEF V!RouterLink, V!SeenRouters
  <2>2. within = V!Edges(o) \ {{l[1], l[2]}}
    BY DEF V!Edges, V!Reported
  <2>3. V!IsBridge(V!SeenRouters(o), V!Edges(o), {l[1], l[2]})
    BY <1>3 DEF V!SolePath, V!Bridges
  <2>4. IsFiniteSet(V!SeenRouters(o))
    BY <1>1, FS_Subset
  <2>5. l[2] \notin V!Reachable(V!SeenRouters(o), within, l[1])
    BY <2>1, <2>2, <2>3, <2>4, BridgeSeparates
  <2> QED
    BY <1>3, <2>5
<1>4. CASE ~V!RouterLink(l)
  <2> DEFINE within == {e \in around : e \subseteq V!Devices}
             c == V!ChildOf(o, l)
  <2>1. c \in {l[1], l[2]} /\ c \in Children /\ l[1] # l[2]
    <3>1. l[1] \in V!Devices /\ l[2] \in V!Devices /\ l[1] \in o.seen
      BY <1>1, <1>2
    <3>2. /\ l[1] \in Routers \/ l[2] \in Routers
          /\ l[1] \notin Routers \/ l[2] \notin Routers
      BY <1>1, <1>4 DEF V!RouterLink, V!NetworkVerdictAssumption
    <3> QED
      BY <3>1, <3>2 DEF V!ChildOf, V!NetworkVerdictAssumption, V!Devices
  <2>2. ASSUME NEW k \in V!Reported(o), c \in {k[1], k[2]} PROVE k = l
    <3>1. ~V!RouterLink(k)
      BY <2>1, <2>2 DEF V!RouterLink, V!NetworkVerdictAssumption
    <3>2. c \in o.seen
      BY <1>2, <2>2
    <3>3. V!ChildOf(o, k) = c
      BY <1>2, <2>1, <2>2, <3>2 DEF V!ChildOf, V!NetworkVerdictAssumption
    <3> QED
      BY <1>4, <3>1, <3>3 DEF V!SolePath
  <2>3. \A e \in within : c \notin e
    BY <2>2 DEF V!Reported
  <2>4. l[1] \in V!Devices /\ l[2] \in V!Devices
    BY <1>1
  <2> HIDE DEF within, c
  <2>5. CASE c = l[1]
    <3>1. Shut(V!Devices, within, {l[1]})
      BY <2>3, <2>5 DEF Shut
    <3>2. V!Reachable(V!Devices, within, l[1]) \subseteq {l[1]}
      BY <1>1, <2>4, <3>1, ReachableIsLeastShut
    <3> QED
      BY <1>4, <2>1, <3>2 DEF within
  <2>6. CASE c = l[2]
    <3>1. Shut(V!Devices, within, V!Devices \ {c})
      BY <2>3 DEF Shut
    <3>2. V!Reachable(V!Devices, within, l[1]) \subseteq V!Devices \ {c}
      BY <1>1, <2>1, <2>4, <2>6, <3>1, ReachableIsLeastShut
    <3> QED
      BY <1>4, <2>6, <3>2 DEF within
  <2> QED
    BY <2>1, <2>5, <2>6
<1> QED
  BY <1>3, <1>4

\* A finding of the rules that decide about a network, if it is "poor", has a ground.
Grounds(o, in, f) ==
    \/ f.rule = "network.offline-impact" /\ V!TooManyOffline(o, in)
    \/ f.rule = "device.attachment-failure" /\ V!Failed(o) # {}
    \/ f.rule = "network.partition-distribution" /\ o.complete /\ o.partition = "split"
    \/ f.rule = "relationship.directional-quality" /\ IsLinkFinding(o, f)

LEMMA PoorFindingsHaveGrounds ==
    ASSUME V!NetworkVerdictAssumption, NEW o \in V!Observations, NEW in,
           NEW f \in V!Evaluation(o, in).findings, V!Material(f.rule), f.status = "poor"
    PROVE  Grounds(o, in, f)
<1>1. f \in V!RosterFindings(o, in) \cup V!ObservedFindings(o)
              \cup V!RedundancyFindings(o) \cup V!RoutingFindings(o) \cup V!MetricFindings(o)
              \cup V!PartitionFindings(o) \cup V!LinkFindings(o) \cup V!ContextFindings(o, in)
  BY DEF V!Evaluation, V!Assessment, V!EvidenceFindings
<1>2. CASE f \in V!RosterFindings(o, in)
  BY <1>2 DEF V!RosterFindings, V!One, V!Finding, V!Material, Grounds
<1>3. CASE f \in V!ObservedFindings(o)
  BY <1>3 DEF V!ObservedFindings, V!Finding, V!Material, Grounds
<1>4. CASE f \in V!RedundancyFindings(o)
  <2>1. \A n : V!ByCount(n) # "poor"
    BY DEF V!ByCount
  <2> QED
    BY <1>4, <2>1 DEF V!RedundancyFindings, V!One, V!Finding
<1>5. CASE f \in V!RoutingFindings(o)
  BY <1>5 DEF V!RoutingFindings, V!One, V!Finding
<1>6. CASE f \in V!MetricFindings(o)
  BY <1>6 DEF V!MetricFindings, V!Finding, V!Material
<1>7. CASE f \in V!PartitionFindings(o)
  <2>1. o.partition \in {"one", "dominated", "split", "conflicting", "unavailable",
                         "not-applicable"}
    BY DEF V!Observations, V!NetworkVerdictAssumption
  <2> QED
    BY <1>7, <2>1 DEF V!PartitionFindings, V!One, V!Finding, Grounds
<1>8. CASE f \in V!LinkFindings(o)
  <2>1. IsLinkFinding(o, f)
    BY <1>8, LinkFindingsAre
  <2> QED
    BY <2>1 DEF IsLinkFinding, V!Material, Grounds
<1>9. CASE f \in V!ContextFindings(o, in)
  BY <1>9 DEF V!ContextFindings, V!One, V!Finding, V!Material
<1> QED
  BY <1>1, <1>2, <1>3, <1>4, <1>5, <1>6, <1>7, <1>8, <1>9

\* As many are missing as are Offline, and more.
LEMMA OfflineAreMissing ==
    ASSUME V!NetworkVerdictAssumption, NEW o, NEW in \in V!Contexts, V!TooManyOffline(o, in)
    PROVE  100 * V!Cardinality(V!Expected(in) \ o.seen)
             > OfflinePercent * V!Cardinality(V!Expected(in))
<1> DEFINE missing == V!Expected(in) \ o.seen
<1>1. V!Offline(o, in) \subseteq missing /\ missing \subseteq V!Expected(in)
  BY DEF V!Offline, V!Missing
<1>2. V!Expected(in) \subseteq V!Devices
  BY DEF V!Expected, V!Contexts, V!NetworkVerdictAssumption
<1>3. IsFiniteSet(V!Devices)
  BY SameVerdictCount DEF V!NetworkVerdictAssumption
<1>4. IsFiniteSet(V!Expected(in)) /\ IsFiniteSet(missing) /\ IsFiniteSet(V!Offline(o, in))
  BY <1>1, <1>2, <1>3, FS_Subset
<1> DEFINE x == Cardinality(V!Offline(o, in))
           y == Cardinality(missing)
           z == OfflinePercent * Cardinality(V!Expected(in))
<1>5. x \in Nat /\ y \in Nat /\ x <= y
  BY <1>1, <1>4, FS_CardinalityType, FS_Subset
<1>6. z \in Nat
  <2>1. OfflinePercent \in Nat /\ Cardinality(V!Expected(in)) \in Nat
    BY <1>4, FS_CardinalityType DEF V!NetworkVerdictAssumption
  <2> QED
    BY <2>1
<1>7. 100 * x > z
  BY SameVerdictCount DEF V!TooManyOffline
<1>8. V!Cardinality(missing) = y /\ OfflinePercent * V!Cardinality(V!Expected(in)) = z
  BY SameVerdictCount
<1> HIDE DEF x, y, z, missing
<1>9. 100 * y > z
  BY <1>5, <1>6, <1>7
<1> QED
  BY <1>8, <1>9 DEF missing

LEMMA VerdictDecided == ASSUME V!NetworkVerdictAssumption, VerdictInv
                        PROVE  /\ V!TypeOK /\ V!ReassessmentIsEvaluation
                               /\ V!PoorHasGrounds /\ V!GapsCap
<1> USE DEF VerdictInv
<1> DEFINE E == V!Evaluation(obs, inputs)
           P == [p \in V!Pillars |-> V!PillarState(obs, inputs, p)]
<1>1. E.pillars = P /\ E.status = V!Verdict(obs, inputs, E.findings, P)
  BY DEF V!Evaluation, V!Assessment
<1>2. V!TypeOK
  <2>1. E.status \in {"strong", "moderate", "poor", "unknown"}
    BY <1>1 DEF V!Verdict
  <2> QED
    BY <1>1, <2>1 DEF V!TypeOK
<1>3. V!ReassessmentIsEvaluation
  BY DEF V!ReassessmentIsEvaluation
<1>4. V!PoorHasGrounds
  <2> SUFFICES ASSUME assessment # None, E.status = "poor"
               PROVE  \/ V!Failed(obs) # {}
                      \/ obs.complete /\ obs.partition = "split"
                      \/ 100 * V!Cardinality(V!Expected(inputs) \ obs.seen)
                           > OfflinePercent * V!Cardinality(V!Expected(inputs))
                      \/ \E l \in Links :
                            /\ obs.quality[l] = "critical"
                            /\ l \in V!Reported(obs) /\ V!SolePath(obs, l)
    BY SolePathIsOnly DEF V!PoorHasGrounds, V!Failed
  <2>1. PICK f \in E.findings : V!Material(f.rule) /\ f.status = "poor"
    <3>1. "poor" \in {f.status : f \in {g \in E.findings : V!Material(g.rule)}}
      BY <1>1 DEF V!Verdict
    <3> QED
      BY <3>1
  <2>2. Grounds(obs, inputs, f)
    BY <2>1, PoorFindingsHaveGrounds
  <2>3. CASE V!TooManyOffline(obs, inputs)
    BY <2>3, OfflineAreMissing
  <2>4. CASE IsLinkFinding(obs, f) /\ f.rule = "relationship.directional-quality"
    <3>1. f.about \in V!Reported(obs) /\ obs.quality[f.about] = "critical"
          /\ V!SolePath(obs, f.about)
      BY <2>1, <2>4 DEF IsLinkFinding
    <3> QED
      BY <3>1 DEF V!Reported
  <2> QED
    BY <2>2, <2>3, <2>4 DEF Grounds
<1>5. V!GapsCap
  <2> SUFFICES ASSUME assessment # None
               PROVE  /\ \A p \in V!Pillars : P[p] = "sufficient" => obs.complete
                      /\ inputs.roster.state = "unavailable" =>
                            P["availability"] # "sufficient" /\ E.status # "strong"
                      /\ obs.omr.state = "unavailable" =>
                            /\ E.status # "strong"
                            /\ Profiles[obs.profile].border =>
                                  P["externalRouting"] # "sufficient"
    BY <1>1 DEF V!GapsCap
  <2>1. E.status = "strong" => V!ContextComplete(obs, inputs, E.findings)
    BY <1>1 DEF V!Verdict
  <2>2. E.status = "strong" =>
            inputs.roster.state # "unavailable" /\ obs.omr.state # "unavailable"
    BY <2>1 DEF V!ContextComplete
  <2>3. \A p \in V!Pillars : P[p] = V!PillarState(obs, inputs, p)
    OBVIOUS
  <2> HIDE DEF E, P
  <2>4. \A p \in V!Pillars : P[p] = "sufficient" =>
            obs.complete /\ ~V!Limited(obs, inputs, p) /\ V!Supports(obs, p)
    BY <2>3 DEF V!PillarState
  <2>5. "availability" \in V!Pillars /\ "externalRouting" \in V!Pillars
    BY DEF V!Pillars
  <2> QED
    BY <2>2, <2>4, <2>5 DEF V!Limited
<1> QED
  BY <1>2, <1>3, <1>4, <1>5

\* A verdict does not depend on how it was reached, a Poor one has grounds, and no gap in the
\* evidence is overlooked (evaluate_observation and _reassess_network).
THEOREM VerdictsAreSound == Spec => []VerdictSound
<1>1. Init => VerdictInv
  BY VerdictBegins DEF Init
<1>2. VerdictInv /\ [Next]_vars => VerdictInv'
  BY VerdictStep DEF Next, vars
<1>3. VerdictInv => VerdictSound
  BY VerdictDecided, HealthHistoryAssumptions DEF VerdictSound
<1> QED
  BY <1>1, <1>2, <1>3, PTL DEF Spec

-----------------------------------------------------------------------------
(* RosterFacts                                                             *)

LEMMA PairCount == ASSUME NEW v, NEW w, w # v PROVE Cardinality({v} \cup {w}) = 2
<1>1. Cardinality({v}) = 1 /\ IsFiniteSet({v})
  BY FS_Singleton
<1>2. Cardinality({v} \cup {w}) = Cardinality({v}) + 1
  BY <1>1, FS_AddElement
<1> QED
  BY <1>1, <1>2

LEMMA SameFactsCount ==
    \A S : F!Cardinality(S) = Cardinality(S) /\ (F!IsFiniteSet(S) <=> IsFiniteSet(S))
  BY DEF F!Cardinality, Cardinality, F!IsFiniteSet, IsFiniteSet

\* A fact: what one file says of a field of a device.
Stated(g, readings) ==
    /\ g.device \in F!Devices /\ g.field \in F!Fields /\ g.file \in F!Files
    /\ g.file \in {r.file : r \in readings}
    /\ g.values # {} /\ g.values \subseteq {r.value : r \in Offered} /\ IsFiniteSet(g.values)

LEMMA GroupedAreStated ==
    ASSUME F!RosterFactsAssumption, NEW readings \in F!Readings, NEW observed
    PROVE  /\ \A g \in F!Grouped(readings, observed) : Stated(g, readings)
           /\ IsFiniteSet(F!Grouped(readings, observed))
<1> DEFINE told == {q \in readings : q.device \in observed}
           Said(r) == {q.value : q \in {p \in readings : /\ p.device = r.device
                                                        /\ p.field = r.field
                                                        /\ p.file = r.file}}
           Fact(r) == [device |-> r.device, field |-> r.field, file |-> r.file,
                       values |-> Said(r)]
<1>1. F!Grouped(readings, observed) = {Fact(r) : r \in told}
  BY DEF F!Grouped
<1>2. IsFiniteSet(readings) /\ readings \subseteq Offered
  BY SameFactsCount DEF F!Readings
<1>3. ASSUME NEW r \in told PROVE Stated(Fact(r), readings)
  <2>1. r \in Offered /\ r \in readings
    BY <1>2
  <2>2. Said(r) # {} /\ Said(r) \subseteq {q.value : q \in Offered}
    BY <1>2, <2>1
  <2>3. IsFiniteSet(Said(r))
    <3> DEFINE same == {p \in readings : /\ p.device = r.device /\ p.field = r.field
                                         /\ p.file = r.file}
               f == [p \in same |-> p.value]
    <3>1. f \in Surjection(same, Said(r))
      BY DEF Surjection
    <3>2. IsFiniteSet(same)
      BY <1>2, FS_Subset
    <3> QED
      BY <3>1, <3>2, FS_Surjection
  <2> HIDE DEF Said
  <2> QED
    BY <2>1, <2>2, <2>3 DEF Stated, F!RosterFactsAssumption
<1>4. IsFiniteSet({Fact(r) : r \in told})
  <2> DEFINE f == [r \in told |-> Fact(r)]
  <2> HIDE DEF Fact
  <2>1. f \in Surjection(told, {Fact(r) : r \in told})
    BY DEF Surjection
  <2>2. IsFiniteSet(told)
    BY <1>2, FS_Subset
  <2> QED
    BY <2>1, <2>2, FS_Surjection
<1> HIDE DEF Fact, told
<1> QED
  BY <1>1, <1>3, <1>4

\* Of the options, one is the best.
LEMMA BestIsOne ==
    ASSUME NEW options, IsFiniteSet(options), options # {}, NEW dates,
           \A g \in options : /\ Rank[g.field][g.file] \in Nat /\ g.file \in Nat
                              /\ dates[g.file] \in Nat
    PROVE  F!Best(options, dates) \in options
<1> DEFINE Over(g, h) ==
               \/ Rank[g.field][g.file] > Rank[h.field][h.file]
               \/ /\ Rank[g.field][g.file] = Rank[h.field][h.file]
                  /\ \/ dates[g.file] > dates[h.file]
                     \/ dates[g.file] = dates[h.file] /\ g.file >= h.file
           Above(g) == {h \in options : ~Over(g, h)}
<1>1. \A g \in options : Over(g, g)
  OBVIOUS
<1>2. \A g, h, k \in options : ~Over(g, h) /\ ~Over(h, k) => ~Over(g, k)
  OBVIOUS
<1> HIDE DEF Over
<1> DEFINE N == {Cardinality(Above(g)) : g \in options}
<1>3. \A g \in options : IsFiniteSet(Above(g)) /\ Cardinality(Above(g)) \in Nat
  BY FS_Subset, FS_CardinalityType
<1>4. N \in SUBSET Nat /\ N # {}
  BY <1>3
<1>5. PICK n \in N : \A y \in N : ~(y < n)
  BY <1>4, LeastNumber
<1>6. PICK g \in options : n = Cardinality(Above(g))
  BY <1>5
<1>7. Above(g) = {}
  <2> SUFFICES ASSUME NEW h \in Above(g) PROVE FALSE
    OBVIOUS
  <2>1. Above(h) \subseteq Above(g) /\ h \notin Above(h)
    BY <1>1, <1>2
  <2>2. Cardinality(Above(h)) < Cardinality(Above(g))
    <3> HIDE DEF Above
    <3>1. IsFiniteSet(Above(g)) /\ Above(h) \subseteq Above(g) /\ Above(h) # Above(g)
      BY <1>3, <2>1
    <3>2. Cardinality(Above(h)) <= Cardinality(Above(g))
      BY <3>1, FS_Subset
    <3>3. Cardinality(Above(h)) # Cardinality(Above(g))
      BY <3>1, FS_Subset
    <3>4. h \in options
      BY DEF Above
    <3> QED
      BY <1>3, <3>2, <3>3, <3>4
  <2> QED
    BY <1>5, <1>6, <2>2
<1>8. \A h \in options : Over(g, h)
  BY <1>7
<1> QED
  BY <1>8 DEF F!Best, Over

FactsInv ==
    /\ F!TypeOK /\ F!LastKnownUndisputed
    /\ \A d \in F!Devices, f \in F!Fields :
          last[d][f] # None => last[d][f].obs <= ingests /\ last[d][f].time <= time
    /\ \A s \in facts : s.obs \in Nat /\ s.obs <= ingests

\* The next row of a field: of an undisputed candidate that advances what is known.
NextRow(row, o, told, dates, d, f) ==
    /\ ~F!Disputed(told, dates, d, f)
    /\ F!Advances(last[d][f], row)
    /\ \E g \in F!Candidates(told, dates, d, f) :
          row = [value |-> CHOOSE v \in g.values : TRUE, file |-> g.file, obs |-> o,
                 time |-> dates[g.file], policy |-> policy, rank |-> Rank[f][g.file]]

\* The arguments of save_processing_result that an observation can have.
Arguments(observed, readings, dates, complete) ==
    /\ readings \in F!Readings /\ complete \in BOOLEAN
    /\ observed \in {F!Devices, {r.device : r \in readings}}
    /\ dates \in [{r.file : r \in readings} -> (1 .. time) \cup {None}]

LEMMA CandidatesAreDated ==
    ASSUME F!RosterFactsAssumption, FactsInv, NEW readings \in F!Readings, NEW observed,
           NEW dates \in [{r.file : r \in readings} -> (1 .. time) \cup {None}],
           NEW d \in F!Devices, NEW f \in F!Fields
    PROVE  LET told == F!Grouped(readings, observed)
               options == F!Candidates(told, dates, d, f)
           IN  /\ IsFiniteSet(options)
               /\ \A g \in options :
                     /\ g \in told /\ g.device = d /\ g.field = f /\ Stated(g, readings)
                     /\ Rank[f][g.file] \in Nat /\ g.file \in Nat
                     /\ dates[g.file] \in 1 .. time /\ dates[g.file] # None
                     /\ ~F!Contradictory(g)
<1> DEFINE told == F!Grouped(readings, observed)
           options == F!Candidates(told, dates, d, f)
<1>1. IsFiniteSet(told) /\ \A g \in told : Stated(g, readings)
  BY GroupedAreStated
<1>2. options \subseteq told
  BY DEF F!Candidates, F!About
<1>3. IsFiniteSet(options)
  BY <1>1, <1>2, FS_Subset
<1>4. ASSUME NEW g \in options
      PROVE  /\ g \in told /\ g.device = d /\ g.field = f /\ Stated(g, readings)
             /\ Rank[f][g.file] \in Nat /\ g.file \in Nat
             /\ dates[g.file] \in 1 .. time /\ dates[g.file] # None
             /\ ~F!Contradictory(g)
  <2>1. /\ g \in told /\ g.device = d /\ g.field = f /\ dates[g.file] # None
        /\ ~F!Contradictory(g)
    BY DEF F!Candidates, F!About
  <2>2. Stated(g, readings)
    BY <1>1, <2>1
  <2>3. Rank[f][g.file] \in Nat /\ g.file \in Nat
    BY <2>2 DEF Stated, F!RosterFactsAssumption, F!Files
  <2>4. dates[g.file] \in (1 .. time) \cup {None}
    BY <2>2 DEF Stated
  <2> QED
    BY <2>1, <2>2, <2>3, <2>4
<1> QED
  BY <1>3, <1>4

LEMMA KnownIs ==
    ASSUME F!RosterFactsAssumption, FactsInv, NEW readings \in F!Readings, NEW observed,
           NEW dates \in [{r.file : r \in readings} -> (1 .. time) \cup {None}], NEW o,
           NEW d \in F!Devices, NEW f \in F!Fields
    PROVE  LET told == F!Grouped(readings, observed)
               known == F!LastKnown(o, told, dates)
           IN  known[d][f] = last[d][f] \/ NextRow(known[d][f], o, told, dates, d, f)
<1> DEFINE told == F!Grouped(readings, observed)
           options == F!Candidates(told, dates, d, f)
           g == F!Best(options, dates)
           new == [value |-> CHOOSE v \in g.values : TRUE, file |-> g.file, obs |-> o,
                   time |-> dates[g.file], policy |-> policy, rank |-> Rank[f][g.file]]
<1>1. F!LastKnown(o, told, dates)[d][f] =
        IF options # {} /\ ~F!Disputed(told, dates, d, f) /\ F!Advances(last[d][f], new)
        THEN new ELSE last[d][f]
  BY DEF F!LastKnown
<1>2. options # {} => g \in options
  <2>1. IsFiniteSet(options) /\ \A h \in options : /\ Rank[h.field][h.file] \in Nat
                                                   /\ h.file \in Nat /\ dates[h.file] \in Nat
    <3>1. \A x \in 1 .. time : x \in Nat
      OBVIOUS
    <3> QED
      BY <3>1, CandidatesAreDated
  <2> HIDE DEF options
  <2> QED
    BY <2>1, BestIsOne
<1> HIDE DEF g, options, told
<1>3. CASE options # {} /\ ~F!Disputed(told, dates, d, f) /\ F!Advances(last[d][f], new)
  <2>1. g \in F!Candidates(told, dates, d, f)
    BY <1>2, <1>3 DEF options
  <2>2. NextRow(new, o, told, dates, d, f)
    BY <1>3, <2>1 DEF NextRow
  <2> QED
    BY <1>1, <1>3, <2>2 DEF told
<1>4. CASE ~(options # {} /\ ~F!Disputed(told, dates, d, f) /\ F!Advances(last[d][f], new))
  BY <1>1, <1>4 DEF told
<1> QED
  BY <1>3, <1>4

\* The next row is a row, and the fact it is taken from is all that dated sources say.
LEMMA NextRowIs ==
    ASSUME F!RosterFactsAssumption, FactsInv, NEW readings \in F!Readings, NEW observed,
           NEW dates \in [{r.file : r \in readings} -> (1 .. time) \cup {None}],
           NEW o \in 1 .. MaxIngests,
           NEW d \in F!Devices, NEW f \in F!Fields, NEW row,
           NextRow(row, o, F!Grouped(readings, observed), dates, d, f)
    PROVE  LET told == F!Grouped(readings, observed)
               sampled == F!Samples(o, told, dates)
           IN  /\ row \in F!Row /\ row.obs = o /\ row.time <= time
               /\ \E s \in sampled : /\ s.obs = o /\ s.device = d /\ s.field = f
                                  /\ s.file = row.file /\ s.dated /\ s.conflict = "none"
               /\ \A s \in sampled :
                     s.device = d /\ s.field = f /\ s.dated => s.values = {row.value}
<1> DEFINE told == F!Grouped(readings, observed)
           sampled == F!Samples(o, told, dates)
           Sample(g) == [obs |-> o, device |-> g.device, field |-> g.field, file |-> g.file,
                         values |-> g.values, dated |-> dates[g.file] # None,
                         conflict |-> IF F!Contradictory(g) THEN "same-source"
                                      ELSE IF F!Disputed(told, dates, g.device, g.field)
                                           THEN "cross-source" ELSE "none"]
<1>1. PICK g \in F!Candidates(told, dates, d, f) :
          row = [value |-> CHOOSE v \in g.values : TRUE, file |-> g.file, obs |-> o,
                 time |-> dates[g.file], policy |-> policy, rank |-> Rank[f][g.file]]
  BY DEF NextRow
<1>2. ~F!Disputed(told, dates, d, f)
  BY DEF NextRow
<1>3. /\ g \in told /\ g.device = d /\ g.field = f /\ Stated(g, readings)
      /\ Rank[f][g.file] \in Nat /\ dates[g.file] \in 1 .. time /\ dates[g.file] # None
      /\ ~F!Contradictory(g)
  BY <1>1, CandidatesAreDated
<1>4. row.value \in g.values /\ g.values = {row.value}
  <2>1. IsFiniteSet(g.values) /\ g.values # {} /\ ~(Cardinality(g.values) > 1)
    BY <1>3, SameFactsCount DEF Stated, F!Contradictory
  <2>2. row.value \in g.values
    BY <1>1, <2>1
  <2>3. ASSUME NEW v \in g.values, v # row.value PROVE FALSE
    <3>2. Cardinality({v} \cup {row.value}) = 2
      <4>1. ASSUME NEW w, w # v PROVE Cardinality({v} \cup {w}) = 2
        BY <4>1, PairCount
      <4> QED
        BY <2>3, <4>1
    <3>3. {v} \cup {row.value} \subseteq g.values
      BY <2>2
    <3>4. /\ Cardinality({v} \cup {row.value}) <= Cardinality(g.values)
          /\ Cardinality(g.values) \in Nat
      BY <2>1, <3>3, FS_Subset, FS_CardinalityType
    <3> QED
      BY <2>1, <3>2, <3>4
  <2> QED
    BY <2>2, <2>3
<1>5. row \in F!Row /\ row.obs = o /\ row.time <= time
  <2>1. row.value \in {r.value : r \in Offered} /\ g.file \in F!Files
    BY <1>3, <1>4 DEF Stated
  <2>2. time \in 1 .. FactsTime /\ policy \in 1 .. 2
    BY DEF FactsInv, F!TypeOK
  <2>3. FactsTime \in Nat
    BY DEF F!RosterFactsAssumption
  <2>4. dates[g.file] \in 1 .. FactsTime /\ dates[g.file] <= time
    BY <1>3, <2>2, <2>3
  <2>5. (CHOOSE v \in g.values : TRUE) \in {r.value : r \in Offered}
    BY <1>1, <2>1
  <2> QED
    BY <1>1, <1>3, <2>1, <2>2, <2>4, <2>5 DEF F!Row
<1>6. sampled = {Sample(h) : h \in told}
  BY DEF F!Samples
<1>7. \E s \in sampled : /\ s.obs = o /\ s.device = d /\ s.field = f
                      /\ s.file = row.file /\ s.dated /\ s.conflict = "none"
  <2>1. Sample(g) \in sampled
    BY <1>3, <1>6
  <2>2. Sample(g).conflict = "none" /\ Sample(g).dated
    BY <1>2, <1>3
  <2> QED
    BY <1>1, <1>3, <2>1, <2>2
<1>8. ASSUME NEW s \in sampled, s.device = d, s.field = f, s.dated PROVE s.values = {row.value}
  <2>1. PICK h \in told : s = Sample(h)
    BY <1>6
  <2>2. h.device = d /\ h.field = f /\ dates[h.file] # None /\ s.values = h.values
    BY <1>8, <2>1
  <2>3. ~F!Contradictory(h)
    BY <1>2, <2>2 DEF F!Disputed, F!About
  <2>4. h \in F!Candidates(told, dates, d, f)
    BY <2>2, <2>3 DEF F!Candidates, F!About
  <2>5. h.values = g.values
    BY <1>1, <1>2, <2>4 DEF F!Disputed
  <2> QED
    BY <1>4, <2>2, <2>5
<1> QED
  BY <1>5, <1>7, <1>8

\* What saving a result changes.
LEMMA SavedIs ==
    ASSUME F!RosterFactsAssumption, FactsInv, NEW observed, NEW readings, NEW dates, NEW complete,
           Arguments(observed, readings, dates, complete),
           F!Save(observed, readings, dates, complete)
    PROVE  LET o == ingests + 1
               told == F!Grouped(readings, observed)
           IN  /\ o \in 1 .. MaxIngests /\ ingests' = o
               /\ seen' \in [1 .. MaxIngests -> SUBSET F!Devices]
               /\ \A x \in 1 .. ingests :
                     seen'[x] = {} \/ (seen'[x] = seen[x] /\ x > o - FactsRetained)
               /\ whole' \subseteq 1 .. MaxIngests /\ (complete => o \in whole')
               /\ \A x \in whole : x > o - FactsRetained => x \in whole'
               /\ facts' = {s \in facts : s.obs > o - FactsRetained} \cup F!Samples(o, told, dates)
               /\ last' = [d \in F!Devices |-> last'[d]]
               /\ \A d \in F!Devices :
                     /\ last'[d] = [f \in F!Fields |-> last'[d][f]]
                     /\ \A f \in F!Fields :
                           \/ last'[d][f] = None
                           \/ last'[d][f] = last[d][f]
                           \/ complete /\ NextRow(last'[d][f], o, told, dates, d, f)
               /\ UNCHANGED << time, policy, expected >>
<1> DEFINE o == ingests + 1
           told == F!Grouped(readings, observed)
           known == IF complete THEN F!LastKnown(o, told, dates) ELSE last
           presence == [x \in 1 .. MaxIngests |->
                            IF x = o THEN observed
                            ELSE IF x > o - FactsRetained THEN seen[x] ELSE {}]
<1>1. /\ ingests < MaxIngests /\ ingests' = o /\ seen' = presence
      /\ whole' = {x \in whole : x > o - FactsRetained} \cup (IF complete THEN {o} ELSE {})
      /\ facts' = {s \in facts : s.obs > o - FactsRetained} \cup F!Samples(o, told, dates)
      /\ last' = F!Surviving(known, presence)
      /\ UNCHANGED << time, policy, expected >>
  BY DEF F!Save
<1>2. /\ ingests \in Nat /\ MaxIngests \in Nat /\ o \in 1 .. MaxIngests
      /\ seen \in [1 .. MaxIngests -> SUBSET F!Devices] /\ whole \subseteq 1 .. MaxIngests
      /\ last \in [F!Devices -> [F!Fields -> F!Row \cup {None}]]
  BY <1>1 DEF FactsInv, F!TypeOK, F!RosterFactsAssumption
<1>3. observed \in SUBSET F!Devices
  BY DEF Arguments, F!Readings, F!RosterFactsAssumption
<1>4. /\ seen' \in [1 .. MaxIngests -> SUBSET F!Devices]
      /\ \A x \in 1 .. ingests :
            seen'[x] = {} \/ (seen'[x] = seen[x] /\ x > o - FactsRetained)
  <2>1. presence \in [1 .. MaxIngests -> SUBSET F!Devices]
    BY <1>2, <1>3
  <2>2. ASSUME NEW x \in 1 .. ingests
        PROVE  presence[x] = {} \/ (presence[x] = seen[x] /\ x > o - FactsRetained)
    <3>1. x \in 1 .. MaxIngests /\ x # o
      BY <1>1, <1>2
    <3> QED
      BY <3>1
  <2> QED
    BY <1>1, <2>1, <2>2
<1>5. /\ whole' \subseteq 1 .. MaxIngests /\ (complete => o \in whole')
      /\ \A x \in whole : x > o - FactsRetained => x \in whole'
  BY <1>1, <1>2
<1>6. ASSUME NEW d \in F!Devices
      PROVE  known[d] = [f \in F!Fields |-> known[d][f]]
  BY <1>2 DEF F!LastKnown
<1>7. ASSUME NEW d \in F!Devices, NEW f \in F!Fields
      PROVE  \/ known[d][f] = last[d][f]
             \/ complete /\ NextRow(known[d][f], o, told, dates, d, f)
  BY KnownIs DEF Arguments
<1> HIDE DEF known, presence
<1>8. last' = [d \in F!Devices |-> last'[d]]
  BY <1>1 DEF F!Surviving
<1>9. ASSUME NEW d \in F!Devices
      PROVE  last'[d] = known[d] \/ last'[d] = [f \in F!Fields |-> None]
  BY <1>1 DEF F!Surviving
<1>10. ASSUME NEW d \in F!Devices
       PROVE  /\ last'[d] = [f \in F!Fields |-> last'[d][f]]
              /\ \A f \in F!Fields :
                    \/ last'[d][f] = None
                    \/ last'[d][f] = last[d][f]
                    \/ complete /\ NextRow(last'[d][f], o, told, dates, d, f)
  <2>1. CASE last'[d] = known[d]
    BY <1>6, <1>7, <2>1
  <2>2. CASE last'[d] = [f \in F!Fields |-> None]
    BY <2>2
  <2> QED
    BY <1>9, <2>1, <2>2
<1> QED
  BY <1>1, <1>2, <1>4, <1>5, <1>8, <1>10

\* A conflict is of two devices.
LEMMA ConflictsAreOfTwo ==
    ASSUME F!RosterFactsAssumption, NEW known, NEW c \in F!AliasConflicts(known)
    PROVE  /\ c.device \in F!Devices /\ c.field \in Aliases
           /\ c.value = known[c.device][c.field].value
           /\ c.other \in F!Colliding(known, c.device, c.field)
           /\ c.other \in F!Devices \ {c.device}
<1> DEFINE Least(d, f) == CHOOSE e \in F!Colliding(known, d, f) :
                              \A x \in F!Colliding(known, d, f) : e <= x
<1>1. PICK f \in Aliases, d \in F!Devices :
          /\ F!Colliding(known, d, f) # {}
          /\ c = [device |-> d, field |-> f, value |-> known[d][f].value, other |-> Least(d, f)]
  BY DEF F!AliasConflicts
<1>2. F!Colliding(known, d, f) \subseteq F!Devices \ {d}
  BY DEF F!Colliding
<1>3. Least(d, f) \in F!Colliding(known, d, f)
  <2>1. F!Colliding(known, d, f) \in SUBSET Nat
    BY <1>2 DEF F!Devices, F!RosterFactsAssumption
  <2>2. \E e \in F!Colliding(known, d, f) : \A x \in F!Colliding(known, d, f) : ~(x < e)
    BY <1>1, <2>1, LeastNumber
  <2>3. \E e \in F!Colliding(known, d, f) : \A x \in F!Colliding(known, d, f) : e <= x
    BY <2>1, <2>2
  <2> QED
    BY <2>3
<1> HIDE DEF Least
<1> QED
  BY <1>1, <1>2, <1>3

LEMMA SaveKeeps ==
    ASSUME F!RosterFactsAssumption, FactsInv, NEW observed, NEW readings, NEW dates, NEW complete,
           Arguments(observed, readings, dates, complete),
           F!Save(observed, readings, dates, complete)
    PROVE  FactsInv'
<1> DEFINE o == ingests + 1
           told == F!Grouped(readings, observed)
           sampled == F!Samples(o, told, dates)
<1>1. /\ o \in 1 .. MaxIngests /\ ingests' = o
      /\ seen' \in [1 .. MaxIngests -> SUBSET F!Devices]
      /\ \A x \in 1 .. ingests :
            seen'[x] = {} \/ (seen'[x] = seen[x] /\ x > o - FactsRetained)
      /\ whole' \subseteq 1 .. MaxIngests /\ (complete => o \in whole')
      /\ \A x \in whole : x > o - FactsRetained => x \in whole'
      /\ facts' = {s \in facts : s.obs > o - FactsRetained} \cup sampled
      /\ last' = [d \in F!Devices |-> last'[d]]
      /\ \A d \in F!Devices :
            /\ last'[d] = [f \in F!Fields |-> last'[d][f]]
            /\ \A f \in F!Fields :
                  \/ last'[d][f] = None
                  \/ last'[d][f] = last[d][f]
                  \/ complete /\ NextRow(last'[d][f], o, told, dates, d, f)
      /\ UNCHANGED << time, policy, expected >>
  BY SavedIs
<1>2. \A s \in sampled : s.obs = o
  BY DEF F!Samples
<1>3. ASSUME NEW d \in F!Devices, NEW f \in F!Fields
      PROVE  \/ last'[d][f] = None
             \/ /\ last'[d][f] = last[d][f] /\ last[d][f] \in F!Row
                /\ last[d][f].obs \in 1 .. ingests /\ last[d][f].time <= time
             \/ /\ complete
                /\ last'[d][f] \in F!Row /\ last'[d][f].obs = o /\ last'[d][f].time <= time
                /\ \E s \in sampled : /\ s.obs = o /\ s.device = d /\ s.field = f
                                      /\ s.file = last'[d][f].file /\ s.dated
                                      /\ s.conflict = "none"
                /\ \A s \in sampled : s.device = d /\ s.field = f /\ s.dated
                                      => s.values = {last'[d][f].value}
  <2>1. CASE complete /\ NextRow(last'[d][f], o, told, dates, d, f)
    <3> DEFINE row == last'[d][f]
    <3>1. NextRow(row, o, told, dates, d, f)
      BY <2>1
    <3>2. readings \in F!Readings
          /\ dates \in [{r.file : r \in readings} -> (1 .. time) \cup {None}]
      BY DEF Arguments
    <3> HIDE DEF row
    <3>3. /\ row \in F!Row /\ row.obs = o /\ row.time <= time
          /\ \E s \in sampled : /\ s.obs = o /\ s.device = d /\ s.field = f
                                /\ s.file = row.file /\ s.dated /\ s.conflict = "none"
          /\ \A s \in sampled : s.device = d /\ s.field = f /\ s.dated => s.values = {row.value}
      BY <1>1, <3>1, <3>2, NextRowIs
    <3> QED
      BY <2>1, <3>3 DEF row
  <2>2. CASE last'[d][f] = last[d][f] /\ last'[d][f] # None
    <3>1. last[d][f] \in F!Row
      BY <2>2 DEF FactsInv, F!TypeOK
    <3>2. last[d][f].obs <= ingests /\ last[d][f].time <= time /\ last[d][f].obs \in 1 .. MaxIngests
      BY <2>2, <3>1 DEF FactsInv, F!Row
    <3>3. ingests \in Nat /\ MaxIngests \in Nat
      BY DEF FactsInv, F!TypeOK, F!RosterFactsAssumption
    <3> QED
      BY <2>2, <3>1, <3>2, <3>3
  <2> QED
    BY <1>1, <2>1, <2>2
<1> HIDE DEF told, sampled
<1>4. o \in Nat /\ ingests \in Nat /\ ingests < o /\ ingests \in 0 .. MaxIngests /\ time' = time
  BY <1>1 DEF FactsInv, F!TypeOK, F!RosterFactsAssumption
<1>5. F!TypeOK'
  <2>1. last' \in [F!Devices -> [F!Fields -> F!Row \cup {None}]]
    <3>1. ASSUME NEW d \in F!Devices, NEW f \in F!Fields PROVE last'[d][f] \in F!Row \cup {None}
      BY <1>3
    <3>2. \A d \in F!Devices : last'[d] \in [F!Fields -> F!Row \cup {None}]
      BY <1>1, <3>1
    <3> QED
      BY <1>1, <3>2
  <2>2. \A c \in conflicts' : c.device \in F!Devices /\ c.other \in F!Devices \ {c.device}
    <3>1. \E known : conflicts' \subseteq F!AliasConflicts(known) \cup conflicts
      BY DEF F!Save, F!Grounded
    <3> QED
      BY <3>1, ConflictsAreOfTwo DEF FactsInv, F!TypeOK
  <2>3. ingests' \in 0 .. MaxIngests
    BY <1>1
  <2> QED
    BY <1>1, <2>1, <2>2, <2>3 DEF FactsInv, F!TypeOK
<1>6. \A d \in F!Devices, f \in F!Fields :
         last'[d][f] # None => last'[d][f].obs <= ingests' /\ last'[d][f].time <= time'
  BY <1>1, <1>3, <1>4
<1>7. \A s \in facts' : s.obs \in Nat /\ s.obs <= ingests'
  BY <1>1, <1>2, <1>4 DEF FactsInv
<1>8. F!LastKnownUndisputed'
  <2> SUFFICES ASSUME NEW d \in F!Devices, NEW f \in F!Fields,
                      last'[d][f] # None, d \in seen'[last'[d][f].obs]
               PROVE  /\ last'[d][f].obs \in whole'
                      /\ \E s \in facts' :
                            /\ s.obs = last'[d][f].obs /\ s.device = d /\ s.field = f
                            /\ s.file = last'[d][f].file /\ s.dated /\ s.conflict = "none"
                      /\ \A s \in facts' :
                            s.obs = last'[d][f].obs /\ s.device = d /\ s.field = f /\ s.dated
                            => s.values = {last'[d][f].value}
    BY DEF F!LastKnownUndisputed
  <2>1. CASE /\ last'[d][f] = last[d][f]
             /\ last[d][f].obs \in 1 .. ingests
    <3> DEFINE r == last[d][f]
    <3>1. d \in seen[r.obs] /\ r.obs > o - FactsRetained /\ r # None
      BY <1>1, <2>1
    <3>2. /\ r.obs \in whole
          /\ \E s \in facts : /\ s.obs = r.obs /\ s.device = d /\ s.field = f
                              /\ s.file = r.file /\ s.dated /\ s.conflict = "none"
          /\ \A s \in facts : s.obs = r.obs /\ s.device = d /\ s.field = f /\ s.dated
                              => s.values = {r.value}
      BY <3>1 DEF FactsInv, F!LastKnownUndisputed
    <3>3. \A s \in sampled : s.obs # r.obs
      BY <1>2, <1>4, <2>1
    <3> HIDE DEF r
    <3>4. r.obs \in whole'
      BY <1>1, <3>1, <3>2
    <3>5. \E s \in facts' : /\ s.obs = r.obs /\ s.device = d /\ s.field = f
                            /\ s.file = r.file /\ s.dated /\ s.conflict = "none"
      BY <1>1, <3>1, <3>2
    <3>6. \A s \in facts' : s.obs = r.obs /\ s.device = d /\ s.field = f /\ s.dated
                            => s.values = {r.value}
      BY <1>1, <3>2, <3>3
    <3> QED
      BY <2>1, <3>4, <3>5, <3>6 DEF r
  <2>2. CASE /\ complete /\ last'[d][f].obs = o
             /\ \E s \in sampled : /\ s.obs = o /\ s.device = d /\ s.field = f
                                   /\ s.file = last'[d][f].file /\ s.dated
                                   /\ s.conflict = "none"
             /\ \A s \in sampled : s.device = d /\ s.field = f /\ s.dated
                                   => s.values = {last'[d][f].value}
    <3>1. \A s \in facts : s.obs # o
      BY <1>4 DEF FactsInv
    <3> QED
      BY <1>1, <2>2, <3>1
  <2> QED
    BY <1>3, <2>1, <2>2
<1> QED
  BY <1>5, <1>6, <1>7, <1>8 DEF FactsInv

LEMMA PurgeKeeps ==
    ASSUME F!RosterFactsAssumption, FactsInv, NEW p \in F!Devices, F!Purge(p)
    PROVE  FactsInv'
<1> DEFINE left == [last EXCEPT ![p] = [f \in F!Fields |-> None]]
<1>1. /\ expected' = [expected EXCEPT ![p] = None]
      /\ seen' = [x \in 1 .. MaxIngests |-> seen[x] \ {p}]
      /\ facts' = {s \in facts : s.device # p}
      /\ last' = F!Surviving(left, seen')
      /\ conflicts' \subseteq conflicts
      /\ UNCHANGED << time, policy, ingests, whole >>
  BY DEF F!Purge, F!Grounded
<1>2. /\ seen \in [1 .. MaxIngests -> SUBSET F!Devices]
      /\ last \in [F!Devices -> [F!Fields -> F!Row \cup {None}]]
      /\ expected \in [F!Devices -> Labels \cup {None}]
  BY DEF FactsInv, F!TypeOK
<1>3. ASSUME NEW d \in F!Devices
      PROVE  \/ d # p /\ last'[d] = last[d]
             \/ last'[d] = [f \in F!Fields |-> None]
  <2>1. last'[d] = left[d] \/ last'[d] = [f \in F!Fields |-> None]
    BY <1>1 DEF F!Surviving
  <2>2. left[d] = IF d = p THEN [f \in F!Fields |-> None] ELSE last[d]
    BY <1>2
  <2> QED
    BY <2>1, <2>2
<1>4. last' \in [F!Devices -> [F!Fields -> F!Row \cup {None}]]
  <2>1. last' = [d \in F!Devices |-> last'[d]]
    BY <1>1 DEF F!Surviving
  <2>2. ASSUME NEW d \in F!Devices PROVE last'[d] \in [F!Fields -> F!Row \cup {None}]
    BY <1>2, <1>3
  <2> QED
    BY <2>1, <2>2
<1>5. ASSUME NEW d \in F!Devices, NEW f \in F!Fields, last'[d][f] # None
      PROVE  d # p /\ last'[d][f] = last[d][f] /\ last[d][f] \in F!Row
  BY <1>2, <1>3, <1>5
<1>6. F!TypeOK'
  BY <1>1, <1>2, <1>4 DEF FactsInv, F!TypeOK
<1>7. F!LastKnownUndisputed'
  <2> SUFFICES ASSUME NEW d \in F!Devices, NEW f \in F!Fields,
                      last'[d][f] # None, d \in seen'[last'[d][f].obs]
               PROVE  /\ last'[d][f].obs \in whole'
                      /\ \E s \in facts' :
                            /\ s.obs = last'[d][f].obs /\ s.device = d /\ s.field = f
                            /\ s.file = last'[d][f].file /\ s.dated /\ s.conflict = "none"
                      /\ \A s \in facts' :
                            s.obs = last'[d][f].obs /\ s.device = d /\ s.field = f /\ s.dated
                            => s.values = {last'[d][f].value}
    BY DEF F!LastKnownUndisputed
  <2>1. d # p /\ last'[d][f] = last[d][f] /\ last[d][f].obs \in 1 .. MaxIngests
    BY <1>5 DEF F!Row
  <2>2. d \in seen[last[d][f].obs] /\ last[d][f] # None
    BY <1>1, <2>1
  <2>3. /\ last[d][f].obs \in whole
        /\ \E s \in facts :
              /\ s.obs = last[d][f].obs /\ s.device = d /\ s.field = f
              /\ s.file = last[d][f].file /\ s.dated /\ s.conflict = "none"
        /\ \A s \in facts :
              s.obs = last[d][f].obs /\ s.device = d /\ s.field = f /\ s.dated
              => s.values = {last[d][f].value}
    BY <2>2 DEF FactsInv, F!LastKnownUndisputed
  <2> QED
    BY <1>1, <2>1, <2>3
<1> QED
  BY <1>1, <1>5, <1>6, <1>7 DEF FactsInv

LEMMA FactsBegin == ASSUME F!RosterFactsAssumption, F!Init PROVE FactsInv
<1> USE DEF F!Init
<1>1. 1 \in 1 .. FactsTime /\ ingests \in 0 .. MaxIngests
  BY DEF F!RosterFactsAssumption
<1>2. \A d \in F!Devices, f \in F!Fields : last[d][f] = None
  OBVIOUS
<1>3. F!TypeOK
  BY <1>1 DEF F!TypeOK
<1> QED
  BY <1>2, <1>3 DEF FactsInv, F!LastKnownUndisputed

LEMMA FactsStep == ASSUME F!RosterFactsAssumption, FactsInv, F!Next \/ UNCHANGED factsVars
                   PROVE  FactsInv'
<1>1. ASSUME NEW readings \in F!Readings, NEW complete \in BOOLEAN,
             NEW observed \in {F!Devices, {r.device : r \in readings}},
             NEW dates \in [{r.file : r \in readings} -> (1 .. time) \cup {None}],
             F!Save(observed, readings, dates, complete)
      PROVE  FactsInv'
  BY <1>1, SaveKeeps DEF Arguments
<1>2. ASSUME NEW d \in F!Devices, F!Purge(d) PROVE FactsInv'
  BY <1>2, PurgeKeeps
<1>3. ASSUME NEW d \in F!Devices, NEW label \in Labels, F!Expect(d, label) PROVE FactsInv'
  BY <1>3 DEF F!Expect, FactsInv, F!TypeOK, F!LastKnownUndisputed
<1>4. CASE F!Tick
  <2>1. /\ time \in 1 .. FactsTime /\ FactsTime \in Nat /\ time < FactsTime /\ time' = time + 1
        /\ UNCHANGED << policy, ingests, seen, whole, facts, last, conflicts, expected >>
    BY <1>4 DEF F!Tick, FactsInv, F!TypeOK, F!RosterFactsAssumption
  <2>2. time' \in 1 .. FactsTime
    BY <2>1
  <2>3. F!TypeOK' /\ F!LastKnownUndisputed'
    BY <2>1, <2>2 DEF FactsInv, F!TypeOK, F!LastKnownUndisputed
  <2>4. ASSUME NEW d \in F!Devices, NEW f \in F!Fields, last[d][f] # None
        PROVE  last[d][f].time <= time + 1
    <3>1. last[d][f].time \in 1 .. FactsTime /\ last[d][f].time <= time
      BY <2>4 DEF FactsInv, F!TypeOK, F!Row
    <3> QED
      BY <2>1, <3>1
  <2> QED
    BY <2>1, <2>3, <2>4 DEF FactsInv
<1>5. CASE F!ChangePolicy
  BY <1>5 DEF F!ChangePolicy, FactsInv, F!TypeOK, F!LastKnownUndisputed
<1>6. CASE UNCHANGED factsVars
  BY <1>6 DEF factsVars, FactsInv, F!TypeOK, F!LastKnownUndisputed
<1> QED
  BY <1>1, <1>2, <1>3, <1>4, <1>5, <1>6 DEF F!Next

LEMMA FactsDecided == ASSUME F!RosterFactsAssumption, FactsInv
                      PROVE  F!CollisionsAreReal /\ F!NamesApart
<1>1. F!CollisionsAreReal
  <2> SUFFICES ASSUME NEW d \in F!Devices, NEW f \in Aliases, F!ShownConflict(d, f)
               PROVE  \E e \in F!Devices \ {d} :
                         /\ last[e][f] # None /\ last[e][f].value = last[d][f].value
                         /\ \A x \in {d, e} : /\ F!Age(last[x][f]) <= Window
                                              /\ F!NotExpired(f, last[x][f])
    BY DEF F!CollisionsAreReal
  <2>1. PICK c \in conflicts :
            /\ c.device = d /\ c.field = f
            /\ last[d][f] # None /\ F!Fresh(f, last[d][f]) /\ last[d][f].value = c.value
            /\ F!Age(last[d][f]) <= Window
            /\ last[c.other][f] # None /\ last[c.other][f].value = c.value
            /\ F!Age(last[c.other][f]) <= Window /\ F!NotExpired(f, last[c.other][f])
    BY DEF F!ShownConflict
  <2>2. c.other \in F!Devices \ {d}
    BY <2>1 DEF FactsInv, F!TypeOK
  <2> QED
    BY <2>1, <2>2 DEF F!Fresh
<1>2. F!NamesApart
  <2> SUFFICES ASSUME NEW d \in F!Listed, NEW e \in F!Listed, d # e, F!LabelOf(d) # None,
                      F!LabelOf(d) = F!LabelOf(e)
               PROVE  F!Suffixed(d, {d}) /\ F!Suffixed(d, {d, e}) /\ F!Suffixed(d, F!Listed)
    BY DEF F!NamesApart
  <2>1. F!Suffixed(d, {d, e}) /\ F!Suffixed(d, F!Listed)
    BY DEF F!Suffixed
  <2>2. e \in F!Devices \ {x \in {d} : F!LabelOf(x) = F!LabelOf(d)} /\ F!HasRow(e)
    BY DEF F!Listed, F!HasRow
  <2>3. Static[e] = F!LabelOf(d) \/ e \in F!Namesakes(F!LabelOf(d))
    BY DEF F!LabelOf, F!Namesakes
  <2> QED
    BY <2>1, <2>2, <2>3 DEF F!Suffixed
<1> QED
  BY <1>1, <1>2

\* What is last known of a device is undisputed, the alias collisions that are shown are
\* real, and devices of one name are told apart (_insert_roster_facts, _roster_projection and
\* _disambiguate_roster_labels).
THEOREM FactsAreSound == Spec => []FactsSound
<1>1. Init => FactsInv
  BY FactsBegin, HealthHistoryAssumptions DEF Init
<1>2. FactsInv /\ [Next]_vars => FactsInv'
  BY FactsStep, HealthHistoryAssumptions DEF Next, vars
<1>3. FactsInv => FactsSound
  BY FactsDecided, HealthHistoryAssumptions DEF FactsSound, FactsInv
<1> QED
  BY <1>1, <1>2, <1>3, PTL DEF Spec

\* A step that is not the saving of a result ingests nothing, and changes no row but to None.
LEMMA OthersOnlyForget ==
    ASSUME F!RosterFactsAssumption, FactsInv, F!Next \/ UNCHANGED factsVars,
           ~\E observed, readings, dates, complete :
               /\ Arguments(observed, readings, dates, complete)
               /\ F!Save(observed, readings, dates, complete)
    PROVE  /\ ingests' = ingests
           /\ \A d \in F!Devices, f \in F!Fields :
                 last'[d][f] = None \/ last'[d][f] = last[d][f]
<1>1. ASSUME NEW p \in F!Devices, F!Purge(p)
      PROVE  /\ ingests' = ingests
             /\ \A d \in F!Devices, f \in F!Fields :
                   last'[d][f] = None \/ last'[d][f] = last[d][f]
  <2> DEFINE left == [last EXCEPT ![p] = [f \in F!Fields |-> None]]
  <2>1. ingests' = ingests /\ last' = F!Surviving(left, seen')
    BY <1>1 DEF F!Purge
  <2>2. ASSUME NEW d \in F!Devices, NEW f \in F!Fields
        PROVE  left[d][f] = None \/ left[d][f] = last[d][f]
    BY DEF FactsInv, F!TypeOK
  <2> HIDE DEF left
  <2> QED
    BY <2>1, <2>2 DEF F!Surviving
<1>2. ASSUME NEW d \in F!Devices, NEW label \in Labels, F!Expect(d, label)
      PROVE  ingests' = ingests /\ last' = last
  BY <1>2 DEF F!Expect
<1>3. CASE F!Tick \/ F!ChangePolicy \/ UNCHANGED factsVars
  BY <1>3 DEF F!Tick, F!ChangePolicy, factsVars
<1>4. ~\E readings \in F!Readings, complete \in BOOLEAN :
          \E observed \in {F!Devices, {r.device : r \in readings}},
             dates \in [{r.file : r \in readings} -> (1 .. time) \cup {None}] :
              F!Save(observed, readings, dates, complete)
  BY DEF Arguments
<1> QED
  BY <1>1, <1>2, <1>3, <1>4 DEF F!Next

LEMMA FactsGoForward ==
    ASSUME F!RosterFactsAssumption, FactsInv, F!Next \/ UNCHANGED factsVars PROVE F!Advance
<1> SUFFICES ASSUME NEW d \in F!Devices, NEW f \in F!Fields, last[d][f] # None,
                    last'[d][f] # None, last'[d][f] # last[d][f]
             PROVE  /\ last'[d][f].rank >= last[d][f].rank
                    /\ \/ last'[d][f].time > last[d][f].time
                       \/ /\ last'[d][f].time = last[d][f].time
                          /\ last'[d][f].file # last[d][f].file
  BY DEF F!Advance, F!Known
<1>1. PICK observed, readings, dates, complete :
          /\ Arguments(observed, readings, dates, complete)
          /\ F!Save(observed, readings, dates, complete)
  BY OthersOnlyForget
<1> DEFINE row == last'[d][f]
           told == F!Grouped(readings, observed)
<1>2. NextRow(row, ingests + 1, told, dates, d, f)
  BY <1>1, SavedIs
<1>3. F!Advances(last[d][f], row)
  BY <1>2 DEF NextRow
<1>4. row.rank \in Nat /\ last[d][f].rank \in Nat
  <2>1. last[d][f] \in F!Row
    BY DEF FactsInv, F!TypeOK
  <2>2. row \in F!Row
    <3>1. FactsInv'
      BY <1>1, SaveKeeps
    <3> QED
      BY <3>1 DEF FactsInv, F!TypeOK
  <2> QED
    BY <2>1, <2>2 DEF F!Row
<1> HIDE DEF row
<1>5. row.rank >= last[d][f].rank
  BY <1>3, <1>4 DEF F!Advances
<1>6. \/ row.time > last[d][f].time
      \/ row.time = last[d][f].time /\ row.file # last[d][f].file
  BY <1>3 DEF F!Advances
<1> QED
  BY <1>5, <1>6 DEF row

\* What saving the result of a complete observation leaves of the rows and of the conflicts.
LEMMA CompleteSavedIs ==
    ASSUME F!RosterFactsAssumption, FactsInv, NEW observed, NEW readings, NEW dates,
           Arguments(observed, readings, dates, TRUE),
           F!Save(observed, readings, dates, TRUE), readings # {}
    PROVE  LET o == ingests + 1
               told == F!Grouped(readings, observed)
               known == F!LastKnown(o, told, dates)
           IN  /\ conflicts' = F!Grounded(last', F!AliasConflicts(known))
               /\ \A d \in F!Devices :
                     \/ last'[d] = known[d]
                     \/ d \notin observed /\ last'[d] = [f \in F!Fields |-> None]
               /\ \A d \in F!Devices, f \in F!Fields :
                     \/ known[d][f] = last[d][f]
                     \/ d \in observed /\ NextRow(known[d][f], o, told, dates, d, f)
<1> DEFINE o == ingests + 1
           told == F!Grouped(readings, observed)
           known == F!LastKnown(o, told, dates)
           presence == [x \in 1 .. MaxIngests |->
                            IF x = o THEN observed
                            ELSE IF x > o - FactsRetained THEN seen[x] ELSE {}]
<1>1. /\ last' = F!Surviving(known, presence)
      /\ conflicts' = F!Grounded(last', F!AliasConflicts(known))
  BY DEF F!Save
<1>2. o \in 1 .. MaxIngests
  BY SavedIs
<1>3. ASSUME NEW d \in F!Devices
      PROVE  \/ last'[d] = known[d]
             \/ d \notin observed /\ last'[d] = [f \in F!Fields |-> None]
  <2>1. d \in observed => F!Kept(presence, d)
    BY <1>2 DEF F!Kept
  <2> HIDE DEF presence, known
  <2> QED
    BY <1>1, <2>1 DEF F!Surviving
<1>4. ASSUME NEW d \in F!Devices, NEW f \in F!Fields
      PROVE  \/ known[d][f] = last[d][f]
             \/ d \in observed /\ NextRow(known[d][f], o, told, dates, d, f)
  <2>1. known[d][f] = last[d][f] \/ NextRow(known[d][f], o, told, dates, d, f)
    BY KnownIs DEF Arguments
  <2>2. ASSUME NEW row, NextRow(row, o, told, dates, d, f) PROVE d \in observed
    <3>1. PICK g \in F!Candidates(told, dates, d, f) : TRUE
      BY <2>2 DEF NextRow
    <3>2. g \in told /\ g.device = d
      BY <3>1 DEF F!Candidates, F!About
    <3> QED
      BY <3>2 DEF F!Grouped
  <2> HIDE DEF known, told
  <2> QED
    BY <2>1, <2>2
<1> QED
  BY <1>1, <1>3, <1>4

\* A device that collides with another one is among the conflicts.
LEMMA CollidingIsListed ==
    ASSUME NEW known, NEW d \in F!Devices, NEW f \in Aliases, F!Colliding(known, d, f) # {}
    PROVE  \E c \in F!AliasConflicts(known) : c.device = d /\ c.field = f
<1> DEFINE conflict(x, g) ==
               [device |-> x, field |-> g, value |-> known[x][g].value,
                other |-> CHOOSE e \in F!Colliding(known, x, g) :
                              \A y \in F!Colliding(known, x, g) : e <= y]
           Of(g) == {conflict(x, g) : x \in {y \in F!Devices : F!Colliding(known, y, g) # {}}}
<1>1. conflict(d, f).device = d /\ conflict(d, f).field = f
  OBVIOUS
<1>2. F!AliasConflicts(known) = UNION {Of(g) : g \in Aliases}
  BY DEF F!AliasConflicts
<1> HIDE DEF conflict
<1>3. conflict(d, f) \in Of(f)
  OBVIOUS
<1> HIDE DEF Of
<1> QED
  BY <1>1, <1>2, <1>3

LEMMA FactsAreMarked ==
    ASSUME F!RosterFactsAssumption, FactsInv, F!Next \/ UNCHANGED factsVars PROVE F!Marks
<1> SUFFICES ASSUME last' # last, ingests' # ingests, F!NoneForgotten PROVE F!AllMarked'
  BY DEF F!Marks
<1>1. PICK observed, readings, dates, complete :
          /\ Arguments(observed, readings, dates, complete)
          /\ F!Save(observed, readings, dates, complete)
  BY OthersOnlyForget
<1> DEFINE o == ingests + 1
           told == F!Grouped(readings, observed)
           known == F!LastKnown(o, told, dates)
<1>2. \A d \in F!Devices, f \in F!Fields : last[d][f] # None => last'[d][f] # None
  BY DEF F!NoneForgotten, F!Known
<1>3. complete = TRUE /\ readings # {}
  <2>1. PICK d \in F!Devices, f \in F!Fields : last'[d][f] # last[d][f]
    <3>1. /\ last' = [d \in F!Devices |-> last'[d]]
          /\ \A d \in F!Devices : last'[d] = [f \in F!Fields |-> last'[d][f]]
      BY <1>1, SavedIs
    <3>2. /\ last = [d \in F!Devices |-> last[d]]
          /\ \A d \in F!Devices : last[d] = [f \in F!Fields |-> last[d][f]]
      BY DEF FactsInv, F!TypeOK
    <3>3. ASSUME \A d \in F!Devices, f \in F!Fields : last'[d][f] = last[d][f] PROVE FALSE
      <4>1. \A d \in F!Devices : last'[d] = last[d]
        BY <3>1, <3>2, <3>3
      <4> QED
        BY <3>1, <3>2, <4>1
    <3> QED
      BY <3>3
  <2>2. complete /\ NextRow(last'[d][f], o, told, dates, d, f)
    BY <1>1, <1>2, <2>1, SavedIs
  <2>3. PICK g \in told : TRUE
    BY <2>2 DEF NextRow, F!Candidates, F!About
  <2>4. readings # {}
    BY <2>3 DEF F!Grouped
  <2> QED
    BY <1>1, <2>2, <2>4 DEF Arguments
<1>4. /\ conflicts' = F!Grounded(last', F!AliasConflicts(known))
      /\ \A d \in F!Devices :
            \/ last'[d] = known[d]
            \/ d \notin observed /\ last'[d] = [f \in F!Fields |-> None]
      /\ \A d \in F!Devices, f \in F!Fields :
            known[d][f] = last[d][f] \/ d \in observed
  <2>1. Arguments(observed, readings, dates, TRUE) /\ F!Save(observed, readings, dates, TRUE)
    BY <1>1, <1>3
  <2> HIDE DEF known, told, o
  <2>2. /\ conflicts' = F!Grounded(last', F!AliasConflicts(known))
        /\ \A d \in F!Devices :
              \/ last'[d] = known[d]
              \/ d \notin observed /\ last'[d] = [f \in F!Fields |-> None]
        /\ \A d \in F!Devices, f \in F!Fields :
              \/ known[d][f] = last[d][f]
              \/ d \in observed /\ NextRow(known[d][f], o, told, dates, d, f)
    BY <1>3, <2>1, CompleteSavedIs DEF known, told, o
  <2> QED
    BY <2>2
<1>5. FactsInv' /\ time' = time /\ policy' = policy
  BY <1>1, SaveKeeps, SavedIs
<1> HIDE DEF known, told, o
\* what is known survives, as nothing is forgotten
<1>6. ASSUME NEW d \in F!Devices, NEW f \in F!Fields PROVE last'[d][f] = known[d][f]
  <2>1. CASE last'[d] = known[d]
    BY <2>1
  <2>2. CASE d \notin observed /\ last'[d] = [g \in F!Fields |-> None]
    BY <1>2, <1>4, <2>2
  <2> QED
    BY <1>4, <2>1, <2>2
<1> SUFFICES ASSUME NEW d \in F!Devices, NEW e \in F!Devices, NEW f \in Aliases, d # e,
                    F!Shared(d, e, f)',
                    \A x \in F!Devices : F!Shared(d, x, f)' => F!Age(last[x][f])' <= Window
             PROVE  F!ShownConflict(d, f)'
  BY DEF F!AllMarked
<1> DEFINE Same(x) ==
               /\ known[x][f] # None /\ known[x][f].value = known[d][f].value
               /\ known[x][f].policy = policy /\ F!NotExpired(f, known[x][f])
<1>7. f \in F!Fields /\ \A x \in F!Devices : last'[x][f] = known[x][f]
  BY <1>6 DEF F!Fields
<1>8. ASSUME NEW x \in F!Devices, Same(d), Same(x)
      PROVE  F!Age(known[x][f]) <= Window /\ F!Age(last[x][f])' <= Window
  <2>1. F!Shared(d, x, f)'
    BY <1>5, <1>7, <1>8 DEF F!Shared, F!Known, F!Fresh, F!NotExpired, F!Age
  <2>2. F!Age(last[x][f])' <= Window
    BY <2>1
  <2> QED
    BY <1>5, <1>7, <2>2 DEF F!Age
<1>9. Same(d) /\ Same(e)
  BY <1>5, <1>7 DEF F!Shared, F!Known, F!Fresh, F!NotExpired, F!Age
<1>10. \A x \in F!Devices :
           Same(x) => known[x][f].time \in Nat /\ known[x][f].time <= time /\ time \in Nat
  <2>1. \A x \in F!Devices : known[x][f] # None => known[x][f] \in F!Row /\ known[x][f].time <= time
    BY <1>5, <1>7 DEF FactsInv, F!TypeOK
  <2> QED
    BY <2>1 DEF F!Row, FactsInv, F!TypeOK
<1>11. e \in F!Colliding(known, d, f)
  <2>1. /\ F!Age(known[d][f]) <= Window /\ F!Age(known[e][f]) <= Window
        /\ known[d][f].time - known[e][f].time \in -Window .. Window
        /\ known[e][f].time - known[d][f].time \in -Window .. Window
    <3>1. F!Age(known[d][f]) <= Window /\ F!Age(known[e][f]) <= Window
      BY <1>8, <1>9
    <3>2. Window \in Nat
      BY DEF F!RosterFactsAssumption
    <3> QED
      BY <1>9, <1>10, <3>1, <3>2 DEF F!Age
  <2> QED
    BY <1>9, <2>1 DEF F!Colliding, F!Collide
<1>12. PICK c \in F!AliasConflicts(known) : c.device = d /\ c.field = f
  BY <1>11, CollidingIsListed
<1>13. /\ c.value = known[d][f].value /\ c.other \in F!Colliding(known, d, f)
       /\ c.other \in F!Devices \ {d}
  BY <1>12, ConflictsAreOfTwo
<1>14. Same(c.other)
  BY <1>13 DEF F!Colliding, F!Collide
<1>15. c \in conflicts'
  BY <1>4, <1>7, <1>9, <1>12, <1>13 DEF F!Grounded
<1>16. /\ last'[d][f] # None /\ last'[d][f].value = c.value /\ last'[d][f].policy = policy'
       /\ F!NotExpired(f, last[d][f])' /\ F!Age(last[d][f])' <= Window
  BY <1>5, <1>7, <1>8, <1>9, <1>13 DEF F!NotExpired, F!Age
<1>17. /\ last'[c.other][f] # None /\ last'[c.other][f].value = c.value
       /\ F!Age(last'[c.other][f]) <= Window /\ F!NotExpired(f, last'[c.other][f])
  BY <1>7, <1>8, <1>9, <1>13, <1>14
<1> QED
  BY <1>5, <1>12, <1>15, <1>16, <1>17 DEF F!ShownConflict, F!Fresh, F!NotExpired, F!Age

\* Collisions are marked at once, and what is known of a device does not go back
\* (_refresh_alias_conflicts and _insert_roster_facts in one transaction).
THEOREM FactsGoOn == Spec => FactsAdvance
<1>1. Init => FactsInv
  BY FactsBegin, HealthHistoryAssumptions DEF Init
<1>2. FactsInv /\ [Next]_vars => FactsInv'
  BY FactsStep, HealthHistoryAssumptions DEF Next, vars
<1>3. FactsInv /\ [Next]_vars => [F!Marks]_(F!vars) /\ [F!Advance]_(F!vars)
  <2>1. [Next]_vars => F!Next \/ UNCHANGED factsVars
    BY DEF Next, vars
  <2> QED
    BY <2>1, FactsAreMarked, FactsGoForward, HealthHistoryAssumptions
<1> QED
  BY <1>1, <1>2, <1>3, PTL DEF Spec, FactsAdvance, F!CollisionsAreMarked, F!KnownNeverGoesBack

-----------------------------------------------------------------------------
(* HealthComparisons                                                       *)

LEMMA SameComparisonCount ==
    \A S : C!Cardinality(S) = Cardinality(S) /\ C!IsFiniteSet(S) = IsFiniteSet(S)
  BY DEF C!Cardinality, Cardinality, C!IsFiniteSet, IsFiniteSet

\* What a full table keeps: everything, or as many rows as it may hold.
LEMMA LatestIs ==
    ASSUME NEW table, IsFiniteSet(table), NEW n \in Nat, NEW k \in C!Latest(table, n)
    PROVE  /\ k \subseteq table /\ IsFiniteSet(k)
           /\ k = table \/ Cardinality(k) = n
<1>1. k \subseteq table /\ (k = table \/ Cardinality(k) = n)
  BY SameComparisonCount DEF C!Latest, C!kSubset
<1> QED
  BY <1>1, FS_Subset

LEMMA FiniteImage ==
    ASSUME NEW S, IsFiniteSet(S), NEW g PROVE IsFiniteSet({g[x] : x \in S})
<1> DEFINE T == {g[x] : x \in S}
           f == [x \in S |-> g[x]]
<1>1. f \in Surjection(S, T)
  BY DEF Surjection
<1> QED
  BY <1>1, FS_Surjection

\* The greatest of some numbers up to n.
LEMMA GreatestIs ==
    ASSUME NEW n \in Nat, NEW S \in SUBSET (0 .. n), S # {}
    PROVE  C!Max(S) \in S /\ \A y \in S : y <= C!Max(S)
<1> DEFINE T == {k \in Nat : n - k \in S}
<1>1. T \in SUBSET Nat
  OBVIOUS
<1>2. T # {}
  <2>1. PICK x \in S : x \in 0 .. n
    OBVIOUS
  <2>2. n - x \in Nat /\ n - (n - x) = x
    BY <2>1
  <2>3. n - x \in T
    BY <2>1, <2>2
  <2> QED
    BY <2>3
<1>3. PICK k \in T : \A y \in T : ~(y < k)
  BY <1>1, <1>2, LeastNumber
<1>4. ASSUME NEW y \in S PROVE n - k >= y
  <2>1. n - y \in Nat /\ n - (n - y) = y
    OBVIOUS
  <2>2. n - y \in T
    BY <2>1
  <2>3. ~(n - y < k)
    BY <1>3, <2>2
  <2> QED
    BY <1>1, <1>3, <2>3
<1>5. n - k \in S /\ \A y \in S : n - k >= y
  BY <1>3, <1>4
<1>6. \E x \in S : \A y \in S : x >= y
  BY <1>5
<1> QED
  BY <1>6 DEF C!Max

Assessments(as, r, n) ==
    \A a \in as : a.obs \in C!Observations /\ a.rev \in 0 .. r /\ a.at \in 0 .. n

\* What is retained: observations with a place among the newest, and their assessments.
Later(ing, o) == {p \in C!Observations : ing[p] > ing[o]}
HistoryInv ==
    /\ clock \in Nat /\ revision \in Nat
    /\ ingested \in [C!Observations -> Nat]
    /\ \A o \in C!Observations :
          /\ ingested[o] <= clock
          /\ ingested[o] # 0 => Cardinality(Later(ingested, o)) < ComparedRetained
    /\ Assessments(stored, revision, clock)
    /\ \A a \in stored : ingested[a.obs] # 0

\* The preferred assessment of an observation is one of its assessments.
LEMMA PreferredIs ==
    ASSUME NEW as, NEW r \in Nat, NEW n \in Nat, Assessments(as, r, n), NEW o \in C!Assessed(as)
    PROVE  C!Preferred(as, o) \in as /\ C!Preferred(as, o).obs = o
<1> DEFINE Of == {a \in as : a.obs = o}
           revs == {a.rev : a \in Of}
           newest == C!Max(revs)
           ats == {a.at : a \in {b \in Of : b.rev = newest}}
<1>1. Of # {}
  BY DEF C!Assessed
<1>6. \A x \in as : x.rev \in Nat
  <2>1. \A x \in as : x.rev \in 0 .. r
    BY DEF Assessments
  <2>2. \A k \in 0 .. r : k \in Nat
    OBVIOUS
  <2> QED
    BY <2>1, <2>2
<1>2. newest \in revs /\ \A k \in revs : k <= newest
  <2>1. revs \in SUBSET (0 .. r) /\ revs # {}
    BY <1>1 DEF Assessments
  <2> HIDE DEF revs
  <2> QED
    BY <2>1, GreatestIs
<1>3. C!Max(ats) \in ats /\ \A k \in ats : k <= C!Max(ats)
  <2>1. ats \in SUBSET (0 .. n) /\ ats # {}
    BY <1>2 DEF Assessments
  <2> HIDE DEF ats
  <2> QED
    BY <2>1, GreatestIs
<1>4. PICK a \in Of : a.rev = newest /\ a.at = C!Max(ats)
  BY <1>3
<1>5. \A b \in as : b.obs = o => b.rev < a.rev \/ (b.rev = a.rev /\ b.at <= a.at)
  <2> SUFFICES ASSUME NEW b \in as, b.obs = o PROVE b.rev < a.rev \/ (b.rev = a.rev /\ b.at <= a.at)
    OBVIOUS
  <2>1. b.rev \in revs /\ (b.rev = newest => b.at \in ats)
    OBVIOUS
  <2>2. b.rev \in Nat /\ a.rev \in Nat
    BY <1>6, <1>4
  <2>3. b.rev <= newest
    BY <1>2, <2>1
  <2>4. b.rev = newest => b.at <= C!Max(ats)
    BY <1>3, <2>1
  <2> HIDE DEF newest, ats, revs
  <2> QED
    BY <1>4, <2>2, <2>3, <2>4
<1> HIDE DEF newest, ats, revs
<1> QED
  BY <1>4, <1>5 DEF C!Preferred

LEMMA BaselinesAre ==
    ASSUME C!ComparisonsAssumption, NEW as, NEW r \in Nat, NEW n \in Nat, Assessments(as, r, n),
           NEW o \in C!Observations
    PROVE  C!Baselines(as, o) \subseteq as /\ IsFiniteSet(C!Baselines(as, o))
<1> DEFINE found == {m \in Intervals \cup {1} : C!Earlier(as, o, m) # {}}
           g == [m \in found |-> C!Preferred(as, C!Max(C!Earlier(as, o, m)))]
<1>1. CASE o \notin Complete
  BY <1>1, FS_EmptySet DEF C!Baselines
<1>2. CASE o \in Complete
  <2>1. C!Baselines(as, o) = {g[m] : m \in found}
    BY <1>2 DEF C!Baselines
  <2>2. ASSUME NEW m \in found PROVE g[m] \in as
    <3>1. C!Earlier(as, o, m) \in SUBSET (0 .. NumObservations) /\ C!Earlier(as, o, m) # {}
      <4>1. \A x \in as : x.obs \in 0 .. NumObservations
        <5>1. \A x \in as : x.obs \in 1 .. NumObservations
          BY DEF Assessments, C!Observations
        <5>2. NumObservations \in Nat
          BY DEF C!ComparisonsAssumption
        <5> HIDE DEF found, g
        <5>3. \A z \in 1 .. NumObservations : z \in 0 .. NumObservations
          BY <5>2
        <5> QED
          BY <5>1, <5>3
      <4>2. C!Earlier(as, o, m) \subseteq {a.obs : a \in as}
        BY DEF C!Earlier, C!Assessed
      <4> QED
        BY <4>1, <4>2
    <3>2. C!Max(C!Earlier(as, o, m)) \in C!Assessed(as)
      <4>1. NumObservations \in Nat
        BY DEF C!ComparisonsAssumption
      <4>2. C!Max(C!Earlier(as, o, m)) \in C!Earlier(as, o, m)
        BY <3>1, <4>1, GreatestIs
      <4> QED
        BY <4>2 DEF C!Earlier
    <3> QED
      BY <3>2, PreferredIs
  <2>3. IsFiniteSet(found)
    <3>1. IsFiniteSet(Intervals)
      BY SameComparisonCount DEF C!ComparisonsAssumption
    <3>2. IsFiniteSet(Intervals \cup {1})
      BY <3>1, FS_AddElement
    <3>3. found \in SUBSET (Intervals \cup {1})
      OBVIOUS
    <3> HIDE DEF found
    <3> QED
      BY <3>2, <3>3, FS_Subset
  <2> HIDE DEF found, g
  <2>4. {g[m] : m \in found} \subseteq as
    BY <2>2
  <2>5. IsFiniteSet({g[m] : m \in found})
    BY <2>3, FiniteImage
  <2> QED
    BY <2>1, <2>4, <2>5
<1> QED
  BY <1>1, <1>2

\* How processing an observation goes.
Fresh(o) == [obs |-> o, ver |-> version, rev |-> revision, gone |-> {}, at |-> clock + 1]
Entered(o) == C!Row(stored, Fresh(o))
Extended(o) == stored \cup {Entered(o)}
Dated(o) == [ingested EXCEPT ![o] = IF @ = 0 THEN clock + 1 ELSE @]

LEMMA EnteredIs ==
    ASSUME C!ComparisonsAssumption, HistoryInv, NEW o \in C!Observations
    PROVE  /\ Entered(o).obs = o /\ Assessments(Extended(o), revision, clock + 1)
           /\ \A p \in C!Observations :
                 Dated(o)[p] = IF p = o /\ ingested[o] = 0 THEN clock + 1 ELSE ingested[p]
           /\ C!Pruned(Dated(o)) \in [C!Observations -> Nat]
           /\ \A p \in C!Observations : C!Pruned(Dated(o))[p] \in {0, Dated(o)[p]}
           /\ C!Pruned(Dated(o))[o] # 0
<1>1. Entered(o).obs = o /\ (Entered(o) \in stored \/ Entered(o) = Fresh(o))
  BY DEF Entered, C!Row, C!Id, Fresh
<1>2. Assessments(Extended(o), revision, clock + 1)
  <2>1. Assessments(stored, revision, clock + 1)
    BY DEF HistoryInv, Assessments
  <2>2. Fresh(o).obs = o /\ Fresh(o).rev \in 0 .. revision /\ Fresh(o).at \in 0 .. clock + 1
    BY DEF HistoryInv, Fresh
  <2> QED
    BY <1>1, <2>1, <2>2 DEF Extended, Assessments
<1>3. \A p \in C!Observations :
         Dated(o)[p] = IF p = o /\ ingested[o] = 0 THEN clock + 1 ELSE ingested[p]
  BY DEF HistoryInv, Dated
<1>4. \A p \in C!Observations : Dated(o)[p] \in Nat
  BY <1>3 DEF HistoryInv
<1>5. /\ C!Pruned(Dated(o)) \in [C!Observations -> Nat]
      /\ \A p \in C!Observations : C!Pruned(Dated(o))[p] \in {0, Dated(o)[p]}
  BY <1>4 DEF C!Pruned
<1>6. Cardinality(Later(Dated(o), o)) < ComparedRetained
  <2>1. CASE ingested[o] = 0
    <3>1. Later(Dated(o), o) = {}
      <4>1. Dated(o)[o] = clock + 1
        BY <1>3, <2>1
      <4>2. ASSUME NEW p \in C!Observations PROVE ~(Dated(o)[p] > clock + 1)
        BY <1>3 DEF HistoryInv
      <4> QED
        BY <4>1, <4>2 DEF Later
    <3> QED
      BY <3>1, FS_EmptySet DEF C!ComparisonsAssumption
  <2>2. CASE ingested[o] # 0
    BY <1>3, <2>2 DEF Later, HistoryInv
  <2> QED
    BY <2>1, <2>2
<1>7. C!Pruned(Dated(o))[o] = Dated(o)[o]
  BY <1>6, SameComparisonCount DEF C!Pruned, Later
<1>8. Dated(o)[o] # 0
  BY <1>3 DEF HistoryInv
<1> QED
  BY <1>1, <1>2, <1>3, <1>5, <1>7, <1>8

\* A number is the least of those that a set of numbers has.
LEMMA LeastIs == ASSUME NEW S \in SUBSET Nat, S # {} PROVE C!Min(S) \in S
<1>1. PICK x \in S : \A y \in S : ~(y < x)
  BY LeastNumber
<1>2. \A y \in S : x =< y
  BY <1>1
<1> QED
  BY <1>2 DEF C!Min

LEMMA LatestWithin ==
    ASSUME NEW table, NEW n, NEW k \in C!Latest(table, n) PROVE k \subseteq table
  BY DEF C!Latest, C!kSubset

\* The sequence of a finite set has its elements, and no other.
LEMMA SequenceOfSet ==
    ASSUME NEW S, IsFiniteSet(S)
    PROVE  /\ Len(C!SetToSeq(S)) \in Nat
           /\ \A i \in 1 .. Len(C!SetToSeq(S)) : C!SetToSeq(S)[i] \in S
           /\ \A x \in S : \E i \in 1 .. Len(C!SetToSeq(S)) : C!SetToSeq(S)[i] = x
<1> DEFINE n == Cardinality(S)
           q == C!SetToSeq(S)
<1>1. n \in Nat /\ ExistsBijection(1 .. n, S)
  BY FS_CardinalityType
<1>2. PICK f \in Bijection(1 .. n, S) : TRUE
  BY <1>1 DEF ExistsBijection
<1>3. f \in [1 .. n -> S] /\ C!IsInjective(f)
  BY <1>2 DEF Bijection, Injection, IsInjective, C!IsInjective
<1>4. q \in [1 .. n -> S] /\ C!IsInjective(q)
  BY <1>3, SameComparisonCount DEF C!SetToSeq
<1> HIDE DEF q
<1>5. q \in Injection(1 .. n, S)
  BY <1>4 DEF Injection, IsInjective, C!IsInjective
<1>6. q \in Surjection(1 .. n, S)
  <2>1. Cardinality(1 .. n) = n
    BY <1>1, FS_Interval
  <2> HIDE DEF n
  <2> QED
    BY <1>5, <2>1, FS_Injection DEF n
<1>7. Len(q) = n
  BY <1>1, <1>4
<1> QED
  BY <1>1, <1>4, <1>6, <1>7 DEF Surjection, q

-----------------------------------------------------------------------------

\* A pair prepared of two assessments, from the samples that are left now.
IsPair(p, as, gone) ==
    /\ p.before \in C!Assessed(as) /\ p.obs \in C!Assessed(as)
    /\ p.inputs = << gone[p.before], gone[p.obs] >>
    /\ \E bv, av :
          /\ p.key = C!PairKey(p.before, p.obs, bv, av)
          /\ p.items = C!Items(p.before, p.obs, gone[p.before], gone[p.obs], bv, av)

ArePairs(ps, as, gone) == \A p \in ps : IsPair(p, as, gone)

KeptIn(c, ing) == \A o \in {c.before.obs, c.after.obs} : ing[o] \in 1 .. c.at
ItemsIn(c, bgone, agone) ==
    c.items = C!Items(c.before.obs, c.after.obs, bgone, agone, c.before.ver, c.after.ver)

\* A comparison that is retained, made when n assessments were.
IsComparison(c, ing, gone, n) ==
    /\ c.before.obs \in C!Observations /\ c.after.obs \in C!Observations
    /\ c.at \in Nat /\ c.at <= n
    /\ KeptIn(c, ing) => ItemsIn(c, gone[c.before.obs], gone[c.after.obs])
    /\ \E bgone, agone : ItemsIn(c, bgone, agone)

IsBody(b, ing, gone) ==
    b.obs \in C!Observations /\ ing[b.obs] # 0 /\ b.input = gone[b.obs]

\* The first n of the pairs to do are prepared, unless the table is full.
KeyOf(c) == C!PairKey(c.before.obs, c.after.obs, c.before.ver, c.after.ver)
Done(q, ps, n) ==
    \/ Cardinality(ps) >= MaxRecords
    \/ \A i \in 1 .. n : \E p \in ps : p.key = KeyOf(q[i])

CursorInv(q) ==
    cursor # None => cursor.pair \in 0 .. Len(q) /\ Done(q, pairs, cursor.pair)

ComparisonsInv ==
    /\ HistoryInv
    /\ \A b \in bodies : IsBody(b, ingested, purged)
    /\ IsFiniteSet(pairs) /\ ArePairs(pairs, stored, purged)
    /\ IsFiniteSet(comparisons)
    /\ \A c \in comparisons : IsComparison(c, ingested, purged, clock)
    /\ CursorInv(C!PairSeq)
    /\ C!PreparedWhenDone

\* Deriving from what is prepared is deriving from the samples.
DerivedIsItems(ps, x, y, gone) ==
    C!Derived(ps, x, y, gone) = C!Items(x.obs, y.obs, gone[x.obs], gone[y.obs], x.ver, y.ver)

LEMMA DerivedIs ==
    ASSUME NEW ps, NEW as, NEW gone, ArePairs(ps, as, gone), NEW x, NEW y
    PROVE  DerivedIsItems(ps, x, y, gone)
<1> DEFINE known == {p \in ps : p.key = C!PairKey(x.obs, y.obs, x.ver, y.ver)}
<1>1. CASE known = {}
  BY <1>1 DEF C!Derived, DerivedIsItems
<1>2. CASE known # {}
  <2>1. PICK p \in known : p = CHOOSE k \in known : TRUE
    BY <1>2
  <2>2. C!Derived(ps, x, y, gone) = p.items
    BY <1>2, <2>1 DEF C!Derived
  <2>3. PICK bv, av :
           /\ p.key = C!PairKey(p.before, p.obs, bv, av)
           /\ p.items = C!Items(p.before, p.obs, gone[p.before], gone[p.obs], bv, av)
    BY <2>1 DEF ArePairs, IsPair
  <2>4. p.before = x.obs /\ p.obs = y.obs /\ bv = x.ver /\ av = y.ver
    <3>1. p.key = C!PairKey(x.obs, y.obs, x.ver, y.ver)
      BY <2>1, Zenon
    <3>2. C!PairKey(p.before, p.obs, bv, av) = C!PairKey(x.obs, y.obs, x.ver, y.ver)
      BY <2>3, <3>1, Zenon
    <3> QED
      BY <3>2, SMT DEF C!PairKey
  <2> QED
    BY <2>2, <2>3, <2>4 DEF DerivedIsItems
<1> QED
  BY <1>1, <1>2 DEF DerivedIsItems

\* Observations that lose nothing but their place keep their place among the newest.
Roomy(ing) ==
    \A o \in C!Observations : ing[o] # 0 => Cardinality(Later(ing, o)) < ComparedRetained

LEMMA StayRoomy ==
    ASSUME C!ComparisonsAssumption,
           NEW ing \in [C!Observations -> Nat], NEW new \in [C!Observations -> Nat],
           \A o \in C!Observations :
              /\ new[o] \in {0, ing[o]}
              /\ new[o] # 0 => Cardinality(Later(ing, o)) < ComparedRetained
    PROVE  Roomy(new)
<1> SUFFICES ASSUME NEW o \in C!Observations, new[o] # 0
             PROVE  Cardinality(Later(new, o)) < ComparedRetained
  BY DEF Roomy
<1>1. Later(new, o) \in SUBSET Later(ing, o)
  <2>1. ASSUME NEW p \in C!Observations, new[p] > new[o] PROVE ing[p] > ing[o]
    <3>1. new[p] \in Nat /\ new[o] \in Nat /\ new[p] \in {0, ing[p]} /\ new[o] \in {0, ing[o]}
      OBVIOUS
    <3> QED
      BY <2>1, <3>1
  <2> QED
    BY <2>1 DEF Later
<1>2. IsFiniteSet(Later(ing, o))
  <2>1. IsFiniteSet(C!Observations)
    <3>1. NumObservations \in Int
      BY DEF C!ComparisonsAssumption
    <3> QED
      BY <3>1, FS_Interval DEF C!Observations
  <2>2. Later(ing, o) \in SUBSET C!Observations
    BY DEF Later
  <2> QED
    BY <2>1, <2>2, FS_Subset
<1>3. /\ Cardinality(Later(new, o)) <= Cardinality(Later(ing, o))
      /\ Cardinality(Later(new, o)) \in Nat /\ Cardinality(Later(ing, o)) \in Nat
  BY <1>1, <1>2, FS_Subset, FS_CardinalityType
<1>4. Cardinality(Later(ing, o)) < ComparedRetained /\ ComparedRetained \in Nat
  BY DEF C!ComparisonsAssumption
<1> QED
  BY <1>3, <1>4

LEMMA ComparisonStays ==
    ASSUME NEW c, NEW ing, NEW gone, NEW n \in Nat, IsComparison(c, ing, gone, n),
           NEW ing2, NEW gone2, NEW m \in Nat, n <= m,
           \A o \in {c.before.obs, c.after.obs} :
              /\ ing2[o] \in {0, ing[o]} \/ ing2[o] > n
              /\ ing2[o] # 0 => gone2[o] = gone[o]
    PROVE  IsComparison(c, ing2, gone2, m)
<1>1. ASSUME KeptIn(c, ing2) PROVE ItemsIn(c, gone2[c.before.obs], gone2[c.after.obs])
  <2>1. c.at \in Nat /\ c.at <= n
    BY DEF IsComparison
  <2>2. ASSUME NEW o \in {c.before.obs, c.after.obs}
        PROVE  ing[o] \in 1 .. c.at /\ gone2[o] = gone[o]
    <3>1. ing2[o] \in 1 .. c.at
      BY <1>1 DEF KeptIn
    <3> QED
      BY <2>1, <3>1
  <2>3. ItemsIn(c, gone[c.before.obs], gone[c.after.obs])
    BY <2>2 DEF IsComparison, KeptIn
  <2> QED
    BY <2>2, <2>3
<1> QED
  BY <1>1 DEF IsComparison

\* A comparison made just now, of the samples there are.
IsNew(c, gone, m) ==
    /\ c.before.obs \in C!Observations /\ c.after.obs \in C!Observations /\ c.at = m
    /\ ItemsIn(c, gone[c.before.obs], gone[c.after.obs])

LEMMA NewComparison ==
    ASSUME NEW c, NEW gone, NEW m \in Nat, IsNew(c, gone, m), NEW ing2, NEW gone2,
           \A o \in C!Observations : ing2[o] # 0 => gone2[o] = gone[o]
    PROVE  IsComparison(c, ing2, gone2, m)
<1>1. ASSUME KeptIn(c, ing2) PROVE ItemsIn(c, gone2[c.before.obs], gone2[c.after.obs])
  <2>1. ASSUME NEW o \in {c.before.obs, c.after.obs} PROVE gone2[o] = gone[o]
    <3>1. ing2[o] \in 1 .. c.at /\ o \in C!Observations
      BY <1>1 DEF KeptIn, IsNew
    <3> QED
      BY <3>1
  <2> QED
    BY <2>1 DEF IsNew
<1> QED
  BY <1>1 DEF IsComparison, IsNew

LEMMA PairStays ==
    ASSUME NEW p, NEW as, NEW gone, IsPair(p, as, gone), NEW as2, NEW gone2,
           {p.before, p.obs} \subseteq C!Assessed(as2),
           \A o \in {p.before, p.obs} : gone2[o] = gone[o]
    PROVE  IsPair(p, as2, gone2)
<1>1. gone2[p.before] = gone[p.before] /\ gone2[p.obs] = gone[p.obs]
  OBVIOUS
<1> QED
  BY <1>1 DEF IsPair

\* A pair that is made of two assessments, and a comparison.
LEMMA PairIs ==
    ASSUME NEW ps, NEW as, NEW gone, ArePairs(ps, as, gone), NEW x \in as, NEW y \in as
    PROVE  /\ IsPair(C!Pair(ps, x, y, gone), as, gone)
           /\ C!Pair(ps, x, y, gone).before = x.obs /\ C!Pair(ps, x, y, gone).obs = y.obs
           /\ C!Pair(ps, x, y, gone).key = C!PairKey(x.obs, y.obs, x.ver, y.ver)
<1>1. DerivedIsItems(ps, x, y, gone)
  BY DerivedIs
<1>2. x.obs \in C!Assessed(as) /\ y.obs \in C!Assessed(as)
  BY DEF C!Assessed
<1> QED
  BY <1>1, <1>2 DEF C!Pair, IsPair, DerivedIsItems

LEMMA ComparisonIs ==
    ASSUME NEW ps, NEW as, NEW gone, ArePairs(ps, as, gone), NEW x, NEW y, NEW m,
           x.obs \in C!Observations, y.obs \in C!Observations
    PROVE  IsNew(C!Comparison(ps, x, y, gone, m), gone, m)
<1>1. DerivedIsItems(ps, x, y, gone)
  BY DerivedIs
<1> QED
  BY <1>1 DEF C!Comparison, C!Id, IsNew, ItemsIn, DerivedIsItems

\* What _auto_compare makes with an assessment.
LEMMA AddedAre ==
    ASSUME C!ComparisonsAssumption, NEW as, NEW r \in Nat, NEW n \in Nat, Assessments(as, r, n),
           NEW y \in as, NEW cs, NEW ps, NEW gone, ArePairs(ps, as, gone)
    PROVE  /\ IsFiniteSet(C!Added(as, cs, ps, y, gone))
           /\ \A c \in C!Added(as, cs, ps, y, gone) : IsNew(c, gone, clock + 1)
           /\ IsFiniteSet(C!AddedPairs(as, cs, ps, y, gone))
           /\ ArePairs(C!AddedPairs(as, cs, ps, y, gone), as, gone)
<1> DEFINE ends == {b \in C!Baselines(as, y.obs) : ~C!Known(cs, b, y)}
           made == [x \in ends |-> C!Comparison(ps, x, y, gone, clock + 1)]
           pair == [x \in ends |-> C!Pair(ps, x, y, gone)]
<1>1. y.obs \in C!Observations
  BY DEF Assessments
<1>2. C!Baselines(as, y.obs) \subseteq as /\ IsFiniteSet(C!Baselines(as, y.obs))
  BY <1>1, BaselinesAre
<1>3. ends \subseteq as /\ IsFiniteSet(ends)
  <2>1. ends \in SUBSET C!Baselines(as, y.obs)
    OBVIOUS
  <2> HIDE DEF ends
  <2> QED
    BY <1>2, <2>1, FS_Subset
<1>4. /\ C!Added(as, cs, ps, y, gone) = {made[x] : x \in ends}
      /\ C!AddedPairs(as, cs, ps, y, gone) = {pair[x] : x \in ends}
  BY DEF C!Added, C!AddedPairs
<1>5. ASSUME NEW x \in ends PROVE IsNew(made[x], gone, clock + 1) /\ IsPair(pair[x], as, gone)
  <2>1. x \in as /\ x.obs \in C!Observations
    BY <1>3 DEF Assessments
  <2> QED
    BY <1>1, <2>1, ComparisonIs, PairIs
<1> HIDE DEF ends, made, pair
<1>6. IsFiniteSet({made[x] : x \in ends}) /\ IsFiniteSet({pair[x] : x \in ends})
  BY <1>3, FiniteImage
<1> QED
  BY <1>4, <1>5, <1>6 DEF ArePairs

\* Publishing keeps what there is, and leaves a pair under every key.
LEMMA PublishedAre ==
    ASSUME NEW ps, IsFiniteSet(ps), NEW new, IsFiniteSet(new)
    PROVE  /\ IsFiniteSet(C!Publish(ps, new))
           /\ ps \subseteq C!Publish(ps, new) /\ C!Publish(ps, new) \subseteq ps \cup new
           /\ \A p \in ps \cup new : \E q \in C!Publish(ps, new) : q.key = p.key
<1>1. C!Publish(ps, new) \in SUBSET (ps \cup new)
  BY DEF C!Publish
<1>2. IsFiniteSet(ps \cup new)
  BY FS_Union
<1>3. IsFiniteSet(C!Publish(ps, new))
  BY <1>1, <1>2, FS_Subset
<1>4. ASSUME NEW p \in ps \cup new PROVE \E q \in C!Publish(ps, new) : q.key = p.key
  <2>1. CASE p \in ps
    BY <2>1 DEF C!Publish
  <2>2. CASE p \in new
    <3>1. CASE \E q \in ps : q.key = p.key
      BY <3>1 DEF C!Publish
    <3>2. CASE ~\E q \in ps : q.key = p.key
      BY <2>2, <3>2 DEF C!Publish
    <3> QED
      BY <3>1, <3>2
  <2> QED
    BY <2>1, <2>2
<1>5. ps \subseteq C!Publish(ps, new)
  BY DEF C!Publish
<1> QED
  BY <1>1, <1>3, <1>4, <1>5

\* More pairs are no fewer prepared.
LEMMA DoneStays ==
    ASSUME MaxRecords \in Nat, NEW q, NEW n, NEW ps, Done(q, ps, n),
           NEW ps2, IsFiniteSet(ps2), ps \subseteq ps2
    PROVE  Done(q, ps2, n)
<1>1. CASE Cardinality(ps) >= MaxRecords
  <2>1. /\ Cardinality(ps) <= Cardinality(ps2)
        /\ Cardinality(ps) \in Nat /\ Cardinality(ps2) \in Nat
    BY FS_Subset, FS_CardinalityType
  <2> QED
    BY <1>1, <2>1 DEF Done
<1>2. CASE \A i \in 1 .. n : \E p \in ps : p.key = KeyOf(q[i])
  BY <1>2 DEF Done
<1> QED
  BY <1>1, <1>2 DEF Done

\* A step that keeps the pairs while the inventory stays, keeps what the cursor says.
LEMMA CursorStays ==
    ASSUME C!ComparisonsAssumption, ComparisonsInv, C!Unprepared, IsFiniteSet(pairs'),
           stored' = stored => pairs \subseteq pairs' \/ Cardinality(pairs') >= MaxRecords
    PROVE  CursorInv(C!PairSeq)' /\ C!PreparedWhenDone'
<1>1. C!PreparedWhenDone'
  BY DEF C!PreparedWhenDone, C!Unprepared
<1>2. CASE C!Inventory' = C!Inventory
  <2>1. stored' = stored /\ C!PairsToDo' = C!PairsToDo
    BY <1>2 DEF C!Inventory
  <2>2. C!PairSeq' = C!PairSeq /\ cursor' = cursor
    BY <1>2, <2>1 DEF C!PairSeq, C!Unprepared
  <2>3. ASSUME cursor # None PROVE Done(C!PairSeq, pairs', cursor.pair)
    <3>1. Done(C!PairSeq, pairs, cursor.pair)
      BY <2>3 DEF ComparisonsInv, CursorInv
    <3>2. CASE Cardinality(pairs') >= MaxRecords
      BY <3>2 DEF Done
    <3>3. CASE ~(Cardinality(pairs') >= MaxRecords)
      <4>1. pairs \subseteq pairs'
        BY <2>1, <3>3
      <4>2. MaxRecords \in Nat
        BY DEF C!ComparisonsAssumption
      <4> QED
        BY <3>1, <4>1, <4>2, DoneStays
    <3> QED
      BY <3>2, <3>3
  <2> QED
    BY <1>1, <2>2, <2>3 DEF ComparisonsInv, CursorInv
<1>3. CASE C!Inventory' # C!Inventory
  BY <1>1, <1>3 DEF C!Unprepared, CursorInv
<1> QED
  BY <1>1, <1>2, <1>3

LEMMA ProcessKeeps ==
    ASSUME C!ComparisonsAssumption, ComparisonsInv, NEW o \in C!Observations, C!Process(o)
    PROVE  ComparisonsInv'
<1> DEFINE ing == C!Pruned(Dated(o))
           y == Entered(o)
           as == Extended(o)
           newPairs == C!AddedPairs(as, comparisons, pairs, y, purged)
           new == C!Added(as, comparisons, pairs, y, purged)
<1>1. PICK bs \in C!Latest(C!PublishBody(bodies, {C!Body(o, version, purged)}), MaxRecords),
           ps \in C!Latest(C!Publish(pairs, newPairs), MaxRecords),
           cs \in C!Latest(comparisons \cup new, MaxComparisons) :
          comparisons' = cs /\ C!Cascade(ing, purged, as, bs, ps)
  BY DEF C!Process, Entered, Extended, Dated, Fresh
<1>2. clock' = clock + 1 /\ revision' = revision /\ C!Unprepared
  BY DEF C!Process
<1>3. /\ Assessments(as, revision, clock + 1)
      /\ \A p \in C!Observations :
            Dated(o)[p] = IF p = o /\ ingested[o] = 0 THEN clock + 1 ELSE ingested[p]
      /\ ing \in [C!Observations -> Nat]
      /\ \A p \in C!Observations : ing[p] \in {0, Dated(o)[p]}
      /\ ing[o] # 0 /\ y.obs = o
  BY EnteredIs DEF ComparisonsInv
<1>4. /\ clock \in Nat /\ revision \in Nat /\ ingested \in [C!Observations -> Nat]
      /\ \A p \in C!Observations : ingested[p] <= clock
  BY DEF ComparisonsInv, HistoryInv
<1>5. /\ ingested' = ing
      /\ purged' = [p \in C!Observations |-> IF ing[p] = 0 THEN {} ELSE purged[p]]
      /\ stored' = {a \in as : ing[a.obs] # 0}
      /\ bodies' = {b \in bs : ing[b.obs] # 0}
      /\ pairs' = {p \in ps : ing[p.before] # 0 /\ ing[p.obs] # 0}
  BY <1>1 DEF C!Cascade
<1> HIDE DEF ing, y, as
<1>6. \A p \in C!Observations : ing[p] # 0 => purged'[p] = purged[p]
  BY <1>5
<1>7. HistoryInv'
  <2>1. \A p \in C!Observations :
           ing[p] # 0 => Cardinality(Later(Dated(o), p)) < ComparedRetained
    BY SameComparisonCount DEF ing, C!Pruned, Later
  <2>2. Dated(o) \in [C!Observations -> Nat]
    BY <1>3, <1>4 DEF Dated
  <2>3. Roomy(ing)
    BY <1>3, <2>1, <2>2, StayRoomy
  <2>4. \A p \in C!Observations : ing[p] <= clock + 1
    BY <1>3, <1>4
  <2>5. Assessments(stored', revision, clock + 1) /\ \A a \in stored' : ing[a.obs] # 0
    BY <1>3, <1>5 DEF Assessments
  <2>6. Roomy(ingested')
    BY <1>5, <2>3
  <2>7. clock' \in Nat /\ revision' \in Nat /\ ingested' \in [C!Observations -> Nat]
    BY <1>2, <1>3, <1>4, <1>5
  <2>8. \A p \in C!Observations : ingested'[p] <= clock'
    BY <1>2, <1>5, <2>4
  <2>9. Assessments(stored', revision', clock') /\ \A a \in stored' : ingested'[a.obs] # 0
    BY <1>2, <1>5, <2>5
  <2> QED
    BY <2>6, <2>7, <2>8, <2>9 DEF HistoryInv, Roomy
<1>8. \A b \in bodies' : IsBody(b, ingested', purged')
  <2> SUFFICES ASSUME NEW b \in bs, ing[b.obs] # 0 PROVE IsBody(b, ingested', purged')
    BY <1>5
  <2>1. b \in bodies \/ b = C!Body(o, version, purged)
    BY <1>1, LatestWithin DEF C!PublishBody
  <2>2. b.obs \in C!Observations /\ b.input = purged[b.obs]
    BY <2>1 DEF ComparisonsInv, IsBody, C!Body
  <2> QED
    BY <1>5, <1>6, <2>2 DEF IsBody
<1>9. /\ ArePairs(pairs, as, purged) /\ ArePairs(newPairs, as, purged)
      /\ IsFiniteSet(newPairs) /\ IsFiniteSet(new)
      /\ \A c \in new : IsNew(c, purged, clock + 1)
  <2>1. ArePairs(pairs, as, purged)
    <3>1. \A p \in pairs : IsPair(p, stored, purged)
      BY DEF ComparisonsInv, ArePairs
    <3>2. C!Assessed(stored) \subseteq C!Assessed(as)
      BY DEF C!Assessed, as, Extended
    <3> QED
      BY <3>1, <3>2 DEF IsPair, ArePairs
  <2>2. y \in as
    BY DEF as, y, Extended
  <2>3. clock + 1 \in Nat
    BY <1>4
  <2> HIDE DEF newPairs, new
  <2>4. /\ IsFiniteSet(new) /\ \A c \in new : IsNew(c, purged, clock + 1)
        /\ IsFiniteSet(newPairs) /\ ArePairs(newPairs, as, purged)
    BY <1>3, <1>4, <2>1, <2>2, <2>3, AddedAre DEF newPairs, new
  <2> QED
    BY <2>1, <2>4
<1> HIDE DEF new, newPairs
<1>10. /\ IsFiniteSet(C!Publish(pairs, newPairs))
       /\ pairs \subseteq C!Publish(pairs, newPairs)
       /\ C!Publish(pairs, newPairs) \subseteq pairs \cup newPairs
       /\ MaxRecords \in Nat
  BY <1>9, PublishedAre DEF ComparisonsInv, C!ComparisonsAssumption
<1>11. /\ ps \subseteq pairs \cup newPairs /\ IsFiniteSet(ps)
       /\ pairs \subseteq ps \/ Cardinality(ps) = MaxRecords
  BY <1>10, LatestIs
<1>12. IsFiniteSet(pairs') /\ ArePairs(pairs', stored', purged')
  <2>1. pairs' \in SUBSET ps
    BY <1>5
  <2>2. ASSUME NEW p \in pairs' PROVE IsPair(p, stored', purged')
    <3>1. IsPair(p, as, purged) /\ ing[p.before] # 0 /\ ing[p.obs] # 0
      BY <1>5, <1>9, <1>11 DEF ArePairs
    <3>2. {p.before, p.obs} \subseteq C!Assessed(stored')
      BY <1>5, <3>1 DEF IsPair, C!Assessed
    <3>3. {p.before, p.obs} \subseteq C!Observations
      <4>1. C!Assessed(as) \subseteq C!Observations
        BY <1>3 DEF C!Assessed, Assessments
      <4> QED
        BY <3>1, <4>1 DEF IsPair
    <3>4. \A q \in {p.before, p.obs} : purged'[q] = purged[q]
      BY <1>6, <3>1, <3>3
    <3> QED
      BY <3>1, <3>2, <3>4, PairStays
  <2> QED
    BY <1>11, <2>1, <2>2, FS_Subset DEF ArePairs
<1>13. /\ IsFiniteSet(comparisons')
       /\ \A c \in comparisons' : IsComparison(c, ingested', purged', clock')
  <2>1. IsFiniteSet(comparisons \cup new) /\ MaxComparisons \in Nat
    BY <1>9, FS_Union DEF ComparisonsInv, C!ComparisonsAssumption
  <2>2. comparisons' \subseteq comparisons \cup new /\ IsFiniteSet(comparisons')
    BY <1>1, <2>1, LatestIs
  <2>3. ASSUME NEW c \in comparisons PROVE IsComparison(c, ing, purged', clock + 1)
    <3>1. IsComparison(c, ingested, purged, clock)
      BY DEF ComparisonsInv
    <3>2. \A p \in C!Observations :
             /\ ing[p] \in {0, ingested[p]} \/ ing[p] > clock
             /\ ing[p] # 0 => purged'[p] = purged[p]
      BY <1>3, <1>4, <1>6
    <3>3. c.before.obs \in C!Observations /\ c.after.obs \in C!Observations
      BY <3>1 DEF IsComparison
    <3>4. clock + 1 \in Nat /\ clock <= clock + 1
      BY <1>4
    <3> QED
      BY <1>4, <3>1, <3>2, <3>3, <3>4, ComparisonStays
  <2>4. ASSUME NEW c \in new PROVE IsComparison(c, ing, purged', clock + 1)
    BY <1>4, <1>6, <1>9, NewComparison
  <2> QED
    BY <1>2, <1>5, <2>2, <2>3, <2>4
<1>14. stored' = stored => pairs \subseteq pairs' \/ Cardinality(pairs') >= MaxRecords
  <2> SUFFICES ASSUME stored' = stored
               PROVE  pairs \subseteq pairs' \/ Cardinality(pairs') >= MaxRecords
    OBVIOUS
  <2>1. \A p \in C!Assessed(stored) : ing[p] # 0
    BY <1>5 DEF C!Assessed
  <2>2. ASSUME NEW p \in C!Assessed(as) PROVE ing[p] # 0
    <3>1. p \in C!Assessed(stored) \/ p = o
      BY <1>3 DEF C!Assessed, as, Extended, y
    <3> QED
      BY <1>3, <2>1, <3>1
  <2>3. \A p \in ps : p.before \in C!Assessed(as) /\ p.obs \in C!Assessed(as)
    BY <1>9, <1>11 DEF ArePairs, IsPair
  <2>4. pairs' = ps
    BY <1>5, <2>2, <2>3
  <2> QED
    BY <1>10, <1>11, <2>4
<1>15. CursorInv(C!PairSeq)' /\ C!PreparedWhenDone'
  BY <1>2, <1>12, <1>14, CursorStays
<1> QED
  BY <1>7, <1>8, <1>12, <1>13, <1>15 DEF ComparisonsInv

\* What a step leaves of the comparisons, when it adds some.
LEMMA ComparisonsStay ==
    ASSUME C!ComparisonsAssumption, ComparisonsInv, NEW new, IsFiniteSet(new),
           NEW m \in Nat, clock <= m, \A c \in new : IsNew(c, purged, m),
           comparisons' \in C!Latest(comparisons \cup new, MaxComparisons)
    PROVE  IsFiniteSet(comparisons') /\ \A c \in comparisons' : IsComparison(c, ingested, purged, m)
<1>1. IsFiniteSet(comparisons \cup new) /\ MaxComparisons \in Nat
  BY FS_Union DEF ComparisonsInv, C!ComparisonsAssumption
<1>2. comparisons' \subseteq comparisons \cup new /\ IsFiniteSet(comparisons')
  BY <1>1, LatestIs
<1>3. ASSUME NEW c \in comparisons PROVE IsComparison(c, ingested, purged, m)
  <2>1. IsComparison(c, ingested, purged, clock) /\ clock \in Nat
    BY DEF ComparisonsInv, HistoryInv
  <2> QED
    BY <2>1, ComparisonStays
<1>4. ASSUME NEW c \in new PROVE IsComparison(c, ingested, purged, m)
  BY NewComparison
<1> QED
  BY <1>2, <1>3, <1>4

LEMMA ReassessKeeps ==
    ASSUME C!ComparisonsAssumption, ComparisonsInv, C!Reassess PROVE ComparisonsInv'
<1> DEFINE o == C!Max(C!Assessed(stored))
           y == [obs |-> o, ver |-> version, rev |-> revision + 1, gone |-> purged[o],
                 at |-> clock + 1]
           as == stored \cup {y}
           new == C!Added(as, comparisons, pairs, y, purged)
<1>1. /\ stored # {} /\ clock' = clock + 1 /\ revision' = revision + 1 /\ stored' = as
      /\ comparisons' \in C!Latest(comparisons \cup new, MaxComparisons)
      /\ UNCHANGED << ingested, purged, bodies, pairs >> /\ C!Unprepared
  BY DEF C!Reassess
<1>2. /\ clock \in Nat /\ revision \in Nat /\ Assessments(stored, revision, clock)
      /\ \A a \in stored : ingested[a.obs] # 0
      /\ IsFiniteSet(pairs) /\ ArePairs(pairs, stored, purged)
  BY DEF ComparisonsInv, HistoryInv
<1>3. o \in C!Assessed(stored)
  <2>1. C!Assessed(stored) \in SUBSET (0 .. NumObservations) /\ NumObservations \in Nat
    <3>1. NumObservations \in Nat
      BY DEF C!ComparisonsAssumption
    <3>2. C!Assessed(stored) \subseteq 1 .. NumObservations
      BY <1>2 DEF C!Assessed, Assessments, C!Observations
    <3> QED
      BY <3>1, <3>2
  <2>2. C!Assessed(stored) # {}
    BY <1>1 DEF C!Assessed
  <2> QED
    BY <2>1, <2>2, GreatestIs
<1>4. o \in C!Observations /\ ingested[o] # 0
  BY <1>2, <1>3 DEF C!Assessed, Assessments
<1> HIDE DEF o
<1>5. Assessments(as, revision + 1, clock + 1) /\ \A a \in as : ingested[a.obs] # 0
  <2>1. Assessments(stored, revision + 1, clock + 1)
    BY <1>2 DEF Assessments
  <2>2. y.obs = o /\ y.rev \in 0 .. revision + 1 /\ y.at \in 0 .. clock + 1
    BY <1>2
  <2> HIDE DEF y
  <2> QED
    BY <1>2, <1>4, <2>1, <2>2 DEF Assessments
<1>6. HistoryInv'
  <2>1. clock' \in Nat /\ revision' \in Nat /\ Assessments(stored', revision', clock')
    BY <1>1, <1>2, <1>5
  <2>2. \A p \in C!Observations : ingested[p] \in Nat /\ ingested[p] <= clock
    BY DEF ComparisonsInv, HistoryInv
  <2>3. \A p \in C!Observations : ingested'[p] <= clock'
    BY <1>1, <1>2, <2>2
  <2>4. /\ ingested' \in [C!Observations -> Nat]
        /\ \A p \in C!Observations :
              ingested'[p] # 0 => Cardinality(Later(ingested', p)) < ComparedRetained
    BY <1>1 DEF ComparisonsInv, HistoryInv
  <2>5. \A a \in stored' : ingested'[a.obs] # 0
    BY <1>1, <1>5
  <2> QED
    BY <2>1, <2>3, <2>4, <2>5 DEF HistoryInv
<1>7. ArePairs(pairs, as, purged) /\ y \in as
  <2>1. C!Assessed(stored) \subseteq C!Assessed(as)
    BY DEF C!Assessed
  <2> QED
    BY <1>2, <2>1 DEF ArePairs, IsPair
<1>8. IsFiniteSet(new) /\ \A c \in new : IsNew(c, purged, clock + 1)
  <2>1. clock + 1 \in Nat /\ revision + 1 \in Nat
    BY <1>2
  <2> HIDE DEF y, as
  <2>2. IsFiniteSet(new) /\ \A c \in new : IsNew(c, purged, clock + 1)
    BY <1>5, <1>7, <2>1, AddedAre
  <2> QED
    BY <2>2
<1> HIDE DEF new
<1>9. /\ IsFiniteSet(comparisons')
      /\ \A c \in comparisons' : IsComparison(c, ingested', purged', clock')
  <2>1. clock + 1 \in Nat /\ clock <= clock + 1
    BY <1>2
  <2>2. /\ IsFiniteSet(comparisons')
        /\ \A c \in comparisons' : IsComparison(c, ingested, purged, clock + 1)
    BY <1>1, <1>8, <2>1, ComparisonsStay
  <2> QED
    BY <1>1, <2>2
<1>10. IsFiniteSet(pairs') /\ ArePairs(pairs', stored', purged')
  BY <1>1, <1>2, <1>7
<1>11. \A b \in bodies' : IsBody(b, ingested', purged')
  BY <1>1 DEF ComparisonsInv
<1>12. CursorInv(C!PairSeq)' /\ C!PreparedWhenDone'
  BY <1>1, <1>10, CursorStays
<1> QED
  BY <1>6, <1>9, <1>10, <1>11, <1>12 DEF ComparisonsInv

LEMMA CompareKeeps ==
    ASSUME C!ComparisonsAssumption, ComparisonsInv, NEW x \in stored, NEW y \in stored,
           C!Compare(x, y)
    PROVE  ComparisonsInv'
<1> DEFINE c == C!Comparison({}, x, y, purged, clock)
<1>1. /\ comparisons' \in C!Latest(comparisons \cup {c}, MaxComparisons) /\ C!Unprepared
      /\ UNCHANGED << ingested, purged, stored, bodies, pairs, version, revision, clock >>
  BY DEF C!Compare
<1>2. x.obs \in C!Observations /\ y.obs \in C!Observations /\ clock \in Nat /\ clock <= clock
  BY DEF ComparisonsInv, HistoryInv, Assessments
<1>3. IsNew(c, purged, clock)
  <2>1. ArePairs({}, stored, purged)
    BY DEF ArePairs
  <2> QED
    BY <1>2, <2>1, ComparisonIs
<1> HIDE DEF c
<1>4. IsFiniteSet({c}) /\ \A k \in {c} : IsNew(k, purged, clock)
  BY <1>3, FS_Singleton
<1>5. IsFiniteSet(comparisons') /\ \A k \in comparisons' : IsComparison(k, ingested, purged, clock)
  BY <1>1, <1>2, <1>4, ComparisonsStay
<1>6. CursorInv(C!PairSeq)' /\ C!PreparedWhenDone'
  <2>1. IsFiniteSet(pairs') /\ pairs \subseteq pairs'
    BY <1>1 DEF ComparisonsInv
  <2> QED
    BY <1>1, <2>1, CursorStays
<1>7. HistoryInv'
  BY <1>1 DEF ComparisonsInv, HistoryInv
<1> QED
  BY <1>1, <1>5, <1>6, <1>7 DEF ComparisonsInv

LEMMA UpgradeKeeps ==
    ASSUME C!ComparisonsAssumption, ComparisonsInv, C!Upgrade PROVE ComparisonsInv'
<1>1. /\ UNCHANGED << ingested, purged, stored, comparisons, bodies, pairs, revision, clock >>
      /\ C!Unprepared
  BY DEF C!Upgrade, C!store
<1>2. CursorInv(C!PairSeq)' /\ C!PreparedWhenDone'
  <2>1. IsFiniteSet(pairs') /\ pairs \subseteq pairs'
    BY <1>1 DEF ComparisonsInv
  <2> QED
    BY <1>1, <2>1, CursorStays
<1>3. HistoryInv'
  BY <1>1 DEF ComparisonsInv, HistoryInv
<1> QED
  BY <1>1, <1>2, <1>3 DEF ComparisonsInv

\* A step that forgets observations and what hangs on them.
LEMMA ForgettingKeeps ==
    ASSUME C!ComparisonsAssumption, ComparisonsInv, C!Unprepared,
           clock' = clock /\ revision' = revision,
           ingested' \in [C!Observations -> Nat],
           \A p \in C!Observations : ingested'[p] \in {0, ingested[p]},
           stored' \subseteq stored, bodies' \subseteq bodies, pairs' \subseteq pairs,
           comparisons' \subseteq comparisons,
           NEW os,
           \A o \in C!Observations \ os : ingested'[o] # 0 => purged'[o] = purged[o],
           \A a \in stored' : a.obs \notin os /\ ingested'[a.obs] # 0,
           \A b \in bodies' : b.obs \notin os /\ ingested'[b.obs] # 0,
           \A c \in comparisons' : c.before.obs \notin os /\ c.after.obs \notin os,
           \A p \in pairs' : {p.before, p.obs} \subseteq C!Assessed(stored'),
           stored' = stored => pairs \subseteq pairs'
    PROVE  ComparisonsInv'
<1>1. /\ clock \in Nat /\ revision \in Nat
      /\ ingested \in [C!Observations -> Nat]
      /\ \A o \in C!Observations :
            /\ ingested[o] <= clock
            /\ ingested[o] # 0 => Cardinality(Later(ingested, o)) < ComparedRetained
      /\ Assessments(stored, revision, clock)
  BY DEF ComparisonsInv, HistoryInv
<1>2. HistoryInv'
  <2>1. Roomy(ingested')
    <3>1. \A o \in C!Observations :
             ingested'[o] # 0 => Cardinality(Later(ingested, o)) < ComparedRetained
      BY <1>1
    <3> QED
      BY <1>1, <3>1, StayRoomy
  <2>2. \A o \in C!Observations : ingested'[o] <= clock
    BY <1>1
  <2>3. Assessments(stored', revision, clock)
    BY <1>1 DEF Assessments
  <2> QED
    BY <1>1, <2>1, <2>2, <2>3 DEF HistoryInv, Roomy
<1>3. ASSUME NEW b \in bodies' PROVE IsBody(b, ingested', purged')
  <2>1. IsBody(b, ingested, purged)
    BY DEF ComparisonsInv
  <2> QED
    BY <2>1 DEF IsBody
<1>4. ASSUME NEW c \in comparisons' PROVE IsComparison(c, ingested', purged', clock)
  <2>1. IsComparison(c, ingested, purged, clock)
    BY DEF ComparisonsInv
  <2>2. \A o \in {c.before.obs, c.after.obs} : o \in C!Observations \ os
    BY <2>1 DEF IsComparison
  <2>3. \A o \in {c.before.obs, c.after.obs} :
           /\ ingested'[o] \in {0, ingested[o]} \/ ingested'[o] > clock
           /\ ingested'[o] # 0 => purged'[o] = purged[o]
    BY <2>2
  <2>4. clock <= clock
    BY <1>1
  <2> QED
    BY <1>1, <2>1, <2>3, <2>4, ComparisonStays
<1>5. ASSUME NEW p \in pairs' PROVE IsPair(p, stored', purged')
  <2>1. IsPair(p, stored, purged)
    BY DEF ComparisonsInv, ArePairs
  <2>2. {p.before, p.obs} \subseteq C!Assessed(stored')
    OBVIOUS
  <2>3. \A o \in C!Assessed(stored') : o \in C!Observations \ os /\ ingested'[o] # 0
    <3>1. \A a \in stored' : a.obs \in C!Observations
      BY <1>1 DEF Assessments
    <3> QED
      BY <3>1 DEF C!Assessed
  <2>4. \A o \in {p.before, p.obs} : purged'[o] = purged[o]
    BY <2>2, <2>3
  <2> QED
    BY <2>1, <2>2, <2>4, PairStays
<1>6. IsFiniteSet(pairs') /\ IsFiniteSet(comparisons')
  BY FS_Subset DEF ComparisonsInv
<1>7. CursorInv(C!PairSeq)' /\ C!PreparedWhenDone'
  BY <1>6, CursorStays
<1> QED
  BY <1>2, <1>3, <1>4, <1>5, <1>6, <1>7 DEF ComparisonsInv, ArePairs

LEMMA PurgesKeep ==
    ASSUME C!ComparisonsAssumption, ComparisonsInv,
           \/ \E s \in Subjects, refs \in {{}, C!Retained(ingested)} : C!PurgeDevice(s, refs)
           \/ \E o \in C!Observations : C!PurgeBefore(o)
    PROVE  ComparisonsInv'
<1>1. /\ ingested \in [C!Observations -> Nat] /\ Assessments(stored, revision, clock)
      /\ \A a \in stored : ingested[a.obs] # 0
      /\ \A p \in pairs : p.before \in C!Assessed(stored) /\ p.obs \in C!Assessed(stored)
      /\ \A b \in bodies : ingested[b.obs] # 0
      /\ \A o \in C!Assessed(stored) : o \in C!Observations
  BY DEF ComparisonsInv, HistoryInv, ArePairs, IsPair, IsBody, C!Assessed, Assessments
<1>2. ASSUME NEW s \in Subjects, NEW refs \in {{}, C!Retained(ingested)}, C!PurgeDevice(s, refs)
      PROVE  ComparisonsInv'
  <2> DEFINE os == refs \cup {o \in C!Retained(ingested) : C!Reported(o, purged[o], s) # {}}
  <2>1. /\ purged' = [o \in C!Observations |-> IF o \in os THEN purged[o] \cup {s} ELSE purged[o]]
        /\ bodies' = {b \in bodies : b.obs \notin os}
        /\ pairs' = {p \in pairs : p.before \notin os /\ p.obs \notin os}
        /\ comparisons' = {c \in comparisons : c.before.obs \notin os /\ c.after.obs \notin os}
        /\ stored' = {a \in stored : a.obs \notin os}
        /\ ingested' = ingested /\ clock' = clock /\ revision' = revision
        /\ C!Unprepared
    BY <1>2 DEF C!PurgeDevice, C!DropPairs
  <2> HIDE DEF os
  <2>2. \A o \in C!Observations \ os : ingested'[o] # 0 => purged'[o] = purged[o]
    BY <2>1
  <2>3. \A o \in C!Assessed(stored) : o \notin os => o \in C!Assessed(stored')
    BY <2>1 DEF C!Assessed
  <2>4. \A p \in pairs' : {p.before, p.obs} \subseteq C!Assessed(stored')
    BY <1>1, <2>1, <2>3
  <2>5. stored' = stored => pairs \subseteq pairs'
    <3>1. ASSUME stored' = stored, NEW o \in C!Assessed(stored) PROVE o \notin os
      BY <2>1, <3>1 DEF C!Assessed
    <3> QED
      BY <1>1, <2>1, <3>1
  <2>6. /\ \A p \in C!Observations : ingested'[p] \in {0, ingested[p]}
        /\ \A a \in stored' : a.obs \notin os /\ ingested'[a.obs] # 0
        /\ \A b \in bodies' : b.obs \notin os /\ ingested'[b.obs] # 0
        /\ \A c \in comparisons' : c.before.obs \notin os /\ c.after.obs \notin os
    BY <1>1, <2>1
  <2>7. /\ stored' \subseteq stored /\ bodies' \subseteq bodies /\ pairs' \subseteq pairs
        /\ comparisons' \subseteq comparisons /\ ingested' \in [C!Observations -> Nat]
    BY <1>1, <2>1
  <2> QED
    BY <2>1, <2>2, <2>4, <2>5, <2>6, <2>7, ForgettingKeeps
<1>3. ASSUME NEW k \in C!Observations, C!PurgeBefore(k) PROVE ComparisonsInv'
  <2> DEFINE os == {}
             left == [p \in C!Observations |-> IF p < k THEN 0 ELSE ingested[p]]
  <2>1. /\ comparisons' = {c \in comparisons : c.before.obs >= k /\ c.after.obs >= k}
        /\ ingested' = left
        /\ purged' = [o \in C!Observations |-> IF left[o] = 0 THEN {} ELSE purged[o]]
        /\ bodies' = {b \in bodies : left[b.obs] # 0}
        /\ pairs' = {p \in pairs : left[p.before] # 0 /\ left[p.obs] # 0}
        /\ stored' = {a \in stored : left[a.obs] # 0}
        /\ clock' = clock /\ revision' = revision /\ C!Unprepared
    BY <1>3 DEF C!PurgeBefore, C!Cascade
  <2>2. left \in [C!Observations -> Nat] /\ \A p \in C!Observations : left[p] \in {0, ingested[p]}
    BY <1>1
  <2> HIDE DEF left
  <2>3. \A o \in C!Observations \ os : ingested'[o] # 0 => purged'[o] = purged[o]
    BY <2>1
  <2>4. \A o \in C!Assessed(stored) : left[o] # 0 => o \in C!Assessed(stored')
    BY <2>1 DEF C!Assessed
  <2>5. \A p \in pairs' : {p.before, p.obs} \subseteq C!Assessed(stored')
    BY <1>1, <2>1, <2>4
  <2>6. stored' = stored => pairs \subseteq pairs'
    <3>1. ASSUME stored' = stored, NEW o \in C!Assessed(stored) PROVE left[o] # 0
      BY <2>1, <3>1 DEF C!Assessed
    <3> QED
      BY <1>1, <2>1, <3>1
  <2>7. /\ \A a \in stored' : a.obs \notin os /\ ingested'[a.obs] # 0
        /\ \A b \in bodies' : b.obs \notin os /\ ingested'[b.obs] # 0
        /\ \A c \in comparisons' : c.before.obs \notin os /\ c.after.obs \notin os
    BY <2>1
  <2>8. /\ stored' \subseteq stored /\ bodies' \subseteq bodies /\ pairs' \subseteq pairs
        /\ comparisons' \subseteq comparisons
    BY <2>1
  <2>9. /\ ingested' \in [C!Observations -> Nat]
        /\ \A p \in C!Observations : ingested'[p] \in {0, ingested[p]}
    BY <2>1, <2>2
  <2> HIDE DEF os
  <2> QED
    BY <2>1, <2>3, <2>5, <2>6, <2>7, <2>8, <2>9, ForgettingKeeps
<1> QED
  BY <1>2, <1>3

\* The pairs that are still to do, in their order.
LEMMA PairSeqIs ==
    ASSUME ComparisonsInv
    PROVE  /\ Len(C!PairSeq) \in Nat
           /\ \A i \in 1 .. Len(C!PairSeq) : C!PairSeq[i] \in C!PairsToDo
           /\ \A c \in C!PairsToDo : \E i \in 1 .. Len(C!PairSeq) : C!PairSeq[i] = c
<1>1. C!PairsToDo \in SUBSET comparisons
  BY DEF C!PairsToDo
<1>2. IsFiniteSet(C!PairsToDo)
  BY <1>1, FS_Subset DEF ComparisonsInv
<1> QED
  BY <1>2, SequenceOfSet DEF C!PairSeq

LEMMA FittingIs ==
    ASSUME Len(C!PairSeq) \in Nat, NEW m \in 0 .. Len(C!PairSeq), NEW held
    PROVE  C!Fitting(m, held) \in m .. Len(C!PairSeq)
<1> DEFINE n == Len(C!PairSeq)
           admitted(k) == held \cup UNION {C!EndsOf(C!PairSeq[i]) : i \in m + 1 .. k}
           S == {k \in m .. n : k = m \/ C!Cardinality(admitted(k)) <= Limit}
<1>1. C!Fitting(m, held) = C!Max(S)
  BY DEF C!Fitting
<1> HIDE DEF admitted
<1>2. S \in SUBSET (0 .. n) /\ S # {} /\ n \in Nat
  <2>1. m \in S
    OBVIOUS
  <2>2. \A k \in m .. n : k \in 0 .. n
    OBVIOUS
  <2> QED
    BY <2>1, <2>2
<1>3. C!Max(S) \in S
  <2> HIDE DEF S, n
  <2> QED
    BY <1>2, GreatestIs
<1> QED
  BY <1>1, <1>3

LEMMA PreparePageKeeps ==
    ASSUME C!ComparisonsAssumption, ComparisonsInv, C!PreparePage PROVE ComparisonsInv'
<1> DEFINE size == C!Cardinality(C!Bodies)
           from == IF cursor # None THEN cursor ELSE [body |-> 0, pair |-> 0]
           body == C!Min({from.body + Limit, size})
           held == {k \in C!Bodies : C!Position(k) \in from.body + 1 .. body}
           done == C!PublishBody(bodies, {C!Body(k[1], k[2], purged) : k \in held})
           pair == IF body < size THEN from.pair ELSE C!Fitting(from.pair, held)
           took == {C!PairSeq[i] : i \in from.pair + 1 .. pair}
           of(i) == CHOOSE a \in stored : C!Id(a) = i
           one(c) == C!Pair(pairs, of(c.before), of(c.after), purged)
           made == {one(c) : c \in took}
           more == body < size \/ pair < Len(C!PairSeq)
<1>1. PICK bs \in C!Latest(done, MaxRecords) :
          /\ bodies' = bs
          /\ pairs' \in C!Latest(C!Publish(pairs, made), MaxRecords)
          /\ cursor' = IF more THEN [body |-> body, pair |-> pair] ELSE None
          /\ finished' = ~more
  BY DEF C!PreparePage
<1>2. UNCHANGED << ingested, purged, stored, comparisons, version, revision, clock >>
  BY DEF C!PreparePage
<1>3. /\ Len(C!PairSeq) \in Nat
      /\ \A i \in 1 .. Len(C!PairSeq) : C!PairSeq[i] \in C!PairsToDo
      /\ \A c \in C!PairsToDo : \E i \in 1 .. Len(C!PairSeq) : C!PairSeq[i] = c
  BY PairSeqIs
<1>4. from.pair \in 0 .. Len(C!PairSeq) /\ Done(C!PairSeq, pairs, from.pair)
  <2>1. CASE cursor = None
    BY <1>3, <2>1 DEF Done
  <2>2. CASE cursor # None
    BY <2>2 DEF ComparisonsInv, CursorInv
  <2> QED
    BY <2>1, <2>2
<1> HIDE DEF size, from, body
<1>5. pair \in from.pair .. Len(C!PairSeq)
  <2>1. C!Fitting(from.pair, held) \in from.pair .. Len(C!PairSeq)
    BY <1>3, <1>4, FittingIs
  <2> QED
    BY <1>3, <1>4, <2>1
<1> HIDE DEF held, pair
<1>6. HistoryInv'
  BY <1>2 DEF ComparisonsInv, HistoryInv
<1>7. \A b \in bodies' : IsBody(b, ingested', purged')
  <2> SUFFICES ASSUME NEW b \in done PROVE IsBody(b, ingested, purged)
    BY <1>1, <1>2, LatestWithin
  <2>1. CASE b \in bodies
    BY <2>1 DEF ComparisonsInv
  <2>2. CASE b \notin bodies
    <3>1. PICK k \in C!Bodies : b = C!Body(k[1], k[2], purged)
      BY <2>2 DEF C!PublishBody, held
    <3>2. PICK a \in stored : k = << a.obs, a.ver >>
      BY <3>1 DEF C!Bodies
    <3>3. a.obs \in C!Observations /\ ingested[a.obs] # 0
      BY DEF ComparisonsInv, HistoryInv, Assessments
    <3>4. b.obs = a.obs /\ b.input = purged[a.obs]
      BY <3>1, <3>2 DEF C!Body
    <3> QED
      BY <3>3, <3>4 DEF IsBody
  <2> QED
    BY <2>1, <2>2
<1>8. \A c \in took : c \in C!PairsToDo
  BY <1>3, <1>4, <1>5
<1>9. ASSUME NEW c \in took
      PROVE  IsPair(one(c), stored, purged) /\ one(c).key = KeyOf(c)
  <2>1. c \in C!PairsToDo
    BY <1>8
  <2>2. /\ of(c.before) \in stored /\ C!Id(of(c.before)) = c.before
        /\ of(c.after) \in stored /\ C!Id(of(c.after)) = c.after
    <3>1. \E a \in stored : C!Id(a) = c.before
      BY <2>1 DEF C!PairsToDo
    <3>2. \E a \in stored : C!Id(a) = c.after
      BY <2>1 DEF C!PairsToDo
    <3> QED
      BY <3>1, <3>2
  <2>3. /\ of(c.before).obs = c.before.obs /\ of(c.before).ver = c.before.ver
        /\ of(c.after).obs = c.after.obs /\ of(c.after).ver = c.after.ver
    <3> HIDE DEF of
    <3>1. \A a : C!Id(a).obs = a.obs /\ C!Id(a).ver = a.ver
      BY DEF C!Id
    <3> QED
      BY <2>2, <3>1
  <2>4. ArePairs(pairs, stored, purged)
    BY DEF ComparisonsInv
  <2> HIDE DEF of
  <2>5. /\ IsPair(one(c), stored, purged)
        /\ one(c).key = C!PairKey(of(c.before).obs, of(c.after).obs,
                                  of(c.before).ver, of(c.after).ver)
    BY <2>2, <2>4, PairIs
  <2> QED
    BY <2>3, <2>5 DEF KeyOf
<1>10. IsFiniteSet(made) /\ \A p \in made : IsPair(p, stored, purged)
  <2> DEFINE idx == from.pair + 1 .. pair
             g == [i \in idx |-> one(C!PairSeq[i])]
  <2>1. IsFiniteSet(idx)
    <3>1. from.pair + 1 \in Int /\ pair \in Int
      BY <1>3, <1>4, <1>5
    <3> QED
      BY <3>1, FS_Interval
  <2>2. made = {g[i] : i \in idx}
    <3> HIDE DEF one
    <3> QED
      OBVIOUS
  <2> HIDE DEF idx, g
  <2>3. IsFiniteSet({g[i] : i \in idx})
    BY <2>1, FiniteImage
  <2> HIDE DEF took, one
  <2> QED
    BY <1>9, <2>2, <2>3
<1>11. /\ IsFiniteSet(C!Publish(pairs, made))
       /\ pairs \subseteq C!Publish(pairs, made)
       /\ C!Publish(pairs, made) \subseteq pairs \cup made
       /\ \A p \in pairs \cup made : \E q \in C!Publish(pairs, made) : q.key = p.key
       /\ MaxRecords \in Nat
  <2> HIDE DEF made
  <2> QED
    BY <1>10, PublishedAre DEF ComparisonsInv, C!ComparisonsAssumption
<1>12. /\ pairs' \subseteq C!Publish(pairs, made) /\ IsFiniteSet(pairs')
       /\ pairs' = C!Publish(pairs, made) \/ Cardinality(pairs') = MaxRecords
  <2> HIDE DEF made
  <2> QED
    BY <1>1, <1>11, LatestIs
<1>13. ArePairs(pairs', stored', purged')
  <2> HIDE DEF made
  <2> QED
    BY <1>2, <1>10, <1>11, <1>12 DEF ComparisonsInv, ArePairs
<1>14. Done(C!PairSeq, pairs', pair)
  <2>1. CASE Cardinality(pairs') = MaxRecords
    BY <1>11, <2>1 DEF Done
  <2>2. CASE pairs' = C!Publish(pairs, made)
    <3>1. CASE Cardinality(pairs) >= MaxRecords
      <4>1. Done(C!PairSeq, pairs, pair)
        BY <3>1 DEF Done
      <4> QED
        BY <1>11, <1>12, <2>2, <4>1, DoneStays
    <3>2. CASE ~(Cardinality(pairs) >= MaxRecords)
      <4>1. ASSUME NEW i \in 1 .. pair PROVE \E p \in pairs' : p.key = KeyOf(C!PairSeq[i])
        <5>1. CASE i \in 1 .. from.pair
          <6>1. \E p \in pairs : p.key = KeyOf(C!PairSeq[i])
            BY <1>4, <3>2, <5>1 DEF Done
          <6> HIDE DEF made
          <6> QED
            BY <1>11, <2>2, <6>1
        <5>2. CASE i \in from.pair + 1 .. pair
          <6>1. C!PairSeq[i] \in took
            BY <5>2
          <6>2. one(C!PairSeq[i]) \in made /\ one(C!PairSeq[i]).key = KeyOf(C!PairSeq[i])
            BY <1>9, <6>1
          <6> HIDE DEF made, one
          <6> QED
            BY <1>11, <2>2, <6>2
        <5>3. i \in 1 .. from.pair \/ i \in from.pair + 1 .. pair
          BY <1>3, <1>4, <1>5
        <5> QED
          BY <5>1, <5>2, <5>3
      <4> QED
        BY <4>1 DEF Done
    <3> QED
      BY <3>1, <3>2
  <2> QED
    BY <1>12, <2>1, <2>2
<1>15. C!PairsToDo' = C!PairsToDo /\ C!PairSeq' = C!PairSeq
  BY <1>2 DEF C!PairsToDo, C!PairSeq
<1>16. CursorInv(C!PairSeq)'
  <2>1. ASSUME cursor' # None
        PROVE  cursor'.pair \in 0 .. Len(C!PairSeq) /\ Done(C!PairSeq, pairs', cursor'.pair)
    <3>1. cursor'.pair = pair
      BY <1>1, <2>1
    <3>2. pair \in 0 .. Len(C!PairSeq)
      BY <1>3, <1>4, <1>5
    <3> QED
      BY <1>14, <3>1, <3>2
  <2> QED
    BY <1>15, <2>1 DEF CursorInv
<1>17. C!PreparedWhenDone'
  <2> SUFFICES ASSUME finished', NEW c \in C!PairsToDo
               PROVE  (\E p \in pairs' : p.key = KeyOf(c)) \/ C!Cardinality(pairs') >= MaxRecords
    BY <1>15 DEF C!PreparedWhenDone, KeyOf
  <2>1. pair = Len(C!PairSeq)
    <3>1. ~(pair < Len(C!PairSeq))
      BY <1>1
    <3> QED
      BY <1>3, <1>4, <1>5, <3>1
  <2>2. PICK i \in 1 .. Len(C!PairSeq) : C!PairSeq[i] = c
    BY <1>3
  <2> QED
    BY <1>14, <2>1, <2>2, SameComparisonCount DEF Done
<1>18. /\ IsFiniteSet(comparisons')
       /\ \A c \in comparisons' : IsComparison(c, ingested', purged', clock')
  BY <1>2 DEF ComparisonsInv
<1> QED
  BY <1>6, <1>7, <1>12, <1>13, <1>16, <1>17, <1>18 DEF ComparisonsInv

LEMMA ComparisonsBegin ==
    ASSUME C!ComparisonsAssumption, C!Init PROVE ComparisonsInv
<1>1. HistoryInv
  <2>1. ingested \in [C!Observations -> Nat] /\ \A o \in C!Observations : ingested[o] = 0
    BY DEF C!Init
  <2>2. clock = 0 /\ revision = 0 /\ stored = {}
    BY DEF C!Init
  <2> QED
    BY <2>1, <2>2 DEF HistoryInv, Assessments
<1>2. IsFiniteSet(pairs) /\ IsFiniteSet(comparisons)
  BY FS_EmptySet DEF C!Init
<1>3. cursor = None /\ finished = FALSE /\ bodies = {} /\ pairs = {} /\ comparisons = {}
  BY DEF C!Init
<1> QED
  BY <1>1, <1>2, <1>3 DEF ComparisonsInv, CursorInv, C!PreparedWhenDone, ArePairs

LEMMA ComparisonsStep ==
    ASSUME C!ComparisonsAssumption, ComparisonsInv, C!Next \/ UNCHANGED comparisonsVars
    PROVE  ComparisonsInv'
<1>1. CASE UNCHANGED comparisonsVars
  <2>1. C!PairSeq' = C!PairSeq /\ C!PairsToDo' = C!PairsToDo
    BY <1>1 DEF comparisonsVars, C!PairSeq, C!PairsToDo
  <2>2. HistoryInv'
    BY <1>1 DEF comparisonsVars, ComparisonsInv, HistoryInv
  <2>3. CursorInv(C!PairSeq)' /\ C!PreparedWhenDone'
    BY <1>1, <2>1 DEF comparisonsVars, ComparisonsInv, CursorInv, C!PreparedWhenDone
  <2> QED
    BY <1>1, <2>2, <2>3 DEF comparisonsVars, ComparisonsInv
<1>2. CASE C!Next
  BY <1>2, ProcessKeeps, ReassessKeeps, CompareKeeps, UpgradeKeeps, PurgesKeep, PreparePageKeeps
     DEF C!Next
<1> QED
  BY <1>1, <1>2

\* A link is said to be gone only on the word of a file that showed it.
LEMMA RemovedIs ==
    ASSUME NEW b, NEW a, NEW old, NEW new, C!Transition(b, a, old, new) = "removed"
    PROVE  C!Witnessed(b, a, C!Newer(b, a, old, new)) /\ new = {} /\ old # {}
<1>1. C!Witnessed(b, a, C!Newer(b, a, old, new))
  BY DEF C!Transition
<1>2. old # {} \/ new # {}
  BY <1>1 DEF C!Witnessed, C!Newer
<1>3. CASE old = {}
  BY <1>1, <1>2, <1>3 DEF C!Transition
<1>4. CASE old # {} /\ new # {}
  BY <1>1, <1>4 DEF C!Transition
<1> QED
  BY <1>1, <1>3, <1>4

LEMMA RemovalIsWitnessed ==
    ASSUME C!ComparisonsAssumption, NEW c, IsComparison(c, ingested, purged, clock),
           NEW s \in DOMAIN c.items, c.items[s] = "removed"
    PROVE  \E f \in InFiles[c.before.obs][s] :
              /\ ReadAt[c.before.obs][f] < ReadAt[c.after.obs][f]
              /\ f \in Whole[c.after.obs]
              /\ C!Kept(c) => f \notin InFiles[c.after.obs][s] \/ s \in purged[c.after.obs]
<1> DEFINE b == c.before.obs
           a == c.after.obs
           Gone(bgone, agone) ==
               \E f \in InFiles[b][s] :
                  /\ ReadAt[b][f] < ReadAt[a][f] /\ f \in Whole[a]
                  /\ f \notin InFiles[a][s] \/ s \in agone
<1>1. b \in C!Observations /\ a \in C!Observations
  BY DEF IsComparison
<1>2. ASSUME NEW bgone, NEW agone, ItemsIn(c, bgone, agone) PROVE Gone(bgone, agone)
  <2> DEFINE old == C!Reported(b, bgone, s)
             new == C!Reported(a, agone, s)
             newer == C!Newer(b, a, old, new)
  <2>1. s \in Subjects /\ c.items[s] = C!Transition(b, a, old, new)
    BY <1>2 DEF ItemsIn, C!Items
  <2>2. C!Witnessed(b, a, newer) /\ new = {} /\ old # {}
    BY <2>1, RemovedIs
  <2>3. old \subseteq InFiles[b][s] /\ InFiles[b][s] \subseteq Nat
    <3>1. InFiles[b][s] \subseteq ComparedFiles /\ ComparedFiles \subseteq Nat
      BY <1>1, <2>1 DEF C!ComparisonsAssumption
    <3> QED
      BY <3>1 DEF C!Reported
  <2>4. newer \in SUBSET Nat /\ newer # {} /\ newer \subseteq old
    BY <2>2, <2>3 DEF C!Witnessed, C!Newer
  <2>5. C!Min(newer) \in newer
    <3> HIDE DEF newer
    <3> QED
      BY <2>4, LeastIs
  <2>6. C!Min(newer) \in Whole[a]
    BY <2>2 DEF C!Witnessed
  <2>7. ReadAt[b][C!Min(newer)] < ReadAt[a][C!Min(newer)]
    BY <2>5 DEF C!Newer, C!Advanced
  <2>8. C!Min(newer) \notin InFiles[a][s] \/ s \in agone
    BY <2>2 DEF C!Reported
  <2> HIDE DEF newer
  <2> QED
    BY <2>3, <2>4, <2>5, <2>6, <2>7, <2>8
<1>3. CASE C!Kept(c)
  <2>1. ItemsIn(c, purged[b], purged[a])
    BY <1>3 DEF IsComparison, KeptIn, C!Kept
  <2> QED
    BY <1>2, <2>1
<1>4. CASE ~C!Kept(c)
  <2>1. PICK bgone, agone : ItemsIn(c, bgone, agone)
    BY DEF IsComparison
  <2> QED
    BY <1>2, <1>4, <2>1
<1> QED
  BY <1>3, <1>4

LEMMA ComparisonsDecided ==
    ASSUME C!ComparisonsAssumption, ComparisonsInv
    PROVE  /\ C!PreparedIsCurrent /\ C!StoredIsDerived
           /\ C!PreparedWhenDone /\ C!RemovalsAreWitnessed
<1>1. C!PreparedIsCurrent
  <2>1. \A o \in C!Assessed(stored) : ingested[o] # 0
    BY DEF ComparisonsInv, HistoryInv, C!Assessed
  <2>2. \A p \in pairs : IsPair(p, stored, purged)
    BY DEF ComparisonsInv, ArePairs
  <2>3. \A b \in bodies : IsBody(b, ingested, purged)
    BY DEF ComparisonsInv
  <2> QED
    BY <2>1, <2>2, <2>3 DEF IsPair, IsBody, C!PreparedIsCurrent
<1>2. \A c \in comparisons : IsComparison(c, ingested, purged, clock)
  BY DEF ComparisonsInv
<1>3. C!StoredIsDerived
  BY <1>2 DEF C!StoredIsDerived, C!Kept, IsComparison, KeptIn, ItemsIn
<1>4. C!RemovalsAreWitnessed
  BY <1>2, RemovalIsWitnessed DEF C!RemovalsAreWitnessed
<1> QED
  BY <1>1, <1>3, <1>4 DEF ComparisonsInv

\* What is prepared and what is stored is what the samples that are left say, a preparation
\* that is done has left no pair out, and a link that is said to be gone has a witness
\* (derive_comparison, publish_pair, prepare_history and the purges, in their transactions).
THEOREM ComparisonsAreCurrent == Spec => []PreparedIsCurrent
<1>1. Init => ComparisonsInv
  BY ComparisonsBegin, HealthHistoryAssumptions DEF Init
<1>2. ComparisonsInv /\ [Next]_vars => ComparisonsInv'
  BY ComparisonsStep, HealthHistoryAssumptions DEF Next, vars
<1>3. ComparisonsInv => PreparedIsCurrent
  BY ComparisonsDecided, HealthHistoryAssumptions DEF PreparedIsCurrent
<1> QED
  BY <1>1, <1>2, <1>3, PTL DEF Spec

-----------------------------------------------------------------------------
(* MeshGraph: analyze_undirected_graph of td_health_graph.py.              *)
(*                                                                         *)
(* The argument is that of the textbook.  A node is joined to another by   *)
(* edges of the tree that the search spans (Tree); what low says of a call *)
(* is a bound for the edges that lead back from what was discovered in the *)
(* call, and some edge attains it.  So a child whose low is above its      *)
(* parent's number is held by one edge only, and one whose low is not      *)
(* below it by one node only; where neither is the case there is a way     *)
(* around.  GraphInv says this of every state of the search.               *)

\* y is reached from x.
Joined(N, E, x, y) == y \in V!Reachable(N, E, x)

\* Both instances of Connectivity count alike ...
LEMMA SameGraphCount ==
    \A S : G!Cardinality(S) = Cardinality(S)
  BY DEF G!Cardinality, Cardinality, G!IsFiniteSet, IsFiniteSet

\* ... and reach the same.
LEMMA SameReach == ASSUME NEW N, NEW E, NEW x PROVE G!Reachable(N, E, x) = V!Reachable(N, E, x)
<1>1. G!Cardinality(N) = V!Cardinality(N)
  BY SameGraphCount, SameVerdictCount
<1> QED
  BY <1>1 DEF G!Reachable, V!Reachable

\* A node is joined to itself ...
LEMMA JoinedSelf ==
    ASSUME NEW N, IsFiniteSet(N), NEW E, NEW x \in N PROVE Joined(N, E, x, x)
  BY ReachableIsLeastShut DEF Joined

\* What is joined to a node of a shut set is in it.
LEMMA JoinedStays ==
    ASSUME NEW N, IsFiniteSet(N), NEW E, NEW S, Shut(N, E, S), NEW x \in N, x \in S,
           NEW y, Joined(N, E, x, y)
    PROVE  y \in S /\ y \in N
  BY ReachableIsLeastShut DEF Joined

\* Ways can be put together ...
LEMMA JoinedOn ==
    ASSUME NEW N, IsFiniteSet(N), NEW E, NEW x \in N, NEW y, NEW z,
           Joined(N, E, x, y), Joined(N, E, y, z)
    PROVE  Joined(N, E, x, z)
<1>1. y \in N /\ Shut(N, E, V!Reachable(N, E, x)) /\ y \in V!Reachable(N, E, x)
  BY ReachableIsLeastShut DEF Joined
<1>2. z \in V!Reachable(N, E, x)
  BY <1>1, JoinedStays
<1> QED
  BY <1>2 DEF Joined

\* ... an edge is a way ...
LEMMA JoinedEdge ==
    ASSUME NEW N, IsFiniteSet(N), NEW E, NEW x \in N, NEW y \in N, {x, y} \in E
    PROVE  Joined(N, E, x, y)
<1>1. x \in V!Reachable(N, E, x) /\ Shut(N, E, V!Reachable(N, E, x))
  BY ReachableIsLeastShut
<1> QED
  BY <1>1 DEF Joined, Shut

\* ... and each way leads back.
LEMMA JoinedBack ==
    ASSUME NEW N, IsFiniteSet(N), NEW E, NEW x \in N, NEW y, Joined(N, E, x, y)
    PROVE  y \in N /\ Joined(N, E, y, x)
<1> DEFINE S == {z \in N : Joined(N, E, z, x)}
<1>1. x \in S
  BY JoinedSelf
<1>2. Shut(N, E, S)
  <2> SUFFICES ASSUME NEW z \in S, NEW t \in N, {z, t} \in E PROVE Joined(N, E, t, x)
    BY DEF Shut
  <2>1. {t, z} = {z, t}
    OBVIOUS
  <2>2. Joined(N, E, t, z)
    BY <2>1, JoinedEdge
  <2> QED
    BY <2>2, JoinedOn
<1>3. y \in S
  <2> HIDE DEF S
  <2> QED
    BY <1>1, <1>2, JoinedStays
<1> QED
  BY <1>3

\* Two nodes that are joined to a third are joined.
LEMMA JoinedBoth ==
    ASSUME NEW N, IsFiniteSet(N), NEW E, NEW x \in N, NEW y \in N, NEW z,
           Joined(N, E, x, z), Joined(N, E, y, z)
    PROVE  Joined(N, E, x, y)
<1>1. Joined(N, E, z, y)
  BY JoinedBack
<1> QED
  BY <1>1, JoinedOn

\* Nodes are joined by other edges, if these lead on wherever the first ones do.
LEMMA JoinedElse ==
    ASSUME NEW N, IsFiniteSet(N), NEW E, NEW M, IsFiniteSet(M), NEW L,
           \A a \in M, b \in N : {a, b} \in E => b \in M /\ {a, b} \in L,
           NEW x \in N, x \in M, NEW y, Joined(N, E, x, y)
    PROVE  Joined(M, L, x, y)
<1> DEFINE S == V!Reachable(M, L, x)
<1>1. x \in S /\ S \subseteq M /\ Shut(M, L, S)
  BY ReachableIsLeastShut
<1> HIDE DEF S
<1>2. Shut(N, E, S)
  BY <1>1 DEF Shut
<1>3. y \in S
  BY <1>1, <1>2, JoinedStays
<1> QED
  BY <1>3 DEF S, Joined

\* More edges join no less.
LEMMA JoinedMore ==
    ASSUME NEW N, IsFiniteSet(N), NEW E, NEW L, E \subseteq L,
           NEW x \in N, NEW y, Joined(N, E, x, y)
    PROVE  Joined(N, L, x, y)
<1>1. \A a \in N, b \in N : {a, b} \in E => b \in N /\ {a, b} \in L
  OBVIOUS
<1> QED
  BY <1>1, JoinedElse

\* What is reached from two nodes is the same, if they are joined.
LEMMA JoinedSame ==
    ASSUME NEW N, IsFiniteSet(N), NEW E, NEW x \in N, NEW y \in N
    PROVE  V!Reachable(N, E, x) = V!Reachable(N, E, y) <=> Joined(N, E, x, y)
<1>1. ASSUME Joined(N, E, x, y) PROVE V!Reachable(N, E, x) = V!Reachable(N, E, y)
  <2>1. \A z : Joined(N, E, x, z) => Joined(N, E, y, z)
    BY <1>1, JoinedBack, JoinedOn
  <2>2. \A z : Joined(N, E, y, z) => Joined(N, E, x, z)
    BY <1>1, JoinedOn
  <2> QED
    BY <2>1, <2>2 DEF Joined
<1>2. ASSUME V!Reachable(N, E, x) = V!Reachable(N, E, y) PROVE Joined(N, E, x, y)
  BY <1>2, JoinedSelf DEF Joined
<1> QED
  BY <1>1, <1>2

\* There are finitely many components.
LEMMA ComponentsFinite ==
    ASSUME NEW N, IsFiniteSet(N), NEW E
    PROVE  /\ IsFiniteSet(V!Components(N, E))
           /\ Cardinality(V!Components(N, E)) \in Nat
<1> DEFINE f == [v \in N |-> V!Reachable(N, E, v)]
<1>1. f \in Surjection(N, V!Components(N, E))
  BY DEF V!Components, Surjection
<1> HIDE DEF f
<1>2. IsFiniteSet(V!Components(N, E))
  BY <1>1, FS_Surjection
<1> QED
  BY <1>2, FS_CardinalityType

\* A component as the component of a member.
LEMMA ComponentOf ==
    ASSUME NEW N, IsFiniteSet(N), NEW E, NEW c \in V!Components(N, E)
    PROVE  /\ (CHOOSE v : v \in c) \in N
           /\ c = V!Reachable(N, E, CHOOSE v : v \in c)
<1>1. PICK x \in N : c = V!Reachable(N, E, x)
  BY DEF V!Components
<1>2. x \in c
  BY <1>1, JoinedSelf DEF Joined
<1>3. PICK u : u = CHOOSE v : v \in c
  OBVIOUS
<1>4. Joined(N, E, x, u)
  BY <1>1, <1>2, <1>3 DEF Joined
<1>5. u \in N
  BY <1>4, JoinedBack
<1>6. c = V!Reachable(N, E, u)
  BY <1>1, <1>4, <1>5, JoinedSame
<1> QED
  BY <1>3, <1>5, <1>6, Zenon

\* A graph whose components are torn apart by leaving something out has more of them then.
LEMMA TornApart ==
    ASSUME NEW N, IsFiniteSet(N), NEW E, NEW M \in SUBSET N, NEW L \in SUBSET E,
           \A v \in N : \E u \in M : Joined(N, E, v, u),
           NEW a \in M, NEW b \in M, Joined(N, E, a, b), ~Joined(M, L, a, b)
    PROVE  Cardinality(V!Components(M, L)) > Cardinality(V!Components(N, E))
<1> DEFINE K == V!Components(N, E)
           D == V!Components(M, L)
           f == [d \in D |-> V!Reachable(N, E, CHOOSE v : v \in d)]
<1>0. IsFiniteSet(M)
  BY FS_Subset
<1>1. \A u \in M : V!Reachable(M, L, u) \in D
  BY DEF V!Components
<1>2. ASSUME NEW u \in M PROVE f[V!Reachable(M, L, u)] = V!Reachable(N, E, u)
  <2> DEFINE d == V!Reachable(M, L, u)
  <2>1. PICK t : t = CHOOSE v : v \in d
    OBVIOUS
  <2>2. d \in D
    BY <1>1
  <2>3. t \in M /\ d = V!Reachable(M, L, t)
    BY <1>0, <2>1, <2>2, ComponentOf
  <2>4. Joined(M, L, t, u)
    BY <1>0, <2>3, JoinedSame
  <2>5. \A x \in N, y \in M : {x, y} \in L => y \in N /\ {x, y} \in E
    OBVIOUS
  <2>6. Joined(N, E, t, u)
    BY <1>0, <2>3, <2>4, <2>5, JoinedElse, Zenon
  <2>7. f[d] = V!Reachable(N, E, t)
    BY <2>1, <2>2
  <2> QED
    BY <2>3, <2>6, <2>7, JoinedSame
<1>3. f \in [D -> K]
  <2>1. \A d \in D : (CHOOSE v : v \in d) \in M
    BY <1>0, ComponentOf
  <2> QED
    BY <2>1, Zenon DEF V!Components
<1>4. ASSUME NEW k \in K PROVE \E d \in D : f[d] = k
  <2>1. PICK x \in N : k = V!Reachable(N, E, x)
    BY DEF V!Components
  <2>2. PICK u \in M : Joined(N, E, x, u)
    OBVIOUS
  <2>3. k = V!Reachable(N, E, u)
    BY <2>1, <2>2, JoinedSame
  <2> QED
    BY <1>1, <1>2, <2>3, Zenon
<1>5. \E c, d \in D : c # d /\ f[c] = f[d]
  <2>1. V!Reachable(M, L, a) # V!Reachable(M, L, b)
    BY <1>0, JoinedSame
  <2>2. V!Reachable(N, E, a) = V!Reachable(N, E, b)
    BY JoinedSame
  <2>3. f[V!Reachable(M, L, a)] = f[V!Reachable(M, L, b)]
    BY <1>2, <2>2, Zenon
  <2> HIDE DEF f, D
  <2> QED
    BY <1>1, <2>1, <2>3
<1>6. IsFiniteSet(D) /\ Cardinality(D) \in Nat /\ Cardinality(K) \in Nat
  BY <1>0, ComponentsFinite
<1> HIDE DEF f, K, D
<1>7. f \in Surjection(D, K)
  BY <1>3, <1>4 DEF Surjection
<1>8. f \notin Injection(D, K)
  BY <1>5 DEF Injection, IsInjective
<1>9. Cardinality(K) <= Cardinality(D) /\ Cardinality(K) # Cardinality(D)
  BY <1>6, <1>7, <1>8, FS_Surjection
<1>10. Cardinality(D) > Cardinality(K)
  BY <1>6, <1>9
<1> QED
  BY <1>10 DEF K, D

\* A graph has no more components without a node if its neighbours are joined without it.
LEMMA NotTorn ==
    ASSUME NEW N, IsFiniteSet(N), NEW E, NEW v \in N,
           \A x, y \in N : {v, x} \in E /\ {v, y} \in E /\ x # v /\ y # v =>
              Joined(N \ {v}, V!Without(E, v), x, y)
    PROVE  Cardinality(V!Components(N \ {v}, V!Without(E, v))) <= Cardinality(V!Components(N, E))
<1> DEFINE M == N \ {v}
           L == V!Without(E, v)
           K == V!Components(N, E)
           D == V!Components(M, L)
           f == [d \in D |-> V!Reachable(N, E, CHOOSE t : t \in d)]
<1>0. IsFiniteSet(M)
  BY FS_Subset
<1>1. \A d \in D : (CHOOSE t : t \in d) \in M /\ d = V!Reachable(M, L, CHOOSE t : t \in d)
  BY <1>0, ComponentOf, Zenon
<1>2. f \in [D -> K]
  BY <1>1, Zenon DEF V!Components
<1>3. ASSUME NEW x \in M, NEW y \in M, Joined(N, E, x, y) PROVE Joined(M, L, x, y)
  <2> DEFINE P == V!Reachable(M, L, x)
             S == P \cup {u \in {v} : \E z \in P : {v, z} \in E}
  <2>1. x \in P /\ P \subseteq M /\ Shut(M, L, P)
    BY <1>0, ReachableIsLeastShut, Zenon
  <2>2. \A z : z \in P <=> Joined(M, L, x, z)
    BY DEF Joined
  <2> HIDE DEF P
  <2>3. Shut(N, E, S)
    <3> SUFFICES ASSUME NEW s \in S, NEW t \in N, {s, t} \in E PROVE t \in S
      BY Zenon DEF Shut
    <3>1. CASE s \in P /\ t = v
      <4>1. {v, s} = {s, t}
        BY <3>1
      <4> QED
        BY <3>1, <4>1, Zenon
    <3>2. CASE s \in P /\ t # v
      <4>1. {s, t} \in L /\ t \in M /\ s \in M
        BY <2>1, <3>2 DEF V!Without
      <4> QED
        BY <2>1, <3>2, <4>1 DEF Shut
    <3>3. CASE s = v /\ t # v
      <4>1. PICK z \in P : {v, z} \in E
        BY <2>1, <3>3, Zenon
      <4>2. z \in M
        BY <2>1, <4>1
      <4>3. Joined(M, L, z, t)
        BY <3>3, <4>1, <4>2, Zenon
      <4>4. Joined(M, L, x, t)
        BY <1>0, <2>2, <4>1, <4>3, JoinedOn, Zenon
      <4> QED
        BY <2>2, <4>4, Zenon
    <3>4. CASE s = v /\ t = v
      BY <3>4
    <3> QED
      BY <3>1, <3>2, <3>3, <3>4, Zenon
  <2>4. y \in S
    <3>1. x \in S /\ x \in N
      BY <2>1
    <3> HIDE DEF S
    <3> QED
      BY <1>3, <2>3, <3>1, JoinedStays
  <2> QED
    BY <2>2, <2>4, Zenon
<1>4. ASSUME NEW c \in D, NEW d \in D, f[c] = f[d] PROVE c = d
  <2>1. PICK x \in M, y \in M : /\ x = (CHOOSE t : t \in c) /\ y = (CHOOSE t : t \in d)
                                /\ c = V!Reachable(M, L, x) /\ d = V!Reachable(M, L, y)
    BY <1>1, Zenon
  <2>2. V!Reachable(N, E, x) = V!Reachable(N, E, y)
    BY <1>4, <2>1, Zenon
  <2>3. Joined(N, E, x, y)
    BY <2>2, JoinedSame
  <2>4. Joined(M, L, x, y)
    BY <1>3, <2>3, Zenon
  <2> HIDE DEF M, L, f
  <2>5. V!Reachable(M, L, x) = V!Reachable(M, L, y) <=> Joined(M, L, x, y)
    BY <1>0, JoinedSame
  <2> QED
    BY <2>1, <2>4, <2>5, Zenon
<1>5. IsFiniteSet(K)
  BY ComponentsFinite
<1> HIDE DEF f, K, D
<1>6. f \in Injection(D, K)
  BY <1>2, <1>4 DEF Injection, IsInjective
<1>7. Cardinality(D) <= Cardinality(K)
  BY <1>5, <1>6, FS_Injection
<1> QED
  BY <1>7 DEF D, K, M, L

\* Both instances have the same components.
LEMMA SameComponents ==
    ASSUME NEW N, NEW E PROVE G!Components(N, E) = V!Components(N, E)
  BY SameReach DEF G!Components, V!Components

\* An edge whose ends are apart without it is a bridge, and only such an edge is one.
LEMMA BridgeIs ==
    ASSUME NEW N, IsFiniteSet(N), NEW E, NEW a \in N, NEW b \in N, {a, b} \in E
    PROVE  G!IsBridge(N, E, {a, b}) <=> ~Joined(N, E \ {{a, b}}, a, b)
<1>1. G!IsBridge(N, E, {a, b}) <=> V!IsBridge(N, E, {a, b})
  BY SameGraphCount, SameVerdictCount, SameComponents DEF G!IsBridge, V!IsBridge
<1>2. ASSUME ~Joined(N, E \ {{a, b}}, a, b) PROVE V!IsBridge(N, E, {a, b})
  <2>1. \A v \in N : \E u \in N : Joined(N, E, v, u)
    BY JoinedSelf
  <2>2. Joined(N, E, a, b)
    BY JoinedEdge
  <2> DEFINE L == E \ {{a, b}}
  <2>3. L \in SUBSET E /\ N \in SUBSET N /\ ~Joined(N, L, a, b)
    BY <1>2
  <2> HIDE DEF L
  <2>4. Cardinality(V!Components(N, L)) > Cardinality(V!Components(N, E))
    BY <2>1, <2>2, <2>3, TornApart
  <2> QED
    BY <2>4, SameVerdictCount DEF V!IsBridge, L
<1>3. ASSUME V!IsBridge(N, E, {a, b}) PROVE ~Joined(N, E \ {{a, b}}, a, b)
  BY <1>3, BridgeSeparates, Zenon DEF Joined
<1> QED
  BY <1>1, <1>2, <1>3

\* A node two neighbours of which are apart without it is an articulation point, and only such
\* a node is one.
LEMMA ArticulationIs ==
    ASSUME NEW N, IsFiniteSet(N), NEW E, NEW v \in N
    PROVE  G!IsArticulation(N, E, v) <=>
              \E x, y \in N \ {v} : /\ {v, x} \in E /\ {v, y} \in E
                                    /\ ~Joined(N \ {v}, G!Without(E, v), x, y)
<1> DEFINE M == N \ {v}
           L == V!Without(E, v)
<1>0. G!Without(E, v) = L
  BY DEF G!Without, V!Without
<1>1. G!IsArticulation(N, E, v) <=>
        Cardinality(V!Components(M, L)) > Cardinality(V!Components(N, E))
  BY <1>0, SameGraphCount, SameComponents DEF G!IsArticulation
<1>2. ASSUME NEW x \in M, NEW y \in M, {v, x} \in E, {v, y} \in E, ~Joined(M, L, x, y)
      PROVE  Cardinality(V!Components(M, L)) > Cardinality(V!Components(N, E))
  <2>1. Joined(N, E, v, x) /\ Joined(N, E, v, y)
    BY <1>2, JoinedEdge
  <2>2. Joined(N, E, x, y)
    BY <2>1, JoinedBack, JoinedOn
  <2>3. \A t \in N : \E u \in M : Joined(N, E, t, u)
    BY <2>1, JoinedSelf
  <2>4. M \in SUBSET N /\ L \in SUBSET E
    BY DEF V!Without
  <2> HIDE DEF M, L
  <2> QED
    BY <1>2, <2>2, <2>3, <2>4, TornApart
<1>3. ASSUME \A x, y \in M : {v, x} \in E /\ {v, y} \in E => Joined(M, L, x, y)
      PROVE  Cardinality(V!Components(M, L)) <= Cardinality(V!Components(N, E))
  BY <1>3, NotTorn, Zenon
<1>4. Cardinality(V!Components(M, L)) \in Nat /\ Cardinality(V!Components(N, E)) \in Nat
  BY FS_Subset, ComponentsFinite, Zenon
<1>5. (\E x, y \in M : {v, x} \in E /\ {v, y} \in E /\ ~Joined(M, L, x, y))
        <=> Cardinality(V!Components(M, L)) > Cardinality(V!Components(N, E))
  <2> DEFINE k == Cardinality(V!Components(M, L))
             m == Cardinality(V!Components(N, E))
  <2>1. k \in Nat /\ m \in Nat /\ ~(k > m /\ k <= m)
    BY <1>4
  <2> HIDE DEF M, L, k, m
  <2>2. (\E x, y \in M : {v, x} \in E /\ {v, y} \in E /\ ~Joined(M, L, x, y)) => k > m
    BY <1>2 DEF k, m
  <2>3. (\A x, y \in M : {v, x} \in E /\ {v, y} \in E => Joined(M, L, x, y)) => k <= m
    BY <1>3 DEF k, m
  <2>4. (\E x, y \in M : {v, x} \in E /\ {v, y} \in E /\ ~Joined(M, L, x, y)) <=> k > m
    BY <2>1, <2>2, <2>3, Zenon
  <2> QED
    BY <2>4, Zenon DEF k, m
<1> QED
  BY <1>0, <1>1, <1>5, Zenon

\* The neighbours of v.
Nbr(E, v) == {w \in Nodes : {v, w} \in E}

\* x and y are joined without v.
Avoiding(E, v, x, y) == Joined(Nodes \ {v}, G!Without(E, v), x, y)

\* The edges to their parents of the nodes that were discovered after lo and up to hi.
Tree(p, d, lo, hi) ==
    {{z, p[z]} : z \in {u \in Nodes : p[u] # None /\ lo < d[u] /\ d[u] <= hi}}

\* The numbers of the nodes are different, and low goes no higher.
Numbered(d, l, p, c, s) ==
    /\ d \in [Nodes -> Int] /\ l \in [Nodes -> Int] /\ c \in Nat
    /\ p \in [Nodes -> Nodes \cup {None}]
    /\ s \in Seq([node : Nodes, left : SUBSET Nodes, children : Nat])
    /\ \A v \in Nodes : -1 <= d[v] /\ d[v] < c /\ l[v] <= d[v]
    /\ \A v, w \in Nodes : d[v] # -1 /\ d[v] = d[w] => v = w

\* A parent is a neighbour that was discovered before.
Rooted(E, d, p) ==
    \A z \in Nodes : p[z] # None =>
        {z, p[z]} \in E /\ d[p[z]] # -1 /\ d[p[z]] < d[z]

\* The calls are a path in the tree, and have seen the neighbours that they do not look at yet
\* to come.
Stacked(E, d, p, s) ==
    \A i \in 1 .. Len(s) :
        /\ d[s[i].node] # -1 /\ s[i].left \subseteq Nbr(E, s[i].node)
        /\ \A y \in Nbr(E, s[i].node) \ s[i].left : d[y] # -1
        /\ p[s[i].node] = IF i = 1 THEN None ELSE s[i - 1].node
        /\ \A j \in 1 .. Len(s) : i < j => d[s[i].node] < d[s[j].node]

\* The call for y is over.
Closed(d, s, y) == d[y] # -1 /\ \A i \in 1 .. Len(s) : s[i].node # y

\* What is over has no edge across a call that it is not in.
Sealed(E, d, s) ==
    \A y \in Nodes : Closed(d, s, y) =>
        \A x \in Nbr(E, y) :
            /\ d[x] # -1
            /\ \A i \in 1 .. Len(s) : d[y] < d[s[i].node] => d[x] < d[s[i].node]

\* What was discovered since a call hangs from its node in the tree.
Hanging(d, p, c, s) ==
    \A i \in 1 .. Len(s) : \A x \in Nodes : d[x] >= d[s[i].node] =>
        /\ x # s[i].node => p[x] # None /\ d[p[x]] >= d[s[i].node]
        /\ Joined(Nodes, Tree(p, d, d[s[i].node], c), x, s[i].node)

\* All of the current tree hangs from its root by older edges.
Held(d, p, s) ==
    Len(s) # 0 => \A x \in Nodes : d[x] >= d[s[1].node] =>
        Joined(Nodes, Tree(p, d, -1, d[x]), x, s[1].node)

\* The tree joins all neighbours that were discovered.
Trees(E, d, p, c) ==
    \A x \in Nodes : \A y \in Nbr(E, x) : d[x] # -1 /\ d[y] # -1 =>
        Joined(Nodes, Tree(p, d, -1, c), x, y)

\* What was discovered in a call before the one above it.
Upto(d, c, s, i) == IF i = Len(s) THEN c ELSE d[s[i + 1].node]
Own(d, c, s, i) == {x \in Nodes : d[s[i].node] <= d[x] /\ d[x] < Upto(d, c, s, i)}
Kids(d, c, s, i) == Own(d, c, s, i) \ {s[i].node}

\* low is no higher than what an edge leads back to, the one to the parent aside...
Bounded(E, d, l, p, c, s) ==
    \A i \in 1 .. Len(s) : \A x \in Own(d, c, s, i) : \A y \in Nbr(E, x) :
        (x = s[i].node => y \notin s[i].left /\ y # p[x]) => l[s[i].node] <= d[y]

\* ... and some edge leads back to it.
Back(E, d, l, p, v) ==
    \E x \in Nodes : /\ d[x] >= d[v]
                     /\ \E y \in Nbr(E, x) : d[y] = l[v] /\ (x = v => y # p[x])
Attained(E, d, l, p, s) ==
    \A i \in 1 .. Len(s) :
        /\ d[s[1].node] <= l[s[i].node]
        /\ l[s[i].node] = d[s[i].node] \/ Back(E, d, l, p, s[i].node)

\* Each child that returned was discovered in the call, and one of them is a neighbour.
Returned(s, i) == IF i = Len(s) THEN s[i].children ELSE s[i].children - 1
Parted(E, d, c, s) ==
    \A i \in 1 .. Len(s) :
        /\ Returned(s, i) \in Nat
        /\ IF Returned(s, i) = 0 THEN Kids(d, c, s, i) = {}
           ELSE Kids(d, c, s, i) \cap Nbr(E, s[i].node) # {}

\* What is below a node that was not found to be an articulation point is joined without it,
\* also to the parent.
Marked(E, d, p, c, s, as) ==
    \A i \in 1 .. Len(s) : s[i].node \notin as =>
        \A x, y \in Kids(d, c, s, i) \cup ({p[s[i].node]} \ {None}) :
            Avoiding(E, s[i].node, x, y)

\* The calls that are over have found all.
FinishedB(E, d, p, s, bs) ==
    \A w \in Nodes : Closed(d, s, w) /\ p[w] # None /\ {w, p[w]} \notin bs =>
        Joined(Nodes, E \ {{w, p[w]}}, w, p[w])
FinishedA(E, d, s, as) ==
    \A v \in Nodes : Closed(d, s, v) /\ v \notin as =>
        \A x, y \in Nbr(E, v) : Avoiding(E, v, x, y)

\* What was found is right.
Found(E, bs, as) ==
    /\ \A e \in bs : G!IsBridge(Nodes, E, e)
    /\ \A v \in as : G!IsArticulation(Nodes, E, v)

\* The graph: edges join two nodes.
Graph(E) == \A x, y \in Nodes : {x, y} \in E => x # y

\* What the search keeps.
Shape(E, d, l, p, c, s) ==
    /\ Graph(E) /\ Numbered(d, l, p, c, s) /\ Rooted(E, d, p) /\ Stacked(E, d, p, s)
    /\ Sealed(E, d, s)
Ways(E, d, p, c, s) == Hanging(d, p, c, s) /\ Held(d, p, s) /\ Trees(E, d, p, c)
Lows(E, d, l, p, c, s) ==
    Bounded(E, d, l, p, c, s) /\ Attained(E, d, l, p, s) /\ Parted(E, d, c, s)
Results(E, d, p, c, s, bs, as) ==
    /\ Marked(E, d, p, c, s, as) /\ FinishedB(E, d, p, s, bs) /\ FinishedA(E, d, s, as)
    /\ Found(E, bs, as)
GraphInv ==
    /\ counter = Cardinality(Nodes \ G!Undiscovered)
    /\ Shape(G!Edges, discovery, low, parents, counter, stack)
    /\ Ways(G!Edges, discovery, parents, counter, stack)
    /\ Lows(G!Edges, discovery, low, parents, counter, stack)
    /\ Results(G!Edges, discovery, parents, counter, stack, bridges, articulations)

\* Neighbours are so of each other.
LEMMA NbrBack ==
    ASSUME NEW E, NEW x \in Nodes, NEW y \in Nbr(E, x) PROVE x \in Nbr(E, y) /\ y \in Nodes
<1>1. {y, x} = {x, y}
  OBVIOUS
<1> QED
  BY <1>1 DEF Nbr

-----------------------------------------------------------------------------
(* visit is called for w: by the loop over the nodes, or by the call above. *)

Enters(E, d, l, p, c, s, d2, l2, p2, c2, s2, w) ==
    /\ w \in Nodes /\ d[w] = -1
    /\ d2 = [d EXCEPT ![w] = c] /\ l2 = [l EXCEPT ![w] = c] /\ c2 = c + 1
    /\ p2 = [p EXCEPT ![w] = IF Len(s) = 0 THEN None ELSE s[Len(s)].node]
    /\ Len(s) # 0 => w \in s[Len(s)].left
    /\ s2 \in Seq([node : Nodes, left : SUBSET Nodes, children : Nat])
    /\ Len(s2) = Len(s) + 1
    /\ s2[Len(s) + 1].node = w /\ s2[Len(s) + 1].left = Nbr(E, w)
    /\ s2[Len(s) + 1].children = 0
    /\ \A i \in 1 .. Len(s) :
          /\ s2[i].node = s[i].node
          /\ s2[i].left = IF i = Len(s) THEN s[i].left \ {w} ELSE s[i].left
          /\ s2[i].children = IF i = Len(s) THEN s[i].children + 1 ELSE s[i].children

\* What is known of w, of the other nodes and of the calls then.
LEMMA EnterMeans ==
    ASSUME NEW E, NEW d, NEW l, NEW p, NEW c, NEW s, NEW d2, NEW l2, NEW p2, NEW c2, NEW s2, NEW w,
           Shape(E, d, l, p, c, s), Enters(E, d, l, p, c, s, d2, l2, p2, c2, s2, w)
    PROVE  /\ Len(s) \in Nat /\ c \in Nat /\ c2 = c + 1 /\ w \in Nodes /\ d[w] = -1
           /\ d2[w] = c /\ l2[w] = c /\ p[w] = None
           /\ p2[w] = IF Len(s) = 0 THEN None ELSE s[Len(s)].node
           /\ \A z \in Nodes : /\ p[z] # w /\ d[z] \in Int /\ d2[z] \in Int /\ l[z] \in Int
                               /\ d[z] < c /\ -1 <= d[z] /\ l[z] <= d[z]
                               /\ z # w => d2[z] = d[z] /\ l2[z] = l[z] /\ p2[z] = p[z]
           /\ \A i \in 1 .. Len(s) :
                 /\ s[i].node \in Nodes /\ s[i].node # w /\ s[i].children \in Nat
                 /\ s[i].left \subseteq Nodes /\ d[s[i].node] # -1
<1>1. Numbered(d, l, p, c, s) /\ Rooted(E, d, p) /\ Stacked(E, d, p, s)
  BY DEF Shape
<1>2. /\ Len(s) \in Nat /\ c \in Nat /\ c2 = c + 1 /\ w \in Nodes /\ d[w] = -1
      /\ d2[w] = c /\ l2[w] = c
  BY <1>1 DEF Numbered, Enters
<1>3. p2[w] = IF Len(s) = 0 THEN None ELSE s[Len(s)].node
  BY <1>1 DEF Numbered, Enters
<1>4. p[w] = None
  <2> SUFFICES ASSUME p[w] # None PROVE FALSE
    OBVIOUS
  <2>1. p[w] \in Nodes
    BY <1>1, <1>2 DEF Numbered
  <2>2. d[p[w]] # -1 /\ d[p[w]] < -1
    BY <1>1, <1>2, Zenon DEF Rooted
  <2>3. -1 <= d[p[w]] /\ d[p[w]] \in Int
    BY <1>1, <2>1 DEF Numbered
  <2> QED
    BY <2>2, <2>3
<1>5. ASSUME NEW z \in Nodes
      PROVE  /\ p[z] # w /\ d[z] \in Int /\ d2[z] \in Int /\ l[z] \in Int
             /\ d[z] < c /\ -1 <= d[z] /\ l[z] <= d[z]
             /\ z # w => d2[z] = d[z] /\ l2[z] = l[z] /\ p2[z] = p[z]
  <2>1. p[z] # w
    BY <1>1, <1>2, HealthHistoryAssumptions, Zenon DEF Rooted, G!MeshGraphAssumption
  <2>2. d[z] \in Int /\ l[z] \in Int /\ d[z] < c /\ -1 <= d[z] /\ l[z] <= d[z]
    BY <1>1 DEF Numbered
  <2>3. z # w => d2[z] = d[z] /\ l2[z] = l[z] /\ p2[z] = p[z]
    BY <1>1 DEF Numbered, Enters
  <2> QED
    BY <1>2, <2>1, <2>2, <2>3
<1>6. ASSUME NEW i \in 1 .. Len(s)
      PROVE  /\ s[i].node \in Nodes /\ s[i].node # w /\ s[i].children \in Nat
             /\ s[i].left \subseteq Nodes /\ d[s[i].node] # -1
  <2>1. s[i] \in [node : Nodes, left : SUBSET Nodes, children : Nat]
    <3> DEFINE R == [node : Nodes, left : SUBSET Nodes, children : Nat]
    <3>1. s \in Seq(R)
      BY <1>1 DEF Numbered
    <3> HIDE DEF R
    <3>2. s[i] \in R
      BY <3>1
    <3> QED
      BY <3>2 DEF R
  <2>2. d[s[i].node] # -1
    BY <1>1 DEF Stacked
  <2> QED
    BY <1>2, <2>1, <2>2
<1> QED
  BY <1>2, <1>3, <1>4, <1>5, <1>6

\* The number of w is new, and its parent is older.
LEMMA EnterNumbered ==
    ASSUME NEW E, NEW d, NEW l, NEW p, NEW c, NEW s, NEW d2, NEW l2, NEW p2, NEW c2, NEW s2, NEW w,
           Shape(E, d, l, p, c, s), Enters(E, d, l, p, c, s, d2, l2, p2, c2, s2, w)
    PROVE  Numbered(d2, l2, p2, c2, s2) /\ Rooted(E, d2, p2)
<1>1. Numbered(d, l, p, c, s) /\ Rooted(E, d, p) /\ Stacked(E, d, p, s)
  BY DEF Shape
<1>2. Len(s) # 0 => w \in Nbr(E, s[Len(s)].node)
  <2> SUFFICES ASSUME Len(s) # 0 PROVE w \in Nbr(E, s[Len(s)].node)
    OBVIOUS
  <2>1. w \in s[Len(s)].left
    BY Zenon DEF Enters
  <2>2. Len(s) \in Nat
    BY EnterMeans
  <2>3. Len(s) \in 1 .. Len(s)
    BY <2>2
  <2>4. s[Len(s)].left \subseteq Nbr(E, s[Len(s)].node)
    BY <1>1, <2>3 DEF Stacked
  <2> QED
    BY <2>1, <2>4
<1>3. d2 \in [Nodes -> Int] /\ l2 \in [Nodes -> Int] /\ c2 \in Nat
  BY <1>1, EnterMeans DEF Numbered, Enters
<1>4. p2 \in [Nodes -> Nodes \cup {None}]
  <2>1. (IF Len(s) = 0 THEN None ELSE s[Len(s)].node) \in Nodes \cup {None}
    BY EnterMeans
  <2> QED
    BY <1>1, <2>1 DEF Numbered, Enters
<1>5. \A v \in Nodes : -1 <= d2[v] /\ d2[v] < c2 /\ l2[v] <= d2[v]
  BY EnterMeans
<1>6. \A v, x \in Nodes : d2[v] # -1 /\ d2[v] = d2[x] => v = x
  <2>1. \A v, x \in Nodes : d[v] # -1 /\ d[v] = d[x] => v = x
    BY <1>1 DEF Numbered
  <2> QED
    BY <2>1, EnterMeans
<1>7. Rooted(E, d2, p2)
  <2> SUFFICES ASSUME NEW z \in Nodes, p2[z] # None
               PROVE  {z, p2[z]} \in E /\ d2[p2[z]] # -1 /\ d2[p2[z]] < d2[z]
    BY DEF Rooted
  <2>1. CASE z = w
    <3>1. Len(s) # 0 /\ p2[z] = s[Len(s)].node /\ Len(s) \in 1 .. Len(s)
      BY <2>1, EnterMeans
    <3>2. p2[z] \in Nodes /\ p2[z] # w /\ d[p2[z]] # -1
      BY <3>1, EnterMeans
    <3>3. {z, p2[z]} = {p2[z], z} /\ {p2[z], z} \in E
      BY <1>2, <2>1, <3>1 DEF Nbr
    <3>4. d2[p2[z]] = d[p2[z]] /\ d[p2[z]] < c /\ d2[z] = c
      BY <2>1, <3>2, EnterMeans
    <3> QED
      BY <3>2, <3>3, <3>4
  <2>2. CASE z # w
    <3>1. p2[z] = p[z] /\ p[z] # w /\ p[z] \in Nodes
      BY <1>1, <2>2, EnterMeans DEF Numbered
    <3>2. {z, p[z]} \in E /\ d[p[z]] # -1 /\ d[p[z]] < d[z]
      BY <1>1, <3>1 DEF Rooted
    <3>3. d2[p[z]] = d[p[z]] /\ d2[z] = d[z]
      BY <2>2, <3>1, EnterMeans
    <3> QED
      BY <3>1, <3>2, <3>3
  <2> QED
    BY <2>1, <2>2
<1> QED
  BY <1>3, <1>4, <1>5, <1>6, <1>7 DEF Numbered, Enters

\* The call for w goes on top, and no node that is over has an edge to w.
LEMMA EnterStacked ==
    ASSUME NEW E, NEW d, NEW l, NEW p, NEW c, NEW s, NEW d2, NEW l2, NEW p2, NEW c2, NEW s2, NEW w,
           Shape(E, d, l, p, c, s), Enters(E, d, l, p, c, s, d2, l2, p2, c2, s2, w)
    PROVE  Stacked(E, d2, p2, s2) /\ Sealed(E, d2, s2)
<1> DEFINE n == Len(s)
<1>1. Stacked(E, d, p, s) /\ Sealed(E, d, s)
  BY DEF Shape
<1>2. /\ n \in Nat /\ c \in Nat /\ c2 = c + 1 /\ w \in Nodes /\ d[w] = -1 /\ d2[w] = c
      /\ p2[w] = IF n = 0 THEN None ELSE s[n].node
      /\ \A z \in Nodes : /\ d[z] \in Int /\ d2[z] \in Int /\ d[z] < c /\ -1 <= d[z]
                          /\ z # w => d2[z] = d[z] /\ p2[z] = p[z]
      /\ \A i \in 1 .. n : s[i].node \in Nodes /\ s[i].node # w /\ d[s[i].node] # -1
  BY EnterMeans
<1>3. /\ Len(s2) = n + 1 /\ s2[n + 1].node = w /\ s2[n + 1].left = Nbr(E, w)
      /\ \A i \in 1 .. n : /\ s2[i].node = s[i].node
                           /\ s2[i].left = IF i = n THEN s[i].left \ {w} ELSE s[i].left
  BY Zenon DEF Enters
<1> HIDE DEF n
<1>4. \A i \in 1 .. n + 1 : i \in 1 .. n \/ i = n + 1
  BY <1>2
<1>5. ASSUME NEW i \in 1 .. n + 1
      PROVE  /\ d2[s2[i].node] # -1 /\ s2[i].left \subseteq Nbr(E, s2[i].node)
             /\ \A y \in Nbr(E, s2[i].node) \ s2[i].left : d2[y] # -1
             /\ p2[s2[i].node] = IF i = 1 THEN None ELSE s2[i - 1].node
             /\ \A j \in 1 .. n + 1 : i < j => d2[s2[i].node] < d2[s2[j].node]
  <2>1. CASE i = n + 1
    <3>1. d2[w] # -1 /\ s2[i].left = Nbr(E, w) /\ s2[i].node = w
      BY <1>2, <1>3, <2>1
    <3>2. i # 1 => i - 1 = n /\ n \in 1 .. n
      BY <1>2, <2>1
    <3>3. i = 1 <=> n = 0
      BY <1>2, <2>1
    <3>4. p2[w] = IF i = 1 THEN None ELSE s2[i - 1].node
      BY <1>2, <1>3, <3>2, <3>3, Zenon
    <3>5. \A j \in 1 .. n + 1 : ~(i < j)
      BY <1>2, <2>1
    <3> QED
      BY <3>1, <3>4, <3>5
  <2>2. CASE i \in 1 .. n
    <3>1. /\ d[s[i].node] # -1 /\ s[i].left \subseteq Nbr(E, s[i].node)
          /\ \A y \in Nbr(E, s[i].node) \ s[i].left : d[y] # -1
          /\ p[s[i].node] = IF i = 1 THEN None ELSE s[i - 1].node
          /\ \A j \in 1 .. n : i < j => d[s[i].node] < d[s[j].node]
      BY <1>1, <2>2 DEF Stacked, n
    <3>2. s2[i].node = s[i].node /\ s[i].node \in Nodes /\ s[i].node # w
      BY <1>2, <1>3, <2>2, Zenon
    <3>3. s2[i].left \subseteq s[i].left /\ s[i].left \subseteq s2[i].left \cup {w}
      BY <1>3, <2>2, Zenon
    <3>4. \A y \in Nbr(E, s[i].node) \ s2[i].left : d2[y] # -1
      BY <1>2, <3>1, <3>3 DEF Nbr
    <3>5. i # 1 => i - 1 \in 1 .. n
      BY <1>2, <2>2
    <3>6. p2[s2[i].node] = IF i = 1 THEN None ELSE s2[i - 1].node
      BY <1>2, <1>3, <3>1, <3>2, <3>5, Zenon
    <3>7. ASSUME NEW j \in 1 .. n + 1, i < j PROVE d2[s2[i].node] < d2[s2[j].node]
      <4>1. d2[s2[i].node] = d[s[i].node] /\ d[s[i].node] < c
        BY <1>2, <3>2
      <4>2. CASE j = n + 1
        BY <1>2, <1>3, <4>1, <4>2
      <4>3. CASE j \in 1 .. n
        <5>1. d2[s2[j].node] = d[s[j].node]
          BY <1>2, <1>3, <4>3, Zenon
        <5> QED
          BY <3>1, <3>7, <4>1, <4>3, <5>1
      <4> QED
        BY <1>4, <4>2, <4>3
    <3> QED
      BY <1>2, <3>1, <3>2, <3>3, <3>4, <3>6, <3>7
  <2> QED
    BY <1>4, <2>1, <2>2
<1>6. Sealed(E, d2, s2)
  <2> SUFFICES ASSUME NEW y \in Nodes, Closed(d2, s2, y), NEW x \in Nbr(E, y)
               PROVE  /\ d2[x] # -1
                      /\ \A i \in 1 .. Len(s2) : d2[y] < d2[s2[i].node] => d2[x] < d2[s2[i].node]
    BY DEF Sealed
  <2>1. y # w
    <3>1. n + 1 \in 1 .. Len(s2)
      BY <1>2, <1>3
    <3> QED
      BY <1>3, <3>1 DEF Closed
  <2>2. d[y] # -1 /\ d2[y] = d[y]
    BY <1>2, <2>1 DEF Closed
  <2>3. \A i \in 1 .. n : s[i].node # y /\ i \in 1 .. Len(s2)
    <3> SUFFICES ASSUME NEW i \in 1 .. n PROVE s[i].node # y /\ i \in 1 .. Len(s2)
      OBVIOUS
    <3>1. i \in 1 .. Len(s2)
      BY <1>2, <1>3
    <3> QED
      BY <1>3, <3>1, Zenon DEF Closed
  <2>4. Closed(d, s, y)
    BY <2>2, <2>3 DEF Closed, n
  <2>5. x \in Nodes /\ d[x] # -1
    BY <1>1, <2>4 DEF Sealed, Nbr
  <2>6. x # w /\ d2[x] = d[x]
    BY <1>2, <2>5
  <2>7. ASSUME NEW i \in 1 .. n + 1, d2[y] < d2[s2[i].node] PROVE d2[x] < d2[s2[i].node]
    <3>1. CASE i = n + 1
      BY <1>2, <1>3, <2>5, <2>6, <3>1
    <3>2. CASE i \in 1 .. n
      <4>1. d2[s2[i].node] = d[s[i].node]
        BY <1>2, <1>3, <3>2, Zenon
      <4>2. d[y] < d[s[i].node] => d[x] < d[s[i].node]
        BY <1>1, <2>4, <3>2 DEF Sealed, n
      <4> QED
        BY <2>2, <2>6, <2>7, <4>1, <4>2
    <3> QED
      BY <1>4, <3>1, <3>2
  <2> QED
    BY <1>3, <2>5, <2>6, <2>7
<1> QED
  BY <1>3, <1>5, <1>6 DEF Stacked

\* The nodes are a finite set of numbers, without None.
LEMMA NodesAreFinite == IsFiniteSet(Nodes) /\ None \notin Nodes /\ Nodes \subseteq Nat
  BY HealthHistoryAssumptions DEF G!MeshGraphAssumption, G!IsFiniteSet, IsFiniteSet

\* The tree only grows, by the edge to w.
LEMMA EnterTree ==
    ASSUME NEW E, NEW d, NEW l, NEW p, NEW c, NEW s, NEW d2, NEW l2, NEW p2, NEW c2, NEW s2, NEW w,
           Shape(E, d, l, p, c, s), Enters(E, d, l, p, c, s, d2, l2, p2, c2, s2, w),
           NEW lo \in Int, NEW hi \in Int, NEW up \in Int, hi <= up
    PROVE  Tree(p, d, lo, hi) \subseteq Tree(p2, d2, lo, up)
<1> SUFFICES ASSUME NEW z \in Nodes, p[z] # None, lo < d[z], d[z] <= hi
             PROVE  {z, p[z]} \in Tree(p2, d2, lo, up)
  BY DEF Tree
<1>1. z # w /\ d[z] \in Int
  BY EnterMeans
<1>2. d2[z] = d[z] /\ p2[z] = p[z]
  BY <1>1, EnterMeans
<1>3. d2[z] <= up
  BY <1>1, <1>2
<1> QED
  BY <1>2, <1>3 DEF Tree

\* Whatever the tree joined it still joins.
LEMMA EnterJoined ==
    ASSUME NEW E, NEW d, NEW l, NEW p, NEW c, NEW s, NEW d2, NEW l2, NEW p2, NEW c2, NEW s2, NEW w,
           Shape(E, d, l, p, c, s), Enters(E, d, l, p, c, s, d2, l2, p2, c2, s2, w),
           NEW lo \in Int, NEW hi \in Int, NEW up \in Int, hi <= up, NEW x \in Nodes, NEW y,
           Joined(Nodes, Tree(p, d, lo, hi), x, y)
    PROVE  Joined(Nodes, Tree(p2, d2, lo, up), x, y)
  BY EnterTree, JoinedMore, NodesAreFinite

\* w hangs from every call, by its edge to the caller ...
LEMMA EnterHanging ==
    ASSUME NEW E, NEW d, NEW l, NEW p, NEW c, NEW s, NEW d2, NEW l2, NEW p2, NEW c2, NEW s2, NEW w,
           Shape(E, d, l, p, c, s), Enters(E, d, l, p, c, s, d2, l2, p2, c2, s2, w),
           Hanging(d, p, c, s)
    PROVE  Hanging(d2, p2, c2, s2)
<1> DEFINE n == Len(s)
<1>1. /\ n \in Nat /\ c \in Nat /\ c2 = c + 1 /\ w \in Nodes /\ d2[w] = c
      /\ p2[w] = IF n = 0 THEN None ELSE s[n].node
      /\ \A z \in Nodes : /\ p[z] # w /\ d[z] \in Int /\ d[z] < c /\ d2[z] \in Int
                          /\ z # w => d2[z] = d[z] /\ p2[z] = p[z]
      /\ \A i \in 1 .. n : s[i].node \in Nodes /\ s[i].node # w /\ d[s[i].node] # -1
  BY EnterMeans
<1>2. /\ Len(s2) = n + 1 /\ s2[n + 1].node = w
      /\ \A i \in 1 .. n : s2[i].node = s[i].node
  BY Zenon DEF Enters
<1>3. p \in [Nodes -> Nodes \cup {None}]
      /\ \A i \in 1 .. n : i # n => d[s[i].node] < d[s[n].node]
  <2>1. Stacked(E, d, p, s) /\ Numbered(d, l, p, c, s)
    BY DEF Shape
  <2>2. \A i \in 1 .. n : i # n => n \in 1 .. n /\ i < n
    BY <1>1
  <2> QED
    BY <2>1, <2>2 DEF Stacked, Numbered
<1>4. ASSUME NEW i \in 1 .. n, NEW x \in Nodes, x # w, d[x] >= d[s[i].node]
      PROVE  /\ x # s[i].node => p[x] # None /\ d[p[x]] >= d[s[i].node]
             /\ Joined(Nodes, Tree(p2, d2, d[s[i].node], c2), x, s[i].node)
  <2>1. /\ x # s[i].node => p[x] # None /\ d[p[x]] >= d[s[i].node]
        /\ Joined(Nodes, Tree(p, d, d[s[i].node], c), x, s[i].node)
    BY <1>4 DEF Hanging
  <2>2. d[s[i].node] \in Int /\ c <= c2 /\ c \in Int /\ c2 \in Int
    BY <1>1
  <2> QED
    BY <2>1, <2>2, EnterJoined
<1> HIDE DEF n
<1> SUFFICES ASSUME NEW i \in 1 .. n + 1, NEW x \in Nodes, d2[x] >= d2[s2[i].node]
             PROVE  /\ x # s2[i].node => p2[x] # None /\ d2[p2[x]] >= d2[s2[i].node]
                    /\ Joined(Nodes, Tree(p2, d2, d2[s2[i].node], c2), x, s2[i].node)
  BY <1>2 DEF Hanging
<1>5. CASE i = n + 1
  <2>1. s2[i].node = w
    BY <1>2, <1>5
  <2>2. x = w
    BY <1>1, <2>1
  <2> QED
    BY <2>1, <2>2, JoinedSelf, NodesAreFinite
<1>6. CASE i \in 1 .. n
  <2>1. /\ s2[i].node = s[i].node /\ d2[s[i].node] = d[s[i].node]
        /\ s[i].node \in Nodes /\ s[i].node # w
    BY <1>1, <1>2, <1>6
  <2>2. CASE x # w
    <3>1. d2[x] = d[x] /\ p2[x] = p[x] /\ p[x] # w
      BY <1>1, <2>2
    <3>2. /\ x # s[i].node => p[x] # None /\ d[p[x]] >= d[s[i].node]
          /\ Joined(Nodes, Tree(p2, d2, d[s[i].node], c2), x, s[i].node)
      BY <1>4, <1>6, <2>1, <2>2, <3>1
    <3>3. p[x] # None => p[x] \in Nodes
      BY <1>3
    <3>4. p[x] # None => d2[p[x]] = d[p[x]]
      BY <1>1, <3>1, <3>3
    <3> QED
      BY <2>1, <3>1, <3>2, <3>4
  <2>3. CASE x = w
    <3>1. n \in 1 .. n /\ n # 0
      BY <1>1, <1>6
    <3>2. p2[w] = s[n].node /\ s[n].node \in Nodes /\ s[n].node # w
      BY <1>1, <3>1
    <3>3. d2[s[n].node] = d[s[n].node] /\ d[s[n].node] >= d[s[i].node] /\ s[n].node # None
      <4>1. d2[s[n].node] = d[s[n].node] /\ s[n].node # None /\ d[s[n].node] \in Int
        BY <1>1, <3>2, NodesAreFinite, Zenon
      <4>2. d[s[n].node] >= d[s[i].node]
        BY <1>1, <1>3, <1>6, <2>1, <4>1
      <4> QED
        BY <4>1, <4>2
    <3>4. Joined(Nodes, Tree(p2, d2, d[s[i].node], c2), s[n].node, s[i].node)
      BY <1>4, <1>6, <3>2, <3>3
    <3>5. {w, s[n].node} \in Tree(p2, d2, d[s[i].node], c2)
      <4>1. d[s[i].node] < d2[w] /\ d2[w] <= c2
        BY <1>1, <2>1
      <4>2. p2[w] # None
        BY <3>2, <3>3
      <4> QED
        BY <1>1, <3>2, <4>1, <4>2 DEF Tree
    <3>6. Joined(Nodes, Tree(p2, d2, d[s[i].node], c2), w, s[n].node)
      BY <1>1, <3>2, <3>5, JoinedEdge, NodesAreFinite
    <3>7. Joined(Nodes, Tree(p2, d2, d[s[i].node], c2), w, s[i].node)
      BY <1>1, <3>4, <3>6, JoinedOn, NodesAreFinite
    <3> QED
      BY <2>1, <2>3, <3>2, <3>3, <3>7
  <2> QED
    BY <2>2, <2>3
<1>7. i \in 1 .. n \/ i = n + 1
  BY <1>1
<1> QED
  BY <1>5, <1>6, <1>7

\* ... by edges that are older than it ...
LEMMA EnterHeld ==
    ASSUME NEW E, NEW d, NEW l, NEW p, NEW c, NEW s, NEW d2, NEW l2, NEW p2, NEW c2, NEW s2, NEW w,
           Shape(E, d, l, p, c, s), Enters(E, d, l, p, c, s, d2, l2, p2, c2, s2, w),
           Held(d, p, s)
    PROVE  Held(d2, p2, s2)
<1> DEFINE n == Len(s)
<1>1. /\ n \in Nat /\ c \in Nat /\ w \in Nodes /\ d2[w] = c
      /\ p2[w] = IF n = 0 THEN None ELSE s[n].node
      /\ \A z \in Nodes : /\ d[z] \in Int /\ d[z] < c /\ -1 <= d[z]
                          /\ z # w => d2[z] = d[z]
      /\ \A i \in 1 .. n : s[i].node \in Nodes /\ s[i].node # w
  BY EnterMeans
<1>2. /\ Len(s2) = n + 1 /\ s2[n + 1].node = w
      /\ \A i \in 1 .. n : s2[i].node = s[i].node
  BY Zenon DEF Enters
<1>3. n # 0 => n \in 1 .. n /\ 1 \in 1 .. n /\ d[s[1].node] <= d[s[n].node]
  <2> SUFFICES ASSUME n # 0
               PROVE  n \in 1 .. n /\ 1 \in 1 .. n /\ d[s[1].node] <= d[s[n].node]
    OBVIOUS
  <2>1. n \in 1 .. n /\ 1 \in 1 .. n /\ (n = 1 \/ 1 < n)
    <3> HIDE DEF n
    <3> QED
      BY <1>1
  <2>2. Stacked(E, d, p, s)
    BY DEF Shape
  <2>3. 1 < n => d[s[1].node] < d[s[n].node]
    BY <2>1, <2>2 DEF Stacked
  <2>4. d[s[1].node] \in Int /\ d[s[n].node] \in Int
    BY <1>1, <2>1
  <2> QED
    BY <2>1, <2>3, <2>4
<1>4. ASSUME n # 0, NEW x \in Nodes, d[x] >= d[s[1].node]
      PROVE  \A up \in Int : d[x] <= up => Joined(Nodes, Tree(p2, d2, -1, up), x, s[1].node)
  <2>1. Joined(Nodes, Tree(p, d, -1, d[x]), x, s[1].node)
    BY <1>3, <1>4 DEF Held
  <2> QED
    BY <1>1, <2>1, EnterJoined
<1> HIDE DEF n
<1> SUFFICES ASSUME NEW x \in Nodes, d2[x] >= d2[s2[1].node]
             PROVE  Joined(Nodes, Tree(p2, d2, -1, d2[x]), x, s2[1].node)
  BY DEF Held
<1>5. CASE n = 0
  <2>1. s2[1].node = w
    BY <1>2, <1>5
  <2>2. x = w
    BY <1>1, <2>1
  <2> QED
    BY <2>1, <2>2, JoinedSelf, NodesAreFinite
<1>6. CASE n # 0
  <2>1. /\ s2[1].node = s[1].node /\ d2[s[1].node] = d[s[1].node] /\ d[s[1].node] \in Int
        /\ s[n].node \in Nodes /\ s[n].node # w
    BY <1>1, <1>2, <1>3, <1>6
  <2>2. CASE x # w
    <3>1. d2[x] = d[x] /\ d[x] \in Int /\ d[x] >= d[s[1].node]
      BY <1>1, <2>1, <2>2
    <3> QED
      BY <1>4, <1>6, <2>1, <3>1
  <2>3. CASE x = w
    <3>1. p2[w] = s[n].node /\ d[s[n].node] >= d[s[1].node] /\ d[s[n].node] <= c /\ c \in Int
      BY <1>1, <1>3, <1>6, <2>1
    <3>2. Joined(Nodes, Tree(p2, d2, -1, c), s[n].node, s[1].node)
      BY <1>4, <1>6, <2>1, <3>1
    <3>3. {w, s[n].node} \in Tree(p2, d2, -1, c)
      <4>1. -1 < d2[w] /\ d2[w] <= c /\ p2[w] # None
        BY <1>1, <2>1, <3>1, NodesAreFinite
      <4> QED
        BY <1>1, <3>1, <4>1 DEF Tree
    <3>4. Joined(Nodes, Tree(p2, d2, -1, c), w, s[n].node)
      BY <1>1, <2>1, <3>3, JoinedEdge, NodesAreFinite
    <3>5. Joined(Nodes, Tree(p2, d2, -1, c), w, s[1].node)
      BY <1>1, <3>2, <3>4, JoinedOn, NodesAreFinite
    <3> QED
      BY <1>1, <2>1, <2>3, <3>5
  <2> QED
    BY <2>2, <2>3
<1> QED
  BY <1>5, <1>6

\* ... and the tree joins it to its neighbours that were discovered: they are in calls.
LEMMA EnterTrees ==
    ASSUME NEW E, NEW d, NEW l, NEW p, NEW c, NEW s, NEW d2, NEW l2, NEW p2, NEW c2, NEW s2, NEW w,
           Shape(E, d, l, p, c, s), Enters(E, d, l, p, c, s, d2, l2, p2, c2, s2, w),
           Ways(E, d, p, c, s)
    PROVE  Trees(E, d2, p2, c2)
<1>1. /\ c \in Nat /\ c2 = c + 1 /\ w \in Nodes /\ d[w] = -1 /\ d2[w] = c /\ Len(s) \in Nat
      /\ \A z \in Nodes : /\ d[z] \in Int /\ d2[z] \in Int /\ d[z] < c
                          /\ z # w => d2[z] = d[z]
  BY EnterMeans
<1>2. /\ Len(s2) = Len(s) + 1 /\ \A i \in 1 .. Len(s) : s2[i].node = s[i].node
  BY Zenon DEF Enters
<1>3. Stacked(E, d2, p2, s2) /\ Held(d2, p2, s2) /\ Sealed(E, d, s) /\ Graph(E) /\ Trees(E, d, p, c)
  BY EnterStacked, EnterHeld DEF Ways, Shape
<1>4. s2[1].node \in Nodes /\ d2[s2[1].node] <= d2[w]
  <2>1. CASE Len(s) = 0
    <3>1. s2[1].node = w
      BY <1>1, <2>1 DEF Enters
    <3> QED
      BY <1>1, <3>1
  <2>2. CASE Len(s) # 0
    <3>1. 1 \in 1 .. Len(s)
      BY <1>1, <2>2
    <3>2. s2[1].node = s[1].node /\ s[1].node \in Nodes /\ s[1].node # w
      BY <1>2, <3>1, EnterMeans
    <3> QED
      BY <1>1, <3>2
  <2> QED
    BY <2>1, <2>2
<1>5. ASSUME NEW x \in Nodes, d2[x] >= d2[s2[1].node]
      PROVE  Joined(Nodes, Tree(p2, d2, -1, c2), x, s2[1].node)
  <2>1. Joined(Nodes, Tree(p2, d2, -1, d2[x]), x, s2[1].node)
    BY <1>1, <1>2, <1>3, <1>5 DEF Held
  <2>2. d2[x] <= c2 /\ d2[x] \in Int /\ c2 \in Int
    BY <1>1
  <2>3. Tree(p2, d2, -1, d2[x]) \subseteq Tree(p2, d2, -1, c2)
    <3> SUFFICES ASSUME NEW z \in Nodes, p2[z] # None, -1 < d2[z], d2[z] <= d2[x]
                 PROVE  {z, p2[z]} \in Tree(p2, d2, -1, c2)
      BY DEF Tree
    <3>1. d2[z] <= c2
      BY <1>1, <2>2
    <3> QED
      BY <3>1 DEF Tree
  <2> QED
    BY <2>1, <2>3, JoinedMore, NodesAreFinite
<1>6. ASSUME NEW y \in Nbr(E, w), d[y] # -1
      PROVE  y \in Nodes /\ Joined(Nodes, Tree(p2, d2, -1, c2), y, s2[1].node)
  <2>1. y \in Nodes /\ w \in Nbr(E, y)
    BY <1>1, NbrBack
  <2>2. ~Closed(d, s, y)
    BY <1>1, <1>3, <2>1 DEF Sealed
  <2>3. PICK i \in 1 .. Len(s) : s[i].node = y
    BY <1>6, <2>2 DEF Closed
  <2>4. y # w
    BY <1>1, <1>6
  <2>5. d2[y] >= d2[s2[1].node]
    <3>1. s2[i].node = y /\ i \in 1 .. Len(s2) /\ 1 \in 1 .. Len(s2)
      BY <1>1, <1>2, <2>3
    <3>2. i # 1 => 1 < i
      BY <1>1
    <3>3. i # 1 => d2[s2[1].node] < d2[y]
      BY <1>3, <3>1, <3>2 DEF Stacked
    <3> QED
      BY <1>1, <1>4, <2>1, <3>1, <3>3
  <2> QED
    BY <1>5, <2>1, <2>5
<1>7. Joined(Nodes, Tree(p2, d2, -1, c2), w, s2[1].node)
  BY <1>1, <1>4, <1>5
<1> SUFFICES ASSUME NEW x \in Nodes, NEW y \in Nbr(E, x), d2[x] # -1, d2[y] # -1
             PROVE  Joined(Nodes, Tree(p2, d2, -1, c2), x, y)
  BY DEF Trees
<1>8. y \in Nodes /\ x \in Nbr(E, y) /\ x # y
  BY <1>3, NbrBack DEF Nbr, Graph
<1>9. CASE x # w /\ y # w
  <2>1. d[x] # -1 /\ d[y] # -1
    BY <1>1, <1>8, <1>9
  <2>2. Joined(Nodes, Tree(p, d, -1, c), x, y)
    BY <1>3, <2>1 DEF Trees
  <2>3. c <= c2 /\ c \in Int /\ c2 \in Int
    BY <1>1
  <2> QED
    BY <2>2, <2>3, EnterJoined
<1>10. CASE x = w
  <2>1. d[y] # -1
    BY <1>1, <1>8, <1>10
  <2> QED
    BY <1>1, <1>6, <1>7, <1>10, <2>1, JoinedBoth, NodesAreFinite
<1>11. CASE y = w
  <2>1. d[x] # -1
    BY <1>1, <1>8, <1>11
  <2> QED
    BY <1>1, <1>6, <1>7, <1>8, <1>11, <2>1, JoinedBoth, NodesAreFinite
<1> QED
  BY <1>9, <1>10, <1>11

\* What belongs to the calls below stays, and the call for w has w only.
LEMMA EnterOwn ==
    ASSUME NEW E, NEW d, NEW l, NEW p, NEW c, NEW s, NEW d2, NEW l2, NEW p2, NEW c2, NEW s2, NEW w,
           Shape(E, d, l, p, c, s), Enters(E, d, l, p, c, s, d2, l2, p2, c2, s2, w)
    PROVE  /\ \A i \in 1 .. Len(s) : /\ Own(d2, c2, s2, i) = Own(d, c, s, i)
                                     /\ w \notin Own(d, c, s, i)
           /\ Own(d2, c2, s2, Len(s) + 1) = {w}
<1> DEFINE n == Len(s)
<1>1. /\ c \in Nat /\ c2 = c + 1 /\ w \in Nodes /\ d[w] = -1 /\ d2[w] = c /\ n \in Nat
      /\ \A z \in Nodes : /\ d[z] \in Int /\ d2[z] \in Int /\ d[z] < c /\ -1 <= d[z]
                          /\ z # w => d2[z] = d[z]
      /\ \A i \in 1 .. n : s[i].node \in Nodes /\ s[i].node # w /\ d[s[i].node] # -1
  BY EnterMeans
<1>2. /\ Len(s2) = n + 1 /\ \A i \in 1 .. n : s2[i].node = s[i].node
      /\ s2[n + 1].node = w
  BY Zenon DEF Enters
<1>3. ASSUME NEW i \in 1 .. n
      PROVE  Own(d2, c2, s2, i) = Own(d, c, s, i) /\ w \notin Own(d, c, s, i)
  <2>1. /\ d2[s2[i].node] = d[s[i].node] /\ d[s[i].node] > -1 /\ d[s[i].node] \in Int
    BY <1>1, <1>2
  <2>2. Upto(d2, c2, s2, i) = Upto(d, c, s, i) /\ Upto(d, c, s, i) \in Int /\ Upto(d, c, s, i) <= c
    <3>1. CASE i = n
      <4>1. Upto(d2, c2, s2, i) = c
        BY <1>1, <1>2, <3>1 DEF Upto
      <4>2. Upto(d, c, s, i) = c
        BY <3>1 DEF Upto
      <4> QED
        BY <1>1, <4>1, <4>2
    <3>2. CASE i # n
      <4>1. i + 1 \in 1 .. n
        BY <1>1, <3>2
      <4>2. i # n + 1 /\ s2[i + 1].node = s[i + 1].node /\ s[i + 1].node \in Nodes
            /\ d2[s[i + 1].node] = d[s[i + 1].node]
        BY <1>1, <1>2, <4>1
      <4>3. Upto(d2, c2, s2, i) = d[s[i + 1].node]
        BY <1>2, <4>2 DEF Upto
      <4>4. Upto(d, c, s, i) = d[s[i + 1].node]
        BY <3>2 DEF Upto
      <4>5. d[s[i + 1].node] <= c /\ d[s[i + 1].node] \in Int
        BY <1>1, <4>2
      <4> QED
        BY <4>3, <4>4, <4>5
    <3> QED
      BY <3>1, <3>2
  <2> DEFINE u == Upto(d, c, s, i)
             m == d[s[i].node]
  <2>3. Own(d2, c2, s2, i) = {x \in Nodes : m <= d2[x] /\ d2[x] < u}
    BY <2>1, <2>2 DEF Own
  <2>4. Own(d, c, s, i) = {x \in Nodes : m <= d[x] /\ d[x] < u}
    BY DEF Own
  <2>5. u \in Int /\ m \in Int /\ u <= c /\ m > -1
    BY <2>1, <2>2
  <2> HIDE DEF u, m
  <2>6. \A x \in Nodes : (m <= d2[x] /\ d2[x] < u) <=> (m <= d[x] /\ d[x] < u)
    BY <1>1, <2>5
  <2>7. ~(m <= d[w])
    BY <1>1, <2>5
  <2> QED
    BY <2>3, <2>4, <2>6, <2>7
<1>4. Own(d2, c2, s2, n + 1) = {w}
  <2>1. Upto(d2, c2, s2, n + 1) = c + 1
    BY <1>1, <1>2 DEF Upto
  <2>2. Own(d2, c2, s2, n + 1) = {x \in Nodes : c <= d2[x] /\ d2[x] < c + 1}
    BY <1>1, <1>2, <2>1 DEF Own
  <2> HIDE DEF n
  <2>3. \A x \in Nodes : (c <= d2[x] /\ d2[x] < c + 1) <=> x = w
    BY <1>1
  <2> QED
    BY <1>1, <2>2, <2>3
<1> QED
  BY <1>3, <1>4

\* A node of a call is its own one or is over, and all of its neighbours that the call does
\* not have to look at yet were discovered.
LEMMA OwnSeen ==
    ASSUME NEW E, NEW d, NEW l, NEW p, NEW c, NEW s, Shape(E, d, l, p, c, s),
           NEW i \in 1 .. Len(s), NEW x \in Own(d, c, s, i), NEW y \in Nbr(E, x),
           x = s[i].node => y \notin s[i].left
    PROVE  d[y] # -1 /\ (x # s[i].node => Closed(d, s, x))
<1>1. Stacked(E, d, p, s) /\ Sealed(E, d, s) /\ Numbered(d, l, p, c, s)
  BY DEF Shape
<1>2. CASE x = s[i].node
  BY <1>1, <1>2 DEF Stacked
<1>3. CASE x # s[i].node
  <2>1. x \in Nodes /\ d[s[i].node] <= d[x] /\ d[x] < Upto(d, c, s, i)
    BY DEF Own
  <2>2. \A k \in 1 .. Len(s) : s[k].node \in Nodes /\ d[s[k].node] \in Int /\ -1 <= d[s[k].node]
                               /\ d[s[k].node] # -1
    <3> DEFINE R == [node : Nodes, left : SUBSET Nodes, children : Nat]
    <3>1. s \in Seq(R)
      BY <1>1 DEF Numbered
    <3> HIDE DEF R
    <3>2. \A k \in 1 .. Len(s) : s[k] \in R
      BY <3>1
    <3>3. \A k \in 1 .. Len(s) : s[k].node \in Nodes
      BY <3>2 DEF R
    <3> QED
      BY <1>1, <3>3, Zenon DEF Numbered, Stacked
  <2>3. d[x] \in Int /\ d[x] # -1
    BY <1>1, <2>1, <2>2 DEF Numbered
  <2>4. ASSUME NEW k \in 1 .. Len(s), s[k].node = x PROVE FALSE
    <3>0. Len(s) \in Nat
      BY <1>1 DEF Numbered
    <3>1. k < i \/ k = i \/ i < k
      BY <3>0
    <3>2. CASE k < i
      <4>1. d[x] < d[s[i].node]
        BY <1>1, <2>4, <3>2 DEF Stacked
      <4> QED
        BY <2>1, <2>2, <2>3, <4>1
    <3>3. CASE i < k
      <4>1. i + 1 \in 1 .. Len(s) /\ i # Len(s) /\ (i + 1 = k \/ i + 1 < k)
        BY <3>0, <3>3
      <4>2. Upto(d, c, s, i) = d[s[i + 1].node]
        BY <4>1 DEF Upto
      <4>3. i + 1 < k => d[s[i + 1].node] < d[x]
        BY <1>1, <2>4, <4>1 DEF Stacked
      <4>4. d[s[i + 1].node] <= d[x] /\ d[s[i + 1].node] \in Int
        BY <2>2, <2>3, <2>4, <4>1, <4>3
      <4> QED
        BY <2>1, <2>3, <4>2, <4>4
    <3> QED
      BY <1>3, <2>4, <3>1, <3>2, <3>3
  <2>5. Closed(d, s, x)
    BY <2>3, <2>4 DEF Closed
  <2> QED
    BY <1>1, <2>1, <2>5 DEF Sealed
<1> QED
  BY <1>2, <1>3

\* The lows bound what they bounded; w itself has not looked at anything yet.
LEMMA EnterBounded ==
    ASSUME NEW E, NEW d, NEW l, NEW p, NEW c, NEW s, NEW d2, NEW l2, NEW p2, NEW c2, NEW s2, NEW w,
           Shape(E, d, l, p, c, s), Enters(E, d, l, p, c, s, d2, l2, p2, c2, s2, w),
           Bounded(E, d, l, p, c, s)
    PROVE  Bounded(E, d2, l2, p2, c2, s2)
<1> DEFINE n == Len(s)
<1>1. /\ c \in Nat /\ c2 = c + 1 /\ w \in Nodes /\ d[w] = -1 /\ d2[w] = c /\ n \in Nat
      /\ \A z \in Nodes : /\ d[z] \in Int /\ d2[z] \in Int /\ d[z] < c
                          /\ l[z] <= d[z] /\ l[z] \in Int
                          /\ z # w => d2[z] = d[z] /\ l2[z] = l[z] /\ p2[z] = p[z]
      /\ \A i \in 1 .. n : s[i].node \in Nodes /\ s[i].node # w
  BY EnterMeans
<1>2. /\ Len(s2) = n + 1 /\ s2[n + 1].node = w /\ s2[n + 1].left = Nbr(E, w)
      /\ \A i \in 1 .. n : /\ s2[i].node = s[i].node
                           /\ s2[i].left = IF i = n THEN s[i].left \ {w} ELSE s[i].left
  BY Zenon DEF Enters
<1>3. /\ \A i \in 1 .. n : Own(d2, c2, s2, i) = Own(d, c, s, i) /\ w \notin Own(d, c, s, i)
      /\ Own(d2, c2, s2, n + 1) = {w}
  BY EnterOwn
<1> SUFFICES ASSUME NEW i \in 1 .. n + 1, NEW x \in Own(d2, c2, s2, i), NEW y \in Nbr(E, x),
                    x = s2[i].node => y \notin s2[i].left /\ y # p2[x]
             PROVE  l2[s2[i].node] <= d2[y]
  <2> HIDE DEF n
  <2> QED
    BY <1>2 DEF Bounded
<1>4. CASE i = n + 1
  BY <1>2, <1>3, <1>4
<1>5. CASE i \in 1 .. n
  <2>1. /\ s2[i].node = s[i].node /\ s[i].node \in Nodes /\ s[i].node # w
        /\ x \in Own(d, c, s, i) /\ x \in Nodes /\ x # w /\ y \in Nodes
    BY <1>1, <1>2, <1>3, <1>5, Zenon DEF Own, Nbr
  <2>2. l2[s2[i].node] = l[s[i].node] /\ p2[x] = p[x] /\ l[s[i].node] < c
    BY <1>1, <2>1
  <2>3. CASE y = w
    <3>1. l[s[i].node] \in Int /\ d2[y] = c
      BY <1>1, <2>1, <2>3
    <3> QED
      BY <1>1, <2>2, <3>1
  <2>4. CASE y # w
    <3>1. s[i].left \subseteq s2[i].left \cup {w}
      BY <1>2, <1>5, Zenon
    <3>2. x = s[i].node => y \notin s[i].left /\ y # p[x]
      BY <2>1, <2>2, <2>4, <3>1
    <3>3. l[s[i].node] <= d[y]
      BY <1>5, <2>1, <3>2 DEF Bounded
    <3>4. d2[y] = d[y]
      BY <1>1, <2>1, <2>4
    <3> QED
      BY <2>2, <3>3, <3>4
  <2> QED
    BY <2>3, <2>4
<1>6. i \in 1 .. n \/ i = n + 1
  BY <1>1
<1> QED
  BY <1>4, <1>5, <1>6

\* The low of w is its own number.
LEMMA EnterAttained ==
    ASSUME NEW E, NEW d, NEW l, NEW p, NEW c, NEW s, NEW d2, NEW l2, NEW p2, NEW c2, NEW s2, NEW w,
           Shape(E, d, l, p, c, s), Enters(E, d, l, p, c, s, d2, l2, p2, c2, s2, w),
           Attained(E, d, l, p, s)
    PROVE  Attained(E, d2, l2, p2, s2)
<1> DEFINE n == Len(s)
<1>1. /\ c \in Nat /\ c2 = c + 1 /\ w \in Nodes /\ d[w] = -1 /\ d2[w] = c /\ n \in Nat /\ l2[w] = c
      /\ \A z \in Nodes : /\ d[z] \in Int /\ d2[z] \in Int /\ d[z] < c
                          /\ l[z] <= d[z] /\ l[z] \in Int
                          /\ -1 <= d[z]
                          /\ z # w => d2[z] = d[z] /\ l2[z] = l[z] /\ p2[z] = p[z]
      /\ \A i \in 1 .. n : s[i].node \in Nodes /\ s[i].node # w /\ d[s[i].node] # -1
  BY EnterMeans
<1>2. /\ Len(s2) = n + 1 /\ s2[n + 1].node = w
      /\ \A i \in 1 .. n : s2[i].node = s[i].node
  BY Zenon DEF Enters
<1> HIDE DEF n
<1>3. d2[s2[1].node] <= c
  <2>1. n = 0 \/ 1 \in 1 .. n
    BY <1>1
  <2> QED
    BY <1>1, <1>2, <2>1
<1> SUFFICES ASSUME NEW i \in 1 .. n + 1
             PROVE  /\ d2[s2[1].node] <= l2[s2[i].node]
                    /\ \/ l2[s2[i].node] = d2[s2[i].node]
                       \/ Back(E, d2, l2, p2, s2[i].node)
  BY <1>2 DEF Attained
<1>4. CASE i = n + 1
  BY <1>1, <1>2, <1>3, <1>4
<1>5. CASE i \in 1 .. n
  <2> DEFINE v == s[i].node
  <2>0. 1 \in 1 .. n
    BY <1>1, <1>5
  <2>1. /\ s2[i].node = v /\ v \in Nodes /\ v # w /\ d2[v] = d[v] /\ l2[v] = l[v]
        /\ d2[s2[1].node] = d[s[1].node] /\ -1 < d[s[1].node] /\ d[s[1].node] \in Int
    BY <1>1, <1>2, <1>5, <2>0
  <2>2. d[s[1].node] <= l[v] /\ (l[v] = d[v] \/ Back(E, d, l, p, v))
    BY <1>5 DEF Attained, n
  <2> HIDE DEF v
  <2>3. ASSUME Back(E, d, l, p, v) PROVE Back(E, d2, l2, p2, v)
    <3>1. PICK x \in Nodes : /\ d[x] >= d[v]
                             /\ \E y \in Nbr(E, x) : d[y] = l[v] /\ (x = v => y # p[x])
      BY <2>3 DEF Back
    <3>2. PICK y \in Nbr(E, x) : d[y] = l[v] /\ (x = v => y # p[x])
      BY <3>1
    <3>3. y \in Nodes
      BY DEF Nbr
    <3>4. y # w /\ x # w
      BY <1>1, <2>1, <2>2, <3>1, <3>2
    <3>5. d2[x] >= d2[v] /\ d2[y] = l2[v] /\ (x = v => y # p2[x])
      BY <1>1, <2>1, <3>1, <3>2, <3>3, <3>4
    <3> QED
      BY <3>5 DEF Back
  <2> QED
    BY <2>1, <2>2, <2>3
<1>6. i \in 1 .. n \/ i = n + 1
  BY <1>1
<1> QED
  BY <1>4, <1>5, <1>6

\* The caller's new child is the call above, and has not returned.
LEMMA EnterParted ==
    ASSUME NEW E, NEW d, NEW l, NEW p, NEW c, NEW s, NEW d2, NEW l2, NEW p2, NEW c2, NEW s2, NEW w,
           Shape(E, d, l, p, c, s), Enters(E, d, l, p, c, s, d2, l2, p2, c2, s2, w),
           Parted(E, d, c, s)
    PROVE  Parted(E, d2, c2, s2)
<1> DEFINE n == Len(s)
<1>1. n \in Nat /\ \A i \in 1 .. n : s[i].children \in Nat
  BY EnterMeans
<1>2. /\ Len(s2) = n + 1 /\ s2[n + 1].node = w /\ s2[n + 1].children = 0
      /\ \A i \in 1 .. n : /\ s2[i].node = s[i].node
                           /\ s2[i].children = IF i = n THEN s[i].children + 1 ELSE s[i].children
  BY Zenon DEF Enters
<1>3. /\ \A i \in 1 .. n : Kids(d2, c2, s2, i) = Kids(d, c, s, i)
      /\ Kids(d2, c2, s2, n + 1) = {}
  BY <1>2, EnterOwn DEF Kids
<1> SUFFICES ASSUME NEW i \in 1 .. n + 1
             PROVE  /\ Returned(s2, i) \in Nat
                    /\ IF Returned(s2, i) = 0 THEN Kids(d2, c2, s2, i) = {}
                       ELSE Kids(d2, c2, s2, i) \cap Nbr(E, s2[i].node) # {}
  <2> HIDE DEF n
  <2> QED
    BY <1>2 DEF Parted
<1>4. CASE i = n + 1
  <2>1. Returned(s2, i) = 0
    BY <1>2, <1>4 DEF Returned
  <2> QED
    BY <1>3, <1>4, <2>1
<1>5. CASE i \in 1 .. n
  <2>1. i # n + 1
    BY <1>1, <1>5
  <2>2. Returned(s2, i) = Returned(s, i)
    BY <1>1, <1>2, <1>5, <2>1 DEF Returned
  <2> QED
    BY <1>2, <1>3, <1>5, <2>2 DEF Parted
<1>6. i \in 1 .. n \/ i = n + 1
  BY <1>1
<1> QED
  BY <1>4, <1>5, <1>6

\* What was found, and what is over, stays: w touches nothing of it.
LEMMA EnterResults ==
    ASSUME NEW E, NEW d, NEW l, NEW p, NEW c, NEW s, NEW d2, NEW l2, NEW p2, NEW c2, NEW s2, NEW w,
           NEW bs, NEW as,
           Shape(E, d, l, p, c, s), Enters(E, d, l, p, c, s, d2, l2, p2, c2, s2, w),
           Results(E, d, p, c, s, bs, as)
    PROVE  Results(E, d2, p2, c2, s2, bs, as)
<1> DEFINE n == Len(s)
<1>1. /\ n \in Nat /\ w \in Nodes /\ p2[w] = IF n = 0 THEN None ELSE s[n].node
      /\ \A z \in Nodes : z # w => d2[z] = d[z] /\ p2[z] = p[z]
      /\ \A i \in 1 .. n : s[i].node \in Nodes /\ s[i].node # w
  BY EnterMeans
<1>2. /\ Len(s2) = n + 1 /\ s2[n + 1].node = w
      /\ \A i \in 1 .. n : s2[i].node = s[i].node
  BY Zenon DEF Enters
<1>3. /\ \A i \in 1 .. n : Kids(d2, c2, s2, i) = Kids(d, c, s, i)
      /\ Kids(d2, c2, s2, n + 1) = {}
  BY <1>2, EnterOwn DEF Kids
<1>4. ASSUME NEW y \in Nodes, Closed(d2, s2, y)
      PROVE  y # w /\ Closed(d, s, y) /\ p2[y] = p[y]
  <2> HIDE DEF n
  <2>1. n + 1 \in 1 .. Len(s2)
    BY <1>1, <1>2
  <2>2. y # w
    BY <1>2, <1>4, <2>1 DEF Closed
  <2>3. ASSUME NEW i \in 1 .. n PROVE s[i].node # y
    <3>1. i \in 1 .. Len(s2) /\ s2[i].node = s[i].node
      BY <1>1, <1>2
    <3> QED
      BY <1>4, <3>1 DEF Closed
  <2>4. d[y] # -1
    BY <1>1, <1>4, <2>2 DEF Closed
  <2> QED
    BY <1>1, <2>2, <2>3, <2>4 DEF Closed, n
<1>5. Marked(E, d2, p2, c2, s2, as)
  <2> SUFFICES ASSUME NEW i \in 1 .. n + 1, s2[i].node \notin as,
                      NEW x \in Kids(d2, c2, s2, i) \cup ({p2[s2[i].node]} \ {None}),
                      NEW y \in Kids(d2, c2, s2, i) \cup ({p2[s2[i].node]} \ {None})
               PROVE  Avoiding(E, s2[i].node, x, y)
    <3> HIDE DEF n
    <3> QED
      BY <1>2, Zenon DEF Marked
  <2>1. CASE i = n + 1
    <3>1. n # 0 /\ x = s[n].node /\ y = s[n].node
      BY <1>1, <1>2, <1>3, <2>1
    <3>2. n \in 1 .. n
      BY <1>1, <3>1
    <3>3. x \in Nodes \ {w} /\ IsFiniteSet(Nodes \ {w})
      BY <1>1, <3>1, <3>2, NodesAreFinite, FS_Subset
    <3> QED
      BY <1>2, <2>1, <3>1, <3>3, JoinedSelf, Zenon DEF Avoiding
  <2>2. CASE i \in 1 .. n
    <3>1. s2[i].node = s[i].node /\ p2[s[i].node] = p[s[i].node]
          /\ Kids(d2, c2, s2, i) = Kids(d, c, s, i)
      BY <1>1, <1>2, <1>3, <2>2
    <3>2. Marked(E, d, p, c, s, as)
      BY DEF Results
    <3> QED
      BY <2>2, <3>1, <3>2, Zenon DEF Marked
  <2>3. i \in 1 .. n \/ i = n + 1
    BY <1>1
  <2> QED
    BY <2>1, <2>2, <2>3
<1>6. FinishedB(E, d2, p2, s2, bs)
  BY <1>4, Zenon DEF Results, FinishedB
<1>7. FinishedA(E, d2, s2, as)
  BY <1>4, Zenon DEF Results, FinishedA
<1> QED
  BY <1>5, <1>6, <1>7 DEF Results

\* A call of visit keeps all of this.
LEMMA EnterKeeps ==
    ASSUME NEW E, NEW d, NEW l, NEW p, NEW c, NEW s, NEW d2, NEW l2, NEW p2, NEW c2, NEW s2, NEW w,
           NEW bs, NEW as,
           Shape(E, d, l, p, c, s), Ways(E, d, p, c, s), Lows(E, d, l, p, c, s),
           Results(E, d, p, c, s, bs, as),
           Enters(E, d, l, p, c, s, d2, l2, p2, c2, s2, w)
    PROVE  /\ Shape(E, d2, l2, p2, c2, s2) /\ Ways(E, d2, p2, c2, s2)
           /\ Lows(E, d2, l2, p2, c2, s2) /\ Results(E, d2, p2, c2, s2, bs, as)
<1>1. Shape(E, d2, l2, p2, c2, s2)
  BY EnterNumbered, EnterStacked DEF Shape
<1>2. Ways(E, d2, p2, c2, s2)
  BY EnterHanging, EnterHeld, EnterTrees DEF Ways
<1>3. Lows(E, d2, l2, p2, c2, s2)
  BY EnterBounded, EnterAttained, EnterParted DEF Lows
<1> QED
  BY <1>1, <1>2, <1>3, EnterResults, Zenon

-----------------------------------------------------------------------------
(* The call at the top looks at a neighbour w that was discovered before.   *)

Looks(E, d, l, p, s, l2, s2, w) ==
    /\ Len(s) # 0 /\ w \in s[Len(s)].left /\ d[w] # -1
    /\ l2 = IF w = p[s[Len(s)].node] THEN l
            ELSE [l EXCEPT ![s[Len(s)].node] = G!Smaller(l[s[Len(s)].node], d[w])]
    /\ s2 \in Seq([node : Nodes, left : SUBSET Nodes, children : Nat])
    /\ Len(s2) = Len(s)
    /\ \A i \in 1 .. Len(s) :
          /\ s2[i].node = s[i].node /\ s2[i].children = s[i].children
          /\ s2[i].left = IF i = Len(s) THEN s[i].left \ {w} ELSE s[i].left

\* The nodes of the calls, in any state.
LEMMA CallsMean ==
    ASSUME NEW E, NEW d, NEW l, NEW p, NEW c, NEW s, Shape(E, d, l, p, c, s)
    PROVE  /\ Len(s) \in Nat /\ c \in Nat
           /\ \A z \in Nodes : /\ d[z] \in Int /\ l[z] \in Int /\ -1 <= d[z] /\ d[z] < c
                               /\ l[z] <= d[z] /\ p[z] \in Nodes \cup {None}
           /\ \A y, z \in Nodes : d[y] # -1 /\ d[y] = d[z] => y = z
           /\ \A i \in 1 .. Len(s) :
                 /\ s[i].node \in Nodes /\ s[i].children \in Nat /\ s[i].left \subseteq Nodes
                 /\ d[s[i].node] \in Int /\ d[s[i].node] > -1
                 /\ s[i].left \subseteq Nbr(E, s[i].node)
                 /\ p[s[i].node] = IF i = 1 THEN None ELSE s[i - 1].node
                 /\ \A j \in 1 .. Len(s) : i < j => d[s[i].node] < d[s[j].node]
<1>1. Numbered(d, l, p, c, s) /\ Stacked(E, d, p, s)
  BY DEF Shape
<1>2. \A i \in 1 .. Len(s) :
         s[i].node \in Nodes /\ s[i].children \in Nat /\ s[i].left \subseteq Nodes
  <2> DEFINE R == [node : Nodes, left : SUBSET Nodes, children : Nat]
  <2>1. s \in Seq(R)
    BY <1>1 DEF Numbered
  <2> HIDE DEF R
  <2>2. \A i \in 1 .. Len(s) : s[i] \in R
    BY <2>1
  <2> QED
    BY <2>2 DEF R
<1>3. /\ Len(s) \in Nat /\ c \in Nat
      /\ \A z \in Nodes : /\ d[z] \in Int /\ l[z] \in Int /\ -1 <= d[z] /\ d[z] < c
                          /\ l[z] <= d[z] /\ p[z] \in Nodes \cup {None}
      /\ \A y, z \in Nodes : d[y] # -1 /\ d[y] = d[z] => y = z
  BY <1>1 DEF Numbered
<1>4. \A i \in 1 .. Len(s) : d[s[i].node] \in Int /\ d[s[i].node] > -1
  BY <1>1, <1>2, <1>3 DEF Stacked
<1>5. \A i \in 1 .. Len(s) :
         /\ s[i].left \subseteq Nbr(E, s[i].node)
         /\ p[s[i].node] = IF i = 1 THEN None ELSE s[i - 1].node
         /\ \A j \in 1 .. Len(s) : i < j => d[s[i].node] < d[s[j].node]
  BY <1>1 DEF Stacked
<1> QED
  BY <1>2, <1>3, <1>4, <1>5

\* What is known of w and of the lows then.
LEMMA LookMeans ==
    ASSUME NEW E, NEW d, NEW l, NEW p, NEW c, NEW s, NEW l2, NEW s2, NEW w,
           Shape(E, d, l, p, c, s), Looks(E, d, l, p, s, l2, s2, w)
    PROVE  /\ Len(s) \in 1 .. Len(s) /\ w \in Nodes /\ w \in Nbr(E, s[Len(s)].node)
           /\ l2 \in [Nodes -> Int]
           /\ \A z \in Nodes : /\ l2[z] <= l[z] /\ (z # s[Len(s)].node => l2[z] = l[z])
                               /\ l2[z] = l[z] \/ (l2[z] = d[w] /\ w # p[z])
           /\ w # p[s[Len(s)].node] => l2[s[Len(s)].node] <= d[w]
<1> DEFINE n == Len(s)
           v == s[n].node
<1>0. l \in [Nodes -> Int]
  BY DEF Shape, Numbered
<1>1. /\ n \in 1 .. n /\ n \in Nat
      /\ \A z \in Nodes : d[z] \in Int /\ l[z] \in Int
      /\ v \in Nodes /\ w \in Nodes /\ w \in Nbr(E, v)
  <2>1. n \in 1 .. n /\ n \in Nat
    <3>1. n \in Nat /\ n # 0
      BY CallsMean DEF Looks
    <3> HIDE DEF n
    <3> QED
      BY <3>1
  <2>2. \A z \in Nodes : d[z] \in Int /\ l[z] \in Int
    BY CallsMean
  <2>3. v \in Nodes /\ s[n].left \subseteq Nbr(E, v)
    BY <2>1, CallsMean
  <2> QED
    BY <2>1, <2>2, <2>3, Zenon DEF Looks, Nbr
<1>2. l2 = IF w = p[v] THEN l ELSE [l EXCEPT ![v] = G!Smaller(l[v], d[w])]
  BY DEF Looks
<1>3. G!Smaller(l[v], d[w]) \in Int /\ G!Smaller(l[v], d[w]) <= l[v]
      /\ G!Smaller(l[v], d[w]) <= d[w] /\ G!Smaller(l[v], d[w]) \in {l[v], d[w]}
  BY <1>1 DEF G!Smaller
<1> HIDE DEF n, v
<1>4. l2 \in [Nodes -> Int]
  BY <1>0, <1>2, <1>3, Zenon
<1>5. ASSUME NEW z \in Nodes
      PROVE  /\ l2[z] <= l[z] /\ (z # v => l2[z] = l[z])
             /\ l2[z] = l[z] \/ (l2[z] = d[w] /\ w # p[z])
  BY <1>0, <1>1, <1>2, <1>3
<1>6. w # p[v] => l2[v] <= d[w]
  BY <1>0, <1>1, <1>2, <1>3
<1> QED
  BY <1>1, <1>4, <1>5, <1>6 DEF n, v

\* The call is done with w, which was discovered.
LEMMA LookShape ==
    ASSUME NEW E, NEW d, NEW l, NEW p, NEW c, NEW s, NEW l2, NEW s2, NEW w,
           Shape(E, d, l, p, c, s), Looks(E, d, l, p, s, l2, s2, w)
    PROVE  Shape(E, d, l2, p, c, s2)
<1> DEFINE n == Len(s)
<1>1. /\ Len(s2) = n /\ d[w] # -1
      /\ s2 \in Seq([node : Nodes, left : SUBSET Nodes, children : Nat])
      /\ \A i \in 1 .. n : s2[i].node = s[i].node /\ s2[i].left \subseteq s[i].left
                           /\ s[i].left \subseteq s2[i].left \cup {w}
  BY Zenon DEF Looks
<1>2. Numbered(d, l, p, c, s) /\ Rooted(E, d, p) /\ Stacked(E, d, p, s) /\ Sealed(E, d, s)
  BY DEF Shape
<1>3. Numbered(d, l2, p, c, s2)
  <2>1. /\ d \in [Nodes -> Int] /\ c \in Nat /\ p \in [Nodes -> Nodes \cup {None}]
        /\ \A z \in Nodes : l[z] \in Int /\ d[z] \in Int /\ -1 <= d[z] /\ d[z] < c /\ l[z] <= d[z]
        /\ \A v, x \in Nodes : d[v] # -1 /\ d[v] = d[x] => v = x
    BY <1>2 DEF Numbered
  <2>2. l2 \in [Nodes -> Int] /\ \A z \in Nodes : l2[z] <= l[z]
    BY LookMeans
  <2>3. \A z \in Nodes : l2[z] <= d[z]
    BY <2>1, <2>2
  <2> QED
    BY <1>1, <2>1, <2>2, <2>3 DEF Numbered
<1>4. Stacked(E, d, p, s2)
  <2> SUFFICES ASSUME NEW i \in 1 .. n
               PROVE  /\ d[s2[i].node] # -1 /\ s2[i].left \subseteq Nbr(E, s2[i].node)
                      /\ \A y \in Nbr(E, s2[i].node) \ s2[i].left : d[y] # -1
                      /\ p[s2[i].node] = IF i = 1 THEN None ELSE s2[i - 1].node
                      /\ \A j \in 1 .. n : i < j => d[s2[i].node] < d[s2[j].node]
    BY <1>1, Zenon DEF Stacked
  <2>1. /\ d[s[i].node] # -1 /\ s[i].left \subseteq Nbr(E, s[i].node)
        /\ \A y \in Nbr(E, s[i].node) \ s[i].left : d[y] # -1
        /\ p[s[i].node] = IF i = 1 THEN None ELSE s[i - 1].node
        /\ \A j \in 1 .. n : i < j => d[s[i].node] < d[s[j].node]
    BY <1>2 DEF Stacked
  <2>2. i # 1 => i - 1 \in 1 .. n
    <3>1. n \in Nat
      BY CallsMean
    <3> QED
      BY <3>1
  <2>3. p[s2[i].node] = IF i = 1 THEN None ELSE s2[i - 1].node
    BY <1>1, <2>1, <2>2, Zenon
  <2>4. \A j \in 1 .. n : i < j => d[s2[i].node] < d[s2[j].node]
    BY <1>1, <2>1, Zenon
  <2>5. \A y \in Nbr(E, s2[i].node) \ s2[i].left : d[y] # -1
    BY <1>1, <2>1
  <2> QED
    BY <1>1, <2>1, <2>3, <2>4, <2>5
<1>5. Sealed(E, d, s2)
  <2>1. \A y : Closed(d, s2, y) <=> Closed(d, s, y)
    BY <1>1, Zenon DEF Closed
  <2>2. \A i \in 1 .. n : s2[i].node = s[i].node
    BY <1>1
  <2> QED
    BY <1>1, <1>2, <2>1, <2>2, Zenon DEF Sealed
<1> QED
  BY <1>2, <1>3, <1>4, <1>5 DEF Shape

\* Nobody's calls or nodes change.
LEMMA LookOwn ==
    ASSUME NEW E, NEW d, NEW l, NEW p, NEW c, NEW s, NEW l2, NEW s2, NEW w,
           Shape(E, d, l, p, c, s), Looks(E, d, l, p, s, l2, s2, w)
    PROVE  /\ \A y : Closed(d, s2, y) <=> Closed(d, s, y)
           /\ \A i \in 1 .. Len(s) : /\ Own(d, c, s2, i) = Own(d, c, s, i)
                                     /\ Kids(d, c, s2, i) = Kids(d, c, s, i)
                                     /\ Returned(s2, i) = Returned(s, i)
<1>1. Len(s2) = Len(s) /\ \A i \in 1 .. Len(s) : s2[i].node = s[i].node
                                                 /\ s2[i].children = s[i].children
  BY Zenon DEF Looks
<1>2. \A y : Closed(d, s2, y) <=> Closed(d, s, y)
  BY <1>1 DEF Closed
<1>3. ASSUME NEW i \in 1 .. Len(s) PROVE Upto(d, c, s2, i) = Upto(d, c, s, i)
  <2>1. i # Len(s) => i + 1 \in 1 .. Len(s)
    <3>1. Len(s) \in Nat
      BY CallsMean
    <3> QED
      BY <3>1
  <2> QED
    BY <1>1, <2>1 DEF Upto
<1> QED
  BY <1>1, <1>2, <1>3 DEF Own, Kids, Returned

\* The tree and what was found stay ...
LEMMA LookWays ==
    ASSUME NEW E, NEW d, NEW l, NEW p, NEW c, NEW s, NEW l2, NEW s2, NEW w, NEW bs, NEW as,
           Shape(E, d, l, p, c, s), Looks(E, d, l, p, s, l2, s2, w),
           Ways(E, d, p, c, s), Results(E, d, p, c, s, bs, as)
    PROVE  Ways(E, d, p, c, s2) /\ Results(E, d, p, c, s2, bs, as)
<1>1. Len(s2) = Len(s) /\ \A i \in 1 .. Len(s) : s2[i].node = s[i].node
  BY Zenon DEF Looks
<1>2. Hanging(d, p, c, s2)
  BY <1>1 DEF Ways, Hanging
<1>3. Held(d, p, s2)
  <2>1. Len(s) # 0 => 1 \in 1 .. Len(s)
    BY LookMeans
  <2> QED
    BY <1>1, <2>1 DEF Ways, Held
<1>4. Marked(E, d, p, c, s2, as)
  <2>1. \A i \in 1 .. Len(s) : Kids(d, c, s2, i) = Kids(d, c, s, i)
    BY LookOwn
  <2>2. Marked(E, d, p, c, s, as)
    BY DEF Results
  <2> SUFFICES ASSUME NEW i \in 1 .. Len(s), s[i].node \notin as,
                      NEW x \in Kids(d, c, s, i) \cup ({p[s[i].node]} \ {None}),
                      NEW y \in Kids(d, c, s, i) \cup ({p[s[i].node]} \ {None})
               PROVE  Avoiding(E, s[i].node, x, y)
    BY <1>1, <2>1, Zenon DEF Marked
  <2> QED
    BY <2>2, Zenon DEF Marked
<1>5. FinishedB(E, d, p, s2, bs)
  BY LookOwn, Zenon DEF Results, FinishedB
<1>6. FinishedA(E, d, s2, as)
  BY LookOwn, Zenon DEF Results, FinishedA
<1> QED
  BY <1>2, <1>3, <1>4, <1>5, <1>6 DEF Ways, Results

\* ... and the edge to w is one that the low of the call knows of now.
LEMMA LookLows ==
    ASSUME NEW E, NEW d, NEW l, NEW p, NEW c, NEW s, NEW l2, NEW s2, NEW w,
           Shape(E, d, l, p, c, s), Looks(E, d, l, p, s, l2, s2, w), Lows(E, d, l, p, c, s)
    PROVE  Lows(E, d, l2, p, c, s2)
<1> DEFINE n == Len(s)
<1>1. /\ Len(s2) = n /\ d[w] # -1
      /\ \A i \in 1 .. n : s2[i].node = s[i].node
                           /\ s2[i].left = IF i = n THEN s[i].left \ {w} ELSE s[i].left
  BY Zenon DEF Looks
<1>2. /\ n \in 1 .. n /\ w \in Nodes /\ w \in Nbr(E, s[n].node)
      /\ \A z \in Nodes : /\ l2[z] <= l[z] /\ (z # s[n].node => l2[z] = l[z])
                          /\ l2[z] = l[z] \/ (l2[z] = d[w] /\ w # p[z])
                          /\ l2[z] \in Int
      /\ w # p[s[n].node] => l2[s[n].node] <= d[w]
  BY LookMeans
<1>3. /\ n \in Nat
      /\ \A z \in Nodes : d[z] \in Int /\ l[z] \in Int /\ l[z] <= d[z]
      /\ \A i \in 1 .. n : s[i].node \in Nodes /\ d[s[i].node] \in Int
      /\ \A i, j \in 1 .. n : i < j => d[s[i].node] < d[s[j].node]
  BY CallsMean
<1>4. \A i \in 1 .. n : /\ Own(d, c, s2, i) = Own(d, c, s, i)
                        /\ Kids(d, c, s2, i) = Kids(d, c, s, i)
                        /\ Returned(s2, i) = Returned(s, i)
  BY LookOwn
<1>5. Bounded(E, d, l, p, c, s) /\ Attained(E, d, l, p, s) /\ Parted(E, d, c, s)
  BY DEF Lows
<1>6. Parted(E, d, c, s2)
  BY <1>1, <1>4, <1>5, Zenon DEF Parted
<1>7. Bounded(E, d, l2, p, c, s2)
  <2> SUFFICES ASSUME NEW i \in 1 .. n, NEW x \in Own(d, c, s, i), NEW y \in Nbr(E, x),
                      x = s[i].node => y \notin s2[i].left /\ y # p[x]
               PROVE  l2[s[i].node] <= d[y]
    BY <1>1, <1>4, Zenon DEF Bounded
  <2>0. y \in Nodes
    BY DEF Nbr
  <2>1. CASE x = s[i].node /\ i = n /\ y = w
    BY <1>2, <2>1
  <2>2. CASE ~(x = s[i].node /\ i = n /\ y = w)
    <3>1. x = s[i].node => y \notin s[i].left /\ y # p[x]
      BY <1>1, <2>2, Zenon
    <3>2. l[s[i].node] <= d[y]
      BY <1>5, <3>1 DEF Bounded
    <3>3. l2[s[i].node] <= l[s[i].node] /\ l2[s[i].node] \in Int
      BY <1>2, <1>3, LookMeans
    <3> QED
      BY <1>3, <2>0, <3>2, <3>3
  <2> QED
    BY <2>1, <2>2
<1>8. Attained(E, d, l2, p, s2)
  <2> SUFFICES ASSUME NEW i \in 1 .. n
               PROVE  /\ d[s[1].node] <= l2[s[i].node]
                      /\ l2[s[i].node] = d[s[i].node] \/ Back(E, d, l2, p, s[i].node)
    <3>1. 1 \in 1 .. n
      BY <1>2
    <3> QED
      BY <1>1, <3>1, Zenon DEF Attained
  <2>1. CASE l2[s[i].node] = l[s[i].node]
    BY <1>5, <2>1 DEF Attained, Back
  <2>2. CASE l2[s[i].node] # l[s[i].node]
    <3>1. i = n /\ l2[s[n].node] = d[w] /\ w # p[s[n].node]
      <4>1. s[i].node = s[n].node
        BY <1>2, <1>3, <2>2
      <4>2. ~(i < n)
        BY <1>2, <1>3, <4>1
      <4> QED
        BY <1>2, <1>3, <2>2, <4>1, <4>2
    <3>2. Back(E, d, l2, p, s[n].node)
      <4>1. s[n].node \in Nodes /\ d[s[n].node] >= d[s[n].node]
        BY <1>2, <1>3
      <4> QED
        BY <1>2, <3>1, <4>1 DEF Back
    <3>3. d[s[1].node] <= d[w]
      <4>1. 1 \in 1 .. n /\ (1 = n \/ 1 < n)
        <5> HIDE DEF n
        <5> QED
          BY <1>2, <1>3
      <4>2. d[s[1].node] <= d[s[n].node]
        BY <1>2, <1>3, <4>1
      <4>3. CASE \E k \in 1 .. n : s[k].node = w
        <5>1. PICK k \in 1 .. n : s[k].node = w
          BY <4>3
        <5>2. k = 1 \/ 1 < k
          BY <1>2
        <5> QED
          BY <1>3, <4>1, <5>1, <5>2
      <4>4. CASE Closed(d, s, w)
        <5>1. s[n].node \in Nbr(E, w)
          BY <1>2, <1>3, NbrBack
        <5>2. d[w] < d[s[1].node] => d[s[n].node] < d[s[1].node]
          BY <1>2, <4>1, <4>4, <5>1 DEF Shape, Sealed
        <5> QED
          BY <1>2, <1>3, <4>1, <4>2, <5>2
      <4> QED
        BY <1>1, <4>3, <4>4 DEF Closed
    <3> QED
      BY <3>1, <3>2, <3>3
  <2> QED
    BY <2>1, <2>2
<1> QED
  BY <1>6, <1>7, <1>8 DEF Lows

-----------------------------------------------------------------------------
(* The call at the top is over.                                             *)

\* The nodes without one are finite.
LEMMA NodesWithout == \A v : IsFiniteSet(Nodes \ {v})
  BY NodesAreFinite, FS_Subset

\* The tree's edges up to a node before w do not touch w.
LEMMA TreeOlder ==
    ASSUME NEW E, NEW d, NEW l, NEW p, NEW c, NEW s, Shape(E, d, l, p, c, s),
           NEW w \in Nodes, NEW hi \in Int, hi < d[w], NEW e \in Tree(p, d, -1, hi)
    PROVE  e \in E /\ w \notin e
<1>1. PICK z \in Nodes : p[z] # None /\ d[z] <= hi /\ e = {z, p[z]}
  BY DEF Tree
<1>2. {z, p[z]} \in E /\ d[p[z]] < d[z]
  BY <1>1 DEF Shape, Rooted
<1>3. d[z] \in Int /\ d[w] \in Int /\ p[z] \in Nodes
  BY <1>1, CallsMean
<1>4. d[p[z]] \in Int
  BY <1>3, CallsMean
<1>5. z # w /\ p[z] # w
  BY <1>1, <1>2, <1>3, <1>4
<1> QED
  BY <1>1, <1>2, <1>5

\* Those after the node of a call touch nothing before it.
LEMMA TreeYounger ==
    ASSUME NEW E, NEW d, NEW l, NEW p, NEW c, NEW s, Shape(E, d, l, p, c, s),
           Hanging(d, p, c, s), NEW i \in 1 .. Len(s), NEW v \in Nodes, d[v] < d[s[i].node],
           NEW e \in Tree(p, d, d[s[i].node], c)
    PROVE  e \in E /\ v \notin e
<1>1. PICK z \in Nodes : p[z] # None /\ d[z] > d[s[i].node] /\ e = {z, p[z]}
  BY DEF Tree
<1>2. {z, p[z]} \in E
  BY <1>1 DEF Shape, Rooted
<1>3. d[z] \in Int /\ d[v] \in Int /\ d[s[i].node] \in Int /\ p[z] \in Nodes
  BY <1>1, CallsMean
<1>4. d[p[z]] >= d[s[i].node] /\ d[p[z]] \in Int
  BY <1>1, <1>3, CallsMean DEF Hanging
<1>5. z # v /\ p[z] # v
  BY <1>1, <1>3, <1>4
<1> QED
  BY <1>1, <1>2, <1>5

\* Two nodes of the current tree that are older than w are joined without w.
LEMMA OlderAvoid ==
    ASSUME NEW E, NEW d, NEW l, NEW p, NEW c, NEW s, Shape(E, d, l, p, c, s), Held(d, p, s),
           Len(s) # 0, NEW w \in Nodes,
           NEW x \in Nodes, d[s[1].node] <= d[x], d[x] < d[w],
           NEW y \in Nodes, d[s[1].node] <= d[y], d[y] < d[w]
    PROVE  Avoiding(E, w, x, y)
<1> DEFINE M == Nodes \ {w}
           L == G!Without(E, w)
           r == s[1].node
<1>1. ASSUME NEW t \in Nodes, r = s[1].node, d[r] <= d[t], d[t] < d[w]
      PROVE  Joined(M, L, t, r) /\ t \in M
  <2>0. 1 \in 1 .. Len(s) /\ d[t] \in Int /\ d[w] \in Int
    BY CallsMean
  <2>1. Joined(Nodes, Tree(p, d, -1, d[t]), t, r)
    BY <1>1, <2>0, CallsMean DEF Held
  <2>2. \A a \in M, b \in Nodes : {a, b} \in Tree(p, d, -1, d[t]) => b \in M /\ {a, b} \in L
    <3>1. \A e \in Tree(p, d, -1, d[t]) : e \in E /\ w \notin e
      BY <1>1, <2>0, TreeOlder
    <3> QED
      BY <3>1 DEF G!Without
  <2>3. t \in M
    BY <1>1, <2>0
  <2> HIDE DEF M, L, r
  <2>4. IsFiniteSet(M)
    BY NodesWithout, Zenon DEF M
  <2> QED
    BY <2>1, <2>2, <2>3, <2>4, NodesAreFinite, JoinedElse, Zenon
<1>2. Joined(M, L, x, r) /\ x \in M /\ Joined(M, L, y, r) /\ y \in M
  BY <1>1, Zenon
<1>3. Joined(M, L, x, y)
  <2> HIDE DEF L, r
  <2> QED
    BY <1>2, NodesWithout, JoinedBoth, Zenon
<1> QED
  BY <1>3 DEF Avoiding

\* What was discovered since a call is joined to its node without any node before.
LEMMA YoungerAvoid ==
    ASSUME NEW E, NEW d, NEW l, NEW p, NEW c, NEW s, Shape(E, d, l, p, c, s), Hanging(d, p, c, s),
           NEW i \in 1 .. Len(s), NEW v \in Nodes, d[v] < d[s[i].node],
           NEW x \in Nodes, d[x] >= d[s[i].node]
    PROVE  Avoiding(E, v, x, s[i].node)
<1> DEFINE M == Nodes \ {v}
           L == G!Without(E, v)
           T == Tree(p, d, d[s[i].node], c)
<1>1. Joined(Nodes, T, x, s[i].node)
  BY DEF Hanging
<1>2. \A a \in M, b \in Nodes : {a, b} \in T => b \in M /\ {a, b} \in L
  <2>1. \A e \in T : e \in E /\ v \notin e
    BY TreeYounger
  <2> QED
    BY <2>1 DEF G!Without
<1>3. x \in M
  BY CallsMean
<1>4. Joined(M, L, x, s[i].node)
  <2> HIDE DEF T, L
  <2> QED
    BY <1>1, <1>2, <1>3, NodesWithout, NodesAreFinite, JoinedElse, Zenon
<1> QED
  BY <1>4 DEF Avoiding

\* A neighbour of the node at the top, when it has looked at all of them.
LEMMA TopNeighbour ==
    ASSUME NEW E, NEW d, NEW l, NEW p, NEW c, NEW s, Shape(E, d, l, p, c, s),
           Len(s) # 0, s[Len(s)].left = {}, NEW x \in Nbr(E, s[Len(s)].node)
    PROVE  /\ x \in Nodes /\ d[x] # -1
           /\ \/ x \in Kids(d, c, s, Len(s))
              \/ \E j \in 1 .. Len(s) - 1 : x = s[j].node
<1> DEFINE n == Len(s)
           w == s[n].node
<1>1. /\ n \in Nat /\ n \in 1 .. n /\ w \in Nodes
      /\ \A z \in Nodes : d[z] \in Int /\ d[z] < c
      /\ \A y, z \in Nodes : d[y] # -1 /\ d[y] = d[z] => y = z
  <2>1. n \in Nat
    BY CallsMean
  <2>2. n \in 1 .. n
    <3> HIDE DEF n
    <3> QED
      BY <2>1 DEF n
  <2> QED
    BY <2>1, <2>2, CallsMean
<1>2. x \in Nodes /\ w \in Nbr(E, x) /\ x # w
  BY <1>1, NbrBack DEF Shape, Graph, Nbr
<1>3. d[x] # -1
  BY <1>1 DEF Shape, Stacked
<1>4. CASE d[x] > d[w]
  <2>1. x \in Own(d, c, s, n)
    BY <1>1, <1>2, <1>4 DEF Own, Upto
  <2> QED
    BY <1>2, <1>3, <2>1 DEF Kids
<1>5. CASE ~(d[x] > d[w])
  <2>1. d[x] < d[w]
    BY <1>1, <1>2, <1>3, <1>5
  <2>2. ~Closed(d, s, x)
    <3> SUFFICES ASSUME Closed(d, s, x) PROVE FALSE
      OBVIOUS
    <3>1. d[w] < d[w]
      BY <1>1, <1>2, <2>1 DEF Shape, Sealed
    <3> QED
      BY <1>1, <3>1
  <2>3. PICK j \in 1 .. n : s[j].node = x
    BY <1>3, <2>2 DEF Closed
  <2>4. j # n
    BY <1>2, <2>3
  <2>5. j \in 1 .. n - 1
    BY <1>1, <2>4
  <2> QED
    BY <1>2, <1>3, <2>3, <2>5
<1> QED
  BY <1>4, <1>5

\* A call that is over has found out whether its node is an articulation point.
LEMMA TopFinished ==
    ASSUME NEW E, NEW d, NEW l, NEW p, NEW c, NEW s, Shape(E, d, l, p, c, s), Ways(E, d, p, c, s),
           NEW as, Marked(E, d, p, c, s, as),
           Len(s) # 0, s[Len(s)].left = {}, s[Len(s)].node \notin as,
           NEW x \in Nbr(E, s[Len(s)].node), NEW y \in Nbr(E, s[Len(s)].node)
    PROVE  Avoiding(E, s[Len(s)].node, x, y)
<1> DEFINE n == Len(s)
           w == s[n].node
<1>1. /\ n \in Nat /\ n \in 1 .. n /\ w \in Nodes
      /\ \A i \in 1 .. n : /\ s[i].node \in Nodes /\ d[s[i].node] \in Int
                           /\ p[s[i].node] = IF i = 1 THEN None ELSE s[i - 1].node
                           /\ \A j \in 1 .. n : i < j => d[s[i].node] < d[s[j].node]
  <2>1. n \in Nat
    BY CallsMean
  <2>2. n \in 1 .. n
    <3> HIDE DEF n
    <3> QED
      BY <2>1 DEF n
  <2> QED
    BY <2>1, <2>2, CallsMean
<1>2. \A a, b \in Kids(d, c, s, n) \cup ({p[w]} \ {None}) : Avoiding(E, w, a, b)
  BY <1>1, Zenon DEF Marked
<1>3. CASE n = 1
  <2>1. ~\E j \in 1 .. n - 1 : TRUE
    BY <1>3
  <2>2. x \in Kids(d, c, s, n) /\ y \in Kids(d, c, s, n)
    BY <2>1, TopNeighbour
  <2> QED
    BY <1>2, <2>2
<1>4. CASE n # 1
  <2> DEFINE u == s[n - 1].node
  <2>1. n - 1 \in 1 .. n /\ n - 1 < n
    <3> HIDE DEF n
    <3> QED
      BY <1>1, <1>4
  <2>2. p[w] = u /\ u \in Nodes /\ d[u] < d[w] /\ u # None
    BY <1>1, <1>4, <2>1, NodesAreFinite
  <2>3. ASSUME NEW j \in 1 .. n - 1
        PROVE  s[j].node \in Nodes /\ d[s[1].node] <= d[s[j].node] /\ d[s[j].node] < d[w]
    <3>1. j \in 1 .. n /\ 1 \in 1 .. n /\ j < n /\ (j = 1 \/ 1 < j)
      <4> HIDE DEF n
      <4> QED
        BY <1>1
    <3> QED
      BY <1>1, <3>1
  <2>4. ASSUME NEW t \in Nbr(E, w) PROVE Avoiding(E, w, t, u)
    <3>1. CASE t \in Kids(d, c, s, n)
      BY <1>2, <2>2, <3>1
    <3>2. CASE \E j \in 1 .. n - 1 : t = s[j].node
      <4>1. PICK j \in 1 .. n - 1 : t = s[j].node
        BY <3>2
      <4>2. n - 1 \in 1 .. n - 1
        BY <1>1, <1>4
      <4>3. /\ t \in Nodes /\ d[s[1].node] <= d[t] /\ d[t] < d[w]
            /\ u \in Nodes /\ d[s[1].node] <= d[u] /\ d[u] < d[w]
        BY <2>3, <4>1, <4>2
      <4> HIDE DEF w, u
      <4> QED
        BY <1>1, <4>3, OlderAvoid DEF Ways
    <3> QED
      BY <3>1, <3>2, TopNeighbour
  <2>5. x \in Nodes \ {w} /\ y \in Nodes \ {w}
    <3>1. \A t \in Nbr(E, w) : t \in Nodes /\ t # w
      BY <1>1 DEF Nbr, Shape, Graph
    <3> QED
      BY <3>1
  <2>6. Avoiding(E, w, x, u) /\ Avoiding(E, w, y, u)
    BY <2>4
  <2> HIDE DEF w, u
  <2> QED
    BY <2>5, <2>6, NodesWithout, JoinedBoth, Zenon DEF Avoiding, w
<1> QED
  BY <1>3, <1>4

-----------------------------------------------------------------------------
(* The call of a root returns.                                              *)

\* The root of a tree is over: its neighbours are all in its tree.
LEMMA RootKeeps ==
    ASSUME NEW E, NEW d, NEW l, NEW p, NEW c, NEW s, NEW s2, NEW bs, NEW as,
           Shape(E, d, l, p, c, s), Ways(E, d, p, c, s), Lows(E, d, l, p, c, s),
           Results(E, d, p, c, s, bs, as),
           Len(s) = 1, s[1].left = {}, s2 = << >>
    PROVE  /\ Shape(E, d, l, p, c, s2) /\ Ways(E, d, p, c, s2)
           /\ Lows(E, d, l, p, c, s2) /\ Results(E, d, p, c, s2, bs, as)
<1>1. Len(s2) = 0 /\ s2 \in Seq([node : Nodes, left : SUBSET Nodes, children : Nat])
  BY Zenon, SMT
<1>2. \A i \in 1 .. Len(s2) : FALSE
  BY <1>1
<1>3. \A y : Closed(d, s2, y) => Closed(d, s, y) \/ y = s[1].node
  <2>1. \A i \in 1 .. Len(s) : i = 1
    OBVIOUS
  <2> QED
    BY <2>1 DEF Closed
<1>4. 1 \in 1 .. Len(s) /\ s[1].node \in Nodes /\ p[s[1].node] = None
  <2>1. 1 \in 1 .. Len(s)
    OBVIOUS
  <2> QED
    BY <2>1, CallsMean
<1>5. Shape(E, d, l, p, c, s2)
  <2>1. Numbered(d, l, p, c, s2)
    BY <1>1 DEF Shape, Numbered
  <2>2. Stacked(E, d, p, s2)
    BY <1>2 DEF Stacked
  <2>3. Sealed(E, d, s2)
    <3> SUFFICES ASSUME NEW y \in Nodes, Closed(d, s2, y), NEW x \in Nbr(E, y) PROVE d[x] # -1
      BY <1>2 DEF Sealed
    <3>1. CASE Closed(d, s, y)
      BY <3>1 DEF Shape, Sealed
    <3>2. CASE y = s[1].node
      BY <1>4, <3>2 DEF Shape, Stacked
    <3> QED
      BY <1>3, <3>1, <3>2
  <2> QED
    BY <2>1, <2>2, <2>3 DEF Shape
<1>6. Ways(E, d, p, c, s2)
  BY <1>1, <1>2 DEF Ways, Hanging, Held
<1>7. Lows(E, d, l, p, c, s2)
  BY <1>2 DEF Lows, Bounded, Attained, Parted
<1>8. Marked(E, d, p, c, s2, as)
  BY <1>2 DEF Marked
<1>9. FinishedB(E, d, p, s2, bs)
  BY <1>3, <1>4, Zenon DEF Results, FinishedB
<1>10. FinishedA(E, d, s2, as)
  <2> SUFFICES ASSUME NEW y \in Nodes, Closed(d, s2, y), y \notin as,
                      NEW x \in Nbr(E, y), NEW z \in Nbr(E, y)
               PROVE  Avoiding(E, y, x, z)
    BY Zenon DEF FinishedA
  <2>1. CASE Closed(d, s, y)
    BY <2>1, Zenon DEF Results, FinishedA
  <2>2. CASE y = s[1].node
    <3>1. y = s[Len(s)].node /\ s[Len(s)].left = {} /\ Len(s) # 0
      BY <2>2
    <3> QED
      BY <3>1, TopFinished, Zenon DEF Results
  <2> QED
    BY <1>3, <2>1, <2>2
<1> QED
  BY <1>5, <1>6, <1>7, <1>8, <1>9, <1>10, Zenon DEF Results

-----------------------------------------------------------------------------
(* The call for w returns to the call for v.                                *)

Leaves(d, l, p, s, bs, as, l2, s2, bs2, as2, v, w) ==
    /\ Len(s) > 1 /\ s[Len(s)].left = {} /\ w = s[Len(s)].node /\ v = s[Len(s) - 1].node
    /\ l2 = [l EXCEPT ![v] = G!Smaller(l[v], l[w])]
    /\ bs2 = bs \cup (IF l[w] > d[v] THEN {{v, w}} ELSE {})
    /\ as2 = as \cup (IF IF p[v] = None THEN s[Len(s) - 1].children > 1 ELSE l[w] >= d[v]
                      THEN {v} ELSE {})
    /\ s2 \in Seq([node : Nodes, left : SUBSET Nodes, children : Nat])
    /\ Len(s2) = Len(s) - 1 /\ \A i \in 1 .. Len(s) - 1 : s2[i] = s[i]

\* What is known of the two calls then.
LeaveFacts(E, d, l, p, s, l2, s2, v, w) ==
    /\ Len(s) \in Nat /\ Len(s) \in 1 .. Len(s) /\ Len(s) - 1 \in 1 .. Len(s)
    /\ Len(s) - 1 < Len(s) /\ Len(s) # 1 /\ Len(s) # 0 /\ 1 \in 1 .. Len(s)
    /\ 1 \in 1 .. Len(s) - 1 /\ Len(s) - 1 \in 1 .. Len(s) - 1
    /\ Len(s2) = Len(s) - 1
    /\ \A i \in 1 .. Len(s) - 1 : i \in 1 .. Len(s) /\ i < Len(s) /\ s2[i] = s[i]
    /\ \A i \in 1 .. Len(s) : i \in 1 .. Len(s) - 1 \/ i = Len(s)
    /\ v \in Nodes /\ w \in Nodes /\ v # w /\ d[v] < d[w] /\ p[w] = v /\ d[v] # -1
    /\ w \in Nbr(E, v) /\ v \in Nbr(E, w)
    /\ d[s[1].node] <= d[v]
    /\ l2 \in [Nodes -> Int] /\ l2[v] <= l[v] /\ l2[v] <= l[w] /\ l2[v] \in {l[v], l[w]}
    /\ \A z \in Nodes : l2[z] \in Int /\ l2[z] <= l[z] /\ (z # v => l2[z] = l[z])

\* w is a child of v in the tree.
LEMMA LeaveMeans ==
    ASSUME NEW E, NEW d, NEW l, NEW p, NEW c, NEW s, NEW bs, NEW as,
           NEW l2, NEW s2, NEW bs2, NEW as2, NEW v, NEW w,
           Shape(E, d, l, p, c, s), Leaves(d, l, p, s, bs, as, l2, s2, bs2, as2, v, w)
    PROVE  LeaveFacts(E, d, l, p, s, l2, s2, v, w)
<1> DEFINE n == Len(s)
<1>1. n \in Nat /\ n > 1
  BY CallsMean DEF Leaves
<1>2. /\ n \in 1 .. n /\ n - 1 \in 1 .. n /\ n - 1 < n /\ n # 1 /\ n # 0 /\ 1 \in 1 .. n
      /\ 1 \in 1 .. n - 1 /\ n - 1 \in 1 .. n - 1 /\ (n - 1 = 1 \/ 1 < n - 1)
      /\ \A i \in 1 .. n - 1 : i \in 1 .. n /\ i < n
      /\ \A i \in 1 .. n : i \in 1 .. n - 1 \/ i = n
  <2> HIDE DEF n
  <2> QED
    BY <1>1
<1>3. w = s[n].node /\ v = s[n - 1].node
  BY DEF Leaves
<1>4. /\ v \in Nodes /\ w \in Nodes /\ d[v] < d[w] /\ p[w] = v /\ d[v] > -1
      /\ d[v] \in Int /\ d[w] \in Int /\ l[v] \in Int /\ l[w] \in Int
  BY <1>2, <1>3, CallsMean
<1>5. v # w /\ d[v] # -1
  BY <1>4
<1>6. w \in Nbr(E, v) /\ v \in Nbr(E, w)
  <2>1. {w, v} \in E /\ {v, w} = {w, v}
    BY <1>4, NodesAreFinite DEF Shape, Rooted
  <2> QED
    BY <1>4, <2>1 DEF Nbr
<1>7. d[s[1].node] <= d[v]
  <2>1. n - 1 = 1 \/ d[s[1].node] < d[s[n - 1].node]
    BY <1>2, CallsMean
  <2>2. d[s[1].node] \in Int
    BY <1>2, CallsMean
  <2> QED
    <3> DEFINE k == n - 1
    <3>1. k = 1 \/ d[s[1].node] < d[s[k].node]
      BY <2>1
    <3>2. v = s[k].node /\ d[v] \in Int
      BY <1>3, <1>4
    <3> HIDE DEF k
    <3> QED
      BY <2>2, <3>1, <3>2
<1>8. l \in [Nodes -> Int]
  BY DEF Shape, Numbered
<1>9. l2 = [l EXCEPT ![v] = G!Smaller(l[v], l[w])]
  BY DEF Leaves
<1>10. /\ G!Smaller(l[v], l[w]) \in Int /\ G!Smaller(l[v], l[w]) <= l[v]
       /\ G!Smaller(l[v], l[w]) <= l[w] /\ G!Smaller(l[v], l[w]) \in {l[v], l[w]}
  BY <1>4 DEF G!Smaller
<1>11. l2 \in [Nodes -> Int] /\ l2[v] <= l[v] /\ l2[v] <= l[w] /\ l2[v] \in {l[v], l[w]}
  BY <1>4, <1>8, <1>9, <1>10
<1>12. \A z \in Nodes : l2[z] \in Int /\ l2[z] <= l[z] /\ (z # v => l2[z] = l[z])
  BY <1>4, <1>8, <1>9, <1>10
<1>13. Len(s2) = n - 1 /\ \A i \in 1 .. n - 1 : s2[i] = s[i]
  BY DEF Leaves
<1>14. \A i \in 1 .. n - 1 : i \in 1 .. n /\ i < n /\ s2[i] = s[i]
  BY <1>2, <1>13, Zenon
<1> QED
  BY <1>1, <1>2, <1>4, <1>5, <1>6, <1>7, <1>11, <1>12, <1>13, <1>14, Zenon DEF LeaveFacts

\* The node at the top is over then, and no other.
OverAre(d, s, s2, w) == \A y \in Nodes : Closed(d, s2, y) => Closed(d, s, y) \/ y = w

\* So it is, when w returns to v.
LEMMA LeaveClosed ==
    ASSUME NEW E, NEW d, NEW l, NEW p, NEW c, NEW s, NEW bs, NEW as,
           NEW l2, NEW s2, NEW bs2, NEW as2, NEW v, NEW w,
           Shape(E, d, l, p, c, s), Leaves(d, l, p, s, bs, as, l2, s2, bs2, as2, v, w)
    PROVE  OverAre(d, s, s2, w)
<1>0. LeaveFacts(E, d, l, p, s, l2, s2, v, w)
  BY LeaveMeans, Zenon
<1>1. \A i \in 1 .. Len(s) : (i \in 1 .. Len(s2) /\ s2[i] = s[i]) \/ i = Len(s)
  BY <1>0 DEF LeaveFacts
<1>2. w = s[Len(s)].node
  BY DEF Leaves
<1> QED
  BY <1>1, <1>2 DEF Closed, OverAre

\* What was discovered since w has no edge across the calls that go on.
LEMMA LeaveShape ==
    ASSUME NEW E, NEW d, NEW l, NEW p, NEW c, NEW s, NEW bs, NEW as,
           NEW l2, NEW s2, NEW bs2, NEW as2, NEW v, NEW w,
           Shape(E, d, l, p, c, s), Leaves(d, l, p, s, bs, as, l2, s2, bs2, as2, v, w)
    PROVE  Shape(E, d, l2, p, c, s2)
<1>0. LeaveFacts(E, d, l, p, s, l2, s2, v, w)
  BY LeaveMeans, Zenon
<1> DEFINE m == Len(s) - 1
<1>1. /\ Len(s2) = m /\ \A i \in 1 .. m : i \in 1 .. Len(s) /\ i < Len(s) /\ s2[i] = s[i]
      /\ Len(s) \in 1 .. Len(s) /\ m \in Nat
  BY <1>0 DEF LeaveFacts
<1>2. Numbered(d, l, p, c, s) /\ Rooted(E, d, p) /\ Stacked(E, d, p, s) /\ Sealed(E, d, s)
  BY DEF Shape
<1>3. w = s[Len(s)].node /\ s[Len(s)].left = {}
  BY DEF Leaves
<1>4. Numbered(d, l2, p, c, s2)
  <2>1. /\ d \in [Nodes -> Int] /\ c \in Nat /\ p \in [Nodes -> Nodes \cup {None}]
        /\ \A z \in Nodes : l[z] \in Int /\ d[z] \in Int /\ -1 <= d[z] /\ d[z] < c /\ l[z] <= d[z]
        /\ \A x, z \in Nodes : d[x] # -1 /\ d[x] = d[z] => x = z
    BY <1>2 DEF Numbered
  <2>2. l2 \in [Nodes -> Int] /\ \A z \in Nodes : l2[z] <= l[z] /\ l2[z] \in Int
    BY <1>0 DEF LeaveFacts
  <2>3. \A z \in Nodes : l2[z] <= d[z]
    BY <2>1, <2>2
  <2>4. s2 \in Seq([node : Nodes, left : SUBSET Nodes, children : Nat])
    BY DEF Leaves
  <2> QED
    BY <2>1, <2>2, <2>3, <2>4 DEF Numbered
<1> HIDE DEF m
<1>5. Stacked(E, d, p, s2)
  <2> SUFFICES ASSUME NEW i \in 1 .. m
               PROVE  /\ d[s2[i].node] # -1 /\ s2[i].left \subseteq Nbr(E, s2[i].node)
                      /\ \A y \in Nbr(E, s2[i].node) \ s2[i].left : d[y] # -1
                      /\ p[s2[i].node] = IF i = 1 THEN None ELSE s2[i - 1].node
                      /\ \A j \in 1 .. m : i < j => d[s2[i].node] < d[s2[j].node]
    BY <1>1, Zenon DEF Stacked
  <2>1. /\ d[s[i].node] # -1 /\ s[i].left \subseteq Nbr(E, s[i].node)
        /\ \A y \in Nbr(E, s[i].node) \ s[i].left : d[y] # -1
        /\ p[s[i].node] = IF i = 1 THEN None ELSE s[i - 1].node
        /\ \A j \in 1 .. Len(s) : i < j => d[s[i].node] < d[s[j].node]
    BY <1>1, <1>2 DEF Stacked
  <2>2. i # 1 => i - 1 \in 1 .. m
    BY <1>1
  <2>3. p[s2[i].node] = IF i = 1 THEN None ELSE s2[i - 1].node
    BY <1>1, <2>1, <2>2
  <2>4. \A j \in 1 .. m : i < j => d[s2[i].node] < d[s2[j].node]
    BY <1>1, <2>1
  <2> QED
    BY <1>1, <2>1, <2>3, <2>4
<1>6. Sealed(E, d, s2)
  <2> SUFFICES ASSUME NEW y \in Nodes, Closed(d, s2, y), NEW x \in Nbr(E, y)
               PROVE  /\ d[x] # -1
                      /\ \A i \in 1 .. m : d[y] < d[s[i].node] => d[x] < d[s[i].node]
    BY <1>1 DEF Sealed
  <2>1. CASE Closed(d, s, y)
    BY <1>1, <1>2, <2>1 DEF Sealed
  <2>2. CASE y = w
    <3>1. d[x] # -1
      BY <1>1, <1>2, <1>3, <2>2 DEF Stacked
    <3>2. \A i \in 1 .. m : d[s[i].node] < d[w] /\ d[s[i].node] \in Int /\ d[w] \in Int
      BY <1>1, <1>3, CallsMean
    <3> QED
      BY <2>2, <3>1, <3>2
  <2>3. OverAre(d, s, s2, w)
    BY LeaveClosed, Zenon
  <2> QED
    BY <2>1, <2>2, <2>3 DEF OverAre
<1> QED
  BY <1>2, <1>4, <1>5, <1>6 DEF Shape

\* The tree stays.
LEMMA LeaveWays ==
    ASSUME NEW E, NEW d, NEW l, NEW p, NEW c, NEW s, NEW bs, NEW as,
           NEW l2, NEW s2, NEW bs2, NEW as2, NEW v, NEW w,
           Shape(E, d, l, p, c, s), Leaves(d, l, p, s, bs, as, l2, s2, bs2, as2, v, w),
           Ways(E, d, p, c, s)
    PROVE  Ways(E, d, p, c, s2)
<1>0. LeaveFacts(E, d, l, p, s, l2, s2, v, w)
  BY LeaveMeans, Zenon
<1>1. /\ Len(s2) = Len(s) - 1 /\ Len(s) # 0
      /\ \A i \in 1 .. Len(s) - 1 : i \in 1 .. Len(s) /\ s2[i] = s[i]
      /\ 1 \in 1 .. Len(s) - 1
  BY <1>0 DEF LeaveFacts
<1>2. Hanging(d, p, c, s2)
  BY <1>1 DEF Ways, Hanging
<1>3. Held(d, p, s2)
  BY <1>1, Zenon DEF Ways, Held
<1> QED
  BY <1>2, <1>3 DEF Ways

\* The call for v has what the call for w had, and the calls below keep theirs.
Inherits(d, c, s, s2, w) ==
    /\ \A i \in 1 .. Len(s) - 1 :
          i # Len(s) - 1 => /\ Own(d, c, s2, i) = Own(d, c, s, i)
                            /\ Kids(d, c, s2, i) = Kids(d, c, s, i)
                            /\ Returned(s2, i) = Returned(s, i)
    /\ Own(d, c, s2, Len(s) - 1) = Own(d, c, s, Len(s) - 1) \cup Own(d, c, s, Len(s))
    /\ Kids(d, c, s2, Len(s) - 1) = Kids(d, c, s, Len(s) - 1) \cup Own(d, c, s, Len(s))
    /\ \A x : x \in Own(d, c, s, Len(s)) <=> x \in Nodes /\ d[x] >= d[w]
    /\ \A x : x \in Kids(d, c, s, Len(s) - 1) => x \in Nodes /\ d[x] < d[w]
    /\ Returned(s2, Len(s) - 1) = Returned(s, Len(s) - 1) + 1

\* So it is, when w returns to v.
LEMMA LeaveOwn ==
    ASSUME NEW E, NEW d, NEW l, NEW p, NEW c, NEW s, NEW bs, NEW as,
           NEW l2, NEW s2, NEW bs2, NEW as2, NEW v, NEW w,
           Shape(E, d, l, p, c, s), Leaves(d, l, p, s, bs, as, l2, s2, bs2, as2, v, w)
    PROVE  Inherits(d, c, s, s2, w)
<1>0. LeaveFacts(E, d, l, p, s, l2, s2, v, w)
  BY LeaveMeans, Zenon
<1> DEFINE n == Len(s)
           m == Len(s) - 1
<1>1. /\ Len(s2) = m /\ \A i \in 1 .. m : i \in 1 .. n /\ i < n /\ s2[i] = s[i]
      /\ n \in 1 .. n /\ n \in Nat /\ m \in 1 .. m /\ m < n /\ m # n /\ m \in 1 .. n
      /\ v \in Nodes /\ w \in Nodes /\ d[v] < d[w] /\ m + 1 = n
  BY <1>0 DEF LeaveFacts
<1>2. /\ \A z \in Nodes : d[z] \in Int /\ d[z] < c
      /\ c \in Nat /\ s[m].children \in Nat
  BY <1>1, CallsMean
<1>3. w = s[n].node /\ v = s[m].node
  BY DEF Leaves
<1> HIDE DEF n, m
<1>4. ASSUME NEW i \in 1 .. m, i # m
      PROVE  /\ Own(d, c, s2, i) = Own(d, c, s, i) /\ Kids(d, c, s2, i) = Kids(d, c, s, i)
             /\ Returned(s2, i) = Returned(s, i)
  <2>1. i + 1 \in 1 .. m /\ i # n
    BY <1>1, <1>4
  <2>2. Upto(d, c, s2, i) = Upto(d, c, s, i)
    BY <1>1, <1>4, <2>1 DEF Upto, n
  <2> QED
    BY <1>1, <1>4, <2>1, <2>2 DEF Own, Kids, Returned, n
<1>5. \A x : x \in Own(d, c, s, n) <=> x \in Nodes /\ d[x] >= d[w]
  <2>1. Upto(d, c, s, n) = c
    BY DEF Upto, n
  <2> QED
    BY <1>1, <1>2, <1>3, <2>1 DEF Own
<1>6. \A x : x \in Own(d, c, s, m) <=> x \in Nodes /\ d[v] <= d[x] /\ d[x] < d[w]
  <2>1. Upto(d, c, s, m) = d[w]
    BY <1>1, <1>3 DEF Upto, n
  <2> QED
    BY <1>3, <2>1 DEF Own
<1>7. \A x : x \in Own(d, c, s2, m) <=> x \in Nodes /\ d[v] <= d[x]
  <2>1. Upto(d, c, s2, m) = c /\ s2[m].node = v
    BY <1>1, <1>3 DEF Upto
  <2> QED
    BY <1>2, <2>1 DEF Own
<1>8. Own(d, c, s2, m) = Own(d, c, s, m) \cup Own(d, c, s, n)
  <2>1. \A x \in Nodes : d[v] <= d[x] <=> (d[v] <= d[x] /\ d[x] < d[w]) \/ d[x] >= d[w]
    BY <1>1, <1>2
  <2> QED
    BY <1>5, <1>6, <1>7, <2>1
<1>9. Kids(d, c, s2, m) = Kids(d, c, s, m) \cup Own(d, c, s, n)
  <2>1. v \notin Own(d, c, s, n)
    BY <1>1, <1>2, <1>5
  <2>2. s2[m].node = v
    BY <1>1, <1>3
  <2> QED
    BY <1>3, <1>8, <2>1, <2>2 DEF Kids
<1>10. Returned(s2, m) = Returned(s, m) + 1
  <2>1. Returned(s2, m) = s[m].children /\ Returned(s, m) = s[m].children - 1
    BY <1>1 DEF Returned, n
  <2> QED
    BY <1>2, <2>1
<1>11. \A x : x \in Kids(d, c, s, m) => x \in Nodes /\ d[x] < d[w]
  BY <1>6 DEF Kids
<1> QED
  BY <1>4, <1>5, <1>8, <1>9, <1>10, <1>11 DEF n, m, Inherits

\* v's low bounds also what w's low bounded.
LEMMA LeaveLows ==
    ASSUME NEW E, NEW d, NEW l, NEW p, NEW c, NEW s, NEW bs, NEW as,
           NEW l2, NEW s2, NEW bs2, NEW as2, NEW v, NEW w,
           Shape(E, d, l, p, c, s), Leaves(d, l, p, s, bs, as, l2, s2, bs2, as2, v, w),
           Lows(E, d, l, p, c, s)
    PROVE  Lows(E, d, l2, p, c, s2)
<1> DEFINE n == Len(s)
           m == Len(s) - 1
<1>0. LeaveFacts(E, d, l, p, s, l2, s2, v, w) /\ Inherits(d, c, s, s2, w)
  BY LeaveMeans, LeaveOwn, Zenon
<1>1. /\ Len(s2) = m /\ \A i \in 1 .. m : i \in 1 .. n /\ i < n /\ s2[i] = s[i]
      /\ n \in 1 .. n /\ m \in 1 .. m /\ m \in 1 .. n /\ 1 \in 1 .. m /\ m \in Nat
      /\ v \in Nodes /\ w \in Nodes /\ d[v] < d[w] /\ p[w] = v /\ w \in Nbr(E, v) /\ v # w
      /\ l2[v] <= l[v] /\ l2[v] <= l[w] /\ l2[v] \in {l[v], l[w]}
      /\ \A z \in Nodes : l2[z] \in Int /\ l2[z] <= l[z] /\ (z # v => l2[z] = l[z])
  BY <1>0 DEF LeaveFacts
<1>2. /\ \A z \in Nodes : d[z] \in Int /\ l[z] \in Int /\ l[z] <= d[z]
      /\ \A i \in 1 .. n : s[i].node \in Nodes
      /\ \A i \in 1 .. n : \A j \in 1 .. n : i < j => d[s[i].node] < d[s[j].node]
  BY CallsMean
<1>3. w = s[n].node /\ v = s[m].node /\ s[n].left = {}
  BY DEF Leaves
<1>4. Bounded(E, d, l, p, c, s) /\ Attained(E, d, l, p, s) /\ Parted(E, d, c, s)
  BY DEF Lows
<1>5. /\ \A i \in 1 .. m : i # m => /\ Own(d, c, s2, i) = Own(d, c, s, i)
                                    /\ Kids(d, c, s2, i) = Kids(d, c, s, i)
                                    /\ Returned(s2, i) = Returned(s, i)
      /\ Own(d, c, s2, m) = Own(d, c, s, m) \cup Own(d, c, s, n)
      /\ Kids(d, c, s2, m) = Kids(d, c, s, m) \cup Own(d, c, s, n)
      /\ \A x : x \in Own(d, c, s, n) <=> x \in Nodes /\ d[x] >= d[w]
      /\ Returned(s2, m) = Returned(s, m) + 1
  BY <1>0 DEF Inherits
<1> HIDE DEF m
<1>6. ASSUME NEW i \in 1 .. m, i # m PROVE s[i].node # v
  <2>1. i < m
    BY <1>1, <1>6
  <2>2. d[s[i].node] < d[v] /\ d[v] \in Int
    BY <1>1, <1>2, <1>3, <2>1
  <2> QED
    BY <2>2
<1>7. Bounded(E, d, l2, p, c, s2)
  <2> SUFFICES ASSUME NEW i \in 1 .. m, NEW x \in Own(d, c, s2, i), NEW y \in Nbr(E, x),
                      x = s[i].node => y \notin s[i].left /\ y # p[x]
               PROVE  l2[s[i].node] <= d[y]
    BY <1>1 DEF Bounded
  <2>0. y \in Nodes /\ d[y] \in Int /\ s[i].node \in Nodes /\ i \in 1 .. Len(s)
    BY <1>1, <1>2 DEF Nbr
  <2>1. CASE x \in Own(d, c, s, i)
    <3>1. l[s[i].node] <= d[y]
      BY <1>4, <2>0, <2>1 DEF Bounded
    <3> QED
      BY <1>1, <1>2, <2>0, <3>1
  <2>2. CASE i = m /\ x \in Own(d, c, s, n)
    <3>1. s[i].node = v
      BY <1>3, <2>2
    <3>2. CASE x = w /\ y = v
      BY <1>1, <1>2, <3>1, <3>2
    <3>3. CASE ~(x = w /\ y = v)
      <4>1. x = s[n].node => y \notin s[n].left /\ y # p[x]
        BY <1>1, <1>3, <3>3
      <4>2. l[w] <= d[y]
        BY <1>1, <1>3, <1>4, <2>2, <4>1 DEF Bounded
      <4> QED
        BY <1>1, <1>2, <2>0, <3>1, <4>2
    <3> QED
      BY <3>2, <3>3
  <2> QED
    BY <1>5, <2>1, <2>2
<1>8. Attained(E, d, l2, p, s2)
  <2> SUFFICES ASSUME NEW i \in 1 .. m
               PROVE  /\ d[s[1].node] <= l2[s[i].node]
                      /\ l2[s[i].node] = d[s[i].node] \/ Back(E, d, l2, p, s[i].node)
    BY <1>1 DEF Attained
  <2>0. i \in 1 .. Len(s) /\ Len(s) \in 1 .. Len(s) /\ s[i].node \in Nodes
    BY <1>1, <1>2
  <2>1. CASE l2[s[i].node] = l[s[i].node]
    BY <1>4, <2>0, <2>1 DEF Attained, Back
  <2>2. CASE l2[s[i].node] # l[s[i].node]
    <3>1. s[i].node = v /\ l2[v] = l[w]
      BY <1>1, <2>0, <2>2
    <3>2. d[s[1].node] <= l[w] /\ (l[w] = d[w] \/ Back(E, d, l, p, w))
      BY <1>3, <1>4, <2>0 DEF Attained
    <3>3. l[w] # d[w]
      BY <1>1, <1>2, <3>1
    <3>4. Back(E, d, l2, p, v)
      <4>1. PICK x \in Nodes : /\ d[x] >= d[w]
                               /\ \E y \in Nbr(E, x) : d[y] = l[w] /\ (x = w => y # p[x])
        BY <3>2, <3>3 DEF Back
      <4>2. x # v /\ d[x] >= d[v]
        BY <1>1, <1>2, <4>1
      <4> QED
        BY <3>1, <4>1, <4>2 DEF Back
    <3> QED
      BY <3>1, <3>2, <3>4
  <2> QED
    BY <2>1, <2>2
<1>9. Parted(E, d, c, s2)
  <2> SUFFICES ASSUME NEW i \in 1 .. m
               PROVE  /\ Returned(s2, i) \in Nat
                      /\ IF Returned(s2, i) = 0 THEN Kids(d, c, s2, i) = {}
                         ELSE Kids(d, c, s2, i) \cap Nbr(E, s[i].node) # {}
    BY <1>1 DEF Parted
  <2>0. i \in 1 .. Len(s)
    BY <1>1
  <2>1. CASE i # m
    BY <1>4, <1>5, <2>0, <2>1 DEF Parted
  <2>2. CASE i = m
    <3>1. Returned(s, m) \in Nat
      BY <1>4, <2>0, <2>2 DEF Parted
    <3>2. Returned(s2, m) \in Nat /\ Returned(s2, m) # 0
      BY <1>5, <3>1
    <3>3. w \in Own(d, c, s, n)
      BY <1>1, <1>2, <1>5
    <3>4. w \in Kids(d, c, s2, m) /\ w \in Nbr(E, s[m].node)
      BY <1>1, <1>3, <1>5, <3>3
    <3> QED
      BY <2>2, <3>2, <3>4
  <2> QED
    BY <2>1, <2>2
<1> QED
  BY <1>7, <1>8, <1>9 DEF Lows

\* No edge leads from what was discovered since w to between v and w, and none back past v
\* that low does not know of, but the one from w to v.
EdgesBack(E, d, l, v, w) ==
    \A x \in Nodes : \A y \in Nbr(E, x) : d[x] >= d[w] /\ d[y] < d[w] =>
        d[y] <= d[v] /\ (l[w] <= d[y] \/ (x = w /\ y = v))

\* This is what the lows of the calls mean for v and w.
LEMMA LeaveEdges ==
    ASSUME NEW E, NEW d, NEW l, NEW p, NEW c, NEW s, NEW bs, NEW as,
           NEW l2, NEW s2, NEW bs2, NEW as2, NEW v, NEW w,
           Shape(E, d, l, p, c, s), Leaves(d, l, p, s, bs, as, l2, s2, bs2, as2, v, w),
           Bounded(E, d, l, p, c, s)
    PROVE  EdgesBack(E, d, l, v, w)
<1> DEFINE n == Len(s)
           m == Len(s) - 1
<1>0. LeaveFacts(E, d, l, p, s, l2, s2, v, w) /\ Inherits(d, c, s, s2, w)
  BY LeaveMeans, LeaveOwn, Zenon
<1>1. /\ n \in 1 .. n /\ m \in 1 .. n /\ m \in Nat /\ \A i \in 1 .. n : i \in 1 .. m \/ i = n
      /\ v \in Nodes /\ w \in Nodes /\ d[v] < d[w] /\ p[w] = v
      /\ \A x : x \in Own(d, c, s, n) <=> x \in Nodes /\ d[x] >= d[w]
  BY <1>0 DEF LeaveFacts, Inherits
<1>2. /\ \A z \in Nodes : d[z] \in Int
      /\ \A i \in 1 .. n : \A j \in 1 .. n : i < j => d[s[i].node] < d[s[j].node]
  BY CallsMean
<1>3. w = s[n].node /\ v = s[m].node /\ s[n].left = {}
  BY DEF Leaves
<1> HIDE DEF m
<1> SUFFICES ASSUME NEW x \in Nodes, NEW y \in Nbr(E, x), d[x] >= d[w], d[y] < d[w]
             PROVE  d[y] <= d[v] /\ (l[w] <= d[y] \/ (x = w /\ y = v))
  BY DEF EdgesBack
<1>4. x \in Own(d, c, s, n) /\ y \in Nodes /\ x \in Nbr(E, y)
  BY <1>1, NbrBack
<1>5. l[w] <= d[y] \/ (x = w /\ y = v)
  <2> SUFFICES ASSUME ~(x = w /\ y = v) PROVE l[w] <= d[y]
    OBVIOUS
  <2>1. x = s[n].node => y \notin s[n].left /\ y # p[x]
    BY <1>1, <1>3
  <2> QED
    BY <1>1, <1>3, <1>4, <2>1 DEF Bounded
<1>6. d[y] <= d[v]
  <2>1. ~Closed(d, s, y)
    <3> SUFFICES ASSUME Closed(d, s, y) PROVE FALSE
      OBVIOUS
    <3>1. d[x] < d[w]
      BY <1>1, <1>3, <1>4 DEF Shape, Sealed
    <3> QED
      BY <1>1, <1>2, <3>1
  <2>2. d[y] # -1
    <3>1. x = s[n].node => y \notin s[n].left
      BY <1>3
    <3> QED
      BY <1>1, <1>4, <3>1, OwnSeen
  <2>3. PICK j \in 1 .. n : s[j].node = y
    BY <2>1, <2>2 DEF Closed
  <2>4. j # n
    BY <1>1, <1>2, <1>3, <1>4, <2>3
  <2>5. j = m \/ j < m
    BY <1>1, <2>4
  <2> QED
    BY <1>1, <1>2, <1>3, <1>4, <2>3, <2>5
<1> QED
  BY <1>5, <1>6

\* A bridge that is found is one.
LEMMA LeaveBridge ==
    ASSUME NEW E, NEW d, NEW l, NEW p, NEW c, NEW s, NEW bs, NEW as,
           NEW l2, NEW s2, NEW bs2, NEW as2, NEW v, NEW w,
           Shape(E, d, l, p, c, s), Leaves(d, l, p, s, bs, as, l2, s2, bs2, as2, v, w),
           Bounded(E, d, l, p, c, s), l[w] > d[v]
    PROVE  G!IsBridge(Nodes, E, {v, w})
<1>0. LeaveFacts(E, d, l, p, s, l2, s2, v, w) /\ EdgesBack(E, d, l, v, w)
  BY LeaveMeans, LeaveEdges, Zenon
<1>1. v \in Nodes /\ w \in Nodes /\ d[v] < d[w] /\ {w, v} \in E
  BY <1>0 DEF LeaveFacts, Nbr
<1>2. \A z \in Nodes : d[z] \in Int /\ l[z] \in Int
  BY CallsMean
<1> DEFINE S == {x \in Nodes : d[x] >= d[w]}
           L == E \ {{w, v}}
<1>3. Shut(Nodes, L, S)
  <2> SUFFICES ASSUME NEW x \in S, NEW y \in Nodes, {x, y} \in L, d[y] < d[w] PROVE FALSE
    BY <1>1, <1>2 DEF Shut
  <2>1. y \in Nbr(E, x) /\ ~(x = w /\ y = v)
    BY DEF Nbr
  <2>2. d[y] <= d[v] /\ l[w] <= d[y]
    BY <1>0, <2>1 DEF EdgesBack
  <2> QED
    BY <1>1, <1>2, <2>2
<1>4. w \in S /\ v \notin S
  BY <1>1, <1>2
<1>5. ~Joined(Nodes, L, w, v)
  <2> HIDE DEF S, L
  <2> QED
    BY <1>1, <1>3, <1>4, NodesAreFinite, JoinedStays
<1>6. {v, w} = {w, v}
  OBVIOUS
<1>7. G!IsBridge(Nodes, E, {w, v})
  BY <1>1, <1>5, NodesAreFinite, BridgeIs, Zenon
<1> QED
  BY <1>6, <1>7

\* An articulation point that is found is one.
LEMMA LeaveCut ==
    ASSUME NEW E, NEW d, NEW l, NEW p, NEW c, NEW s, NEW bs, NEW as,
           NEW l2, NEW s2, NEW bs2, NEW as2, NEW v, NEW w,
           Shape(E, d, l, p, c, s), Leaves(d, l, p, s, bs, as, l2, s2, bs2, as2, v, w),
           Lows(E, d, l, p, c, s),
           IF p[v] = None THEN s[Len(s) - 1].children > 1 ELSE l[w] >= d[v]
    PROVE  G!IsArticulation(Nodes, E, v)
<1> DEFINE m == Len(s) - 1
<1>0. /\ LeaveFacts(E, d, l, p, s, l2, s2, v, w) /\ EdgesBack(E, d, l, v, w)
      /\ Inherits(d, c, s, s2, w)
  BY LeaveMeans, LeaveEdges, LeaveOwn, Zenon DEF Lows
<1>1. /\ v \in Nodes /\ w \in Nodes /\ d[v] < d[w] /\ {v, w} \in E /\ v # w
      /\ m \in 1 .. Len(s) /\ m # Len(s) /\ Len(s) \in 1 .. Len(s)
      /\ \A x : x \in Kids(d, c, s, m) => x \in Nodes /\ d[x] < d[w]
  BY <1>0 DEF LeaveFacts, Nbr, Inherits
<1>2. \A z \in Nodes : d[z] \in Int /\ l[z] \in Int /\ p[z] \in Nodes \cup {None}
  BY CallsMean
<1>3. w = s[Len(s)].node /\ v = s[m].node
  BY DEF Leaves
<1> HIDE DEF m
<1>4. l[w] >= d[v] /\ \E u \in Nodes : u # v /\ {v, u} \in E /\ d[u] < d[w]
  <2>1. CASE p[v] = None
    <3>1. m = 1
      <4>1. s[m].node # None /\ \A i \in 1 .. Len(s) : s[i].node \in Nodes
        BY <1>1, <1>3, CallsMean, NodesAreFinite
      <4>2. p[v] = IF m = 1 THEN None ELSE s[m - 1].node
        BY <1>1, <1>3, CallsMean
      <4>3. m # 1 => m - 1 \in 1 .. Len(s)
        BY <1>1
      <4> QED
        BY <2>1, <4>1, <4>2, <4>3, NodesAreFinite
    <3>2. l[w] >= d[v]
      <4>1. d[s[1].node] <= l[s[Len(s)].node]
        BY <1>1 DEF Lows, Attained
      <4>2. s[1].node = v /\ s[Len(s)].node = w
        BY <1>3, <3>1
      <4> QED
        BY <1>1, <1>2, <4>1, <4>2
    <3>3. Returned(s, m) = s[m].children - 1 /\ s[m].children > 1 /\ s[m].children \in Nat
      BY <1>1, <2>1, CallsMean DEF Returned, m
    <3>4. Returned(s, m) # 0
      BY <3>3
    <3>5. PICK u : u \in Kids(d, c, s, m) /\ u \in Nbr(E, v)
      BY <1>1, <1>3, <3>4 DEF Lows, Parted
    <3>6. u # v
      BY <1>3, <3>5 DEF Kids
    <3> QED
      BY <1>1, <3>2, <3>5, <3>6, Zenon DEF Nbr
  <2>2. CASE p[v] # None
    <3>1. {v, p[v]} \in E /\ d[p[v]] < d[v]
      BY <1>1, <2>2, Zenon DEF Shape, Rooted
    <3>2. p[v] \in Nodes
      BY <1>1, <1>2, <2>2
    <3>3. d[p[v]] < d[w] /\ p[v] # v
      BY <1>1, <1>2, <3>1, <3>2
    <3> QED
      BY <2>2, <3>1, <3>2, <3>3, Zenon
  <2> QED
    BY <2>1, <2>2, Zenon
<1>5. PICK u \in Nodes : u # v /\ {v, u} \in E /\ d[u] < d[w]
  BY <1>4, Zenon
<1> DEFINE S == {x \in Nodes : d[x] >= d[w]}
           M == Nodes \ {v}
           L == G!Without(E, v)
<1>6. Shut(M, L, S)
  <2> SUFFICES ASSUME NEW x \in S, NEW y \in M, {x, y} \in L, ~(d[y] >= d[w]) PROVE FALSE
    BY DEF Shut
  <2>0. d[y] < d[w] /\ d[x] >= d[w]
    BY <1>1, <1>2
  <2>1. y \in Nbr(E, x) /\ y # v /\ y \in Nodes /\ x \in Nodes
    BY DEF Nbr, G!Without
  <2>2. d[y] <= d[v] /\ l[w] <= d[y]
    BY <1>0, <2>0, <2>1 DEF EdgesBack
  <2>3. d[y] = d[v] /\ d[v] # -1
    <3>1. d[v] # -1
      BY <1>0 DEF LeaveFacts
    <3>2. d[y] \in Int /\ l[w] \in Int /\ d[v] \in Int /\ l[w] >= d[v]
      BY <1>1, <1>2, <1>4, <2>1
    <3> QED
      BY <2>2, <3>1, <3>2
  <2>4. y = v
    BY <1>1, <2>1, <2>3, CallsMean
  <2> QED
    BY <2>1, <2>4
<1>7. w \in S /\ w \in M /\ u \notin S /\ u \in M
  BY <1>1, <1>2, <1>5
<1>8. ~Joined(M, L, w, u)
  <2> HIDE DEF S, L
  <2> QED
    BY <1>6, <1>7, NodesWithout, JoinedStays, Zenon
<1>9. \E x, y \in Nodes \ {v} : /\ {v, x} \in E /\ {v, y} \in E
                                /\ ~Joined(Nodes \ {v}, G!Without(E, v), x, y)
  BY <1>1, <1>5, <1>7, <1>8, Zenon
<1> QED
  BY <1>1, <1>9, NodesAreFinite, ArticulationIs, Zenon

\* Where no bridge is found there is none.
LEMMA LeaveJoined ==
    ASSUME NEW E, NEW d, NEW l, NEW p, NEW c, NEW s, NEW bs, NEW as,
           NEW l2, NEW s2, NEW bs2, NEW as2, NEW v, NEW w,
           Shape(E, d, l, p, c, s), Leaves(d, l, p, s, bs, as, l2, s2, bs2, as2, v, w),
           Ways(E, d, p, c, s), Lows(E, d, l, p, c, s), ~(l[w] > d[v])
    PROVE  Joined(Nodes, E \ {{w, v}}, w, v)
<1>0. LeaveFacts(E, d, l, p, s, l2, s2, v, w)
  BY LeaveMeans, Zenon
<1>1. /\ v \in Nodes /\ w \in Nodes /\ d[v] < d[w] /\ p[w] = v /\ d[s[1].node] <= d[v]
      /\ Len(s) \in 1 .. Len(s) /\ Len(s) # 0
  BY <1>0 DEF LeaveFacts
<1>2. \A z \in Nodes : d[z] \in Int /\ l[z] \in Int
  BY CallsMean
<1>3. w = s[Len(s)].node
  BY DEF Leaves
<1>4. d[s[1].node] <= l[w] /\ Back(E, d, l, p, w)
  <2>1. d[s[1].node] <= l[w] /\ (l[w] = d[w] \/ Back(E, d, l, p, w))
    BY <1>1, <1>3 DEF Lows, Attained
  <2> QED
    BY <1>1, <1>2, <2>1
<1>5. PICK x \in Nodes : /\ d[x] >= d[w]
                         /\ \E y \in Nbr(E, x) : d[y] = l[w] /\ (x = w => y # p[x])
  BY <1>4 DEF Back
<1>6. PICK y \in Nbr(E, x) : d[y] = l[w] /\ (x = w => y # p[x])
  BY <1>5
<1>7. y \in Nodes /\ {x, y} \in E
  BY DEF Nbr
<1> DEFINE L == E \ {{w, v}}
<1>8. Joined(Nodes, L, x, w)
  <2>1. Joined(Nodes, Tree(p, d, d[w], c), x, w)
    BY <1>1, <1>3, <1>5 DEF Ways, Hanging
  <2>2. \A e \in Tree(p, d, d[w], c) : e \in E /\ v \notin e
    BY <1>1, <1>3, TreeYounger DEF Ways
  <2>3. Tree(p, d, d[w], c) \subseteq L
    BY <2>2
  <2> HIDE DEF L
  <2> QED
    BY <2>1, <2>3, JoinedMore, NodesAreFinite
<1>9. Joined(Nodes, L, x, y)
  <2>1. {x, y} # {w, v}
    <3> SUFFICES ASSUME {x, y} = {w, v} PROVE FALSE
      OBVIOUS
    <3>1. x # v
      BY <1>1, <1>2, <1>5
    <3>2. x = w /\ y = v
      BY <3>1
    <3> QED
      BY <1>1, <1>6, <3>2
  <2>2. {x, y} \in L
    BY <1>7, <2>1
  <2> HIDE DEF L
  <2> QED
    BY <1>7, <2>2, JoinedEdge, NodesAreFinite
<1>10. ASSUME NEW t \in Nodes, d[s[1].node] <= d[t], d[t] < d[w]
       PROVE  Joined(Nodes, L, t, s[1].node)
  <2>0. 1 \in 1 .. Len(s) /\ s[1].node \in Nodes
    BY <1>1, CallsMean
  <2>1. Joined(Nodes, Tree(p, d, -1, d[t]), t, s[1].node)
    BY <1>1, <1>2, <1>10, <2>0 DEF Ways, Held
  <2>2. \A e \in Tree(p, d, -1, d[t]) : e \in E /\ w \notin e
    BY <1>1, <1>2, <1>10, TreeOlder
  <2>3. Tree(p, d, -1, d[t]) \subseteq L
    BY <2>2
  <2> HIDE DEF L
  <2> QED
    BY <2>1, <2>3, JoinedMore, NodesAreFinite
<1>11. Joined(Nodes, L, y, s[1].node) /\ Joined(Nodes, L, v, s[1].node)
  <2>1. d[s[1].node] <= d[y] /\ d[y] < d[w]
    BY <1>1, <1>2, <1>4, <1>6
  <2> QED
    BY <1>1, <1>7, <1>10, <2>1, Zenon
<1> HIDE DEF L
<1>12. Joined(Nodes, L, y, v)
  BY <1>1, <1>7, <1>11, JoinedBoth, NodesAreFinite
<1>13. Joined(Nodes, L, w, x)
  BY <1>8, JoinedBack, NodesAreFinite
<1>14. Joined(Nodes, L, w, y)
  BY <1>1, <1>9, <1>13, JoinedOn, NodesAreFinite
<1>15. Joined(Nodes, L, w, v)
  BY <1>1, <1>12, <1>14, JoinedOn, NodesAreFinite
<1> QED
  BY <1>15 DEF L

\* What hangs from v is joined without v, or v was found to be an articulation point.
LEMMA LeaveMarked ==
    ASSUME NEW E, NEW d, NEW l, NEW p, NEW c, NEW s, NEW bs, NEW as,
           NEW l2, NEW s2, NEW bs2, NEW as2, NEW v, NEW w,
           Shape(E, d, l, p, c, s), Leaves(d, l, p, s, bs, as, l2, s2, bs2, as2, v, w),
           Ways(E, d, p, c, s), Lows(E, d, l, p, c, s), Marked(E, d, p, c, s, as)
    PROVE  Marked(E, d, p, c, s2, as2)
<1> DEFINE n == Len(s)
           m == Len(s) - 1
<1>0. LeaveFacts(E, d, l, p, s, l2, s2, v, w) /\ Inherits(d, c, s, s2, w)
  BY LeaveMeans, LeaveOwn, Zenon
<1>1. /\ v \in Nodes /\ w \in Nodes /\ d[v] < d[w] /\ p[w] = v /\ d[s[1].node] <= d[v]
      /\ n \in 1 .. n /\ n # 0 /\ m \in 1 .. n /\ m \in 1 .. m /\ m # n /\ v # w
      /\ Len(s2) = m /\ \A i \in 1 .. m : i \in 1 .. n /\ s2[i] = s[i]
  BY <1>0 DEF LeaveFacts
<1>2. /\ \A i \in 1 .. m : i # m => Kids(d, c, s2, i) = Kids(d, c, s, i)
      /\ Kids(d, c, s2, m) = Kids(d, c, s, m) \cup Own(d, c, s, n)
      /\ \A x : x \in Own(d, c, s, n) <=> x \in Nodes /\ d[x] >= d[w]
      /\ \A x : x \in Kids(d, c, s, m) => x \in Nodes
  BY <1>0 DEF Inherits
<1>3. \A z \in Nodes : d[z] \in Int /\ l[z] \in Int /\ p[z] \in Nodes \cup {None}
  BY CallsMean
<1>4. w = s[n].node /\ v = s[m].node
      /\ as2 = as \cup (IF IF p[v] = None THEN s[m].children > 1 ELSE l[w] >= d[v]
                        THEN {v} ELSE {})
  BY DEF Leaves
<1>5. \A x \in Own(d, c, s, n) : Avoiding(E, v, x, w) /\ x \in Nodes \ {v}
  <2> SUFFICES ASSUME NEW x \in Own(d, c, s, n)
               PROVE  Avoiding(E, v, x, w) /\ x \in Nodes \ {v}
    OBVIOUS
  <2>1. x \in Nodes /\ d[x] >= d[w] /\ x # v
    BY <1>1, <1>2, <1>3
  <2>2. n \in 1 .. Len(s) /\ d[v] < d[s[n].node] /\ d[x] >= d[s[n].node] /\ w = s[n].node
    BY <1>1, <1>4, <2>1
  <2> HIDE DEF n
  <2>3. Avoiding(E, v, x, s[n].node)
    BY <1>1, <2>1, <2>2, YoungerAvoid, Zenon DEF Ways
  <2> QED
    BY <2>1, <2>2, <2>3
<1> DEFINE D == Kids(d, c, s2, m) \cup ({p[v]} \ {None})
<1>6. \A x \in D : x \in Nodes \ {v}
  <2>1. v \notin Kids(d, c, s, m)
    BY <1>4 DEF Kids
  <2>2. p[v] # None => p[v] \in Nodes /\ p[v] # v
    <3> SUFFICES ASSUME p[v] # None PROVE p[v] \in Nodes /\ p[v] # v
      OBVIOUS
    <3>1. p[v] \in Nodes /\ d[p[v]] < d[v]
      BY <1>1, <1>3, Zenon DEF Shape, Rooted
    <3> QED
      BY <1>1, <1>3, <3>1
  <2> QED
    BY <1>2, <1>5, <2>1, <2>2
<1> HIDE DEF m, n
<1>7. ASSUME v \notin as2 PROVE \E u \in Nodes \ {v} : \A x \in D : Avoiding(E, v, x, u)
  <2>0. v \notin as
    BY <1>4, <1>7, Zenon
  <2>1. CASE p[v] = None
    <3>1. ~(s[m].children > 1)
      BY <1>4, <1>7, <2>1, Zenon
    <3>2. Returned(s, m) = s[m].children - 1 /\ Returned(s, m) \in Nat
      BY <1>1 DEF Returned, Lows, Parted, n
    <3>3. Returned(s, m) = 0
      <4>1. s[m].children \in Nat
        BY <1>1, CallsMean DEF n
      <4> QED
        BY <3>1, <3>2, <4>1
    <3>4. Kids(d, c, s, m) = {}
      BY <1>1, <3>3 DEF Lows, Parted, n
    <3> QED
      BY <1>1, <1>2, <1>5, <2>1, <3>4
  <2>2. CASE p[v] # None
    <3>1. l[w] < d[v]
      <4>1. ~(l[w] >= d[v])
        BY <1>4, <1>7, <2>2, Zenon
      <4> QED
        BY <1>1, <1>3, <4>1
    <3>2. d[s[1].node] <= l[w] /\ Back(E, d, l, p, w)
      <4>1. d[s[1].node] <= l[w] /\ (l[w] = d[w] \/ Back(E, d, l, p, w))
        BY <1>1, <1>4 DEF Lows, Attained, n
      <4> QED
        BY <1>1, <1>3, <3>1, <4>1
    <3>3. PICK x \in Nodes : d[x] >= d[w] /\ \E y \in Nbr(E, x) : d[y] = l[w]
      BY <3>2 DEF Back
    <3>4. PICK y \in Nbr(E, x) : d[y] = l[w]
      BY <3>3
    <3>5. y \in Nodes \ {v} /\ x \in Nodes \ {v} /\ {x, y} \in G!Without(E, v)
      <4>1. y \in Nodes /\ {x, y} \in E
        BY DEF Nbr
      <4>2. y # v /\ x # v
        BY <1>1, <1>3, <3>1, <3>3, <3>4, <4>1
      <4> QED
        BY <4>1, <4>2 DEF G!Without
    <3>6. Avoiding(E, v, w, x)
      <4>1. Avoiding(E, v, x, w)
        BY <1>2, <1>5, <3>3
      <4> QED
        BY <3>5, <4>1, JoinedBack, NodesWithout DEF Avoiding
    <3>7. Avoiding(E, v, x, y)
      BY <3>5, JoinedEdge, NodesWithout, Zenon DEF Avoiding
    <3>8. p[v] \in Nodes /\ d[p[v]] < d[v] /\ d[s[1].node] <= d[p[v]]
      <4>1. p[v] \in Nodes /\ d[p[v]] < d[v]
        BY <1>1, <1>3, <2>2, Zenon DEF Shape, Rooted
      <4>2. p[v] = IF m = 1 THEN None ELSE s[m - 1].node
        BY <1>1, <1>4, CallsMean DEF n
      <4>3. m # 1 /\ m - 1 \in 1 .. Len(s) /\ 1 \in 1 .. Len(s) /\ (m - 1 = 1 \/ 1 < m - 1)
        BY <1>1, <2>2, <4>2 DEF n
      <4>4. d[s[1].node] <= d[p[v]]
        <5> DEFINE k == m - 1
        <5>1. k \in 1 .. Len(s) /\ 1 \in 1 .. Len(s) /\ (k = 1 \/ 1 < k) /\ p[v] = s[k].node
          BY <4>2, <4>3
        <5> HIDE DEF k
        <5>2. k = 1 \/ d[s[1].node] < d[s[k].node]
          BY <5>1, CallsMean
        <5>3. d[s[1].node] \in Int /\ d[s[k].node] \in Int
          BY <5>1, CallsMean
        <5> QED
          BY <5>1, <5>2, <5>3
      <4> QED
        BY <4>1, <4>4
    <3>9. Avoiding(E, v, y, p[v])
      <4>1. d[s[1].node] <= d[y] /\ d[y] < d[v] /\ y \in Nodes
        BY <3>1, <3>2, <3>4, <3>5
      <4>2. Held(d, p, s) /\ Len(s) # 0
        BY <1>1 DEF Ways, n
      <4> QED
        BY <1>1, <3>8, <4>1, <4>2, OlderAvoid
    <3>10. Avoiding(E, v, w, p[v])
      <4>1. w \in Nodes \ {v}
        BY <1>1
      <4>2. Avoiding(E, v, w, y)
        BY <3>6, <3>7, <4>1, JoinedOn, NodesWithout, Zenon DEF Avoiding
      <4> QED
        BY <3>9, <4>1, <4>2, JoinedOn, NodesWithout, Zenon DEF Avoiding
    <3>11. \A t \in Own(d, c, s, n) : Avoiding(E, v, t, p[v])
      BY <1>5, <3>10, JoinedOn, NodesWithout, Zenon DEF Avoiding
    <3>12. \A t \in Kids(d, c, s, m) \cup ({p[v]} \ {None}) : Avoiding(E, v, t, p[v])
      BY <1>1, <1>4, <2>0, <2>2, Zenon DEF Marked, n
    <3>13. \A t \in D : Avoiding(E, v, t, p[v])
      BY <1>2, <3>11, <3>12
    <3>14. p[v] \in Nodes \ {v}
      BY <1>6, <2>2
    <3> QED
      BY <3>13, <3>14
  <2> QED
    BY <2>1, <2>2
<1> SUFFICES ASSUME NEW i \in 1 .. m, s[i].node \notin as2,
                    NEW x \in Kids(d, c, s2, i) \cup ({p[s[i].node]} \ {None}),
                    NEW y \in Kids(d, c, s2, i) \cup ({p[s[i].node]} \ {None})
             PROVE  Avoiding(E, s[i].node, x, y)
  <2>1. \A i \in 1 .. m : s2[i].node = s[i].node
    BY <1>1
  <2> QED
    BY <1>1, <2>1, Zenon DEF Marked
<1>8. CASE i # m
  BY <1>1, <1>2, <1>4, <1>8, Zenon DEF Marked, n
<1>9. CASE i = m
  <2>1. x \in D /\ y \in D /\ v \notin as2 /\ s[i].node = v
    BY <1>4, <1>9, Zenon
  <2>2. PICK u \in Nodes \ {v} : \A t \in D : Avoiding(E, v, t, u)
    BY <1>7, <2>1
  <2>3. x \in Nodes \ {v} /\ y \in Nodes \ {v} /\ Avoiding(E, v, x, u) /\ Avoiding(E, v, y, u)
    BY <1>6, <2>1, <2>2
  <2>4. Avoiding(E, v, x, y)
    BY <2>3, JoinedBoth, NodesWithout DEF Avoiding
  <2> QED
    BY <2>1, <2>4
<1> QED
  BY <1>8, <1>9

\* What is found when w returns is right, and it is all there is of w.
LEMMA LeaveResults ==
    ASSUME NEW E, NEW d, NEW l, NEW p, NEW c, NEW s, NEW bs, NEW as,
           NEW l2, NEW s2, NEW bs2, NEW as2, NEW v, NEW w,
           Shape(E, d, l, p, c, s), Leaves(d, l, p, s, bs, as, l2, s2, bs2, as2, v, w),
           Ways(E, d, p, c, s), Lows(E, d, l, p, c, s), Results(E, d, p, c, s, bs, as)
    PROVE  Results(E, d, p, c, s2, bs2, as2)
<1>0. LeaveFacts(E, d, l, p, s, l2, s2, v, w) /\ OverAre(d, s, s2, w)
  BY LeaveMeans, LeaveClosed, Zenon
<1>1. p[w] = v /\ v \in Nodes /\ w \in Nodes /\ Len(s) # 0
  BY <1>0 DEF LeaveFacts
<1>2. /\ w = s[Len(s)].node /\ s[Len(s)].left = {}
      /\ bs2 = bs \cup (IF l[w] > d[v] THEN {{v, w}} ELSE {})
      /\ as2 = as \cup (IF IF p[v] = None THEN s[Len(s) - 1].children > 1 ELSE l[w] >= d[v]
                        THEN {v} ELSE {})
  BY DEF Leaves
<1>3. /\ Marked(E, d, p, c, s, as) /\ FinishedB(E, d, p, s, bs) /\ FinishedA(E, d, s, as)
      /\ Found(E, bs, as)
  BY DEF Results
<1>4. Marked(E, d, p, c, s2, as2)
  BY <1>3, LeaveMarked, Zenon
<1>5. Found(E, bs2, as2)
  <2>1. l[w] > d[v] => G!IsBridge(Nodes, E, {v, w})
    BY LeaveBridge, Zenon DEF Lows
  <2>2. (IF p[v] = None THEN s[Len(s) - 1].children > 1 ELSE l[w] >= d[v])
          => G!IsArticulation(Nodes, E, v)
    BY LeaveCut, Zenon
  <2> QED
    BY <1>2, <1>3, <2>1, <2>2, Zenon DEF Found
<1>6. FinishedB(E, d, p, s2, bs2)
  <2> SUFFICES ASSUME NEW y \in Nodes, Closed(d, s2, y), p[y] # None, {y, p[y]} \notin bs2
               PROVE  Joined(Nodes, E \ {{y, p[y]}}, y, p[y])
    BY Zenon DEF FinishedB
  <2>1. CASE Closed(d, s, y)
    BY <1>2, <1>3, <2>1, Zenon DEF FinishedB
  <2>2. CASE y = w
    <3>1. {v, w} = {w, v}
      OBVIOUS
    <3>2. ~(l[w] > d[v])
      BY <1>1, <1>2, <2>2, <3>1
    <3>3. Joined(Nodes, E \ {{w, v}}, w, v)
      BY <3>2, LeaveJoined, Zenon
    <3> QED
      BY <1>1, <2>2, <3>3, Zenon
  <2> QED
    BY <1>0, <2>1, <2>2 DEF OverAre
<1>7. FinishedA(E, d, s2, as2)
  <2> SUFFICES ASSUME NEW y \in Nodes, Closed(d, s2, y), y \notin as2,
                      NEW x \in Nbr(E, y), NEW z \in Nbr(E, y)
               PROVE  Avoiding(E, y, x, z)
    BY DEF FinishedA
  <2>1. CASE Closed(d, s, y)
    BY <1>2, <1>3, <2>1, Zenon DEF FinishedA
  <2>2. CASE y = w
    <3>1. s[Len(s)].node \notin as /\ y = s[Len(s)].node
      BY <1>2, <2>2, Zenon
    <3> QED
      BY <1>1, <1>2, <1>3, <3>1, TopFinished, Zenon
  <2> QED
    BY <1>0, <2>1, <2>2 DEF OverAre
<1> QED
  BY <1>4, <1>5, <1>6, <1>7 DEF Results

-----------------------------------------------------------------------------
(* The states of the search.                                                *)

\* The first ones of a sequence, and what is put behind them.
LEMMA PoppedIs ==
    ASSUME NEW R, NEW s \in Seq(R), Len(s) # 0
    PROVE  /\ SubSeq(s, 1, Len(s) - 1) \in Seq(R) /\ Len(SubSeq(s, 1, Len(s) - 1)) = Len(s) - 1
           /\ \A i \in 1 .. Len(s) - 1 : SubSeq(s, 1, Len(s) - 1)[i] = s[i]
<1>1. Len(s) \in Nat /\ Len(s) - 1 \in Nat
  OBVIOUS
<1> DEFINE m == Len(s) - 1
           t == SubSeq(s, 1, m)
<1>2. m \in Nat /\ 1 .. m \subseteq DOMAIN s /\ m <= Len(s)
  BY <1>1
<1> HIDE DEF m
<1>3. Len(t) = m
  BY <1>2
<1>4. \A i \in 1 .. m : t[i] = s[i]
  <2> SUFFICES ASSUME NEW i \in 1 .. m PROVE t[i] = s[i]
    BY Zenon
  <2>1. 1 + i - 1 = i /\ 1 <= i /\ i <= m - 1 + 1
    BY <1>2
  <2> QED
    BY <1>2, <2>1
<1>5. t \in Seq(R)
  BY <1>2
<1> QED
  BY <1>3, <1>4, <1>5 DEF m

\* What is put on a sequence is its last one.
LEMMA AppendedIs ==
    ASSUME NEW R, NEW s \in Seq(R), NEW x \in R
    PROVE  /\ Append(s, x) \in Seq(R) /\ Len(Append(s, x)) = Len(s) + 1
           /\ Append(s, x)[Len(s) + 1] = x /\ \A i \in 1 .. Len(s) : Append(s, x)[i] = s[i]
  OBVIOUS

CallRecords == [node : Nodes, left : SUBSET Nodes, children : Nat]

\* The least of some nodes is one of them.
LEMMA LeastIn == ASSUME NEW S \in SUBSET Nodes, S # {} PROVE G!Least(S) \in S
<1>1. S \in SUBSET Nat
  BY NodesAreFinite
<1>2. PICK x \in S : \A y \in S : ~(y < x)
  BY <1>1, LeastNumber
<1>3. \A y \in S : x <= y
  BY <1>1, <1>2
<1> QED
  BY <1>3 DEF G!Least

\* The edges of the model join two nodes, and its neighbours are these.
LEMMA GraphIs == Graph(G!Edges) /\ \A v : G!Adjacent(v) = Nbr(G!Edges, v)
<1>1. ASSUME NEW x \in Nodes, NEW y \in Nodes, {x, y} \in G!Edges PROVE x # y
  <2>1. PICK k \in links : k[1] # k[2] /\ {x, y} = {k[1], k[2]}
    BY <1>1 DEF G!Edges
  <2> QED
    BY <2>1
<1> QED
  BY <1>1 DEF Graph, Nbr, G!Adjacent

\* The graph does not change.
LEMMA EdgesStay == ASSUME links' = links PROVE G!Edges' = G!Edges
  BY DEF G!Edges

\* The search begins with nothing discovered.
LEMMA GraphBegins == ASSUME G!Init PROVE GraphInv
<1>1. /\ discovery = [v \in Nodes |-> -1] /\ low = discovery /\ parents = [v \in Nodes |-> None]
      /\ counter = 0 /\ stack = << >> /\ bridges = {} /\ articulations = {}
  BY DEF G!Init
<1>2. \A v \in Nodes : discovery[v] = -1 /\ parents[v] = None
  BY <1>1
<1>3. Len(stack) = 0 /\ stack \in Seq([node : Nodes, left : SUBSET Nodes, children : Nat])
  BY <1>1
<1>4. \A i \in 1 .. Len(stack) : FALSE
  BY <1>3
<1>5. counter = Cardinality(Nodes \ G!Undiscovered)
  <2>1. Nodes \ G!Undiscovered = {}
    BY <1>2 DEF G!Undiscovered
  <2> QED
    BY <1>1, <2>1, FS_EmptySet
<1>6. Numbered(discovery, low, parents, counter, stack)
  BY <1>1, <1>3 DEF Numbered
<1>7. Shape(G!Edges, discovery, low, parents, counter, stack)
  <2>1. Rooted(G!Edges, discovery, parents) /\ Sealed(G!Edges, discovery, stack)
    BY <1>2 DEF Rooted, Sealed, Closed
  <2>2. Stacked(G!Edges, discovery, parents, stack)
    BY <1>4 DEF Stacked
  <2> QED
    BY <1>6, <2>1, <2>2, GraphIs DEF Shape
<1>8. Ways(G!Edges, discovery, parents, counter, stack)
  BY <1>2, <1>3, <1>4 DEF Ways, Hanging, Held, Trees
<1>9. Lows(G!Edges, discovery, low, parents, counter, stack)
  BY <1>4 DEF Lows, Bounded, Attained, Parted
<1>10. Results(G!Edges, discovery, parents, counter, stack, bridges, articulations)
  <2>1. Marked(G!Edges, discovery, parents, counter, stack, articulations)
    BY <1>4 DEF Marked
  <2>2. FinishedB(G!Edges, discovery, parents, stack, bridges)
    BY <1>2 DEF FinishedB
  <2>3. FinishedA(G!Edges, discovery, stack, articulations)
    BY <1>2 DEF FinishedA, Closed
  <2>4. Found(G!Edges, bridges, articulations)
    BY <1>1 DEF Found
  <2> QED
    BY <2>1, <2>2, <2>3, <2>4 DEF Results
<1> QED
  BY <1>5, <1>7, <1>8, <1>9, <1>10 DEF GraphInv

\* One more node is discovered.
LEMMA DiscoverCounts ==
    ASSUME NEW w \in G!Undiscovered, counter \in Nat,
           counter = Cardinality(Nodes \ G!Undiscovered),
           discovery \in [Nodes -> Int], discovery' = [discovery EXCEPT ![w] = counter],
           counter' = counter + 1
    PROVE  counter' = Cardinality(Nodes \ G!Undiscovered')
<1>1. w \in Nodes /\ w \notin Nodes \ G!Undiscovered /\ IsFiniteSet(Nodes \ G!Undiscovered)
  BY NodesAreFinite, FS_Subset DEF G!Undiscovered
<1>2. Nodes \ G!Undiscovered' = (Nodes \ G!Undiscovered) \cup {w}
  BY <1>1 DEF G!Undiscovered
<1> DEFINE S == Nodes \ G!Undiscovered
<1> HIDE DEF S
<1>3. Cardinality(S \cup {w}) = Cardinality(S) + 1
  BY <1>1, FS_AddElement, Zenon DEF S
<1> QED
  BY <1>2, <1>3 DEF S

\* Start visits a root ...
LEMMA StartEnters ==
    ASSUME GraphInv, G!Start
    PROVE  /\ Enters(G!Edges, discovery, low, parents, counter, stack,
                     discovery', low', parents', counter', stack', G!Least(G!Undiscovered))
           /\ counter' = Cardinality(Nodes \ G!Undiscovered')
           /\ links' = links /\ bridges' = bridges /\ articulations' = articulations
<1> DEFINE w == G!Least(G!Undiscovered)
<1>1. /\ discovery \in [Nodes -> Int] /\ counter \in Nat /\ parents \in [Nodes -> Nodes \cup {None}]
      /\ counter = Cardinality(Nodes \ G!Undiscovered)
      /\ Rooted(G!Edges, discovery, parents)
      /\ \A v \in Nodes : discovery[v] \in Int /\ -1 <= discovery[v]
  BY DEF GraphInv, Shape, Numbered
<1>2. w \in G!Undiscovered
  <2>1. G!Undiscovered \in SUBSET Nodes /\ G!Undiscovered # {}
    BY DEF G!Undiscovered, G!Start
  <2> QED
    BY <2>1, LeastIn
<1>3. /\ stack = << >> /\ discovery' = [discovery EXCEPT ![w] = counter]
      /\ counter' = counter + 1 /\ low' = [low EXCEPT ![w] = counter]
      /\ stack' = << G!Call(w) >>
      /\ links' = links /\ parents' = parents /\ bridges' = bridges
      /\ articulations' = articulations
  BY DEF G!Start, G!Discover
<1> HIDE DEF w
<1>4. counter' = Cardinality(Nodes \ G!Undiscovered')
  BY <1>1, <1>2, <1>3, DiscoverCounts, Zenon
<1>5. w \in Nodes /\ discovery[w] = -1
  BY <1>2 DEF G!Undiscovered
<1>6. parents[w] = None
  <2> SUFFICES ASSUME parents[w] # None PROVE FALSE
    OBVIOUS
  <2>1. parents[w] \in Nodes /\ discovery[parents[w]] # -1 /\ discovery[parents[w]] < -1
    BY <1>1, <1>5, Zenon DEF Rooted
  <2> QED
    BY <1>1, <2>1
<1>7. parents' = [parents EXCEPT ![w] = None]
  BY <1>1, <1>3, <1>5, <1>6
<1>8. G!Call(w) = [node |-> w, left |-> Nbr(G!Edges, w), children |-> 0]
  BY GraphIs DEF G!Call
<1>9. stack' \in Seq(CallRecords) /\ Len(stack') = 1 /\ stack'[1] = G!Call(w)
  <2>1. G!Call(w) \in CallRecords
    BY <1>5, <1>8 DEF CallRecords, Nbr
  <2> QED
    BY <1>3, <2>1
<1>10. Len(stack) = 0
  BY <1>3
<1>11. Enters(G!Edges, discovery, low, parents, counter, stack,
              discovery', low', parents', counter', stack', w)
  <2>1. stack' \in Seq([node : Nodes, left : SUBSET Nodes, children : Nat])
    BY <1>9 DEF CallRecords
  <2> DEFINE R == [node : Nodes, left : SUBSET Nodes, children : Nat]
             n == Len(stack)
  <2> HIDE DEF R
  <2>2. n = 0 /\ n + 1 = 1 /\ \A i \in 1 .. n : FALSE
    BY <1>10
  <2>3. stack'[1].node = w /\ stack'[1].left = Nbr(G!Edges, w) /\ stack'[1].children = 0
    BY <1>8, <1>9
  <2>4. stack' \in Seq(R) /\ Len(stack') = n + 1
    BY <1>9, <2>1, <2>2 DEF R
  <2> HIDE DEF n
  <2>5. /\ stack'[n + 1].node = w /\ stack'[n + 1].left = Nbr(G!Edges, w)
        /\ stack'[n + 1].children = 0
    BY <2>2, <2>3
  <2>6. parents' = [parents EXCEPT ![w] = IF n = 0 THEN None ELSE stack[n].node]
    BY <1>7, <2>2
  <2>7. /\ n # 0 => w \in stack[n].left
        /\ \A i \in 1 .. n :
              /\ stack'[i].node = stack[i].node
              /\ stack'[i].left = IF i = n THEN stack[i].left \ {w} ELSE stack[i].left
              /\ stack'[i].children = IF i = n THEN stack[i].children + 1
                                      ELSE stack[i].children
    BY <2>2
  <2> QED
    BY <1>3, <1>5, <2>4, <2>5, <2>6, <2>7, Zenon DEF Enters, n, R
<1> QED
  BY <1>3, <1>4, <1>11 DEF w

\* The call at the top, and what is below it.
LEMMA TopIs ==
    ASSUME GraphInv, stack # << >>
    PROVE  /\ Len(stack) \in Nat /\ Len(stack) # 0 /\ stack \in Seq(CallRecords)
           /\ G!Top = stack[Len(stack)] /\ G!Top \in CallRecords
           /\ G!Top.left \subseteq Nbr(G!Edges, G!Top.node)
           /\ G!Rest \in Seq(CallRecords) /\ Len(G!Rest) = Len(stack) - 1
           /\ \A i \in 1 .. Len(stack) - 1 : G!Rest[i] = stack[i]
<1>1. stack \in Seq(CallRecords)
  BY DEF GraphInv, Shape, Numbered, CallRecords
<1> HIDE DEF CallRecords
<1>2. Len(stack) \in Nat /\ Len(stack) # 0
  BY <1>1
<1>3. G!Top = stack[Len(stack)] /\ G!Rest = SubSeq(stack, 1, Len(stack) - 1)
  BY DEF G!Top, G!Rest
<1>4. G!Top \in CallRecords
  BY <1>1, <1>2, <1>3
<1>5. G!Top.left \subseteq Nbr(G!Edges, G!Top.node)
  <2>1. Len(stack) \in 1 .. Len(stack)
    BY <1>2
  <2> QED
    BY <1>3, <2>1 DEF GraphInv, Shape, Stacked
<1> QED
  BY <1>1, <1>2, <1>3, <1>4, <1>5, PoppedIs

\* The call at the top of what is put back on the rest.
LEMMA ReplacedIs ==
    ASSUME GraphInv, stack # << >>, NEW call \in CallRecords
    PROVE  /\ Append(G!Rest, call) \in Seq(CallRecords)
           /\ Len(Append(G!Rest, call)) = Len(stack)
           /\ Append(G!Rest, call)[Len(stack)] = call
           /\ \A i \in 1 .. Len(stack) - 1 : Append(G!Rest, call)[i] = stack[i]
<1> HIDE DEF CallRecords
<1>1. /\ Len(stack) \in Nat /\ G!Rest \in Seq(CallRecords) /\ Len(G!Rest) = Len(stack) - 1
      /\ \A i \in 1 .. Len(stack) - 1 : G!Rest[i] = stack[i]
  BY TopIs
<1> DEFINE r == G!Rest
           n == Len(stack)
<1> HIDE DEF r, n
<1>2. /\ Append(r, call) \in Seq(CallRecords) /\ Len(Append(r, call)) = Len(r) + 1
      /\ Append(r, call)[Len(r) + 1] = call
      /\ \A i \in 1 .. Len(r) : Append(r, call)[i] = r[i]
  BY <1>1, AppendedIs DEF r
<1>3. n \in Nat /\ Len(r) = n - 1 /\ Len(r) + 1 = n /\ \A i \in 1 .. n - 1 : r[i] = stack[i]
  BY <1>1 DEF r, n
<1>4. \A i \in 1 .. n - 1 : Append(r, call)[i] = stack[i]
  BY <1>2, <1>3
<1> QED
  BY <1>2, <1>3, <1>4 DEF r, n

\* ... Descend visits a neighbour of the top ...
LEMMA DescendEnters ==
    ASSUME GraphInv, G!Descend
    PROVE  /\ Enters(G!Edges, discovery, low, parents, counter, stack,
                     discovery', low', parents', counter', stack', G!Least(G!Top.left))
           /\ counter' = Cardinality(Nodes \ G!Undiscovered')
           /\ links' = links /\ bridges' = bridges /\ articulations' = articulations
<1> DEFINE w == G!Least(G!Top.left)
           call == [G!Looked(G!Top, w) EXCEPT !.children = @ + 1]
           t == Append(G!Rest, call)
           n == Len(stack)
<1>1. /\ stack # << >> /\ G!Top.left # {} /\ discovery[w] = -1
      /\ discovery' = [discovery EXCEPT ![w] = counter] /\ counter' = counter + 1
      /\ low' = [low EXCEPT ![w] = counter]
      /\ parents' = [parents EXCEPT ![w] = G!Top.node]
      /\ stack' = Append(t, G!Call(w))
      /\ links' = links /\ bridges' = bridges /\ articulations' = articulations
  BY DEF G!Descend, G!Discover
<1> HIDE DEF w
<1>2. /\ n \in Nat /\ n # 0 /\ G!Top = stack[n] /\ G!Top \in CallRecords
  BY <1>1, TopIs
<1>3. w \in G!Top.left /\ w \in Nodes
  <2>1. G!Top.left \in SUBSET Nodes
    BY <1>2 DEF CallRecords
  <2> QED
    BY <1>1, <2>1, LeastIn DEF w
<1>4. counter' = Cardinality(Nodes \ G!Undiscovered')
  <2>1. /\ w \in G!Undiscovered /\ counter \in Nat /\ discovery \in [Nodes -> Int]
        /\ counter = Cardinality(Nodes \ G!Undiscovered)
    BY <1>1, <1>3 DEF G!Undiscovered, GraphInv, Shape, Numbered
  <2> QED
    BY <1>1, <2>1, DiscoverCounts, Zenon
<1>5. /\ call \in CallRecords /\ call.node = stack[n].node
      /\ call.left = stack[n].left \ {w} /\ call.children = stack[n].children + 1
  <2> DEFINE x == G!Looked(G!Top, w)
  <2>1. /\ x \in CallRecords /\ x.node = stack[n].node
        /\ x.left = stack[n].left \ {w} /\ x.children = stack[n].children
    BY <1>2 DEF CallRecords, G!Looked
  <2> HIDE DEF x
  <2>2. call = [x EXCEPT !.children = x.children + 1]
    BY DEF x
  <2> HIDE DEF call
  <2> QED
    BY <2>1, <2>2 DEF CallRecords
<1>6. /\ G!Call(w) \in CallRecords /\ G!Call(w).node = w /\ G!Call(w).left = Nbr(G!Edges, w)
      /\ G!Call(w).children = 0
  <2>1. G!Call(w) = [node |-> w, left |-> Nbr(G!Edges, w), children |-> 0]
    BY GraphIs DEF G!Call
  <2>2. Nbr(G!Edges, w) \in SUBSET Nodes
    BY DEF Nbr
  <2> QED
    BY <1>3, <2>1, <2>2 DEF CallRecords
<1> HIDE DEF call
<1>7. /\ t \in Seq(CallRecords) /\ Len(t) = n /\ t[n] = call
      /\ \A i \in 1 .. n - 1 : t[i] = stack[i]
  BY <1>1, <1>5, ReplacedIs
<1> DEFINE u == G!Call(w)
<1> HIDE DEF t, n, u
<1>8. /\ stack' \in Seq(CallRecords) /\ Len(stack') = n + 1 /\ stack'[n + 1] = u
      /\ \A i \in 1 .. n : stack'[i] = t[i]
  <2>1. u \in CallRecords /\ stack' = Append(t, u)
    BY <1>1, <1>6 DEF u
  <2>2. /\ Append(t, u) \in Seq(CallRecords) /\ Len(Append(t, u)) = Len(t) + 1
        /\ Append(t, u)[Len(t) + 1] = u /\ \A i \in 1 .. Len(t) : Append(t, u)[i] = t[i]
    BY <1>7, <2>1, AppendedIs
  <2> QED
    BY <1>7, <2>1, <2>2
<1>9. ASSUME NEW i \in 1 .. n
      PROVE  /\ stack'[i].node = stack[i].node
             /\ stack'[i].left = IF i = n THEN stack[i].left \ {w} ELSE stack[i].left
             /\ stack'[i].children = IF i = n THEN stack[i].children + 1 ELSE stack[i].children
  <2>1. CASE i = n
    BY <1>5, <1>7, <1>8, <2>1
  <2>2. CASE i # n
    <3>1. i \in 1 .. n - 1
      BY <1>2, <2>2
    <3>2. stack'[i] = stack[i]
      BY <1>7, <1>8, <3>1
    <3> QED
      BY <2>2, <3>2
  <2> QED
    BY <2>1, <2>2
<1>10. /\ stack'[n + 1].node = w /\ stack'[n + 1].left = Nbr(G!Edges, w)
       /\ stack'[n + 1].children = 0
  BY <1>6, <1>8 DEF u
<1>11. /\ stack' \in Seq([node : Nodes, left : SUBSET Nodes, children : Nat])
       /\ parents' = [parents EXCEPT ![w] = IF n = 0 THEN None ELSE stack[n].node]
       /\ w \in stack[n].left
  BY <1>1, <1>2, <1>3, <1>8 DEF CallRecords
<1>12. Enters(G!Edges, discovery, low, parents, counter, stack,
              discovery', low', parents', counter', stack', w)
  BY <1>1, <1>3, <1>8, <1>9, <1>10, <1>11, Zenon DEF Enters, n
<1> QED
  BY <1>1, <1>4, <1>12 DEF w

\* ... LookBack looks at one that was discovered ...
LEMMA LookLooks ==
    ASSUME GraphInv, G!LookBack
    PROVE  /\ Looks(G!Edges, discovery, low, parents, stack, low', stack', G!Least(G!Top.left))
           /\ UNCHANGED << links, discovery, parents, counter, bridges, articulations >>
<1> DEFINE w == G!Least(G!Top.left)
           call == G!Looked(G!Top, w)
           n == Len(stack)
<1>1. /\ stack # << >> /\ G!Top.left # {} /\ discovery[w] # -1
      /\ low' = IF w = parents[G!Top.node] THEN low
                ELSE [low EXCEPT ![G!Top.node] = G!Smaller(low[G!Top.node], discovery[w])]
      /\ stack' = Append(G!Rest, call)
      /\ UNCHANGED << links, discovery, parents, counter, bridges, articulations >>
  BY DEF G!LookBack
<1> HIDE DEF w
<1>2. /\ n \in Nat /\ n # 0 /\ G!Top = stack[n] /\ G!Top \in CallRecords
  BY <1>1, TopIs
<1>3. w \in stack[n].left
  <2>1. G!Top.left \in SUBSET Nodes
    BY <1>2 DEF CallRecords
  <2> QED
    BY <1>1, <1>2, <2>1, LeastIn DEF w
<1>4. /\ call \in CallRecords /\ call.node = stack[n].node
      /\ call.left = stack[n].left \ {w} /\ call.children = stack[n].children
  BY <1>2 DEF CallRecords, G!Looked
<1> HIDE DEF call
<1>5. /\ stack' \in Seq(CallRecords) /\ Len(stack') = n /\ stack'[n] = call
      /\ \A i \in 1 .. n - 1 : stack'[i] = stack[i]
  BY <1>1, <1>4, ReplacedIs
<1> HIDE DEF n
<1>6. ASSUME NEW i \in 1 .. n
      PROVE  /\ stack'[i].node = stack[i].node /\ stack'[i].children = stack[i].children
             /\ stack'[i].left = IF i = n THEN stack[i].left \ {w} ELSE stack[i].left
  <2>1. CASE i = n
    BY <1>4, <1>5, <2>1
  <2>2. CASE i # n
    <3>1. i \in 1 .. n - 1
      BY <1>2, <2>2
    <3> QED
      BY <1>5, <2>2, <3>1
  <2> QED
    BY <2>1, <2>2
<1>7. stack' \in Seq([node : Nodes, left : SUBSET Nodes, children : Nat])
  BY <1>5 DEF CallRecords
<1>8. low' = IF w = parents[stack[n].node] THEN low
             ELSE [low EXCEPT ![stack[n].node] = G!Smaller(low[stack[n].node], discovery[w])]
  BY <1>1, <1>2
<1>9. Looks(G!Edges, discovery, low, parents, stack, low', stack', w)
  BY <1>1, <1>2, <1>3, <1>5, <1>6, <1>7, <1>8, Zenon DEF Looks, n
<1> QED
  BY <1>1, <1>9 DEF w

\* ... and Return leaves a root, or a call for its caller.
LEMMA ReturnLeaves ==
    ASSUME GraphInv, G!Return
    PROVE  /\ UNCHANGED << links, discovery, parents, counter >>
           /\ \/ /\ Len(stack) = 1 /\ stack[1].left = {} /\ stack' = << >>
                 /\ UNCHANGED << low, bridges, articulations >>
              \/ \E v, w : Leaves(discovery, low, parents, stack, bridges, articulations,
                                  low', stack', bridges', articulations', v, w)
<1>1. /\ stack # << >> /\ G!Top.left = {} /\ stack' = G!Rest
      /\ UNCHANGED << links, discovery, parents, counter >>
  BY DEF G!Return
<1>2. /\ Len(stack) \in Nat /\ Len(stack) # 0 /\ G!Top = stack[Len(stack)]
      /\ G!Rest \in Seq(CallRecords) /\ Len(G!Rest) = Len(stack) - 1
      /\ \A i \in 1 .. Len(stack) - 1 : G!Rest[i] = stack[i]
  BY <1>1, TopIs
<1>3. CASE Len(stack) = 1
  <2>1. UNCHANGED << low, bridges, articulations >>
    BY <1>3 DEF G!Return
  <2>2. stack[1].left = {}
    BY <1>1, <1>2, <1>3
  <2>3. stack' = << >>
    <3> HIDE DEF CallRecords
    <3>1. G!Rest \in Seq(CallRecords) /\ Len(G!Rest) = 0
      BY <1>2, <1>3
    <3> QED
      BY <1>1, <3>1
  <2> QED
    BY <1>1, <1>3, <2>1, <2>2, <2>3
<1>4. CASE Len(stack) # 1
  <2> DEFINE n == Len(stack)
             m == Len(stack) - 1
             v == stack[m].node
             w == stack[n].node
  <2>1. n \in Nat /\ n > 1 /\ m \in 1 .. m /\ Len(G!Rest) = m /\ G!Rest[Len(G!Rest)] = stack[m]
    BY <1>2, <1>4
  <2>2. /\ low' = [low EXCEPT ![v] = G!Smaller(low[v], low[w])]
        /\ bridges' = bridges \cup (IF low[w] > discovery[v] THEN {{v, w}} ELSE {})
        /\ articulations' = articulations \cup
              (IF G!Cuts(v, w, stack[m].children) THEN {v} ELSE {})
    BY <1>2, <1>4, <2>1 DEF G!Return
  <2>3. stack' \in Seq([node : Nodes, left : SUBSET Nodes, children : Nat])
    BY <1>1, <1>2 DEF CallRecords
  <2>4. stack[n].left = {} /\ Len(stack') = m /\ \A i \in 1 .. m : stack'[i] = stack[i]
    BY <1>1, <1>2
  <2>5. articulations' = articulations \cup
              (IF IF parents[v] = None THEN stack[m].children > 1 ELSE low[w] >= discovery[v]
               THEN {v} ELSE {})
    BY <2>2 DEF G!Cuts
  <2>6. Leaves(discovery, low, parents, stack, bridges, articulations,
               low', stack', bridges', articulations', v, w)
    BY <2>1, <2>2, <2>3, <2>4, <2>5, Zenon DEF Leaves
  <2> QED
    BY <1>1, <2>6
<1> QED
  BY <1>3, <1>4

\* Every step of the search keeps the invariant.
LEMMA GraphStep == GraphInv /\ (G!Next \/ UNCHANGED graphVars) => GraphInv'
<1> SUFFICES ASSUME GraphInv, G!Next \/ UNCHANGED graphVars PROVE GraphInv'
  OBVIOUS
<1> DEFINE E == G!Edges
<1>1. /\ Shape(E, discovery, low, parents, counter, stack)
      /\ Ways(E, discovery, parents, counter, stack)
      /\ Lows(E, discovery, low, parents, counter, stack)
      /\ Results(E, discovery, parents, counter, stack, bridges, articulations)
  BY DEF GraphInv
<1>2. ASSUME discovery' = discovery, counter' = counter
      PROVE  counter' = Cardinality(Nodes \ G!Undiscovered')
  BY <1>2 DEF GraphInv, G!Undiscovered
<1>3. links' = links => E' = E
  BY EdgesStay
<1> HIDE DEF E
<1>4. ASSUME NEW w, links' = links, bridges' = bridges, articulations' = articulations,
             counter' = Cardinality(Nodes \ G!Undiscovered'),
             Enters(E, discovery, low, parents, counter, stack,
                    discovery', low', parents', counter', stack', w)
      PROVE  GraphInv'
  <2>1. /\ Shape(E, discovery', low', parents', counter', stack')
        /\ Ways(E, discovery', parents', counter', stack')
        /\ Lows(E, discovery', low', parents', counter', stack')
        /\ Results(E, discovery', parents', counter', stack', bridges, articulations)
    BY <1>1, <1>4, EnterKeeps
  <2>2. E' = E
    BY <1>3, <1>4
  <2> QED
    BY <1>4, <2>1, <2>2 DEF GraphInv, E
<1>5. CASE G!Start
  BY <1>4, <1>5, StartEnters DEF E
<1>6. CASE G!Descend
  BY <1>4, <1>6, DescendEnters DEF E
<1>7. CASE G!LookBack
  <2> DEFINE w == G!Least(G!Top.left)
  <2>1. /\ Looks(E, discovery, low, parents, stack, low', stack', w)
        /\ UNCHANGED << links, discovery, parents, counter, bridges, articulations >>
    BY <1>7, LookLooks DEF E
  <2> HIDE DEF w
  <2>2. Shape(E, discovery, low', parents, counter, stack')
    BY <1>1, <2>1, LookShape
  <2>3. /\ Ways(E, discovery, parents, counter, stack')
        /\ Results(E, discovery, parents, counter, stack', bridges, articulations)
    BY <1>1, <2>1, LookWays
  <2>4. Lows(E, discovery, low', parents, counter, stack')
    BY <1>1, <2>1, LookLows
  <2>5. E' = E /\ counter' = Cardinality(Nodes \ G!Undiscovered')
    BY <1>2, <1>3, <2>1
  <2> QED
    BY <2>1, <2>2, <2>3, <2>4, <2>5 DEF GraphInv, E
<1>8. CASE G!Return
  <2>1. UNCHANGED << links, discovery, parents, counter >>
    BY <1>8, ReturnLeaves
  <2>2. E' = E /\ counter' = Cardinality(Nodes \ G!Undiscovered')
    BY <1>2, <1>3, <2>1
  <2>3. CASE /\ Len(stack) = 1 /\ stack[1].left = {} /\ stack' = << >>
             /\ UNCHANGED << low, bridges, articulations >>
    <3>1. /\ Shape(E, discovery, low, parents, counter, stack')
          /\ Ways(E, discovery, parents, counter, stack')
          /\ Lows(E, discovery, low, parents, counter, stack')
          /\ Results(E, discovery, parents, counter, stack', bridges, articulations)
      BY <1>1, <2>3, RootKeeps
    <3> QED
      BY <2>1, <2>2, <2>3, <3>1 DEF GraphInv, E
  <2>4. ASSUME NEW v, NEW w,
               Leaves(discovery, low, parents, stack, bridges, articulations,
                      low', stack', bridges', articulations', v, w)
        PROVE  GraphInv'
    <3>1. Shape(E, discovery, low', parents, counter, stack')
      BY <1>1, <2>4, LeaveShape
    <3>2. Ways(E, discovery, parents, counter, stack')
      BY <1>1, <2>4, LeaveWays
    <3>3. Lows(E, discovery, low', parents, counter, stack')
      BY <1>1, <2>4, LeaveLows
    <3>4. Results(E, discovery, parents, counter, stack', bridges', articulations')
      BY <1>1, <2>4, LeaveResults
    <3> QED
      BY <2>1, <2>2, <3>1, <3>2, <3>3, <3>4 DEF GraphInv, E
  <2> QED
    BY <1>8, <2>3, <2>4, ReturnLeaves
<1>9. CASE UNCHANGED graphVars
  <2>1. /\ links' = links /\ discovery' = discovery /\ low' = low /\ parents' = parents
        /\ counter' = counter /\ stack' = stack /\ bridges' = bridges
        /\ articulations' = articulations
    BY <1>9 DEF graphVars
  <2> QED
    BY <1>1, <1>2, <1>3, <2>1 DEF GraphInv, E
<1> QED
  BY <1>5, <1>6, <1>7, <1>8, <1>9 DEF G!Next

\* When nothing is left to visit, all calls are over.
LEMMA AllClosed ==
    ASSUME GraphInv, stack = << >>, G!Undiscovered = {}, NEW v \in Nodes
    PROVE  Closed(discovery, stack, v) /\ discovery[v] # -1
<1>1. discovery[v] # -1
  BY DEF G!Undiscovered
<1>2. Len(stack) = 0
  OBVIOUS
<1> QED
  BY <1>1, <1>2 DEF Closed

\* The bridges are all found then: the ends of an edge outside the tree are joined by the tree.
LEMMA AllBridges ==
    ASSUME GraphInv, stack = << >>, G!Undiscovered = {},
           NEW e \in G!Edges, G!IsBridge(Nodes, G!Edges, e)
    PROVE  e \in bridges
<1> DEFINE E == G!Edges
<1>1. PICK a \in Nodes, b \in Nodes : e = {a, b}
  <2>1. PICK k \in links : {k[1], k[2]} \subseteq Nodes /\ e = {k[1], k[2]}
    BY DEF G!Edges
  <2> QED
    BY <2>1
<1>2. ~Joined(Nodes, E \ {e}, a, b)
  BY <1>1, BridgeIs, NodesAreFinite, Zenon
<1>3. /\ Rooted(E, discovery, parents) /\ FinishedB(E, discovery, parents, stack, bridges)
      /\ Trees(E, discovery, parents, counter)
  BY DEF GraphInv, Shape, Ways, Results
<1>4. parents \in [Nodes -> Nodes \cup {None}]
  BY DEF GraphInv, Shape, Numbered
<1>5. CASE \E z \in Nodes : parents[z] # None /\ e = {z, parents[z]}
  <2>1. PICK z \in Nodes : parents[z] # None /\ e = {z, parents[z]}
    BY <1>5
  <2>2. parents[z] \in Nodes
    BY <1>4, <2>1
  <2>3. Closed(discovery, stack, z)
    BY AllClosed
  <2>4. ~Joined(Nodes, E \ {e}, z, parents[z])
    BY <2>1, <2>2, BridgeIs, NodesAreFinite, Zenon
  <2> QED
    BY <1>3, <2>1, <2>3, <2>4, Zenon DEF FinishedB
<1>6. CASE ~\E z \in Nodes : parents[z] # None /\ e = {z, parents[z]}
  <2> DEFINE T == Tree(parents, discovery, -1, counter)
  <2>1. b \in Nbr(E, a)
    BY <1>1 DEF Nbr
  <2>2. discovery[a] # -1 /\ discovery[b] # -1
    BY <1>1, AllClosed
  <2>3. Joined(Nodes, T, a, b)
    BY <1>3, <2>1, <2>2 DEF Trees
  <2>4. T \subseteq E \ {e}
    BY <1>3, <1>6 DEF Tree, Rooted
  <2> HIDE DEF T, E
  <2>5. Joined(Nodes, E \ {e}, a, b)
    BY <1>1, <2>3, <2>4, NodesAreFinite, JoinedMore
  <2> QED
    BY <1>2, <2>5
<1> QED
  BY <1>5, <1>6

\* So are the articulation points: the neighbours of every other node are joined without it.
LEMMA AllArticulations ==
    ASSUME GraphInv, stack = << >>, G!Undiscovered = {},
           NEW v \in Nodes, G!IsArticulation(Nodes, G!Edges, v)
    PROVE  v \in articulations
<1> SUFFICES ASSUME v \notin articulations PROVE FALSE
  OBVIOUS
<1> DEFINE E == G!Edges
<1>1. PICK x, y \in Nodes \ {v} :
         /\ {v, x} \in E /\ {v, y} \in E
         /\ ~Joined(Nodes \ {v}, G!Without(E, v), x, y)
  BY ArticulationIs, NodesAreFinite, Zenon
<1>2. x \in Nbr(E, v) /\ y \in Nbr(E, v) /\ ~Avoiding(E, v, x, y)
  BY <1>1 DEF Nbr, Avoiding
<1>3. FinishedA(E, discovery, stack, articulations)
  BY DEF GraphInv, Results
<1> QED
  BY <1>2, <1>3, AllClosed DEF FinishedA

\* The invariant is enough.
LEMMA GraphDecided == GraphInv => G!TypeOK /\ G!PathsFound
<1> SUFFICES ASSUME GraphInv PROVE G!TypeOK /\ G!PathsFound
  OBVIOUS
<1>1. /\ Numbered(discovery, low, parents, counter, stack)
      /\ Stacked(G!Edges, discovery, parents, stack)
      /\ Found(G!Edges, bridges, articulations)
  BY DEF GraphInv, Shape, Results
<1>2. G!TypeOK
  <2>1. \A v \in Nodes : low[v] <= discovery[v] /\ discovery[v] < counter
    BY <1>1 DEF Numbered
  <2>2. counter = G!Cardinality(Nodes \ G!Undiscovered)
    BY SameGraphCount DEF GraphInv
  <2>3. \A k \in 1 .. Len(stack) : stack[k].left \subseteq G!Adjacent(stack[k].node)
    BY <1>1, GraphIs DEF Stacked
  <2> QED
    BY <2>1, <2>2, <2>3, Zenon DEF G!TypeOK
<1>3. G!PathsFound
  BY <1>1, AllBridges, AllArticulations DEF G!PathsFound, Found
<1> QED
  BY <1>2, <1>3

\* The search of analyze_undirected_graph reports only bridges and articulation points, and
\* when it is over it has reported all, for every mesh.
THEOREM PathsAreFound == Spec => []PathsFound
<1>1. Init => GraphInv
  BY GraphBegins DEF Init
<1>2. GraphInv /\ [Next]_vars => GraphInv'
  BY GraphStep DEF Next, vars
<1>3. GraphInv => PathsFound
  BY GraphDecided DEF PathsFound
<1> QED
  BY <1>1, <1>2, <1>3, PTL DEF Spec
===============================================================================
