---- MODULE IvfSearchProofs ----
(***************************************************************************)
(* Why a repaired search is exact, for every index, query, engine, number  *)
(* of neighbours, block size and setting; and why what it searches is what *)
(* the builder was given, for every number of pairs, block size, header,   *)
(* and every references, clusters and centroids.                           *)
(***************************************************************************)
EXTENDS IvfSearch, IndexFile, NatLemmas, FiniteSetTheorems, SequenceTheorems

USE SearchAssumption

\* The AVX2 list is kept in order.
Sorted == engine = "avx2" => \A i, j \in Slots : i <= j => top[i].dist <= top[j].dist

\* What a list must be before a reference is offered to it.
ListOK ==
    /\ index \in Indexes /\ query \in Queries /\ engine \in Engines
    /\ top \in [Slots -> [dist : Nat, label : {0, 1}, ref : Refs(index) \cup {Nowhere}]]
    /\ Sorted /\ SlotsHonest

---------------------------------------------------------------------------
(* The list of the nearest.                                                *)

\* Both ways of naming the worst slot name a slot with the largest distance.
WorstFacts ==
    /\ WorstSlot \in Slots /\ Worst \in Nat
    /\ \A j \in Slots : top[j].dist <= Worst

LEMMA WorstIsLargest == ListOK => WorstFacts
<1> SUFFICES ASSUME ListOK PROVE WorstFacts
  OBVIOUS
<1> USE DEF WorstFacts
<1>1. \A j \in Slots : top[j].dist \in Nat
  BY DEF ListOK
<1>2. CASE engine = "avx2"
  <2>1. WorstSlot = Top /\ Top \in Slots
    BY <1>2 DEF WorstSlot, Slots
  <2>2. \A j \in Slots : j <= Top
    BY DEF Slots
  <2> QED BY <1>1, <1>2, <2>1, <2>2 DEF ListOK, Sorted, Worst
<1>3. CASE engine # "avx2"
  <2> DEFINE Max == {i \in Slots : \A j \in Slots : top[j].dist <= top[i].dist}
  <2>1. Max # {}
    <3> DEFINE Q == {n \in Nat : n + 1 \in Slots =>
                        \E i \in Slots : i <= n + 1 /\ \A m \in Slots :
                            m <= n + 1 => top[m].dist <= top[i].dist}
    <3>1. 0 \in Q
      BY <1>1 DEF Slots
    <3>2. ASSUME NEW n \in Nat, n \in Q PROVE n + 1 \in Q
      <4>1. SUFFICES ASSUME (n + 1) + 1 \in Slots
                     PROVE  \E i \in Slots : i <= (n + 1) + 1 /\ \A m \in Slots :
                          m <= (n + 1) + 1 => top[m].dist <= top[i].dist
        OBVIOUS
      <4>2. n + 1 \in Slots
        BY <4>1 DEF Slots
      <4>3. PICK i \in Slots : i <= n + 1 /\ \A m \in Slots :
                          m <= n + 1 => top[m].dist <= top[i].dist
        BY <3>2, <4>2
      <4>4. \A m \in Slots : m <= (n + 1) + 1 => m <= n + 1 \/ m = (n + 1) + 1
        BY DEF Slots
      <4>5. CASE top[(n + 1) + 1].dist <= top[i].dist
        BY <4>3, <4>4, <4>5 DEF Slots
      <4>6. CASE ~ (top[(n + 1) + 1].dist <= top[i].dist)
        <5>1. \A m \in Slots : m <= (n + 1) + 1 => top[m].dist <= top[(n + 1) + 1].dist
          BY <1>1, <4>1, <4>3, <4>4, <4>6
        <5>2. (n + 1) + 1 <= (n + 1) + 1
          BY <3>2
        <5> QED BY <4>1, <5>1, <5>2
      <4> QED BY <4>5, <4>6
    <3> HIDE DEF Q
    <3>3. Nat \subseteq Q
      BY <3>1, <3>2, SetInduction
    <3>4. Top - 1 \in Q /\ (Top - 1) + 1 = Top /\ Top \in Slots /\ \A m \in Slots : m <= Top
      BY <3>3 DEF Slots
    <3>5. \E i \in Slots : \A m \in Slots : top[m].dist <= top[i].dist
      BY <3>4 DEF Q
    <3> QED BY <3>5
  <2>2. Max \in SUBSET Nat
    BY DEF Slots
  <2>3. PICK w \in Max : \A i \in Max : w <= i
    BY <2>1, <2>2, SmallestNat
  <2>4. \A j \in 1..(w - 1) : top[j].dist < top[w].dist
    <3> SUFFICES ASSUME NEW j \in 1..(w - 1) PROVE top[j].dist < top[w].dist
      OBVIOUS
    <3>1. j \in Slots /\ w \in Slots /\ j < w
      BY <2>3 DEF Slots
    <3>2. j \notin Max
      BY <2>3, <3>1 DEF Slots
    <3>3. PICK k \in Slots : ~ (top[k].dist <= top[j].dist)
      BY <3>1, <3>2
    <3>4. top[k].dist <= top[w].dist
      BY <2>3
    <3> QED BY <1>1, <3>1, <3>3, <3>4
  <2>5. w \in Slots /\ \A j \in Slots : top[j].dist <= top[w].dist
    BY <2>3
  <2> HIDE DEF Max
  <2>6. /\ WorstSlot \in Slots
        /\ \A j \in Slots : top[j].dist <= top[WorstSlot].dist
    BY <1>3, <2>4, <2>5 DEF WorstSlot
  <2> QED BY <1>1, <2>6 DEF Worst
<1> QED BY <1>2, <1>3

LEMMA WorstIsLargestNext == ListOK' => WorstFacts'
    BY WorstIsLargest, PTL

\* The walk of update_top5 stops at one place.
LEMMA InsertAtIsSlot ==
    ASSUME ListOK, engine = "avx2", NEW d \in Nat, d < Worst
    PROVE  /\ InsertAt(d) \in Slots
           /\ \A j \in InsertAt(d)..(Top - 1) : d < top[j].dist
           /\ InsertAt(d) > 1 => top[InsertAt(d) - 1].dist <= d
<1> DEFINE S == {i \in Slots : \A j \in i..(Top - 1) : d < top[j].dist}
<1>1. \A j \in Slots : top[j].dist \in Nat
  BY DEF ListOK
<1>2. Top \in S
  BY DEF Slots
<1>3. S \in SUBSET Nat
  BY DEF Slots
<1>4. PICK i \in S : \A j \in S : i <= j
  BY <1>2, <1>3, SmallestNat
<1>5. ASSUME i > 1 PROVE top[i - 1].dist <= d
  <2>1. i - 1 \in Slots /\ ~ (i <= i - 1)
    BY <1>4, <1>5 DEF Slots
  <2>2. i - 1 \notin S
    BY <1>4, <2>1
  <2>3. PICK j \in (i - 1)..(Top - 1) : ~ (d < top[j].dist)
    BY <2>1, <2>2
  <2>4. j = i - 1
    BY <1>4, <2>1, <2>3 DEF Slots
  <2> QED BY <1>1, <2>1, <2>3, <2>4
<1>6. i \in Slots /\ \A j \in i..(Top - 1) : d < top[j].dist
  BY <1>4
<1> QED BY <1>5, <1>6 DEF InsertAt

\* What an offer does to the list, whichever engine keeps it: it stays
\* ordered and honest, its worst does not grow, and everything that was in it
\* or is offered is in it afterwards or no nearer than the new worst.
LEMMA OfferedProperties ==
    ASSUME ListOK, NEW p \in Refs(index), p \notin Held,
           top' = Offered(Candidate(p)), UNCHANGED <<index, query, engine>>
    PROVE  /\ ListOK' /\ Worst' <= Worst /\ Worst' \in Nat
           /\ Held' \subseteq Held \cup {p}
           /\ \A r \in Held \cup {p} : r \in Held' \/ DistOf(r)' >= Worst'
<1> DEFINE e == Candidate(p)
<1>0. /\ p # Nowhere /\ \A r \in Refs(index) : r # Nowhere
      /\ DistOf(p) \in Nat /\ DistOf(p) < U32Max
  BY IndexAssumption, BoundsAssumption DEF ListOK, DistOf
<1>1. /\ e = [dist |-> DistOf(p), label |-> Label(RefAt(index, p)), ref |-> p]
      /\ e.dist \in Nat /\ e.ref = p
      /\ e \in [dist : Nat, label : {0, 1}, ref : Refs(index) \cup {Nowhere}]
  BY <1>0, BoundsAssumption DEF Candidate, DistOf, ListOK
<1>2. /\ WorstSlot \in Slots /\ Worst \in Nat
      /\ \A j \in Slots : top[j].dist <= Worst
  BY WorstIsLargest DEF WorstFacts
<1>3. /\ \A j \in Slots : top[j] \in [dist : Nat, label : {0, 1}, ref : Refs(index) \cup {Nowhere}]
      /\ \A j \in Slots : top[j].dist \in Nat
  BY DEF ListOK
<1>4. \A j \in Slots : top[j].ref # p
  BY <1>0 DEF Held
<1>5. \A r : DistOf(r)' = DistOf(r)
  BY DEF DistOf
<1>6. \A r \in Held : \E j \in Slots : top[j].ref = r /\ top[j].dist = DistOf(r)
  BY DEF Held, ListOK, SlotsHonest, Candidate, DistOf, Empty
<1>7. ASSUME \A j \in Slots : top'[j] = e \/ \E i \in Slots : top'[j] = top[i]
      PROVE  /\ \A j \in Slots : \/ top'[j] = Empty
                                 \/ top'[j].ref \in Refs(index) /\ top'[j] = Candidate(top'[j].ref)
             /\ Held' \subseteq Held \cup {p}
  <2>1. \A j \in Slots : \/ top'[j] = Empty
                         \/ top'[j].ref \in Refs(index) /\ top'[j] = Candidate(top'[j].ref)
    BY <1>1, <1>7 DEF ListOK, SlotsHonest
  <2>2. \A j \in Slots : top'[j].ref = p \/ \E i \in Slots : top'[j].ref = top[i].ref
    BY <1>1, <1>7
  <2> QED BY <2>1, <2>2 DEF Held
<1> HIDE DEF e
<1> DEFINE Honest == \A j \in Slots : \/ top'[j] = Empty
                                      \/ top'[j].ref \in Refs(index) /\ top'[j] = Candidate(top'[j].ref)
<1> DEFINE Distinct == \A i, j \in Slots : top'[i].ref = top'[j].ref => i = j \/ top'[i].ref = Nowhere
<1>8. Honest /\ Distinct => SlotsHonest'
  BY DEF SlotsHonest, Empty, NoneYet, Candidate
<1> HIDE DEF Honest, Distinct
<1>9. CASE DistOf(p) >= Worst
  <2>1. top' = top
    BY <1>1, <1>9 DEF Offered, e
  <2>2. /\ WorstSlot' = WorstSlot /\ Worst' = Worst /\ Held' = Held
    BY <2>1 DEF WorstSlot, Worst, Held
  <2>3. ListOK'
    BY <2>1 DEF ListOK, Sorted, SlotsHonest, Empty, NoneYet, Candidate
  <2> QED BY <1>2, <1>5, <1>9, <2>2, <2>3
<1>10. CASE DistOf(p) < Worst /\ engine # "avx2"
  <2> DEFINE w == WorstSlot
  <2>1. top' = [top EXCEPT ![w] = e]
    BY <1>0, <1>1, <1>2, <1>10 DEF Offered, e
  <2> HIDE DEF w
  <2>2. w \in Slots /\ top[w].dist = Worst
    BY <1>2 DEF w, Worst
  <2>3. /\ top' \in [Slots -> [dist : Nat, label : {0, 1}, ref : Refs(index) \cup {Nowhere}]]
        /\ top'[w] = e /\ \A j \in Slots \ {w} : top'[j] = top[j]
    BY <1>1, <2>1, <2>2 DEF ListOK
  <2>4. Honest /\ Held' \subseteq Held \cup {p}
    BY <1>7, <2>3 DEF Honest
  <2>5. Distinct
    <3> SUFFICES ASSUME NEW i \in Slots, NEW j \in Slots, top'[i].ref = top'[j].ref,
                        top'[i].ref # Nowhere
                 PROVE  i = j
      BY DEF Distinct
    <3>1. CASE i = w \/ j = w
      BY <1>1, <1>4, <2>3, <3>1
    <3>2. CASE i # w /\ j # w
      BY <2>3, <3>2 DEF ListOK, SlotsHonest
    <3> QED BY <3>1, <3>2
  <2>6. ListOK'
    <3>1. SlotsHonest'
      BY <1>8, <2>4, <2>5
    <3>2. Sorted'
      BY <1>10 DEF Sorted
    <3> QED BY <2>3, <3>1, <3>2 DEF ListOK
  <2>7. WorstSlot' \in Slots /\ Worst' \in Nat
    BY <2>6, WorstIsLargestNext DEF WorstFacts
  <2>8. \A j \in Slots : top'[j].dist <= Worst
    BY <1>1, <1>2, <1>10, <2>3
  <2>9. Worst' <= Worst
    BY <2>7, <2>8 DEF Worst
  <2>10. p \in Held'
    BY <1>0, <1>1, <2>2, <2>3 DEF Held
  <2>11. ASSUME NEW r \in Held PROVE r \in Held' \/ DistOf(r)' >= Worst'
    <3>1. PICK j \in Slots : top[j].ref = r /\ top[j].dist = DistOf(r)
      BY <1>6
    <3>2. CASE j = w
      BY <1>2, <1>5, <2>2, <2>7, <2>9, <3>1, <3>2
    <3>3. CASE j # w
      BY <2>3, <3>1, <3>3 DEF Held
    <3> QED BY <3>2, <3>3
  <2> QED BY <2>4, <2>6, <2>7, <2>9, <2>10, <2>11
<1>11. CASE DistOf(p) < Worst /\ engine = "avx2"
  <2> DEFINE k == InsertAt(e.dist)
  <2>1. e.dist = DistOf(p)
    BY <1>1
  <2>2. /\ k \in Slots
        /\ \A j \in k..(Top - 1) : e.dist < top[j].dist
        /\ k > 1 => top[k - 1].dist <= e.dist
    BY <1>0, <1>11, <2>1, InsertAtIsSlot
  <2>3. top' = [j \in Slots |-> IF j < k THEN top[j] ELSE IF j = k THEN e ELSE top[j - 1]]
    BY <1>0, <1>1, <1>2, <1>11 DEF Offered, Inserted, e
  <2> HIDE DEF k
  <2>4. /\ \A j \in Slots : j < k => top'[j] = top[j]
        /\ top'[k] = e
        /\ \A j \in Slots : j > k => j - 1 \in Slots /\ top'[j] = top[j - 1]
    BY <2>2, <2>3 DEF Slots
  <2>5. top' \in [Slots -> [dist : Nat, label : {0, 1}, ref : Refs(index) \cup {Nowhere}]]
    BY <1>1, <1>3, <2>2, <2>3 DEF Slots
  <2>6. \A j \in Slots : top'[j] = e \/ \E i \in Slots : top'[j] = top[i]
    BY <2>2, <2>4 DEF Slots
  <2>7. Honest /\ Held' \subseteq Held \cup {p}
    BY <1>7, <2>6 DEF Honest
  <2>8. \A i, j \in Slots : top[i].ref = top[j].ref => i = j \/ top[i].ref = Nowhere
    BY DEF ListOK, SlotsHonest
  <2>9. Distinct
    <3> SUFFICES ASSUME NEW i \in Slots, NEW j \in Slots, top'[i].ref = top'[j].ref,
                        top'[i].ref # Nowhere
                 PROVE  i = j
      BY DEF Distinct
    <3> DEFINE from(m) == IF m < k THEN m ELSE m - 1
    <3>1. \A m \in Slots : m # k => from(m) \in Slots /\ top'[m] = top[from(m)]
      BY <2>2, <2>4 DEF Slots
    <3>2. CASE i = k \/ j = k
      BY <1>1, <1>4, <2>4, <3>1, <3>2
    <3>3. CASE i # k /\ j # k
      <4>1. from(i) = from(j)
        BY <2>8, <3>1, <3>3
      <4> QED BY <2>2, <3>3, <4>1 DEF Slots
    <3> QED BY <3>2, <3>3
  <2>10. \A i, j \in Slots : i <= j => top[i].dist <= top[j].dist
    BY <1>11 DEF ListOK, Sorted
  <2>11. \A i, j \in Slots : i <= j => top'[i].dist <= top'[j].dist
    <3> SUFFICES ASSUME NEW i \in Slots, NEW j \in Slots, i <= j
                 PROVE  top'[i].dist <= top'[j].dist
      OBVIOUS
    <3>1. \A m \in Slots : m < k => top[m].dist <= e.dist
      BY <1>1, <1>3, <2>2, <2>10 DEF Slots
    <3>2. \A m \in Slots : m >= k /\ m < Top => e.dist <= top[m].dist
      BY <1>1, <1>3, <2>2 DEF Slots
    <3>3. CASE j < k
      BY <2>2, <2>4, <2>10, <3>3 DEF Slots
    <3>4. CASE j = k
      BY <1>1, <2>2, <2>4, <3>1, <3>4 DEF Slots
    <3>5. CASE j > k
      <4>1. j - 1 \in Slots /\ top'[j] = top[j - 1] /\ j - 1 >= k /\ j - 1 < Top
        BY <2>2, <2>4, <3>5 DEF Slots
      <4>2. CASE i < k
        BY <2>2, <2>4, <2>10, <4>1, <4>2 DEF Slots
      <4>3. CASE i = k
        BY <2>4, <3>2, <4>1, <4>3
      <4>4. CASE i > k
        BY <2>2, <2>4, <2>10, <4>1, <4>4 DEF Slots
      <4> QED BY <2>2, <4>2, <4>3, <4>4 DEF Slots
    <3> QED BY <2>2, <3>3, <3>4, <3>5 DEF Slots
  <2>12. ListOK'
    <3>1. SlotsHonest'
      BY <1>8, <2>7, <2>9
    <3>2. Sorted'
      BY <2>11 DEF Sorted, Slots
    <3> QED BY <2>5, <3>1, <3>2 DEF ListOK
  <2>13. Worst = top[Top].dist /\ Worst' = top'[Top].dist /\ Top \in Slots
    BY <1>11 DEF Worst, WorstSlot, Slots
  <2>14. Worst' \in Nat /\ Worst' <= Worst
    <3>1. CASE k = Top
      BY <1>1, <1>2, <1>11, <2>1, <2>4, <2>13, <3>1
    <3>2. CASE k # Top
      <4>1. Top - 1 \in Slots /\ top'[Top] = top[Top - 1]
        BY <2>2, <2>4, <2>13, <3>2 DEF Slots
      <4> QED BY <1>2, <1>3, <2>13, <4>1
    <3> QED BY <3>1, <3>2
  <2>15. p \in Held'
    BY <1>0, <1>1, <2>2, <2>4 DEF Held
  <2>16. ASSUME NEW r \in Held PROVE r \in Held' \/ DistOf(r)' >= Worst'
    <3>1. PICK j \in Slots : top[j].ref = r /\ top[j].dist = DistOf(r)
      BY <1>6
    <3>2. CASE j < k
      BY <2>4, <3>1, <3>2 DEF Held
    <3>3. CASE j >= k /\ j < Top
      <4>1. j + 1 \in Slots /\ (j + 1) - 1 = j /\ j + 1 > k
        BY <2>2, <3>3 DEF Slots
      <4> QED BY <2>4, <3>1, <4>1 DEF Held
    <3>4. CASE j = Top
      BY <1>2, <1>5, <2>13, <2>14, <3>1, <3>4
    <3> QED BY <2>2, <3>2, <3>3, <3>4 DEF Slots
  <2> QED BY <2>7, <2>12, <2>14, <2>15, <2>16
<1> QED BY <1>0, <1>2, <1>9, <1>10, <1>11
---------------------------------------------------------------------------
(* The bookkeeping of a search: what is settled, and where.                *)

Scanning == pc \in {"block", "lane"}
InProbes == pc \in {"select", "probe"} \/ (Scanning /\ back = "probe")
InRepair == pc = "repair" \/ (Scanning /\ back = "repair")

Complete(c)  == \A i \in DOMAIN index[c] : <<c, i>> \in settled
Untouched(c) == \A i \in DOMAIN index[c] : <<c, i>> \notin settled

HeldSettled == Held \subseteq settled

\* Of the cluster being scanned, exactly the places before the cursor.
ScanCursor ==
    /\ Scanning => \A i \in DOMAIN index[cl] : <<cl, i>> \in settled <=> i < pos
    /\ pc = "lane" => pos <= Len(index[cl])

\* Probes are distinct; clusters dealt with are complete, and nothing outside
\* them is settled before the repair.
ProbeBook ==
    /\ pc = "select" => settled = {} /\ skip = {}
    /\ \A c \in skip : Complete(c) \/ (Scanning /\ back = "probe" /\ c = cl)
    /\ InProbes \/ pc = "gate" => ~repaired /\ \A r \in settled : r[1] \in skip
    /\ Scanning /\ back = "probe" => cl \in skip
    /\ InProbes => /\ \A i, j \in DOMAIN probes : i < j => probes[i] # probes[j]
                   /\ \A j \in DOMAIN probes : j >= at => probes[j] \notin skip

\* During the repair a cluster is complete, a candidate, hopeless, or the one
\* being scanned; after it only complete or hopeless.
RepairBook ==
    /\ InRepair => /\ \A c \in cands : Untouched(c) /\ (Scanning => c # cl)
                   /\ \A c \in DOMAIN index : \/ Complete(c) \/ c \in cands \/ ~MayHelp(c)
                                              \/ Scanning /\ c = cl
    /\ pc = "done" /\ repaired => \A c \in DOMAIN index : Complete(c) \/ ~MayHelp(c)

SInv == /\ TypeOK /\ Sorted /\ SlotsHonest /\ HeldSettled /\ NothingNearerMissed
        /\ ScanCursor /\ ProbeBook /\ RepairBook

LEMMA SInvListOK == SInv => ListOK /\ WorstFacts
    BY WorstIsLargest DEF SInv, TypeOK, ListOK

LEMMA FraudBounded == Fraud \in 0..Top
<1> DEFINE S == {i \in Slots : top[i].label = 1}
<1>1. IsFiniteSet(1..Top) /\ Cardinality(1..Top) = Top
  BY FS_Interval
<1>2. IsFiniteSet(S) /\ Cardinality(S) <= Top
  BY <1>1, FS_Subset DEF Slots
<1>3. Cardinality(S) \in Nat
  BY <1>2, FS_CardinalityType
<1> QED BY <1>2, <1>3 DEF Fraud

\* A reference is a place of a cluster.
LEMMA RefsAre ==
    ASSUME NEW c, NEW i
    PROVE  <<c, i>> \in Refs(index) <=> c \in DOMAIN index /\ i \in DOMAIN index[c]
    BY DEF Refs

LEMMA RefIsPlace ==
    ASSUME NEW r \in Refs(index)
    PROVE  /\ r = <<r[1], r[2]>> /\ r[1] \in DOMAIN index /\ r[2] \in DOMAIN index[r[1]]
    BY DEF Refs

LEMMA IndexFacts ==
    ASSUME TypeOK
    PROVE  /\ DOMAIN index # {} /\ IsFiniteSet(DOMAIN index)
           /\ \A c \in DOMAIN index : /\ Len(index[c]) \in Nat
                                      /\ DOMAIN index[c] = 1..Len(index[c])
                                      /\ BoxLB(index, query, c) \in Nat
           /\ \A r \in Refs(index) : /\ DistOf(r) \in Nat
                                     /\ BoxLB(index, query, r[1]) <= DistOf(r)
                                     /\ \A k \in Checkpoints :
                                           /\ Partial(k, query, RefAt(index, r)) \in Nat
                                           /\ Partial(k, query, RefAt(index, r)) <= DistOf(r)
    BY IndexAssumption, BoundsAssumption DEF TypeOK, DistOf

\* Steps that leave the list alone keep what is known of it, provided that
\* what they settle is no nearer than the worst.
LEMMA ListKept ==
    ASSUME SInv, UNCHANGED <<request, top>>, settled \subseteq settled',
           \A r \in settled' \ settled : DistOf(r) >= Worst
    PROVE  /\ Sorted' /\ SlotsHonest' /\ HeldSettled' /\ NothingNearerMissed'
           /\ Worst' = Worst
           /\ \A c : MayHelp(c)' = MayHelp(c)
<1>1. /\ Worst' = Worst /\ Held' = Held /\ \A r : DistOf(r)' = DistOf(r)
  BY DEF request, Worst, WorstSlot, Held, DistOf
<1>2. \A c : MayHelp(c)' = MayHelp(c)
  BY <1>1 DEF MayHelp, request
<1>3. Sorted' /\ SlotsHonest'
  BY DEF SInv, request, Sorted, SlotsHonest, Empty, NoneYet, Candidate
<1>4. HeldSettled'
  BY <1>1 DEF SInv, HeldSettled
<1>5. NothingNearerMissed'
  BY <1>1 DEF SInv, NothingNearerMissed
<1> QED BY <1>1, <1>2, <1>3, <1>4, <1>5

LEMMA InitSInv == Init => SInv
<1> SUFFICES ASSUME Init PROVE SInv
  OBVIOUS
<1>1. TypeOK
  <2>1. Empty \in [dist : Nat, label : {0, 1}, ref : Refs(index) \cup {Nowhere}]
    <3>1. NoneYet \in Nat
      BY DEF NoneYet
    <3> QED BY <3>1 DEF Empty
  <2>2. top \in [Slots -> [dist : Nat, label : {0, 1}, ref : Refs(index) \cup {Nowhere}]]
    BY <2>1 DEF Init
  <2>3. probes \in Seq(DOMAIN index)
    BY DEF Init
  <2>4. /\ index \in Indexes /\ query \in Queries /\ engine \in Engines /\ setting \in Settings
        /\ pc = "select" /\ back = "probe" /\ at = 1 /\ skip = {} /\ cands = {}
        /\ cl \in DOMAIN index /\ pos = 1 /\ settled = {} /\ repaired = FALSE /\ answer = NoAnswer
    BY DEF Init
  <2>5. at \in Nat \ {0} /\ pos \in Nat \ {0}
    BY <2>4
  <2>6. skip \subseteq DOMAIN index /\ cands \subseteq DOMAIN index
        /\ settled \subseteq Refs(index) /\ repaired \in BOOLEAN
        /\ answer \in 0..Top \cup {NoAnswer}
    BY <2>4
  <2>7. /\ pc \in {"select", "probe", "block", "lane", "gate", "repair", "done"}
        /\ back \in {"probe", "repair"}
    BY <2>4
  <2> QED BY <2>2, <2>3, <2>4, <2>5, <2>6, <2>7, Zenon DEF TypeOK
<1>2. \A i \in Slots : top[i] = Empty
  BY DEF Init
<1>3. Empty.ref = Nowhere /\ Empty.dist = NoneYet /\ NoneYet \in Nat
  BY DEF Empty, NoneYet
<1>4. Sorted /\ SlotsHonest
  BY <1>2, <1>3 DEF Sorted, SlotsHonest
<1>5. HeldSettled
  BY <1>2, <1>3 DEF HeldSettled, Held
<1>6. NothingNearerMissed /\ ScanCursor /\ ProbeBook /\ RepairBook
  BY DEF Init, NothingNearerMissed, ScanCursor, ProbeBook, RepairBook, Scanning, InProbes, InRepair
<1> QED BY <1>1, <1>4, <1>5, <1>6 DEF SInv

---------------------------------------------------------------------------
(* Each step keeps the invariant.                                          *)

\* A step that neither touches the list nor settles anything.
LEMMA QuietStep ==
    ASSUME SInv, UNCHANGED <<request, top, settled>>
    PROVE  /\ Sorted' /\ SlotsHonest' /\ HeldSettled' /\ NothingNearerMissed'
           /\ \A c : MayHelp(c)' = MayHelp(c)
           /\ \A c : Complete(c)' = Complete(c) /\ Untouched(c)' = Untouched(c)
<1>1. \A c : Complete(c)' = Complete(c) /\ Untouched(c)' = Untouched(c)
  BY DEF request, Complete, Untouched
<1>2. /\ Sorted' /\ SlotsHonest' /\ HeldSettled' /\ NothingNearerMissed'
      /\ \A c : MayHelp(c)' = MayHelp(c)
  BY ListKept
<1> QED BY <1>1, <1>2

LEMMA StepSelectProbes == SInv /\ SelectProbes => SInv'
<1> SUFFICES ASSUME SInv, SelectProbes PROVE SInv'
  OBVIOUS
<1>1. /\ Sorted' /\ SlotsHonest' /\ HeldSettled' /\ NothingNearerMissed'
  BY QuietStep DEF SelectProbes
<1>2. PICK s \in [1..ProbeCount -> DOMAIN index] : IsProbeOrder(s) /\ probes' = s
  BY DEF SelectProbes
<1>3. ProbeCount \in Nat
  <2>1. IsFiniteSet(DOMAIN index) /\ setting.nprobe \in Nat
    BY IndexFacts DEF SInv, TypeOK
  <2>2. Cardinality(DOMAIN index) \in Nat
    BY <2>1, FS_CardinalityType
  <2> QED BY <2>1, <2>2 DEF ProbeCount, Lesser, Greater
<1>4. probes' \in Seq(DOMAIN index)
  BY <1>2, <1>3, IsASeq
<1>5. TypeOK'
  BY <1>4 DEF SInv, TypeOK, SelectProbes, request
<1>6. \A i, j \in DOMAIN probes' : i < j => probes'[i] # probes'[j]
  BY <1>2 DEF IsProbeOrder
<1>7. pc = "select" /\ pc' = "probe" /\ settled = {} /\ skip = {}
      /\ settled' = {} /\ skip' = {} /\ repaired' = FALSE
  BY DEF SInv, ProbeBook, SelectProbes, InProbes, TypeOK
<1>8. ProbeBook' /\ RepairBook' /\ ScanCursor'
  BY <1>6, <1>7 DEF ProbeBook, RepairBook, ScanCursor, Scanning, InProbes, InRepair
<1> QED BY <1>1, <1>5, <1>8 DEF SInv

LEMMA StepPruneProbe == SInv /\ PruneProbe => SInv'
<1> SUFFICES ASSUME SInv, PruneProbe PROVE SInv'
  OBVIOUS
<1> DEFINE c == probes[at]
<1>1. TypeOK /\ pc = "probe" /\ pc' = "probe" /\ at \in DOMAIN probes /\ c \in DOMAIN index
  BY ElementOfSeq, LenProperties DEF SInv, TypeOK, PruneProbe
<1> HIDE DEF c
<1>2. /\ skip' = skip \cup {c} /\ settled' = settled \cup Members(c) /\ at' = at + 1
      /\ ~MayHelp(c) /\ UNCHANGED <<request, top, probes, cands, cl, pos, back, repaired, answer>>
  BY DEF PruneProbe, c
<1>3. \A r \in Members(c) : r \in Refs(index) /\ r[1] = c
  BY <1>1 DEF Members, Refs
<1>4. \A r \in Members(c) : DistOf(r) >= Worst
  <2> SUFFICES ASSUME NEW r \in Members(c) PROVE DistOf(r) >= Worst
    OBVIOUS
  <2>1. r \in Refs(index) /\ r[1] = c
    BY <1>3
  <2>2. BoxLB(index, query, c) \in Nat /\ DistOf(r) \in Nat /\ Worst \in Nat
        /\ BoxLB(index, query, c) <= DistOf(r)
    BY <1>1, <2>1, IndexFacts, SInvListOK DEF WorstFacts
  <2> QED BY <1>2, <2>2 DEF MayHelp
<1>5. /\ Sorted' /\ SlotsHonest' /\ HeldSettled' /\ NothingNearerMissed'
  BY <1>2, <1>4, ListKept
<1>6. TypeOK'
  <2>1. settled' \subseteq Refs(index)
    BY <1>1, <1>2, <1>3 DEF TypeOK
  <2> QED BY <1>1, <1>2, <2>1 DEF TypeOK, request
<1>7. ProbeBook'
  <2>1. \A d \in skip' : Complete(d)'
    BY <1>1, <1>2 DEF SInv, ProbeBook, Scanning, Complete, Members, request
  <2>2. ~repaired' /\ \A r \in settled' : r[1] \in skip'
    BY <1>1, <1>2, <1>3 DEF SInv, ProbeBook, InProbes
  <2>3. /\ \A i, j \in DOMAIN probes : i < j => probes[i] # probes[j]
        /\ \A j \in DOMAIN probes : j >= at => probes[j] \notin skip
    BY <1>1 DEF SInv, ProbeBook, InProbes
  <2>4. \A j \in DOMAIN probes : j >= at + 1 => probes[j] \notin skip'
    BY <1>1, <1>2, <2>3, LenProperties DEF TypeOK, c
  <2>5. probes' = probes /\ at' = at + 1
    BY <1>2
  <2> QED BY <1>1, <2>1, <2>2, <2>3, <2>4, <2>5 DEF ProbeBook, Scanning, InProbes
<1>8. RepairBook' /\ ScanCursor'
  BY <1>1 DEF RepairBook, ScanCursor, Scanning, InRepair
<1> QED BY <1>5, <1>6, <1>7, <1>8 DEF SInv

\* Starting a scan of a cluster nothing of which is settled.
LEMMA ScanStarts ==
    ASSUME TypeOK, NEW c \in DOMAIN index, Untouched(c), cl' = c, pos' = 1, pc' = "block",
           UNCHANGED <<request, settled>>
    PROVE  ScanCursor'
<1>1. \A i \in DOMAIN index[c] : ~ (i < 1) /\ <<c, i>> \notin settled
  BY IndexFacts DEF Untouched
<1> QED BY <1>1 DEF ScanCursor, request

LEMMA StepScanProbe == SInv /\ ScanProbe => SInv'
<1> SUFFICES ASSUME SInv, ScanProbe PROVE SInv'
  OBVIOUS
<1> DEFINE c == probes[at]
<1>1. TypeOK /\ pc = "probe" /\ pc' = "block" /\ at \in DOMAIN probes /\ c \in DOMAIN index
  BY ElementOfSeq, LenProperties DEF SInv, TypeOK, ScanProbe, Scan
<1> HIDE DEF c
<1>2. /\ skip' = skip \cup {c} /\ at' = at + 1 /\ cl' = c /\ pos' = 1 /\ back' = "probe"
      /\ UNCHANGED <<request, top, settled, probes, cands, repaired, answer>>
  BY DEF ScanProbe, Scan, c
<1>3. /\ Sorted' /\ SlotsHonest' /\ HeldSettled' /\ NothingNearerMissed'
      /\ \A d : Complete(d)' = Complete(d)
  BY <1>2, QuietStep
<1>4. TypeOK'
  BY <1>1, <1>2 DEF TypeOK, request
<1>5. /\ \A i, j \in DOMAIN probes : i < j => probes[i] # probes[j]
      /\ \A j \in DOMAIN probes : j >= at => probes[j] \notin skip
      /\ ~repaired /\ \A r \in settled : r[1] \in skip
      /\ \A d \in skip : Complete(d)
  BY <1>1 DEF SInv, ProbeBook, InProbes, Scanning
<1>6. c \notin skip
  BY <1>1, <1>5 DEF c, TypeOK
<1>7. Untouched(c)
  BY <1>5, <1>6 DEF Untouched
<1>8. ScanCursor'
  BY <1>1, <1>2, <1>7, ScanStarts
<1>9. ProbeBook'
  <2>1. \A j \in DOMAIN probes : j >= at + 1 => probes[j] \notin skip'
    BY <1>1, <1>2, <1>5, LenProperties DEF TypeOK, c
  <2>2. probes' = probes /\ at' = at + 1
    BY <1>2
  <2>3. \A d \in skip' : Complete(d)' \/ d = cl'
    BY <1>2, <1>3, <1>5
  <2> QED BY <1>1, <1>2, <1>5, <2>1, <2>2, <2>3 DEF ProbeBook, Scanning, InProbes
<1>10. RepairBook'
  BY <1>1, <1>2 DEF RepairBook, Scanning, InRepair
<1> QED BY <1>3, <1>4, <1>8, <1>9, <1>10 DEF SInv

LEMMA StepProbesDone == SInv /\ ProbesDone => SInv'
<1> SUFFICES ASSUME SInv, ProbesDone PROVE SInv'
  OBVIOUS
<1>1. /\ Sorted' /\ SlotsHonest' /\ HeldSettled' /\ NothingNearerMissed'
      /\ \A d : Complete(d)' = Complete(d)
  BY QuietStep DEF ProbesDone
<1>2. TypeOK'
  BY DEF SInv, TypeOK, ProbesDone, request
<1>3. ProbeBook'
  BY <1>1 DEF SInv, ProbeBook, ProbesDone, Scanning, InProbes
<1>4. RepairBook' /\ ScanCursor'
  BY DEF ProbesDone, RepairBook, ScanCursor, Scanning, InRepair
<1> QED BY <1>1, <1>2, <1>3, <1>4 DEF SInv

LEMMA StepScanDone == SInv /\ ScanDone => SInv'
<1> SUFFICES ASSUME SInv, ScanDone PROVE SInv'
  OBVIOUS
<1>1. /\ Sorted' /\ SlotsHonest' /\ HeldSettled' /\ NothingNearerMissed'
      /\ \A d : MayHelp(d)' = MayHelp(d)
      /\ \A d : Complete(d)' = Complete(d) /\ Untouched(d)' = Untouched(d)
  BY QuietStep DEF ScanDone
<1>2. TypeOK'
  BY DEF SInv, TypeOK, ScanDone, request
<1>3. TypeOK /\ Scanning /\ ~Scanning' /\ pc' = back /\ pc # "done" /\ pc' # "select"
      /\ UNCHANGED <<request, back, probes, at, skip, cands, cl, settled, repaired>>
  BY DEF SInv, TypeOK, ScanDone, Scanning
<1>4. Complete(cl)
  <2>1. cl \in DOMAIN index /\ pos > Len(index[cl]) /\ pos \in Nat
    BY <1>3 DEF ScanDone, TypeOK
  <2>2. \A i \in DOMAIN index[cl] : i < pos
    BY <1>3, <2>1, IndexFacts
  <2> QED BY <1>3, <2>2 DEF SInv, ScanCursor, Complete
<1>5. ProbeBook'
  <2>1. back = "probe" => InProbes
    BY <1>3 DEF InProbes
  <2>2. back # "probe" => ~InProbes' /\ pc' # "gate"
    BY <1>3 DEF InProbes, TypeOK
  <2>3. \A d \in skip' : Complete(d)'
    BY <1>1, <1>3, <1>4 DEF SInv, ProbeBook
  <2> QED BY <1>3, <2>1, <2>2, <2>3 DEF SInv, ProbeBook
<1>6. RepairBook'
  <2>1. InRepair' => InRepair
    BY <1>3 DEF InRepair
  <2>2. pc' # "done"
    BY <1>3 DEF TypeOK
  <2>3. CASE InRepair'
    <3>1. /\ \A c \in cands : Untouched(c)
          /\ \A c \in DOMAIN index : Complete(c) \/ c \in cands \/ ~MayHelp(c) \/ c = cl
      BY <2>1, <2>3 DEF SInv, RepairBook
    <3>2. /\ \A c \in cands' : Untouched(c)'
          /\ \A c \in DOMAIN index' : Complete(c)' \/ c \in cands' \/ ~MayHelp(c)'
      BY <1>1, <1>3, <1>4, <3>1 DEF request
    <3> QED BY <1>3, <2>2, <3>2 DEF RepairBook
  <2> QED BY <2>2, <2>3 DEF RepairBook
<1>7. ScanCursor'
  BY <1>3 DEF ScanCursor, Scanning
<1> QED BY <1>1, <1>2, <1>5, <1>6, <1>7 DEF SInv

LEMMA StepEnterBlock == SInv /\ EnterBlock => SInv'
<1> SUFFICES ASSUME SInv, EnterBlock PROVE SInv'
  OBVIOUS
<1>1. /\ Sorted' /\ SlotsHonest' /\ HeldSettled' /\ NothingNearerMissed'
      /\ \A d : MayHelp(d)' = MayHelp(d)
      /\ \A d : Complete(d)' = Complete(d) /\ Untouched(d)' = Untouched(d)
  BY QuietStep DEF EnterBlock
<1>2. TypeOK'
  BY DEF SInv, TypeOK, EnterBlock, request
<1>3. /\ Scanning /\ Scanning' /\ pc' = "lane"
      /\ InProbes' = InProbes /\ InRepair' = InRepair
      /\ pc # "gate" /\ pc # "done" /\ pc # "select"
      /\ UNCHANGED <<request, back, probes, at, skip, cands, cl, pos, settled, repaired>>
  BY DEF EnterBlock, Scanning, InProbes, InRepair
<1>4. ProbeBook'
  BY <1>1, <1>3 DEF SInv, ProbeBook
<1>5. RepairBook'
  BY <1>1, <1>3 DEF SInv, RepairBook, request
<1>6. ScanCursor'
  <2>1. pos <= Len(index[cl])
    BY DEF EnterBlock
  <2>2. \A i \in DOMAIN index[cl] : <<cl, i>> \in settled <=> i < pos
    BY <1>3 DEF SInv, ScanCursor
  <2> QED BY <1>3, <2>1, <2>2 DEF ScanCursor, request
<1> QED BY <1>1, <1>2, <1>4, <1>5, <1>6 DEF SInv

\* Settling the next places of the cluster being scanned keeps the books.
LEMMA ScanMovesOn ==
    ASSUME SInv, Scanning, pc' \in {"block", "lane"},
           NEW m \in Nat, m <= Len(index[cl]), pos <= m,
           pos' = m + 1, settled' = settled \cup {<<cl, i>> : i \in pos..m},
           UNCHANGED <<request, back, probes, at, skip, cands, cl, repaired>>,
           \A c \in DOMAIN index : ~MayHelp(c) => ~MayHelp(c)',
           pc' = "lane" => m + 1 <= Len(index[cl])
    PROVE  ScanCursor' /\ ProbeBook' /\ RepairBook' /\ settled' \subseteq Refs(index)
<1>1. TypeOK /\ cl \in DOMAIN index /\ pos \in Nat \ {0} /\ DOMAIN index[cl] = 1..Len(index[cl])
      /\ Len(index[cl]) \in Nat
  BY IndexFacts DEF SInv, TypeOK
<1>2. \A i \in DOMAIN index[cl] : <<cl, i>> \in settled' <=> i < m + 1
  <2>1. \A i \in DOMAIN index[cl] : <<cl, i>> \in settled <=> i < pos
    BY DEF SInv, ScanCursor
  <2>2. \A i : <<cl, i>> \in settled' <=> <<cl, i>> \in settled \/ i \in pos..m
    OBVIOUS
  <2> QED BY <1>1, <2>1, <2>2
<1>3. ScanCursor'
  BY <1>2 DEF ScanCursor, request
<1>4. \A r \in settled' : r \in settled \/ r[1] = cl
  OBVIOUS
<1>5. \A c : Complete(c) => Complete(c)'
  BY DEF Complete, request
<1>6. \A c : c # cl /\ Untouched(c) => Untouched(c)'
  BY DEF Untouched, request
<1>7. /\ Scanning' /\ InProbes' = InProbes /\ InRepair' = InRepair
      /\ pc \notin {"select", "gate", "done"} /\ pc' \notin {"select", "gate", "done"}
  BY DEF Scanning, InProbes, InRepair
<1>8. ProbeBook'
  <2>1. \A c \in skip' : Complete(c)' \/ (Scanning' /\ back' = "probe" /\ c = cl')
    BY <1>5, <1>7 DEF SInv, ProbeBook
  <2>2. InProbes => back = "probe"
    BY <1>7 DEF InProbes, Scanning
  <2>3. InProbes' \/ pc' = "gate" => ~repaired' /\ \A r \in settled' : r[1] \in skip'
    BY <1>4, <1>7, <2>2 DEF SInv, ProbeBook
  <2> QED BY <1>7, <2>1, <2>3 DEF SInv, ProbeBook
<1>9. RepairBook'
  <2>1. CASE InRepair
    <3>1. /\ \A c \in cands : Untouched(c) /\ c # cl
          /\ \A c \in DOMAIN index : Complete(c) \/ c \in cands \/ ~MayHelp(c) \/ c = cl
      BY <2>1 DEF SInv, RepairBook
    <3>2. /\ \A c \in cands' : Untouched(c)' /\ c # cl'
          /\ \A c \in DOMAIN index' : Complete(c)' \/ c \in cands' \/ ~MayHelp(c)' \/ c = cl'
      BY <1>5, <1>6, <3>1 DEF request
    <3> QED BY <1>7, <3>2 DEF RepairBook
  <2>2. CASE ~InRepair
    BY <1>7, <2>2 DEF RepairBook
  <2> QED BY <2>1, <2>2
<1>10. settled' \subseteq Refs(index)
  <2>1. \A i \in pos..m : <<cl, i>> \in Refs(index)
    BY <1>1 DEF Refs
  <2> QED BY <1>1, <2>1 DEF TypeOK
<1> QED BY <1>3, <1>8, <1>9, <1>10

LEMMA StepPruneBlock == SInv /\ PruneBlock => SInv'
<1> SUFFICES ASSUME SInv, PruneBlock PROVE SInv'
  OBVIOUS
<1> DEFINE m == BlockEnd
<1>1. /\ TypeOK /\ pc = "block" /\ pc' = "block" /\ pos' = m + 1 /\ Hopeless
      /\ settled' = settled \cup BlockRefs
      /\ UNCHANGED <<request, back, probes, at, skip, cands, cl, top, repaired, answer>>
      /\ pos \in Nat \ {0} /\ pos <= Len(index[cl]) /\ cl \in DOMAIN index
      /\ Len(index[cl]) \in Nat /\ DOMAIN index[cl] = 1..Len(index[cl])
  BY IndexFacts DEF PruneBlock, SInv, TypeOK
<1>2. m \in Nat /\ pos <= m /\ m <= Len(index[cl])
  BY <1>1 DEF BlockEnd, Lesser
<1>3. BlockRefs = {<<cl, i>> : i \in pos..m}
  BY DEF BlockRefs
<1> HIDE DEF m
<1>4. BlockRefs \subseteq Refs(index)
  BY <1>1, <1>2, <1>3 DEF Refs
<1>5. \A r \in BlockRefs : DistOf(r) >= Worst
  <2> SUFFICES ASSUME NEW r \in BlockRefs PROVE DistOf(r) >= Worst
    OBVIOUS
  <2>1. PICK k \in Checkpoints : Partial(k, query, RefAt(index, r)) >= Worst
    BY <1>1 DEF Hopeless
  <2>2. /\ Worst \in Nat /\ DistOf(r) \in Nat /\ Partial(k, query, RefAt(index, r)) \in Nat
        /\ Partial(k, query, RefAt(index, r)) <= DistOf(r)
    BY <1>1, <1>4, IndexFacts, SInvListOK DEF WorstFacts
  <2> QED BY <2>1, <2>2
<1>6. /\ Sorted' /\ SlotsHonest' /\ HeldSettled' /\ NothingNearerMissed'
      /\ \A c : MayHelp(c)' = MayHelp(c)
  BY <1>1, <1>5, ListKept
<1>7. ScanCursor' /\ ProbeBook' /\ RepairBook' /\ settled' \subseteq Refs(index)
  BY <1>1, <1>2, <1>3, <1>6, ScanMovesOn DEF Scanning
<1>8. TypeOK'
  BY <1>1, <1>2, <1>7 DEF TypeOK, request
<1> QED BY <1>6, <1>7, <1>8 DEF SInv

\* What a lane does to the list, as facts about the next state.
LEMMA LaneOffers ==
    ASSUME SInv, Lane
    PROVE  /\ ListOK' /\ Worst' <= Worst /\ Worst' \in Nat
           /\ Held' \subseteq Held \cup {<<cl, pos>>}
           /\ \A r \in Held \cup {<<cl, pos>>} : r \in Held' \/ DistOf(r)' >= Worst'
<1>1. /\ TypeOK /\ pc = "lane" /\ cl \in DOMAIN index /\ pos \in Nat \ {0}
      /\ Len(index[cl]) \in Nat /\ DOMAIN index[cl] = 1..Len(index[cl])
  BY IndexFacts DEF Lane, SInv, TypeOK
<1>2. pos <= Len(index[cl])
  BY <1>1 DEF SInv, ScanCursor
<1>3. <<cl, pos>> \in Refs(index)
  BY <1>1, <1>2 DEF Refs
<1>4. <<cl, pos>> \notin settled
  BY <1>1, <1>2 DEF SInv, ScanCursor, Scanning
<1>5. <<cl, pos>> \notin Held
  BY <1>4 DEF SInv, HeldSettled
<1>6. top' = Offered(Candidate(<<cl, pos>>)) /\ UNCHANGED <<index, query, engine>>
  BY DEF Lane, request
<1> QED BY <1>3, <1>5, <1>6, SInvListOK, OfferedProperties

LEMMA StepLane == SInv /\ Lane => SInv'
<1> SUFFICES ASSUME SInv, Lane PROVE SInv'
  OBVIOUS
<1> DEFINE p == <<cl, pos>>
<1>1. /\ TypeOK /\ pc = "lane" /\ pos' = pos + 1 /\ settled' = settled \cup {p}
      /\ UNCHANGED <<request, back, probes, at, skip, cands, cl, repaired, answer>>
      /\ pos \in Nat \ {0} /\ cl \in DOMAIN index
      /\ Len(index[cl]) \in Nat /\ DOMAIN index[cl] = 1..Len(index[cl])
  BY IndexFacts DEF Lane, SInv, TypeOK
<1>2. pos <= Len(index[cl])
  BY <1>1 DEF SInv, ScanCursor
<1>3. pc' \in {"block", "lane"} /\ (pc' = "lane" => pos + 1 <= Len(index[cl]))
  <2>1. pc' = "block" \/ (pc' = "lane" /\ pos # Len(index[cl]))
    BY Zenon DEF Lane
  <2>2. pos \in Nat /\ Len(index[cl]) \in Nat
    BY <1>1
  <2>3. pos # Len(index[cl]) => pos + 1 <= Len(index[cl])
    BY <1>2, <2>2
  <2> QED BY <2>1, <2>3
<1>4. /\ ListOK' /\ Worst' <= Worst /\ Worst' \in Nat
      /\ Held' \subseteq Held \cup {p}
      /\ \A r \in Held \cup {p} : r \in Held' \/ DistOf(r)' >= Worst'
  BY LaneOffers
<1>5. Worst \in Nat
  BY SInvListOK DEF WorstFacts
<1>6. \A r : DistOf(r)' = DistOf(r)
  BY <1>1 DEF DistOf, request
<1>7. \A c \in DOMAIN index : ~MayHelp(c) => ~MayHelp(c)'
  <2> SUFFICES ASSUME NEW c \in DOMAIN index, ~MayHelp(c) PROVE ~MayHelp(c)'
    OBVIOUS
  <2>1. BoxLB(index, query, c) \in Nat
    BY <1>1, IndexFacts
  <2> QED BY <1>1, <1>4, <1>5, <2>1 DEF MayHelp, request
<1>8. {p} = {<<cl, i>> : i \in pos..pos}
  BY <1>1
<1> HIDE DEF p
<1>9. ScanCursor' /\ ProbeBook' /\ RepairBook' /\ settled' \subseteq Refs(index)
  BY <1>1, <1>2, <1>3, <1>7, <1>8, ScanMovesOn DEF Scanning
<1>10. HeldSettled'
  BY <1>1, <1>4 DEF SInv, HeldSettled
<1>11. NothingNearerMissed'
  <2> SUFFICES ASSUME NEW r \in settled' PROVE r \in Held' \/ DistOf(r)' >= Worst'
    BY DEF NothingNearerMissed
  <2>1. CASE r \in Held \cup {p}
    BY <1>4, <2>1
  <2>2. CASE r \in settled /\ DistOf(r) >= Worst
    <3>1. DistOf(r) \in Nat
      BY <1>1, <2>2, IndexFacts DEF TypeOK
    <3> QED BY <1>4, <1>5, <1>6, <2>2, <3>1
  <2> QED BY <1>1, <2>1, <2>2 DEF SInv, NothingNearerMissed
<1>12. TypeOK'
  <2>1. top' \in [Slots' -> [dist : Nat, label : {0, 1}, ref : Refs(index') \cup {Nowhere}]]
    BY <1>4 DEF ListOK, Slots
  <2>2. settled' \subseteq Refs(index')
    BY <1>1, <1>9 DEF request
  <2> QED BY <1>1, <1>3, <2>1, <2>2 DEF TypeOK, request
<1>13. Sorted' /\ SlotsHonest'
  BY <1>4 DEF ListOK
<1> QED BY <1>9, <1>10, <1>11, <1>12, <1>13 DEF SInv

LEMMA StepRepair == SInv /\ Repair => SInv'
<1> SUFFICES ASSUME SInv, Repair PROVE SInv'
  OBVIOUS
<1>1. /\ Sorted' /\ SlotsHonest' /\ HeldSettled' /\ NothingNearerMissed'
      /\ \A d : MayHelp(d)' = MayHelp(d)
      /\ \A d : Complete(d)' = Complete(d) /\ Untouched(d)' = Untouched(d)
  BY QuietStep DEF Repair
<1>2. /\ TypeOK /\ pc = "gate" /\ pc' = "repair" /\ cands' = Candidates /\ repaired' = TRUE
      /\ UNCHANGED <<request, back, probes, at, skip, cl, pos, top, settled, answer>>
  BY DEF Repair, SInv
<1>3. TypeOK'
  BY <1>2 DEF TypeOK, request, Candidates
<1>4. /\ \A r \in settled : r[1] \in skip
      /\ \A c \in skip : Complete(c)
  BY <1>2 DEF SInv, ProbeBook, Scanning
<1>5. \A c \in cands' : Untouched(c)'
  <2>1. \A c \in Candidates : Untouched(c)
    BY <1>4 DEF Candidates, Untouched
  <2> QED BY <1>1, <1>2, <2>1
<1>6. \A c \in DOMAIN index : Complete(c) \/ c \in Candidates \/ ~MayHelp(c)
  BY <1>4 DEF Candidates, Complete
<1>7. RepairBook'
  <2>1. \A c \in DOMAIN index' : Complete(c)' \/ c \in cands' \/ ~MayHelp(c)'
    BY <1>1, <1>2, <1>6 DEF request
  <2> QED BY <1>2, <1>5, <2>1 DEF RepairBook, Scanning
<1>8. ProbeBook' /\ ScanCursor'
  BY <1>1, <1>2, <1>4 DEF ProbeBook, ScanCursor, Scanning, InProbes
<1> QED BY <1>1, <1>3, <1>7, <1>8 DEF SInv

LEMMA StepAnswerFast == SInv /\ AnswerFast => SInv'
<1> SUFFICES ASSUME SInv, AnswerFast PROVE SInv'
  OBVIOUS
<1>1. /\ Sorted' /\ SlotsHonest' /\ HeldSettled' /\ NothingNearerMissed'
      /\ \A d : Complete(d)' = Complete(d)
  BY QuietStep DEF AnswerFast
<1>2. /\ TypeOK /\ pc = "gate" /\ pc' = "done" /\ answer' = Fraud
      /\ UNCHANGED <<request, back, probes, at, skip, cands, cl, pos, top, settled, repaired>>
  BY DEF AnswerFast, SInv
<1>3. TypeOK'
  BY <1>2, FraudBounded DEF TypeOK, request
<1>4. ~repaired /\ \A c \in skip : Complete(c)
  BY <1>2 DEF SInv, ProbeBook, Scanning
<1>5. ProbeBook' /\ RepairBook' /\ ScanCursor'
  BY <1>1, <1>2, <1>4 DEF ProbeBook, RepairBook, ScanCursor, Scanning, InProbes, InRepair
<1> QED BY <1>1, <1>3, <1>5 DEF SInv

LEMMA StepRepairScan == SInv /\ RepairScan => SInv'
<1> SUFFICES ASSUME SInv, RepairScan PROVE SInv'
  OBVIOUS
<1>1. PICK c \in cands : /\ cands' = cands \ {c}
                         /\ cl' = c /\ pos' = 1 /\ pc' = "block" /\ back' = "repair"
  BY DEF RepairScan, Scan
<1>2. /\ TypeOK /\ pc = "repair" /\ c \in DOMAIN index
      /\ UNCHANGED <<request, probes, at, skip, top, settled, repaired, answer>>
  BY DEF RepairScan, SInv, TypeOK
<1>3. /\ Sorted' /\ SlotsHonest' /\ HeldSettled' /\ NothingNearerMissed'
      /\ \A d : MayHelp(d)' = MayHelp(d)
      /\ \A d : Complete(d)' = Complete(d) /\ Untouched(d)' = Untouched(d)
  BY <1>2, QuietStep
<1>4. TypeOK'
  BY <1>1, <1>2 DEF TypeOK, request
<1>5. /\ \A d \in cands : Untouched(d)
      /\ \A d \in DOMAIN index : Complete(d) \/ d \in cands \/ ~MayHelp(d)
  BY <1>2 DEF SInv, RepairBook, InRepair, Scanning
<1>6. ScanCursor'
  BY <1>1, <1>2, <1>5, ScanStarts
<1>7. ProbeBook'
  <2>1. \A d \in skip : Complete(d)
    BY <1>2 DEF SInv, ProbeBook, Scanning
  <2> QED BY <1>1, <1>2, <1>3, <2>1 DEF ProbeBook, InProbes, Scanning
<1>8. RepairBook'
  <2>1. \A d \in cands' : Untouched(d)' /\ d # cl'
    BY <1>1, <1>3, <1>5
  <2>2. \A d \in DOMAIN index' : Complete(d)' \/ d \in cands' \/ ~MayHelp(d)' \/ d = cl'
    BY <1>1, <1>2, <1>3, <1>5 DEF request
  <2> QED BY <1>1, <2>1, <2>2 DEF RepairBook, Scanning
<1> QED BY <1>3, <1>4, <1>6, <1>7, <1>8 DEF SInv

\* The repair stops when the least lower bound left is too large: then all are.
LEMMA NoneMayHelp ==
    ASSUME TypeOK, Worst \in Nat, \A c \in cands : IsNext(c) => ~MayHelp(c)
    PROVE  \A c \in cands : ~MayHelp(c)
<1> SUFFICES ASSUME NEW c \in cands PROVE ~MayHelp(c)
  OBVIOUS
<1> DEFINE B == {BoxLB(index, query, d) : d \in cands}
<1>1. \A d \in cands : BoxLB(index, query, d) \in Nat
  BY IndexFacts DEF TypeOK
<1>2. B \in SUBSET Nat /\ B # {}
  BY <1>1
<1>3. PICK b \in B : \A x \in B : b <= x
  BY <1>2, SmallestNat
<1>4. PICK d \in cands : b = BoxLB(index, query, d)
  BY <1>3
<1>5. IsNext(d)
  BY <1>3, <1>4 DEF IsNext
<1>6. ~MayHelp(d) /\ b <= BoxLB(index, query, c)
  BY <1>3, <1>5
<1> QED BY <1>1, <1>4, <1>6 DEF MayHelp

LEMMA StepRepairDone == SInv /\ RepairDone => SInv'
<1> SUFFICES ASSUME SInv, RepairDone PROVE SInv'
  OBVIOUS
<1>1. /\ Sorted' /\ SlotsHonest' /\ HeldSettled' /\ NothingNearerMissed'
      /\ \A d : MayHelp(d)' = MayHelp(d)
      /\ \A d : Complete(d)' = Complete(d)
  BY QuietStep DEF RepairDone
<1>2. /\ TypeOK /\ pc = "repair" /\ pc' = "done" /\ answer' = Fraud
      /\ UNCHANGED <<request, back, probes, at, skip, cands, cl, pos, top, settled, repaired>>
  BY DEF RepairDone, SInv
<1>3. TypeOK'
  BY <1>2, FraudBounded DEF TypeOK, request
<1>4. \A c \in cands : ~MayHelp(c)
  <2>1. Worst \in Nat
    BY SInvListOK DEF WorstFacts
  <2> QED BY <1>2, <2>1, NoneMayHelp DEF RepairDone
<1>5. \A c \in DOMAIN index : Complete(c) \/ ~MayHelp(c)
  BY <1>2, <1>4 DEF SInv, RepairBook, InRepair, Scanning
<1>6. RepairBook'
  BY <1>1, <1>2, <1>5 DEF RepairBook, InRepair, Scanning, request
<1>7. ProbeBook'
  <2>1. \A d \in skip : Complete(d)
    BY <1>2 DEF SInv, ProbeBook, Scanning
  <2> QED BY <1>1, <1>2, <2>1 DEF ProbeBook, InProbes, Scanning
<1>8. ScanCursor'
  BY <1>2 DEF ScanCursor, Scanning
<1> QED BY <1>1, <1>3, <1>6, <1>7, <1>8 DEF SInv

LEMMA StutterSInv == SInv /\ UNCHANGED vars => SInv'
<1> SUFFICES ASSUME SInv, UNCHANGED vars PROVE SInv'
  OBVIOUS
<1>1. /\ Sorted' /\ SlotsHonest' /\ HeldSettled' /\ NothingNearerMissed'
      /\ \A d : MayHelp(d)' = MayHelp(d)
      /\ \A d : Complete(d)' = Complete(d) /\ Untouched(d)' = Untouched(d)
  BY QuietStep DEF vars, request
<1>2. TypeOK'
  BY DEF SInv, TypeOK, vars
<1>3. Scanning' = Scanning /\ InProbes' = InProbes /\ InRepair' = InRepair
  BY DEF vars, Scanning, InProbes, InRepair
<1>4. ScanCursor' /\ ProbeBook' /\ RepairBook'
  BY <1>1, <1>3 DEF SInv, vars, ScanCursor, ProbeBook, RepairBook
<1> QED BY <1>1, <1>2, <1>4 DEF SInv

LEMMA NextSInv == SInv /\ [Next]_vars => SInv'
    BY StepSelectProbes, StepPruneProbe, StepScanProbe, StepProbesDone, StepScanDone,
       StepPruneBlock, StepEnterBlock, StepLane, StepRepair, StepAnswerFast,
       StepRepairScan, StepRepairDone, StutterSInv DEF Next

---------------------------------------------------------------------------
(* Theorems.                                                               *)

\* The inductive invariant: the list is honest and ordered, and the books of
\* what has been settled are kept.
THEOREM SearchInvariant == Spec => []SInv
<1>1. Init => SInv
  BY InitSInv
<1>2. SInv /\ [Next]_vars => SInv'
  BY NextSInv
<1> QED BY <1>1, <1>2, PTL DEF Spec

\* Every variable keeps its type, in each of the three engines.
THEOREM SearchTypeCorrect == Spec => []TypeOK
<1>1. SInv => TypeOK
  BY DEF SInv
<1> QED BY <1>1, SearchInvariant, PTL

\* No reference votes twice or with another's distance or label
\* (scan_cluster, scan_cluster_avx2, update_top5, skip_set).
THEOREM NoDoubleVote == Spec => []SlotsHonest
<1>1. SInv => SlotsHonest
  BY DEF SInv
<1> QED BY <1>1, SearchInvariant, PTL

\* No prune and no eviction loses a nearer neighbour.
THEOREM PruningIsSound == Spec => []NothingNearerMissed
<1>1. SInv => NothingNearerMissed
  BY DEF SInv
<1> QED BY <1>1, SearchInvariant, PTL

\* When no cluster is left that may help, nothing nearer is missing.
LEMMA CompleteIsExact ==
    ASSUME SInv, \A c \in DOMAIN index : Complete(c) \/ ~MayHelp(c)
    PROVE  \A r \in Refs(index) : r \in Held \/ DistOf(r) >= Worst
<1> SUFFICES ASSUME NEW r \in Refs(index) PROVE r \in Held \/ DistOf(r) >= Worst
  OBVIOUS
<1>1. /\ r = <<r[1], r[2]>> /\ r[1] \in DOMAIN index /\ r[2] \in DOMAIN index[r[1]]
  BY RefIsPlace
<1>2. CASE Complete(r[1])
  <2>1. r \in settled
    BY <1>1, <1>2 DEF Complete
  <2> QED BY <2>1 DEF SInv, NothingNearerMissed
<1>3. CASE ~MayHelp(r[1])
  <2>1. /\ BoxLB(index, query, r[1]) \in Nat /\ DistOf(r) \in Nat /\ Worst \in Nat
        /\ BoxLB(index, query, r[1]) <= DistOf(r)
    BY <1>1, IndexFacts, SInvListOK DEF SInv, WorstFacts
  <2> QED BY <1>3, <2>1 DEF MayHelp
<1> QED BY <1>1, <1>2, <1>3

\* A repaired search is exact whatever was probed first (repair, "exact: scan
\* every bbox-viable candidate").
THEOREM RepairIsExact == Spec => []ExactWhenRepaired
<1>1. SInv => ExactWhenRepaired
  BY CompleteIsExact DEF SInv, RepairBook, ExactWhenRepaired
<1> QED BY <1>1, SearchInvariant, PTL

\* The worst distance in the list never grows.
THEOREM WorstNeverGrows == Spec => WorstOnlyShrinks
<1>1. SInv /\ [Next]_vars => Worst' <= Worst
  <2> SUFFICES ASSUME SInv, [Next]_vars PROVE Worst' <= Worst
    OBVIOUS
  <2>1. Worst \in Nat
    BY SInvListOK DEF WorstFacts
  <2>2. CASE Lane
    BY <2>2, LaneOffers
  <2>3. CASE UNCHANGED <<top, engine>>
    <3>1. Worst' = Worst
      BY <2>3 DEF Worst, WorstSlot
    <3> QED BY <2>1, <3>1
  <2> QED BY <2>2, <2>3 DEF Next, vars, request, SelectProbes, PruneProbe, ScanProbe,
          ProbesDone, ScanDone, PruneBlock, EnterBlock, Repair, AnswerFast,
          RepairScan, RepairDone, Scan
<1> QED BY <1>1, SearchInvariant, PTL DEF Spec, WorstOnlyShrinks

---------------------------------------------------------------------------
(* The search implements the vote.                                         *)

LEMMA SameSize ==
    ASSUME NEW S, NEW T, NEW f \in [S -> T], IsFiniteSet(S),
           \A a, b \in S : f[a] = f[b] => a = b, \A t \in T : \E s \in S : f[s] = t
    PROVE  IsFiniteSet(T) /\ Cardinality(T) = Cardinality(S)
<1>1. f \in Bijection(S, T)
  BY DEF Bijection, Injection, Surjection, IsInjective
<1>2. ExistsBijection(S, T)
  BY <1>1 DEF ExistsBijection
<1> QED BY <1>2, FS_Bijection

\* The slots that hold a reference, and the references they hold.
Used == {i \in Slots : top[i] # Empty}

LEMMA UsedHold ==
    ASSUME SInv
    PROVE  /\ \A i \in Used : /\ top[i].ref \in Held /\ top[i].ref \in Refs(index)
                              /\ top[i].dist = DistOf(top[i].ref)
                              /\ top[i].label = Label(RefAt(index, top[i].ref))
           /\ \A i \in Slots \ Used : top[i].label = 0 /\ top[i].dist = NoneYet
           /\ \A r \in Held : \E i \in Used : top[i].ref = r
           /\ \A i, j \in Used : top[i].ref = top[j].ref => i = j
           /\ Used \subseteq Slots
<1>1. Nowhere \notin Refs(index)
  BY IndexAssumption DEF SInv, TypeOK
<1>2. \A i \in Used : top[i].ref \in Refs(index) /\ top[i] = Candidate(top[i].ref)
  BY DEF SInv, SlotsHonest, Used
<1>3. \A i \in Used : /\ top[i].dist = DistOf(top[i].ref)
                      /\ top[i].label = Label(RefAt(index, top[i].ref))
  <2>1. \A p : Candidate(p).dist = DistOf(p) /\ Candidate(p).label = Label(RefAt(index, p))
    BY DEF Candidate, DistOf
  <2> QED BY <1>2, <2>1
<1>4. \A i \in Used : top[i].ref \in Held /\ top[i].ref # Nowhere
  BY <1>1, <1>2 DEF Held, Used
<1>5. \A i \in Slots \ Used : top[i].label = 0 /\ top[i].dist = NoneYet /\ top[i].ref = Nowhere
  BY DEF Used, Empty
<1>6. \A r \in Held : \E i \in Used : top[i].ref = r
  BY <1>5 DEF Held, Used
<1>7. \A i, j \in Used : top[i].ref = top[j].ref => i = j
  BY <1>4 DEF SInv, SlotsHonest, Used
<1> QED BY <1>2, <1>3, <1>4, <1>5, <1>6, <1>7 DEF Used

LEMMA SameCardinality == \A S : Vote!Cardinality(S) = Cardinality(S)
    BY DEF Vote!Cardinality, Cardinality

\* The list holds as many references as it has used slots, and as many frauds
\* as it has slots marked as such.
LEMMA HeldCounted ==
    ASSUME SInv
    PROVE  /\ Cardinality(Held) <= Top /\ (Used = Slots => Cardinality(Held) = Top)
           /\ Vote!Frauds(index, Held) = Fraud
<1>1. IsFiniteSet(Slots) /\ Cardinality(Slots) = Top
  BY FS_Interval DEF Slots
<1>2. IsFiniteSet(Used) /\ Cardinality(Used) <= Top
  BY <1>1, UsedHold, FS_Subset
<1>3. Cardinality(Held) = Cardinality(Used)
  <2> DEFINE f == [i \in Used |-> top[i].ref]
  <2>1. f \in [Used -> Held] /\ \A i \in Used : f[i] = top[i].ref
    BY UsedHold
  <2> HIDE DEF f
  <2>2. \A a, b \in Used : f[a] = f[b] => a = b
    BY <2>1, UsedHold
  <2>3. \A t \in Held : \E s \in Used : f[s] = t
    BY <2>1, UsedHold
  <2> QED BY <1>2, <2>1, <2>2, <2>3, SameSize
<1>4. Vote!Frauds(index, Held) = Fraud
  <2> DEFINE S == {i \in Slots : top[i].label = 1}
             T == {r \in Held : Label(RefAt(index, r)) = 1}
             f == [i \in S |-> top[i].ref]
  <2>1. S \subseteq Used
    BY UsedHold
  <2>2. f \in [S -> T] /\ \A i \in S : f[i] = top[i].ref
    BY <2>1, UsedHold
  <2>3. \A t \in T : \E i \in S : top[i].ref = t
    BY UsedHold
  <2>4. IsFiniteSet(S)
    BY <1>1, FS_Subset
  <2>5. Vote!Frauds(index, Held) = Cardinality(T) /\ Fraud = Cardinality(S)
    <3>1. \A p : Vote!RefAt(index, p) = RefAt(index, p)
      BY DEF Vote!RefAt, RefAt
    <3>2. T = {r \in Held : Label(Vote!RefAt(index, r)) = 1}
      BY <3>1
    <3> QED BY <3>2, SameCardinality DEF Vote!Frauds, Fraud
  <2> HIDE DEF S, T, f
  <2>6. \A a, b \in S : f[a] = f[b] => a = b
    BY <2>1, <2>2, UsedHold
  <2>7. \A t \in T : \E s \in S : f[s] = t
    BY <2>2, <2>3
  <2>8. Cardinality(T) = Cardinality(S)
    BY <2>2, <2>4, <2>6, <2>7, SameSize
  <2> QED BY <2>5, <2>8
<1> QED BY <1>1, <1>2, <1>3, <1>4

\* A list nothing nearer is missing from is a nearest set: a free slot would
\* have the largest distance, and every reference is nearer than that.
LEMMA ExactListVotes ==
    ASSUME SInv, \A r \in Refs(index) : r \in Held \/ DistOf(r) >= Worst
    PROVE  Fraud \in Vote!Votes(index, query)
<1>1. Vote!Refs(index) = Refs(index)
  BY DEF Vote!Refs, Refs
<1>2. Held \subseteq Refs(index)
  BY UsedHold
<1>3. WorstFacts
  BY SInvListOK
<1>4. ASSUME Used # Slots PROVE Held = Refs(index)
  <2>1. PICK i \in Slots : i \notin Used
    BY <1>4, UsedHold
  <2>2. NoneYet <= Worst /\ U32Max <= NoneYet /\ NoneYet \in Nat
    BY <1>3, <2>1, UsedHold DEF WorstFacts, NoneYet
  <2>3. \A r \in Refs(index) : DistOf(r) \in Nat /\ DistOf(r) < U32Max
    BY BoundsAssumption DEF SInv, TypeOK, DistOf
  <2>4. \A r \in Refs(index) : ~ (DistOf(r) >= Worst)
    BY <1>3, <2>2, <2>3 DEF WorstFacts
  <2> QED BY <1>2, <2>4
<1>5. ASSUME NEW s \in Held, NEW r \in Refs(index) \ Held PROVE DistOf(s) <= DistOf(r)
  <2>1. PICK i \in Used : top[i].ref = s
    BY UsedHold
  <2>2. i \in Slots /\ top[i].dist = DistOf(s)
    BY <2>1, UsedHold
  <2>3. DistOf(s) <= Worst /\ DistOf(r) >= Worst
    BY <1>3, <1>5, <2>2 DEF WorstFacts
  <2>4. DistOf(s) \in Nat /\ DistOf(r) \in Nat /\ Worst \in Nat
    BY <1>2, <1>3, IndexFacts DEF SInv, WorstFacts
  <2> QED BY <2>3, <2>4
<1>6. Vote!IsNearest(index, query, Held)
  <2>1. Cardinality(Held) <= Top /\ (Cardinality(Held) = Top \/ Held = Refs(index))
    BY <1>4, HeldCounted
  <2>2. \A s \in Held, r \in Vote!Refs(index) \ Held :
           Dist(query, Vote!RefAt(index, s)) <= Dist(query, Vote!RefAt(index, r))
    <3>1. \A p : Vote!RefAt(index, p) = RefAt(index, p)
      BY DEF Vote!RefAt, RefAt
    <3> QED BY <1>1, <1>5, <3>1 DEF DistOf
  <2> QED BY <1>1, <2>1, <2>2, SameCardinality DEF Vote!IsNearest
<1>7. Fraud = Vote!Frauds(index, Held)
  BY HeldCounted
<1> QED BY <1>1, <1>2, <1>6, <1>7 DEF Vote!Votes

\* No answer before the end.
Unanswered == pc # "done" => answer = NoAnswer

LEMMA StepVotes ==
    ASSUME SInv, SInv', Unanswered, [Next]_vars
    PROVE  [Vote!Next]_<<index, query, Band, answer>>
<1>1. UNCHANGED <<index, query>> /\ Band' = Band
  <2>1. UNCHANGED request
    BY DEF Next, vars, request, SelectProbes, PruneProbe, ScanProbe, ProbesDone, ScanDone,
           PruneBlock, EnterBlock, Lane, Repair, AnswerFast, RepairScan, RepairDone
  <2> QED BY <2>1 DEF request, Band
<1>2. CASE AnswerFast
  <2>1. answer = NoAnswer /\ answer' = Fraud /\ Fraud \in 0..Top
    BY <1>2, FraudBounded DEF AnswerFast, Unanswered
  <2>2. Fraud \notin Band
    BY <1>2 DEF AnswerFast, Borderline, Band
  <2> QED BY <1>1, <2>1, <2>2 DEF Vote!Next, Vote!Answer
<1>3. CASE RepairDone
  <2>1. answer = NoAnswer /\ answer' = Fraud /\ Fraud \in 0..Top
    BY <1>3, FraudBounded DEF RepairDone, Unanswered
  <2>2. Fraud \in Vote!Votes(index, query)
    <3>1. \A c \in cands : ~MayHelp(c)
      BY <1>3, NoneMayHelp, SInvListOK DEF RepairDone, SInv, WorstFacts
    <3>2. \A c \in DOMAIN index : Complete(c) \/ ~MayHelp(c)
      BY <1>3, <3>1 DEF RepairDone, SInv, RepairBook, InRepair, Scanning
    <3> QED BY <3>2, CompleteIsExact, ExactListVotes
  <2> QED BY <1>1, <2>1, <2>2 DEF Vote!Next, Vote!Answer
<1>4. CASE UNCHANGED answer
  BY <1>1, <1>4
<1> QED BY <1>2, <1>3, <1>4 DEF Next, vars, SelectProbes, PruneProbe, ScanProbe, ProbesDone,
        ScanDone, PruneBlock, EnterBlock, Lane, Repair, RepairScan

\* For every index, query, engine and setting: an answer in the borderline band
\* is the vote of a nearest set of the whole index (gate and repair).
THEOREM SearchImplementsVote == Spec => ExactVote
<1>1. Init => SInv /\ Unanswered
  BY InitSInv DEF Init, Unanswered
<1>2. SInv /\ Unanswered /\ [Next]_vars => (SInv /\ Unanswered)'
  <2> SUFFICES ASSUME SInv, Unanswered, [Next]_vars PROVE SInv' /\ Unanswered'
    OBVIOUS
  <2>1. Unanswered'
    BY DEF Unanswered, Next, vars, SelectProbes, PruneProbe, ScanProbe, ProbesDone, ScanDone,
           PruneBlock, EnterBlock, Lane, Repair, AnswerFast, RepairScan, RepairDone, Scan
  <2> QED BY <2>1, NextSInv
<1>3. Init => Vote!Init
  BY DEF Init, Vote!Init, Band
<1>4. SInv /\ SInv' /\ Unanswered /\ [Next]_vars => [Vote!Next]_<<index, query, Band, answer>>
  BY StepVotes
<1> QED BY <1>1, <1>2, <1>3, <1>4, PTL DEF Spec, ExactVote, Vote!Spec

HIDE SearchAssumption

---------------------------------------------------------------------------
(* Products and remainders.                                                *)

\* A product grows with its factor.
LEMMA MulMono ==
    ASSUME NEW a \in Nat, NEW b \in Nat, NEW n \in Nat, a <= b
    PROVE  a * n \in Nat /\ b * n \in Nat /\ a * n <= b * n
OBVIOUS

\* A digit and what is above it are told apart.
LEMMA MixedRadix ==
    ASSUME NEW n \in Nat, NEW a \in Nat, NEW b \in Nat,
           NEW i \in 0..(n - 1), NEW j \in 0..(n - 1), a * n + i = b * n + j
    PROVE  a = b /\ i = j
<1>1. ASSUME NEW c \in Nat, NEW e \in Nat, NEW f \in 0..(n - 1), NEW g \in 0..(n - 1), c < e
      PROVE  c * n + f < e * n + g
  <2>1. (c + 1) * n <= e * n
    BY <1>1, MulMono
  <2>2. (c + 1) * n = c * n + n
    OBVIOUS
  <2>3. c * n \in Nat /\ e * n \in Nat
    BY MulMono
  <2> QED BY <2>1, <2>2, <2>3
<1>2. ~ (a < b)
  <2>1. a < b => a * n + i < b * n + j
    BY <1>1
  <2>2. a * n \in Nat /\ b * n \in Nat
    BY MulMono
  <2> QED BY <2>1, <2>2
<1>3. ~ (b < a)
  <2>1. b < a => b * n + j < a * n + i
    BY <1>1
  <2>2. a * n \in Nat /\ b * n \in Nat
    BY MulMono
  <2> QED BY <2>1, <2>2
<1>4. a = b
  BY <1>2, <1>3
<1>5. a * n \in Nat
  BY MulMono
<1> QED BY <1>4, <1>5

\* a * n + i with a below m stays below m * n.
LEMMA RadixBound ==
    ASSUME NEW n \in Nat, NEW m \in Nat, NEW a \in 0..(m - 1), NEW i \in 0..(n - 1)
    PROVE  a * n + i \in Nat /\ a * n + i < m * n
<1>1. (a + 1) * n <= m * n /\ (a + 1) * n = a * n + n /\ a * n \in Nat /\ m * n \in Nat
  <2>1. a \in Nat /\ a + 1 <= m
    OBVIOUS
  <2> QED BY <2>1, MulMono
<1> QED BY <1>1

\* A number is made of its quotient and its remainder.
LEMMA DivMod ==
    ASSUME NEW p \in Nat, NEW n \in Nat \ {0}
    PROVE  p \div n \in Nat /\ p % n \in 0..(n - 1) /\ p = (p \div n) * n + (p % n)
OBVIOUS

\* A count rounded up to blocks has room for every place.
LEMMA BlocksHold ==
    ASSUME NEW m \in Nat
    PROVE  Blocks(m) \in Nat /\ \A p \in 0..(m - 1) : p \div BLOCK \in 0..(Blocks(m) - 1)
<1>1. BLOCK \in Nat \ {0}
  BY FormatAssumption
<1>2. (m + BLOCK - 1) \in Nat
  BY <1>1
<1>3. Blocks(m) \in Nat
  BY <1>1, <1>2, DivMod DEF Blocks
<1>4. ASSUME NEW p \in 0..(m - 1) PROVE p \div BLOCK < Blocks(m)
  <2> DEFINE q == p \div BLOCK
             r == (m + BLOCK - 1) \div BLOCK
  <2>0. p \in Nat
    OBVIOUS
  <2>1. q \in Nat /\ p % BLOCK \in 0..(BLOCK - 1) /\ p = q * BLOCK + (p % BLOCK)
    BY <1>1, <2>0, DivMod
  <2>2. /\ r \in Nat /\ (m + BLOCK - 1) % BLOCK \in 0..(BLOCK - 1)
        /\ m + BLOCK - 1 = r * BLOCK + ((m + BLOCK - 1) % BLOCK)
    BY <1>1, <1>2, DivMod
  <2> HIDE DEF q, r
  <2>3. ASSUME r <= q PROVE FALSE
    <3>1. r * BLOCK <= q * BLOCK /\ r * BLOCK \in Nat /\ q * BLOCK \in Nat
      BY <1>1, <2>1, <2>2, <2>3, MulMono
    <3> QED BY <1>1, <2>1, <2>2, <3>1
  <2> QED BY <2>1, <2>2, <2>3 DEF q, r, Blocks
<1>5. \A p \in 0..(m - 1) : p \div BLOCK \in Nat
  BY <1>1, DivMod
<1> QED BY <1>3, <1>4, <1>5

---------------------------------------------------------------------------
(* What a builder is given, and where it puts the references.              *)

Word8  == {w \in Nat : w < 256}
Word16 == {w \in Int : 0 - 32768 <= w /\ w < 32768}
Word32 == {w \in Nat : w < 65536 * 65536}

\* A build whose numbers fit the fields of the file.
IsBuild(b) ==
    /\ b.k \in Word32 \ {0}
    /\ \E n \in Word32 : /\ b.vecs \in [0..(n - 1) -> [Dims -> Word16]]
                         /\ b.labels \in [0..(n - 1) -> Word8]
    /\ b.cent \in [Clusters(b) -> [Dims -> Word16]]
    /\ \A c \in Clusters(b) : \E n \in Word32 : b.order[c] \in [0..(n - 1) -> DOMAIN b.labels]
    /\ TotalBlocks(b) \in Word32 /\ BLOCK \in Word32 /\ DIMS \in Word32

\* What a field holds is a number.
LEMMA Words ==
    /\ \A w \in Word32 : w \in Nat
    /\ \A w \in Word16 : w \in Int
    /\ \A w \in Word8 : w \in Nat
BY SMT DEF Word32, Word16, Word8

\* A cluster's places are numbered from 0, and hold references.
LEMMA PlacesCounted ==
    ASSUME NEW b, IsBuild(b), NEW c \in Clusters(b)
    PROVE  /\ CountIn(b, c) \in Word32
           /\ Places(b, c) = 0..(CountIn(b, c) - 1)
           /\ \A p \in Places(b, c) : b.order[c][p] \in DOMAIN b.labels
<1>1. PICK n \in Word32 : b.order[c] \in [0..(n - 1) -> DOMAIN b.labels]
  BY DEF IsBuild
<1>2. Places(b, c) = 0..(n - 1)
  BY <1>1 DEF Places
<1>3. n \in Nat
  BY Words
<1>4. Cardinality(0..(n - 1)) = n
  <2>1. Cardinality(0..(n - 1)) = IF 0 > n - 1 THEN 0 ELSE (n - 1) - 0 + 1
    BY <1>3, FS_Interval
  <2> QED BY <1>3, <2>1
<1>5. CountIn(b, c) = n
  BY <1>2, <1>4 DEF CountIn
<1> QED BY <1>1, <1>2, <1>5

\* The blocks of each cluster start where those of the cluster before end.
LEMMA OffsetsAdd ==
    ASSUME NEW b, IsBuild(b)
    PROVE  /\ BlockOffsets(b) \in [0..b.k -> Nat]
           /\ BlockOffsets(b)[0] = 0
           /\ \A c \in Clusters(b) :
                 BlockOffsets(b)[c + 1] = BlockOffsets(b)[c] + Blocks(CountIn(b, c))
<1> DEFINE k == b.k
           Adds(f, n) == /\ f \in [0..n -> Nat] /\ f[0] = 0
                         /\ \A c \in 0..(n - 1) : f[c + 1] = f[c] + Blocks(CountIn(b, c))
           U == {n \in Nat : n > k \/ \E f : Adds(f, n)}
<1>1. k \in Nat \ {0} /\ Clusters(b) = 0..(k - 1)
  BY Words DEF IsBuild, Clusters
<1>2. \A c \in 0..(k - 1) : Blocks(CountIn(b, c)) \in Nat
  <2>1. ASSUME NEW c \in Clusters(b) PROVE Blocks(CountIn(b, c)) \in Nat
    <3>1. CountIn(b, c) \in Nat
      BY PlacesCounted, Words
    <3> QED BY <3>1, BlocksHold
  <2> QED BY <1>1, <2>1
<1> HIDE DEF k
<1>3. 0 \in U
  <2>1. Adds([c \in 0..0 |-> 0], 0)
    OBVIOUS
  <2> QED BY <2>1
<1>4. ASSUME NEW n \in Nat, n \in U PROVE n + 1 \in U
  <2>1. CASE n >= k
    BY <1>1, <2>1
  <2>2. CASE n < k
    <3>1. PICK f : Adds(f, n)
      BY <1>1, <1>4, <2>2
    <3> DEFINE g == [c \in 0..(n + 1) |-> IF c = n + 1 THEN f[n] + Blocks(CountIn(b, n)) ELSE f[c]]
    <3>2. f[n] \in Nat /\ Blocks(CountIn(b, n)) \in Nat
      BY <1>1, <1>2, <2>2, <3>1
    <3>3. g \in [0..(n + 1) -> Nat] /\ g[0] = 0
      BY <3>1, <3>2
    <3>4. ASSUME NEW c \in 0..n PROVE g[c + 1] = g[c] + Blocks(CountIn(b, c))
      <4>1. CASE c = n
        BY <4>1
      <4>2. CASE c # n
        <5>1. c \in 0..(n - 1) /\ c + 1 \in 0..n /\ c + 1 # n + 1
          BY <4>2
        <5>2. g[c + 1] = f[c + 1] /\ g[c] = f[c]
          BY <5>1
        <5> HIDE DEF g
        <5> QED BY <3>1, <5>1, <5>2
      <4> QED BY <4>1, <4>2
    <3>5. Adds(g, n + 1)
      <4>1. (n + 1) - 1 = n
        OBVIOUS
      <4> HIDE DEF g
      <4> QED BY <3>3, <3>4, <4>1
    <3> HIDE DEF Adds
    <3> QED BY <3>5
  <2> QED BY <1>1, <2>1, <2>2
<1> HIDE DEF U
<1>5. k \in U
  BY <1>1, <1>3, <1>4, SetInduction
<1>6. PICK f : Adds(f, k)
  <2> HIDE DEF Adds
  <2> QED BY <1>1, <1>5 DEF U
<1> DEFINE R(h) == h = [c \in 0..k |-> IF c = 0 THEN 0 ELSE h[c - 1] + Blocks(CountIn(b, c - 1))]
<1>7. R(f)
  <2>1. ASSUME NEW c \in 0..k
        PROVE  f[c] = IF c = 0 THEN 0 ELSE f[c - 1] + Blocks(CountIn(b, c - 1))
    <3>1. CASE c = 0
      BY <1>6, <3>1
    <3>2. CASE c # 0
      <4>1. c - 1 \in 0..(k - 1) /\ (c - 1) + 1 = c
        BY <1>1, <3>2
      <4>2. f[(c - 1) + 1] = f[c - 1] + Blocks(CountIn(b, c - 1))
        BY <1>6, <4>1
      <4> QED BY <3>2, <4>1, <4>2
    <3> QED BY <3>1, <3>2
  <2> QED BY <1>6, <2>1
<1> DEFINE off == BlockOffsets(b)
<1>8. off = CHOOSE h : R(h)
  BY DEF BlockOffsets, k
<1>9. R(off)
  BY <1>7, <1>8
<1>10. DOMAIN off = 0..k /\ off[0] = 0
  BY <1>1, <1>9
<1>11. ASSUME NEW c \in 0..(k - 1) PROVE off[c + 1] = off[c] + Blocks(CountIn(b, c))
  <2>1. c + 1 \in 0..k /\ c + 1 # 0 /\ (c + 1) - 1 = c
    BY <1>1
  <2> QED BY <1>9, <2>1
<1> HIDE DEF off
<1> DEFINE V == {n \in Nat : n > k \/ off[n] \in Nat}
<1>12. 0 \in V
  BY <1>10
<1>13. ASSUME NEW n \in Nat, n \in V PROVE n + 1 \in V
  <2>1. CASE n >= k
    BY <1>1, <2>1
  <2>2. CASE n < k
    <3>1. n \in 0..(k - 1)
      BY <1>1, <2>2
    <3>2. off[n] \in Nat
      BY <1>1, <1>13, <2>2
    <3> QED BY <1>2, <1>11, <3>1, <3>2
  <2> QED BY <1>1, <2>1, <2>2
<1> HIDE DEF V
<1>14. Nat \subseteq V
  BY <1>12, <1>13, SetInduction
<1>15. \A c \in 0..k : off[c] \in Nat
  BY <1>1, <1>14 DEF V
<1>16. off = [c \in 0..k |-> off[c]]
  BY <1>9
<1>17. off \in [0..k -> Nat]
  BY <1>15, <1>16
<1> QED BY <1>1, <1>10, <1>11, <1>17 DEF off, k

\* No cluster reaches into the blocks of a later one.
LEMMA OffsetsApart ==
    ASSUME NEW b, IsBuild(b), NEW c \in Clusters(b)
    PROVE  \A e \in 0..b.k : c < e =>
              BlockOffsets(b)[c] + Blocks(CountIn(b, c)) <= BlockOffsets(b)[e]
<1> DEFINE off == BlockOffsets(b)
           k == b.k
           V == {n \in Nat : n > k \/ n <= c \/ off[c + 1] <= off[n]}
<1>1. k \in Nat \ {0} /\ Clusters(b) = 0..(k - 1)
  BY Words DEF IsBuild, Clusters
<1>2. off \in [0..k -> Nat] /\ \A e \in 0..(k - 1) : off[e + 1] = off[e] + Blocks(CountIn(b, e))
  BY <1>1, OffsetsAdd
<1>3. \A e \in 0..(k - 1) : Blocks(CountIn(b, e)) \in Nat
  <2>1. ASSUME NEW e \in Clusters(b) PROVE Blocks(CountIn(b, e)) \in Nat
    <3>1. CountIn(b, e) \in Nat
      BY PlacesCounted, Words
    <3> QED BY <3>1, BlocksHold
  <2> QED BY <1>1, <2>1
<1> HIDE DEF off, k
<1>4. c \in 0..(k - 1)
  BY <1>1
<1>5. 0 \in V
  BY <1>1, <1>4
<1>6. ASSUME NEW n \in Nat, n \in V PROVE n + 1 \in V
  <2>1. CASE n >= k \/ n < c
    BY <1>1, <1>4, <2>1
  <2>2. CASE n < k /\ n = c
    <3>1. c + 1 \in 0..k
      BY <1>1, <1>4
    <3>2. off[c + 1] \in Nat
      BY <1>2, <3>1
    <3> QED BY <1>1, <2>2, <3>2
  <2>3. CASE n < k /\ n > c
    <3>1. n \in 0..(k - 1) /\ n \in 0..k /\ c + 1 \in 0..k
      BY <1>1, <1>4, <2>3
    <3>2. off[n + 1] = off[n] + Blocks(CountIn(b, n)) /\ off[n] \in Nat /\ off[c + 1] \in Nat
          /\ Blocks(CountIn(b, n)) \in Nat
      BY <1>2, <1>3, <3>1
    <3>3. off[c + 1] <= off[n]
      BY <1>1, <1>4, <1>6, <2>3
    <3> QED BY <3>2, <3>3
  <2> QED BY <1>1, <1>4, <2>1, <2>2, <2>3
<1> HIDE DEF V
<1>7. Nat \subseteq V
  BY <1>5, <1>6, SetInduction
<1>8. ASSUME NEW e \in 0..k, c < e PROVE off[c + 1] <= off[e]
  BY <1>1, <1>4, <1>7, <1>8 DEF V
<1> QED BY <1>2, <1>4, <1>8 DEF off, k

---------------------------------------------------------------------------
(* Bytes.                                                                  *)

\* Two bytes make up the number they were cut from, negative ones included.
LEMMA Bytes16 ==
    ASSUME NEW v \in Word16
    PROVE  Signed16(Byte(v, 0) + 256 * Byte(v, 1)) = v
<1>1. Byte(v, 0) = v % 256 /\ Byte(v, 1) = (v \div 256) % 256
  BY Words DEF Byte, Weight
<1>2. v \in Int /\ v >= 0 - 32768 /\ v < 32768
  BY DEF Word16
<1>3. v >= 0 => (v % 256) + 256 * ((v \div 256) % 256) = v
  BY <1>2
<1>4. v < 0 => (v % 256) + 256 * ((v \div 256) % 256) = v + 65536
  BY <1>2
<1> QED BY <1>1, <1>2, <1>3, <1>4 DEF Signed16

\* Four bytes make up the number they were cut from.
LEMMA Bytes32 ==
    ASSUME NEW v \in Word32
    PROVE  Byte(v, 0) + 256 * Byte(v, 1) + 65536 * (Byte(v, 2) + 256 * Byte(v, 3)) = v
<1>1. /\ Byte(v, 0) = v % 256 /\ Byte(v, 1) = (v \div 256) % 256
      /\ Byte(v, 2) = (v \div 65536) % 256 /\ Byte(v, 3) = (v \div (65536 * 256)) % 256
  BY Words DEF Byte, Weight
<1>2. v \in Int /\ v >= 0 /\ v < 65536 * 65536
  BY DEF Word32
<1>3. (v % 256) + 256 * ((v \div 256) % 256) = v % 65536
  BY <1>2
<1> DEFINE u == v \div 65536
<1>4. u \in Nat /\ u < 65536 /\ v = u * 65536 + (v % 65536)
  BY <1>2
<1>5. v \div (65536 * 256) = u \div 256
  <2> DEFINE q == u \div 256
             r == v - q * (65536 * 256)
  <2>1. q \in Int /\ u >= q * 256 /\ u < q * 256 + 256
    BY <1>4
  <2>2. v >= u * 65536 /\ v < u * 65536 + 65536
    BY <1>2
  <2> HIDE DEF u, q
  <2>3. r >= 0 /\ r < 65536 * 256 /\ r \in Int /\ v = q * (65536 * 256) + r
    BY <1>2, <1>4, <2>1, <2>2
  <2> HIDE DEF r
  <2>4. v \div (65536 * 256) = q
    BY <1>2, <2>1, <2>3
  <2> QED BY <2>4 DEF q
<1> HIDE DEF u
<1>6. (u % 256) + 256 * ((u \div 256) % 256) = u
  BY <1>4
<1>7. Byte(v, 2) = u % 256 /\ Byte(v, 3) = (u \div 256) % 256
  BY <1>1, <1>5 DEF u
<1> DEFINE p == v % 65536
<1>8. Byte(v, 0) + 256 * Byte(v, 1) = p
  BY <1>1, <1>3
<1>9. Byte(v, 2) + 256 * Byte(v, 3) = u
  BY <1>6, <1>7
<1>10. p \in Int
  BY <1>2
<1> HIDE DEF p
<1> QED BY <1>4, <1>8, <1>9, <1>10 DEF p

---------------------------------------------------------------------------
(* Every number of the file has its own bytes.                             *)

\* The constants of the format are what the proofs take them for.
LEMMA DimsNat == DIMS \in Nat \ {0} /\ Dims = 0..(DIMS - 1) /\ BLOCK \in Nat \ {0}
                 /\ HEADER \in Nat /\ HEADER >= 32
BY FormatAssumption DEF DIMS, Dims

\* Rounding up does not go down.
LEMMA AlignedUp ==
    ASSUME NEW v \in Nat, NEW a \in Nat \ {0}
    PROVE  AlignUp(v, a) \in Nat /\ v <= AlignUp(v, a)
<1> DEFINE m == v + a - 1
           q == m \div a
<1>1. m \in Nat
  OBVIOUS
<1>2. q \in Nat /\ m % a \in 0..(a - 1) /\ m = q * a + (m % a)
  BY <1>1, DivMod
<1>3. AlignUp(v, a) = q * a
  BY DEF AlignUp
<1>4. q * a \in Nat
  BY <1>2
<1> HIDE DEF q
<1> QED BY <1>2, <1>3, <1>4

\* The sections of the file, one after the other.
InOrder(l, k, tb) ==
    /\ l.centroids = HEADER /\ l.centroids \in Nat
    /\ l.bbox_min = l.centroids + k * DIMS * 2 /\ l.bbox_min \in Nat
    /\ l.bbox_max = l.bbox_min + k * DIMS * 2 /\ l.bbox_max \in Nat
    /\ l.bbox_max + k * DIMS * 2 <= l.offsets /\ l.offsets \in Nat
    /\ l.counts = l.offsets + (k + 1) * 4 /\ l.counts \in Nat
    /\ l.labels = l.counts + k * 4 /\ l.labels \in Nat
    /\ l.labels + tb * BLOCK <= l.blocks /\ l.blocks \in Nat
    /\ l.total = l.blocks + tb * DIMS * BLOCK * 2 /\ l.total \in Nat
    /\ k * DIMS * 2 \in Nat /\ tb * BLOCK \in Nat /\ tb * DIMS * BLOCK * 2 \in Nat

\* The layout has its sections in that order.
LEMMA LayoutOrder ==
    ASSUME NEW k \in Nat, NEW tb \in Nat
    PROVE  InOrder(LayoutFor(k, tb), k, tb)
<1> DEFINE s == k * DIMS * 2
           t == tb * BLOCK
           u == tb * DIMS * BLOCK * 2
           bmin == HEADER + s
           bmax == bmin + s
           offsets == AlignUp(bmax + s, 4)
           counts == offsets + (k + 1) * 4
           labels == counts + k * 4
           blocks == AlignUp(labels + t, 2)
<1>1. s \in Nat /\ t \in Nat /\ u \in Nat
  <2>1. k * DIMS \in Nat /\ tb * DIMS \in Nat /\ tb * BLOCK \in Nat
    BY DimsNat
  <2>2. (tb * DIMS) * BLOCK \in Nat
    BY <2>1, DimsNat, MulMono
  <2> QED BY <2>1, <2>2
<1>2. LayoutFor(k, tb) = [centroids |-> HEADER, bbox_min |-> bmin, bbox_max |-> bmax,
           offsets |-> offsets, counts |-> counts, labels |-> labels, blocks |-> blocks,
           total |-> blocks + u]
  BY DEF LayoutFor
<1> HIDE DEF s, t, u
<1>3. bmin \in Nat /\ bmax \in Nat /\ bmax + s \in Nat
  BY <1>1, DimsNat
<1>4. offsets \in Nat /\ bmax + s <= offsets
  <2> HIDE DEF bmax
  <2> QED BY <1>1, <1>3, AlignedUp
<1>5. counts \in Nat /\ labels \in Nat /\ labels + t \in Nat
  <2> HIDE DEF offsets
  <2> QED BY <1>1, <1>4
<1>6. blocks \in Nat /\ labels + t <= blocks
  <2> HIDE DEF labels
  <2> QED BY <1>5, AlignedUp
<1> HIDE DEF blocks, offsets
<1> QED BY <1>1, <1>2, <1>3, <1>4, <1>5, <1>6, DimsNat DEF s, t, u, InOrder

\* A table of 16-bit numbers, a row of coordinates to a cluster.
LEMMA CellsApart ==
    ASSUME NEW base \in Nat, NEW k \in Nat,
           NEW c \in 0..(k - 1), NEW d \in Dims
    PROVE  LET place == base + (c * DIMS + d) * 2
           IN /\ place \in Nat /\ base <= place /\ place + 2 <= base + k * DIMS * 2
              /\ \A e \in 0..(k - 1), g \in Dims, a \in Nat :
                    /\ place <= a /\ a < place + 2
                    /\ base + (e * DIMS + g) * 2 <= a /\ a < base + (e * DIMS + g) * 2 + 2
                    => c = e /\ d = g
<1>1. DIMS \in Nat /\ Dims = 0..(DIMS - 1)
  BY DimsNat
<1>2. ASSUME NEW e \in 0..(k - 1), NEW g \in Dims
      PROVE  e * DIMS + g \in Nat /\ e * DIMS + g < k * DIMS /\ k * DIMS \in Nat
  BY <1>1, RadixBound
<1>3. ASSUME NEW e \in 0..(k - 1), NEW g \in Dims, c * DIMS + d = e * DIMS + g
      PROVE  c = e /\ d = g
  BY <1>1, <1>3, MixedRadix
<1> DEFINE n == c * DIMS + d
           m == k * DIMS
<1>4. n \in Nat /\ n < m /\ m \in Nat
  BY <1>2
<1> HIDE DEF m
<1>5. ASSUME NEW e \in 0..(k - 1), NEW g \in Dims, NEW a \in Nat,
             base + n * 2 <= a, a < base + n * 2 + 2,
             base + (e * DIMS + g) * 2 <= a, a < base + (e * DIMS + g) * 2 + 2
      PROVE  c = e /\ d = g
  <2> DEFINE o == e * DIMS + g
  <2>1. o \in Nat
    BY <1>2
  <2> HIDE DEF n, o
  <2>2. n = o
    BY <1>4, <1>5, <2>1 DEF o
  <2> QED BY <1>3, <2>2 DEF n, o
<1>6. base + n * 2 \in Nat /\ base <= base + n * 2 /\ base + n * 2 + 2 <= base + m * 2
  <2> HIDE DEF n
  <2> QED BY <1>4
<1> HIDE DEF n
<1> QED BY <1>5, <1>6 DEF n, m

\* A place of a cluster has a block and a lane to itself.
LEMMA PlaceBlock ==
    ASSUME NEW b, IsBuild(b), NEW c \in Clusters(b), NEW p \in Places(b, c)
    PROVE  /\ BlockOf(b, c, p) \in 0..(TotalBlocks(b) - 1) /\ LaneOf(p) \in 0..(BLOCK - 1)
           /\ \A e \in Clusters(b) : \A q \in Places(b, e) :
                 BlockOf(b, c, p) = BlockOf(b, e, q) /\ LaneOf(p) = LaneOf(q) => c = e /\ p = q
<1> DEFINE off == BlockOffsets(b)
           k == b.k
           size(e) == Blocks(CountIn(b, e))
<1>1. k \in Nat \ {0} /\ Clusters(b) = 0..(k - 1)
  BY Words DEF IsBuild, Clusters
<1>2. BLOCK \in Nat \ {0}
  BY DimsNat
<1>3. ASSUME NEW e \in Clusters(b), NEW q \in Places(b, e)
      PROVE  /\ q \in Nat /\ off[e] \in Nat /\ size(e) \in Nat /\ q \div BLOCK \in 0..(size(e) - 1)
             /\ LaneOf(q) \in 0..(BLOCK - 1) /\ q = (q \div BLOCK) * BLOCK + LaneOf(q)
             /\ BlockOf(b, e, q) = off[e] + q \div BLOCK
             /\ \A f \in 0..k : e < f => off[e] + size(e) <= off[f]
  <2>1. CountIn(b, e) \in Nat /\ Places(b, e) = 0..(CountIn(b, e) - 1)
    BY PlacesCounted, Words
  <2>2. q \in 0..(CountIn(b, e) - 1) /\ q \in Nat
    BY <2>1
  <2>3. size(e) \in Nat /\ q \div BLOCK \in 0..(size(e) - 1)
    BY <2>1, <2>2, BlocksHold
  <2>4. LaneOf(q) \in 0..(BLOCK - 1) /\ q = (q \div BLOCK) * BLOCK + LaneOf(q)
    BY <1>2, <2>2, DivMod DEF LaneOf
  <2>5. off[e] \in Nat
    BY <1>1, OffsetsAdd
  <2>6. \A f \in 0..k : e < f => off[e] + size(e) <= off[f]
    BY OffsetsApart
  <2> QED BY <2>2, <2>3, <2>4, <2>5, <2>6 DEF BlockOf
<1>4. \A f \in 0..k : off[f] \in Nat
  BY OffsetsAdd
<1>5. off[k] = TotalBlocks(b)
  BY DEF TotalBlocks
<1> HIDE DEF off, size, k
<1>6. BlockOf(b, c, p) \in 0..(TotalBlocks(b) - 1)
  <2>1. c < k /\ k \in 0..k
    BY <1>1
  <2>2. off[c] + size(c) <= off[k] /\ off[k] \in Nat
    BY <1>3, <1>4, <2>1
  <2> DEFINE x == p \div BLOCK
  <2>3. BlockOf(b, c, p) = off[c] + x /\ x \in 0..(size(c) - 1) /\ off[c] \in Nat /\ size(c) \in Nat
    BY <1>3
  <2> HIDE DEF x
  <2> QED BY <1>5, <2>2, <2>3
<1>7. ASSUME NEW e \in Clusters(b), NEW q \in Places(b, e), BlockOf(b, c, p) = BlockOf(b, e, q),
             LaneOf(p) = LaneOf(q)
      PROVE  c = e /\ p = q
  <2> DEFINE x == p \div BLOCK
             y == q \div BLOCK
  <2>1. /\ BlockOf(b, c, p) = off[c] + x /\ x \in 0..(size(c) - 1) /\ off[c] \in Nat /\ size(c) \in Nat
        /\ p = x * BLOCK + LaneOf(p)
        /\ \A f \in 0..k : c < f => off[c] + size(c) <= off[f]
    BY <1>3
  <2>2. /\ BlockOf(b, e, q) = off[e] + y /\ y \in 0..(size(e) - 1) /\ off[e] \in Nat /\ size(e) \in Nat
        /\ q = y * BLOCK + LaneOf(q)
        /\ \A f \in 0..k : e < f => off[e] + size(e) <= off[f]
    BY <1>3
  <2> HIDE DEF x, y
  <2>3. c \in 0..k /\ e \in 0..k /\ c \in Int /\ e \in Int
    BY <1>1
  <2>4. x \in Nat /\ x < size(c) /\ y \in Nat /\ y < size(e) /\ off[c] + x = off[e] + y
    <3>1. x \in Nat /\ x < size(c)
      BY <2>1
    <3>2. y \in Nat /\ y < size(e)
      BY <2>2
    <3>3. BlockOf(b, c, p) = off[c] + x /\ BlockOf(b, e, q) = off[e] + y
      BY <2>1, <2>2
    <3> QED BY <1>7, <3>1, <3>2, <3>3
  <2>5. ~ (c < e)
    <3>1. c < e => off[c] + size(c) <= off[e]
      BY <2>1, <2>3
    <3> QED BY <2>1, <2>2, <2>4, <3>1
  <2>6. ~ (e < c)
    <3>1. e < c => off[e] + size(e) <= off[c]
      BY <2>2, <2>3
    <3> QED BY <2>1, <2>2, <2>4, <3>1
  <2>7. c = e
    BY <2>3, <2>5, <2>6
  <2>8. x = y
    BY <2>1, <2>7, <2>4
  <2> QED BY <1>7, <2>1, <2>2, <2>7, <2>8
<1>8. LaneOf(p) \in 0..(BLOCK - 1)
  BY <1>3
<1> QED BY <1>6, <1>7, <1>8

\* The two coordinates of a pair next to each other, lane after lane.
LEMMA PairOffset ==
    ASSUME NEW d \in Dims, NEW lane \in 0..(BLOCK - 1)
    PROVE  /\ BlockPairOffset(d, lane) \in 0..(DIMS * BLOCK - 1)
           /\ \A g \in Dims, m \in 0..(BLOCK - 1) :
                 BlockPairOffset(d, lane) = BlockPairOffset(g, m) => d = g /\ lane = m
<1> DEFINE n == BLOCK * 2
           low(x, y) == y * 2 + (x % 2)
<1>1. BLOCK \in Nat \ {0} /\ PAIRS \in Nat \ {0} /\ DIMS = 2 * PAIRS /\ n \in Nat
  BY FormatAssumption DEF DIMS
<1>2. ASSUME NEW g \in Dims, NEW m \in 0..(BLOCK - 1)
      PROVE  /\ g \div 2 \in 0..(PAIRS - 1) /\ low(g, m) \in 0..(n - 1)
             /\ BlockPairOffset(g, m) = (g \div 2) * n + low(g, m)
             /\ g = (g \div 2) * 2 + (g % 2) /\ g % 2 \in {0, 1} /\ g \in Nat /\ m \in Nat
  <2>1. g \in Nat /\ g < 2 * PAIRS
    BY <1>1 DEF Dims
  <2>2. g \div 2 \in 0..(PAIRS - 1) /\ g = (g \div 2) * 2 + (g % 2) /\ g % 2 \in {0, 1}
    BY <1>1, <2>1
  <2> DEFINE x == g \div 2
             y == g % 2
  <2>3. BlockPairOffset(g, m) = x * BLOCK * 2 + m * 2 + y
    BY DEF BlockPairOffset
  <2> HIDE DEF x, y
  <2>4. x \in Nat /\ y \in {0, 1}
    BY <1>1, <2>2 DEF x, y
  <2>5. x * BLOCK * 2 = x * (BLOCK * 2) /\ x * (BLOCK * 2) \in Nat
    BY <1>1, <2>4
  <2>6. low(g, m) = m * 2 + y
    BY DEF y
  <2>7. BlockPairOffset(g, m) = x * n + low(g, m)
    BY <1>1, <2>3, <2>4, <2>5, <2>6
  <2>8. low(g, m) \in 0..(n - 1)
    BY <1>1, <2>4, <2>6
  <2> QED BY <2>1, <2>2, <2>7, <2>8 DEF x
<1>3. BlockPairOffset(d, lane) \in Nat /\ BlockPairOffset(d, lane) < PAIRS * n
  <2> DEFINE x == d \div 2
  <2>1. /\ x \in 0..(PAIRS - 1) /\ low(d, lane) \in 0..(n - 1)
        /\ BlockPairOffset(d, lane) = x * n + low(d, lane)
    BY <1>2
  <2>2. PAIRS \in Nat
    BY <1>1
  <2> HIDE DEF x, low, n
  <2> QED BY <1>1, <2>1, <2>2, RadixBound
<1>4. PAIRS * n = DIMS * BLOCK /\ DIMS * BLOCK \in Nat
  BY <1>1
<1>5. ASSUME NEW g \in Dims, NEW m \in 0..(BLOCK - 1),
             BlockPairOffset(d, lane) = BlockPairOffset(g, m)
      PROVE  d = g /\ lane = m
  <2> DEFINE x == d \div 2
             y == g \div 2
  <2>1. x \in Nat /\ low(d, lane) \in 0..(n - 1) /\ BlockPairOffset(d, lane) = x * n + low(d, lane)
    BY <1>1, <1>2
  <2>2. y \in Nat /\ low(g, m) \in 0..(n - 1) /\ BlockPairOffset(g, m) = y * n + low(g, m)
    BY <1>1, <1>2
  <2> HIDE DEF x, y, n, low
  <2>3. x = y /\ low(d, lane) = low(g, m)
    BY <1>1, <1>5, <2>1, <2>2, MixedRadix
  <2>4. d = x * 2 + (d % 2) /\ g = y * 2 + (g % 2) /\ d % 2 \in {0, 1} /\ g % 2 \in {0, 1}
    BY <1>2 DEF x, y
  <2>5. lane * 2 + (d % 2) = m * 2 + (g % 2)
    BY <2>3 DEF low
  <2>6. d % 2 = g % 2 /\ lane = m
    BY <2>4, <2>5
  <2> QED BY <2>3, <2>4, <2>6
<1> QED BY <1>3, <1>4, <1>5

\* No two references have the byte of their label in common.
LEMMA LabelsApart ==
    ASSUME NEW b, IsBuild(b), NEW base \in Nat, NEW c \in Clusters(b), NEW p \in Places(b, c)
    PROVE  LET place == base + BlockOf(b, c, p) * BLOCK + LaneOf(p)
           IN /\ place \in Nat /\ base <= place /\ place + 1 <= base + TotalBlocks(b) * BLOCK
              /\ \A e \in Clusters(b) : \A q \in Places(b, e) :
                    place = base + BlockOf(b, e, q) * BLOCK + LaneOf(q) => c = e /\ p = q
<1> DEFINE tb == TotalBlocks(b)
           blk(e, q) == BlockOf(b, e, q)
<1>1. BLOCK \in Nat \ {0} /\ tb \in Nat
  BY DimsNat, Words DEF IsBuild
<1>2. ASSUME NEW e \in Clusters(b), NEW q \in Places(b, e)
      PROVE  blk(e, q) \in 0..(tb - 1) /\ blk(e, q) \in Nat /\ LaneOf(q) \in 0..(BLOCK - 1)
             /\ blk(e, q) * BLOCK + LaneOf(q) \in Nat /\ blk(e, q) * BLOCK \in Nat
             /\ blk(e, q) * BLOCK + LaneOf(q) < tb * BLOCK /\ tb * BLOCK \in Nat
  <2>1. blk(e, q) \in 0..(tb - 1) /\ LaneOf(q) \in 0..(BLOCK - 1)
    BY PlaceBlock
  <2> HIDE DEF blk, tb
  <2>2. blk(e, q) \in Nat
    BY <1>1, <2>1
  <2> QED BY <1>1, <2>1, <2>2, RadixBound, MulMono
<1>3. ASSUME NEW e \in Clusters(b), NEW q \in Places(b, e),
             blk(c, p) * BLOCK + LaneOf(p) = blk(e, q) * BLOCK + LaneOf(q)
      PROVE  c = e /\ p = q
  <2>1. blk(c, p) = blk(e, q) /\ LaneOf(p) = LaneOf(q)
    <3>1. blk(c, p) \in Nat /\ blk(e, q) \in Nat
      BY <1>2
    <3>2. LaneOf(p) \in 0..(BLOCK - 1) /\ LaneOf(q) \in 0..(BLOCK - 1) /\ BLOCK \in Nat
      BY <1>1, <1>2
    <3>3. blk(c, p) * BLOCK + LaneOf(p) = blk(e, q) * BLOCK + LaneOf(q)
      BY <1>3
    <3> HIDE DEF blk
    <3> QED BY <3>1, <3>2, <3>3, MixedRadix
  <2> QED BY <2>1, PlaceBlock
<1> DEFINE n(e, q) == blk(e, q) * BLOCK
<1>4. ASSUME NEW e \in Clusters(b), NEW q \in Places(b, e)
      PROVE  n(e, q) \in Nat /\ LaneOf(q) \in Nat /\ n(e, q) + LaneOf(q) < tb * BLOCK
  <2>1. LaneOf(q) \in 0..(BLOCK - 1)
    BY <1>2
  <2> QED BY <1>1, <1>2, <2>1
<1>5. tb * BLOCK \in Nat
  BY <1>1
<1> HIDE DEF blk, n, tb
<1>6. ASSUME NEW e \in Clusters(b), NEW q \in Places(b, e),
             base + n(c, p) + LaneOf(p) = base + n(e, q) + LaneOf(q)
      PROVE  c = e /\ p = q
  <2>1. n(c, p) + LaneOf(p) = n(e, q) + LaneOf(q)
    BY <1>4, <1>6
  <2> QED BY <1>3, <2>1 DEF n
<1>7. /\ base + n(c, p) + LaneOf(p) \in Nat /\ base <= base + n(c, p) + LaneOf(p)
      /\ base + n(c, p) + LaneOf(p) + 1 <= base + tb * BLOCK
  BY <1>4, <1>5
<1> QED BY <1>6, <1>7 DEF n, blk, tb

\* No two coordinates have a byte in common.
LEMMA ValuesApart ==
    ASSUME NEW b, IsBuild(b), NEW l, l.blocks \in Nat,
           NEW c \in Clusters(b), NEW p \in Places(b, c), NEW d \in Dims
    PROVE  LET place == ValueAt(b, l, c, p, d)
           IN /\ place \in Nat /\ l.blocks <= place
              /\ place + 2 <= l.blocks + TotalBlocks(b) * DIMS * BLOCK * 2
              /\ \A e \in Clusters(b) : \A q \in Places(b, e) : \A g \in Dims : \A a \in Nat :
                    /\ place <= a /\ a < place + 2
                    /\ ValueAt(b, l, e, q, g) <= a /\ a < ValueAt(b, l, e, q, g) + 2
                    => c = e /\ p = q /\ d = g
<1> DEFINE tb == TotalBlocks(b)
           s == DIMS * BLOCK
           i(q, g) == BlockPairOffset(g, LaneOf(q))
           n(e, q, g) == BlockOf(b, e, q) * s + i(q, g)
<1>1. DIMS \in Nat /\ BLOCK \in Nat /\ s \in Nat /\ tb \in Nat
  <2>1. DIMS \in Nat /\ BLOCK \in Nat
    BY DimsNat
  <2>2. tb \in Nat
    BY Words DEF IsBuild
  <2> QED BY <2>1, <2>2
<1>2. tb * DIMS * BLOCK = tb * s /\ tb * s \in Nat
  <2> HIDE DEF tb
  <2> QED BY <1>1
<1>3. ASSUME NEW e \in Clusters(b), NEW q \in Places(b, e), NEW g \in Dims
      PROVE  /\ BlockOf(b, e, q) \in 0..(tb - 1) /\ BlockOf(b, e, q) \in Nat
             /\ i(q, g) \in 0..(s - 1)
             /\ ValueAt(b, l, e, q, g) = l.blocks + n(e, q, g) * 2
             /\ n(e, q, g) \in Nat /\ n(e, q, g) < tb * s
  <2>1. BlockOf(b, e, q) \in 0..(tb - 1) /\ LaneOf(q) \in 0..(BLOCK - 1)
    BY PlaceBlock
  <2>2. i(q, g) \in 0..(s - 1)
    BY <2>1, PairOffset
  <2>3. ValueAt(b, l, e, q, g) = l.blocks + (BlockOf(b, e, q) * DIMS * BLOCK + i(q, g)) * 2
    BY DEF ValueAt
  <2> DEFINE x == BlockOf(b, e, q)
             y == i(q, g)
  <2> HIDE DEF x, y, tb
  <2>4. x \in Nat /\ x \in 0..(tb - 1) /\ y \in 0..(s - 1)
    BY <1>1, <2>1, <2>2 DEF x, y
  <2>5. x * DIMS * BLOCK = x * s
    BY <1>1, <2>4
  <2> HIDE DEF s
  <2>6. x * s + y \in Nat /\ x * s + y < tb * s
    BY <1>1, <2>4, RadixBound
  <2> QED BY <2>3, <2>4, <2>5, <2>6 DEF x, y
<1>4. ASSUME NEW e \in Clusters(b), NEW q \in Places(b, e), NEW g \in Dims,
             n(c, p, d) = n(e, q, g)
      PROVE  c = e /\ p = q /\ d = g
  <2> DEFINE x == BlockOf(b, c, p)
             y == BlockOf(b, e, q)
             v == i(p, d)
             w == i(q, g)
  <2>1. x \in Nat /\ y \in Nat /\ v \in 0..(s - 1) /\ w \in 0..(s - 1) /\ x * s + v = y * s + w
    BY <1>3, <1>4
  <2> HIDE DEF x, y, v, w, s
  <2>2. x = y /\ v = w
    BY <1>1, <2>1, MixedRadix
  <2>3. LaneOf(p) \in 0..(BLOCK - 1) /\ LaneOf(q) \in 0..(BLOCK - 1)
    BY PlaceBlock
  <2>4. d = g /\ LaneOf(p) = LaneOf(q)
    BY <2>2, <2>3, PairOffset DEF v, w
  <2> QED BY <2>2, <2>4, PlaceBlock DEF x, y
<1> HIDE DEF n, s, tb
<1> DEFINE place == ValueAt(b, l, c, p, d)
<1>5. place = l.blocks + n(c, p, d) * 2 /\ n(c, p, d) \in Nat /\ n(c, p, d) < tb * s
  BY <1>3
<1>6. place \in Nat /\ l.blocks <= place /\ place + 2 <= l.blocks + tb * s * 2
  <2> HIDE DEF place
  <2> QED BY <1>2, <1>5
<1>7. tb * DIMS * BLOCK * 2 = tb * s * 2
  BY <1>2
<1>8. ASSUME NEW e \in Clusters(b), NEW q \in Places(b, e), NEW g \in Dims, NEW a \in Nat,
             place <= a, a < place + 2, ValueAt(b, l, e, q, g) <= a, a < ValueAt(b, l, e, q, g) + 2
      PROVE  c = e /\ p = q /\ d = g
  <2>1. ValueAt(b, l, e, q, g) = l.blocks + n(e, q, g) * 2 /\ n(e, q, g) \in Nat
    BY <1>3
  <2> DEFINE x == n(c, p, d)
             y == n(e, q, g)
  <2>2. x = y
    <3>1. l.blocks + x * 2 <= a /\ a < l.blocks + x * 2 + 2
      BY <1>5, <1>8
    <3>2. l.blocks + y * 2 <= a /\ a < l.blocks + y * 2 + 2
      BY <1>8, <2>1
    <3>3. x \in Nat /\ y \in Nat
      BY <1>5, <2>1
    <3> HIDE DEF x, y
    <3> QED BY <3>1, <3>2, <3>3
  <2> QED BY <1>4, <2>2
<1> QED BY <1>6, <1>7, <1>8 DEF tb

---------------------------------------------------------------------------
(* The puts of a section stay in it, and no two of them meet.              *)

Own(F, lo, hi) ==
    /\ \A w \in F : w.addr \in Nat /\ w.width \in Nat /\ lo <= w.addr /\ w.addr + w.width <= hi
    /\ \A w, v \in F, a \in Nat : Covers(w, a) /\ Covers(v, a) => w = v

\* Two stretches next to each other make one.
LEMMA OwnUnion ==
    ASSUME NEW F, NEW G, NEW m \in Nat, NEW n \in Nat, NEW hi \in Nat,
           Own(F, 0, m), Own(G, n, hi), m <= n, n <= hi
    PROVE  Own(F \cup G, 0, hi)
<1>1. ASSUME NEW w \in F \cup G
      PROVE  w.addr \in Nat /\ w.width \in Nat /\ 0 <= w.addr /\ w.addr + w.width <= hi
  BY <1>1 DEF Own
<1>2. ASSUME NEW w \in F, NEW v \in G, NEW a \in Nat, Covers(w, a), Covers(v, a)
      PROVE  FALSE
  BY <1>2 DEF Own, Covers
<1>3. ASSUME NEW w \in F \cup G, NEW v \in F \cup G, NEW a \in Nat, Covers(w, a), Covers(v, a)
      PROVE  w = v
  <2>1. CASE w \in F /\ v \in F
    BY <1>3, <2>1 DEF Own
  <2>2. CASE w \in G /\ v \in G
    BY <1>3, <2>2 DEF Own
  <2>3. CASE w \in F /\ v \in G
    BY <1>2, <1>3, <2>3
  <2>4. CASE w \in G /\ v \in F
    BY <1>2, <1>3, <2>4
  <2> QED BY <2>1, <2>2, <2>3, <2>4
<1> QED BY <1>1, <1>3 DEF Own

CellPuts(base, k, val) == {Put(base + (c * DIMS + d) * 2, 2, val[c][d]) : c \in 0..(k - 1), d \in Dims}

\* A table of coordinates keeps to its section.
LEMMA CellsOwn ==
    ASSUME NEW base \in Nat, NEW k \in Nat, NEW val
    PROVE  Own(CellPuts(base, k, val), base, base + k * DIMS * 2)
<1> DEFINE F == CellPuts(base, k, val)
           place(c, d) == base + (c * DIMS + d) * 2
<1>1. ASSUME NEW w \in F
      PROVE  \E c \in 0..(k - 1), d \in Dims :
                w.addr = place(c, d) /\ w.width = 2 /\ w = Put(place(c, d), 2, val[c][d])
  BY DEF CellPuts, Put
<1>2. ASSUME NEW w \in F
      PROVE  w.addr \in Nat /\ w.width \in Nat /\ base <= w.addr /\ w.addr + w.width <= base + k * DIMS * 2
  <2>1. PICK c \in 0..(k - 1), d \in Dims : w.addr = place(c, d) /\ w.width = 2
    BY <1>1
  <2>2. place(c, d) \in Nat /\ base <= place(c, d) /\ place(c, d) + 2 <= base + k * DIMS * 2
    BY CellsApart
  <2> HIDE DEF place, F
  <2> QED BY <2>1, <2>2
<1>3. ASSUME NEW w \in F, NEW v \in F, NEW a \in Nat, Covers(w, a), Covers(v, a)
      PROVE  w = v
  <2>1. PICK c \in 0..(k - 1), d \in Dims :
            w.addr = place(c, d) /\ w.width = 2 /\ w = Put(place(c, d), 2, val[c][d])
    BY <1>1
  <2>2. PICK e \in 0..(k - 1), g \in Dims :
            v.addr = place(e, g) /\ v.width = 2 /\ v = Put(place(e, g), 2, val[e][g])
    BY <1>1
  <2>3. place(c, d) <= a /\ a < place(c, d) + 2 /\ place(e, g) <= a /\ a < place(e, g) + 2
    BY <1>3, <2>1, <2>2 DEF Covers
  <2>4. c = e /\ d = g
    BY <2>3, CellsApart
  <2> QED BY <2>1, <2>2, <2>4
<1> QED BY <1>2, <1>3 DEF Own

EntryPuts(base, n, val) == {Put(base + c * 4, 4, val[c]) : c \in 0..(n - 1)}

\* So does a table of counts or of starts.
LEMMA EntriesOwn ==
    ASSUME NEW base \in Nat, NEW n \in Nat, NEW val
    PROVE  Own(EntryPuts(base, n, val), base, base + n * 4)
<1> DEFINE F == EntryPuts(base, n, val)
<1>1. ASSUME NEW w \in F
      PROVE  \E c \in 0..(n - 1) : w.addr = base + c * 4 /\ w.width = 4 /\ w = Put(base + c * 4, 4, val[c])
  BY DEF EntryPuts, Put
<1> HIDE DEF F
<1>2. ASSUME NEW w \in F
      PROVE  w.addr \in Nat /\ w.width \in Nat /\ base <= w.addr /\ w.addr + w.width <= base + n * 4
  BY <1>1
<1>3. ASSUME NEW w \in F, NEW v \in F, NEW a \in Nat, Covers(w, a), Covers(v, a)
      PROVE  w = v
  <2>1. PICK c \in 0..(n - 1) :
            w.addr = base + c * 4 /\ w.width = 4 /\ w = Put(base + c * 4, 4, val[c])
    BY <1>1
  <2>2. PICK e \in 0..(n - 1) :
            v.addr = base + e * 4 /\ v.width = 4 /\ v = Put(base + e * 4, 4, val[e])
    BY <1>1
  <2>3. c = e
    BY <1>3, <2>1, <2>2 DEF Covers
  <2> QED BY <2>1, <2>2, <2>3
<1> QED BY <1>2, <1>3 DEF Own, F

\* The header keeps to its bytes.
LEMMA HeaderOwn ==
    ASSUME NEW b
    PROVE  Own(PutHeader(b), 0, HEADER)
<1> DEFINE M == {Put(i - 1, 1, MAGIC[i]) : i \in 1..8}
           N == {Put(8, 4, 1), Put(12, 4, Cardinality(DOMAIN b.labels)), Put(16, 4, b.k),
                 Put(20, 4, TotalBlocks(b)), Put(24, 4, BLOCK), Put(28, 4, DIMS)}
<1>1. Own(M, 0, 8)
  <2>1. ASSUME NEW w \in M
        PROVE  \E i \in 1..8 : w.addr = i - 1 /\ w.width = 1 /\ w = Put(i - 1, 1, MAGIC[i])
    BY DEF Put
  <2> HIDE DEF M
  <2>2. ASSUME NEW w \in M
        PROVE  w.addr \in Nat /\ w.width \in Nat /\ 0 <= w.addr /\ w.addr + w.width <= 8
    BY <2>1
  <2>3. ASSUME NEW w \in M, NEW v \in M, NEW a \in Nat, Covers(w, a), Covers(v, a)
        PROVE  w = v
    <3>1. PICK i \in 1..8 : w.addr = i - 1 /\ w.width = 1 /\ w = Put(i - 1, 1, MAGIC[i])
      BY <2>1
    <3>2. PICK j \in 1..8 : v.addr = j - 1 /\ v.width = 1 /\ v = Put(j - 1, 1, MAGIC[j])
      BY <2>1
    <3>3. i = j
      BY <2>3, <3>1, <3>2 DEF Covers
    <3> QED BY <3>1, <3>2, <3>3
  <2> QED BY <2>2, <2>3 DEF Own
<1>2. Own(N, 8, 32)
  <2> DEFINE val == [i \in 0..5 |-> IF i = 0 THEN 1 ELSE IF i = 1 THEN Cardinality(DOMAIN b.labels)
                                    ELSE IF i = 2 THEN b.k ELSE IF i = 3 THEN TotalBlocks(b)
                                    ELSE IF i = 4 THEN BLOCK ELSE DIMS]
  <2>1. N = EntryPuts(8, 6, val)
    <3>1. /\ Put(8, 4, 1) = Put(8 + 0 * 4, 4, val[0])
          /\ Put(12, 4, Cardinality(DOMAIN b.labels)) = Put(8 + 1 * 4, 4, val[1])
          /\ Put(16, 4, b.k) = Put(8 + 2 * 4, 4, val[2])
          /\ Put(20, 4, TotalBlocks(b)) = Put(8 + 3 * 4, 4, val[3])
          /\ Put(24, 4, BLOCK) = Put(8 + 4 * 4, 4, val[4])
          /\ Put(28, 4, DIMS) = Put(8 + 5 * 4, 4, val[5])
      OBVIOUS
    <3> HIDE DEF val
    <3>2. \A i : i \in 0..(6 - 1) <=> i \in {0, 1, 2, 3, 4, 5}
      OBVIOUS
    <3>3. \A w : w \in EntryPuts(8, 6, val)
             <=> \E i \in {0, 1, 2, 3, 4, 5} : w = Put(8 + i * 4, 4, val[i])
      BY <3>2 DEF EntryPuts
    <3> QED BY <3>1, <3>3
  <2>2. Own(EntryPuts(8, 6, val), 8, 8 + 6 * 4)
    <3> HIDE DEF val
    <3> QED BY EntriesOwn
  <2> HIDE DEF N
  <2> QED BY <2>1, <2>2
<1> HIDE DEF M, N
<1>3. Own(M \cup N, 0, HEADER)
  <2>1. Own(N, 8, HEADER)
    BY <1>2, DimsNat DEF Own
  <2> QED BY <1>1, <2>1, DimsNat, OwnUnion
<1> QED BY <1>3 DEF PutHeader, M, N

\* The labels keep to their section.
LEMMA LabelsOwn ==
    ASSUME NEW b, IsBuild(b), NEW l, l.labels \in Nat
    PROVE  Own(PutLabels(b, l), l.labels, l.labels + TotalBlocks(b) * BLOCK)
<1> DEFINE F == PutLabels(b, l)
           place(c, p) == l.labels + BlockOf(b, c, p) * BLOCK + LaneOf(p)
           val(c, p) == b.labels[b.order[c][p]]
<1>1. ASSUME NEW w \in F
      PROVE  \E c \in Clusters(b) : \E p \in Places(b, c) :
                w.addr = place(c, p) /\ w.width = 1 /\ w = Put(place(c, p), 1, val(c, p))
  <2>1. PICK c \in Clusters(b) : w \in {Put(place(c, p), 1, val(c, p)) : p \in Places(b, c)}
    BY DEF PutLabels
  <2>2. PICK p \in Places(b, c) : w = Put(place(c, p), 1, val(c, p))
    BY <2>1
  <2> QED BY <2>2 DEF Put
<1> HIDE DEF F, val
<1>2. ASSUME NEW w \in F
      PROVE  /\ w.addr \in Nat /\ w.width \in Nat /\ l.labels <= w.addr
             /\ w.addr + w.width <= l.labels + TotalBlocks(b) * BLOCK
  <2>1. PICK c \in Clusters(b) : \E p \in Places(b, c) :
            w.addr = place(c, p) /\ w.width = 1
    BY <1>1
  <2>2. PICK p \in Places(b, c) :
            w.addr = place(c, p) /\ w.width = 1
    BY <2>1
  <2>3. /\ place(c, p) \in Nat /\ l.labels <= place(c, p)
        /\ place(c, p) + 1 <= l.labels + TotalBlocks(b) * BLOCK
    BY LabelsApart
  <2> HIDE DEF place
  <2> QED BY <2>2, <2>3
<1>3. ASSUME NEW w \in F, NEW v \in F, NEW a \in Nat, Covers(w, a), Covers(v, a)
      PROVE  w = v
  <2>1. PICK c \in Clusters(b) : \E p \in Places(b, c) :
            w.addr = place(c, p) /\ w.width = 1 /\ w = Put(place(c, p), 1, val(c, p))
    BY <1>1
  <2>2. PICK p \in Places(b, c) :
            w.addr = place(c, p) /\ w.width = 1 /\ w = Put(place(c, p), 1, val(c, p))
    BY <2>1
  <2>3. PICK e \in Clusters(b) : \E q \in Places(b, e) :
            v.addr = place(e, q) /\ v.width = 1 /\ v = Put(place(e, q), 1, val(e, q))
    BY <1>1
  <2>4. PICK q \in Places(b, e) :
            v.addr = place(e, q) /\ v.width = 1 /\ v = Put(place(e, q), 1, val(e, q))
    BY <2>3
  <2>5. w.addr = v.addr
    BY <1>2, <1>3, <2>2, <2>4 DEF Covers
  <2>6. c = e /\ p = q
    BY <2>2, <2>4, <2>5, LabelsApart
  <2> QED BY <2>2, <2>4, <2>6
<1> QED BY <1>2, <1>3 DEF Own, F

\* The blocks keep to theirs.
LEMMA ValuesOwn ==
    ASSUME NEW b, IsBuild(b), NEW l, l.blocks \in Nat
    PROVE  Own(PutVectors(b, l), l.blocks, l.blocks + TotalBlocks(b) * DIMS * BLOCK * 2)
<1> DEFINE F == PutVectors(b, l)
           place(c, p, d) == ValueAt(b, l, c, p, d)
           val(c, p, d) == b.vecs[b.order[c][p]][d]
           end == l.blocks + TotalBlocks(b) * DIMS * BLOCK * 2
<1>1. ASSUME NEW w \in F
      PROVE  \E c \in Clusters(b) : \E p \in Places(b, c) : \E d \in Dims :
                w.addr = place(c, p, d) /\ w.width = 2 /\ w = Put(place(c, p, d), 2, val(c, p, d))
  <2>1. PICK c \in Clusters(b) :
            w \in {Put(place(c, p, d), 2, val(c, p, d)) : p \in Places(b, c), d \in Dims}
    BY DEF PutVectors
  <2>2. PICK p \in Places(b, c), d \in Dims : w = Put(place(c, p, d), 2, val(c, p, d))
    BY <2>1
  <2> QED BY <2>2 DEF Put
<1> HIDE DEF F, val, end
<1>2. ASSUME NEW w \in F
      PROVE  w.addr \in Nat /\ w.width \in Nat /\ l.blocks <= w.addr /\ w.addr + w.width <= end
  <2>1. PICK c \in Clusters(b) : \E p \in Places(b, c) : \E d \in Dims :
            w.addr = place(c, p, d) /\ w.width = 2
    BY <1>1
  <2>2. PICK p \in Places(b, c), d \in Dims :
            w.addr = place(c, p, d) /\ w.width = 2
    BY <2>1
  <2>3. place(c, p, d) \in Nat /\ l.blocks <= place(c, p, d) /\ place(c, p, d) + 2 <= end
    BY ValuesApart DEF end
  <2> HIDE DEF place
  <2> QED BY <2>2, <2>3
<1>3. ASSUME NEW w \in F, NEW v \in F, NEW a \in Nat, Covers(w, a), Covers(v, a)
      PROVE  w = v
  <2>1. PICK c \in Clusters(b) : \E p \in Places(b, c) : \E d \in Dims :
            w.addr = place(c, p, d) /\ w.width = 2 /\ w = Put(place(c, p, d), 2, val(c, p, d))
    BY <1>1
  <2>2. PICK p \in Places(b, c), d \in Dims :
            w.addr = place(c, p, d) /\ w.width = 2 /\ w = Put(place(c, p, d), 2, val(c, p, d))
    BY <2>1
  <2>3. PICK e \in Clusters(b) : \E q \in Places(b, e) : \E g \in Dims :
            v.addr = place(e, q, g) /\ v.width = 2 /\ v = Put(place(e, q, g), 2, val(e, q, g))
    BY <1>1
  <2>4. PICK q \in Places(b, e), g \in Dims :
            v.addr = place(e, q, g) /\ v.width = 2 /\ v = Put(place(e, q, g), 2, val(e, q, g))
    BY <2>3
  <2>5. place(c, p, d) <= a /\ a < place(c, p, d) + 2 /\ place(e, q, g) <= a /\ a < place(e, q, g) + 2
    BY <1>3, <2>2, <2>4 DEF Covers
  <2>6. c = e /\ p = q /\ d = g
    BY <2>5, ValuesApart
  <2> QED BY <2>2, <2>4, <2>6
<1> QED BY <1>2, <1>3 DEF Own, F, end

\* No two numbers of a file share a byte.
LEMMA PutsOwn ==
    ASSUME NEW b, IsBuild(b)
    PROVE  Own(Puts(b, Layout(b)), 0, Layout(b).total)
<1> DEFINE l == Layout(b)
           k == b.k
           tb == TotalBlocks(b)
           lo == [c \in Clusters(b) |-> [d \in Dims |-> BMin(b, c, d)]]
           hi == [c \in Clusters(b) |-> [d \in Dims |-> BMax(b, c, d)]]
           counts == [c \in Clusters(b) |-> CountIn(b, c)]
           F1 == PutHeader(b)
           F2 == CellPuts(l.centroids, k, b.cent)
           F3 == CellPuts(l.bbox_min, k, lo)
           F4 == CellPuts(l.bbox_max, k, hi)
           F5 == EntryPuts(l.offsets, k + 1, BlockOffsets(b))
           F6 == EntryPuts(l.counts, k, counts)
           F7 == PutLabels(b, l)
           F8 == PutVectors(b, l)
<1>1. k \in Nat /\ tb \in Nat /\ Clusters(b) = 0..(k - 1)
  BY Words DEF IsBuild, Clusters
<1>2. l = LayoutFor(k, tb)
  BY DEF Layout
<1> HIDE DEF l
<1>3. PutBoxes(b, l) = F2 \cup F3 \cup F4
  <2>1. F2 = {Put(l.centroids + (c * DIMS + d) * 2, 2, b.cent[c][d]) : c \in Clusters(b), d \in Dims}
    BY <1>1 DEF CellPuts
  <2>2. F3 = {Put(l.bbox_min + (c * DIMS + d) * 2, 2, BMin(b, c, d)) : c \in Clusters(b), d \in Dims}
    <3>1. \A c \in Clusters(b), d \in Dims : lo[c][d] = BMin(b, c, d)
      OBVIOUS
    <3> HIDE DEF lo
    <3> QED BY <1>1, <3>1 DEF CellPuts
  <2>3. F4 = {Put(l.bbox_max + (c * DIMS + d) * 2, 2, BMax(b, c, d)) : c \in Clusters(b), d \in Dims}
    <3>1. \A c \in Clusters(b), d \in Dims : hi[c][d] = BMax(b, c, d)
      OBVIOUS
    <3> HIDE DEF hi
    <3> QED BY <1>1, <3>1 DEF CellPuts
  <2> HIDE DEF F2, F3, F4
  <2> QED BY <2>1, <2>2, <2>3 DEF PutBoxes
<1>4. PutTables(b, l) = F5 \cup F6
  <2>1. F5 = {Put(l.offsets + c * 4, 4, BlockOffsets(b)[c]) : c \in 0..b.k}
    <3>1. (k + 1) - 1 = k
      BY <1>1
    <3> QED BY <3>1 DEF EntryPuts
  <2>2. F6 = {Put(l.counts + c * 4, 4, CountIn(b, c)) : c \in Clusters(b)}
    BY <1>1 DEF EntryPuts
  <2> HIDE DEF F5, F6
  <2> QED BY <2>1, <2>2 DEF PutTables
<1> HIDE DEF k, tb
<1>5. InOrder(l, k, tb)
  BY <1>1, <1>2, LayoutOrder
<1> DEFINE s == k * DIMS * 2
           t == tb * BLOCK
           u == tb * DIMS * BLOCK * 2
           v == (k + 1) * 4
           w == k * 4
<1>6. /\ l.centroids = HEADER /\ l.bbox_min = l.centroids + s /\ l.bbox_max = l.bbox_min + s
      /\ l.bbox_max + s <= l.offsets /\ l.counts = l.offsets + v /\ l.labels = l.counts + w
      /\ l.labels + t <= l.blocks /\ l.total = l.blocks + u
      /\ l.centroids \in Nat /\ l.bbox_min \in Nat /\ l.bbox_max \in Nat /\ l.offsets \in Nat
      /\ l.counts \in Nat /\ l.labels \in Nat /\ l.blocks \in Nat /\ l.total \in Nat
      /\ s \in Nat /\ t \in Nat /\ u \in Nat
  BY <1>5 DEF InOrder
<1>7. Own(F1, 0, l.centroids)
  BY <1>6, HeaderOwn
<1>8. Own(F2, l.centroids, l.bbox_min)
  <2> HIDE DEF lo, hi, counts
  <2> QED BY <1>1, <1>6, CellsOwn
<1>9. Own(F3, l.bbox_min, l.bbox_max)
  <2> HIDE DEF lo, hi, counts
  <2> QED BY <1>1, <1>6, CellsOwn
<1>10. Own(F4, l.bbox_max, l.bbox_max + s)
  <2> HIDE DEF lo, hi, counts
  <2> QED BY <1>1, <1>6, CellsOwn
<1>11. Own(F5, l.offsets, l.counts)
  <2>1. k + 1 \in Nat
    BY <1>1
  <2> QED BY <1>6, <2>1, EntriesOwn
<1>12. Own(F6, l.counts, l.labels)
  <2> HIDE DEF lo, hi, counts
  <2> QED BY <1>1, <1>6, EntriesOwn
<1>13. Own(F7, l.labels, l.labels + t)
  BY <1>6, LabelsOwn DEF tb
<1>14. Own(F8, l.blocks, l.total)
  BY <1>6, ValuesOwn DEF tb
<1>15. v \in Nat /\ w \in Nat
  BY <1>1
<1> HIDE DEF F1, F2, F3, F4, F5, F6, F7, F8, s, t, u, v, w
<1> DEFINE endBoxes == l.bbox_max + s
           endLabels == l.labels + t
<1>16. /\ l.centroids <= l.bbox_min /\ l.bbox_min <= l.bbox_max /\ l.bbox_max <= endBoxes
       /\ endBoxes <= l.offsets /\ l.offsets <= l.counts /\ l.counts <= l.labels
       /\ l.labels <= endLabels /\ endLabels <= l.blocks /\ l.blocks <= l.total
       /\ endBoxes \in Nat /\ endLabels \in Nat
  BY <1>6, <1>15
<1>17. Own(F4, l.bbox_max, endBoxes) /\ Own(F7, l.labels, endLabels)
  BY <1>10, <1>13
<1>18. /\ l.centroids \in Nat /\ l.bbox_min \in Nat /\ l.bbox_max \in Nat /\ l.offsets \in Nat
      /\ l.counts \in Nat /\ l.labels \in Nat /\ l.blocks \in Nat /\ l.total \in Nat
  BY <1>6
<1> HIDE DEF endBoxes, endLabels
<1>19. \A i \in Nat : i <= i
  OBVIOUS
<1>20. Own(F1 \cup F2, 0, l.bbox_min)
  BY <1>7, <1>8, <1>16, <1>18, <1>19, OwnUnion
<1>21. Own(F1 \cup F2 \cup F3, 0, l.bbox_max)
  BY <1>9, <1>16, <1>20, <1>18, <1>19, OwnUnion
<1>22. Own(F1 \cup F2 \cup F3 \cup F4, 0, endBoxes)
  BY <1>16, <1>21, <1>17, <1>18, <1>19, OwnUnion
<1>23. Own(F1 \cup F2 \cup F3 \cup F4 \cup F5, 0, l.counts)
  BY <1>11, <1>16, <1>22, <1>18, <1>19, OwnUnion
<1>24. Own(F1 \cup F2 \cup F3 \cup F4 \cup F5 \cup F6, 0, l.labels)
  BY <1>12, <1>16, <1>23, <1>18, <1>19, OwnUnion
<1>25. Own(F1 \cup F2 \cup F3 \cup F4 \cup F5 \cup F6 \cup F7, 0, endLabels)
  BY <1>16, <1>24, <1>17, <1>18, <1>19, OwnUnion
<1>26. Own(F1 \cup F2 \cup F3 \cup F4 \cup F5 \cup F6 \cup F7 \cup F8, 0, l.total)
  BY <1>14, <1>16, <1>25, <1>18, OwnUnion
<1>27. Puts(b, l) = F1 \cup F2 \cup F3 \cup F4 \cup F5 \cup F6 \cup F7 \cup F8
  <2>1. Puts(b, l) = F1 \cup PutBoxes(b, l) \cup PutTables(b, l) \cup F7 \cup F8
    BY DEF Puts, F1, F7, F8
  <2> QED BY <1>3, <1>4, <2>1
<1> QED BY <1>26, <1>27 DEF l

---------------------------------------------------------------------------
(* What the reader finds.                                                  *)

\* A byte of the file is the one put there.
LEMMA Stored ==
    ASSUME NEW b, IsBuild(b), NEW w \in Puts(b, Layout(b)), NEW i \in 0..(w.width - 1)
    PROVE  /\ BuildIvf(b)[w.addr + i] = Byte(w.val, i)
           /\ w.addr + i \in 0..(Layout(b).total - 1)
<1> DEFINE l == Layout(b)
           puts == Puts(b, l)
           a == w.addr + i
           put == CHOOSE v \in puts : Covers(v, a)
<1>1. Own(puts, 0, l.total)
  BY PutsOwn
<1>2. l.total \in Nat
  <2>1. b.k \in Nat /\ TotalBlocks(b) \in Nat
    BY Words DEF IsBuild
  <2> QED BY <2>1, LayoutOrder DEF Layout, InOrder
<1>3. w \in puts /\ w.addr \in Nat /\ w.width \in Nat /\ w.addr + w.width <= l.total
  BY <1>1 DEF Own
<1> HIDE DEF l, puts
<1>4. a \in Nat /\ a \in 0..(l.total - 1) /\ Covers(w, a)
  BY <1>2, <1>3 DEF Covers
<1>5. put \in puts /\ Covers(put, a)
  BY <1>3, <1>4
<1> HIDE DEF put
<1>6. put = w
  BY <1>1, <1>3, <1>4, <1>5 DEF Own
<1>7. BuildIvf(b) = [n \in 0..(l.total - 1) |->
                        IF \E v \in puts : Covers(v, n)
                        THEN LET q == CHOOSE v \in puts : Covers(v, n) IN Byte(q.val, n - q.addr)
                        ELSE 0]
  BY DEF BuildIvf, l, puts
<1>8. BuildIvf(b)[a] = Byte(put.val, a - put.addr)
  BY <1>4, <1>5, <1>7 DEF put
<1>9. a - w.addr = i
  BY <1>3
<1> QED BY <1>4, <1>6, <1>8, <1>9 DEF l

\* What is put in a byte is read from it.
LEMMA Read8 ==
    ASSUME NEW b, IsBuild(b), NEW place, NEW v \in Word8, Put(place, 1, v) \in Puts(b, Layout(b))
    PROVE  BuildIvf(b)[place] = v
<1> DEFINE w == Put(place, 1, v)
<1>1. w.addr = place /\ w.width = 1 /\ w.val = v /\ w \in Puts(b, Layout(b))
  BY DEF Put
<1>2. w.addr \in Nat
  BY <1>1, PutsOwn DEF Own
<1> HIDE DEF w
<1>3. BuildIvf(b)[place + 0] = Byte(v, 0)
  <2>1. 0 \in 0..(w.width - 1)
    BY <1>1
  <2> QED BY <1>1, <2>1, Stored
<1>4. Byte(v, 0) = v
  <2>1. v \in Nat /\ v < 256
    BY DEF Word8
  <2> QED BY <2>1 DEF Byte, Weight
<1> QED BY <1>1, <1>2, <1>3, <1>4

\* What is put in two bytes is read from them.
LEMMA Read16 ==
    ASSUME NEW b, IsBuild(b), NEW place, NEW v \in Word16, Put(place, 2, v) \in Puts(b, Layout(b))
    PROVE  Rd16(BuildIvf(b), place) = v
<1> DEFINE w == Put(place, 2, v)
           x == BuildIvf(b)
<1>1. w.addr = place /\ w.width = 2 /\ w.val = v /\ w \in Puts(b, Layout(b))
  BY DEF Put
<1>2. w.addr \in Nat
  BY <1>1, PutsOwn DEF Own
<1> HIDE DEF w
<1>3. ASSUME NEW i \in {0, 1} PROVE x[place + i] = Byte(v, i)
  <2>1. i \in 0..(w.width - 1)
    BY <1>1
  <2> QED BY <1>1, <2>1, Stored
<1> HIDE DEF x
<1>4. x[place] = Byte(v, 0) /\ x[place + 1] = Byte(v, 1)
  <2>1. place + 0 = place
    BY <1>1, <1>2
  <2> QED BY <1>3, <2>1
<1>5. Rd16(x, place) = Signed16(Byte(v, 0) + 256 * Byte(v, 1))
  BY <1>4 DEF Rd16
<1> QED BY <1>5, Bytes16 DEF x

\* What is put in four bytes is read from them.
LEMMA Read32 ==
    ASSUME NEW b, IsBuild(b), NEW place, NEW v \in Word32, Put(place, 4, v) \in Puts(b, Layout(b))
    PROVE  Rd32(BuildIvf(b), place) = v
<1> DEFINE w == Put(place, 4, v)
           x == BuildIvf(b)
<1>1. w.addr = place /\ w.width = 4 /\ w.val = v /\ w \in Puts(b, Layout(b))
  BY DEF Put
<1>2. w.addr \in Nat
  BY <1>1, PutsOwn DEF Own
<1> HIDE DEF w
<1>3. ASSUME NEW i \in {0, 1, 2, 3} PROVE x[place + i] = Byte(v, i)
  <2>1. i \in 0..(w.width - 1)
    BY <1>1
  <2> QED BY <1>1, <2>1, Stored
<1> HIDE DEF x
<1>4. /\ x[place] = Byte(v, 0) /\ x[place + 1] = Byte(v, 1)
      /\ x[place + 2] = Byte(v, 2) /\ x[place + 3] = Byte(v, 3)
  <2>1. place + 0 = place
    BY <1>1, <1>2
  <2> QED BY <1>3, <2>1
<1>5. Rd32(x, place) = Byte(v, 0) + 256 * Byte(v, 1) + 65536 * (Byte(v, 2) + 256 * Byte(v, 3))
  BY <1>4 DEF Rd32
<1> QED BY <1>5, Bytes32 DEF x

\* The reader takes the sections for where the builder put them.
LEMMA HeaderRead ==
    ASSUME NEW b, IsBuild(b)
    PROVE  LET x == BuildIvf(b)
           IN IsIndex(x) /\ KOf(x) = b.k /\ LayoutOf(x) = Layout(b)
<1> DEFINE x == BuildIvf(b)
           l == Layout(b)
<1>1. ASSUME NEW w \in PutHeader(b) PROVE w \in Puts(b, l)
  BY DEF Puts
<1>2. /\ 1 \in Word32 /\ b.k \in Word32 /\ TotalBlocks(b) \in Word32 /\ BLOCK \in Word32
      /\ DIMS \in Word32
  BY DEF IsBuild, Word32
<1>3. /\ Put(8, 4, 1) \in Puts(b, l) /\ Put(16, 4, b.k) \in Puts(b, l)
      /\ Put(20, 4, TotalBlocks(b)) \in Puts(b, l) /\ Put(24, 4, BLOCK) \in Puts(b, l)
      /\ Put(28, 4, DIMS) \in Puts(b, l)
  BY <1>1 DEF PutHeader
<1>4. /\ Rd32(x, 8) = 1 /\ Rd32(x, 16) = b.k /\ Rd32(x, 20) = TotalBlocks(b)
      /\ Rd32(x, 24) = BLOCK /\ Rd32(x, 28) = DIMS
  BY <1>2, <1>3, Read32
<1>5. ASSUME NEW i \in 1..8 PROVE x[i - 1] = MAGIC[i]
  <2>1. Put(i - 1, 1, MAGIC[i]) \in Puts(b, l)
    BY <1>1 DEF PutHeader
  <2>2. MAGIC[i] \in Word8
    BY DEF MAGIC, Word8
  <2> QED BY <2>1, <2>2, Read8
<1>6. LayoutOf(x) = l
  BY <1>4 DEF LayoutOf, Layout
<1>7. l.total \in Nat /\ HEADER <= l.total /\ Cardinality(DOMAIN x) = l.total
  <2>1. b.k \in Nat /\ TotalBlocks(b) \in Nat
    BY Words DEF IsBuild
  <2>2. InOrder(l, b.k, TotalBlocks(b))
    BY <2>1, LayoutOrder DEF Layout
  <2>3. l.total \in Nat /\ HEADER <= l.total
    <3> HIDE DEF l
    <3>1. /\ l.centroids = HEADER /\ l.centroids <= l.bbox_min /\ l.bbox_min <= l.bbox_max
          /\ l.bbox_max <= l.offsets /\ l.centroids \in Nat /\ l.bbox_min \in Nat
          /\ l.bbox_max \in Nat /\ l.offsets \in Nat
      BY <2>1, <2>2 DEF InOrder
    <3>2. l.offsets <= l.counts /\ l.counts <= l.labels /\ l.counts \in Nat /\ l.labels \in Nat
      BY <2>1, <2>2 DEF InOrder
    <3>3. l.labels <= l.blocks /\ l.blocks <= l.total /\ l.blocks \in Nat /\ l.total \in Nat
      BY <2>1, <2>2, <3>2 DEF InOrder
    <3> QED BY <3>1, <3>2, <3>3
  <2>4. DOMAIN x = 0..(l.total - 1)
    BY DEF BuildIvf
  <2> HIDE DEF l
  <2>5. Cardinality(0..(l.total - 1)) = l.total
    <3>1. Cardinality(0..(l.total - 1)) =
              IF 0 > l.total - 1 THEN 0 ELSE (l.total - 1) - 0 + 1
      BY <2>3, FS_Interval
    <3> QED BY <2>3, <3>1
  <2> QED BY <2>3, <2>4, <2>5
<1> HIDE DEF x, l
<1>8. IsIndex(x)
  BY <1>4, <1>5, <1>6, <1>7 DEF IsIndex
<1> QED BY <1>4, <1>6, <1>8 DEF KOf, x, l

\* Numbers of 16 bits have a least and a greatest.
LEMMA Extremes ==
    ASSUME NEW S, S # {}, \A x \in S : x \in Word16
    PROVE  (\E x \in S : IsLeast(x, S)) /\ (\E x \in S : IsGreatest(x, S))
<1>1. \A x \in S : x \in Int /\ x + 32768 \in Nat /\ 32768 - x \in Nat
  BY DEF Word16
<1>2. \E x \in S : IsLeast(x, S)
  <2> DEFINE L == {x + 32768 : x \in S}
  <2>1. L \in SUBSET Nat /\ L # {}
    <3>1. \A i \in L : i \in Nat
      <4>1. ASSUME NEW x \in S PROVE x + 32768 \in Nat
        BY <1>1
      <4> QED BY <4>1
    <3>2. PICK x \in S : TRUE
      OBVIOUS
    <3>3. x + 32768 \in L
      OBVIOUS
    <3> HIDE DEF L
    <3> QED BY <3>1, <3>3
  <2>2. PICK i \in L : \A j \in L : i <= j
    <3> HIDE DEF L
    <3> QED BY <2>1, SmallestNat
  <2>3. PICK x \in S : i = x + 32768
    BY <2>2
  <2>4. ASSUME NEW y \in S PROVE x <= y
    <3>1. y + 32768 \in L
      OBVIOUS
    <3>2. i <= y + 32768
      BY <2>2, <3>1
    <3> QED BY <1>1, <2>3, <3>2
  <2> QED BY <2>3, <2>4 DEF IsLeast
<1>3. \E x \in S : IsGreatest(x, S)
  <2> DEFINE L == {32768 - x : x \in S}
  <2>1. L \in SUBSET Nat /\ L # {}
    <3>1. \A i \in L : i \in Nat
      <4>1. ASSUME NEW x \in S PROVE 32768 - x \in Nat
        BY <1>1
      <4> QED BY <4>1
    <3>2. PICK x \in S : TRUE
      OBVIOUS
    <3>3. 32768 - x \in L
      OBVIOUS
    <3> HIDE DEF L
    <3> QED BY <3>1, <3>3
  <2>2. PICK i \in L : \A j \in L : i <= j
    <3> HIDE DEF L
    <3> QED BY <2>1, SmallestNat
  <2>3. PICK x \in S : i = 32768 - x
    BY <2>2
  <2>4. ASSUME NEW y \in S PROVE y <= x
    <3>1. 32768 - y \in L
      OBVIOUS
    <3>2. i <= 32768 - y
      BY <2>2, <3>1
    <3> QED BY <1>1, <2>3, <3>2
  <2> QED BY <2>3, <2>4 DEF IsGreatest
<1> QED BY <1>2, <1>3

\* What is stored of a reference fits its fields.
LEMMA RefWords ==
    ASSUME NEW b, IsBuild(b), NEW c \in Clusters(b), NEW p \in Places(b, c), NEW d \in Dims
    PROVE  b.vecs[b.order[c][p]][d] \in Word16 /\ b.labels[b.order[c][p]] \in Word8
<1>1. PICK n \in Word32 : /\ b.vecs \in [0..(n - 1) -> [Dims -> Word16]]
                          /\ b.labels \in [0..(n - 1) -> Word8]
  BY DEF IsBuild
<1>2. b.order[c][p] \in 0..(n - 1)
  BY <1>1, PlacesCounted
<1> QED BY <1>1, <1>2

\* The box of a cluster is around its references, and fits its fields.
LEMMA BoxWords ==
    ASSUME NEW b, IsBuild(b), NEW c \in Clusters(b), NEW d \in Dims
    PROVE  /\ BMin(b, c, d) \in Word16 /\ BMax(b, c, d) \in Word16
           /\ \A p \in Places(b, c) : /\ BMin(b, c, d) <= b.vecs[b.order[c][p]][d]
                                      /\ b.vecs[b.order[c][p]][d] <= BMax(b, c, d)
<1> DEFINE S == Coords(b, c, d)
<1>1. S # {}
  BY DEF Coords
<1>2. \A x \in S : x \in Word16
  <2>1. CASE Places(b, c) = {}
    <3>1. S = {0}
      BY <2>1 DEF Coords
    <3> QED BY <3>1 DEF Word16
  <2>2. CASE Places(b, c) # {}
    <3>1. S = {b.vecs[b.order[c][p]][d] : p \in Places(b, c)}
      BY <2>2 DEF Coords
    <3> QED BY <3>1, RefWords
  <2> QED BY <2>1, <2>2
<1>3. \A p \in Places(b, c) : b.vecs[b.order[c][p]][d] \in S
  BY DEF Coords
<1> HIDE DEF S
<1>4. BMin(b, c, d) \in S /\ IsLeast(BMin(b, c, d), S)
  BY <1>1, <1>2, Extremes DEF BMin, S
<1>5. BMax(b, c, d) \in S /\ IsGreatest(BMax(b, c, d), S)
  BY <1>1, <1>2, Extremes DEF BMax, S
<1> QED BY <1>2, <1>3, <1>4, <1>5 DEF IsLeast, IsGreatest

\* The tables of a file, as the reader takes them, are the builder's.
LEMMA TablesRead ==
    ASSUME NEW b, IsBuild(b), NEW c \in Clusters(b)
    PROVE  LET x == BuildIvf(b)
           IN /\ BlockStart(x, c) = BlockOffsets(b)[c] /\ CountOf(x, c) = CountIn(b, c)
              /\ \A d \in Dims : /\ CentroidOf(x, c, d) = b.cent[c][d]
                                 /\ BMinOf(x, c, d) = BMin(b, c, d)
                                 /\ BMaxOf(x, c, d) = BMax(b, c, d)
<1> DEFINE x == BuildIvf(b)
           l == Layout(b)
<1>1. LayoutOf(x) = l
  BY HeaderRead
<1>2. ASSUME NEW w, w \in PutBoxes(b, l) \/ w \in PutTables(b, l)
      PROVE  w \in Puts(b, l)
  BY <1>2 DEF Puts
<1>3. b.k \in Nat /\ Clusters(b) = 0..(b.k - 1) /\ TotalBlocks(b) \in Nat
  BY Words DEF IsBuild, Clusters
<1>4. CountOf(x, c) = CountIn(b, c)
  <2>1. Put(l.counts + c * 4, 4, CountIn(b, c)) \in Puts(b, l)
    BY <1>2 DEF PutTables
  <2>2. CountIn(b, c) \in Word32
    BY PlacesCounted
  <2>3. CountOf(x, c) = Rd32(x, l.counts + c * 4)
    BY <1>1 DEF CountOf
  <2> QED BY <2>1, <2>2, <2>3, Read32
<1>5. BlockStart(x, c) = BlockOffsets(b)[c]
  <2> DEFINE v == BlockOffsets(b)[c]
  <2>1. c \in 0..b.k
    BY <1>3
  <2>2. Put(l.offsets + c * 4, 4, v) \in Puts(b, l)
    BY <1>2, <2>1 DEF PutTables
  <2>3. v \in Word32
    <3> DEFINE tb == BlockOffsets(b)[b.k]
    <3>1. b.k \in 0..b.k /\ c < b.k
      BY <1>3
    <3>2. v + Blocks(CountIn(b, c)) <= tb
      BY <3>1, OffsetsApart
    <3>3. v \in Nat
      BY <2>1, OffsetsAdd
    <3>4. Blocks(CountIn(b, c)) \in Nat
      <4>1. CountIn(b, c) \in Nat
        BY PlacesCounted, Words
      <4> QED BY <4>1, BlocksHold
    <3>5. tb \in Word32
      BY DEF IsBuild, TotalBlocks
    <3>6. tb \in Nat /\ tb < 65536 * 65536
      BY <3>5 DEF Word32
    <3> HIDE DEF v, tb
    <3> QED BY <3>2, <3>3, <3>4, <3>6 DEF Word32
  <2>4. BlockStart(x, c) = Rd32(x, l.offsets + c * 4)
    BY <1>1 DEF BlockStart
  <2> HIDE DEF v
  <2>5. BlockStart(x, c) = v
    BY <2>2, <2>3, <2>4, Read32
  <2> QED BY <2>5 DEF v
<1>6. ASSUME NEW d \in Dims
      PROVE  /\ CentroidOf(x, c, d) = b.cent[c][d]
             /\ BMinOf(x, c, d) = BMin(b, c, d)
             /\ BMaxOf(x, c, d) = BMax(b, c, d)
  <2> DEFINE i == (c * DIMS + d) * 2
  <2>1. /\ Put(l.centroids + i, 2, b.cent[c][d]) \in Puts(b, l)
        /\ Put(l.bbox_min + i, 2, BMin(b, c, d)) \in Puts(b, l)
        /\ Put(l.bbox_max + i, 2, BMax(b, c, d)) \in Puts(b, l)
    BY <1>2 DEF PutBoxes
  <2>2. b.cent[c][d] \in Word16 /\ BMin(b, c, d) \in Word16 /\ BMax(b, c, d) \in Word16
    BY BoxWords DEF IsBuild
  <2>3. /\ CentroidOf(x, c, d) = Rd16(x, l.centroids + i)
        /\ BMinOf(x, c, d) = Rd16(x, l.bbox_min + i)
        /\ BMaxOf(x, c, d) = Rd16(x, l.bbox_max + i)
    BY <1>1 DEF CentroidOf, BMinOf, BMaxOf
  <2> HIDE DEF i, l, x
  <2> QED BY <2>1, <2>2, <2>3, Read16 DEF l, x
<1> QED BY <1>4, <1>5, <1>6

\* A place of a cluster holds the reference that was put there.
LEMMA PlaceRead ==
    ASSUME NEW b, IsBuild(b), NEW c \in Clusters(b), NEW p \in Places(b, c)
    PROVE  ReadRef(BuildIvf(b), BlockOf(b, c, p), LaneOf(p)) =
               [vec |-> b.vecs[b.order[c][p]], label |-> b.labels[b.order[c][p]]]
<1> DEFINE x == BuildIvf(b)
           l == Layout(b)
           r == b.order[c][p]
<1>1. LayoutOf(x) = l
  BY HeaderRead
<1>2. LabelOf(x, BlockOf(b, c, p), LaneOf(p)) = b.labels[r]
  <2>1. Put(l.labels + BlockOf(b, c, p) * BLOCK + LaneOf(p), 1, b.labels[r]) \in PutLabels(b, l)
    BY DEF PutLabels
  <2>2. Put(l.labels + BlockOf(b, c, p) * BLOCK + LaneOf(p), 1, b.labels[r]) \in Puts(b, l)
    BY <2>1 DEF Puts
  <2>3. b.labels[r] \in Word8
    <3>1. PICK n \in Word32 : b.labels \in [0..(n - 1) -> Word8]
      BY DEF IsBuild
    <3> QED BY <3>1, PlacesCounted
  <2>4. LabelOf(x, BlockOf(b, c, p), LaneOf(p)) = x[l.labels + BlockOf(b, c, p) * BLOCK + LaneOf(p)]
    BY <1>1 DEF LabelOf
  <2> HIDE DEF r, l, x
  <2> QED BY <2>2, <2>3, <2>4, Read8 DEF l, x
<1>3. ASSUME NEW d \in Dims
      PROVE  BlockVal(x, BlockOf(b, c, p), BlockPairOffset(d, LaneOf(p))) = b.vecs[r][d]
  <2>1. Put(ValueAt(b, l, c, p, d), 2, b.vecs[r][d]) \in PutVectors(b, l)
    BY DEF PutVectors
  <2>2. Put(ValueAt(b, l, c, p, d), 2, b.vecs[r][d]) \in Puts(b, l)
    BY <2>1 DEF Puts
  <2>3. b.vecs[r][d] \in Word16
    BY RefWords
  <2>4. BlockVal(x, BlockOf(b, c, p), BlockPairOffset(d, LaneOf(p))) = Rd16(x, ValueAt(b, l, c, p, d))
    BY <1>1 DEF BlockVal, ValueAt
  <2> HIDE DEF r, l, x
  <2> QED BY <2>2, <2>3, <2>4, Read16 DEF l, x
<1>4. b.vecs[r] = [d \in Dims |-> b.vecs[r][d]]
  <2>1. PICK n \in Word32 : /\ b.vecs \in [0..(n - 1) -> [Dims -> Word16]]
                            /\ b.labels \in [0..(n - 1) -> Word8]
    BY DEF IsBuild
  <2>2. r \in 0..(n - 1)
    BY <2>1, PlacesCounted
  <2>3. b.vecs[r] \in [Dims -> Word16]
    BY <2>1, <2>2
  <2> QED BY <2>3
<1> HIDE DEF r
<1> QED BY <1>2, <1>3, <1>4 DEF ReadRef, r

\* What the builder makes of any references, in any clusters and any order
\* within them, the reader takes for the same: it accepts the file, and finds
\* every cluster's references in their order, with their own labels, and every
\* centroid and box (build_ivf of zero-convert; from_bytes and scan_cluster).
THEOREM WhatIsPutIsFound ==
    ASSUME NEW b, IsBuild(b)
    PROVE  LET x == BuildIvf(b)
           IN /\ IsIndex(x)
              /\ FromBytes(x) = [c \in Clusters(b) |->
                     [i \in 1..CountIn(b, c) |-> [vec   |-> b.vecs[b.order[c][i - 1]],
                                                  label |-> b.labels[b.order[c][i - 1]]]]]
              /\ \A c \in Clusters(b), d \in Dims :
                     /\ CentroidOf(x, c, d) = b.cent[c][d]
                     /\ BMinOf(x, c, d) = BMin(b, c, d) /\ BMaxOf(x, c, d) = BMax(b, c, d)
<1> DEFINE x == BuildIvf(b)
<1>1. IsIndex(x) /\ KOf(x) = b.k
  BY HeaderRead
<1>2. ASSUME NEW c \in Clusters(b)
      PROVE  [i \in 1..CountOf(x, c) |->
                 ReadRef(x, BlockStart(x, c) + (i - 1) \div BLOCK, (i - 1) % BLOCK)] =
             [i \in 1..CountIn(b, c) |-> [vec   |-> b.vecs[b.order[c][i - 1]],
                                          label |-> b.labels[b.order[c][i - 1]]]]
  <2>1. CountOf(x, c) = CountIn(b, c) /\ BlockStart(x, c) = BlockOffsets(b)[c]
    BY TablesRead
  <2>2. CountIn(b, c) \in Nat /\ Places(b, c) = 0..(CountIn(b, c) - 1)
    BY PlacesCounted, Words
  <2>3. ASSUME NEW i \in 1..CountIn(b, c)
        PROVE  ReadRef(x, BlockStart(x, c) + (i - 1) \div BLOCK, (i - 1) % BLOCK) =
               [vec |-> b.vecs[b.order[c][i - 1]], label |-> b.labels[b.order[c][i - 1]]]
    <3>1. i - 1 \in Places(b, c)
      BY <2>2
    <3>2. ReadRef(x, BlockOf(b, c, i - 1), LaneOf(i - 1)) =
              [vec |-> b.vecs[b.order[c][i - 1]], label |-> b.labels[b.order[c][i - 1]]]
      BY <3>1, PlaceRead
    <3> QED BY <2>1, <3>2 DEF BlockOf, LaneOf
  <2> HIDE DEF x
  <2> QED BY <2>1, <2>3
<1>3. FromBytes(x) = [c \in Clusters(b) |->
          [i \in 1..CountOf(x, c) |->
              ReadRef(x, BlockStart(x, c) + (i - 1) \div BLOCK, (i - 1) % BLOCK)]]
  BY <1>1 DEF FromBytes, Clusters
<1>4. \A c \in Clusters(b), d \in Dims :
          /\ CentroidOf(x, c, d) = b.cent[c][d]
          /\ BMinOf(x, c, d) = BMin(b, c, d) /\ BMaxOf(x, c, d) = BMax(b, c, d)
  BY TablesRead
<1> HIDE DEF x
<1>5. FromBytes(x) = [c \in Clusters(b) |->
          [i \in 1..CountIn(b, c) |-> [vec   |-> b.vecs[b.order[c][i - 1]],
                                       label |-> b.labels[b.order[c][i - 1]]]]]
  BY <1>2, <1>3
<1> QED BY <1>1, <1>4, <1>5 DEF x

\* The box the reader takes a cluster to have is around every reference of it:
\* the search may skip a cluster by its box (finish_search).
THEOREM BoxesHold ==
    ASSUME NEW b, IsBuild(b), NEW c \in Clusters(b), NEW i \in 1..CountIn(b, c), NEW d \in Dims
    PROVE  LET x == BuildIvf(b)
               v == FromBytes(x)[c][i].vec[d]
           IN BMinOf(x, c, d) <= v /\ v <= BMaxOf(x, c, d)
<1> DEFINE x == BuildIvf(b)
           r == b.order[c][i - 1]
<1>1. FromBytes(x)[c][i] = [vec |-> b.vecs[r], label |-> b.labels[r]]
  <2>1. FromBytes(x) = [e \in Clusters(b) |->
            [j \in 1..CountIn(b, e) |-> [vec   |-> b.vecs[b.order[e][j - 1]],
                                         label |-> b.labels[b.order[e][j - 1]]]]]
    BY WhatIsPutIsFound
  <2> HIDE DEF x
  <2> QED BY <2>1
<1>2. BMinOf(x, c, d) = BMin(b, c, d) /\ BMaxOf(x, c, d) = BMax(b, c, d)
  BY TablesRead
<1>3. i - 1 \in Places(b, c)
  <2>1. CountIn(b, c) \in Nat /\ Places(b, c) = 0..(CountIn(b, c) - 1)
    BY PlacesCounted, Words
  <2> QED BY <2>1
<1>4. BMin(b, c, d) <= b.vecs[r][d] /\ b.vecs[r][d] <= BMax(b, c, d)
  BY <1>3, BoxWords
<1> HIDE DEF x, r
<1>5. FromBytes(x)[c][i].vec[d] = b.vecs[r][d]
  BY <1>1
<1> QED BY <1>2, <1>4, <1>5 DEF x

---------------------------------------------------------------------------
(* What is searched.                                                       *)

\* Every reference has one place in one cluster.
Spread(b) ==
    /\ \A r \in DOMAIN b.labels : \E c \in Clusters(b) : \E p \in Places(b, c) : b.order[c][p] = r
    /\ \A c, e \in Clusters(b) : \A p \in Places(b, c), q \in Places(b, e) :
          b.order[c][p] = b.order[e][q] => c = e /\ p = q

\* The members of a cluster can be put in order.
LEMMA OrderExists ==
    ASSUME NEW D, NEW dist, \A r \in D : dist[r] \in Nat,
           NEW M \in SUBSET D, IsFiniteSet(M)
    PROVE  \E s \in [0..(Cardinality(M) - 1) -> M] : IsOrder(s, M, dist)
<1> DEFINE Sorts(n, L) == \E s \in [0..(n - 1) -> L] :
                             /\ \A r \in L : \E p \in 0..(n - 1) : s[p] = r
                             /\ \A p, q \in 0..(n - 1) : p < q => dist[s[p]] <= dist[s[q]]
           U == {n \in Nat : \A L \in SUBSET D : IsFiniteSet(L) /\ Cardinality(L) = n => Sorts(n, L)}
<1>1. 0 \in U
  <2>1. ASSUME NEW L \in SUBSET D, IsFiniteSet(L), Cardinality(L) = 0
        PROVE  Sorts(0, L)
    <3>1. L = {}
      BY <2>1, FS_EmptySet
    <3>2. 0..(0 - 1) = {}
      OBVIOUS
    <3>3. [p \in {} |-> 0] \in [{} -> L]
      OBVIOUS
    <3> QED BY <3>1, <3>2, <3>3
  <2> HIDE DEF Sorts
  <2> QED BY <2>1
<1>2. ASSUME NEW n \in Nat, n \in U PROVE n + 1 \in U
  <2>1. ASSUME NEW L \in SUBSET D, IsFiniteSet(L), Cardinality(L) = n + 1
        PROVE  Sorts(n + 1, L)
    <3>1. L # {}
      BY <2>1, FS_EmptySet
    <3>2. PICK m \in L : \A r \in L : dist[m] <= dist[r]
      <4> DEFINE V == {dist[r] : r \in L}
      <4>1. V \in SUBSET Nat /\ V # {}
        BY <3>1
      <4>2. \A r \in L : dist[r] \in V
        OBVIOUS
      <4>3. PICK v \in V : \A w \in V : v <= w
        <5> HIDE DEF V
        <5> QED BY <4>1, SmallestNat
      <4>4. PICK m \in L : dist[m] = v
        BY <4>3
      <4> HIDE DEF V
      <4> QED BY <4>2, <4>3, <4>4
    <3>3. Sorts(n, L \ {m})
      <4>1. IsFiniteSet(L \ {m}) /\ Cardinality(L \ {m}) = n
        <5>1. Cardinality(L \ {m}) = (n + 1) - 1 /\ IsFiniteSet(L \ {m})
          BY <2>1, FS_RemoveElement
        <5> QED BY <5>1
      <4>2. L \ {m} \in SUBSET D
        OBVIOUS
      <4> HIDE DEF Sorts
      <4> QED BY <1>2, <4>1, <4>2
    <3>4. PICK s \in [0..(n - 1) -> L \ {m}] :
             /\ \A r \in L \ {m} : \E p \in 0..(n - 1) : s[p] = r
             /\ \A p, q \in 0..(n - 1) : p < q => dist[s[p]] <= dist[s[q]]
      BY <3>3
    <3> DEFINE z == [p \in 0..n |-> IF p = 0 THEN m ELSE s[p - 1]]
    <3>5. \A p \in 0..n : p # 0 => p - 1 \in 0..(n - 1)
      OBVIOUS
    <3>6. z[0] = m /\ \A p \in 0..n : p # 0 => z[p] = s[p - 1]
      OBVIOUS
    <3>7. z \in [0..n -> L]
      BY <3>4, <3>5
    <3>8. ASSUME NEW r \in L PROVE \E p \in 0..n : z[p] = r
      <4>1. CASE r = m
        BY <3>6, <4>1
      <4>2. CASE r # m
        <5>1. PICK p \in 0..(n - 1) : s[p] = r
          BY <3>4, <4>2
        <5>2. p + 1 \in 0..n /\ p + 1 # 0 /\ (p + 1) - 1 = p
          OBVIOUS
        <5>3. z[p + 1] = r
          BY <3>6, <5>1, <5>2
        <5> QED BY <5>2, <5>3
      <4> QED BY <4>1, <4>2
    <3>9. ASSUME NEW p \in 0..n, NEW q \in 0..n, p < q PROVE dist[z[p]] <= dist[z[q]]
      <4>1. q # 0 /\ q - 1 \in 0..(n - 1) /\ z[q] = s[q - 1] /\ z[q] \in L
        BY <3>4, <3>5, <3>6, <3>9
      <4>2. CASE p = 0
        BY <3>2, <3>6, <4>1, <4>2
      <4>3. CASE p # 0
        <5>1. p - 1 \in 0..(n - 1) /\ z[p] = s[p - 1] /\ p - 1 < q - 1
          BY <3>5, <3>6, <3>9, <4>3
        <5> HIDE DEF z
        <5> QED BY <3>4, <4>1, <5>1
      <4> QED BY <4>2, <4>3
    <3>10. (n + 1) - 1 = n
      OBVIOUS
    <3> HIDE DEF z
    <3> QED BY <3>7, <3>8, <3>9, <3>10
  <2> HIDE DEF Sorts
  <2> QED BY <2>1
<1>3. Cardinality(M) \in Nat
  BY FS_CardinalityType
<1>4. Sorts(Cardinality(M), M)
  <2> HIDE DEF U, Sorts
  <2>1. Nat \subseteq U
    BY <1>1, <1>2, SetInduction
  <2>2. Cardinality(M) \in U
    BY <1>3, <2>1
  <2> QED BY <2>2 DEF U
<1>5. PICK s \in [0..(Cardinality(M) - 1) -> M] :
         /\ \A r \in M : \E p \in 0..(Cardinality(M) - 1) : s[p] = r
         /\ \A p, q \in 0..(Cardinality(M) - 1) : p < q => dist[s[p]] <= dist[s[q]]
  BY <1>4
<1>6. DOMAIN s = 0..(Cardinality(M) - 1) /\ {s[p] : p \in DOMAIN s} = M
  BY <1>5
<1> HIDE DEF Sorts, U
<1> QED BY <1>5, <1>6 DEF IsOrder

\* Whatever cluster each reference is assigned to, however far from its
\* centroid, the order the builder puts them in gives each reference one place,
\* in its own cluster (build_ivf: the counting sort and the sort of each cluster).
THEOREM AssignmentSpreads ==
    ASSUME NEW b, NEW n \in Word32, DOMAIN b.labels = 0..(n - 1),
           NEW f \in [0..(n - 1) -> Clusters(b)],
           NEW dist, \A c \in Clusters(b) : \A r \in 0..(n - 1) : dist[c][r] \in Nat,
           \A c \in Clusters(b) : b.order[c] = Order({r \in 0..(n - 1) : f[r] = c}, dist[c])
    PROVE  /\ Spread(b)
           /\ \A c \in Clusters(b) :
                 /\ \E m \in Word32 : b.order[c] \in [0..(m - 1) -> DOMAIN b.labels]
                 /\ \A p \in Places(b, c) : f[b.order[c][p]] = c
<1> DEFINE N == 0..(n - 1)
           In(c) == {r \in N : f[r] = c}
<1>1. IsFiniteSet(N) /\ Cardinality(N) = n /\ n \in Nat
  <2>1. n \in Nat
    BY Words
  <2>2. IsFiniteSet(0..(n - 1)) /\ Cardinality(0..(n - 1)) = IF 0 > n - 1 THEN 0 ELSE (n - 1) - 0 + 1
    BY <2>1, FS_Interval
  <2> QED BY <2>1, <2>2
<1>2. ASSUME NEW c \in Clusters(b)
      PROVE  /\ b.order[c] \in [0..(Cardinality(In(c)) - 1) -> In(c)]
             /\ Cardinality(In(c)) \in Word32
             /\ \A r \in In(c) : \E p \in Places(b, c) : b.order[c][p] = r
             /\ \A p, q \in Places(b, c) : b.order[c][p] = b.order[c][q] => p = q
  <2> DEFINE M == In(c)
             m == Cardinality(M)
             P == 0..(m - 1)
             s == b.order[c]
  <2>1. M \in SUBSET N
    OBVIOUS
  <2> HIDE DEF M, N
  <2>2. IsFiniteSet(M) /\ m \in Nat /\ m <= n
    BY <1>1, <2>1, FS_Subset, FS_CardinalityType
  <2>3. m \in Word32
    BY <1>1, <2>2 DEF Word32
  <2>4. \A r \in N : dist[c][r] \in Nat
    BY DEF N
  <2>5. \E t \in [0..(Cardinality(M) - 1) -> M] : IsOrder(t, M, dist[c])
    BY <2>1, <2>2, <2>4, OrderExists
  <2>6. s = Order(M, dist[c])
    BY DEF M, N
  <2>7. s \in [P -> M] /\ IsOrder(s, M, dist[c])
    <3> HIDE DEF s
    <3> QED BY <2>5, <2>6 DEF Order
  <2> HIDE DEF s, m
  <2>8. DOMAIN s = P /\ {s[p] : p \in P} = M
    BY <2>7 DEF IsOrder
  <2>9. s \in Surjection(P, M)
    BY <2>7, <2>8 DEF Surjection
  <2>10. IsFiniteSet(P) /\ Cardinality(P) = m
    <3>1. IsFiniteSet(0..(m - 1)) /\ Cardinality(0..(m - 1)) = IF 0 > m - 1 THEN 0 ELSE (m - 1) - 0 + 1
      BY <2>2, FS_Interval
    <3> QED BY <2>2, <3>1
  <2> HIDE DEF P
  <2>11. s \in Injection(P, M)
    BY <2>9, <2>10, FS_SurjSameCardinalityImpliesInj DEF m
  <2>12. Places(b, c) = P
    BY <2>8 DEF Places, s
  <2>13. \A p, q \in P : s[p] = s[q] => p = q
    BY <2>11 DEF Injection, IsInjective
  <2>14. \A r \in M : \E p \in P : s[p] = r
    BY <2>8
  <2> QED BY <2>3, <2>7, <2>12, <2>13, <2>14 DEF s, P, m, M, N
<1>3. ASSUME NEW c \in Clusters(b), NEW p \in Places(b, c)
      PROVE  b.order[c][p] \in In(c)
  BY <1>2, <1>3 DEF Places
<1> HIDE DEF N
<1>4. ASSUME NEW r \in N PROVE f[r] \in Clusters(b) /\ r \in In(f[r])
  BY <1>4 DEF N
<1>5. \A c \in Clusters(b) : \A p \in Places(b, c) : f[b.order[c][p]] = c
  BY <1>3
<1>6. ASSUME NEW r \in N
      PROVE  \E c \in Clusters(b) : \E p \in Places(b, c) : b.order[c][p] = r
  <2>1. f[r] \in Clusters(b) /\ r \in In(f[r])
    BY <1>4
  <2> HIDE DEF In
  <2> QED BY <1>2, <2>1
<1>7. ASSUME NEW c \in Clusters(b), NEW e \in Clusters(b),
             NEW p \in Places(b, c), NEW q \in Places(b, e), b.order[c][p] = b.order[e][q]
      PROVE  c = e /\ p = q
  <2>1. c = e
    BY <1>5, <1>7
  <2> HIDE DEF In
  <2> QED BY <1>2, <1>7, <2>1
<1>8. ASSUME NEW c \in Clusters(b)
      PROVE  \E m \in Word32 : b.order[c] \in [0..(m - 1) -> DOMAIN b.labels]
  <2>1. In(c) \subseteq DOMAIN b.labels
    BY DEF N
  <2> HIDE DEF In
  <2> QED BY <1>2, <2>1
<1>9. DOMAIN b.labels = N
  BY DEF N
<1> HIDE DEF In
<1> QED BY <1>5, <1>6, <1>7, <1>8, <1>9 DEF Spread

\* The search over a built file looks through the references that were given to
\* the builder, each once and with its own label, whatever cluster, block and
\* lane it went to (build_ivf of zero-convert; from_bytes, scan_cluster).
THEOREM EachGivenOnce ==
    ASSUME NEW b, IsBuild(b), Spread(b)
    PROVE  LET found == FromBytes(BuildIvf(b))
           IN \E f \in Bijection(Refs(found), DOMAIN b.labels) : \A r \in Refs(found) :
                 RefAt(found, r) = [vec |-> b.vecs[f[r]], label |-> b.labels[f[r]]]
<1> DEFINE found == FromBytes(BuildIvf(b))
           f == [r \in Refs(found) |-> b.order[r[1]][r[2] - 1]]
<1>1. found = [c \in Clusters(b) |->
          [i \in 1..CountIn(b, c) |-> [vec   |-> b.vecs[b.order[c][i - 1]],
                                       label |-> b.labels[b.order[c][i - 1]]]]]
  BY WhatIsPutIsFound
<1>2. \A c \in Clusters(b) : CountIn(b, c) \in Nat /\ Places(b, c) = 0..(CountIn(b, c) - 1)
  BY PlacesCounted, Words
<1> HIDE DEF found
<1>3. ASSUME NEW r \in Refs(found)
      PROVE  /\ r[1] \in Clusters(b) /\ r[2] \in 1..CountIn(b, r[1]) /\ r = <<r[1], r[2]>>
             /\ r[2] - 1 \in Places(b, r[1]) /\ r[2] \in Int
  <2>1. PICK c \in DOMAIN found : r \in {c} \X DOMAIN found[c]
    BY DEF Refs
  <2>2. c \in Clusters(b) /\ DOMAIN found[c] = 1..CountIn(b, c)
    BY <1>1, <2>1
  <2>3. r[1] = c /\ r[2] \in 1..CountIn(b, c) /\ r = <<r[1], r[2]>>
    BY <2>1, <2>2
  <2>4. \A n \in Nat : \A i \in 1..n : i \in Int /\ i - 1 \in 0..(n - 1)
    OBVIOUS
  <2>5. r[2] \in Int /\ r[2] - 1 \in Places(b, c)
    BY <1>2, <2>2, <2>3, <2>4
  <2> QED BY <2>2, <2>3, <2>5
<1>4. ASSUME NEW c \in Clusters(b), NEW p \in Places(b, c)
      PROVE  <<c, p + 1>> \in Refs(found) /\ (p + 1) - 1 = p
  <2>1. p \in Int /\ p + 1 \in 1..CountIn(b, c)
    BY <1>2
  <2>2. c \in DOMAIN found /\ DOMAIN found[c] = 1..CountIn(b, c)
    BY <1>1
  <2>3. <<c, p + 1>> \in {c} \X DOMAIN found[c]
    BY <2>1, <2>2
  <2>4. <<c, p + 1>> \in Refs(found)
    <3> DEFINE r == <<c, p + 1>>
               parts == {{e} \X DOMAIN found[e] : e \in DOMAIN found}
    <3>1. {c} \X DOMAIN found[c] \in parts
      BY <2>2
    <3> HIDE DEF r, parts
    <3>2. r \in UNION parts
      BY <2>3, <3>1 DEF r
    <3> QED BY <3>2 DEF Refs, r, parts
  <2> QED BY <2>1, <2>4
<1>5. \A r \in Refs(found) : f[r] = b.order[r[1]][r[2] - 1]
  OBVIOUS
<1>6. DOMAIN f = Refs(found)
  OBVIOUS
<1>7. f \in [Refs(found) -> DOMAIN b.labels]
  <2>1. ASSUME NEW r \in Refs(found) PROVE b.order[r[1]][r[2] - 1] \in DOMAIN b.labels
    BY <1>3, PlacesCounted
  <2> QED BY <2>1
<1> HIDE DEF f
<1>8. ASSUME NEW r \in Refs(found), NEW s \in Refs(found), f[r] = f[s]
      PROVE  r = s
  <2>1. r[1] = s[1] /\ r[2] - 1 = s[2] - 1
    BY <1>3, <1>5, <1>8 DEF Spread
  <2> QED BY <1>3, <2>1
<1>9. ASSUME NEW g \in DOMAIN b.labels PROVE \E r \in Refs(found) : f[r] = g
  <2>1. PICK c \in Clusters(b) : \E p \in Places(b, c) : b.order[c][p] = g
    BY DEF Spread
  <2>2. PICK p \in Places(b, c) : b.order[c][p] = g
    BY <2>1
  <2> DEFINE r == <<c, p + 1>>
  <2>3. r \in Refs(found) /\ r[1] = c /\ r[2] - 1 = p
    BY <1>4
  <2> QED BY <1>5, <2>2, <2>3
<1>10. f \in Bijection(Refs(found), DOMAIN b.labels)
  BY <1>7, <1>8, <1>9 DEF Bijection, Injection, Surjection, IsInjective
<1>11. ASSUME NEW r \in Refs(found)
       PROVE  RefAt(found, r) = [vec |-> b.vecs[f[r]], label |-> b.labels[f[r]]]
  <2>1. f[r] = b.order[r[1]][r[2] - 1]
    BY <1>5
  <2>2. r[1] \in Clusters(b) /\ r[2] \in 1..CountIn(b, r[1])
    BY <1>3
  <2>3. found[r[1]][r[2]] = [vec   |-> b.vecs[b.order[r[1]][r[2] - 1]],
                             label |-> b.labels[b.order[r[1]][r[2] - 1]]]
    BY <1>1, <2>2
  <2> QED BY <2>1, <2>3 DEF RefAt
<1> QED BY <1>10, <1>11 DEF found

---------------------------------------------------------------------------
(* The tables the vector kernels read.                                     *)

\* A cell of a table: its group of eight clusters, its pair, its lane, its half.
LEMMA SoaDigits ==
    ASSUME NEW c \in Nat, NEW d \in Dims
    PROVE  /\ c \div 8 \in Nat /\ c % 8 \in 0..7 /\ c = (c \div 8) * 8 + (c % 8)
           /\ d \div 2 \in 0..(PAIRS - 1) /\ d % 2 \in 0..1 /\ d = (d \div 2) * 2 + (d % 2)
<1>1. PAIRS \in Nat \ {0} /\ d \in Nat /\ d < 2 * PAIRS
  BY FormatAssumption DEF Dims, DIMS
<1>2. d \div 2 \in 0..(PAIRS - 1) /\ d % 2 \in 0..1 /\ d = (d \div 2) * 2 + (d % 2)
  BY <1>1
<1>3. c \div 8 \in Nat /\ c % 8 \in 0..(8 - 1) /\ c = (c \div 8) * 8 + (c % 8)
  BY DivMod
<1> QED BY <1>2, <1>3

\* No two cells have the same place.
LEMMA SoaApart ==
    ASSUME NEW c \in Nat, NEW d \in Dims, NEW e \in Nat, NEW g \in Dims,
           SoaIndex(c, d) = SoaIndex(e, g)
    PROVE  c = e /\ d = g
<1> DEFINE row(x, y) == (x \div 8) * PAIRS + y \div 2
           cell(x, y) == (x % 8) * 2 + (y % 2)
<1>1. ASSUME NEW x \in Nat, NEW y \in Dims
      PROVE  /\ row(x, y) \in Nat /\ cell(x, y) \in 0..(16 - 1)
             /\ SoaIndex(x, y) = row(x, y) * 16 + cell(x, y)
  <2>1. x \div 8 \in Nat /\ x % 8 \in 0..7 /\ y \div 2 \in 0..(PAIRS - 1) /\ y % 2 \in 0..1
    BY SoaDigits
  <2> DEFINE x1 == x \div 8
             x2 == x % 8
             y1 == y \div 2
             y2 == y % 2
  <2>2. PAIRS \in Nat
    BY FormatAssumption
  <2>3. SoaIndex(x, y) = (x1 * PAIRS + y1) * 16 + x2 * 2 + y2
    BY DEF SoaIndex
  <2> HIDE DEF x1, x2, y1, y2
  <2>4. x1 \in Nat /\ x2 \in 0..7 /\ y1 \in Nat /\ y2 \in 0..1
    BY <2>1, <2>2 DEF x1, x2, y1, y2
  <2>5. x1 * PAIRS + y1 \in Nat
    BY <2>2, <2>4
  <2> DEFINE r == x1 * PAIRS + y1
  <2>6. r \in Nat
    BY <2>5
  <2> HIDE DEF r
  <2>7. x2 * 2 + y2 \in 0..15 /\ r * 16 + x2 * 2 + y2 = r * 16 + (x2 * 2 + y2)
    BY <2>4, <2>6
  <2>8. row(x, y) = r /\ cell(x, y) = x2 * 2 + y2
    BY DEF r, x1, x2, y1, y2
  <2> QED BY <2>3, <2>6, <2>7, <2>8 DEF r
<1> HIDE DEF row, cell
<1>2. row(c, d) = row(e, g) /\ cell(c, d) = cell(e, g)
  <2>1. row(c, d) * 16 + cell(c, d) = row(e, g) * 16 + cell(e, g)
    BY <1>1
  <2>2. /\ row(c, d) \in Nat /\ cell(c, d) \in 0..(16 - 1)
        /\ row(e, g) \in Nat /\ cell(e, g) \in 0..(16 - 1)
    BY <1>1
  <2> QED BY <2>1, <2>2, MixedRadix
<1>3. c \div 8 = e \div 8 /\ d \div 2 = g \div 2
  <2>1. /\ c \div 8 \in Nat /\ d \div 2 \in 0..(PAIRS - 1)
        /\ e \div 8 \in Nat /\ g \div 2 \in 0..(PAIRS - 1) /\ PAIRS \in Nat
    BY SoaDigits, FormatAssumption
  <2>2. (c \div 8) * PAIRS + d \div 2 = (e \div 8) * PAIRS + g \div 2
    BY <1>2 DEF row
  <2> QED BY <2>1, <2>2, MixedRadix
<1>4. c % 8 = e % 8 /\ d % 2 = g % 2
  <2>1. /\ c % 8 \in 0..7 /\ d % 2 \in 0..1 /\ e % 8 \in 0..7 /\ g % 2 \in 0..1
    BY SoaDigits
  <2>2. (c % 8) * 2 + (d % 2) = (e % 8) * 2 + (g % 2)
    BY <1>2 DEF cell
  <2> QED BY <2>1, <2>2
<1> QED BY <1>3, <1>4, SoaDigits

\* Every cell has a place in the table.
LEMMA SoaInside ==
    ASSUME NEW k \in Nat, NEW c \in 0..(k - 1), NEW d \in Dims
    PROVE  SoaIndex(c, d) \in 0..(SoaSize(k) - 1)
<1> DEFINE g == c \div 8
           n == (k + 7) \div 8
           y == d \div 2
           r == g * PAIRS + y
           z == (c % 8) * 2 + (d % 2)
<1>1. c \in Nat /\ PAIRS \in Nat
  BY FormatAssumption
<1>2. g \in Nat /\ y \in 0..(PAIRS - 1) /\ z \in 0..(16 - 1)
  <2>1. c \div 8 \in Nat /\ c % 8 \in 0..7 /\ d \div 2 \in 0..(PAIRS - 1) /\ d % 2 \in 0..1
    BY <1>1, SoaDigits
  <2> QED BY <2>1
<1>3. n \in Nat /\ g \in 0..(n - 1)
  BY <1>1
<1>4. SoaIndex(c, d) = r * 16 + (c % 8) * 2 + (d % 2) /\ SoaSize(k) = n * PAIRS * 16
  BY DEF SoaIndex, SoaSize
<1>5. (c % 8) * 2 \in Nat /\ d % 2 \in Nat
  <2>1. c % 8 \in 0..7 /\ d % 2 \in 0..1
    BY <1>1, SoaDigits
  <2> QED BY <2>1
<1> HIDE DEF g, n, y
<1>6. r \in Nat /\ r < n * PAIRS /\ n * PAIRS \in Nat
  BY <1>1, <1>2, <1>3, RadixBound
<1> DEFINE u == (c % 8) * 2
           w == d % 2
           m == n * PAIRS
<1>7. u \in Nat /\ w \in Nat /\ z = u + w /\ m \in Nat /\ r < m
  BY <1>5, <1>6
<1>8. SoaIndex(c, d) = r * 16 + u + w /\ SoaSize(k) = m * 16
  BY <1>4
<1> HIDE DEF r, u, w, m, z
<1> QED BY <1>2, <1>6, <1>7, <1>8

\* The table the kernels read has every number of the one it is made of where
\* they look for it (build_soa; select_clusters, bbox_distance).
THEOREM SoaHolds ==
    ASSUME NEW k \in Nat, NEW table, NEW c \in 0..(k - 1), NEW d \in Dims
    PROVE  BuildSoa(k, table)[SoaIndex(c, d)] = table[<<c, d>>]
<1> DEFINE i == SoaIndex(c, d)
           written == {e \in (0..(k - 1)) \X Dims : SoaIndex(e[1], e[2]) = i}
<1>1. written = {<<c, d>>}
  <2>1. ASSUME NEW e \in (0..(k - 1)) \X Dims, SoaIndex(e[1], e[2]) = i
        PROVE  e = <<c, d>>
    <3>1. e[1] \in 0..(k - 1) /\ e[2] \in Dims /\ e = <<e[1], e[2]>>
      OBVIOUS
    <3>2. e[1] \in Nat /\ c \in Nat
      BY <3>1
    <3>3. e[1] = c /\ e[2] = d
      BY <2>1, <3>1, <3>2, SoaApart
    <3> QED BY <3>1, <3>3
  <2>2. <<c, d>> \in (0..(k - 1)) \X Dims /\ <<c, d>>[1] = c /\ <<c, d>>[2] = d
    OBVIOUS
  <2> HIDE DEF i
  <2>3. SoaIndex(<<c, d>>[1], <<c, d>>[2]) = i
    BY <2>2 DEF i
  <2> QED BY <2>1, <2>2, <2>3
<1>2. i \in 0..(SoaSize(k) - 1)
  BY SoaInside
<1>3. BuildSoa(k, table)[i] =
          IF written = {} THEN 0 ELSE LET w == CHOOSE w \in written : TRUE IN table[w]
  BY <1>2 DEF BuildSoa
<1> HIDE DEF i, written
<1>4. (CHOOSE w \in written : TRUE) = <<c, d>>
  BY <1>1
<1> QED BY <1>1, <1>3, <1>4 DEF i
---------------------------------------------------------------------------
(* What the search assumes of its bounds, of a file and for the sums the   *)
(* scalar kernels add up.                                                  *)

\* The smaller in size has the smaller square.
LEMMA SmallerSquare ==
    ASSUME NEW a \in Nat, NEW x \in Int, a <= x \/ a <= -x
    PROVE  a * a \in Nat /\ x * x \in Nat /\ a * a <= x * x
<1>0. ASSUME NEW y \in Nat, a <= y PROVE a * a \in Nat /\ y * y \in Nat /\ a * a <= y * y
  <2>1. a * a <= a * y /\ a * y <= y * y
    BY <1>0
  <2> QED BY <2>1
<1>1. CASE a <= x
  BY <1>0, <1>1
<1>2. CASE a <= -x
  <2> DEFINE y == -x
  <2>1. y \in Nat /\ a <= y /\ x * x = y * y
    BY <1>2
  <2> HIDE DEF y
  <2> QED BY <1>0, <2>1
<1> QED BY <1>1, <1>2

\* a[n] is the sum of the first n terms, as a loop adds them up.
AddsUp(a, x) == a[0] = 0 /\ \A d \in Dims : a[d + 1] = a[d] + x[d]

LEMMA SumsCompare ==
    ASSUME NEW x, NEW y, NEW a, NEW s, AddsUp(a, x), AddsUp(s, y),
           \A d \in Dims : x[d] \in Nat /\ y[d] \in Nat /\ x[d] <= y[d]
    PROVE  /\ \A n \in 0..DIMS : a[n] \in Nat /\ s[n] \in Nat /\ a[n] <= s[n]
           /\ \A n \in 0..DIMS : s[n] <= s[DIMS]
<1> DEFINE Fine(n) == a[n] \in Nat /\ s[n] \in Nat /\ a[n] <= s[n]
           U == {n \in Nat : n <= DIMS => Fine(n)}
           V == {m \in Nat : \A n \in 0..DIMS : n + m <= DIMS => s[n] <= s[n + m]}
<1>1. DIMS \in Nat
  BY FormatAssumption DEF DIMS
<1>2. a[0] = 0 /\ s[0] = 0
  BY DEF AddsUp
<1>3. ASSUME NEW n \in Nat, n + 1 <= DIMS
      PROVE  a[n + 1] = a[n] + x[n] /\ s[n + 1] = s[n] + y[n]
             /\ x[n] \in Nat /\ y[n] \in Nat /\ x[n] <= y[n]
  <2>1. n \in Dims
    BY <1>1, <1>3 DEF Dims
  <2> QED BY <2>1 DEF AddsUp
<1>4. 0 \in U
  BY <1>2
<1>5. ASSUME NEW n \in Nat, n \in U PROVE n + 1 \in U
  <2> SUFFICES ASSUME n + 1 <= DIMS PROVE Fine(n + 1)
    OBVIOUS
  <2>1. Fine(n)
    BY <1>1, <1>5
  <2> QED BY <1>3, <2>1
<1>6. Nat \subseteq U
  <2> HIDE DEF U
  <2> QED BY <1>4, <1>5, SetInduction
<1>7. \A n \in 0..DIMS : Fine(n)
  BY <1>1, <1>6
<1> HIDE DEF U
<1>8. 0 \in V
  <2>1. \A n \in 0..DIMS : n + 0 = n /\ s[n] <= s[n]
    BY <1>1, <1>7
  <2> QED BY <2>1
<1>9. ASSUME NEW m \in Nat, m \in V PROVE m + 1 \in V
  <2> SUFFICES ASSUME NEW n \in 0..DIMS, n + (m + 1) <= DIMS PROVE s[n] <= s[n + (m + 1)]
    OBVIOUS
  <2> DEFINE k == n + m
  <2>1. k \in Nat /\ k + 1 <= DIMS /\ k \in 0..DIMS /\ n + (m + 1) = k + 1
    BY <1>1
  <2>2. s[n] <= s[k]
    BY <1>1, <1>9
  <2> HIDE DEF k
  <2>3. s[k + 1] = s[k] + y[k] /\ y[k] \in Nat
    BY <1>3, <2>1
  <2>4. s[n] \in Nat /\ s[k] \in Nat
    BY <1>7, <2>1
  <2> QED BY <2>1, <2>2, <2>3, <2>4
<1>10. Nat \subseteq V
  <2> HIDE DEF V
  <2> QED BY <1>8, <1>9, SetInduction
<1>11. ASSUME NEW n \in 0..DIMS PROVE s[n] <= s[DIMS]
  <2>1. DIMS - n \in Nat /\ n + (DIMS - n) = DIMS
    BY <1>1
  <2>2. DIMS - n \in V
    <3> HIDE DEF V
    <3> QED BY <1>10, <2>1
  <2>3. n + (DIMS - n) <= DIMS
    BY <1>1, <2>1
  <2> QED BY <2>1, <2>2, <2>3
<1> QED BY <1>7, <1>11

\* How far a coordinate is outside an interval.
Outside(x, lo, hi) == IF x < lo THEN lo - x ELSE IF x > hi THEN x - hi ELSE 0

LEMMA OutsideIsNearer ==
    ASSUME NEW x \in Int, NEW lo \in Int, NEW hi \in Int, NEW v \in Int, lo <= v, v <= hi
    PROVE  LET o == Outside(x, lo, hi)
           IN o * o \in Nat /\ (x - v) * (x - v) \in Nat /\ o * o <= (x - v) * (x - v)
<1> DEFINE o == Outside(x, lo, hi)
           w == x - v
<1>1. o \in Nat /\ w \in Int /\ (o <= w \/ o <= -w)
  BY DEF Outside
<1> HIDE DEF o, w
<1>2. o * o \in Nat /\ w * w \in Nat /\ o * o <= w * w
  BY <1>1, SmallerSquare
<1> QED BY <1>2 DEF o, w

\* In any index file and for any query: no reference of a cluster is nearer than
\* the box the file gives that cluster, and no partial sum of a distance exceeds it
\* (bbox_dist, scan_cluster).  Of the files it is given, the search takes this for
\* granted (BoundsAssumption); near and far are the running sums of the two loops.
THEOREM FileBounds ==
    ASSUME NEW b, IsBuild(b), NEW q \in [Dims -> Int],
           NEW r \in Refs(FromBytes(BuildIvf(b))), NEW near, NEW far,
           AddsUp(near, [d \in Dims |-> LET o == Outside(q[d], BMinOf(BuildIvf(b), r[1], d),
                                                               BMaxOf(BuildIvf(b), r[1], d))
                                        IN o * o]),
           AddsUp(far, [d \in Dims |-> LET w == q[d] - RefAt(FromBytes(BuildIvf(b)), r).vec[d]
                                       IN w * w])
    PROVE  /\ near[DIMS] \in Nat /\ far[DIMS] \in Nat /\ near[DIMS] <= far[DIMS]
           /\ \A n \in 0..DIMS : far[n] \in Nat /\ far[n] <= far[DIMS]
<1> DEFINE x == BuildIvf(b)
           ix == FromBytes(x)
           c == r[1]
           i == r[2]
           v == RefAt(ix, r).vec
           lo(d) == BMinOf(x, c, d)
           hi(d) == BMaxOf(x, c, d)
           xs == [d \in Dims |-> Outside(q[d], lo(d), hi(d)) * Outside(q[d], lo(d), hi(d))]
           ys == [d \in Dims |-> (q[d] - v[d]) * (q[d] - v[d])]
<1>1. ix = [e \in Clusters(b) |->
          [j \in 1..CountIn(b, e) |-> [vec   |-> b.vecs[b.order[e][j - 1]],
                                       label |-> b.labels[b.order[e][j - 1]]]]]
  BY WhatIsPutIsFound
<1>2. AddsUp(near, xs) /\ AddsUp(far, ys)
  OBVIOUS
<1>3. CountIn(b, c) \in Nat /\ c \in Clusters(b) /\ i \in 1..CountIn(b, c)
  <2>1. \A e \in Clusters(b) : DOMAIN ix[e] = 1..CountIn(b, e)
    <3> HIDE DEF ix, x
    <3> QED BY <1>1
  <2>2. c \in Clusters(b) /\ i \in DOMAIN ix[c]
    <3>1. r \in Refs(ix) /\ DOMAIN ix = Clusters(b)
      <4>1. r \in Refs(ix)
        OBVIOUS
      <4> HIDE DEF ix, x
      <4> QED BY <1>1, <4>1
    <3> HIDE DEF ix
    <3>2. PICK e \in Clusters(b) : r \in {e} \X DOMAIN ix[e]
      BY <3>1 DEF Refs
    <3> QED BY <3>2
  <2> HIDE DEF ix, x
  <2>3. CountIn(b, c) \in Nat
    BY <2>2, PlacesCounted, Words
  <2> QED BY <2>1, <2>2, <2>3
<1>4. v = b.vecs[b.order[c][i - 1]]
  <2> HIDE DEF ix, x
  <2> QED BY <1>1, <1>3 DEF RefAt
<1>5. i - 1 \in Places(b, c)
  <2>1. Places(b, c) = 0..(CountIn(b, c) - 1)
    BY <1>3, PlacesCounted
  <2> QED BY <1>3, <2>1
<1>6. ASSUME NEW d \in Dims
      PROVE  lo(d) \in Int /\ hi(d) \in Int /\ v[d] \in Int /\ lo(d) <= v[d] /\ v[d] <= hi(d)
  <2>1. lo(d) = BMin(b, c, d) /\ hi(d) = BMax(b, c, d)
    BY <1>3, TablesRead
  <2>2. /\ BMin(b, c, d) \in Word16 /\ BMax(b, c, d) \in Word16
        /\ BMin(b, c, d) <= b.vecs[b.order[c][i - 1]][d]
        /\ b.vecs[b.order[c][i - 1]][d] <= BMax(b, c, d)
    BY <1>3, <1>5, BoxWords
  <2>3. b.vecs[b.order[c][i - 1]][d] \in Word16
    BY <1>3, <1>5, RefWords
  <2> QED BY <1>4, <2>1, <2>2, <2>3, Words
<1> HIDE DEF x, ix, v, lo, hi, c, i
<1>7. \A d \in Dims : xs[d] \in Nat /\ ys[d] \in Nat /\ xs[d] <= ys[d]
  <2> SUFFICES ASSUME NEW d \in Dims PROVE xs[d] \in Nat /\ ys[d] \in Nat /\ xs[d] <= ys[d]
    OBVIOUS
  <2>1. q[d] \in Int
    OBVIOUS
  <2> QED BY <1>6, <2>1, OutsideIsNearer
<1> HIDE DEF xs, ys
<1>8. DIMS \in 0..DIMS
  BY FormatAssumption DEF DIMS
<1> QED BY <1>2, <1>7, <1>8, SumsCompare
====
