---- MODULE IvfSearch ----
(***************************************************************************)
(* The nearest-neighbour search of zero-index (search.rs), in its three    *)
(* forms: the scalar search, the AVX2 search (prunes whole blocks, sorted  *)
(* top list) and the fast pass used to tune thresholds (scalar, never      *)
(* repaired).  A search probes the clusters with the nearest centroids,    *)
(* counts the frauds among the nearest references found, and, when that    *)
(* count is borderline, repairs: it scans every other cluster whose        *)
(* bounding box could still hold a nearer reference.                       *)
(*                                                                         *)
(* The vectors are abstract: what the search relies on is that the lower   *)
(* bounds (bounding box, partial sums) never exceed the distance.          *)
(***************************************************************************)
EXTENDS Naturals, Sequences, FiniteSets

CONSTANTS
    Indexes,          \* each a function from clusters to sequences of references
    Queries,          \* query vectors
    Engines,          \* which forms are explored
    Settings,         \* run-time parameters: [nprobe, rmin, rmax, thr]
    Top,              \* how many neighbours vote (5)
    Block,            \* references per block (BLOCK)
    MaxProbes,        \* upper clamp of nprobe (64)
    Checkpoints,      \* pruning checkpoints inside a block
    U32Max, U64Max,   \* the largest distances, standing for "none"
    NoAnswer, Nowhere,
    Dist(_, _),       \* distance of a query and a reference
    Partial(_, _, _), \* partial sum of that distance at a checkpoint
    CentDist(_, _, _), \* distance of a query and a cluster's centroid
    BoxLB(_, _, _),   \* distance of a query and a cluster's bounding box
    Label(_)          \* 1 for a fraud

\* A reference is named by its cluster and its place in it.
Refs(ix)     == UNION {{c} \X DOMAIN ix[c] : c \in DOMAIN ix}
RefAt(ix, p) == ix[p[1]][p[2]]

ASSUME SearchAssumption ==
    /\ Top \in Nat \ {0} /\ Block \in Nat \ {0} /\ MaxProbes \in Nat \ {0}
    /\ U32Max \in Nat /\ U64Max \in Nat /\ U32Max <= U64Max
    /\ Engines \subseteq {"scalar", "avx2", "fast"}
    /\ \A s \in Settings : s.nprobe \in Nat

ASSUME IndexAssumption ==
    \A ix \in Indexes :
        /\ DOMAIN ix # {} /\ IsFiniteSet(DOMAIN ix)
        /\ \A c \in DOMAIN ix : Len(ix[c]) \in Nat /\ DOMAIN ix[c] = 1..Len(ix[c])
        /\ Nowhere \notin Refs(ix)

\* Lower bounds are lower bounds, and a distance fits 32 bits.
ASSUME BoundsAssumption ==
    \A ix \in Indexes, q \in Queries :
        /\ \A c \in DOMAIN ix : BoxLB(ix, q, c) \in Nat
        /\ \A r \in Refs(ix) :
              /\ Dist(q, RefAt(ix, r)) \in Nat /\ Dist(q, RefAt(ix, r)) < U32Max
              /\ BoxLB(ix, q, r[1]) <= Dist(q, RefAt(ix, r))
              /\ \A k \in Checkpoints : /\ Partial(k, q, RefAt(ix, r)) \in Nat
                                        /\ Partial(k, q, RefAt(ix, r)) <= Dist(q, RefAt(ix, r))
              /\ Label(RefAt(ix, r)) \in {0, 1}

VARIABLES
    index, query, engine, setting,  \* what is searched, for what, and how
    pc,        \* select, probe, block, lane, gate, repair, done
    back,      \* where a finished cluster scan returns to: probe or repair
    probes,    \* the clusters to probe, nearest centroid first
    at,        \* the next probe
    skip,      \* clusters the probe phase has dealt with (scanned, skip_set)
    cands,     \* clusters the repair has still to look at
    cl, pos,   \* the scan's cluster and next place in it
    top,       \* the nearest references so far
    settled,   \* history: references looked at or soundly pruned
    repaired,  \* whether the repair was entered
    answer

request == <<index, query, engine, setting>>
vars == <<index, query, engine, setting, pc, back, probes, at, skip, cands,
          cl, pos, top, settled, repaired, answer>>

---------------------------------------------------------------------------
(* The list of the nearest.                                                *)

Slots   == 1..Top
NoneYet == IF engine = "avx2" THEN U32Max ELSE U64Max
Empty   == [dist |-> NoneYet, label |-> 0, ref |-> Nowhere]

\* Top5 keeps the index of the first largest distance; the sorted list of the
\* AVX2 path has it at the end.
WorstSlot == IF engine = "avx2" THEN Top
             ELSE CHOOSE i \in Slots : /\ \A j \in Slots : top[j].dist <= top[i].dist
                                       /\ \A j \in 1..(i - 1) : top[j].dist < top[i].dist
Worst   == top[WorstSlot].dist

Fraud   == Cardinality({i \in Slots : top[i].label = 1})

\* update_top5 walks up from the last but one while the new one is nearer.
InsertAt(d) == CHOOSE i \in Slots : /\ \A j \in i..(Top - 1) : d < top[j].dist
                                    /\ i > 1 => top[i - 1].dist <= d
Inserted(e) == [j \in Slots |-> IF j < InsertAt(e.dist) THEN top[j]
                                ELSE IF j = InsertAt(e.dist) THEN e ELSE top[j - 1]]

\* Slip: no look at the worst before replacing it.
OfferedAlways(e) == IF engine = "avx2" THEN Inserted(e) ELSE [top EXCEPT ![WorstSlot] = e]

Offered(e) == IF e.dist >= Worst THEN top
              ELSE IF engine = "avx2" THEN Inserted(e)
              ELSE [top EXCEPT ![WorstSlot] = e]

Candidate(p) == [dist |-> Dist(query, RefAt(index, p)),
                 label |-> Label(RefAt(index, p)), ref |-> p]

---------------------------------------------------------------------------
(* Probing.                                                                *)

Lesser(a, b)  == IF a <= b THEN a ELSE b
Greater(a, b) == IF a >= b THEN a ELSE b
ProbeCount == Lesser(Lesser(Greater(setting.nprobe, 1), MaxProbes), Cardinality(DOMAIN index))

\* The ProbeCount clusters with the nearest centroids, nearest first; equally
\* near ones in any order.
IsProbeOrder(s) ==
    LET d(c) == CentDist(index, query, c)
        chosen == {s[i] : i \in DOMAIN s}
    IN /\ \A i, j \in DOMAIN s : i < j => s[i] # s[j] /\ d(s[i]) <= d(s[j])
       /\ \A c \in chosen, o \in DOMAIN index \ chosen : d(c) <= d(o)

Init ==
    /\ index \in Indexes /\ query \in Queries
    /\ engine \in Engines /\ setting \in Settings
    /\ pc = "select" /\ back = "probe"
    /\ probes = <<>> /\ at = 1 /\ skip = {} /\ cands = {}
    /\ cl \in DOMAIN index /\ pos = 1
    /\ top = [i \in Slots |-> Empty]
    /\ settled = {} /\ repaired = FALSE /\ answer = NoAnswer

SelectProbes ==
    /\ pc = "select"
    /\ \E s \in [1..ProbeCount -> DOMAIN index] : IsProbeOrder(s) /\ probes' = s
    /\ pc' = "probe"
    /\ UNCHANGED <<request, back, at, skip, cands, cl, pos, top, settled,
                   repaired, answer>>

Members(c) == {c} \X DOMAIN index[c]

\* Slip: the centroid's distance taken for a bound on its members'.
MayHelpByCentroid(c) == CentDist(index, query, c) < Worst

\* The first probe is always scanned; later ones only if their box may still
\* hold something nearer.  The AVX2 search scans every probe.
MayHelp(c) == BoxLB(index, query, c) < Worst

PruneProbe ==
    /\ pc = "probe" /\ at \in DOMAIN probes
    /\ engine # "avx2" /\ at > 1 /\ ~MayHelp(probes[at])
    /\ skip' = skip \cup {probes[at]}
    /\ settled' = settled \cup Members(probes[at])
    /\ at' = at + 1
    /\ UNCHANGED <<request, pc, back, probes, cands, cl, pos, top, repaired, answer>>

Scan(c, return) ==
    /\ cl' = c /\ pos' = 1
    /\ pc' = "block" /\ back' = return

ScanProbe ==
    /\ pc = "probe" /\ at \in DOMAIN probes
    /\ engine = "avx2" \/ at = 1 \/ MayHelp(probes[at])
    /\ skip' = skip \cup {probes[at]}
    /\ at' = at + 1
    /\ Scan(probes[at], "probe")
    /\ UNCHANGED <<request, probes, cands, top, settled, repaired, answer>>

ProbesDone ==
    /\ pc = "probe" /\ at \notin DOMAIN probes
    /\ pc' = "gate"
    /\ UNCHANGED <<request, back, probes, at, skip, cands, cl, pos, top,
                   settled, repaired, answer>>

---------------------------------------------------------------------------
(* Scanning one cluster, block by block.                                   *)

BlockEnd  == Lesser(Len(index[cl]), pos + Block - 1)
BlockRefs == {<<cl, i>> : i \in pos..BlockEnd}
FullBlock == BlockEnd = pos + Block - 1
\* Slip: the block is given up as soon as one lane is too far.
HopelessIfAny == \E k \in Checkpoints : \E p \in BlockRefs :
                    Partial(k, query, RefAt(index, p)) >= Worst

Hopeless == \E k \in Checkpoints : \A p \in BlockRefs :
                Partial(k, query, RefAt(index, p)) >= Worst

ScanDone ==
    /\ pc = "block" /\ pos > Len(index[cl])
    /\ pc' = back
    /\ UNCHANGED <<request, back, probes, at, skip, cands, cl, pos, top,
                   settled, repaired, answer>>

PruneBlock ==
    /\ pc = "block" /\ pos <= Len(index[cl])
    /\ engine = "avx2" /\ Hopeless
    /\ settled' = settled \cup BlockRefs
    /\ pos' = BlockEnd + 1
    /\ UNCHANGED <<request, pc, back, probes, at, skip, cands, cl, top,
                   repaired, answer>>

\* The unused lanes of the last block take part in the checkpoint and may
\* keep it from pruning; they are never offered.
EnterBlock ==
    /\ pc = "block" /\ pos <= Len(index[cl])
    /\ engine # "avx2" \/ ~Hopeless \/ ~FullBlock
    /\ pc' = "lane"
    /\ UNCHANGED <<request, back, probes, at, skip, cands, cl, pos, top,
                   settled, repaired, answer>>

Lane ==
    /\ pc = "lane"
    /\ top' = Offered(Candidate(<<cl, pos>>))
    /\ settled' = settled \cup {<<cl, pos>>}
    /\ pos' = pos + 1
    /\ pc' = IF pos % Block = 0 \/ pos = Len(index[cl]) THEN "block" ELSE "lane"
    /\ UNCHANGED <<request, back, probes, at, skip, cands, cl, repaired, answer>>

---------------------------------------------------------------------------
(* The gate and the repair.                                                *)

\* Slip: the lower end of the band is left out.
BorderlineAbove == setting.rmin < Fraud /\ Fraud <= setting.rmax

Borderline == setting.rmin <= Fraud /\ Fraud <= setting.rmax
TooFar     == Worst >= setting.thr[Fraud]

\* Slip: the lanes past k of the last group of eight become clusters.
CandidatesWithPadding ==
    {c \in DOMAIN index \ skip : index[c] # <<>> /\ MayHelp(c)}
        \cup {Cardinality(DOMAIN index) + 1}

\* Slip: the probed clusters are looked at again.
CandidatesUnskipped == {c \in DOMAIN index : index[c] # <<>> /\ MayHelp(c)}

Candidates == {c \in DOMAIN index \ skip : index[c] # <<>> /\ MayHelp(c)}

Repair ==
    /\ pc = "gate" /\ engine # "fast" /\ (Borderline \/ TooFar)
    /\ cands' = Candidates
    /\ repaired' = TRUE
    /\ pc' = "repair"
    /\ UNCHANGED <<request, back, probes, at, skip, cl, pos, top, settled, answer>>

AnswerFast ==
    /\ pc = "gate" /\ (engine = "fast" \/ ~(Borderline \/ TooFar))
    /\ answer' = Fraud
    /\ pc' = "done"
    /\ UNCHANGED <<request, back, probes, at, skip, cands, cl, pos, top,
                   settled, repaired>>

\* The candidates are sorted by lower bound, so the next is one with the least.
IsNext(c) == c \in cands /\ \A o \in cands : BoxLB(index, query, c) <= BoxLB(index, query, o)

RepairScan ==
    /\ pc = "repair"
    /\ \E c \in cands : /\ IsNext(c) /\ MayHelp(c)
                         /\ cands' = cands \ {c}
                         /\ Scan(c, "repair")
    /\ UNCHANGED <<request, probes, at, skip, top, settled, repaired, answer>>

\* Slip: a count-based early stop, as soon as the list is full.
RepairDoneWhenFull ==
    /\ pc = "repair" /\ (Worst < NoneYet \/ \A c \in cands : IsNext(c) => ~MayHelp(c))
    /\ answer' = Fraud
    /\ pc' = "done"
    /\ UNCHANGED <<request, back, probes, at, skip, cands, cl, pos, top,
                   settled, repaired>>

RepairDone ==
    /\ pc = "repair" /\ \A c \in cands : IsNext(c) => ~MayHelp(c)
    /\ answer' = Fraud
    /\ pc' = "done"
    /\ UNCHANGED <<request, back, probes, at, skip, cands, cl, pos, top,
                   settled, repaired>>

Next ==
    \/ SelectProbes \/ PruneProbe \/ ScanProbe \/ ProbesDone
    \/ ScanDone \/ PruneBlock \/ EnterBlock \/ Lane
    \/ Repair \/ AnswerFast \/ RepairScan \/ RepairDone

Spec == Init /\ [][Next]_vars

---------------------------------------------------------------------------
(* Properties.                                                             *)

Held       == {top[i].ref : i \in Slots} \ {Nowhere}
DistOf(r)  == Dist(query, RefAt(index, r))

\* Every variable has its type.
TypeOK ==
    /\ index \in Indexes /\ query \in Queries
    /\ engine \in Engines /\ setting \in Settings
    /\ pc \in {"select", "probe", "block", "lane", "gate", "repair", "done"}
    /\ back \in {"probe", "repair"}
    /\ probes \in Seq(DOMAIN index) /\ at \in Nat \ {0}
    /\ skip \subseteq DOMAIN index /\ cands \subseteq DOMAIN index
    /\ cl \in DOMAIN index /\ pos \in Nat \ {0}
    /\ top \in [Slots -> [dist : Nat, label : {0, 1}, ref : Refs(index) \cup {Nowhere}]]
    /\ settled \subseteq Refs(index)
    /\ repaired \in BOOLEAN
    /\ answer \in 0..Top \cup {NoAnswer}

\* A slot holds nothing, or a reference with its own distance and label; no
\* reference votes twice, though clusters are reached from the probes and again
\* from the repair's candidates.
SlotsHonest ==
    /\ \A i \in Slots : \/ top[i] = Empty
                        \/ top[i].ref \in Refs(index) /\ top[i] = Candidate(top[i].ref)
    /\ \A i, j \in Slots : top[i].ref = top[j].ref => i = j \/ top[i].ref = Nowhere

\* What was looked at or pruned is in the list or no nearer than its worst:
\* no prune (box, block, partial sum) and no eviction loses a neighbour.
NothingNearerMissed ==
    \A r \in settled : r \in Held \/ DistOf(r) >= Worst

\* A search that went through the repair holds the nearest references of the
\* whole index, whichever few clusters it probed first ("exact: scan every
\* bbox-viable candidate").
ExactWhenRepaired ==
    pc = "done" /\ repaired =>
        \A r \in Refs(index) : r \in Held \/ DistOf(r) >= Worst

\* The search implements the one-step vote, exact in the borderline range: an
\* answer inside that range is never the fast pass's own, and a range of all
\* answers makes the whole search exact.  The fast pass promises nothing.
Band == IF engine = "fast" THEN {} ELSE {f \in 0..Top : setting.rmin <= f /\ f <= setting.rmax}
Vote == INSTANCE NearestVote WITH band <- Band
ExactVote == Vote!Spec

\* The worst distance never grows, which is what lets a bound that was too
\* large once be skipped for good.
WorstOnlyShrinks == [][Worst' <= Worst]_vars

\* "MAX = off" (the comment on worst_thr): a threshold of u32::MAX asks for no
\* repair of its own.
MaxMeansOff ==
    [][pc = "gate" /\ pc' = "repair" /\ setting.thr[Fraud] = U32Max => Borderline]_vars
====
