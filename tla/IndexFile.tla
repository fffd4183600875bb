---- MODULE IndexFile ----
(***************************************************************************)
(* The index file: its layout (format.rs), the builder that writes it      *)
(* (zero-convert) and the reader under the search (search.rs).  Builder    *)
(* and reader share the layout but each computes on its own where a        *)
(* coordinate of a reference is; the file is kept byte by byte so that     *)
(* they have to agree.  Clusters and references are numbered from 0.       *)
(***************************************************************************)
EXTENDS Integers, Sequences, FiniteSets

CONSTANTS PAIRS,   \* pairs of coordinates (7)
          BLOCK,   \* references per block (8)
          HEADER,  \* bytes of the header (64)
          Quantize(_),  \* quantize (quant.rs, the one of IvfDistance)
          Junk     \* a number that cannot be parsed

MAGIC == <<82, 72, 50, 54, 90, 69, 82, 79>>  \* RH26ZERO
DIMS  == 2 * PAIRS
Dims  == 0..(DIMS - 1)
Lanes == 0..(BLOCK - 1)

ASSUME FormatAssumption ==
    /\ PAIRS \in Nat \ {0} /\ BLOCK \in Nat \ {0}
    /\ HEADER \in Nat /\ HEADER >= 32

---------------------------------------------------------------------------
(* The layout.                                                             *)

AlignUp(v, a) == ((v + a - 1) \div a) * a

\* Every section starts where the one before it ends.
LayoutFor(k, tb) ==
    LET centroids == HEADER
        bbox_min  == centroids + k * DIMS * 2
        bbox_max  == bbox_min + k * DIMS * 2
        offsets   == AlignUp(bbox_max + k * DIMS * 2, 4)
        counts    == offsets + (k + 1) * 4
        labels    == counts + k * 4
        blocks    == AlignUp(labels + tb * BLOCK, 2)
    IN [centroids |-> centroids, bbox_min |-> bbox_min, bbox_max |-> bbox_max,
        offsets |-> offsets, counts |-> counts, labels |-> labels, blocks |-> blocks,
        total |-> blocks + tb * DIMS * BLOCK * 2]

\* Pairs of coordinates are kept together, lane after lane.
BlockPairOffset(d, lane) == (d \div 2) * BLOCK * 2 + lane * 2 + (d % 2)

---------------------------------------------------------------------------
(* The builder.  A build is [k, vecs, labels, cent, order]: the references, *)
(* the centroids, rounded, and for each cluster its references in the      *)
(* order they are stored in.                                               *)

\* An object of the reference file is [numbers, fraud]: the members of its
\* first array, and whether "fraud" occurs in it.  One with too few is left out;
\* a member that is no number counts as 0.
Coordinate(t) == Quantize(IF t = Junk THEN 0 ELSE t)
ParseReferences(objects) ==
    LET kept == SelectSeq(objects, LAMBDA o : Len(o.numbers) >= DIMS)
        vec(o) == [d \in Dims |-> Coordinate(o.numbers[d + 1])]
    IN [vecs   |-> [i \in 0..(Len(kept) - 1) |-> vec(kept[i + 1])],
        labels |-> [i \in 0..(Len(kept) - 1) |-> IF kept[i + 1].fraud THEN 1 ELSE 0]]

\* Each reference is in the cluster it was assigned to, the nearest to the
\* centroid first.
IsOrder(s, members, dist) ==
    /\ DOMAIN s = 0..(Cardinality(members) - 1)
    /\ {s[p] : p \in DOMAIN s} = members
    /\ \A p, r \in DOMAIN s : p < r => dist[s[p]] <= dist[s[r]]
Order(members, dist) ==
    CHOOSE s \in [0..(Cardinality(members) - 1) -> members] : IsOrder(s, members, dist)

Blocks(count) == (count + BLOCK - 1) \div BLOCK

Clusters(b) == 0..(b.k - 1)
Places(b, c) == DOMAIN b.order[c]
CountIn(b, c) == Cardinality(Places(b, c))

BlockOffsets(b) ==
    LET off[c \in 0..b.k] == IF c = 0 THEN 0 ELSE off[c - 1] + Blocks(CountIn(b, c - 1))
    IN off

TotalBlocks(b) == BlockOffsets(b)[b.k]

Layout(b) == LayoutFor(b.k, TotalBlocks(b))

\* The box of a cluster; that of an empty one is the origin.
IsLeast(x, S)    == x \in S /\ \A y \in S : x <= y
IsGreatest(x, S) == x \in S /\ \A y \in S : y <= x
Coords(b, c, d) == IF Places(b, c) = {} THEN {0}
                 ELSE {b.vecs[b.order[c][p]][d] : p \in Places(b, c)}
BMin(b, c, d) == CHOOSE x \in Coords(b, c, d) : IsLeast(x, Coords(b, c, d))
BMax(b, c, d) == CHOOSE x \in Coords(b, c, d) : IsGreatest(x, Coords(b, c, d))

Put(addr, width, val) == [addr |-> addr, width |-> width, val |-> val]

PutHeader(b) ==
    {Put(i - 1, 1, MAGIC[i]) : i \in 1..8}
    \cup {Put(8, 4, 1), Put(12, 4, Cardinality(DOMAIN b.labels)), Put(16, 4, b.k),
          Put(20, 4, TotalBlocks(b)), Put(24, 4, BLOCK), Put(28, 4, DIMS)}

PutBoxes(b, l) ==
    {Put(l.centroids + (c * DIMS + d) * 2, 2, b.cent[c][d]) : c \in Clusters(b), d \in Dims}
    \cup {Put(l.bbox_min + (c * DIMS + d) * 2, 2, BMin(b, c, d)) : c \in Clusters(b), d \in Dims}
    \cup {Put(l.bbox_max + (c * DIMS + d) * 2, 2, BMax(b, c, d)) : c \in Clusters(b), d \in Dims}

PutTables(b, l) ==
    {Put(l.offsets + c * 4, 4, BlockOffsets(b)[c]) : c \in 0..b.k}
    \cup {Put(l.counts + c * 4, 4, CountIn(b, c)) : c \in Clusters(b)}

\* Where the builder puts the reference at a place of a cluster.
BlockOf(b, c, place) == BlockOffsets(b)[c] + place \div BLOCK
LaneOf(place)        == place % BLOCK
\* Slip: the labels are stored in the order of the references.
PutLabelsUnsorted(b, l) ==
    UNION {{Put(l.labels + BlockOf(b, c, place) * BLOCK + LaneOf(place), 1, b.labels[place])
               : place \in Places(b, c)} : c \in Clusters(b)}

PutLabels(b, l) ==
    UNION {{Put(l.labels + BlockOf(b, c, place) * BLOCK + LaneOf(place), 1,
                b.labels[b.order[c][place]]) : place \in Places(b, c)} : c \in Clusters(b)}
ValueAt(b, l, c, place, d) ==
    l.blocks + (BlockOf(b, c, place) * DIMS * BLOCK + BlockPairOffset(d, LaneOf(place))) * 2
PutVectors(b, l) ==
    UNION {{Put(ValueAt(b, l, c, place, d), 2, b.vecs[b.order[c][place]][d])
               : place \in Places(b, c), d \in Dims} : c \in Clusters(b)}

Puts(b, l) == PutHeader(b) \cup PutBoxes(b, l) \cup PutTables(b, l) \cup PutLabels(b, l) \cup PutVectors(b, l)

\* Little-endian, negative numbers in two's complement.
Weight == <<1, 256, 65536, 65536 * 256>>
Byte(val, i) == (val \div Weight[i + 1]) % 256

\* No two puts overlap, so that their order is of no account; what none of
\* them writes is 0.
Covers(w, a) == w.addr <= a /\ a < w.addr + w.width
BuildIvf(b) ==
    LET l    == Layout(b)
        puts == Puts(b, l)
    IN [a \in 0..(l.total - 1) |->
           IF \E w \in puts : Covers(w, a)
           THEN LET put == CHOOSE w \in puts : Covers(w, a) IN Byte(put.val, a - put.addr)
           ELSE 0]

---------------------------------------------------------------------------
(* The reader.                                                             *)

Signed16(u) == IF u < 32768 THEN u ELSE u - 65536
Rd16(x, addr) == Signed16(x[addr] + 256 * x[addr + 1])
Rd32(x, addr) == x[addr] + 256 * x[addr + 1] + 65536 * (x[addr + 2] + 256 * x[addr + 3])

LayoutOf(x) == LayoutFor(Rd32(x, 16), Rd32(x, 20))

IsIndex(x) ==
    /\ Cardinality(DOMAIN x) >= HEADER
    /\ \A i \in 1..8 : x[i - 1] = MAGIC[i]
    /\ Rd32(x, 8) = 1 /\ Rd32(x, 24) = BLOCK /\ Rd32(x, 28) = DIMS
    /\ LayoutOf(x).total <= Cardinality(DOMAIN x)

KOf(x)              == Rd32(x, 16)
CentroidOf(x, c, d) == Rd16(x, LayoutOf(x).centroids + (c * DIMS + d) * 2)
BMinOf(x, c, d)     == Rd16(x, LayoutOf(x).bbox_min + (c * DIMS + d) * 2)
BMaxOf(x, c, d)     == Rd16(x, LayoutOf(x).bbox_max + (c * DIMS + d) * 2)
BlockStart(x, c)    == Rd32(x, LayoutOf(x).offsets + c * 4)
CountOf(x, c)       == Rd32(x, LayoutOf(x).counts + c * 4)
BlockVal(x, block, i)   == Rd16(x, LayoutOf(x).blocks + (block * DIMS * BLOCK + i) * 2)
LabelOf(x, block, lane) == x[LayoutOf(x).labels + block * BLOCK + lane]

\* The reference scan_cluster finds in a lane of a block.
ReadRef(x, block, lane) ==
    [vec |-> [d \in Dims |-> BlockVal(x, block, BlockPairOffset(d, lane))],
     label |-> LabelOf(x, block, lane)]

\* What a scan of each cluster looks at, block by block, the valid lanes only.
FromBytes(x) ==
    [c \in 0..(KOf(x) - 1) |->
        [i \in 1..CountOf(x, c) |->
            ReadRef(x, BlockStart(x, c) + (i - 1) \div BLOCK, (i - 1) % BLOCK)]]

\* build_soa: eight clusters to a group, pairs together; the AVX2 kernels read
\* the lane of a cluster out of each vector of sixteen.
SoaIndex(c, d) == ((c \div 8) * PAIRS + d \div 2) * 16 + (c % 8) * 2 + (d % 2)
SoaSize(k)     == ((k + 7) \div 8) * PAIRS * 16
BuildSoa(k, table) ==
    [i \in 0..(SoaSize(k) - 1) |->
        LET written == {e \in (0..(k - 1)) \X Dims : SoaIndex(e[1], e[2]) = i}
        IN IF written = {} THEN 0 ELSE LET w == CHOOSE w \in written : TRUE IN table[w]]
====
