---- MODULE MCIvfSearch ----
(***************************************************************************)
(* The search over built index files: every assignment of a few points of  *)
(* a grid to three clusters is written by the builder, and the reader's    *)
(* references, boxes and centroids are what is searched.                   *)
(***************************************************************************)
EXTENDS IvfSearch, IndexFile, TLC

\* quantize, of halves of a step: ties away from zero, and 1.0 is three steps.
Rounded(h) == IF h < -6 THEN -3 ELSE IF h > 6 THEN 3
              ELSE IF h >= 0 THEN (h + 1) \div 2 ELSE -((1 - h) \div 2)

\* An object of the reference file.  The second one is a coordinate short, the
\* others are the points (0, 0), (1, 0), (2, 1), (0, -2) and (3, 0).
Object(x, y, f) == [numbers |-> <<x, y>>, fraud |-> f]
Objects == <<Object(0, 0, TRUE), [numbers |-> <<4>>, fraud |-> TRUE], Object(1, Junk, FALSE),
             Object(4, 2, TRUE), Object(Junk, -3, FALSE), Object(9, 0, TRUE)>>
FewObjects == <<Object(0, 0, TRUE), Object(2, 1, FALSE), Object(6, 0, TRUE)>>
K == 3

Diff(a, b) == IF a >= b THEN a - b ELSE b - a
Sq(a)      == a * a
VecDist(v, w) == Sq(Diff(v[0], w[0])) + Sq(Diff(v[1], w[1]))

Centroid(c) == [d \in Dims |-> IF d = 0 THEN c ELSE 0]
BuildOf(refs, f) ==
    [k |-> K, vecs |-> refs.vecs, labels |-> refs.labels,
     cent  |-> [c \in 0..(K - 1) |-> Centroid(c)],
     order |-> [c \in 0..(K - 1) |->
                  Order({i \in DOMAIN f : f[i] = c},
                        [i \in DOMAIN f |-> VecDist(refs.vecs[i], Centroid(c))])]]
Files(refs) == {BuildIvf(BuildOf(refs, f)) : f \in [DOMAIN refs.labels -> 0..(K - 1)]}

\* What the process keeps of a file: the references, and the tables of boxes
\* and centroids the kernels read.
Cells    == (0..(K - 1)) \X Dims
Boxes(x) == [cent |-> BuildSoa(K, [e \in Cells |-> CentroidOf(x, e[1], e[2])]),
             lo   |-> BuildSoa(K, [e \in Cells |-> BMinOf(x, e[1], e[2])]),
             hi   |-> BuildSoa(K, [e \in Cells |-> BMaxOf(x, e[1], e[2])])]
ManyFiles == Files(ParseReferences(Objects))
FewFiles  == Files(ParseReferences(FewObjects))
Loaded(files) == {<<FromBytes(x), Boxes(x)>> : x \in {y \in files : IsIndex(y)}}
Many    == Loaded(ManyFiles)
Few     == Loaded(FewFiles)
Grid    == {l[1] : l \in Many}
FewGrid == {l[1] : l \in Few}
BoxesOf == [ix \in Grid \cup FewGrid |-> (CHOOSE l \in Many \cup Few : l[1] = ix)[2]]

Vec(x, y) == [d \in Dims |-> IF d = 0 THEN x ELSE y]
Some == {Vec(2, 0), Vec(3, 0)}

PointDist(q, r) == VecDist(q, r.vec)
XDist(k, q, r)  == Sq(Diff(q[0], r.vec[0]))
At(tab, c)      == [d \in Dims |-> tab[SoaIndex(c, d)]]
CentroidDist(ix, q, c) == VecDist(q, At(BoxesOf[ix].cent, c))
Gap(x, lo, hi)  == IF x < lo THEN lo - x ELSE IF x > hi THEN x - hi ELSE 0
BoxDist(ix, q, c) ==
    LET lo == At(BoxesOf[ix].lo, c)
        hi == At(BoxesOf[ix].hi, c)
    IN Sq(Gap(q[0], lo[0], hi[0])) + Sq(Gap(q[1], lo[1], hi[1]))

FraudLabel(r) == r.label

Off == 100
Setting(n, lo, hi, t) == [nprobe |-> n, rmin |-> lo, rmax |-> hi, thr |-> t]
Narrow   == [f \in 0..Top |-> IF f = 0 THEN 4 ELSE Off]
Disabled == [f \in 0..Top |-> Off]
Typical  == {Setting(1, 1, 1, Disabled), Setting(0, 1, 0, Narrow), Setting(2, 1, 1, Narrow)}
Always   == {Setting(1, 0, Top, Disabled), Setting(2, 0, Top, Disabled)}
Mixed    == Typical \cup Always

\* What the search finds in the file is what was given to the builder: every
\* whole reference once, with its own label, whatever its cluster, block and lane.
EveryReference ==
    LET given == {o \in {Objects[i] : i \in DOMAIN Objects} : Len(o.numbers) = DIMS}
        ref(o) == [vec   |-> Vec(Coordinate(o.numbers[1]), Coordinate(o.numbers[2])),
                   label |-> IF o.fraud THEN 1 ELSE 0]
    IN /\ \A o \in given : \E p \in Refs(index) : RefAt(index, p) = ref(o)
       /\ Cardinality(Refs(index)) = Cardinality(given)
====
