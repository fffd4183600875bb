---- MODULE IvfDistance ----
(***************************************************************************)
(* The arithmetic under the search (quant.rs and the kernels of search.rs) *)
(* with its machine widths: 14 coordinates of 16 bits, taken in 7 pairs by *)
(* the AVX2 kernels, whose differences are 16-bit and whose sums 32-bit.   *)
(* Coordinates 5 and 6 may be -Scale ("no last transaction"), the others   *)
(* are clamped to 0..Scale before they are quantized (clampf); without     *)
(* that, a distance would not fit the 32 bits of a lane.  The widths are   *)
(* parameters because TLC's own integers have 32 bits.                     *)
(***************************************************************************)
EXTENDS Integers

CONSTANTS Scale,     \* what 1.0 is quantized to (10000)
          Half16,    \* a 16-bit lane holds -Half16..Half16-1 (2^15)
          Half32,    \* a 32-bit lane holds -Half32..Half32-1 (2^31)
          Payloads,  \* what is quantized into a query, in halves of 1/Scale
          References, \* vectors
          Boxes,     \* [lo, hi] of clusters
          Limits     \* worst distances a lane is compared with

Dims     == 0..13
Range(d) == IF d \in {5, 6} THEN -Scale..Scale ELSE 0..Scale
\* Before it is quantized: never negative (clampf, or a count), but for the mark.
Raw(d) == IF d \in {5, 6} THEN Nat \cup {-2 * Scale} ELSE Nat
IsVector(v) == DOMAIN v = Dims /\ \A d \in Dims : v[d] \in Range(d)

\* 20 = 12 coordinates of up to Scale and 2 differences of up to 2 * Scale.
ASSUME WidthAssumption ==
    /\ Scale \in Nat \ {0} /\ Half16 \in Nat /\ Half32 \in Nat
    /\ 2 * Scale < Half16 /\ 20 * (Scale * Scale) < Half32 - 1

ASSUME VectorAssumption ==
    /\ \A h \in Payloads : DOMAIN h = Dims /\ \A d \in Dims : h[d] \in Raw(d)
    /\ \A v \in References : IsVector(v)
    /\ \A b \in Boxes : IsVector(b.lo) /\ IsVector(b.hi)
    /\ Limits \subseteq 0..(2 * Half32 - 1)

VARIABLES payload, query, \* what is asked
          box, ref, limit \* one lane of a scan: a reference, the worst so far
vars == <<payload, query, box, ref, limit>>

---------------------------------------------------------------------------
(* quantize: v is half / (2 * Scale); ties away from zero.                 *)

\* Slip: adds the half step twice.
HalfTwice(h) == IF h >= 0 THEN (h + 2) \div 2 ELSE -((2 - h) \div 2)

Half(h) == IF h >= 0 THEN (h + 1) \div 2 ELSE -((1 - h) \div 2)
Quantize(h) == IF h < -2 * Scale THEN -Scale
               ELSE IF h > 2 * Scale THEN Scale ELSE Half(h)

---------------------------------------------------------------------------
(* The scalar kernels: 64-bit, nothing overflows.                          *)

Sum(f) == f[0] + f[1] + f[2] + f[3] + f[4] + f[5] + f[6]
          + f[7] + f[8] + f[9] + f[10] + f[11] + f[12] + f[13]

Dist(q, r) == Sum([d \in Dims |-> (q[d] - r[d]) * (q[d] - r[d])])

\* scan_cluster and search_fast stop summing once the limit is reached.
PartialDist(q, r, n) ==
    Sum([d \in Dims |-> IF d < n THEN (q[d] - r[d]) * (q[d] - r[d]) ELSE 0])

Gap(x, lo, hi) == IF x < lo THEN lo - x ELSE IF x > hi THEN x - hi ELSE 0
BoxLB(q, b) == Sum([d \in Dims |-> Gap(q[d], b.lo[d], b.hi[d]) * Gap(q[d], b.lo[d], b.hi[d])])

---------------------------------------------------------------------------
(* The AVX2 kernels: one lane of each.                                     *)

Wrap16(x) == ((x + Half16) % (2 * Half16)) - Half16
Wrap32(x) == ((x + Half32) % (2 * Half32)) - Half32
U32(x)    == x % (2 * Half32)

Sub(a, b) == Wrap16(a - b)              \* _mm256_sub_epi16
Add(a, b) == Wrap32(a + b)              \* _mm256_add_epi32

\* Slip: the products are kept in 16 bits (mullo instead of madd).
MaddLow(f, p) == Wrap16(f[2 * p] * f[2 * p]) + Wrap16(f[2 * p + 1] * f[2 * p + 1])

Madd(f, p) == Wrap32(f[2 * p] * f[2 * p] + f[2 * p + 1] * f[2 * p + 1]) \* _mm256_madd_epi16

Spair(q, r, p) == Madd([d \in Dims |-> Sub(q[d], r[d])], p)

FirstCheck(q, r)  == Add(Add(Spair(q, r, 0), Spair(q, r, 2)), Spair(q, r, 1))
SecondCheck(q, r) == Add(Add(Add(Spair(q, r, 0), Spair(q, r, 2)), Spair(q, r, 4)),
                         Add(Spair(q, r, 1), Spair(q, r, 3)))
LaneDist(q, r) ==
    U32(Add(Add(Add(Add(Spair(q, r, 0), Spair(q, r, 2)), Spair(q, r, 4)), Spair(q, r, 6)),
            Add(Add(Spair(q, r, 1), Spair(q, r, 3)), Spair(q, r, 5))))

Capped(worst) == IF worst < Half32 - 1 THEN worst ELSE Half32 - 1

\* Slip: one too strict.
GivenUpAtMost(sum, worst) == ~ (Capped(worst) > sum + 1)

\* The comparison is signed, so the worst is capped first.
GivenUp(sum, worst) == ~ (Capped(worst) > sum)

Greatest(a, b) == IF a >= b THEN a ELSE b

\* Slip: the gaps are not clamped at zero.
LaneGapUnclamped(x, lo, hi) == Greatest(Sub(lo, x), Sub(x, hi))

LaneGap(x, lo, hi) == Greatest(Greatest(0, Sub(lo, x)), Greatest(0, Sub(x, hi)))

LaneGaps(q, b) == [d \in Dims |-> LaneGap(q[d], b.lo[d], b.hi[d])]
LaneBoxLB(q, b) ==
    U32(Add(Add(Add(Add(Add(Add(Madd(LaneGaps(q, b), 0), Madd(LaneGaps(q, b), 1)),
                            Madd(LaneGaps(q, b), 2)), Madd(LaneGaps(q, b), 3)),
                    Madd(LaneGaps(q, b), 4)), Madd(LaneGaps(q, b), 5)), Madd(LaneGaps(q, b), 6)))

---------------------------------------------------------------------------
(* A scan looks at one reference of the box after another.                 *)

Inside(r, b) == \A d \in Dims : b.lo[d] <= r[d] /\ r[d] <= b.hi[d]

Init ==
    /\ payload \in Payloads /\ query = [d \in Dims |-> Quantize(payload[d])]
    /\ box \in Boxes /\ ref \in {r \in References : Inside(r, box)}
    /\ limit = 2 * Half32 - 1

NextLane ==
    /\ ref' \in {r \in References : Inside(r, box)}
    /\ limit' \in Limits
    /\ UNCHANGED <<payload, query, box>>

Spec == Init /\ [][NextLane]_vars

---------------------------------------------------------------------------
(* Properties.                                                             *)

\* The inputs are vectors in their ranges, in a box that has room for them.
TypeOK ==
    /\ DOMAIN payload = Dims /\ \A d \in Dims : payload[d] \in Raw(d)
    /\ IsVector(query) /\ IsVector(ref) /\ IsVector(box.lo) /\ IsVector(box.hi)
    /\ Inside(ref, box) /\ limit \in 0..(2 * Half32 - 1)

\* A coordinate that was not cut off at 1.0 is off by half a step at most.
QuantizeIsNear ==
    \A d \in Dims : payload[d] <= 2 * Scale => 2 * query[d] - payload[d] \in -1..1

\* The 16- and 32-bit kernels compute what the 64-bit ones do.
EnginesAgree == LaneDist(query, ref) = Dist(query, ref)
                /\ LaneBoxLB(query, box) = BoxLB(query, box)

\* A reference given up on a partial sum, at a checkpoint of the block or in
\* the middle of the scalar loop, is no nearer than the worst in the list.
GivenUpIsFar ==
    /\ GivenUp(FirstCheck(query, ref), limit) \/ GivenUp(SecondCheck(query, ref), limit)
           => Dist(query, ref) >= limit
    /\ \A n \in 0..14 : PartialDist(query, ref, n) <= Dist(query, ref)

\* A box is no farther than anything in it, in either kernel.
BoxIsBound == /\ BoxLB(query, box) <= Dist(query, ref)
              /\ LaneBoxLB(query, box) <= LaneDist(query, ref)
====
