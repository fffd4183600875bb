---- MODULE IvfDistanceProofs ----
(***************************************************************************)
(* Why the 16- and 32-bit kernels lose nothing: on vectors in their ranges *)
(* no difference leaves 16 bits and no sum leaves 31.                      *)
(***************************************************************************)
EXTENDS IvfDistance, TLAPS

---------------------------------------------------------------------------
(* Squares.                                                                *)

LEMMA SquareBounds ==
    ASSUME NEW x \in Int, NEW m \in Nat, -m <= x, x <= m
    PROVE  x * x \in Nat /\ x * x <= m * m
<1>1. CASE x >= 0
  <2>1. x * x <= x * m
    BY <1>1
  <2>2. x * m <= m * m
    BY <1>1
  <2> QED BY <1>1, <2>1, <2>2
<1>2. CASE x < 0
  <2> DEFINE y == -x
  <2>1. y \in Nat /\ y <= m /\ x * x = y * y
    BY <1>2
  <2> HIDE DEF y
  <2>2. y * y <= y * m
    BY <2>1
  <2>3. y * m <= m * m
    BY <2>1
  <2> QED BY <2>1, <2>2, <2>3
<1> QED BY <1>1, <1>2

\* The smaller in size has the smaller square.
LEMMA SquareGrows ==
    ASSUME NEW a \in Nat, NEW x \in Int, a <= x \/ a <= -x
    PROVE  a * a <= x * x
<1>1. CASE a <= x
  <2>1. a * a <= a * x /\ a * x <= x * x
    BY <1>1
  <2> QED BY <2>1
<1>2. CASE a <= -x
  <2> DEFINE y == -x
  <2>1. y \in Nat /\ a <= y /\ x * x = y * y
    BY <1>2
  <2> HIDE DEF y
  <2>2. a * a <= a * y /\ a * y <= y * y
    BY <2>1
  <2> QED BY <2>1, <2>2
<1> QED BY <1>1, <1>2

\* What the scale allows.
LEMMA ScaleFacts ==
    /\ Scale \in Nat /\ Scale * Scale \in Nat
    /\ (2 * Scale) * (2 * Scale) = 4 * (Scale * Scale)
    BY WidthAssumption

---------------------------------------------------------------------------
(* Lanes.                                                                  *)

LEMMA Wrap16Same ==
    ASSUME NEW x \in Int, -(2 * Scale) <= x, x <= 2 * Scale
    PROVE  Wrap16(x) = x
<1>1. x + Half16 \in 0..(2 * Half16 - 1)
  BY WidthAssumption
<1>2. (x + Half16) % (2 * Half16) = x + Half16
  BY <1>1, WidthAssumption
<1> QED BY <1>2, WidthAssumption DEF Wrap16

LEMMA Wrap32Same ==
    ASSUME NEW x \in Int, 0 <= x, x <= 20 * (Scale * Scale)
    PROVE  Wrap32(x) = x /\ U32(x) = x
<1>1. x + Half32 \in 0..(2 * Half32 - 1) /\ x \in 0..(2 * Half32 - 1)
  BY WidthAssumption
<1>2. (x + Half32) % (2 * Half32) = x + Half32 /\ x % (2 * Half32) = x
  BY <1>1, WidthAssumption
<1> QED BY <1>2, WidthAssumption DEF Wrap32, U32

\* Seven pairs, of coordinates or of gaps, whose squares are within range.
Cap(d)   == IF d \in {5, 6} THEN 4 * (Scale * Scale) ELSE Scale * Scale
Small(f) == \A d \in Dims : f[d] \in Int /\ f[d] * f[d] \in Nat /\ f[d] * f[d] <= Cap(d)

LEMMA MaddSmall ==
    ASSUME NEW f, Small(f), NEW p \in 0..6
    PROVE  Madd(f, p) = f[2 * p] * f[2 * p] + f[2 * p + 1] * f[2 * p + 1]
<1>1. 2 * p \in Dims /\ 2 * p + 1 \in Dims
  BY DEF Dims
<1> DEFINE a == f[2 * p] * f[2 * p]
           b == f[2 * p + 1] * f[2 * p + 1]
<1>2. a \in Nat /\ b \in Nat /\ a <= 4 * (Scale * Scale) /\ b <= 4 * (Scale * Scale)
  BY <1>1, ScaleFacts DEF Small, Cap
<1>3. Madd(f, p) = Wrap32(a + b)
  BY DEF Madd
<1> HIDE DEF a, b
<1>4. a + b \in Int /\ 0 <= a + b /\ a + b <= 20 * (Scale * Scale)
  BY <1>2, ScaleFacts
<1>5. Wrap32(a + b) = a + b
  BY <1>4, Wrap32Same
<1> QED BY <1>3, <1>5 DEF a, b

\* Fourteen numbers, two of which may be four times as large.
LEMMA FourteenBounded ==
    ASSUME NEW g, \A d \in Dims : g[d] \in Nat, NEW m \in Nat,
           \A d \in Dims : g[d] <= (IF d \in {5, 6} THEN 4 * m ELSE m)
    PROVE  Sum(g) \in Nat /\ Sum(g) <= 20 * m
<1>1. \A a, b, i, j \in Nat : a + b \in Nat /\ (a <= i * m /\ b <= j * m => a + b <= (i + j) * m)
  <2> SUFFICES ASSUME NEW a \in Nat, NEW b \in Nat, NEW i \in Nat, NEW j \in Nat,
                      a <= i * m, b <= j * m
               PROVE  a + b <= (i + j) * m
    OBVIOUS
  <2>1. (i + j) * m = i * m + j * m /\ i * m \in Nat /\ j * m \in Nat
    OBVIOUS
  <2> QED BY <2>1
<1> DEFINE s1 == g[0] + g[1]
           s2 == s1 + g[2]
           s3 == s2 + g[3]
           s4 == s3 + g[4]
           s5 == s4 + g[5]
           s6 == s5 + g[6]
           s7 == s6 + g[7]
           s8 == s7 + g[8]
           s9 == s8 + g[9]
           s10 == s9 + g[10]
           s11 == s10 + g[11]
           s12 == s11 + g[12]
           s13 == s12 + g[13]
<1>2. Sum(g) = s13
  BY Zenon DEF Sum
<1>3. \A d \in Dims : g[d] \in Nat /\ (d \notin {5, 6} => g[d] <= 1 * m) /\ (d \in {5, 6} => g[d] <= 4 * m)
  OBVIOUS
<1>4. g[0] \in Nat /\ g[0] <= 1 * m
  BY <1>3 DEF Dims
<1>5. s1 \in Nat /\ s1 <= 2 * m
  <2>1. g[1] \in Nat /\ g[1] <= 1 * m
    BY <1>3 DEF Dims
  <2>2. s1 \in Nat /\ s1 <= (1 + 1) * m
    BY <1>1, <1>4, <2>1
  <2> QED BY <2>2
<1> HIDE DEF s1
<1>6. s2 \in Nat /\ s2 <= 3 * m
  <2>1. g[2] \in Nat /\ g[2] <= 1 * m
    BY <1>3 DEF Dims
  <2>2. s2 \in Nat /\ s2 <= (2 + 1) * m
    BY <1>1, <1>5, <2>1
  <2> QED BY <2>2
<1> HIDE DEF s2
<1>7. s3 \in Nat /\ s3 <= 4 * m
  <2>1. g[3] \in Nat /\ g[3] <= 1 * m
    BY <1>3 DEF Dims
  <2>2. s3 \in Nat /\ s3 <= (3 + 1) * m
    BY <1>1, <1>6, <2>1
  <2> QED BY <2>2
<1> HIDE DEF s3
<1>8. s4 \in Nat /\ s4 <= 5 * m
  <2>1. g[4] \in Nat /\ g[4] <= 1 * m
    BY <1>3 DEF Dims
  <2>2. s4 \in Nat /\ s4 <= (4 + 1) * m
    BY <1>1, <1>7, <2>1
  <2> QED BY <2>2
<1> HIDE DEF s4
<1>9. s5 \in Nat /\ s5 <= 9 * m
  <2>1. g[5] \in Nat /\ g[5] <= 4 * m
    BY <1>3 DEF Dims
  <2>2. s5 \in Nat /\ s5 <= (5 + 4) * m
    BY <1>1, <1>8, <2>1
  <2> QED BY <2>2
<1> HIDE DEF s5
<1>10. s6 \in Nat /\ s6 <= 13 * m
  <2>1. g[6] \in Nat /\ g[6] <= 4 * m
    BY <1>3 DEF Dims
  <2>2. s6 \in Nat /\ s6 <= (9 + 4) * m
    BY <1>1, <1>9, <2>1
  <2> QED BY <2>2
<1> HIDE DEF s6
<1>11. s7 \in Nat /\ s7 <= 14 * m
  <2>1. g[7] \in Nat /\ g[7] <= 1 * m
    BY <1>3 DEF Dims
  <2>2. s7 \in Nat /\ s7 <= (13 + 1) * m
    BY <1>1, <1>10, <2>1
  <2> QED BY <2>2
<1> HIDE DEF s7
<1>12. s8 \in Nat /\ s8 <= 15 * m
  <2>1. g[8] \in Nat /\ g[8] <= 1 * m
    BY <1>3 DEF Dims
  <2>2. s8 \in Nat /\ s8 <= (14 + 1) * m
    BY <1>1, <1>11, <2>1
  <2> QED BY <2>2
<1> HIDE DEF s8
<1>13. s9 \in Nat /\ s9 <= 16 * m
  <2>1. g[9] \in Nat /\ g[9] <= 1 * m
    BY <1>3 DEF Dims
  <2>2. s9 \in Nat /\ s9 <= (15 + 1) * m
    BY <1>1, <1>12, <2>1
  <2> QED BY <2>2
<1> HIDE DEF s9
<1>14. s10 \in Nat /\ s10 <= 17 * m
  <2>1. g[10] \in Nat /\ g[10] <= 1 * m
    BY <1>3 DEF Dims
  <2>2. s10 \in Nat /\ s10 <= (16 + 1) * m
    BY <1>1, <1>13, <2>1
  <2> QED BY <2>2
<1> HIDE DEF s10
<1>15. s11 \in Nat /\ s11 <= 18 * m
  <2>1. g[11] \in Nat /\ g[11] <= 1 * m
    BY <1>3 DEF Dims
  <2>2. s11 \in Nat /\ s11 <= (17 + 1) * m
    BY <1>1, <1>14, <2>1
  <2> QED BY <2>2
<1> HIDE DEF s11
<1>16. s12 \in Nat /\ s12 <= 19 * m
  <2>1. g[12] \in Nat /\ g[12] <= 1 * m
    BY <1>3 DEF Dims
  <2>2. s12 \in Nat /\ s12 <= (18 + 1) * m
    BY <1>1, <1>15, <2>1
  <2> QED BY <2>2
<1> HIDE DEF s12
<1>17. s13 \in Nat /\ s13 <= 20 * m
  <2>1. g[13] \in Nat /\ g[13] <= 1 * m
    BY <1>3 DEF Dims
  <2>2. s13 \in Nat /\ s13 <= (19 + 1) * m
    BY <1>1, <1>16, <2>1
  <2> QED BY <2>2
<1> HIDE DEF s13
<1> QED BY <1>2, <1>17

\* The sum of the squares, and the sum of any of them, fits a lane.
Squares(f) == [d \in Dims |-> f[d] * f[d]]

LEMMA PairsSmall ==
    ASSUME NEW f, Small(f)
    PROVE  /\ Madd(f, 0) = Squares(f)[0] + Squares(f)[1]
           /\ Madd(f, 1) = Squares(f)[2] + Squares(f)[3]
           /\ Madd(f, 2) = Squares(f)[4] + Squares(f)[5]
           /\ Madd(f, 3) = Squares(f)[6] + Squares(f)[7]
           /\ Madd(f, 4) = Squares(f)[8] + Squares(f)[9]
           /\ Madd(f, 5) = Squares(f)[10] + Squares(f)[11]
           /\ Madd(f, 6) = Squares(f)[12] + Squares(f)[13]
           /\ \A d \in Dims : Squares(f)[d] \in Nat /\ Squares(f)[d] <= Cap(d)
           /\ Sum(Squares(f)) \in Nat /\ Sum(Squares(f)) <= 20 * (Scale * Scale)
<1> DEFINE g == Squares(f)
<1>1. \A d \in Dims : g[d] = f[d] * f[d] /\ g[d] \in Nat /\ g[d] <= Cap(d)
  BY DEF Squares, Small
<1>2. /\ 2 * 0 = 0 /\ 2 * 1 = 2 /\ 2 * 2 = 4 /\ 2 * 3 = 6 /\ 2 * 4 = 8 /\ 2 * 5 = 10 /\ 2 * 6 = 12
      /\ 0 + 1 = 1 /\ 2 + 1 = 3 /\ 4 + 1 = 5 /\ 6 + 1 = 7 /\ 8 + 1 = 9 /\ 10 + 1 = 11 /\ 12 + 1 = 13
  OBVIOUS
<1>3. \A p \in 0..6 : Madd(f, p) = g[2 * p] + g[2 * p + 1]
  BY <1>1, MaddSmall DEF Dims
<1>4. /\ Madd(f, 0) = g[2 * 0] + g[2 * 0 + 1] /\ Madd(f, 1) = g[2 * 1] + g[2 * 1 + 1]
      /\ Madd(f, 2) = g[2 * 2] + g[2 * 2 + 1] /\ Madd(f, 3) = g[2 * 3] + g[2 * 3 + 1]
      /\ Madd(f, 4) = g[2 * 4] + g[2 * 4 + 1] /\ Madd(f, 5) = g[2 * 5] + g[2 * 5 + 1]
      /\ Madd(f, 6) = g[2 * 6] + g[2 * 6 + 1]
  BY <1>3
<1>5. /\ Madd(f, 0) = g[0] + g[1] /\ Madd(f, 1) = g[2] + g[3]
      /\ Madd(f, 2) = g[4] + g[5] /\ Madd(f, 3) = g[6] + g[7]
      /\ Madd(f, 4) = g[8] + g[9] /\ Madd(f, 5) = g[10] + g[11]
      /\ Madd(f, 6) = g[12] + g[13]
  BY <1>2, <1>4
<1>6. Sum(g) \in Nat /\ Sum(g) <= 20 * (Scale * Scale)
  BY <1>1, ScaleFacts, FourteenBounded DEF Cap
<1> QED BY <1>1, <1>5, <1>6

\* The sum of fourteen is the sum of seven pairs.
LEMMA SumInPairs ==
    ASSUME NEW g, \A d \in Dims : g[d] \in Nat
    PROVE  /\ g[0] + g[1] \in Nat /\ g[2] + g[3] \in Nat /\ g[4] + g[5] \in Nat
           /\ g[6] + g[7] \in Nat /\ g[8] + g[9] \in Nat /\ g[10] + g[11] \in Nat
           /\ g[12] + g[13] \in Nat
           /\ Sum(g) = (g[0] + g[1]) + (g[2] + g[3]) + (g[4] + g[5]) + (g[6] + g[7])
                        + (g[8] + g[9]) + (g[10] + g[11]) + (g[12] + g[13])
<1> DEFINE p0 == g[0] + g[1]
           p1 == g[2] + g[3]
           p2 == g[4] + g[5]
           p3 == g[6] + g[7]
           p4 == g[8] + g[9]
           p5 == g[10] + g[11]
           p6 == g[12] + g[13]
<1>1. /\ p0 \in Nat /\ p1 \in Nat /\ p2 \in Nat /\ p3 \in Nat /\ p4 \in Nat
      /\ p5 \in Nat /\ p6 \in Nat
      /\ Sum(g) = p0 + p1 + p2 + p3 + p4 + p5 + p6
  <2>1. /\ g[0] \in Nat /\ g[1] \in Nat /\ g[2] \in Nat /\ g[3] \in Nat /\ g[4] \in Nat
        /\ g[5] \in Nat /\ g[6] \in Nat /\ g[7] \in Nat /\ g[8] \in Nat /\ g[9] \in Nat
        /\ g[10] \in Nat /\ g[11] \in Nat /\ g[12] \in Nat /\ g[13] \in Nat
    BY DEF Dims
  <2>2. /\ p0 \in Nat /\ p1 \in Nat /\ p2 \in Nat /\ p3 \in Nat /\ p4 \in Nat
        /\ p5 \in Nat /\ p6 \in Nat
    BY <2>1
  <2>3. \A x, a, b \in Nat : (x + a) + b = x + (a + b) /\ x + (a + b) \in Nat
    OBVIOUS
  <2> DEFINE q0 == p0
  <2> DEFINE q1 == q0 + p1
  <2>4. (q0 + g[2]) + g[3] = q1 /\ q1 \in Nat
    BY <2>2, <2>1, <2>2, <2>3
  <2> DEFINE q2 == q1 + p2
  <2>5. (q1 + g[4]) + g[5] = q2 /\ q2 \in Nat
    BY <2>4, <2>1, <2>2, <2>3
  <2> DEFINE q3 == q2 + p3
  <2>6. (q2 + g[6]) + g[7] = q3 /\ q3 \in Nat
    BY <2>5, <2>1, <2>2, <2>3
  <2> DEFINE q4 == q3 + p4
  <2>7. (q3 + g[8]) + g[9] = q4 /\ q4 \in Nat
    BY <2>6, <2>1, <2>2, <2>3
  <2> DEFINE q5 == q4 + p5
  <2>8. (q4 + g[10]) + g[11] = q5 /\ q5 \in Nat
    BY <2>7, <2>1, <2>2, <2>3
  <2> DEFINE q6 == q5 + p6
  <2>9. (q5 + g[12]) + g[13] = q6 /\ q6 \in Nat
    BY <2>8, <2>1, <2>2, <2>3
  <2> HIDE DEF p1, p2, p3, p4, p5, p6
  <2>10. Sum(g) = q6
    BY <2>4, <2>5, <2>6, <2>7, <2>8, <2>9 DEF Sum
  <2> QED BY <2>2, <2>10
<1> QED BY <1>1

\* Sums of two lane values within range are exact.
LEMMA AddSmall ==
    ASSUME NEW a \in Nat, NEW b \in Nat, a + b <= 20 * (Scale * Scale)
    PROVE  Add(a, b) = a + b
    BY Wrap32Same DEF Add

---------------------------------------------------------------------------
(* The kernels.                                                            *)

Difference(q, r) == [d \in Dims |-> q[d] - r[d]]

LEMMA DifferenceSmall ==
    ASSUME NEW q, NEW r, IsVector(q), IsVector(r)
    PROVE  /\ Small(Difference(q, r))
           /\ [d \in Dims |-> Sub(q[d], r[d])] = Difference(q, r)
           /\ Dist(q, r) = Sum(Squares(Difference(q, r)))
<1>1. ASSUME NEW d \in Dims
      PROVE  /\ q[d] - r[d] \in Int /\ -(2 * Scale) <= q[d] - r[d] /\ q[d] - r[d] <= 2 * Scale
             /\ d \notin {5, 6} => -Scale <= q[d] - r[d] /\ q[d] - r[d] <= Scale
  <2>1. q[d] \in Range(d) /\ r[d] \in Range(d)
    BY DEF IsVector
  <2> QED BY <2>1, ScaleFacts DEF Range
<1>2. \A d \in Dims : Sub(q[d], r[d]) = q[d] - r[d]
  BY <1>1, Wrap16Same DEF Sub
<1>3. Small(Difference(q, r))
  <2> SUFFICES ASSUME NEW d \in Dims
               PROVE  LET x == q[d] - r[d] IN x \in Int /\ x * x \in Nat /\ x * x <= Cap(d)
    BY DEF Small, Difference
  <2> DEFINE x == q[d] - r[d]
  <2>1. /\ x \in Int /\ -(2 * Scale) <= x /\ x <= 2 * Scale
        /\ d \notin {5, 6} => -Scale <= x /\ x <= Scale
    BY <1>1
  <2> HIDE DEF x
  <2>2. CASE d \in {5, 6}
    <3>1. x * x \in Nat /\ x * x <= (2 * Scale) * (2 * Scale)
      <4>1. 2 * Scale \in Nat
        BY ScaleFacts
      <4> QED BY <2>1, <4>1, SquareBounds
    <3> QED BY <2>1, <2>2, <3>1, ScaleFacts DEF Cap, x
  <2>3. CASE d \notin {5, 6}
    <3>1. x * x \in Nat /\ x * x <= Scale * Scale
      BY <2>1, <2>3, ScaleFacts, SquareBounds
    <3> QED BY <2>1, <2>3, <3>1 DEF Cap, x
  <2> QED BY <2>2, <2>3
<1>4. Dist(q, r) = Sum(Squares(Difference(q, r)))
  <2>1. [d \in Dims |-> (q[d] - r[d]) * (q[d] - r[d])] = Squares(Difference(q, r))
    BY DEF Squares, Difference
  <2> QED BY <2>1 DEF Dist
<1> QED BY <1>2, <1>3, <1>4 DEF Difference

\* Partial and full sums of a lane are the exact ones.
LEMMA LaneExact ==
    ASSUME NEW q, NEW r, IsVector(q), IsVector(r)
    PROVE  /\ LaneDist(q, r) = Dist(q, r)
           /\ Dist(q, r) \in Nat /\ Dist(q, r) <= 20 * (Scale * Scale)
           /\ FirstCheck(q, r) \in Nat /\ FirstCheck(q, r) <= Dist(q, r)
           /\ SecondCheck(q, r) \in Nat /\ SecondCheck(q, r) <= Dist(q, r)
<1> DEFINE f == Difference(q, r)
           g == Squares(f)
           M == 20 * (Scale * Scale)
<1>1. Small(f) /\ [d \in Dims |-> Sub(q[d], r[d])] = f /\ Dist(q, r) = Sum(g)
  BY DifferenceSmall
<1>2. \A p : Spair(q, r, p) = Madd(f, p)
  BY <1>1 DEF Spair
<1> HIDE DEF f
<1>3. /\ Spair(q, r, 0) = g[0] + g[1] /\ Spair(q, r, 1) = g[2] + g[3]
      /\ Spair(q, r, 2) = g[4] + g[5] /\ Spair(q, r, 3) = g[6] + g[7]
      /\ Spair(q, r, 4) = g[8] + g[9] /\ Spair(q, r, 5) = g[10] + g[11]
      /\ Spair(q, r, 6) = g[12] + g[13]
      /\ \A d \in Dims : g[d] \in Nat
      /\ Sum(g) \in Nat /\ Sum(g) <= M
  BY <1>1, <1>2, PairsSmall
<1> HIDE DEF g
<1> DEFINE p0 == g[0] + g[1]
           p1 == g[2] + g[3]
           p2 == g[4] + g[5]
           p3 == g[6] + g[7]
           p4 == g[8] + g[9]
           p5 == g[10] + g[11]
           p6 == g[12] + g[13]
<1>4. /\ p0 \in Nat /\ p1 \in Nat /\ p2 \in Nat /\ p3 \in Nat /\ p4 \in Nat
      /\ p5 \in Nat /\ p6 \in Nat
      /\ Sum(g) = p0 + p1 + p2 + p3 + p4 + p5 + p6
  BY <1>3, SumInPairs
<1>5. /\ Spair(q, r, 0) = p0 /\ Spair(q, r, 1) = p1 /\ Spair(q, r, 2) = p2 /\ Spair(q, r, 3) = p3
      /\ Spair(q, r, 4) = p4 /\ Spair(q, r, 5) = p5 /\ Spair(q, r, 6) = p6
  BY <1>3
<1> HIDE DEF p0, p1, p2, p3, p4, p5, p6, M
<1>6. p0 + p1 + p2 + p3 + p4 + p5 + p6 <= M
  BY <1>3, <1>4
<1> DEFINE Fits(a) == a <= M
<1>7. \A a, b \in Nat : a + b <= M => Add(a, b) = a + b
  BY AddSmall DEF M
<1>8. M \in Nat
  BY ScaleFacts DEF M
<1>9. /\ Add(p0, p2) = p0 + p2 /\ Add(p1, p3) = p1 + p3
      /\ Add(p0 + p2, p1) = p0 + p2 + p1
      /\ Add(p0 + p2, p4) = p0 + p2 + p4
      /\ Add(p0 + p2 + p4, p1 + p3) = p0 + p2 + p4 + (p1 + p3)
      /\ Add(p0 + p2 + p4, p6) = p0 + p2 + p4 + p6
      /\ Add(p1 + p3, p5) = p1 + p3 + p5
      /\ Add(p0 + p2 + p4 + p6, p1 + p3 + p5) = Sum(g)
  BY <1>4, <1>6, <1>7, <1>8
<1>10. FirstCheck(q, r) = p0 + p2 + p1 /\ SecondCheck(q, r) = p0 + p2 + p4 + (p1 + p3)
  BY <1>5, <1>9 DEF FirstCheck, SecondCheck
<1>11. LaneDist(q, r) = U32(Sum(g))
  BY <1>5, <1>9 DEF LaneDist
<1>12. U32(Sum(g)) = Sum(g)
  BY <1>3, Wrap32Same DEF M
<1> QED BY <1>1, <1>3, <1>4, <1>10, <1>11, <1>12 DEF M

LEMMA SumGrows ==
    ASSUME NEW g, NEW h, \A d \in Dims : g[d] \in Nat /\ h[d] \in Nat /\ g[d] <= h[d]
    PROVE  Sum(g) <= Sum(h)
<1> DEFINE a1 == g[0] + g[1]
           a2 == a1 + g[2]
           a3 == a2 + g[3]
           a4 == a3 + g[4]
           a5 == a4 + g[5]
           a6 == a5 + g[6]
           a7 == a6 + g[7]
           a8 == a7 + g[8]
           a9 == a8 + g[9]
           a10 == a9 + g[10]
           a11 == a10 + g[11]
           a12 == a11 + g[12]
           a13 == a12 + g[13]
           b1 == h[0] + h[1]
           b2 == b1 + h[2]
           b3 == b2 + h[3]
           b4 == b3 + h[4]
           b5 == b4 + h[5]
           b6 == b5 + h[6]
           b7 == b6 + h[7]
           b8 == b7 + h[8]
           b9 == b8 + h[9]
           b10 == b9 + h[10]
           b11 == b10 + h[11]
           b12 == b11 + h[12]
           b13 == b12 + h[13]
<1>0. Sum(g) = a13 /\ Sum(h) = b13
  BY Zenon DEF Sum
<1>1. \A x, y, a, b \in Nat : x <= y /\ a <= b => x + a <= y + b /\ x + a \in Nat /\ y + b \in Nat
  OBVIOUS
<1>2. g[0] \in Nat /\ h[0] \in Nat /\ g[0] <= h[0]
  BY DEF Dims
<1>3. a1 \in Nat /\ b1 \in Nat /\ a1 <= b1
  <2>1. g[1] \in Nat /\ h[1] \in Nat /\ g[1] <= h[1]
    BY DEF Dims
  <2> QED BY <1>1, <1>2, <2>1
<1> HIDE DEF a1, b1
<1>4. a2 \in Nat /\ b2 \in Nat /\ a2 <= b2
  <2>1. g[2] \in Nat /\ h[2] \in Nat /\ g[2] <= h[2]
    BY DEF Dims
  <2> QED BY <1>1, <1>3, <2>1
<1> HIDE DEF a2, b2
<1>5. a3 \in Nat /\ b3 \in Nat /\ a3 <= b3
  <2>1. g[3] \in Nat /\ h[3] \in Nat /\ g[3] <= h[3]
    BY DEF Dims
  <2> QED BY <1>1, <1>4, <2>1
<1> HIDE DEF a3, b3
<1>6. a4 \in Nat /\ b4 \in Nat /\ a4 <= b4
  <2>1. g[4] \in Nat /\ h[4] \in Nat /\ g[4] <= h[4]
    BY DEF Dims
  <2> QED BY <1>1, <1>5, <2>1
<1> HIDE DEF a4, b4
<1>7. a5 \in Nat /\ b5 \in Nat /\ a5 <= b5
  <2>1. g[5] \in Nat /\ h[5] \in Nat /\ g[5] <= h[5]
    BY DEF Dims
  <2> QED BY <1>1, <1>6, <2>1
<1> HIDE DEF a5, b5
<1>8. a6 \in Nat /\ b6 \in Nat /\ a6 <= b6
  <2>1. g[6] \in Nat /\ h[6] \in Nat /\ g[6] <= h[6]
    BY DEF Dims
  <2> QED BY <1>1, <1>7, <2>1
<1> HIDE DEF a6, b6
<1>9. a7 \in Nat /\ b7 \in Nat /\ a7 <= b7
  <2>1. g[7] \in Nat /\ h[7] \in Nat /\ g[7] <= h[7]
    BY DEF Dims
  <2> QED BY <1>1, <1>8, <2>1
<1> HIDE DEF a7, b7
<1>10. a8 \in Nat /\ b8 \in Nat /\ a8 <= b8
  <2>1. g[8] \in Nat /\ h[8] \in Nat /\ g[8] <= h[8]
    BY DEF Dims
  <2> QED BY <1>1, <1>9, <2>1
<1> HIDE DEF a8, b8
<1>11. a9 \in Nat /\ b9 \in Nat /\ a9 <= b9
  <2>1. g[9] \in Nat /\ h[9] \in Nat /\ g[9] <= h[9]
    BY DEF Dims
  <2> QED BY <1>1, <1>10, <2>1
<1> HIDE DEF a9, b9
<1>12. a10 \in Nat /\ b10 \in Nat /\ a10 <= b10
  <2>1. g[10] \in Nat /\ h[10] \in Nat /\ g[10] <= h[10]
    BY DEF Dims
  <2> QED BY <1>1, <1>11, <2>1
<1> HIDE DEF a10, b10
<1>13. a11 \in Nat /\ b11 \in Nat /\ a11 <= b11
  <2>1. g[11] \in Nat /\ h[11] \in Nat /\ g[11] <= h[11]
    BY DEF Dims
  <2> QED BY <1>1, <1>12, <2>1
<1> HIDE DEF a11, b11
<1>14. a12 \in Nat /\ b12 \in Nat /\ a12 <= b12
  <2>1. g[12] \in Nat /\ h[12] \in Nat /\ g[12] <= h[12]
    BY DEF Dims
  <2> QED BY <1>1, <1>13, <2>1
<1> HIDE DEF a12, b12
<1>15. a13 \in Nat /\ b13 \in Nat /\ a13 <= b13
  <2>1. g[13] \in Nat /\ h[13] \in Nat /\ g[13] <= h[13]
    BY DEF Dims
  <2> QED BY <1>1, <1>14, <2>1
<1> QED BY <1>0, <1>15

\* The gap to a box is in range, the same in 16 bits, and no wider than the
\* difference to a member.
Gaps(q, b) == [d \in Dims |-> Gap(q[d], b.lo[d], b.hi[d])]

LEMMA GapsSmall ==
    ASSUME NEW q, NEW b, IsVector(q), IsVector(b.lo), IsVector(b.hi),
           NEW r, IsVector(r), Inside(r, b)
    PROVE  /\ LaneGaps(q, b) = Gaps(q, b)
           /\ Small(Gaps(q, b))
           /\ BoxLB(q, b) = Sum(Squares(Gaps(q, b)))
           /\ \A d \in Dims : Squares(Gaps(q, b))[d] <= Squares(Difference(q, r))[d]
<1> DEFINE gap(d) == Gap(q[d], b.lo[d], b.hi[d])
<1>1. ASSUME NEW d \in Dims
      PROVE  /\ gap(d) \in Nat /\ q[d] - r[d] \in Int
             /\ gap(d) <= q[d] - r[d] \/ gap(d) <= -(q[d] - r[d])
             /\ LaneGap(q[d], b.lo[d], b.hi[d]) = gap(d)
  <2>1. /\ q[d] \in Range(d) /\ r[d] \in Range(d) /\ b.lo[d] \in Range(d) /\ b.hi[d] \in Range(d)
        /\ b.lo[d] <= r[d] /\ r[d] <= b.hi[d]
    BY DEF IsVector, Inside
  <2>2. /\ q[d] \in Int /\ r[d] \in Int /\ b.lo[d] \in Int /\ b.hi[d] \in Int
        /\ -(2 * Scale) <= b.lo[d] - q[d] /\ b.lo[d] - q[d] <= 2 * Scale
        /\ -(2 * Scale) <= q[d] - b.hi[d] /\ q[d] - b.hi[d] <= 2 * Scale
    BY <2>1, ScaleFacts DEF Range
  <2>3. Sub(b.lo[d], q[d]) = b.lo[d] - q[d] /\ Sub(q[d], b.hi[d]) = q[d] - b.hi[d]
    BY <2>2, Wrap16Same DEF Sub
  <2>4. LaneGap(q[d], b.lo[d], b.hi[d]) = gap(d)
    BY <2>1, <2>2, <2>3 DEF LaneGap, Greatest, Gap
  <2>5. /\ gap(d) \in Nat
        /\ gap(d) <= q[d] - r[d] \/ gap(d) <= -(q[d] - r[d])
    BY <2>1, <2>2 DEF Gap
  <2> QED BY <2>2, <2>4, <2>5
<1>2. LaneGaps(q, b) = Gaps(q, b)
  BY <1>1 DEF LaneGaps, Gaps
<1>3. BoxLB(q, b) = Sum(Squares(Gaps(q, b)))
  <2>1. [d \in Dims |-> Gap(q[d], b.lo[d], b.hi[d]) * Gap(q[d], b.lo[d], b.hi[d])]
          = Squares(Gaps(q, b))
    BY DEF Squares, Gaps
  <2> QED BY <2>1 DEF BoxLB
<1>4. \A d \in Dims : Squares(Gaps(q, b))[d] = gap(d) * gap(d)
                      /\ Squares(Difference(q, r))[d] = (q[d] - r[d]) * (q[d] - r[d])
  BY DEF Squares, Gaps, Difference
<1>5. \A d \in Dims : Gaps(q, b)[d] = gap(d)
  BY DEF Gaps
<1> HIDE DEF gap
<1>6. \A d \in Dims : gap(d) * gap(d) <= (q[d] - r[d]) * (q[d] - r[d])
  BY <1>1, SquareGrows
<1>7. Small(Gaps(q, b))
  <2>1. \A d \in Dims : /\ (q[d] - r[d]) * (q[d] - r[d]) \in Nat
                        /\ (q[d] - r[d]) * (q[d] - r[d]) <= Cap(d)
    BY DifferenceSmall DEF Small, Difference
  <2>2. \A d \in Dims : gap(d) * gap(d) \in Nat /\ gap(d) \in Int
    BY <1>1
  <2>3. \A d \in Dims : Cap(d) \in Nat
    BY ScaleFacts DEF Cap
  <2>4. \A d \in Dims : gap(d) * gap(d) <= Cap(d)
    BY <1>6, <2>1, <2>2, <2>3
  <2> QED BY <1>5, <2>2, <2>4 DEF Small
<1> QED BY <1>2, <1>3, <1>4, <1>6, <1>7

LEMMA BoxExact ==
    ASSUME NEW q, NEW b, IsVector(q), IsVector(b.lo), IsVector(b.hi),
           NEW r, IsVector(r), Inside(r, b)
    PROVE  LaneBoxLB(q, b) = BoxLB(q, b) /\ BoxLB(q, b) \in Nat /\ BoxLB(q, b) <= Dist(q, r)
<1> DEFINE f == Gaps(q, b)
           g == Squares(f)
           M == 20 * (Scale * Scale)
<1>1. LaneGaps(q, b) = f /\ Small(f) /\ BoxLB(q, b) = Sum(g)
  BY GapsSmall
<1>2. /\ \A d \in Dims : g[d] \in Nat
      /\ Sum(g) \in Nat /\ Sum(g) <= M
      /\ Madd(f, 0) = g[0] + g[1] /\ Madd(f, 1) = g[2] + g[3]
      /\ Madd(f, 2) = g[4] + g[5] /\ Madd(f, 3) = g[6] + g[7]
      /\ Madd(f, 4) = g[8] + g[9] /\ Madd(f, 5) = g[10] + g[11]
      /\ Madd(f, 6) = g[12] + g[13]
  <2> HIDE DEF f
  <2> QED BY <1>1, PairsSmall
<1>3. Sum(g) <= Dist(q, r)
  <2>1. \A d \in Dims : Squares(Difference(q, r))[d] \in Nat
    BY DifferenceSmall, PairsSmall
  <2>2. \A d \in Dims : g[d] <= Squares(Difference(q, r))[d]
    BY GapsSmall
  <2>3. Sum(g) <= Sum(Squares(Difference(q, r)))
    <3> HIDE DEF g
    <3> QED BY <1>2, <2>1, <2>2, SumGrows
  <2> QED BY <2>3, DifferenceSmall
<1> HIDE DEF f, g
<1>4. LaneBoxLB(q, b) = Sum(g)
  <2> DEFINE p0 == g[0] + g[1]
             p1 == g[2] + g[3]
             p2 == g[4] + g[5]
             p3 == g[6] + g[7]
             p4 == g[8] + g[9]
             p5 == g[10] + g[11]
             p6 == g[12] + g[13]
  <2>1. /\ p0 \in Nat /\ p1 \in Nat /\ p2 \in Nat /\ p3 \in Nat /\ p4 \in Nat
        /\ p5 \in Nat /\ p6 \in Nat
        /\ Sum(g) = p0 + p1 + p2 + p3 + p4 + p5 + p6
    BY <1>2, SumInPairs
  <2>2. /\ Madd(f, 0) = p0 /\ Madd(f, 1) = p1 /\ Madd(f, 2) = p2 /\ Madd(f, 3) = p3
        /\ Madd(f, 4) = p4 /\ Madd(f, 5) = p5 /\ Madd(f, 6) = p6
    BY <1>2
  <2> HIDE DEF p0, p1, p2, p3, p4, p5, p6, M
  <2>3. M \in Nat /\ \A a, c \in Nat : a + c <= M => Add(a, c) = a + c
    BY AddSmall, ScaleFacts DEF M
  <2>4. p0 + p1 + p2 + p3 + p4 + p5 + p6 <= M
    BY <1>2, <2>1
  <2>5. /\ Add(p0, p1) = p0 + p1 /\ Add(p0 + p1, p2) = p0 + p1 + p2
        /\ Add(p0 + p1 + p2, p3) = p0 + p1 + p2 + p3
        /\ Add(p0 + p1 + p2 + p3, p4) = p0 + p1 + p2 + p3 + p4
        /\ Add(p0 + p1 + p2 + p3 + p4, p5) = p0 + p1 + p2 + p3 + p4 + p5
        /\ Add(p0 + p1 + p2 + p3 + p4 + p5, p6) = Sum(g)
    BY <2>1, <2>3, <2>4
  <2>6. LaneBoxLB(q, b) = U32(Sum(g))
    BY <1>1, <2>2, <2>5 DEF LaneBoxLB
  <2> QED BY <1>2, <2>6, Wrap32Same DEF M
<1> QED BY <1>1, <1>2, <1>3, <1>4

\* Quantizing what from_payload hands over gives a vector.
LEMMA QuantizedIsVector ==
    ASSUME NEW h \in Payloads
    PROVE  IsVector([d \in Dims |-> Quantize(h[d])])
<1> SUFFICES ASSUME NEW d \in Dims PROVE Quantize(h[d]) \in Range(d)
  BY DEF IsVector
<1>1. h[d] \in Raw(d)
  BY VectorAssumption
<1>2. CASE h[d] \in Nat
  <2>1. \A n \in Nat : n <= 2 * Scale => (n + 1) \div 2 \in 0..Scale
    BY ScaleFacts
  <2> QED BY <1>2, <2>1, ScaleFacts DEF Quantize, Half, Range
<1>3. CASE d \in {5, 6} /\ h[d] = -2 * Scale
  <2>1. (1 + 2 * Scale) \div 2 = Scale
    BY ScaleFacts
  <2> QED BY <1>3, <2>1, ScaleFacts DEF Quantize, Half, Range
<1> QED BY <1>1, <1>2, <1>3 DEF Raw

\* A payload that was not cut off is quantized to the nearest step.
LEMMA HalvesAreNear ==
    ASSUME NEW h \in Payloads, NEW d \in Dims, h[d] <= 2 * Scale
    PROVE  2 * Quantize(h[d]) - h[d] \in -1..1
<1>1. h[d] \in Raw(d)
  BY VectorAssumption
<1>2. CASE h[d] \in Nat
  <2> DEFINE n == h[d]
  <2>1. n \in Nat /\ ~ (n < -2 * Scale) /\ ~ (n > 2 * Scale)
    BY <1>2, ScaleFacts
  <2>2. Quantize(n) = (n + 1) \div 2
    BY <2>1 DEF Quantize, Half
  <2> HIDE DEF n
  <2>3. 2 * ((n + 1) \div 2) - n \in -1..1
    BY <2>1
  <2> QED BY <2>2, <2>3 DEF n
<1>3. CASE h[d] = -2 * Scale
  <2>1. (1 + 2 * Scale) \div 2 = Scale
    BY ScaleFacts
  <2>2. Quantize(h[d]) = -Scale
    BY <1>3, <2>1, ScaleFacts DEF Quantize, Half
  <2> QED BY <1>3, <2>2, ScaleFacts
<1> QED BY <1>1, <1>2, <1>3 DEF Raw

---------------------------------------------------------------------------
(* Theorems.                                                               *)

DInv == TypeOK /\ query = [d \in Dims |-> Quantize(payload[d])] /\ box \in Boxes
        /\ payload \in Payloads

LEMMA AlwaysDInv == Spec => []DInv
<1>1. Init => DInv
  <2> SUFFICES ASSUME Init PROVE DInv
    OBVIOUS
  <2>1. IsVector(query)
    BY QuantizedIsVector DEF Init
  <2>2. /\ IsVector(ref) /\ IsVector(box.lo) /\ IsVector(box.hi) /\ Inside(ref, box)
        /\ DOMAIN payload = Dims /\ \A d \in Dims : payload[d] \in Raw(d)
    BY VectorAssumption DEF Init
  <2>3. limit \in 0..(2 * Half32 - 1)
    BY WidthAssumption DEF Init
  <2> QED BY <2>1, <2>2, <2>3 DEF Init, DInv, TypeOK
<1>2. DInv /\ [NextLane]_vars => DInv'
  <2> SUFFICES ASSUME DInv, [NextLane]_vars PROVE DInv'
    OBVIOUS
  <2>1. CASE NextLane
    <3>1. /\ IsVector(ref') /\ Inside(ref', box) /\ limit' \in 0..(2 * Half32 - 1)
      BY <2>1, VectorAssumption DEF NextLane
    <3> QED BY <2>1, <3>1 DEF DInv, TypeOK, NextLane
  <2>2. CASE UNCHANGED vars
    BY <2>2 DEF DInv, TypeOK, vars
  <2> QED BY <2>1, <2>2
<1> QED BY <1>1, <1>2, PTL DEF Spec

\* Every lane works on vectors in their ranges.
THEOREM LaneTypeCorrect == Spec => []TypeOK
<1>1. DInv => TypeOK
  BY DEF DInv
<1> QED BY <1>1, AlwaysDInv, PTL

\* What is searched for is what was asked: a coordinate that was not cut off at
\* 1.0 is off by half a step at most.
THEOREM QuantizingIsNear == Spec => []QuantizeIsNear
<1>1. DInv => QuantizeIsNear
  BY HalvesAreNear DEF DInv, QuantizeIsNear
<1> QED BY <1>1, AlwaysDInv, PTL

\* The AVX2 kernels compute what the scalar ones do: nothing wraps.
THEOREM KernelsAgree == Spec => []EnginesAgree
<1>1. TypeOK => EnginesAgree
  BY LaneExact, BoxExact DEF TypeOK, EnginesAgree
<1> QED BY <1>1, LaneTypeCorrect, PTL

\* What IvfSearch assumes of its bounds, for the real formulas: a box is no
\* farther than its members.
THEOREM BoxesAreBounds == Spec => []BoxIsBound
<1>1. TypeOK => BoxIsBound
  <2> SUFFICES ASSUME TypeOK PROVE BoxIsBound
    OBVIOUS
  <2>1. /\ LaneBoxLB(query, box) = BoxLB(query, box) /\ BoxLB(query, box) <= Dist(query, ref)
    BY BoxExact DEF TypeOK
  <2>2. LaneDist(query, ref) = Dist(query, ref)
    BY LaneExact DEF TypeOK
  <2> QED BY <2>1, <2>2 DEF BoxIsBound
<1> QED BY <1>1, LaneTypeCorrect, PTL

\* Nothing given up on a partial sum was near enough to matter.
THEOREM GivingUpIsSound == Spec => []GivenUpIsFar
<1>1. TypeOK => GivenUpIsFar
  <2> SUFFICES ASSUME TypeOK PROVE GivenUpIsFar
    OBVIOUS
  <2> DEFINE D == Dist(query, ref)
  <2>1. /\ D \in Nat /\ D <= 20 * (Scale * Scale)
        /\ FirstCheck(query, ref) \in Nat /\ FirstCheck(query, ref) <= D
        /\ SecondCheck(query, ref) \in Nat /\ SecondCheck(query, ref) <= D
    BY LaneExact DEF TypeOK
  <2>2. limit \in Nat
    BY WidthAssumption DEF TypeOK
  <2>3. \A n \in 0..14 : PartialDist(query, ref, n) <= D
    <3> SUFFICES ASSUME NEW n \in 0..14 PROVE PartialDist(query, ref, n) <= D
      OBVIOUS
    <3> DEFINE f == Difference(query, ref)
               g == [d \in Dims |-> IF d < n THEN (query[d] - ref[d]) * (query[d] - ref[d]) ELSE 0]
    <3>1. Small(f) /\ D = Sum(Squares(f))
      BY DifferenceSmall DEF TypeOK
    <3>2. \A d \in Dims : Squares(f)[d] = (query[d] - ref[d]) * (query[d] - ref[d])
                          /\ Squares(f)[d] \in Nat
      BY <3>1 DEF Small, Squares, Difference
    <3>3. \A d \in Dims : g[d] \in Nat /\ g[d] <= Squares(f)[d]
      BY <3>2
    <3>4. PartialDist(query, ref, n) = Sum(g)
      BY DEF PartialDist
    <3> HIDE DEF f, g
    <3> QED BY <3>1, <3>2, <3>3, <3>4, SumGrows
  <2> HIDE DEF D
  <2>4. \A s \in Nat : s <= D /\ GivenUp(s, limit) => D >= limit
    BY <2>1, <2>2, WidthAssumption, ScaleFacts DEF GivenUp, Capped
  <2> QED BY <2>1, <2>3, <2>4 DEF GivenUpIsFar, D
<1> QED BY <1>1, LaneTypeCorrect, PTL
====
