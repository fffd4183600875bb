---- MODULE FraudRequestProofs ----
(***************************************************************************)
(* What holds of a request on its way to the search, for any requests and  *)
(* any cuts: framing; for any date from 1970 on, the calendar; and for any *)
(* document, what the scanner makes of it.                                 *)
(***************************************************************************)
EXTENDS FraudRequest, NatLemmas

---------------------------------------------------------------------------
(* Framing.                                                                *)

LEMMA FirstIsLeast ==
    ASSUME NEW S \in SUBSET Nat, S # {}
    PROVE  First(S) \in S /\ \A j \in S : First(S) <= j
<1>1. \E i \in S : \A j \in S : i <= j
  BY SmallestNat
<1> QED BY <1>1 DEF First

\* The blank lines among the first n bytes are those that end there.
LEMMA BlanksOfPrefix ==
    ASSUME NEW S, NEW s \in Seq(S), NEW n \in 0..Len(s)
    PROVE  Blanks(SubSeq(s, 1, n)) = {i \in Blanks(s) : i + 3 <= n}
<1> DEFINE t == SubSeq(s, 1, n)
           blank == <<<<"CR">>, <<"LF">>, <<"CR">>, <<"LF">>>>
<1>1. t \in Seq(S) /\ Len(t) = n /\ \A i \in 1..n : t[i] = s[i]
  OBVIOUS
<1>2. ASSUME NEW i \in Nat \ {0}, i + 3 <= n
      PROVE  SubSeq(t, i, i + 3) = SubSeq(s, i, i + 3)
  <2>1. SubSeq(t, i, i + 3) = [j \in 1..4 |-> t[i + j - 1]]
    BY <1>1, <1>2
  <2>2. SubSeq(s, i, i + 3) = [j \in 1..4 |-> s[i + j - 1]]
    BY <1>1, <1>2
  <2> HIDE DEF t
  <2>3. \A j \in 1..4 : t[i + j - 1] = s[i + j - 1]
    BY <1>1, <1>2
  <2> QED BY <2>1, <2>2, <2>3
<1> HIDE DEF t
<1>3. ASSUME NEW i
      PROVE  i \in Blanks(t) <=> i \in Blanks(s) /\ i + 3 <= n
  <2>1. i \in Blanks(t) <=> i \in 1..(n - 3) /\ SubSeq(t, i, i + 3) = blank
    BY <1>1 DEF Blanks
  <2>2. i \in Blanks(s) <=> i \in 1..(Len(s) - 3) /\ SubSeq(s, i, i + 3) = blank
    BY DEF Blanks
  <2>3. i \in 1..(n - 3) <=> i \in 1..(Len(s) - 3) /\ i + 3 <= n
    BY <1>1
  <2>4. i \in 1..(n - 3) => i \in Nat \ {0} /\ i + 3 <= n
    BY <1>1
  <2> HIDE DEF blank
  <2> QED BY <1>2, <2>1, <2>2, <2>3, <2>4
<1> QED BY <1>3 DEF t

LEMMA SmallMod ==
    ASSUME NEW a \in Nat, NEW n \in Nat \ {0}, a < n
    PROVE  a % n = a
OBVIOUS

\* Where a request's headers end.
EndOf(r)     == First(Blanks(r.stream)) + 3
HeadersOf(r) == SubSeq(r.stream, 1, EndOf(r))

LEMMA RequestFacts ==
    ASSUME NEW r \in Requests
    PROVE  /\ r.stream \in Seq({r.stream[i] : i \in DOMAIN r.stream})
           /\ r.cuts \subseteq 1..Len(r.stream)
           /\ r.len = IF HeadersOf(r)[1] = <<"POST">> THEN EndOf(r) + ContentLength(HeadersOf(r))
                      ELSE EndOf(r)
           /\ EndOf(r) \in 4..Len(r.stream) /\ r.len \in EndOf(r)..Len(r.stream)
           /\ r.len % UsizeMod = r.len
           /\ First(Blanks(r.stream)) \in Blanks(r.stream)
           /\ \A j \in Blanks(r.stream) : j \in Nat /\ First(Blanks(r.stream)) <= j
<1>1. WellFormed(r) /\ UsizeMod \in Nat \ {0}
  BY RequestAssumption
<1>2. Blanks(r.stream) \in SUBSET Nat
  BY DEF Blanks
<1>3. /\ First(Blanks(r.stream)) \in Blanks(r.stream)
      /\ \A j \in Blanks(r.stream) : First(Blanks(r.stream)) <= j
  BY <1>1, <1>2, FirstIsLeast DEF WellFormed
<1>4. First(Blanks(r.stream)) \in 1..(Len(r.stream) - 3)
  BY <1>3 DEF Blanks
<1>5. r.stream \in Seq({r.stream[i] : i \in DOMAIN r.stream})
  BY <1>1 DEF WellFormed
<1>6. EndOf(r) \in 4..Len(r.stream)
  <2>1. Len(r.stream) \in Nat
    BY <1>5
  <2> QED BY <1>4, <2>1 DEF EndOf
<1>7. r.len \in EndOf(r)..Len(r.stream) /\ r.len < UsizeMod
  BY <1>1 DEF WellFormed, EndOf
<1>8. r.len % UsizeMod = r.len
  <2>1. r.len \in Nat
    <3>1. Len(r.stream) \in Nat
      BY <1>5
    <3> QED BY <1>6, <1>7, <3>1
  <2> QED BY <1>1, <1>7, <2>1, SmallMod
<1>9. r.len = IF HeadersOf(r)[1] = <<"POST">> THEN EndOf(r) + ContentLength(HeadersOf(r))
              ELSE EndOf(r)
  BY <1>1 DEF WellFormed, EndOf, HeadersOf
<1> QED BY <1>1, <1>2, <1>3, <1>5, <1>6, <1>7, <1>8, <1>9 DEF WellFormed

\* Of the first n bytes parse makes a whole request once its last byte is
\* among them, and nothing before.
LEMMA ParsedWhole ==
    ASSUME NEW r \in Requests, NEW n \in 0..Len(r.stream)
    PROVE  LET parsed == Parse(SubSeq(r.stream, 1, n))
           IN /\ n < r.len => parsed.kind = "incomplete"
              /\ n >= r.len => /\ parsed.kind \in {"fraud", "ready", "bad"} /\ parsed.kind = r.kind
                               /\ parsed.start = EndOf(r) /\ parsed.consumed = r.len
<1> DEFINE s == r.stream
           f == First(Blanks(s))
           t == SubSeq(s, 1, n)
           B == Blanks(t)
           e == EndOf(r)
           h == HeadersOf(r)
<1>1. s \in Seq({s[i] : i \in DOMAIN s})
  BY RequestFacts
<1>2. B = {i \in Blanks(s) : i + 3 <= n}
  BY <1>1, BlanksOfPrefix
<1>3. /\ f \in Blanks(s) /\ \A j \in Blanks(s) : j \in Nat /\ f <= j
      /\ e = f + 3 /\ e \in 4..Len(s) /\ r.len \in e..Len(s) /\ r.len % UsizeMod = r.len
      /\ r.len = IF h[1] = <<"POST">> THEN e + ContentLength(h) ELSE e
  BY RequestFacts DEF EndOf
<1>4. Len(s) \in Nat /\ Len(t) = n
  BY <1>1
<1>5. ASSUME n < e PROVE B = {}
  <2>1. ASSUME NEW j \in Blanks(s) PROVE ~ (j + 3 <= n)
    BY <1>3, <1>4, <1>5, <2>1
  <2> QED BY <1>2, <2>1
<1>6. ASSUME n >= e PROVE B # {} /\ First(B) = f /\ SubSeq(t, 1, e) = h
  <2>1. f \in B
    BY <1>2, <1>3, <1>4, <1>6
  <2>2. B \in SUBSET Nat /\ \A j \in B : f <= j
    BY <1>2, <1>3
  <2>3. First(B) \in B /\ \A j \in B : First(B) <= j
    BY <2>1, <2>2, FirstIsLeast
  <2>4. First(B) = f
    BY <2>1, <2>2, <2>3
  <2>5. SubSeq(t, 1, e) = SubSeq(s, 1, e)
    <3>1. e \in 0..n
      BY <1>3, <1>4, <1>6
    <3>2. \A i \in 1..n : t[i] = s[i]
      BY <1>1
    <3>3. SubSeq(t, 1, e) = [i \in 1..e |-> t[i]] /\ SubSeq(s, 1, e) = [i \in 1..e |-> s[i]]
      BY <1>1, <1>4, <3>1
    <3> HIDE DEF t
    <3>4. \A i \in 1..e : t[i] = s[i]
      BY <3>1, <3>2
    <3> QED BY <3>3, <3>4
  <2> QED BY <2>1, <2>4, <2>5 DEF HeadersOf
<1>7. Parse(t) = IF B = {} THEN Incomplete
                 ELSE LET end == First(B) + 3
                          headers == SubSeq(t, 1, end)
                          total   == (end + ContentLength(headers)) % UsizeMod
                      IN CASE headers[1] = <<"POST">> -> IF Len(t) < total THEN Incomplete
                                                         ELSE Parsed("fraud", end, total)
                           [] headers[1] = <<"GET">>  -> Parsed("ready", end, end)
                           [] OTHER                   -> Parsed("bad", end, end)
  BY DEF Parse
<1> HIDE DEF s, f, t, B, e, h
<1>8. r.kind = IF h[1] = <<"POST">> THEN "fraud" ELSE IF h[1] = <<"GET">> THEN "ready" ELSE "bad"
  <2>1. h[1] = s[1]
    <3>1. h = [i \in 1..e |-> s[i]] /\ 1 \in 1..e
      BY <1>1, <1>3, <1>4 DEF h, e, s, HeadersOf
    <3> QED BY <3>1
  <2> QED BY <2>1, PayloadAssumption DEF s
<1>9. CASE n < e
  <2>1. Parse(t) = Incomplete
    BY <1>5, <1>7, <1>9
  <2> QED BY <1>3, <1>4, <1>9, <2>1 DEF Incomplete, Parsed, t, s, e
<1>10. CASE n >= e
  <2> DEFINE total == (e + ContentLength(h)) % UsizeMod
  <2>1. Parse(t) = CASE h[1] = <<"POST">> -> IF n < total THEN Incomplete
                                             ELSE Parsed("fraud", e, total)
                     [] h[1] = <<"GET">>  -> Parsed("ready", e, e)
                     [] OTHER             -> Parsed("bad", e, e)
    BY <1>3, <1>4, <1>6, <1>7, <1>10
  <2>2. CASE h[1] = <<"POST">>
    <3>1. total = r.len
      BY <1>3, <2>2
    <3>2. Parse(t) = IF n < r.len THEN Incomplete ELSE Parsed("fraud", e, r.len)
      BY <2>1, <2>2, <3>1
    <3> QED BY <1>3, <1>4, <1>8, <2>2, <3>2 DEF Incomplete, Parsed, t, s, e
  <2>3. CASE h[1] # <<"POST">>
    <3>1. r.len = e
      BY <1>3, <2>3
    <3>2. \/ Parse(t) = Parsed("ready", e, e) /\ r.kind = "ready"
          \/ Parse(t) = Parsed("bad", e, e) /\ r.kind = "bad"
      <4>1. CASE h[1] = <<"GET">>
        BY <1>8, <2>1, <2>3, <4>1
      <4>2. CASE h[1] # <<"GET">>
        BY <1>8, <2>1, <2>3, <4>2
      <4> QED BY <4>1, <4>2
    <3> QED BY <1>3, <1>4, <1>10, <3>1, <3>2 DEF Parsed, t, s, e
  <2> QED BY <2>2, <2>3
<1> QED BY <1>3, <1>4, <1>9, <1>10

---------------------------------------------------------------------------

\* What is framed stays within what was sent.
Arrived ==
    /\ request \in Requests
    /\ got \in 0..Len(request.stream)
    /\ stage \in {"frame", "scan", "done"}

\* The walk reads the bytes behind the headers up to the end of the request,
\* and no others.
BodyOnly == stage # "frame" =>
    body = SubSeq(request.stream, EndOf(request) + 1, request.len)

FrameInv == Arrived /\ FramedWhole /\ BodyOnly

LEMMA FrameInit == Init => FrameInv
<1> SUFFICES ASSUME Init PROVE FrameInv
  OBVIOUS
<1>1. request \in Requests /\ got = 0 /\ stage = "frame"
  BY DEF Init
<1>2. /\ EndOf(request) \in 4..Len(request.stream)
      /\ request.len \in EndOf(request)..Len(request.stream)
      /\ request.stream \in Seq({request.stream[i] : i \in DOMAIN request.stream})
  BY <1>1, RequestFacts
<1> QED BY <1>1, <1>2 DEF FrameInv, Arrived, FramedWhole, BodyOnly

LEMMA FrameStep == FrameInv /\ [Next]_vars => FrameInv'
<1> SUFFICES ASSUME FrameInv, [Next]_vars PROVE FrameInv'
  OBVIOUS
<1> USE DEF FrameInv, Arrived, FramedWhole, BodyOnly
<1>1. CASE Arrive
  <2>1. stage = "frame" /\ request' = request /\ got' \in request.cuts
    BY <1>1 DEF Arrive
  <2>2. got' \in 1..Len(request.stream) /\ Len(request.stream) \in Nat
    <3>1. /\ request.cuts \subseteq 1..Len(request.stream)
          /\ request.stream \in Seq({request.stream[i] : i \in DOMAIN request.stream})
      BY RequestFacts
    <3>2. Len(request.stream) \in Nat
      BY <3>1
    <3> QED BY <2>1, <3>1, <3>2
  <2>3. request.len \in Nat
    <3>1. /\ EndOf(request) \in 4..Len(request.stream)
          /\ request.len \in EndOf(request)..Len(request.stream)
      BY RequestFacts
    <3> QED BY <2>2, <3>1
  <2> DEFINE parsed == Parse(SubSeq(request.stream, 1, got'))
  <2>4. /\ got' < request.len => parsed.kind = "incomplete"
        /\ got' >= request.len => /\ parsed.kind \in {"fraud", "ready", "bad"}
                                  /\ parsed.start = EndOf(request)
                                  /\ parsed.consumed = request.len
    <3>1. got' \in 0..Len(request.stream)
      BY <2>2
    <3> QED BY <3>1, ParsedWhole
  <2>5. /\ stage' = CASE parsed.kind = "incomplete" -> "frame"
                      [] parsed.kind = "fraud" -> "scan"
                      [] OTHER -> "done"
        /\ used' = parsed.consumed
        /\ body' = SubSeq(request.stream, parsed.start + 1, parsed.consumed)
    BY <1>1 DEF Arrive
  <2> HIDE DEF parsed
  <2>6. CASE got' < request.len
    BY <2>1, <2>2, <2>3, <2>4, <2>5, <2>6
  <2>7. CASE got' >= request.len
    <3>1. stage' \in {"scan", "done"}
      BY <2>4, <2>5, <2>7
    <3>2. body' = SubSeq(request.stream, EndOf(request) + 1, request.len) /\ used' = request.len
      BY <2>4, <2>5, <2>7
    <3>3. EndOf(request)' = EndOf(request)
      BY <2>1 DEF EndOf, First, Blanks
    <3> QED BY <2>1, <2>2, <2>3, <2>7, <3>1, <3>2, <3>3
  <2> QED BY <2>2, <2>3, <2>6, <2>7
<1> DEFINE Walked == /\ request' = request /\ got' = got /\ used' = used /\ body' = body
                     /\ stage # "frame" /\ stage' \in {"scan", "done"}
<1>2. ASSUME request' = request PROVE EndOf(request)' = EndOf(request)
  BY <1>2 DEF EndOf, First, Blanks
<1>3. ASSUME Walked PROVE FrameInv'
  BY <1>2, <1>3
<1>4. CASE OpenBrace
  <2>1. Walked
    BY <1>4 DEF OpenBrace, Is, Scanning
  <2> QED BY <1>3, <2>1
<1>5. CASE CloseBrace
  <2>1. Walked
    BY <1>5 DEF CloseBrace, Is, Scanning
  <2> QED BY <1>3, <2>1
<1>6. CASE Other
  <2>1. Walked
    BY <1>6 DEF Other, Scanning
  <2> QED BY <1>3, <2>1
<1>7. CASE NotKey
  <2>1. Walked
    BY <1>7 DEF NotKey, Is, Scanning
  <2> QED BY <1>3, <2>1
<1>8. CASE Truncated
  <2>1. Walked
    BY <1>8 DEF Truncated, Is, Scanning
  <2> QED BY <1>3, <2>1
<1>9. CASE KeySection
  <2>1. Walked
    BY <1>9 DEF KeySection, Is, Scanning
  <2> QED BY <1>3, <2>1
<1>10. CASE KeyArray
  <2>1. Walked
    BY <1>10 DEF KeyArray, Is, Scanning
  <2> QED BY <1>3, <2>1
<1>11. CASE KeyField
  <2>1. Walked
    BY <1>11 DEF KeyField, Is, Scanning
  <2> QED BY <1>3, <2>1
<1>12. CASE Finish
  <2>1. Walked
    BY <1>12 DEF Finish
  <2> QED BY <1>3, <2>1
<1>13. CASE UNCHANGED vars
  BY <1>2, <1>13 DEF vars
<1> QED BY <1>1, <1>13, <1>4, <1>5, <1>6, <1>7, <1>8, <1>9, <1>10, <1>11, <1>12 DEF Next

\* However the bytes are cut and whatever follows, a request is parsed when
\* its last byte is there, and for exactly its own bytes (parse, http.rs).
THEOREM Framing == Spec => []FramedWhole
<1>1. FrameInv => FramedWhole
  BY DEF FrameInv
<1> QED BY <1>1, FrameInit, FrameStep, PTL DEF Spec

\* What normalize walks is the body of that request, whole, and nothing of what
\* follows it (the slice every worker hands to normalize).
THEOREM BodyDelivered == Spec => []BodyOnly
<1>1. FrameInv => BodyOnly
  BY DEF FrameInv
<1> QED BY <1>1, FrameInit, FrameStep, PTL DEF Spec

---------------------------------------------------------------------------
(* The calendar.                                                           *)

\* The leap years up to y since the year 0, by the rule.
LeapSum(y) == y \div 4 - y \div 100 + y \div 400

LEMMA LeapStep ==
    ASSUME NEW y \in Nat \ {0}
    PROVE  LeapSum(y) = LeapSum(y - 1) + (IF IsLeap(y) THEN 1 ELSE 0)
<1>1. y \div 4 = (y - 1) \div 4 + (IF y % 4 = 0 THEN 1 ELSE 0)
  OBVIOUS
<1>2. y \div 100 = (y - 1) \div 100 + (IF y % 100 = 0 THEN 1 ELSE 0)
  OBVIOUS
<1>3. y \div 400 = (y - 1) \div 400 + (IF y % 400 = 0 THEN 1 ELSE 0)
  OBVIOUS
<1>4. (y % 400 = 0 => y % 100 = 0) /\ (y % 100 = 0 => y % 4 = 0)
  OBVIOUS
<1>5. /\ y \div 4 \in Int /\ y \div 100 \in Int /\ y \div 400 \in Int
      /\ (y - 1) \div 4 \in Int /\ (y - 1) \div 100 \in Int /\ (y - 1) \div 400 \in Int
  OBVIOUS
<1> QED BY <1>1, <1>2, <1>3, <1>4, <1>5 DEF LeapSum, IsLeap

\* Counting them agrees with the rule.
LEMMA LeapsCounted ==
    ASSUME NEW y \in Nat, y >= 1970
    PROVE  Cardinality({z \in 1970..(y - 1) : IsLeap(z)}) = LeapSum(y - 1) - 477
<1> DEFINE Z(n) == {z \in 1970..(1970 + n - 1) : IsLeap(z)}
           U == {n \in Nat : /\ IsFiniteSet(Z(n))
                             /\ Cardinality(Z(n)) = LeapSum(1970 + n - 1) - 477}
<1>1. 0 \in U
  <2>1. Z(0) = {}
    OBVIOUS
  <2>2. LeapSum(1969) = 477
    BY DEF LeapSum
  <2> QED BY <2>1, <2>2, FS_EmptySet
<1>2. ASSUME NEW n \in Nat, n \in U PROVE n + 1 \in U
  <2> DEFINE x == 1970 + n
  <2>1. x \in Nat \ {0} /\ x \notin Z(n)
    OBVIOUS
  <2>2. Z(n + 1) = IF IsLeap(x) THEN Z(n) \cup {x} ELSE Z(n)
    <3>1. 1970..(1970 + (n + 1) - 1) = (1970..(1970 + n - 1)) \cup {x}
      OBVIOUS
    <3> QED BY <3>1
  <2>3. LeapSum(x) = LeapSum(x - 1) + (IF IsLeap(x) THEN 1 ELSE 0)
    BY <2>1, LeapStep
  <2>4. /\ IsFiniteSet(Z(n)) /\ Cardinality(Z(n)) = LeapSum(1970 + n - 1) - 477
    BY <1>2
  <2>5. 1970 + n - 1 = x - 1 /\ 1970 + (n + 1) - 1 = x
    OBVIOUS
  <2> HIDE DEF Z, x
  <2>6. IsFiniteSet(Z(n + 1)) /\ Cardinality(Z(n + 1)) =
            Cardinality(Z(n)) + (IF IsLeap(x) THEN 1 ELSE 0)
    <3>1. Cardinality(Z(n)) \in Nat
      BY <2>4, FS_CardinalityType
    <3> QED BY <2>1, <2>2, <2>4, <3>1, FS_AddElement
  <2>7. LeapSum(x - 1) \in Int
    BY <2>1 DEF LeapSum
  <2> QED BY <2>3, <2>4, <2>5, <2>6, <2>7
<1>3. Nat \subseteq U
  <2> HIDE DEF U
  <2> QED BY <1>1, <1>2, SetInduction
<1>4. y - 1970 \in Nat /\ 1970 + (y - 1970) - 1 = y - 1
  OBVIOUS
<1>5. y - 1970 \in U
  <2> HIDE DEF U
  <2> QED BY <1>3, <1>4
<1> QED BY <1>4, <1>5

\* The days of the year y before month m.
Before(y, m) == {x \in (1..(m - 1)) \X (1..31) : x[2] <= DaysIn(y, x[1])}

LEMMA MonthStep ==
    ASSUME NEW y, NEW m \in 1..12, IsFiniteSet(Before(y, m))
    PROVE  /\ IsFiniteSet(Before(y, m + 1))
           /\ Cardinality(Before(y, m + 1)) = Cardinality(Before(y, m)) + DaysIn(y, m)
<1> DEFINE D == DaysIn(y, m)
           M == {<<m, e>> : e \in 1..D}
<1>1. D \in 28..31
  BY DEF DaysIn
<1>2. Before(y, m + 1) = Before(y, m) \cup M
  <2>1. 1..((m + 1) - 1) = (1..(m - 1)) \cup {m}
    OBVIOUS
  <2> HIDE DEF D
  <2>2. \A e : e \in 1..D <=> e \in 1..31 /\ e <= D
    BY <1>1
  <2> QED BY <2>1, <2>2, SMTT(30) DEF Before, D
<1>3. Before(y, m) \cap M = {}
  <2>1. m \notin 1..(m - 1)
    OBVIOUS
  <2> QED BY <2>1 DEF Before
<1>4. IsFiniteSet(M) /\ Cardinality(M) = D
  <2> DEFINE f == [e \in 1..D |-> <<m, e>>]
  <2>0. D \in Nat \ {0}
    BY <1>1
  <2> HIDE DEF D
  <2>1. IsFiniteSet(1..D) /\ Cardinality(1..D) = D
    BY <2>0, FS_Interval
  <2>2. f \in Bijection(1..D, M)
    BY DEF Bijection, Injection, Surjection, IsInjective
  <2> HIDE DEF f
  <2> QED BY <2>1, <2>2, FS_Bijection DEF ExistsBijection
<1> HIDE DEF M, D
<1>5. /\ IsFiniteSet(Before(y, m) \cup M)
      /\ Cardinality(Before(y, m) \cup M) =
            Cardinality(Before(y, m)) + Cardinality(M) - Cardinality(Before(y, m) \cap M)
  BY <1>4, FS_Union
<1>6. Cardinality(Before(y, m) \cap M) = 0
  BY <1>3, FS_EmptySet
<1>7. Cardinality(Before(y, m)) \in Nat
  BY FS_CardinalityType
<1> QED BY <1>1, <1>2, <1>4, <1>5, <1>6, <1>7 DEF D

\* The days before each month, in a year that may be a leap year.
LEMMA MonthsCounted ==
    ASSUME NEW y
    PROVE  LET leap == IF IsLeap(y) THEN 1 ELSE 0 IN
           /\ Cardinality(Before(y, 1)) = 0     /\ Cardinality(Before(y, 2)) = 31
           /\ Cardinality(Before(y, 3)) = 59 + leap  /\ Cardinality(Before(y, 4)) = 90 + leap
           /\ Cardinality(Before(y, 5)) = 120 + leap /\ Cardinality(Before(y, 6)) = 151 + leap
           /\ Cardinality(Before(y, 7)) = 181 + leap /\ Cardinality(Before(y, 8)) = 212 + leap
           /\ Cardinality(Before(y, 9)) = 243 + leap /\ Cardinality(Before(y, 10)) = 273 + leap
           /\ Cardinality(Before(y, 11)) = 304 + leap /\ Cardinality(Before(y, 12)) = 334 + leap
<1> DEFINE leap == IF IsLeap(y) THEN 1 ELSE 0
           C(m) == Cardinality(Before(y, m))
           F(m) == IsFiniteSet(Before(y, m))
<1>1. F(1) /\ C(1) = 0
  <2>1. Before(y, 1) = {}
    BY DEF Before
  <2> QED BY <2>1, FS_EmptySet
<1>2. \A m \in 1..12 : F(m) => F(m + 1) /\ C(m + 1) = C(m) + DaysIn(y, m)
  BY MonthStep
<1> HIDE DEF C, F
<1>3. F(2) /\ C(2) = 31
  BY <1>1, <1>2 DEF DaysIn
<1>4. F(3) /\ C(3) = 59 + leap
  <2>1. F(2 + 1) /\ C(2 + 1) = C(2) + DaysIn(y, 2)
    BY <1>2, <1>3
  <2> QED BY <1>3, <2>1 DEF DaysIn
<1> HIDE DEF leap
<1>0. leap \in {0, 1}
  BY DEF leap
<1>5. F(4) /\ C(4) = 90 + leap
  <2>1. F(3 + 1) /\ C(3 + 1) = C(3) + DaysIn(y, 3)
    BY <1>2, <1>4
  <2> QED BY <1>0, <1>4, <2>1 DEF DaysIn
<1>6. F(5) /\ C(5) = 120 + leap
  <2>1. F(4 + 1) /\ C(4 + 1) = C(4) + DaysIn(y, 4)
    BY <1>2, <1>5
  <2> QED BY <1>0, <1>5, <2>1 DEF DaysIn
<1>7. F(6) /\ C(6) = 151 + leap
  <2>1. F(5 + 1) /\ C(5 + 1) = C(5) + DaysIn(y, 5)
    BY <1>2, <1>6
  <2> QED BY <1>0, <1>6, <2>1 DEF DaysIn
<1>8. F(7) /\ C(7) = 181 + leap
  <2>1. F(6 + 1) /\ C(6 + 1) = C(6) + DaysIn(y, 6)
    BY <1>2, <1>7
  <2> QED BY <1>0, <1>7, <2>1 DEF DaysIn
<1>9. F(8) /\ C(8) = 212 + leap
  <2>1. F(7 + 1) /\ C(7 + 1) = C(7) + DaysIn(y, 7)
    BY <1>2, <1>8
  <2> QED BY <1>0, <1>8, <2>1 DEF DaysIn
<1>10. F(9) /\ C(9) = 243 + leap
  <2>1. F(8 + 1) /\ C(8 + 1) = C(8) + DaysIn(y, 8)
    BY <1>2, <1>9
  <2> QED BY <1>0, <1>9, <2>1 DEF DaysIn
<1>11. F(10) /\ C(10) = 273 + leap
  <2>1. F(9 + 1) /\ C(9 + 1) = C(9) + DaysIn(y, 9)
    BY <1>2, <1>10
  <2> QED BY <1>0, <1>10, <2>1 DEF DaysIn
<1>12. F(11) /\ C(11) = 304 + leap
  <2>1. F(10 + 1) /\ C(10 + 1) = C(10) + DaysIn(y, 10)
    BY <1>2, <1>11
  <2> QED BY <1>0, <1>11, <2>1 DEF DaysIn
<1>13. F(12) /\ C(12) = 334 + leap
  <2>1. F(11 + 1) /\ C(11 + 1) = C(11) + DaysIn(y, 11)
    BY <1>2, <1>12
  <2> QED BY <1>0, <1>12, <2>1 DEF DaysIn
<1> QED BY <1>1, <1>3, <1>4, <1>5, <1>6, <1>7, <1>8, <1>9, <1>10, <1>11, <1>12, <1>13 DEF C, leap

\* The eras cancel out: a year that starts in March.
Eras(y, n) ==
    (y \div 400) * 146097
        + ((y - (y \div 400) * 400) * 365 + (y - (y \div 400) * 400) \div 4
             - (y - (y \div 400) * 400) \div 100 + n)

LEMMA ErasCancel ==
    ASSUME NEW y \in Nat, NEW n \in Int
    PROVE  Eras(y, n) = 365 * y + LeapSum(y) + n
<1> DEFINE e == y \div 400
           r == y - e * 400
<1>1. e \in Nat /\ r \in 0..399 /\ y = 400 * e + r
  OBVIOUS
<1> HIDE DEF e, r
<1>2. y \div 4 = 100 * e + r \div 4
  BY <1>1
<1>3. y \div 100 = 4 * e + r \div 100
  BY <1>1
<1>4. r \div 4 \in Int /\ r \div 100 \in Int
  BY <1>1
<1>5. y \div 400 = e
  BY DEF e
<1>6. LeapSum(y) = 97 * e + r \div 4 - r \div 100
  BY <1>1, <1>2, <1>3, <1>4, <1>5 DEF LeapSum
<1>7. e * 146097 + (r * 365 + r \div 4 - r \div 100 + n) = 365 * y + LeapSum(y) + n
  BY <1>1, <1>4, <1>6
<1> QED BY <1>7 DEF e, r, Eras

\* The day of the year that starts in March.
MarchYear(y, m) == IF m < 3 THEN y - 1 ELSE y
MarchDay(m)     == (153 * (IF m < 3 THEN m + 9 ELSE m - 3) + 2) \div 5

LEMMA DaysByMarch ==
    ASSUME NEW y \in Nat \ {0}, NEW m \in 1..12, NEW d \in Nat
    PROVE  FastDays(y, m, d) = 365 * MarchYear(y, m) + LeapSum(MarchYear(y, m))
                                  + MarchDay(m) + d - 719469
<1> DEFINE Y == MarchYear(y, m)
           n == MarchDay(m) + d - 1
<1>1. Y \in Nat /\ MarchDay(m) \in Nat /\ n \in Int
  BY DEF MarchYear, MarchDay
<1>2. FastDays(y, m, d) = Eras(Y, n) - 719468
  <2>1. (m <= 2) <=> (m < 3)
    OBVIOUS
  <2> QED BY <2>1 DEF FastDays, MarchYear, MarchDay, Eras
<1>3. n = MarchDay(m) + d - 1
  OBVIOUS
<1> HIDE DEF Y, n
<1>4. Eras(Y, n) = 365 * Y + LeapSum(Y) + n
  BY <1>1, ErasCancel
<1>5. LeapSum(Y) \in Int
  BY <1>1 DEF LeapSum
<1> QED BY <1>1, <1>2, <1>3, <1>4, <1>5 DEF Y

\* The days of fast_epoch are the days of the calendar, for every date from
\* 1970 on (fast_epoch, normalize.rs).
THEOREM FastDaysCount ==
    ASSUME NEW y \in Nat, y >= 1970, NEW m \in 1..12, NEW d \in 1..31
    PROVE  FastDays(y, m, d) = DayNumber(y, m, d)
<1> DEFINE leap == IF IsLeap(y) THEN 1 ELSE 0
           L == LeapSum(y - 1)
           B == Cardinality(Before(y, m))
<1>1. FastDays(y, m, d) = 365 * MarchYear(y, m) + LeapSum(MarchYear(y, m))
                             + MarchDay(m) + d - 719469
  BY DaysByMarch
<1>2. DayNumber(y, m, d) = 365 * (y - 1970) + (L - 477) + B + d - 1
  BY LeapsCounted DEF DayNumber, Before
<1>3. LeapSum(y) = L + leap /\ L \in Int /\ leap \in {0, 1}
  <2>1. L \in Int
    BY DEF LeapSum
  <2> QED BY <2>1, LeapStep
<1> HIDE DEF L, leap
<1>4. m < 3 => B = MarchDay(m) - 306 /\ MarchDay(m) \in Nat
  <2>1. CASE m = 1
    BY <2>1, MonthsCounted DEF MarchDay
  <2>2. CASE m = 2
    BY <2>2, MonthsCounted DEF MarchDay
  <2> QED BY <2>1, <2>2
<1>5. ~ (m < 3) => B = MarchDay(m) + 59 + leap /\ MarchDay(m) \in Nat
  <2>0. \A z \in Nat : z + 59 = 59 + z
    OBVIOUS
  <2>1. CASE m = 3
    BY <1>3, <2>1, MonthsCounted DEF MarchDay, leap
  <2>2. CASE m = 4
    BY <1>3, <2>2, MonthsCounted DEF MarchDay, leap
  <2>3. CASE m = 5
    BY <1>3, <2>3, MonthsCounted DEF MarchDay, leap
  <2>4. CASE m = 6
    BY <1>3, <2>4, MonthsCounted DEF MarchDay, leap
  <2>5. CASE m = 7
    BY <1>3, <2>5, MonthsCounted DEF MarchDay, leap
  <2>6. CASE m = 8
    BY <1>3, <2>6, MonthsCounted DEF MarchDay, leap
  <2>7. CASE m = 9
    BY <1>3, <2>7, MonthsCounted DEF MarchDay, leap
  <2>8. CASE m = 10
    BY <1>3, <2>8, MonthsCounted DEF MarchDay, leap
  <2>9. CASE m = 11
    BY <1>3, <2>9, MonthsCounted DEF MarchDay, leap
  <2>10. CASE m = 12
    BY <1>3, <2>10, MonthsCounted DEF MarchDay, leap
  <2> QED BY <2>1, <2>2, <2>3, <2>4, <2>5, <2>6, <2>7, <2>8, <2>9, <2>10
<1> HIDE DEF B
<1>6. CASE m < 3
  <2>1. MarchYear(y, m) = y - 1
    BY <1>6 DEF MarchYear
  <2>2. FastDays(y, m, d) = 365 * (y - 1) + L + MarchDay(m) + d - 719469
    BY <1>1, <2>1 DEF L
  <2> QED BY <1>2, <1>3, <1>4, <1>6, <2>2
<1>7. CASE ~ (m < 3)
  <2>1. MarchYear(y, m) = y
    BY <1>7 DEF MarchYear
  <2>2. FastDays(y, m, d) = 365 * y + (L + leap) + MarchDay(m) + d - 719469
    BY <1>1, <1>3, <2>1
  <2> QED BY <1>2, <1>3, <1>5, <1>7, <2>2
<1> QED BY <1>6, <1>7

\* Seven days make a week.
LEMMA SameDay ==
    ASSUME NEW a \in Int, NEW k \in Int
    PROVE  (a + 7 * k) % 7 = a % 7
    OBVIOUS

\* The day of the week is the calendar's, for every date from 1970 on
\* (fast_weekday, normalize.rs).
THEOREM FastWeekdayCounts ==
    ASSUME NEW y \in Nat, y >= 1970, NEW m \in 1..12, NEW d \in 1..31
    PROVE  FastWeekday(y, m, d) = Weekday(y, m, d)
<1> DEFINE Y == MarchYear(y, m)
           s == Y + Y \div 4 - Y \div 100 + Y \div 400
           N == DayNumber(y, m, d)
<1>1. Y \in Nat /\ s \in Int /\ LeapSum(Y) \in Int /\ s = Y + LeapSum(Y)
  <2>1. Y \in Nat
    BY DEF MarchYear
  <2> HIDE DEF Y
  <2> QED BY <2>1 DEF LeapSum
<1>2. FastWeekday(y, m, d) = (((s + T[m] + d) % 7) + 6) % 7
  BY DEF FastWeekday, MarchYear
<1>3. N = 365 * Y + LeapSum(Y) + MarchDay(m) + d - 719469
  BY FastDaysCount, DaysByMarch
<1>4. \E k \in Int : MarchDay(m) = T[m] + 5 + 7 * k
  <2>1. CASE m = 1
    <3>1. 43 \in Int /\ MarchDay(1) = T[1] + 5 + 7 * 43
      BY DEF MarchDay, T
    <3> QED BY <2>1, <3>1
  <2>2. CASE m = 2
    <3>1. 47 \in Int /\ MarchDay(2) = T[2] + 5 + 7 * 47
      BY DEF MarchDay, T
    <3> QED BY <2>2, <3>1
  <2>3. CASE m = 3
    <3>1. (-1) \in Int /\ MarchDay(3) = T[3] + 5 + 7 * (-1)
      BY DEF MarchDay, T
    <3> QED BY <2>3, <3>1
  <2>4. CASE m = 4
    <3>1. 3 \in Int /\ MarchDay(4) = T[4] + 5 + 7 * 3
      BY DEF MarchDay, T
    <3> QED BY <2>4, <3>1
  <2>5. CASE m = 5
    <3>1. 8 \in Int /\ MarchDay(5) = T[5] + 5 + 7 * 8
      BY DEF MarchDay, T
    <3> QED BY <2>5, <3>1
  <2>6. CASE m = 6
    <3>1. 12 \in Int /\ MarchDay(6) = T[6] + 5 + 7 * 12
      BY DEF MarchDay, T
    <3> QED BY <2>6, <3>1
  <2>7. CASE m = 7
    <3>1. 16 \in Int /\ MarchDay(7) = T[7] + 5 + 7 * 16
      BY DEF MarchDay, T
    <3> QED BY <2>7, <3>1
  <2>8. CASE m = 8
    <3>1. 21 \in Int /\ MarchDay(8) = T[8] + 5 + 7 * 21
      BY DEF MarchDay, T
    <3> QED BY <2>8, <3>1
  <2>9. CASE m = 9
    <3>1. 25 \in Int /\ MarchDay(9) = T[9] + 5 + 7 * 25
      BY DEF MarchDay, T
    <3> QED BY <2>9, <3>1
  <2>10. CASE m = 10
    <3>1. 29 \in Int /\ MarchDay(10) = T[10] + 5 + 7 * 29
      BY DEF MarchDay, T
    <3> QED BY <2>10, <3>1
  <2>11. CASE m = 11
    <3>1. 34 \in Int /\ MarchDay(11) = T[11] + 5 + 7 * 34
      BY DEF MarchDay, T
    <3> QED BY <2>11, <3>1
  <2>12. CASE m = 12
    <3>1. 38 \in Int /\ MarchDay(12) = T[12] + 5 + 7 * 38
      BY DEF MarchDay, T
    <3> QED BY <2>12, <3>1
  <2> QED BY <2>1, <2>2, <2>3, <2>4, <2>5, <2>6, <2>7, <2>8, <2>9, <2>10, <2>11, <2>12
<1>5. PICK k \in Int : MarchDay(m) = T[m] + 5 + 7 * k
  BY <1>4
<1>6. T[m] \in Int
  BY DEF T
<1> DEFINE a == s + T[m] + d
           j == 52 * Y + k - 102781
<1>7. a \in Int /\ j \in Int /\ N + 3 = (a + 6) + 7 * j
  <2> HIDE DEF Y, s, N
  <2> QED BY <1>1, <1>3, <1>5, <1>6
<1> HIDE DEF a, j, N
<1>8. (N + 3) % 7 = (a + 6) % 7
  <2>1. a + 6 \in Int
    BY <1>7
  <2> QED BY <1>7, <2>1, SameDay
<1>9. ((a % 7) + 6) % 7 = (a + 6) % 7
  BY <1>7
<1> QED BY <1>2, <1>8, <1>9 DEF Weekday, a, N

---------------------------------------------------------------------------
(* The two features that are calendar arithmetic.                          *)

LEMMA FastDaysInt ==
    ASSUME NEW y \in Nat, NEW m \in 1..12, NEW d \in 1..31
    PROVE  FastDays(y, m, d) \in Int
BY DEF FastDays

\* The seconds between two times, by fast_epoch, are those of the calendar.
THEOREM ElapsedCounted ==
    ASSUME NEW t, NEW u, IsTime(t), IsTime(u)
    PROVE  SecondsFrom(t, u) = SecondsCounted(t, u)
<1> DEFINE F(x) == FastDays(x.year, x.month, x.day)
           D(x) == DayNumber(x.year, x.month, x.day)
<1>1. F(t) = D(t) /\ F(u) = D(u)
  BY FastDaysCount DEF IsTime
<1>2. F(t) \in Int /\ F(u) \in Int
  <2>1. ASSUME NEW x, IsTime(x) PROVE F(x) \in Int
    <3>1. x.year \in Nat /\ x.month \in 1..12 /\ x.day \in 1..31
      BY <2>1 DEF IsTime
    <3> QED BY <3>1, FastDaysInt
  <2> QED BY <2>1
<1>3. SecondsFrom(t, u) = (F(u) - F(t)) * 86400
          + (u.hour - t.hour) * 3600 + (u.minute - t.minute) * 60 + (u.second - t.second)
  BY DEF SecondsFrom
<1>4. SecondsCounted(t, u) = (D(u) - D(t)) * 86400
          + (u.hour * 3600 + u.minute * 60 + u.second) - (t.hour * 3600 + t.minute * 60 + t.second)
  BY DEF SecondsCounted
<1> HIDE DEF F, D
<1> QED BY <1>1, <1>2, <1>3, <1>4 DEF IsTime

\* Of the values normalize has collected it computes what FeaturesOfPayload
\* expects of them, day of the week and elapsed time being those of the
\* calendar.  The times are dates from 1970 on, and a previous time comes with a
\* previous transaction.
THEOREM FeaturesCounted ==
    ASSUME NEW g, IsTime(Times[g["requested_at"][2]]),
           g["timestamp"] # Unset => /\ g["last_transaction"] # Unset
                                     /\ IsTime(Times[g["timestamp"][2]])
    PROVE  Features(g) = Expected(g)
<1> DEFINE now  == Times[g["requested_at"][2]]
           last == Times[g["timestamp"][2]]
           R == Features(g)
           w == Weekday(now.year, now.month, now.day)
           e == IF g["timestamp"] = Unset THEN Marked
                ELSE [seconds |-> Clamp(SecondsCounted(last, now), Cap.seconds),
                      km |-> Clamp(Number(g["km_from_current"]), Cap.km)]
<1>1. R.weekday = w
  <2>1. R.weekday = FastWeekday(now.year, now.month, now.day)
    BY DEF Features
  <2> QED BY <2>1, FastWeekdayCounts DEF IsTime
<1>2. R.since = e
  <2>1. R.since = IF g["last_transaction"] = Unset \/ g["timestamp"] = Unset THEN Marked
                  ELSE Since(last, now, Number(g["km_from_current"]))
    BY DEF Features
  <2>2. CASE g["timestamp"] = Unset
    BY <2>1, <2>2
  <2>3. CASE g["timestamp"] # Unset
    <3>1. SecondsFrom(last, now) = SecondsCounted(last, now)
      BY <2>3, ElapsedCounted
    <3> QED BY <2>1, <2>3, <3>1 DEF Since
  <2> QED BY <2>2, <2>3
<1>3. Expected(g) = [R EXCEPT !.weekday = w, !.since = e]
  BY DEF Expected
<1>4. R = [amount |-> R.amount, installments |-> R.installments, ratio |-> R.ratio,
           hour |-> R.hour, weekday |-> R.weekday, since |-> R.since, home |-> R.home,
           count |-> R.count, online |-> R.online, present |-> R.present,
           known |-> R.known, risk |-> R.risk, merchant |-> R.merchant]
  BY DEF Features
<1> HIDE DEF R, w, e
<1>5. [R EXCEPT !.weekday = w, !.since = e] = R
  BY <1>1, <1>2, <1>4
<1> QED BY <1>3, <1>5 DEF R

---------------------------------------------------------------------------
(* Levels and the objects a position is within.                            *)

\* A brace is no other token.
LEMMA TokenKinds ==
    ASSUME NEW t, NEW i
    PROVE  /\ Opens(t, i) => t[i][1] # "str" /\ ~ Closes(t, i)
           /\ Closes(t, i) => t[i][1] # "str"
           /\ t[i] \in {<<":">>, <<"null">>, <<"[">>, <<"]">>} => ~ Opens(t, i) /\ ~ Closes(t, i)
           /\ Listed(t, i) => ~ Opens(t, i) /\ ~ Closes(t, i) /\ t[i] # <<":">>
<1>1. \A k : t[i] = <<k>> => t[i][1] = k
  OBVIOUS
<1> QED BY <1>1, Zenon DEF Opens, Closes, Listed

LEMMA LevelStart == ASSUME NEW t PROVE Level(t, 0) = 0
<1> DEFINE A == {j \in 1..0 : Opens(t, j)}
           B == {j \in 1..0 : Closes(t, j)}
<1>1. A = {} /\ B = {}
  OBVIOUS
<1>2. Cardinality({}) = 0
  BY FS_EmptySet
<1>3. Level(t, 0) = Cardinality(A) - Cardinality(B)
  BY DEF Level
<1> HIDE DEF A, B
<1>4. Level(t, 0) = 0 - 0
  BY <1>1, <1>2, <1>3
<1> QED BY <1>4

LEMMA CountStep ==
    ASSUME NEW S, NEW i \in Nat \ {0}
    PROVE  LET C(n) == Cardinality({j \in 1..n : j \in S})
           IN C(i - 1) \in Nat /\ C(i) = C(i - 1) + IF i \in S THEN 1 ELSE 0
<1> DEFINE A == {j \in 1..(i - 1) : j \in S}
           B == {j \in 1..i : j \in S}
<1>1. IsFiniteSet(A) /\ Cardinality(A) \in Nat
  <2>1. IsFiniteSet(1..(i - 1)) /\ A \subseteq 1..(i - 1)
    BY FS_Interval
  <2> HIDE DEF A
  <2> QED BY <2>1, FS_Subset, FS_CardinalityType
<1>2. i \notin A /\ B = IF i \in S THEN A \cup {i} ELSE A
  <2>1. 1..i = (1..(i - 1)) \cup {i} /\ i \notin 1..(i - 1)
    OBVIOUS
  <2> QED BY <2>1
<1> HIDE DEF A, B
<1>3. Cardinality(B) = Cardinality(A) + IF i \in S THEN 1 ELSE 0
  BY <1>1, <1>2, FS_AddElement
<1> QED BY <1>1, <1>3 DEF A, B

LEMMA LevelStep ==
    ASSUME NEW t, NEW i \in Nat \ {0}
    PROVE  /\ Level(t, i) \in Int /\ Level(t, i - 1) \in Int
           /\ Opens(t, i) => Level(t, i) = Level(t, i - 1) + 1
           /\ Closes(t, i) => Level(t, i) = Level(t, i - 1) - 1
           /\ ~ Opens(t, i) /\ ~ Closes(t, i) => Level(t, i) = Level(t, i - 1)
<1> DEFINE O == {j \in 1..i : Opens(t, j)}
           C == {j \in 1..i : Closes(t, j)}
           a(n) == Cardinality({j \in 1..n : j \in O})
           b(n) == Cardinality({j \in 1..n : j \in C})
           x == IF i \in O THEN 1 ELSE 0
           y == IF i \in C THEN 1 ELSE 0
<1>1. a(i - 1) \in Nat /\ a(i) = a(i - 1) + x
  <2> HIDE DEF O
  <2> QED BY CountStep
<1>2. b(i - 1) \in Nat /\ b(i) = b(i - 1) + y
  <2> HIDE DEF C
  <2> QED BY CountStep
<1>3. Level(t, i) = a(i) - b(i)
  <2>1. {j \in 1..i : j \in O} = O /\ {j \in 1..i : j \in C} = C
    OBVIOUS
  <2> QED BY <2>1 DEF Level
<1>4. Level(t, i - 1) = a(i - 1) - b(i - 1)
  <2>1. {j \in 1..(i - 1) : j \in O} = {j \in 1..(i - 1) : Opens(t, j)}
    OBVIOUS
  <2>2. {j \in 1..(i - 1) : j \in C} = {j \in 1..(i - 1) : Closes(t, j)}
    OBVIOUS
  <2> QED BY <2>1, <2>2 DEF Level
<1>5. (i \in O <=> Opens(t, i)) /\ (i \in C <=> Closes(t, i)) /\ (Opens(t, i) => ~ Closes(t, i))
  BY TokenKinds
<1> HIDE DEF O, C, a, b
<1> QED BY <1>1, <1>2, <1>3, <1>4, <1>5

LEMMA LevelInt == ASSUME NEW t, NEW i \in Nat PROVE Level(t, i) \in Int
<1>1. CASE i = 0
  BY <1>1, LevelStart
<1>2. CASE i # 0
  <2>1. i \in Nat \ {0}
    BY <1>2
  <2> QED BY <2>1, LevelStep
<1> QED BY <1>1, <1>2

\* A token that is no brace and follows none of an object's key changes nothing.
LEMMA WithinStep ==
    ASSUME NEW t, NEW i \in Nat \ {0}, NEW name
    PROVE  /\ Within(t, i, name) /\ Level(t, i) < 2 => FALSE
           /\ Level(t, i) >= 2 /\ Within(t, i - 1, name) => Within(t, i, name)
           /\ ~ Opens(t, i) /\ Within(t, i, name) => Within(t, i - 1, name)
           /\ Within(t, i, name) =>
                 \/ Within(t, i - 1, name)
                 \/ i > 2 /\ KeyAt(t, i - 2) /\ t[i - 2][2] = name /\ Level(t, i - 2) = 1 /\ Opens(t, i)
<1> DEFINE Owner(j) == KeyAt(t, j) /\ t[j][2] = name /\ Level(t, j) = 1 /\ Opens(t, j + 2)
           Deep(j, k) == \A l \in (j + 2)..k : Level(t, l) >= 2
<1>0. \A k \in Nat : Within(t, k, name) <=> \E j \in 1..(k - 2) : Owner(j) /\ Deep(j, k)
  BY DEF Within
<1>1. ASSUME NEW j \in 1..(i - 2), Deep(j, i) PROVE Level(t, i) >= 2
  BY <1>1
<1>2. ASSUME NEW j \in 1..(i - 3), Deep(j, i - 1), Level(t, i) >= 2 PROVE Deep(j, i)
  <2>1. ASSUME NEW l \in (j + 2)..i PROVE Level(t, l) >= 2
    BY <1>2
  <2> QED BY <2>1
<1>3. ASSUME NEW j \in 1..(i - 3), Deep(j, i) PROVE Deep(j, i - 1)
  BY <1>3
<1>4. Level(t, i) \in Int
  BY LevelInt
<1> HIDE DEF Owner, Deep
<1>5. Within(t, i, name) <=> \E j \in 1..(i - 2) : Owner(j) /\ Deep(j, i)
  BY <1>0
<1>6. Within(t, i - 1, name) <=> \E j \in 1..(i - 3) : Owner(j) /\ Deep(j, i - 1)
  BY <1>0
<1>7. Within(t, i, name) => Level(t, i) >= 2
  BY <1>1, <1>5
<1>8. Level(t, i) >= 2 /\ Within(t, i - 1, name) => Within(t, i, name)
  <2> SUFFICES ASSUME Level(t, i) >= 2, NEW j \in 1..(i - 3), Owner(j), Deep(j, i - 1)
               PROVE  j \in 1..(i - 2) /\ Owner(j) /\ Deep(j, i)
    BY <1>5, <1>6
  <2> QED BY <1>2
<1>9. Within(t, i, name) => Within(t, i - 1, name) \/ (i > 2 /\ Owner(i - 2))
  <2> SUFFICES ASSUME NEW j \in 1..(i - 2), Owner(j), Deep(j, i), ~ (i > 2 /\ Owner(i - 2))
               PROVE  j \in 1..(i - 3) /\ Owner(j) /\ Deep(j, i - 1)
    BY <1>5, <1>6
  <2>1. j # i - 2
    OBVIOUS
  <2>2. j \in 1..(i - 3)
    BY <2>1
  <2> QED BY <1>3, <2>2
<1>10. i > 2 /\ Owner(i - 2) =>
          KeyAt(t, i - 2) /\ t[i - 2][2] = name /\ Level(t, i - 2) = 1 /\ Opens(t, i)
  <2>1. (i - 2) + 2 = i
    OBVIOUS
  <2> QED BY <2>1 DEF Owner
<1>11. ~ (Within(t, i, name) /\ Level(t, i) < 2)
  BY <1>4, <1>7
<1>12. Within(t, i, name) =>
          \/ Within(t, i - 1, name)
          \/ i > 2 /\ KeyAt(t, i - 2) /\ t[i - 2][2] = name /\ Level(t, i - 2) = 1 /\ Opens(t, i)
  BY <1>9, <1>10
<1> QED BY <1>8, <1>11, <1>12

\* No position is within two of the objects.
LEMMA WithinOne ==
    ASSUME NEW t, NEW i \in Nat, NEW a, NEW b, Within(t, i, a), Within(t, i, b)
    PROVE  a = b
<1>1. PICK j \in 1..(i - 2) : /\ t[j][2] = a /\ Level(t, j) = 1
                              /\ \A k \in (j + 2)..i : Level(t, k) >= 2
                              /\ KeyAt(t, j)
  BY DEF Within
<1>2. PICK l \in 1..(i - 2) : /\ t[l][2] = b /\ Level(t, l) = 1
                              /\ \A k \in (l + 2)..i : Level(t, k) >= 2
                              /\ KeyAt(t, l)
  BY DEF Within
<1>3. j + 1 # l /\ l + 1 # j
  <2>1. t[j + 1] = <<":">> /\ t[l + 1] = <<":">> /\ t[j][1] = "str" /\ t[l][1] = "str"
    BY <1>1, <1>2 DEF KeyAt
  <2> QED BY <2>1
<1>4. l \notin (j + 2)..i /\ j \notin (l + 2)..i
  BY <1>1, <1>2
<1> QED BY <1>1, <1>2, <1>3, <1>4

---------------------------------------------------------------------------
(* Sections and fields.                                                    *)

\* The section that stands for an object.
SecOf(name) == IF name \in DOMAIN Sections THEN Sections[name] ELSE "last"

LEMMA SectionNames ==
    /\ SecOf("transaction") = "tx" /\ SecOf("customer") = "cust" /\ SecOf("merchant") = "merch"
    /\ SecOf("terminal") = "term" /\ SecOf("last_transaction") = "last"
BY DEF SecOf, Sections

LEMMA SectionsDiffer ==
    ASSUME NEW a \in Objects, NEW b \in Objects, SecOf(a) = SecOf(b)
    PROVE  a = b
BY SectionNames DEF Objects

LEMMA SectionNotRoot == \A a \in Objects : SecOf(a) # "root"
BY SectionNames DEF Objects

Plain == Fields \ {"known_merchants", "last_transaction"}

\* The local a key sets is the field of that name in the object of the section.
LEMMA LocalIsMember ==
    ASSUME NEW name \in Objects, NEW key, NEW f \in Plain
    PROVE  Local(SecOf(name), key) = f <=> key = Where[f][2] /\ name = Where[f][1]
<1>1. CASE name = "transaction"
  BY <1>1, SectionNames DEF Local, Where, Plain, Fields
<1>2. CASE name = "customer"
  BY <1>2, SectionNames DEF Local, Where, Plain, Fields
<1>3. CASE name = "merchant"
  BY <1>3, SectionNames DEF Local, Where, Plain, Fields
<1>4. CASE name = "terminal"
  BY <1>4, SectionNames DEF Local, Where, Plain, Fields
<1>5. CASE name = "last_transaction"
  BY <1>5, SectionNames DEF Local, Where, Plain, Fields
<1> QED BY <1>1, <1>2, <1>3, <1>4, <1>5 DEF Objects

LEMMA LocalPlain ==
    ASSUME NEW s, NEW key PROVE Local(s, key) \in Plain \cup {"none"}
BY DEF Local, Plain, Fields

LEMMA WhereObjects ==
    /\ DOMAIN Where = Plain \cup {"known_merchants"}
    /\ \A f \in DOMAIN Where : Where[f][1] \in Objects
    /\ Where["known_merchants"] = <<"customer", "known_merchants">>
    /\ Where["timestamp"] = <<"last_transaction", "timestamp">>
BY DEF Where, Plain, Fields, Objects

---------------------------------------------------------------------------
(* Where the scanner is, and what it has made of what lies behind it.      *)

\* The value of an object's key starts here.
Opening(t, i) ==
    /\ i > 2 /\ KeyAt(t, i - 2) /\ t[i - 2][2] \in Objects /\ Level(t, i - 2) = 1
    /\ i <= Len(t) /\ Opens(t, i)

InSection(t, i, s) ==
    IF s = "root" THEN \A a \in Objects : ~ Within(t, i, a)
    ELSE \E a \in Objects : s = SecOf(a) /\ Within(t, i, a)

SectionAt(t, i, s) == IF Opening(t, i) THEN s = SecOf(t[i - 2][2]) ELSE InSection(t, i - 1, s)

Collected(t, g, i) == [f \in Fields |-> IF \E k \in Said(t, f) : k < i THEN g[f] ELSE Unset]

Walk(t, g, i, d, s, fld) ==
    /\ i \in 1..(Len(t) + 1) /\ d = Level(t, i - 1)
    /\ i > 1 => ~ KeyAt(t, i - 1)
    /\ SectionAt(t, i, s)
    /\ fld = Collected(t, g, i)

LEMMA WithinDeep ==
    ASSUME NEW t, NEW i \in Nat, NEW a, Within(t, i, a) PROVE Level(t, i) >= 2
<1>1. i # 0
  BY DEF Within
<1>2. i \in Nat \ {0}
  BY <1>1
<1>3. Level(t, i) \in Int
  BY LevelInt
<1> QED BY <1>2, <1>3, WithinStep

LEMMA FlatStep ==
    ASSUME NEW t, NEW i \in Nat \ {0}, ~ Opens(t, i), ~ Closes(t, i)
    PROVE  Level(t, i) = Level(t, i - 1) /\ \A a : Within(t, i, a) <=> Within(t, i - 1, a)
<1>1. Level(t, i) = Level(t, i - 1)
  BY LevelStep
<1>2. ASSUME NEW a PROVE Within(t, i, a) <=> Within(t, i - 1, a)
  <2>1. Within(t, i - 1, a) => Level(t, i - 1) >= 2
    <3>1. i - 1 \in Nat
      OBVIOUS
    <3> QED BY <3>1, WithinDeep
  <2>2. /\ Level(t, i) >= 2 /\ Within(t, i - 1, a) => Within(t, i, a)
        /\ ~ Opens(t, i) /\ Within(t, i, a) => Within(t, i - 1, a)
    BY WithinStep
  <2>3. ~ Opens(t, i)
    OBVIOUS
  <2> QED BY <1>1, <2>1, <2>2, <2>3
<1> QED BY <1>1, <1>2

LEMMA Flat ==
    ASSUME NEW t, NEW m \in Nat, NEW n \in Nat, m <= n,
           \A k \in (m + 1)..n : ~ Opens(t, k) /\ ~ Closes(t, k)
    PROVE  Level(t, n) = Level(t, m) /\ \A a : Within(t, n, a) <=> Within(t, m, a)
<1> DEFINE Same(k) == Level(t, k) = Level(t, m) /\ \A a : Within(t, k, a) <=> Within(t, m, a)
           U == {d \in Nat : m + d <= n => Same(m + d)}
<1>1. 0 \in U
  <2>1. m + 0 = m
    OBVIOUS
  <2> QED BY <2>1
<1>2. ASSUME NEW d \in Nat, d \in U PROVE d + 1 \in U
  <2> SUFFICES ASSUME m + (d + 1) <= n PROVE Same(m + (d + 1))
    OBVIOUS
  <2>1. Same(m + d)
    BY <1>2
  <2> DEFINE i == m + (d + 1)
  <2>2. i \in Nat \ {0} /\ i \in (m + 1)..n /\ i - 1 = m + d
    OBVIOUS
  <2> HIDE DEF i
  <2>3. Level(t, i) = Level(t, i - 1) /\ \A a : Within(t, i, a) <=> Within(t, i - 1, a)
    BY <2>2, FlatStep
  <2>4. Same(i)
    BY <2>1, <2>2, <2>3
  <2> QED BY <2>4 DEF i
<1>3. Nat \subseteq U
  <2> HIDE DEF U
  <2> QED BY <1>1, <1>2, SetInduction
<1>4. n - m \in Nat /\ m + (n - m) = n /\ n <= n
  OBVIOUS
<1>5. Same(n)
  <2>1. n - m \in U
    <3> HIDE DEF U
    <3> QED BY <1>3, <1>4
  <2> HIDE DEF Same
  <2> QED BY <1>4, <2>1
<1> QED BY <1>5

LEMMA SectionMeans ==
    ASSUME NEW t, NEW i \in Nat, NEW s, InSection(t, i, s), NEW a \in Objects
    PROVE  s = SecOf(a) <=> Within(t, i, a)
<1>1. CASE s = "root"
  BY <1>1, SectionNotRoot DEF InSection
<1>2. CASE s # "root"
  <2>1. PICK b \in Objects : s = SecOf(b) /\ Within(t, i, b)
    BY <1>2 DEF InSection
  <2> QED BY <2>1, WithinOne, SectionsDiffer
<1> QED BY <1>1, <1>2

LEMMA SectionSame ==
    ASSUME NEW t, NEW i, NEW j, NEW s, \A a \in Objects : Within(t, i, a) <=> Within(t, j, a)
    PROVE  InSection(t, i, s) <=> InSection(t, j, s)
BY DEF InSection

\* The brace after an object's key opens that object; any other leaves the
\* scanner where it was.
LEMMA OpenStep ==
    ASSUME NEW t, NEW i \in Nat \ {0}, NEW s, Opens(t, i), i <= Len(t), SectionAt(t, i, s),
           i > 1 => ~ KeyAt(t, i - 1)
    PROVE  SectionAt(t, i + 1, s)
<1>1. ~ Opening(t, i + 1) /\ (i + 1) - 1 = i
  <2>1. (i + 1) - 2 = i - 1 /\ (i + 1 > 2 => i > 1)
    OBVIOUS
  <2> QED BY <2>1 DEF Opening
<1>2. CASE Opening(t, i)
  <2> DEFINE j == i - 2
             name == t[j][2]
  <2>1. i > 2 /\ KeyAt(t, j) /\ name \in Objects /\ Level(t, j) = 1 /\ s = SecOf(name)
    BY <1>2 DEF Opening, SectionAt
  <2>2. j \in 1..(i - 2) /\ j + 2 = i /\ j + 1 = i - 1 /\ i - 1 \in Nat \ {0} /\ (i - 1) - 1 = j
    BY <2>1
  <2>3. ~ Opens(t, i - 1) /\ ~ Closes(t, i - 1)
    <3>1. t[i - 1] = <<":">>
      BY <2>1, <2>2 DEF KeyAt
    <3> QED BY <3>1, TokenKinds
  <2>4. Level(t, i - 1) = Level(t, j)
    BY <2>2, <2>3, LevelStep
  <2>5. Level(t, i) = Level(t, i - 1) + 1
    BY LevelStep
  <2>6. Level(t, i) >= 2
    BY <2>1, <2>4, <2>5
  <2>7. \A k \in (j + 2)..i : k = i
    BY <2>2
  <2>8. Within(t, i, name)
    BY <2>1, <2>2, <2>6, <2>7 DEF Within
  <2>9. InSection(t, i, s)
    BY <2>1, <2>8, SectionNotRoot DEF InSection
  <2> QED BY <1>1, <2>9 DEF SectionAt
<1>3. CASE ~ Opening(t, i)
  <2>1. InSection(t, i - 1, s)
    BY <1>3 DEF SectionAt
  <2>2. ASSUME NEW a \in Objects PROVE Within(t, i, a) <=> Within(t, i - 1, a)
    <3>1. Within(t, i, a) =>
             \/ Within(t, i - 1, a)
             \/ i > 2 /\ KeyAt(t, i - 2) /\ t[i - 2][2] = a /\ Level(t, i - 2) = 1 /\ Opens(t, i)
      BY WithinStep
    <3>2. Within(t, i - 1, a) => Level(t, i) >= 2
      <4>1. i - 1 \in Nat
        OBVIOUS
      <4>2. Level(t, i) = Level(t, i - 1) + 1 /\ Level(t, i - 1) \in Int
        BY LevelStep
      <4> QED BY <4>1, <4>2, WithinDeep
    <3>3. Level(t, i) >= 2 /\ Within(t, i - 1, a) => Within(t, i, a)
      BY WithinStep
    <3> QED BY <1>3, <3>1, <3>2, <3>3 DEF Opening
  <2>3. InSection(t, i, s)
    BY <2>1, <2>2, SectionSame
  <2> QED BY <1>1, <2>3 DEF SectionAt
<1> QED BY <1>2, <1>3

\* A brace that closes an object of the document leaves its section; one deeper
\* down does not.
LEMMA CloseStep ==
    ASSUME NEW t, NEW i \in Nat \ {0}, NEW s, Closes(t, i), SectionAt(t, i, s),
           i > 1 => ~ KeyAt(t, i - 1)
    PROVE  SectionAt(t, i + 1, IF Level(t, i) = 1 THEN "root" ELSE s)
<1>1. ~ Opening(t, i + 1) /\ (i + 1) - 1 = i
  <2>1. (i + 1) - 2 = i - 1 /\ (i + 1 > 2 => i > 1)
    OBVIOUS
  <2> QED BY <2>1 DEF Opening
<1>2. InSection(t, i - 1, s)
  <2>1. ~ Opens(t, i)
    BY TokenKinds
  <2> QED BY <2>1 DEF SectionAt, Opening
<1>3. /\ Level(t, i) \in Int /\ Level(t, i - 1) \in Int
      /\ Level(t, i) = Level(t, i - 1) - 1
  BY LevelStep
<1>4. CASE Level(t, i) = 1
  <2>1. ASSUME NEW a \in Objects PROVE ~ Within(t, i, a)
    <3>1. Within(t, i, a) => Level(t, i) >= 2
      BY WithinDeep
    <3> QED BY <1>4, <3>1
  <2>2. InSection(t, i, "root")
    BY <2>1 DEF InSection
  <2> QED BY <1>1, <1>4, <2>2 DEF SectionAt
<1>5. CASE Level(t, i) # 1
  <2>1. ASSUME NEW a \in Objects PROVE Within(t, i, a) <=> Within(t, i - 1, a)
    <3>1. Within(t, i - 1, a) => Level(t, i) >= 2
      <4>1. i - 1 \in Nat
        OBVIOUS
      <4>2. Within(t, i - 1, a) => Level(t, i - 1) >= 2
        BY <4>1, WithinDeep
      <4> QED BY <1>3, <1>5, <4>2
    <3>2. /\ Level(t, i) >= 2 /\ Within(t, i - 1, a) => Within(t, i, a)
          /\ ~ Opens(t, i) /\ Within(t, i, a) => Within(t, i - 1, a)
      BY WithinStep
    <3>3. ~ Opens(t, i)
      BY TokenKinds
    <3> QED BY <3>1, <3>2, <3>3
  <2>2. InSection(t, i, s)
    BY <1>2, <2>1, SectionSame
  <2> QED BY <1>1, <1>5, <2>2 DEF SectionAt
<1> QED BY <1>4, <1>5

\* A key and its colon.
LEMMA KeyFlat ==
    ASSUME NEW t, NEW i \in Nat \ {0}, KeyAt(t, i)
    PROVE  /\ ~ KeyAt(t, i + 1) /\ ~ Opening(t, i)
           /\ Level(t, i) = Level(t, i - 1) /\ Level(t, i + 1) = Level(t, i - 1)
           /\ \A a : /\ Within(t, i, a) <=> Within(t, i - 1, a)
                     /\ Within(t, i + 1, a) <=> Within(t, i - 1, a)
<1>1. /\ t[i][1] = "str" /\ t[i + 1] = <<":">> /\ t[i + 1][1] # "str"
      /\ ~ Opens(t, i) /\ ~ Closes(t, i) /\ ~ Opens(t, i + 1) /\ ~ Closes(t, i + 1)
  <2>1. t[i][1] = "str" /\ t[i + 1] = <<":">> /\ t[i + 1][1] # "str"
    BY DEF KeyAt
  <2> QED BY <2>1, TokenKinds
<1>2. Level(t, i) = Level(t, i - 1) /\ \A a : Within(t, i, a) <=> Within(t, i - 1, a)
  BY <1>1, FlatStep
<1>3. Level(t, i + 1) = Level(t, i) /\ \A a : Within(t, i + 1, a) <=> Within(t, i, a)
  <2>1. i + 1 \in Nat \ {0} /\ (i + 1) - 1 = i
    OBVIOUS
  <2> QED BY <1>1, <2>1, FlatStep
<1> QED BY <1>1, <1>2, <1>3 DEF KeyAt, Opening

---------------------------------------------------------------------------
(* One key.                                                                *)

\* What is collected grows by what is said at a key, if the next one is not
\* skipped.
LEMMA CollectStep ==
    ASSUME NEW t, NEW g, NEW i \in Nat, NEW j \in Nat, i < j, Len(t) \in Nat,
           \A k \in (i + 1)..(j - 1) : ~ KeyAt(t, k)
    PROVE  Collected(t, g, j) =
               [f \in Fields |-> IF i \in Said(t, f) THEN g[f] ELSE Collected(t, g, i)[f]]
<1>1. ASSUME NEW f \in Fields
      PROVE  (\E k \in Said(t, f) : k < j) <=> (i \in Said(t, f) \/ \E k \in Said(t, f) : k < i)
  <2>1. ASSUME NEW k \in Said(t, f), k < j, k # i PROVE k < i
    <3>1. k \in Nat /\ KeyAt(t, k)
      BY DEF Said, Keys
    <3>2. k \notin (i + 1)..(j - 1)
      BY <3>1
    <3> QED BY <2>1, <3>1, <3>2
  <2>2. ASSUME NEW k \in Said(t, f), k < i PROVE k < j
    <3>1. k \in Nat
      BY DEF Said, Keys
    <3> QED BY <2>2, <3>1
  <2> QED BY <2>1, <2>2
<1>2. Collected(t, g, j) = [f \in Fields |-> IF \E k \in Said(t, f) : k < j THEN g[f] ELSE Unset]
  BY DEF Collected
<1>3. \A f \in Fields : Collected(t, g, i)[f] = IF \E k \in Said(t, f) : k < i THEN g[f] ELSE Unset
  BY DEF Collected
<1> QED BY <1>1, <1>2, <1>3

\* A token that is no key says nothing.
LEMMA CollectSame ==
    ASSUME NEW t, NEW g, NEW i \in Nat, Len(t) \in Nat, ~ KeyAt(t, i)
    PROVE  Collected(t, g, i + 1) = Collected(t, g, i)
<1> DEFINE j == i + 1
<1>1. j \in Nat /\ i < j /\ \A k \in (i + 1)..(j - 1) : ~ KeyAt(t, k)
  OBVIOUS
<1>2. Collected(t, g, j) =
         [f \in Fields |-> IF i \in Said(t, f) THEN g[f] ELSE Collected(t, g, i)[f]]
  <2> HIDE DEF j
  <2> QED BY <1>1, CollectStep
<1>3. \A f \in Fields : i \notin Said(t, f)
  BY DEF Said, Keys
<1>4. Collected(t, g, i) = [f \in Fields |-> Collected(t, g, i)[f]]
  BY DEF Collected
<1> DEFINE c == Collected(t, g, i)
<1> HIDE DEF c
<1>5. Collected(t, g, j) = [f \in Fields |-> IF i \in Said(t, f) THEN g[f] ELSE c[f]]
  BY <1>2 DEF c
<1>6. Collected(t, g, j) = [f \in Fields |-> c[f]]
  BY <1>3, <1>5
<1> QED BY <1>4, <1>6 DEF c

\* What all three kinds of key have in common.
AtKey(t, g, i, d, s, fld) ==
    /\ Len(t) \in Nat /\ Document(t, g) /\ Walk(t, g, i, d, s, fld)
    /\ i \in 1..Len(t) /\ KeyAt(t, i) /\ i + 2 <= Len(t)

LEMMA KeyFacts ==
    ASSUME NEW t, NEW g, NEW i, NEW d, NEW s, NEW fld, AtKey(t, g, i, d, s, fld)
    PROVE  /\ i \in Nat \ {0} /\ i \in Keys(t) /\ Placed(t, i) /\ Says(t, g)
           /\ i + 2 \in Nat /\ (i + 2) - 2 = i /\ (i + 2) - 1 = i + 1
           /\ i + 2 \in 1..(Len(t) + 1)
           /\ d = Level(t, i + 1) /\ ~ KeyAt(t, i + 1)
           /\ InSection(t, i, s) /\ InSection(t, i + 1, s)
           /\ \A a \in Objects : s = SecOf(a) <=> Within(t, i, a)
           /\ fld = Collected(t, g, i)
           /\ Collected(t, g, i + 2) = [f \in Fields |-> IF i \in Said(t, f) THEN g[f] ELSE fld[f]]
<1>1. i \in Nat \ {0} /\ i + 2 \in Nat /\ (i + 2) - 2 = i /\ (i + 2) - 1 = i + 1
      /\ i + 2 \in 1..(Len(t) + 1)
  BY DEF AtKey
<1>2. i \in Keys(t) /\ Placed(t, i) /\ Says(t, g)
  BY DEF AtKey, Keys, Document
<1>3. /\ ~ KeyAt(t, i + 1) /\ ~ Opening(t, i) /\ Level(t, i + 1) = Level(t, i - 1)
      /\ \A a : /\ Within(t, i, a) <=> Within(t, i - 1, a)
                /\ Within(t, i + 1, a) <=> Within(t, i - 1, a)
  BY <1>1, KeyFlat DEF AtKey
<1>4. d = Level(t, i - 1) /\ InSection(t, i - 1, s) /\ fld = Collected(t, g, i)
  BY <1>3 DEF AtKey, Walk, SectionAt
<1>5. InSection(t, i, s) /\ InSection(t, i + 1, s)
  BY <1>3, <1>4, SectionSame
<1>6. \A a \in Objects : s = SecOf(a) <=> Within(t, i, a)
  BY <1>1, <1>5, SectionMeans
<1>7. Collected(t, g, i + 2) = [f \in Fields |-> IF i \in Said(t, f) THEN g[f] ELSE fld[f]]
  <2>1. i < i + 2 /\ \A k \in (i + 1)..((i + 2) - 1) : k = i + 1
    BY <1>1
  <2>2. \A k \in (i + 1)..((i + 2) - 1) : ~ KeyAt(t, k)
    BY <1>3, <2>1
  <2>3. Len(t) \in Nat
    BY DEF AtKey
  <2>4. Collected(t, g, i + 2) =
           [f \in Fields |-> IF i \in Said(t, f) THEN g[f] ELSE Collected(t, g, i)[f]]
    BY <1>1, <2>1, <2>2, <2>3, CollectStep
  <2> QED BY <1>4, <2>4
<1> QED BY <1>1, <1>2, <1>3, <1>4, <1>5, <1>6, <1>7

LastAt(t, i) == t[i][2] = "last_transaction" /\ t[i + 2] # <<"null">>

\* Outside the known objects a key opens one of them, or means nothing.
LEMMA SectionStep ==
    ASSUME NEW t, NEW g, NEW i, NEW d, NEW fld, AtKey(t, g, i, d, "root", fld)
    PROVE  Walk(t, g, i + 2, d,
                IF t[i][2] \in DOMAIN Sections THEN Sections[t[i][2]]
                ELSE IF LastAt(t, i) THEN "last" ELSE "root",
                IF LastAt(t, i) THEN [fld EXCEPT !["last_transaction"] = <<"true">>] ELSE fld)
<1> DEFINE key == t[i][2]
           last == LastAt(t, i)
           sec2 == IF key \in DOMAIN Sections THEN Sections[key] ELSE IF last THEN "last" ELSE "root"
           fld2 == IF last THEN [fld EXCEPT !["last_transaction"] = <<"true">>] ELSE fld
<1>1. /\ i \in Nat \ {0} /\ i \in Keys(t) /\ Placed(t, i) /\ Says(t, g)
      /\ i + 2 \in Nat /\ (i + 2) - 2 = i /\ (i + 2) - 1 = i + 1 /\ i + 2 \in 1..(Len(t) + 1)
      /\ d = Level(t, i + 1) /\ ~ KeyAt(t, i + 1)
      /\ InSection(t, i, "root") /\ InSection(t, i + 1, "root")
      /\ fld = Collected(t, g, i)
      /\ Collected(t, g, i + 2) = [f \in Fields |-> IF i \in Said(t, f) THEN g[f] ELSE fld[f]]
  BY KeyFacts
<1>2. \A a \in Objects : ~ Within(t, i, a)
  BY <1>1 DEF InSection
<1>3. KeyAt(t, i) /\ i + 2 <= Len(t)
  BY DEF AtKey
<1>4. key \in Objects =>
         Level(t, i) = 1 /\ (Opens(t, i + 2) \/ (key = "last_transaction" /\ t[i + 2] = <<"null">>))
  BY <1>1, <1>2, <1>3 DEF Placed
<1>5. DOMAIN Sections = Objects \ {"last_transaction"} /\ "last_transaction" \in Objects
  BY DEF Sections, Objects
<1>6. t[i + 2] = <<"null">> => ~ Opens(t, i + 2)
  BY TokenKinds
<1>7. SectionAt(t, i + 2, sec2)
  <2>1. CASE key \in Objects /\ Opens(t, i + 2)
    <3>1. Opening(t, i + 2)
      <4>1. i + 2 > 2
        BY <1>1
      <4> QED BY <1>1, <1>3, <1>4, <2>1, <4>1 DEF Opening
    <3>2. sec2 = SecOf(key)
      <4>1. t[i + 2] # <<"null">>
        BY <1>6, <2>1
      <4> QED BY <1>5, <2>1, <4>1 DEF SecOf, LastAt
    <3> QED BY <1>1, <3>1, <3>2 DEF SectionAt
  <2>2. CASE ~ (key \in Objects /\ Opens(t, i + 2))
    <3>1. ~ Opening(t, i + 2)
      BY <1>1, <2>2 DEF Opening
    <3>2. sec2 = "root"
      <4>1. key \in Objects => key = "last_transaction" /\ t[i + 2] = <<"null">>
        BY <1>4, <2>2
      <4> QED BY <1>5, <4>1 DEF LastAt
    <3> QED BY <1>1, <3>1, <3>2 DEF SectionAt
  <2> QED BY <2>1, <2>2
<1>8. fld2 = Collected(t, g, i + 2)
  <2>1. ASSUME NEW f \in Fields \ {"last_transaction"} PROVE i \notin Said(t, f)
    <3>1. Where[f][1] \in Objects
      BY WhereObjects DEF Plain
    <3> QED BY <1>2, <3>1 DEF Said, IsMember
  <2>2. i \in Said(t, "last_transaction") <=> last
    BY <1>1, <1>3, <1>4, <1>5 DEF Said, LastAt
  <2>3. last => g["last_transaction"] = <<"true">>
    <3>1. "last_transaction" \in Fields
      BY DEF Fields
    <3> QED BY <1>1, <2>2, <3>1 DEF Says, Value
  <2>4. fld = [f \in Fields |-> fld[f]] /\ "last_transaction" \in Fields
    BY <1>1 DEF Collected, Fields
  <2> HIDE DEF last
  <2>5. fld2 = [f \in Fields |-> IF f = "last_transaction" /\ last THEN <<"true">> ELSE fld[f]]
    BY <2>4
  <2>6. \A f \in Fields : (IF f = "last_transaction" /\ last THEN <<"true">> ELSE fld[f])
                        = (IF i \in Said(t, f) THEN g[f] ELSE fld[f])
    BY <2>1, <2>2, <2>3
  <2> HIDE DEF fld2
  <2> QED BY <1>1, <2>5, <2>6
<1> HIDE DEF sec2, fld2
<1>9. Walk(t, g, i + 2, d, sec2, fld2)
  BY <1>1, <1>7, <1>8 DEF Walk
<1> QED BY <1>9 DEF sec2, fld2

\* Where the known merchants start.
KnownAt(t, i, s) == s = "cust" /\ t[i][2] = "known_merchants" /\ t[i + 2] = <<"[">>

\* In an object a key sets the local of that name, or none.
LEMMA FieldStep ==
    ASSUME NEW t, NEW g, NEW i, NEW d, NEW s, NEW fld, AtKey(t, g, i, d, s, fld), s # "root",
           ~ KnownAt(t, i, s)
    PROVE  Walk(t, g, i + 2, d, s,
                IF Local(s, t[i][2]) = "none" THEN fld
                ELSE [fld EXCEPT ![Local(s, t[i][2])] = t[i + 2]])
<1> DEFINE key == t[i][2]
           l == Local(s, key)
           fld2 == IF l = "none" THEN fld ELSE [fld EXCEPT ![l] = t[i + 2]]
<1>1. /\ i \in Nat \ {0} /\ i \in Keys(t) /\ Says(t, g)
      /\ i + 2 \in Nat /\ (i + 2) - 2 = i /\ (i + 2) - 1 = i + 1 /\ i + 2 \in 1..(Len(t) + 1)
      /\ d = Level(t, i + 1) /\ ~ KeyAt(t, i + 1)
      /\ InSection(t, i, s) /\ InSection(t, i + 1, s)
      /\ \A a \in Objects : s = SecOf(a) <=> Within(t, i, a)
      /\ fld = Collected(t, g, i)
      /\ Collected(t, g, i + 2) = [f \in Fields |-> IF i \in Said(t, f) THEN g[f] ELSE fld[f]]
  BY KeyFacts
<1>2. PICK name \in Objects : s = SecOf(name) /\ Within(t, i, name)
  BY <1>1 DEF InSection
<1>3. Level(t, i) # 1
  <2>1. Level(t, i) >= 2 /\ Level(t, i) \in Int
    BY <1>1, <1>2, WithinDeep, LevelInt
  <2> QED BY <2>1
<1>4. SectionAt(t, i + 2, s)
  <2>1. ~ Opening(t, i + 2)
    BY <1>1, <1>3 DEF Opening
  <2> QED BY <1>1, <2>1 DEF SectionAt
<1>5. i + 2 <= Len(t)
  BY DEF AtKey
<1>6. ASSUME NEW f \in Plain PROVE i \in Said(t, f) <=> l = f
  <2>1. l = f <=> key = Where[f][2] /\ name = Where[f][1]
    BY <1>2, LocalIsMember
  <2>2. Where[f][1] \in Objects /\ f # "last_transaction" /\ f # "known_merchants"
    BY WhereObjects DEF Plain
  <2>3. name = Where[f][1] <=> Within(t, i, Where[f][1])
    BY <1>1, <1>2, <2>2, SectionsDiffer
  <2>4. i \in Said(t, f) <=> IsMember(t, i, f)
    BY <1>1, <1>5, <2>2 DEF Said
  <2> QED BY <2>1, <2>3, <2>4 DEF IsMember
<1>7. i \notin Said(t, "last_transaction")
  BY <1>3 DEF Said
<1>8. i \notin Said(t, "known_merchants")
  <2>1. "customer" \in Objects
    BY DEF Objects
  <2>2. Within(t, i, "customer") <=> s = "cust"
    BY <1>1, <2>1, SectionNames
  <2> QED BY <2>2, WhereObjects DEF Said, IsMember, KnownAt
<1>9. l \in Plain \cup {"none"} /\ "none" \notin Fields /\ Plain \subseteq Fields
  BY LocalPlain DEF Plain, Fields
<1>10. \A f \in Fields : f \in Plain \/ f \in {"last_transaction", "known_merchants"}
  BY DEF Plain
<1>11. ASSUME NEW f \in Fields, i \in Said(t, f) PROVE g[f] = t[i + 2]
  <2>1. f # "last_transaction" /\ f # "known_merchants"
    BY <1>7, <1>8, <1>11
  <2>2. g[f] = Value(t, f, i)
    BY <1>1, <1>11 DEF Says
  <2> QED BY <2>1, <2>2 DEF Value
<1> HIDE DEF l
<1>12. fld2 = [f \in Fields |-> IF f = l THEN t[i + 2] ELSE fld[f]]
  <2>1. fld = [f \in Fields |-> fld[f]]
    BY <1>1 DEF Collected
  <2>2. CASE l = "none"
    BY <1>9, <2>1, <2>2
  <2>3. CASE l # "none"
    BY <2>1, <2>3
  <2> QED BY <2>2, <2>3
<1>13. \A f \in Fields : (IF f = l THEN t[i + 2] ELSE fld[f])
                         = (IF i \in Said(t, f) THEN g[f] ELSE fld[f])
  <2>1. "last_transaction" \notin Plain /\ "known_merchants" \notin Plain
    BY DEF Plain
  <2>2. \A f \in Fields : f = l <=> i \in Said(t, f)
    BY <1>6, <1>7, <1>8, <1>9, <1>10, <2>1
  <2> QED BY <1>11, <2>2
<1> HIDE DEF fld2
<1>14. fld2 = Collected(t, g, i + 2)
  BY <1>1, <1>12, <1>13
<1>15. Walk(t, g, i + 2, d, s, fld2)
  BY <1>1, <1>4, <1>14 DEF Walk
<1> QED BY <1>15 DEF fld2, l

\* What the array of known merchants holds in the way of tokens.
LEMMA ArrayFacts ==
    ASSUME NEW t, NEW i \in Nat \ {0}, Len(t) \in Nat, KeyAt(t, i), i + 2 <= Len(t), Placed(t, i),
           IsMember(t, i, "known_merchants"), t[i + 2] = <<"[">>
    PROVE  LET e == First(ArrayEnds(t, i))
           IN /\ ArrayEnds(t, i) # {}
              /\ e \in (i + 3)..Len(t) /\ t[e] = <<"]">>
              /\ \A k \in (i + 1)..e : ~ Opens(t, k) /\ ~ Closes(t, k) /\ ~ KeyAt(t, k)
<1> DEFINE E == ArrayEnds(t, i)
           e == First(E)
<1>1. E # {} /\ \A k \in (i + 3)..(e - 1) : Listed(t, k)
  BY DEF Placed
<1>2. E \in SUBSET Nat
  BY DEF ArrayEnds
<1>3. e \in E
  <2> HIDE DEF E
  <2> QED BY <1>1, <1>2, FirstIsLeast
<1>4. e \in (i + 3)..Len(t) /\ t[e] = <<"]">>
  BY <1>3 DEF ArrayEnds
<1> HIDE DEF E, e
<1>5. t[i + 1] = <<":">>
  BY DEF KeyAt
<1>6. ASSUME NEW k \in (i + 1)..e PROVE ~ Opens(t, k) /\ ~ Closes(t, k) /\ ~ KeyAt(t, k)
  <2>1. k = i + 1 \/ k = i + 2 \/ k = e \/ k \in (i + 3)..(e - 1)
    BY <1>4
  <2>2. CASE k \in {i + 1, i + 2, e}
    <3>1. t[k] \in {<<":">>, <<"[">>, <<"]">>}
      BY <1>4, <1>5, <2>2
    <3>2. ~ Opens(t, k) /\ ~ Closes(t, k)
      BY <3>1, TokenKinds
    <3>3. t[k][1] # "str"
      BY <3>1
    <3> QED BY <3>2, <3>3 DEF KeyAt
  <2>3. CASE k \in (i + 3)..(e - 1)
    <3>1. ~ Opens(t, k) /\ ~ Closes(t, k)
      BY <1>1, <2>3, TokenKinds DEF E, e
    <3>2. k + 1 = e \/ k + 1 \in (i + 3)..(e - 1)
      BY <1>4, <2>3
    <3>3. t[k + 1] # <<":">>
      <4>1. CASE k + 1 = e
        BY <1>4, <4>1
      <4>2. CASE k + 1 \in (i + 3)..(e - 1)
        <5>1. Listed(t, k + 1)
          BY <1>1, <4>2 DEF E, e
        <5> QED BY <5>1, TokenKinds
      <4> QED BY <3>2, <4>1, <4>2
    <3> QED BY <3>1, <3>3 DEF KeyAt
  <2> QED BY <2>1, <2>2, <2>3
<1> QED BY <1>1, <1>4, <1>6 DEF E, e

\* The known merchants are read to the end of their array, in one go.
LEMMA ArrayStep ==
    ASSUME NEW t, NEW g, NEW i, NEW d, NEW s, NEW fld, AtKey(t, g, i, d, s, fld),
           KnownAt(t, i, s)
    PROVE  LET e == First(ArrayEnds(t, i))
               before == IF fld["known_merchants"] = Unset THEN {} ELSE fld["known_merchants"][2]
           IN /\ ArrayEnds(t, i) # {}
              /\ Walk(t, g, e + 1, d, s,
                      [fld EXCEPT !["known_merchants"] = <<"set", before \cup Strings(t, i)>>])
<1>1. /\ i \in Nat \ {0} /\ i \in Keys(t) /\ Placed(t, i) /\ Says(t, g)
      /\ i + 2 \in Nat /\ (i + 2) - 2 = i /\ (i + 2) - 1 = i + 1 /\ i + 2 \in 1..(Len(t) + 1)
      /\ d = Level(t, i + 1) /\ ~ KeyAt(t, i + 1)
      /\ InSection(t, i, s) /\ InSection(t, i + 1, s)
      /\ \A a \in Objects : s = SecOf(a) <=> Within(t, i, a)
      /\ fld = Collected(t, g, i)
      /\ Collected(t, g, i + 2) = [f \in Fields |-> IF i \in Said(t, f) THEN g[f] ELSE fld[f]]
  BY KeyFacts
<1> DEFINE e == First(ArrayEnds(t, i))
           known == fld["known_merchants"]
           before == IF known = Unset THEN {} ELSE known[2]
           fld2 == [fld EXCEPT !["known_merchants"] = <<"set", before \cup Strings(t, i)>>]
<1>2. Len(t) \in Nat /\ KeyAt(t, i) /\ i + 2 <= Len(t)
  BY DEF AtKey
<1>3. Within(t, i, "customer")
  <2>1. "customer" \in Objects
    BY DEF Objects
  <2> QED BY <1>1, <2>1, SectionNames DEF KnownAt
<1>4. IsMember(t, i, "known_merchants") /\ t[i][2] = "known_merchants" /\ t[i + 2] = <<"[">>
  BY <1>3, WhereObjects DEF IsMember, KnownAt
<1>5. /\ ArrayEnds(t, i) # {} /\ e \in (i + 3)..Len(t) /\ t[e] = <<"]">>
      /\ \A k \in (i + 1)..e : ~ Opens(t, k) /\ ~ Closes(t, k) /\ ~ KeyAt(t, k)
  <2> HIDE DEF fld2, before
  <2> QED BY <1>1, <1>2, <1>4, ArrayFacts
<1> HIDE DEF e
<1>6. e \in Nat /\ e + 1 \in Nat /\ i < e + 1 /\ e + 1 \in 1..(Len(t) + 1)
      /\ i + 1 \in Nat /\ i + 1 <= e /\ (e + 1) - 1 = e /\ (e + 1) - 2 = e - 1 /\ (e - 1) + 1 = e
      /\ e \in (i + 1)..e
  <2>1. i \in Nat \ {0} /\ Len(t) \in Nat /\ e \in (i + 3)..Len(t)
    BY <1>1, <1>2, <1>5
  <2> HIDE DEF fld2, before
  <2> QED BY <2>1
<1>7. Level(t, e) = Level(t, i + 1) /\ \A a : Within(t, e, a) <=> Within(t, i + 1, a)
  <2>1. \A k \in ((i + 1) + 1)..e : k \in (i + 1)..e
    BY <1>1, <1>6
  <2> QED BY <1>5, <1>6, <2>1, Flat
<1>8. SectionAt(t, e + 1, s)
  <2>1. ~ Opening(t, e + 1)
    BY <1>5, <1>6 DEF Opening, KeyAt
  <2>2. InSection(t, e, s)
    BY <1>1, <1>7, SectionSame
  <2> QED BY <1>6, <2>1, <2>2 DEF SectionAt
<1>9. Collected(t, g, e + 1) = [f \in Fields |-> IF i \in Said(t, f) THEN g[f] ELSE fld[f]]
  <2>1. Collected(t, g, e + 1) =
           [f \in Fields |-> IF i \in Said(t, f) THEN g[f] ELSE Collected(t, g, i)[f]]
    <3> DEFINE j == e + 1
    <3>1. j \in Nat /\ i < j /\ \A k \in (i + 1)..(j - 1) : ~ KeyAt(t, k)
      BY <1>5, <1>6
    <3> HIDE DEF j
    <3>2. Collected(t, g, j) =
             [f \in Fields |-> IF i \in Said(t, f) THEN g[f] ELSE Collected(t, g, i)[f]]
      BY <1>1, <1>2, <3>1, CollectStep
    <3> QED BY <3>2 DEF j
  <2> QED BY <1>1, <2>1
<1>10. i \in Said(t, "known_merchants")
  BY <1>1, <1>2, <1>4 DEF Said
<1>11. "known_merchants" \in Fields /\ "known_merchants" # "last_transaction"
  BY DEF Fields
<1>12. g["known_merchants"] = <<"set", Strings(t, i)>>
  BY <1>1, <1>10, <1>11 DEF Says, Value
<1>13. before \cup Strings(t, i) = Strings(t, i)
  <2>1. known = Unset \/ known = g["known_merchants"]
    BY <1>1, <1>11 DEF Collected
  <2>2. CASE known = Unset
    BY <2>2
  <2>3. CASE known # Unset
    BY <1>12, <2>1, <2>3
  <2> QED BY <2>2, <2>3
<1>14. ASSUME NEW f \in Fields \ {"known_merchants"} PROVE i \notin Said(t, f)
  <2>1. CASE f = "last_transaction"
    BY <1>4, <2>1 DEF Said
  <2>2. CASE f # "last_transaction"
    <3>1. f \in Plain
      BY <2>2 DEF Plain
    <3>2. i \in Said(t, f) => t[i][2] = Where[f][2]
      BY <2>2 DEF Said, IsMember
    <3>3. Where[f][2] # "known_merchants"
      BY <3>1 DEF Where, Plain, Fields
    <3> QED BY <1>4, <3>2, <3>3
  <2> QED BY <1>4, <2>1, <2>2
<1> HIDE DEF before
<1>15. fld2 = Collected(t, g, e + 1)
  <2>1. fld = [f \in Fields |-> fld[f]]
    BY <1>1 DEF Collected
  <2>2. fld2 = [fld EXCEPT !["known_merchants"] = g["known_merchants"]]
    BY <1>12, <1>13
  <2>3. fld2 = [f \in Fields |-> IF f = "known_merchants" THEN g["known_merchants"] ELSE fld[f]]
    BY <1>11, <2>1, <2>2
  <2>4. \A f \in Fields : (IF f = "known_merchants" THEN g["known_merchants"] ELSE fld[f])
                        = (IF i \in Said(t, f) THEN g[f] ELSE fld[f])
    BY <1>10, <1>14
  <2> HIDE DEF fld2
  <2> QED BY <1>9, <2>3, <2>4
<1>16. d = Level(t, e) /\ ~ KeyAt(t, e)
  BY <1>1, <1>5, <1>6, <1>7
<1> HIDE DEF fld2
<1>17. Walk(t, g, e + 1, d, s, fld2)
  BY <1>6, <1>8, <1>15, <1>16 DEF Walk
<1> QED BY <1>5, <1>17 DEF e, fld2, before

---------------------------------------------------------------------------
(* Tokens that are no keys.                                                *)

LEMMA TokenStep ==
    ASSUME NEW t, NEW g, NEW i, NEW d, NEW s, NEW fld, Walk(t, g, i, d, s, fld),
           Len(t) \in Nat, i <= Len(t), ~ KeyAt(t, i)
    PROVE  /\ Opens(t, i) => Walk(t, g, i + 1, d + 1, s, fld)
           /\ Closes(t, i) => Walk(t, g, i + 1, d - 1, IF d - 1 = 1 THEN "root" ELSE s, fld)
           /\ ~ Opens(t, i) /\ ~ Closes(t, i) => Walk(t, g, i + 1, d, s, fld)
<1>1. /\ i \in Nat \ {0} /\ i + 1 \in 1..(Len(t) + 1) /\ (i + 1) - 1 = i /\ (i + 1) - 2 = i - 1
      /\ d = Level(t, i - 1) /\ (i > 1 => ~ KeyAt(t, i - 1)) /\ SectionAt(t, i, s)
      /\ fld = Collected(t, g, i)
  BY DEF Walk
<1>2. /\ Level(t, i) \in Int
      /\ Opens(t, i) => Level(t, i) = d + 1
      /\ Closes(t, i) => Level(t, i) = d - 1
      /\ ~ Opens(t, i) /\ ~ Closes(t, i) => Level(t, i) = d
  BY <1>1, LevelStep
<1>3. Collected(t, g, i + 1) = fld
  BY <1>1, CollectSame
<1>4. CASE Opens(t, i)
  <2>1. SectionAt(t, i + 1, s)
    BY <1>1, <1>4, OpenStep
  <2>2. Walk(t, g, i + 1, d + 1, s, fld)
    BY <1>1, <1>2, <1>3, <1>4, <2>1 DEF Walk
  <2> QED BY <1>4, <2>2, TokenKinds
<1>5. CASE Closes(t, i)
  <2> DEFINE s2 == IF d - 1 = 1 THEN "root" ELSE s
  <2>1. SectionAt(t, i + 1, s2)
    BY <1>1, <1>2, <1>5, CloseStep
  <2> HIDE DEF s2
  <2>2. Walk(t, g, i + 1, d - 1, s2, fld)
    BY <1>1, <1>2, <1>3, <1>5, <2>1 DEF Walk
  <2> QED BY <1>5, <2>2, TokenKinds DEF s2
<1>6. CASE ~ Opens(t, i) /\ ~ Closes(t, i)
  <2>1. \A a : Within(t, i, a) <=> Within(t, i - 1, a)
    BY <1>1, <1>6, FlatStep
  <2>2. InSection(t, i - 1, s)
    BY <1>1, <1>6 DEF SectionAt, Opening
  <2>3. InSection(t, i, s)
    BY <2>1, <2>2, SectionSame
  <2>4. ~ Opening(t, i + 1)
    <3>1. i + 1 > 2 => i > 1
      BY <1>1
    <3> QED BY <1>1, <3>1 DEF Opening
  <2>5. SectionAt(t, i + 1, s)
    BY <1>1, <2>3, <2>4 DEF SectionAt
  <2>6. Walk(t, g, i + 1, d, s, fld)
    BY <1>1, <1>2, <1>3, <1>6, <2>5 DEF Walk
  <2> QED BY <1>6, <2>6
<1> QED BY <1>4, <1>5, <1>6

---------------------------------------------------------------------------
(* The walk as a whole.                                                    *)

LEMMA WalkStart ==
    ASSUME NEW t, NEW g, Len(t) \in Nat
    PROVE  Walk(t, g, 1, 0, "root", [f \in Fields |-> Unset])
<1>1. \A a : ~ Within(t, 0, a)
  BY DEF Within
<1>2. ~ Opening(t, 1)
  BY DEF Opening
<1>3. SectionAt(t, 1, "root")
  BY <1>1, <1>2 DEF SectionAt, InSection
<1>4. \A f : \A k \in Said(t, f) : ~ (k < 1)
  BY DEF Said, Keys
<1>5. Collected(t, g, 1) = [f \in Fields |-> Unset]
  BY <1>4 DEF Collected
<1>6. Level(t, 1 - 1) = 0 /\ 1 \in 1..(Len(t) + 1)
  BY LevelStart
<1> QED BY <1>3, <1>5, <1>6 DEF Walk

\* Behind the last token everything is collected.
LEMMA AllCollected ==
    ASSUME NEW t, NEW g, NEW i \in Int, Len(t) \in Nat, i > Len(t), Document(t, g)
    PROVE  Collected(t, g, i) = g
<1>1. \A f : \A k \in Said(t, f) : k < i
  BY DEF Said, Keys
<1>2. \A f \in Fields : Said(t, f) = {} => g[f] = Unset
  BY DEF Document, Says
<1>3. \A f \in Fields : (IF \E k \in Said(t, f) : k < i THEN g[f] ELSE Unset) = g[f]
  BY <1>1, <1>2
<1>4. g = [f \in Fields |-> g[f]]
  BY DEF Document
<1> QED BY <1>3, <1>4 DEF Collected

\* The time of a previous transaction is a member of one.
LEMMA PreviousSaid ==
    ASSUME NEW t, NEW g, Len(t) \in Nat, Document(t, g), g["timestamp"] # Unset
    PROVE  g["last_transaction"] # Unset
<1>1. {"timestamp", "last_transaction"} \subseteq Fields
  BY DEF Fields
<1>2. Says(t, g)
  BY DEF Document
<1>3. PICK i \in Said(t, "timestamp") : TRUE
  BY <1>1, <1>2 DEF Says
<1>4. i \in 1..Len(t) /\ Within(t, i, "last_transaction")
  BY <1>3, WhereObjects DEF Said, Keys, IsMember
<1>5. PICK j \in 1..(i - 2) : /\ KeyAt(t, j) /\ t[j][2] = "last_transaction" /\ Level(t, j) = 1
                              /\ Opens(t, j + 2)
  BY <1>4 DEF Within
<1>6. j \in Keys(t) /\ j + 2 <= Len(t)
  BY <1>4, <1>5 DEF Keys
<1>7. t[j + 2] # <<"null">>
  BY <1>5, TokenKinds
<1>8. j \in Said(t, "last_transaction")
  BY <1>5, <1>6, <1>7 DEF Said
<1>9. g["last_transaction"] = <<"true">>
  BY <1>1, <1>2, <1>8 DEF Says, Value
<1> QED BY <1>9 DEF Unset

\* What normalize makes of a document.
Answer(g) == IF Unset \in {g["requested_at"], g["merchant_id"]} THEN <<"none">>
             ELSE <<"features", Expected(g)>>

LEMMA AnswerIs ==
    ASSUME NEW t, NEW g, Len(t) \in Nat, Document(t, g)
    PROVE  (IF Unset \in {g["requested_at"], g["merchant_id"]} THEN <<"none">>
            ELSE <<"features", Features(g)>>) = Answer(g)
<1>1. CASE Unset \in {g["requested_at"], g["merchant_id"]}
  BY <1>1 DEF Answer
<1>2. CASE Unset \notin {g["requested_at"], g["merchant_id"]}
  <2>1. g["requested_at"] # Unset
    BY <1>2
  <2>2. IsTime(Times[g["requested_at"][2]])
    BY <2>1 DEF Document
  <2>3. g["timestamp"] # Unset => g["last_transaction"] # Unset /\ IsTime(Times[g["timestamp"][2]])
    BY PreviousSaid DEF Document
  <2>4. Features(g) = Expected(g)
    BY <2>2, <2>3, FeaturesCounted
  <2> QED BY <1>2, <2>4 DEF Answer
<1> QED BY <1>1, <1>2

\* The payload is the document the client meant.
LEMMA PayloadFacts ==
    ASSUME NEW r \in Requests, r.kind = "fraud"
    PROVE  LET t == SubSeq(r.stream, EndOf(r) + 1, r.len)
           IN Len(t) \in Nat /\ Document(t, r.given)
<1> DEFINE t == SubSeq(r.stream, EndOf(r) + 1, r.len)
<1>1. Document(t, r.given)
  BY PayloadAssumption DEF EndOf
<1>2. /\ r.stream \in Seq({r.stream[i] : i \in DOMAIN r.stream})
      /\ EndOf(r) \in 4..Len(r.stream) /\ r.len \in EndOf(r)..Len(r.stream)
  BY RequestFacts
<1>3. t \in Seq({r.stream[i] : i \in DOMAIN r.stream})
  <2> DEFINE S == {r.stream[i] : i \in DOMAIN r.stream}
  <2>1. Len(r.stream) \in Nat
    BY <1>2
  <2>2. \A i \in (EndOf(r) + 1)..r.len : i \in 1..Len(r.stream)
    BY <1>2, <2>1
  <2>3. r.stream \in Seq(S)
    BY <1>2
  <2> HIDE DEF S
  <2> QED BY <1>2, <2>1, <2>2, <2>3, SubSeqProperties
<1>4. Len(t) \in Nat
  <2> HIDE DEF t
  <2> QED BY <1>3
<1> QED BY <1>1, <1>4

AnswerGiven == stage = "done" =>
    out = IF request.kind # "fraud" THEN <<request.kind>> ELSE Answer(request.given)

Walking ==
    /\ stage = "frame" => /\ p = 1 /\ sec = "root" /\ depth = 0
                          /\ field = [f \in Fields |-> Unset]
    /\ stage = "scan" => /\ request.kind = "fraud"
                         /\ Walk(body, request.given, p, depth, sec, field)

ScanInv == FrameInv /\ Walking /\ AnswerGiven

LEMMA ScanInit == Init => ScanInv
<1> SUFFICES ASSUME Init PROVE ScanInv
  OBVIOUS
<1>1. Walking /\ AnswerGiven
  BY DEF Init, Walking, AnswerGiven
<1> QED BY <1>1, FrameInit DEF ScanInv

LEMMA ScanArrive ==
    ASSUME ScanInv, Arrive PROVE Walking' /\ AnswerGiven'
<1>1. /\ stage = "frame" /\ request' = request /\ got' \in request.cuts
      /\ p' = p /\ sec' = sec /\ depth' = depth /\ field' = field
  BY DEF Arrive
<1>2. p = 1 /\ sec = "root" /\ depth = 0 /\ field = [f \in Fields |-> Unset]
  BY <1>1 DEF ScanInv, Walking
<1> DEFINE parsed == Parse(SubSeq(request.stream, 1, got'))
<1>3. /\ stage' = CASE parsed.kind = "incomplete" -> "frame"
                    [] parsed.kind = "fraud" -> "scan"
                    [] OTHER -> "done"
      /\ body' = SubSeq(request.stream, parsed.start + 1, parsed.consumed)
      /\ out' = IF parsed.kind \in {"ready", "bad"} THEN <<parsed.kind>> ELSE out
  BY DEF Arrive
<1>4. request \in Requests
  BY DEF ScanInv, FrameInv, Arrived
<1>5. got' \in 0..Len(request.stream) /\ request.len \in Nat
  <2>1. /\ request.cuts \subseteq 1..Len(request.stream)
        /\ request.stream \in Seq({request.stream[i] : i \in DOMAIN request.stream})
        /\ EndOf(request) \in 4..Len(request.stream)
        /\ request.len \in EndOf(request)..Len(request.stream)
    BY <1>4, RequestFacts
  <2>2. Len(request.stream) \in Nat
    BY <2>1
  <2> QED BY <1>1, <2>1, <2>2
<1>6. /\ got' < request.len => parsed.kind = "incomplete"
      /\ got' >= request.len => /\ parsed.kind \in {"fraud", "ready", "bad"}
                                /\ parsed.kind = request.kind
                                /\ parsed.start = EndOf(request) /\ parsed.consumed = request.len
  BY <1>4, <1>5, ParsedWhole
<1>7. got' < request.len \/ got' >= request.len
  BY <1>5
<1> HIDE DEF parsed
<1>8. CASE got' < request.len
  <2>1. stage' = "frame"
    BY <1>3, <1>6, <1>8
  <2> QED BY <1>1, <1>2, <2>1 DEF Walking, AnswerGiven
<1>9. CASE got' >= request.len /\ request.kind = "fraud"
  <2>1. stage' = "scan" /\ body' = SubSeq(request.stream, EndOf(request) + 1, request.len)
    BY <1>3, <1>6, <1>9
  <2>2. Len(body') \in Nat
    BY <1>4, <1>9, <2>1, PayloadFacts
  <2>3. Walk(body', request.given, 1, 0, "root", [f \in Fields |-> Unset])
    BY <2>2, WalkStart
  <2> QED BY <1>1, <1>2, <1>9, <2>1, <2>3 DEF Walking, AnswerGiven
<1>10. CASE got' >= request.len /\ request.kind # "fraud"
  <2>1. stage' = "done" /\ out' = <<request.kind>>
    BY <1>3, <1>6, <1>10
  <2> QED BY <1>1, <1>10, <2>1 DEF Walking, AnswerGiven
<1> QED BY <1>7, <1>8, <1>9, <1>10

\* The state the walk finds.
AtWalk ==
    /\ stage = "scan" /\ request.kind = "fraud" /\ Len(body) \in Nat
    /\ Document(body, request.given) /\ Walk(body, request.given, p, depth, sec, field)
    /\ p \in 1..(Len(body) + 1)

LEMMA WalkFacts ==
    ASSUME ScanInv, stage = "scan" PROVE AtWalk
<1>1. request \in Requests /\ body = SubSeq(request.stream, EndOf(request) + 1, request.len)
  BY DEF ScanInv, FrameInv, Arrived, BodyOnly
<1>2. request.kind = "fraud" /\ Walk(body, request.given, p, depth, sec, field)
  BY DEF ScanInv, Walking
<1>3. Len(body) \in Nat /\ Document(body, request.given)
  BY <1>1, <1>2, PayloadFacts
<1> QED BY <1>2, <1>3 DEF AtWalk, Walk

\* A step of the walk.
Walked ==
    /\ stage' = "scan" /\ request' = request /\ body' = body
    /\ Walk(body, request.given, p', depth', sec', field')

LEMMA WalkedOn == ASSUME AtWalk, Walked PROVE Walking' /\ AnswerGiven'
BY DEF AtWalk, Walked, Walking, AnswerGiven

LEMMA WalkTokens ==
    ASSUME AtWalk, OpenBrace \/ CloseBrace \/ Other \/ NotKey PROVE Walked
<1> DEFINE g == request.given
<1>1. /\ stage' = "scan" /\ request' = request /\ body' = body /\ field' = field
      /\ p <= Len(body) /\ p' = p + 1
  BY DEF AtWalk, OpenBrace, CloseBrace, Other, NotKey, Is, Scanning
<1>2. Len(body) \in Nat /\ Walk(body, g, p, depth, sec, field)
  BY DEF AtWalk
<1>3. ~ KeyAt(body, p)
  <2>1. CASE OpenBrace
    BY <2>1, TokenKinds DEF OpenBrace, Is, Opens, KeyAt
  <2>2. CASE CloseBrace
    BY <2>2, TokenKinds DEF CloseBrace, Is, Closes, KeyAt
  <2>3. CASE Other
    <3>1. body[p][1] # "str"
      BY <2>3, Zenon DEF Other
    <3> QED BY <3>1 DEF KeyAt
  <2>4. CASE NotKey
    BY <2>4 DEF NotKey, IsKey, KeyAt
  <2> QED BY <2>1, <2>2, <2>3, <2>4
<1>4. /\ Opens(body, p) => Walk(body, g, p + 1, depth + 1, sec, field)
      /\ Closes(body, p) =>
            Walk(body, g, p + 1, depth - 1, IF depth - 1 = 1 THEN "root" ELSE sec, field)
      /\ ~ Opens(body, p) /\ ~ Closes(body, p) => Walk(body, g, p + 1, depth, sec, field)
  BY <1>1, <1>2, <1>3, TokenStep
<1>5. CASE OpenBrace
  <2>1. Opens(body, p) /\ depth' = depth + 1 /\ sec' = sec
    BY <1>5, Zenon DEF OpenBrace, Is, Opens
  <2> QED BY <1>1, <1>4, <2>1 DEF Walked
<1>6. CASE CloseBrace
  <2>1. Closes(body, p) /\ depth' = depth - 1
    BY <1>6, Zenon DEF CloseBrace, Is, Closes
  <2>2. sec' = IF depth' = 1 THEN "root" ELSE sec
    BY <1>6, Zenon DEF CloseBrace
  <2> QED BY <1>1, <1>4, <2>1, <2>2 DEF Walked
<1>7. CASE Other
  <2>1. ~ Opens(body, p) /\ ~ Closes(body, p)
    BY <1>7, Zenon DEF Other, Opens, Closes
  <2>2. depth' = depth /\ sec' = sec
    BY <1>7, Zenon DEF Other
  <2> QED BY <1>1, <1>4, <2>1, <2>2 DEF Walked
<1>8. CASE NotKey
  <2>1. ~ Opens(body, p) /\ ~ Closes(body, p)
    <3>1. body[p][1] = "str"
      BY <1>8 DEF NotKey, Is
    <3> QED BY <3>1, TokenKinds
  <2>2. depth' = depth /\ sec' = sec
    BY <1>8 DEF NotKey
  <2> QED BY <1>1, <1>4, <2>1, <2>2 DEF Walked
<1> QED BY <1>5, <1>6, <1>7, <1>8

LEMMA WalkKeys ==
    ASSUME AtWalk, KeySection \/ KeyArray \/ KeyField PROVE Walked
<1> DEFINE t == body
           g == request.given
<1>1. /\ stage' = "scan" /\ request' = request /\ body' = body /\ depth' = depth
      /\ body[p][1] = "str" /\ IsKey /\ p + 2 <= Len(body)
  BY DEF AtWalk, KeySection, KeyArray, KeyField, Is, Scanning
<1>2. AtKey(t, g, p, depth, sec, field)
  <2>1. p \in 1..Len(t) /\ KeyAt(t, p)
    BY <1>1 DEF AtWalk, IsKey, KeyAt
  <2> QED BY <1>1, <2>1 DEF AtWalk, AtKey
<1>3. KnownMerchants <=> KnownAt(t, p, sec)
  BY DEF KnownMerchants, KnownAt
<1>4. CASE KeySection
  <2> DEFINE s2 == IF t[p][2] \in DOMAIN Sections THEN Sections[t[p][2]]
                   ELSE IF LastAt(t, p) THEN "last" ELSE "root"
             f2 == IF LastAt(t, p) THEN [field EXCEPT !["last_transaction"] = <<"true">>] ELSE field
  <2>1. sec = "root" /\ sec' = s2 /\ field' = f2 /\ p' = p + 2
    BY <1>4 DEF KeySection, LastAt
  <2>2. AtKey(t, g, p, depth, "root", field)
    BY <1>2, <2>1
  <2>3. Walk(t, g, p + 2, depth, s2, f2)
    BY <2>2, SectionStep
  <2> HIDE DEF s2, f2
  <2> QED BY <1>1, <2>1, <2>3 DEF Walked
<1>5. CASE KeyField
  <2> DEFINE l == Local(sec, t[p][2])
             f2 == IF l = "none" THEN field ELSE [field EXCEPT ![l] = t[p + 2]]
  <2>1. sec # "root" /\ ~ KnownAt(t, p, sec) /\ sec' = sec /\ field' = f2 /\ p' = p + 2
    BY <1>3, <1>5 DEF KeyField
  <2>2. Walk(t, g, p + 2, depth, sec, f2)
    BY <1>2, <2>1, FieldStep
  <2> HIDE DEF f2
  <2> QED BY <1>1, <2>1, <2>2 DEF Walked
<1>6. CASE KeyArray
  <2> DEFINE ends == ArrayEnds(t, p)
             before == IF field["known_merchants"] = Unset THEN {} ELSE field["known_merchants"][2]
             f2 == [field EXCEPT !["known_merchants"] = <<"set", before \cup Strings(t, p)>>]
  <2>1. KnownAt(t, p, sec) /\ sec' = sec
    BY <1>3, <1>6 DEF KeyArray
  <2>2. ends # {} /\ Walk(t, g, First(ends) + 1, depth, sec, f2)
    BY <1>2, <2>1, ArrayStep
  <2>3. /\ p' = (IF ends = {} THEN Len(t) ELSE First(ends)) + 1
        /\ field' = [field EXCEPT !["known_merchants"] =
                        <<"set", before \cup {t[i][2] : i \in {j \in (p + 3)..(IF ends = {} THEN Len(t)
                                                                          ELSE First(ends)) : t[j][1] = "str"}}>>]
    BY <1>6 DEF KeyArray, ArrayEnds
  <2>4. p' = First(ends) + 1 /\ field' = f2
    BY <2>2, <2>3 DEF Strings
  <2> HIDE DEF f2, ends
  <2> QED BY <1>1, <2>1, <2>2, <2>4 DEF Walked
<1> QED BY <1>4, <1>5, <1>6

LEMMA WalkEnds ==
    ASSUME AtWalk, Truncated \/ Finish PROVE Walking' /\ AnswerGiven'
<1> DEFINE t == body
           g == request.given
<1>1. Len(t) \in Nat /\ Document(t, g) /\ request.kind = "fraud" /\ p \in 1..(Len(t) + 1)
      /\ field = Collected(t, g, p)
  BY DEF AtWalk, Walk
<1>2. stage' = "done" /\ request' = request
  BY DEF Truncated, Finish
<1>3. out' = Answer(g)
  <2>1. CASE Truncated
    <3>1. p \in Keys(t) /\ ~ (p + 2 <= Len(t)) /\ out' = <<"none">>
      BY <1>1, <2>1 DEF Truncated, Is, Scanning, IsKey, Keys, KeyAt
    <3>2. Unset \in {g["requested_at"], g["merchant_id"]}
      BY <1>1, <3>1 DEF Document
    <3> QED BY <3>1, <3>2 DEF Answer
  <2>2. CASE Finish
    <3>1. p > Len(t)
      BY <2>2 DEF Finish
    <3>2. field = g
      BY <1>1, <3>1, AllCollected
    <3>3. out' = IF Unset \in {g["requested_at"], g["merchant_id"]} THEN <<"none">>
                 ELSE <<"features", Features(g)>>
      BY <2>2, <3>2 DEF Finish
    <3> QED BY <1>1, <3>3, AnswerIs
  <2> QED BY <2>1, <2>2
<1> QED BY <1>1, <1>2, <1>3 DEF Walking, AnswerGiven

LEMMA ScanStep == ScanInv /\ [Next]_vars => ScanInv'
<1> SUFFICES ASSUME ScanInv, [Next]_vars PROVE Walking' /\ AnswerGiven'
  BY FrameStep DEF ScanInv
<1>1. CASE Arrive
  BY <1>1, ScanArrive
<1>2. CASE OpenBrace \/ CloseBrace \/ Other \/ NotKey
  <2>1. AtWalk
    BY <1>2, WalkFacts DEF OpenBrace, CloseBrace, Other, NotKey, Is, Scanning
  <2> QED BY <1>2, <2>1, WalkTokens, WalkedOn
<1>3. CASE KeySection \/ KeyArray \/ KeyField
  <2>1. AtWalk
    BY <1>3, WalkFacts DEF KeySection, KeyArray, KeyField, Is, Scanning
  <2> QED BY <1>3, <2>1, WalkKeys, WalkedOn
<1>4. CASE Truncated \/ Finish
  <2>1. AtWalk
    BY <1>4, WalkFacts DEF Truncated, Finish, Is, Scanning
  <2> QED BY <1>4, <2>1, WalkEnds
<1>5. CASE UNCHANGED vars
  BY <1>5 DEF vars, ScanInv, Walking, AnswerGiven
<1> QED BY <1>1, <1>2, <1>3, <1>4, <1>5 DEF Next

\* The answer to a request is that of the JSON document it carries: every value
\* is taken from the member of the object it is in, wherever that object stands
\* and whatever stands around it, and a document without the obligatory values is
\* refused (normalize, for any document its scanner can read).
THEOREM ScannedFeatures == Spec => []FeaturesOfPayload
<1>1. ScanInv => FeaturesOfPayload
  BY DEF ScanInv, AnswerGiven, FeaturesOfPayload, Answer
<1> QED BY <1>1, ScanInit, ScanStep, PTL DEF Spec
====
