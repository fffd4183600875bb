---- MODULE FraudRequest ----
(***************************************************************************)
(* What a worker makes of one request on its way to the search: bytes      *)
(* arrive cut anywhere, parse (http.rs) finds where the request ends, and  *)
(* normalize (normalize.rs) walks the payload once and computes the        *)
(* features.  Its scanner is no JSON parser: it looks for quoted keys and  *)
(* keeps one section and one brace depth.                                  *)
(*                                                                         *)
(* A byte stands for a token: <<"CR">>, <<"{">>, <<"str", name>>, ...      *)
(***************************************************************************)
EXTENDS Integers, Sequences, CivilTime

CONSTANTS
    Requests,   \* [stream, len, cuts, kind, given]: what is sent, and where a read may
                \* end; more may follow the request
    Times,      \* Times[s]: the date and time a string spells
    MccRisk,    \* MccRisk[s]: the risk table
    UsizeMod    \* a length wraps at this (2^64)

VARIABLES
    request,    \* what a client sends
    got,        \* how much of it has arrived
    stage,      \* frame, scan, done
    body, used, \* what parse delivered, and how much it consumed
    p,          \* next token of the payload
    sec, depth, \* section and brace depth
    field,      \* field[f]: the token a local of normalize was set from
    out         \* the features, or None
vars == <<request, got, stage, body, used, p, sec, depth, field, out>>

---------------------------------------------------------------------------
(* http.rs                                                                 *)

First(S) == CHOOSE i \in S : \A j \in S : i <= j

Blanks(buf) == {i \in 1..(Len(buf) - 3) :
                   SubSeq(buf, i, i + 3) = <<<<"CR">>, <<"LF">>, <<"CR">>, <<"LF">>>>}

\* The first Content-Length wherever it is; 0 if there is none.
ContentLength(headers) ==
    LET names == {i \in DOMAIN headers : headers[i] = <<"Content-Length:">>}
        start == First({i \in DOMAIN headers : i > First(names) /\ headers[i] # <<"SP">>})
        end   == First({i \in DOMAIN headers : i >= start /\ headers[i][1] # "digit"})
        v[i \in (start - 1)..(end - 1)] ==
            IF i < start THEN 0 ELSE (v[i - 1] * 10 + headers[i][2]) % UsizeMod
    IN IF names = {} THEN 0 ELSE v[end - 1]

Parsed(kind, start, consumed) == [kind |-> kind, start |-> start, consumed |-> consumed]
Incomplete == Parsed("incomplete", 0, 0)

\* Slip: a request is taken for complete with its headers.
ParseHeaders(buf) ==
    IF Blanks(buf) = {} THEN Incomplete
    ELSE LET end == First(Blanks(buf)) + 3
             headers == SubSeq(buf, 1, end)
         IN CASE headers[1] = <<"POST">> -> Parsed("fraud", end, (end + ContentLength(headers)) % UsizeMod)
              [] headers[1] = <<"GET">>  -> Parsed("ready", end, end)
              [] OTHER                   -> Parsed("bad", end, end)

Parse(buf) ==
    IF Blanks(buf) = {} THEN Incomplete
    ELSE LET end     == First(Blanks(buf)) + 3
             headers == SubSeq(buf, 1, end)
             total   == (end + ContentLength(headers)) % UsizeMod
         IN CASE headers[1] = <<"POST">> -> IF Len(buf) < total THEN Incomplete
                                            ELSE Parsed("fraud", end, total)
              [] headers[1] = <<"GET">>  -> Parsed("ready", end, end)
              [] OTHER                   -> Parsed("bad", end, end)

\* What a client sends: one request, whole, with anything behind it.  It ends
\* with its headers, or as far behind them as its Content-Length says.
WellFormed(r) ==
    LET end     == First(Blanks(r.stream)) + 3
        headers == SubSeq(r.stream, 1, end)
    IN /\ r.stream \in Seq({r.stream[i] : i \in DOMAIN r.stream})
       /\ r.cuts \subseteq 1..Len(r.stream)
       /\ Blanks(r.stream) # {}
       /\ r.len = IF headers[1] = <<"POST">> THEN end + ContentLength(headers) ELSE end
       /\ r.len \in end..Len(r.stream) /\ r.len < UsizeMod
ASSUME RequestAssumption ==
    UsizeMod \in Nat \ {0} /\ \A r \in Requests : WellFormed(r)

Fields == {"amount", "installments", "requested_at", "customer_avg", "tx_count_24h",
           "known_merchants", "merchant_id", "mcc", "merchant_avg", "is_online",
           "card_present", "km_from_home", "last_transaction", "timestamp", "km_from_current"}
Unset == <<"unset">>

Init ==
    /\ request \in Requests /\ got = 0 /\ stage = "frame"
    /\ body = <<>> /\ used = 0
    /\ p = 1 /\ sec = "root" /\ depth = 0
    /\ field = [f \in Fields |-> Unset]
    /\ out = <<"none yet">>

\* One read, and the parse of what the buffer then holds.
Arrive ==
    /\ stage = "frame"
    /\ got' \in {n \in request.cuts : n > got}
    /\ LET parsed == Parse(SubSeq(request.stream, 1, got'))
       IN /\ stage' = CASE parsed.kind = "incomplete" -> "frame"
                        [] parsed.kind = "fraud" -> "scan"
                        [] OTHER -> "done"
          /\ body' = SubSeq(request.stream, parsed.start + 1, parsed.consumed)
          /\ used' = parsed.consumed
          /\ out'  = IF parsed.kind \in {"ready", "bad"} THEN <<parsed.kind>> ELSE out
    /\ UNCHANGED <<request, p, sec, depth, field>>

---------------------------------------------------------------------------
(* normalize: the walk.                                                    *)

Scanning == stage = "scan" /\ p <= Len(body)
Is(k)    == Scanning /\ body[p][1] = k

OpenBrace ==
    /\ Is("{")
    /\ depth' = depth + 1 /\ p' = p + 1
    /\ UNCHANGED <<request, got, stage, body, used, sec, field, out>>

\* Slip: any closing brace ends the section.
CloseAnyBrace ==
    /\ Is("}")
    /\ depth' = depth - 1 /\ p' = p + 1 /\ sec' = "root"
    /\ UNCHANGED <<request, got, stage, body, used, field, out>>

CloseBrace ==
    /\ Is("}")
    /\ depth' = depth - 1 /\ p' = p + 1
    /\ sec' = IF depth' = 1 THEN "root" ELSE sec
    /\ UNCHANGED <<request, got, stage, body, used, field, out>>

Other ==
    /\ Scanning /\ body[p][1] \notin {"{", "}", "str"}
    /\ p' = p + 1
    /\ UNCHANGED <<request, got, stage, body, used, sec, depth, field, out>>

\* A quoted string is a key if a colon follows; a string that is a value is
\* read again as if it might be one.
IsKey == p < Len(body) /\ body[p + 1] = <<":">>
NotKey ==
    /\ Is("str") /\ ~IsKey
    /\ p' = p + 1
    /\ UNCHANGED <<request, got, stage, body, used, sec, depth, field, out>>

Truncated ==
    /\ Is("str") /\ IsKey /\ p + 2 > Len(body)
    /\ out' = <<"none">> /\ stage' = "done"
    /\ UNCHANGED <<request, got, body, used, p, sec, depth, field>>

\* Which local a key sets, by the section it is in.
Sections == [transaction |-> "tx", customer |-> "cust", merchant |-> "merch", terminal |-> "term"]
Local(s, key) ==
    CASE s = "tx" /\ key \in {"amount", "installments", "requested_at"} -> key
      [] s = "cust" /\ key = "avg_amount" -> "customer_avg"
      [] s = "cust" /\ key = "tx_count_24h" -> key
      [] s = "merch" /\ key = "id" -> "merchant_id"
      [] s = "merch" /\ key = "mcc" -> key
      [] s = "merch" /\ key = "avg_amount" -> "merchant_avg"
      [] s = "term" /\ key \in {"is_online", "card_present", "km_from_home"} -> key
      [] s = "last" /\ key \in {"timestamp", "km_from_current"} -> key
      [] OTHER -> "none"

KeySection ==
    /\ Is("str") /\ IsKey /\ p + 2 <= Len(body) /\ sec = "root"
    /\ LET key  == body[p][2]
           last == key = "last_transaction" /\ body[p + 2] # <<"null">>
       IN /\ sec' = IF key \in DOMAIN Sections THEN Sections[key] ELSE IF last THEN "last" ELSE sec
          /\ field' = IF last THEN [field EXCEPT !["last_transaction"] = <<"true">>] ELSE field
    /\ p' = p + 2
    /\ UNCHANGED <<request, got, stage, body, used, depth, out>>

KnownMerchants == sec = "cust" /\ body[p][2] = "known_merchants" /\ body[p + 2] = <<"[">>

\* The whole array is read in one go.
KeyArray ==
    /\ Is("str") /\ IsKey /\ p + 2 <= Len(body) /\ sec # "root" /\ KnownMerchants
    /\ LET ends  == {i \in (p + 3)..Len(body) : body[i] = <<"]">>}
           end   == IF ends = {} THEN Len(body) ELSE First(ends)
           names == {body[i][2] : i \in {j \in (p + 3)..end : body[j][1] = "str"}}
           before == IF field["known_merchants"] = Unset THEN {} ELSE field["known_merchants"][2]
       IN /\ field' = [field EXCEPT !["known_merchants"] = <<"set", before \cup names>>]
          /\ p' = end + 1
    /\ UNCHANGED <<request, got, stage, body, used, sec, depth, out>>

KeyField ==
    /\ Is("str") /\ IsKey /\ p + 2 <= Len(body) /\ sec # "root" /\ ~KnownMerchants
    /\ LET f == Local(sec, body[p][2])
       IN field' = IF f = "none" THEN field ELSE [field EXCEPT ![f] = body[p + 2]]
    /\ p' = p + 2
    /\ UNCHANGED <<request, got, stage, body, used, sec, depth, out>>

---------------------------------------------------------------------------
(* normalize: the features.  A number is clamped to 0..Cap of its field;   *)
(* scaling and rounding are IvfDistance's.                                 *)

Cap == [amount |-> 10000, installments |-> 12, km |-> 1000, count |-> 20, seconds |-> 86400]
Clamp(x, cap)  == IF x < 0 THEN 0 ELSE IF x > cap THEN cap ELSE x
Number(t)      == IF t[1] = "num" THEN t[2] ELSE 0
Flag(t)        == t = <<"true">>
Marked         == [seconds |-> -1, km |-> -1]

Since(last, now, km) ==
    [seconds |-> Clamp(SecondsFrom(last, now), Cap.seconds), km |-> Clamp(km, Cap.km)]

Features(f) ==
    LET now == Times[f["requested_at"][2]]
        avg == Number(f["customer_avg"])
    IN [amount       |-> Clamp(Number(f["amount"]), Cap.amount),
        installments |-> Clamp(Number(f["installments"]), Cap.installments),
        ratio        |-> <<Number(f["amount"]), IF avg > 0 THEN avg ELSE 1>>,
        hour         |-> now.hour,
        weekday      |-> FastWeekday(now.year, now.month, now.day),
        since        |-> IF f["last_transaction"] = Unset \/ f["timestamp"] = Unset THEN Marked
                         ELSE Since(Times[f["timestamp"][2]], now, Number(f["km_from_current"])),
        home         |-> Clamp(Number(f["km_from_home"]), Cap.km),
        count        |-> Clamp(Number(f["tx_count_24h"]), Cap.count),
        online       |-> Flag(f["is_online"]), present |-> Flag(f["card_present"]),
        known        |-> f["known_merchants"] # Unset /\ f["merchant_id"][2] \in f["known_merchants"][2],
        risk         |-> IF f["mcc"] = Unset \/ f["mcc"][2] \notin DOMAIN MccRisk THEN 50
                         ELSE MccRisk[f["mcc"][2]],
        merchant     |-> Clamp(Number(f["merchant_avg"]), Cap.amount)]

Finish ==
    /\ stage = "scan" /\ p > Len(body)
    /\ out' = IF Unset \in {field["requested_at"], field["merchant_id"]} THEN <<"none">>
              ELSE <<"features", Features(field)>>
    /\ stage' = "done"
    /\ UNCHANGED <<request, got, body, used, p, sec, depth, field>>

Next == \/ Arrive \/ OpenBrace \/ CloseBrace \/ Other \/ NotKey \/ Truncated
        \/ KeySection \/ KeyArray \/ KeyField \/ Finish

Spec == Init /\ [][Next]_vars

---------------------------------------------------------------------------
(* What a document says, by where its tokens are.                          *)

Opens(t, i)  == t[i][1] = "{"
Closes(t, i) == t[i][1] = "}"
Level(t, i)  == Cardinality({j \in 1..i : Opens(t, j)}) - Cardinality({j \in 1..i : Closes(t, j)})
KeyAt(t, i) == t[i][1] = "str" /\ i < Len(t) /\ t[i + 1] = <<":">>
Keys(t)     == {i \in 1..Len(t) : KeyAt(t, i)}

\* Position i is within the object that a member of the document has as value.
Within(t, i, name) ==
    \E j \in 1..(i - 2) : /\ KeyAt(t, j) /\ t[j][2] = name /\ Level(t, j) = 1 /\ Opens(t, j + 2)
                         /\ \A k \in (j + 2)..i : Level(t, k) >= 2

\* The member each field is, and the object that member is in.
Where == [amount |-> <<"transaction", "amount">>, installments |-> <<"transaction", "installments">>,
          requested_at |-> <<"transaction", "requested_at">>,
          customer_avg |-> <<"customer", "avg_amount">>, tx_count_24h |-> <<"customer", "tx_count_24h">>,
          known_merchants |-> <<"customer", "known_merchants">>,
          merchant_id |-> <<"merchant", "id">>, mcc |-> <<"merchant", "mcc">>,
          merchant_avg |-> <<"merchant", "avg_amount">>,
          is_online |-> <<"terminal", "is_online">>, card_present |-> <<"terminal", "card_present">>,
          km_from_home |-> <<"terminal", "km_from_home">>,
          timestamp |-> <<"last_transaction", "timestamp">>,
          km_from_current |-> <<"last_transaction", "km_from_current">>]
Objects == {"transaction", "customer", "merchant", "terminal", "last_transaction"}

IsMember(t, i, f)  == t[i][2] = Where[f][2] /\ Within(t, i, Where[f][1])
ArrayEnds(t, i)    == {e \in (i + 3)..Len(t) : t[e] = <<"]">>}
Listed(t, k)       == t[k][1] = "str" \/ t[k] = <<",">>
Strings(t, i)      == {t[k][2] : k \in {j \in (i + 3)..First(ArrayEnds(t, i)) : t[j][1] = "str"}}

\* Where the document gives a value to f, and which.
Said(t, f) ==
    {i \in Keys(t) :
        IF f = "last_transaction"
        THEN t[i][2] = f /\ Level(t, i) = 1 /\ i + 2 <= Len(t) /\ t[i + 2] # <<"null">>
        ELSE IsMember(t, i, f) /\ i + 2 <= Len(t) /\ (f = "known_merchants" => t[i + 2] = <<"[">>)}
Value(t, f, i) ==
    CASE f = "last_transaction" -> <<"true">>
      [] f = "known_merchants"  -> <<"set", Strings(t, i)>>
      [] OTHER                  -> t[i + 2]

Says(t, g) == \A f \in Fields : /\ Said(t, f) = {} => g[f] = Unset
                               /\ \A i \in Said(t, f) : g[f] = Value(t, f, i)

\* What the scanner takes for granted: an object it knows by name is a member of
\* the document, and an object (the last transaction may be null); deeper down no
\* key is called like a member of the same object; the known merchants are an
\* array of strings.  A document that is cut short says too little.
Placed(t, i) ==
    /\ t[i][2] \in Objects =>
          \/ \E name \in Objects : Within(t, i, name)
          \/ /\ Level(t, i) = 1
             /\ i + 2 <= Len(t) => \/ Opens(t, i + 2)
                                   \/ t[i][2] = "last_transaction" /\ t[i + 2] = <<"null">>
    /\ \A f \in DOMAIN Where : IsMember(t, i, f) => Level(t, i) = 2
    /\ IsMember(t, i, "known_merchants") /\ i + 2 <= Len(t) /\ t[i + 2] = <<"[">> =>
          /\ ArrayEnds(t, i) # {}
          /\ \A k \in (i + 3)..(First(ArrayEnds(t, i)) - 1) : Listed(t, k)

IsTime(t) ==
    /\ t.year \in Nat /\ t.year >= 1970 /\ t.month \in 1..12 /\ t.day \in 1..31
    /\ t.hour \in Nat /\ t.minute \in Nat /\ t.second \in Nat

Document(t, g) ==
    /\ g = [f \in Fields |-> g[f]] /\ Says(t, g)
    /\ \A i \in Keys(t) : Placed(t, i)
    /\ (\A i \in Keys(t) : i + 2 <= Len(t)) \/ Unset \in {g["requested_at"], g["merchant_id"]}
    /\ \A f \in {"requested_at", "timestamp"} : g[f] # Unset => IsTime(Times[g[f][2]])

\* A request is of the kind its method makes it, and what is posted is a document
\* that says what is given.
ASSUME PayloadAssumption ==
    \A r \in Requests :
        LET method == r.stream[1]
            start  == First(Blanks(r.stream)) + 3
        IN /\ r.kind = IF method = <<"POST">> THEN "fraud" ELSE IF method = <<"GET">> THEN "ready" ELSE "bad"
           /\ r.kind = "fraud" => Document(SubSeq(r.stream, start + 1, r.len), r.given)

---------------------------------------------------------------------------
(* Properties.                                                             *)

\* However the bytes are cut and whatever follows, a request is parsed when
\* its last byte is there, not before, and for exactly its own bytes: what the
\* two workers' models take framing to be.
FramedWhole ==
    /\ stage = "frame" => got < request.len
    /\ stage # "frame" => got >= request.len /\ used = request.len

\* The features are those of the JSON document: every value is taken from the
\* section it is in, in any order of sections and members and with others in
\* between; weekday and elapsed time are the calendar's; without a previous
\* transaction both marks are set; a payload without the two obligatory values
\* is refused.
SecondsCounted(t, u) ==
    (DayNumber(u.year, u.month, u.day) - DayNumber(t.year, t.month, t.day)) * 86400
        + (u.hour * 3600 + u.minute * 60 + u.second) - (t.hour * 3600 + t.minute * 60 + t.second)
Expected(g) ==
    LET now  == Times[g["requested_at"][2]]
        last == Times[g["timestamp"][2]]
    IN [Features(g) EXCEPT
           !.weekday = Weekday(now.year, now.month, now.day),
           !.since = IF g["timestamp"] = Unset THEN Marked
                     ELSE [seconds |-> Clamp(SecondsCounted(last, now), Cap.seconds),
                           km |-> Clamp(Number(g["km_from_current"]), Cap.km)]]
FeaturesOfPayload ==
    stage = "done" =>
        IF request.kind # "fraud" THEN out = <<request.kind>>
        ELSE LET g == request.given
             IN out = IF Unset \in {g["requested_at"], g["merchant_id"]} THEN <<"none">>
                      ELSE <<"features", Expected(g)>>
====
