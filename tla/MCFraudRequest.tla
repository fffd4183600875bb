---- MODULE MCFraudRequest ----
(***************************************************************************)
(* Requests with every order of the payload's sections, orders and gaps in *)
(* the members, members that mean nothing, and dates around the turns of   *)
(* months, years and leap years.                                           *)
(***************************************************************************)
EXTENDS FraudRequest, SequencesExt, TLC

Str(s) == <<"str", s>>
Num(n) == <<"num", n>>

\* Joined(<<a, b, c>>) is a , b , c.
Joined(parts) == FoldLeft(LAMBDA acc, x : IF acc = <<>> THEN x ELSE acc \o <<<<",">>>> \o x,
                          <<>>, parts)
Member(key, value) == <<Str(key), <<":">>>> \o value
Object(members)    == <<<<"{">>>> \o Joined(members) \o <<<<"}">>>>
Array(names) == <<<<"[">>>> \o Joined([i \in DOMAIN names |-> <<Str(names[i])>>]) \o <<<<"]">>>>

\* A member that sets a field, and one that does not.
Field(f, key, token)   == [sets |-> f :> token, tokens |-> Member(key, <<token>>)]
Known(names)           == [sets |-> "known_merchants" :> <<"set", {names[i] : i \in DOMAIN names}>>,
                           tokens |-> Member("known_merchants", Array(names))]
Nothing(key, value)    == [sets |-> <<>>, tokens |-> Member(key, value)]
Section(name, members) ==
    [sets |-> FoldLeft(LAMBDA acc, m : m.sets @@ acc, <<>>, members),
     tokens |-> Member(name, Object([i \in DOMAIN members |-> members[i].tokens]))]

Tx(at)  == <<Field("amount", "amount", Num(441)), Field("installments", "installments", Num(13)),
             Field("requested_at", "requested_at", Str(at))>>
Cust    == <<Field("customer_avg", "avg_amount", Num(883)), Field("tx_count_24h", "tx_count_24h", Num(3)),
             Known(<<"M1", "M2">>)>>
Merch   == <<Field("merchant_id", "id", Str("M2")), Field("mcc", "mcc", Str("5411")),
             Field("merchant_avg", "avg_amount", Num(302))>>
Term    == <<Field("is_online", "is_online", <<"false">>), Field("card_present", "card_present", <<"true">>),
             Field("km_from_home", "km_from_home", Num(33))>>
LastTx(t) == <<Field("timestamp", "timestamp", Str(t)), Field("km_from_current", "km_from_current", Num(18))>>

LastSection(members) ==
    LET s == Section("last_transaction", members)
    IN [s EXCEPT !.sets = ("last_transaction" :> <<"true">>) @@ @]
NoLast == Nothing("last_transaction", <<<<"null">>>>)
Id     == Nothing("id", <<Str("transaction")>>)
\* An object nobody asks for, whose members are called like others'.
Meta   == Nothing("meta", Object(<<Member("amount", <<Num(1)>>), Member("id", <<Str("M9")>>)>>))
Nested == Nothing("place", Object(<<Member("city", <<Str("amount")>>)>>))

Sects(at, last) == <<Section("transaction", Tx(at)), Section("customer", Cust), Section("merchant", Merch),
                     Section("terminal", Term), last>>
Now  == "2024-03-01T00:10:00Z"
Then == "2024-02-29T23:59:30Z"
Usual == Sects(Now, LastSection(LastTx(Then)))

Permuted(s) == {[i \in DOMAIN s |-> s[f[i]]] : f \in {g \in [DOMAIN s -> DOMAIN s] : \A i, j \in DOMAIN s : g[i] = g[j] => i = j}}
With(i, s)  == [Usual EXCEPT ![i] = s]

Orders  == Permuted(Usual)
Gaps    == {With(1, Section("transaction", <<Tx(Now)[1]>>)), With(2, Section("customer", <<Cust[1]>>)),
            With(2, Section("customer", <<Known(<<>>), Field("customer_avg", "avg_amount", Num(0))>>)),
            With(3, Section("merchant", <<Merch[2], Merch[3]>>)), With(3, Section("merchant", <<Merch[1]>>)),
            With(3, Section("merchant", <<Field("mcc", "mcc", Str("0000")), Field("merchant_id", "id", Str("M3"))>>)),
            With(4, Section("terminal", <<>>)), With(5, NoLast), With(5, LastSection(<<LastTx(Then)[2]>>)),
            SubSeq(Usual, 1, 4), <<>>}
Extras  == {<<Id>> \o Usual, <<Meta>> \o Usual, Usual \o <<Meta>>, <<Usual[1], Meta>> \o Tail(Usual)}
           \cup {With(3, Section("merchant", m)) : m \in Permuted(<<Nested>> \o Merch)}
           \cup {With(2, Section("customer", m)) : m \in Permuted(<<Nested>> \o Cust)}
Dated   == {Sects(d, LastSection(LastTx(e))) : d \in DOMAIN Times, e \in DOMAIN Times}
Payloads == Orders \cup Gaps \cup Extras \cup Dated

---------------------------------------------------------------------------
(* Requests around them.                                                   *)

Crlf  == <<<<"CR">>, <<"LF">>>>
Digit(n) == <<<<"digit", n>>>>
Digits(n) == IF n < 10 THEN Digit(n)
             ELSE IF n < 100 THEN Digit(n \div 10) \o Digit(n % 10)
             ELSE Digit(n \div 100) \o Digit((n \div 10) % 10) \o Digit(n % 10)
Length(n) == <<<<"Content-Length:">>, <<"SP">>>> \o Digits(n) \o Crlf
Host      == <<<<"Host:">>, <<"SP">>, <<"digit", 7>>>> \o Crlf
Behind    == <<<<"GET">>>> \o Crlf \o Crlf

\* Cut anywhere, or arriving whole.
Sent(all, cuts, kind, given) ==
    [stream |-> all \o Behind, len |-> Len(all), kind |-> kind, given |-> given @@ [f \in Fields |-> Unset],
     cuts |-> IF cuts THEN 1..(Len(all) + Len(Behind)) ELSE {Len(all)}]
Post(text, before, after) ==
    <<<<"POST">>>> \o Crlf \o before \o Length(Len(text)) \o after \o Crlf \o text
Text(payload) == Object([i \in DOMAIN payload |-> payload[i].tokens])
Fraud(payload, before, after, cuts) ==
    Sent(Post(Text(payload), before, after), cuts, "fraud",
         FoldLeft(LAMBDA acc, s : s.sets @@ acc, <<>>, payload))
Bare(method, kind) == Sent(<<<<method>>>> \o Crlf \o Host \o Crlf, TRUE, kind, <<>>)

Asked == {Fraud(s, <<>>, <<>>, FALSE) : s \in Payloads}
         \cup {Fraud(Usual, Host, <<>>, TRUE), Fraud(<<>>, <<>>, Host, TRUE)}
         \cup {Sent(Post(<<<<"{">>, Str("id"), <<":">>>>, <<>>, <<>>), TRUE, "fraud", <<>>)}
         \cup {Bare("GET", "ready"), Bare("PUT", "bad")}

Time(y, m, d, h, mi, s) == [year |-> y, month |-> m, day |-> d, hour |-> h, minute |-> mi, second |-> s]
Spelled ==
    (Now  :> Time(2024, 3, 1, 0, 10, 0)) @@ (Then :> Time(2024, 2, 29, 23, 59, 30))
    @@ ("2023-12-31T23:00:00Z" :> Time(2023, 12, 31, 23, 0, 0))
    @@ ("2024-01-01T01:30:05Z" :> Time(2024, 1, 1, 1, 30, 5))
    @@ ("2027-02-28T12:00:00Z" :> Time(2027, 2, 28, 12, 0, 0))
    @@ ("2027-03-01T11:59:59Z" :> Time(2027, 3, 1, 11, 59, 59))
Risks == ("5411" :> 15) @@ ("7995" :> 85)
====
