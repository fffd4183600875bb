---- MODULE EpollBalancerProofs ----
(***************************************************************************)
(* Why the balancer keeps the promises of Handoff, for any number of       *)
(* clients, workers and crashes and any size of queue.                     *)
(***************************************************************************)
EXTENDS EpollBalancer, SequenceTheorems, FiniteSetTheorems, TLAPS

USE BalancerAssumption

---------------------------------------------------------------------------
(* The inductive invariant.                                                *)

\* What cfd and ok say at each place of the loop.
AtHand ==
    /\ pc \in {"dial", "accept"} => cfd = NoClient /\ ~ok
    /\ pc \in {"send", "reconnect", "resend"} => cfd # NoClient /\ ~ok
    /\ pc = "close" => cfd # NoClient

\* The turn goes round.
Round == rr = After(first, 1)

\* Links: the live ones are open at both ends, of workers that run, and the
\* only ones that carry anything.
LinkBook ==
    /\ live \subseteq lbOpen /\ NoLinkLeaked
    /\ \A l \in live : l[1] \in up /\ l[2] <= dialed[l[1]]
    /\ \A l \in Links : queue[l] # <<>> => l \in live
    /\ pc = "reconnect" => Link(Idx) \notin live

\* Whom the failover has passed over was down.
Excused ==
    /\ Workers \ up \subseteq doubted
    /\ pc \in {"send", "reconnect", "resend"} =>
            \A i \in 0..(off - 1) : After(first, i) \in doubted
    /\ pc = "resend" /\ Link(Idx) \notin live => Idx \in doubted
    /\ pc = "close" /\ ~ok => Workers \subseteq doubted

BInv == TypeOK /\ AtHand /\ Round /\ LinkBook /\ Excused

---------------------------------------------------------------------------
(* Round-robin order.                                                      *)

LEMMA AfterInWorkers ==
    ASSUME NEW w \in Workers, NEW i \in 0..N
    PROVE  After(w, i) \in Workers
    BY DEF After, Workers

LEMMA AfterReachesAll ==
    ASSUME NEW w \in Workers, NEW D, \A i \in 0..(N - 1) : After(w, i) \in D
    PROVE  Workers \subseteq D
<1> SUFFICES ASSUME NEW v \in Workers PROVE v \in D
  OBVIOUS
<1>1. CASE v >= w
  <2>1. v - w \in 0..(N - 1) /\ After(w, v - w) = v
    BY <1>1 DEF After, Workers
  <2> QED BY <2>1
<1>2. CASE v < w
  <2>1. v + N - w \in 0..(N - 1) /\ After(w, v + N - w) = v
    BY <1>2 DEF After, Workers
  <2> QED BY <2>1
<1> QED BY <1>1, <1>2 DEF Workers

---------------------------------------------------------------------------
(* Each step keeps the invariant.                                          *)

LEMMA InitBInv == Init => BInv
<1> SUFFICES ASSUME Init PROVE BInv
  OBVIOUS
<1>1. TypeOK
  <2>1. 0 \in Workers /\ N - 1 \in Workers /\ 0 \in 0..MaxLinks /\ 0 \in 0..MaxCrashes
    BY DEF Workers
  <2>2. \A l \in Links : queue[l] = <<>> /\ <<>> \in Seq(Clients)
    BY DEF Init
  <2>3. /\ ups \in [Workers -> 0..MaxLinks] /\ dialed \in [Workers -> 0..MaxLinks]
        /\ queue \in [Links -> Seq(Clients)] /\ owned \in [Workers -> SUBSET Clients]
    BY <2>1, <2>2 DEF Init, NoLink
  <2> QED BY <2>1, <2>3 DEF Init, TypeOK
<1>2. AtHand /\ LinkBook
  BY DEF Init, AtHand, LinkBook, NoLinkLeaked
<1>3. Round
  BY DEF Init, Round, After
<1>4. Excused
  BY DEF Init, Excused
<1> QED BY <1>1, <1>2, <1>3, <1>4 DEF BInv

\* Connecting makes a link that nothing was sent on.
LEMMA ConnectKeeps ==
    ASSUME BInv, NEW w \in Workers, Link(w) \notin live,
           Connect(w, lbOpen \ {Link(w)}), UNCHANGED <<up, queue>>
    PROVE  /\ ups' \in [Workers -> 0..MaxLinks] /\ dialed' \in [Workers -> 0..MaxLinks]
           /\ lbOpen' \subseteq Links /\ live' \subseteq Links
           /\ live' \subseteq lbOpen' /\ NoLinkLeaked'
           /\ \A l \in live' : l[1] \in up' /\ l[2] <= dialed'[l[1]]
           /\ \A l \in Links : queue'[l] # <<>> => l \in live'
           /\ Link(w)' \in live'
<1> DEFINE new == <<w, dialed[w] + 1>>
<1>1. /\ w \in up /\ dialed[w] < MaxLinks
      /\ dialed' = [dialed EXCEPT ![w] = @ + 1]
      /\ ups' = [ups EXCEPT ![w] = dialed[w] + 1]
      /\ lbOpen' = (lbOpen \ {Link(w)}) \cup {new} /\ live' = live \cup {new}
  BY DEF Connect
<1>2. TypeOK /\ dialed[w] \in 0..MaxLinks /\ dialed[w] + 1 \in 1..MaxLinks
  BY <1>1 DEF BInv, TypeOK
<1>3. new \in Links
  BY <1>2 DEF Links
<1>4. /\ ups' \in [Workers -> 0..MaxLinks] /\ dialed' \in [Workers -> 0..MaxLinks]
      /\ ups'[w] = dialed[w] + 1 /\ dialed'[w] = dialed[w] + 1
      /\ \A v \in Workers \ {w} : ups'[v] = ups[v] /\ dialed'[v] = dialed[v]
  BY <1>1, <1>2 DEF TypeOK
<1>5. Link(w)' = new /\ \A v \in Workers \ {w} : Link(v)' = Link(v)
  BY <1>4 DEF Link
<1>6. lbOpen' \subseteq Links /\ live' \subseteq Links /\ live' \subseteq lbOpen'
  BY <1>1, <1>2, <1>3 DEF TypeOK, BInv, LinkBook
<1>7. NoLinkLeaked'
  <2> SUFFICES ASSUME NEW l \in lbOpen' PROVE \E v \in Workers : l = Link(v)'
    BY DEF NoLinkLeaked
  <2>1. CASE l = new
    BY <1>5, <2>1
  <2>2. CASE l \in lbOpen \ {Link(w)}
    <3>1. PICK v \in Workers : l = Link(v)
      BY <2>2 DEF BInv, LinkBook, NoLinkLeaked
    <3> QED BY <1>5, <2>2, <3>1
  <2> QED BY <1>1, <2>1, <2>2
<1>8. ASSUME NEW l \in live' PROVE l[1] \in up' /\ l[2] <= dialed'[l[1]]
  <2>1. CASE l = new
    BY <1>1, <1>2, <1>4, <2>1
  <2>2. CASE l \in live
    <3>1. l[1] \in up /\ l[2] <= dialed[l[1]] /\ l \in Links
      BY <2>2 DEF BInv, LinkBook, TypeOK
    <3>2. l[1] \in Workers /\ l[2] \in Nat /\ dialed[l[1]] \in Nat
      BY <1>2, <3>1 DEF Links, TypeOK
    <3> QED BY <1>4, <3>1, <3>2
  <2> QED BY <1>1, <2>1, <2>2
<1>9. \A l \in Links : queue'[l] # <<>> => l \in live'
  BY <1>1 DEF BInv, LinkBook
<1>10. Link(w)' \in live'
  BY <1>1, <1>5
<1> QED BY <1>4, <1>6, <1>7, <1>8, <1>9, <1>10

LEMMA StepDial == BInv /\ (\E w \in Workers : Dial(w)) => BInv'
<1> SUFFICES ASSUME BInv, NEW w \in Workers, Dial(w) PROVE BInv'
  OBVIOUS
<1>1. TypeOK /\ pc = "dial" /\ pc' \in {"dial", "accept"}
      /\ UNCHANGED <<rr, first, off, cfd, ok, waiting, up, queue, owned, lost,
                     started, crashes, doubted>>
  BY DEF Dial, BInv
<1>2. Link(w) \notin Links
  BY DEF Dial, Link, Links, NoLink
<1>3. lbOpen \ {Link(w)} = lbOpen /\ Link(w) \notin live
  BY <1>1, <1>2 DEF TypeOK
<1>4. Connect(w, lbOpen \ {Link(w)})
  BY <1>3 DEF Dial
<1>5. /\ ups' \in [Workers -> 0..MaxLinks] /\ dialed' \in [Workers -> 0..MaxLinks]
      /\ lbOpen' \subseteq Links /\ live' \subseteq Links
      /\ live' \subseteq lbOpen' /\ NoLinkLeaked'
      /\ \A l \in live' : l[1] \in up' /\ l[2] <= dialed'[l[1]]
      /\ \A l \in Links : queue'[l] # <<>> => l \in live'
  BY <1>1, <1>3, <1>4, ConnectKeeps
<1>6. TypeOK'
  BY <1>1, <1>5 DEF TypeOK
<1>7. AtHand' /\ Round' /\ Excused'
  BY <1>1 DEF BInv, AtHand, Round, Excused, After
<1>8. LinkBook'
  BY <1>1, <1>5 DEF LinkBook
<1> QED BY <1>6, <1>7, <1>8 DEF BInv

LEMMA StepAccept == BInv /\ (\E c \in Clients : Accept(c)) => BInv'
<1> SUFFICES ASSUME BInv, NEW c \in Clients, Accept(c) PROVE BInv'
  OBVIOUS
<1>1. TypeOK /\ pc = "accept" /\ pc' = "send" /\ cfd' = c /\ ok' = FALSE
      /\ first' = rr /\ rr' = After(rr, 1) /\ off' = 0
      /\ waiting' = waiting \ {c} /\ doubted' = Workers \ up
      /\ UNCHANGED <<ups, lbOpen, up, live, dialed, queue, owned, lost, started, crashes>>
  BY DEF Accept, BInv
<1>2. rr' \in Workers /\ 0 \in Workers
  <2>1. rr \in Workers /\ 1 \in 0..N
    BY <1>1 DEF TypeOK
  <2>2. After(rr, 1) \in Workers
    BY <2>1, AfterInWorkers
  <2> QED BY <1>1, <2>2 DEF Workers
<1>3. TypeOK'
  BY <1>1, <1>2 DEF TypeOK
<1>4. AtHand' /\ Round'
  BY <1>1 DEF AtHand, Round, After
<1>5. LinkBook'
  BY <1>1 DEF BInv, LinkBook, NoLinkLeaked, Link
<1>6. Excused'
  <2>1. \A i \in 0..(off' - 1) : FALSE
    BY <1>1
  <2>2. Workers \ up' \subseteq doubted'
    BY <1>1
  <2> QED BY <1>1, <2>1, <2>2 DEF Excused
<1> QED BY <1>3, <1>4, <1>5, <1>6 DEF BInv

\* Sending puts the client on a link that is live.
LEMMA StepSent ==
    ASSUME BInv, pc \in {"send", "resend"}, SendFd(Link(Idx)), ok' = TRUE, pc' = "close",
           UNCHANGED <<ups, lbOpen, rr, first, off, cfd, waiting, up, live, dialed,
                       owned, lost, started, crashes, doubted>>
    PROVE  BInv'
<1>1. TypeOK /\ Link(Idx) \in live /\ Link(Idx) \in Links /\ cfd \in Clients /\ cfd # NoClient
      /\ queue' = [queue EXCEPT ![Link(Idx)] = Append(@, cfd)]
  BY DEF BInv, AtHand, TypeOK, SendFd
<1>2. queue' \in [Links -> Seq(Clients)]
  BY <1>1, AppendProperties DEF TypeOK
<1>3. TypeOK'
  BY <1>1, <1>2 DEF TypeOK
<1>4. \A l \in Links : queue'[l] # <<>> => l \in live
  BY <1>1 DEF BInv, LinkBook, TypeOK
<1>5. LinkBook'
  BY <1>4 DEF BInv, LinkBook, NoLinkLeaked, Link
<1>6. AtHand' /\ Round' /\ Excused'
  BY <1>1 DEF BInv, AtHand, Round, Excused, After
<1> QED BY <1>3, <1>5, <1>6 DEF BInv

LEMMA StepSendFails == BInv /\ SendFails => BInv'
<1> SUFFICES ASSUME BInv, SendFails PROVE BInv'
  OBVIOUS
<1>1. TypeOK /\ pc = "send" /\ pc' = "reconnect" /\ Link(Idx) \notin live
      /\ UNCHANGED <<ups, lbOpen, rr, first, off, cfd, ok, waiting, up, live, dialed,
                     queue, owned, lost, started, crashes, doubted>>
  BY DEF SendFails, env, BInv
<1>2. TypeOK'
  BY <1>1 DEF TypeOK
<1>3. Idx' = Idx /\ \A w : Link(w)' = Link(w)
  BY <1>1 DEF Idx, Link, After
<1>4. AtHand' /\ Round'
  BY <1>1 DEF BInv, AtHand, Round, After
<1>5. LinkBook'
  BY <1>1, <1>3 DEF BInv, LinkBook, NoLinkLeaked
<1>6. Excused'
  BY <1>1 DEF BInv, Excused, After
<1> QED BY <1>2, <1>4, <1>5, <1>6 DEF BInv

LEMMA IdxInWorkers == TypeOK => Idx \in Workers
<1> SUFFICES ASSUME TypeOK PROVE Idx \in Workers
  OBVIOUS
<1>1. first \in Workers /\ off \in 0..N
  BY DEF TypeOK, Workers
<1> QED BY <1>1, AfterInWorkers DEF Idx

LEMMA StepReconnect == BInv /\ Reconnect => BInv'
<1> SUFFICES ASSUME BInv, Reconnect PROVE BInv'
  OBVIOUS
<1>1. TypeOK /\ pc = "reconnect" /\ pc' = "resend" /\ Connect(Idx, lbOpen \ {Link(Idx)})
      /\ UNCHANGED <<rr, first, off, cfd, ok, waiting, up, queue, owned, lost,
                     started, crashes, doubted>>
  BY DEF Reconnect, BInv
<1>2. Idx \in Workers /\ Idx' = Idx /\ Link(Idx) \notin live
  BY <1>1, IdxInWorkers DEF BInv, LinkBook, Idx, After
<1>3. /\ ups' \in [Workers -> 0..MaxLinks] /\ dialed' \in [Workers -> 0..MaxLinks]
      /\ lbOpen' \subseteq Links /\ live' \subseteq Links
      /\ live' \subseteq lbOpen' /\ NoLinkLeaked'
      /\ \A l \in live' : l[1] \in up' /\ l[2] <= dialed'[l[1]]
      /\ \A l \in Links : queue'[l] # <<>> => l \in live'
  BY <1>1, <1>2, ConnectKeeps
<1>4. \A w : Link(w)' = <<w, ups'[w]>>
  BY DEF Link
<1>5. <<Idx, ups'[Idx]>> \in live'
  <2>1. ups'[Idx] = dialed[Idx] + 1 /\ live' = live \cup {<<Idx, dialed[Idx] + 1>>}
    BY <1>1, <1>2 DEF Connect, TypeOK
  <2> QED BY <2>1
<1>6. TypeOK'
  BY <1>1, <1>3 DEF TypeOK
<1>7. AtHand' /\ Round'
  BY <1>1 DEF BInv, AtHand, Round, After
<1>8. LinkBook'
  BY <1>1, <1>3 DEF LinkBook
<1>9. Excused'
  <2>1. Link(Idx)' \in live'
    BY <1>2, <1>5 DEF Link
  <2> QED BY <1>1, <2>1 DEF BInv, Excused, After
<1> QED BY <1>6, <1>7, <1>8, <1>9 DEF BInv

\* Going on to the next backend, when the present one has been down.
LEMMA GiveUpKeeps ==
    ASSUME BInv, pc \in {"reconnect", "resend"}, Idx \in doubted, GiveUp,
           UNCHANGED <<first, up, doubted, ok, cfd, rr>>
    PROVE  off' \in Workers /\ pc' \in {"send", "close"} /\ AtHand' /\ Round' /\ Excused'
<1>1. TypeOK /\ off \in Workers /\ first \in Workers
  BY DEF BInv, TypeOK
<1>2. \A i \in 0..off : After(first, i) \in doubted
  BY <1>1 DEF BInv, Excused, Idx, Workers
<1>3. CASE off + 1 < N
  <2>1. off' = off + 1 /\ pc' = "send" /\ off' \in Workers /\ off' - 1 = off
    BY <1>1, <1>3 DEF GiveUp, Workers
  <2>2. Excused'
    BY <1>2, <2>1 DEF BInv, Excused, After
  <2> QED BY <2>1, <2>2 DEF BInv, AtHand, Round, After
<1>4. CASE ~ (off + 1 < N)
  <2>1. off' = off /\ pc' = "close" /\ off = N - 1
    BY <1>1, <1>4 DEF GiveUp, Workers
  <2>2. Workers \subseteq doubted
    BY <1>1, <1>2, <2>1, AfterReachesAll
  <2> QED BY <1>1, <2>1, <2>2 DEF BInv, AtHand, Round, Excused, After
<1> QED BY <1>3, <1>4

LEMMA StepReconnectFails == BInv /\ ReconnectFails => BInv'
<1> SUFFICES ASSUME BInv, ReconnectFails PROVE BInv'
  OBVIOUS
<1>1. TypeOK /\ pc = "reconnect" /\ Idx \notin up /\ GiveUp
      /\ lbOpen' = lbOpen \ {Link(Idx)} /\ ups' = [ups EXCEPT ![Idx] = NoLink]
      /\ UNCHANGED <<rr, first, cfd, ok, waiting, up, live, dialed, queue, owned, lost,
                     started, crashes, doubted>>
  BY DEF ReconnectFails, env, BInv
<1>2. Idx \in Workers /\ Link(Idx) \notin live /\ Idx \in doubted
  BY <1>1, IdxInWorkers DEF BInv, LinkBook, Excused
<1>3. off' \in Workers /\ pc' \in {"send", "close"} /\ AtHand' /\ Round' /\ Excused'
  BY <1>1, <1>2, GiveUpKeeps
<1>4. ups' \in [Workers -> 0..MaxLinks] /\ \A v \in Workers \ {Idx} : ups'[v] = ups[v]
  BY <1>1, <1>2 DEF TypeOK, NoLink
<1>5. TypeOK'
  BY <1>1, <1>3, <1>4 DEF TypeOK
<1>6. NoLinkLeaked'
  <2> SUFFICES ASSUME NEW l \in lbOpen' PROVE \E v \in Workers : l = <<v, ups'[v]>>
    BY DEF NoLinkLeaked, Link
  <2>1. PICK v \in Workers : l = <<v, ups[v]>>
    BY <1>1 DEF BInv, LinkBook, NoLinkLeaked, Link
  <2>2. v # Idx
    BY <1>1, <2>1 DEF Link
  <2> QED BY <1>4, <2>1, <2>2
<1>7. LinkBook'
  <2>1. live' \subseteq lbOpen'
    BY <1>1, <1>2 DEF BInv, LinkBook
  <2>2. pc' # "reconnect"
    BY <1>3
  <2> QED BY <1>1, <1>6, <2>1, <2>2 DEF BInv, LinkBook
<1> QED BY <1>3, <1>5, <1>7 DEF BInv

LEMMA StepResendFails == BInv /\ ResendFails => BInv'
<1> SUFFICES ASSUME BInv, ResendFails PROVE BInv'
  OBVIOUS
<1>1. TypeOK /\ pc = "resend" /\ Link(Idx) \notin live /\ GiveUp
      /\ UNCHANGED <<ups, lbOpen, rr, first, cfd, ok, waiting, up, live, dialed, queue,
                     owned, lost, started, crashes, doubted>>
  BY DEF ResendFails, env, BInv
<1>2. Idx \in doubted
  BY <1>1 DEF BInv, Excused
<1>3. off' \in Workers /\ pc' \in {"send", "close"} /\ AtHand' /\ Round' /\ Excused'
  BY <1>1, <1>2, GiveUpKeeps
<1>4. TypeOK'
  BY <1>1, <1>3 DEF TypeOK
<1>5. LinkBook'
  <2>1. pc' # "reconnect"
    BY <1>3
  <2> QED BY <1>1, <2>1 DEF BInv, LinkBook, NoLinkLeaked, Link
<1> QED BY <1>3, <1>4, <1>5 DEF BInv

LEMMA StepClose == BInv /\ Close => BInv'
<1> SUFFICES ASSUME BInv, Close PROVE BInv'
  OBVIOUS
<1>1. TypeOK /\ pc = "close" /\ pc' = "accept" /\ cfd' = NoClient /\ ok' = FALSE
      /\ lost' = lost \cup Carried
      /\ UNCHANGED <<ups, lbOpen, rr, first, off, waiting, up, live, dialed, queue,
                     owned, started, crashes, doubted>>
  BY DEF Close, BInv
<1>2. Carried \subseteq Clients
  BY <1>1 DEF Carried, TypeOK
<1>3. TypeOK'
  BY <1>1, <1>2 DEF TypeOK
<1>4. AtHand' /\ Round' /\ Excused'
  BY <1>1 DEF BInv, AtHand, Round, Excused, After
<1>5. LinkBook'
  BY <1>1 DEF BInv, LinkBook, NoLinkLeaked, Link
<1> QED BY <1>3, <1>4, <1>5 DEF BInv

LEMMA StepArrive == BInv /\ (\E c \in Clients : Arrive(c)) => BInv'
<1> SUFFICES ASSUME BInv, NEW c \in Clients, Arrive(c) PROVE BInv'
  OBVIOUS
<1>1. TypeOK /\ waiting' = waiting \cup {c}
      /\ UNCHANGED <<pc, ups, lbOpen, rr, first, off, cfd, ok, up, live, dialed, queue,
                     owned, lost, started, crashes, doubted>>
  BY DEF Arrive, lb, BInv
<1>2. TypeOK'
  BY <1>1 DEF TypeOK
<1>3. AtHand' /\ Round' /\ Excused' /\ LinkBook'
  BY <1>1 DEF BInv, AtHand, Round, Excused, After, LinkBook, NoLinkLeaked, Link, Idx
<1> QED BY <1>2, <1>3 DEF BInv

LEMMA StepStart == BInv /\ (\E w \in Workers : Start(w)) => BInv'
<1> SUFFICES ASSUME BInv, NEW w \in Workers, Start(w) PROVE BInv'
  OBVIOUS
<1>1. TypeOK /\ up' = up \cup {w} /\ started' = started \cup {w}
      /\ UNCHANGED <<pc, ups, lbOpen, rr, first, off, cfd, ok, waiting, live, dialed, queue,
                     owned, lost, crashes, doubted>>
  BY DEF Start, lb, BInv
<1>2. TypeOK'
  BY <1>1 DEF TypeOK
<1>3. AtHand' /\ Round' /\ Excused'
  BY <1>1 DEF BInv, AtHand, Round, Excused, After, Link, Idx
<1>4. LinkBook'
  BY <1>1 DEF BInv, After, LinkBook, NoLinkLeaked, Link, Idx
<1> QED BY <1>2, <1>3, <1>4 DEF BInv

LEMMA CrashTypes ==
    ASSUME TypeOK, NEW w \in Workers
    PROVE  With(w) \subseteq Clients
<1>1. \A l \in Links : \A i \in DOMAIN queue[l] : queue[l][i] \in Clients
  BY ElementOfSeq, LenProperties DEF TypeOK
<1>2. Queued(w) \subseteq Clients
  BY <1>1 DEF Queued
<1>3. owned[w] \subseteq Clients
  BY DEF TypeOK
<1> QED BY <1>2, <1>3 DEF With

LEMMA StepCrash == BInv /\ (\E w \in Workers : Crash(w)) => BInv'
<1> SUFFICES ASSUME BInv, NEW w \in Workers, Crash(w) PROVE BInv'
  OBVIOUS
<1>1. TypeOK /\ crashes' = crashes + 1 /\ crashes < MaxCrashes
      /\ up' = up \ {w} /\ live' = {l \in live : l[1] # w}
      /\ queue' = [l \in Links |-> IF l[1] = w THEN <<>> ELSE queue[l]]
      /\ owned' = [owned EXCEPT ![w] = {}]
      /\ lost' = lost \cup With(w) /\ doubted' = doubted \cup {w}
      /\ UNCHANGED <<pc, ups, lbOpen, rr, first, off, cfd, ok, waiting, dialed, started>>
  BY DEF Crash, lb, BInv
<1>2. TypeOK'
  <2>1. lost' \subseteq Clients
    BY <1>1, CrashTypes DEF TypeOK
  <2>2. queue' \in [Links -> Seq(Clients)]
    <3>1. \A l \in Links : queue[l] \in Seq(Clients) /\ <<>> \in Seq(Clients)
      BY <1>1 DEF TypeOK
    <3> QED BY <1>1, <3>1
  <2>3. owned' \in [Workers -> SUBSET Clients] /\ crashes' \in 0..MaxCrashes
    BY <1>1 DEF TypeOK
  <2> QED BY <1>1, <2>1, <2>2, <2>3 DEF TypeOK
<1>3. Idx' = Idx /\ \A v : Link(v)' = Link(v)
  BY <1>1 DEF Idx, Link, After
<1>4. AtHand' /\ Round'
  BY <1>1 DEF BInv, AtHand, Round, After
<1>5. LinkBook'
  <2>1. \A l \in live' : l \in live /\ l[1] # w
    BY <1>1
  <2>2. \A l \in Links : queue'[l] # <<>> => l \in live'
    BY <1>1 DEF BInv, LinkBook
  <2>3. NoLinkLeaked'
    BY <1>1, <1>3 DEF BInv, LinkBook, NoLinkLeaked
  <2> QED BY <1>1, <1>3, <2>1, <2>2, <2>3 DEF BInv, LinkBook
<1>6. Excused'
  <2>1. Link(Idx)[1] = Idx
    BY DEF Link
  <2>2. pc = "resend" /\ Link(Idx) \notin live' => Idx \in doubted'
    BY <1>1, <2>1 DEF BInv, Excused
  <2>3. Workers \ up' \subseteq doubted'
    BY <1>1 DEF BInv, Excused
  <2> QED BY <1>1, <1>3, <2>2, <2>3 DEF BInv, Excused, After
<1> QED BY <1>2, <1>4, <1>5, <1>6 DEF BInv

LEMMA StepReceives == BInv /\ (\E w \in Workers : WorkerReceives(w)) => BInv'
<1> SUFFICES ASSUME BInv, NEW w \in Workers, WorkerReceives(w) PROVE BInv'
  OBVIOUS
<1>1. PICK l \in live : /\ l[1] = w /\ queue[l] # <<>>
                        /\ owned' = [owned EXCEPT ![w] = @ \cup {Head(queue[l])}]
                        /\ queue' = [queue EXCEPT ![l] = Tail(@)]
  BY DEF WorkerReceives
<1>2. TypeOK /\ l \in Links /\ queue[l] \in Seq(Clients)
      /\ UNCHANGED <<pc, ups, lbOpen, rr, first, off, cfd, ok, waiting, up, live, dialed,
                     lost, started, crashes, doubted>>
  BY DEF WorkerReceives, lb, BInv, TypeOK
<1>3. Head(queue[l]) \in Clients /\ Tail(queue[l]) \in Seq(Clients)
  BY <1>1, <1>2, HeadTailProperties
<1>4. TypeOK'
  BY <1>1, <1>2, <1>3 DEF TypeOK
<1>5. AtHand' /\ Round' /\ Excused'
  BY <1>2 DEF BInv, AtHand, Round, Excused, After, Link, Idx
<1>6. LinkBook'
  <2>1. \A k \in Links : queue'[k] # <<>> => k \in live'
    BY <1>1, <1>2 DEF BInv, LinkBook, TypeOK
  <2> QED BY <1>2, <2>1 DEF BInv, LinkBook, NoLinkLeaked, Link, Idx, After
<1> QED BY <1>4, <1>5, <1>6 DEF BInv

LEMMA StutterBInv == BInv /\ UNCHANGED vars => BInv'
<1> SUFFICES ASSUME BInv, UNCHANGED vars PROVE BInv'
  OBVIOUS
<1>1. TypeOK'
  BY DEF BInv, TypeOK, vars
<1>2. AtHand' /\ Round'
  BY DEF BInv, AtHand, Round, After, vars
<1>3. LinkBook'
  BY DEF BInv, LinkBook, NoLinkLeaked, Link, Idx, After, vars
<1>4. Excused'
  BY DEF BInv, Excused, Link, Idx, After, vars
<1> QED BY <1>1, <1>2, <1>3, <1>4 DEF BInv

LEMMA NextBInv == BInv /\ [Next]_vars => BInv'
<1>1. BInv /\ Send => BInv'
  BY StepSent DEF Send
<1>2. BInv /\ Resend => BInv'
  BY StepSent DEF Resend
<1> QED BY <1>1, <1>2, StepDial, StepAccept, StepSendFails, StepReconnect,
        StepReconnectFails, StepResendFails, StepClose, StepArrive, StepStart,
        StepCrash, StepReceives, StutterBInv DEF Next, Balancer

---------------------------------------------------------------------------
(* Theorems.                                                               *)

\* The inductive invariant: the links are in order, and whoever was passed over
\* has been down.
THEOREM BalancerInvariant == Spec => []BInv
<1>1. Init => BInv
  BY InitBInv
<1>2. BInv /\ [Next]_vars => BInv'
  BY NextBInv
<1> QED BY <1>1, <1>2, PTL DEF Spec

\* Every variable has its type in every reachable state.
THEOREM BalancerTypeCorrect == Spec => []TypeOK
<1>1. BInv => TypeOK
  BY DEF BInv
<1> QED BY <1>1, BalancerInvariant, PTL

\* No worker, however often it comes and goes, leaves a descriptor open here.
THEOREM NoLinkIsLeaked == Spec => []NoLinkLeaked
<1>1. BInv => NoLinkLeaked
  BY DEF BInv, LinkBook
<1> QED BY <1>1, BalancerInvariant, PTL

\* The balancer never hangs up on a link with clients in flight, whom the
\* worker would then drop.
THEOREM NoQueueIsAbandoned == Spec => []NoQueueAbandoned
<1>1. BInv => NoQueueAbandoned
  BY DEF BInv, LinkBook, NoQueueAbandoned
<1> QED BY <1>1, BalancerInvariant, PTL

---------------------------------------------------------------------------
(* Refinement.                                                             *)

Elems(s) == {s[i] : i \in DOMAIN s}

LEMMA ElemsOfAppend ==
    ASSUME NEW S, NEW s \in Seq(S), NEW e \in S
    PROVE  Elems(Append(s, e)) = Elems(s) \cup {e}
<1>1. /\ DOMAIN s = 1..Len(s) /\ Len(s) \in Nat
      /\ DOMAIN Append(s, e) = 1..(Len(s) + 1)
      /\ \A i \in 1..Len(s) : Append(s, e)[i] = s[i]
      /\ Append(s, e)[Len(s) + 1] = e
  BY AppendProperties, LenProperties
<1>2. 1..(Len(s) + 1) = 1..Len(s) \cup {Len(s) + 1}
  BY <1>1
<1> QED BY <1>1, <1>2 DEF Elems

LEMMA ElemsOfTail ==
    ASSUME NEW S, NEW s \in Seq(S), s # <<>>
    PROVE  Elems(s) = {Head(s)} \cup Elems(Tail(s))
<1>1. /\ DOMAIN s = 1..Len(s) /\ Len(s) \in Nat /\ Len(s) # 0 /\ Head(s) = s[1]
      /\ DOMAIN Tail(s) = 1..(Len(s) - 1)
      /\ \A i \in 1..(Len(s) - 1) : Tail(s)[i] = s[i + 1]
  BY EmptySeq, LenProperties, HeadTailProperties
<1>2. \A i \in 1..Len(s) : i = 1 \/ (i - 1 \in 1..(Len(s) - 1) /\ i = (i - 1) + 1)
  BY <1>1
<1>3. \A i \in 1..(Len(s) - 1) : i + 1 \in 1..Len(s)
  BY <1>1
<1>4. Elems(s) \subseteq {Head(s)} \cup Elems(Tail(s))
  <2> SUFFICES ASSUME NEW i \in 1..Len(s) PROVE s[i] \in {Head(s)} \cup Elems(Tail(s))
    BY <1>1 DEF Elems
  <2>1. CASE i = 1
    BY <1>1, <2>1
  <2>2. CASE i - 1 \in 1..(Len(s) - 1) /\ i = (i - 1) + 1
    <3>1. Tail(s)[i - 1] = s[i]
      BY <1>1, <2>2
    <3> QED BY <1>1, <2>2, <3>1 DEF Elems
  <2> QED BY <1>2, <2>1, <2>2
<1>5. Head(s) \in Elems(s)
  BY <1>1 DEF Elems
<1>6. Elems(Tail(s)) \subseteq Elems(s)
  BY <1>1, <1>3 DEF Elems
<1> QED BY <1>4, <1>5, <1>6

LEMMA QueuedIs ==
    ASSUME NEW w, NEW c
    PROVE  c \in Queued(w) <=> \E l \in Links : l[1] = w /\ c \in Elems(queue[l])
    BY DEF Queued, Elems

\* A step that leaves everything Handoff sees alone.
LEMMA SameWith ==
    ASSUME UNCHANGED <<queue, owned>>
    PROVE  \A w : With(w)' = With(w)
    BY DEF With, Queued

LEMMA StutterPromise ==
    ASSUME UNCHANGED <<waiting, lost, up, doubted, first>>, Carried' = Carried,
           \A w \in Workers : With(w)' = With(w)
    PROVE  UNCHANGED Promise!vars
<1>1. [w \in Workers |-> With(w)]' = [w \in Workers |-> With(w)]
  OBVIOUS
<1> QED BY <1>1 DEF Promise!vars

\* A send, first or second, is the delivery to the worker off places on.
LEMMA SentIsDeliver ==
    ASSUME BInv, pc \in {"send", "resend"}, SendFd(Link(Idx)), ok' = TRUE,
           UNCHANGED <<first, cfd, waiting, up, owned, lost, doubted>>
    PROVE  \E c \in Clients, d \in Workers : Promise!Deliver(c, d)
<1>1. /\ TypeOK /\ cfd \in Clients /\ cfd # NoClient /\ ~ok /\ Idx \in Workers
      /\ Link(Idx) \in live /\ Link(Idx) \in Links /\ off \in Workers
      /\ queue' = [queue EXCEPT ![Link(Idx)] = Append(@, cfd)]
  BY IdxInWorkers DEF BInv, AtHand, TypeOK, SendFd
<1>2. Link(Idx)[1] = Idx /\ Idx \in up
  BY <1>1 DEF Link, BInv, LinkBook
<1>3. /\ \A l \in Links \ {Link(Idx)} : queue'[l] = queue[l]
      /\ Elems(queue'[Link(Idx)]) = Elems(queue[Link(Idx)]) \cup {cfd}
  <2>1. queue[Link(Idx)] \in Seq(Clients)
    BY <1>1 DEF TypeOK
  <2> QED BY <1>1, <2>1, ElemsOfAppend DEF TypeOK
<1>4. \A w : \A c : c \in Queued(w)' <=> c \in Queued(w) \/ (w = Idx /\ c = cfd)
  <2> SUFFICES ASSUME NEW w, NEW c
               PROVE  c \in Queued(w)' <=> c \in Queued(w) \/ (w = Idx /\ c = cfd)
    OBVIOUS
  <2>1. c \in Queued(w)' <=> \E l \in Links : l[1] = w /\ c \in Elems(queue'[l])
    BY DEF Queued, Elems
  <2> QED BY <1>1, <1>2, <1>3, <2>1, QueuedIs
<1>5. \A w \in Workers : With(w)' = IF w = Idx THEN With(w) \cup {cfd} ELSE With(w)
  BY <1>4 DEF With
<1>6. [w \in Workers |-> With(w)]'
        = [[w \in Workers |-> With(w)] EXCEPT ![Idx] = @ \cup {cfd}]
  BY <1>1, <1>5
<1>7. Carried = {cfd} /\ Carried' = {}
  BY <1>1 DEF Carried
<1>8. \A i \in 0..(off - 1) : After(first, i) \in doubted
  BY DEF BInv, Excused
<1>9. Promise!After(first, off) = Idx /\ \A i : Promise!After(first, i) = After(first, i)
  BY DEF Promise!After, After, Idx
<1>10. Promise!Deliver(cfd, off)
  BY <1>2, <1>6, <1>7, <1>8, <1>9 DEF Promise!Deliver
<1> QED BY <1>1, <1>10

LEMMA ReceivesIsStutter ==
    ASSUME BInv, NEW w \in Workers, WorkerReceives(w)
    PROVE  UNCHANGED Promise!vars
<1>1. PICK l \in live : /\ l[1] = w /\ queue[l] # <<>>
                        /\ owned' = [owned EXCEPT ![w] = @ \cup {Head(queue[l])}]
                        /\ queue' = [queue EXCEPT ![l] = Tail(@)]
  BY DEF WorkerReceives
<1>2. /\ TypeOK /\ l \in Links /\ queue[l] \in Seq(Clients)
      /\ UNCHANGED <<first, cfd, ok, waiting, up, lost, doubted>>
  BY DEF WorkerReceives, lb, BInv, TypeOK
<1>3. Elems(queue[l]) = {Head(queue[l])} \cup Elems(queue'[l])
      /\ \A k \in Links \ {l} : queue'[k] = queue[k]
  BY <1>1, <1>2, ElemsOfTail DEF TypeOK
<1>4. \A v \in Workers : With(v)' = With(v)
  <2> SUFFICES ASSUME NEW v \in Workers, NEW c PROVE c \in With(v)' <=> c \in With(v)
    OBVIOUS
  <2>1. c \in Queued(v)' <=> \E k \in Links : k[1] = v /\ c \in Elems(queue'[k])
    BY DEF Queued, Elems
  <2>2. owned'[v] = IF v = w THEN owned[v] \cup {Head(queue[l])} ELSE owned[v]
    BY <1>1, <1>2 DEF TypeOK
  <2>3. c \in With(v)' <=> c \in owned'[v] \/ c \in Queued(v)'
    BY DEF With
  <2>4. c \in With(v) <=> c \in owned[v] \/ c \in Queued(v)
    BY DEF With
  <2>5. CASE v = w
    BY <1>1, <1>2, <1>3, <2>1, <2>2, <2>3, <2>4, <2>5, QueuedIs
  <2>6. CASE v # w
    BY <1>1, <1>2, <1>3, <2>1, <2>2, <2>3, <2>4, <2>6, QueuedIs
  <2> QED BY <2>5, <2>6
<1>5. Carried' = Carried
  BY <1>2 DEF Carried
<1> QED BY <1>2, <1>4, <1>5, StutterPromise

LEMMA CrashIsCrash ==
    ASSUME BInv, NEW w \in Workers, Crash(w)
    PROVE  Promise!Crash(w)
<1>1. /\ w \in up /\ up' = up \ {w} /\ doubted' = doubted \cup {w}
      /\ queue' = [l \in Links |-> IF l[1] = w THEN <<>> ELSE queue[l]]
      /\ owned' = [owned EXCEPT ![w] = {}] /\ lost' = lost \cup With(w)
      /\ UNCHANGED <<first, cfd, ok, waiting>> /\ TypeOK
  BY DEF Crash, lb, BInv
<1>2. Elems(<<>>) = {}
  BY DEF Elems
<1>3. \A v \in Workers : With(v)' = IF v = w THEN {} ELSE With(v)
  <2> SUFFICES ASSUME NEW v \in Workers, NEW c
               PROVE  c \in With(v)' <=> v # w /\ c \in With(v)
    OBVIOUS
  <2>1. c \in Queued(v)' <=> \E k \in Links : k[1] = v /\ c \in Elems(queue'[k])
    BY DEF Queued, Elems
  <2>2. c \in Queued(v)' <=> v # w /\ c \in Queued(v)
    BY <1>1, <1>2, <2>1, QueuedIs
  <2>3. owned'[v] = IF v = w THEN {} ELSE owned[v]
    BY <1>1 DEF TypeOK
  <2>4. c \in With(v)' <=> c \in owned'[v] \/ c \in Queued(v)'
    BY DEF With
  <2>5. c \in With(v) <=> c \in owned[v] \/ c \in Queued(v)
    BY DEF With
  <2> QED BY <2>2, <2>3, <2>4, <2>5
<1>4. [v \in Workers |-> With(v)]' = [[v \in Workers |-> With(v)] EXCEPT ![w] = {}]
  BY <1>3
<1>5. Carried' = Carried
  BY <1>1 DEF Carried
<1> QED BY <1>1, <1>4, <1>5 DEF Promise!Crash

LEMMA InitPromise == Init => Promise!Init
<1> SUFFICES ASSUME Init PROVE Promise!Init
  OBVIOUS
<1>1. \A l \in Links : Elems(queue[l]) = {}
  BY DEF Init, Elems
<1>2. \A w \in Workers : With(w) = {}
  <2> SUFFICES ASSUME NEW w \in Workers, NEW c PROVE c \notin With(w)
    OBVIOUS
  <2>1. c \notin Queued(w)
    BY <1>1, QueuedIs
  <2> QED BY <2>1 DEF With, Init
<1>3. [w \in Workers |-> With(w)] = [w \in Promise!Workers |-> {}]
  BY <1>2 DEF Promise!Workers, Workers
<1>4. Promise!Workers = Workers /\ Carried = {}
  BY DEF Promise!Workers, Workers, Init, Carried
<1> QED BY <1>3, <1>4 DEF Promise!Init, Init

LEMMA NextPromise == BInv /\ [Next]_vars => [Promise!Next]_(Promise!vars)
<1> SUFFICES ASSUME BInv, [Next]_vars PROVE Promise!Next \/ UNCHANGED Promise!vars
  OBVIOUS
<1>0. Promise!Workers = Workers
  BY DEF Promise!Workers, Workers
<1>1. ASSUME NEW w \in Workers, Dial(w) PROVE UNCHANGED Promise!vars
  <2>1. UNCHANGED <<queue, owned, waiting, lost, up, doubted, first, cfd, ok>>
    BY <1>1 DEF Dial
  <2> QED BY <2>1, SameWith, StutterPromise DEF Carried
<1>2. ASSUME NEW c \in Clients, Accept(c) PROVE Promise!Next
  <2>1. /\ c \in waiting /\ waiting' = waiting \ {c} /\ cfd' = c /\ ok' = FALSE
        /\ first' = rr /\ doubted' = Workers \ up /\ c # NoClient
        /\ cfd = NoClient /\ rr = After(first, 1)
        /\ UNCHANGED <<queue, owned, lost, up>>
    BY <1>2 DEF Accept, BInv, AtHand, Round
  <2>2. Carried = {} /\ Carried' = {c}
    BY <2>1 DEF Carried
  <2>3. [w \in Workers |-> With(w)]' = [w \in Workers |-> With(w)]
    BY <2>1, SameWith
  <2>4. Promise!After(first, 1) = After(first, 1)
    BY DEF Promise!After, After
  <2>5. Promise!Carry(c)
    BY <1>0, <2>1, <2>2, <2>3, <2>4 DEF Promise!Carry
  <2> QED BY <2>5 DEF Promise!Next
<1>3. CASE Send \/ Resend
  <2>1. \E c \in Clients, d \in Workers : Promise!Deliver(c, d)
    BY <1>3, SentIsDeliver DEF Send, Resend
  <2> QED BY <1>0, <2>1 DEF Promise!Next
<1>4. CASE SendFails \/ Reconnect \/ ReconnectFails \/ ResendFails
  <2>1. UNCHANGED <<queue, owned, waiting, lost, up, doubted, first, cfd, ok>>
    BY <1>4 DEF SendFails, Reconnect, ReconnectFails, ResendFails, env
  <2> QED BY <2>1, SameWith, StutterPromise DEF Carried
<1>5. CASE Close
  <2>1. /\ pc = "close" /\ lost' = lost \cup Carried /\ cfd' = NoClient
        /\ cfd \in Clients /\ cfd # NoClient
        /\ UNCHANGED <<queue, owned, waiting, up, doubted, first>>
    BY <1>5 DEF Close, BInv, AtHand, TypeOK
  <2>2. [w \in Workers |-> With(w)]' = [w \in Workers |-> With(w)]
        /\ \A w \in Workers : With(w)' = With(w)
    BY <2>1, SameWith
  <2>3. Carried' = {}
    BY <2>1 DEF Carried
  <2>4. CASE ok
    <3>1. Carried = {}
      BY <2>4 DEF Carried
    <3>2. lost' = lost
      BY <2>1, <3>1
    <3> QED BY <2>1, <2>2, <2>3, <3>1, <3>2, StutterPromise
  <2>5. CASE ~ok
    <3>1. Carried = {cfd} /\ Workers \subseteq doubted
      BY <2>1, <2>5 DEF Carried, BInv, Excused
    <3>2. Promise!Drop(cfd)
      BY <1>0, <2>1, <2>2, <2>3, <3>1 DEF Promise!Drop
    <3> QED BY <2>1, <3>2 DEF Promise!Next
  <2> QED BY <2>4, <2>5
<1>6. ASSUME NEW c \in Clients, Arrive(c) PROVE Promise!Next
  <2>1. /\ c \notin Known /\ waiting' = waiting \cup {c}
        /\ UNCHANGED <<queue, owned, lost, up, doubted, first, cfd, ok>>
    BY <1>6 DEF Arrive, lb
  <2>2. c \notin Promise!Known
    BY <1>0, <2>1 DEF Known, Promise!Known
  <2>3. [w \in Workers |-> With(w)]' = [w \in Workers |-> With(w)] /\ Carried' = Carried
    BY <2>1, SameWith DEF Carried
  <2>4. Promise!Arrive(c)
    BY <2>1, <2>2, <2>3 DEF Promise!Arrive
  <2> QED BY <2>4 DEF Promise!Next
<1>7. ASSUME NEW w \in Workers, Start(w) PROVE Promise!Next
  <2>1. /\ w \notin up /\ up' = up \cup {w}
        /\ UNCHANGED <<queue, owned, waiting, lost, doubted, first, cfd, ok>>
    BY <1>7 DEF Start, lb
  <2>2. [v \in Workers |-> With(v)]' = [v \in Workers |-> With(v)] /\ Carried' = Carried
    BY <2>1, SameWith DEF Carried
  <2>3. Promise!Start(w)
    BY <2>1, <2>2 DEF Promise!Start
  <2> QED BY <1>0, <2>3 DEF Promise!Next
<1>8. ASSUME NEW w \in Workers, Crash(w) PROVE Promise!Next
  BY <1>0, <1>8, CrashIsCrash DEF Promise!Next
<1>9. ASSUME NEW w \in Workers, WorkerReceives(w) PROVE UNCHANGED Promise!vars
  BY <1>9, ReceivesIsStutter
<1>10. CASE UNCHANGED vars
  <2>1. UNCHANGED <<queue, owned, waiting, lost, up, doubted, first, cfd, ok>>
    BY <1>10 DEF vars
  <2> QED BY <2>1, SameWith, StutterPromise DEF Carried
<1> QED BY <1>1, <1>2, <1>3, <1>4, <1>5, <1>6, <1>7, <1>8, <1>9, <1>10 DEF Next, Balancer

\* The balancer implements Handoff: one owner at a time, the worker whose turn
\* it is, failover and drop only past workers that were down.
THEOREM PromiseKept == Spec => KeepsPromise
<1>1. Init => Promise!Init
  BY InitPromise
<1>2. BInv /\ [Next]_vars => [Promise!Next]_(Promise!vars)
  BY NextPromise
<1> QED BY <1>1, <1>2, BalancerInvariant, PTL DEF Spec, KeepsPromise, Promise!Spec

---------------------------------------------------------------------------
(* One owner: every client known is in one place.                          *)

QueuedOnce ==
    \A l, k \in Links : \A i \in DOMAIN queue[l], j \in DOMAIN queue[k] :
        queue[l][i] = queue[k][j] => l = k /\ i = j

OwnedOnce ==
    /\ \A w, v \in Workers : \A c \in owned[w] : c \in owned[v] => w = v
    /\ \A l \in Links : \A i \in DOMAIN queue[l] : \A w \in Workers : queue[l][i] \notin owned[w]

\* Where a client is that no worker has been given: it waits, is at hand or is
\* lost.
Elsewhere == waiting \cup lost \cup Carried

GivenOnly ==
    /\ \A l \in Links : \A i \in DOMAIN queue[l] : queue[l][i] \notin Elsewhere
    /\ \A w \in Workers : \A c \in owned[w] : c \notin Elsewhere
    /\ waiting \cap lost = {} /\ Carried \cap (waiting \cup lost) = {}

Apart == QueuedOnce /\ OwnedOnce /\ GivenOnly

LEMMA InitApart == Init => Apart
    BY DEF Init, Apart, QueuedOnce, OwnedOnce, GivenOnly, Elsewhere, Carried

LEMMA KnownIs ==
    ASSUME NEW c, c \notin Known
    PROVE  /\ c \notin Elsewhere /\ \A w \in Workers : c \notin owned[w]
           /\ \A l \in Links : \A i \in DOMAIN queue[l] : queue[l][i] # c
<1>1. \A w \in Workers : c \notin owned[w] /\ c \notin Queued(w)
  BY DEF Known, With
<1>2. ASSUME NEW l \in Links, NEW i \in DOMAIN queue[l], queue[l][i] = c PROVE FALSE
  <2>1. l[1] \in Workers
    BY DEF Links
  <2>2. c \in Queued(l[1])
    BY <1>2 DEF Queued
  <2> QED BY <1>1, <2>1, <2>2
<1> QED BY <1>1, <1>2 DEF Known, Elsewhere

\* The client at hand is sent.
LEMMA SentApart ==
    ASSUME BInv, Apart, pc \in {"send", "resend"}, SendFd(Link(Idx)), ok' = TRUE,
           UNCHANGED <<cfd, waiting, owned, lost>>
    PROVE  Apart'
<1> DEFINE l == Link(Idx)
<1>1. /\ l \in Links /\ cfd \in Clients /\ Carried = {cfd} /\ Carried' = {}
      /\ queue' = [queue EXCEPT ![l] = Append(queue[l], cfd)]
  BY DEF BInv, LinkBook, AtHand, TypeOK, SendFd, Carried
<1>2. queue[l] \in Seq(Clients)
  BY <1>1 DEF BInv, TypeOK
<1>3. /\ Len(queue[l]) \in Nat /\ DOMAIN queue[l] = 1..Len(queue[l])
      /\ DOMAIN Append(queue[l], cfd) = 1..(Len(queue[l]) + 1)
      /\ Append(queue[l], cfd)[Len(queue[l]) + 1] = cfd
      /\ \A i \in 1..Len(queue[l]) : Append(queue[l], cfd)[i] = queue[l][i]
  <2>1. /\ Append(queue[l], cfd) \in Seq(Clients)
        /\ Len(Append(queue[l], cfd)) = Len(queue[l]) + 1
        /\ \A i \in 1..Len(queue[l]) : Append(queue[l], cfd)[i] = queue[l][i]
        /\ Append(queue[l], cfd)[Len(queue[l]) + 1] = cfd
    BY <1>1, <1>2, AppendProperties
  <2> QED BY <1>2, <2>1, LenProperties
<1>4. queue'[l] = Append(queue[l], cfd) /\ \A k \in Links \ {l} : queue'[k] = queue[k]
  BY <1>1 DEF BInv, TypeOK
<1> HIDE DEF l
<1>5. ASSUME NEW k \in Links, NEW i \in DOMAIN queue'[k]
      PROVE  \/ k = l /\ i = Len(queue[l]) + 1 /\ queue'[k][i] = cfd
             \/ i \in DOMAIN queue[k] /\ queue'[k][i] = queue[k][i]
  <2>1. CASE k = l
    <3>1. i \in 1..(Len(queue[l]) + 1)
      BY <1>3, <1>4, <2>1
    <3>2. CASE i = Len(queue[l]) + 1
      BY <1>3, <1>4, <2>1, <3>2
    <3>3. CASE i # Len(queue[l]) + 1
      <4>1. i \in 1..Len(queue[l])
        BY <1>3, <3>1, <3>3
      <4> QED BY <1>3, <1>4, <2>1, <4>1
    <3> QED BY <3>2, <3>3
  <2>2. CASE k # l
    BY <1>4, <2>2
  <2> QED BY <2>1, <2>2
<1>6. /\ cfd \in Elsewhere /\ cfd \notin waiting \cup lost
      /\ \A w \in Workers : cfd \notin owned[w]
      /\ \A k \in Links : \A i \in DOMAIN queue[k] : queue[k][i] # cfd
  BY <1>1 DEF Apart, GivenOnly, Elsewhere
<1>7. QueuedOnce'
  <2> SUFFICES ASSUME NEW j \in Links, NEW k \in Links,
                      NEW i \in DOMAIN queue'[j], NEW h \in DOMAIN queue'[k],
                      queue'[j][i] = queue'[k][h]
               PROVE  j = k /\ i = h
    BY DEF QueuedOnce
  <2> QED BY <1>5, <1>6 DEF Apart, QueuedOnce
<1>8. OwnedOnce'
  BY <1>5, <1>6 DEF Apart, OwnedOnce
<1>9. Elsewhere' \subseteq Elsewhere \ {cfd}
  BY <1>1, <1>6 DEF Elsewhere
<1>10. GivenOnly'
  BY <1>1, <1>5, <1>6, <1>9 DEF Apart, GivenOnly
<1> QED BY <1>7, <1>8, <1>10 DEF Apart

\* The client at the head of a queue is received.
LEMMA ReceivesApart ==
    ASSUME BInv, Apart, NEW w \in Workers, WorkerReceives(w)
    PROVE  Apart'
<1>1. PICK l \in live : /\ l[1] = w /\ queue[l] # <<>>
                        /\ owned' = [owned EXCEPT ![w] = @ \cup {Head(queue[l])}]
                        /\ queue' = [queue EXCEPT ![l] = Tail(@)]
  BY DEF WorkerReceives
<1>2. UNCHANGED <<waiting, lost, cfd, ok>>
  BY DEF WorkerReceives, lb
<1> DEFINE q == queue[l]
           c == queue[l][1]
<1>3. l \in Links /\ q \in Seq(Clients) /\ q # <<>>
  BY <1>1 DEF BInv, TypeOK
<1>4. queue'[l] = Tail(q) /\ \A k \in Links \ {l} : queue'[k] = queue[k]
  BY <1>1, <1>3 DEF BInv, TypeOK
<1> HIDE DEF q
<1>5. /\ Tail(q) \in Seq(Clients) /\ Len(Tail(q)) = Len(q) - 1
      /\ \A i \in 1..Len(Tail(q)) : Tail(q)[i] = q[i + 1]
  BY <1>3, HeadTailProperties
<1>6. /\ Len(q) \in Nat /\ DOMAIN q = 1..Len(q) /\ Len(q) # 0
      /\ DOMAIN Tail(q) = 1..Len(Tail(q))
  BY <1>3, <1>5, LenProperties, EmptySeq
<1>7. 1 \in DOMAIN q /\ Head(q) = q[1]
  BY <1>6
<1>8. /\ owned'[w] = owned[w] \cup {c}
      /\ \A v \in Workers \ {w} : owned'[v] = owned[v]
  BY <1>1, <1>7 DEF BInv, TypeOK, q
<1>9. 1 \in DOMAIN queue[l] /\ c = queue[l][1]
  BY <1>7 DEF q
<1>10. \A i \in DOMAIN queue'[l] :
          i + 1 \in DOMAIN queue[l] /\ queue'[l][i] = queue[l][i + 1] /\ i + 1 # 1 /\ i \in Nat
  BY <1>4, <1>5, <1>6 DEF q
<1> HIDE DEF c
<1>11. ASSUME NEW k \in Links, NEW i \in DOMAIN queue'[k]
       PROVE  \E j \in DOMAIN queue[k] :
                 queue'[k][i] = queue[k][j] /\ (k = l => j = i + 1) /\ (k # l => j = i)
  BY <1>4, <1>10
<1>12. \A k \in Links : \A i \in DOMAIN queue'[k] : queue'[k][i] # c
  <2> SUFFICES ASSUME NEW k \in Links, NEW i \in DOMAIN queue'[k], queue'[k][i] = c
               PROVE  FALSE
    OBVIOUS
  <2>1. PICK j \in DOMAIN queue[k] :
           queue'[k][i] = queue[k][j] /\ (k = l => j = i + 1) /\ (k # l => j = i)
    BY <1>11
  <2>2. queue[k][j] = queue[l][1]
    BY <1>9, <2>1
  <2>3. k = l /\ j = 1
    BY <1>3, <1>9, <2>2 DEF Apart, QueuedOnce
  <2> QED BY <1>10, <2>1, <2>3
<1>13. QueuedOnce'
  <2> SUFFICES ASSUME NEW j \in Links, NEW k \in Links,
                      NEW i \in DOMAIN queue'[j], NEW h \in DOMAIN queue'[k],
                      queue'[j][i] = queue'[k][h]
               PROVE  j = k /\ i = h
    BY DEF QueuedOnce
  <2>1. PICK a \in DOMAIN queue[j] :
           queue'[j][i] = queue[j][a] /\ (j = l => a = i + 1) /\ (j # l => a = i)
    BY <1>11
  <2>2. PICK b \in DOMAIN queue[k] :
           queue'[k][h] = queue[k][b] /\ (k = l => b = h + 1) /\ (k # l => b = h)
    BY <1>11
  <2>3. queue[j][a] = queue[k][b]
    BY <2>1, <2>2
  <2>4. j = k /\ a = b
    BY <2>3 DEF Apart, QueuedOnce
  <2>5. CASE j = l
    <3>1. i \in Nat /\ h \in Nat
      BY <1>10, <2>4, <2>5
    <3> QED BY <2>1, <2>2, <2>4, <2>5, <3>1
  <2>6. CASE j # l
    BY <2>1, <2>2, <2>4, <2>6
  <2> QED BY <2>5, <2>6
<1>14. \A v \in Workers : c \notin owned[v]
  BY <1>3, <1>9 DEF Apart, OwnedOnce
<1>15. OwnedOnce'
  <2>1. \A u, v \in Workers : \A d \in owned'[u] : d \in owned'[v] => u = v
    BY <1>8, <1>14 DEF Apart, OwnedOnce
  <2>2. ASSUME NEW k \in Links, NEW i \in DOMAIN queue'[k], NEW v \in Workers
        PROVE  queue'[k][i] \notin owned'[v]
    <3>1. queue'[k][i] \notin owned[v]
      BY <1>11 DEF Apart, OwnedOnce
    <3> QED BY <1>8, <1>12, <3>1
  <2> QED BY <2>1, <2>2 DEF OwnedOnce
<1>16. GivenOnly'
  <2>1. UNCHANGED <<Elsewhere, waiting, lost, Carried>>
    BY <1>2 DEF Elsewhere, Carried
  <2>2. c \notin Elsewhere
    BY <1>3, <1>9 DEF Apart, GivenOnly
  <2>3. \A k \in Links : \A i \in DOMAIN queue'[k] : queue'[k][i] \notin Elsewhere
    BY <1>11 DEF Apart, GivenOnly
  <2>4. \A v \in Workers : \A d \in owned'[v] : d \notin Elsewhere
    BY <1>8, <2>2 DEF Apart, GivenOnly
  <2> QED BY <2>1, <2>3, <2>4 DEF Apart, GivenOnly
<1> QED BY <1>13, <1>15, <1>16 DEF Apart

\* What a worker had, received or in flight, is lost with it.
LEMMA CrashApart ==
    ASSUME BInv, Apart, NEW w \in Workers, Crash(w)
    PROVE  Apart'
<1>1. /\ queue' = [l \in Links |-> IF l[1] = w THEN <<>> ELSE queue[l]]
      /\ owned' = [owned EXCEPT ![w] = {}]
      /\ lost' = lost \cup With(w) /\ Carried' = Carried /\ waiting' = waiting
  BY DEF Crash, lb, Carried
<1>2. ASSUME NEW l \in Links, NEW i \in DOMAIN queue'[l]
      PROVE  l[1] # w /\ queue'[l] = queue[l]
  BY <1>1
<1>3. owned'[w] = {} /\ \A v \in Workers \ {w} : owned'[v] = owned[v]
  BY <1>1 DEF BInv, TypeOK
<1>4. ASSUME NEW c \in With(w)
      PROVE  /\ c \notin Elsewhere
             /\ \A v \in Workers \ {w} : c \notin owned[v]
             /\ \A l \in Links : l[1] # w => \A i \in DOMAIN queue[l] : queue[l][i] # c
  <2>1. CASE c \in owned[w]
    BY <2>1 DEF Apart, OwnedOnce, GivenOnly
  <2>2. CASE c \in Queued(w)
    <3>1. PICK k \in Links : k[1] = w /\ \E j \in DOMAIN queue[k] : queue[k][j] = c
      BY <2>2 DEF Queued
    <3> QED BY <3>1 DEF Apart, OwnedOnce, GivenOnly, QueuedOnce
  <2> QED BY <2>1, <2>2 DEF With
<1>5. QueuedOnce'
  BY <1>2 DEF Apart, QueuedOnce
<1>6. OwnedOnce'
  BY <1>2, <1>3 DEF Apart, OwnedOnce
<1>7. Elsewhere' = Elsewhere \cup With(w)
  BY <1>1 DEF Elsewhere
<1>8. GivenOnly'
  <2>1. \A l \in Links : \A i \in DOMAIN queue'[l] : queue'[l][i] \notin Elsewhere'
    BY <1>2, <1>4, <1>7 DEF Apart, GivenOnly
  <2>2. \A v \in Workers : \A c \in owned'[v] : c \notin Elsewhere'
    BY <1>3, <1>4, <1>7 DEF Apart, GivenOnly
  <2>3. waiting' \cap lost' = {} /\ Carried' \cap (waiting' \cup lost') = {}
    BY <1>1, <1>4 DEF Apart, GivenOnly, Elsewhere
  <2> QED BY <2>1, <2>2, <2>3 DEF GivenOnly
<1> QED BY <1>5, <1>6, <1>8 DEF Apart

\* A client moves between places outside the workers, or nothing moves.
LEMMA OutsideApart ==
    ASSUME Apart, UNCHANGED <<queue, owned>>, Elsewhere' \subseteq Elsewhere,
           waiting' \cap lost' = {}, Carried' \cap (waiting' \cup lost') = {}
    PROVE  Apart'
    BY DEF Apart, QueuedOnce, OwnedOnce, GivenOnly

LEMMA NextApart == BInv /\ Apart /\ [Next]_vars => Apart'
<1> SUFFICES ASSUME BInv, Apart, [Next]_vars PROVE Apart'
  OBVIOUS
<1>1. ASSUME UNCHANGED <<queue, owned, waiting, lost, cfd, ok>> PROVE Apart'
  <2>1. UNCHANGED <<Elsewhere, waiting, lost, Carried>>
    BY <1>1 DEF Elsewhere, Carried
  <2> QED BY <1>1, <2>1, OutsideApart DEF Apart, GivenOnly
<1>2. ASSUME NEW w \in Workers, Dial(w) \/ Start(w) PROVE Apart'
  BY <1>1, <1>2 DEF Dial, Start, lb
<1>3. CASE SendFails \/ Reconnect \/ ReconnectFails \/ ResendFails
  BY <1>1, <1>3 DEF SendFails, Reconnect, ReconnectFails, ResendFails, env
<1>4. CASE Send \/ Resend
  BY <1>4, SentApart DEF Send, Resend
<1>5. ASSUME NEW c \in Clients, Accept(c) PROVE Apart'
  <2>1. /\ c \in waiting /\ waiting' = waiting \ {c} /\ cfd' = c
        /\ UNCHANGED <<queue, owned, lost>> /\ Carried' \subseteq {c}
    BY <1>5 DEF Accept, Carried
  <2>2. c \notin lost
    BY <2>1 DEF Apart, GivenOnly
  <2>3. Elsewhere' \subseteq Elsewhere
    BY <2>1 DEF Elsewhere
  <2> QED BY <2>1, <2>2, <2>3, OutsideApart DEF Apart, GivenOnly
<1>6. CASE Close
  <2>1. lost' = lost \cup Carried /\ Carried' = {} /\ UNCHANGED <<queue, owned, waiting>>
    BY <1>6 DEF Close, Carried
  <2>2. Elsewhere' \subseteq Elsewhere
    BY <2>1 DEF Elsewhere
  <2> QED BY <2>1, <2>2, OutsideApart DEF Apart, GivenOnly
<1>7. ASSUME NEW c \in Clients, Arrive(c) PROVE Apart'
  <2>1. /\ c \notin Known /\ waiting' = waiting \cup {c} /\ Carried' = Carried
        /\ UNCHANGED <<queue, owned, lost>>
    BY <1>7 DEF Arrive, lb, Carried
  <2>2. /\ c \notin Elsewhere /\ \A w \in Workers : c \notin owned[w]
        /\ \A l \in Links : \A i \in DOMAIN queue[l] : queue[l][i] # c
    BY <2>1, KnownIs
  <2>3. Elsewhere' = Elsewhere \cup {c}
    BY <2>1 DEF Elsewhere
  <2>4. QueuedOnce' /\ OwnedOnce'
    BY <2>1 DEF Apart, QueuedOnce, OwnedOnce
  <2>5. GivenOnly'
    <3>1. \A l \in Links : \A i \in DOMAIN queue'[l] : queue'[l][i] \notin Elsewhere'
      BY <2>1, <2>2, <2>3 DEF Apart, GivenOnly
    <3>2. \A w \in Workers : \A d \in owned'[w] : d \notin Elsewhere'
      BY <2>1, <2>2, <2>3 DEF Apart, GivenOnly
    <3>3. waiting' \cap lost' = {} /\ Carried' \cap (waiting' \cup lost') = {}
      BY <2>1, <2>2 DEF Apart, GivenOnly, Elsewhere
    <3> QED BY <3>1, <3>2, <3>3 DEF GivenOnly
  <2> QED BY <2>4, <2>5 DEF Apart
<1>8. ASSUME NEW w \in Workers, Crash(w) PROVE Apart'
  BY <1>8, CrashApart
<1>9. ASSUME NEW w \in Workers, WorkerReceives(w) PROVE Apart'
  BY <1>9, ReceivesApart
<1>10. CASE UNCHANGED vars
  BY <1>1, <1>10 DEF vars
<1> QED BY <1>2, <1>3, <1>4, <1>5, <1>6, <1>7, <1>8, <1>9, <1>10 DEF Next, Balancer

LEMMA ApartIsOneOwner == ASSUME BInv, Apart PROVE OneOwner
<1> SUFFICES ASSUME NEW c \in Clients
             PROVE  Copies(c) <= 1 /\ (Copies(c) = 1 => c \notin Elsewhere)
  BY DEF OneOwner, Elsewhere
<1> DEFINE P == {p \in Links \X (1..QueueCap) :
                    p[2] \in DOMAIN queue[p[1]] /\ queue[p[1]][p[2]] = c}
           O == {w \in Workers : c \in owned[w]}
<1>1. \A p, r \in P : p = r
  BY DEF Apart, QueuedOnce
<1>2. \A w, v \in O : w = v
  BY DEF Apart, OwnedOnce
<1>3. P # {} => O = {}
  BY DEF Apart, OwnedOnce
<1>4. P # {} \/ O # {} => c \notin Elsewhere
  BY DEF Apart, GivenOnly
<1>5. Copies(c) = Cardinality(P) + Cardinality(O)
  BY DEF Copies
<1> HIDE DEF P, O
<1>6. \A x : IsFiniteSet({x}) /\ Cardinality({x}) = 1
  BY FS_Singleton
<1>7. P # {} => Cardinality(P) = 1
  <2> SUFFICES ASSUME P # {} PROVE Cardinality(P) = 1
    OBVIOUS
  <2>1. PICK p : p \in P
    OBVIOUS
  <2>2. P = {p}
    BY <1>1, <2>1
  <2> QED BY <1>6, <2>2
<1>8. O # {} => Cardinality(O) = 1
  <2> SUFFICES ASSUME O # {} PROVE Cardinality(O) = 1
    OBVIOUS
  <2>1. PICK w : w \in O
    OBVIOUS
  <2>2. O = {w}
    BY <1>2, <2>1
  <2> QED BY <1>6, <2>2
<1>9. Cardinality({}) = 0
  BY FS_EmptySet
<1>10. CASE P = {}
  <2>1. CASE O = {}
    <3>1. Copies(c) = 0
      BY <1>5, <1>9, <1>10, <2>1
    <3> QED BY <3>1
  <2>2. CASE O # {}
    <3>1. Copies(c) = 1
      BY <1>5, <1>8, <1>9, <1>10, <2>2
    <3> QED BY <1>4, <2>2, <3>1
  <2> QED BY <2>1, <2>2
<1>11. CASE P # {}
  <2>1. Copies(c) = 1
    BY <1>3, <1>5, <1>7, <1>9, <1>11
  <2> QED BY <1>4, <1>11, <2>1
<1> QED BY <1>10, <1>11

\* No failover, retry or restart leaves a client's descriptor with two workers,
\* twice with one, or with a worker while it waits, is at hand or is lost.
THEOREM OneOwnerAtATime == Spec => []OneOwner
<1>1. BInv /\ Apart => OneOwner
  BY ApartIsOneOwner
<1> QED BY <1>1, InitApart, NextApart, BalancerInvariant, PTL DEF Spec
====
