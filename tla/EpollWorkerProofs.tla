---- MODULE EpollWorkerProofs ----
(***************************************************************************)
(* What holds of the epoll worker for any number of clients, links and     *)
(* descriptors, any buffer capacity and any streams.                       *)
(***************************************************************************)
EXTENDS EpollWorker, NatLemmas, SequenceTheorems

\* The batch holds one event per descriptor, and none for the descriptor the
\* running handler works on.
Cursor ==
    /\ \A e1, e2 \in batch : e1.fd = e2.fd => e1 = e2
    /\ pc = "drain" => isCtrl[cur]
    /\ pc = "serve" => conns[cur].some
    /\ pc \in {"drain", "serve"} => \A e \in batch : e.fd # cur

\* The worker has read no more than was sent, and nobody sends past a stream.
Progress ==
    \A c \in Clients : got[c] <= sent[c] /\ sent[c] <= Len(Stream[c])

\* The strengthening: each part is preserved only in company of the others.
IInv == TypeOK /\ TablesAgree /\ NoStaleEvent /\ Cursor /\ Progress

---------------------------------------------------------------------------
(* Lemmas about the operators of the model.                                *)

\* What recv delivers fits the room left and is the client's own.
LEMMA ReceivedProperties ==
    ASSUME NEW c \in Clients, NEW room \in Nat,
           sent[c] \in Nat, got[c] \in Nat, got[c] <= sent[c]
    PROVE  /\ Received(c, room) \in Seq(Units)
           /\ Len(Received(c, room)) <= room
           /\ Len(Received(c, room)) <= sent[c] - got[c]
           /\ \A i \in DOMAIN Received(c, room) : Received(c, room)[i][1] = c
<1> DEFINE m == Smaller(room, sent[c] - got[c])
<1>1. m \in Nat /\ m <= room /\ m <= sent[c] - got[c]
  BY DEF Smaller
<1>2. Received(c, room) = [i \in 1..m |-> <<c, got[c] + i>>]
  BY DEF Received
<1> HIDE DEF m
<1>3. \A i \in 1..m : <<c, got[c] + i>> \in Units
  BY <1>1 DEF Units
<1>4. Received(c, room) \in Seq(Units)
  BY <1>1, <1>2, <1>3, IsASeq
<1>5. DOMAIN Received(c, room) = 1..m
  BY <1>2
<1>6. Len(Received(c, room)) = m
  BY <1>1, <1>4, <1>5, LenProperties
<1>7. \A i \in 1..m : Received(c, room)[i][1] = c
  BY <1>2
<1> QED BY <1>1, <1>4, <1>5, <1>6, <1>7

\* The first complete request of a buffer ends inside it.
LEMMA FirstEndProperties ==
    ASSUME NEW b \in Seq(Units), Ends(b) # {}
    PROVE  /\ FirstEnd(b) \in 1..Len(b)
           /\ FirstEnd(b) \in Ends(b)
<1>1. Ends(b) \in SUBSET Nat /\ Ends(b) \subseteq 1..Len(b)
  BY DEF Ends
<1>2. \E i \in Ends(b) : \A j \in Ends(b) : i <= j
  BY <1>1, SmallestNat
<1>3. FirstEnd(b) \in Ends(b)
  BY <1>2 DEF FirstEnd
<1> QED BY <1>1, <1>3

\* Removing a request leaves a shorter buffer with units of the old one.
LEMMA RestProperties ==
    ASSUME NEW b \in Seq(Units), NEW n \in 1..Len(b)
    PROVE  /\ Rest(b, n) \in Seq(Units)
           /\ Len(Rest(b, n)) <= Len(b)
           /\ n = Len(b) => Rest(b, n) = <<>>
           /\ \A i \in DOMAIN Rest(b, n) : \E j \in DOMAIN b : Rest(b, n)[i] = b[j]
<1> DEFINE k == Len(b)
<1> DEFINE r == Rest(b, n)
<1>1. DOMAIN b = 1..k /\ \A i \in 1..k : b[i] \in Units
  BY ElementOfSeq, LenProperties
<1>2. k \in Nat /\ n \in 1..k
  BY LenProperties
<1> HIDE DEF k
<1>3. \A i \in (n + 1)..k : b[i] \in Units
  BY <1>1, <1>2
<1>4. /\ r \in Seq(Units)
      /\ Len(r) = IF n + 1 <= k THEN k - (n + 1) + 1 ELSE 0
      /\ \A i \in 1..(k - (n + 1) + 1) : r[i] = b[(n + 1) + i - 1]
  <2>1. n + 1 \in Int /\ k \in Int
    BY <1>2
  <2> QED BY <1>3, <2>1, SubSeqProperties DEF Rest, k
<1>5. n = k => r = <<>>
  <2>1. ASSUME n = k PROVE k < n + 1 /\ n + 1 \in Int /\ k \in Int
    BY <1>2, <2>1
  <2> QED BY <2>1, SubSeqEmpty DEF Rest, k
<1> HIDE DEF r
<1>6. Len(r) = k - n
  BY <1>2, <1>4
<1>7. DOMAIN r = 1..(k - n)
  BY <1>4, <1>6, LenProperties
<1>8. ASSUME NEW i \in 1..(k - n)
      PROVE  \E j \in 1..k : r[i] = b[j]
  <2>1. i \in 1..(k - (n + 1) + 1) /\ (n + 1) + i - 1 \in 1..k
    BY <1>2
  <2> QED BY <1>4, <2>1
<1>9. Len(r) <= k
  BY <1>2, <1>6
<1>10. \A i \in DOMAIN r : \E j \in DOMAIN b : r[i] = b[j]
  BY <1>1, <1>7, <1>8
<1> QED BY <1>4, <1>5, <1>9, <1>10 DEF r, k

\* A free descriptor means a lowest one, which is free.
LEMMA LowestFdIsFree ==
    ASSUME FreeFds # {}
    PROVE  LowestFd \in Fds /\ fdt[LowestFd] = Free
<1>1. FreeFds \in SUBSET Nat
  BY WorkerAssumption DEF FreeFds, Fds
<1>2. \E f \in FreeFds : \A g \in FreeFds : f <= g
  BY <1>1, SmallestNat
<1>3. LowestFd \in FreeFds
  BY <1>2 DEF LowestFd
<1> QED BY <1>3 DEF FreeFds, Open
---------------------------------------------------------------------------
(* The invariant is inductive.                                             *)

LEMMA InitIInv == Init => IInv
<1> SUFFICES ASSUME Init PROVE IInv
  OBVIOUS
<1> USE WorkerAssumption DEF Init
<1>1. TypeOK
  BY DEF TypeOK, NoConn, Fds
<1>2. TablesAgree
  BY DEF TablesAgree, NoConn
<1>3. NoStaleEvent /\ Cursor
  BY DEF NoStaleEvent, Cursor
<1>4. Progress
  <2>1. \A c \in Clients : Len(Stream[c]) \in Nat
    BY LenProperties
  <2> QED BY <2>1 DEF Progress
<1> QED BY <1>1, <1>2, <1>3, <1>4 DEF IInv

\* A wait reports each registered descriptor at most once, with its file.
LEMMA WaitStep == ASSUME IInv, EpollWait PROVE IInv'
<1> USE WorkerAssumption DEF IInv
<1>1. \A e \in ReadyEvents : e = ListenEvent \/ \E f \in interest : e = EventOf(f)
  BY DEF ReadyEvents
<1>2. /\ ListenEvent \in Event /\ ListenEvent.fd \notin Fds
      /\ \A f \in interest : /\ EventOf(f) \in Event /\ EventOf(f).fd = f
                             /\ f \in Fds /\ EventOf(f).file = fdt[f]
  <2>1. \A f \in interest : /\ f \in Fds /\ fdt[f] \in Clients \cup Links
                           /\ HungUp(fdt[f]) \in BOOLEAN
    BY DEF TypeOK, TablesAgree, HungUp
  <2> QED BY <2>1 DEF ListenEvent, EventOf, Event
<1>3. \A e \in ReadyEvents : e \in Event /\ (e.fd \in Fds => fdt[e.fd] = e.file)
  BY <1>1, <1>2
<1>4. \A e1, e2 \in ReadyEvents : e1.fd = e2.fd => e1 = e2
  BY <1>1, <1>2
<1>5. batch' \subseteq ReadyEvents /\ pc' = "dispatch"
  BY DEF EpollWait
<1>6. UNCHANGED <<cur, conns, isCtrl, fdt, interest, backlog, ctrlq,
                  lbEnd, sent, got, fin, handed, out>>
  BY DEF EpollWait
<1>7. TypeOK'
  BY <1>3, <1>5, <1>6 DEF TypeOK
<1>8. TablesAgree' /\ Progress'
  BY <1>6 DEF TablesAgree, Progress
<1>9. NoStaleEvent'
  BY <1>3, <1>5, <1>6 DEF NoStaleEvent
<1>10. Cursor'
  BY <1>4, <1>5 DEF Cursor
<1> QED BY <1>7, <1>8, <1>9, <1>10

\* Steps of the loop that touch neither tables nor buffers.
LEMMA LoopStep ==
    ASSUME IInv,
           \/ BatchDone \/ AcceptDone \/ Incomplete
           \/ \E e \in batch : DispatchListen(e) \/ DispatchCtrl(e)
    PROVE  IInv'
<1> USE WorkerAssumption DEF IInv
<1>1. /\ batch' \subseteq batch
      /\ pc' \in {"wait", "dispatch", "accept", "drain"}
      /\ UNCHANGED <<conns, isCtrl, fdt, interest, backlog, ctrlq,
                     lbEnd, sent, got, fin, handed, out>>
  BY DEF BatchDone, AcceptDone, Incomplete, DispatchListen, DispatchCtrl, Take
<1>2. cur' \in Fds
  BY DEF BatchDone, AcceptDone, Incomplete, DispatchListen, DispatchCtrl,
         Take, IsCtrlEvent, TypeOK, Event
<1>3. pc' = "drain" => isCtrl[cur'] /\ \A e \in batch' : e.fd # cur'
  BY DEF BatchDone, AcceptDone, Incomplete, DispatchListen, DispatchCtrl,
         Take, IsCtrlEvent, Cursor
<1>4. TypeOK'
  BY <1>1, <1>2 DEF TypeOK
<1>5. TablesAgree' /\ Progress'
  BY <1>1 DEF TablesAgree, Progress
<1>6. NoStaleEvent' /\ Cursor'
  BY <1>1, <1>3 DEF NoStaleEvent, Cursor
<1> QED BY <1>4, <1>5, <1>6

\* A new link takes a free descriptor, which no event of the batch names.
LEMMA AcceptStep ==
    ASSUME IInv, NEW l \in backlog, AcceptOne(l)
    PROVE  IInv'
<1> USE WorkerAssumption DEF IInv
<1>1. LowestFd \in Fds /\ fdt[LowestFd] = Free
  BY LowestFdIsFree DEF AcceptOne
<1> DEFINE f == LowestFd
<1>2. /\ l \in Links /\ l # Free /\ l \notin Clients
      /\ pc' = "accept" /\ batch' = batch
      /\ fdt' = [fdt EXCEPT ![f] = l]
      /\ isCtrl' = [isCtrl EXCEPT ![f] = TRUE]
      /\ interest' = interest \cup {f}
      /\ backlog' \subseteq backlog
      /\ UNCHANGED <<cur, conns, ctrlq, lbEnd, sent, got, fin, handed, out>>
  BY DEF AcceptOne, TypeOK
<1> HIDE DEF f
<1>3. \A e \in batch : e.fd # f
  BY <1>1 DEF f, NoStaleEvent, TypeOK, Event
<1>4. TypeOK'
  BY <1>1, <1>2 DEF f, TypeOK
<1>5. TablesAgree'
  BY <1>1, <1>2 DEF f, TablesAgree, TypeOK
<1>6. NoStaleEvent' /\ Cursor' /\ Progress'
  BY <1>1, <1>2, <1>3 DEF f, NoStaleEvent, Cursor, Progress, TypeOK
<1> QED BY <1>4, <1>5, <1>6

\* A client socket arrives under a free descriptor, with an empty buffer.
LEMMA DrainOneStep == ASSUME IInv, DrainOne PROVE IInv'
<1> USE WorkerAssumption DEF IInv
<1>1. LowestFd \in Fds /\ fdt[LowestFd] = Free
  BY LowestFdIsFree DEF DrainOne
<1> DEFINE f == LowestFd
<1> DEFINE c == Head(Queued)
<1>2. fdt[cur] \in Links /\ Queued = ctrlq[fdt[cur]]
  BY DEF DrainOne, Cursor, TablesAgree, TypeOK, Queued
<1>3. Queued \in Seq(Clients) /\ Queued # <<>>
  BY <1>2 DEF DrainOne, TypeOK
<1>4. c \in Clients /\ c \notin Links /\ c # Free /\ Tail(Queued) \in Seq(Clients)
  BY <1>3, HeadTailProperties
<1>5. /\ pc = "drain" /\ pc' = "drain"
      /\ ctrlq' = [ctrlq EXCEPT ![fdt[cur]] = Tail(Queued)]
      /\ fdt' = [fdt EXCEPT ![f] = c]
      /\ conns' = [conns EXCEPT ![f] = [some |-> TRUE, buf |-> <<>>]]
      /\ interest' = interest \cup {f}
      /\ UNCHANGED <<cur, batch, isCtrl, backlog, lbEnd, sent, got, fin, handed, out>>
  BY <1>2 DEF DrainOne, Conn, TypeOK
<1> HIDE DEF f, c
<1>6. \A e \in batch : e.fd # f
  BY <1>1 DEF f, NoStaleEvent, TypeOK, Event
<1>7. f # cur
  BY <1>1, <1>2 DEF f
<1>8. TypeOK'
  BY <1>1, <1>2, <1>4, <1>5 DEF f, TypeOK
<1>9. TablesAgree'
  <2> SUFFICES ASSUME NEW g \in Fds
               PROVE  /\ isCtrl'[g] <=> fdt'[g] \in Links
                      /\ conns'[g].some <=> fdt'[g] \in Clients
                      /\ g \in interest' <=> fdt'[g] # Free
    BY DEF TablesAgree
  <2>1. CASE g = f
    <3>1. fdt'[g] = c /\ conns'[g].some /\ g \in interest'
      BY <1>1, <1>5, <2>1 DEF f, TypeOK
    <3>2. ~ isCtrl[g] /\ isCtrl' = isCtrl
      BY <1>1, <1>5, <2>1 DEF f, TablesAgree
    <3> QED BY <1>4, <3>1, <3>2
  <2>2. CASE g # f
    <3>1. fdt'[g] = fdt[g] /\ conns'[g] = conns[g]
      BY <1>5, <2>2 DEF TypeOK
    <3>2. g \in interest' <=> g \in interest
      BY <1>5, <2>2
    <3> QED BY <1>5, <3>1, <3>2 DEF TablesAgree
  <2> QED BY <2>1, <2>2
<1>10. NoStaleEvent'
  <2>1. \A e \in batch : e.fd \in Fds => fdt'[e.fd] = fdt[e.fd]
    BY <1>5, <1>6 DEF TypeOK
  <2> QED BY <1>5, <2>1 DEF NoStaleEvent
<1>11. Cursor' /\ Progress'
  BY <1>1, <1>5, <1>7 DEF f, Cursor, Progress, TypeOK
<1> QED BY <1>8, <1>9, <1>10, <1>11

LEMMA DrainDoneStep == ASSUME IInv, DrainDone PROVE IInv'
<1> USE WorkerAssumption DEF IInv
<1>1. /\ pc' = "dispatch"
      /\ UNCHANGED <<cur, batch, conns, isCtrl, fdt, interest, backlog,
                     lbEnd, sent, got, fin, handed, out>>
  BY DEF DrainDone
<1>2. ctrlq' \in [Links -> Seq(Clients)]
  <2>1. CASE ctrlq' = ctrlq
    BY <2>1 DEF TypeOK
  <2>2. CASE Queued # <<>> /\ ctrlq' = [ctrlq EXCEPT ![fdt[cur]] = Tail(@)]
    <3>1. fdt[cur] \in Links /\ ctrlq[fdt[cur]] # <<>>
      BY <2>2 DEF Queued
    <3>2. ctrlq[fdt[cur]] \in Seq(Clients)
      BY <3>1 DEF TypeOK
    <3>3. Tail(ctrlq[fdt[cur]]) \in Seq(Clients)
      BY <3>1, <3>2, HeadTailProperties
    <3> QED BY <2>2, <3>1, <3>3 DEF TypeOK
  <2> QED BY <2>1, <2>2 DEF DrainDone
<1>3. TypeOK'
  BY <1>1, <1>2 DEF TypeOK
<1>4. TablesAgree' /\ NoStaleEvent' /\ Cursor' /\ Progress'
  BY <1>1 DEF TablesAgree, NoStaleEvent, Cursor, Progress
<1> QED BY <1>3, <1>4

\* Closing a descriptor that is no link, with no event left for it.
LEMMA CloseKeepsIInv ==
    ASSUME IInv, NEW f \in Fds, fdt[f] \notin Links, CloseClient(f),
           batch' \subseteq batch, \A e \in batch' : e.fd # f,
           pc' = "dispatch", out' \in [Clients -> Seq(Units)],
           UNCHANGED <<cur, isCtrl, backlog, ctrlq, lbEnd, sent, got, fin, handed>>
    PROVE  IInv'
<1> USE WorkerAssumption DEF IInv
<1>1. /\ fdt' = [fdt EXCEPT ![f] = Free]
      /\ conns' = [conns EXCEPT ![f] = [some |-> FALSE, buf |-> <<>>]]
      /\ interest' = interest \ {f}
  BY DEF CloseClient, NoConn
<1>2. TypeOK'
  BY <1>1 DEF TypeOK
<1>3. TablesAgree'
  <2> SUFFICES ASSUME NEW g \in Fds
               PROVE  /\ isCtrl'[g] <=> fdt'[g] \in Links
                      /\ conns'[g].some <=> fdt'[g] \in Clients
                      /\ g \in interest' <=> fdt'[g] # Free
    BY DEF TablesAgree
  <2>1. CASE g = f
    BY <1>1, <2>1 DEF TypeOK, TablesAgree
  <2>2. CASE g # f
    <3>1. fdt'[g] = fdt[g] /\ conns'[g] = conns[g]
      BY <1>1, <2>2 DEF TypeOK
    <3> QED BY <1>1, <2>2, <3>1 DEF TablesAgree
  <2> QED BY <2>1, <2>2
<1>4. NoStaleEvent'
  <2>1. \A e \in batch' : e.fd \in Fds => fdt'[e.fd] = fdt[e.fd]
    BY <1>1 DEF TypeOK
  <2> QED BY <2>1 DEF NoStaleEvent
<1>5. Cursor' /\ Progress'
  BY DEF Cursor, Progress
<1> QED BY <1>2, <1>3, <1>4, <1>5

\* An event on a descriptor of a client is about that client's socket.
LEMMA ClientEvent ==
    ASSUME IInv, NEW e \in batch, IsClientEvent(e)
    PROVE  /\ e.fd \in Fds /\ fdt[e.fd] \in Clients /\ fdt[e.fd] \notin Links
           /\ conns[e.fd].some
           /\ \A d \in batch \ {e} : d.fd # e.fd
<1> USE WorkerAssumption DEF IInv
<1>1. e.fd \in Fds /\ e.file \in Clients \cup Links \cup {ListenFd}
  BY DEF TypeOK, Event, IsClientEvent
<1>2. fdt[e.fd] = e.file /\ fdt[e.fd] \notin Links
  BY <1>1 DEF NoStaleEvent, TablesAgree, IsClientEvent
<1>3. fdt[e.fd] \in Clients
  BY <1>1, <1>2 DEF TypeOK
<1>4. conns[e.fd].some
  BY <1>1, <1>3 DEF TablesAgree
<1>5. \A d \in batch \ {e} : d.fd # e.fd
  BY DEF Cursor
<1> QED BY <1>1, <1>2, <1>3, <1>4, <1>5

\* While a buffer is served, its descriptor is a client's and has no event.
LEMMA ServedClient ==
    ASSUME IInv, pc = "serve"
    PROVE  /\ cur \in Fds /\ fdt[cur] \in Clients /\ fdt[cur] \notin Links
           /\ Buf \in Seq(Units) /\ Len(Buf) <= BufCap
           /\ \A e \in batch : e.fd # cur
    BY WorkerAssumption DEF IInv, TypeOK, TablesAgree, Cursor, Buf

LEMMA ClientHupStep ==
    ASSUME IInv, NEW e \in batch, ClientHup(e) \/ ReadClose(e)
    PROVE  IInv'
<1>1. IsClientEvent(e)
  BY DEF ClientHup, ReadClose
<1>2. /\ batch' = batch \ {e} /\ pc' = "dispatch" /\ CloseClient(e.fd)
      /\ UNCHANGED <<cur, isCtrl, backlog, ctrlq, lbEnd, sent, got, fin, handed, out>>
  BY DEF ClientHup, ReadClose, Take
<1>3. out' \in [Clients -> Seq(Units)]
  BY <1>2 DEF IInv, TypeOK
<1> QED BY <1>1, <1>2, <1>3, ClientEvent, CloseKeepsIInv

\* A link is closed: its mark goes with its descriptor.
LEMMA CtrlHangUpStep ==
    ASSUME IInv, NEW e \in batch, CtrlHangUp(e)
    PROVE  IInv'
<1> USE WorkerAssumption DEF IInv
<1> DEFINE f == e.fd
<1>1. f \in Fds /\ isCtrl[f] /\ fdt[f] \in Links
  BY DEF CtrlHangUp, IsCtrlEvent, TypeOK, Event, TablesAgree
<1>2. /\ batch' = batch \ {e} /\ pc' = "dispatch"
      /\ fdt' = [fdt EXCEPT ![f] = Free]
      /\ isCtrl' = [isCtrl EXCEPT ![f] = FALSE]
      /\ interest' = interest \ {f}
      /\ ctrlq' = [ctrlq EXCEPT ![fdt[f]] = <<>>]
      /\ UNCHANGED <<cur, conns, backlog, lbEnd, sent, got, fin, handed, out>>
  BY <1>1 DEF CtrlHangUp, Take
<1>3. \A d \in batch' : d.fd # f
  BY <1>2 DEF Cursor
<1> HIDE DEF f
<1>4. TypeOK'
  BY <1>1, <1>2 DEF TypeOK
<1>5. TablesAgree'
  BY <1>1, <1>2 DEF TypeOK, TablesAgree
<1>6. NoStaleEvent'
  <2>1. \A d \in batch' : d.fd \in Fds => fdt'[d.fd] = fdt[d.fd]
    BY <1>2, <1>3 DEF TypeOK
  <2> QED BY <1>2, <2>1 DEF NoStaleEvent
<1>7. Cursor' /\ Progress'
  BY <1>2 DEF Cursor, Progress
<1> QED BY <1>4, <1>5, <1>6, <1>7

\* A read appends the client's own next units, up to the room left.
LEMMA ReadStep ==
    ASSUME IInv, NEW e \in batch, Read(e)
    PROVE  IInv'
<1> USE WorkerAssumption DEF IInv
<1> DEFINE f == e.fd
<1> DEFINE c == fdt[e.fd]
<1> DEFINE data == Received(c, Room(f))
<1> DEFINE b == conns[f].buf
<1>1. f \in Fds /\ c \in Clients /\ conns[f].some /\ \A d \in batch \ {e} : d.fd # f
  BY ClientEvent DEF Read
<1>2. b \in Seq(Units) /\ Len(b) \in Nat /\ Len(b) <= BufCap
  <2>1. b \in Seq(Units) /\ Len(b) <= BufCap
    BY <1>1 DEF TypeOK
  <2> QED BY <2>1, LenProperties
<1>3. Room(f) \in Nat /\ Room(f) = BufCap - Len(b)
  BY <1>2 DEF Room
<1>4. sent[c] \in Nat /\ got[c] \in Nat /\ got[c] <= sent[c] /\ sent[c] <= Len(Stream[c])
  BY <1>1 DEF TypeOK, Progress
<1>5. /\ data \in Seq(Units) /\ Len(data) \in Nat
      /\ Len(data) <= Room(f) /\ Len(data) <= sent[c] - got[c]
  <2>1. data \in Seq(Units) /\ Len(data) <= Room(f) /\ Len(data) <= sent[c] - got[c]
    BY <1>1, <1>3, <1>4, ReceivedProperties
  <2> QED BY <2>1, LenProperties
<1>6. b \o data \in Seq(Units) /\ Len(b \o data) = Len(b) + Len(data)
  BY <1>2, <1>5, ConcatProperties
<1>7. /\ batch' = batch \ {e} /\ pc' = "serve" /\ cur' = f
      /\ conns' = [conns EXCEPT ![f] = [some |-> TRUE, buf |-> b \o data]]
      /\ got' = [got EXCEPT ![c] = got[c] + Len(data)]
      /\ UNCHANGED <<isCtrl, fdt, interest, backlog, ctrlq, lbEnd, sent, fin, handed, out>>
  BY DEF Read, Take, Conn
<1> HIDE DEF f, c, data, b
<1>8. Len(b \o data) <= BufCap
  BY <1>2, <1>3, <1>5, <1>6
<1>9. got[c] + Len(data) \in Nat /\ got[c] + Len(data) <= sent[c]
  BY <1>4, <1>5
<1>10. TypeOK'
  BY <1>1, <1>6, <1>7, <1>8, <1>9 DEF TypeOK
<1>11. TablesAgree' /\ NoStaleEvent'
  BY <1>1, <1>7 DEF TypeOK, TablesAgree, NoStaleEvent
<1>12. Cursor'
  BY <1>1, <1>7 DEF TypeOK, Cursor
<1>13. Progress'
  BY <1>4, <1>7, <1>9 DEF TypeOK, Progress
<1> QED BY <1>10, <1>11, <1>12, <1>13

LEMMA SendKeepsType ==
    ASSUME IInv, NEW u \in Units, Send(cur, u)
    PROVE  out' \in [Clients -> Seq(Units)]
<1>1. CASE fdt[cur] \in Clients
  <2>1. Append(out[fdt[cur]], u) \in Seq(Units)
    BY <1>1, AppendProperties DEF IInv, TypeOK
  <2> QED BY <1>1, <2>1 DEF Send, IInv, TypeOK
<1>2. CASE fdt[cur] \notin Clients
  BY <1>2 DEF Send, IInv, TypeOK
<1> QED BY <1>1, <1>2

LEMMA AnswerStep == ASSUME IInv, Answer PROVE IInv'
<1> USE WorkerAssumption DEF IInv
<1> DEFINE n == FirstEnd(Buf)
<1>1. /\ pc = "serve" /\ cur \in Fds /\ Buf \in Seq(Units) /\ Len(Buf) <= BufCap
      /\ conns[cur].some /\ \A e \in batch : e.fd # cur
  BY ServedClient DEF Answer, Cursor
<1>2. n \in 1..Len(Buf) /\ Buf[n] \in Units
  BY <1>1, FirstEndProperties, ElementOfSeq DEF Answer
<1>3. Rest(Buf, n) \in Seq(Units) /\ Len(Rest(Buf, n)) <= Len(Buf)
  BY <1>1, <1>2, RestProperties
<1>4. Len(Rest(Buf, n)) <= BufCap
  <2>1. Len(Rest(Buf, n)) \in Nat /\ Len(Buf) \in Nat
    BY <1>1, <1>3, LenProperties
  <2> QED BY <1>1, <1>3, <2>1
<1>5. /\ pc' \in {"dispatch", "serve"}
      /\ conns' = [conns EXCEPT ![cur] = [some |-> TRUE, buf |-> Rest(Buf, n)]]
      /\ UNCHANGED <<cur, batch, isCtrl, fdt, interest, backlog, ctrlq,
                     lbEnd, sent, got, fin, handed>>
  BY DEF Answer, Conn
<1>6. out' \in [Clients -> Seq(Units)]
  BY <1>2, SendKeepsType DEF Answer
<1> HIDE DEF n
<1>7. TypeOK'
  BY <1>1, <1>3, <1>4, <1>5, <1>6 DEF TypeOK
<1>8. TablesAgree'
  BY <1>1, <1>5 DEF TypeOK, TablesAgree
<1>9. NoStaleEvent' /\ Cursor' /\ Progress'
  BY <1>1, <1>5 DEF TypeOK, NoStaleEvent, Cursor, Progress
<1> QED BY <1>7, <1>8, <1>9

LEMMA ServeCloseStep == ASSUME IInv, SendFails \/ AnswerBad PROVE IInv'
<1>1. /\ cur \in Fds /\ fdt[cur] \notin Links
      /\ Buf \in Seq(Units) /\ \A e \in batch : e.fd # cur
  BY ServedClient DEF SendFails, AnswerBad
<1>2. /\ batch' = batch /\ pc' = "dispatch" /\ CloseClient(cur)
      /\ UNCHANGED <<cur, isCtrl, backlog, ctrlq, lbEnd, sent, got, fin, handed>>
  BY DEF SendFails, AnswerBad
<1>3. out' \in [Clients -> Seq(Units)]
  <2>1. CASE SendFails
    BY <2>1 DEF SendFails, IInv, TypeOK
  <2>2. CASE AnswerBad
    <3>1. Buf[FirstEnd(Buf)] \in Units
      BY <1>1, <2>2, FirstEndProperties, ElementOfSeq DEF AnswerBad
    <3> QED BY <2>2, <3>1, SendKeepsType DEF AnswerBad
  <2> QED BY <2>1, <2>2
<1> QED BY <1>1, <1>2, <1>3, CloseKeepsIInv

\* The load balancer and the clients leave the worker's tables alone.
LEMMA EnvironmentStep == ASSUME IInv, Environment PROVE IInv'
<1> USE WorkerAssumption DEF IInv
<1>1. UNCHANGED <<pc, cur, batch, conns, isCtrl, fdt, interest, got, out>>
  BY DEF Environment, LbConnect, LbHandOver, LbExit, ClientSend, ClientHangUp
<1>2. TablesAgree' /\ NoStaleEvent' /\ Cursor'
  BY <1>1 DEF TablesAgree, NoStaleEvent, Cursor
<1>3. CASE \E l \in Links : LbConnect(l) \/ LbExit(l)
  <2>1. TypeOK' /\ Progress'
    BY <1>3 DEF LbConnect, LbExit, TypeOK, Progress
  <2> QED BY <1>2, <2>1
<1>4. ASSUME NEW l \in Links, NEW c \in Clients, LbHandOver(l, c) PROVE IInv'
  <2>1. Append(ctrlq[l], c) \in Seq(Clients)
    BY AppendProperties DEF TypeOK
  <2>2. TypeOK' /\ Progress'
    BY <1>4, <2>1 DEF LbHandOver, TypeOK, Progress
  <2> QED BY <1>2, <2>2
<1>5. ASSUME NEW c \in Clients, ClientSend(c) \/ ClientHangUp(c) PROVE IInv'
  <2>1. CASE ClientSend(c)
    <3>1. PICK n \in (sent[c] + 1)..Len(Stream[c]) : sent' = [sent EXCEPT ![c] = n]
      BY <2>1 DEF ClientSend
    <3>2. /\ sent[c] \in Nat /\ got[c] \in Nat /\ Len(Stream[c]) \in Nat
          /\ got[c] <= sent[c]
      BY LenProperties DEF TypeOK, Progress
    <3>3. n \in Nat /\ got[c] <= n /\ n <= Len(Stream[c])
      BY <3>1, <3>2
    <3>4. TypeOK' /\ Progress'
      BY <1>1, <2>1, <3>1, <3>3 DEF ClientSend, TypeOK, Progress
    <3> QED BY <1>2, <3>4
  <2>2. CASE ClientHangUp(c)
    <3>1. TypeOK' /\ Progress'
      BY <2>2 DEF ClientHangUp, TypeOK, Progress
    <3> QED BY <1>2, <3>1
  <2> QED BY <1>5, <2>1, <2>2
<1> QED BY <1>3, <1>4, <1>5 DEF Environment

LEMMA NextIInv == IInv /\ [Next]_vars => IInv'
<1> SUFFICES ASSUME IInv, [Next]_vars PROVE IInv'
  OBVIOUS
<1>1. CASE EpollWait
  BY <1>1, WaitStep
<1>2. CASE BatchDone \/ AcceptDone \/ Incomplete
  BY <1>2, LoopStep
<1>3. ASSUME NEW e \in batch, DispatchListen(e) \/ DispatchCtrl(e) PROVE IInv'
  BY <1>3, LoopStep
<1>4. ASSUME NEW e \in batch, CtrlHangUp(e) PROVE IInv'
  BY <1>4, CtrlHangUpStep
<1>5. ASSUME NEW e \in batch, ClientHup(e) \/ ReadClose(e) PROVE IInv'
  BY <1>5, ClientHupStep
<1>6. ASSUME NEW e \in batch, Read(e) PROVE IInv'
  BY <1>6, ReadStep
<1>7. ASSUME NEW l \in backlog, AcceptOne(l) PROVE IInv'
  BY <1>7, AcceptStep
<1>8. CASE DrainOne
  BY <1>8, DrainOneStep
<1>9. CASE DrainDone
  BY <1>9, DrainDoneStep
<1>10. CASE Answer
  BY <1>10, AnswerStep
<1>11. CASE SendFails \/ AnswerBad
  BY <1>11, ServeCloseStep
<1>12. CASE Environment
  BY <1>12, EnvironmentStep
<1>13. CASE UNCHANGED vars
  BY <1>13 DEF vars, IInv, TypeOK, TablesAgree, NoStaleEvent, Cursor, Progress
<1>14. CASE Worker
  BY <1>14, <1>1, <1>2, <1>3, <1>4, <1>5, <1>6, <1>7, <1>8, <1>9, <1>10, <1>11
     DEF Worker
<1> QED BY <1>12, <1>13, <1>14 DEF Next

\* The inductive invariant holds in every reachable state.
THEOREM InductiveInvariant == Spec => []IInv
    BY InitIInv, NextIInv, PTL DEF Spec

\* Every variable keeps its type and no buffer outgrows its capacity.
THEOREM TypeCorrect == Spec => []TypeOK
<1>1. IInv => TypeOK
  BY DEF IInv
<1> QED BY <1>1, InductiveInvariant, PTL

\* is_ctrl, conns, epoll's interest set and the kernel's descriptor table agree
\* in every state: no descriptor is served as the wrong thing, held unpolled,
\* or kept as a buffer without a socket.
THEOREM TablesAlwaysAgree == Spec => []TablesAgree
<1>1. IInv => TablesAgree
  BY DEF IInv
<1> QED BY <1>1, InductiveInvariant, PTL

\* No event is ever handled for another file than the one it was reported for.
THEOREM NoEventGoesStale == Spec => []NoStaleEvent
<1>1. IInv => NoStaleEvent
  BY DEF IInv
<1> QED BY <1>1, InductiveInvariant, PTL

---------------------------------------------------------------------------
(* Buffers: the bytes of one connection never reach another one, and no    *)
(* request is left in a buffer that nothing would look at again.           *)

Buffers == OwnBytesOnly /\ NoStrandedRequest

\* A handler replaces at most the buffer of descriptor f.  If the new one is
\* good, or f's buffer is the one being served, the rest follows.
LEMMA BuffersKept ==
    ASSUME IInv, IInv', Buffers, NEW f \in Fds,
           \A g \in Fds \ {f} : conns'[g] = conns[g] /\ (fdt'[g] = fdt[g] \/ fdt[g] \notin Clients),
           \A g \in Fds \ {f} : ~ (pc = "serve" /\ cur = g),
           \A i \in DOMAIN conns'[f].buf : conns'[f].buf[i][1] = fdt'[f],
           (pc' = "serve" /\ cur' = f) \/ Ends(conns'[f].buf) = {}
    PROVE  Buffers'
<1>1. OwnBytesOnly'
  <2> SUFFICES ASSUME NEW g \in Fds, NEW i \in DOMAIN conns'[g].buf
               PROVE  conns'[g].buf[i][1] = fdt'[g]
    BY DEF OwnBytesOnly
  <2>1. CASE g = f
    BY <2>1
  <2>2. CASE g # f
    <3>1. conns[g].buf[i][1] = fdt[g] /\ i \in DOMAIN conns[g].buf
      BY <2>2 DEF Buffers, OwnBytesOnly
    <3>2. conns[g].buf[i] \in Units
      BY <3>1, ElementOfSeq, LenProperties DEF IInv, TypeOK
    <3>3. fdt[g] \in Clients
      BY <3>1, <3>2 DEF Units
    <3> QED BY <2>2, <3>1, <3>3
  <2> QED BY <2>1, <2>2
<1>2. NoStrandedRequest'
  BY DEF Buffers, NoStrandedRequest, Ends
<1> QED BY <1>1, <1>2 DEF Buffers

LEMMA NoUnitsNoEnds == Ends(<<>>) = {} /\ DOMAIN NoConn.buf = {} /\ Ends(NoConn.buf) = {}
    BY DEF Ends, NoConn

\* Nothing is buffered for a descriptor that is free or a link.
LEMMA OnlyClientsBuffer ==
    ASSUME IInv, Buffers, NEW f \in Fds, fdt[f] \notin Clients
    PROVE  DOMAIN conns[f].buf = {}
<1> SUFFICES ASSUME NEW i \in DOMAIN conns[f].buf PROVE FALSE
  OBVIOUS
<1>1. conns[f].buf[i] \in Units
  BY ElementOfSeq, LenProperties DEF IInv, TypeOK
<1>2. conns[f].buf[i][1] = fdt[f]
  BY DEF Buffers, OwnBytesOnly
<1> QED BY <1>1, <1>2 DEF Units

LEMMA ReadBuffers ==
    ASSUME IInv, IInv', Buffers, NEW e \in batch, Read(e)
    PROVE  Buffers'
<1> DEFINE f == e.fd
<1> DEFINE c == fdt[e.fd]
<1> DEFINE data == Received(c, Room(f))
<1> DEFINE b == conns[f].buf
<1>1. f \in Fds /\ c \in Clients /\ pc = "dispatch"
  BY ClientEvent DEF Read, Take
<1>2. b \in Seq(Units) /\ Len(b) \in Nat /\ Len(b) <= BufCap
  <2>1. b \in Seq(Units) /\ Len(b) <= BufCap
    BY <1>1 DEF IInv, TypeOK
  <2> QED BY <2>1, LenProperties
<1>3. Room(f) \in Nat
  BY <1>2, WorkerAssumption DEF Room
<1>4. sent[c] \in Nat /\ got[c] \in Nat /\ got[c] <= sent[c]
  BY <1>1 DEF IInv, TypeOK, Progress
<1>5. /\ data \in Seq(Units)
      /\ \A i \in DOMAIN data : data[i][1] = c
  BY <1>1, <1>3, <1>4, ReceivedProperties
<1>6. \A i \in DOMAIN b : b[i][1] = c
  BY <1>1 DEF Buffers, OwnBytesOnly
<1>7. /\ conns' = [conns EXCEPT ![f] = [some |-> TRUE, buf |-> b \o data]]
      /\ fdt' = fdt /\ pc' = "serve" /\ cur' = f
  BY DEF Read, Conn
<1> HIDE DEF f, c, data, b
<1>8. \A i \in DOMAIN (b \o data) : (b \o data)[i][1] = c
  <2>1. /\ b \o data \in Seq(Units) /\ Len(b \o data) = Len(b) + Len(data)
        /\ \A i \in 1..(Len(b) + Len(data)) :
              (b \o data)[i] = IF i <= Len(b) THEN b[i] ELSE data[i - Len(b)]
    BY <1>2, <1>5, ConcatProperties
  <2>2. /\ DOMAIN b = 1..Len(b) /\ DOMAIN data = 1..Len(data)
        /\ DOMAIN (b \o data) = 1..Len(b \o data)
        /\ Len(b) \in Nat /\ Len(data) \in Nat
    BY <1>2, <1>5, <2>1, LenProperties
  <2>3. ASSUME NEW i \in DOMAIN (b \o data) PROVE (b \o data)[i][1] = c
    <3>1. i \in 1..(Len(b) + Len(data))
      BY <2>1, <2>2
    <3>2. CASE i <= Len(b)
      <4>1. i \in DOMAIN b /\ (b \o data)[i] = b[i]
        BY <2>1, <2>2, <3>1, <3>2
      <4> QED BY <1>6, <4>1
    <3>3. CASE ~ (i <= Len(b))
      <4>1. i - Len(b) \in DOMAIN data /\ (b \o data)[i] = data[i - Len(b)]
        BY <2>1, <2>2, <3>1, <3>3
      <4> QED BY <1>5, <4>1
    <3> QED BY <3>2, <3>3
  <2> QED BY <2>3
<1>9. conns'[f].buf = b \o data /\ fdt'[f] = c
  BY <1>1, <1>7 DEF IInv, TypeOK, c, f
<1>10. \A g \in Fds \ {f} : conns'[g] = conns[g] /\ fdt'[g] = fdt[g]
  BY <1>7 DEF IInv, TypeOK
<1> QED BY <1>1, <1>7, <1>8, <1>9, <1>10, BuffersKept

LEMMA AnswerBuffers ==
    ASSUME IInv, IInv', Buffers, Answer
    PROVE  Buffers'
<1> DEFINE n == FirstEnd(Buf)
<1>1. pc = "serve" /\ cur \in Fds /\ Buf \in Seq(Units)
  BY ServedClient DEF Answer
<1>2. n \in 1..Len(Buf)
  BY <1>1, FirstEndProperties DEF Answer
<1>3. /\ n = Len(Buf) => Rest(Buf, n) = <<>>
      /\ \A i \in DOMAIN Rest(Buf, n) : \E j \in DOMAIN Buf : Rest(Buf, n)[i] = Buf[j]
  BY <1>1, <1>2, RestProperties
<1>4. \A j \in DOMAIN Buf : Buf[j][1] = fdt[cur]
  BY <1>1 DEF Buffers, OwnBytesOnly, Buf
<1>5. /\ conns' = [conns EXCEPT ![cur] = [some |-> TRUE, buf |-> Rest(Buf, n)]]
      /\ fdt' = fdt /\ cur' = cur
      /\ pc' = IF n = Len(Buf) THEN "dispatch" ELSE "serve"
  BY DEF Answer, Conn
<1> HIDE DEF n
<1>6. \A i \in DOMAIN Rest(Buf, n) : Rest(Buf, n)[i][1] = fdt[cur]
  BY <1>3, <1>4
<1>7. conns'[cur].buf = Rest(Buf, n) /\ fdt'[cur] = fdt[cur]
  BY <1>1, <1>5 DEF IInv, TypeOK
<1>8. (pc' = "serve" /\ cur' = cur) \/ Ends(conns'[cur].buf) = {}
  <2>1. CASE n = Len(Buf)
    BY <1>3, <1>7, <2>1, NoUnitsNoEnds
  <2>2. CASE n # Len(Buf)
    BY <1>5, <2>2
  <2> QED BY <2>1, <2>2
<1>9. \A g \in Fds \ {cur} : conns'[g] = conns[g] /\ fdt'[g] = fdt[g]
  BY <1>5 DEF IInv, TypeOK
<1> QED BY <1>1, <1>6, <1>7, <1>8, <1>9, BuffersKept

\* Closing a client drops its buffer with it.
LEMMA CloseBuffers ==
    ASSUME IInv, IInv', Buffers, NEW f \in Fds, CloseClient(f), pc' = "dispatch",
           pc = "serve" => cur = f
    PROVE  Buffers'
<1>1. conns' = [conns EXCEPT ![f] = NoConn] /\ fdt' = [fdt EXCEPT ![f] = Free]
  BY DEF CloseClient
<1>2. conns'[f].buf = NoConn.buf
  BY <1>1 DEF IInv, TypeOK
<1>3. \A g \in Fds \ {f} : conns'[g] = conns[g] /\ fdt'[g] = fdt[g]
  BY <1>1 DEF IInv, TypeOK
<1> QED BY <1>2, <1>3, NoUnitsNoEnds, BuffersKept

\* A descriptor that is no client's may change its file: it buffers nothing.
LEMMA ReplaceBuffers ==
    ASSUME IInv, IInv', Buffers, NEW f \in Fds, fdt[f] \notin Clients,
           conns'[f].buf = conns[f].buf \/ conns'[f].buf = <<>>,
           \A g \in Fds \ {f} : conns'[g] = conns[g] /\ fdt'[g] = fdt[g],
           pc # "serve"
    PROVE  Buffers'
<1>1. DOMAIN conns'[f].buf = {}
  BY OnlyClientsBuffer
<1>2. Ends(conns'[f].buf) = {}
  BY <1>1 DEF Ends
<1> QED BY <1>1, <1>2, BuffersKept

LEMMA NextBuffers == IInv /\ Buffers /\ [Next]_vars => Buffers'
<1> SUFFICES ASSUME IInv, Buffers, [Next]_vars PROVE Buffers'
  OBVIOUS
<1>0. IInv'
  BY NextIInv
<1>1. ASSUME UNCHANGED <<conns, fdt>>, pc # "serve", pc' # "serve" PROVE Buffers'
  BY <1>1 DEF Buffers, OwnBytesOnly, NoStrandedRequest, Ends
<1>2. CASE EpollWait \/ BatchDone \/ AcceptDone \/ DrainDone
  BY <1>1, <1>2 DEF EpollWait, BatchDone, AcceptDone, DrainDone
<1>3. ASSUME NEW e \in batch, DispatchListen(e) \/ DispatchCtrl(e) PROVE Buffers'
  BY <1>1, <1>3 DEF DispatchListen, DispatchCtrl, Take
<1>4. ASSUME NEW e \in batch, CtrlHangUp(e) PROVE Buffers'
  <2>1. e.fd \in Fds /\ fdt[e.fd] \notin Clients
    BY <1>4, WorkerAssumption
    DEF CtrlHangUp, IsCtrlEvent, IInv, TypeOK, Event, TablesAgree
  <2>2. conns' = conns /\ fdt' = [fdt EXCEPT ![e.fd] = Free] /\ pc = "dispatch"
    BY <1>4 DEF CtrlHangUp, Take
  <2>3. \A g \in Fds \ {e.fd} : conns'[g] = conns[g] /\ fdt'[g] = fdt[g]
    BY <2>2 DEF IInv, TypeOK
  <2> QED BY <1>0, <2>1, <2>2, <2>3, ReplaceBuffers
<1>5. ASSUME NEW e \in batch, ClientHup(e) \/ ReadClose(e) PROVE Buffers'
  <2>1. e.fd \in Fds
    BY <1>5, ClientEvent DEF ClientHup, ReadClose
  <2>2. CloseClient(e.fd) /\ pc = "dispatch" /\ pc' = "dispatch"
    BY <1>5 DEF ClientHup, ReadClose, Take
  <2> QED BY <1>0, <2>1, <2>2, CloseBuffers
<1>6. ASSUME NEW e \in batch, Read(e) PROVE Buffers'
  BY <1>0, <1>6, ReadBuffers
<1>7. ASSUME NEW l \in backlog, AcceptOne(l) PROVE Buffers'
  <2>1. LowestFd \in Fds /\ fdt[LowestFd] = Free
    BY <1>7, LowestFdIsFree DEF AcceptOne
  <2>2. conns' = conns /\ fdt' = [fdt EXCEPT ![LowestFd] = l] /\ pc = "accept"
    BY <1>7 DEF AcceptOne
  <2>3. \A g \in Fds \ {LowestFd} : conns'[g] = conns[g] /\ fdt'[g] = fdt[g]
    BY <2>2 DEF IInv, TypeOK
  <2> QED BY <1>0, <2>1, <2>2, <2>3, WorkerAssumption, ReplaceBuffers
<1>8. CASE DrainOne
  <2>1. LowestFd \in Fds /\ fdt[LowestFd] = Free
    BY <1>8, LowestFdIsFree DEF DrainOne
  <2>2. /\ conns' = [conns EXCEPT ![LowestFd] = [some |-> TRUE, buf |-> <<>>]]
        /\ fdt' = [fdt EXCEPT ![LowestFd] = Head(Queued)] /\ pc = "drain"
    BY <1>8 DEF DrainOne, Conn
  <2>3. /\ \A g \in Fds \ {LowestFd} : conns'[g] = conns[g] /\ fdt'[g] = fdt[g]
        /\ conns'[LowestFd].buf = <<>>
    BY <2>1, <2>2 DEF IInv, TypeOK
  <2> QED BY <1>0, <2>1, <2>2, <2>3, WorkerAssumption, ReplaceBuffers
<1>9. CASE Incomplete
  <2>1. cur \in Fds /\ Ends(conns[cur].buf) = {} /\ pc = "serve" /\ pc' = "dispatch"
    BY <1>9 DEF Incomplete, Buf, IInv, TypeOK
  <2>2. UNCHANGED <<conns, fdt>>
    BY <1>9 DEF Incomplete
  <2> QED BY <2>1, <2>2 DEF Buffers, OwnBytesOnly, NoStrandedRequest, Ends
<1>10. CASE Answer
  BY <1>0, <1>10, AnswerBuffers
<1>11. CASE SendFails \/ AnswerBad
  <2>1. cur \in Fds /\ CloseClient(cur) /\ pc' = "dispatch"
    BY <1>11 DEF SendFails, AnswerBad, IInv, TypeOK
  <2> QED BY <1>0, <2>1, CloseBuffers
<1>12. CASE Environment
  <2>1. UNCHANGED <<pc, cur, conns, fdt>>
    BY <1>12 DEF Environment, LbConnect, LbHandOver, LbExit, ClientSend, ClientHangUp
  <2> QED BY <2>1 DEF Buffers, OwnBytesOnly, NoStrandedRequest, Ends
<1>13. CASE UNCHANGED vars
  BY <1>13 DEF vars, Buffers, OwnBytesOnly, NoStrandedRequest, Ends
<1>14. CASE Worker
  BY <1>14, <1>2, <1>3, <1>4, <1>5, <1>6, <1>7, <1>8, <1>9, <1>10, <1>11
     DEF Worker
<1> QED BY <1>12, <1>13, <1>14 DEF Next

LEMMA InitBuffers == Init => Buffers
    BY NoUnitsNoEnds DEF Init, Buffers, OwnBytesOnly, NoStrandedRequest

\* The bytes of one connection never reach the buffer of another, however
\* often descriptors are closed and reused.
THEOREM BuffersHoldOwnBytes == Spec => []OwnBytesOnly
<1>1. Buffers => OwnBytesOnly
  BY DEF Buffers
<1> QED BY <1>1, InitBuffers, NextBuffers, InductiveInvariant, PTL DEF Spec

\* No complete request stays behind in a buffer while the worker waits for
\* readiness that only new bytes would bring.
THEOREM NoRequestIsStranded == Spec => []NoStrandedRequest
<1>1. Buffers => NoStrandedRequest
  BY DEF Buffers
<1> QED BY <1>1, InitBuffers, NextBuffers, InductiveInvariant, PTL DEF Spec

---------------------------------------------------------------------------
(* Places: a client's socket is queued on one link, or behind one          *)
(* descriptor, or has not been handed over.                                *)

\* No two descriptors mean the same file.
FilesOnce ==
    \A f, g \in Fds : fdt[f] = fdt[g] /\ fdt[f] # Free => f = g

\* A queued client was handed over and has no descriptor yet, and it is queued
\* once.
QueuedApart ==
    /\ \A l \in Links : \A i \in DOMAIN ctrlq[l] :
          ctrlq[l][i] \in handed /\ \A f \in Fds : fdt[f] # ctrlq[l][i]
    /\ \A l, k \in Links : \A i \in DOMAIN ctrlq[l], j \in DOMAIN ctrlq[k] :
          ctrlq[l][i] = ctrlq[k][j] => l = k /\ i = j

\* Only clients handed over have a descriptor; a link has one or waits to be
\* accepted, and was connected.
Placed ==
    /\ \A f \in Fds : fdt[f] \in Clients => fdt[f] \in handed
    /\ \A l \in Links : (\E f \in Fds : fdt[f] = l) => lbEnd[l] # "new" /\ l \notin backlog
    /\ \A l \in backlog : lbEnd[l] # "new"

OnePlace == FilesOnce /\ QueuedApart /\ Placed

\* Every link keeps its queue, or loses the first of it, or all.
Shrunk ==
    \A l \in Links : \E d \in {0, 1} : \A i \in DOMAIN ctrlq'[l] :
        i + d \in DOMAIN ctrlq[l] /\ ctrlq'[l][i] = ctrlq[l][i + d]

LEMMA QueueIndices ==
    ASSUME IInv, NEW l \in Links
    PROVE  /\ ctrlq[l] \in Seq(Clients)
           /\ DOMAIN ctrlq[l] \subseteq Nat
           /\ \A i \in DOMAIN ctrlq[l] : ctrlq[l][i] \in Clients
<1>1. ctrlq[l] \in Seq(Clients)
  BY DEF IInv, TypeOK
<1> QED BY <1>1, ElementOfSeq, LenProperties

\* A queue that lost its first element.
LEMMA TailShrinks ==
    ASSUME IInv, NEW l \in Links, ctrlq[l] # <<>>,
           ctrlq' = [ctrlq EXCEPT ![l] = Tail(ctrlq[l])]
    PROVE  Shrunk /\ \A i \in DOMAIN ctrlq'[l] :
               i + 1 \in DOMAIN ctrlq[l] /\ ctrlq'[l][i] = ctrlq[l][i + 1]
<1> DEFINE q == ctrlq[l]
<1>1. q \in Seq(Clients) /\ q # <<>>
  BY QueueIndices
<1> HIDE DEF q
<1>2. /\ Tail(q) \in Seq(Clients) /\ Len(Tail(q)) = Len(q) - 1
      /\ \A i \in 1..Len(Tail(q)) : Tail(q)[i] = q[i + 1]
  BY <1>1, HeadTailProperties
<1>3. /\ Len(q) \in Nat /\ DOMAIN q = 1..Len(q)
      /\ DOMAIN Tail(q) = 1..Len(Tail(q))
  BY <1>1, <1>2, LenProperties
<1>4. \A i \in DOMAIN Tail(q) : i + 1 \in DOMAIN q /\ Tail(q)[i] = q[i + 1]
  BY <1>2, <1>3
<1>5. ctrlq'[l] = Tail(q)
  BY DEF q, IInv, TypeOK
<1>6. \A k \in Links \ {l} : ctrlq'[k] = ctrlq[k]
  BY DEF IInv, TypeOK
<1>7. ASSUME NEW k \in Links
      PROVE  \E d \in {0, 1} : \A i \in DOMAIN ctrlq'[k] :
                i + d \in DOMAIN ctrlq[k] /\ ctrlq'[k][i] = ctrlq[k][i + d]
  <2>1. CASE k = l
    BY <1>4, <1>5, <2>1 DEF q
  <2>2. CASE k # l
    <3>1. \A i \in DOMAIN ctrlq[k] : i + 0 = i
      BY QueueIndices
    <3> QED BY <1>6, <2>2, <3>1
  <2> QED BY <2>1, <2>2
<1> QED BY <1>4, <1>5, <1>7 DEF Shrunk, q

LEMMA SameShrinks ==
    ASSUME IInv, ctrlq' = ctrlq
    PROVE  Shrunk
<1>1. \A l \in Links : \A i \in DOMAIN ctrlq[l] : i + 0 = i
  BY QueueIndices
<1> QED BY <1>1 DEF Shrunk

\* Closing descriptors and losing queued sockets puts nothing in a second place.
LEMMA ShrinkKeeps ==
    ASSUME IInv, IInv', OnePlace, Shrunk,
           \A g \in Fds : fdt'[g] = fdt[g] \/ fdt'[g] = Free,
           UNCHANGED <<backlog, handed, lbEnd>>
    PROVE  OnePlace'
<1> USE DEF OnePlace
<1>1. FilesOnce'
  BY DEF FilesOnce
<1>2. ASSUME NEW l \in Links, NEW i \in DOMAIN ctrlq'[l]
      PROVE  ctrlq'[l][i] \in handed' /\ \A f \in Fds : fdt'[f] # ctrlq'[l][i]
  <2>1. PICK d \in {0, 1} : i + d \in DOMAIN ctrlq[l] /\ ctrlq'[l][i] = ctrlq[l][i + d]
    BY DEF Shrunk
  <2>2. ctrlq'[l][i] \in Clients
    BY <2>1, QueueIndices
  <2> QED BY <2>1, <2>2, WorkerAssumption DEF QueuedApart
<1>3. ASSUME NEW l \in Links, NEW k \in Links,
             NEW i \in DOMAIN ctrlq'[l], NEW j \in DOMAIN ctrlq'[k],
             ctrlq'[l][i] = ctrlq'[k][j]
      PROVE  l = k /\ i = j
  <2>1. PICK d \in {0, 1} : \A m \in DOMAIN ctrlq'[l] :
            m + d \in DOMAIN ctrlq[l] /\ ctrlq'[l][m] = ctrlq[l][m + d]
    BY DEF Shrunk
  <2>2. PICK e \in {0, 1} : \A m \in DOMAIN ctrlq'[k] :
            m + e \in DOMAIN ctrlq[k] /\ ctrlq'[k][m] = ctrlq[k][m + e]
    BY DEF Shrunk
  <2>3. l = k /\ i + d = j + e
    BY <1>3, <2>1, <2>2 DEF QueuedApart
  <2>4. ctrlq'[l][j] = ctrlq[l][j + d] /\ j + d \in DOMAIN ctrlq[l]
    BY <2>1, <2>3
  <2>5. ctrlq[l][j + d] = ctrlq[l][i + d] /\ i + d \in DOMAIN ctrlq[l]
    BY <1>3, <2>1, <2>3, <2>4
  <2>6. j + d = i + d
    BY <2>4, <2>5 DEF QueuedApart
  <2>7. i \in Nat /\ j \in Nat
    <3>1. ctrlq'[l] \in Seq(Clients) /\ ctrlq'[k] \in Seq(Clients)
      BY DEF IInv, TypeOK
    <3> QED BY <3>1, LenProperties
  <2> QED BY <2>3, <2>6, <2>7
<1>4. QueuedApart'
  BY <1>2, <1>3 DEF QueuedApart
<1>5. Placed'
  BY WorkerAssumption DEF Placed
<1> QED BY <1>1, <1>4, <1>5

LEMMA AcceptPlaces ==
    ASSUME IInv, IInv', OnePlace, NEW l \in backlog, AcceptOne(l)
    PROVE  OnePlace'
<1> DEFINE f == LowestFd
<1>1. f \in Fds /\ fdt[f] = Free
  BY LowestFdIsFree DEF AcceptOne
<1>2. /\ l \in Links /\ l \notin Clients
      /\ fdt' = [fdt EXCEPT ![f] = l]
      /\ backlog' = backlog \ {l}
      /\ UNCHANGED <<ctrlq, lbEnd, handed>>
  BY WorkerAssumption DEF AcceptOne, IInv, TypeOK
<1> HIDE DEF f
<1>3. fdt'[f] = l /\ \A g \in Fds \ {f} : fdt'[g] = fdt[g]
  BY <1>1, <1>2 DEF IInv, TypeOK
<1>4. \A g \in Fds : fdt[g] # l
  BY <1>2 DEF OnePlace, Placed
<1>5. FilesOnce'
  BY <1>3, <1>4 DEF OnePlace, FilesOnce
<1>6. QueuedApart'
  <2>1. \A k \in Links : \A i \in DOMAIN ctrlq[k] : ctrlq[k][i] # l
    BY <1>2, QueueIndices
  <2> QED BY <1>2, <1>3, <2>1 DEF OnePlace, QueuedApart
<1>7. Placed'
  BY <1>2, <1>3 DEF OnePlace, Placed
<1> QED BY <1>5, <1>6, <1>7 DEF OnePlace

\* What DrainOne does, in terms of the link drained and the client received.
LEMMA DrainOneEffect ==
    ASSUME IInv, DrainOne
    PROVE  /\ fdt[cur] \in Links /\ cur \in Fds /\ ctrlq[fdt[cur]] # <<>>
           /\ LowestFd \in Fds /\ fdt[LowestFd] = Free
           /\ 1 \in DOMAIN ctrlq[fdt[cur]]
           /\ ctrlq[fdt[cur]][1] \in Clients
           /\ ctrlq' = [ctrlq EXCEPT ![fdt[cur]] = Tail(ctrlq[fdt[cur]])]
           /\ fdt' = [fdt EXCEPT ![LowestFd] = ctrlq[fdt[cur]][1]]
<1>1. fdt[cur] \in Links /\ cur \in Fds /\ Queued = ctrlq[fdt[cur]]
  BY DEF DrainOne, IInv, Cursor, TablesAgree, TypeOK, Queued
<1>2. LowestFd \in Fds /\ fdt[LowestFd] = Free
  BY LowestFdIsFree DEF DrainOne
<1>3. ctrlq[fdt[cur]] # <<>> /\ ctrlq[fdt[cur]] \in Seq(Clients)
  BY <1>1, QueueIndices DEF DrainOne
<1>4. 1 \in DOMAIN ctrlq[fdt[cur]] /\ Head(ctrlq[fdt[cur]]) = ctrlq[fdt[cur]][1]
  <2>1. Len(ctrlq[fdt[cur]]) \in Nat /\ Len(ctrlq[fdt[cur]]) # 0
        /\ DOMAIN ctrlq[fdt[cur]] = 1..Len(ctrlq[fdt[cur]])
    BY <1>3, LenProperties, EmptySeq
  <2> QED BY <2>1
<1>5. ctrlq[fdt[cur]][1] \in Clients
  BY <1>1, <1>4, QueueIndices
<1>6. /\ ctrlq' = [ctrlq EXCEPT ![fdt[cur]] = Tail(ctrlq[fdt[cur]])]
      /\ fdt' = [fdt EXCEPT ![LowestFd] = ctrlq[fdt[cur]][1]]
  BY <1>1, <1>4 DEF DrainOne
<1> QED BY <1>1, <1>2, <1>3, <1>4, <1>5, <1>6

\* The client at the head of the queue is in one place before and after.
LEMMA DrainOnePlaces ==
    ASSUME IInv, IInv', OnePlace, DrainOne
    PROVE  OnePlace'
<1> DEFINE f == LowestFd
           l == fdt[cur]
           c == ctrlq[fdt[cur]][1]
<1>1. /\ l \in Links /\ f \in Fds /\ fdt[f] = Free /\ 1 \in DOMAIN ctrlq[l]
      /\ c \in Clients /\ c = ctrlq[l][1] /\ ctrlq[l] # <<>>
      /\ ctrlq' = [ctrlq EXCEPT ![l] = Tail(ctrlq[l])]
      /\ fdt' = [fdt EXCEPT ![f] = c]
  BY DrainOneEffect
<1>2. UNCHANGED <<backlog, handed, lbEnd>>
  BY DEF DrainOne
<1> HIDE DEF f, l, c
<1>3. /\ Shrunk
      /\ \A i \in DOMAIN ctrlq'[l] : i + 1 \in DOMAIN ctrlq[l] /\ ctrlq'[l][i] = ctrlq[l][i + 1]
  BY <1>1, TailShrinks
<1>4. fdt'[f] = c /\ \A g \in Fds \ {f} : fdt'[g] = fdt[g]
  BY <1>1 DEF IInv, TypeOK
<1>5. c \in handed /\ \A g \in Fds : fdt[g] # c
  BY <1>1 DEF OnePlace, QueuedApart
<1>6. FilesOnce'
  BY <1>4, <1>5 DEF OnePlace, FilesOnce
<1>7. ASSUME NEW k \in Links, NEW i \in DOMAIN ctrlq'[k]
      PROVE  /\ i \in Nat \ {0} /\ ctrlq'[k][i] # c
             /\ \E d \in {0, 1} : i + d \in DOMAIN ctrlq[k] /\ ctrlq'[k][i] = ctrlq[k][i + d]
  <2>1. i \in Nat \ {0}
    <3>1. ctrlq'[k] \in Seq(Clients)
      BY DEF IInv, TypeOK
    <3> QED BY <3>1, LenProperties
  <2>2. \E d \in {0, 1} : i + d \in DOMAIN ctrlq[k] /\ ctrlq'[k][i] = ctrlq[k][i + d]
    BY <1>3 DEF Shrunk
  <2>3. CASE k = l
    <3>1. i + 1 \in DOMAIN ctrlq[l] /\ ctrlq'[k][i] = ctrlq[l][i + 1] /\ i + 1 # 1
      BY <1>3, <2>1, <2>3
    <3> QED BY <1>1, <2>1, <2>2, <3>1 DEF OnePlace, QueuedApart
  <2>4. CASE k # l
    BY <1>1, <2>1, <2>2, <2>4 DEF OnePlace, QueuedApart
  <2> QED BY <2>3, <2>4
<1>8. \A k \in Links : \A i \in DOMAIN ctrlq'[k] :
         ctrlq'[k][i] \in handed' /\ \A g \in Fds : fdt'[g] # ctrlq'[k][i]
  <2> SUFFICES ASSUME NEW k \in Links, NEW i \in DOMAIN ctrlq'[k]
               PROVE  ctrlq'[k][i] \in handed' /\ \A g \in Fds : fdt'[g] # ctrlq'[k][i]
    OBVIOUS
  <2>1. PICK d \in {0, 1} : i + d \in DOMAIN ctrlq[k] /\ ctrlq'[k][i] = ctrlq[k][i + d]
    BY <1>7
  <2>2. ctrlq[k][i + d] \in handed /\ \A g \in Fds : fdt[g] # ctrlq[k][i + d]
    BY <2>1 DEF OnePlace, QueuedApart
  <2>3. ctrlq'[k][i] # c
    BY <1>7
  <2> QED BY <1>2, <1>4, <2>1, <2>2, <2>3
<1>9. ASSUME NEW j \in Links, NEW k \in Links,
             NEW i \in DOMAIN ctrlq'[j], NEW h \in DOMAIN ctrlq'[k],
             ctrlq'[j][i] = ctrlq'[k][h]
      PROVE  j = k /\ i = h
  <2>1. PICK d \in {0, 1} : \A m \in DOMAIN ctrlq'[j] :
            m + d \in DOMAIN ctrlq[j] /\ ctrlq'[j][m] = ctrlq[j][m + d]
    BY <1>3 DEF Shrunk
  <2>2. PICK e \in {0, 1} : h + e \in DOMAIN ctrlq[k] /\ ctrlq'[k][h] = ctrlq[k][h + e]
    BY <1>7
  <2>3. i + d \in DOMAIN ctrlq[j] /\ ctrlq'[j][i] = ctrlq[j][i + d]
    BY <2>1
  <2>4. j = k
    BY <1>9, <2>2, <2>3 DEF OnePlace, QueuedApart
  <2>5. h + d \in DOMAIN ctrlq[j] /\ ctrlq'[j][h] = ctrlq[j][h + d]
    BY <2>1, <2>4
  <2>6. i + d = h + d
    <3>1. ctrlq[j][i + d] = ctrlq[j][h + d]
      BY <1>9, <2>3, <2>4, <2>5
    <3> QED BY <2>3, <2>5, <3>1 DEF OnePlace, QueuedApart
  <2>7. i \in Nat
    BY <1>7
  <2>8. h \in Nat
    BY <1>7
  <2>9. d \in Nat
    BY <2>1
  <2>10. i = h
    BY <2>6, <2>7, <2>8, <2>9
  <2> QED BY <2>4, <2>10
<1>10. QueuedApart'
  BY <1>8, <1>9 DEF QueuedApart
<1>11. Placed'
  <2>1. c \notin Links
    BY <1>1, WorkerAssumption
  <2> QED BY <1>2, <1>4, <1>5, <2>1 DEF OnePlace, Placed
<1> QED BY <1>6, <1>10, <1>11 DEF OnePlace

\* A client handed over was in no place before.
LEMMA HandOverPlaces ==
    ASSUME IInv, IInv', OnePlace, NEW l \in Links, NEW c \in Clients, LbHandOver(l, c)
    PROVE  OnePlace'
<1>1. /\ c \notin handed /\ handed' = handed \cup {c}
      /\ ctrlq' = [ctrlq EXCEPT ![l] = Append(ctrlq[l], c)]
      /\ UNCHANGED <<fdt, backlog, lbEnd>>
  BY DEF LbHandOver
<1>2. ctrlq[l] \in Seq(Clients)
  BY QueueIndices
<1>3. /\ Len(ctrlq[l]) \in Nat /\ DOMAIN ctrlq[l] = 1..Len(ctrlq[l])
      /\ DOMAIN Append(ctrlq[l], c) = 1..(Len(ctrlq[l]) + 1)
      /\ Append(ctrlq[l], c)[Len(ctrlq[l]) + 1] = c
      /\ \A i \in 1..Len(ctrlq[l]) : Append(ctrlq[l], c)[i] = ctrlq[l][i]
  <2>1. /\ Append(ctrlq[l], c) \in Seq(Clients)
        /\ Len(Append(ctrlq[l], c)) = Len(ctrlq[l]) + 1
        /\ \A i \in 1..Len(ctrlq[l]) : Append(ctrlq[l], c)[i] = ctrlq[l][i]
        /\ Append(ctrlq[l], c)[Len(ctrlq[l]) + 1] = c
    BY <1>2, AppendProperties
  <2> QED BY <1>2, <2>1, LenProperties
<1>4. ctrlq'[l] = Append(ctrlq[l], c) /\ \A k \in Links \ {l} : ctrlq'[k] = ctrlq[k]
  BY <1>1 DEF IInv, TypeOK
<1>5. ASSUME NEW k \in Links, NEW i \in DOMAIN ctrlq'[k]
      PROVE  \/ k = l /\ i = Len(ctrlq[l]) + 1 /\ ctrlq'[k][i] = c
             \/ i \in DOMAIN ctrlq[k] /\ ctrlq'[k][i] = ctrlq[k][i]
  <2>1. CASE k = l
    <3>1. i \in 1..(Len(ctrlq[l]) + 1)
      BY <1>3, <1>4, <2>1
    <3>2. CASE i = Len(ctrlq[l]) + 1
      BY <1>3, <1>4, <2>1, <3>2
    <3>3. CASE i # Len(ctrlq[l]) + 1
      <4>1. i \in 1..Len(ctrlq[l])
        BY <1>3, <3>1, <3>3
      <4> QED BY <1>3, <1>4, <2>1, <4>1
    <3> QED BY <3>2, <3>3
  <2>2. CASE k # l
    BY <1>4, <2>2
  <2> QED BY <2>1, <2>2
<1>6. \A f \in Fds : fdt[f] # c
  BY <1>1 DEF OnePlace, Placed
<1>7. \A k \in Links : \A i \in DOMAIN ctrlq[k] : ctrlq[k][i] # c
  BY <1>1 DEF OnePlace, QueuedApart
<1>8. \A k \in Links : \A i \in DOMAIN ctrlq'[k] :
         ctrlq'[k][i] \in handed' /\ \A g \in Fds : fdt'[g] # ctrlq'[k][i]
  BY <1>1, <1>5, <1>6 DEF OnePlace, QueuedApart
<1>9. ASSUME NEW j \in Links, NEW k \in Links,
             NEW i \in DOMAIN ctrlq'[j], NEW h \in DOMAIN ctrlq'[k],
             ctrlq'[j][i] = ctrlq'[k][h]
      PROVE  j = k /\ i = h
  BY <1>5, <1>7, <1>9 DEF OnePlace, QueuedApart
<1>10. FilesOnce' /\ QueuedApart' /\ Placed'
  BY <1>1, <1>8, <1>9 DEF OnePlace, FilesOnce, QueuedApart, Placed
<1> QED BY <1>10 DEF OnePlace

LEMMA DrainDonePlaces ==
    ASSUME IInv, IInv', OnePlace, DrainDone
    PROVE  OnePlace'
<1>1. UNCHANGED <<fdt, backlog, lbEnd, handed>>
  BY DEF DrainDone
<1>2. CASE ctrlq' = ctrlq
  BY <1>1, <1>2, SameShrinks, ShrinkKeeps
<1>3. CASE Queued # <<>> /\ ctrlq' = [ctrlq EXCEPT ![fdt[cur]] = Tail(@)]
  <2>1. fdt[cur] \in Links /\ ctrlq[fdt[cur]] # <<>>
    BY <1>3 DEF Queued
  <2>2. Shrunk
    BY <1>3, <2>1, TailShrinks
  <2> QED BY <1>1, <2>2, ShrinkKeeps
<1> QED BY <1>2, <1>3 DEF DrainDone

\* The descriptor of a link is freed, and with it what is queued there.
LEMMA CtrlHangUpEffect ==
    ASSUME IInv, NEW e \in batch, CtrlHangUp(e)
    PROVE  /\ e.fd \in Fds /\ fdt[e.fd] \in Links /\ fdt[e.fd] = e.file /\ e.hup
           /\ fdt' = [fdt EXCEPT ![e.fd] = Free]
           /\ ctrlq' = [ctrlq EXCEPT ![fdt[e.fd]] = <<>>]
<1>1. e.fd \in Fds /\ fdt[e.fd] \in Links /\ fdt[e.fd] = e.file
  BY DEF CtrlHangUp, IsCtrlEvent, IInv, TypeOK, Event, TablesAgree, NoStaleEvent
<1> QED BY <1>1 DEF CtrlHangUp

LEMMA CtrlHangUpPlaces ==
    ASSUME IInv, IInv', OnePlace, NEW e \in batch, CtrlHangUp(e)
    PROVE  OnePlace'
<1> DEFINE f == e.fd
<1>1. /\ f \in Fds /\ fdt[f] \in Links
      /\ fdt' = [fdt EXCEPT ![f] = Free]
      /\ ctrlq' = [ctrlq EXCEPT ![fdt[f]] = <<>>]
  BY CtrlHangUpEffect
<1>2. UNCHANGED <<backlog, handed, lbEnd>>
  BY DEF CtrlHangUp
<1> HIDE DEF f
<1>3. ASSUME NEW k \in Links
      PROVE  \E d \in {0, 1} : \A i \in DOMAIN ctrlq'[k] :
                i + d \in DOMAIN ctrlq[k] /\ ctrlq'[k][i] = ctrlq[k][i + d]
  <2>1. CASE k = fdt[f]
    <3>1. DOMAIN ctrlq'[k] = {}
      BY <1>1, <2>1 DEF IInv, TypeOK
    <3> QED BY <3>1
  <2>2. CASE k # fdt[f]
    <3>1. ctrlq'[k] = ctrlq[k]
      BY <1>1, <2>2 DEF IInv, TypeOK
    <3>2. \A i \in DOMAIN ctrlq[k] : i + 0 = i
      BY QueueIndices
    <3> QED BY <3>1, <3>2
  <2> QED BY <2>1, <2>2
<1>4. Shrunk
  BY <1>3 DEF Shrunk
<1>5. \A g \in Fds : fdt'[g] = fdt[g] \/ fdt'[g] = Free
  BY <1>1 DEF IInv, TypeOK
<1> QED BY <1>2, <1>4, <1>5, ShrinkKeeps

LEMMA NextOnePlace == IInv /\ OnePlace /\ [Next]_vars => OnePlace'
<1> SUFFICES ASSUME IInv, OnePlace, [Next]_vars PROVE OnePlace'
  OBVIOUS
<1>0. IInv'
  BY NextIInv
<1>1. ASSUME UNCHANGED <<fdt, ctrlq, backlog, handed, lbEnd>> PROVE OnePlace'
  BY <1>0, <1>1, SameShrinks, ShrinkKeeps
<1>2. CASE EpollWait \/ BatchDone \/ AcceptDone \/ Incomplete \/ Answer
  BY <1>1, <1>2 DEF EpollWait, BatchDone, AcceptDone, Incomplete, Answer
<1>3. ASSUME NEW e \in batch, DispatchListen(e) \/ DispatchCtrl(e) \/ Read(e) PROVE OnePlace'
  BY <1>1, <1>3 DEF DispatchListen, DispatchCtrl, Read
<1>4. ASSUME NEW e \in batch, CtrlHangUp(e) PROVE OnePlace'
  BY <1>0, <1>4, CtrlHangUpPlaces
<1>5. ASSUME NEW f \in Fds, CloseClient(f), UNCHANGED <<ctrlq, backlog, handed, lbEnd>>
      PROVE  OnePlace'
  <2>1. \A g \in Fds : fdt'[g] = fdt[g] \/ fdt'[g] = Free
    BY <1>5 DEF CloseClient, IInv, TypeOK
  <2> QED BY <1>0, <1>5, <2>1, SameShrinks, ShrinkKeeps
<1>6. ASSUME NEW e \in batch, ClientHup(e) \/ ReadClose(e) PROVE OnePlace'
  <2>1. e.fd \in Fds
    BY <1>6, ClientEvent DEF ClientHup, ReadClose
  <2> QED BY <1>5, <1>6, <2>1 DEF ClientHup, ReadClose
<1>7. CASE SendFails \/ AnswerBad
  <2>1. cur \in Fds
    BY DEF IInv, TypeOK
  <2> QED BY <1>5, <1>7, <2>1 DEF SendFails, AnswerBad
<1>8. ASSUME NEW l \in backlog, AcceptOne(l) PROVE OnePlace'
  BY <1>0, <1>8, AcceptPlaces
<1>9. CASE DrainOne
  BY <1>0, <1>9, DrainOnePlaces
<1>10. CASE DrainDone
  BY <1>0, <1>10, DrainDonePlaces
<1>11. ASSUME NEW l \in Links, LbConnect(l) \/ LbExit(l) PROVE OnePlace'
  <2>1. UNCHANGED <<fdt, ctrlq, handed>>
    BY <1>11 DEF LbConnect, LbExit
  <2>2. FilesOnce' /\ QueuedApart'
    BY <2>1 DEF OnePlace, FilesOnce, QueuedApart
  <2>3. Placed'
    BY <1>11, <2>1 DEF OnePlace, Placed, LbConnect, LbExit, IInv, TypeOK
  <2> QED BY <2>2, <2>3 DEF OnePlace
<1>12. ASSUME NEW l \in Links, NEW c \in Clients, LbHandOver(l, c) PROVE OnePlace'
  BY <1>0, <1>12, HandOverPlaces
<1>13. ASSUME NEW c \in Clients, ClientSend(c) \/ ClientHangUp(c) PROVE OnePlace'
  BY <1>1, <1>13 DEF ClientSend, ClientHangUp
<1>14. CASE UNCHANGED vars
  BY <1>1, <1>14 DEF vars
<1>15. CASE Worker
  BY <1>15, <1>2, <1>3, <1>4, <1>6, <1>7, <1>8, <1>9, <1>10 DEF Worker
<1> QED BY <1>11, <1>12, <1>13, <1>14, <1>15 DEF Next, Environment

LEMMA InitOnePlace == Init => OnePlace
    BY WorkerAssumption DEF Init, OnePlace, FilesOnce, QueuedApart, Placed

---------------------------------------------------------------------------
(* Answers: what a client was answered, what its buffer holds and what the  *)
(* worker has read from it are three consecutive stretches of its stream.   *)

\* How many requests end within the first n units of client c.
Nth(c, n) == Cardinality({i \in 1..n : Stream[c][i].last})

\* Buffer b holds the last units of the first g ones of c, in order.
Bytes(c, b, g) ==
    Len(b) <= g /\ \A i \in DOMAIN b : b[i] = <<c, (g - Len(b)) + i>>

\* The answers o are for the requests within the first n units, of which the
\* last ends the last of them.
Replies(c, o, n) ==
    Len(o) = Nth(c, n) /\ IF o = <<>> THEN n = 0 ELSE o[Len(o)][2] = n

\* Nothing is read or answered before a client has a descriptor.
Fresh ==
    \A c \in Clients : InFlight(c) \/ c \notin handed => got[c] = 0 /\ out[c] = <<>>

Stretches ==
    \A f \in Fds : fdt[f] \in Clients =>
        /\ Bytes(fdt[f], conns[f].buf, got[fdt[f]])
        /\ Replies(fdt[f], out[fdt[f]], got[fdt[f]] - Len(conns[f].buf))

\* Only impatient clients hang up, links end only if the balancer may exit, and
\* an event says so only of a peer that did.
HangUps ==
    /\ fin \subseteq Impatient
    /\ \A l \in Links : lbEnd[l] = "closed" => LbMayExit
    /\ \A e \in batch : e.hup => HungUp(e.file)

Served == Fresh /\ Stretches /\ InOrderAnswers

LEMMA NthZero == ASSUME NEW c PROVE Nth(c, 0) = 0
<1>1. {i \in 1..0 : Stream[c][i].last} = {}
  OBVIOUS
<1> QED BY <1>1, FS_EmptySet DEF Nth

\* Up to the next end there is one request more.
LEMMA NthStep ==
    ASSUME NEW c, NEW p \in Nat, NEW n \in Nat \ {0},
           Stream[c][p + n].last,
           \A i \in 1..(n - 1) : ~ Stream[c][p + i].last
    PROVE  Nth(c, p + n) = Nth(c, p) + 1 /\ Nth(c, p) \in Nat
<1> DEFINE L(k) == {i \in 1..k : Stream[c][i].last}
<1>1. L(p + n) = L(p) \cup {p + n}
  <2>1. ASSUME NEW i \in L(p + n) PROVE i \in L(p) \cup {p + n}
    <3>1. i \in 1..(p + n) /\ Stream[c][i].last
      OBVIOUS
    <3>2. CASE i <= p
      BY <3>1, <3>2
    <3>3. CASE i > p /\ i # p + n
      <4>1. i - p \in 1..(n - 1) /\ p + (i - p) = i
        BY <3>1, <3>3
      <4> QED BY <3>1, <4>1
    <3> QED BY <3>1, <3>2, <3>3
  <2>2. L(p) \cup {p + n} \subseteq L(p + n)
    OBVIOUS
  <2> QED BY <2>1, <2>2
<1>2. p + n \notin L(p)
  OBVIOUS
<1>3. IsFiniteSet(L(p))
  <2>1. L(p) \in SUBSET (1..p)
    OBVIOUS
  <2>2. IsFiniteSet(1..p)
    BY FS_Interval
  <2> QED BY <2>1, <2>2, FS_Subset
<1>4. Cardinality(L(p)) \in Nat
  BY <1>3, FS_CardinalityType
<1> HIDE DEF L
<1>5. Cardinality(L(p) \cup {p + n}) = Cardinality(L(p)) + 1
  BY <1>2, <1>3, FS_AddElement
<1> QED BY <1>1, <1>4, <1>5 DEF Nth, L

LEMMA BytesEmpty == ASSUME NEW c, NEW g \in Nat PROVE Bytes(c, <<>>, g)
    BY DEF Bytes

\* What recv delivers continues what the buffer holds.
LEMMA BytesRead ==
    ASSUME NEW c \in Clients, NEW b \in Seq(Units), NEW room \in Nat,
           sent[c] \in Nat, got[c] \in Nat, got[c] <= sent[c],
           Bytes(c, b, got[c])
    PROVE  Bytes(c, b \o Received(c, room), got[c] + Len(Received(c, room)))
<1> DEFINE d == Received(c, room)
           g == got[c]
<1>1. d \in Seq(Units) /\ \A i \in DOMAIN d : d[i] = <<c, g + i>>
  BY ReceivedProperties DEF Received
<1>2. g \in Nat /\ Len(b) \in Nat /\ Len(b) <= g
  BY LenProperties DEF Bytes
<1>3. DOMAIN b = 1..Len(b) /\ \A i \in DOMAIN b : b[i] = <<c, (g - Len(b)) + i>>
  BY LenProperties DEF Bytes
<1> HIDE DEF d, g
<1>4. /\ b \o d \in Seq(Units) /\ Len(b \o d) = Len(b) + Len(d)
      /\ \A i \in 1..(Len(b) + Len(d)) :
            (b \o d)[i] = IF i <= Len(b) THEN b[i] ELSE d[i - Len(b)]
  BY <1>1, ConcatProperties
<1>5. /\ Len(d) \in Nat /\ DOMAIN d = 1..Len(d)
      /\ DOMAIN (b \o d) = 1..Len(b \o d)
  BY <1>1, <1>4, LenProperties
<1>6. ASSUME NEW i \in DOMAIN (b \o d)
      PROVE  (b \o d)[i] = <<c, ((g + Len(d)) - Len(b \o d)) + i>>
  <2>1. i \in 1..(Len(b) + Len(d)) /\ (g + Len(d)) - Len(b \o d) = g - Len(b)
    BY <1>2, <1>4, <1>5
  <2>2. CASE i <= Len(b)
    <3>1. (b \o d)[i] = b[i] /\ i \in DOMAIN b
      BY <1>2, <1>3, <1>4, <2>1, <2>2
    <3> QED BY <1>3, <2>1, <3>1
  <2>3. CASE i > Len(b)
    <3>1. (b \o d)[i] = d[i - Len(b)] /\ i - Len(b) \in DOMAIN d
      BY <1>2, <1>4, <1>5, <2>1, <2>3
    <3>2. g + (i - Len(b)) = (g - Len(b)) + i
      BY <1>2, <2>1
    <3> QED BY <1>1, <2>1, <3>1, <3>2
  <2> QED BY <1>2, <2>1, <2>2, <2>3
<1>7. Len(b \o d) <= g + Len(d)
  BY <1>2, <1>4, <1>5
<1> QED BY <1>6, <1>7 DEF Bytes, d, g

\* After the first n units are removed, the rest still ends where it did.
LEMMA BytesRest ==
    ASSUME NEW c \in Clients, NEW b \in Seq(Units), NEW n \in 1..Len(b),
           NEW g \in Nat, Bytes(c, b, g)
    PROVE  /\ Bytes(c, Rest(b, n), g)
           /\ g - Len(Rest(b, n)) = (g - Len(b)) + n
<1> DEFINE k == Len(b)
           r == Rest(b, n)
<1>1. k \in Nat /\ n \in 1..k /\ DOMAIN b = 1..k /\ k <= g
  BY LenProperties DEF Bytes
<1>2. \A i \in 1..k : b[i] \in Units /\ b[i] = <<c, (g - k) + i>>
  BY <1>1, ElementOfSeq DEF Bytes
<1> HIDE DEF k
<1>3. \A i \in (n + 1)..k : b[i] \in Units
  BY <1>1, <1>2
<1>4. /\ r \in Seq(Units)
      /\ Len(r) = IF n + 1 <= k THEN k - (n + 1) + 1 ELSE 0
      /\ \A i \in 1..(k - (n + 1) + 1) : r[i] = b[(n + 1) + i - 1]
  <2>1. n + 1 \in Int /\ k \in Int
    BY <1>1
  <2> QED BY <1>3, <2>1, SubSeqProperties DEF Rest, k
<1> HIDE DEF r
<1>5. Len(r) = k - n /\ DOMAIN r = 1..(k - n)
  <2>1. Len(r) = k - n
    BY <1>1, <1>4
  <2> QED BY <1>4, <2>1, LenProperties
<1>6. ASSUME NEW i \in DOMAIN r PROVE r[i] = <<c, (g - Len(r)) + i>>
  <2>1. i \in 1..(k - (n + 1) + 1) /\ (n + 1) + i - 1 = n + i /\ n + i \in 1..k
    BY <1>1, <1>5
  <2>2. r[i] = b[n + i]
    BY <1>4, <2>1
  <2>3. b[n + i] = <<c, (g - k) + (n + i)>>
    BY <1>2, <2>1
  <2>4. (g - k) + (n + i) = (g - Len(r)) + i
    BY <1>1, <1>5, <2>1
  <2> QED BY <2>2, <2>3, <2>4
<1>7. Len(r) <= g /\ g - Len(r) = (g - k) + n
  BY <1>1, <1>5
<1> QED BY <1>6, <1>7 DEF Bytes, k, r

\* While a request of a buffer is answered: whose it is, where it ends in the
\* buffer, and how many units of the client were served before.
Who  == fdt[cur]
Due  == FirstEnd(Buf)
Past == got[fdt[cur]] - Len(Buf)

\* The answer about to be sent is the next one due.
LEMMA NextAnswer ==
    ASSUME IInv, Stretches, pc = "serve", Ends(Buf) # {}
    PROVE  /\ Who \in Clients /\ Due \in 1..Len(Buf) /\ Past \in Nat
           /\ Bytes(Who, Buf, got[Who]) /\ got[Who] \in Nat
           /\ Buf[Due] = <<Who, Past + Due>>
           /\ Stream[Who][Past + Due].last
           /\ \A i \in 1..(Due - 1) : ~ Stream[Who][Past + i].last
           /\ Len(out[Who]) = Nth(Who, Past)
           /\ Nth(Who, Past + Due) = Nth(Who, Past) + 1 /\ Nth(Who, Past) \in Nat
           /\ Past + Due <= Len(Stream[Who])
<1> DEFINE c == Who
           n == Due
           p == Past
<1>1. c \in Clients /\ cur \in Fds /\ Buf \in Seq(Units)
  BY ServedClient DEF Who
<1>2. n \in Ends(Buf) /\ n \in 1..Len(Buf)
  BY <1>1, FirstEndProperties DEF Due
<1>3. Bytes(c, Buf, got[c]) /\ Len(out[c]) = Nth(c, p)
  BY <1>1 DEF Stretches, Replies, Buf, Who, Past
<1>4. Len(Buf) \in Nat /\ DOMAIN Buf = 1..Len(Buf) /\ got[c] \in Nat
  BY <1>1, LenProperties DEF IInv, TypeOK
<1>5. p \in Nat /\ \A i \in 1..Len(Buf) : Buf[i] = <<c, p + i>>
  BY <1>3, <1>4 DEF Bytes, Past, Who
<1>6. \A i \in 1..Len(Buf) : UnitOf(Buf[i]) = Stream[c][p + i]
  BY <1>5 DEF UnitOf
<1>7. Stream[c][p + n].last
  BY <1>2, <1>6 DEF Ends
<1>8. ASSUME NEW i \in 1..(n - 1) PROVE ~ Stream[c][p + i].last
  <2>1. i \in 1..Len(Buf) /\ ~ (n <= i)
    BY <1>2, <1>4
  <2>2. \A j \in Ends(Buf) : n <= j
    <3>1. Ends(Buf) \in SUBSET Nat
      BY <1>4 DEF Ends
    <3>2. \E j \in Ends(Buf) : \A h \in Ends(Buf) : j <= h
      BY <3>1, SmallestNat
    <3> QED BY <3>2 DEF FirstEnd, Due
  <2>3. i \notin Ends(Buf)
    BY <2>1, <2>2
  <2> QED BY <1>4, <1>6, <2>1, <2>3 DEF Ends
<1>9. Nth(c, p + n) = Nth(c, p) + 1 /\ Nth(c, p) \in Nat
  <2>1. n \in Nat \ {0}
    BY <1>2, <1>4
  <2> QED BY <1>5, <1>7, <1>8, <2>1, NthStep
<1>10. p + n <= Len(Stream[c])
  <2>1. got[c] <= sent[c] /\ sent[c] <= Len(Stream[c]) /\ sent[c] \in Nat
    BY <1>1 DEF IInv, Progress, TypeOK
  <2>2. Len(Stream[c]) \in Nat
    BY <1>1, WorkerAssumption, LenProperties
  <2>3. p + n <= got[c]
    BY <1>2, <1>4 DEF Past, Who
  <2> QED BY <1>2, <1>4, <1>5, <2>1, <2>2, <2>3
<1> QED BY <1>1, <1>2, <1>3, <1>4, <1>5, <1>7, <1>8, <1>9, <1>10

\* InOrderAnswers, of one client and one sequence of answers.
InOrder(c, o) ==
    \A k \in DOMAIN o : o[k][1] = c /\ UnitOf(o[k]).last /\ Nth(c, o[k][2]) = k

LEMMA InOrderIs == InOrderAnswers <=> \A c \in Clients : InOrder(c, out[c])
    BY DEF InOrderAnswers, InOrder, Nth

\* Sending it keeps the answers in order and due.
LEMMA SendExtends ==
    ASSUME IInv, Served, pc = "serve", Ends(Buf) # {}, Send(cur, Buf[Due])
    PROVE  /\ out' = [out EXCEPT ![Who] = Append(out[Who], <<Who, Past + Due>>)]
           /\ Replies(Who, out'[Who], Past + Due)
           /\ InOrder(Who, out'[Who])
<1> DEFINE c == Who
           n == Due
           p == Past
<1>1. /\ c \in Clients /\ n \in 1..Len(Buf) /\ p \in Nat
      /\ Buf[n] = <<c, p + n>> /\ Stream[c][p + n].last
      /\ Len(out[c]) = Nth(c, p)
      /\ Nth(c, p + n) = Nth(c, p) + 1 /\ Nth(c, p) \in Nat
  BY NextAnswer DEF Served
<1>2. out' = [out EXCEPT ![c] = Append(out[c], <<c, p + n>>)]
  BY <1>1 DEF Send, Who
<1> DEFINE o == out[c]
           u == <<c, p + n>>
<1>3. o \in Seq(Units) /\ u \in Units
  <2>1. n \in Nat \ {0}
    <3>1. Len(Buf) \in Nat
      BY ServedClient, LenProperties
    <3> QED BY <1>1, <3>1
  <2> QED BY <1>1, <2>1 DEF IInv, TypeOK, Units
<1>4. out'[c] = Append(o, u)
  BY <1>1, <1>2 DEF IInv, TypeOK
<1>5. InOrder(c, o)
  BY <1>1, InOrderIs DEF Served
<1>6. u[1] = c /\ u[2] = p + n /\ UnitOf(u).last
  BY <1>1 DEF UnitOf
<1> HIDE DEF o, u
<1>7. /\ Append(o, u) \in Seq(Units)
      /\ Len(Append(o, u)) = Len(o) + 1
      /\ \A i \in 1..Len(o) : Append(o, u)[i] = o[i]
      /\ Append(o, u)[Len(o) + 1] = u
  BY <1>3, AppendProperties
<1>8. /\ Len(o) \in Nat /\ DOMAIN o = 1..Len(o)
      /\ DOMAIN Append(o, u) = 1..(Len(o) + 1)
  BY <1>3, <1>7, LenProperties
<1>9. Len(o) = Nth(c, p)
  BY <1>1 DEF o
<1>10. InOrder(c, Append(o, u))
  <2> SUFFICES ASSUME NEW k \in 1..(Len(o) + 1)
               PROVE  /\ Append(o, u)[k][1] = c
                      /\ UnitOf(Append(o, u)[k]).last
                      /\ Nth(c, Append(o, u)[k][2]) = k
    BY <1>8 DEF InOrder
  <2>1. CASE k = Len(o) + 1
    <3>1. Append(o, u)[k] = u
      BY <1>7, <2>1
    <3>2. Nth(c, u[2]) = k
      BY <1>1, <1>6, <1>9, <2>1
    <3> QED BY <1>6, <3>1, <3>2
  <2>2. CASE k # Len(o) + 1
    <3>1. k \in 1..Len(o)
      BY <1>8, <2>2
    <3>2. Append(o, u)[k] = o[k] /\ k \in DOMAIN o
      BY <1>7, <1>8, <3>1
    <3> QED BY <1>5, <3>2 DEF InOrder
  <2> QED BY <2>1, <2>2
<1>11. Replies(c, Append(o, u), p + n)
  <2>1. Len(Append(o, u)) = Nth(c, p + n)
    BY <1>1, <1>7, <1>9
  <2>2. Append(o, u) # <<>>
    BY <1>3, AppendProperties
  <2>3. Append(o, u)[Len(Append(o, u))][2] = p + n
    BY <1>6, <1>7
  <2> QED BY <2>1, <2>2, <2>3 DEF Replies
<1> QED BY <1>2, <1>4, <1>10, <1>11

\* A step that reads and answers nothing, and under whose descriptors no client
\* appears that had none.
LEMMA ServedFrame ==
    ASSUME IInv, IInv', Served, UNCHANGED <<got, out>>,
           \A f \in Fds : fdt'[f] \in Clients => fdt'[f] = fdt[f] /\ conns'[f] = conns[f],
           \A c \in Clients : InFlight(c)' \/ c \notin handed' => InFlight(c) \/ c \notin handed
    PROVE  Served'
<1>1. Fresh'
  BY DEF Served, Fresh
<1>2. Stretches'
  <2> SUFFICES ASSUME NEW f \in Fds, fdt'[f] \in Clients
               PROVE  /\ Bytes(fdt'[f], conns'[f].buf, got'[fdt'[f]])
                      /\ Replies(fdt'[f], out'[fdt'[f]], got'[fdt'[f]] - Len(conns'[f].buf))
    BY DEF Stretches
  <2>1. fdt'[f] = fdt[f] /\ conns'[f] = conns[f] /\ fdt[f] \in Clients /\ got' = got /\ out' = out
    OBVIOUS
  <2>2. /\ Bytes(fdt[f], conns[f].buf, got[fdt[f]])
        /\ Replies(fdt[f], out[fdt[f]], got[fdt[f]] - Len(conns[f].buf))
    BY <2>1 DEF Served, Stretches
  <2> QED BY <2>1, <2>2
<1>3. InOrderAnswers'
  BY DEF Served, InOrderAnswers, UnitOf
<1> QED BY <1>1, <1>2, <1>3 DEF Served

\* A step that serves one client: the others keep what they have.
LEMMA ServedOne ==
    ASSUME IInv, IInv', OnePlace, Served, NEW f \in Fds, fdt[f] \in Clients,
           NEW c, c = fdt[f],
           UNCHANGED <<ctrlq, handed>>,
           \A d \in Clients \ {c} : got'[d] = got[d] /\ out'[d] = out[d],
           \A g \in Fds \ {f} : fdt'[g] = fdt[g] /\ conns'[g] = conns[g],
           fdt'[f] \in Clients =>
               /\ fdt'[f] = c
               /\ Bytes(c, conns'[f].buf, got'[c])
               /\ Replies(c, out'[c], got'[c] - Len(conns'[f].buf)),
           InOrder(c, out'[c])
    PROVE  Served'
<1>1. \A d \in Clients : InFlight(d)' <=> InFlight(d)
  BY DEF InFlight
<1>2. ~ InFlight(c) /\ c \in handed
  BY DEF OnePlace, QueuedApart, Placed, InFlight
<1>3. Fresh'
  BY <1>1, <1>2 DEF Served, Fresh
<1>4. Stretches'
  <2> SUFFICES ASSUME NEW g \in Fds, fdt'[g] \in Clients
               PROVE  /\ Bytes(fdt'[g], conns'[g].buf, got'[fdt'[g]])
                      /\ Replies(fdt'[g], out'[fdt'[g]], got'[fdt'[g]] - Len(conns'[g].buf))
    BY DEF Stretches, Bytes, Replies, Nth
  <2>1. CASE g = f
    BY <2>1
  <2>2. CASE g # f
    <3>1. fdt'[g] = fdt[g] /\ conns'[g] = conns[g] /\ fdt[g] # c
      BY <2>2, WorkerAssumption DEF OnePlace, FilesOnce
    <3>2. got'[fdt[g]] = got[fdt[g]] /\ out'[fdt[g]] = out[fdt[g]]
      BY <3>1
    <3> QED BY <3>1, <3>2 DEF Served, Stretches
  <2> QED BY <2>1, <2>2
<1>5. InOrderAnswers'
  <2>1. \A d \in Clients : InOrder(d, out'[d])
    BY InOrderIs DEF Served
  <2> QED BY <2>1 DEF InOrderAnswers, InOrder, Nth, UnitOf
<1> QED BY <1>3, <1>4, <1>5 DEF Served

LEMMA DrainOneServed ==
    ASSUME IInv, IInv', OnePlace, Served, DrainOne
    PROVE  Served'
<1> DEFINE f == LowestFd
           c == ctrlq[fdt[cur]][1]
<1>1. /\ f \in Fds /\ fdt[f] = Free /\ fdt[cur] \in Links
      /\ c \in Clients /\ InFlight(c) /\ ctrlq[fdt[cur]] # <<>>
      /\ ctrlq' = [ctrlq EXCEPT ![fdt[cur]] = Tail(ctrlq[fdt[cur]])]
      /\ fdt' = [fdt EXCEPT ![f] = c]
  BY DrainOneEffect DEF InFlight
<1>2. /\ conns' = [conns EXCEPT ![f] = [some |-> TRUE, buf |-> <<>>]]
      /\ UNCHANGED <<got, out, handed>>
  BY DEF DrainOne, Conn
<1> HIDE DEF f, c
<1>3. /\ fdt'[f] = c /\ conns'[f].buf = <<>>
      /\ \A g \in Fds \ {f} : fdt'[g] = fdt[g] /\ conns'[g] = conns[g]
  BY <1>1, <1>2 DEF IInv, TypeOK
<1>4. Shrunk
  BY <1>1, TailShrinks
<1>5. ASSUME NEW d \in Clients, InFlight(d)' PROVE InFlight(d)
  BY <1>4, <1>5 DEF InFlight, Shrunk
<1>6. Fresh'
  BY <1>2, <1>5 DEF Served, Fresh
<1>7. got[c] = 0 /\ out[c] = <<>>
  BY <1>1 DEF Served, Fresh
<1>8. Bytes(c, <<>>, got[c]) /\ Replies(c, out[c], got[c] - Len(<<>>))
  <2>1. Len(<<>>) = 0
    OBVIOUS
  <2>2. Nth(c, 0) = 0
    BY NthZero
  <2>3. Bytes(c, <<>>, got[c])
    BY <1>7, BytesEmpty
  <2>4. got[c] - Len(<<>>) = 0
    <3>1. 0 - 0 = 0
      OBVIOUS
    <3> QED BY <1>7, <2>1, <3>1, Zenon
  <2> QED BY <1>7, <2>1, <2>2, <2>3, <2>4 DEF Replies
<1>9. Stretches'
  <2> SUFFICES ASSUME NEW g \in Fds, fdt'[g] \in Clients
               PROVE  /\ Bytes(fdt'[g], conns'[g].buf, got[fdt'[g]])
                      /\ Replies(fdt'[g], out[fdt'[g]], got[fdt'[g]] - Len(conns'[g].buf))
    BY <1>2 DEF Stretches, Bytes, Replies, Nth
  <2>1. CASE g = f
    BY <1>3, <1>8, <2>1
  <2>2. CASE g # f
    BY <1>3, <2>2 DEF Served, Stretches
  <2> QED BY <2>1, <2>2
<1>10. InOrderAnswers'
  <2>1. out' = out
    BY <1>2
  <2> QED BY <2>1 DEF Served, InOrderAnswers, UnitOf
<1> QED BY <1>6, <1>9, <1>10 DEF Served

LEMMA ReadServed ==
    ASSUME IInv, IInv', OnePlace, Served, NEW e \in batch, Read(e)
    PROVE  Served'
<1> DEFINE f == e.fd
           c == fdt[e.fd]
           b == conns[f].buf
           data == Received(c, Room(f))
<1>1. f \in Fds /\ c \in Clients /\ b \in Seq(Units)
  BY ClientEvent DEF Read, IInv, TypeOK
<1>2. Room(f) \in Nat /\ Room(f) = BufCap - Len(b)
  <2>1. Len(b) \in Nat /\ Len(b) <= BufCap
    BY <1>1, LenProperties DEF IInv, TypeOK
  <2> QED BY <2>1, WorkerAssumption DEF Room
<1>3. /\ conns' = [conns EXCEPT ![f] = [some |-> TRUE, buf |-> b \o data]]
      /\ got' = [got EXCEPT ![c] = got[c] + Len(data)]
      /\ UNCHANGED <<fdt, ctrlq, handed, out>>
  BY DEF Read, Conn
<1>4. Bytes(c, b, got[c]) /\ Replies(c, out[c], got[c] - Len(b))
  BY <1>1 DEF Served, Stretches
<1>5. sent[c] \in Nat /\ got[c] \in Nat /\ got[c] <= sent[c]
  BY <1>1 DEF IInv, TypeOK, Progress
<1>6. Bytes(c, b \o data, got[c] + Len(data))
  BY <1>1, <1>2, <1>4, <1>5, BytesRead
<1>7. (got[c] + Len(data)) - Len(b \o data) = got[c] - Len(b)
  <2>1. data \in Seq(Units)
    BY <1>1, <1>2, <1>5, ReceivedProperties
  <2>2. Len(b \o data) = Len(b) + Len(data)
    BY <1>1, <2>1, ConcatProperties
  <2>3. Len(b) \in Nat /\ Len(data) \in Nat /\ got[c] \in Nat
    BY <1>1, <1>5, <2>1, LenProperties
  <2> HIDE DEF c, b, data
  <2> QED BY <2>2, <2>3
<1> HIDE DEF f, c, b, data
<1>8. /\ conns'[f].buf = b \o data /\ got'[c] = got[c] + Len(data) /\ fdt'[f] = c
      /\ \A g \in Fds \ {f} : fdt'[g] = fdt[g] /\ conns'[g] = conns[g]
      /\ \A d \in Clients \ {c} : got'[d] = got[d] /\ out'[d] = out[d]
  BY <1>1, <1>3 DEF IInv, TypeOK, c, f
<1>9. InOrder(c, out'[c])
  BY <1>1, <1>3, InOrderIs DEF Served
<1>10. Bytes(c, conns'[f].buf, got'[c]) /\ Replies(c, out'[c], got'[c] - Len(conns'[f].buf))
  BY <1>3, <1>4, <1>6, <1>7, <1>8
<1>11. fdt[f] = c
  BY DEF c, f
<1> QED BY <1>1, <1>3, <1>8, <1>9, <1>10, <1>11, ServedOne

LEMMA AnswerServed ==
    ASSUME IInv, IInv', OnePlace, Served, Answer \/ AnswerBad
    PROVE  Served'
<1> DEFINE c == Who
           n == Due
           p == Past
<1>1. pc = "serve" /\ Ends(Buf) # {} /\ Send(cur, Buf[n]) /\ UNCHANGED <<got, ctrlq, handed>>
  BY DEF Answer, AnswerBad, Due
<1>2. /\ out' = [out EXCEPT ![c] = Append(out[c], <<c, p + n>>)]
      /\ Replies(c, out'[c], p + n) /\ InOrder(c, out'[c])
  BY <1>1, SendExtends
<1>3. c \in Clients /\ n \in 1..Len(Buf) /\ Bytes(c, Buf, got[c]) /\ got[c] \in Nat
  BY <1>1, NextAnswer DEF Served
<1>4. cur \in Fds /\ Buf \in Seq(Units)
  BY <1>1, ServedClient
<1>5. Bytes(c, Rest(Buf, n), got[c]) /\ got[c] - Len(Rest(Buf, n)) = p + n
  <2>1. p = got[c] - Len(Buf)
    BY DEF Past, Who
  <2> QED BY <1>3, <1>4, <2>1, BytesRest
<1>6. \/ fdt' = fdt /\ conns' = [conns EXCEPT ![cur] = [some |-> TRUE, buf |-> Rest(Buf, n)]]
      \/ fdt' = [fdt EXCEPT ![cur] = Free] /\ conns' = [conns EXCEPT ![cur] = NoConn]
  BY DEF Answer, AnswerBad, Conn, CloseClient, Due
<1>7. /\ \A g \in Fds \ {cur} : fdt'[g] = fdt[g] /\ conns'[g] = conns[g]
      /\ fdt'[cur] \in Clients => fdt'[cur] = c /\ conns'[cur].buf = Rest(Buf, n)
  BY <1>4, <1>6, WorkerAssumption DEF IInv, TypeOK, Who
<1> HIDE DEF n, p
<1>8. \A d \in Clients \ {c} : got'[d] = got[d] /\ out'[d] = out[d]
  BY <1>1, <1>2, <1>3 DEF IInv, TypeOK
<1>9. fdt'[cur] \in Clients =>
         /\ fdt'[cur] = c
         /\ Bytes(c, conns'[cur].buf, got'[c])
         /\ Replies(c, out'[c], got'[c] - Len(conns'[cur].buf))
  BY <1>1, <1>2, <1>5, <1>7
<1> HIDE DEF c
<1>10. c = fdt[cur] /\ fdt[cur] \in Clients
  BY <1>3 DEF c, Who
<1> QED BY <1>1, <1>2, <1>4, <1>7, <1>8, <1>9, <1>10, ServedOne

LEMMA ShrunkFlight ==
    ASSUME Shrunk, NEW c \in Clients, InFlight(c)'
    PROVE  InFlight(c)
    BY DEF Shrunk, InFlight

LEMMA NextServed == IInv /\ OnePlace /\ Served /\ [Next]_vars => Served'
<1> SUFFICES ASSUME IInv, OnePlace, Served, [Next]_vars PROVE Served'
  OBVIOUS
<1>0. IInv'
  BY NextIInv
<1>1. ASSUME UNCHANGED <<fdt, conns, ctrlq, handed, got, out>> PROVE Served'
  <2>1. \A c \in Clients : InFlight(c)' <=> InFlight(c)
    BY <1>1 DEF InFlight
  <2> QED BY <1>0, <1>1, <2>1, ServedFrame
<1>2. CASE EpollWait \/ BatchDone \/ AcceptDone \/ Incomplete
  BY <1>1, <1>2 DEF EpollWait, BatchDone, AcceptDone, Incomplete
<1>3. ASSUME NEW e \in batch, DispatchListen(e) \/ DispatchCtrl(e) PROVE Served'
  BY <1>1, <1>3 DEF DispatchListen, DispatchCtrl
<1>4. ASSUME NEW e \in batch, CtrlHangUp(e) PROVE Served'
  <2>1. /\ e.fd \in Fds /\ fdt[e.fd] \in Links
        /\ fdt' = [fdt EXCEPT ![e.fd] = Free]
        /\ ctrlq' = [ctrlq EXCEPT ![fdt[e.fd]] = <<>>]
    BY <1>4, CtrlHangUpEffect
  <2>2. UNCHANGED <<conns, handed, got, out>>
    BY <1>4 DEF CtrlHangUp
  <2>3. \A f \in Fds : fdt'[f] \in Clients => fdt'[f] = fdt[f]
    BY <2>1, WorkerAssumption DEF IInv, TypeOK
  <2>4. \A c \in Clients : InFlight(c)' => InFlight(c)
    <3>1. /\ \A l \in Links \ {fdt[e.fd]} : ctrlq'[l] = ctrlq[l]
          /\ DOMAIN ctrlq'[fdt[e.fd]] = {}
      BY <2>1 DEF IInv, TypeOK
    <3> QED BY <2>1, <3>1 DEF InFlight
  <2> QED BY <1>0, <2>2, <2>3, <2>4, ServedFrame
<1>5. ASSUME NEW f \in Fds, CloseClient(f), UNCHANGED <<ctrlq, handed, got, out>>
      PROVE  Served'
  <2>1. \A g \in Fds : fdt'[g] \in Clients => fdt'[g] = fdt[g] /\ conns'[g] = conns[g]
    BY <1>5, WorkerAssumption DEF CloseClient, IInv, TypeOK
  <2>2. \A c \in Clients : InFlight(c)' <=> InFlight(c)
    BY <1>5 DEF InFlight
  <2> QED BY <1>0, <1>5, <2>1, <2>2, ServedFrame
<1>6. ASSUME NEW e \in batch, ClientHup(e) \/ ReadClose(e) PROVE Served'
  <2>1. e.fd \in Fds
    BY <1>6, ClientEvent DEF ClientHup, ReadClose
  <2> QED BY <1>5, <1>6, <2>1 DEF ClientHup, ReadClose
<1>7. ASSUME NEW e \in batch, Read(e) PROVE Served'
  BY <1>0, <1>7, ReadServed
<1>8. ASSUME NEW l \in backlog, AcceptOne(l) PROVE Served'
  <2>1. LowestFd \in Fds
    BY <1>8, LowestFdIsFree DEF AcceptOne
  <2>2. /\ l \notin Clients /\ fdt' = [fdt EXCEPT ![LowestFd] = l]
        /\ UNCHANGED <<conns, ctrlq, handed, got, out>>
    BY <1>8, WorkerAssumption DEF AcceptOne, IInv, TypeOK
  <2>3. \A f \in Fds : fdt'[f] \in Clients => fdt'[f] = fdt[f]
    BY <2>1, <2>2 DEF IInv, TypeOK
  <2>4. \A c \in Clients : InFlight(c)' <=> InFlight(c)
    BY <2>2 DEF InFlight
  <2> QED BY <1>0, <2>2, <2>3, <2>4, ServedFrame
<1>9. CASE DrainOne
  BY <1>0, <1>9, DrainOneServed
<1>10. CASE DrainDone
  <2>1. UNCHANGED <<fdt, conns, handed, got, out>>
    BY <1>10 DEF DrainDone
  <2>2. Shrunk
    <3>1. CASE ctrlq' = ctrlq
      BY <3>1, SameShrinks
    <3>2. CASE Queued # <<>> /\ ctrlq' = [ctrlq EXCEPT ![fdt[cur]] = Tail(@)]
      <4>1. fdt[cur] \in Links /\ ctrlq[fdt[cur]] # <<>>
        BY <3>2 DEF Queued
      <4> QED BY <3>2, <4>1, TailShrinks
    <3> QED BY <1>10, <3>1, <3>2 DEF DrainDone
  <2>3. \A c \in Clients : InFlight(c)' => InFlight(c)
    BY <2>2, ShrunkFlight
  <2> QED BY <1>0, <2>1, <2>3, ServedFrame
<1>11. CASE Answer \/ AnswerBad
  BY <1>0, <1>11, AnswerServed
<1>12. CASE SendFails
  <2>1. cur \in Fds
    BY DEF IInv, TypeOK
  <2> QED BY <1>5, <1>12, <2>1 DEF SendFails
<1>13. ASSUME NEW l \in Links, LbConnect(l) \/ LbExit(l) PROVE Served'
  BY <1>1, <1>13 DEF LbConnect, LbExit
<1>14. ASSUME NEW l \in Links, NEW c \in Clients, LbHandOver(l, c) PROVE Served'
  <2>1. /\ c \notin handed /\ handed' = handed \cup {c}
        /\ ctrlq' = [ctrlq EXCEPT ![l] = Append(ctrlq[l], c)]
        /\ UNCHANGED <<fdt, conns, got, out>>
    BY <1>14 DEF LbHandOver
  <2>2. ASSUME NEW d \in Clients, InFlight(d)' PROVE InFlight(d) \/ d \notin handed
    <3>1. PICK k \in Links : \E i \in DOMAIN ctrlq'[k] : ctrlq'[k][i] = d
      BY <2>2 DEF InFlight
    <3>2. CASE k # l
      <4>1. ctrlq'[k] = ctrlq[k]
        BY <2>1, <3>2 DEF IInv, TypeOK
      <4> QED BY <3>1, <4>1 DEF InFlight
    <3>3. CASE k = l
      <4>1. ctrlq[l] \in Seq(Clients) /\ ctrlq'[l] = Append(ctrlq[l], c)
        BY <2>1 DEF IInv, TypeOK
      <4>2. /\ Append(ctrlq[l], c) \in Seq(Clients)
            /\ Len(Append(ctrlq[l], c)) = Len(ctrlq[l]) + 1
            /\ \A i \in 1..Len(ctrlq[l]) : Append(ctrlq[l], c)[i] = ctrlq[l][i]
            /\ Append(ctrlq[l], c)[Len(ctrlq[l]) + 1] = c
        BY <4>1, AppendProperties
      <4>3. /\ DOMAIN Append(ctrlq[l], c) = 1..(Len(ctrlq[l]) + 1)
            /\ DOMAIN ctrlq[l] = 1..Len(ctrlq[l]) /\ Len(ctrlq[l]) \in Nat
        BY <4>1, <4>2, LenProperties
      <4>4. PICK i \in 1..(Len(ctrlq[l]) + 1) : Append(ctrlq[l], c)[i] = d
        BY <3>1, <3>3, <4>1, <4>3
      <4>5. CASE i = Len(ctrlq[l]) + 1
        BY <2>1, <4>2, <4>4, <4>5
      <4>6. CASE i # Len(ctrlq[l]) + 1
        <5>1. i \in 1..Len(ctrlq[l])
          BY <4>3, <4>6
        <5> QED BY <4>2, <4>3, <4>4, <5>1 DEF InFlight
      <4> QED BY <4>5, <4>6
    <3> QED BY <3>2, <3>3
  <2> QED BY <1>0, <2>1, <2>2, ServedFrame
<1>15. ASSUME NEW c \in Clients, ClientSend(c) \/ ClientHangUp(c) PROVE Served'
  BY <1>1, <1>15 DEF ClientSend, ClientHangUp
<1>16. CASE UNCHANGED vars
  BY <1>1, <1>16 DEF vars
<1>17. CASE Worker
  BY <1>17, <1>2, <1>3, <1>4, <1>6, <1>7, <1>8, <1>9, <1>10, <1>11, <1>12 DEF Worker
<1> QED BY <1>13, <1>14, <1>15, <1>16, <1>17 DEF Next, Environment

LEMMA InitServed == Init => Served
    BY WorkerAssumption DEF Init, Served, Fresh, Stretches, InOrderAnswers

\* The k-th answer on a client's socket answers its k-th request, whatever the
\* cuts, the hang-ups and the reuse of descriptors.
THEOREM AnswersInOrder == Spec => []InOrderAnswers
<1>1. Served => InOrderAnswers
  BY DEF Served
<1> QED BY <1>1, InitOnePlace, NextOnePlace, InitServed, NextServed, InductiveInvariant, PTL DEF Spec

---------------------------------------------------------------------------
(* Connections that are closed, and sockets that are handed over.          *)

LEMMA HungUpStays ==
    ASSUME IInv, [Next]_vars, NEW x, HungUp(x), x # ListenFd
    PROVE  HungUp(x)'
<1>1. fin \subseteq fin'
  BY DEF Next, Worker, Environment, vars, EpollWait, BatchDone, DispatchListen, CtrlHangUp,
         DispatchCtrl, ClientHup, ReadClose, Read, AcceptOne, AcceptDone, DrainOne, DrainDone,
         Incomplete, Answer, SendFails, AnswerBad, LbConnect, LbExit, LbHandOver,
         ClientSend, ClientHangUp
<1>2. \A l \in Links : lbEnd[l] = "closed" => lbEnd'[l] = "closed"
  BY DEF Next, Worker, Environment, vars, EpollWait, BatchDone, DispatchListen, CtrlHangUp,
         DispatchCtrl, ClientHup, ReadClose, Read, AcceptOne, AcceptDone, DrainOne, DrainDone,
         Incomplete, Answer, SendFails, AnswerBad, LbConnect, LbExit, LbHandOver,
         ClientSend, ClientHangUp, IInv, TypeOK
<1> QED BY <1>1, <1>2 DEF HungUp

LEMMA NextHangUps == IInv /\ HangUps /\ [Next]_vars => HangUps'
<1> SUFFICES ASSUME IInv, HangUps, [Next]_vars PROVE HangUps'
  OBVIOUS
<1>1. fin' = fin \/ \E c \in Clients : c \in Impatient /\ fin' = fin \cup {c}
  BY DEF Next, Worker, Environment, vars, EpollWait, BatchDone, DispatchListen, CtrlHangUp,
         DispatchCtrl, ClientHup, ReadClose, Read, AcceptOne, AcceptDone, DrainOne, DrainDone,
         Incomplete, Answer, SendFails, AnswerBad, LbConnect, LbExit, LbHandOver,
         ClientSend, ClientHangUp
<1>2. fin' \subseteq Impatient
  BY <1>1 DEF HangUps
<1>3. \/ lbEnd' = lbEnd
      \/ \E l \in Links : lbEnd' = [lbEnd EXCEPT ![l] = "open"]
      \/ LbMayExit
  BY DEF Next, Worker, Environment, vars, EpollWait, BatchDone, DispatchListen, CtrlHangUp,
         DispatchCtrl, ClientHup, ReadClose, Read, AcceptOne, AcceptDone, DrainOne, DrainDone,
         Incomplete, Answer, SendFails, AnswerBad, LbConnect, LbExit, LbHandOver,
         ClientSend, ClientHangUp
<1>4. \A l \in Links : lbEnd'[l] = "closed" => LbMayExit
  BY <1>3 DEF HangUps, IInv, TypeOK
<1>5. batch' \subseteq batch \/ EpollWait
  BY DEF Next, Worker, Environment, vars, BatchDone, DispatchListen, CtrlHangUp,
         DispatchCtrl, ClientHup, ReadClose, Read, AcceptOne, AcceptDone, DrainOne, DrainDone,
         Incomplete, Answer, SendFails, AnswerBad, LbConnect, LbExit, LbHandOver,
         ClientSend, ClientHangUp, Take
<1>6. \A e \in batch' : e.hup => HungUp(e.file) /\ e.file # ListenFd
  <2>1. CASE batch' \subseteq batch
    <3>1. ASSUME NEW e \in batch, e.hup PROVE HungUp(e.file) /\ e.file # ListenFd
      <4>1. HungUp(e.file) /\ ListenFd \notin Links /\ ListenFd \notin Clients
        BY <3>1, WorkerAssumption DEF HangUps
      <4>2. ListenFd \notin fin
        BY <4>1 DEF IInv, TypeOK
      <4> QED BY <4>1, <4>2 DEF HungUp
    <3> QED BY <2>1, <3>1
  <2>2. CASE EpollWait
    <3>1. batch' \subseteq ReadyEvents
      BY <2>2 DEF EpollWait
    <3>2. ListenEvent.hup = FALSE
      BY DEF ListenEvent
    <3>3. \A f \in interest : /\ EventOf(f).hup = HungUp(fdt[f]) /\ EventOf(f).file = fdt[f]
                              /\ fdt[f] # ListenFd
      BY WorkerAssumption DEF EventOf, IInv, TypeOK
    <3> QED BY <3>1, <3>2, <3>3 DEF ReadyEvents
  <2> QED BY <1>5, <2>1, <2>2
<1>7. \A e \in batch' : e.hup => HungUp(e.file)'
  BY <1>6, HungUpStays
<1> QED BY <1>2, <1>4, <1>7 DEF HangUps

LEMMA InitHangUps == Init => HangUps
    BY DEF Init, HangUps

\* The request due is of the kind of its first unit.
LEMMA KindDue ==
    ASSUME IInv, Stretches, pc = "serve", Ends(Buf) # {}
    PROVE  Stream[Who][Past + Due].kind = Kind(Buf)
<1> DEFINE c == Who
           n == Due
           p == Past
           D == {i \in 1..n : Stream[c][p + i].kind # Kind(Buf)}
<1>1. /\ c \in Clients /\ n \in 1..Len(Buf) /\ p \in Nat
      /\ Bytes(c, Buf, got[c])
      /\ \A i \in 1..(n - 1) : ~ Stream[c][p + i].last
      /\ p + n <= Len(Stream[c])
  BY NextAnswer
<1>2. Len(Buf) \in Nat /\ DOMAIN Buf = 1..Len(Buf) /\ Len(Stream[c]) \in Nat
  BY <1>1, ServedClient, LenProperties, WorkerAssumption
<1>3. Kind(Buf) = Stream[c][p + 1].kind
  <2>1. Buf[1] = <<c, p + 1>>
    BY <1>1, <1>2 DEF Bytes, Past, Who
  <2> QED BY <2>1 DEF Kind, UnitOf
<1> HIDE DEF c, p, n
<1>4. SUFFICES ASSUME D # {} PROVE FALSE
  <2>1. n \in 1..n
    BY <1>1, <1>2
  <2> QED BY <1>4, <2>1 DEF c, p, n
<1>5. D \in SUBSET Nat
  OBVIOUS
<1>6. PICK i \in D : \A j \in D : i <= j
  BY <1>4, <1>5, SmallestNat
<1>7. i # 1 /\ i \in 1..n
  BY <1>3, <1>6
<1>8. i - 1 \in 1..(n - 1) /\ i - 1 \notin D /\ i - 1 \in 1..n
  <2>1. n \in Nat /\ i \in Nat /\ i - 1 \in 1..(n - 1) /\ i - 1 \in 1..n
    BY <1>1, <1>2, <1>7
  <2>2. ~ (i <= i - 1)
    BY <2>1
  <2> QED BY <1>6, <2>1, <2>2
<1>9. Stream[c][p + (i - 1)].kind = Kind(Buf) /\ ~ Stream[c][p + (i - 1)].last
  BY <1>1, <1>8
<1> DEFINE k == p + (i - 1)
<1>10. k \in 1..Len(Stream[c]) /\ k < Len(Stream[c]) /\ k + 1 = p + i
  BY <1>1, <1>2, <1>7, <1>8
<1>11. Stream[c][k + 1].kind = Stream[c][k].kind
  BY <1>1, <1>9, <1>10, StreamAssumption
<1> QED BY <1>6, <1>9, <1>10, <1>11

\* A full buffer in which no request ends is the start of one too long.
LEMMA FullIsTooLong ==
    ASSUME IInv, Buffers, Stretches, NEW f \in Fds, fdt[f] \in Clients, Room(f) = 0, pc # "serve"
    PROVE  TooLong(fdt[f])
<1> DEFINE c == fdt[f]
           b == conns[f].buf
<1>1. c \in Clients /\ b \in Seq(Units) /\ Len(b) \in Nat /\ Len(b) = BufCap /\ DOMAIN b = 1..Len(b)
  <2>1. b \in Seq(Units)
    BY DEF IInv, TypeOK
  <2>2. Len(b) \in Nat /\ DOMAIN b = 1..Len(b)
    BY <2>1, LenProperties
  <2>3. BufCap - Len(b) = 0
    BY DEF Room
  <2> QED BY <2>1, <2>2, <2>3, WorkerAssumption
<1>2. Ends(b) = {}
  BY DEF Buffers, NoStrandedRequest
<1>3. Bytes(c, b, got[c]) /\ Replies(c, out[c], got[c] - Len(b))
  BY DEF Stretches
<1>4. LastAnswered(c) = got[c] - Len(b)
  BY <1>3 DEF Replies, LastAnswered
<1>5. /\ got[c] \in Nat /\ sent[c] \in Nat /\ got[c] <= sent[c] /\ sent[c] <= Len(Stream[c])
      /\ Len(Stream[c]) \in Nat /\ Len(b) <= got[c]
  BY <1>1, <1>3, WorkerAssumption, LenProperties DEF IInv, TypeOK, Progress, Bytes
<1> HIDE DEF c, b
<1>6. ASSUME NEW i \in 1..BufCap
      PROVE  LastAnswered(c) + i <= Len(Stream[c]) /\ ~ Stream[c][LastAnswered(c) + i].last
  <2>1. i \in DOMAIN b /\ i \notin Ends(b)
    BY <1>1, <1>2
  <2>2. b[i] = <<c, LastAnswered(c) + i>>
    BY <1>3, <1>4, <2>1 DEF Bytes
  <2>3. ~ Stream[c][LastAnswered(c) + i].last
    BY <2>1, <2>2 DEF Ends, UnitOf
  <2>4. LastAnswered(c) + i <= Len(Stream[c])
    BY <1>1, <1>4, <1>5, <2>1
  <2> QED BY <2>3, <2>4
<1> QED BY <1>6 DEF TooLong, c

LEMMA BadIsAnswered ==
    ASSUME IInv, Served, AnswerBad, NEW c, c = Who
    PROVE  BadAnswered(c)'
<1>1. pc = "serve" /\ Ends(Buf) # {} /\ Kind(Buf) = "bad" /\ Send(cur, Buf[Due])
  BY DEF AnswerBad, Due
<1>2. /\ Who \in Clients /\ Due \in 1..Len(Buf) /\ Past \in Nat
      /\ Stream[Who][Past + Due].kind = "bad"
  BY <1>1, NextAnswer, KindDue DEF Served
<1>3. /\ out' = [out EXCEPT ![Who] = Append(out[Who], <<Who, Past + Due>>)]
      /\ Replies(Who, out'[Who], Past + Due)
  BY <1>1, SendExtends
<1>4. Past + Due > 0
  <2>1. Len(Buf) \in Nat
    BY <1>1, ServedClient, LenProperties
  <2> QED BY <1>2, <2>1
<1> DEFINE p == Past + Due
<1>5. c \in Clients /\ p > 0 /\ Stream[c][p].kind = "bad" /\ Replies(c, out'[c], p)
  BY <1>2, <1>3, <1>4
<1>6. p \in Nat
  <2>1. Len(Buf) \in Nat
    BY <1>1, ServedClient, LenProperties
  <2> QED BY <1>2, <2>1
<1> HIDE DEF p
<1>7. out'[c] # <<>> /\ out'[c][Len(out'[c])][2] = p
  BY <1>5, <1>6 DEF Replies
<1> QED BY <1>5, <1>6, <1>7 DEF BadAnswered, LastAnswered

\* A client that stays and reads is cut off only after a 400 or when what it is
\* sending cannot fit.
LEMMA CloseStep ==
    ASSUME IInv, Buffers, OnePlace, Served, HangUps, [Next]_vars,
           NEW c \in Clients \ Impatient, c \in Held, c \notin Held'
    PROVE  BadAnswered(c)' \/ TooLong(c)
<1>1. PICK f \in Fds : fdt[f] = c /\ c # Free
  BY WorkerAssumption DEF Held, Open
<1>2. fdt'[f] # c /\ c \notin Links
  BY <1>1, WorkerAssumption DEF Held, Open
<1>3. c \notin fin
  BY DEF HangUps
<1>4. ASSUME NEW e \in batch, ClientHup(e) PROVE FALSE
  <2>1. e.fd \in Fds /\ fdt[e.fd] \in Clients /\ fdt[e.fd] \notin Links
    BY <1>4, ClientEvent DEF ClientHup
  <2>2. CloseClient(e.fd) /\ e.hup
    BY <1>4 DEF ClientHup
  <2>3. e.fd = f
    BY <1>1, <1>2, <2>1, <2>2 DEF CloseClient, IInv, TypeOK
  <2>4. e.file = c
    BY <1>1, <2>1, <2>3 DEF IInv, NoStaleEvent
  <2> QED BY <1>2, <1>3, <2>2, <2>4 DEF HangUps, HungUp
<1>5. ASSUME NEW e \in batch, ReadClose(e) PROVE TooLong(c)
  <2>1. e.fd \in Fds /\ conns[e.fd].some
    BY <1>5, ClientEvent DEF ReadClose
  <2>2. CloseClient(e.fd) /\ pc # "serve" /\ (Room(e.fd) = 0 \/ fdt[e.fd] \in fin)
    BY <1>5, <2>1 DEF ReadClose, Take
  <2>3. e.fd = f
    BY <1>1, <1>2, <2>1, <2>2 DEF CloseClient, IInv, TypeOK
  <2>4. Room(f) = 0
    BY <1>1, <1>3, <2>2, <2>3
  <2> QED BY <1>1, <2>2, <2>4, FullIsTooLong DEF Served
<1>6. ASSUME SendFails \/ AnswerBad PROVE fdt[cur] = c
  <2>1. cur \in Fds /\ CloseClient(cur)
    BY <1>6 DEF SendFails, AnswerBad, IInv, TypeOK
  <2> QED BY <1>1, <1>2, <2>1 DEF CloseClient, IInv, TypeOK
<1>7. ASSUME SendFails PROVE FALSE
  BY <1>6, <1>7 DEF SendFails
<1>8. ASSUME AnswerBad PROVE BadAnswered(c)'
  BY <1>6, <1>8, BadIsAnswered DEF Who
<1>9. ASSUME NEW e \in batch, CtrlHangUp(e) PROVE FALSE
  <2>1. e.fd \in Fds /\ fdt[e.fd] \in Links /\ fdt' = [fdt EXCEPT ![e.fd] = Free]
    BY <1>9, CtrlHangUpEffect
  <2> QED BY <1>1, <1>2, <2>1 DEF IInv, TypeOK
<1>10. ASSUME AcceptDone \/ (\E l \in backlog : AcceptOne(l)) \/ DrainOne PROVE FALSE
  <2>1. CASE AcceptDone
    BY <1>1, <1>2, <2>1 DEF AcceptDone
  <2>2. ASSUME NEW l \in backlog, AcceptOne(l) PROVE FALSE
    <3>1. LowestFd \in Fds /\ fdt[LowestFd] = Free
      BY <2>2, LowestFdIsFree DEF AcceptOne
    <3> QED BY <1>1, <1>2, <2>2, <3>1 DEF AcceptOne, IInv, TypeOK
  <2>3. CASE DrainOne
    <3>1. LowestFd \in Fds /\ fdt[LowestFd] = Free
      BY <2>3, LowestFdIsFree DEF DrainOne
    <3> QED BY <1>1, <1>2, <2>3, <3>1 DEF DrainOne, IInv, TypeOK
  <2> QED BY <1>10, <2>1, <2>2, <2>3
<1>11. ASSUME UNCHANGED fdt PROVE FALSE
  BY <1>1, <1>2, <1>11
<1> QED BY <1>4, <1>5, <1>7, <1>8, <1>9, <1>10, <1>11
        DEF Next, Worker, Environment, vars, EpollWait, BatchDone, DispatchListen, DispatchCtrl,
            Read, DrainDone, Incomplete, Answer, LbConnect, LbExit, LbHandOver,
            ClientSend, ClientHangUp

\* With a descriptor for every file there is always one for a queued client.
LEMMA DescriptorLeft ==
    ASSUME IInv, OnePlace, Calm, IsFiniteSet(Clients \cup Links),
           NEW c \in Clients, InFlight(c)
    PROVE  FreeFds # {}
<1> SUFFICES ASSUME FreeFds = {} PROVE FALSE
  OBVIOUS
<1> DEFINE A == Clients \cup Links
           T == A \ {c}
<1>1. \A f \in Fds : fdt[f] # Free /\ fdt[f] # c
  <2>1. \A f \in Fds : fdt[f] # c
    BY DEF InFlight, OnePlace, QueuedApart
  <2> QED BY <2>1 DEF FreeFds, Open
<1>2. fdt \in [Fds -> T]
  BY <1>1 DEF IInv, TypeOK
<1>3. /\ IsFiniteSet(T) /\ Cardinality(T) = Cardinality(A) - 1 /\ Cardinality(A) \in Nat
  BY FS_RemoveElement, FS_CardinalityType
<1>4. IsFiniteSet(Fds) /\ Cardinality(Fds) = MaxFd + 1
  <2>1. MaxFd \in Nat
    BY WorkerAssumption
  <2>2. 0 \in Int /\ MaxFd \in Int /\ ~ (0 > MaxFd)
    BY <2>1
  <2>3. IsFiniteSet(0..MaxFd) /\ Cardinality(0..MaxFd) = IF 0 > MaxFd THEN 0 ELSE MaxFd - 0 + 1
    BY <2>2, FS_Interval
  <2> QED BY <2>1, <2>2, <2>3 DEF Fds
<1>5. Cardinality(T) < Cardinality(Fds)
  BY <1>3, <1>4, WorkerAssumption DEF Calm
<1> HIDE DEF A, T
<1>6. PICK x, y \in Fds : x # y /\ fdt[x] = fdt[y]
  BY <1>2, <1>3, <1>4, <1>5, FS_PigeonHole
<1> QED BY <1>1, <1>6 DEF OnePlace, FilesOnce

LEMMA HandOverStep ==
    ASSUME IInv, OnePlace, HangUps, Calm, IsFiniteSet(Clients \cup Links), [Next]_vars,
           NEW c \in Clients, InFlight(c)
    PROVE  InFlight(c)' \/ c \in Held'
<1>0. PICK l \in Links : \E i \in DOMAIN ctrlq[l] : ctrlq[l][i] = c
  BY DEF InFlight
<1>1. PICK i \in DOMAIN ctrlq[l] : ctrlq[l][i] = c
  BY <1>0
<1>2. CASE UNCHANGED ctrlq
  BY <1>1, <1>2 DEF InFlight
<1>3. ASSUME NEW e \in batch, CtrlHangUp(e) PROVE FALSE
  <2>1. e.file \in Links /\ e.hup
    BY <1>3, CtrlHangUpEffect
  <2> QED BY <2>1 DEF HangUps, HungUp, Calm
<1>4. CASE DrainOne
  <2> DEFINE k == fdt[cur]
  <2>1. /\ k \in Links /\ ctrlq[k] # <<>>
        /\ LowestFd \in Fds
        /\ ctrlq' = [ctrlq EXCEPT ![k] = Tail(ctrlq[k])]
        /\ fdt' = [fdt EXCEPT ![LowestFd] = ctrlq[k][1]]
    BY <1>4, DrainOneEffect
  <2> HIDE DEF k
  <2>2. CASE l # k
    <3>1. ctrlq'[l] = ctrlq[l]
      BY <2>1, <2>2 DEF IInv, TypeOK
    <3> QED BY <1>1, <3>1 DEF InFlight
  <2>3. CASE l = k /\ i = 1
    <3>1. fdt'[LowestFd] = c /\ c # Free
      BY <1>1, <2>1, <2>3, WorkerAssumption DEF IInv, TypeOK
    <3> QED BY <2>1, <3>1 DEF Held, Open
  <2>4. CASE l = k /\ i # 1
    <3> DEFINE q == ctrlq[l]
    <3>1. q \in Seq(Clients) /\ q # <<>> /\ ctrlq'[l] = Tail(q)
      BY <2>1, <2>4 DEF IInv, TypeOK
    <3> HIDE DEF q
    <3>2. /\ Tail(q) \in Seq(Clients) /\ Len(Tail(q)) = Len(q) - 1
          /\ \A j \in 1..Len(Tail(q)) : Tail(q)[j] = q[j + 1]
      BY <3>1, HeadTailProperties
    <3>3. /\ Len(q) \in Nat /\ DOMAIN q = 1..Len(q)
          /\ DOMAIN Tail(q) = 1..Len(Tail(q))
      BY <3>1, <3>2, LenProperties
    <3>4. i \in 1..Len(q) /\ q[i] = c
      BY <1>1, <3>3 DEF q
    <3>5. i - 1 \in 1..Len(Tail(q)) /\ (i - 1) + 1 = i
      BY <2>4, <3>2, <3>3, <3>4
    <3>6. i - 1 \in DOMAIN ctrlq'[l] /\ ctrlq'[l][i - 1] = c
      BY <3>1, <3>2, <3>3, <3>4, <3>5
    <3> QED BY <3>6 DEF InFlight
  <2> QED BY <2>2, <2>3, <2>4
<1>5. ASSUME DrainDone PROVE UNCHANGED ctrlq
  BY <1>5, DescriptorLeft DEF DrainDone
<1>6. ASSUME NEW k \in Links, NEW d \in Clients, LbHandOver(k, d) PROVE InFlight(c)'
  <2>1. ctrlq' = [ctrlq EXCEPT ![k] = Append(ctrlq[k], d)]
    BY <1>6 DEF LbHandOver
  <2>2. CASE l # k
    <3>1. ctrlq'[l] = ctrlq[l]
      BY <2>1, <2>2 DEF IInv, TypeOK
    <3> QED BY <1>1, <3>1 DEF InFlight
  <2>3. CASE l = k
    <3>1. ctrlq[l] \in Seq(Clients) /\ ctrlq'[l] = Append(ctrlq[l], d)
      BY <2>1, <2>3 DEF IInv, TypeOK
    <3>2. /\ Append(ctrlq[l], d) \in Seq(Clients)
          /\ Len(Append(ctrlq[l], d)) = Len(ctrlq[l]) + 1
          /\ \A j \in 1..Len(ctrlq[l]) : Append(ctrlq[l], d)[j] = ctrlq[l][j]
      BY <3>1, AppendProperties
    <3>3. /\ DOMAIN Append(ctrlq[l], d) = 1..(Len(ctrlq[l]) + 1)
          /\ DOMAIN ctrlq[l] = 1..Len(ctrlq[l]) /\ Len(ctrlq[l]) \in Nat
      BY <3>1, <3>2, LenProperties
    <3>4. i \in DOMAIN ctrlq'[l] /\ ctrlq'[l][i] = c
      BY <1>1, <3>1, <3>2, <3>3
    <3> QED BY <3>4 DEF InFlight
  <2> QED BY <2>2, <2>3
<1> QED BY <1>2, <1>3, <1>4, <1>5, <1>6
        DEF Next, Worker, Environment, vars, EpollWait, BatchDone, DispatchListen, DispatchCtrl,
            ClientHup, ReadClose, Read, AcceptOne, AcceptDone, Incomplete, Answer, SendFails,
            AnswerBad, LbConnect, LbExit, ClientSend, ClientHangUp

\* A client that stays and reads loses its connection only after a 400, or
\* because a request does not fit the buffer, however many it pipelines.
THEOREM ClosesAreJustified == Spec => CloseIsJustified
<1>1. IInv /\ Buffers /\ OnePlace /\ Served /\ HangUps /\ [Next]_vars
      => [\A c \in Clients \ Impatient :
            c \in Held /\ c \notin Held' => BadAnswered(c)' \/ TooLong(c)]_vars
  BY CloseStep
<1> QED BY <1>1, InitBuffers, NextBuffers, InitOnePlace, NextOnePlace, InitServed, NextServed,
           InitHangUps, NextHangUps, InductiveInvariant, PTL DEF Spec, CloseIsJustified

\* As long as the load balancer stays and there are descriptors for every file,
\* no socket handed over is lost between the link and the descriptor table.
THEOREM HandOversKept ==
    ASSUME Calm, IsFiniteSet(Clients \cup Links)
    PROVE  Spec => HandOverKept
<1>1. IInv /\ OnePlace /\ HangUps /\ [Next]_vars
      => [\A c \in Clients : InFlight(c) => InFlight(c)' \/ c \in Held']_vars
  BY HandOverStep
<1> QED BY <1>1, InitOnePlace, NextOnePlace,
           InitHangUps, NextHangUps, InductiveInvariant, PTL DEF Spec, HandOverKept
====
