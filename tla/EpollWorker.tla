---- MODULE EpollWorker ----
(***************************************************************************)
(* The epoll worker of zero-server (worker.rs, with recv_fd of fdpass.rs   *)
(* and the request framing of http.rs): a single thread that waits on      *)
(* epoll, accepts control links from the load balancer, receives client    *)
(* sockets over them (SCM_RIGHTS), and serves pipelined requests out of a  *)
(* fixed buffer per connection.                                            *)
(*                                                                         *)
(* The worker indexes everything it knows by file-descriptor number, and   *)
(* the kernel reuses a number as soon as it is closed.  So the state of    *)
(* the program (conns, isCtrl, the batch of events it is walking) is kept  *)
(* apart from the state of the kernel (fdt: which file a number means now).*)
(*                                                                         *)
(* A client's byte stream is a sequence of units.  Unit i of client c is   *)
(* the pair <<c, i>>; Stream[c][i] says to which kind of request it        *)
(* belongs and whether it is the last unit of that request.                *)
(***************************************************************************)
EXTENDS Naturals, Sequences, FiniteSets

CONSTANTS
    Clients,    \* client connections the load balancer accepts
    Links,      \* control connections the load balancer opens, one after another
    MaxFd,      \* largest descriptor the process may hold for them (ulimit nofile)
    MaxEvents,  \* size of the event array (MAX_EVENTS)
    BufCap,     \* capacity of a connection buffer in units (BUF_CAP)
    Stream,     \* Stream[c]: the units client c may send
    Impatient,  \* clients that may hang up or stop reading
    LbMayExit,  \* whether the load balancer may close a live control link
    Free,       \* "no file" in the descriptor table
    ListenFd    \* the descriptor of the control listener

Fds     == 0..MaxFd
Kinds   == {"ready", "fraud", "bad"}
Units   == Clients \X (Nat \ {0})

ASSUME WorkerAssumption ==
    /\ MaxFd \in Nat
    /\ MaxEvents \in Nat \ {0}
    /\ BufCap \in Nat \ {0}
    /\ Clients \cap Links = {}
    /\ Free \notin Clients \cup Links
    /\ ListenFd \notin Fds \cup Clients \cup Links \cup {Free}
    /\ \A c \in Clients : Stream[c] \in Seq([kind : Kinds, last : BOOLEAN])
    /\ Impatient \subseteq Clients
    /\ LbMayExit \in BOOLEAN

\* What belongs to one request has one kind.
ASSUME StreamAssumption ==
    \A c \in Clients : \A i \in 1..Len(Stream[c]) :
        i < Len(Stream[c]) /\ ~ Stream[c][i].last
            => Stream[c][i + 1].kind = Stream[c][i].kind

VARIABLES
    pc,        \* where the thread is: wait, dispatch, accept, drain, serve
    cur,       \* descriptor the running handler works on
    batch,     \* events of the last epoll_wait not yet dispatched
    conns,     \* conns[fd]: the connection buffer, if there is one
    isCtrl,    \* is_ctrl[fd]
    fdt,       \* kernel: the file behind each descriptor
    interest,  \* kernel: descriptors registered with epoll
    backlog,   \* kernel: links waiting in the control listener
    ctrlq,     \* kernel: ctrlq[l], client sockets in flight on link l
    lbEnd,     \* lbEnd[l]: the load balancer's end of l: new, open, closed
    sent,      \* sent[c]: units client c has sent
    got,       \* got[c]: units the worker has read from c's socket
    fin,       \* clients that hung up
    handed,    \* clients the load balancer has handed over
    out        \* out[c]: what the worker answered on c's socket

program == <<pc, cur, batch, conns, isCtrl>>
kernel  == <<fdt, interest, backlog, ctrlq>>
peers   == <<lbEnd, sent, got, fin, handed, out>>
vars    == <<pc, cur, batch, conns, isCtrl, fdt, interest, backlog, ctrlq,
             lbEnd, sent, got, fin, handed, out>>

NoConn  == [some |-> FALSE, buf |-> <<>>]
Conn(b) == [some |-> TRUE, buf |-> b]

Event == [fd : Fds \cup {ListenFd}, file : Clients \cup Links \cup {ListenFd},
          hup : BOOLEAN]

Open      == {f \in Fds : fdt[f] # Free}
Held      == {fdt[f] : f \in Open}            \* files the process has open
FreeFds   == Fds \ Open
LowestFd  == CHOOSE f \in FreeFds : \A g \in FreeFds : f <= g
InFlight(c) == \E l \in Links : \E i \in DOMAIN ctrlq[l] : ctrlq[l][i] = c
Connected(l) == l \in backlog \/ l \in Held

Init ==
    /\ pc = "wait" /\ cur = 0 /\ batch = {}
    /\ conns = [f \in Fds |-> NoConn]
    /\ isCtrl = [f \in Fds |-> FALSE]
    /\ fdt = [f \in Fds |-> Free]
    /\ interest = {} /\ backlog = {}
    /\ ctrlq = [l \in Links |-> <<>>]
    /\ lbEnd = [l \in Links |-> "new"]
    /\ sent = [c \in Clients |-> 0]
    /\ got = [c \in Clients |-> 0]
    /\ fin = {} /\ handed = {}
    /\ out = [c \in Clients |-> <<>>]

---------------------------------------------------------------------------
(* Waiting.  epoll is level-triggered: every registered descriptor with    *)
(* something to report is reported again at each wait.  A hang-up of the   *)
(* peer sets EPOLLRDHUP or EPOLLHUP next to EPOLLIN (hup).                 *)

HungUp(x) == IF x \in Links THEN lbEnd[x] = "closed" ELSE x \in fin
Readable(x) == IF x \in Links THEN ctrlq[x] # <<>> ELSE got[x] < sent[x]

EventOf(f)  == [fd |-> f, file |-> fdt[f], hup |-> HungUp(fdt[f])]
ListenEvent == [fd |-> ListenFd, file |-> ListenFd, hup |-> FALSE]

ReadyEvents ==
    {EventOf(f) : f \in {g \in interest : HungUp(fdt[g]) \/ Readable(fdt[g])}}
    \cup {e \in {ListenEvent} : backlog # {}}

\* The array is walked in kernel order, which the arrival order decides, so
\* the batch is a set and the next event any member of it.
EpollWait ==
    /\ pc = "wait"
    /\ ReadyEvents # {}
    /\ \E B \in SUBSET ReadyEvents :
          /\ B # {}
          /\ Cardinality(B) <= MaxEvents
          /\ B = ReadyEvents \/ Cardinality(B) = MaxEvents
          /\ batch' = B
    /\ pc' = "dispatch"
    /\ UNCHANGED <<cur, conns, isCtrl, fdt, interest, backlog, ctrlq,
                   lbEnd, sent, got, fin, handed, out>>

BatchDone ==
    /\ pc = "dispatch" /\ batch = {}
    /\ pc' = "wait"
    /\ UNCHANGED <<cur, batch, conns, isCtrl, fdt, interest, backlog, ctrlq,
                   lbEnd, sent, got, fin, handed, out>>

\* The head of the event loop: e is the event the loop now handles.
Take(e) ==
    /\ pc = "dispatch" /\ e \in batch
    /\ batch' = batch \ {e}

---------------------------------------------------------------------------
(* Control links.                                                          *)

DispatchListen(e) ==
    /\ Take(e) /\ e.fd = ListenFd
    /\ pc' = "accept"
    /\ UNCHANGED <<cur, conns, isCtrl, fdt, interest, backlog, ctrlq,
                   lbEnd, sent, got, fin, handed, out>>

\* One turn of accept_ctrl's loop: accept4 succeeds.
AcceptOne(l) ==
    /\ pc = "accept" /\ l \in backlog /\ FreeFds # {}
    /\ backlog' = backlog \ {l}
    /\ fdt' = [fdt EXCEPT ![LowestFd] = l]
    /\ isCtrl' = [isCtrl EXCEPT ![LowestFd] = TRUE]
    /\ interest' = interest \cup {LowestFd}
    /\ UNCHANGED <<pc, cur, batch, conns, ctrlq, lbEnd, sent, got, fin, handed, out>>

\* accept4 fails: nothing waits, or no descriptor is left (EMFILE).
AcceptDone ==
    /\ pc = "accept" /\ (backlog = {} \/ FreeFds = {})
    /\ pc' = "dispatch"
    /\ UNCHANGED <<cur, batch, conns, isCtrl, fdt, interest, backlog, ctrlq,
                   lbEnd, sent, got, fin, handed, out>>

IsCtrlEvent(e) == e.fd # ListenFd /\ isCtrl[e.fd]

\* Slip: the mark of a closed link stays behind.
CtrlHangUpKeepsMark(e) ==
    /\ Take(e) /\ IsCtrlEvent(e) /\ e.hup
    /\ interest' = interest \ {e.fd}
    /\ fdt' = [fdt EXCEPT ![e.fd] = Free]
    /\ ctrlq' = IF fdt[e.fd] \in Links
                THEN [ctrlq EXCEPT ![fdt[e.fd]] = <<>>] ELSE ctrlq
    /\ UNCHANGED <<pc, cur, conns, isCtrl, backlog, lbEnd, sent, got, fin, handed, out>>

\* The other end is gone: deregister and close.  Whatever client sockets are
\* still queued on the link go with it.
CtrlHangUp(e) ==
    /\ Take(e) /\ IsCtrlEvent(e) /\ e.hup
    /\ interest' = interest \ {e.fd}
    /\ isCtrl' = [isCtrl EXCEPT ![e.fd] = FALSE]
    /\ fdt' = [fdt EXCEPT ![e.fd] = Free]
    /\ ctrlq' = IF fdt[e.fd] \in Links
                THEN [ctrlq EXCEPT ![fdt[e.fd]] = <<>>] ELSE ctrlq
    /\ UNCHANGED <<pc, cur, conns, backlog, lbEnd, sent, got, fin, handed, out>>

DispatchCtrl(e) ==
    /\ Take(e) /\ IsCtrlEvent(e) /\ ~e.hup
    /\ pc' = "drain" /\ cur' = e.fd
    /\ UNCHANGED <<conns, isCtrl, fdt, interest, backlog, ctrlq,
                   lbEnd, sent, got, fin, handed, out>>

Queued == IF fdt[cur] \in Links THEN ctrlq[fdt[cur]] ELSE <<>>

\* One turn of drain_fds' loop: recvmsg installs the client's socket.
DrainOne ==
    /\ pc = "drain" /\ Queued # <<>> /\ FreeFds # {}
    /\ ctrlq' = [ctrlq EXCEPT ![fdt[cur]] = Tail(@)]
    /\ fdt' = [fdt EXCEPT ![LowestFd] = Head(Queued)]
    /\ conns' = [conns EXCEPT ![LowestFd] = Conn(<<>>)]
    /\ interest' = interest \cup {LowestFd}
    /\ UNCHANGED <<pc, cur, batch, isCtrl, backlog, lbEnd, sent, got, fin, handed, out>>

\* Slip: a message is read and its descriptor thrown away.
DrainDoneDropsMessage ==
    /\ pc = "drain"
    /\ ctrlq' = IF Queued = <<>> THEN ctrlq ELSE [ctrlq EXCEPT ![fdt[cur]] = Tail(@)]
    /\ pc' = "dispatch"
    /\ UNCHANGED <<cur, batch, conns, isCtrl, fdt, interest, backlog,
                   lbEnd, sent, got, fin, handed, out>>

\* recv_fd returns -1: the queue is empty, or the message came but its
\* descriptor could not be installed, and then the socket is dropped.
DrainDone ==
    /\ pc = "drain"
    /\ \/ Queued = <<>> /\ UNCHANGED ctrlq
       \/ /\ Queued # <<>> /\ FreeFds = {}
          /\ ctrlq' = [ctrlq EXCEPT ![fdt[cur]] = Tail(@)]
    /\ pc' = "dispatch"
    /\ UNCHANGED <<cur, batch, conns, isCtrl, fdt, interest, backlog,
                   lbEnd, sent, got, fin, handed, out>>

---------------------------------------------------------------------------
(* Client connections.                                                     *)

\* Slip: the buffer outlives the socket.
CloseClientKeepsBuffer(f) ==
    /\ interest' = interest \ {f}
    /\ fdt' = [fdt EXCEPT ![f] = Free]
    /\ UNCHANGED conns

CloseClient(f) ==
    /\ interest' = interest \ {f}
    /\ fdt' = [fdt EXCEPT ![f] = Free]
    /\ conns' = [conns EXCEPT ![f] = NoConn]

IsClientEvent(e) == e.fd # ListenFd /\ ~isCtrl[e.fd]

\* Slip: no continue after the close, so the same event is handled as a read.
ClientHupFallsThrough(e) ==
    /\ pc = "dispatch" /\ e \in batch /\ IsClientEvent(e) /\ e.hup
    /\ batch' = (batch \ {e}) \cup {[e EXCEPT !.hup = FALSE]}
    /\ CloseClient(e.fd)
    /\ UNCHANGED <<pc, cur, isCtrl, backlog, ctrlq, lbEnd, sent, got, fin, handed, out>>

\* A hang-up is looked at before EPOLLIN: unread requests are not served.
ClientHup(e) ==
    /\ Take(e) /\ IsClientEvent(e) /\ e.hup
    /\ CloseClient(e.fd)
    /\ UNCHANGED <<pc, cur, isCtrl, backlog, ctrlq, lbEnd, sent, got, fin, handed, out>>

Room(f) == BufCap - Len(conns[f].buf)
Smaller(a, b) == IF a <= b THEN a ELSE b

\* Slip: the buffer counts as full one unit early.
ReadCloseTooEarly(e) ==
    /\ Take(e) /\ IsClientEvent(e) /\ ~e.hup
    /\ \/ ~conns[e.fd].some
       \/ Room(e.fd) <= 1
       \/ fdt[e.fd] \in fin
    /\ CloseClient(e.fd)
    /\ UNCHANGED <<pc, cur, isCtrl, backlog, ctrlq, lbEnd, sent, got, fin, handed, out>>

\* handle_read gives up: no connection, no room, end of stream, or an error
\* of a socket whose peer went away after the wait.
ReadClose(e) ==
    /\ Take(e) /\ IsClientEvent(e) /\ ~e.hup
    /\ \/ ~conns[e.fd].some
       \/ Room(e.fd) = 0
       \/ fdt[e.fd] \in fin
    /\ CloseClient(e.fd)
    /\ UNCHANGED <<pc, cur, isCtrl, backlog, ctrlq, lbEnd, sent, got, fin, handed, out>>

\* Slip: recv is passed the whole capacity.
ReceivedPastRoom(c, room) ==
    [i \in 1..Smaller(BufCap, sent[c] - got[c]) |-> <<c, got[c] + i>>]

\* recv takes what is there, up to the room left in the buffer.
Received(c, room) ==
    [i \in 1..Smaller(room, sent[c] - got[c]) |-> <<c, got[c] + i>>]

Read(e) ==
    /\ Take(e) /\ IsClientEvent(e) /\ ~e.hup
    /\ conns[e.fd].some /\ Room(e.fd) > 0
    /\ LET c    == fdt[e.fd]
           data == Received(c, Room(e.fd))
       IN /\ data # <<>>
          /\ conns' = [conns EXCEPT ![e.fd] = Conn(@.buf \o data)]
          /\ got' = [got EXCEPT ![c] = @ + Len(data)]
    /\ pc' = "serve" /\ cur' = e.fd
    /\ UNCHANGED <<isCtrl, fdt, interest, backlog, ctrlq, lbEnd, sent, fin, handed, out>>

\* http::parse: the first request of the buffer is complete when its last
\* unit is there; its kind is known from its first unit.
UnitOf(u)     == Stream[u[1]][u[2]]
Ends(b)       == {i \in DOMAIN b : UnitOf(b[i]).last}
FirstEnd(b)   == CHOOSE i \in Ends(b) : \A j \in Ends(b) : i <= j
Rest(b, n)    == SubSeq(b, n + 1, Len(b))
Kind(b)       == UnitOf(b[1]).kind
Buf           == conns[cur].buf

Incomplete ==
    /\ pc = "serve" /\ Ends(Buf) = {}
    /\ pc' = "dispatch"
    /\ UNCHANGED <<cur, batch, conns, isCtrl, fdt, interest, backlog, ctrlq,
                   lbEnd, sent, got, fin, handed, out>>

\* send_all writes the answer to the socket behind the descriptor.
Send(f, answer) ==
    out' = IF fdt[f] \in Clients THEN [out EXCEPT ![fdt[f]] = Append(@, answer)]
           ELSE out

\* Slip: one request per read; the rest of the buffer waits.
AnswerOnlyOne ==
    /\ pc = "serve" /\ Ends(Buf) # {} /\ Kind(Buf) # "bad"
    /\ Send(cur, Buf[FirstEnd(Buf)])
    /\ conns' = [conns EXCEPT ![cur] = Conn(Rest(Buf, FirstEnd(Buf)))]
    /\ pc' = "dispatch"
    /\ UNCHANGED <<cur, batch, isCtrl, fdt, interest, backlog, ctrlq,
                   lbEnd, sent, got, fin, handed>>

\* Slip: the answered bytes stay in the buffer.
AnswerWithoutCompacting ==
    /\ pc = "serve" /\ Ends(Buf) # {} /\ Kind(Buf) # "bad"
    /\ Send(cur, Buf[FirstEnd(Buf)])
    /\ pc' = "dispatch"
    /\ UNCHANGED <<cur, batch, conns, isCtrl, fdt, interest, backlog, ctrlq,
                   lbEnd, sent, got, fin, handed>>

\* A complete GET or POST is answered and removed from the buffer; the loop
\* goes on while bytes are left.
Answer ==
    /\ pc = "serve" /\ Ends(Buf) # {} /\ Kind(Buf) # "bad"
    /\ LET n == FirstEnd(Buf)
       IN /\ Send(cur, Buf[n])
          /\ conns' = [conns EXCEPT ![cur] = Conn(Rest(Buf, n))]
          /\ pc' = IF n = Len(Buf) THEN "dispatch" ELSE "serve"
    /\ UNCHANGED <<cur, batch, isCtrl, fdt, interest, backlog, ctrlq,
                   lbEnd, sent, got, fin, handed>>

\* send_all gives up on a peer that is gone or does not read for 50 ms.
SendFails ==
    /\ pc = "serve" /\ Ends(Buf) # {} /\ fdt[cur] \in Impatient
    /\ CloseClient(cur)
    /\ pc' = "dispatch"
    /\ UNCHANGED <<cur, batch, isCtrl, backlog, ctrlq, lbEnd, sent, got, fin, handed, out>>

\* Anything else gets a 400 and the connection is closed.
AnswerBad ==
    /\ pc = "serve" /\ Ends(Buf) # {} /\ Kind(Buf) = "bad"
    /\ Send(cur, Buf[FirstEnd(Buf)])
    /\ CloseClient(cur)
    /\ pc' = "dispatch"
    /\ UNCHANGED <<cur, batch, isCtrl, backlog, ctrlq, lbEnd, sent, got, fin, handed>>

Worker ==
    \/ EpollWait \/ BatchDone
    \/ \E e \in batch : \/ DispatchListen(e) \/ CtrlHangUp(e) \/ DispatchCtrl(e)
                        \/ ClientHup(e) \/ ReadClose(e) \/ Read(e)
    \/ \E l \in backlog : AcceptOne(l)
    \/ AcceptDone \/ DrainOne \/ DrainDone
    \/ Incomplete \/ Answer \/ SendFails \/ AnswerBad

---------------------------------------------------------------------------
(* The load balancer and the clients, as the worker meets them.            *)

LbConnect(l) ==
    /\ lbEnd[l] = "new"
    /\ lbEnd' = [lbEnd EXCEPT ![l] = "open"]
    /\ backlog' = backlog \cup {l}
    /\ UNCHANGED <<pc, cur, batch, conns, isCtrl, fdt, interest, ctrlq,
                   sent, got, fin, handed, out>>

LbHandOver(l, c) ==
    /\ lbEnd[l] = "open" /\ Connected(l) /\ c \notin handed
    /\ ctrlq' = [ctrlq EXCEPT ![l] = Append(@, c)]
    /\ handed' = handed \cup {c}
    /\ UNCHANGED <<pc, cur, batch, conns, isCtrl, fdt, interest, backlog,
                   lbEnd, sent, got, fin, out>>

LbExit(l) ==
    /\ LbMayExit /\ lbEnd[l] = "open"
    /\ lbEnd' = [lbEnd EXCEPT ![l] = "closed"]
    /\ UNCHANGED <<pc, cur, batch, conns, isCtrl, fdt, interest, backlog, ctrlq,
                   sent, got, fin, handed, out>>

ClientSend(c) ==
    /\ sent[c] < Len(Stream[c]) /\ c \notin fin
    /\ \E n \in (sent[c] + 1)..Len(Stream[c]) : sent' = [sent EXCEPT ![c] = n]
    /\ UNCHANGED <<pc, cur, batch, conns, isCtrl, fdt, interest, backlog, ctrlq,
                   lbEnd, got, fin, handed, out>>

ClientHangUp(c) ==
    /\ c \in Impatient \ fin
    /\ fin' = fin \cup {c}
    /\ UNCHANGED <<pc, cur, batch, conns, isCtrl, fdt, interest, backlog, ctrlq,
                   lbEnd, sent, got, handed, out>>

Environment ==
    \/ \E l \in Links : LbConnect(l) \/ LbExit(l)
    \/ \E l \in Links, c \in Clients : LbHandOver(l, c)
    \/ \E c \in Clients : ClientSend(c) \/ ClientHangUp(c)

Next == Worker \/ Environment

Spec     == Init /\ [][Next]_vars
\* The thread never sleeps while there is work: each loop polls or waits with
\* a microsecond timeout, so a step it can take is taken.
FairSpec == Spec /\ WF_vars(Worker)

---------------------------------------------------------------------------
(* Properties.                                                             *)

\* Every variable has its type, and no connection buffer outgrows BUF_CAP
\* (handle_read passes recv the room that is left).
TypeOK ==
    /\ pc \in {"wait", "dispatch", "accept", "drain", "serve"}
    /\ cur \in Fds
    /\ batch \subseteq Event
    /\ conns \in [Fds -> [some : BOOLEAN, buf : Seq(Units)]]
    /\ \A f \in Fds : Len(conns[f].buf) <= BufCap
    /\ isCtrl \in [Fds -> BOOLEAN]
    /\ fdt \in [Fds -> Clients \cup Links \cup {Free}]
    /\ interest \subseteq Fds
    /\ backlog \subseteq Links
    /\ ctrlq \in [Links -> Seq(Clients)]
    /\ lbEnd \in [Links -> {"new", "open", "closed"}]
    /\ sent \in [Clients -> Nat] /\ got \in [Clients -> Nat]
    /\ fin \subseteq Clients /\ handed \subseteq Clients
    /\ out \in [Clients -> Seq(Units)]

\* The tables of the program and the descriptor table of the kernel agree,
\* whatever numbers were closed and reused: is_ctrl marks exactly the control
\* links, conns holds a buffer exactly for the client sockets, and every open
\* descriptor is registered with epoll (no socket is held and never polled).
TablesAgree ==
    \A f \in Fds : /\ isCtrl[f] <=> fdt[f] \in Links
                   /\ conns[f].some <=> fdt[f] \in Clients
                   /\ f \in interest <=> fdt[f] # Free

\* An event is handled only while its descriptor still means the file the
\* event was reported for, though handlers of the same batch close sockets
\* and receive new ones under the same numbers.
NoStaleEvent ==
    \A e \in batch : e.fd \in Fds => fdt[e.fd] = e.file

\* A buffer holds bytes of the connection it belongs to and of no other: a
\* reused descriptor starts with an empty buffer.
OwnBytesOnly ==
    \A f \in Fds : \A i \in DOMAIN conns[f].buf : conns[f].buf[i][1] = fdt[f]

\* No complete request rests in a buffer: nothing would wake the worker for
\* it, because its bytes have left the socket.  (The loop of handle_read runs
\* until the parse is incomplete or the buffer is empty.)
NoStrandedRequest ==
    \A f \in Fds : (pc = "serve" /\ cur = f) \/ Ends(conns[f].buf) = {}

\* The k-th answer on a client's socket answers the k-th request that client
\* sent: none is skipped, repeated, reordered or sent to somebody else.
InOrderAnswers ==
    \A c \in Clients : \A k \in DOMAIN out[c] :
        LET u == out[c][k] IN
        /\ u[1] = c
        /\ UnitOf(u).last
        /\ Cardinality({i \in 1..u[2] : Stream[c][i].last}) = k

LastAnswered(c) == IF out[c] = <<>> THEN 0 ELSE out[c][Len(out[c])][2]
BadAnswered(c)  == LastAnswered(c) > 0 /\ Stream[c][LastAnswered(c)].kind = "bad"
TooLong(c)      == \A i \in 1..BufCap : LET j == LastAnswered(c) + i IN
                      j <= Len(Stream[c]) /\ ~Stream[c][j].last

\* A client that stays and reads loses its connection only after a 400, or
\* because the request it is sending does not fit the buffer: pipelining more
\* than a buffer of short requests never costs the connection.
CloseIsJustified ==
    [][\A c \in Clients \ Impatient :
          c \in Held /\ c \notin Held' => BadAnswered(c)' \/ TooLong(c)]_vars

\* A socket leaves a control link only into the worker's descriptor table:
\* what the load balancer handed over is not lost on the way.
HandOverKept ==
    [][\A c \in Clients : InFlight(c) => InFlight(c)' \/ c \in Held']_vars

Answered(c, i) == \E k \in DOMAIN out[c] : out[c][k] = <<c, i>>

\* Unit i ends a request the worker can get to: no bad request before it, and
\* no request up to it is longer than the buffer.
Servable(c, i) ==
    /\ Stream[c][i].last
    /\ \A j \in 1..(i - 1) : Stream[c][j].last => Stream[c][j].kind # "bad"
    /\ \A j \in 1..i : j + BufCap <= i + 1 =>
          \E k \in j..(j + BufCap - 1) : Stream[c][k].last

\* The load balancer stays, and no descriptor limit is met.
Calm == ~LbMayExit /\ Cardinality(Clients \cup Links) <= MaxFd + 1

\* Every servable request of a client that stays and reads is answered once
\* the client was handed over and its last byte was sent, however the bytes
\* were cut into reads and whatever the other clients do.
RequestsAnswered ==
    \A c \in Clients \ Impatient : \A i \in DOMAIN Stream[c] :
        (Calm /\ Servable(c, i) /\ c \in handed /\ sent[c] >= i) ~> Answered(c, i)
====
