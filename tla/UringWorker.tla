---- MODULE UringWorker ----
(***************************************************************************)
(* The io_uring worker of zero-server (worker_uring.rs).  Nothing blocks:  *)
(* the thread pushes requests (SQEs) to the ring, submits them, and walks  *)
(* the completions (CQEs) that came back.  A receive is armed once per     *)
(* client and completes for every chunk, out of a ring of provided buffers *)
(* that all clients share; a control link has one recvmsg outstanding.     *)
(*                                                                         *)
(* A completion carries a descriptor number and nothing else, and a        *)
(* request holds on to its file: closing the descriptor neither ends an    *)
(* armed receive nor recalls a request that is pushed and not submitted.   *)
(* So a completion can arrive after its number was closed, or reused.  The *)
(* model keeps with every request the file it is really for (file), which  *)
(* the program does not see.                                               *)
(*                                                                         *)
(* Bytes are units as in EpollWorker: unit i of client c is <<c, i>>.      *)
(***************************************************************************)
EXTENDS Naturals, Sequences, FiniteSets, Bags

CONSTANTS
    Clients,    \* client connections the load balancer accepts
    Links,      \* control connections the load balancer opens
    MaxFd,      \* largest descriptor the process may hold for them
    BufCap,     \* capacity of a connection buffer in units (BUF_CAP)
    BufLen,     \* length of a provided buffer in units (BUF_LEN)
    NBuf,       \* number of provided buffers (BUF_ENTRIES)
    SqCap,      \* capacity of the submission queue (SQ_ENTRIES)
    Stream,     \* Stream[c]: the units client c may send
    Leaving,    \* clients that may hang up
    Exiting,    \* links the load balancer may close, by exiting
    None,       \* no file, no descriptor
    ListenFd    \* the descriptor of the control listener

Fds   == 0..MaxFd
Bids  == 1..NBuf
Kinds == {"ready", "fraud", "bad"}
Files == Clients \cup Links

ASSUME UringAssumption ==
    /\ MaxFd \in Nat
    /\ {BufCap, BufLen, NBuf, SqCap} \subseteq Nat \ {0}
    /\ Clients \cap Links = {}
    /\ None \notin Files \cup Fds \cup Bids
    /\ ListenFd \notin Fds \cup Files \cup {None}
    /\ Stream \in [Clients -> Seq([kind : Kinds, last : BOOLEAN])]
    /\ Leaving \subseteq Clients /\ Exiting \subseteq Links

VARIABLES
    pc,        \* wait (in the kernel) or dispatch
    sq,        \* requests pushed and not submitted
    done,      \* completions of this wakeup not yet handled, in order
    conns,     \* conns[fd]: the connection buffer, if there is one
    ctrls,     \* descriptors with a control buffer
    fdt,       \* kernel: the file behind each descriptor
    armed,     \* kernel: bag of accept, recvmsg and receive requests in flight
    cq,        \* kernel: completions posted
    pool,      \* kernel: provided buffers to be filled, in ring order
    mem,       \* mem[b]: what the kernel wrote to buffer b
    backlog,   \* kernel: links waiting in the control listener
    ctrlq,     \* kernel: ctrlq[l], client sockets in flight on link l
    lbEnd,     \* lbEnd[l]: the load balancer's end: new, open, closed
    sent,      \* sent[c]: units client c has sent
    got,       \* got[c]: units received from c's socket
    fin,       \* clients that hung up
    handed,    \* clients the load balancer has handed over
    out,       \* out[c]: answers written to c's socket
    trouble    \* history: what happened that a request may suffer from, as
               \* <<what, the number closed over it or None>>

program == <<pc, sq, done, conns, ctrls>>
ring    == <<armed, cq, out>>
kernel  == <<fdt, pool, mem, backlog, ctrlq>>
outside == <<lbEnd, sent, got, fin, handed>>
peers   == <<outside, trouble>>
vars    == <<pc, sq, done, conns, ctrls, armed, cq, out, fdt, pool, mem, backlog,
             ctrlq, lbEnd, sent, got, fin, handed, trouble>>

\* History: something went wrong, and the number f was closed over it, if any.
Trouble(what, f) == trouble' = trouble \cup {<<what, f>>}

NoConn  == [some |-> FALSE, buf |-> <<>>]
Conn(b) == [some |-> TRUE, buf |-> b]

\* A request as the program pushes it, as the kernel holds it, and its
\* completion: val is the new descriptor or the filled buffer, more tells
\* whether the request stays armed.
Sqe(op, fd, ans)   == [op |-> op, fd |-> fd, ans |-> ans]
Request(op, fd, x) == [op |-> op, fd |-> fd, file |-> x]
Cqe(r, res, val, more) ==
    [op |-> r.op, fd |-> r.fd, file |-> r.file, res |-> res, val |-> val, more |-> more]

FileOf(fd) == IF fd = ListenFd THEN ListenFd ELSE fdt[fd]
FreeFds    == {f \in Fds : fdt[f] = None}
LowestFd   == CHOOSE f \in FreeFds : \A g \in FreeFds : f <= g

Init ==
    /\ pc = "dispatch"
    /\ sq = <<Sqe("accept", ListenFd, None)>> /\ done = <<>>
    /\ conns = [f \in Fds |-> NoConn] /\ ctrls = {}
    /\ fdt = [f \in Fds |-> None]
    /\ armed = EmptyBag /\ cq = <<>>
    /\ pool = [b \in Bids |-> b] /\ mem = [b \in Bids |-> <<>>]
    /\ backlog = {} /\ ctrlq = [l \in Links |-> <<>>]
    /\ lbEnd = [l \in Links |-> "new"]
    /\ sent = [c \in Clients |-> 0] /\ got = [c \in Clients |-> 0]
    /\ fin = {} /\ handed = {} /\ out = [c \in Clients |-> <<>>]
    /\ trouble = {}

---------------------------------------------------------------------------
(* Submitting.  A descriptor is resolved to its file when the request is   *)
(* submitted, not when it is pushed.  A send is carried out on the spot    *)
(* (answers are short and clients read them), in the order of submission;  *)
(* to a client that left it may fail.                                      *)

Completes(e) == e.op = "send" \/ FileOf(e.fd) = None

\* The elements of s at the indices I, in order.
Part(s, I) ==
    [k \in 1..Cardinality(I) |-> s[CHOOSE i \in I : Cardinality({j \in I : j <= i}) = k]]

Submit(es) ==
    LET Over == {i \in DOMAIN es : Completes(es[i])}
        Held == DOMAIN es \ Over
        Req(i) == Request(es[i].op, es[i].fd, FileOf(es[i].fd))
        For(c) == {i \in Over : es[i].op = "send" /\ FileOf(es[i].fd) = c}
    IN  /\ armed' = armed (+) [r \in {Req(i) : i \in Held} |->
                                  Cardinality({i \in Held : Req(i) = r})]
        /\ \E gone \in SUBSET fin :
             LET Post(i) == Cqe(Req(i), IF FileOf(es[i].fd) \in gone \cup {None}
                                        THEN "fail" ELSE "ok", None, FALSE)
             IN  cq' = cq \o Part([i \in DOMAIN es |-> Post(i)], Over)
        /\ out' = [c \in Clients |-> IF c \in fin THEN out[c]
                     ELSE out[c] \o Part([i \in DOMAIN es |-> es[i].ans], For(c))]

\* Slip: a full queue is written past its end.
PushPastEnd(es) == sq' = sq \o es /\ UNCHANGED ring

\* push, for the requests es in turn: whenever the queue is full, what it
\* holds is submitted first.
Push(es) ==
    LET all  == sq \o es
        over == IF Len(all) <= SqCap THEN 0 ELSE SqCap * ((Len(all) - 1) \div SqCap)
    IN  /\ sq' = SubSeq(all, over + 1, Len(all))
        /\ IF over = 0 THEN UNCHANGED ring ELSE Submit(SubSeq(all, 1, over))

\* submit_and_wait, when the last wakeup's completions are handled.
SubmitAndWait ==
    /\ pc = "dispatch" /\ done = <<>>
    /\ Submit(sq) /\ sq' = <<>>
    /\ pc' = "wait"
    /\ UNCHANGED <<done, conns, ctrls, kernel, peers>>

\* All completions there are, in the order they were posted.
Reap ==
    /\ pc = "wait" /\ cq # <<>>
    /\ done' = cq /\ cq' = <<>>
    /\ pc' = "dispatch"
    /\ UNCHANGED <<sq, conns, ctrls, armed, out, kernel, peers>>

\* The completion being handled.
E == Head(done)
Handling(op) == pc = "dispatch" /\ done # <<>> /\ E.op = op
Handled == done' = Tail(done) /\ UNCHANGED pc

---------------------------------------------------------------------------
(* Control links.                                                          *)

AcceptAgain == IF E.more THEN <<>> ELSE <<Sqe("accept", ListenFd, None)>>

\* A link was accepted: give it a buffer and post its first recvmsg.
OnAccept ==
    /\ Handling("accept") /\ E.res = "ok"
    /\ ctrls' = ctrls \cup {E.val}
    /\ Push(<<Sqe("ctrl", E.val, None)>> \o AcceptAgain)
    /\ Handled
    /\ UNCHANGED <<conns, kernel, peers>>

\* The multishot accept ended (no descriptor was left): arm it again.
OnAcceptEnd ==
    /\ Handling("accept") /\ E.res # "ok"
    /\ Push(AcceptAgain)
    /\ Handled
    /\ UNCHANGED <<conns, ctrls, kernel, peers>>

\* The other end is gone, and the link's queue is empty by then.
OnCtrlEnd ==
    /\ Handling("ctrl") /\ E.res # "ok"
    /\ ctrls' = ctrls \ {E.fd}
    /\ fdt' = [fdt EXCEPT ![E.fd] = None]
    /\ Handled
    /\ UNCHANGED <<sq, conns, ring, pool, mem, backlog, ctrlq, peers>>

\* Slip: the link is not listened to any more after its first message.
RearmForgotten == <<>>

Rearm == IF E.fd \in ctrls THEN <<Sqe("ctrl", E.fd, None)>> ELSE <<>>

\* Slip: one message per link; the link is closed with what is still queued.
OnCtrlOnce ==
    /\ Handling("ctrl") /\ E.res = "ok" /\ E.fd \in ctrls /\ E.val # None
    /\ conns' = [conns EXCEPT ![E.val] = Conn(<<>>)]
    /\ Push(<<Sqe("recv", E.val, None)>>)
    /\ fdt' = [fdt EXCEPT ![E.fd] = None] /\ ctrls' = ctrls \ {E.fd}
    /\ Handled
    /\ UNCHANGED <<pool, mem, backlog, ctrlq, peers>>

\* A message that brought a socket: the client gets a fresh buffer, its
\* multishot receive is armed, and the recvmsg is posted again.
OnCtrl ==
    /\ Handling("ctrl") /\ E.res = "ok" /\ E.fd \in ctrls /\ E.val # None
    /\ conns' = [conns EXCEPT ![E.val] = Conn(<<>>)]
    /\ Push(<<Sqe("recv", E.val, None)>> \o Rearm)
    /\ Handled
    /\ UNCHANGED <<ctrls, kernel, peers>>

\* A message without one (no descriptor was free), or for no link: then its
\* socket, if it brought one, stays open and unknown.
OnCtrlEmpty ==
    /\ Handling("ctrl") /\ E.res = "ok" /\ (E.fd \notin ctrls \/ E.val = None)
    /\ Push(Rearm)
    /\ trouble' = trouble \cup ({"unlinked"} \X ({E.val} \ {None}))
    /\ Handled
    /\ UNCHANGED <<conns, ctrls, kernel, outside>>

---------------------------------------------------------------------------
(* Client connections.                                                     *)

\* close_client: close the number and forget the buffer.  Requests in flight
\* for the file are left alone.
CloseClient(f) ==
    /\ fdt' = [fdt EXCEPT ![f] = None]
    /\ conns' = [conns EXCEPT ![f] = NoConn]

\* recycle: the buffer goes to the end of the ring.
Recycle(b) == pool' = Append(pool, b) /\ mem' = [mem EXCEPT ![b] = <<>>]

\* Answers on f are still to be submitted, or known to have failed.
Unsent(f) == \/ \E i \in DOMAIN sq : sq[i].op = "send" /\ sq[i].fd = f
             \/ \E i \in DOMAIN done : done[i].op = "send" /\ done[i].fd = f /\ done[i].res # "ok"
             \/ \E i \in DOMAIN cq : cq[i].op = "send" /\ cq[i].fd = f /\ cq[i].res # "ok"

\* End of stream, an error, or no provided buffer (-ENOBUFS): all close.
OnRecvEnd ==
    /\ Handling("recv") /\ E.res # "ok"
    /\ CloseClient(E.fd)
    /\ trouble' = trouble \cup (IF Unsent(E.fd) THEN {<<"unsent", E.fd>>} ELSE {})
    /\ Handled
    /\ UNCHANGED <<sq, ctrls, ring, pool, mem, backlog, ctrlq, outside>>

Data    == mem[E.val]
Fits(f) == conns[f].some /\ Len(conns[f].buf) + Len(Data) <= BufCap

\* Slip: the early exit forgets to give the buffer back.
OnRecvRefusedLeaks ==
    /\ Handling("recv") /\ E.res = "ok" /\ ~Fits(E.fd)
    /\ CloseClient(E.fd)
    /\ Trouble("refused", E.fd)
    /\ Handled
    /\ UNCHANGED <<sq, ctrls, ring, pool, mem, backlog, ctrlq, outside>>

\* serve refuses: no connection has this number, or there is no room.  The
\* buffer is given back and the number closed; the receive stays armed.
OnRecvRefused ==
    /\ Handling("recv") /\ E.res = "ok" /\ ~Fits(E.fd)
    /\ Recycle(E.val)
    /\ CloseClient(E.fd)
    /\ Trouble("refused", E.fd)
    /\ Handled
    /\ UNCHANGED <<sq, ctrls, ring, backlog, ctrlq, outside>>

\* http::parse, as in EpollWorker.  A byte read off a control link by a
\* misdirected receive begins no request.
UnitOf(u) == IF u[1] \in Clients THEN Stream[u[1]][u[2]] ELSE [kind |-> "bad", last |-> FALSE]
\* Slip: a request counts as complete before all of it is there.
EndsEarly(b) == DOMAIN b

Ends(b)   == {i \in DOMAIN b : UnitOf(b[i]).last}
Bads(b)   == {i \in Ends(b) : UnitOf(b[i]).kind = "bad"}
Largest(S) == CHOOSE i \in S \cup {0} : \A j \in S : j <= i
Least(S)   == CHOOSE i \in S : \A j \in S : i <= j

\* The parse loop consumes up to the first request that is neither GET nor
\* POST, or all that are complete.
Consumed(b) == IF Bads(b) # {} THEN Least(Bads(b)) ELSE Largest(Ends(b))
Buf         == conns[E.fd].buf \o Data
Answers     == LET I == {i \in Ends(Buf) : i <= Consumed(Buf)}
               IN  Part([i \in DOMAIN Buf |-> Sqe("send", E.fd, Buf[i])], I)
Leftover    == Conn(SubSeq(Buf, Consumed(Buf) + 1, Len(Buf)))

\* serve: the bytes go to the end of the connection's buffer, the complete
\* requests are answered, the buffer goes back to the ring, and a receive that
\* ended is armed again.
OnRecv ==
    /\ Handling("recv") /\ E.res = "ok" /\ Fits(E.fd) /\ Bads(Buf) = {}
    /\ Recycle(E.val)
    /\ conns' = [conns EXCEPT ![E.fd] = Leftover]
    /\ Push(Answers \o IF E.more THEN <<>> ELSE <<Sqe("recv", E.fd, None)>>)
    /\ Handled
    /\ UNCHANGED <<ctrls, fdt, backlog, ctrlq, peers>>

\* The same with a request that is rejected: its 400 is pushed, and the number
\* closed before anything is submitted.
OnRecvBad ==
    /\ Handling("recv") /\ E.res = "ok" /\ Fits(E.fd) /\ Bads(Buf) # {}
    /\ Recycle(E.val)
    /\ Push(Answers)
    /\ CloseClient(E.fd)
    /\ Trouble("rejected", E.fd)
    /\ Handled
    /\ UNCHANGED <<ctrls, backlog, ctrlq, outside>>

\* Slip: a connection is closed when an answer was sent.
OnSendCloses ==
    /\ Handling("send")
    /\ CloseClient(E.fd)
    /\ Handled
    /\ UNCHANGED <<sq, ctrls, ring, pool, mem, backlog, ctrlq, peers>>

\* Only a send that failed is looked at.
OnSend ==
    /\ Handling("send")
    /\ IF E.res = "ok" THEN UNCHANGED <<fdt, conns, trouble>>
       ELSE CloseClient(E.fd) /\ Trouble("unsent", E.fd)
    /\ Handled
    /\ UNCHANGED <<sq, ctrls, ring, pool, mem, backlog, ctrlq, outside>>

Worker ==
    \/ SubmitAndWait \/ Reap
    \/ OnAccept \/ OnAcceptEnd \/ OnCtrlEnd \/ OnCtrl \/ OnCtrlEmpty
    \/ OnRecvEnd \/ OnRecv \/ OnRecvRefused \/ OnRecvBad \/ OnSend

---------------------------------------------------------------------------
(* The kernel completes requests, also while completions are handled (the  *)
(* ring without defer_taskrun that build_ring falls back to).              *)

Drop(r) == armed' = armed (-) SetToBag({r})
Post(e) == cq' = Append(cq, e)

\* A connection on the listener is accepted under the lowest free number.  (A
\* multishot accept that succeeds stays armed while completions find room.)
KernelAccept(r, l) ==
    /\ r.op = "accept" /\ l \in backlog /\ FreeFds # {}
    /\ fdt' = [fdt EXCEPT ![LowestFd] = l]
    /\ backlog' = backlog \ {l}
    /\ Post(Cqe(r, "ok", LowestFd, TRUE))
    /\ UNCHANGED <<program, armed, out, pool, mem, ctrlq, peers>>

\* With no number left the multishot accept ends.
KernelAcceptEnd(r) ==
    /\ r.op = "accept" /\ backlog # {} /\ FreeFds = {}
    /\ Drop(r) /\ Post(Cqe(r, "fail", None, FALSE))
    /\ Trouble("descriptors", None)
    /\ UNCHANGED <<program, out, kernel, outside>>

\* A message is received, and its socket installed ...
KernelCtrl(r) ==
    /\ r.op = "ctrl" /\ r.file \in Links /\ ctrlq[r.file] # <<>> /\ FreeFds # {}
    /\ ctrlq' = [ctrlq EXCEPT ![r.file] = Tail(@)]
    /\ fdt' = [fdt EXCEPT ![LowestFd] = Head(ctrlq[r.file])]
    /\ Drop(r) /\ Post(Cqe(r, "ok", LowestFd, FALSE))
    /\ UNCHANGED <<program, out, pool, mem, backlog, peers>>

\* ... or lost, with no number left: the message comes without it.
KernelCtrlLost(r) ==
    /\ r.op = "ctrl" /\ r.file \in Links /\ ctrlq[r.file] # <<>> /\ FreeFds = {}
    /\ ctrlq' = [ctrlq EXCEPT ![r.file] = Tail(@)]
    /\ Drop(r) /\ Post(Cqe(r, "ok", None, FALSE))
    /\ Trouble("descriptors", None)
    /\ UNCHANGED <<program, out, fdt, pool, mem, backlog, outside>>

Drained(x) == x \in Links /\ ctrlq[x] = <<>> /\ lbEnd[x] = "closed"

\* recvmsg reports the end of the stream only when the queue is empty; on a
\* client's socket (misdirected) it fails.
KernelCtrlEnd(r) ==
    /\ r.op = "ctrl"
    /\ r.file \in Clients \/ Drained(r.file)
    /\ Drop(r) /\ Post(Cqe(r, "fail", None, FALSE))
    /\ UNCHANGED <<program, out, kernel, peers>>

Lesser(a, b) == IF a <= b THEN a ELSE b

\* What a receive takes from file x: bytes; or, if the number it was submitted
\* for is a control link by now, a message's byte, whose socket is lost.
Incoming(x) == IF x \in Links THEN ctrlq[x] # <<>> ELSE got[x] < sent[x]
Chunk(x)    == IF x \in Links THEN <<<<x, 0>>>>
               ELSE [i \in 1..Lesser(BufLen, sent[x] - got[x]) |-> <<x, got[x] + i>>]

\* Bytes are there: they fill the next provided buffer.  A receive may also end
\* with any chunk (more).
KernelRecv(r, more) ==
    /\ r.op = "recv" /\ Incoming(r.file) /\ pool # <<>>
    /\ pool' = Tail(pool)
    /\ mem' = [mem EXCEPT ![Head(pool)] = Chunk(r.file)]
    /\ got' = [c \in Clients |-> IF c = r.file THEN got[c] + Len(Chunk(c)) ELSE got[c]]
    /\ ctrlq' = [l \in Links |-> IF l = r.file THEN Tail(ctrlq[l]) ELSE ctrlq[l]]
    /\ IF more THEN UNCHANGED armed ELSE Drop(r)
    /\ Post(Cqe(r, "ok", Head(pool), more))
    /\ UNCHANGED <<program, out, fdt, backlog, lbEnd, sent, fin, handed, trouble>>

\* With no buffer left the receive ends.
KernelNoBuffer(r) ==
    /\ r.op = "recv" /\ Incoming(r.file) /\ pool = <<>>
    /\ Drop(r) /\ Post(Cqe(r, "nobufs", None, FALSE))
    /\ Trouble("nobufs", None)
    /\ UNCHANGED <<program, out, kernel, outside>>

\* The peer is gone: end of stream, or a reset that may overtake its bytes.
KernelRecvEnd(r) ==
    /\ r.op = "recv"
    /\ r.file \in fin \/ Drained(r.file)
    /\ Drop(r) /\ Post(Cqe(r, "fail", None, FALSE))
    /\ UNCHANGED <<program, out, kernel, peers>>

Kernel == \E r \in BagToSet(armed) :
    \/ \E l \in backlog : KernelAccept(r, l)
    \/ KernelAcceptEnd(r)
    \/ KernelCtrl(r) \/ KernelCtrlLost(r) \/ KernelCtrlEnd(r)
    \/ \E more \in BOOLEAN : KernelRecv(r, more)
    \/ KernelNoBuffer(r) \/ KernelRecvEnd(r)

---------------------------------------------------------------------------
(* The load balancer and the clients.                                      *)

\* The load balancer is one process with one link to each worker: it dials
\* again when it was restarted.
LbConnect(l) ==
    /\ lbEnd[l] = "new" /\ \A k \in Links : lbEnd[k] # "open"
    /\ lbEnd' = [lbEnd EXCEPT ![l] = "open"]
    /\ backlog' = backlog \cup {l}
    /\ UNCHANGED <<program, ring, fdt, pool, mem, ctrlq, sent, got, fin, handed, trouble>>

\* A link works as long as its file exists in the worker.
Connected(l) == l \in backlog \/ (\E f \in Fds : fdt[f] = l)
                              \/ (\E r \in BagToSet(armed) : r.file = l)

LbHandOver(l, c) ==
    /\ lbEnd[l] = "open" /\ Connected(l) /\ c \notin handed
    /\ ctrlq' = [ctrlq EXCEPT ![l] = Append(@, c)]
    /\ handed' = handed \cup {c}
    /\ UNCHANGED <<program, ring, fdt, pool, mem, backlog, lbEnd, sent, got, fin, trouble>>

LbExit(l) ==
    /\ l \in Exiting /\ lbEnd[l] = "open"
    /\ lbEnd' = [lbEnd EXCEPT ![l] = "closed"]
    /\ UNCHANGED <<program, ring, kernel, sent, got, fin, handed, trouble>>

\* What a client does before its socket is handed over is as if it did it right
\* after: nothing reads the socket before.
ClientSend(c) ==
    /\ c \in handed \ fin
    /\ \E n \in (sent[c] + 1)..Len(Stream[c]) : sent' = [sent EXCEPT ![c] = n]
    /\ UNCHANGED <<program, ring, kernel, lbEnd, got, fin, handed, trouble>>

\* How many complete requests the client has sent.
Asked(c) == Cardinality({i \in 1..sent[c] : Stream[c][i].last})

\* A client that leaves with answers outstanding makes sends fail.
ClientHangUp(c) ==
    /\ c \in (Leaving \cap handed) \ fin
    /\ fin' = fin \cup {c}
    /\ IF Len(out[c]) < Asked(c) THEN Trouble("left early", None) ELSE UNCHANGED trouble
    /\ UNCHANGED <<program, ring, kernel, lbEnd, sent, got, handed>>

Environment ==
    \/ \E l \in Links : LbConnect(l) \/ LbExit(l)
    \/ \E l \in Links, c \in Clients : LbHandOver(l, c)
    \/ \E c \in Clients : ClientSend(c) \/ ClientHangUp(c)

Next == Worker \/ Kernel \/ Environment
Spec == Init /\ [][Next]_vars

---------------------------------------------------------------------------
(* Properties.  Trouble is what the program does not survive cleanly: a    *)
(* request rejected or refused, no provided buffer left, a client that left *)
(* with answers outstanding; or no descriptor left, which only costs the   *)
(* socket concerned.                                                       *)

Sound == trouble \subseteq {<<"descriptors", None>>}

\* The numbers that were closed although something was still to come for them:
\* their request was rejected or their bytes refused while the receive was armed,
\* or an answer could not be sent; and those of sockets an unknown link brought.
Spoiled == {f \in Fds : \E t \in trouble : t[2] = f}

Units == Files \X Nat
Sqes  == [op : {"accept"}, fd : {ListenFd}, ans : {None}]
         \cup [op : {"ctrl", "recv"}, fd : Fds, ans : {None}]
         \cup [op : {"send"}, fd : Fds, ans : Units]
Requests == [op : {"accept"}, fd : {ListenFd}, file : {ListenFd}]
            \cup [op : {"ctrl", "recv"}, fd : Fds, file : Files]

\* A completion says more than that it ended only in these cases.
Ended == [op : {"accept", "ctrl", "recv", "send"}, fd : Fds \cup {ListenFd},
          file : Files \cup {ListenFd, None}, res : {"ok", "fail", "nobufs"},
          val : {None}, more : {FALSE}]
News(op, fds, vals) == [op : {op}, fd : fds, file : Files \cup {ListenFd, None},
                        res : {"ok"}, val : vals, more : BOOLEAN]
Completion == {e \in Ended : /\ e.op = "accept" \/ e.fd \in Fds
                             /\ e.op \in {"accept", "recv"} => e.res # "ok"}
              \cup News("accept", {ListenFd}, Fds)
              \cup News("ctrl", Fds, Fds) \cup News("recv", Fds, Bids)

Troubles == ({"rejected", "refused", "unsent", "unlinked"} \X Fds)
            \cup ({"nobufs", "left early", "descriptors"} \X {None})

\* Every variable has its type, and no connection buffer outgrows BUF_CAP.
TypeOK ==
    /\ pc \in {"wait", "dispatch"} /\ (pc = "wait" => done = <<>>)
    /\ sq \in Seq(Sqes) /\ Len(sq) <= SqCap
    /\ done \in Seq(Completion) /\ cq \in Seq(Completion)
    /\ conns \in [Fds -> [some : BOOLEAN, buf : Seq(Units)]]
    /\ \A f \in Fds : Len(conns[f].buf) <= BufCap
    /\ ctrls \subseteq Fds
    /\ fdt \in [Fds -> Files \cup {None}]
    /\ BagToSet(armed) \subseteq Requests
    /\ pool \in Seq(Bids) /\ mem \in [Bids -> Seq(Units)]
    /\ backlog \subseteq Links /\ ctrlq \in [Links -> Seq(Clients)]
    /\ lbEnd \in [Links -> {"new", "open", "closed"}]
    /\ sent \in [Clients -> Nat] /\ got \in [Clients -> Nat]
    /\ fin \subseteq Clients /\ handed \subseteq Clients
    /\ out \in [Clients -> Seq(Units)]
    /\ trouble \subseteq Troubles

\* The places a provided buffer can be: in the ring, or named by a completion
\* that still has to be handled.
InRing(b)    == {i \in DOMAIN pool : pool[i] = b}
Naming(s, b) == {i \in DOMAIN s : s[i].op = "recv" /\ s[i].res = "ok" /\ s[i].val = b}
Places(b)    == ({"ring"} \X InRing(b)) \cup ({"cq"} \X Naming(cq, b))
                                        \cup ({"done"} \X Naming(done, b))

\* Every provided buffer is in exactly one place: none is lost (the receives of
\* all clients would run dry) and none is in the ring while its bytes are still
\* to be served (another client's would overwrite them).  Whatever happened.
BuffersAccounted == \A b \in Bids : \E p \in Places(b) : Places(b) = {p}

Elements(s) == {s[i] : i \in DOMAIN s}
Posted      == Elements(done) \cup Elements(cq)

\* A completion is handled while its number still means the file it came from,
\* though numbers are closed and reused between two wakeups and within one.  What
\* a closed connection leaves behind (close does not end an armed receive) goes
\* astray under its own number only: whatever happened to others, and whoever had
\* the number before, the completions of an unspoiled one are its own.
NoStaleCompletion ==
    \A e \in Posted : e.fd \notin Spoiled =>
        (e.op = "send" /\ e.res = "ok") \/ FileOf(e.fd) = e.file

\* How many requests of kind op for the number f are pushed, in flight, or
\* ended by a completion still to be handled.
Outstanding(op, f) ==
    LET Of(s) == Cardinality({i \in DOMAIN s : s[i].op = op /\ s[i].fd = f})
        Over(s) == Cardinality({i \in DOMAIN s : s[i].op = op /\ s[i].fd = f /\ ~s[i].more})
    IN  Of(sq) + Over(cq) + Over(done)
        + BagCardinality([r \in {q \in BagToSet(armed) : q.op = op /\ q.fd = f} |-> armed[r]])

\* A completion that announces the new descriptor f and is not handled yet.
Announced(f) ==
    \E e \in Posted : e.op \in {"accept", "ctrl"} /\ e.res = "ok" /\ e.val = f

\* Every socket the process has open under an unspoiled number is announced by
\* a completion to come, or is served: it has its buffer and exactly one receive,
\* so none is held and never read, and none is read by two receives at once.
NoSocketForgotten ==
    \A f \in Fds \ Spoiled :
        /\ fdt[f] \in Clients /\ ~Announced(f) => conns[f].some
        /\ fdt[f] \in Links /\ ~Announced(f) => f \in ctrls
        /\ conns[f].some => fdt[f] \in Clients /\ Outstanding("recv", f) = 1
        /\ f \in ctrls => fdt[f] \in Links /\ Outstanding("ctrl", f) = 1

\* Without trouble, the k-th answer on a client's socket is the answer to its
\* k-th request, though answers are separate sends, submitted later than they
\* are pushed, and their socket is named by a reusable number.
InOrderAnswers ==
    Sound => \A c \in Clients : \A k \in DOMAIN out[c] :
        LET u == out[c][k] IN
        /\ u[1] = c
        /\ UnitOf(u).last
        /\ Cardinality({i \in 1..u[2] : Stream[c][i].last}) = k

InFlight(c) == \E l \in Links : Connected(l) /\ \E i \in DOMAIN ctrlq[l] : ctrlq[l][i] = c

\* A client's socket leaves a control link only into the worker's descriptor
\* table, also when the load balancer exits with sockets still queued (the
\* end of the stream is reported after the messages).
HandOverKept ==
    [][trouble' = {} => \A c \in Clients :
          InFlight(c) => InFlight(c)' \/ \E f \in Fds : fdt'[f] = c]_vars

\* serve "returns true if the connection should be closed" (a rejected request,
\* answered with "Connection: close", or bytes that find no room), and the number
\* is closed: nothing more is received from a client whose number was closed.
ClosedIsClosed ==
    [][\A c \in Clients :
          /\ c \in handed /\ (\A f \in Fds : fdt[f] # c)
          /\ \A l \in Links : \A i \in DOMAIN ctrlq[l] : ctrlq[l][i] # c
          => got'[c] = got[c]]_vars

\* "multishot terminated (e.g. -ENOBUFS) -- re-arm": running out of provided
\* buffers costs no connection.
RearmedWhenOutOfBuffers ==
    [][\A e \in Elements(done) : e.res = "nobufs" /\ conns[e.fd].some
          => conns'[e.fd].some]_vars
====
