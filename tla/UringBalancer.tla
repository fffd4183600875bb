---- MODULE UringBalancer ----
(***************************************************************************)
(* The io_uring load balancer of zero-server (lb_uring.rs).  Accepts and   *)
(* sends are asynchronous: an accepted client is put into a message that   *)
(* the kernel reads later, so the message is pinned in a slab slot until   *)
(* its completion arrives, and only then the client's descriptor is closed. *)
(* The links to the workers are dialled once: nothing is retried, and a    *)
(* worker that went away is never replaced.                                *)
(*                                                                         *)
(* Requests carry the client they were made for (who), which the program   *)
(* does not see: it knows slots and descriptor numbers.                    *)
(***************************************************************************)
EXTENDS Naturals, Sequences, FiniteSets

CONSTANTS
    Clients,   \* connections that may arrive
    N,         \* number of workers
    MaxFd,     \* largest descriptor the process may hold for clients
    SqCap,     \* capacity of the submission queue (SQ_ENTRIES)
    QueueCap,  \* messages a control link holds
    Reliable,  \* workers that stay up and keep taking clients
    None       \* no client

Workers == 0..(N - 1)
Fds     == 0..MaxFd

ASSUME UringBalancerAssumption ==
    /\ N \in Nat \ {0} /\ MaxFd \in Nat
    /\ SqCap \in Nat \ {0} /\ QueueCap \in Nat \ {0}
    /\ Reliable \subseteq Workers
    /\ None \notin Clients \cup Fds

VARIABLES
    pc,        \* wait (in the kernel) or dispatch
    sq,        \* requests pushed and not submitted
    done,      \* completions of this wakeup not yet handled, in order
    slots,     \* slots[i]: the descriptor in the message of slot i, or None
    free,      \* indices of free slots, a stack
    rr,        \* how many clients have been assigned
    fdt,       \* kernel: the client behind each descriptor
    accepting, \* kernel: the multishot accept is armed
    flying,    \* kernel: sends in flight
    cq,        \* kernel: completions posted
    backlog,   \* kernel: clients waiting in the listener, in order
    queue,     \* kernel: queue[w], clients in flight on the link to w
    up,        \* workers that are up
    arrived,   \* clients that connected
    order,     \* history: the clients accepted, in order
    given      \* history: given[c], the workers c was given to, in order

program == <<pc, sq, done, slots, free, rr>>
vars == <<pc, sq, done, slots, free, rr, fdt, accepting, flying, cq, backlog,
          queue, up, arrived, order, given>>

Accept        == [op |-> "accept"]
Send(w, i, c) == [op |-> "send", w |-> w, slot |-> i, who |-> c]
Accepted(f, more) == [op |-> "accept", fd |-> f, more |-> more]
Sent(s)           == [op |-> "send", slot |-> s.slot, who |-> s.who]

Init ==
    /\ pc = "dispatch" /\ sq = <<Accept>> /\ done = <<>>
    /\ slots = <<>> /\ free = <<>> /\ rr = 0
    /\ fdt = [f \in Fds |-> None]
    /\ accepting = FALSE /\ flying = {} /\ cq = <<>>
    /\ backlog = <<>> /\ queue = [w \in Workers |-> <<>>]
    /\ up = Workers /\ arrived = {}
    /\ order = <<>> /\ given = [c \in Clients |-> <<>>]

---------------------------------------------------------------------------
(* The event loop.                                                         *)

Elements(s) == {s[i] : i \in DOMAIN s}

Submit(es) ==
    /\ accepting' = (accepting \/ Accept \in Elements(es))
    /\ flying' = flying \cup (Elements(es) \ {Accept})

\* Slip: a full queue is written past its end.
PushPastEnd(es) == sq' = sq \o es /\ UNCHANGED <<accepting, flying>>

\* push, for the requests es in turn (at most two): what a full queue holds is
\* submitted first.
Push(es) ==
    LET all  == sq \o es
        over == IF Len(all) <= SqCap THEN 0 ELSE SqCap * ((Len(all) - 1) \div SqCap)
    IN  /\ sq' = SubSeq(all, over + 1, Len(all))
        /\ Submit(SubSeq(all, 1, over))

SubmitAndWait ==
    /\ pc = "dispatch" /\ done = <<>>
    /\ Submit(sq) /\ sq' = <<>> /\ pc' = "wait"
    /\ UNCHANGED <<done, slots, free, rr, fdt, cq, backlog, queue, up, arrived, order, given>>

Reap ==
    /\ pc = "wait" /\ cq # <<>>
    /\ done' = cq /\ cq' = <<>> /\ pc' = "dispatch"
    /\ UNCHANGED <<sq, slots, free, rr, fdt, accepting, flying, backlog, queue, up,
                   arrived, order, given>>

E == Head(done)

\* SendSlab::alloc reuses the slot freed last, or adds one.
Slot == IF free # <<>> THEN free[Len(free)] ELSE Len(slots) + 1

\* Slip: the slot stays in the free list.
AllocKeepsFree(f) ==
    IF free # <<>> THEN slots' = [slots EXCEPT ![Slot] = f] /\ UNCHANGED free
    ELSE slots' = Append(slots, f) /\ UNCHANGED free

Alloc(f) ==
    IF free # <<>>
    THEN slots' = [slots EXCEPT ![Slot] = f] /\ free' = SubSeq(free, 1, Len(free) - 1)
    ELSE slots' = Append(slots, f) /\ UNCHANGED free

Rearm == IF E.more THEN <<>> ELSE <<Accept>>

\* Slip: a client goes to the worker of its slot's number.
PickBySlot == Slot % N

Pick == rr % N

\* Slip: the client is closed when its send is pushed.
OnAcceptCloses ==
    /\ pc = "dispatch" /\ done # <<>> /\ E.op = "accept" /\ E.fd # None
    /\ Alloc(E.fd)
    /\ rr' = rr + 1
    /\ Push(<<Send(Pick, Slot, fdt[E.fd])>> \o Rearm)
    /\ done' = Tail(done)
    /\ order' = Append(order, fdt[E.fd])
    /\ fdt' = [fdt EXCEPT ![E.fd] = None]
    /\ UNCHANGED <<pc, cq, backlog, queue, up, arrived, given>>

\* A client was accepted: its message is pinned and the send pushed; an accept
\* that ended is pushed again.
OnAccept ==
    /\ pc = "dispatch" /\ done # <<>> /\ E.op = "accept" /\ E.fd # None
    /\ Alloc(E.fd)
    /\ rr' = rr + 1
    /\ Push(<<Send(Pick, Slot, fdt[E.fd])>> \o Rearm)
    /\ done' = Tail(done)
    /\ order' = Append(order, fdt[E.fd])
    /\ UNCHANGED <<pc, fdt, cq, backlog, queue, up, arrived, given>>

\* The accept failed (no descriptor was left).
OnAcceptEnd ==
    /\ pc = "dispatch" /\ done # <<>> /\ E.op = "accept" /\ E.fd = None
    /\ Push(Rearm)
    /\ done' = Tail(done)
    /\ UNCHANGED <<pc, slots, free, rr, fdt, cq, backlog, queue, up, arrived, order, given>>

\* Slip: the emptied slot is not put on the free list.
TakeForgetsFree(i) == slots' = [slots EXCEPT ![i] = None] /\ UNCHANGED free

\* SendSlab::take.
Take(i) == slots' = [slots EXCEPT ![i] = None] /\ free' = Append(free, i)

\* A send completed, well or not: the message is freed and the client closed.
OnSend ==
    /\ pc = "dispatch" /\ done # <<>> /\ E.op = "send"
    /\ IF slots[E.slot] # None
       THEN Take(E.slot) /\ fdt' = [fdt EXCEPT ![slots[E.slot]] = None]
       ELSE UNCHANGED <<slots, free, fdt>>
    /\ done' = Tail(done)
    /\ UNCHANGED <<pc, sq, rr, accepting, flying, cq, backlog, queue, up, arrived,
                   order, given>>

Program == SubmitAndWait \/ Reap \/ OnAccept \/ OnAcceptEnd \/ OnSend

---------------------------------------------------------------------------
(* The kernel.                                                             *)

FreeFds  == {f \in Fds : fdt[f] = None}
LowestFd == CHOOSE f \in FreeFds : \A g \in FreeFds : f <= g

KernelAccept(more) ==
    /\ accepting /\ backlog # <<>> /\ FreeFds # {}
    /\ backlog' = Tail(backlog)
    /\ fdt' = [fdt EXCEPT ![LowestFd] = Head(backlog)]
    /\ cq' = Append(cq, Accepted(LowestFd, more))
    /\ accepting' = more
    /\ UNCHANGED <<program, flying, queue, up, arrived, order, given>>

KernelAcceptEnd ==
    /\ accepting /\ backlog # <<>> /\ FreeFds = {}
    /\ cq' = Append(cq, Accepted(None, FALSE))
    /\ accepting' = FALSE
    /\ UNCHANGED <<program, fdt, flying, backlog, queue, up, arrived, order, given>>

\* A message is read, and its descriptor looked up, when the send is carried
\* out: when the link has room, or its other end is gone.  Sends that had to
\* wait are carried out in any order.
InMessage(s) == IF slots[s.slot] = None THEN None ELSE fdt[slots[s.slot]]

KernelSend(w) ==
    /\ w \in up /\ Len(queue[w]) < QueueCap
    /\ \E s \in flying :
         /\ s.w = w
         /\ flying' = flying \ {s}
         /\ cq' = Append(cq, Sent(s))
         /\ IF InMessage(s) = None THEN UNCHANGED <<queue, given>>
            ELSE /\ queue' = [queue EXCEPT ![w] = Append(@, InMessage(s))]
                 /\ given' = [given EXCEPT ![InMessage(s)] = Append(@, w)]
    /\ UNCHANGED <<program, fdt, accepting, backlog, up, arrived, order>>

KernelSendFails(w) ==
    /\ w \notin up
    /\ \E s \in flying :
         s.w = w /\ flying' = flying \ {s} /\ cq' = Append(cq, Sent(s))
    /\ UNCHANGED <<program, fdt, accepting, backlog, queue, up, arrived, order, given>>

---------------------------------------------------------------------------
(* The clients and the workers.                                            *)

Arrive(c) ==
    /\ c \notin arrived
    /\ arrived' = arrived \cup {c} /\ backlog' = Append(backlog, c)
    /\ UNCHANGED <<program, fdt, accepting, flying, cq, queue, up, order, given>>

WorkerTakes(w) ==
    /\ w \in up /\ queue[w] # <<>>
    /\ queue' = [queue EXCEPT ![w] = Tail(@)]
    /\ UNCHANGED <<program, fdt, accepting, flying, cq, backlog, up, arrived, order, given>>

WorkerCrashes(w) ==
    /\ w \in up \ Reliable
    /\ up' = up \ {w} /\ queue' = [queue EXCEPT ![w] = <<>>]
    /\ UNCHANGED <<program, fdt, accepting, flying, cq, backlog, arrived, order, given>>

Next ==
    \/ SubmitAndWait \/ Reap \/ OnAccept \/ OnAcceptEnd \/ OnSend
    \/ (\E more \in BOOLEAN : KernelAccept(more)) \/ KernelAcceptEnd
    \/ \E w \in Workers : KernelSend(w) \/ KernelSendFails(w)
    \/ \E w \in Workers : WorkerTakes(w) \/ WorkerCrashes(w)
    \/ \E c \in Clients : Arrive(c)

Spec == Init /\ [][Next]_vars

\* The thread waits only for completions; the kernel accepts and sends what it
\* can; only the reliable workers need to keep taking clients.
FairSpec ==
    /\ Spec
    /\ WF_vars(Program)
    /\ WF_vars(\E more \in BOOLEAN : KernelAccept(more)) /\ WF_vars(KernelAcceptEnd)
    /\ \A w \in Workers : WF_vars(KernelSend(w)) /\ WF_vars(KernelSendFails(w))
    /\ \A w \in Reliable : WF_vars(WorkerTakes(w))

---------------------------------------------------------------------------
(* Properties.                                                             *)

Sends == [op : {"send"}, w : Workers, slot : Nat \ {0}, who : Clients]
Completions == [op : {"accept"}, fd : Fds \cup {None}, more : BOOLEAN]
               \cup [op : {"send"}, slot : Nat \ {0}, who : Clients]

\* Every variable has its type.
TypeOK ==
    /\ pc \in {"wait", "dispatch"} /\ (pc = "wait" => done = <<>>)
    /\ sq \in Seq({Accept} \cup Sends) /\ Len(sq) <= SqCap
    /\ done \in Seq(Completions) /\ cq \in Seq(Completions)
    /\ slots \in Seq(Fds \cup {None}) /\ free \in Seq(Nat \ {0}) /\ rr \in Nat
    /\ fdt \in [Fds -> Clients \cup {None}]
    /\ accepting \in BOOLEAN /\ flying \subseteq Sends
    /\ backlog \in Seq(Clients) /\ queue \in [Workers -> Seq(Clients)]
    /\ up \subseteq Workers /\ arrived \subseteq Clients
    /\ order \in Seq(Clients) /\ given \in [Clients -> Seq(Workers)]

\* The places a send can be: pushed, in flight, or completed and not handled.
SendsIn(tag, s) == {<<tag, i>> : i \in {j \in DOMAIN s : s[j].op = "send"}}
Pending == SendsIn("sq", sq) \cup ({"flying"} \X flying)
           \cup SendsIn("cq", cq) \cup SendsIn("done", done)
SendAt(p) == CASE p[1] = "sq" -> sq[p[2]] [] p[1] = "cq" -> cq[p[2]]
               [] p[1] = "done" -> done[p[2]] [] OTHER -> p[2]

\* The slot of a pending send holds the descriptor of its own client, which is
\* still open, and no two pending sends share a slot.
Pinned ==
    /\ \A p \in Pending :
         LET s == SendAt(p) IN
         s.slot \in DOMAIN slots /\ slots[s.slot] \in Fds /\ fdt[slots[s.slot]] = s.who
    /\ \A p, q \in Pending : SendAt(p).slot = SendAt(q).slot => p = q

\* A slot is free, listed once, or belongs to a pending send; a client the
\* process holds is announced by an accept or is in a slot.
NothingLeaked ==
    /\ \A i \in DOMAIN slots :
         IF slots[i] = None THEN Cardinality({j \in DOMAIN free : free[j] = i}) = 1
         ELSE /\ i \notin Elements(free)
              /\ \E p \in Pending : SendAt(p).slot = i
    /\ \A f \in Fds : fdt[f] # None =>
         \/ \E s \in {cq, done} : \E j \in DOMAIN s : s[j].op = "accept" /\ s[j].fd = f
         \/ \E i \in DOMAIN slots : slots[i] = f

\* A message stays pinned until its completion is handled ("it must outlive the
\* SQE until the send CQE arrives"), and no longer, however slots and
\* descriptor numbers are reused: nothing is overwritten and nothing leaks.
SlabPinned == Pinned /\ NothingLeaked

\* Clients go round the workers in the order they were accepted, and each to
\* one worker only, whatever order their sends are carried out in.
InRotation ==
    \A k \in DOMAIN order : \A i \in DOMAIN given[order[k]] :
        i = 1 /\ given[order[k]][i] = (k - 1) % N

\* The balancer lets go of a client only when its worker has it, or is gone.
ClosedWhenGiven ==
    [][\A f \in Fds : fdt[f] # None /\ fdt'[f] # fdt[f] =>
          \/ given[fdt[f]] # <<>>
          \/ \E k \in DOMAIN order : order[k] = fdt[f] /\ (k - 1) % N \notin up]_vars

\* A worker that hangs or crashed delays no client of another once accepted: a
\* client accepted for a reliable worker is given to it.
OthersServed ==
    \A c \in Clients : \A w \in Reliable :
        (\E k \in DOMAIN order : order[k] = c /\ (k - 1) % N = w) ~> given[c] # <<>>
====
