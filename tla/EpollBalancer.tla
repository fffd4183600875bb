---- MODULE EpollBalancer ----
(***************************************************************************)
(* The load balancer of zero-server (lb.rs, with send_fd of fdpass.rs): a  *)
(* single thread that dials a control link to every worker, then accepts   *)
(* clients one at a time and sends each one's descriptor over the link of  *)
(* the worker whose turn it is, failing over to the others.  Workers crash *)
(* and are restarted at any moment; a link is good only for the run of the *)
(* worker it was made to, and its queue of descriptors is bounded.         *)
(***************************************************************************)
EXTENDS Naturals, Sequences, FiniteSets

CONSTANTS
    Clients,
    N,           \* number of backends
    QueueCap,    \* descriptors a link can hold before sendmsg blocks
    MaxCrashes,  \* bound on crashes of workers
    MaxLinks,    \* bound on the links made to one worker
    NoClient

Workers == 0..(N - 1)
Links   == Workers \X (1..MaxLinks)   \* <<w, k>>: the k-th link made to w
NoLink  == 0                          \* ups[w] = -1

ASSUME BalancerAssumption ==
    /\ N \in Nat \ {0} /\ QueueCap \in Nat \ {0}
    /\ MaxCrashes \in Nat /\ MaxLinks \in Nat
    /\ NoClient \notin Clients

VARIABLES
    pc,       \* dial, accept, send, reconnect, resend, close
    ups,      \* ups[w]: which of the links to w is in use
    lbOpen,   \* links whose end here is open
    rr,       \* round-robin counter; only rr % n is used, so kept modulo n
    first,    \* first choice for the client at hand
    off,      \* how many backends have been given up for it
    cfd,      \* the accepted client
    ok,       \* whether a send of it succeeded
    waiting,  \* kernel: clients to accept
    up,       \* workers that run (their control socket listens)
    live,     \* links whose worker end is open
    dialed,   \* dialed[w]: links made to w
    queue,    \* queue[l]: clients in flight on l
    owned,    \* owned[w]: clients worker w has received
    lost,     \* clients dropped, or with a worker when it crashed
    started,  \* workers that have been started
    crashes,
    doubted   \* history: workers down at some moment since the accept

lb   == <<pc, ups, lbOpen, rr, first, off, cfd, ok>>
env  == <<waiting, up, live, dialed, queue, owned, lost, started, crashes, doubted>>
vars == <<pc, ups, lbOpen, rr, first, off, cfd, ok, waiting, up, live, dialed,
          queue, owned, lost, started, crashes, doubted>>

After(w, i) == IF w + i < N THEN w + i ELSE w + i - N
Idx     == After(first, off)                 \* idx, the backend being tried
Link(w) == <<w, ups[w]>>

Queued(w)  == UNION {{queue[l][i] : i \in DOMAIN queue[l]} : l \in {k \in Links : k[1] = w}}
With(w)    == owned[w] \cup Queued(w)
Carried    == IF cfd # NoClient /\ ~ok THEN {cfd} ELSE {}
Known      == waiting \cup Carried \cup lost \cup UNION {With(w) : w \in Workers}

Init ==
    /\ pc = "dial" /\ rr = 0 /\ first = N - 1 /\ off = 0
    /\ ups = [w \in Workers |-> NoLink] /\ lbOpen = {}
    /\ cfd = NoClient /\ ok = FALSE
    /\ waiting = {} /\ up = {} /\ live = {} /\ lost = {} /\ started = {}
    /\ dialed = [w \in Workers |-> 0]
    /\ queue = [l \in Links |-> <<>>]
    /\ owned = [w \in Workers |-> {}]
    /\ crashes = 0 /\ doubted = Workers

---------------------------------------------------------------------------
(* Dialling.                                                               *)

\* connect_ctrl on a worker that listens.  open is what else stays open.
Connect(w, open) ==
    /\ w \in up /\ dialed[w] < MaxLinks
    /\ dialed' = [dialed EXCEPT ![w] = @ + 1]
    /\ ups' = [ups EXCEPT ![w] = dialed[w] + 1]
    /\ lbOpen' = open \cup {<<w, dialed[w] + 1>>}
    /\ live' = live \cup {<<w, dialed[w] + 1>>}

\* connect_wait, path after path; a refused connect only sleeps and retries.
\* When the last is connected the listener is made.
Dial(w) ==
    /\ pc = "dial" /\ ups[w] = NoLink /\ \A v \in 0..(w - 1) : ups[v] # NoLink
    /\ Connect(w, lbOpen)
    /\ pc' = IF w = N - 1 THEN "accept" ELSE "dial"
    /\ UNCHANGED <<rr, first, off, cfd, ok, waiting, up, queue, owned, lost,
                   started, crashes, doubted>>

---------------------------------------------------------------------------
(* Placing one client.                                                     *)

Accept(c) ==
    /\ pc = "accept" /\ c \in waiting
    /\ waiting' = waiting \ {c} /\ cfd' = c
    /\ first' = rr /\ rr' = After(rr, 1) /\ off' = 0 /\ ok' = FALSE
    /\ doubted' = Workers \ up
    /\ pc' = "send"
    /\ UNCHANGED <<ups, lbOpen, up, live, dialed, queue, owned, lost, started, crashes>>

\* sendmsg on a live link blocks while its queue is full.
SendFd(l) ==
    /\ l \in live /\ Len(queue[l]) < QueueCap
    /\ queue' = [queue EXCEPT ![l] = Append(@, cfd)]

Send ==
    /\ pc = "send" /\ SendFd(Link(Idx))
    /\ ok' = TRUE /\ pc' = "close"
    /\ UNCHANGED <<ups, lbOpen, rr, first, off, cfd, waiting, up, live, dialed,
                   owned, lost, started, crashes, doubted>>

\* Slip: a full queue taken for a dead link, as with a nonblocking socket.
SendFailsWhenFull ==
    /\ pc = "send"
    /\ Link(Idx) \notin live \/ Len(queue[Link(Idx)]) >= QueueCap
    /\ pc' = "reconnect"
    /\ UNCHANGED <<ups, lbOpen, rr, first, off, cfd, ok, env>>

\* EPIPE or ECONNRESET on a link whose worker is gone, EBADF on -1.
SendFails ==
    /\ pc = "send" /\ Link(Idx) \notin live
    /\ pc' = "reconnect"
    /\ UNCHANGED <<ups, lbOpen, rr, first, off, cfd, ok, env>>

\* Slip: the old descriptor is overwritten, never closed.
ReconnectLeaks ==
    /\ pc = "reconnect"
    /\ Connect(Idx, lbOpen)
    /\ pc' = "resend"
    /\ UNCHANGED <<rr, first, off, cfd, ok, waiting, up, queue, owned, lost,
                   started, crashes, doubted>>

Reconnect ==
    /\ pc = "reconnect"
    /\ Connect(Idx, lbOpen \ {Link(Idx)})
    /\ pc' = "resend"
    /\ UNCHANGED <<rr, first, off, cfd, ok, waiting, up, queue, owned, lost,
                   started, crashes, doubted>>

\* Slip: the loop runs for one more backend than there are.
GiveUpLate ==
    /\ off' = IF off < N THEN off + 1 ELSE off
    /\ pc' = IF off < N THEN "send" ELSE "close"

\* Slip: the loop ends before the last backend.
GiveUpEarly ==
    /\ off' = IF off + 2 < N THEN off + 1 ELSE off
    /\ pc' = IF off + 2 < N THEN "send" ELSE "close"

\* The next backend of the loop, or its end.
GiveUp ==
    /\ off' = IF off + 1 < N THEN off + 1 ELSE off
    /\ pc' = IF off + 1 < N THEN "send" ELSE "close"

\* Slip: reconnecting waits for the worker, as at the start (connect_wait).
ReconnectWaits ==
    /\ pc = "reconnect" /\ FALSE
    /\ UNCHANGED vars

\* The old descriptor is closed, the worker refuses: ups[idx] = -1.
ReconnectFails ==
    /\ pc = "reconnect" /\ Idx \notin up
    /\ lbOpen' = lbOpen \ {Link(Idx)}
    /\ ups' = [ups EXCEPT ![Idx] = NoLink]
    /\ GiveUp
    /\ UNCHANGED <<rr, first, cfd, ok, env>>

\* Slip: the loop is not left when the retry succeeds.
ResendGoesOn ==
    /\ pc = "resend" /\ SendFd(Link(Idx))
    /\ ok' = TRUE /\ GiveUp
    /\ UNCHANGED <<ups, lbOpen, rr, first, cfd, waiting, up, live, dialed,
                   owned, lost, started, crashes, doubted>>

Resend ==
    /\ pc = "resend" /\ SendFd(Link(Idx))
    /\ ok' = TRUE /\ pc' = "close"
    /\ UNCHANGED <<ups, lbOpen, rr, first, off, cfd, waiting, up, live, dialed,
                   owned, lost, started, crashes, doubted>>

ResendFails ==
    /\ pc = "resend" /\ Link(Idx) \notin live
    /\ GiveUp
    /\ UNCHANGED <<ups, lbOpen, rr, first, cfd, ok, env>>

\* "worker now owns the fd": closed whatever ok is.  A client nobody was sent
\* loses its connection here.
Close ==
    /\ pc = "close"
    /\ lost' = lost \cup Carried
    /\ cfd' = NoClient /\ ok' = FALSE
    /\ pc' = "accept"
    /\ UNCHANGED <<ups, lbOpen, rr, first, off, waiting, up, live, dialed, queue,
                   owned, started, crashes, doubted>>

---------------------------------------------------------------------------
(* The others.                                                             *)

\* There is a listener only after the dialling.
Arrive(c) ==
    /\ pc # "dial" /\ c \notin Known
    /\ waiting' = waiting \cup {c}
    /\ UNCHANGED <<lb, up, live, dialed, queue, owned, lost, started, crashes, doubted>>

Start(w) ==
    /\ w \notin up
    /\ up' = up \cup {w} /\ started' = started \cup {w}
    /\ UNCHANGED <<lb, waiting, live, dialed, queue, owned, lost, crashes, doubted>>

\* The kernel closes what the worker holds and what is in flight to it.
Crash(w) ==
    /\ w \in up /\ crashes < MaxCrashes
    /\ crashes' = crashes + 1
    /\ up' = up \ {w} /\ live' = {l \in live : l[1] # w}
    /\ queue' = [l \in Links |-> IF l[1] = w THEN <<>> ELSE queue[l]]
    /\ owned' = [owned EXCEPT ![w] = {}]
    /\ lost' = lost \cup With(w)
    /\ doubted' = doubted \cup {w}
    /\ UNCHANGED <<lb, waiting, dialed, started>>

\* recv_fd, one descriptor: drain_fds loops until the queue is empty.
WorkerReceives(w) ==
    /\ w \in up
    /\ \E l \in live :
          /\ l[1] = w /\ queue[l] # <<>>
          /\ owned' = [owned EXCEPT ![w] = @ \cup {Head(queue[l])}]
          /\ queue' = [queue EXCEPT ![l] = Tail(@)]
    /\ UNCHANGED <<lb, waiting, up, live, dialed, lost, started, crashes, doubted>>

Balancer ==
    \/ \E w \in Workers : Dial(w)
    \/ \E c \in Clients : Accept(c)
    \/ Send \/ SendFails \/ Reconnect \/ ReconnectFails \/ Resend \/ ResendFails \/ Close

Next ==
    \/ Balancer
    \/ \E c \in Clients : Arrive(c)
    \/ \E w \in Workers : Start(w) \/ Crash(w) \/ WorkerReceives(w)

Spec == Init /\ [][Next]_vars

\* The balancer's thread runs; a worker is started once, though nothing says
\* that it is started again after a crash; a running worker reads its links.
FairSpec ==
    /\ Spec /\ WF_vars(Balancer)
    /\ \A w \in Workers : /\ WF_vars(w \notin started /\ Start(w))
                          /\ WF_vars(WorkerReceives(w))

---------------------------------------------------------------------------
(* Properties.                                                             *)

\* Every variable has its type.
TypeOK ==
    /\ pc \in {"dial", "accept", "send", "reconnect", "resend", "close"}
    /\ ups \in [Workers -> 0..MaxLinks] /\ lbOpen \subseteq Links
    /\ rr \in Workers /\ first \in Workers /\ off \in Workers
    /\ cfd \in Clients \cup {NoClient} /\ ok \in BOOLEAN
    /\ waiting \subseteq Clients /\ lost \subseteq Clients
    /\ up \subseteq Workers /\ started \subseteq Workers /\ doubted \subseteq Workers
    /\ live \subseteq Links
    /\ dialed \in [Workers -> 0..MaxLinks]
    /\ queue \in [Links -> Seq(Clients)]
    /\ owned \in [Workers -> SUBSET Clients]
    /\ crashes \in 0..MaxCrashes

\* A client is in one place: no failover, retry or restart leaves its
\* descriptor with two workers, or twice with one.
Copies(c) == Cardinality({p \in Links \X (1..QueueCap) :
                             p[2] \in DOMAIN queue[p[1]] /\ queue[p[1]][p[2]] = c})
             + Cardinality({w \in Workers : c \in owned[w]})
OneOwner ==
    \A c \in Clients :
        /\ Copies(c) <= 1
        /\ Copies(c) = 1 => c \notin waiting \cup lost \cup Carried

\* The only control descriptors open are the ones in use, however many
\* workers have come and gone.
NoLinkLeaked == lbOpen \subseteq {Link(w) : w \in Workers}

\* Clients in flight are on a link the balancer still holds open: the worker
\* drops what is queued on a link that hangs up.
NoQueueAbandoned == \A l \in live : queue[l] # <<>> => l \in lbOpen

\* The balancer keeps the promises of Handoff.
Promise == INSTANCE Handoff WITH carried <- Carried, turn <- first,
                                 with <- [w \in Workers |-> With(w)]
KeepsPromise == Promise!Spec

\* Every client that is waiting gets a worker or is dropped, even if crashed
\* workers stay away.
EveryClientPlaced == \A c \in Clients : c \in waiting ~> c \notin waiting \cup Carried
====
