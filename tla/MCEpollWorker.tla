---- MODULE MCEpollWorker ----
(* Small streams for the epoll worker: short and long requests, pipelined. *)
EXTENDS EpollWorker, TLC

CONSTANTS c1, c2

\* A request of n units.
Req(kind, n) == [i \in 1..n |-> [kind |-> kind, last |-> i = n]]

\* Pipelined requests against a buffer of two, and one that never fits it.
Oversize  == Req("ready", 1) \o Req("fraud", 1) \o Req("fraud", 2) \o Req("fraud", 3)
\* A request and then one the worker rejects, with bytes behind it.
Rejected  == Req("fraud", 1) \o Req("bad", 1) \o Req("ready", 1)

ReuseStreams == (c1 :> (Req("fraud", 2) \o Req("ready", 1))) @@ (c2 :> Rejected)
ServeStreams == (c1 :> Oversize) @@ (c2 :> Rejected)
LiveStreams  == (c1 :> (Req("ready", 1) \o Req("fraud", 1) \o Req("fraud", 2))) @@ (c2 :> Req("ready", 1) \o Req("bad", 1))
====
