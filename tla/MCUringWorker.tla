---- MODULE MCUringWorker ----
(* Small streams for the io_uring worker. *)
EXTENDS UringWorker, TLC

CONSTANTS c1, c2, l1, l2

\* A request of n units.
Req(kind, n) == [i \in 1..n |-> [kind |-> kind, last |-> i = n]]

\* A long request and two short ones, four units against a buffer of two; and a
\* request that is rejected.
MixedStreams ==
    (c1 :> (Req("fraud", 2) \o Req("ready", 1) \o Req("fraud", 1))) @@ (c2 :> Req("bad", 1))

\* A client that goes on after a request that is rejected.
PersistentStreams ==
    (c1 :> Req("ready", 1)) @@ (c2 :> (Req("bad", 1) \o Req("ready", 1)))
====
