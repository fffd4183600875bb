---- MODULE MCEpollBalancer ----
(* The clients of EpollBalancer. *)
EXTENDS EpollBalancer

CONSTANTS c1, c2, c3

ThreeClients == {c1, c2, c3}
====
