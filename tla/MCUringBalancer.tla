---- MODULE MCUringBalancer ----
(* A small instance of the io_uring load balancer. *)
EXTENDS UringBalancer

CONSTANTS c1, c2, c3, c4
====
