---- MODULE Handoff ----
(***************************************************************************)
(* What the load balancer promises about a client connection: it has one   *)
(* owner at a time; it goes to the worker whose turn it is; a worker is    *)
(* passed over, and the client dropped after the last, only if that worker *)
(* was down at some moment since the client was accepted.                  *)
(***************************************************************************)
EXTENDS Naturals

CONSTANTS Clients,
          N         \* number of workers

Workers == 0..(N - 1)

VARIABLES waiting,  \* clients not accepted yet
          carried,  \* the client the balancer is placing (at most one)
          with,     \* with[w]: clients worker w has been given
          lost,     \* clients dropped, or with a worker when it crashed
          up,       \* workers that run
          doubted,  \* workers down at some moment since the client was accepted
          turn      \* the worker due for the client being placed

vars == <<waiting, carried, with, lost, up, doubted, turn>>

Known == waiting \cup carried \cup lost \cup UNION {with[w] : w \in Workers}

\* The worker i places after w, in round-robin order.
After(w, i) == IF w + i < N THEN w + i ELSE w + i - N

Init ==
    /\ waiting = {} /\ carried = {} /\ lost = {}
    /\ with = [w \in Workers |-> {}]
    /\ up = {} /\ doubted = Workers /\ turn = N - 1

Arrive(c) ==
    /\ c \notin Known
    /\ waiting' = waiting \cup {c}
    /\ UNCHANGED <<carried, with, lost, up, doubted, turn>>

Carry(c) ==
    /\ carried = {} /\ c \in waiting
    /\ waiting' = waiting \ {c} /\ carried' = {c}
    /\ doubted' = Workers \ up
    /\ turn' = After(turn, 1)
    /\ UNCHANGED <<with, lost, up>>

\* The worker d places after the one whose turn it is.
Deliver(c, d) ==
    /\ carried = {c}
    /\ After(turn, d) \in up
    /\ \A i \in 0..(d - 1) : After(turn, i) \in doubted
    /\ with' = [with EXCEPT ![After(turn, d)] = @ \cup {c}]
    /\ carried' = {}
    /\ UNCHANGED <<waiting, lost, up, doubted, turn>>

Drop(c) ==
    /\ carried = {c}
    /\ Workers \subseteq doubted
    /\ lost' = lost \cup {c} /\ carried' = {}
    /\ UNCHANGED <<waiting, with, up, doubted, turn>>

Start(w) ==
    /\ w \notin up
    /\ up' = up \cup {w}
    /\ UNCHANGED <<waiting, carried, with, lost, doubted, turn>>

Crash(w) ==
    /\ w \in up
    /\ up' = up \ {w} /\ doubted' = doubted \cup {w}
    /\ lost' = lost \cup with[w]
    /\ with' = [with EXCEPT ![w] = {}]
    /\ UNCHANGED <<waiting, carried, turn>>

Next ==
    \/ \E c \in Clients : Arrive(c) \/ Carry(c) \/ Drop(c)
    \/ \E c \in Clients, d \in Workers : Deliver(c, d)
    \/ \E w \in Workers : Start(w) \/ Crash(w)

Spec == Init /\ [][Next]_vars
====
