---- MODULE MCIvfDistance ----
(***************************************************************************)
(* Vectors at the corners of their ranges.                                 *)
(***************************************************************************)
EXTENDS IvfDistance

\* even and odd coordinates, and the two that may be negative
Vector(e, o, s) == [d \in Dims |-> IF d \in {5, 6} THEN s ELSE IF d % 2 = 0 THEN e ELSE o]
Corners(es, ss) == {Vector(e, o, s) : e \in es, o \in es, s \in ss}

Asked == Corners({0, 1, 2 * Scale + 1}, {-2 * Scale, 0, 2 * Scale - 1})
Held  == Corners({0, 1, Scale}, {-Scale, Scale})
Drawn == {b \in {[lo |-> l, hi |-> h] : l \in Held, h \in Held} : Inside(b.lo, b)}
Worst == {0, 1, 8 * Scale * Scale, 20 * Scale * Scale, Half32 - 1, Half32}
====
