---- MODULE NearestVote ----
(***************************************************************************)
(* What a search of the index promises: an answer in the band it was asked *)
(* to be exact in is the number of fraud labels among Top reference        *)
(* vectors no other reference is nearer than.  Ties may be broken either   *)
(* way.  A band of all answers asks for an exact search.                   *)
(***************************************************************************)
EXTENDS Naturals, Sequences, FiniteSets

CONSTANTS
    Indexes,      \* Indexes: sets of clusters of reference vectors
    Queries,      \* vectors that are asked for
    Top,          \* how many neighbours vote
    Dist(_, _),   \* distance between a query and a reference
    Label(_),     \* 1 for a fraud, 0 for a legitimate reference
    NoAnswer      \* the answer before the search

VARIABLES index, query,
          band,     \* the answers that are given only when they are exact
          answer

\* A reference is named by its cluster and its place in it.
Refs(ix) == UNION {{c} \X DOMAIN ix[c] : c \in DOMAIN ix}
RefAt(ix, p) == ix[p[1]][p[2]]

IsNearest(ix, q, S) ==
    /\ Cardinality(S) = Top \/ S = Refs(ix)
    /\ Cardinality(S) <= Top
    /\ \A s \in S, r \in Refs(ix) \ S : Dist(q, RefAt(ix, s)) <= Dist(q, RefAt(ix, r))

Frauds(ix, S) == Cardinality({s \in S : Label(RefAt(ix, s)) = 1})

Votes(ix, q) == {Frauds(ix, S) : S \in {T \in SUBSET Refs(ix) : IsNearest(ix, q, T)}}

Init ==
    /\ index \in Indexes /\ query \in Queries /\ band \subseteq 0..Top
    /\ answer = NoAnswer

Answer ==
    /\ answer = NoAnswer
    /\ answer' \in 0..Top
    /\ answer' \in band => answer' \in Votes(index, query)
    /\ UNCHANGED <<index, query, band>>

Next == Answer
Spec == Init /\ [][Next]_<<index, query, band, answer>>
====
