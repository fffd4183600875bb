---- MODULE UringWorkerProofs ----
(***************************************************************************)
(* What holds of the io_uring worker for any number of clients, links,     *)
(* descriptors and provided buffers, any sizes of the queues and the       *)
(* buffers, and any streams.                                               *)
(***************************************************************************)
EXTENDS UringWorker, NatLemmas

---------------------------------------------------------------------------
(* The operators of the model.                                             *)

LEMMA PartProperties ==
    ASSUME NEW S, NEW s, NEW I \in SUBSET Nat, IsFiniteSet(I), \A i \in I : s[i] \in S
    PROVE  /\ Part(s, I) \in Seq(S) /\ Len(Part(s, I)) = Cardinality(I)
           /\ \A k \in 1..Cardinality(I) : \E i \in I : Rank(i, I) = k /\ Part(s, I)[k] = s[i]
<1> DEFINE n == Cardinality(I)
           at(k) == CHOOSE i \in I : Rank(i, I) = k
<1>1. n \in Nat
  BY FS_CardinalityType
<1>2. \A k \in 1..n : at(k) \in I /\ Rank(at(k), I) = k
  <2>1. \A k \in 1..n : \E i \in I : Rank(i, I) = k
    BY RankOnto
  <2> QED BY <2>1
<1>3. Part(s, I) = [k \in 1..n |-> s[at(k)]]
  BY DEF Part, Rank
<1> HIDE DEF n, at
<1>4. \A k \in 1..n : s[at(k)] \in S
  BY <1>2
<1>5. Part(s, I) \in Seq(S)
  BY <1>1, <1>3, <1>4, IsASeq
<1>6. DOMAIN Part(s, I) = 1..n
  BY <1>3
<1>7. Len(Part(s, I)) = n
  BY <1>1, <1>5, <1>6, LenProperties
<1>8. \A k \in 1..n : \E i \in I : Rank(i, I) = k /\ Part(s, I)[k] = s[i]
  BY <1>2, <1>3
<1> QED BY <1>5, <1>7, <1>8 DEF n

LEMMA LowestFdIsFree ==
    ASSUME FreeFds # {}
    PROVE  LowestFd \in Fds /\ fdt[LowestFd] = None
<1>1. FreeFds \in SUBSET Nat
  BY UringAssumption DEF FreeFds, Fds
<1>2. \E f \in FreeFds : \A g \in FreeFds : f <= g
  BY <1>1, SmallestNat
<1>3. LowestFd \in FreeFds
  BY <1>2 DEF LowestFd
<1> QED BY <1>3 DEF FreeFds

LEMMA ConsumedInside ==
    ASSUME NEW b \in Seq(Units)
    PROVE  /\ Consumed(b) \in 0..Len(b)
           /\ Consumed(b) \in Ends(b) \cup {0}
           /\ Bads(b) # {} => Consumed(b) \in Bads(b) /\ \A i \in Bads(b) : Consumed(b) <= i
           /\ Bads(b) = {} => \A i \in Ends(b) : i <= Consumed(b)
<1>1. Len(b) \in Nat /\ Ends(b) \subseteq 1..Len(b) /\ Bads(b) \subseteq Ends(b)
  BY LenProperties DEF Ends, Bads
<1>2. ASSUME Bads(b) # {}
      PROVE  Consumed(b) \in Bads(b) /\ \A i \in Bads(b) : Consumed(b) <= i
  <2>1. Bads(b) \in SUBSET Nat
    BY <1>1
  <2>2. \E i \in Bads(b) : \A j \in Bads(b) : i <= j
    BY <1>2, <2>1, SmallestNat
  <2> QED BY <1>2, <2>2 DEF Consumed, Least
<1>3. ASSUME Bads(b) = {}
      PROVE  Consumed(b) \in Ends(b) \cup {0} /\ \A i \in Ends(b) : i <= Consumed(b)
  <2> DEFINE S == Ends(b) \cup {0}
  <2>1. S \in SUBSET (0..Len(b)) /\ S # {}
    BY <1>1
  <2>2. \E i \in S : \A j \in S : j <= i
    BY <1>1, <2>1, LargestNat
  <2>3. Consumed(b) = CHOOSE i \in S : \A j \in Ends(b) : j <= i
    BY <1>3 DEF Consumed, Largest
  <2> QED BY <2>2, <2>3
<1> QED BY <1>1, <1>2, <1>3

---------------------------------------------------------------------------
(* Submitting and pushing.                                                 *)

\* Completions that name no provided buffer.
Quiet == {e \in Completion : ~ (e.op = "recv" /\ e.res = "ok")}

LEMMA FileOfType ==
    ASSUME TypeOK, NEW f \in Fds
    PROVE  FileOf(f) = fdt[f] /\ FileOf(f) \in Files \cup {None}
    BY UringAssumption DEF TypeOK, FileOf

LEMMA ListenerFile == FileOf(ListenFd) = ListenFd /\ ListenFd # None
    BY UringAssumption DEF FileOf

\* The requests of a kind for a descriptor, pushed or in flight.
SqOf(op, f)  == {e \in Sqes : e.op = op /\ e.fd = f}
Copies(r, a) == IF r \in DOMAIN a THEN a[r] ELSE 0

\* A completion with which a submission is over at once: a send, or a request
\* whose descriptor is closed.
Results(es) ==
    {e \in Completion : \E i \in DOMAIN es :
        /\ e.op = es[i].op /\ e.fd = es[i].fd /\ e.file = FileOf(es[i].fd)
        /\ e.val = None /\ ~ e.more
        /\ e.op # "send" => FileOf(es[i].fd) = None /\ e.res = "fail"
        /\ e.op = "send" /\ e.res # "ok" => FileOf(es[i].fd) \in fin \cup {None}}

LEMMA SqeCases ==
    ASSUME NEW e \in Sqes
    PROVE  \/ e.op = "accept" /\ e.fd = ListenFd
           \/ e.op \in {"ctrl", "recv"} /\ e.fd \in Fds
           \/ e.op = "send" /\ e.fd \in Fds /\ e.ans \in Units
    BY DEF Sqes

LEMMA SubmitEffect ==
    ASSUME TypeOK, NEW es \in Seq(Sqes), Submit(es)
    PROVE  /\ \E s \in Seq(Results(es)) : cq' = cq \o s
           /\ DOMAIN armed' \subseteq Requests
           /\ \A r \in DOMAIN armed' : r \in DOMAIN armed \/
                 \E i \in DOMAIN es : /\ es[i].op # "send"
                                      /\ r = Request(es[i].op, es[i].fd, FileOf(es[i].fd))
           /\ (\A r \in DOMAIN armed : armed[r] \in Nat \ {0})
                 => /\ \A r \in DOMAIN armed' : armed'[r] \in Nat \ {0}
                    /\ \A op \in {"ctrl", "recv"}, f \in Fds :
                          fdt[f] # None \/ (\A i \in DOMAIN es : FileOf(es[i].fd) # None) =>
                          Copies(Request(op, f, fdt[f]), armed')
                             = Copies(Request(op, f, fdt[f]), armed) + Count(es, SqOf(op, f))
<1> DEFINE Over == {i \in DOMAIN es : Completes(es[i])}
           Held == DOMAIN es \ Over
           Req(i) == Request(es[i].op, es[i].fd, FileOf(es[i].fd))
           new == [r \in {Req(i) : i \in Held} |-> Cardinality({i \in Held : Req(i) = r})]
           Post2(i, gone) == Cqe(Req(i), IF FileOf(es[i].fd) \in gone \cup {None}
                                         THEN "fail" ELSE "ok", None, FALSE)
<1>1. /\ armed' = armed (+) new
      /\ \E gone \in SUBSET fin : cq' = cq \o Part([i \in DOMAIN es |-> Post2(i, gone)], Over)
  BY Zenon DEF Submit
<1>2. /\ Len(es) \in Nat /\ DOMAIN es = 1..Len(es)
      /\ \A i \in DOMAIN es : es[i] \in Sqes
  BY LenProperties, ElementOfSeq
<1>3. IsFiniteSet(DOMAIN es) /\ DOMAIN es \subseteq Nat
  BY <1>2, FS_Interval
<1>4. \A i \in DOMAIN es :
         \/ es[i].op = "accept" /\ es[i].fd = ListenFd /\ FileOf(es[i].fd) = ListenFd
         \/ es[i].op \in {"ctrl", "recv"} /\ es[i].fd \in Fds /\ FileOf(es[i].fd) = fdt[es[i].fd]
         \/ es[i].op = "send" /\ es[i].fd \in Fds /\ FileOf(es[i].fd) = fdt[es[i].fd]
  BY <1>2, SqeCases, ListenerFile, FileOfType
<1>7. Over \in SUBSET Nat /\ IsFiniteSet(Over) /\ IsFiniteSet(Held)
  <2>1. Over \in SUBSET DOMAIN es /\ Held \in SUBSET DOMAIN es
    OBVIOUS
  <2> QED BY <1>3, <2>1, FS_Subset
<1>8. ASSUME NEW gone \in SUBSET fin, NEW i \in Over PROVE Post2(i, gone) \in Results(es)
  <2>1. i \in DOMAIN es /\ (es[i].op = "send" \/ FileOf(es[i].fd) = None)
    BY DEF Completes
  <2>2. es[i].op \in {"ctrl", "recv", "send"} /\ es[i].fd \in Fds
    BY <1>4, <2>1, ListenerFile
  <2>3. FileOf(es[i].fd) \in Files \cup {None}
    BY <2>2, FileOfType
  <2>4. es[i].op # "send" => FileOf(es[i].fd) \in gone \cup {None}
    BY <2>1
  <2>5. /\ Post2(i, gone).op = es[i].op /\ Post2(i, gone).fd = es[i].fd
        /\ Post2(i, gone).file = FileOf(es[i].fd) /\ Post2(i, gone).val = None
        /\ ~ Post2(i, gone).more
        /\ Post2(i, gone) \in Ended
        /\ es[i].op # "send" => Post2(i, gone).res = "fail"
        /\ Post2(i, gone).res # "ok" => FileOf(es[i].fd) \in fin \cup {None}
    BY <2>2, <2>3, <2>4 DEF Cqe, Request, Ended
  <2>6. Post2(i, gone) \in Completion
    BY <2>2, <2>5 DEF Completion
  <2> QED BY <2>1, <2>5, <2>6 DEF Results
<1>9. \E s \in Seq(Results(es)) : cq' = cq \o s
  <2>1. PICK gone \in SUBSET fin : cq' = cq \o Part([i \in DOMAIN es |-> Post2(i, gone)], Over)
    BY <1>1
  <2> DEFINE post == [i \in DOMAIN es |-> Post2(i, gone)]
  <2>2. \A i \in Over : post[i] \in Results(es)
    BY <1>8
  <2> HIDE DEF post, Over
  <2>3. Part(post, Over) \in Seq(Results(es))
    BY <1>7, <2>2, PartProperties
  <2> QED BY <2>1, <2>3 DEF post
<1>10. DOMAIN armed' \subseteq Requests
  <2>1. ASSUME NEW i \in Held PROVE Req(i) \in Requests
    <3>1. i \in DOMAIN es /\ es[i].op # "send" /\ FileOf(es[i].fd) # None
      BY DEF Completes
    <3>2. CASE es[i].op = "accept" /\ es[i].fd = ListenFd
      BY <3>2, ListenerFile DEF Request, Requests
    <3>3. CASE es[i].op \in {"ctrl", "recv"} /\ es[i].fd \in Fds
      BY <3>1, <3>3, FileOfType DEF Request, Requests
    <3> QED BY <1>4, <3>1, <3>2, <3>3
  <2>2. DOMAIN armed' = DOMAIN armed \cup {Req(i) : i \in Held}
    BY <1>1 DEF (+)
  <2> QED BY <2>1, <2>2 DEF TypeOK, BagToSet
<1>12. \A i \in Held : i \in DOMAIN es
  OBVIOUS
<1>13. \A i \in DOMAIN es : i \in Held <=> es[i].op # "send" /\ FileOf(es[i].fd) # None
  BY DEF Completes
<1> HIDE DEF Over
<1>11. DOMAIN new = {Req(i) : i \in Held} /\ DOMAIN armed' = DOMAIN armed \cup DOMAIN new
  BY <1>1 DEF (+)
<1>14. \A r \in DOMAIN armed' : r \in DOMAIN armed \/
          \E i \in DOMAIN es : /\ es[i].op # "send"
                               /\ r = Request(es[i].op, es[i].fd, FileOf(es[i].fd))
  BY <1>11, <1>12, <1>13
<1> DEFINE At(r) == {i \in Held : Req(i) = r}
<1>15. \A r : IsFiniteSet(At(r)) /\ Cardinality(At(r)) \in Nat
  <2> SUFFICES ASSUME NEW r PROVE IsFiniteSet(At(r)) /\ Cardinality(At(r)) \in Nat
    OBVIOUS
  <2>1. At(r) \in SUBSET Held
    OBVIOUS
  <2> QED BY <1>7, <2>1, FS_Subset, FS_CardinalityType
<1>16. \A r \in DOMAIN new : new[r] = Cardinality(At(r)) /\ new[r] \in Nat \ {0}
  <2> SUFFICES ASSUME NEW r \in DOMAIN new
               PROVE  new[r] = Cardinality(At(r)) /\ new[r] \in Nat \ {0}
    OBVIOUS
  <2>1. new[r] = Cardinality(At(r))
    OBVIOUS
  <2>2. At(r) # {}
    BY <1>11
  <2> HIDE DEF At
  <2>3. Cardinality(At(r)) # 0
    BY <1>15, <2>2, FS_EmptySet
  <2> QED BY <1>15, <2>1, <2>3
<1>17. \A r : r \notin DOMAIN new => Cardinality(At(r)) = 0
  <2> SUFFICES ASSUME NEW r, r \notin DOMAIN new PROVE Cardinality(At(r)) = 0
    OBVIOUS
  <2>1. At(r) = {}
    BY <1>11
  <2> QED BY <2>1, FS_EmptySet
<1>18. \A r \in DOMAIN armed' :
          armed'[r] = (IF r \in DOMAIN armed THEN armed[r] ELSE 0)
                      + (IF r \in DOMAIN new THEN new[r] ELSE 0)
  BY <1>1, <1>11 DEF (+)
<1> HIDE DEF new, At, Held
<1>19. ASSUME \A r \in DOMAIN armed : armed[r] \in Nat \ {0}
       PROVE  \A r \in DOMAIN armed' : armed'[r] \in Nat \ {0}
  BY <1>11, <1>16, <1>18, <1>19
<1>20. ASSUME \A r \in DOMAIN armed : armed[r] \in Nat \ {0},
              NEW op \in {"ctrl", "recv"}, NEW f \in Fds,
              fdt[f] # None \/ \A i \in DOMAIN es : FileOf(es[i].fd) # None
       PROVE  Copies(Request(op, f, fdt[f]), armed')
                 = Copies(Request(op, f, fdt[f]), armed) + Count(es, SqOf(op, f))
  <2> DEFINE r == Request(op, f, fdt[f])
  <2>1. At(r) = Indices(es, SqOf(op, f))
    <3>1. ASSUME NEW i \in DOMAIN es
          PROVE  i \in Held /\ Req(i) = r <=> es[i] \in SqOf(op, f)
      <4>2. Req(i) = r => es[i].op = op /\ es[i].fd = f
        BY DEF Request
      <4>3. es[i].op = op /\ es[i].fd = f => Req(i) = r /\ i \in Held
        BY <1>4, <1>13, <1>20 DEF Request
      <4> QED BY <1>2, <4>2, <4>3 DEF SqOf
    <3> QED BY <3>1, <1>12 DEF At, Indices
  <2>2. Count(es, SqOf(op, f)) = Cardinality(At(r))
    BY <2>1 DEF Count
  <2> HIDE DEF r
  <2>3. CASE r \in DOMAIN armed'
    <3>1. armed'[r] = (IF r \in DOMAIN armed THEN armed[r] ELSE 0) + Cardinality(At(r))
      <4>1. (IF r \in DOMAIN new THEN new[r] ELSE 0) = Cardinality(At(r))
        BY <1>16, <1>17
      <4> QED BY <1>18, <2>3, <4>1
    <3> QED BY <2>2, <2>3, <3>1 DEF Copies, r
  <2>4. CASE r \notin DOMAIN armed'
    <3>1. r \notin DOMAIN armed /\ Cardinality(At(r)) = 0
      BY <1>11, <1>17, <2>4
    <3> QED BY <2>2, <2>4, <3>1 DEF Copies, r
  <2> QED BY <2>3, <2>4
<1> QED BY <1>9, <1>10, <1>14, <1>19, <1>20

\* What a submission leaves: requests in flight, completions that name no
\* buffer, answers.
LEMMA SubmitKeeps ==
    ASSUME TypeOK, NEW es \in Seq(Sqes), Submit(es)
    PROVE  /\ BagToSet(armed') \subseteq Requests
           /\ \E p \in Seq(Quiet) : cq' = cq \o p
           /\ out' \in [Clients -> Seq(Units)]
<1> DEFINE For(c) == {i \in DOMAIN es : Completes(es[i]) /\ es[i].op = "send" /\ FileOf(es[i].fd) = c}
<1>1. out' = [c \in Clients |-> IF c \in fin THEN out[c]
                 ELSE out[c] \o Part([i \in DOMAIN es |-> es[i].ans], For(c))]
  BY Zenon DEF Submit
<1>2. /\ Len(es) \in Nat /\ DOMAIN es = 1..Len(es)
      /\ \A i \in DOMAIN es : es[i] \in Sqes
  BY LenProperties, ElementOfSeq
<1>3. IsFiniteSet(DOMAIN es) /\ DOMAIN es \subseteq Nat
  BY <1>2, FS_Interval
<1>4. \A c : For(c) \in SUBSET Nat /\ IsFiniteSet(For(c))
  <2>1. \A c : For(c) \in SUBSET DOMAIN es
    OBVIOUS
  <2> QED BY <1>3, <2>1, FS_Subset
<1>5. \A i \in DOMAIN es : es[i].op = "send" => es[i].ans \in Units
  BY <1>2 DEF Sqes
<1>6. /\ DOMAIN armed' \subseteq Requests
      /\ \E s \in Seq(Results(es)) : cq' = cq \o s
  BY SubmitEffect
<1>7. BagToSet(armed') \subseteq Requests
  BY <1>6 DEF BagToSet
<1>8. Results(es) \subseteq Quiet
  BY DEF Results, Quiet
<1>9. \E p \in Seq(Quiet) : cq' = cq \o p
  BY <1>6, <1>8, SeqMonotonic
<1>10. out' \in [Clients -> Seq(Units)]
  <2> SUFFICES ASSUME NEW c \in Clients
               PROVE  (IF c \in fin THEN out[c]
                       ELSE out[c] \o Part([i \in DOMAIN es |-> es[i].ans], For(c))) \in Seq(Units)
    BY <1>1
  <2>1. out[c] \in Seq(Units)
    BY DEF TypeOK
  <2> DEFINE a == [i \in DOMAIN es |-> es[i].ans]
  <2>2. \A i \in For(c) : a[i] \in Units
    BY <1>5
  <2>3. For(c) \in SUBSET Nat /\ IsFiniteSet(For(c))
    BY <1>4
  <2> HIDE DEF a, For
  <2>4. Part(a, For(c)) \in Seq(Units)
    BY <2>2, <2>3, PartProperties
  <2>5. out[c] \o Part(a, For(c)) \in Seq(Units)
    BY <2>1, <2>4, ConcatProperties
  <2> QED BY <2>1, <2>5 DEF a
<1> QED BY <1>7, <1>9, <1>10

\* push submits a beginning of all there is, and leaves the rest, which fits.
LEMMA PushCuts ==
    ASSUME NEW es \in Seq(Sqes), sq \in Seq(Sqes), Push(es)
    PROVE  \E n \in 0..Len(sq \o es) :
              /\ sq' = SubSeq(sq \o es, n + 1, Len(sq \o es))
              /\ sq' \in Seq(Sqes) /\ Len(sq') <= SqCap
              /\ SubSeq(sq \o es, 1, n) \in Seq(Sqes)
              /\ IF n = 0 THEN UNCHANGED ring ELSE Submit(SubSeq(sq \o es, 1, n))
<1> DEFINE all  == sq \o es
           over == IF Len(all) <= SqCap THEN 0 ELSE SqCap * ((Len(all) - 1) \div SqCap)
<1>0. SqCap \in Nat \ {0}
  BY UringAssumption
<1>1. all \in Seq(Sqes) /\ Len(all) \in Nat
  BY ConcatProperties, LenProperties
<1>2. /\ sq' = SubSeq(all, over + 1, Len(all))
      /\ IF over = 0 THEN UNCHANGED ring ELSE Submit(SubSeq(all, 1, over))
  BY Zenon DEF Push
<1>3. over \in 0..Len(all) /\ Len(all) - over <= SqCap
  <2>1. CASE Len(all) <= SqCap
    BY <1>1, <2>1
  <2>2. CASE ~ (Len(all) <= SqCap)
    <3>1. Len(all) - 1 \in Nat
      BY <1>0, <1>1, <2>2
    <3>2. over = SqCap * ((Len(all) - 1) \div SqCap)
      BY <2>2
    <3>3. over <= Len(all) - 1 /\ Len(all) - 1 < over + SqCap /\ over \in Nat
      <4> DEFINE r == (Len(all) - 1) \div SqCap
      <4>1. r \in Nat /\ SqCap * r <= Len(all) - 1 /\ Len(all) - 1 < SqCap * r + SqCap
        BY <1>0, <3>1, DivBounds
      <4>2. SqCap * r \in Nat
        BY <1>0, <4>1
      <4> QED BY <3>2, <4>1, <4>2
    <3> QED BY <1>0, <1>1, <3>1, <3>3
  <2> QED BY <2>1, <2>2
<1> HIDE DEF all, over
<1>4. SubSeq(all, over + 1, Len(all)) \in Seq(Sqes) /\ SubSeq(all, 1, over) \in Seq(Sqes)
  BY <1>1, <1>3
<1>5. Len(SubSeq(all, over + 1, Len(all))) = Len(all) - over
  BY <1>1, <1>3
<1>6. sq' \in Seq(Sqes) /\ Len(sq') <= SqCap
  BY <1>2, <1>3, <1>4, <1>5
<1> QED BY <1>2, <1>3, <1>4, <1>6 DEF all

LEMMA PushKeeps ==
    ASSUME TypeOK, NEW es \in Seq(Sqes), Push(es)
    PROVE  /\ sq' \in Seq(Sqes) /\ Len(sq') <= SqCap
           /\ BagToSet(armed') \subseteq Requests
           /\ \E p \in Seq(Quiet) : cq' = cq \o p
           /\ out' \in [Clients -> Seq(Units)]
<1>1. sq \in Seq(Sqes)
  BY DEF TypeOK
<1>2. PICK n \in 0..Len(sq \o es) :
              /\ sq' \in Seq(Sqes) /\ Len(sq') <= SqCap
              /\ SubSeq(sq \o es, 1, n) \in Seq(Sqes)
              /\ IF n = 0 THEN UNCHANGED ring ELSE Submit(SubSeq(sq \o es, 1, n))
  BY <1>1, PushCuts
<1>3. CASE n = 0
  <2>1. armed' = armed /\ cq' = cq /\ out' = out
    BY <1>2, <1>3 DEF ring
  <2>2. cq = cq \o <<>> /\ <<>> \in Seq(Quiet)
    BY ConcatEmptySeq, EmptySeq DEF TypeOK
  <2> QED BY <1>2, <2>1, <2>2 DEF TypeOK
<1>4. CASE n # 0
  BY <1>2, <1>4, SubmitKeeps
<1> QED BY <1>3, <1>4

---------------------------------------------------------------------------
(* Types: what the program does.                                           *)

LEMMA QuietType ==
    ASSUME NEW c \in Seq(Completion), NEW p \in Seq(Quiet)
    PROVE  c \o p \in Seq(Completion)
<1>1. p \in Seq(Completion)
  BY SeqMonotonic DEF Quiet
<1> QED BY <1>1, ConcatProperties

\* What the program may rely on in a completion.
LEMMA CompletionCases ==
    ASSUME NEW e \in Completion
    PROVE  /\ e.op # "accept" => e.fd \in Fds
           /\ e.op = "accept" /\ e.res = "ok" => e.val \in Fds /\ e.val # None
           /\ e.op = "ctrl" /\ e.res = "ok" /\ e.val # None => e.val \in Fds
           /\ e.op = "recv" /\ e.res = "ok" => e.val \in Bids
<1>1. None \notin Fds
  BY UringAssumption
<1>2. e \in Ended \/ e \in News("accept", {ListenFd}, Fds)
      \/ e \in News("ctrl", Fds, Fds) \/ e \in News("recv", Fds, Bids)
  BY DEF Completion
<1>3. CASE e \in Ended
  BY <1>3, <1>1 DEF Ended, Completion, News
<1>4. CASE e \in News("accept", {ListenFd}, Fds)
  BY <1>1, <1>4 DEF News
<1>5. CASE e \in News("ctrl", Fds, Fds) \/ e \in News("recv", Fds, Bids)
  BY <1>5 DEF News
<1> QED BY <1>2, <1>3, <1>4, <1>5

LEMMA HandledType ==
    ASSUME TypeOK, NEW op, Handling(op), Handled
    PROVE  /\ E \in Completion /\ E.op = op /\ done # <<>> /\ done \in Seq(Completion)
           /\ done' = Tail(done) /\ done' \in Seq(Completion)
           /\ pc' = "dispatch"
<1>1. done \in Seq(Completion) /\ done # <<>>
  BY DEF TypeOK, Handling
<1> QED BY <1>1, HeadTailProperties DEF Handling, Handled, E

LEMMA SqeTypes ==
    /\ Sqe("accept", ListenFd, None) \in Sqes
    /\ \A f \in Fds : Sqe("ctrl", f, None) \in Sqes /\ Sqe("recv", f, None) \in Sqes
    /\ \A f \in Fds, u \in Units : Sqe("send", f, u) \in Sqes
    BY DEF Sqe, Sqes

LEMMA SubmitType ==
    ASSUME TypeOK, SubmitAndWait
    PROVE  TypeOK'
<1>1. sq \in Seq(Sqes) /\ Submit(sq)
  BY DEF TypeOK, SubmitAndWait
<1>2. /\ BagToSet(armed') \subseteq Requests
      /\ out' \in [Clients -> Seq(Units)]
      /\ \E p \in Seq(Quiet) : cq' = cq \o p
  BY <1>1, SubmitKeeps
<1>3. cq' \in Seq(Completion)
  <2>1. cq \in Seq(Completion)
    BY DEF TypeOK
  <2> QED BY <1>2, <2>1, QuietType
<1>4. sq' \in Seq(Sqes) /\ Len(sq') <= SqCap
  BY EmptySeq, UringAssumption DEF SubmitAndWait
<1> QED BY <1>2, <1>3, <1>4 DEF TypeOK, SubmitAndWait, kernel, peers, outside

LEMMA ReapType ==
    ASSUME TypeOK, Reap
    PROVE  TypeOK'
    BY DEF TypeOK, Reap, kernel, peers, outside

LEMMA PushType ==
    ASSUME TypeOK, NEW es \in Seq(Sqes), Push(es)
    PROVE  /\ sq' \in Seq(Sqes) /\ Len(sq') <= SqCap
           /\ BagToSet(armed') \subseteq Requests
           /\ cq' \in Seq(Completion)
           /\ out' \in [Clients -> Seq(Units)]
<1>1. /\ sq' \in Seq(Sqes) /\ Len(sq') <= SqCap
      /\ BagToSet(armed') \subseteq Requests
      /\ \E p \in Seq(Quiet) : cq' = cq \o p
      /\ out' \in [Clients -> Seq(Units)]
  BY PushKeeps
<1>2. cq \in Seq(Completion)
  BY DEF TypeOK
<1> QED BY <1>1, <1>2, QuietType

LEMMA AcceptAgainType == AcceptAgain \in Seq(Sqes)
<1>1. <<Sqe("accept", ListenFd, None)>> \in Seq(Sqes)
  BY SqeTypes
<1> QED BY <1>1, EmptySeq DEF AcceptAgain

LEMMA RearmType ==
    ASSUME E.fd \in Fds
    PROVE  Rearm \in Seq(Sqes)
<1>1. <<Sqe("ctrl", E.fd, None)>> \in Seq(Sqes)
  BY SqeTypes
<1> QED BY <1>1, EmptySeq DEF Rearm

LEMMA OnAcceptType ==
    ASSUME TypeOK, OnAccept \/ OnAcceptEnd
    PROVE  TypeOK'
<1>0. Handling("accept") /\ Handled
  BY DEF OnAccept, OnAcceptEnd
<1>1. /\ E \in Completion /\ done' \in Seq(Completion) /\ pc' = "dispatch"
  BY <1>0, HandledType
<1>2. CASE OnAccept
  <2>1. E.val \in Fds
    BY <1>1, <1>2, CompletionCases DEF OnAccept, Handling
  <2>2. <<Sqe("ctrl", E.val, None)>> \o AcceptAgain \in Seq(Sqes)
    <3>1. <<Sqe("ctrl", E.val, None)>> \in Seq(Sqes)
      BY <2>1, SqeTypes
    <3> QED BY <3>1, AcceptAgainType, ConcatProperties
  <2>3. Push(<<Sqe("ctrl", E.val, None)>> \o AcceptAgain)
    BY <1>2 DEF OnAccept
  <2>4. /\ sq' \in Seq(Sqes) /\ Len(sq') <= SqCap
        /\ BagToSet(armed') \subseteq Requests
        /\ cq' \in Seq(Completion)
        /\ out' \in [Clients -> Seq(Units)]
    BY <2>2, <2>3, PushType
  <2> QED BY <1>1, <1>2, <2>1, <2>4 DEF TypeOK, OnAccept, kernel, peers, outside
<1>3. CASE OnAcceptEnd
  <2>4. /\ sq' \in Seq(Sqes) /\ Len(sq') <= SqCap
        /\ BagToSet(armed') \subseteq Requests
        /\ cq' \in Seq(Completion)
        /\ out' \in [Clients -> Seq(Units)]
    BY <1>3, AcceptAgainType, PushType DEF OnAcceptEnd
  <2> QED BY <1>1, <1>3, <2>4 DEF TypeOK, OnAcceptEnd, kernel, peers, outside
<1> QED BY <1>2, <1>3

LEMMA OnCtrlType ==
    ASSUME TypeOK, OnCtrl \/ OnCtrlEmpty \/ OnCtrlEnd
    PROVE  TypeOK'
<1>0. Handling("ctrl") /\ Handled
  BY DEF OnCtrl, OnCtrlEmpty, OnCtrlEnd
<1>1. /\ E \in Completion /\ done' \in Seq(Completion) /\ pc' = "dispatch"
      /\ E.op = "ctrl"
  BY <1>0, HandledType
<1>5. E.fd \in Fds
  BY <1>1, CompletionCases
<1>2. CASE OnCtrl
  <2>1. E.val \in Fds
    BY <1>1, <1>2, CompletionCases DEF OnCtrl
  <2>2. <<Sqe("recv", E.val, None)>> \o Rearm \in Seq(Sqes)
    <3>1. <<Sqe("recv", E.val, None)>> \in Seq(Sqes)
      BY <2>1, SqeTypes
    <3> QED BY <1>5, <3>1, RearmType, ConcatProperties
  <2>3. Push(<<Sqe("recv", E.val, None)>> \o Rearm)
    BY <1>2 DEF OnCtrl
  <2>4. /\ sq' \in Seq(Sqes) /\ Len(sq') <= SqCap
        /\ BagToSet(armed') \subseteq Requests
        /\ cq' \in Seq(Completion)
        /\ out' \in [Clients -> Seq(Units)]
    BY <2>2, <2>3, PushType
  <2>5. /\ conns' \in [Fds -> [some : BOOLEAN, buf : Seq(Units)]]
        /\ \A f \in Fds : Len(conns'[f].buf) <= BufCap
    <3>1. conns' = [conns EXCEPT ![E.val] = Conn(<<>>)]
      BY <1>2 DEF OnCtrl
    <3>2. Conn(<<>>) \in [some : BOOLEAN, buf : Seq(Units)] /\ Len(Conn(<<>>).buf) <= BufCap
      BY EmptySeq, UringAssumption DEF Conn
    <3> QED BY <2>1, <3>1, <3>2 DEF TypeOK
  <2> QED BY <1>1, <1>2, <2>1, <2>4, <2>5 DEF TypeOK, OnCtrl, kernel, peers, outside
<1>3. CASE OnCtrlEmpty
  <2>3. Push(Rearm)
    BY <1>3 DEF OnCtrlEmpty
  <2>4. /\ sq' \in Seq(Sqes) /\ Len(sq') <= SqCap
        /\ BagToSet(armed') \subseteq Requests
        /\ cq' \in Seq(Completion)
        /\ out' \in [Clients -> Seq(Units)]
    BY <1>5, <2>3, RearmType, PushType
  <2>5. trouble' \subseteq Troubles
    <3>1. E.val \in Fds \cup {None}
      BY <1>1, <1>3, CompletionCases DEF OnCtrlEmpty, Handling
    <3>2. {"unlinked"} \X ({E.val} \ {None}) \subseteq Troubles
      BY <3>1 DEF Troubles
    <3> QED BY <1>3, <3>2 DEF OnCtrlEmpty, TypeOK
  <2> QED BY <1>1, <1>3, <2>4, <2>5 DEF TypeOK, OnCtrlEmpty, kernel, outside
<1>4. CASE OnCtrlEnd
  <2>1. fdt' \in [Fds -> Files \cup {None}]
    BY <1>4, <1>5 DEF TypeOK, OnCtrlEnd
  <2> QED BY <1>1, <1>4, <2>1 DEF TypeOK, OnCtrlEnd, ring, peers, outside
<1> QED BY <1>2, <1>3, <1>4

LEMMA CloseType ==
    ASSUME TypeOK, NEW f \in Fds, CloseClient(f)
    PROVE  /\ fdt' \in [Fds -> Files \cup {None}]
           /\ conns' \in [Fds -> [some : BOOLEAN, buf : Seq(Units)]]
           /\ \A g \in Fds : Len(conns'[g].buf) <= BufCap
<1>1. NoConn \in [some : BOOLEAN, buf : Seq(Units)] /\ Len(NoConn.buf) <= BufCap
  BY EmptySeq, UringAssumption DEF NoConn
<1> QED BY <1>1 DEF TypeOK, CloseClient

\* One more entry in the history is of its type.
LEMMA TroubleType ==
    ASSUME TypeOK, NEW what, NEW f, Trouble(what, f),
           \/ what \in {"rejected", "refused", "unsent"} /\ f \in Fds
           \/ what \in {"nobufs", "left early", "descriptors"} /\ f = None
    PROVE  trouble' \subseteq Troubles
<1>1. <<what, f>> \in Troubles
  BY DEF Troubles
<1>2. trouble \subseteq Troubles /\ trouble' = trouble \cup {<<what, f>>}
  BY DEF TypeOK, Trouble
<1> QED BY <1>1, <1>2

LEMMA OnSendType ==
    ASSUME TypeOK, OnRecvEnd \/ OnSend
    PROVE  TypeOK'
<1>0. Handled /\ \E op \in {"recv", "send"} : Handling(op)
  BY DEF OnRecvEnd, OnSend
<1>1. /\ E \in Completion /\ done' \in Seq(Completion) /\ pc' = "dispatch"
      /\ E.op \in {"recv", "send"}
  BY <1>0, HandledType
<1>2. E.fd \in Fds
  BY <1>1, CompletionCases
<1>3. /\ fdt' \in [Fds -> Files \cup {None}]
      /\ conns' \in [Fds -> [some : BOOLEAN, buf : Seq(Units)]]
      /\ \A g \in Fds : Len(conns'[g].buf) <= BufCap
  <2>1. CASE CloseClient(E.fd)
    BY <1>2, <2>1, CloseType
  <2>2. CASE UNCHANGED <<fdt, conns>>
    BY <2>2 DEF TypeOK
  <2> QED BY <2>1, <2>2 DEF OnRecvEnd, OnSend
<1>4. UNCHANGED <<sq, ctrls, ring, pool, mem, backlog, ctrlq, outside>>
  BY DEF OnRecvEnd, OnSend
<1>5. trouble' \subseteq Troubles
  <2>1. <<"unsent", E.fd>> \in Troubles
    BY <1>2 DEF Troubles
  <2>2. trouble' \subseteq trouble \cup {<<"unsent", E.fd>>}
    BY DEF OnRecvEnd, OnSend, Trouble
  <2> QED BY <2>1, <2>2 DEF TypeOK
<1> QED BY <1>1, <1>3, <1>4, <1>5 DEF TypeOK, ring, outside

LEMMA RecycleType ==
    ASSUME TypeOK, NEW b \in Bids, Recycle(b)
    PROVE  pool' \in Seq(Bids) /\ mem' \in [Bids -> Seq(Units)]
<1>1. pool' \in Seq(Bids)
  BY AppendProperties DEF TypeOK, Recycle
<1>2. <<>> \in Seq(Units)
  BY EmptySeq
<1> QED BY <1>1, <1>2 DEF TypeOK, Recycle

LEMMA RefusedType ==
    ASSUME TypeOK, OnRecvRefused
    PROVE  TypeOK'
<1>1. /\ E \in Completion /\ done' \in Seq(Completion) /\ pc' = "dispatch"
      /\ E.op = "recv" /\ E.res = "ok"
  BY HandledType DEF OnRecvRefused
<1>2. E.fd \in Fds /\ E.val \in Bids
  BY <1>1, CompletionCases
<1>3. /\ fdt' \in [Fds -> Files \cup {None}]
      /\ conns' \in [Fds -> [some : BOOLEAN, buf : Seq(Units)]]
      /\ \A g \in Fds : Len(conns'[g].buf) <= BufCap
  BY <1>2, CloseType DEF OnRecvRefused
<1>4. pool' \in Seq(Bids) /\ mem' \in [Bids -> Seq(Units)]
  BY <1>2, RecycleType DEF OnRecvRefused
<1>5. trouble' \subseteq Troubles
  <2>1. <<"refused", E.fd>> \in Troubles
    BY <1>2 DEF Troubles
  <2> QED BY <2>1 DEF OnRecvRefused, Trouble, TypeOK
<1> QED BY <1>1, <1>3, <1>4, <1>5 DEF TypeOK, ring, OnRecvRefused, outside

\* The connection buffer with the bytes received.
LEMMA BufType ==
    ASSUME TypeOK, E.fd \in Fds, E.val \in Bids, Fits(E.fd)
    PROVE  /\ Buf \in Seq(Units) /\ Len(Buf) \in Nat /\ Len(Buf) <= BufCap
           /\ Leftover \in [some : BOOLEAN, buf : Seq(Units)]
           /\ Len(Leftover.buf) <= BufCap
           /\ Answers \in Seq(Sqes)
<1>1. conns[E.fd].buf \in Seq(Units) /\ Data \in Seq(Units)
  BY DEF TypeOK, Data
<1>2. Buf \in Seq(Units) /\ Len(Buf) = Len(conns[E.fd].buf) + Len(Data)
  BY <1>1, ConcatProperties DEF Buf
<1>3. Len(Buf) <= BufCap /\ Len(Buf) \in Nat
  BY <1>2, LenProperties DEF Fits
<1>4. Consumed(Buf) \in 0..Len(Buf)
  BY <1>2, ConsumedInside
<1> DEFINE r == SubSeq(Buf, Consumed(Buf) + 1, Len(Buf))
<1>5. r \in Seq(Units) /\ Len(r) = Len(Buf) - Consumed(Buf)
  BY <1>2, <1>3, <1>4
<1>6. Len(r) <= BufCap
  BY <1>3, <1>4, <1>5, UringAssumption
<1>7. Leftover \in [some : BOOLEAN, buf : Seq(Units)] /\ Leftover.buf = r
  BY <1>5 DEF Leftover, Conn
<1>8. Answers \in Seq(Sqes)
  <2> DEFINE I == {i \in Ends(Buf) : i <= Consumed(Buf)}
             a == [i \in DOMAIN Buf |-> Sqe("send", E.fd, Buf[i])]
  <2>1. Answers = Part(a, I)
    BY DEF Answers
  <2>2. DOMAIN Buf = 1..Len(Buf) /\ \A i \in DOMAIN Buf : Buf[i] \in Units
    BY <1>2, LenProperties, ElementOfSeq
  <2>3. IsFiniteSet(1..Len(Buf)) /\ I \in SUBSET (1..Len(Buf))
    BY <1>3, <2>2, FS_Interval DEF Ends
  <2>4. I \in SUBSET Nat /\ IsFiniteSet(I)
    BY <2>3, FS_Subset
  <2>5. \A i \in I : a[i] \in Sqes
    BY <2>2, <2>3, SqeTypes
  <2> HIDE DEF a, I
  <2> QED BY <2>1, <2>4, <2>5, PartProperties
<1> QED BY <1>2, <1>3, <1>6, <1>7, <1>8

LEMMA OnRecvType ==
    ASSUME TypeOK, OnRecv \/ OnRecvBad
    PROVE  TypeOK'
<1>0. Handling("recv") /\ Handled /\ E.res = "ok" /\ Fits(E.fd) /\ Recycle(E.val)
  BY DEF OnRecv, OnRecvBad
<1>1. /\ E \in Completion /\ done' \in Seq(Completion) /\ pc' = "dispatch"
      /\ E.op = "recv"
  BY <1>0, HandledType
<1>2. E.fd \in Fds /\ E.val \in Bids
  BY <1>0, <1>1, CompletionCases
<1>3. pool' \in Seq(Bids) /\ mem' \in [Bids -> Seq(Units)]
  BY <1>0, <1>2, RecycleType
<1>4. /\ Leftover \in [some : BOOLEAN, buf : Seq(Units)]
      /\ Len(Leftover.buf) <= BufCap
      /\ Answers \in Seq(Sqes)
  BY <1>0, <1>2, BufType
<1>5. CASE OnRecv
  <2> DEFINE again == IF E.more THEN <<>> ELSE <<Sqe("recv", E.fd, None)>>
  <2>1. again \in Seq(Sqes)
    <3>1. <<Sqe("recv", E.fd, None)>> \in Seq(Sqes)
      BY <1>2, SqeTypes
    <3> QED BY <3>1, EmptySeq
  <2>2. Push(Answers \o again)
    BY <1>5 DEF OnRecv
  <2> HIDE DEF again
  <2>3. Answers \o again \in Seq(Sqes)
    BY <1>4, <2>1, ConcatProperties
  <2>4. /\ sq' \in Seq(Sqes) /\ Len(sq') <= SqCap
        /\ BagToSet(armed') \subseteq Requests
        /\ cq' \in Seq(Completion)
        /\ out' \in [Clients -> Seq(Units)]
    BY <2>2, <2>3, PushType
  <2>5. /\ conns' \in [Fds -> [some : BOOLEAN, buf : Seq(Units)]]
        /\ \A g \in Fds : Len(conns'[g].buf) <= BufCap
    BY <1>2, <1>4, <1>5 DEF TypeOK, OnRecv
  <2> QED BY <1>1, <1>3, <1>5, <2>4, <2>5 DEF TypeOK, OnRecv, peers, outside
<1>6. CASE OnRecvBad
  <2>4. /\ sq' \in Seq(Sqes) /\ Len(sq') <= SqCap
        /\ BagToSet(armed') \subseteq Requests
        /\ cq' \in Seq(Completion)
        /\ out' \in [Clients -> Seq(Units)]
    BY <1>4, <1>6, PushType DEF OnRecvBad
  <2>5. /\ fdt' \in [Fds -> Files \cup {None}]
        /\ conns' \in [Fds -> [some : BOOLEAN, buf : Seq(Units)]]
        /\ \A g \in Fds : Len(conns'[g].buf) <= BufCap
    BY <1>2, <1>6, CloseType DEF OnRecvBad
  <2>6. trouble' \subseteq Troubles
    BY <1>2, <1>6, TroubleType DEF OnRecvBad
  <2> QED BY <1>1, <1>3, <1>6, <2>4, <2>5, <2>6 DEF TypeOK, OnRecvBad, outside
<1> QED BY <1>5, <1>6

---------------------------------------------------------------------------
(* Types: the kernel and the surroundings.                                 *)

LEMMA DropType ==
    ASSUME BagToSet(armed) \subseteq Requests, NEW r, Drop(r)
    PROVE  BagToSet(armed') \subseteq Requests
    BY DEF Drop, BagToSet, (-)

LEMMA PostType ==
    ASSUME TypeOK, NEW e \in Completion, Post(e)
    PROVE  cq' \in Seq(Completion)
    BY AppendProperties DEF TypeOK, Post

LEMMA RequestCases ==
    ASSUME NEW r \in Requests
    PROVE  /\ r.op = "accept" => r.fd = ListenFd /\ r.file = ListenFd
           /\ r.op # "accept" => r.fd \in Fds /\ r.file \in Files /\ r.op \in {"ctrl", "recv"}
    BY DEF Requests

LEMMA PostedTypes ==
    ASSUME NEW r \in Requests
    PROVE  /\ r.op = "accept" => \A f \in Fds : Cqe(r, "ok", f, TRUE) \in Completion
           /\ r.op = "ctrl" => \A f \in Fds : Cqe(r, "ok", f, FALSE) \in Completion
           /\ r.op = "ctrl" => Cqe(r, "ok", None, FALSE) \in Completion
           /\ r.op = "recv" => \A b \in Bids, m \in BOOLEAN : Cqe(r, "ok", b, m) \in Completion
           /\ \A res \in {"fail", "nobufs"} : Cqe(r, res, None, FALSE) \in Completion
<1>1. \/ r.op = "accept" /\ r.fd = ListenFd /\ r.file = ListenFd
      \/ r.op \in {"ctrl", "recv"} /\ r.fd \in Fds /\ r.file \in Files
  BY RequestCases DEF Requests
<1>2. ASSUME r.op = "accept", NEW f \in Fds PROVE Cqe(r, "ok", f, TRUE) \in Completion
  BY <1>1, <1>2 DEF Cqe, Completion, News
<1>3. ASSUME r.op = "ctrl", NEW f \in Fds PROVE Cqe(r, "ok", f, FALSE) \in Completion
  BY <1>1, <1>3 DEF Cqe, Completion, News
<1>4. ASSUME r.op = "ctrl" PROVE Cqe(r, "ok", None, FALSE) \in Completion
  <2>1. /\ Cqe(r, "ok", None, FALSE) \in Ended
        /\ Cqe(r, "ok", None, FALSE).op = "ctrl" /\ Cqe(r, "ok", None, FALSE).fd \in Fds
    BY <1>1, <1>4 DEF Cqe, Ended
  <2> QED BY <2>1 DEF Completion
<1>5. ASSUME r.op = "recv", NEW b \in Bids, NEW m \in BOOLEAN PROVE Cqe(r, "ok", b, m) \in Completion
  BY <1>1, <1>5 DEF Cqe, Completion, News
<1>6. ASSUME NEW res \in {"fail", "nobufs"} PROVE Cqe(r, res, None, FALSE) \in Completion
  <2>1. /\ Cqe(r, res, None, FALSE) \in Ended
        /\ Cqe(r, res, None, FALSE).op = r.op /\ Cqe(r, res, None, FALSE).fd = r.fd
        /\ Cqe(r, res, None, FALSE).res # "ok"
    BY <1>1 DEF Cqe, Ended
  <2> QED BY <1>1, <2>1 DEF Completion
<1> QED BY <1>2, <1>3, <1>4, <1>5, <1>6

LEMMA KernelAcceptType ==
    ASSUME TypeOK, NEW r \in BagToSet(armed), NEW l \in backlog, KernelAccept(r, l)
    PROVE  TypeOK'
<1>1. r \in Requests /\ l \in Links
  BY DEF TypeOK
<1>2. LowestFd \in Fds
  BY LowestFdIsFree DEF KernelAccept
<1>3. cq' \in Seq(Completion)
  <2>1. Cqe(r, "ok", LowestFd, TRUE) \in Completion
    BY <1>1, <1>2, PostedTypes DEF KernelAccept
  <2> QED BY <2>1, PostType DEF KernelAccept
<1>4. fdt' \in [Fds -> Files \cup {None}] /\ backlog' \subseteq Links
  BY <1>1, <1>2 DEF TypeOK, KernelAccept, Files
<1> QED BY <1>3, <1>4 DEF TypeOK, KernelAccept, program, peers, outside

LEMMA KernelEndType ==
    ASSUME TypeOK, NEW r \in BagToSet(armed),
           KernelAcceptEnd(r) \/ KernelCtrlEnd(r) \/ KernelNoBuffer(r) \/ KernelRecvEnd(r)
    PROVE  TypeOK'
<1>1. r \in Requests
  BY DEF TypeOK
<1>2. Drop(r) /\ \E res \in {"fail", "nobufs"} : Post(Cqe(r, res, None, FALSE))
  BY DEF KernelAcceptEnd, KernelCtrlEnd, KernelNoBuffer, KernelRecvEnd
<1>3. cq' \in Seq(Completion)
  <2>1. \A res \in {"fail", "nobufs"} : Cqe(r, res, None, FALSE) \in Completion
    BY <1>1, PostedTypes
  <2> QED BY <1>2, <2>1, PostType
<1>4. BagToSet(armed') \subseteq Requests
  BY <1>2, DropType DEF TypeOK
<1>5. trouble' \subseteq Troubles
  <2>1. CASE KernelAcceptEnd(r)
    BY <2>1, TroubleType DEF KernelAcceptEnd
  <2>2. CASE KernelNoBuffer(r)
    BY <2>2, TroubleType DEF KernelNoBuffer
  <2>3. CASE KernelCtrlEnd(r) \/ KernelRecvEnd(r)
    BY <2>3 DEF TypeOK, KernelCtrlEnd, KernelRecvEnd, peers
  <2> QED BY <2>1, <2>2, <2>3
<1>6. UNCHANGED <<program, out, kernel, lbEnd, sent, got, fin, handed>>
  BY DEF KernelAcceptEnd, KernelCtrlEnd, KernelNoBuffer, KernelRecvEnd, peers, outside
<1> QED BY <1>3, <1>4, <1>5, <1>6 DEF TypeOK, program, kernel

LEMMA KernelCtrlType ==
    ASSUME TypeOK, NEW r \in BagToSet(armed), KernelCtrl(r) \/ KernelCtrlLost(r)
    PROVE  TypeOK'
<1>1. r \in Requests /\ r.op = "ctrl" /\ r.file \in Links /\ ctrlq[r.file] # <<>> /\ Drop(r)
  BY DEF TypeOK, KernelCtrl, KernelCtrlLost
<1>2. Head(ctrlq[r.file]) \in Clients /\ Tail(ctrlq[r.file]) \in Seq(Clients)
  <2>1. ctrlq[r.file] \in Seq(Clients)
    BY <1>1 DEF TypeOK
  <2> QED BY <1>1, <2>1, HeadTailProperties
<1>3. ctrlq' \in [Links -> Seq(Clients)]
  BY <1>1, <1>2 DEF TypeOK, KernelCtrl, KernelCtrlLost
<1>4. BagToSet(armed') \subseteq Requests
  BY <1>1, DropType DEF TypeOK
<1>5. CASE KernelCtrl(r)
  <2>1. LowestFd \in Fds
    BY <1>5, LowestFdIsFree DEF KernelCtrl
  <2>2. cq' \in Seq(Completion)
    <3>1. Cqe(r, "ok", LowestFd, FALSE) \in Completion
      BY <1>1, <2>1, PostedTypes
    <3> QED BY <1>5, <3>1, PostType DEF KernelCtrl
  <2>3. fdt' \in [Fds -> Files \cup {None}]
    BY <1>2, <1>5, <2>1 DEF TypeOK, KernelCtrl, Files
  <2> QED BY <1>3, <1>4, <1>5, <2>2, <2>3 DEF TypeOK, KernelCtrl, program, peers, outside
<1>6. CASE KernelCtrlLost(r)
  <2>2. cq' \in Seq(Completion)
    <3>1. Cqe(r, "ok", None, FALSE) \in Completion
      BY <1>1, PostedTypes
    <3> QED BY <1>6, <3>1, PostType DEF KernelCtrlLost
  <2>3. trouble' \subseteq Troubles
    BY <1>6, TroubleType DEF KernelCtrlLost
  <2> QED BY <1>3, <1>4, <1>6, <2>2, <2>3 DEF TypeOK, KernelCtrlLost, program, outside
<1> QED BY <1>5, <1>6

\* What a receive writes into a buffer.
LEMMA ChunkType ==
    ASSUME TypeOK, NEW x \in Files, Incoming(x)
    PROVE  /\ Chunk(x) \in Seq(Units) /\ Len(Chunk(x)) \in Nat \ {0}
           /\ x \in Clients => /\ Len(Chunk(x)) <= sent[x] - got[x]
                               /\ \A i \in 1..Len(Chunk(x)) : Chunk(x)[i] = <<x, got[x] + i>>
<1>1. CASE x \in Links
  <2>1. Chunk(x) = <<<<x, 0>>>> /\ <<x, 0>> \in Units /\ x \notin Clients
    BY <1>1, UringAssumption DEF Chunk, Units
  <2> QED BY <2>1
<1>2. CASE x \notin Links
  <2> DEFINE n == Lesser(BufLen, sent[x] - got[x])
  <2>1. x \in Clients /\ got[x] < sent[x] /\ got[x] \in Nat /\ sent[x] \in Nat
    BY <1>2 DEF Incoming, TypeOK, Files
  <2>2. n \in Nat \ {0} /\ n <= sent[x] - got[x]
    BY <2>1, UringAssumption DEF Lesser
  <2>3. Chunk(x) = [i \in 1..n |-> <<x, got[x] + i>>]
    BY <1>2 DEF Chunk
  <2> HIDE DEF n
  <2>4. \A i \in 1..n : <<x, got[x] + i>> \in Units
    BY <2>1, <2>2 DEF Units
  <2>5. Chunk(x) \in Seq(Units)
    BY <2>2, <2>3, <2>4, IsASeq
  <2>6. DOMAIN Chunk(x) = 1..n
    BY <2>3
  <2>7. Len(Chunk(x)) = n
    BY <2>2, <2>5, <2>6, LenProperties
  <2> QED BY <2>2, <2>3, <2>5, <2>7
<1> QED BY <1>1, <1>2

LEMMA KernelRecvType ==
    ASSUME TypeOK, NEW r \in BagToSet(armed), NEW more \in BOOLEAN, KernelRecv(r, more)
    PROVE  TypeOK'
<1>1. r \in Requests /\ r.op = "recv" /\ Incoming(r.file) /\ pool # <<>>
  BY DEF TypeOK, KernelRecv
<1>2. r.file \in Files
  BY <1>1, RequestCases
<1>3. Head(pool) \in Bids /\ Tail(pool) \in Seq(Bids)
  BY <1>1, HeadTailProperties DEF TypeOK
<1>4. Chunk(r.file) \in Seq(Units) /\ Len(Chunk(r.file)) \in Nat
  BY <1>1, <1>2, ChunkType
<1>5. pool' \in Seq(Bids) /\ mem' \in [Bids -> Seq(Units)]
  BY <1>3, <1>4 DEF TypeOK, KernelRecv
<1>6. got' \in [Clients -> Nat]
  <2>1. \A c \in Clients : c = r.file => Len(Chunk(c)) \in Nat
    BY <1>4
  <2>2. \A c \in Clients : (IF c = r.file THEN got[c] + Len(Chunk(c)) ELSE got[c]) \in Nat
    <3>1. \A c \in Clients : got[c] \in Nat
      BY DEF TypeOK
    <3> QED BY <2>1, <3>1
  <2> QED BY <2>2 DEF KernelRecv
<1>7. ctrlq' \in [Links -> Seq(Clients)]
  <2>1. \A l \in Links : l = r.file => Tail(ctrlq[l]) \in Seq(Clients)
    BY ZenonT(30), <1>1, HeadTailProperties DEF TypeOK, Incoming
  <2> QED BY <2>1 DEF TypeOK, KernelRecv
<1>8. BagToSet(armed') \subseteq Requests
  BY DropType DEF TypeOK, KernelRecv
<1>9. cq' \in Seq(Completion)
  <2>1. Cqe(r, "ok", Head(pool), more) \in Completion
    BY <1>1, <1>3, PostedTypes
  <2> QED BY <2>1, PostType DEF KernelRecv
<1> QED BY <1>5, <1>6, <1>7, <1>8, <1>9 DEF TypeOK, KernelRecv, program

LEMMA EnvironmentType ==
    ASSUME TypeOK, Environment
    PROVE  TypeOK'
<1>1. UNCHANGED <<program, ring, fdt, pool, mem, got>>
  BY DEF Environment, LbConnect, LbExit, LbHandOver, ClientSend, ClientHangUp, kernel
<1>2. ASSUME NEW l \in Links, LbConnect(l) \/ LbExit(l) PROVE TypeOK'
  BY <1>1, <1>2 DEF TypeOK, LbConnect, LbExit, program, ring, kernel
<1>3. ASSUME NEW l \in Links, NEW c \in Clients, LbHandOver(l, c) PROVE TypeOK'
  <2>1. ctrlq' \in [Links -> Seq(Clients)]
    <3>1. Append(ctrlq[l], c) \in Seq(Clients)
      BY AppendProperties DEF TypeOK
    <3> QED BY <1>3, <3>1 DEF TypeOK, LbHandOver
  <2> QED BY <1>1, <1>3, <2>1 DEF TypeOK, LbHandOver, program, ring
<1>4. ASSUME NEW c \in Clients, ClientSend(c) PROVE TypeOK'
  <2>1. sent' \in [Clients -> Nat]
    <3>1. sent[c] \in Nat /\ Len(Stream[c]) \in Nat
      BY UringAssumption, LenProperties DEF TypeOK
    <3>2. PICK n \in (sent[c] + 1)..Len(Stream[c]) : sent' = [sent EXCEPT ![c] = n]
      BY <1>4 DEF ClientSend
    <3>3. n \in Nat
      BY <3>1
    <3> QED BY <3>2, <3>3 DEF TypeOK
  <2> QED BY <1>1, <1>4, <2>1 DEF TypeOK, ClientSend, program, ring, kernel
<1>5. ASSUME NEW c \in Clients, ClientHangUp(c) PROVE TypeOK'
  <2>1. trouble' \subseteq Troubles
    <3>1. CASE Trouble("left early", None)
      BY <3>1, TroubleType
    <3>2. CASE UNCHANGED trouble
      BY <3>2 DEF TypeOK
    <3> QED BY <1>5, <3>1, <3>2 DEF ClientHangUp
  <2> QED BY <1>1, <1>5, <2>1 DEF TypeOK, ClientHangUp, program, ring, kernel
<1> QED BY <1>2, <1>3, <1>4, <1>5 DEF Environment

LEMMA InitType == Init => TypeOK
<1> SUFFICES ASSUME Init PROVE TypeOK
  OBVIOUS
<1> USE DEF Init
<1>1. sq \in Seq(Sqes) /\ Len(sq) <= SqCap
  <2>1. sq = <<Sqe("accept", ListenFd, None)>> /\ Sqe("accept", ListenFd, None) \in Sqes
    BY SqeTypes
  <2>2. SqCap \in Nat /\ SqCap >= 1
    BY UringAssumption
  <2> QED BY <2>1, <2>2
<1>2. /\ conns \in [Fds -> [some : BOOLEAN, buf : Seq(Units)]]
      /\ \A f \in Fds : Len(conns[f].buf) <= BufCap
  BY EmptySeq, UringAssumption DEF NoConn
<1>3. pool \in Seq(Bids) /\ mem \in [Bids -> Seq(Units)]
  <2>1. NBuf \in Nat /\ \A b \in 1..NBuf : b \in Bids
    BY UringAssumption DEF Bids
  <2>2. [b \in 1..NBuf |-> b] \in Seq(Bids)
    BY <2>1, IsASeq
  <2> QED BY <2>2, EmptySeq DEF Bids
<1>4. BagToSet(armed) = {}
  BY DEF BagToSet, EmptyBag, SetToBag
<1> QED BY <1>1, <1>2, <1>3, <1>4, EmptySeq DEF TypeOK

LEMMA NextType == TypeOK /\ [Next]_vars => TypeOK'
<1> SUFFICES ASSUME TypeOK, [Next]_vars PROVE TypeOK'
  OBVIOUS
<1>1. CASE Worker
  BY <1>1, SubmitType, ReapType, OnAcceptType, OnCtrlType, OnSendType, RefusedType, OnRecvType
     DEF Worker
<1>2. CASE Kernel
  BY <1>2, KernelAcceptType, KernelEndType, KernelCtrlType, KernelRecvType DEF Kernel
<1>3. CASE Environment
  BY <1>3, EnvironmentType
<1>4. CASE UNCHANGED vars
  BY <1>4 DEF TypeOK, vars
<1> QED BY <1>1, <1>2, <1>3, <1>4 DEF Next

\* Every variable of the worker and of the ring has its type, and no
\* connection buffer outgrows BUF_CAP (serve checks the room before it copies).
THEOREM TypeCorrect == Spec => []TypeOK
    BY InitType, NextType, PTL DEF Spec

---------------------------------------------------------------------------
(* The provided buffers are conserved.                                     *)

\* The completions that name buffer b.
Named(b) == {e \in Completion : e.op = "recv" /\ e.res = "ok" /\ e.val = b}

\* Buffers are conserved: over the ring, the completions posted and those at
\* hand, each is counted once.
RingBook == \A b \in Bids : Count(pool, {b}) + Count(cq, Named(b)) + Count(done, Named(b)) = 1

LEMMA BookNat ==
    ASSUME TypeOK, NEW b \in Bids
    PROVE  /\ Count(pool, {b}) \in Nat /\ Count(cq, Named(b)) \in Nat
           /\ Count(done, Named(b)) \in Nat
    BY CountNat DEF TypeOK

\* What the runs check says the same.
LEMMA BookIsAccount == ASSUME TypeOK, RingBook PROVE BuffersAccounted
<1> SUFFICES ASSUME NEW b \in Bids PROVE \E p \in Places(b) : Places(b) = {p}
  BY DEF BuffersAccounted
<1>1. /\ InRing(b) = Indices(pool, {b})
      /\ Naming(cq, b) = Indices(cq, Named(b))
      /\ Naming(done, b) = Indices(done, Named(b))
  <2>0. cq \in Seq(Completion) /\ done \in Seq(Completion)
    BY DEF TypeOK
  <2>1. \A i \in DOMAIN cq : cq[i] \in Completion
    BY <2>0
  <2>2. \A i \in DOMAIN done : done[i] \in Completion
    BY <2>0
  <2>3. InRing(b) = Indices(pool, {b})
    BY DEF InRing, Indices
  <2> QED BY <2>1, <2>2, <2>3 DEF Naming, Indices, Named
<1>2. /\ IsFiniteSet(InRing(b)) /\ IsFiniteSet(Naming(cq, b)) /\ IsFiniteSet(Naming(done, b))
      /\ Cardinality(InRing(b)) \in Nat /\ Cardinality(Naming(cq, b)) \in Nat
      /\ Cardinality(Naming(done, b)) \in Nat
      /\ Cardinality(InRing(b)) + Cardinality(Naming(cq, b)) + Cardinality(Naming(done, b)) = 1
  <2>0. cq \in Seq(Completion) /\ done \in Seq(Completion) /\ pool \in Seq(Bids)
    BY DEF TypeOK
  <2>1. /\ IsFiniteSet(Indices(pool, {b})) /\ IsFiniteSet(Indices(cq, Named(b)))
        /\ IsFiniteSet(Indices(done, Named(b)))
    BY <2>0, CountNat
  <2>2. Count(pool, {b}) + Count(cq, Named(b)) + Count(done, Named(b)) = 1
    BY DEF RingBook
  <2>3. /\ Count(pool, {b}) \in Nat /\ Count(cq, Named(b)) \in Nat
        /\ Count(done, Named(b)) \in Nat
    BY BookNat
  <2> QED BY <1>1, <2>1, <2>2, <2>3 DEF Count
<1> DEFINE R == InRing(b)
           C == Naming(cq, b)
           D == Naming(done, b)
<1>3. \/ (\E x : R = {x}) /\ C = {} /\ D = {}
      \/ R = {} /\ (\E x : C = {x}) /\ D = {}
      \/ R = {} /\ C = {} /\ (\E x : D = {x})
  <2>1. \/ Cardinality(R) = 1 /\ Cardinality(C) = 0 /\ Cardinality(D) = 0
        \/ Cardinality(R) = 0 /\ Cardinality(C) = 1 /\ Cardinality(D) = 0
        \/ Cardinality(R) = 0 /\ Cardinality(C) = 0 /\ Cardinality(D) = 1
    BY <1>2
  <2> QED BY <1>2, <2>1, FS_EmptySet, FS_Singleton
<1>4. Places(b) = ({"ring"} \X R) \cup ({"cq"} \X C) \cup ({"done"} \X D)
  BY DEF Places
<1> HIDE DEF R, C, D
<1>5. \A t, x : {t} \X {x} = {<<t, x>>}
  OBVIOUS
<1>6. \A t : {t} \X {} = {}
  OBVIOUS
<1>7. \E p : Places(b) = {p}
  <2>1. CASE (\E x : R = {x}) /\ C = {} /\ D = {}
    <3>1. PICK x : R = {x}
      BY <2>1
    <3>2. Places(b) = {<<"ring", x>>}
      BY <1>4, <1>5, <1>6, <2>1, <3>1
    <3> QED BY <3>2
  <2>2. CASE R = {} /\ (\E x : C = {x}) /\ D = {}
    <3>1. PICK x : C = {x}
      BY <2>2
    <3>2. Places(b) = {<<"cq", x>>}
      BY <1>4, <1>5, <1>6, <2>2, <3>1
    <3> QED BY <3>2
  <2>3. CASE R = {} /\ C = {} /\ (\E x : D = {x})
    <3>1. PICK x : D = {x}
      BY <2>3
    <3>2. Places(b) = {<<"done", x>>}
      BY <1>4, <1>5, <1>6, <2>3, <3>1
    <3> QED BY <3>2
  <2> QED BY <1>3, <2>1, <2>2, <2>3
<1> QED BY <1>7

LEMMA QuietSilent ==
    ASSUME NEW b, NEW e \in Quiet
    PROVE  e \notin Named(b)
    BY DEF Quiet, Named

LEMMA QuietCount ==
    ASSUME NEW c \in Seq(Completion), NEW p \in Seq(Quiet), NEW b
    PROVE  Count(c \o p, Named(b)) = Count(c, Named(b))
<1>1. p \in Seq(Completion)
  BY SeqMonotonic DEF Quiet
<1>2. Count(c \o p, Named(b)) = Count(c, Named(b)) + Count(p, Named(b))
  BY <1>1, CountConcat
<1>3. \A i \in DOMAIN p : p[i] \notin Named(b)
  BY LenProperties, ElementOfSeq, QuietSilent
<1>4. Count(p, Named(b)) = 0 /\ Count(c, Named(b)) \in Nat
  BY <1>1, <1>3, CountNone, CountNat
<1> QED BY <1>2, <1>4

\* A step that takes or gives no buffer: what it posts and what it handles
\* names none.
LEMMA QuietStep ==
    ASSUME TypeOK, RingBook, pool' = pool,
           \E p \in Seq(Quiet) : cq' = cq \o p,
           done' = done \/ (done # <<>> /\ Head(done) \in Quiet /\ done' = Tail(done))
    PROVE  RingBook'
<1>0. cq \in Seq(Completion) /\ done \in Seq(Completion)
  BY DEF TypeOK
<1> SUFFICES ASSUME NEW b \in Bids
             PROVE  Count(pool', {b}) + Count(cq', Named(b)) + Count(done', Named(b)) = 1
  BY DEF RingBook, Named
<1>1. Count(cq', Named(b)) = Count(cq, Named(b))
  BY <1>0, QuietCount
<1>2. Count(done', Named(b)) = Count(done, Named(b))
  <2>1. CASE done # <<>> /\ Head(done) \in Quiet /\ done' = Tail(done)
    <3>1. Count(done, Named(b)) = Count(Tail(done), Named(b)) + IF Head(done) \in Named(b) THEN 1 ELSE 0
      BY <1>0, <2>1, CountTail
    <3>2. Head(done) \notin Named(b)
      BY <2>1, QuietSilent
    <3>3. Count(Tail(done), Named(b)) \in Nat
      BY <1>0, <2>1, HeadTailProperties, CountNat
    <3> QED BY <2>1, <3>1, <3>2, <3>3
  <2> QED BY <2>1
<1> QED BY <1>1, <1>2 DEF RingBook

\* A buffer named by the completion at hand goes back to the ring.
LEMMA RecycleStep ==
    ASSUME TypeOK, RingBook, done # <<>>, E \in Named(E.val), E.val \in Bids, Recycle(E.val),
           done' = Tail(done), \E p \in Seq(Quiet) : cq' = cq \o p
    PROVE  RingBook'
<1>0. cq \in Seq(Completion) /\ done \in Seq(Completion) /\ pool \in Seq(Bids)
  BY DEF TypeOK
<1> SUFFICES ASSUME NEW b \in Bids
             PROVE  Count(pool', {b}) + Count(cq', Named(b)) + Count(done', Named(b)) = 1
  BY DEF RingBook, Named
<1>1. Count(cq', Named(b)) = Count(cq, Named(b))
  BY <1>0, QuietCount
<1>2. Count(done, Named(b)) = Count(done', Named(b)) + IF E \in Named(b) THEN 1 ELSE 0
  BY <1>0, CountTail DEF E
<1>3. Count(pool', {b}) = Count(pool, {b}) + IF E.val \in {b} THEN 1 ELSE 0
  BY <1>0, CountAppend DEF Recycle
<1>4. E \in Named(b) <=> E.val \in {b}
  BY DEF Named
<1>5. Count(done', Named(b)) \in Nat /\ Count(pool, {b}) \in Nat /\ Count(cq, Named(b)) \in Nat
  BY <1>0, HeadTailProperties, CountNat
<1>6. Count(pool, {b}) + Count(cq, Named(b)) + Count(done, Named(b)) = 1
  BY DEF RingBook
<1>7. CASE E.val = b
  <2>1. Count(done, Named(b)) = Count(done', Named(b)) + 1 /\ Count(pool', {b}) = Count(pool, {b}) + 1
    BY <1>2, <1>3, <1>4, <1>7
  <2> QED BY <1>1, <1>5, <1>6, <2>1
<1>8. CASE E.val # b
  <2>1. Count(done, Named(b)) = Count(done', Named(b)) /\ Count(pool', {b}) = Count(pool, {b})
    BY <1>2, <1>3, <1>4, <1>5, <1>8
  <2> QED BY <1>1, <1>6, <2>1
<1> QED BY <1>7, <1>8

\* The kernel fills the first buffer of the ring and posts its name.
LEMMA KernelRecvBook ==
    ASSUME TypeOK, RingBook, NEW r \in BagToSet(armed), NEW more \in BOOLEAN, KernelRecv(r, more)
    PROVE  RingBook'
<1>0. cq \in Seq(Completion) /\ pool \in Seq(Bids) /\ pool # <<>>
  BY DEF TypeOK, KernelRecv
<1>1. r \in Requests /\ r.op = "recv" /\ Head(pool) \in Bids /\ Tail(pool) \in Seq(Bids)
  BY <1>0, HeadTailProperties DEF TypeOK, KernelRecv
<1> DEFINE e == Cqe(r, "ok", Head(pool), more)
<1>2. e \in Completion /\ e.op = "recv" /\ e.res = "ok" /\ e.val = Head(pool)
  BY <1>1, PostedTypes DEF Cqe
<1>3. cq' = Append(cq, e) /\ pool' = Tail(pool) /\ done' = done
  BY DEF KernelRecv, Post, program
<1> HIDE DEF e
<1> SUFFICES ASSUME NEW b \in Bids
             PROVE  Count(pool', {b}) + Count(cq', Named(b)) + Count(done', Named(b)) = 1
  BY DEF RingBook, Named
<1>4. Count(cq', Named(b)) = Count(cq, Named(b)) + IF e \in Named(b) THEN 1 ELSE 0
  BY <1>0, <1>2, <1>3, CountAppend
<1>5. Count(pool, {b}) = Count(pool', {b}) + IF Head(pool) \in {b} THEN 1 ELSE 0
  BY <1>0, <1>3, CountTail
<1>6. e \in Named(b) <=> Head(pool) \in {b}
  BY <1>2 DEF Named
<1>7. /\ Count(pool', {b}) \in Nat /\ Count(cq, Named(b)) \in Nat /\ Count(done, Named(b)) \in Nat
      /\ Count(pool, {b}) + Count(cq, Named(b)) + Count(done, Named(b)) = 1
  <2>1. Count(pool', {b}) \in Nat
    BY <1>1, <1>3, CountNat
  <2> QED BY <2>1, BookNat DEF RingBook
<1>8. CASE Head(pool) = b
  <2>1. Count(cq', Named(b)) = Count(cq, Named(b)) + 1 /\ Count(pool, {b}) = Count(pool', {b}) + 1
    BY <1>4, <1>5, <1>6, <1>8
  <2> QED BY <1>3, <1>7, <2>1
<1>9. CASE Head(pool) # b
  <2>1. Count(cq', Named(b)) = Count(cq, Named(b)) /\ Count(pool, {b}) = Count(pool', {b})
    BY <1>4, <1>5, <1>6, <1>7, <1>9
  <2> QED BY <1>3, <1>7, <2>1
<1> QED BY <1>8, <1>9

LEMMA ReapBook ==
    ASSUME TypeOK, RingBook, Reap
    PROVE  RingBook'
<1>1. done = <<>> /\ done' = cq /\ cq' = <<>> /\ pool' = pool
  BY DEF TypeOK, Reap, kernel
<1> SUFFICES ASSUME NEW b \in Bids
             PROVE  Count(pool', {b}) + Count(cq', Named(b)) + Count(done', Named(b)) = 1
  BY DEF RingBook, Named
<1>2. Count(<<>>, Named(b)) = 0
  BY CountEmpty
<1> QED BY <1>1, <1>2, BookNat DEF RingBook

LEMMA NoPost ==
    ASSUME TypeOK, cq' = cq
    PROVE  \E p \in Seq(Quiet) : cq' = cq \o p
<1>1. cq = cq \o <<>> /\ <<>> \in Seq(Quiet)
  BY ConcatEmptySeq, EmptySeq DEF TypeOK
<1> QED BY <1>1

LEMMA OnePost ==
    ASSUME TypeOK, NEW e \in Quiet, Post(e)
    PROVE  \E p \in Seq(Quiet) : cq' = cq \o p
<1>1. Append(cq, e) = cq \o <<e>>
  BY ZenonT(30), AppendIsConcat DEF TypeOK, Quiet
<1>2. <<e>> \in Seq(Quiet)
  OBVIOUS
<1> QED BY <1>1, <1>2 DEF Post

LEMMA HandlersBook ==
    ASSUME TypeOK, RingBook,
           \/ OnAccept \/ OnAcceptEnd \/ OnCtrlEnd \/ OnCtrl \/ OnCtrlEmpty
           \/ OnRecvEnd \/ OnSend
    PROVE  RingBook'
<1>1. Handled /\ pool' = pool /\ \E op \in {"accept", "ctrl", "recv", "send"} :
                                   Handling(op) /\ (op = "recv" => E.res # "ok")
  BY DEF OnAccept, OnAcceptEnd, OnCtrlEnd, OnCtrl, OnCtrlEmpty, OnRecvEnd, OnSend, kernel
<1>2. done # <<>> /\ done' = Tail(done) /\ E \in Quiet
  BY <1>1, HandledType DEF Quiet
<1>3. \E p \in Seq(Quiet) : cq' = cq \o p
  <2>1. CASE OnAccept \/ OnAcceptEnd
    <3>1. PICK es \in Seq(Sqes) : Push(es)
      <4>1. CASE OnAccept
        <5>1. E.val \in Fds
          BY <1>2, <4>1, CompletionCases DEF OnAccept, Handling, Quiet
        <5>2. <<Sqe("ctrl", E.val, None)>> \in Seq(Sqes)
          BY <5>1, SqeTypes
        <5>3. <<Sqe("ctrl", E.val, None)>> \o AcceptAgain \in Seq(Sqes)
          BY <5>2, AcceptAgainType, ConcatProperties
        <5> QED BY <4>1, <5>3 DEF OnAccept
      <4> QED BY <2>1, <4>1, AcceptAgainType DEF OnAcceptEnd
    <3> QED BY <3>1, PushKeeps
  <2>2. CASE OnCtrl \/ OnCtrlEmpty
    <3>0. E \in Completion /\ E.op = "ctrl"
      BY <1>2, <2>2 DEF Quiet, OnCtrl, OnCtrlEmpty, Handling
    <3>1. PICK es \in Seq(Sqes) : Push(es)
      <4>0. Rearm \in Seq(Sqes)
        BY <3>0, CompletionCases, RearmType
      <4>1. CASE OnCtrl
        <5>1. E.val \in Fds
          BY <3>0, <4>1, CompletionCases DEF OnCtrl
        <5>2. <<Sqe("recv", E.val, None)>> \in Seq(Sqes)
          BY <5>1, SqeTypes
        <5>3. <<Sqe("recv", E.val, None)>> \o Rearm \in Seq(Sqes)
          BY <4>0, <5>2, ConcatProperties
        <5> QED BY <4>1, <5>3 DEF OnCtrl
      <4> QED BY <2>2, <4>0, <4>1 DEF OnCtrlEmpty
    <3> QED BY <3>1, PushKeeps
  <2>3. CASE OnCtrlEnd \/ OnRecvEnd \/ OnSend
    BY <2>3, NoPost DEF OnCtrlEnd, OnRecvEnd, OnSend, ring
  <2> QED BY <2>1, <2>2, <2>3
<1> QED BY <1>1, <1>2, <1>3, QuietStep DEF E

LEMMA RecvBook ==
    ASSUME TypeOK, RingBook, OnRecv \/ OnRecvBad \/ OnRecvRefused
    PROVE  RingBook'
<1>1. Handled /\ Handling("recv") /\ E.res = "ok" /\ Recycle(E.val)
  BY DEF OnRecv, OnRecvBad, OnRecvRefused
<1>2. done # <<>> /\ done' = Tail(done) /\ E \in Completion /\ E.op = "recv"
  BY <1>1, HandledType
<1>3. E.val \in Bids /\ E.fd \in Fds /\ E \in Named(E.val)
  BY <1>1, <1>2, CompletionCases DEF Named
<1>4. \E p \in Seq(Quiet) : cq' = cq \o p
  <2>1. CASE OnRecvRefused
    BY <2>1, NoPost DEF OnRecvRefused, ring
  <2>2. CASE OnRecv \/ OnRecvBad
    <3>1. Answers \in Seq(Sqes)
      BY <1>3, <2>2, BufType DEF OnRecv, OnRecvBad
    <3>2. PICK es \in Seq(Sqes) : Push(es)
      <4>1. CASE OnRecv
        <5> DEFINE again == IF E.more THEN <<>> ELSE <<Sqe("recv", E.fd, None)>>
        <5>1. again \in Seq(Sqes)
          <6>1. <<Sqe("recv", E.fd, None)>> \in Seq(Sqes)
            BY <1>3, SqeTypes
          <6> QED BY <6>1, EmptySeq
        <5>2. Push(Answers \o again)
          BY <4>1 DEF OnRecv
        <5> HIDE DEF again
        <5>3. Answers \o again \in Seq(Sqes)
          BY <3>1, <5>1, ConcatProperties
        <5> QED BY <5>2, <5>3
      <4> QED BY <2>2, <3>1, <4>1 DEF OnRecvBad
    <3> QED BY <3>2, PushKeeps
  <2> QED BY <2>1, <2>2
<1> QED BY <1>1, <1>2, <1>3, <1>4, RecycleStep

LEMMA KernelBook ==
    ASSUME TypeOK, RingBook, Kernel
    PROVE  RingBook'
<1>1. PICK r \in BagToSet(armed) :
        \/ \E l \in backlog : KernelAccept(r, l)
        \/ KernelAcceptEnd(r)
        \/ KernelCtrl(r) \/ KernelCtrlLost(r) \/ KernelCtrlEnd(r)
        \/ \E more \in BOOLEAN : KernelRecv(r, more)
        \/ KernelNoBuffer(r) \/ KernelRecvEnd(r)
  BY DEF Kernel
<1>2. CASE \E more \in BOOLEAN : KernelRecv(r, more)
  BY <1>2, KernelRecvBook
<1>3. CASE ~ \E more \in BOOLEAN : KernelRecv(r, more)
  <2>1. r \in Requests
    BY DEF TypeOK
  <2>2. pool' = pool /\ done' = done
    BY <1>1, <1>3 DEF KernelAccept, KernelAcceptEnd, KernelCtrl, KernelCtrlLost, KernelCtrlEnd,
                      KernelNoBuffer, KernelRecvEnd, program, kernel
  <2>3. \E e \in Quiet : Post(e)
    <3>1. CASE \E l \in backlog : KernelAccept(r, l)
      <4>1. r.op = "accept" /\ LowestFd \in Fds /\ Post(Cqe(r, "ok", LowestFd, TRUE))
        BY <3>1, LowestFdIsFree DEF KernelAccept
      <4>2. Cqe(r, "ok", LowestFd, TRUE) \in Completion
        BY <2>1, <4>1, PostedTypes
      <4> QED BY <4>1, <4>2 DEF Quiet, Cqe
    <3>2. CASE KernelCtrl(r)
      <4>1. r.op = "ctrl" /\ LowestFd \in Fds /\ Post(Cqe(r, "ok", LowestFd, FALSE))
        BY <3>2, LowestFdIsFree DEF KernelCtrl
      <4>2. Cqe(r, "ok", LowestFd, FALSE) \in Completion
        BY <2>1, <4>1, PostedTypes
      <4> QED BY <4>1, <4>2 DEF Quiet, Cqe
    <3>3. CASE KernelCtrlLost(r)
      <4>1. r.op = "ctrl" /\ Post(Cqe(r, "ok", None, FALSE))
        BY <3>3 DEF KernelCtrlLost
      <4>2. Cqe(r, "ok", None, FALSE) \in Completion
        BY <2>1, <4>1, PostedTypes
      <4> QED BY <4>1, <4>2 DEF Quiet, Cqe
    <3>4. CASE \/ KernelAcceptEnd(r) \/ KernelCtrlEnd(r) \/ KernelNoBuffer(r) \/ KernelRecvEnd(r)
      <4>1. \E res \in {"fail", "nobufs"} : Post(Cqe(r, res, None, FALSE))
        BY <3>4 DEF KernelAcceptEnd, KernelCtrlEnd, KernelNoBuffer, KernelRecvEnd
      <4>2. \A res \in {"fail", "nobufs"} : Cqe(r, res, None, FALSE) \in Completion
        BY <2>1, PostedTypes
      <4>3. \A res \in {"fail", "nobufs"} : Cqe(r, res, None, FALSE) \in Quiet
        BY <4>2 DEF Quiet, Cqe
      <4> QED BY <4>1, <4>3
    <3> QED BY <1>1, <1>3, <3>1, <3>2, <3>3, <3>4
  <2> QED BY <2>2, <2>3, OnePost, QuietStep
<1> QED BY <1>2, <1>3

LEMMA InitBook == Init => RingBook
<1> SUFFICES ASSUME Init, NEW b \in Bids
             PROVE  Count(pool, {b}) + Count(cq, Named(b)) + Count(done, Named(b)) = 1
  BY DEF RingBook
<1>1. Count(<<>>, Named(b)) = 0
  BY CountEmpty
<1>2. Indices(pool, {b}) = {b}
  BY DEF Init, Indices
<1>3. Count(pool, {b}) = 1
  BY <1>2, FS_Singleton DEF Count
<1> QED BY <1>1, <1>3 DEF Init

LEMMA NextBook == TypeOK /\ RingBook /\ [Next]_vars => RingBook'
<1> SUFFICES ASSUME TypeOK, RingBook, [Next]_vars PROVE RingBook'
  OBVIOUS
<1>1. CASE SubmitAndWait
  <2>1. sq \in Seq(Sqes) /\ Submit(sq) /\ pool' = pool /\ done' = done
    BY <1>1 DEF TypeOK, SubmitAndWait, kernel
  <2> QED BY <2>1, SubmitKeeps, QuietStep
<1>2. CASE Worker
  BY <1>1, <1>2, ReapBook, HandlersBook, RecvBook DEF Worker
<1>3. CASE Kernel
  BY <1>3, KernelBook
<1>4. CASE Environment \/ UNCHANGED vars
  <2>1. pool' = pool /\ cq' = cq /\ done' = done
    BY <1>4 DEF Environment, LbConnect, LbExit, LbHandOver, ClientSend, ClientHangUp,
                kernel, program, ring, vars
  <2> QED BY <2>1, NoPost, QuietStep
<1> QED BY <1>2, <1>3, <1>4 DEF Next

\* recycle and its callers: a provided buffer is always in the ring or named by
\* one completion that is still to be handled, never both and never neither.
THEOREM BuffersConserved == Spec => []BuffersAccounted
<1>1. Init => TypeOK /\ RingBook
  BY InitType, InitBook
<1>2. TypeOK /\ RingBook /\ [Next]_vars => (TypeOK /\ RingBook)'
  BY NextType, NextBook
<1>3. TypeOK /\ RingBook => BuffersAccounted
  BY BookIsAccount
<1> QED BY <1>1, <1>2, <1>3, PTL DEF Spec

---------------------------------------------------------------------------
(***************************************************************************)
(* The io_uring worker without trouble, for any constants: every socket    *)
(* has one request outstanding, every completion is handled while its      *)
(* number still means the file it came from, and the answers go out in the *)
(* order of the requests.                                                  *)
(*                                                                         *)
(* The invariant (Wiring) is stated of parameters, not of the variables:   *)
(* a handler pushes requests, a full queue forces a submission in between, *)
(* and the handled completion leaves the head of the queue, so a step is   *)
(* taken in several strides, each a lemma: first what a submission keeps,  *)
(* then what a push keeps, then what the handled, the posted, the closed   *)
(* descriptor changes, and last each action of the worker.                 *)
(***************************************************************************)

---------------------------------------------------------------------------
(* Where a file is: behind at most one descriptor, or (a client) queued on *)
(* a link, or (a link) waiting to be accepted.  Whatever happens.          *)

FilesOnce == \A f, g \in Fds : fdt[f] = fdt[g] /\ fdt[f] # None => f = g

QueuedApart ==
    /\ \A l \in Links : \A i \in DOMAIN ctrlq[l] :
          ctrlq[l][i] \in handed /\ \A f \in Fds : fdt[f] # ctrlq[l][i]
    /\ \A l, k \in Links : \A i \in DOMAIN ctrlq[l], j \in DOMAIN ctrlq[k] :
          ctrlq[l][i] = ctrlq[k][j] => l = k /\ i = j

Placed ==
    /\ \A f \in Fds : fdt[f] \in Clients => fdt[f] \in handed
    /\ \A l \in Links : (\E f \in Fds : fdt[f] = l) => lbEnd[l] # "new" /\ l \notin backlog
    /\ \A l \in backlog : lbEnd[l] # "new"

OnePlace == FilesOnce /\ QueuedApart /\ Placed

\* No more is received than was sent.
Sending == \A c \in Clients : got[c] <= sent[c] /\ sent[c] <= Len(Stream[c])

\* Every link keeps its queue, or loses the first of it, or all.
Shrunk ==
    \A l \in Links : \E d \in {0, 1} : \A i \in DOMAIN ctrlq'[l] :
        i + d \in DOMAIN ctrlq[l] /\ ctrlq'[l][i] = ctrlq[l][i + d]

LEMMA QueueIndices ==
    ASSUME TypeOK, NEW l \in Links
    PROVE  /\ ctrlq[l] \in Seq(Clients)
           /\ DOMAIN ctrlq[l] \subseteq Nat
           /\ \A i \in DOMAIN ctrlq[l] : ctrlq[l][i] \in Clients
<1>1. ctrlq[l] \in Seq(Clients)
  BY DEF TypeOK
<1> QED BY <1>1, ElementOfSeq, LenProperties

\* A queue that lost its first element.
LEMMA TailShrinks ==
    ASSUME TypeOK, NEW l \in Links, ctrlq[l] # <<>>,
           ctrlq' = [ctrlq EXCEPT ![l] = Tail(ctrlq[l])]
    PROVE  Shrunk /\ \A i \in DOMAIN ctrlq'[l] :
               i + 1 \in DOMAIN ctrlq[l] /\ ctrlq'[l][i] = ctrlq[l][i + 1]
<1> DEFINE q == ctrlq[l]
<1>1. q \in Seq(Clients) /\ q # <<>>
  BY QueueIndices
<1> HIDE DEF q
<1>2. /\ Tail(q) \in Seq(Clients) /\ Len(Tail(q)) = Len(q) - 1
      /\ \A i \in 1..Len(Tail(q)) : Tail(q)[i] = q[i + 1]
  BY <1>1, HeadTailProperties
<1>3. /\ Len(q) \in Nat /\ DOMAIN q = 1..Len(q)
      /\ DOMAIN Tail(q) = 1..Len(Tail(q))
  BY <1>1, <1>2, LenProperties
<1>4. \A i \in DOMAIN Tail(q) : i + 1 \in DOMAIN q /\ Tail(q)[i] = q[i + 1]
  BY <1>2, <1>3
<1>5. ctrlq'[l] = Tail(q)
  BY DEF q, TypeOK
<1>6. \A k \in Links \ {l} : ctrlq'[k] = ctrlq[k]
  BY DEF TypeOK
<1>7. ASSUME NEW k \in Links
      PROVE  \E d \in {0, 1} : \A i \in DOMAIN ctrlq'[k] :
                i + d \in DOMAIN ctrlq[k] /\ ctrlq'[k][i] = ctrlq[k][i + d]
  <2>1. CASE k = l
    BY <1>4, <1>5, <2>1 DEF q
  <2>2. CASE k # l
    <3>1. \A i \in DOMAIN ctrlq[k] : i + 0 = i
      BY QueueIndices
    <3> QED BY <1>6, <2>2, <3>1
  <2> QED BY <2>1, <2>2
<1> QED BY <1>4, <1>5, <1>7 DEF Shrunk, q

LEMMA SameShrinks ==
    ASSUME TypeOK, ctrlq' = ctrlq
    PROVE  Shrunk
<1>1. \A l \in Links : \A i \in DOMAIN ctrlq[l] : i + 0 = i
  BY QueueIndices
<1> QED BY <1>1 DEF Shrunk

\* Closing descriptors and losing queued sockets puts nothing in a second place.
LEMMA ShrinkKeeps ==
    ASSUME TypeOK, TypeOK', OnePlace, Shrunk,
           \A g \in Fds : fdt'[g] = fdt[g] \/ fdt'[g] = None,
           UNCHANGED <<backlog, handed, lbEnd>>
    PROVE  OnePlace'
<1> USE DEF OnePlace
<1>1. FilesOnce'
  BY DEF FilesOnce
<1>2. ASSUME NEW l \in Links, NEW i \in DOMAIN ctrlq'[l]
      PROVE  ctrlq'[l][i] \in handed' /\ \A f \in Fds : fdt'[f] # ctrlq'[l][i]
  <2>1. PICK d \in {0, 1} : i + d \in DOMAIN ctrlq[l] /\ ctrlq'[l][i] = ctrlq[l][i + d]
    BY DEF Shrunk
  <2>2. ctrlq'[l][i] \in Clients
    BY <2>1, QueueIndices
  <2>3. ctrlq'[l][i] # None
    BY <2>2, UringAssumption DEF Files
  <2> QED BY <2>1, <2>3 DEF QueuedApart
<1>3. ASSUME NEW l \in Links, NEW k \in Links,
             NEW i \in DOMAIN ctrlq'[l], NEW j \in DOMAIN ctrlq'[k],
             ctrlq'[l][i] = ctrlq'[k][j]
      PROVE  l = k /\ i = j
  <2>1. PICK d \in {0, 1} : \A m \in DOMAIN ctrlq'[l] :
            m + d \in DOMAIN ctrlq[l] /\ ctrlq'[l][m] = ctrlq[l][m + d]
    BY DEF Shrunk
  <2>2. PICK e \in {0, 1} : \A m \in DOMAIN ctrlq'[k] :
            m + e \in DOMAIN ctrlq[k] /\ ctrlq'[k][m] = ctrlq[k][m + e]
    BY DEF Shrunk
  <2>3. l = k /\ i + d = j + e
    BY <1>3, <2>1, <2>2 DEF QueuedApart
  <2>4. ctrlq'[l][j] = ctrlq[l][j + d] /\ j + d \in DOMAIN ctrlq[l]
    BY <2>1, <2>3
  <2>5. ctrlq[l][j + d] = ctrlq[l][i + d] /\ i + d \in DOMAIN ctrlq[l]
    BY <1>3, <2>1, <2>3, <2>4
  <2>6. j + d = i + d
    BY <2>4, <2>5 DEF QueuedApart
  <2>7. i \in Nat /\ j \in Nat
    <3>1. ctrlq'[l] \in Seq(Clients) /\ ctrlq'[k] \in Seq(Clients)
      BY DEF TypeOK
    <3> QED BY <3>1, LenProperties
  <2> QED BY <2>3, <2>6, <2>7
<1>4. QueuedApart'
  BY <1>2, <1>3 DEF QueuedApart
<1>5. Placed'
  BY UringAssumption DEF Placed, Files
<1> QED BY <1>1, <1>4, <1>5

LEMMA AcceptPlaces ==
    ASSUME TypeOK, TypeOK', OnePlace, NEW r, NEW l \in backlog, KernelAccept(r, l)
    PROVE  OnePlace'
<1> DEFINE f == LowestFd
<1>1. f \in Fds /\ fdt[f] = None
  BY LowestFdIsFree DEF KernelAccept, peers, outside
<1>2. /\ l \in Links /\ l \notin Clients
      /\ fdt' = [fdt EXCEPT ![f] = l]
      /\ backlog' = backlog \ {l}
      /\ UNCHANGED <<ctrlq, lbEnd, handed>>
  BY UringAssumption DEF KernelAccept, peers, outside, TypeOK, Files
<1> HIDE DEF f
<1>3. fdt'[f] = l /\ \A g \in Fds \ {f} : fdt'[g] = fdt[g]
  BY <1>1, <1>2 DEF TypeOK
<1>4. \A g \in Fds : fdt[g] # l
  BY <1>2 DEF OnePlace, Placed
<1>5. FilesOnce'
  BY <1>3, <1>4 DEF OnePlace, FilesOnce
<1>6. QueuedApart'
  <2>1. \A k \in Links : \A i \in DOMAIN ctrlq[k] : ctrlq[k][i] # l
    BY <1>2, QueueIndices
  <2> QED BY <1>2, <1>3, <2>1 DEF OnePlace, QueuedApart
<1>7. Placed'
  BY <1>2, <1>3 DEF OnePlace, Placed
<1> QED BY <1>5, <1>6, <1>7 DEF OnePlace

\* What the kernel does when a link brings a client.
LEMMA KernelCtrlEffect ==
    ASSUME TypeOK, NEW r \in BagToSet(armed), KernelCtrl(r)
    PROVE  /\ r \in Requests /\ r.op = "ctrl" /\ r.file \in Links /\ ctrlq[r.file] # <<>>
           /\ LowestFd \in Fds /\ fdt[LowestFd] = None
           /\ 1 \in DOMAIN ctrlq[r.file]
           /\ ctrlq[r.file][1] \in Clients
           /\ ctrlq' = [ctrlq EXCEPT ![r.file] = Tail(ctrlq[r.file])]
           /\ fdt' = [fdt EXCEPT ![LowestFd] = ctrlq[r.file][1]]
<1>1. r \in Requests /\ r.op = "ctrl" /\ r.file \in Links /\ ctrlq[r.file] # <<>>
  BY DEF TypeOK, KernelCtrl
<1>2. LowestFd \in Fds /\ fdt[LowestFd] = None
  BY LowestFdIsFree DEF KernelCtrl
<1>3. ctrlq[r.file] \in Seq(Clients)
  BY <1>1, QueueIndices
<1>4. 1 \in DOMAIN ctrlq[r.file] /\ Head(ctrlq[r.file]) = ctrlq[r.file][1]
  <2>1. Len(ctrlq[r.file]) \in Nat /\ Len(ctrlq[r.file]) # 0
        /\ DOMAIN ctrlq[r.file] = 1..Len(ctrlq[r.file])
    BY <1>1, <1>3, LenProperties, EmptySeq
  <2> QED BY <2>1
<1>5. ctrlq[r.file][1] \in Clients
  BY <1>1, <1>4, QueueIndices
<1>6. /\ ctrlq' = [ctrlq EXCEPT ![r.file] = Tail(ctrlq[r.file])]
      /\ fdt' = [fdt EXCEPT ![LowestFd] = ctrlq[r.file][1]]
  BY <1>1, <1>4 DEF KernelCtrl
<1> QED BY <1>1, <1>2, <1>4, <1>5, <1>6

\* The client at the head of the queue is in one place before and after.
LEMMA CtrlPlaces ==
    ASSUME TypeOK, TypeOK', OnePlace, NEW r \in BagToSet(armed), KernelCtrl(r)
    PROVE  OnePlace'
<1> DEFINE f == LowestFd
           l == r.file
           c == ctrlq[r.file][1]
<1>1. /\ l \in Links /\ f \in Fds /\ fdt[f] = None /\ 1 \in DOMAIN ctrlq[l]
      /\ c \in Clients /\ c = ctrlq[l][1] /\ ctrlq[l] # <<>>
      /\ ctrlq' = [ctrlq EXCEPT ![l] = Tail(ctrlq[l])]
      /\ fdt' = [fdt EXCEPT ![f] = c]
  BY KernelCtrlEffect
<1>2. UNCHANGED <<backlog, handed, lbEnd>>
  BY DEF KernelCtrl, peers, outside
<1> HIDE DEF f, l, c
<1>3. /\ Shrunk
      /\ \A i \in DOMAIN ctrlq'[l] : i + 1 \in DOMAIN ctrlq[l] /\ ctrlq'[l][i] = ctrlq[l][i + 1]
  BY <1>1, TailShrinks
<1>4. fdt'[f] = c /\ \A g \in Fds \ {f} : fdt'[g] = fdt[g]
  BY <1>1 DEF TypeOK
<1>5. c \in handed /\ \A g \in Fds : fdt[g] # c
  BY <1>1 DEF OnePlace, QueuedApart
<1>6. FilesOnce'
  BY <1>4, <1>5 DEF OnePlace, FilesOnce
<1>7. ASSUME NEW k \in Links, NEW i \in DOMAIN ctrlq'[k]
      PROVE  /\ i \in Nat \ {0} /\ ctrlq'[k][i] # c
             /\ \E d \in {0, 1} : i + d \in DOMAIN ctrlq[k] /\ ctrlq'[k][i] = ctrlq[k][i + d]
  <2>1. i \in Nat \ {0}
    <3>1. ctrlq'[k] \in Seq(Clients)
      BY DEF TypeOK
    <3> QED BY <3>1, LenProperties
  <2>2. \E d \in {0, 1} : i + d \in DOMAIN ctrlq[k] /\ ctrlq'[k][i] = ctrlq[k][i + d]
    BY <1>3 DEF Shrunk
  <2>3. CASE k = l
    <3>1. i + 1 \in DOMAIN ctrlq[l] /\ ctrlq'[k][i] = ctrlq[l][i + 1] /\ i + 1 # 1
      BY <1>3, <2>1, <2>3
    <3> QED BY <1>1, <2>1, <2>2, <3>1 DEF OnePlace, QueuedApart
  <2>4. CASE k # l
    BY <1>1, <2>1, <2>2, <2>4 DEF OnePlace, QueuedApart
  <2> QED BY <2>3, <2>4
<1>8. \A k \in Links : \A i \in DOMAIN ctrlq'[k] :
         ctrlq'[k][i] \in handed' /\ \A g \in Fds : fdt'[g] # ctrlq'[k][i]
  <2> SUFFICES ASSUME NEW k \in Links, NEW i \in DOMAIN ctrlq'[k]
               PROVE  ctrlq'[k][i] \in handed' /\ \A g \in Fds : fdt'[g] # ctrlq'[k][i]
    OBVIOUS
  <2>1. PICK d \in {0, 1} : i + d \in DOMAIN ctrlq[k] /\ ctrlq'[k][i] = ctrlq[k][i + d]
    BY <1>7
  <2>2. ctrlq[k][i + d] \in handed /\ \A g \in Fds : fdt[g] # ctrlq[k][i + d]
    BY <2>1 DEF OnePlace, QueuedApart
  <2>3. ctrlq'[k][i] # c
    BY <1>7
  <2> QED BY <1>2, <1>4, <2>1, <2>2, <2>3
<1>9. ASSUME NEW j \in Links, NEW k \in Links,
             NEW i \in DOMAIN ctrlq'[j], NEW h \in DOMAIN ctrlq'[k],
             ctrlq'[j][i] = ctrlq'[k][h]
      PROVE  j = k /\ i = h
  <2>1. PICK d \in {0, 1} : \A m \in DOMAIN ctrlq'[j] :
            m + d \in DOMAIN ctrlq[j] /\ ctrlq'[j][m] = ctrlq[j][m + d]
    BY <1>3 DEF Shrunk
  <2>2. PICK e \in {0, 1} : h + e \in DOMAIN ctrlq[k] /\ ctrlq'[k][h] = ctrlq[k][h + e]
    BY <1>7
  <2>3. i + d \in DOMAIN ctrlq[j] /\ ctrlq'[j][i] = ctrlq[j][i + d]
    BY <2>1
  <2>4. j = k
    BY <1>9, <2>2, <2>3 DEF OnePlace, QueuedApart
  <2>5. h + d \in DOMAIN ctrlq[j] /\ ctrlq'[j][h] = ctrlq[j][h + d]
    BY <2>1, <2>4
  <2>6. i + d = h + d
    <3>1. ctrlq[j][i + d] = ctrlq[j][h + d]
      BY <1>9, <2>3, <2>4, <2>5
    <3> QED BY <2>3, <2>5, <3>1 DEF OnePlace, QueuedApart
  <2>7. i \in Nat
    BY <1>7
  <2>8. h \in Nat
    BY <1>7
  <2>9. d \in Nat
    BY <2>1
  <2>10. i = h
    BY <2>6, <2>7, <2>8, <2>9
  <2> QED BY <2>4, <2>10
<1>10. QueuedApart'
  BY <1>8, <1>9 DEF QueuedApart
<1>11. Placed'
  <2>1. c \notin Links
    BY <1>1, UringAssumption
  <2> QED BY <1>2, <1>4, <1>5, <2>1 DEF OnePlace, Placed
<1> QED BY <1>6, <1>10, <1>11 DEF OnePlace

\* A client handed over was in no place before.
LEMMA HandOverPlaces ==
    ASSUME TypeOK, TypeOK', OnePlace, NEW l \in Links, NEW c \in Clients, LbHandOver(l, c)
    PROVE  OnePlace'
<1>1. /\ c \notin handed /\ handed' = handed \cup {c}
      /\ ctrlq' = [ctrlq EXCEPT ![l] = Append(ctrlq[l], c)]
      /\ UNCHANGED <<fdt, backlog, lbEnd>>
  BY DEF LbHandOver
<1>2. ctrlq[l] \in Seq(Clients)
  BY QueueIndices
<1>3. /\ Len(ctrlq[l]) \in Nat /\ DOMAIN ctrlq[l] = 1..Len(ctrlq[l])
      /\ DOMAIN Append(ctrlq[l], c) = 1..(Len(ctrlq[l]) + 1)
      /\ Append(ctrlq[l], c)[Len(ctrlq[l]) + 1] = c
      /\ \A i \in 1..Len(ctrlq[l]) : Append(ctrlq[l], c)[i] = ctrlq[l][i]
  <2>1. /\ Append(ctrlq[l], c) \in Seq(Clients)
        /\ Len(Append(ctrlq[l], c)) = Len(ctrlq[l]) + 1
        /\ \A i \in 1..Len(ctrlq[l]) : Append(ctrlq[l], c)[i] = ctrlq[l][i]
        /\ Append(ctrlq[l], c)[Len(ctrlq[l]) + 1] = c
    BY <1>2, AppendProperties
  <2> QED BY <1>2, <2>1, LenProperties
<1>4. ctrlq'[l] = Append(ctrlq[l], c) /\ \A k \in Links \ {l} : ctrlq'[k] = ctrlq[k]
  BY <1>1 DEF TypeOK
<1>5. ASSUME NEW k \in Links, NEW i \in DOMAIN ctrlq'[k]
      PROVE  \/ k = l /\ i = Len(ctrlq[l]) + 1 /\ ctrlq'[k][i] = c
             \/ i \in DOMAIN ctrlq[k] /\ ctrlq'[k][i] = ctrlq[k][i]
  <2>1. CASE k = l
    <3>1. i \in 1..(Len(ctrlq[l]) + 1)
      BY <1>3, <1>4, <2>1
    <3>2. CASE i = Len(ctrlq[l]) + 1
      BY <1>3, <1>4, <2>1, <3>2
    <3>3. CASE i # Len(ctrlq[l]) + 1
      <4>1. i \in 1..Len(ctrlq[l])
        BY <1>3, <3>1, <3>3
      <4> QED BY <1>3, <1>4, <2>1, <4>1
    <3> QED BY <3>2, <3>3
  <2>2. CASE k # l
    BY <1>4, <2>2
  <2> QED BY <2>1, <2>2
<1>6. \A f \in Fds : fdt[f] # c
  BY <1>1 DEF OnePlace, Placed
<1>7. \A k \in Links : \A i \in DOMAIN ctrlq[k] : ctrlq[k][i] # c
  BY <1>1 DEF OnePlace, QueuedApart
<1>8. \A k \in Links : \A i \in DOMAIN ctrlq'[k] :
         ctrlq'[k][i] \in handed' /\ \A g \in Fds : fdt'[g] # ctrlq'[k][i]
  BY <1>1, <1>5, <1>6 DEF OnePlace, QueuedApart
<1>9. ASSUME NEW j \in Links, NEW k \in Links,
             NEW i \in DOMAIN ctrlq'[j], NEW h \in DOMAIN ctrlq'[k],
             ctrlq'[j][i] = ctrlq'[k][h]
      PROVE  j = k /\ i = h
  BY <1>5, <1>7, <1>9 DEF OnePlace, QueuedApart
<1>10. FilesOnce' /\ QueuedApart' /\ Placed'
  BY <1>1, <1>8, <1>9 DEF OnePlace, FilesOnce, QueuedApart, Placed
<1> QED BY <1>10 DEF OnePlace

\* A message is lost, or a byte read in its place.
LEMMA LosesPlaces ==
    ASSUME TypeOK, TypeOK', OnePlace, NEW l \in Links, ctrlq[l] # <<>>,
           ctrlq' = [ctrlq EXCEPT ![l] = Tail(ctrlq[l])],
           UNCHANGED <<fdt, backlog, handed, lbEnd>>
    PROVE  OnePlace'
<1>1. Shrunk
  BY TailShrinks
<1> QED BY <1>1, ShrinkKeeps

\* What closing a number does to the table.
LEMMA CloseFrees ==
    ASSUME TypeOK, NEW f, fdt' = [fdt EXCEPT ![f] = None]
    PROVE  \A g \in Fds : fdt'[g] = fdt[g] \/ fdt'[g] = None
    BY DEF TypeOK

LEMMA ClosePlaces ==
    ASSUME TypeOK, TypeOK', OnePlace, NEW f, fdt' = [fdt EXCEPT ![f] = None],
           UNCHANGED <<ctrlq, backlog, handed, lbEnd>>
    PROVE  OnePlace'
<1>1. Shrunk
  BY SameShrinks
<1> QED BY <1>1, CloseFrees, ShrinkKeeps

\* A receive that was misdirected to a link takes a message's byte.
LEMMA RecvQueues ==
    ASSUME TypeOK, NEW r \in BagToSet(armed), NEW more \in BOOLEAN, KernelRecv(r, more)
    PROVE  /\ r.file \in Links => /\ ctrlq[r.file] # <<>>
                                  /\ ctrlq' = [ctrlq EXCEPT ![r.file] = Tail(ctrlq[r.file])]
           /\ r.file \notin Links => ctrlq' = ctrlq
<1>1. ctrlq \in [Links -> Seq(Clients)]
  BY DEF TypeOK
<1>2. ctrlq' = [l \in Links |-> IF l = r.file THEN Tail(ctrlq[l]) ELSE ctrlq[l]]
  BY DEF KernelRecv
<1>3. r.file \in Links => ctrlq[r.file] # <<>>
  BY DEF KernelRecv, Incoming
<1> QED BY <1>1, <1>2, <1>3

LEMMA NextOnePlace == TypeOK /\ OnePlace /\ [Next]_vars => OnePlace'
<1> SUFFICES ASSUME TypeOK, OnePlace, [Next]_vars PROVE OnePlace'
  OBVIOUS
<1>0. TypeOK'
  BY NextType
<1>1. ASSUME UNCHANGED <<fdt, ctrlq, backlog, handed, lbEnd>> PROVE OnePlace'
  BY <1>0, <1>1, SameShrinks, ShrinkKeeps
<1>2. ASSUME NEW f, fdt' = [fdt EXCEPT ![f] = None], UNCHANGED <<ctrlq, backlog, handed, lbEnd>>
      PROVE  OnePlace'
  BY <1>0, <1>2, ClosePlaces
<1>3. CASE SubmitAndWait \/ Reap \/ OnAccept \/ OnAcceptEnd \/ OnCtrl \/ OnCtrlEmpty \/ OnRecv
  BY <1>1, <1>3 DEF SubmitAndWait, Reap, OnAccept, OnAcceptEnd, OnCtrl, OnCtrlEmpty, OnRecv,
                    kernel, peers, outside
<1>4. CASE OnCtrlEnd \/ OnRecvEnd \/ OnRecvRefused \/ OnRecvBad
  <2>1. fdt' = [fdt EXCEPT ![E.fd] = None] /\ UNCHANGED <<ctrlq, backlog, handed, lbEnd>>
    BY <1>4 DEF OnCtrlEnd, OnRecvEnd, OnRecvRefused, OnRecvBad, CloseClient, peers, outside
  <2> QED BY <1>2, <2>1
<1>5. CASE OnSend
  <2>1. fdt' = fdt \/ fdt' = [fdt EXCEPT ![E.fd] = None]
    BY <1>5 DEF OnSend, CloseClient
  <2>2. UNCHANGED <<ctrlq, backlog, handed, lbEnd>>
    BY <1>5 DEF OnSend, peers, outside
  <2> QED BY <1>1, <1>2, <2>1, <2>2
<1>6. CASE Kernel
  <2>1. PICK r \in BagToSet(armed) :
          \/ \E l \in backlog : KernelAccept(r, l)
          \/ KernelAcceptEnd(r)
          \/ KernelCtrl(r) \/ KernelCtrlLost(r) \/ KernelCtrlEnd(r)
          \/ \E more \in BOOLEAN : KernelRecv(r, more)
          \/ KernelNoBuffer(r) \/ KernelRecvEnd(r)
    BY <1>6 DEF Kernel
  <2>2. CASE \E l \in backlog : KernelAccept(r, l)
    BY <1>0, <2>2, AcceptPlaces
  <2>3. CASE KernelCtrl(r)
    BY <1>0, <2>3, CtrlPlaces
  <2>4. CASE KernelCtrlLost(r)
    <3>1. /\ r.file \in Links /\ ctrlq[r.file] # <<>>
          /\ ctrlq' = [ctrlq EXCEPT ![r.file] = Tail(ctrlq[r.file])]
          /\ UNCHANGED <<fdt, backlog, handed, lbEnd>>
      BY <2>4 DEF KernelCtrlLost, outside
    <3> QED BY <1>0, <3>1, LosesPlaces
  <2>5. CASE \E more \in BOOLEAN : KernelRecv(r, more)
    <3>1. PICK more \in BOOLEAN : KernelRecv(r, more)
      BY <2>5
    <3>2. UNCHANGED <<fdt, backlog, handed, lbEnd>>
      BY <3>1 DEF KernelRecv
    <3> QED BY <1>0, <1>1, <3>1, <3>2, RecvQueues, LosesPlaces
  <2>6. CASE KernelAcceptEnd(r) \/ KernelCtrlEnd(r) \/ KernelNoBuffer(r) \/ KernelRecvEnd(r)
    BY <1>1, <2>6 DEF KernelAcceptEnd, KernelCtrlEnd, KernelNoBuffer, KernelRecvEnd,
                      kernel, peers, outside
  <2> QED BY <2>1, <2>2, <2>3, <2>4, <2>5, <2>6
<1>7. ASSUME NEW l \in Links, LbConnect(l) PROVE OnePlace'
  <2>1. /\ UNCHANGED <<fdt, ctrlq, handed>> /\ backlog' = backlog \cup {l}
        /\ lbEnd[l] = "new" /\ lbEnd' = [lbEnd EXCEPT ![l] = "open"]
    BY <1>7 DEF LbConnect
  <2>2. FilesOnce' /\ QueuedApart'
    BY <2>1 DEF OnePlace, FilesOnce, QueuedApart
  <2>3. Placed'
    BY <2>1 DEF OnePlace, Placed, TypeOK
  <2> QED BY <2>2, <2>3 DEF OnePlace
<1>8. ASSUME NEW l \in Links, LbExit(l) PROVE OnePlace'
  <2>1. /\ UNCHANGED <<fdt, ctrlq, handed, backlog>>
        /\ lbEnd' = [lbEnd EXCEPT ![l] = "closed"]
    BY <1>8 DEF LbExit, kernel
  <2>2. FilesOnce' /\ QueuedApart'
    BY <2>1 DEF OnePlace, FilesOnce, QueuedApart
  <2>3. Placed'
    BY <2>1 DEF OnePlace, Placed, TypeOK
  <2> QED BY <2>2, <2>3 DEF OnePlace
<1>9. ASSUME NEW l \in Links, NEW c \in Clients, LbHandOver(l, c) PROVE OnePlace'
  BY <1>0, <1>9, HandOverPlaces
<1>10. ASSUME NEW c \in Clients, ClientSend(c) \/ ClientHangUp(c) PROVE OnePlace'
  BY <1>1, <1>10 DEF ClientSend, ClientHangUp, kernel
<1>11. CASE UNCHANGED vars
  BY <1>1, <1>11 DEF vars
<1> QED BY <1>3, <1>4, <1>5, <1>6, <1>7, <1>8, <1>9, <1>10, <1>11
        DEF Next, Worker, Environment

LEMMA InitOnePlace == Init => OnePlace
<1> SUFFICES ASSUME Init PROVE OnePlace
  OBVIOUS
<1>1. \A f \in Fds : fdt[f] = None
  BY DEF Init
<1>2. \A l \in Links : ctrlq[l] = <<>> /\ DOMAIN ctrlq[l] = {}
  BY DEF Init
<1>3. backlog = {} /\ \A l \in Links : l # None
  BY UringAssumption DEF Init, Files
<1>4. \A c \in Clients : c # None
  BY UringAssumption DEF Files
<1> QED BY <1>1, <1>2, <1>3, <1>4 DEF OnePlace, FilesOnce, QueuedApart, Placed

LEMMA NextSending == TypeOK /\ Sending /\ [Next]_vars => Sending'
<1> SUFFICES ASSUME TypeOK, Sending, [Next]_vars PROVE Sending'
  OBVIOUS
<1>1. ASSUME UNCHANGED <<sent, got>> PROVE Sending'
  BY <1>1 DEF Sending
<1>2. CASE Worker
  BY <1>1, <1>2 DEF Worker, SubmitAndWait, Reap, OnAccept, OnAcceptEnd, OnCtrlEnd, OnCtrl,
        OnCtrlEmpty, OnRecvEnd, OnRecv, OnRecvRefused, OnRecvBad, OnSend, peers, outside
<1>3. ASSUME NEW r \in BagToSet(armed), NEW more \in BOOLEAN, KernelRecv(r, more) PROVE Sending'
  <2>1. /\ sent' = sent /\ r \in Requests /\ r.op = "recv" /\ Incoming(r.file)
        /\ got' = [c \in Clients |-> IF c = r.file THEN got[c] + Len(Chunk(c)) ELSE got[c]]
    BY <1>3 DEF KernelRecv, TypeOK
  <2>2. r.file \in Files
    BY <2>1, RequestCases
  <2>3. ASSUME NEW c \in Clients, c = r.file PROVE got'[c] <= sent[c]
    <3>1. Len(Chunk(c)) \in Nat /\ Len(Chunk(c)) <= sent[c] - got[c]
      BY <2>1, <2>2, <2>3, ChunkType
    <3>2. got[c] \in Nat /\ sent[c] \in Nat /\ got'[c] = got[c] + Len(Chunk(c))
      BY <2>1, <2>3 DEF TypeOK
    <3> QED BY <3>1, <3>2
  <2>4. \A c \in Clients : c # r.file => got'[c] = got[c]
    BY <2>1
  <2> QED BY <2>1, <2>3, <2>4 DEF Sending
<1>4. ASSUME NEW c \in Clients, ClientSend(c) PROVE Sending'
  <2>1. PICK n \in (sent[c] + 1)..Len(Stream[c]) : sent' = [sent EXCEPT ![c] = n]
    BY <1>4 DEF ClientSend
  <2>2. got' = got /\ got[c] <= sent[c] /\ got[c] \in Nat /\ sent[c] \in Nat
    BY <1>4 DEF ClientSend, Sending, TypeOK
  <2>3. Len(Stream[c]) \in Nat
    BY UringAssumption, LenProperties
  <2>4. got[c] <= n /\ n <= Len(Stream[c])
    BY <2>2, <2>3
  <2>5. sent'[c] = n /\ \A d \in Clients \ {c} : sent'[d] = sent[d]
    BY <2>1 DEF TypeOK
  <2> QED BY <2>2, <2>4, <2>5 DEF Sending
<1>5. CASE UNCHANGED vars
  BY <1>1, <1>5 DEF vars
<1>6. ASSUME NEW r \in BagToSet(armed),
             \/ \E l \in backlog : KernelAccept(r, l)
             \/ KernelAcceptEnd(r)
             \/ KernelCtrl(r) \/ KernelCtrlLost(r) \/ KernelCtrlEnd(r)
             \/ KernelNoBuffer(r) \/ KernelRecvEnd(r)
      PROVE  Sending'
  BY <1>1, <1>6 DEF KernelAccept, KernelAcceptEnd, KernelCtrl, KernelCtrlLost, KernelCtrlEnd,
        KernelNoBuffer, KernelRecvEnd, peers, outside
<1>7. CASE Environment
  BY <1>1, <1>4, <1>7 DEF Environment, LbConnect, LbExit, LbHandOver, ClientHangUp
<1> QED BY <1>2, <1>3, <1>5, <1>6, <1>7 DEF Next, Kernel

LEMMA InitSending == Init => Sending
<1> SUFFICES ASSUME Init, NEW c \in Clients PROVE got[c] <= sent[c] /\ sent[c] <= Len(Stream[c])
  BY DEF Sending
<1>1. Len(Stream[c]) \in Nat
  BY UringAssumption, LenProperties
<1> QED BY <1>1 DEF Init

---------------------------------------------------------------------------
(* The wiring, stated of a submission queue q, the completions p to be     *)
(* handled, the requests a in flight, the tables cn and ct, the descriptor *)
(* table ft, the clients fn that left and the links dr that are drained,   *)
(* so that a handler's pushes and the submission a full queue forces can   *)
(* be taken one after the other.                                           *)

\* Which connections and links the tables may name.
Tables(cn, ct, ft) ==
    \A f \in Fds : (cn[f].some => ft[f] \in Clients) /\ (f \in ct => ft[f] \in Links)

\* A completion that announces a new descriptor.
Announces(e) == e.op \in {"accept", "ctrl"} /\ e.res = "ok" /\ e.val # None

\* A new descriptor is announced once, by the right kind of completion, and
\* nothing is known of it.
Announcements(p, cn, ct, ft) ==
    /\ \A i \in DOMAIN p : Announces(p[i]) =>
          /\ ft[p[i].val] \in (IF p[i].op = "accept" THEN Links ELSE Clients)
          /\ ~ cn[p[i].val].some /\ p[i].val \notin ct
    /\ \A i, j \in DOMAIN p :
          Announces(p[i]) /\ Announces(p[j]) /\ p[i].val = p[j].val => i = j

\* Every descriptor is announced or served.
Known(p, cn, ct, ft) ==
    \A f \in Fds : ft[f] # None =>
        cn[f].some \/ f \in ct \/ \E i \in DOMAIN p : Announces(p[i]) /\ p[i].val = f

\* A request is for a descriptor that is served.
ForServed(op, f, cn, ct) ==
    /\ op = "ctrl" => f \in ct
    /\ op \in {"recv", "send"} => cn[f].some

Pushed(q, cn, ct) == \A i \in DOMAIN q : ForServed(q[i].op, q[i].fd, cn, ct)

Flying(a, cn, ct, ft) ==
    \A r \in DOMAIN a : /\ a[r] \in Nat \ {0}
                        /\ ForServed(r.op, r.fd, cn, ct)
                        /\ r.op # "accept" => r.file = ft[r.fd]

\* So is a completion, which has its file; it reports an end with a cause, and
\* no send fails.
Completed(p, cn, ct, ft, fn, dr) ==
    \A i \in DOMAIN p :
        /\ p[i].op = "accept" => p[i].fd = ListenFd /\ p[i].file = ListenFd
        /\ p[i].op \in {"ctrl", "recv"} =>
              ForServed(p[i].op, p[i].fd, cn, ct) /\ p[i].file = ft[p[i].fd]
        /\ p[i].op = "recv" => p[i].res # "nobufs" /\ (p[i].res = "fail" => p[i].file \in fn)
        /\ p[i].op = "ctrl" => ~ p[i].more /\ (p[i].res # "ok" => p[i].file \in dr)
        /\ p[i].op = "send" => p[i].res = "ok"

\* Their last completions, and how many requests there are in all.
CqOf(op, f)  == {e \in Completion : e.op = op /\ e.fd = f /\ ~ e.more}
Requested(op, f, q, p, a, ft) ==
    Count(q, SqOf(op, f)) + Count(p, CqOf(op, f)) + Copies(Request(op, f, ft[f]), a)

\* Every connection has one receive and every link one recvmsg.
OneEach(q, p, a, cn, ct, ft) ==
    \A f \in Fds : /\ cn[f].some => Requested("recv", f, q, p, a, ft) = 1
                   /\ f \in ct => Requested("ctrl", f, q, p, a, ft) = 1

\* The completion that ends a receive is the last one for its descriptor.
LastEnds(p) ==
    \A i, j \in DOMAIN p :
        p[i].op = "recv" /\ p[j].op = "recv" /\ p[i].fd = p[j].fd /\ i < j => p[i].more

Wired(q, p, a, cn, ct, ft, fn, dr) ==
    /\ Tables(cn, ct, ft) /\ Announcements(p, cn, ct, ft) /\ Known(p, cn, ct, ft)
    /\ Pushed(q, cn, ct) /\ Flying(a, cn, ct, ft) /\ Completed(p, cn, ct, ft, fn, dr)
    /\ OneEach(q, p, a, cn, ct, ft) /\ LastEnds(p)

---------------------------------------------------------------------------
(* The data: besides, the answers o and the provided buffers m, the units  *)
(* g received and s sent, and the clients w waiting to be installed.       *)

\* Where the requests of a client end, and how many end up to n.
Lasts(c)  == {i \in DOMAIN Stream[c] : Stream[c][i].last}
Nth(c, n) == Rank(n, Lasts(c))

\* The completions that bring bytes for f.
Feed(p, f) == {i \in DOMAIN p : p[i].op = "recv" /\ p[i].res = "ok" /\ p[i].fd = f}
Lo(b)      == b[1][2]
Hi(b)      == b[Len(b)][2]

\* b is the stretch of c's stream from Lo(b) to Hi(b).
Stretch(b, c) == b # <<>> /\ Lo(b) \in Nat /\ \A k \in DOMAIN b : b[k] = <<c, Lo(b) + k - 1>>

\* The completions for f bring what c sent after its first n units, up to the
\* last that was received, in order and without a gap.
Brings(p, m, f, c, n, g) ==
    /\ \A i \in Feed(p, f) :
          Stretch(m[p[i].val], c) /\ n < Lo(m[p[i].val]) /\ Hi(m[p[i].val]) <= g
    /\ \A i, j \in Feed(p, f) : i < j => Hi(m[p[i].val]) < Lo(m[p[j].val])
    /\ \A u \in (n + 1)..g :
          \E i \in Feed(p, f) : Lo(m[p[i].val]) <= u /\ u <= Hi(m[p[i].val])

\* Up to n the bytes are in the buffer, which holds no complete request.
Holds(b, c, n) ==
    /\ Len(b) <= n
    /\ \A k \in DOMAIN b : b[k] = <<c, n - Len(b) + k>> /\ ~ Stream[c][n - Len(b) + k].last

\* The answers pushed for f.
Sends(q, f) == {i \in DOMAIN q : q[i].op = "send" /\ q[i].fd = f}

\* They continue the answers o that c has, one for each request, in order.
Continue(q, f, c, o) ==
    \A i \in Sends(q, f) :
        /\ q[i].ans[1] = c /\ q[i].ans[2] \in Lasts(c)
        /\ Nth(c, q[i].ans[2]) = Len(o) + Rank(i, Sends(q, f))

\* Answered, pushed, buffered, brought: all of what was received, in order.
ServesOne(q, p, m, f, c, b, o, g) ==
    /\ Continue(q, f, c, o)
    /\ \E n \in 0..g :
          /\ Brings(p, m, f, c, n, g)
          /\ Holds(b, c, n)
          /\ Len(o) + Cardinality(Sends(q, f)) = Nth(c, n - Len(b))

Serves(q, p, cn, o, m, ft, g) ==
    \A f \in Fds : cn[f].some =>
        ServesOne(q, p, m, f, ft[f], cn[f].buf, o[ft[f]], g[ft[f]])

InOrder(o) ==
    \A c \in Clients : \A k \in DOMAIN o[c] :
        o[c][k][1] = c /\ o[c][k][2] \in Lasts(c) /\ Nth(c, o[c][k][2]) = k

\* Nobody has more answers than it asked for, and who left has them all.
Settled(o, fn, s) ==
    \A c \in Clients : Len(o[c]) <= Nth(c, s[c]) /\ (c \in fn => Len(o[c]) = Nth(c, s[c]))

\* Nothing is received or answered before a connection is served.
Fresh(cn, o, ft, g, w) ==
    \A c \in Clients : (g[c] # 0 \/ o[c] # <<>>) =>
        c \notin w /\ \A f \in Fds : ft[f] = c => cn[f].some

Flows(q, p, cn, o, m, ft, fn, g, s, w) ==
    /\ Serves(q, p, cn, o, m, ft, g) /\ InOrder(o) /\ Settled(o, fn, s)
    /\ Fresh(cn, o, ft, g, w)

---------------------------------------------------------------------------
(* The invariant.                                                          *)

DrainedLinks == {l \in Links : Drained(l)}
Waiting      == {c \in Clients : \/ c \notin handed
                                 \/ \E l \in Links : \E i \in DOMAIN ctrlq[l] : ctrlq[l][i] = c}

WiredNow == Wired(sq, done \o cq, armed, conns, ctrls, fdt, fin, DrainedLinks)
FlowsNow == Flows(sq, done \o cq, conns, out, mem, fdt, fin, got, sent, Waiting)
Wiring   == Sound => WiredNow /\ FlowsNow

---------------------------------------------------------------------------
(* Submitting.                                                             *)

SentOk == {e \in Completion : e.op = "send" /\ e.res = "ok"}

\* Completions of sends are of no interest to anybody.
LEMMA SentOkSilent ==
    ASSUME NEW e \in SentOk
    PROVE  /\ e \in Completion /\ e.op = "send" /\ e.res = "ok" /\ ~ Announces(e)
           /\ \A op \in {"accept", "ctrl", "recv"}, f \in Fds : e \notin CqOf(op, f)
    BY DEF SentOk, Announces, CqOf

LEMMA MoreSent ==
    ASSUME NEW p \in Seq(Completion), NEW s \in Seq(SentOk)
    PROVE  /\ p \o s \in Seq(Completion)
           /\ \A i \in DOMAIN p : i \in DOMAIN (p \o s) /\ (p \o s)[i] = p[i]
           /\ \A i \in DOMAIN (p \o s) : i \in DOMAIN p \/ (p \o s)[i] \in SentOk
           /\ \A op \in {"ctrl", "recv"}, f \in Fds :
                 Count(p \o s, CqOf(op, f)) = Count(p, CqOf(op, f))
<1>1. s \in Seq(Completion)
  BY SeqMonotonic DEF SentOk
<1>2. /\ Len(p) \in Nat /\ DOMAIN p = 1..Len(p) /\ Len(s) \in Nat /\ DOMAIN s = 1..Len(s)
      /\ p \o s \in Seq(Completion)
      /\ DOMAIN (p \o s) = 1..(Len(p) + Len(s))
      /\ \A i \in 1..(Len(p) + Len(s)) :
            (p \o s)[i] = IF i <= Len(p) THEN p[i] ELSE s[i - Len(p)]
  BY <1>1, LenProperties, ConcatProperties
<1>3. \A i \in DOMAIN s : s[i] \in SentOk
  BY ElementOfSeq, LenProperties
<1>4. ASSUME NEW i \in DOMAIN (p \o s), i \notin DOMAIN p PROVE (p \o s)[i] \in SentOk
  <2>1. i - Len(p) \in DOMAIN s /\ ~ (i <= Len(p))
    BY <1>2, <1>4
  <2> QED BY <1>2, <1>3, <2>1
<1>5. ASSUME NEW op \in {"ctrl", "recv"}, NEW f \in Fds
      PROVE  Count(p \o s, CqOf(op, f)) = Count(p, CqOf(op, f))
  <2>1. Count(p \o s, CqOf(op, f)) = Count(p, CqOf(op, f)) + Count(s, CqOf(op, f))
    BY <1>1, CountConcat
  <2>2. \A i \in DOMAIN s : s[i] \notin CqOf(op, f)
    BY <1>3, SentOkSilent
  <2>3. Count(s, CqOf(op, f)) = 0
    BY <1>1, <2>2, CountNone
  <2>4. Count(p, CqOf(op, f)) \in Nat
    BY CountNat
  <2> QED BY <2>1, <2>3, <2>4
<1> QED BY <1>2, <1>4, <1>5

\* A submission of requests whose descriptors are open, with no answer to a
\* client that left.
LEMMA SubmitClean ==
    ASSUME TypeOK, NEW es \in Seq(Sqes), Submit(es),
           \A i \in DOMAIN es : es[i].op # "accept" => fdt[es[i].fd] # None,
           \A i \in DOMAIN es : es[i].op = "send" => fdt[es[i].fd] \notin fin
    PROVE  /\ \E s \in Seq(SentOk) : cq' = cq \o s
           /\ DOMAIN armed' \subseteq Requests
           /\ \A r \in DOMAIN armed' : r \in DOMAIN armed \/
                 \E i \in DOMAIN es : /\ es[i].op # "send"
                                      /\ r = Request(es[i].op, es[i].fd, FileOf(es[i].fd))
           /\ (\A r \in DOMAIN armed : armed[r] \in Nat \ {0})
                 => \A r \in DOMAIN armed' : armed'[r] \in Nat \ {0}
           /\ (\A r \in DOMAIN armed : armed[r] \in Nat \ {0})
                 => \A op \in {"ctrl", "recv"}, f \in Fds :
                       Copies(Request(op, f, fdt[f]), armed')
                          = Copies(Request(op, f, fdt[f]), armed) + Count(es, SqOf(op, f))
<1>1. \A i \in DOMAIN es : es[i] \in Sqes
  BY LenProperties, ElementOfSeq
<1>2. \A i \in DOMAIN es : /\ FileOf(es[i].fd) # None
                           /\ es[i].op = "send" => FileOf(es[i].fd) \notin fin
  <2> SUFFICES ASSUME NEW i \in DOMAIN es
               PROVE  /\ FileOf(es[i].fd) # None
                      /\ es[i].op = "send" => FileOf(es[i].fd) \notin fin
    OBVIOUS
  <2>1. CASE es[i].op = "accept"
    BY <1>1, <2>1, SqeCases, ListenerFile
  <2>2. CASE es[i].op # "accept"
    <3>1. es[i].fd \in Fds
      BY <1>1, <2>2, SqeCases
    <3> QED BY <2>2, <3>1, FileOfType
  <2> QED BY <2>1, <2>2
<1>3. Results(es) \subseteq SentOk
  BY <1>2 DEF Results, SentOk
<1>4. \E s \in Seq(Results(es)) : cq' = cq \o s
  BY SubmitEffect
<1>5. \E s \in Seq(SentOk) : cq' = cq \o s
  BY <1>3, <1>4, SeqMonotonic
<1>6. /\ DOMAIN armed' \subseteq Requests
      /\ \A r \in DOMAIN armed' : r \in DOMAIN armed \/
            \E i \in DOMAIN es : /\ es[i].op # "send"
                                 /\ r = Request(es[i].op, es[i].fd, FileOf(es[i].fd))
      /\ (\A r \in DOMAIN armed : armed[r] \in Nat \ {0})
            => \A r \in DOMAIN armed' : armed'[r] \in Nat \ {0}
  BY SubmitEffect
<1>7. (\A r \in DOMAIN armed : armed[r] \in Nat \ {0})
         => \A op \in {"ctrl", "recv"}, f \in Fds :
               Copies(Request(op, f, fdt[f]), armed')
                  = Copies(Request(op, f, fdt[f]), armed) + Count(es, SqOf(op, f))
  BY <1>2, SubmitEffect
<1> QED BY <1>5, <1>6, <1>7

\* The shape of what the wiring is stated of.
Shaped(q, p, a, cn, ct, ft) ==
    /\ q \in Seq(Sqes) /\ p \in Seq(Completion) /\ DOMAIN a \subseteq Requests
    /\ cn \in [Fds -> [some : BOOLEAN, buf : Seq(Units)]]
    /\ ct \subseteq Fds /\ ft \in [Fds -> Files \cup {None}]

\* Who is served is a file.
LEMMA ServedFile ==
    ASSUME NEW cn, NEW ct, NEW ft, Tables(cn, ct, ft), NEW f \in Fds,
           NEW op \in {"ctrl", "recv", "send"}, ForServed(op, f, cn, ct)
    PROVE  ft[f] # None /\ ft[f] \in Files
<1>1. ft[f] \in Clients \/ ft[f] \in Links
  BY DEF Tables, ForServed
<1> QED BY <1>1, UringAssumption DEF Files

LEMMA SubmitWired ==
    ASSUME TypeOK, NEW q, NEW n \in 0..Len(q), NEW d, NEW cn, NEW ct,
           d \in Seq(Completion), Shaped(q, d \o cq, armed, cn, ct, fdt),
           Wired(q, d \o cq, armed, cn, ct, fdt, fin, DrainedLinks),
           \A i \in DOMAIN q : q[i].op = "send" => fdt[q[i].fd] \notin fin,
           Submit(SubSeq(q, 1, n))
    PROVE  /\ Wired(SubSeq(q, n + 1, Len(q)), d \o cq', armed', cn, ct, fdt, fin, DrainedLinks)
           /\ \E s \in Seq(SentOk) : cq' = cq \o s /\ d \o cq' = (d \o cq) \o s
<1> DEFINE es == SubSeq(q, 1, n)
           rest == SubSeq(q, n + 1, Len(q))
           p == d \o cq
<1>0. /\ q \in Seq(Sqes) /\ p \in Seq(Completion) /\ DOMAIN armed \subseteq Requests
      /\ cq \in Seq(Completion) /\ Len(q) \in Nat
  BY LenProperties DEF Shaped, TypeOK
<1>1. /\ es \in Seq(Sqes) /\ rest \in Seq(Sqes)
      /\ DOMAIN es = 1..n /\ DOMAIN rest = 1..(Len(q) - n)
      /\ \A i \in DOMAIN es : i \in DOMAIN q /\ es[i] = q[i]
      /\ \A i \in DOMAIN rest : i + n \in DOMAIN q /\ rest[i] = q[i + n]
  <2> HIDE DEF p
  <2>1. /\ es \in Seq(Sqes) /\ rest \in Seq(Sqes)
        /\ DOMAIN es = 1..n /\ DOMAIN rest = 1..(Len(q) - n)
        /\ \A i \in 1..n : i \in DOMAIN q /\ es[i] = q[i]
        /\ \A i \in 1..(Len(q) - n) : i + n \in DOMAIN q /\ rest[i] = q[i + n]
    BY <1>0, CutIndices
  <2> HIDE DEF es, rest
  <2> QED BY <2>1
<1>2. /\ Tables(cn, ct, fdt) /\ Announcements(p, cn, ct, fdt) /\ Known(p, cn, ct, fdt)
      /\ Pushed(q, cn, ct) /\ Flying(armed, cn, ct, fdt)
      /\ Completed(p, cn, ct, fdt, fin, DrainedLinks)
      /\ OneEach(q, p, armed, cn, ct, fdt) /\ LastEnds(p)
  BY DEF Wired
<1>3. Submit(es) /\ \A i \in DOMAIN q : q[i].op = "send" => fdt[q[i].fd] \notin fin
  OBVIOUS
<1>c. \A op \in {"ctrl", "recv"}, f \in Fds :
         /\ Count(q, SqOf(op, f)) = Count(es, SqOf(op, f)) + Count(rest, SqOf(op, f))
         /\ Count(es, SqOf(op, f)) \in Nat /\ Count(rest, SqOf(op, f)) \in Nat
  BY <1>0, <1>1, CountCut, CountNat
<1> HIDE DEF es, rest, p
<1>4. \A i \in DOMAIN es : es[i] \in Sqes /\ ForServed(es[i].op, es[i].fd, cn, ct)
  <2>1. \A i \in DOMAIN es : es[i] \in Sqes
    BY <1>1, ElementOfSeq, LenProperties
  <2> QED BY <1>1, <1>2, <2>1 DEF Pushed
<1>5. \A i \in DOMAIN es : es[i].op # "accept" => fdt[es[i].fd] # None
  BY <1>2, <1>4, SqeCases, ServedFile
<1>6. \A i \in DOMAIN es : es[i].op = "send" => fdt[es[i].fd] \notin fin
  BY <1>1, <1>3
<1>7. /\ \E s \in Seq(SentOk) : cq' = cq \o s
      /\ DOMAIN armed' \subseteq Requests
      /\ \A r \in DOMAIN armed' : r \in DOMAIN armed \/
            \E i \in DOMAIN es : /\ es[i].op # "send"
                                 /\ r = Request(es[i].op, es[i].fd, FileOf(es[i].fd))
      /\ (\A r \in DOMAIN armed : armed[r] \in Nat \ {0})
            => \A r \in DOMAIN armed' : armed'[r] \in Nat \ {0}
      /\ (\A r \in DOMAIN armed : armed[r] \in Nat \ {0})
            => \A op \in {"ctrl", "recv"}, f \in Fds :
                  Copies(Request(op, f, fdt[f]), armed')
                     = Copies(Request(op, f, fdt[f]), armed) + Count(es, SqOf(op, f))
  BY <1>1, <1>3, <1>5, <1>6, SubmitClean
<1>8. PICK s \in Seq(SentOk) : cq' = cq \o s
  BY <1>7
<1>9. d \o cq' = p \o s
  <2>1. s \in Seq(Completion)
    BY SeqMonotonic DEF SentOk
  <2>2. d \o (cq \o s) = (d \o cq) \o s
    BY <1>0, <2>1, ThreeParts
  <2> QED BY <1>8, <2>2 DEF p
<1> DEFINE t == p \o s
<1>10. /\ t \in Seq(Completion)
       /\ \A i \in DOMAIN p : i \in DOMAIN t /\ t[i] = p[i]
       /\ \A i \in DOMAIN t : i \in DOMAIN p \/ t[i] \in SentOk
       /\ \A op \in {"ctrl", "recv"}, f \in Fds :
             Count(t, CqOf(op, f)) = Count(p, CqOf(op, f))
  BY <1>0, MoreSent
<1>11. \A r \in DOMAIN armed : armed[r] \in Nat \ {0}
  BY <1>2 DEF Flying
<1> HIDE DEF t
<1>12. Announcements(t, cn, ct, fdt)
  <2>1. \A i \in DOMAIN t : Announces(t[i]) => i \in DOMAIN p /\ t[i] = p[i]
    BY <1>10, SentOkSilent
  <2> QED BY <1>2, <2>1 DEF Announcements
<1>13. Known(t, cn, ct, fdt)
  BY <1>2, <1>10 DEF Known
<1>14. Pushed(rest, cn, ct)
  BY <1>1, <1>2 DEF Pushed
<1>15. Flying(armed', cn, ct, fdt)
  <2> SUFFICES ASSUME NEW r \in DOMAIN armed'
               PROVE  /\ ForServed(r.op, r.fd, cn, ct)
                      /\ r.op # "accept" => r.file = fdt[r.fd]
    BY <1>7, <1>11 DEF Flying
  <2>1. CASE r \in DOMAIN armed
    BY <1>2, <2>1 DEF Flying
  <2>2. CASE r \notin DOMAIN armed
    <3>1. PICK i \in DOMAIN es : /\ es[i].op # "send"
                                 /\ r = Request(es[i].op, es[i].fd, FileOf(es[i].fd))
      BY <1>7, <2>2
    <3>2. r.op = es[i].op /\ r.fd = es[i].fd /\ r.file = FileOf(es[i].fd)
      BY <3>1 DEF Request
    <3>3. es[i].op # "accept" => FileOf(es[i].fd) = fdt[es[i].fd]
      BY <1>4, SqeCases, FileOfType
    <3> QED BY <1>4, <3>2, <3>3
  <2> QED BY <2>1, <2>2
<1>16. Completed(t, cn, ct, fdt, fin, DrainedLinks)
  <2> SUFFICES ASSUME NEW i \in DOMAIN t
               PROVE  /\ t[i].op = "accept" => t[i].fd = ListenFd /\ t[i].file = ListenFd
                      /\ t[i].op \in {"ctrl", "recv"} =>
                            ForServed(t[i].op, t[i].fd, cn, ct) /\ t[i].file = fdt[t[i].fd]
                      /\ t[i].op = "recv" => t[i].res # "nobufs" /\ (t[i].res = "fail" => t[i].file \in fin)
                      /\ t[i].op = "ctrl" => ~ t[i].more /\ (t[i].res # "ok" => t[i].file \in DrainedLinks)
                      /\ t[i].op = "send" => t[i].res = "ok"
    BY DEF Completed
  <2>1. CASE i \in DOMAIN p
    BY <1>2, <1>10, <2>1 DEF Completed
  <2>2. CASE t[i] \in SentOk
    BY <2>2, SentOkSilent
  <2> QED BY <1>10, <2>1, <2>2
<1>17. OneEach(rest, t, armed', cn, ct, fdt)
  <2>1. \A op \in {"ctrl", "recv"}, f \in Fds :
           Requested(op, f, rest, t, armed', fdt) = Requested(op, f, q, p, armed, fdt)
    <3> SUFFICES ASSUME NEW op \in {"ctrl", "recv"}, NEW f \in Fds
                 PROVE  Requested(op, f, rest, t, armed', fdt) = Requested(op, f, q, p, armed, fdt)
      OBVIOUS
    <3>1. Copies(Request(op, f, fdt[f]), armed) \in Nat
      BY <1>11 DEF Copies
    <3>2. Count(p, CqOf(op, f)) \in Nat
      BY <1>0, CountNat
    <3>3. Copies(Request(op, f, fdt[f]), armed')
             = Copies(Request(op, f, fdt[f]), armed) + Count(es, SqOf(op, f))
      BY <1>7, <1>11
    <3>4. Count(t, CqOf(op, f)) = Count(p, CqOf(op, f))
      BY <1>10
    <3>5. /\ Count(q, SqOf(op, f)) = Count(es, SqOf(op, f)) + Count(rest, SqOf(op, f))
          /\ Count(es, SqOf(op, f)) \in Nat /\ Count(rest, SqOf(op, f)) \in Nat
      BY <1>c
    <3> QED BY <3>1, <3>2, <3>3, <3>4, <3>5 DEF Requested
  <2> QED BY <1>2, <2>1 DEF OneEach
<1>18. LastEnds(t)
  <2>1. \A i \in DOMAIN t : t[i].op = "recv" => i \in DOMAIN p /\ t[i] = p[i]
    BY <1>10, SentOkSilent
  <2> QED BY <1>2, <2>1 DEF LastEnds
<1>19. Wired(rest, t, armed', cn, ct, fdt, fin, DrainedLinks)
  BY <1>2, <1>12, <1>13, <1>14, <1>15, <1>16, <1>17, <1>18 DEF Wired
<1> QED BY <1>8, <1>9, <1>19 DEF t, p, rest

LEMMA StreamLen ==
    ASSUME NEW c \in Clients
    PROVE  Len(Stream[c]) \in Nat /\ DOMAIN Stream[c] = 1..Len(Stream[c])
<1> DEFINE R == [kind : Kinds, last : BOOLEAN]
<1>1. Stream \in [Clients -> Seq(R)]
  BY UringAssumption
<1> HIDE DEF R
<1>2. Stream[c] \in Seq(R)
  BY <1>1
<1> QED BY <1>2, LenProperties

LEMMA LastsFinite ==
    ASSUME NEW c \in Clients
    PROVE  Lasts(c) \in SUBSET Nat /\ IsFiniteSet(Lasts(c)) /\ 0 \notin Lasts(c)
<1>1. Len(Stream[c]) \in Nat /\ DOMAIN Stream[c] = 1..Len(Stream[c])
  BY StreamLen
<1>2. IsFiniteSet(1..Len(Stream[c]))
  <2> DEFINE n == Len(Stream[c])
  <2>1. n \in Int
    BY <1>1
  <2> HIDE DEF n
  <2>2. IsFiniteSet(1..n)
    BY <2>1, FS_Interval
  <2> QED BY <2>2 DEF n
<1>3. Lasts(c) \in SUBSET (1..Len(Stream[c]))
  BY <1>1 DEF Lasts
<1>4. IsFiniteSet(Lasts(c))
  BY <1>2, <1>3, FS_Subset
<1> QED BY <1>1, <1>3, <1>4

LEMMA SendsFinite ==
    ASSUME NEW q \in Seq(Sqes), NEW f
    PROVE  Sends(q, f) \in SUBSET Nat /\ IsFiniteSet(Sends(q, f)) /\ 0 \notin Sends(q, f)
           /\ Cardinality(Sends(q, f)) \in Nat
<1>1. Len(q) \in Nat /\ DOMAIN q = 1..Len(q)
  BY LenProperties
<1>2. IsFiniteSet(1..Len(q))
  BY <1>1, FS_Interval
<1>3. Sends(q, f) \in SUBSET (1..Len(q))
  BY <1>1 DEF Sends
<1>4. IsFiniteSet(Sends(q, f))
  BY <1>2, <1>3, FS_Subset
<1> QED BY <1>1, <1>3, <1>4, FS_CardinalityType

\* The answers a submission writes to the client c.
SendsTo(es, c) == {i \in DOMAIN es : es[i].op = "send" /\ fdt[es[i].fd] = c}

LEMMA SubmitAnswers ==
    ASSUME TypeOK, NEW es \in Seq(Sqes), Submit(es),
           \A i \in DOMAIN es : es[i].op # "accept" => fdt[es[i].fd] # None,
           \A i \in DOMAIN es : es[i].op = "send" => fdt[es[i].fd] \notin fin,
           NEW c \in Clients
    PROVE  /\ SendsTo(es, c) \in SUBSET Nat /\ IsFiniteSet(SendsTo(es, c))
           /\ Cardinality(SendsTo(es, c)) \in Nat
           /\ out'[c] \in Seq(Units)
           /\ Len(out'[c]) = Len(out[c]) + Cardinality(SendsTo(es, c))
           /\ \A k \in 1..Len(out[c]) : out'[c][k] = out[c][k]
           /\ \A k \in 1..Cardinality(SendsTo(es, c)) :
                 \E i \in SendsTo(es, c) :
                    Rank(i, SendsTo(es, c)) = k /\ out'[c][Len(out[c]) + k] = es[i].ans
<1> DEFINE Over == {i \in DOMAIN es : Completes(es[i])}
           For(x) == {i \in Over : es[i].op = "send" /\ FileOf(es[i].fd) = x}
           a == [i \in DOMAIN es |-> es[i].ans]
           F == SendsTo(es, c)
<1>1. out' = [x \in Clients |-> IF x \in fin THEN out[x] ELSE out[x] \o Part(a, For(x))]
  BY Zenon DEF Submit
<1>2. /\ Len(es) \in Nat /\ DOMAIN es = 1..Len(es)
      /\ \A i \in DOMAIN es : es[i] \in Sqes
  BY LenProperties, ElementOfSeq
<1>3. IsFiniteSet(DOMAIN es) /\ DOMAIN es \subseteq Nat
  BY <1>2, FS_Interval
<1>4. \A i \in DOMAIN es : es[i].op = "send" => es[i].fd \in Fds /\ es[i].ans \in Units
  BY <1>2 DEF Sqes
<1>5. For(c) = F
  <2>1. \A i \in DOMAIN es : es[i].op = "send" => Completes(es[i]) /\ FileOf(es[i].fd) = fdt[es[i].fd]
    BY <1>4, FileOfType DEF Completes
  <2> QED BY <2>1 DEF SendsTo
<1>6. F \in SUBSET Nat /\ IsFiniteSet(F) /\ Cardinality(F) \in Nat
  <2>1. F \in SUBSET DOMAIN es
    BY DEF SendsTo
  <2> QED BY <1>3, <2>1, FS_Subset, FS_CardinalityType
<1>7. out[c] \in Seq(Units) /\ Len(out[c]) \in Nat /\ DOMAIN out[c] = 1..Len(out[c])
  <2>1. out[c] \in Seq(Units)
    BY DEF TypeOK
  <2> QED BY <2>1, LenProperties
<1>8. CASE c \in fin
  <2>1. F = {}
    BY <1>8 DEF SendsTo
  <2>2. Cardinality(F) = 0
    BY <2>1, FS_EmptySet
  <2>3. out'[c] = out[c]
    BY <1>1, <1>8
  <2> QED BY <1>6, <1>7, <2>2, <2>3
<1>9. CASE c \notin fin
  <2>1. out'[c] = out[c] \o Part(a, F)
    BY <1>1, <1>5, <1>9
  <2>2. \A i \in F : a[i] = es[i].ans /\ a[i] \in Units
    BY <1>4 DEF SendsTo
  <2> HIDE DEF F, a, For, Over
  <2>7. \A i \in F : a[i] \in Units
    BY <2>2
  <2>3. /\ Part(a, F) \in Seq(Units) /\ Len(Part(a, F)) = Cardinality(F)
        /\ \A k \in 1..Cardinality(F) : \E i \in F : Rank(i, F) = k /\ Part(a, F)[k] = a[i]
    BY <1>6, <2>7, PartProperties
  <2>4. /\ out'[c] \in Seq(Units)
        /\ Len(out'[c]) = Len(out[c]) + Cardinality(F)
        /\ \A i \in 1..(Len(out[c]) + Cardinality(F)) :
              out'[c][i] = IF i <= Len(out[c]) THEN out[c][i] ELSE Part(a, F)[i - Len(out[c])]
    <3> DEFINE x == out[c]
               y == Part(a, F)
    <3>1. x \in Seq(Units) /\ y \in Seq(Units) /\ Len(y) = Cardinality(F)
      BY <1>7, <2>3
    <3> HIDE DEF x, y
    <3>2. /\ x \o y \in Seq(Units) /\ Len(x \o y) = Len(x) + Len(y)
          /\ \A i \in 1..(Len(x) + Len(y)) : (x \o y)[i] = IF i <= Len(x) THEN x[i] ELSE y[i - Len(x)]
      BY <3>1, ConcatProperties
    <3>3. out'[c] = x \o y
      BY <2>1 DEF x, y
    <3> QED BY <3>1, <3>2, <3>3 DEF x, y
  <2>5. \A k \in 1..Len(out[c]) : out'[c][k] = out[c][k]
    BY <1>6, <1>7, <2>4
  <2>6. ASSUME NEW k \in 1..Cardinality(F)
        PROVE  \E i \in F : Rank(i, F) = k /\ out'[c][Len(out[c]) + k] = es[i].ans
    <3>1. PICK i \in F : Rank(i, F) = k /\ Part(a, F)[k] = a[i]
      BY <2>3
    <3>2. /\ Len(out[c]) + k \in 1..(Len(out[c]) + Cardinality(F))
          /\ ~ (Len(out[c]) + k <= Len(out[c])) /\ (Len(out[c]) + k) - Len(out[c]) = k
      BY <1>6, <1>7
    <3>3. out'[c][Len(out[c]) + k] = Part(a, F)[k]
      BY <2>4, <3>2
    <3> QED BY <2>2, <3>1, <3>3
  <2> QED BY <1>6, <2>4, <2>5, <2>6 DEF F
<1> QED BY <1>8, <1>9

\* How much of a client's stream a connection has taken in.
LEMMA ServedBounds ==
    ASSUME TypeOK, Sending, NEW q \in Seq(Sqes), NEW p, NEW m, NEW f, NEW c \in Clients, NEW b,
           b \in Seq(Units), NEW o \in Seq(Units), ServesOne(q, p, m, f, c, b, o, got[c])
    PROVE  /\ Len(o) + Cardinality(Sends(q, f)) <= Nth(c, sent[c])
           /\ Nth(c, sent[c]) \in Nat
<1>1. PICK n \in 0..got[c] : /\ Holds(b, c, n)
                             /\ Len(o) + Cardinality(Sends(q, f)) = Nth(c, n - Len(b))
  BY DEF ServesOne
<1>2. /\ got[c] \in Nat /\ sent[c] \in Nat /\ got[c] <= sent[c] /\ Len(b) \in Nat
      /\ Len(b) <= n
  BY <1>1, LenProperties DEF TypeOK, Sending, Holds
<1>3. n - Len(b) \in Nat /\ n - Len(b) <= sent[c]
  BY <1>2
<1>4. Nth(c, n - Len(b)) <= Nth(c, sent[c])
  BY <1>2, <1>3, LastsFinite, RankMono DEF Nth
<1>5. Nth(c, sent[c]) \in Nat
  BY <1>2, LastsFinite, RankNat DEF Nth
<1> QED BY <1>1, <1>4, <1>5

\* A client an answer is pushed for has not left.
LEMMA SendsWanted ==
    ASSUME TypeOK, Sending, NEW q, NEW p, NEW a, NEW cn, NEW ct, NEW m,
           Shaped(q, p, a, cn, ct, fdt),
           Wired(q, p, a, cn, ct, fdt, fin, DrainedLinks),
           Flows(q, p, cn, out, m, fdt, fin, got, sent, Waiting)
    PROVE  \A i \in DOMAIN q : q[i].op = "send" =>
               /\ q[i].fd \in Fds /\ fdt[q[i].fd] \in Clients /\ cn[q[i].fd].some
               /\ fdt[q[i].fd] \notin fin
<1> SUFFICES ASSUME NEW i \in DOMAIN q, q[i].op = "send"
             PROVE  /\ q[i].fd \in Fds /\ fdt[q[i].fd] \in Clients /\ cn[q[i].fd].some
                    /\ fdt[q[i].fd] \notin fin
  OBVIOUS
<1>0. q \in Seq(Sqes)
  BY DEF Shaped
<1>1. q[i] \in Sqes
  BY <1>0, ElementOfSeq, LenProperties
<1> DEFINE f == q[i].fd
           c == fdt[f]
<1>2. f \in Fds
  BY <1>1, SqeCases
<1>3. cn[f].some /\ c \in Clients
  BY <1>2 DEF Wired, Pushed, ForServed, Tables
<1>4. ServesOne(q, p, m, f, c, cn[f].buf, out[c], got[c])
  BY <1>2, <1>3 DEF Flows, Serves
<1>5. i \in Sends(q, f)
  BY DEF Sends
<1>6. cn[f].buf \in Seq(Units) /\ out[c] \in Seq(Units) /\ Len(out[c]) \in Nat
  <2>1. cn[f].buf \in Seq(Units) /\ out[c] \in Seq(Units)
    BY <1>2, <1>3 DEF Shaped, TypeOK
  <2> QED BY <2>1, LenProperties
<1> HIDE DEF f, c
<1>7. Len(out[c]) + Cardinality(Sends(q, f)) <= Nth(c, sent[c]) /\ Nth(c, sent[c]) \in Nat
  BY <1>0, <1>3, <1>4, <1>6, ServedBounds
<1>8. Cardinality(Sends(q, f)) \in Nat /\ Cardinality(Sends(q, f)) # 0
  BY <1>0, <1>5, SendsFinite, FS_EmptySet
<1>9. Len(out[c]) # Nth(c, sent[c])
  BY <1>6, <1>7, <1>8
<1>10. c \notin fin
  BY <1>3, <1>9 DEF Flows, Settled
<1> QED BY <1>2, <1>3, <1>10 DEF f, c

\* Completions of sends bring nothing.
LEMMA FeedSame ==
    ASSUME NEW p \in Seq(Completion), NEW s \in Seq(SentOk), NEW f
    PROVE  Feed(p \o s, f) = Feed(p, f) /\ \A i \in Feed(p, f) : (p \o s)[i] = p[i]
<1>1. /\ \A i \in DOMAIN p : i \in DOMAIN (p \o s) /\ (p \o s)[i] = p[i]
      /\ \A i \in DOMAIN (p \o s) : i \in DOMAIN p \/ (p \o s)[i] \in SentOk
  BY MoreSent
<1>2. \A i \in DOMAIN (p \o s) : (p \o s)[i].op = "recv" => i \in DOMAIN p
  BY <1>1, SentOkSilent
<1> QED BY <1>1, <1>2 DEF Feed

\* What is brought depends on the completions with data only.
LEMMA BringsSame ==
    ASSUME NEW p, NEW t, NEW m, NEW k, NEW f, NEW c, NEW n, NEW g, Brings(p, m, f, c, n, g),
           Feed(t, f) = Feed(p, f), \A i \in Feed(p, f) : m[p[i].val] = k[t[i].val]
    PROVE  Brings(t, k, f, c, n, g)
    BY DEF Brings

\* The answers that a submission leaves in the queue.
LEMMA SendsRest ==
    ASSUME NEW q \in Seq(Sqes), NEW n \in 0..Len(q), NEW f
    PROVE  /\ Sends(SubSeq(q, n + 1, Len(q)), f) = Above(n, Sends(q, f))
           /\ \A i \in Sends(SubSeq(q, n + 1, Len(q)), f) :
                 i \in Nat /\ i + n \in Sends(q, f) /\ SubSeq(q, n + 1, Len(q))[i] = q[i + n]
<1> DEFINE r == SubSeq(q, n + 1, Len(q))
<1>1. /\ DOMAIN r = 1..(Len(q) - n)
      /\ \A i \in 1..(Len(q) - n) : i + n \in DOMAIN q /\ r[i] = q[i + n]
  BY CutIndices
<1>2. Len(q) \in Nat /\ DOMAIN q = 1..Len(q) /\ n \in Nat
  BY LenProperties
<1> HIDE DEF r
<1>3. ASSUME NEW i \in Sends(r, f) PROVE i \in Nat \ {0} /\ i + n \in Sends(q, f) /\ r[i] = q[i + n]
  <2>1. i \in 1..(Len(q) - n) /\ r[i].op = "send" /\ r[i].fd = f
    BY <1>1 DEF Sends
  <2> QED BY <1>1, <1>2, <2>1 DEF Sends
<1>4. ASSUME NEW i \in Above(n, Sends(q, f)) PROVE i \in Sends(r, f)
  <2>1. i \in Nat \ {0} /\ i + n \in 1..Len(q) /\ q[i + n].op = "send" /\ q[i + n].fd = f
    BY <1>2 DEF Above, Sends
  <2>2. i \in 1..(Len(q) - n)
    BY <1>2, <2>1
  <2> QED BY <1>1, <2>1, <2>2 DEF Sends
<1>5. Sends(r, f) = Above(n, Sends(q, f))
  BY <1>3, <1>4 DEF Above
<1> QED BY <1>3, <1>5 DEF r

\* A connection keeps its account when answers move from the queue to its socket.
LEMMA ServesRest ==
    ASSUME NEW q \in Seq(Sqes), NEW n \in 0..Len(q), NEW p, NEW m, NEW t, NEW k,
           NEW f, NEW c \in Clients, NEW b, NEW o, NEW x, NEW g,
           ServesOne(q, p, m, f, c, b, o, g),
           Len(o) \in Nat, Len(x) = Len(o) + Rank(n, Sends(q, f)),
           \A u, v : Brings(p, m, f, c, u, v) => Brings(t, k, f, c, u, v)
    PROVE  ServesOne(SubSeq(q, n + 1, Len(q)), t, k, f, c, b, x, g)
<1> DEFINE I == Sends(q, f)
           r == SubSeq(q, n + 1, Len(q))
<1>1. /\ Sends(r, f) = Above(n, I)
      /\ \A i \in Sends(r, f) : i \in Nat /\ i + n \in I /\ r[i] = q[i + n]
  BY SendsRest
<1>2. I \in SUBSET Nat /\ IsFiniteSet(I) /\ n \in Nat
  BY SendsFinite, LenProperties
<1>3. Continue(q, f, c, o)
  BY DEF ServesOne
<1> HIDE DEF r
<1>4. \A i \in I : /\ q[i].ans[1] = c /\ q[i].ans[2] \in Lasts(c)
                   /\ Nth(c, q[i].ans[2]) = Len(o) + Rank(i, I)
  BY <1>3 DEF Continue
<1> HIDE DEF I
<1>5. /\ Cardinality(I) = Rank(n, I) + Cardinality(Above(n, I))
      /\ \A i \in Nat : Rank(n + i, I) = Rank(n, I) + Rank(i, Above(n, I))
      /\ Above(n, I) \in SUBSET Nat /\ IsFiniteSet(Above(n, I))
  BY <1>2, RankSplit
<1>6. Rank(n, I) \in Nat /\ Cardinality(Above(n, I)) \in Nat
  BY <1>2, <1>5, RankNat, FS_CardinalityType
<1>7. Len(x) = Len(o) + Rank(n, I)
  BY DEF I
<1>8. Continue(r, f, c, x)
  <2> SUFFICES ASSUME NEW i \in Sends(r, f)
               PROVE  /\ r[i].ans[1] = c /\ r[i].ans[2] \in Lasts(c)
                      /\ Nth(c, r[i].ans[2]) = Len(x) + Rank(i, Sends(r, f))
    BY DEF Continue
  <2>1. i \in Nat /\ i + n \in I /\ r[i] = q[i + n]
    BY <1>1
  <2>2. i + n = n + i
    BY <1>2, <2>1
  <2>3. Rank(n + i, I) = Rank(n, I) + Rank(i, Sends(r, f))
    BY <1>1, <1>5, <2>1
  <2>4. Rank(i, Sends(r, f)) \in Nat
    BY <1>1, <1>5, <2>1, RankNat
  <2>5. /\ q[i + n].ans[1] = c /\ q[i + n].ans[2] \in Lasts(c)
        /\ Nth(c, q[i + n].ans[2]) = Len(o) + Rank(i + n, I)
    BY <1>4, <2>1
  <2>6. Len(o) + Rank(i + n, I) = Len(x) + Rank(i, Sends(r, f))
    BY <1>6, <1>7, <2>2, <2>3, <2>4
  <2> QED BY <2>1, <2>5, <2>6
<1>9. PICK u \in 0..g : /\ Brings(p, m, f, c, u, g)
                        /\ Holds(b, c, u)
                        /\ Len(o) + Cardinality(I) = Nth(c, u - Len(b))
  BY DEF ServesOne, I
<1>10. Len(x) + Cardinality(Sends(r, f)) = Nth(c, u - Len(b))
  BY <1>1, <1>5, <1>6, <1>7, <1>9
<1>11. Brings(t, k, f, c, u, g)
  BY <1>9
<1>12. ServesOne(r, t, k, f, c, b, x, g)
  BY <1>8, <1>9, <1>10, <1>11 DEF ServesOne
<1> QED BY <1>12 DEF r

\* The answers submitted to a client are those at the beginning of its
\* descriptor's.
LEMMA SendsToServed ==
    ASSUME FilesOnce, NEW q \in Seq(Sqes), NEW n \in 0..Len(q), NEW f \in Fds, fdt[f] # None,
           \A i \in DOMAIN q : q[i].op = "send" => q[i].fd \in Fds
    PROVE  /\ SendsTo(SubSeq(q, 1, n), fdt[f]) = {i \in Sends(q, f) : i <= n}
           /\ \A i \in SendsTo(SubSeq(q, 1, n), fdt[f]) :
                 SubSeq(q, 1, n)[i] = q[i] /\ i \in Nat /\ i <= n
<1> DEFINE es == SubSeq(q, 1, n)
<1>1. DOMAIN es = 1..n /\ \A i \in 1..n : i \in DOMAIN q /\ es[i] = q[i]
  BY CutIndices
<1>2. Len(q) \in Nat /\ DOMAIN q = 1..Len(q) /\ n \in Nat
  BY LenProperties
<1> HIDE DEF es
<1>3. ASSUME NEW i \in SendsTo(es, fdt[f]) PROVE i \in Sends(q, f) /\ i <= n /\ es[i] = q[i] /\ i \in Nat
  <2>1. i \in 1..n /\ es[i] = q[i] /\ i \in DOMAIN q /\ q[i].op = "send" /\ fdt[q[i].fd] = fdt[f]
    BY <1>1 DEF SendsTo
  <2>2. q[i].fd = f
    BY <2>1 DEF FilesOnce
  <2> QED BY <1>2, <2>1, <2>2 DEF Sends
<1>4. ASSUME NEW i \in Sends(q, f), i <= n PROVE i \in SendsTo(es, fdt[f])
  <2>1. i \in 1..n /\ q[i].op = "send" /\ q[i].fd = f
    BY <1>2, <1>4 DEF Sends
  <2> QED BY <1>1, <2>1 DEF SendsTo
<1>5. SendsTo(es, fdt[f]) = {i \in Sends(q, f) : i <= n}
  BY <1>3, <1>4
<1> QED BY <1>3, <1>5 DEF es

\* Who has a descriptor is not waiting for one.
LEMMA ServedArrived ==
    ASSUME OnePlace, NEW f \in Fds, fdt[f] \in Clients
    PROVE  fdt[f] \notin Waiting /\ \A g \in Fds : fdt[g] = fdt[f] => g = f
<1>1. fdt[f] \in handed
  BY DEF OnePlace, Placed
<1>2. \A l \in Links : \A i \in DOMAIN ctrlq[l] : ctrlq[l][i] # fdt[f]
  BY DEF OnePlace, QueuedApart
<1>3. fdt[f] # None
  BY UringAssumption DEF Files
<1>4. \A g \in Fds : fdt[g] = fdt[f] => g = f
  BY <1>3 DEF OnePlace, FilesOnce
<1> QED BY <1>1, <1>2, <1>4 DEF Waiting

\* What a submission writes to a client continues its answers.
LEMMA SubmitOrder ==
    ASSUME TypeOK, Sending, OnePlace, NEW q \in Seq(Sqes), NEW n \in 0..Len(q),
           NEW p, NEW m, NEW f \in Fds, fdt[f] \in Clients, NEW b \in Seq(Units),
           ServesOne(q, p, m, f, fdt[f], b, out[fdt[f]], got[fdt[f]]),
           \A i \in DOMAIN q : q[i].op = "send" => q[i].fd \in Fds,
           \A i \in DOMAIN q : i <= n /\ q[i].op # "accept" => fdt[q[i].fd] # None,
           \A i \in DOMAIN q : q[i].op = "send" => fdt[q[i].fd] \notin fin,
           InOrder(out), Settled(out, fin, sent),
           Submit(SubSeq(q, 1, n))
    PROVE  /\ Len(out'[fdt[f]]) = Len(out[fdt[f]]) + Rank(n, Sends(q, f))
           /\ Len(out[fdt[f]]) \in Nat
           /\ \A k \in DOMAIN out'[fdt[f]] :
                 /\ out'[fdt[f]][k][1] = fdt[f] /\ out'[fdt[f]][k][2] \in Lasts(fdt[f])
                 /\ Nth(fdt[f], out'[fdt[f]][k][2]) = k
           /\ Len(out'[fdt[f]]) <= Nth(fdt[f], sent[fdt[f]])
           /\ fdt[f] \in fin => Len(out'[fdt[f]]) = Nth(fdt[f], sent[fdt[f]])
<1> DEFINE es == SubSeq(q, 1, n)
           c == fdt[f]
           S == Sends(q, f)
<1>0. n \in Nat /\ c # None /\ Len(q) \in Nat /\ DOMAIN q = 1..Len(q)
  BY UringAssumption, LenProperties DEF Files
<1>1. /\ es \in Seq(Sqes) /\ DOMAIN es = 1..n
      /\ \A i \in DOMAIN es : i \in DOMAIN q /\ es[i] = q[i]
  BY CutIndices
<1>2. S \in SUBSET Nat /\ IsFiniteSet(S) /\ Cardinality(S) \in Nat
  BY SendsFinite
<1>3. /\ SendsTo(es, c) = {i \in S : i <= n}
      /\ \A i \in SendsTo(es, c) : es[i] = q[i] /\ i \in Nat /\ i <= n
  BY <1>0, SendsToServed DEF OnePlace
<1> HIDE DEF es, S
<1>4. /\ Cardinality(SendsTo(es, c)) \in Nat
      /\ out'[c] \in Seq(Units)
      /\ Len(out'[c]) = Len(out[c]) + Cardinality(SendsTo(es, c))
      /\ \A k \in 1..Len(out[c]) : out'[c][k] = out[c][k]
      /\ \A k \in 1..Cardinality(SendsTo(es, c)) :
            \E i \in SendsTo(es, c) :
               Rank(i, SendsTo(es, c)) = k /\ out'[c][Len(out[c]) + k] = es[i].ans
  <2>1. \A i \in DOMAIN es : es[i].op # "accept" => fdt[es[i].fd] # None
    BY <1>0, <1>1
  <2>2. \A i \in DOMAIN es : es[i].op = "send" => fdt[es[i].fd] \notin fin
    BY <1>1
  <2>3. Submit(es)
    BY DEF es
  <2> QED BY <1>1, <2>1, <2>2, <2>3, SubmitAnswers
<1>5. Rank(n, S) = Cardinality(SendsTo(es, c))
  BY <1>3 DEF Rank
<1>6. out[c] \in Seq(Units) /\ Len(out[c]) \in Nat /\ DOMAIN out[c] = 1..Len(out[c])
      /\ DOMAIN out'[c] = 1..Len(out'[c])
  <2>1. out[c] \in Seq(Units)
    BY DEF TypeOK
  <2> QED BY <1>4, <2>1, LenProperties
<1>7. \A i \in S : /\ q[i].ans[1] = c /\ q[i].ans[2] \in Lasts(c)
                   /\ Nth(c, q[i].ans[2]) = Len(out[c]) + Rank(i, S)
  BY DEF ServesOne, Continue, S
<1>8. \A i \in Nat : i <= n => Rank(i, {j \in S : j <= n}) = Rank(i, S)
  BY <1>0, <1>2, RankBelow
<1>9. ServesOne(q, p, m, f, c, b, out[c], got[c])
  OBVIOUS
<1> HIDE DEF c
<1>10. Len(out[c]) + Cardinality(S) <= Nth(c, sent[c]) /\ Nth(c, sent[c]) \in Nat
  <2>1. c \in Clients
    BY DEF c
  <2> QED BY <1>6, <1>9, <2>1, ServedBounds DEF S
<1>11. Rank(n, S) <= Cardinality(S) /\ Rank(n, S) \in Nat
  BY <1>0, <1>2, RankNat
<1>12. ASSUME NEW k \in DOMAIN out'[c]
       PROVE  out'[c][k][1] = c /\ out'[c][k][2] \in Lasts(c) /\ Nth(c, out'[c][k][2]) = k
  <2>1. CASE k \in 1..Len(out[c])
    <3>1. out'[c][k] = out[c][k] /\ k \in DOMAIN out[c] /\ c \in Clients
      BY <1>4, <1>6, <2>1 DEF c
    <3> QED BY <3>1 DEF InOrder
  <2>2. CASE k \notin 1..Len(out[c])
    <3>1. k - Len(out[c]) \in 1..Cardinality(SendsTo(es, c)) /\ k = Len(out[c]) + (k - Len(out[c]))
      <4> DEFINE x == Len(out[c])
                 y == Len(out'[c])
                 z == Cardinality(SendsTo(es, c))
      <4>1. x \in Nat /\ z \in Nat /\ y = x + z /\ k \in 1..y /\ k \notin 1..x
        BY <1>4, <1>6, <2>2
      <4> HIDE DEF x, y, z
      <4>2. k - x \in 1..z /\ k = x + (k - x)
        BY <4>1
      <4> QED BY <4>2 DEF x, z
    <3>2. PICK i \in SendsTo(es, c) :
             Rank(i, SendsTo(es, c)) = k - Len(out[c]) /\ out'[c][k] = es[i].ans
      BY <1>4, <3>1
    <3>3. i \in S /\ i \in Nat /\ i <= n /\ es[i] = q[i]
      BY <1>3
    <3>4. Rank(i, S) = k - Len(out[c])
      BY <1>3, <1>8, <3>2, <3>3
    <3>5. Nth(c, q[i].ans[2]) = k
      BY <1>7, <3>1, <3>3, <3>4
    <3> QED BY <1>7, <3>2, <3>3, <3>5
  <2> QED BY <2>1, <2>2
<1>a. /\ Len(out[c]) \in Nat /\ Len(out[c]) + Cardinality(S) <= Nth(c, sent[c])
      /\ Len(out'[c]) = Len(out[c]) + Rank(n, S)
  BY <1>4, <1>5, <1>6, <1>10
<1> DEFINE x == Len(out[c])
           y == Len(out'[c])
           z == Cardinality(S)
           w == Nth(c, sent[c])
           v == Rank(n, S)
<1>b. x \in Nat /\ z \in Nat /\ w \in Nat /\ v \in Nat /\ v <= z /\ x + z <= w /\ y = x + v
  BY <1>2, <1>10, <1>11, <1>a
<1> HIDE DEF x, y, z, w, v
<1>c. y <= w /\ (x = w => y = w)
  BY <1>b
<1>13. Len(out'[c]) <= Nth(c, sent[c])
  BY <1>c DEF y, w
<1>14. c \in fin => Len(out'[c]) = Nth(c, sent[c])
  <2>1. c \in fin => Len(out[c]) = Nth(c, sent[c])
    BY DEF Settled, c
  <2> QED BY <1>c, <2>1 DEF x, y, w
<1> QED BY <1>4, <1>5, <1>6, <1>12, <1>13, <1>14 DEF c, S

\* A client that is not served gets nothing.
LEMMA SubmitElse ==
    ASSUME TypeOK, NEW q \in Seq(Sqes), NEW n \in 0..Len(q), NEW c \in Clients,
           \A i \in DOMAIN q : q[i].op = "send" => fdt[q[i].fd] # c,
           \A i \in DOMAIN q : i <= n /\ q[i].op # "accept" => fdt[q[i].fd] # None,
           \A i \in DOMAIN q : q[i].op = "send" => fdt[q[i].fd] \notin fin,
           Submit(SubSeq(q, 1, n))
    PROVE  /\ Len(out'[c]) = Len(out[c]) /\ DOMAIN out'[c] = DOMAIN out[c]
           /\ out'[c] \in Seq(Units) /\ out[c] \in Seq(Units)
           /\ \A k \in DOMAIN out[c] : out'[c][k] = out[c][k]
<1> DEFINE es == SubSeq(q, 1, n)
<1>0. n \in Nat /\ Len(q) \in Nat /\ DOMAIN q = 1..Len(q)
  BY LenProperties
<1>1. /\ es \in Seq(Sqes) /\ DOMAIN es = 1..n
      /\ \A i \in DOMAIN es : i \in DOMAIN q /\ es[i] = q[i]
  BY CutIndices
<1> HIDE DEF es
<1>2. SendsTo(es, c) = {}
  BY <1>1 DEF SendsTo
<1>3. Cardinality(SendsTo(es, c)) = 0
  BY <1>2, FS_EmptySet
<1>4. /\ out'[c] \in Seq(Units)
      /\ Len(out'[c]) = Len(out[c]) + Cardinality(SendsTo(es, c))
      /\ \A k \in 1..Len(out[c]) : out'[c][k] = out[c][k]
  <2>1. \A i \in DOMAIN es : es[i].op # "accept" => fdt[es[i].fd] # None
    BY <1>0, <1>1
  <2>2. \A i \in DOMAIN es : es[i].op = "send" => fdt[es[i].fd] \notin fin
    BY <1>1
  <2>3. Submit(es)
    BY DEF es
  <2> QED BY <1>1, <2>1, <2>2, <2>3, SubmitAnswers
<1>5. out[c] \in Seq(Units) /\ Len(out[c]) \in Nat /\ DOMAIN out[c] = 1..Len(out[c])
      /\ DOMAIN out'[c] = 1..Len(out'[c])
  <2>1. out[c] \in Seq(Units)
    BY DEF TypeOK
  <2> QED BY <1>4, <2>1, LenProperties
<1> QED BY <1>3, <1>4, <1>5

LEMMA SubmitFlows ==
    ASSUME TypeOK, Sending, OnePlace, NEW q, NEW n \in 0..Len(q), NEW d, NEW cn, NEW ct, NEW m,
           d \in Seq(Completion), Shaped(q, d \o cq, armed, cn, ct, fdt),
           Wired(q, d \o cq, armed, cn, ct, fdt, fin, DrainedLinks),
           Flows(q, d \o cq, cn, out, m, fdt, fin, got, sent, Waiting),
           Submit(SubSeq(q, 1, n)),
           NEW s \in Seq(SentOk), NEW t, t = (d \o cq) \o s
    PROVE  Flows(SubSeq(q, n + 1, Len(q)), t, cn, out', m, fdt, fin, got, sent, Waiting)
<1> DEFINE p == d \o cq
           rest == SubSeq(q, n + 1, Len(q))
<1>0. /\ q \in Seq(Sqes) /\ p \in Seq(Completion) /\ Len(q) \in Nat /\ DOMAIN q = 1..Len(q)
      /\ cn \in [Fds -> [some : BOOLEAN, buf : Seq(Units)]]
      /\ n \in Nat
  BY LenProperties DEF Shaped
<1>1. /\ Shaped(q, p, armed, cn, ct, fdt)
      /\ Wired(q, p, armed, cn, ct, fdt, fin, DrainedLinks)
      /\ Flows(q, p, cn, out, m, fdt, fin, got, sent, Waiting)
      /\ t = p \o s /\ Submit(SubSeq(q, 1, n))
  OBVIOUS
<1> HIDE DEF p, rest
<1>2. \A i \in DOMAIN q : q[i].op = "send" =>
               /\ q[i].fd \in Fds /\ fdt[q[i].fd] \in Clients /\ cn[q[i].fd].some
               /\ fdt[q[i].fd] \notin fin
  BY <1>1, SendsWanted
<1>3. \A i \in DOMAIN q : q[i].op # "accept" => fdt[q[i].fd] # None
  <2>1. \A i \in DOMAIN q : q[i] \in Sqes
    BY <1>0, ElementOfSeq
  <2> QED BY SMTT(30), <1>1, <2>1, SqeCases, ServedFile DEF Wired, Pushed
<1>4. /\ Serves(q, p, cn, out, m, fdt, got) /\ InOrder(out) /\ Settled(out, fin, sent)
      /\ Fresh(cn, out, fdt, got, Waiting) /\ Tables(cn, ct, fdt)
  BY <1>1 DEF Flows, Wired
<1>5. ASSUME NEW f \in Fds, cn[f].some
      PROVE  /\ fdt[f] \in Clients /\ cn[f].buf \in Seq(Units)
             /\ ServesOne(q, p, m, f, fdt[f], cn[f].buf, out[fdt[f]], got[fdt[f]])
             /\ Len(out'[fdt[f]]) = Len(out[fdt[f]]) + Rank(n, Sends(q, f))
             /\ Len(out[fdt[f]]) \in Nat
             /\ \A k \in DOMAIN out'[fdt[f]] :
                   /\ out'[fdt[f]][k][1] = fdt[f] /\ out'[fdt[f]][k][2] \in Lasts(fdt[f])
                   /\ Nth(fdt[f], out'[fdt[f]][k][2]) = k
             /\ Len(out'[fdt[f]]) <= Nth(fdt[f], sent[fdt[f]])
             /\ fdt[f] \in fin => Len(out'[fdt[f]]) = Nth(fdt[f], sent[fdt[f]])
  <2>1. fdt[f] \in Clients
    BY <1>4, <1>5 DEF Tables
  <2>2. cn[f].buf \in Seq(Units)
    BY <1>0
  <2>3. ServesOne(q, p, m, f, fdt[f], cn[f].buf, out[fdt[f]], got[fdt[f]])
    BY <1>4, <1>5 DEF Serves
  <2>4. /\ \A i \in DOMAIN q : q[i].op = "send" => q[i].fd \in Fds
        /\ \A i \in DOMAIN q : i <= n /\ q[i].op # "accept" => fdt[q[i].fd] # None
        /\ \A i \in DOMAIN q : q[i].op = "send" => fdt[q[i].fd] \notin fin
    BY <1>2, <1>3
  <2> DEFINE b == cn[f].buf
  <2>5. /\ ServesOne(q, p, m, f, fdt[f], b, out[fdt[f]], got[fdt[f]])
        /\ b \in Seq(Units)
    BY <2>2, <2>3
  <2>6. /\ InOrder(out) /\ Settled(out, fin, sent) /\ Submit(SubSeq(q, 1, n))
        /\ q \in Seq(Sqes) /\ n \in 0..Len(q)
    BY <1>0, <1>1, <1>4
  <2> HIDE DEF b
  <2>7. /\ Len(out'[fdt[f]]) = Len(out[fdt[f]]) + Rank(n, Sends(q, f))
        /\ Len(out[fdt[f]]) \in Nat
        /\ \A k \in DOMAIN out'[fdt[f]] :
              /\ out'[fdt[f]][k][1] = fdt[f] /\ out'[fdt[f]][k][2] \in Lasts(fdt[f])
              /\ Nth(fdt[f], out'[fdt[f]][k][2]) = k
        /\ Len(out'[fdt[f]]) <= Nth(fdt[f], sent[fdt[f]])
        /\ fdt[f] \in fin => Len(out'[fdt[f]]) = Nth(fdt[f], sent[fdt[f]])
    BY <2>1, <2>4, <2>5, <2>6, SubmitOrder
  <2> QED BY <2>1, <2>2, <2>3, <2>7
<1>6. ASSUME NEW c \in Clients, \A f \in Fds : cn[f].some => fdt[f] # c
      PROVE  /\ Len(out'[c]) = Len(out[c]) /\ DOMAIN out'[c] = DOMAIN out[c]
             /\ out'[c] \in Seq(Units) /\ out[c] \in Seq(Units)
             /\ \A k \in DOMAIN out[c] : out'[c][k] = out[c][k]
  <2>1. /\ \A i \in DOMAIN q : q[i].op = "send" => fdt[q[i].fd] # c
        /\ \A i \in DOMAIN q : i <= n /\ q[i].op # "accept" => fdt[q[i].fd] # None
        /\ \A i \in DOMAIN q : q[i].op = "send" => fdt[q[i].fd] \notin fin
    BY <1>2, <1>3, <1>6
  <2> QED BY <1>0, <1>1, <2>1, SubmitElse
<1>7. \A f : Feed(t, f) = Feed(p, f) /\ \A i \in Feed(p, f) : t[i] = p[i]
  BY ZenonT(30), <1>0, <1>1, FeedSame
<1>8. Serves(rest, t, cn, out', m, fdt, got)
  <2> SUFFICES ASSUME NEW f \in Fds, cn[f].some
               PROVE  ServesOne(rest, t, m, f, fdt[f], cn[f].buf, out'[fdt[f]], got[fdt[f]])
    BY DEF Serves
  <2>1. \A u, v : Brings(p, m, f, fdt[f], u, v) => Brings(t, m, f, fdt[f], u, v)
    <3> SUFFICES ASSUME NEW u, NEW v, Brings(p, m, f, fdt[f], u, v)
                 PROVE  Brings(t, m, f, fdt[f], u, v)
      OBVIOUS
    <3>1. Feed(t, f) = Feed(p, f) /\ \A i \in Feed(p, f) : m[p[i].val] = m[t[i].val]
      BY <1>7
    <3> DEFINE c == fdt[f]
    <3>2. Brings(p, m, f, c, u, v)
      OBVIOUS
    <3> HIDE DEF c
    <3>3. Brings(t, m, f, c, u, v)
      BY <3>1, <3>2 DEF Brings
    <3> QED BY <3>3 DEF c
  <2>2. /\ fdt[f] \in Clients
        /\ ServesOne(q, p, m, f, fdt[f], cn[f].buf, out[fdt[f]], got[fdt[f]])
        /\ Len(out'[fdt[f]]) = Len(out[fdt[f]]) + Rank(n, Sends(q, f))
        /\ Len(out[fdt[f]]) \in Nat
    BY <1>5
  <2>3. q \in Seq(Sqes) /\ n \in 0..Len(q)
    BY <1>0
  <2> QED BY <2>1, <2>2, <2>3, ServesRest DEF rest
<1>9. InOrder(out')
  <2> SUFFICES ASSUME NEW c \in Clients, NEW k \in DOMAIN out'[c]
               PROVE  out'[c][k][1] = c /\ out'[c][k][2] \in Lasts(c) /\ Nth(c, out'[c][k][2]) = k
    BY DEF InOrder
  <2>1. CASE \E f \in Fds : cn[f].some /\ fdt[f] = c
    <3>1. PICK f \in Fds : cn[f].some /\ fdt[f] = c
      BY <2>1
    <3>2. \A j \in DOMAIN out'[fdt[f]] :
             /\ out'[fdt[f]][j][1] = fdt[f] /\ out'[fdt[f]][j][2] \in Lasts(fdt[f])
             /\ Nth(fdt[f], out'[fdt[f]][j][2]) = j
      BY <1>5, <3>1
    <3> QED BY <3>1, <3>2
  <2>2. CASE \A f \in Fds : cn[f].some => fdt[f] # c
    BY <1>4, <1>6, <2>2 DEF InOrder
  <2> QED BY <2>1, <2>2
<1>10. Settled(out', fin, sent)
  <2> SUFFICES ASSUME NEW c \in Clients
               PROVE  /\ Len(out'[c]) <= Nth(c, sent[c])
                      /\ c \in fin => Len(out'[c]) = Nth(c, sent[c])
    BY DEF Settled
  <2>1. CASE \E f \in Fds : cn[f].some /\ fdt[f] = c
    BY <1>5, <2>1
  <2>2. CASE \A f \in Fds : cn[f].some => fdt[f] # c
    BY <1>4, <1>6, <2>2 DEF Settled
  <2> QED BY <2>1, <2>2
<1>11. Fresh(cn, out', fdt, got, Waiting)
  <2> SUFFICES ASSUME NEW c \in Clients, got[c] # 0 \/ out'[c] # <<>>
               PROVE  c \notin Waiting /\ \A f \in Fds : fdt[f] = c => cn[f].some
    BY DEF Fresh
  <2>1. CASE \E f \in Fds : cn[f].some /\ fdt[f] = c
    <3>1. PICK f \in Fds : cn[f].some /\ fdt[f] = c
      BY <2>1
    <3>2. c \notin Waiting /\ \A g \in Fds : fdt[g] = c => g = f
      BY <3>1, ServedArrived
    <3> QED BY <3>1, <3>2
  <2>2. CASE \A f \in Fds : cn[f].some => fdt[f] # c
    <3>1. out'[c] # <<>> => out[c] # <<>>
      BY <1>6, <2>2, EmptySeq
    <3> QED BY <1>4, <3>1 DEF Fresh
  <2> QED BY <2>1, <2>2
<1>12. Flows(rest, t, cn, out', m, fdt, fin, got, sent, Waiting)
  BY <1>8, <1>9, <1>10, <1>11 DEF Flows
<1> QED BY <1>12 DEF rest

\* A push, whether it submits or not, leaves the wiring as it is with what it
\* pushed at the end of the queue.
LEMMA PushWiring ==
    ASSUME TypeOK, Sending, OnePlace, NEW es \in Seq(Sqes), NEW d, NEW cn, NEW ct, NEW m,
           d \in Seq(Completion), Shaped(sq \o es, d \o cq, armed, cn, ct, fdt),
           Wired(sq \o es, d \o cq, armed, cn, ct, fdt, fin, DrainedLinks),
           Flows(sq \o es, d \o cq, cn, out, m, fdt, fin, got, sent, Waiting),
           Push(es)
    PROVE  /\ Wired(sq', d \o cq', armed', cn, ct, fdt, fin, DrainedLinks)
           /\ Flows(sq', d \o cq', cn, out', m, fdt, fin, got, sent, Waiting)
<1> DEFINE q == sq \o es
<1>1. PICK n \in 0..Len(q) :
         /\ sq' = SubSeq(q, n + 1, Len(q))
         /\ IF n = 0 THEN UNCHANGED ring ELSE Submit(SubSeq(q, 1, n))
  <2>1. sq \in Seq(Sqes)
    BY DEF TypeOK
  <2> QED BY <2>1, PushCuts
<1>2. /\ Shaped(q, d \o cq, armed, cn, ct, fdt)
      /\ Wired(q, d \o cq, armed, cn, ct, fdt, fin, DrainedLinks)
      /\ Flows(q, d \o cq, cn, out, m, fdt, fin, got, sent, Waiting)
  OBVIOUS
<1> HIDE DEF q
<1>3. q \in Seq(Sqes) /\ Len(q) \in Nat
  BY <1>2, LenProperties DEF Shaped
<1>4. CASE n = 0
  <2>1. sq' = q
    BY <1>1, <1>3, <1>4
  <2>2. armed' = armed /\ cq' = cq /\ out' = out
    BY <1>1, <1>4 DEF ring
  <2> QED BY <1>2, <2>1, <2>2
<1>5. CASE n # 0
  <2>1. Submit(SubSeq(q, 1, n))
    BY <1>1, <1>5
  <2>2. \A i \in DOMAIN q : q[i].op = "send" => fdt[q[i].fd] \notin fin
    BY <1>2, SendsWanted
  <2>3. /\ Wired(SubSeq(q, n + 1, Len(q)), d \o cq', armed', cn, ct, fdt, fin, DrainedLinks)
        /\ \E s \in Seq(SentOk) : cq' = cq \o s /\ d \o cq' = (d \o cq) \o s
    BY <1>2, <2>1, <2>2, SubmitWired
  <2>4. PICK s \in Seq(SentOk) : d \o cq' = (d \o cq) \o s
    BY <2>3
  <2>5. Flows(SubSeq(q, n + 1, Len(q)), d \o cq', cn, out', m, fdt, fin, got, sent, Waiting)
    BY <1>2, <2>1, <2>4, SubmitFlows
  <2> QED BY <1>1, <2>3, <2>5
<1> QED BY <1>4, <1>5

\* Who is not served has nothing pushed, in flight or over.
LEMMA NotServed ==
    ASSUME NEW q, NEW p, NEW a, NEW cn, NEW ct, NEW ft, NEW fn, NEW dr,
           Shaped(q, p, a, cn, ct, ft), Wired(q, p, a, cn, ct, ft, fn, dr),
           NEW f \in Fds, NEW op \in {"ctrl", "recv"}, ~ ForServed(op, f, cn, ct)
    PROVE  /\ Count(q, SqOf(op, f)) = 0 /\ Count(p, CqOf(op, f)) = 0
           /\ \A x : Copies(Request(op, f, x), a) = 0
<1>0. /\ q \in Seq(Sqes) /\ p \in Seq(Completion)
      /\ Pushed(q, cn, ct) /\ Completed(p, cn, ct, ft, fn, dr) /\ Flying(a, cn, ct, ft)
  BY DEF Shaped, Wired
<1>1. \A i \in DOMAIN q : q[i] \notin SqOf(op, f)
  BY <1>0 DEF Pushed, SqOf
<1>2. \A i \in DOMAIN p : p[i] \notin CqOf(op, f)
  BY <1>0 DEF Completed, CqOf
<1>3. \A x : Request(op, f, x) \notin DOMAIN a
  <2>1. \A x : Request(op, f, x).op = op /\ Request(op, f, x).fd = f
    BY DEF Request
  <2> QED BY <1>0, <2>1 DEF Flying
<1>4. \A x : Copies(Request(op, f, x), a) = 0
  BY <1>3 DEF Copies
<1> QED BY <1>0, <1>1, <1>2, <1>4, CountNone

\* What a served one has pushed, in flight and over is counted.
LEMMA ServedCounts ==
    ASSUME NEW q, NEW p, NEW a, NEW cn, NEW ct, NEW ft, NEW fn, NEW dr,
           Shaped(q, p, a, cn, ct, ft), Wired(q, p, a, cn, ct, ft, fn, dr),
           NEW f \in Fds, NEW op \in {"ctrl", "recv"}
    PROVE  /\ Count(q, SqOf(op, f)) \in Nat /\ Count(p, CqOf(op, f)) \in Nat
           /\ Copies(Request(op, f, ft[f]), a) \in Nat
           /\ ForServed(op, f, cn, ct) =>
                 Count(q, SqOf(op, f)) + Count(p, CqOf(op, f)) + Copies(Request(op, f, ft[f]), a) = 1
<1>0. /\ q \in Seq(Sqes) /\ p \in Seq(Completion)
      /\ OneEach(q, p, a, cn, ct, ft) /\ Flying(a, cn, ct, ft)
  BY DEF Shaped, Wired
<1>1. Count(q, SqOf(op, f)) \in Nat /\ Count(p, CqOf(op, f)) \in Nat
  BY <1>0, CountNat
<1>2. Copies(Request(op, f, ft[f]), a) \in Nat
  BY <1>0 DEF Flying, Copies
<1>3. ForServed(op, f, cn, ct) => Requested(op, f, q, p, a, ft) = 1
  BY <1>0 DEF OneEach, ForServed
<1> QED BY <1>1, <1>2, <1>3 DEF Requested

\* The completion at the head was handled, es pushed, and the tables became
\* cn2 and ct2: only the descriptor it announced is served besides.
LEMMA HandledWired ==
    ASSUME NEW q, NEW p, NEW a, NEW cn, NEW ct, NEW ft, NEW fn, NEW dr,
           NEW cn2, NEW ct2, NEW es \in Seq(Sqes),
           Shaped(q, p, a, cn, ct, ft), Wired(q, p, a, cn, ct, ft, fn, dr), p # <<>>,
           Tables(cn2, ct2, ft),
           \A f \in Fds : (cn[f].some => cn2[f].some) /\ (f \in ct => f \in ct2),
           \A f \in Fds : (cn2[f].some /\ ~ cn[f].some) \/ (f \in ct2 /\ f \notin ct) =>
               Announces(Head(p)) /\ Head(p).val = f,
           Announces(Head(p)) =>
               IF Head(p).op = "accept" THEN Head(p).val \in ct2 ELSE cn2[Head(p).val].some,
           \A i \in DOMAIN es : ForServed(es[i].op, es[i].fd, cn2, ct2),
           \A f \in Fds, op \in {"ctrl", "recv"} : ForServed(op, f, cn, ct) =>
               Count(es, SqOf(op, f)) = IF Head(p) \in CqOf(op, f) THEN 1 ELSE 0,
           \A f \in Fds, op \in {"ctrl", "recv"} :
               ForServed(op, f, cn2, ct2) /\ ~ ForServed(op, f, cn, ct) => Count(es, SqOf(op, f)) = 1
    PROVE  Wired(q \o es, Tail(p), a, cn2, ct2, ft, fn, dr)
<1> DEFINE e == Head(p)
           t == Tail(p)
           q2 == q \o es
<1>0. /\ q \in Seq(Sqes) /\ p \in Seq(Completion)
      /\ Announcements(p, cn, ct, ft) /\ Known(p, cn, ct, ft)
      /\ Pushed(q, cn, ct) /\ Flying(a, cn, ct, ft) /\ Completed(p, cn, ct, ft, fn, dr)
      /\ OneEach(q, p, a, cn, ct, ft) /\ LastEnds(p)
  BY DEF Shaped, Wired
<1>1. /\ e = p[1] /\ 1 \in DOMAIN p /\ e \in Completion
      /\ t \in Seq(Completion)
      /\ \A i \in DOMAIN t : i \in Nat /\ i # 0 /\ i + 1 \in DOMAIN p /\ t[i] = p[i + 1]
      /\ \A i \in DOMAIN p : i \in Nat /\ (i # 1 => i - 1 \in DOMAIN t /\ t[i - 1] = p[i])
  BY <1>0, HeadOff
<1>2. /\ DOMAIN q2 \subseteq Nat
      /\ \A i \in DOMAIN q2 : \/ i \in DOMAIN q /\ q2[i] = q[i]
                              \/ i - Len(q) \in DOMAIN es /\ q2[i] = es[i - Len(q)]
  BY <1>0, JoinOn
<1>3. \A V : /\ Count(q2, V) = Count(q, V) + Count(es, V)
             /\ Count(p, V) = Count(t, V) + (IF e \in V THEN 1 ELSE 0)
             /\ Count(q, V) \in Nat /\ Count(es, V) \in Nat /\ Count(t, V) \in Nat
  <2> SUFFICES ASSUME NEW V
               PROVE  /\ Count(q2, V) = Count(q, V) + Count(es, V)
                      /\ Count(p, V) = Count(t, V) + (IF e \in V THEN 1 ELSE 0)
                      /\ Count(q, V) \in Nat /\ Count(es, V) \in Nat /\ Count(t, V) \in Nat
    OBVIOUS
  <2>1. Count(q2, V) = Count(q, V) + Count(es, V)
    BY <1>0, CountConcat
  <2>2. Count(p, V) = Count(t, V) + (IF e \in V THEN 1 ELSE 0)
    BY <1>0, CountTail
  <2>3. t \in Seq(Completion)
    BY <1>1
  <2> HIDE DEF t, e, q2
  <2>4. Count(q, V) \in Nat /\ Count(es, V) \in Nat /\ Count(t, V) \in Nat
    BY <1>0, <2>3, CountNat
  <2> QED BY <2>1, <2>2, <2>4
<1>h. /\ \A f \in Fds : (cn[f].some => cn2[f].some) /\ (f \in ct => f \in ct2)
      /\ \A f \in Fds : (cn2[f].some /\ ~ cn[f].some) \/ (f \in ct2 /\ f \notin ct) =>
            Announces(e) /\ e.val = f
      /\ Announces(e) => IF e.op = "accept" THEN e.val \in ct2 ELSE cn2[e.val].some
  OBVIOUS
<1>k. /\ \A f \in Fds, op \in {"ctrl", "recv"} : ForServed(op, f, cn, ct) =>
            Count(es, SqOf(op, f)) = IF e \in CqOf(op, f) THEN 1 ELSE 0
      /\ \A f \in Fds, op \in {"ctrl", "recv"} :
            ForServed(op, f, cn2, ct2) /\ ~ ForServed(op, f, cn, ct) => Count(es, SqOf(op, f)) = 1
  OBVIOUS
<1> HIDE DEF e, t, q2
<1>v. \A i \in DOMAIN p : Announces(p[i]) => p[i].val \in Fds
  <2>1. \A i \in DOMAIN p : p[i] \in Completion
    BY <1>0, ElementOfSeq, LenProperties
  <2> QED BY <2>1, CompletionCases DEF Announces
<1>4. Announcements(t, cn2, ct2, ft)
  <2>1. ASSUME NEW i \in DOMAIN t, Announces(t[i])
        PROVE  /\ t[i].val \in Fds
               /\ ft[t[i].val] \in (IF t[i].op = "accept" THEN Links ELSE Clients)
               /\ ~ cn2[t[i].val].some /\ t[i].val \notin ct2
    <3>1. i + 1 \in DOMAIN p /\ t[i] = p[i + 1] /\ i + 1 # 1
      BY <1>1
    <3>2. /\ ft[t[i].val] \in (IF t[i].op = "accept" THEN Links ELSE Clients)
          /\ ~ cn[t[i].val].some /\ t[i].val \notin ct
      BY <1>0, <2>1, <3>1 DEF Announcements
    <3>3. t[i].val \in Fds
      BY <1>v, <2>1, <3>1
    <3>4. ~ (Announces(e) /\ e.val = t[i].val)
      <4>1. \A j, k \in DOMAIN p :
               Announces(p[j]) /\ Announces(p[k]) /\ p[j].val = p[k].val => j = k
        BY <1>0 DEF Announcements
      <4> QED BY <1>1, <2>1, <3>1, <4>1
    <3> QED BY <1>h, <3>2, <3>3, <3>4
  <2>2. ASSUME NEW i \in DOMAIN t, NEW j \in DOMAIN t, Announces(t[i]), Announces(t[j]),
               t[i].val = t[j].val
        PROVE  i = j
    <3>1. /\ i + 1 \in DOMAIN p /\ t[i] = p[i + 1] /\ j + 1 \in DOMAIN p /\ t[j] = p[j + 1]
          /\ i \in Nat /\ j \in Nat
      BY <1>1
    <3>2. i + 1 = j + 1
      BY <1>0, <2>2, <3>1 DEF Announcements
    <3> QED BY <3>1, <3>2
  <2> QED BY <2>1, <2>2 DEF Announcements
<1>5. Known(t, cn2, ct2, ft)
  <2> SUFFICES ASSUME NEW f \in Fds, ft[f] # None, ~ cn2[f].some, f \notin ct2
               PROVE  \E i \in DOMAIN t : Announces(t[i]) /\ t[i].val = f
    BY DEF Known
  <2>1. PICK i \in DOMAIN p : Announces(p[i]) /\ p[i].val = f
    BY <1>0, <1>h DEF Known
  <2>2. i # 1
    BY <1>1, <1>h, <2>1
  <2> QED BY <1>1, <2>1, <2>2
<1>6. Pushed(q2, cn2, ct2)
  <2> SUFFICES ASSUME NEW i \in DOMAIN q2 PROVE ForServed(q2[i].op, q2[i].fd, cn2, ct2)
    BY DEF Pushed
  <2>1. CASE i \in DOMAIN q /\ q2[i] = q[i]
    <3>1. q[i] \in Sqes /\ ForServed(q[i].op, q[i].fd, cn, ct)
      BY <1>0, <2>1, ElementOfSeq, LenProperties DEF Pushed
    <3> QED BY <1>h, <2>1, <3>1, SqeCases DEF ForServed
  <2>2. CASE i - Len(q) \in DOMAIN es /\ q2[i] = es[i - Len(q)]
    BY <2>2
  <2> QED BY <1>2, <2>1, <2>2
<1>7. Flying(a, cn2, ct2, ft)
  <2>1. \A r \in DOMAIN a : r \in Requests
    BY DEF Shaped
  <2> QED BY <1>0, <1>h, <2>1, RequestCases DEF Flying, ForServed
<1>8. Completed(t, cn2, ct2, ft, fn, dr)
  <2> SUFFICES ASSUME NEW i \in DOMAIN t
               PROVE  /\ t[i].op = "accept" => t[i].fd = ListenFd /\ t[i].file = ListenFd
                      /\ t[i].op \in {"ctrl", "recv"} =>
                            ForServed(t[i].op, t[i].fd, cn2, ct2) /\ t[i].file = ft[t[i].fd]
                      /\ t[i].op = "recv" => t[i].res # "nobufs" /\ (t[i].res = "fail" => t[i].file \in fn)
                      /\ t[i].op = "ctrl" => ~ t[i].more /\ (t[i].res # "ok" => t[i].file \in dr)
                      /\ t[i].op = "send" => t[i].res = "ok"
    BY DEF Completed
  <2>1. i + 1 \in DOMAIN p /\ t[i] = p[i + 1] /\ t[i] \in Completion
    BY <1>1, ElementOfSeq, LenProperties
  <2>2. t[i].op \in {"ctrl", "recv"} => t[i].fd \in Fds
    BY <2>1, CompletionCases
  <2>3. t[i].op \in {"ctrl", "recv"} => ForServed(t[i].op, t[i].fd, cn, ct)
    BY <1>0, <2>1 DEF Completed
  <2>4. t[i].op \in {"ctrl", "recv"} => ForServed(t[i].op, t[i].fd, cn2, ct2)
    BY <1>h, <2>2, <2>3 DEF ForServed
  <2> QED BY <1>0, <2>1, <2>4 DEF Completed
<1>9. OneEach(q2, t, a, cn2, ct2, ft)
  <2>1. ASSUME NEW f \in Fds, NEW op \in {"ctrl", "recv"}, ForServed(op, f, cn2, ct2)
        PROVE  Requested(op, f, q2, t, a, ft) = 1
    <3> DEFINE V == SqOf(op, f)
               W == CqOf(op, f)
               k == Copies(Request(op, f, ft[f]), a)
    <3>1. /\ Count(q2, V) = Count(q, V) + Count(es, V)
          /\ Count(p, W) = Count(t, W) + (IF e \in W THEN 1 ELSE 0)
          /\ Count(q, V) \in Nat /\ Count(es, V) \in Nat /\ Count(t, W) \in Nat
      BY <1>3
    <3>2. CASE ForServed(op, f, cn, ct)
      <4>1. Count(q, V) + Count(p, W) + k = 1 /\ k \in Nat
        BY <3>2, ServedCounts
      <4>2. Count(es, V) = IF e \in W THEN 1 ELSE 0
        BY <1>k, <3>2
      <4> HIDE DEF V, W, k
      <4>3. Count(q2, V) + Count(t, W) + k = 1
        BY <3>1, <4>1, <4>2
      <4> QED BY <4>3 DEF Requested, V, W, k
    <3>3. CASE ~ ForServed(op, f, cn, ct)
      <4>1. Count(q, V) = 0 /\ Count(p, W) = 0 /\ k = 0
        BY <3>3, NotServed
      <4>2. Count(es, V) = 1
        BY <1>k, <2>1, <3>3
      <4> HIDE DEF V, W, k
      <4>3. Count(q2, V) + Count(t, W) + k = 1
        BY <3>1, <4>1, <4>2
      <4> QED BY <4>3 DEF Requested, V, W, k
    <3> QED BY <3>2, <3>3
  <2>2. ASSUME NEW f \in Fds, cn2[f].some PROVE Requested("recv", f, q2, t, a, ft) = 1
    BY <2>1, <2>2 DEF ForServed
  <2>3. ASSUME NEW f \in Fds, f \in ct2 PROVE Requested("ctrl", f, q2, t, a, ft) = 1
    BY <2>1, <2>3 DEF ForServed
  <2> QED BY <2>2, <2>3 DEF OneEach
<1>10. LastEnds(t)
  <2> SUFFICES ASSUME NEW i \in DOMAIN t, NEW j \in DOMAIN t, t[i].op = "recv", t[j].op = "recv",
                      t[i].fd = t[j].fd, i < j
               PROVE  t[i].more
    BY DEF LastEnds
  <2>1. /\ i + 1 \in DOMAIN p /\ t[i] = p[i + 1] /\ j + 1 \in DOMAIN p /\ t[j] = p[j + 1]
        /\ i \in Nat /\ j \in Nat /\ i + 1 < j + 1
    BY <1>1
  <2> QED BY <1>0, <2>1 DEF LastEnds
<1>11. Wired(q2, t, a, cn2, ct2, ft, fn, dr)
  BY <1>4, <1>5, <1>6, <1>7, <1>8, <1>9, <1>10 DEF Wired
<1> QED BY <1>11 DEF q2, t

\* The kernel took a request of armed, or left it armed, and posted e for it;
\* with it ft became ft2: only the descriptor that e announces is new.
LEMMA PostedWired ==
    ASSUME NEW q, NEW p, NEW a, NEW cn, NEW ct, NEW ft, NEW fn, NEW dr,
           NEW a2, NEW ft2, NEW r \in DOMAIN a, NEW e \in Completion,
           Shaped(q, p, a, cn, ct, ft), Wired(q, p, a, cn, ct, ft, fn, dr),
           e.op = r.op, e.fd = r.fd, e.file = r.file,
           DOMAIN a2 \subseteq DOMAIN a, \A x \in DOMAIN a2 : a2[x] \in Nat \ {0},
           \A x : x # r => Copies(x, a2) = Copies(x, a),
           Copies(r, a) = Copies(r, a2) + (IF e.more THEN 0 ELSE 1),
           r.op = "recv" => e.res # "nobufs" /\ (e.res = "fail" => r.file \in fn),
           r.op = "ctrl" => ~ e.more /\ (e.res # "ok" => r.file \in dr),
           \A f \in Fds : ft2[f] = ft[f] \/ (Announces(e) /\ e.val = f),
           Announces(e) => /\ ft[e.val] = None
                           /\ ft2[e.val] \in (IF e.op = "accept" THEN Links ELSE Clients)
    PROVE  Wired(q, Append(p, e), a2, cn, ct, ft2, fn, dr)
<1> DEFINE t == Append(p, e)
           n == Len(p) + 1
<1>0. /\ q \in Seq(Sqes) /\ p \in Seq(Completion) /\ r \in Requests
      /\ Tables(cn, ct, ft) /\ Announcements(p, cn, ct, ft) /\ Known(p, cn, ct, ft)
      /\ Pushed(q, cn, ct) /\ Flying(a, cn, ct, ft) /\ Completed(p, cn, ct, ft, fn, dr)
      /\ OneEach(q, p, a, cn, ct, ft) /\ LastEnds(p)
  BY DEF Shaped, Wired
<1>1. /\ t \in Seq(Completion) /\ n \in Nat /\ DOMAIN p = 1..Len(p) /\ DOMAIN t = 1..n
      /\ Len(p) \in Nat
      /\ \A i \in DOMAIN p : i \in DOMAIN t /\ t[i] = p[i]
      /\ t[n] = e /\ n \in DOMAIN t
      /\ \A i \in DOMAIN t : i \in DOMAIN p \/ i = n
  <2>1. p \in Seq(Completion) /\ e \in Completion
    BY <1>0
  <2>2. /\ t \in Seq(Completion) /\ Len(p) \in Nat
        /\ DOMAIN p = 1..Len(p) /\ DOMAIN t = 1..n
        /\ \A i \in DOMAIN p : i \in DOMAIN t /\ t[i] = p[i]
        /\ t[n] = e
        /\ \A i \in DOMAIN t : i \in DOMAIN p \/ i = n
    BY <2>1, EndOn
  <2>3. n \in Nat /\ n \in 1..n
    BY <2>2
  <2> HIDE DEF t, n
  <2> QED BY <2>2, <2>3
<1>2. \A V : Count(t, V) = Count(p, V) + (IF e \in V THEN 1 ELSE 0) /\ Count(p, V) \in Nat
  <2>1. p \in Seq(Completion) /\ e \in Completion
    BY <1>0
  <2> QED BY <2>1, CountAppend, CountNat
<1> HIDE DEF t, n
<1>3. \A f \in Fds : (cn[f].some \/ f \in ct) => ft2[f] = ft[f] /\ ft[f] # None
  <2> SUFFICES ASSUME NEW f \in Fds, cn[f].some \/ f \in ct
               PROVE  ft2[f] = ft[f] /\ ft[f] # None
    OBVIOUS
  <2>1. ft[f] # None
    BY <1>0, UringAssumption DEF Tables, Files
  <2> QED BY <2>1
<1>4. ~ (cn[e.val].some \/ e.val \in ct) \/ ~ Announces(e)
  <2> SUFFICES ASSUME Announces(e) PROVE ~ (cn[e.val].some \/ e.val \in ct)
    OBVIOUS
  <2>1. e.val \in Fds /\ ft[e.val] = None
    BY CompletionCases DEF Announces
  <2> QED BY <1>3, <2>1
<1>5. Tables(cn, ct, ft2)
  BY <1>0, <1>3 DEF Tables
<1>v. \A i \in DOMAIN p : Announces(p[i]) => p[i].val \in Fds /\ ft[p[i].val] # None
  <2>1. \A i \in DOMAIN p : p[i] \in Completion
    BY <1>0, ElementOfSeq, LenProperties
  <2>2. \A i \in DOMAIN p : Announces(p[i]) => ft[p[i].val] \in Files
    BY <1>0 DEF Announcements, Files
  <2> QED BY <2>1, <2>2, CompletionCases, UringAssumption DEF Announces
<1>6. Announcements(t, cn, ct, ft2)
  <2>0. \A i \in DOMAIN p : Announces(p[i]) => ~ (Announces(e) /\ e.val = p[i].val)
    BY <1>v
  <2>1. ASSUME NEW i \in DOMAIN t, Announces(t[i])
        PROVE  /\ ft2[t[i].val] \in (IF t[i].op = "accept" THEN Links ELSE Clients)
               /\ ~ cn[t[i].val].some /\ t[i].val \notin ct
    <3>1. CASE i \in DOMAIN p
      <4>1. t[i] = p[i]
        BY <1>1, <3>1
      <4>2. ft2[p[i].val] = ft[p[i].val]
        BY <1>v, <2>0, <2>1, <3>1, <4>1
      <4>3. /\ ft[p[i].val] \in (IF p[i].op = "accept" THEN Links ELSE Clients)
            /\ ~ cn[p[i].val].some /\ p[i].val \notin ct
        BY <1>0, <2>1, <3>1, <4>1 DEF Announcements
      <4> QED BY <4>1, <4>2, <4>3
    <3>2. CASE i = n
      BY <1>1, <1>4, <2>1, <3>2
    <3> QED BY <1>1, <3>1, <3>2
  <2>2. ASSUME NEW i \in DOMAIN t, NEW j \in DOMAIN t, Announces(t[i]), Announces(t[j]),
               t[i].val = t[j].val
        PROVE  i = j
    <3>1. (i \in DOMAIN p \/ i = n) /\ (j \in DOMAIN p \/ j = n)
      BY <1>1
    <3>2. CASE i \in DOMAIN p /\ j \in DOMAIN p
      <4>1. t[i] = p[i] /\ t[j] = p[j]
        BY <1>1, <3>2
      <4> QED BY <1>0, <2>2, <3>2, <4>1 DEF Announcements
    <3>3. CASE i \in DOMAIN p /\ j = n
      BY <1>1, <2>0, <2>2, <3>3
    <3>4. CASE i = n /\ j \in DOMAIN p
      BY <1>1, <2>0, <2>2, <3>4
    <3> QED BY <3>1, <3>2, <3>3, <3>4
  <2> QED BY <2>1, <2>2 DEF Announcements
<1>7. Known(t, cn, ct, ft2)
  <2> SUFFICES ASSUME NEW f \in Fds, ft2[f] # None, ~ cn[f].some, f \notin ct
               PROVE  \E i \in DOMAIN t : Announces(t[i]) /\ t[i].val = f
    BY DEF Known
  <2>1. CASE ft2[f] = ft[f]
    <3>1. PICK i \in DOMAIN p : Announces(p[i]) /\ p[i].val = f
      BY <1>0, <2>1 DEF Known
    <3> QED BY <1>1, <3>1
  <2>2. CASE Announces(e) /\ e.val = f
    BY <1>1, <2>2
  <2> QED BY <2>1, <2>2
<1>8. Flying(a2, cn, ct, ft2)
  <2> SUFFICES ASSUME NEW x \in DOMAIN a2
               PROVE  ForServed(x.op, x.fd, cn, ct) /\ (x.op # "accept" => x.file = ft2[x.fd])
    BY DEF Flying
  <2>1. x \in Requests /\ x \in DOMAIN a
    BY DEF Shaped
  <2>2. ForServed(x.op, x.fd, cn, ct) /\ (x.op # "accept" => x.file = ft[x.fd])
    BY <1>0, <2>1 DEF Flying
  <2>3. x.op # "accept" => x.op \in {"ctrl", "recv"} /\ x.fd \in Fds
    BY <2>1, RequestCases
  <2> QED BY <1>3, <2>2, <2>3 DEF ForServed
<1>9. r.op \in {"ctrl", "recv"} =>
          r.fd \in Fds /\ ForServed(r.op, r.fd, cn, ct) /\ r.file = ft2[r.fd] /\ r.file = ft[r.fd]
  <2>1. ForServed(r.op, r.fd, cn, ct) /\ (r.op # "accept" => r.file = ft[r.fd])
    BY <1>0 DEF Flying
  <2>2. r.op # "accept" => r.op \in {"ctrl", "recv"} /\ r.fd \in Fds
    BY <1>0, RequestCases
  <2> QED BY <1>3, <2>1, <2>2 DEF ForServed
<1>10. Completed(t, cn, ct, ft2, fn, dr)
  <2> SUFFICES ASSUME NEW i \in DOMAIN t
               PROVE  /\ t[i].op = "accept" => t[i].fd = ListenFd /\ t[i].file = ListenFd
                      /\ t[i].op \in {"ctrl", "recv"} =>
                            ForServed(t[i].op, t[i].fd, cn, ct) /\ t[i].file = ft2[t[i].fd]
                      /\ t[i].op = "recv" => t[i].res # "nobufs" /\ (t[i].res = "fail" => t[i].file \in fn)
                      /\ t[i].op = "ctrl" => ~ t[i].more /\ (t[i].res # "ok" => t[i].file \in dr)
                      /\ t[i].op = "send" => t[i].res = "ok"
    BY DEF Completed
  <2>1. CASE i \in DOMAIN p
    <3>1. t[i] = p[i] /\ p[i] \in Completion
      BY <1>0, <1>1, <2>1, ElementOfSeq
    <3>2. t[i].op \in {"ctrl", "recv"} =>
             t[i].fd \in Fds /\ ForServed(t[i].op, t[i].fd, cn, ct) /\ t[i].file = ft[t[i].fd]
      BY <1>0, <2>1, <3>1, CompletionCases DEF Completed
    <3>3. t[i].op \in {"ctrl", "recv"} => t[i].file = ft2[t[i].fd]
      BY <1>3, <3>2 DEF ForServed
    <3> QED BY <1>0, <2>1, <3>1, <3>2, <3>3 DEF Completed
  <2>2. CASE i = n
    <3>1. t[i].op = r.op /\ t[i].fd = r.fd /\ t[i].file = r.file /\ t[i] = e
      BY <1>1, <2>2
    <3>2. r.op \in {"accept", "ctrl", "recv"}
      BY <1>0, RequestCases
    <3> QED BY <1>0, <1>9, <3>1, <3>2, RequestCases
  <2> QED BY <1>1, <2>1, <2>2
<1>11. ASSUME NEW f \in Fds, NEW op \in {"ctrl", "recv"}, ForServed(op, f, cn, ct)
       PROVE  Requested(op, f, q, t, a2, ft2) = 1
  <2> DEFINE V == SqOf(op, f)
             W == CqOf(op, f)
             x == Request(op, f, ft[f])
  <2>1. Count(q, V) + Count(p, W) + Copies(x, a) = 1
        /\ Count(q, V) \in Nat /\ Count(p, W) \in Nat /\ Copies(x, a) \in Nat
    BY <1>11, ServedCounts
  <2>2. ft2[f] = ft[f]
    BY <1>3, <1>11 DEF ForServed
  <2>3. Count(t, W) = Count(p, W) + (IF e \in W THEN 1 ELSE 0)
    BY <1>2
  <2>4. e \in W <=> r.op = op /\ r.fd = f /\ ~ e.more
    BY DEF CqOf
  <2>5. r.op = op /\ r.fd = f => r = x
    BY <1>0, <1>9 DEF Requests, Request
  <2>6. r = x => r.op = op /\ r.fd = f
    BY DEF Request
  <2>7. Copies(x, a2) \in Nat
    BY DEF Copies
  <2> HIDE DEF V, W, x
  <2>8. Count(t, W) + Copies(x, a2) = Count(p, W) + Copies(x, a)
    BY <2>1, <2>3, <2>4, <2>5, <2>6, <2>7
  <2>9. Count(q, V) + Count(t, W) + Copies(x, a2) = 1
    BY <2>1, <2>3, <2>7, <2>8
  <2> QED BY <2>2, <2>9 DEF Requested, V, W, x
<1>12. OneEach(q, t, a2, cn, ct, ft2)
  <2>2. ASSUME NEW f \in Fds, cn[f].some PROVE Requested("recv", f, q, t, a2, ft2) = 1
    BY <1>11, <2>2 DEF ForServed
  <2>3. ASSUME NEW f \in Fds, f \in ct PROVE Requested("ctrl", f, q, t, a2, ft2) = 1
    BY <1>11, <2>3 DEF ForServed
  <2> QED BY <2>2, <2>3 DEF OneEach
<1>13. LastEnds(t)
  <2> SUFFICES ASSUME NEW i \in DOMAIN t, NEW j \in DOMAIN t, t[i].op = "recv", t[j].op = "recv",
                      t[i].fd = t[j].fd, i < j
               PROVE  t[i].more
    BY DEF LastEnds
  <2>1. i \in DOMAIN p /\ t[i] = p[i]
    BY <1>1
  <2>2. CASE j \in DOMAIN p
    <3>1. t[j] = p[j]
      BY <1>1, <2>2
    <3> QED BY <1>0, <2>1, <2>2, <3>1 DEF LastEnds
  <2>3. CASE j = n
    <3>1. r.op = "recv" /\ t[i].fd = r.fd
      BY <1>1, <2>3
    <3> DEFINE f == r.fd
    <3>2. f \in Fds /\ ForServed("recv", f, cn, ct) /\ r.file = ft[f]
      BY <1>9, <3>1
    <3>3. Count(q, SqOf("recv", f)) + Count(p, CqOf("recv", f)) + Copies(Request("recv", f, ft[f]), a) = 1
          /\ Count(q, SqOf("recv", f)) \in Nat /\ Count(p, CqOf("recv", f)) \in Nat
          /\ Copies(Request("recv", f, ft[f]), a) \in Nat
      BY <3>2, ServedCounts
    <3>4. r = Request("recv", f, ft[f])
      BY <1>0, <3>1, <3>2 DEF Requests, Request
    <3>5. Copies(r, a) \in Nat \ {0}
      BY <1>0 DEF Flying, Copies
    <3>6. Count(p, CqOf("recv", f)) = 0
      BY <3>3, <3>4, <3>5
    <3>7. p[i] \notin CqOf("recv", f) /\ p[i] \in Completion
      BY <1>0, <1>1, <2>1, <3>6, CountNone, ElementOfSeq
    <3> QED BY <2>1, <3>1, <3>7 DEF CqOf
  <2> QED BY <1>1, <2>2, <2>3
<1>14. Wired(q, t, a2, cn, ct, ft2, fn, dr)
  BY <1>0, <1>5, <1>6, <1>7, <1>8, <1>10, <1>12, <1>13 DEF Wired
<1> QED BY <1>14 DEF t

\* More clients left and more links drained.
LEMMA WiredMore ==
    ASSUME NEW q, NEW p, NEW a, NEW cn, NEW ct, NEW ft, NEW fn, NEW dr, NEW fn2, NEW dr2,
           Wired(q, p, a, cn, ct, ft, fn, dr), fn \subseteq fn2, dr \subseteq dr2
    PROVE  Wired(q, p, a, cn, ct, ft, fn2, dr2)
<1>1. Completed(p, cn, ct, ft, fn, dr)
  BY DEF Wired
<1>2. Completed(p, cn, ct, ft, fn2, dr2)
  BY <1>1 DEF Completed
<1> QED BY <1>2 DEF Wired

\* The completion at the head ended what its descriptor f was served with, and
\* f was closed: nothing else is left of f.
LEMMA ClosedWired ==
    ASSUME NEW q, NEW p, NEW a, NEW cn, NEW ct, NEW ft, NEW fn, NEW dr,
           NEW cn2, NEW ct2, NEW ft2, NEW f \in Fds, NEW op \in {"ctrl", "recv"},
           Shaped(q, p, a, cn, ct, ft), Wired(q, p, a, cn, ct, ft, fn, dr), p # <<>>,
           Head(p).op = op, Head(p).fd = f, Head(p).res # "ok", ~ Head(p).more,
           op = "recv" => Sends(q, f) = {},
           ~ cn2[f].some, f \notin ct2, ft2[f] = None,
           \A g \in Fds : g # f => /\ cn2[g] = cn[g] /\ ft2[g] = ft[g]
                                   /\ g \in ct2 <=> g \in ct
    PROVE  Wired(q, Tail(p), a, cn2, ct2, ft2, fn, dr)
<1> DEFINE e == Head(p)
           t == Tail(p)
<1>0. /\ q \in Seq(Sqes) /\ p \in Seq(Completion) /\ DOMAIN a \subseteq Requests
      /\ Tables(cn, ct, ft) /\ Announcements(p, cn, ct, ft) /\ Known(p, cn, ct, ft)
      /\ Pushed(q, cn, ct) /\ Flying(a, cn, ct, ft) /\ Completed(p, cn, ct, ft, fn, dr)
      /\ OneEach(q, p, a, cn, ct, ft) /\ LastEnds(p)
  BY DEF Shaped, Wired
<1>1. /\ e = p[1] /\ 1 \in DOMAIN p /\ e \in Completion
      /\ t \in Seq(Completion)
      /\ \A i \in DOMAIN t : i \in Nat /\ i # 0 /\ i + 1 \in DOMAIN p /\ t[i] = p[i + 1]
      /\ \A i \in DOMAIN p : i \in Nat /\ (i # 1 => i - 1 \in DOMAIN t /\ t[i - 1] = p[i])
  BY <1>0, HeadOff
<1>2. \A V : Count(p, V) = Count(t, V) + (IF e \in V THEN 1 ELSE 0) /\ Count(t, V) \in Nat
  <2> SUFFICES ASSUME NEW V
               PROVE  Count(p, V) = Count(t, V) + (IF e \in V THEN 1 ELSE 0) /\ Count(t, V) \in Nat
    OBVIOUS
  <2>1. Count(p, V) = Count(t, V) + (IF e \in V THEN 1 ELSE 0)
    BY <1>0, CountTail
  <2>2. t \in Seq(Completion)
    BY <1>1
  <2> HIDE DEF t, e
  <2> QED BY <2>1, <2>2, CountNat
<1>e. e.op = op /\ e.fd = f /\ e.res # "ok" /\ ~ e.more /\ (op = "recv" => Sends(q, f) = {})
  OBVIOUS
<1> HIDE DEF e, t
<1>3. ForServed(op, f, cn, ct)
  BY <1>0, <1>1, <1>e DEF Completed
<1>4. \A o \in {"ctrl", "recv"} : o # op => ~ ForServed(o, f, cn, ct)
  BY <1>0, <1>3, UringAssumption DEF Tables, ForServed
<1>5. Count(q, SqOf(op, f)) = 0 /\ Count(t, CqOf(op, f)) = 0 /\ Copies(Request(op, f, ft[f]), a) = 0
  <2>1. Count(q, SqOf(op, f)) + Count(p, CqOf(op, f)) + Copies(Request(op, f, ft[f]), a) = 1
        /\ Count(q, SqOf(op, f)) \in Nat /\ Copies(Request(op, f, ft[f]), a) \in Nat
    BY <1>3, ServedCounts
  <2>2. e \in CqOf(op, f)
    BY <1>1, <1>e DEF CqOf
  <2>3. Count(p, CqOf(op, f)) = Count(t, CqOf(op, f)) + 1 /\ Count(t, CqOf(op, f)) \in Nat
    BY <1>2, <2>2
  <2> QED BY <2>1, <2>3
<1>6. ASSUME NEW i \in DOMAIN q PROVE q[i].fd # f
  <2> SUFFICES ASSUME q[i].fd = f PROVE FALSE
    OBVIOUS
  <2>1. q[i] \in Sqes /\ q[i] \notin SqOf(op, f)
    BY <1>0, <1>5, CountNone, ElementOfSeq, LenProperties
  <2>2. ForServed(q[i].op, q[i].fd, cn, ct)
    BY <1>0 DEF Pushed
  <2>3. CASE q[i].op = "accept"
    BY <2>1, <2>3, SqeCases, UringAssumption
  <2>4. CASE q[i].op \in {"ctrl", "recv"}
    BY <1>4, <2>1, <2>2, <2>4 DEF SqOf
  <2>5. CASE q[i].op = "send"
    <3>1. cn[f].some
      BY <2>2, <2>5 DEF ForServed
    <3>2. op = "recv"
      BY <1>4, <3>1 DEF ForServed
    <3>3. i \in Sends(q, f)
      BY <2>5 DEF Sends
    <3> QED BY <1>e, <3>2, <3>3
  <2> QED BY <2>1, <2>3, <2>4, <2>5, SqeCases
<1>7. ASSUME NEW r \in DOMAIN a PROVE r.fd # f
  <2> SUFFICES ASSUME r.fd = f PROVE FALSE
    OBVIOUS
  <2>1. r \in Requests
    BY <1>0
  <2>2. r.op # "accept"
    BY <2>1, RequestCases, UringAssumption
  <2>3. r.op \in {"ctrl", "recv"} /\ ForServed(r.op, f, cn, ct) /\ r.file = ft[f]
    BY <1>0, <2>1, <2>2, RequestCases DEF Flying
  <2>4. r.op = op
    BY <1>4, <2>3
  <2>5. r = Request(op, f, ft[f])
    BY <2>1, <2>2, <2>3, <2>4 DEF Requests, Request
  <2>6. a[r] \in Nat \ {0}
    BY <1>0 DEF Flying
  <2> QED BY <1>5, <2>5, <2>6 DEF Copies
<1>8. ASSUME NEW i \in DOMAIN t, t[i].op \in {"ctrl", "recv"} PROVE t[i].fd # f
  <2> SUFFICES ASSUME t[i].fd = f PROVE FALSE
    OBVIOUS
  <2>1. i \in Nat /\ i # 0 /\ i + 1 \in DOMAIN p /\ t[i] = p[i + 1] /\ t[i] \in Completion
    BY <1>1, ElementOfSeq, LenProperties
  <2>2. ForServed(t[i].op, f, cn, ct)
    BY <1>0, <1>8, <2>1 DEF Completed
  <2>3. t[i].op = op
    BY <1>4, <1>8, <2>2
  <2>4. CASE op = "ctrl"
    <3>1. ~ t[i].more
      BY <1>0, <2>1, <2>3, <2>4 DEF Completed
    <3>2. t[i] \in CqOf(op, f)
      BY <2>1, <2>3, <3>1 DEF CqOf
    <3> QED BY <1>1, <1>5, <3>2, CountNone
  <2>5. CASE op = "recv"
    <3>1. 1 < i + 1
      BY <2>1
    <3>2. e.more
      BY <1>0, <1>1, <1>e, <2>1, <2>3, <2>5, <3>1 DEF LastEnds
    <3> QED BY <1>e, <3>2
  <2> QED BY <2>4, <2>5
<1>9. /\ ~ cn2[f].some /\ f \notin ct2 /\ ft2[f] = None
      /\ \A g \in Fds : g # f => /\ cn2[g] = cn[g] /\ ft2[g] = ft[g]
                                 /\ g \in ct2 <=> g \in ct
  OBVIOUS
<1>s. \A o, g : g \in Fds /\ g # f /\ ForServed(o, g, cn, ct) => ForServed(o, g, cn2, ct2)
  BY <1>9 DEF ForServed
<1>10. Tables(cn2, ct2, ft2)
  BY <1>0, <1>9 DEF Tables
<1>v. \A i \in DOMAIN p : Announces(p[i]) => p[i].val \in Fds /\ p[i].val # f
  <2> SUFFICES ASSUME NEW i \in DOMAIN p, Announces(p[i]) PROVE p[i].val \in Fds /\ p[i].val # f
    OBVIOUS
  <2>1. p[i] \in Completion
    BY <1>0, ElementOfSeq, LenProperties
  <2>2. p[i].val \in Fds
    BY <2>1, CompletionCases DEF Announces
  <2>3. ~ cn[p[i].val].some /\ p[i].val \notin ct
    BY <1>0 DEF Announcements
  <2> QED BY <1>3, <2>2, <2>3 DEF ForServed
<1>11. Announcements(t, cn2, ct2, ft2)
  <2>1. ASSUME NEW i \in DOMAIN t, Announces(t[i])
        PROVE  /\ ft2[t[i].val] \in (IF t[i].op = "accept" THEN Links ELSE Clients)
               /\ ~ cn2[t[i].val].some /\ t[i].val \notin ct2
    <3>1. i + 1 \in DOMAIN p /\ t[i] = p[i + 1]
      BY <1>1
    <3>2. t[i].val \in Fds /\ t[i].val # f
      BY <1>v, <2>1, <3>1
    <3>3. /\ ft[t[i].val] \in (IF t[i].op = "accept" THEN Links ELSE Clients)
          /\ ~ cn[t[i].val].some /\ t[i].val \notin ct
      BY <1>0, <2>1, <3>1 DEF Announcements
    <3> QED BY <1>9, <3>2, <3>3
  <2>2. ASSUME NEW i \in DOMAIN t, NEW j \in DOMAIN t, Announces(t[i]), Announces(t[j]),
               t[i].val = t[j].val
        PROVE  i = j
    <3>1. /\ i + 1 \in DOMAIN p /\ t[i] = p[i + 1] /\ j + 1 \in DOMAIN p /\ t[j] = p[j + 1]
          /\ i \in Nat /\ j \in Nat
      BY <1>1
    <3>2. i + 1 = j + 1
      BY <1>0, <2>2, <3>1 DEF Announcements
    <3> QED BY <3>1, <3>2
  <2> QED BY <2>1, <2>2 DEF Announcements
<1>12. Known(t, cn2, ct2, ft2)
  <2> SUFFICES ASSUME NEW g \in Fds, ft2[g] # None, ~ cn2[g].some, g \notin ct2
               PROVE  \E i \in DOMAIN t : Announces(t[i]) /\ t[i].val = g
    BY DEF Known
  <2>1. g # f
    BY <1>9
  <2>2. PICK i \in DOMAIN p : Announces(p[i]) /\ p[i].val = g
    BY <1>0, <1>9, <2>1 DEF Known
  <2>3. i # 1
    BY <1>1, <1>e, <2>2 DEF Announces
  <2> QED BY <1>1, <2>2, <2>3
<1>13. Pushed(q, cn2, ct2)
  <2> SUFFICES ASSUME NEW i \in DOMAIN q PROVE ForServed(q[i].op, q[i].fd, cn2, ct2)
    BY DEF Pushed
  <2>1. q[i] \in Sqes
    BY <1>0, ElementOfSeq, LenProperties
  <2>2. ForServed(q[i].op, q[i].fd, cn, ct) /\ q[i].fd # f
    BY <1>0, <1>6 DEF Pushed
  <2>3. CASE q[i].op = "accept"
    BY <2>3 DEF ForServed
  <2>4. CASE q[i].fd \in Fds
    BY <1>s, <2>2, <2>4
  <2> QED BY <2>1, <2>3, <2>4, SqeCases
<1>14. Flying(a, cn2, ct2, ft2)
  <2> SUFFICES ASSUME NEW r \in DOMAIN a
               PROVE  /\ a[r] \in Nat \ {0}
                      /\ ForServed(r.op, r.fd, cn2, ct2) /\ (r.op # "accept" => r.file = ft2[r.fd])
    BY DEF Flying
  <2>1. /\ a[r] \in Nat \ {0} /\ ForServed(r.op, r.fd, cn, ct)
        /\ r.op # "accept" => r.file = ft[r.fd]
    BY <1>0 DEF Flying
  <2>2. r \in Requests /\ r.fd # f
    BY <1>0, <1>7
  <2>3. CASE r.op = "accept"
    BY <2>1, <2>3 DEF ForServed
  <2>4. CASE r.op # "accept"
    <3>1. r.fd \in Fds
      BY <2>2, <2>4, RequestCases
    <3> QED BY <1>9, <1>s, <2>1, <2>2, <2>4, <3>1
  <2> QED BY <2>3, <2>4
<1>15. Completed(t, cn2, ct2, ft2, fn, dr)
  <2> SUFFICES ASSUME NEW i \in DOMAIN t
               PROVE  /\ t[i].op = "accept" => t[i].fd = ListenFd /\ t[i].file = ListenFd
                      /\ t[i].op \in {"ctrl", "recv"} =>
                            ForServed(t[i].op, t[i].fd, cn2, ct2) /\ t[i].file = ft2[t[i].fd]
                      /\ t[i].op = "recv" => t[i].res # "nobufs" /\ (t[i].res = "fail" => t[i].file \in fn)
                      /\ t[i].op = "ctrl" => ~ t[i].more /\ (t[i].res # "ok" => t[i].file \in dr)
                      /\ t[i].op = "send" => t[i].res = "ok"
    BY DEF Completed
  <2>1. i + 1 \in DOMAIN p /\ t[i] = p[i + 1] /\ t[i] \in Completion
    BY <1>1, ElementOfSeq, LenProperties
  <2>2. ASSUME t[i].op \in {"ctrl", "recv"}
        PROVE  ForServed(t[i].op, t[i].fd, cn2, ct2) /\ t[i].file = ft2[t[i].fd]
    <3>1. t[i].fd \in Fds /\ t[i].fd # f
      BY <1>8, <2>1, <2>2, CompletionCases
    <3>2. ForServed(t[i].op, t[i].fd, cn, ct) /\ t[i].file = ft[t[i].fd]
      BY <1>0, <2>1, <2>2 DEF Completed
    <3> QED BY <1>9, <1>s, <3>1, <3>2
  <2> QED BY <1>0, <2>1, <2>2 DEF Completed
<1>16. ASSUME NEW g \in Fds, NEW o \in {"ctrl", "recv"}, ForServed(o, g, cn2, ct2)
       PROVE  Requested(o, g, q, t, a, ft2) = 1
  <2>1. g # f /\ ForServed(o, g, cn, ct) /\ ft2[g] = ft[g]
    BY <1>9, <1>16 DEF ForServed
  <2>2. Count(q, SqOf(o, g)) + Count(p, CqOf(o, g)) + Copies(Request(o, g, ft[g]), a) = 1
    BY <2>1, ServedCounts
  <2>3. e \notin CqOf(o, g)
    BY <1>e, <2>1 DEF CqOf
  <2>4. Count(t, CqOf(o, g)) = Count(p, CqOf(o, g))
    BY <1>2, <2>3
  <2> QED BY <2>1, <2>2, <2>4 DEF Requested
<1>17. OneEach(q, t, a, cn2, ct2, ft2)
  <2>2. ASSUME NEW g \in Fds, cn2[g].some PROVE Requested("recv", g, q, t, a, ft2) = 1
    BY <1>16, <2>2 DEF ForServed
  <2>3. ASSUME NEW g \in Fds, g \in ct2 PROVE Requested("ctrl", g, q, t, a, ft2) = 1
    BY <1>16, <2>3 DEF ForServed
  <2> QED BY <2>2, <2>3 DEF OneEach
<1>18. LastEnds(t)
  <2> SUFFICES ASSUME NEW i \in DOMAIN t, NEW j \in DOMAIN t, t[i].op = "recv", t[j].op = "recv",
                      t[i].fd = t[j].fd, i < j
               PROVE  t[i].more
    BY DEF LastEnds
  <2>1. /\ i + 1 \in DOMAIN p /\ t[i] = p[i + 1] /\ j + 1 \in DOMAIN p /\ t[j] = p[j + 1]
        /\ i \in Nat /\ j \in Nat /\ i + 1 < j + 1
    BY <1>1
  <2> QED BY <1>0, <2>1 DEF LastEnds
<1>19. Wired(q, t, a, cn2, ct2, ft2, fn, dr)
  BY <1>10, <1>11, <1>12, <1>13, <1>14, <1>15, <1>17, <1>18 DEF Wired
<1> QED BY <1>19 DEF t

\* A request taken out of the bag.
LEMMA DropCopies ==
    ASSUME NEW r \in DOMAIN armed, \A x \in DOMAIN armed : armed[x] \in Nat \ {0}, Drop(r)
    PROVE  /\ DOMAIN armed' \subseteq DOMAIN armed
           /\ \A x \in DOMAIN armed' : armed'[x] \in Nat \ {0}
           /\ \A x : x # r => Copies(x, armed') = Copies(x, armed)
           /\ Copies(r, armed) = Copies(r, armed') + 1
<1> DEFINE B == [x \in DOMAIN armed |-> IF x \in {r} THEN armed[x] - 1 ELSE armed[x]]
           D == {x \in DOMAIN armed : B[x] > 0}
<1>1. armed' = [x \in D |-> B[x]]
  <2>1. DOMAIN SetToBag({r}) = {r} /\ \A x \in {r} : SetToBag({r})[x] = 1
    BY DEF SetToBag
  <2>2. armed' = armed (-) SetToBag({r})
    BY DEF Drop
  <2> QED BY <2>1, <2>2 DEF (-)
<1>2. \A x \in DOMAIN armed : B[x] = IF x = r THEN armed[x] - 1 ELSE armed[x]
  OBVIOUS
<1> HIDE DEF B
<1>3. DOMAIN armed' = D /\ \A x \in D : armed'[x] = B[x]
  BY <1>1
<1>4. \A x \in D : x \in DOMAIN armed /\ B[x] > 0
  OBVIOUS
<1>5. \A x \in DOMAIN armed : x \notin D => ~ (B[x] > 0)
  OBVIOUS
<1> HIDE DEF D
<1>6. \A x \in DOMAIN armed' : armed'[x] \in Nat \ {0}
  BY <1>2, <1>3, <1>4
<1>7. ASSUME NEW x, x # r PROVE Copies(x, armed') = Copies(x, armed)
  BY <1>2, <1>3, <1>4, <1>5, <1>7 DEF Copies
<1>8. Copies(r, armed) = Copies(r, armed') + 1
  BY <1>2, <1>3, <1>4, <1>5 DEF Copies
<1> QED BY <1>3, <1>4, <1>6, <1>7, <1>8

\* What remains of the feed of f when the head of p is gone.
LEMMA FeedTail ==
    ASSUME NEW p \in Seq(Completion), p # <<>>, NEW f
    PROVE  /\ \A i \in Feed(Tail(p), f) :
                 i \in Nat /\ i # 0 /\ i + 1 \in Feed(p, f) /\ i + 1 # 1 /\ Tail(p)[i] = p[i + 1]
           /\ \A i \in Feed(p, f) : i # 1 =>
                 i \in Nat /\ i - 1 \in Feed(Tail(p), f) /\ Tail(p)[i - 1] = p[i]
<1>1. /\ \A i \in DOMAIN Tail(p) :
            i \in Nat /\ i # 0 /\ i + 1 \in DOMAIN p /\ Tail(p)[i] = p[i + 1]
      /\ \A i \in DOMAIN p :
            i \in Nat /\ (i # 1 => i - 1 \in DOMAIN Tail(p) /\ Tail(p)[i - 1] = p[i])
  BY HeadOff
<1>2. \A i \in Nat : i # 0 => i + 1 # 1
  OBVIOUS
<1> QED BY <1>1, <1>2 DEF Feed

\* They bring what is left of it.
LEMMA BringsTail ==
    ASSUME NEW p \in Seq(Completion), p # <<>>, NEW m, NEW k, NEW f, NEW c, NEW n, NEW u, NEW g,
           Brings(p, m, f, c, n, g),
           \A i \in Feed(p, f) : i # 1 => k[p[i].val] = m[p[i].val] /\ u < Lo(m[p[i].val]),
           \A v \in (u + 1)..g : \E i \in Feed(p, f) :
               i # 1 /\ Lo(m[p[i].val]) <= v /\ v <= Hi(m[p[i].val])
    PROVE  Brings(Tail(p), k, f, c, u, g)
<1> DEFINE t == Tail(p)
<1>1. /\ \A i \in Feed(t, f) : i \in Nat /\ i # 0 /\ i + 1 \in Feed(p, f) /\ i + 1 # 1 /\ t[i] = p[i + 1]
      /\ \A i \in Feed(p, f) : i # 1 => i \in Nat /\ i - 1 \in Feed(t, f) /\ t[i - 1] = p[i]
  BY FeedTail
<1> HIDE DEF t
<1>2. ASSUME NEW i \in Feed(t, f)
      PROVE  /\ Stretch(k[t[i].val], c) /\ u < Lo(k[t[i].val]) /\ Hi(k[t[i].val]) <= g
             /\ k[t[i].val] = m[p[i + 1].val]
  <2>1. i + 1 \in Feed(p, f) /\ i + 1 # 1 /\ t[i] = p[i + 1]
    BY <1>1
  <2>2. k[t[i].val] = m[p[i + 1].val] /\ u < Lo(m[p[i + 1].val])
    BY <2>1
  <2>3. Stretch(m[p[i + 1].val], c) /\ Hi(m[p[i + 1].val]) <= g
    BY <2>1 DEF Brings
  <2> QED BY <2>2, <2>3
<1>3. ASSUME NEW i \in Feed(t, f), NEW j \in Feed(t, f), i < j
      PROVE  Hi(k[t[i].val]) < Lo(k[t[j].val])
  <2>1. /\ k[t[i].val] = m[p[i + 1].val] /\ k[t[j].val] = m[p[j + 1].val]
        /\ i + 1 \in Feed(p, f) /\ j + 1 \in Feed(p, f)
    BY <1>1, <1>2
  <2>2. i + 1 < j + 1
    BY <1>1, <1>3
  <2>3. Hi(m[p[i + 1].val]) < Lo(m[p[j + 1].val])
    BY <2>1, <2>2 DEF Brings
  <2> QED BY <2>1, <2>3
<1>4. ASSUME NEW v \in (u + 1)..g
      PROVE  \E i \in Feed(t, f) : Lo(k[t[i].val]) <= v /\ v <= Hi(k[t[i].val])
  <2>1. PICK i \in Feed(p, f) : i # 1 /\ Lo(m[p[i].val]) <= v /\ v <= Hi(m[p[i].val])
    OBVIOUS
  <2>2. i - 1 \in Feed(t, f) /\ t[i - 1] = p[i] /\ k[p[i].val] = m[p[i].val]
    BY <1>1, <2>1
  <2>3. Lo(k[t[i - 1].val]) <= v /\ v <= Hi(k[t[i - 1].val])
    BY <2>1, <2>2
  <2> QED BY <2>2, <2>3
<1>5. Brings(t, k, f, c, u, g)
  BY <1>2, <1>3, <1>4 DEF Brings
<1> QED BY <1>5 DEF t

LEMMA BringsTailSame ==
    ASSUME NEW p \in Seq(Completion), p # <<>>, NEW m, NEW k, NEW f, NEW c, NEW n, NEW g,
           Brings(p, m, f, c, n, g), 1 \notin Feed(p, f),
           \A i \in Feed(p, f) : k[p[i].val] = m[p[i].val]
    PROVE  Brings(Tail(p), k, f, c, n, g)
<1>1. \A i \in Feed(p, f) : i # 1 => k[p[i].val] = m[p[i].val] /\ n < Lo(m[p[i].val])
  BY DEF Brings
<1>2. \A v \in (n + 1)..g : \E i \in Feed(p, f) :
         i # 1 /\ Lo(m[p[i].val]) <= v /\ v <= Hi(m[p[i].val])
  BY DEF Brings
<1> QED BY <1>1, <1>2, BringsTail

\* A connection keeps its account when its answers and its feed stay.
LEMMA ServesSame ==
    ASSUME NEW q, NEW p, NEW m, NEW q2, NEW p2, NEW m2, NEW f, NEW c, NEW b, NEW o, NEW g,
           ServesOne(q, p, m, f, c, b, o, g),
           Sends(q2, f) = Sends(q, f), \A i \in Sends(q, f) : q2[i] = q[i],
           \A n : Brings(p, m, f, c, n, g) => Brings(p2, m2, f, c, n, g)
    PROVE  ServesOne(q2, p2, m2, f, c, b, o, g)
<1>1. Continue(q, f, c, o)
  BY DEF ServesOne
<1>2. Continue(q2, f, c, o)
  BY <1>1 DEF Continue
<1>3. PICK n \in 0..g : /\ Brings(p, m, f, c, n, g) /\ Holds(b, c, n)
                        /\ Len(o) + Cardinality(Sends(q, f)) = Nth(c, n - Len(b))
  BY DEF ServesOne
<1>4. Brings(p2, m2, f, c, n, g)
  BY <1>3
<1> QED BY <1>2, <1>3, <1>4 DEF ServesOne

\* Requests that are no answers are pushed.
LEMMA SendsJoin ==
    ASSUME NEW q \in Seq(Sqes), NEW es \in Seq(Sqes), NEW f,
           \A i \in DOMAIN es : es[i].op = "send" => es[i].fd # f
    PROVE  Sends(q \o es, f) = Sends(q, f) /\ \A i \in Sends(q, f) : (q \o es)[i] = q[i]
<1>1. /\ \A i \in DOMAIN q : i \in DOMAIN (q \o es) /\ (q \o es)[i] = q[i]
      /\ \A i \in DOMAIN (q \o es) :
            i \in DOMAIN q \/ (i - Len(q) \in DOMAIN es /\ i = Len(q) + (i - Len(q))
                               /\ (q \o es)[i] = es[i - Len(q)])
  BY JoinOn
<1> DEFINE t == q \o es
<1> HIDE DEF t
<1>2. /\ \A i \in DOMAIN q : i \in DOMAIN t /\ t[i] = q[i]
      /\ \A i \in DOMAIN t : i \in DOMAIN q \/ (i - Len(q) \in DOMAIN es /\ t[i] = es[i - Len(q)])
  BY <1>1 DEF t
<1>3. Sends(t, f) = Sends(q, f) /\ \A i \in Sends(q, f) : t[i] = q[i]
  BY <1>2 DEF Sends
<1> QED BY <1>3 DEF t

\* A connection that is new: nothing was received from it or answered.
LEMMA ServesNew ==
    ASSUME NEW q, NEW p, NEW a, NEW cn, NEW ct, NEW ft, NEW fn, NEW dr, NEW m,
           Shaped(q, p, a, cn, ct, ft), Wired(q, p, a, cn, ct, ft, fn, dr), p # <<>>,
           NEW es \in Seq(Sqes), \A i \in DOMAIN es : es[i].op # "send",
           NEW f \in Fds, ~ cn[f].some, NEW c \in Clients
    PROVE  ServesOne(q \o es, Tail(p), m, f, c, <<>>, <<>>, 0)
<1>0. /\ q \in Seq(Sqes) /\ p \in Seq(Completion)
      /\ Pushed(q, cn, ct) /\ Completed(p, cn, ct, ft, fn, dr)
  BY DEF Shaped, Wired
<1>1. Sends(q, f) = {}
  BY <1>0 DEF Sends, Pushed, ForServed
<1>2. Sends(q \o es, f) = {}
  BY <1>0, <1>1, SendsJoin
<1>3. Feed(p, f) = {}
  BY <1>0 DEF Feed, Completed, ForServed
<1>4. Feed(Tail(p), f) = {}
  BY <1>0, <1>3, FeedTail
<1>5. Brings(Tail(p), m, f, c, 0, 0)
  BY <1>4 DEF Brings
<1>6. Holds(<<>>, c, 0)
  BY DEF Holds
<1>7. Nth(c, 0) = 0
  <2>1. {i \in Lasts(c) : i <= 0} = {}
    BY LastsFinite
  <2> QED BY <2>1, FS_EmptySet DEF Nth, Rank
<1>8. Cardinality(Sends(q \o es, f)) = 0
  BY <1>2, FS_EmptySet
<1>9. Continue(q \o es, f, c, <<>>)
  BY <1>2 DEF Continue
<1>10. Len(<<>>) = 0 /\ 0 - 0 = 0 /\ 0 + 0 = 0 /\ 0 \in 0..0
  OBVIOUS
<1> QED BY <1>5, <1>6, <1>7, <1>8, <1>9, <1>10 DEF ServesOne

\* A completion that brought no bytes was handled: the connections stay, or are
\* new and empty.
LEMMA HandledFlows ==
    ASSUME NEW q, NEW p, NEW a, NEW cn, NEW ct, NEW ft, NEW fn, NEW dr,
           NEW cn2, NEW es \in Seq(Sqes), NEW o, NEW m, NEW g, NEW s, NEW w,
           Shaped(q, p, a, cn, ct, ft), Wired(q, p, a, cn, ct, ft, fn, dr), p # <<>>,
           Flows(q, p, cn, o, m, ft, fn, g, s, w),
           ~ (Head(p).op = "recv" /\ Head(p).res = "ok"),
           \A i \in DOMAIN es : es[i].op # "send",
           \A f \in Fds : cn[f].some => cn2[f] = cn[f],
           \A f \in Fds : cn2[f].some /\ ~ cn[f].some => cn2[f].buf = <<>> /\ ft[f] \in Clients
    PROVE  Flows(q \o es, Tail(p), cn2, o, m, ft, fn, g, s, w)
<1>0. /\ q \in Seq(Sqes) /\ p \in Seq(Completion)
      /\ Serves(q, p, cn, o, m, ft, g) /\ InOrder(o) /\ Settled(o, fn, s) /\ Fresh(cn, o, ft, g, w)
  BY DEF Shaped, Flows
<1>1. \A f : 1 \notin Feed(p, f)
  <2>1. Head(p) = p[1]
    BY <1>0, HeadOff
  <2> QED BY <2>1 DEF Feed
<1>2. ASSUME NEW f \in Fds, cn2[f].some
      PROVE  ServesOne(q \o es, Tail(p), m, f, ft[f], cn2[f].buf, o[ft[f]], g[ft[f]])
  <2>1. CASE cn[f].some
    <3> DEFINE c == ft[f]
               b == cn[f].buf
               x == o[c]
               y == g[c]
    <3>1. ServesOne(q, p, m, f, c, b, x, y)
      BY <1>0, <2>1 DEF Serves
    <3>2. cn2[f] = cn[f]
      BY <2>1
    <3>3. Sends(q \o es, f) = Sends(q, f) /\ \A i \in Sends(q, f) : (q \o es)[i] = q[i]
      BY <1>0, SendsJoin
    <3> HIDE DEF c, b, x, y
    <3>4. \A n : Brings(p, m, f, c, n, y) => Brings(Tail(p), m, f, c, n, y)
      BY <1>0, <1>1, BringsTailSame
    <3>5. ServesOne(q \o es, Tail(p), m, f, c, b, x, y)
      BY <3>1, <3>3, <3>4, ServesSame
    <3> QED BY <3>2, <3>5 DEF c, b, x, y
  <2>2. CASE ~ cn[f].some
    <3>1. cn2[f].buf = <<>> /\ ft[f] \in Clients
      BY <1>2, <2>2
    <3>2. g[ft[f]] = 0 /\ o[ft[f]] = <<>>
      BY <1>0, <2>2, <3>1 DEF Fresh
    <3>3. ServesOne(q \o es, Tail(p), m, f, ft[f], <<>>, <<>>, 0)
      BY <2>2, <3>1, ServesNew
    <3> QED BY <3>1, <3>2, <3>3
  <2> QED BY <2>1, <2>2
<1>3. Fresh(cn2, o, ft, g, w)
  BY <1>0 DEF Fresh
<1> QED BY <1>0, <1>2, <1>3 DEF Flows, Serves

\* A completion that brings no bytes was posted: a descriptor may be new, of a
\* client that was waiting.
LEMMA PostedFlows ==
    ASSUME NEW q, NEW p \in Seq(Completion), NEW cn, NEW ft, NEW fn,
           NEW e \in Completion, NEW ft2, NEW o, NEW m, NEW g, NEW s, NEW w, NEW w2,
           Flows(q, p, cn, o, m, ft, fn, g, s, w),
           ~ (e.op = "recv" /\ e.res = "ok"), w2 \subseteq w,
           \A f \in Fds : cn[f].some => ft2[f] = ft[f],
           \A f \in Fds : ft2[f] = ft[f] \/ ft2[f] \notin Clients \/ ft2[f] \in w
    PROVE  Flows(q, Append(p, e), cn, o, m, ft2, fn, g, s, w2)
<1>0. /\ Serves(q, p, cn, o, m, ft, g) /\ InOrder(o) /\ Settled(o, fn, s) /\ Fresh(cn, o, ft, g, w)
  BY DEF Flows
<1> DEFINE t == Append(p, e)
<1>1. /\ \A i \in DOMAIN p : i \in DOMAIN t /\ t[i] = p[i]
      /\ \A i \in DOMAIN t : i \in DOMAIN p \/ t[i] = e
  BY EndOn
<1> HIDE DEF t
<1>2. \A f : Feed(t, f) = Feed(p, f) /\ \A i \in Feed(p, f) : t[i] = p[i]
  BY <1>1 DEF Feed
<1>3. \A f, c, n, x : Brings(p, m, f, c, n, x) => Brings(t, m, f, c, n, x)
  BY <1>2 DEF Brings
<1>4. ASSUME NEW f \in Fds, cn[f].some
      PROVE  ServesOne(q, t, m, f, ft2[f], cn[f].buf, o[ft2[f]], g[ft2[f]])
  <2> DEFINE c == ft[f]
             b == cn[f].buf
             x == o[c]
             y == g[c]
  <2>1. ServesOne(q, p, m, f, c, b, x, y)
    BY <1>0, <1>4 DEF Serves
  <2>2. ft2[f] = ft[f]
    BY <1>4
  <2> HIDE DEF c, b, x, y
  <2>3. ServesOne(q, t, m, f, c, b, x, y)
    BY <1>3, <2>1, ServesSame
  <2> QED BY <2>2, <2>3 DEF c, b, x, y
<1>5. Fresh(cn, o, ft2, g, w2)
  BY <1>0 DEF Fresh
<1>6. Flows(q, t, cn, o, m, ft2, fn, g, s, w2)
  BY <1>0, <1>4, <1>5 DEF Flows, Serves
<1> QED BY <1>6 DEF t

\* A descriptor was closed when the completion at the head was handled.
LEMMA ClosedFlows ==
    ASSUME NEW q, NEW p \in Seq(Completion), p # <<>>, NEW cn, NEW ft, NEW fn,
           NEW cn2, NEW ft2, NEW f, NEW o, NEW m, NEW g, NEW s, NEW w,
           Flows(q, p, cn, o, m, ft, fn, g, s, w),
           ~ (Head(p).op = "recv" /\ Head(p).res = "ok"),
           ~ cn2[f].some, ft2[f] = None,
           \A h \in Fds : h # f => cn2[h] = cn[h] /\ ft2[h] = ft[h]
    PROVE  Flows(q, Tail(p), cn2, o, m, ft2, fn, g, s, w)
<1>0. /\ Serves(q, p, cn, o, m, ft, g) /\ InOrder(o) /\ Settled(o, fn, s) /\ Fresh(cn, o, ft, g, w)
  BY DEF Flows
<1>1. \A h : 1 \notin Feed(p, h)
  <2>1. Head(p) = p[1]
    BY HeadOff
  <2> QED BY <2>1 DEF Feed
<1>2. ASSUME NEW h \in Fds, cn2[h].some
      PROVE  ServesOne(q, Tail(p), m, h, ft2[h], cn2[h].buf, o[ft2[h]], g[ft2[h]])
  <2>0. h # f /\ cn2[h] = cn[h] /\ ft2[h] = ft[h]
    BY <1>2
  <2> DEFINE c == ft[h]
             b == cn[h].buf
             x == o[c]
             y == g[c]
  <2>1. ServesOne(q, p, m, h, c, b, x, y)
    BY <1>0, <1>2, <2>0 DEF Serves
  <2> HIDE DEF c, b, x, y
  <2>2. \A n : Brings(p, m, h, c, n, y) => Brings(Tail(p), m, h, c, n, y)
    BY <1>1, BringsTailSame
  <2>3. ServesOne(q, Tail(p), m, h, c, b, x, y)
    BY <2>1, <2>2, ServesSame
  <2> QED BY <2>0, <2>3 DEF c, b, x, y
<1>3. Fresh(cn2, o, ft2, g, w)
  <2>1. \A c \in Clients : c # None
    BY UringAssumption DEF Files
  <2> QED BY <1>0, <2>1 DEF Fresh
<1> QED BY <1>0, <1>2, <1>3 DEF Flows, Serves

\* The clients sent more, or left with all their answers.
LEMMA FlowsMore ==
    ASSUME NEW q, NEW p, NEW cn, NEW ft, NEW fn, NEW o, NEW m, NEW g, NEW s, NEW w,
           NEW fn2, NEW s2, NEW w2,
           Flows(q, p, cn, o, m, ft, fn, g, s, w), w2 \subseteq w,
           o \in [Clients -> Seq(Units)], s \in [Clients -> Nat], s2 \in [Clients -> Nat],
           \A c \in Clients : s[c] <= s2[c] /\ (c \in fn => s2[c] = s[c]),
           \A c \in fn2 : c \notin fn => s2[c] = s[c] /\ Nth(c, s[c]) <= Len(o[c])
    PROVE  Flows(q, p, cn, o, m, ft, fn2, g, s2, w2)
<1>0. /\ Serves(q, p, cn, o, m, ft, g) /\ InOrder(o) /\ Settled(o, fn, s) /\ Fresh(cn, o, ft, g, w)
  BY DEF Flows
<1>1. ASSUME NEW c \in Clients
      PROVE  Len(o[c]) <= Nth(c, s2[c]) /\ (c \in fn2 => Len(o[c]) = Nth(c, s2[c]))
  <2>1. s[c] \in Nat /\ s2[c] \in Nat /\ s[c] <= s2[c]
    OBVIOUS
  <2>2. Lasts(c) \in SUBSET Nat /\ IsFiniteSet(Lasts(c))
    BY LastsFinite
  <2>3. Nth(c, s[c]) <= Nth(c, s2[c]) /\ Nth(c, s[c]) \in Nat /\ Nth(c, s2[c]) \in Nat
    BY <2>1, <2>2, RankMono, RankNat DEF Nth
  <2>4. Len(o[c]) \in Nat
    BY LenProperties
  <2>5. Len(o[c]) <= Nth(c, s[c]) /\ (c \in fn => Len(o[c]) = Nth(c, s[c]))
    BY <1>0 DEF Settled
  <2> DEFINE x == Nth(c, s[c])
             y == Nth(c, s2[c])
             n == Len(o[c])
  <2>6. /\ x \in Nat /\ y \in Nat /\ n \in Nat /\ x <= y /\ n <= x
        /\ c \in fn => n = x /\ y = x
        /\ c \in fn2 /\ c \notin fn => y = x /\ x <= n
    BY <2>3, <2>4, <2>5
  <2> HIDE DEF x, y, n
  <2>7. n <= y /\ (c \in fn2 => n = y)
    BY <2>6
  <2> QED BY <2>7 DEF n, y
<1>2. Settled(o, fn2, s2)
  BY <1>1 DEF Settled
<1>3. Fresh(cn, o, ft, g, w2)
  BY <1>0 DEF Fresh
<1> QED BY <1>0, <1>2, <1>3 DEF Flows

LEMMA StretchHi ==
    ASSUME NEW b \in Seq(Units), NEW c, Stretch(b, c)
    PROVE  /\ Lo(b) \in Nat /\ Len(b) \in Nat \ {0} /\ Hi(b) = Lo(b) + Len(b) - 1
           /\ Hi(b) \in Nat /\ Lo(b) <= Hi(b)
<1>1. Len(b) \in Nat /\ DOMAIN b = 1..Len(b) /\ Len(b) # 0
  BY LenProperties, EmptySeq DEF Stretch
<1>2. Lo(b) \in Nat /\ Len(b) \in DOMAIN b
  BY <1>1 DEF Stretch
<1>3. b[Len(b)] = <<c, Lo(b) + Len(b) - 1>>
  BY <1>2 DEF Stretch
<1>4. Hi(b) = Lo(b) + Len(b) - 1
  BY <1>3 DEF Hi
<1> QED BY <1>1, <1>2, <1>4

\* The kernel filled b with ch for c, that has f, and posted e.
Receiving(p, cn, ft, e, f, c, b, ch, m, m2, g, g2, w) ==
    /\ p \in Seq(Completion) /\ e \in Completion /\ f \in Fds /\ c \in Clients /\ b \in Bids
    /\ ch \in Seq(Units) /\ e.op = "recv" /\ e.res = "ok" /\ e.fd = f /\ e.val = b
    /\ cn[f].some /\ ft[f] = c
    /\ \A h \in Fds : (cn[h].some => ft[h] \in Clients) /\ (ft[h] = c => h = f)
    /\ c \notin w /\ m \in [Bids -> Seq(Units)]
    /\ m2[b] = ch /\ \A x \in Bids : x # b => m2[x] = m[x]
    /\ g \in [Clients -> Nat] /\ g2[c] = g[c] + Len(ch)
    /\ \A d \in Clients : d # c => g2[d] = g[d]
    /\ Len(ch) \in Nat \ {0} /\ \A i \in 1..Len(ch) : ch[i] = <<c, g[c] + i>>
    /\ \A i \in DOMAIN p : p[i].op = "recv" /\ p[i].res = "ok" => p[i].val \in Bids /\ p[i].val # b

\* Bytes of a client that is served were received.
LEMMA ReceivedFlows ==
    ASSUME NEW q, NEW p, NEW cn, NEW ft, NEW fn, NEW e, NEW f, NEW c, NEW b, NEW ch,
           NEW o, NEW m, NEW m2, NEW g, NEW g2, NEW s, NEW w,
           Flows(q, p, cn, o, m, ft, fn, g, s, w),
           Receiving(p, cn, ft, e, f, c, b, ch, m, m2, g, g2, w)
    PROVE  Flows(q, Append(p, e), cn, o, m2, ft, fn, g2, s, w)
<1> USE DEF Receiving
<1>0. /\ Serves(q, p, cn, o, m, ft, g) /\ InOrder(o) /\ Settled(o, fn, s) /\ Fresh(cn, o, ft, g, w)
  BY DEF Flows
<1> DEFINE t == Append(p, e)
           n == Len(p) + 1
<1>1. /\ n \in Nat /\ DOMAIN p = 1..Len(p) /\ DOMAIN t = 1..n /\ Len(p) \in Nat
      /\ \A i \in DOMAIN p : i \in DOMAIN t /\ t[i] = p[i]
      /\ t[n] = e /\ n \in DOMAIN t
      /\ \A i \in DOMAIN t : i \in DOMAIN p \/ i = n
  <2>2. /\ t \in Seq(Completion) /\ Len(p) \in Nat
        /\ DOMAIN p = 1..Len(p) /\ DOMAIN t = 1..n
        /\ \A i \in DOMAIN p : i \in DOMAIN t /\ t[i] = p[i]
        /\ t[n] = e
        /\ \A i \in DOMAIN t : i \in DOMAIN p \/ i = n
    BY EndOn
  <2>3. n \in Nat /\ n \in 1..n
    BY <2>2
  <2> HIDE DEF t, n
  <2> QED BY <2>2, <2>3
<1> HIDE DEF t, n
<1>2. /\ \A h \in Fds : h # f => Feed(t, h) = Feed(p, h)
      /\ Feed(t, f) = Feed(p, f) \cup {n}
      /\ \A h : \A i \in Feed(p, h) : t[i] = p[i] /\ m2[t[i].val] = m[p[i].val] /\ p[i].val \in Bids
  <2>1. \A h : \A i \in Feed(p, h) : t[i] = p[i] /\ p[i].val \in Bids /\ p[i].val # b
    BY <1>1 DEF Feed
  <2>2. \A h : \A i \in Feed(p, h) : m2[t[i].val] = m[p[i].val]
    BY <2>1
  <2>3. \A h \in Fds : h # f => Feed(t, h) = Feed(p, h)
    BY <1>1 DEF Feed
  <2>4. Feed(t, f) = Feed(p, f) \cup {n}
    BY <1>1 DEF Feed
  <2> QED BY <2>1, <2>2, <2>3, <2>4
<1>3. ASSUME NEW h \in Fds, cn[h].some, h # f
      PROVE  ServesOne(q, t, m2, h, ft[h], cn[h].buf, o[ft[h]], g2[ft[h]])
  <2> DEFINE d == ft[h]
             v == cn[h].buf
             x == o[d]
             y == g[d]
  <2>1. ServesOne(q, p, m, h, d, v, x, y)
    BY <1>0, <1>3 DEF Serves
  <2>2. g2[d] = y
    <3>1. d \in Clients /\ d # c
      BY <1>3
    <3> QED BY <3>1
  <2> HIDE DEF d, v, x, y
  <2>3. \A k : Brings(p, m, h, d, k, y) => Brings(t, m2, h, d, k, y)
    BY <1>2, <1>3 DEF Brings
  <2>4. ServesOne(q, t, m2, h, d, v, x, y)
    BY <2>1, <2>3, ServesSame
  <2> QED BY <2>2, <2>4 DEF d, v, x, y
<1>4. Lo(ch) = g[c] + 1 /\ Stretch(ch, c) /\ Hi(ch) = g[c] + Len(ch) /\ g[c] \in Nat
  <2>1. g[c] \in Nat /\ DOMAIN ch = 1..Len(ch) /\ ch # <<>>
    BY LenProperties, EmptySeq
  <2>2. 1 \in 1..Len(ch)
    OBVIOUS
  <2>3. Lo(ch) = g[c] + 1
    BY <2>2 DEF Lo
  <2> DEFINE y == g[c]
  <2>4. y \in Nat
    BY <2>1
  <2> HIDE DEF y
  <2>5. \A k \in 1..Len(ch) : (y + 1) + k - 1 = y + k
    BY <2>4
  <2>6. \A k \in 1..Len(ch) : ch[k] = <<c, Lo(ch) + k - 1>>
    BY <2>3, <2>5 DEF y
  <2>7. Stretch(ch, c)
    BY <2>1, <2>3, <2>4, <2>6 DEF Stretch, y
  <2>8. Hi(ch) = Lo(ch) + Len(ch) - 1
    BY <2>7, StretchHi
  <2>9. Hi(ch) = y + Len(ch)
    BY <2>3, <2>4, <2>8 DEF y
  <2> QED BY <2>1, <2>3, <2>7, <2>9 DEF y
<1>5. ServesOne(q, t, m2, f, c, cn[f].buf, o[c], g2[c])
  <2> DEFINE v == cn[f].buf
             x == o[c]
             y == g[c]
             z == g2[c]
             l == Len(ch)
  <2>1. ServesOne(q, p, m, f, c, v, x, y)
    BY <1>0 DEF Serves
  <2>2. y \in Nat /\ l \in Nat \ {0} /\ z = y + l /\ Lo(ch) = y + 1 /\ Hi(ch) = y + l
    BY <1>4
  <2>9. m2[b] = ch
    OBVIOUS
  <2> HIDE DEF v, x, y, z, l
  <2>3. Continue(q, f, c, x)
    BY <2>1 DEF ServesOne
  <2>4. PICK k \in 0..y : /\ Brings(p, m, f, c, k, y) /\ Holds(v, c, k)
                          /\ Len(x) + Cardinality(Sends(q, f)) = Nth(c, k - Len(v))
    BY <2>1 DEF ServesOne
  <2>5. \A i \in Feed(p, f) : /\ Stretch(m2[t[i].val], c) /\ k < Lo(m2[t[i].val])
                              /\ Hi(m2[t[i].val]) <= y /\ Hi(m2[t[i].val]) \in Nat
    <3> SUFFICES ASSUME NEW i \in Feed(p, f)
                 PROVE  /\ Stretch(m2[t[i].val], c) /\ k < Lo(m2[t[i].val])
                        /\ Hi(m2[t[i].val]) <= y /\ Hi(m2[t[i].val]) \in Nat
      OBVIOUS
    <3>1. m2[t[i].val] = m[p[i].val] /\ m[p[i].val] \in Seq(Units)
      BY <1>2
    <3>2. Stretch(m[p[i].val], c) /\ k < Lo(m[p[i].val]) /\ Hi(m[p[i].val]) <= y
      BY <2>4 DEF Brings
    <3> QED BY <3>1, <3>2, StretchHi
  <2>6. t[n].val = b
    BY <1>1
  <2>7. Brings(t, m2, f, c, k, z)
    <3>1. ASSUME NEW i \in Feed(t, f)
          PROVE  Stretch(m2[t[i].val], c) /\ k < Lo(m2[t[i].val]) /\ Hi(m2[t[i].val]) <= z
      <4>1. CASE i \in Feed(p, f)
        BY <2>2, <2>5, <4>1
      <4>2. CASE i = n
        BY <1>4, <2>2, <2>4, <2>6, <2>9, <4>2
      <4> QED BY <1>2, <4>1, <4>2
    <3>2. ASSUME NEW i \in Feed(t, f), NEW j \in Feed(t, f), i < j
          PROVE  Hi(m2[t[i].val]) < Lo(m2[t[j].val])
      <4>1. i \in Feed(p, f)
        <5>1. j \in DOMAIN t /\ i \in DOMAIN t
          BY DEF Feed
        <5>2. i # n
          BY <1>1, <3>2, <5>1
        <5> QED BY <1>2, <5>2
      <4>2. CASE j \in Feed(p, f)
        <5>1. Hi(m[p[i].val]) < Lo(m[p[j].val])
          BY <2>4, <3>2, <4>1, <4>2 DEF Brings
        <5> QED BY <1>2, <4>1, <4>2, <5>1
      <4>3. CASE j = n
        BY <2>2, <2>5, <2>6, <2>9, <4>1, <4>3
      <4> QED BY <1>2, <4>2, <4>3
    <3>3. ASSUME NEW u \in (k + 1)..z
          PROVE  \E i \in Feed(t, f) : Lo(m2[t[i].val]) <= u /\ u <= Hi(m2[t[i].val])
      <4>1. CASE u \in (k + 1)..y
        <5>1. PICK i \in Feed(p, f) : Lo(m[p[i].val]) <= u /\ u <= Hi(m[p[i].val])
          BY <2>4, <4>1 DEF Brings
        <5> QED BY <1>2, <5>1
      <4>2. CASE u \notin (k + 1)..y
        <5>0. u \in Int /\ k \in Int /\ k + 1 <= u /\ u <= z /\ z \in Int
          BY <2>2
        <5>2. y + 1 <= u
          BY <2>2, <4>2, <5>0
        <5>3. Lo(ch) = y + 1 /\ Hi(ch) = z
          BY <2>2
        <5>1. Lo(ch) <= u /\ u <= Hi(ch)
          BY <5>0, <5>2, <5>3
        <5>4. n \in Feed(t, f) /\ m2[t[n].val] = ch
          BY <1>2, <2>6, <2>9
        <5> QED BY <5>1, <5>4
      <4> QED BY <4>1, <4>2
    <3> QED BY <3>1, <3>2, <3>3 DEF Brings
  <2>8. k \in 0..z
    BY <2>2, <2>4
  <2>10. ServesOne(q, t, m2, f, c, v, x, z)
    BY <2>3, <2>4, <2>7, <2>8 DEF ServesOne
  <2> QED BY <2>10 DEF v, x, z
<1>6. Serves(q, t, cn, o, m2, ft, g2)
  BY <1>3, <1>5 DEF Serves
<1>7. Fresh(cn, o, ft, g2, w)
  <2> SUFFICES ASSUME NEW d \in Clients, g2[d] # 0 \/ o[d] # <<>>
               PROVE  d \notin w /\ \A h \in Fds : ft[h] = d => cn[h].some
    BY DEF Fresh
  <2>1. CASE d = c
    BY <2>1
  <2>2. CASE d # c
    BY <1>0, <2>2 DEF Fresh
  <2> QED BY <2>1, <2>2
<1>8. Flows(q, t, cn, o, m2, ft, fn, g2, s, w)
  BY <1>0, <1>6, <1>7 DEF Flows
<1> QED BY <1>8 DEF t

\* The requests in a buffer that are answered, and what comes to a buffer.
Answered(b)     == {i \in Ends(b) : i <= Consumed(b)}
Joined(B, b, h) == B = b \o h

\* The requests that end in a stretch of a client's stream.
LEMMA AnsweredRanks ==
    ASSUME NEW c \in Clients, NEW B \in Seq(Units), NEW base \in Nat,
           \A k \in DOMAIN B : B[k] = <<c, base + k>>,
           base + Len(B) <= Len(Stream[c]), Bads(B) = {}
    PROVE  /\ Answered(B) \in SUBSET Nat /\ IsFiniteSet(Answered(B)) /\ Consumed(B) \in 0..Len(B)
           /\ Answered(B) \subseteq DOMAIN B
           /\ \A i \in Answered(B) :
                 base + i \in Lasts(c) /\ Nth(c, base + i) = Nth(c, base) + Rank(i, Answered(B))
           /\ Nth(c, base) \in Nat /\ Cardinality(Answered(B)) \in Nat
           /\ Nth(c, base + Consumed(B)) = Nth(c, base) + Cardinality(Answered(B))
           /\ \A k \in DOMAIN B : k > Consumed(B) => ~ Stream[c][base + k].last
<1> DEFINE L == Lasts(c)
           A == Above(base, L)
           n == Consumed(B)
           I == Answered(B)
<1>1. Len(B) \in Nat /\ DOMAIN B = 1..Len(B)
  BY LenProperties
<1>2. n \in 0..Len(B) /\ \A i \in Ends(B) : i <= n
  BY ConsumedInside
<1>3. Len(Stream[c]) \in Nat /\ DOMAIN Stream[c] = 1..Len(Stream[c])
  BY StreamLen
<1>4. \A k \in DOMAIN B : UnitOf(B[k]) = Stream[c][base + k]
  <2>1. \A k \in DOMAIN B : B[k][1] = c /\ B[k][2] = base + k
    OBVIOUS
  <2> QED BY <2>1 DEF UnitOf
<1>5. \A k \in DOMAIN B : k \in Ends(B) <=> base + k \in L
  <2> SUFFICES ASSUME NEW k \in DOMAIN B PROVE k \in Ends(B) <=> base + k \in L
    OBVIOUS
  <2>1. base + k \in DOMAIN Stream[c]
    <3> DEFINE x == Len(Stream[c])
               y == Len(B)
    <3>1. x \in Nat /\ y \in Nat /\ base + y <= x /\ k \in 1..y /\ DOMAIN Stream[c] = 1..x
      BY <1>1, <1>3
    <3> HIDE DEF x, y
    <3> QED BY <3>1
  <2>2. k \in Ends(B) <=> Stream[c][base + k].last
    BY <1>4 DEF Ends
  <2> QED BY <2>1, <2>2 DEF Lasts
<1>6. L \in SUBSET Nat /\ IsFiniteSet(L)
  BY LastsFinite
<1> HIDE DEF n, L
<1>i. I = {i \in Ends(B) : i <= n}
  BY DEF n, Answered
<1> HIDE DEF I
<1>7. I = {i \in A : i <= n}
  <2>1. ASSUME NEW i \in I PROVE i \in A /\ i <= n
    <3>1. i \in DOMAIN B /\ i <= n
      BY <1>i DEF Ends
    <3>2. base + i \in L /\ i \in Nat \ {0} /\ i + base = base + i
      BY <1>1, <1>5, <1>i, <3>1
    <3> QED BY <3>1, <3>2 DEF Above
  <2>2. ASSUME NEW i \in A, i <= n PROVE i \in I
    <3>1. i \in Nat \ {0} /\ i + base \in L
      BY DEF Above
    <3>2. i \in DOMAIN B /\ i + base = base + i
      BY <1>1, <1>2, <2>2, <3>1
    <3> QED BY <1>5, <1>i, <2>2, <3>1, <3>2
  <2> QED BY <2>1, <2>2
<1>8. /\ A \in SUBSET Nat /\ IsFiniteSet(A)
      /\ \A k \in Nat : Rank(base + k, L) = Rank(base, L) + Rank(k, A)
  BY <1>6, RankSplit
<1> HIDE DEF A
<1>9. n \in Nat
  BY <1>1, <1>2
<1>10. IsFiniteSet({i \in A : i <= n}) /\ Rank(n, A) \in Nat
  BY <1>8, <1>9, RankNat
<1>11. I \in SUBSET Nat /\ IsFiniteSet(I) /\ Cardinality(I) = Rank(n, A) /\ Cardinality(I) \in Nat
  BY <1>7, <1>8, <1>10 DEF Rank
<1>12. I \subseteq DOMAIN B
  BY <1>i DEF Ends
<1>13. Rank(base, L) \in Nat
  BY <1>6, RankNat
<1>14. ASSUME NEW i \in I PROVE base + i \in L /\ Rank(base + i, L) = Rank(base, L) + Rank(i, I)
  <2>1. i \in Nat /\ i <= n /\ i \in DOMAIN B
    BY <1>7, <1>11, <1>12
  <2>2. base + i \in L
    BY <1>5, <1>i, <2>1
  <2>3. Rank(i, I) = Rank(i, A)
    <3>1. Rank(i, {j \in A : j <= n}) = Rank(i, A)
      BY <1>8, <1>9, <2>1, RankBelow
    <3> QED BY <1>7, <3>1
  <2> QED BY <1>8, <2>1, <2>2, <2>3
<1>15. Rank(base + n, L) = Rank(base, L) + Cardinality(I)
  BY <1>8, <1>9, <1>11
<1>16. ASSUME NEW k \in DOMAIN B, k > n PROVE ~ Stream[c][base + k].last
  <2>1. k \notin Ends(B)
    BY <1>1, <1>2, <1>9, <1>16 DEF n
  <2> QED BY <1>4, <2>1 DEF Ends
<1> QED BY <1>2, <1>11, <1>12, <1>13, <1>14, <1>15, <1>16 DEF n, L, I, Nth

\* Answers A were pushed at the end of q, which became x.
MoreSends(q, x, A, f) ==
    /\ Cardinality(Sends(x, f)) = Cardinality(Sends(q, f)) + Len(A)
    /\ Len(A) \in Nat /\ Len(q) \in Nat
    /\ \A i \in Sends(q, f) : x[i] = q[i] /\ Rank(i, Sends(x, f)) = Rank(i, Sends(q, f))
    /\ \A k \in 1..Len(A) : /\ x[Len(q) + k] = A[k]
                            /\ Rank(Len(q) + k, Sends(x, f)) = Cardinality(Sends(q, f)) + k
    /\ \A i \in Sends(x, f) :
          i \in Sends(q, f) \/ (i - Len(q) \in 1..Len(A) /\ i = Len(q) + (i - Len(q)))

LEMMA SendsMore ==
    ASSUME NEW q \in Seq(Sqes), NEW A \in Seq(Sqes), NEW r \in Seq(Sqes), NEW f,
           \A i \in DOMAIN A : A[i].op = "send" /\ A[i].fd = f,
           \A i \in DOMAIN r : r[i].op # "send"
    PROVE  MoreSends(q, q \o (A \o r), A, f)
<1> DEFINE t == A \o r
           x == q \o t
           n == Len(q)
           l == Len(A)
           S == Sends(q, f)
           T == Sends(x, f)
<1>1. /\ t \in Seq(Sqes) /\ l \in Nat /\ DOMAIN A = 1..l
      /\ \A i \in DOMAIN A : i \in DOMAIN t /\ t[i] = A[i]
      /\ \A i \in DOMAIN t : i \in DOMAIN A \/ (i - l \in DOMAIN r /\ t[i] = r[i - l])
  BY JoinOn
<1>2. x \in Seq(Sqes)
  BY <1>1, JoinOn
<1>3. DOMAIN t \subseteq Nat \ {0}
  BY <1>1, LenProperties
<1> HIDE DEF t
<1>4. /\ n \in Nat /\ DOMAIN q = 1..n
      /\ \A i \in DOMAIN q : i \in DOMAIN x /\ x[i] = q[i]
      /\ \A i \in DOMAIN t : n + i \in DOMAIN x /\ x[n + i] = t[i]
      /\ \A i \in DOMAIN x : i \in DOMAIN q \/ (i - n \in DOMAIN t /\ i = n + (i - n) /\ x[i] = t[i - n])
  BY <1>1, JoinOn
<1>5. S \in SUBSET Nat /\ IsFiniteSet(S) /\ Cardinality(S) \in Nat
  BY SendsFinite
<1>6. T \in SUBSET Nat /\ IsFiniteSet(T)
  BY <1>2, SendsFinite
<1> HIDE DEF x, n, l
<1>7. \A i \in DOMAIN t : (t[i].op = "send" /\ t[i].fd = f) <=> i \in 1..l
  BY <1>1
<1>8. S = {i \in T : i <= n}
  <2>1. ASSUME NEW i \in S PROVE i \in T /\ i <= n
    BY <1>4 DEF Sends
  <2>2. ASSUME NEW i \in T, i <= n PROVE i \in S
    <3>1. i \in DOMAIN x /\ x[i].op = "send" /\ x[i].fd = f
      BY DEF Sends
    <3>2. i \in DOMAIN q
      <4> SUFFICES ASSUME i \notin DOMAIN q PROVE FALSE
        OBVIOUS
      <4>1. i - n \in Nat \ {0} /\ i \in Nat
        BY <1>3, <1>4, <1>6, <3>1
      <4> QED BY <1>4, <2>2, <4>1
    <3> QED BY <1>4, <3>1, <3>2 DEF Sends
  <2> QED BY <2>1, <2>2
<1>9. Above(n, T) = 1..l
  <2>1. ASSUME NEW i \in Above(n, T) PROVE i \in 1..l
    <3>1. i \in Nat \ {0} /\ i + n \in T
      BY DEF Above
    <3>2. i + n \in DOMAIN x /\ x[i + n].op = "send" /\ x[i + n].fd = f
      BY <3>1 DEF Sends
    <3>3. i + n \notin DOMAIN q /\ (i + n) - n = i
      BY <1>4, <3>1
    <3>4. i \in DOMAIN t /\ x[i + n] = t[i]
      BY <1>4, <3>2, <3>3
    <3> QED BY <1>7, <3>2, <3>4
  <2>2. ASSUME NEW i \in 1..l PROVE i \in Above(n, T)
    <3>1. i \in DOMAIN t /\ t[i].op = "send" /\ t[i].fd = f /\ i \in Nat \ {0}
      BY <1>1, <1>7
    <3>2. n + i \in DOMAIN x /\ x[n + i] = t[i] /\ n + i = i + n
      BY <1>4, <3>1
    <3>3. i + n \in T
      BY <3>1, <3>2 DEF Sends
    <3> QED BY <3>1, <3>3 DEF Above
  <2> QED BY <2>1, <2>2
<1> HIDE DEF S, T
<1>10. /\ Cardinality(T) = Rank(n, T) + Cardinality(Above(n, T))
       /\ \A k \in Nat : Rank(n + k, T) = Rank(n, T) + Rank(k, Above(n, T))
  BY <1>4, <1>6, RankSplit
<1>11. Rank(n, T) = Cardinality(S)
  BY <1>8 DEF Rank
<1>12. ASSUME NEW k \in 0..l PROVE Cardinality(1..k) = k
  <2>1. k \in Int /\ 1 \in Int /\ 0 <= k
    BY <1>1
  <2>2. Cardinality(1..k) = IF 1 > k THEN 0 ELSE k - 1 + 1
    BY <2>1, FS_Interval
  <2> QED BY <2>1, <2>2
<1>13. \A k \in 1..l : Rank(k, 1..l) = k /\ k \in Nat
  <2> SUFFICES ASSUME NEW k \in 1..l PROVE Rank(k, 1..l) = k /\ k \in Nat
    OBVIOUS
  <2>1. {j \in 1..l : j <= k} = 1..k /\ k \in 0..l /\ k \in Nat
    BY <1>1
  <2> QED BY <1>12, <2>1 DEF Rank
<1>14. Cardinality(T) = Cardinality(S) + l
  <2>1. l \in 0..l
    BY <1>1
  <2> QED BY <1>9, <1>10, <1>11, <1>12, <2>1
<1>15. ASSUME NEW i \in S PROVE x[i] = q[i] /\ Rank(i, T) = Rank(i, S)
  <2>1. x[i] = q[i] /\ i \in Nat /\ i <= n
    BY <1>4, <1>5 DEF S, Sends
  <2>2. Rank(i, {j \in T : j <= n}) = Rank(i, T)
    BY <1>4, <1>6, <2>1, RankBelow
  <2> QED BY <1>8, <2>1, <2>2
<1>16. ASSUME NEW k \in 1..l PROVE x[n + k] = A[k] /\ Rank(n + k, T) = Cardinality(S) + k
  <2>1. k \in DOMAIN t /\ t[k] = A[k]
    BY <1>1
  <2>2. x[n + k] = t[k]
    BY <1>4, <2>1
  <2> QED BY <1>9, <1>10, <1>11, <1>13, <2>1, <2>2
<1>17. ASSUME NEW i \in T PROVE i \in S \/ (i - n \in 1..l /\ i = n + (i - n))
  <2>1. i \in Nat
    BY <1>6
  <2>2. CASE i <= n
    BY <1>8, <2>2
  <2>3. CASE ~ (i <= n)
    <3>1. i - n \in Nat \ {0} /\ (i - n) + n = i /\ i = n + (i - n)
      BY <1>4, <2>1, <2>3
    <3>2. i - n \in Above(n, T)
      BY <3>1 DEF Above
    <3> QED BY <1>9, <3>1, <3>2
  <2> QED BY <2>2, <2>3
<1> QED BY <1>1, <1>4, <1>14, <1>15, <1>16, <1>17 DEF t, x, n, l, S, T, MoreSends

\* B is the stretch of c's stream after base, up to where the rest of the feed
\* goes on.
FirstFed(p, m, f, c, base, y, B) ==
    /\ base \in Nat /\ B \in Seq(Units)
    /\ \A j \in DOMAIN B : B[j] = <<c, base + j>>
    /\ base + Len(B) \in 0..y
    /\ \A i \in Feed(p, f) : i # 1 =>
          base + Len(B) < Lo(m[p[i].val]) /\ m[p[i].val] \in Seq(Units)
    /\ \A u \in (base + Len(B) + 1)..y : \E i \in Feed(p, f) :
          i # 1 /\ Lo(m[p[i].val]) <= u /\ u <= Hi(m[p[i].val])

\* The chunk at the head of the feed goes on where the buffer ends.
LEMMA FirstChunk ==
    ASSUME NEW p \in Seq(Completion), p # <<>>, NEW f, NEW c, NEW v \in Seq(Units),
           NEW m \in [Bids -> Seq(Units)], NEW y \in Nat, NEW n \in 0..y,
           Head(p).op = "recv", Head(p).res = "ok", Head(p).fd = f, Head(p).val \in Bids,
           \A i \in Feed(p, f) : p[i].val \in Bids,
           Brings(p, m, f, c, n, y), Holds(v, c, n), NEW B, Joined(B, v, m[Head(p).val])
    PROVE  FirstFed(p, m, f, c, n - Len(v), y, B)
<1> DEFINE h == m[Head(p).val]
           a == Len(v)
           l == Len(h)
           z == (n - a) + Len(B)
<1>1. Head(p) = p[1] /\ 1 \in DOMAIN p /\ DOMAIN p \subseteq Nat
  BY HeadOff
<1>2. 1 \in Feed(p, f) /\ m[p[1].val] = h
  BY <1>1 DEF Feed
<1>3. \A i \in Feed(p, f) : i \in Nat /\ i \in DOMAIN p /\ m[p[i].val] \in Seq(Units)
  BY <1>1 DEF Feed
<1>4. \A i \in Feed(p, f) : i # 1 => 1 < i
  <2>1. \A i \in DOMAIN p : i # 0
    BY LenProperties
  <2> QED BY <1>3, <2>1
<1>5. h \in Seq(Units)
  OBVIOUS
<1>6. /\ a \in Nat /\ a <= n /\ n \in Nat /\ n <= y
      /\ DOMAIN v = 1..a /\ \A j \in 1..a : v[j] = <<c, n - a + j>>
  BY LenProperties DEF Holds
<1>b. B = v \o h
  BY DEF Joined
<1> HIDE DEF h
<1>7. Stretch(h, c) /\ n < Lo(h) /\ Hi(h) <= y
  BY <1>2 DEF Brings
<1>8. /\ Lo(h) \in Nat /\ l \in Nat \ {0} /\ Hi(h) = Lo(h) + l - 1 /\ Hi(h) \in Nat /\ Lo(h) <= Hi(h)
      /\ DOMAIN h = 1..l /\ \A j \in 1..l : h[j] = <<c, Lo(h) + j - 1>>
  <2>1. DOMAIN h = 1..l
    BY <1>5, LenProperties
  <2> QED BY <1>5, <1>7, <2>1, StretchHi DEF Stretch
<1>9. \A i \in Feed(p, f) : i # 1 =>
         Hi(h) < Lo(m[p[i].val]) /\ Lo(m[p[i].val]) \in Nat /\ Hi(m[p[i].val]) \in Nat
  <2> SUFFICES ASSUME NEW i \in Feed(p, f), i # 1
               PROVE  Hi(h) < Lo(m[p[i].val]) /\ Lo(m[p[i].val]) \in Nat /\ Hi(m[p[i].val]) \in Nat
    OBVIOUS
  <2>1. Hi(m[p[1].val]) < Lo(m[p[i].val])
    BY <1>2, <1>4 DEF Brings
  <2>2. Stretch(m[p[i].val], c)
    BY DEF Brings
  <2> QED BY <1>2, <1>3, <2>1, <2>2, StretchHi
<1>10. Lo(h) = n + 1
  <2>1. n + 1 \in (n + 1)..y
    BY <1>6, <1>7, <1>8
  <2>2. PICK i \in Feed(p, f) : Lo(m[p[i].val]) <= n + 1 /\ n + 1 <= Hi(m[p[i].val])
    BY <2>1 DEF Brings
  <2>3. i = 1
    <3> SUFFICES ASSUME i # 1 PROVE FALSE
      OBVIOUS
    <3>1. Hi(h) < Lo(m[p[i].val]) /\ Lo(m[p[i].val]) \in Nat
      BY <1>9
    <3> QED BY <1>6, <1>7, <1>8, <2>2, <3>1
  <2> QED BY <1>2, <1>6, <1>7, <1>8, <2>2, <2>3
<1> HIDE DEF a, l
<1>11. /\ B \in Seq(Units) /\ Len(B) = a + l /\ DOMAIN B = 1..(a + l)
       /\ \A j \in 1..(a + l) : B[j] = IF j <= a THEN v[j] ELSE h[j - a]
  BY <1>5, <1>b, ConcatProperties, LenProperties DEF a, l
<1>12. n - a \in Nat /\ z = n + l /\ Hi(h) = n + l /\ z \in 0..y
  BY <1>6, <1>7, <1>8, <1>10, <1>11
<1>13. ASSUME NEW j \in DOMAIN B PROVE B[j] = <<c, (n - a) + j>>
  <2>1. CASE j <= a
    <3>1. j \in 1..a /\ B[j] = v[j]
      BY <1>6, <1>8, <1>11, <2>1
    <3> QED BY <1>6, <3>1
  <2>2. CASE ~ (j <= a)
    <3>1. j - a \in 1..l /\ B[j] = h[j - a]
      BY SMTT(30), <1>6, <1>8, <1>11, <2>2
    <3>2. Lo(h) + (j - a) - 1 = (n - a) + j
      BY <1>6, <1>10, <3>1, <1>11
    <3> QED BY <1>8, <3>1, <3>2
  <2> QED BY <2>1, <2>2
<1>14. \A i \in Feed(p, f) : i # 1 => z < Lo(m[p[i].val]) /\ m[p[i].val] \in Seq(Units)
  BY <1>3, <1>9, <1>12
<1>15. ASSUME NEW u \in (z + 1)..y
       PROVE  \E i \in Feed(p, f) : i # 1 /\ Lo(m[p[i].val]) <= u /\ u <= Hi(m[p[i].val])
  <2>0. u \in Int /\ z + 1 <= u /\ u <= y
    BY <1>12
  <2>1. u \in (n + 1)..y
    BY <1>6, <1>8, <1>12, <2>0
  <2>2. PICK i \in Feed(p, f) : Lo(m[p[i].val]) <= u /\ u <= Hi(m[p[i].val])
    BY <2>1 DEF Brings
  <2>3. i # 1
    <3> SUFFICES ASSUME i = 1 PROVE FALSE
      OBVIOUS
    <3>1. u <= n + l
      BY <1>2, <1>12, <2>2
    <3> QED BY <1>6, <1>8, <1>12, <2>0, <3>1
  <2> QED BY <2>2, <2>3
<1>16. n - a \in Nat /\ B \in Seq(Units) /\ (n - a) + Len(B) \in 0..y
  BY <1>11, <1>12
<1>17. FirstFed(p, m, f, c, n - a, y, B)
  BY <1>13, <1>14, <1>15, <1>16 DEF FirstFed
<1> QED BY <1>17 DEF a

\* A chunk was served: what it completed is answered, the rest is kept.
LEMMA ServedOne ==
    ASSUME NEW q \in Seq(Sqes), NEW p \in Seq(Completion), p # <<>>, NEW f \in Fds,
           NEW c \in Clients, NEW v \in Seq(Units), NEW x \in Seq(Units), NEW y \in Nat,
           NEW m \in [Bids -> Seq(Units)], NEW k, y <= Len(Stream[c]),
           Head(p).op = "recv", Head(p).res = "ok", Head(p).fd = f, Head(p).val \in Bids,
           \A i \in Feed(p, f) : p[i].val \in Bids,
           \A i \in Feed(p, f) : i # 1 => k[p[i].val] = m[p[i].val],
           ServesOne(q, p, m, f, c, v, x, y),
           NEW B, Joined(B, v, m[Head(p).val]), Bads(B) = {},
           NEW A \in Seq(Sqes), Len(A) = Cardinality(Answered(B)),
           \A j \in 1..Len(A) : \E i \in Answered(B) :
               Rank(i, Answered(B)) = j /\ A[j] = Sqe("send", f, B[i]),
           NEW r \in Seq(Sqes), \A i \in DOMAIN r : r[i].op # "send"
    PROVE  ServesOne(q \o (A \o r), Tail(p), k, f, c, SubSeq(B, Consumed(B) + 1, Len(B)), x, y)
<1> DEFINE S == Sends(q, f)
           t == q \o (A \o r)
           T == Sends(t, f)
           I == Answered(B)
<1>1. PICK n \in 0..y : /\ Brings(p, m, f, c, n, y) /\ Holds(v, c, n)
                        /\ Len(x) + Cardinality(S) = Nth(c, n - Len(v))
  BY DEF ServesOne
<1> DEFINE base == n - Len(v)
           z == base + Len(B)
<1>2. /\ base \in Nat /\ B \in Seq(Units)
      /\ \A j \in DOMAIN B : B[j] = <<c, base + j>>
      /\ z \in 0..y
      /\ \A i \in Feed(p, f) : i # 1 => z < Lo(m[p[i].val])
      /\ \A u \in (z + 1)..y : \E i \in Feed(p, f) :
            i # 1 /\ Lo(m[p[i].val]) <= u /\ u <= Hi(m[p[i].val])
  <2>1. FirstFed(p, m, f, c, n - Len(v), y, B)
    BY <1>1, FirstChunk
  <2> QED BY <2>1 DEF FirstFed
<1>c. Continue(q, f, c, x)
  BY DEF ServesOne
<1>d. Len(x) \in Nat /\ Len(Stream[c]) \in Nat /\ Len(B) \in Nat /\ DOMAIN B = 1..Len(B)
  BY <1>2, LenProperties, StreamLen
<1> HIDE DEF base
<1>3. base + Len(B) <= Len(Stream[c])
  BY <1>2, <1>d
<1>4. /\ I \in SUBSET Nat /\ IsFiniteSet(I) /\ Consumed(B) \in 0..Len(B)
      /\ I \subseteq DOMAIN B
      /\ \A i \in I : base + i \in Lasts(c) /\ Nth(c, base + i) = Nth(c, base) + Rank(i, I)
      /\ Nth(c, base) \in Nat /\ Cardinality(I) \in Nat
      /\ Nth(c, base + Consumed(B)) = Nth(c, base) + Cardinality(I)
      /\ \A j \in DOMAIN B : j > Consumed(B) => ~ Stream[c][base + j].last
  BY <1>2, <1>3, AnsweredRanks
<1>a. /\ Len(A) = Cardinality(I)
      /\ \A j \in 1..Len(A) : \E i \in I : Rank(i, I) = j /\ A[j] = Sqe("send", f, B[i])
  OBVIOUS
<1> HIDE DEF I
<1>5. Brings(Tail(p), k, f, c, z, y)
  <2> HIDE DEF z
  <2>1. \A i \in Feed(p, f) : i # 1 => k[p[i].val] = m[p[i].val] /\ z < Lo(m[p[i].val])
    BY <1>2
  <2> QED BY <1>1, <1>2, <2>1, BringsTail
<1>6. \A i \in DOMAIN A : A[i].op = "send" /\ A[i].fd = f
  <2>1. DOMAIN A = 1..Len(A)
    BY LenProperties
  <2> QED BY <2>1 DEF Sqe
<1>7. /\ Cardinality(T) = Cardinality(S) + Len(A)
      /\ Len(A) \in Nat /\ Len(q) \in Nat
      /\ \A i \in S : t[i] = q[i] /\ Rank(i, T) = Rank(i, S)
      /\ \A j \in 1..Len(A) : t[Len(q) + j] = A[j] /\ Rank(Len(q) + j, T) = Cardinality(S) + j
      /\ \A i \in T : i \in S \/ (i - Len(q) \in 1..Len(A) /\ i = Len(q) + (i - Len(q)))
  <2>1. MoreSends(q, t, A, f)
    BY <1>6, SendsMore
  <2> QED BY <2>1 DEF MoreSends
<1>s. Cardinality(S) \in Nat
  BY SendsFinite
<1>8. Len(x) + Cardinality(S) = Nth(c, base)
  BY <1>1 DEF base
<1> HIDE DEF S, T, t, z
<1>9. Continue(t, f, c, x)
  <2> SUFFICES ASSUME NEW i \in T
               PROVE  /\ t[i].ans[1] = c /\ t[i].ans[2] \in Lasts(c)
                      /\ Nth(c, t[i].ans[2]) = Len(x) + Rank(i, T)
    BY DEF Continue, T
  <2>1. CASE i \in S
    <3>1. /\ q[i].ans[1] = c /\ q[i].ans[2] \in Lasts(c)
          /\ Nth(c, q[i].ans[2]) = Len(x) + Rank(i, S)
      BY <1>c, <2>1 DEF Continue, S
    <3> QED BY <1>7, <2>1, <3>1
  <2>2. CASE i \notin S
    <3> DEFINE j == i - Len(q)
    <3>1. j \in 1..Len(A) /\ i = Len(q) + j
      BY <1>7, <2>2
    <3> HIDE DEF j
    <3>2. t[i] = A[j] /\ Rank(i, T) = Cardinality(S) + j
      BY <1>7, <3>1
    <3>3. PICK u \in I : Rank(u, I) = j /\ A[j] = Sqe("send", f, B[u])
      BY <1>a, <3>1
    <3>4. t[i].ans = <<c, base + u>>
      BY SMTT(30), <1>2, <1>4, <3>2, <3>3 DEF Sqe
    <3>5. base + u \in Lasts(c) /\ Nth(c, base + u) = Nth(c, base) + j
      BY <1>4, <3>3
    <3>6. Nth(c, base) + j = Len(x) + Rank(i, T)
      BY <1>7, <1>8, <1>d, <1>s, <3>1, <3>2
    <3> QED BY <3>4, <3>5, <3>6
  <2> QED BY <2>1, <2>2
<1> DEFINE w == Consumed(B)
           R == SubSeq(B, w + 1, Len(B))
<1>10. w \in 0..Len(B)
  BY <1>4
<1> HIDE DEF w
<1>11. /\ R \in Seq(Units) /\ Len(R) = Len(B) - w /\ DOMAIN R = 1..(Len(B) - w)
       /\ \A j \in 1..(Len(B) - w) : j + w \in DOMAIN B /\ R[j] = B[j + w]
  <2>1. /\ R \in Seq(Units) /\ DOMAIN R = 1..(Len(B) - w)
        /\ \A j \in 1..(Len(B) - w) : j + w \in DOMAIN B /\ R[j] = B[j + w]
    BY <1>2, <1>10, CutIndices
  <2>2. Len(R) = Len(B) - w
    BY <1>2, <1>10, CutLen
  <2> QED BY <2>1, <2>2
<1> HIDE DEF R
<1>12. z - Len(R) = base + w /\ Len(R) <= z /\ Len(R) \in Nat
  BY <1>2, <1>10, <1>11, <1>d DEF z
<1>13. Holds(R, c, z)
  <2> SUFFICES ASSUME NEW j \in DOMAIN R
               PROVE  R[j] = <<c, z - Len(R) + j>> /\ ~ Stream[c][z - Len(R) + j].last
    BY <1>12 DEF Holds
  <2>1. j \in 1..(Len(B) - w) /\ j + w \in DOMAIN B /\ R[j] = B[j + w]
    BY <1>11
  <2>2. z - Len(R) + j = base + (j + w) /\ j + w > w
    <3> DEFINE l == Len(B)
               u == Len(R)
    <3>1. /\ l \in Nat /\ w \in 0..l /\ j \in 1..(l - w) /\ base \in Nat
          /\ z - u = base + w /\ u \in Nat /\ z \in Nat
      BY <1>2, <1>10, <1>12, <1>d, <2>1 DEF z
    <3> HIDE DEF l, u
    <3>2. z - u + j = base + (j + w) /\ j + w > w
      BY <3>1
    <3> QED BY <3>2 DEF u
  <2> QED BY <1>2, <1>4, <2>1, <2>2 DEF w
<1>14. Len(x) + Cardinality(T) = Nth(c, z - Len(R))
  <2>1. Nth(c, base + w) = Nth(c, base) + Len(A)
    BY <1>4, <1>a DEF w
  <2> QED BY <1>7, <1>8, <1>12, <1>d, <1>s, <2>1
<1>15. z \in 0..y
  BY <1>2 DEF z
<1>16. ServesOne(t, Tail(p), k, f, c, R, x, y)
  BY <1>5, <1>9, <1>13, <1>14, <1>15 DEF ServesOne, T
<1> QED BY <1>16 DEF t, R, w

\* A connection the head is not for, and none of the pushed answers.
LEMMA OtherServed ==
    ASSUME NEW q \in Seq(Sqes), NEW es \in Seq(Sqes), NEW p \in Seq(Completion), p # <<>>,
           NEW m, NEW m2, NEW h, NEW c, NEW v, NEW x, NEW y,
           ServesOne(q, p, m, h, c, v, x, y),
           \A i \in DOMAIN es : es[i].op = "send" => es[i].fd # h,
           1 \notin Feed(p, h), \A i \in Feed(p, h) : m2[p[i].val] = m[p[i].val]
    PROVE  ServesOne(q \o es, Tail(p), m2, h, c, v, x, y)
<1>1. Sends(q \o es, h) = Sends(q, h) /\ \A i \in Sends(q, h) : (q \o es)[i] = q[i]
  BY SendsJoin
<1>2. \A n : Brings(p, m, h, c, n, y) => Brings(Tail(p), m2, h, c, n, y)
  BY BringsTailSame
<1> QED BY <1>1, <1>2, ServesSame

\* The chunk at the head of p is joined to f's buffer, which is B then; its
\* requests are answered by A.
Serving(q, p, cn, cn2, ft, f, m, m2, g, o, B, A, r) ==
    /\ q \in Seq(Sqes) /\ p \in Seq(Completion) /\ p # <<>>
    /\ cn \in [Fds -> [some : BOOLEAN, buf : Seq(Units)]]
    /\ f \in Fds /\ cn[f].some /\ \A h \in Fds : cn[h].some => ft[h] \in Clients
    /\ Head(p).op = "recv" /\ Head(p).res = "ok" /\ Head(p).fd = f /\ Head(p).val \in Bids
    /\ \A h \in Fds : \A i \in Feed(p, h) :
          p[i].val \in Bids /\ (i # 1 => p[i].val # Head(p).val)
    /\ m \in [Bids -> Seq(Units)] /\ \A x \in Bids : x # Head(p).val => m2[x] = m[x]
    /\ g \in [Clients -> Nat] /\ g[ft[f]] <= Len(Stream[ft[f]])
    /\ o \in [Clients -> Seq(Units)]
    /\ Joined(B, cn[f].buf, m[Head(p).val]) /\ Bads(B) = {}
    /\ A \in Seq(Sqes) /\ Len(A) = Cardinality(Answered(B))
    /\ \A j \in 1..Len(A) : \E i \in Answered(B) :
          Rank(i, Answered(B)) = j /\ A[j] = Sqe("send", f, B[i])
    /\ r \in Seq(Sqes) /\ \A i \in DOMAIN r : r[i].op # "send"
    /\ cn2[f] = Conn(SubSeq(B, Consumed(B) + 1, Len(B)))
    /\ \A h \in Fds : h # f => cn2[h] = cn[h]

LEMMA ServedFlows ==
    ASSUME NEW q, NEW p, NEW cn, NEW cn2, NEW ft, NEW fn, NEW f, NEW m, NEW m2, NEW g,
           NEW o, NEW s, NEW w, NEW B, NEW A, NEW r,
           Flows(q, p, cn, o, m, ft, fn, g, s, w),
           Serving(q, p, cn, cn2, ft, f, m, m2, g, o, B, A, r)
    PROVE  Flows(q \o (A \o r), Tail(p), cn2, o, m2, ft, fn, g, s, w)
<1> USE DEF Serving
<1> DEFINE t == q \o (A \o r)
           R == SubSeq(B, Consumed(B) + 1, Len(B))
<1>0. /\ Serves(q, p, cn, o, m, ft, g) /\ InOrder(o) /\ Settled(o, fn, s) /\ Fresh(cn, o, ft, g, w)
  BY DEF Flows
<1>1. \A h \in Fds : \A i \in Feed(p, h) : (h = f => i # 1) => m2[p[i].val] = m[p[i].val]
  <2>1. Head(p) = p[1]
    BY HeadOff
  <2>2. \A h \in Fds : \A i \in Feed(p, h) : i = 1 => h = f
    BY <2>1 DEF Feed
  <2> QED BY <2>2
<1>2. \A h \in Fds : h # f => 1 \notin Feed(p, h)
  <2>1. Head(p) = p[1]
    BY HeadOff
  <2> QED BY <2>1 DEF Feed
<1>3. A \o r \in Seq(Sqes) /\ \A i \in DOMAIN (A \o r) : (A \o r)[i].op = "send" => (A \o r)[i].fd = f
  <2>1. \A i \in DOMAIN A : A[i].fd = f
    <3>1. DOMAIN A = 1..Len(A)
      BY LenProperties
    <3> QED BY <3>1 DEF Sqe
  <2>2. /\ A \o r \in Seq(Sqes)
        /\ \A i \in DOMAIN A : (A \o r)[i] = A[i]
        /\ \A i \in DOMAIN (A \o r) :
              i \in DOMAIN A \/ (i - Len(A) \in DOMAIN r /\ (A \o r)[i] = r[i - Len(A)])
    BY SMTT(30), JoinOn
  <2> DEFINE x == A \o r
  <2> HIDE DEF x
  <2>3. \A i \in DOMAIN x : x[i].op = "send" => x[i].fd = f
    BY <2>1, <2>2 DEF x
  <2> QED BY <2>2, <2>3 DEF x
<1>4. ASSUME NEW h \in Fds, cn[h].some, h # f
      PROVE  ServesOne(t, Tail(p), m2, h, ft[h], cn[h].buf, o[ft[h]], g[ft[h]])
  <2> DEFINE c == ft[h]
             v == cn[h].buf
             x == o[c]
             y == g[c]
  <2>1. ServesOne(q, p, m, h, c, v, x, y)
    BY <1>0, <1>4 DEF Serves
  <2>2. /\ A \o r \in Seq(Sqes)
        /\ \A i \in DOMAIN (A \o r) : (A \o r)[i].op = "send" => (A \o r)[i].fd # h
    BY <1>3, <1>4
  <2> HIDE DEF c, v, x, y
  <2>3. \A i \in Feed(p, h) : m2[p[i].val] = m[p[i].val]
    BY <1>1, <1>4
  <2>4. 1 \notin Feed(p, h)
    BY <1>2, <1>4
  <2> DEFINE es == A \o r
  <2>5. es \in Seq(Sqes) /\ \A i \in DOMAIN es : es[i].op = "send" => es[i].fd # h
    BY <2>2
  <2>7. q \in Seq(Sqes) /\ p \in Seq(Completion) /\ p # <<>>
    OBVIOUS
  <2> HIDE DEF es, Serving
  <2>6. ServesOne(q \o es, Tail(p), m2, h, c, v, x, y)
    BY <2>1, <2>3, <2>4, <2>5, <2>7, OtherServed
  <2> QED BY <2>6 DEF c, v, x, y, es
<1>5. ServesOne(t, Tail(p), m2, f, ft[f], R, o[ft[f]], g[ft[f]])
  <2> DEFINE c == ft[f]
             v == cn[f].buf
             x == o[c]
             y == g[c]
  <2>1. c \in Clients /\ v \in Seq(Units)
    OBVIOUS
  <2>2. x \in Seq(Units) /\ y \in Nat /\ y <= Len(Stream[c])
    BY <2>1
  <2>3. ServesOne(q, p, m, f, c, v, x, y)
    BY <1>0 DEF Serves
  <2>4. Joined(B, v, m[Head(p).val])
    OBVIOUS
  <2>5. \A i \in Feed(p, f) : p[i].val \in Bids
    OBVIOUS
  <2>6. \A i \in Feed(p, f) : i # 1 => m2[p[i].val] = m[p[i].val]
    BY <1>1
  <2> HIDE DEF c, v, x, y
  <2>7. ServesOne(q \o (A \o r), Tail(p), m2, f, c, SubSeq(B, Consumed(B) + 1, Len(B)), x, y)
    BY <2>1, <2>2, <2>3, <2>4, <2>5, <2>6, ServedOne
  <2> QED BY <2>7 DEF c, x, y
<1>6. cn2[f] = Conn(R) /\ \A h \in Fds : h # f => cn2[h] = cn[h]
  OBVIOUS
<1> HIDE DEF t, R
<1>7. cn2[f].some /\ cn2[f].buf = R
  BY <1>6 DEF Conn
<1>8. Serves(t, Tail(p), cn2, o, m2, ft, g)
  <2> SUFFICES ASSUME NEW h \in Fds, cn2[h].some
               PROVE  ServesOne(t, Tail(p), m2, h, ft[h], cn2[h].buf, o[ft[h]], g[ft[h]])
    BY DEF Serves
  <2>1. CASE h = f
    BY <1>5, <1>7, <2>1
  <2>2. CASE h # f
    <3>1. cn2[h] = cn[h]
      BY <1>6, <2>2
    <3> QED BY <1>4, <2>2, <3>1
  <2> QED BY <2>1, <2>2
<1>9. Fresh(cn2, o, ft, g, w)
  <2>1. \A h \in Fds : cn[h].some => cn2[h].some
    BY <1>6, <1>7
  <2> QED BY <1>0, <2>1 DEF Fresh
<1>10. Flows(t, Tail(p), cn2, o, m2, ft, fn, g, s, w)
  BY <1>0, <1>8, <1>9 DEF Flows
<1> QED BY <1>10 DEF t

---------------------------------------------------------------------------
(* The steps.                                                              *)

LEMMA ShapedNow == ASSUME TypeOK PROVE Shaped(sq, done \o cq, armed, conns, ctrls, fdt)
<1>1. done \o cq \in Seq(Completion)
  BY ConcatProperties DEF TypeOK
<1> QED BY <1>1 DEF TypeOK, Shaped, BagToSet

\* What the program does moves neither the queues of the links nor the clients.
LEMMA Unmoved ==
    ASSUME UNCHANGED <<ctrlq, lbEnd, handed>>
    PROVE  DrainedLinks' = DrainedLinks /\ Waiting' = Waiting
    BY DEF DrainedLinks, Drained, Waiting

\* The account when the completion at the head was handled and es pushed.
Handling2(es, cn, ct, m) ==
    /\ Shaped(sq \o es, Tail(done \o cq), armed, cn, ct, fdt)
    /\ Wired(sq \o es, Tail(done \o cq), armed, cn, ct, fdt, fin, DrainedLinks)
    /\ Flows(sq \o es, Tail(done \o cq), cn, out, m, fdt, fin, got, sent, Waiting)

LEMMA HandledPush ==
    ASSUME TypeOK, Sending, OnePlace, NEW es \in Seq(Sqes), done # <<>>,
           done' = Tail(done), Push(es), Handling2(es, conns', ctrls', mem'),
           UNCHANGED <<fdt, ctrlq, outside>>
    PROVE  WiredNow' /\ FlowsNow'
<1>1. done \in Seq(Completion) /\ cq \in Seq(Completion)
  BY DEF TypeOK
<1>2. Tail(done \o cq) = Tail(done) \o cq /\ Tail(done) \in Seq(Completion)
  BY <1>1, QueueHead
<1> DEFINE d == Tail(done)
           cn == conns'
           ct == ctrls'
           m == mem'
<1>3. /\ d \in Seq(Completion) /\ Shaped(sq \o es, d \o cq, armed, cn, ct, fdt)
      /\ Wired(sq \o es, d \o cq, armed, cn, ct, fdt, fin, DrainedLinks)
      /\ Flows(sq \o es, d \o cq, cn, out, m, fdt, fin, got, sent, Waiting)
  BY <1>2 DEF Handling2
<1> HIDE DEF d, cn, ct, m
<1>4. /\ Wired(sq', d \o cq', armed', cn, ct, fdt, fin, DrainedLinks)
      /\ Flows(sq', d \o cq', cn, out', m, fdt, fin, got, sent, Waiting)
  BY <1>3, PushWiring
<1>5. DrainedLinks' = DrainedLinks /\ Waiting' = Waiting
  BY Unmoved DEF peers, outside
<1>6. fdt' = fdt /\ fin' = fin /\ got' = got /\ sent' = sent /\ done' = d
  BY DEF peers, outside, d
<1> QED BY <1>4, <1>5, <1>6 DEF WiredNow, FlowsNow, cn, ct, m

LEMMA SubmitAndWaitWiring ==
    ASSUME TypeOK, Sending, OnePlace, WiredNow, FlowsNow, SubmitAndWait
    PROVE  WiredNow' /\ FlowsNow'
<1>1. sq \in Seq(Sqes) /\ cq \in Seq(Completion) /\ done = <<>>
  BY DEF TypeOK, SubmitAndWait
<1> DEFINE n == Len(sq)
           d == <<>>
           q == sq
<1>2. n \in 0..Len(q) /\ d \in Seq(Completion) /\ q \in Seq(Sqes)
  BY <1>1, LenProperties
<1>3. SubSeq(q, 1, n) = q /\ SubSeq(q, n + 1, Len(q)) = <<>>
  <2>1. SubSeq(q, 1, n) = q
    BY <1>1, SubSeqFull
  <2>2. n + 1 > n /\ n + 1 \in Int /\ n \in Int
    BY <1>2
  <2>3. SubSeq(q, n + 1, n) = <<>>
    BY <1>1, <2>2, SubSeqEmpty
  <2> QED BY <2>1, <2>3
<1>4. /\ Submit(SubSeq(q, 1, n)) /\ sq' = <<>> /\ done' = done
      /\ UNCHANGED <<conns, ctrls, fdt, mem, ctrlq, lbEnd, sent, got, fin, handed>>
  BY <1>3 DEF SubmitAndWait, kernel, peers, outside
<1>5. /\ Shaped(q, d \o cq, armed, conns, ctrls, fdt)
      /\ Wired(q, d \o cq, armed, conns, ctrls, fdt, fin, DrainedLinks)
      /\ Flows(q, d \o cq, conns, out, mem, fdt, fin, got, sent, Waiting)
  BY <1>1, ShapedNow DEF WiredNow, FlowsNow
<1> HIDE DEF n, d, q
<1>6. \A i \in DOMAIN q : q[i].op = "send" => fdt[q[i].fd] \notin fin
  BY <1>5, SendsWanted
<1>7. /\ Wired(SubSeq(q, n + 1, Len(q)), d \o cq', armed', conns, ctrls, fdt, fin, DrainedLinks)
      /\ \E s \in Seq(SentOk) : cq' = cq \o s /\ d \o cq' = (d \o cq) \o s
  BY <1>2, <1>4, <1>5, <1>6, SubmitWired
<1>8. PICK s \in Seq(SentOk) : d \o cq' = (d \o cq) \o s
  BY <1>7
<1> DEFINE t == d \o cq'
<1>9. t = (d \o cq) \o s
  BY <1>8
<1> HIDE DEF t
<1>10. Flows(SubSeq(q, n + 1, Len(q)), t, conns, out', mem, fdt, fin, got, sent, Waiting)
  BY <1>2, <1>4, <1>5, <1>9, SubmitFlows
<1>11. DrainedLinks' = DrainedLinks /\ Waiting' = Waiting
  BY <1>4, Unmoved
<1>12. sq' = SubSeq(q, n + 1, Len(q)) /\ done' = d
  BY <1>1, <1>3, <1>4 DEF d
<1> QED BY <1>4, <1>7, <1>10, <1>11, <1>12 DEF WiredNow, FlowsNow, t

LEMMA ReapWiring ==
    ASSUME TypeOK, WiredNow, FlowsNow, Reap
    PROVE  WiredNow' /\ FlowsNow'
<1>1. /\ done = <<>> /\ cq \in Seq(Completion) /\ done' = cq /\ cq' = <<>>
      /\ UNCHANGED <<sq, conns, ctrls, armed, out, fdt, mem, ctrlq, lbEnd, sent, got, fin, handed>>
  BY DEF TypeOK, Reap, kernel, peers, outside
<1>2. done' \o cq' = done \o cq
  BY <1>1, ConcatEmptySeq
<1>3. DrainedLinks' = DrainedLinks /\ Waiting' = Waiting
  BY <1>1, Unmoved
<1> QED BY <1>1, <1>2, <1>3 DEF WiredNow, FlowsNow

\* What the wiring says of the completion being handled.
LEMMA HeadFacts ==
    ASSUME TypeOK, WiredNow, done # <<>>
    PROVE  /\ E \in Completion
           /\ Announces(E) => /\ E.val \in Fds /\ ~ conns[E.val].some /\ E.val \notin ctrls
                              /\ fdt[E.val] \in (IF E.op = "accept" THEN Links ELSE Clients)
           /\ E.op = "accept" => E.fd = ListenFd
           /\ E.op \in {"ctrl", "recv"} =>
                 E.fd \in Fds /\ ForServed(E.op, E.fd, conns, ctrls) /\ E.file = fdt[E.fd]
           /\ E.op = "recv" => E.res # "nobufs" /\ (E.res = "fail" => E.file \in fin)
           /\ E.op = "ctrl" => ~ E.more /\ (E.res # "ok" => E.file \in DrainedLinks)
           /\ E.op = "send" => E.res = "ok"
<1> DEFINE p == done \o cq
<1>1. done \in Seq(Completion) /\ cq \in Seq(Completion)
  BY DEF TypeOK
<1>2. p \in Seq(Completion) /\ p # <<>> /\ Head(p) = E
  BY <1>1, QueueHead DEF E
<1> HIDE DEF p
<1>3. 1 \in DOMAIN p /\ p[1] = E /\ E \in Completion
  BY <1>2, HeadOff
<1>4. Announcements(p, conns, ctrls, fdt) /\ Completed(p, conns, ctrls, fdt, fin, DrainedLinks)
  BY DEF WiredNow, Wired, p
<1>5. Announces(E) => E.val \in Fds
  BY <1>3, UringAssumption DEF Announces, Completion, Ended, News
<1>6. Announces(E) => /\ ~ conns[E.val].some /\ E.val \notin ctrls
                      /\ fdt[E.val] \in (IF E.op = "accept" THEN Links ELSE Clients)
  BY <1>3, <1>4 DEF Announcements
<1>7. E.op \in {"ctrl", "recv"} => E.fd \in Fds
  BY <1>3 DEF Completion, Ended, News
<1>8. /\ E.op = "accept" => E.fd = ListenFd
      /\ E.op \in {"ctrl", "recv"} => ForServed(E.op, E.fd, conns, ctrls) /\ E.file = fdt[E.fd]
      /\ E.op = "recv" => E.res # "nobufs" /\ (E.res = "fail" => E.file \in fin)
      /\ E.op = "ctrl" => ~ E.more /\ (E.res # "ok" => E.file \in DrainedLinks)
      /\ E.op = "send" => E.res = "ok"
  BY <1>3, <1>4 DEF Completed
<1> QED BY <1>3, <1>5, <1>6, <1>7, <1>8

\* A handler of a completion without bytes, that pushes es and grows the tables
\* to cn and ct by what is announced.
LEMMA HandledAccount ==
    ASSUME TypeOK, WiredNow, FlowsNow, done # <<>>, NEW es \in Seq(Sqes),
           NEW cn \in [Fds -> [some : BOOLEAN, buf : Seq(Units)]], NEW ct \in SUBSET Fds,
           Tables(cn, ct, fdt), ~ (E.op = "recv" /\ E.res = "ok"),
           \A f \in Fds : (conns[f].some => cn[f] = conns[f]) /\ (f \in ctrls => f \in ct),
           \A f \in Fds : cn[f].some /\ ~ conns[f].some => cn[f].buf = <<>>,
           \A f \in Fds : (cn[f].some /\ ~ conns[f].some) \/ (f \in ct /\ f \notin ctrls) =>
               Announces(E) /\ E.val = f,
           Announces(E) => IF E.op = "accept" THEN E.val \in ct ELSE cn[E.val].some,
           \A i \in DOMAIN es : es[i].op # "send" /\ ForServed(es[i].op, es[i].fd, cn, ct),
           \A f \in Fds, op \in {"ctrl", "recv"} : ForServed(op, f, conns, ctrls) =>
               Count(es, SqOf(op, f)) = IF E \in CqOf(op, f) THEN 1 ELSE 0,
           \A f \in Fds, op \in {"ctrl", "recv"} :
               ForServed(op, f, cn, ct) /\ ~ ForServed(op, f, conns, ctrls) =>
                  Count(es, SqOf(op, f)) = 1
    PROVE  Handling2(es, cn, ct, mem)
<1> DEFINE p == done \o cq
<1>1. done \in Seq(Completion) /\ cq \in Seq(Completion) /\ sq \in Seq(Sqes)
  BY DEF TypeOK
<1>2. p \in Seq(Completion) /\ p # <<>> /\ Head(p) = E
  BY <1>1, QueueHead DEF E
<1>3. Shaped(sq, p, armed, conns, ctrls, fdt)
  BY ShapedNow
<1>4. /\ Wired(sq, p, armed, conns, ctrls, fdt, fin, DrainedLinks)
      /\ Flows(sq, p, conns, out, mem, fdt, fin, got, sent, Waiting)
  BY DEF WiredNow, FlowsNow
<1> HIDE DEF p, E
<1>5. \A f \in Fds : conns[f].some => cn[f].some
  OBVIOUS
<1>6. Wired(sq \o es, Tail(p), armed, cn, ct, fdt, fin, DrainedLinks)
  <2> DEFINE e == Head(p)
  <2>1. /\ \A f \in Fds : (conns[f].some => cn[f].some) /\ (f \in ctrls => f \in ct)
        /\ \A f \in Fds : (cn[f].some /\ ~ conns[f].some) \/ (f \in ct /\ f \notin ctrls) =>
              Announces(Head(p)) /\ Head(p).val = f
        /\ Announces(Head(p)) => IF Head(p).op = "accept" THEN Head(p).val \in ct
                                 ELSE cn[Head(p).val].some
        /\ \A i \in DOMAIN es : ForServed(es[i].op, es[i].fd, cn, ct)
        /\ \A f \in Fds, op \in {"ctrl", "recv"} : ForServed(op, f, conns, ctrls) =>
              Count(es, SqOf(op, f)) = IF Head(p) \in CqOf(op, f) THEN 1 ELSE 0
    BY <1>2, <1>5
  <2> QED BY <1>2, <1>3, <1>4, <2>1, HandledWired
<1>7. Flows(sq \o es, Tail(p), cn, out, mem, fdt, fin, got, sent, Waiting)
  <2>1. /\ ~ (Head(p).op = "recv" /\ Head(p).res = "ok")
        /\ \A i \in DOMAIN es : es[i].op # "send"
        /\ \A f \in Fds : conns[f].some => cn[f] = conns[f]
        /\ \A f \in Fds : cn[f].some /\ ~ conns[f].some => cn[f].buf = <<>> /\ fdt[f] \in Clients
    BY <1>2 DEF Tables
  <2> QED BY <1>2, <1>3, <1>4, <2>1, HandledFlows
<1>8. Shaped(sq \o es, Tail(p), armed, cn, ct, fdt)
  <2>1. sq \o es \in Seq(Sqes) /\ Tail(p) \in Seq(Completion)
    BY <1>1, <1>2, ConcatProperties, HeadOff
  <2> QED BY <1>3, <2>1 DEF Shaped
<1> QED BY <1>6, <1>7, <1>8 DEF Handling2, p

---------------------------------------------------------------------------
(* Handlers that push.                                                     *)

LEMMA PairCount ==
    ASSUME NEW x \in Sqes, NEW s \in Seq(Sqes), NEW V
    PROVE  /\ <<x>> \o s \in Seq(Sqes) /\ <<x>> \in Seq(Sqes) /\ <<>> \in Seq(Sqes)
           /\ Count(<<x>> \o s, V) = (IF x \in V THEN 1 ELSE 0) + Count(s, V)
           /\ Count(<<x>>, V) = (IF x \in V THEN 1 ELSE 0) /\ Count(<<>>, V) = 0
           /\ \A i \in DOMAIN (<<x>> \o s) :
                 (<<x>> \o s)[i] = x \/ \E j \in DOMAIN s : (<<x>> \o s)[i] = s[j]
<1>1. <<x>> \in Seq(Sqes)
  OBVIOUS
<1>2. Count(<<x>> \o s, V) = Count(<<x>>, V) + Count(s, V)
  BY <1>1, CountConcat
<1>3. Count(<<x>>, V) = IF x \in V THEN 1 ELSE 0
  BY CountSingle
<1>4. Count(<<>>, V) = 0
  BY CountEmpty
<1> DEFINE y == <<x>>
<1>5. \A i \in DOMAIN y : y[i] = x
  OBVIOUS
<1>6. y \in Seq(Sqes)
  BY <1>1
<1> HIDE DEF y
<1>7. /\ y \o s \in Seq(Sqes)
      /\ \A i \in DOMAIN y : (y \o s)[i] = y[i]
      /\ \A i \in DOMAIN (y \o s) :
            i \in DOMAIN y \/ (i - Len(y) \in DOMAIN s /\ (y \o s)[i] = s[i - Len(y)])
  BY <1>6, JoinOn
<1>8. \A i \in DOMAIN (y \o s) : (y \o s)[i] = x \/ \E j \in DOMAIN s : (y \o s)[i] = s[j]
  BY <1>5, <1>7
<1> QED BY <1>1, <1>2, <1>3, <1>4, <1>7, <1>8 DEF y

LEMMA AcceptAgainFacts ==
    /\ AcceptAgain \in Seq(Sqes)
    /\ \A i \in DOMAIN AcceptAgain : AcceptAgain[i].op = "accept"
    /\ \A op \in {"ctrl", "recv"}, f \in Fds : Count(AcceptAgain, SqOf(op, f)) = 0
<1>1. AcceptAgain \in Seq(Sqes)
  BY AcceptAgainType
<1>2. \A i \in DOMAIN AcceptAgain : AcceptAgain[i].op = "accept"
  BY DEF AcceptAgain, Sqe
<1>3. ASSUME NEW op \in {"ctrl", "recv"}, NEW f \in Fds
      PROVE  Count(AcceptAgain, SqOf(op, f)) = 0
  <2>1. \A i \in DOMAIN AcceptAgain : AcceptAgain[i] \notin SqOf(op, f)
    BY <1>2 DEF SqOf
  <2> QED BY <1>1, <2>1, CountNone
<1> QED BY <1>1, <1>2, <1>3

LEMMA OnAcceptWiring ==
    ASSUME TypeOK, Sending, OnePlace, WiredNow, FlowsNow, OnAccept
    PROVE  WiredNow' /\ FlowsNow'
<1> DEFINE v == E.val
           x == Sqe("ctrl", v, None)
           es == <<x>> \o AcceptAgain
           ct == ctrls \cup {v}
<1>1. /\ done # <<>> /\ E.op = "accept" /\ E.res = "ok" /\ ctrls' = ct /\ Push(es)
      /\ done' = Tail(done) /\ conns' = conns /\ mem' = mem
      /\ UNCHANGED <<fdt, ctrlq, outside>>
  BY DEF OnAccept, Handling, Handled, kernel, peers, outside
<1>2. E \in Completion
  BY <1>1, HeadFacts
<1>3. Announces(E)
  BY <1>1, <1>2, UringAssumption DEF Announces, Completion, Ended, News
<1>4. v \in Fds /\ fdt[v] \in Links /\ ~ conns[v].some /\ v \notin ctrls
  BY <1>1, <1>3, HeadFacts
<1>5. x \in Sqes /\ x.op = "ctrl" /\ x.fd = v
  BY <1>4 DEF Sqe, Sqes
<1>6. /\ conns \in [Fds -> [some : BOOLEAN, buf : Seq(Units)]] /\ ct \in SUBSET Fds
      /\ ctrls \subseteq Fds
  BY <1>4 DEF TypeOK
<1>7. Tables(conns, ct, fdt)
  <2>1. Tables(conns, ctrls, fdt)
    BY DEF WiredNow, Wired
  <2> QED BY <1>4, <2>1 DEF Tables
<1>8. \A op \in {"ctrl", "recv"}, f \in Fds : E \notin CqOf(op, f)
  BY <1>1 DEF CqOf
<1> HIDE DEF x
<1>9. /\ es \in Seq(Sqes)
      /\ \A i \in DOMAIN es : es[i] = x \/ \E j \in DOMAIN AcceptAgain : es[i] = AcceptAgain[j]
  BY <1>5, AcceptAgainFacts, PairCount
<1>10. \A op \in {"ctrl", "recv"}, f \in Fds :
          Count(es, SqOf(op, f)) = IF op = "ctrl" /\ f = v THEN 1 ELSE 0
  <2> SUFFICES ASSUME NEW op \in {"ctrl", "recv"}, NEW f \in Fds
               PROVE  Count(es, SqOf(op, f)) = IF op = "ctrl" /\ f = v THEN 1 ELSE 0
    OBVIOUS
  <2>1. Count(es, SqOf(op, f)) = (IF x \in SqOf(op, f) THEN 1 ELSE 0) + Count(AcceptAgain, SqOf(op, f))
    BY <1>5, AcceptAgainFacts, PairCount
  <2>2. Count(AcceptAgain, SqOf(op, f)) = 0
    BY AcceptAgainFacts
  <2>3. x \in SqOf(op, f) <=> op = "ctrl" /\ f = v
    BY <1>5 DEF SqOf
  <2> QED BY <2>1, <2>2, <2>3
<1> HIDE DEF es, v
<1>11. \A i \in DOMAIN es : es[i].op # "send" /\ ForServed(es[i].op, es[i].fd, conns, ct)
  BY <1>5, <1>9, AcceptAgainFacts DEF ForServed
<1>12. \A op \in {"ctrl", "recv"}, f \in Fds :
          /\ ForServed(op, f, conns, ctrls) => ~ (op = "ctrl" /\ f = v)
          /\ ForServed(op, f, conns, ct) /\ ~ ForServed(op, f, conns, ctrls) => op = "ctrl" /\ f = v
  BY <1>4 DEF ForServed
<1>13. /\ \A f \in Fds, op \in {"ctrl", "recv"} : ForServed(op, f, conns, ctrls) =>
            Count(es, SqOf(op, f)) = IF E \in CqOf(op, f) THEN 1 ELSE 0
       /\ \A f \in Fds, op \in {"ctrl", "recv"} :
            ForServed(op, f, conns, ct) /\ ~ ForServed(op, f, conns, ctrls) =>
               Count(es, SqOf(op, f)) = 1
  BY <1>8, <1>10, <1>12
<1>14. /\ \A f \in Fds : (conns[f].some => conns[f] = conns[f]) /\ (f \in ctrls => f \in ct)
       /\ \A f \in Fds : conns[f].some /\ ~ conns[f].some => conns[f].buf = <<>>
       /\ \A f \in Fds : (conns[f].some /\ ~ conns[f].some) \/ (f \in ct /\ f \notin ctrls) =>
               Announces(E) /\ E.val = f
       /\ Announces(E) => IF E.op = "accept" THEN E.val \in ct ELSE conns[E.val].some
       /\ ~ (E.op = "recv" /\ E.res = "ok")
  BY <1>1, <1>3 DEF v
<1> HIDE DEF ct
<1>15. Handling2(es, conns, ct, mem)
  BY <1>1, <1>6, <1>7, <1>9, <1>11, <1>13, <1>14, HandledAccount
<1> QED BY <1>1, <1>9, <1>15, HandledPush

LEMMA OnAcceptEndWiring ==
    ASSUME TypeOK, Sending, OnePlace, WiredNow, FlowsNow, OnAcceptEnd
    PROVE  WiredNow' /\ FlowsNow'
<1> DEFINE es == AcceptAgain
<1>1. /\ done # <<>> /\ E.op = "accept" /\ E.res # "ok" /\ ctrls' = ctrls /\ Push(es)
      /\ done' = Tail(done) /\ conns' = conns /\ mem' = mem
      /\ UNCHANGED <<fdt, ctrlq, outside>>
  BY DEF OnAcceptEnd, Handling, Handled, kernel, peers, outside
<1>2. ~ Announces(E) /\ ~ (E.op = "recv" /\ E.res = "ok")
  BY <1>1 DEF Announces
<1>3. /\ conns \in [Fds -> [some : BOOLEAN, buf : Seq(Units)]] /\ ctrls \in SUBSET Fds
      /\ Tables(conns, ctrls, fdt)
  BY DEF TypeOK, WiredNow, Wired
<1>4. \A op \in {"ctrl", "recv"}, f \in Fds : E \notin CqOf(op, f)
  BY <1>1 DEF CqOf
<1>5. /\ es \in Seq(Sqes) /\ \A i \in DOMAIN es : es[i].op = "accept"
      /\ \A op \in {"ctrl", "recv"}, f \in Fds : Count(es, SqOf(op, f)) = 0
  BY AcceptAgainFacts
<1> HIDE DEF es
<1>6. \A i \in DOMAIN es : es[i].op # "send" /\ ForServed(es[i].op, es[i].fd, conns, ctrls)
  BY <1>5 DEF ForServed
<1>7. \A f \in Fds, op \in {"ctrl", "recv"} : ForServed(op, f, conns, ctrls) =>
          Count(es, SqOf(op, f)) = IF E \in CqOf(op, f) THEN 1 ELSE 0
  BY <1>4, <1>5
<1>8. Handling2(es, conns, ctrls, mem)
  BY <1>1, <1>2, <1>3, <1>5, <1>6, <1>7, HandledAccount
<1> QED BY <1>1, <1>5, <1>8, HandledPush

\* The recvmsg of a link that is listened to is posted again.
LEMMA RearmFacts ==
    ASSUME TypeOK, E.fd \in ctrls
    PROVE  /\ Rearm \in Seq(Sqes) /\ Rearm = <<Sqe("ctrl", E.fd, None)>>
           /\ \A i \in DOMAIN Rearm : Rearm[i].op = "ctrl" /\ Rearm[i].fd = E.fd
           /\ \A op \in {"ctrl", "recv"}, f \in Fds :
                 Count(Rearm, SqOf(op, f)) = IF op = "ctrl" /\ f = E.fd THEN 1 ELSE 0
<1> DEFINE x == Sqe("ctrl", E.fd, None)
<1>1. Rearm = <<x>>
  BY DEF Rearm
<1>2. x \in Sqes /\ x.op = "ctrl" /\ x.fd = E.fd
  BY DEF TypeOK, Sqe, Sqes
<1> HIDE DEF x
<1>3. \A op \in {"ctrl", "recv"}, f \in Fds :
         Count(<<x>>, SqOf(op, f)) = IF op = "ctrl" /\ f = E.fd THEN 1 ELSE 0
  <2> SUFFICES ASSUME NEW op \in {"ctrl", "recv"}, NEW f \in Fds
               PROVE  Count(<<x>>, SqOf(op, f)) = IF op = "ctrl" /\ f = E.fd THEN 1 ELSE 0
    OBVIOUS
  <2>1. Count(<<x>>, SqOf(op, f)) = IF x \in SqOf(op, f) THEN 1 ELSE 0
    BY CountSingle
  <2>2. x \in SqOf(op, f) <=> op = "ctrl" /\ f = E.fd
    BY <1>2 DEF SqOf
  <2> QED BY <2>1, <2>2
<1>4. <<x>> \in Seq(Sqes) /\ \A i \in DOMAIN <<x>> : <<x>>[i] = x
  BY <1>2
<1> QED BY <1>1, <1>2, <1>3, <1>4 DEF x

LEMMA OnCtrlWiring ==
    ASSUME TypeOK, Sending, OnePlace, WiredNow, FlowsNow, OnCtrl
    PROVE  WiredNow' /\ FlowsNow'
<1> DEFINE v == E.val
           l == E.fd
           x == Sqe("recv", v, None)
           s == Rearm
           es == <<x>> \o s
           cn == [conns EXCEPT ![v] = Conn(<<>>)]
<1>1. /\ done # <<>> /\ E.op = "ctrl" /\ E.res = "ok" /\ E.fd \in ctrls /\ E.val # None
      /\ conns' = cn /\ Push(es)
      /\ done' = Tail(done) /\ ctrls' = ctrls /\ mem' = mem
      /\ UNCHANGED <<fdt, ctrlq, outside>>
  BY DEF OnCtrl, Handling, Handled, kernel, peers, outside
<1>2. Announces(E) /\ E \in Completion /\ ~ E.more
  BY <1>1, HeadFacts DEF Announces
<1>3. v \in Fds /\ fdt[v] \in Clients /\ ~ conns[v].some /\ v \notin ctrls /\ l \in Fds
  BY <1>1, <1>2, HeadFacts
<1>4. x \in Sqes /\ x.op = "recv" /\ x.fd = v
  BY <1>3 DEF Sqe, Sqes
<1>5. /\ conns \in [Fds -> [some : BOOLEAN, buf : Seq(Units)]] /\ ctrls \in SUBSET Fds
  BY DEF TypeOK
<1>6. /\ cn \in [Fds -> [some : BOOLEAN, buf : Seq(Units)]]
      /\ cn[v].some /\ cn[v].buf = <<>> /\ \A f \in Fds : f # v => cn[f] = conns[f]
  <2>1. Conn(<<>>) \in [some : BOOLEAN, buf : Seq(Units)]
    BY DEF Conn
  <2> QED BY <1>3, <1>5, <2>1 DEF Conn
<1>7. Tables(cn, ctrls, fdt)
  <2>1. Tables(conns, ctrls, fdt)
    BY DEF WiredNow, Wired
  <2> HIDE DEF cn
  <2> QED BY <1>3, <1>6, <2>1 DEF Tables
<1>8. /\ s \in Seq(Sqes) /\ \A i \in DOMAIN s : s[i].op = "ctrl" /\ s[i].fd = l
      /\ \A op \in {"ctrl", "recv"}, f \in Fds :
            Count(s, SqOf(op, f)) = IF op = "ctrl" /\ f = l THEN 1 ELSE 0
  BY <1>1, RearmFacts
<1>9. \A op \in {"ctrl", "recv"}, f \in Fds : E \in CqOf(op, f) <=> op = "ctrl" /\ f = l
  BY <1>1, <1>2 DEF CqOf
<1> HIDE DEF x, s, cn
<1>10. /\ es \in Seq(Sqes)
       /\ \A i \in DOMAIN es : es[i] = x \/ \E j \in DOMAIN s : es[i] = s[j]
  BY <1>4, <1>8, PairCount
<1>11. \A op \in {"ctrl", "recv"}, f \in Fds :
          Count(es, SqOf(op, f)) = (IF op = "recv" /\ f = v THEN 1 ELSE 0)
                                   + (IF op = "ctrl" /\ f = l THEN 1 ELSE 0)
  <2> SUFFICES ASSUME NEW op \in {"ctrl", "recv"}, NEW f \in Fds
               PROVE  Count(es, SqOf(op, f)) = (IF op = "recv" /\ f = v THEN 1 ELSE 0)
                                 + (IF op = "ctrl" /\ f = l THEN 1 ELSE 0)
    OBVIOUS
  <2>1. Count(es, SqOf(op, f)) = (IF x \in SqOf(op, f) THEN 1 ELSE 0) + Count(s, SqOf(op, f))
    BY <1>4, <1>8, PairCount
  <2>2. Count(s, SqOf(op, f)) = IF op = "ctrl" /\ f = l THEN 1 ELSE 0
    BY <1>8
  <2>3. x \in SqOf(op, f) <=> op = "recv" /\ f = v
    BY <1>4 DEF SqOf
  <2> QED BY <2>1, <2>2, <2>3
<1> HIDE DEF es, v, l
<1>12. \A i \in DOMAIN es : es[i].op # "send" /\ ForServed(es[i].op, es[i].fd, cn, ctrls)
  <2>1. x.op # "send" /\ ForServed(x.op, x.fd, cn, ctrls)
    BY <1>4, <1>6 DEF ForServed
  <2>2. \A j \in DOMAIN s : s[j].op # "send" /\ ForServed(s[j].op, s[j].fd, cn, ctrls)
    BY <1>1, <1>8 DEF ForServed, l
  <2> QED BY <1>10, <2>1, <2>2
<1>13. \A op \in {"ctrl", "recv"}, f \in Fds :
          /\ ForServed(op, f, conns, ctrls) => ~ (op = "recv" /\ f = v)
          /\ ForServed(op, f, cn, ctrls) /\ ~ ForServed(op, f, conns, ctrls) => op = "recv" /\ f = v
  BY <1>3, <1>6 DEF ForServed
<1>14. /\ \A f \in Fds, op \in {"ctrl", "recv"} : ForServed(op, f, conns, ctrls) =>
            Count(es, SqOf(op, f)) = IF E \in CqOf(op, f) THEN 1 ELSE 0
       /\ \A f \in Fds, op \in {"ctrl", "recv"} :
            ForServed(op, f, cn, ctrls) /\ ~ ForServed(op, f, conns, ctrls) =>
               Count(es, SqOf(op, f)) = 1
  BY <1>9, <1>11, <1>13
<1>15. /\ \A f \in Fds : (conns[f].some => cn[f] = conns[f]) /\ (f \in ctrls => f \in ctrls)
       /\ \A f \in Fds : cn[f].some /\ ~ conns[f].some => cn[f].buf = <<>>
       /\ \A f \in Fds : (cn[f].some /\ ~ conns[f].some) \/ (f \in ctrls /\ f \notin ctrls) =>
               Announces(E) /\ E.val = f
       /\ Announces(E) => IF E.op = "accept" THEN E.val \in ctrls ELSE cn[E.val].some
       /\ ~ (E.op = "recv" /\ E.res = "ok")
  BY <1>1, <1>2, <1>3, <1>6 DEF v
<1>16. Handling2(es, cn, ctrls, mem)
  BY <1>1, <1>5, <1>6, <1>7, <1>10, <1>12, <1>14, <1>15, HandledAccount
<1> QED BY <1>1, <1>10, <1>16, HandledPush

LEMMA OnCtrlEmptyWiring ==
    ASSUME TypeOK, Sending, OnePlace, WiredNow, FlowsNow, OnCtrlEmpty
    PROVE  WiredNow' /\ FlowsNow'
<1> DEFINE es == Rearm
           l == E.fd
<1>1. /\ done # <<>> /\ E.op = "ctrl" /\ E.res = "ok" /\ (l \notin ctrls \/ E.val = None)
      /\ Push(es) /\ done' = Tail(done) /\ ctrls' = ctrls /\ conns' = conns /\ mem' = mem
      /\ UNCHANGED <<fdt, ctrlq, outside>>
  BY DEF OnCtrlEmpty, Handling, Handled, kernel
<1>2. l \in ctrls /\ E \in Completion /\ ~ E.more
  BY <1>1, HeadFacts DEF ForServed
<1>3. ~ Announces(E) /\ ~ (E.op = "recv" /\ E.res = "ok")
  BY <1>1, <1>2 DEF Announces
<1>4. /\ conns \in [Fds -> [some : BOOLEAN, buf : Seq(Units)]] /\ ctrls \in SUBSET Fds
      /\ Tables(conns, ctrls, fdt)
  BY DEF TypeOK, WiredNow, Wired
<1>5. /\ es \in Seq(Sqes) /\ \A i \in DOMAIN es : es[i].op = "ctrl" /\ es[i].fd = l
      /\ \A op \in {"ctrl", "recv"}, f \in Fds :
            Count(es, SqOf(op, f)) = IF op = "ctrl" /\ f = l THEN 1 ELSE 0
  BY <1>2, RearmFacts
<1>6. \A op \in {"ctrl", "recv"}, f \in Fds : E \in CqOf(op, f) <=> op = "ctrl" /\ f = l
  BY <1>1, <1>2 DEF CqOf
<1> HIDE DEF es, l
<1>7. \A i \in DOMAIN es : es[i].op # "send" /\ ForServed(es[i].op, es[i].fd, conns, ctrls)
  BY <1>2, <1>5 DEF ForServed
<1>8. \A f \in Fds, op \in {"ctrl", "recv"} : ForServed(op, f, conns, ctrls) =>
          Count(es, SqOf(op, f)) = IF E \in CqOf(op, f) THEN 1 ELSE 0
  BY <1>5, <1>6
<1>9. Handling2(es, conns, ctrls, mem)
  BY <1>1, <1>3, <1>4, <1>5, <1>7, <1>8, HandledAccount
<1> QED BY <1>1, <1>5, <1>9, HandledPush

\* Without a failed send this handler does nothing.
LEMMA OnSendWiring ==
    ASSUME TypeOK, WiredNow, FlowsNow, OnSend
    PROVE  WiredNow' /\ FlowsNow'
<1> DEFINE es == <<>>
<1>1. done # <<>> /\ E.op = "send"
  BY DEF OnSend, Handling
<1>2. E.res = "ok"
  BY <1>1, HeadFacts
<1>3. /\ done' = Tail(done)
      /\ UNCHANGED <<sq, cq, armed, out, conns, ctrls, fdt, mem, ctrlq, outside>>
  BY <1>2 DEF OnSend, Handled, ring
<1>4. ~ Announces(E) /\ ~ (E.op = "recv" /\ E.res = "ok")
  BY <1>1 DEF Announces
<1>5. /\ conns \in [Fds -> [some : BOOLEAN, buf : Seq(Units)]] /\ ctrls \in SUBSET Fds
      /\ Tables(conns, ctrls, fdt) /\ sq \in Seq(Sqes)
      /\ done \in Seq(Completion) /\ cq \in Seq(Completion)
  BY DEF TypeOK, WiredNow, Wired
<1>6. /\ es \in Seq(Sqes) /\ DOMAIN es = {}
      /\ \A V : Count(es, V) = 0
  BY CountEmpty
<1>7. \A op \in {"ctrl", "recv"}, f \in Fds : E \notin CqOf(op, f)
  BY <1>1 DEF CqOf
<1> HIDE DEF es
<1>8. Handling2(es, conns, ctrls, mem)
  BY <1>1, <1>4, <1>5, <1>6, <1>7, HandledAccount
<1>9. sq \o es = sq
  BY <1>5, ConcatEmptySeq DEF es
<1>10. Tail(done \o cq) = Tail(done) \o cq
  BY <1>1, <1>5, QueueHead
<1>11. DrainedLinks' = DrainedLinks /\ Waiting' = Waiting
  BY <1>3, Unmoved DEF peers, outside
<1> QED BY <1>3, <1>8, <1>9, <1>10, <1>11 DEF Handling2, WiredNow, FlowsNow, peers, outside

---------------------------------------------------------------------------
(* Handlers that close.                                                    *)

\* The completion at the head of p ended what f was served with.
Closing(q, p, a, cn, ct, ft, fn, dr, o, m, g, s, w, cn2, ct2, ft2, f, op) ==
    /\ Shaped(q, p, a, cn, ct, ft) /\ Wired(q, p, a, cn, ct, ft, fn, dr) /\ p # <<>>
    /\ Flows(q, p, cn, o, m, ft, fn, g, s, w)
    /\ f \in Fds /\ op \in {"ctrl", "recv"}
    /\ Head(p).op = op /\ Head(p).fd = f /\ Head(p).res # "ok" /\ ~ Head(p).more
    /\ op = "recv" => Sends(q, f) = {}
    /\ ~ cn2[f].some /\ f \notin ct2 /\ ft2[f] = None
    /\ \A h \in Fds : h # f => cn2[h] = cn[h] /\ ft2[h] = ft[h] /\ (h \in ct2 <=> h \in ct)

LEMMA ClosedBoth ==
    ASSUME NEW q, NEW p, NEW a, NEW cn, NEW ct, NEW ft, NEW fn, NEW dr,
           NEW o, NEW m, NEW g, NEW s, NEW w, NEW cn2, NEW ct2, NEW ft2, NEW f, NEW op,
           Closing(q, p, a, cn, ct, ft, fn, dr, o, m, g, s, w, cn2, ct2, ft2, f, op)
    PROVE  /\ Wired(q, Tail(p), a, cn2, ct2, ft2, fn, dr)
           /\ Flows(q, Tail(p), cn2, o, m, ft2, fn, g, s, w)
<1> USE DEF Closing
<1>1. Wired(q, Tail(p), a, cn2, ct2, ft2, fn, dr)
  BY ClosedWired
<1>2. p \in Seq(Completion)
  BY DEF Shaped
<1>3. \A h \in Fds : h # f => cn2[h] = cn[h] /\ ft2[h] = ft[h]
  OBVIOUS
<1>4. Flows(q, Tail(p), cn2, o, m, ft2, fn, g, s, w)
  BY <1>2, <1>3, ClosedFlows
<1> QED BY <1>1, <1>4

LEMMA ClosedSteps ==
    ASSUME TypeOK, WiredNow, FlowsNow, done # <<>>, NEW f \in Fds, NEW op \in {"ctrl", "recv"},
           E.op = op, E.fd = f, E.res # "ok", op = "recv" => Sends(sq, f) = {},
           ~ conns'[f].some, f \notin ctrls', fdt' = [fdt EXCEPT ![f] = None],
           \A g \in Fds : g # f => conns'[g] = conns[g] /\ (g \in ctrls' <=> g \in ctrls),
           done' = Tail(done),
           UNCHANGED <<sq, cq, armed, out, mem, ctrlq, outside>>
    PROVE  WiredNow' /\ FlowsNow'
<1> DEFINE p == done \o cq
           cn == conns'
           ct == ctrls'
           ft == fdt'
<1>1. done \in Seq(Completion) /\ cq \in Seq(Completion) /\ sq \in Seq(Sqes)
      /\ fdt \in [Fds -> Files \cup {None}]
  BY DEF TypeOK
<1>2. /\ p \in Seq(Completion) /\ p # <<>> /\ Head(p) = E
      /\ Tail(p) = Tail(done) \o cq
  BY <1>1, QueueHead DEF E
<1>3. E \in Completion /\ ~ E.more
  BY HeadFacts DEF Completion, Ended, News
<1>4. ft[f] = None /\ \A g \in Fds : g # f => ft[g] = fdt[g]
  BY <1>1
<1>5. Shaped(sq, p, armed, conns, ctrls, fdt)
  BY ShapedNow
<1>6. /\ Wired(sq, p, armed, conns, ctrls, fdt, fin, DrainedLinks)
      /\ Flows(sq, p, conns, out, mem, fdt, fin, got, sent, Waiting)
  BY DEF WiredNow, FlowsNow
<1>7. /\ ~ cn[f].some /\ f \notin ct
      /\ \A g \in Fds : g # f => cn[g] = conns[g] /\ ft[g] = fdt[g] /\ (g \in ct <=> g \in ctrls)
  BY <1>4
<1>8. DrainedLinks' = DrainedLinks /\ Waiting' = Waiting
  BY Unmoved DEF peers, outside
<1>9. /\ Head(p).op = op /\ Head(p).fd = f /\ Head(p).res # "ok" /\ ~ Head(p).more
      /\ ~ (Head(p).op = "recv" /\ Head(p).res = "ok")
  BY <1>2, <1>3
<1> HIDE DEF p, cn, ct, ft, E
<1>10. /\ Wired(sq, Tail(p), armed, cn, ct, ft, fin, DrainedLinks)
       /\ Flows(sq, Tail(p), cn, out, mem, ft, fin, got, sent, Waiting)
  <2>1. Closing(sq, p, armed, conns, ctrls, fdt, fin, DrainedLinks, out, mem, got, sent, Waiting,
                cn, ct, ft, f, op)
    BY <1>2, <1>4, <1>5, <1>6, <1>7, <1>9 DEF Closing
  <2> QED BY <2>1, ClosedBoth
<1> QED BY <1>2, <1>8, <1>10 DEF WiredNow, FlowsNow, cn, ct, ft, peers, outside

LEMMA OnCtrlEndWiring ==
    ASSUME TypeOK, WiredNow, FlowsNow, OnCtrlEnd
    PROVE  WiredNow' /\ FlowsNow'
<1> DEFINE f == E.fd
<1>1. /\ done # <<>> /\ E.op = "ctrl" /\ E.res # "ok" /\ ctrls' = ctrls \ {f}
      /\ fdt' = [fdt EXCEPT ![f] = None] /\ done' = Tail(done)
      /\ UNCHANGED <<sq, conns, cq, armed, out, mem, ctrlq, outside>>
  BY DEF OnCtrlEnd, Handling, Handled, ring, peers, outside
<1>2. f \in Fds /\ f \in ctrls
  BY <1>1, HeadFacts DEF ForServed
<1>3. ~ conns[f].some
  <2>1. Tables(conns, ctrls, fdt)
    BY DEF WiredNow, Wired
  <2>2. Clients \cap Links = {}
    BY UringAssumption
  <2> QED BY <1>2, <2>1, <2>2 DEF Tables
<1>4. /\ ~ conns'[f].some /\ f \notin ctrls' /\ E.fd = f
      /\ \A g \in Fds : g # f => conns'[g] = conns[g] /\ (g \in ctrls' <=> g \in ctrls)
  BY <1>1, <1>3
<1> HIDE DEF f, E
<1> DEFINE op == "ctrl"
<1>5. op \in {"ctrl", "recv"} /\ E.op = op /\ (op = "recv" => Sends(sq, f) = {})
  BY <1>1
<1> HIDE DEF op
<1> QED BY <1>1, <1>2, <1>4, <1>5, ClosedSteps

LEMMA OnRecvEndWiring ==
    ASSUME TypeOK, Sending, WiredNow, FlowsNow, OnRecvEnd
    PROVE  WiredNow' /\ FlowsNow'
<1> DEFINE f == E.fd
<1>1. /\ done # <<>> /\ E.op = "recv" /\ E.res # "ok" /\ conns' = [conns EXCEPT ![f] = NoConn]
      /\ fdt' = [fdt EXCEPT ![f] = None] /\ done' = Tail(done)
      /\ UNCHANGED <<sq, ctrls, cq, armed, out, mem, ctrlq, outside>>
  BY DEF OnRecvEnd, Handling, Handled, ring, CloseClient
<1>2. f \in Fds /\ conns[f].some /\ E \in Completion /\ E.file = fdt[f]
  BY <1>1, HeadFacts DEF ForServed
<1>3. E.res \in {"ok", "fail", "nobufs"}
  BY <1>2 DEF Completion, Ended, News
<1>4. fdt[f] \in fin
  BY <1>1, <1>2, <1>3, HeadFacts
<1>5. f \notin ctrls
  <2>1. Tables(conns, ctrls, fdt)
    BY DEF WiredNow, Wired
  <2>2. Clients \cap Links = {}
    BY UringAssumption
  <2> QED BY <1>2, <2>1, <2>2 DEF Tables
<1>6. Sends(sq, f) = {}
  <2>1. \A i \in DOMAIN sq : sq[i].op = "send" => fdt[sq[i].fd] \notin fin
    <3>1. Shaped(sq, done \o cq, armed, conns, ctrls, fdt)
      BY ShapedNow
    <3>2. /\ Wired(sq, done \o cq, armed, conns, ctrls, fdt, fin, DrainedLinks)
          /\ Flows(sq, done \o cq, conns, out, mem, fdt, fin, got, sent, Waiting)
      BY DEF WiredNow, FlowsNow
    <3> DEFINE p == done \o cq
    <3> HIDE DEF p
    <3> QED BY <3>1, <3>2, SendsWanted
  <2> QED BY <1>4, <2>1 DEF Sends
<1>7. conns \in [Fds -> [some : BOOLEAN, buf : Seq(Units)]]
  BY DEF TypeOK
<1>8. /\ ~ conns'[f].some /\ f \notin ctrls' /\ E.fd = f
      /\ \A g \in Fds : g # f => conns'[g] = conns[g] /\ (g \in ctrls' <=> g \in ctrls)
  BY <1>1, <1>2, <1>5, <1>7 DEF NoConn
<1> HIDE DEF f, E
<1> DEFINE op == "recv"
<1>9. op \in {"ctrl", "recv"} /\ E.op = op /\ (op = "recv" => Sends(sq, f) = {})
  BY <1>1, <1>6
<1> HIDE DEF op
<1> QED BY <1>1, <1>2, <1>8, <1>9, ClosedSteps

---------------------------------------------------------------------------
(* The kernel's steps.                                                     *)

\* The kernel posted e, which brings no bytes, for r, and changed the requests in
\* flight to a2, the descriptors to ft2 and the waiting clients to w2.
Posting(q, p, a, cn, ct, ft, fn, dr, o, m, g, s, w, r, e, a2, ft2, w2) ==
    /\ Shaped(q, p, a, cn, ct, ft) /\ Wired(q, p, a, cn, ct, ft, fn, dr)
    /\ Flows(q, p, cn, o, m, ft, fn, g, s, w)
    /\ r \in DOMAIN a /\ e \in Completion /\ e.op = r.op /\ e.fd = r.fd /\ e.file = r.file
    /\ DOMAIN a2 \subseteq DOMAIN a /\ \A x \in DOMAIN a2 : a2[x] \in Nat \ {0}
    /\ \A x : x # r => Copies(x, a2) = Copies(x, a)
    /\ Copies(r, a) = Copies(r, a2) + (IF e.more THEN 0 ELSE 1)
    /\ r.op = "recv" => e.res = "fail" /\ r.file \in fn
    /\ r.op = "ctrl" => ~ e.more /\ (e.res # "ok" => r.file \in dr)
    /\ \A f \in Fds : ft2[f] = ft[f] \/ (Announces(e) /\ e.val = f)
    /\ Announces(e) => /\ ft[e.val] = None
                       /\ ft2[e.val] \in (IF e.op = "accept" THEN Links ELSE Clients \cap w)
    /\ w2 \subseteq w

LEMMA PostedBoth ==
    ASSUME NEW q, NEW p, NEW a, NEW cn, NEW ct, NEW ft, NEW fn, NEW dr,
           NEW o, NEW m, NEW g, NEW s, NEW w, NEW r, NEW e, NEW a2, NEW ft2, NEW w2,
           Posting(q, p, a, cn, ct, ft, fn, dr, o, m, g, s, w, r, e, a2, ft2, w2)
    PROVE  /\ Wired(q, Append(p, e), a2, cn, ct, ft2, fn, dr)
           /\ Flows(q, Append(p, e), cn, o, m, ft2, fn, g, s, w2)
<1> USE DEF Posting
<1>1. ft2[e.val] \in (IF e.op = "accept" THEN Links ELSE Clients) \/ ~ Announces(e)
  OBVIOUS
<1>2. Wired(q, Append(p, e), a2, cn, ct, ft2, fn, dr)
  <2>1. /\ r.op = "recv" => e.res # "nobufs" /\ (e.res = "fail" => r.file \in fn)
        /\ Announces(e) => /\ ft[e.val] = None
                           /\ ft2[e.val] \in (IF e.op = "accept" THEN Links ELSE Clients)
    BY <1>1
  <2> QED BY <2>1, PostedWired
<1>3. p \in Seq(Completion) /\ e \in Completion
  BY DEF Shaped
<1>4. ~ (e.op = "recv" /\ e.res = "ok")
  OBVIOUS
<1>5. \A f \in Fds : cn[f].some => ft2[f] = ft[f]
  <2>1. \A f \in Fds : cn[f].some => ft[f] \in Clients
    BY DEF Wired, Tables
  <2>2. None \notin Clients
    BY UringAssumption DEF Files
  <2> QED BY <2>1, <2>2
<1>6. \A f \in Fds : ft2[f] = ft[f] \/ ft2[f] \notin Clients \/ ft2[f] \in w
  <2>1. Clients \cap Links = {}
    BY UringAssumption
  <2> QED BY <2>1
<1>7. Flows(q, Append(p, e), cn, o, m, ft2, fn, g, s, w2)
  BY <1>3, <1>4, <1>5, <1>6, PostedFlows
<1> QED BY <1>2, <1>7

\* Such a step, on the state.
LEMMA PostedSteps ==
    ASSUME TypeOK, WiredNow, FlowsNow, NEW r \in BagToSet(armed), NEW e \in Completion,
           e.op = r.op, e.fd = r.fd, e.file = r.file, Post(e),
           (e.more /\ armed' = armed) \/ (~ e.more /\ Drop(r)),
           r.op = "recv" => e.res = "fail" /\ r.file \in fin,
           r.op = "ctrl" => ~ e.more /\ (e.res # "ok" => r.file \in DrainedLinks),
           \A f \in Fds : fdt'[f] = fdt[f] \/ (Announces(e) /\ e.val = f),
           Announces(e) =>
              /\ fdt[e.val] = None
              /\ fdt'[e.val] \in (IF e.op = "accept" THEN Links ELSE Clients \cap Waiting),
           Waiting' \subseteq Waiting, DrainedLinks \subseteq DrainedLinks',
           UNCHANGED <<program, out, mem, got, sent, fin>>
    PROVE  WiredNow' /\ FlowsNow'
<1> DEFINE p == done \o cq
           a2 == armed'
           ft2 == fdt'
           w2 == Waiting'
           dr2 == DrainedLinks'
<1>1. done \in Seq(Completion) /\ cq \in Seq(Completion)
  BY DEF TypeOK
<1>2. cq' = Append(cq, e) /\ done' = done
  BY DEF Post, program
<1>3. done' \o cq' = Append(p, e)
  BY <1>1, <1>2, AppendLater
<1>4. r \in DOMAIN armed
  BY DEF BagToSet
<1>5. Shaped(sq, p, armed, conns, ctrls, fdt)
  BY ShapedNow
<1>6. /\ Wired(sq, p, armed, conns, ctrls, fdt, fin, DrainedLinks)
      /\ Flows(sq, p, conns, out, mem, fdt, fin, got, sent, Waiting)
  BY DEF WiredNow, FlowsNow
<1>7. \A x \in DOMAIN armed : armed[x] \in Nat \ {0}
  BY <1>6 DEF Wired, Flying
<1>8. /\ DOMAIN a2 \subseteq DOMAIN armed /\ \A x \in DOMAIN a2 : a2[x] \in Nat \ {0}
      /\ \A x : x # r => Copies(x, a2) = Copies(x, armed)
      /\ Copies(r, armed) = Copies(r, a2) + (IF e.more THEN 0 ELSE 1)
  <2>1. CASE e.more /\ armed' = armed
    <3>1. Copies(r, armed) \in Nat
      BY <1>4, <1>7 DEF Copies
    <3> QED BY <1>7, <2>1, <3>1
  <2>2. CASE ~ e.more /\ Drop(r)
    BY <1>4, <1>7, <2>2, DropCopies
  <2> QED BY <2>1, <2>2
<1> HIDE DEF p, a2, ft2, w2, dr2
<1>9. Posting(sq, p, armed, conns, ctrls, fdt, fin, DrainedLinks, out, mem, got, sent, Waiting,
              r, e, a2, ft2, w2)
  BY <1>4, <1>5, <1>6, <1>8 DEF Posting, ft2, w2
<1>10. /\ Wired(sq, Append(p, e), a2, conns, ctrls, ft2, fin, DrainedLinks)
       /\ Flows(sq, Append(p, e), conns, out, mem, ft2, fin, got, sent, w2)
  BY <1>9, PostedBoth
<1>11. Wired(sq, Append(p, e), a2, conns, ctrls, ft2, fin, dr2)
  <2> DEFINE fn == fin
  <2>1. fin \subseteq fn /\ DrainedLinks \subseteq dr2
    BY DEF dr2
  <2> HIDE DEF fn
  <2>2. Wired(sq, Append(p, e), a2, conns, ctrls, ft2, fn, dr2)
    BY <1>10, <2>1, WiredMore
  <2> QED BY <2>2 DEF fn
<1> QED BY <1>3, <1>10, <1>11 DEF WiredNow, FlowsNow, a2, ft2, w2, dr2, program

\* What the wiring says of a request in flight.
LEMMA ArmedFacts ==
    ASSUME TypeOK, WiredNow, NEW r \in BagToSet(armed)
    PROVE  /\ r \in Requests /\ r.op \in {"accept", "ctrl", "recv"}
           /\ r.op = "ctrl" => r.fd \in Fds /\ r.file = fdt[r.fd] /\ r.file \in Links
           /\ r.op = "recv" => /\ r.fd \in Fds /\ r.file = fdt[r.fd] /\ r.file \in Clients
                               /\ conns[r.fd].some
<1>1. r \in Requests /\ r \in DOMAIN armed
  BY DEF TypeOK, BagToSet
<1>2. r.op # "accept" => r.fd \in Fds /\ r.op \in {"ctrl", "recv"}
  BY <1>1, RequestCases
<1>3. /\ ForServed(r.op, r.fd, conns, ctrls)
      /\ r.op # "accept" => r.file = fdt[r.fd]
      /\ Tables(conns, ctrls, fdt)
  BY <1>1 DEF WiredNow, Wired, Flying
<1> QED BY <1>1, <1>2, <1>3 DEF ForServed, Tables

\* A link that loses a message was not drained, and nobody waits who did not.
LEMMA TakenFromLink ==
    ASSUME TypeOK, NEW l \in Links, ctrlq[l] # <<>>,
           ctrlq' = [ctrlq EXCEPT ![l] = Tail(ctrlq[l])], UNCHANGED <<lbEnd, handed>>
    PROVE  Waiting' \subseteq Waiting /\ DrainedLinks \subseteq DrainedLinks'
<1>1. Shrunk
  BY TailShrinks
<1>2. Waiting' \subseteq Waiting
  <2> SUFFICES ASSUME NEW c \in Waiting' PROVE c \in Waiting
    OBVIOUS
  <2>1. c \in Clients
    BY DEF Waiting
  <2>2. CASE c \notin handed
    BY <2>1, <2>2 DEF Waiting
  <2>3. CASE c \in handed
    <3>0. PICK k \in Links : \E i \in DOMAIN ctrlq'[k] : ctrlq'[k][i] = c
      BY <2>3 DEF Waiting
    <3>1. PICK i \in DOMAIN ctrlq'[k] : ctrlq'[k][i] = c
      BY <3>0
    <3>2. PICK d \in {0, 1} : i + d \in DOMAIN ctrlq[k] /\ ctrlq'[k][i] = ctrlq[k][i + d]
      BY <1>1 DEF Shrunk
    <3> QED BY <2>1, <3>1, <3>2 DEF Waiting
  <2> QED BY <2>2, <2>3
<1>3. \A k \in Links : k # l => ctrlq'[k] = ctrlq[k]
  BY DEF TypeOK
<1>4. DrainedLinks \subseteq DrainedLinks'
  BY <1>3 DEF DrainedLinks, Drained
<1> QED BY <1>2, <1>4

LEMMA KernelAcceptWiring ==
    ASSUME TypeOK, WiredNow, FlowsNow, NEW r \in BagToSet(armed), NEW l \in backlog,
           KernelAccept(r, l)
    PROVE  WiredNow' /\ FlowsNow'
<1> DEFINE f == LowestFd
           e == Cqe(r, "ok", f, TRUE)
<1>1. /\ r.op = "accept" /\ f \in Fds /\ fdt[f] = None /\ l \in Links
      /\ fdt' = [fdt EXCEPT ![f] = l] /\ Post(e) /\ armed' = armed
      /\ UNCHANGED <<program, out, mem, got, sent, fin, ctrlq, lbEnd, handed>>
  BY LowestFdIsFree DEF KernelAccept, peers, outside, TypeOK
<1>2. e \in Completion
  <2>1. r \in Requests
    BY DEF TypeOK
  <2> QED BY <1>1, <2>1, PostedTypes
<1>3. e.op = r.op /\ e.fd = r.fd /\ e.file = r.file /\ e.more /\ e.res = "ok" /\ e.val = f
  BY DEF Cqe
<1> HIDE DEF f, e
<1>4. fdt'[f] = l /\ \A g \in Fds : g # f => fdt'[g] = fdt[g]
  BY <1>1 DEF TypeOK
<1>5. Announces(e)
  BY <1>1, <1>3, UringAssumption DEF Announces
<1>6. Waiting' = Waiting /\ DrainedLinks' = DrainedLinks
  BY <1>1, Unmoved
<1>7. /\ \A g \in Fds : fdt'[g] = fdt[g] \/ (Announces(e) /\ e.val = g)
      /\ fdt[e.val] = None
      /\ fdt'[e.val] \in (IF e.op = "accept" THEN Links ELSE Clients \cap Waiting)
  BY <1>1, <1>3, <1>4, <1>5
<1>8. r.op # "recv" /\ r.op # "ctrl"
  BY <1>1
<1> QED BY <1>1, <1>2, <1>3, <1>6, <1>7, <1>8, PostedSteps

\* A request ends without anything new.
LEMMA EndedWiring ==
    ASSUME TypeOK, WiredNow, FlowsNow, NEW r \in BagToSet(armed), NEW e \in Completion,
           e.op = r.op, e.fd = r.fd, e.file = r.file, ~ e.more, e.val = None, Post(e), Drop(r),
           r.op = "recv" => e.res = "fail" /\ r.file \in fin,
           r.op = "ctrl" => (e.res # "ok" => r.file \in DrainedLinks),
           Waiting' \subseteq Waiting, DrainedLinks \subseteq DrainedLinks',
           UNCHANGED <<program, fdt, out, mem, got, sent, fin>>
    PROVE  WiredNow' /\ FlowsNow'
<1>1. ~ Announces(e) /\ \A g \in Fds : fdt'[g] = fdt[g]
  BY DEF Announces
<1> QED BY <1>1, PostedSteps

LEMMA KernelAcceptEndWiring ==
    ASSUME TypeOK, WiredNow, FlowsNow, NEW r \in BagToSet(armed), KernelAcceptEnd(r)
    PROVE  WiredNow' /\ FlowsNow'
<1> DEFINE e == Cqe(r, "fail", None, FALSE)
<1>1. /\ r.op = "accept" /\ Post(e) /\ Drop(r)
      /\ UNCHANGED <<program, fdt, out, mem, got, sent, fin, ctrlq, lbEnd, handed>>
  BY DEF KernelAcceptEnd, kernel, outside
<1>2. e \in Completion
  <2>1. r \in Requests
    BY DEF TypeOK
  <2> QED BY <2>1, PostedTypes
<1>3. e.op = r.op /\ e.fd = r.fd /\ e.file = r.file /\ ~ e.more /\ e.val = None
  BY DEF Cqe
<1>4. Waiting' = Waiting /\ DrainedLinks' = DrainedLinks
  BY <1>1, Unmoved
<1>5. r.op # "recv" /\ r.op # "ctrl"
  BY <1>1
<1> HIDE DEF e
<1> QED BY <1>1, <1>2, <1>3, <1>4, <1>5, EndedWiring

LEMMA KernelCtrlEndWiring ==
    ASSUME TypeOK, WiredNow, FlowsNow, NEW r \in BagToSet(armed), KernelCtrlEnd(r)
    PROVE  WiredNow' /\ FlowsNow'
<1> DEFINE e == Cqe(r, "fail", None, FALSE)
<1>1. /\ r.op = "ctrl" /\ Post(e) /\ Drop(r) /\ (r.file \in Clients \/ Drained(r.file))
      /\ UNCHANGED <<program, fdt, out, mem, got, sent, fin, ctrlq, lbEnd, handed>>
  BY DEF KernelCtrlEnd, kernel, peers, outside
<1>2. e \in Completion
  <2>1. r \in Requests
    BY DEF TypeOK
  <2> QED BY <2>1, PostedTypes
<1>3. e.op = r.op /\ e.fd = r.fd /\ e.file = r.file /\ ~ e.more /\ e.val = None
  BY DEF Cqe
<1>4. Waiting' = Waiting /\ DrainedLinks' = DrainedLinks
  BY <1>1, Unmoved
<1>5. r.op # "recv" /\ r.file \in DrainedLinks
  <2>1. r.file \in Links
    BY <1>1, ArmedFacts
  <2>2. Clients \cap Links = {}
    BY UringAssumption
  <2> QED BY <1>1, <2>1, <2>2 DEF DrainedLinks
<1> HIDE DEF e
<1> QED BY <1>1, <1>2, <1>3, <1>4, <1>5, EndedWiring

LEMMA KernelRecvEndWiring ==
    ASSUME TypeOK, WiredNow, FlowsNow, NEW r \in BagToSet(armed), KernelRecvEnd(r)
    PROVE  WiredNow' /\ FlowsNow'
<1> DEFINE e == Cqe(r, "fail", None, FALSE)
<1>1. /\ r.op = "recv" /\ Post(e) /\ Drop(r) /\ (r.file \in fin \/ Drained(r.file))
      /\ UNCHANGED <<program, fdt, out, mem, got, sent, fin, ctrlq, lbEnd, handed>>
  BY DEF KernelRecvEnd, kernel, peers, outside
<1>2. e \in Completion
  <2>1. r \in Requests
    BY DEF TypeOK
  <2> QED BY <2>1, PostedTypes
<1>3. /\ e.op = r.op /\ e.fd = r.fd /\ e.file = r.file /\ ~ e.more /\ e.val = None
      /\ e.res = "fail"
  BY DEF Cqe
<1>4. Waiting' = Waiting /\ DrainedLinks' = DrainedLinks
  BY <1>1, Unmoved
<1>5. r.op # "ctrl" /\ r.file \in fin
  <2>1. r.file \in Clients
    BY <1>1, ArmedFacts
  <2>2. Clients \cap Links = {}
    BY UringAssumption
  <2> QED BY <1>1, <2>1, <2>2 DEF Drained
<1> HIDE DEF e
<1> QED BY <1>1, <1>2, <1>3, <1>4, <1>5, EndedWiring

LEMMA KernelCtrlWiring ==
    ASSUME TypeOK, WiredNow, FlowsNow, NEW r \in BagToSet(armed), KernelCtrl(r)
    PROVE  WiredNow' /\ FlowsNow'
<1> DEFINE f == LowestFd
           l == r.file
           c == ctrlq[r.file][1]
           e == Cqe(r, "ok", f, FALSE)
<1>1. /\ r \in Requests /\ r.op = "ctrl" /\ l \in Links /\ f \in Fds /\ fdt[f] = None
      /\ 1 \in DOMAIN ctrlq[l] /\ c \in Clients /\ c = ctrlq[l][1] /\ ctrlq[l] # <<>>
      /\ ctrlq' = [ctrlq EXCEPT ![l] = Tail(ctrlq[l])]
      /\ fdt' = [fdt EXCEPT ![f] = c]
  BY KernelCtrlEffect
<1>2. /\ Post(e) /\ Drop(r)
      /\ UNCHANGED <<program, out, mem, got, sent, fin, lbEnd, handed>>
  BY DEF KernelCtrl, peers, outside
<1>3. e \in Completion
  BY <1>1, PostedTypes
<1>4. e.op = r.op /\ e.fd = r.fd /\ e.file = r.file /\ ~ e.more /\ e.res = "ok" /\ e.val = f
  BY DEF Cqe
<1> HIDE DEF f, e, l, c
<1>5. fdt'[f] = c /\ \A g \in Fds : g # f => fdt'[g] = fdt[g]
  BY <1>1 DEF TypeOK
<1>6. Announces(e)
  BY <1>1, <1>4, UringAssumption DEF Announces
<1>7. Waiting' \subseteq Waiting /\ DrainedLinks \subseteq DrainedLinks'
  BY <1>1, <1>2, TakenFromLink
<1>8. c \in Waiting
  BY <1>1 DEF Waiting
<1>9. /\ \A g \in Fds : fdt'[g] = fdt[g] \/ (Announces(e) /\ e.val = g)
      /\ fdt[e.val] = None
      /\ fdt'[e.val] \in (IF e.op = "accept" THEN Links ELSE Clients \cap Waiting)
  BY <1>1, <1>4, <1>5, <1>6, <1>8
<1>10. r.op # "recv"
  BY <1>1
<1> QED BY <1>2, <1>3, <1>4, <1>7, <1>9, <1>10, PostedSteps

LEMMA KernelCtrlLostWiring ==
    ASSUME TypeOK, WiredNow, FlowsNow, NEW r \in BagToSet(armed), KernelCtrlLost(r)
    PROVE  WiredNow' /\ FlowsNow'
<1> DEFINE e == Cqe(r, "ok", None, FALSE)
           l == r.file
<1>1. /\ r.op = "ctrl" /\ Post(e) /\ Drop(r) /\ l \in Links /\ ctrlq[l] # <<>>
      /\ ctrlq' = [ctrlq EXCEPT ![l] = Tail(ctrlq[l])]
      /\ UNCHANGED <<program, fdt, out, mem, got, sent, fin, lbEnd, handed>>
  BY DEF KernelCtrlLost, outside
<1>2. e \in Completion
  <2>1. r \in Requests
    BY DEF TypeOK
  <2> QED BY <1>1, <2>1, PostedTypes
<1>3. e.op = r.op /\ e.fd = r.fd /\ e.file = r.file /\ ~ e.more /\ e.val = None /\ e.res = "ok"
  BY DEF Cqe
<1> HIDE DEF l
<1>4. Waiting' \subseteq Waiting /\ DrainedLinks \subseteq DrainedLinks'
  BY <1>1, TakenFromLink
<1>5. r.op # "recv"
  BY <1>1
<1> HIDE DEF e
<1> QED BY <1>1, <1>2, <1>3, <1>4, <1>5, EndedWiring

\* The buffers that completions name: no two the same, none that is in the ring.
LEMMA NamesApart ==
    ASSUME TypeOK, RingBook, NEW b \in Bids
    PROVE  /\ done \o cq \in Seq(Completion)
           /\ Count(pool, {b}) + Count(done \o cq, Named(b)) = 1
           /\ Count(pool, {b}) \in Nat /\ Count(done \o cq, Named(b)) \in Nat
<1>1. done \in Seq(Completion) /\ cq \in Seq(Completion)
  BY DEF TypeOK
<1>2. Count(done \o cq, Named(b)) = Count(done, Named(b)) + Count(cq, Named(b))
  BY <1>1, CountConcat
<1>3. /\ Count(pool, {b}) \in Nat /\ Count(cq, Named(b)) \in Nat /\ Count(done, Named(b)) \in Nat
  BY BookNat
<1>4. Count(pool, {b}) + Count(cq, Named(b)) + Count(done, Named(b)) = 1
  BY DEF RingBook
<1> QED BY <1>1, <1>2, <1>3, <1>4, ConcatProperties

LEMMA PoolUnnamed ==
    ASSUME TypeOK, RingBook, pool # <<>>
    PROVE  /\ Head(pool) \in Bids
           /\ \A i \in DOMAIN (done \o cq) :
                 (done \o cq)[i].op = "recv" /\ (done \o cq)[i].res = "ok" =>
                    (done \o cq)[i].val \in Bids /\ (done \o cq)[i].val # Head(pool)
<1> DEFINE p == done \o cq
           b == Head(pool)
<1>1. pool \in Seq(Bids)
  BY DEF TypeOK
<1>2. b \in Bids /\ 1 \in DOMAIN pool /\ pool[1] = b
  BY <1>1, HeadOff
<1>3. /\ p \in Seq(Completion) /\ Count(pool, {b}) + Count(p, Named(b)) = 1
      /\ Count(pool, {b}) \in Nat /\ Count(p, Named(b)) \in Nat
  BY <1>2, NamesApart
<1> HIDE DEF p, b
<1>4. Count(pool, {b}) # 0
  BY <1>1, <1>2, CountNone
<1>5. Count(p, Named(b)) = 0
  BY <1>3, <1>4
<1>6. \A i \in DOMAIN p : p[i] \in Completion /\ p[i] \notin Named(b)
  <2>1. \A i \in DOMAIN p : p[i] \notin Named(b)
    BY <1>3, <1>5, CountNone
  <2>2. \A i \in DOMAIN p : p[i] \in Completion
    BY <1>3, ElementOfSeq, LenProperties
  <2> QED BY <2>1, <2>2
<1>7. \A i \in DOMAIN p : p[i].op = "recv" /\ p[i].res = "ok" => p[i].val \in Bids /\ p[i].val # b
  BY <1>6, CompletionCases DEF Named
<1> QED BY <1>2, <1>7 DEF p, b

LEMMA TakenCopies ==
    ASSUME NEW r \in DOMAIN armed, \A x \in DOMAIN armed : armed[x] \in Nat \ {0},
           NEW more \in BOOLEAN, IF more THEN UNCHANGED armed ELSE Drop(r)
    PROVE  /\ DOMAIN armed' \subseteq DOMAIN armed
           /\ \A x \in DOMAIN armed' : armed'[x] \in Nat \ {0}
           /\ \A x : x # r => Copies(x, armed') = Copies(x, armed)
           /\ Copies(r, armed) = Copies(r, armed') + (IF more THEN 0 ELSE 1)
<1>1. CASE more
  <2>1. Copies(r, armed) \in Nat
    BY DEF Copies
  <2> QED BY <1>1, <2>1
<1>2. CASE ~ more
  BY <1>2, DropCopies
<1> QED BY <1>1, <1>2

LEMMA KernelRecvWiring ==
    ASSUME TypeOK, RingBook, OnePlace, WiredNow, FlowsNow,
           NEW r \in BagToSet(armed), NEW more \in BOOLEAN, KernelRecv(r, more)
    PROVE  WiredNow' /\ FlowsNow'
<1> DEFINE p == done \o cq
           c == r.file
           f == r.fd
           b == Head(pool)
           ch == Chunk(r.file)
           e == Cqe(r, "ok", b, more)
           a2 == armed'
           m2 == mem'
           g2 == got'
<1>1. /\ r.op = "recv" /\ Incoming(c) /\ pool # <<>> /\ m2 = [mem EXCEPT ![b] = ch]
      /\ g2 = [x \in Clients |-> IF x = c THEN got[x] + Len(Chunk(x)) ELSE got[x]]
      /\ (IF more THEN UNCHANGED armed ELSE Drop(r)) /\ cq' = Append(cq, e)
      /\ UNCHANGED <<sq, done, conns, ctrls, out, fdt, lbEnd, sent, fin, handed>>
  BY DEF KernelRecv, program, Post
<1>2. r \in Requests /\ f \in Fds /\ c = fdt[f] /\ c \in Clients /\ conns[f].some
  BY <1>1, ArmedFacts
<1>3. ctrlq' = ctrlq
  <2>1. c \notin Links
    BY <1>2, UringAssumption
  <2> QED BY <2>1, RecvQueues
<1>4. DrainedLinks' = DrainedLinks /\ Waiting' = Waiting
  BY <1>1, <1>3, Unmoved
<1>5. /\ ch \in Seq(Units) /\ Len(ch) \in Nat \ {0}
      /\ \A i \in 1..Len(ch) : ch[i] = <<c, got[c] + i>>
  BY <1>1, <1>2, ChunkType DEF Files
<1>6. /\ b \in Bids
      /\ \A i \in DOMAIN p : p[i].op = "recv" /\ p[i].res = "ok" => p[i].val \in Bids /\ p[i].val # b
  BY <1>1, PoolUnnamed
<1>7. e \in Completion
  BY <1>1, <1>2, <1>6, PostedTypes
<1>8. /\ e.op = "recv" /\ e.op = r.op /\ e.fd = f /\ e.file = c /\ e.res = "ok" /\ e.val = b
      /\ e.more = more
  BY <1>1 DEF Cqe
<1>9. done \in Seq(Completion) /\ cq \in Seq(Completion) /\ r \in DOMAIN armed
      /\ mem \in [Bids -> Seq(Units)] /\ got \in [Clients -> Nat]
  BY DEF TypeOK, BagToSet
<1>10. done' \o cq' = Append(p, e) /\ p \in Seq(Completion)
  BY <1>1, <1>7, <1>9, AppendLater
<1>11. Shaped(sq, p, armed, conns, ctrls, fdt)
  BY ShapedNow
<1>12. /\ Wired(sq, p, armed, conns, ctrls, fdt, fin, DrainedLinks)
       /\ Flows(sq, p, conns, out, mem, fdt, fin, got, sent, Waiting)
  BY DEF WiredNow, FlowsNow
<1>13. \A x \in DOMAIN armed : armed[x] \in Nat \ {0}
  BY <1>12 DEF Wired, Flying
<1>14. /\ DOMAIN a2 \subseteq DOMAIN armed /\ \A x \in DOMAIN a2 : a2[x] \in Nat \ {0}
       /\ \A x : x # r => Copies(x, a2) = Copies(x, armed)
       /\ Copies(r, armed) = Copies(r, a2) + (IF more THEN 0 ELSE 1)
  BY <1>1, <1>9, <1>13, TakenCopies
<1>15. /\ g2[c] = got[c] + Len(ch) /\ \A d \in Clients : d # c => g2[d] = got[d]
  BY <1>1, <1>2
<1>16. /\ c \notin Waiting
       /\ \A h \in Fds : (conns[h].some => fdt[h] \in Clients) /\ (fdt[h] = c => h = f)
  <2>1. \A h \in Fds : conns[h].some => fdt[h] \in Clients
    BY <1>12 DEF Wired, Tables
  <2> QED BY <1>2, <2>1, ServedArrived
<1>20. m2[b] = ch /\ \A x \in Bids : x # b => m2[x] = mem[x]
  BY <1>1, <1>6, <1>9
<1> HIDE DEF p, c, f, b, ch, e, a2, m2, g2
<1>17. Receiving(p, conns, fdt, e, f, c, b, ch, mem, m2, got, g2, Waiting)
  BY <1>1, <1>2, <1>5, <1>6, <1>7, <1>8, <1>9, <1>10, <1>15, <1>16, <1>20 DEF Receiving
<1>18. Flows(sq, Append(p, e), conns, out, m2, fdt, fin, g2, sent, Waiting)
  BY <1>12, <1>17, ReceivedFlows
<1>19. Wired(sq, Append(p, e), a2, conns, ctrls, fdt, fin, DrainedLinks)
  <2> DEFINE ft2 == fdt
  <2>1. /\ \A h \in Fds : ft2[h] = fdt[h] \/ (Announces(e) /\ e.val = h)
        /\ ~ Announces(e)
    BY <1>8 DEF Announces
  <2> HIDE DEF ft2
  <2>2. /\ r.op = "recv" => e.res # "nobufs" /\ (e.res = "fail" => r.file \in fin)
        /\ r.op = "ctrl" => ~ e.more /\ (e.res # "ok" => r.file \in DrainedLinks)
        /\ e.op = r.op /\ e.fd = r.fd /\ e.file = r.file
        /\ Copies(r, armed) = Copies(r, a2) + (IF e.more THEN 0 ELSE 1)
    BY <1>1, <1>8, <1>14 DEF c, f
  <2>3. Wired(sq, Append(p, e), a2, conns, ctrls, ft2, fin, DrainedLinks)
    BY <1>7, <1>9, <1>11, <1>12, <1>14, <2>1, <2>2, PostedWired
  <2> QED BY <2>3 DEF ft2
<1> QED BY <1>1, <1>4, <1>10, <1>18, <1>19 DEF WiredNow, FlowsNow, a2, m2, g2

\* The other completions with bytes name other buffers.
LEMMA HeadNamed ==
    ASSUME TypeOK, RingBook, done # <<>>, E.op = "recv", E.res = "ok"
    PROVE  /\ E.val \in Bids
           /\ \A h \in Fds : \A i \in Feed(done \o cq, h) :
                 /\ (done \o cq)[i].val \in Bids
                 /\ i # 1 => (done \o cq)[i].val # E.val
<1> DEFINE p == done \o cq
           b == E.val
<1>1. done \in Seq(Completion) /\ cq \in Seq(Completion)
  BY DEF TypeOK
<1>2. p \in Seq(Completion) /\ p # <<>> /\ Head(p) = E
  BY <1>1, QueueHead DEF E
<1>3. 1 \in DOMAIN p /\ p[1] = E /\ E \in Completion
  BY <1>2, HeadOff
<1>4. b \in Bids
  BY <1>3, CompletionCases
<1>5. /\ Count(pool, {b}) + Count(p, Named(b)) = 1
      /\ Count(pool, {b}) \in Nat /\ Count(p, Named(b)) \in Nat
  BY <1>4, NamesApart
<1>6. p[1] \in Named(b)
  BY <1>3 DEF Named
<1> HIDE DEF p
<1>7. Count(p, Named(b)) = 1
  <2>1. Count(p, Named(b)) # 0
    BY <1>2, <1>3, <1>6, CountNone
  <2> QED BY <1>5, <2>1
<1>8. \A i \in DOMAIN p : p[i] \in Completion
  BY <1>2, ElementOfSeq, LenProperties
<1>9. ASSUME NEW h \in Fds, NEW i \in Feed(p, h)
      PROVE  p[i].val \in Bids /\ (i # 1 => p[i].val # b)
  <2>1. i \in DOMAIN p /\ p[i] \in Completion /\ p[i].op = "recv" /\ p[i].res = "ok"
    BY <1>8 DEF Feed
  <2>2. p[i].val \in Bids
    BY <2>1, CompletionCases
  <2>3. p[i].val = b => p[i] \in Named(b)
    BY <2>1 DEF Named
  <2>4. p[i] \in Named(b) => i = 1
    BY <1>2, <1>3, <1>6, <1>7, <2>1, CountOnce
  <2> QED BY <2>2, <2>3, <2>4
<1> QED BY <1>4, <1>9 DEF p

\* The answers to what is in the buffer.
LEMMA AnswersFacts ==
    ASSUME TypeOK, E.fd \in Fds, E.val \in Bids, Fits(E.fd)
    PROVE  /\ Buf \in Seq(Units) /\ Answers \in Seq(Sqes)
           /\ Len(Answers) = Cardinality(Answered(Buf))
           /\ \A j \in 1..Len(Answers) : \E i \in Answered(Buf) :
                 Rank(i, Answered(Buf)) = j /\ Answers[j] = Sqe("send", E.fd, Buf[i])
           /\ \A j \in DOMAIN Answers : Answers[j].op = "send" /\ Answers[j].fd = E.fd
<1> DEFINE I == Answered(Buf)
           a == [i \in DOMAIN Buf |-> Sqe("send", E.fd, Buf[i])]
<1>1. Answers = Part(a, I)
  BY DEF Answers, Answered
<1>2. Buf \in Seq(Units) /\ Answers \in Seq(Sqes) /\ Len(Buf) \in Nat
  BY BufType
<1>3. DOMAIN Buf = 1..Len(Buf) /\ \A i \in DOMAIN Buf : Buf[i] \in Units
  BY <1>2, LenProperties, ElementOfSeq
<1>4. IsFiniteSet(1..Len(Buf)) /\ I \in SUBSET (1..Len(Buf)) /\ I \subseteq DOMAIN Buf
  BY SMTT(30), <1>2, <1>3, FS_Interval DEF Answered, Ends
<1>5. I \in SUBSET Nat /\ IsFiniteSet(I)
  BY <1>4, FS_Subset
<1>6. \A i \in I : a[i] \in Sqes /\ a[i] = Sqe("send", E.fd, Buf[i])
  BY <1>3, <1>4, SqeTypes
<1> HIDE DEF a, I
<1>7. /\ Part(a, I) \in Seq(Sqes) /\ Len(Part(a, I)) = Cardinality(I)
      /\ \A k \in 1..Cardinality(I) : \E i \in I : Rank(i, I) = k /\ Part(a, I)[k] = a[i]
  BY <1>5, <1>6, PartProperties
<1> DEFINE s == Answers
<1>8. s = Part(a, I)
  BY <1>1
<1>9. s \in Seq(Sqes) /\ DOMAIN s = 1..Len(s)
  BY <1>2, LenProperties
<1> HIDE DEF s
<1>10. \A j \in 1..Len(s) : \E i \in I : Rank(i, I) = j /\ s[j] = Sqe("send", E.fd, Buf[i])
  BY <1>6, <1>7, <1>8
<1>11. \A j \in DOMAIN s : s[j].op = "send" /\ s[j].fd = E.fd
  BY <1>9, <1>10 DEF Sqe
<1> QED BY <1>2, <1>7, <1>8, <1>10, <1>11 DEF s, I

\* The receive is armed again if it ended.
RecvAgain == IF E.more THEN <<>> ELSE <<Sqe("recv", E.fd, None)>>

LEMMA RecvAgainFacts ==
    ASSUME E.fd \in Fds, E \in Completion, E.op = "recv"
    PROVE  /\ RecvAgain \in Seq(Sqes)
           /\ \A i \in DOMAIN RecvAgain : RecvAgain[i].op = "recv" /\ RecvAgain[i].fd = E.fd
           /\ \A op \in {"ctrl", "recv"}, f \in Fds :
                 Count(RecvAgain, SqOf(op, f)) = IF E \in CqOf(op, f) THEN 1 ELSE 0
<1> DEFINE x == Sqe("recv", E.fd, None)
<1>1. x \in Sqes /\ x.op = "recv" /\ x.fd = E.fd
  BY DEF Sqe, Sqes
<1>2. RecvAgain = IF E.more THEN <<>> ELSE <<x>>
  BY DEF RecvAgain
<1>3. \A op \in {"ctrl", "recv"}, f \in Fds :
         /\ x \in SqOf(op, f) <=> op = "recv" /\ f = E.fd
         /\ E \in CqOf(op, f) <=> op = "recv" /\ f = E.fd /\ ~ E.more
  BY <1>1 DEF SqOf, CqOf
<1> HIDE DEF x
<1>4. \A V : Count(<<x>>, V) = (IF x \in V THEN 1 ELSE 0) /\ Count(<<>>, V) = 0
  BY CountSingle, CountEmpty
<1>5. CASE E.more
  <2>1. RecvAgain = <<>>
    BY <1>2, <1>5
  <2> QED BY <1>3, <1>4, <1>5, <2>1
<1>6. CASE ~ E.more
  <2>1. RecvAgain = <<x>>
    BY <1>2, <1>6
  <2>2. <<x>> \in Seq(Sqes) /\ \A i \in DOMAIN <<x>> : <<x>>[i] = x
    BY <1>1
  <2>3. \A op \in {"ctrl", "recv"}, f \in Fds :
           Count(RecvAgain, SqOf(op, f)) = IF E \in CqOf(op, f) THEN 1 ELSE 0
    BY <1>3, <1>4, <1>6, <2>1
  <2> QED BY <1>1, <2>1, <2>2, <2>3
<1> QED BY <1>5, <1>6

LEMMA OnRecvEffect ==
    ASSUME TypeOK, WiredNow, OnRecv
    PROVE  /\ done # <<>> /\ E.op = "recv" /\ E.res = "ok" /\ Fits(E.fd) /\ Bads(Buf) = {}
           /\ E \in Completion /\ E.fd \in Fds /\ E.val \in Bids
           /\ conns[E.fd].some /\ fdt[E.fd] \in Clients
           /\ mem' = [mem EXCEPT ![E.val] = <<>>]
           /\ conns' = [conns EXCEPT ![E.fd] = Conn(SubSeq(Buf, Consumed(Buf) + 1, Len(Buf)))]
           /\ Push(Answers \o RecvAgain)
           /\ done' = Tail(done) /\ UNCHANGED <<ctrls, fdt, ctrlq, outside>>
<1>1. /\ done # <<>> /\ E.op = "recv" /\ E.res = "ok" /\ Fits(E.fd) /\ Bads(Buf) = {}
      /\ mem' = [mem EXCEPT ![E.val] = <<>>] /\ conns' = [conns EXCEPT ![E.fd] = Leftover]
      /\ Push(Answers \o RecvAgain)
      /\ done' = Tail(done) /\ UNCHANGED <<ctrls, fdt, ctrlq, outside>>
  BY DEF OnRecv, Handling, Handled, Recycle, RecvAgain, peers, outside
<1>2. E \in Completion /\ E.fd \in Fds /\ conns[E.fd].some
  BY <1>1, HeadFacts DEF ForServed
<1>3. E.val \in Bids
  BY <1>1, <1>2, CompletionCases
<1>4. fdt[E.fd] \in Clients
  BY <1>2 DEF WiredNow, Wired, Tables
<1> QED BY <1>1, <1>2, <1>3, <1>4 DEF Leftover

LEMMA OnRecvFlows ==
    ASSUME TypeOK, RingBook, Sending, WiredNow, FlowsNow, OnRecv
    PROVE  /\ sq \in Seq(Sqes) /\ done \o cq \in Seq(Completion)
           /\ Flows(sq \o (Answers \o RecvAgain), Tail(done \o cq), conns', out, mem', fdt, fin,
                    got, sent, Waiting)
<1> DEFINE p == done \o cq
           f == E.fd
           b == E.val
           B == Buf
           A == Answers
           r == RecvAgain
           cn2 == conns'
           m2 == mem'
<1>1. /\ done # <<>> /\ E.op = "recv" /\ E.res = "ok" /\ Fits(f) /\ Bads(B) = {}
      /\ E \in Completion /\ f \in Fds /\ b \in Bids
      /\ conns[f].some /\ fdt[f] \in Clients
      /\ m2 = [mem EXCEPT ![b] = <<>>]
      /\ cn2 = [conns EXCEPT ![f] = Conn(SubSeq(B, Consumed(B) + 1, Len(B)))]
  BY OnRecvEffect
<1>2. /\ sq \in Seq(Sqes) /\ done \in Seq(Completion) /\ cq \in Seq(Completion)
      /\ conns \in [Fds -> [some : BOOLEAN, buf : Seq(Units)]]
      /\ mem \in [Bids -> Seq(Units)] /\ got \in [Clients -> Nat]
      /\ out \in [Clients -> Seq(Units)]
  BY DEF TypeOK
<1>3. p \in Seq(Completion) /\ p # <<>> /\ Head(p) = E
  BY <1>1, <1>2, QueueHead DEF E
<1>4. Flows(sq, p, conns, out, mem, fdt, fin, got, sent, Waiting)
  BY DEF FlowsNow
<1>5. \A h \in Fds : conns[h].some => fdt[h] \in Clients
  BY DEF WiredNow, Wired, Tables
<1>6. \A h \in Fds : \A i \in Feed(p, h) : p[i].val \in Bids /\ (i # 1 => p[i].val # b)
  BY <1>1, HeadNamed
<1>7. \A x \in Bids : x # b => m2[x] = mem[x]
  BY <1>1, <1>2
<1>8. got[fdt[f]] <= Len(Stream[fdt[f]])
  <2>1. /\ got[fdt[f]] <= sent[fdt[f]] /\ sent[fdt[f]] <= Len(Stream[fdt[f]])
        /\ got[fdt[f]] \in Nat /\ sent[fdt[f]] \in Nat /\ Len(Stream[fdt[f]]) \in Nat
    BY <1>1, StreamLen DEF Sending, TypeOK
  <2> DEFINE x == got[fdt[f]]
             y == sent[fdt[f]]
             z == Len(Stream[fdt[f]])
  <2>2. x <= y /\ y <= z /\ x \in Nat /\ y \in Nat /\ z \in Nat
    BY <2>1
  <2> HIDE DEF x, y, z
  <2>3. x <= z
    BY <2>2
  <2> QED BY <2>3 DEF x, z
<1>9. Joined(B, conns[f].buf, mem[b])
  BY DEF Joined, Buf, Data
<1>10. /\ A \in Seq(Sqes) /\ Len(A) = Cardinality(Answered(B))
       /\ \A j \in 1..Len(A) : \E i \in Answered(B) :
             Rank(i, Answered(B)) = j /\ A[j] = Sqe("send", f, B[i])
  BY <1>1, AnswersFacts
<1>11. r \in Seq(Sqes) /\ \A i \in DOMAIN r : r[i].op # "send"
  BY <1>1, RecvAgainFacts
<1>12. /\ cn2[f] = Conn(SubSeq(B, Consumed(B) + 1, Len(B)))
       /\ \A h \in Fds : h # f => cn2[h] = conns[h]
  BY <1>1, <1>2
<1>13. /\ Head(p).op = "recv" /\ Head(p).res = "ok" /\ Head(p).fd = f /\ Head(p).val = b
  BY <1>1, <1>3
<1> HIDE DEF p, f, b, B, A, r, cn2, m2, E
<1>14. Serving(sq, p, conns, cn2, fdt, f, mem, m2, got, out, B, A, r)
  BY <1>1, <1>2, <1>3, <1>5, <1>6, <1>7, <1>8, <1>9, <1>10, <1>11, <1>12, <1>13 DEF Serving
<1>15. Flows(sq \o (A \o r), Tail(p), cn2, out, m2, fdt, fin, got, sent, Waiting)
  BY <1>4, <1>14, ServedFlows
<1> QED BY <1>2, <1>3, <1>15 DEF p, A, r, cn2, m2

\* The answers and the receive, if it ended.
LEMMA RecvPushes ==
    ASSUME TypeOK, OnRecv
    PROVE  /\ Answers \o RecvAgain \in Seq(Sqes)
           /\ \A i \in DOMAIN (Answers \o RecvAgain) :
                 /\ (Answers \o RecvAgain)[i].op \in {"send", "recv"}
                 /\ (Answers \o RecvAgain)[i].fd = E.fd
           /\ \A op \in {"ctrl", "recv"}, f \in Fds :
                 Count(Answers \o RecvAgain, SqOf(op, f)) = IF E \in CqOf(op, f) THEN 1 ELSE 0
<1> DEFINE A == Answers
           r == RecvAgain
           f == E.fd
<1>1. f \in Fds /\ E \in Completion /\ E.op = "recv" /\ E.val \in Bids /\ Fits(f)
  <2>1. Handling("recv") /\ Handled /\ E.op = "recv" /\ E.res = "ok" /\ Fits(f)
    BY DEF OnRecv, Handling
  <2>2. E \in Completion
    BY <2>1, HandledType
  <2> QED BY <2>1, <2>2, CompletionCases
<1>2. A \in Seq(Sqes) /\ \A j \in DOMAIN A : A[j].op = "send" /\ A[j].fd = f
  BY <1>1, AnswersFacts
<1>3. /\ r \in Seq(Sqes) /\ \A i \in DOMAIN r : r[i].op = "recv" /\ r[i].fd = f
      /\ \A op \in {"ctrl", "recv"}, h \in Fds :
            Count(r, SqOf(op, h)) = IF E \in CqOf(op, h) THEN 1 ELSE 0
  BY <1>1, RecvAgainFacts
<1> HIDE DEF A, r, f
<1>4. /\ A \o r \in Seq(Sqes)
      /\ \A i \in DOMAIN A : (A \o r)[i] = A[i]
      /\ \A i \in DOMAIN (A \o r) :
            i \in DOMAIN A \/ (i - Len(A) \in DOMAIN r /\ (A \o r)[i] = r[i - Len(A)])
  BY <1>2, <1>3, JoinOn
<1> DEFINE es == A \o r
<1>5. \A i \in DOMAIN es : (i \in DOMAIN A /\ es[i] = A[i]) \/ \E j \in DOMAIN r : es[i] = r[j]
  BY <1>4
<1>6. ASSUME NEW op \in {"ctrl", "recv"}, NEW h \in Fds
      PROVE  Count(es, SqOf(op, h)) = IF E \in CqOf(op, h) THEN 1 ELSE 0
  <2>1. \A i \in DOMAIN A : A[i] \notin SqOf(op, h)
    BY <1>2 DEF SqOf
  <2>2. Count(A, SqOf(op, h)) = 0
    BY <1>2, <2>1, CountNone
  <2>3. Count(es, SqOf(op, h)) = Count(A, SqOf(op, h)) + Count(r, SqOf(op, h))
    BY <1>2, <1>3, CountConcat
  <2>4. Count(r, SqOf(op, h)) \in Nat
    BY <1>3, CountNat
  <2> HIDE DEF es
  <2>5. Count(es, SqOf(op, h)) = Count(r, SqOf(op, h))
    BY <2>2, <2>3, <2>4
  <2> QED BY <1>3, <2>5
<1>7. es \in Seq(Sqes)
  BY <1>4
<1> HIDE DEF es
<1>8. \A i \in DOMAIN es : es[i].op \in {"send", "recv"} /\ es[i].fd = f
  BY <1>2, <1>3, <1>5
<1> QED BY <1>6, <1>7, <1>8 DEF es, A, r, f

LEMMA OnRecvWired ==
    ASSUME TypeOK, WiredNow, OnRecv
    PROVE  Wired(sq \o (Answers \o RecvAgain), Tail(done \o cq), armed, conns', ctrls, fdt, fin,
                 DrainedLinks)
<1> DEFINE p == done \o cq
           f == E.fd
           es == Answers \o RecvAgain
           cn2 == conns'
           ct2 == ctrls
<1>1. /\ done # <<>> /\ E.op = "recv" /\ E.res = "ok" /\ E \in Completion /\ f \in Fds
      /\ conns[f].some /\ fdt[f] \in Clients
      /\ cn2 = [conns EXCEPT ![f] = Conn(SubSeq(Buf, Consumed(Buf) + 1, Len(Buf)))]
  BY OnRecvEffect
<1>2. /\ sq \in Seq(Sqes) /\ done \in Seq(Completion) /\ cq \in Seq(Completion)
      /\ conns \in [Fds -> [some : BOOLEAN, buf : Seq(Units)]]
  BY DEF TypeOK
<1>3. p \in Seq(Completion) /\ p # <<>> /\ Head(p) = E
  BY <1>1, <1>2, QueueHead DEF E
<1>4. Shaped(sq, p, armed, conns, ctrls, fdt)
  BY ShapedNow
<1>5. Wired(sq, p, armed, conns, ctrls, fdt, fin, DrainedLinks)
  BY DEF WiredNow
<1>6. cn2[f].some /\ \A h \in Fds : h # f => cn2[h] = conns[h]
  BY <1>1, <1>2 DEF Conn
<1>7. \A h \in Fds : cn2[h].some <=> conns[h].some
  BY <1>1, <1>6
<1>8. /\ es \in Seq(Sqes)
      /\ \A i \in DOMAIN es : es[i].op \in {"send", "recv"} /\ es[i].fd = f
      /\ \A op \in {"ctrl", "recv"}, h \in Fds :
            Count(es, SqOf(op, h)) = IF E \in CqOf(op, h) THEN 1 ELSE 0
  BY RecvPushes
<1>9. ~ Announces(E)
  BY <1>1 DEF Announces
<1> HIDE DEF p, f, es, cn2, E, ct2
<1>10. Tables(cn2, ct2, fdt)
  BY <1>5, <1>7 DEF Wired, Tables, ct2
<1>11. /\ \A h \in Fds : (conns[h].some => cn2[h].some) /\ (h \in ctrls => h \in ct2)
       /\ \A h \in Fds : (cn2[h].some /\ ~ conns[h].some) \/ (h \in ct2 /\ h \notin ctrls) =>
             Announces(Head(p)) /\ Head(p).val = h
       /\ Announces(Head(p)) => IF Head(p).op = "accept" THEN Head(p).val \in ct2
                                ELSE cn2[Head(p).val].some
  BY <1>3, <1>7, <1>9 DEF ct2
<1>12. \A i \in DOMAIN es : ForServed(es[i].op, es[i].fd, cn2, ct2)
  BY <1>6, <1>8 DEF ForServed
<1>13. \A h \in Fds, op \in {"ctrl", "recv"} : ForServed(op, h, conns, ctrls) =>
          Count(es, SqOf(op, h)) = IF Head(p) \in CqOf(op, h) THEN 1 ELSE 0
  BY <1>3, <1>8
<1>14. \A h \in Fds, op \in {"ctrl", "recv"} :
          ForServed(op, h, cn2, ct2) /\ ~ ForServed(op, h, conns, ctrls) => Count(es, SqOf(op, h)) = 1
  BY <1>7 DEF ForServed, ct2
<1>15. Wired(sq \o es, Tail(p), armed, cn2, ct2, fdt, fin, DrainedLinks)
  BY <1>3, <1>4, <1>5, <1>8, <1>10, <1>11, <1>12, <1>13, <1>14, HandledWired
<1> QED BY <1>15 DEF p, es, cn2, ct2

LEMMA OnRecvWiring ==
    ASSUME TypeOK, TypeOK', RingBook, Sending, OnePlace, WiredNow, FlowsNow, OnRecv
    PROVE  WiredNow' /\ FlowsNow'
<1> DEFINE es == Answers \o RecvAgain
           ct == ctrls'
<1>1. /\ done # <<>> /\ Push(es) /\ done' = Tail(done) /\ ct = ctrls
      /\ UNCHANGED <<fdt, ctrlq, outside>>
  BY OnRecvEffect
<1>2. es \in Seq(Sqes)
  BY RecvPushes
<1>3. /\ sq \in Seq(Sqes) /\ done \o cq \in Seq(Completion) /\ done \in Seq(Completion)
      /\ cq \in Seq(Completion)
      /\ Flows(sq \o es, Tail(done \o cq), conns', out, mem', fdt, fin, got, sent, Waiting)
  BY OnRecvFlows DEF TypeOK
<1>4. Wired(sq \o es, Tail(done \o cq), armed, conns', ct, fdt, fin, DrainedLinks)
  BY <1>1, OnRecvWired
<1>5. Shaped(sq, done \o cq, armed, conns, ctrls, fdt)
  BY ShapedNow
<1>6. Tail(done \o cq) \in Seq(Completion)
  BY <1>1, <1>3, QueueHead, HeadTailProperties
<1>7. conns' \in [Fds -> [some : BOOLEAN, buf : Seq(Units)]]
  BY DEF TypeOK
<1> HIDE DEF es
<1>8. sq \o es \in Seq(Sqes)
  BY <1>2, <1>3, ConcatProperties
<1>9. Handling2(es, conns', ct, mem')
  BY <1>1, <1>3, <1>4, <1>5, <1>6, <1>7, <1>8 DEF Handling2, Shaped
<1> QED BY <1>1, <1>2, <1>9, HandledPush

---------------------------------------------------------------------------
(* The load balancer and the clients.                                      *)

LEMMA MoreSteps ==
    ASSUME TypeOK, TypeOK', WiredNow, FlowsNow,
           UNCHANGED <<program, ring, fdt, mem, got>>,
           fin \subseteq fin', DrainedLinks \subseteq DrainedLinks', Waiting' \subseteq Waiting,
           \A c \in Clients : sent[c] <= sent'[c] /\ (c \in fin => sent'[c] = sent[c]),
           \A c \in fin' : c \notin fin => sent'[c] = sent[c] /\ Nth(c, sent[c]) <= Len(out[c])
    PROVE  WiredNow' /\ FlowsNow'
<1> DEFINE p == done \o cq
           fn2 == fin'
           s2 == sent'
           w2 == Waiting'
           dr2 == DrainedLinks'
<1>1. /\ Wired(sq, p, armed, conns, ctrls, fdt, fin, DrainedLinks)
      /\ Flows(sq, p, conns, out, mem, fdt, fin, got, sent, Waiting)
  BY DEF WiredNow, FlowsNow
<1>2. /\ out \in [Clients -> Seq(Units)] /\ sent \in [Clients -> Nat] /\ s2 \in [Clients -> Nat]
  BY DEF TypeOK
<1>3. UNCHANGED <<sq, done, conns, ctrls, armed, cq, out, fdt, mem, got>>
  BY DEF program, ring
<1>4. /\ fin \subseteq fn2 /\ DrainedLinks \subseteq dr2 /\ w2 \subseteq Waiting
      /\ \A c \in Clients : sent[c] <= s2[c] /\ (c \in fin => s2[c] = sent[c])
      /\ \A c \in fn2 : c \notin fin => s2[c] = sent[c] /\ Nth(c, sent[c]) <= Len(out[c])
  OBVIOUS
<1> HIDE DEF p, fn2, s2, w2, dr2
<1>5. Wired(sq, p, armed, conns, ctrls, fdt, fn2, dr2)
  BY <1>1, <1>4, WiredMore
<1>6. Flows(sq, p, conns, out, mem, fdt, fn2, got, s2, w2)
  BY <1>1, <1>2, <1>4, FlowsMore
<1> QED BY <1>3, <1>5, <1>6 DEF WiredNow, FlowsNow, p, fn2, s2, w2, dr2

LEMMA SameSents ==
    ASSUME TypeOK, sent' = sent
    PROVE  \A c \in Clients : sent[c] <= sent'[c] /\ (c \in fin => sent'[c] = sent[c])
<1>1. \A c \in Clients : sent[c] \in Nat
  BY DEF TypeOK
<1>2. \A c \in Clients : sent'[c] = sent[c] /\ sent[c] <= sent[c]
  BY <1>1
<1> QED BY <1>2

LEMMA SameSent ==
    ASSUME TypeOK, sent' = sent, fin' = fin
    PROVE  /\ fin \subseteq fin'
           /\ \A c \in Clients : sent[c] <= sent'[c] /\ (c \in fin => sent'[c] = sent[c])
           /\ \A c \in fin' : c \notin fin => sent'[c] = sent[c] /\ Nth(c, sent[c]) <= Len(out[c])
    BY SameSents

LEMMA LbEndWiring ==
    ASSUME TypeOK, TypeOK', WiredNow, FlowsNow, NEW l \in Links, LbConnect(l) \/ LbExit(l)
    PROVE  WiredNow' /\ FlowsNow'
<1>1. /\ UNCHANGED <<program, ring, fdt, mem, got, sent, fin, ctrlq, handed>>
      /\ lbEnd[l] # "closed" /\ lbEnd' = [lbEnd EXCEPT ![l] = lbEnd'[l]]
  BY DEF LbConnect, LbExit, kernel, TypeOK
<1>2. Waiting' = Waiting
  BY <1>1 DEF Waiting
<1>3. \A k \in Links : k # l => lbEnd'[k] = lbEnd[k]
  BY <1>1 DEF TypeOK
<1>4. DrainedLinks \subseteq DrainedLinks'
  BY <1>1, <1>3 DEF DrainedLinks, Drained
<1> QED BY <1>1, <1>2, <1>4, SameSent, MoreSteps

LEMMA LbHandOverWiring ==
    ASSUME TypeOK, TypeOK', WiredNow, FlowsNow, NEW l \in Links, NEW c \in Clients, LbHandOver(l, c)
    PROVE  WiredNow' /\ FlowsNow'
<1>1. /\ UNCHANGED <<program, ring, fdt, mem, got, sent, fin, lbEnd>>
      /\ lbEnd[l] = "open" /\ c \notin handed /\ handed' = handed \cup {c}
      /\ ctrlq' = [ctrlq EXCEPT ![l] = Append(ctrlq[l], c)]
  BY DEF LbHandOver
<1>2. ctrlq[l] \in Seq(Clients)
  BY QueueIndices
<1>3. /\ ctrlq'[l] = Append(ctrlq[l], c) /\ \A k \in Links : k # l => ctrlq'[k] = ctrlq[k]
  BY <1>1 DEF TypeOK
<1>4. \A k \in Links : \A i \in DOMAIN ctrlq'[k] :
         ctrlq'[k][i] = c \/ (i \in DOMAIN ctrlq[k] /\ ctrlq'[k][i] = ctrlq[k][i])
  <2> DEFINE q == ctrlq[l]
  <2>1. q \in Seq(Clients)
    BY <1>2
  <2> HIDE DEF q
  <2>2. /\ \A i \in DOMAIN q : Append(q, c)[i] = q[i]
        /\ Append(q, c)[Len(q) + 1] = c
        /\ \A i \in DOMAIN Append(q, c) : i \in DOMAIN q \/ i = Len(q) + 1
    BY <2>1, EndOn
  <2>3. \A i \in DOMAIN ctrlq'[l] :
           ctrlq'[l][i] = c \/ (i \in DOMAIN q /\ ctrlq'[l][i] = q[i])
    BY <1>3, <2>2 DEF q
  <2> QED BY <1>3, <2>3 DEF q
<1>5. Waiting' \subseteq Waiting
  BY <1>1, <1>4 DEF Waiting
<1>6. DrainedLinks \subseteq DrainedLinks'
  BY <1>1, <1>3 DEF DrainedLinks, Drained
<1> QED BY <1>1, <1>5, <1>6, SameSent, MoreSteps

LEMMA ClientSendWiring ==
    ASSUME TypeOK, TypeOK', WiredNow, FlowsNow, NEW c \in Clients, ClientSend(c)
    PROVE  WiredNow' /\ FlowsNow'
<1>1. /\ UNCHANGED <<program, ring, fdt, mem, got, fin, ctrlq, lbEnd, handed>> /\ c \notin fin
      /\ \E n \in (sent[c] + 1)..Len(Stream[c]) : sent' = [sent EXCEPT ![c] = n]
  BY DEF ClientSend, kernel
<1>2. PICK n \in (sent[c] + 1)..Len(Stream[c]) : sent' = [sent EXCEPT ![c] = n]
  BY <1>1
<1>3. sent \in [Clients -> Nat]
  BY DEF TypeOK
<1>4. n \in Int /\ sent[c] <= n
  BY <1>3
<1>5. \A d \in Clients : sent[d] <= sent'[d] /\ (d \in fin => sent'[d] = sent[d])
  BY <1>1, <1>2, <1>3, <1>4
<1>6. Waiting' = Waiting /\ DrainedLinks' = DrainedLinks
  BY <1>1, Unmoved
<1> QED BY <1>1, <1>5, <1>6, MoreSteps

LEMMA AskedIsNth ==
    ASSUME TypeOK, Sending, NEW c \in Clients
    PROVE  Asked(c) = Nth(c, sent[c])
<1>1. sent[c] \in Nat /\ sent[c] <= Len(Stream[c])
  BY DEF TypeOK, Sending
<1>2. Len(Stream[c]) \in Nat /\ DOMAIN Stream[c] = 1..Len(Stream[c])
  BY StreamLen
<1>3. {i \in 1..sent[c] : Stream[c][i].last} = {i \in Lasts(c) : i <= sent[c]}
  <2> DEFINE n == Len(Stream[c])
             s == sent[c]
  <2>1. n \in Nat /\ s \in Nat /\ s <= n /\ DOMAIN Stream[c] = 1..n
    BY <1>1, <1>2
  <2> HIDE DEF n, s
  <2>2. \A i : i \in 1..s <=> i \in 1..n /\ i <= s
    BY <2>1
  <2> QED BY <2>1, <2>2 DEF Lasts, s
<1> QED BY <1>3 DEF Asked, Nth, Rank

LEMMA ClientHangUpWiring ==
    ASSUME TypeOK, TypeOK', Sending, WiredNow, FlowsNow, NEW c \in Clients, ClientHangUp(c), Sound'
    PROVE  WiredNow' /\ FlowsNow'
<1>1. /\ UNCHANGED <<program, ring, fdt, mem, got, sent, ctrlq, lbEnd, handed>>
      /\ fin' = fin \cup {c}
      /\ IF Len(out[c]) < Asked(c) THEN Trouble("left early", None) ELSE UNCHANGED trouble
  BY DEF ClientHangUp, kernel
<1>2. ~ (Len(out[c]) < Asked(c))
  <2> SUFFICES ASSUME Len(out[c]) < Asked(c) PROVE FALSE
    OBVIOUS
  <2>1. trouble' = trouble \cup {<<"left early", None>>}
    BY <1>1 DEF Trouble
  <2>2. trouble' \subseteq {<<"descriptors", None>>}
    BY DEF Sound
  <2> QED BY <2>1, <2>2
<1>3. Asked(c) = Nth(c, sent[c])
  BY AskedIsNth
<1>4. Nth(c, sent[c]) \in Nat /\ Len(out[c]) \in Nat
  <2>1. Lasts(c) \in SUBSET Nat /\ IsFiniteSet(Lasts(c)) /\ sent[c] \in Nat
    BY LastsFinite DEF TypeOK
  <2>2. Nth(c, sent[c]) \in Nat
    BY <2>1, RankNat DEF Nth
  <2>3. out[c] \in Seq(Units)
    BY DEF TypeOK
  <2> QED BY <2>2, <2>3, LenProperties
<1>5. Nth(c, sent[c]) <= Len(out[c])
  <2> DEFINE x == Nth(c, sent[c])
             y == Len(out[c])
  <2>1. x \in Nat /\ y \in Nat /\ ~ (y < x)
    BY <1>2, <1>3, <1>4
  <2> HIDE DEF x, y
  <2>2. x <= y
    BY <2>1
  <2> QED BY <2>2 DEF x, y
<1>6. \A d \in Clients : sent[d] <= sent'[d] /\ (d \in fin => sent'[d] = sent[d])
  BY <1>1, SameSents
<1>7. \A d \in fin' : d \notin fin => sent'[d] = sent[d] /\ Nth(d, sent[d]) <= Len(out[d])
  BY <1>1, <1>5
<1>8. Waiting' = Waiting /\ DrainedLinks' = DrainedLinks /\ fin \subseteq fin'
  BY <1>1, Unmoved
<1> QED BY <1>1, <1>6, <1>7, <1>8, MoreSteps

---------------------------------------------------------------------------
(* The invariant.                                                          *)

\* What happened is not forgotten.
LEMMA TroubleStays ==
    ASSUME [Next]_vars
    PROVE  trouble \subseteq trouble'
<1>1. ASSUME UNCHANGED trouble PROVE trouble \subseteq trouble'
  BY <1>1
<1>2. ASSUME NEW T, trouble' = trouble \cup T PROVE trouble \subseteq trouble'
  BY <1>2
<1>3. CASE UNCHANGED vars
  BY <1>1, <1>3 DEF vars
<1>4. CASE Worker
  <2>1. CASE SubmitAndWait \/ Reap
    BY <1>1, <2>1 DEF SubmitAndWait, Reap, peers
  <2>2. CASE OnAccept \/ OnAcceptEnd \/ OnCtrl \/ OnCtrlEnd
    BY <1>1, <2>2 DEF OnAccept, OnAcceptEnd, OnCtrl, OnCtrlEnd, peers
  <2>3. CASE OnRecv
    BY <1>1, <2>3 DEF OnRecv, peers
  <2>4. CASE OnRecvRefused \/ OnRecvBad
    BY <1>2, <2>4 DEF OnRecvRefused, OnRecvBad, Trouble
  <2>5. CASE OnCtrlEmpty
    BY <1>2, <2>5 DEF OnCtrlEmpty
  <2>6. CASE OnRecvEnd
    BY <1>2, <2>6 DEF OnRecvEnd
  <2>7. CASE OnSend
    <3>1. CASE E.res = "ok"
      BY <1>1, <2>7, <3>1 DEF OnSend
    <3>2. CASE E.res # "ok"
      BY <1>2, <2>7, <3>2 DEF OnSend, Trouble
    <3> QED BY <3>1, <3>2
  <2> QED BY <1>4, <2>1, <2>2, <2>3, <2>4, <2>5, <2>6, <2>7 DEF Worker
<1>5. CASE Kernel
  <2>1. PICK r \in BagToSet(armed) :
            \/ \E l \in backlog : KernelAccept(r, l)
            \/ KernelAcceptEnd(r)
            \/ KernelCtrl(r) \/ KernelCtrlLost(r) \/ KernelCtrlEnd(r)
            \/ \E more \in BOOLEAN : KernelRecv(r, more)
            \/ KernelNoBuffer(r) \/ KernelRecvEnd(r)
    BY <1>5 DEF Kernel
  <2>2. CASE (\E l \in backlog : KernelAccept(r, l)) \/ KernelCtrl(r) \/ KernelCtrlEnd(r)
    BY <1>1, <2>2 DEF KernelAccept, KernelCtrl, KernelCtrlEnd, peers
  <2>3. CASE (\E more \in BOOLEAN : KernelRecv(r, more)) \/ KernelRecvEnd(r)
    BY <1>1, <2>3 DEF KernelRecv, KernelRecvEnd, peers
  <2>4. CASE KernelAcceptEnd(r) \/ KernelCtrlLost(r) \/ KernelNoBuffer(r)
    BY <1>2, <2>4 DEF KernelAcceptEnd, KernelCtrlLost, KernelNoBuffer, Trouble
  <2> QED BY <2>1, <2>2, <2>3, <2>4
<1>6. CASE Environment
  <2>1. CASE \E l \in Links : LbConnect(l) \/ LbExit(l)
    BY <1>1, <2>1 DEF LbConnect, LbExit
  <2>2. CASE \E l \in Links, c \in Clients : LbHandOver(l, c)
    BY <1>1, <2>2 DEF LbHandOver
  <2>3. CASE \E c \in Clients : ClientSend(c)
    BY <1>1, <2>3 DEF ClientSend
  <2>4. CASE \E c \in Clients : ClientHangUp(c)
    <3>1. PICK c \in Clients : ClientHangUp(c)
      BY <2>4
    <3>2. trouble' = trouble \/ trouble' = trouble \cup {<<"left early", None>>}
      BY <3>1 DEF ClientHangUp, Trouble
    <3> QED BY <1>2, <3>2
  <2> QED BY <1>6, <2>1, <2>2, <2>3, <2>4 DEF Environment
<1> QED BY <1>3, <1>4, <1>5, <1>6 DEF Next

LEMMA NextWiring == TypeOK /\ RingBook /\ Sending /\ OnePlace /\ Wiring /\ [Next]_vars => Wiring'
<1> SUFFICES ASSUME TypeOK, RingBook, Sending, OnePlace, Wiring, [Next]_vars, Sound'
             PROVE  WiredNow' /\ FlowsNow'
  BY DEF Wiring
<1>1. TypeOK'
  BY NextType
<1>2. WiredNow /\ FlowsNow
  <2>1. trouble \subseteq trouble' /\ trouble' \subseteq {<<"descriptors", None>>}
    BY TroubleStays DEF Sound
  <2>2. Sound
    BY <2>1 DEF Sound
  <2> QED BY <2>2 DEF Wiring
<1>3. CASE UNCHANGED vars
  <2>1. UNCHANGED <<sq, done, cq, armed, conns, ctrls, fdt, fin, out, mem, got, sent>>
    BY <1>3 DEF vars
  <2>2. UNCHANGED <<ctrlq, lbEnd, handed>>
    BY <1>3 DEF vars
  <2>3. Waiting' = Waiting /\ DrainedLinks' = DrainedLinks
    BY <2>2, Unmoved
  <2> QED BY <1>2, <2>1, <2>3 DEF WiredNow, FlowsNow
<1>4. CASE Worker
  <2>1. CASE SubmitAndWait
    BY <1>2, <2>1, SubmitAndWaitWiring
  <2>2. CASE Reap
    BY <1>2, <2>2, ReapWiring
  <2>3. CASE OnAccept
    BY <1>2, <2>3, OnAcceptWiring
  <2>4. CASE OnAcceptEnd
    BY <1>2, <2>4, OnAcceptEndWiring
  <2>5. CASE OnCtrlEnd
    BY <1>2, <2>5, OnCtrlEndWiring
  <2>6. CASE OnCtrl
    BY <1>2, <2>6, OnCtrlWiring
  <2>7. CASE OnCtrlEmpty
    BY <1>2, <2>7, OnCtrlEmptyWiring
  <2>8. CASE OnRecvEnd
    BY <1>2, <2>8, OnRecvEndWiring
  <2>9. CASE OnRecv
    BY <1>1, <1>2, <2>9, OnRecvWiring
  <2>10. CASE OnRecvRefused \/ OnRecvBad
    <3>1. PICK what \in {"refused", "rejected"} : Trouble(what, E.fd)
      BY <2>10 DEF OnRecvRefused, OnRecvBad
    <3>2. <<what, E.fd>> \in trouble' /\ <<what, E.fd>> # <<"descriptors", None>>
      BY <3>1 DEF Trouble
    <3> QED BY <1>2, <3>2 DEF Sound
  <2>11. CASE OnSend
    BY <1>2, <2>11, OnSendWiring
  <2> QED BY <1>4, <2>1, <2>2, <2>3, <2>4, <2>5, <2>6, <2>7, <2>8, <2>9, <2>10, <2>11
          DEF Worker
<1>5. CASE Kernel
  <2>1. PICK r \in BagToSet(armed) :
            \/ \E l \in backlog : KernelAccept(r, l)
            \/ KernelAcceptEnd(r)
            \/ KernelCtrl(r) \/ KernelCtrlLost(r) \/ KernelCtrlEnd(r)
            \/ \E more \in BOOLEAN : KernelRecv(r, more)
            \/ KernelNoBuffer(r) \/ KernelRecvEnd(r)
    BY <1>5 DEF Kernel
  <2>2. CASE \E l \in backlog : KernelAccept(r, l)
    BY <1>2, <2>2, KernelAcceptWiring
  <2>3. CASE KernelAcceptEnd(r)
    BY <1>2, <2>3, KernelAcceptEndWiring
  <2>4. CASE KernelCtrl(r)
    BY <1>2, <2>4, KernelCtrlWiring
  <2>5. CASE KernelCtrlLost(r)
    BY <1>2, <2>5, KernelCtrlLostWiring
  <2>6. CASE KernelCtrlEnd(r)
    BY <1>2, <2>6, KernelCtrlEndWiring
  <2>7. CASE \E more \in BOOLEAN : KernelRecv(r, more)
    BY <1>2, <2>7, KernelRecvWiring
  <2>8. CASE KernelNoBuffer(r)
    BY <2>8 DEF KernelNoBuffer, Trouble, Sound
  <2>9. CASE KernelRecvEnd(r)
    BY <1>2, <2>9, KernelRecvEndWiring
  <2> QED BY <2>1, <2>2, <2>3, <2>4, <2>5, <2>6, <2>7, <2>8, <2>9
<1>6. CASE Environment
  <2>1. CASE \E l \in Links : LbConnect(l) \/ LbExit(l)
    BY <1>1, <1>2, <2>1, LbEndWiring
  <2>2. CASE \E l \in Links, c \in Clients : LbHandOver(l, c)
    BY <1>1, <1>2, <2>2, LbHandOverWiring
  <2>3. CASE \E c \in Clients : ClientSend(c)
    BY <1>1, <1>2, <2>3, ClientSendWiring
  <2>4. CASE \E c \in Clients : ClientHangUp(c)
    BY <1>1, <1>2, <2>4, ClientHangUpWiring
  <2> QED BY <1>6, <2>1, <2>2, <2>3, <2>4 DEF Environment
<1> QED BY <1>3, <1>4, <1>5, <1>6 DEF Next

LEMMA InitWiring == Init => Wiring
<1> SUFFICES ASSUME Init PROVE WiredNow /\ FlowsNow
  BY DEF Wiring
<1>1. /\ sq = <<Sqe("accept", ListenFd, None)>> /\ done = <<>> /\ cq = <<>>
      /\ \A f \in Fds : conns[f] = NoConn /\ ~ conns[f].some
      /\ ctrls = {} /\ \A f \in Fds : fdt[f] = None
      /\ armed = EmptyBag /\ fin = {}
      /\ \A c \in Clients : sent[c] = 0 /\ got[c] = 0 /\ out[c] = <<>>
  BY DEF Init, NoConn
<1>2. DOMAIN (done \o cq) = {}
  <2>1. done \in Seq(Completion) /\ cq \in Seq(Completion) /\ Len(done) = 0 /\ Len(cq) = 0
    BY <1>1, EmptySeq
  <2>2. DOMAIN (done \o cq) = 1..0
    BY <2>1, ConcatProperties
  <2> QED BY <2>2
<1>3. DOMAIN armed = {}
  BY <1>1 DEF EmptyBag, SetToBag
<1>4. DOMAIN sq = {1} /\ sq[1].op = "accept"
  BY <1>1 DEF Sqe
<1>5. WiredNow
  <2>1. Pushed(sq, conns, ctrls)
    BY <1>4 DEF Pushed, ForServed
  <2>2. /\ Tables(conns, ctrls, fdt) /\ OneEach(sq, done \o cq, armed, conns, ctrls, fdt)
        /\ Known(done \o cq, conns, ctrls, fdt)
    BY <1>1 DEF Tables, OneEach, Known
  <2>3. Flying(armed, conns, ctrls, fdt)
    BY <1>3 DEF Flying
  <2>4. /\ Announcements(done \o cq, conns, ctrls, fdt) /\ LastEnds(done \o cq)
        /\ Completed(done \o cq, conns, ctrls, fdt, fin, DrainedLinks)
    BY <1>2 DEF Announcements, LastEnds, Completed
  <2> QED BY <2>1, <2>2, <2>3, <2>4 DEF WiredNow, Wired
<1>6. FlowsNow
  <2>1. /\ Serves(sq, done \o cq, conns, out, mem, fdt, got)
        /\ Fresh(conns, out, fdt, got, Waiting)
    BY <1>1 DEF Serves, Fresh
  <2>2. InOrder(out)
    BY <1>1 DEF InOrder
  <2>3. Settled(out, fin, sent)
    <3>1. ASSUME NEW c \in Clients PROVE Len(out[c]) <= Nth(c, sent[c])
      <4>1. Lasts(c) \in SUBSET Nat /\ IsFiniteSet(Lasts(c)) /\ sent[c] \in Nat
        BY <1>1, LastsFinite
      <4>2. Nth(c, sent[c]) \in Nat
        BY <4>1, RankNat DEF Nth
      <4>3. Len(out[c]) = 0
        BY <1>1
      <4> QED BY <4>2, <4>3
    <3> QED BY <1>1, <3>1 DEF Settled
  <2> QED BY <2>1, <2>2, <2>3 DEF FlowsNow, Flows
<1> QED BY <1>5, <1>6

\* All of it together holds at all times.
LEMMA AlwaysWired == Spec => [](TypeOK /\ RingBook /\ Sending /\ OnePlace /\ Wiring)
<1>1. Init => TypeOK /\ RingBook /\ Sending /\ OnePlace /\ Wiring
  BY InitType, InitBook, InitSending, InitOnePlace, InitWiring
<1>2. TypeOK /\ RingBook /\ Sending /\ OnePlace /\ Wiring /\ [Next]_vars
         => (TypeOK /\ RingBook /\ Sending /\ OnePlace /\ Wiring)'
  BY NextType, NextBook, NextSending, NextOnePlace, NextWiring
<1> QED BY <1>1, <1>2, PTL DEF Spec

---------------------------------------------------------------------------
(* What it means.                                                          *)

\* The completions to be handled are those at hand and those posted.
LEMMA PostedIsBoth ==
    ASSUME TypeOK
    PROVE  /\ done \o cq \in Seq(Completion)
           /\ \A e \in Posted : e \in Completion /\ \E i \in DOMAIN (done \o cq) : (done \o cq)[i] = e
           /\ \A i \in DOMAIN (done \o cq) : (done \o cq)[i] \in Posted
<1>1. done \in Seq(Completion) /\ cq \in Seq(Completion)
  BY DEF TypeOK
<1>2. /\ Len(done) \in Nat /\ DOMAIN done = 1..Len(done)
      /\ Len(cq) \in Nat /\ DOMAIN cq = 1..Len(cq)
      /\ \A i \in DOMAIN done : done[i] \in Completion
      /\ \A i \in DOMAIN cq : cq[i] \in Completion
  BY <1>1, LenProperties, ElementOfSeq
<1>3. /\ done \o cq \in Seq(Completion)
      /\ DOMAIN (done \o cq) = 1..(Len(done) + Len(cq))
      /\ \A i \in 1..(Len(done) + Len(cq)) :
            (done \o cq)[i] = IF i <= Len(done) THEN done[i] ELSE cq[i - Len(done)]
  BY <1>1, ConcatProperties, LenProperties
<1>4. ASSUME NEW i \in DOMAIN done
      PROVE  i \in DOMAIN (done \o cq) /\ (done \o cq)[i] = done[i]
  BY <1>2, <1>3
<1>5. ASSUME NEW i \in DOMAIN cq
      PROVE  i + Len(done) \in DOMAIN (done \o cq) /\ (done \o cq)[i + Len(done)] = cq[i]
  BY <1>2, <1>3
<1>6. ASSUME NEW i \in DOMAIN (done \o cq) PROVE (done \o cq)[i] \in Posted
  <2>1. CASE i <= Len(done)
    <3>1. i \in DOMAIN done /\ (done \o cq)[i] = done[i]
      BY <1>2, <1>3, <1>6, <2>1
    <3> QED BY <3>1 DEF Posted, Elements
  <2>2. CASE ~ (i <= Len(done))
    <3>1. i - Len(done) \in DOMAIN cq /\ (done \o cq)[i] = cq[i - Len(done)]
      BY <1>2, <1>3, <1>6, <2>2
    <3> QED BY <3>1 DEF Posted, Elements
  <2> QED BY <2>1, <2>2
<1>7. ASSUME NEW e \in Posted
      PROVE  e \in Completion /\ \E i \in DOMAIN (done \o cq) : (done \o cq)[i] = e
  <2>1. (\E i \in DOMAIN done : e = done[i]) \/ (\E i \in DOMAIN cq : e = cq[i])
    BY <1>7 DEF Posted, Elements
  <2> QED BY <1>2, <1>4, <1>5, <2>1
<1> QED BY <1>3, <1>6, <1>7

---------------------------------------------------------------------------
(* Number by number.  What a closed number leaves behind concerns that     *)
(* number only, so the others stay as tidy as if nothing had happened: of  *)
(* the number f, with file x, a buffer for a client (b) or for a link (l), *)
(* everything in q, p and a is accounted for.                              *)

\* The completions of requests of kind op for f, those that announce f, and the
\* answers on f that failed.
About(op, f)      == {e \in Completion : e.op = op /\ e.fd = f}
Brought(op, f) == {e \in Completion : e.op = op /\ e.res = "ok" /\ e.val = f}
Failed(f)      == {e \in Completion : e.op = "send" /\ e.fd = f /\ e.res # "ok"}
If(cond)       == IF cond THEN 1 ELSE 0

\* Everything for f is for its file.
Mine(f, p, a, x) ==
    /\ \A i \in DOMAIN p : p[i].fd = f =>
          (p[i].op = "send" /\ p[i].res = "ok") \/ p[i].file = x
    /\ \A r \in DOMAIN a : r.fd = f => r.file = x

\* One request of kind op if f is served by it (s), and otherwise none, nor a
\* completion of one.
Account(op, f, s, q, p, a, x) ==
    /\ Count(q, SqOf(op, f)) + Count(p, CqOf(op, f)) + Copies(Request(op, f, x), a) = If(s)
    /\ ~ s => Count(p, About(op, f)) = 0

\* The completion that ends a receive is the last one for f.
LastEnd(f, p) ==
    \A i, j \in DOMAIN p :
        p[i].op = "recv" /\ p[j].op = "recv" /\ p[i].fd = f /\ p[j].fd = f /\ i < j => p[i].more

\* f is announced until it is served, and by the right kind of completion.
Neat(f, q, p, a, b, l, x) ==
    /\ b \in BOOLEAN /\ l \in BOOLEAN
    /\ b => x \in Clients
    /\ l => x \in Links
    /\ Count(p, Brought("ctrl", f)) = If(x \in Clients /\ ~ b)
    /\ Count(p, Brought("accept", f)) = If(x \in Links /\ ~ l)
    /\ Account("recv", f, b, q, p, a, x) /\ Account("ctrl", f, l, q, p, a, x)
    /\ ~ b => Count(q, SqOf("send", f)) = 0 /\ Count(p, Failed(f)) = 0
    /\ Mine(f, p, a, x) /\ LastEnd(f, p)

\* What concerns all numbers alike.
Regular(p, a) ==
    /\ \A r \in DOMAIN a : a[r] \in Nat \ {0}
    /\ \A i \in DOMAIN p :
          /\ p[i].op = "accept" => p[i].fd = ListenFd /\ p[i].file = ListenFd
          /\ p[i].op = "ctrl" => ~ p[i].more

NeatNow(f) == Neat(f, sq, done \o cq, armed, conns[f].some, f \in ctrls, fdt[f])
Calm       == Regular(done \o cq, armed) /\ \A f \in Fds \ Spoiled : NeatNow(f)

\* Every completion of a number's requests is of one of its classes.
LEMMA Classes ==
    ASSUME NEW p \in Seq(Completion), NEW f \in Fds, NEW op \in {"ctrl", "recv"}
    PROVE  /\ DOMAIN p = 1..Len(p) /\ Len(p) \in Nat
           /\ \A i \in DOMAIN p : p[i] \in Completion
           /\ Count(p, About(op, f)) \in Nat /\ Count(p, CqOf(op, f)) \in Nat
           /\ Count(p, Failed(f)) \in Nat
           /\ Count(p, Brought("ctrl", f)) \in Nat /\ Count(p, Brought("accept", f)) \in Nat
           /\ Count(p, About(op, f)) = 0 =>
                 /\ Count(p, CqOf(op, f)) = 0
                 /\ \A i \in DOMAIN p : ~ (p[i].op = op /\ p[i].fd = f)
           /\ Count(p, CqOf(op, f)) = 0 =>
                 \A i \in DOMAIN p : p[i].op = op /\ p[i].fd = f => p[i].more
<1>1. /\ DOMAIN p = 1..Len(p) /\ Len(p) \in Nat
      /\ \A i \in DOMAIN p : p[i] \in Completion
  BY LenProperties, ElementOfSeq
<1>2. \A V : Count(p, V) \in Nat /\ (Count(p, V) = 0 <=> \A i \in DOMAIN p : p[i] \notin V)
  BY CountNat, CountNone
<1>3. Count(p, About(op, f)) = 0 =>
         /\ Count(p, CqOf(op, f)) = 0
         /\ \A i \in DOMAIN p : ~ (p[i].op = op /\ p[i].fd = f)
  <2> SUFFICES ASSUME Count(p, About(op, f)) = 0
               PROVE  /\ Count(p, CqOf(op, f)) = 0
                      /\ \A i \in DOMAIN p : ~ (p[i].op = op /\ p[i].fd = f)
    OBVIOUS
  <2>1. \A i \in DOMAIN p : p[i] \notin About(op, f)
    BY <1>2
  <2>2. \A i \in DOMAIN p : ~ (p[i].op = op /\ p[i].fd = f)
    BY <1>1, <2>1 DEF About
  <2>3. \A i \in DOMAIN p : p[i] \notin CqOf(op, f)
    BY <2>2 DEF CqOf
  <2> QED BY <1>2, <2>2, <2>3
<1>4. Count(p, CqOf(op, f)) = 0 =>
         \A i \in DOMAIN p : p[i].op = op /\ p[i].fd = f => p[i].more
  BY <1>1, <1>2 DEF CqOf
<1> QED BY <1>1, <1>2, <1>3, <1>4

\* A submission leaves the completions regular.
LEMMA RegularSubmit ==
    ASSUME TypeOK, NEW es \in Seq(Sqes), NEW d \in Seq(Completion),
           Regular(d \o cq, armed), Submit(es)
    PROVE  Regular(d \o cq', armed')
<1>1. cq \in Seq(Completion) /\ d \o cq \in Seq(Completion)
  BY ConcatProperties DEF TypeOK
<1>2. /\ \E s \in Seq(Results(es)) : cq' = cq \o s
      /\ \A r \in DOMAIN armed' : armed'[r] \in Nat \ {0}
  BY SubmitEffect DEF Regular
<1>3. PICK s \in Seq(Results(es)) : cq' = cq \o s
  BY <1>2
<1>4. s \in Seq(Completion) /\ \A i \in DOMAIN s : s[i] \in Results(es)
  <2>1. s \in Seq(Completion)
    BY SeqMonotonic DEF Results
  <2> QED BY <2>1, ElementOfSeq, LenProperties
<1> DEFINE p == d \o cq
           t == p \o s
<1>5. d \o cq' = t
  BY <1>1, <1>3, <1>4, ThreeParts
<1>6. \A i \in DOMAIN t : (i \in DOMAIN p /\ t[i] = p[i]) \/ t[i] \in Results(es)
  BY <1>1, <1>4, JoinOn
<1>7. Regular(p, armed)
  OBVIOUS
<1> HIDE DEF p, t
<1>8. ASSUME NEW i \in DOMAIN t
      PROVE  /\ t[i].op = "accept" => t[i].fd = ListenFd /\ t[i].file = ListenFd
             /\ t[i].op = "ctrl" => ~ t[i].more
  <2>1. CASE i \in DOMAIN p /\ t[i] = p[i]
    BY <1>7, <2>1 DEF Regular
  <2>2. CASE t[i] \in Results(es)
    <3>1. PICK k \in DOMAIN es : /\ t[i].op = es[k].op /\ t[i].fd = es[k].fd
                                 /\ t[i].file = FileOf(es[k].fd) /\ ~ t[i].more
      BY <2>2 DEF Results
    <3>2. es[k] \in Sqes
      BY ElementOfSeq, LenProperties
    <3> QED BY <3>1, <3>2, SqeCases, ListenerFile
  <2> QED BY <1>6, <2>1, <2>2
<1> QED BY <1>2, <1>5, <1>8 DEF Regular

LEMMA RegularPush ==
    ASSUME TypeOK, NEW es \in Seq(Sqes), NEW d \in Seq(Completion),
           Regular(d \o cq, armed), Push(es)
    PROVE  Regular(d \o cq', armed')
<1> DEFINE q == sq \o es
<1>1. PICK n \in 0..Len(q) :
         /\ SubSeq(q, 1, n) \in Seq(Sqes)
         /\ IF n = 0 THEN UNCHANGED ring ELSE Submit(SubSeq(q, 1, n))
  <2>1. sq \in Seq(Sqes)
    BY DEF TypeOK
  <2> QED BY <2>1, PushCuts
<1> HIDE DEF q
<1>2. CASE n = 0
  BY <1>1, <1>2 DEF ring
<1>3. CASE n # 0
  BY <1>1, <1>3, RegularSubmit
<1> QED BY <1>2, <1>3

LEMMA RegularTail ==
    ASSUME NEW p \in Seq(Completion), p # <<>>, NEW a, Regular(p, a)
    PROVE  Regular(Tail(p), a)
<1>1. \A i \in DOMAIN Tail(p) : i + 1 \in DOMAIN p /\ Tail(p)[i] = p[i + 1]
  BY HeadOff
<1> QED BY <1>1 DEF Regular

\* A number that is not served has no requests in flight.
LEMMA NeatAccounts ==
    ASSUME NEW q \in Seq(Sqes), NEW p \in Seq(Completion), NEW a, DOMAIN a \subseteq Requests,
           \A r \in DOMAIN a : a[r] \in Nat \ {0},
           NEW f \in Fds, NEW b, NEW l, NEW x, Neat(f, q, p, a, b, l, x),
           NEW op \in {"ctrl", "recv"}, NEW s, s = IF op = "ctrl" THEN l ELSE b
    PROVE  /\ Count(q, SqOf(op, f)) \in Nat /\ Count(p, CqOf(op, f)) \in Nat
           /\ Copies(Request(op, f, x), a) \in Nat
           /\ Count(q, SqOf(op, f)) + Count(p, CqOf(op, f)) + Copies(Request(op, f, x), a)
                 = (IF s THEN 1 ELSE 0)
           /\ s \in BOOLEAN /\ (s => x # None /\ x \in Files)
           /\ ~ s => Count(p, About(op, f)) = 0
           /\ \A r \in DOMAIN a : r.op = op /\ r.fd = f =>
                 s /\ r = Request(op, f, x) /\ Copies(r, a) >= 1
<1>1. Account(op, f, s, q, p, a, x) /\ s \in BOOLEAN
  BY DEF Neat
<1>2. Count(q, SqOf(op, f)) \in Nat /\ Count(p, CqOf(op, f)) \in Nat
  BY CountNat
<1>3. Copies(Request(op, f, x), a) \in Nat
  BY DEF Copies
<1>4. Count(q, SqOf(op, f)) + Count(p, CqOf(op, f)) + Copies(Request(op, f, x), a)
         = (IF s THEN 1 ELSE 0)
  BY <1>1 DEF Account, If
<1>5. s => x # None /\ x \in Files
  BY UringAssumption DEF Neat, Files
<1>6. ASSUME NEW r \in DOMAIN a, r.op = op, r.fd = f
      PROVE  s /\ r = Request(op, f, x) /\ Copies(r, a) >= 1
  <2>1. r.file = x
    BY <1>6 DEF Neat, Mine
  <2>2. r \in [op : {"ctrl", "recv"}, fd : Fds, file : Files]
    BY <1>6 DEF Requests
  <2>3. r = Request(op, f, x)
    BY <1>6, <2>1, <2>2 DEF Request
  <2>4. Copies(r, a) \in Nat \ {0}
    BY <1>6 DEF Copies
  <2>5. Copies(Request(op, f, x), a) # 0
    BY <2>3, <2>4
  <2>6. s
    BY <1>2, <1>3, <1>4, <2>5
  <2>7. Copies(r, a) >= 1
    BY <2>4
  <2> QED BY <2>3, <2>6, <2>7
<1> QED BY <1>1, <1>2, <1>3, <1>4, <1>5, <1>6 DEF Account

\* A submission of a beginning of what is pushed.
LEMMA SubmitNeat ==
    ASSUME TypeOK, NEW q \in Seq(Sqes), NEW n \in 0..Len(q), NEW d \in Seq(Completion),
           NEW f \in Fds, NEW b, NEW l, Regular(d \o cq, armed),
           Neat(f, q, d \o cq, armed, b, l, fdt[f]), Submit(SubSeq(q, 1, n))
    PROVE  Neat(f, SubSeq(q, n + 1, Len(q)), d \o cq', armed', b, l, fdt[f])
<1> DEFINE es == SubSeq(q, 1, n)
           rest == SubSeq(q, n + 1, Len(q))
           p == d \o cq
           x == fdt[f]
<1>0. /\ p \in Seq(Completion) /\ DOMAIN armed \subseteq Requests /\ cq \in Seq(Completion)
      /\ \A r \in DOMAIN armed : armed[r] \in Nat \ {0}
  BY ConcatProperties DEF TypeOK, BagToSet, Regular
<1>1. /\ es \in Seq(Sqes) /\ rest \in Seq(Sqes)
      /\ \A op : /\ Count(q, SqOf(op, f)) = Count(es, SqOf(op, f)) + Count(rest, SqOf(op, f))
                 /\ Count(es, SqOf(op, f)) \in Nat /\ Count(rest, SqOf(op, f)) \in Nat
  <2>1. es \in Seq(Sqes) /\ rest \in Seq(Sqes)
    BY CutIndices
  <2> QED BY <2>1, CountCut, CountNat
<1>2. Submit(es) /\ Neat(f, q, p, armed, b, l, x) /\ Regular(p, armed)
  OBVIOUS
<1> HIDE DEF es, rest, p, x
<1>3. \A op \in {"ctrl", "recv"} : \A s : s = (IF op = "ctrl" THEN l ELSE b) =>
         /\ Count(q, SqOf(op, f)) \in Nat /\ Count(p, CqOf(op, f)) \in Nat
         /\ Copies(Request(op, f, x), armed) \in Nat
         /\ Count(q, SqOf(op, f)) + Count(p, CqOf(op, f)) + Copies(Request(op, f, x), armed)
               = (IF s THEN 1 ELSE 0)
         /\ s \in BOOLEAN /\ (s => x # None)
         /\ ~ s => Count(p, About(op, f)) = 0
  <2> SUFFICES ASSUME NEW op \in {"ctrl", "recv"}, NEW s, s = IF op = "ctrl" THEN l ELSE b
               PROVE  /\ Count(q, SqOf(op, f)) \in Nat /\ Count(p, CqOf(op, f)) \in Nat
                      /\ Copies(Request(op, f, x), armed) \in Nat
                      /\ Count(q, SqOf(op, f)) + Count(p, CqOf(op, f))
                             + Copies(Request(op, f, x), armed) = (IF s THEN 1 ELSE 0)
                      /\ s \in BOOLEAN /\ (s => x # None)
                      /\ ~ s => Count(p, About(op, f)) = 0
    OBVIOUS
  <2>1. p \in Seq(Completion) /\ DOMAIN armed \subseteq Requests
        /\ \A r \in DOMAIN armed : armed[r] \in Nat \ {0}
    BY <1>0
  <2>2. Neat(f, q, p, armed, b, l, x)
    BY <1>2
  <2> QED BY <2>1, <2>2, NeatAccounts
<1>4. /\ \E s \in Seq(Results(es)) : cq' = cq \o s
      /\ DOMAIN armed' \subseteq Requests
      /\ \A r \in DOMAIN armed' : r \in DOMAIN armed \/
            \E i \in DOMAIN es : r = Request(es[i].op, es[i].fd, FileOf(es[i].fd))
      /\ \A r \in DOMAIN armed' : armed'[r] \in Nat \ {0}
      /\ \A op \in {"ctrl", "recv"} : x # None =>
            Copies(Request(op, f, x), armed')
               = Copies(Request(op, f, x), armed) + Count(es, SqOf(op, f))
  BY <1>0, <1>1, <1>2, SubmitEffect DEF x
<1>5. PICK s \in Seq(Results(es)) : cq' = cq \o s
  BY <1>4
<1>6. s \in Seq(Completion) /\ d \o cq' = p \o s
  <2>1. s \in Seq(Completion)
    BY SeqMonotonic DEF Results
  <2>2. d \o (cq \o s) = (d \o cq) \o s
    BY <1>0, <2>1, ThreeParts
  <2> QED BY <1>5, <2>1, <2>2 DEF p
<1> DEFINE t == p \o s
<1>7. /\ t \in Seq(Completion) /\ Len(p) \in Nat /\ DOMAIN p = 1..Len(p)
      /\ DOMAIN t = 1..(Len(p) + Len(s)) /\ Len(s) \in Nat
      /\ \A i \in DOMAIN p : i \in DOMAIN t /\ t[i] = p[i]
      /\ \A i \in DOMAIN t : i \in DOMAIN p \/ t[i] \in Results(es)
      /\ \A V : /\ Count(t, V) = Count(p, V) + Count(s, V)
                /\ Count(p, V) \in Nat /\ Count(s, V) \in Nat
      /\ \A i \in DOMAIN s : s[i] \in Results(es)
  <2>1. \A i \in DOMAIN s : s[i] \in Results(es)
    BY ElementOfSeq, LenProperties
  <2>2. p \in Seq(Completion) /\ s \in Seq(Completion)
    BY <1>0, <1>6
  <2>3. /\ Len(p) \in Nat /\ DOMAIN p = 1..Len(p) /\ Len(s) \in Nat /\ DOMAIN s = 1..Len(s)
        /\ t \in Seq(Completion) /\ Len(t) = Len(p) + Len(s) /\ DOMAIN t = 1..Len(t)
    BY <2>2, LenProperties, ConcatProperties
  <2>4. \A i \in 1..(Len(p) + Len(s)) :
           t[i] = IF i <= Len(p) THEN p[i] ELSE s[i - Len(p)]
    BY <2>2, ConcatProperties
  <2>5. /\ \A i \in DOMAIN p : i \in DOMAIN t /\ t[i] = p[i]
        /\ \A i \in DOMAIN t : i \in DOMAIN p \/ (i - Len(p) \in DOMAIN s /\ t[i] = s[i - Len(p)])
    BY <2>3, <2>4
  <2>6. \A V : /\ Count(t, V) = Count(p, V) + Count(s, V)
               /\ Count(p, V) \in Nat /\ Count(s, V) \in Nat
    BY <2>2, CountConcat, CountNat
  <2> HIDE DEF t
  <2> QED BY <2>1, <2>3, <2>5, <2>6
<1>8. FileOf(f) = x /\ f # ListenFd
  BY FileOfType, UringAssumption DEF x
<1>9. \A op \in {"ctrl", "recv", "send"} :
         Count(es, SqOf(op, f)) = 0 => \A e \in Results(es) : ~ (e.op = op /\ e.fd = f)
  <2> SUFFICES ASSUME NEW op \in {"ctrl", "recv", "send"}, Count(es, SqOf(op, f)) = 0,
                      NEW e \in Results(es), e.op = op, e.fd = f
               PROVE  FALSE
    OBVIOUS
  <2>1. PICK i \in DOMAIN es : es[i].op = op /\ es[i].fd = f
    BY DEF Results
  <2>2. es[i] \in Sqes
    BY <1>1, ElementOfSeq, LenProperties
  <2>3. es[i] \in SqOf(op, f)
    BY <2>1, <2>2 DEF SqOf
  <2> QED BY <1>1, <2>3, CountNone
<1>10. ASSUME NEW op \in {"ctrl", "recv"}, NEW e \in Results(es), e.op = op, e.fd = f PROVE FALSE
  <2>1. Count(es, SqOf(op, f)) # 0
    BY <1>9, <1>10
  <2>2. x = None
    BY <1>8, <1>10 DEF Results
  <2>3. Count(q, SqOf(op, f)) # 0
    BY <1>1, <2>1
  <2> QED BY <1>3, <2>2, <2>3
<1>11. /\ \A op \in {"ctrl", "recv"} : Count(t, CqOf(op, f)) = Count(p, CqOf(op, f))
                                       /\ Count(t, About(op, f)) = Count(p, About(op, f))
       /\ Count(t, Brought("ctrl", f)) = Count(p, Brought("ctrl", f))
       /\ Count(t, Brought("accept", f)) = Count(p, Brought("accept", f))
  <2>1. ASSUME NEW V, \A e \in Results(es) : e \notin V PROVE Count(t, V) = Count(p, V)
    <3>1. Count(s, V) = 0
      BY <1>6, <1>7, <2>1, CountNone
    <3> HIDE DEF t
    <3> QED BY <1>7, <3>1
  <2>2. \A op \in {"ctrl", "recv"} : \A e \in Results(es) : e \notin CqOf(op, f) /\ e \notin About(op, f)
    BY <1>10 DEF CqOf, About
  <2>3. \A op : \A e \in Results(es) : e \notin Brought(op, f)
    <3>1. f # None
      BY UringAssumption
    <3> QED BY <3>1 DEF Results, Brought
  <2> HIDE DEF t
  <2> QED BY <2>1, <2>2, <2>3
<1> HIDE DEF t
<1>12. ASSUME NEW op \in {"ctrl", "recv"}, NEW u, u = IF op = "ctrl" THEN l ELSE b
       PROVE  Account(op, f, u, rest, t, armed', x)
  <2>1. Count(t, CqOf(op, f)) = Count(p, CqOf(op, f)) /\ Count(t, About(op, f)) = Count(p, About(op, f))
    BY <1>11
  <2>2. Count(rest, SqOf(op, f)) + Count(p, CqOf(op, f)) + Copies(Request(op, f, x), armed')
           = (IF u THEN 1 ELSE 0)
    <3>3. /\ Count(q, SqOf(op, f)) + Count(p, CqOf(op, f)) + Copies(Request(op, f, x), armed)
                = (IF u THEN 1 ELSE 0)
          /\ Copies(Request(op, f, x), armed) \in Nat /\ Count(p, CqOf(op, f)) \in Nat
      BY <1>3, <1>12
    <3>4. /\ Count(q, SqOf(op, f)) = Count(es, SqOf(op, f)) + Count(rest, SqOf(op, f))
          /\ Count(es, SqOf(op, f)) \in Nat /\ Count(rest, SqOf(op, f)) \in Nat
      BY <1>1
    <3>1. CASE x # None
      <4>1. Copies(Request(op, f, x), armed')
               = Copies(Request(op, f, x), armed) + Count(es, SqOf(op, f))
        BY <1>4, <3>1
      <4> QED BY <3>3, <3>4, <4>1
    <3>2. CASE x = None
      <4>1. \A r \in Requests : r.op # "accept" => r.file # None
        BY RequestCases, UringAssumption
      <4>2. Request(op, f, x) \notin DOMAIN armed'
        BY <1>4, <3>2, <4>1 DEF Request
      <4>3. Copies(Request(op, f, x), armed') = 0
        BY <4>2 DEF Copies
      <4>4. ~ u
        BY <1>3, <1>12, <3>2
      <4>5. Count(rest, SqOf(op, f)) = 0 /\ Count(p, CqOf(op, f)) = 0
        BY <3>3, <3>4, <4>4
      <4> QED BY <4>3, <4>4, <4>5
    <3> QED BY <3>1, <3>2
  <2>3. ~ u => Count(p, About(op, f)) = 0
    BY <1>3, <1>12
  <2> QED BY <2>1, <2>2, <2>3 DEF Account, If
<1>13. ~ b => Count(rest, SqOf("send", f)) = 0 /\ Count(t, Failed(f)) = 0
  <2> SUFFICES ASSUME ~ b PROVE Count(rest, SqOf("send", f)) = 0 /\ Count(t, Failed(f)) = 0
    OBVIOUS
  <2>1. Count(q, SqOf("send", f)) = 0 /\ Count(p, Failed(f)) = 0
    BY <1>2 DEF Neat
  <2>2. Count(es, SqOf("send", f)) = 0 /\ Count(rest, SqOf("send", f)) = 0
    BY <1>1, <2>1
  <2>3. \A e \in Results(es) : e \notin Failed(f)
    BY <1>9, <2>2 DEF Failed
  <2>4. Count(s, Failed(f)) = 0
    BY <1>6, <1>7, <2>3, CountNone
  <2>5. Count(t, Failed(f)) = 0
    BY <1>7, <2>1, <2>4
  <2> QED BY <2>2, <2>5
<1>14. Mine(f, t, armed', x)
  <2>1. ASSUME NEW i \in DOMAIN t, t[i].fd = f
        PROVE  (t[i].op = "send" /\ t[i].res = "ok") \/ t[i].file = x
    <3>1. CASE i \in DOMAIN p
      BY <1>2, <1>7, <2>1, <3>1 DEF Neat, Mine
    <3>2. CASE t[i] \in Results(es)
      BY <1>8, <2>1, <3>2 DEF Results
    <3> QED BY <1>7, <3>1, <3>2
  <2>2. ASSUME NEW r \in DOMAIN armed', r.fd = f PROVE r.file = x
    <3>1. CASE r \in DOMAIN armed
      BY <1>2, <2>2, <3>1 DEF Neat, Mine
    <3>2. CASE r \notin DOMAIN armed
      <4>1. PICK i \in DOMAIN es : r = Request(es[i].op, es[i].fd, FileOf(es[i].fd))
        BY <1>4, <3>2
      <4> QED BY <1>8, <2>2, <4>1 DEF Request
    <3> QED BY <3>1, <3>2
  <2> QED BY <2>1, <2>2 DEF Mine
<1>15. LastEnd(f, t)
  <2>1. \A i \in DOMAIN t : t[i].op = "recv" /\ t[i].fd = f => i \in DOMAIN p /\ t[i] = p[i]
    BY <1>7, <1>10
  <2> QED BY <1>2, <2>1 DEF Neat, LastEnd
<1>16. Neat(f, rest, t, armed', b, l, x)
  <2>1. Account("recv", f, b, rest, t, armed', x) /\ Account("ctrl", f, l, rest, t, armed', x)
    BY <1>12
  <2> QED BY <1>2, <1>11, <1>13, <1>14, <1>15, <2>1 DEF Neat
<1> QED BY <1>6, <1>16 DEF t, rest, x

\* A push, whether it submits or not.
LEMMA PushNeat ==
    ASSUME TypeOK, NEW es \in Seq(Sqes), NEW d \in Seq(Completion), Push(es),
           NEW f \in Fds, NEW b, NEW l, Regular(d \o cq, armed),
           Neat(f, sq \o es, d \o cq, armed, b, l, fdt[f])
    PROVE  Neat(f, sq', d \o cq', armed', b, l, fdt[f])
<1> DEFINE q == sq \o es
<1>1. PICK n \in 0..Len(q) :
         /\ sq' = SubSeq(q, n + 1, Len(q))
         /\ IF n = 0 THEN UNCHANGED ring ELSE Submit(SubSeq(q, 1, n))
  <2>1. sq \in Seq(Sqes)
    BY DEF TypeOK
  <2> QED BY <2>1, PushCuts
<1>2. q \in Seq(Sqes)
  BY ConcatProperties DEF TypeOK
<1>3. Neat(f, q, d \o cq, armed, b, l, fdt[f])
  OBVIOUS
<1> HIDE DEF q
<1>4. Len(q) \in Nat
  BY <1>2, LenProperties
<1>5. CASE n = 0
  <2>1. sq' = q
    BY <1>1, <1>2, <1>4, <1>5
  <2>2. armed' = armed /\ cq' = cq
    BY <1>1, <1>5 DEF ring
  <2> QED BY <1>3, <2>1, <2>2
<1>6. CASE n # 0
  <2>1. Submit(SubSeq(q, 1, n))
    BY <1>1, <1>6
  <2> QED BY <1>1, <1>2, <1>3, <2>1, SubmitNeat
<1> QED BY <1>5, <1>6

\* The completion e at the head was handled and es pushed: f is served as b2
\* and l2 say, with what that takes.
LEMMA HandledNeat ==
    ASSUME NEW q \in Seq(Sqes), NEW p \in Seq(Completion), NEW a, DOMAIN a \subseteq Requests,
           Regular(p, a), NEW f \in Fds, NEW b, NEW l, NEW x, Neat(f, q, p, a, b, l, x),
           p # <<>>, NEW es \in Seq(Sqes), NEW b2 \in BOOLEAN, NEW l2 \in BOOLEAN,
           b => b2, l => l2, b2 => x \in Clients, l2 => x \in Links,
           Head(p) \in Brought("ctrl", f) <=> b2 /\ ~ b,
           Head(p) \in Brought("accept", f) <=> l2 /\ ~ l,
           Count(es, SqOf("recv", f))
               = If(b2 /\ ~ b) + If(Head(p) \in CqOf("recv", f)),
           Count(es, SqOf("ctrl", f))
               = If(l2 /\ ~ l) + If(Head(p) \in CqOf("ctrl", f)),
           ~ b2 => Count(es, SqOf("send", f)) = 0
    PROVE  Neat(f, q \o es, Tail(p), a, b2, l2, x)
<1> DEFINE e == Head(p)
           t == Tail(p)
           q2 == q \o es
<1>0. \A r \in DOMAIN a : a[r] \in Nat \ {0}
  BY DEF Regular
<1>1. /\ e = p[1] /\ 1 \in DOMAIN p /\ e \in Completion
      /\ t \in Seq(Completion)
      /\ \A i \in DOMAIN t : i \in Nat /\ i # 0 /\ i + 1 \in DOMAIN p /\ t[i] = p[i + 1]
  BY HeadOff
<1>2. \A V : /\ Count(q2, V) = Count(q, V) + Count(es, V)
             /\ Count(p, V) = Count(t, V) + (IF e \in V THEN 1 ELSE 0)
             /\ Count(q, V) \in Nat /\ Count(es, V) \in Nat /\ Count(t, V) \in Nat
  <2>1. \A V : Count(q2, V) = Count(q, V) + Count(es, V)
    BY CountConcat
  <2>2. \A V : Count(p, V) = Count(t, V) + (IF e \in V THEN 1 ELSE 0)
    BY CountTail
  <2>3. t \in Seq(Completion)
    BY <1>1
  <2> HIDE DEF t, e, q2
  <2>4. \A V : Count(q, V) \in Nat /\ Count(es, V) \in Nat /\ Count(t, V) \in Nat
    BY <2>3, CountNat
  <2> QED BY <2>1, <2>2, <2>4
<1>3. /\ e \in Brought("ctrl", f) <=> b2 /\ ~ b
      /\ e \in Brought("accept", f) <=> l2 /\ ~ l
      /\ Count(es, SqOf("recv", f)) = If(b2 /\ ~ b) + If(e \in CqOf("recv", f))
      /\ Count(es, SqOf("ctrl", f)) = If(l2 /\ ~ l) + If(e \in CqOf("ctrl", f))
  OBVIOUS
<1> HIDE DEF e, t, q2
<1>4. /\ b \in BOOLEAN /\ l \in BOOLEAN /\ (b => x \in Clients) /\ (l => x \in Links)
      /\ Count(p, Brought("ctrl", f)) = If(x \in Clients /\ ~ b)
      /\ Count(p, Brought("accept", f)) = If(x \in Links /\ ~ l)
      /\ Account("recv", f, b, q, p, a, x) /\ Account("ctrl", f, l, q, p, a, x)
      /\ ~ b => Count(q, SqOf("send", f)) = 0 /\ Count(p, Failed(f)) = 0
      /\ Mine(f, p, a, x) /\ LastEnd(f, p)
  BY DEF Neat
<1>5. /\ Count(t, Brought("ctrl", f)) = If(x \in Clients /\ ~ b2)
      /\ Count(t, Brought("accept", f)) = If(x \in Links /\ ~ l2)
  <2>1. /\ Count(p, Brought("ctrl", f))
              = Count(t, Brought("ctrl", f)) + (IF e \in Brought("ctrl", f) THEN 1 ELSE 0)
        /\ Count(t, Brought("ctrl", f)) \in Nat
    BY <1>2
  <2>2. /\ Count(p, Brought("accept", f))
              = Count(t, Brought("accept", f)) + (IF e \in Brought("accept", f) THEN 1 ELSE 0)
        /\ Count(t, Brought("accept", f)) \in Nat
    BY <1>2
  <2>3. Count(t, Brought("ctrl", f)) = If(x \in Clients /\ ~ b2)
    BY <1>3, <1>4, <2>1 DEF If
  <2>4. Count(t, Brought("accept", f)) = If(x \in Links /\ ~ l2)
    BY <1>3, <1>4, <2>2 DEF If
  <2> QED BY <2>3, <2>4
<1>6. ASSUME NEW op \in {"ctrl", "recv"}, NEW s, NEW s2, s \in BOOLEAN, s2 \in BOOLEAN, s => s2,
             Account(op, f, s, q, p, a, x),
             Count(es, SqOf(op, f)) = If(s2 /\ ~ s) + If(e \in CqOf(op, f))
      PROVE  Account(op, f, s2, q2, t, a, x)
  <2> DEFINE V == SqOf(op, f)
             W == CqOf(op, f)
             k == Copies(Request(op, f, x), a)
  <2>1. k \in Nat
    BY <1>0 DEF Copies
  <2>2. /\ Count(q2, V) = Count(q, V) + Count(es, V)
        /\ Count(p, W) = Count(t, W) + (IF e \in W THEN 1 ELSE 0)
        /\ Count(q, V) \in Nat /\ Count(es, V) \in Nat /\ Count(t, W) \in Nat
    BY <1>2
  <2>3. Count(q, V) + Count(p, W) + k = If(s) /\ Count(es, V) = If(s2 /\ ~ s) + If(e \in W)
    BY <1>6 DEF Account
  <2> HIDE DEF V, W, k
  <2>4. Count(q2, V) + Count(t, W) + k = If(s2)
    BY <1>6, <2>1, <2>2, <2>3 DEF If
  <2>5. ~ s2 => Count(t, About(op, f)) = 0
    <3>1. ~ s2 => Count(p, About(op, f)) = 0
      BY <1>6 DEF Account
    <3>2. /\ Count(p, About(op, f)) = Count(t, About(op, f)) + (IF e \in About(op, f) THEN 1 ELSE 0)
          /\ Count(t, About(op, f)) \in Nat
      BY <1>2
    <3> QED BY <3>1, <3>2
  <2> QED BY <2>4, <2>5 DEF Account, V, W, k
<1>7. Account("recv", f, b2, q2, t, a, x) /\ Account("ctrl", f, l2, q2, t, a, x)
  BY <1>3, <1>4, <1>6
<1>8. ~ b2 => Count(q2, SqOf("send", f)) = 0 /\ Count(t, Failed(f)) = 0
  <2>1. /\ Count(q2, SqOf("send", f)) = Count(q, SqOf("send", f)) + Count(es, SqOf("send", f))
        /\ Count(p, Failed(f)) = Count(t, Failed(f)) + (IF e \in Failed(f) THEN 1 ELSE 0)
        /\ Count(t, Failed(f)) \in Nat
    BY <1>2
  <2> QED BY <1>4, <2>1
<1>9. Mine(f, t, a, x) /\ LastEnd(f, t)
  <2>1. Mine(f, t, a, x)
    BY <1>1, <1>4 DEF Mine
  <2>2. ASSUME NEW i \in DOMAIN t, NEW j \in DOMAIN t, t[i].op = "recv", t[j].op = "recv",
               t[i].fd = f, t[j].fd = f, i < j
        PROVE  t[i].more
    <3>1. /\ i + 1 \in DOMAIN p /\ t[i] = p[i + 1] /\ j + 1 \in DOMAIN p /\ t[j] = p[j + 1]
          /\ i \in Nat /\ j \in Nat /\ i + 1 < j + 1
      BY <1>1, <2>2
    <3> QED BY <1>4, <2>2, <3>1 DEF LastEnd
  <2> QED BY <2>1, <2>2 DEF LastEnd
<1>10. Neat(f, q2, t, a, b2, l2, x)
  BY <1>5, <1>7, <1>8, <1>9 DEF Neat
<1> QED BY <1>10 DEF q2, t

\* The completion at the head, which ends f's receive or recvmsg, closed f, and
\* no answer was under way.
LEMMA ClosedNeat ==
    ASSUME NEW q \in Seq(Sqes), NEW p \in Seq(Completion), NEW a, DOMAIN a \subseteq Requests,
           Regular(p, a), NEW f \in Fds, NEW b, NEW l, NEW x, Neat(f, q, p, a, b, l, x),
           p # <<>>, NEW op \in {"ctrl", "recv"}, Head(p) \in CqOf(op, f),
           op = "recv" => Count(q, SqOf("send", f)) = 0 /\ Count(p, Failed(f)) = 0
    PROVE  Neat(f, q, Tail(p), a, FALSE, FALSE, None)
<1> DEFINE e == Head(p)
           t == Tail(p)
<1>0. \A r \in DOMAIN a : a[r] \in Nat \ {0}
  BY DEF Regular
<1>1. /\ e = p[1] /\ 1 \in DOMAIN p /\ e \in Completion
      /\ t \in Seq(Completion)
      /\ \A i \in DOMAIN t : i \in Nat /\ i # 0 /\ i + 1 \in DOMAIN p /\ t[i] = p[i + 1]
      /\ \A V : /\ Count(p, V) = Count(t, V) + (IF e \in V THEN 1 ELSE 0)
                /\ Count(t, V) \in Nat
  BY HeadOff, CountTail, CountNat
<1>2. e.op = op /\ e.fd = f /\ ~ e.more /\ e \in CqOf(op, f)
  BY DEF CqOf
<1> HIDE DEF e, t
<1>3. \A o \in {"ctrl", "recv"} : \A s : s = (IF o = "ctrl" THEN l ELSE b) =>
         /\ Count(q, SqOf(o, f)) \in Nat /\ Count(p, CqOf(o, f)) \in Nat
         /\ Copies(Request(o, f, x), a) \in Nat
         /\ Count(q, SqOf(o, f)) + Count(p, CqOf(o, f)) + Copies(Request(o, f, x), a)
               = (IF s THEN 1 ELSE 0)
         /\ s \in BOOLEAN /\ (s => x # None)
         /\ ~ s => Count(p, About(o, f)) = 0
         /\ \A r \in DOMAIN a : r.op = o /\ r.fd = f =>
                 s /\ r = Request(o, f, x) /\ Copies(r, a) >= 1
  BY <1>0, NeatAccounts
<1>4. /\ (b => x \in Clients) /\ (l => x \in Links)
      /\ Count(p, Brought("ctrl", f)) = If(x \in Clients /\ ~ b)
      /\ Count(p, Brought("accept", f)) = If(x \in Links /\ ~ l)
      /\ ~ b => Count(q, SqOf("send", f)) = 0 /\ Count(p, Failed(f)) = 0
      /\ LastEnd(f, p)
  BY DEF Neat
<1>5. /\ op = "recv" => b /\ ~ l
      /\ op = "ctrl" => l /\ ~ b
  <2>1. Count(p, CqOf(op, f)) # 0
    <3>1. Count(p, CqOf(op, f)) = Count(t, CqOf(op, f)) + 1 /\ Count(t, CqOf(op, f)) \in Nat
      BY <1>1, <1>2
    <3> QED BY <3>1
  <2>2. ~ (x \in Clients /\ x \in Links)
    BY UringAssumption
  <2>3. IF op = "ctrl" THEN l ELSE b
    BY <1>3, <2>1
  <2> QED BY <1>3, <1>4, <2>2, <2>3
<1>6. ASSUME NEW o \in {"ctrl", "recv"}
      PROVE  /\ Count(q, SqOf(o, f)) = 0
             /\ \A i \in DOMAIN t : ~ (t[i].op = o /\ t[i].fd = f)
             /\ \A r \in DOMAIN a : ~ (r.op = o /\ r.fd = f)
  <2>1. CASE o = op
    <3>1. Count(p, CqOf(o, f)) = Count(t, CqOf(o, f)) + 1 /\ Count(t, CqOf(o, f)) \in Nat
      BY <1>1, <1>2, <2>1
    <3>2. /\ Count(q, SqOf(o, f)) = 0 /\ Copies(Request(o, f, x), a) = 0
          /\ Count(t, CqOf(o, f)) = 0
      BY <1>3, <3>1
    <3>3. \A r \in DOMAIN a : ~ (r.op = o /\ r.fd = f)
      <4> SUFFICES ASSUME NEW r \in DOMAIN a, r.op = o, r.fd = f PROVE FALSE
        OBVIOUS
      <4>1. r = Request(o, f, x) /\ Copies(r, a) >= 1
        BY <1>3
      <4> QED BY <3>2, <4>1
    <3>4. ASSUME NEW i \in DOMAIN t, t[i].op = o, t[i].fd = f PROVE FALSE
      <4>1. t[i].more
        BY <1>1, <3>2, <3>4, Classes
      <4>2. i + 1 \in DOMAIN p /\ t[i] = p[i + 1] /\ i \in Nat /\ 1 < i + 1
        BY <1>1, <3>4
      <4>3. o # "ctrl"
        BY <3>4, <4>1, <4>2 DEF Regular
      <4>4. o = "recv"
        BY <4>3
      <4>5. p[1].op = "recv" /\ p[1].fd = f /\ p[i + 1].op = "recv" /\ p[i + 1].fd = f
        BY <1>1, <1>2, <2>1, <3>4, <4>2, <4>4
      <4>6. p[1].more
        BY <1>1, <1>4, <4>2, <4>5 DEF LastEnd
      <4> QED BY <1>1, <1>2, <4>6
    <3> QED BY <3>2, <3>3, <3>4
  <2>2. CASE o # op
    <3>1. ~ (IF o = "ctrl" THEN l ELSE b)
      BY <1>5, <2>2
    <3>2. Count(q, SqOf(o, f)) = 0 /\ Count(p, About(o, f)) = 0
      BY <1>3, <3>1
    <3>3. \A i \in DOMAIN p : ~ (p[i].op = o /\ p[i].fd = f)
      BY <3>2, Classes
    <3>4. \A r \in DOMAIN a : ~ (r.op = o /\ r.fd = f)
      BY <1>3, <3>1
    <3> QED BY <1>1, <3>2, <3>3, <3>4
  <2> QED BY <2>1, <2>2
<1>7. /\ \A i \in DOMAIN t : t[i] \in Completion
      /\ \A V : Count(t, V) = 0 <=> \A i \in DOMAIN t : t[i] \notin V
  BY <1>1, CountNone, ElementOfSeq, LenProperties
<1>8. ASSUME NEW o \in {"ctrl", "recv"} PROVE Account(o, f, FALSE, q, t, a, None)
  <2>1. Count(t, About(o, f)) = 0 /\ Count(t, CqOf(o, f)) = 0
    BY <1>6, <1>7 DEF About, CqOf
  <2>2. Copies(Request(o, f, None), a) = 0
    BY <1>6 DEF Request, Copies
  <2> QED BY <1>6, <2>1, <2>2 DEF Account, If
<1>9. Count(t, Brought("ctrl", f)) = 0 /\ Count(t, Brought("accept", f)) = 0
  <2>1. ~ (x \in Clients /\ ~ b) /\ ~ (x \in Links /\ ~ l)
    BY <1>4, <1>5, UringAssumption
  <2>2. Count(p, Brought("ctrl", f)) = 0 /\ Count(p, Brought("accept", f)) = 0
    BY <1>4, <2>1 DEF If
  <2>3. \A o : /\ Count(p, Brought(o, f)) = Count(t, Brought(o, f))
                                              + (IF e \in Brought(o, f) THEN 1 ELSE 0)
               /\ Count(t, Brought(o, f)) \in Nat
    BY <1>1
  <2> QED BY <2>2, <2>3
<1>10. Count(q, SqOf("send", f)) = 0 /\ Count(t, Failed(f)) = 0
  <2>1. Count(q, SqOf("send", f)) = 0 /\ Count(p, Failed(f)) = 0
    BY <1>4, <1>5
  <2>2. /\ Count(p, Failed(f)) = Count(t, Failed(f)) + (IF e \in Failed(f) THEN 1 ELSE 0)
        /\ Count(t, Failed(f)) \in Nat
    BY <1>1
  <2> QED BY <2>1, <2>2
<1>11. Regular(t, a)
  BY <1>1 DEF Regular
<1>12. f # ListenFd
  BY UringAssumption
<1>13. Mine(f, t, a, None)
  <2>1. ASSUME NEW i \in DOMAIN t, t[i].fd = f PROVE t[i].op = "send" /\ t[i].res = "ok"
    <3>1. t[i].op \in {"accept", "ctrl", "recv", "send"}
      BY <1>7 DEF Completion, Ended, News
    <3>2. t[i].op = "send"
      BY <1>6, <1>11, <1>12, <2>1, <3>1 DEF Regular
    <3>3. t[i] \notin Failed(f)
      BY <1>7, <1>10
    <3> QED BY <1>7, <2>1, <3>2, <3>3 DEF Failed
  <2>2. ASSUME NEW r \in DOMAIN a, r.fd = f PROVE FALSE
    <3>1. r.op \in {"ctrl", "recv"}
      BY <1>12, <2>2, RequestCases
    <3> QED BY <1>6, <2>2, <3>1
  <2> QED BY <2>1, <2>2 DEF Mine
<1>14. LastEnd(f, t)
  BY <1>6 DEF LastEnd
<1>15. ~ (None \in Clients) /\ ~ (None \in Links)
  BY UringAssumption DEF Files
<1>16. Neat(f, q, t, a, FALSE, FALSE, None)
  BY <1>8, <1>9, <1>10, <1>13, <1>14, <1>15 DEF Neat, If
<1> QED BY <1>16 DEF t

\* The kernel completed r, a request in flight, with e; f may be the new number
\* that e brings.
LEMMA PostedNeat ==
    ASSUME NEW q \in Seq(Sqes), NEW p \in Seq(Completion), NEW a, DOMAIN a \subseteq Requests,
           Regular(p, a), NEW f \in Fds, NEW b, NEW l, NEW x, Neat(f, q, p, a, b, l, x),
           NEW r \in DOMAIN a, NEW e \in Completion, e.op = r.op, e.fd = r.fd, e.file = r.file,
           r.op = "ctrl" => ~ e.more,
           NEW a2, DOMAIN a2 \subseteq DOMAIN a, \A y \in DOMAIN a2 : a2[y] \in Nat \ {0},
           \A y : y # r => Copies(y, a2) = Copies(y, a),
           Copies(r, a) = Copies(r, a2) + (IF e.more THEN 0 ELSE 1),
           NEW x2,
           \/ x2 = x /\ e \notin Brought("ctrl", f) /\ e \notin Brought("accept", f)
           \/ x = None /\ e \in Brought("ctrl", f) /\ x2 \in Clients
           \/ x = None /\ e \in Brought("accept", f) /\ x2 \in Links
    PROVE  Neat(f, q, Append(p, e), a2, b, l, x2)
<1> DEFINE t == Append(p, e)
           S(o) == IF o = "ctrl" THEN l ELSE b
<1>0. \A y \in DOMAIN a : a[y] \in Nat \ {0}
  BY DEF Regular
<1>1. /\ t \in Seq(Completion) /\ Len(p) \in Nat
      /\ DOMAIN p = 1..Len(p) /\ DOMAIN t = 1..(Len(p) + 1)
      /\ \A i \in DOMAIN p : i \in DOMAIN t /\ t[i] = p[i] /\ p[i] \in Completion
      /\ t[Len(p) + 1] = e
      /\ \A i \in DOMAIN t : (i \in DOMAIN p /\ t[i] = p[i]) \/ (i = Len(p) + 1 /\ t[i] = e)
  BY EndOn, ElementOfSeq
<1>2. \A V : /\ Count(t, V) = Count(p, V) + (IF e \in V THEN 1 ELSE 0)
             /\ Count(p, V) \in Nat
  BY CountAppend, CountNat
<1> HIDE DEF t
<1>3. /\ r \in Requests
      /\ r.op = "accept" => r.fd = ListenFd /\ r.file = ListenFd
      /\ r.op # "accept" => r.fd \in Fds /\ r.file \in Files /\ r.op \in {"ctrl", "recv"}
      /\ f # ListenFd /\ None \notin Files
  BY RequestCases, UringAssumption
<1>4. \A o \in {"ctrl", "recv"} :
         /\ Count(q, SqOf(o, f)) \in Nat /\ Count(p, CqOf(o, f)) \in Nat
         /\ Copies(Request(o, f, x), a) \in Nat
         /\ Count(q, SqOf(o, f)) + Count(p, CqOf(o, f)) + Copies(Request(o, f, x), a)
               = (IF S(o) THEN 1 ELSE 0)
         /\ S(o) \in BOOLEAN /\ (S(o) => x # None /\ x \in Files)
         /\ ~ S(o) => Count(p, About(o, f)) = 0
         /\ \A y \in DOMAIN a : y.op = o /\ y.fd = f =>
                 S(o) /\ y = Request(o, f, x) /\ Copies(y, a) >= 1
  <2> SUFFICES ASSUME NEW o \in {"ctrl", "recv"}
               PROVE  /\ Count(q, SqOf(o, f)) \in Nat /\ Count(p, CqOf(o, f)) \in Nat
                      /\ Copies(Request(o, f, x), a) \in Nat
                      /\ Count(q, SqOf(o, f)) + Count(p, CqOf(o, f)) + Copies(Request(o, f, x), a)
                            = (IF S(o) THEN 1 ELSE 0)
                      /\ S(o) \in BOOLEAN /\ (S(o) => x # None /\ x \in Files)
                      /\ ~ S(o) => Count(p, About(o, f)) = 0
                      /\ \A y \in DOMAIN a : y.op = o /\ y.fd = f =>
                            S(o) /\ y = Request(o, f, x) /\ Copies(y, a) >= 1
    OBVIOUS
  <2> DEFINE s == S(o)
  <2>1. s = IF o = "ctrl" THEN l ELSE b
    OBVIOUS
  <2> HIDE DEF s, S
  <2>2. s = S(o)
    BY DEF s
  <2> QED BY <1>0, <2>1, <2>2, NeatAccounts
<1>5. /\ b \in BOOLEAN /\ l \in BOOLEAN /\ (b => x \in Clients) /\ (l => x \in Links)
      /\ Count(p, Brought("ctrl", f)) = If(x \in Clients /\ ~ b)
      /\ Count(p, Brought("accept", f)) = If(x \in Links /\ ~ l)
      /\ ~ b => Count(q, SqOf("send", f)) = 0 /\ Count(p, Failed(f)) = 0
      /\ Mine(f, p, a, x) /\ LastEnd(f, p)
  BY DEF Neat
<1>6. ~ b => Count(q, SqOf("send", f)) = 0 /\ Count(t, Failed(f)) = 0
  <2>1. e \notin Failed(f)
    BY <1>3 DEF Failed
  <2> QED BY <1>2, <1>5, <2>1
<1>7. ASSUME x2 = x, e \notin Brought("ctrl", f), e \notin Brought("accept", f)
      PROVE  /\ Count(t, Brought("ctrl", f)) = If(x2 \in Clients /\ ~ b)
             /\ Count(t, Brought("accept", f)) = If(x2 \in Links /\ ~ l)
  BY <1>2, <1>5, <1>7
<1>8. CASE r.fd = f
  <2>1. /\ r.op \in {"ctrl", "recv"} /\ r.file = x /\ x \in Files /\ x # None
    BY <1>3, <1>5, <1>8 DEF Mine
  <2>2. x2 = x /\ e \notin Brought("ctrl", f) /\ e \notin Brought("accept", f)
    BY <2>1
  <2>3. S(r.op) /\ r = Request(r.op, f, x) /\ Copies(r, a) >= 1
    BY <1>4, <1>8, <2>1
  <2>4. Count(q, SqOf(r.op, f)) = 0 /\ Count(p, CqOf(r.op, f)) = 0 /\ Copies(r, a) = 1
    <3> DEFINE m == Count(q, SqOf(r.op, f))
               n == Count(p, CqOf(r.op, f))
               k == Copies(r, a)
    <3>1. m \in Nat /\ n \in Nat /\ k \in Nat /\ k >= 1 /\ m + n + k = 1
      BY <1>4, <2>1, <2>3
    <3> HIDE DEF m, n, k
    <3>2. m = 0 /\ n = 0 /\ k = 1
      BY <3>1
    <3> QED BY <3>2 DEF m, n, k
  <2>5. Copies(r, a2) \in Nat
    BY DEF Copies
  <2>6. ASSUME NEW o \in {"ctrl", "recv"} PROVE Account(o, f, S(o), q, t, a2, x)
    <3>1. CASE o = r.op
      <4>1. e \in CqOf(o, f) <=> ~ e.more
        BY <1>8, <3>1 DEF CqOf
      <4>2. Count(t, CqOf(o, f)) = IF e.more THEN 0 ELSE 1
        BY <1>2, <2>4, <3>1, <4>1
      <4>3. Copies(Request(o, f, x), a2) = IF e.more THEN 1 ELSE 0
        BY <2>3, <2>4, <2>5, <3>1
      <4>4. Count(q, SqOf(o, f)) + Count(t, CqOf(o, f)) + Copies(Request(o, f, x), a2) = 1
        BY <2>4, <3>1, <4>2, <4>3
      <4> QED BY <2>3, <3>1, <4>4 DEF Account, If
    <3>2. CASE o # r.op
      <4>1. e \notin CqOf(o, f) /\ e \notin About(o, f)
        BY <3>2 DEF CqOf, About
      <4>2. Request(o, f, x) # r
        BY <3>2 DEF Request
      <4>3. /\ Count(t, CqOf(o, f)) = Count(p, CqOf(o, f))
            /\ Count(t, About(o, f)) = Count(p, About(o, f))
            /\ Copies(Request(o, f, x), a2) = Copies(Request(o, f, x), a)
        BY <1>2, <4>1, <4>2
      <4> QED BY <1>4, <4>3 DEF Account, If
    <3> QED BY <3>1, <3>2
  <2>7. Account("recv", f, b, q, t, a2, x) /\ Account("ctrl", f, l, q, t, a2, x)
    BY <2>6
  <2>8. Mine(f, t, a2, x)
    BY <1>1, <1>5, <2>1 DEF Mine
  <2>9. LastEnd(f, t)
    <3> SUFFICES ASSUME NEW i \in DOMAIN t, NEW j \in DOMAIN t, t[i].op = "recv",
                        t[j].op = "recv", t[i].fd = f, t[j].fd = f, i < j
                 PROVE  t[i].more
      BY DEF LastEnd
    <3>1. i \in DOMAIN p /\ t[i] = p[i]
      BY <1>1
    <3>2. CASE j \in DOMAIN p
      BY <1>1, <1>5, <3>1, <3>2 DEF LastEnd
    <3>3. CASE j = Len(p) + 1
      <4>1. r.op = "recv"
        BY <1>1, <3>3
      <4> QED BY <2>4, <3>1, <4>1, Classes
    <3> QED BY <1>1, <3>2, <3>3
  <2>10. /\ Count(t, Brought("ctrl", f)) = If(x2 \in Clients /\ ~ b)
         /\ Count(t, Brought("accept", f)) = If(x2 \in Links /\ ~ l)
    BY <1>7, <2>2
  <2>11. Neat(f, q, t, a2, b, l, x2)
    BY <1>5, <1>6, <2>2, <2>7, <2>8, <2>9, <2>10 DEF Neat
  <2> QED BY <2>11 DEF t
<1>9. CASE r.fd # f
  <2>1. /\ LastEnd(f, t)
        /\ \A i \in DOMAIN t : t[i].fd = f => i \in DOMAIN p /\ t[i] = p[i]
    BY <1>1, <1>5, <1>9 DEF LastEnd
  <2>2. \A o \in {"ctrl", "recv"} :
           /\ Count(t, CqOf(o, f)) = Count(p, CqOf(o, f))
           /\ Count(t, About(o, f)) = Count(p, About(o, f))
           /\ \A y : Copies(Request(o, f, y), a2) = Copies(Request(o, f, y), a)
    <3> SUFFICES ASSUME NEW o \in {"ctrl", "recv"}
                 PROVE  /\ Count(t, CqOf(o, f)) = Count(p, CqOf(o, f))
                        /\ Count(t, About(o, f)) = Count(p, About(o, f))
                        /\ \A y : Copies(Request(o, f, y), a2) = Copies(Request(o, f, y), a)
      OBVIOUS
    <3>1. e \notin CqOf(o, f) /\ e \notin About(o, f)
      BY <1>9 DEF CqOf, About
    <3>2. \A y : Request(o, f, y) # r
      BY <1>9 DEF Request
    <3> QED BY <1>2, <3>1, <3>2
  <2>3. CASE x2 = x /\ e \notin Brought("ctrl", f) /\ e \notin Brought("accept", f)
    <3>1. Account("recv", f, b, q, t, a2, x) /\ Account("ctrl", f, l, q, t, a2, x)
      <4>1. Account("recv", f, b, q, p, a, x) /\ Account("ctrl", f, l, q, p, a, x)
        BY DEF Neat
      <4> QED BY <2>2, <4>1 DEF Account
    <3>2. Mine(f, t, a2, x)
      BY <1>5, <2>1 DEF Mine
    <3>3. /\ Count(t, Brought("ctrl", f)) = If(x2 \in Clients /\ ~ b)
          /\ Count(t, Brought("accept", f)) = If(x2 \in Links /\ ~ l)
      BY <1>7, <2>3
    <3>4. Neat(f, q, t, a2, b, l, x2)
      BY <1>5, <1>6, <2>1, <2>3, <3>1, <3>2, <3>3 DEF Neat
    <3> QED BY <3>4 DEF t
  <2>4. CASE /\ x = None
             /\ \/ e \in Brought("ctrl", f) /\ x2 \in Clients
                \/ e \in Brought("accept", f) /\ x2 \in Links
    <3>1. b = FALSE /\ l = FALSE /\ x2 \in Files /\ x2 # None
      BY <1>3, <1>5, <2>4 DEF Files
    <3>2. \A y \in DOMAIN a : y.fd # f
      <4> SUFFICES ASSUME NEW y \in DOMAIN a, y.fd = f PROVE FALSE
        OBVIOUS
      <4>1. y.file = None
        BY <1>5, <2>4 DEF Mine
      <4> QED BY <1>3, <4>1, RequestCases
    <3>3. ASSUME NEW o \in {"ctrl", "recv"}
          PROVE  Account(o, f, FALSE, q, t, a2, x2) /\ Count(p, About(o, f)) = 0
      <4>1. S(o) = FALSE
        BY <3>1
      <4>2. /\ Count(q, SqOf(o, f)) \in Nat /\ Count(p, CqOf(o, f)) \in Nat
            /\ Copies(Request(o, f, x), a) \in Nat
            /\ Count(q, SqOf(o, f)) + Count(p, CqOf(o, f)) + Copies(Request(o, f, x), a) = 0
        BY <1>4, <4>1
      <4>3. Count(q, SqOf(o, f)) = 0 /\ Count(p, CqOf(o, f)) = 0
        BY <4>2
      <4>4. Count(p, About(o, f)) = 0
        BY <1>4, <4>1
      <4>5. Copies(Request(o, f, x2), a) = 0
        BY <3>2 DEF Request, Copies
      <4>6. /\ Count(t, CqOf(o, f)) = 0 /\ Count(t, About(o, f)) = 0
            /\ Copies(Request(o, f, x2), a2) = 0
        BY <2>2, <4>3, <4>4, <4>5
      <4>7. Count(q, SqOf(o, f)) + Count(t, CqOf(o, f)) + Copies(Request(o, f, x2), a2) = 0
        BY <4>3, <4>6
      <4> QED BY <4>4, <4>6, <4>7 DEF Account, If
    <3>4. Account("recv", f, b, q, t, a2, x2) /\ Account("ctrl", f, l, q, t, a2, x2)
      BY <3>1, <3>3
    <3>5. Mine(f, t, a2, x2)
      <4>1. ASSUME NEW i \in DOMAIN t, t[i].fd = f PROVE t[i].op = "send" /\ t[i].res = "ok"
        <5>1. i \in DOMAIN p /\ t[i] = p[i] /\ p[i] \in Completion
          BY <1>1, <2>1, <4>1
        <5>2. p[i].op \in {"accept", "ctrl", "recv", "send"}
          BY <5>1 DEF Completion, Ended, News
        <5>3. p[i].op # "accept"
          BY <1>3, <4>1, <5>1 DEF Regular
        <5>4. \A o \in {"ctrl", "recv"} : p[i].op # o
          <6>1. \A o \in {"ctrl", "recv"} :
                   Count(p, About(o, f)) = 0 =>
                      \A k \in DOMAIN p : ~ (p[k].op = o /\ p[k].fd = f)
            BY Classes
          <6> QED BY <3>3, <4>1, <5>1, <6>1
        <5>5. p[i] \notin Failed(f)
          <6>1. Count(p, Failed(f)) = 0
            BY <1>5, <3>1
          <6> QED BY <5>1, <6>1, CountNone
        <5> QED BY <4>1, <5>1, <5>2, <5>3, <5>4, <5>5 DEF Failed
      <4>2. \A y \in DOMAIN a2 : y.fd # f
        BY <3>2
      <4> QED BY <4>1, <4>2 DEF Mine
    <3>6. /\ Count(p, Brought("ctrl", f)) = 0 /\ Count(p, Brought("accept", f)) = 0
      <4>1. ~ (x \in Clients /\ ~ b) /\ ~ (x \in Links /\ ~ l)
        BY <1>3, <2>4 DEF Files
      <4> QED BY <1>5, <4>1 DEF If
    <3>7. /\ Count(t, Brought("ctrl", f)) = If(x2 \in Clients /\ ~ b)
          /\ Count(t, Brought("accept", f)) = If(x2 \in Links /\ ~ l)
      <4>0. Clients \cap Links = {}
        BY UringAssumption
      <4>1. CASE e \in Brought("ctrl", f) /\ x2 \in Clients
        <5>1. e \notin Brought("accept", f) /\ x2 \notin Links
          BY <4>0, <4>1 DEF Brought
        <5>2. Count(t, Brought("ctrl", f)) = 1 /\ Count(t, Brought("accept", f)) = 0
          BY <1>2, <3>6, <4>1, <5>1
        <5> QED BY <3>1, <4>1, <5>1, <5>2 DEF If
      <4>2. CASE e \in Brought("accept", f) /\ x2 \in Links
        <5>1. e \notin Brought("ctrl", f) /\ x2 \notin Clients
          BY <4>0, <4>2 DEF Brought
        <5>2. Count(t, Brought("ctrl", f)) = 0 /\ Count(t, Brought("accept", f)) = 1
          BY <1>2, <3>6, <4>2, <5>1
        <5> QED BY <3>1, <4>2, <5>1, <5>2 DEF If
      <4> QED BY <2>4, <4>1, <4>2
    <3>8. Neat(f, q, t, a2, b, l, x2)
      BY <1>6, <2>1, <3>1, <3>4, <3>5, <3>7 DEF Neat
    <3> QED BY <3>8 DEF t
  <2> QED BY <2>3, <2>4
<1> QED BY <1>8, <1>9

---------------------------------------------------------------------------
(* Number by number: each step.                                            *)

\* What a tidy number says of the completion being handled.
LEMMA HeadNeat ==
    ASSUME TypeOK, done # <<>>, NEW f \in Fds, NeatNow(f), Regular(done \o cq, armed)
    PROVE  /\ done \o cq \in Seq(Completion) /\ done \o cq # <<>>
           /\ Head(done \o cq) = E /\ Tail(done \o cq) = Tail(done) \o cq
           /\ Tail(done) \in Seq(Completion) /\ E \in Completion
           /\ conns[f].some \in BOOLEAN
           /\ conns[f].some => f \notin ctrls
           /\ conns[f].some => fdt[f] \in Clients
           /\ f \in ctrls => fdt[f] \in Links
           /\ E.op = "recv" /\ E.fd = f => conns[f].some
           /\ E.op = "ctrl" /\ E.fd = f => f \in ctrls /\ ~ E.more
           /\ E \in Brought("ctrl", f) => /\ fdt[f] \in Clients /\ ~ conns[f].some /\ f \notin ctrls
           /\ E \in Brought("accept", f) => /\ fdt[f] \in Links /\ ~ conns[f].some /\ f \notin ctrls
<1> DEFINE p == done \o cq
           e == Head(p)
<1>1. done \in Seq(Completion) /\ cq \in Seq(Completion)
  BY DEF TypeOK
<1>2. /\ p \in Seq(Completion) /\ p # <<>> /\ e = E /\ Tail(p) = Tail(done) \o cq
      /\ Tail(done) \in Seq(Completion) /\ E \in Completion
  BY <1>1, QueueHead DEF E
<1>3. Neat(f, sq, p, armed, conns[f].some, f \in ctrls, fdt[f]) /\ Regular(p, armed)
  BY DEF NeatNow
<1> HIDE DEF p, e
<1>4. 1 \in DOMAIN p /\ p[1] = E
  BY <1>2, HeadOff DEF e
<1>5. /\ conns[f].some \in BOOLEAN
      /\ conns[f].some => fdt[f] \in Clients
      /\ f \in ctrls => fdt[f] \in Links
      /\ Count(p, Brought("ctrl", f)) = If(fdt[f] \in Clients /\ ~ conns[f].some)
      /\ Count(p, Brought("accept", f)) = If(fdt[f] \in Links /\ f \notin ctrls)
      /\ ~ conns[f].some => Count(p, About("recv", f)) = 0
      /\ f \notin ctrls => Count(p, About("ctrl", f)) = 0
  BY <1>3 DEF Neat, Account
<1>6. Clients \cap Links = {}
  BY UringAssumption
<1>7. \A V : Count(p, V) = 0 => E \notin V
  BY <1>2, <1>4, CountNone
<1>8. E.op = "recv" /\ E.fd = f => conns[f].some
  BY <1>2, <1>5, <1>7 DEF About
<1>9. E.op = "ctrl" /\ E.fd = f => f \in ctrls /\ ~ E.more
  <2>1. E.op = "ctrl" /\ E.fd = f => f \in ctrls
    BY <1>2, <1>5, <1>7 DEF About
  <2>2. E.op = "ctrl" => ~ E.more
    BY <1>3, <1>4 DEF Regular
  <2> QED BY <2>1, <2>2
<1>10. E \in Brought("ctrl", f) => fdt[f] \in Clients /\ ~ conns[f].some
  BY <1>5, <1>7 DEF If
<1>11. E \in Brought("accept", f) => fdt[f] \in Links /\ f \notin ctrls
  BY <1>5, <1>7 DEF If
<1>12. /\ conns[f].some => f \notin ctrls
       /\ E \in Brought("ctrl", f) => f \notin ctrls
       /\ E \in Brought("accept", f) => ~ conns[f].some
  BY <1>5, <1>6, <1>10, <1>11
<1> QED BY <1>2, <1>5, <1>8, <1>9, <1>10, <1>11, <1>12 DEF p, e

\* A handler that pushed es, or nothing, and left the number f open.
LEMMA HandledNow ==
    ASSUME TypeOK, done # <<>>, done' = Tail(done), Regular(done \o cq, armed),
           NEW f \in Fds, NeatNow(f), fdt'[f] = fdt[f], NEW es \in Seq(Sqes),
           Push(es) \/ (es = <<>> /\ UNCHANGED <<sq, cq, armed>>),
           conns'[f].some \in BOOLEAN,
           conns[f].some => conns'[f].some, f \in ctrls => f \in ctrls',
           E \in Brought("ctrl", f) <=> conns'[f].some /\ ~ conns[f].some,
           E \in Brought("accept", f) <=> f \in ctrls' /\ f \notin ctrls,
           Count(es, SqOf("recv", f))
               = If(conns'[f].some /\ ~ conns[f].some) + If(E \in CqOf("recv", f)),
           Count(es, SqOf("ctrl", f))
               = If(f \in ctrls' /\ f \notin ctrls) + If(E \in CqOf("ctrl", f)),
           ~ conns'[f].some => Count(es, SqOf("send", f)) = 0
    PROVE  NeatNow(f)'
<1> DEFINE p == done \o cq
           b == conns[f].some
           l == f \in ctrls
           b2 == conns'[f].some
           l2 == f \in ctrls'
           x == fdt[f]
           d == Tail(done)
<1>1. /\ p \in Seq(Completion) /\ p # <<>> /\ Head(p) = E /\ Tail(p) = d \o cq
      /\ d \in Seq(Completion)
      /\ E \in Brought("ctrl", f) => x \in Clients
      /\ E \in Brought("accept", f) => x \in Links
      /\ b => x \in Clients
      /\ l => x \in Links
  BY HeadNeat
<1>2. sq \in Seq(Sqes) /\ DOMAIN armed \subseteq Requests
  BY DEF TypeOK, BagToSet
<1>3. Neat(f, sq, p, armed, b, l, x) /\ Regular(p, armed)
  BY DEF NeatNow
<1>4. /\ b2 \in BOOLEAN /\ l2 \in BOOLEAN /\ (b => b2) /\ (l => l2)
      /\ E \in Brought("ctrl", f) <=> b2 /\ ~ b
      /\ E \in Brought("accept", f) <=> l2 /\ ~ l
      /\ Count(es, SqOf("recv", f)) = If(b2 /\ ~ b) + If(E \in CqOf("recv", f))
      /\ Count(es, SqOf("ctrl", f)) = If(l2 /\ ~ l) + If(E \in CqOf("ctrl", f))
      /\ ~ b2 => Count(es, SqOf("send", f)) = 0
  OBVIOUS
<1>5. done' = d /\ fdt'[f] = x
  OBVIOUS
<1> HIDE DEF p, b, l, b2, l2, x, d, E
<1>6. (b2 => x \in Clients) /\ (l2 => x \in Links)
  BY <1>1, <1>4
<1>7. Neat(f, sq \o es, Tail(p), armed, b2, l2, x)
  <2> DEFINE e == Head(p)
  <2>1. /\ e \in Brought("ctrl", f) <=> b2 /\ ~ b
        /\ e \in Brought("accept", f) <=> l2 /\ ~ l
        /\ Count(es, SqOf("recv", f)) = If(b2 /\ ~ b) + If(e \in CqOf("recv", f))
        /\ Count(es, SqOf("ctrl", f)) = If(l2 /\ ~ l) + If(e \in CqOf("ctrl", f))
    BY <1>1, <1>4
  <2> QED BY <1>1, <1>2, <1>3, <1>4, <1>6, <2>1, HandledNeat
<1>8. Neat(f, sq \o es, d \o cq, armed, b2, l2, x)
  BY <1>1, <1>7
<1>9. Regular(d \o cq, armed)
  BY <1>1, <1>3, RegularTail
<1>10. Neat(f, sq', d \o cq', armed', b2, l2, x)
  <2>1. CASE Push(es)
    BY <1>1, <1>8, <1>9, <2>1, PushNeat DEF x
  <2>2. CASE es = <<>> /\ UNCHANGED <<sq, cq, armed>>
    <3>1. sq \o es = sq
      BY <1>2, <2>2, ConcatEmptySeq
    <3> QED BY <1>8, <2>2, <3>1
  <2> QED BY <2>1, <2>2
<1> QED BY <1>5, <1>10 DEF NeatNow, b2, l2

\* A handler that does not concern f.
LEMMA HandledElse ==
    ASSUME TypeOK, done # <<>>, done' = Tail(done), Regular(done \o cq, armed),
           NEW f \in Fds, NeatNow(f), fdt'[f] = fdt[f], NEW es \in Seq(Sqes),
           Push(es) \/ (es = <<>> /\ UNCHANGED <<sq, cq, armed>>),
           conns'[f] = conns[f], f \in ctrls' <=> f \in ctrls,
           E.fd # f \/ E.op \in {"accept", "send"}, E.op \in {"ctrl", "accept"} => E.val # f,
           \A i \in DOMAIN es : es[i].op \in {"ctrl", "recv", "send"} => es[i].fd # f
    PROVE  NeatNow(f)'
<1>1. /\ E \notin CqOf("recv", f) /\ E \notin CqOf("ctrl", f)
      /\ E \notin Brought("ctrl", f) /\ E \notin Brought("accept", f)
  BY DEF CqOf, Brought
<1>2. \A op \in {"ctrl", "recv", "send"} : Count(es, SqOf(op, f)) = 0
  <2> SUFFICES ASSUME NEW op \in {"ctrl", "recv", "send"} PROVE Count(es, SqOf(op, f)) = 0
    OBVIOUS
  <2>1. \A i \in DOMAIN es : es[i] \notin SqOf(op, f)
    BY DEF SqOf
  <2> QED BY <2>1, CountNone
<1>3. conns'[f].some \in BOOLEAN
  BY HeadNeat
<1> HIDE DEF E
<1>4. /\ Count(es, SqOf("recv", f))
            = If(conns'[f].some /\ ~ conns[f].some) + If(E \in CqOf("recv", f))
      /\ Count(es, SqOf("ctrl", f))
            = If(f \in ctrls' /\ f \notin ctrls) + If(E \in CqOf("ctrl", f))
      /\ Count(es, SqOf("send", f)) = 0
  BY <1>1, <1>2 DEF If
<1> QED BY <1>1, <1>3, <1>4, HandledNow DEF E

LEMMA OnAcceptNeat ==
    ASSUME TypeOK, Regular(done \o cq, armed), NEW f \in Fds, NeatNow(f), OnAccept
    PROVE  NeatNow(f)'
<1> DEFINE v == E.val
           x == Sqe("ctrl", v, None)
           es == <<x>> \o AcceptAgain
<1>1. /\ done # <<>> /\ E.op = "accept" /\ E.res = "ok" /\ ctrls' = ctrls \cup {v} /\ Push(es)
      /\ done' = Tail(done) /\ conns' = conns /\ fdt' = fdt
  BY DEF OnAccept, Handling, Handled, kernel
<1>2. E \in Completion /\ v \in Fds
  <2>1. Handling("accept") /\ Handled
    BY DEF OnAccept
  <2> QED BY <1>1, <2>1, HandledType, CompletionCases
<1>3. x \in Sqes /\ x.op = "ctrl" /\ x.fd = v
  BY <1>2 DEF Sqe, Sqes
<1> HIDE DEF x
<1>4. /\ es \in Seq(Sqes)
      /\ \A i \in DOMAIN es : es[i] = x \/ \E j \in DOMAIN AcceptAgain : es[i] = AcceptAgain[j]
  BY <1>3, AcceptAgainFacts, PairCount
<1>5. CASE f # v
  <2>1. \A i \in DOMAIN es : es[i].op \in {"ctrl", "recv", "send"} => es[i].fd # f
    BY <1>3, <1>4, <1>5, AcceptAgainFacts
  <2> HIDE DEF es
  <2> QED BY <1>1, <1>4, <1>5, <2>1, HandledElse
<1>6. CASE f = v
  <2>1. E \in Brought("accept", f)
    BY <1>1, <1>2, <1>6 DEF Brought
  <2>2. ~ conns[f].some /\ f \notin ctrls
    BY <1>1, <2>1, HeadNeat
  <2>3. /\ E \notin Brought("ctrl", f) /\ E \notin CqOf("ctrl", f) /\ E \notin CqOf("recv", f)
    BY <1>1 DEF Brought, CqOf
  <2>4. \A op \in {"ctrl", "recv"} : Count(es, SqOf(op, f)) = IF op = "ctrl" THEN 1 ELSE 0
    <3> SUFFICES ASSUME NEW op \in {"ctrl", "recv"}
                 PROVE  Count(es, SqOf(op, f)) = IF op = "ctrl" THEN 1 ELSE 0
      OBVIOUS
    <3>1. Count(es, SqOf(op, f))
             = (IF x \in SqOf(op, f) THEN 1 ELSE 0) + Count(AcceptAgain, SqOf(op, f))
      BY <1>3, AcceptAgainFacts, PairCount
    <3>2. Count(AcceptAgain, SqOf(op, f)) = 0
      BY AcceptAgainFacts
    <3>3. x \in SqOf(op, f) <=> op = "ctrl"
      BY <1>3, <1>6 DEF SqOf
    <3> HIDE DEF es
    <3> QED BY <3>1, <3>2, <3>3
  <2>5. Count(es, SqOf("send", f)) = 0
    <3>1. \A i \in DOMAIN es : es[i] \notin SqOf("send", f)
      BY <1>3, <1>4, AcceptAgainFacts DEF SqOf
    <3> QED BY <1>4, <3>1, CountNone
  <2> HIDE DEF es, E
  <2>6. f \in ctrls' /\ ~ conns'[f].some
    BY <1>1, <1>6, <2>2
  <2>7. conns'[f].some \in BOOLEAN
    BY <1>1 DEF TypeOK
  <2>8. /\ Count(es, SqOf("recv", f))
              = If(conns'[f].some /\ ~ conns[f].some) + If(E \in CqOf("recv", f))
        /\ Count(es, SqOf("ctrl", f))
              = If(f \in ctrls' /\ f \notin ctrls) + If(E \in CqOf("ctrl", f))
    BY <2>2, <2>3, <2>4, <2>6 DEF If
  <2> QED BY <1>1, <1>4, <2>1, <2>2, <2>3, <2>5, <2>6, <2>7, <2>8, HandledNow
<1> QED BY <1>5, <1>6

LEMMA OnAcceptEndNeat ==
    ASSUME TypeOK, Regular(done \o cq, armed), NEW f \in Fds, NeatNow(f), OnAcceptEnd
    PROVE  NeatNow(f)'
<1> DEFINE es == AcceptAgain
<1>1. /\ done # <<>> /\ E.op = "accept" /\ E.res # "ok" /\ ctrls' = ctrls /\ Push(es)
      /\ done' = Tail(done) /\ conns' = conns /\ fdt' = fdt
  BY DEF OnAcceptEnd, Handling, Handled, kernel
<1>2. E.val # f
  <2>1. Handling("accept") /\ Handled
    BY DEF OnAcceptEnd
  <2>2. E \in Completion
    BY <2>1, HandledType
  <2> QED BY <1>1, <2>2, UringAssumption DEF Completion, Ended, News
<1>3. es \in Seq(Sqes) /\ \A i \in DOMAIN es : es[i].op = "accept"
  BY AcceptAgainFacts
<1> HIDE DEF es
<1> QED BY <1>1, <1>2, <1>3, HandledElse

LEMMA OnCtrlNeat ==
    ASSUME TypeOK, Regular(done \o cq, armed), NEW f \in Fds, NeatNow(f), OnCtrl
    PROVE  NeatNow(f)'
<1> DEFINE v == E.val
           g == E.fd
           x == Sqe("recv", v, None)
           s == Rearm
           es == <<x>> \o s
           cn == [conns EXCEPT ![v] = Conn(<<>>)]
<1>1. /\ done # <<>> /\ E.op = "ctrl" /\ E.res = "ok" /\ g \in ctrls /\ v # None
      /\ conns' = cn /\ Push(es)
      /\ done' = Tail(done) /\ ctrls' = ctrls /\ fdt' = fdt
  BY DEF OnCtrl, Handling, Handled, kernel
<1>2. E \in Completion /\ v \in Fds /\ g \in Fds
  <2>1. Handling("ctrl") /\ Handled
    BY DEF OnCtrl
  <2> QED BY <1>1, <2>1, HandledType, CompletionCases
<1>3. x \in Sqes /\ x.op = "recv" /\ x.fd = v
  BY <1>2 DEF Sqe, Sqes
<1>4. /\ s \in Seq(Sqes) /\ \A i \in DOMAIN s : s[i].op = "ctrl" /\ s[i].fd = g
      /\ \A op \in {"ctrl", "recv"}, h \in Fds :
            Count(s, SqOf(op, h)) = IF op = "ctrl" /\ h = g THEN 1 ELSE 0
  BY <1>1, RearmFacts
<1>5. cn[v].some /\ \A h \in Fds : h # v => cn[h] = conns[h]
  BY <1>2 DEF TypeOK, Conn
<1> HIDE DEF x, s, cn
<1>6. /\ es \in Seq(Sqes)
      /\ \A i \in DOMAIN es : es[i] = x \/ \E j \in DOMAIN s : es[i] = s[j]
  BY <1>3, <1>4, PairCount
<1>7. \A op \in {"ctrl", "recv"} :
         Count(es, SqOf(op, f)) = (IF op = "recv" /\ f = v THEN 1 ELSE 0)
                                  + (IF op = "ctrl" /\ f = g THEN 1 ELSE 0)
  <2> SUFFICES ASSUME NEW op \in {"ctrl", "recv"}
               PROVE  Count(es, SqOf(op, f)) = (IF op = "recv" /\ f = v THEN 1 ELSE 0)
                                               + (IF op = "ctrl" /\ f = g THEN 1 ELSE 0)
    OBVIOUS
  <2>1. Count(es, SqOf(op, f)) = (IF x \in SqOf(op, f) THEN 1 ELSE 0) + Count(s, SqOf(op, f))
    BY <1>3, <1>4, PairCount
  <2>2. Count(s, SqOf(op, f)) = IF op = "ctrl" /\ f = g THEN 1 ELSE 0
    BY <1>4
  <2>3. x \in SqOf(op, f) <=> op = "recv" /\ f = v
    BY <1>3 DEF SqOf
  <2> HIDE DEF es
  <2> QED BY <2>1, <2>2, <2>3
<1>8. Count(es, SqOf("send", f)) = 0
  <2>1. \A i \in DOMAIN es : es[i] \notin SqOf("send", f)
    BY <1>3, <1>4, <1>6 DEF SqOf
  <2> QED BY <1>6, <2>1, CountNone
<1>9. E \in Brought("ctrl", f) <=> f = v
  BY <1>1, <1>2 DEF Brought
<1>10. E \notin Brought("accept", f) /\ E \notin CqOf("recv", f)
  BY <1>1 DEF Brought, CqOf
<1>11. E \in CqOf("ctrl", f) <=> f = g
  <2>1. f = g => ~ E.more
    BY <1>1, HeadNeat
  <2> QED BY <1>1, <1>2, <2>1 DEF CqOf
<1>12. conns[f].some \in BOOLEAN
  BY DEF TypeOK
<1>13. CASE f = v
  <2>1. ~ conns[f].some /\ f \notin ctrls
    BY <1>1, <1>9, <1>13, HeadNeat
  <2>2. conns'[f].some /\ f # g
    BY <1>1, <1>5, <1>13, <2>1
  <2> HIDE DEF es, v, g, E
  <2>3. conns'[f].some = TRUE
    BY <1>1, <1>2, <1>13 DEF cn, Conn, TypeOK
  <2>4. /\ Count(es, SqOf("recv", f))
              = If(conns'[f].some /\ ~ conns[f].some) + If(E \in CqOf("recv", f))
        /\ Count(es, SqOf("ctrl", f))
              = If(f \in ctrls' /\ f \notin ctrls) + If(E \in CqOf("ctrl", f))
    BY <1>1, <1>7, <1>10, <1>11, <1>13, <2>1, <2>2 DEF If
  <2> QED BY <1>1, <1>6, <1>8, <1>9, <1>10, <1>13, <2>1, <2>3, <2>4, HandledNow
<1>14. CASE f # v
  <2>1. conns'[f] = conns[f]
    BY <1>1, <1>5, <1>14
  <2> HIDE DEF es, v, g, E
  <2>2. /\ Count(es, SqOf("recv", f))
              = If(conns'[f].some /\ ~ conns[f].some) + If(E \in CqOf("recv", f))
        /\ Count(es, SqOf("ctrl", f))
              = If(f \in ctrls' /\ f \notin ctrls) + If(E \in CqOf("ctrl", f))
    BY <1>1, <1>7, <1>10, <1>11, <1>14, <2>1 DEF If
  <2> QED BY <1>1, <1>6, <1>8, <1>9, <1>10, <1>12, <1>14, <2>1, <2>2, HandledNow
<1> QED BY <1>13, <1>14

\* If the message is for no link, the number of its socket is spoiled.
LEMMA OnCtrlEmptyNeat ==
    ASSUME TypeOK, Regular(done \o cq, armed), NEW f \in Fds, NeatNow(f), f \notin Spoiled',
           OnCtrlEmpty
    PROVE  NeatNow(f)'
<1> DEFINE g == E.fd
           es == Rearm
<1>1. /\ done # <<>> /\ E.op = "ctrl" /\ E.res = "ok" /\ (g \notin ctrls \/ E.val = None)
      /\ conns' = conns /\ Push(es)
      /\ done' = Tail(done) /\ ctrls' = ctrls /\ fdt' = fdt
      /\ trouble' = trouble \cup ({"unlinked"} \X ({E.val} \ {None}))
  BY DEF OnCtrlEmpty, Handling, Handled, kernel
<1>2. E \in Completion /\ g \in Fds /\ (E.val # None => E.val \in Fds)
  <2>1. Handling("ctrl") /\ Handled
    BY DEF OnCtrlEmpty
  <2> QED BY <1>1, <2>1, HandledType, CompletionCases
<1>3. E.val # f
  <2> SUFFICES ASSUME E.val = f PROVE FALSE
    OBVIOUS
  <2>1. f # None
    BY UringAssumption
  <2>2. <<"unlinked", f>> \in trouble'
    BY <1>1, <2>1
  <2>3. <<"unlinked", f>>[2] = f
    OBVIOUS
  <2> QED BY <2>2, <2>3 DEF Spoiled
<1>4. es \in Seq(Sqes)
  BY <1>2, RearmType
<1>5. CASE f # g
  <2>1. \A i \in DOMAIN es : es[i].fd # f
    BY <1>5 DEF Rearm, Sqe
  <2> HIDE DEF es
  <2> QED BY <1>1, <1>3, <1>4, <1>5, <2>1, HandledElse
<1>6. CASE f = g
  <2>1. f \in ctrls /\ ~ E.more
    BY <1>1, <1>6, HeadNeat
  <2>2. /\ \A i \in DOMAIN es : es[i].op = "ctrl"
        /\ \A op \in {"ctrl", "recv"} : Count(es, SqOf(op, f)) = IF op = "ctrl" THEN 1 ELSE 0
    BY <1>6, <2>1, RearmFacts
  <2>3. Count(es, SqOf("send", f)) = 0
    <3>1. \A i \in DOMAIN es : es[i] \notin SqOf("send", f)
      BY <2>2 DEF SqOf
    <3> QED BY <1>4, <3>1, CountNone
  <2>4. /\ E \notin Brought("ctrl", f) /\ E \notin Brought("accept", f)
        /\ E \in CqOf("ctrl", f) /\ E \notin CqOf("recv", f)
    BY <1>1, <1>2, <1>3, <1>6, <2>1 DEF Brought, CqOf
  <2>5. conns[f].some \in BOOLEAN
    BY DEF TypeOK
  <2> HIDE DEF es, E
  <2>6. /\ Count(es, SqOf("recv", f))
              = If(conns'[f].some /\ ~ conns[f].some) + If(E \in CqOf("recv", f))
        /\ Count(es, SqOf("ctrl", f))
              = If(f \in ctrls' /\ f \notin ctrls) + If(E \in CqOf("ctrl", f))
    BY <1>1, <2>1, <2>2, <2>4 DEF If
  <2> QED BY <1>1, <1>4, <2>3, <2>4, <2>5, <2>6, HandledNow
<1> QED BY <1>5, <1>6

\* A handler that closed f at the end of its receive or recvmsg, with no answer
\* on f under way.
LEMMA ClosedNow ==
    ASSUME TypeOK, done # <<>>, done' = Tail(done), Regular(done \o cq, armed),
           NEW f \in Fds, NeatNow(f), UNCHANGED <<sq, cq, armed>>,
           NEW op \in {"ctrl", "recv"}, E \in CqOf(op, f),
           op = "recv" => Count(sq, SqOf("send", f)) = 0 /\ Count(done \o cq, Failed(f)) = 0,
           fdt'[f] = None, ~ conns'[f].some, conns'[f].some \in BOOLEAN, f \notin ctrls'
    PROVE  NeatNow(f)'
<1> DEFINE p == done \o cq
<1>1. /\ p \in Seq(Completion) /\ p # <<>> /\ Head(p) = E /\ Tail(p) = Tail(done) \o cq
  BY HeadNeat
<1>2. sq \in Seq(Sqes) /\ DOMAIN armed \subseteq Requests
  BY DEF TypeOK, BagToSet
<1>3. Neat(f, sq, p, armed, conns[f].some, f \in ctrls, fdt[f]) /\ Regular(p, armed)
  BY DEF NeatNow
<1>4. /\ Head(p) \in CqOf(op, f)
      /\ op = "recv" => Count(sq, SqOf("send", f)) = 0 /\ Count(p, Failed(f)) = 0
  BY <1>1
<1> HIDE DEF p, E
<1>5. Neat(f, sq, Tail(p), armed, FALSE, FALSE, None)
  BY <1>1, <1>2, <1>3, <1>4, ClosedNeat
<1>6. conns'[f].some = FALSE /\ (f \in ctrls') = FALSE
  OBVIOUS
<1> QED BY <1>1, <1>5, <1>6 DEF NeatNow

LEMMA OnCtrlEndNeat ==
    ASSUME TypeOK, Regular(done \o cq, armed), NEW f \in Fds, NeatNow(f), OnCtrlEnd
    PROVE  NeatNow(f)'
<1> DEFINE es == <<>>
<1>1. /\ done # <<>> /\ E.op = "ctrl" /\ E.res # "ok" /\ ctrls' = ctrls \ {E.fd}
      /\ fdt' = [fdt EXCEPT ![E.fd] = None] /\ done' = Tail(done) /\ conns' = conns
      /\ UNCHANGED <<sq, cq, armed>>
  BY DEF OnCtrlEnd, Handling, Handled, ring
<1>2. E \in Completion /\ E.fd \in Fds
  <2>1. Handling("ctrl") /\ Handled
    BY DEF OnCtrlEnd
  <2> QED BY <1>1, <2>1, HandledType, CompletionCases
<1>3. conns[f].some \in BOOLEAN
  BY DEF TypeOK
<1>4. CASE f = E.fd
  <2>1. f \in ctrls /\ ~ E.more /\ ~ conns[f].some
    BY <1>1, <1>4, HeadNeat
  <2>2. E \in CqOf("ctrl", f)
    BY <1>1, <1>2, <1>4, <2>1 DEF CqOf
  <2>3. fdt'[f] = None /\ f \notin ctrls' /\ ~ conns'[f].some /\ conns'[f].some \in BOOLEAN
    BY <1>1, <1>3, <1>4, <2>1 DEF TypeOK
  <2> HIDE DEF E
  <2> QED BY <1>1, <2>2, <2>3, ClosedNow
<1>5. CASE f # E.fd
  <2>1. fdt'[f] = fdt[f]
    BY <1>1, <1>5 DEF TypeOK
  <2>2. E.val # f
    BY <1>1, <1>2, UringAssumption DEF Completion, Ended, News
  <2>3. es \in Seq(Sqes) /\ DOMAIN es = {}
    OBVIOUS
  <2> HIDE DEF E
  <2> QED BY <1>1, <1>5, <2>1, <2>2, <2>3, HandledElse
<1> QED BY <1>4, <1>5

\* With answers under way, the number is spoiled.
LEMMA OnRecvEndNeat ==
    ASSUME TypeOK, Regular(done \o cq, armed), NEW f \in Fds, NeatNow(f), f \notin Spoiled',
           OnRecvEnd
    PROVE  NeatNow(f)'
<1> DEFINE es == <<>>
<1>1. /\ done # <<>> /\ E.op = "recv" /\ E.res # "ok" /\ ctrls' = ctrls
      /\ fdt' = [fdt EXCEPT ![E.fd] = None] /\ done' = Tail(done)
      /\ conns' = [conns EXCEPT ![E.fd] = NoConn]
      /\ UNCHANGED <<sq, cq, armed>>
      /\ trouble' = trouble \cup (IF Unsent(E.fd) THEN {<<"unsent", E.fd>>} ELSE {})
  BY DEF OnRecvEnd, CloseClient, Handling, Handled, ring
<1>2. E \in Completion /\ E.fd \in Fds
  <2>1. Handling("recv") /\ Handled
    BY DEF OnRecvEnd
  <2> QED BY <1>1, <2>1, HandledType, CompletionCases
<1>3. conns[f].some \in BOOLEAN
  BY DEF TypeOK
<1>4. CASE f = E.fd
  <2>1. ~ Unsent(f)
    <3> SUFFICES ASSUME Unsent(f) PROVE FALSE
      OBVIOUS
    <3>1. <<"unsent", f>> \in trouble'
      BY <1>1, <1>4
    <3>2. <<"unsent", f>>[2] = f
      OBVIOUS
    <3> QED BY <3>1, <3>2 DEF Spoiled
  <2>2. Count(sq, SqOf("send", f)) = 0
    <3>1. sq \in Seq(Sqes)
      BY DEF TypeOK
    <3>2. \A i \in DOMAIN sq : sq[i] \notin SqOf("send", f)
      BY <2>1 DEF Unsent, SqOf
    <3> QED BY <3>1, <3>2, CountNone
  <2>3. Count(done \o cq, Failed(f)) = 0
    <3>1. done \in Seq(Completion) /\ cq \in Seq(Completion)
      BY DEF TypeOK
    <3>2. (\A i \in DOMAIN done : done[i] \notin Failed(f)) /\ \A i \in DOMAIN cq : cq[i] \notin Failed(f)
      BY <2>1 DEF Unsent, Failed
    <3>3. Count(done, Failed(f)) = 0 /\ Count(cq, Failed(f)) = 0
      BY <3>1, <3>2, CountNone
    <3>4. Count(done \o cq, Failed(f)) = Count(done, Failed(f)) + Count(cq, Failed(f))
      BY <3>1, CountConcat
    <3> QED BY <3>3, <3>4
  <2>4. E \in CqOf("recv", f)
    <3>1. ~ E.more
      BY <1>1, <1>2 DEF Completion, Ended, News
    <3> QED BY <1>1, <1>2, <1>4, <3>1 DEF CqOf
  <2>5. f \notin ctrls
    BY <1>1, <1>4, HeadNeat
  <2>6. conns'[f] = NoConn /\ fdt'[f] = None
    BY <1>1, <1>4 DEF TypeOK
  <2>7. f \notin ctrls' /\ ~ conns'[f].some /\ conns'[f].some \in BOOLEAN
    <3>1. conns'[f].some = FALSE
      BY <2>6 DEF NoConn
    <3>2. f \notin ctrls'
      BY <1>1, <2>5
    <3> QED BY <3>1, <3>2
  <2> HIDE DEF E
  <2> QED BY <1>1, <2>2, <2>3, <2>4, <2>6, <2>7, ClosedNow
<1>5. CASE f # E.fd
  <2>1. fdt'[f] = fdt[f] /\ conns'[f] = conns[f]
    BY <1>1, <1>5 DEF TypeOK
  <2>2. es \in Seq(Sqes) /\ DOMAIN es = {}
    OBVIOUS
  <2> HIDE DEF E
  <2> QED BY <1>1, <1>5, <2>1, <2>2, HandledElse
<1> QED BY <1>4, <1>5

\* A number that is closed for a cause is spoiled.
LEMMA TroubleSpoils ==
    ASSUME NEW f \in Fds, f \notin Spoiled', NEW what, NEW g, Trouble(what, g)
    PROVE  g # f
<1> SUFFICES ASSUME g = f PROVE FALSE
  OBVIOUS
<1>1. <<what, f>> \in trouble'
  BY DEF Trouble
<1>2. <<what, f>>[2] = f
  OBVIOUS
<1> QED BY <1>1, <1>2 DEF Spoiled

LEMMA OnRecvRefusedNeat ==
    ASSUME TypeOK, Regular(done \o cq, armed), NEW f \in Fds, NeatNow(f), f \notin Spoiled',
           OnRecvRefused
    PROVE  NeatNow(f)'
<1> DEFINE es == <<>>
<1>1. /\ done # <<>> /\ E.op = "recv" /\ ctrls' = ctrls
      /\ fdt' = [fdt EXCEPT ![E.fd] = None] /\ done' = Tail(done)
      /\ conns' = [conns EXCEPT ![E.fd] = NoConn]
      /\ UNCHANGED <<sq, cq, armed>> /\ Trouble("refused", E.fd)
  BY DEF OnRecvRefused, CloseClient, Handling, Handled, ring
<1>2. E.fd # f
  BY <1>1, TroubleSpoils
<1>3. fdt'[f] = fdt[f] /\ conns'[f] = conns[f]
  BY <1>1, <1>2 DEF TypeOK
<1>4. es \in Seq(Sqes) /\ DOMAIN es = {}
  OBVIOUS
<1> HIDE DEF E
<1> QED BY <1>1, <1>2, <1>3, <1>4, HandledElse

LEMMA OnRecvBadNeat ==
    ASSUME TypeOK, Regular(done \o cq, armed), NEW f \in Fds, NeatNow(f), f \notin Spoiled',
           OnRecvBad
    PROVE  NeatNow(f)'
<1> DEFINE es == Answers
<1>1. /\ done # <<>> /\ E.op = "recv" /\ E.res = "ok" /\ Fits(E.fd) /\ ctrls' = ctrls
      /\ fdt' = [fdt EXCEPT ![E.fd] = None] /\ done' = Tail(done)
      /\ conns' = [conns EXCEPT ![E.fd] = NoConn]
      /\ Push(es) /\ Trouble("rejected", E.fd)
  BY DEF OnRecvBad, CloseClient, Handling, Handled
<1>2. E.fd # f
  BY <1>1, TroubleSpoils
<1>3. fdt'[f] = fdt[f] /\ conns'[f] = conns[f]
  BY <1>1, <1>2 DEF TypeOK
<1>4. es \in Seq(Sqes) /\ \A i \in DOMAIN es : es[i].fd = E.fd
  <2>1. Handling("recv") /\ Handled
    BY DEF OnRecvBad
  <2>2. E \in Completion
    BY <2>1, HandledType
  <2>3. E.fd \in Fds /\ E.val \in Bids
    BY <1>1, <2>2, CompletionCases
  <2> QED BY <1>1, <2>3, AnswersFacts
<1> HIDE DEF E, es
<1> QED BY <1>1, <1>2, <1>3, <1>4, HandledElse

LEMMA OnRecvNeat ==
    ASSUME TypeOK, Regular(done \o cq, armed), NEW f \in Fds, NeatNow(f), OnRecv
    PROVE  NeatNow(f)'
<1> DEFINE es == Answers \o RecvAgain
<1>1. /\ done # <<>> /\ E.op = "recv" /\ E.res = "ok" /\ Fits(E.fd) /\ ctrls' = ctrls
      /\ fdt' = fdt /\ done' = Tail(done)
      /\ conns' = [conns EXCEPT ![E.fd] = Leftover]
      /\ Push(es)
  BY DEF OnRecv, Handling, Handled, RecvAgain
<1>2. /\ es \in Seq(Sqes)
      /\ \A i \in DOMAIN es : es[i].op \in {"send", "recv"} /\ es[i].fd = E.fd
      /\ \A op \in {"ctrl", "recv"} :
            Count(es, SqOf(op, f)) = IF E \in CqOf(op, f) THEN 1 ELSE 0
  BY RecvPushes
<1>3. conns[E.fd].some /\ Leftover.some
  BY <1>1 DEF Fits, Leftover, Conn
<1>4. conns[f].some \in BOOLEAN
  BY DEF TypeOK
<1>5. CASE f # E.fd
  <2>1. conns'[f] = conns[f]
    BY <1>1, <1>5 DEF TypeOK
  <2> HIDE DEF E, es
  <2> QED BY <1>1, <1>2, <1>5, <2>1, HandledElse
<1>6. CASE f = E.fd
  <2>1. conns'[f] = Leftover
    BY <1>1, <1>6 DEF TypeOK
  <2>2. conns'[f].some = TRUE /\ conns[f].some
    BY <1>3, <1>6, <2>1 DEF Leftover, Conn
  <2>3. E \notin Brought("ctrl", f) /\ E \notin Brought("accept", f)
    BY <1>1 DEF Brought
  <2> HIDE DEF E, es
  <2>4. /\ Count(es, SqOf("recv", f))
              = If(conns'[f].some /\ ~ conns[f].some) + If(E \in CqOf("recv", f))
        /\ Count(es, SqOf("ctrl", f))
              = If(f \in ctrls' /\ f \notin ctrls) + If(E \in CqOf("ctrl", f))
    BY <1>1, <1>2, <2>2 DEF If
  <2> QED BY <1>1, <1>2, <2>2, <2>3, <2>4, HandledNow
<1> QED BY <1>5, <1>6

LEMMA OnSendNeat ==
    ASSUME TypeOK, Regular(done \o cq, armed), NEW f \in Fds, NeatNow(f), f \notin Spoiled',
           OnSend
    PROVE  NeatNow(f)'
<1> DEFINE es == <<>>
<1>1. /\ done # <<>> /\ E.op = "send" /\ ctrls' = ctrls /\ done' = Tail(done)
      /\ UNCHANGED <<sq, cq, armed>>
      /\ IF E.res = "ok" THEN UNCHANGED <<fdt, conns, trouble>>
         ELSE CloseClient(E.fd) /\ Trouble("unsent", E.fd)
  BY DEF OnSend, Handling, Handled, ring
<1>2. fdt'[f] = fdt[f] /\ conns'[f] = conns[f]
  <2>1. CASE E.res = "ok"
    BY <1>1, <2>1
  <2>2. CASE E.res # "ok"
    <3>1. E.fd # f
      BY <1>1, <2>2, TroubleSpoils
    <3> QED BY <1>1, <2>2, <3>1 DEF CloseClient, TypeOK
  <2> QED BY <2>1, <2>2
<1>3. es \in Seq(Sqes) /\ DOMAIN es = {}
  OBVIOUS
<1> HIDE DEF E
<1> QED BY <1>1, <1>2, <1>3, HandledElse

LEMMA SubmitAndWaitNeat ==
    ASSUME TypeOK, Regular(done \o cq, armed), NEW f \in Fds, NeatNow(f), SubmitAndWait
    PROVE  NeatNow(f)'
<1> DEFINE n == Len(sq)
           d == <<>>
           q == sq
           b == conns[f].some
           l == f \in ctrls
<1>1. sq \in Seq(Sqes) /\ cq \in Seq(Completion) /\ done = d
  BY DEF TypeOK, SubmitAndWait
<1>2. n \in 0..Len(q) /\ d \in Seq(Completion) /\ q \in Seq(Sqes)
  BY <1>1, LenProperties
<1>3. SubSeq(q, 1, n) = q /\ SubSeq(q, n + 1, Len(q)) = <<>>
  <2>1. SubSeq(q, 1, n) = q
    BY <1>1, SubSeqFull
  <2>2. n + 1 > n /\ n + 1 \in Int /\ n \in Int
    BY <1>2
  <2>3. SubSeq(q, n + 1, n) = <<>>
    BY <1>1, <2>2, SubSeqEmpty
  <2> QED BY <2>1, <2>3
<1>4. /\ Submit(SubSeq(q, 1, n)) /\ sq' = SubSeq(q, n + 1, Len(q)) /\ done' = d
      /\ UNCHANGED <<conns, ctrls, fdt>>
  BY <1>1, <1>3 DEF SubmitAndWait, kernel
<1>5. Regular(d \o cq, armed) /\ Neat(f, q, d \o cq, armed, b, l, fdt[f])
  BY <1>1 DEF NeatNow
<1>6. Neat(f, sq', done' \o cq', armed', conns'[f].some, f \in ctrls', fdt'[f])
  <2> HIDE DEF n, d, q, b, l
  <2>1. Neat(f, SubSeq(q, n + 1, Len(q)), d \o cq', armed', b, l, fdt[f])
    BY <1>2, <1>4, <1>5, SubmitNeat
  <2> QED BY <1>4, <2>1 DEF b, l
<1> QED BY <1>6 DEF NeatNow

\* The completions are the same, at hand or posted.
LEMMA ReapKeeps ==
    ASSUME TypeOK, Reap
    PROVE  done' \o cq' = done \o cq /\ UNCHANGED <<sq, conns, ctrls, armed, fdt>>
<1>1. /\ done = <<>> /\ cq \in Seq(Completion) /\ done' = cq /\ cq' = <<>>
      /\ UNCHANGED <<sq, conns, ctrls, armed, fdt>>
  BY DEF TypeOK, Reap, kernel
<1> QED BY <1>1, ConcatEmptySeq

\* The kernel completed r with e.
LEMMA PostedNow ==
    ASSUME TypeOK, Regular(done \o cq, armed), NEW r \in BagToSet(armed),
           NEW e \in Completion, e.op = r.op, e.fd = r.fd, e.file = r.file,
           r.op = "ctrl" => ~ e.more, Post(e), UNCHANGED program,
           (e.more /\ armed' = armed) \/ (~ e.more /\ Drop(r))
    PROVE  /\ Regular(done' \o cq', armed')
           /\ \A f \in Fds :
                 /\ NeatNow(f)
                 /\ \/ /\ fdt'[f] = fdt[f]
                       /\ e \notin Brought("ctrl", f) /\ e \notin Brought("accept", f)
                    \/ fdt[f] = None /\ e \in Brought("ctrl", f) /\ fdt'[f] \in Clients
                    \/ fdt[f] = None /\ e \in Brought("accept", f) /\ fdt'[f] \in Links
                 => NeatNow(f)'
<1> DEFINE p == done \o cq
           a2 == armed'
<1>1. done \in Seq(Completion) /\ cq \in Seq(Completion)
  BY DEF TypeOK
<1>2. cq' = Append(cq, e) /\ UNCHANGED <<sq, done, conns, ctrls>>
  BY DEF Post, program
<1>3. done' \o cq' = Append(p, e) /\ p \in Seq(Completion)
  BY <1>1, <1>2, AppendLater
<1>4. r \in DOMAIN armed /\ DOMAIN armed \subseteq Requests /\ sq \in Seq(Sqes)
  BY DEF TypeOK, BagToSet
<1>5. Regular(p, armed)
  OBVIOUS
<1>6. \A x \in DOMAIN armed : armed[x] \in Nat \ {0}
  BY DEF Regular
<1>7. /\ DOMAIN a2 \subseteq DOMAIN armed /\ \A x \in DOMAIN a2 : a2[x] \in Nat \ {0}
      /\ \A x : x # r => Copies(x, a2) = Copies(x, armed)
      /\ Copies(r, armed) = Copies(r, a2) + (IF e.more THEN 0 ELSE 1)
  <2>1. CASE e.more /\ armed' = armed
    <3>1. Copies(r, armed) \in Nat
      BY <1>4, <1>6 DEF Copies
    <3> QED BY <1>6, <2>1, <3>1
  <2>2. CASE ~ e.more /\ Drop(r)
    BY <1>4, <1>6, <2>2, DropCopies
  <2> QED BY <2>1, <2>2
<1> HIDE DEF p, a2
<1>8. Regular(Append(p, e), a2)
  <2> DEFINE t == Append(p, e)
  <2>1. \A i \in DOMAIN t : (i \in DOMAIN p /\ t[i] = p[i]) \/ t[i] = e
    BY <1>3, EndOn
  <2>2. e.op = "accept" => e.fd = ListenFd /\ e.file = ListenFd
    BY <1>4, RequestCases
  <2>3. e.op = "ctrl" => ~ e.more
    OBVIOUS
  <2> HIDE DEF t
  <2>4. Regular(t, a2)
    BY <1>5, <1>7, <2>1, <2>2, <2>3 DEF Regular
  <2> QED BY <2>4 DEF t
<1>9. ASSUME NEW f \in Fds, NeatNow(f),
             \/ fdt'[f] = fdt[f] /\ e \notin Brought("ctrl", f) /\ e \notin Brought("accept", f)
             \/ fdt[f] = None /\ e \in Brought("ctrl", f) /\ fdt'[f] \in Clients
             \/ fdt[f] = None /\ e \in Brought("accept", f) /\ fdt'[f] \in Links
      PROVE  NeatNow(f)'
  <2> DEFINE b == conns[f].some
             l == f \in ctrls
             x == fdt[f]
             x2 == fdt'[f]
  <2>1. Neat(f, sq, p, armed, b, l, x)
    BY <1>9 DEF NeatNow, p
  <2>2. \/ x2 = x /\ e \notin Brought("ctrl", f) /\ e \notin Brought("accept", f)
        \/ x = None /\ e \in Brought("ctrl", f) /\ x2 \in Clients
        \/ x = None /\ e \in Brought("accept", f) /\ x2 \in Links
    BY <1>9
  <2> HIDE DEF b, l, x, x2
  <2>3. Neat(f, sq, Append(p, e), a2, b, l, x2)
    BY <1>3, <1>4, <1>5, <1>7, <2>1, <2>2, PostedNeat
  <2> QED BY <1>2, <1>3, <2>3 DEF NeatNow, b, l, x2, a2
<1> QED BY <1>3, <1>8, <1>9 DEF a2

\* A completion that brings nothing changes no number.
LEMMA NothingBrought ==
    ASSUME TypeOK, Regular(done \o cq, armed), NEW r \in BagToSet(armed),
           NEW e \in Completion, e.op = r.op, e.fd = r.fd, e.file = r.file,
           r.op = "ctrl" => ~ e.more, Post(e), UNCHANGED <<program, fdt>>,
           (e.more /\ armed' = armed) \/ (~ e.more /\ Drop(r)),
           e.op = "recv" \/ e.val = None
    PROVE  /\ Regular(done' \o cq', armed')
           /\ \A f \in Fds : NeatNow(f) => NeatNow(f)'
<1>1. \A f \in Fds : e \notin Brought("ctrl", f) /\ e \notin Brought("accept", f)
  BY UringAssumption DEF Brought
<1> QED BY <1>1, PostedNow

LEMMA KernelAcceptNeat ==
    ASSUME TypeOK, Regular(done \o cq, armed), NEW r \in BagToSet(armed),
           NEW k \in backlog, KernelAccept(r, k)
    PROVE  /\ Regular(done' \o cq', armed')
           /\ \A f \in Fds : NeatNow(f) => NeatNow(f)'
<1> DEFINE v == LowestFd
           e == Cqe(r, "ok", v, TRUE)
<1>1. /\ r.op = "accept" /\ FreeFds # {} /\ fdt' = [fdt EXCEPT ![v] = k]
      /\ Post(e) /\ UNCHANGED <<program, armed>>
  BY DEF KernelAccept
<1>2. v \in Fds /\ fdt[v] = None /\ k \in Links /\ r \in Requests
  BY <1>1, LowestFdIsFree DEF TypeOK
<1>3. e \in Completion
  BY <1>1, <1>2, PostedTypes
<1>4. /\ e.op = r.op /\ e.fd = r.fd /\ e.file = r.file /\ e.res = "ok" /\ e.val = v /\ e.more
  BY DEF Cqe
<1> HIDE DEF e, v
<1>5. \A f \in Fds : \/ /\ fdt'[f] = fdt[f]
                        /\ e \notin Brought("ctrl", f) /\ e \notin Brought("accept", f)
                     \/ fdt[f] = None /\ e \in Brought("accept", f) /\ fdt'[f] \in Links
  BY <1>1, <1>2, <1>3, <1>4 DEF Brought, TypeOK
<1> QED BY <1>1, <1>3, <1>4, <1>5, PostedNow

LEMMA KernelCtrlNeat ==
    ASSUME TypeOK, Regular(done \o cq, armed), NEW r \in BagToSet(armed), KernelCtrl(r)
    PROVE  /\ Regular(done' \o cq', armed')
           /\ \A f \in Fds : NeatNow(f) => NeatNow(f)'
<1> DEFINE v == LowestFd
           c == ctrlq[r.file][1]
           e == Cqe(r, "ok", v, FALSE)
<1>1. /\ r \in Requests /\ r.op = "ctrl" /\ v \in Fds /\ fdt[v] = None
      /\ c \in Clients /\ fdt' = [fdt EXCEPT ![v] = c]
  BY KernelCtrlEffect
<1>2. Drop(r) /\ Post(e) /\ UNCHANGED program
  BY DEF KernelCtrl
<1>3. e \in Completion
  BY <1>1, PostedTypes
<1>4. /\ e.op = r.op /\ e.fd = r.fd /\ e.file = r.file /\ e.res = "ok" /\ e.val = v /\ ~ e.more
  BY DEF Cqe
<1> HIDE DEF e, v, c
<1>5. \A f \in Fds : \/ /\ fdt'[f] = fdt[f]
                        /\ e \notin Brought("ctrl", f) /\ e \notin Brought("accept", f)
                     \/ fdt[f] = None /\ e \in Brought("ctrl", f) /\ fdt'[f] \in Clients
  BY <1>1, <1>3, <1>4 DEF Brought, TypeOK
<1> QED BY <1>2, <1>3, <1>4, <1>5, PostedNow

\* A request that ended, or a message without a socket.
LEMMA KernelEndNeat ==
    ASSUME TypeOK, Regular(done \o cq, armed), NEW r \in BagToSet(armed),
           \/ KernelAcceptEnd(r) \/ KernelCtrlEnd(r) \/ KernelCtrlLost(r)
           \/ KernelNoBuffer(r) \/ KernelRecvEnd(r)
    PROVE  /\ Regular(done' \o cq', armed')
           /\ \A f \in Fds : NeatNow(f) => NeatNow(f)'
<1>1. r \in Requests
  BY DEF TypeOK
<1>2. PICK res \in {"ok", "fail", "nobufs"} :
         /\ Post(Cqe(r, res, None, FALSE)) /\ (res = "ok" => r.op = "ctrl")
         /\ Drop(r) /\ UNCHANGED <<program, fdt>>
  BY DEF KernelAcceptEnd, KernelCtrlEnd, KernelCtrlLost, KernelNoBuffer, KernelRecvEnd, kernel
<1> DEFINE e == Cqe(r, res, None, FALSE)
<1>3. e \in Completion
  BY <1>1, <1>2, PostedTypes
<1>4. e.op = r.op /\ e.fd = r.fd /\ e.file = r.file /\ e.val = None /\ ~ e.more
  BY DEF Cqe
<1>5. Post(e)
  BY <1>2
<1> HIDE DEF e
<1> QED BY <1>2, <1>3, <1>4, <1>5, NothingBrought

LEMMA KernelRecvNeat ==
    ASSUME TypeOK, Regular(done \o cq, armed), NEW r \in BagToSet(armed),
           NEW more \in BOOLEAN, KernelRecv(r, more)
    PROVE  /\ Regular(done' \o cq', armed')
           /\ \A f \in Fds : NeatNow(f) => NeatNow(f)'
<1> DEFINE e == Cqe(r, "ok", Head(pool), more)
<1>1. /\ r.op = "recv" /\ pool # <<>> /\ (IF more THEN UNCHANGED armed ELSE Drop(r))
      /\ Post(e) /\ UNCHANGED <<program, fdt>>
  BY DEF KernelRecv
<1>2. r \in Requests /\ Head(pool) \in Bids
  BY <1>1, HeadTailProperties DEF TypeOK
<1>3. e \in Completion
  BY <1>1, <1>2, PostedTypes
<1>4. /\ e.op = r.op /\ e.fd = r.fd /\ e.file = r.file /\ e.more = more
  BY DEF Cqe
<1> HIDE DEF e
<1> QED BY <1>1, <1>3, <1>4, NothingBrought

\* The clients and the load balancer touch none of it.
LEMMA OutsideKeeps ==
    ASSUME Environment \/ UNCHANGED vars
    PROVE  UNCHANGED <<sq, done, conns, ctrls, cq, armed, fdt>>
<1>1. CASE UNCHANGED vars
  BY <1>1 DEF vars
<1>2. CASE Environment
  <2>1. ASSUME NEW k \in Links, LbConnect(k) \/ LbExit(k)
        PROVE  UNCHANGED <<sq, done, conns, ctrls, cq, armed, fdt>>
    BY <2>1 DEF LbConnect, LbExit, program, ring, kernel
  <2>2. ASSUME NEW k \in Links, NEW c \in Clients, LbHandOver(k, c)
        PROVE  UNCHANGED <<sq, done, conns, ctrls, cq, armed, fdt>>
    BY <2>2 DEF LbHandOver, program, ring
  <2>3. ASSUME NEW c \in Clients, ClientSend(c) \/ ClientHangUp(c)
        PROVE  UNCHANGED <<sq, done, conns, ctrls, cq, armed, fdt>>
    BY <2>3 DEF ClientSend, ClientHangUp, program, ring, kernel
  <2> QED BY <1>2, <2>1, <2>2, <2>3 DEF Environment
<1> QED BY <1>1, <1>2

---------------------------------------------------------------------------
(* Number by number: always.                                               *)

\* A handler takes the first completion and pushes es.
LEMMA RegularHandled ==
    ASSUME TypeOK, Regular(done \o cq, armed), NEW op, Handling(op), Handled,
           NEW es \in Seq(Sqes), Push(es) \/ UNCHANGED <<cq, armed>>
    PROVE  Regular(done' \o cq', armed')
<1> DEFINE p == done \o cq
           d == Tail(done)
<1>1. /\ p \in Seq(Completion) /\ p # <<>> /\ Tail(p) = d \o cq
      /\ d \in Seq(Completion) /\ done' = d
  BY QueueHead DEF TypeOK, Handling, Handled
<1>2. Regular(p, armed)
  OBVIOUS
<1> HIDE DEF p, d
<1>3. Regular(d \o cq, armed)
  BY <1>1, <1>2, RegularTail
<1>4. Regular(d \o cq', armed')
  <2>1. CASE Push(es)
    BY <1>1, <1>3, <2>1, RegularPush
  <2>2. CASE UNCHANGED <<cq, armed>>
    BY <1>3, <2>2
  <2> QED BY <2>1, <2>2
<1> QED BY <1>1, <1>4

LEMMA WorkerRegular ==
    ASSUME TypeOK, Regular(done \o cq, armed), Worker
    PROVE  Regular(done' \o cq', armed')
<1> DEFINE e == <<>>
           again == AcceptAgain
           rearm == Rearm
<1>0. e \in Seq(Sqes)
  OBVIOUS
<1>1. CASE SubmitAndWait
  <2>1. sq \in Seq(Sqes) /\ done \in Seq(Completion) /\ done' = done /\ Submit(sq)
    BY <1>1 DEF TypeOK, SubmitAndWait
  <2> QED BY <2>1, RegularSubmit
<1>2. CASE Reap
  BY <1>2, ReapKeeps
<1>3. ASSUME NEW op, Handling(op), Handled
      PROVE  /\ E \in Completion /\ E.op = op
             /\ op # "accept" => E.fd \in Fds
             /\ op = "accept" /\ E.res = "ok" => E.val \in Fds
             /\ op = "recv" /\ E.res = "ok" => E.val \in Bids
  <2>1. E \in Completion /\ E.op = op
    BY <1>3, HandledType
  <2> QED BY <2>1, CompletionCases DEF Completion, Ended, News
<1>4. CASE OnAccept \/ OnAcceptEnd
  <2>1. Handling("accept") /\ Handled
    BY <1>4 DEF OnAccept, OnAcceptEnd
  <2>2. again \in Seq(Sqes)
    BY AcceptAgainType
  <2>3. CASE OnAcceptEnd
    BY <2>1, <2>2, <2>3, RegularHandled DEF OnAcceptEnd
  <2>4. CASE OnAccept
    <3> DEFINE es == <<Sqe("ctrl", E.val, None)>> \o again
    <3>1. E.val \in Fds
      BY <1>3, <2>1, <2>4 DEF OnAccept
    <3>2. <<Sqe("ctrl", E.val, None)>> \in Seq(Sqes)
      BY <3>1, SqeTypes
    <3>3. es \in Seq(Sqes)
      BY <2>2, <3>2, ConcatProperties
    <3>4. Push(es)
      BY <2>4 DEF OnAccept
    <3> HIDE DEF es
    <3> QED BY <2>1, <3>3, <3>4, RegularHandled
  <2> QED BY <1>4, <2>3, <2>4
<1>5. CASE OnCtrl \/ OnCtrlEmpty
  <2>1. Handling("ctrl") /\ Handled
    BY <1>5 DEF OnCtrl, OnCtrlEmpty
  <2>2. E.fd \in Fds /\ E \in Completion
    BY <1>3, <2>1
  <2>3. rearm \in Seq(Sqes)
    BY <2>2, RearmType
  <2>4. CASE OnCtrlEmpty
    BY <2>1, <2>3, <2>4, RegularHandled DEF OnCtrlEmpty
  <2>5. CASE OnCtrl
    <3> DEFINE es == <<Sqe("recv", E.val, None)>> \o rearm
    <3>1. E.val \in Fds
      <4>1. E.op = "ctrl" /\ E.res = "ok" /\ E.val # None
        BY <2>5 DEF OnCtrl, Handling
      <4> QED BY <2>2, <4>1, CompletionCases
    <3>2. <<Sqe("recv", E.val, None)>> \in Seq(Sqes)
      BY <3>1, SqeTypes
    <3>3. es \in Seq(Sqes)
      BY <2>3, <3>2, ConcatProperties
    <3>4. Push(es)
      BY <2>5 DEF OnCtrl
    <3> HIDE DEF es
    <3> QED BY <2>1, <3>3, <3>4, RegularHandled
  <2> QED BY <1>5, <2>4, <2>5
<1>6. CASE OnCtrlEnd
  BY <1>0, <1>6, RegularHandled DEF OnCtrlEnd, ring
<1>7. CASE OnRecvEnd \/ OnRecvRefused
  BY <1>0, <1>7, RegularHandled DEF OnRecvEnd, OnRecvRefused, ring
<1>8. CASE OnSend
  BY <1>0, <1>8, RegularHandled DEF OnSend, ring
<1>9. CASE OnRecv
  <2> DEFINE es == Answers \o RecvAgain
  <2>1. Handling("recv") /\ Handled /\ Push(es)
    BY <1>9 DEF OnRecv, RecvAgain
  <2>2. es \in Seq(Sqes)
    BY <1>9, RecvPushes
  <2> HIDE DEF es
  <2> QED BY <2>1, <2>2, RegularHandled
<1>10. CASE OnRecvBad
  <2> DEFINE es == Answers
  <2>1. Handling("recv") /\ Handled /\ Push(es) /\ E.res = "ok" /\ Fits(E.fd)
    BY <1>10 DEF OnRecvBad
  <2>2. E.fd \in Fds /\ E.val \in Bids
    BY <1>3, <2>1
  <2>3. es \in Seq(Sqes)
    BY <2>1, <2>2, AnswersFacts
  <2> HIDE DEF es
  <2> QED BY <2>1, <2>3, RegularHandled
<1> QED BY <1>1, <1>2, <1>4, <1>5, <1>6, <1>7, <1>8, <1>9, <1>10 DEF Worker

\* A step of the worker leaves a number tidy or spoils it.
LEMMA WorkerNeat ==
    ASSUME TypeOK, Regular(done \o cq, armed), Worker,
           NEW f \in Fds, NeatNow(f), f \notin Spoiled'
    PROVE  NeatNow(f)'
<1>1. CASE SubmitAndWait
  BY <1>1, SubmitAndWaitNeat
<1>2. CASE Reap
  BY <1>2, ReapKeeps DEF NeatNow
<1>3. CASE OnAccept \/ OnAcceptEnd
  BY <1>3, OnAcceptNeat, OnAcceptEndNeat
<1>4. CASE OnCtrl \/ OnCtrlEmpty \/ OnCtrlEnd
  BY <1>4, OnCtrlNeat, OnCtrlEmptyNeat, OnCtrlEndNeat
<1>5. CASE OnRecv \/ OnRecvEnd
  BY <1>5, OnRecvNeat, OnRecvEndNeat
<1>6. CASE OnRecvRefused \/ OnRecvBad
  BY <1>6, OnRecvRefusedNeat, OnRecvBadNeat
<1>7. CASE OnSend
  BY <1>7, OnSendNeat
<1> QED BY <1>1, <1>2, <1>3, <1>4, <1>5, <1>6, <1>7 DEF Worker

\* A step of the kernel spoils nothing.
LEMMA KernelNeat ==
    ASSUME TypeOK, Regular(done \o cq, armed), Kernel
    PROVE  Regular(done' \o cq', armed') /\ \A f \in Fds : NeatNow(f) => NeatNow(f)'
<1>1. PICK r \in BagToSet(armed) :
         \/ \E k \in backlog : KernelAccept(r, k)
         \/ KernelAcceptEnd(r)
         \/ KernelCtrl(r) \/ KernelCtrlLost(r) \/ KernelCtrlEnd(r)
         \/ \E more \in BOOLEAN : KernelRecv(r, more)
         \/ KernelNoBuffer(r) \/ KernelRecvEnd(r)
  BY DEF Kernel
<1>2. CASE \E k \in backlog : KernelAccept(r, k)
  BY <1>2, KernelAcceptNeat
<1>3. CASE KernelCtrl(r)
  BY <1>3, KernelCtrlNeat
<1>4. CASE \E more \in BOOLEAN : KernelRecv(r, more)
  BY <1>4, KernelRecvNeat
<1>5. CASE \/ KernelAcceptEnd(r) \/ KernelCtrlEnd(r) \/ KernelCtrlLost(r)
           \/ KernelNoBuffer(r) \/ KernelRecvEnd(r)
  BY <1>5, KernelEndNeat
<1> QED BY <1>1, <1>2, <1>3, <1>4, <1>5

LEMMA NextCalm == TypeOK /\ Calm /\ [Next]_vars => Calm'
<1> SUFFICES ASSUME TypeOK, Calm, [Next]_vars
             PROVE  Regular(done' \o cq', armed') /\ \A f \in Fds \ Spoiled' : NeatNow(f)'
  BY DEF Calm
<1>1. Regular(done \o cq, armed) /\ \A f \in Fds \ Spoiled : NeatNow(f)
  BY DEF Calm
<1>2. Spoiled \subseteq Spoiled'
  <2>1. trouble \subseteq trouble'
    BY TroubleStays
  <2> QED BY <2>1 DEF Spoiled
<1>3. \A f \in Fds \ Spoiled' : NeatNow(f)
  BY <1>1, <1>2
<1>4. CASE Worker
  BY <1>1, <1>3, <1>4, WorkerRegular, WorkerNeat
<1>5. CASE Kernel
  BY <1>1, <1>3, <1>5, KernelNeat
<1>6. CASE Environment \/ UNCHANGED vars
  <2>1. UNCHANGED <<sq, done, conns, ctrls, cq, armed, fdt>>
    BY <1>6, OutsideKeeps
  <2>2. \A f \in Fds : NeatNow(f)' <=> NeatNow(f)
    BY <2>1 DEF NeatNow
  <2> QED BY <1>1, <1>3, <2>1, <2>2
<1> QED BY <1>4, <1>5, <1>6 DEF Next

LEMMA InitCalm == Init => Calm
<1> SUFFICES ASSUME Init PROVE Calm
  OBVIOUS
<1>1. /\ sq = <<Sqe("accept", ListenFd, None)>> /\ done = <<>> /\ cq = <<>>
      /\ \A f \in Fds : conns[f] = NoConn /\ conns[f].some = FALSE
      /\ ctrls = {} /\ \A f \in Fds : fdt[f] = None
      /\ armed = EmptyBag
  BY DEF Init, NoConn
<1> DEFINE p == done \o cq
<1>2. DOMAIN p = {} /\ p \in Seq(Completion)
  <2>1. done \in Seq(Completion) /\ cq \in Seq(Completion) /\ Len(done) = 0 /\ Len(cq) = 0
    BY <1>1, EmptySeq
  <2>2. DOMAIN p = 1..0 /\ p \in Seq(Completion)
    BY <2>1, ConcatProperties
  <2> QED BY <2>2
<1> HIDE DEF p
<1>3. DOMAIN armed = {}
  BY <1>1 DEF EmptyBag, SetToBag
<1>4. sq \in Seq(Sqes) /\ DOMAIN sq = {1} /\ sq[1].op = "accept"
  <2>1. TypeOK
    BY InitType
  <2> QED BY <1>1, <2>1 DEF Sqe, TypeOK
<1>5. \A V : Count(p, V) = 0
  BY <1>2, CountNone
<1>6. \A op \in {"ctrl", "recv", "send"}, f \in Fds : Count(sq, SqOf(op, f)) = 0
  <2> SUFFICES ASSUME NEW op \in {"ctrl", "recv", "send"}, NEW f \in Fds
               PROVE  Count(sq, SqOf(op, f)) = 0
    OBVIOUS
  <2>1. \A i \in DOMAIN sq : sq[i] \notin SqOf(op, f)
    BY <1>4 DEF SqOf
  <2> QED BY <1>4, <2>1, CountNone
<1>7. Regular(p, armed)
  BY <1>2, <1>3 DEF Regular
<1>8. ASSUME NEW f \in Fds PROVE Neat(f, sq, p, armed, FALSE, FALSE, None)
  <2>1. None \notin Clients /\ None \notin Links
    BY UringAssumption DEF Files
  <2>2. \A op : Copies(Request(op, f, None), armed) = 0
    BY <1>3 DEF Copies
  <2>3. Account("recv", f, FALSE, sq, p, armed, None) /\ Account("ctrl", f, FALSE, sq, p, armed, None)
    BY <1>5, <1>6, <2>2 DEF Account, If
  <2>4. Mine(f, p, armed, None) /\ LastEnd(f, p)
    BY <1>2, <1>3 DEF Mine, LastEnd
  <2> QED BY <1>5, <1>6, <2>1, <2>3, <2>4 DEF Neat, If
<1>9. ASSUME NEW f \in Fds PROVE NeatNow(f)
  <2>1. conns[f].some = FALSE /\ (f \in ctrls) = FALSE /\ fdt[f] = None
    BY <1>1
  <2> QED BY <1>8, <2>1 DEF NeatNow, p
<1> QED BY <1>7, <1>9 DEF Calm, p

LEMMA AlwaysCalm == Spec => [](TypeOK /\ Calm)
<1>1. Init => TypeOK /\ Calm
  BY InitType, InitCalm
<1>2. TypeOK /\ Calm /\ [Next]_vars => (TypeOK /\ Calm)'
  BY NextType, NextCalm
<1> QED BY <1>1, <1>2, PTL DEF Spec

---------------------------------------------------------------------------
(* Number by number: what it means.                                        *)

LEMMA CalmNoStale == TypeOK /\ Calm => NoStaleCompletion
<1> SUFFICES ASSUME TypeOK, Calm, NEW e \in Posted, e.fd \notin Spoiled
             PROVE  (e.op = "send" /\ e.res = "ok") \/ FileOf(e.fd) = e.file
  BY DEF NoStaleCompletion
<1> DEFINE p == done \o cq
<1>1. e \in Completion /\ \E i \in DOMAIN p : p[i] = e
  BY PostedIsBoth
<1>2. Regular(p, armed) /\ \A f \in Fds \ Spoiled : Mine(f, p, armed, fdt[f])
  BY DEF Calm, NeatNow, Neat
<1> HIDE DEF p
<1>3. e.op = "accept" => e.fd = ListenFd /\ e.file = ListenFd
  BY <1>1, <1>2 DEF Regular
<1>4. e.op = "accept" \/ e.fd \in Fds
  BY <1>1 DEF Completion, Ended, News
<1>5. CASE e.op = "accept"
  BY <1>3, <1>5 DEF FileOf
<1>6. CASE e.fd \in Fds
  <2>1. (e.op = "send" /\ e.res = "ok") \/ e.file = fdt[e.fd]
    BY <1>1, <1>2, <1>6 DEF Mine
  <2>2. e.fd # ListenFd
    BY <1>6, UringAssumption
  <2> QED BY <2>1, <2>2 DEF FileOf
<1> QED BY <1>4, <1>5, <1>6

\* What the model counts is what a number's account counts.
LEMMA OutstandingIsAccount ==
    ASSUME TypeOK, Regular(done \o cq, armed), NEW f \in Fds, NeatNow(f),
           NEW op \in {"ctrl", "recv"}
    PROVE  Outstanding(op, f) = Count(sq, SqOf(op, f)) + Count(done \o cq, CqOf(op, f))
                                + Copies(Request(op, f, fdt[f]), armed)
<1> DEFINE R == Request(op, f, fdt[f])
           Of(s) == Cardinality({i \in DOMAIN s : s[i].op = op /\ s[i].fd = f})
           Over(s) == Cardinality({i \in DOMAIN s : s[i].op = op /\ s[i].fd = f /\ ~s[i].more})
           rs == {q \in BagToSet(armed) : q.op = op /\ q.fd = f}
           B == [r \in rs |-> armed[r]]
<1>1. sq \in Seq(Sqes) /\ done \in Seq(Completion) /\ cq \in Seq(Completion)
  BY DEF TypeOK
<1>2. Of(sq) = Count(sq, SqOf(op, f))
  <2>1. \A i \in DOMAIN sq : sq[i] \in Sqes
    BY <1>1, ElementOfSeq, LenProperties
  <2>2. {i \in DOMAIN sq : sq[i].op = op /\ sq[i].fd = f} = Indices(sq, SqOf(op, f))
    BY <2>1 DEF Indices, SqOf
  <2> QED BY <2>2 DEF Count
<1>3. ASSUME NEW s \in Seq(Completion) PROVE Over(s) = Count(s, CqOf(op, f))
  <2>1. \A i \in DOMAIN s : s[i] \in Completion
    BY ElementOfSeq, LenProperties
  <2>2. {i \in DOMAIN s : s[i].op = op /\ s[i].fd = f /\ ~s[i].more} = Indices(s, CqOf(op, f))
    BY <2>1 DEF Indices, CqOf
  <2> QED BY <2>2 DEF Count
<1>4. /\ Count(done \o cq, CqOf(op, f)) = Count(done, CqOf(op, f)) + Count(cq, CqOf(op, f))
      /\ Count(done, CqOf(op, f)) \in Nat /\ Count(cq, CqOf(op, f)) \in Nat
      /\ Count(sq, SqOf(op, f)) \in Nat
  BY <1>1, CountConcat, CountNat
<1>5. /\ \A r \in DOMAIN armed : r.fd = f => r.file = fdt[f]
      /\ \A r \in DOMAIN armed : armed[r] \in Nat \ {0}
  BY DEF NeatNow, Neat, Mine, Regular
<1>6. rs \subseteq {R}
  <2> SUFFICES ASSUME NEW q \in BagToSet(armed), q.op = op, q.fd = f PROVE q = R
    OBVIOUS
  <2>1. q \in Requests /\ q \in DOMAIN armed
    BY DEF TypeOK, BagToSet
  <2>2. q.file = fdt[f]
    BY <1>5, <2>1
  <2>3. q \in [op : {"ctrl", "recv"}, fd : Fds, file : Files]
    BY <2>1 DEF Requests
  <2> QED BY <2>2, <2>3 DEF Request
<1>7. R \in DOMAIN armed <=> R \in rs
  BY DEF Request, BagToSet
<1>8. BagCardinality(B) = Copies(R, armed)
  <2>1. CASE R \in DOMAIN armed
    <3>1. DOMAIN B = {R} /\ B[R] = armed[R] /\ armed[R] \in Nat
      BY <1>5, <1>6, <1>7, <2>1
    <3> HIDE DEF B, R
    <3>2. BagCardinality(B) = B[R]
      BY <3>1, OneElementBag
    <3> QED BY <2>1, <3>1, <3>2 DEF Copies
  <2>2. CASE R \notin DOMAIN armed
    <3>1. DOMAIN B = {}
      BY <1>6, <1>7, <2>2
    <3> HIDE DEF B, R
    <3>2. BagCardinality(B) = 0
      BY <3>1, NoElementBag
    <3> QED BY <2>2, <3>2 DEF Copies
  <2> QED BY <2>1, <2>2
<1>9. Over(done) = Count(done, CqOf(op, f)) /\ Over(cq) = Count(cq, CqOf(op, f))
  BY <1>1, <1>3
<1>10. Copies(R, armed) \in Nat
  BY <1>5 DEF Copies
<1>11. Outstanding(op, f) = Of(sq) + Over(cq) + Over(done) + BagCardinality(B)
  BY DEF Outstanding
<1> DEFINE all == Count(sq, SqOf(op, f)) + Count(done \o cq, CqOf(op, f)) + Copies(R, armed)
<1>12. all = Count(sq, SqOf(op, f)) + Count(done \o cq, CqOf(op, f)) + Copies(R, armed)
  OBVIOUS
<1> HIDE DEF Of, Over, R, rs, B, all
<1>13. Outstanding(op, f) = Count(sq, SqOf(op, f)) + Count(cq, CqOf(op, f))
                              + Count(done, CqOf(op, f)) + Copies(R, armed)
  BY <1>2, <1>8, <1>9, <1>11
<1>14. all = Count(sq, SqOf(op, f)) + (Count(done, CqOf(op, f)) + Count(cq, CqOf(op, f)))
              + Copies(R, armed)
  BY <1>4, <1>12
<1>15. Outstanding(op, f) = all
  BY <1>4, <1>10, <1>13, <1>14
<1> QED BY <1>15 DEF all, R

LEMMA CalmNoneForgotten == TypeOK /\ Calm => NoSocketForgotten
<1> SUFFICES ASSUME TypeOK, Calm, NEW f \in Fds \ Spoiled
             PROVE  /\ fdt[f] \in Clients /\ ~Announced(f) => conns[f].some
                    /\ fdt[f] \in Links /\ ~Announced(f) => f \in ctrls
                    /\ conns[f].some => fdt[f] \in Clients /\ Outstanding("recv", f) = 1
                    /\ f \in ctrls => fdt[f] \in Links /\ Outstanding("ctrl", f) = 1
  BY DEF NoSocketForgotten
<1> DEFINE p == done \o cq
<1>1. f \in Fds /\ NeatNow(f) /\ Regular(p, armed)
  BY DEF Calm
<1>2. /\ conns[f].some \in BOOLEAN
      /\ conns[f].some => fdt[f] \in Clients
      /\ f \in ctrls => fdt[f] \in Links
      /\ Count(p, Brought("ctrl", f)) = If(fdt[f] \in Clients /\ ~ conns[f].some)
      /\ Count(p, Brought("accept", f)) = If(fdt[f] \in Links /\ f \notin ctrls)
      /\ Account("recv", f, conns[f].some, sq, p, armed, fdt[f])
      /\ Account("ctrl", f, f \in ctrls, sq, p, armed, fdt[f])
  BY <1>1 DEF NeatNow, Neat
<1>3. ASSUME ~ Announced(f), NEW op \in {"accept", "ctrl"} PROVE Count(p, Brought(op, f)) = 0
  <2>1. p \in Seq(Completion) /\ \A i \in DOMAIN p : p[i] \in Posted
    BY PostedIsBoth
  <2>2. \A i \in DOMAIN p : p[i] \notin Brought(op, f)
    BY <1>3, <2>1 DEF Announced, Brought
  <2> QED BY <2>1, <2>2, CountNone
<1>4. ASSUME fdt[f] \in Clients, ~ Announced(f) PROVE conns[f].some
  BY <1>2, <1>3, <1>4 DEF If
<1>5. ASSUME fdt[f] \in Links, ~ Announced(f) PROVE f \in ctrls
  BY <1>2, <1>3, <1>5 DEF If
<1>6. \A op \in {"ctrl", "recv"} :
         Outstanding(op, f) = Count(sq, SqOf(op, f)) + Count(p, CqOf(op, f))
                              + Copies(Request(op, f, fdt[f]), armed)
  BY <1>1, OutstandingIsAccount
<1>7. /\ conns[f].some => Outstanding("recv", f) = 1
      /\ f \in ctrls => Outstanding("ctrl", f) = 1
  BY <1>2, <1>6 DEF Account, If
<1> QED BY <1>2, <1>4, <1>5, <1>7

---------------------------------------------------------------------------
(* What the wiring means.                                                  *)

LEMMA FlowsInOrder == TypeOK /\ Wiring => InOrderAnswers
<1> SUFFICES ASSUME TypeOK, InOrder(out), NEW c \in Clients, NEW k \in DOMAIN out[c]
             PROVE  LET u == out[c][k] IN
                    /\ u[1] = c
                    /\ UnitOf(u).last
                    /\ Cardinality({i \in 1..u[2] : Stream[c][i].last}) = k
  BY DEF InOrderAnswers, Wiring, FlowsNow, Flows
<1> DEFINE u == out[c][k]
           n == u[2]
           m == Len(Stream[c])
<1>1. u[1] = c /\ n \in Lasts(c) /\ Nth(c, n) = k
  BY DEF InOrder
<1>2. m \in Nat /\ DOMAIN Stream[c] = 1..m
  BY StreamLen
<1>3. n \in 1..m /\ Stream[c][n].last
  BY <1>1, <1>2 DEF Lasts
<1>4. UnitOf(u).last
  BY <1>1, <1>3 DEF UnitOf
<1> HIDE DEF u, n, m
<1>5. \A i : i \in 1..n <=> i \in 1..m /\ i <= n
  BY <1>2, <1>3
<1>6. {i \in 1..n : Stream[c][i].last} = {i \in Lasts(c) : i <= n}
  BY <1>2, <1>5 DEF Lasts
<1>7. Cardinality({i \in 1..n : Stream[c][i].last}) = k
  BY <1>1, <1>6 DEF Nth, Rank
<1> QED BY <1>1, <1>4, <1>7 DEF u, n

---------------------------------------------------------------------------
(* A socket handed over.                                                   *)

LEMMA StaysInFlight ==
    ASSUME TypeOK, NEW c \in Clients, NEW l \in Links,
           \E i \in DOMAIN ctrlq'[l] : ctrlq'[l][i] = c,
           l \in backlog' \/ \E f \in Fds : fdt'[f] = l
    PROVE  InFlight(c)'
    BY DEF InFlight, Connected

\* A client's socket is queued on a link that is in the backlog or open.
LEMMA WiredFlight ==
    ASSUME TypeOK, WiredNow, NEW c \in Clients, InFlight(c)
    PROVE  \E l \in Links : /\ l \in backlog \/ \E f \in Fds : fdt[f] = l
                            /\ \E i \in DOMAIN ctrlq[l] : ctrlq[l][i] = c
<1>1. PICK l \in Links : Connected(l) /\ \E i \in DOMAIN ctrlq[l] : ctrlq[l][i] = c
  BY DEF InFlight
<1>2. ASSUME NEW r \in BagToSet(armed), r.file = l PROVE \E f \in Fds : fdt[f] = l
  <2>1. r \in Requests
    BY DEF TypeOK
  <2>2. r.op # "accept"
    BY <1>2, <2>1, UringAssumption DEF Requests, Files
  <2>3. r.fd \in Fds /\ r.file = fdt[r.fd]
    BY <2>2, ArmedFacts
  <2> QED BY <1>2, <2>3
<1> QED BY <1>1, <1>2 DEF Connected

LEMMA NextHandOver ==
    ASSUME TypeOK, WiredNow, [Next]_vars, trouble' = {}, NEW c \in Clients, InFlight(c)
    PROVE  InFlight(c)' \/ \E f \in Fds : fdt'[f] = c
<1>1. PICK l \in Links : /\ l \in backlog \/ \E f \in Fds : fdt[f] = l
                         /\ \E i \in DOMAIN ctrlq[l] : ctrlq[l][i] = c
  BY WiredFlight
<1>2. PICK i \in DOMAIN ctrlq[l] : ctrlq[l][i] = c
  BY <1>1
<1>3. ctrlq[l] \in Seq(Clients) /\ ctrlq[l] # <<>>
  BY <1>2, QueueIndices
<1>4. l \notin Clients /\ l # None
  BY UringAssumption DEF Files
<1>5. ASSUME ctrlq' = ctrlq, backlog \subseteq backlog',
             \A f \in Fds : fdt[f] = l => fdt'[f] = l
      PROVE  InFlight(c)'
  BY <1>1, <1>5, StaysInFlight
<1>6. ASSUME UNCHANGED <<ctrlq, backlog, fdt>> PROVE InFlight(c)'
  BY <1>5, <1>6
<1>7. ASSUME NEW g, fdt[g] # l, fdt' = [fdt EXCEPT ![g] = None], UNCHANGED <<ctrlq, backlog>>
      PROVE  InFlight(c)'
  <2>1. \A f \in Fds : fdt[f] = l => fdt'[f] = l
    BY <1>7 DEF TypeOK
  <2> QED BY <1>5, <1>7, <2>1
<1>8. CASE UNCHANGED vars
  BY <1>6, <1>8 DEF vars
<1>9. CASE Worker
  <2>1. CASE SubmitAndWait \/ Reap \/ OnAccept \/ OnAcceptEnd \/ OnCtrl \/ OnCtrlEmpty
    BY <1>6, <2>1 DEF SubmitAndWait, Reap, OnAccept, OnAcceptEnd, OnCtrl, OnCtrlEmpty, kernel
  <2>2. CASE OnRecv
    BY <1>6, <2>2 DEF OnRecv
  <2>3. CASE OnRecvRefused \/ OnRecvBad
    BY <2>3 DEF OnRecvRefused, OnRecvBad, Trouble
  <2>4. CASE OnCtrlEnd
    <3>1. /\ done # <<>> /\ E.op = "ctrl" /\ E.res # "ok"
          /\ fdt' = [fdt EXCEPT ![E.fd] = None] /\ UNCHANGED <<ctrlq, backlog>>
      BY <2>4 DEF OnCtrlEnd, Handling
    <3>2. E.file \in DrainedLinks /\ E.file = fdt[E.fd]
      BY <3>1, HeadFacts
    <3>3. fdt[E.fd] # l
      BY <1>3, <3>2 DEF DrainedLinks, Drained
    <3> QED BY <1>7, <3>1, <3>3
  <2>5. CASE OnRecvEnd
    <3>1. /\ done # <<>> /\ E.op = "recv"
          /\ fdt' = [fdt EXCEPT ![E.fd] = None] /\ UNCHANGED <<ctrlq, backlog>>
      BY <2>5 DEF OnRecvEnd, Handling, CloseClient
    <3>2. E.fd \in Fds /\ conns[E.fd].some
      BY <3>1, HeadFacts DEF ForServed
    <3>3. fdt[E.fd] # l
      BY <1>4, <3>2 DEF WiredNow, Wired, Tables
    <3> QED BY <1>7, <3>1, <3>3
  <2>6. CASE OnSend
    <3>1. done # <<>> /\ E.op = "send"
      BY <2>6 DEF OnSend, Handling
    <3>2. E.res = "ok"
      BY <3>1, HeadFacts
    <3> QED BY <1>6, <2>6, <3>2 DEF OnSend
  <2> QED BY <1>9, <2>1, <2>2, <2>3, <2>4, <2>5, <2>6 DEF Worker
<1>10. CASE Kernel
  <2>1. PICK r \in BagToSet(armed) :
            \/ \E k \in backlog : KernelAccept(r, k)
            \/ KernelAcceptEnd(r)
            \/ KernelCtrl(r) \/ KernelCtrlLost(r) \/ KernelCtrlEnd(r)
            \/ \E more \in BOOLEAN : KernelRecv(r, more)
            \/ KernelNoBuffer(r) \/ KernelRecvEnd(r)
    BY <1>10 DEF Kernel
  <2>2. CASE \E k \in backlog : KernelAccept(r, k)
    <3>1. PICK k \in backlog : KernelAccept(r, k)
      BY <2>2
    <3>2. LowestFd \in Fds /\ fdt[LowestFd] = None
      BY <3>1, LowestFdIsFree DEF KernelAccept
    <3>3. /\ fdt' = [fdt EXCEPT ![LowestFd] = k] /\ backlog' = backlog \ {k} /\ ctrlq' = ctrlq
      BY <3>1 DEF KernelAccept
    <3> DEFINE g == LowestFd
    <3>4. fdt'[g] = k /\ \A f \in Fds \ {g} : fdt'[f] = fdt[f]
      BY <3>2, <3>3 DEF TypeOK
    <3> HIDE DEF g
    <3>5. l \in backlog' \/ \E f \in Fds : fdt'[f] = l
      BY <1>1, <1>4, <3>2, <3>3, <3>4 DEF g
    <3> QED BY <1>1, <3>3, <3>5, StaysInFlight
  <2>3. CASE KernelCtrl(r)
    <3>1. /\ r.file \in Links /\ ctrlq[r.file] # <<>>
          /\ LowestFd \in Fds /\ fdt[LowestFd] = None
          /\ ctrlq' = [ctrlq EXCEPT ![r.file] = Tail(ctrlq[r.file])]
          /\ fdt' = [fdt EXCEPT ![LowestFd] = ctrlq[r.file][1]]
      BY <2>3, KernelCtrlEffect
    <3>2. backlog' = backlog
      BY <2>3 DEF KernelCtrl
    <3> DEFINE g == LowestFd
               d == ctrlq[r.file][1]
    <3>3. fdt'[g] = d /\ \A f \in Fds \ {g} : fdt'[f] = fdt[f]
      BY <3>1 DEF TypeOK
    <3> HIDE DEF g
    <3>4. l \in backlog' \/ \E f \in Fds : fdt'[f] = l
      BY <1>1, <1>4, <3>1, <3>2, <3>3 DEF g
    <3>5. CASE l # r.file
      <4>1. ctrlq'[l] = ctrlq[l]
        BY <3>1, <3>5 DEF TypeOK
      <4> QED BY <1>1, <3>4, <4>1, StaysInFlight
    <3>6. CASE l = r.file /\ i = 1
      BY <1>2, <3>1, <3>3, <3>6 DEF g
    <3>7. CASE l = r.file /\ i # 1
      <4>1. /\ Tail(ctrlq[l]) \in Seq(Clients) /\ Len(Tail(ctrlq[l])) = Len(ctrlq[l]) - 1
            /\ \A j \in 1..Len(Tail(ctrlq[l])) : Tail(ctrlq[l])[j] = ctrlq[l][j + 1]
        BY <1>3, HeadTailProperties
      <4> DEFINE t == Tail(ctrlq[l])
                 n == Len(ctrlq[l])
      <4>2. n \in Nat /\ DOMAIN ctrlq[l] = 1..n /\ DOMAIN t = 1..Len(t)
        BY <1>3, <4>1, LenProperties
      <4> HIDE DEF t, n
      <4>3. Len(t) = n - 1 /\ \A j \in 1..Len(t) : t[j] = ctrlq[l][j + 1]
        BY <4>1 DEF t, n
      <4>4. i \in 1..n /\ i # 1
        BY <3>7, <4>2
      <4>5. i - 1 \in DOMAIN t /\ (i - 1) + 1 = i
        BY <4>2, <4>3, <4>4
      <4>6. t[i - 1] = c
        BY <1>2, <4>2, <4>3, <4>5
      <4>7. ctrlq'[l] = t
        BY <3>1, <3>7 DEF TypeOK, t
      <4> QED BY <3>4, <4>5, <4>6, <4>7, StaysInFlight
    <3> QED BY <3>5, <3>6, <3>7
  <2>4. CASE KernelAcceptEnd(r) \/ KernelCtrlLost(r) \/ KernelNoBuffer(r)
    BY <2>4 DEF KernelAcceptEnd, KernelCtrlLost, KernelNoBuffer, Trouble
  <2>5. CASE KernelCtrlEnd(r) \/ KernelRecvEnd(r)
    BY <1>6, <2>5 DEF KernelCtrlEnd, KernelRecvEnd, kernel
  <2>6. CASE \E more \in BOOLEAN : KernelRecv(r, more)
    <3>1. PICK more \in BOOLEAN : KernelRecv(r, more)
      BY <2>6
    <3>2. r.op = "recv" /\ fdt' = fdt /\ backlog' = backlog
      BY <3>1 DEF KernelRecv
    <3>3. r.file \in Clients
      BY <3>2, ArmedFacts
    <3>4. ctrlq' = ctrlq
      BY <3>1, <3>3, RecvQueues, UringAssumption
    <3> QED BY <1>6, <3>2, <3>4
  <2> QED BY <2>1, <2>2, <2>3, <2>4, <2>5, <2>6
<1>11. CASE Environment
  <2>1. CASE \E k \in Links : LbConnect(k)
    <3>1. ctrlq' = ctrlq /\ fdt' = fdt /\ backlog \subseteq backlog'
      BY <2>1 DEF LbConnect
    <3> QED BY <1>5, <3>1
  <2>2. CASE \E k \in Links : LbExit(k)
    BY <1>6, <2>2 DEF LbExit, kernel
  <2>3. CASE \E k \in Links, d \in Clients : LbHandOver(k, d)
    <3>1. PICK k \in Links, d \in Clients : LbHandOver(k, d)
      BY <2>3
    <3>2. ctrlq' = [ctrlq EXCEPT ![k] = Append(ctrlq[k], d)] /\ UNCHANGED <<fdt, backlog>>
      BY <3>1 DEF LbHandOver
    <3>3. i \in DOMAIN ctrlq'[l] /\ ctrlq'[l][i] = c
      <4>1. CASE l = k
        <5> DEFINE q == ctrlq[l]
        <5>1. ctrlq'[l] = Append(q, d)
          BY <3>2, <4>1 DEF TypeOK
        <5>2. q \in Seq(Clients) /\ i \in DOMAIN q /\ q[i] = c
          BY <1>2, <1>3
        <5> HIDE DEF q
        <5>3. /\ Len(q) \in Nat /\ DOMAIN q = 1..Len(q)
              /\ Append(q, d) \in Seq(Clients) /\ Len(Append(q, d)) = Len(q) + 1
              /\ \A j \in 1..Len(q) : Append(q, d)[j] = q[j]
          BY <5>2, LenProperties, AppendProperties
        <5>4. DOMAIN Append(q, d) = 1..(Len(q) + 1)
          BY <5>3, LenProperties
        <5>5. i \in DOMAIN Append(q, d)
          BY <5>2, <5>3, <5>4
        <5> QED BY <5>1, <5>2, <5>3, <5>5
      <4>2. CASE l # k
        BY <1>2, <3>2, <4>2 DEF TypeOK
      <4> QED BY <4>1, <4>2
    <3> QED BY <1>1, <3>2, <3>3, StaysInFlight
  <2>4. CASE \E d \in Clients : ClientSend(d) \/ ClientHangUp(d)
    BY <1>6, <2>4 DEF ClientSend, ClientHangUp, kernel
  <2> QED BY <1>11, <2>1, <2>2, <2>3, <2>4 DEF Environment
<1> QED BY <1>8, <1>9, <1>10, <1>11 DEF Next

---------------------------------------------------------------------------
(* The theorems.                                                           *)

\* Whatever was rejected, refused, or could not be sent: every completion of a
\* number that was not itself closed over it is handled while the number means
\* the file the completion came from (NoStaleCompletion).
THEOREM NoneStale == Spec => []NoStaleCompletion
    BY AlwaysCalm, CalmNoStale, PTL

\* Whatever happened to others, every socket open under such a number is
\* announced or served, with exactly one request of its kind outstanding
\* (NoSocketForgotten).
THEOREM NoneForgotten == Spec => []NoSocketForgotten
    BY AlwaysCalm, CalmNoneForgotten, PTL

\* Without trouble the k-th answer on a socket is the answer to the k-th
\* request.
THEOREM AnswersInOrder == Spec => []InOrderAnswers
    BY AlwaysWired, FlowsInOrder, PTL

\* Without trouble a client's socket leaves a link only into the descriptor
\* table.
THEOREM HandOversKept == Spec => HandOverKept
<1>1. TypeOK /\ Wiring /\ [Next]_vars =>
         [trouble' = {} => \A c \in Clients :
             InFlight(c) => InFlight(c)' \/ \E f \in Fds : fdt'[f] = c]_vars
  <2> SUFFICES ASSUME TypeOK, Wiring, [Next]_vars, trouble' = {},
                      NEW c \in Clients, InFlight(c)
               PROVE  InFlight(c)' \/ \E f \in Fds : fdt'[f] = c
    OBVIOUS
  <2>1. trouble \subseteq {}
    BY TroubleStays
  <2>2. WiredNow
    BY <2>1 DEF Wiring, Sound
  <2> QED BY <2>2, NextHandOver
<1> QED BY <1>1, AlwaysWired, PTL DEF Spec, HandOverKept
====
