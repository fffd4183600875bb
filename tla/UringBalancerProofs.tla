---- MODULE UringBalancerProofs ----
(***************************************************************************)
(* Why the messages of the io_uring balancer stay pinned, for any number   *)
(* of clients and workers and any size of the submission queue, the        *)
(* descriptor table and the links.                                         *)
(***************************************************************************)
EXTENDS UringBalancer, NatLemmas, FiniteSetTheorems, SequenceTheorems

USE UringBalancerAssumption

---------------------------------------------------------------------------
(* The inductive invariant, over what it speaks of, so that the two halves *)
(* of a step (a request is pushed, a full queue is submitted) can be taken *)
(* one after the other: q and f are the pushed and the flying sends, c and *)
(* d the completions posted and at hand, sl and fr the slab, ft the        *)
(* descriptor table.                                                       *)

SqesOf == {Accept} \cup Sends

Sendings(s)      == {i \in DOMAIN s : s[i].op = "send"}
Announcements(s) == {i \in DOMAIN s : s[i].op = "accept" /\ s[i].fd # None}

\* A message in its slot, with its client's open descriptor.
InSlot(s, sl, ft) ==
    /\ s.slot \in DOMAIN sl /\ sl[s.slot] \in Fds
    /\ ft[sl[s.slot]] = s.who /\ s.who # None

AllInSlots(q, f, c, d, sl, ft) ==
    /\ \A i \in Sendings(q) : InSlot(q[i], sl, ft)
    /\ \A s \in f : InSlot(s, sl, ft)
    /\ \A i \in Sendings(c) : InSlot(c[i], sl, ft)
    /\ \A i \in Sendings(d) : InSlot(d[i], sl, ft)

\* No two sends have the same slot.
SlotsDiffer(s)  == \A i, j \in Sendings(s) : s[i].slot = s[j].slot => i = j
FlyingDiffer(f) == \A s, t \in f : s.slot = t.slot => s = t
SlotsApart(s, t)  == \A i \in Sendings(s), j \in Sendings(t) : s[i].slot # t[j].slot
FlyingApart(f, s) == \A t \in f, i \in Sendings(s) : t.slot # s[i].slot

OneSendEach(q, f, c, d) ==
    /\ SlotsDiffer(q) /\ SlotsDiffer(c) /\ SlotsDiffer(d) /\ FlyingDiffer(f)
    /\ FlyingApart(f, q) /\ FlyingApart(f, c) /\ FlyingApart(f, d)
    /\ SlotsApart(q, c) /\ SlotsApart(q, d) /\ SlotsApart(c, d)

\* The slab: a slot in use belongs to a send, no two slots hold the same
\* descriptor, and the others are on the free list, once.
Belongs(i, q, f, c, d) ==
    \/ \E j \in Sendings(q) : q[j].slot = i
    \/ \E s \in f : s.slot = i
    \/ \E j \in Sendings(c) : c[j].slot = i
    \/ \E j \in Sendings(d) : d[j].slot = i
SlabBook(q, f, c, d, sl) == \A i \in DOMAIN sl : sl[i] # None => Belongs(i, q, f, c, d)
SlabFree(sl, fr) ==
    /\ \A i, j \in DOMAIN sl : sl[i] = sl[j] /\ sl[i] # None => i = j
    /\ \A j \in DOMAIN fr : fr[j] \in DOMAIN sl /\ sl[fr[j]] = None
    /\ \A i, j \in DOMAIN fr : fr[i] = fr[j] => i = j
    /\ \A i \in DOMAIN sl : sl[i] = None => \E j \in DOMAIN fr : fr[j] = i

\* Descriptors: each is announced once, or in a slot.
AnnouncedOpen(s, sl, ft) ==
    \A i \in Announcements(s) : ft[s[i].fd] # None /\ \A k \in DOMAIN sl : sl[k] # s[i].fd
AnnouncedOnce(s)     == \A i, j \in Announcements(s) : s[i].fd = s[j].fd => i = j
AnnouncedApart(s, t) == \A i \in Announcements(s), j \in Announcements(t) : s[i].fd # t[j].fd
FdBook(c, d, sl, ft) ==
    /\ AnnouncedOpen(c, sl, ft) /\ AnnouncedOpen(d, sl, ft)
    /\ AnnouncedOnce(c) /\ AnnouncedOnce(d) /\ AnnouncedApart(c, d)
    /\ \A x \in Fds : ft[x] # None =>
          \/ \E i \in Announcements(c) : c[i].fd = x
          \/ \E i \in Announcements(d) : d[i].fd = x
          \/ \E k \in DOMAIN sl : sl[k] = x

Book(q, f, c, d, sl, fr, ft) ==
    /\ AllInSlots(q, f, c, d, sl, ft) /\ OneSendEach(q, f, c, d)
    /\ SlabBook(q, f, c, d, sl) /\ SlabFree(sl, fr) /\ FdBook(c, d, sl, ft)

BookKept == Book(sq, flying, cq, done, slots, free, fdt)

---------------------------------------------------------------------------
(* Submission.                                                             *)

\* The first n requests of all have been submitted, q is left.
Submitted(all, n, q, f0, f1) ==
    /\ n \in 0..Len(all)
    /\ q \in Seq(SqesOf) /\ Len(q) = Len(all) - n
    /\ \A i \in 1..Len(q) : q[i] = all[n + i]
    /\ f1 = f0 \cup ({all[i] : i \in 1..n} \ {Accept})

LEMMA PushMeans ==
    ASSUME NEW es \in Seq(SqesOf), sq \in Seq(SqesOf), accepting \in BOOLEAN, Push(es)
    PROVE  /\ \E n \in Nat : Submitted(sq \o es, n, sq', flying, flying')
           /\ Len(sq') <= SqCap /\ accepting' \in BOOLEAN
<1> DEFINE all  == sq \o es
           over == IF Len(all) <= SqCap THEN 0 ELSE SqCap * ((Len(all) - 1) \div SqCap)
<1>1. all \in Seq(SqesOf) /\ Len(all) \in Nat
  OBVIOUS
<1>2. /\ sq' = SubSeq(all, over + 1, Len(all))
      /\ accepting' = (accepting \/ Accept \in Elements(SubSeq(all, 1, over)))
      /\ flying' = flying \cup (Elements(SubSeq(all, 1, over)) \ {Accept})
  BY Zenon DEF Push, Submit
<1>3. over \in 0..Len(all) /\ Len(all) - over <= SqCap
  <2>1. CASE Len(all) <= SqCap
    BY <1>1, <2>1
  <2>2. CASE ~ (Len(all) <= SqCap)
    <3>1. Len(all) - 1 \in Nat
      BY <1>1, <2>2
    <3>2. over = SqCap * ((Len(all) - 1) \div SqCap)
      BY <2>2
    <3>3. over <= Len(all) - 1 /\ Len(all) - 1 < over + SqCap /\ over \in Nat
      <4> DEFINE r == (Len(all) - 1) \div SqCap
      <4>1. r \in Nat /\ SqCap * r <= Len(all) - 1 /\ Len(all) - 1 < SqCap * r + SqCap
        BY <3>1, DivBounds
      <4>2. SqCap * r \in Nat
        BY <4>1
      <4> QED BY <3>2, <4>1, <4>2
    <3> QED BY <1>1, <3>1, <3>3
  <2> QED BY <2>1, <2>2
<1> HIDE DEF all, over
<1>4. SubSeq(all, over + 1, Len(all)) \in Seq(SqesOf)
  BY <1>1, <1>3
<1>5. /\ Len(SubSeq(all, over + 1, Len(all))) = Len(all) - over
      /\ \A i \in 1..(Len(all) - over) : SubSeq(all, over + 1, Len(all))[i] = all[over + i]
  BY <1>1, <1>3
<1>6. /\ Len(SubSeq(all, 1, over)) = over
      /\ \A i \in 1..over : SubSeq(all, 1, over)[i] = all[i]
  BY <1>1, <1>3
<1>7. SubSeq(all, 1, over) \in Seq(SqesOf)
  BY <1>1, <1>3
<1>8. DOMAIN SubSeq(all, 1, over) = 1..over
  BY <1>6, <1>7
<1>9. Elements(SubSeq(all, 1, over)) = {all[i] : i \in 1..over}
  BY <1>6, <1>8 DEF Elements
<1>10. Submitted(all, over, sq', flying, flying')
  BY <1>1, <1>2, <1>3, <1>4, <1>5, <1>9 DEF Submitted
<1>11. accepting' \in BOOLEAN
  BY <1>2
<1>12. Len(sq') <= SqCap /\ over \in Nat
  BY <1>2, <1>3, <1>5
<1> QED BY <1>10, <1>11, <1>12 DEF all

\* Submitting changes where a send is, and nothing else.
LEMMA SubmittedBook ==
    ASSUME NEW all \in Seq(SqesOf), NEW n \in Nat, NEW q, NEW f0 \in SUBSET Sends, NEW f1,
           NEW c, NEW d, NEW sl, NEW fr, NEW ft,
           Submitted(all, n, q, f0, f1), Book(all, f0, c, d, sl, fr, ft)
    PROVE  f1 \in SUBSET Sends /\ Book(q, f1, c, d, sl, fr, ft)
<1>1. \A i \in Sendings(q) : n + i \in Sendings(all) /\ q[i] = all[n + i] /\ i \in Nat /\ i > 0
  BY DEF Submitted, Sendings
<1>2. \A i \in DOMAIN all : all[i] \in Sends \/ all[i] = Accept
  BY DEF SqesOf
<1>3. \A s \in f1 : s \in f0 \/ \E i \in Sendings(all) : i <= n /\ s = all[i]
  BY <1>2 DEF Submitted, Sendings, Sends
<1>4. \A i \in Sendings(all) : \/ i <= n /\ all[i] \in f1
                               \/ i > n /\ i - n \in Sendings(q) /\ q[i - n] = all[i]
  <2> SUFFICES ASSUME NEW i \in Sendings(all)
               PROVE  \/ i <= n /\ all[i] \in f1
                      \/ i > n /\ i - n \in Sendings(q) /\ q[i - n] = all[i]
    OBVIOUS
  <2>1. i \in 1..Len(all) /\ all[i].op = "send"
    BY DEF Sendings
  <2>2. all[i] # Accept
    BY <2>1 DEF Accept
  <2>3. CASE i <= n
    <3>1. i \in 1..n
      BY <2>1, <2>3
    <3> QED BY <2>2, <2>3, <3>1 DEF Submitted
  <2>4. CASE i > n
    <3>1. i - n \in 1..Len(q) /\ n + (i - n) = i
      BY <2>1, <2>4 DEF Submitted
    <3>2. q[i - n] = all[i] /\ DOMAIN q = 1..Len(q)
      BY <3>1 DEF Submitted
    <3> QED BY <2>1, <2>4, <3>1, <3>2 DEF Sendings
  <2> QED BY <2>1, <2>3, <2>4
<1>5. f0 \subseteq f1 /\ Sendings(all) \subseteq Nat
  BY DEF Submitted, Sendings
<1>6. f1 \in SUBSET Sends
  BY <1>2, <1>3 DEF Sendings, Accept
<1>7. AllInSlots(q, f1, c, d, sl, ft)
  BY <1>1, <1>3 DEF Book, AllInSlots
<1>8. OneSendEach(q, f1, c, d)
  <2>1. SlotsDiffer(q)
    <3> SUFFICES ASSUME NEW i \in Sendings(q), NEW j \in Sendings(q), q[i].slot = q[j].slot
                 PROVE  i = j
      BY DEF SlotsDiffer
    <3>1. n + i = n + j
      BY <1>1 DEF Book, OneSendEach, SlotsDiffer
    <3> QED BY <1>1, <3>1
  <2>2. FlyingDiffer(f1)
    BY <1>3 DEF Book, OneSendEach, SlotsDiffer, FlyingDiffer, FlyingApart
  <2>3. FlyingApart(f1, q)
    <3> SUFFICES ASSUME NEW t \in f1, NEW j \in Sendings(q) PROVE t.slot # q[j].slot
      BY DEF FlyingApart
    <3>1. CASE t \in f0
      BY <1>1, <3>1 DEF Book, OneSendEach, FlyingApart
    <3>2. CASE \E i \in Sendings(all) : i <= n /\ t = all[i]
      <4>1. PICK i \in Sendings(all) : i <= n /\ t = all[i]
        BY <3>2
      <4>2. i # n + j
        BY <1>1, <1>5, <4>1
      <4> QED BY <1>1, <4>1, <4>2 DEF Book, OneSendEach, SlotsDiffer
    <3> QED BY <1>3, <3>1, <3>2
  <2>4. FlyingApart(f1, c) /\ FlyingApart(f1, d)
    BY <1>3 DEF Book, OneSendEach, SlotsApart, FlyingApart
  <2>5. SlotsApart(q, c) /\ SlotsApart(q, d)
    BY <1>1 DEF Book, OneSendEach, SlotsApart
  <2> QED BY <2>1, <2>2, <2>3, <2>4, <2>5 DEF Book, OneSendEach
<1>9. SlabBook(q, f1, c, d, sl)
  BY <1>4, <1>5 DEF Book, SlabBook, Belongs
<1> QED BY <1>6, <1>7, <1>8, <1>9 DEF Book

---------------------------------------------------------------------------
(* One completion handled, one posted.                                     *)

LEMMA TailMeans ==
    ASSUME NEW S, NEW d \in Seq(S), d # <<>>
    PROVE  /\ 1 \in DOMAIN d /\ Head(d) = d[1] /\ Tail(d) \in Seq(S)
           /\ \A i \in DOMAIN Tail(d) : i + 1 \in DOMAIN d /\ Tail(d)[i] = d[i + 1] /\ i \in Nat /\ i > 0
           /\ \A i \in DOMAIN d : i # 1 => i - 1 \in DOMAIN Tail(d) /\ Tail(d)[i - 1] = d[i] /\ i \in Nat
<1>1. Len(d) \in Nat \ {0} /\ Len(Tail(d)) = Len(d) - 1 /\ Tail(d) \in Seq(S)
  OBVIOUS
<1>2. DOMAIN d = 1..Len(d) /\ DOMAIN Tail(d) = 1..(Len(d) - 1)
  BY <1>1
<1>3. \A i \in 1..(Len(d) - 1) : Tail(d)[i] = d[i + 1]
  BY <1>1
<1> QED BY <1>1, <1>2, <1>3

\* t is d without its first element.
IsRest(d, t) ==
    /\ \A i \in DOMAIN t : i + 1 \in DOMAIN d /\ t[i] = d[i + 1] /\ i \in Nat \ {0}
    /\ \A i \in DOMAIN d : i # 1 => i - 1 \in DOMAIN t /\ t[i - 1] = d[i]

\* What is said of a list of completions holds of its rest.
LEMMA RestOfBook ==
    ASSUME NEW q, NEW f, NEW c, NEW d, NEW t, IsRest(d, t), NEW sl, NEW fr, NEW ft,
           Book(q, f, c, d, sl, fr, ft)
    PROVE  /\ AllInSlots(q, f, c, t, sl, ft) /\ OneSendEach(q, f, c, t)
           /\ SlabFree(sl, fr)
           /\ AnnouncedOpen(c, sl, ft) /\ AnnouncedOpen(t, sl, ft)
           /\ AnnouncedOnce(c) /\ AnnouncedOnce(t) /\ AnnouncedApart(c, t)
<1>2. \A i \in Sendings(t) : i + 1 \in Sendings(d) /\ t[i] = d[i + 1] /\ i \in Nat
  BY DEF IsRest, Sendings
<1>3. \A i \in Announcements(t) : i + 1 \in Announcements(d) /\ t[i] = d[i + 1] /\ i \in Nat
  BY DEF IsRest, Announcements
<1>0. /\ AnnouncedOnce(d) /\ AnnouncedOpen(d, sl, ft) /\ AnnouncedApart(c, d)
      /\ AnnouncedOnce(c) /\ AnnouncedOpen(c, sl, ft) /\ SlabFree(sl, fr)
  BY DEF Book, FdBook
<1>4. AllInSlots(q, f, c, t, sl, ft)
  BY <1>2 DEF Book, AllInSlots
<1>5. OneSendEach(q, f, c, t)
  <2>1. SlotsDiffer(t)
    <3> SUFFICES ASSUME NEW i \in Sendings(t), NEW j \in Sendings(t),
                        t[i].slot = t[j].slot
                 PROVE  i = j
      BY DEF SlotsDiffer
    <3>1. i + 1 = j + 1
      BY <1>2 DEF Book, OneSendEach, SlotsDiffer
    <3> QED BY <1>2, <3>1
  <2> QED BY <1>2, <2>1 DEF Book, OneSendEach, SlotsApart, FlyingApart
<1>6. AnnouncedOnce(t)
  <2> SUFFICES ASSUME NEW i \in Announcements(t), NEW j \in Announcements(t),
                      t[i].fd = t[j].fd
               PROVE  i = j
    BY DEF AnnouncedOnce
  <2>1. i + 1 = j + 1
    BY <1>0, <1>3 DEF AnnouncedOnce
  <2> QED BY <1>3, <2>1
<1>7. AnnouncedOpen(t, sl, ft) /\ AnnouncedApart(c, t)
  BY <1>0, <1>3 DEF AnnouncedOpen, AnnouncedApart
<1> QED BY <1>0, <1>4, <1>5, <1>6, <1>7

\* Only the sends among the pushed requests matter.
LEMMA SameSends ==
    ASSUME NEW q, NEW p, NEW f, NEW c, NEW d, NEW sl, NEW fr, NEW ft,
           Sendings(p) = Sendings(q), \A i \in Sendings(q) : p[i] = q[i],
           Book(q, f, c, d, sl, fr, ft)
    PROVE  Book(p, f, c, d, sl, fr, ft)
<1>1. AllInSlots(p, f, c, d, sl, ft)
  BY DEF Book, AllInSlots
<1>2. OneSendEach(p, f, c, d)
  BY DEF Book, OneSendEach, SlotsDiffer, SlotsApart, FlyingApart
<1>3. SlabBook(p, f, c, d, sl)
  BY DEF Book, SlabBook, Belongs
<1> QED BY <1>1, <1>2, <1>3 DEF Book

\* A completion that brings nothing.
LEMMA SkipBook ==
    ASSUME NEW q \in Seq(SqesOf), NEW f, NEW c, NEW d \in Seq(Completions), d # <<>>,
           NEW sl, NEW fr, NEW ft, NEW es \in {<<>>, <<Accept>>},
           Head(d).op = "accept" /\ Head(d).fd = None,
           Book(q, f, c, d, sl, fr, ft)
    PROVE  Book(q \o es, f, c, Tail(d), sl, fr, ft)
<1>1. Head(d) = d[1] /\ 1 \notin Sendings(d) /\ 1 \notin Announcements(d)
  BY TailMeans DEF Sendings, Announcements
<1> DEFINE t == Tail(d)
<1>2. IsRest(d, t)
  BY TailMeans DEF IsRest
<1> HIDE DEF t
<1>3. \A i \in Sendings(d) : i - 1 \in Sendings(t) /\ t[i - 1] = d[i]
  BY <1>1, <1>2 DEF Sendings, IsRest
<1>4. \A i \in Announcements(d) : i - 1 \in Announcements(t) /\ t[i - 1] = d[i]
  BY <1>1, <1>2 DEF Announcements, IsRest
<1>5. Book(q, f, c, t, sl, fr, ft)
  <2>0. /\ AllInSlots(q, f, c, t, sl, ft) /\ OneSendEach(q, f, c, t) /\ SlabFree(sl, fr)
        /\ AnnouncedOpen(c, sl, ft) /\ AnnouncedOpen(t, sl, ft)
        /\ AnnouncedOnce(c) /\ AnnouncedOnce(t) /\ AnnouncedApart(c, t)
    BY <1>2, RestOfBook
  <2>1. SlabBook(q, f, c, t, sl)
    <3>1. SlabBook(q, f, c, d, sl)
      BY DEF Book
    <3> QED BY <1>3, <3>1 DEF SlabBook, Belongs
  <2>2. FdBook(c, t, sl, ft)
    <3>1. FdBook(c, d, sl, ft)
      BY DEF Book
    <3> QED BY <1>4, <2>0, <3>1 DEF FdBook
  <2> QED BY <2>0, <2>1, <2>2 DEF Book
<1>6. /\ Sendings(q \o es) = Sendings(q)
      /\ \A i \in Sendings(q) : (q \o es)[i] = q[i]
  <2>1. CASE es = <<>>
    BY <2>1
  <2>2. CASE es = <<Accept>>
    <3>1. /\ q \o es = Append(q, Accept) /\ DOMAIN q = 1..Len(q) /\ Len(q) \in Nat
          /\ DOMAIN (q \o es) = 1..(Len(q) + 1)
          /\ (q \o es)[Len(q) + 1] = Accept /\ \A i \in 1..Len(q) : (q \o es)[i] = q[i]
      BY <2>2
    <3> QED BY <3>1 DEF Sendings, Accept
  <2> QED BY <2>1, <2>2
<1> QED BY <1>5, <1>6, SameSends DEF t

\* What an accepted client's slot is filled into: slot i was free, holds x now,
\* and is on the free list no more.
Placed(i, x, sl, fr, sl1, fr1) ==
    /\ DOMAIN sl1 = DOMAIN sl \cup {i} /\ sl1[i] = x
    /\ \A k \in DOMAIN sl : k # i => sl1[k] = sl[k]
    /\ i \in DOMAIN sl => sl[i] = None
    /\ SlabFree(sl1, fr1)

LEMMA AllocMeans ==
    ASSUME NEW x \in Fds, slots \in Seq(Fds \cup {None}), free \in Seq(Nat \ {0}),
           SlabFree(slots, free), \A k \in DOMAIN slots : slots[k] # x, Alloc(x)
    PROVE  /\ Placed(Slot, x, slots, free, slots', free') /\ Slot \in Nat \ {0}
           /\ slots' \in Seq(Fds \cup {None}) /\ free' \in Seq(Nat \ {0})
<1>1. DOMAIN slots = 1..Len(slots) /\ Len(slots) \in Nat /\ DOMAIN free = 1..Len(free) /\ Len(free) \in Nat
  OBVIOUS
<1>2. CASE free # <<>>
  <2>1. /\ slots' = [slots EXCEPT ![Slot] = x] /\ free' = SubSeq(free, 1, Len(free) - 1)
        /\ Slot = free[Len(free)] /\ Len(free) > 0
    BY <1>1, <1>2 DEF Alloc, Slot
  <2>2. Slot \in DOMAIN slots /\ slots[Slot] = None /\ Slot \in Nat \ {0}
    BY <1>1, <2>1 DEF SlabFree
  <2>3. /\ free' \in Seq(Nat \ {0}) /\ DOMAIN free' = 1..(Len(free) - 1)
        /\ \A j \in 1..(Len(free) - 1) : free'[j] = free[j]
    BY <1>1, <2>1
  <2>4. /\ slots' \in Seq(Fds \cup {None}) /\ DOMAIN slots' = DOMAIN slots
        /\ slots'[Slot] = x /\ \A k \in DOMAIN slots : k # Slot => slots'[k] = slots[k]
    BY <2>1, <2>2
  <2>5. None \notin Fds
    OBVIOUS
  <2>6. SlabFree(slots', free')
    <3>1. \A i, j \in DOMAIN slots' : slots'[i] = slots'[j] /\ slots'[i] # None => i = j
      BY <2>4 DEF SlabFree
    <3>2. \A j \in DOMAIN free' : j \in DOMAIN free /\ free'[j] = free[j] /\ free[j] # Slot
      <4> SUFFICES ASSUME NEW j \in 1..(Len(free) - 1)
                   PROVE  j \in DOMAIN free /\ free'[j] = free[j] /\ free[j] # Slot
        BY <2>3
      <4>1. j \in DOMAIN free /\ Len(free) \in DOMAIN free /\ j # Len(free)
        BY <1>1, <2>1
      <4> QED BY <2>1, <2>3, <4>1 DEF SlabFree
    <3>3. \A j \in DOMAIN free' : free'[j] \in DOMAIN slots' /\ slots'[free'[j]] = None
      BY <2>4, <3>2 DEF SlabFree
    <3>4. \A i, j \in DOMAIN free' : free'[i] = free'[j] => i = j
      BY <3>2 DEF SlabFree
    <3>5. \A i \in DOMAIN slots' : slots'[i] = None => \E j \in DOMAIN free' : free'[j] = i
      <4> SUFFICES ASSUME NEW i \in DOMAIN slots', slots'[i] = None
                   PROVE  \E j \in DOMAIN free' : free'[j] = i
        OBVIOUS
      <4>1. i # Slot /\ slots[i] = None /\ i \in DOMAIN slots
        BY <2>4, <2>5
      <4>2. PICK j \in DOMAIN free : free[j] = i
        BY <4>1 DEF SlabFree
      <4>3. j # Len(free) /\ j \in DOMAIN free'
        BY <1>1, <2>1, <2>3, <4>1, <4>2
      <4> QED BY <2>3, <4>2, <4>3
    <3> QED BY <3>1, <3>3, <3>4, <3>5 DEF SlabFree
  <2> QED BY <2>2, <2>3, <2>4, <2>6 DEF Placed
<1>3. CASE free = <<>>
  <2>1. slots' = Append(slots, x) /\ free' = free /\ Slot = Len(slots) + 1
    BY <1>3 DEF Alloc, Slot
  <2>2. /\ slots' \in Seq(Fds \cup {None}) /\ DOMAIN slots' = 1..(Len(slots) + 1)
        /\ slots'[Slot] = x /\ \A k \in DOMAIN slots : slots'[k] = slots[k]
    BY <1>1, <2>1
  <2>3. DOMAIN slots' = DOMAIN slots \cup {Slot} /\ Slot \notin DOMAIN slots /\ Slot \in Nat \ {0}
    BY <1>1, <2>1, <2>2
  <2>4. DOMAIN free = {} /\ None \notin Fds
    BY <1>1, <1>3
  <2>5. SlabFree(slots', free')
    BY <2>1, <2>2, <2>3, <2>4 DEF SlabFree
  <2> QED BY <2>1, <2>2, <2>3, <2>5 DEF Placed
<1> QED BY <1>2, <1>3

\* The sends of p are those of q and one of slot i for client w.
HasOneMore(q, p, i, w) ==
    \E n : /\ n \notin DOMAIN q /\ Sendings(p) = Sendings(q) \cup {n}
           /\ \A j \in Sendings(q) : p[j] = q[j]
           /\ p[n].slot = i /\ p[n].who = w

\* p is q with s behind its sends.
HoldsOneMore(q, p, s) ==
    \E n : /\ n \notin DOMAIN q /\ Sendings(p) = Sendings(q) \cup {n}
           /\ \A j \in Sendings(q) : p[j] = q[j]
           /\ p[n] = s

\* An accepted client gets a slot and a send.
LEMMA AssignBook ==
    ASSUME NEW q, NEW f, NEW c, NEW d, NEW t, IsRest(d, t), 1 \in DOMAIN d,
           NEW sl, NEW fr, NEW ft, Book(q, f, c, d, sl, fr, ft),
           NEW x \in Fds, d[1].op = "accept", d[1].fd = x, ft[x] # None,
           NEW i, NEW sl1, NEW fr1, Placed(i, x, sl, fr, sl1, fr1),
           NEW p, HasOneMore(q, p, i, ft[x])
    PROVE  Book(p, f, c, t, sl1, fr1, ft)
<1>0. PICK n : /\ n \notin DOMAIN q /\ Sendings(p) = Sendings(q) \cup {n}
               /\ \A j \in Sendings(q) : p[j] = q[j]
               /\ p[n].slot = i /\ p[n].who = ft[x]
  BY DEF HasOneMore
<1>1. 1 \in Announcements(d) /\ 1 \notin Sendings(d)
  BY DEF Announcements, Sendings
<1>2. \A j \in Sendings(d) : j - 1 \in Sendings(t) /\ t[j - 1] = d[j]
  BY <1>1 DEF Sendings, IsRest
<1>3. \A j \in Announcements(d) : j = 1 \/ (j - 1 \in Announcements(t) /\ t[j - 1] = d[j])
  BY DEF Announcements, IsRest
<1>4. /\ AllInSlots(q, f, c, t, sl, ft) /\ OneSendEach(q, f, c, t) /\ SlabFree(sl, fr)
      /\ AnnouncedOpen(c, sl, ft) /\ AnnouncedOpen(t, sl, ft)
      /\ AnnouncedOnce(c) /\ AnnouncedOnce(t) /\ AnnouncedApart(c, t)
  BY RestOfBook
<1>5. /\ SlabBook(q, f, c, d, sl) /\ FdBook(c, d, sl, ft) /\ SlabFree(sl1, fr1)
      /\ AnnouncedOnce(d) /\ AnnouncedApart(c, d)
  BY DEF Book, FdBook, Placed
<1>6. \A s : InSlot(s, sl, ft) => InSlot(s, sl1, ft) /\ s.slot # i
  BY DEF InSlot, Placed
<1>7. InSlot(p[n], sl1, ft)
  BY <1>0 DEF InSlot, Placed
<1>8. n \notin Sendings(q)
  BY <1>0 DEF Sendings
<1>9. AllInSlots(p, f, c, t, sl1, ft)
  BY <1>0, <1>4, <1>6, <1>7 DEF AllInSlots
<1>10. OneSendEach(p, f, c, t)
  <2>1. /\ \A j \in Sendings(q) : q[j].slot # i
        /\ \A s \in f : s.slot # i
        /\ \A j \in Sendings(c) : c[j].slot # i
        /\ \A j \in Sendings(t) : t[j].slot # i
    BY <1>4, <1>6 DEF AllInSlots
  <2>2. SlotsDiffer(p)
    BY <1>0, <1>4, <1>8, <2>1 DEF OneSendEach, SlotsDiffer
  <2>3. FlyingApart(f, p)
    BY <1>0, <1>4, <1>8, <2>1 DEF OneSendEach, FlyingApart
  <2>4. SlotsApart(p, c) /\ SlotsApart(p, t)
    BY <1>0, <1>4, <1>8, <2>1 DEF OneSendEach, SlotsApart
  <2> QED BY <1>4, <2>2, <2>3, <2>4 DEF OneSendEach
<1>11. SlabBook(p, f, c, t, sl1)
  <2> SUFFICES ASSUME NEW k \in DOMAIN sl1, sl1[k] # None PROVE Belongs(k, p, f, c, t)
    BY DEF SlabBook
  <2>1. CASE k = i
    BY <1>0, <2>1 DEF Belongs
  <2>2. CASE k # i
    <3>1. k \in DOMAIN sl /\ sl[k] # None
      BY <2>2 DEF Placed
    <3>2. Belongs(k, q, f, c, d)
      BY <1>5, <3>1 DEF SlabBook
    <3> QED BY <1>0, <1>2, <3>2 DEF Belongs
  <2> QED BY <2>1, <2>2
<1>12. FdBook(c, t, sl1, ft)
  <2>1. AnnouncedOpen(c, sl1, ft)
    BY <1>1, <1>4, <1>5 DEF AnnouncedOpen, AnnouncedApart, Placed
  <2>2. \A j \in Announcements(t) : t[j].fd # x
    <3> SUFFICES ASSUME NEW j \in Announcements(t), t[j].fd = x PROVE FALSE
      OBVIOUS
    <3>1. j + 1 \in Announcements(d) /\ d[j + 1].fd = x /\ j \in Nat /\ j # 0
      BY DEF Announcements, IsRest
    <3>2. j + 1 = 1
      BY <1>1, <1>5, <3>1 DEF AnnouncedOnce
    <3> QED BY <3>1, <3>2
  <2>3. AnnouncedOpen(t, sl1, ft)
    BY <1>4, <2>2 DEF AnnouncedOpen, Placed
  <2>4. \A y \in Fds : ft[y] # None =>
            \/ \E j \in Announcements(c) : c[j].fd = y
            \/ \E j \in Announcements(t) : t[j].fd = y
            \/ \E k \in DOMAIN sl1 : sl1[k] = y
    <3> SUFFICES ASSUME NEW y \in Fds, ft[y] # None
                 PROVE  \/ \E j \in Announcements(c) : c[j].fd = y
                        \/ \E j \in Announcements(t) : t[j].fd = y
                        \/ \E k \in DOMAIN sl1 : sl1[k] = y
      OBVIOUS
    <3>1. CASE \E j \in Announcements(d) : d[j].fd = y
      BY <1>3, <3>1 DEF Placed
    <3>2. CASE \E k \in DOMAIN sl : sl[k] = y
      BY <3>2 DEF Placed
    <3> QED BY <1>5, <3>1, <3>2 DEF FdBook
  <2> QED BY <1>4, <2>1, <2>3, <2>4 DEF FdBook
<1> QED BY <1>5, <1>9, <1>10, <1>11, <1>12 DEF Book

\* A send completed: its slot is emptied, and its descriptor closed.
LEMMA TakeBook ==
    ASSUME NEW q, NEW f, NEW c, NEW d, NEW t, IsRest(d, t), 1 \in DOMAIN d,
           NEW sl, NEW fr, NEW ft, Book(q, f, c, d, sl, fr, ft),
           d[1].op = "send", NEW i, i = d[1].slot,
           NEW sl1, NEW fr1, NEW ft1,
           DOMAIN sl1 = DOMAIN sl, sl1[i] = None, \A k \in DOMAIN sl : k # i => sl1[k] = sl[k],
           SlabFree(sl1, fr1),
           \A x \in Fds : ft1[x] = IF x = sl[i] THEN None ELSE ft[x],
           \A j \in Announcements(c) : c[j].fd \in Fds, \A j \in Announcements(d) : d[j].fd \in Fds
    PROVE  Book(q, f, c, t, sl1, fr1, ft1)
<1>1. 1 \in Sendings(d) /\ 1 \notin Announcements(d) /\ InSlot(d[1], sl, ft)
  BY DEF Announcements, Sendings, Book, AllInSlots
<1>2. \A j \in Sendings(d) : j = 1 \/ (j - 1 \in Sendings(t) /\ t[j - 1] = d[j])
  BY DEF Sendings, IsRest
<1>3. \A j \in Announcements(d) : j - 1 \in Announcements(t) /\ t[j - 1] = d[j]
  BY <1>1 DEF Announcements, IsRest
<1>4. /\ AllInSlots(q, f, c, t, sl, ft) /\ OneSendEach(q, f, c, t) /\ SlabFree(sl, fr)
      /\ AnnouncedOpen(c, sl, ft) /\ AnnouncedOpen(t, sl, ft)
      /\ AnnouncedOnce(c) /\ AnnouncedOnce(t) /\ AnnouncedApart(c, t)
  BY RestOfBook
<1>5. SlabBook(q, f, c, d, sl) /\ FdBook(c, d, sl, ft) /\ OneSendEach(q, f, c, d)
  BY DEF Book
<1>6. sl[i] \in Fds /\ sl[i] # None /\ i \in DOMAIN sl
  BY <1>1 DEF InSlot
<1>7. \A s : InSlot(s, sl, ft) /\ s.slot # i => InSlot(s, sl1, ft1)
  <2> SUFFICES ASSUME NEW s, InSlot(s, sl, ft), s.slot # i PROVE InSlot(s, sl1, ft1)
    OBVIOUS
  <2>1. sl[s.slot] \in Fds /\ sl[s.slot] # sl[i] /\ sl1[s.slot] = sl[s.slot]
    BY <1>4, <1>6 DEF InSlot, SlabFree
  <2> QED BY <2>1 DEF InSlot
<1>8. /\ \A j \in Sendings(q) : q[j].slot # i
      /\ \A s \in f : s.slot # i
      /\ \A j \in Sendings(c) : c[j].slot # i
      /\ \A j \in Sendings(t) : t[j].slot # i
  <2>1. \A j \in Sendings(q) : q[j].slot # i
    BY <1>1, <1>5 DEF OneSendEach, SlotsApart
  <2>2. \A s \in f : s.slot # i
    BY <1>1, <1>5 DEF OneSendEach, FlyingApart
  <2>3. \A j \in Sendings(c) : c[j].slot # i
    BY <1>1, <1>5 DEF OneSendEach, SlotsApart
  <2>4. \A j \in Sendings(t) : t[j].slot # i
    <3> SUFFICES ASSUME NEW j \in Sendings(t), t[j].slot = i PROVE FALSE
      OBVIOUS
    <3>1. j + 1 \in Sendings(d) /\ d[j + 1].slot = i /\ j \in Nat /\ j # 0
      BY DEF Sendings, IsRest
    <3>2. j + 1 = 1
      BY <1>1, <1>5, <3>1 DEF OneSendEach, SlotsDiffer
    <3> QED BY <3>1, <3>2
  <2> QED BY <2>1, <2>2, <2>3, <2>4
<1>9. AllInSlots(q, f, c, t, sl1, ft1)
  BY <1>4, <1>7, <1>8 DEF AllInSlots
<1>10. SlabBook(q, f, c, t, sl1)
  <2> SUFFICES ASSUME NEW k \in DOMAIN sl1, sl1[k] # None PROVE Belongs(k, q, f, c, t)
    BY DEF SlabBook
  <2>1. k # i /\ k \in DOMAIN sl /\ sl[k] # None
    OBVIOUS
  <2>2. Belongs(k, q, f, c, d)
    BY <1>5, <2>1 DEF SlabBook
  <2> QED BY <1>2, <2>1, <2>2 DEF Belongs
<1>11. FdBook(c, t, sl1, ft1)
  <2>1. \A k \in DOMAIN sl1 : sl1[k] = sl[k] \/ sl1[k] = None
    OBVIOUS
  <2>2. \A j \in Announcements(t) : t[j].fd \in Fds /\ t[j].fd # None
    BY DEF Announcements, IsRest
  <2>3. AnnouncedOpen(t, sl1, ft1)
    BY <1>4, <1>6, <2>1, <2>2 DEF AnnouncedOpen
  <2>4. AnnouncedOpen(c, sl1, ft1)
    BY <1>4, <1>6, <2>1 DEF AnnouncedOpen, Announcements
  <2>5. \A y \in Fds : ft1[y] # None =>
            \/ \E j \in Announcements(c) : c[j].fd = y
            \/ \E j \in Announcements(t) : t[j].fd = y
            \/ \E k \in DOMAIN sl1 : sl1[k] = y
    <3> SUFFICES ASSUME NEW y \in Fds, ft1[y] # None
                 PROVE  \/ \E j \in Announcements(c) : c[j].fd = y
                        \/ \E j \in Announcements(t) : t[j].fd = y
                        \/ \E k \in DOMAIN sl1 : sl1[k] = y
      OBVIOUS
    <3>1. ft[y] # None /\ y # sl[i]
      OBVIOUS
    <3>2. CASE \E j \in Announcements(d) : d[j].fd = y
      BY <1>3, <3>2
    <3>3. CASE \E k \in DOMAIN sl : sl[k] = y
      BY <3>1, <3>3
    <3> QED BY <1>5, <3>1, <3>2, <3>3 DEF FdBook
  <2> QED BY <1>4, <2>3, <2>4, <2>5 DEF FdBook
<1> QED BY <1>4, <1>9, <1>10, <1>11 DEF Book

LEMMA TakeMeans ==
    ASSUME slots \in Seq(Fds \cup {None}), free \in Seq(Nat \ {0}), SlabFree(slots, free),
           NEW i \in DOMAIN slots, slots[i] # None, Take(i)
    PROVE  /\ DOMAIN slots' = DOMAIN slots /\ slots'[i] = None
           /\ \A k \in DOMAIN slots : k # i => slots'[k] = slots[k]
           /\ SlabFree(slots', free')
           /\ slots' \in Seq(Fds \cup {None}) /\ free' \in Seq(Nat \ {0})
<1>1. DOMAIN slots = 1..Len(slots) /\ Len(slots) \in Nat /\ DOMAIN free = 1..Len(free) /\ Len(free) \in Nat
  OBVIOUS
<1>2. /\ slots' \in Seq(Fds \cup {None}) /\ DOMAIN slots' = DOMAIN slots
      /\ slots'[i] = None /\ \A k \in DOMAIN slots : k # i => slots'[k] = slots[k]
  BY DEF Take
<1>3. i \in Nat \ {0}
  BY <1>1
<1>4. /\ free' \in Seq(Nat \ {0}) /\ DOMAIN free' = 1..(Len(free) + 1)
      /\ free'[Len(free) + 1] = i /\ \A j \in 1..Len(free) : free'[j] = free[j]
  BY <1>1, <1>3 DEF Take
<1>5. DOMAIN free' = DOMAIN free \cup {Len(free) + 1} /\ Len(free) + 1 \notin DOMAIN free
  BY <1>1, <1>4
<1>6. \A j \in DOMAIN free : free[j] # i
  BY DEF SlabFree
<1>7. SlabFree(slots', free')
  <2>1. \A j, k \in DOMAIN slots' : slots'[j] = slots'[k] /\ slots'[j] # None => j = k
    <3> SUFFICES ASSUME NEW j \in DOMAIN slots', NEW k \in DOMAIN slots',
                        slots'[j] = slots'[k], slots'[j] # None
                 PROVE  j = k
      OBVIOUS
    <3>1. j # i /\ k # i /\ slots[j] = slots[k] /\ slots[j] # None
      BY <1>2
    <3> QED BY <1>2, <3>1 DEF SlabFree
  <2>2. \A j \in DOMAIN free' : free'[j] \in DOMAIN slots' /\ slots'[free'[j]] = None
    <3> SUFFICES ASSUME NEW j \in DOMAIN free'
                 PROVE  free'[j] \in DOMAIN slots' /\ slots'[free'[j]] = None
      OBVIOUS
    <3>1. CASE j = Len(free) + 1
      BY <1>2, <1>4, <3>1
    <3>2. CASE j \in DOMAIN free
      <4>1. free'[j] = free[j] /\ free[j] \in DOMAIN slots /\ slots[free[j]] = None
        BY <1>1, <1>4, <3>2 DEF SlabFree
      <4> QED BY <1>2, <1>6, <3>2, <4>1
    <3> QED BY <1>5, <3>1, <3>2
  <2>3. \A j, k \in DOMAIN free' : free'[j] = free'[k] => j = k
    BY <1>1, <1>4, <1>5, <1>6 DEF SlabFree
  <2>4. \A j \in DOMAIN slots' : slots'[j] = None => \E k \in DOMAIN free' : free'[k] = j
    <3> SUFFICES ASSUME NEW j \in DOMAIN slots', slots'[j] = None
                 PROVE  \E k \in DOMAIN free' : free'[k] = j
      OBVIOUS
    <3>1. CASE j = i
      BY <1>4, <1>5, <3>1
    <3>2. CASE j # i
      <4>1. PICK k \in DOMAIN free : free[k] = j
        BY <1>2, <3>2 DEF SlabFree
      <4> QED BY <1>1, <1>4, <1>5, <4>1
    <3> QED BY <3>1, <3>2
  <2> QED BY <2>1, <2>2, <2>3, <2>4 DEF SlabFree
<1> QED BY <1>2, <1>4, <1>7

\* c1 is c with one more element, at n.
IsMore(c, n, c1) ==
    /\ DOMAIN c1 = DOMAIN c \cup {n} /\ n \notin DOMAIN c
    /\ \A j \in DOMAIN c : c1[j] = c[j]

LEMMA AppendMeans ==
    ASSUME NEW S, NEW c \in Seq(S), NEW e \in S
    PROVE  /\ Append(c, e) \in Seq(S) /\ IsMore(c, Len(c) + 1, Append(c, e))
           /\ Append(c, e)[Len(c) + 1] = e
    BY DEF IsMore

\* All completions that were posted are taken at once.
LEMMA ReapBook ==
    ASSUME NEW q, NEW f, NEW c, NEW sl, NEW fr, NEW ft, Book(q, f, c, <<>>, sl, fr, ft)
    PROVE  Book(q, f, <<>>, c, sl, fr, ft)
<1>1. Sendings(<<>>) = {} /\ Announcements(<<>>) = {}
  BY DEF Sendings, Announcements
<1>2. AllInSlots(q, f, <<>>, c, sl, ft)
  BY <1>1 DEF Book, AllInSlots
<1>3. OneSendEach(q, f, <<>>, c)
  BY <1>1 DEF Book, OneSendEach, SlotsDiffer, SlotsApart, FlyingApart
<1>4. SlabBook(q, f, <<>>, c, sl)
  BY <1>1 DEF Book, SlabBook, Belongs
<1>5. FdBook(<<>>, c, sl, ft)
  BY <1>1 DEF Book, FdBook, AnnouncedOpen, AnnouncedOnce, AnnouncedApart
<1> QED BY <1>2, <1>3, <1>4, <1>5 DEF Book

\* The kernel accepts a client under the free number x.
LEMMA AcceptedBook ==
    ASSUME NEW q, NEW f, NEW c, NEW d, NEW sl, NEW fr, NEW ft, Book(q, f, c, d, sl, fr, ft),
           NEW n, NEW c1, IsMore(c, n, c1), NEW x \in Fds, ft[x] = None,
           c1[n].op = "accept", c1[n].fd = x,
           NEW ft1, ft1[x] # None, \A y \in Fds : y # x => ft1[y] = ft[y],
           \A j \in Announcements(c) : c[j].fd \in Fds, \A j \in Announcements(d) : d[j].fd \in Fds
    PROVE  Book(q, f, c1, d, sl, fr, ft1)
<1>1. Sendings(c1) = Sendings(c) /\ \A j \in Sendings(c) : c1[j] = c[j]
  BY DEF Sendings, IsMore
<1>2. Announcements(c1) = Announcements(c) \cup {n} /\ \A j \in Announcements(c) : c1[j] = c[j]
  BY DEF Announcements, IsMore
<1>3. \A s : InSlot(s, sl, ft) => InSlot(s, sl, ft1)
  BY DEF InSlot
<1>4. FdBook(c, d, sl, ft) /\ SlabBook(q, f, c, d, sl) /\ AllInSlots(q, f, c, d, sl, ft)
  BY DEF Book
<1>5. \A k \in DOMAIN sl : sl[k] # x
  <2> SUFFICES ASSUME NEW k \in DOMAIN sl, sl[k] = x PROVE FALSE
    OBVIOUS
  <2>1. Belongs(k, q, f, c, d)
    BY <1>4 DEF SlabBook
  <2> QED BY <1>4, <2>1 DEF Belongs, AllInSlots, InSlot
<1>6. AllInSlots(q, f, c1, d, sl, ft1)
  BY <1>1, <1>3, <1>4 DEF AllInSlots
<1>7. OneSendEach(q, f, c1, d)
  BY <1>1 DEF Book, OneSendEach, SlotsDiffer, SlotsApart, FlyingApart
<1>8. SlabBook(q, f, c1, d, sl)
  BY <1>1, <1>4 DEF SlabBook, Belongs
<1>9. FdBook(c1, d, sl, ft1)
  <2>1. /\ AnnouncedOpen(c, sl, ft) /\ AnnouncedOpen(d, sl, ft)
        /\ AnnouncedOnce(c) /\ AnnouncedOnce(d) /\ AnnouncedApart(c, d)
    BY <1>4 DEF FdBook
  <2>2. \A j \in Announcements(c) : c[j].fd \in Fds /\ c[j].fd # x
    BY <2>1 DEF AnnouncedOpen
  <2>3. \A j \in Announcements(d) : d[j].fd \in Fds /\ d[j].fd # x
    BY <2>1 DEF AnnouncedOpen
  <2>4. AnnouncedOpen(c1, sl, ft1) /\ AnnouncedOpen(d, sl, ft1)
    BY <1>2, <1>5, <2>1, <2>2, <2>3 DEF AnnouncedOpen
  <2>5. AnnouncedOnce(c1) /\ AnnouncedApart(c1, d)
    BY <1>2, <2>1, <2>2, <2>3 DEF AnnouncedOnce, AnnouncedApart
  <2>6. \A y \in Fds : ft1[y] # None =>
            \/ \E j \in Announcements(c1) : c1[j].fd = y
            \/ \E j \in Announcements(d) : d[j].fd = y
            \/ \E k \in DOMAIN sl : sl[k] = y
    BY <1>2, <1>4 DEF FdBook
  <2> QED BY <2>1, <2>4, <2>5, <2>6 DEF FdBook
<1> QED BY <1>6, <1>7, <1>8, <1>9 DEF Book

\* An accept failed.
LEMMA FailedBook ==
    ASSUME NEW q, NEW f, NEW c, NEW d, NEW sl, NEW fr, NEW ft, Book(q, f, c, d, sl, fr, ft),
           NEW n, NEW c1, IsMore(c, n, c1), c1[n].op = "accept", c1[n].fd = None
    PROVE  Book(q, f, c1, d, sl, fr, ft)
<1>1. Sendings(c1) = Sendings(c) /\ \A j \in Sendings(c) : c1[j] = c[j]
  BY DEF Sendings, IsMore
<1>2. Announcements(c1) = Announcements(c) /\ \A j \in Announcements(c) : c1[j] = c[j]
  BY DEF Announcements, IsMore
<1>3. AllInSlots(q, f, c1, d, sl, ft)
  BY <1>1 DEF Book, AllInSlots
<1>4. OneSendEach(q, f, c1, d)
  BY <1>1 DEF Book, OneSendEach, SlotsDiffer, SlotsApart, FlyingApart
<1>5. SlabBook(q, f, c1, d, sl)
  BY <1>1 DEF Book, SlabBook, Belongs
<1>6. FdBook(c1, d, sl, ft)
  BY <1>2 DEF Book, FdBook, AnnouncedOpen, AnnouncedOnce, AnnouncedApart
<1> QED BY <1>3, <1>4, <1>5, <1>6 DEF Book

\* A send is carried out.
LEMMA SentBook ==
    ASSUME NEW q, NEW f, NEW c, NEW d, NEW sl, NEW fr, NEW ft, Book(q, f, c, d, sl, fr, ft),
           NEW s \in f, NEW n, NEW c1, IsMore(c, n, c1),
           c1[n].op = "send", c1[n].slot = s.slot, c1[n].who = s.who
    PROVE  Book(q, f \ {s}, c1, d, sl, fr, ft)
<1>1. Sendings(c1) = Sendings(c) \cup {n} /\ \A j \in Sendings(c) : c1[j] = c[j]
  BY DEF Sendings, IsMore
<1>2. Announcements(c1) = Announcements(c) /\ \A j \in Announcements(c) : c1[j] = c[j]
  BY DEF Announcements, IsMore
<1>3. AllInSlots(q, f \ {s}, c1, d, sl, ft)
  BY <1>1 DEF Book, AllInSlots, InSlot
<1>4. OneSendEach(q, f \ {s}, c1, d)
  <2>1. \A t \in f \ {s} : t.slot # s.slot
    BY DEF Book, OneSendEach, FlyingDiffer
  <2>2. SlotsDiffer(c1)
    BY <1>1 DEF Book, OneSendEach, SlotsDiffer, FlyingApart
  <2>3. FlyingApart(f \ {s}, c1)
    BY <1>1, <2>1 DEF Book, OneSendEach, FlyingApart
  <2>4. SlotsApart(q, c1) /\ SlotsApart(c1, d)
    BY <1>1 DEF Book, OneSendEach, SlotsApart, FlyingApart
  <2> QED BY <2>2, <2>3, <2>4 DEF Book, OneSendEach, FlyingDiffer, FlyingApart
<1>5. SlabBook(q, f \ {s}, c1, d, sl)
  BY <1>1 DEF Book, SlabBook, Belongs
<1>6. FdBook(c1, d, sl, ft)
  BY <1>2 DEF Book, FdBook, AnnouncedOpen, AnnouncedOnce, AnnouncedApart
<1> QED BY <1>3, <1>4, <1>5, <1>6 DEF Book

---------------------------------------------------------------------------
(* The steps.                                                              *)

IInv == TypeOK /\ BookKept

LEMMA Widths == /\ Sends \subseteq SqesOf /\ Accept \in SqesOf /\ Accept \notin Sends
                /\ None \notin Fds /\ None \notin Clients
<1>1. Accept \notin Sends
  BY DEF Accept, Sends
<1>2. None \notin Fds /\ None \notin Clients
  OBVIOUS
<1> QED BY <1>1, <1>2 DEF SqesOf

\* The completion being handled, and those behind it.
LEMMA AtHand ==
    ASSUME TypeOK, done # <<>>
    PROVE  /\ 1 \in DOMAIN done /\ E = done[1] /\ E \in Completions
           /\ Tail(done) \in Seq(Completions) /\ IsRest(done, Tail(done))
<1>1. done \in Seq(Completions)
  BY DEF TypeOK
<1>2. E = done[1] /\ E \in Completions
  BY <1>1 DEF E
<1> QED BY <1>1, <1>2, TailMeans DEF IsRest

LEMMA AnnouncedFds ==
    ASSUME TypeOK
    PROVE  /\ \A j \in Announcements(cq) : cq[j].fd \in Fds
           /\ \A j \in Announcements(done) : done[j].fd \in Fds
<1>1. cq \in Seq(Completions) /\ done \in Seq(Completions)
  BY DEF TypeOK
<1>2. \A e \in Completions : e.op = "accept" => e.fd \in Fds \cup {None}
  BY DEF Completions
<1>3. \A j \in DOMAIN cq : cq[j] \in Completions
  BY <1>1
<1>4. \A j \in DOMAIN done : done[j] \in Completions
  BY <1>1
<1> QED BY <1>2, <1>3, <1>4 DEF Announcements

\* A push, when the book is right for all the requests.
LEMMA PushBook ==
    ASSUME TypeOK, NEW es \in Seq(SqesOf), Push(es), NEW d, NEW sl, NEW fr,
           Book(sq \o es, flying, cq, d, sl, fr, fdt)
    PROVE  /\ Book(sq', flying', cq, d, sl, fr, fdt)
           /\ sq' \in Seq(SqesOf) /\ Len(sq') <= SqCap
           /\ flying' \subseteq Sends /\ accepting' \in BOOLEAN
<1>1. sq \in Seq(SqesOf) /\ accepting \in BOOLEAN /\ flying \in SUBSET Sends
  BY DEF TypeOK, SqesOf
<1>2. sq \o es \in Seq(SqesOf)
  BY <1>1
<1>3. /\ \E n \in Nat : Submitted(sq \o es, n, sq', flying, flying')
      /\ Len(sq') <= SqCap /\ accepting' \in BOOLEAN
  BY <1>1, PushMeans
<1>4. PICK n \in Nat : Submitted(sq \o es, n, sq', flying, flying')
  BY <1>3
<1>5. flying' \in SUBSET Sends /\ Book(sq', flying', cq, d, sl, fr, fdt)
  BY <1>1, <1>2, <1>4, SubmittedBook
<1>6. sq' \in Seq(SqesOf)
  BY <1>4 DEF Submitted
<1> QED BY <1>3, <1>5, <1>6

\* A send and possibly an accept behind the requests of q.
LEMMA SendBehind ==
    ASSUME NEW q \in Seq(SqesOf), NEW s \in Sends, NEW r \in {<<>>, <<Accept>>}
    PROVE  /\ <<s>> \o r \in Seq(SqesOf)
           /\ HoldsOneMore(q, q \o (<<s>> \o r), s)
<1>1. s \in SqesOf /\ Accept \in SqesOf /\ s.op = "send" /\ Accept.op # "send"
  BY DEF SqesOf, Sends, Accept
<1>2. Len(q) \in Nat /\ DOMAIN q = 1..Len(q)
  OBVIOUS
<1> DEFINE u == <<s>>
           t == u \o r
           p == q \o t
<1>3. /\ r \in Seq(SqesOf) /\ Len(r) \in {0, 1} /\ (Len(r) = 1 => r[1] = Accept)
      /\ u \in Seq(SqesOf) /\ Len(u) = 1 /\ u[1] = s
  <2>1. u \in Seq(SqesOf) /\ Len(u) = 1 /\ u[1] = s
    BY <1>1
  <2>2. CASE r = <<>>
    BY <2>1, <2>2
  <2>3. CASE r = <<Accept>>
    BY <1>1, <2>1, <2>3
  <2> QED BY <2>2, <2>3
<1> HIDE DEF u
<1>4. /\ t \in Seq(SqesOf) /\ Len(t) = 1 + Len(r)
      /\ \A i \in 1..(1 + Len(r)) : t[i] = IF i <= 1 THEN u[i] ELSE r[i - 1]
  BY <1>3, ConcatProperties DEF u
<1>5. Len(t) \in {1, 2} /\ t[1] = s /\ (Len(t) = 2 => t[2] = Accept)
  BY <1>3, <1>4 DEF u
<1> HIDE DEF t
<1>6. /\ p \in Seq(SqesOf) /\ Len(p) = Len(q) + Len(t)
      /\ \A i \in 1..(Len(q) + Len(t)) : p[i] = IF i <= Len(q) THEN q[i] ELSE t[i - Len(q)]
  BY <1>4, ConcatProperties
<1> HIDE DEF p
<1>7. DOMAIN p = 1..(Len(q) + Len(t)) /\ p[Len(q) + 1] = s
  BY <1>2, <1>5, <1>6
<1>8. \A j \in 1..Len(q) : p[j] = q[j]
  BY <1>2, <1>5, <1>6
<1>9. Len(t) = 2 => p[Len(q) + 2] = Accept
  BY <1>2, <1>5, <1>6
<1>10. Sendings(p) = Sendings(q) \cup {Len(q) + 1} /\ \A j \in Sendings(q) : p[j] = q[j]
  <2>1. CASE Len(t) = 1
    <3>1. DOMAIN p = DOMAIN q \cup {Len(q) + 1}
      BY <1>2, <1>7, <2>1
    <3> QED BY <1>1, <1>2, <1>7, <1>8, <3>1 DEF Sendings
  <2>2. CASE Len(t) = 2
    <3>1. DOMAIN p = DOMAIN q \cup {Len(q) + 1, Len(q) + 2}
      BY <1>2, <1>7, <2>2
    <3> QED BY <1>1, <1>2, <1>7, <1>8, <1>9, <2>2, <3>1 DEF Sendings
  <2> QED BY <1>5, <2>1, <2>2
<1>11. Len(q) + 1 \notin DOMAIN q
  BY <1>2
<1>12. HoldsOneMore(q, p, s)
  BY <1>7, <1>10, <1>11 DEF HoldsOneMore
<1> QED BY <1>4, <1>12 DEF p, t, u

LEMMA RearmIs == Rearm \in {<<>>, <<Accept>>}
    BY DEF Rearm

LEMMA ModBound ==
    ASSUME NEW a \in Nat, NEW b \in Nat \ {0}
    PROVE  a % b \in 0..(b - 1)
    OBVIOUS

LEMMA AcceptKeeps ==
    ASSUME IInv, OnAccept
    PROVE  IInv'
<1> DEFINE x == E.fd
           s == Send(Pick, Slot, fdt[x])
<1>1. /\ 1 \in DOMAIN done /\ E = done[1] /\ E \in Completions
      /\ Tail(done) \in Seq(Completions) /\ IsRest(done, Tail(done))
  BY AtHand DEF IInv, OnAccept
<1>2. E.op = "accept" /\ x \in Fds
  BY <1>1 DEF OnAccept, Completions
<1>3. 1 \in Announcements(done)
  BY <1>1, <1>2 DEF Announcements, OnAccept
<1>4. fdt[x] # None /\ fdt[x] \in Clients /\ \A k \in DOMAIN slots : slots[k] # x
  <2>1. AnnouncedOpen(done, slots, fdt)
    BY DEF IInv, BookKept, Book, FdBook
  <2>2. fdt[x] # None /\ \A k \in DOMAIN slots : slots[k] # x
    BY <1>1, <1>3, <2>1 DEF AnnouncedOpen
  <2>3. fdt \in [Fds -> Clients \cup {None}]
    BY DEF IInv, TypeOK
  <2> QED BY <1>2, <2>2, <2>3
<1>5. /\ Placed(Slot, x, slots, free, slots', free') /\ Slot \in Nat \ {0}
      /\ slots' \in Seq(Fds \cup {None}) /\ free' \in Seq(Nat \ {0})
  <2>1. /\ slots \in Seq(Fds \cup {None}) /\ free \in Seq(Nat \ {0})
        /\ SlabFree(slots, free) /\ Alloc(x)
    BY DEF IInv, TypeOK, BookKept, Book, OnAccept
  <2> QED BY <1>2, <1>4, <2>1, AllocMeans
<1>6. s \in Sends /\ s.slot = Slot /\ s.who = fdt[x]
  <2>1. rr \in Nat /\ N \in Nat \ {0}
    BY DEF IInv, TypeOK
  <2>2. Pick \in Workers
    BY <2>1, ModBound DEF Pick, Workers
  <2> QED BY <1>4, <1>5, <2>2 DEF Send, Sends
<1> DEFINE es == <<s>> \o Rearm
           q == sq \o es
<1>7. sq \in Seq(SqesOf)
  BY DEF IInv, TypeOK, SqesOf
<1>8. Push(es)
  BY DEF OnAccept
<1> HIDE DEF s
<1>9. es \in Seq(SqesOf) /\ HasOneMore(sq, q, Slot, fdt[x])
  <2>1. es \in Seq(SqesOf) /\ HoldsOneMore(sq, q, s)
    BY <1>6, <1>7, RearmIs, SendBehind
  <2> QED BY <1>6, <2>1 DEF HoldsOneMore, HasOneMore
<1> HIDE DEF es
<1>10. Book(q, flying, cq, Tail(done), slots', free', fdt)
  <2> DEFINE t == Tail(done)
             i == Slot
  <2>1. Book(sq, flying, cq, done, slots, free, fdt)
    BY DEF IInv, BookKept
  <2>2. done[1].op = "accept" /\ done[1].fd = x /\ IsRest(done, t) /\ 1 \in DOMAIN done
    BY <1>1, <1>2
  <2>3. HasOneMore(sq, q, i, fdt[x]) /\ x \in Fds /\ fdt[x] # None
    BY <1>2, <1>4, <1>9
  <2>4. Placed(i, x, slots, free, slots', free')
    BY <1>5
  <2> HIDE DEF x, q, t, i
  <2>5. Book(q, flying, cq, t, slots', free', fdt)
    BY <2>1, <2>2, <2>3, <2>4, AssignBook
  <2> QED BY <2>5 DEF t
<1>11. /\ Book(sq', flying', cq, Tail(done), slots', free', fdt)
       /\ sq' \in Seq(SqesOf) /\ Len(sq') <= SqCap
       /\ flying' \subseteq Sends /\ accepting' \in BOOLEAN
  BY <1>8, <1>9, <1>10, PushBook DEF IInv
<1>12. /\ done' = Tail(done) /\ cq' = cq /\ fdt' = fdt /\ pc' = "dispatch" /\ pc = "dispatch"
       /\ rr' = rr + 1 /\ order' = Append(order, fdt[x])
       /\ UNCHANGED <<backlog, queue, up, arrived, given>>
  BY DEF OnAccept
<1>13. BookKept'
  BY <1>11, <1>12 DEF BookKept
<1>14. TypeOK'
  <2>1. order' \in Seq(Clients)
    BY <1>4, <1>12 DEF IInv, TypeOK
  <2>2. sq' \in Seq({Accept} \cup Sends)
    BY <1>11 DEF SqesOf
  <2> QED BY <1>1, <1>5, <1>11, <1>12, <2>1, <2>2 DEF IInv, TypeOK
<1> QED BY <1>13, <1>14 DEF IInv

LEMMA AcceptEndKeeps ==
    ASSUME IInv, OnAcceptEnd
    PROVE  IInv'
<1>1. /\ E = done[1] /\ Tail(done) \in Seq(Completions) /\ Head(done) = E
  BY AtHand DEF IInv, OnAcceptEnd, E
<1>2. sq \in Seq(SqesOf) /\ done \in Seq(Completions) /\ done # <<>>
  BY DEF IInv, TypeOK, SqesOf, OnAcceptEnd
<1>3. Rearm \in Seq(SqesOf) /\ Push(Rearm)
  <2>1. <<>> \in Seq(SqesOf) /\ <<Accept>> \in Seq(SqesOf)
    BY DEF SqesOf
  <2> QED BY <2>1, RearmIs DEF OnAcceptEnd
<1>4. Book(sq \o Rearm, flying, cq, Tail(done), slots, free, fdt)
  <2>1. Book(sq, flying, cq, done, slots, free, fdt)
    BY DEF IInv, BookKept
  <2>2. Head(done).op = "accept" /\ Head(done).fd = None
    BY <1>1 DEF OnAcceptEnd
  <2> QED BY <1>2, <2>1, <2>2, RearmIs, SkipBook
<1>5. /\ Book(sq', flying', cq, Tail(done), slots, free, fdt)
      /\ sq' \in Seq(SqesOf) /\ Len(sq') <= SqCap
      /\ flying' \subseteq Sends /\ accepting' \in BOOLEAN
  BY <1>3, <1>4, PushBook DEF IInv
<1>6. /\ done' = Tail(done) /\ pc = "dispatch"
      /\ UNCHANGED <<pc, slots, free, rr, fdt, cq, backlog, queue, up, arrived, order, given>>
  BY DEF OnAcceptEnd
<1>7. BookKept'
  BY <1>5, <1>6 DEF BookKept
<1>8. TypeOK'
  <2>1. sq' \in Seq({Accept} \cup Sends)
    BY <1>5 DEF SqesOf
  <2> QED BY <1>1, <1>5, <1>6, <2>1 DEF IInv, TypeOK
<1> QED BY <1>7, <1>8 DEF IInv

LEMMA SubmitKeeps ==
    ASSUME IInv, SubmitAndWait
    PROVE  IInv'
<1>1. sq \in Seq(SqesOf) /\ Len(sq) \in Nat /\ DOMAIN sq = 1..Len(sq) /\ flying \in SUBSET Sends
  BY DEF IInv, TypeOK, SqesOf
<1>2. flying' = flying \cup ({sq[i] : i \in 1..Len(sq)} \ {Accept}) /\ sq' = <<>>
  BY <1>1 DEF SubmitAndWait, Submit, Elements
<1>3. Submitted(sq, Len(sq), sq', flying, flying')
  BY <1>1, <1>2 DEF Submitted
<1>4. flying' \in SUBSET Sends /\ Book(sq', flying', cq, done, slots, free, fdt)
  BY <1>1, <1>3, SubmittedBook DEF IInv, BookKept
<1>5. /\ pc' = "wait" /\ done = <<>>
      /\ UNCHANGED <<done, slots, free, rr, fdt, cq, backlog, queue, up, arrived, order, given>>
  BY DEF SubmitAndWait
<1>6. accepting' \in BOOLEAN
  BY DEF SubmitAndWait, Submit, IInv, TypeOK
<1>7. BookKept'
  BY <1>4, <1>5 DEF BookKept
<1>8. TypeOK'
  <2>1. sq' \in Seq({Accept} \cup Sends) /\ Len(sq') <= SqCap
    BY <1>2
  <2> QED BY <1>4, <1>5, <1>6, <2>1 DEF IInv, TypeOK
<1> QED BY <1>7, <1>8 DEF IInv

LEMMA ReapKeeps ==
    ASSUME IInv, Reap
    PROVE  IInv'
<1>1. /\ done = <<>> /\ done' = cq /\ cq' = <<>> /\ pc' = "dispatch"
      /\ UNCHANGED <<sq, slots, free, rr, fdt, accepting, flying, backlog, queue, up,
                     arrived, order, given>>
  BY DEF IInv, TypeOK, Reap
<1>2. Book(sq, flying, <<>>, cq, slots, free, fdt)
  BY <1>1, ReapBook DEF IInv, BookKept
<1>3. BookKept'
  BY <1>1, <1>2 DEF BookKept
<1>4. TypeOK'
  <2>1. cq' \in Seq(Completions) /\ done' \in Seq(Completions)
    BY <1>1 DEF IInv, TypeOK
  <2> QED BY <1>1, <2>1 DEF IInv, TypeOK
<1> QED BY <1>3, <1>4 DEF IInv

LEMMA SendKeeps ==
    ASSUME IInv, OnSend
    PROVE  IInv'
<1> DEFINE i == E.slot
<1>1. /\ 1 \in DOMAIN done /\ E = done[1]
      /\ Tail(done) \in Seq(Completions) /\ IsRest(done, Tail(done))
  BY AtHand DEF IInv, OnSend
<1>2. Book(sq, flying, cq, done, slots, free, fdt)
  BY DEF IInv, BookKept
<1>3. InSlot(E, slots, fdt)
  BY <1>1, <1>2 DEF OnSend, Book, AllInSlots, Sendings
<1>4. i \in DOMAIN slots /\ slots[i] \in Fds /\ slots[i] # None
  BY <1>3 DEF InSlot
<1>5. Take(i) /\ fdt' = [fdt EXCEPT ![slots[i]] = None]
  BY <1>4 DEF OnSend
<1>6. /\ DOMAIN slots' = DOMAIN slots /\ slots'[i] = None
      /\ \A k \in DOMAIN slots : k # i => slots'[k] = slots[k]
      /\ SlabFree(slots', free')
      /\ slots' \in Seq(Fds \cup {None}) /\ free' \in Seq(Nat \ {0})
  <2>1. /\ slots \in Seq(Fds \cup {None}) /\ free \in Seq(Nat \ {0})
        /\ SlabFree(slots, free)
    BY <1>2 DEF IInv, TypeOK, Book
  <2> HIDE DEF i
  <2> QED BY <1>4, <1>5, <2>1, TakeMeans
<1>7. /\ fdt' \in [Fds -> Clients \cup {None}]
      /\ \A x \in Fds : fdt'[x] = IF x = slots[i] THEN None ELSE fdt[x]
  <2>1. fdt \in [Fds -> Clients \cup {None}]
    BY DEF IInv, TypeOK
  <2> QED BY <1>5, <2>1
<1>8. Book(sq, flying, cq, Tail(done), slots', free', fdt')
  <2> DEFINE t == Tail(done)
  <2>1. IsRest(done, t) /\ 1 \in DOMAIN done /\ done[1].op = "send" /\ i = done[1].slot
    BY <1>1 DEF OnSend
  <2>2. /\ \A j \in Announcements(cq) : cq[j].fd \in Fds
        /\ \A j \in Announcements(done) : done[j].fd \in Fds
    BY AnnouncedFds DEF IInv
  <2> HIDE DEF t, i
  <2>3. Book(sq, flying, cq, t, slots', free', fdt')
    BY <1>2, <1>6, <1>7, <2>1, <2>2, TakeBook
  <2> QED BY <2>3 DEF t
<1>9. /\ done' = Tail(done) /\ pc = "dispatch"
      /\ UNCHANGED <<pc, sq, rr, accepting, flying, cq, backlog, queue, up, arrived, order, given>>
  BY DEF OnSend
<1>10. BookKept'
  BY <1>8, <1>9 DEF BookKept
<1>11. TypeOK'
  BY <1>1, <1>6, <1>7, <1>9 DEF IInv, TypeOK
<1> QED BY <1>10, <1>11 DEF IInv

---------------------------------------------------------------------------
(* The kernel's steps.                                                     *)

LEMMA LowestIsFree ==
    ASSUME FreeFds # {}
    PROVE  LowestFd \in Fds /\ fdt[LowestFd] = None
<1>1. FreeFds \in SUBSET Nat
  BY DEF FreeFds, Fds
<1>2. \E f \in FreeFds : \A g \in FreeFds : f <= g
  BY <1>1, SmallestNat
<1>3. LowestFd \in FreeFds
  BY <1>2 DEF LowestFd
<1> QED BY <1>3 DEF FreeFds

LEMMA KernelAcceptKeeps ==
    ASSUME IInv, NEW more \in BOOLEAN, KernelAccept(more)
    PROVE  IInv'
<1> DEFINE x == LowestFd
           e == Accepted(x, more)
           n == Len(cq) + 1
<1>1. x \in Fds /\ fdt[x] = None
  BY LowestIsFree DEF KernelAccept
<1> HIDE DEF x
<1>2. backlog \in Seq(Clients) /\ backlog # <<>> /\ Head(backlog) \in Clients /\ Tail(backlog) \in Seq(Clients)
  BY DEF IInv, TypeOK, KernelAccept
<1>3. fdt' = [fdt EXCEPT ![x] = Head(backlog)] /\ cq' = Append(cq, e)
  BY DEF KernelAccept, x
<1>4. /\ fdt' \in [Fds -> Clients \cup {None}] /\ fdt'[x] # None
      /\ \A y \in Fds : y # x => fdt'[y] = fdt[y]
  <2>1. fdt \in [Fds -> Clients \cup {None}]
    BY DEF IInv, TypeOK
  <2> QED BY <1>1, <1>2, <1>3, <2>1
<1>5. e \in Completions /\ e.op = "accept" /\ e.fd = x
  BY <1>1 DEF Accepted, Completions
<1> HIDE DEF e
<1>6. cq' \in Seq(Completions) /\ IsMore(cq, n, cq') /\ cq'[n] = e
  <2>1. cq \in Seq(Completions)
    BY DEF IInv, TypeOK
  <2> QED BY <1>3, <1>5, <2>1, AppendMeans
<1>7. Book(sq, flying, cq', done, slots, free, fdt')
  <2>1. Book(sq, flying, cq, done, slots, free, fdt)
    BY DEF IInv, BookKept
  <2>2. /\ \A j \in Announcements(cq) : cq[j].fd \in Fds
        /\ \A j \in Announcements(done) : done[j].fd \in Fds
    BY AnnouncedFds DEF IInv
  <2>3. cq'[n].op = "accept" /\ cq'[n].fd = x
    BY <1>5, <1>6
  <2> HIDE DEF n
  <2> QED BY <1>1, <1>4, <1>6, <2>1, <2>2, <2>3, AcceptedBook
<1>8. /\ accepting' = more /\ backlog' = Tail(backlog)
      /\ UNCHANGED <<program, flying, queue, up, arrived, order, given>>
  BY DEF KernelAccept
<1>9. BookKept'
  BY <1>7, <1>8 DEF BookKept, program
<1>10. TypeOK'
  BY <1>2, <1>4, <1>6, <1>8 DEF IInv, TypeOK, program
<1> QED BY <1>9, <1>10 DEF IInv

LEMMA KernelAcceptEndKeeps ==
    ASSUME IInv, KernelAcceptEnd
    PROVE  IInv'
<1> DEFINE e == Accepted(None, FALSE)
           n == Len(cq) + 1
<1>1. e \in Completions /\ e.op = "accept" /\ e.fd = None
  BY DEF Accepted, Completions
<1>2. cq' = Append(cq, e) /\ accepting' = FALSE
      /\ UNCHANGED <<program, fdt, flying, backlog, queue, up, arrived, order, given>>
  BY DEF KernelAcceptEnd
<1> HIDE DEF e
<1>3. cq' \in Seq(Completions) /\ IsMore(cq, n, cq') /\ cq'[n] = e
  <2>1. cq \in Seq(Completions)
    BY DEF IInv, TypeOK
  <2> QED BY <1>1, <1>2, <2>1, AppendMeans
<1>4. Book(sq, flying, cq', done, slots, free, fdt)
  <2>1. Book(sq, flying, cq, done, slots, free, fdt)
    BY DEF IInv, BookKept
  <2>2. cq'[n].op = "accept" /\ cq'[n].fd = None
    BY <1>1, <1>3
  <2> HIDE DEF n
  <2> QED BY <1>3, <2>1, <2>2, FailedBook
<1>5. BookKept'
  BY <1>2, <1>4 DEF BookKept, program
<1>6. TypeOK'
  BY <1>2, <1>3 DEF IInv, TypeOK, program
<1> QED BY <1>5, <1>6 DEF IInv

\* A send that is carried out, well or not.
LEMMA Completed ==
    ASSUME IInv, NEW s \in flying, flying' = flying \ {s}, cq' = Append(cq, Sent(s)),
           UNCHANGED <<sq, done, slots, free, fdt>>
    PROVE  BookKept' /\ cq' \in Seq(Completions) /\ flying' \subseteq Sends /\ s \in Sends
<1> DEFINE e == Sent(s)
           n == Len(cq) + 1
<1>0. s \in Sends /\ flying' \subseteq Sends
  BY DEF IInv, TypeOK
<1>1. e \in Completions /\ e.op = "send" /\ e.slot = s.slot /\ e.who = s.who
  BY <1>0 DEF Sent, Completions, Sends
<1> HIDE DEF e
<1>2. cq' \in Seq(Completions) /\ IsMore(cq, n, cq') /\ cq'[n] = e
  <2>1. cq \in Seq(Completions) /\ cq' = Append(cq, e)
    BY DEF IInv, TypeOK, e
  <2> QED BY <1>1, <2>1, AppendMeans
<1>3. Book(sq, flying \ {s}, cq', done, slots, free, fdt)
  <2>1. Book(sq, flying, cq, done, slots, free, fdt)
    BY DEF IInv, BookKept
  <2>2. cq'[n].op = "send" /\ cq'[n].slot = s.slot /\ cq'[n].who = s.who
    BY <1>1, <1>2
  <2> HIDE DEF n
  <2> QED BY <1>2, <2>1, <2>2, SentBook
<1>4. BookKept'
  BY <1>3 DEF BookKept
<1> QED BY <1>0, <1>2, <1>4

\* The message of a flying send is its client's descriptor.
LEMMA RightMessage ==
    ASSUME IInv, NEW s \in flying
    PROVE  InMessage(s) = s.who /\ s.who \in Clients
<1>1. InSlot(s, slots, fdt)
  BY DEF IInv, BookKept, Book, AllInSlots
<1>2. s \in Sends
  BY DEF IInv, TypeOK
<1>3. slots[s.slot] # None
  BY <1>1 DEF InSlot
<1> QED BY <1>1, <1>2, <1>3 DEF InSlot, InMessage, Sends

LEMMA KernelSendKeeps ==
    ASSUME IInv, NEW w \in Workers, KernelSend(w)
    PROVE  IInv'
<1>1. PICK s \in flying :
          /\ flying' = flying \ {s} /\ cq' = Append(cq, Sent(s))
          /\ IF InMessage(s) = None THEN UNCHANGED <<queue, given>>
             ELSE /\ queue' = [queue EXCEPT ![w] = Append(@, InMessage(s))]
                  /\ given' = [given EXCEPT ![InMessage(s)] = Append(@, w)]
  BY DEF KernelSend
<1>2. UNCHANGED <<program, fdt, accepting, backlog, up, arrived, order>>
  BY DEF KernelSend
<1>3. BookKept' /\ cq' \in Seq(Completions) /\ flying' \subseteq Sends
  BY <1>1, <1>2, Completed DEF program
<1>4. queue' \in [Workers -> Seq(Clients)] /\ given' \in [Clients -> Seq(Workers)]
  <2>1. InMessage(s) \in Clients /\ InMessage(s) # None
    BY RightMessage
  <2>2. queue \in [Workers -> Seq(Clients)] /\ given \in [Clients -> Seq(Workers)]
    BY DEF IInv, TypeOK
  <2> DEFINE c == InMessage(s)
  <2>3. /\ queue' = [queue EXCEPT ![w] = Append(@, c)]
        /\ given' = [given EXCEPT ![c] = Append(@, w)]
    BY <1>1, <2>1
  <2> HIDE DEF c
  <2>4. Append(queue[w], c) \in Seq(Clients) /\ Append(given[c], w) \in Seq(Workers)
    BY <2>1, <2>2 DEF c
  <2> QED BY <2>1, <2>2, <2>3, <2>4
<1>5. TypeOK'
  BY <1>2, <1>3, <1>4 DEF IInv, TypeOK, program
<1> QED BY <1>3, <1>5 DEF IInv

LEMMA KernelSendFailsKeeps ==
    ASSUME IInv, NEW w \in Workers, KernelSendFails(w)
    PROVE  IInv'
<1>1. PICK s \in flying : flying' = flying \ {s} /\ cq' = Append(cq, Sent(s))
  BY DEF KernelSendFails
<1>2. UNCHANGED <<program, fdt, accepting, backlog, queue, up, arrived, order, given>>
  BY DEF KernelSendFails
<1>3. BookKept' /\ cq' \in Seq(Completions) /\ flying' \subseteq Sends
  BY <1>1, <1>2, Completed DEF program
<1>4. TypeOK'
  BY <1>2, <1>3 DEF IInv, TypeOK, program
<1> QED BY <1>3, <1>4 DEF IInv

LEMMA PeersKeep ==
    ASSUME IInv, \/ \E w \in Workers : WorkerTakes(w) \/ WorkerCrashes(w)
                 \/ \E c \in Clients : Arrive(c)
    PROVE  IInv'
<1>1. UNCHANGED <<program, fdt, accepting, flying, cq, order, given>>
  BY DEF WorkerTakes, WorkerCrashes, Arrive
<1>2. BookKept'
  BY <1>1 DEF IInv, BookKept, program
<1>3. backlog \in Seq(Clients) /\ queue \in [Workers -> Seq(Clients)] /\ up \subseteq Workers /\ arrived \subseteq Clients
  BY DEF IInv, TypeOK
<1> DEFINE PeersTyped == /\ backlog \in Seq(Clients) /\ queue \in [Workers -> Seq(Clients)]
                         /\ up \subseteq Workers /\ arrived \subseteq Clients
<1>4. PeersTyped'
  <2>1. ASSUME NEW w \in Workers, WorkerTakes(w) PROVE PeersTyped'
    <3>1. Tail(queue[w]) \in Seq(Clients)
      BY <1>3, <2>1 DEF WorkerTakes
    <3> QED BY <1>3, <2>1, <3>1 DEF WorkerTakes
  <2>2. ASSUME NEW w \in Workers, WorkerCrashes(w) PROVE PeersTyped'
    BY <1>3, <2>2 DEF WorkerCrashes
  <2>3. ASSUME NEW c \in Clients, Arrive(c) PROVE PeersTyped'
    BY <1>3, <2>3 DEF Arrive
  <2> QED BY <2>1, <2>2, <2>3, Zenon
<1>5. TypeOK'
  BY <1>1, <1>4 DEF IInv, TypeOK, program
<1> QED BY <1>2, <1>5 DEF IInv

---------------------------------------------------------------------------
(* The theorems.                                                           *)

LEMMA Starts ==
    ASSUME Init
    PROVE  IInv
<1>1. TypeOK
  <2>1. sq \in Seq({Accept} \cup Sends) /\ Len(sq) <= SqCap
    <3>1. sq = <<Accept>> /\ Len(sq) = 1
      BY DEF Init
    <3>2. <<Accept>> \in Seq({Accept} \cup Sends)
      OBVIOUS
    <3> QED BY <3>1, <3>2
  <2>2. /\ done \in Seq(Completions) /\ cq \in Seq(Completions)
        /\ slots \in Seq(Fds \cup {None}) /\ free \in Seq(Nat \ {0})
        /\ backlog \in Seq(Clients) /\ order \in Seq(Clients)
    BY DEF Init
  <2>3. /\ fdt \in [Fds -> Clients \cup {None}] /\ queue \in [Workers -> Seq(Clients)]
        /\ given \in [Clients -> Seq(Workers)]
    BY DEF Init
  <2> QED BY <2>1, <2>2, <2>3 DEF Init, TypeOK
<1>2. Sendings(sq) = {} /\ Sendings(cq) = {} /\ Sendings(done) = {}
  BY DEF Init, Sendings, Accept
<1>3. Announcements(cq) = {} /\ Announcements(done) = {}
  BY DEF Init, Announcements
<1>4. DOMAIN slots = {} /\ DOMAIN free = {} /\ flying = {} /\ \A x \in Fds : fdt[x] = None
  BY DEF Init
<1>5. AllInSlots(sq, flying, cq, done, slots, fdt)
  BY <1>2, <1>4 DEF AllInSlots
<1>6. OneSendEach(sq, flying, cq, done)
  BY <1>2, <1>4 DEF OneSendEach, SlotsDiffer, FlyingDiffer, SlotsApart, FlyingApart
<1>7. SlabBook(sq, flying, cq, done, slots) /\ SlabFree(slots, free)
  BY <1>4 DEF SlabBook, SlabFree
<1>8. FdBook(cq, done, slots, fdt)
  BY <1>3, <1>4 DEF FdBook, AnnouncedOpen, AnnouncedOnce, AnnouncedApart
<1> QED BY <1>1, <1>5, <1>6, <1>7, <1>8 DEF IInv, BookKept, Book

LEMMA StepKeeps ==
    ASSUME IInv, [Next]_vars
    PROVE  IInv'
<1>1. CASE UNCHANGED vars
  <2>1. TypeOK'
    BY <1>1 DEF IInv, TypeOK, vars
  <2>2. BookKept'
    BY <1>1 DEF IInv, BookKept, vars
  <2> QED BY <2>1, <2>2 DEF IInv
<1>2. CASE SubmitAndWait \/ Reap \/ OnAccept \/ OnAcceptEnd \/ OnSend
  BY <1>2, SubmitKeeps, ReapKeeps, AcceptKeeps, AcceptEndKeeps, SendKeeps
<1>3. CASE (\E more \in BOOLEAN : KernelAccept(more)) \/ KernelAcceptEnd
  BY <1>3, KernelAcceptKeeps, KernelAcceptEndKeeps
<1>4. CASE \E w \in Workers : KernelSend(w) \/ KernelSendFails(w)
  BY <1>4, KernelSendKeeps, KernelSendFailsKeeps
<1>5. CASE \/ \E w \in Workers : WorkerTakes(w) \/ WorkerCrashes(w)
           \/ \E c \in Clients : Arrive(c)
  BY <1>5, PeersKeep
<1> QED BY <1>1, <1>2, <1>3, <1>4, <1>5 DEF Next

\* The book is kept for ever: every send has its slot, every slot its send and
\* every descriptor its place.
THEOREM Invariant == Spec => []IInv
<1>1. Init => IInv
  BY Starts
<1>2. IInv /\ [Next]_vars => IInv'
  BY StepKeeps
<1> QED BY <1>1, <1>2, PTL DEF Spec

\* Every variable has its type in every reachable state; the submission queue
\* never outgrows its capacity.
THEOREM Typed == Spec => []TypeOK
<1>1. IInv => TypeOK
  BY DEF IInv
<1> QED BY <1>1, Invariant, PTL

\* Where a pending send is.
LEMMA Located ==
    ASSUME NEW p \in Pending
    PROVE  \/ \E i \in Sendings(sq) : p = <<"sq", i>> /\ SendAt(p) = sq[i]
           \/ \E s \in flying : p = <<"flying", s>> /\ SendAt(p) = s
           \/ \E i \in Sendings(cq) : p = <<"cq", i>> /\ SendAt(p) = cq[i]
           \/ \E i \in Sendings(done) : p = <<"done", i>> /\ SendAt(p) = done[i]
<1>1. CASE p \in SendsIn("sq", sq)
  BY <1>1 DEF SendsIn, SendAt, Sendings
<1>2. CASE p \in {"flying"} \X flying
  BY <1>2 DEF SendAt
<1>3. CASE p \in SendsIn("cq", cq)
  BY <1>3 DEF SendsIn, SendAt, Sendings
<1>4. CASE p \in SendsIn("done", done)
  BY <1>4 DEF SendsIn, SendAt, Sendings
<1> QED BY <1>1, <1>2, <1>3, <1>4 DEF Pending

LEMMA PendingAll ==
    /\ \A i \in Sendings(sq) : <<"sq", i>> \in Pending /\ SendAt(<<"sq", i>>) = sq[i]
    /\ \A s \in flying : <<"flying", s>> \in Pending /\ SendAt(<<"flying", s>>) = s
    /\ \A i \in Sendings(cq) : <<"cq", i>> \in Pending /\ SendAt(<<"cq", i>>) = cq[i]
    /\ \A i \in Sendings(done) : <<"done", i>> \in Pending /\ SendAt(<<"done", i>>) = done[i]
<1>1. \A i \in Sendings(sq) : <<"sq", i>> \in Pending /\ SendAt(<<"sq", i>>) = sq[i]
  BY DEF Pending, SendsIn, SendAt, Sendings
<1>2. \A s \in flying : <<"flying", s>> \in Pending /\ SendAt(<<"flying", s>>) = s
  BY DEF Pending, SendAt
<1>3. \A i \in Sendings(cq) : <<"cq", i>> \in Pending /\ SendAt(<<"cq", i>>) = cq[i]
  BY DEF Pending, SendsIn, SendAt, Sendings
<1>4. \A i \in Sendings(done) : <<"done", i>> \in Pending /\ SendAt(<<"done", i>>) = done[i]
  BY DEF Pending, SendsIn, SendAt, Sendings
<1> QED BY <1>1, <1>2, <1>3, <1>4

LEMMA IsPinned ==
    ASSUME BookKept
    PROVE  Pinned
<1>1. AllInSlots(sq, flying, cq, done, slots, fdt) /\ OneSendEach(sq, flying, cq, done)
  BY DEF BookKept, Book
<1>2. \A p \in Pending : InSlot(SendAt(p), slots, fdt)
  BY <1>1, Located DEF AllInSlots
<1>3. ASSUME NEW p \in Pending, NEW r \in Pending, SendAt(p).slot = SendAt(r).slot
      PROVE  p = r
  <2>1. CASE \E i \in Sendings(sq) : p = <<"sq", i>> /\ SendAt(p) = sq[i]
    BY <1>1, <1>3, <2>1, Located DEF OneSendEach, SlotsDiffer, SlotsApart, FlyingApart
  <2>2. CASE \E s \in flying : p = <<"flying", s>> /\ SendAt(p) = s
    BY <1>1, <1>3, <2>2, Located DEF OneSendEach, FlyingDiffer, FlyingApart
  <2>3. CASE \E i \in Sendings(cq) : p = <<"cq", i>> /\ SendAt(p) = cq[i]
    BY <1>1, <1>3, <2>3, Located DEF OneSendEach, SlotsDiffer, SlotsApart, FlyingApart
  <2>4. CASE \E i \in Sendings(done) : p = <<"done", i>> /\ SendAt(p) = done[i]
    BY <1>1, <1>3, <2>4, Located DEF OneSendEach, SlotsDiffer, SlotsApart, FlyingApart
  <2> QED BY <2>1, <2>2, <2>3, <2>4, Located
<1> QED BY <1>2, <1>3 DEF Pinned, InSlot

LEMMA IsLeakFree ==
    ASSUME BookKept
    PROVE  NothingLeaked
<1>1. /\ SlabBook(sq, flying, cq, done, slots) /\ SlabFree(slots, free)
      /\ FdBook(cq, done, slots, fdt)
  BY DEF BookKept, Book
<1>2. ASSUME NEW i \in DOMAIN slots, slots[i] = None
      PROVE  Cardinality({j \in DOMAIN free : free[j] = i}) = 1
  <2>1. PICK j \in DOMAIN free : free[j] = i
    BY <1>1, <1>2 DEF SlabFree
  <2>2. {k \in DOMAIN free : free[k] = i} = {j}
    BY <1>1, <2>1 DEF SlabFree
  <2> QED BY <2>2, FS_Singleton
<1>3. ASSUME NEW i \in DOMAIN slots, slots[i] # None
      PROVE  i \notin Elements(free) /\ \E p \in Pending : SendAt(p).slot = i
  <2>1. i \notin Elements(free)
    BY <1>1, <1>3 DEF SlabFree, Elements
  <2>2. Belongs(i, sq, flying, cq, done)
    BY <1>1, <1>3 DEF SlabBook
  <2> QED BY <2>1, <2>2, PendingAll DEF Belongs
<1>4. ASSUME NEW f \in Fds, fdt[f] # None
      PROVE  \/ \E s \in {cq, done} : \E j \in DOMAIN s : s[j].op = "accept" /\ s[j].fd = f
             \/ \E i \in DOMAIN slots : slots[i] = f
  BY <1>1, <1>4 DEF FdBook, Announcements
<1> QED BY <1>2, <1>3, <1>4 DEF NothingLeaked

\* Whatever number of clients, slots and descriptors: a message stays in its
\* slot until its completion is handled, and no slot or descriptor is lost.
THEOREM MessagesPinned == Spec => []SlabPinned
<1>1. IInv => SlabPinned
  BY IsPinned, IsLeakFree DEF IInv, SlabPinned
<1> QED BY <1>1, Invariant, PTL

---------------------------------------------------------------------------
(* The rotation.  Clients are in the backlog, then announced, then in the   *)
(* order with a send, each once; what was given to whom follows the order. *)

Unsent(q, f)   == {q[i] : i \in Sendings(q)} \cup f
Finished(c, d) == {c[i] : i \in Sendings(c)} \cup {d[i] : i \in Sendings(d)}
Told(c, d)     == {c[i].fd : i \in Announcements(c)} \cup {d[i].fd : i \in Announcements(d)}

Fresh(x, o)      == \A k \in DOMAIN o : o[k] # x
HasTurn(x, w, o) == \E k \in DOMAIN o : o[k] = x /\ w = (k - 1) % N

\* The order o, the clients a that arrived, the backlog b.
Listed(o, a) ==
    /\ \A j, k \in DOMAIN o : o[j] = o[k] => j = k
    /\ \A k \in DOMAIN o : o[k] \in a
InLine(b, o, a, ft) ==
    /\ \A i, j \in DOMAIN b : b[i] = b[j] => i = j
    /\ \A i \in DOMAIN b : b[i] \in a /\ Fresh(b[i], o) /\ \A x \in Fds : ft[x] # b[i]
OpenOnce(ft, a) ==
    /\ \A x, y \in Fds : ft[x] = ft[y] /\ ft[x] # None => x = y
    /\ \A x \in Fds : ft[x] # None => ft[x] \in a
NotYet(T, ft, o) == \A x \in T : Fresh(ft[x], o)

\* What was given, and by which sends it will be.
ToSend(U, g, o) == \A s \in U : g[s.who] = <<>> /\ HasTurn(s.who, s.w, o)
WasSent(F, g, o, u) ==
    \A s \in F : g[s.who] # <<>> \/ \E w : w \notin u /\ HasTurn(s.who, w, o)
InTurn(g, o) ==
    /\ \A x \in Clients : Fresh(x, o) => g[x] = <<>>
    /\ \A k \in DOMAIN o : \A i \in DOMAIN g[o[k]] : i = 1 /\ g[o[k]][i] = (k - 1) % N

Rota ==
    /\ rr = Len(order) /\ Listed(order, arrived)
    /\ InLine(backlog, order, arrived, fdt) /\ OpenOnce(fdt, arrived)
    /\ NotYet(Told(cq, done), fdt, order)
    /\ ToSend(Unsent(sq, flying), given, order)
    /\ WasSent(Finished(cq, done), given, order, up)
    /\ InTurn(given, order)

\* Steps that only move sends on, or forget completions.
LEMMA LessRota ==
    ASSUME Rota, UNCHANGED <<rr, order, arrived, backlog, fdt, given>>, up' \subseteq up,
           Unsent(sq, flying)' \subseteq Unsent(sq, flying),
           Finished(cq, done)' \subseteq Finished(cq, done),
           Told(cq, done)' \subseteq Told(cq, done)
    PROVE  Rota'
<1> DEFINE U == Unsent(sq, flying)
           F == Finished(cq, done)
           T == Told(cq, done)
<1>1. /\ NotYet(T, fdt, order) /\ ToSend(U, given, order) /\ WasSent(F, given, order, up)
      /\ U' \subseteq U /\ F' \subseteq F /\ T' \subseteq T
  BY DEF Rota
<1> HIDE DEF U, F, T
<1>2. NotYet(T', fdt, order) /\ ToSend(U', given, order) /\ WasSent(F', given, order, up')
  BY <1>1 DEF NotYet, ToSend, WasSent
<1>3. /\ rr' = rr /\ order' = order /\ arrived' = arrived /\ backlog' = backlog
      /\ fdt' = fdt /\ given' = given
  OBVIOUS
<1>4. /\ rr = Len(order) /\ Listed(order, arrived) /\ InLine(backlog, order, arrived, fdt)
      /\ OpenOnce(fdt, arrived) /\ InTurn(given, order)
  BY DEF Rota
<1> QED BY <1>2, <1>3, <1>4 DEF Rota, U, F, T

LEMMA SubmittedUnsent ==
    ASSUME NEW all \in Seq(SqesOf), NEW n \in Nat, NEW q, NEW f0 \in SUBSET Sends, NEW f1,
           Submitted(all, n, q, f0, f1)
    PROVE  Unsent(q, f1) \subseteq Unsent(all, f0)
<1>1. \A i \in Sendings(q) : n + i \in Sendings(all) /\ q[i] = all[n + i]
  BY DEF Submitted, Sendings
<1>2. \A i \in DOMAIN all : all[i] \in Sends \/ all[i] = Accept
  BY DEF SqesOf
<1>3. \A s \in f1 : s \in f0 \/ \E i \in Sendings(all) : s = all[i]
  BY <1>2 DEF Submitted, Sendings, Sends
<1> QED BY <1>1, <1>3 DEF Unsent

LEMMA PushUnsent ==
    ASSUME TypeOK, NEW es \in Seq(SqesOf), Push(es)
    PROVE  Unsent(sq, flying)' \subseteq Unsent(sq \o es, flying)
<1>1. sq \in Seq(SqesOf) /\ accepting \in BOOLEAN /\ flying \in SUBSET Sends
  BY DEF TypeOK, SqesOf
<1>2. sq \o es \in Seq(SqesOf)
  BY <1>1
<1>3. PICK n \in Nat : Submitted(sq \o es, n, sq', flying, flying')
  BY <1>1, PushMeans
<1>4. Unsent(sq', flying') \subseteq Unsent(sq \o es, flying)
  BY <1>1, <1>2, <1>3, SubmittedUnsent
<1> QED BY <1>4

LEMMA RestTold ==
    ASSUME NEW c, NEW d, NEW t, IsRest(d, t)
    PROVE  /\ Finished(c, t) \subseteq Finished(c, d)
           /\ Told(c, t) \subseteq Told(c, d)
<1>1. \A i \in Sendings(t) : i + 1 \in Sendings(d) /\ t[i] = d[i + 1]
  BY DEF IsRest, Sendings
<1>2. \A i \in Announcements(t) : i + 1 \in Announcements(d) /\ t[i] = d[i + 1]
  BY DEF IsRest, Announcements
<1> QED BY <1>1, <1>2 DEF Finished, Told

LEMMA SubmitRota ==
    ASSUME IInv, Rota, SubmitAndWait
    PROVE  Rota'
<1>1. sq \in Seq(SqesOf) /\ Len(sq) \in Nat /\ DOMAIN sq = 1..Len(sq) /\ flying \in SUBSET Sends
  BY DEF IInv, TypeOK, SqesOf
<1>2. flying' = flying \cup ({sq[i] : i \in 1..Len(sq)} \ {Accept}) /\ sq' = <<>>
  BY <1>1 DEF SubmitAndWait, Submit, Elements
<1>3. Submitted(sq, Len(sq), sq', flying, flying')
  BY <1>1, <1>2 DEF Submitted
<1>4. Unsent(sq', flying') \subseteq Unsent(sq, flying)
  BY <1>1, <1>3, SubmittedUnsent
<1>5. UNCHANGED <<rr, order, arrived, backlog, fdt, given, up, cq, done>>
  BY DEF SubmitAndWait
<1>6. /\ Unsent(sq, flying)' \subseteq Unsent(sq, flying)
      /\ Finished(cq, done)' = Finished(cq, done) /\ Told(cq, done)' = Told(cq, done)
  BY <1>4, <1>5
<1> QED BY <1>5, <1>6, LessRota

LEMMA ReapRota ==
    ASSUME IInv, Rota, Reap
    PROVE  Rota'
<1>1. /\ done = <<>> /\ done' = cq /\ cq' = <<>>
      /\ UNCHANGED <<rr, order, arrived, backlog, fdt, given, up, sq, flying>>
  BY DEF Reap, IInv, TypeOK
<1>2. Finished(<<>>, cq) = Finished(cq, <<>>) /\ Told(<<>>, cq) = Told(cq, <<>>)
  BY DEF Finished, Told, Sendings, Announcements
<1>3. /\ Unsent(sq, flying)' = Unsent(sq, flying)
      /\ Finished(cq, done)' = Finished(cq, done) /\ Told(cq, done)' = Told(cq, done)
  BY <1>1, <1>2
<1> QED BY <1>1, <1>3, LessRota

LEMMA AcceptEndRota ==
    ASSUME IInv, Rota, OnAcceptEnd
    PROVE  Rota'
<1>1. IsRest(done, Tail(done))
  BY AtHand DEF IInv, OnAcceptEnd
<1>2. /\ done' = Tail(done) /\ UNCHANGED <<rr, order, arrived, backlog, fdt, given, up, cq>>
      /\ Push(Rearm)
  BY DEF OnAcceptEnd
<1>3. <<>> \in Seq(SqesOf) /\ <<Accept>> \in Seq(SqesOf) /\ Rearm \in Seq(SqesOf)
  <2>1. <<>> \in Seq(SqesOf) /\ <<Accept>> \in Seq(SqesOf)
    BY DEF SqesOf
  <2> QED BY <2>1, RearmIs
<1>4. Unsent(sq, flying)' \subseteq Unsent(sq \o Rearm, flying)
  BY <1>2, <1>3, PushUnsent DEF IInv
<1>5. Unsent(sq \o Rearm, flying) \subseteq Unsent(sq, flying)
  <2>1. sq \in Seq(SqesOf)
    BY DEF IInv, TypeOK, SqesOf
  <2>2. CASE Rearm = <<>>
    BY <2>1, <2>2
  <2>3. CASE Rearm = <<Accept>>
    <3>1. /\ sq \o Rearm = Append(sq, Accept) /\ DOMAIN sq = 1..Len(sq) /\ Len(sq) \in Nat
          /\ DOMAIN (sq \o Rearm) = 1..(Len(sq) + 1)
          /\ (sq \o Rearm)[Len(sq) + 1] = Accept /\ \A i \in 1..Len(sq) : (sq \o Rearm)[i] = sq[i]
      BY <2>1, <2>3
    <3>2. \A i \in Sendings(sq \o Rearm) : i \in Sendings(sq) /\ (sq \o Rearm)[i] = sq[i]
      BY <3>1 DEF Sendings, Accept
    <3> QED BY <3>2 DEF Unsent
  <2> QED BY <2>2, <2>3, RearmIs
<1>6. Finished(cq, Tail(done)) \subseteq Finished(cq, done) /\ Told(cq, Tail(done)) \subseteq Told(cq, done)
  BY <1>1, RestTold
<1>7. /\ Unsent(sq, flying)' \subseteq Unsent(sq, flying)
      /\ Finished(cq, done)' \subseteq Finished(cq, done) /\ Told(cq, done)' \subseteq Told(cq, done)
  BY <1>2, <1>4, <1>5, <1>6
<1> QED BY <1>2, <1>7, LessRota

\* A sequence with one more element, at its end.
IsLonger(o, x, o1) ==
    /\ DOMAIN o = 1..Len(o) /\ DOMAIN o1 = 1..(Len(o) + 1) /\ Len(o) \in Nat
    /\ Len(o1) = Len(o) + 1 /\ o1[Len(o) + 1] = x /\ \A k \in DOMAIN o : o1[k] = o[k]

LEMMA LongerMeans ==
    ASSUME NEW S, NEW o \in Seq(S), NEW x \in S
    PROVE  IsLonger(o, x, Append(o, x))
    BY DEF IsLonger

LEMMA LongerOrder ==
    ASSUME NEW o, NEW x, NEW o1, IsLonger(o, x, o1)
    PROVE  /\ \A c : Fresh(c, o1) <=> Fresh(c, o) /\ c # x
           /\ \A c, w : HasTurn(c, w, o) => HasTurn(c, w, o1)
           /\ HasTurn(x, Len(o) % N, o1)
           /\ \A k \in DOMAIN o1 : (k \in DOMAIN o /\ o1[k] = o[k]) \/ (k = Len(o) + 1 /\ o1[k] = x)
<1>1. \A k \in DOMAIN o1 : (k \in DOMAIN o /\ o1[k] = o[k]) \/ (k = Len(o) + 1 /\ o1[k] = x)
  BY DEF IsLonger
<1>2. DOMAIN o \subseteq DOMAIN o1 /\ Len(o) + 1 \in DOMAIN o1 /\ o1[Len(o) + 1] = x
  BY DEF IsLonger
<1>3. \A k \in DOMAIN o : o1[k] = o[k]
  BY DEF IsLonger
<1>4. \A c : Fresh(c, o1) <=> Fresh(c, o) /\ c # x
  BY <1>1, <1>2, <1>3 DEF Fresh
<1>5. \A c, w : HasTurn(c, w, o) => HasTurn(c, w, o1)
  BY <1>2, <1>3 DEF HasTurn
<1>6. HasTurn(x, Len(o) % N, o1)
  <2>1. (Len(o) + 1) - 1 = Len(o)
    BY DEF IsLonger
  <2> QED BY <1>2, <2>1 DEF HasTurn
<1> QED BY <1>1, <1>4, <1>5, <1>6

LEMMA AcceptRota ==
    ASSUME IInv, Rota, OnAccept
    PROVE  Rota'
<1> DEFINE x == E.fd
           c == fdt[x]
           s == Send(Pick, Slot, c)
           es == <<s>> \o Rearm
<1>1. /\ 1 \in DOMAIN done /\ E = done[1] /\ E \in Completions /\ IsRest(done, Tail(done))
  BY AtHand DEF IInv, OnAccept
<1>2. x \in Fds /\ 1 \in Announcements(done) /\ done[1].fd = x
  BY <1>1 DEF OnAccept, Completions, Announcements
<1>3. c # None /\ c \in Clients /\ \A k \in DOMAIN slots : slots[k] # x
  <2>1. AnnouncedOpen(done, slots, fdt)
    BY DEF IInv, BookKept, Book, FdBook
  <2>2. fdt \in [Fds -> Clients \cup {None}]
    BY DEF IInv, TypeOK
  <2> QED BY <1>2, <2>1, <2>2 DEF AnnouncedOpen
<1>4. /\ s \in Sends /\ s.who = c /\ s.w = Len(order) % N
  <2>1. rr = Len(order) /\ rr \in Nat /\ N \in Nat \ {0}
    BY DEF IInv, TypeOK, Rota
  <2>2. Pick \in Workers /\ Pick = Len(order) % N
    BY <2>1, ModBound DEF Pick, Workers
  <2>3. Slot \in Nat \ {0}
    <3>1. /\ slots \in Seq(Fds \cup {None}) /\ free \in Seq(Nat \ {0})
          /\ SlabFree(slots, free) /\ Alloc(x)
      BY DEF IInv, TypeOK, BookKept, Book, OnAccept
    <3> QED BY <1>2, <1>3, <3>1, AllocMeans
  <2> QED BY <1>3, <2>2, <2>3 DEF Send, Sends
<1>5. /\ Push(es) /\ done' = Tail(done) /\ order' = Append(order, c) /\ rr' = rr + 1
      /\ UNCHANGED <<arrived, backlog, fdt, given, up, cq>>
  BY DEF OnAccept
<1> HIDE DEF s
<1>6. sq \in Seq(SqesOf) /\ order \in Seq(Clients)
  BY DEF IInv, TypeOK, SqesOf
<1>7. es \in Seq(SqesOf) /\ Unsent(sq \o es, flying) = Unsent(sq, flying) \cup {s}
  <2>1. es \in Seq(SqesOf) /\ HoldsOneMore(sq, sq \o es, s)
    BY <1>4, <1>6, RearmIs, SendBehind
  <2>2. PICK n : /\ Sendings(sq \o es) = Sendings(sq) \cup {n}
                 /\ \A j \in Sendings(sq) : (sq \o es)[j] = sq[j]
                 /\ (sq \o es)[n] = s
    BY <2>1 DEF HoldsOneMore
  <2> HIDE DEF es
  <2>3. {(sq \o es)[i] : i \in Sendings(sq \o es)} = {sq[i] : i \in Sendings(sq)} \cup {s}
    BY <2>2
  <2> QED BY <2>1, <2>3 DEF Unsent
<1>8. Unsent(sq, flying)' \subseteq Unsent(sq, flying) \cup {s}
  BY <1>5, <1>7, PushUnsent DEF IInv
<1> HIDE DEF es
<1>9. IsLonger(order, c, order')
  BY <1>3, <1>5, <1>6, LongerMeans
<1>10. /\ \A d : Fresh(d, order') <=> Fresh(d, order) /\ d # c
       /\ \A d, w : HasTurn(d, w, order) => HasTurn(d, w, order')
       /\ HasTurn(c, Len(order) % N, order')
       /\ \A k \in DOMAIN order' : \/ k \in DOMAIN order /\ order'[k] = order[k]
                                   \/ k = Len(order) + 1 /\ order'[k] = c
  BY <1>9, LongerOrder
<1>11. x \in Told(cq, done) /\ Fresh(c, order) /\ c \in arrived
  <2>1. x \in Told(cq, done)
    BY <1>2 DEF Told
  <2> QED BY <1>2, <1>3, <2>1 DEF Rota, NotYet, OpenOnce
<1>12. Listed(order', arrived)
  <2>1. Listed(order, arrived)
    BY DEF Rota
  <2> QED BY <1>10, <1>11, <2>1 DEF Listed, Fresh
<1>13. InLine(backlog, order', arrived, fdt)
  <2>1. InLine(backlog, order, arrived, fdt)
    BY DEF Rota
  <2>2. \A i \in DOMAIN backlog : backlog[i] # c
    BY <1>2, <2>1 DEF InLine
  <2> QED BY <1>10, <2>1, <2>2 DEF InLine
<1>14. NotYet(Told(cq, Tail(done)), fdt, order')
  <2> SUFFICES ASSUME NEW y \in Told(cq, Tail(done)) PROVE Fresh(fdt[y], order')
    BY DEF NotYet
  <2>1. y \in Told(cq, done)
    BY <1>1, RestTold
  <2>2. y \in Fds
    BY <2>1, AnnouncedFds DEF IInv, Told
  <2>3. y # x
    <3>1. FdBook(cq, done, slots, fdt)
      BY DEF IInv, BookKept, Book
    <3>2. CASE \E i \in Announcements(cq) : cq[i].fd = y
      BY <1>2, <3>1, <3>2 DEF FdBook, AnnouncedApart
    <3>3. CASE \E i \in Announcements(Tail(done)) : Tail(done)[i].fd = y
      <4>1. PICK i \in Announcements(Tail(done)) : Tail(done)[i].fd = y
        BY <3>3
      <4>2. i + 1 \in Announcements(done) /\ done[i + 1].fd = y /\ i \in Nat /\ i # 0
        BY <1>1, <4>1 DEF IsRest, Announcements
      <4>3. i + 1 # 1
        BY <4>2
      <4> QED BY <1>2, <3>1, <4>2, <4>3 DEF FdBook, AnnouncedOnce
    <3> QED BY <3>2, <3>3 DEF Told
  <2>4. fdt[y] # c
    BY <1>2, <1>3, <2>2, <2>3 DEF Rota, OpenOnce
  <2>5. Fresh(fdt[y], order)
    BY <2>1 DEF Rota, NotYet
  <2> QED BY <1>10, <2>4, <2>5
<1>15. ToSend(Unsent(sq, flying)', given, order')
  <2> DEFINE U == Unsent(sq, flying)
  <2>1. ToSend(U, given, order) /\ U' \subseteq U \cup {s}
    BY <1>8 DEF Rota
  <2>2. given[c] = <<>>
    BY <1>3, <1>11 DEF Rota, InTurn
  <2> HIDE DEF U, c, x
  <2>3. ToSend(U', given, order')
    BY <1>4, <1>10, <2>1, <2>2 DEF ToSend
  <2> QED BY <2>3 DEF U
<1>16. WasSent(Finished(cq, Tail(done)), given, order', up)
  <2> DEFINE F == Finished(cq, Tail(done))
  <2>1. WasSent(Finished(cq, done), given, order, up) /\ F \subseteq Finished(cq, done)
    BY <1>1, RestTold DEF Rota
  <2> HIDE DEF F, c, x
  <2>2. WasSent(F, given, order', up)
    BY <1>10, <2>1 DEF WasSent
  <2> QED BY <2>2 DEF F
<1>17. InTurn(given, order')
  <2>1. InTurn(given, order) /\ given[c] = <<>>
    BY <1>3, <1>11 DEF Rota, InTurn
  <2>2. DOMAIN given[c] = {}
    BY <2>1
  <2> HIDE DEF c, x
  <2> QED BY <1>10, <2>1, <2>2 DEF InTurn
<1>18. rr' = Len(order')
  BY <1>5, <1>9 DEF Rota, IsLonger
<1> HIDE DEF c, x
<1>19. OpenOnce(fdt, arrived)
  BY DEF Rota
<1> QED BY <1>5, <1>12, <1>13, <1>14, <1>15, <1>16, <1>17, <1>18, <1>19 DEF Rota

LEMMA SendRota ==
    ASSUME IInv, Rota, OnSend
    PROVE  Rota'
<1> DEFINE x == slots[E.slot]
<1>1. /\ 1 \in DOMAIN done /\ E = done[1] /\ IsRest(done, Tail(done))
  BY AtHand DEF IInv, OnSend
<1>2. InSlot(E, slots, fdt)
  BY <1>1 DEF OnSend, IInv, BookKept, Book, AllInSlots, Sendings
<1>3. x \in Fds /\ fdt' = [fdt EXCEPT ![x] = None]
  BY <1>2 DEF OnSend, InSlot
<1>4. fdt \in [Fds -> Clients \cup {None}] /\ None \notin Clients
  BY Widths DEF IInv, TypeOK
<1> HIDE DEF x
<1>5. \A y \in Fds : fdt'[y] = IF y = x THEN None ELSE fdt[y]
  BY <1>3, <1>4
<1>6. /\ done' = Tail(done)
      /\ UNCHANGED <<sq, flying, cq, rr, order, arrived, backlog, given, up>>
  BY DEF OnSend
<1>7. InLine(backlog, order, arrived, fdt')
  <2>1. backlog \in Seq(Clients)
    BY DEF IInv, TypeOK
  <2>2. \A i \in DOMAIN backlog : backlog[i] # None
    BY <1>4, <2>1
  <2> QED BY <1>5, <2>2 DEF Rota, InLine
<1>8. OpenOnce(fdt', arrived)
  BY <1>5 DEF Rota, OpenOnce
<1>9. NotYet(Told(cq, Tail(done)), fdt', order)
  <2> SUFFICES ASSUME NEW y \in Told(cq, Tail(done)) PROVE Fresh(fdt'[y], order)
    BY DEF NotYet
  <2>1. y \in Told(cq, done)
    BY <1>1, RestTold
  <2>2. y \in Fds
    BY <2>1, AnnouncedFds DEF IInv, Told
  <2>3. Fresh(fdt[y], order)
    BY <2>1 DEF Rota, NotYet
  <2>4. Fresh(None, order)
    <3>1. order \in Seq(Clients)
      BY DEF IInv, TypeOK
    <3> QED BY <1>4, <3>1 DEF Fresh
  <2> QED BY <1>5, <2>2, <2>3, <2>4
<1>10. WasSent(Finished(cq, Tail(done)), given, order, up)
  <2> DEFINE F == Finished(cq, Tail(done))
  <2>1. WasSent(Finished(cq, done), given, order, up) /\ F \subseteq Finished(cq, done)
    BY <1>1, RestTold DEF Rota
  <2> HIDE DEF F
  <2>2. WasSent(F, given, order, up)
    BY <2>1 DEF WasSent
  <2> QED BY <2>2 DEF F
<1>11. /\ rr = Len(order) /\ Listed(order, arrived) /\ InTurn(given, order)
       /\ ToSend(Unsent(sq, flying), given, order)
  BY DEF Rota
<1> QED BY <1>6, <1>7, <1>8, <1>9, <1>10, <1>11 DEF Rota

\* One more completion.
LEMMA MoreFinished ==
    ASSUME NEW c, NEW d, NEW n, NEW c1, IsMore(c, n, c1), c1[n].op = "send"
    PROVE  Finished(c1, d) = Finished(c, d) \cup {c1[n]} /\ Told(c1, d) = Told(c, d)
<1>1. Sendings(c1) = Sendings(c) \cup {n} /\ Announcements(c1) = Announcements(c)
  BY DEF IsMore, Sendings, Announcements
<1>2. \A j \in Sendings(c) \cup Announcements(c) : c1[j] = c[j]
  BY DEF IsMore, Sendings, Announcements
<1>3. {c1[i] : i \in Sendings(c1)} = {c[i] : i \in Sendings(c)} \cup {c1[n]}
  BY <1>1, <1>2
<1>4. {c1[i].fd : i \in Announcements(c1)} = {c[i].fd : i \in Announcements(c)}
  BY <1>1, <1>2
<1> QED BY <1>3, <1>4 DEF Finished, Told

LEMMA MoreTold ==
    ASSUME NEW c, NEW d, NEW n, NEW c1, IsMore(c, n, c1), c1[n].op = "accept"
    PROVE  Finished(c1, d) = Finished(c, d) /\ Told(c1, d) \subseteq Told(c, d) \cup {c1[n].fd}
<1>1. Sendings(c1) = Sendings(c) /\ Announcements(c1) \subseteq Announcements(c) \cup {n}
  BY DEF IsMore, Sendings, Announcements
<1>2. \A j \in Sendings(c) \cup Announcements(c) : c1[j] = c[j]
  BY DEF IsMore, Sendings, Announcements
<1>3. {c1[i] : i \in Sendings(c1)} = {c[i] : i \in Sendings(c)}
  BY <1>1, <1>2
<1>4. {c1[i].fd : i \in Announcements(c1)} \subseteq {c[i].fd : i \in Announcements(c)} \cup {c1[n].fd}
  BY <1>1, <1>2
<1> QED BY <1>3, <1>4 DEF Finished, Told

LEMMA NoneTold ==
    ASSUME NEW c, NEW d, NEW n, NEW c1, IsMore(c, n, c1), c1[n].op = "accept", c1[n].fd = None
    PROVE  Told(c1, d) = Told(c, d)
<1>1. Announcements(c1) = Announcements(c)
  BY DEF IsMore, Announcements
<1>2. \A j \in Announcements(c) : c1[j] = c[j]
  BY DEF IsMore, Announcements
<1>3. {c1[i].fd : i \in Announcements(c1)} = {c[i].fd : i \in Announcements(c)}
  BY <1>1, <1>2
<1> QED BY <1>3 DEF Told

LEMMA SentTold ==
    ASSUME NEW c \in Seq(Completions), NEW d, NEW s \in Sends
    PROVE  /\ Finished(Append(c, Sent(s)), d) = Finished(c, d) \cup {Sent(s)}
           /\ Told(Append(c, Sent(s)), d) = Told(c, d)
<1> DEFINE e  == Sent(s)
           c1 == Append(c, e)
           n  == Len(c) + 1
<1>1. e \in Completions /\ e.op = "send"
  BY DEF Sent, Completions, Sends
<1> HIDE DEF e
<1>2. IsMore(c, n, c1) /\ c1[n] = e
  BY <1>1, AppendMeans
<1> HIDE DEF n, c1
<1>3. c1[n].op = "send"
  BY <1>1, <1>2
<1>4. IsMore(c, n, c1)
  BY <1>2
<1>5. Finished(c1, d) = Finished(c, d) \cup {c1[n]} /\ Told(c1, d) = Told(c, d)
  BY <1>3, <1>4, MoreFinished
<1> QED BY <1>2, <1>5 DEF c1, e

LEMMA AcceptedTold ==
    ASSUME NEW c \in Seq(Completions), NEW d, NEW x \in Fds \cup {None}, NEW more \in BOOLEAN
    PROVE  /\ Finished(Append(c, Accepted(x, more)), d) = Finished(c, d)
           /\ Told(Append(c, Accepted(x, more)), d) \subseteq Told(c, d) \cup {x}
           /\ x = None => Told(Append(c, Accepted(x, more)), d) = Told(c, d)
<1> DEFINE e  == Accepted(x, more)
           c1 == Append(c, e)
           n  == Len(c) + 1
<1>1. e \in Completions /\ e.op = "accept" /\ e.fd = x
  BY DEF Accepted, Completions
<1> HIDE DEF e
<1>2. IsMore(c, n, c1) /\ c1[n] = e
  BY <1>1, AppendMeans
<1> HIDE DEF n, c1
<1>3. c1[n].op = "accept" /\ c1[n].fd = x
  BY <1>1, <1>2
<1>4. IsMore(c, n, c1)
  BY <1>2
<1>5. Finished(c1, d) = Finished(c, d)
  BY <1>3, <1>4, MoreTold
<1>6. Told(c1, d) \subseteq Told(c, d) \cup {c1[n].fd}
  BY <1>3, <1>4, MoreTold
<1>7. ASSUME x = None PROVE Told(c1, d) = Told(c, d)
  <2>1. c1[n].fd = None
    BY <1>3, <1>7
  <2> QED BY <1>3, <1>4, <2>1, NoneTold
<1> QED BY <1>3, <1>5, <1>6, <1>7 DEF c1, e

LEMMA KernelAcceptRota ==
    ASSUME IInv, Rota, NEW more \in BOOLEAN, KernelAccept(more)
    PROVE  Rota'
<1> DEFINE x == LowestFd
           b == backlog[1]
<1>1. x \in Fds /\ fdt[x] = None
  BY LowestIsFree DEF KernelAccept
<1> HIDE DEF x
<1>2. /\ backlog \in Seq(Clients) /\ backlog # <<>> /\ 1 \in DOMAIN backlog
      /\ Head(backlog) = b /\ b \in Clients /\ IsRest(backlog, Tail(backlog))
  <2>1. backlog \in Seq(Clients) /\ backlog # <<>>
    BY DEF IInv, TypeOK, KernelAccept
  <2> QED BY <2>1, TailMeans DEF IsRest
<1>3. /\ fdt' = [fdt EXCEPT ![x] = b] /\ cq' = Append(cq, Accepted(x, more))
      /\ backlog' = Tail(backlog)
      /\ UNCHANGED <<sq, flying, done, rr, order, arrived, given, up>>
  BY <1>2 DEF KernelAccept, x, program
<1>4. \A y \in Fds : fdt'[y] = IF y = x THEN b ELSE fdt[y]
  <2>1. fdt \in [Fds -> Clients \cup {None}]
    BY DEF IInv, TypeOK
  <2> QED BY <1>1, <1>3, <2>1
<1>6. Finished(cq', done) = Finished(cq, done) /\ Told(cq', done) \subseteq Told(cq, done) \cup {x}
  <2>1. cq \in Seq(Completions)
    BY DEF IInv, TypeOK
  <2>2. cq' = Append(cq, Accepted(x, more)) /\ x \in Fds \cup {None}
    BY <1>1, <1>3
  <2>3. Finished(Append(cq, Accepted(x, more)), done) = Finished(cq, done)
    BY <2>1, <2>2, AcceptedTold
  <2>4. Told(Append(cq, Accepted(x, more)), done) \subseteq Told(cq, done) \cup {x}
    BY <2>1, <2>2, AcceptedTold
  <2> QED BY <2>2, <2>3, <2>4
<1>7. b \in arrived /\ Fresh(b, order) /\ \A y \in Fds : fdt[y] # b
  BY <1>2 DEF Rota, InLine
<1>8. InLine(Tail(backlog), order, arrived, fdt')
  <2> DEFINE t == Tail(backlog)
  <2>1. InLine(backlog, order, arrived, fdt)
    BY DEF Rota
  <2>2. \A i \in DOMAIN t : i + 1 \in DOMAIN backlog /\ t[i] = backlog[i + 1] /\ i \in Nat \ {0}
    BY <1>2 DEF IsRest
  <2>3. \A i \in DOMAIN t : i + 1 # 1
    BY <2>2
  <2>4. \A i \in DOMAIN t : t[i] # b
    BY <1>2, <2>1, <2>2, <2>3 DEF InLine
  <2> HIDE DEF t, b
  <2>5. ASSUME NEW i \in DOMAIN t, NEW j \in DOMAIN t, t[i] = t[j] PROVE i = j
    <3>1. i + 1 = j + 1
      BY <2>1, <2>2, <2>5 DEF InLine
    <3> QED BY <2>2, <3>1
  <2>6. \A i \in DOMAIN t : t[i] \in arrived /\ Fresh(t[i], order) /\ \A y \in Fds : fdt'[y] # t[i]
    BY <1>4, <2>1, <2>2, <2>4 DEF InLine
  <2>7. InLine(t, order, arrived, fdt')
    BY <2>5, <2>6 DEF InLine
  <2> QED BY <2>7 DEF t
<1> HIDE DEF b
<1>9. OpenOnce(fdt', arrived)
  BY <1>4, <1>7 DEF Rota, OpenOnce
<1>10. NotYet(Told(cq', done), fdt', order)
  <2> SUFFICES ASSUME NEW y \in Told(cq', done) PROVE Fresh(fdt'[y], order)
    BY DEF NotYet
  <2>1. CASE y = x
    BY <1>1, <1>4, <1>7, <2>1
  <2>2. CASE y # x
    <3>1. y \in Told(cq, done)
      BY <1>6, <2>2
    <3>2. y \in Fds
      BY <3>1, AnnouncedFds DEF IInv, Told
    <3>3. Fresh(fdt[y], order)
      BY <3>1 DEF Rota, NotYet
    <3> QED BY <1>4, <2>2, <3>2, <3>3
  <2> QED BY <2>1, <2>2
<1>11. /\ rr = Len(order) /\ Listed(order, arrived) /\ InTurn(given, order)
       /\ ToSend(Unsent(sq, flying), given, order)
       /\ WasSent(Finished(cq', done), given, order, up)
  BY <1>6 DEF Rota
<1> QED BY <1>3, <1>8, <1>9, <1>10, <1>11 DEF Rota

LEMMA KernelAcceptEndRota ==
    ASSUME IInv, Rota, KernelAcceptEnd
    PROVE  Rota'
<1>1. /\ cq' = Append(cq, Accepted(None, FALSE))
      /\ UNCHANGED <<sq, flying, done, rr, order, arrived, backlog, fdt, given, up>>
  BY DEF KernelAcceptEnd, program
<1>3. Finished(cq', done) = Finished(cq, done) /\ Told(cq', done) = Told(cq, done)
  <2>1. cq \in Seq(Completions)
    BY DEF IInv, TypeOK
  <2> QED BY <1>1, <2>1, AcceptedTold
<1>4. /\ Unsent(sq, flying)' = Unsent(sq, flying)
      /\ Finished(cq, done)' = Finished(cq, done) /\ Told(cq, done)' = Told(cq, done)
  BY <1>1, <1>3
<1> QED BY <1>1, <1>4, LessRota

\* A send that is carried out, well or not: every other pending one is for
\* another client.
LEMMA CarriedOut ==
    ASSUME IInv, Rota, NEW s \in flying, flying' = flying \ {s}, cq' = Append(cq, Sent(s)),
           UNCHANGED <<sq, done>>
    PROVE  /\ Unsent(sq', flying') \subseteq Unsent(sq, flying)
           /\ \A t \in Unsent(sq', flying') : t.who # s.who /\ t.who \in Clients
           /\ Finished(cq', done') = Finished(cq, done) \cup {Sent(s)}
           /\ \A e \in Finished(cq, done) : e.who \in Clients
           /\ Told(cq', done') = Told(cq, done)
           /\ given[s.who] = <<>> /\ HasTurn(s.who, s.w, order)
<1>1. s \in Sends /\ cq \in Seq(Completions) /\ done \in Seq(Completions)
      /\ sq \in Seq(SqesOf) /\ flying \subseteq Sends
  BY DEF IInv, TypeOK, SqesOf
<1>4. Finished(cq', done') = Finished(cq, done) \cup {Sent(s)} /\ Told(cq', done') = Told(cq, done)
  BY <1>1, SentTold, Zenon
<1>5. Unsent(sq', flying') \subseteq Unsent(sq, flying)
  BY DEF Unsent
<1>6. \A e \in Finished(cq, done) : e.who \in Clients
  <2>1. \A e \in Completions : e.op = "send" => e.who \in Clients
    BY DEF Completions
  <2>2. /\ \A i \in Sendings(cq) : cq[i] \in Completions /\ cq[i].op = "send"
        /\ \A i \in Sendings(done) : done[i] \in Completions /\ done[i].op = "send"
    BY <1>1 DEF Sendings
  <2> QED BY <2>1, <2>2 DEF Finished
<1>7. ASSUME NEW t \in Unsent(sq', flying')
      PROVE  t.who # s.who /\ t.who \in Clients
  <2>1. (t \in flying /\ t # s) \/ \E i \in Sendings(sq) : t = sq[i]
    BY <1>7 DEF Unsent
  <2>2. /\ AllInSlots(sq, flying, cq, done, slots, fdt) /\ OneSendEach(sq, flying, cq, done)
        /\ SlabFree(slots, free)
    BY DEF IInv, BookKept, Book
  <2>3. t.slot # s.slot
    BY <2>1, <2>2 DEF OneSendEach, FlyingDiffer, FlyingApart
  <2>4. InSlot(s, slots, fdt) /\ InSlot(t, slots, fdt)
    BY <2>1, <2>2 DEF AllInSlots
  <2>5. slots[s.slot] # slots[t.slot]
    BY <2>2, <2>3, <2>4 DEF InSlot, SlabFree
  <2>6. fdt[slots[t.slot]] # fdt[slots[s.slot]]
    BY <2>4, <2>5 DEF Rota, OpenOnce, InSlot
  <2>7. t.who \in Clients
    <3>1. t \in Sends
      BY <1>1, <2>1 DEF Sendings, SqesOf, Accept
    <3> QED BY <3>1 DEF Sends
  <2> QED BY <2>4, <2>6, <2>7 DEF InSlot
<1>8. given[s.who] = <<>> /\ HasTurn(s.who, s.w, order)
  <2>1. s \in Unsent(sq, flying)
    BY DEF Unsent
  <2> QED BY <2>1 DEF Rota, ToSend
<1> QED BY <1>4, <1>5, <1>6, <1>7, <1>8

LEMMA KernelSendRota ==
    ASSUME IInv, Rota, NEW w \in Workers, KernelSend(w)
    PROVE  Rota'
<1>1. PICK s \in flying :
          /\ s.w = w /\ flying' = flying \ {s} /\ cq' = Append(cq, Sent(s))
          /\ IF InMessage(s) = None THEN UNCHANGED <<queue, given>>
             ELSE /\ queue' = [queue EXCEPT ![w] = Append(@, InMessage(s))]
                  /\ given' = [given EXCEPT ![InMessage(s)] = Append(@, w)]
  BY DEF KernelSend
<1>2. UNCHANGED <<sq, done, rr, order, arrived, backlog, fdt, up>>
  BY DEF KernelSend, program
<1> DEFINE c == s.who
           U == Unsent(sq, flying)
           F == Finished(cq, done)
           T == Told(cq, done)
<1>3. /\ U' \subseteq U /\ \A t \in U' : t.who # c /\ t.who \in Clients
      /\ F' = F \cup {Sent(s)} /\ \A e \in F : e.who \in Clients
      /\ T' = T /\ given[c] = <<>> /\ HasTurn(c, w, order)
  BY <1>1, <1>2, CarriedOut
<1>4. c \in Clients /\ given' = [given EXCEPT ![c] = Append(given[c], w)]
  BY <1>1, RightMessage
<1>5. given \in [Clients -> Seq(Workers)]
  BY DEF IInv, TypeOK
<1>6. Sent(s).who = c
  BY DEF Sent
<1> HIDE DEF c, U, F, T
<1>7. /\ given'[c] = <<w>> /\ given'[c] # <<>>
      /\ \A d \in Clients : d # c => given'[d] = given[d]
  BY <1>3, <1>4, <1>5
<1>8. ToSend(U', given', order)
  <2>1. ToSend(U, given, order)
    BY DEF Rota, U
  <2> QED BY <1>3, <1>7, <2>1 DEF ToSend
<1>9. WasSent(F', given', order, up)
  <2>1. WasSent(F, given, order, up)
    BY DEF Rota, F
  <2>2. \A e \in F : given[e.who] # <<>> => given'[e.who] # <<>>
    BY <1>3, <1>7
  <2> QED BY <1>3, <1>6, <1>7, <2>1, <2>2 DEF WasSent
<1>10. InTurn(given', order)
  <2>1. InTurn(given, order) /\ Listed(order, arrived)
    BY DEF Rota
  <2>2. PICK m \in DOMAIN order : order[m] = c /\ w = (m - 1) % N
    BY <1>3 DEF HasTurn
  <2>3. ASSUME NEW d \in Clients, Fresh(d, order) PROVE given'[d] = <<>>
    <3>1. d # c
      BY <2>2, <2>3 DEF Fresh
    <3> QED BY <1>7, <2>1, <2>3, <3>1 DEF InTurn
  <2>4. ASSUME NEW k \in DOMAIN order, NEW i \in DOMAIN given'[order[k]]
        PROVE  i = 1 /\ given'[order[k]][i] = (k - 1) % N
    <3>1. CASE k = m
      BY <1>7, <2>2, <2>4, <3>1
    <3>2. CASE k # m
      <4>1. order[k] # c /\ order[k] \in Clients
        <5>1. order \in Seq(Clients)
          BY DEF IInv, TypeOK
        <5> QED BY <2>1, <2>2, <3>2, <5>1 DEF Listed
      <4>2. given'[order[k]] = given[order[k]]
        BY <1>7, <4>1
      <4> QED BY <2>1, <2>4, <4>2 DEF InTurn
    <3> QED BY <3>1, <3>2
  <2> QED BY <2>3, <2>4 DEF InTurn
<1>11. /\ rr = Len(order) /\ Listed(order, arrived) /\ InLine(backlog, order, arrived, fdt)
       /\ OpenOnce(fdt, arrived) /\ NotYet(T, fdt, order)
  BY DEF Rota, T
<1> QED BY <1>2, <1>3, <1>8, <1>9, <1>10, <1>11 DEF Rota, U, F, T

LEMMA KernelSendFailsRota ==
    ASSUME IInv, Rota, NEW w \in Workers, KernelSendFails(w)
    PROVE  Rota'
<1>1. PICK s \in flying : s.w = w /\ flying' = flying \ {s} /\ cq' = Append(cq, Sent(s))
  BY DEF KernelSendFails
<1>2. w \notin up /\ UNCHANGED <<sq, done, rr, order, arrived, backlog, fdt, given, up>>
  BY DEF KernelSendFails, program
<1> DEFINE U == Unsent(sq, flying)
           F == Finished(cq, done)
           T == Told(cq, done)
<1>3. /\ U' \subseteq U /\ F' = F \cup {Sent(s)} /\ T' = T /\ HasTurn(s.who, w, order)
  BY <1>1, <1>2, CarriedOut
<1>4. Sent(s).who = s.who
  BY DEF Sent
<1>5. ToSend(U, given, order) /\ WasSent(F, given, order, up) /\ NotYet(T, fdt, order)
  BY DEF Rota
<1> HIDE DEF U, F, T
<1>6. ToSend(U', given, order) /\ WasSent(F', given, order, up) /\ NotYet(T', fdt, order)
  BY <1>2, <1>3, <1>4, <1>5 DEF ToSend, WasSent
<1>7. /\ rr = Len(order) /\ Listed(order, arrived) /\ InLine(backlog, order, arrived, fdt)
      /\ OpenOnce(fdt, arrived) /\ InTurn(given, order)
  BY DEF Rota
<1> QED BY <1>2, <1>6, <1>7 DEF Rota, U, F, T

LEMMA PeersRota ==
    ASSUME IInv, Rota, NEW w \in Workers, WorkerTakes(w) \/ WorkerCrashes(w)
    PROVE  Rota'
<1>1. /\ UNCHANGED <<sq, flying, cq, done, rr, order, arrived, backlog, fdt, given>>
      /\ up' \subseteq up
  BY DEF WorkerTakes, WorkerCrashes, program
<1>2. /\ Unsent(sq, flying)' = Unsent(sq, flying)
      /\ Finished(cq, done)' = Finished(cq, done) /\ Told(cq, done)' = Told(cq, done)
  BY <1>1
<1> QED BY <1>1, <1>2, LessRota

LEMMA ArriveRota ==
    ASSUME IInv, Rota, NEW c \in Clients, Arrive(c)
    PROVE  Rota'
<1>1. /\ c \notin arrived /\ arrived' = arrived \cup {c} /\ backlog' = Append(backlog, c)
      /\ UNCHANGED <<sq, flying, cq, done, rr, order, fdt, given, up>>
  BY DEF Arrive, program
<1>2. IsLonger(backlog, c, backlog')
  <2>1. backlog \in Seq(Clients)
    BY DEF IInv, TypeOK
  <2> QED BY <1>1, <2>1, LongerMeans
<1>3. \A k \in DOMAIN backlog' : \/ k \in DOMAIN backlog /\ backlog'[k] = backlog[k]
                                 \/ k = Len(backlog) + 1 /\ backlog'[k] = c
  BY <1>2, LongerOrder
<1>4. /\ Listed(order, arrived) /\ InLine(backlog, order, arrived, fdt) /\ OpenOnce(fdt, arrived)
  BY DEF Rota
<1>5. Listed(order, arrived') /\ OpenOnce(fdt, arrived')
  BY <1>1, <1>4 DEF Listed, OpenOnce
<1>6. InLine(backlog', order, arrived', fdt)
  <2>1. Fresh(c, order) /\ \A y \in Fds : fdt[y] # c
    BY <1>1, <1>4 DEF Listed, OpenOnce, Fresh
  <2> QED BY <1>1, <1>3, <1>4, <2>1 DEF InLine
<1>7. /\ rr = Len(order) /\ NotYet(Told(cq, done), fdt, order)
      /\ ToSend(Unsent(sq, flying), given, order)
      /\ WasSent(Finished(cq, done), given, order, up) /\ InTurn(given, order)
  BY DEF Rota
<1> QED BY <1>1, <1>5, <1>6, <1>7 DEF Rota

LEMMA RotaStarts ==
    ASSUME Init
    PROVE  Rota
<1>1. /\ DOMAIN order = {} /\ Len(order) = 0 /\ rr = 0 /\ DOMAIN backlog = {}
      /\ \A x \in Fds : fdt[x] = None
      /\ \A x \in Clients : given[x] = <<>>
  BY DEF Init
<1>2. Listed(order, arrived) /\ InLine(backlog, order, arrived, fdt) /\ OpenOnce(fdt, arrived)
  BY <1>1 DEF Listed, InLine, OpenOnce
<1>3. Unsent(sq, flying) = {} /\ Finished(cq, done) = {} /\ Told(cq, done) = {}
  BY DEF Init, Unsent, Finished, Told, Sendings, Announcements, Accept
<1>4. /\ NotYet(Told(cq, done), fdt, order) /\ ToSend(Unsent(sq, flying), given, order)
      /\ WasSent(Finished(cq, done), given, order, up)
  BY <1>3 DEF NotYet, ToSend, WasSent
<1>5. InTurn(given, order)
  BY <1>1 DEF InTurn
<1> QED BY <1>1, <1>2, <1>4, <1>5 DEF Rota

LEMMA StepKeepsRota ==
    ASSUME IInv, Rota, [Next]_vars
    PROVE  Rota'
<1>1. CASE UNCHANGED vars
  BY <1>1 DEF Rota, vars
<1>2. CASE SubmitAndWait \/ Reap \/ OnAccept \/ OnAcceptEnd \/ OnSend
  BY <1>2, SubmitRota, ReapRota, AcceptRota, AcceptEndRota, SendRota
<1>3. CASE (\E more \in BOOLEAN : KernelAccept(more)) \/ KernelAcceptEnd
  BY <1>3, KernelAcceptRota, KernelAcceptEndRota
<1>4. CASE \E w \in Workers : KernelSend(w) \/ KernelSendFails(w)
  BY <1>4, KernelSendRota, KernelSendFailsRota
<1>5. CASE \/ \E w \in Workers : WorkerTakes(w) \/ WorkerCrashes(w)
           \/ \E c \in Clients : Arrive(c)
  BY <1>5, PeersRota, ArriveRota
<1> QED BY <1>1, <1>2, <1>3, <1>4, <1>5 DEF Next

LEMMA RotaKept == Spec => [](IInv /\ Rota)
<1>1. Init => IInv /\ Rota
  BY Starts, RotaStarts
<1>2. IInv /\ Rota /\ [Next]_vars => (IInv /\ Rota)'
  BY StepKeeps, StepKeepsRota
<1> QED BY <1>1, <1>2, PTL DEF Spec

\* However many clients and workers, and in whatever order the kernel carries
\* the sends out: the k-th accepted client goes to worker (k - 1) % N only, once.
THEOREM Rotates == Spec => []InRotation
<1>1. Rota => InRotation
  BY DEF Rota, InTurn, InRotation
<1> QED BY <1>1, RotaKept, PTL

\* Only a handled send closes a client, and then its worker has it or is gone.
LEMMA ClosesWhenGiven ==
    ASSUME IInv, Rota, [Next]_vars, NEW f \in Fds, fdt[f] # None, fdt'[f] # fdt[f]
    PROVE  \/ given[fdt[f]] # <<>>
           \/ \E k \in DOMAIN order : order[k] = fdt[f] /\ (k - 1) % N \notin up
<1>1. ASSUME NEW more \in BOOLEAN, KernelAccept(more) PROVE FALSE
  <2>1. LowestFd \in Fds /\ fdt[LowestFd] = None
    BY <1>1, LowestIsFree DEF KernelAccept
  <2>2. fdt' = [fdt EXCEPT ![LowestFd] = Head(backlog)] /\ fdt \in [Fds -> Clients \cup {None}]
    BY <1>1 DEF KernelAccept, IInv, TypeOK
  <2> HIDE DEF LowestFd
  <2> QED BY <2>1, <2>2
<1>2. OnSend
  <2>1. fdt' # fdt
    OBVIOUS
  <2>2. CASE UNCHANGED vars
    BY <2>1, <2>2 DEF vars
  <2>3. CASE SubmitAndWait \/ Reap \/ OnAccept \/ OnAcceptEnd
    BY <2>1, <2>3 DEF SubmitAndWait, Reap, OnAccept, OnAcceptEnd
  <2>4. CASE KernelAcceptEnd \/ \E w \in Workers : KernelSend(w) \/ KernelSendFails(w)
    BY <2>1, <2>4 DEF KernelAcceptEnd, KernelSend, KernelSendFails
  <2>5. CASE \/ \E w \in Workers : WorkerTakes(w) \/ WorkerCrashes(w)
             \/ \E c \in Clients : Arrive(c)
    BY <2>1, <2>5 DEF WorkerTakes, WorkerCrashes, Arrive
  <2> QED BY <1>1, <2>2, <2>3, <2>4, <2>5 DEF Next
<1>3. 1 \in DOMAIN done /\ E = done[1] /\ 1 \in Sendings(done)
  BY <1>2, AtHand DEF OnSend, IInv, Sendings
<1>4. InSlot(E, slots, fdt) /\ E \in Finished(cq, done)
  BY <1>3 DEF IInv, BookKept, Book, AllInSlots, Finished
<1>5. f = slots[E.slot]
  <2>1. fdt \in [Fds -> Clients \cup {None}] /\ fdt' = [fdt EXCEPT ![slots[E.slot]] = None]
    BY <1>2, <1>4, Widths DEF OnSend, InSlot, IInv, TypeOK
  <2> QED BY <2>1
<1>6. fdt[f] = E.who
  BY <1>4, <1>5 DEF InSlot
<1>7. given[E.who] # <<>> \/ \E w : w \notin up /\ HasTurn(E.who, w, order)
  BY <1>4 DEF Rota, WasSent
<1> QED BY <1>6, <1>7 DEF HasTurn

\* However many clients, slots and descriptors are reused: the process closes a
\* client's descriptor only when the client was given away or its worker is gone.
THEOREM ClosesLate == Spec => ClosedWhenGiven
<1>1. IInv /\ Rota /\ [Next]_vars =>
          [\A f \in Fds : fdt[f] # None /\ fdt'[f] # fdt[f] =>
              \/ given[fdt[f]] # <<>>
              \/ \E k \in DOMAIN order : order[k] = fdt[f] /\ (k - 1) % N \notin up]_vars
  BY ClosesWhenGiven
<1> QED BY <1>1, RotaKept, PTL DEF Spec, ClosedWhenGiven
====
