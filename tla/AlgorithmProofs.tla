-------------------------- MODULE AlgorithmProofs --------------------------
(***************************************************************************)
(* Two algorithms for all their inputs.                                    *)
(*                                                                         *)
(* The ring of lib/queue.c implements the queue of Fifo, for any size and  *)
(* any growth.  The invariant is QueueTypeOK: both indices are slots of    *)
(* the ring.  What the ring contains is described without remainders, by   *)
(* the place of the i-th item counted from nextread.                       *)
(*                                                                         *)
(* The generator of pseudorand.c keeps its seed in range.                  *)
(***************************************************************************)
EXTENDS Queue, Pseudorand, SequenceTheorems, TLAPS

(* Going round once.                                                       *)
LEMMA RemainderIs ==
    ASSUME NEW n \in Nat \ {0}, NEW x \in 0..(2 * n - 1)
    PROVE  x % n = IF x < n THEN x ELSE x - n
<1>1. CASE x < n
  BY <1>1
<1>2. CASE x >= n
  BY <1>2
<1> QED BY <1>1, <1>2

(* The state functions of the ring as functions of its parts.              *)
UsedOf(w, r, n) == (w - r + n) % n
PlaceOf(r, i, n) == IF r + i < n THEN r + i ELSE r + i - n
ContentsOf(w, r, n, d) == [i \in 1..UsedOf(w, r, n) |-> d[(r + i - 1) % n]]

Ring(w, r, n, d) ==
    n \in Nat \ {0} /\ w \in Slots(n) /\ r \in Slots(n) /\ d \in [Slots(n) -> Item \cup {Garbage}]

LEMMA UsedIs ==
    ASSUME NEW w, NEW r, NEW n, NEW d, Ring(w, r, n, d)
    PROVE  /\ UsedOf(w, r, n) = IF w >= r THEN w - r ELSE w - r + n
           /\ UsedOf(w, r, n) \in 0..(n - 1)
<1> DEFINE x == w - r + n
<1>1. x \in 0..(2 * n - 1) /\ n \in Nat \ {0}
  BY DEF Ring, Slots
<1> HIDE DEF x
<1>2. x % n = IF x < n THEN x ELSE x - n
  BY <1>1, RemainderIs
<1> QED BY <1>1, <1>2 DEF Ring, Slots, UsedOf, x

LEMMA PlaceIs ==
    ASSUME NEW w, NEW r, NEW n, NEW d, Ring(w, r, n, d), NEW i \in 0..(n - 1)
    PROVE  /\ (r + i) % n = PlaceOf(r, i, n)
           /\ PlaceOf(r, i, n) \in Slots(n)
<1> DEFINE x == r + i
<1>1. x \in 0..(2 * n - 1) /\ n \in Nat \ {0}
  BY DEF Ring, Slots
<1> HIDE DEF x
<1>2. x % n = IF x < n THEN x ELSE x - n
  BY <1>1, RemainderIs
<1> QED BY <1>1, <1>2 DEF Ring, Slots, PlaceOf, x

LEMMA ContentsIs ==
    ASSUME NEW w, NEW r, NEW n, NEW d, Ring(w, r, n, d)
    PROVE  /\ ContentsOf(w, r, n, d) \in Seq(Item \cup {Garbage})
           /\ Len(ContentsOf(w, r, n, d)) = UsedOf(w, r, n)
           /\ \A i \in 1..UsedOf(w, r, n) :
                 ContentsOf(w, r, n, d)[i] = d[PlaceOf(r, i - 1, n)]
<1> DEFINE u == UsedOf(w, r, n)
           c == ContentsOf(w, r, n, d)
<1>1. u \in 0..(n - 1) /\ n \in Nat \ {0} /\ r \in Int
  BY UsedIs DEF Ring, Slots
<1>2. ASSUME NEW i \in 1..u
      PROVE  c[i] = d[PlaceOf(r, i - 1, n)] /\ PlaceOf(r, i - 1, n) \in Slots(n)
  <2>1. i - 1 \in 0..(n - 1) /\ r + i - 1 = r + (i - 1)
    BY <1>1
  <2>2. c[i] = d[(r + i - 1) % n]
    BY DEF ContentsOf
  <2> QED BY <2>1, <2>2, PlaceIs
<1>3. \A i \in 1..u : c[i] \in Item \cup {Garbage}
  BY <1>2 DEF Ring
<1>4. c = [i \in 1..u |-> c[i]]
  BY DEF ContentsOf
<1> HIDE DEF c
<1>5. c \in Seq(Item \cup {Garbage}) /\ Len(c) = u
  BY <1>1, <1>3, <1>4
<1> QED BY <1>2, <1>5 DEF c

LEMMA RingNow ==
    ASSUME QueueTypeOK
    PROVE  Ring(nextwrite, nextread, size, data) /\ size \in 1..MaxSize /\ MaxSize \in Nat
BY QueueConstants DEF QueueTypeOK, Ring

LEMMA UsedNow == /\ Used = UsedOf(nextwrite, nextread, size)
                 /\ Contents = ContentsOf(nextwrite, nextread, size, data)
                 /\ Contents' = ContentsOf(nextwrite', nextread', size', data')
BY DEF Used, UsedOf, Contents, ContentsOf

(* Two sequences of one length and the same elements.                      *)
LEMMA SameSequence ==
    ASSUME NEW S, NEW s \in Seq(S), NEW t \in Seq(S), Len(s) = Len(t),
           \A i \in 1..Len(s) : s[i] = t[i]
    PROVE  s = t
OBVIOUS

(* The ring holds one item more, the new one last.                         *)
LEMMA Appended ==
    ASSUME NEW w, NEW r, NEW n, NEW d, Ring(w, r, n, d),
           NEW w2, NEW r2, NEW n2, NEW d2, Ring(w2, r2, n2, d2), NEW x \in Item,
           UsedOf(w2, r2, n2) = UsedOf(w, r, n) + 1,
           d2[PlaceOf(r2, UsedOf(w, r, n), n2)] = x,
           \A i \in 0..(UsedOf(w, r, n) - 1) : d2[PlaceOf(r2, i, n2)] = d[PlaceOf(r, i, n)]
    PROVE  ContentsOf(w2, r2, n2, d2) = Append(ContentsOf(w, r, n, d), x)
<1> DEFINE u == UsedOf(w, r, n)
           c == ContentsOf(w, r, n, d)
           c2 == ContentsOf(w2, r2, n2, d2)
           S == Item \cup {Garbage}
<1>1. /\ c \in Seq(S) /\ Len(c) = u
      /\ \A i \in 1..u : c[i] = d[PlaceOf(r, i - 1, n)]
  BY ContentsIs
<1>2. /\ c2 \in Seq(S) /\ Len(c2) = u + 1
      /\ \A i \in 1..(u + 1) : c2[i] = d2[PlaceOf(r2, i - 1, n2)]
  BY ContentsIs
<1>3. u \in Nat /\ x \in S
  BY UsedIs DEF Ring
<1> HIDE DEF u, c, c2, S
<1>4. /\ Append(c, x) \in Seq(S) /\ Len(Append(c, x)) = u + 1
      /\ \A i \in 1..u : Append(c, x)[i] = c[i]
      /\ Append(c, x)[u + 1] = x
  BY <1>1, <1>3
<1>5. ASSUME NEW i \in 1..(u + 1) PROVE c2[i] = Append(c, x)[i]
  <2>1. CASE i = u + 1
    <3>1. i - 1 = u
      BY <2>1, <1>3
    <3> QED BY <3>1, <2>1, <1>2, <1>4 DEF u
  <2>2. CASE i # u + 1
    <3>1. i \in 1..u /\ i - 1 \in 0..(u - 1)
      BY <2>2, <1>3
    <3> QED BY <3>1, <1>1, <1>2, <1>4 DEF u
  <2> QED BY <2>1, <2>2
<1>6. c2 = Append(c, x)
  BY <1>2, <1>4, <1>5, SameSequence
<1> QED BY <1>6 DEF c, c2

(* The ring holds what it held.                                            *)
LEMMA Kept ==
    ASSUME NEW w, NEW r, NEW n, NEW d, Ring(w, r, n, d),
           NEW w2, NEW r2, NEW n2, NEW d2, Ring(w2, r2, n2, d2),
           UsedOf(w2, r2, n2) = UsedOf(w, r, n),
           \A i \in 0..(UsedOf(w, r, n) - 1) : d2[PlaceOf(r2, i, n2)] = d[PlaceOf(r, i, n)]
    PROVE  ContentsOf(w2, r2, n2, d2) = ContentsOf(w, r, n, d)
<1> DEFINE u == UsedOf(w, r, n)
           c == ContentsOf(w, r, n, d)
           c2 == ContentsOf(w2, r2, n2, d2)
           S == Item \cup {Garbage}
<1>1. /\ c \in Seq(S) /\ Len(c) = u
      /\ \A i \in 1..u : c[i] = d[PlaceOf(r, i - 1, n)]
  BY ContentsIs
<1>2. /\ c2 \in Seq(S) /\ Len(c2) = u
      /\ \A i \in 1..u : c2[i] = d2[PlaceOf(r2, i - 1, n2)]
  BY ContentsIs
<1>3. u \in Nat
  BY UsedIs DEF Ring
<1>4. \A i \in 1..u : i - 1 \in 0..(u - 1)
  BY <1>3
<1>5. \A i \in 1..u : c2[i] = c[i]
  BY <1>1, <1>2, <1>4
<1> HIDE DEF u, c, c2, S
<1>6. c2 = c
  BY <1>1, <1>2, <1>5, SameSequence
<1> QED BY <1>6 DEF c, c2

-----------------------------------------------------------------------------
(* q_addtail into a ring with room.                                        *)
LEMMA AddInPlaceAppends ==
    ASSUME QueueTypeOK, NEW x \in Item, AddInPlace(x)
    PROVE  Ring(nextwrite', nextread', size', data') /\ Contents' = Append(Contents, x)
<1> DEFINE next == IF nextwrite + 1 = size THEN 0 ELSE nextwrite + 1
<1>1. Ring(nextwrite, nextread, size, data)
  BY RingNow
<1>2. nextwrite + 1 \in 0..(2 * size - 1) /\ size \in Nat \ {0}
  BY <1>1 DEF Ring, Slots
<1>3. (nextwrite + 1) % size = next
  <2> DEFINE y == nextwrite + 1
  <2>1. y \in 0..(2 * size - 1)
    BY <1>2
  <2> HIDE DEF y
  <2>2. y % size = IF y < size THEN y ELSE y - size
    BY <2>1, <1>2, RemainderIs
  <2> QED BY <2>1, <2>2, <1>1, <1>2 DEF Ring, Slots, y
<1>4. /\ next # nextread /\ nextwrite' = next /\ size' = size /\ nextread' = nextread
      /\ data' = [data EXCEPT ![nextwrite] = x]
  BY <1>3 DEF AddInPlace
<1>5. Ring(next, nextread, size, data')
  BY <1>1, <1>4 DEF Ring, Slots
<1> DEFINE u == UsedOf(nextwrite, nextread, size)
<1>6. u = (IF nextwrite >= nextread THEN nextwrite - nextread ELSE nextwrite - nextread + size)
      /\ u \in 0..(size - 1)
  BY <1>1, UsedIs
<1>7. UsedOf(next, nextread, size) = IF next >= nextread THEN next - nextread
                                     ELSE next - nextread + size
  BY <1>5, UsedIs
<1> HIDE DEF u
<1>8. UsedOf(next, nextread, size) = u + 1
  BY <1>1, <1>4, <1>6, <1>7 DEF Ring, Slots
<1>9. PlaceOf(nextread, u, size) = nextwrite
  BY <1>1, <1>6 DEF Ring, Slots, PlaceOf
<1>10. \A i \in 0..(u - 1) : PlaceOf(nextread, i, size) # nextwrite
                             /\ PlaceOf(nextread, i, size) \in Slots(size)
  BY <1>1, <1>6 DEF Ring, Slots, PlaceOf
<1>11. /\ data'[PlaceOf(nextread, u, size)] = x
       /\ \A i \in 0..(u - 1) : data'[PlaceOf(nextread, i, size)] = data[PlaceOf(nextread, i, size)]
  BY <1>1, <1>4, <1>9, <1>10 DEF Ring
<1>12. ContentsOf(next, nextread, size, data') = Append(ContentsOf(nextwrite, nextread, size, data), x)
  BY <1>1, <1>5, <1>8, <1>11, Appended DEF u
<1> QED BY <1>4, <1>5, <1>12, UsedNow

(* q_grow: the larger ring holds the same items from slot 0 on.            *)
LEMMA GrowCopies ==
    ASSUME QueueTypeOK, NEW n \in 1..MaxSize, n > size
    PROVE  /\ CopiedRing(n) \in [Slots(n) -> Item \cup {Garbage}]
           /\ Used \in 0..(size - 1)
           /\ \A i \in 0..(Used - 1) :
                 /\ i \in Slots(n)
                 /\ CopiedRing(n)[i] = data[PlaceOf(nextread, i, size)]
<1>1. Ring(nextwrite, nextread, size, data) /\ size \in Nat \ {0} /\ n \in Nat
  BY RingNow
<1>2. Used \in 0..(size - 1)
  BY <1>1, UsedIs, UsedNow
<1>3. \A i \in 0..(Used - 1) : /\ i \in 0..(size - 1) /\ i \in Slots(n)
  BY <1>1, <1>2 DEF Slots
<1>4. \A i \in 0..(Used - 1) : /\ (nextread + i) % size = PlaceOf(nextread, i, size)
                               /\ PlaceOf(nextread, i, size) \in Slots(size)
  BY <1>1, <1>3, PlaceIs
<1>5. ASSUME NEW i \in Slots(n)
      PROVE  (IF i < Used THEN data[(nextread + i) % size] ELSE Garbage) \in Item \cup {Garbage}
  <2>1. i < Used => i \in 0..(Used - 1)
    BY <1>1, <1>2 DEF Slots
  <2> QED BY <2>1, <1>1, <1>4 DEF Ring
<1>6. CopiedRing(n) \in [Slots(n) -> Item \cup {Garbage}]
  BY <1>5 DEF CopiedRing
<1>7. \A i \in 0..(Used - 1) : CopiedRing(n)[i] = data[PlaceOf(nextread, i, size)]
  <2>1. \A i \in 0..(Used - 1) : i < Used
    BY <1>2
  <2> QED BY <2>1, <1>3, <1>4 DEF CopiedRing
<1> QED BY <1>2, <1>3, <1>6, <1>7

(* q_addtail into a full ring.                                             *)
LEMMA AddGrowingAppends ==
    ASSUME QueueTypeOK, NEW x \in Item, AddGrowing(x)
    PROVE  /\ Ring(nextwrite', nextread', size', data') /\ size' \in 1..MaxSize
           /\ Contents' = Append(Contents, x)
<1>1. Ring(nextwrite, nextread, size, data) /\ size \in 1..MaxSize /\ MaxSize \in Nat
  BY RingNow
<1>2. PICK n \in 1..MaxSize :
        /\ n >= size + 1 /\ size' = n /\ data' = [CopiedRing(n) EXCEPT ![Used] = x]
        /\ nextread' = 0 /\ nextwrite' = (Used + 1) % n
  BY DEF AddGrowing, GrownSize
<1>3. n > size /\ n \in Nat
  BY <1>1, <1>2
<1> DEFINE u == UsedOf(nextwrite, nextread, size)
<1>4. /\ Used = u /\ u \in 0..(size - 1) /\ CopiedRing(n) \in [Slots(n) -> Item \cup {Garbage}]
      /\ \A i \in 0..(u - 1) : /\ i \in Slots(n)
                               /\ CopiedRing(n)[i] = data[PlaceOf(nextread, i, size)]
  BY <1>3, GrowCopies, UsedNow
<1> HIDE DEF u
<1>5. u \in Slots(n) /\ u + 1 \in Slots(n) /\ u + 1 \in 0..(2 * n - 1) /\ n \in Nat \ {0}
  BY <1>1, <1>3, <1>4 DEF Slots
<1>6. nextwrite' = u + 1
  BY <1>2, <1>4, <1>5, RemainderIs DEF Slots
<1>7. Ring(u + 1, 0, n, data')
  BY <1>2, <1>4, <1>5 DEF Ring, Slots
<1>8. UsedOf(u + 1, 0, n) = u + 1
  BY <1>4, <1>7, UsedIs
<1>9. \A i \in Slots(n) : PlaceOf(0, i, n) = i
  BY <1>5 DEF Slots, PlaceOf
<1>10. data'[PlaceOf(0, u, n)] = x
  BY <1>2, <1>4, <1>5, <1>9
<1>11. \A i \in 0..(u - 1) : data'[PlaceOf(0, i, n)] = data[PlaceOf(nextread, i, size)]
  <2>1. \A i \in 0..(u - 1) : i # u
    BY <1>4
  <2> QED BY <2>1, <1>2, <1>4, <1>9
<1>12. ContentsOf(u + 1, 0, n, data') = Append(ContentsOf(nextwrite, nextread, size, data), x)
  BY <1>1, <1>7, <1>8, <1>10, <1>11, Appended DEF u
<1> QED BY <1>2, <1>6, <1>7, <1>12, UsedNow

(* q_preallocate.                                                          *)
LEMMA PreallocateKeeps ==
    ASSUME QueueTypeOK, NEW target \in 1..MaxSize, Preallocate(target)
    PROVE  /\ Ring(nextwrite', nextread', size', data') /\ size' \in 1..MaxSize
           /\ Contents' = Contents
<1>1. Ring(nextwrite, nextread, size, data) /\ size \in 1..MaxSize /\ MaxSize \in Nat
  BY RingNow
<1>2. PICK n \in 1..MaxSize :
        /\ n >= target /\ size' = n /\ data' = CopiedRing(n) /\ nextread' = 0 /\ nextwrite' = Used
  BY DEF Preallocate, GrownSize
<1>3. n > size /\ n \in Nat
  BY <1>1, <1>2 DEF Preallocate
<1> DEFINE u == UsedOf(nextwrite, nextread, size)
<1>4. /\ Used = u /\ u \in 0..(size - 1) /\ CopiedRing(n) \in [Slots(n) -> Item \cup {Garbage}]
      /\ \A i \in 0..(u - 1) : /\ i \in Slots(n)
                               /\ CopiedRing(n)[i] = data[PlaceOf(nextread, i, size)]
  BY <1>3, GrowCopies, UsedNow
<1> HIDE DEF u
<1>5. Ring(u, 0, n, data')
  BY <1>1, <1>2, <1>3, <1>4 DEF Ring, Slots
<1>6. UsedOf(u, 0, n) = u
  BY <1>4, <1>5, UsedIs
<1>7. \A i \in Slots(n) : PlaceOf(0, i, n) = i
  BY <1>3 DEF Slots, PlaceOf
<1>8. \A i \in 0..(u - 1) : data'[PlaceOf(0, i, n)] = data[PlaceOf(nextread, i, size)]
  BY <1>2, <1>4, <1>7
<1>9. ContentsOf(u, 0, n, data') = ContentsOf(nextwrite, nextread, size, data)
  BY <1>1, <1>5, <1>6, <1>8, Kept DEF u
<1> QED BY <1>2, <1>4, <1>5, <1>9, UsedNow

(* q_remhead.                                                              *)
LEMMA RemHeadRemoves ==
    ASSUME QueueTypeOK, RemHead
    PROVE  /\ Ring(nextwrite', nextread', size', data')
           /\ Contents # << >> /\ got' = << Head(Contents) >> /\ Contents' = Tail(Contents)
           /\ data[nextread] \in Item \cup {Garbage}
<1> DEFINE next == IF nextread + 1 = size THEN 0 ELSE nextread + 1
           u == UsedOf(nextwrite, nextread, size)
           c == ContentsOf(nextwrite, nextread, size, data)
           c2 == ContentsOf(nextwrite, next, size, data)
           S == Item \cup {Garbage}
<1>1. Ring(nextwrite, nextread, size, data)
  BY RingNow
<1>2. nextread + 1 \in 0..(2 * size - 1) /\ size \in Nat \ {0}
  BY <1>1 DEF Ring, Slots
<1>3. (nextread + 1) % size = next
  <2> DEFINE x == nextread + 1
  <2>1. x \in 0..(2 * size - 1)
    BY <1>2
  <2> HIDE DEF x
  <2>2. x % size = IF x < size THEN x ELSE x - size
    BY <2>1, <1>2, RemainderIs
  <2> QED BY <2>1, <2>2, <1>1, <1>2 DEF Ring, Slots, x
<1>4. /\ nextwrite # nextread /\ nextread' = next /\ size' = size /\ nextwrite' = nextwrite
      /\ data' = data /\ got' = << data[nextread] >>
  BY <1>3 DEF RemHead, Empty
<1>5. Ring(nextwrite, next, size, data)
  BY <1>1, <1>4 DEF Ring, Slots
<1>6. u = (IF nextwrite >= nextread THEN nextwrite - nextread ELSE nextwrite - nextread + size)
      /\ u \in 0..(size - 1)
  BY <1>1, UsedIs
<1>7. UsedOf(nextwrite, next, size) = IF nextwrite >= next THEN nextwrite - next
                                      ELSE nextwrite - next + size
  BY <1>5, UsedIs
<1>8. /\ c \in Seq(S) /\ Len(c) = u
      /\ \A i \in 1..u : c[i] = data[PlaceOf(nextread, i - 1, size)]
  BY <1>1, ContentsIs
<1>9. /\ c2 \in Seq(S) /\ Len(c2) = UsedOf(nextwrite, next, size)
      /\ \A i \in 1..UsedOf(nextwrite, next, size) : c2[i] = data[PlaceOf(next, i - 1, size)]
  BY <1>5, ContentsIs
<1> HIDE DEF u, c, c2, S
<1>10. UsedOf(nextwrite, next, size) = u - 1 /\ u > 0
  BY <1>1, <1>4, <1>6, <1>7 DEF Ring, Slots
<1>11. c # << >> /\ Head(c) = data[nextread]
  <2>1. PlaceOf(nextread, 0, size) = nextread /\ 1 \in 1..u
    BY <1>1, <1>6, <1>10 DEF Ring, Slots, PlaceOf
  <2>2. c[1] = data[nextread] /\ Len(c) > 0
    BY <2>1, <1>8, <1>10
  <2> QED BY <2>2, <1>8
<1>12. c2 = Tail(c)
  <2>1. /\ Tail(c) \in Seq(S) /\ Len(Tail(c)) = u - 1
        /\ \A i \in 1..(u - 1) : Tail(c)[i] = c[i + 1]
    BY <1>6, <1>8, <1>10, <1>11
  <2>2. ASSUME NEW i \in 1..(u - 1) PROVE c2[i] = c[i + 1]
    <3>1. i + 1 \in 1..u /\ (i + 1) - 1 = i
      BY <1>6
    <3>2. PlaceOf(next, i - 1, size) = PlaceOf(nextread, i, size)
      BY <1>1, <1>6, <1>10 DEF Ring, Slots, PlaceOf
    <3> QED BY <3>1, <3>2, <1>8, <1>9, <1>10
  <2> QED BY <2>1, <2>2, <1>9, <1>10, SameSequence
<1> QED BY <1>1, <1>4, <1>5, <1>11, <1>12, UsedNow DEF Ring, c, c2

-----------------------------------------------------------------------------
LEMMA QueueTypes == QueueTypeOK /\ [QueueNext]_queueVars => QueueTypeOK'
<1> SUFFICES ASSUME QueueTypeOK, [QueueNext]_queueVars PROVE QueueTypeOK'
  OBVIOUS
<1>1. ASSUME Ring(nextwrite', nextread', size', data'), size' \in 1..MaxSize, got' = << >>
      PROVE  QueueTypeOK'
  BY <1>1 DEF QueueTypeOK, Ring
<1>2. ASSUME NEW x \in Item, AddTail(x) PROVE QueueTypeOK'
  BY <1>1, <1>2, AddInPlaceAppends, AddGrowingAppends, RingNow DEF AddTail, AddInPlace
<1>3. CASE AddTailFails
  BY <1>3 DEF AddTailFails, QueueTypeOK
<1>4. CASE RemHead
  <2>1. Ring(nextwrite', nextread', size', data') /\ data[nextread] \in Item \cup {Garbage}
    BY <1>4, RemHeadRemoves
  <2>2. size' = size /\ got' = << data[nextread] >>
    BY <1>4 DEF RemHead
  <2> QED BY <2>1, <2>2 DEF QueueTypeOK, Ring
<1>5. ASSUME NEW target \in 1..MaxSize, Preallocate(target) PROVE QueueTypeOK'
  <2>1. got' = << >>
    BY <1>5 DEF Preallocate
  <2> QED BY <1>1, <1>5, <2>1, PreallocateKeeps
<1>6. CASE UNCHANGED queueVars
  BY <1>6 DEF queueVars, QueueTypeOK
<1> QED BY <1>2, <1>3, <1>4, <1>5, <1>6 DEF QueueNext

LEMMA QueueSteps == QueueTypeOK /\ [QueueNext]_queueVars => [Q!Next]_(Q!vars)
<1> SUFFICES ASSUME QueueTypeOK, [QueueNext]_queueVars PROVE [Q!Next]_(Q!vars)
  OBVIOUS
<1>1. ASSUME NEW x \in Item, AddTail(x) PROVE Q!Next
  BY <1>1, AddInPlaceAppends, AddGrowingAppends DEF AddTail, Q!Next, Q!Add
<1>2. CASE AddTailFails
  <2>1. Contents' = Contents /\ got' = << >>
    BY <1>2, UsedNow DEF AddTailFails
  <2> QED BY <2>1 DEF Q!Next, Q!NoEffect
<1>3. CASE RemHead
  BY <1>3, RemHeadRemoves DEF Q!Next, Q!Remove
<1>4. ASSUME NEW target \in 1..MaxSize, Preallocate(target) PROVE Q!Next
  <2>1. Contents' = Contents /\ got' = << >>
    BY <1>4, PreallocateKeeps DEF Preallocate
  <2> QED BY <2>1 DEF Q!Next, Q!NoEffect
<1>5. CASE UNCHANGED queueVars
  <2>1. Contents' = Contents /\ got' = got
    BY <1>5, UsedNow DEF queueVars
  <2> QED BY <2>1 DEF Q!vars
<1> QED BY <1>1, <1>2, <1>3, <1>4, <1>5 DEF QueueNext

LEMMA QueueBegins == QueueInit => QueueTypeOK /\ Q!Init
<1> SUFFICES ASSUME QueueInit PROVE QueueTypeOK /\ Q!Init
  OBVIOUS
<1>1. QueueTypeOK
  BY QueueConstants DEF QueueInit, QueueTypeOK, Slots
<1>2. Ring(0, 0, size, data) /\ nextwrite = 0 /\ nextread = 0 /\ got = << >>
  BY <1>1, RingNow DEF QueueInit
<1>3. UsedOf(0, 0, size) = 0
  BY <1>2, UsedIs
<1>4. Contents \in Seq(Item \cup {Garbage}) /\ Len(Contents) = 0
  BY <1>2, <1>3, ContentsIs, UsedNow
<1>5. Contents = << >>
  BY <1>4
<1> QED BY <1>1, <1>2, <1>5 DEF Q!Init

(* queue.c implements a first-in first-out queue: in whatever position the *)
(* ring has wrapped and however often it has grown, items come out in the  *)
(* order they went in, none lost and none twice.                           *)
THEOREM QueueImplementsFifo == QueueSpec => ImplementsFifo
<1> QED BY QueueBegins, QueueTypes, QueueSteps, PTL DEF QueueSpec, ImplementsFifo, Q!Spec

-----------------------------------------------------------------------------
(* The claim about the seed, for every seed there is: TLC only follows the *)
(* generator for a few steps from a few of them.  What a division leaves:  *)
LEMMA Split ==
  ASSUME NEW seed \in Int, seed >= 1, seed <= 2147483646
  PROVE  /\ seed \div 127773 \in Int /\ seed % 127773 \in Int
         /\ seed \div 127773 >= 0 /\ seed \div 127773 <= 16807
         /\ seed % 127773 >= 0 /\ seed % 127773 <= 127772
         /\ seed = 127773 * (seed \div 127773) + (seed % 127773)
  BY Z3

(* 16807 and 2836 have no common factor, so the difference is zero only    *)
(* for hi = 16807 and lo = 2836: for the seed MODULUS.                     *)
LEMMA NeverZero ==
  ASSUME NEW hi \in Int, NEW lo \in Int, hi >= 0, hi <= 16807, lo >= 0, lo <= 127772,
         127773 * hi + lo >= 1, 127773 * hi + lo <= 2147483646
  PROVE  16807 * lo - 2836 * hi # 0
  BY Z3

(* One call takes a seed in 1..MODULUS-1 to a seed in 1..MODULUS-1, and    *)
(* its int32_t arithmetic never overflows.                                 *)
THEOREM SeedStaysInRange ==
  ASSUME NEW seed, SeedInRange(seed)
  PROVE  SeedInRange(pseudorand_next(seed)) /\ NoOverflow(seed)
<1> DEFINE hi == seed \div 127773
<1> DEFINE lo == seed % 127773
<1>1. seed \in Int /\ seed >= 1 /\ seed <= 2147483646
  BY Z3 DEF SeedInRange, MODULUS
<1>2. /\ hi \in Int /\ lo \in Int /\ hi >= 0 /\ hi <= 16807 /\ lo >= 0 /\ lo <= 127772
      /\ seed = 127773 * hi + lo
  BY Z3, <1>1, Split
<1> HIDE DEF hi, lo
<1>3. 16807 * lo - 2836 * hi # 0
  BY Z3, <1>1, <1>2, NeverZero
<1>4. /\ 16807 * lo <= 2147464004 /\ 2836 * hi <= 47664652
      /\ 16807 * lo - 2836 * hi >= 0 - 47664652
      /\ 16807 * lo - 2836 * hi <= 2147464004
  BY Z3, <1>2
<1>5. NoOverflow(seed)
  BY Z3, <1>2, <1>4 DEF NoOverflow, MODULUS, MULTIPLIER, K1, K2, hi, lo
<1>6. pseudorand_next(seed) = IF 16807 * lo - 2836 * hi <= 0
                              THEN 16807 * lo - 2836 * hi + 2147483647
                              ELSE 16807 * lo - 2836 * hi
  BY Z3, <1>2 DEF pseudorand_next, MODULUS, MULTIPLIER, K1, K2, hi, lo
<1>7. SeedInRange(pseudorand_next(seed))
  BY Z3, <1>2, <1>3, <1>4, <1>6 DEF SeedInRange, MODULUS
<1>8. QED
  BY <1>5, <1>7
=============================================================================
