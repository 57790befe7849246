----------------------------- MODULE Containers -----------------------------
(***************************************************************************)
(* The growable array (lib/array.c) and the bitmap (lib/bitmap.c), their   *)
(* operations as functions on their representation, used in any order on   *)
(* one array and one bitmap; and the kernel's tests of them                *)
(* (test/arraytest.c, test/bitmaptest.c).  kmalloc (external) may fail.    *)
(***************************************************************************)
EXTENDS Integers, FiniteSets, SequencesExt

CONSTANTS Guys,            \* pointers kept in the array
          JUNK,            \* what a fresh kmalloc holds
          KeepArray,       \* array_setsize(a, 0) frees a larger array (16)
          MaxNum,          \* bound on the array's length
          WordBits,        \* BITS_PER_WORD
          BitCounts,       \* sizes of bitmaps that are tried
          TestSizes        \* values tried for TESTSIZE

ASSUME ContainersConstants ==
    /\ JUNK \notin Guys /\ KeepArray \in Nat /\ WordBits \in Nat \ {0}
    /\ BitCounts \subseteq Nat \ {0} /\ \A n \in TestSizes : n \in Nat /\ n >= 6

VARIABLES
    arr, aview,      \* the array, and the sequence its user has put there
    bm, bview,       \* the bitmap, and the set of bits its user has set
    conOk,           \* no assertion of array.c or bitmap.c has failed
    tsize            \* the TESTSIZE of this build

conVars == <<arr, aview, bm, bview, conOk, tsize>>

-----------------------------------------------------------------------------
(* array.c: num and max, and the max slots of v.                           *)
array_create == [num |-> 0, max |-> 0, v |-> <<>>]

(* newmax = (newmax+1)*2 until it is enough.                               *)
NewMax[m \in Nat, n \in Nat] == IF n > m THEN NewMax[(m + 1) * 2, n] ELSE m

(* Fault: the old slots are not copied past the first.                     *)
PreallocateShort(a, n) ==
    LET s == NewMax[a.max, n]
    IN [a EXCEPT !.max = s, !.v = [k \in 1..s |-> IF k < a.num THEN a.v[k] ELSE JUNK]]

array_preallocate(a, n) ==
    LET s == NewMax[a.max, n]
    IN [a EXCEPT !.max = s, !.v = [k \in 1..s |-> IF k <= a.num THEN a.v[k] ELSE JUNK]]

array_setsize(a, n) ==
    LET b == IF n > a.max THEN array_preallocate(a, n)
             ELSE IF n = 0 /\ a.max > KeepArray THEN [a EXCEPT !.v = <<>>, !.max = 0]
             ELSE a
    IN [b EXCEPT !.num = n]

array_getguy(a, i) == a.v[i + 1]
array_setguy(a, i, g) == [a EXCEPT !.v[i + 1] = g]
array_add(a, g) == array_setguy(array_setsize(a, a.num + 1), a.num, g)
array_remove(a, i) ==
    [a EXCEPT !.num = @ - 1, !.v = [k \in 1..a.max |-> IF k > i /\ k < a.num THEN @[k + 1] ELSE @[k]]]

(* bitmap.c: words of WordBits bits, the bits past nbits marked.           *)
Words(n) == (n + WordBits - 1) \div WordBits

(* Fault: the leftover bits are not marked.                                *)
BitmapCreateLoose(n) == [nbits |-> n, v |-> [w \in 0..(Words(n) - 1) |-> {}]]

bitmap_create(n) ==
    [nbits |-> n,
     v |-> [w \in 0..(Words(n) - 1) |->
               {j \in 0..(WordBits - 1) : n \div WordBits < Words(n) /\ w = Words(n) - 1
                                            /\ j >= n - w * WordBits}]]

bitmap_isset(b, i) == (i % WordBits) \in b.v[i \div WordBits]
bitmap_mark(b, i) == [b EXCEPT !.v[i \div WordBits] = @ \cup {i % WordBits}]
bitmap_unmark(b, i) == [b EXCEPT !.v[i \div WordBits] = @ \ {i % WordBits}]

Full(b, w) == b.v[w] = 0..(WordBits - 1)
NoSpace(b) == \A w \in DOMAIN b.v : Full(b, w)
(* The first word that is not full, and its first clear bit.               *)
AllocIndex(b) ==
    LET w == Min({x \in DOMAIN b.v : ~ Full(b, x)})
    IN w * WordBits + Min(0..(WordBits - 1) \ b.v[w])

-----------------------------------------------------------------------------
ContainersInit ==
    /\ arr = array_create /\ aview = <<>>
    /\ bm \in {bitmap_create(n) : n \in BitCounts} /\ bview = {}
    /\ conOk = TRUE /\ tsize \in TestSizes

(* The array's operations.  One that needs memory and gets none leaves the *)
(* array alone.  The entries added by growing hold anything: JUNK.         *)
ArrayAdd(g) ==
    /\ arr.num < MaxNum
    /\ \/ arr' = array_add(arr, g) /\ aview' = Append(aview, g)
       \/ arr.num + 1 > arr.max /\ UNCHANGED <<arr, aview>>
    /\ UNCHANGED <<bm, bview, conOk, tsize>>

ArraySetsize(n) ==
    /\ \/ /\ arr' = array_setsize(arr, n)
          /\ aview' = [k \in 1..n |-> IF k <= Len(aview) THEN aview[k] ELSE JUNK]
       \/ n > arr.max /\ UNCHANGED <<arr, aview>>
    /\ UNCHANGED <<bm, bview, conOk, tsize>>

ArraySetguy(i, g) ==
    /\ i < arr.num
    /\ arr' = array_setguy(arr, i, g) /\ aview' = [aview EXCEPT ![i + 1] = g]
    /\ UNCHANGED <<bm, bview, conOk, tsize>>

ArrayRemove(i) ==
    /\ i < arr.num
    /\ arr' = array_remove(arr, i)
    /\ aview' = SubSeq(aview, 1, i) \o SubSeq(aview, i + 2, Len(aview))
    /\ UNCHANGED <<bm, bview, conOk, tsize>>

(* The bitmap's operations; marking twice is an assertion failure, which   *)
(* the callers avoid.                                                      *)
BitmapAlloc ==
    /\ IF NoSpace(bm) THEN UNCHANGED <<bm, bview, conOk>>
       ELSE /\ bm' = bitmap_mark(bm, AllocIndex(bm))
            /\ conOk' = (conOk /\ AllocIndex(bm) < bm.nbits)
            /\ bview' = bview \cup {AllocIndex(bm)}
    /\ UNCHANGED <<arr, aview, tsize>>

BitmapMark(i) ==
    /\ i < bm.nbits /\ i \notin bview
    /\ conOk' = (conOk /\ ~ bitmap_isset(bm, i))
    /\ bm' = bitmap_mark(bm, i) /\ bview' = bview \cup {i}
    /\ UNCHANGED <<arr, aview, tsize>>

BitmapUnmark(i) ==
    /\ i \in bview
    /\ conOk' = (conOk /\ bitmap_isset(bm, i))
    /\ bm' = bitmap_unmark(bm, i) /\ bview' = bview \ {i}
    /\ UNCHANGED <<arr, aview, tsize>>

ContainersNext ==
    \/ \E g \in Guys : ArrayAdd(g) \/ \E i \in 0..(MaxNum - 1) : ArraySetguy(i, g)
    \/ \E i \in 0..(MaxNum - 1) : ArrayRemove(i)
    \/ \E n \in 0..MaxNum : ArraySetsize(n)
    \/ BitmapAlloc
    \/ \E i \in 0..Max(BitCounts) : BitmapMark(i) \/ BitmapUnmark(i)

-----------------------------------------------------------------------------
(* test/arraytest.c: testa on array a, with TESTSIZE = n; the array it     *)
(* leaves, and whether every assertion held.  -1 is NULL.                  *)
Holds(a, i, x) == i < a.num /\ array_getguy(a, i) = x
UpTo(n) == [k \in 1..n |-> k - 1]

testa(a, n) ==
    LET half == n \div 2
        a1 == FoldLeft(array_add, a, UpTo(n))
        a2 == FoldLeft(LAMBDA x, i : array_setguy(x, i, n - i - 1), a1, UpTo(n))
        a3 == array_setsize(a2, half)
        a4 == array_remove(a3, 1)
        a5 == array_setsize(a4, 2)
        a6 == array_setsize(array_setguy(a5, 1, -1), 2)
        a7 == array_setsize(a6, n * 10)
    IN [left |-> a7,
        ok |-> /\ a.num = 0 /\ a1.num = n
               /\ \A i \in 0..(n - 1) : Holds(a1, i, i) /\ Holds(a2, i, n - i - 1)
               /\ \A i \in 0..(half - 1) : Holds(a3, i, n - i - 1)
               /\ \A i \in 1..(half - 2) : Holds(a4, i, n - i - 2)
               /\ Holds(a4, 0, n - 1) /\ Holds(a5, 0, n - 1) /\ Holds(a5, 1, n - 3)
               /\ \A x \in {a6, a7} : Holds(x, 0, n - 1) /\ Holds(x, 1, -1)]

arraytest(n) ==
    LET first == testa(array_create, n)
    IN first.ok /\ testa(array_setsize(first.left, 0), n).ok

(* test/bitmaptest.c, for one choice of the random bits data.              *)
bitmaptest(n, data) ==
    LET all == UpTo(n)
        b0 == bitmap_create(n)
        b1 == FoldLeft(bitmap_mark, b0, SelectSeq(all, LAMBDA i : i \in data))
        b2 == FoldLeft(LAMBDA b, i : IF i \in data THEN bitmap_unmark(b, i) ELSE bitmap_mark(b, i),
                       b1, all)
        Alloc(s, k) == IF NoSpace(s.b) THEN s
                       ELSE LET x == AllocIndex(s.b)
                            IN [b |-> bitmap_mark(s.b, x), data |-> s.data \ {x},
                                ok |-> s.ok /\ x < n /\ x \in s.data]
        end == FoldLeft(Alloc, [b |-> b2, data |-> data, ok |-> TRUE], <<-1>> \o all)
    IN /\ \A i \in 0..(n - 1) : ~ bitmap_isset(b0, i) /\ (bitmap_isset(b1, i) <=> i \in data)
       /\ \A i \in 0..(n - 1) : bitmap_isset(b2, i) <=> i \notin data
       /\ end.ok /\ NoSpace(end.b) /\ end.data = {}
       /\ \A i \in 0..(n - 1) : bitmap_isset(end.b, i)

-----------------------------------------------------------------------------
(* The array is the sequence its user built: whatever growing, shrinking,  *)
(* freeing and failed allocations came between, every entry put in and not *)
(* taken out is still at its place, and num fits in max.                   *)
ArrayIsSequence ==
    /\ arr.num = Len(aview) /\ arr.num <= arr.max /\ Len(arr.v) = arr.max
    /\ \A k \in DOMAIN aview : aview[k] # JUNK => arr.v[k] = aview[k]

(* The bitmap is the set of bits its user marked or was given: no bit      *)
(* beyond nbits is ever handed out, no bit is handed out twice, ENOSPC     *)
(* means that every bit is taken, and no assertion fails.                  *)
BitmapIsSet ==
    /\ conOk
    /\ \A i \in 0..(bm.nbits - 1) : bitmap_isset(bm, i) <=> i \in bview
    /\ bview \subseteq 0..(bm.nbits - 1)
    /\ NoSpace(bm) <=> bview = 0..(bm.nbits - 1)

(* The kernel's own tests of the two pass for every size and every choice  *)
(* of random bits.                                                         *)
ContainerTestsPass ==
    (aview = <<>> /\ bview = {} /\ arr.max = 0) =>
        arraytest(tsize) /\ \A data \in SUBSET (0..(tsize - 1)) : bitmaptest(tsize, data)
=============================================================================
