------------------------------- MODULE Kheap -------------------------------
(***************************************************************************)
(* The kernel heap: kmalloc and kfree (lib/kheap.c) over the pages that    *)
(* dumbvm's alloc_kpages takes from ram_stealmem (arch/mips/mips/ram.c).   *)
(*                                                                         *)
(* A page in use for small blocks has a pageref: the page, the block type, *)
(* the free list and its count.  An address is a pair <<page, offset>>.    *)
(* The subpage allocator runs with interrupts off and the rest of a call   *)
(* has no state of its own, so that a call is one step.  live is a ghost:  *)
(* the blocks that callers hold.                                           *)
(***************************************************************************)
EXTENDS Naturals, Sequences, FiniteSets, SequencesExt

CONSTANTS
    PageSize,     \* PAGE_SIZE
    Sizes,        \* sizes[]: the block sizes, ascending
    NPageRefs,    \* pageref structures
    FirstPage,    \* first free physical page after boot
    LastPage,     \* one past the last physical page
    Requests      \* sizes that callers ask for

Largest == Sizes[Len(Sizes)]

ASSUME HeapConstants ==
    /\ PageSize \in Nat \ {0} /\ NPageRefs \in Nat
    /\ FirstPage \in Nat \ {0} /\ LastPage \in Nat
    /\ \A i \in DOMAIN Sizes : Sizes[i] > 0 /\ 2 * Sizes[i] <= PageSize
    /\ \A i, j \in DOMAIN Sizes : i < j => Sizes[i] < Sizes[j]

VARIABLES
    firstpaddr,   \* ram.c: the first page nobody has taken
    pagerefs,     \* pagerefs_inuse[] and pagerefs[]: slot -> page in use
    sizebases,    \* block type -> its slots, newest first
    allbase,      \* all slots, newest first
    heapPanic,    \* an assertion or a panic of the heap was reached
    live          \* ghost: blocks handed out and not freed

heapVars == <<firstpaddr, pagerefs, sizebases, allbase, heapPanic, live>>

Type == DOMAIN Sizes
PerPage(k) == PageSize \div Sizes[k]

HeapInit ==
    /\ firstpaddr = FirstPage
    /\ pagerefs = <<>>
    /\ sizebases = [k \in Type |-> <<>>]
    /\ allbase = <<>>
    /\ heapPanic = FALSE
    /\ live = {}

-----------------------------------------------------------------------------
(* Pages: ram_stealmem gives the next pages, or none (0 in the code) when  *)
(* they would pass the end.  free_kpages does nothing.                     *)
CanSteal(n) == firstpaddr + n <= LastPage
StealMem(n) == firstpaddr' = firstpaddr + n

(* The first unused pageref. *)
FreeSlots == (1 .. NPageRefs) \ DOMAIN pagerefs
AllocPageRef == CHOOSE s \in FreeSlots : \A r \in FreeSlots : s <= r

BlockType(sz) == CHOOSE k \in Type :
    /\ sz <= Sizes[k]
    /\ \A j \in Type : sz <= Sizes[j] => k <= j

(* A fresh page's free list: the last block first. *)
FreshList(k) == [i \in 1 .. PerPage(k) |-> (PerPage(k) - i) * Sizes[k]]

Block(page, off, sz, len) == [page |-> page, off |-> off, want |-> sz, len |-> len]

(* doalloc: take the head of the free list of slot s, whose pageref is pr. *)
DoAlloc(s, pr, sz) ==
    /\ pagerefs' = [r \in DOMAIN pagerefs \cup {s} |->
          IF r = s THEN [pr EXCEPT !.free = Tail(@), !.nfree = @ - 1] ELSE pagerefs[r]]
    /\ live' = live \cup {Block(pr.page, Head(pr.free), sz, Sizes[pr.type])}
    /\ heapPanic' = ~ (Tail(pr.free) # <<>> <=> pr.nfree - 1 > 0)

WithRoom(k) == SelectSeq(sizebases[k], LAMBDA s : pagerefs[s].nfree > 0)

(* A page of the type has a free block: the first such page on its list.   *)
SubpageKmalloc(sz) ==
    LET k == BlockType(sz)
        s == Head(WithRoom(k))
    IN /\ sz < Largest
       /\ WithRoom(k) # <<>>
       /\ DoAlloc(s, pagerefs[s], sz)
       /\ UNCHANGED <<firstpaddr, sizebases, allbase>>

(* None has: a fresh page becomes the first of both lists.                 *)
SubpageNewPage(sz) ==
    LET k == BlockType(sz)
        s == AllocPageRef
    IN /\ sz < Largest
       /\ WithRoom(k) = <<>> /\ FreeSlots # {} /\ CanSteal(1)
       /\ StealMem(1)
       /\ sizebases' = [sizebases EXCEPT ![k] = <<s>> \o @]
       /\ allbase' = <<s>> \o allbase
       /\ DoAlloc(s, [page |-> firstpaddr, type |-> k, nfree |-> PerPage(k),
                      free |-> FreshList(k)], sz)

(* kmalloc of at least the largest block size takes whole pages.           *)
KmallocPages(sz) ==
    LET n == (sz + PageSize - 1) \div PageSize
    IN /\ sz >= Largest
       /\ CanSteal(n)
       /\ StealMem(n)
       /\ live' = live \cup {Block(firstpaddr, 0, sz, n * PageSize)}
       /\ UNCHANGED <<pagerefs, sizebases, allbase, heapPanic>>

(* No pageref or no page: NULL.  The pageref is given back.                *)
KmallocFails(sz) ==
    /\ IF sz >= Largest
       THEN ~ CanSteal((sz + PageSize - 1) \div PageSize)
       ELSE WithRoom(BlockType(sz)) = <<>> /\ (FreeSlots = {} \/ ~ CanSteal(1))
    /\ UNCHANGED heapVars

Kmalloc(sz) == SubpageKmalloc(sz) \/ SubpageNewPage(sz) \/ KmallocPages(sz)

-----------------------------------------------------------------------------
(* The pageref of the page that holds b, found on allbase.                 *)
OnPage(b) == SelectSeq(allbase, LAMBDA s : pagerefs[s].page = b.page)

RemoveLists(s, k) ==
    /\ sizebases' = [sizebases EXCEPT ![k] = Remove(@, s)]
    /\ allbase' = Remove(allbase, s)

FreePageRef(s) == pagerefs' = [r \in DOMAIN pagerefs \ {s} |-> pagerefs[r]]

(* Fault: the page leaves only the list of all pages.                      *)
SubpageKfreeHalf(b) ==
    LET s == Head(OnPage(b))
        pr == pagerefs[s]
        whole == pr.nfree + 1 = PerPage(pr.type)
    IN /\ OnPage(b) # <<>>
       /\ heapPanic' = FALSE
       /\ pagerefs' = [pagerefs EXCEPT ![s].free = <<b.off>> \o @, ![s].nfree = @ + 1]
       /\ allbase' = IF whole THEN Remove(allbase, s) ELSE allbase
       /\ UNCHANGED sizebases

(* The block goes to the head of its page's free list; a page that is all  *)
(* free leaves both lists and gives its pageref back.                      *)
SubpageKfree(b) ==
    LET s == Head(OnPage(b))
        pr == pagerefs[s]
        whole == pr.nfree + 1 = PerPage(pr.type)
    IN /\ OnPage(b) # <<>>
       /\ heapPanic' = (b.off % Sizes[pr.type] # 0 \/ pr.nfree + 1 > PerPage(pr.type))
       /\ IF whole
          THEN RemoveLists(s, pr.type) /\ FreePageRef(s)
          ELSE /\ pagerefs' = [pagerefs EXCEPT ![s].free = <<b.off>> \o @,
                                               ![s].nfree = @ + 1]
               /\ UNCHANGED <<sizebases, allbase>>

(* Not on a page of the subpage allocator: free_kpages, which does nothing *)
Kfree(b) ==
    /\ b \in live
    /\ \/ SubpageKfree(b)
       \/ /\ OnPage(b) = <<>>
          /\ heapPanic' = (b.off # 0)
          /\ UNCHANGED <<pagerefs, sizebases, allbase>>
    /\ live' = live \ {b}
    /\ UNCHANGED firstpaddr

(* Callers may ask for anything and free what they hold, in any order.     *)
HeapNext ==
    \/ \E sz \in Requests : Kmalloc(sz) \/ KmallocFails(sz)
    \/ \E b \in live : Kfree(b)

HeapSpec == HeapInit /\ [][HeapNext]_heapVars

-----------------------------------------------------------------------------
HeapTypeOK ==
    /\ firstpaddr \in FirstPage .. LastPage
    /\ DOMAIN pagerefs \subseteq 1 .. NPageRefs
    /\ \A s \in DOMAIN pagerefs :
          /\ pagerefs[s].page \in FirstPage .. LastPage - 1
          /\ pagerefs[s].type \in Type /\ pagerefs[s].nfree \in Nat
    /\ heapPanic \in BOOLEAN

Bytes(page, off, len) == page * PageSize + off .. page * PageSize + off + len - 1
BytesOf(b) == Bytes(b.page, b.off, b.len)
FreeBytes(pr) == {Bytes(pr.page, pr.free[i], Sizes[pr.type]) : i \in DOMAIN pr.free}

(* No two blocks in use share a byte, none shares one with a free block,   *)
(* and each has room for what was asked and lies in memory the heap took:  *)
(* what callers of kmalloc and kfree rely on.                              *)
BlocksDisjoint ==
    /\ \A b, c \in live : b # c => BytesOf(b) \cap BytesOf(c) = {}
    /\ \A b \in live :
          /\ b.want <= b.len
          /\ BytesOf(b) \subseteq FirstPage * PageSize .. firstpaddr * PageSize - 1
          /\ \A s \in DOMAIN pagerefs : \A f \in FreeBytes(pagerefs[s]) : BytesOf(b) \cap f = {}

(* checksubpage: the free list is as long as its count, inside the page,   *)
(* made of aligned blocks and without repetition.                          *)
CheckSubpage(pr) ==
    /\ Len(pr.free) = pr.nfree
    /\ \A i \in DOMAIN pr.free : pr.free[i] < PageSize /\ pr.free[i] % Sizes[pr.type] = 0
    /\ Cardinality(ToSet(pr.free)) = Len(pr.free)

(* checksubpages: every page on either list, and as many on both.          *)
CheckSubpages ==
    /\ \A k \in Type : \A i \in DOMAIN sizebases[k] : CheckSubpage(pagerefs[sizebases[k][i]])
    /\ \A i \in DOMAIN allbase : CheckSubpage(pagerefs[allbase[i]])
    /\ FoldFunctionOnSet(LAMBDA x, y : Len(x) + y, 0, sizebases, Type) = Len(allbase)

(* dumpsubpage: the map kheap_printstats prints of a page, a dot for each  *)
(* free block.                                                             *)
Freemap(pr) == [i \in 0 .. PerPage(pr.type) - 1 |->
    \E j \in DOMAIN pr.free : pr.free[j] \div Sizes[pr.type] = i]

(* The map shows the blocks that no caller holds.                          *)
StatsAreTrue ==
    \A s \in DOMAIN pagerefs : \A i \in DOMAIN Freemap(pagerefs[s]) :
        Freemap(pagerefs[s])[i] <=>
            ~ \E b \in live : b.page = pagerefs[s].page /\ b.off = i * Sizes[pagerefs[s].type]

(* The checks that the code leaves out unless SLOWER is defined hold; the  *)
(* lists hold the pages in use, each once, and no assertion of the heap    *)
(* fails whatever the order of calls.                                      *)
SubpagesConsistent ==
    /\ ~ heapPanic
    /\ CheckSubpages
    /\ ToSet(allbase) = DOMAIN pagerefs /\ Len(allbase) = Cardinality(DOMAIN pagerefs)
    /\ \A k \in Type :
          sizebases[k] = SelectSeq(allbase, LAMBDA s : pagerefs[s].type = k)
    /\ \A s \in DOMAIN pagerefs : pagerefs[s].nfree < PerPage(pagerefs[s].type)
=============================================================================
