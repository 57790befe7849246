-------------------------- MODULE UserSpaceProofs --------------------------
(***************************************************************************)
(* The TLB is right and what runs was loaded whole, for any threads,       *)
(* executables, page size, TLB and amount of memory, and programs keep     *)
(* their memory to themselves as long as no segment is so large that       *)
(* 32-bit sums wrap around (SizesFit).  The invariant adds where physical  *)
(* memory went: the three pieces of a space in the order in which          *)
(* as_prepare_load takes them, below the frames given out since (Placed,   *)
(* if sizes fit), which steps have a space that is complete (StagesKept),  *)
(* that the TLB is empty while a space is being defined and has no entry   *)
(* for the page of a fault (TlbKept), and how far a load has come          *)
(* (LoadKept).                                                             *)
(*                                                                         *)
(* Most leaves are first-order and are Zenon's; the others name SMT.       *)
(***************************************************************************)
EXTENDS UserSpace, TLAPS

Piece == [vbase : Nat, pbase : Nat, npages : Nat]
Space == [r1 : Piece, r2 : Piece, stack : Nat]
Entry == [vpage : Int, paddr : Int]

Labels == {"start", "define", "load", "copy", "kfault", "user", "ufault", "exit", "gone"}

UserTypes ==
    /\ running \in Proc
    /\ upc \in [Proc -> Labels]
    /\ prog \in [Proc -> Programs]
    /\ seg \in [Proc -> Nat \ {0}] /\ done \in [Proc -> Nat]
    /\ as \in [Proc -> Space \cup {UNULL}]
    /\ faultAddr \in [Proc -> Nat \cup {UNULL}]
    /\ badfault \in [Proc -> BOOLEAN]
    /\ tlb \in [1 .. NumTlb -> Entry \cup {Invalid}]
    /\ frames \in 0 .. LastFrame
    /\ DOMAIN view = Proc

(* The space has its memory.                                               *)
Mapped(t) == as[t] # UNULL /\ Usable(as[t])

(* A space and what a step needs of it.                                    *)
StageOf(t) ==
    /\ upc[t] = "start" => as[t] = UNULL /\ seg[t] = 1
    /\ upc[t] \in {"start", "define"} => done[t] = 0
    /\ upc[t] = "define" => as[t] # UNULL /\ as[t].r1.pbase = 0
    /\ upc[t] \in {"load", "copy", "kfault", "user", "ufault"} => Mapped(t)
    /\ upc[t] \in {"kfault", "ufault"} /\ ~ userPanic => faultAddr[t] \in Nat
StagesKept == \A t \in Proc : StageOf(t)

(* The pieces of a space lie one after the other, and two spaces apart.    *)
Low(a) == a.r1.pbase
High(a) == a.stack + StackPages * PageLen
InOrder(a, last) ==
    /\ a.r1.pbase + a.r1.npages * PageLen <= a.r2.pbase
    /\ a.r2.pbase + a.r2.npages * PageLen <= a.stack
    /\ High(a) <= last * PageLen
Apart(a, b) == High(a) <= Low(b) \/ High(b) <= Low(a)

(* Added to a place in memory, so many pages do not wrap around.           *)
Fitting(a) == LastFrame + a.r1.npages < FrameMod /\ LastFrame + a.r2.npages < FrameMod
Placed ==
    /\ frames # 0
    /\ \A t \in Proc : as[t] # UNULL => Fitting(as[t])
    /\ \A t \in Proc : Mapped(t) => InOrder(as[t], frames)
    /\ \A t, u \in Proc : t # u /\ Mapped(t) /\ Mapped(u) => Apart(as[t], as[u])
Aligned(a) == a.r1.vbase % PageLen = 0 /\ a.r2.vbase % PageLen = 0
SpacesKept ==
    /\ \A t \in Proc : as[t] # UNULL => Aligned(as[t])
    /\ SizesFit => Placed

(* What was stored is at its place in physical memory.                     *)
Stored(t, a) ==
    /\ a \in 0 .. UserTop - 1 /\ Mapped(t)
    /\ PageOf(as[t], Frame(a)) # UNULL
    /\ SizesFit => Where(t, a) \in DOMAIN memory /\ memory[Where(t, a)] = view[t][a]
ViewKept == \A t \in Proc : \A a \in DOMAIN view[t] : Stored(t, a)

TlbKept ==
    /\ TlbSound
    /\ upc[running] = "define" => \A i \in 1 .. NumTlb : tlb[i] = Invalid
    /\ upc[running] \in {"kfault", "ufault"} /\ ~ userPanic => Hits(faultAddr[running]) = {}

(* The n first bytes of segment i are in memory.                           *)
Prefix(t, i, n) == prog[t][i].load =>
    \A j \in 0 .. n - 1 : prog[t][i].vaddr + j \in DOMAIN view[t]
LoadOf(t) ==
    /\ badfault[t] => upc[t] \in {"copy", "kfault"}
    /\ upc[t] \in {"copy", "kfault"} =>
          seg[t] \in DOMAIN prog[t] /\ prog[t][seg[t]].load /\ Dest(t) < UserTop
    /\ upc[t] \in {"load", "copy", "kfault"} => \A i \in DOMAIN prog[t] :
          /\ i < seg[t] => Prefix(t, i, prog[t][i].memsz)
          /\ i = seg[t] => Prefix(t, i, done[t])
    /\ upc[t] \in {"user", "ufault"} /\ seg[t] > 1 => \A i \in DOMAIN prog[t] :
          Prefix(t, i, prog[t][i].memsz)
LoadKept == \A t \in Proc : LoadOf(t)

UserInv == UserTypes /\ StagesKept /\ SpacesKept /\ ViewKept /\ TlbKept /\ LoadKept

-----------------------------------------------------------------------------
(* Pages and places.                                                       *)
USE Zenon

(* Multiplying by a natural number keeps the order.                        *)
LEMMA TimesMonotone ==
  ASSUME NEW x \in Int, NEW y \in Int, NEW n \in Nat, x <= y
  PROVE  x * n <= y * n
  BY SMT

(* What a program's sizes are does not change.                             *)
LEMMA FitStays ==
  ASSUME prog' = prog
  PROVE  SizesFit' <=> SizesFit
  BY DEF SizesFit

(* Addresses that wrap around do so at a page.                             *)
LEMMA ModFacts ==
  /\ PageLen \in Nat \ {0} /\ AddrMod \in Nat \ {0} /\ FrameMod \in Nat \ {0} /\ LastFrame \in Nat
  /\ StackPages \in Nat /\ AddrMod = FrameMod * PageLen /\ UserTop \in Nat /\ UserTop < AddrMod
  /\ LastFrame + StackPages < FrameMod
<1>1. /\ PageLen \in Nat \ {0} /\ AddrMod \in Nat /\ LastFrame \in Nat /\ StackPages \in Nat
      /\ UserTop \in Nat /\ AddrMod % PageLen = 0
      /\ StackPages * PageLen <= UserTop /\ UserTop + LastFrame * PageLen < AddrMod
  BY UserConstants
<1>2. LastFrame * PageLen \in Nat /\ StackPages * PageLen \in Nat
  BY SMT, <1>1
<1>3. AddrMod \in Nat \ {0} /\ UserTop < AddrMod
  BY SMT, <1>1, <1>2
<1>4. FrameMod \in Nat /\ AddrMod = FrameMod * PageLen
  BY SMT, <1>1 DEF FrameMod
<1>5. FrameMod # 0
  BY SMT, <1>1, <1>3, <1>4
<1>6. LastFrame + StackPages < FrameMod
  <2>1. SUFFICES ASSUME FrameMod <= LastFrame + StackPages PROVE FALSE
    BY SMT, <1>1, <1>4
  <2>2. FrameMod * PageLen <= (LastFrame + StackPages) * PageLen
    BY SMT, <2>1, <1>1, <1>4, TimesMonotone
  <2>3. (LastFrame + StackPages) * PageLen = LastFrame * PageLen + StackPages * PageLen
    BY SMT, <1>1
  <2> QED
    BY SMT, <2>2, <2>3, <1>1, <1>2, <1>4
<1> QED
  BY <1>1, <1>3, <1>4, <1>5, <1>6

(* What is below the modulus is itself.                                    *)
LEMMA ModSmall ==
  ASSUME NEW m \in Nat \ {0}, NEW x \in Nat
  PROVE  x % m \in Nat /\ x % m <= x /\ (x < m => x % m = x)
  BY SMT

(* An address is its page, which is aligned, and an offset.                *)
LEMMA PageFacts ==
  ASSUME NEW a \in Nat
  PROVE  /\ Frame(a) \in Nat /\ Frame(a) % PageLen = 0
         /\ a % PageLen \in 0 .. PageLen - 1 /\ Frame(a) + (a % PageLen) = a
         /\ Frame(a) = (a \div PageLen) * PageLen
<1>1. PageLen \in Nat \ {0}
  BY UserConstants
<1>2. a % PageLen \in 0 .. PageLen - 1 /\ a \div PageLen \in Nat
  BY SMT, <1>1
<1>3. a = (a \div PageLen) * PageLen + (a % PageLen)
  BY SMT, <1>1
<1>4. Frame(a) = (a \div PageLen) * PageLen
  BY SMT, <1>1, <1>2, <1>3 DEF Frame
<1>5. Frame(a) \in Nat
  BY SMT, <1>1, <1>2, <1>4
<1>6. Frame(a) % PageLen = 0
  BY SMT, <1>1, <1>2, <1>4
<1> QED
  BY SMT, <1>1, <1>2, <1>3, <1>4, <1>5, <1>6

(* A multiple of the page length.                                          *)
LEMMA AlignedIsMultiple ==
  ASSUME NEW v \in Int, v % PageLen = 0
  PROVE  v \div PageLen \in Int /\ v = (v \div PageLen) * PageLen
  BY SMT, UserConstants

(* An address whose page begins below the end of some pages is below it.   *)
LEMMA PageEndsBelow ==
  ASSUME NEW a \in Nat, NEW v \in Int, NEW n \in Int, v % PageLen = 0,
         Frame(a) < v + n * PageLen
  PROVE  a < v + n * PageLen
<1> DEFINE j == a \div PageLen
           k == v \div PageLen
<1>1. PageLen \in Nat \ {0}
  BY UserConstants
<1>2. /\ j \in Int /\ k \in Int /\ v = k * PageLen /\ Frame(a) = j * PageLen
      /\ a % PageLen \in 0 .. PageLen - 1 /\ Frame(a) + (a % PageLen) = a
  <2>1. /\ Frame(a) = j * PageLen
        /\ a % PageLen \in 0 .. PageLen - 1 /\ Frame(a) + (a % PageLen) = a
    BY PageFacts
  <2>2. k \in Int /\ v = k * PageLen
    BY AlignedIsMultiple
  <2>3. j \in Int
    BY SMT, <1>1
  <2> QED
    BY <2>1, <2>2, <2>3
<1> HIDE DEF j, k
<1>3. v + n * PageLen = (k + n) * PageLen
  BY SMT, <1>1, <1>2
<1>4. j + 1 <= k + n
  <2>1. SUFFICES ASSUME k + n <= j PROVE FALSE
    BY SMT, <1>2
  <2>2. (k + n) * PageLen <= j * PageLen
    BY SMT, <2>1, <1>1, <1>2, TimesMonotone
  <2> QED
    BY SMT, <2>2, <1>1, <1>2, <1>3
<1>5. (j + 1) * PageLen <= (k + n) * PageLen
  BY SMT, <1>1, <1>2, <1>4, TimesMonotone
<1>6. (j + 1) * PageLen = Frame(a) + PageLen
  BY SMT, <1>1, <1>2
<1> QED
  BY SMT, <1>1, <1>2, <1>3, <1>5, <1>6

(* Where an address is in physical memory.                                 *)
Phys(s, a) == PageOf(s, Frame(a)) + (a % PageLen)

Within(w, base, n) == w \in Int /\ base <= w /\ w < base + n * PageLen

(* A region's pages do not wrap around.                                    *)
LEMMA InFacts ==
  ASSUME NEW r \in Piece, NEW page \in Nat, In(page, r)
  PROVE  r.vbase <= page /\ page < r.vbase + r.npages * PageLen
<1> DEFINE end == r.vbase + r.npages * PageLen
<1>1. r.vbase \in Nat /\ r.npages \in Nat
  BY SMT DEF Piece
<1>2. end \in Nat
  BY SMT, <1>1, UserConstants
<1>3. r.vbase <= page /\ page < end % AddrMod
  BY SMT DEF In
<1> HIDE DEF end
<1>4. end % AddrMod \in Nat /\ end % AddrMod <= end
  BY <1>2, ModSmall, ModFacts
<1>5. page < end
  BY SMT, <1>2, <1>3, <1>4
<1> QED
  BY <1>3, <1>5 DEF end

(* It is in one of the three pieces, as far from its beginning as the      *)
(* address is from the beginning of the region.                            *)
LEMMA PlaceOf ==
  ASSUME NEW s \in Space, NEW a \in Nat, PageOf(s, Frame(a)) # UNULL,
         s.r1.vbase % PageLen = 0, s.r2.vbase % PageLen = 0
  PROVE  \/ /\ In(Frame(a), s.r1)
            /\ Phys(s, a) = a - s.r1.vbase + s.r1.pbase
            /\ Within(Phys(s, a), s.r1.pbase, s.r1.npages)
         \/ /\ ~ In(Frame(a), s.r1) /\ In(Frame(a), s.r2)
            /\ Phys(s, a) = a - s.r2.vbase + s.r2.pbase
            /\ Within(Phys(s, a), s.r2.pbase, s.r2.npages)
         \/ /\ ~ In(Frame(a), s.r1) /\ ~ In(Frame(a), s.r2)
            /\ Phys(s, a) = a - StackBase + s.stack
            /\ Within(Phys(s, a), s.stack, StackPages)
<1>1. /\ s.r1 \in Piece /\ s.r2 \in Piece /\ s.stack \in Nat
      /\ s.r1.vbase \in Nat /\ s.r1.pbase \in Nat /\ s.r1.npages \in Nat
      /\ s.r2.vbase \in Nat /\ s.r2.pbase \in Nat /\ s.r2.npages \in Nat
  BY SMT DEF Space, Piece
<1>2. /\ PageLen \in Nat \ {0} /\ UserTop \in Nat /\ StackPages \in Nat /\ UserTop % PageLen = 0
  BY UserConstants
<1>3. Frame(a) \in Nat /\ Frame(a) + (a % PageLen) = a /\ a % PageLen \in Nat
  BY SMT, PageFacts
<1>4. CASE In(Frame(a), s.r1)
  <2>5. s.r1.vbase <= Frame(a) /\ Frame(a) < s.r1.vbase + s.r1.npages * PageLen
    BY <1>1, <1>3, <1>4, InFacts
  <2>1. a < s.r1.vbase + s.r1.npages * PageLen
    BY SMT, <1>1, <2>5, PageEndsBelow
  <2>2. Phys(s, a) = a - s.r1.vbase + s.r1.pbase
    BY SMT, <1>1, <1>3, <1>4 DEF Phys, PageOf
  <2>3. s.r1.npages * PageLen \in Int
    BY SMT, <1>1, <1>2
  <2>4. Within(Phys(s, a), s.r1.pbase, s.r1.npages)
    BY SMT, <2>1, <2>2, <2>3, <2>5, <1>1, <1>3 DEF Within
  <2> QED
    BY <2>2, <2>4, <1>4
<1>5. CASE ~ In(Frame(a), s.r1) /\ In(Frame(a), s.r2)
  <2>5. s.r2.vbase <= Frame(a) /\ Frame(a) < s.r2.vbase + s.r2.npages * PageLen
    BY <1>1, <1>3, <1>5, InFacts
  <2>1. a < s.r2.vbase + s.r2.npages * PageLen
    BY SMT, <1>1, <2>5, PageEndsBelow
  <2>2. Phys(s, a) = a - s.r2.vbase + s.r2.pbase
    BY SMT, <1>1, <1>3, <1>5 DEF Phys, PageOf
  <2>3. s.r2.npages * PageLen \in Int
    BY SMT, <1>1, <1>2
  <2>4. Within(Phys(s, a), s.r2.pbase, s.r2.npages)
    BY SMT, <2>1, <2>2, <2>3, <2>5, <1>1, <1>3 DEF Within
  <2> QED
    BY <2>2, <2>4, <1>5
<1>6. CASE ~ In(Frame(a), s.r1) /\ ~ In(Frame(a), s.r2)
  <2>1. Frame(a) >= StackBase /\ Frame(a) < UserTop
    BY <1>6 DEF PageOf
  <2>2. StackPages * PageLen \in Int /\ StackBase \in Int
    BY SMT, <1>2 DEF StackBase
  <2>3. a < UserTop
    <3>1. Frame(a) < UserTop + 0 * PageLen
      BY SMT, <2>1, <1>2, <1>3
    <3>2. UserTop \in Int /\ 0 \in Int
      BY SMT, <1>2
    <3>3. a < UserTop + 0 * PageLen
      BY <3>1, <3>2, <1>2, PageEndsBelow
    <3> QED
      BY SMT, <3>3, <1>2
  <2>4. PageOf(s, Frame(a)) = Frame(a) - StackBase + s.stack
    BY <1>6, <2>1 DEF PageOf
  <2>5. Phys(s, a) = a - StackBase + s.stack
    BY SMT, <1>1, <1>3, <2>2, <2>4 DEF Phys
  <2>6. Within(Phys(s, a), s.stack, StackPages)
    BY SMT, <2>1, <2>2, <2>3, <2>5, <1>1, <1>2, <1>3 DEF Within, StackBase
  <2> QED
    BY <2>5, <2>6, <1>6
<1> QED
  BY <1>4, <1>5, <1>6

(* The parts of a space are numbers.                                       *)
LEMMA SpaceFacts ==
  ASSUME NEW s \in Space
  PROVE  /\ s.r1 \in Piece /\ s.r2 \in Piece /\ s.stack \in Nat /\ s # UNULL
         /\ s.r1.vbase \in Nat /\ s.r1.pbase \in Nat /\ s.r1.npages \in Nat
         /\ s.r2.vbase \in Nat /\ s.r2.pbase \in Nat /\ s.r2.npages \in Nat
         /\ s.r1.npages * PageLen \in Nat /\ s.r2.npages * PageLen \in Nat
         /\ StackPages * PageLen \in Nat /\ StackBase \in Int
<1>1. s # UNULL
  BY UnullIsNothing DEF Space, Piece
<1>2. s.r1 \in Piece /\ s.r2 \in Piece /\ s.stack \in Nat
  BY SMT DEF Space
<1>3. /\ s.r1.vbase \in Nat /\ s.r1.pbase \in Nat /\ s.r1.npages \in Nat
      /\ s.r2.vbase \in Nat /\ s.r2.pbase \in Nat /\ s.r2.npages \in Nat
  BY SMT, <1>2 DEF Piece
<1>4. PageLen \in Nat /\ StackPages \in Nat /\ UserTop \in Nat
  BY UserConstants
<1>5. /\ s.r1.npages * PageLen \in Nat /\ s.r2.npages * PageLen \in Nat
      /\ StackPages * PageLen \in Nat
  BY SMT, <1>3, <1>4
<1>6. StackBase \in Int
  BY SMT, <1>4, <1>5 DEF StackBase
<1> QED
  BY <1>1, <1>2, <1>3, <1>5, <1>6

LEMMA HighType ==
  ASSUME NEW s \in Space
  PROVE  Low(s) \in Int /\ High(s) \in Int
<1>1. s.r1.pbase \in Nat /\ s.stack \in Nat /\ StackPages * PageLen \in Nat
  BY SpaceFacts
<1> QED
  BY SMT, <1>1 DEF Low, High

(* A piece that is put elsewhere, and a space with another piece.          *)
LEMMA PieceMoved ==
  ASSUME NEW r \in Piece, NEW x \in Nat
  PROVE  /\ [r EXCEPT !.pbase = x] \in Piece /\ [r EXCEPT !.pbase = x].pbase = x
         /\ [r EXCEPT !.pbase = x].vbase = r.vbase /\ [r EXCEPT !.pbase = x].npages = r.npages
  BY SMT DEF Piece

LEMMA SpaceMade ==
  ASSUME NEW d \in Piece, NEW e \in Piece, NEW n \in Nat
  PROVE  [r1 |-> d, r2 |-> e, stack |-> n] \in Space
  BY SMT DEF Space

LEMMA SpaceRedefined ==
  ASSUME NEW s \in Space, NEW d
  PROVE  /\ [s EXCEPT !.r1 = d] = [r1 |-> d, r2 |-> s.r2, stack |-> s.stack]
         /\ [s EXCEPT !.r2 = d] = [r1 |-> s.r1, r2 |-> d, stack |-> s.stack]
  BY SMT DEF Space

(* Assigning what is there changes nothing.                                *)
LEMMA SameExcept ==
  ASSUME NEW S, NEW T, NEW f \in [S -> T], NEW x \in S
  PROVE  [f EXCEPT ![x] = f[x]] = f
  BY SMT

LEMMA RangesDiffer ==
  ASSUME NEW lo \in Int, NEW hi \in Int, NEW low \in Int, NEW high \in Int, NEW x \in Int, NEW y \in Int,
         lo <= x, x < hi, low <= y, y < high, hi <= low \/ high <= lo
  PROVE  x # y
  BY SMT

LEMMA BelowDiffers ==
  ASSUME NEW x \in Int, NEW y \in Int, NEW z \in Int, NEW w \in Int, x < y, y <= z, z <= w
  PROVE  w # x
  BY SMT

(* A space whose pieces are in order has every address inside it, and no   *)
(* two at the same place.                                                  *)
LEMMA OwnPlaces ==
  ASSUME NEW s \in Space, NEW last, InOrder(s, last), s.r1.vbase % PageLen = 0, s.r2.vbase % PageLen = 0,
         NEW a \in Nat, PageOf(s, Frame(a)) # UNULL
  PROVE  /\ Phys(s, a) \in Int /\ Low(s) <= Phys(s, a) /\ Phys(s, a) < High(s)
         /\ \A b \in Nat : PageOf(s, Frame(b)) # UNULL /\ Phys(s, b) = Phys(s, a) => b = a
<1> DEFINE n1 == s.r1.npages * PageLen
           n2 == s.r2.npages * PageLen
           n3 == StackPages * PageLen
<1>1. /\ s.stack \in Nat /\ s.r1.pbase \in Nat /\ s.r2.pbase \in Nat
      /\ s.r1.vbase \in Nat /\ s.r2.vbase \in Nat
      /\ n1 \in Nat /\ n2 \in Nat /\ n3 \in Nat /\ StackBase \in Int
  BY SpaceFacts
<1>2. s.r1.pbase + n1 <= s.r2.pbase /\ s.r2.pbase + n2 <= s.stack
  BY DEF InOrder
<1>3. ASSUME NEW b \in Nat, PageOf(s, Frame(b)) # UNULL
      PROVE  \/ /\ Phys(s, b) = b - s.r1.vbase + s.r1.pbase
                /\ s.r1.pbase <= Phys(s, b) /\ Phys(s, b) < s.r1.pbase + n1
             \/ /\ Phys(s, b) = b - s.r2.vbase + s.r2.pbase
                /\ s.r2.pbase <= Phys(s, b) /\ Phys(s, b) < s.r2.pbase + n2
             \/ /\ Phys(s, b) = b - StackBase + s.stack
                /\ s.stack <= Phys(s, b) /\ Phys(s, b) < s.stack + n3
  BY <1>3, PlaceOf DEF Within
<1>4. Low(s) = s.r1.pbase /\ High(s) = s.stack + n3
  BY DEF Low, High
<1> HIDE DEF n1, n2, n3
<1>5. Phys(s, a) \in Int /\ Low(s) <= Phys(s, a) /\ Phys(s, a) < High(s)
  BY SMT, <1>1, <1>2, <1>3, <1>4
<1>6. ASSUME NEW b \in Nat, PageOf(s, Frame(b)) # UNULL, Phys(s, b) = Phys(s, a)
      PROVE  b = a
  BY SMT, <1>1, <1>2, <1>3, <1>6
<1> QED
  BY <1>5, <1>6

(* A page that is found is a number.                                       *)
LEMMA PageOfType ==
  ASSUME NEW s \in Space, NEW page \in Int, PageOf(s, page) # UNULL
  PROVE  PageOf(s, page) \in Int
  BY SMT, SpaceFacts DEF PageOf

(* as_define_region.                                                       *)
LEMMA DefinedFacts ==
  ASSUME NEW s, s.vaddr \in Nat, s.memsz \in Nat
  PROVE  /\ DefinedRegion(s) \in Piece
         /\ DefinedRegion(s).vbase % PageLen = 0 /\ DefinedRegion(s).pbase = 0
         /\ s.load /\ Fits(s) => LastFrame + DefinedRegion(s).npages < FrameMod
<1> DEFINE o == s.vaddr % PageLen
           m == s.memsz
           sz == (m + o) % AddrMod
           up == (sz + PageLen - 1) % AddrMod
           n == up \div PageLen
<1>1. DefinedRegion(s) = [vbase |-> Frame(s.vaddr), pbase |-> 0, npages |-> n]
  BY DEF DefinedRegion, Region
<1>2. Frame(s.vaddr) \in Nat /\ Frame(s.vaddr) % PageLen = 0 /\ o \in Nat /\ o < PageLen
  <2>1. Frame(s.vaddr) \in Nat /\ Frame(s.vaddr) % PageLen = 0 /\ o \in 0 .. PageLen - 1
    BY PageFacts
  <2>2. PageLen \in Nat
    BY UserConstants
  <2> HIDE DEF o
  <2>3. o \in Nat /\ o < PageLen
    BY SMT, <2>1, <2>2
  <2> QED
    BY <2>1, <2>3
<1>3. PageLen \in Nat \ {0} /\ AddrMod \in Nat \ {0} /\ LastFrame \in Nat /\ FrameMod \in Nat
      /\ AddrMod = FrameMod * PageLen /\ m \in Nat
  BY ModFacts
<1> HIDE DEF o, m
<1>4. sz \in Nat /\ (m + o < AddrMod => sz = m + o)
  <2>1. m + o \in Nat
    BY SMT, <1>2, <1>3
  <2> QED
    BY <2>1, <1>3, ModSmall
<1> HIDE DEF sz
<1>5. up \in Nat /\ (sz + PageLen - 1 < AddrMod => up = sz + PageLen - 1)
  <2>1. sz + PageLen - 1 \in Nat
    BY SMT, <1>3, <1>4
  <2> QED
    BY <2>1, <1>3, ModSmall
<1> HIDE DEF up
<1>6. n \in Nat /\ n * PageLen <= up
  BY SMT, <1>3, <1>5
<1> HIDE DEF n
<1>7. ASSUME s.load, Fits(s) PROVE LastFrame + n < FrameMod
  <2>1. LastFrame * PageLen + m + 2 * PageLen <= AddrMod
    BY <1>7 DEF Fits, m
  <2>2. LastFrame * PageLen \in Nat
    BY SMT, <1>3
  <2>3. up <= m + 2 * PageLen - 2
    BY SMT, <2>1, <2>2, <1>2, <1>3, <1>4, <1>5
  <2>4. SUFFICES ASSUME FrameMod <= LastFrame + n PROVE FALSE
    BY SMT, <1>3, <1>6
  <2>5. FrameMod * PageLen <= (LastFrame + n) * PageLen
    <3>1. LastFrame + n \in Int /\ FrameMod \in Int /\ PageLen \in Nat
      BY SMT, <1>3, <1>6
    <3> QED
      BY <3>1, <2>4, TimesMonotone
  <2>6. (LastFrame + n) * PageLen = LastFrame * PageLen + n * PageLen /\ n * PageLen \in Int
    BY SMT, <1>3, <1>6
  <2> DEFINE x == n * PageLen
             y == LastFrame * PageLen
             z == FrameMod * PageLen
  <2>7. x \in Int /\ y \in Nat /\ z = AddrMod /\ z <= y + x /\ x <= up /\ y + m + 2 * PageLen <= z
    BY <1>3, <1>6, <2>1, <2>2, <2>5, <2>6
  <2> HIDE DEF x, y, z
  <2> QED
    BY SMT, <2>3, <2>7, <1>3, <1>5
<1>8. DefinedRegion(s) \in Piece
  BY SMT, <1>1, <1>2, <1>6 DEF Piece
<1>9. DefinedRegion(s).vbase = Frame(s.vaddr) /\ DefinedRegion(s).pbase = 0 /\ DefinedRegion(s).npages = n
  BY SMT, <1>1
<1> QED
  BY <1>2, <1>7, <1>8, <1>9

(* The same regions, wherever they are in memory.                          *)
SameRegions(s, c) ==
    /\ s.r1.vbase = c.r1.vbase /\ s.r1.npages = c.r1.npages
    /\ s.r2.vbase = c.r2.vbase /\ s.r2.npages = c.r2.npages

(* The pieces follow each other in memory, from frame f on up to frame g.  *)
Taken(c, f, g) ==
    /\ c.r1.pbase = f * PageLen
    /\ c.r2.pbase = c.r1.pbase + c.r1.npages * PageLen
    /\ c.stack = c.r2.pbase + c.r2.npages * PageLen
    /\ High(c) = g * PageLen

(* ram_stealmem: a size that fits is taken from where the free memory is.  *)
LEMMA GotFacts ==
  ASSUME NEW f \in 0 .. LastFrame, NEW n \in Nat
  PROVE  /\ Got(f, n) \in 0 .. LastFrame /\ Paddr(f, n) \in Nat
         /\ LastFrame + n < FrameMod =>
               f <= Got(f, n) /\ (Paddr(f, n) # 0 => Paddr(f, n) = f * PageLen /\ Got(f, n) = f + n)
<1>1. FrameMod \in Nat \ {0} /\ LastFrame \in Nat /\ PageLen \in Nat
  BY ModFacts
<1>2. f \in Nat /\ f <= LastFrame /\ f + n \in Nat
  BY SMT, <1>1
<1>3. f * PageLen \in Nat
  BY SMT, <1>1, <1>2
<1>4. After(f, n) \in Nat /\ (f + n < FrameMod => After(f, n) = f + n)
  BY <1>1, <1>2, ModSmall DEF After
<1>5. CASE After(f, n) <= LastFrame
  <2>1. Got(f, n) = After(f, n) /\ Paddr(f, n) = f * PageLen
    BY <1>5 DEF Got, Paddr
  <2>2. LastFrame + n < FrameMod => f <= f + n /\ f + n < FrameMod
    BY SMT, <1>1, <1>2
  <2>3. After(f, n) \in 0 .. LastFrame
    BY SMT, <1>1, <1>4, <1>5
  <2> QED
    BY <1>3, <1>4, <2>1, <2>2, <2>3
<1>6. CASE ~ (After(f, n) <= LastFrame)
  <2>1. Got(f, n) = f /\ Paddr(f, n) = 0
    BY <1>6 DEF Got, Paddr
  <2>2. f <= f /\ 0 \in Nat
    BY SMT, <1>2
  <2> QED
    BY <2>1, <2>2
<1> QED
  BY <1>5, <1>6

(* as_prepare_load: what it takes was free, and is taken in order, if the  *)
(* sizes fit.                                                              *)
LEMMA PreparedFacts ==
  ASSUME NEW s \in Space, NEW f \in 0 .. LastFrame, s.r1.pbase = 0, NEW p, p = PreparedUntil(s, f)
  PROVE  /\ p.space \in Space /\ p.frames \in 0 .. LastFrame /\ SameRegions(s, p.space)
         /\ Fitting(s) => f <= p.frames /\ (Usable(p.space) => Taken(p.space, f, p.frames))
<1> DEFINE n1 == s.r1.npages
           n2 == s.r2.npages
           piece1(x) == [vbase |-> s.r1.vbase, pbase |-> x, npages |-> n1]
           piece2(x) == [vbase |-> s.r2.vbase, pbase |-> x, npages |-> n2]
           sp(x, y, z) == [r1 |-> piece1(x), r2 |-> piece2(y), stack |-> z]
<1>1. /\ s.r1 \in Piece /\ s.r2 \in Piece /\ s.stack \in Nat
      /\ s.r1.vbase \in Nat /\ n1 \in Nat /\ s.r2.vbase \in Nat /\ n2 \in Nat
  BY SpaceFacts
<1>2. \A x \in Nat : [s.r1 EXCEPT !.pbase = x] = piece1(x) /\ [s.r2 EXCEPT !.pbase = x] = piece2(x)
  BY SMT, <1>1 DEF Piece
<1>3. \A x, y, z \in Nat : sp(x, y, z) \in Space
  BY SMT, <1>1 DEF Space, Piece
<1>4. PageLen \in Nat \ {0} /\ StackPages \in Nat /\ LastFrame \in Nat /\ LastFrame + StackPages < FrameMod
  BY ModFacts
<1> DEFINE f2 == Got(f, n1)
           f3 == Got(f2, n2)
           f4 == Got(f3, StackPages)
           x1 == Paddr(f, n1)
           y1 == Paddr(f2, n2)
           z1 == Paddr(f3, StackPages)
           q == Prepared(s, f)
<1>5. f2 \in 0 .. LastFrame /\ x1 \in Nat
      /\ (Fitting(s) => f <= f2 /\ (x1 # 0 => x1 = f * PageLen /\ f2 = f + n1))
  BY <1>1, GotFacts DEF Fitting
<1>6. f3 \in 0 .. LastFrame /\ y1 \in Nat
      /\ (Fitting(s) => f2 <= f3 /\ (y1 # 0 => y1 = f2 * PageLen /\ f3 = f2 + n2))
  <2> HIDE DEF f2
  <2> QED
    BY <1>1, <1>5, GotFacts DEF Fitting
<1>7. f4 \in 0 .. LastFrame /\ z1 \in Nat
      /\ f3 <= f4 /\ (z1 # 0 => z1 = f3 * PageLen /\ f4 = f3 + StackPages)
  <2> HIDE DEF f3
  <2> QED
    BY <1>4, <1>6, GotFacts
<1>8. f \in Nat /\ f2 \in Nat /\ f3 \in Nat /\ f4 \in Nat
  <2> HIDE DEF f2, f3, f4
  <2> QED
    BY SMT, <1>4, <1>5, <1>6, <1>7
<1>9. q.space = sp(x1, y1, z1) /\ q.frames = f4
  BY <1>2, <1>5, <1>6 DEF Prepared
<1>10. PreparedUntil(s, f) = IF q.space.r1.pbase = 0 THEN [space |-> s, frames |-> f2]
                             ELSE IF q.space.r2.pbase = 0
                             THEN [space |-> [q.space EXCEPT !.stack = 0], frames |-> f3]
                             ELSE q
  BY DEF PreparedUntil
<1>11. Fitting(s) => f <= f2 /\ f <= f3 /\ f <= f4
  <2> HIDE DEF f2, f3, f4, x1, y1, z1
  <2>1. SUFFICES ASSUME Fitting(s) PROVE f <= f2 /\ f <= f3 /\ f <= f4
    OBVIOUS
  <2>2. f <= f2 /\ f2 <= f3 /\ f3 <= f4
    BY <2>1, <1>5, <1>6, <1>7
  <2> QED
    BY SMT, <2>2, <1>8
<1> HIDE DEF f2, f3, f4, x1, y1, z1, q
<1> DEFINE full == sp(x1, y1, z1)
           part == sp(x1, 0, 0)
<1>12. full \in Space /\ part \in Space /\ q.space = full
  <2>1. 0 \in Nat
    BY SMT
  <2> QED
    BY <2>1, <1>3, <1>5, <1>6, <1>7, <1>9
<1>13. /\ full.r1.pbase = x1 /\ full.r2.pbase = y1 /\ full.stack = z1 /\ part.r2.pbase = 0
       /\ full.r1.vbase = s.r1.vbase /\ full.r1.npages = n1
       /\ full.r2.vbase = s.r2.vbase /\ full.r2.npages = n2
       /\ part.r1.vbase = s.r1.vbase /\ part.r1.npages = n1
       /\ part.r2.vbase = s.r2.vbase /\ part.r2.npages = n2
  BY SMT
<1>14. y1 = 0 => [full EXCEPT !.stack = 0] = part
  BY SMT
<1> HIDE DEF full, part
<1>15. CASE x1 = 0
  <2>1. p = [space |-> s, frames |-> f2]
    BY <1>10, <1>12, <1>13, <1>15
  <2>2. p.space = s /\ p.frames = f2
    BY SMT, <2>1
  <2> QED
    BY <2>2, <1>5, <1>11 DEF Usable, SameRegions
<1>16. CASE x1 # 0 /\ y1 = 0
  <2>1. p = [space |-> part, frames |-> f3]
    BY <1>10, <1>12, <1>13, <1>14, <1>16
  <2>2. p.space = part /\ p.frames = f3
    BY SMT, <2>1
  <2> QED
    BY <2>2, <1>6, <1>11, <1>12, <1>13 DEF Usable, SameRegions
<1>17. CASE x1 # 0 /\ y1 # 0
  <2>1. p.space = full /\ p.frames = f4
    BY <1>9, <1>10, <1>12, <1>13, <1>17
  <2>2. /\ (f + n1) * PageLen = f * PageLen + n1 * PageLen
        /\ (f2 + n2) * PageLen = f2 * PageLen + n2 * PageLen
        /\ (f3 + StackPages) * PageLen = f3 * PageLen + StackPages * PageLen
    BY SMT, <1>1, <1>4, <1>8
  <2> HIDE DEF n1, n2
  <2>3. ASSUME Fitting(s), Usable(p.space)
        PROVE  /\ x1 = f * PageLen /\ y1 = x1 + n1 * PageLen /\ z1 = y1 + n2 * PageLen
               /\ High(full) = p.frames * PageLen
    <3>1. z1 # 0
      BY <2>1, <2>3, <1>13 DEF Usable
    <3> QED
      BY <3>1, <2>1, <2>2, <2>3, <1>5, <1>6, <1>7, <1>13, <1>17 DEF High
  <2> QED
    BY <2>1, <2>3, <1>7, <1>11, <1>12, <1>13 DEF n1, n2, SameRegions, Taken
<1> QED
  BY <1>15, <1>16, <1>17

-----------------------------------------------------------------------------
(* The steps.  All but AsCopy change only the thread that takes them.      *)
Step(t) ==
    \/ RunProgram(t) \/ ReadFails(t) \/ DefineSegment(t) \/ PrepareLoad(t)
    \/ Copyout(t) \/ NextSegment(t) \/ CopyStore(t) \/ CopyFault(t) \/ VmFault(t)
    \/ EnterUser(t) \/ SysExit(t) \/ ThreadExit(t) \/ \E a \in UserAddrs : UserStore(t, a)

Same(x) ==
    /\ upc'[x] = upc[x] /\ seg'[x] = seg[x] /\ done'[x] = done[x] /\ as'[x] = as[x]
    /\ faultAddr'[x] = faultAddr[x] /\ badfault'[x] = badfault[x] /\ view'[x] = view[x]

LEMMA StepIsOwn ==
  ASSUME UserTypes, NEW t \in Proc, Step(t)
  PROVE  /\ running = t /\ running' = t /\ prog' = prog /\ ~ userPanic
         /\ \A x \in Proc : x # t => Same(x)
<1> USE DEF UserTypes, At, Goto, Same
<1>1. CASE RunProgram(t)
  BY <1>1 DEF RunProgram
<1>2. CASE ReadFails(t)
  BY <1>2 DEF ReadFails
<1>3. CASE DefineSegment(t)
  <2>1. \A x \in Proc : x # t => upc'[x] = upc[x] /\ as'[x] = as[x]
    BY <1>3 DEF DefineSegment, DefineRegion
  <2> QED
    BY <1>3, <2>1 DEF DefineSegment
<1>4. CASE PrepareLoad(t)
  BY <1>4 DEF PrepareLoad
<1>5. CASE Copyout(t)
  BY <1>5 DEF Copyout
<1>6. CASE NextSegment(t)
  BY <1>6 DEF NextSegment
<1>7. CASE CopyStore(t)
  BY <1>7 DEF CopyStore, Store
<1>8. CASE CopyFault(t)
  BY <1>8 DEF CopyFault, Miss
<1>9. CASE VmFault(t)
  BY <1>9 DEF VmFault, CopyFail
<1>10. CASE EnterUser(t)
  BY <1>10 DEF EnterUser
<1>11. CASE SysExit(t)
  BY <1>11 DEF SysExit
<1>12. CASE ThreadExit(t)
  BY <1>12 DEF ThreadExit
<1>13. CASE \E a \in UserAddrs : UserStore(t, a)
  BY <1>13 DEF UserStore, Store, Miss
<1> QED
  BY <1>1, <1>2, <1>3, <1>4, <1>5, <1>6, <1>7, <1>8, <1>9, <1>10, <1>11, <1>12, <1>13 DEF Step

(* A thread that is left alone stays where it is and keeps its load.       *)
LEMMA SameKeeps ==
  ASSUME NEW x \in Proc, Same(x), prog' = prog, ~ userPanic, StageOf(x), LoadOf(x)
  PROVE  StageOf(x)' /\ LoadOf(x)'
<1>1. StageOf(x)'
  BY DEF Same, StageOf, Mapped
<1>2. \A i, n : Prefix(x, i, n)' = Prefix(x, i, n)
  BY DEF Same, Prefix
<1>3. Dest(x)' = Dest(x)
  BY DEF Same, Dest, Segments
<1>4. LoadOf(x)'
  BY <1>2, <1>3 DEF Same, LoadOf, Prefix
<1> QED
  BY <1>1, <1>4

(* A step of a thread keeps StagesKept and LoadKept if it does for itself. *)
LEMMA StagesByStep ==
  ASSUME UserInv, NEW t \in Proc, Step(t), StageOf(t)', LoadOf(t)'
  PROVE  StagesKept' /\ LoadKept'
  BY StepIsOwn, SameKeeps DEF UserInv, StagesKept, LoadKept

(* A space is changed, or none: memory that it has was free, if sizes fit. *)
Grown(c) ==
    /\ frames' # 0 /\ frames <= frames'
    /\ c # UNULL => Fitting(c)
    /\ c # UNULL /\ Usable(c) => Low(c) = frames * PageLen /\ InOrder(c, frames')

LEMMA SpaceChanges ==
  ASSUME UserInv, NEW t \in Proc, NEW c \in Space \cup {UNULL}, as' = [as EXCEPT ![t] = c],
         prog' = prog, frames' \in 0 .. LastFrame, c # UNULL => Aligned(c), SizesFit => Grown(c)
  PROVE  SpacesKept'
<1>1. as'[t] = c /\ \A x \in Proc : x # t => as'[x] = as[x]
  BY DEF UserInv, UserTypes
<1>2. \A x \in Proc : as'[x] # UNULL => Aligned(as'[x])
  BY <1>1 DEF UserInv, SpacesKept
<1>3. ASSUME SizesFit PROVE Placed'
  <2>0. Placed /\ Grown(c)
    BY <1>3 DEF UserInv, SpacesKept
  <2>1. frames <= frames' /\ frames \in Nat /\ frames' \in Nat /\ PageLen \in Nat
    <3>1. frames \in Nat /\ frames' \in Nat
      BY SMT, UserConstants DEF UserInv, UserTypes
    <3> QED
      BY <2>0, <3>1, UserConstants DEF Grown
  <2>2. frames * PageLen <= frames' * PageLen /\ frames * PageLen \in Int /\ frames' * PageLen \in Int
    <3>1. frames * PageLen \in Int /\ frames' * PageLen \in Int /\ frames \in Int /\ frames' \in Int
      BY SMT, <2>1
    <3> QED
      BY <2>1, <3>1, TimesMonotone
  <2>3. ASSUME NEW x \in Proc, x # t, Mapped(x)'
        PROVE  as[x] \in Space /\ Mapped(x) /\ High(as[x]) <= frames * PageLen /\ InOrder(as'[x], frames')
    <3>1. Mapped(x) /\ as[x] \in Space
      BY <1>1, <2>3 DEF Mapped, UserInv, UserTypes
    <3>2. InOrder(as[x], frames)
      BY <2>0, <3>1 DEF Placed
    <3>3. High(as[x]) \in Int
      BY <3>1, HighType
    <3>4. High(as[x]) <= frames * PageLen
      BY <3>2 DEF InOrder
    <3>5. High(as[x]) <= frames' * PageLen
      <4> DEFINE x1 == High(as[x])
                 x2 == frames * PageLen
                 x3 == frames' * PageLen
      <4>1. x1 \in Int /\ x2 \in Int /\ x3 \in Int /\ x1 <= x2 /\ x2 <= x3
        BY <2>2, <3>3, <3>4
      <4> HIDE DEF x1, x2, x3
      <4>2. x1 <= x3
        BY SMT, <4>1
      <4> QED
        BY <4>2 DEF x1, x3
    <3> QED
      BY <1>1, <2>3, <3>1, <3>2, <3>4, <3>5 DEF InOrder, High
  <2>4. \A x \in Proc : as'[x] # UNULL => Fitting(as'[x])
    BY <1>1, <2>0 DEF Placed, Grown
  <2>5. \A x \in Proc : Mapped(x)' => InOrder(as'[x], frames')
    BY <1>1, <2>0, <2>3 DEF Mapped, Grown
  <2>6. ASSUME NEW x \in Proc, NEW y \in Proc, x # y, Mapped(x)', Mapped(y)'
        PROVE  Apart(as'[x], as'[y])
    <3>1. CASE x # t /\ y # t
      BY <1>1, <2>0, <2>3, <2>6, <3>1 DEF Placed
    <3>2. CASE x = t
      BY <1>1, <2>0, <2>3, <2>6, <3>2 DEF Mapped, Apart, Grown
    <3>3. CASE y = t
      BY <1>1, <2>0, <2>3, <2>6, <3>3 DEF Mapped, Apart, Grown
    <3> QED
      BY <3>1, <3>2, <3>3
  <2>7. frames' # 0
    BY <2>0 DEF Grown
  <2> QED
    BY <2>4, <2>5, <2>6, <2>7 DEF Placed, Apart, High, Low, Fitting
<1> QED
  BY <1>2, <1>3, FitStays DEF SpacesKept, Aligned

(* A space that has no memory has nothing stored.                          *)
LEMMA UnmappedIsEmpty ==
  ASSUME UserInv, NEW t \in Proc, ~ Mapped(t)
  PROVE  DOMAIN view[t] = {}
  BY DEF UserInv, ViewKept, Stored

(* What is stored stays if memory and the spaces that have any do.         *)
LEMMA ViewByStep ==
  ASSUME UserInv, NEW t \in Proc, memory' = memory, prog' = prog,
         \A x \in Proc : x # t => as'[x] = as[x] /\ view'[x] = view[x],
         \/ as'[t] = as[t] /\ view'[t] = view[t]
         \/ DOMAIN (view'[t]) = {}
  PROVE  ViewKept'
<1> SUFFICES ASSUME NEW x \in Proc, NEW a \in DOMAIN (view'[x]) PROVE Stored(x, a)'
  BY DEF ViewKept
<1>1. as'[x] = as[x] /\ view'[x] = view[x]
  OBVIOUS
<1>2. Stored(x, a)
  BY <1>1 DEF UserInv, ViewKept
<1> QED
  BY <1>1, <1>2, FitStays DEF Stored, Mapped, Where

(* A page that the TLB has is the page of the running thread.              *)
LEMMA HitIsRight ==
  ASSUME UserInv, NEW a \in Nat, Hits(a) # {}, Mapped(running)
  PROVE  /\ PageOf(as[running], Frame(a)) # UNULL
         /\ Translated(a) = Where(running, a)
<1> DEFINE i == CHOOSE j \in Hits(a) : TRUE
<1>1. i \in Hits(a)
  OBVIOUS
<1>2. i \in 1 .. NumTlb /\ tlb[i].vpage = Frame(a)
  BY <1>1 DEF Hits
<1>3. Frame(a) \in Int /\ Frame(a) # UNULL
  <2>1. Frame(a) \in Nat
    BY PageFacts
  <2>2. Frame(a) \in Int
    BY SMT, <2>1
  <2> QED
    BY <2>2, UnullIsNothing
<1> HIDE DEF i
<1>4. tlb[i] # Invalid /\ tlb[i] \in Entry \cup {Invalid}
  <2>1. Invalid.vpage = UNULL
    BY DEF Invalid
  <2> QED
    BY <1>2, <1>3, <2>1 DEF UserInv, UserTypes
<1>5. tlb[i].paddr \in Int
  BY <1>4 DEF Entry
<1>6. tlb[i].paddr = PageOf(as[running], Frame(a))
  BY <1>2, <1>4 DEF UserInv, TlbKept, TlbSound, Mapped
<1> QED
  BY <1>5, <1>6, UnullIsNothing DEF Translated, Where, i

(* A store by the running thread.                                          *)
LEMMA StoreKeepsView ==
  ASSUME UserInv, Mapped(running), NEW a \in 0 .. UserTop - 1, NEW v, Store(running, a, v),
         as' = as, prog' = prog
  PROVE  ViewKept'
<1> DEFINE t == running
           w == Where(t, a)
<1>1. t \in Proc /\ a \in Nat /\ as[t] \in Space
  <2>1. t \in Proc /\ as[t] \in Space
    BY DEF Mapped, UserInv, UserTypes
  <2>2. a \in Nat
    BY SMT, UserConstants
  <2> QED
    BY <2>1, <2>2
<1>2. PageOf(as[t], Frame(a)) # UNULL /\ memory' = Put(memory, w, v)
  BY <1>1, HitIsRight DEF Store
<1>3. DOMAIN memory' = DOMAIN memory \cup {w} /\ memory'[w] = v
      /\ \A x \in DOMAIN memory : x # w => memory'[x] = memory[x]
  BY <1>2 DEF Put
<1>4. view'[t] = Put(view[t], a, v) /\ \A x \in Proc : x # t => view'[x] = view[x]
  BY <1>1 DEF Store, UserInv, UserTypes
<1>5. DOMAIN (view'[t]) = DOMAIN view[t] \cup {a} /\ view'[t][a] = v
      /\ \A b \in DOMAIN view[t] : b # a => view'[t][b] = view[t][b]
  BY <1>4 DEF Put
<1>6. ASSUME SizesFit, NEW x \in Proc, NEW b \in DOMAIN view[x], ~ (x = t /\ b = a)
      PROVE  Where(x, b) # w
  <2>0. Placed /\ Aligned(as[t])
    BY <1>1, <1>6 DEF UserInv, SpacesKept, Mapped
  <2>1. Stored(x, b)
    BY <1>6 DEF UserInv, ViewKept
  <2>2. b \in Nat
    BY SMT, <2>1, UserConstants DEF Stored
  <2>3. as[x] \in Space /\ InOrder(as[x], frames) /\ as[x].r1.vbase % PageLen = 0 /\ as[x].r2.vbase % PageLen = 0
    BY <2>0, <2>1 DEF Stored, Mapped, UserInv, UserTypes, SpacesKept, Placed, Aligned
  <2>4. InOrder(as[t], frames) /\ as[t].r1.vbase % PageLen = 0 /\ as[t].r2.vbase % PageLen = 0
    BY <1>1, <2>0 DEF Mapped, Placed, Aligned
  <2>5. Where(x, b) = Phys(as[x], b) /\ w = Phys(as[t], a) /\ PageOf(as[x], Frame(b)) # UNULL
    BY <2>1 DEF Where, Phys, Stored
  <2>6. CASE x = t
    BY <1>1, <1>2, <1>6, <2>2, <2>4, <2>5, <2>6, OwnPlaces
  <2>7. CASE x # t
    <3>1. Apart(as[x], as[t])
      BY <1>1, <2>0, <2>1, <2>7 DEF Stored, Placed
    <3>2. Phys(as[x], b) \in Int /\ Low(as[x]) <= Phys(as[x], b) /\ Phys(as[x], b) < High(as[x])
      BY <2>2, <2>3, <2>5, OwnPlaces
    <3>3. Phys(as[t], a) \in Int /\ Low(as[t]) <= Phys(as[t], a) /\ Phys(as[t], a) < High(as[t])
      BY <1>1, <1>2, <2>4, OwnPlaces
    <3>4. Low(as[x]) \in Int /\ High(as[x]) \in Int /\ Low(as[t]) \in Int /\ High(as[t]) \in Int
      BY <1>1, <2>3, HighType
    <3> HIDE DEF t, w
    <3> QED
      BY <3>1, <3>2, <3>3, <3>4, <2>5, RangesDiffer DEF Apart
  <2> QED
    BY <2>6, <2>7
<1> SUFFICES ASSUME NEW x \in Proc, NEW b \in DOMAIN (view'[x]) PROVE Stored(x, b)'
  BY DEF ViewKept
<1>7. Where(x, b)' = Where(x, b) /\ Mapped(x)' = Mapped(x)
  BY DEF Where, Mapped
<1>8. CASE x = t /\ b = a
  BY <1>2, <1>3, <1>5, <1>7, <1>8 DEF Stored
<1>9. CASE ~ (x = t /\ b = a)
  <2>1. b \in DOMAIN view[x] /\ view'[x][b] = view[x][b]
    <3>1. CASE x = t
      BY <1>5, <1>9, <3>1
    <3>2. CASE x # t
      BY <1>4, <3>2
    <3> QED
      BY <3>1, <3>2
  <2>2. Stored(x, b) /\ (SizesFit => Where(x, b) # w)
    BY <2>1, <1>6, <1>9 DEF UserInv, ViewKept
  <2>3. (a \in 0 .. UserTop - 1) /\ (Mapped(x)' <=> Mapped(x)) /\ as'[x] = as[x]
    BY <1>7
  <2> QED
    BY <1>3, <1>7, <2>1, <2>2, FitStays DEF Stored
<1> QED
  BY <1>8, <1>9

(* Steps that change neither spaces nor memory.                            *)
LEMMA QuietStep ==
  ASSUME UserInv, as' = as, frames' = frames, memory' = memory, view' = view, prog' = prog
  PROVE  SpacesKept' /\ ViewKept'
<1>1. Placed => Placed'
  BY DEF Placed, Mapped, InOrder, High, Fitting
<1>2. SpacesKept'
  BY <1>1, FitStays DEF UserInv, SpacesKept, Aligned
<1>3. ViewKept'
  BY FitStays DEF UserInv, ViewKept, Stored, Mapped, Where
<1> QED
  BY <1>2, <1>3

(* A TLB without valid entries.                                            *)
LEMMA EmptyTlb ==
  ASSUME \A i \in 1 .. NumTlb : tlb'[i] = Invalid, faultAddr' \in [Proc -> Nat \cup {UNULL}],
         StagesKept', running' \in Proc
  PROVE  TlbKept'
<1>1. TlbSound'
  BY DEF TlbSound
<1>2. ASSUME upc'[running'] \in {"kfault", "ufault"}, ~ userPanic' PROVE Hits(faultAddr[running])' = {}
  <2>1. faultAddr'[running'] \in Nat
    BY <1>2 DEF StagesKept, StageOf
  <2>2. Frame(faultAddr'[running']) \in Nat
    BY <2>1, PageFacts
  <2>3. Frame(faultAddr'[running']) # UNULL
    BY SMT, <2>2, UnullIsNothing
  <2> QED
    <3>1. \A i \in 1 .. NumTlb : tlb'[i].vpage = UNULL
      <4>1. Invalid.vpage = UNULL
        BY DEF Invalid
      <4> QED
        BY <4>1
    <3> QED
      BY <2>3, <3>1 DEF Hits
<1> QED
  BY <1>1, <1>2 DEF TlbKept

(* The TLB stays as it is, and the space too or it is given up.            *)
LEMMA SameTlb ==
  ASSUME UserInv, NEW t \in Proc, running = t, running' = t, tlb' = tlb,
         as'[t] = as[t] \/ as'[t] = UNULL,
         upc'[t] = "define" => upc[t] = "define",
         upc'[t] \in {"kfault", "ufault"} /\ ~ userPanic' => Hits(faultAddr'[t]) = {}
  PROVE  TlbKept'
<1>1. TlbSound'
  BY DEF UserInv, TlbKept, TlbSound
<1>2. \A a : Hits(a)' = Hits(a)
  BY DEF Hits
<1>3. Hits(faultAddr[running])' = Hits(faultAddr'[t])
  BY <1>2 DEF Hits
<1> QED
  BY <1>1, <1>3 DEF UserInv, TlbKept

(* Steps that change only where the thread is.                             *)
LEMMA QuietKeeps ==
  ASSUME UserInv, NEW t \in Proc, Step(t), NEW w \in Labels, Goto(t, w) \/ (upc' = upc /\ upc[t] = w),
         UNCHANGED <<as, frames, memory, view, tlb>>,
         seg' \in [Proc -> Nat \ {0}], done' \in [Proc -> Nat],
         faultAddr' \in [Proc -> Nat \cup {UNULL}], badfault' \in [Proc -> BOOLEAN],
         w # "start", w = "define" => upc[t] = "define" /\ done'[t] = 0,
         w \in {"load", "copy", "kfault", "user", "ufault"} => Mapped(t),
         w \in {"kfault", "ufault"} /\ ~ userPanic' =>
            faultAddr'[t] \in Nat /\ Hits(faultAddr'[t]) = {},
         LoadOf(t)'
  PROVE  UserInv'
<1>1. running = t /\ running' = t /\ prog' = prog /\ ~ userPanic
  BY StepIsOwn DEF UserInv
<1>2. upc' \in [Proc -> Labels] /\ upc'[t] = w
  <2>1. CASE Goto(t, w)
    BY <2>1 DEF Goto, UserInv, UserTypes
  <2>2. CASE upc' = upc /\ upc[t] = w
    BY <2>2 DEF UserInv, UserTypes
  <2> QED
    BY <2>1, <2>2
<1>3. UserTypes'
  BY <1>1, <1>2 DEF UserInv, UserTypes
<1>4. StageOf(t)'
  <2>1. w = "define" => as[t] # UNULL /\ as[t].r1.pbase = 0
    BY DEF UserInv, StagesKept, StageOf
  <2> QED
    BY <1>2, <2>1 DEF StageOf, Mapped
<1>5. StagesKept' /\ LoadKept'
  BY <1>4, StagesByStep
<1>6. SpacesKept' /\ ViewKept'
  BY <1>1, QuietStep
<1>7. TlbKept'
  BY <1>1, <1>2, SameTlb
<1> QED
  BY <1>3, <1>5, <1>6, <1>7 DEF UserInv

LEMMA SwitchKeeps ==
  ASSUME UserInv, NEW t \in Proc, Switch(t)
  PROVE  UserInv'
<1>1. UserTypes'
  <2>1. tlb' \in [1 .. NumTlb -> Entry \cup {Invalid}]
    BY DEF Switch, UserInv, UserTypes, Flushed
  <2> QED
    BY <2>1 DEF Switch, UserInv, UserTypes
<1>2. ~ userPanic /\ \A x \in Proc : Same(x) /\ prog' = prog
  BY DEF Switch, Same
<1>3. StagesKept' /\ LoadKept'
  BY <1>2, SameKeeps DEF UserInv, StagesKept, LoadKept
<1>4. SpacesKept' /\ ViewKept'
  BY QuietStep DEF Switch
<1>5. TlbKept'
  <2>1. CASE as[t] # UNULL
    <3>1. \A i \in 1 .. NumTlb : tlb'[i] = Invalid
      BY <2>1 DEF Switch, Flushed
    <3> QED
      BY <3>1, <1>1, <1>3, EmptyTlb DEF UserTypes
  <2>2. CASE as[t] = UNULL
    <3>1. running' = t /\ as'[t] = UNULL /\ upc' = upc
      BY <2>2 DEF Switch
    <3>2. upc[t] # "define" /\ upc[t] \notin {"kfault", "ufault"}
      BY <2>2 DEF UserInv, StagesKept, StageOf, Mapped
    <3> QED
      BY <3>1, <3>2 DEF TlbKept, TlbSound
  <2> QED
    BY <2>1, <2>2
<1> QED
  BY <1>1, <1>3, <1>4, <1>5 DEF UserInv

LEMMA RunProgramKeeps ==
  ASSUME UserInv, NEW t \in Proc, RunProgram(t)
  PROVE  UserInv'
<1> DEFINE new == [r1 |-> Empty, r2 |-> Empty, stack |-> 0]
<1>1. upc[t] = "start" /\ as[t] = UNULL /\ seg[t] = 1 /\ done[t] = 0 /\ running = t /\ ~ badfault[t]
      /\ ~ Mapped(t)
  BY DEF RunProgram, At, UserInv, StagesKept, StageOf, LoadKept, LoadOf, Mapped
<1>2. new \in Space /\ new # UNULL /\ new.r1.pbase = 0 /\ new.r1.vbase = 0 /\ new.r2.vbase = 0
  <2>1. new \in Space /\ new.r1.pbase = 0 /\ new.r1.vbase = 0 /\ new.r2.vbase = 0
    BY SMT DEF Space, Piece, Empty, Region
  <2> QED
    BY <2>1, SpaceFacts
<1>3. Step(t)
  BY DEF Step
<1>4. CASE as' = [as EXCEPT ![t] = new] /\ tlb' = Flushed /\ Goto(t, "define")
  <2>1. as'[t] = new /\ upc'[t] = "define" /\ \A i \in 1 .. NumTlb : tlb'[i] = Invalid
    BY <1>4 DEF UserInv, UserTypes, Goto, Flushed
  <2>2. UserTypes'
    <3>1. upc' \in [Proc -> Labels]
      BY <1>4 DEF Goto, Labels, UserInv, UserTypes
    <3>2. as' \in [Proc -> Space \cup {UNULL}]
      BY <1>4, <1>2 DEF UserInv, UserTypes
    <3>3. tlb' \in [1 .. NumTlb -> Entry \cup {Invalid}]
      BY <1>4 DEF Flushed
    <3> QED
      BY <3>1, <3>2, <3>3 DEF RunProgram, UserInv, UserTypes
  <2>3. StageOf(t)'
    BY <1>1, <1>2, <2>1 DEF RunProgram, StageOf
  <2>4. LoadOf(t)'
    BY <1>1, <2>1 DEF RunProgram, LoadOf
  <2>5. StagesKept' /\ LoadKept'
    BY <1>3, <2>3, <2>4, StagesByStep
  <2>6. SpacesKept'
    <3>1. Aligned(new)
      <4>1. 0 % PageLen = 0
        BY SMT, UserConstants
      <4> QED
        BY <4>1, <1>2 DEF Aligned
    <3>2. ~ Usable(new)
      BY <1>2 DEF Usable
    <3>3. frames' = frames /\ frames' \in 0 .. LastFrame /\ frames <= frames' /\ prog' = prog
      <4>1. frames \in Int
        BY SMT, UserConstants DEF UserInv, UserTypes
      <4>2. frames <= frames
        BY SMT, <4>1
      <4> QED
        BY <4>2 DEF RunProgram, UserInv, UserTypes
    <3>4. Fitting(new)
      <4>1. LastFrame + 0 < FrameMod
        BY SMT, ModFacts
      <4>2. new.r1.npages = 0 /\ new.r2.npages = 0
        BY SMT DEF Empty, Region
      <4> QED
        BY <4>1, <4>2 DEF Fitting
    <3> HIDE DEF new
    <3>5. SizesFit => Grown(new)
      BY <3>2, <3>3, <3>4 DEF Grown, UserInv, SpacesKept, Placed
    <3> QED
      BY <1>2, <1>4, <3>1, <3>3, <3>5, SpaceChanges
  <2>7. ViewKept'
    <3>1. DOMAIN (view'[t]) = {} /\ memory' = memory
      BY <1>1, UnmappedIsEmpty DEF RunProgram
    <3>2. prog' = prog /\ \A x \in Proc : x # t => as'[x] = as[x] /\ view'[x] = view[x]
      BY <1>3, StepIsOwn DEF UserInv, Same
    <3> QED
      BY <3>1, <3>2, ViewByStep
  <2>8. TlbKept'
    BY <2>1, <2>2, <2>5, EmptyTlb DEF UserTypes
  <2> QED
    BY <2>2, <2>5, <2>6, <2>7, <2>8 DEF UserInv
<1>5. CASE Goto(t, "exit") /\ UNCHANGED <<as, tlb>>
  <2>1. LoadOf(t)'
    BY <1>1, <1>5 DEF RunProgram, LoadOf, Goto, UserInv, UserTypes
  <2> QED
    BY <1>3, <1>5, <2>1, QuietKeeps DEF RunProgram, Labels, UserInv, UserTypes
<1> QED
  BY <1>4, <1>5 DEF RunProgram

LEMMA ReadFailsKeeps ==
  ASSUME UserInv, NEW t \in Proc, ReadFails(t)
  PROVE  UserInv'
<1>1. Step(t) /\ ~ badfault[t]
  BY DEF Step, ReadFails, UserInv, LoadKept, LoadOf
<1>2. LoadOf(t)'
  BY <1>1 DEF ReadFails, LoadOf, Goto, UserInv, UserTypes
<1> QED
  BY <1>1, <1>2, QuietKeeps DEF ReadFails, Labels, UserInv, UserTypes

LEMMA SysExitKeeps ==
  ASSUME UserInv, NEW t \in Proc, SysExit(t)
  PROVE  UserInv'
<1>1. Step(t) /\ ~ badfault[t]
  BY DEF Step, SysExit, At, UserInv, LoadKept, LoadOf
<1>2. LoadOf(t)'
  BY <1>1 DEF SysExit, LoadOf, Goto, UserInv, UserTypes
<1> QED
  BY <1>1, <1>2, QuietKeeps DEF SysExit, Labels, UserInv, UserTypes

(* What a program's segments are.                                          *)
LEMMA SegmentFacts ==
  ASSUME UserTypes, NEW t \in Proc
  PROVE  /\ DOMAIN prog[t] = 1 .. Len(prog[t]) /\ Len(prog[t]) \in Nat
         /\ \A i \in DOMAIN prog[t] : /\ prog[t][i].vaddr \in Nat /\ prog[t][i].vaddr < AddrMod
                                      /\ prog[t][i].memsz \in Nat
<1> DEFINE S == [load : BOOLEAN, vaddr : 0 .. AddrMod - 1, memsz : 0 .. AddrMod - 1,
                 filesz : 0 .. AddrMod - 1]
<1>1. prog[t] \in Seq(S)
  BY UserConstants DEF UserTypes
<1>2. DOMAIN prog[t] = 1 .. Len(prog[t]) /\ Len(prog[t]) \in Nat
      /\ \A i \in 1 .. Len(prog[t]) : prog[t][i] \in S
  <2> HIDE DEF S
  <2> QED
    BY SMT, <1>1
<1>3. AddrMod \in Nat
  BY UserConstants
<1>4. ASSUME NEW s \in S PROVE s.vaddr \in Nat /\ s.vaddr < AddrMod /\ s.memsz \in Nat
  BY SMT, <1>3
<1> QED
  BY <1>1, <1>2, <1>4

LEMMA CopyoutKeeps ==
  ASSUME UserInv, NEW t \in Proc, Copyout(t)
  PROVE  UserInv'
<1>1. Step(t) /\ upc[t] = "load" /\ Mapped(t) /\ ~ badfault[t]
  BY DEF Step, Copyout, At, UserInv, StagesKept, StageOf, LoadKept, LoadOf
<1>2. CASE CopyCheck(Dest(t), 1)
  <2>1. /\ upc'[t] = "copy" /\ badfault' \in [Proc -> BOOLEAN]
        /\ UNCHANGED <<prog, seg, done, view>> /\ Goto(t, "copy")
    BY <1>2 DEF Copyout, Goto, UserInv, UserTypes
  <2>2. seg[t] \in DOMAIN prog[t] /\ prog[t][seg[t]].load
    <3>1. seg[t] \in Nat \ {0} /\ seg[t] <= Len(prog[t]) /\ prog[t][seg[t]].load
      BY DEF Copyout, Segments, UserInv, UserTypes
    <3> QED
      BY SMT, <3>1, SegmentFacts DEF UserInv
  <2>3. Dest(t)' = Dest(t) /\ Dest(t) < UserTop
    BY <1>2, <2>1 DEF Dest, Segments, CopyCheck
  <2>4. \A i, n : Prefix(t, i, n)' = Prefix(t, i, n)
    BY <2>1 DEF Prefix
  <2>5. LoadOf(t)'
    <3>1. \A i \in DOMAIN prog[t] : (i < seg[t] => Prefix(t, i, prog[t][i].memsz))
                                    /\ (i = seg[t] => Prefix(t, i, done[t]))
      BY <1>1 DEF UserInv, LoadKept, LoadOf
    <3> QED
      BY <2>1, <2>2, <2>3, <3>1 DEF LoadOf, Prefix
  <2> QED
    BY <1>1, <2>1, <2>5, QuietKeeps DEF Copyout, Labels, UserInv, UserTypes
<1>3. CASE ~ CopyCheck(Dest(t), 1)
  <2>1. upc'[t] = "exit" /\ badfault' = badfault /\ Goto(t, "exit")
    BY <1>3 DEF Copyout, Goto, UserInv, UserTypes
  <2>2. LoadOf(t)'
    BY <1>1, <2>1 DEF LoadOf
  <2> QED
    BY <1>1, <2>1, <2>2, QuietKeeps DEF Copyout, Labels, UserInv, UserTypes
<1> QED
  BY <1>2, <1>3

LEMMA NextSegmentKeeps ==
  ASSUME UserInv, NEW t \in Proc, NextSegment(t)
  PROVE  UserInv'
<1>1. Step(t) /\ upc[t] = "load" /\ Mapped(t) /\ ~ badfault[t]
  BY DEF Step, NextSegment, At, UserInv, StagesKept, StageOf, LoadKept, LoadOf
<1>2. seg' \in [Proc -> Nat \ {0}] /\ done' \in [Proc -> Nat] /\ seg'[t] = seg[t] + 1 /\ done'[t] = 0
      /\ seg[t] \in Nat
  <2>1. seg[t] \in Nat \ {0} /\ seg[t] + 1 \in Nat \ {0} /\ 0 \in Nat
    BY SMT DEF UserInv, UserTypes
  <2> QED
    BY <2>1 DEF NextSegment, UserInv, UserTypes
<1>3. UNCHANGED <<upc, prog, view, badfault>>
  BY DEF NextSegment
<1>4. ASSUME NEW i \in DOMAIN prog[t], i < seg[t] + 1 PROVE Prefix(t, i, prog[t][i].memsz)
  <2>1. i < seg[t] \/ i = seg[t]
    <3>1. i \in 1 .. Len(prog[t]) /\ Len(prog[t]) \in Nat
      BY SegmentFacts DEF UserInv
    <3> QED
      BY SMT, <1>2, <1>4, <3>1
  <2>2. i = seg[t] => (prog[t][i].load => done[t] = prog[t][i].memsz)
    BY DEF NextSegment, Segments
  <2>3. (i < seg[t] => Prefix(t, i, prog[t][i].memsz)) /\ (i = seg[t] => Prefix(t, i, done[t]))
    BY <1>1 DEF UserInv, LoadKept, LoadOf
  <2> QED
    BY <2>1, <2>2, <2>3 DEF Prefix
<1>5. \A i : Prefix(t, i, 0)
  BY SMT DEF Prefix
<1>6. LoadOf(t)'
  <2>1. \A i \in DOMAIN prog'[t] : /\ i < seg'[t] => Prefix(t, i, prog[t][i].memsz)'
                                   /\ i = seg'[t] => Prefix(t, i, done[t])'
    <3>2. \A i : Prefix(t, i, done[t])' = Prefix(t, i, 0)
      BY <1>2, <1>3 DEF Prefix
    <3>3. \A i : Prefix(t, i, prog[t][i].memsz)' = Prefix(t, i, prog[t][i].memsz)
      BY <1>3 DEF Prefix
    <3> QED
      BY <1>2, <1>3, <1>4, <1>5, <3>2, <3>3
  <2> QED
    BY <1>1, <1>3, <2>1 DEF LoadOf
<1> QED
  BY <1>1, <1>2, <1>6, QuietKeeps DEF NextSegment, Labels, UserInv, UserTypes

LEMMA EnterUserKeeps ==
  ASSUME UserInv, NEW t \in Proc, EnterUser(t)
  PROVE  UserInv'
<1>1. Step(t) /\ upc[t] = "load" /\ Mapped(t) /\ ~ badfault[t] /\ Goto(t, "user") /\ upc'[t] = "user"
  BY DEF Step, EnterUser, At, Goto, UserInv, UserTypes, StagesKept, StageOf, LoadKept, LoadOf
<1>2. UNCHANGED <<prog, seg, done, view, badfault>>
  BY DEF EnterUser
<1>3. \A i \in DOMAIN prog[t] : Prefix(t, i, prog[t][i].memsz)
  <2>1. \A i \in DOMAIN prog[t] : i < seg[t]
    <3>1. seg[t] > Len(prog[t]) /\ seg[t] \in Nat
      BY DEF EnterUser, Segments, UserInv, UserTypes
    <3> QED
      BY SMT, <3>1, SegmentFacts DEF UserInv
  <2> QED
    BY <1>1, <2>1 DEF UserInv, LoadKept, LoadOf
<1>4. LoadOf(t)'
  BY <1>1, <1>2, <1>3 DEF LoadOf, Prefix
<1> QED
  BY <1>1, <1>4, QuietKeeps DEF EnterUser, Labels, UserInv, UserTypes

(* Where a load stores next: it has not wrapped around.                    *)
LEMMA DestFacts ==
  ASSUME UserInv, NEW t \in Proc, upc[t] \in {"copy", "kfault"}
  PROVE  /\ Dest(t) \in 0 .. UserTop - 1 /\ Dest(t) = prog[t][seg[t]].vaddr + done[t]
<1> DEFINE v == prog[t][seg[t]].vaddr
<1>1. /\ seg[t] \in DOMAIN prog[t] /\ prog[t][seg[t]].load /\ Dest(t) < UserTop
      /\ Prefix(t, seg[t], done[t])
  BY DEF UserInv, LoadKept, LoadOf
<1>2. v \in Nat /\ v < AddrMod /\ done[t] \in Nat
  BY <1>1, SegmentFacts DEF UserInv, UserTypes
<1>3. AddrMod \in Nat /\ UserTop \in Nat /\ UserTop < AddrMod
  BY ModFacts
<1>4. Dest(t) = (v + done[t]) % AddrMod
  BY DEF Dest, Segments
<1>5. v + done[t] < AddrMod
  <2>1. CASE done[t] = 0
    BY SMT, <2>1, <1>2, <1>3
  <2>2. CASE done[t] # 0
    <3>1. done[t] - 1 \in 0 .. done[t] - 1
      BY SMT, <2>2, <1>2
    <3>2. v + (done[t] - 1) \in DOMAIN view[t]
      BY <1>1, <3>1 DEF Prefix
    <3>3. v + (done[t] - 1) \in 0 .. UserTop - 1
      BY <3>2 DEF UserInv, ViewKept, Stored
    <3> QED
      BY SMT, <3>3, <1>2, <1>3
  <2> QED
    BY <2>1, <2>2
<1> HIDE DEF v
<1>6. Dest(t) = v + done[t]
  BY SMT, <1>2, <1>3, <1>4, <1>5
<1> QED
  BY SMT, <1>1, <1>2, <1>3, <1>6 DEF v

LEMMA CopyFaultKeeps ==
  ASSUME UserInv, NEW t \in Proc, CopyFault(t)
  PROVE  UserInv'
<1>1. Step(t) /\ upc[t] = "copy" /\ Mapped(t)
  BY DEF Step, CopyFault, At, UserInv, StagesKept, StageOf
<1>2. Dest(t) \in Nat
  BY SMT, <1>1, DestFacts, UserConstants
<1>3. /\ Goto(t, "kfault") /\ faultAddr' = [faultAddr EXCEPT ![t] = Dest(t)] /\ Hits(Dest(t)) = {}
      /\ UNCHANGED <<prog, seg, done, view, badfault>>
  BY <1>1 DEF CopyFault, Miss
<1>4. /\ upc'[t] = "kfault" /\ faultAddr'[t] = Dest(t) /\ faultAddr' \in [Proc -> Nat \cup {UNULL}]
  BY <1>2, <1>3 DEF Goto, UserInv, UserTypes
<1>5. LoadOf(t) /\ Dest(t)' = Dest(t) /\ \A i, n : Prefix(t, i, n)' = Prefix(t, i, n)
  BY <1>3 DEF UserInv, LoadKept, Dest, Segments, Prefix
<1>6. LoadOf(t)'
  BY <1>1, <1>3, <1>4, <1>5 DEF LoadOf, Prefix
<1> QED
  BY <1>1, <1>2, <1>3, <1>4, <1>6, QuietKeeps DEF CopyFault, Labels, UserInv, UserTypes

LEMMA UserMissKeeps ==
  ASSUME UserInv, NEW t \in Proc, NEW a \in UserAddrs, UserStore(t, a), Miss(t, a),
         UNCHANGED <<memory, view, writes>>
  PROVE  UserInv'
<1>1. Step(t) /\ upc[t] = "user" /\ Mapped(t)
  BY DEF Step, UserStore, At, UserInv, StagesKept, StageOf
<1>2. a \in Nat
  BY SMT, UserConstants
<1>3. /\ Goto(t, "ufault") /\ faultAddr' = [faultAddr EXCEPT ![t] = a] /\ Hits(a) = {}
      /\ UNCHANGED <<prog, seg, done, view, badfault>>
  BY <1>1 DEF UserStore, Miss
<1>4. /\ upc'[t] = "ufault" /\ faultAddr'[t] = a /\ faultAddr' \in [Proc -> Nat \cup {UNULL}]
  BY <1>2, <1>3 DEF Goto, UserInv, UserTypes
<1>5. LoadOf(t) /\ \A i, n : Prefix(t, i, n)' = Prefix(t, i, n)
  BY <1>3 DEF UserInv, LoadKept, Prefix
<1>6. LoadOf(t)'
  BY <1>1, <1>3, <1>4, <1>5 DEF LoadOf, Prefix
<1> QED
  BY <1>1, <1>2, <1>3, <1>4, <1>6, QuietKeeps DEF UserStore, Labels, UserInv, UserTypes

(* A fault that is handled: the new entry is right, and the page had none. *)
LEMMA RefillKeeps ==
  ASSUME UserInv, NEW t \in Proc, VmFault(t), Complete(as[t]), VmFaultOK(t),
         TlbWrite(FirstEntry, Frame(faultAddr[t]), PageOf(as[t], Frame(faultAddr[t]))),
         Goto(t, IF upc[t] = "kfault" THEN "copy" ELSE "user"), UNCHANGED <<userPanic, badfault>>
  PROVE  UserInv'
<1> DEFINE v == Frame(faultAddr[t])
           p == PageOf(as[t], v)
           w == IF upc[t] = "kfault" THEN "copy" ELSE "user"
<1>1. /\ Step(t) /\ running = t /\ running' = t /\ upc[t] \in {"kfault", "ufault"} /\ ~ userPanic
      /\ Mapped(t) /\ faultAddr[t] \in Nat /\ Hits(faultAddr[t]) = {}
      /\ UNCHANGED <<prog, seg, done, as, frames, memory, view>>
  BY DEF Step, VmFault, UserInv, StagesKept, StageOf, TlbKept
<1>2. as[t] \in Space /\ v \in Int /\ p \in Int /\ v # UNULL
  <2>1. as[t] \in Space
    BY <1>1 DEF Mapped, UserInv, UserTypes
  <2>2. v \in Nat
    BY <1>1, PageFacts
  <2>3. v \in Int
    BY SMT, <2>2
  <2> QED
    BY <2>1, <2>3, PageOfType, UnullIsNothing DEF VmFaultOK
<1> DEFINE e == [vpage |-> v, paddr |-> p]
<1>3. e \in Entry /\ e.vpage = v /\ e.paddr = p /\ tlb' = [tlb EXCEPT ![FirstEntry] = e]
  BY <1>2 DEF Entry, TlbWrite
<1> HIDE DEF e, p, v
<1>4. tlb' \in [1 .. NumTlb -> Entry \cup {Invalid}]
  BY <1>3 DEF UserInv, UserTypes
<1>5. \A i \in 1 .. NumTlb : tlb'[i] = tlb[i] \/ tlb'[i] = e
  BY <1>3 DEF UserInv, UserTypes
<1>6. \A i \in 1 .. NumTlb : tlb'[i] = e => i = FirstEntry \/ tlb[i] = e
  BY <1>3 DEF UserInv, UserTypes
<1>7. \A i \in 1 .. NumTlb : tlb[i].vpage # v /\ tlb[i] # e
  BY <1>1, <1>3 DEF Hits, v
<1>8. upc'[t] = w /\ w \in {"copy", "user"} /\ upc' \in [Proc -> Labels]
      /\ faultAddr' \in [Proc -> Nat \cup {UNULL}]
  BY <1>1 DEF Goto, VmFault, Labels, UserInv, UserTypes
<1>9. UserTypes'
  BY <1>1, <1>4, <1>8 DEF UserInv, UserTypes
<1>10. TlbSound'
  <2>1. as[t] # UNULL /\ TlbSound
    BY <1>1 DEF Mapped, UserInv, TlbKept
  <2>2. ASSUME NEW i \in 1 .. NumTlb, tlb'[i] # Invalid
        PROVE  tlb'[i].paddr = PageOf(as[t], tlb'[i].vpage)
    BY <2>1, <2>2, <1>1, <1>3, <1>5 DEF TlbSound, p
  <2>3. ASSUME NEW i \in 1 .. NumTlb, NEW j \in 1 .. NumTlb, i # j, tlb'[i] # Invalid
        PROVE  tlb'[i].vpage # tlb'[j].vpage
    BY <2>1, <2>3, <1>1, <1>3, <1>5, <1>6, <1>7 DEF TlbSound
  <2> QED
    BY <2>2, <2>3, <1>1 DEF TlbSound, PageOf
<1>11. TlbKept'
  BY <1>1, <1>8, <1>10 DEF TlbKept
<1>12. StageOf(t)'
  BY <1>1, <1>8 DEF StageOf, Mapped
<1>13. LoadOf(t)'
  <2>1. LoadOf(t) /\ Dest(t)' = Dest(t) /\ \A i, n : Prefix(t, i, n)' = Prefix(t, i, n)
    BY <1>1 DEF UserInv, LoadKept, Dest, Segments, Prefix
  <2> QED
    BY <1>1, <1>8, <2>1 DEF LoadOf, Prefix
<1> QED
  BY <1>1, <1>9, <1>11, <1>12, <1>13, QuietStep, StagesByStep DEF UserInv

LEMMA VmFaultKeeps ==
  ASSUME UserInv, NEW t \in Proc, VmFault(t)
  PROVE  UserInv'
<1>1. /\ Step(t) /\ upc[t] \in {"kfault", "ufault"} /\ Mapped(t)
      /\ UNCHANGED <<prog, seg, done, as, frames, memory, view>>
      /\ faultAddr' \in [Proc -> Nat \cup {UNULL}]
  BY DEF Step, VmFault, UserInv, UserTypes, StagesKept, StageOf
<1>2. ASSUME Complete(as[t]), VmFaultOK(t),
             TlbWrite(FirstEntry, Frame(faultAddr[t]), PageOf(as[t], Frame(faultAddr[t]))),
             Goto(t, IF upc[t] = "kfault" THEN "copy" ELSE "user"), UNCHANGED <<userPanic, badfault>>
      PROVE  UserInv'
  BY <1>2, RefillKeeps
<1>3. ASSUME CopyFail(t), UNCHANGED <<userPanic, tlb>>
      PROVE  UserInv'
  <2>1. /\ Goto(t, "exit") /\ upc'[t] = "exit" /\ ~ badfault'[t] /\ badfault' \in [Proc -> BOOLEAN]
    BY <1>3 DEF CopyFail, Goto, UserInv, UserTypes
  <2>2. LoadOf(t)'
    BY <2>1 DEF LoadOf
  <2> QED
    BY <1>1, <1>3, <2>1, <2>2, QuietKeeps DEF Labels, UserInv, UserTypes
<1>4. ASSUME KillCurthread, UNCHANGED <<upc, tlb, badfault>>
      PROVE  UserInv'
  <2>1. LoadOf(t)'
    <3>1. LoadOf(t) /\ Dest(t)' = Dest(t) /\ \A i, n : Prefix(t, i, n)' = Prefix(t, i, n)
      BY <1>1 DEF UserInv, LoadKept, Dest, Segments, Prefix
    <3> QED
      BY <1>1, <1>4, <3>1 DEF LoadOf, Prefix
  <2> QED
    BY <1>1, <1>4, <2>1, QuietKeeps DEF KillCurthread, Labels, UserInv, UserTypes
<1> QED
  BY <1>2, <1>3, <1>4 DEF VmFault

(* A thread that defines its regions has no memory and an empty TLB.       *)
LEMMA DefineFacts ==
  ASSUME UserInv, NEW t \in Proc, At(t, "define")
  PROVE  /\ as[t] \in Space /\ as[t].r1.pbase = 0 /\ ~ Mapped(t) /\ done[t] = 0 /\ ~ badfault[t]
         /\ Aligned(as[t]) /\ (SizesFit => frames # 0 /\ Fitting(as[t]))
         /\ \A i \in 1 .. NumTlb : tlb[i] = Invalid
<1>1. /\ as[t] \in Space /\ as[t] # UNULL /\ as[t].r1.pbase = 0 /\ done[t] = 0 /\ ~ badfault[t]
      /\ \A i \in 1 .. NumTlb : tlb[i] = Invalid
  BY DEF At, UserInv, UserTypes, StagesKept, StageOf, TlbKept, LoadKept, LoadOf
<1>2. ~ Mapped(t)
  BY <1>1 DEF Mapped, Usable
<1>3. Aligned(as[t]) /\ (SizesFit => frames # 0 /\ Fitting(as[t]))
  BY <1>1 DEF UserInv, SpacesKept, Placed
<1> QED
  BY <1>1, <1>2, <1>3

(* It gets a new space: another region, or memory.                         *)
LEMMA DefineKeeps ==
  ASSUME UserInv, NEW t \in Proc, Step(t), At(t, "define"), NEW c \in Space,
         as' = [as EXCEPT ![t] = c], NEW w \in {"define", "load", "exit"}, upc' = [upc EXCEPT ![t] = w],
         seg' \in [Proc -> Nat \ {0}], frames' \in 0 .. LastFrame,
         UNCHANGED <<done, faultAddr, badfault, tlb, memory, view>>,
         Aligned(c), SizesFit => Grown(c),
         w = "define" => c.r1.pbase = 0,
         w = "load" => Usable(c) /\ seg'[t] = 1
  PROVE  UserInv'
<1>1. /\ as[t] \in Space /\ ~ Mapped(t) /\ done[t] = 0 /\ ~ badfault[t] /\ c # UNULL
      /\ \A i \in 1 .. NumTlb : tlb[i] = Invalid
  BY DefineFacts, SpaceFacts
<1>2. running = t /\ running' = t /\ prog' = prog /\ \A x \in Proc : x # t => Same(x)
  BY StepIsOwn DEF UserInv
<1>3. as'[t] = c /\ upc'[t] = w
  BY DEF UserInv, UserTypes
<1>4. UserTypes'
  BY <1>2 DEF UserInv, UserTypes, Labels
<1>5. StageOf(t)'
  BY <1>1, <1>3 DEF StageOf, Mapped
<1>6. LoadOf(t)'
  <2>1. \A i : Prefix(t, i, 0)'
    BY SMT DEF Prefix
  <2>2. ASSUME w = "load", NEW i \in DOMAIN prog[t] PROVE ~ (i < 1)
    BY SMT, <2>2, SegmentFacts DEF UserInv
  <2> QED
    BY <1>1, <1>2, <1>3, <2>1, <2>2 DEF LoadOf, Prefix
<1>7. SpacesKept'
  BY <1>2, SpaceChanges
<1>8. ViewKept'
  <2>1. DOMAIN (view'[t]) = {}
    BY <1>1, UnmappedIsEmpty
  <2> QED
    BY <1>2, <2>1, ViewByStep DEF Same
<1>9. StagesKept' /\ LoadKept'
  BY <1>5, <1>6, StagesByStep
<1>10. TlbKept'
  BY <1>1, <1>4, <1>9, EmptyTlb DEF UserTypes
<1> QED
  BY <1>4, <1>7, <1>8, <1>9, <1>10 DEF UserInv

LEMMA DefineSegmentKeeps ==
  ASSUME UserInv, NEW t \in Proc, DefineSegment(t)
  PROVE  UserInv'
<1> DEFINE s == prog[t][seg[t]]
           d == DefinedRegion(s)
<1>1. Step(t) /\ At(t, "define") /\ upc[t] = "define"
  BY DEF Step, DefineSegment, At
<1>2. /\ as[t] \in Space /\ as[t].r1.pbase = 0
      /\ Aligned(as[t]) /\ (SizesFit => frames # 0 /\ Fitting(as[t]))
      /\ as[t].r1 \in Piece /\ as[t].r2 \in Piece /\ as[t].stack \in Nat
  BY <1>1, DefineFacts, SpaceFacts
<1>3. /\ d \in Piece /\ d.vbase % PageLen = 0 /\ d.pbase = 0
      /\ s.load /\ SizesFit => LastFrame + d.npages < FrameMod
  <2>1. seg[t] \in Nat \ {0} /\ seg[t] <= Len(prog[t])
    BY DEF DefineSegment, Segments, UserInv, UserTypes
  <2>2. seg[t] \in DOMAIN prog[t]
    BY SMT, <2>1, SegmentFacts DEF UserInv
  <2>3. SizesFit => Fits(s)
    BY <2>2 DEF SizesFit
  <2> QED
    BY <2>2, <2>3, SegmentFacts, DefinedFacts DEF UserInv
<1>4. /\ seg' \in [Proc -> Nat \ {0}] /\ frames' \in 0 .. LastFrame /\ frames' = frames
      /\ frames <= frames' /\ UNCHANGED <<done, faultAddr, badfault, tlb, memory, view>>
  <2>1. \A x \in Nat \ {0} : x + 1 \in Nat \ {0}
    BY SMT
  <2>2. \A x \in 0 .. LastFrame : x <= x
    BY SMT, UserConstants
  <2> QED
    BY <2>1, <2>2 DEF DefineSegment, UserInv, UserTypes
<1> DEFINE c1 == [r1 |-> d, r2 |-> as[t].r2, stack |-> as[t].stack]
           c2 == [r1 |-> as[t].r1, r2 |-> d, stack |-> as[t].stack]
<1>5. /\ [as EXCEPT ![t].r1 = d] = [as EXCEPT ![t] = c1] /\ [as EXCEPT ![t].r2 = d] = [as EXCEPT ![t] = c2]
      /\ c1 \in Space /\ c2 \in Space
  <2> HIDE DEF d
  <2>1. c1 \in Space /\ c2 \in Space
    BY <1>2, <1>3, SpaceMade
  <2>2. [as[t] EXCEPT !.r1 = d] = c1 /\ [as[t] EXCEPT !.r2 = d] = c2
    BY <1>2, SpaceRedefined
  <2> HIDE DEF c1, c2
  <2> QED
    BY <2>1, <2>2
<1>6. \/ as' = [as EXCEPT ![t].r1 = d] /\ upc' = upc /\ s.load
      \/ as' = [as EXCEPT ![t].r2 = d] /\ upc' = upc /\ s.load
      \/ as' = as /\ upc' = [upc EXCEPT ![t] = "exit"]
      \/ as' = as /\ upc' = upc
  BY DEF DefineSegment, DefineRegion, Segments, Goto
<1>7. as = [as EXCEPT ![t] = as[t]] /\ upc = [upc EXCEPT ![t] = "define"]
  <2>1. as \in [Proc -> Space \cup {UNULL}] /\ upc \in [Proc -> Labels]
    BY DEF UserInv, UserTypes
  <2> QED
    BY <1>1, <2>1, SameExcept
<1>8. /\ ~ Usable(c1) /\ ~ Usable(c2) /\ ~ Usable(as[t])
      /\ Aligned(c1) /\ Aligned(c2) /\ c1.r1.pbase = 0 /\ c2.r1.pbase = 0
      /\ s.load /\ SizesFit => Fitting(c1) /\ Fitting(c2)
  <2> HIDE DEF d
  <2>1. c1.r1 = d /\ c1.r2 = as[t].r2 /\ c2.r1 = as[t].r1 /\ c2.r2 = d
    BY SMT
  <2> HIDE DEF c1, c2, s
  <2> QED
    BY <2>1, <1>2, <1>3 DEF Usable, Aligned, Fitting
<1>13. /\ SizesFit => Grown(as[t])
       /\ s.load /\ SizesFit => Grown(c1) /\ Grown(c2)
  <2> HIDE DEF c1, c2, s
  <2> QED
    BY <1>2, <1>4, <1>8 DEF Grown
<1> HIDE DEF d, s, c1, c2
<1>9. CASE as' = [as EXCEPT ![t].r1 = d] /\ upc' = upc /\ s.load
  BY <1>1, <1>4, <1>5, <1>7, <1>8, <1>9, <1>13, DefineKeeps
<1>10. CASE as' = [as EXCEPT ![t].r2 = d] /\ upc' = upc /\ s.load
  BY <1>1, <1>4, <1>5, <1>7, <1>8, <1>10, <1>13, DefineKeeps
<1>11. CASE as' = as /\ upc' = [upc EXCEPT ![t] = "exit"]
  BY <1>1, <1>2, <1>4, <1>7, <1>8, <1>11, <1>13, DefineKeeps
<1>12. CASE as' = as /\ upc' = upc
  BY <1>1, <1>2, <1>4, <1>7, <1>8, <1>12, <1>13, DefineKeeps
<1> QED
  BY <1>6, <1>9, <1>10, <1>11, <1>12

(* Memory just taken is in order, if the sizes fit.                        *)
LEMMA FreshInOrder ==
  ASSUME UserInv, NEW s \in Space, s.r1.pbase = 0, NEW p, p = PreparedUntil(s, frames),
         frames' = p.frames, SizesFit => Fitting(s)
  PROVE  /\ p.space \in Space /\ frames' \in 0 .. LastFrame /\ SameRegions(s, p.space)
         /\ SizesFit => Grown(p.space)
<1>1. frames \in 0 .. LastFrame
  BY DEF UserInv, UserTypes
<1>2. p.space \in Space /\ p.frames \in 0 .. LastFrame /\ SameRegions(s, p.space)
  BY <1>1, PreparedFacts
<1>3. ASSUME SizesFit PROVE Grown(p.space)
  <2>1. frames <= frames' /\ (Usable(p.space) => Taken(p.space, frames, p.frames)) /\ frames # 0
    BY <1>1, <1>3, PreparedFacts DEF UserInv, SpacesKept, Placed
  <2>2. frames' # 0 /\ frames' \in Nat /\ PageLen \in Nat /\ frames' * PageLen \in Nat
    <3>1. frames' \in 0 .. LastFrame /\ LastFrame \in Nat /\ PageLen \in Nat
      BY <1>2, UserConstants
    <3> QED
      BY SMT, <1>1, <2>1, <3>1
  <2>3. Fitting(p.space)
    BY <1>2, <1>3 DEF SameRegions, Fitting
  <2>4. ASSUME Usable(p.space)
        PROVE  Low(p.space) = frames * PageLen /\ InOrder(p.space, frames')
    <3>1. /\ p.space.r1.pbase = frames * PageLen
          /\ p.space.r2.pbase = p.space.r1.pbase + p.space.r1.npages * PageLen
          /\ p.space.stack = p.space.r2.pbase + p.space.r2.npages * PageLen
          /\ High(p.space) = frames' * PageLen
      BY <2>1, <2>4 DEF Taken
    <3>2. \A x \in Nat : x <= x
      BY SMT
    <3>3. p.space.r2.pbase \in Nat /\ p.space.stack \in Nat
      BY <1>2, SpaceFacts
    <3> QED
      BY <2>2, <3>1, <3>2, <3>3 DEF Low, InOrder, High
  <2> QED
    BY <2>1, <2>2, <2>3, <2>4 DEF Grown
<1> QED
  BY <1>2, <1>3

LEMMA PrepareLoadKeeps ==
  ASSUME UserInv, NEW t \in Proc, PrepareLoad(t)
  PROVE  UserInv'
<1>0. PICK p : p = PreparedUntil(as[t], frames)
  OBVIOUS
<1> DEFINE w == IF Usable(p.space) THEN "load" ELSE "exit"
<1>1. Step(t) /\ At(t, "define")
  BY DEF Step, PrepareLoad
<1>2. as[t] \in Space /\ as[t].r1.pbase = 0 /\ Aligned(as[t]) /\ (SizesFit => Fitting(as[t]))
  BY <1>1, DefineFacts
<1>3. /\ as' = [as EXCEPT ![t] = p.space] /\ frames' = p.frames /\ upc' = [upc EXCEPT ![t] = w]
      /\ seg' = [seg EXCEPT ![t] = 1] /\ UNCHANGED <<done, faultAddr, badfault, tlb, memory, view>>
  BY <1>0 DEF PrepareLoad, Goto
<1>4. seg' \in [Proc -> Nat \ {0}] /\ seg'[t] = 1
  <2>1. 1 \in Nat \ {0}
    BY SMT
  <2> QED
    BY <1>3, <2>1 DEF UserInv, UserTypes
<1>5. /\ p.space \in Space /\ frames' \in 0 .. LastFrame /\ SameRegions(as[t], p.space)
      /\ SizesFit => Grown(p.space)
  BY <1>0, <1>2, <1>3, FreshInOrder
<1>6. Aligned(p.space)
  BY <1>2, <1>5 DEF SameRegions, Aligned
<1>7. w \in {"define", "load", "exit"} /\ w # "define" /\ (w = "load" => Usable(p.space))
  OBVIOUS
<1> HIDE DEF w
<1> QED
  BY <1>1, <1>3, <1>4, <1>5, <1>6, <1>7, DefineKeeps

LEMMA ThreadExitKeeps ==
  ASSUME UserInv, NEW t \in Proc, ThreadExit(t)
  PROVE  UserInv'
<1>1. Step(t) /\ upc[t] = "exit" /\ running = t /\ ~ badfault[t]
  BY DEF Step, ThreadExit, At, UserInv, LoadKept, LoadOf
<1>2. running' = t /\ prog' = prog /\ \A x \in Proc : x # t => Same(x)
  BY <1>1, StepIsOwn DEF UserInv
<1>3. as'[t] = UNULL /\ upc'[t] = "gone" /\ view'[t] = <<>> /\ badfault' = badfault /\ frames' = frames
  BY DEF ThreadExit, Goto, UserInv, UserTypes
<1>4. UserTypes'
  BY DEF ThreadExit, Goto, Labels, UserInv, UserTypes
<1>5. StageOf(t)' /\ LoadOf(t)'
  BY <1>1, <1>3 DEF StageOf, LoadOf
<1>6. SpacesKept'
  <2>1. frames' \in 0 .. LastFrame /\ frames <= frames'
    <3>1. \A x \in 0 .. LastFrame : x <= x
      BY SMT, UserConstants
    <3> QED
      BY <1>3, <3>1 DEF UserInv, UserTypes
  <2>2. SizesFit => Grown(UNULL)
    BY <1>3, <2>1 DEF Grown, UserInv, SpacesKept, Placed
  <2>3. as' = [as EXCEPT ![t] = UNULL]
    BY DEF ThreadExit
  <2> QED
    BY <1>2, <2>1, <2>2, <2>3, SpaceChanges
<1>7. ViewKept'
  <2>1. DOMAIN (view'[t]) = {}
    BY SMT, <1>3
  <2> QED
    BY <1>2, <2>1, ViewByStep DEF Same, ThreadExit
<1>8. TlbKept'
  BY <1>1, <1>2, <1>3, SameTlb DEF ThreadExit
<1> QED
  BY <1>1, <1>4, <1>5, <1>6, <1>7, <1>8, StagesByStep DEF UserInv

(* What a store keeps besides: the spaces and the TLB.                     *)
LEMMA StoreKeepsRest ==
  ASSUME UserInv, NEW t \in Proc, Step(t), UserTypes', Mapped(t), NEW a \in 0 .. UserTop - 1, NEW v,
         Store(t, a, v), UNCHANGED <<as, tlb, frames>>, StageOf(t)', LoadOf(t)',
         upc'[t] \in {"load", "user"}
  PROVE  UserInv'
<1>1. running = t /\ running' = t /\ prog' = prog
  BY StepIsOwn DEF UserInv
<1>2. ViewKept'
  BY <1>1, StoreKeepsView
<1>3. SpacesKept'
  <2>1. Placed => Placed'
    BY DEF Placed, Mapped, InOrder, High, Fitting
  <2> QED
    BY <1>1, <2>1, FitStays DEF UserInv, SpacesKept, Aligned
<1>4. TlbKept'
  BY <1>1, SameTlb
<1> QED
  BY <1>2, <1>3, <1>4, StagesByStep DEF UserInv

LEMMA CopyStoreKeeps ==
  ASSUME UserInv, NEW t \in Proc, CopyStore(t)
  PROVE  UserInv'
<1> DEFINE a == Dest(t)
           v == Value(t)
<1>1. Step(t) /\ upc[t] = "copy" /\ running = t /\ Mapped(t)
  BY DEF Step, CopyStore, At, UserInv, StagesKept, StageOf
<1>2. a \in 0 .. UserTop - 1 /\ a = prog[t][seg[t]].vaddr + done[t]
  BY <1>1, DestFacts
<1>3. Store(t, a, v) /\ UNCHANGED <<prog, seg, as, faultAddr, tlb, frames>>
  BY DEF CopyStore
<1>4. /\ upc'[t] = "load" /\ ~ badfault'[t] /\ done'[t] = done[t] + 1 /\ done[t] \in Nat
      /\ view'[t] = Put(view[t], a, v)
  BY DEF CopyStore, Store, Goto, UserInv, UserTypes
<1>5. DOMAIN (view'[t]) = DOMAIN view[t] \cup {a}
  BY <1>4 DEF Put
<1>6. UserTypes'
  <2>1. done' \in [Proc -> Nat]
    <3>1. done[t] + 1 \in Nat
      BY SMT, <1>4
    <3> QED
      BY <3>1 DEF CopyStore, UserInv, UserTypes
  <2>2. DOMAIN view' = Proc
    BY DEF CopyStore, Store, UserInv, UserTypes
  <2>3. upc' \in [Proc -> Labels] /\ badfault' \in [Proc -> BOOLEAN]
    BY DEF CopyStore, Goto, Labels, UserInv, UserTypes
  <2> QED
    BY <2>1, <2>2, <2>3 DEF CopyStore, UserInv, UserTypes
<1>7. StageOf(t)'
  BY <1>1, <1>3, <1>4 DEF StageOf, Mapped
<1>8. LoadOf(t)'
  <2>1. ASSUME NEW i \in DOMAIN prog[t], i < seg[t] PROVE Prefix(t, i, prog[t][i].memsz)'
    <3>1. Prefix(t, i, prog[t][i].memsz)
      BY <1>1, <2>1 DEF UserInv, LoadKept, LoadOf
    <3> QED
      BY <3>1, <1>3, <1>5 DEF Prefix
  <2>2. ASSUME NEW i \in DOMAIN prog[t], i = seg[t] PROVE Prefix(t, i, done[t])'
    <3>1. Prefix(t, i, done[t])
      BY <1>1, <2>2 DEF UserInv, LoadKept, LoadOf
    <3>2. \A j \in 0 .. done'[t] - 1 : j \in 0 .. done[t] - 1 \/ j = done[t]
      BY SMT, <1>4
    <3> QED
      BY <3>1, <3>2, <2>2, <1>2, <1>3, <1>4, <1>5 DEF Prefix
  <2> QED
    BY <2>1, <2>2, <1>3, <1>4 DEF LoadOf, Prefix
<1> HIDE DEF a, v
<1> QED
  BY <1>1, <1>2, <1>3, <1>4, <1>6, <1>7, <1>8, StoreKeepsRest

LEMMA UserStoreKeeps ==
  ASSUME UserInv, NEW t \in Proc, NEW a \in UserAddrs, UserStore(t, a)
  PROVE  UserInv'
<1>1. Step(t) /\ upc[t] = "user" /\ Mapped(t) /\ a \in 0 .. UserTop - 1
  BY UserConstants DEF Step, UserStore, At, UserInv, StagesKept, StageOf
<1>2. UNCHANGED <<running, prog, seg, done, as, badfault, tlb, frames>>
  BY DEF UserStore
<1>3. CASE Store(t, a, <<t>>) /\ UNCHANGED <<faultAddr, upc>>
  <2>1. view' = [view EXCEPT ![t] = Put(@, a, <<t>>)]
    BY <1>3 DEF Store
  <2>2. view'[t] = Put(view[t], a, <<t>>) /\ DOMAIN view' = Proc
    BY <2>1 DEF UserInv, UserTypes
  <2>3. DOMAIN (view'[t]) = DOMAIN view[t] \cup {a}
    BY <2>2 DEF Put
  <2>4. UserTypes'
    BY <1>2, <1>3, <2>2 DEF UserInv, UserTypes
  <2>5. StageOf(t)'
    BY <1>1, <1>2, <1>3 DEF StageOf, Mapped
  <2>6. LoadOf(t)'
    <3>1. LoadOf(t) /\ \A i, n : Prefix(t, i, n) => Prefix(t, i, n)'
      BY <1>2, <2>3 DEF UserInv, LoadKept, Prefix
    <3> QED
      BY <1>1, <1>2, <1>3, <3>1 DEF LoadOf, Prefix
  <2>7. upc'[t] \in {"load", "user"}
    BY <1>1, <1>3
  <2> QED
    BY <1>1, <1>2, <1>3, <2>4, <2>5, <2>6, <2>7, StoreKeepsRest
<1>4. CASE Miss(t, a) /\ UNCHANGED <<memory, view, writes>>
  BY <1>4, UserMissKeeps
<1> QED
  BY <1>3, <1>4 DEF UserStore

-----------------------------------------------------------------------------
(* as_copy.  A piece that is copied: what it was copied from is there, and *)
(* nothing outside has changed.                                            *)
Moves(mm, m, new, old, n, x) ==
    /\ ~ Within(x, new, n) /\ x \in DOMAIN m => x \in DOMAIN mm /\ mm[x] = m[x]
    /\ Within(x, new, n) /\ x - new + old \in DOMAIN m => x \in DOMAIN mm /\ mm[x] = m[x - new + old]

LEMMA MemmoveFacts ==
  ASSUME NEW m, NEW new \in Nat, NEW old \in Nat, NEW n \in Nat, NEW x \in Int
  PROVE  Moves(Memmove(m, new, old, n), m, new, old, n, x)
<1> DEFINE len == n * PageLen
           to == new .. new + len - 1
           D == {y \in DOMAIN m : y \notin to} \cup {y \in to : y - new + old \in DOMAIN m}
<1>1. len \in Nat
  <2>1. PageLen \in Nat
    BY UserConstants
  <2> QED
    BY SMT, <2>1
<1>2. Memmove(m, new, old, n) = [y \in D |-> IF y \in to THEN m[y - new + old] ELSE m[y]]
  BY DEF Memmove
<1>3. Within(x, new, n) <=> x \in to
  <2>1. Within(x, new, n) <=> new <= x /\ x < new + len
    BY DEF Within
  <2> HIDE DEF len
  <2> QED
    BY SMT, <1>1, <2>1
<1> HIDE DEF to
<1> QED
  BY <1>2, <1>3 DEF Moves

(* Two spaces with the same regions map the same pages, at the same        *)
(* distances.                                                              *)
LEMMA SamePlaces ==
  ASSUME NEW s \in Space, NEW c \in Space, NEW b \in Nat,
         SameRegions(s, c), Aligned(s), PageOf(s, Frame(b)) # UNULL
  PROVE  /\ PageOf(c, Frame(b)) # UNULL
         /\ \/ /\ Within(Phys(c, b), c.r1.pbase, s.r1.npages)
               /\ Phys(s, b) = Phys(c, b) - c.r1.pbase + s.r1.pbase
            \/ /\ Within(Phys(c, b), c.r2.pbase, s.r2.npages)
               /\ Phys(s, b) = Phys(c, b) - c.r2.pbase + s.r2.pbase
            \/ /\ Within(Phys(c, b), c.stack, StackPages)
               /\ Phys(s, b) = Phys(c, b) - c.stack + s.stack
<1>0. /\ s.r1.vbase % PageLen = 0 /\ s.r2.vbase % PageLen = 0
      /\ c.r1.vbase % PageLen = 0 /\ c.r2.vbase % PageLen = 0
  BY DEF Aligned, SameRegions
<1>1. In(Frame(b), s.r1) = In(Frame(b), c.r1) /\ In(Frame(b), s.r2) = In(Frame(b), c.r2)
  BY DEF In, SameRegions
<1>2. PageOf(c, Frame(b)) # UNULL
  <2>1. Frame(b) \in Nat
    BY PageFacts
  <2>2. \/ PageOf(c, Frame(b)) = Frame(b) - c.r1.vbase + c.r1.pbase
        \/ PageOf(c, Frame(b)) = Frame(b) - c.r2.vbase + c.r2.pbase
        \/ PageOf(c, Frame(b)) = Frame(b) - StackBase + c.stack
    BY <1>1 DEF PageOf
  <2>3. PageOf(c, Frame(b)) \in Int
    BY SMT, <2>1, <2>2, SpaceFacts
  <2> QED
    BY <2>3, UnullIsNothing
<1>7. c.r1.vbase = s.r1.vbase /\ c.r1.npages = s.r1.npages /\ c.r2.vbase = s.r2.vbase /\ c.r2.npages = s.r2.npages
  BY DEF SameRegions
<1>3. /\ s.r1.vbase \in Nat /\ s.r1.pbase \in Nat /\ c.r1.pbase \in Nat
      /\ s.r2.vbase \in Nat /\ s.r2.pbase \in Nat /\ c.r2.pbase \in Nat
      /\ s.stack \in Nat /\ c.stack \in Nat /\ StackBase \in Int
  BY SpaceFacts
<1>4. CASE In(Frame(b), s.r1)
  <2>1. Phys(s, b) = b - s.r1.vbase + s.r1.pbase
    BY <1>0, <1>4, PlaceOf
  <2>2. Phys(c, b) = b - s.r1.vbase + c.r1.pbase /\ Within(Phys(c, b), c.r1.pbase, s.r1.npages)
    BY <1>0, <1>1, <1>2, <1>4, <1>7, PlaceOf
  <2>3. Phys(s, b) = Phys(c, b) - c.r1.pbase + s.r1.pbase
    BY SMT, <1>3, <2>1, <2>2
  <2> QED
    BY <1>2, <2>2, <2>3
<1>5. CASE ~ In(Frame(b), s.r1) /\ In(Frame(b), s.r2)
  <2>1. Phys(s, b) = b - s.r2.vbase + s.r2.pbase
    BY <1>0, <1>5, PlaceOf
  <2>2. Phys(c, b) = b - s.r2.vbase + c.r2.pbase /\ Within(Phys(c, b), c.r2.pbase, s.r2.npages)
    BY <1>0, <1>1, <1>2, <1>5, <1>7, PlaceOf
  <2>3. Phys(s, b) = Phys(c, b) - c.r2.pbase + s.r2.pbase
    BY SMT, <1>3, <2>1, <2>2
  <2> QED
    BY <1>2, <2>2, <2>3
<1>6. CASE ~ In(Frame(b), s.r1) /\ ~ In(Frame(b), s.r2)
  <2>1. Phys(s, b) = b - StackBase + s.stack
    BY <1>0, <1>6, PlaceOf
  <2>2. Phys(c, b) = b - StackBase + c.stack /\ Within(Phys(c, b), c.stack, StackPages)
    BY <1>0, <1>1, <1>2, <1>6, <1>7, PlaceOf
  <2>3. Phys(s, b) = Phys(c, b) - c.stack + s.stack
    BY SMT, <1>3, <2>1, <2>2
  <2> QED
    BY <1>2, <2>2, <2>3
<1> QED
  BY <1>4, <1>5, <1>6

(* What as_copy moves from a space into a new one above it whose pieces    *)
(* are in order: all that the space has, and nothing below changes.        *)
HasByte(s, b, low, m) ==
    /\ PageOf(s, Frame(b)) # UNULL
    /\ Phys(s, b) \in Int /\ Phys(s, b) < low /\ Phys(s, b) \in DOMAIN m

LEMMA CopiedFacts ==
  ASSUME NEW m, NEW s \in Space, NEW c \in Space, SameRegions(s, c), Aligned(s), NEW low \in Int,
         low <= c.r1.pbase,
         c.r1.pbase + c.r1.npages * PageLen <= c.r2.pbase,
         c.r2.pbase + c.r2.npages * PageLen <= c.stack
  PROVE  /\ \A x \in Int : x < low /\ x \in DOMAIN m =>
               x \in DOMAIN Copied(m, c, s) /\ Copied(m, c, s)[x] = m[x]
         /\ \A b \in Nat : HasByte(s, b, low, m) =>
               Phys(c, b) \in DOMAIN Copied(m, c, s) /\ Copied(m, c, s)[Phys(c, b)] = m[Phys(s, b)]
<1> DEFINE n1 == s.r1.npages
           n2 == s.r2.npages
           m1 == Memmove(m, c.r1.pbase, s.r1.pbase, n1)
           m2 == Memmove(m1, c.r2.pbase, s.r2.pbase, n2)
           m3 == Memmove(m2, c.stack, s.stack, StackPages)
           In1(x) == Within(x, c.r1.pbase, n1)
           In2(x) == Within(x, c.r2.pbase, n2)
           In3(x) == Within(x, c.stack, StackPages)
<1>1. /\ s.r1.pbase \in Nat /\ c.r1.pbase \in Nat /\ s.r2.pbase \in Nat /\ c.r2.pbase \in Nat
      /\ s.stack \in Nat /\ c.stack \in Nat /\ n1 \in Nat /\ n2 \in Nat /\ StackPages \in Nat
      /\ n1 * PageLen \in Nat /\ n2 * PageLen \in Nat
  BY SpaceFacts, UserConstants
<1>2. Copied(m, c, s) = m3
  BY DEF Copied
<1>3. c.r1.pbase + n1 * PageLen <= c.r2.pbase /\ c.r2.pbase + n2 * PageLen <= c.stack
  BY DEF SameRegions
<1>4. ASSUME NEW x \in Int
      PROVE  /\ x < low => ~ In1(x) /\ ~ In2(x) /\ ~ In3(x)
             /\ In1(x) => ~ In2(x) /\ ~ In3(x)
             /\ In2(x) => ~ In3(x)
  <2> DEFINE a1 == n1 * PageLen
             a2 == n2 * PageLen
  <2>1. a1 \in Nat /\ a2 \in Nat /\ c.r1.pbase + a1 <= c.r2.pbase /\ c.r2.pbase + a2 <= c.stack
    BY <1>1, <1>3
  <2>2. /\ In1(x) => c.r1.pbase <= x /\ x < c.r1.pbase + a1
        /\ In2(x) => c.r2.pbase <= x /\ x < c.r2.pbase + a2
        /\ In3(x) => c.stack <= x
    BY DEF Within
  <2> HIDE DEF a1, a2, In1, In2, In3
  <2> QED
    BY SMT, <1>1, <2>1, <2>2
<1>5. ASSUME NEW x \in Int
      PROVE  /\ ~ In1(x) /\ x \in DOMAIN m => x \in DOMAIN m1 /\ m1[x] = m[x]
             /\ In1(x) /\ x - c.r1.pbase + s.r1.pbase \in DOMAIN m =>
                   x \in DOMAIN m1 /\ m1[x] = m[x - c.r1.pbase + s.r1.pbase]
  <2>1. Moves(m1, m, c.r1.pbase, s.r1.pbase, n1, x)
    BY <1>1, MemmoveFacts
  <2> QED
    BY <2>1 DEF Moves
<1>6. ASSUME NEW x \in Int
      PROVE  /\ ~ In2(x) /\ x \in DOMAIN m1 => x \in DOMAIN m2 /\ m2[x] = m1[x]
             /\ In2(x) /\ x - c.r2.pbase + s.r2.pbase \in DOMAIN m1 =>
                   x \in DOMAIN m2 /\ m2[x] = m1[x - c.r2.pbase + s.r2.pbase]
  <2> HIDE DEF m1
  <2>1. Moves(m2, m1, c.r2.pbase, s.r2.pbase, n2, x)
    BY <1>1, MemmoveFacts
  <2> QED
    BY <2>1 DEF Moves
<1>7. ASSUME NEW x \in Int
      PROVE  /\ ~ In3(x) /\ x \in DOMAIN m2 => x \in DOMAIN m3 /\ m3[x] = m2[x]
             /\ In3(x) /\ x - c.stack + s.stack \in DOMAIN m2 =>
                   x \in DOMAIN m3 /\ m3[x] = m2[x - c.stack + s.stack]
  <2> HIDE DEF m2
  <2>1. Moves(m3, m2, c.stack, s.stack, StackPages, x)
    BY <1>1, MemmoveFacts
  <2> QED
    BY <2>1 DEF Moves
<1> HIDE DEF m1, m2, m3, In1, In2, In3
<1>8. ASSUME NEW x \in Int, x < low, x \in DOMAIN m
      PROVE  /\ x \in DOMAIN m1 /\ m1[x] = m[x] /\ x \in DOMAIN m2 /\ m2[x] = m[x]
             /\ x \in DOMAIN m3 /\ m3[x] = m[x]
  BY <1>4, <1>5, <1>6, <1>7, <1>8
<1>9. ASSUME NEW b \in Nat, PageOf(s, Frame(b)) # UNULL,
             Phys(s, b) \in Int, Phys(s, b) < low, Phys(s, b) \in DOMAIN m
      PROVE  Phys(c, b) \in DOMAIN m3 /\ m3[Phys(c, b)] = m[Phys(s, b)]
  <2>1. \/ In1(Phys(c, b)) /\ Phys(s, b) = Phys(c, b) - c.r1.pbase + s.r1.pbase
        \/ In2(Phys(c, b)) /\ Phys(s, b) = Phys(c, b) - c.r2.pbase + s.r2.pbase
        \/ In3(Phys(c, b)) /\ Phys(s, b) = Phys(c, b) - c.stack + s.stack
    BY <1>9, SamePlaces DEF In1, In2, In3
  <2>2. Phys(c, b) \in Int
    BY <2>1 DEF In1, In2, In3, Within
  <2>3. CASE In1(Phys(c, b)) /\ Phys(s, b) = Phys(c, b) - c.r1.pbase + s.r1.pbase
    <3> DEFINE y == Phys(c, b)
    <3>1. y \in Int /\ In1(y) /\ ~ In2(y) /\ ~ In3(y)
      BY <1>4, <2>2, <2>3
    <3>2. y - c.r1.pbase + s.r1.pbase \in DOMAIN m /\ m[y - c.r1.pbase + s.r1.pbase] = m[Phys(s, b)]
      BY <1>9, <2>3
    <3> HIDE DEF y
    <3>3. y \in DOMAIN m1 /\ m1[y] = m[Phys(s, b)]
      BY <1>5, <3>1, <3>2
    <3>4. y \in DOMAIN m2 /\ m2[y] = m1[y]
      BY <1>6, <3>1, <3>3
    <3>5. y \in DOMAIN m3 /\ m3[y] = m2[y]
      BY <1>7, <3>1, <3>4
    <3> QED
      BY <3>3, <3>4, <3>5 DEF y
  <2>4. CASE In2(Phys(c, b)) /\ Phys(s, b) = Phys(c, b) - c.r2.pbase + s.r2.pbase
    BY <1>4, <1>6, <1>7, <1>8, <1>9, <2>2, <2>4
  <2>5. CASE In3(Phys(c, b)) /\ Phys(s, b) = Phys(c, b) - c.stack + s.stack
    BY <1>7, <1>8, <1>9, <2>2, <2>5
  <2> QED
    BY <2>1, <2>3, <2>4, <2>5
<1> QED
  BY <1>2, <1>8, <1>9 DEF HasByte

LEMMA AsCopyKeeps ==
  ASSUME UserInv, NEW t \in Proc, NEW u \in Proc, AsCopy(t, u)
  PROVE  UserInv'
<1> DEFINE s == as[t]
           fresh == [r1 |-> [s.r1 EXCEPT !.pbase = 0], r2 |-> [s.r2 EXCEPT !.pbase = 0], stack |-> 0]
           p == PreparedUntil(fresh, frames)
           c == p.space
<1>1. /\ running = t /\ upc[t] = "user" /\ ~ userPanic /\ upc[u] = "start" /\ frames' = p.frames
      /\ UNCHANGED <<running, prog, seg, done, faultAddr, badfault, tlb, writes, userPanic>>
  BY DEF AsCopy, At
<1>2. /\ u # t /\ as[u] = UNULL /\ seg[u] = 1 /\ ~ badfault[u] /\ Mapped(t) /\ ~ Mapped(u)
      /\ done[u] = 0 /\ DOMAIN view[u] = {}
  <2>1. /\ u # t /\ as[u] = UNULL /\ seg[u] = 1 /\ ~ badfault[u] /\ Mapped(t) /\ done[u] = 0
    BY <1>1 DEF UserInv, StagesKept, StageOf, LoadKept, LoadOf
  <2>2. ~ Mapped(u)
    BY <2>1 DEF Mapped
  <2> QED
    BY <2>1, <2>2, UnmappedIsEmpty
<1>3. s \in Space /\ Aligned(s) /\ (SizesFit => Fitting(s))
  BY <1>2 DEF Mapped, UserInv, UserTypes, SpacesKept, Placed
<1>4. /\ fresh \in Space /\ fresh.r1.pbase = 0
      /\ fresh.r1.vbase = s.r1.vbase /\ fresh.r1.npages = s.r1.npages
      /\ fresh.r2.vbase = s.r2.vbase /\ fresh.r2.npages = s.r2.npages
  <2> DEFINE e1 == [s.r1 EXCEPT !.pbase = 0]
             e2 == [s.r2 EXCEPT !.pbase = 0]
  <2>1. /\ 0 \in Nat /\ s.r1 \in Piece /\ s.r2 \in Piece
    <3>1. 0 \in Nat
      BY SMT
    <3> QED
      BY <3>1, <1>3, SpaceFacts
  <2>2. /\ e1 \in Piece /\ e1.pbase = 0 /\ e1.vbase = s.r1.vbase /\ e1.npages = s.r1.npages
        /\ e2 \in Piece /\ e2.vbase = s.r2.vbase /\ e2.npages = s.r2.npages
    BY <2>1, PieceMoved
  <2>3. fresh = [r1 |-> e1, r2 |-> e2, stack |-> 0]
    OBVIOUS
  <2> HIDE DEF e1, e2, fresh
  <2>4. fresh.r1 = e1 /\ fresh.r2 = e2
    BY <2>3
  <2>5. fresh \in Space
    BY <2>1, <2>2, <2>3, SpaceMade
  <2> QED
    BY <2>2, <2>4, <2>5
<1>6. /\ c \in Space /\ frames' \in 0 .. LastFrame /\ SameRegions(fresh, c)
      /\ SizesFit => Grown(c)
  <2> HIDE DEF fresh
  <2>1. SizesFit => Fitting(fresh)
    BY <1>3, <1>4 DEF Fitting
  <2> QED
    BY <1>1, <1>4, <2>1, FreshInOrder
<1>5. SameRegions(s, c)
  <2> HIDE DEF fresh, c
  <2> QED
    BY <1>4, <1>6 DEF SameRegions
<1>7. /\ Usable(c) => /\ as' = [as EXCEPT ![u] = c]
                      /\ memory' = Copied(memory, c, s)
                      /\ view' = [view EXCEPT ![u] = view[t]]
                      /\ upc' = [upc EXCEPT ![u] = "user"]
      /\ ~ Usable(c) => UNCHANGED <<as, memory, view, upc>>
  BY DEF AsCopy, Goto
<1>8. c # UNULL
  BY <1>6, SpaceFacts
<1> HIDE DEF c, p, fresh
<1>9. CASE ~ Usable(c)
  <2>1. UNCHANGED <<as, memory, view, upc>>
    BY <1>7, <1>9
  <2>2. UserTypes'
    BY <1>1, <1>6, <2>1 DEF UserInv, UserTypes
  <2>3. StagesKept' /\ LoadKept'
    <3>1. \A x \in Proc : Same(x)
      BY <1>1, <2>1 DEF Same
    <3> QED
      BY <1>1, <3>1, SameKeeps DEF UserInv, StagesKept, LoadKept
  <2>4. SpacesKept'
    <3>1. as' = [as EXCEPT ![u] = UNULL]
      <4>1. as \in [Proc -> Space \cup {UNULL}]
        BY DEF UserInv, UserTypes
      <4> QED
        BY <1>2, <2>1, <4>1, SameExcept
    <3>2. SizesFit => Grown(UNULL)
      BY <1>6 DEF Grown
    <3> QED
      BY <1>1, <1>6, <3>1, <3>2, SpaceChanges
  <2>5. ViewKept'
    BY <1>1, <1>2, <2>1, ViewByStep
  <2>6. TlbKept'
    BY <1>1, <2>1, SameTlb
  <2> QED
    BY <2>2, <2>3, <2>4, <2>5, <2>6 DEF UserInv
<1>10. CASE Usable(c)
  <2>1. /\ as'[u] = c /\ \A x \in Proc : x # u => as'[x] = as[x]
        /\ upc'[u] = "user" /\ \A x \in Proc : x # u => upc'[x] = upc[x]
        /\ view'[u] = view[t] /\ \A x \in Proc : x # u => view'[x] = view[x]
    BY <1>7, <1>10 DEF UserInv, UserTypes
  <2>2. UserTypes'
    <3>1. as' \in [Proc -> Space \cup {UNULL}] /\ upc' \in [Proc -> Labels] /\ DOMAIN view' = Proc
      <4>1. /\ as' = [as EXCEPT ![u] = c] /\ view' = [view EXCEPT ![u] = view[t]]
            /\ upc' = [upc EXCEPT ![u] = "user"]
        BY <1>7, <1>10
      <4>2. as' \in [Proc -> Space \cup {UNULL}]
        BY <1>6, <4>1 DEF UserInv, UserTypes
      <4> QED
        BY <4>1, <4>2 DEF UserInv, UserTypes, Labels
    <3> QED
      BY <1>1, <1>6, <3>1 DEF UserInv, UserTypes
  <2>3. StageOf(u)'
    BY <1>8, <1>10, <2>1 DEF StageOf, Mapped
  <2>4. LoadOf(u)'
    <3>1. ~ (1 > 1)
      BY SMT
    <3> QED
      BY <1>1, <1>2, <2>1, <3>1 DEF LoadOf
  <2>5. StagesKept' /\ LoadKept'
    <3>1. \A x \in Proc : x # u => Same(x)
      BY <1>1, <2>1 DEF Same
    <3> QED
      BY <1>1, <2>3, <2>4, <3>1, SameKeeps DEF UserInv, StagesKept, LoadKept
  <2>6. SpacesKept'
    <3>1. Aligned(c)
      BY <1>3, <1>5 DEF SameRegions, Aligned
    <3> QED
      BY <1>1, <1>6, <1>7, <1>10, <3>1, SpaceChanges
  <2>7. TlbKept'
    BY <1>1, <1>2, <2>1, SameTlb
  <2>8. ASSUME SizesFit
        PROVE  /\ \A x \in Int : x < frames * PageLen /\ x \in DOMAIN memory =>
                     x \in DOMAIN memory' /\ memory'[x] = memory[x]
               /\ \A b \in Nat : HasByte(s, b, frames * PageLen, memory) =>
                     Phys(c, b) \in DOMAIN memory' /\ memory'[Phys(c, b)] = memory[Phys(s, b)]
    <3>1. /\ frames * PageLen = c.r1.pbase
          /\ c.r1.pbase + c.r1.npages * PageLen <= c.r2.pbase
          /\ c.r2.pbase + c.r2.npages * PageLen <= c.stack
      BY <1>6, <1>8, <1>10, <2>8 DEF Grown, InOrder, Low
    <3>2. c.r1.pbase \in Int /\ c.r1.pbase <= c.r1.pbase
      <4>1. c.r1.pbase \in Nat
        BY <1>6, SpaceFacts
      <4> QED
        BY SMT, <4>1
    <3> HIDE DEF s
    <3>3. memory' = Copied(memory, c, s)
      BY <1>7, <1>10
    <3> DEFINE low == frames * PageLen
    <3>4. low \in Int /\ low <= c.r1.pbase
      BY <3>1, <3>2
    <3> HIDE DEF low
    <3>5. \A x \in Int : x < low /\ x \in DOMAIN memory =>
             x \in DOMAIN Copied(memory, c, s) /\ Copied(memory, c, s)[x] = memory[x]
      BY <1>3, <1>5, <1>6, <3>1, <3>4, CopiedFacts
    <3>6. \A b \in Nat : HasByte(s, b, low, memory) =>
             /\ Phys(c, b) \in DOMAIN Copied(memory, c, s)
             /\ Copied(memory, c, s)[Phys(c, b)] = memory[Phys(s, b)]
      BY <1>3, <1>5, <1>6, <3>1, <3>4, CopiedFacts
    <3> QED
      BY <3>3, <3>5, <3>6 DEF low
  <2>9. ASSUME NEW x \in Proc, NEW b \in DOMAIN view[x]
        PROVE  /\ Stored(x, b) /\ b \in Nat
               /\ SizesFit => Where(x, b) \in Int /\ Where(x, b) < frames * PageLen
    <3>1. Stored(x, b)
      BY <2>9 DEF UserInv, ViewKept
    <3>2. b \in Nat
      BY SMT, <3>1, UserConstants DEF Stored
    <3>3. ASSUME SizesFit PROVE Where(x, b) \in Int /\ Where(x, b) < frames * PageLen
      <4>1. /\ as[x] \in Space /\ InOrder(as[x], frames) /\ PageOf(as[x], Frame(b)) # UNULL
            /\ as[x].r1.vbase % PageLen = 0 /\ as[x].r2.vbase % PageLen = 0
        <5>1. Mapped(x) /\ PageOf(as[x], Frame(b)) # UNULL
          BY <3>1 DEF Stored
        <5>2. as[x] # UNULL /\ as[x] \in Space
          BY <5>1 DEF Mapped, UserInv, UserTypes
        <5>3. Aligned(as[x]) /\ InOrder(as[x], frames)
          BY <3>3, <5>1, <5>2 DEF UserInv, SpacesKept, Placed
        <5> QED
          BY <5>1, <5>2, <5>3 DEF Aligned
      <4>2. Where(x, b) \in Int /\ Where(x, b) < High(as[x]) /\ High(as[x]) <= frames * PageLen
        BY <3>2, <4>1, OwnPlaces DEF Where, Phys, InOrder
      <4>3. High(as[x]) \in Int /\ frames * PageLen \in Int
        <5>1. frames \in Int /\ PageLen \in Nat
          BY SMT, UserConstants DEF UserInv, UserTypes
        <5>2. frames * PageLen \in Int
          BY SMT, <5>1
        <5> QED
          BY <4>1, <5>2, HighType
      <4> DEFINE x1 == Where(x, b)
                 x2 == High(as[x])
                 x3 == frames * PageLen
      <4>4. x1 \in Int /\ x2 \in Int /\ x3 \in Int /\ x1 < x2 /\ x2 <= x3
        BY <4>2, <4>3
      <4> HIDE DEF x1, x2, x3
      <4>5. x1 < x3
        BY SMT, <4>4
      <4> QED
        BY <4>2, <4>5 DEF x1, x3
    <3> QED
      BY <3>1, <3>2, <3>3
  <2>10. ASSUME NEW x \in Proc, x # u, NEW b \in DOMAIN (view'[x])
         PROVE  Stored(x, b)'
    <3>1. b \in DOMAIN view[x]
      BY <2>1, <2>10
    <3>2. SizesFit => Where(x, b) \in DOMAIN memory' /\ memory'[Where(x, b)] = memory[Where(x, b)]
      BY <2>8, <2>9, <3>1 DEF Stored
    <3>3. Where(x, b)' = Where(x, b) /\ (Mapped(x)' <=> Mapped(x))
      BY <2>1, <2>10 DEF Where, Mapped
    <3> QED
      BY <1>1, <2>1, <2>9, <2>10, <3>1, <3>2, <3>3, FitStays DEF Stored
  <2>11. ASSUME NEW b \in DOMAIN (view'[u])
         PROVE  Stored(u, b)'
    <3>1. b \in DOMAIN view[t] /\ Stored(t, b) /\ b \in Nat
      BY <2>1, <2>9, <2>11
    <3>2. Phys(s, b) = Where(t, b) /\ Phys(c, b) = Where(u, b)' /\ PageOf(s, Frame(b)) # UNULL
      BY <2>1, <3>1 DEF Phys, Where, PageOf, Stored
    <3>3. PageOf(c, Frame(b)) # UNULL
      <4> HIDE DEF s
      <4> QED
        BY <1>3, <1>5, <1>6, <3>1, <3>2, SamePlaces
    <3>4. ASSUME SizesFit
          PROVE  Phys(c, b) \in DOMAIN memory' /\ memory'[Phys(c, b)] = view[t][b]
      <4>1. /\ Phys(s, b) \in Int /\ Phys(s, b) < frames * PageLen
            /\ Phys(s, b) \in DOMAIN memory /\ memory[Phys(s, b)] = view[t][b]
        BY <2>9, <3>1, <3>2, <3>4 DEF Stored
      <4> QED
        BY <2>8, <3>1, <3>2, <3>4, <4>1 DEF HasByte
    <3>5. Mapped(u)' /\ b \in 0 .. UserTop - 1 /\ PageOf(as'[u], Frame(b)) # UNULL
      BY <1>8, <1>10, <2>1, <3>1, <3>3 DEF Mapped, Stored
    <3> QED
      BY <1>1, <2>1, <3>2, <3>4, <3>5, FitStays DEF Stored, PageOf
  <2>12. ViewKept'
    BY <2>10, <2>11 DEF ViewKept
  <2> QED
    BY <2>2, <2>5, <2>6, <2>7, <2>12 DEF UserInv
<1> QED
  BY <1>9, <1>10

-----------------------------------------------------------------------------
LEMMA InitHolds ==
  ASSUME UserInit
  PROVE  UserInv
<1>1. UserTypes
  <2>1. FirstFrame \in 0 .. LastFrame /\ 1 \in Nat \ {0} /\ 0 \in Nat
    BY SMT, UserConstants
  <2> QED
    BY <2>1 DEF UserInit, UserTypes, Labels
<1>2. \A t \in Proc : as[t] = UNULL /\ upc[t] = "start" /\ seg[t] = 1 /\ done[t] = 0 /\ ~ badfault[t]
                      /\ view[t] = <<>>
  BY DEF UserInit
<1>3. \A t \in Proc : ~ Mapped(t) /\ DOMAIN view[t] = {}
  <2>1. DOMAIN <<>> = {}
    BY SMT
  <2> QED
    BY <1>2, <2>1 DEF Mapped
<1>4. StagesKept /\ LoadKept
  BY <1>2 DEF StagesKept, StageOf, LoadKept, LoadOf
<1>5. SpacesKept /\ ViewKept
  <2>1. frames # 0
    BY SMT, UserConstants DEF UserInit
  <2> QED
    BY <1>2, <1>3, <2>1 DEF SpacesKept, Placed, ViewKept
<1>6. TlbKept
  BY <1>1, <1>2 DEF TlbKept, TlbSound, UserTypes
<1> QED
  BY <1>1, <1>4, <1>5, <1>6 DEF UserInv

(* The invariant is inductive: every step of every program, of the loader, *)
(* of a fault and of the scheduler keeps it.                               *)
THEOREM UserInvariant == UserSpec => []UserInv
<1>1. UserInit => UserInv
  BY InitHolds
<1>2. UserInv /\ [UserNext]_userVars => UserInv'
  <2> SUFFICES ASSUME UserInv, [UserNext]_userVars PROVE UserInv'
    OBVIOUS
  <2>1. CASE UNCHANGED userVars
    <3> USE <2>1 DEF userVars
    <3>1. UserTypes' /\ StagesKept'
      BY DEF UserInv, UserTypes, StagesKept, StageOf, Mapped
    <3>2. SpacesKept' /\ ViewKept'
      BY QuietStep
    <3>3. TlbKept'
      BY DEF UserInv, TlbKept, TlbSound, Hits
    <3>4. LoadKept'
      BY DEF UserInv, LoadKept, LoadOf, Prefix, Dest, Segments
    <3> QED
      BY <3>1, <3>2, <3>3, <3>4 DEF UserInv
  <2>2. CASE UserNext
    <3> PICK t \in Proc : \/ Switch(t) \/ RunProgram(t) \/ ReadFails(t) \/ DefineSegment(t)
                          \/ PrepareLoad(t) \/ Copyout(t) \/ NextSegment(t) \/ CopyStore(t)
                          \/ CopyFault(t) \/ VmFault(t) \/ EnterUser(t) \/ SysExit(t) \/ ThreadExit(t)
                          \/ \E a \in UserAddrs : UserStore(t, a)
                          \/ \E u \in Proc : AsCopy(t, u)
      BY <2>2 DEF UserNext
    <3> QED
      BY SwitchKeeps, RunProgramKeeps, ReadFailsKeeps, DefineSegmentKeeps, PrepareLoadKeeps,
         CopyoutKeeps, NextSegmentKeeps, CopyStoreKeeps, CopyFaultKeeps, VmFaultKeeps, EnterUserKeeps,
         SysExitKeeps, ThreadExitKeeps, UserStoreKeeps, AsCopyKeeps
  <2> QED
    BY <2>1, <2>2
<1> QED
  BY <1>1, <1>2, PTL DEF UserSpec

(* Each address space is a memory of its own, unless an executable in use  *)
(* has a segment whose size wraps around (dumbvm.c, ram.c, copyinout.c).   *)
THEOREM MemoryIsPrivate == UserSpec => []PrivateMemory
<1>1. UserInv => PrivateMemory
  BY DEF UserInv, ViewKept, Stored, PrivateMemory
<1> QED
  BY <1>1, UserInvariant, PTL

(* The TLB says what the running thread's space says, and each page once   *)
(* (vm_fault, as_activate).                                                *)
THEOREM TlbIsSound == UserSpec => []TlbSound
<1>1. UserInv => TlbSound
  BY DEF UserInv, TlbKept
<1> QED
  BY <1>1, UserInvariant, PTL

(* What runs was loaded whole, and nothing above user memory was written   *)
(* (load_elf, copycheck).                                                  *)
THEOREM ProgramsAreWhole == UserSpec => []LoadedWhole
<1>1. ASSUME UserInv PROVE LoadedWhole
  <2>1. \A t \in Proc : \A a \in DOMAIN view[t] : a < UserTop
    <3>1. \A a \in 0 .. UserTop - 1 : a < UserTop
      BY SMT, UserConstants
    <3> QED
      BY <1>1, <3>1 DEF UserInv, ViewKept, Stored
  <2> QED
    BY <1>1, <2>1 DEF UserInv, LoadKept, LoadOf, Prefix, LoadedWhole
<1> QED
  BY <1>1, UserInvariant, PTL
=============================================================================
