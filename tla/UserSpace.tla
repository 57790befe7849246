----------------------------- MODULE UserSpace -----------------------------
(***************************************************************************)
(* Programs and their memory: runprogram and load_elf (userprog), address  *)
(* spaces, TLB and page faults (arch/mips/mips/dumbvm.c, trap.c), copying  *)
(* to user memory (lib/copyinout.c, uio.c) and system calls (syscall.c).   *)
(*                                                                         *)
(* Threads share one processor and one TLB.  Whatever runs at level 0 can  *)
(* lose the processor between two of its steps (Switch); a page fault is   *)
(* two steps, as mips_trap lowers the level again before vm_fault raises   *)
(* it.  Memory is a function from addresses to values; a file is what its  *)
(* segments say.  Reading the file may fail at any call (VOP_READ).        *)
(*                                                                         *)
(* The menu runs one program at a time; nothing below depends on that, and *)
(* several may run.  as_copy is there for fork, which nothing calls yet.   *)
(***************************************************************************)
EXTENDS Integers, Sequences, FiniteSets

CONSTANTS
    Proc,          \* threads that run programs
    UNULL,
    Programs,      \* executables: sequences of segments (load, for PT_LOAD, vaddr,
                   \* memsz, filesz)
    PageLen,       \* PAGE_SIZE
    UserTop,       \* USERTOP, and USERSTACK
    AddrMod,       \* 2^32: addresses wrap around
    StackPages,    \* DUMBVM_STACKPAGES
    NumTlb,        \* NUM_TLB
    FirstFrame,    \* first free page of memory
    LastFrame,     \* one past the last
    UserAddrs,     \* addresses that a program uses once it runs
    MaxWrites      \* bound: writes by running programs

(* A program in user mode cannot even ask for what lies above UserTop.     *)
(* User memory (2 GB) and physical memory (below 512 MB) together are less *)
(* than 2^32.                                                              *)
ASSUME UserConstants ==
    /\ PageLen \in Nat \ {0} /\ UserTop \in Nat /\ AddrMod \in Nat /\ StackPages \in Nat
    /\ NumTlb \in Nat /\ FirstFrame \in Nat \ {0} /\ LastFrame \in Nat /\ FirstFrame <= LastFrame
    /\ UserTop % PageLen = 0 /\ AddrMod % PageLen = 0
    /\ StackPages * PageLen <= UserTop /\ UserTop + LastFrame * PageLen < AddrMod
    /\ UserAddrs \subseteq 0 .. UserTop - 1
    /\ Programs \subseteq Seq([load : BOOLEAN, vaddr : 0 .. AddrMod - 1,
                              memsz : 0 .. AddrMod - 1, filesz : 0 .. AddrMod - 1])

(* UNULL is neither an address nor an address space.                       *)
ASSUME UnullIsNothing ==
    /\ UNULL \notin Int
    /\ UNULL \notin [r1 : [vbase : Nat, pbase : Nat, npages : Nat],
                      r2 : [vbase : Nat, pbase : Nat, npages : Nat], stack : Nat]

VARIABLES
    running,     \* curthread
    upc,         \* where each thread is
    prog,        \* the executable it runs
    seg,         \* load_elf's i, from 1
    done,        \* bytes of the segment loaded so far
    as,          \* t_vmspace: address space or NULL
    faultAddr,   \* address of the fault being handled
    badfault,    \* pcb_badfaultfunc is set
    tlb,         \* sequence of entries
    frames,      \* ram.c's firstpaddr, in pages
    memory,      \* contents of physical memory, where written
    view,        \* ghost: what each thread has written to its own memory
    writes,      \* bounded
    userPanic    \* an assertion failed or panic was called

userVars == <<running, upc, prog, seg, done, as, faultAddr, badfault, tlb,
              frames, memory, view, writes, userPanic>>

Goto(t, where) == upc' = [upc EXCEPT ![t] = where]
At(t, where) == running = t /\ upc[t] = where /\ ~ userPanic

Frame(a) == a - (a % PageLen)
Invalid == [vpage |-> UNULL, paddr |-> UNULL]
Region(v, p, n) == [vbase |-> v, pbase |-> p, npages |-> n]
Empty == Region(0, 0, 0)

UserInit ==
    /\ running \in Proc
    /\ upc = [t \in Proc |-> "start"]
    /\ prog \in [Proc -> Programs]
    /\ seg = [t \in Proc |-> 1]
    /\ done = [t \in Proc |-> 0]
    /\ as = [t \in Proc |-> UNULL]
    /\ faultAddr = [t \in Proc |-> UNULL]
    /\ badfault = [t \in Proc |-> FALSE]
    /\ tlb = [i \in 1 .. NumTlb |-> Invalid]
    /\ frames = FirstFrame
    /\ memory = <<>>
    /\ view = [t \in Proc |-> <<>>]
    /\ writes = 0
    /\ userPanic = FALSE

-----------------------------------------------------------------------------
(* as_activate: no entry of the TLB stays valid. *)
Flushed == [i \in 1 .. NumTlb |-> Invalid]

(* Fault: the address space is not activated.                              *)
SwitchStale(t) ==
    /\ ~ userPanic
    /\ t # running /\ upc[t] # "gone"
    /\ running' = t
    /\ UNCHANGED <<upc, prog, seg, done, as, faultAddr, badfault, tlb, frames, memory,
                   view, writes, userPanic>>

(* The end of mi_switch: a thread with an address space activates it.      *)
Switch(t) ==
    /\ ~ userPanic
    /\ t # running /\ upc[t] # "gone"
    /\ running' = t
    /\ tlb' = IF as[t] # UNULL THEN Flushed ELSE tlb
    /\ UNCHANGED <<upc, prog, seg, done, as, faultAddr, badfault, frames, memory,
                   view, writes, userPanic>>

(* runprogram: vfs_open, as_create and as_activate; without memory the     *)
(* file is closed and the thread ends.                                     *)
RunProgram(t) ==
    /\ At(t, "start")
    /\ \/ /\ as' = [as EXCEPT ![t] = [r1 |-> Empty, r2 |-> Empty, stack |-> 0]]
          /\ tlb' = Flushed
          /\ Goto(t, "define")
       \/ /\ Goto(t, "exit")
          /\ UNCHANGED <<as, tlb>>
    /\ UNCHANGED <<running, prog, seg, done, faultAddr, badfault, frames, memory, view,
                   writes, userPanic>>

(* A read of the file fails or comes up short, or a header is not what it  *)
(* must be: load_elf gives up.                                             *)
ReadFails(t) ==
    /\ running = t /\ upc[t] \in {"define", "load"} /\ ~ userPanic
    /\ Goto(t, "exit")
    /\ UNCHANGED <<running, prog, seg, done, as, faultAddr, badfault, tlb, frames,
                   memory, view, writes, userPanic>>

Segments(t) == prog[t]

(* as_define_region: base rounded down, length rounded up to pages, both   *)
(* sums in 32 bits.                                                        *)
DefinedRegion(s) ==
    LET sz == (s.memsz + (s.vaddr % PageLen)) % AddrMod
    IN Region(Frame(s.vaddr), 0, ((sz + PageLen - 1) % AddrMod) \div PageLen)

(* as_define_region into the first region not yet defined; a third is      *)
(* EUNIMP.                                                                 *)
DefineRegion(t, s) ==
    CASE as[t].r1.vbase = 0 -> as' = [as EXCEPT ![t].r1 = DefinedRegion(s)] /\ UNCHANGED upc
      [] as[t].r1.vbase # 0 /\ as[t].r2.vbase = 0 ->
            as' = [as EXCEPT ![t].r2 = DefinedRegion(s)] /\ UNCHANGED upc
      [] OTHER -> Goto(t, "exit") /\ UNCHANGED as

(* First pass over the program headers.                                    *)
DefineSegment(t) ==
    LET s == Segments(t)[seg[t]]
    IN /\ At(t, "define") /\ seg[t] <= Len(Segments(t))
       /\ IF s.load THEN DefineRegion(t, s) ELSE UNCHANGED <<as, upc>>
       /\ seg' = [seg EXCEPT ![t] = @ + 1]
       /\ UNCHANGED <<running, prog, done, faultAddr, badfault, tlb, frames, memory,
                      view, writes, userPanic>>

(* Fault: pages are handed out and not counted.                            *)
GotUncounted(from, n) == from

(* ram_stealmem: firstpaddr + size, in 32 bits, must not be above lastpaddr.*)
(* A size for which the sum wraps around is granted, and lowers firstpaddr.*)
FrameMod == AddrMod \div PageLen
After(from, n) == (from + n) % FrameMod
Got(from, n) == IF After(from, n) <= LastFrame THEN After(from, n) ELSE from
Paddr(from, n) == IF After(from, n) <= LastFrame THEN from * PageLen ELSE 0

(* as_prepare_load: three calls of getppages, any of which may find that   *)
(* memory has run out; what was taken stays taken.                         *)
Prepared(a, from) ==
    LET n1 == a.r1.npages
        n2 == a.r2.npages
        f2 == Got(from, n1)
        f3 == Got(f2, n2)
    IN [space |-> [r1 |-> [a.r1 EXCEPT !.pbase = Paddr(from, n1)],
                   r2 |-> [a.r2 EXCEPT !.pbase = Paddr(f2, n2)],
                   stack |-> Paddr(f3, StackPages)],
        frames |-> Got(f3, StackPages)]

Usable(a) == a.r1.pbase # 0 /\ a.r2.pbase # 0 /\ a.stack # 0

(* The first call that returns 0 is the last that is made.  It has failed, *)
(* or firstpaddr was 0.                                                    *)
PreparedUntil(a, from) ==
    LET p == Prepared(a, from)
        f2 == Got(from, a.r1.npages)
    IN IF p.space.r1.pbase = 0 THEN [space |-> a, frames |-> f2]
       ELSE IF p.space.r2.pbase = 0
       THEN [space |-> [p.space EXCEPT !.stack = 0], frames |-> Got(f2, a.r2.npages)]
       ELSE p

PrepareLoad(t) ==
    LET p == PreparedUntil(as[t], frames)
    IN /\ At(t, "define") /\ seg[t] > Len(Segments(t))
       /\ as' = [as EXCEPT ![t] = p.space]
       /\ frames' = p.frames
       /\ Goto(t, IF Usable(p.space) THEN "load" ELSE "exit")
       /\ seg' = [seg EXCEPT ![t] = 1]
       /\ UNCHANGED <<running, prog, done, faultAddr, badfault, tlb, memory, view, writes,
                      userPanic>>

-----------------------------------------------------------------------------
(* Second pass: load_segment copies the file's part and then zeros, one    *)
(* copyout at a time.                                                      *)
Dest(t) == (Segments(t)[seg[t]].vaddr + done[t]) % AddrMod
Value(t) == IF done[t] < Segments(t)[seg[t]].filesz THEN <<t, seg[t], done[t]>> ELSE <<0>>

(* Fault: the comparison with the top of user memory is off by one.        *)
CopyCheckLoose(bot, len) ==
    LET top == (bot + len - 1) % AddrMod
    IN top >= bot /\ bot <= UserTop /\ top <= UserTop

(* copycheck, for a block of len bytes at bot: it neither wraps around nor *)
(* begins or ends in the kernel.                                           *)
CopyCheck(bot, len) ==
    LET top == (bot + len - 1) % AddrMod
    IN top >= bot /\ bot < UserTop /\ top < UserTop

(* copyout: refuse, or set the recovery function and begin to copy.        *)
Copyout(t) ==
    /\ At(t, "load") /\ seg[t] <= Len(Segments(t))
    /\ Segments(t)[seg[t]].load /\ done[t] < Segments(t)[seg[t]].memsz
    /\ IF CopyCheck(Dest(t), 1)
       THEN /\ badfault' = [badfault EXCEPT ![t] = TRUE]
            /\ Goto(t, "copy")
       ELSE /\ Goto(t, "exit")
            /\ UNCHANGED badfault
    /\ UNCHANGED <<running, prog, seg, done, as, faultAddr, tlb, frames, memory, view,
                   writes, userPanic>>

(* The next program header; those that are not PT_LOAD are skipped.        *)
NextSegment(t) ==
    /\ At(t, "load") /\ seg[t] <= Len(Segments(t))
    /\ Segments(t)[seg[t]].load => done[t] = Segments(t)[seg[t]].memsz
    /\ seg' = [seg EXCEPT ![t] = @ + 1]
    /\ done' = [done EXCEPT ![t] = 0]
    /\ UNCHANGED <<running, upc, prog, as, faultAddr, badfault, tlb, frames, memory, view,
                   writes, userPanic>>

(* The TLB's answer for an address: entries that match.                    *)
Hits(a) == {i \in 1 .. NumTlb : tlb[i].vpage = Frame(a)}
Translated(a) == tlb[CHOOSE i \in Hits(a) : TRUE].paddr + (a % PageLen)

Put(f, a, v) == [x \in DOMAIN f \cup {a} |-> IF x = a THEN v ELSE f[x]]

(* A store by thread t: to memory if the TLB has the page, else a fault.   *)
Store(t, a, v) ==
    /\ Hits(a) # {}
    /\ memory' = Put(memory, Translated(a), v)
    /\ view' = [view EXCEPT ![t] = Put(@, a, v)]

Miss(t, a) ==
    /\ Hits(a) = {}
    /\ faultAddr' = [faultAddr EXCEPT ![t] = a]
    /\ Goto(t, IF upc[t] = "copy" THEN "kfault" ELSE "ufault")

CopyStore(t) ==
    /\ At(t, "copy")
    /\ Store(t, Dest(t), Value(t))
    /\ badfault' = [badfault EXCEPT ![t] = FALSE]
    /\ done' = [done EXCEPT ![t] = @ + 1]
    /\ Goto(t, "load")
    /\ UNCHANGED <<running, prog, seg, as, faultAddr, tlb, frames, writes, userPanic>>

CopyFault(t) ==
    /\ At(t, "copy")
    /\ Miss(t, Dest(t))
    /\ UNCHANGED <<running, prog, seg, done, as, badfault, tlb, frames, memory, view,
                   writes, userPanic>>

-----------------------------------------------------------------------------
(* vm_fault at splhigh: the address space must be complete; the page is    *)
(* looked up in region 1, region 2 and the stack, in that order, and goes  *)
(* into the first invalid entry of the TLB.                                *)
Complete(a) ==
    /\ a.r1.vbase # 0 /\ a.r1.pbase # 0 /\ a.r1.npages # 0
    /\ a.r2.vbase # 0 /\ a.r2.pbase # 0 /\ a.r2.npages # 0
    /\ a.stack # 0

StackBase == UserTop - StackPages * PageLen
In(page, r) == page >= r.vbase /\ page < (r.vbase + r.npages * PageLen) % AddrMod

PageOf(a, page) ==
    IF In(page, a.r1) THEN page - a.r1.vbase + a.r1.pbase
    ELSE IF In(page, a.r2) THEN page - a.r2.vbase + a.r2.pbase
    ELSE IF page >= StackBase /\ page < UserTop THEN page - StackBase + a.stack
    ELSE UNULL

FreeEntries == {i \in 1 .. NumTlb : tlb[i] = Invalid}
FirstEntry == CHOOSE i \in FreeEntries : \A j \in FreeEntries : i <= j

VmFaultOK(t) == PageOf(as[t], Frame(faultAddr[t])) # UNULL /\ FreeEntries # {}

TlbWrite(i, v, p) == tlb' = [tlb EXCEPT ![i] = [vpage |-> v, paddr |-> p]]

(* copyfail: copyout returns EFAULT.                                       *)
CopyFail(t) == badfault' = [badfault EXCEPT ![t] = FALSE] /\ Goto(t, "exit")

(* A fatal trap in user mode is not survived.                              *)
KillCurthread == userPanic' = TRUE

(* mips_trap's outcome: back to the access; or, for a fault that cannot be *)
(* handled, copyfail in the kernel and a panic for a program.              *)
VmFault(t) ==
    /\ running = t /\ upc[t] \in {"kfault", "ufault"} /\ ~ userPanic
    /\ \/ /\ Complete(as[t]) /\ VmFaultOK(t)
          /\ TlbWrite(FirstEntry, Frame(faultAddr[t]), PageOf(as[t], Frame(faultAddr[t])))
          /\ Goto(t, IF upc[t] = "kfault" THEN "copy" ELSE "user")
          /\ UNCHANGED <<userPanic, badfault>>
       \/ /\ Complete(as[t]) /\ ~ VmFaultOK(t) /\ upc[t] = "kfault" /\ badfault[t]
          /\ CopyFail(t)
          /\ UNCHANGED <<userPanic, tlb>>
       \/ /\ Complete(as[t]) => ~ VmFaultOK(t) /\ ~ (upc[t] = "kfault" /\ badfault[t])
          /\ KillCurthread
          /\ UNCHANGED <<upc, tlb, badfault>>
    /\ faultAddr' = [faultAddr EXCEPT ![t] = UNULL]
    /\ UNCHANGED <<running, prog, seg, done, as, frames, memory, view, writes>>

NoStack(t) == as[t].stack = 0

(* as_define_stack and md_usermode: the program runs.                      *)
EnterUser(t) ==
    /\ At(t, "load") /\ seg[t] > Len(Segments(t))
    /\ userPanic' = NoStack(t)
    /\ Goto(t, "user")
    /\ UNCHANGED <<running, prog, seg, done, as, faultAddr, badfault, tlb, frames, memory,
                   view, writes>>

(* A running program stores to its memory.                                 *)
UserStore(t, a) ==
    /\ At(t, "user") /\ writes < MaxWrites
    /\ \/ /\ Store(t, a, <<t>>)
          /\ writes' = writes + 1
          /\ UNCHANGED <<faultAddr, upc>>
       \/ /\ Miss(t, a)
          /\ UNCHANGED <<memory, view, writes>>
    /\ UNCHANGED <<running, prog, seg, done, as, badfault, tlb, frames, userPanic>>

(* System calls that return (printint, reversestring, an unknown number)   *)
(* change nothing here; _exit does not return.                             *)
SysExit(t) ==
    /\ At(t, "user")
    /\ Goto(t, "exit")
    /\ UNCHANGED <<running, prog, seg, done, as, faultAddr, badfault, tlb, frames, memory,
                   view, writes, userPanic>>

(* memmove of n pages of physical memory.                                  *)
Memmove(m, new, old, n) ==
    LET to == new .. new + n * PageLen - 1
    IN [x \in {y \in DOMAIN m : y \notin to} \cup {y \in to : y - new + old \in DOMAIN m} |->
           IF x \in to THEN m[x - new + old] ELSE m[x]]

(* as_copy into a thread that has none: a space of its own with the same   *)
(* regions, and the contents copied through the kernel's mapping, piece by *)
(* piece.  When memory runs out the new space is destroyed again.          *)
Copied(m, c, a) ==
    Memmove(Memmove(Memmove(m, c.r1.pbase, a.r1.pbase, a.r1.npages),
                    c.r2.pbase, a.r2.pbase, a.r2.npages),
            c.stack, a.stack, StackPages)

AsCopy(t, u) ==
    LET a == as[t]
        fresh == [r1 |-> [a.r1 EXCEPT !.pbase = 0], r2 |-> [a.r2 EXCEPT !.pbase = 0], stack |-> 0]
        p == PreparedUntil(fresh, frames)
        c == p.space
    IN /\ At(t, "user") /\ upc[u] = "start"
       /\ frames' = p.frames
       /\ IF Usable(c)
          THEN /\ as' = [as EXCEPT ![u] = c]
               /\ memory' = Copied(memory, c, a)
               /\ view' = [view EXCEPT ![u] = view[t]]
               /\ Goto(u, "user")
          ELSE UNCHANGED <<as, memory, view, upc>>
       /\ UNCHANGED <<running, prog, seg, done, faultAddr, badfault, tlb, writes, userPanic>>

(* thread_exit: the address space is forgotten, then destroyed; its pages  *)
(* are not reused, and the TLB keeps what it holds.                        *)
ThreadExit(t) ==
    /\ At(t, "exit")
    /\ as' = [as EXCEPT ![t] = UNULL]
    /\ view' = [view EXCEPT ![t] = <<>>]
    /\ Goto(t, "gone")
    /\ UNCHANGED <<running, prog, seg, done, faultAddr, badfault, tlb, frames, memory,
                   writes, userPanic>>

UserNext == \E t \in Proc :
    \/ Switch(t) \/ RunProgram(t) \/ ReadFails(t) \/ DefineSegment(t) \/ PrepareLoad(t)
    \/ Copyout(t) \/ NextSegment(t) \/ CopyStore(t) \/ CopyFault(t) \/ VmFault(t)
    \/ EnterUser(t) \/ SysExit(t) \/ ThreadExit(t)
    \/ \E a \in UserAddrs : UserStore(t, a)
    \/ \E u \in Proc : AsCopy(t, u)

UserSpec == UserInit /\ [][UserNext]_userVars

-----------------------------------------------------------------------------
(* A segment that is loaded fits, with a page on either side for rounding, *)
(* between the end of physical memory and 2^32: no sum wraps around.       *)
Fits(s) == s.load => LastFrame * PageLen + s.memsz + 2 * PageLen <= AddrMod
SizesFit == \A t \in Proc : \A i \in DOMAIN prog[t] : Fits(prog[t][i])

(* Each address space is a memory of its own: what a thread's loader or    *)
(* program has stored at an address is there until it stores again, however*)
(* faults, TLB flushes, loads, copies and exits of others interleave.  So  *)
(* it is when no executable in use has a segment of nearly 4 GB: such a    *)
(* size wraps around in ram_stealmem, which then gives out memory that is  *)
(* in use, and load_elf does not refuse it before it has asked.            *)
Where(t, a) == PageOf(as[t], Frame(a)) + (a % PageLen)
PrivateMemory == SizesFit => \A t \in Proc : as[t] # UNULL =>
    \A a \in DOMAIN view[t] : memory[Where(t, a)] = view[t][a]

(* The TLB never translates for the running thread otherwise than its      *)
(* address space says, and never holds a page twice, which would stop the  *)
(* processor.                                                              *)
TlbSound == as[running] # UNULL =>
    /\ \A i \in 1 .. NumTlb : tlb[i] # Invalid =>
          tlb[i].paddr = PageOf(as[running], tlb[i].vpage)
    /\ \A i, j \in 1 .. NumTlb : i # j /\ tlb[i] # Invalid => tlb[i].vpage # tlb[j].vpage

(* loadelf.c: "uiomove will catch it if someone tries to load an executable*)
(* whose load address is in kernel space".  A thread that runs its program *)
(* has all of it in memory, zeros included, and nothing above user memory; *)
(* the recovery function is set only while copying.                        *)
LoadedWhole == \A t \in Proc :
    /\ \A a \in DOMAIN view[t] : a < UserTop
    /\ badfault[t] => upc[t] \in {"copy", "kfault"}
    /\ upc[t] = "user" /\ seg[t] > 1 =>
          \A i \in DOMAIN prog[t] : prog[t][i].load =>
             \A j \in 0 .. prog[t][i].memsz - 1 : prog[t][i].vaddr + j \in DOMAIN view[t]
=============================================================================
