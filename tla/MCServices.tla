---------------------------- MODULE MCServices ----------------------------
(* Sequential services: the heap and the test of it, user address spaces,  *)
(* the VFS layer, the operations of vnodes, the menu, printf and random of *)
(* libc, arrays and bitmaps, and small devices.  A behaviour is one of the *)
(* parts.                                                                  *)
EXTENDS MallocTest, UserSpace, Menu, Printf, LibcRandom, Containers, Devices, MCVfs,
        VnodeOps

CONSTANTS p1, p2

(* Two block sizes in a page of 10.                                        *)
MCSizes == << 3, 5 >>

(* Executables: one or two segments, one with more memory than file; a     *)
(* segment that is not loaded; one out of reach; too many; sizes for which *)
(* the end of memory and the rounding wrap around.                         *)
Load(v, m, f) == [load |-> TRUE, vaddr |-> v, memsz |-> m, filesz |-> f]
Note == [load |-> FALSE, vaddr |-> 0, memsz |-> 0, filesz |-> 0]
MCPrograms ==
    {<<Load(2, 1, 1), Load(4, 1, 0)>>, <<Note, Load(3, 2, 1), Load(5, 1, 1)>>,
     <<Load(2, 1, 1), Load(7, 2, 2)>>, <<Load(1, 2, 2), Load(5, 1, 1)>>, <<Load(2, 1, 0)>>,
     <<Load(2, 1, 1), Load(4, 1, 1), Load(6, 1, 1)>>,
     <<Load(2, 1, 1), Load(6, 30, 1)>>, <<Load(3, 31, 1), Load(5, 1, 1)>>}

MCBootLines == {<< >>, <<"p", " ", "x", ";", "o">>, <<"o", ";", "s">>, <<"x">>, <<"o", ";", "q">>,
                <<"u", " ", "x", ":">>, <<"b", " ", ":", ";", "o">>, <<"b">>,
                <<"p", "\t", " ", "x">>}
MCStrings == {NULLSTR, << >>, <<"a", "b">>}

(* Generators of degrees 3 and 5 beside the linear one.                    *)
MCDegrees == << 0, 3, 5 >>
MCSeps == << 0, 2, 1 >>

MCPaths == {<<"a">>, <<"/", "a">>, <<"a", "/", "b">>, <<"a", "b", "/">>, <<"a", "b", "c">>,
            <<"a", "/", "b", "/", "a">>}

VARIABLE part

allVars == <<part, heapVars, testVars, userVars, menuVars, pfVars, libRandVars, conVars, devVars,
             vfsVars, opVars>>

(* Only the part that runs chooses among its initial states.               *)
AllInit ==
    /\ part \in {"heap", "malloc", "user", "menu", "printf", "random", "containers", "devices", "vfs",
                "vnode"}
    /\ HeapInit
    /\ MallocTestInit /\ (part # "malloc" => Running = Tester)
    /\ UserInit /\ (part # "user" => running = p1 /\ prog = [x \in {p1, p2} |-> <<Load(2, 1, 0)>>])
    /\ MenuInit /\ (part # "menu" => line = << >>)
    /\ PrintfInit /\ (part # "printf" => snp.len = 0)
    /\ RandomInit
    /\ ContainersInit /\ (part # "containers" => bm.nbits = 3 /\ tsize = 6)
    /\ DevicesInit /\ (part # "devices" => kind = "screen")
    /\ VfsInit /\ (part # "vfs" => cwd[vt1] # VNULL)
    /\ OpsInit /\ (part # "vnode" => target = "null" /\ nblocks = CHOOSE n \in DiskSizes : TRUE)

OnlyHeap ==
    part = "heap" /\ UNCHANGED <<part, testVars, userVars, menuVars, pfVars, libRandVars,
                                 conVars, devVars, vfsVars, opVars>>
OnlyMalloc ==
    part = "malloc" /\ UNCHANGED <<part, userVars, menuVars, pfVars, libRandVars,
                                   conVars, devVars, vfsVars, opVars>>
OnlyUser ==
    part = "user" /\ UNCHANGED <<part, heapVars, testVars, menuVars, pfVars, libRandVars,
                                 conVars, devVars, vfsVars, opVars>>
OnlyMenu ==
    part = "menu" /\ UNCHANGED <<part, heapVars, testVars, userVars, pfVars, libRandVars,
                                 conVars, devVars, vfsVars, opVars>>
OnlyPrintf ==
    part = "printf" /\ UNCHANGED <<part, heapVars, testVars, userVars, menuVars,
                                   libRandVars, conVars, devVars, vfsVars, opVars>>
OnlyRandom ==
    part = "random" /\ UNCHANGED <<part, heapVars, testVars, userVars, menuVars, pfVars,
                                   conVars, devVars, vfsVars, opVars>>
OnlyContainers ==
    part = "containers" /\ UNCHANGED <<part, heapVars, testVars, userVars, menuVars,
                                       pfVars, libRandVars, devVars, vfsVars, opVars>>
OnlyDevices ==
    part = "devices" /\ UNCHANGED <<part, heapVars, testVars, userVars, menuVars, pfVars,
                                    libRandVars, conVars, vfsVars, opVars>>
OnlyVfs ==
    part = "vfs" /\ UNCHANGED <<part, heapVars, testVars, userVars, menuVars, pfVars,
                                libRandVars, conVars, devVars, opVars>>
OnlyVnode ==
    part = "vnode" /\ UNCHANGED <<part, heapVars, testVars, userVars, menuVars, pfVars,
                                  libRandVars, conVars, devVars, vfsVars>>

AllNext ==
    \/ OnlyHeap /\ HeapNext
    \/ OnlyMalloc /\ MallocTestNext
    \/ OnlyUser /\ UserNext
    \/ OnlyMenu /\ MenuNext
    \/ OnlyPrintf /\ PrintfNext
    \/ OnlyRandom /\ RandomNext
    \/ OnlyContainers /\ ContainersNext
    \/ OnlyDevices /\ DevicesNext
    \/ OnlyVfs /\ VfsNext
    \/ OnlyVnode /\ OpsNext

AllSpec == AllInit /\ [][AllNext]_allVars

-----------------------------------------------------------------------------
(* The kernel heap: blocks in use never overlap, on whatever pages they    *)
(* are, the free lists and counts of a page and the statistics printed of  *)
(* it agree with them, and the kernel's test of the heap finds nothing     *)
(* (kheap.c, malloctest.c).                                                *)
HeapSound ==
    part \in {"heap", "malloc"} =>
        HeapTypeOK /\ BlocksDisjoint /\ SubpagesConsistent /\ StatsAreTrue
        /\ MallocTestPasses

(* The menu runs what was typed, or given at boot, word by word, and the   *)
(* arguments it gives to a program's thread are still the same when that   *)
(* thread reads them (kgets.c, menu.c).                                    *)
MenuSound == part = "menu" => MenuRunsLine /\ ArgsStable

(* An array behaves as the sequence of what was put in it, a bitmap as a   *)
(* set, when memory runs out too, and their tests pass (array.c,           *)
(* bitmap.c, arraytest.c, bitmaptest.c).                                   *)
ContainersSound ==
    part = "containers" => ArrayIsSequence /\ BitmapIsSet /\ ContainerTestsPass

(* The screen shows the end of what was written to it, the clock returns a *)
(* time that was current during the call, and random numbers are in range  *)
(* from either source (lscreen.c, ltimer.c, random.c).  libc's random()    *)
(* goes on, in every state array, from where it was left when the array    *)
(* was last in use, its two pointers the separation of the generator apart *)
(* (libc random.c).  And through a vnode, whatever was sought, transferred *)
(* or truncated before: a disk is asked only for sectors it has, where a   *)
(* seek may go a transfer may start and sizes and types agree with what    *)
(* the operations accept (device.c, lhd.c, emu.c, sfs_vnode.c).            *)
DevicesSound ==
    /\ part = "devices" => ScreenShowsText /\ TimeIsRight /\ RandomInRange
    /\ part = "random" => StatesKept
    /\ part = "vnode" => OperationsSound

(* Vnodes are held as long as they are used: reference and open counts are *)
(* exact whatever errors a call meets, and the file system of a vnode that *)
(* somebody holds stays mounted (vnode.c, vfslist.c).                      *)
VnodesHeld == part = "vfs" => VnodeCountsExact /\ MountedWhileUsed
=============================================================================
