---------------------------- MODULE MCPrograms ----------------------------
(* Synchronization and what is built on it: the primitives of synch.c, the *)
(* kernel's tests of them, the exercises, the file system tests and the    *)
(* path of a panic.  A behaviour is one of the parts; the others stay as   *)
(* they began.                                                             *)
EXTENDS Synch, SynchTests, CatMouse, ProducerConsumer, DataToKernel, FsTest, Panic

CONSTANTS t1, t2, t3, sem1, lock1, cv1

VARIABLE part

allVars == <<part, allSynchVars, testVars, cmVars, pcVars, dtkVars, fsVars, panicVars>>

(* Only the part that runs chooses among its initial states.               *)
AllInit ==
    /\ part \in {"synch", "tests", "cats", "ring", "packets", "files", "panic"}
    /\ SynchInit /\ SynchTestsInit /\ CatMouseInit /\ ProducerConsumerInit
    /\ DataToKernelInit /\ FsTestInit /\ PanicInit
    /\ part # "synch" => runqueue = <<t1, t2, t3>>
    /\ part # "panic" => lone

OnlySynch ==
    part = "synch" /\ UNCHANGED <<part, testVars, cmVars, pcVars, dtkVars, fsVars, panicVars>>
OnlyTests ==
    part = "tests" /\ UNCHANGED <<part, allSynchVars, cmVars, pcVars, dtkVars, fsVars, panicVars>>
OnlyCats ==
    part = "cats" /\ UNCHANGED <<part, allSynchVars, testVars, pcVars, dtkVars, fsVars, panicVars>>
OnlyRing ==
    part = "ring" /\ UNCHANGED <<part, allSynchVars, testVars, cmVars, dtkVars, fsVars, panicVars>>
OnlyPackets ==
    part = "packets" /\ UNCHANGED <<part, allSynchVars, testVars, cmVars, pcVars, fsVars, panicVars>>
OnlyFiles ==
    part = "files" /\ UNCHANGED <<part, allSynchVars, testVars, cmVars, pcVars, dtkVars, panicVars>>
OnlyPanic ==
    part = "panic" /\ UNCHANGED <<part, allSynchVars, testVars, cmVars, pcVars, dtkVars, fsVars>>

AllNext ==
    \/ OnlySynch /\ SynchNext
    \/ OnlyTests /\ SynchTestsNext
    \/ OnlyCats /\ CatMouseNext
    \/ OnlyRing /\ ProducerConsumerNext
    \/ OnlyPackets /\ DataToKernelNext
    \/ OnlyFiles /\ FsTestNext
    \/ OnlyPanic /\ PanicNext

(* A step of one part leaves the variables of the others alone, so what is *)
(* fair for a part speaks of its own variables only.                       *)
Of(p) == part = p /\ UNCHANGED part
partVars ==
    CASE part = "synch" -> allSynchVars [] part = "tests" -> testVars
      [] part = "cats" -> cmVars [] part = "ring" -> pcVars [] part = "packets" -> dtkVars
      [] part = "files" -> fsVars [] part = "panic" -> panicVars

(* In synch.c, what a primitive does at splhigh nobody can interrupt, so   *)
(* it is done; the timer goes off again and again.  In the tests the       *)
(* scheduler runs every ready thread, wakersem is not withheld from the    *)
(* driver for ever (strong), and random() comes to every address.  The     *)
(* exercises and the file system tests need only that a thread that can    *)
(* run does.  A thread in panic() is run again and again.  One condition   *)
(* for several parts is one for each, as a behaviour is of one part.       *)
AllSpec ==
    /\ AllInit /\ [][AllNext]_allVars
    /\ SF_partVars(\/ Of("synch") /\ Preempt
                   \/ Of("tests") /\ DriverStep
                   \/ Of("panic") /\ PanicStep(MainThread))
    /\ SF_partVars(\/ Of("tests") /\ WakerAgain /\ tpc'[Waker] = "start"
                   \/ Of("panic") /\ \E t \in PThreads \ {MainThread} : PanicStep(t))
    /\ \A a \in 1..NWAITADDRS : SF_partVars(Of("tests") /\ WakerWakes(a))
    /\ WF_partVars(\/ Of("tests") /\ WakerLook
                   \/ Of("cats") /\ Driver
                   \/ Of("files") /\ FsTestNext
                   \/ Of("panic") /\ SwitchTo(MainThread))
    /\ WF_partVars(Of("panic") /\ \E t \in PThreads \ {MainThread} : SwitchTo(t))
    /\ \A t \in Thread : WF_partVars(Of("synch") /\ InPrimitive(t))
                         /\ WF_partVars(Of("synch") /\ SynchDispatch(t))
    /\ \A t \in Num : WF_partVars(Of("tests") /\ ThreadStep(t))
    /\ \A a \in Animals : WF_partVars(Of("cats") /\ AnimalStep(a))
    /\ \A t \in Workers : WF_partVars(Of("ring") /\ WorkerStep(t))
    /\ \A u \in Uthreads : WF_partVars(Of("packets") /\ UStep(u))
    /\ \A k \in KThreads : WF_partVars(Of("packets") /\ KStep(k))

-----------------------------------------------------------------------------
(* Nothing hangs.  In synch.c no thread stays for ever in lock_acquire on  *)
(* a lock that stays free, or in P on a semaphore that stays positive (by  *)
(* symmetry for any thread).  Every program comes to its end, again and    *)
(* again if it is run again ("If this hangs, it's broken"): the kernel's   *)
(* tests come back to the menu though wakeups nobody waits for are lost,   *)
(* every cat and mouse has eaten, producers and consumers stop, all user   *)
(* threads are served.  A panic of one thread powers the machine off, or   *)
(* waits in vfs_sync for a lock whose holder was stopped (kprintf.c).      *)
NothingHangs ==
    []<>(/\ part = "synch" => ~ Stuck(t1)
         /\ part = "tests" => TestsOver
         /\ part = "cats" => SimulationOver
         /\ part = "ring" => WorkersStopped
         /\ part = "packets" => ServiceOver
         /\ part = "files" => FsTestsOver
         /\ part = "panic" => PanicOver)
=============================================================================
