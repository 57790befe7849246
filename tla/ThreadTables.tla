---------------------------- MODULE ThreadTables ----------------------------
(***************************************************************************)
(* Memory for the lists of the thread system.  thread_fork preallocates    *)
(* room in sleepers[], zombies[] and the run queue so that a context       *)
(* switch, which cannot report an error, never has to allocate.  The       *)
(* threads themselves are counted, not named: what matters here is how     *)
(* full each list is and how large its storage is.                         *)
(*                                                                         *)
(* Any kmalloc may fail.  A list operation of a context switch or a wakeup *)
(* that fails trips an assertion: the kernel stops with failed set.        *)
(* Which queued thread is next is left open, except that a thread that has *)
(* not run yet skips exorcise.                                             *)
(***************************************************************************)
EXTENDS Integers

CONSTANTS
    ArraySize,    \* capacities the growth loop of array.c goes through
    QueueSize,    \* capacities the growth loop of queue.c goes through
    InitialQueue, \* argument of q_create in scheduler_bootstrap (32)
    KeepLimit,    \* array_setsize(a, 0) frees a larger array (16)
    MaxThreads    \* bound: thread structures memory has room for

ASSUME SizesAssumption ==
    /\ ArraySize \subseteq Nat
    /\ 0 \in ArraySize
    /\ \A s \in ArraySize \ {0} : \E r \in ArraySize : s = (r + 1) * 2
    /\ QueueSize \subseteq Nat \ {0}
    /\ InitialQueue \in QueueSize
    /\ \A s \in QueueSize \ {InitialQueue} : \E r \in QueueSize : s = r * 2
    /\ KeepLimit \in Nat
    /\ MaxThreads \in Nat

(* A run queue of one slot can hold nothing; the kernel starts with 32.    *)
ASSUME QueueAssumption == InitialQueue > 1

VARIABLES
    nrun,        \* 1 if a thread is running, 0 while curthread is NULL
    table_numthreads,  \* threads outstanding, zombies not counted
    nready,      \* threads on the run queue
    nfresh,      \* of these, threads that have not run yet
    nsleep,      \* threads in sleepers[]
    nzomb,       \* threads in zombies[]
    boot,        \* state of the boot/menu thread, which never exits
    smax,        \* capacity of sleepers[]
    zmax,        \* capacity of zombies[]
    qsize,       \* size of the run queue's ring, which holds one less
    failed       \* list whose allocation failed in a context switch

counts == <<nrun, table_numthreads, nready, nfresh, nsleep, nzomb, boot>>
sizes == <<smax, zmax, qsize>>
tableVars == <<counts, sizes, failed>>

Lists == {"runqueue", "sleepers", "zombies"}

TablesTypeOK ==
    /\ nrun \in 0..1
    /\ table_numthreads \in Nat /\ nready \in Nat /\ nfresh \in 0..nready
    /\ nsleep \in Nat /\ nzomb \in Nat
    /\ boot \in {"S_RUN", "S_READY", "S_SLEEP"}
    /\ smax \in Nat /\ zmax \in Nat /\ qsize \in Nat
    /\ failed \in Lists \cup {"none"}

TablesInit ==
    /\ nrun = 1
    /\ table_numthreads = 1
    /\ nready = 0 /\ nfresh = 0 /\ nsleep = 0 /\ nzomb = 0
    /\ boot = "S_RUN"
    /\ smax = 0 /\ zmax = 0
    /\ qsize = InitialQueue
    /\ failed = "none"

-----------------------------------------------------------------------------
(* array_preallocate(a, n) takes an array of capacity m to capacity s:     *)
(* newmax = (newmax+1)*2 until newmax >= n.                                *)
ArrayGrows(m, n, s) ==
    /\ s \in ArraySize
    /\ s >= m /\ s >= n
    /\ s = m \/ (s \div 2) - 1 < n

(* q_preallocate(q, n), and q_grow: the size doubles until it is n.        *)
QueueGrows(m, n, s) ==
    /\ s \in QueueSize
    /\ s >= m /\ s >= n
    /\ s = m \/ s \div 2 < n

(* q_addtail on a ring of size m that holds k: a ring is full at m - 1.    *)
QueueAdds(m, k, s) ==
    \/ k < m - 1 /\ s = m
    \/ k >= m - 1 /\ QueueGrows(m, m + 1, s)

(* array_setsize(a, 0).                                                    *)
Emptied(m) == IF m > KeepLimit THEN 0 ELSE m

-----------------------------------------------------------------------------
(* Fault: room is asked for the threads there are.                         *)
SlotsShort == table_numthreads

(* What thread_fork preallocates: room for one thread more than there are. *)
SlotsWanted == table_numthreads + 1

(* thread_fork, interrupts off: three preallocations, make_runnable, and   *)
(* the count.                                                              *)
TablesFork ==
    /\ nrun = 1
    /\ table_numthreads + nzomb < MaxThreads
    /\ ArrayGrows(smax, SlotsWanted, smax')
    /\ ArrayGrows(zmax, SlotsWanted, zmax')
    /\ \E q \in QueueSize :
        /\ QueueGrows(qsize, SlotsWanted, q)
        /\ QueueAdds(q, nready, qsize')
    /\ nready' = nready + 1
    /\ nfresh' = nfresh + 1
    /\ table_numthreads' = table_numthreads + 1
    /\ UNCHANGED <<nrun, nsleep, nzomb, boot, failed>>

(* thread_fork gives up at a later allocation; the tables that have grown  *)
(* by then stay grown.                                                     *)
ThreadForkFails ==
    /\ nrun = 1
    /\ ArrayGrows(smax, SlotsWanted, smax')
    /\ \/ UNCHANGED <<zmax, qsize>>
       \/ /\ ArrayGrows(zmax, SlotsWanted, zmax')
          /\ \/ UNCHANGED qsize
             \/ /\ QueueGrows(qsize, SlotsWanted, qsize')
                /\ nready >= qsize' - 1
    /\ UNCHANGED <<counts, failed>>

(* mi_switch(S_READY): thread_yield, or hardclock's preemption.            *)
Yield ==
    /\ nrun = 1
    /\ QueueAdds(qsize, nready, qsize')
    /\ nrun' = 0
    /\ boot' = IF boot = "S_RUN" THEN "S_READY" ELSE boot
    /\ nready' = nready + 1
    /\ UNCHANGED <<table_numthreads, nfresh, nsleep, nzomb, smax, zmax, failed>>

(* mi_switch(S_SLEEP).                                                     *)
Sleep ==
    /\ nrun = 1
    /\ ArrayGrows(smax, nsleep + 1, smax')
    /\ nrun' = 0
    /\ boot' = IF boot = "S_RUN" THEN "S_SLEEP" ELSE boot
    /\ nsleep' = nsleep + 1
    /\ UNCHANGED <<table_numthreads, nready, nfresh, nzomb, zmax, qsize, failed>>

(* thread_exit and mi_switch(S_ZOMB).                                      *)
Exit ==
    /\ nrun = 1
    /\ boot # "S_RUN"
    /\ ArrayGrows(zmax, nzomb + 1, zmax')
    /\ nrun' = 0
    /\ nzomb' = nzomb + 1
    /\ table_numthreads' = table_numthreads - 1
    /\ UNCHANGED <<nready, nfresh, nsleep, boot, smax, qsize, failed>>

(* thread_wakeup moves k sleepers to the run queue, called by the running  *)
(* thread or by an interrupt handler in the idle loop.                     *)
Wakeup(k) ==
    /\ nrun = 1 \/ nready = 0
    /\ QueueGrows(qsize, nready + k + 1, qsize')
    /\ nsleep' = nsleep - k
    /\ nready' = nready + k
    /\ \/ boot' = boot /\ (boot = "S_SLEEP" => k < nsleep)
       \/ boot = "S_SLEEP" /\ boot' = "S_READY"
    /\ UNCHANGED <<nrun, table_numthreads, nfresh, nzomb, smax, zmax, failed>>

(* An allocation inside a list operation fails: assert(result==0).         *)
ListFails ==
    /\ \/ nrun = 1 /\ nready >= qsize - 1 /\ failed' = "runqueue"
       \/ nrun = 1 /\ nsleep >= smax /\ failed' = "sleepers"
       \/ nrun = 1 /\ boot # "S_RUN" /\ nzomb >= zmax /\ failed' = "zombies"
       \/ /\ nrun = 1 \/ nready = 0
          /\ nready + nsleep > qsize - 1
          /\ nsleep > 0
          /\ failed' = "runqueue"
    /\ UNCHANGED <<counts, sizes>>

(* A thread that has run before is next: it calls exorcise.                *)
DispatchOld ==
    /\ nrun = 0
    /\ nready > nfresh
    /\ \/ boot = "S_READY" /\ boot' = "S_RUN"
       \/ boot' = boot /\ (boot = "S_READY" => nready > nfresh + 1)
    /\ nrun' = 1
    /\ nready' = nready - 1
    /\ nzomb' = 0
    /\ zmax' = Emptied(zmax)
    /\ UNCHANGED <<table_numthreads, nfresh, nsleep, smax, qsize, failed>>

(* A new thread is next: mi_threadstart.                                   *)
DispatchNew ==
    /\ nrun = 0
    /\ nfresh > 0
    /\ nrun' = 1
    /\ nready' = nready - 1
    /\ nfresh' = nfresh - 1
    /\ UNCHANGED <<table_numthreads, nsleep, nzomb, boot, sizes, failed>>

TablesNext ==
    /\ failed = "none"
    /\ \/ TablesFork \/ ThreadForkFails
       \/ Yield \/ Sleep \/ Exit
       \/ \E k \in 1..nsleep : Wakeup(k)
       \/ ListFails
       \/ DispatchOld \/ DispatchNew

TablesSpec == TablesInit /\ [][TablesNext]_tableVars

-----------------------------------------------------------------------------
(* Every outstanding thread is on one of the lists or running.             *)
CountsAddUp ==
    /\ table_numthreads = nready + nsleep + nrun
    /\ boot = "S_RUN" => nrun = 1
    /\ boot = "S_READY" => nready > nfresh
    /\ boot = "S_SLEEP" => nsleep > 0

(* Once the first thread_fork has given sleepers[] storage, a thread that  *)
(* goes to sleep finds room in it: "because we preallocate sleepers[]      *)
(* during thread_fork, this should never fail".                            *)
SleepersFit == nrun = 1 /\ smax > 0 => nsleep < smax

(* While a thread runs, the run queue has room for everybody else, so a    *)
(* thread_wakeup it makes cannot fail.                                     *)
WakeupFits == nrun = 1 => nready + nsleep < qsize

(* The storage follows the number of threads: sleepers[] has a slot for    *)
(* every thread once it has storage at all, and the ring of the run queue  *)
(* as many slots as there are threads, one of which it cannot use.         *)
StorageKeepsUp ==
    /\ smax = 0 => table_numthreads = 1
    /\ smax > 0 => table_numthreads <= smax
    /\ table_numthreads <= qsize

(* The inductive invariant.                                                *)
TablesInv == TablesTypeOK /\ CountsAddUp /\ StorageKeepsUp

(* "Because we preallocate during thread_fork, this should not fail": the  *)
(* run queue and zombies[] take whatever mi_switch, thread_wakeup and      *)
(* thread_exit put there.                                                  *)
PreallocationCovers == failed \notin {"runqueue", "zombies"}
=============================================================================
