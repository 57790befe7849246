----------------------------- MODULE MallocTest -----------------------------
(***************************************************************************)
(* The heap's own test (test/malloctest.c): malloctest runs mallocthread   *)
(* once, mallocstress runs it in several threads and waits for them.  A    *)
(* thread keeps its last two blocks and frees the one before.  Threads     *)
(* interleave between calls of the heap, each of which is one step.        *)
(***************************************************************************)
EXTENDS Kheap

CONSTANTS
    Tester,     \* threads
    Stress,     \* how many of them a test may start
    NTries,     \* NTRIES
    ItemSize,   \* ITEMSIZE
    NULL

VARIABLES
    tpc,        \* tester -> "idle", "alloc", "free", "last2", "last", "done"
    tries,      \* tester -> i
    ptr, oldptr, oldptr2,   \* tester -> block or NULL
    nullSeen,   \* testers to which kmalloc has returned NULL
    msem        \* count of the semaphore mallocstress waits on

testVars == <<tpc, tries, ptr, oldptr, oldptr2, nullSeen, msem>>

MallocTestInit ==
    /\ \E run \in SUBSET Tester :
          /\ Cardinality(run) \in Stress
          /\ tpc = [t \in Tester |-> IF t \in run THEN "alloc" ELSE "idle"]
    /\ tries = [t \in Tester |-> 0]
    /\ ptr = [t \in Tester |-> NULL]
    /\ oldptr = [t \in Tester |-> NULL]
    /\ oldptr2 = [t \in Tester |-> NULL]
    /\ nullSeen = {}
    /\ msem = 0

Running == {t \in Tester : tpc[t] # "idle"}

(* malloctest passes no semaphore; each thread of mallocstress raises it.  *)
Finish(t) ==
    /\ tpc' = [tpc EXCEPT ![t] = "done"]
    /\ msem' = IF Cardinality(Running) = 1 THEN msem ELSE msem + 1

(* ptr = kmalloc(ITEMSIZE); the block is the one that becomes live.        *)
TestAlloc(t) ==
    /\ tpc[t] = "alloc" /\ tries[t] < NTries
    /\ Kmalloc(ItemSize)
    /\ ptr' = [ptr EXCEPT ![t] = CHOOSE b \in live' : b \notin live]
    /\ tpc' = [tpc EXCEPT ![t] = "free"]
    /\ UNCHANGED <<tries, oldptr, oldptr2, nullSeen, msem>>

(* NULL: the thread gives up, and does not free what it still holds.       *)
TestGivesUp(t) ==
    /\ tpc[t] = "alloc" /\ tries[t] < NTries
    /\ KmallocFails(ItemSize)
    /\ nullSeen' = nullSeen \cup {t}
    /\ Finish(t)
    /\ UNCHANGED <<tries, ptr, oldptr, oldptr2>>

Release(b) == IF b = NULL THEN UNCHANGED heapVars ELSE Kfree(b)

(* Free the block before last and go round.                                *)
TestFree(t) ==
    /\ tpc[t] = "free"
    /\ Release(oldptr2[t])
    /\ oldptr2' = [oldptr2 EXCEPT ![t] = oldptr[t]]
    /\ oldptr' = [oldptr EXCEPT ![t] = ptr[t]]
    /\ ptr' = [ptr EXCEPT ![t] = NULL]
    /\ tries' = [tries EXCEPT ![t] = @ + 1]
    /\ tpc' = [tpc EXCEPT ![t] = "alloc"]
    /\ UNCHANGED <<nullSeen, msem>>

TestLast2(t) ==
    /\ tpc[t] = "alloc" /\ tries[t] = NTries
    /\ Release(oldptr2[t])
    /\ oldptr2' = [oldptr2 EXCEPT ![t] = NULL]
    /\ tpc' = [tpc EXCEPT ![t] = "last"]
    /\ UNCHANGED <<tries, ptr, oldptr, nullSeen, msem>>

TestLast(t) ==
    /\ tpc[t] = "last"
    /\ Release(oldptr[t])
    /\ oldptr' = [oldptr EXCEPT ![t] = NULL]
    /\ Finish(t)
    /\ UNCHANGED <<tries, ptr, oldptr2, nullSeen>>

(* mallocstress takes one V for each thread it started.                    *)
StressDone ==
    /\ msem > 0 /\ msem = Cardinality(Running)
    /\ msem' = 0
    /\ UNCHANGED <<heapVars, tpc, tries, ptr, oldptr, oldptr2, nullSeen>>

MallocTestNext ==
    \/ \E t \in Tester :
          \/ TestAlloc(t) \/ TestGivesUp(t) \/ TestFree(t)
          \/ TestLast2(t) \/ TestLast(t)
    \/ StressDone

-----------------------------------------------------------------------------
(* malloctest, run by itself, is never refused memory although it asks for *)
(* more in all than there is: each page it frees a block of still has      *)
(* another in use, so that none is given up (free_kpages would lose it).   *)
(* A test in which nobody was refused leaves nothing allocated.            *)
MallocTestPasses ==
    /\ Cardinality(Running) = 1 => nullSeen = {}
    /\ (\A t \in Running : tpc[t] = "done") /\ nullSeen = {} => live = {}
=============================================================================
