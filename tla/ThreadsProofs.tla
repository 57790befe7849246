--------------------------- MODULE ThreadsProofs ---------------------------
(***************************************************************************)
(* For every number of threads and every pair of growth sequences: after   *)
(* the first fork a thread that goes to sleep, and a thread that wakes     *)
(* others, find the room that thread_fork preallocated; the processor is   *)
(* never on the kernel stack of a destroyed thread; numthreads is exact.   *)
(***************************************************************************)
EXTENDS Threads, ThreadTables, FiniteSetTheorems, TLAPS

(* The boot thread is alone and its tables are empty.                      *)
LEMMA InitTables == TablesInit => TablesInv
  BY SizesAssumption, QueueAssumption
     DEF TablesInit, TablesInv, TablesTypeOK, CountsAddUp, StorageKeepsUp, Lists

(* What the two growth loops guarantee: the capacity asked for, and never  *)
(* less than there was.                                                    *)
LEMMA ArrayGrowsFacts ==
  ASSUME NEW m \in Nat, NEW n \in Nat, NEW s, ArrayGrows(m, n, s)
  PROVE  s \in Nat /\ s >= m /\ s >= n
  BY SizesAssumption DEF ArrayGrows

(* The same of q_grow, for the ring of the run queue.                      *)
LEMMA QueueGrowsFacts ==
  ASSUME NEW m \in Nat, NEW n \in Nat, NEW s, QueueGrows(m, n, s)
  PROVE  s \in Nat /\ s >= m /\ s >= n
  BY SizesAssumption DEF QueueGrows

(* q_addtail grows the ring if it must and never shrinks it.               *)
LEMMA QueueAddsFacts ==
  ASSUME NEW m \in Nat, NEW k \in Nat, NEW s, QueueAdds(m, k, s)
  PROVE  s \in Nat /\ s >= m
  BY QueueGrowsFacts DEF QueueAdds

(* Every operation of the thread system keeps the counts adding up and the *)
(* storage ahead of the number of threads.                                 *)
LEMMA NextTables == TablesInv /\ [TablesNext]_tableVars => TablesInv'
<1> SUFFICES ASSUME TablesInv, [TablesNext]_tableVars PROVE TablesInv'
  OBVIOUS
<1> USE DEF SlotsWanted, TablesInv, TablesTypeOK, CountsAddUp, StorageKeepsUp, Lists
<1>1. CASE TablesFork
  <2>1. smax' \in Nat /\ smax' >= smax /\ smax' >= table_numthreads + 1
    BY <1>1, ArrayGrowsFacts DEF TablesFork
  <2>2. zmax' \in Nat
    BY <1>1, ArrayGrowsFacts DEF TablesFork
  <2>3. qsize' \in Nat /\ qsize' >= table_numthreads + 1
    <3>1. PICK q \in QueueSize : /\ QueueGrows(qsize, table_numthreads + 1, q)
                                 /\ QueueAdds(q, nready, qsize')
      BY <1>1 DEF TablesFork
    <3>2. q \in Nat /\ q >= table_numthreads + 1
      BY <3>1, QueueGrowsFacts
    <3> QED BY <3>1, <3>2, QueueAddsFacts
  <2> QED BY <1>1, <2>1, <2>2, <2>3 DEF TablesFork
<1>2. CASE ThreadForkFails
  <2>1. smax' \in Nat /\ smax' >= smax /\ smax' >= table_numthreads + 1
    BY <1>2, ArrayGrowsFacts DEF ThreadForkFails
  <2>2. zmax' \in Nat
    BY <1>2, ArrayGrowsFacts DEF ThreadForkFails
  <2>3. qsize' \in Nat /\ qsize' >= qsize
    BY <1>2, QueueGrowsFacts DEF ThreadForkFails
  <2> QED BY <1>2, <2>1, <2>2, <2>3 DEF ThreadForkFails, counts
<1>3. CASE Yield
  <2>1. qsize' \in Nat /\ qsize' >= qsize
    BY <1>3, QueueAddsFacts DEF Yield
  <2> QED BY <1>3, <2>1 DEF Yield
<1>4. CASE Sleep
  <2>1. smax' \in Nat /\ smax' >= smax /\ smax' >= nsleep + 1
    BY <1>4, ArrayGrowsFacts DEF Sleep
  <2> QED BY <1>4, <2>1 DEF Sleep
<1>5. CASE Exit
  <2>1. zmax' \in Nat
    BY <1>5, ArrayGrowsFacts DEF Exit
  <2> QED BY <1>5, <2>1 DEF Exit
<1>6. ASSUME NEW k \in 1..nsleep, Wakeup(k) PROVE TablesInv'
  <2>1. qsize' \in Nat /\ qsize' >= qsize
    BY <1>6, QueueGrowsFacts DEF Wakeup
  <2> QED BY <1>6, <2>1 DEF Wakeup
<1>7. CASE ListFails
  BY <1>7 DEF ListFails, counts, sizes
<1>8. CASE DispatchOld
  BY <1>8 DEF DispatchOld, Emptied
<1>9. CASE DispatchNew
  BY <1>9 DEF DispatchNew, sizes
<1>10. CASE UNCHANGED tableVars
  BY <1>10 DEF tableVars, counts, sizes
<1> QED
  BY <1>1, <1>2, <1>3, <1>4, <1>5, <1>6, <1>7, <1>8, <1>9, <1>10 DEF TablesNext

(* The counts add up and the storage keeps up, in every reachable state.   *)
THEOREM TablesInvariant == TablesSpec => []TablesInv
<1>1. TablesInit => TablesInv
  BY InitTables
<1>2. TablesInv /\ [TablesNext]_tableVars => TablesInv'
  BY NextTables
<1> QED BY <1>1, <1>2, PTL DEF TablesSpec

(* The counts and capacities stay natural numbers, the states of the boot  *)
(* thread and the failure recorded are among those the code has.           *)
THEOREM TablesTypeCorrect == TablesSpec => []TablesTypeOK
<1>1. TablesInv => TablesTypeOK
  BY DEF TablesInv
<1>. QED
  BY <1>1, TablesInvariant, PTL

(* array_add(sleepers, cur) in mi_switch needs no memory after the first   *)
(* fork.                                                                   *)
THEOREM SleepersAlwaysFit == TablesSpec => []SleepersFit
<1>1. TablesInv => SleepersFit
  BY DEF TablesInv, TablesTypeOK, CountsAddUp, StorageKeepsUp, SleepersFit
<1> QED BY <1>1, TablesInvariant, PTL

(* make_runnable in a thread_wakeup made by a running thread needs no      *)
(* memory.                                                                 *)
THEOREM WakeupAlwaysFits == TablesSpec => []WakeupFits
<1>1. TablesInv => WakeupFits
  BY DEF TablesInv, TablesTypeOK, CountsAddUp, StorageKeepsUp, WakeupFits
<1> QED BY <1>1, TablesInvariant, PTL

-----------------------------------------------------------------------------
USE NullIsNoObject, ThreadsConstants

(* The threads that count are finitely many.                               *)
LEMMA LiveIsFinite == IsFiniteSet(LiveThreads)
  BY FS_Subset DEF LiveThreads

(* A step that neither adds nor removes a live thread keeps the count.     *)
LEMMA CountKept ==
  ASSUME NumthreadsExact, LiveThreads' = LiveThreads, numthreads' = numthreads
  PROVE  NumthreadsExact'
  BY DEF NumthreadsExact

(* The boot thread is the one thread there is.                             *)
LEMMA InitStack == Init => StackIInv
<1> SUFFICES ASSUME Init PROVE StackIInv
  OBVIOUS
<1>1. LiveThreads = {Boot}
  BY DEF Init, LiveThreads
<1>2. NumthreadsExact
  BY <1>1, FS_Singleton DEF Init, NumthreadsExact
<1> QED
  BY <1>2 DEF Init, StackIInv, NoFreedStack, ThreadState

(* Every step keeps it.                                                    *)
LEMMA NextStack == StackIInv /\ [Next]_vars => StackIInv'
<1> SUFFICES ASSUME StackIInv, [Next]_vars PROVE StackIInv'
  OBVIOUS
<1> USE DEF StackIInv, NoFreedStack, ThreadState
<1>1. ASSUME NEW newguy \in Thread, ThreadFork(newguy) PROVE StackIInv'
  <2>1. LiveThreads' = LiveThreads \cup {newguy} /\ newguy \notin LiveThreads
    BY <1>1 DEF ThreadFork, LiveThreads
  <2>2. NumthreadsExact'
    BY <1>1, <2>1, LiveIsFinite, FS_AddElement DEF ThreadFork, NumthreadsExact
  <2> QED
    BY <1>1, <2>2 DEF ThreadFork
<1>2. CASE ThreadExit
  <2>1. LiveThreads' = LiveThreads \ {curthread} /\ curthread \in LiveThreads
    BY <1>2 DEF ThreadExit, InCode, SwitchOut, SwitchOutOf, LiveThreads
  <2>2. NumthreadsExact'
    BY <1>2, <2>1, LiveIsFinite, FS_RemoveElement DEF ThreadExit, NumthreadsExact
  <2>3. zombies' \in Seq(Thread)
    BY <1>2 DEF ThreadExit, InCode
  <2>4. ASSUME NEW i \in 1..Len(zombies') PROVE tstate'[zombies'[i]] = "S_ZOMB"
    BY <1>2, <2>4 DEF ThreadExit, InCode, SwitchOut, SwitchOutOf
  <2> QED
    BY <1>2, <2>2, <2>3, <2>4 DEF ThreadExit, InCode, SwitchOut, SwitchOutOf
<1>3. CASE ThreadYield
  <2>1. LiveThreads' = LiveThreads
    BY <1>3 DEF ThreadYield, InCode, SwitchOut, SwitchOutOf, LiveThreads
  <2> QED
    BY <1>3, <2>1, CountKept
    DEF ThreadYield, InCode, SwitchOut, SwitchOutOf, threadVars
<1>4. ASSUME NEW t \in Thread, Resume(t) PROVE StackIInv'
  <2>1. \A u \in Members(zombies) : u \in Thread /\ tstate[u] = "S_ZOMB"
    BY DEF Members
  <2>2. LiveThreads' = LiveThreads
    BY <1>4, <2>1 DEF Resume, SwitchIn, Exorcised, LiveThreads
  <2>3. NumthreadsExact'
    BY <1>4, <2>2, CountKept DEF Resume
  <2> QED
    BY <1>4, <2>3 DEF Resume, SwitchIn, Exorcised
<1>5. ASSUME NEW t \in Thread, ThreadStart(t) PROVE StackIInv'
  <2>1. LiveThreads' = LiveThreads
    BY <1>5 DEF ThreadStart, SwitchIn, LiveThreads
  <2> QED
    BY <1>5, <2>1, CountKept DEF ThreadStart, SwitchIn
<1>6. CASE Hardclock
  <2>1. PICK states : /\ states \in {AwakenedState(lbolt), tstate}
                      /\ \/ /\ curthread # NULL
                            /\ curthread' = NULL
                            /\ tstate' = [states EXCEPT ![curthread] = "S_READY"]
                         \/ curthread' = curthread /\ curthread = NULL /\ tstate' = states
    BY <1>6 DEF Hardclock, SwitchOutOf
  <2>2. /\ states \in [Thread -> ThreadState]
        /\ \A t \in Thread : tstate[t] # "S_SLEEP" => states[t] = tstate[t]
        /\ \A t \in Thread : tstate[t] = "S_SLEEP" => states[t] \in {"S_SLEEP", "S_READY"}
    BY <2>1 DEF AwakenedState, SleepsOn
  <2>3. LiveThreads' = LiveThreads
    BY <2>1, <2>2 DEF LiveThreads
  <2>4. UNCHANGED threadVars
    BY <1>6 DEF Hardclock
  <2>5. NumthreadsExact'
    BY <2>3, <2>4, CountKept DEF threadVars
  <2> QED
    BY <2>1, <2>2, <2>4, <2>5 DEF threadVars
<1>7. ASSUME NEW n \in 1..MaxSecs, ClockSleep(n) PROVE StackIInv'
  BY <1>7, CountKept DEF ClockSleep, threadVars, LiveThreads
<1>8. CASE ClockSleepLoop
  <2>1. LiveThreads' = LiveThreads
    BY <1>8 DEF ClockSleepLoop, ThreadSleep, SwitchOut, SwitchOutOf, LiveThreads
  <2> QED
    BY <1>8, <2>1, CountKept
    DEF ClockSleepLoop, ThreadSleep, SwitchOut, SwitchOutOf, threadVars
<1>9. CASE ClockSleepReturn
  BY <1>9, CountKept DEF ClockSleepReturn, threadVars, LiveThreads
<1>10. CASE UNCHANGED vars
  BY <1>10, CountKept DEF vars, schedVars, threadVars, LiveThreads
<1> QED
  BY <1>1, <1>2, <1>3, <1>4, <1>5, <1>6, <1>7, <1>8, <1>9, <1>10 DEF Next, Dispatch

(* The running thread is on its own stack, zombies[] holds only exited     *)
(* threads, and the two properties below hold.                             *)
THEOREM StackInvariant == Spec => []StackIInv
<1>1. Init => StackIInv
  BY InitStack
<1>2. StackIInv /\ [Next]_vars => StackIInv'
  BY NextStack
<1> QED
  BY <1>1, <1>2, PTL DEF Spec

(* exorcise never frees the stack the processor is executing on, also when *)
(* the scheduler idles on the stack of a thread that has exited.           *)
THEOREM StackIsNeverFreed == Spec => []NoFreedStack
<1>1. StackIInv => NoFreedStack
  BY DEF StackIInv
<1> QED
  BY <1>1, StackInvariant, PTL

(* numthreads, which one_thread_only reads, counts the live threads.       *)
THEOREM NumthreadsIsExact == Spec => []NumthreadsExact
<1>1. StackIInv => NumthreadsExact
  BY DEF StackIInv
<1> QED
  BY <1>1, StackInvariant, PTL
=============================================================================
