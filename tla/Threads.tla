------------------------------ MODULE Threads ------------------------------
(***************************************************************************)
(* The thread system: thread_fork, thread_exit, thread_yield, exorcise and *)
(* mi_threadstart of thread.c over the core of Sched, with the clock       *)
(* interrupt and clocksleep of hardclock.c as what makes threads switch.   *)
(*                                                                         *)
(* A thread structure cycles S_FREE -> S_READY -> S_RUN ... S_ZOMB ->      *)
(* S_FREE.  kstack is the thread on whose kernel stack the processor is    *)
(* executing: after SwitchOut that is still the old thread, all through    *)
(* the idle loop, until md_switch.                                         *)
(***************************************************************************)
EXTENDS Sched, FiniteSets

CONSTANTS
    Boot,     \* the boot/menu thread, which never exits
    lbolt,    \* the address clocksleep sleeps on
    HZ,       \* clock interrupts per second
    MaxSecs   \* bound: longest clocksleep

ASSUME ThreadsConstants ==
    /\ IsFiniteSet(Thread)
    /\ Boot \in Thread
    /\ lbolt \in Addr
    /\ HZ \in Nat \ {0}
    /\ MaxSecs \in Nat \ {0}

VARIABLES
    zombies,        \* array of exited threads to be destroyed
    numthreads,     \* threads outstanding, zombies not counted
    kstack,         \* thread whose kernel stack is in use
    fresh,          \* threads forked and not yet switched to
    secs,           \* num_secs left to sleep, of a thread in clocksleep
    asleep,         \* threads inside clocksleep
    lbolt_counter   \* clock ticks since the last lbolt wakeup

threadVars == <<zombies, numthreads, kstack, fresh>>
clockVars == <<secs, asleep, lbolt_counter>>
vars == <<schedVars, threadVars, clockVars>>

TypeOK ==
    /\ SchedTypeOK
    /\ zombies \in Seq(Thread)
    /\ numthreads \in Nat
    /\ kstack \in Thread
    /\ fresh \subseteq Thread
    /\ secs \in [Thread -> 0..MaxSecs]
    /\ asleep \subseteq Thread
    /\ lbolt_counter \in 0..(HZ - 1)

(* thread_bootstrap, scheduler_bootstrap: the boot thread is running, and  *)
(* once boot has called spl0 with interrupts on.                           *)
Init ==
    /\ curthread = Boot
    /\ curspl = 0
    /\ tstate = [t \in Thread |-> IF t = Boot THEN "S_RUN" ELSE "S_FREE"]
    /\ t_sleepaddr = [t \in Thread |-> NULL]
    /\ runqueue = << >> /\ sleepers = << >> /\ zombies = << >>
    /\ numthreads = 1
    /\ kstack = Boot
    /\ fresh = {}
    /\ secs = [t \in Thread |-> 0]
    /\ asleep = {}
    /\ lbolt_counter = 0

(* The running thread is in code of its own, with interrupts on.           *)
InCode == curthread # NULL /\ curspl = 0

-----------------------------------------------------------------------------
(* Fault: the thread counter is not incremented.                           *)
ThreadForkUncounted(newguy) ==
    /\ InCode
    /\ tstate[newguy] = "S_FREE"
    /\ tstate' = [tstate EXCEPT ![newguy] = "S_READY"]
    /\ t_sleepaddr' = [t_sleepaddr EXCEPT ![newguy] = NULL]
    /\ runqueue' = Append(runqueue, newguy)
    /\ fresh' = fresh \cup {newguy}
    /\ UNCHANGED <<curthread, curspl, sleepers, zombies, numthreads, kstack, clockVars>>

(* thread_fork, when every allocation succeeds.  When one fails the call   *)
(* undoes what it did and changes nothing.                                 *)
ThreadFork(newguy) ==
    /\ InCode
    /\ tstate[newguy] = "S_FREE"
    /\ tstate' = [tstate EXCEPT ![newguy] = "S_READY"]
    /\ t_sleepaddr' = [t_sleepaddr EXCEPT ![newguy] = NULL]
    /\ runqueue' = Append(runqueue, newguy)
    /\ numthreads' = numthreads + 1
    /\ fresh' = fresh \cup {newguy}
    /\ UNCHANGED <<curthread, curspl, sleepers, zombies, kstack, clockVars>>

(* Fault: the exiting thread destroys itself.                              *)
ThreadExitDestroys ==
    /\ InCode
    /\ curthread # Boot
    /\ numthreads' = numthreads - 1
    /\ SwitchOut("S_FREE")
    /\ UNCHANGED <<t_sleepaddr, sleepers, zombies, kstack, fresh, clockVars>>

(* thread_exit up to the context switch it never returns from.             *)
ThreadExit ==
    /\ InCode
    /\ curthread # Boot
    /\ numthreads' = numthreads - 1
    /\ zombies' = Append(zombies, curthread)
    /\ SwitchOut("S_ZOMB")
    /\ UNCHANGED <<t_sleepaddr, sleepers, kstack, fresh, clockVars>>

ThreadYield ==
    /\ InCode
    /\ SwitchOut("S_READY")
    /\ UNCHANGED <<t_sleepaddr, sleepers, threadVars, clockVars>>

-----------------------------------------------------------------------------
(* The second half of mi_switch.                                           *)

(* exorcise: every zombie is destroyed.                                    *)
Exorcised ==
    [t \in Thread |-> IF t \in Members(zombies) THEN "S_FREE" ELSE tstate[t]]

(* Fault: exorcise is not called.                                          *)
ResumeKeepsZombies(t) ==
    /\ t \notin fresh
    /\ SwitchIn(t, tstate, IF t \in asleep THEN SPL_HIGH ELSE 0)
    /\ kstack' = t
    /\ UNCHANGED <<zombies, numthreads, fresh, clockVars>>

(* A thread that has run before comes back inside mi_switch on its own     *)
(* stack, destroys the zombies, and returns: to code with interrupts on    *)
(* (thread_yield, the clock handler) or into the loop of clocksleep, which *)
(* keeps them off.                                                         *)
Resume(t) ==
    /\ t \notin fresh
    /\ SwitchIn(t, Exorcised, IF t \in asleep THEN SPL_HIGH ELSE 0)
    /\ zombies' = << >>
    /\ kstack' = t
    /\ UNCHANGED <<numthreads, fresh, clockVars>>

(* A new thread starts in mi_threadstart, which skips exorcise.            *)
ThreadStart(t) ==
    /\ t \in fresh
    /\ SwitchIn(t, tstate, 0)
    /\ fresh' = fresh \ {t}
    /\ kstack' = t
    /\ UNCHANGED <<zombies, numthreads, clockVars>>

-----------------------------------------------------------------------------
(* lbolt_counter++ has reached HZ.                                         *)
SecondIsUp == lbolt_counter + 1 >= HZ

(* hardclock, run by the timer interrupt: once a second it wakes lbolt,    *)
(* and it yields unless the scheduler is idling (mi_switch returns at once *)
(* when curthread is NULL).                                                *)
Hardclock ==
    LET states == IF SecondIsUp THEN AwakenedState(lbolt) ELSE tstate
        queue  == IF SecondIsUp THEN AwakenedQueue(lbolt) ELSE runqueue
    IN  /\ InterruptsOn
        /\ lbolt_counter' = IF SecondIsUp THEN 0 ELSE lbolt_counter + 1
        /\ sleepers' = IF SecondIsUp THEN StillAsleep(lbolt) ELSE sleepers
        /\ \/ /\ curthread # NULL
              /\ SwitchOutOf(states, queue, "S_READY")
           \/ /\ curthread = NULL
              /\ tstate' = states
              /\ runqueue' = queue
              /\ UNCHANGED <<curthread, curspl>>
        /\ UNCHANGED <<t_sleepaddr, threadVars, secs, asleep>>

(* clocksleep(n): interrupts go off, ...                                   *)
ClockSleep(n) ==
    /\ InCode
    /\ curspl' = SPL_HIGH
    /\ secs' = [secs EXCEPT ![curthread] = n]
    /\ asleep' = asleep \cup {curthread}
    /\ UNCHANGED <<curthread, tstate, t_sleepaddr, runqueue, sleepers,
                   threadVars, lbolt_counter>>

(* Fault: num_secs is not decremented.                                     *)
ClockSleepLoopForever ==
    /\ curthread \in asleep
    /\ secs[curthread] > 0
    /\ ThreadSleep(lbolt)
    /\ UNCHANGED <<threadVars, clockVars>>

(* ... each turn of the loop sleeps until the next lbolt (num_secs--, read *)
(* by nobody else, is taken with the call), ...                            *)
ClockSleepLoop ==
    /\ curthread \in asleep
    /\ secs[curthread] > 0
    /\ secs' = [secs EXCEPT ![curthread] = @ - 1]
    /\ ThreadSleep(lbolt)
    /\ UNCHANGED <<threadVars, asleep, lbolt_counter>>

(* ... and splx restores the level.                                        *)
ClockSleepReturn ==
    /\ curthread \in asleep
    /\ secs[curthread] = 0
    /\ curspl' = 0
    /\ asleep' = asleep \ {curthread}
    /\ UNCHANGED <<curthread, tstate, t_sleepaddr, runqueue, sleepers,
                   threadVars, secs, lbolt_counter>>

-----------------------------------------------------------------------------
Dispatch == \E t \in Thread : Resume(t) \/ ThreadStart(t)

Next ==
    \/ \E t \in Thread : ThreadFork(t)
    \/ ThreadExit
    \/ ThreadYield
    \/ Dispatch
    \/ Hardclock
    \/ \E n \in 1..MaxSecs : ClockSleep(n)
    \/ ClockSleepLoop
    \/ ClockSleepReturn

Spec == Init /\ [][Next]_vars

-----------------------------------------------------------------------------
(* A live thread is on exactly one list and on it once, and the lists hold *)
(* nothing else: mi_switch, thread_wakeup and exorcise never drop a thread *)
(* and never queue one twice.                                              *)
EachThreadInOnePlace ==
    /\ ListsAgree
    /\ NoDuplicates(zombies)
    /\ Members(zombies) = {t \in Thread : tstate[t] = "S_ZOMB"}

(* The processor never executes on the kernel stack of a thread that       *)
(* exorcise has destroyed, not even while it idles on a zombie's stack.    *)
NoFreedStack == tstate[kstack] # "S_FREE"

(* numthreads is the number of threads that are not zombies.  So when      *)
(* one_thread_only returns true the caller is alone.                       *)
LiveThreads == {t \in Thread : tstate[t] \in {"S_RUN", "S_READY", "S_SLEEP"}}

NumthreadsExact == numthreads = Cardinality(LiveThreads)

(* The inductive invariant of these two: the running thread is on its own  *)
(* stack, and exorcise finds only exited threads in zombies[].             *)
StackIInv ==
    /\ curthread \in Thread \cup {NULL}
    /\ tstate \in [Thread -> ThreadState]
    /\ zombies \in Seq(Thread)
    /\ kstack \in Thread
    /\ curthread # NULL => kstack = curthread /\ tstate[curthread] = "S_RUN"
    /\ \A i \in 1..Len(zombies) : tstate[zombies[i]] = "S_ZOMB"
    /\ NoFreedStack
    /\ NumthreadsExact

(* Round robin is fair: a thread on the run queue is run.                  *)
ReadyThreadRuns ==
    \A t \in Thread : tstate[t] = "S_READY" ~> tstate[t] = "S_RUN"

(* clocksleep returns.                                                     *)
ClockSleepEnds == \A t \in Thread : t \in asleep ~> t \notin asleep

(* Every exited thread is destroyed, although new threads skip exorcise.   *)
ZombiesAreDestroyed ==
    \A t \in Thread : tstate[t] = "S_ZOMB" ~> tstate[t] = "S_FREE"
=============================================================================
