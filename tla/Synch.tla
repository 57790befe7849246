------------------------------- MODULE Synch -------------------------------
(***************************************************************************)
(* The synchronization primitives of synch.c: semaphores, sleep locks and  *)
(* Mesa condition variables, over the thread core of Sched.                *)
(*                                                                         *)
(* On this uniprocessor a primitive is atomic only because it raises       *)
(* curspl: the timer can preempt the running thread, and a device handler  *)
(* can call V, between any two steps taken with curspl = 0.  The steps     *)
(* here are therefore finer than the functions: testing, sleeping,         *)
(* releasing and reacquiring are separate, and only curspl keeps others    *)
(* from coming in between.                                                 *)
(*                                                                         *)
(* Threads call the primitives in any order that meets the functions' own  *)
(* assertions: a lock is released, and a condition variable used, by the   *)
(* holder, and nobody acquires a lock they hold already.                   *)
(***************************************************************************)
EXTENDS Sched, FiniteSets

CONSTANTS
    Sem, Lock, CV,   \* the objects; together they are the sleep addresses
    InitialCount,    \* sem_create's initial_count
    MaxCount         \* bound: V is not called on a semaphore this high

ASSUME SynchConstants ==
    /\ Addr = Sem \cup Lock \cup CV
    /\ Sem \cap Lock = {} /\ Sem \cap CV = {} /\ Lock \cap CV = {}
    /\ InitialCount \in Nat
    /\ MaxCount \in Nat

VARIABLES
    count,    \* sem->count
    locked,   \* lock->locked
    owner,    \* lock->owner
    pc,       \* where in a primitive each thread is
    sem,      \* argument of the P a thread is in
    lock,     \* lock a thread is acquiring, or has passed to cv_wait
    cv,       \* argument of the cv_wait a thread is in
    spl,      \* local spl of P or lock_acquire
    cvspl,    \* local spl of cv_wait
    savespl,  \* curspl a thread goes back to when it is switched to
    holds     \* locks each thread has acquired and not given up

synchVars == <<count, locked, owner>>
callVars == <<pc, sem, lock, cv, spl, cvspl>>
allSynchVars == <<schedVars, synchVars, callVars, savespl, holds>>

Control == {"code", "P_test", "P_sleep", "acq_test", "acq_sleep",
            "cv_release", "cv_sleep", "cv_acquire", "cv_return"}

CallTypeOK ==
    /\ curthread \in Thread \cup {NULL}
    /\ curspl \in {0, SPL_HIGH}
    /\ tstate \in [Thread -> ThreadState]
    /\ t_sleepaddr \in [Thread -> Addr \cup {NULL}]
    /\ count \in [Sem -> Nat]
    /\ locked \in [Lock -> {0, 1}]
    /\ owner \in [Lock -> Thread \cup {NULL}]
    /\ pc \in [Thread -> Control]
    /\ sem \in [Thread -> Sem \cup {NULL}]
    /\ lock \in [Thread -> Lock \cup {NULL}]
    /\ cv \in [Thread -> CV \cup {NULL}]
    /\ spl \in [Thread -> {0, SPL_HIGH}]
    /\ cvspl \in [Thread -> {0, SPL_HIGH}]
    /\ savespl \in [Thread -> {0, SPL_HIGH}]
    /\ holds \in [Thread -> SUBSET Lock]

(* sem_create, lock_create, cv_create; every thread has been forked and    *)
(* the processor is about to pick the first.                               *)
SynchInit ==
    /\ curthread = NULL
    /\ curspl = SPL_HIGH
    /\ tstate = [t \in Thread |-> "S_READY"]
    /\ t_sleepaddr = [t \in Thread |-> NULL]
    /\ runqueue \in [1..Cardinality(Thread) -> Thread]
    /\ Members(runqueue) = Thread
    /\ sleepers = << >>
    /\ count = [s \in Sem |-> InitialCount]
    /\ locked = [l \in Lock |-> 0]
    /\ owner = [l \in Lock |-> NULL]
    /\ pc = [t \in Thread |-> "code"]
    /\ sem = [t \in Thread |-> NULL]
    /\ lock = [t \in Thread |-> NULL]
    /\ cv = [t \in Thread |-> NULL]
    /\ spl = [t \in Thread |-> 0]
    /\ cvspl = [t \in Thread |-> 0]
    /\ savespl = [t \in Thread |-> 0]
    /\ holds = [t \in Thread |-> {}]

-----------------------------------------------------------------------------
At(t, where) == curthread = t /\ pc[t] = where

Goto(t, where) == pc' = [pc EXCEPT ![t] = where]

(* Fault: interrupts are turned on whatever the caller had.                *)
Spl0(oldspl) == 0

(* splx at the end of a primitive puts back the level its splhigh saved.   *)
Splx(oldspl) == oldspl

(* The loop conditions of P and lock_acquire, negated.                     *)
Available(s) == count[s] > 0

Unlocked(l) == locked[l] = 0

(* thread_sleep called from inside a primitive: curspl is high, and will   *)
(* be when the thread is switched to again.                                *)
SleepOn(t, addr) ==
    /\ ThreadSleep(addr)
    /\ savespl' = [savespl EXCEPT ![t] = SPL_HIGH]

(* P(s): splhigh ...                                                       *)
PCall(t, s) ==
    /\ At(t, "code")
    /\ spl' = [spl EXCEPT ![t] = curspl]
    /\ curspl' = SPL_HIGH
    /\ sem' = [sem EXCEPT ![t] = s]
    /\ Goto(t, "P_test")
    /\ UNCHANGED <<curthread, tstate, t_sleepaddr, runqueue, sleepers,
                   synchVars, lock, cv, cvspl, savespl, holds>>

(* ... while (count == 0) ...                                              *)
PBlocks(t) ==
    /\ At(t, "P_test")
    /\ ~ Available(sem[t])
    /\ Goto(t, "P_sleep")
    /\ UNCHANGED <<schedVars, synchVars, sem, lock, cv, spl, cvspl, savespl, holds>>

(* ... thread_sleep, and test again on waking ...                          *)
PSleep(t) ==
    /\ At(t, "P_sleep")
    /\ SleepOn(t, sem[t])
    /\ Goto(t, "P_test")
    /\ UNCHANGED <<synchVars, sem, lock, cv, spl, cvspl, holds>>

(* ... count-- and splx.                                                   *)
PTakes(t) ==
    /\ At(t, "P_test")
    /\ Available(sem[t])
    /\ count' = [count EXCEPT ![sem[t]] = @ - 1]
    /\ curspl' = Splx(spl[t])
    /\ sem' = [sem EXCEPT ![t] = NULL]
    /\ Goto(t, "code")
    /\ UNCHANGED <<curthread, tstate, t_sleepaddr, runqueue, sleepers,
                   locked, owner, lock, cv, spl, cvspl, savespl, holds>>

(* Fault: V wakes one sleeper instead of all.                              *)
VCallWakesOne(s) ==
    /\ count[s] < MaxCount
    /\ count' = [count EXCEPT ![s] = @ + 1]
    /\ ThreadWakeupOne(s)
    /\ UNCHANGED <<curthread, curspl, locked, owner, callVars, savespl, holds>>

(* V(s), all of it at splhigh: count++ and thread_wakeup.                  *)
VCall(s) ==
    /\ count[s] < MaxCount
    /\ count' = [count EXCEPT ![s] = @ + 1]
    /\ ThreadWakeup(s)
    /\ UNCHANGED <<curthread, curspl, locked, owner, callVars, savespl, holds>>

(* V called by a thread, and V called by the interrupt handler of a device.*)
ThreadV(t, s) == At(t, "code") /\ VCall(s)

InterruptV(s) == InterruptsOn /\ VCall(s)

-----------------------------------------------------------------------------
(* lock_acquire: splhigh ...                                               *)
AcquireCall(t, l) ==
    /\ At(t, "code")
    /\ l \notin holds[t]
    /\ spl' = [spl EXCEPT ![t] = curspl]
    /\ curspl' = SPL_HIGH
    /\ lock' = [lock EXCEPT ![t] = l]
    /\ Goto(t, "acq_test")
    /\ UNCHANGED <<curthread, tstate, t_sleepaddr, runqueue, sleepers,
                   synchVars, sem, cv, cvspl, savespl, holds>>

(* ... while (locked == 1) ...                                             *)
AcquireBlocks(t) ==
    /\ At(t, "acq_test")
    /\ ~ Unlocked(lock[t])
    /\ Goto(t, "acq_sleep")
    /\ UNCHANGED <<schedVars, synchVars, sem, lock, cv, spl, cvspl, savespl, holds>>

(* ... thread_sleep ...                                                    *)
AcquireSleep(t) ==
    /\ At(t, "acq_sleep")
    /\ SleepOn(t, lock[t])
    /\ Goto(t, "acq_test")
    /\ UNCHANGED <<synchVars, sem, lock, cv, spl, cvspl, holds>>

(* ... take the lock and splx, which inside cv_wait leaves curspl high.    *)
AcquireTakes(t) ==
    /\ At(t, "acq_test")
    /\ Unlocked(lock[t])
    /\ locked' = [locked EXCEPT ![lock[t]] = 1]
    /\ owner' = [owner EXCEPT ![lock[t]] = t]
    /\ holds' = [holds EXCEPT ![t] = @ \cup {lock[t]}]
    /\ curspl' = Splx(spl[t])
    /\ lock' = [lock EXCEPT ![t] = NULL]
    /\ Goto(t, IF cv[t] = NULL THEN "code" ELSE "cv_return")
    /\ UNCHANGED <<curthread, tstate, t_sleepaddr, runqueue, sleepers,
                   count, sem, cv, spl, cvspl, savespl>>

(* Fault: the owner is not cleared.                                        *)
ReleaseKeepsOwner(t, l) ==
    /\ locked' = [locked EXCEPT ![l] = 0]
    /\ holds' = [holds EXCEPT ![t] = @ \ {l}]
    /\ ThreadWakeup(l)
    /\ UNCHANGED <<curthread, curspl, count, owner>>

(* The body of lock_release, at splhigh: the lock is freed and everybody   *)
(* who sleeps on it is woken.                                              *)
ReleaseBody(t, l) ==
    /\ locked' = [locked EXCEPT ![l] = 0]
    /\ owner' = [owner EXCEPT ![l] = NULL]
    /\ holds' = [holds EXCEPT ![t] = @ \ {l}]
    /\ ThreadWakeup(l)
    /\ curspl' = Splx(curspl)
    /\ UNCHANGED <<curthread, count>>

ReleaseCall(t, l) ==
    /\ At(t, "code")
    /\ l \in holds[t]
    /\ ReleaseBody(t, l)
    /\ UNCHANGED <<callVars, savespl>>

-----------------------------------------------------------------------------
(* cv_wait: splhigh ...                                                    *)
CvWaitCall(t, c, l) ==
    /\ At(t, "code")
    /\ l \in holds[t]
    /\ cvspl' = [cvspl EXCEPT ![t] = curspl]
    /\ curspl' = SPL_HIGH
    /\ cv' = [cv EXCEPT ![t] = c]
    /\ lock' = [lock EXCEPT ![t] = l]
    /\ Goto(t, "cv_release")
    /\ UNCHANGED <<curthread, tstate, t_sleepaddr, runqueue, sleepers,
                   synchVars, sem, spl, savespl, holds>>

(* ... lock_release, whose own splx puts back SPL_HIGH ...                 *)
CvWaitRelease(t) ==
    /\ At(t, "cv_release")
    /\ ReleaseBody(t, lock[t])
    /\ Goto(t, "cv_sleep")
    /\ UNCHANGED <<sem, lock, cv, spl, cvspl, savespl>>

(* ... thread_sleep ...                                                    *)
CvWaitSleep(t) ==
    /\ At(t, "cv_sleep")
    /\ SleepOn(t, cv[t])
    /\ Goto(t, "cv_acquire")
    /\ UNCHANGED <<synchVars, sem, lock, cv, spl, cvspl, holds>>

(* ... lock_acquire ...                                                    *)
CvWaitAcquire(t) ==
    /\ At(t, "cv_acquire")
    /\ spl' = [spl EXCEPT ![t] = curspl]
    /\ curspl' = SPL_HIGH
    /\ Goto(t, "acq_test")
    /\ UNCHANGED <<curthread, tstate, t_sleepaddr, runqueue, sleepers,
                   synchVars, sem, lock, cv, cvspl, savespl, holds>>

(* ... splx.                                                               *)
CvWaitReturn(t) ==
    /\ At(t, "cv_return")
    /\ curspl' = Splx(cvspl[t])
    /\ cv' = [cv EXCEPT ![t] = NULL]
    /\ Goto(t, "code")
    /\ UNCHANGED <<curthread, tstate, t_sleepaddr, runqueue, sleepers,
                   synchVars, sem, lock, spl, cvspl, savespl, holds>>

CvSignal(t, c) ==
    /\ At(t, "code")
    /\ holds[t] # {}
    /\ ThreadWakeupOne(c)
    /\ UNCHANGED <<curthread, curspl, synchVars, callVars, savespl, holds>>

CvBroadcast(t, c) ==
    /\ At(t, "code")
    /\ holds[t] # {}
    /\ ThreadWakeup(c)
    /\ UNCHANGED <<curthread, curspl, synchVars, callVars, savespl, holds>>

-----------------------------------------------------------------------------
(* The clock interrupt preempts the running thread: mips_trap saves curspl *)
(* and hardclock yields.                                                   *)
Preempt ==
    /\ InterruptsOn
    /\ SwitchOut("S_READY")
    /\ savespl' = [savespl EXCEPT ![curthread] = curspl]
    /\ UNCHANGED <<t_sleepaddr, sleepers, synchVars, callVars, holds>>

(* The scheduler runs the next thread, which goes on at the level it was   *)
(* switched out at.                                                        *)
SynchDispatch(t) ==
    /\ SwitchIn(t, tstate, savespl[t])
    /\ UNCHANGED <<synchVars, callVars, savespl, holds>>

(* The idle loop takes an interrupt that wakes nobody.                     *)
IdleInterrupt == Idle /\ UNCHANGED allSynchVars

PStep(t) ==
    \/ \E s \in Sem : PCall(t, s) \/ ThreadV(t, s)
    \/ PBlocks(t) \/ PSleep(t) \/ PTakes(t)

LockStep(t) ==
    \/ \E l \in Lock : AcquireCall(t, l) \/ ReleaseCall(t, l)
    \/ AcquireBlocks(t) \/ AcquireSleep(t) \/ AcquireTakes(t)

CvStep(t) ==
    \/ \E c \in CV : \/ \E l \in Lock : CvWaitCall(t, c, l)
                     \/ CvSignal(t, c) \/ CvBroadcast(t, c)
    \/ CvWaitRelease(t) \/ CvWaitSleep(t) \/ CvWaitAcquire(t) \/ CvWaitReturn(t)

SynchNext ==
    \/ \E t \in Thread : PStep(t) \/ LockStep(t) \/ CvStep(t) \/ SynchDispatch(t)
    \/ \E s \in Sem : InterruptV(s)
    \/ Preempt
    \/ IdleInterrupt

SynchSpec == SynchInit /\ [][SynchNext]_allSynchVars

(* What a primitive does at splhigh nobody can interrupt, so it is done;   *)
(* the scheduler's step likewise.  The timer goes off again and again and  *)
(* its interrupt is held until it is taken.  Nothing is assumed of the     *)
(* callers: a thread may keep a lock for ever, or never call anything.     *)
InPrimitive(t) ==
    \/ PBlocks(t) \/ PSleep(t) \/ PTakes(t)
    \/ AcquireBlocks(t) \/ AcquireSleep(t) \/ AcquireTakes(t)
    \/ CvWaitRelease(t) \/ CvWaitSleep(t) \/ CvWaitAcquire(t) \/ CvWaitReturn(t)

-----------------------------------------------------------------------------
(* lock_acquire returns to one thread at a time: no lock has two holders.  *)
MutualExclusion ==
    \A l \in Lock, t, u \in Thread : l \in holds[t] /\ l \in holds[u] => t = u

(* locked and owner tell who holds the lock, which is what lock_do_i_hold  *)
(* and the assertions of lock_release, cv_wait and cv_signal read.         *)
OwnerHolds ==
    \A l \in Lock :
        /\ locked[l] = 0 <=> owner[l] = NULL
        /\ \A t \in Thread : l \in holds[t] <=> owner[l] = t

(* No wakeup is lost: nobody sleeps on a semaphore that could be taken or  *)
(* on a lock that is free.                                                 *)
NoLostWakeup ==
    \A t \in Thread :
        /\ \A s \in Sem : SleepsOn(t, s) => count[s] = 0
        /\ \A l \in Lock : SleepsOn(t, l) => locked[l] = 1

(* cv_wait is atomic towards cv_signal: a thread that has begun cv_wait is *)
(* asleep before anybody else runs, so a later signal finds it.            *)
WaiterSleepsFirst ==
    \A t \in Thread : pc[t] \in {"cv_release", "cv_sleep"} => curthread = t

(* Why these hold, as an inductive invariant.  Interrupts are off in the   *)
(* running thread exactly when it is inside a primitive, and a thread that *)
(* is not running will go on at the right level; every splx of a primitive *)
(* puts back the level its caller had; ...                                 *)
SplProtects ==
    \A t \in Thread :
        /\ (IF curthread = t THEN curspl ELSE savespl[t]) = 0 <=> pc[t] = "code"
        /\ pc[t] \in {"P_test", "P_sleep"} => spl[t] = 0
        /\ pc[t] \in {"acq_test", "acq_sleep"} =>
               (spl[t] = 0 <=> cv[t] = NULL)
        /\ cv[t] # NULL => cvspl[t] = 0

(* ... and what a thread found out before it sleeps is still so, because   *)
(* it is still running.                                                    *)
TestStillHolds ==
    \A t \in Thread :
        /\ pc[t] \in {"P_sleep", "acq_sleep", "cv_release", "cv_sleep", "cv_return"}
               => curthread = t
        /\ pc[t] \in {"P_test", "P_sleep"} => sem[t] \in Sem
        /\ pc[t] = "P_sleep" => count[sem[t]] = 0
        /\ pc[t] \in {"acq_test", "acq_sleep", "cv_release", "cv_sleep", "cv_acquire"}
               => lock[t] \in Lock
        /\ pc[t] = "acq_sleep" => locked[lock[t]] = 1
        /\ pc[t] = "cv_release" => lock[t] \in holds[t]
        /\ pc[t] \in {"cv_release", "cv_sleep", "cv_acquire", "cv_return"}
               => cv[t] \in CV
        /\ pc[t] \in {"code", "P_test", "P_sleep"} => cv[t] = NULL

(* A thread that sleeps on a condition variable is in cv_wait on it, and   *)
(* the running thread does not sleep.                                      *)
SleeperIsWaiter ==
    \A t \in Thread :
        /\ curthread = t => tstate[t] = "S_RUN"
        /\ \A c \in CV : SleepsOn(t, c) => pc[t] = "cv_acquire" /\ cv[t] = c

SynchInv ==
    /\ CallTypeOK
    /\ OwnerHolds
    /\ NoLostWakeup
    /\ SplProtects
    /\ TestStillHolds
    /\ SleeperIsWaiter

(* Left behind: in lock_acquire on a free lock, or in P on a semaphore     *)
(* that could be taken.                                                    *)
Stuck(t) ==
    \/ pc[t] \in {"acq_test", "acq_sleep"} /\ locked[lock[t]] = 0
    \/ pc[t] \in {"P_test", "P_sleep"} /\ count[sem[t]] > 0

(* The abstract specification: see Monitor.                                *)
Waiting == [c \in CV |-> {t \in Thread :
              cv[t] = c /\ (pc[t] = "cv_sleep" \/ SleepsOn(t, c))}]

M == INSTANCE Monitor WITH value <- count, holder <- owner, waiters <- Waiting

(* The primitives do what synch.h promises: P, V, acquire, release, wait,  *)
(* signal and broadcast each take effect in one atomic step.               *)
ImplementsMonitor == M!Spec
=============================================================================
