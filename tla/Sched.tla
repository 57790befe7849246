------------------------------- MODULE Sched -------------------------------
(***************************************************************************)
(* The uniprocessor thread core of the kernel: curthread, the interrupt    *)
(* level curspl, the run queue of scheduler.c, the sleepers[] array of     *)
(* thread.c, and the steps of mi_switch that move threads between them.    *)
(*                                                                         *)
(* This module has no next-state relation.  It is extended by the modules  *)
(* that add callers: Threads (fork, exit, yield, the clock) and Synch      *)
(* (semaphores, locks, condition variables).                               *)
(*                                                                         *)
(* mi_switch is two steps, because the idle loop inside scheduler() takes  *)
(* interrupts between them: SwitchOut stashes the running thread and sets  *)
(* curthread to NULL, SwitchIn takes the next thread off the run queue.    *)
(* While the run queue is non-empty no interrupt can come in between, as   *)
(* curspl is high all the way and cpu_idle is not called.                  *)
(***************************************************************************)
EXTENDS Naturals, Sequences

CONSTANTS
    Thread,   \* thread structures the kernel can allocate
    Addr,     \* sleep addresses: objects threads sleep on
    NULL      \* the null pointer

ASSUME NullIsNoObject == NULL \notin Thread \cup Addr

VARIABLES
    curthread,    \* the running thread; NULL inside the scheduler
    curspl,       \* 0: interrupts on; 1: SPL_HIGH
    tstate,       \* which list a thread is on (threadstate_t)
    t_sleepaddr,  \* sleep address of each thread
    runqueue,     \* queue of runnable threads, head first
    sleepers      \* array of sleeping threads, in order of arrival

schedVars == <<curthread, curspl, tstate, t_sleepaddr, runqueue, sleepers>>

(* threadstate_t, and S_FREE for a structure that is not allocated.        *)
ThreadState == {"S_RUN", "S_READY", "S_SLEEP", "S_ZOMB", "S_FREE"}

SPL_HIGH == 1

SchedTypeOK ==
    /\ curthread \in Thread \cup {NULL}
    /\ curspl \in {0, SPL_HIGH}
    /\ tstate \in [Thread -> ThreadState]
    /\ t_sleepaddr \in [Thread -> Addr \cup {NULL}]
    /\ runqueue \in Seq(Thread)
    /\ sleepers \in Seq(Thread)

-----------------------------------------------------------------------------
(* Guards.                                                                 *)

(* The processor takes an interrupt: interrupts are on in the running      *)
(* thread, or the scheduler is in cpu_idle, which turns them on and off.   *)
Idle == curthread = NULL /\ runqueue = << >>

InterruptsOn == Idle \/ (curthread # NULL /\ curspl = 0)

SleepsOn(t, addr) == tstate[t] = "S_SLEEP" /\ t_sleepaddr[t] = addr

HasSleepers(addr) == \E t \in Thread : SleepsOn(t, addr)

-----------------------------------------------------------------------------
(* Fault: the thread goes to the head of the run queue, not to the tail.   *)
SwitchOutToHead(states, queue, nextstate) ==
    /\ curthread # NULL
    /\ curthread' = NULL
    /\ tstate' = [states EXCEPT ![curthread] = nextstate]
    /\ runqueue' = IF nextstate = "S_READY"
                   THEN << curthread >> \o queue ELSE queue
    /\ curspl' = SPL_HIGH

(* First half of mi_switch: curthread becomes NULL and the thread that was *)
(* running goes where nextstate says.  The clock handler wakes threads and *)
(* then yields in one step, so the states and the run queue the thread is  *)
(* added to are parameters.  zombies[] is kept by Threads.                 *)
SwitchOutOf(states, queue, nextstate) ==
    /\ curthread # NULL
    /\ curthread' = NULL
    /\ tstate' = [states EXCEPT ![curthread] = nextstate]
    /\ runqueue' = IF nextstate = "S_READY"
                   THEN Append(queue, curthread) ELSE queue
    /\ curspl' = SPL_HIGH

SwitchOut(nextstate) == SwitchOutOf(tstate, runqueue, nextstate)

(* thread_sleep up to the switch: only with interrupts already off.        *)
ThreadSleep(addr) ==
    /\ curspl = SPL_HIGH
    /\ t_sleepaddr' = [t_sleepaddr EXCEPT ![curthread] = addr]
    /\ sleepers' = Append(sleepers, curthread)
    /\ SwitchOut("S_SLEEP")

(* Second half of mi_switch: scheduler() returns the head of the run queue *)
(* and it becomes curthread.  A thread that comes back from thread_sleep   *)
(* clears its sleep address.  states is tstate, after exorcise if that is  *)
(* called; newspl is the level the thread continues at.  The code does not *)
(* test that the head is S_READY: the conjunct holds whenever the others   *)
(* do (ListsAgree; a head in another state would be reported as deadlock). *)
SwitchIn(t, states, newspl) ==
    /\ curthread = NULL
    /\ runqueue # << >>
    /\ t = Head(runqueue)
    /\ tstate[t] = "S_READY"
    /\ runqueue' = Tail(runqueue)
    /\ curthread' = t
    /\ tstate' = [states EXCEPT ![t] = "S_RUN"]
    /\ t_sleepaddr' = [t_sleepaddr EXCEPT ![t] = NULL]
    /\ curspl' = newspl
    /\ UNCHANGED sleepers

(* The lists after thread_wakeup(addr): every sleeper on addr moves to the *)
(* tail of the run queue, in the order of sleepers[].                      *)
AwakenedState(addr) ==
    [t \in Thread |-> IF SleepsOn(t, addr) THEN "S_READY" ELSE tstate[t]]

AwakenedQueue(addr) ==
    runqueue \o SelectSeq(sleepers, LAMBDA t : t_sleepaddr[t] = addr)

(* Fault: woken threads are not removed from sleepers[].                   *)
KeptAsleep(addr) == sleepers

StillAsleep(addr) == SelectSeq(sleepers, LAMBDA t : t_sleepaddr[t] # addr)

ThreadWakeup(addr) ==
    /\ tstate' = AwakenedState(addr)
    /\ runqueue' = AwakenedQueue(addr)
    /\ sleepers' = StillAsleep(addr)
    /\ UNCHANGED t_sleepaddr

(* thread_wakeup_one(addr): the sleeper on addr that comes first in        *)
(* sleepers[], if there is one.                                            *)
FirstSleeper(t, addr) ==
    \E i \in DOMAIN sleepers :
        /\ sleepers[i] = t
        /\ \A j \in 1..(i - 1) : t_sleepaddr[sleepers[j]] # addr

AllBut(t) == SelectSeq(sleepers, LAMBDA u : u # t)

ThreadWakeupOne(addr) ==
    \/ /\ ~ HasSleepers(addr)
       /\ UNCHANGED <<tstate, runqueue, sleepers, t_sleepaddr>>
    \/ \E t \in Thread :
        /\ SleepsOn(t, addr)
        /\ FirstSleeper(t, addr)
        /\ tstate' = [tstate EXCEPT ![t] = "S_READY"]
        /\ runqueue' = Append(runqueue, t)
        /\ sleepers' = AllBut(t)
        /\ UNCHANGED t_sleepaddr

-----------------------------------------------------------------------------
(* Every thread is where its state says, once: the run queue holds exactly *)
(* the ready threads, sleepers[] exactly the sleeping ones, and curthread  *)
(* is the only one running.                                                *)
NoDuplicates(s) == \A i, j \in DOMAIN s : s[i] = s[j] => i = j

Members(s) == {s[i] : i \in DOMAIN s}

ListsAgree ==
    /\ NoDuplicates(runqueue)
    /\ NoDuplicates(sleepers)
    /\ Members(runqueue) = {t \in Thread : tstate[t] = "S_READY"}
    /\ Members(sleepers) = {t \in Thread : tstate[t] = "S_SLEEP"}
    /\ {t \in Thread : tstate[t] = "S_RUN"} = {curthread} \ {NULL}
=============================================================================
