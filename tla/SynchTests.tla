----------------------------- MODULE SynchTests -----------------------------
(***************************************************************************)
(* The kernel's own thread and synchronization tests: semtest, locktest    *)
(* and cvtest (test/synchtest.c), threadtest 1 and 2 (test/threadtest.c)   *)
(* and threadtest 3 (test/tt3.c), run one after another from the menu.     *)
(* Semaphores, the lock and the condition variable are used through their  *)
(* atomic meaning (module Monitor); every access to a shared variable of a *)
(* test is a step.                                                         *)
(*                                                                         *)
(* Left out: the running time cvtest asks of cv_wait, which only a         *)
(* cv_wait that does not sleep fails; tt3's matrices; the panic when a     *)
(* fork fails.  The three donesems are one variable: the tests that own    *)
(* them do not run together.                                               *)
(***************************************************************************)
EXTENDS Integers, Sequences, FiniteSets

CONSTANTS
    NTHREADS,       \* threads a test forks
    NLOOPS,         \* NLOCKLOOPS, NCVLOOPS, prints and iterations of tt3
    NWAITADDRS,     \* sleep addresses of tt3
    MaxTests        \* bound: tests run

ASSUME SynchTestsConstants ==
    NTHREADS \in Nat \ {0} /\ NLOOPS \in Nat \ {0} /\ NWAITADDRS \in Nat \ {0} /\ MaxTests \in Nat

Num == 0..(NTHREADS - 1)
Waker == NTHREADS

VARIABLES
    test, tests,                \* the test that runs; how many have
    drv,                        \* the driver: where it is and its loop counter
    testsem, donesem, wakersem,
    holder, waiting,            \* testlock; threads in cv_wait
    testval1, testval2, testval3,
    tpc, loop, step,            \* where each test thread is; its loop counter; locktest's line
    printing, printed,          \* semtest: threads printing; cvtest: last to print
    sleepaddr, wakerdone, mismatch

semVars == <<testsem, donesem, wakersem>>
valVars == <<testval1, testval2, testval3>>
testVars == <<test, tests, drv, semVars, holder, waiting, valVars, tpc, loop, step, printing,
              printed, sleepaddr, wakerdone, mismatch>>

NOHOLDER == -1

SynchTestsInit ==
    /\ test = "none" /\ tests = 0 /\ drv = [at |-> "menu", i |-> 0]
    /\ testsem = 2 /\ donesem = 0 /\ wakersem = 1             \* inititems, setup
    /\ holder = NOHOLDER /\ waiting = {}
    /\ testval1 = 0 /\ testval2 = 0 /\ testval3 = 0
    /\ tpc = [t \in 0..NTHREADS |-> "none"] /\ loop = [t \in 0..NTHREADS |-> 0]
    /\ step = [t \in Num |-> 1]
    /\ printing = {} /\ printed = NOHOLDER
    /\ sleepaddr = [t \in Num |-> NOHOLDER] /\ wakerdone = FALSE /\ mismatch = FALSE

-----------------------------------------------------------------------------
(* The drivers.                                                            *)
DrvGoto(at, i) == drv' = [at |-> at, i |-> i]

(* The items were made by the first test, so inititems changes nothing.    *)
InitItems(k) ==
    /\ drv.at = "menu" /\ tests < MaxTests
    /\ test' = k /\ tests' = tests + 1
    /\ printed' = NOHOLDER
    /\ UNCHANGED <<semVars, holder, waiting, testval2, testval3, tpc, loop, printing, sleepaddr,
                   mismatch, step>>

Semtest == InitItems("sem") /\ DrvGoto("take", 2) /\ UNCHANGED <<testval1, wakerdone>>
Locktest == InitItems("lock") /\ DrvGoto("fork", 0) /\ UNCHANGED <<testval1, wakerdone>>
Cvtest == InitItems("cv") /\ testval1' = NTHREADS - 1 /\ DrvGoto("fork", 0) /\ UNCHANGED wakerdone
Threadtest == InitItems("thread") /\ DrvGoto("fork", 0) /\ UNCHANGED <<testval1, wakerdone>>
Threadtest3 == InitItems("tt3") /\ wakerdone' = FALSE /\ DrvGoto("fork", 0) /\ UNCHANGED testval1

SemtestTake ==
    /\ drv.at = "take" /\ testsem > 0
    /\ testsem' = testsem - 1
    /\ IF drv.i > 1 THEN DrvGoto("take", drv.i - 1) ELSE DrvGoto("fork", 0)
    /\ UNCHANGED <<test, tests, donesem, wakersem, holder, waiting, valVars, tpc, loop, printing,
                   printed, sleepaddr, wakerdone, mismatch, step>>

Last == IF test = "tt3" THEN NTHREADS ELSE NTHREADS - 1

Fork ==
    /\ drv.at = "fork"
    /\ tpc' = [tpc EXCEPT ![drv.i] = "start"]
    /\ loop' = [loop EXCEPT ![drv.i] = 0]
    /\ IF drv.i < Last THEN DrvGoto("fork", drv.i + 1)
       ELSE DrvGoto(IF test = "sem" THEN "let" ELSE "wait", 0)
    /\ UNCHANGED <<test, tests, semVars, holder, waiting, valVars, printing, printed, sleepaddr,
                   wakerdone, mismatch, step>>

(* semtest lets one thread at a time go.                                   *)
SemtestLet ==
    /\ drv.at = "let"
    /\ testsem' = testsem + 1 /\ DrvGoto("wait", drv.i)
    /\ UNCHANGED <<test, tests, donesem, wakersem, holder, waiting, valVars, tpc, loop, printing,
                   printed, sleepaddr, wakerdone, mismatch, step>>

DrvWait ==
    /\ drv.at = "wait" /\ donesem > 0
    /\ donesem' = donesem - 1
    /\ IF drv.i < NTHREADS - 1 THEN DrvGoto(IF test = "sem" THEN "let" ELSE "wait", drv.i + 1)
       ELSE DrvGoto(IF test = "tt3" THEN "finish" ELSE "done", 0)
    /\ UNCHANGED <<test, tests, testsem, wakersem, holder, waiting, valVars, tpc, loop, printing,
                   printed, sleepaddr, wakerdone, mismatch, step>>

(* tt3's finish tells the waker, under wakersem, and waits for it.         *)
Finish ==
    /\ \/ /\ drv.at = "finish" /\ wakersem > 0
          /\ wakersem' = wakersem - 1 /\ wakerdone' = TRUE
          /\ DrvGoto("finish2", 0) /\ UNCHANGED donesem
       \/ /\ drv.at = "finish2"
          /\ wakersem' = wakersem + 1 /\ DrvGoto("finish3", 0) /\ UNCHANGED <<wakerdone, donesem>>
       \/ /\ drv.at = "finish3" /\ donesem > 0
          /\ donesem' = donesem - 1 /\ DrvGoto("done", 0) /\ UNCHANGED <<wakersem, wakerdone>>
    /\ UNCHANGED <<test, tests, testsem, holder, waiting, valVars, tpc, loop, printing, printed,
                   sleepaddr, mismatch, step>>

(* semtest gives back what it took, so it can be run again.                *)
DrvDone ==
    /\ drv.at = "done"
    /\ testsem' = IF test = "sem" THEN testsem + 2 ELSE testsem
    /\ test' = "none" /\ DrvGoto("menu", 0)
    /\ UNCHANGED <<tests, donesem, wakersem, holder, waiting, valVars, tpc, loop, printing, printed,
                   sleepaddr, wakerdone, mismatch, step>>

-----------------------------------------------------------------------------
(* The threads.                                                            *)
TGoto(t, where) == tpc' = [tpc EXCEPT ![t] = where]
TAt(k, t, where) == test = k /\ tpc[t] = where

(* V(donesem), and the thread is gone.                                     *)
Leave(t) == donesem' = donesem + 1 /\ TGoto(t, "none")

SemtestThread(t) ==
    /\ \/ /\ TAt("sem", t, "start") /\ testsem > 0
          /\ testsem' = testsem - 1 /\ printing' = printing \cup {t}
          /\ TGoto(t, "print") /\ UNCHANGED donesem
       \/ /\ TAt("sem", t, "print")
          /\ printing' = printing \ {t} /\ TGoto(t, "v") /\ UNCHANGED <<testsem, donesem>>
       \/ /\ TAt("sem", t, "v")
          /\ Leave(t) /\ UNCHANGED <<testsem, printing>>
    /\ UNCHANGED <<test, tests, drv, wakersem, holder, waiting, valVars, loop, printed, sleepaddr,
                   wakerdone, mismatch, step>>

(* Fault: lock_acquire is missing.                                         *)
LockFreeFor(t) == TRUE

LockFree(t) == holder = NOHOLDER

(* locktestthread: three assignments, six comparisons, in this order.      *)
Assign(t, k) ==
    CASE k = 1 -> testval1' = t /\ UNCHANGED <<testval2, testval3>>
      [] k = 2 -> testval2' = t * t /\ UNCHANGED <<testval1, testval3>>
      [] k = 3 -> testval3' = t % 3 /\ UNCHANGED <<testval1, testval2>>

Compare(t, k) ==
    CASE k = 4 -> testval2 = testval1 * testval1
      [] k = 5 -> testval2 % 3 = (testval3 * testval3) % 3
      [] k = 6 -> testval3 = testval1 % 3
      [] k = 7 -> testval1 = t
      [] k = 8 -> testval2 = t * t
      [] k = 9 -> testval3 = t % 3

LocktestAcquire(t) ==
    /\ TAt("lock", t, "start") /\ LockFree(t)
    /\ holder' = t /\ TGoto(t, "in") /\ step' = [step EXCEPT ![t] = 1]
    /\ UNCHANGED <<test, tests, drv, semVars, waiting, valVars, loop, printing, printed, sleepaddr,
                   wakerdone, mismatch>>

(* A mismatch goes to fail, which releases the lock and leaves.            *)
LocktestStep(t) ==
    /\ TAt("lock", t, "in")
    /\ LET k == step[t]
           bad == k > 3 /\ ~ Compare(t, k)
       IN  /\ IF k <= 3 THEN Assign(t, k) ELSE UNCHANGED valVars
           /\ mismatch' = (mismatch \/ bad)
           /\ TGoto(t, IF bad THEN "fail" ELSE IF k < 9 THEN "in" ELSE "release")
           /\ step' = [step EXCEPT ![t] = IF k < 9 THEN k + 1 ELSE 1]
    /\ UNCHANGED <<test, tests, drv, semVars, holder, waiting, loop, printing, printed, sleepaddr,
                   wakerdone>>

LocktestRelease(t) ==
    /\ TAt("lock", t, "release") \/ TAt("lock", t, "fail")
    /\ holder' = NOHOLDER
    /\ loop' = [loop EXCEPT ![t] = @ + 1]
    /\ TGoto(t, IF tpc[t] = "release" /\ loop[t] + 1 < NLOOPS THEN "start" ELSE "v")
    /\ UNCHANGED <<test, tests, drv, semVars, waiting, valVars, printing, printed, sleepaddr,
                   wakerdone, mismatch, step>>

(* The V at the end of locktest's, cvtest's and threadtest's threads; the  *)
(* last do nothing but print.                                              *)
TestThreadV(t) ==
    /\ TAt("lock", t, "v") \/ TAt("cv", t, "v") \/ TAt("thread", t, "start")
    /\ Leave(t)
    /\ UNCHANGED <<test, tests, drv, testsem, wakersem, holder, waiting, valVars, loop, printing,
                   printed, sleepaddr, wakerdone, mismatch, step>>

(* cvtestthread: take the lock, wait for the turn, print, pass it on.      *)
CvtestAcquire(t) ==
    /\ TAt("cv", t, "start") \/ (TAt("cv", t, "wait") /\ t \notin waiting)
    /\ holder = NOHOLDER /\ holder' = t /\ TGoto(t, "test")
    /\ UNCHANGED <<test, tests, drv, semVars, waiting, valVars, loop, printing, printed, sleepaddr,
                   wakerdone, mismatch, step>>

CvtestWait(t) ==
    /\ TAt("cv", t, "test") /\ testval1 # t
    /\ holder' = NOHOLDER /\ waiting' = waiting \cup {t} /\ TGoto(t, "wait")
    /\ UNCHANGED <<test, tests, drv, semVars, valVars, loop, printing, printed, sleepaddr,
                   wakerdone, mismatch, step>>

(* Fault: one waiter is woken, whoever's turn it is.                       *)
BroadcastOne(t) == IF waiting = {} THEN waiting' = {} ELSE \E u \in waiting : waiting' = waiting \ {u}

Broadcast(t) == waiting' = {}

CvtestPrint(t) ==
    /\ TAt("cv", t, "test") /\ testval1 = t
    /\ mismatch' = (mismatch \/ (printed # NOHOLDER /\ t # (printed + NTHREADS - 1) % NTHREADS))
    /\ printed' = t
    /\ testval1' = (testval1 + NTHREADS - 1) % NTHREADS
    /\ Broadcast(t) /\ TGoto(t, "release")
    /\ UNCHANGED <<test, tests, drv, semVars, holder, testval2, testval3, loop, printing, sleepaddr,
                   wakerdone, step>>

CvtestRelease(t) ==
    /\ TAt("cv", t, "release")
    /\ holder' = NOHOLDER
    /\ loop' = [loop EXCEPT ![t] = @ + 1]
    /\ TGoto(t, IF loop[t] + 1 < NLOOPS THEN "start" ELSE "v")
    /\ UNCHANGED <<test, tests, drv, semVars, waiting, valVars, printing, printed, sleepaddr,
                   wakerdone, mismatch, step>>

(* sleepalot_thread sleeps on a random address, again and again.           *)
Sleepalot(t) ==
    /\ \/ /\ TAt("tt3", t, "start") /\ loop[t] < NLOOPS
          /\ \E a \in 1..NWAITADDRS : sleepaddr' = [sleepaddr EXCEPT ![t] = a]
          /\ loop' = [loop EXCEPT ![t] = @ + 1] /\ TGoto(t, "sleep") /\ UNCHANGED donesem
       \/ /\ TAt("tt3", t, "sleep") /\ sleepaddr[t] = NOHOLDER
          /\ TGoto(t, "start") /\ UNCHANGED <<sleepaddr, loop, donesem>>
       \/ /\ TAt("tt3", t, "start") /\ loop[t] = NLOOPS
          /\ Leave(t) /\ UNCHANGED <<sleepaddr, loop>>
    /\ UNCHANGED <<test, tests, drv, testsem, wakersem, holder, waiting, valVars, printing, printed,
                   wakerdone, mismatch, step>>

(* waker_thread reads wakerdone under wakersem, and wakes random addresses *)
(* until it is set.                                                        *)
WakerLook ==
    /\ \/ /\ TAt("tt3", Waker, "start") /\ wakersem > 0
          /\ wakersem' = wakersem - 1
          /\ TGoto(Waker, IF wakerdone THEN "stop" ELSE "go") /\ UNCHANGED donesem
       \/ /\ tpc[Waker] \in {"go", "stop"} /\ test = "tt3"
          /\ wakersem' = wakersem + 1
          /\ TGoto(Waker, IF tpc[Waker] = "go" THEN "wake" ELSE "v") /\ UNCHANGED donesem
       \/ /\ TAt("tt3", Waker, "v") /\ Leave(Waker) /\ UNCHANGED wakersem
    /\ UNCHANGED <<test, tests, drv, testsem, holder, waiting, valVars, loop, printing, printed,
                   sleepaddr, wakerdone, mismatch, step>>

WakerWakes(a) ==
    /\ TAt("tt3", Waker, "wake")
    /\ sleepaddr' = [t \in Num |-> IF sleepaddr[t] = a THEN NOHOLDER ELSE sleepaddr[t]]
    /\ TGoto(Waker, "wake2")
    /\ UNCHANGED <<test, tests, drv, semVars, holder, waiting, valVars, loop, printing, printed,
                   wakerdone, mismatch, step>>

WakerAgain ==
    /\ TAt("tt3", Waker, "wake2")
    /\ \/ TGoto(Waker, "wake") \/ TGoto(Waker, "start")
    /\ UNCHANGED <<test, tests, drv, semVars, holder, waiting, valVars, loop, printing, printed,
                   sleepaddr, wakerdone, mismatch, step>>

DriverStep == SemtestTake \/ Fork \/ SemtestLet \/ DrvWait \/ Finish \/ DrvDone
ThreadStep(t) ==
    \/ SemtestThread(t) \/ LocktestAcquire(t) \/ LocktestStep(t) \/ LocktestRelease(t)
    \/ TestThreadV(t) \/ CvtestAcquire(t) \/ CvtestWait(t) \/ CvtestPrint(t) \/ CvtestRelease(t)
    \/ Sleepalot(t)

SynchTestsNext ==
    \/ Semtest \/ Locktest \/ Cvtest \/ Threadtest \/ Threadtest3
    \/ DriverStep
    \/ \E t \in Num : ThreadStep(t)
    \/ WakerLook \/ WakerAgain \/ \E a \in 1..NWAITADDRS : WakerWakes(a)

-----------------------------------------------------------------------------
(* The tests find nothing wrong: "Only one of these should print at a      *)
(* time" in semtest, no mismatch in locktest, "Threads should print out in *)
(* reverse order" in cvtest; and each leaves its semaphores, lock and      *)
(* condition variable as it found them, "so we can run it again".          *)
TestsPass ==
    /\ ~ mismatch
    /\ Cardinality(printing) <= 1
    /\ drv.at = "menu" =>
        /\ testsem = 2 /\ donesem = 0 /\ wakersem = 1
        /\ holder = NOHOLDER /\ waiting = {} /\ printing = {}
        /\ \A t \in 0..NTHREADS : tpc[t] = "none"

(* "If this hangs, it's broken": every test comes back to the menu, though *)
(* wakeups that nobody waits for are lost and cv_broadcast wakes threads   *)
(* whose turn it is not.                                                   *)
TestsOver == drv.at = "menu"
=============================================================================
