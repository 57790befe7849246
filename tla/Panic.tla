------------------------------- MODULE Panic -------------------------------
(***************************************************************************)
(* Kernel output and panic: kprintf and panic (lib/kprintf.c), the output  *)
(* buffer used until the console is attached (dev/generic/console.c), the  *)
(* order of boot (main/main.c), thread_panic and md_panic.                 *)
(*                                                                         *)
(* Each step of panic() is a step here, a test of evil and the assignment  *)
(* after it included, and threads are switched whenever interrupts are on. *)
(* A thread that is not panicking prints, or is inside the VFS with        *)
(* knowndevs_lock held.  A panic may come from an interrupt handler, on    *)
(* top of a panic too, and any stage of panic() may itself panic.          *)
(***************************************************************************)
EXTENDS Integers, Sequences

CONSTANTS PThreads, MainThread, NOBODY,
          DELAYBUFSIZE,
          MaxSaid,         \* bound: characters printed
          MaxVfs,          \* bound: VFS calls
          MaxPanics        \* bound: panics that start by themselves

ASSUME PanicConstants ==
    /\ MainThread \in PThreads /\ NOBODY \notin PThreads
    /\ DELAYBUFSIZE \in Nat /\ MaxSaid \in Nat /\ MaxVfs \in Nat /\ MaxPanics \in Nat

VARIABLES
    boot,                   \* how far boot() is: 0..4
    delayed, shown, said,   \* delayed_outbuf, the console, history of putch
    evil, kprintf_lock, knowndevs_lock,
    running, level, inint,  \* the current thread; each thread's spl; in_interrupt
    place, dropped,         \* where each thread is; threads killed
    lone, budget,           \* whether only one panic starts by itself; how many still may
    visits,                 \* VFS calls so far
    stages, alone,          \* history: the stages tried, by number; where in
                            \* it the other threads were dropped, or 0
    off                     \* powered off

panicVars == <<boot, delayed, shown, said, evil, kprintf_lock, knowndevs_lock, running, level, inint,
               place, dropped, lone, budget, visits, stages, alone, off>>
stageVars == <<stages, alone>>
outVars == <<delayed, shown, said>>
lockVars == <<kprintf_lock, knowndevs_lock>>

(* boot: 0 at the start, 1 after thread_bootstrap, 2 after vfs_bootstrap,  *)
(* 3 once the console is attached and interrupts are on, 4 when            *)
(* kprintf_bootstrap is done and other threads may run.                    *)
PanicInit ==
    /\ boot = 0 /\ delayed = <<>> /\ shown = <<>> /\ said = <<>>
    /\ evil = 0 /\ kprintf_lock = NOBODY /\ knowndevs_lock = NOBODY
    /\ running = MainThread /\ level = [t \in PThreads |-> IF t = MainThread THEN 1 ELSE 0]
    /\ inint = FALSE /\ place = [t \in PThreads |-> "run"] /\ dropped = {}
    /\ lone \in BOOLEAN /\ budget = IF lone THEN 1 ELSE MaxPanics
    /\ visits = 0 /\ stages = <<>> /\ alone = 0 /\ off = FALSE

Runs(t, where) == ~ off /\ running = t /\ place[t] = where
Moves(t, where) == place' = [place EXCEPT ![t] = where]

(* The steps of boot().  Attaching the console prints what was delayed.    *)
Boot ==
    /\ Runs(MainThread, "run") /\ boot < 4 /\ boot' = boot + 1
    /\ IF boot' = 3
       THEN /\ shown' = shown \o delayed /\ delayed' = <<>>
            /\ level' = [level EXCEPT ![MainThread] = 0]
       ELSE UNCHANGED <<shown, delayed, level>>
    /\ UNCHANGED <<lone, said, evil, lockVars, running, inint, place, dropped, budget, visits,
                   stageVars, off>>

(* kprintf takes its lock only with interrupts on and outside a handler.   *)
Locks(t) == boot = 4 /\ ~ inint /\ level[t] = 0

(* Fault: a full buffer wraps round silently.                              *)
PutchWrap(t, ch, next) ==
    /\ said' = Append(said, ch)
    /\ IF boot >= 3 THEN shown' = Append(shown, ch) /\ UNCHANGED delayed
       ELSE delayed' = (IF Len(delayed) < DELAYBUFSIZE THEN Append(delayed, ch) ELSE <<ch>>)
            /\ UNCHANGED shown
    /\ Moves(t, next)

(* putch: to the console, or into the buffer, whose end is an assertion.   *)
Putch(t, ch, next) ==
    IF boot < 3 /\ Len(delayed) >= DELAYBUFSIZE
    THEN Moves(t, "t1") /\ UNCHANGED outVars
    ELSE /\ said' = Append(said, ch)
         /\ IF boot >= 3 THEN shown' = Append(shown, ch) /\ UNCHANGED delayed
            ELSE delayed' = Append(delayed, ch) /\ UNCHANGED shown
         /\ Moves(t, next)

(* An ordinary kprintf of one character.                                   *)
Say(t) ==
    /\ Runs(t, "run") /\ Len(said) < MaxSaid
    /\ Locks(t) => kprintf_lock = NOBODY
    /\ kprintf_lock' = IF Locks(t) THEN t ELSE kprintf_lock
    /\ Moves(t, "say")
    /\ UNCHANGED <<lone, boot, outVars, evil, knowndevs_lock, running, level, inint, dropped,
                   budget, visits, stageVars, off>>

SayDone(t) ==
    /\ Runs(t, "say") /\ Putch(t, "c", "run")
    /\ kprintf_lock' = IF Locks(t) THEN NOBODY ELSE kprintf_lock
    /\ UNCHANGED <<lone, boot, evil, knowndevs_lock, running, level, inint, dropped, budget,
                   visits, stageVars, off>>

VfsEnter(t) ==
    /\ Runs(t, "run") /\ boot = 4 /\ knowndevs_lock = NOBODY
    /\ visits < MaxVfs /\ visits' = visits + 1
    /\ knowndevs_lock' = t /\ Moves(t, "vfs")
    /\ UNCHANGED <<lone, boot, outVars, evil, kprintf_lock, running, level, inint, dropped,
                   budget, stageVars, off>>

VfsLeave(t) ==
    /\ Runs(t, "vfs") /\ knowndevs_lock' = NOBODY /\ Moves(t, "run")
    /\ UNCHANGED <<lone, boot, outVars, evil, kprintf_lock, running, level, inint, dropped,
                   budget, visits, stageVars, off>>

(* A panic starts: in the thread, or in an interrupt handler on top of it. *)
StartPanic(t) ==
    /\ running = t /\ ~ off
    /\ budget > 0 /\ budget' = budget - 1
    /\ \/ place[t] \in {"run", "say", "vfs"} /\ UNCHANGED <<inint, level>>
       \/ level[t] = 0 /\ inint' = TRUE /\ level' = [level EXCEPT ![t] = 1]
    /\ Moves(t, "t1")
    /\ UNCHANGED <<lone, boot, outVars, evil, lockVars, running, dropped, visits, stageVars, off>>

-----------------------------------------------------------------------------
(* panic().  Its five tests of evil, the assignments after them, and the   *)
(* stages, where a thread may be: if (evil == k - 1) { evil = k; stage k } *)
Tests == <<"t1", "t2", "t3", "t4", "t5">>
Sets == <<"s1", "s2", "s3", "s4", "s5">>
Order == <<"spl", "kill", "print", "sync", "off">>
After == <<"t2", "t3", "t4", "t5", "spin">>

Test(t, k) ==
    /\ Runs(t, Tests[k])
    /\ Moves(t, IF evil = k - 1 THEN Sets[k] ELSE After[k])
    /\ UNCHANGED <<lone, boot, outVars, evil, lockVars, running, level, inint, dropped, budget,
                   visits, stageVars, off>>

(* Fault: evil is not advanced before the stage.                           *)
SetEvilLate(t, k) ==
    /\ Runs(t, Sets[k])
    /\ Moves(t, Order[k])
    /\ UNCHANGED <<lone, boot, outVars, evil, lockVars, running, level, inint, dropped, budget,
                   visits, stageVars, off>>

(* Nothing protects evil: it may have changed since the test.              *)
SetEvil(t, k) ==
    /\ Runs(t, Sets[k])
    /\ evil' = k /\ Moves(t, Order[k])
    /\ UNCHANGED <<lone, boot, outVars, lockVars, running, level, inint, dropped, budget,
                   visits, stageVars, off>>

Tried(k) == stages' = Append(stages, k)

SplStage(t) ==
    /\ Runs(t, "spl") /\ level' = [level EXCEPT ![t] = 1] /\ Moves(t, "t2") /\ Tried(1)
    /\ UNCHANGED <<lone, alone, boot, outVars, evil, lockVars, running, inint, dropped, budget,
                   visits, off>>

(* thread_panic drops every other thread; it insists on interrupts off.    *)
KillStage(t) ==
    /\ Runs(t, "kill") /\ Tried(2)
    /\ \/ /\ level[t] > 0 /\ boot >= 1
          /\ Moves(t, "t3") /\ dropped' = PThreads \ {t} /\ alone' = Len(stages) + 1
       \/ (level[t] = 0 \/ boot = 0) /\ Moves(t, "t1") /\ UNCHANGED <<dropped, alone>>
    /\ UNCHANGED <<lone, boot, outVars, evil, lockVars, running, level, inint, budget, visits,
                   off>>

PrintStage(t) ==
    /\ Runs(t, "print") /\ Tried(3)
    /\ Locks(t) => kprintf_lock = NOBODY
    /\ Putch(t, "P", "t4")
    /\ UNCHANGED <<lone, alone, boot, evil, lockVars, running, level, inint, dropped, budget,
                   visits, off>>

(* vfs_sync: lock_acquire insists on a lock and on not being in a handler; *)
(* a file system may panic.                                                *)
SyncStage(t) ==
    /\ Runs(t, "sync")
    /\ boot < 2 \/ inint \/ knowndevs_lock = NOBODY
    /\ Tried(4)
    /\ \/ boot >= 2 /\ ~ inint /\ Moves(t, "t5")
       \/ Moves(t, "t1")
    /\ UNCHANGED <<lone, alone, boot, outVars, evil, lockVars, running, level, inint, dropped,
                   budget, visits, off>>

(* md_panic powers the machine off.                                        *)
OffStage(t) ==
    /\ Runs(t, "off") /\ off' = TRUE /\ Tried(5)
    /\ UNCHANGED <<lone, alone, boot, outVars, evil, lockVars, running, level, inint, place,
                   dropped, budget, visits>>

(* The thread sleeps in lock_acquire.                                      *)
Sleeps(t) ==
    \/ place[t] = "print" /\ Locks(t) /\ kprintf_lock # NOBODY
    \/ place[t] = "sync" /\ boot >= 2 /\ ~ inint /\ knowndevs_lock # NOBODY

SwitchTo(t) ==
    /\ ~ off /\ boot = 4 /\ t # running /\ t \notin dropped /\ ~ inint /\ ~ Sleeps(t)
    /\ level[running] = 0 \/ Sleeps(running)
    /\ running' = t
    /\ UNCHANGED <<lone, boot, outVars, evil, lockVars, level, inint, place, dropped, budget,
                   visits, stageVars, off>>

PanicStep(t) ==
    \/ \E k \in 1..5 : Test(t, k) \/ SetEvil(t, k)
    \/ SplStage(t) \/ KillStage(t) \/ PrintStage(t) \/ SyncStage(t) \/ OffStage(t)

PanicNext ==
    \/ Boot
    \/ \E t \in PThreads : \/ Say(t) \/ SayDone(t) \/ VfsEnter(t) \/ VfsLeave(t) \/ StartPanic(t)
                           \/ PanicStep(t) \/ SwitchTo(t)

PanicSpec == PanicInit /\ [][PanicNext]_panicVars

-----------------------------------------------------------------------------
From(n) == {i \in DOMAIN stages : i >= n}

(* When one thread panics, every stage of panic() is tried at most once    *)
(* and in order, whatever panics a stage runs into; and so are, whoever    *)
(* else has panicked, the stages that follow once a thread has dropped the *)
(* others.  (Before that a thread stopped between a test and its stage may *)
(* set evil back, and a stage may be tried again.)  Nothing printed is     *)
(* lost or reordered: the console has everything in order, and the delay   *)
(* buffer what came before it.                                             *)
PanicOrderly ==
    /\ lone \/ alone > 0 =>
          \A i, j \in From(IF lone THEN 1 ELSE alone) : i < j => stages[i] < stages[j]
    /\ said = shown \o delayed /\ Len(delayed) <= DELAYBUFSIZE

(* A panic powers the machine off, whatever its stages run into, unless    *)
(* knowndevs_lock is held: vfs_sync then waits for a thread that cannot    *)
(* run.  (For a single thread that panics by itself.)                      *)
PanicOver ==
    evil > 0 /\ lone => off \/ (knowndevs_lock # NOBODY /\ place[running] = "sync")
=============================================================================
