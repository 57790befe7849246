----------------------------- MODULE MCThreads -----------------------------
(* The thread system: scheduling with three thread structures and two      *)
(* clock ticks to the second, the room in its tables for nine threads (a   *)
(* run queue of 4 slots instead of 32, arrays freed on emptying above 5    *)
(* entries instead of 16), and the ring that is its run queue, of every    *)
(* initial size from 1 to 7.  A behaviour is one of the parts.             *)
EXTENDS Threads, ThreadTables, Queue

CONSTANTS t1, t2, t3, a, b

VARIABLE part

allVars == <<part, vars, tableVars, queueVars>>

AllInit ==
    /\ part \in {"threads", "tables", "queue"}
    /\ Init /\ TablesInit /\ QueueInit
    /\ part # "queue" => size = 1

OnlyThreads ==
    part = "threads" /\ UNCHANGED <<part, tableVars, queueVars>>
OnlyTables ==
    part = "tables" /\ UNCHANGED <<part, vars, queueVars>>
OnlyQueue ==
    part = "queue" /\ UNCHANGED <<part, vars, tableVars>>

(* A failed assertion stops the kernel.                                    *)
Stopped == part = "tables" /\ failed # "none" /\ UNCHANGED allVars

AllNext ==
    \/ OnlyThreads /\ Next
    \/ OnlyTables /\ TablesNext
    \/ OnlyQueue /\ QueueNext
    \/ Stopped

(* The code that runs with interrupts off runs on; the timer is reloaded   *)
(* for ever and its interrupt line stays up until it is taken, so a clock  *)
(* interrupt that is possible again and again is taken.                    *)
AllSpec ==
    /\ AllInit /\ [][AllNext]_allVars
    /\ WF_vars(part = "threads" /\ Dispatch)
    /\ WF_vars(part = "threads" /\ ClockSleepLoop)
    /\ WF_vars(part = "threads" /\ ClockSleepReturn)
    /\ SF_vars(part = "threads" /\ Hardclock)

-----------------------------------------------------------------------------
(* The lists of thread.c and their storage: every thread is in exactly one *)
(* place, the current one, the run queue, sleepers[] or zombies[], that    *)
(* agrees with its state, and what the run queue needs to take every       *)
(* sleeper that wakes at once is there.                                    *)
ListsSound == /\ TypeOK /\ TablesTypeOK /\ QueueTypeOK
              /\ EachThreadInOnePlace /\ WakeupFits
=============================================================================
