----------------------------- MODULE MCDrivers -----------------------------
(* Device drivers: the console on the serial port, the disk, the emulator  *)
(* file system's device, and the bus that brings their interrupts.  A      *)
(* behaviour is one of the parts.                                          *)
EXTENDS Console, MCDiskIO, Emu, MCInterrupts

CONSTANTS w1, w2, k1, r1, r2, g1, e1, e2

(* Output: two user writers and a kprintf, with a character printed with   *)
(* interrupts off at any moment.  Input: two user readers and a getch.     *)
(* The two directions share nothing but lser_irq.                          *)
MCCallers == {{w1, w2, k1}, {r1, r2, g1}}
MCText == w1 :> << "c", "\n" >> @@ w2 :> << "c" >> @@ k1 :> << "c" >>

VARIABLE part

allVars == <<part, consoleVars, diskVars, emuVars, intVars>>

AllInit ==
    /\ part \in {"console", "disk", "emu", "bus"}
    /\ ConsoleInit /\ DiskInit /\ EmuInit /\ InterruptsInit
    /\ part # "console" => con_pc[g1] = "done"
    /\ part # "disk" => op = RawWrites

OnlyConsole ==
    part = "console" /\ UNCHANGED <<part, diskVars, emuVars, intVars>>
OnlyDisk ==
    part = "disk" /\ UNCHANGED <<part, consoleVars, emuVars, intVars>>
OnlyEmu ==
    part = "emu" /\ UNCHANGED <<part, consoleVars, diskVars, intVars>>
OnlyBus ==
    part = "bus" /\ UNCHANGED <<part, consoleVars, diskVars, emuVars>>

AllNext ==
    \/ OnlyConsole /\ ConsoleNext
    \/ OnlyDisk /\ DiskNext
    \/ OnlyEmu /\ EmuNext
    \/ OnlyBus /\ InterruptsNext

(* A step of one part leaves the variables of the others alone, so what is *)
(* fair for a part speaks of its own variables only.                       *)
Of(p) == part = p /\ UNCHANGED part
partVars ==
    CASE part = "console" -> consoleVars [] part = "disk" -> diskVars
      [] part = "emu" -> emuVars [] part = "bus" -> intVars

(* At the console and the disk, where each thread makes a few requests,    *)
(* threads are scheduled and get the semaphore they wait for (strong);     *)
(* requests to the emulator have no end and lock_release hands e_lock to   *)
(* nobody, so there some thread that can go on does (weak).  Devices       *)
(* finish what they were told to do, and an interrupt line stays up until  *)
(* it is taken, which happens when interrupts are on, however short a time *)
(* that is (strong); polled output, handlers, code at splhigh and the      *)
(* scheduler go on.                                                        *)
AllSpec ==
    /\ AllInit /\ [][AllNext]_allVars
    /\ SF_partVars(\/ Of("console") /\ WriterStep(w1)
                   \/ Of("disk") /\ ThreadStep(dr)
                   \/ Of("bus") /\ Interrupt)
    /\ SF_partVars(\/ Of("console") /\ WriterStep(w2)
                   \/ Of("disk") /\ ThreadStep(dw))
    /\ SF_partVars(\/ Of("console") /\ WriterStep(k1)
                   \/ Of("disk") /\ ThreadStep(dd))
    /\ SF_partVars(Of("console") /\ LserIrq)
    /\ WF_partVars(\/ Of("console") /\ PolledStep
                   \/ Of("disk") /\ (CardFinishes \/ CardFails)
                   \/ Of("emu") /\ DeviceDone
                   \/ Of("bus") /\ \E t \in IThread : SplX(t))
    /\ WF_partVars(\/ Of("console") /\ PortSent
                   \/ Of("disk") /\ LhdIrq
                   \/ Of("emu") /\ EmuIrq
                   \/ Of("bus") /\ \E t \in IThread : Dispatch(t))
    /\ WF_partVars(\/ Of("emu") /\ \E t \in EThread : EmuStep(t)
                   \/ /\ Of("bus") /\ InHandler
                      /\ \/ Resume \/ InterruptExit
                         \/ \E s \in Pending : Dud(s) \/ Handle(s) \/ Hardclock(s))

-----------------------------------------------------------------------------
(* A thread ends one request after another: it may have e_lock back each   *)
(* time before the other thread runs.                                      *)
Overtakes(t) == []<><<part = "emu" /\ epc[t] # "idle" /\ epc'[t] = "idle">>_allVars

(* Nothing that was begun hangs.  Every write to the console completes, no *)
(* write-done interrupt being lost to polled output (lser.c); every disk   *)
(* request returns (lhd.c); a thread's requests to the emulator end, again *)
(* and again, unless those of the other thread do (emu.c; by symmetry for  *)
(* either thread); and the disk's interrupt line goes down again whatever  *)
(* the timer in the slot before it does, unless duds of other cards stop   *)
(* the system (lamebus.c).                                                 *)
RequestsFinish ==
    \/ []<>(/\ part = "console" => \A c \in Writer : con_pc[c] = "done"
            /\ part = "disk" => \A t \in Thread : disk_pc[t] = "done"
            /\ part = "emu" => epc[e1] = "idle"
            /\ part = "bus" => irqfunc[1] = "none" \/ 1 \notin lines \/ busPanic)
    \/ Overtakes(e2)

(* Interrupt levels and handler tables are sound (spl.c, lamebus.c): what  *)
(* the running code believes of curspl and in_interrupt is so, through     *)
(* nested switches, and no handler is called for a line that is down.      *)
BusSound == part = "bus" => SplSound /\ HandlersSound

(* Emulator handles are closed once each, and only one request is on the   *)
(* device (emu.c).                                                         *)
EmuSound == part = "emu" => HandlesExact /\ OneRequest
=============================================================================
