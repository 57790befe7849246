----------------------------- MODULE Interrupts -----------------------------
(***************************************************************************)
(* Interrupts on the uniprocessor: the LAMEbus slots and their handlers    *)
(* (dev/lamebus/lamebus.c, the attach routines, ltimer.c), the trap        *)
(* entry and exit of mips_trap and mips_interrupt, curspl against the      *)
(* processor's own enable bit, and the context switches hardclock makes    *)
(* from inside a handler (md_switch carries in_interrupt in the pcb).      *)
(*                                                                         *)
(* Every thread has a stack of frames: "trap" and "irq" for the            *)
(* activations of mips_trap, "sect" for a piece of code between splhigh    *)
(* and splx.  The boot thread configures the bus before it forks.          *)
(***************************************************************************)
EXTENDS Integers, Sequences, FiniteSets, FiniteSetsExt

CONSTANTS
    IThread, BootThread, NOTHREAD,
    NSlots,       \* LB_NSLOTS; the last slot is the controller's
    Card,         \* what sits in each slot: [did, drl], did "none" if nothing
    AutoConf,     \* the drivers in the order autoconf_lamebus tries them
    MaxDuds,      \* 10000 in the code
    MaxStrays     \* bound: interrupts with no line up, and lines of no driver

ASSUME InterruptsConstants ==
    /\ BootThread \in IThread /\ NOTHREAD \notin IThread
    /\ NSlots \in Nat \ {0} /\ MaxDuds \in Nat /\ MaxStrays \in Nat
    /\ DOMAIN Card = 0..(NSlots - 1)

Slots == 0..(NSlots - 1)
Controller == NSlots - 1             \* LB_CONTROLLER_SLOT
LOW == 0
HIGH == 1

VARIABLES
    ispl, ie,        \* curspl; IEc of the status register
    in_interrupt, pcb_ininterrupt,
    running,         \* curthread
    cpu,             \* whose stack the processor is on
    rqueue, asleep,  \* runqueue; sleepers
    stack,
    lines,           \* slots whose interrupt line is up
    slotsinuse, irqfunc, haveclock,
    conf,            \* autoconf: next driver, and the slot it is attaching
    duds, strays, busPanic

busVars == <<slotsinuse, irqfunc, haveclock, conf>>
cpuVars == <<ispl, ie, in_interrupt, pcb_ininterrupt, running, cpu, rqueue, asleep, stack>>
intVars == <<cpuVars, busVars, lines, duds, strays, busPanic>>

(* start.S and kmain come in with interrupts off; lamebus_init marks the   *)
(* controller; machdep_dev_bootstrap then turns interrupts on.             *)
InterruptsInit ==
    /\ ispl = LOW /\ ie = TRUE
    /\ in_interrupt = 0 /\ pcb_ininterrupt = [t \in IThread |-> 0]
    /\ running = BootThread /\ cpu = BootThread
    /\ rqueue = << >> /\ asleep = {}
    /\ stack = [t \in IThread |-> << >>]
    /\ lines = {} /\ slotsinuse = {Controller}
    /\ irqfunc = [s \in Slots |-> "none"] /\ haveclock = FALSE
    /\ conf = [next |-> 1, slot |-> -1]
    /\ duds = 0 /\ strays = 0 /\ busPanic = FALSE

-----------------------------------------------------------------------------
Top(t) == IF stack[t] = << >> THEN [kind |-> "none"] ELSE stack[t][Len(stack[t])]
Push(f) == stack' = [stack EXCEPT ![cpu] = Append(@, f)]
Pop == stack' = [stack EXCEPT ![cpu] = SubSeq(@, 1, Len(@) - 1)]
ReplaceTop(f) == stack' = [stack EXCEPT ![cpu] = [@ EXCEPT ![Len(@)] = f]]

InHandler == Top(cpu).kind = "irq" /\ (running # NOTHREAD \/ Top(cpu).idle)
InScheduler == running = NOTHREAD /\ ~ InHandler
InThread(t) == ~ busPanic /\ running = t /\ ~ InHandler
Configured == conf.next > Len(AutoConf)

-----------------------------------------------------------------------------
(* lamebus_probe: the first slot not in use with the device and a revision *)
(* the driver supports.                                                    *)
Matches(d, s) == /\ Card[s].did = d.did
                 /\ d.low <= Card[s].drl /\ Card[s].drl <= d.high

Probe(d) == {s \in Slots \ slotsinuse : Matches(d, s)}

(* The attach routines: the device and revisions each one looks for, and   *)
(* whether it hooks the interrupt.  lnet only says that it found one.      *)
attach_emu == [did |-> "emufs", low |-> 1, high |-> 1, irq |-> TRUE, marks |-> TRUE]
attach_ltrace == [did |-> "trace", low |-> 1, high |-> 1, irq |-> FALSE, marks |-> TRUE]
attach_ltimer == [did |-> "timer", low |-> 1, high |-> 1, irq |-> TRUE, marks |-> TRUE]
attach_lrandom == [did |-> "random", low |-> 1, high |-> 1, irq |-> FALSE, marks |-> TRUE]
attach_lhd == [did |-> "disk", low |-> 2, high |-> 2, irq |-> TRUE, marks |-> TRUE]
attach_lser == [did |-> "serial", low |-> 1, high |-> 1, irq |-> TRUE, marks |-> TRUE]
attach_lscreen == [did |-> "screen", low |-> 1, high |-> 1, irq |-> TRUE, marks |-> TRUE]
attach_lnet == [did |-> "net", low |-> 1, high |-> 1, irq |-> FALSE, marks |-> FALSE]

(* autoconf_lamebus, generated by the config script: each attach routine   *)
(* until it finds no device.                                               *)
Attach ==
    LET d == AutoConf[conf.next]
        found == Probe(d)
    IN  /\ InThread(BootThread) /\ ~ Configured /\ conf.slot = -1
        /\ conf' = IF found = {} \/ ~ d.marks THEN [next |-> conf.next + 1, slot |-> -1]
                   ELSE [conf EXCEPT !.slot = Min(found)]
        /\ UNCHANGED <<cpuVars, slotsinuse, irqfunc, haveclock, lines, duds, strays, busPanic>>

(* lamebus_mark panics at a slot in use; lamebus_attach_interrupt asserts  *)
(* that it has no handler yet; config_ltimer makes the first timer the     *)
(* clock.                                                                  *)
LamebusMark(s) == slotsinuse' = slotsinuse \cup {s}
LamebusAttachInterrupt(s, func) == irqfunc' = [irqfunc EXCEPT ![s] = func]
ConfigLtimer(d) == haveclock' = (haveclock \/ d.did = "timer")

MarkAndHook ==
    LET d == AutoConf[conf.next]
        s == conf.slot
    IN  /\ InThread(BootThread) /\ ~ Configured /\ s >= 0
        /\ busPanic' = (s \in slotsinuse \/ irqfunc[s] # "none")
        /\ LamebusMark(s)
        /\ LamebusAttachInterrupt(s, IF d.did = "timer" /\ ~ haveclock THEN "hardclock"
                                     ELSE IF d.irq THEN d.did ELSE "none")
        /\ ConfigLtimer(d)
        /\ conf' = [conf EXCEPT !.slot = -1]
        /\ UNCHANGED <<cpuVars, lines, duds, strays>>

(* thread_fork, once the bus is configured.                                *)
IFork(t) ==
    /\ InThread(BootThread) /\ Configured
    /\ t # BootThread /\ stack[t] = << >> /\ t \notin asleep \cup Range(rqueue)
    /\ rqueue' = Append(rqueue, t)
    /\ stack' = [stack EXCEPT ![t] = <<[kind |-> "new"]>>]
    /\ UNCHANGED <<ispl, ie, in_interrupt, pcb_ininterrupt, running, cpu, asleep, busVars, lines,
                   duds, strays, busPanic>>

-----------------------------------------------------------------------------
(* splhigh and splx around a piece of kernel code.  splx sets the enable   *)
(* bit from the new level.                                                 *)
SplHigh(t) ==
    /\ InThread(t) /\ Configured /\ Top(t).kind # "sect"
    /\ Push([kind |-> "sect", spl |-> ispl, gave |-> FALSE])
    /\ ispl' = HIGH /\ ie' = FALSE
    /\ UNCHANGED <<in_interrupt, pcb_ininterrupt, running, cpu, rqueue, asleep, busVars, lines,
                   duds, strays, busPanic>>

SplX(t) ==
    /\ InThread(t) /\ Top(t).kind = "sect"
    /\ ispl' = Top(t).spl /\ ie' = (Top(t).spl = LOW)
    /\ Pop
    /\ UNCHANGED <<in_interrupt, pcb_ininterrupt, running, cpu, rqueue, asleep, busVars, lines,
                   duds, strays, busPanic>>

(* mips_trap for a system call or a fault: the level of the code that      *)
(* trapped is kept; it and the enable bit come back at the end.            *)
TrapEnter(t) ==
    /\ InThread(t) /\ Configured /\ stack[t] = << >>
    /\ Push([kind |-> "trap", spl |-> ispl, ie |-> ie])
    /\ ie' = (ispl = LOW)                            \* splx(savespl)
    /\ UNCHANGED <<ispl, in_interrupt, pcb_ininterrupt, running, cpu, rqueue, asleep, busVars,
                   lines, duds, strays, busPanic>>

TrapExit(t) ==
    /\ InThread(t) /\ Top(t).kind = "trap"
    /\ ispl' = Top(t).spl /\ ie' = Top(t).ie
    /\ Pop
    /\ UNCHANGED <<in_interrupt, pcb_ininterrupt, running, cpu, rqueue, asleep, busVars, lines,
                   duds, strays, busPanic>>

-----------------------------------------------------------------------------
(* mi_switch, first half: thread_yield switches once between splhigh and   *)
(* splx, thread_sleep may be in a loop.                                    *)
IYield(t) ==
    /\ InThread(t) /\ Top(t).kind = "sect" /\ ~ Top(t).gave
    /\ ReplaceTop([Top(t) EXCEPT !.gave = TRUE])
    /\ rqueue' = Append(rqueue, t) /\ running' = NOTHREAD
    /\ UNCHANGED <<ispl, ie, in_interrupt, pcb_ininterrupt, cpu, asleep, busVars, lines,
                   duds, strays, busPanic>>

ISleep(t) ==
    /\ InThread(t) /\ Top(t).kind = "sect"
    /\ busPanic' = (in_interrupt # 0)                \* assert
    /\ asleep' = asleep \cup {t} /\ running' = NOTHREAD
    /\ UNCHANGED <<ispl, ie, in_interrupt, pcb_ininterrupt, cpu, rqueue, stack, busVars, lines,
                   duds, strays>>

(* Fault: md_switch leaves in_interrupt to the next thread.                *)
MdSwitchForgets(t) ==
    UNCHANGED <<pcb_ininterrupt, in_interrupt>>

(* md_switch: in_interrupt goes to the old pcb and comes from the new one; *)
(* switching to oneself does nothing.                                      *)
MdSwitch(t) ==
    IF t = cpu THEN UNCHANGED <<pcb_ininterrupt, in_interrupt>>
    ELSE /\ pcb_ininterrupt' = [pcb_ininterrupt EXCEPT ![cpu] = in_interrupt]
         /\ in_interrupt' = pcb_ininterrupt[t]

(* mi_switch, second half.  A new thread leaves through mi_threadstart,    *)
(* which calls spl0.                                                       *)
Dispatch(t) ==
    LET new == Top(t).kind = "new"
    IN  /\ ~ busPanic /\ InScheduler /\ rqueue # << >> /\ t = Head(rqueue)
        /\ rqueue' = Tail(rqueue)
        /\ running' = t /\ cpu' = t
        /\ MdSwitch(t)
        /\ stack' = IF new THEN [stack EXCEPT ![t] = << >>] ELSE stack
        /\ ispl' = (IF new THEN LOW ELSE HIGH) /\ ie' = new
        /\ UNCHANGED <<asleep, busVars, lines, duds, strays, busPanic>>

-----------------------------------------------------------------------------
(* A device raises its line: one that a driver has configured, or a card   *)
(* nobody drives.                                                          *)
Raise(s) ==
    /\ ~ busPanic /\ s \notin lines /\ Card[s].did # "none"
    /\ \/ irqfunc[s] # "none" /\ UNCHANGED strays
       \/ Configured /\ irqfunc[s] = "none" /\ strays < MaxStrays /\ strays' = strays + 1
    /\ lines' = lines \cup {s}
    /\ UNCHANGED <<cpuVars, busVars, duds, busPanic>>

(* The line of a card nobody drives may go down by itself.                 *)
Subside(s) ==
    /\ ~ busPanic /\ s \in lines /\ irqfunc[s] = "none"
    /\ lines' = lines \ {s}
    /\ UNCHANGED <<cpuVars, busVars, duds, strays, busPanic>>

(* The exception, mips_trap and mips_interrupt, up to reading CTLREG_IRQS. *)
(* In cpu_idle the bit is on for a moment only, at the high level.         *)
TakeInterrupt(irqs) ==
    /\ ~ busPanic /\ (ie \/ (InScheduler /\ rqueue = << >>))
    /\ Push([kind |-> "irq", spl |-> ispl, ie |-> ie, oldin |-> in_interrupt,
             idle |-> running = NOTHREAD, pos |-> IF irqs = {} THEN NSlots ELSE 0, irqs |-> irqs,
             duds |-> IF irqs = {} THEN 1 ELSE 0, stray |-> irqs = {}, reload |-> FALSE])
    /\ ispl' = HIGH /\ ie' = FALSE /\ in_interrupt' = 1
    /\ UNCHANGED <<pcb_ininterrupt, running, cpu, rqueue, asleep, busVars, lines, busPanic>>

Interrupt ==
    /\ lines # {}
    /\ TakeInterrupt(lines) /\ UNCHANGED <<duds, strays>>

(* None of them?  Must be a glitch.                                        *)
Stray ==
    /\ lines = {} /\ strays < MaxStrays
    /\ TakeInterrupt({})
    /\ strays' = strays + 1 /\ duds' = duds + 1

(* The loop of lamebus_interrupt goes to the next slot up in irqs.         *)
Pending == {s \in Top(cpu).irqs : s >= Top(cpu).pos}
AtSlot(s) == ~ busPanic /\ InHandler /\ ~ Top(cpu).reload /\ Pending # {} /\ s = Min(Pending)

Dud(s) ==
    /\ AtSlot(s) /\ (s \notin slotsinuse \/ irqfunc[s] = "none")
    /\ ReplaceTop([Top(cpu) EXCEPT !.pos = s + 1, !.duds = @ + 1])
    /\ duds' = duds + 1
    /\ UNCHANGED <<ispl, ie, in_interrupt, pcb_ininterrupt, running, cpu, rqueue, asleep, busVars,
                   lines, strays, busPanic>>

(* The handler clears the condition in its device; the mask is read again. *)
Handle(s) ==
    /\ AtSlot(s) /\ s \in slotsinuse /\ irqfunc[s] \notin {"none", "hardclock"}
    /\ lines' = lines \ {s}
    /\ ReplaceTop([Top(cpu) EXCEPT !.pos = s + 1, !.irqs = lines \ {s}])
    /\ IF irqfunc[s] = "disk"           \* V on what the threads wait for
       THEN \E q \in [1..Cardinality(asleep) -> asleep] :
                /\ Range(q) = asleep /\ rqueue' = rqueue \o q /\ asleep' = {}
       ELSE UNCHANGED <<rqueue, asleep>>
    /\ UNCHANGED <<ispl, ie, in_interrupt, pcb_ininterrupt, running, cpu, busVars, duds, strays,
                   busPanic>>

(* ltimer_irq calls hardclock, and that thread_yield: with curthread NULL  *)
(* (the idle loop) mi_switch returns at once, otherwise much can happen    *)
(* before it does.                                                         *)
Hardclock(s) ==
    /\ AtSlot(s) /\ s \in slotsinuse /\ irqfunc[s] = "hardclock"
    /\ lines' = lines \ {s}
    /\ ReplaceTop([Top(cpu) EXCEPT !.pos = s + 1, !.reload = TRUE])
    /\ IF Top(cpu).idle THEN UNCHANGED <<rqueue, running>>
       ELSE rqueue' = Append(rqueue, cpu) /\ running' = NOTHREAD
    /\ UNCHANGED <<ispl, ie, in_interrupt, pcb_ininterrupt, cpu, asleep, busVars, duds, strays,
                   busPanic>>

(* Fault: the mask read before hardclock is used after it.                 *)
ReloadStale(f) == [f EXCEPT !.reload = FALSE]

Reload(f) == [f EXCEPT !.reload = FALSE, !.irqs = lines]

(* Back in the loop after hardclock: the mask is read again.               *)
Resume ==
    /\ ~ busPanic /\ InHandler /\ Top(cpu).reload
    /\ ReplaceTop(Reload(Top(cpu)))
    /\ UNCHANGED <<ispl, ie, in_interrupt, pcb_ininterrupt, running, cpu, rqueue, asleep, busVars,
                   lines, duds, strays, busPanic>>

ExitLevel(f) == ispl' = f.spl /\ ie' = f.ie

(* The end of lamebus_interrupt, mips_interrupt and mips_trap.  A stray    *)
(* interrupt has returned before the test of duds.                         *)
InterruptExit ==
    LET f == Top(cpu)
    IN  /\ ~ busPanic /\ InHandler /\ ~ f.reload /\ Pending = {}
        /\ duds' = IF ~ f.stray /\ f.duds = 0 THEN 0 ELSE duds
        /\ busPanic' = (~ f.stray /\ duds' > MaxDuds)
        /\ in_interrupt' = f.oldin /\ ExitLevel(f)
        /\ Pop
        /\ UNCHANGED <<pcb_ininterrupt, running, cpu, rqueue, asleep, busVars, lines, strays>>

InterruptsNext ==
    \/ Attach \/ MarkAndHook
    \/ \E t \in IThread : \/ IFork(t) \/ SplHigh(t) \/ SplX(t) \/ TrapEnter(t) \/ TrapExit(t)
                          \/ IYield(t) \/ ISleep(t) \/ Dispatch(t)
    \/ \E s \in Slots : Raise(s) \/ Subside(s) \/ Dud(s) \/ Handle(s) \/ Hardclock(s)
    \/ Interrupt \/ Stray \/ Resume \/ InterruptExit

-----------------------------------------------------------------------------
(* The interrupt state is what the code that runs believes: in a thread,   *)
(* interrupts are enabled exactly when curspl is 0; in_interrupt is set    *)
(* exactly when the processor is in a handler, and every thread switched   *)
(* out by hardclock finds it set again when it comes back, one that went   *)
(* by itself finds it clear; nothing panics but a card nobody drives.      *)
SplSound ==
    /\ ~ busPanic /\ running # NOTHREAD /\ ~ InHandler =>
          ie = (ispl = LOW) /\ (Top(cpu).kind = "sect" <=> ispl = HIGH)
    /\ InHandler \/ running = NOTHREAD => ispl = HIGH /\ ~ ie
    /\ ~ busPanic => in_interrupt = (IF Top(cpu).kind = "irq" THEN 1 ELSE 0)
    /\ \A t \in IThread \ {cpu} : pcb_ininterrupt[t] = (IF Top(t).kind = "irq" THEN 1 ELSE 0)
    /\ busPanic => duds > MaxDuds

(* Every handler belongs to a marked slot with a card its driver supports, *)
(* there is one clock, and lamebus_interrupt calls a handler only while    *)
(* the line of its slot is up, whatever ran during hardclock.              *)
HandlersSound ==
    /\ \A s \in Slots : irqfunc[s] # "none" =>
          s \in slotsinuse \ {Controller} /\ (irqfunc[s] = "hardclock" \/ irqfunc[s] = Card[s].did)
    /\ Cardinality({s \in Slots : irqfunc[s] = "hardclock"}) <= 1
    /\ InHandler /\ ~ Top(cpu).reload =>
          \A s \in Pending : irqfunc[s] # "none" => s \in lines

(* "Because irqs==0, nothing in the loop will execute, and passing through *)
(* it gets us to the code that checks how many duds we've seen": once the  *)
(* interrupt is over, the system has panicked if there were too many.      *)
DudsArePanic == duds > MaxDuds /\ ~ InHandler => busPanic
=============================================================================
