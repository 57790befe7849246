------------------------------ MODULE Console ------------------------------
(***************************************************************************)
(* The console: dev/generic/console.c over the serial port driver          *)
(* dev/lamebus/lser.c and the port itself.                                 *)
(*                                                                         *)
(* Threads print through putch, which waits for cs_wsem and hands one      *)
(* character to lser_write; the write-done interrupt V's cs_wsem.  Code    *)
(* running with interrupts off prints through lser_writepolled, which      *)
(* spins on the port.  A read-ready interrupt leaves its character in      *)
(* cs_gotchar and V's cs_rsem.  Semaphores and locks are the atomic ones   *)
(* of Monitor, which Synch implements.                                     *)
(*                                                                         *)
(* Every process makes at most one call: a user write or read is con_io, a *)
(* kernel writer is kprintf, a kernel reader getch.  Interrupts are on in  *)
(* all of them, so anything can happen between two of their steps.         *)
(***************************************************************************)
EXTENDS Naturals, Sequences

CONSTANTS
    UserWriter, KernelWriter, UserReader, KernelReader,  \* processes
    NULL,
    Callers,     \* sets of processes of which one makes its calls
    Text,        \* Text[w]: characters that w writes, "c" or "\n"
    Want,        \* uio_resid of a user read
    LineEnds,    \* those of the typed characters 1, 2, ... that are '\r'
    MaxTyped,    \* bound: characters typed
    MaxPolled,   \* bound: characters printed with interrupts off
    Paced        \* typing waits until the last character has been read

Writer == UserWriter \cup KernelWriter
Reader == UserReader \cup KernelReader
Lock == {"con_userlock_read", "con_userlock_write", "kprintf_lock"}

ASSUME ConsoleConstants ==
    /\ NULL \notin Writer \cup Reader /\ Writer \cap Reader = {}
    /\ UserWriter \cap KernelWriter = {} /\ UserReader \cap KernelReader = {}
    /\ Callers \subseteq SUBSET (Writer \cup Reader)
    /\ Text \in [Writer -> Seq({"c", "\n"})]
    /\ Want \in Nat \ {0} /\ MaxTyped \in Nat /\ MaxPolled \in Nat
    /\ Paced \in BOOLEAN

VARIABLES
    cs_wsem, cs_rsem,   \* counts of the semaphores
    cs_gotchar,         \* the last character received
    ls_wbusy,           \* a write is in progress, or its interrupt pending
    owner,              \* owner of each lock
    con_pc,                 \* where each process is
    pos,                \* characters of Text, or of a read, done
    pend,               \* what is left to putch of the current character
    polled,             \* where lser_writepolled is, if it runs
    irqpending,         \* its local variable
    npolled,            \* polled characters so far
    tx, rx,             \* port: sending; character received
    wactive, ractive,   \* port: ACTIVE bits of LSER_REG_WIRQ and RIRQ
    fault,              \* panic in lser_write, or port written while busy
    typed,              \* characters typed
    out, in             \* history: who printed, and who read what

conSemVars == <<cs_wsem, cs_rsem, cs_gotchar, ls_wbusy>>
procVars == <<owner, con_pc, pos, pend>>
polledVars == <<polled, irqpending, npolled>>
portVars == <<tx, rx, wactive, ractive, fault, typed>>
consoleVars == <<conSemVars, procVars, polledVars, portVars, out, in>>

ConsoleTypeOK ==
    /\ cs_wsem \in Nat /\ cs_rsem \in Nat
    /\ cs_gotchar \in 0..MaxTyped
    /\ ls_wbusy \in BOOLEAN /\ irqpending \in BOOLEAN
    /\ owner \in [Lock -> Writer \cup Reader \cup {NULL}]
    /\ con_pc \in [Writer \cup Reader -> {"lock", "loop", "putch", "send", "getch", "take", "done"}]
    /\ pos \in [Writer \cup Reader -> Nat]
    /\ pend \in [Writer -> Seq({"c", "\n", "\r"})]
    /\ polled \in {"no", "drain", "send", "wait"}
    /\ npolled \in 0..MaxPolled
    /\ tx \in {"idle", "busy"} /\ wactive \in BOOLEAN /\ ractive \in BOOLEAN
    /\ rx \in 0..MaxTyped /\ typed \in 0..MaxTyped
    /\ fault \in {"none", "panic", "overrun"}
    /\ out \in Seq([by : Writer \cup {NULL}, ch : {"c", "\n", "\r"}])
    /\ in \in Seq([by : Reader, ch : 0..MaxTyped])

ConsoleInit ==
    /\ cs_wsem = 1 /\ cs_rsem = 0 /\ cs_gotchar = 0
    /\ ls_wbusy = FALSE /\ irqpending = FALSE
    /\ owner = [l \in Lock |-> NULL]
    /\ \E callers \in Callers :
        con_pc = [p \in Writer \cup Reader |-> CASE p \notin callers    -> "done"
                                           [] p \in KernelReader -> "getch"
                                           [] OTHER              -> "lock"]
    /\ pos = [p \in Writer \cup Reader |-> 0]
    /\ pend = [w \in Writer |-> << >>]
    /\ polled = "no" /\ npolled = 0
    /\ tx = "idle" /\ rx = 0 /\ wactive = FALSE /\ ractive = FALSE
    /\ fault = "none" /\ typed = 0
    /\ out = << >> /\ in = << >>

-----------------------------------------------------------------------------
(* con_io picks one of two locks; kprintf has its own.                     *)
LockOf(p) ==
    CASE p \in UserReader -> "con_userlock_read"
      [] p \in UserWriter -> "con_userlock_write"
      [] OTHER            -> "kprintf_lock"

(* Threads and interrupt handlers wait while lser_writepolled runs, and    *)
(* for ever after a panic.                                                 *)
Running == polled = "no" /\ fault # "panic"

(* Fault: a semaphore or lock is taken whether it is free or not.          *)
NotTested(x) == TRUE

(* What P and lock_acquire wait for.                                       *)
Positive(count) == count > 0

Unlocked(lock) == owner[lock] = NULL

ConGoto(p, where) == con_pc' = [con_pc EXCEPT ![p] = where]

LockAcquire(p) ==
    /\ Running
    /\ con_pc[p] = "lock"
    /\ Unlocked(LockOf(p))
    /\ owner' = [owner EXCEPT ![LockOf(p)] = p]
    /\ ConGoto(p, IF p \in Writer THEN "loop" ELSE "getch")
    /\ UNCHANGED <<conSemVars, pos, pend, polledVars, portVars, out, in>>

(* lock_release and return.                                                *)
ConReturn(p) ==
    /\ owner' = [owner EXCEPT ![LockOf(p)] = NULL]
    /\ ConGoto(p, "done")

(* Characters handed to putch for one character of the caller's.           *)
Putches(w, ch) == IF w \in UserWriter /\ ch = "\n" THEN << "\r", ch >> ELSE << ch >>

(* The loop over uio_resid, or over the characters kprintf formats.        *)
NextChar(w) ==
    /\ Running
    /\ con_pc[w] = "loop"
    /\ pos[w] < Len(Text[w])
    /\ pos' = [pos EXCEPT ![w] = @ + 1]
    /\ pend' = [pend EXCEPT ![w] = Putches(w, Text[w][pos[w] + 1])]
    /\ ConGoto(w, "putch")
    /\ UNCHANGED <<conSemVars, owner, polledVars, portVars, out, in>>

(* All is written, or uiomove fails for a user's buffer.                   *)
WriteReturns(w) ==
    /\ Running
    /\ con_pc[w] = "loop"
    /\ pos[w] = Len(Text[w]) \/ w \in UserWriter
    /\ ConReturn(w)
    /\ UNCHANGED <<conSemVars, pos, pend, polledVars, portVars, out, in>>

(* putch_intr: P(cs_wsem) ...                                              *)
PutchWait(w) ==
    /\ Running
    /\ con_pc[w] = "putch"
    /\ Positive(cs_wsem)
    /\ cs_wsem' = cs_wsem - 1
    /\ ConGoto(w, "send")
    /\ UNCHANGED <<cs_rsem, cs_gotchar, ls_wbusy, owner, pos, pend, polledVars,
                   portVars, out, in>>

(* A write of LSER_REG_CHAR starts sending; the port is written while it   *)
(* is still sending only by mistake.                                       *)
PortSend(by, ch) ==
    /\ tx' = "busy"
    /\ fault' = IF tx = "busy" THEN "overrun" ELSE fault
    /\ out' = Append(out, [by |-> by, ch |-> ch])

(* ... and lser_write, which panics unless the port is clear.              *)
PutchSend(w) ==
    /\ Running
    /\ con_pc[w] = "send"
    /\ \/ /\ ls_wbusy
          /\ fault' = "panic"
          /\ UNCHANGED <<ls_wbusy, con_pc, pend, tx, out>>
       \/ /\ ~ ls_wbusy
          /\ ls_wbusy' = TRUE
          /\ PortSend(w, Head(pend[w]))
          /\ pend' = [pend EXCEPT ![w] = Tail(@)]
          /\ ConGoto(w, IF Len(pend[w]) = 1 THEN "loop" ELSE "putch")
    /\ UNCHANGED <<cs_wsem, cs_rsem, cs_gotchar, owner, pos, polledVars, rx,
                   wactive, ractive, typed, in>>

-----------------------------------------------------------------------------
(* lser_writepolled, called by an interrupt handler or by code at splhigh, *)
(* drains a write in progress first ...                                    *)
PolledCall ==
    /\ Running
    /\ npolled < MaxPolled
    /\ npolled' = npolled + 1
    /\ irqpending' = ls_wbusy
    /\ polled' = IF ls_wbusy THEN "drain" ELSE "send"
    /\ UNCHANGED <<conSemVars, procVars, portVars, out, in>>

PolledDrained ==
    /\ polled = "drain"
    /\ wactive
    /\ wactive' = FALSE
    /\ polled' = "send"
    /\ UNCHANGED <<conSemVars, procVars, irqpending, npolled, tx, rx, ractive, fault,
                   typed, out, in>>

PolledSend ==
    /\ polled = "send"
    /\ PortSend(NULL, "c")
    /\ polled' = "wait"
    /\ UNCHANGED <<conSemVars, procVars, irqpending, npolled, rx, wactive, ractive,
                   typed, in>>

(* Fault: the ready condition is always cleared.                           *)
ClearedActive == FALSE

(* ... and leaves the ready condition if there was a write to complete.    *)
LeftActive == irqpending

PolledReturn ==
    /\ polled = "wait"
    /\ wactive
    /\ wactive' = LeftActive
    /\ polled' = "no"
    /\ UNCHANGED <<conSemVars, procVars, irqpending, npolled, tx, rx, ractive, fault,
                   typed, out, in>>

-----------------------------------------------------------------------------
(* getch: P(cs_rsem) ...                                                   *)
GetchWait(r) ==
    /\ Running
    /\ con_pc[r] = "getch"
    /\ Positive(cs_rsem)
    /\ cs_rsem' = cs_rsem - 1
    /\ ConGoto(r, "take")
    /\ UNCHANGED <<cs_wsem, cs_gotchar, ls_wbusy, owner, pos, pend, polledVars,
                   portVars, out, in>>

(* ... and cs_gotchar as it is by then.  A user read goes on until the end *)
(* of the line, of the buffer, or a uiomove that fails.                    *)
GetchTakes(r) ==
    /\ Running
    /\ con_pc[r] = "take"
    /\ in' = Append(in, [by |-> r, ch |-> cs_gotchar])
    /\ pos' = [pos EXCEPT ![r] = @ + 1]
    /\ \/ r \in KernelReader /\ ConGoto(r, "done") /\ UNCHANGED owner
       \/ r \in UserReader /\ ConReturn(r)
       \/ /\ r \in UserReader
          /\ pos[r] + 1 < Want /\ cs_gotchar \notin LineEnds
          /\ ConGoto(r, "getch")
          /\ UNCHANGED owner
    /\ UNCHANGED <<conSemVars, pend, polledVars, portVars, out>>

-----------------------------------------------------------------------------
(* The port, concurrent with everything: a character has been sent, ...    *)
PortSent ==
    /\ tx = "busy"
    /\ tx' = "idle"
    /\ wactive' = TRUE
    /\ UNCHANGED <<conSemVars, procVars, polledVars, rx, ractive, fault, typed, out, in>>

(* ... or has been received, replacing one that was not fetched.           *)
PortReceived ==
    /\ typed < MaxTyped
    /\ Paced => Len(in) = typed
    /\ typed' = typed + 1
    /\ rx' = typed + 1
    /\ ractive' = TRUE
    /\ UNCHANGED <<conSemVars, procVars, polledVars, tx, wactive, fault, out, in>>

(* lser_irq, with con_start and con_input.                                 *)
LserIrq ==
    /\ Running
    /\ wactive \/ ractive
    /\ ls_wbusy' = (ls_wbusy /\ ~ wactive)
    /\ cs_wsem' = IF wactive THEN cs_wsem + 1 ELSE cs_wsem
    /\ wactive' = FALSE
    /\ cs_gotchar' = IF ractive THEN rx ELSE cs_gotchar
    /\ cs_rsem' = IF ractive THEN cs_rsem + 1 ELSE cs_rsem
    /\ ractive' = FALSE
    /\ UNCHANGED <<procVars, polledVars, tx, rx, fault, typed, out, in>>

PolledStep == PolledDrained \/ PolledSend \/ PolledReturn

WriterStep(w) ==
    LockAcquire(w) \/ NextChar(w) \/ WriteReturns(w) \/ PutchWait(w) \/ PutchSend(w)

ReaderStep(r) == LockAcquire(r) \/ GetchWait(r) \/ GetchTakes(r)

ConsoleNext ==
    \/ \E w \in Writer : WriterStep(w)
    \/ \E r \in Reader : ReaderStep(r)
    \/ PolledCall \/ PolledStep
    \/ PortSent \/ PortReceived \/ LserIrq

ConsoleSpec == ConsoleInit /\ [][ConsoleNext]_consoleVars

-----------------------------------------------------------------------------
(* lser_write's panic, "This should not happen. It's the job of the driver *)
(* attached to us", does not happen, and no character is sent while        *)
(* another is still going out, whatever printing with interrupts off comes *)
(* in between.                                                             *)
LineIsClear == fault = "none"

(* There is one permit to write: it is in cs_wsem, with a thread that is   *)
(* about to send, or with the port, until its interrupt has been handled.  *)
OnePermit ==
    /\ cs_wsem + (IF ls_wbusy THEN 1 ELSE 0)
       + (IF \E w \in Writer : con_pc[w] = "send" THEN 1 ELSE 0) = 1
    /\ \A v, w \in Writer : con_pc[v] = "send" /\ con_pc[w] = "send" => v = w
    /\ ls_wbusy /\ polled = "no" => tx = "busy" \/ wactive
    /\ wactive \/ tx = "busy" => ls_wbusy \/ polled # "no"

(* "Lock so user I/Os are atomic": between two characters of one call no   *)
(* other call under the same lock prints, or reads, a character.  getch    *)
(* takes no lock.                                                          *)
Interrupted(s) ==
    \E i, j, k \in DOMAIN s :
        /\ i < j /\ j < k
        /\ s[i].by = s[k].by /\ s[j].by # s[i].by
        /\ s[i].by \in Writer \cup UserReader /\ s[j].by \in Writer \cup UserReader
        /\ LockOf(s[i].by) = LockOf(s[j].by)

IOIsAtomic == ~ Interrupted(out) /\ ~ Interrupted(in)

(* What is typed no faster than it is read arrives once each, in order.    *)
InputInOrder == Paced => \A i \in DOMAIN in : in[i].ch = i

(* The console: there is one permit to write, nothing is written to a port *)
(* that is busy, user reads and writes are atomic, and input arrives once  *)
(* each, in order (console.c, lser.c).                                     *)
ConsoleSound == ConsoleTypeOK /\ LineIsClear /\ OnePermit /\ IOIsAtomic /\ InputInOrder
=============================================================================
