-------------------------------- MODULE Emu ---------------------------------
(***************************************************************************)
(* The emulator file system (dev/lamebus/emu.c): the register handshake    *)
(* with the device under e_lock, its interrupt, the table of vnodes, and   *)
(* the handles the device has open for them.                               *)
(*                                                                         *)
(* The device is external.  It performs the operation in its registers,    *)
(* puts the outcome in REG_RESULT and interrupts; every open hands out a   *)
(* handle not in use, and an operation on a handle that is not open gives  *)
(* EMU_RES_BADHANDLE, which makes the driver panic.  A vnode is known by   *)
(* its handle.  A transfer goes in pieces of EMU_MAXIO bytes, here 1.      *)
(***************************************************************************)
EXTENDS Integers, FiniteSets, Sequences

CONSTANTS
    EThread, NONE,
    Handles,      \* handles the device has besides the root's
    MaxFile,      \* bound: bytes in the one file
    MaxEmuErrors,    \* bound: operations that fail, and allocations
    MaxRetries    \* 10 in the code

RootHandle == 0                      \* EMU_ROOTHANDLE
AnyHandle == Handles \cup {RootHandle}
FileOps == {"read", "write", "getsize", "trunc"}

VARIABLES
    regs,       \* the device: who asked, operation, handle, offset
    openHandles,     \* handles the device has open
    filedata,   \* the file: who wrote each byte
    irq,        \* outcome the device is interrupting with, or NONE
    eresult, esem, elock,      \* e_result, count of e_sem, holder of e_lock
    vtab,       \* ef_vnodes: reference count of each vnode, 0 if none
    myvnode,    \* the vnode a thread has
    epc, eop,   \* where each thread is; its operation
    emuErrors, emuPanic

emuVars == <<regs, openHandles, filedata, irq, eresult, esem, elock, vtab, myvnode, epc, eop,
             emuErrors, emuPanic>>

NoReq == [who |-> NONE, op |-> "none", handle |-> 0, offset |-> 0]
NoEop == [op |-> "none", handle |-> 0, left |-> 0, offset |-> 0, tries |-> 0, got |-> << >>,
          held |-> FALSE]
NoResult == [code |-> "none", handle |-> 0, data |-> << >>]

(* config_emu and emufs_addtovfs: the root's vnode is in the table.        *)
EmuInit ==
    /\ regs = NoReq /\ openHandles = {RootHandle} /\ filedata = << >>
    /\ irq = NoResult /\ eresult = NoResult /\ esem = 0 /\ elock = NONE
    /\ vtab = [h \in AnyHandle |-> IF h = RootHandle THEN 1 ELSE 0]
    /\ myvnode = [t \in EThread |-> NONE]
    /\ epc = [t \in EThread |-> "idle"]
    /\ eop = [t \in EThread |-> NoEop]
    /\ emuErrors = 0 /\ emuPanic = FALSE

-----------------------------------------------------------------------------
EAt(t, where) == ~ emuPanic /\ epc[t] = where
EGoto(t, where) == epc' = [epc EXCEPT ![t] = where]
EDone(t) == EGoto(t, "idle") /\ eop' = [eop EXCEPT ![t] = NoEop]

(* emufs_lookup or emufs_creat in the root directory, which emufs_getroot  *)
(* and VOP_DECREF of the root bracket; and the operations on a file.       *)
EmuOpen(t) ==
    /\ EAt(t, "idle") /\ myvnode[t] = NONE
    /\ eop' = [eop EXCEPT ![t] = [NoEop EXCEPT !.op = "open", !.handle = RootHandle]]
    /\ vtab' = [vtab EXCEPT ![RootHandle] = @ + 1]
    /\ EGoto(t, "want")
    /\ UNCHANGED <<regs, openHandles, filedata, irq, eresult, esem, elock, myvnode, emuErrors,
                   emuPanic>>

FileOp(t, op, pieces) ==
    /\ EAt(t, "idle") /\ myvnode[t] # NONE
    /\ eop' = [eop EXCEPT ![t] = [NoEop EXCEPT !.op = op, !.handle = myvnode[t], !.left = pieces]]
    /\ EGoto(t, "want")
    /\ UNCHANGED <<regs, openHandles, filedata, irq, eresult, esem, elock, vtab, myvnode,
                   emuErrors, emuPanic>>

EmufsRead(t) == FileOp(t, "read", 2)
EmufsWrite(t) == FileOp(t, "write", 2)
EmufsStat(t) == FileOp(t, "getsize", 1)
EmufsTruncate(t) == FileOp(t, "trunc", 1)

(* emu_open, emu_doread, emu_write, ... take the lock and write the        *)
(* registers; writing REG_OPER sets the device going.                      *)
Request(t) ==
    regs' = [who |-> t, op |-> eop[t].op, handle |-> eop[t].handle, offset |-> eop[t].offset]

(* Fault: the registers are written without the lock.                      *)
EmuStartUnlocked(t) ==
    /\ EAt(t, "want")
    /\ Request(t) /\ EGoto(t, "wait")
    /\ UNCHANGED <<openHandles, filedata, irq, eresult, esem, elock, vtab, myvnode, eop, emuErrors,
                   emuPanic>>

EmuStart(t) ==
    /\ EAt(t, "want")
    /\ elock = NONE /\ elock' = t
    /\ Request(t) /\ EGoto(t, "wait")
    /\ UNCHANGED <<openHandles, filedata, irq, eresult, esem, vtab, myvnode, eop, emuErrors,
                   emuPanic>>

(* The device finishes.  Success, or an error of the medium.               *)
Bytes(from) == IF from < Len(filedata) THEN <<filedata[from + 1]>> ELSE << >>
Written(from, t) ==
    [i \in 1..(IF from < Len(filedata) THEN Len(filedata) ELSE from + 1) |->
        IF i = from + 1 THEN t ELSE IF i <= Len(filedata) THEN filedata[i] ELSE NONE]

DeviceDone ==
    LET r == regs
        bad == r.handle \notin openHandles
        reply == [code |-> "success", handle |-> r.handle, data |-> << >>]
    IN  /\ ~ emuPanic /\ r # NoReq /\ irq = NoResult
        /\ regs' = NoReq
        /\ IF bad
           THEN irq' = [reply EXCEPT !.code = "badhandle"] /\ UNCHANGED <<openHandles, filedata, emuErrors>>
           ELSE
           \/ /\ r.op = "open"
              /\ \E h \in Handles \ openHandles :
                    irq' = [reply EXCEPT !.handle = h] /\ openHandles' = openHandles \cup {h}
              /\ UNCHANGED <<filedata, emuErrors>>
           \/ /\ r.op = "close"
              /\ irq' = reply /\ openHandles' = openHandles \ {r.handle}
              /\ UNCHANGED <<filedata, emuErrors>>
           \/ /\ r.op \in FileOps
              /\ irq' = [reply EXCEPT !.data = IF r.op = "read" THEN Bytes(r.offset) ELSE << >>]
              /\ filedata' = CASE r.op = "write" -> IF r.offset < MaxFile THEN Written(r.offset, r.who)
                                                    ELSE filedata
                               [] r.op = "trunc" -> << >>
                               [] OTHER -> filedata
              /\ UNCHANGED <<openHandles, emuErrors>>
           \/ /\ emuErrors < MaxEmuErrors \/ (r.op = "open" /\ Handles \subseteq openHandles)
              /\ irq' = [reply EXCEPT !.code = "media"]
              /\ emuErrors' = IF emuErrors < MaxEmuErrors THEN emuErrors + 1 ELSE emuErrors
              /\ UNCHANGED <<openHandles, filedata>>
        /\ UNCHANGED <<eresult, esem, elock, vtab, myvnode, epc, eop, emuPanic>>

(* emu_irq.                                                                *)
EmuIrq ==
    /\ ~ emuPanic /\ irq # NoResult
    /\ eresult' = irq /\ irq' = NoResult
    /\ esem' = esem + 1
    /\ UNCHANGED <<regs, openHandles, filedata, elock, vtab, myvnode, epc, eop, emuErrors, emuPanic>>

-----------------------------------------------------------------------------
(* emu_waitdone, and what each caller does with the outcome.  translate_   *)
(* err panics at EMU_RES_BADHANDLE.                                        *)
Collect(t, op) ==
    /\ EAt(t, "wait") /\ eop[t].op = op
    /\ esem > 0 /\ esem' = esem - 1
    /\ emuPanic' = (eresult.code = "badhandle")
    /\ eresult' = NoResult

(* An open that worked goes on to emufs_loadvnode, without the lock in     *)
(* between; one that failed drops the directory.                           *)
OpenDone(t) ==
    LET ok == eresult.code = "success"
    IN  /\ Collect(t, "open")
        /\ elock' = NONE
        /\ eop' = [eop EXCEPT ![t] = IF ok THEN [@ EXCEPT !.handle = eresult.handle] ELSE NoEop]
        /\ EGoto(t, IF ok THEN "load" ELSE "idle")
        /\ vtab' = IF ok THEN vtab ELSE [vtab EXCEPT ![RootHandle] = @ - 1]
        /\ UNCHANGED <<regs, openHandles, filedata, irq, myvnode, emuErrors>>

(* emufs_loadvnode under e_lock: a vnode with this handle gets another     *)
(* reference, otherwise one is made.  Then the directory is dropped.       *)
LoadVnode(t) ==
    /\ EAt(t, "load") /\ elock = NONE
    /\ vtab' = [vtab EXCEPT ![eop[t].handle] = @ + 1, ![RootHandle] = @ - 1]
    /\ myvnode' = [myvnode EXCEPT ![t] = eop[t].handle]
    /\ EDone(t)
    /\ UNCHANGED <<regs, openHandles, filedata, irq, eresult, esem, elock, emuErrors, emuPanic>>

(* No memory for the vnode: emufs_lookup closes the handle, then the       *)
(* directory is dropped.                                                   *)
LoadFails(t) ==
    /\ EAt(t, "load") /\ elock = NONE
    /\ emuErrors < MaxEmuErrors /\ emuErrors' = emuErrors + 1
    /\ eop' = [eop EXCEPT ![t].op = "close"]
    /\ EGoto(t, "want")
    /\ UNCHANGED <<regs, openHandles, filedata, irq, eresult, esem, elock, vtab, myvnode, emuPanic>>

(* The pieces of emufs_read and emufs_write; getsize and trunc have one.   *)
(* A piece that moves nothing ends a read.                                 *)
FileOpDone(t) ==
    LET o == eop[t]
        ok == eresult.code = "success"
        eof == o.op = "read" /\ eresult.data = << >>
    IN  /\ Collect(t, o.op) /\ o.op \in FileOps
        /\ elock' = NONE
        /\ IF ok /\ ~ eof /\ o.left > 1
           THEN /\ eop' = [eop EXCEPT ![t].left = @ - 1, ![t].offset = @ + 1,
                                      ![t].got = @ \o eresult.data]
                /\ EGoto(t, "want")
           ELSE EDone(t)
        /\ UNCHANGED <<regs, openHandles, filedata, irq, vtab, myvnode, emuErrors>>

-----------------------------------------------------------------------------
(* thread_fork lets a child share its parent's vnode, as its directory.    *)
Share(t, u) ==
    /\ EAt(t, "idle") /\ EAt(u, "idle") /\ myvnode[t] # NONE /\ myvnode[u] = NONE
    /\ myvnode' = [myvnode EXCEPT ![u] = myvnode[t]]
    /\ vtab' = [vtab EXCEPT ![myvnode[t]] = @ + 1]
    /\ UNCHANGED <<regs, openHandles, filedata, irq, eresult, esem, elock, epc, eop, emuErrors,
                   emuPanic>>

(* vnode_decref, the last reference going on to emufs_reclaim.             *)
Drop(t) ==
    LET h == myvnode[t]
    IN  /\ EAt(t, "idle") /\ h # NONE
        /\ myvnode' = [myvnode EXCEPT ![t] = NONE]
        /\ IF vtab[h] > 1
           THEN vtab' = [vtab EXCEPT ![h] = @ - 1] /\ UNCHANGED <<epc, eop>>
           ELSE /\ eop' = [eop EXCEPT ![t] = [NoEop EXCEPT !.op = "close", !.handle = h]]
                /\ EGoto(t, "reclaim") /\ UNCHANGED vtab
        /\ UNCHANGED <<regs, openHandles, filedata, irq, eresult, esem, elock, emuErrors, emuPanic>>

(* emufs_reclaim takes e_lock, looks at the count again, and calls         *)
(* emu_close with the lock held.                                           *)
Reclaim(t) ==
    /\ EAt(t, "reclaim") /\ elock = NONE
    /\ IF vtab[eop[t].handle] # 1
       THEN EDone(t) /\ UNCHANGED <<elock, regs>>          \* EBUSY
       ELSE /\ elock' = t /\ Request(t)
            /\ eop' = [eop EXCEPT ![t].held = TRUE]
            /\ EGoto(t, "wait")
    /\ UNCHANGED <<openHandles, filedata, irq, eresult, esem, vtab, myvnode, emuErrors, emuPanic>>

(* Fault: the vnode stays in the table.                                    *)
CloseDoneKeeps(t) ==
    /\ Collect(t, "close") /\ eresult.code = "success"
    /\ elock' = NONE /\ EDone(t)
    /\ UNCHANGED <<vtab, regs, openHandles, filedata, irq, myvnode, emuErrors>>

(* emu_close: closed, and in emufs_reclaim the vnode leaves the table ...  *)
CloseDone(t) ==
    /\ Collect(t, "close") /\ eresult.code # "media"
    /\ elock' = NONE /\ EDone(t)
    /\ vtab' = IF eop[t].held THEN [vtab EXCEPT ![eop[t].handle] = 0]
               ELSE [vtab EXCEPT ![RootHandle] = @ - 1]
    /\ UNCHANGED <<regs, openHandles, filedata, irq, myvnode, emuErrors>>

(* ... or an I/O error: tried again with the lock still held, up to a      *)
(* limit, after which the handle stays open (and the vnode in the table).  *)
CloseRetry(t) ==
    /\ Collect(t, "close") /\ eresult.code = "media"
    /\ IF eop[t].tries < MaxRetries
       THEN /\ Request(t)
            /\ eop' = [eop EXCEPT ![t].tries = @ + 1]
            /\ UNCHANGED <<elock, epc, vtab>>
       ELSE /\ elock' = NONE /\ EDone(t)
            /\ vtab' = IF eop[t].held THEN vtab ELSE [vtab EXCEPT ![RootHandle] = @ - 1]
            /\ UNCHANGED regs
    /\ UNCHANGED <<openHandles, filedata, irq, myvnode, emuErrors>>

EmuStep(t) ==
    \/ EmuStart(t) \/ OpenDone(t) \/ LoadVnode(t) \/ LoadFails(t)
    \/ FileOpDone(t) \/ Reclaim(t) \/ CloseDone(t) \/ CloseRetry(t)

EmuNext ==
    \/ \E t \in EThread :
        \/ EmuOpen(t) \/ Drop(t)
        \/ EmufsRead(t) \/ EmufsWrite(t) \/ EmufsStat(t) \/ EmufsTruncate(t)
        \/ \E u \in EThread : Share(t, u)
        \/ EmuStep(t)
    \/ DeviceDone \/ EmuIrq

-----------------------------------------------------------------------------
(* Who holds a handle: the vnode in the table, or a thread on its way to   *)
(* or from one.                                                            *)
InHand(h) == {t \in EThread : eop[t].handle = h /\ h # RootHandle
                                  /\ \/ epc[t] = "load"
                                     \/ eop[t].op = "close" /\ ~ eop[t].held /\ epc[t] # "reclaim"
                                            /\ h \in openHandles}
Users(h) == {t \in EThread : myvnode[t] = h}
Dropping(h) == {t \in EThread : eop[t].op = "close" /\ eop[t].handle = h
                                    /\ (epc[t] = "reclaim" \/ eop[t].held)}
AtRoot == {t \in EThread : \/ eop[t].op = "open"
                           \/ eop[t].op = "close" /\ ~ eop[t].held /\ epc[t] # "reclaim"}

(* Every handle the device has open belongs to exactly one vnode or one    *)
(* thread, and every vnode has an open handle and one reference for each   *)
(* user, as long as no operation fails; a failure may leave a handle open  *)
(* or a vnode in the table (a close that fails to the end), never the      *)
(* other way round, so the device never sees a handle it has closed and    *)
(* the driver does not panic.                                              *)
HandlesExact ==
    /\ ~ emuPanic
    /\ \A h \in Handles :
        /\ vtab[h] > 0 =>
              /\ h \in openHandles \/ \E t \in Dropping(h) : eop[t].held
              /\ vtab[h] >= Cardinality(Users(h) \cup Dropping(h))
              /\ InHand(h) = {}
        /\ Users(h) # {} => vtab[h] = Cardinality(Users(h)) + Cardinality(Dropping(h))
        /\ Cardinality(InHand(h)) <= 1
        /\ h \in openHandles /\ emuErrors = 0 => vtab[h] > 0 \/ InHand(h) # {} \/ irq.handle = h
                                              \/ eresult.handle = h
    /\ vtab[RootHandle] = 1 + Cardinality(AtRoot)

(* One request at a time: the device is idle when one is written, and the  *)
(* outcome a thread collects is that of its own request.                   *)
OneRequest ==
    LET waiting == {t \in EThread : epc[t] = "wait"}
    IN  /\ Cardinality(waiting) <= 1
        /\ esem + (IF regs # NoReq THEN 1 ELSE 0) + (IF irq # NoResult THEN 1 ELSE 0)
               = Cardinality(waiting)
        /\ \A t \in waiting : elock = t
=============================================================================
