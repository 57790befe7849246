------------------------------- MODULE DiskIO -------------------------------
(***************************************************************************)
(* Disk input and output: lhd_io and lhd_irq of dev/lamebus/lhd.c, and the *)
(* retry loop of sfs_rwblock in fs/sfs/sfs_io.c above it.                  *)
(*                                                                         *)
(* Threads share one drive with one on-card buffer.  lh_clear is held by   *)
(* the thread that uses the card, for one sector at a time; the interrupt  *)
(* handler leaves the result in lh_result and V's lh_done.  Semaphores are *)
(* the atomic ones of Monitor.  A uio is the offset and the residue that   *)
(* uiomove advances, in sectors (an SFS block is a sector; requests that   *)
(* are not aligned or go past the end are refused before any of this).     *)
(***************************************************************************)
EXTENDS Naturals

CONSTANTS
    Thread,
    Raw,        \* threads doing raw device I/O, not retried; others are SFS
    Ops,        \* mixes of requests: what each thread does, "read" or "write"
    First,      \* First[t]: first sector of t's request
    Count,      \* Count[t]: sectors in it; sfs_rblock and sfs_wblock: 1
    NSectors,   \* lh_dev.d_blocks
    MaxTries,   \* retries of sfs_rwblock (10)
    MaxErrors,  \* bound: media errors
    Blank       \* initial contents of the disk

Sector == 0..(NSectors - 1)
Value == Thread \cup {Blank}   \* a thread writes its own name

ASSUME DiskConstants ==
    /\ Raw \subseteq Thread /\ Blank \notin Thread
    /\ NSectors \in Nat \ {0} /\ MaxTries \in Nat /\ MaxErrors \in Nat
    /\ Ops \subseteq [Thread -> {"read", "write"}]
    /\ First \in [Thread -> Sector]
    /\ Count \in [Thread -> Nat]
    /\ \A t \in Thread : First[t] + Count[t] <= NSectors
    /\ \A t \in Thread \ Raw : Count[t] = 1

VARIABLES
    lh_clear, lh_done,        \* counts of the semaphores
    lh_result,                \* result saved by the interrupt handler
    stat, iswrite, sect,      \* card: LHD_REG_STAT, LHD_REG_SECT
    buf,                      \* card: transfer buffer
    disk,                     \* contents of each sector
    errors,                   \* media errors so far
    op,                       \* uio_rw of each thread's request
    disk_pc,                       \* where each thread is
    uio_offset, uio_resid,    \* its uio
    sector, len, i,           \* locals of lhd_io
    tries, result,            \* local of sfs_rwblock; result of the call
    got,                      \* sectors of t's buffer a read has filled
    held,                     \* history: values a sector had during the call
    landed                    \* history: sectors t's data has reached

cardVars == <<stat, iswrite, sect, buf, disk, errors>>
diskSemVars == <<lh_clear, lh_done, lh_result>>
uioVars == <<uio_offset, uio_resid, got>>
callVars == <<sector, len, tries, result>>
histVars == <<held, landed>>
diskVars == <<cardVars, diskSemVars, uioVars, callVars, i, disk_pc, op, histVars>>

DiskTypeOK ==
    /\ lh_clear \in 0..1 /\ lh_done \in 0..1
    /\ lh_result \in {"0", "EIO"}
    /\ stat \in {"idle", "working", "ok", "media"} /\ iswrite \in BOOLEAN
    /\ sect \in Sector /\ buf \in Value /\ disk \in [Sector -> Value]
    /\ errors \in 0..MaxErrors
    /\ op \in Ops
    /\ disk_pc \in [Thread -> {"call", "loop", "fill", "start", "wait", "drain", "returned", "done"}]
    /\ uio_offset \in [Thread -> 0..NSectors] /\ uio_resid \in [Thread -> 0..NSectors]
    /\ sector \in [Thread -> 0..NSectors] /\ len \in [Thread -> 0..NSectors]
    /\ i \in [Thread -> 0..NSectors] /\ tries \in [Thread -> 0..MaxTries]
    /\ result \in [Thread -> {"0", "EIO", "EFAULT"}]
    /\ got \in [Thread -> [Sector -> Value]]
    /\ held \in [Thread -> [Sector -> SUBSET Value]]
    /\ landed \in [Thread -> SUBSET Sector]

DiskInit ==
    /\ lh_clear = 1 /\ lh_done = 0 /\ lh_result = "0"
    /\ stat = "idle" /\ iswrite = FALSE /\ sect = 0 /\ buf = Blank
    /\ disk = [s \in Sector |-> Blank]
    /\ errors = 0
    /\ op \in Ops
    /\ disk_pc = [t \in Thread |-> "call"]
    /\ uio_offset = First /\ uio_resid = Count
    /\ sector = [t \in Thread |-> 0] /\ len = [t \in Thread |-> 0]
    /\ i = [t \in Thread |-> 0] /\ tries = [t \in Thread |-> 0]
    /\ result = [t \in Thread |-> "0"]
    /\ got = [t \in Thread |-> [s \in Sector |-> Blank]]
    /\ held = [t \in Thread |-> [s \in Sector |-> {Blank}]]
    /\ landed = [t \in Thread |-> {}]

-----------------------------------------------------------------------------
DiskGoto(t, where) == disk_pc' = [disk_pc EXCEPT ![t] = where]

(* lhd_io is entered: what to do is computed from the uio.                 *)
LhdIo(t) ==
    /\ disk_pc[t] = "call"
    /\ sector' = [sector EXCEPT ![t] = uio_offset[t]]
    /\ len' = [len EXCEPT ![t] = uio_resid[t]]
    /\ i' = [i EXCEPT ![t] = 0]
    /\ result' = [result EXCEPT ![t] = "0"]
    /\ held' = [held EXCEPT ![t] =
                   IF tries[t] = 0 THEN [s \in Sector |-> {disk[s]}] ELSE @]
    /\ DiskGoto(t, "loop")
    /\ UNCHANGED <<op, cardVars, diskSemVars, uioVars, tries, landed>>

(* All sectors are done.                                                   *)
LoopEnds(t) ==
    /\ disk_pc[t] = "loop"
    /\ i[t] = len[t]
    /\ DiskGoto(t, "returned")
    /\ UNCHANGED <<op, cardVars, diskSemVars, uioVars, callVars, i, histVars>>

(* P(lh_clear) can go on.                                                  *)
CardClear == lh_clear > 0

WaitClear(t) ==
    /\ disk_pc[t] = "loop"
    /\ i[t] < len[t]
    /\ CardClear
    /\ lh_clear' = 0
    /\ DiskGoto(t, IF op[t] = "write" THEN "fill" ELSE "start")
    /\ UNCHANGED <<op, cardVars, lh_done, lh_result, uioVars, callVars, i, histVars>>

(* uiomove has moved one sector.                                           *)
UioAdvances(t) ==
    /\ uio_offset' = [uio_offset EXCEPT ![t] = @ + 1]
    /\ uio_resid' = [uio_resid EXCEPT ![t] = @ - 1]

(* A write moves its data to the card, ...                                 *)
FillBuffer(t) ==
    /\ disk_pc[t] = "fill"
    /\ UioAdvances(t)
    /\ buf' = t
    /\ DiskGoto(t, "start")
    /\ UNCHANGED <<op, stat, iswrite, sect, disk, errors, diskSemVars, got, callVars, i, histVars>>

(* Fault: the card is not given back.                                      *)
FillFailsHolding(t) ==
    /\ disk_pc[t] = "fill"
    /\ t \in Raw
    /\ result' = [result EXCEPT ![t] = "EFAULT"]
    /\ DiskGoto(t, "returned")
    /\ UNCHANGED <<op, cardVars, diskSemVars, uioVars, sector, len, tries, i, histVars>>

(* ... unless the caller's buffer is bad.                                  *)
FillFails(t) ==
    /\ disk_pc[t] = "fill"
    /\ t \in Raw
    /\ lh_clear' = lh_clear + 1
    /\ result' = [result EXCEPT ![t] = "EFAULT"]
    /\ DiskGoto(t, "returned")
    /\ UNCHANGED <<op, cardVars, lh_done, lh_result, uioVars, sector, len, tries, i, histVars>>

StartCard(t) ==
    /\ disk_pc[t] = "start"
    /\ sect' = sector[t] + i[t]
    /\ stat' = "working"
    /\ iswrite' = (op[t] = "write")
    /\ DiskGoto(t, "wait")
    /\ UNCHANGED <<op, buf, disk, errors, diskSemVars, uioVars, callVars, i, histVars>>

(* The card does the operation, or hits a media error.                     *)
CardFinishes ==
    /\ stat = "working"
    /\ stat' = "ok"
    /\ disk' = IF iswrite THEN [disk EXCEPT ![sect] = buf] ELSE disk
    /\ buf' = IF iswrite THEN buf ELSE disk[sect]
    /\ held' = [t \in Thread |-> [held[t] EXCEPT ![sect] = @ \cup {disk'[sect]}]]
    /\ landed' = [t \in Thread |->
                    IF iswrite /\ buf = t THEN landed[t] \cup {sect} ELSE landed[t]]
    /\ UNCHANGED <<op, iswrite, sect, errors, diskSemVars, uioVars, callVars, i, disk_pc>>

CardFails ==
    /\ stat = "working"
    /\ errors < MaxErrors
    /\ errors' = errors + 1
    /\ stat' = "media"
    /\ UNCHANGED <<op, iswrite, sect, buf, disk, diskSemVars, uioVars, callVars, i, disk_pc, histVars>>

(* Fault: the saved result is always success.                              *)
ErrnoIgnored(code) == "0"

(* lhd_code_to_errno, for the codes the card returns to valid requests.    *)
CodeToErrno(code) == IF code = "ok" THEN "0" ELSE "EIO"

(* lhd_irq and lhd_iodone.                                                 *)
LhdIrq ==
    /\ stat \in {"ok", "media"}
    /\ stat' = "idle"
    /\ lh_result' = CodeToErrno(stat)
    /\ lh_done' = lh_done + 1
    /\ UNCHANGED <<op, iswrite, sect, buf, disk, errors, lh_clear, uioVars, callVars, i, disk_pc,
                   histVars>>

(* Fault: a thread does not wait for the interrupt.                        *)
DoneEarly == TRUE

(* P(lh_done) can go on.                                                   *)
IsDone == lh_done > 0

WaitDone(t) ==
    /\ disk_pc[t] = "wait"
    /\ IsDone
    /\ lh_done' = 0
    /\ result' = [result EXCEPT ![t] = lh_result]
    /\ DiskGoto(t, "drain")
    /\ UNCHANGED <<op, cardVars, lh_clear, lh_result, uioVars, sector, len, tries, i, histVars>>

(* A read that succeeded takes its data, if uiomove does; V(lh_clear); an  *)
(* error ends the loop.                                                    *)
TakeBuffer(t) ==
    /\ disk_pc[t] = "drain"
    /\ \/ /\ result[t] = "0" /\ op[t] = "read"
          /\ got' = [got EXCEPT ![t][uio_offset[t]] = buf]
          /\ UioAdvances(t)
          /\ UNCHANGED result
       \/ /\ result[t] = "0" /\ op[t] = "read" /\ t \in Raw
          /\ result' = [result EXCEPT ![t] = "EFAULT"]
          /\ UNCHANGED uioVars
       \/ /\ result[t] # "0" \/ op[t] = "write"
          /\ UNCHANGED <<uioVars, result>>
    /\ lh_clear' = lh_clear + 1
    /\ i' = [i EXCEPT ![t] = @ + 1]
    /\ DiskGoto(t, IF result'[t] = "0" THEN "loop" ELSE "returned")
    /\ UNCHANGED <<op, cardVars, lh_done, lh_result, sector, len, tries, histVars>>

(* sfs_rwblock calls d_io again, with the same uio, after EIO.             *)
Retry(t) ==
    /\ disk_pc[t] = "returned"
    /\ t \notin Raw /\ result[t] = "EIO" /\ tries[t] < MaxTries
    /\ tries' = [tries EXCEPT ![t] = @ + 1]
    /\ DiskGoto(t, "call")
    /\ UNCHANGED <<op, cardVars, diskSemVars, uioVars, sector, len, result, i, histVars>>

DiskReturn(t) ==
    /\ disk_pc[t] = "returned"
    /\ t \notin Raw /\ tries[t] < MaxTries => result[t] # "EIO"
    /\ DiskGoto(t, "done")
    /\ UNCHANGED <<op, cardVars, diskSemVars, uioVars, callVars, i, histVars>>

ThreadStep(t) ==
    \/ LhdIo(t) \/ LoopEnds(t) \/ WaitClear(t) \/ FillBuffer(t) \/ FillFails(t)
    \/ StartCard(t) \/ WaitDone(t) \/ TakeBuffer(t) \/ Retry(t) \/ DiskReturn(t)

DiskNext ==
    \/ \E t \in Thread : ThreadStep(t)
    \/ CardFinishes \/ CardFails \/ LhdIrq

DiskSpec == DiskInit /\ [][DiskNext]_diskVars

-----------------------------------------------------------------------------
UsesCard(t) == disk_pc[t] \in {"fill", "start", "wait", "drain"}

(* The card has one user at a time, the user's operation is the one that   *)
(* runs, and a completion is waited for by that user: "Wait until nobody   *)
(* else is using the device".                                              *)
OneUser ==
    /\ \A t, u \in Thread : UsesCard(t) /\ UsesCard(u) => t = u
    /\ lh_clear = 1 <=> ~ \E t \in Thread : UsesCard(t)
    /\ stat # "idle" \/ lh_done > 0 =>
           \E t \in Thread : disk_pc[t] = "wait" /\ sect = sector[t] + i[t]
    /\ \A t \in Thread : disk_pc[t] = "wait" /\ stat = "idle" => lh_done = 1

(* A read that returns 0 has filled its buffer with what each sector held  *)
(* at some moment of the call.                                             *)
ReadIsFresh ==
    \A t \in Thread, s \in Sector :
        /\ disk_pc[t] = "done" /\ op[t] = "read" /\ result[t] = "0"
        /\ s \in First[t]..(First[t] + Count[t] - 1)
        => uio_resid[t] = 0 /\ got[t][s] \in held[t][s]

(* A raw write that returns 0 has reached the disk, every sector of it:    *)
(* the result a thread picks up is that of its own operation.              *)
RawWriteLands ==
    \A t \in Raw :
        disk_pc[t] = "done" /\ op[t] = "write" /\ result[t] = "0"
            => First[t]..(First[t] + Count[t] - 1) \subseteq landed[t]

(* The disk: the card has one user at a time, a read that succeeds returns *)
(* what its sectors held during the call, and a raw write that succeeds is *)
(* on the disk, so that every thread gets the outcome of its own operation *)
(* (lhd.c).                                                                *)
DiskSound == DiskTypeOK /\ OneUser /\ ReadIsFresh /\ RawWriteLands

(* The same for sfs_wblock, whose retries are to cover for media errors.   *)
WriteLands ==
    \A t \in Thread \ Raw :
        disk_pc[t] = "done" /\ op[t] = "write" /\ result[t] = "0"
            => First[t] \in landed[t]
=============================================================================
