----------------------------- MODULE DiskProofs -----------------------------
(***************************************************************************)
(* lhd_io and sfs_rwblock are sound for any number of threads, whatever    *)
(* requests they make, on a disk of any size and with any number of media  *)
(* errors.  DiskSound is not inductive: it says nothing of requests that   *)
(* are under way.  The invariant adds the uio and the loop of each request *)
(* (LoopKept), what the card is doing for the thread that waits for it     *)
(* (CardKept) and what the request has moved so far (MovedKept).           *)
(*                                                                         *)
(* Most leaves are first-order and are Zenon's; the others name SMT.       *)
(***************************************************************************)
EXTENDS DiskIO, TLAPS

InLoop(t) == disk_pc[t] \in {"loop", "fill", "start", "wait", "drain"}

(* The data of the sector are on the card, and the uio has moved on.       *)
Filled(t) == op[t] = "write" /\ disk_pc[t] \in {"start", "wait", "drain"}

(* The card has done what t asked for.                                     *)
Answered(t) == \/ disk_pc[t] = "wait" /\ stat = "ok"
               \/ disk_pc[t] = "wait" /\ stat = "idle" /\ lh_result = "0"
               \/ disk_pc[t] = "drain" /\ result[t] = "0"

(* The types of the card and its semaphores, of the calls under way and of *)
(* the buffers and histories.                                              *)
CardTypes ==
    /\ lh_clear \in 0..1 /\ lh_done \in 0..1 /\ lh_result \in {"0", "EIO"}
    /\ stat \in {"idle", "working", "ok", "media"}
    /\ sect \in Sector /\ buf \in Value /\ disk \in [Sector -> Value]
    /\ errors \in 0..MaxErrors
CallTypes ==
    /\ op \in Ops /\ op \in [Thread -> {"read", "write"}]
    /\ disk_pc \in [Thread -> {"call", "loop", "fill", "start", "wait", "drain", "returned", "done"}]
    /\ uio_offset \in [Thread -> 0..NSectors] /\ uio_resid \in [Thread -> 0..NSectors]
    /\ sector \in [Thread -> 0..NSectors] /\ len \in [Thread -> 0..NSectors]
    /\ i \in [Thread -> 0..NSectors] /\ tries \in [Thread -> 0..MaxTries]
    /\ result \in [Thread -> {"0", "EIO", "EFAULT"}]
HistTypes ==
    /\ got \in [Thread -> [Sector -> Value]]
    /\ held \in [Thread -> [Sector -> SUBSET Value]]
    /\ landed \in [Thread -> SUBSET Sector]

(* Who has the card, by lh_clear and lh_done.                              *)
OneAtCard ==
    /\ \A t, u \in Thread : UsesCard(t) /\ UsesCard(u) => t = u
    /\ \A t \in Thread : UsesCard(t) => lh_clear = 0
    /\ lh_clear = 0 => \E t \in Thread : UsesCard(t)
    /\ stat # "idle" \/ lh_done > 0 => \E t \in Thread : disk_pc[t] = "wait"
    /\ stat # "idle" => lh_done = 0
    /\ \A t \in Thread : disk_pc[t] = "wait" /\ stat = "idle" => lh_done = 1

(* What a request has moved and what is left make it up, its loop is where *)
(* its uio says, and a request that is done well has nothing left.         *)
LoopKept(t) ==
    /\ uio_offset[t] + uio_resid[t] = First[t] + Count[t] /\ First[t] <= uio_offset[t]
    /\ t \in Raw => tries[t] = 0
    /\ disk_pc[t] = "call" /\ tries[t] = 0 => uio_offset[t] = First[t]
    /\ disk_pc[t] = "fill" => op[t] = "write"
    /\ InLoop(t) =>
          /\ sector[t] + len[t] = First[t] + Count[t] /\ First[t] <= sector[t]
          /\ i[t] <= len[t] /\ (UsesCard(t) => i[t] < len[t])
          /\ t \in Raw => sector[t] = First[t]
          /\ disk_pc[t] # "drain" => result[t] = "0"
          /\ uio_offset[t] = sector[t] + i[t] + (IF Filled(t) THEN 1 ELSE 0)
    /\ disk_pc[t] \in {"returned", "done"} /\ result[t] = "0" => uio_resid[t] = 0

(* The card works for the thread that waits for it: on its sector, with    *)
(* its data, and what it has answered is the outcome of that.              *)
CardKept(t) ==
    /\ disk_pc[t] = "wait" => sect = sector[t] + i[t] /\ (iswrite <=> op[t] = "write")
    /\ op[t] = "write" /\ disk_pc[t] \in {"start", "wait"} => buf = t
    /\ Answered(t) /\ op[t] = "read" => buf \in held[t][sector[t] + i[t]]
    /\ Answered(t) /\ op[t] = "write" => sector[t] + i[t] \in landed[t]

(* What a read has moved was on the disk during the call; what a raw write *)
(* has been told is done has landed.                                       *)
MovedKept(t) ==
    /\ op[t] = "read" =>
          \A s \in Sector : First[t] <= s /\ s < uio_offset[t] => got[t][s] \in held[t][s]
    /\ t \in Raw /\ op[t] = "write" =>
          /\ InLoop(t) =>
                \A s \in Sector : First[t] <= s /\ s < sector[t] + i[t] => s \in landed[t]
          /\ disk_pc[t] \in {"returned", "done"} /\ result[t] = "0" =>
                \A s \in Sector : First[t] <= s /\ s < First[t] + Count[t] => s \in landed[t]

DiskInv ==
    /\ CardTypes /\ CallTypes /\ HistTypes /\ OneAtCard
    /\ \A t \in Thread : LoopKept(t) /\ CardKept(t) /\ MovedKept(t)

USE Zenon DEF InLoop, Filled, UsesCard, DiskGoto, cardVars, diskSemVars, uioVars, callVars, histVars

-----------------------------------------------------------------------------
(* The sectors of the disk, and the bounds.                                *)
LEMMA Sectors ==
    /\ \A s : s \in Sector <=> s \in Nat /\ s < NSectors
    /\ NSectors \in Nat /\ NSectors > 0 /\ MaxErrors \in Nat /\ MaxTries \in Nat
BY SMT, DiskConstants DEF Sector

(* A thread writes a value.                                                *)
LEMMA Values == Blank \in Value /\ \A t \in Thread : t \in Value
BY DEF Value

(* A request is on the disk.                                               *)
LEMMA Requests ==
    ASSUME NEW t \in Thread
    PROVE  First[t] \in Nat /\ Count[t] \in Nat /\ First[t] + Count[t] <= NSectors
BY SMT, DiskConstants DEF Sector

(* A thread's step leaves the calls of the others alone.                   *)
LEMMA OthersWait ==
    ASSUME DiskInv, NEW t \in Thread, ThreadStep(t), NEW u \in Thread, u # t
    PROVE  /\ UNCHANGED <<op[u], disk_pc[u], sector[u], len[u], i[u], tries[u], result[u]>>
           /\ UNCHANGED <<uio_offset[u], uio_resid[u], got[u], held[u], landed[u]>>
<1>1. UNCHANGED <<op[u], disk_pc[u], sector[u], len[u], i[u], tries[u], result[u], landed[u]>>
  BY DEF DiskInv, CallTypes, HistTypes, ThreadStep, LhdIo, LoopEnds, WaitClear, FillBuffer, FillFails,
     StartCard, WaitDone, TakeBuffer, Retry, DiskReturn
<1>2. UNCHANGED <<uio_offset[u], uio_resid[u], held[u]>>
  BY DEF DiskInv, CallTypes, HistTypes, ThreadStep, LhdIo, LoopEnds, WaitClear, FillBuffer, FillFails,
     StartCard, WaitDone, TakeBuffer, UioAdvances, Retry, DiskReturn
<1>3. UNCHANGED got[u]
  <2>1. CASE TakeBuffer(t)
    BY <2>1 DEF DiskInv, CallTypes, HistTypes, TakeBuffer
  <2>2. CASE ~ TakeBuffer(t)
    BY <2>2 DEF DiskInv, CallTypes, HistTypes, ThreadStep, LhdIo, LoopEnds, WaitClear, FillBuffer,
       FillFails, StartCard, WaitDone, Retry, DiskReturn
  <2> QED BY <2>1, <2>2
<1> QED BY <1>1, <1>2, <1>3

(* The loop of lhd_io and its uio.                                         *)
LEMMA LoopStep ==
    ASSUME DiskInv, [DiskNext]_diskVars, NEW u \in Thread
    PROVE  LoopKept(u)'
<1>1. LoopKept(u)
  BY DEF DiskInv
<1>2. /\ sector[u] \in Nat /\ i[u] \in Nat /\ len[u] \in Nat /\ uio_offset[u] \in Nat /\ uio_resid[u] \in Nat
      /\ tries[u] \in Nat
  BY SMT, Sectors DEF DiskInv, CallTypes
<1>3. First[u] \in Nat /\ Count[u] \in Nat
  BY Requests
<1>4. ASSUME NEW t \in Thread, ThreadStep(t), u # t PROVE LoopKept(u)'
  BY <1>1, <1>4, OthersWait DEF LoopKept
<1>5. CASE LhdIo(u)
  <2>1. /\ disk_pc'[u] = "loop" /\ sector'[u] = uio_offset[u] /\ len'[u] = uio_resid[u] /\ i'[u] = 0
        /\ result'[u] = "0" /\ disk_pc[u] = "call"
        /\ UNCHANGED <<op, uio_offset, uio_resid, tries>>
    BY <1>5 DEF LhdIo, DiskInv, CallTypes
  <2> QED BY SMT, <1>1, <1>2, <1>3, <2>1 DEF LoopKept
<1>6. CASE LoopEnds(u)
  <2>1. /\ disk_pc[u] = "loop" /\ disk_pc'[u] = "returned" /\ i[u] = len[u]
        /\ UNCHANGED <<op, uio_offset, uio_resid, tries, sector, len, i, result>>
    BY <1>6 DEF LoopEnds, DiskInv, CallTypes
  <2>2. uio_offset[u] = sector[u] + i[u] /\ sector[u] + len[u] = First[u] + Count[u]
    BY SMT, <1>1, <1>2, <2>1 DEF LoopKept
  <2>3. uio_resid[u] = 0
    BY SMT, <1>1, <1>2, <2>1, <2>2 DEF LoopKept
  <2> QED BY <1>1, <2>1, <2>3 DEF LoopKept
<1>7. CASE WaitClear(u)
  <2>1. /\ disk_pc[u] = "loop" /\ disk_pc'[u] = (IF op[u] = "write" THEN "fill" ELSE "start") /\ i[u] < len[u]
        /\ UNCHANGED <<op, uio_offset, uio_resid, tries, sector, len, i, result>>
    BY <1>7 DEF WaitClear, DiskInv, CallTypes
  <2> QED BY <1>1, <2>1 DEF LoopKept
<1>8. CASE FillBuffer(u)
  <2>1. /\ disk_pc[u] = "fill" /\ disk_pc'[u] = "start"
        /\ uio_offset'[u] = uio_offset[u] + 1 /\ uio_resid'[u] = uio_resid[u] - 1
        /\ UNCHANGED <<op, sector, len, i, tries, result>>
    BY <1>8 DEF FillBuffer, UioAdvances, DiskInv, CallTypes
  <2> QED BY SMT, <1>1, <1>2, <1>3, <2>1 DEF LoopKept
<1>9. CASE FillFails(u)
  <2>1. /\ disk_pc[u] = "fill" /\ disk_pc'[u] = "returned" /\ result'[u] = "EFAULT"
        /\ UNCHANGED <<op, uio_offset, uio_resid, tries, sector, len, i>>
    BY <1>9 DEF FillFails, DiskInv, CallTypes
  <2> QED BY <1>1, <2>1 DEF LoopKept
<1>10. CASE StartCard(u)
  <2>1. /\ disk_pc[u] = "start" /\ disk_pc'[u] = "wait"
        /\ UNCHANGED <<op, uio_offset, uio_resid, tries, sector, len, i, result>>
    BY <1>10 DEF StartCard, DiskInv, CallTypes
  <2> QED BY <1>1, <2>1 DEF LoopKept
<1>11. CASE WaitDone(u)
  <2>1. /\ disk_pc[u] = "wait" /\ disk_pc'[u] = "drain"
        /\ UNCHANGED <<op, uio_offset, uio_resid, tries, sector, len, i>>
    BY <1>11 DEF WaitDone, DiskInv, CallTypes
  <2> QED BY <1>1, <2>1 DEF LoopKept
<1>12. CASE TakeBuffer(u)
  <2>1. /\ disk_pc[u] = "drain" /\ disk_pc'[u] = (IF result'[u] = "0" THEN "loop" ELSE "returned")
        /\ i'[u] = i[u] + 1 /\ UNCHANGED <<op, tries, sector, len>>
    BY <1>12 DEF TakeBuffer, DiskInv, CallTypes
  <2>2. \/ op[u] = "read" /\ uio_offset'[u] = uio_offset[u] + 1 /\ uio_resid'[u] = uio_resid[u] - 1
        \/ UNCHANGED <<uio_offset, uio_resid>> /\ (op[u] = "write" \/ result'[u] # "0")
    BY <1>12 DEF TakeBuffer, UioAdvances, DiskInv, CallTypes
  <2>3. op[u] \in {"read", "write"}
    BY DEF DiskInv, CallTypes
  <2>4. CASE op[u] = "write"
    BY SMT, <1>1, <1>2, <1>3, <2>1, <2>2, <2>4 DEF LoopKept
  <2>5. CASE op[u] = "read"
    BY SMT, <1>1, <1>2, <1>3, <2>1, <2>2, <2>5 DEF LoopKept
  <2> QED BY <2>3, <2>4, <2>5
<1>13. CASE Retry(u)
  <2>1. /\ disk_pc[u] = "returned" /\ disk_pc'[u] = "call" /\ u \notin Raw /\ tries'[u] = tries[u] + 1
        /\ UNCHANGED <<op, uio_offset, uio_resid, sector, len, i, result>>
    BY <1>13 DEF Retry, DiskInv, CallTypes
  <2> QED BY SMT, <1>1, <1>2, <2>1 DEF LoopKept
<1>14. CASE DiskReturn(u)
  <2>1. /\ disk_pc[u] = "returned" /\ disk_pc'[u] = "done"
        /\ UNCHANGED <<op, uio_offset, uio_resid, tries, sector, len, i, result>>
    BY <1>14 DEF DiskReturn, DiskInv, CallTypes
  <2> QED BY <1>1, <2>1 DEF LoopKept
<1>15. CASE UNCHANGED <<uio_offset, uio_resid, tries, disk_pc, op, sector, len, i, result>>
  BY <1>1, <1>15 DEF LoopKept
<1>16. CASE CardFinishes \/ CardFails \/ LhdIrq \/ UNCHANGED diskVars
  BY <1>15, <1>16 DEF CardFinishes, CardFails, LhdIrq, diskVars
<1>17. CASE \E t \in Thread : ThreadStep(t)
  <2>1. PICK t \in Thread : ThreadStep(t)
    BY <1>17
  <2>2. CASE t = u
    BY <1>5, <1>6, <1>7, <1>8, <1>9, <1>10, <1>11, <1>12, <1>13, <1>14, <2>1, <2>2 DEF ThreadStep
  <2> QED BY <1>4, <2>1, <2>2
<1> QED BY <1>16, <1>17 DEF DiskNext

(* A thread that uses the card is at a sector of its request.              *)
LEMMA AtSector ==
    ASSUME DiskInv, NEW t \in Thread, UsesCard(t)
    PROVE  /\ sector[t] \in Nat /\ i[t] \in Nat /\ len[t] \in Nat
           /\ sector[t] + i[t] \in Sector /\ sector[t] + i[t] < First[t] + Count[t]
<1>1. sector[t] \in Nat /\ i[t] \in Nat /\ len[t] \in Nat
  BY SMT, Sectors DEF DiskInv, CallTypes
<1>2. sector[t] + len[t] = First[t] + Count[t] /\ i[t] < len[t]
  BY DEF DiskInv, LoopKept
<1> QED BY SMT, <1>1, <1>2, Sectors, Requests

(* The calls under way.                                                    *)
LEMMA CallTypesStep ==
    ASSUME DiskInv, [DiskNext]_diskVars
    PROVE  CallTypes'
<1>1. ASSUME NEW t \in Thread, LhdIo(t) PROVE CallTypes'
  BY SMT, <1>1, Sectors DEF DiskInv, CallTypes, LhdIo
<1>2. ASSUME NEW t \in Thread, LoopEnds(t) PROVE CallTypes'
  BY <1>2 DEF DiskInv, CallTypes, LoopEnds
<1>3. ASSUME NEW t \in Thread, WaitClear(t) PROVE CallTypes'
  BY <1>3 DEF DiskInv, CallTypes, WaitClear, CardClear
<1>4. ASSUME NEW t \in Thread, FillBuffer(t) PROVE CallTypes'
  BY SMT, <1>4, Sectors, Requests, AtSector DEF DiskInv, CallTypes, LoopKept, FillBuffer, UioAdvances
<1>5. ASSUME NEW t \in Thread, FillFails(t) PROVE CallTypes'
  BY <1>5 DEF DiskInv, CallTypes, FillFails
<1>6. ASSUME NEW t \in Thread, StartCard(t) PROVE CallTypes'
  BY <1>6 DEF DiskInv, CallTypes, StartCard
<1>7. ASSUME NEW t \in Thread, WaitDone(t) PROVE CallTypes'
  BY <1>7 DEF DiskInv, CallTypes, CardTypes, WaitDone, IsDone
<1>8. ASSUME NEW t \in Thread, TakeBuffer(t) PROVE CallTypes'
  BY SMT, <1>8, Sectors, Requests, AtSector DEF DiskInv, CallTypes, LoopKept, TakeBuffer, UioAdvances
<1>9. ASSUME NEW t \in Thread, Retry(t) PROVE CallTypes'
  BY SMT, <1>9, Sectors DEF DiskInv, CallTypes, Retry
<1>10. ASSUME NEW t \in Thread, DiskReturn(t) PROVE CallTypes'
  BY <1>10 DEF DiskInv, CallTypes, DiskReturn
<1>11. ASSUME UNCHANGED <<op, disk_pc, uio_offset, uio_resid, sector, len, i, tries, result>> PROVE CallTypes'
  BY <1>11 DEF DiskInv, CallTypes
<1> QED
  BY <1>1, <1>2, <1>3, <1>4, <1>5, <1>6, <1>7, <1>8, <1>9, <1>10, <1>11 DEF DiskNext, ThreadStep, diskVars,
     CardFinishes, CardFails, LhdIrq

(* The buffers and histories.                                              *)
LEMMA HistTypesStep ==
    ASSUME DiskInv, [DiskNext]_diskVars
    PROVE  HistTypes'
<1>1. ASSUME NEW t \in Thread, LhdIo(t) PROVE HistTypes'
  BY SMT, <1>1 DEF DiskInv, HistTypes, CardTypes, LhdIo
<1>2. ASSUME CardFinishes PROVE HistTypes'
  BY SMT, <1>2 DEF DiskInv, HistTypes, CardTypes, CardFinishes
<1>3. ASSUME NEW t \in Thread, TakeBuffer(t) PROVE HistTypes'
  <2>1. op[t] = "read" => uio_offset[t] \in Sector
    BY SMT, <1>3, AtSector DEF DiskInv, HistTypes, LoopKept, TakeBuffer
  <2>2. held' = held /\ landed' = landed
    BY <1>3 DEF DiskInv, HistTypes, TakeBuffer
  <2>3. \/ got' = got
        \/ uio_offset[t] \in Sector /\ got' = [got EXCEPT ![t][uio_offset[t]] = buf]
    BY <1>3, <2>1 DEF DiskInv, HistTypes, TakeBuffer
  <2>4. ASSUME uio_offset[t] \in Sector, got' = [got EXCEPT ![t][uio_offset[t]] = buf]
        PROVE  got' \in [Thread -> [Sector -> Value]]
    <3> DEFINE filled == [got[t] EXCEPT ![uio_offset[t]] = buf]
    <3>1. filled \in [Sector -> Value]
      BY <2>4 DEF DiskInv, HistTypes, CardTypes
    <3>2. got' = [got EXCEPT ![t] = filled]
      BY <2>4 DEF DiskInv, HistTypes
    <3> HIDE DEF filled
    <3> QED BY <3>1, <3>2 DEF DiskInv, HistTypes
  <2> QED BY <2>2, <2>3, <2>4 DEF DiskInv, HistTypes
<1>4. ASSUME UNCHANGED <<got, held, landed>> PROVE HistTypes'
  BY <1>4 DEF DiskInv, HistTypes
<1>5. ASSUME NEW t \in Thread, ThreadStep(t), ~ LhdIo(t), ~ TakeBuffer(t)
      PROVE  UNCHANGED <<got, held, landed>>
  BY <1>5 DEF ThreadStep, LoopEnds, WaitClear, FillBuffer, FillFails, StartCard, WaitDone, Retry, DiskReturn
<1>6. ASSUME CardFails \/ LhdIrq \/ UNCHANGED diskVars PROVE UNCHANGED <<got, held, landed>>
  BY <1>6 DEF CardFails, LhdIrq, diskVars
<1> QED BY <1>1, <1>2, <1>3, <1>4, <1>5, <1>6 DEF DiskNext

(* The card and its semaphores.                                            *)
LEMMA CardTypesStep ==
    ASSUME DiskInv, [DiskNext]_diskVars
    PROVE  CardTypes'
<1>1. ASSUME NEW t \in Thread, WaitClear(t) PROVE CardTypes'
  <2>1. lh_clear' = 0 /\ UNCHANGED <<lh_done, lh_result, stat, sect, buf, disk, errors>>
    BY <1>1 DEF WaitClear
  <2>2. lh_clear' \in 0..1
    BY SMT, <2>1
  <2>3. CardTypes
    BY DEF DiskInv
  <2> QED BY <2>1, <2>2, <2>3 DEF CardTypes
<1>2. ASSUME NEW t \in Thread, FillBuffer(t) PROVE CardTypes'
  BY <1>2, Values DEF DiskInv, CardTypes, FillBuffer, UioAdvances
<1>3. ASSUME NEW t \in Thread, FillFails(t) PROVE CardTypes'
  BY SMT, <1>3 DEF DiskInv, CardTypes, OneAtCard, FillFails
<1>4. ASSUME NEW t \in Thread, StartCard(t) PROVE CardTypes'
  BY <1>4, AtSector DEF DiskInv, CardTypes, StartCard
<1>5. ASSUME CardFinishes PROVE CardTypes'
  BY <1>5 DEF DiskInv, CardTypes, CardFinishes
<1>6. ASSUME CardFails PROVE CardTypes'
  BY SMT, <1>6, Sectors DEF DiskInv, CardTypes, CardFails
<1>7. ASSUME LhdIrq PROVE CardTypes'
  BY SMT, <1>7 DEF DiskInv, CardTypes, OneAtCard, LhdIrq, CodeToErrno
<1>8. ASSUME NEW t \in Thread, WaitDone(t) PROVE CardTypes'
  BY SMT, <1>8 DEF DiskInv, CardTypes, WaitDone, IsDone
<1>9. ASSUME NEW t \in Thread, TakeBuffer(t) PROVE CardTypes'
  BY SMT, <1>9 DEF DiskInv, CardTypes, OneAtCard, TakeBuffer, UioAdvances
<1>10. ASSUME UNCHANGED <<lh_clear, lh_done, lh_result, stat, sect, buf, disk, errors>> PROVE CardTypes'
  BY <1>10 DEF DiskInv, CardTypes
<1> QED
  <2>1. ASSUME NEW t \in Thread, LhdIo(t) \/ LoopEnds(t) \/ Retry(t) \/ DiskReturn(t) PROVE CardTypes'
    BY <1>10, <2>1 DEF LhdIo, LoopEnds, Retry, DiskReturn
  <2>2. ASSUME UNCHANGED diskVars PROVE CardTypes'
    BY <1>10, <2>2 DEF diskVars
  <2> QED
    BY <1>1, <1>2, <1>3, <1>4, <1>5, <1>6, <1>7, <1>8, <1>9, <2>1, <2>2 DEF DiskNext, ThreadStep

(* P(lh_clear) lets one thread to the card; it leaves with V.              *)
LEMMA OneAtCardStep ==
    ASSUME DiskInv, [DiskNext]_diskVars
    PROVE  OneAtCard'
<1>1. ASSUME NEW t \in Thread, LhdIo(t) PROVE OneAtCard'
  BY SMT, <1>1 DEF DiskInv, CardTypes, CallTypes, OneAtCard, LhdIo
<1>2. ASSUME NEW t \in Thread, LoopEnds(t) PROVE OneAtCard'
  BY SMT, <1>2 DEF DiskInv, CardTypes, CallTypes, OneAtCard, LoopEnds
<1>3. ASSUME NEW t \in Thread, WaitClear(t) PROVE OneAtCard'
  BY SMT, <1>3 DEF DiskInv, CardTypes, CallTypes, OneAtCard, WaitClear, CardClear
<1>4. ASSUME NEW t \in Thread, FillBuffer(t) PROVE OneAtCard'
  BY SMT, <1>4 DEF DiskInv, CardTypes, CallTypes, OneAtCard, FillBuffer, UioAdvances
<1>5. ASSUME NEW t \in Thread, FillFails(t) PROVE OneAtCard'
  BY SMT, <1>5 DEF DiskInv, CardTypes, CallTypes, OneAtCard, FillFails
<1>6. ASSUME NEW t \in Thread, StartCard(t) PROVE OneAtCard'
  BY SMT, <1>6 DEF DiskInv, CardTypes, CallTypes, OneAtCard, StartCard
<1>7. ASSUME NEW t \in Thread, WaitDone(t) PROVE OneAtCard'
  BY SMT, <1>7 DEF DiskInv, CardTypes, CallTypes, OneAtCard, WaitDone, IsDone
<1>8. ASSUME NEW t \in Thread, TakeBuffer(t) PROVE OneAtCard'
  BY SMT, <1>8 DEF DiskInv, CardTypes, CallTypes, OneAtCard, TakeBuffer, UioAdvances
<1>9. ASSUME NEW t \in Thread, Retry(t) PROVE OneAtCard'
  BY SMT, <1>9 DEF DiskInv, CardTypes, CallTypes, OneAtCard, Retry
<1>10. ASSUME NEW t \in Thread, DiskReturn(t) PROVE OneAtCard'
  BY SMT, <1>10 DEF DiskInv, CardTypes, CallTypes, OneAtCard, DiskReturn
<1>11. ASSUME CardFinishes PROVE OneAtCard'
  BY <1>11 DEF DiskInv, CardTypes, CallTypes, OneAtCard, CardFinishes
<1>12. ASSUME CardFails PROVE OneAtCard'
  BY <1>12 DEF DiskInv, CardTypes, CallTypes, OneAtCard, CardFails
<1>13. ASSUME LhdIrq PROVE OneAtCard'
  BY SMT, <1>13 DEF DiskInv, CardTypes, CallTypes, OneAtCard, LhdIrq, CodeToErrno
<1>14. ASSUME UNCHANGED <<lh_clear, lh_done, stat, disk_pc>> PROVE OneAtCard'
  BY <1>14 DEF DiskInv, CardTypes, CallTypes, OneAtCard
<1> QED
  BY <1>1, <1>2, <1>3, <1>4, <1>5, <1>6, <1>7, <1>8, <1>9, <1>10, <1>11, <1>12, <1>13, <1>14 DEF DiskNext,
     ThreadStep, diskVars

(* Before the first call the card is free and every request whole.         *)
LEMMA DiskInvInit == DiskInit => DiskInv
<1> SUFFICES ASSUME DiskInit PROVE DiskInv
  OBVIOUS
<1>1. CardTypes
  BY SMT, Sectors, Values DEF DiskInit, CardTypes
<1>2. CallTypes
  <2>1. Ops \subseteq [Thread -> {"read", "write"}]
    BY DiskConstants
  <2>2. First \in [Thread -> 0..NSectors] /\ Count \in [Thread -> 0..NSectors]
    BY SMT, DiskConstants, Requests, Sectors
  <2> QED BY SMT, <2>1, <2>2, Sectors DEF DiskInit, CallTypes
<1>3. HistTypes
  BY Values DEF DiskInit, HistTypes
<1>4. OneAtCard
  BY SMT DEF DiskInit, OneAtCard
<1>5. ASSUME NEW t \in Thread PROVE LoopKept(t)
  <2>1. /\ uio_offset[t] = First[t] /\ uio_resid[t] = Count[t]
        /\ tries[t] = 0 /\ disk_pc[t] = "call"
    BY DEF DiskInit
  <2> QED BY SMT, <2>1, Requests DEF LoopKept
<1>6. \A t \in Thread : CardKept(t)
  BY DEF DiskInit, CardKept, Answered
<1>7. \A t \in Thread : MovedKept(t)
  BY Requests, Sectors DEF DiskInit, MovedKept
<1> QED BY <1>1, <1>2, <1>3, <1>4, <1>5, <1>6, <1>7 DEF DiskInv

(* The sector that TakeBuffer moves, or has seen land.                     *)
LEMMA TakeStep ==
    ASSUME DiskInv, NEW u \in Thread, TakeBuffer(u)
    PROVE  MovedKept(u)'
<1>1. MovedKept(u) /\ LoopKept(u) /\ CardKept(u)
  BY DEF DiskInv
<1>2. /\ sector[u] \in Nat /\ i[u] \in Nat /\ len[u] \in Nat /\ uio_offset[u] \in Nat
      /\ op[u] \in {"read", "write"}
  BY SMT, Sectors DEF DiskInv, CallTypes
<1>3. /\ disk_pc[u] = "drain" /\ UNCHANGED <<op, held, landed, sector>> /\ i'[u] = i[u] + 1
      /\ disk_pc'[u] = IF result'[u] = "0" THEN "loop" ELSE "returned"
  BY DEF TakeBuffer, DiskInv, CallTypes
<1>4. CASE op[u] = "read"
  <2>1. uio_offset[u] = sector[u] + i[u] /\ uio_offset[u] \in Sector
    BY SMT, <1>1, <1>3, <1>4, AtSector DEF LoopKept
  <2>2. CASE UNCHANGED <<got, uio_offset>>
    BY <1>1, <1>3, <1>4, <2>2 DEF MovedKept
  <2>3. CASE /\ result[u] = "0" /\ got' = [got EXCEPT ![u][uio_offset[u]] = buf]
             /\ uio_offset' = [uio_offset EXCEPT ![u] = @ + 1]
    <3>1. buf \in held[u][uio_offset[u]]
      BY <1>1, <1>3, <1>4, <2>1, <2>3 DEF CardKept, Answered
    <3>2. uio_offset'[u] = uio_offset[u] + 1
      BY <2>3 DEF DiskInv, CallTypes
    <3>3. \A s \in Sector : got'[u][s] = IF s = uio_offset[u] THEN buf ELSE got[u][s]
      BY <2>1, <2>3 DEF DiskInv, HistTypes
    <3>4. ASSUME NEW s \in Sector, First[u] <= s, s < uio_offset'[u] PROVE got'[u][s] \in held[u][s]
      <4>1. CASE s = uio_offset[u]
        BY <3>1, <3>3, <4>1
      <4>2. CASE s # uio_offset[u]
        <5>1. s < uio_offset[u]
          BY SMT, <1>2, <3>2, <3>4, <4>2, Sectors
        <5> QED BY <1>1, <1>4, <3>3, <3>4, <4>2, <5>1 DEF MovedKept
      <4> QED BY <4>1, <4>2
    <3> QED BY <1>3, <1>4, <3>4 DEF MovedKept
  <2> QED BY <1>4, <2>2, <2>3 DEF TakeBuffer, UioAdvances
<1>5. CASE op[u] = "write"
  <2>1. result' = result
    BY <1>5 DEF TakeBuffer
  <2>2. result[u] = "0" => sector[u] + i[u] \in landed[u]
    BY <1>1, <1>3, <1>5 DEF CardKept, Answered
  <2>3. ASSUME u \in Raw, result[u] = "0", NEW s \in Sector, First[u] <= s, s < sector[u] + (i[u] + 1)
        PROVE  s \in landed[u]
    <3>1. CASE s = sector[u] + i[u]
      BY <2>2, <2>3, <3>1
    <3>2. CASE s # sector[u] + i[u]
      <4>1. s < sector[u] + i[u]
        BY SMT, <1>2, <2>3, <3>2, Sectors
      <4> QED BY <1>1, <1>3, <1>5, <2>3, <4>1 DEF MovedKept
    <3> QED BY <3>1, <3>2
  <2>4. u \in Raw /\ InLoop(u)' =>
           \A s \in Sector : First[u] <= s /\ s < sector'[u] + i'[u] => s \in landed'[u]
    BY <1>3, <2>1, <2>3
  <2>5. ~ (disk_pc'[u] \in {"returned", "done"} /\ result'[u] = "0")
    BY <1>3
  <2> QED BY <1>3, <1>5, <2>4, <2>5 DEF MovedKept
<1> QED BY <1>2, <1>4, <1>5

(* A step that moves nothing, and ends the loop only where it may end.     *)
LEMMA QuietStep ==
    ASSUME NEW u, MovedKept(u),
           UNCHANGED <<op[u], got[u], held[u], sector[u], i[u], landed[u]>>,
           op[u] = "read" => uio_offset'[u] = uio_offset[u],
           InLoop(u)' => InLoop(u),
           u \in Raw /\ disk_pc'[u] \in {"returned", "done"} /\ result'[u] = "0" =>
              \/ disk_pc[u] = "returned" /\ result[u] = "0"
              \/ InLoop(u) /\ sector[u] + i[u] = First[u] + Count[u]
    PROVE  MovedKept(u)'
<1>1. op[u] = "read" =>
         \A s \in Sector : First[u] <= s /\ s < uio_offset'[u] => got'[u][s] \in held'[u][s]
  BY DEF MovedKept
<1>2. u \in Raw /\ op[u] = "write" /\ InLoop(u)' =>
         \A s \in Sector : First[u] <= s /\ s < sector'[u] + i'[u] => s \in landed'[u]
  BY DEF MovedKept
<1>3. u \in Raw /\ op[u] = "write" /\ disk_pc'[u] \in {"returned", "done"} /\ result'[u] = "0" =>
         \A s \in Sector : First[u] <= s /\ s < First[u] + Count[u] => s \in landed'[u]
  BY DEF MovedKept
<1> QED BY <1>1, <1>2, <1>3 DEF MovedKept

(* What has been moved.                                                    *)
LEMMA MovedStep ==
    ASSUME DiskInv, [DiskNext]_diskVars, NEW u \in Thread
    PROVE  MovedKept(u)'
<1>1. MovedKept(u) /\ LoopKept(u) /\ CardKept(u)
  BY DEF DiskInv
<1>2. /\ sector[u] \in Nat /\ i[u] \in Nat /\ len[u] \in Nat /\ uio_offset[u] \in Nat /\ uio_resid[u] \in Nat
      /\ op[u] \in {"read", "write"}
  BY SMT, Sectors DEF DiskInv, CallTypes
<1>3. First[u] \in Nat /\ Count[u] \in Nat /\ First[u] + Count[u] <= NSectors
  BY Requests
<1>4. ASSUME NEW t \in Thread, ThreadStep(t), u # t PROVE MovedKept(u)'
  BY <1>1, <1>4, OthersWait DEF MovedKept
<1>6. CASE LhdIo(u)
  <2>1. /\ disk_pc[u] = "call" /\ disk_pc'[u] = "loop" /\ sector'[u] = uio_offset[u] /\ i'[u] = 0
        /\ UNCHANGED <<op, got, uio_offset, landed>>
        /\ held'[u] = IF tries[u] = 0 THEN [s \in Sector |-> {disk[s]}] ELSE held[u]
    BY <1>6 DEF LhdIo, DiskInv, CallTypes, HistTypes
  <2>2. tries[u] = 0 => uio_offset[u] = First[u]
    BY <1>1, <2>1 DEF LoopKept
  <2>3. u \in Raw => tries[u] = 0
    BY <1>1 DEF LoopKept
  <2>4. ASSUME op[u] = "read", NEW s \in Sector, First[u] <= s, s < uio_offset[u]
        PROVE  got[u][s] \in held'[u][s]
    <3>1. tries[u] # 0
      BY SMT, <1>3, <2>2, <2>4, Sectors
    <3> QED BY <1>1, <2>1, <2>4, <3>1 DEF MovedKept
  <2>5. ASSUME u \in Raw, NEW s \in Sector, First[u] <= s, s < sector'[u] + i'[u] PROVE FALSE
    BY SMT, <1>2, <1>3, <2>1, <2>2, <2>3, <2>5, Sectors
  <2> QED BY <2>1, <2>4, <2>5 DEF MovedKept
<1>7. CASE LoopEnds(u)
  <2>1. /\ disk_pc[u] = "loop" /\ disk_pc'[u] = "returned" /\ i[u] = len[u]
        /\ UNCHANGED <<op, got, uio_offset, landed, held, sector, i>>
    BY <1>7 DEF LoopEnds, DiskInv, CallTypes
  <2>2. sector[u] + i[u] = First[u] + Count[u]
    BY <1>1, <2>1 DEF LoopKept
  <2> QED BY <1>1, QuietStep, <2>1, <2>2
<1>8. CASE WaitClear(u)
  <2>1. /\ disk_pc[u] = "loop" /\ disk_pc'[u] \in {"fill", "start"}
        /\ UNCHANGED <<op, got, uio_offset, landed, held, sector, i>>
    BY <1>8 DEF WaitClear, DiskInv, CallTypes
  <2> QED BY <1>1, QuietStep, <2>1
<1>9. CASE FillBuffer(u)
  <2>1. /\ disk_pc[u] = "fill" /\ disk_pc'[u] = "start"
        /\ UNCHANGED <<op, got, landed, held, sector, i>>
    BY <1>9 DEF FillBuffer, DiskInv, CallTypes
  <2>2. op[u] = "write"
    BY <1>1, <2>1 DEF LoopKept
  <2> QED BY <1>1, QuietStep, <2>1, <2>2
<1>10. CASE FillFails(u)
  <2>1. /\ disk_pc[u] = "fill" /\ disk_pc'[u] = "returned" /\ result'[u] = "EFAULT"
        /\ UNCHANGED <<op, got, uio_offset, landed, held, sector, i>>
    BY <1>10 DEF FillFails, DiskInv, CallTypes
  <2> QED BY <1>1, QuietStep, <2>1
<1>11. CASE StartCard(u) \/ WaitDone(u)
  <2>1. /\ disk_pc[u] \in {"start", "wait"} /\ disk_pc'[u] \in {"wait", "drain"}
        /\ UNCHANGED <<op, got, uio_offset, landed, held, sector, i>>
    BY <1>11 DEF StartCard, WaitDone, DiskInv, CallTypes
  <2> QED BY <1>1, QuietStep, <2>1
<1>12. CASE Retry(u)
  <2>1. /\ disk_pc[u] = "returned" /\ disk_pc'[u] = "call"
        /\ UNCHANGED <<op, got, uio_offset, landed, held, sector, i>>
    BY <1>12 DEF Retry, DiskInv, CallTypes
  <2> QED BY <1>1, QuietStep, <2>1
<1>13. CASE DiskReturn(u)
  <2>1. /\ disk_pc[u] = "returned" /\ disk_pc'[u] = "done"
        /\ UNCHANGED <<op, got, uio_offset, landed, held, sector, i, result>>
    BY <1>13 DEF DiskReturn, DiskInv, CallTypes
  <2> QED BY <1>1, QuietStep, <2>1
<1>15. CASE CardFinishes
  <2>1. /\ UNCHANGED <<op, got, uio_offset, disk_pc, sector, i, result>> /\ landed[u] \subseteq landed'[u]
    BY <1>15 DEF CardFinishes
  <2>2. \A s \in Sector : held[u][s] \subseteq held'[u][s]
    BY <1>15 DEF CardFinishes, DiskInv, HistTypes
  <2> QED BY <1>1, <2>1, <2>2 DEF MovedKept
<1>16. CASE UNCHANGED <<op, uio_offset, got, held, disk_pc, sector, i, landed, result>>
  BY <1>1, <1>16 DEF MovedKept
<1>17. CASE CardFails \/ LhdIrq \/ UNCHANGED diskVars
  BY <1>16, <1>17 DEF CardFails, LhdIrq, diskVars
<1>18. CASE \E t \in Thread : ThreadStep(t)
  <2>1. PICK t \in Thread : ThreadStep(t)
    BY <1>18
  <2>2. CASE t = u
    BY <1>6, <1>7, <1>8, <1>9, <1>10, <1>11, <1>12, <1>13, <2>1, <2>2, TakeStep DEF ThreadStep
  <2> QED BY <1>4, <2>1, <2>2
<1> QED
  BY <1>15, <1>17, <1>18 DEF DiskNext

(* The card and the thread that waits for it.                              *)
LEMMA CardStep ==
    ASSUME DiskInv, [DiskNext]_diskVars, NEW u \in Thread
    PROVE  CardKept(u)'
<1>1. CardKept(u)
  BY DEF DiskInv
<1>2. op[u] \in {"read", "write"}
  BY DEF DiskInv, CallTypes
<1>3. ASSUME ~ UsesCard(u)' PROVE CardKept(u)'
  BY <1>3 DEF CardKept, Answered
<1>4. ASSUME UNCHANGED <<disk_pc[u], sector[u], i[u], op[u], result[u], held[u], landed[u]>>,
             UNCHANGED <<sect, iswrite, buf, stat, lh_result>>
      PROVE  CardKept(u)'
  BY <1>1, <1>4 DEF CardKept, Answered
<1>5. ASSUME NEW t \in Thread, ThreadStep(t), u # t PROVE CardKept(u)'
  <2>1. CASE ~ UsesCard(u)
    BY <1>3, <1>5, <2>1, OthersWait
  <2>2. CASE UsesCard(u)
    <3>1. ~ UsesCard(t) /\ lh_clear = 0
      BY <1>5, <2>2 DEF DiskInv, OneAtCard
    <3>2. LhdIo(t) \/ LoopEnds(t) \/ Retry(t) \/ DiskReturn(t)
      BY SMT, <1>5, <3>1
         DEF ThreadStep, WaitClear, CardClear, FillBuffer, FillFails, StartCard, WaitDone, TakeBuffer
    <3>3. UNCHANGED <<sect, iswrite, buf, stat, lh_result>>
      BY <3>2 DEF LhdIo, LoopEnds, Retry, DiskReturn
    <3> QED BY <1>4, <1>5, <3>3, OthersWait
  <2> QED BY <2>1, <2>2
<1>6. CASE LhdIo(u) \/ LoopEnds(u) \/ FillFails(u) \/ TakeBuffer(u) \/ Retry(u) \/ DiskReturn(u)
  <2>1. disk_pc'[u] \in {"loop", "returned", "call", "done"}
    BY <1>6 DEF LhdIo, LoopEnds, FillFails, TakeBuffer, Retry, DiskReturn, DiskInv, CallTypes
  <2> QED BY <1>3, <2>1
<1>7. CASE WaitClear(u) \/ FillBuffer(u) \/ StartCard(u) \/ WaitDone(u)
  <2>1. CASE WaitClear(u)
    <3>1. disk_pc'[u] = (IF op[u] = "write" THEN "fill" ELSE "start") /\ op' = op
      BY <2>1 DEF WaitClear, DiskInv, CallTypes
    <3> QED BY <3>1 DEF CardKept, Answered
  <2>2. CASE FillBuffer(u)
    <3>1. disk_pc'[u] = "start" /\ buf' = u
      BY <2>2 DEF FillBuffer, DiskInv, CallTypes
    <3> QED BY <3>1 DEF CardKept, Answered
  <2>3. CASE StartCard(u)
    <3>1. /\ disk_pc[u] = "start" /\ disk_pc'[u] = "wait" /\ stat' = "working" /\ buf' = buf
          /\ sect' = sector[u] + i[u] /\ UNCHANGED <<op, sector, i>>
      BY <2>3 DEF StartCard, DiskInv, CallTypes
    <3>2. iswrite' <=> op[u] = "write"
      BY <2>3 DEF StartCard
    <3> QED BY <1>1, <3>1, <3>2 DEF CardKept, Answered
  <2>4. CASE WaitDone(u)
    <3>1. /\ disk_pc[u] = "wait" /\ disk_pc'[u] = "drain" /\ result'[u] = lh_result
          /\ UNCHANGED <<op, sector, i, buf, held, landed>> /\ lh_done > 0
      BY <2>4 DEF WaitDone, IsDone, DiskInv, CallTypes
    <3>2. stat = "idle"
      BY SMT, <3>1 DEF DiskInv, OneAtCard, CardTypes
    <3> QED BY <1>1, <3>1, <3>2 DEF CardKept, Answered
  <2> QED BY <1>7, <2>1, <2>2, <2>3, <2>4
<1>8. CASE CardFinishes
  <2>1. disk_pc' = disk_pc /\ op' = op /\ sector' = sector /\ i' = i /\ stat = "working" /\ stat' = "ok"
        /\ sect' = sect /\ iswrite' = iswrite /\ result' = result
    BY <1>8 DEF CardFinishes
  <2>2. CASE disk_pc[u] # "wait"
    <3>1. ~ UsesCard(u)
      BY <2>1, <2>2 DEF DiskInv, OneAtCard
    <3> QED BY <1>3, <2>1, <3>1
  <2>3. CASE disk_pc[u] = "wait"
    <3>1. sect = sector[u] + i[u] /\ (iswrite <=> op[u] = "write") /\ sect \in Sector
      BY <1>1, <2>3 DEF DiskInv, CardTypes, CardKept
    <3>2. CASE op[u] = "write"
      <4>1. buf = u /\ buf' = buf /\ landed'[u] = landed[u] \cup {sect}
        BY <1>1, <1>8, <2>3, <3>1, <3>2 DEF CardFinishes, CardKept
      <4> QED BY <1>1, <2>1, <2>3, <3>1, <3>2, <4>1 DEF CardKept, Answered
    <3>3. CASE op[u] = "read"
      <4>1. buf' = disk[sect] /\ disk' = disk
        BY <1>8, <3>1, <3>3 DEF CardFinishes
      <4>2. held'[u][sect] = held[u][sect] \cup {disk[sect]}
        BY <1>8, <3>1, <4>1 DEF CardFinishes, DiskInv, HistTypes
      <4> QED BY <1>1, <2>1, <2>3, <3>1, <3>3, <4>1, <4>2 DEF CardKept, Answered
    <3> QED BY <1>2, <3>2, <3>3
  <2> QED BY <2>2, <2>3
<1>9. CASE CardFails
  <2>1. /\ stat' = "media" /\ UNCHANGED <<disk_pc, sector, i, op, result, held, landed, sect, iswrite, buf>>
    BY <1>9 DEF CardFails
  <2> QED BY <1>1, <2>1 DEF CardKept, Answered
<1>10. CASE LhdIrq
  <2>1. /\ stat \in {"ok", "media"} /\ stat' = "idle" /\ lh_result' = CodeToErrno(stat)
        /\ UNCHANGED <<disk_pc, sector, i, op, result, held, landed, sect, iswrite, buf>>
    BY <1>10 DEF LhdIrq
  <2> QED BY <1>1, <2>1 DEF CardKept, Answered, CodeToErrno
<1>11. CASE UNCHANGED diskVars
  BY <1>4, <1>11 DEF diskVars
<1>12. CASE \E t \in Thread : ThreadStep(t)
  <2>1. PICK t \in Thread : ThreadStep(t)
    BY <1>12
  <2>2. CASE t = u
    BY <1>6, <1>7, <2>1, <2>2 DEF ThreadStep
  <2> QED BY <1>5, <2>1, <2>2
<1> QED BY <1>8, <1>9, <1>10, <1>11, <1>12 DEF DiskNext

(* The invariant is inductive.                                             *)
LEMMA DiskInvStep == DiskInv /\ [DiskNext]_diskVars => DiskInv'
BY CardTypesStep, CallTypesStep, HistTypesStep, OneAtCardStep, LoopStep, CardStep, MovedStep
   DEF DiskInv

(* The flag that tells the card which way to go.                           *)
LEMMA IsWriteStep ==
    ASSUME iswrite \in BOOLEAN, [DiskNext]_diskVars
    PROVE  (iswrite \in BOOLEAN)'
<1>1. ASSUME NEW t \in Thread, StartCard(t) PROVE iswrite' \in BOOLEAN
  <2>1. iswrite' = (op[t] = "write")
    BY <1>1 DEF StartCard
  <2> QED BY <2>1
<1>2. ASSUME UNCHANGED iswrite PROVE iswrite' \in BOOLEAN
  BY <1>2
<1> QED
  BY <1>1, <1>2
  DEF DiskNext, ThreadStep, diskVars, LhdIo, LoopEnds, WaitClear, FillBuffer, FillFails, WaitDone,
      TakeBuffer, Retry, DiskReturn, CardFinishes, CardFails, LhdIrq

(* The invariant is stronger than DiskSound.                               *)
LEMMA InvIsSound == DiskInv /\ iswrite \in BOOLEAN => DiskSound
<1> SUFFICES ASSUME DiskInv, iswrite \in BOOLEAN PROVE DiskSound
  OBVIOUS
<1>1. DiskTypeOK
  BY DEF DiskInv, CardTypes, CallTypes, HistTypes, DiskTypeOK
<1>2. OneUser
  <2>1. lh_clear = 1 <=> ~ \E t \in Thread : UsesCard(t)
    BY SMT DEF DiskInv, CardTypes, OneAtCard
  <2>2. ASSUME stat # "idle" \/ lh_done > 0
        PROVE  \E t \in Thread : disk_pc[t] = "wait" /\ sect = sector[t] + i[t]
    <3>1. PICK t \in Thread : disk_pc[t] = "wait"
      BY <2>2 DEF DiskInv, OneAtCard
    <3> QED BY <3>1 DEF DiskInv, CardKept
  <2> QED BY <2>1, <2>2 DEF DiskInv, OneAtCard, OneUser
<1>3. ReadIsFresh
  <2> SUFFICES ASSUME NEW t \in Thread, NEW s \in Sector,
                      disk_pc[t] = "done", op[t] = "read", result[t] = "0",
                      s \in First[t]..(First[t] + Count[t] - 1)
               PROVE  uio_resid[t] = 0 /\ got[t][s] \in held[t][s]
    BY DEF ReadIsFresh
  <2>1. uio_resid[t] = 0 /\ uio_offset[t] \in Nat /\ uio_offset[t] + uio_resid[t] = First[t] + Count[t]
    BY SMT, Sectors DEF DiskInv, CallTypes, LoopKept
  <2>2. s \in Nat /\ First[t] <= s /\ s < uio_offset[t]
    BY SMT, <2>1, Sectors, Requests
  <2> QED BY <2>1, <2>2 DEF DiskInv, MovedKept
<1>4. RawWriteLands
  <2> SUFFICES ASSUME NEW t \in Raw, disk_pc[t] = "done", op[t] = "write", result[t] = "0",
                      NEW s \in First[t]..(First[t] + Count[t] - 1)
               PROVE  s \in landed[t]
    BY DEF RawWriteLands
  <2>1. t \in Thread
    BY DiskConstants
  <2>2. s \in Sector /\ First[t] <= s /\ s < First[t] + Count[t]
    BY SMT, <2>1, Sectors, Requests
  <2> QED BY <2>1, <2>2 DEF DiskInv, MovedKept
<1> QED BY <1>1, <1>2, <1>3, <1>4 DEF DiskSound

(* Every thread gets the outcome of its own operation: the card has one    *)
(* user at a time, a read that succeeds returns what its sectors held      *)
(* during the call and a raw write that succeeds is on the disk, for any   *)
(* numbers of threads, sectors, retries and errors and any requests.       *)
THEOREM DiskIsSound == DiskSpec => []DiskSound
<1>1. DiskInit => iswrite \in BOOLEAN
  BY DEF DiskInit
<1> QED BY <1>1, DiskInvInit, DiskInvStep, IsWriteStep, InvIsSound, PTL DEF DiskSpec
=============================================================================
