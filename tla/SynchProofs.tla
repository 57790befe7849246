---------------------------- MODULE SynchProofs ----------------------------
(***************************************************************************)
(* The primitives of synch.c are correct for any number of threads and     *)
(* objects.  The proof never looks into the run queue or sleepers[]: which *)
(* thread runs next, and in which order sleepers are woken, does not       *)
(* matter for safety.                                                      *)
(***************************************************************************)
EXTENDS Synch, TLAPS

USE NullIsNoObject, SynchConstants DEF SPL_HIGH

(* After boot nobody sleeps, no lock is held and the invariant holds.      *)
LEMMA InitIInv == SynchInit => SynchInv
  BY DEF SynchInit, SynchInv, CallTypeOK, OwnerHolds, NoLostWakeup, SplProtects,
         TestStillHolds, SleeperIsWaiter, SleepsOn, ThreadState, Control

(* Every step of P, V, the lock and condition variable operations, of the *)
(* scheduler and of an interrupt keeps it.                                 *)
LEMMA NextIInv == SynchInv /\ [SynchNext]_allSynchVars => SynchInv'
<1> SUFFICES ASSUME SynchInv, [SynchNext]_allSynchVars PROVE SynchInv'
  OBVIOUS
<1> USE DEF SynchInv, CallTypeOK, OwnerHolds, NoLostWakeup, SplProtects,
         TestStillHolds, SleeperIsWaiter, SleepsOn, ThreadState, Control, At, Goto, InterruptsOn, Idle,
         Splx, Available, Unlocked
<1>1. ASSUME NEW t \in Thread, NEW s \in Sem, PCall(t, s) PROVE SynchInv'
  BY <1>1 DEF PCall, synchVars
<1>2. ASSUME NEW t \in Thread, PBlocks(t) PROVE SynchInv'
  BY <1>2 DEF PBlocks, synchVars, schedVars
<1>3. ASSUME NEW t \in Thread, PSleep(t) PROVE SynchInv'
  BY <1>3 DEF PSleep, synchVars, SleepOn, ThreadSleep, SwitchOut, SwitchOutOf
<1>4. ASSUME NEW t \in Thread, PTakes(t) PROVE SynchInv'
  BY <1>4 DEF PTakes
<1>5. ASSUME NEW s \in Sem, VCall(s), \A t \in Thread : pc[t] # "P_sleep" PROVE SynchInv'
  <2>1. NoLostWakeup'
    BY <1>5 DEF VCall, ThreadWakeup, AwakenedState
  <2> QED
    BY <1>5, <2>1 DEF VCall, ThreadWakeup, AwakenedState, callVars
<1>6. ASSUME NEW s \in Sem, InterruptV(s) \/ \E t \in Thread : ThreadV(t, s) PROVE SynchInv'
  <2>1. \A t \in Thread : pc[t] # "P_sleep"
    BY <1>6 DEF InterruptV, ThreadV
  <2> QED BY <1>5, <1>6, <2>1 DEF InterruptV, ThreadV
<1>7. ASSUME NEW t \in Thread, NEW l \in Lock, AcquireCall(t, l) PROVE SynchInv'
  BY <1>7 DEF AcquireCall, synchVars
<1>8. ASSUME NEW t \in Thread, AcquireBlocks(t) PROVE SynchInv'
  BY <1>8 DEF AcquireBlocks, synchVars, schedVars
<1>9. ASSUME NEW t \in Thread, AcquireSleep(t) PROVE SynchInv'
  BY <1>9 DEF AcquireSleep, synchVars, SleepOn, ThreadSleep, SwitchOut, SwitchOutOf
<1>10. ASSUME NEW t \in Thread, AcquireTakes(t) PROVE SynchInv'
  BY <1>10 DEF AcquireTakes
<1>11. ASSUME NEW t \in Thread, NEW l \in Lock, ReleaseCall(t, l) PROVE SynchInv'
  BY <1>11 DEF ReleaseCall, ReleaseBody, ThreadWakeup, AwakenedState, callVars
<1>12. ASSUME NEW t \in Thread, NEW c \in CV, NEW l \in Lock, CvWaitCall(t, c, l) PROVE SynchInv'
  BY <1>12 DEF CvWaitCall, synchVars
<1>13. ASSUME NEW t \in Thread, CvWaitRelease(t) PROVE SynchInv'
  BY <1>13 DEF CvWaitRelease, ReleaseBody, ThreadWakeup, AwakenedState
<1>14. ASSUME NEW t \in Thread, CvWaitSleep(t) PROVE SynchInv'
  BY <1>14 DEF CvWaitSleep, synchVars, SleepOn, ThreadSleep, SwitchOut, SwitchOutOf
<1>15. ASSUME NEW t \in Thread, CvWaitAcquire(t) PROVE SynchInv'
  BY <1>15 DEF CvWaitAcquire, synchVars
<1>16. ASSUME NEW t \in Thread, CvWaitReturn(t) PROVE SynchInv'
  BY <1>16 DEF CvWaitReturn, synchVars
<1>17. ASSUME NEW t \in Thread, NEW c \in CV, CvSignal(t, c) PROVE SynchInv'
  <2>1. /\ tstate' \in [Thread -> ThreadState]
        /\ \A u \in Thread : tstate'[u] = "S_SLEEP" => tstate[u] = "S_SLEEP"
        /\ \A u \in Thread : tstate[u] = "S_RUN" => tstate'[u] = "S_RUN"
        /\ t_sleepaddr' = t_sleepaddr
    <3>1. CASE ~ HasSleepers(c) /\ UNCHANGED <<tstate, t_sleepaddr>>
      BY <3>1
    <3>2. ASSUME NEW w \in Thread, tstate' = [tstate EXCEPT ![w] = "S_READY"],
                 SleepsOn(w, c), t_sleepaddr' = t_sleepaddr
          PROVE  <2>1!1
      BY <3>2
    <3> QED BY <1>17, <3>1, <3>2 DEF CvSignal, ThreadWakeupOne
  <2> QED BY <1>17, <2>1 DEF CvSignal, synchVars, callVars
<1>18. ASSUME NEW t \in Thread, NEW c \in CV, CvBroadcast(t, c) PROVE SynchInv'
  BY <1>18 DEF CvBroadcast, ThreadWakeup, AwakenedState, synchVars, callVars
<1>19. CASE Preempt
  BY <1>19 DEF Preempt, SwitchOut, SwitchOutOf, synchVars, callVars
<1>20. ASSUME NEW t \in Thread, SynchDispatch(t) PROVE SynchInv'
  BY <1>20 DEF SynchDispatch, SwitchIn, synchVars, callVars
<1>21. CASE UNCHANGED allSynchVars
  BY <1>21 DEF allSynchVars, schedVars, synchVars, callVars
<1> QED
  BY <1>1, <1>2, <1>3, <1>4, <1>6, <1>7, <1>8, <1>9, <1>10, <1>11, <1>12, <1>13,
     <1>14, <1>15, <1>16, <1>17, <1>18, <1>19, <1>20, <1>21
     DEF SynchNext, PStep, LockStep, CvStep, IdleInterrupt

(* The inductive invariant holds in every reachable state.                 *)
THEOREM SynchInvariant == SynchSpec => []SynchInv
<1>1. SynchInit => SynchInv
  BY InitIInv
<1>2. SynchInv /\ [SynchNext]_allSynchVars => SynchInv'
  BY NextIInv
<1> QED BY <1>1, <1>2, PTL DEF SynchSpec

(* The refinement: an initial state of Synch is one of Monitor, ...        *)
LEMMA InitMonitor == SynchInit => M!Init
  BY DEF SynchInit, M!Init, Waiting, SleepsOn

(* ... and a step of Synch is one of Monitor or leaves it unchanged: P and *)
(* acquire take effect when the count or the lock is taken, wait when the  *)
(* lock is released.                                                       *)
LEMMA StepMonitor == SynchInv /\ [SynchNext]_allSynchVars => [M!Next]_(M!vars)
<1> SUFFICES ASSUME SynchInv, [SynchNext]_allSynchVars PROVE [M!Next]_(M!vars)
  OBVIOUS
<1> USE DEF SynchInv, CallTypeOK, OwnerHolds, NoLostWakeup, SplProtects, M!vars, Waiting,
         TestStillHolds, SleeperIsWaiter, SleepsOn, At, Goto,
         Splx, Available, Unlocked
<1>0. Waiting \in [CV -> SUBSET Thread] /\ Waiting' \in [CV -> SUBSET Thread]
  OBVIOUS
<1>1. ASSUME NEW t \in Thread, NEW s \in Sem, PCall(t, s) PROVE UNCHANGED M!vars
  BY <1>1 DEF PCall, synchVars
<1>2. ASSUME NEW t \in Thread, PBlocks(t) PROVE UNCHANGED M!vars
  BY <1>2 DEF PBlocks, synchVars, schedVars
<1>3. ASSUME NEW t \in Thread, PSleep(t) PROVE UNCHANGED M!vars
  BY <1>3 DEF PSleep, synchVars, SleepOn, ThreadSleep, SwitchOut, SwitchOutOf
<1>4. ASSUME NEW t \in Thread, PTakes(t) PROVE M!P(sem[t])
  BY <1>4 DEF PTakes, M!P
<1>5. ASSUME NEW s \in Sem, VCall(s) PROVE M!V(s)
  BY <1>5 DEF VCall, ThreadWakeup, AwakenedState, callVars, M!V
<1>7. ASSUME NEW t \in Thread, NEW l \in Lock, AcquireCall(t, l) PROVE UNCHANGED M!vars
  BY <1>7 DEF AcquireCall, synchVars
<1>8. ASSUME NEW t \in Thread, AcquireBlocks(t) PROVE UNCHANGED M!vars
  BY <1>8 DEF AcquireBlocks, synchVars, schedVars
<1>9. ASSUME NEW t \in Thread, AcquireSleep(t) PROVE UNCHANGED M!vars
  BY <1>9 DEF AcquireSleep, synchVars, SleepOn, ThreadSleep, SwitchOut, SwitchOutOf
<1>10. ASSUME NEW t \in Thread, AcquireTakes(t) PROVE M!Acquire(t, lock[t])
  BY <1>10 DEF AcquireTakes, M!Acquire
<1>11. ASSUME NEW t \in Thread, NEW l \in Lock, ReleaseCall(t, l) PROVE M!Release(t, l)
  BY <1>11 DEF ReleaseCall, ReleaseBody, ThreadWakeup, AwakenedState, callVars, M!Release
<1>12. ASSUME NEW t \in Thread, NEW c \in CV, NEW l \in Lock, CvWaitCall(t, c, l)
       PROVE  UNCHANGED M!vars
  BY <1>12 DEF CvWaitCall, synchVars
<1>13. ASSUME NEW t \in Thread, CvWaitRelease(t) PROVE M!Wait(t, cv[t], lock[t])
  <2>1. lock[t] \in Lock /\ owner[lock[t]] = t /\ cv[t] \in CV
    BY <1>13 DEF CvWaitRelease
  <2>2. \A d \in CV, u \in Thread : SleepsOn(u, d)' <=> SleepsOn(u, d)
    BY <1>13, <2>1 DEF CvWaitRelease, ReleaseBody, ThreadWakeup, AwakenedState
  <2>3. \A u \in Thread : pc'[u] = (IF u = t THEN "cv_sleep" ELSE pc[u]) /\ cv'[u] = cv[u]
    BY <1>13 DEF CvWaitRelease
  <2>4. ASSUME NEW d \in CV
        PROVE  Waiting'[d] = IF d = cv[t] THEN Waiting[d] \cup {t} ELSE Waiting[d]
    <3>1. ASSUME NEW u \in Thread
          PROVE  u \in Waiting'[d] <=> u \in Waiting[d] \/ (u = t /\ d = cv[t])
      BY <1>13, <2>1, <2>2, <2>3 DEF CvWaitRelease
    <3> QED BY <3>1
  <2>5. Waiting' = [Waiting EXCEPT ![cv[t]] = @ \cup {t}]
    <3> HIDE DEF Waiting
    <3> QED BY <1>0, <2>1, <2>4
  <2> QED BY <1>13, <2>1, <2>5 DEF CvWaitRelease, ReleaseBody, M!Wait
<1>14. ASSUME NEW t \in Thread, CvWaitSleep(t) PROVE UNCHANGED M!vars
  BY <1>14 DEF CvWaitSleep, synchVars, SleepOn, ThreadSleep, SwitchOut, SwitchOutOf
<1>15. ASSUME NEW t \in Thread, CvWaitAcquire(t) PROVE UNCHANGED M!vars
  BY <1>15 DEF CvWaitAcquire, synchVars
<1>16. ASSUME NEW t \in Thread, CvWaitReturn(t) PROVE UNCHANGED M!vars
  BY <1>16 DEF CvWaitReturn, synchVars
<1>17. ASSUME NEW t \in Thread, NEW c \in CV, CvSignal(t, c)
       PROVE  (\E w \in Thread : M!Signal(t, c, w)) \/ UNCHANGED M!vars
  <2>1. CASE ~ HasSleepers(c) /\ UNCHANGED <<tstate, t_sleepaddr>>
    BY <1>17, <2>1 DEF CvSignal, synchVars, callVars
  <2>2. ASSUME NEW w \in Thread, SleepsOn(w, c), t_sleepaddr' = t_sleepaddr,
               tstate' = [tstate EXCEPT ![w] = "S_READY"]
        PROVE  M!Signal(t, c, w)
    <3>1. cv[w] = c /\ pc[w] = "cv_acquire" /\ w \in Waiting[c]
      BY <2>2
    <3>2. ASSUME NEW d \in CV
          PROVE  Waiting'[d] = IF d = c THEN Waiting[d] \ {w} ELSE Waiting[d]
      <4>1. ASSUME NEW u \in Thread
            PROVE  u \in Waiting'[d] <=> u \in Waiting[d] /\ ~ (u = w /\ d = c)
        BY <1>17, <2>2, <3>1 DEF CvSignal, callVars
      <4> QED BY <4>1
    <3>3. Waiting' = [Waiting EXCEPT ![c] = @ \ {w}]
      <4> HIDE DEF Waiting
      <4> QED BY <1>0, <3>2
    <3>4. \E l \in Lock : owner[l] = t
      BY <1>17 DEF CvSignal
    <3> QED BY <1>17, <3>1, <3>3, <3>4 DEF CvSignal, synchVars, M!Signal
  <2> QED BY <1>17, <2>1, <2>2 DEF CvSignal, ThreadWakeupOne
<1>18. ASSUME NEW t \in Thread, NEW c \in CV, CvBroadcast(t, c) PROVE M!Broadcast(t, c)
  <2>1. \A u \in Thread : pc[u] # "cv_sleep"
    BY <1>18 DEF CvBroadcast
  <2>2. \A d \in CV, u \in Thread : SleepsOn(u, d)' <=> SleepsOn(u, d) /\ d # c
    BY <1>18 DEF CvBroadcast, ThreadWakeup, AwakenedState
  <2>3. ASSUME NEW d \in CV
        PROVE  Waiting'[d] = IF d = c THEN {} ELSE Waiting[d]
    <3>1. ASSUME NEW u \in Thread
          PROVE  u \in Waiting'[d] <=> u \in Waiting[d] /\ d # c
      BY <1>18, <2>1, <2>2 DEF CvBroadcast, callVars
    <3> QED BY <3>1
  <2>4. Waiting' = [Waiting EXCEPT ![c] = {}]
    <3> HIDE DEF Waiting
    <3> QED BY <1>0, <2>3
  <2>5. \E l \in Lock : owner[l] = t
    BY <1>18 DEF CvBroadcast
  <2> QED BY <1>18, <2>4, <2>5 DEF CvBroadcast, synchVars, M!Broadcast
<1>19. CASE Preempt
  <2> UNCHANGED M!vars
    BY <1>19 DEF Preempt, SwitchOut, SwitchOutOf, synchVars, callVars
  <2> QED OBVIOUS
<1>20. ASSUME NEW t \in Thread, SynchDispatch(t) PROVE UNCHANGED M!vars
  BY <1>20 DEF SynchDispatch, SwitchIn, synchVars, callVars
<1>21. CASE UNCHANGED allSynchVars
  BY <1>21 DEF allSynchVars, schedVars, synchVars, callVars
<1> HIDE DEF SynchInv, CallTypeOK, OwnerHolds, NoLostWakeup, SplProtects, M!vars, Waiting,
         SleeperIsWaiter, SleepsOn, Goto
<1> QED
  BY <1>1, <1>2, <1>3, <1>4, <1>5, <1>7, <1>8, <1>9, <1>10, <1>11, <1>12, <1>13,
     <1>14, <1>15, <1>16, <1>17, <1>18, <1>19, <1>20, <1>21
     DEF SynchNext, PStep, LockStep, CvStep, ThreadV, InterruptV, IdleInterrupt, M!Next,
         SynchInv, PTakes, AcquireTakes, CvWaitRelease

(* The primitives implement the atomic operations synch.h promises.        *)
THEOREM SynchImplementsMonitor == SynchSpec => ImplementsMonitor
<1>1. SynchInit => M!Init
  BY InitMonitor
<1>2. SynchInv /\ [SynchNext]_allSynchVars => [M!Next]_(M!vars)
  BY StepMonitor
<1> QED BY <1>1, <1>2, SynchInvariant, PTL DEF SynchSpec, M!Spec, ImplementsMonitor

(* No lock is ever held by two threads.                                    *)
THEOREM LockExcludes == SynchSpec => []MutualExclusion
<1>1. SynchInv => MutualExclusion
  BY DEF SynchInv, OwnerHolds, MutualExclusion
<1> QED BY <1>1, SynchInvariant, PTL

(* Nobody sleeps on a positive semaphore or a free lock.                   *)
THEOREM WakeupsAreNotLost == SynchSpec => []NoLostWakeup
<1>1. SynchInv => NoLostWakeup
  BY DEF SynchInv
<1> QED BY <1>1, SynchInvariant, PTL

(* A thread in cv_wait sleeps before anybody can signal.                   *)
THEOREM WaitIsAtomic == SynchSpec => []WaiterSleepsFirst
<1>1. SynchInv => WaiterSleepsFirst
  BY DEF SynchInv, TestStillHolds, WaiterSleepsFirst
<1> QED BY <1>1, SynchInvariant, PTL
=============================================================================
