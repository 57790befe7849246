---------------------------- MODULE PanicProofs ----------------------------
(***************************************************************************)
(* panic() is orderly for every set of threads that call it.               *)
(***************************************************************************)
EXTENDS Panic, SequenceTheorems, TLAPS

(* Where a thread is when it is not between a test of evil and the end of  *)
(* the stage the test let it into.                                         *)
Calm == {"run", "say", "vfs"}
Elsewhere == Calm \cup {"t1", "t2", "t3", "t4", "t5", "spin"}
Setting == {"s1", "s2", "s3", "s4", "s5"}
Stages == {"spl", "kill", "print", "sync", "off"}

PanicType ==
    /\ stages \in Seq(1..5) /\ evil \in 0..5 /\ alone \in 0..Len(stages)
    /\ place \in [PThreads -> Elsewhere \cup Setting \cup Stages]
    /\ level \in [PThreads -> {0, 1}] /\ running \in PThreads
    /\ budget \in Nat /\ boot \in 0..4 /\ lone \in BOOLEAN

(* The stages tried from the n-th on, and evil, are as if thread t was the *)
(* only one to panic since: a stage is entered with evil at its number and *)
(* only smaller ones tried.  (No step follows md_panic's power-off.)       *)
TriedFrom(n) ==
    /\ \A i \in From(n) : stages[i] <= evil
    /\ \A i, j \in From(n) : i < j => stages[i] < stages[j]
EvilFits(t, n) ==
    \A k \in 1..5 :
        /\ place[t] = Sets[k] => evil = k - 1
        /\ place[t] = Order[k] => evil = k /\ (~ off => \A i \in From(n) : stages[i] < k)
Tied(t, n) == TriedFrom(n) /\ EvilFits(t, n)

(* Until the other threads run, only the main one does anything, and its   *)
(* interrupts are off until the console is there.                          *)
BootInv ==
    /\ boot < 4 => running = MainThread /\ \A u \in PThreads \ {MainThread} : place[u] = "run"
    /\ boot < 3 => level[MainThread] = 1

(* A thread with interrupts off goes from the test to thread_panic with    *)
(* nothing in between.                                                     *)
Firm ==
    \A t \in PThreads : level[t] > 0 =>
        /\ place[t] = "s2" => running = t /\ evil = 1
        /\ place[t] = "kill" => running = t /\ evil = 2

(* One thread panics by itself, or the main one because the delay buffer   *)
(* is full.                                                                *)
LoneInv ==
    lone => /\ budget \in {0, 1}
            /\ \A t, u \in PThreads : place[t] \notin Calm /\ place[u] \notin Calm => t = u
            /\ \A t \in PThreads : place[t] \notin Calm => budget = 0 \/ boot < 3
            /\ \A t \in PThreads : Tied(t, 1)

(* Once the others are dropped, the thread that dropped them stays.        *)
AloneInv == alone > 0 => dropped = PThreads \ {running} /\ Tied(running, alone)

StagesInv == PanicType /\ BootInv /\ Firm /\ LoneInv /\ AloneInv

LEMMA NamesAre ==
    /\ Order[1] = "spl" /\ Order[2] = "kill" /\ Order[3] = "print" /\ Order[4] = "sync"
    /\ Order[5] = "off"
    /\ Sets[1] = "s1" /\ Sets[2] = "s2" /\ Sets[3] = "s3" /\ Sets[4] = "s4" /\ Sets[5] = "s5"
    /\ \A k \in 1..5 : After[k] \in Elsewhere \ Calm /\ Tests[k] \in Elsewhere \ Calm
BY DEF Order, Sets, After, Tests, Elsewhere, Calm

LEMMA NamesDiffer ==
    /\ \A i, k \in 1..5 : (Order[i] = Order[k] => i = k) /\ (Sets[i] = Sets[k] => i = k)
    /\ \A i, k \in 1..5 : Order[i] # Sets[k]
    /\ \A k \in 1..5 : /\ Order[k] \notin Elsewhere /\ Order[k] \in Stages
                       /\ Sets[k] \notin Elsewhere /\ Sets[k] \in Setting
    /\ \A w \in Elsewhere : w # "s2" /\ w # "kill"
<1>1. \A k \in 1..5 : k = 1 \/ k = 2 \/ k = 3 \/ k = 4 \/ k = 5
  OBVIOUS
<1> QED BY <1>1, NamesAre DEF Elsewhere, Calm, Stages, Setting

(* What a step of thread t may do to evil and the stages: go elsewhere,    *)
(* enter a test's branch, set evil, or end a stage.                        *)
GoesElsewhere(t) == \E w \in Elsewhere : place' = [place EXCEPT ![t] = w]
Passes(t) == UNCHANGED <<stages, evil, off>> /\ GoesElsewhere(t)
Enters(t, k) ==
    evil = k - 1 /\ place' = [place EXCEPT ![t] = Sets[k]] /\ UNCHANGED <<stages, evil, off>>
Advances(t, k) ==
    /\ place[t] = Sets[k] /\ place' = [place EXCEPT ![t] = Order[k]]
    /\ evil' = k /\ UNCHANGED <<stages, off>>
Ends(t, k) ==
    /\ ~ off /\ place[t] = Order[k] /\ stages' = Append(stages, k) /\ evil' = evil
    /\ \/ UNCHANGED off /\ GoesElsewhere(t)
       \/ off' = TRUE /\ UNCHANGED place
Acts(t) == Passes(t) \/ \E k \in 1..5 : Enters(t, k) \/ Advances(t, k) \/ Ends(t, k)

LEMMA ActsTied ==
    ASSUME PanicType, NEW t \in PThreads, NEW n \in Nat, Tied(t, n), Acts(t)
    PROVE  Tied(t, n)'
<1>0. /\ place \in [PThreads -> Elsewhere \cup Setting \cup Stages]
      /\ stages \in Seq(1..5) /\ evil \in 0..5
  BY DEF PanicType
<1>1. CASE Passes(t)
  <2>1. place'[t] \in Elsewhere /\ evil' = evil /\ stages' = stages
    BY <1>0, <1>1 DEF Passes, GoesElsewhere
  <2>2. TriedFrom(n)'
    BY <2>1 DEF Tied, TriedFrom, From
  <2>3. EvilFits(t, n)'
    BY <2>1, NamesDiffer DEF EvilFits
  <2> QED BY <2>2, <2>3 DEF Tied
<1>2. ASSUME NEW k \in 1..5, Enters(t, k) PROVE Tied(t, n)'
  <2>1. place'[t] = Sets[k] /\ evil' = k - 1 /\ evil' = evil /\ stages' = stages
    BY <1>0, <1>2 DEF Enters
  <2>2. TriedFrom(n)'
    BY <2>1 DEF Tied, TriedFrom, From
  <2>3. EvilFits(t, n)'
    BY <2>1, NamesDiffer DEF EvilFits
  <2> QED BY <2>2, <2>3 DEF Tied
<1>3. ASSUME NEW k \in 1..5, Advances(t, k) PROVE Tied(t, n)'
  <2>1. place'[t] = Order[k] /\ evil' = k /\ stages' = stages /\ place[t] = Sets[k]
    BY <1>0, <1>3 DEF Advances
  <2>2. evil = k - 1
    BY <2>1 DEF Tied, EvilFits
  <2>3. From(n)' = From(n) /\ \A i \in From(n) : stages[i] \in 1..5 /\ stages[i] <= k - 1
    BY <1>0, <2>1, <2>2 DEF Tied, TriedFrom, From
  <2>4. TriedFrom(n)'
    BY <2>1, <2>3 DEF Tied, TriedFrom
  <2>5. EvilFits(t, n)'
    BY <2>1, <2>3, NamesDiffer DEF EvilFits
  <2> QED BY <2>4, <2>5 DEF Tied
<1>4. ASSUME NEW k \in 1..5, Ends(t, k) PROVE Tied(t, n)'
  <2>1. /\ ~ off /\ place[t] = Order[k] /\ stages' = Append(stages, k) /\ evil' = evil
        /\ place'[t] \in Elsewhere \/ (off' /\ place'[t] = Order[k])
    BY <1>0, <1>4 DEF Ends, GoesElsewhere
  <2>2. evil = k /\ \A i \in From(n) : stages[i] < k
    BY <2>1 DEF Tied, EvilFits
  <2>3. DOMAIN stages = 1..Len(stages) /\ DOMAIN stages' = 1..(Len(stages) + 1) /\ Len(stages) \in Nat
        /\ stages'[Len(stages) + 1] = k /\ \A i \in 1..Len(stages) : stages'[i] = stages[i]
    BY <1>0, <2>1
  <2>4. \A i \in From(n)' : \/ i \in From(n) /\ stages'[i] = stages[i] /\ i < Len(stages) + 1
                            \/ i = Len(stages) + 1 /\ stages'[i] = k
    BY <2>3 DEF From
  <2>5. \A i \in From(n) : stages[i] \in 1..5
    BY <1>0 DEF From
  <2>6. TriedFrom(n)'
    <3>1. ASSUME NEW i \in From(n)' PROVE stages'[i] <= evil'
      <4>1. evil' = k
        BY <2>1, <2>2
      <4>2. CASE i \in From(n) /\ stages'[i] = stages[i]
        BY <4>1, <4>2, <2>2, <2>5
      <4>3. CASE stages'[i] = k
        BY <4>1, <4>3
      <4> QED BY <4>2, <4>3, <2>4
    <3>2. ASSUME NEW i \in From(n)', NEW j \in From(n)', i < j PROVE stages'[i] < stages'[j]
      <4>1. i \in Nat /\ j \in Nat
        BY <2>3 DEF From
      <4>2. i # Len(stages) + 1
        BY <3>2, <4>1, <2>3, <2>4 DEF From
      <4>3. i \in From(n) /\ stages'[i] = stages[i]
        BY <4>2, <2>4
      <4> QED BY <3>2, <4>3, <2>2, <2>4 DEF Tied, TriedFrom
    <3> QED BY <3>1, <3>2 DEF TriedFrom
  <2>7. EvilFits(t, n)'
    BY <2>1, <2>2, NamesDiffer DEF EvilFits
  <2> QED BY <2>6, <2>7 DEF Tied
<1> QED BY <1>1, <1>2, <1>3, <1>4 DEF Acts

(* A thread elsewhere fits whatever the stages are.                        *)
LEMMA ElsewhereTied ==
    ASSUME NEW t, NEW n, TriedFrom(n), place[t] \in Elsewhere
    PROVE  Tied(t, n)
BY NamesDiffer DEF Tied, EvilFits

LEMMA StagesInit == PanicInit => StagesInv
<1> SUFFICES ASSUME PanicInit PROVE StagesInv
  OBVIOUS
<1>1. PanicType
  BY PanicConstants DEF PanicInit, PanicType, Elsewhere, Calm
<1>2. \A t \in PThreads : place[t] = "run"
  BY DEF PanicInit
<1>3. BootInv
  BY <1>2, PanicConstants DEF PanicInit, BootInv
<1>4. Firm
  BY <1>2 DEF Firm
<1>5. From(1) = {} /\ alone = 0
  BY DEF PanicInit, From
<1>6. TriedFrom(1)
  BY <1>5 DEF TriedFrom
<1>7. \A t \in PThreads : Tied(t, 1)
  BY <1>2, <1>6, ElsewhereTied DEF Elsewhere, Calm
<1>8. LoneInv
  BY <1>2, <1>7 DEF LoneInv, PanicInit, Calm
<1>9. AloneInv
  BY <1>5 DEF AloneInv
<1> QED BY <1>1, <1>3, <1>4, <1>8, <1>9 DEF StagesInv

(* What the steps of the running thread t are.                             *)
Moving(t) == Say(t) \/ SayDone(t) \/ VfsEnter(t) \/ VfsLeave(t)
Ending(t) == SplStage(t) \/ KillStage(t) \/ PrintStage(t) \/ SyncStage(t) \/ OffStage(t)
Acting(t) ==
    Moving(t) \/ StartPanic(t) \/ Ending(t) \/ \E k \in 1..5 : Test(t, k) \/ SetEvil(t, k)

LEMMA ActingActs ==
    ASSUME NEW t \in PThreads, Acting(t)
    PROVE  Acts(t)
<1>1. CASE Moving(t) \/ StartPanic(t)
  <2>1. UNCHANGED <<stages, evil, off>>
    BY <1>1 DEF Moving, Say, SayDone, VfsEnter, VfsLeave, StartPanic, stageVars
  <2>2. GoesElsewhere(t)
    BY <1>1 DEF Moving, Say, SayDone, VfsEnter, VfsLeave, StartPanic, Putch, Moves, GoesElsewhere,
                Elsewhere, Calm
  <2> QED BY <2>1, <2>2 DEF Acts, Passes
<1>2. ASSUME NEW k \in 1..5, Test(t, k) PROVE Acts(t)
  <2>1. UNCHANGED <<stages, evil, off>>
    BY <1>2 DEF Test, stageVars
  <2>2. CASE evil = k - 1
    <3>1. place' = [place EXCEPT ![t] = Sets[k]]
      BY <1>2, <2>2 DEF Test, Moves
    <3> QED BY <2>1, <2>2, <3>1 DEF Acts, Enters
  <2>3. CASE evil # k - 1
    <3>1. place' = [place EXCEPT ![t] = After[k]] /\ After[k] \in Elsewhere
      BY <1>2, <2>3, NamesAre DEF Test, Moves
    <3>2. GoesElsewhere(t)
      BY <3>1 DEF GoesElsewhere
    <3> QED BY <2>1, <3>2 DEF Acts, Passes
  <2> QED BY <2>2, <2>3
<1>3. ASSUME NEW k \in 1..5, SetEvil(t, k) PROVE Acts(t)
  <2>1. Advances(t, k)
    BY <1>3 DEF SetEvil, Moves, Runs, Advances, stageVars
  <2> QED BY <2>1 DEF Acts
<1>4. CASE Ending(t)
  <2>1. evil' = evil /\ ~ off
    BY <1>4 DEF Ending, SplStage, KillStage, PrintStage, SyncStage, OffStage, Runs
  <2>2. \E k \in 1..5 : place[t] = Order[k] /\ stages' = Append(stages, k)
    BY <1>4, NamesAre
       DEF Ending, SplStage, KillStage, PrintStage, SyncStage, OffStage, Runs, Tried
  <2>3. \/ UNCHANGED off /\ GoesElsewhere(t)
        \/ off' = TRUE /\ UNCHANGED place
    <3>1. CASE OffStage(t)
      BY <3>1 DEF OffStage
    <3>2. CASE SplStage(t) \/ KillStage(t) \/ SyncStage(t)
      <4>1. UNCHANGED off
        BY <3>2 DEF SplStage, KillStage, SyncStage
      <4>2. GoesElsewhere(t)
        BY <3>2 DEF SplStage, KillStage, SyncStage, Moves, GoesElsewhere, Elsewhere
      <4> QED BY <4>1, <4>2
    <3>3. CASE PrintStage(t)
      <4>1. UNCHANGED off
        BY <3>3 DEF PrintStage
      <4>2. GoesElsewhere(t)
        BY <3>3 DEF PrintStage, Putch, Moves, GoesElsewhere, Elsewhere
      <4> QED BY <4>1, <4>2
    <3> QED BY <1>4, <3>1, <3>2, <3>3 DEF Ending
  <2> QED BY <2>1, <2>2, <2>3 DEF Acts, Ends
<1> QED BY <1>1, <1>2, <1>3, <1>4 DEF Acting

(* What else such a step leaves alone: only the acting thread, which runs, *)
(* moves, and its interrupts go off but never on.                          *)
LEMMA ActingKeeps ==
    ASSUME NEW t \in PThreads, Acting(t), PanicType
    PROVE  /\ running = t /\ running' = t /\ lone' = lone /\ boot' = boot
           /\ \A u \in PThreads \ {t} : place'[u] = place[u] /\ level'[u] = level[u]
           /\ level' = level \/ level' = [level EXCEPT ![t] = 1]
           /\ budget' = budget \/ StartPanic(t)
           /\ UNCHANGED <<alone, dropped>> \/ KillStage(t)
<1>1. running = t /\ running' = t /\ lone' = lone /\ boot' = boot
  BY DEF Acting, Moving, Ending, Say, SayDone, VfsEnter, VfsLeave, StartPanic, Test, SetEvil,
         SplStage, KillStage, PrintStage, SyncStage, OffStage, Runs
<1>2. level' = level \/ level' = [level EXCEPT ![t] = 1]
  BY DEF Acting, Moving, Ending, Say, SayDone, VfsEnter, VfsLeave, StartPanic, Test, SetEvil,
         SplStage, KillStage, PrintStage, SyncStage, OffStage
<1>3. budget' = budget \/ StartPanic(t)
  BY DEF Acting, Moving, Ending, Say, SayDone, VfsEnter, VfsLeave, Test, SetEvil,
         SplStage, KillStage, PrintStage, SyncStage, OffStage
<1>4. UNCHANGED <<alone, dropped>> \/ KillStage(t)
  BY DEF Acting, Moving, Ending, Say, SayDone, VfsEnter, VfsLeave, StartPanic, Test, SetEvil,
         SplStage, PrintStage, SyncStage, OffStage, stageVars
<1>5. \A u \in PThreads \ {t} : place'[u] = place[u]
  BY ActingActs DEF Acts, Passes, Enters, Advances, Ends, GoesElsewhere, PanicType
<1>6. \A u \in PThreads \ {t} : level'[u] = level[u]
  BY <1>2 DEF PanicType
<1> QED BY <1>1, <1>2, <1>3, <1>4, <1>5, <1>6

LEMMA TypeStep ==
    ASSUME StagesInv, NEW t \in PThreads, Acting(t)
    PROVE  PanicType'
<1>0. PanicType
  BY DEF StagesInv
<1>1. Acts(t)
  BY ActingActs
<1>2. place' \in [PThreads -> Elsewhere \cup Setting \cup Stages]
  BY <1>0, <1>1, NamesDiffer DEF PanicType, Acts, Passes, Enters, Advances, Ends, GoesElsewhere
<1>3. stages' \in Seq(1..5) /\ evil' \in 0..5 /\ Len(stages') \in Nat /\ Len(stages) <= Len(stages')
  <2>1. stages \in Seq(1..5) /\ evil \in 0..5 /\ Len(stages) \in Nat
    BY <1>0 DEF PanicType
  <2>2. CASE UNCHANGED stages /\ evil' \in 0..5
    BY <2>1, <2>2
  <2>3. ASSUME NEW k \in 1..5, stages' = Append(stages, k), evil' = evil
        PROVE  stages' \in Seq(1..5) /\ Len(stages') = Len(stages) + 1 /\ evil' \in 0..5
    BY <2>1, <2>3
  <2>4. \/ UNCHANGED stages /\ evil' \in 0..5
        \/ \E k \in 1..5 : stages' = Append(stages, k) /\ evil' = evil
    BY <1>1, <2>1 DEF Acts, Passes, Enters, Advances, Ends
  <2> QED BY <2>1, <2>2, <2>3, <2>4
<1>4. alone' \in 0..Len(stages')
  <2>1. CASE alone' = alone
    BY <2>1, <1>0, <1>3 DEF PanicType
  <2>2. CASE KillStage(t)
    <3>1. stages' = Append(stages, 2) /\ (alone' = Len(stages) + 1 \/ alone' = alone)
      BY <2>2 DEF KillStage, Tried
    <3> QED BY <3>1, <2>1, <1>0 DEF PanicType
  <2> QED BY <2>1, <2>2, <1>0, ActingKeeps
<1>5. level' \in [PThreads -> {0, 1}] /\ running' \in PThreads /\ boot' \in 0..4 /\ lone' \in BOOLEAN
  BY <1>0, ActingKeeps DEF PanicType
<1>6. budget' \in Nat
  <2>1. CASE budget' = budget
    BY <2>1, <1>0 DEF PanicType
  <2>2. CASE StartPanic(t)
    BY <2>2, <1>0 DEF StartPanic, PanicType
  <2> QED BY <2>1, <2>2, <1>0, ActingKeeps
<1> QED BY <1>2, <1>3, <1>4, <1>5, <1>6 DEF PanicType

LEMMA BootStep ==
    ASSUME StagesInv, NEW t \in PThreads, Acting(t)
    PROVE  BootInv'
<1>0. PanicType /\ BootInv
  BY DEF StagesInv
<1>1. boot' = boot /\ running = t /\ running' = t
  BY <1>0, ActingKeeps
<1>2. boot < 4 => t = MainThread /\ \A u \in PThreads \ {MainThread} : place'[u] = "run"
  BY <1>0, <1>1, ActingKeeps DEF BootInv
<1>3. boot < 3 => level'[MainThread] = 1
  BY <1>0, ActingKeeps, PanicConstants DEF BootInv, PanicType
<1> QED BY <1>1, <1>2, <1>3 DEF BootInv

(* Only SplStage and a handler turn interrupts off, and both go elsewhere. *)
LEMMA FirmStep ==
    ASSUME StagesInv, NEW t \in PThreads, Acting(t)
    PROVE  Firm'
<1>0. PanicType /\ Firm
  BY DEF StagesInv
<1>1. /\ running = t /\ running' = t
      /\ \A u \in PThreads \ {t} : place'[u] = place[u] /\ level'[u] = level[u]
  BY <1>0, ActingKeeps
<1>2. ASSUME NEW u \in PThreads \ {t}, level'[u] > 0
      PROVE  place'[u] # "s2" /\ place'[u] # "kill"
  BY <1>0, <1>1, <1>2 DEF Firm
<1>3. place'[t] = "s2" => evil' = 1
  <2>1. CASE Passes(t)
    BY <2>1, <1>0, NamesDiffer DEF Passes, GoesElsewhere, PanicType
  <2>2. ASSUME NEW k \in 1..5, Enters(t, k) PROVE place'[t] = "s2" => evil' = 1
    <3>1. place'[t] = Sets[k] /\ evil' = k - 1
      BY <2>2, <1>0 DEF Enters, PanicType
    <3>2. Sets[k] = Sets[2] => k = 2
      BY NamesDiffer
    <3> QED BY <3>1, <3>2, NamesAre
  <2>3. ASSUME NEW k \in 1..5, Advances(t, k) PROVE place'[t] # "s2"
    <3>1. place'[t] = Order[k]
      BY <2>3, <1>0 DEF Advances, PanicType
    <3> QED BY <3>1, NamesDiffer, NamesAre
  <2>4. ASSUME NEW k \in 1..5, Ends(t, k) PROVE place'[t] # "s2"
    <3>1. place'[t] \in Elsewhere \/ place'[t] = Order[k]
      BY <2>4, <1>0 DEF Ends, GoesElsewhere, PanicType
    <3> QED BY <3>1, NamesDiffer, NamesAre
  <2> QED BY <2>1, <2>2, <2>3, <2>4, ActingActs DEF Acts
<1>4. ASSUME level'[t] > 0 PROVE place'[t] = "kill" => evil' = 2
  <2>1. CASE Passes(t)
    BY <2>1, <1>0, NamesDiffer DEF Passes, GoesElsewhere, PanicType
  <2>2. ASSUME NEW k \in 1..5, Enters(t, k) PROVE place'[t] # "kill"
    <3>1. place'[t] = Sets[k]
      BY <2>2, <1>0 DEF Enters, PanicType
    <3> QED BY <3>1, NamesDiffer, NamesAre
  <2>3. ASSUME NEW k \in 1..5, Advances(t, k) PROVE place'[t] = "kill" => evil' = 2
    <3>1. place'[t] = Order[k] /\ evil' = k
      BY <2>3, <1>0 DEF Advances, PanicType
    <3>2. Order[k] = Order[2] => k = 2
      BY NamesDiffer
    <3> QED BY <3>1, <3>2, NamesAre
  <2>4. ASSUME NEW k \in 1..5, Ends(t, k) PROVE place'[t] # "kill"
    <3>1. CASE GoesElsewhere(t)
      BY <3>1, <1>0, NamesDiffer DEF GoesElsewhere, PanicType
    <3>2. CASE off' = TRUE /\ UNCHANGED place /\ ~ off
      <4>1. OffStage(t)
        BY <3>2 DEF Acting, Moving, Ending, Say, SayDone, VfsEnter, VfsLeave, StartPanic, Test,
                    SetEvil, SplStage, KillStage, PrintStage, SyncStage
      <4> QED BY <4>1, <3>2 DEF OffStage, Runs
    <3> QED BY <2>4, <3>1, <3>2 DEF Ends
  <2> QED BY <2>1, <2>2, <2>3, <2>4, ActingActs DEF Acts
<1> QED BY <1>1, <1>2, <1>3, <1>4 DEF Firm

(* A thread that is not panicking changes nothing of this, and begins to   *)
(* only by itself or, early in boot, when the delay buffer is full.        *)
LEMMA LeavesCalm ==
    ASSUME NEW t \in PThreads, Acting(t), PanicType, place[t] \in Calm
    PROVE  /\ UNCHANGED <<stages, evil, off>>
           /\ StartPanic(t) \/ place'[t] \in Calm \/ boot < 3
<1>1. Moving(t) \/ StartPanic(t)
  <2>1. ~ Ending(t)
    BY DEF Ending, SplStage, KillStage, PrintStage, SyncStage, OffStage, Runs, Calm
  <2>2. \A k \in 1..5 : ~ Test(t, k) /\ ~ SetEvil(t, k)
    BY NamesAre, NamesDiffer DEF Test, SetEvil, Runs, Elsewhere
  <2> QED BY <2>1, <2>2 DEF Acting
<1>2. UNCHANGED <<stages, evil, off>>
  BY <1>1 DEF Moving, Say, SayDone, VfsEnter, VfsLeave, StartPanic, stageVars
<1>3. Moving(t) => place'[t] \in Calm \/ boot < 3
  BY DEF Moving, Say, SayDone, VfsEnter, VfsLeave, Putch, Moves, PanicType, Calm
<1> QED BY <1>1, <1>2, <1>3

LEMMA LoneStep ==
    ASSUME StagesInv, NEW t \in PThreads, Acting(t)
    PROVE  LoneInv'
<1>0. PanicType /\ BootInv /\ LoneInv
  BY DEF StagesInv
<1>1. /\ running = t /\ running' = t /\ lone' = lone /\ boot' = boot
      /\ \A u \in PThreads \ {t} : place'[u] = place[u]
      /\ budget' = budget \/ StartPanic(t)
  BY <1>0, ActingKeeps
<1>2. SUFFICES ASSUME lone PROVE LoneInv'
  BY <1>1 DEF LoneInv
<1>3. /\ budget \in {0, 1}
      /\ \A x, y \in PThreads : place[x] \notin Calm /\ place[y] \notin Calm => x = y
      /\ \A x \in PThreads : place[x] \notin Calm => budget = 0 \/ boot < 3
      /\ \A x \in PThreads : Tied(x, 1)
  BY <1>0, <1>2 DEF LoneInv
<1>5. \A x \in PThreads : Tied(x, 1)'
  <2>1. Tied(t, 1)'
    BY <1>0, <1>3, ActingActs, ActsTied
  <2>2. ASSUME NEW x \in PThreads \ {t}, place[x] \in Calm PROVE Tied(x, 1)'
    <3>1. TriedFrom(1)' /\ place'[x] \in Elsewhere
      BY <2>1, <2>2, <1>1 DEF Tied, Elsewhere
    <3>2. EvilFits(x, 1)'
      BY <3>1, NamesDiffer DEF EvilFits
    <3> QED BY <3>1, <3>2 DEF Tied
  <2>3. ASSUME NEW x \in PThreads \ {t}, place[x] \notin Calm PROVE Tied(x, 1)'
    <3>1. place[t] \in Calm
      BY <2>3, <1>3
    <3>2. UNCHANGED <<stages, evil, off>> /\ place'[x] = place[x]
      BY <3>1, <1>0, <1>1, LeavesCalm
    <3>3. Tied(x, 1)
      BY <1>3
    <3> QED BY <3>2, <3>3 DEF Tied, TriedFrom, EvilFits, From
  <2> QED BY <2>1, <2>2, <2>3
<1>4. CASE StartPanic(t)
  <2>1. budget > 0 /\ budget' = budget - 1
    BY <1>4 DEF StartPanic
  <2>2. \A x \in PThreads : place[x] \in Calm
    <3>1. SUFFICES ASSUME NEW x \in PThreads, place[x] \notin Calm PROVE FALSE
      OBVIOUS
    <3>2. boot < 3 /\ boot < 4
      BY <3>1, <2>1, <1>3, <1>0 DEF PanicType
    <3>3. t = MainThread /\ level[t] = 1 /\ x = t
      BY <3>1, <3>2, <1>0, <1>1 DEF BootInv, Calm
    <3> QED BY <3>1, <3>3, <1>4 DEF StartPanic, Calm
  <2>3. /\ place'[t] \notin Calm /\ budget' = 0
        /\ \A x \in PThreads \ {t} : place'[x] \in Calm
    BY <2>1, <2>2, <1>0, <1>1, <1>3, <1>4 DEF StartPanic, Moves, PanicType, Calm
  <2> QED BY <2>3, <1>5, <1>1 DEF LoneInv
<1>6. CASE ~ StartPanic(t)
  <2>1. budget' = budget
    BY <1>1, <1>6
  <2>2. place[t] \notin Calm \/ place'[t] \in Calm \/ boot < 3
    BY <1>6, <1>0, NamesAre, NamesDiffer, LeavesCalm
  <2>3. boot < 3 => \A x \in PThreads \ {t} : place[x] \in Calm
    BY <1>0, <1>1 DEF BootInv, PanicType, Calm
  <2>4. \A x, y \in PThreads : place'[x] \notin Calm /\ place'[y] \notin Calm => x = y
    BY <2>2, <2>3, <1>1, <1>3
  <2>5. \A x \in PThreads : place'[x] \notin Calm => budget' = 0 \/ boot' < 3
    BY <2>1, <2>2, <1>1, <1>3
  <2> QED BY <2>1, <2>4, <2>5, <1>1, <1>3, <1>5 DEF LoneInv
<1> QED BY <1>4, <1>6

LEMMA AloneStep ==
    ASSUME StagesInv, NEW t \in PThreads, Acting(t)
    PROVE  AloneInv'
<1>0. PanicType /\ Firm /\ AloneInv
  BY DEF StagesInv
<1>1. running = t /\ running' = t
  BY <1>0, ActingKeeps
<1>2. CASE UNCHANGED <<alone, dropped>>
  <2>1. SUFFICES ASSUME alone > 0 PROVE dropped' = PThreads \ {t} /\ Tied(t, alone)'
    BY <1>1, <1>2 DEF AloneInv
  <2>2. dropped = PThreads \ {t} /\ Tied(t, alone) /\ alone \in Nat
    BY <2>1, <1>0, <1>1 DEF AloneInv, PanicType
  <2>3. PICK n \in Nat : n = alone
    BY <2>2
  <2>4. Tied(t, n)'
    BY <2>2, <2>3, <1>0, ActingActs, ActsTied
  <2>5. alone' = n /\ dropped' = PThreads \ {t}
    BY <2>2, <2>3, <1>2
  <2> QED BY <2>4, <2>5
<1>3. CASE KillStage(t) /\ ~ UNCHANGED <<alone, dropped>>
  <2>1. /\ level[t] > 0 /\ place[t] = "kill" /\ place' = [place EXCEPT ![t] = "t3"] /\ evil' = evil
        /\ dropped' = PThreads \ {t} /\ alone' = Len(stages) + 1 /\ stages' = Append(stages, 2)
    BY <1>3 DEF KillStage, Runs, Tried, Moves
  <2>2. evil' = 2 /\ place'[t] \in Elsewhere
    BY <2>1, <1>0 DEF Firm, PanicType, Elsewhere
  <2>3. DOMAIN stages' = 1..(Len(stages) + 1) /\ Len(stages) \in Nat /\ stages'[Len(stages) + 1] = 2
    BY <2>1, <1>0 DEF PanicType
  <2>4. \A i \in From(alone)' : i = Len(stages) + 1 /\ stages'[i] = 2
    BY <2>1, <2>3 DEF From
  <2>5. TriedFrom(alone)'
    BY <2>2, <2>3, <2>4 DEF TriedFrom
  <2>6. EvilFits(t, alone)'
    BY <2>2, NamesDiffer DEF EvilFits
  <2> QED BY <1>1, <2>1, <2>5, <2>6 DEF AloneInv, Tied
<1> QED BY <1>0, <1>2, <1>3, ActingKeeps

LEMMA StagesStep == StagesInv /\ [PanicNext]_panicVars => StagesInv'
<1> SUFFICES ASSUME StagesInv, [PanicNext]_panicVars PROVE StagesInv'
  OBVIOUS
<1>0. PanicType /\ BootInv /\ Firm /\ LoneInv /\ AloneInv
  BY DEF StagesInv
<1>1. ASSUME NEW t \in PThreads, Acting(t) PROVE StagesInv'
  BY <1>1, TypeStep, BootStep, FirmStep, LoneStep, AloneStep DEF StagesInv
<1>2. CASE UNCHANGED panicVars
  BY <1>0, <1>2 DEF panicVars, StagesInv, PanicType, BootInv, Firm, LoneInv, AloneInv, Tied,
                    TriedFrom, EvilFits, From
<1>3. CASE Boot
  <2>1. /\ UNCHANGED <<lone, evil, running, place, dropped, budget, stages, alone, off>>
        /\ place[MainThread] = "run" /\ running = MainThread /\ boot < 4 /\ boot' = boot + 1
        /\ level' = IF boot' = 3 THEN [level EXCEPT ![MainThread] = 0] ELSE level
    BY <1>3 DEF Boot, Runs, stageVars
  <2>2. PanicType'
    BY <2>1, <1>0, PanicConstants DEF PanicType
  <2>3. BootInv'
    BY <2>1, <1>0, PanicConstants DEF BootInv, PanicType
  <2>4. Firm'
    <3>1. \A t \in PThreads : level'[t] > 0 => level[t] > 0
      BY <2>1, <1>0, PanicConstants DEF PanicType
    <3> QED BY <3>1, <2>1, <1>0 DEF Firm
  <2>5. \A t \in PThreads, n \in Nat : Tied(t, n)' <=> Tied(t, n)
    BY <2>1 DEF Tied, TriedFrom, EvilFits, From
  <2>6. \A t \in PThreads : place[t] \in Calm
    BY <2>1, <1>0 DEF BootInv, Calm
  <2>7. LoneInv'
    BY <2>1, <2>5, <2>6, <1>0 DEF LoneInv
  <2>8. AloneInv'
    BY <2>1, <2>5, <1>0 DEF AloneInv, PanicType
  <2> QED BY <2>2, <2>3, <2>4, <2>7, <2>8 DEF StagesInv
<1>4. ASSUME NEW t \in PThreads, SwitchTo(t) PROVE StagesInv'
  <2>1. /\ UNCHANGED <<lone, evil, boot, level, place, dropped, budget, stages, alone, off>>
        /\ boot = 4 /\ t # running /\ t \notin dropped /\ running' = t
        /\ level[running] = 0 \/ Sleeps(running)
    BY <1>4 DEF SwitchTo, stageVars
  <2>2. PanicType'
    BY <2>1, <1>0 DEF PanicType
  <2>3. BootInv'
    BY <2>1, <1>0 DEF BootInv
  <2>4. Firm'
    <3>1. ASSUME NEW u \in PThreads, level[u] > 0, place[u] = "s2" \/ place[u] = "kill"
          PROVE  FALSE
      <4>1. running = u
        BY <3>1, <1>0 DEF Firm
      <4>2. Sleeps(u)
        BY <4>1, <3>1, <2>1, <1>0 DEF PanicType
      <4> QED BY <4>2, <3>1 DEF Sleeps
    <3> QED BY <3>1, <2>1 DEF Firm
  <2>5. \A u \in PThreads, n \in Nat : Tied(u, n)' <=> Tied(u, n)
    BY <2>1 DEF Tied, TriedFrom, EvilFits, From
  <2>6. LoneInv'
    BY <2>1, <2>5, <1>0 DEF LoneInv
  <2>7. AloneInv'
    BY <2>1, <1>0 DEF AloneInv
  <2> QED BY <2>2, <2>3, <2>4, <2>6, <2>7 DEF StagesInv
<1> QED BY <1>1, <1>2, <1>3, <1>4 DEF PanicNext, PanicStep, Acting, Moving, Ending

(* Output: once the console is attached nothing is delayed any more.       *)
OutInv ==
    /\ said \in Seq({"c", "P"}) /\ shown \in Seq({"c", "P"}) /\ delayed \in Seq({"c", "P"})
    /\ boot \in 0..4 /\ (boot >= 3 => delayed = << >>)
    /\ said = shown \o delayed /\ Len(delayed) <= DELAYBUFSIZE

LEMMA OutInit == PanicInit => OutInv
BY PanicConstants DEF PanicInit, OutInv

LEMMA PutchKeepsOut ==
    ASSUME OutInv, NEW t, NEW ch \in {"c", "P"}, NEW next, Putch(t, ch, next), boot' = boot
    PROVE  OutInv'
<1>1. CASE UNCHANGED outVars
  BY <1>1 DEF outVars, OutInv
<1>2. CASE said' = Append(said, ch) /\ boot >= 3 /\ shown' = Append(shown, ch) /\ delayed' = delayed
  <2>1. delayed = << >>
    BY <1>2 DEF OutInv
  <2>2. said = shown /\ said' = shown' \o << >>
    BY <1>2, <2>1 DEF OutInv
  <2> QED BY <1>2, <2>1, <2>2 DEF OutInv
<1>3. CASE said' = Append(said, ch) /\ boot < 3 /\ delayed' = Append(delayed, ch)
              /\ shown' = shown /\ Len(delayed) < DELAYBUFSIZE
  <2>1. Append(shown \o delayed, ch) = shown \o Append(delayed, ch)
    <3> DEFINE S == {"c", "P"}
    <3>1. shown \in Seq(S) /\ delayed \in Seq(S) /\ <<ch>> \in Seq(S) /\ ch \in S
      BY DEF OutInv
    <3> HIDE DEF S
    <3>2. shown \o delayed \in Seq(S)
      BY <3>1, ConcatProperties
    <3>3. Append(shown \o delayed, ch) = (shown \o delayed) \o <<ch>>
          /\ Append(delayed, ch) = delayed \o <<ch>>
      BY <3>1, <3>2, AppendIsConcat
    <3> QED BY <3>1, <3>3, ConcatAssociative
  <2>2. Len(delayed') <= DELAYBUFSIZE
    BY <1>3, PanicConstants DEF OutInv
  <2> QED BY <1>3, <2>1, <2>2 DEF OutInv
<1>4. DELAYBUFSIZE \in Nat /\ Len(delayed) \in Nat /\ boot \in Nat
  BY PanicConstants DEF OutInv
<1> QED BY <1>1, <1>2, <1>3, <1>4 DEF Putch

LEMMA OutStep == OutInv /\ [PanicNext]_panicVars => OutInv'
<1> SUFFICES ASSUME OutInv, [PanicNext]_panicVars PROVE OutInv'
  OBVIOUS
<1>1. CASE Boot
  <2>1. boot' = boot + 1 /\ boot' \in 0..4 /\ said' = said
    BY <1>1 DEF Boot, OutInv
  <2>2. CASE boot' = 3
    <3>1. shown' = shown \o delayed /\ delayed' = << >>
      BY <1>1, <2>2 DEF Boot
    <3>2. shown' \in Seq({"c", "P"}) /\ shown' \o << >> = shown'
      BY <3>1 DEF OutInv
    <3> QED BY <2>1, <3>1, <3>2, PanicConstants DEF OutInv
  <2>3. CASE boot' # 3
    BY <1>1, <2>1, <2>3 DEF Boot, OutInv
  <2> QED BY <2>2, <2>3
<1>2. ASSUME NEW t \in PThreads, SayDone(t) PROVE OutInv'
  BY <1>2, PutchKeepsOut DEF SayDone
<1>3. ASSUME NEW t \in PThreads, PrintStage(t) PROVE OutInv'
  BY <1>3, PutchKeepsOut DEF PrintStage
<1>4. CASE UNCHANGED <<outVars, boot>>
  BY <1>4 DEF outVars, OutInv
<1>5. ASSUME NEW t \in PThreads,
             \/ Say(t) \/ VfsEnter(t) \/ VfsLeave(t) \/ StartPanic(t) \/ SwitchTo(t)
             \/ \E k \in 1..5 : Test(t, k) \/ SetEvil(t, k)
             \/ SplStage(t) \/ KillStage(t) \/ SyncStage(t) \/ OffStage(t)
      PROVE  UNCHANGED <<outVars, boot>>
  BY <1>5 DEF Say, VfsEnter, VfsLeave, StartPanic, SwitchTo, Test, SetEvil, SplStage, KillStage,
              SyncStage, OffStage
<1>6. UNCHANGED panicVars => UNCHANGED <<outVars, boot>>
  BY DEF panicVars, outVars
<1> QED BY <1>1, <1>2, <1>3, <1>4, <1>5, <1>6 DEF PanicNext, PanicStep

(* When one thread panics by itself, whatever its stages run into, every   *)
(* stage is tried at most once and in order; so are, however many threads  *)
(* have panicked, those after one of them has dropped the others.  Nothing *)
(* printed is lost or reordered.  For any set of threads.                  *)
THEOREM PanicIsOrderly == PanicSpec => []PanicOrderly
<1>1. StagesInv /\ OutInv => PanicOrderly
  <2> SUFFICES ASSUME StagesInv, OutInv PROVE PanicOrderly
    OBVIOUS
  <2>1. PanicType /\ LoneInv /\ AloneInv
    BY DEF StagesInv
  <2>2. lone => TriedFrom(1)
    BY <2>1, PanicConstants DEF LoneInv, Tied
  <2>3. alone > 0 => TriedFrom(alone)
    BY <2>1 DEF AloneInv, Tied
  <2>4. lone \/ alone > 0 =>
          \A i, j \in From(IF lone THEN 1 ELSE alone) : i < j => stages[i] < stages[j]
    BY <2>2, <2>3 DEF TriedFrom
  <2>5. said = shown \o delayed /\ Len(delayed) <= DELAYBUFSIZE
    BY DEF OutInv
  <2> QED BY <2>4, <2>5 DEF PanicOrderly
<1> QED BY <1>1, StagesInit, OutInit, StagesStep, OutStep, PTL DEF PanicSpec
=============================================================================
