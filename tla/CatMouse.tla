------------------------------ MODULE CatMouse ------------------------------
(***************************************************************************)
(* The cat and mouse simulation: the driver and the animal threads         *)
(* (asst1/catmouse.c) and the bowls with their checks (asst1/bowls.c).     *)
(* The threads choose bowls at random and do not synchronize: the checks   *)
(* of cat_eat and mouse_eat panic when the rules would be broken.          *)
(* Semaphores have their atomic meaning; kprintf does nothing.             *)
(***************************************************************************)
EXTENDS Integers, FiniteSets

CONSTANTS Cats, Mice, NumBowls, NumLoops

ASSUME CatMouseConstants ==
    Cats \cap Mice = {} /\ NumBowls \in Nat \ {0} /\ NumLoops \in Nat \ {0}

Animals == Cats \cup Mice
Bowls == 1..NumBowls
Letter(a) == IF a \in Cats THEN "c" ELSE "m"

VARIABLES
    bowls, eating_cats_count, eating_mice_count, mutex,
    CatMouseWait, waited,     \* the driver's semaphore and its loop
    apc, abowl, aloop,        \* each animal: where it is, its bowl, its loop
    cmPanic

cmVars == <<bowls, eating_cats_count, eating_mice_count, mutex, CatMouseWait, waited, apc, abowl,
            aloop, cmPanic>>

(* catmouse forks the threads one by one; until then they are "unborn".    *)
CatMouseInit ==
    /\ bowls = [b \in Bowls |-> "-"] /\ eating_cats_count = 0 /\ eating_mice_count = 0
    /\ mutex = 1 /\ CatMouseWait = 0 /\ waited = -1
    /\ apc = [a \in Animals |-> "unborn"] /\ abowl = [a \in Animals |-> 1]
    /\ aloop = [a \in Animals |-> 0] /\ cmPanic = FALSE

AGoto(a, where) == apc' = [apc EXCEPT ![a] = where]

(* thread_fork of the cats, then of the mice; a fork that fails (external) *)
(* is a panic.                                                             *)
ForkAnimal(a) ==
    /\ ~ cmPanic /\ waited = -1 /\ apc[a] = "unborn"
    /\ a \in Mice => \A c \in Cats : apc[c] # "unborn"
    /\ \E ok \in BOOLEAN :
          /\ cmPanic' = ~ ok
          /\ IF ok THEN AGoto(a, "sleep") ELSE UNCHANGED apc
    /\ waited' = IF \A x \in Animals \ {a} : apc[x] # "unborn" THEN 0 ELSE -1
    /\ UNCHANGED <<bowls, eating_cats_count, eating_mice_count, mutex, CatMouseWait, abowl, aloop>>

(* The driver waits for every thread, then destroys the semaphore.         *)
WaitAnimal ==
    /\ ~ cmPanic /\ waited \in 0..(Cardinality(Animals) - 1) /\ CatMouseWait > 0
    /\ CatMouseWait' = CatMouseWait - 1 /\ waited' = waited + 1
    /\ UNCHANGED <<bowls, eating_cats_count, eating_mice_count, mutex, apc, abowl, aloop, cmPanic>>

(* cat_sleep or mouse_sleep, then a random bowl.                           *)
ChooseBowl(a) ==
    /\ ~ cmPanic /\ apc[a] = "sleep"
    /\ \E b \in Bowls : abowl' = [abowl EXCEPT ![a] = b]
    /\ AGoto(a, "arrive")
    /\ UNCHANGED <<bowls, eating_cats_count, eating_mice_count, mutex, CatMouseWait, waited, aloop,
                   cmPanic>>

(* The critical sections of cat_eat and mouse_eat, between P(mutex) and    *)
(* V(mutex): P ...                                                         *)
EnterBowls(a) ==
    /\ ~ cmPanic /\ apc[a] \in {"arrive", "eat"} /\ mutex > 0
    /\ mutex' = mutex - 1
    /\ AGoto(a, IF apc[a] = "arrive" THEN "check" ELSE "finish")
    /\ UNCHANGED <<bowls, eating_cats_count, eating_mice_count, CatMouseWait, waited, abowl, aloop,
                   cmPanic>>

(* Fault: only the bowl is looked at.                                      *)
AllowedBowlOnly(a) == bowls[abowl[a]] = "-"

(* The panics and assertions at the start of a meal.                       *)
Allowed(a) ==
    /\ bowls[abowl[a]] = "-"
    /\ a \in Cats => eating_mice_count = 0
    /\ a \in Mice => eating_cats_count = 0

Count(a, d) ==
    IF a \in Cats THEN eating_cats_count' = eating_cats_count + d /\ UNCHANGED eating_mice_count
    ELSE eating_mice_count' = eating_mice_count + d /\ UNCHANGED eating_cats_count

StartMeal(a) ==
    /\ ~ cmPanic /\ apc[a] = "check"
    /\ IF ~ Allowed(a)
       THEN cmPanic' = TRUE
              /\ UNCHANGED <<bowls, eating_cats_count, eating_mice_count, mutex, apc>>
       ELSE /\ Count(a, 1)
            /\ bowls' = [bowls EXCEPT ![abowl[a]] = Letter(a)]
            /\ mutex' = mutex + 1 /\ AGoto(a, "eat") /\ UNCHANGED cmPanic
    /\ UNCHANGED <<CatMouseWait, waited, abowl, aloop>>

FinishMeal(a) ==
    /\ ~ cmPanic /\ apc[a] = "finish"
    /\ cmPanic' = ~ (bowls[abowl[a]] = Letter(a)
                        /\ (IF a \in Cats THEN eating_cats_count ELSE eating_mice_count) > 0)
    /\ Count(a, -1)
    /\ bowls' = [bowls EXCEPT ![abowl[a]] = "-"]
    /\ mutex' = mutex + 1
    /\ aloop' = [aloop EXCEPT ![a] = @ + 1]
    /\ AGoto(a, IF aloop[a] + 1 < NumLoops THEN "sleep" ELSE "v")
    /\ UNCHANGED <<CatMouseWait, waited, abowl>>

(* V(CatMouseWait): the thread is finished.                                *)
AnimalDone(a) ==
    /\ ~ cmPanic /\ apc[a] = "v"
    /\ CatMouseWait' = CatMouseWait + 1 /\ AGoto(a, "gone")
    /\ UNCHANGED <<bowls, eating_cats_count, eating_mice_count, mutex, waited, abowl, aloop, cmPanic>>

cat_eat(a) == a \in Cats /\ (EnterBowls(a) \/ StartMeal(a) \/ FinishMeal(a))
mouse_eat(a) == a \in Mice /\ (EnterBowls(a) \/ StartMeal(a) \/ FinishMeal(a))

cat_simulation(a) == cat_eat(a) \/ (a \in Cats /\ (ChooseBowl(a) \/ AnimalDone(a)))
mouse_simulation(a) == mouse_eat(a) \/ (a \in Mice /\ (ChooseBowl(a) \/ AnimalDone(a)))

AnimalStep(a) == cat_simulation(a) \/ mouse_simulation(a)

Driver == WaitAnimal \/ \E a \in Animals : ForkAnimal(a)

CatMouseNext == Driver \/ \E a \in Animals : AnimalStep(a)

CatMouseSpec == CatMouseInit /\ [][CatMouseNext]_cmVars

-----------------------------------------------------------------------------
(* Whatever the threads try, the bowls keep the rules: a bowl marked as a  *)
(* cat's or a mouse's has exactly one such animal eating, the counts are   *)
(* the numbers of marked bowls, and cats never eat while mice do.          *)
Eating(b) == {a \in Animals : apc[a] \in {"eat", "finish"} /\ abowl[a] = b}

BowlsRule ==
    /\ \A b \in Bowls : IF Eating(b) = {} THEN bowls[b] = "-"
                        ELSE \E a \in Eating(b) : Eating(b) = {a} /\ bowls[b] = Letter(a)
    /\ eating_cats_count = Cardinality({b \in Bowls : bowls[b] = "c"})
    /\ eating_mice_count = Cardinality({b \in Bowls : bowls[b] = "m"})
    /\ eating_cats_count = 0 \/ eating_mice_count = 0

(* catmouse comes back once every thread has eaten NumLoops times, unless  *)
(* a rule was about to be broken (the scheduler runs every thread; each    *)
(* takes the mutex a bounded number of times, so weak fairness is enough). *)
SimulationOver ==
    cmPanic \/ (waited = Cardinality(Animals) /\ \A a \in Animals : aloop[a] = NumLoops)
=============================================================================
