--------------------------- MODULE ExerciseProofs ---------------------------
(***************************************************************************)
(* The exercises are right for every size: cats and mice share the bowls   *)
(* by the rules (asst1), and the rings of the two programs of hw2 are      *)
(* exact.  Each has an inductive invariant and one lemma per kind of step  *)
(* that can disturb it.                                                    *)
(***************************************************************************)
EXTENDS CatMouse, ProducerConsumer, DataToKernel, FiniteSetTheorems, TLAPS

(* asst1/catmouse.c and bowls.c.  An animal eats from the moment cat_eat   *)
(* or mouse_eat marks its bowl until it clears the mark.                   *)
Eats(a) == apc[a] \in {"eat", "finish"}

(* The first rule, by animals instead of bowls.                            *)
BowlsMarked ==
    /\ \A a \in Animals : Eats(a) => bowls[abowl[a]] = Letter(a)
    /\ \A a, c \in Animals : Eats(a) /\ Eats(c) /\ abowl[a] = abowl[c] => a = c
    /\ \A b \in Bowls : bowls[b] # "-" => \E a \in Animals : Eats(a) /\ abowl[a] = b

Marked(l) == {b \in Bowls : bowls[b] = l}
BowlsCounted ==
    /\ eating_cats_count = Cardinality(Marked("c")) /\ eating_mice_count = Cardinality(Marked("m"))
    /\ eating_cats_count = 0 \/ eating_mice_count = 0

CatsType ==
    /\ bowls \in [Bowls -> {"-", "c", "m"}] /\ abowl \in [Animals -> Bowls]
    /\ apc \in [Animals -> {"unborn", "sleep", "arrive", "check", "eat", "finish", "v", "gone"}]
CatsInv == CatsType /\ BowlsMarked /\ BowlsCounted

LEMMA CatsRule == CatsInv => BowlsRule
<1> SUFFICES ASSUME CatsInv PROVE BowlsRule
  OBVIOUS
<1>1. ASSUME NEW b \in Bowls
      PROVE  IF Eating(b) = {} THEN bowls[b] = "-"
             ELSE \E a \in Eating(b) : Eating(b) = {a} /\ bowls[b] = Letter(a)
  <2>1. \A a : a \in Eating(b) <=> a \in Animals /\ Eats(a) /\ abowl[a] = b
    BY DEF Eating, Eats
  <2>2. CASE Eating(b) = {}
    BY <2>1, <2>2 DEF CatsInv, BowlsMarked
  <2>3. ASSUME NEW a \in Eating(b) PROVE Eating(b) = {a} /\ bowls[b] = Letter(a)
    BY <2>1, <2>3 DEF CatsInv, BowlsMarked
  <2> QED BY <2>2, <2>3
<1> QED BY <1>1 DEF CatsInv, BowlsRule, BowlsCounted, Marked

LEMMA MarkedFinite == \A l : IsFiniteSet(Marked(l)) /\ Cardinality(Marked(l)) \in Nat
<1>1. IsFiniteSet(Bowls)
  BY CatMouseConstants, FS_Interval DEF Bowls
<1>2. ASSUME NEW l PROVE IsFiniteSet(Marked(l))
  BY <1>1, FS_Subset DEF Marked
<1> QED BY <1>2, FS_CardinalityType

LEMMA CatsInit == CatMouseInit => CatsInv
<1> SUFFICES ASSUME CatMouseInit PROVE CatsInv
  OBVIOUS
<1>1. CatsType
  BY CatMouseConstants DEF CatMouseInit, CatsType, Bowls
<1>2. BowlsMarked
  BY DEF CatMouseInit, BowlsMarked, Eats
<1>3. Marked("c") = {} /\ Marked("m") = {}
  BY DEF CatMouseInit, Marked
<1> QED BY <1>1, <1>2, <1>3, FS_EmptySet DEF CatsInv, BowlsCounted, CatMouseInit

(* A step that starts and ends no meal keeps the rules.                    *)
LEMMA NoMealKeepsCats ==
    ASSUME CatsInv, UNCHANGED <<bowls, eating_cats_count, eating_mice_count>>, CatsType',
           \A a \in Animals : Eats(a)' = Eats(a) /\ (Eats(a) => abowl'[a] = abowl[a])
    PROVE  CatsInv'
<1>1. \A l : Marked(l)' = Marked(l)
  BY DEF Marked
<1>2. BowlsCounted'
  BY <1>1 DEF CatsInv, BowlsCounted
<1>3. \A a \in Animals : (Eats(a)' <=> Eats(a)) /\ (Eats(a) => abowl'[a] = abowl[a])
  OBVIOUS
<1>4. BowlsMarked'
  BY <1>3 DEF CatsInv, BowlsMarked, Letter
<1> QED BY <1>2, <1>4 DEF CatsInv

(* A meal starts at an unmarked bowl, with none of the other kind eating.  *)
LEMMA StartKeepsCats ==
    ASSUME CatsInv, NEW a \in Animals, StartMeal(a)
    PROVE  CatsInv'
<1> DEFINE x == abowl[a]
<1>1. CASE ~ Allowed(a)
  <2>1. UNCHANGED <<bowls, eating_cats_count, eating_mice_count, apc, abowl>>
    BY <1>1 DEF StartMeal
  <2> QED BY <2>1, NoMealKeepsCats DEF CatsInv, CatsType, Eats
<1>2. CASE Allowed(a)
  <2>1. /\ bowls' = [bowls EXCEPT ![x] = Letter(a)] /\ apc' = [apc EXCEPT ![a] = "eat"]
        /\ abowl' = abowl /\ Count(a, 1) /\ apc[a] = "check" /\ bowls[x] = "-"
    BY <1>2 DEF StartMeal, Allowed, AGoto
  <2>2. x \in Bowls /\ Letter(a) \in {"c", "m"} /\ CatsType
    BY DEF CatsInv, CatsType, Letter
  <2>3. CatsType'
    BY <2>1, <2>2 DEF CatsType
  <2>4. /\ Eats(a)' /\ ~ Eats(a)
        /\ \A c \in Animals \ {a} : Eats(c)' <=> Eats(c)
    BY <2>1, <2>2 DEF CatsType, Eats
  <2>5. \A c \in Animals : Eats(c) => abowl[c] # x
    BY <2>1, <2>2 DEF CatsInv, BowlsMarked, Letter
  <2>6. /\ bowls'[x] = Letter(a) /\ \A b \in Bowls \ {x} : bowls'[b] = bowls[b]
    BY <2>1, <2>2 DEF CatsType
  <2>7. BowlsMarked'
    <3>1. \A c \in Animals : Eats(c)' => (bowls[abowl[c]] = Letter(c))'
      BY <2>1, <2>2, <2>4, <2>5, <2>6 DEF CatsInv, CatsType, BowlsMarked, Letter
    <3>2. \A c, e \in Animals : Eats(c)' /\ Eats(e)' /\ abowl'[c] = abowl'[e] => c = e
      BY <2>1, <2>4, <2>5 DEF CatsInv, BowlsMarked
    <3>3. ASSUME NEW b \in Bowls, bowls'[b] # "-"
          PROVE  \E c \in Animals : Eats(c)' /\ abowl'[c] = b
      <4>1. CASE b = x
        BY <4>1, <2>1, <2>4
      <4>2. CASE b # x
        BY <4>2, <3>3, <2>1, <2>4, <2>6 DEF CatsInv, BowlsMarked
      <4> QED BY <4>1, <4>2
    <3> QED BY <3>1, <3>2, <3>3 DEF BowlsMarked
  <2>8. /\ Marked(Letter(a))' = Marked(Letter(a)) \cup {x} /\ x \notin Marked(Letter(a))
        /\ \A l \in {"c", "m"} \ {Letter(a)} : Marked(l)' = Marked(l)
    BY <2>1, <2>2, <2>6 DEF Marked
  <2>9. Cardinality(Marked(Letter(a)))' = Cardinality(Marked(Letter(a))) + 1
    BY <2>8, MarkedFinite, FS_AddElement
  <2>10. BowlsCounted'
    <3>1. CASE a \in Cats
      BY <3>1, <1>2, <2>1, <2>8, <2>9, MarkedFinite
         DEF CatsInv, BowlsCounted, Allowed, Count, Letter
    <3>2. CASE a \notin Cats
      BY <3>2, <1>2, <2>1, <2>8, <2>9, MarkedFinite
         DEF CatsInv, BowlsCounted, Allowed, Count, Letter, Animals
    <3> QED BY <3>1, <3>2
  <2> QED BY <2>3, <2>7, <2>10 DEF CatsInv
<1> QED BY <1>1, <1>2

(* The animal that finishes is the only one at its bowl.                   *)
LEMMA FinishKeepsCats ==
    ASSUME CatsInv, NEW a \in Animals, FinishMeal(a)
    PROVE  CatsInv'
<1> DEFINE x == abowl[a]
<1>1. /\ bowls' = [bowls EXCEPT ![x] = "-"]
      /\ apc' = [apc EXCEPT ![a] = IF aloop[a] + 1 < NumLoops THEN "sleep" ELSE "v"]
      /\ abowl' = abowl /\ Count(a, -1) /\ apc[a] = "finish"
  BY DEF FinishMeal, AGoto
<1>2. x \in Bowls /\ Letter(a) \in {"c", "m"} /\ CatsType
  BY DEF CatsInv, CatsType, Letter
<1>3. CatsType'
  BY <1>1, <1>2 DEF CatsType
<1>4. /\ ~ Eats(a)' /\ Eats(a)
      /\ \A c \in Animals \ {a} : Eats(c)' <=> Eats(c)
  BY <1>1, <1>2 DEF CatsType, Eats
<1>5. \A c \in Animals \ {a} : Eats(c) => abowl[c] # x
  BY <1>4 DEF CatsInv, BowlsMarked
<1>6. /\ bowls[x] = Letter(a) /\ bowls'[x] = "-" /\ \A b \in Bowls \ {x} : bowls'[b] = bowls[b]
  BY <1>1, <1>2, <1>4 DEF CatsInv, CatsType, BowlsMarked
<1>7. BowlsMarked'
  <2>1. \A c \in Animals : Eats(c)' => (bowls[abowl[c]] = Letter(c))'
    BY <1>1, <1>2, <1>4, <1>5, <1>6 DEF CatsInv, CatsType, BowlsMarked, Letter
  <2>2. \A c, e \in Animals : Eats(c)' /\ Eats(e)' /\ abowl'[c] = abowl'[e] => c = e
    BY <1>1, <1>4 DEF CatsInv, BowlsMarked
  <2>3. ASSUME NEW b \in Bowls, bowls'[b] # "-"
        PROVE  \E c \in Animals : Eats(c)' /\ abowl'[c] = b
    BY <2>3, <1>1, <1>4, <1>6 DEF CatsInv, BowlsMarked
  <2> QED BY <2>1, <2>2, <2>3 DEF BowlsMarked
<1>8. /\ Marked(Letter(a))' = Marked(Letter(a)) \ {x} /\ x \in Marked(Letter(a))
      /\ \A l \in {"c", "m"} \ {Letter(a)} : Marked(l)' = Marked(l)
  BY <1>1, <1>2, <1>6 DEF Marked
<1>9. Cardinality(Marked(Letter(a)))' = Cardinality(Marked(Letter(a))) - 1
  BY <1>8, MarkedFinite, FS_RemoveElement
<1>10. Cardinality(Marked(Letter(a))) > 0
  BY <1>8, MarkedFinite, FS_EmptySet
<1>11. BowlsCounted'
  <2>1. CASE a \in Cats
    BY <2>1, <1>1, <1>8, <1>9, <1>10, MarkedFinite DEF CatsInv, BowlsCounted, Count, Letter
  <2>2. CASE a \notin Cats
    BY <2>2, <1>1, <1>8, <1>9, <1>10, MarkedFinite DEF CatsInv, BowlsCounted, Count, Letter
  <2> QED BY <2>1, <2>2
<1> QED BY <1>3, <1>7, <1>11 DEF CatsInv

LEMMA CatsStep == CatsInv /\ [CatMouseNext]_cmVars => CatsInv'
<1> SUFFICES ASSUME CatsInv, [CatMouseNext]_cmVars PROVE CatsInv'
  OBVIOUS
<1> USE DEF CatsType, Eats
<1>1. ASSUME NEW a \in Animals, ForkAnimal(a) PROVE CatsInv'
  BY <1>1, NoMealKeepsCats DEF ForkAnimal, AGoto, CatsInv
<1>2. CASE WaitAnimal
  BY <1>2, NoMealKeepsCats DEF WaitAnimal, CatsInv
<1>3. ASSUME NEW a \in Animals, ChooseBowl(a) PROVE CatsInv'
  BY <1>3, NoMealKeepsCats DEF ChooseBowl, AGoto, CatsInv
<1>4. ASSUME NEW a \in Animals, EnterBowls(a) PROVE CatsInv'
  BY <1>4, NoMealKeepsCats DEF EnterBowls, AGoto, CatsInv
<1>5. ASSUME NEW a \in Animals, AnimalDone(a) PROVE CatsInv'
  BY <1>5, NoMealKeepsCats DEF AnimalDone, AGoto, CatsInv
<1>6. CASE UNCHANGED cmVars
  BY <1>6, NoMealKeepsCats DEF cmVars, CatsInv
<1> QED
  BY <1>1, <1>2, <1>3, <1>4, <1>5, <1>6, StartKeepsCats, FinishKeepsCats
     DEF CatMouseNext, Driver, AnimalStep, cat_simulation, mouse_simulation, cat_eat, mouse_eat

(* Whatever the threads try, cats and mice never eat together and no bowl  *)
(* feeds two, for any numbers of cats, mice and bowls.                     *)
THEOREM BowlsAreShared == CatMouseSpec => []BowlsRule
<1> QED BY CatsInit, CatsStep, CatsRule, PTL DEF CatMouseSpec

-----------------------------------------------------------------------------
(* The next slot of a ring of n slots.                                     *)
LEMMA RingSuccessor ==
    ASSUME NEW n \in Nat \ {0}, NEW i \in 0..(n - 1)
    PROVE  (i + 1) % n = IF i + 1 = n THEN 0 ELSE i + 1
<1>1. CASE i + 1 = n
  BY <1>1
<1>2. CASE i + 1 # n
  BY <1>2
<1> QED BY <1>1, <1>2

-----------------------------------------------------------------------------
(* hw2/producer_consumer.c.  RingExact is inductive once the ring's own    *)
(* type is added: head and tail are slots, and a slot holds an item or     *)
(* NOITEM.                                                                 *)
RingType ==
    /\ queue \in [0..(QUEUE_SIZE - 1) -> Producers \cup {NOITEM}]
    /\ queue_head \in 0..(QUEUE_SIZE - 1) /\ queue_tail \in 0..(QUEUE_SIZE - 1)
    /\ queue_len \in Nat /\ n_produced \in Nat /\ n_consumed \in Nat
RingInv == RingType /\ RingExact

LEMMA RingInit == ProducerConsumerInit => RingInv
BY ProducerConsumerConstants
   DEF ProducerConsumerInit, RingInv, RingType, RingExact, RingCounts, Ring

(* A producer adds at the tail only when there is room.                    *)
LEMMA ProduceKeepsRing ==
    ASSUME RingInv, NEW t \in Workers, Produce(t)
    PROVE  RingInv'
<1> DEFINE next == IF queue_tail + 1 = QUEUE_SIZE THEN 0 ELSE queue_tail + 1
<1>1. /\ QUEUE_SIZE \in Nat \ {0} /\ N_ITEMS \in Nat /\ t \in Producers /\ t # NOITEM
      /\ queue_len < QUEUE_SIZE /\ n_produced < N_ITEMS
  BY ProducerConsumerConstants DEF Produce, RingInv, RingExact, RingCounts
<1>2. queue_tail' = next /\ queue' = [queue EXCEPT ![queue_tail] = t]
  BY <1>1, RingSuccessor DEF Produce, Put, RingInv, RingType
<1>3. /\ queue_len' = queue_len + 1 /\ n_produced' = n_produced + 1
      /\ n_consumed' = n_consumed /\ queue_head' = queue_head
  BY DEF Produce
<1>4. RingType'
  BY <1>1, <1>2, <1>3 DEF RingInv, RingType
<1>5. Ring(queue_head, queue_tail) = queue_len
  BY <1>1 DEF RingInv, RingType, RingExact, RingCounts, Ring
<1>6. RingCounts'
  BY <1>1, <1>2, <1>3, <1>5 DEF RingInv, RingType, RingExact, RingCounts, Ring
<1>7. ASSUME NEW i \in 0..(QUEUE_SIZE - 1)
      PROVE  (queue[i] # NOITEM)' <=> Ring(queue_head', i) < queue_len'
  <2>1. CASE i = queue_tail
    BY <2>1, <1>1, <1>2, <1>3, <1>5 DEF RingInv, RingType
  <2>2. CASE i # queue_tail
    <3>1. queue'[i] = queue[i]
      BY <2>2, <1>2 DEF RingInv, RingType
    <3>2. Ring(queue_head, i) # queue_len
      BY <2>2, <1>1, <1>5 DEF RingInv, RingType, Ring
    <3>3. Ring(queue_head, i) \in Int
      BY <1>1 DEF RingInv, RingType, Ring
    <3> QED BY <3>1, <3>2, <3>3, <1>3 DEF RingInv, RingType, RingExact
  <2> QED BY <2>1, <2>2
<1> QED BY <1>4, <1>6, <1>7 DEF RingInv, RingExact

(* A consumer takes from the head only when there is an item.              *)
LEMMA ConsumeKeepsRing ==
    ASSUME RingInv, NEW t \in Workers, Consume(t)
    PROVE  RingInv'
<1> DEFINE next == IF queue_head + 1 = QUEUE_SIZE THEN 0 ELSE queue_head + 1
<1>1. /\ QUEUE_SIZE \in Nat \ {0} /\ N_ITEMS \in Nat
      /\ queue_len > 0 /\ n_consumed < N_ITEMS
  BY ProducerConsumerConstants DEF Consume, RingInv, RingExact, RingCounts
<1>2. queue_head' = next /\ queue' = [queue EXCEPT ![queue_head] = NOITEM]
  BY <1>1, RingSuccessor DEF Consume, RingInv, RingType
<1>3. /\ queue_len' = queue_len - 1 /\ n_consumed' = n_consumed + 1
      /\ n_produced' = n_produced /\ queue_tail' = queue_tail
  BY DEF Consume
<1>4. RingType'
  BY <1>1, <1>2, <1>3 DEF RingInv, RingType
<1>6. RingCounts'
  BY <1>1, <1>2, <1>3 DEF RingInv, RingType, RingExact, RingCounts, Ring
<1>7. ASSUME NEW i \in 0..(QUEUE_SIZE - 1)
      PROVE  (queue[i] # NOITEM)' <=> Ring(queue_head', i) < queue_len'
  <2>1. CASE i = queue_head
    <3>1. queue'[i] = NOITEM
      BY <2>1, <1>2 DEF RingInv, RingType
    <3>2. Ring(queue_head', i) = QUEUE_SIZE - 1
      BY <2>1, <1>1, <1>2 DEF RingInv, RingType, Ring
    <3>3. queue_len <= QUEUE_SIZE
      BY <1>1 DEF RingInv, RingExact, RingCounts
    <3> QED BY <3>1, <3>2, <3>3, <1>1, <1>3 DEF RingInv, RingType
  <2>2. CASE i # queue_head
    <3>1. queue'[i] = queue[i]
      BY <2>2, <1>2 DEF RingInv, RingType
    <3>2. Ring(queue_head', i) = Ring(queue_head, i) - 1
      BY <2>2, <1>1, <1>2 DEF RingInv, RingType, Ring
    <3>3. Ring(queue_head, i) \in Int
      BY <1>1 DEF RingInv, RingType, Ring
    <3> QED BY <3>1, <3>2, <3>3, <1>3 DEF RingInv, RingType, RingExact
  <2> QED BY <2>1, <2>2
<1> QED BY <1>4, <1>6, <1>7 DEF RingInv, RingExact

LEMMA RingStep == RingInv /\ [ProducerConsumerNext]_pcVars => RingInv'
<1> SUFFICES ASSUME RingInv, [ProducerConsumerNext]_pcVars PROVE RingInv'
  OBVIOUS
<1>1. ASSUME NEW t \in Workers, Produce(t) PROVE RingInv'
  BY <1>1, ProduceKeepsRing
<1>2. ASSUME NEW t \in Workers, Consume(t) PROVE RingInv'
  BY <1>2, ConsumeKeepsRing
<1>3. CASE UNCHANGED countVars
  BY <1>3 DEF countVars, RingInv, RingType, RingExact, RingCounts, Ring
<1>4. ASSUME NEW t \in Workers,
             PLock(t) \/ ProducerWaits(t) \/ ProducerStops(t) \/ ConsumerWaits(t)
                \/ ConsumerStops(t) \/ SpuriousWake(t)
      PROVE  UNCHANGED countVars
  BY <1>4 DEF PLock, ProducerWaits, ProducerStops, ConsumerWaits, ConsumerStops, SpuriousWake
<1>5. UNCHANGED pcVars => UNCHANGED countVars
  BY DEF pcVars, countVars
<1> QED
  BY <1>1, <1>2, <1>3, <1>4, <1>5 DEF ProducerConsumerNext, WorkerStep

(* The buffer of producer_consumer.c is an exact bounded queue, for any    *)
(* numbers of producers, consumers, items and slots.                       *)
THEOREM BufferIsExact == ProducerConsumerSpec => []RingExact
<1>1. RingInv => RingExact
  BY DEF RingInv
<1> QED BY <1>1, RingInit, RingStep, PTL DEF ProducerConsumerSpec

-----------------------------------------------------------------------------
(* hw2/data_to_kernel.c.  ServedInOrder speaks of the packets already      *)
(* served; the invariant adds those still in the ring: the ids that follow *)
(* them, in order, in the slots from head up to tail.                      *)
InRing == (curr_producer_id - 1) - Len(served)
Slot(i) == IF packet_head + i >= N_PACKETS THEN packet_head + i - N_PACKETS ELSE packet_head + i

PacketsType ==
    /\ served \in Seq(Nat) /\ packets \in [0..(N_PACKETS - 1) -> Nat]
    /\ packet_head \in 0..(N_PACKETS - 1) /\ packet_tail \in 0..(N_PACKETS - 1)
    /\ avail_packets \in 0..N_PACKETS /\ curr_producer_id \in Nat
PacketsInv ==
    /\ PacketsType /\ ServedInOrder
    /\ packet_tail = Slot(InRing)
    /\ \A i \in 0..(InRing - 1) : packets[Slot(i)] = Len(served) + 1 + i

LEMMA PacketsInit == DataToKernelInit => PacketsInv
<1> SUFFICES ASSUME DataToKernelInit PROVE PacketsInv
  OBVIOUS
<1>1. served = << >> /\ served \in Seq(Nat) /\ Len(served) = 0
  BY DEF DataToKernelInit
<1>2. PacketsType
  BY <1>1, DataToKernelConstants DEF DataToKernelInit, PacketsType
<1>3. InRing = 0 /\ packet_tail = Slot(0)
  <2>1. curr_producer_id = 1 /\ packet_tail = 0 /\ packet_head = 0 /\ N_PACKETS \in Nat \ {0}
    BY DataToKernelConstants DEF DataToKernelInit
  <2>2. Len(served) = 0
    BY <1>1
  <2>3. InRing = 0
    BY <2>1, <2>2 DEF InRing
  <2> QED BY <2>1, <2>3 DEF Slot
<1>4. avail_packets = N_PACKETS - InRing
  BY <1>3, DataToKernelConstants DEF DataToKernelInit
<1>5. served = [i \in 1..0 |-> i]
  BY <1>1
<1> QED BY <1>1, <1>2, <1>3, <1>4, <1>5 DEF PacketsInv, ServedInOrder, InRing

(* What is in the ring, counted.                                           *)
LEMMA PacketsCounted ==
    ASSUME PacketsInv
    PROVE  /\ N_PACKETS \in Nat \ {0} /\ Len(served) \in Nat
           /\ avail_packets = N_PACKETS - InRing /\ InRing \in 0..N_PACKETS
<1>1. N_PACKETS \in Nat \ {0}
  BY DataToKernelConstants
<1>2. served \in Seq(Nat) /\ avail_packets \in 0..N_PACKETS /\ curr_producer_id \in Nat
  BY DEF PacketsInv, PacketsType
<1>3. Len(served) \in Nat
  BY <1>2
<1>4. avail_packets = N_PACKETS - InRing
  BY DEF PacketsInv, ServedInOrder, InRing
<1>5. InRing \in Int
  BY <1>2, <1>3 DEF InRing
<1> QED BY <1>1, <1>2, <1>3, <1>4, <1>5

LEMMA PutKeepsPackets ==
    ASSUME PacketsInv, NEW u \in Uthreads, UPut(u)
    PROVE  PacketsInv'
<1>1. /\ N_PACKETS \in Nat \ {0} /\ Len(served) \in Nat
      /\ avail_packets = N_PACKETS - InRing /\ InRing \in 0..N_PACKETS
  BY PacketsCounted
<1>2. u = curr_producer_id /\ u \in Nat /\ InRing < N_PACKETS
  BY <1>1, DataToKernelConstants DEF UPut, MayPut, Uthreads
<1>3. /\ packets' = [packets EXCEPT ![packet_tail] = u]
      /\ avail_packets' = avail_packets - 1 /\ curr_producer_id' = curr_producer_id + 1
      /\ packet_head' = packet_head /\ served' = served
  BY DEF UPut
<1>4. PacketsType
  BY DEF PacketsInv
<1>5. packet_tail' = IF packet_tail + 1 = N_PACKETS THEN 0 ELSE packet_tail + 1
  BY <1>1, <1>4, RingSuccessor DEF UPut, PacketsType
<1>6. PacketsType'
  BY <1>1, <1>2, <1>3, <1>4, <1>5 DEF PacketsType
<1>7. InRing' = InRing + 1
  BY <1>1, <1>2, <1>3 DEF InRing
<1>8. \A i : Slot(i)' = Slot(i)
  BY <1>3 DEF Slot
<1>9. served' = [i \in 1..Len(served') |-> i]
  BY <1>3 DEF PacketsInv, ServedInOrder
<1>10. avail_packets' = N_PACKETS - InRing'
  BY <1>1, <1>3, <1>7
<1>11. packet_tail' = Slot(InRing')
  BY <1>1, <1>2, <1>4, <1>5, <1>7 DEF PacketsInv, PacketsType, Slot
<1>12. ASSUME NEW i \in 0..InRing
       PROVE  packets'[Slot(i)] = Len(served) + 1 + i
  <2>1. packet_tail = Slot(InRing)
    BY DEF PacketsInv
  <2>2. CASE i = InRing
    <3>1. packets'[packet_tail] = curr_producer_id
      BY <1>2, <1>3, <1>4 DEF PacketsType
    <3> QED BY <2>1, <2>2, <3>1, <1>1, <1>2 DEF InRing
  <2>3. CASE i # InRing
    <3>1. Slot(i) # packet_tail /\ Slot(i) \in 0..(N_PACKETS - 1)
      BY <2>1, <2>3, <1>1, <1>2, <1>4 DEF PacketsType, Slot
    <3>2. packets[Slot(i)] = Len(served) + 1 + i
      BY <2>3, <1>1 DEF PacketsInv
    <3> QED BY <3>1, <3>2, <1>3, <1>4 DEF PacketsType
  <2> QED BY <2>2, <2>3
<1>13. ASSUME NEW i \in 0..(InRing' - 1)
       PROVE  packets'[Slot(i)'] = Len(served') + 1 + i
  <2>1. i \in 0..InRing
    BY <1>1, <1>7
  <2> QED BY <2>1, <1>3, <1>8, <1>12
<1>14. packet_tail' = Slot(InRing)'
  BY <1>8, <1>11
<1> QED BY <1>6, <1>9, <1>10, <1>13, <1>14 DEF PacketsInv, ServedInOrder, InRing

LEMMA ServeKeepsPackets ==
    ASSUME PacketsInv, NEW k \in KThreads, KServe(k)
    PROVE  PacketsInv'
<1>1. /\ N_PACKETS \in Nat \ {0} /\ Len(served) \in Nat
      /\ avail_packets = N_PACKETS - InRing /\ InRing \in 0..N_PACKETS
  BY PacketsCounted
<1>2. InRing > 0
  BY <1>1 DEF KServe
<1>3. /\ avail_packets' = avail_packets + 1 /\ packet_tail' = packet_tail
      /\ curr_producer_id' = curr_producer_id /\ packets' = packets
  BY DEF KServe
<1>4. PacketsType
  BY DEF PacketsInv
<1>5. packet_head' = IF packet_head + 1 = N_PACKETS THEN 0 ELSE packet_head + 1
  BY <1>1, <1>4, RingSuccessor DEF KServe, PacketsType
<1>6. packets[packet_head] = Len(served) + 1
  <2>1. Slot(0) = packet_head /\ 0 \in 0..(InRing - 1)
    BY <1>1, <1>2, <1>4 DEF PacketsType, Slot
  <2> QED BY <2>1, <1>1 DEF PacketsInv
<1>7. served' = Append(served, Len(served) + 1)
  BY <1>6 DEF KServe
<1>8. served \in Seq(Nat)
  BY <1>4 DEF PacketsType
<1>9. /\ served' \in Seq(Nat) /\ Len(served') = Len(served) + 1
      /\ \A i \in 1..Len(served) : served'[i] = served[i]
      /\ served'[Len(served) + 1] = Len(served) + 1
  BY <1>1, <1>7, <1>8
<1>10. served' = [i \in 1..Len(served') |-> i]
  <2>1. ASSUME NEW i \in 1..Len(served') PROVE served'[i] = i
    <3>1. CASE i = Len(served) + 1
      BY <3>1, <1>9
    <3>2. CASE i \in 1..Len(served)
      <4>1. served[i] = i
        BY <3>2 DEF PacketsInv, ServedInOrder
      <4> QED BY <3>2, <4>1, <1>9
    <3> QED BY <3>1, <3>2, <1>1, <1>9
  <2>2. served' = [i \in 1..Len(served') |-> served'[i]]
    BY <1>9
  <2> QED BY <2>1, <2>2
<1>11. InRing' = InRing - 1
  BY <1>1, <1>3, <1>4, <1>9 DEF InRing, PacketsType
<1>12. PacketsType'
  BY <1>1, <1>2, <1>3, <1>4, <1>5, <1>9 DEF PacketsType
<1>13. avail_packets' = N_PACKETS - InRing'
  BY <1>1, <1>3, <1>11
<1>14. \A i \in 0..(N_PACKETS - 1) : Slot(i)' = Slot(i + 1)
  BY <1>1, <1>4, <1>5 DEF PacketsType, Slot
<1>15. packet_tail' = Slot(InRing)'
  <2>1. packet_tail = Slot(InRing)
    BY DEF PacketsInv
  <2> QED BY <2>1, <1>1, <1>2, <1>3, <1>4, <1>5, <1>11 DEF PacketsType, Slot
<1>16. ASSUME NEW i \in 0..(InRing' - 1)
       PROVE  packets'[Slot(i)'] = Len(served') + 1 + i
  <2>1. i + 1 \in 0..(InRing - 1) /\ i \in 0..(N_PACKETS - 1)
    BY <1>1, <1>11
  <2>2. packets[Slot(i + 1)] = Len(served) + 1 + (i + 1)
    BY <2>1 DEF PacketsInv
  <2> QED BY <2>1, <2>2, <1>1, <1>3, <1>9, <1>14
<1> QED BY <1>10, <1>12, <1>13, <1>15, <1>16 DEF PacketsInv, ServedInOrder, InRing

LEMMA PacketsStep == PacketsInv /\ [DataToKernelNext]_dtkVars => PacketsInv'
<1> SUFFICES ASSUME PacketsInv, [DataToKernelNext]_dtkVars PROVE PacketsInv'
  OBVIOUS
<1>1. ASSUME NEW u \in Uthreads, UPut(u) PROVE PacketsInv'
  BY <1>1, PutKeepsPackets
<1>2. ASSUME NEW k \in KThreads, KServe(k) PROVE PacketsInv'
  BY <1>2, ServeKeepsPackets
<1>3. CASE UNCHANGED <<packetVars, served>>
  BY <1>3 DEF packetVars, PacketsInv, PacketsType, ServedInOrder, InRing, Slot
<1>4. ASSUME NEW u \in Uthreads, ULock(u) \/ UWait(u) PROVE UNCHANGED <<packetVars, served>>
  BY <1>4 DEF ULock, UWait
<1>5. ASSUME NEW k \in KThreads, KLock(k) \/ KStop(k) \/ KWait(k)
      PROVE  UNCHANGED <<packetVars, served>>
  BY <1>5 DEF KLock, KStop, KWait
<1>6. Stir \/ UNCHANGED dtkVars => UNCHANGED <<packetVars, served>>
  BY DEF Stir, dtkVars
<1> QED
  BY <1>1, <1>2, <1>3, <1>4, <1>5, <1>6 DEF DataToKernelNext, UStep, KStep

(* The user threads are served once each and in the order of their ids,   *)
(* whatever the numbers of threads and packets.                            *)
THEOREM PacketsAreInOrder == DataToKernelSpec => []ServedInOrder
<1>1. PacketsInv => ServedInOrder
  BY DEF PacketsInv
<1> QED BY <1>1, PacketsInit, PacketsStep, PTL DEF DataToKernelSpec
=============================================================================
