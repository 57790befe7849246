-------------------------- MODULE ProducerConsumer --------------------------
(***************************************************************************)
(* The bounded queue of hw2/producer_consumer.c: producers and consumers   *)
(* share a ring buffer under a mutex, with a condition variable for each   *)
(* end, and stop when N_ITEMS items have gone through.                     *)
(*                                                                         *)
(* pthread mutexes and condition variables are external: pthread_cond_     *)
(* signal wakes at least one waiter, and a waiter may wake for no reason.  *)
(***************************************************************************)
EXTENDS Integers, FiniteSets

CONSTANTS Producers, Consumers, N_ITEMS, QUEUE_SIZE, NOITEM, NOONE,
          MaxSpurious           \* bound on wakeups without a signal

ASSUME ProducerConsumerConstants ==
    /\ N_ITEMS \in Nat /\ MaxSpurious \in Nat /\ QUEUE_SIZE \in Nat \ {0}
    /\ Producers \cap Consumers = {} /\ NOITEM \notin Producers
    /\ NOONE \notin Producers \cup Consumers

Workers == Producers \cup Consumers

VARIABLES
    queue, queue_head, queue_tail, queue_len, n_produced, n_consumed,
    queue_mutex,               \* the thread that holds it
    not_full, not_empty,       \* threads waiting on each condition
    ppc,                       \* where each thread is
    spurious                   \* wakeups without a signal so far

pcVars == <<queue, queue_head, queue_tail, queue_len, n_produced, n_consumed, queue_mutex,
            not_full, not_empty, ppc, spurious>>
countVars == <<queue, queue_head, queue_tail, queue_len, n_produced, n_consumed>>

ProducerConsumerInit ==
    /\ queue = [i \in 0..(QUEUE_SIZE - 1) |-> NOITEM]
    /\ queue_head = 0 /\ queue_tail = 0 /\ queue_len = 0
    /\ n_produced = 0 /\ n_consumed = 0
    /\ queue_mutex = NOONE /\ not_full = {} /\ not_empty = {}
    /\ ppc = [t \in Workers |-> "lock"] /\ spurious = 0

PGoto(t, where) == ppc' = [ppc EXCEPT ![t] = where]

(* pthread_mutex_lock at the top of the loop, or on the way out of         *)
(* pthread_cond_wait once woken.                                           *)
PLock(t) ==
    /\ ppc[t] \in {"lock", "wait"} /\ t \notin not_full \cup not_empty
    /\ queue_mutex = NOONE /\ queue_mutex' = t
    /\ PGoto(t, "test")
    /\ UNCHANGED <<countVars, not_full, not_empty, spurious>>

InTest(t) == ppc[t] = "test" /\ queue_mutex = t

ProducerWaits(t) ==
    /\ t \in Producers /\ InTest(t) /\ queue_len = QUEUE_SIZE /\ n_produced < N_ITEMS
    /\ not_full' = not_full \cup {t} /\ queue_mutex' = NOONE /\ PGoto(t, "wait")
    /\ UNCHANGED <<countVars, not_empty, spurious>>

ProducerStops(t) ==
    /\ t \in Producers /\ InTest(t) /\ n_produced >= N_ITEMS
    /\ not_full' = {}
    /\ queue_mutex' = NOONE /\ PGoto(t, "done")
    /\ UNCHANGED <<countVars, not_empty, spurious>>

Signal(waiting, waiting2) == \/ waiting = {} /\ waiting2 = {}
                             \/ \E t \in waiting : waiting2 = waiting \ {t}

(* Fault: the tail is not taken round.                                     *)
PutTailRuns(t) ==
    /\ queue' = [queue EXCEPT ![queue_tail] = t]
    /\ queue_tail' = IF queue_len + 1 < QUEUE_SIZE THEN (queue_tail + 1) % QUEUE_SIZE ELSE queue_tail

Put(t) ==
    /\ queue' = [queue EXCEPT ![queue_tail] = t]
    /\ queue_tail' = (queue_tail + 1) % QUEUE_SIZE

Produce(t) ==
    /\ t \in Producers /\ InTest(t)
    /\ ~ (queue_len = QUEUE_SIZE /\ n_produced < N_ITEMS) /\ n_produced < N_ITEMS
    /\ Put(t)
    /\ queue_len' = queue_len + 1 /\ n_produced' = n_produced + 1
    /\ Signal(not_empty, not_empty')
    /\ queue_mutex' = NOONE /\ PGoto(t, "lock")
    /\ UNCHANGED <<queue_head, n_consumed, not_full, spurious>>

ConsumerWaits(t) ==
    /\ t \in Consumers /\ InTest(t) /\ queue_len = 0 /\ n_consumed < N_ITEMS
    /\ not_empty' = not_empty \cup {t} /\ queue_mutex' = NOONE /\ PGoto(t, "wait")
    /\ UNCHANGED <<countVars, not_full, spurious>>

(* Fault: the others are not told to stop.                                 *)
ConsumerStopsAlone(t) ==
    /\ t \in Consumers /\ InTest(t) /\ n_consumed >= N_ITEMS
    /\ queue_mutex' = NOONE /\ PGoto(t, "done")
    /\ UNCHANGED <<countVars, not_full, not_empty, spurious>>

ConsumerStops(t) ==
    /\ t \in Consumers /\ InTest(t) /\ n_consumed >= N_ITEMS
    /\ not_empty' = {}
    /\ queue_mutex' = NOONE /\ PGoto(t, "done")
    /\ UNCHANGED <<countVars, not_full, spurious>>

(* The slot keeps the item it held; the model clears it so that a second   *)
(* read of it shows.                                                       *)
Consume(t) ==
    /\ t \in Consumers /\ InTest(t)
    /\ ~ (queue_len = 0 /\ n_consumed < N_ITEMS) /\ n_consumed < N_ITEMS
    /\ queue' = [queue EXCEPT ![queue_head] = NOITEM]
    /\ queue_head' = (queue_head + 1) % QUEUE_SIZE
    /\ queue_len' = queue_len - 1 /\ n_consumed' = n_consumed + 1
    /\ Signal(not_full, not_full')
    /\ queue_mutex' = NOONE /\ PGoto(t, "lock")
    /\ UNCHANGED <<queue_tail, n_produced, not_empty, spurious>>

(* pthread_cond_wait returns though nobody signalled.                      *)
SpuriousWake(t) ==
    /\ t \in not_full \cup not_empty
    /\ spurious < MaxSpurious /\ spurious' = spurious + 1
    /\ not_full' = not_full \ {t} /\ not_empty' = not_empty \ {t}
    /\ UNCHANGED <<countVars, queue_mutex, ppc>>

WorkerStep(t) ==
    \/ PLock(t) \/ ProducerWaits(t) \/ ProducerStops(t) \/ Produce(t)
    \/ ConsumerWaits(t) \/ ConsumerStops(t) \/ Consume(t)

ProducerConsumerNext == \E t \in Workers : WorkerStep(t) \/ SpuriousWake(t)

ProducerConsumerSpec == ProducerConsumerInit /\ [][ProducerConsumerNext]_pcVars

-----------------------------------------------------------------------------
(* Distance from a to b going up the ring.                                 *)
Ring(a, b) == IF b >= a THEN b - a ELSE b + QUEUE_SIZE - a

(* The buffer is a queue: it never holds more than QUEUE_SIZE items nor    *)
(* fewer than none, what was produced and not consumed is in the buffer,   *)
(* in the slots from head up to tail, and no more than N_ITEMS are made.   *)
RingCounts ==
    /\ queue_len \in 0..QUEUE_SIZE
    /\ n_produced \in 0..N_ITEMS /\ n_consumed \in 0..N_ITEMS
    /\ n_produced = n_consumed + queue_len
    /\ queue_len \in {0, QUEUE_SIZE} => queue_head = queue_tail
    /\ queue_len \notin {0, QUEUE_SIZE} => queue_len = Ring(queue_head, queue_tail)

RingExact ==
    /\ RingCounts
    /\ \A i \in 0..(QUEUE_SIZE - 1) : queue[i] # NOITEM <=> Ring(queue_head, i) < queue_len

(* Every thread stops: no producer waits for room and no consumer for an   *)
(* item that will not come (weakly fair threads, bounded spurious          *)
(* wakeups).                                                               *)
WorkersStopped == \A t \in Workers : ppc[t] = "done"
=============================================================================
