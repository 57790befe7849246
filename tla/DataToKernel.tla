---------------------------- MODULE DataToKernel ----------------------------
(***************************************************************************)
(* hw2/data_to_kernel.c: N_PRODUCERS user threads each put one item into a *)
(* ring of packets, in the order of their ids, and kernel threads serve    *)
(* them until no producer is left.  Pthreads are external, as in           *)
(* ProducerConsumer; both conditions are broadcast.                        *)
(***************************************************************************)
EXTENDS Integers, Sequences

CONSTANTS N_PACKETS, N_PRODUCERS, KThreads, MaxStirs

ASSUME DataToKernelConstants ==
    N_PACKETS \in Nat \ {0} /\ N_PRODUCERS \in Nat /\ MaxStirs \in Nat

Uthreads == 1..N_PRODUCERS

VARIABLES avail_packets, curr_producer_id, packets, packet_head, packet_tail,
          packet_mutex,            \* <<thread>>, or << >> when it is free
          waits_full, waits_empty, \* producers on not_full, consumers on not_empty
          upc, kpc,                \* where each producer and each consumer is
          served,                  \* the ids printed as served, in order
          stirs                    \* wakeups without a broadcast

packetVars == <<avail_packets, curr_producer_id, packets, packet_head, packet_tail>>
dtkVars == <<packetVars, packet_mutex, waits_full, waits_empty, upc, kpc, served, stirs>>

DataToKernelInit ==
    /\ avail_packets = N_PACKETS /\ curr_producer_id = 1
    /\ packets = [i \in 0..(N_PACKETS - 1) |-> 0] /\ packet_head = 0 /\ packet_tail = 0
    /\ packet_mutex = << >> /\ waits_full = {} /\ waits_empty = {}
    /\ upc = [u \in Uthreads |-> "lock"] /\ kpc = [k \in KThreads |-> "lock"]
    /\ served = << >> /\ stirs = 0

(* pthread_mutex_lock, also at the end of pthread_cond_wait.               *)
ULock(u) ==
    /\ upc[u] = "lock" /\ u \notin waits_full /\ packet_mutex = << >>
    /\ packet_mutex' = <<u>> /\ upc' = [upc EXCEPT ![u] = "test"]
    /\ UNCHANGED <<packetVars, waits_full, waits_empty, kpc, served, stirs>>

UWait(u) ==
    /\ upc[u] = "test" /\ (avail_packets = 0 \/ curr_producer_id # u)
    /\ waits_full' = waits_full \cup {u} /\ packet_mutex' = << >>
    /\ upc' = [upc EXCEPT ![u] = "lock"]
    /\ UNCHANGED <<packetVars, waits_empty, kpc, served, stirs>>

(* Fault: a full ring does not hold a producer whose turn it is.           *)
TurnOnly(u) == curr_producer_id = u
MayPut(u) == avail_packets > 0 /\ curr_producer_id = u

UPut(u) ==
    /\ upc[u] = "test" /\ MayPut(u)
    /\ packets' = [packets EXCEPT ![packet_tail] = u]
    /\ packet_tail' = (packet_tail + 1) % N_PACKETS
    /\ avail_packets' = avail_packets - 1 /\ curr_producer_id' = curr_producer_id + 1
    /\ waits_empty' = {} /\ packet_mutex' = << >>
    /\ upc' = [upc EXCEPT ![u] = "done"]
    /\ UNCHANGED <<packet_head, waits_full, kpc, served, stirs>>

KLock(k) ==
    /\ kpc[k] = "lock" /\ k \notin waits_empty /\ packet_mutex = << >>
    /\ packet_mutex' = <<k>> /\ kpc' = [kpc EXCEPT ![k] = "test"]
    /\ UNCHANGED <<packetVars, waits_full, waits_empty, upc, served, stirs>>

NoProducers == curr_producer_id = N_PRODUCERS + 1

KStop(k) ==
    /\ kpc[k] = "test" /\ avail_packets = N_PACKETS /\ NoProducers
    /\ packet_mutex' = << >> /\ kpc' = [kpc EXCEPT ![k] = "done"]
    /\ UNCHANGED <<packetVars, waits_full, waits_empty, upc, served, stirs>>

KWait(k) ==
    /\ kpc[k] = "test" /\ avail_packets = N_PACKETS /\ ~ NoProducers
    /\ waits_empty' = waits_empty \cup {k} /\ packet_mutex' = << >>
    /\ kpc' = [kpc EXCEPT ![k] = "lock"]
    /\ UNCHANGED <<packetVars, waits_full, upc, served, stirs>>

KServe(k) ==
    /\ kpc[k] = "test" /\ avail_packets # N_PACKETS
    /\ served' = Append(served, packets[packet_head])
    /\ packet_head' = (packet_head + 1) % N_PACKETS /\ avail_packets' = avail_packets + 1
    /\ waits_full' = {} /\ packet_mutex' = << >>
    /\ kpc' = [kpc EXCEPT ![k] = "lock"]
    /\ UNCHANGED <<curr_producer_id, packets, packet_tail, waits_empty, upc, stirs>>

(* pthread_cond_wait may return by itself.                                 *)
Stir ==
    /\ stirs < MaxStirs /\ stirs' = stirs + 1
    /\ \/ \E u \in waits_full : waits_full' = waits_full \ {u} /\ UNCHANGED waits_empty
       \/ \E k \in waits_empty : waits_empty' = waits_empty \ {k} /\ UNCHANGED waits_full
    /\ UNCHANGED <<packetVars, packet_mutex, upc, kpc, served>>

UStep(u) == ULock(u) \/ UWait(u) \/ UPut(u)
KStep(k) == KLock(k) \/ KStop(k) \/ KWait(k) \/ KServe(k)

DataToKernelNext ==
    \/ Stir \/ (\E u \in Uthreads : UStep(u)) \/ (\E k \in KThreads : KStep(k))

DataToKernelSpec == DataToKernelInit /\ [][DataToKernelNext]_dtkVars

-----------------------------------------------------------------------------
(* The user threads are served once each, in the order of their ids: none  *)
(* is skipped, overwritten in the ring or served twice, and the free       *)
(* packets are counted exactly.                                            *)
ServedInOrder ==
    /\ served = [i \in 1..Len(served) |-> i]
    /\ avail_packets = N_PACKETS - ((curr_producer_id - 1) - Len(served))

(* Every thread ends, though a producer is woken only by a consumer, and a *)
(* consumer that finds the ring empty only by a producer (fair threads).   *)
ServiceOver ==
    (\A u \in Uthreads : upc[u] = "done") /\ (\A k \in KThreads : kpc[k] = "done")
=============================================================================
