------------------------------- MODULE Queue -------------------------------
(***************************************************************************)
(* lib/queue.c: a queue of pointers in a ring buffer that grows by         *)
(* doubling.  A ring of size n holds n - 1 items: nextread = nextwrite     *)
(* means empty.  kmalloc may fail in q_grow.                               *)
(***************************************************************************)
EXTENDS Integers, Sequences

CONSTANTS
    Item,       \* pointers that are queued
    Garbage,    \* contents of a slot kmalloc has returned and nobody wrote
    MaxSize     \* bound: the largest ring kmalloc can provide

ASSUME QueueConstants ==
    /\ Garbage \notin Item
    /\ MaxSize \in Nat \ {0}

VARIABLES
    size,       \* slots in the ring
    nextwrite,  \* next slot to write to
    nextread,   \* next slot to read from
    data,       \* the ring
    got         \* what the last call returned: << item >>, or << >>

queueVars == <<size, nextwrite, nextread, data, got>>

Slots(n) == 0..(n - 1)

QueueTypeOK ==
    /\ size \in 1..MaxSize
    /\ nextwrite \in Slots(size)
    /\ nextread \in Slots(size)
    /\ data \in [Slots(size) -> Item \cup {Garbage}]
    /\ got \in {<< >>} \cup {<< x >> : x \in Item \cup {Garbage}}

(* q_create(n).                                                            *)
QueueInit ==
    /\ size \in 1..MaxSize
    /\ nextwrite = 0
    /\ nextread = 0
    /\ data = [i \in Slots(size) |-> Garbage]
    /\ got = << >>

-----------------------------------------------------------------------------
Empty == nextwrite = nextread

(* Number of items between nextread and nextwrite, going round.            *)
Used == (nextwrite - nextread + size) % size

(* The smallest doubling of size that is at least target.                  *)
GrownSize(target, n) ==
    /\ n \in 1..MaxSize
    /\ n >= size /\ n >= target
    /\ \E k \in 0..MaxSize : n = size * 2^k
    /\ n = size \/ n \div 2 < target

(* Fault: the copy starts at the front of the old ring, not at nextread.   *)
CopiedFromFront(n) ==
    [i \in Slots(n) |-> IF i < Used THEN data[i] ELSE Garbage]

(* q_grow: the items are copied to the front of a new ring in order.       *)
CopiedRing(n) ==
    [i \in Slots(n) |-> IF i < Used THEN data[(nextread + i) % size] ELSE Garbage]

(* q_addtail.  A full ring is grown first, and then has room.              *)
AddInPlace(x) ==
    /\ (nextwrite + 1) % size # nextread
    /\ data' = [data EXCEPT ![nextwrite] = x]
    /\ nextwrite' = (nextwrite + 1) % size
    /\ UNCHANGED <<size, nextread>>

AddGrowing(x) ==
    /\ (nextwrite + 1) % size = nextread
    /\ \E n \in 1..MaxSize :
        /\ GrownSize(size + 1, n)
        /\ size' = n
        /\ data' = [CopiedRing(n) EXCEPT ![Used] = x]
        /\ nextread' = 0
        /\ nextwrite' = (Used + 1) % n

AddTail(x) == (AddInPlace(x) \/ AddGrowing(x)) /\ got' = << >>

(* q_addtail returns ENOMEM.                                               *)
AddTailFails ==
    /\ (nextwrite + 1) % size = nextread
    /\ got' = << >>
    /\ UNCHANGED <<size, nextwrite, nextread, data>>

(* q_remhead, which asserts that the queue is not empty.                   *)
RemHead ==
    /\ ~ Empty
    /\ got' = << data[nextread] >>
    /\ nextread' = (nextread + 1) % size
    /\ UNCHANGED <<size, nextwrite, data>>

(* q_preallocate(target), when the ring has to grow.                       *)
Preallocate(target) ==
    /\ target > size
    /\ \E n \in 1..MaxSize :
        /\ GrownSize(target, n)
        /\ size' = n
        /\ data' = CopiedRing(n)
        /\ nextread' = 0
        /\ nextwrite' = Used
    /\ got' = << >>

QueueNext ==
    \/ \E x \in Item : AddTail(x)
    \/ AddTailFails
    \/ RemHead
    \/ \E target \in 1..MaxSize : Preallocate(target)

QueueSpec == QueueInit /\ [][QueueNext]_queueVars

-----------------------------------------------------------------------------
(* The ring seen from outside: the items from nextread up to nextwrite.    *)
Contents == [i \in 1..Used |-> data[(nextread + i - 1) % size]]

Q == INSTANCE Fifo WITH contents <- Contents

(* Items come out in the order they went in, none lost and none twice,     *)
(* also across wrapping round and growing; a failed call changes nothing.  *)
ImplementsFifo == Q!Spec
=============================================================================
