------------------------------ MODULE Monitor ------------------------------
(***************************************************************************)
(* What synch.h promises its callers: semaphores, locks and condition      *)
(* variables whose operations are atomic.  Blocking is an action that is   *)
(* not enabled.  cv_wait gives up the lock and joins the waiters in one    *)
(* step; a thread that has been signalled contends for the lock like       *)
(* anybody else (Mesa semantics).                                          *)
(***************************************************************************)
EXTENDS Naturals

CONSTANTS Thread, Sem, Lock, CV, NULL, InitialCount

VARIABLES
    value,    \* count of each semaphore
    holder,   \* thread that holds each lock, or NULL
    waiters   \* threads waiting on each condition variable

vars == <<value, holder, waiters>>

Init ==
    /\ value = [s \in Sem |-> InitialCount]
    /\ holder = [l \in Lock |-> NULL]
    /\ waiters = [c \in CV |-> {}]

P(s) ==
    /\ value[s] > 0
    /\ value' = [value EXCEPT ![s] = @ - 1]
    /\ UNCHANGED <<holder, waiters>>

V(s) ==
    /\ value' = [value EXCEPT ![s] = @ + 1]
    /\ UNCHANGED <<holder, waiters>>

Acquire(t, l) ==
    /\ holder[l] = NULL
    /\ \A c \in CV : t \notin waiters[c]
    /\ holder' = [holder EXCEPT ![l] = t]
    /\ UNCHANGED <<value, waiters>>

Release(t, l) ==
    /\ holder[l] = t
    /\ holder' = [holder EXCEPT ![l] = NULL]
    /\ UNCHANGED <<value, waiters>>

Wait(t, c, l) ==
    /\ holder[l] = t
    /\ holder' = [holder EXCEPT ![l] = NULL]
    /\ waiters' = [waiters EXCEPT ![c] = @ \cup {t}]
    /\ UNCHANGED value

Signal(t, c, w) ==
    /\ \E l \in Lock : holder[l] = t
    /\ w \in waiters[c]
    /\ waiters' = [waiters EXCEPT ![c] = @ \ {w}]
    /\ UNCHANGED <<value, holder>>

Broadcast(t, c) ==
    /\ \E l \in Lock : holder[l] = t
    /\ waiters' = [waiters EXCEPT ![c] = {}]
    /\ UNCHANGED <<value, holder>>

Next ==
    \/ \E s \in Sem : P(s) \/ V(s)
    \/ \E t \in Thread, l \in Lock : Acquire(t, l) \/ Release(t, l)
    \/ \E t \in Thread, c \in CV :
        \/ \E l \in Lock : Wait(t, c, l)
        \/ \E w \in Thread : Signal(t, c, w)
        \/ Broadcast(t, c)

Spec == Init /\ [][Next]_vars
=============================================================================
