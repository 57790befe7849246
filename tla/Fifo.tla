-------------------------------- MODULE Fifo --------------------------------
(***************************************************************************)
(* What queue.h promises: an unbounded first-in first-out queue, where     *)
(* adding may fail for lack of memory and then changes nothing.            *)
(***************************************************************************)
EXTENDS Sequences

CONSTANT Item

VARIABLES
    contents,  \* the items queued, oldest first
    got        \* the item q_remhead returned last, as a sequence of length <= 1

vars == <<contents, got>>

Init == contents = << >> /\ got = << >>

Add(x) == contents' = Append(contents, x) /\ got' = << >>

Remove ==
    /\ contents # << >>
    /\ got' = << Head(contents) >>
    /\ contents' = Tail(contents)

(* Any other call, or one that fails.                                      *)
NoEffect == contents' = contents /\ got' = << >>

Next == (\E x \in Item : Add(x)) \/ Remove \/ NoEffect

Spec == Init /\ [][Next]_vars
=============================================================================
