----------------------------- MODULE Pseudorand -----------------------------
(* The generator of dev/generic/pseudorand.c, with its own numbers.        *)
EXTENDS Integers

MULTIPLIER == 16807
MODULUS == 2147483647
K1 == 127773        \* MODULUS / MULTIPLIER
K2 == 2836          \* MODULUS % MULTIPLIER

(* Fault: the remainder is taken by the wrong constant.                    *)
PseudorandWrongK(seed) == MULTIPLIER * (seed % K1) - K2 * (seed \div K1)

pseudorand_next(seed) ==
    LET tmp == MULTIPLIER * (seed % K1) - K2 * (seed \div K1)
    IN IF tmp <= 0 THEN tmp + MODULUS ELSE tmp

(* "The seed ranges from 1 through MODULUS-1."                             *)
SeedInRange(seed) == seed \in Int /\ seed >= 1 /\ seed <= MODULUS - 1

(* The int32_t arithmetic of one call does not overflow.                   *)
NoOverflow(seed) ==
    /\ MULTIPLIER * (seed % K1) <= MODULUS
    /\ K2 * (seed \div K1) <= MODULUS
    /\ MULTIPLIER * (seed % K1) - K2 * (seed \div K1) >= 0 - MODULUS
=============================================================================
