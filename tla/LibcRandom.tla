----------------------------- MODULE LibcRandom -----------------------------
(***************************************************************************)
(* random, srandom, initstate and setstate (lib/libc/random.c): a trinomial *)
(* generator whose state lies in an array of the caller's, with the type   *)
(* and the position of the rear pointer packed into its first word, so     *)
(* that a program can switch between several.  A word has WordMod values.  *)
(***************************************************************************)
EXTENDS Integers, Sequences

CONSTANTS Arrays,          \* state arrays; the static randtbl is one
          FirstArray,      \* randtbl
          FirstType,       \* its type
          degrees, seps,   \* degrees[] and seps[], for the types from 0
          WordMod,         \* 2^32
          LcMul, LcAdd,    \* 1103515245 and 12345
          RandomSeeds, Warmup,   \* seeds used; 10, the rounds after seeding
          MaxRandomCalls         \* bound: calls

MAX_TYPES == Len(degrees)
Types == 0..(MAX_TYPES - 1)
Deg(ty) == degrees[ty + 1]
Sep(ty) == seps[ty + 1]
Longest == CHOOSE d \in {Deg(ty) : ty \in Types} : \A ty \in Types : Deg(ty) <= d

ASSUME RandomConstants ==
    /\ Len(seps) = Len(degrees) /\ Deg(0) = 0 /\ FirstType \in Types \ {0}
    /\ FirstArray \in Arrays
    /\ \A ty \in Types \ {0} : 0 < Sep(ty) /\ Sep(ty) < Deg(ty)

VARIABLES
    word0,       \* each array's first word
    words,       \* the words after it
    state,       \* the array in use
    rand_type, fptr, rptr,
    lags,        \* history: each array's generator as its last values, oldest
                 \* first; empty before initstate
    strayed,     \* history: arrays that setstate was given while in use
    randomCalls

libRandVars == <<word0, words, state, rand_type, fptr, rptr, lags, strayed, randomCalls>>

(* One step of a generator; both pointers cannot wrap in the same one.     *)
random_unlocked(g) ==
    IF g.type = 0 THEN [g EXCEPT !.w[0] = ((LcMul * @) + LcAdd) % (WordMod \div 2)]
    ELSE LET wraps == g.f + 1 >= Deg(g.type)
         IN [g EXCEPT !.w[g.f] = (@ + g.w[g.r]) % WordMod,
                      !.f = IF wraps THEN 0 ELSE @ + 1,
                      !.r = IF ~ wraps /\ @ + 1 >= Deg(g.type) THEN 0 ELSE @ + 1]

Rounds(g, n) ==
    LET after[k \in 0..n] == IF k = 0 THEN g ELSE random_unlocked(after[k - 1]) IN after[n]

(* srandom_unlocked: the words from the seed, the pointers sep apart, and  *)
(* then a number of rounds.                                                *)
Seeded(w, type, seed) ==
    LET lc[i \in 0..Longest] == IF i = 0 THEN seed ELSE ((LcMul * lc[i - 1]) + LcAdd) % WordMod
    IN [i \in DOMAIN w |-> IF i = 0 \/ i < Deg(type) THEN lc[i] ELSE w[i]]

srandom_unlocked(w, type, seed, f, r) ==
    IF type = 0 THEN [w |-> Seeded(w, type, seed), f |-> f, r |-> r, type |-> type]
    ELSE Rounds([w |-> Seeded(w, type, seed), f |-> Sep(type), r |-> 0, type |-> type],
                Warmup * Deg(type))

Sets(g) == fptr' = g.f /\ rptr' = g.r /\ rand_type' = g.type
Gen == [w |-> words[state], f |-> fptr, r |-> rptr, type |-> rand_type]

(* The first word: type and rear pointer.                                  *)
Packed(type, r) == IF type = 0 THEN type ELSE (MAX_TYPES * r) + type

(* The same generator by its recurrence: the last Deg values, oldest       *)
(* first; each new one is the sum of those Deg and Sep back.               *)
NextLag(type, s) ==
    IF type = 0 THEN << ((LcMul * s[1]) + LcAdd) % (WordMod \div 2) >>
    ELSE Append(Tail(s), (s[1] + s[Deg(type) - Sep(type) + 1]) % WordMod)
LagRounds(type, s, n) ==
    LET after[k \in 0..n] == IF k = 0 THEN s ELSE NextLag(type, after[k - 1]) IN after[n]
FirstLags(w, type, seed) ==
    LET v == Seeded(w, type, seed)
    IN IF type = 0 THEN << seed >>
       ELSE LagRounds(type, [i \in 1..Deg(type) |-> v[((Sep(type) + i) - 1) % Deg(type)]],
                      Warmup * Deg(type))

Blank == [i \in 0..(Longest - 1) |-> 0]
RandomInit ==
    LET g == srandom_unlocked(Blank, FirstType, 1, 0, 0)
    IN /\ word0 = [a \in Arrays |-> IF a = FirstArray THEN Packed(FirstType, g.r) ELSE 0]
       /\ words = [a \in Arrays |-> IF a = FirstArray THEN g.w ELSE Blank]
       /\ state = FirstArray /\ rand_type = FirstType /\ fptr = g.f /\ rptr = g.r
       /\ lags = [a \in Arrays |-> IF a = FirstArray THEN FirstLags(Blank, FirstType, 1) ELSE << >>]
       /\ strayed = {} /\ randomCalls = 0

Call == randomCalls < MaxRandomCalls /\ randomCalls' = randomCalls + 1

Random ==
    LET g == random_unlocked(Gen)
    IN /\ Call /\ words' = [words EXCEPT ![state] = g.w] /\ Sets(g)
       /\ lags' = [lags EXCEPT ![state] = NextLag(rand_type, @)]
       /\ UNCHANGED <<word0, state, strayed>>

Srandom(seed) ==
    LET g == srandom_unlocked(words[state], rand_type, seed, fptr, rptr)
    IN /\ Call /\ words' = [words EXCEPT ![state] = g.w] /\ Sets(g)
       /\ lags' = [lags EXCEPT ![state] = FirstLags(words[state], rand_type, seed)]
       /\ strayed' = strayed \ {state}
       /\ UNCHANGED <<word0, state>>

(* The current array's first word is saved before any change.              *)
(* Fault: it is not.                                                       *)
NotSaved == word0
Saved == [word0 EXCEPT ![state] = Packed(rand_type, rptr)]

(* initstate; an array too small for any generator changes nothing else.   *)
Initstate(a, type, seed) ==
    LET g == srandom_unlocked(words[a], type, seed, fptr, rptr)
    IN /\ Call
       /\ word0' = [Saved EXCEPT ![a] = Packed(type, g.r)]
       /\ words' = [words EXCEPT ![a] = g.w] /\ Sets(g) /\ state' = a
       /\ lags' = [lags EXCEPT ![a] = FirstLags(words[a], type, seed)]
       /\ strayed' = strayed \ {a}

InitstateSmall ==
    /\ Call /\ word0' = Saved
    /\ UNCHANGED <<words, state, rand_type, fptr, rptr, lags, strayed>>

(* What the words of an array with the given type and rear pointer stand   *)
(* for.                                                                    *)
Lags(w, type, r) ==
    IF type = 0 THEN << w[0] >>
    ELSE [i \in 1..Deg(type) |-> w[((r + Sep(type) + i) - 1) % Deg(type)]]

(* setstate: the type and the rear pointer are read before the current     *)
(* array's are saved, so that a call with the array in use goes back to    *)
(* where the pointers were when its first word was written last.           *)
Setstate(a) ==
    LET type == word0[a] % MAX_TYPES
        rear == word0[a] \div MAX_TYPES
    IN /\ Call /\ lags[a] # << >>
       /\ word0' = Saved /\ state' = a /\ rand_type' = type
       /\ IF type = 0 THEN UNCHANGED <<fptr, rptr>>
          ELSE rptr' = rear /\ fptr' = (rear + Sep(type)) % Deg(type)
       /\ strayed' = IF a = state THEN strayed \cup {a} ELSE strayed
       /\ UNCHANGED <<words, lags>>

RandomNext ==
    \/ Random \/ InitstateSmall
    \/ \E seed \in RandomSeeds : Srandom(seed) \/ \E a \in Arrays, ty \in Types : Initstate(a, ty, seed)
    \/ \E a \in Arrays : Setstate(a)

-----------------------------------------------------------------------------
(* Every array goes on with its own sequence, as if no other existed: the  *)
(* one in use has the state of its generator, with the pointers in bounds  *)
(* and Sep apart, and each of the others has it saved.  An array loses its *)
(* place when setstate is called with it while it is in use, though the    *)
(* comment of setstate calls that "OK"; nothing but the pointers is        *)
(* claimed of it then, until it is seeded again.                           *)
StatesKept ==
    /\ state \notin strayed => lags[state] = Lags(words[state], rand_type, rptr)
    /\ rand_type # 0 => rptr \in 0..(Deg(rand_type) - 1)
                        /\ fptr = (rptr + Sep(rand_type)) % Deg(rand_type)
    /\ \A a \in {b \in Arrays \ (strayed \cup {state}) : lags[b] # << >>} :
          lags[a] = Lags(words[a], word0[a] % MAX_TYPES, word0[a] \div MAX_TYPES)
=============================================================================
