------------------------------ MODULE Devices ------------------------------
(***************************************************************************)
(* Three small devices: the text screen (dev/lamebus/lscreen.c), the real- *)
(* time clock read through gettime (dev/generic/rtclock.c, ltimer_gettime) *)
(* with the interval arithmetic of the menu, and the random sources        *)
(* (dev/generic/random.c, pseudorand.c, dev/lamebus/lrandom.c).            *)
(*                                                                         *)
(* A machine tries one of them: kind says which.  Device registers are     *)
(* external: the clock, of TicksPerSec ticks in a second, goes on between  *)
(* two reads, for as long as whoever reads it may have been preempted.     *)
(***************************************************************************)
EXTENDS Integers, Sequences, SequencesExt, Pseudorand

CONSTANTS
    Width, Height, Text,         \* screen size; characters, "\n" among them
    MaxText,                     \* bound: characters written
    TicksPerSec, SmallTicks,     \* 10^9 and 5000000 in ltimer_gettime
    MaxTime,                     \* bound on the clock
    Seeds,                       \* seeds tried
    LRandMax, LRand,             \* LR_RANDMAX; values of the random register
    MaxReads                     \* bound: calls to random()

ASSUME DevicesConstants ==
    /\ Width \in Nat \ {0} /\ Height \in Nat \ {0}
    /\ SmallTicks \in 1..(TicksPerSec - 1)
    /\ \A s \in Seeds : SeedInRange(s)
    /\ LRand \subseteq 0..LRandMax

VARIABLES
    kind,
    ls, written,            \* lscreen_softc; history of the characters
    now, gt, times,         \* the clock; a call of gettime; its results
    units, the_random, ps_seed, rands   \* configured so far; source; state

devVars == <<kind, ls, written, now, gt, times, units, the_random, ps_seed, rands>>
screenVars == <<ls, written>>
clockVars == <<now, gt, times>>
randVars == <<units, the_random, ps_seed, rands>>

BlankRow == [x \in 1..Width |-> "blank"]

DevicesInit ==
    /\ kind \in {"screen", "clock", "random"}
    /\ ls = [cx |-> 0, cy |-> 0, screen |-> [y \in 1..Height |-> BlankRow], posn |-> <<0, 0>>]
    /\ written = <<>>
    /\ now \in IF kind = "clock" THEN 0..(TicksPerSec - 1) ELSE {0}
    /\ gt = [at |-> "idle"] /\ times = <<>>
    /\ units = 0 /\ the_random = "none" /\ rands = <<>>
    /\ ps_seed \in IF kind = "random" THEN Seeds ELSE {1}

-----------------------------------------------------------------------------
(* Fault: the last row is not cleared by scrolling.                        *)
NewlineSmear(s) ==
    [s EXCEPT !.cx = 0,
              !.cy = IF s.cy >= Height - 1 THEN @ ELSE @ + 1,
              !.screen = IF s.cy >= Height - 1
                         THEN [y \in 1..Height |-> IF y < Height THEN s.screen[y + 1] ELSE s.screen[y]]
                         ELSE @]

lscreen_newline(s) ==
    [s EXCEPT !.cx = 0,
              !.cy = IF s.cy >= Height - 1 THEN @ ELSE @ + 1,
              !.screen = IF s.cy >= Height - 1
                         THEN [y \in 1..Height |-> IF y < Height THEN s.screen[y + 1] ELSE BlankRow]
                         ELSE @]

lscreen_char(s, ch) ==
    LET n == IF s.cx >= Width THEN lscreen_newline(s) ELSE s
    IN [n EXCEPT !.screen[n.cy + 1][n.cx + 1] = ch, !.cx = @ + 1]

(* The cursor register is held back at the end of a line.                  *)
lscreen_write(ch) ==
    /\ kind = "screen" /\ Len(written) < MaxText
    /\ LET s == IF ch = "\n" THEN lscreen_newline(ls) ELSE lscreen_char(ls, ch)
       IN ls' = [s EXCEPT !.posn = <<IF s.cx = Width THEN s.cx - 1 ELSE s.cx, s.cy>>]
    /\ written' = Append(written, ch)
    /\ UNCHANGED <<kind, clockVars, randVars>>

-----------------------------------------------------------------------------
(* gettime, register by register.                                          *)
Sec(t) == t \div TicksPerSec
Nsec(t) == t % TicksPerSec

Tick ==
    /\ kind = "clock" /\ now < MaxTime
    /\ now' = now + 1
    /\ UNCHANGED <<kind, screenVars, gt, times, randVars>>

ReadSecs1 ==
    /\ kind = "clock" /\ gt.at = "idle" /\ Len(times) < 2
    /\ gt' = [at |-> "nsec", start |-> now, mid |-> now, secs1 |-> Sec(now), nsecs |-> 0]
    /\ UNCHANGED <<kind, screenVars, now, times, randVars>>

ReadNsecs ==
    /\ kind = "clock" /\ gt.at = "nsec"
    /\ gt' = [gt EXCEPT !.at = "secs2", !.mid = now, !.nsecs = Nsec(now)]
    /\ UNCHANGED <<kind, screenVars, now, times, randVars>>

(* Fault: the earlier seconds are always used.                             *)
SecondsEarly(g, secs2) == g.secs1

Seconds(g, secs2) == IF g.nsecs < SmallTicks THEN secs2 ELSE g.secs1

ReadSecs2 ==
    /\ kind = "clock" /\ gt.at = "secs2"
    /\ times' = Append(times, [secs |-> Seconds(gt, Sec(now)), nsecs |-> gt.nsecs,
                               from |-> gt.start, mid |-> gt.mid, to |-> now])
    /\ gt' = [at |-> "idle"]
    /\ UNCHANGED <<kind, screenVars, now, randVars>>

(* The time between two calls, as cmd_dispatch prints it.                  *)
getinterval(a, b) ==
    IF b.nsecs < a.nsecs THEN [secs |-> b.secs - 1 - a.secs, nsecs |-> b.nsecs + TicksPerSec - a.nsecs]
    ELSE [secs |-> b.secs - a.secs, nsecs |-> b.nsecs - a.nsecs]

-----------------------------------------------------------------------------
(* config_random: the first source becomes the_random, later ones ENODEV.  *)
config_random(source) ==
    /\ kind = "random" /\ units < 2
    /\ units' = units + 1
    /\ the_random' = IF units = 0 THEN source ELSE the_random
    /\ UNCHANGED <<kind, screenVars, clockVars, ps_seed, rands>>

(* A read of "random:" takes three bytes of each of pseudorand's values    *)
(* (bits 4 to 27), and all four of lrandom's.                              *)
pseudorand_read(val) == <<(val \div 16) % 256, (val \div 4096) % 256, (val \div 1048576) % 256>>
lrandom_read(val) ==
    <<val \div 16777216, (val \div 65536) % 256, (val \div 256) % 256, val % 256>>

pseudorand_randmax == MODULUS - 2

(* One value, for random() or, with its bytes, for a read.                 *)
FromPseudorand(read) ==
    /\ the_random = "pseudorand"
    /\ ps_seed' = pseudorand_next(ps_seed)
    /\ rands' = Append(rands, [val |-> ps_seed' - 1, max |-> pseudorand_randmax,
                               bytes |-> IF read THEN pseudorand_read(ps_seed' - 1) ELSE <<>>])

FromLrandom(read) ==
    /\ the_random = "lrandom"
    /\ \E v \in LRand :
          rands' = Append(rands, [val |-> v, max |-> LRandMax,
                                  bytes |-> IF read THEN lrandom_read(v) ELSE <<>>])
    /\ UNCHANGED ps_seed

(* random() without a source is a panic.                                   *)
random ==
    /\ kind = "random" /\ the_random # "none" /\ Len(rands) < MaxReads
    /\ FromPseudorand(FALSE) \/ FromLrandom(FALSE)
    /\ UNCHANGED <<kind, screenVars, clockVars, units, the_random>>

randio ==
    /\ kind = "random" /\ the_random # "none" /\ Len(rands) < MaxReads
    /\ FromPseudorand(TRUE) \/ FromLrandom(TRUE)
    /\ UNCHANGED <<kind, screenVars, clockVars, units, the_random>>

DevicesNext ==
    \/ \E ch \in Text : lscreen_write(ch)
    \/ Tick \/ ReadSecs1 \/ ReadNsecs \/ ReadSecs2
    \/ \E source \in {"lrandom", "pseudorand"} : config_random(source)
    \/ random \/ randio

-----------------------------------------------------------------------------
(* The rows a text has on a screen with no bottom.                         *)
Rows(text) ==
    LET Put(rows, ch) ==
          IF ch = "\n" THEN Append(rows, <<>>)
          ELSE IF Len(Last(rows)) = Width THEN Append(rows, <<ch>>)
          ELSE [rows EXCEPT ![Len(rows)] = Append(@, ch)]
    IN FoldLeft(Put, << <<>> >>, text)

(* The screen shows the end of what was written: its rows are the last     *)
(* rows of the text, blank where the text is, and the cursor is where the  *)
(* next character goes, on the screen.                                     *)
ScreenShowsText ==
    LET rows == Rows(written)
        first == IF Len(rows) > Height THEN Len(rows) - Height ELSE 0
        Cell(y, x) == IF first + y <= Len(rows) /\ x <= Len(rows[first + y])
                      THEN rows[first + y][x] ELSE "blank"
    IN kind = "screen" =>
        /\ \A y \in 1..Height, x \in 1..Width : ls.screen[y][x] = Cell(y, x)
        /\ ls.cy + 1 = Len(rows) - first /\ ls.cx = Len(Last(rows))
        /\ ls.posn[1] \in 0..(Width - 1) /\ ls.posn[2] \in 0..(Height - 1)

(* The call was not kept from its next read for longer than it allows for: *)
(* 5 ms after the first, the rest of a second after the second.            *)
Prompt(g) == g.mid - g.from <= SmallTicks /\ g.to - g.mid <= TicksPerSec - SmallTicks

(* gettime gives a time between the call's start and its end, though the   *)
(* seconds may turn over between its reads (ltimer_gettime).  It may be    *)
(* preempted there for longer than it allows for, and its answer is then   *)
(* up to 5 ms late or early by less than a second.  The interval between   *)
(* two answers is their difference, and not negative if both are right.    *)
TimeIsRight ==
    LET At(g) == g.secs * TicksPerSec + g.nsecs
    IN  /\ \A g \in Range(times) :
              /\ Prompt(g) => g.from <= At(g) /\ At(g) <= g.to
              /\ g.from - (TicksPerSec - SmallTicks) < At(g) /\ At(g) < g.to + SmallTicks
        /\ Len(times) = 2 =>
              LET d == getinterval(times[1], times[2])
              IN  /\ d.nsecs \in 0..(TicksPerSec - 1)
                  /\ d.secs * TicksPerSec + d.nsecs = At(times[2]) - At(times[1])
                  /\ Prompt(times[1]) /\ Prompt(times[2]) => d.secs >= 0

(* The generator's seed stays between 1 and MODULUS-1, random() is at most *)
(* what randmax() says, and the bytes handed to readers are bytes.         *)
RandomInRange ==
    /\ SeedInRange(ps_seed)
    /\ \A i \in DOMAIN rands :
          rands[i].val \in 0..rands[i].max /\ \A k \in DOMAIN rands[i].bytes : rands[i].bytes[k] \in 0..255
=============================================================================
