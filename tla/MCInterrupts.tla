---------------------------- MODULE MCInterrupts ----------------------------
EXTENDS Interrupts, TLC

CONSTANTS i1, i2

(* A timer, a disk, a network card nobody drives, a disk of an unknown     *)
(* revision and the controller.                                            *)
MCCard == 0 :> [did |-> "timer", drl |-> 1] @@ 1 :> [did |-> "disk", drl |-> 2]
          @@ 2 :> [did |-> "net", drl |-> 1] @@ 3 :> [did |-> "disk", drl |-> 9]
          @@ 4 :> [did |-> "none", drl |-> 0]

(* The order of the ASST1 configuration, and two drivers it leaves out.    *)
MCAutoConf == << attach_emu, attach_ltrace, attach_ltimer, attach_lrandom, attach_lhd, attach_lser,
                 attach_lscreen, attach_lnet >>
=============================================================================
