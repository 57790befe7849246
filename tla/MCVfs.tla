------------------------------- MODULE MCVfs -------------------------------
(* Two threads, a disk with a file system or two with the same volume      *)
(* name, and the emulator file system.                                     *)
EXTENDS Vfs

CONSTANTS vt1, vt2, vd1, vd2, emu0

MCRawName == [x \in Disks |-> IF x = vd1 THEN "d1raw" ELSE "d2raw"]
MCVolume == [x \in Disks |-> "vol"]
OneDisk == << vd1, emu0, vd1 >>        \* the last one is refused
TwoDisks == << vd1, vd2, emu0 >>
=============================================================================
