------------------------------ MODULE MCFiles ------------------------------
(* The file system SFS: names, links and vnodes with two users of a        *)
(* directory of two names and two inode blocks; and the blocks of its      *)
(* files, of two bytes, with one direct block in a file and six bits of    *)
(* the free map in each of its blocks, on a disk of nine blocks with two   *)
(* files.  Writes begin and end inside a block, cover several, and reach   *)
(* the indirect block.  A behaviour is one of the parts.                   *)
EXTENDS SfsFiles, SfsBlocks, TLC

SfsSymmetry == Permutations(Thread) \cup Permutations(Name) \cup Permutations(Vnode)

VARIABLE part

allVars == <<part, vars, blockVars>>

AllInit == part \in {"names", "blocks"} /\ Init /\ BlocksInit

OnlyNames ==
    part = "names" /\ UNCHANGED <<part, blockVars>>
OnlyBlocks ==
    part = "blocks" /\ UNCHANGED <<part, vars>>

(* The operations that the bound allows have been made.                    *)
Bounded == part = "blocks" /\ UNCHANGED allVars

AllNext ==
    \/ OnlyNames /\ Next
    \/ OnlyBlocks /\ BlocksNext
    \/ Bounded

AllSpec == AllInit /\ [][AllNext]_allVars

-----------------------------------------------------------------------------
(* The vnode table and the directory: no name has two entries, no inode    *)
(* two vnodes, a clean vnode is on disk as it is in memory, and no         *)
(* assertion or panic of these files fires (sfs_vnode.c).                  *)
TableSound == part = "names" => /\ TypeOK /\ NoPanic
                                /\ NamesUnique /\ NoAliases /\ CleanIsOnDisk
=============================================================================
