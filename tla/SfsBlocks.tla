----------------------------- MODULE SfsBlocks ------------------------------
(***************************************************************************)
(* The blocks of SFS: a volume as mksfs makes it (sbin/mksfs), allocation  *)
(* (lib/bitmap.c, sfs_balloc), the map from file blocks to disk blocks,    *)
(* read, write and truncate (fs/sfs/sfs_vnode.c), and what is found again  *)
(* after a vnode was reclaimed or the volume remounted.                    *)
(*                                                                         *)
(* Operations do not overlap here (SfsFiles is about overlap).  Each runs  *)
(* on a record of the file system's state with "fuel", the number of disk  *)
(* accesses that succeed before one fails; a failed access has no effect   *)
(* and ends the operation with what it had done so far, which is what the  *)
(* code here expects of sfs_rblock and sfs_wblock (DiskIO is about what    *)
(* they really do).                                                        *)
(*                                                                         *)
(* A block is a function from its BlockSize places to numbers: the bytes   *)
(* of a data block, or the block numbers in an indirect one.  A file is    *)
(* named by the one byte it is ever filled with, so that a byte tells      *)
(* whose it is.                                                            *)
(***************************************************************************)
EXTENDS Integers, SequencesExt

CONSTANTS
    BlockSize, NDirect,
    BitsPerBlock,      \* SFS_BLOCKBITS
    NBlocks,           \* sp_nblocks
    Files,             \* files, each the byte written to it
    Offsets, Amounts,  \* uio_offset and uio_resid of the writes
    Lengths,           \* lengths truncated to
    WriteFuel, TruncFuel,  \* accesses that succeed before one fails
    Enough,            \* more accesses than an operation makes
    MaxOps             \* bound: operations

SB == 0                \* SFS_SB_LOCATION
Root == 1              \* SFS_ROOT_LOCATION
MapLocation == 2       \* SFS_MAP_LOCATION
MaxBytes == (NDirect + BlockSize) * BlockSize
RoundUp(a, b) == (a + b - 1) \div b
BitBlocks == RoundUp(NBlocks, BitsPerBlock)
Bits == 0..(BitBlocks * BitsPerBlock - 1)
Places == 0..(BlockSize - 1)
Bytes == 0..(MaxBytes - 1)
Zeros == [i \in Places |-> 0]

ASSUME BlocksConstants ==
    /\ \A n \in {BlockSize, NDirect, BitsPerBlock} : n \in Nat \ {0}
    /\ NBlocks >= MapLocation + BitBlocks
    /\ Files \cap (Bits \cup {0}) = {}
    /\ Offsets \subseteq Nat /\ Amounts \subseteq Nat \ {0}

VARIABLES
    fs,      \* freemap, inodes in memory, blocks of the disk; history:
             \* fs.wrote[f], the bytes of f written and not truncated away since;
             \* fs.cut, the file truncated last if nothing else was done since;
             \* fs.torn, blocks set free whose entries could not be cleared
    blkmap, dinode,    \* the freemap and the inodes on disk
    failed,  \* history: a disk access has failed (at most one does)
    ops      \* operations so far

blockVars == <<fs, blkmap, dinode, failed, ops>>

-----------------------------------------------------------------------------
NoInode == [ino |-> 0, direct |-> [i \in 0..(NDirect - 1) |-> 0], indirect |-> 0,
            size |-> 0, dirty |-> FALSE]

(* Fault: the bits past the end of the volume are left clear.              *)
WriteBitmapShort == {SB, Root} \cup MapLocation..(MapLocation + BitBlocks - 1)

(* The blocks that writebitmap of mksfs marks.                             *)
WriteBitmap ==
    {SB, Root} \cup MapLocation..(MapLocation + BitBlocks - 1) \cup {b \in Bits : b >= NBlocks}

(* A new volume, just mounted.                                             *)
BlocksInit ==
    /\ fs = [map |-> WriteBitmap, mapdirty |-> FALSE,
             inode |-> [f \in Files |-> NoInode],
             disk |-> [b \in Bits |-> Zeros],
             wrote |-> [f \in Files |-> {}], cut |-> 0, torn |-> {}, panic |-> FALSE, err |-> "ok", fuel |-> 0, block |-> 0, pos |-> 0]
    /\ blkmap = WriteBitmap
    /\ dinode = [f \in Files |-> NoInode]
    /\ failed = FALSE /\ ops = 0

-----------------------------------------------------------------------------
(* One part of an operation after another, until one fails.                *)
Then(s, Op(_)) == IF s.err = "ok" THEN Op(s) ELSE s

Failed(s, e) == [s EXCEPT !.err = e]

(* sfs_rblock and sfs_wblock.                                              *)
RBlock(s) == IF s.fuel = 0 THEN Failed(s, "EIO") ELSE [s EXCEPT !.fuel = @ - 1]
WBlock(s, b, data) == Then(RBlock(s), LAMBDA t : [t EXCEPT !.disk[b] = data])

(* sfs_balloc: bitmap_alloc takes the first clear bit; the block is        *)
(* cleared on disk, and stays marked should that fail.                     *)
Balloc(s) ==
    LET free == Bits \ s.map
        b == Min(free)
    IN  IF free = {} THEN Failed(s, "ENOSPC")
        ELSE WBlock([s EXCEPT !.map = @ \cup {b}, !.mapdirty = TRUE, !.block = b,
                              !.panic = @ \/ b >= NBlocks], b, Zeros)

(* sfs_bfree of several blocks: bitmap_unmark insists that they are set.   *)
Bfree(s, blocks) ==
    [s EXCEPT !.map = @ \ blocks, !.mapdirty = @ \/ blocks # {},
              !.panic = @ \/ ~ (blocks \subseteq s.map)]

(* The end of sfs_bmap: the block handed back must be in use.              *)
Mapped(s, b) == [s EXCEPT !.block = b, !.panic = @ \/ (b # 0 /\ b \notin s.map)]

BmapDirect(s, f, n, doalloc) ==
    IF s.inode[f].direct[n] = 0 /\ doalloc
    THEN Then(Balloc(s), LAMBDA t :
              Mapped([t EXCEPT !.inode[f].direct[n] = t.block, !.inode[f].dirty = TRUE],
                     t.block))
    ELSE Mapped(s, s.inode[f].direct[n])

(* The indirect block is read, or allocated when there is none.            *)
IndirectBlock(s, f) ==
    IF s.inode[f].indirect # 0 THEN RBlock(s)
    ELSE Then(Balloc(s), LAMBDA t :
              [t EXCEPT !.inode[f].indirect = t.block, !.inode[f].dirty = TRUE])

BmapIndirect(s, f, n, doalloc) ==
    Then(IndirectBlock(s, f), LAMBDA t :
        LET id == t.inode[f].indirect
            b == t.disk[id][n]
        IN  IF b = 0 /\ doalloc
            THEN Then(Balloc(t), LAMBDA u :
                      Then(WBlock(u, id, [u.disk[id] EXCEPT ![n] = u.block]),
                           LAMBDA w : Mapped(w, u.block)))
            ELSE Mapped(t, b))

(* sfs_bmap: leaves the disk block of file block n, or 0, in "block".      *)
Bmap(s, f, n, doalloc) ==
    IF n < NDirect THEN BmapDirect(s, f, n, doalloc)
    ELSE IF n - NDirect >= BlockSize THEN Failed(s, "EINVAL")
    ELSE IF s.inode[f].indirect = 0 /\ ~ doalloc THEN Mapped(s, 0)
    ELSE BmapIndirect(s, f, n - NDirect, doalloc)

-----------------------------------------------------------------------------
(* sfs_io cuts a transfer into a leading part of a block, whole blocks and *)
(* a trailing part.                                                        *)
Pieces(off, len) ==
    LET skip == off % BlockSize
        lead == IF skip = 0 THEN 0 ELSE Min({BlockSize - skip, len})
        n == (len - lead) \div BlockSize
        tail == (len - lead) % BlockSize
        Piece(o, l) == IF l = 0 THEN << >> ELSE << [off |-> o, len |-> l] >>
    IN  Piece(off, lead)
        \o [i \in 1..n |-> [off |-> off + lead + (i - 1) * BlockSize, len |-> BlockSize]]
        \o Piece(off + len - tail, tail)

InPiece(p, i) == LET at == ((p.off \div BlockSize) * BlockSize) + i
                 IN  p.off <= at /\ at < p.off + p.len

Written(s, f, p) == [s EXCEPT !.wrote[f] = @ \cup p.off..(p.off + p.len - 1)]

(* Fault: a block that is written in part is not read first.               *)
WritePieceBlind(s, f, p) ==
    Then(Bmap(s, f, p.off \div BlockSize, TRUE), LAMBDA t :
        Then(WBlock([t EXCEPT !.pos = p.off + p.len], t.block,
                    [i \in Places |-> IF InPiece(p, i) THEN f ELSE 0]),
             LAMBDA u : Written(u, f, p)))

(* sfs_partialio and sfs_blockio, writing.  uiomove has advanced the       *)
(* offset when the block of a partial write goes out; a whole block that   *)
(* fails to go out leaves it.                                              *)
WritePiece(s, f, p) ==
    Then(Bmap(s, f, p.off \div BlockSize, TRUE), LAMBDA t :
        LET data == [i \in Places |-> IF InPiece(p, i) THEN f ELSE t.disk[t.block][i]]
        IN  IF p.len = BlockSize
            THEN Then(WBlock(t, t.block, data), LAMBDA u :
                      Written([u EXCEPT !.pos = p.off + p.len], f, p))
            ELSE Then(RBlock(t), LAMBDA u :
                      Then(WBlock([u EXCEPT !.pos = p.off + p.len], u.block, data),
                           LAMBDA w : Written(w, f, p))))

(* The end of sfs_io, reached by a failed write too.                       *)
Lengthen(s, f) ==
    IF s.pos > s.inode[f].size
    THEN [s EXCEPT !.inode[f].size = s.pos, !.inode[f].dirty = TRUE] ELSE s

Start(fuel, pos) == [fs EXCEPT !.fuel = fuel, !.err = "ok", !.pos = pos, !.cut = 0]
Stop(s) == [s EXCEPT !.fuel = 0, !.block = 0, !.pos = 0]

(* sfs_io, reading: the bytes of a transfer, cut off at the end of file.   *)
ReadPiece(f, p) ==
    LET s == Bmap(Start(Enough, 0), f, p.off \div BlockSize, FALSE)
    IN  [i \in 1..p.len |-> IF s.block = 0 THEN 0
                            ELSE fs.disk[s.block][((p.off + i) - 1) % BlockSize]]

SfsRead(f, off, len) ==
    LET size == fs.inode[f].size
        resid == IF off + len > size THEN size - off ELSE len
    IN  IF off >= size THEN << >>
        ELSE FoldLeft(LAMBDA got, p : got \o ReadPiece(f, p), << >>, Pieces(off, resid))

-----------------------------------------------------------------------------
Exists(f) == fs.inode[f].ino # 0

(* A volume with torn blocks is not followed further: what is written next *)
(* may land on an inode, and inodes are kept apart from the blocks here.   *)
MayAct == ~ fs.panic /\ fs.torn = {} /\ ops < MaxOps /\ ops' = ops + 1

Note(s) == ~ (failed /\ s.err = "EIO") /\ failed' = (failed \/ s.err = "EIO")

(* sfs_makeobj: each inode is a block; sfs_loadvnode reads it.             *)
Creat(f, fuel) ==
    LET s == Then(Then(Balloc(Start(fuel, 0)), RBlock), LAMBDA t :
                  [t EXCEPT !.inode[f] = [NoInode EXCEPT !.ino = t.block, !.dirty = TRUE]])
    IN  /\ MayAct /\ ~ Exists(f)
        /\ fs' = Stop(s) /\ Note(s)
        /\ UNCHANGED <<blkmap, dinode>>

(* sfs_write.                                                              *)
SfsWrite(f, off, len, fuel) ==
    LET s == Lengthen(FoldLeft(LAMBDA t, p : Then(t, LAMBDA u : WritePiece(u, f, p)),
                               Start(fuel, off), Pieces(off, len)), f)
    IN  /\ MayAct /\ Exists(f)
        /\ fs' = Stop(s) /\ Note(s)
        /\ UNCHANGED <<blkmap, dinode>>

(* Fault: the direct blocks let go are still in the inode.                 *)
TruncDirectKeeps(s, f, blocklen) ==
    LET gone == {i \in 0..(NDirect - 1) : i >= blocklen /\ s.inode[f].direct[i] # 0}
    IN  Bfree(s, {s.inode[f].direct[i] : i \in gone})

(* sfs_truncate: first the direct blocks ...                               *)
TruncDirect(s, f, blocklen) ==
    LET gone == {i \in 0..(NDirect - 1) : i >= blocklen /\ s.inode[f].direct[i] # 0}
        t == Bfree(s, {s.inode[f].direct[i] : i \in gone})
    IN  [t EXCEPT !.inode[f].direct = [i \in DOMAIN @ |-> IF i \in gone THEN 0 ELSE @[i]],
                  !.inode[f].dirty = @ \/ gone # {},
                  !.wrote[f] = {b \in @ : b \div BlockSize \notin gone}]

(* ... then those of the indirect block, then that block.  They are free   *)
(* before the indirect block without them is on disk, which may fail.      *)
TruncIndirect(s, f, blocklen) ==
    LET id == s.inode[f].indirect
        gone == {j \in Places : blocklen < NDirect + j /\ s.disk[id][j] # 0}
        left == [j \in Places |-> IF j \in gone THEN 0 ELSE s.disk[id][j]]
    IN  IF ~ (blocklen < NDirect + BlockSize - 1) \/ id = 0 THEN s
        ELSE Then(RBlock(s), LAMBDA r :
            LET freed == {r.disk[id][j] : j \in gone}
                t == Bfree(r, freed)
                w == WBlock(t, id, left)
            IN  IF left = Zeros
                THEN [Bfree(t, {id}) EXCEPT !.inode[f].indirect = 0, !.inode[f].dirty = TRUE]
                ELSE IF gone = {} THEN t
                ELSE IF w.err = "ok" THEN w ELSE [w EXCEPT !.torn = freed])

Truncated(s, f, len) ==
    Then(TruncIndirect(TruncDirect(s, f, RoundUp(len, BlockSize)), f, RoundUp(len, BlockSize)),
         LAMBDA t : [t EXCEPT !.inode[f].size = len, !.inode[f].dirty = TRUE, !.cut = f,
                              !.wrote[f] = {b \in @ : b < len}])

SfsTruncate(f, len, fuel) ==
    LET s == Truncated(Start(fuel, 0), f, len)
    IN  /\ MayAct /\ Exists(f)
        /\ fs' = Stop(s) /\ Note(s)
        /\ UNCHANGED <<blkmap, dinode>>

(* sfs_reclaim of a file with no names left: its blocks and then its inode *)
(* are given up.                                                           *)
Erase(f) ==
    LET s == Truncated(Start(Enough, 0), f, 0)
    IN  /\ MayAct /\ Exists(f)
        /\ fs' = Stop([Bfree(s, {s.inode[f].ino}) EXCEPT !.inode[f] = NoInode])
        /\ dinode' = [dinode EXCEPT ![f] = NoInode]
        /\ UNCHANGED <<blkmap, failed>>

(* sfs_reclaim of a file with a name, then sfs_loadvnode: the inode is     *)
(* written if it is dirty, and read back.                                  *)
Reload(f) ==
    LET out == IF fs.inode[f].dirty THEN [fs.inode[f] EXCEPT !.dirty = FALSE] ELSE dinode[f]
    IN  /\ MayAct /\ Exists(f)
        /\ dinode' = [dinode EXCEPT ![f] = out]
        /\ fs' = [fs EXCEPT !.inode[f] = out]
        /\ UNCHANGED <<blkmap, failed>>

(* Fault: the freemap is written back only when no file is open.           *)
RemountStale ==
    /\ MayAct
    /\ \A f \in Files : ~ fs.inode[f].dirty
    /\ fs' = [fs EXCEPT !.map = blkmap, !.mapdirty = FALSE]
    /\ UNCHANGED <<blkmap, dinode, failed>>

(* sfs_sync, sfs_unmount and sfs_domount: the freemap through sfs_mapio.   *)
Remount ==
    LET out == IF fs.mapdirty THEN fs.map ELSE blkmap
    IN  /\ MayAct
        /\ \A f \in Files : ~ fs.inode[f].dirty
        /\ blkmap' = out
        /\ fs' = [fs EXCEPT !.map = out, !.mapdirty = FALSE]
        /\ UNCHANGED <<dinode, failed>>

BlocksNext ==
    \/ \E f \in Files :
        \/ \E fuel \in WriteFuel : Creat(f, fuel)
        \/ \E pos \in Offsets, n \in Amounts, fuel \in WriteFuel : SfsWrite(f, pos, n, fuel)
        \/ \E len \in Lengths, fuel \in TruncFuel : SfsTruncate(f, len, fuel)
        \/ Erase(f)
        \/ Reload(f)
    \/ Remount

BlocksSpec == BlocksInit /\ [][BlocksNext]_blockVars

-----------------------------------------------------------------------------
(* The blocks a file holds, as <<what, block>> pairs: its inode, its       *)
(* direct blocks, its indirect block and what that maps.                   *)
Holds(f) ==
    LET n == fs.inode[f]
    IN  {<<f, "inode", 0, n.ino>>, <<f, "indirect", 0, n.indirect>>}
        \cup {<<f, "direct", i, n.direct[i]>> : i \in DOMAIN n.direct}
        \cup IF n.indirect = 0 THEN {}
             ELSE {<<f, "mapped", j, fs.disk[n.indirect][j]>> : j \in Places}

Held == {h \in UNION {Holds(f) : f \in Files} : h[4] # 0}

(* No block is held twice, none that is held is marked free or lies        *)
(* outside the volume, and none is lost unless a disk access has failed:   *)
(* then at most the block sfs_balloc could not clear, or could not enter   *)
(* in an indirect block, stays marked, or the blocks a truncation set free *)
(* before it failed to write the indirect block back are still held there, *)
(* these and no others.  No assertion or panic of the allocator is reached *)
(* up to then.                                                             *)
SpaceExact ==
    LET blocks == {h[4] : h \in Held}
    IN  /\ Cardinality(Held) = Cardinality(blocks)
        /\ blocks \cap fs.map \cap WriteBitmap = {}
        /\ blocks \ fs.map = fs.torn
        /\ ~ failed => fs.map = WriteBitmap \cup blocks
        /\ ~ fs.panic

(* Every byte that was written and not truncated away reads back, also     *)
(* after the vnode was reclaimed or the volume remounted; a byte that was  *)
(* not reads as zero or as one this file once held: never another file's,  *)
(* and never a block number.  All this until a truncation fails to write   *)
(* an indirect block back: its blocks may then be given to another file.   *)
ReadsBack ==
    fs.torn = {} => \A f \in {g \in Files : Exists(g)} :
        LET size == fs.inode[f].size
            got == SfsRead(f, 0, MaxBytes)
        IN  /\ Len(got) = Min({size, MaxBytes})
            /\ \A i \in 1..Len(got) : got[i] = f \/ (got[i] = 0 /\ i - 1 \notin fs.wrote[f])
            /\ \A off \in Bytes : size > off => SfsRead(f, off, MaxBytes) = SubSeq(got, off + 1, Len(got))

(* include/vnode.h on vop_truncate: "discarding any excess blocks".  A     *)
(* file that has just been truncated holds no block past its end.          *)
NoExcessBlocks ==
    \A f \in Files \cap {fs.cut} :
        /\ \A i \in 0..(NDirect - 1) :
              fs.inode[f].direct[i] # 0 => i < RoundUp(fs.inode[f].size, BlockSize)
        /\ fs.inode[f].indirect # 0 =>
              \A j \in Places : fs.disk[fs.inode[f].indirect][j] # 0 =>
                                    NDirect + j < RoundUp(fs.inode[f].size, BlockSize)
=============================================================================
