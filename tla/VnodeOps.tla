------------------------------ MODULE VnodeOps ------------------------------
(***************************************************************************)
(* What the operations of a vnode do for each kind of vnode: the tables    *)
(* of operations of SFS (fs/sfs/sfs_vnode.c), of the emulator file system  *)
(* (dev/lamebus/emu.c) and of devices (fs/vfs/device.c), and the devices   *)
(* behind the last: disks (lhd.c), null:, con: and random:.                *)
(*                                                                         *)
(* A caller opens a vnode, seeks, transfers, truncates and asks for its    *)
(* size.  off_t has OffW bits (32 in kern/types.h): offsets wrap as they   *)
(* do in uiomove and in the arithmetic of dev_tryseek and lhd_io.  Errors  *)
(* of the media, and names, are in DiskIO, Emu, SfsFiles and Vfs.          *)
(***************************************************************************)
EXTENDS Integers, Sequences

CONSTANTS
    OffW,           \* bits of off_t and of u_int32_t
    SectSize,       \* LHD_SECTSIZE
    DiskSizes,      \* sectors a disk may have
    NameBuf,        \* NAME_MAX + 1
    VPaths,         \* paths given to lookparent, as characters
    MaxTransfer,    \* bound: bytes in one transfer
    MaxLength       \* bound: bytes in a file

ASSUME VnodeOpsConstants ==
    /\ SectSize \in Nat \ {0} /\ 2^(OffW - 1) % SectSize = 0
    /\ MaxLength \in 1..(2^(OffW - 1) - 1)
    \* Two transfers come to no more than 2 gigabytes.
    /\ MaxTransfer \in Nat /\ 2 * MaxTransfer <= 2^(OffW - 1)
    \* A disk has at most 4 gigabytes.
    /\ \A n \in DiskSizes : n > 0 /\ n * SectSize < 2^OffW

OpFiles == {"sfs file", "emu file"}
Directories == {"sfs root", "emu root", "emu dir"}
OpDevs == {"disk", "null", "con", "random"}
OpVnode == OpFiles \cup Directories \cup OpDevs

VARIABLES
    nblocks,        \* d_blocks of the disk
    target,         \* the vnode in use
    fsize,          \* its length, if a file
    isopen,         \* whether it is open
    offset,         \* uio_offset of its next transfer
    outcome         \* the last call: operation, argument, outcome

opVars == <<nblocks, target, fsize, isopen, offset, outcome>>

Outcome(op, arg, err) == [op |-> op, arg |-> arg, err |-> err, sectors |-> {}]

OpsInit ==
    /\ target \in OpVnode
    /\ nblocks \in DiskSizes /\ fsize = 0
    /\ isopen = FALSE /\ offset = 0 /\ outcome = Outcome("none", 0, "OK")

-----------------------------------------------------------------------------
(* C arithmetic: u_int32_t, off_t, and division that truncates.            *)
UInt(x) == x % 2^OffW
Off(x) == IF UInt(x) < 2^(OffW - 1) THEN UInt(x) ELSE UInt(x) - 2^OffW
Quot(a, b) == IF a >= 0 THEN a \div b ELSE - ((- a) \div b)
Rem(a, b) == a - b * Quot(a, b)
Offset == (- 2^(OffW - 1))..(2^(OffW - 1) - 1)

(* The tables.  An entry is the error a stub returns, or "own".            *)
DirWrites == {"creat", "symlink", "mkdir", "link", "remove", "rmdir", "rename"}
NameOps == DirWrites \cup {"lookup", "lookparent"}
VnodeOp == {"open", "close", "read", "readlink", "getdirentry", "write", "ioctl", "stat", "gettype",
        "tryseek", "fsync", "mmap", "truncate", "namefile"} \cup NameOps

Entries(stubs) ==
    [o \in VnodeOp |-> IF \E e \in DOMAIN stubs : o \in stubs[e]
                   THEN CHOOSE e \in DOMAIN stubs : o \in stubs[e] ELSE "own"]

sfs_fileops ==
    Entries([ENOTDIR |-> NameOps \cup {"readlink", "getdirentry", "namefile"},
             EUNIMP |-> {"mmap"}, EINVAL |-> {"ioctl"}])

(* Fault: a directory takes the table's next entry for write.              *)
SfsDiropsShifted ==
    Entries([EISDIR |-> {"read", "readlink", "mmap", "truncate"},
             EUNIMP |-> {"getdirentry", "tryseek", "symlink", "mkdir", "rmdir"},
             EINVAL |-> {"write", "ioctl"}])

sfs_dirops ==
    Entries([EISDIR |-> {"read", "readlink", "write", "mmap", "truncate"},
             EUNIMP |-> {"getdirentry", "tryseek", "symlink", "mkdir", "rmdir"},
             EINVAL |-> {"ioctl"}])

emufs_fileops ==
    Entries([ENOTDIR |-> NameOps \cup {"readlink", "getdirentry", "namefile"},
             EUNIMP |-> {"mmap"}, EINVAL |-> {"ioctl"}])

emufs_dirops ==
    Entries([EISDIR |-> {"read", "readlink", "write", "fsync", "mmap", "truncate"},
             EUNIMP |-> {"tryseek"} \cup (DirWrites \ {"creat"}), EINVAL |-> {"ioctl"}])

dev_vnode_ops ==
    Entries([EINVAL |-> {"readlink", "getdirentry"}, EUNIMP |-> {"mmap"},
             ENOTDIR |-> DirWrites \cup {"lookparent"}])

vn_ops(v) ==
    CASE v = "sfs file" -> sfs_fileops
      [] v = "sfs root" -> sfs_dirops
      [] v = "emu file" -> emufs_fileops
      [] v \in {"emu root", "emu dir"} -> emufs_dirops
      [] OTHER -> dev_vnode_ops

-----------------------------------------------------------------------------
Blocks(v) == IF v = "disk" THEN nblocks ELSE 0       \* d_blocks

(* VOP_GETTYPE and the size in VOP_STAT.  dev_stat multiplies two          *)
(* u_int32_t into an off_t.  A character device has size 0.                *)
emufs_gettype(v) == IF v = "emu file" THEN "S_IFREG" ELSE "S_IFDIR"
sfs_gettype(v) == IF v = "sfs file" THEN "S_IFREG" ELSE "S_IFDIR"
dev_gettype(v) == IF Blocks(v) > 0 THEN "S_IFBLK" ELSE "S_IFCHR"
GetType(v) ==
    CASE v \in {"sfs file", "sfs root"} -> sfs_gettype(v)
      [] v \in {"emu file", "emu root", "emu dir"} -> emufs_gettype(v)
      [] OTHER -> dev_gettype(v)
dev_stat(v) == Off(UInt(Blocks(v) * SectSize))
sfs_stat == fsize
StatSize(v) == IF v \in OpDevs THEN dev_stat(v) ELSE sfs_stat

(* VOP_OPEN.  how is the access mode, flags the rest of openflags.         *)
sfs_open(flags) == IF "O_APPEND" \in flags THEN "EUNIMP" ELSE "OK"
sfs_opendir(how, flags) ==
    IF how # "O_RDONLY" \/ "O_APPEND" \in flags THEN "EISDIR" ELSE "OK"
emufs_open(flags) == IF "O_APPEND" \in flags THEN "EUNIMP" ELSE "OK"
emufs_opendir(how, flags) ==
    IF how # "O_RDONLY" \/ "O_APPEND" \in flags THEN "EISDIR" ELSE "OK"
dev_open(v, how, flags) ==
    IF flags # {} THEN "EINVAL"
    ELSE IF v = "random" /\ how # "O_RDONLY" THEN "EIO" ELSE "OK"
OpenResult(v, how, flags) ==
    CASE v = "sfs file" -> sfs_open(flags)
      [] v = "sfs root" -> sfs_opendir(how, flags)
      [] v = "emu file" -> emufs_open(flags)
      [] v \in {"emu root", "emu dir"} -> emufs_opendir(how, flags)
      [] OTHER -> dev_open(v, how, flags)

(* VOP_TRYSEEK.  pos % d_blocksize is unsigned, pos < 0 is not.            *)
sfs_tryseek(pos) == IF pos < 0 THEN "EINVAL" ELSE "OK"
emufs_tryseek(pos) == IF pos < 0 THEN "EINVAL" ELSE "OK"

(* Fault: the end of the disk counts as on it.                             *)
SeekToEnd(v, pos) ==
    IF Blocks(v) = 0 THEN "ESPIPE"
    ELSE IF UInt(pos) % SectSize # 0 \/ pos < 0 \/ UInt(pos) \div SectSize > Blocks(v)
    THEN "EINVAL" ELSE "OK"

dev_tryseek(v, pos) ==
    IF Blocks(v) = 0 THEN "ESPIPE"
    ELSE IF UInt(pos) % SectSize # 0 \/ pos < 0 \/ UInt(pos) \div SectSize >= Blocks(v)
    THEN "EINVAL" ELSE "OK"

SeekResult(v, pos) ==
    IF vn_ops(v)["tryseek"] # "own" THEN vn_ops(v)["tryseek"]
    ELSE CASE v = "sfs file" -> sfs_tryseek(pos)
           [] v = "emu file" -> emufs_tryseek(pos)
           [] OTHER -> dev_tryseek(v, pos)

(* dev_truncate: only to the size it has.                                  *)
dev_truncate(v, len) ==
    IF Blocks(v) > 0 /\ Off(UInt(Blocks(v) * SectSize)) = len THEN "OK" ELSE "EINVAL"
TruncResult(v, len) ==
    IF vn_ops(v)["truncate"] # "own" THEN vn_ops(v)["truncate"]
    ELSE IF v \in OpDevs THEN dev_truncate(v, len) ELSE "OK"

-----------------------------------------------------------------------------
(* lhd_io: the sectors it asks the disk for, if it does.                   *)
LhdSector(pos) == UInt(Quot(pos, SectSize))
LhdRefuses(pos, len) ==
    \/ UInt(Rem(pos, SectSize)) # 0 \/ len % SectSize # 0
    \/ UInt(LhdSector(pos) + len \div SectSize) > nblocks
LhdSectors(pos, len) == {UInt(LhdSector(pos) + i) : i \in 0..((len \div SectSize) - 1)}

(* d_io of the devices: outcome and bytes transferred.  nullio sets        *)
(* uio_resid and leaves uio_offset.                                        *)
lhd_io(len) ==
    IF LhdRefuses(offset, len) THEN [err |-> "EINVAL", moved |-> 0, sectors |-> {}]
    ELSE [err |-> "OK", moved |-> len, sectors |-> LhdSectors(offset, len)]
nullio == [err |-> "OK", moved |-> 0, sectors |-> {}]
con_io(got) == [err |-> "OK", moved |-> got, sectors |-> {}]
RandioResult(rw, len) ==
    IF rw # "read" THEN [err |-> "EIO", moved |-> 0, sectors |-> {}]
    ELSE [err |-> "OK", moved |-> len, sectors |-> {}]

(* A read of a line from the console may end early.                        *)
DevIO(v, rw, len) ==
    CASE v = "disk" -> {lhd_io(len)}
      [] v = "null" -> {nullio}
      [] v = "con" -> {con_io(got) : got \in IF rw = "write" THEN {len} ELSE 1..len}
      [] v = "random" -> {RandioResult(rw, len)}

(* sfs_read, sfs_write, emufs_read, emufs_write: up to the end of the      *)
(* file, or past it.  Bound: a file has at most MaxLength bytes.           *)
Readable(len) ==
    LET left == fsize - offset
    IN  IF left <= 0 THEN 0 ELSE IF left < len THEN left ELSE len
FileIO(rw, len) ==
    {[err |-> "OK", moved |-> n, sectors |-> {}] :
        n \in IF rw = "read" THEN {Readable(len)}
              ELSE IF offset + len <= MaxLength THEN {len} ELSE {}}

-----------------------------------------------------------------------------
(* vfs_open from VOP_OPEN on; O_TRUNC wants a vnode opened for writing.    *)
VopOpens(how, flags) ==
    LET o == OpenResult(target, how, flags)
        err == IF o # "OK" \/ "O_TRUNC" \notin flags THEN o
               ELSE IF how = "O_RDONLY" THEN "EINVAL" ELSE TruncResult(target, 0)
    IN  /\ ~ isopen
        /\ outcome' = Outcome("open", how, err)
        /\ isopen' = (err = "OK")
        /\ offset' = 0
        /\ fsize' = IF err = "OK" /\ "O_TRUNC" \in flags THEN 0 ELSE fsize
        /\ UNCHANGED <<nblocks, target>>

VopSeeks(pos) ==
    LET err == SeekResult(target, pos)
    IN  /\ isopen
        /\ outcome' = Outcome("tryseek", pos, err)
        /\ offset' = IF err = "OK" THEN pos ELSE offset
        /\ UNCHANGED <<nblocks, target, fsize, isopen>>

(* VOP_READ and VOP_WRITE; uiomove moves uio_offset on.                    *)
VopTransfers(rw, len) ==
    LET stub == vn_ops(target)[rw]
    IN  /\ isopen
        /\ \E io \in IF stub # "own" THEN {[err |-> stub, moved |-> 0, sectors |-> {}]}
                    ELSE IF target \in OpDevs THEN DevIO(target, rw, len)
                    ELSE FileIO(rw, len) :
              /\ outcome' = [Outcome(rw, len, io.err) EXCEPT !.sectors = io.sectors]
              /\ offset' = Off(offset + io.moved)
              /\ fsize' = IF target \in OpFiles /\ rw = "write" /\ offset + io.moved > fsize
                          THEN offset + io.moved ELSE fsize
        /\ UNCHANGED <<nblocks, target, isopen>>

VopTruncates(len) ==
    LET err == TruncResult(target, len)
    IN  /\ isopen
        /\ target \in OpFiles => len \in 0..MaxLength
        /\ outcome' = Outcome("truncate", len, err)
        /\ fsize' = IF target \in OpFiles /\ err = "OK" THEN len ELSE fsize
        /\ UNCHANGED <<nblocks, target, isopen, offset>>

(* The rest changes nothing here; what has a function of its own, names    *)
(* and media aside, succeeds.  VOP_NAMEFILE knows only a root.             *)
emufs_namefile(v) == IF v = "emu root" THEN "OK" ELSE "EUNIMP"
dev_ioctl(v) == IF v \in {"disk", "random"} THEN "EIOCTL" ELSE "EINVAL"
OtherResult(v, o) ==
    IF vn_ops(v)[o] # "own" THEN vn_ops(v)[o]
    ELSE CASE o = "namefile" /\ v \in {"emu root", "emu dir"} -> emufs_namefile(v)
           [] o = "ioctl" -> dev_ioctl(v)
           [] OTHER -> "OK"
VopOther(o) ==
    /\ isopen
    /\ outcome' = Outcome(o, 0, OtherResult(target, o))
    /\ UNCHANGED <<nblocks, target, fsize, isopen, offset>>

(* VOP_LOOKPARENT: the directory part and the last component.  SFS has one *)
(* directory, and takes the path as the name.                              *)
LastSlash(p) == CHOOSE i \in 0..Len(p) : (i = 0 \/ p[i] = "/") /\ \A j \in (i + 1)..Len(p) : p[j] # "/"

sfs_lookparent(p) ==
    IF Len(p) + 1 > NameBuf THEN [err |-> "ENAMETOOLONG"]
    ELSE [err |-> "OK", dir |-> << >>, name |-> p]

(* Fault: the slash stays on the directory.                                *)
LookparentKeepsSlash(p) ==
    LET s == LastSlash(p)
        name == SubSeq(p, s + 1, Len(p))
    IN  IF Len(name) + 1 > NameBuf THEN [err |-> "ENAMETOOLONG"]
        ELSE [err |-> "OK", dir |-> SubSeq(p, 1, s), name |-> name]

emufs_lookparent(p) ==
    LET s == LastSlash(p)
        name == SubSeq(p, s + 1, Len(p))
    IN  IF Len(name) + 1 > NameBuf THEN [err |-> "ENAMETOOLONG"]
        ELSE [err |-> "OK", dir |-> SubSeq(p, 1, s - 1), name |-> name]

VopLookparent(p) ==
    /\ isopen /\ target \in Directories
    /\ outcome' = Outcome("lookparent", p,
                    IF target = "sfs root" THEN sfs_lookparent(p) ELSE emufs_lookparent(p))
    /\ UNCHANGED <<nblocks, target, fsize, isopen, offset>>

VopClose ==
    /\ isopen
    /\ isopen' = FALSE /\ offset' = 0 /\ outcome' = Outcome("close", 0, "OK")
    /\ UNCHANGED <<nblocks, target, fsize>>

VopCall ==
    \/ \E how \in {"O_RDONLY", "O_RDWR"}, flags \in SUBSET {"O_APPEND", "O_TRUNC"} :
          VopOpens(how, flags)
    \/ \E pos \in Offset : VopSeeks(pos) \/ VopTruncates(pos)
    \/ \E rw \in {"read", "write"}, len \in 1..MaxTransfer : VopTransfers(rw, len)
    \/ \E o \in VnodeOp \ {"open", "close", "read", "write", "tryseek", "truncate", "lookparent"} :
          VopOther(o)
    \/ \E p \in VPaths : VopLookparent(p)
    \/ VopClose

(* The caller reads the outcome of a call, then makes the next.            *)
NoOutcome == Outcome("none", 0, "OK")

VopReturns ==
    /\ outcome.op # "none" /\ outcome' = NoOutcome
    /\ UNCHANGED <<nblocks, target, fsize, isopen, offset>>

OpsNext == (outcome.op = "none" /\ VopCall) \/ VopReturns

OpsSpec == OpsInit /\ [][OpsNext]_opVars

-----------------------------------------------------------------------------
(* Every sector a disk is asked for is on it, whatever sequence of seeks   *)
(* and transfers came before, on a disk larger than off_t can count too.   *)
StaysOnDisk == outcome.sectors \subseteq 0..(nblocks - 1)

(* Where dev_tryseek lets a caller go, lhd_io transfers a sector; and the  *)
(* start of every sector that off_t can name can be gone to.               *)
SeekThenTransfer ==
    /\ target = "disk" /\ outcome.op = "tryseek" /\ outcome.err = "OK" => ~ LhdRefuses(offset, SectSize)
    /\ target = "disk" /\ outcome.op = "tryseek" /\ outcome.err # "OK"
          => \A s \in 0..(nblocks - 1) : outcome.arg # s * SectSize

(* A truncation that succeeds leaves the size that VOP_STAT reports, and   *)
(* a file reaches at least to where it was written last.                   *)
SizesAgree ==
    /\ isopen /\ outcome.op = "truncate" /\ outcome.err = "OK" => StatSize(target) = outcome.arg
    /\ target \in OpFiles /\ outcome.op = "write" /\ outcome.err = "OK" => StatSize(target) >= offset

(* A vnode of type directory refuses to transfer or be truncated with      *)
(* EISDIR, and any other vnode refuses with ENOTDIR to have a name made,   *)
(* removed, linked or renamed in it.                                       *)
TypeDecides ==
    isopen =>
        /\ outcome.op \in {"read", "write", "truncate"} /\ GetType(target) = "S_IFDIR"
              => outcome.err = "EISDIR"
        /\ outcome.op \in DirWrites /\ GetType(target) # "S_IFDIR" => outcome.err = "ENOTDIR"

(* What VOP_LOOKPARENT hands back is the path it was given: the name, and  *)
(* the directory it is in.                                                 *)
LookparentSplits ==
    outcome.op = "lookparent" /\ target \in Directories /\ outcome.err.err = "OK" =>
        /\ Len(outcome.err.name) < NameBuf
        /\ \/ outcome.err.dir = << >> /\ outcome.err.name = outcome.arg
           \/ outcome.err.dir \o <<"/">> \o outcome.err.name = outcome.arg

OperationsSound ==
    StaysOnDisk /\ SeekThenTransfer /\ SizesAgree /\ TypeDecides /\ LookparentSplits
=============================================================================
