-------------------------------- MODULE Vfs ---------------------------------
(***************************************************************************)
(* The VFS layer: the table of devices and mounted volumes (vfslist.c),    *)
(* the boot volume and path translation (vfslookup.c), current directories *)
(* (vfscwd.c), the operations on path names (vfspath.c), vnode reference   *)
(* and open counts (vnode.c), device vnodes (device.c, devnull.c), and     *)
(* shutdown (main/main.c).                                                 *)
(*                                                                         *)
(* Threads interleave wherever one may sleep: at each lock and each call   *)
(* into a file system.  A path is where it starts and whether anything     *)
(* follows: the boot volume ("/x"), the root of the current volume (":x"), *)
(* the current directory ("x"), or a device or volume name ("name:x").     *)
(* A volume is its root directory and one file, which is how deep SFS     *)
(* goes.  SfsFiles is about what a file system does with its vnodes; here  *)
(* one is loaded while it is referenced.                                   *)
(***************************************************************************)
EXTENDS Integers, Sequences, FiniteSets
LOCAL INSTANCE SequencesExt

CONSTANTS
    VThread, VNULL,
    Disks,        \* mountable devices, with a raw name
    Volume,       \* the volume name on each disk
    RawName,      \* each disk's raw name (mkrawname)
    Plain,        \* devices that cannot be mounted, like null:
    Emus,         \* file systems without a device, like emu0
    DevOrder,     \* the order they were added in
    MaxCalls      \* bound: operations on paths

Names == Disks \cup Plain \cup Emus
PathStart == {"boot", "root", "cwd"} \cup Names \cup {RawName[d] : d \in Disks}
             \cup {Volume[d] : d \in Disks}
Path == [start : PathStart, rest : BOOLEAN]

(* A vnode: of a device, of the root of a volume, or of its file.          *)
DevOf(n) == <<"dev", n>>
RootOf(n) == <<"dir", n>>
FileOf(n) == <<"file", n>>
VVnode == {DevOf(n) : n \in Disks \cup Plain} \cup {RootOf(n) : n \in Disks \cup Emus}
             \cup {FileOf(n) : n \in Disks \cup Emus}
Permanent(v) == v[1] = "dev" \/ (v[1] = "dir" /\ v[2] \in Emus)

ASSUME VfsConstants ==
    /\ Cardinality({RawName[d] : d \in Disks} \cup Names)
           = 2 * Cardinality(Disks) + Cardinality(Plain) + Cardinality(Emus)
    /\ VNULL \notin VThread \cup VVnode

VARIABLES
    devs,       \* knowndevs, in order; each entry says if a fs is there
    dlock,      \* who holds knowndevs_lock across a step
    refs, opens,      \* vn_refcount (0: not loaded), vn_opencount
    bootfs,     \* bootfs_vnode
    cwd,        \* t_cwd
    file,       \* a file each thread has open
    vpc, vop,   \* where each thread is; the operation under way
    calls,      \* operations on paths so far
    changed,    \* sfs_freemapdirty of the volume synced to be unmounted
    vfsPanic

vfsVars == <<devs, dlock, refs, opens, bootfs, cwd, file, vpc, vop, calls, changed, vfsPanic>>

NoOp == [name |-> "none", rest |-> FALSE, start |-> VNULL, found |-> VNULL, other |-> VNULL,
         left |-> << >>, failed |-> {}]

(* vfs_doadd, for vfs_adddev and vfs_addfs: a device that goes by a name   *)
(* already in the table (badnames) is refused.                             *)
Known(n) == [name |-> n, mounted |-> n \in Emus]
VolName(n) == IF n \in Disks THEN Volume[n] ELSE VNULL
NamesOf(e) ==
    {e.name}
    \cup (IF e.name \in Disks THEN {RawName[e.name]} ELSE {})
    \cup (IF e.name \in Disks /\ e.mounted THEN {VolName(e.name)} ELSE {})
BadNames(table, names) == \E i \in DOMAIN table : NamesOf(table[i]) \cap names # {}
DoAdd(table, n) ==
    IF BadNames(table, NamesOf(Known(n))) THEN table ELSE Append(table, Known(n))

(* vfs_bootstrap, dev_bootstrap and config_emu have added the devices, and *)
(* vfs_setbootfs("emu0") has made an emu volume the first directory.       *)
VfsInit ==
    \E e \in Emus, t \in VThread :
        /\ devs = FoldLeft(DoAdd, << >>, DevOrder)
        /\ dlock = VNULL
        /\ refs = [v \in VVnode |-> (IF Permanent(v) THEN 1 ELSE 0)
                                   + (IF v = RootOf(e) THEN 2 ELSE 0)]
        /\ opens = [v \in VVnode |-> 0]
        /\ bootfs = RootOf(e)
        /\ cwd = [u \in VThread |-> IF u = t THEN RootOf(e) ELSE VNULL]
        /\ file = [u \in VThread |-> VNULL]
        /\ vpc = [u \in VThread |-> "idle"]
        /\ vop = [u \in VThread |-> NoOp]
        /\ calls = 0 /\ changed = FALSE /\ vfsPanic = FALSE

-----------------------------------------------------------------------------
VAt(t, where) == ~ vfsPanic /\ vpc[t] = where
VGoto(t, where) == vpc' = [vpc EXCEPT ![t] = where]
VInsist(holds) == vfsPanic' = ~ holds

(* vnode_incref and vnode_decref.  A device or an emu root stays at one;   *)
(* another vnode is reclaimed there and no longer loaded.                  *)
Incref(r, v) == [r EXCEPT ![v] = @ + 1]

VDecref(r, v) == [r EXCEPT ![v] = IF @ > 1 \/ ~ Permanent(v) THEN @ - 1 ELSE @]
DecrefIf(r, v) == IF v = VNULL THEN r ELSE VDecref(r, v)
VUsable(v) == refs[v] > 0        \* vnode_check, and the assertion in decref

(* vnode_incopen and vnode_decopen, which calls VOP_CLOSE on the last.     *)
Incopen(o, v) == [o EXCEPT ![v] = @ + 1]
Decopen(o, v) == [o EXCEPT ![v] = @ - 1]

Mounted(n) == \E i \in DOMAIN devs : devs[i].name = n /\ devs[i].mounted

(* vfs_getroot: the first entry of the table that goes by this name.       *)
Goes(e, n) == n \in NamesOf(e)

(* Fault: a volume name leads to the device it is on.                      *)
GetRootRaw(n) ==
    LET hits == {i \in DOMAIN devs : Goes(devs[i], n)}
        e == devs[CHOOSE i \in hits : \A j \in hits : i <= j]
    IN  IF hits = {} THEN VNULL
        ELSE IF e.name = n THEN (IF e.mounted THEN RootOf(n) ELSE VNULL)
        ELSE DevOf(e.name)

GetRoot(n) ==
    LET hits == {i \in DOMAIN devs : Goes(devs[i], n)}
        e == devs[CHOOSE i \in hits : \A j \in hits : i <= j]
    IN  IF hits = {} THEN VNULL                       \* ENODEV
        ELSE IF e.mounted /\ n \in {e.name, VolName(e.name)} THEN RootOf(e.name)
        ELSE IF e.name \in Disks /\ e.name = n THEN VNULL  \* ENXIO
        ELSE DevOf(e.name)

(* getdevice: where the path starts.                                       *)
GetDevice(t, p) ==
    CASE p.start = "cwd" -> IF cwd[t] = VNULL THEN VNULL ELSE cwd[t]
      [] p.start = "root" -> IF cwd[t] = VNULL THEN VNULL ELSE RootOf(cwd[t][2])
      [] p.start = "boot" -> bootfs
      [] OTHER -> GetRoot(p.start)
NeedsTable(p) == p.start \notin {"cwd", "root", "boot"}

-----------------------------------------------------------------------------
(* An operation on a path begins: getdevice takes a reference to the vnode *)
(* the path starts from.  vfs_link and vfs_rename translate two paths.     *)
Fail(t) == VGoto(t, "idle") /\ vop' = [vop EXCEPT ![t] = NoOp]

Begin(t, name, p) ==
    LET s == GetDevice(t, p)
    IN  /\ VAt(t, "idle")
        /\ NeedsTable(p) => dlock = VNULL
        /\ s \in VVnode
        /\ calls < MaxCalls /\ calls' = calls + 1
        /\ refs' = Incref(refs, s)
        /\ vop' = [vop EXCEPT ![t] = [NoOp EXCEPT !.name = name, !.rest = p.rest, !.start = s]]
        /\ VGoto(t, "start")
        /\ UNCHANGED <<devs, dlock, opens, bootfs, cwd, file, vfsPanic>>

LooksParent(t) == vop[t].name \in {"creat", "remove", "rename", "rename2", "link2"}

(* vfs_lookup and vfs_lookparent, after getdevice: with nothing after the  *)
(* name, a lookup is that vnode itself (and keeps its reference); dev_     *)
(* lookup and dev_lookparent fail, and only a directory has names below.   *)
Found(t) ==
    LET o == vop[t]
        v == o.start
    IN  IF LooksParent(t)
        THEN IF o.rest /\ v[1] = "dir" THEN v ELSE VNULL
        ELSE IF ~ o.rest THEN v
        ELSE IF v[1] = "dir" THEN FileOf(v[2]) ELSE VNULL

(* The lookup: the vnode found is referenced, then the start let go.  A    *)
(* file system may find nothing.                                           *)
Lookup(t) ==
    /\ VAt(t, "start")
    /\ VInsist(VUsable(vop[t].start))
    /\ \E v \in {Found(t), VNULL} :
        /\ v = Found(t) \/ vop[t].rest
        /\ refs' = VDecref(IF v = VNULL THEN refs ELSE Incref(refs, v), vop[t].start)
        /\ IF v # VNULL
           THEN VGoto(t, "found") /\ vop' = [vop EXCEPT ![t].found = v, ![t].start = VNULL]
           ELSE /\ VGoto(t, IF vop[t].other = VNULL THEN "idle" ELSE "undo")
                /\ vop' = [vop EXCEPT ![t] = IF vop[t].other = VNULL THEN NoOp
                                             ELSE [@ EXCEPT !.start = VNULL]]
    /\ UNCHANGED <<devs, dlock, opens, bootfs, cwd, file, calls>>

(* A second path that cannot be translated: the first vnode is let go.     *)
VUndo(t) ==
    /\ VAt(t, "undo")
    /\ refs' = DecrefIf(VDecref(refs, vop[t].other), vop[t].found)
    /\ VInsist(VUsable(vop[t].other))
    /\ Fail(t)
    /\ UNCHANGED <<devs, dlock, opens, bootfs, cwd, file, calls>>

(* vfs_link and vfs_rename go on to the second path ...                    *)
SecondPath(t, p) ==
    LET o == vop[t]
        s == GetDevice(t, p)
    IN  /\ VAt(t, "found") /\ o.name \in {"link", "rename"}
        /\ NeedsTable(p) => dlock = VNULL
        /\ LET next == [o EXCEPT !.name = IF o.name = "link" THEN "link2" ELSE "rename2",
                                 !.rest = p.rest, !.other = o.found, !.found = VNULL]
           IN  IF s \in VVnode
               THEN /\ refs' = Incref(refs, s)
                    /\ vop' = [vop EXCEPT ![t] = [next EXCEPT !.start = s]]
                    /\ VGoto(t, "start")
               ELSE /\ vop' = [vop EXCEPT ![t] = next] /\ VGoto(t, "undo")
                    /\ UNCHANGED refs
        /\ UNCHANGED <<devs, dlock, opens, bootfs, cwd, file, vfsPanic, calls>>

SameVolume(a, b) == a[1] # "dev" /\ b[1] # "dev" /\ a[2] = b[2]

(* Fault: two vnodes are taken to be on one volume when one is a device.   *)
CrossVolumeLoose(a, b) == a[1] # "dev" /\ b[1] # "dev" /\ a[2] # b[2]

(* ... and insist that both are on one volume (EXDEV otherwise).           *)
CrossVolume(a, b) == a[1] = "dev" \/ b[1] = "dev" \/ a[2] # b[2]

(* The operation of the file system has been called; the references go.    *)
NameOpDone(t) ==
    /\ refs' = VDecref(DecrefIf(refs, vop[t].other), vop[t].found)
    /\ Fail(t)
    /\ UNCHANGED <<devs, dlock, opens, bootfs, cwd, file, calls>>

(* "remove" stands for mkdir, rmdir and symlink too.                       *)
VfsRemove(t) ==
    /\ VAt(t, "found") /\ vop[t].name = "remove"
    /\ VInsist(VUsable(vop[t].found))
    /\ NameOpDone(t)

VfsReadlink(t) ==
    /\ VAt(t, "found") /\ vop[t].name = "readlink"
    /\ VInsist(VUsable(vop[t].found))
    /\ NameOpDone(t)

(* sfs_link and sfs_rename assert one volume.                              *)
OneVolume(t) ==
    LET o == vop[t]
    IN  VInsist(/\ VUsable(o.found) /\ VUsable(o.other)
                /\ CrossVolume(o.other, o.found) \/ SameVolume(o.other, o.found))

VfsRename(t) ==
    /\ VAt(t, "found") /\ vop[t].name = "rename2"
    /\ OneVolume(t)
    /\ NameOpDone(t)

VfsLink(t) ==
    /\ VAt(t, "found") /\ vop[t].name = "link2"
    /\ OneVolume(t)
    /\ NameOpDone(t)

-----------------------------------------------------------------------------
(* vfs_open, once the vnode is found.  With O_CREAT it is the file that    *)
(* VOP_CREAT makes in the directory found, which is let go.                *)
OpenCreat(t) ==
    LET o == vop[t]
        f == FileOf(o.found[2])
    IN  /\ VAt(t, "found") /\ o.name = "creat"
        /\ VInsist(VUsable(o.found))
        /\ \/ /\ refs' = VDecref(Incref(refs, f), o.found)
              /\ vop' = [vop EXCEPT ![t].found = f, ![t].name = "open"]
              /\ UNCHANGED vpc
           \/ /\ refs' = VDecref(refs, o.found) /\ Fail(t)
        /\ UNCHANGED <<devs, dlock, opens, bootfs, cwd, file, calls>>

(* VOP_OPEN, which may refuse.                                             *)
VopOpen(t) ==
    LET o == vop[t]
    IN  /\ VAt(t, "found") /\ o.name = "open"
        /\ VInsist(VUsable(o.found))
        /\ \/ /\ opens' = Incopen(opens, o.found)
              /\ VGoto(t, "trunc")
              /\ UNCHANGED <<refs, vop>>
           \/ /\ refs' = VDecref(refs, o.found) /\ Fail(t)
              /\ UNCHANGED opens
        /\ UNCHANGED <<devs, dlock, bootfs, cwd, file, calls>>

(* Fault: an open whose O_TRUNC fails leaves the open count up.            *)
OpenTruncLeak(t) ==
    LET v == vop[t].found
    IN  /\ VAt(t, "trunc")
        /\ \/ /\ file' = [file EXCEPT ![t] = v]
              /\ UNCHANGED <<refs, opens>>
           \/ /\ v[1] # "dev"
              /\ refs' = VDecref(refs, v)
              /\ UNCHANGED <<file, opens>>
        /\ Fail(t)
        /\ UNCHANGED <<devs, dlock, bootfs, cwd, vfsPanic, calls>>

(* The end of open.  O_TRUNC fails on a vnode not opened for writing, and  *)
(* may fail otherwise; dev_open has refused it for a device.               *)
OpenTrunc(t) ==
    LET v == vop[t].found
    IN  /\ VAt(t, "trunc")
        /\ \/ /\ file' = [file EXCEPT ![t] = v]
              /\ UNCHANGED <<refs, opens>>
           \/ /\ v[1] # "dev"
              /\ opens' = Decopen(opens, v)
              /\ refs' = VDecref(refs, v)
              /\ UNCHANGED file
        /\ Fail(t)
        /\ UNCHANGED <<devs, dlock, bootfs, cwd, vfsPanic, calls>>

(* vfs_close: VOP_DECOPEN, VOP_DECREF.  vnode_kill insists that a vnode    *)
(* that goes is not open.                                                  *)
Close(t) ==
    LET v == file[t]
    IN  /\ VAt(t, "idle") /\ v # VNULL
        /\ opens' = Decopen(opens, v)
        /\ refs' = VDecref(refs, v)
        /\ file' = [file EXCEPT ![t] = VNULL]
        /\ VInsist(opens[v] > 0 /\ VUsable(v) /\ (refs'[v] = 0 => opens'[v] = 0))
        /\ UNCHANGED <<devs, dlock, bootfs, cwd, vpc, vop, calls>>

-----------------------------------------------------------------------------
(* vfs_setcurdir takes a directory only, and a reference of its own.       *)
SetCurdir(t, v) ==
    IF v[1] = "dir"
    THEN cwd' = [cwd EXCEPT ![t] = v] /\ refs' = VDecref(DecrefIf(Incref(refs, v), cwd[t]), v)
    ELSE refs' = VDecref(refs, v) /\ UNCHANGED cwd

(* vfs_chdir, with which vfs_setbootfs begins; the vnode looked up goes.   *)
Chdir(t) ==
    LET v == vop[t].found
    IN  /\ VAt(t, "found") /\ vop[t].name \in {"chdir", "setbootfs"}
        /\ VInsist(VUsable(v))
        /\ SetCurdir(t, v)
        /\ IF v[1] = "dir" /\ vop[t].name = "setbootfs"
           THEN VGoto(t, "bootfs") /\ vop' = [vop EXCEPT ![t].found = VNULL]
           ELSE Fail(t)
        /\ UNCHANGED <<devs, dlock, opens, bootfs, file, calls>>

(* vfs_setbootfs is given a device's name, without a colon.                *)
SetBootfs(t, p) == ~ p.rest /\ p.start \in Names /\ Begin(t, "setbootfs", p)

(* change_bootfs: the old vnode is let go after the lock.                  *)
ChangeBootfs(t) ==
    LET new == IF vpc[t] = "bootfs" THEN cwd[t] ELSE VNULL
    IN  /\ VAt(t, "bootfs") \/ VAt(t, "clearboot")
        /\ refs' = IF new = VNULL THEN refs ELSE Incref(refs, new)
        /\ bootfs' = new
        /\ vop' = [vop EXCEPT ![t].other = bootfs]
        /\ VGoto(t, IF vpc[t] = "bootfs" THEN "oldboot" ELSE "oldboot2")
        /\ UNCHANGED <<devs, dlock, opens, cwd, file, vfsPanic, calls>>

(* Fault: shutdown goes on without letting go of its directory.            *)
OldBootfsThenUnmounts(t) ==
    LET halting == vpc[t] = "oldboot2"
    IN  /\ VAt(t, "oldboot") \/ VAt(t, "oldboot2")
        /\ refs' = DecrefIf(refs, vop[t].other)
        /\ VInsist(vop[t].other # VNULL => VUsable(vop[t].other))
        /\ vop' = [vop EXCEPT ![t] = NoOp]
        /\ VGoto(t, IF halting THEN "umountall" ELSE "idle")
        /\ UNCHANGED <<devs, dlock, opens, bootfs, cwd, file, calls>>

OldBootfs(t) ==
    LET halting == vpc[t] = "oldboot2"
    IN  /\ VAt(t, "oldboot") \/ VAt(t, "oldboot2")
        /\ refs' = DecrefIf(refs, vop[t].other)
        /\ VInsist(vop[t].other # VNULL => VUsable(vop[t].other))
        /\ vop' = [vop EXCEPT ![t] = NoOp]
        /\ VGoto(t, IF halting THEN "clearcwd" ELSE "idle")
        /\ UNCHANGED <<devs, dlock, opens, bootfs, cwd, file, calls>>

(* thread_fork gives the child its parent's directory; thread_exit and     *)
(* vfs_clearcurdir let it go.                                              *)
Inherit(t, u) ==
    /\ VAt(t, "idle") /\ VAt(u, "idle") /\ cwd[t] # VNULL /\ cwd[u] = VNULL
    /\ cwd' = [cwd EXCEPT ![u] = cwd[t]]
    /\ refs' = Incref(refs, cwd[t])
    /\ UNCHANGED <<devs, dlock, opens, bootfs, file, vpc, vop, vfsPanic, calls>>

ClearCurdir(t) ==
    /\ VAt(t, "idle") \/ VAt(t, "clearcwd")
    /\ vpc[t] = "idle" => cwd[t] # VNULL
    /\ cwd' = [cwd EXCEPT ![t] = VNULL]
    /\ refs' = DecrefIf(refs, cwd[t])
    /\ VInsist(cwd[t] # VNULL => VUsable(cwd[t]))
    /\ VGoto(t, IF vpc[t] = "clearcwd" THEN "umountall" ELSE "idle")
    /\ UNCHANGED <<devs, dlock, opens, bootfs, file, vop, calls>>

-----------------------------------------------------------------------------
(* vfs_mount: findmount, EBUSY if there is a fs, then the mount function,  *)
(* all under the lock.                                                     *)
VEntry(n) == CHOOSE i \in DOMAIN devs : devs[i].name = n

Mount(t, d) ==
    /\ VAt(t, "idle") /\ dlock = VNULL
    /\ ~ devs[VEntry(d)].mounted
    /\ devs' = [devs EXCEPT ![VEntry(d)].mounted = TRUE]
    /\ UNCHANGED <<dlock, refs, opens, bootfs, cwd, file, vpc, vop, vfsPanic, calls>>

(* vfs_unmount and vfs_unmountall take the lock and sync ...               *)
Unmount(t, ds) ==
    /\ VAt(t, "idle") \/ VAt(t, "umountall")
    /\ dlock = VNULL /\ dlock' = t
    /\ vop' = [vop EXCEPT ![t] = [NoOp EXCEPT !.name = IF vpc[t] = "idle" THEN "umount" ELSE "halt",
                                              !.left = SelectSeq(ds, Mounted)]]
    /\ VGoto(t, "umount")
    /\ UNCHANGED <<devs, refs, opens, bootfs, cwd, file, vfsPanic, calls>>

(* Fault: a volume is dropped whether or not its vnodes are in use.        *)
FsUnmountBusy(d) == TRUE

(* ... device after device; a failed sync leaves one alone.                *)
UnmountSync(t) ==
    /\ VAt(t, "umount") /\ vop[t].left # << >>
    /\ \/ VGoto(t, "synced") /\ UNCHANGED vop
       \/ /\ vop' = [vop EXCEPT ![t].left = Tail(@), ![t].failed = @ \cup {Head(vop[t].left)}]
          /\ UNCHANGED vpc
    /\ UNCHANGED <<devs, dlock, refs, opens, bootfs, cwd, file, vfsPanic, calls>>

(* FSOP_UNMOUNT: sfs_unmount fails while a vnode is loaded.                *)
FsUnmount(d) == refs[RootOf(d)] = 0 /\ refs[FileOf(d)] = 0

(* Then unmount, where sfs_unmount asserts that it was just synced.        *)
UnmountOne(t) ==
    LET d == Head(vop[t].left)
    IN  /\ VAt(t, "synced")
        /\ devs' = IF FsUnmount(d) THEN [devs EXCEPT ![VEntry(d)].mounted = FALSE] ELSE devs
        /\ VInsist(FsUnmount(d) => ~ changed)
        /\ vop' = [vop EXCEPT ![t].left = Tail(@)]
        /\ VGoto(t, "umount")
        /\ UNCHANGED <<dlock, refs, opens, bootfs, cwd, file, calls>>

(* A vnode that goes may take the blocks of a removed file with it, which  *)
(* changes the free map: also of a volume between its sync and its         *)
(* unmount.  Only there it is followed.                                    *)
FreemapChanges ==
    \/ changed' = (changed /\ (vfsPanic' \/ \E t \in VThread : vpc'[t] = "synced"))
    \/ /\ \E t \in VThread : /\ vpc[t] = "synced" /\ vpc'[t] = "synced"
                            /\ LET f == FileOf(Head(vop[t].left)) IN refs[f] > 0 /\ refs'[f] = 0
       /\ changed' = TRUE

UnmountDone(t) ==
    /\ VAt(t, "umount") /\ vop[t].left = << >>
    /\ dlock' = VNULL
    /\ VGoto(t, IF vop[t].name = "halt" THEN "halted" ELSE "idle")
    /\ vop' = [vop EXCEPT ![t] = IF @.name = "halt" THEN [NoOp EXCEPT !.failed = vop[t].failed]
                                 ELSE NoOp]
    /\ UNCHANGED <<devs, refs, opens, bootfs, cwd, file, vfsPanic, calls>>

(* shutdown: vfs_clearbootfs, vfs_clearcurdir, vfs_unmountall.             *)
Shutdown(t) ==
    /\ VAt(t, "idle") /\ file[t] = VNULL
    /\ VGoto(t, "clearboot")
    /\ UNCHANGED <<devs, dlock, refs, opens, bootfs, cwd, file, vop, vfsPanic, calls>>

DiskOrder == SelectSeq([i \in DOMAIN devs |-> devs[i].name], LAMBDA n : n \in Disks)

(* A thread that is idle may begin an operation on any path.               *)
BeginAny(t) ==
    /\ VAt(t, "idle") /\ calls < MaxCalls
    /\ \E p \in Path :
        \/ \E name \in {"remove", "rename", "link", "readlink", "chdir"} : Begin(t, name, p)
        \/ \E name \in {"open", "creat"} : file[t] = VNULL /\ Begin(t, name, p)
        \/ SetBootfs(t, p)

VfsStep ==
    \E t \in VThread :
        \/ BeginAny(t)
        \/ VAt(t, "found") /\ \E p \in Path : SecondPath(t, p)
        \/ Lookup(t) \/ VUndo(t)
        \/ VfsRemove(t) \/ VfsReadlink(t) \/ VfsRename(t) \/ VfsLink(t)
        \/ OpenCreat(t) \/ VopOpen(t) \/ OpenTrunc(t) \/ Close(t)
        \/ Chdir(t) \/ ChangeBootfs(t) \/ OldBootfs(t) \/ ClearCurdir(t)
        \/ \E u \in VThread : Inherit(t, u)
        \/ \E d \in Disks : Mount(t, d) \/ (vpc[t] = "idle" /\ Unmount(t, <<d>>))
        \/ vpc[t] = "umountall" /\ Unmount(t, DiskOrder)
        \/ UnmountSync(t) \/ UnmountOne(t) \/ UnmountDone(t) \/ Shutdown(t)

VfsNext == VfsStep /\ FreemapChanges

VfsSpec == VfsInit /\ [][VfsNext]_vfsVars

-----------------------------------------------------------------------------
(* The references to a vnode: directories, the boot volume, open files and *)
(* what the operations under way hold.                                     *)
VHolders(v) ==
    {<<"cwd", t>> : t \in {u \in VThread : cwd[u] = v}}
    \cup {<<"file", t>> : t \in {u \in VThread : file[u] = v}}
    \cup {<<k, t>> \in {"start", "found", "other"} \X VThread : vop[t][k] = v}
    \cup {b \in {<<"boot">>} : bootfs = v}

Opened(v) ==
    Cardinality({t \in VThread : file[t] = v})
        + Cardinality({t \in VThread : vpc[t] = "trunc" /\ vop[t].found = v})

(* However threads interleave and whichever step of an operation fails,    *)
(* every vnode has one reference for each holder and one open for each     *)
(* open file, so none is used after it was reclaimed (vnode_check) and     *)
(* none stays loaded for nobody.  No assertion fails but that of           *)
(* sfs_unmount: a file that another thread lets go of between the sync and *)
(* the unmount can have changed the free map.                              *)
VnodeCountsExact ==
    /\ vfsPanic => changed
    /\ \A v \in VVnode :
          /\ refs[v] = Cardinality(VHolders(v)) + (IF Permanent(v) THEN 1 ELSE 0)
          /\ opens[v] = Opened(v)

(* A vnode that somebody holds is on a volume that is mounted: vfs_unmount *)
(* never pulls a volume from under a directory, an open file or a lookup   *)
(* in progress (the claim of the comment in vfs_getdevname).               *)
MountedWhileUsed ==
    \A v \in VVnode : v[1] # "dev" /\ VHolders(v) # {} => Mounted(v[2])

(* vfs_getcwd names the current volume by its volume name or, without one, *)
(* by its device.  As long as no two names in use are the same, that name  *)
(* leads back to the current volume.                                       *)
CwdName(t) == IF VolName(cwd[t][2]) # VNULL THEN VolName(cwd[t][2]) ELSE cwd[t][2]

NameOwners(n) == {i \in DOMAIN devs : Goes(devs[i], n)}

PwdLeadsBack ==
    \A t \in VThread :
        cwd[t] # VNULL => /\ cwd[t][1] = "dir"
                          /\ Cardinality(NameOwners(CwdName(t))) = 1
                                => GetRoot(CwdName(t)) = RootOf(cwd[t][2])

(* Once every thread has come to the end of shutdown, nothing is mounted   *)
(* but a volume whose sync failed: each has let go of the boot volume and  *)
(* its directory before it unmounts (main.c).                              *)
ShutdownUnmounts ==
    \A t \in VThread :
        (vpc[t] = "halted" /\ \A u \in VThread \ {t} : vpc[u] = "halted")
            => \A d \in Disks : Mounted(d) => \E u \in VThread : d \in vop[u].failed

(* sfs_fs.c, on mounting under the lock: "to avoid getting two filesystems *)
(* with the same name mounted at once".  No two entries answer to a name.  *)
VolumeNamesUnique == \A n \in PathStart : Cardinality(NameOwners(n)) <= 1
=============================================================================
