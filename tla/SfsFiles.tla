------------------------------ MODULE SfsFiles ------------------------------
(***************************************************************************)
(* Names, inodes and vnodes of SFS: the directory operations, the vnode    *)
(* table and its reference counts, and sync (fs/sfs/sfs_vnode.c,           *)
(* fs/sfs/sfs_fs.c, fs/vfs/vnode.c).                                       *)
(*                                                                         *)
(* SFS takes no locks of its own, and a thread sleeps at every disk        *)
(* access, so an operation is one step per disk access (which may fail)    *)
(* and one per stretch of code between two; a scan of the directory is one *)
(* step.  With Serialised, an operation begins only when no other is under *)
(* way.                                                                    *)
(*                                                                         *)
(* Left out: the contents of files, the root directory's own vnode and     *)
(* blocks, the superblock (nothing makes it dirty), open counts.  An       *)
(* access that fails returns its error and has had no effect, which is     *)
(* what the code here expects of sfs_rblock and sfs_wblock; DiskIO is      *)
(* about what they really do.  A failed kmalloc on the way to a vnode is a *)
(* failure of the same kind.                                               *)
(***************************************************************************)
EXTENDS Integers, Sequences, FiniteSets

CONSTANTS
    Thread, Name,
    Vnode,        \* addresses of vnode structures
    NULL,
    MaxIno,       \* bound: blocks that can hold inodes, 1..MaxIno
    MaxSlots,     \* bound: directory slots
    MaxFails,     \* bound: disk accesses and allocations that fail
    Serialised    \* one operation at a time

Ino == 1..MaxIno
Slot == 1..MaxSlots
Entry == [name : Name, ino : Ino]
NoEntry == [name |-> NULL, ino |-> 0]      \* SFS_NOINO

ASSUME SfsConstants ==
    /\ NULL \notin Thread \cup Name \cup Vnode
    /\ MaxIno \in Nat /\ MaxSlots \in Nat /\ MaxFails \in Nat
    /\ Serialised \in BOOLEAN

VARIABLES
    dir, dirsize,        \* directory slots; number of slots in use
    freemap, mapdirty,   \* blocks marked in sfs_freemap; sfs_freemapdirty
    dmap,                \* the freemap on disk
    dino,                \* inodes on disk
    vnodes,              \* sfs_vnodes[]
    vn,                  \* vnode structures: counts, cached inode
    fails,               \* failures so far
    panicked,            \* a panic or assertion has stopped the kernel
    pc, call,            \* where each thread is; its arguments and locals
    mine,                \* vnode a thread has got from creat or lookup
    sync                 \* the thread in sfs_sync or in an unmount

diskVars == <<dir, dirsize, dmap, dino>>
mapVars == <<freemap, mapdirty>>
vnodeVars == <<vnodes, vn>>
threadVars == <<pc, call, mine>>
vars == <<diskVars, mapVars, vnodeVars, fails, panicked, threadVars, sync>>

NoCall == [op |-> "none", n1 |-> NULL, n2 |-> NULL, ino |-> 0, v |-> NULL,
           slot1 |-> 0, slot2 |-> 0]
NoSync == [op |-> "none", i |-> 0, num |-> 0, v |-> NULL, written |-> FALSE]

TypeOK ==
    /\ dir \in [Slot -> Entry \cup {NoEntry}] /\ dirsize \in 0..MaxSlots
    /\ freemap \subseteq Ino /\ dmap \subseteq Ino /\ mapdirty \in BOOLEAN
    /\ dino \in [Ino -> [type : {"inval", "file"}, link : 0..MaxSlots]]
    /\ vnodes \in Seq(Vnode)
    /\ vn \in [Vnode -> [ino : Ino \cup {0}, ref : Nat, type : {"inval", "file"},
                         link : 0..MaxSlots, dirty : BOOLEAN]]
    /\ fails \in 0..MaxFails /\ panicked \in BOOLEAN
    /\ mine \in [Thread -> Vnode \cup {NULL}]
    /\ \A t \in Thread : call[t].ino \in Ino \cup {0} /\ call[t].v \in Vnode \cup {NULL}

NoVnode == [ino |-> 0, ref |-> 0, type |-> "inval", link |-> 0, dirty |-> FALSE]

(* A file system with an empty root directory has been mounted.            *)
Init ==
    /\ dir = [s \in Slot |-> NoEntry] /\ dirsize = 0
    /\ freemap = {} /\ mapdirty = FALSE /\ dmap = {}
    /\ dino = [i \in Ino |-> [type |-> "inval", link |-> 0]]
    /\ vnodes = << >> /\ vn = [v \in Vnode |-> NoVnode]
    /\ fails = 0 /\ panicked = FALSE
    /\ pc = [t \in Thread |-> "idle"]
    /\ call = [t \in Thread |-> NoCall]
    /\ mine = [t \in Thread |-> NULL]
    /\ sync = NoSync

-----------------------------------------------------------------------------
Loaded == {vnodes[k] : k \in DOMAIN vnodes}

At(t, where) == ~ panicked /\ pc[t] = where

Goto(t, where) == pc' = [pc EXCEPT ![t] = where]

Return(t) ==
    /\ pc' = [pc EXCEPT ![t] = "idle"]
    /\ call' = [call EXCEPT ![t] = NoCall]

(* An assertion, or the condition of a panic.                              *)
Insist(holds) == panicked' = ~ holds

DiskFails == fails < MaxFails /\ fails' = fails + 1

(* A call may begin.                                                       *)
Free(t) ==
    /\ At(t, "idle")
    /\ Serialised => sync = NoSync /\ \A u \in Thread : pc[u] = "idle"

(* sfs_dir_findname.                                                       *)
Slots == 1..dirsize

(* Fault: the scan stops one slot early.                                   *)
NamedButLast(n) == {s \in 1..(dirsize - 1) : dir[s].ino # 0 /\ dir[s].name = n}

NamedBy(n) == {s \in Slots : dir[s].ino # 0 /\ dir[s].name = n}
FoundOnce(n) == Cardinality(NamedBy(n)) <= 1

(* The empty slot it reports is the last one; without one, sfs_dir_link    *)
(* adds the entry at the end.                                              *)
EmptySlot ==
    LET empty == {s \in Slots : dir[s].ino = 0}
    IN  IF empty = {} THEN dirsize + 1
        ELSE CHOOSE s \in empty : \A r \in empty : r <= s

(* sfs_balloc takes the first free bit of the map.                         *)
FirstFree(i) == i \in Ino \ freemap /\ \A j \in Ino \ freemap : i <= j

-----------------------------------------------------------------------------
(* The entry points.  One that fails before it has changed anything is not *)
(* a step.  sfs_creat of a name that exists goes on to load it ...         *)
CreatFound(t, n) ==
    /\ Free(t) /\ mine[t] = NULL
    /\ \E s \in NamedBy(n) :
        call' = [call EXCEPT ![t] = [NoCall EXCEPT !.op = "lookup_creat", !.ino = dir[s].ino]]
    /\ Insist(FoundOnce(n))
    /\ Goto(t, "load")
    /\ UNCHANGED <<diskVars, mapVars, vnodeVars, fails, mine, sync>>

(* ... and otherwise allocates an inode.                                   *)
CreatNew(t, n) ==
    /\ Free(t) /\ mine[t] = NULL
    /\ NamedBy(n) = {}
    /\ \E i \in Ino :
        /\ FirstFree(i)
        /\ freemap' = freemap \cup {i}
        /\ call' = [call EXCEPT ![t] = [NoCall EXCEPT !.op = "creat", !.n1 = n, !.ino = i]]
    /\ mapdirty' = TRUE
    /\ Goto(t, "clear")
    /\ UNCHANGED <<diskVars, vnodeVars, fails, panicked, mine, sync>>

(* sfs_lookup, sfs_remove and sfs_rename: sfs_lookonce begins.             *)
LookupCall(t, op, n1, n2) ==
    /\ Free(t)
    /\ op = "lookup" => mine[t] = NULL
    /\ \E s \in NamedBy(n1) :
        call' = [call EXCEPT ![t] = [NoCall EXCEPT !.op = op, !.n1 = n1, !.n2 = n2,
                                                   !.ino = dir[s].ino, !.slot1 = s]]
    /\ Insist(FoundOnce(n1))
    /\ Goto(t, "load")
    /\ UNCHANGED <<diskVars, mapVars, vnodeVars, fails, mine, sync>>

(* sfs_link of a file the thread has a vnode of.                           *)
LinkCall(t, n) ==
    /\ Free(t) /\ mine[t] # NULL
    /\ call' = [call EXCEPT ![t] = [NoCall EXCEPT !.op = "link", !.n1 = n, !.v = mine[t],
                                                  !.ino = vn[mine[t]].ino]]
    /\ Goto(t, "link")
    /\ UNCHANGED <<diskVars, mapVars, vnodeVars, fails, panicked, mine, sync>>

(* The thread gives up its vnode.                                          *)
DecrefCall(t) ==
    /\ Free(t) /\ mine[t] # NULL
    /\ call' = [call EXCEPT ![t] = [NoCall EXCEPT !.op = "decref", !.v = mine[t]]]
    /\ mine' = [mine EXCEPT ![t] = NULL]
    /\ Goto(t, "decref")
    /\ UNCHANGED <<diskVars, mapVars, vnodeVars, fails, panicked, sync>>

-----------------------------------------------------------------------------
(* sfs_balloc clears the block; when that fails, the block stays allocated.*)
ClearBlock(t) ==
    /\ At(t, "clear")
    /\ \/ /\ dino' = [dino EXCEPT ![call[t].ino] = [type |-> "inval", link |-> 0]]
          /\ Goto(t, "load")
          /\ UNCHANGED <<call, fails>>
       \/ DiskFails /\ Return(t) /\ UNCHANGED dino
    /\ UNCHANGED <<dir, dirsize, dmap, mapVars, vnodeVars, panicked, mine, sync>>

(* What the caller of sfs_loadvnode does with vnode v.                     *)
GotVnode(t, v) ==
    /\ call' = [call EXCEPT ![t] = IF call[t].op \in {"lookup", "lookup_creat"}
                                   THEN NoCall ELSE [@ EXCEPT !.v = v]]
    /\ mine' = [mine EXCEPT ![t] = IF call[t].op \in {"lookup", "lookup_creat"} THEN v ELSE @]
    /\ Goto(t, CASE call[t].op \in {"creat", "rename"} -> "link"
                 [] call[t].op = "remove"              -> "unlink"
                 [] OTHER                              -> "idle")

(* sfs_lookonce insists that the inode it found has links.                 *)
LookedUp(t, links) == call[t].op \in {"lookup", "remove", "rename"} => links > 0

(* sfs_loadvnode searches the table, where every inode must be in an       *)
(* allocated block; a new object is not to be found there.                 *)
LoadFinds(t) ==
    /\ At(t, "load")
    /\ \E k \in DOMAIN vnodes :
        LET v == vnodes[k]
        IN  /\ vn[v].ino = call[t].ino
            /\ \A j \in 1..(k - 1) : vn[vnodes[j]].ino # call[t].ino
            /\ Insist(/\ \A j \in 1..k : vn[vnodes[j]].ino \in freemap
                      /\ call[t].op # "creat"
                      /\ LookedUp(t, vn[v].link))
            /\ vn' = [vn EXCEPT ![v].ref = @ + 1]
            /\ GotVnode(t, v)
    /\ UNCHANGED <<diskVars, mapVars, vnodes, fails, sync>>

NotLoaded(i) == \A v \in Loaded : vn[v].ino # i

LoadMisses(t) ==
    /\ At(t, "load")
    /\ NotLoaded(call[t].ino)
    /\ Insist({vn[v].ino : v \in Loaded} \cup {call[t].ino} \subseteq freemap)
    /\ Goto(t, "read")
    /\ UNCHANGED <<diskVars, mapVars, vnodeVars, fails, call, mine, sync>>

(* It reads the inode and adds a vnode to the table.  A new object's inode *)
(* must have been cleared, and gets its type.                              *)
LoadReads(t) ==
    LET new == call[t].op = "creat"
        disk == dino[call[t].ino]
        type == IF new THEN "file" ELSE disk.type
    IN  /\ At(t, "read")
        /\ \/ /\ Insist(/\ new => disk.type = "inval"
                        /\ type # "inval"
                        /\ LookedUp(t, disk.link))
              /\ \E v \in Vnode \ Loaded :
                  /\ vn' = [vn EXCEPT ![v] = [ino |-> call[t].ino, ref |-> 1, type |-> type,
                                              link |-> disk.link, dirty |-> new]]
                  /\ vnodes' = Append(vnodes, v)
                  /\ GotVnode(t, v)
              /\ UNCHANGED fails
           \/ DiskFails /\ Return(t) /\ UNCHANGED <<vnodeVars, panicked, mine>>
        /\ UNCHANGED <<diskVars, mapVars, sync>>

-----------------------------------------------------------------------------
(* sfs_dir_link looks the name up ...                                      *)
LinkName(t) == IF call[t].op = "rename" THEN call[t].n2 ELSE call[t].n1

(* What its callers do when it fails.                                      *)
LinkFails(t) ==
    \/ call[t].op = "link" /\ Return(t)
    \/ call[t].op # "link" /\ Goto(t, "decref") /\ UNCHANGED call

LinkLooks(t) ==
    /\ At(t, "link")
    /\ \/ /\ NamedBy(LinkName(t)) = {} /\ EmptySlot \in Slot
          /\ call' = [call EXCEPT ![t].slot2 = EmptySlot]
          /\ Goto(t, "linkwrite")
          /\ Insist(FoundOnce(LinkName(t)))
          /\ UNCHANGED fails
       \/ /\ NamedBy(LinkName(t)) # {} \/ EmptySlot \notin Slot
          /\ LinkFails(t)
          /\ Insist(FoundOnce(LinkName(t)))
          /\ UNCHANGED fails
       \/ Slots # {} /\ DiskFails /\ LinkFails(t) /\ UNCHANGED panicked
    /\ UNCHANGED <<diskVars, mapVars, vnodeVars, mine, sync>>

(* ... and writes the entry, past the end if need be.  sfs_io lengthens    *)
(* the directory even if the write fails once the data was moved.          *)
LinkWrites(t) ==
    LET s == call[t].slot2
        longer == IF s > dirsize THEN s ELSE dirsize
    IN  /\ At(t, "linkwrite")
        /\ \/ /\ dir' = [dir EXCEPT ![s] = [name |-> LinkName(t), ino |-> call[t].ino]]
              /\ dirsize' = longer
              /\ Goto(t, "linked")
              /\ UNCHANGED <<call, fails>>
           \/ DiskFails /\ LinkFails(t) /\ dirsize' \in {dirsize, longer} /\ UNCHANGED dir
        /\ UNCHANGED <<dmap, dino, mapVars, vnodeVars, panicked, mine, sync>>

(* The link count follows.                                                 *)
Linked(t) ==
    /\ At(t, "linked")
    /\ vn' = [vn EXCEPT ![call[t].v].link = @ + 1, ![call[t].v].dirty = TRUE]
    /\ \/ call[t].op = "rename" /\ Goto(t, "unlink") /\ UNCHANGED <<call, mine>>
       \/ call[t].op = "link" /\ Return(t) /\ UNCHANGED mine
       \/ call[t].op = "creat" /\ Return(t) /\ mine' = [mine EXCEPT ![t] = call[t].v]
    /\ UNCHANGED <<diskVars, mapVars, vnodes, fails, panicked, sync>>

(* sfs_dir_unlink of the old name; rename tries to undo when it fails.     *)
Unlinks(t) ==
    /\ At(t, "unlink")
    /\ \/ /\ dir' = [dir EXCEPT ![call[t].slot1] = NoEntry]
          /\ Goto(t, "unlinked")
          /\ UNCHANGED fails
       \/ /\ DiskFails
          /\ Goto(t, IF call[t].op = "rename" THEN "undo" ELSE "decref")
          /\ UNCHANGED dir
    /\ UNCHANGED <<dirsize, dmap, dino, mapVars, vnodeVars, panicked, call, mine, sync>>

(* Fault: the inode is not marked dirty.                                   *)
DropLinkClean(v) == vn' = [vn EXCEPT ![v].link = @ - 1]

DropLink(v) == vn' = [vn EXCEPT ![v].link = @ - 1, ![v].dirty = TRUE]

Unlinked(t) ==
    /\ At(t, "unlinked")
    /\ Insist(vn[call[t].v].link > 0)
    /\ DropLink(call[t].v)
    /\ Goto(t, "decref")
    /\ UNCHANGED <<diskVars, mapVars, vnodes, fails, call, mine, sync>>

(* puke_harder in sfs_rename: the new name goes again, or the kernel gives *)
(* up.  The inode is not marked dirty.                                     *)
Undo(t) ==
    /\ At(t, "undo")
    /\ \/ /\ dir' = [dir EXCEPT ![call[t].slot2] = NoEntry]
          /\ vn' = [vn EXCEPT ![call[t].v].link = @ - 1]
          /\ Insist(TRUE)
          /\ UNCHANGED fails
       \/ DiskFails /\ Insist(FALSE) /\ UNCHANGED <<dir, vn>>
    /\ Goto(t, "decref")
    /\ UNCHANGED <<dirsize, dmap, dino, mapVars, vnodes, call, mine, sync>>

-----------------------------------------------------------------------------
(* The caller's is the only reference.                                     *)
LastRef(v) == vn[v].ref <= 1

(* Fault: the reference is not given back.                                 *)
KeepRef(t) == Return(t) /\ UNCHANGED vn

DropRef(t) ==
    /\ vn' = [vn EXCEPT ![call[t].v].ref = @ - 1]
    /\ Return(t)

(* vnode_decref leaves the last reference to sfs_reclaim ...               *)
Decref(t) ==
    /\ At(t, "decref")
    /\ Insist(vn[call[t].v].ref > 0)
    /\ \/ ~ LastRef(call[t].v) /\ DropRef(t)
       \/ LastRef(call[t].v) /\ Goto(t, "reclaim") /\ UNCHANGED <<vn, call>>
    /\ UNCHANGED <<diskVars, mapVars, vnodes, fails, mine, sync>>

(* Fault: reclaim erases every file.                                       *)
AnyLinks(v) == TRUE

(* There are no on-disk references to the file.                            *)
Unnamed(v) == vn[v].link = 0

(* ... which consumes it if somebody has picked up the vnode since.        *)
Reclaim(t) ==
    LET v == call[t].v
    IN  /\ At(t, "reclaim")
        /\ Insist(vn[v].ref > 0)
        /\ \/ ~ LastRef(v) /\ DropRef(t)
           \/ /\ LastRef(v)
              /\ Goto(t, IF Unnamed(v) THEN "truncate" ELSE "fsync")
              /\ UNCHANGED <<vn, call>>
        /\ UNCHANGED <<diskVars, mapVars, vnodes, fails, mine, sync>>

(* VOP_TRUNCATE of a file that has no links left.  An error here, or of    *)
(* the sync that follows, ends reclaim with the vnode in the table.        *)
ReclaimTruncates(t) ==
    /\ At(t, "truncate")
    /\ \/ /\ vn' = [vn EXCEPT ![call[t].v].dirty = TRUE]
          /\ Goto(t, "fsync")
          /\ UNCHANGED <<call, fails>>
       \/ DiskFails /\ Return(t) /\ UNCHANGED vn
    /\ UNCHANGED <<diskVars, mapVars, vnodes, panicked, mine, sync>>

(* sfs_sync_inode writes a dirty inode, sleeps until the disk has done it, *)
(* and only then clears the flag.                                          *)
WriteInode(v) ==
    dino' = [dino EXCEPT ![vn[v].ino] = [type |-> vn[v].type, link |-> vn[v].link]]

MarkClean(v) == vn' = [vn EXCEPT ![v].dirty = FALSE]

ReclaimSyncs(t) ==
    /\ At(t, "fsync")
    /\ \/ /\ IF vn[call[t].v].dirty THEN WriteInode(call[t].v) ELSE UNCHANGED dino
          /\ Goto(t, "discard")
          /\ UNCHANGED <<call, fails>>
       \/ vn[call[t].v].dirty /\ DiskFails /\ Return(t) /\ UNCHANGED dino
    /\ UNCHANGED <<dir, dirsize, dmap, mapVars, vnodeVars, panicked, mine, sync>>

(* The inode's block is freed if it has no links, the vnode leaves the     *)
(* table, and vnode_kill insists that it has only our reference.           *)
ReclaimDiscards(t) ==
    LET v == call[t].v
    IN  /\ At(t, "discard")
        /\ Insist(v \in Loaded /\ vn[v].ref = 1)
        /\ freemap' = IF Unnamed(v) THEN freemap \ {vn[v].ino} ELSE freemap
        /\ mapdirty' = (mapdirty \/ Unnamed(v))
        /\ vnodes' = SelectSeq(vnodes, LAMBDA u : u # v)
        /\ vn' = [vn EXCEPT ![v] = NoVnode]
        /\ Return(t)
        /\ UNCHANGED <<diskVars, fails, mine, sync>>

-----------------------------------------------------------------------------
(* sfs_sync, by itself or from vfs_unmount: every vnode of the table as    *)
(* long as it was when the loop began ...                                  *)
SyncCall(op) ==
    /\ ~ panicked /\ sync = NoSync
    /\ Serialised => \A t \in Thread : pc[t] = "idle"
    /\ sync' = [op |-> op, i |-> 1, num |-> Len(vnodes), v |-> NULL,
               written |-> FALSE]
    /\ UNCHANGED <<diskVars, mapVars, vnodeVars, fails, panicked, threadVars>>

(* (array_getguy insists on its index; an error of VOP_FSYNC is ignored)   *)
SyncVnode ==
    /\ ~ panicked
    /\ sync.i \in 1..sync.num /\ sync.v = NULL
    /\ Insist(sync.i <= Len(vnodes))
    /\ IF sync.i > Len(vnodes)
       THEN UNCHANGED <<dino, fails, sync>>
       ELSE LET v == vnodes[sync.i]
            IN  \/ /\ vn[v].dirty
                   /\ WriteInode(v) /\ sync' = [sync EXCEPT !.v = v] /\ UNCHANGED fails
                \/ /\ (~ vn[v].dirty /\ UNCHANGED fails) \/ (vn[v].dirty /\ DiskFails)
                   /\ sync' = [sync EXCEPT !.i = @ + 1] /\ UNCHANGED dino
    /\ UNCHANGED <<dir, dirsize, dmap, mapVars, vnodeVars, threadVars>>

SyncedVnode ==
    /\ ~ panicked
    /\ sync.v # NULL
    /\ MarkClean(sync.v)
    /\ sync' = [sync EXCEPT !.i = @ + 1, !.v = NULL]
    /\ UNCHANGED <<diskVars, mapVars, vnodes, fails, panicked, threadVars>>

(* ... and then the free block map, with its flag.                         *)
SyncMap ==
    /\ ~ panicked
    /\ sync.i > sync.num /\ ~ sync.written
    /\ mapdirty
    /\ \/ dmap' = freemap /\ sync' = [sync EXCEPT !.written = TRUE] /\ UNCHANGED fails
       \/ DiskFails /\ sync' = NoSync /\ UNCHANGED dmap
    /\ UNCHANGED <<dir, dirsize, dino, mapVars, vnodeVars, panicked, threadVars>>

(* sfs_unmount refuses while vnodes are loaded.  Otherwise what was in     *)
(* memory is gone, and a later mount reads the map from the disk.          *)
SyncedMap ==
    /\ ~ panicked
    /\ sync.i > sync.num /\ (sync.written \/ ~ mapdirty)
    /\ mapdirty' = FALSE
    /\ freemap' = IF sync.op = "unmount" /\ vnodes = << >> THEN dmap ELSE freemap
    /\ sync' = NoSync
    /\ UNCHANGED <<diskVars, vnodeVars, fails, panicked, threadVars>>

ThreadStep(t) ==
    \/ ClearBlock(t) \/ LoadFinds(t) \/ LoadMisses(t) \/ LoadReads(t)
    \/ LinkLooks(t) \/ LinkWrites(t) \/ Linked(t)
    \/ Unlinks(t) \/ Unlinked(t) \/ Undo(t)
    \/ Decref(t) \/ Reclaim(t) \/ ReclaimTruncates(t) \/ ReclaimSyncs(t) \/ ReclaimDiscards(t)

Calls(t) ==
    \/ \E n \in Name : CreatFound(t, n) \/ CreatNew(t, n) \/ LinkCall(t, n)
    \/ \E n \in Name : LookupCall(t, "lookup", n, NULL) \/ LookupCall(t, "remove", n, NULL)
    \/ \E n1, n2 \in Name : LookupCall(t, "rename", n1, n2)
    \/ DecrefCall(t)

Next ==
    \/ \E t \in Thread : Calls(t) \/ ThreadStep(t)
    \/ \E op \in {"sync", "unmount"} : SyncCall(op)
    \/ SyncVnode \/ SyncedVnode \/ SyncMap \/ SyncedMap

Spec == Init /\ [][Next]_vars

-----------------------------------------------------------------------------
Quiet == sync = NoSync /\ \A t \in Thread : pc[t] = "idle"

Links(i) == Cardinality({s \in Slots : dir[s].ino = i})

(* The links of an inode, in memory if it is loaded, else on disk.         *)
LinkCount(i) ==
    IF \E v \in Loaded : vn[v].ino = i
    THEN vn[CHOOSE v \in Loaded : vn[v].ino = i].link
    ELSE dino[i].link

(* The panics and assertions of these files do not fire: no inode is found *)
(* in an unallocated block, no link count of a listed file is 0, a killed  *)
(* vnode has one reference, the table does not shrink under sfs_sync.      *)
NoPanic == ~ panicked

(* No name has two entries: sfs_dir_findname asserts "Each name may        *)
(* legally appear only once", and sfs_dir_link looks before it writes.     *)
NamesUnique == \A r, s \in Slots : dir[r].ino # 0 /\ dir[r].name = dir[s].name => r = s

(* Between operations the link count of every inode is the number of its   *)
(* names, also when an operation has failed half way.                      *)
LinkCountsExact == Quiet => \A i \in freemap : LinkCount(i) = Links(i)

(* Two vnodes never stand for the same inode.                              *)
NoAliases == \A u, v \in Loaded : vn[u].ino = vn[v].ino => u = v

(* A clean vnode's inode is on disk as it is in memory, so that dropping   *)
(* the vnode or crashing after a sync loses nothing.                       *)
CleanIsOnDisk ==
    \A v \in Loaded : ~ vn[v].dirty =>
        dino[vn[v].ino] = [type |-> vn[v].type, link |-> vn[v].link]

(* A vnode has as many references as threads that hold it, and is in the   *)
(* table exactly while it has any; a reclaim that failed keeps its own.    *)
Holders(v) == {t \in Thread : mine[t] = v}
RefsExact ==
    Quiet /\ fails = 0 =>
        \A v \in Vnode : /\ vn[v].ref = Cardinality(Holders(v))
                         /\ v \in Loaded <=> vn[v].ref > 0

(* Without disk errors no inode is leaked or freed early: the allocated    *)
(* ones are those with a name or a user.                                   *)
NoInodeLeak ==
    Quiet /\ fails = 0 =>
        freemap = ({dir[s].ino : s \in Slots} \ {0}) \cup {vn[v].ino : v \in Loaded}

(* A vnode that a thread has got stays valid until the thread gives it up. *)
HeldIsLoaded == \A t \in Thread : mine[t] # NULL => mine[t] \in Loaded
=============================================================================
