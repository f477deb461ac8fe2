-------------------------------- MODULE Rpfs --------------------------------
(***************************************************************************)
(* RPFS v2 (kernel/src/rpfs.rs) on a block device that may fail a transfer   *)
(* and on a machine that may stop between any two transfers.                 *)
(*                                                                           *)
(* The filesystem keeps the block bitmap and the directory in memory and     *)
(* writes single sectors of them through to the device.  A call is a         *)
(* sequence of steps; a step does at most one device transfer together with  *)
(* the memory updates before it, so a restart can fall between any two       *)
(* transfers, in the order in which the code issues them.                    *)
(***************************************************************************)
EXTENDS Integers, FiniteSets, Sequences

CONSTANTS
  PathSet,          \* the paths callers use, closed under Ancestors
  Contents,         \* the contents callers write
  BlocksOf,         \* sectors a content fills, before the minimum of one
  Slots,            \* directory entries, an interval from 0 (2048 in the code)
  Blocks,           \* data blocks, an interval from 0
  SlotSector(_),    \* directory sector of a slot (4 entries per sector)
  BitSector(_),     \* bitmap sector of a block (4096 bits per sector)
  ScratchSectors,   \* data blocks per transfer (SCRATCH_SECTORS, 64)
  StaleDirs,        \* what an unformatted device may hold where the directory goes
  MaxCrashes,       \* bound on restarts in the middle of a call
  MaxFaults         \* bound on failed transfers

(***************************************************************************)
(* The '/'-separated keys of RPFS.  A path is the sequence of its           *)
(* components: "a/b" is <<"a", "b">>.  RPFS keeps a flat table of full       *)
(* paths; the tree exists only through prefixes of the keys.  The proper     *)
(* prefixes of p are the directories the loop of ensure_parents cuts out of  *)
(* a name; q lies below p when its key starts with that of p and a '/'.      *)
(***************************************************************************)
Ancestor(p, k) == SubSeq(p, 1, k)
Ancestors(p)   == {Ancestor(p, k) : k \in 1 .. Len(p) - 1}
IsBelow(q, p)  == p \in Ancestors(q)

ASSUME RpfsAssumption ==
  /\ Slots \subseteq Nat /\ 0 \in Slots
  /\ Blocks \subseteq Nat
  /\ \A p \in PathSet : Len(p) \in Nat /\ Ancestors(p) \subseteq PathSet
  /\ BlocksOf \in [Contents -> Nat]
  /\ StaleDirs \subseteq [Slots ->
       [name : PathSet \cup {<<>>}, kind : {"file", "dir"}, trit : {-1, 0, 1},
        start : Nat, nblocks : Nat]]
  /\ ScratchSectors \in Nat \ {0}
  /\ MaxCrashes \in Nat
  /\ MaxFaults \in Nat

VARIABLES
  \* the device
  super,       \* a valid v2 superblock is on the device
  dskBitmap,   \* used bits on the device, as a set of blocks
  dskDir,      \* directory on the device
  dskData,     \* data blocks on the device
  \* the mounted filesystem's memory
  bitmap,      \* used bits in memory
  dir,         \* directory in memory
  \* the call in progress
  pc,          \* where it stands
  op,          \* what was called
  slot,        \* its directory slot
  start,       \* first block of the new extent
  blk,         \* data blocks written / parents handled so far
  pending,     \* bitmap sectors its current flush_bitmap_range has still to write
  \* history
  result,      \* what the last call returned
  lastView,    \* what a reader found when the last call returned
  tainted,     \* an event after which the code makes no promise has happened
  crashes,
  faults

diskVars == <<super, dskBitmap, dskDir, dskData>>
ramVars  == <<bitmap, dir>>
callVars == <<op, slot, start, blk, pending>>
history  == <<result, lastView, tainted, crashes, faults>>
vars     == <<diskVars, ramVars, pc, callVars, history>>
-----------------------------------------------------------------------------
(* Directory entries and block runs.                                         *)

NoFile    == "nofile"
Directory == "directory"
Corrupt   == "corrupt"
NoData    == <<>>

\* What a reader finds where no file or no whole file is is no content, and the
\* components of a path are names.
ASSUME ContentsAssumption ==
  /\ Contents \cap {NoFile, Directory, Corrupt} = {}
  /\ PathSet \subseteq Seq(STRING)

Entry ==
  [name : PathSet \cup {<<>>}, kind : {"file", "dir"}, trit : {-1, 0, 1},
   start : Nat, nblocks : Nat]

EmptyEntry == [name |-> <<>>, kind |-> "file", trit |-> 0, start |-> 0, nblocks |-> 0]

(* A tombstone.  Of a deleted entry the code reads no other field again.     *)
DeletedEntry == [EmptyEntry EXCEPT !.trit = -1]

DirEntry(p) == [name |-> p, kind |-> "dir", trit |-> 1, start |-> 0, nblocks |-> 0]

FileEntry(p, s, n) == [name |-> p, kind |-> "file", trit |-> 1, start |-> s, nblocks |-> n]

Run(s, n) == s .. (s + n - 1)

Nblocks(c) == IF BlocksOf[c] = 0 THEN 1 ELSE BlocksOf[c]

IsFile(e) == e.trit = 1 /\ e.kind = "file"

Extent(e) == IF IsFile(e) THEN Run(e.start, e.nblocks) ELSE {}

(* i is the first index of S: the scans over slots and blocks take it.       *)
First(i, S) == i \in S /\ \A j \in S : i <= j

(* find: the active entries with this exact name.                            *)
Matches(p) == {i \in Slots : dir[i].trit = 1 /\ dir[i].name = p}

(* free_slot: empty or tombstoned entries.                                   *)
FreeSlots == {i \in Slots : dir[i].trit <= 0}

(* Seeded faults: the last block of the run is not tested; the end of the      *)
(* device is not tested.                                                      *)
FreeRunsShort(n) == {s \in Blocks : Run(s, n - 1) \subseteq Blocks \ bitmap}

FreeRunsUnclipped(n) == {s \in Blocks : Run(s, n) \cap bitmap = {}}

(* alloc_run: the blocks at which n free blocks in a row begin.              *)
FreeRuns(n) == {s \in Blocks : Run(s, n) \subseteq Blocks \ bitmap}

(* Seeded fault: the old extent is never given back.                         *)
ReclaimedNothing(e) == bitmap

(* free_run: the used blocks once the run of e is given back.                *)
Reclaimed(e) == bitmap \ Run(e.start, e.nblocks)

(* flush_bitmap_range: the bitmap sectors that cover a run.                  *)
BitmapSectors(s, n) == {BitSector(b) : b \in Run(s, n)}

(* Seeded fault: files below the directory are overlooked.                   *)
HasChildDir(p) ==
  \E j \in Slots : dir[j].trit = 1 /\ dir[j].kind = "dir" /\ IsBelow(dir[j].name, p)

(* An active entry below p, which makes delete_file refuse a directory.      *)
HasChild(p) == \E j \in Slots : dir[j].trit = 1 /\ IsBelow(dir[j].name, p)
-----------------------------------------------------------------------------
(* What read_file and list_dir find.                                         *)

Image(c) == [k \in 1 .. Nblocks(c) |-> <<c, k>>]

Decode(blocks) ==
  IF \E c \in Contents : blocks = Image(c)
  THEN CHOOSE c \in Contents : blocks = Image(c)
  ELSE Corrupt

ReadBack(p) ==
  IF Matches(p) = {} THEN NoFile
  ELSE LET e == dir[CHOOSE i \in Slots : First(i, Matches(p))]
       IN  IF e.kind = "dir" THEN Directory
           ELSE Decode([k \in 1 .. e.nblocks |->
                          IF e.start + k - 1 \in Blocks
                          THEN dskData[e.start + k - 1] ELSE NoData])

View == [p \in PathSet |-> ReadBack(p)]
-----------------------------------------------------------------------------
(* The device.  A transfer succeeds, or fails while the bound on faults      *)
(* lasts; the polled AHCI command may have reached the platter even when it   *)
(* is reported as failed.                                                     *)

NoOp == [kind |-> "none", path |-> <<>>, data |-> NoData]

Outcomes == {"done"} \cup (IF faults < MaxFaults THEN {"lost", "late"} ELSE {})

CountFault(o) == faults' = IF o = "done" THEN faults ELSE faults + 1

(* Seeded fault: the other entries of the sector are not copied.              *)
FlushedDirAlone(d, i, o) ==
  IF o = "lost" THEN dskDir
  ELSE [j \in Slots |-> IF j = i THEN d[j]
                        ELSE IF SlotSector(j) = SlotSector(i) THEN EmptyEntry
                        ELSE dskDir[j]]

(* The directory sector of slot i, copied from memory (flush_dir_entry).  Its *)
(* caller ignores the result of the transfer.                                *)
FlushedDir(d, i, o) ==
  IF o = "lost" THEN dskDir
  ELSE [j \in Slots |-> IF SlotSector(j) = SlotSector(i) THEN d[j] ELSE dskDir[j]]

(* One bitmap sector, copied from memory.                                    *)
FlushedBits(sec, o) ==
  IF o = "lost" THEN dskBitmap
  ELSE {b \in Blocks : IF BitSector(b) = sec THEN b \in bitmap ELSE b \in dskBitmap}

(* A metadata transfer that is lost goes unnoticed: memory and device differ. *)
TaintIfLost(o) == tainted' = (tainted \/ o = "lost")

(* The call returns r.  View is what the next reader will find.              *)
Return(r) ==
  /\ pc' = "idle"
  /\ op' = NoOp
  /\ slot' = 0 /\ start' = 0 /\ blk' = 0 /\ pending' = {}
  /\ result' = r
  /\ lastView' = View'
-----------------------------------------------------------------------------
(* write_file                                                                *)

(* Refused: over a directory, or with the directory full.                    *)
WriteRefused(p) ==
  /\ pc = "idle"
  /\ \/ \E i \in Slots : First(i, Matches(p)) /\ dir[i].kind = "dir"
     \/ Matches(p) = {} /\ FreeSlots = {}
  /\ UNCHANGED <<diskVars, ramVars, tainted, crashes, faults>>
  /\ Return(FALSE)

(* Overwrite: the old extent is given up before anything else happens.       *)
WriteOver(p, c) ==
  /\ pc = "idle"
  /\ \E i \in Slots :
       /\ First(i, Matches(p))
       /\ dir[i].kind = "file"
       /\ slot' = i
       /\ bitmap' = Reclaimed(dir[i])
       /\ pending' = BitmapSectors(dir[i].start, dir[i].nblocks)
  /\ op' = [kind |-> "overwrite", path |-> p, data |-> c]
  /\ pc' = "reclaim"
  /\ UNCHANGED <<diskVars, dir, start, blk, history>>

(* Seeded fault: the name is not looked up first.                            *)
WriteNewUnchecked(p, c) ==
  /\ pc = "idle"
  /\ \E i \in Slots : First(i, FreeSlots) /\ slot' = i
  /\ op' = [kind |-> "create", path |-> p, data |-> c]
  /\ pc' = "alloc"
  /\ UNCHANGED <<diskVars, ramVars, start, blk, pending, history>>

(* Seeded fault: the slot is marked at once, so that the flush of a parent in   *)
(* the same sector publishes the unfinished entry.                            *)
WriteNewMarked(p, c) ==
  /\ pc = "idle"
  /\ Matches(p) = {}
  /\ \E i \in Slots :
       /\ First(i, FreeSlots)
       /\ slot' = i
       /\ dir' = [dir EXCEPT ![i] = FileEntry(p, 0, 0)]
  /\ op' = [kind |-> "create", path |-> p, data |-> c]
  /\ pc' = "alloc"
  /\ UNCHANGED <<diskVars, bitmap, start, blk, pending, history>>

(* A new file takes the first free slot but does not mark it.                 *)
WriteNew(p, c) ==
  /\ pc = "idle"
  /\ Matches(p) = {}
  /\ \E i \in Slots : First(i, FreeSlots) /\ slot' = i
  /\ op' = [kind |-> "create", path |-> p, data |-> c]
  /\ pc' = "alloc"
  /\ UNCHANGED <<diskVars, ramVars, start, blk, pending, history>>

(* flush_bitmap_range over the extent that was freed, sector by sector.      *)
ReclaimFlush ==
  /\ pc = "reclaim"
  /\ \E sec \in pending, o \in Outcomes :
       /\ First(sec, pending)
       /\ dskBitmap' = FlushedBits(sec, o)
       /\ pending' = pending \ {sec}
       /\ CountFault(o)
       /\ TaintIfLost(o)
       /\ pc' = IF pending # {sec} THEN "reclaim"
                ELSE IF op.kind = "delete" THEN "tombstone" ELSE "alloc"
  /\ UNCHANGED <<super, dskDir, dskData, ramVars, op, slot, start, blk,
                 result, lastView, crashes>>

(* First-fit allocation of the new extent; the bits are set in memory only.  *)
Allocate ==
  /\ pc = "alloc"
  /\ \E s \in Blocks :
       /\ First(s, FreeRuns(Nblocks(op.data)))
       /\ start' = s
       /\ bitmap' = bitmap \cup Run(s, Nblocks(op.data))
  /\ pc' = "data"
  /\ blk' = 0
  /\ UNCHANGED <<diskVars, dir, op, slot, pending, history>>

(* No run is long enough: the slot is tombstoned and the write fails.        *)
OutOfSpace ==
  /\ pc = "alloc"
  /\ FreeRuns(Nblocks(op.data)) = {}
  /\ dir' = [dir EXCEPT ![slot] = DeletedEntry]
  /\ \E o \in Outcomes :
       /\ dskDir' = FlushedDir(dir', slot, o)
       /\ CountFault(o)
       /\ TaintIfLost(o)
  /\ UNCHANGED <<super, dskBitmap, dskData, bitmap, crashes>>
  /\ Return(FALSE)

(* The blocks of one staged transfer through the scratch buffer.             *)
Chunk ==
  {k \in 1 .. Nblocks(op.data) : k > blk /\ k <= blk + ScratchSectors}

WriteData ==
  [b \in Blocks |->
     IF b - start + 1 \in Chunk THEN <<op.data, b - start + 1>> ELSE dskData[b]]

DataDone ==
  /\ pc = "data"
  /\ dskData' = WriteData
  /\ IF blk + ScratchSectors >= Nblocks(op.data)
       THEN pc' = "parents" /\ blk' = 0
       ELSE pc' = "data" /\ blk' = blk + ScratchSectors
  /\ UNCHANGED <<super, dskBitmap, dskDir, ramVars, op, slot, start, pending, history>>

(* A data transfer fails: the call returns at once.  Of an overwrite the old  *)
(* entry stays active although its blocks were given up.                      *)
DataFailed ==
  /\ pc = "data"
  /\ \E o \in Outcomes \ {"done"} :
       /\ dskData' = IF o = "late" THEN WriteData ELSE dskData
       /\ CountFault(o)
  /\ tainted' = (tainted \/ op.kind = "overwrite")
  /\ UNCHANGED <<super, dskBitmap, dskDir, ramVars, crashes>>
  /\ Return(FALSE)

(* ensure_parents, for the next proper prefix of the name: it is there, or    *)
(* there is no slot for it, or it takes the first free slot.  The slot chosen *)
(* for a new file is still free at this point.                                *)
NextParent == Ancestor(op.path, blk + 1)

MoreParents == blk + 1 < Len(op.path)

ParentSkipped ==
  /\ pc = "parents"
  /\ MoreParents
  /\ Matches(NextParent) # {} \/ FreeSlots = {}
  /\ blk' = blk + 1
  /\ UNCHANGED <<diskVars, ramVars, pc, op, slot, start, pending, history>>

ParentCreated ==
  /\ pc = "parents"
  /\ MoreParents
  /\ Matches(NextParent) = {}
  /\ \E i \in Slots, o \in Outcomes :
       /\ First(i, FreeSlots)
       /\ dir' = [dir EXCEPT ![i] = DirEntry(NextParent)]
       /\ dskDir' = FlushedDir(dir', i, o)
       /\ CountFault(o)
       /\ TaintIfLost(o)
  /\ blk' = blk + 1
  /\ UNCHANGED <<super, dskBitmap, dskData, bitmap, pc, op, slot, start, pending,
                 result, lastView, crashes>>

(* Seeded fault: the bits of the new extent are never written through.        *)
SetEntryUnflushed ==
  /\ pc = "parents"
  /\ ~MoreParents
  /\ op.kind \in {"create", "overwrite"}
  /\ dir' = [dir EXCEPT ![slot] = FileEntry(op.path, start, Nblocks(op.data))]
  /\ pc' = "entry"
  /\ UNCHANGED <<diskVars, bitmap, callVars, history>>

(* set_entry for the file itself.                                            *)
SetEntry ==
  /\ pc = "parents"
  /\ ~MoreParents
  /\ op.kind \in {"create", "overwrite"}
  /\ dir' = [dir EXCEPT ![slot] = FileEntry(op.path, start, Nblocks(op.data))]
  /\ pending' = BitmapSectors(start, Nblocks(op.data))
  /\ pc' = "bitmap"
  /\ UNCHANGED <<diskVars, bitmap, op, slot, start, blk, history>>

BitmapFlush ==
  /\ pc = "bitmap"
  /\ \E sec \in pending, o \in Outcomes :
       /\ First(sec, pending)
       /\ dskBitmap' = FlushedBits(sec, o)
       /\ pending' = pending \ {sec}
       /\ CountFault(o)
       /\ TaintIfLost(o)
       /\ pc' = IF pending = {sec} THEN "entry" ELSE "bitmap"
  /\ UNCHANGED <<super, dskDir, dskData, ramVars, op, slot, start, blk,
                 result, lastView, crashes>>

(* flush_dir_entry, the last transfer of a write, a delete or a mkdir.       *)
EntryFlush ==
  /\ pc = "entry"
  /\ \E o \in Outcomes :
       /\ dskDir' = FlushedDir(dir, slot, o)
       /\ CountFault(o)
       /\ TaintIfLost(o)
  /\ UNCHANGED <<super, dskBitmap, dskData, ramVars, crashes>>
  /\ Return(TRUE)
-----------------------------------------------------------------------------
(* delete_file                                                               *)

DeleteRefused(p) ==
  /\ pc = "idle"
  /\ \/ Matches(p) = {}
     \/ \E i \in Slots : First(i, Matches(p)) /\ dir[i].kind = "dir" /\ HasChild(p)
  /\ UNCHANGED <<diskVars, ramVars, tainted, crashes, faults>>
  /\ Return(FALSE)

DeleteFile(p) ==
  /\ pc = "idle"
  /\ \E i \in Slots :
       /\ First(i, Matches(p))
       /\ dir[i].kind = "file"
       /\ slot' = i
       /\ bitmap' = Reclaimed(dir[i])
       /\ pending' = BitmapSectors(dir[i].start, dir[i].nblocks)
  /\ op' = [kind |-> "delete", path |-> p, data |-> NoData]
  /\ pc' = "reclaim"
  /\ UNCHANGED <<diskVars, dir, start, blk, history>>

DeleteDir(p) ==
  /\ pc = "idle"
  /\ ~HasChild(p)
  /\ \E i \in Slots :
       /\ First(i, Matches(p))
       /\ dir[i].kind = "dir"
       /\ slot' = i
  /\ op' = [kind |-> "delete", path |-> p, data |-> NoData]
  /\ pc' = "tombstone"
  /\ UNCHANGED <<diskVars, ramVars, start, blk, pending, history>>

Tombstone ==
  /\ pc = "tombstone"
  /\ dir' = [dir EXCEPT ![slot] = DeletedEntry]
  /\ pc' = "entry"
  /\ UNCHANGED <<diskVars, bitmap, callVars, history>>
-----------------------------------------------------------------------------
(* mkdir: the parents first, then the directory itself.                      *)

Mkdir(p) ==
  /\ pc = "idle"
  /\ op' = [kind |-> "mkdir", path |-> p, data |-> NoData]
  /\ pc' = "parents"
  /\ blk' = 0
  /\ UNCHANGED <<diskVars, ramVars, slot, start, pending, history>>

MkdirDone ==
  /\ pc = "parents"
  /\ ~MoreParents
  /\ op.kind = "mkdir"
  /\ Matches(op.path) # {} \/ FreeSlots = {}
  /\ UNCHANGED <<diskVars, ramVars, tainted, crashes, faults>>
  /\ Return(Matches(op.path) # {})

MkdirCreate ==
  /\ pc = "parents"
  /\ ~MoreParents
  /\ op.kind = "mkdir"
  /\ Matches(op.path) = {}
  /\ \E i \in Slots :
       /\ First(i, FreeSlots)
       /\ slot' = i
       /\ dir' = [dir EXCEPT ![i] = DirEntry(op.path)]
  /\ pc' = "entry"
  /\ UNCHANGED <<diskVars, bitmap, op, start, blk, pending, history>>
-----------------------------------------------------------------------------
(* Restart and open.                                                         *)

(* Calls whose first transfers give up blocks that a live entry still names,  *)
(* and a format, which writes the superblock before the tables behind it:     *)
(* the order of the transfers protects none of these from a restart.          *)
Unprotected == op.kind \in {"overwrite", "delete"} \/ pc \in {"fmtBitmap", "fmtDir"}

(* The machine restarts: orderly between two calls, or in the middle of one.  *)
Restart ==
  /\ pc # "boot"
  /\ IF pc = "idle" THEN UNCHANGED crashes
     ELSE crashes < MaxCrashes /\ crashes' = crashes + 1
  /\ pc' = "boot"
  /\ bitmap' = {}
  /\ dir' = [i \in Slots |-> EmptyEntry]
  /\ tainted' = (tainted \/ Unprotected)
  /\ UNCHANGED <<diskVars, callVars, result, lastView, faults>>

(* open with a valid superblock: load the tables.  The results of the loads   *)
(* are ignored, and a table that was not read stays all zero.                 *)
Mount ==
  /\ pc = "boot"
  /\ super
  /\ \E o \in {"done"} \cup (IF faults < MaxFaults THEN {"noBitmap", "noDir"} ELSE {}) :
       /\ bitmap' = IF o = "noBitmap" THEN {} ELSE dskBitmap
       /\ dir' = IF o = "noDir" THEN dir ELSE dskDir
       /\ CountFault(o)
       /\ tainted' = (tainted \/ o # "done")
  /\ UNCHANGED <<diskVars, crashes>>
  /\ Return(result)

(* open without a valid superblock, or when the superblock cannot be read:    *)
(* format the device.                                                         *)
FormatBegin ==
  /\ pc = "boot"
  /\ \/ ~super /\ UNCHANGED faults
     \/ super /\ faults < MaxFaults /\ faults' = faults + 1
  /\ bitmap' = {}
  /\ dir' = [i \in Slots |-> EmptyEntry]
  /\ pc' = "fmtSuper"
  /\ UNCHANGED <<diskVars, callVars, result, lastView, tainted, crashes>>

FormatSuper ==
  /\ pc = "fmtSuper"
  /\ \E o \in Outcomes :
       /\ super' = (super \/ o # "lost")
       /\ CountFault(o)
       /\ TaintIfLost(o)
  /\ pc' = "fmtBitmap"
  /\ UNCHANGED <<dskBitmap, dskDir, dskData, ramVars, callVars,
                 result, lastView, crashes>>

FormatBitmap ==
  /\ pc = "fmtBitmap"
  /\ \E o \in Outcomes :
       /\ dskBitmap' = IF o = "lost" THEN dskBitmap ELSE bitmap
       /\ CountFault(o)
       /\ TaintIfLost(o)
  /\ pc' = "fmtDir"
  /\ UNCHANGED <<super, dskDir, dskData, ramVars, callVars,
                 result, lastView, crashes>>

FormatDir ==
  /\ pc = "fmtDir"
  /\ \E o \in Outcomes :
       /\ dskDir' = IF o = "lost" THEN dskDir ELSE dir
       /\ CountFault(o)
       /\ TaintIfLost(o)
  /\ UNCHANGED <<super, dskBitmap, dskData, ramVars, crashes>>
  /\ Return(result)
-----------------------------------------------------------------------------
Init ==
  /\ super = FALSE
  /\ dskBitmap = {}
  /\ dskDir \in StaleDirs
  /\ dskData = [b \in Blocks |-> NoData]
  /\ bitmap = {}
  /\ dir = [i \in Slots |-> EmptyEntry]
  /\ pc = "boot"
  /\ op = NoOp
  /\ slot = 0 /\ start = 0 /\ blk = 0 /\ pending = {}
  /\ result = TRUE
  /\ lastView = [p \in PathSet |-> NoFile]
  /\ tainted = FALSE
  /\ crashes = 0
  /\ faults = 0

Call ==
  \E p \in PathSet :
    \/ \E c \in Contents : WriteOver(p, c) \/ WriteNew(p, c)
    \/ WriteRefused(p)
    \/ DeleteFile(p) \/ DeleteDir(p) \/ DeleteRefused(p)
    \/ Mkdir(p)

Step ==
  \/ ReclaimFlush \/ Allocate \/ OutOfSpace \/ DataDone \/ DataFailed
  \/ ParentSkipped \/ ParentCreated \/ SetEntry \/ BitmapFlush \/ EntryFlush
  \/ Tombstone \/ MkdirDone \/ MkdirCreate

Open == Mount \/ FormatBegin \/ FormatSuper \/ FormatBitmap \/ FormatDir

Next == Call \/ Step \/ Restart \/ Open

Spec == Init /\ [][Next]_vars
-----------------------------------------------------------------------------
(* Properties.                                                               *)

(* Shape of the state: every variable stays in the values the code can hold.  *)
TypeOK ==
  /\ super \in BOOLEAN
  /\ dskBitmap \in SUBSET Blocks
  /\ dskDir \in [Slots -> Entry]
  /\ dskData \in [Blocks -> {NoData} \cup (Contents \X Nat)]
  /\ bitmap \in SUBSET Blocks
  /\ dir \in [Slots -> Entry]
  /\ pc \in {"boot", "idle", "reclaim", "alloc", "data", "parents", "bitmap", "entry",
             "tombstone", "fmtSuper", "fmtBitmap", "fmtDir"}
  /\ op \in [kind : {"none", "create", "overwrite", "delete", "mkdir"},
             path : PathSet \cup {<<>>}, data : Contents \cup {NoData}]
  /\ slot \in Slots
  /\ start \in Nat
  /\ blk \in Nat
  /\ tainted \in BOOLEAN
  /\ result \in BOOLEAN
  /\ crashes \in Nat
  /\ faults \in Nat

(* The tables on the device are those of a filesystem.                       *)
Formatted == super /\ pc \notin {"fmtBitmap", "fmtDir"}

Disjoint(d) ==
  \A i, j \in Slots : i # j => Extent(d[i]) \cap Extent(d[j]) = {}

(* No two files share a data block, in memory or on the device, however       *)
(* creations, orderly overwrites and deletes, failed writes and restarts      *)
(* interleave (write_file, delete_file: free_run before alloc_run).           *)
NoSharedBlocks ==
  ~tainted => Disjoint(dir) /\ (Formatted => Disjoint(dskDir))

(* The call in progress has given up the blocks its slot still names.        *)
GivenUp(i) == i = slot /\ op.kind \in {"overwrite", "delete"}

Covered(d, used) == \A i \in Slots : GivenUp(i) \/ Extent(d[i]) \subseteq used

(* alloc_run can never hand out a block of a live file: outside the slot being *)
(* rewritten every block of an active file is marked used, in memory and on    *)
(* the device, and stays so across a restart in the middle of a creation.      *)
LiveBlocksUsed ==
  ~tainted => Covered(dir, bitmap) /\ (Formatted => Covered(dskDir, dskBitmap))

(* Reclamation is exact: while no transfer failed and no call was interrupted, *)
(* between calls the used blocks are exactly the blocks of live files, so      *)
(* overwriting and deleting never leak (rpfs.rs:7, tools/rpfs_test.rs:5).      *)
NoLeak ==
  (pc = "idle" /\ crashes = 0 /\ faults = 0) =>
    bitmap = UNION {Extent(dir[i]) : i \in Slots}

(* A name is active in at most one slot, so find never depends on the slot     *)
(* order although every call re-searches the table.                           *)
UniqueNames ==
  ~tainted => \A p \in PathSet : \A i, j \in Matches(p) : i = j

(* What a call reported is on the device when it returns: a restart between    *)
(* two calls shows every reader what it saw before (PERSISTENCE.md: "it's all  *)
(* still there next boot").  A restart in the middle of a call keeps every      *)
(* other path; only a directory may have appeared above the path.              *)
Bystanders == {p \in PathSet : p # op.path}

RestartKeepsFiles ==
  [][(pc = "boot" /\ pc' = "idle" /\ ~tainted') =>
       \A p \in Bystanders :
         \/ View'[p] = lastView[p]
         \/ IsBelow(op.path, p) /\ lastView[p] = NoFile /\ View'[p] = Directory]_vars

(* A creation is atomic across a restart: the new file is absent or complete,  *)
(* never a name whose blocks hold something else.  Neighbouring entries are     *)
(* flushed meanwhile (its parents), so the entry must not exist before its       *)
(* data, its bits and its blocks are there.                                   *)
CreateIsAtomic ==
  [][(pc = "boot" /\ pc' = "idle" /\ ~tainted' /\ op.kind = "create") =>
       View'[op.path] \in {NoFile, op.data}]_vars

(* The filesystem implements the map it promises, call by call.              *)
Store == INSTANCE FileStore WITH store <- lastView

ImplementsStore == Store!Spec

(* rpfs.rs:12: parent directories are created on write.  Refuted even with     *)
(* slots to spare: the slot a new file will use is still free while its        *)
(* parents are created.                                                       *)
ParentsCreated ==
  [][(pc = "entry" /\ pc' = "idle" /\ op.kind = "create" /\ FreeSlots' # {}) =>
       \A q \in Ancestors(op.path) : View'[q] # NoFile]_vars

(* rpfs.rs:116: open formats only if no valid superblock is present.  Refuted:  *)
(* a superblock that cannot be read counts as absent.                         *)
FormatOnlyBlank == [][(pc = "boot" /\ pc' = "fmtSuper") => ~super]_vars

-----------------------------------------------------------------------------
(* The instance that is checked: paths one to three levels deep, an empty     *)
(* content and one of two blocks, three slots in two directory sectors, three *)
(* blocks in two bitmap sectors, so that directory and device both fill up,   *)
(* extents straddle bitmap sectors and slots share a sector.                  *)
MCPaths     == {<<"a">>, <<"a", "b">>, <<"c">>}
MCDeepPaths == MCPaths \cup {<<"a", "b", "d">>}
MCLarge     == CHOOSE c \in Contents : TRUE
MCBlocksOf  == [c \in Contents |-> IF c = MCLarge THEN 2 ELSE 0]
MCSlots     == 0 .. 2
MCBlocks    == 0 .. 2
MCSlotSector(i) == i \div 2
MCBitSector(b)  == b \div 2

(* A device that was never written, and one on which an older format left      *)
(* bytes that read as an active file.                                         *)
MCBlank     == [i \in MCSlots |-> EmptyEntry]
MCStaleDirs == {MCBlank, [MCBlank EXCEPT ![1] = FileEntry(<<"c">>, 1, 2)]}

(* Every property is about states with ~tainted, and taint never goes away:    *)
(* what follows a tainted state is not explored.                              *)
Untainted == ~tainted
=============================================================================
