----------------------------- MODULE RpfsProofs -----------------------------
(***************************************************************************)
(* For every directory size, device size, sector layout and set of paths:    *)
(* Rpfs keeps its types, no two files ever share a block, and no block of a  *)
(* live file is ever free, through any number of restarts and failed         *)
(* transfers outside the windows that taint the state.  The second half proves *)
(* what callers see: names stay unique, restarts keep files, creations are     *)
(* atomic, nothing leaks, and Rpfs implements FileStore.                       *)
(*                                                                           *)
(* LiveBlocksUsed and NoSharedBlocks are not inductive: that a flushed sector *)
(* may be copied over the device depends on how memory and device differ at   *)
(* each step (Synced), that an allocated run belongs to nobody has to be      *)
(* remembered until the entry names it (Reserved), and the bits of the run    *)
(* must be on the device before the entry is (BitsBeforeEntry).               *)
(***************************************************************************)
EXTENDS Rpfs, SequenceTheorems, TLAPS

Calling == {"reclaim", "alloc", "data", "parents", "bitmap", "entry", "tombstone"}

Opening == {"boot", "fmtSuper", "fmtBitmap", "fmtDir"}

Writing == op.kind \in {"create", "overwrite"}

(* Which calls can stand at which step.                                      *)
OpAtStep ==
  /\ pc = "idle" => op.kind = "none"
  /\ pc \in Calling => op.path \in PathSet /\ op.kind # "none"
  /\ pc \in {"alloc", "data", "bitmap"} => Writing
  /\ pc = "reclaim" => op.kind \in {"overwrite", "delete"}
  /\ pc = "parents" => op.kind # "delete"
  /\ pc = "tombstone" => op.kind = "delete"
  /\ Writing => op.data \in Contents

(* While no filesystem is mounted its memory is empty.                       *)
EmptyMemory ==
  pc \in Opening => bitmap = {} /\ \A i \in Slots : dir[i] = EmptyEntry

(* Memory and device hold the same directory, but for the entry whose flush    *)
(* is still to come.                                                          *)
Synced ==
  /\ pc \notin {"boot", "fmtSuper"} => super
  /\ pc \in {"idle", "reclaim", "alloc", "data", "parents", "tombstone"} => dskDir = dir
  /\ pc \in {"bitmap", "entry"} => \A i \in Slots : i # slot => dskDir[i] = dir[i]
  /\ pc \in Calling /\ op.kind = "create" =>
       /\ Extent(dskDir[slot]) = {}
       /\ pc \notin {"bitmap", "entry"} => Extent(dir[slot]) = {}
  /\ pc = "entry" /\ ~Writing => Extent(dir[slot]) = {}
  /\ pc \in Opening => op.kind \notin {"overwrite", "delete"}

NewRun == Run(start, Nblocks(op.data))

(* The run allocated for a write belongs to no other file.                   *)
Reserved ==
  /\ pc \in {"data", "parents", "bitmap", "entry"} /\ Writing =>
       /\ NewRun \subseteq bitmap
       /\ \A i \in Slots : i # slot => Extent(dir[i]) \cap NewRun = {}
  /\ pc \in {"bitmap", "entry"} /\ Writing => Extent(dir[slot]) = NewRun

(* The bits of the run reach the device before its entry does.               *)
BitsBeforeEntry ==
  /\ pc = "bitmap" => \A b \in NewRun : BitSector(b) \in pending \/ b \in dskBitmap
  /\ pc = "entry" /\ Writing => NewRun \subseteq dskBitmap

Consistent ==
  /\ EmptyMemory
  /\ Synced
  /\ Reserved
  /\ BitsBeforeEntry
  /\ Disjoint(dir)
  /\ Covered(dir, bitmap)
  /\ Formatted => Disjoint(dskDir) /\ Covered(dskDir, dskBitmap)

Typed == TypeOK /\ OpAtStep

IInv == Typed /\ (~tainted => Consistent)
-----------------------------------------------------------------------------
(* A transfer outcome counts at most one fault.                              *)
LEMMA FaultsStayNat ==
  ASSUME faults \in Nat, NEW o, CountFault(o)
  PROVE  faults' \in Nat
BY SMT DEF CountFault

(* Entries the code writes are entries.                                      *)
LEMMA EntriesTyped ==
  /\ EmptyEntry \in Entry
  /\ DeletedEntry \in Entry
  /\ \A p \in PathSet : DirEntry(p) \in Entry
  /\ \A p \in PathSet, s \in Nat, n \in Nat : FileEntry(p, s, n) \in Entry
BY DEF EmptyEntry, DeletedEntry, DirEntry, FileEntry, Entry

(* A file always takes at least one block.                                   *)
LEMMA NblocksTyped ==
  \A c \in Contents : Nblocks(c) \in Nat /\ Nblocks(c) >= 1
BY RpfsAssumption DEF Nblocks

(* flush_dir_entry leaves a directory on the device, the one in memory in the  *)
(* sector it writes.                                                          *)
LEMMA FlushedDirTyped ==
  ASSUME dskDir \in [Slots -> Entry], NEW d \in [Slots -> Entry],
         NEW i \in Slots, NEW o
  PROVE  /\ FlushedDir(d, i, o) \in [Slots -> Entry]
         /\ o # "lost" => FlushedDir(d, i, o)[i] = d[i]
         /\ \A j \in Slots : FlushedDir(d, i, o)[j] \in {d[j], dskDir[j]}
BY DEF FlushedDir

(* One bitmap sector written: inside the sector the device has the bits of     *)
(* memory, outside it keeps its own.                                          *)
LEMMA FlushedBitsTyped ==
  ASSUME dskBitmap \in SUBSET Blocks, NEW sec, NEW o
  PROVE  /\ FlushedBits(sec, o) \in SUBSET Blocks
         /\ o # "lost" =>
              \A b \in Blocks :
                b \in FlushedBits(sec, o) <=>
                  IF BitSector(b) = sec THEN b \in bitmap ELSE b \in dskBitmap
BY DEF FlushedBits

(* Parents of a path callers use are paths callers use.                      *)
LEMMA NextParentTyped ==
  ASSUME op.path \in PathSet, blk \in Nat, MoreParents
  PROVE  NextParent \in PathSet
<1>1. Len(op.path) \in Nat /\ Ancestors(op.path) \subseteq PathSet
  BY RpfsAssumption
<1>2. blk + 1 \in 1 .. Len(op.path) - 1
  BY <1>1 DEF MoreParents
<1>3. QED
  BY <1>1, <1>2 DEF NextParent, Ancestors

LEMMA InitTyped == Init => Typed
<1> SUFFICES ASSUME Init PROVE Typed
  OBVIOUS
<1>1. dskDir \in [Slots -> Entry]
  BY RpfsAssumption DEF Init, Entry
<1>2. dir \in [Slots -> Entry] /\ dskData \in [Blocks -> {NoData} \cup (Contents \X Nat)]
  BY EntriesTyped DEF Init
<1>3. op \in [kind : {"none", "create", "overwrite", "delete", "mkdir"},
             path : PathSet \cup {<<>>}, data : Contents \cup {NoData}]
  BY DEF Init, NoOp
<1>4. OpAtStep
  BY DEF Init, NoOp, OpAtStep, Calling, Writing
<1>5. QED
  BY <1>1, <1>2, <1>3, <1>4, RpfsAssumption DEF Init, Typed, TypeOK

(* Returning to a caller clears the call.                                    *)
LEMMA ReturnTyped ==
  ASSUME NEW r \in BOOLEAN, Return(r)
  PROVE  /\ pc' = "idle" /\ op' = NoOp /\ op'.kind = "none" /\ op'.path = <<>>
         /\ slot' \in Slots /\ start' \in Nat /\ blk' \in Nat /\ result' \in BOOLEAN
         /\ OpAtStep'
         /\ op' \in [kind : {"none", "create", "overwrite", "delete", "mkdir"},
                     path : PathSet \cup {<<>>}, data : Contents \cup {NoData}]
BY RpfsAssumption DEF Return, NoOp, OpAtStep, Calling, Writing
-----------------------------------------------------------------------------
LEMMA CallTyped ==
  ASSUME Typed, NEW p \in PathSet,
         \/ \E c \in Contents : WriteOver(p, c) \/ WriteNew(p, c)
         \/ WriteRefused(p)
         \/ DeleteFile(p) \/ DeleteDir(p) \/ DeleteRefused(p)
         \/ Mkdir(p)
  PROVE  Typed'
<1> USE DEF Typed, TypeOK
<1>1. ASSUME NEW c \in Contents, WriteOver(p, c) PROVE Typed'
  BY <1>1 DEF WriteOver, Reclaimed, OpAtStep, Calling, Writing, diskVars, history
<1>2. ASSUME NEW c \in Contents, WriteNew(p, c) PROVE Typed'
  BY <1>2 DEF WriteNew, OpAtStep, Calling, Writing, diskVars, ramVars, history
<1>3. CASE WriteRefused(p)
  BY <1>3, ReturnTyped DEF WriteRefused, diskVars, ramVars
<1>4. CASE DeleteFile(p)
  BY <1>4 DEF DeleteFile, Reclaimed, OpAtStep, Calling, Writing, diskVars, history
<1>5. CASE DeleteDir(p)
  BY <1>5 DEF DeleteDir, OpAtStep, Calling, Writing, diskVars, ramVars, history
<1>6. CASE DeleteRefused(p)
  BY <1>6, ReturnTyped DEF DeleteRefused, diskVars, ramVars
<1>7. CASE Mkdir(p)
  BY <1>7 DEF Mkdir, OpAtStep, Calling, Writing, diskVars, ramVars, history
<1>8. QED
  BY <1>1, <1>2, <1>3, <1>4, <1>5, <1>6, <1>7

LEMMA WriteStepTyped ==
  ASSUME Typed,
         \/ ReclaimFlush \/ Allocate \/ OutOfSpace \/ DataDone \/ DataFailed
         \/ SetEntry \/ BitmapFlush \/ EntryFlush
  PROVE  Typed'
<1> USE DEF Typed, TypeOK
<1>1. CASE ReclaimFlush
  <2>1. PICK sec \in pending, o \in Outcomes :
          /\ dskBitmap' = FlushedBits(sec, o) /\ CountFault(o) /\ TaintIfLost(o)
          /\ pc' = IF pending # {sec} THEN "reclaim"
                   ELSE IF op.kind = "delete" THEN "tombstone" ELSE "alloc"
    BY <1>1 DEF ReclaimFlush
  <2>2. dskBitmap' \in SUBSET Blocks /\ faults' \in Nat
    BY <2>1, FlushedBitsTyped, FaultsStayNat
  <2>3. OpAtStep'
    BY <1>1, <2>1 DEF ReclaimFlush, OpAtStep, Calling, Writing
  <2>4. QED
    BY <1>1, <2>1, <2>2, <2>3 DEF ReclaimFlush, TaintIfLost, ramVars
<1>2. CASE Allocate
  <2>1. PICK s \in Blocks :
          /\ s \in FreeRuns(Nblocks(op.data)) /\ start' = s
          /\ bitmap' = bitmap \cup Run(s, Nblocks(op.data))
    BY <1>2 DEF Allocate, First
  <2>2. bitmap' \in SUBSET Blocks /\ start' \in Nat
    BY <2>1, RpfsAssumption DEF FreeRuns
  <2>3. OpAtStep'
    BY <1>2 DEF Allocate, OpAtStep, Calling, Writing
  <2>4. QED
    BY <1>2, <2>2, <2>3 DEF Allocate, diskVars, history
<1>3. CASE OutOfSpace
  <2>1. dir' \in [Slots -> Entry]
    BY <1>3, EntriesTyped DEF OutOfSpace
  <2>2. PICK o \in Outcomes :
          dskDir' = FlushedDir(dir', slot, o) /\ CountFault(o) /\ TaintIfLost(o)
    BY <1>3 DEF OutOfSpace
  <2>3. dskDir' \in [Slots -> Entry] /\ faults' \in Nat
    BY <2>1, <2>2, FlushedDirTyped, FaultsStayNat
  <2>4. QED
    BY <1>3, <2>1, <2>2, <2>3, ReturnTyped DEF OutOfSpace, TaintIfLost
<1>4. CASE DataDone
  <2>1. dskData' \in [Blocks -> {NoData} \cup (Contents \X Nat)]
    BY <1>4, RpfsAssumption, NblocksTyped DEF DataDone, WriteData, Chunk, OpAtStep, Calling
  <2>2. blk' \in Nat
    BY <1>4, RpfsAssumption DEF DataDone
  <2>3. OpAtStep'
    BY <1>4 DEF DataDone, OpAtStep, Calling, Writing
  <2>4. QED
    BY <1>4, <2>1, <2>2, <2>3 DEF DataDone, ramVars, history
<1>5. CASE DataFailed
  <2>1. WriteData \in [Blocks -> {NoData} \cup (Contents \X Nat)]
    BY <1>5, RpfsAssumption, NblocksTyped DEF DataFailed, WriteData, Chunk, OpAtStep, Calling
  <2>2. dskData' \in [Blocks -> {NoData} \cup (Contents \X Nat)] /\ faults' \in Nat
    BY <1>5, <2>1, FaultsStayNat DEF DataFailed
  <2>3. QED
    BY <1>5, <2>2, ReturnTyped DEF DataFailed, ramVars
<1>6. CASE SetEntry
  <2>1. dir' \in [Slots -> Entry]
    BY <1>6, EntriesTyped, NblocksTyped DEF SetEntry, OpAtStep, Calling, Writing
  <2>2. OpAtStep'
    BY <1>6 DEF SetEntry, OpAtStep, Calling, Writing
  <2>3. QED
    BY <1>6, <2>1, <2>2 DEF SetEntry, diskVars, history
<1>7. CASE BitmapFlush
  <2>1. PICK sec \in pending, o \in Outcomes :
          /\ dskBitmap' = FlushedBits(sec, o) /\ CountFault(o) /\ TaintIfLost(o)
          /\ pc' = IF pending = {sec} THEN "entry" ELSE "bitmap"
    BY <1>7 DEF BitmapFlush
  <2>2. dskBitmap' \in SUBSET Blocks /\ faults' \in Nat
    BY <2>1, FlushedBitsTyped, FaultsStayNat
  <2>3. OpAtStep'
    BY <1>7, <2>1 DEF BitmapFlush, OpAtStep, Calling, Writing
  <2>4. QED
    BY <1>7, <2>1, <2>2, <2>3 DEF BitmapFlush, TaintIfLost, ramVars
<1>8. CASE EntryFlush
  <2>1. PICK o \in Outcomes :
          dskDir' = FlushedDir(dir, slot, o) /\ CountFault(o) /\ TaintIfLost(o)
    BY <1>8 DEF EntryFlush
  <2>2. dskDir' \in [Slots -> Entry] /\ faults' \in Nat
    BY <2>1, FlushedDirTyped, FaultsStayNat
  <2>3. QED
    BY <1>8, <2>1, <2>2, ReturnTyped DEF EntryFlush, TaintIfLost, ramVars
<1>9. QED
  BY <1>1, <1>2, <1>3, <1>4, <1>5, <1>6, <1>7, <1>8

LEMMA TreeStepTyped ==
  ASSUME Typed,
         ParentSkipped \/ ParentCreated \/ Tombstone \/ MkdirDone \/ MkdirCreate
  PROVE  Typed'
<1> USE DEF Typed, TypeOK
<1>1. CASE ParentSkipped
  BY <1>1 DEF ParentSkipped, OpAtStep, Calling, Writing, diskVars, ramVars, history
<1>2. CASE ParentCreated
  <2>1. NextParent \in PathSet
    BY <1>2, NextParentTyped DEF ParentCreated, OpAtStep, Calling
  <2>2. PICK i \in Slots, o \in Outcomes :
          /\ dir' = [dir EXCEPT ![i] = DirEntry(NextParent)]
          /\ dskDir' = FlushedDir(dir', i, o) /\ CountFault(o) /\ TaintIfLost(o)
    BY <1>2 DEF ParentCreated
  <2>3. dir' \in [Slots -> Entry]
    BY <2>1, <2>2, EntriesTyped
  <2>4. dskDir' \in [Slots -> Entry] /\ faults' \in Nat
    BY <2>2, <2>3, FlushedDirTyped, FaultsStayNat
  <2>5. OpAtStep'
    BY <1>2 DEF ParentCreated, OpAtStep, Calling, Writing
  <2>6. blk' = blk + 1 /\ UNCHANGED <<super, dskBitmap, dskData, bitmap, pc, op, slot,
                                      start, result, crashes>>
    BY <1>2 DEF ParentCreated
  <2>7. tainted' \in BOOLEAN
    BY <2>2 DEF TaintIfLost
  <2>8. QED
    BY <2>3, <2>4, <2>5, <2>6, <2>7
<1>3. CASE Tombstone
  <2>1. dir' \in [Slots -> Entry]
    BY <1>3, EntriesTyped DEF Tombstone
  <2>2. QED
    BY <1>3, <2>1 DEF Tombstone, OpAtStep, Calling, Writing, diskVars, callVars, history
<1>4. CASE MkdirDone
  BY <1>4, ReturnTyped DEF MkdirDone, diskVars, ramVars
<1>5. CASE MkdirCreate
  <2>1. dir' \in [Slots -> Entry]
    BY <1>5, EntriesTyped DEF MkdirCreate, OpAtStep, Calling
  <2>2. QED
    BY <1>5, <2>1 DEF MkdirCreate, OpAtStep, Calling, Writing, diskVars, history
<1>6. QED
  BY <1>1, <1>2, <1>3, <1>4, <1>5

LEMMA OpenStepTyped ==
  ASSUME Typed, Restart \/ Open
  PROVE  Typed'
<1> USE DEF Typed, TypeOK
<1>1. CASE Restart
  BY <1>1, EntriesTyped
     DEF Restart, OpAtStep, Calling, Writing, diskVars, callVars
<1>2. CASE Mount
  <2>1. PICK o : /\ bitmap' = IF o = "noBitmap" THEN {} ELSE dskBitmap
                 /\ dir' = IF o = "noDir" THEN dir ELSE dskDir
                 /\ CountFault(o) /\ tainted' = (tainted \/ o # "done")
    BY <1>2 DEF Mount
  <2>2. faults' \in Nat
    BY <2>1, FaultsStayNat
  <2>3. QED
    BY <1>2, <2>1, <2>2, ReturnTyped DEF Mount, diskVars
<1>3. CASE FormatBegin
  BY <1>3, EntriesTyped
     DEF FormatBegin, OpAtStep, Calling, Writing, diskVars, callVars
<1>4. CASE FormatSuper
  <2>1. faults' \in Nat
    BY <1>4, FaultsStayNat DEF FormatSuper
  <2>2. QED
    BY <1>4, <2>1 DEF FormatSuper, TaintIfLost, OpAtStep, Calling, Writing, ramVars, callVars
<1>5. CASE FormatBitmap
  <2>1. faults' \in Nat
    BY <1>5, FaultsStayNat DEF FormatBitmap
  <2>2. QED
    BY <1>5, <2>1 DEF FormatBitmap, TaintIfLost, OpAtStep, Calling, Writing, ramVars, callVars
<1>6. CASE FormatDir
  <2>1. faults' \in Nat
    BY <1>6, FaultsStayNat DEF FormatDir
  <2>2. QED
    BY <1>6, <2>1, ReturnTyped DEF FormatDir, TaintIfLost, ramVars
<1>7. QED
  BY <1>1, <1>2, <1>3, <1>4, <1>5, <1>6 DEF Open

LEMMA StepTyped == Typed /\ [Next]_vars => Typed'
<1> SUFFICES ASSUME Typed, [Next]_vars PROVE Typed'
  OBVIOUS
<1>1. CASE UNCHANGED vars
  BY <1>1 DEF Typed, TypeOK, OpAtStep, Calling, Writing, vars, diskVars, ramVars,
              callVars, history
<1>2. CASE Call
  <2>1. PICK p \in PathSet :
          \/ \E c \in Contents : WriteOver(p, c) \/ WriteNew(p, c)
          \/ WriteRefused(p)
          \/ DeleteFile(p) \/ DeleteDir(p) \/ DeleteRefused(p)
          \/ Mkdir(p)
    BY <1>2 DEF Call
  <2>2. QED
    BY <2>1, CallTyped
<1>3. CASE Step
  BY <1>3, WriteStepTyped, TreeStepTyped DEF Step
<1>4. CASE Restart \/ Open
  BY <1>4, OpenStepTyped
<1>5. QED
  BY <1>1, <1>2, <1>3, <1>4 DEF Next

(* Every variable keeps its type, and only the calls of rpfs.rs stand at the    *)
(* steps they have.                                                           *)
THEOREM TypeCorrect == Spec => []TypeOK
<1>1. Typed => TypeOK
  BY DEF Typed
<1>2. QED
  BY InitTyped, StepTyped, <1>1, PTL DEF Spec
-----------------------------------------------------------------------------
(* The blocks entries name.                                                  *)
LEMMA Extents ==
  /\ Extent(EmptyEntry) = {}
  /\ Extent(DeletedEntry) = {}
  /\ \A p : Extent(DirEntry(p)) = {}
  /\ \A p, s, n : Extent(FileEntry(p, s, n)) = Run(s, n)
BY DEF Extent, IsFile, EmptyEntry, DeletedEntry, DirEntry, FileEntry

(* Slots that no file occupies name no block.                                *)
LEMMA InactiveExtents ==
  \A i \in Slots : dir[i].trit # 1 \/ dir[i].kind = "dir" => Extent(dir[i]) = {}
BY DEF Extent, IsFile

LEMMA FreeSlotInactive ==
  ASSUME Typed, NEW i, First(i, FreeSlots)
  PROVE  i \in Slots /\ dir[i].trit # 1
BY DEF First, FreeSlots, Typed, TypeOK, Entry

(* The state between two calls, once memory and device agree.                *)
LEMMA IdleConsistent ==
  ASSUME NEW r, Return(r), super', dskDir' = dir', Disjoint(dir'),
         \A i \in Slots : Extent(dir'[i]) \subseteq bitmap',
         \A i \in Slots : Extent(dir'[i]) \subseteq dskBitmap'
  PROVE  Consistent'
<1>1. pc' = "idle" /\ op'.kind = "none"
  BY DEF Return, NoOp
<1>2. EmptyMemory' /\ Synced' /\ Reserved' /\ BitsBeforeEntry'
  BY <1>1 DEF EmptyMemory, Synced, Reserved, BitsBeforeEntry, Opening, Calling, Writing
<1>3. Covered(dir, bitmap)' /\ Covered(dskDir, dskBitmap)'
  BY DEF Covered
<1>4. Disjoint(dir)' /\ Disjoint(dskDir)'
  BY DEF Disjoint
<1>5. QED
  BY <1>2, <1>3, <1>4 DEF Consistent

(* Between two calls memory and device agree and every block is accounted for. *)
LEMMA IdleFacts ==
  ASSUME Typed, Consistent, pc = "idle"
  PROVE  /\ super /\ dskDir = dir /\ Disjoint(dir)
         /\ \A i \in Slots : Extent(dir[i]) \subseteq bitmap
         /\ \A i \in Slots : Extent(dir[i]) \subseteq dskBitmap
<1>1. op.kind = "none"
  BY DEF Typed, OpAtStep
<1>2. Formatted
  BY DEF Consistent, Synced, Formatted
<1>3. QED
  BY <1>1, <1>2 DEF Consistent, Synced, Covered, GivenUp
-----------------------------------------------------------------------------
(* Nothing but the memory of the directory is behind after the sector of the   *)
(* one differing slot has been written.                                       *)
LEMMA FlushSyncs ==
  ASSUME dskDir \in [Slots -> Entry], NEW d \in [Slots -> Entry], NEW i \in Slots,
         NEW o, o # "lost", \A j \in Slots : j # i => dskDir[j] = d[j]
  PROVE  FlushedDir(d, i, o) = d
BY DEF FlushedDir

(* Taint is permanent, and a step that leaves none lost no transfer.          *)
LEMMA UntaintedTransfer ==
  ASSUME tainted \in BOOLEAN, NEW o, TaintIfLost(o), ~tainted'
  PROVE  ~tainted /\ o # "lost"
BY DEF TaintIfLost

LEMMA TaintStays ==
  ASSUME TypeOK, Next, ~tainted'
  PROVE  ~tainted
<1> USE DEF TypeOK
<1>1. CASE Call
  BY <1>1 DEF Call, WriteOver, WriteNew, WriteRefused, DeleteFile, DeleteDir,
              DeleteRefused, Mkdir, history
<1>2. CASE Step
  BY <1>2 DEF Step, ReclaimFlush, Allocate, OutOfSpace, DataDone, DataFailed,
              ParentSkipped, ParentCreated, SetEntry, BitmapFlush, EntryFlush,
              Tombstone, MkdirDone, MkdirCreate, TaintIfLost, history
<1>3. CASE Restart \/ Open
  BY <1>3 DEF Restart, Open, Mount, FormatBegin, FormatSuper, FormatBitmap, FormatDir,
              TaintIfLost, history
<1>4. QED
  BY <1>1, <1>2, <1>3 DEF Next

(* While a call runs, its slot aside, memory and device hold the same entries  *)
(* and both bitmaps mark their blocks.                                        *)
LEMMA CallFacts ==
  ASSUME Typed, Consistent, pc \in Calling
  PROVE  /\ super /\ Disjoint(dir) /\ Disjoint(dskDir)
         /\ pc \notin {"bitmap", "entry"} => dskDir = dir
         /\ \A i \in Slots : i # slot => dskDir[i] = dir[i]
         /\ \A i \in Slots : i # slot => Extent(dir[i]) \subseteq bitmap
         /\ \A i \in Slots : i # slot => Extent(dir[i]) \subseteq dskBitmap
         /\ op.kind \notin {"overwrite", "delete"} =>
              \A i \in Slots : /\ Extent(dir[i]) \subseteq bitmap
                               /\ Extent(dskDir[i]) \subseteq dskBitmap
<1>1. super /\ Formatted
  BY DEF Consistent, Synced, Formatted, Calling
<1>2. \A i \in Slots : i # slot => dskDir[i] = dir[i]
  BY DEF Consistent, Synced, Calling
<1>3. \A i \in Slots : i # slot => ~GivenUp(i)
  BY DEF GivenUp
<1>4. op.kind \notin {"overwrite", "delete"} => \A i \in Slots : ~GivenUp(i)
  BY DEF GivenUp
<1>5. pc \notin {"bitmap", "entry"} => dskDir = dir
  BY DEF Consistent, Synced, Calling
<1>6. Covered(dir, bitmap) /\ Covered(dskDir, dskBitmap) /\ Disjoint(dir) /\ Disjoint(dskDir)
  BY <1>1 DEF Consistent
<1>7. QED
  BY <1>1, <1>2, <1>3, <1>4, <1>5, <1>6 DEF Covered

LEMMA CallConsistent ==
  ASSUME Typed, Typed', Consistent, NEW p \in PathSet,
         \/ \E c \in Contents : WriteOver(p, c) \/ WriteNew(p, c)
         \/ WriteRefused(p)
         \/ DeleteFile(p) \/ DeleteDir(p) \/ DeleteRefused(p)
         \/ Mkdir(p)
  PROVE  Consistent'
<1>1. /\ pc = "idle" /\ dir' = dir
      /\ UNCHANGED diskVars
  BY DEF WriteOver, WriteNew, WriteRefused, DeleteFile, DeleteDir, DeleteRefused, Mkdir,
         ramVars
<1>2. /\ super' /\ dskDir' = dir' /\ Disjoint(dir') /\ Disjoint(dskDir')
      /\ \A i \in Slots : Extent(dir[i]) \subseteq bitmap
      /\ \A i \in Slots : Extent(dir'[i]) \subseteq dskBitmap'
  BY <1>1, IdleFacts DEF diskVars
<1>3. ASSUME /\ pc' \in {"reclaim", "alloc", "parents", "tombstone"}
             /\ op'.kind # "create" \/ Extent(dir'[slot']) = {}
             /\ pc' = "parents" => op'.kind = "mkdir"
             /\ \A i \in Slots : GivenUp(i)' \/ Extent(dir'[i]) \subseteq bitmap'
      PROVE  Consistent'
  <2>1. EmptyMemory' /\ Reserved' /\ BitsBeforeEntry'
    BY <1>3 DEF EmptyMemory, Opening, Reserved, Writing, BitsBeforeEntry
  <2>2. Synced'
    BY <1>2, <1>3 DEF Synced, Opening, Writing
  <2>3. Covered(dir, bitmap)' /\ Covered(dskDir, dskBitmap)'
    BY <1>2, <1>3 DEF Covered
  <2>4. Disjoint(dir)' /\ Disjoint(dskDir)'
    BY <1>2 DEF Disjoint
  <2>5. QED
    BY <2>1, <2>2, <2>3, <2>4 DEF Consistent
<1>4. ASSUME NEW i \in Slots, dir[i].trit = 1, dir[i].kind = "file",
             bitmap' = Reclaimed(dir[i]), slot' = i,
             op'.kind \in {"overwrite", "delete"}
      PROVE  \A j \in Slots : GivenUp(j)' \/ Extent(dir'[j]) \subseteq bitmap'
  <2>1. Extent(dir[i]) = Run(dir[i].start, dir[i].nblocks)
    BY <1>4 DEF Extent, IsFile
  <2>2. \A j \in Slots : j # i => Extent(dir[j]) \cap Extent(dir[i]) = {}
    BY <1>1, <1>2 DEF Disjoint
  <2>3. QED
    BY <1>1, <1>2, <1>4, <2>1, <2>2 DEF Reclaimed, GivenUp
<1>5. ASSUME NEW c \in Contents, WriteOver(p, c) PROVE Consistent'
  <2>1. PICK i \in Slots : /\ dir[i].trit = 1 /\ dir[i].kind = "file" /\ slot' = i
                           /\ bitmap' = Reclaimed(dir[i])
    BY <1>5 DEF WriteOver, First, Matches
  <2>2. op'.kind = "overwrite" /\ pc' = "reclaim"
    BY <1>5 DEF WriteOver
  <2>3. QED
    BY <1>3, <1>4, <2>1, <2>2
<1>6. ASSUME NEW c \in Contents, WriteNew(p, c) PROVE Consistent'
  <2>1. PICK i \in Slots : First(i, FreeSlots) /\ slot' = i
    BY <1>6 DEF WriteNew
  <2>2. Extent(dir[i]) = {}
    BY <2>1, FreeSlotInactive, InactiveExtents
  <2>3. op'.kind = "create" /\ pc' = "alloc" /\ bitmap' = bitmap
    BY <1>6 DEF WriteNew, ramVars
  <2>4. Extent(dir'[slot']) = {}
    BY <1>1, <2>1, <2>2
  <2>5. \A j \in Slots : Extent(dir'[j]) \subseteq bitmap'
    BY <1>1, <1>2, <2>3
  <2>6. QED
    BY <1>3, <2>3, <2>4, <2>5
<1>7. ASSUME DeleteFile(p) PROVE Consistent'
  <2>1. PICK i \in Slots : /\ dir[i].trit = 1 /\ dir[i].kind = "file" /\ slot' = i
                           /\ bitmap' = Reclaimed(dir[i])
    BY <1>7 DEF DeleteFile, First, Matches
  <2>2. op'.kind = "delete" /\ pc' = "reclaim"
    BY <1>7 DEF DeleteFile
  <2>3. QED
    BY <1>3, <1>4, <2>1, <2>2
<1>8. ASSUME DeleteDir(p) \/ Mkdir(p) PROVE Consistent'
  <2>1. /\ op'.kind \in {"delete", "mkdir"} /\ bitmap' = bitmap
        /\ pc' \in {"parents", "tombstone"}
        /\ pc' = "parents" => op'.kind = "mkdir"
    BY <1>8 DEF DeleteDir, Mkdir, ramVars
  <2>2. QED
    BY <1>1, <1>2, <1>3, <2>1
<1>9. ASSUME WriteRefused(p) \/ DeleteRefused(p) PROVE Consistent'
  <2>1. Return(FALSE) /\ bitmap' = bitmap
    BY <1>9 DEF WriteRefused, DeleteRefused, ramVars
  <2>2. QED
    BY <1>1, <1>2, <2>1, IdleConsistent
<1>10. QED
  BY <1>5, <1>6, <1>7, <1>8, <1>9

(* The allocation and data phase of a write: the run found free is disjoint    *)
(* from every file, and stays so while data and parents are written.          *)
LEMMA ExtentStepConsistent ==
  ASSUME Typed, Typed', Consistent, ~tainted',
         ReclaimFlush \/ Allocate \/ OutOfSpace \/ DataDone \/ DataFailed
  PROVE  Consistent'
<1> USE DEF Typed
<1>1. CASE ReclaimFlush
  <2>1. PICK sec \in pending, o \in Outcomes :
          dskBitmap' = FlushedBits(sec, o) /\ TaintIfLost(o)
    BY <1>1 DEF ReclaimFlush
  <2>2. o # "lost"
    BY <2>1, UntaintedTransfer DEF TypeOK
  <2>3. /\ UNCHANGED <<super, dskDir, dir, bitmap, op, slot>>
        /\ pc \in Calling /\ pc' \in {"reclaim", "tombstone", "alloc"}
        /\ op.kind \in {"overwrite", "delete"}
    BY <1>1 DEF ReclaimFlush, ramVars, Calling, OpAtStep
  <2>4. \A i \in Slots : i # slot => Extent(dskDir[i]) \subseteq dskBitmap'
    <3>1. \A i \in Slots : i # slot =>
            Extent(dskDir[i]) \subseteq dskBitmap /\ Extent(dskDir[i]) \subseteq bitmap
      BY <2>3, CallFacts
    <3>2. \A b \in Blocks : b \in dskBitmap /\ b \in bitmap => b \in dskBitmap'
      BY <2>1, <2>2, FlushedBitsTyped DEF TypeOK
    <3>3. bitmap \subseteq Blocks
      BY DEF TypeOK
    <3>4. QED
      BY <3>1, <3>2, <3>3
  <2>5. super /\ dskDir = dir /\ Disjoint(dir)
        /\ \A i \in Slots : i # slot => Extent(dir[i]) \subseteq bitmap
    BY <1>1, <2>3, CallFacts DEF ReclaimFlush
  <2>6. EmptyMemory' /\ Synced' /\ Reserved' /\ BitsBeforeEntry'
    BY <2>3, <2>5 DEF EmptyMemory, Opening, Synced, Reserved, BitsBeforeEntry, Writing
  <2>7. Covered(dir, bitmap)' /\ Covered(dskDir, dskBitmap)' /\ Disjoint(dir)'
        /\ Disjoint(dskDir)'
    BY <2>3, <2>4, <2>5 DEF Covered, GivenUp, Disjoint
  <2>8. QED
    BY <2>6, <2>7 DEF Consistent
<1>2. CASE Allocate
  <2>1. PICK s \in Blocks :
          /\ s \in FreeRuns(Nblocks(op.data)) /\ start' = s
          /\ bitmap' = bitmap \cup Run(s, Nblocks(op.data))
    BY <1>2 DEF Allocate, First
  <2>2. /\ UNCHANGED <<super, dskBitmap, dskDir, dir, op, slot>>
        /\ pc = "alloc" /\ pc' = "data" /\ pc \in Calling
    BY <1>2 DEF Allocate, diskVars, Calling
  <2>3. super /\ dskDir = dir /\ Disjoint(dir)
        /\ \A i \in Slots : i # slot => Extent(dir[i]) \subseteq bitmap
    BY <2>2, CallFacts
  <2>4. NewRun' = Run(s, Nblocks(op.data)) /\ NewRun' \subseteq Blocks \ bitmap
    BY <2>1, <2>2 DEF NewRun, FreeRuns
  <2>5. Reserved'
    BY <2>1, <2>2, <2>3, <2>4 DEF Reserved
  <2>6. Synced'
    BY <2>2, <2>3 DEF Synced, Consistent, Calling, Opening, Writing
  <2>7. Covered(dir, bitmap)' /\ Covered(dskDir, dskBitmap)'
    <3>1. Formatted
      BY <2>2, <2>3 DEF Formatted
    <3>2. QED
      BY <2>1, <2>2, <3>1 DEF Covered, GivenUp, Consistent
  <2>8. EmptyMemory' /\ BitsBeforeEntry' /\ Disjoint(dir)' /\ Disjoint(dskDir)'
    BY <2>2, <2>3 DEF EmptyMemory, Opening, BitsBeforeEntry, Disjoint
  <2>9. QED
    BY <2>5, <2>6, <2>7, <2>8 DEF Consistent
<1>3. CASE OutOfSpace
  <2>1. PICK o \in Outcomes : dskDir' = FlushedDir(dir', slot, o) /\ TaintIfLost(o)
    BY <1>3 DEF OutOfSpace
  <2>2. o # "lost"
    BY <2>1, UntaintedTransfer DEF TypeOK
  <2>3. /\ UNCHANGED <<super, dskBitmap, bitmap>> /\ Return(FALSE)
        /\ dir' = [dir EXCEPT ![slot] = DeletedEntry]
        /\ pc \in Calling /\ pc \notin {"bitmap", "entry"}
    BY <1>3 DEF OutOfSpace, Calling
  <2>4. super /\ dskDir = dir /\ Disjoint(dir)
        /\ \A i \in Slots : i # slot =>
             Extent(dir[i]) \subseteq bitmap /\ Extent(dir[i]) \subseteq dskBitmap
    BY <2>3, CallFacts
  <2>5. \A i \in Slots : Extent(dir'[i]) = IF i = slot THEN {} ELSE Extent(dir[i])
    BY <2>3, Extents DEF TypeOK
  <2>6. dskDir' = dir'
    <3>1. \A j \in Slots : j # slot => dskDir[j] = dir'[j]
      BY <2>3, <2>4 DEF TypeOK
    <3>2. QED
      BY <2>1, <2>2, <3>1, FlushSyncs DEF TypeOK
  <2>7. Disjoint(dir')
    BY <2>4, <2>5 DEF Disjoint
  <2>8. \A i \in Slots :
          Extent(dir'[i]) \subseteq bitmap' /\ Extent(dir'[i]) \subseteq dskBitmap'
    BY <2>3, <2>4, <2>5
  <2>9. QED
    BY <2>3, <2>4, <2>6, <2>7, <2>8, IdleConsistent
<1>4. CASE DataDone
  <2>1. /\ UNCHANGED <<super, dskBitmap, dskDir, dir, bitmap, op, slot, start>>
        /\ pc = "data" /\ pc' \in {"data", "parents"} /\ pc \in Calling
    BY <1>4 DEF DataDone, ramVars, Calling
  <2>2. super /\ dskDir = dir /\ Formatted
    BY <2>1, CallFacts DEF Formatted
  <2>3. EmptyMemory' /\ Synced' /\ BitsBeforeEntry'
    BY <2>1, <2>2 DEF EmptyMemory, Opening, Calling, Synced, BitsBeforeEntry, Consistent, Writing
  <2>4. Reserved'
    BY <2>1 DEF Reserved, NewRun, Consistent, Writing
  <2>5. Covered(dir, bitmap)' /\ Covered(dskDir, dskBitmap)' /\ Disjoint(dir)'
        /\ Disjoint(dskDir)'
    BY <2>1, <2>2 DEF Covered, GivenUp, Disjoint, Consistent
  <2>6. QED
    BY <2>3, <2>4, <2>5 DEF Consistent
<1>5. CASE DataFailed
  <2>1. /\ UNCHANGED <<super, dskBitmap, dskDir, dir, bitmap>> /\ Return(FALSE)
        /\ pc = "data" /\ pc \in Calling
    BY <1>5 DEF DataFailed, ramVars, Calling
  <2>2. op.kind = "create"
    BY <1>5, <2>1 DEF DataFailed, OpAtStep, Writing, TypeOK
  <2>3. super /\ dskDir = dir /\ Disjoint(dir)
        /\ \A i \in Slots :
             Extent(dir[i]) \subseteq bitmap /\ Extent(dskDir[i]) \subseteq dskBitmap
    BY <2>1, <2>2, CallFacts
  <2>4. Disjoint(dir')
    BY <2>1, <2>3
  <2>5. QED
    BY <2>1, <2>3, <2>4, IdleConsistent
<1>6. QED
  BY <1>1, <1>2, <1>3, <1>4, <1>5

(* The commit of a write: bits first, then the entry that names the blocks.    *)
LEMMA CommitStepConsistent ==
  ASSUME Typed, Typed', Consistent, ~tainted', SetEntry \/ BitmapFlush \/ EntryFlush
  PROVE  Consistent'
<1> USE DEF Typed
<1>1. CASE SetEntry
  <2>1. /\ UNCHANGED <<super, dskBitmap, dskDir, bitmap, op, slot, start>>
        /\ pc = "parents" /\ pc' = "bitmap" /\ pc \in Calling /\ Writing
        /\ dir' = [dir EXCEPT ![slot] = FileEntry(op.path, start, Nblocks(op.data))]
        /\ pending' = BitmapSectors(start, Nblocks(op.data))
    BY <1>1 DEF SetEntry, diskVars, Calling, Writing
  <2>2. super /\ dskDir = dir /\ Disjoint(dir) /\ Formatted
    BY <2>1, CallFacts DEF Formatted
  <2>3. \A i \in Slots : /\ i # slot => dir'[i] = dir[i]
                         /\ Extent(dir'[i]) = IF i = slot THEN NewRun ELSE Extent(dir[i])
    BY <2>1, Extents DEF TypeOK, NewRun
  <2>4. /\ NewRun \subseteq bitmap /\ NewRun' = NewRun
        /\ \A i \in Slots : i # slot => Extent(dir[i]) \cap NewRun = {}
    BY <2>1 DEF Consistent, Reserved, NewRun
  <2>5. EmptyMemory' /\ Reserved'
    BY <2>1, <2>3, <2>4 DEF EmptyMemory, Opening, Reserved, TypeOK
  <2>6. Synced'
    BY <2>1, <2>2, <2>3 DEF Synced, Consistent, Calling, Opening, Writing
  <2>7. BitsBeforeEntry'
    BY <2>1, <2>4 DEF BitsBeforeEntry, BitmapSectors, NewRun
  <2>8. Disjoint(dir)' /\ Disjoint(dskDir)'
    BY <2>1, <2>2, <2>3, <2>4 DEF Disjoint
  <2>9. Covered(dir, bitmap)' /\ Covered(dskDir, dskBitmap)'
    BY <2>1, <2>2, <2>3, <2>4 DEF Covered, GivenUp, Consistent
  <2>10. QED
    BY <2>5, <2>6, <2>7, <2>8, <2>9 DEF Consistent
<1>2. CASE BitmapFlush
  <2>1. PICK sec \in pending, o \in Outcomes :
          /\ dskBitmap' = FlushedBits(sec, o) /\ TaintIfLost(o)
          /\ pending' = pending \ {sec}
          /\ pc' = IF pending = {sec} THEN "entry" ELSE "bitmap"
    BY <1>2 DEF BitmapFlush
  <2>2. o # "lost"
    BY <2>1, UntaintedTransfer DEF TypeOK
  <2>3. /\ UNCHANGED <<super, dskDir, dir, bitmap, op, slot, start>>
        /\ pc = "bitmap" /\ pc' \in {"bitmap", "entry"} /\ pc \in Calling /\ Writing
    BY <1>2, <2>1 DEF BitmapFlush, ramVars, Calling, OpAtStep
  <2>4. \A b \in Blocks : b \in dskBitmap' <=>
                            IF BitSector(b) = sec THEN b \in bitmap ELSE b \in dskBitmap
    BY <2>1, <2>2, FlushedBitsTyped DEF TypeOK
  <2>5. NewRun \subseteq bitmap /\ NewRun' = NewRun /\ bitmap \subseteq Blocks
    BY <2>3 DEF Consistent, Reserved, NewRun, TypeOK
  <2>6. BitsBeforeEntry'
    <3>1. \A b \in NewRun : BitSector(b) \in pending \/ b \in dskBitmap
      BY <2>3 DEF Consistent, BitsBeforeEntry
    <3>2. \A b \in NewRun : BitSector(b) \in pending' \/ b \in dskBitmap'
      BY <2>1, <2>4, <2>5, <3>1
    <3>3. pc' = "entry" => pending' = {}
      BY <2>1
    <3>4. QED
      BY <2>5, <3>2, <3>3 DEF BitsBeforeEntry
  <2>7. EmptyMemory' /\ Synced' /\ Reserved'
    BY <2>3, <2>5 DEF EmptyMemory, Opening, Calling, Synced, Reserved, Consistent, Writing
  <2>8. Covered(dskDir, dskBitmap)'
    <3>1. \A i \in Slots : i # slot => Extent(dskDir[i]) \subseteq bitmap
                                     /\ Extent(dskDir[i]) \subseteq dskBitmap
      BY <2>3, CallFacts
    <3>2. \A i \in Slots : i # slot => Extent(dskDir[i]) \subseteq dskBitmap'
      BY <2>4, <2>5, <3>1
    <3>3. op.kind = "create" => Extent(dskDir[slot]) = {}
      BY <2>3 DEF Consistent, Synced
    <3>4. QED
      BY <2>3, <3>2, <3>3 DEF Covered, GivenUp, Writing
  <2>9. Covered(dir, bitmap)' /\ Disjoint(dir)' /\ Disjoint(dskDir)'
    BY <2>3, CallFacts DEF Covered, GivenUp, Disjoint, Consistent
  <2>10. QED
    BY <2>6, <2>7, <2>8, <2>9 DEF Consistent
<1>3. CASE EntryFlush
  <2>1. PICK o \in Outcomes : dskDir' = FlushedDir(dir, slot, o) /\ TaintIfLost(o)
    BY <1>3 DEF EntryFlush
  <2>2. o # "lost"
    BY <2>1, UntaintedTransfer DEF TypeOK
  <2>3. /\ UNCHANGED <<super, dskBitmap, bitmap, dir>> /\ Return(TRUE)
        /\ pc = "entry" /\ pc \in Calling
    BY <1>3 DEF EntryFlush, ramVars, Calling
  <2>4. dskDir' = dir
    BY <2>1, <2>2, <2>3, CallFacts, FlushSyncs DEF TypeOK
  <2>5. Extent(dir[slot]) \subseteq bitmap /\ Extent(dir[slot]) \subseteq dskBitmap
    <3>1. CASE Writing
      BY <2>3, <3>1 DEF Consistent, Reserved, BitsBeforeEntry
    <3>2. CASE ~Writing
      BY <2>3, <3>2 DEF Consistent, Synced
    <3>3. QED
      BY <3>1, <3>2
  <2>6. \A i \in Slots : Extent(dir[i]) \subseteq bitmap /\ Extent(dir[i]) \subseteq dskBitmap
    BY <2>3, <2>5, CallFacts
  <2>7. super /\ Disjoint(dir)
    BY <2>3, CallFacts
  <2>8. super' /\ dskDir' = dir' /\ Disjoint(dir')
    BY <2>3, <2>4, <2>7
  <2>9. QED
    BY <2>3, <2>6, <2>8, IdleConsistent
<1>4. QED
  BY <1>1, <1>2, <1>3

(* Directories and tombstones name no block.                                 *)
LEMMA TreeStepConsistent ==
  ASSUME Typed, Typed', Consistent, ~tainted',
         ParentSkipped \/ ParentCreated \/ Tombstone \/ MkdirDone \/ MkdirCreate
  PROVE  Consistent'
<1> USE DEF Typed
<1>1. CASE ParentSkipped
  <2>1. /\ UNCHANGED <<super, dskBitmap, dskDir, dir, bitmap, op, slot, start>>
        /\ pc = "parents" /\ pc' = pc /\ pc \in Calling
    BY <1>1 DEF ParentSkipped, diskVars, ramVars, Calling
  <2>2. super /\ Formatted
    BY <2>1, CallFacts DEF Formatted
  <2>3. EmptyMemory' /\ Synced' /\ Reserved' /\ BitsBeforeEntry'
    BY <2>1 DEF EmptyMemory, Opening, Calling, Synced, Reserved, NewRun, BitsBeforeEntry,
                Consistent, Writing
  <2>4. Covered(dir, bitmap)' /\ Covered(dskDir, dskBitmap)' /\ Disjoint(dir)'
        /\ Disjoint(dskDir)'
    BY <2>1, <2>2 DEF Covered, GivenUp, Disjoint, Consistent
  <2>5. QED
    BY <2>3, <2>4 DEF Consistent
<1>2. CASE ParentCreated
  <2>1. PICK i \in Slots, o \in Outcomes :
          /\ First(i, FreeSlots)
          /\ dir' = [dir EXCEPT ![i] = DirEntry(NextParent)]
          /\ dskDir' = FlushedDir(dir', i, o) /\ TaintIfLost(o)
    BY <1>2 DEF ParentCreated
  <2>2. o # "lost"
    BY <2>1, UntaintedTransfer DEF TypeOK
  <2>3. /\ UNCHANGED <<super, dskBitmap, bitmap, op, slot, start>>
        /\ pc = "parents" /\ pc' = pc /\ pc \in Calling
    BY <1>2 DEF ParentCreated, Calling
  <2>4. super /\ dskDir = dir /\ Disjoint(dir) /\ Formatted
    BY <2>3, CallFacts DEF Formatted
  <2>5. \A j \in Slots : /\ j # i => dir'[j] = dir[j]
                         /\ Extent(dir'[j]) = IF j = i THEN {} ELSE Extent(dir[j])
    BY <2>1, Extents DEF TypeOK
  <2>6. dskDir' = dir'
    <3>1. \A j \in Slots : j # i => dskDir[j] = dir'[j]
      BY <2>4, <2>5
    <3>2. dskDir \in [Slots -> Entry] /\ dir' \in [Slots -> Entry]
      BY DEF TypeOK
    <3>3. dskDir' = FlushedDir(dir', i, o)
      BY <2>1
    <3>4. QED
      BY <2>2, <3>1, <3>2, <3>3, FlushSyncs
  <2>7. EmptyMemory' /\ BitsBeforeEntry'
    BY <2>3 DEF EmptyMemory, Opening, Calling, BitsBeforeEntry
  <2>8. Reserved'
    BY <2>3, <2>5 DEF Reserved, NewRun, Consistent, Writing
  <2>9. Synced'
    BY <2>3, <2>4, <2>5, <2>6 DEF Synced, Consistent, Calling, Opening, Writing, TypeOK
  <2>10. Covered(dir, bitmap)' /\ Covered(dskDir, dskBitmap)'
    BY <2>3, <2>4, <2>5, <2>6 DEF Covered, GivenUp, Consistent
  <2>11. Disjoint(dir)' /\ Disjoint(dskDir)'
    BY <2>4, <2>5, <2>6 DEF Disjoint
  <2>12. QED
    BY <2>7, <2>8, <2>9, <2>10, <2>11 DEF Consistent
<1>3. CASE Tombstone
  <2>1. /\ UNCHANGED <<super, dskBitmap, dskDir, bitmap, op, slot, start>>
        /\ dir' = [dir EXCEPT ![slot] = DeletedEntry]
        /\ pc = "tombstone" /\ pc' = "entry" /\ pc \in Calling /\ op.kind = "delete"
    BY <1>3 DEF Tombstone, diskVars, callVars, Calling, OpAtStep
  <2>2. super /\ dskDir = dir /\ Disjoint(dir) /\ Formatted
    BY <2>1, CallFacts DEF Formatted
  <2>3. \A j \in Slots : /\ j # slot => dir'[j] = dir[j]
                         /\ Extent(dir'[j]) = IF j = slot THEN {} ELSE Extent(dir[j])
    BY <2>1, Extents DEF TypeOK
  <2>4. EmptyMemory' /\ BitsBeforeEntry' /\ Reserved' /\ Synced'
    BY <2>1, <2>2, <2>3 DEF EmptyMemory, Opening, BitsBeforeEntry, Reserved, Synced, Writing,
                            TypeOK
  <2>5. Covered(dir, bitmap)' /\ Covered(dskDir, dskBitmap)'
    BY <2>1, <2>2, <2>3 DEF Covered, GivenUp, Consistent
  <2>6. Disjoint(dir)' /\ Disjoint(dskDir)'
    BY <2>1, <2>2, <2>3 DEF Disjoint
  <2>7. QED
    BY <2>4, <2>5, <2>6 DEF Consistent
<1>4. CASE MkdirDone
  <2>1. /\ UNCHANGED <<super, dskBitmap, dskDir, bitmap, dir>>
        /\ pc = "parents" /\ pc \in Calling /\ op.kind = "mkdir"
    BY <1>4 DEF MkdirDone, diskVars, ramVars, Calling
  <2>2. super /\ dskDir = dir /\ Disjoint(dir)
    BY <2>1, CallFacts
  <2>3. /\ super' /\ dskDir' = dir' /\ Disjoint(dir')
        /\ \A i \in Slots :
             Extent(dir'[i]) \subseteq bitmap' /\ Extent(dir'[i]) \subseteq dskBitmap'
    BY <2>1, <2>2, CallFacts
  <2>4. Return(Matches(op.path) # {})
    BY <1>4 DEF MkdirDone
  <2>5. QED
    BY <2>3, <2>4, IdleConsistent
<1>5. CASE MkdirCreate
  <2>1. PICK i \in Slots : /\ slot' = i /\ dir' = [dir EXCEPT ![i] = DirEntry(op.path)]
    BY <1>5 DEF MkdirCreate
  <2>2. /\ UNCHANGED <<super, dskBitmap, dskDir, bitmap, op>>
        /\ pc = "parents" /\ pc' = "entry" /\ pc \in Calling /\ op.kind = "mkdir"
    BY <1>5 DEF MkdirCreate, diskVars, Calling
  <2>3. super /\ dskDir = dir /\ Disjoint(dir) /\ Formatted
        /\ \A j \in Slots :
              Extent(dir[j]) \subseteq bitmap /\ Extent(dskDir[j]) \subseteq dskBitmap
    BY <2>2, CallFacts DEF Formatted
  <2>4. \A j \in Slots : /\ j # i => dir'[j] = dir[j]
                         /\ Extent(dir'[j]) = IF j = i THEN {} ELSE Extent(dir[j])
    BY <2>1, Extents DEF TypeOK
  <2>5. EmptyMemory' /\ BitsBeforeEntry' /\ Reserved' /\ Synced'
    BY <2>1, <2>2, <2>3, <2>4 DEF EmptyMemory, Opening, BitsBeforeEntry, Reserved, Synced,
                                  Writing
  <2>6. Covered(dir, bitmap)' /\ Covered(dskDir, dskBitmap)'
    BY <2>2, <2>3, <2>4 DEF Covered
  <2>7. Disjoint(dir)' /\ Disjoint(dskDir)'
    BY <2>2, <2>3, <2>4 DEF Disjoint
  <2>8. QED
    BY <2>5, <2>6, <2>7 DEF Consistent
<1>6. QED
  BY <1>1, <1>2, <1>3, <1>4, <1>5

(* A restart outside the unprotected windows finds tables that agree.          *)
LEMMA OpenStepConsistent ==
  ASSUME Typed, Typed', Consistent, ~tainted', Restart \/ Open
  PROVE  Consistent'
<1> USE DEF Typed
<1>1. pc \in Opening => op.kind \notin {"overwrite", "delete"}
  BY DEF Consistent, Synced
<1>2. pc \in Opening => bitmap = {} /\ \A i \in Slots : dir[i] = EmptyEntry
  BY DEF Consistent, EmptyMemory
<1>3. (\A i \in Slots : dir'[i] = EmptyEntry) =>
        Covered(dir, bitmap)' /\ Disjoint(dir)' /\ (bitmap' = {} => EmptyMemory')
  BY Extents DEF Covered, Disjoint, EmptyMemory
<1>4. CASE Restart
  <2>1. /\ UNCHANGED <<super, dskBitmap, dskDir, op, slot, start>>
        /\ bitmap' = {} /\ \A i \in Slots : dir'[i] = EmptyEntry
        /\ pc' = "boot" /\ ~Unprotected
    BY <1>4 DEF Restart, diskVars, callVars
  <2>2. Synced' /\ Reserved' /\ BitsBeforeEntry'
    BY <2>1 DEF Synced, Reserved, BitsBeforeEntry, Calling, Unprotected, Writing
  <2>3. Formatted' => Disjoint(dskDir)' /\ Covered(dskDir, dskBitmap)'
    BY <2>1 DEF Formatted, Unprotected, Consistent, Disjoint, Covered, GivenUp
  <2>4. QED
    BY <1>3, <2>1, <2>2, <2>3 DEF Consistent
<1>5. CASE Mount
  <2>1. PICK o : /\ bitmap' = IF o = "noBitmap" THEN {} ELSE dskBitmap
                 /\ dir' = IF o = "noDir" THEN dir ELSE dskDir
                 /\ tainted' = (tainted \/ o # "done")
    BY <1>5 DEF Mount
  <2>2. bitmap' = dskBitmap /\ dir' = dskDir
    BY <2>1 DEF TypeOK
  <2>3. /\ UNCHANGED <<super, dskBitmap, dskDir>> /\ super /\ pc = "boot"
        /\ Return(result)
    BY <1>5 DEF Mount, diskVars
  <2>4. Disjoint(dskDir) /\ \A i \in Slots : Extent(dskDir[i]) \subseteq dskBitmap
    BY <1>1, <2>3 DEF Consistent, Formatted, Covered, GivenUp, Opening
  <2>5. /\ super' /\ dskDir' = dir' /\ Disjoint(dir')
        /\ \A i \in Slots :
             Extent(dir'[i]) \subseteq bitmap' /\ Extent(dir'[i]) \subseteq dskBitmap'
    BY <2>2, <2>3, <2>4
  <2>6. QED
    BY <2>3, <2>5, IdleConsistent
<1>6. CASE FormatBegin
  <2>1. /\ UNCHANGED <<super, dskBitmap, dskDir, op, slot, start>>
        /\ bitmap' = {} /\ \A i \in Slots : dir'[i] = EmptyEntry
        /\ pc = "boot" /\ pc' = "fmtSuper"
    BY <1>6 DEF FormatBegin, diskVars, callVars
  <2>2. Synced' /\ Reserved' /\ BitsBeforeEntry'
    BY <1>1, <2>1 DEF Synced, Reserved, BitsBeforeEntry, Calling, Opening
  <2>3. Formatted' => Disjoint(dskDir)' /\ Covered(dskDir, dskBitmap)'
    BY <2>1 DEF Formatted, Consistent, Disjoint, Covered, GivenUp
  <2>4. QED
    BY <1>3, <2>1, <2>2, <2>3 DEF Consistent
<1>7. CASE FormatSuper
  <2>1. PICK o \in Outcomes : super' = (super \/ o # "lost") /\ TaintIfLost(o)
    BY <1>7 DEF FormatSuper
  <2>2. super'
    BY <2>1, UntaintedTransfer DEF TypeOK
  <2>3. /\ UNCHANGED <<bitmap, dir, op>> /\ pc = "fmtSuper" /\ pc' = "fmtBitmap"
    BY <1>7 DEF FormatSuper, ramVars, callVars
  <2>4. Synced' /\ Reserved' /\ BitsBeforeEntry' /\ ~Formatted'
    BY <1>1, <2>2, <2>3
       DEF Synced, Reserved, BitsBeforeEntry, Calling, Opening, Formatted
  <2>5. bitmap' = {} /\ \A i \in Slots : dir'[i] = EmptyEntry
    BY <1>2, <2>3 DEF Opening
  <2>6. QED
    BY <1>3, <2>4, <2>5 DEF Consistent
<1>8. CASE FormatBitmap
  <2>1. /\ UNCHANGED <<super, bitmap, dir, op>> /\ pc = "fmtBitmap" /\ pc' = "fmtDir"
    BY <1>8 DEF FormatBitmap, ramVars, callVars
  <2>2. super
    BY <2>1 DEF Consistent, Synced
  <2>3. Synced' /\ Reserved' /\ BitsBeforeEntry' /\ ~Formatted'
    BY <1>1, <2>1, <2>2
       DEF Synced, Reserved, BitsBeforeEntry, Calling, Opening, Formatted
  <2>4. bitmap' = {} /\ \A i \in Slots : dir'[i] = EmptyEntry
    BY <1>2, <2>1 DEF Opening
  <2>5. QED
    BY <1>3, <2>3, <2>4 DEF Consistent
<1>9. CASE FormatDir
  <2>1. PICK o \in Outcomes :
          TaintIfLost(o) /\ dskDir' = IF o = "lost" THEN dskDir ELSE dir
    BY <1>9 DEF FormatDir
  <2>2. dskDir' = dir
    BY <2>1, UntaintedTransfer DEF TypeOK
  <2>3. /\ UNCHANGED <<super, dskBitmap, bitmap, dir>> /\ pc = "fmtDir" /\ Return(result)
    BY <1>9 DEF FormatDir, ramVars
  <2>4. super /\ \A i \in Slots : dir'[i] = EmptyEntry
    BY <1>2, <2>3 DEF Consistent, Synced, Opening
  <2>5. /\ super' /\ dskDir' = dir' /\ Disjoint(dir')
        /\ \A i \in Slots :
             Extent(dir'[i]) \subseteq bitmap' /\ Extent(dir'[i]) \subseteq dskBitmap'
    BY <2>2, <2>3, <2>4, Extents DEF Disjoint
  <2>6. QED
    BY <2>3, <2>5, IdleConsistent
<1>10. QED
  BY <1>4, <1>5, <1>6, <1>7, <1>8, <1>9 DEF Open

LEMMA StepConsistent ==
  ASSUME IInv, [Next]_vars
  PROVE  IInv'
<1>1. Typed'
  BY StepTyped DEF IInv
<1>2. CASE UNCHANGED vars
  BY <1>1, <1>2 DEF IInv, Consistent, EmptyMemory, Synced, Reserved, BitsBeforeEntry,
     NewRun, Disjoint, Covered, GivenUp, Formatted, Writing, vars, diskVars, ramVars,
     callVars, history
<1>3. ASSUME Next, ~tainted' PROVE Consistent'
  <2>1. Typed /\ Consistent
    BY <1>3, TaintStays DEF IInv, Typed
  <2>2. CASE Call
    <3>1. PICK p \in PathSet :
            \/ \E c \in Contents : WriteOver(p, c) \/ WriteNew(p, c)
            \/ WriteRefused(p)
            \/ DeleteFile(p) \/ DeleteDir(p) \/ DeleteRefused(p)
            \/ Mkdir(p)
      BY <2>2 DEF Call
    <3>2. QED
      BY <1>1, <2>1, <3>1, CallConsistent
  <2>3. CASE Step
    BY <1>1, <1>3, <2>1, <2>3, ExtentStepConsistent, CommitStepConsistent,
       TreeStepConsistent DEF Step
  <2>4. CASE Restart \/ Open
    BY <1>1, <1>3, <2>1, <2>4, OpenStepConsistent
  <2>5. QED
    BY <1>3, <2>2, <2>3, <2>4 DEF Next
<1>4. QED
  BY <1>1, <1>2, <1>3 DEF IInv

LEMMA InitConsistent == Init => IInv
<1> SUFFICES ASSUME Init PROVE IInv
  OBVIOUS
<1>1. Typed
  BY InitTyped
<1>2. \A i \in Slots : dir[i] = EmptyEntry
  BY DEF Init
<1>3. Disjoint(dir) /\ Covered(dir, bitmap)
  BY <1>2, Extents DEF Disjoint, Covered
<1>4. QED
  BY <1>1, <1>2, <1>3 DEF IInv, Init, Consistent, EmptyMemory, Synced, Reserved,
     BitsBeforeEntry, Formatted, Opening, Calling, Writing, NoOp

(* The inductive invariant of RPFS.                                          *)
LEMMA Inductive == Spec => []IInv
BY InitConsistent, StepConsistent, PTL DEF Spec

(* No two files share a data block, in memory or on the device: free_run and    *)
(* alloc_run never let an extent overlap one that is in use.                  *)
THEOREM ExtentsDisjoint == Spec => []NoSharedBlocks
<1>1. IInv => NoSharedBlocks
  BY DEF IInv, Consistent, NoSharedBlocks
<1>2. QED
  BY Inductive, <1>1, PTL

(* Every block of a live file is marked used, in memory and on the device, so    *)
(* neither alloc_run nor a remount can give it to another file.               *)
THEOREM BlocksStayReserved == Spec => []LiveBlocksUsed
<1>1. IInv => LiveBlocksUsed
  BY DEF IInv, Consistent, LiveBlocksUsed
<1>2. QED
  BY Inductive, <1>1, PTL

------------------------------------------------------------------------------
(***************************************************************************)
(* What callers of RPFS see, for every geometry, set of paths and contents.  *)
(*                                                                           *)
(* UniqueNames, RestartKeepsFiles and CreateIsAtomic are about names and     *)
(* data, and none of them is inductive: that a restart finds what the last   *)
(* call left rests on where a call in progress stands, which slot and which  *)
(* blocks it has written and which it has still to write.  Views says that   *)
(* next to the layout invariant of RpfsProofs; its last conjunct, that the   *)
(* device shows every path as the last call left it, is what the theorems    *)
(* follow from.                                                              *)
(*                                                                           *)
(* NoLeak and the refinement of FileStore also need what a fault or a cut    *)
(* call would break: exactly the owned blocks are used, and a device that    *)
(* was not formatted is blank (EInv, in the second half).                    *)
(***************************************************************************)

(* Slot i of a directory holds the active entry of a path. *)
Named(d, i, p) == d[i].trit = 1 /\ d[i].name = p

(* No path has two active entries in a directory. *)
NamesUnique(d) ==
  \A i, j \in Slots : d[i].trit = 1 /\ d[j].trit = 1 /\ d[i].name = d[j].name => i = j

(* The blocks from b on hold the content c.                                  *)
Stored(data, b, c) ==
  \A k \in 1 .. Nblocks(c) : b + k - 1 \in Blocks /\ data[b + k - 1] = <<c, k>>

(* What an entry of a path shows: a directory, or all blocks of a content. *)
ShownBy(data, e, v) ==
  \/ e.kind = "dir" /\ v = Directory
  \/ e.kind = "file" /\ v \in Contents /\ e.nblocks = Nblocks(v) /\ Stored(data, e.start, v)

(* What a reader of these blocks and entries finds at a path. *)
Shows(data, d, p, v) ==
  \/ v = NoFile /\ \A i \in Slots : ~Named(d, i, p)
  \/ \E i \in Slots : Named(d, i, p) /\ ShownBy(data, d[i], v)

(* The paths the call in progress does not rewrite. *)
Kept == IF op.kind \in {"overwrite", "delete"} THEN Bystanders ELSE PathSet

(* The call may have created directories above its path. *)
Adding == op.kind \in {"create", "overwrite", "mkdir"} /\ pc \notin {"reclaim", "alloc", "data"}

(* The device shows a path as the last call left it, or as a directory that
   the call has made above its own path. *)
Preserved(p) ==
  \/ Shows(dskData, dskDir, p, lastView[p])
  \/ Adding /\ IsBelow(op.path, p) /\ lastView[p] = NoFile /\ Shows(dskData, dskDir, p, Directory)

(* Names are unique in memory and on the device. *)
Unique ==
  /\ NamesUnique(dir)
  /\ Formatted => NamesUnique(dskDir)

(* What stood at the path of the call when it began. *)
Before ==
  /\ op.kind = "none" => op.path = <<>>
  /\ op.kind = "create" => op.path \in PathSet /\ lastView[op.path] = NoFile
  /\ op.kind = "overwrite" => lastView[op.path] \in Contents
  /\ op.kind = "delete" =>
       \/ lastView[op.path] \in Contents
       \/ /\ lastView[op.path] = Directory
          /\ \A q \in PathSet : IsBelow(q, op.path) => lastView[q] = NoFile
  /\ pc = "entry" /\ op.kind = "mkdir" => lastView[op.path] = NoFile

(* Whose entry the slot of the call holds on the device until it is written. *)
OwnSlot ==
  /\ pc \in Calling /\ op.kind \in {"overwrite", "delete"} => Named(dskDir, slot, op.path)
  /\ pc \in {"alloc", "data"} /\ op.kind = "create" => dskDir[slot].trit # 1
  /\ pc = "entry" /\ op.kind = "mkdir" => dskDir[slot].trit # 1
  /\ pc \in Calling /\ op.kind = "create" /\ dskDir[slot].trit = 1 =>
        IsBelow(op.path, dskDir[slot].name) /\ lastView[dskDir[slot].name] = NoFile

(* The entry that is about to be written. *)
NewEntry ==
  /\ pc \in {"bitmap", "entry"} /\ Writing =>
       dir[slot] = FileEntry(op.path, start, Nblocks(op.data))
  /\ pc = "entry" /\ op.kind = "delete" => dir[slot] = DeletedEntry
  /\ pc = "entry" /\ op.kind = "mkdir" => dir[slot] = DirEntry(op.path)

(* The blocks of the new content that are on the device. *)
Written ==
  /\ pc = "data" => \A k \in 1 .. Nblocks(op.data) :
                       k <= blk => start + k - 1 \in Blocks /\ dskData[start + k - 1] = <<op.data, k>>
  /\ pc \in {"parents", "bitmap", "entry"} /\ Writing => Stored(dskData, start, op.data)

(* The parts together. *)
Views ==
  /\ Unique /\ Before /\ OwnSlot /\ NewEntry /\ Written
  /\ Formatted => \A p \in Kept : Preserved(p)

-----------------------------------------------------------------------------
(* No path lies below itself, and nothing lies above the empty path.          *)
LEMMA NotBelowItself ==
  /\ \A p \in PathSet : ~IsBelow(p, p)
  /\ \A p : ~IsBelow(<<>>, p)
<1>1. ASSUME NEW p \in PathSet, IsBelow(p, p) PROVE FALSE
  <2>1. PICK k \in 1 .. Len(p) - 1 : SubSeq(p, 1, k) = p
    BY <1>1 DEF IsBelow, Ancestors, Ancestor
  <2>2. p \in Seq(STRING) /\ Len(p) \in Nat
    BY ContentsAssumption, RpfsAssumption
  <2>3. Len(SubSeq(p, 1, k)) = k
    BY <2>1, <2>2, SubSeqProperties
  <2>4. QED
    BY <2>1, <2>2, <2>3
<1>2. ASSUME NEW p, IsBelow(<<>>, p) PROVE FALSE
  BY <1>2 DEF IsBelow, Ancestors
<1>3. QED
  BY <1>1, <1>2

(* The blocks of one content are not those of another.                       *)
LEMMA Decoded ==
  ASSUME NEW c \in Contents
  PROVE  Decode(Image(c)) = c
<1>1. \A d \in Contents : Image(d) = Image(c) => d = c
  <2>1. ASSUME NEW d \in Contents, Image(d) = Image(c) PROVE d = c
    <3>1. Image(d)[1] = <<d, 1>> /\ Image(c)[1] = <<c, 1>>
      BY NblocksTyped DEF Image
    <3>2. QED
      BY <2>1, <3>1
  <2>2. QED
    BY <2>1
<1>2. (CHOOSE d \in Contents : Image(c) = Image(d)) = c
  BY <1>1
<1>3. QED
  BY <1>2 DEF Decode

(* A reader finds what the entries and the data blocks show.                 *)
LEMMA ReadBackIs ==
  dir \in [Slots -> Entry] /\ NamesUnique(dir) =>
    \A p \in PathSet : \A v : Shows(dskData, dir, p, v) => ReadBack(p) = v
<1> SUFFICES ASSUME dir \in [Slots -> Entry], NamesUnique(dir), NEW p \in PathSet,
                    NEW v, Shows(dskData, dir, p, v)
             PROVE  ReadBack(p) = v
  OBVIOUS
<1>1. CASE v = NoFile /\ \A i \in Slots : ~Named(dir, i, p)
  BY <1>1 DEF Named, Matches, ReadBack
<1>2. ASSUME NEW i \in Slots, Named(dir, i, p), ShownBy(dskData, dir[i], v)
      PROVE  ReadBack(p) = v
  <2>1. Matches(p) = {i}
    BY <1>2 DEF Matches, Named, NamesUnique
  <2>2. First(i, {i}) /\ \A j \in Slots : First(j, {i}) => j = i
    BY RpfsAssumption DEF First
  <2> DEFINE found == CHOOSE j \in Slots : First(j, Matches(p))
  <2>3. found = i
    BY <2>1, <2>2
  <2> DEFINE e == dir[i]
             b == [k \in 1 .. e.nblocks |-> IF e.start + k - 1 \in Blocks
                                            THEN dskData[e.start + k - 1] ELSE NoData]
             read(k) == LET x == dir[k] IN
               IF x.kind = "dir" THEN Directory
               ELSE Decode([n \in 1 .. x.nblocks |-> IF x.start + n - 1 \in Blocks
                                                     THEN dskData[x.start + n - 1] ELSE NoData])
  <2>4. ReadBack(p) = IF e.kind = "dir" THEN Directory ELSE Decode(b)
    <3>1. ReadBack(p) = read(found)
      BY <2>1 DEF ReadBack
    <3>2. read(i) = IF e.kind = "dir" THEN Directory ELSE Decode(b)
      OBVIOUS
    <3> HIDE DEF found, read, e, b
    <3>3. QED
      BY <2>3, <3>1, <3>2
  <2>5. CASE e.kind = "dir"
    BY <1>2, <2>4, <2>5 DEF ShownBy
  <2>6. CASE e.kind = "file"
    <3>1. v \in Contents /\ e.nblocks = Nblocks(v) /\ Stored(dskData, e.start, v)
      BY <1>2, <2>6 DEF ShownBy
    <3>2. b = Image(v)
      BY <3>1 DEF Stored, Image
    <3>3. QED
      BY <2>4, <2>6, <3>1, <3>2, Decoded
  <2>7. QED
    BY <2>5, <2>6, <1>2 DEF ShownBy
<1>3. QED
  BY <1>1, <1>2 DEF Shows

(* A call that returns leaves memory and device showing the same, and that is   *)
(* what the next reader will find.                                            *)
LEMMA ReturnViews ==
  ASSUME Typed', NEW r, Return(r), super', dskDir' = dir', NamesUnique(dir'),
         NEW f, \A p \in PathSet : Shows(dskData', dir', p, f[p])
  PROVE  /\ Views'
         /\ lastView' = [p \in PathSet |-> f[p]]
<1>1. lastView' = [p \in PathSet |-> ReadBack(p)']
  BY DEF Return, View
<1>2. \A p \in PathSet : ReadBack(p)' = f[p]
  <2>1. dir' \in [Slots -> Entry]
    BY DEF Typed, TypeOK
  <2>2. (dir \in [Slots -> Entry] /\ NamesUnique(dir) =>
          \A p \in PathSet : \A v : Shows(dskData, dir, p, v) => ReadBack(p) = v)'
    BY ReadBackIs, PTL
  <2>3. QED
    BY <2>1, <2>2 DEF NamesUnique, Shows
<1>3. lastView' = [p \in PathSet |-> f[p]]
  BY <1>1, <1>2
<1>4. pc' = "idle" /\ op' = NoOp
  BY DEF Return
<1>5. Before' /\ OwnSlot' /\ NewEntry' /\ Written' /\ Unique'
  BY <1>4 DEF Before, OwnSlot, NewEntry, Written, Unique, NoOp, Calling, Writing, NamesUnique
<1>6. \A p \in PathSet : Preserved(p)'
  BY <1>3 DEF Preserved
<1>7. QED
  BY <1>3, <1>4, <1>5, <1>6 DEF Views, Kept, NoOp
-----------------------------------------------------------------------------
(* With unique names the entry of a path is what shows at it.                *)
LEMMA EntryShows ==
  ASSUME NEW data, NEW d, NEW p, NEW v, NEW i \in Slots, NamesUnique(d), Named(d, i, p),
         Shows(data, d, p, v)
  PROVE  ShownBy(data, d[i], v)
BY DEF NamesUnique, Named, Shows

(* A path no entry names shows nothing, and no other does.                   *)
LEMMA NothingShows ==
  ASSUME NEW data, NEW d, NEW p, NEW v, Shows(data, d, p, v)
  PROVE  v = NoFile <=> \A i \in Slots : ~Named(d, i, p)
<1>1. NoFile # Directory /\ NoFile \notin Contents
  BY ContentsAssumption DEF NoFile, Directory
<1>2. QED
  BY <1>1 DEF Shows, ShownBy

(* What shows at a path stays if the entries that name it stay.              *)
LEMMA ShowsStill ==
  ASSUME NEW data, NEW d, NEW e, NEW p, NEW v, Shows(data, d, p, v),
         \A i \in Slots : Named(e, i, p) => e[i] = d[i],
         \A i \in Slots : Named(d, i, p) => e[i] = d[i]
  PROVE  Shows(data, e, p, v)
BY DEF Shows, Named

(* Between two calls a reader finds what the last call left.                 *)
LEMMA IdleViews ==
  ASSUME Typed, Consistent, Views, pc = "idle"
  PROVE  /\ super /\ dskDir = dir /\ NamesUnique(dir) /\ op.kind = "none"
         /\ \A p \in PathSet : Shows(dskData, dir, p, lastView[p])
<1>1. super /\ dskDir = dir /\ op.kind = "none"
  BY IdleFacts DEF Typed, OpAtStep
<1>2. Formatted /\ op.path = <<>>
  BY <1>1 DEF Formatted, Views, Before
<1>3. \A p \in PathSet : Preserved(p)
  BY <1>1, <1>2 DEF Views, Kept
<1>4. QED
  BY <1>1, <1>2, <1>3 DEF Preserved, Adding, Views, Unique

(* While a call runs, its path aside, the device shows what the last one left, *)
(* and at most more directories above the path.                              *)
LEMMA CallViewFacts ==
  ASSUME Typed, Consistent, Views, pc \in Calling
  PROVE  /\ super /\ NamesUnique(dir) /\ NamesUnique(dskDir) /\ op.path \in PathSet
         /\ \A p \in Kept : Preserved(p)
         /\ Bystanders \subseteq Kept
         /\ op.kind \notin {"overwrite", "delete"} =>
              op.path \in Kept /\ Shows(dskData, dskDir, op.path, lastView[op.path])
<1>1. super /\ Formatted
  BY CallFacts DEF Formatted, Calling
<1>2. op.path \in PathSet
  BY DEF Typed, OpAtStep
<1>3. op.kind \notin {"overwrite", "delete"} => op.path \in Kept /\ Preserved(op.path)
  BY <1>1, <1>2 DEF Views, Kept
<1>4. QED
  BY <1>1, <1>2, <1>3, NotBelowItself DEF Views, Unique, Kept, Bystanders, Preserved

(* A call that begins changes nothing that is shown. *)
LEMMA CallViews ==
  ASSUME Typed, Typed', Consistent, Views, NEW p \in PathSet,
         \/ \E c \in Contents : WriteOver(p, c) \/ WriteNew(p, c)
         \/ WriteRefused(p)
         \/ DeleteFile(p) \/ DeleteDir(p) \/ DeleteRefused(p)
         \/ Mkdir(p)
  PROVE  Views'
<1>1. pc = "idle" /\ UNCHANGED <<super, dskDir, dskData, dir>>
  BY DEF WriteOver, WriteNew, WriteRefused, DeleteFile, DeleteDir, DeleteRefused, Mkdir,
         diskVars, ramVars
<1>2. /\ super /\ dskDir = dir /\ NamesUnique(dir) /\ op.kind = "none"
      /\ \A q \in PathSet : Shows(dskData, dir, q, lastView[q])
  BY <1>1, IdleViews
<1>3. ASSUME pc' \in {"reclaim", "alloc", "parents", "tombstone"}, lastView' = lastView,
             pc' = "parents" => op'.kind = "mkdir", Before', OwnSlot'
      PROVE  Views'
  <2>1. Unique' /\ NewEntry' /\ Written'
    BY <1>1, <1>2, <1>3 DEF Unique, NewEntry, Written, NamesUnique, Writing, Typed, OpAtStep
  <2>2. \A q \in PathSet : Preserved(q)'
    BY <1>1, <1>2, <1>3 DEF Preserved
  <2>3. QED
    BY <1>3, <2>1, <2>2 DEF Views, Kept, Bystanders
<1>4. ASSUME NEW c \in Contents, WriteOver(p, c) PROVE Views'
  <2>1. PICK i \in Slots : Named(dir, i, p) /\ dir[i].kind = "file" /\ slot' = i
    BY <1>4 DEF WriteOver, First, Matches, Named
  <2>2. /\ op' = [kind |-> "overwrite", path |-> p, data |-> c]
        /\ pc' = "reclaim" /\ lastView' = lastView
    BY <1>4 DEF WriteOver, history
  <2>3. lastView[p] \in Contents
    BY <1>2, <2>1, EntryShows DEF ShownBy
  <2>4. QED
    BY <1>1, <1>2, <1>3, <2>1, <2>2, <2>3 DEF Before, OwnSlot, Named, Calling
<1>5. ASSUME NEW c \in Contents, WriteNew(p, c) PROVE Views'
  <2>1. PICK i \in Slots : dir[i].trit # 1 /\ slot' = i
    BY <1>5, FreeSlotInactive DEF WriteNew
  <2>2. /\ op' = [kind |-> "create", path |-> p, data |-> c]
        /\ pc' = "alloc" /\ lastView' = lastView
    BY <1>5 DEF WriteNew, history
  <2>3. lastView[p] = NoFile
    BY <1>2, <1>5, NothingShows DEF WriteNew, Matches, Named
  <2>4. QED
    BY <1>1, <1>2, <1>3, <2>1, <2>2, <2>3 DEF Before, OwnSlot, Named, Calling
<1>6. ASSUME DeleteFile(p) PROVE Views'
  <2>1. PICK i \in Slots : Named(dir, i, p) /\ dir[i].kind = "file" /\ slot' = i
    BY <1>6 DEF DeleteFile, First, Matches, Named
  <2>2. /\ op' = [kind |-> "delete", path |-> p, data |-> NoData]
        /\ pc' = "reclaim" /\ lastView' = lastView
    BY <1>6 DEF DeleteFile, history
  <2>3. lastView[p] \in Contents
    BY <1>2, <2>1, EntryShows DEF ShownBy
  <2>4. QED
    BY <1>1, <1>2, <1>3, <2>1, <2>2, <2>3 DEF Before, OwnSlot, Named, Calling
<1>7. ASSUME DeleteDir(p) PROVE Views'
  <2>1. PICK i \in Slots : Named(dir, i, p) /\ dir[i].kind = "dir" /\ slot' = i
    BY <1>7 DEF DeleteDir, First, Matches, Named
  <2>2. /\ op' = [kind |-> "delete", path |-> p, data |-> NoData]
        /\ pc' = "tombstone" /\ lastView' = lastView
    BY <1>7 DEF DeleteDir, history
  <2>3. lastView[p] = Directory
    BY <1>2, <2>1, EntryShows DEF ShownBy
  <2>4. \A q \in PathSet : IsBelow(q, p) => lastView[q] = NoFile
    BY <1>2, <1>7, NothingShows DEF DeleteDir, HasChild, Named
  <2>5. QED
    BY <1>1, <1>2, <1>3, <2>1, <2>2, <2>3, <2>4 DEF Before, OwnSlot, Named, Calling
<1>8. ASSUME Mkdir(p) PROVE Views'
  <2>1. /\ op' = [kind |-> "mkdir", path |-> p, data |-> NoData]
        /\ pc' = "parents" /\ lastView' = lastView
    BY <1>8 DEF Mkdir, history
  <2>2. QED
    BY <1>3, <2>1 DEF Before, OwnSlot
<1>9. ASSUME WriteRefused(p) \/ DeleteRefused(p) PROVE Views'
  <2>1. Return(FALSE)
    BY <1>9 DEF WriteRefused, DeleteRefused
  <2>2. super' /\ dskDir' = dir' /\ NamesUnique(dir')
        /\ \A q \in PathSet : Shows(dskData', dir', q, lastView[q])
    BY <1>1, <1>2
  <2>3. QED
    BY <2>1, <2>2, ReturnViews
<1>10. QED
  BY <1>4, <1>5, <1>6, <1>7, <1>8, <1>9
-----------------------------------------------------------------------------
(* Writing the new run leaves the blocks of every other file alone.           *)
LEMMA OthersKeepData ==
  ASSUME Typed, Consistent, pc = "data", NEW i \in Slots, IsFile(dir[i]),
         Extent(dir[i]) \cap NewRun = {}, NEW c \in Contents,
         dir[i].nblocks = Nblocks(c), Stored(dskData, dir[i].start, c)
  PROVE  Stored(WriteData, dir[i].start, c)
<1> DEFINE s == dir[i].start
<1>1. s \in Nat /\ start \in Nat /\ op.data \in Contents
  BY DEF Typed, TypeOK, Entry, OpAtStep, Writing
<1>2. ASSUME NEW k \in 1 .. Nblocks(c) PROVE WriteData[s + k - 1] = <<c, k>>
  <2>1. s + k - 1 \in Blocks /\ dskData[s + k - 1] = <<c, k>>
    BY DEF Stored
  <2>2. s + k - 1 \in Extent(dir[i])
    BY <1>1, NblocksTyped DEF Extent, Run
  <2>3. s + k - 1 \notin start .. start + Nblocks(op.data) - 1
    BY <2>2 DEF NewRun, Run
  <2>4. (s + k - 1) - start + 1 \notin 1 .. Nblocks(op.data)
    BY <1>1, <2>3, NblocksTyped
  <2>5. QED
    BY <2>1, <2>4 DEF WriteData, Chunk
<1>3. QED
  BY <1>2 DEF Stored

(* What another path shows stays while the new blocks are written.            *)
LEMMA DataShowsStill ==
  ASSUME Typed, Consistent, Views, pc = "data", NEW p \in Kept, NEW v,
         Shows(dskData, dir, p, v)
  PROVE  Shows(WriteData, dir, p, v)
<1>1. pc \in Calling /\ Writing /\ dskDir = dir
  BY CallFacts DEF Calling, Typed, OpAtStep
<1>2. \A i \in Slots : i # slot => Extent(dir[i]) \cap NewRun = {}
  BY <1>1 DEF Consistent, Reserved
<1>3. ~Named(dir, slot, p)
  BY <1>1 DEF Views, OwnSlot, Kept, Bystanders, Named, Writing
<1>4. CASE v = NoFile /\ \A i \in Slots : ~Named(dir, i, p)
  BY <1>4 DEF Shows
<1>5. ASSUME NEW i \in Slots, Named(dir, i, p), ShownBy(dskData, dir[i], v)
      PROVE  Shows(WriteData, dir, p, v)
  <2>1. Extent(dir[i]) \cap NewRun = {}
    BY <1>2, <1>3, <1>5
  <2>2. CASE dir[i].kind = "file" /\ v \in Contents /\ dir[i].nblocks = Nblocks(v)
             /\ Stored(dskData, dir[i].start, v)
    <3>1. IsFile(dir[i])
      BY <1>5, <2>2 DEF IsFile, Named
    <3>2. Stored(WriteData, dir[i].start, v)
      BY <2>1, <2>2, <3>1, OthersKeepData
    <3>3. QED
      BY <1>5, <2>2, <3>2 DEF Shows, ShownBy
  <2>3. CASE dir[i].kind = "dir" /\ v = Directory
    BY <1>5, <2>3 DEF Shows, ShownBy
  <2>4. QED
    BY <1>5, <2>2, <2>3 DEF ShownBy
<1>6. QED
  BY <1>4, <1>5 DEF Shows

(* The paths the call keeps are those of the next state while its call is.    *)
LEMMA StepViewsFrom ==
  ASSUME Typed, Consistent, Views, pc \in Calling, op' = op, super' = super,
         lastView' = lastView, Unique', Before', OwnSlot', NewEntry', Written',
         \A p \in Kept : Preserved(p) => Preserved(p)'
  PROVE  Views'
<1>1. \A p \in Kept : Preserved(p)
  BY CallViewFacts
<1>2. Kept' = Kept
  BY DEF Kept, Bystanders
<1>3. QED
  BY <1>1, <1>2 DEF Views

(* A full device costs an overwrite the old content and a creation nothing.   *)
LEMMA OutOfSpaceViews ==
  ASSUME Typed, Typed', Consistent, Views, ~tainted', OutOfSpace
  PROVE  /\ Views'
         /\ lastView' = [p \in PathSet |-> IF p = op.path THEN NoFile ELSE lastView[p]]
<1> USE DEF Typed
<1>1. PICK o \in Outcomes : dskDir' = FlushedDir(dir', slot, o) /\ TaintIfLost(o)
  BY DEF OutOfSpace
<1>2. o # "lost"
  BY <1>1, UntaintedTransfer DEF TypeOK
<1>3. /\ UNCHANGED <<super, dskData>> /\ Return(FALSE)
      /\ dir' = [dir EXCEPT ![slot] = DeletedEntry]
      /\ pc = "alloc" /\ pc \in Calling /\ Writing
  BY DEF OutOfSpace, Calling, OpAtStep
<1>4. super /\ dskDir = dir /\ NamesUnique(dir) /\ \A p \in Kept : Preserved(p)
  BY <1>3, CallFacts, CallViewFacts
<1>5. \A i \in Slots : dir'[i] = IF i = slot THEN DeletedEntry ELSE dir[i]
  BY <1>3 DEF TypeOK
<1>6. dskDir' = dir'
  <2>1. \A j \in Slots : j # slot => dskDir[j] = dir'[j]
    BY <1>4, <1>5
  <2>2. QED
    BY <1>1, <1>2, <2>1, FlushSyncs DEF TypeOK
<1>7. NamesUnique(dir')
  BY <1>4, <1>5 DEF NamesUnique, DeletedEntry, EmptyEntry
<1> DEFINE f == [p \in PathSet |-> IF p = op.path THEN NoFile ELSE lastView[p]]
<1>8. \A i \in Slots : \A p : Named(dir', i, p) <=> i # slot /\ Named(dir, i, p)
  BY <1>5 DEF Named, DeletedEntry, EmptyEntry
<1>9. ASSUME NEW p \in PathSet PROVE Shows(dskData', dir', p, f[p])
  <2>1. CASE p = op.path
    <3>1. \A i \in Slots : ~Named(dir', i, p)
      <4>1. CASE op.kind = "overwrite"
        <5>1. Named(dir, slot, p)
          BY <1>3, <1>4, <2>1, <4>1 DEF Views, OwnSlot
        <5>2. \A i \in Slots : Named(dir, i, p) => i = slot
          BY <1>4, <5>1 DEF NamesUnique, Named, TypeOK
        <5>3. QED
          BY <1>8, <5>2
      <4>2. CASE op.kind = "create"
        <5>1. Shows(dskData, dir, p, NoFile)
          BY <1>3, <1>4, <2>1, <4>2, CallViewFacts DEF Views, Before
        <5>2. QED
          BY <1>8, <5>1, NothingShows
      <4>3. QED
        BY <1>3, <4>1, <4>2 DEF Writing
    <3>2. QED
      BY <2>1, <3>1 DEF Shows
  <2>2. CASE p # op.path
    <3>1. Shows(dskData, dir, p, lastView[p])
      BY <1>3, <1>4, <2>2 DEF Preserved, Adding, Kept, Bystanders
    <3>2. ~Named(dir, slot, p)
      BY <1>3, <1>4, <2>2 DEF Views, OwnSlot, Named, Writing
    <3>3. Shows(dskData, dir', p, lastView[p])
      BY <1>5, <1>8, <3>1, <3>2, ShowsStill
    <3>4. QED
      BY <1>3, <2>2, <3>3
  <2>3. QED
    BY <2>1, <2>2
<1>10. Views' /\ lastView' = [p \in PathSet |-> f[p]]
  <2> HIDE DEF f
  <2>1. QED
    BY <1>3, <1>4, <1>6, <1>7, <1>9, ReturnViews
<1>11. QED
  BY <1>10

(* Giving the old run back, finding a new one and writing it. *)
LEMMA ExtentStepViews ==
  ASSUME Typed, Typed', Consistent, Views, ~tainted',
         ReclaimFlush \/ Allocate \/ OutOfSpace \/ DataDone \/ DataFailed
  PROVE  Views'
<1> USE DEF Typed
<1>1. CASE ReclaimFlush \/ Allocate
  <2>1. /\ UNCHANGED <<super, dskDir, dskData, dir, op, slot, lastView>>
        /\ pc \in {"reclaim", "alloc"} /\ pc' \in {"reclaim", "alloc", "tombstone", "data"}
        /\ pc = "alloc" => pc' = "data" /\ blk' = 0
        /\ pc = "reclaim" => op.kind \in {"overwrite", "delete"} /\ pc' # "data"
        /\ pc' = "tombstone" => op.kind = "delete"
        /\ pc \in Calling
    BY <1>1 DEF ReclaimFlush, Allocate, ramVars, diskVars, history, OpAtStep, Calling
  <2>2. Unique' /\ Before' /\ NewEntry'
    BY <2>1, CallViewFacts DEF Views, Unique, Before, NewEntry, NamesUnique
  <2>3. OwnSlot'
    BY <2>1 DEF Views, OwnSlot, Named, Calling
  <2>4. Written'
    BY <2>1, NblocksTyped DEF Written
  <2>5. \A p \in Kept : Preserved(p) => Preserved(p)'
    BY <2>1 DEF Preserved, Adding
  <2>6. QED
    BY <2>1, <2>2, <2>3, <2>4, <2>5, StepViewsFrom
<1>2. CASE OutOfSpace
  BY <1>2, OutOfSpaceViews
<1>3. CASE DataDone
  <2>1. /\ UNCHANGED <<super, dskDir, dir, op, slot, start, lastView>>
        /\ dskData' = WriteData
        /\ pc = "data" /\ pc' \in {"data", "parents"} /\ pc \in Calling /\ Writing
        /\ IF blk + ScratchSectors >= Nblocks(op.data)
             THEN pc' = "parents" /\ blk' = 0
             ELSE pc' = "data" /\ blk' = blk + ScratchSectors
    BY <1>3 DEF DataDone, ramVars, history, OpAtStep, Calling
  <2>2. dskDir = dir
    BY <2>1, CallFacts
  <2>3. Unique' /\ Before' /\ NewEntry' /\ OwnSlot'
    BY <2>1, CallViewFacts
       DEF Views, Unique, Before, NewEntry, OwnSlot, NamesUnique, Named, Calling
  <2>4. \A p \in Kept : Preserved(p) => Preserved(p)'
    BY <2>1, <2>2, DataShowsStill DEF Preserved, Adding
  <2>5. ASSUME NEW k \in 1 .. Nblocks(op.data), k <= blk + ScratchSectors
        PROVE  start + k - 1 \in Blocks /\ dskData'[start + k - 1] = <<op.data, k>>
    <3>1. start \in Nat /\ blk \in Nat /\ ScratchSectors \in Nat /\ op.data \in Contents
      BY <2>1, RpfsAssumption DEF TypeOK, OpAtStep
    <3>2. start + k - 1 \in Run(start, Nblocks(op.data))
      BY <3>1, NblocksTyped DEF Run
    <3>3. start + k - 1 \in Blocks
      <4>1. NewRun \subseteq bitmap /\ bitmap \subseteq Blocks
        BY <2>1 DEF Consistent, Reserved, TypeOK
      <4>2. QED
        BY <3>2, <4>1 DEF NewRun
    <3>4. (start + k - 1) - start + 1 = k
      BY <3>1, NblocksTyped
    <3>5. CASE k > blk
      BY <2>1, <2>5, <3>3, <3>4, <3>5 DEF WriteData, Chunk
    <3>6. CASE k <= blk
      <4>1. k \notin Chunk
        BY <3>1, <3>6, NblocksTyped DEF Chunk
      <4>2. dskData[start + k - 1] = <<op.data, k>>
        BY <2>1, <3>6 DEF Views, Written
      <4>3. QED
        BY <2>1, <3>3, <3>4, <4>1, <4>2 DEF WriteData
    <3>7. QED
      BY <3>1, <3>5, <3>6, NblocksTyped
  <2>6. Written'
    <3>1. blk + ScratchSectors \in Nat /\ Nblocks(op.data) \in Nat
      BY <2>1, RpfsAssumption, NblocksTyped DEF TypeOK, OpAtStep
    <3>2. CASE blk + ScratchSectors >= Nblocks(op.data)
      BY <2>1, <2>5, <3>1, <3>2 DEF Written, Stored
    <3>3. CASE ~(blk + ScratchSectors >= Nblocks(op.data))
      BY <2>1, <2>5, <3>1, <3>3 DEF Written
    <3>4. QED
      BY <3>2, <3>3
  <2>7. QED
    BY <2>1, <2>3, <2>4, <2>6, StepViewsFrom
<1>4. CASE DataFailed
  <2>1. /\ UNCHANGED <<super, dskDir, dir>> /\ Return(FALSE)
        /\ dskData' \in {dskData, WriteData}
        /\ pc = "data" /\ pc \in Calling
    BY <1>4 DEF DataFailed, ramVars, Calling
  <2>2. op.kind = "create"
    BY <1>4, <2>1 DEF DataFailed, OpAtStep, Writing, TypeOK
  <2>3. super /\ dskDir = dir /\ NamesUnique(dir)
    BY <2>1, CallFacts, CallViewFacts
  <2>4. ASSUME NEW p \in PathSet PROVE Shows(dskData', dir', p, lastView[p])
    <3>1. p \in Kept
      BY <2>2 DEF Kept
    <3>2. Shows(dskData, dir, p, lastView[p])
      BY <2>1, <2>3, <3>1, CallViewFacts DEF Preserved, Adding
    <3>3. QED
      BY <2>1, <3>1, <3>2, DataShowsStill
  <2>5. NamesUnique(dir')
    BY <2>1, <2>3
  <2>6. QED
    BY <2>1, <2>3, <2>4, <2>5, ReturnViews
<1>5. QED
  BY <1>1, <1>2, <1>3, <1>4
-----------------------------------------------------------------------------
(* What is at the path of the call once it is done.                          *)
NewValue ==
  IF Writing THEN op.data ELSE IF op.kind = "mkdir" THEN Directory ELSE NoFile

(* What memory shows at another path.                                        *)
Left(p) == IF Shows(dskData, dir, p, lastView[p]) THEN lastView[p] ELSE Directory

(* Before its last transfer a call has everything in place: the entry in       *)
(* memory shows the new value, every other path what it showed, but for        *)
(* parents that are there now.                                               *)
LEMMA ReadyViews ==
  ASSUME Typed, Consistent, Views, pc = "entry"
  PROVE  /\ Shows(dskData, dir, op.path, NewValue)
         /\ \A p \in Bystanders :
              \/ Shows(dskData, dir, p, lastView[p])
              \/ /\ op.kind # "delete" /\ IsBelow(op.path, p) /\ lastView[p] = NoFile
                 /\ Shows(dskData, dir, p, Directory)
<1> USE DEF Typed
<1>1. pc \in Calling /\ op.kind \in {"create", "overwrite", "delete", "mkdir"} /\ slot \in Slots
  BY DEF Calling, OpAtStep, TypeOK
<1>2. /\ NamesUnique(dir) /\ NamesUnique(dskDir) /\ op.path \in PathSet
      /\ \A i \in Slots : i # slot => dskDir[i] = dir[i]
      /\ \A p \in Bystanders : Preserved(p)
  BY <1>1, CallFacts, CallViewFacts
<1>3. Writing => /\ dir[slot] = FileEntry(op.path, start, Nblocks(op.data))
                 /\ Stored(dskData, start, op.data) /\ op.data \in Contents
  BY DEF Views, NewEntry, Written, OpAtStep
<1>4. /\ op.kind = "delete" => dir[slot] = DeletedEntry
      /\ op.kind = "mkdir" => dir[slot] = DirEntry(op.path)
  BY DEF Views, NewEntry
<1>5. Shows(dskData, dir, op.path, NewValue)
  <2>1. CASE Writing
    <3>1. Named(dir, slot, op.path) /\ ShownBy(dskData, dir[slot], op.data)
      BY <1>3, <2>1 DEF Named, ShownBy, FileEntry
    <3>2. QED
      BY <1>1, <2>1, <3>1 DEF Shows, NewValue
  <2>2. CASE op.kind = "mkdir"
    <3>1. Named(dir, slot, op.path) /\ ShownBy(dskData, dir[slot], Directory)
      BY <1>4, <2>2 DEF Named, ShownBy, DirEntry
    <3>2. QED
      BY <1>1, <2>2, <3>1 DEF Shows, NewValue, Writing
  <2>3. CASE op.kind = "delete"
    <3>1. Named(dskDir, slot, op.path)
      BY <1>1, <2>3 DEF Views, OwnSlot
    <3>2. \A i \in Slots : i # slot => ~Named(dir, i, op.path)
      BY <1>1, <1>2, <3>1 DEF NamesUnique, Named
    <3>3. ~Named(dir, slot, op.path)
      BY <1>4, <2>3 DEF Named, DeletedEntry, EmptyEntry
    <3>4. QED
      BY <2>3, <3>2, <3>3 DEF Shows, NewValue, Writing
  <2>4. QED
    BY <1>1, <2>1, <2>2, <2>3 DEF Writing
<1>6. ASSUME NEW p \in Bystanders
      PROVE  \/ Shows(dskData, dir, p, lastView[p])
             \/ /\ op.kind # "delete" /\ IsBelow(op.path, p) /\ lastView[p] = NoFile
                /\ Shows(dskData, dir, p, Directory)
  <2>1. ~Named(dir, slot, p)
    BY <1>1, <1>3, <1>4
       DEF Writing, Named, Bystanders, FileEntry, DirEntry, DeletedEntry, EmptyEntry
  <2>2. \A i \in Slots : Named(dir, i, p) => dir[i] = dskDir[i]
    BY <1>2, <2>1
  <2>3. CASE Named(dskDir, slot, p)
    <3>1. lastView[p] = NoFile
      BY <1>1, <2>3 DEF Views, OwnSlot, Named, Bystanders
    <3>2. \A i \in Slots : ~Named(dir, i, p)
      BY <1>1, <1>2, <2>1, <2>3 DEF NamesUnique, Named
    <3>3. QED
      BY <3>1, <3>2 DEF Shows
  <2>4. CASE ~Named(dskDir, slot, p)
    <3>1. \A i \in Slots : Named(dskDir, i, p) => dir[i] = dskDir[i]
      BY <1>2, <2>4
    <3>2. \A v : Shows(dskData, dskDir, p, v) => Shows(dskData, dir, p, v)
      BY <2>2, <3>1, ShowsStill
    <3>3. QED
      BY <1>2, <3>2 DEF Preserved, Adding
  <2>5. QED
    BY <2>3, <2>4
<1>7. QED
  BY <1>5, <1>6

(* The sector with the entry is written, or its transfer fails. *)
LEMMA EntryFlushViews ==
  ASSUME Typed, Typed', Consistent, Views, ~tainted', EntryFlush
  PROVE  /\ Views'
         /\ lastView' = [p \in PathSet |-> IF p = op.path THEN NewValue ELSE Left(p)]
<1> USE DEF Typed
<1>1. PICK o \in Outcomes : dskDir' = FlushedDir(dir, slot, o) /\ TaintIfLost(o)
  BY DEF EntryFlush
<1>2. o # "lost"
  BY <1>1, UntaintedTransfer DEF TypeOK
<1>3. UNCHANGED <<super, dskData, dir>> /\ Return(TRUE) /\ pc = "entry" /\ pc \in Calling
  BY DEF EntryFlush, ramVars, Calling
<1>4. super /\ NamesUnique(dir) /\ \A i \in Slots : i # slot => dskDir[i] = dir[i]
  BY <1>3, CallFacts, CallViewFacts
<1>5. dskDir' = dir
  BY <1>1, <1>2, <1>4, FlushSyncs DEF TypeOK
<1> DEFINE f == [p \in PathSet |-> IF p = op.path THEN NewValue ELSE Left(p)]
<1>6. ASSUME NEW p \in PathSet PROVE Shows(dskData', dir', p, f[p])
  <2>1. CASE p = op.path
    BY <1>3, <2>1, ReadyViews
  <2>2. CASE p # op.path
    BY <1>3, <2>2, ReadyViews DEF Left, Bystanders
  <2>3. QED
    BY <2>1, <2>2
<1>7. NamesUnique(dir') /\ super' /\ dskDir' = dir'
  BY <1>3, <1>4, <1>5
<1>8. Views' /\ lastView' = [p \in PathSet |-> f[p]]
  <2> HIDE DEF f
  <2>1. QED
    BY <1>3, <1>6, <1>7, ReturnViews
<1>9. QED
  BY <1>8

(* From the new entry in memory to the last transfer of the call. *)
LEMMA CommitStepViews ==
  ASSUME Typed, Typed', Consistent, Views, ~tainted', SetEntry \/ BitmapFlush \/ EntryFlush
  PROVE  Views'
<1> USE DEF Typed
<1>1. CASE SetEntry
  <2>1. /\ UNCHANGED <<super, dskDir, dskData, op, slot, start, lastView>>
        /\ dir' = [dir EXCEPT ![slot] = FileEntry(op.path, start, Nblocks(op.data))]
        /\ pc = "parents" /\ pc' = "bitmap" /\ pc \in Calling /\ Writing
    BY <1>1 DEF SetEntry, diskVars, history, Calling, Writing
  <2>2. dskDir = dir /\ NamesUnique(dir) /\ NamesUnique(dskDir)
    BY <2>1, CallFacts, CallViewFacts
  <2>3. \A i \in Slots : dir'[i] = IF i = slot THEN FileEntry(op.path, start, Nblocks(op.data))
                                               ELSE dir[i]
    BY <2>1 DEF TypeOK
  <2>4. \A i \in Slots : i # slot => ~Named(dir, i, op.path)
    <3>1. CASE op.kind = "create"
      <4>1. Shows(dskData, dir, op.path, NoFile)
        BY <2>1, <2>2, <3>1, CallViewFacts DEF Views, Before
      <4>2. QED
        BY <4>1, NothingShows
    <3>2. CASE op.kind = "overwrite"
      <4>1. Named(dir, slot, op.path)
        BY <2>1, <2>2, <3>2 DEF Views, OwnSlot
      <4>2. QED
        BY <2>2, <4>1 DEF NamesUnique, Named, TypeOK
    <3>3. QED
      BY <2>1, <3>1, <3>2 DEF Writing
  <2>5. NamesUnique(dir')
    BY <2>2, <2>3, <2>4 DEF NamesUnique, Named, FileEntry
  <2>6. Unique' /\ Before' /\ NewEntry' /\ Written' /\ OwnSlot'
    <3>1. Unique' /\ Before'
      BY <2>1, <2>2, <2>5 DEF Views, Unique, Before, NamesUnique, Writing
    <3>2. NewEntry' /\ Written'
      BY <2>1, <2>3 DEF Views, NewEntry, Written, Writing, TypeOK, Stored
    <3>3. OwnSlot'
      BY <2>1 DEF Views, OwnSlot, Named, Calling
    <3>4. QED
      BY <3>1, <3>2, <3>3
  <2>7. \A p \in Kept : Preserved(p) => Preserved(p)'
    BY <2>1 DEF Preserved, Adding
  <2>8. QED
    BY <2>1, <2>6, <2>7, StepViewsFrom
<1>2. CASE BitmapFlush
  <2>1. /\ UNCHANGED <<super, dskDir, dskData, dir, op, slot, start, lastView>>
        /\ pc = "bitmap" /\ pc' \in {"bitmap", "entry"} /\ pc \in Calling /\ Writing
    BY <1>2 DEF BitmapFlush, ramVars, Calling, OpAtStep
  <2>2. Unique' /\ Before' /\ NewEntry' /\ Written' /\ OwnSlot'
    <3>1. Unique' /\ Before'
      BY <2>1, CallViewFacts DEF Views, Unique, Before, NamesUnique, Writing
    <3>2. NewEntry' /\ Written'
      BY <2>1 DEF Views, NewEntry, Written, Writing, Stored
    <3>3. OwnSlot'
      BY <2>1 DEF Views, OwnSlot, Named, Calling, Writing
    <3>4. QED
      BY <3>1, <3>2, <3>3
  <2>3. \A p \in Kept : Preserved(p) => Preserved(p)'
    BY <2>1 DEF Preserved, Adding
  <2>4. QED
    BY <2>1, <2>2, <2>3, StepViewsFrom
<1>3. CASE EntryFlush
  BY <1>3, EntryFlushViews
<1>4. QED
  BY <1>1, <1>2, <1>3
-----------------------------------------------------------------------------
(* A directory that is made on the way shows where nothing was.               *)
LEMMA ParentShows ==
  ASSUME Typed, Consistent, Views, pc = "parents", MoreParents, Matches(NextParent) = {},
         NEW i \in Slots, dir[i].trit # 1, NEW d,
         \A j \in Slots : d[j] = IF j = i THEN DirEntry(NextParent) ELSE dir[j]
  PROVE  /\ NextParent \in Bystanders /\ IsBelow(op.path, NextParent)
         /\ NamesUnique(d) /\ lastView[NextParent] = NoFile
         /\ Shows(dskData, d, NextParent, Directory)
         /\ \A p, v : p # NextParent /\ Shows(dskData, dir, p, v) => Shows(dskData, d, p, v)
<1>1. pc \in Calling /\ dskDir = dir
  BY CallFacts DEF Calling
<1>2. NextParent \in PathSet /\ op.path \in PathSet /\ IsBelow(op.path, NextParent)
  <2>1. op.path \in PathSet /\ blk \in Nat
    BY <1>1 DEF Typed, TypeOK, OpAtStep
  <2>2. Len(op.path) \in Nat
    BY <2>1, RpfsAssumption
  <2>3. blk + 1 \in 1 .. Len(op.path) - 1
    BY <2>1, <2>2 DEF MoreParents
  <2>4. QED
    BY <2>1, <2>3, NextParentTyped DEF NextParent, IsBelow, Ancestors
<1>3. NextParent # op.path
  BY <1>2, NotBelowItself
<1>4. \A j \in Slots : ~Named(dir, j, NextParent)
  BY DEF Matches, Named
<1>5. lastView[NextParent] = NoFile
  <2>1. Preserved(NextParent)
    BY <1>1, <1>2, <1>3, CallViewFacts DEF Bystanders
  <2>2. QED
    BY <1>1, <1>4, <2>1, NothingShows DEF Preserved
<1>6. NamesUnique(d)
  <2>1. NamesUnique(dir)
    BY <1>1, CallViewFacts
  <2>2. QED
    BY <1>4, <2>1 DEF NamesUnique, Named, DirEntry
<1>7. Shows(dskData, d, NextParent, Directory)
  BY DEF Shows, Named, ShownBy, DirEntry
<1>8. ASSUME NEW p, NEW v, p # NextParent, Shows(dskData, dir, p, v)
      PROVE  Shows(dskData, d, p, v)
  <2>1. /\ \A j \in Slots : Named(d, j, p) => d[j] = dir[j]
        /\ \A j \in Slots : Named(dir, j, p) => d[j] = dir[j]
    BY <1>8 DEF Named, DirEntry
  <2>2. QED
    BY <1>8, <2>1, ShowsStill
<1>9. QED
  BY <1>2, <1>3, <1>5, <1>6, <1>7, <1>8 DEF Bystanders

(* A parent is made, in memory and on the device. *)
LEMMA ParentCreatedViews ==
  ASSUME Typed, Typed', Consistent, Views, ~tainted', ParentCreated
  PROVE  Views'
<1> USE DEF Typed
<1>1. PICK i \in Slots, o \in Outcomes :
        /\ First(i, FreeSlots)
        /\ dir' = [dir EXCEPT ![i] = DirEntry(NextParent)]
        /\ dskDir' = FlushedDir(dir', i, o) /\ TaintIfLost(o)
  BY DEF ParentCreated
<1>2. o # "lost"
  BY <1>1, UntaintedTransfer DEF TypeOK
<1>3. /\ UNCHANGED <<super, dskData, op, slot, start, lastView>>
      /\ pc = "parents" /\ pc' = pc /\ pc \in Calling /\ MoreParents
      /\ Matches(NextParent) = {}
  BY DEF ParentCreated, Calling
<1>4. dskDir = dir /\ dir[i].trit # 1
  BY <1>1, <1>3, CallFacts, FreeSlotInactive
<1>5. \A j \in Slots : dir'[j] = IF j = i THEN DirEntry(NextParent) ELSE dir[j]
  BY <1>1 DEF TypeOK
<1>6. dskDir' = dir'
  <2>1. \A j \in Slots : j # i => dskDir[j] = dir'[j]
    BY <1>4, <1>5
  <2>2. dskDir \in [Slots -> Entry] /\ dir' \in [Slots -> Entry]
    BY DEF TypeOK
  <2>3. QED
    BY ZenonT(60), <1>1, <1>2, <2>1, <2>2, FlushSyncs
<1>7. /\ NextParent \in Bystanders /\ IsBelow(op.path, NextParent)
      /\ NamesUnique(dir') /\ lastView[NextParent] = NoFile
      /\ Shows(dskData, dir', NextParent, Directory)
      /\ \A p, v : p # NextParent /\ Shows(dskData, dir, p, v) => Shows(dskData, dir', p, v)
  BY <1>3, <1>4, <1>5, ParentShows
<1>8. op.kind \in {"create", "overwrite", "mkdir"}
  BY <1>3 DEF TypeOK, OpAtStep, Calling
<1>9. Unique' /\ Before' /\ NewEntry' /\ Written'
  BY <1>3, <1>6, <1>7 DEF Views, Unique, Before, NewEntry, Written, NamesUnique, Writing, Stored
<1>10. OwnSlot'
  <2>1. op.kind = "overwrite" => Named(dskDir', slot, op.path)
    <3>1. op.kind = "overwrite" => Named(dir, slot, op.path)
      BY <1>3, <1>4 DEF Views, OwnSlot
    <3>2. QED
      BY <1>4, <1>5, <1>6, <3>1 DEF Named, TypeOK
  <2>2. dskDir'[slot] = IF slot = i THEN DirEntry(NextParent) ELSE dskDir[slot]
    BY <1>4, <1>5, <1>6 DEF TypeOK
  <2>3. op.kind = "create" /\ dskDir'[slot].trit = 1 =>
           IsBelow(op.path, dskDir'[slot].name) /\ lastView[dskDir'[slot].name] = NoFile
    BY <1>3, <1>7, <2>2 DEF Views, OwnSlot, DirEntry
  <2>4. QED
    BY <1>3, <1>8, <2>1, <2>3 DEF OwnSlot
<1>11. ASSUME NEW p \in Kept, Preserved(p) PROVE Preserved(p)'
  <2>1. CASE p = NextParent
    BY <1>3, <1>6, <1>7, <1>8, <2>1 DEF Preserved, Adding
  <2>2. CASE p # NextParent
    BY <1>3, <1>4, <1>6, <1>7, <1>11, <2>2 DEF Preserved, Adding
  <2>3. QED
    BY <2>1, <2>2
<1>12. QED
  BY <1>3, <1>9, <1>10, <1>11, StepViewsFrom

(* A mkdir that finds its directory, or no slot for it, changes nothing more.  *)
LEMMA MkdirDoneViews ==
  ASSUME Typed, Typed', Consistent, Views, MkdirDone
  PROVE  /\ Views'
         /\ lastView' = [p \in PathSet |-> Left(p)]
         /\ Left(op.path) = lastView[op.path]
<1> USE DEF Typed
<1>1. /\ UNCHANGED <<super, dskDir, dskData, dir>>
      /\ pc = "parents" /\ pc \in Calling /\ op.kind = "mkdir"
  BY DEF MkdirDone, diskVars, ramVars, Calling
<1>2. /\ super /\ dskDir = dir /\ NamesUnique(dir)
      /\ \A p \in PathSet : Preserved(p)
      /\ Shows(dskData, dir, op.path, lastView[op.path])
  BY <1>1, CallFacts, CallViewFacts DEF Kept
<1> DEFINE f == [p \in PathSet |-> Left(p)]
<1>3. \A p \in PathSet : Shows(dskData', dir', p, f[p])
  BY <1>1, <1>2 DEF Left, Preserved
<1>4. NamesUnique(dir') /\ super' /\ dskDir' = dir'
  BY <1>1, <1>2
<1>5. PICK r \in BOOLEAN : Return(r)
  BY DEF MkdirDone
<1>6. Views' /\ lastView' = [p \in PathSet |-> f[p]]
  <2> HIDE DEF f
  <2>1. QED
    BY <1>3, <1>4, <1>5, ReturnViews
<1>7. QED
  BY <1>2, <1>6 DEF Left

(* The steps of mkdir, of the parents and of a delete. *)
LEMMA TreeStepViews ==
  ASSUME Typed, Typed', Consistent, Views, ~tainted',
         ParentSkipped \/ ParentCreated \/ Tombstone \/ MkdirDone \/ MkdirCreate
  PROVE  Views'
<1> USE DEF Typed
<1>1. CASE ParentSkipped
  <2>1. /\ UNCHANGED <<super, dskDir, dskData, dir, op, slot, start, lastView>>
        /\ pc = "parents" /\ pc' = pc /\ pc \in Calling
    BY <1>1 DEF ParentSkipped, diskVars, ramVars, history, Calling
  <2>2. Unique' /\ Before' /\ NewEntry' /\ Written' /\ OwnSlot'
    <3>1. Unique' /\ Before'
      BY <2>1, CallViewFacts DEF Views, Unique, Before, NamesUnique
    <3>2. NewEntry' /\ Written'
      BY <2>1 DEF Views, NewEntry, Written, Writing, Stored
    <3>3. OwnSlot'
      BY <2>1 DEF Views, OwnSlot, Named, Calling
    <3>4. QED
      BY <3>1, <3>2, <3>3
  <2>3. \A p \in Kept : Preserved(p) => Preserved(p)'
    BY <2>1 DEF Preserved, Adding
  <2>4. QED
    BY <2>1, <2>2, <2>3, StepViewsFrom
<1>2. CASE ParentCreated
  BY <1>2, ParentCreatedViews
<1>3. CASE Tombstone
  <2>1. /\ UNCHANGED <<super, dskDir, dskData, op, slot, start, lastView>>
        /\ dir' = [dir EXCEPT ![slot] = DeletedEntry]
        /\ pc = "tombstone" /\ pc' = "entry" /\ pc \in Calling /\ op.kind = "delete"
    BY <1>3 DEF Tombstone, diskVars, callVars, history, Calling, OpAtStep
  <2>2. NamesUnique(dir')
    <3>1. \A i \in Slots : dir'[i] = IF i = slot THEN DeletedEntry ELSE dir[i]
      BY <2>1 DEF TypeOK
    <3>2. NamesUnique(dir)
      BY <2>1, CallViewFacts
    <3>3. QED
      BY <3>1, <3>2 DEF NamesUnique, DeletedEntry, EmptyEntry
  <2>3. Unique' /\ Before' /\ NewEntry' /\ Written' /\ OwnSlot'
    <3>1. Unique' /\ Before'
      BY <2>1, <2>2, CallViewFacts DEF Views, Unique, Before, NamesUnique
    <3>2. NewEntry' /\ Written'
      BY <2>1 DEF NewEntry, Written, Writing, TypeOK
    <3>3. OwnSlot'
      BY <2>1 DEF Views, OwnSlot, Named, Calling
    <3>4. QED
      BY <3>1, <3>2, <3>3
  <2>4. \A p \in Kept : Preserved(p) => Preserved(p)'
    BY <2>1 DEF Preserved, Adding
  <2>5. QED
    BY <2>1, <2>3, <2>4, StepViewsFrom
<1>4. CASE MkdirDone
  BY <1>4, MkdirDoneViews
<1>5. CASE MkdirCreate
  <2>1. PICK i \in Slots : /\ First(i, FreeSlots) /\ slot' = i
                           /\ dir' = [dir EXCEPT ![i] = DirEntry(op.path)]
    BY <1>5 DEF MkdirCreate
  <2>2. /\ UNCHANGED <<super, dskDir, dskData, op, lastView>> /\ Matches(op.path) = {}
        /\ pc = "parents" /\ pc' = "entry" /\ pc \in Calling /\ op.kind = "mkdir"
    BY <1>5 DEF MkdirCreate, diskVars, history, Calling
  <2>3. dskDir = dir /\ NamesUnique(dir) /\ NamesUnique(dskDir) /\ dir[i].trit # 1
    BY <2>1, <2>2, CallFacts, CallViewFacts, FreeSlotInactive
  <2>4. \A j \in Slots : dir'[j] = IF j = i THEN DirEntry(op.path) ELSE dir[j]
    BY <2>1 DEF TypeOK
  <2>5. lastView[op.path] = NoFile
    BY <2>2, <2>3, CallViewFacts, NothingShows DEF Matches, Named
  <2>6. NamesUnique(dir')
    BY <2>2, <2>3, <2>4 DEF NamesUnique, DirEntry, Matches
  <2>7. Unique' /\ Before' /\ NewEntry' /\ Written' /\ OwnSlot'
    <3>1. Unique' /\ Before'
      BY <2>2, <2>3, <2>5, <2>6 DEF Views, Unique, Before, NamesUnique
    <3>2. NewEntry' /\ Written'
      BY <2>1, <2>2, <2>4 DEF NewEntry, Written, Writing
    <3>3. OwnSlot'
      BY <2>1, <2>2, <2>3 DEF OwnSlot, Named, Calling
    <3>4. QED
      BY <3>1, <3>2, <3>3
  <2>8. \A p \in Kept : Preserved(p) => Preserved(p)'
    BY <2>2 DEF Preserved, Adding
  <2>9. QED
    BY <2>2, <2>7, <2>8, StepViewsFrom
<1>6. QED
  BY <1>1, <1>2, <1>3, <1>4, <1>5
-----------------------------------------------------------------------------
(* An empty directory shows nothing.                                         *)
LEMMA EmptyShowsNothing ==
  ASSUME NEW d, \A i \in Slots : d[i] = EmptyEntry
  PROVE  /\ NamesUnique(d)
         /\ \A data, p : Shows(data, d, p, NoFile)
BY DEF NamesUnique, Shows, Named, EmptyEntry

(* What a restart finds once the tables are read: every path as the last call   *)
(* left it, but for directories above the path of a call that was cut.        *)
LEMMA MountViews ==
  ASSUME Typed, Typed', Consistent, Views, ~tainted', Mount
  PROVE  /\ Views'
         /\ lastView' = [p \in PathSet |->
                           IF Shows(dskData, dskDir, p, lastView[p]) THEN lastView[p]
                           ELSE Directory]
         /\ \A p \in PathSet : Preserved(p)
         /\ op.kind = "create" => Shows(dskData, dskDir, op.path, NoFile)
<1> USE DEF Typed
<1>1. PICK o : /\ dir' = IF o = "noDir" THEN dir ELSE dskDir
               /\ tainted' = (tainted \/ o # "done")
  BY DEF Mount
<1>2. /\ UNCHANGED <<super, dskDir, dskData>> /\ super /\ pc = "boot"
      /\ Return(result) /\ dir' = dskDir
  BY <1>1 DEF Mount, diskVars, TypeOK
<1>3. op.kind \notin {"overwrite", "delete"} /\ Formatted
  BY <1>2 DEF Consistent, Synced, Opening, Formatted
<1>4. /\ NamesUnique(dskDir)
      /\ \A p \in PathSet : Preserved(p)
  BY <1>3 DEF Views, Unique, Kept
<1> DEFINE f == [p \in PathSet |-> IF Shows(dskData, dskDir, p, lastView[p])
                                   THEN lastView[p] ELSE Directory]
<1>5. \A p \in PathSet : Shows(dskData', dir', p, f[p])
  BY <1>2, <1>4 DEF Preserved
<1>6. NamesUnique(dir') /\ super' /\ dskDir' = dir'
  BY <1>2, <1>4
<1>7. Views' /\ lastView' = [p \in PathSet |-> f[p]]
  <2> HIDE DEF f
  <2>1. QED
    BY <1>2, <1>5, <1>6, ReturnViews DEF TypeOK
<1>8. op.kind = "create" => Shows(dskData, dskDir, op.path, NoFile)
  <2>1. ASSUME op.kind = "create" PROVE Shows(dskData, dskDir, op.path, NoFile)
    <3>1. op.path \in PathSet /\ lastView[op.path] = NoFile
      BY <2>1 DEF Views, Before
    <3>2. QED
      BY <1>4, <3>1, NotBelowItself DEF Preserved
  <2>2. QED
    BY <2>1
<1>9. QED
  BY <1>4, <1>7, <1>8

(* Mount, format and restart. *)
LEMMA OpenStepViews ==
  ASSUME Typed, Typed', Consistent, Views, ~tainted', Restart \/ Open
  PROVE  Views'
<1> USE DEF Typed
<1>1. pc \in Opening => /\ op.kind \notin {"overwrite", "delete"}
                        /\ \A i \in Slots : dir[i] = EmptyEntry
  BY DEF Consistent, Synced, EmptyMemory
<1>2. CASE Restart \/ FormatBegin
  <2>1. /\ UNCHANGED <<super, dskDir, dskData, op, lastView>>
        /\ \A i \in Slots : dir'[i] = EmptyEntry
        /\ pc' \in {"boot", "fmtSuper"}
        /\ op.kind \notin {"overwrite", "delete"}
        /\ Formatted' => Formatted
    <3>1. CASE Restart
      <4>1. ~Unprotected
        BY <3>1 DEF Restart
      <4>2. op.kind \notin {"overwrite", "delete"} /\ (Formatted' => Formatted)
        BY <3>1, <4>1 DEF Restart, Unprotected, Formatted, diskVars
      <4>3. QED
        BY <3>1, <4>2 DEF Restart, diskVars, callVars
    <3>2. CASE FormatBegin
      BY <1>1, <3>2 DEF FormatBegin, Opening, Formatted, diskVars, callVars
    <3>3. QED
      BY <1>2, <3>1, <3>2
  <2>2. Unique'
    BY <2>1, EmptyShowsNothing DEF Views, Unique, NamesUnique
  <2>3. Before' /\ OwnSlot' /\ NewEntry' /\ Written'
    BY <2>1 DEF Views, Before, OwnSlot, NewEntry, Written, Calling
  <2>4. Formatted => \A p \in PathSet : Preserved(p)'
    BY <2>1 DEF Views, Kept, Preserved, Adding
  <2>5. QED
    BY <2>1, <2>2, <2>3, <2>4 DEF Views, Kept
<1>3. CASE Mount
  BY <1>3, MountViews
<1>4. CASE FormatSuper \/ FormatBitmap
  <2>1. /\ UNCHANGED <<dir, op, lastView>> /\ pc' \in {"fmtBitmap", "fmtDir"}
        /\ pc \in Opening
    BY <1>4 DEF FormatSuper, FormatBitmap, ramVars, callVars, Opening
  <2>2. Unique'
    BY <1>1, <2>1, EmptyShowsNothing DEF Unique, Formatted, NamesUnique
  <2>3. Before' /\ OwnSlot' /\ NewEntry' /\ Written'
    BY <2>1 DEF Views, Before, OwnSlot, NewEntry, Written, Calling
  <2>4. QED
    BY <2>1, <2>2, <2>3 DEF Views, Formatted
<1>5. CASE FormatDir
  <2>1. PICK o \in Outcomes : TaintIfLost(o) /\ dskDir' = IF o = "lost" THEN dskDir ELSE dir
    BY <1>5 DEF FormatDir
  <2>2. dskDir' = dir
    BY <2>1, UntaintedTransfer DEF TypeOK
  <2>3. UNCHANGED <<super, dir>> /\ pc = "fmtDir" /\ Return(result) /\ super
    BY <1>5 DEF FormatDir, ramVars, Consistent, Synced
  <2>4. \A i \in Slots : dir'[i] = EmptyEntry
    BY <1>1, <2>3 DEF Opening
  <2> DEFINE f == [p \in PathSet |-> NoFile]
  <2>5. \A p \in PathSet : Shows(dskData', dir', p, f[p])
    BY <2>4, EmptyShowsNothing
  <2>6. NamesUnique(dir') /\ super' /\ dskDir' = dir'
    BY <2>2, <2>3, <2>4, EmptyShowsNothing
  <2> HIDE DEF f
  <2>7. QED
    BY <2>3, <2>5, <2>6, ReturnViews DEF TypeOK
<1>6. QED
  BY <1>2, <1>3, <1>4, <1>5 DEF Open
-----------------------------------------------------------------------------
(* The invariant: that of the layout, and what is shown. *)
VInv == IInv /\ (~tainted => Views)

(* A device before its first boot. *)
LEMMA InitViews == Init => VInv
<1> SUFFICES ASSUME Init PROVE VInv
  OBVIOUS
<1>1. \A i \in Slots : dir[i] = EmptyEntry
  BY DEF Init
<1>2. NamesUnique(dir)
  BY <1>1, EmptyShowsNothing
<1>3. QED
  BY <1>2, InitConsistent DEF Init, VInv, Views, Unique, Before, OwnSlot, NewEntry, Written,
     Formatted, Calling, NoOp

(* Every step keeps the invariant. *)
LEMMA StepViews == VInv /\ [Next]_vars => VInv'
<1> SUFFICES ASSUME VInv, [Next]_vars PROVE VInv'
  OBVIOUS
<1>1. IInv'
  BY StepConsistent DEF VInv
<1>2. CASE UNCHANGED vars
  <2>1. /\ UNCHANGED <<super, dskDir, dskData, dir, pc, op, slot, start, blk>>
        /\ UNCHANGED <<lastView, tainted>>
    BY <1>2 DEF vars, diskVars, ramVars, callVars, history
  <2>2. Unique' = Unique /\ Before' = Before /\ OwnSlot' = OwnSlot /\ NewEntry' = NewEntry
    BY <2>1 DEF Unique, Before, OwnSlot, NewEntry, NamesUnique, Named, Formatted, Writing
  <2>3. Written' = Written /\ Formatted' = Formatted /\ Kept' = Kept
    BY <2>1 DEF Written, Stored, Formatted, Kept, Bystanders, Writing
  <2>4. \A p : Preserved(p)' = Preserved(p)
    BY <2>1 DEF Preserved, Adding
  <2>5. QED
    BY <1>1, <2>1, <2>2, <2>3, <2>4 DEF VInv, Views
<1>3. ASSUME Next, ~tainted' PROVE Views'
  <2>1. Typed /\ Typed' /\ Consistent /\ Views
    BY <1>1, <1>3, TaintStays DEF VInv, IInv, Typed
  <2>2. CASE Call
    <3>1. PICK p \in PathSet :
            \/ \E c \in Contents : WriteOver(p, c) \/ WriteNew(p, c)
            \/ WriteRefused(p)
            \/ DeleteFile(p) \/ DeleteDir(p) \/ DeleteRefused(p)
            \/ Mkdir(p)
      BY <2>2 DEF Call
    <3>2. QED
      BY <2>1, <3>1, CallViews
  <2>3. CASE Step
    BY <1>3, <2>1, <2>3, ExtentStepViews, CommitStepViews, TreeStepViews DEF Step
  <2>4. CASE Restart \/ Open
    BY <1>3, <2>1, <2>4, OpenStepViews
  <2>5. QED
    BY <1>3, <2>2, <2>3, <2>4 DEF Next
<1>4. QED
  BY <1>1, <1>2, <1>3 DEF VInv

(* The invariant holds throughout. *)
LEMMA ViewsInductive == Spec => []VInv
BY InitViews, StepViews, PTL DEF Spec

(* UniqueNames: no path ever has two active entries, whatever calls find, write,
   fail to write or are cut by a restart (create, overwrite, mkdir, delete of rpfs.rs). *)
THEOREM NamesStayUnique == Spec => []UniqueNames
<1>1. VInv => UniqueNames
  BY DEF VInv, Views, Unique, NamesUnique, UniqueNames, Matches
<1>2. QED
  BY ViewsInductive, <1>1, PTL

(* From the boot code only Mount reaches a mounted filesystem without a format. *)
LEMMA OnlyMountOpens ==
  ASSUME VInv, [Next]_vars, pc = "boot", pc' = "idle", ~tainted'
  PROVE  /\ Mount /\ View' = lastView'
         /\ Typed /\ Typed' /\ Consistent /\ Views
<1>1. Mount
  BY DEF Next, Call, Step, Open, WriteOver, WriteNew, WriteRefused, DeleteFile,
     DeleteDir, DeleteRefused, Mkdir, ReclaimFlush, Allocate, OutOfSpace, DataDone,
     DataFailed, ParentSkipped, ParentCreated, SetEntry, BitmapFlush, EntryFlush,
     Tombstone, MkdirDone, MkdirCreate, Restart, FormatBegin, FormatSuper, FormatBitmap,
     FormatDir, vars
<1>2. Next
  BY <1>1 DEF Next, Open
<1>3. IInv'
  BY StepConsistent DEF VInv
<1>4. QED
  BY <1>1, <1>2, <1>3, TaintStays DEF VInv, IInv, Typed, Mount, Return

(* RestartKeepsFiles: a mount finds every file as the last call that returned left
   it, and of a call that was cut only the path it was working on may differ. *)
THEOREM RestartsKeepFiles == Spec => RestartKeepsFiles
<1> DEFINE Keeps ==
      (pc = "boot" /\ pc' = "idle" /\ ~tainted') =>
        \A p \in Bystanders :
          \/ View'[p] = lastView[p]
          \/ IsBelow(op.path, p) /\ lastView[p] = NoFile /\ View'[p] = Directory
<1>1. VInv /\ [Next]_vars => Keeps
  <2>1. ASSUME VInv, [Next]_vars, pc = "boot" /\ pc' = "idle" /\ ~tainted',
               NEW p \in Bystanders
        PROVE  \/ View'[p] = lastView[p]
               \/ IsBelow(op.path, p) /\ lastView[p] = NoFile /\ View'[p] = Directory
    <3>1. /\ Mount /\ View' = lastView'
          /\ Typed /\ Typed' /\ Consistent /\ Views
      BY <2>1, OnlyMountOpens
    <3>2. p \in PathSet
      BY DEF Bystanders
    <3>3. QED
      BY <2>1, <3>1, <3>2, MountViews DEF Preserved
  <2>2. QED
    BY <2>1
<1>2. QED
  BY ViewsInductive, <1>1, PTL DEF Spec, RestartKeepsFiles

(* CreateIsAtomic: after a restart in the middle of a creation the new file is there
   with all of its content or not at all (write_file writes the data before the entry). *)
THEOREM CreationsAreAtomic == Spec => CreateIsAtomic
<1> DEFINE Atomic ==
      (pc = "boot" /\ pc' = "idle" /\ ~tainted' /\ op.kind = "create") =>
        View'[op.path] \in {NoFile, op.data}
<1>1. VInv /\ [Next]_vars => Atomic
  <2>1. ASSUME VInv, [Next]_vars,
               pc = "boot" /\ pc' = "idle" /\ ~tainted' /\ op.kind = "create"
        PROVE  View'[op.path] \in {NoFile, op.data}
    <3>1. /\ Mount /\ View' = lastView'
          /\ Typed /\ Typed' /\ Consistent /\ Views
      BY <2>1, OnlyMountOpens
    <3>2. op.path \in PathSet /\ lastView[op.path] = NoFile
      BY <2>1, <3>1 DEF Views, Before
    <3>3. Shows(dskData, dskDir, op.path, NoFile)
      BY <2>1, <3>1, MountViews
    <3>4. QED
      BY <2>1, <3>1, <3>2, <3>3, MountViews
  <2>2. QED
    BY <2>1
<1>2. QED
  BY ViewsInductive, <1>1, PTL DEF Spec, CreateIsAtomic
-----------------------------------------------------------------------------
(* The blocks of live files, all of them or all but those of slot i.          *)
Owned(d) == UNION {Extent(d[j]) : j \in Slots}

OwnedBut(d, i) == UNION {Extent(d[j]) : j \in Slots \ {i}}

(* While nothing fails and no call is cut, memory marks the blocks of live       *)
(* files and those of the run being written, and the device follows.         *)
Exact ==
  /\ pc = "boot" => op.kind = "none"
  /\ pc = "boot" /\ super => dskBitmap = Owned(dskDir)
  /\ pc = "fmtDir" => dskBitmap = {}
  /\ pc \in {"reclaim", "alloc", "tombstone"} => bitmap = OwnedBut(dir, slot)
  /\ pc \in {"data", "parents"} /\ Writing => bitmap = OwnedBut(dir, slot) \cup NewRun
  /\ pc = "parents" /\ ~Writing => bitmap = Owned(dir)
  /\ pc \in {"idle", "bitmap", "entry"} => bitmap = Owned(dir)
  /\ pc \in {"idle", "alloc", "tombstone", "entry"} => dskBitmap = bitmap
  /\ pc = "parents" /\ ~Writing => dskBitmap = bitmap
  /\ pc \in {"data", "parents"} /\ Writing => dskBitmap = OwnedBut(dir, slot)
  /\ pc \in {"reclaim", "bitmap"} =>
        \A b \in Blocks : BitSector(b) \in pending \/ (b \in bitmap <=> b \in dskBitmap)

(* The store a blank device shows is empty until it is formatted.            *)
Blank == (~super \/ pc \in {"fmtSuper", "fmtBitmap", "fmtDir"}) =>
           \A p \in PathSet : lastView[p] = NoFile

Quiet == crashes = 0 /\ faults = 0

ViewIsMap == lastView = [p \in PathSet |-> lastView[p]]

(* The invariant of behaviours without faults and cut calls. *)
EInv == VInv /\ ViewIsMap /\ (Quiet => ~tainted /\ Exact /\ Blank)

(* The runs of a directory are those of its entries, *)
LEMMA OwnedParts ==
  ASSUME NEW d, NEW i \in Slots
  PROVE  Owned(d) = OwnedBut(d, i) \cup Extent(d[i])
BY DEF Owned, OwnedBut

(* those without one entry are those of the others, *)
LEMMA OwnedRest ==
  ASSUME NEW d, NEW e, NEW i \in Slots, NEW X,
         \A j \in Slots : Extent(e[j]) = IF j = i THEN X ELSE Extent(d[j])
  PROVE  Owned(e) = OwnedBut(d, i) \cup X
BY DEF Owned, OwnedBut

(* and they only depend on the entries. *)
LEMMA OwnedSame ==
  ASSUME NEW d, NEW e, \A j \in Slots : Extent(e[j]) = Extent(d[j])
  PROVE  Owned(e) = Owned(d) /\ \A i : OwnedBut(e, i) = OwnedBut(d, i)
BY DEF Owned, OwnedBut

(* What is given back is what no other file has.                             *)
LEMMA OwnedLess ==
  ASSUME NEW d, NEW i \in Slots, Disjoint(d)
  PROVE  Owned(d) \ Extent(d[i]) = OwnedBut(d, i)
BY DEF Owned, OwnedBut, Disjoint

(* A step that counts no fault did all it should.                            *)
LEMMA QuietBefore ==
  ASSUME TypeOK, Next, Quiet'
  PROVE  Quiet /\ \A o : CountFault(o) => o = "done"
<1> USE DEF TypeOK, Quiet
<1>1. \A o : CountFault(o) => o = "done" /\ faults = 0
  BY DEF CountFault
<1>2. CASE Call
  BY <1>1, <1>2 DEF Call, WriteOver, WriteNew, WriteRefused, DeleteFile, DeleteDir,
              DeleteRefused, Mkdir, history
<1>3. CASE Step
  BY <1>1, <1>3 DEF Step, ReclaimFlush, Allocate, OutOfSpace, DataDone, DataFailed,
              ParentSkipped, ParentCreated, SetEntry, BitmapFlush, EntryFlush,
              Tombstone, MkdirDone, MkdirCreate, history
<1>4. CASE Restart \/ FormatBegin
  BY <1>1, <1>4 DEF Restart, FormatBegin
<1>5. CASE Mount \/ FormatSuper \/ FormatBitmap \/ FormatDir
  BY <1>1, <1>5 DEF Mount, FormatSuper, FormatBitmap, FormatDir
<1>6. QED
  BY <1>1, <1>2, <1>3, <1>4, <1>5 DEF Next, Open

(* Between two calls.                                                        *)
LEMMA IdleExact ==
  ASSUME NEW r, Return(r), bitmap' = Owned(dir'), dskBitmap' = bitmap'
  PROVE  Exact'
BY DEF Return, Exact, NoOp, Writing

(* A call that begins owns and frees nothing. *)
LEMMA CallExact ==
  ASSUME Typed, Typed', Consistent, Exact, NEW p \in PathSet,
         \/ \E c \in Contents : WriteOver(p, c) \/ WriteNew(p, c)
         \/ WriteRefused(p)
         \/ DeleteFile(p) \/ DeleteDir(p) \/ DeleteRefused(p)
         \/ Mkdir(p)
  PROVE  Exact'
<1>1. pc = "idle" /\ UNCHANGED <<super, dskDir, dskBitmap, dir>>
  BY DEF WriteOver, WriteNew, WriteRefused, DeleteFile, DeleteDir, DeleteRefused, Mkdir,
         diskVars, ramVars
<1>2. bitmap = Owned(dir) /\ dskBitmap = bitmap /\ Disjoint(dir) /\ bitmap \subseteq Blocks
  BY <1>1, IdleFacts DEF Exact, Typed, TypeOK
<1>3. ASSUME NEW i \in Slots, dir[i].trit = 1, dir[i].kind = "file",
             bitmap' = Reclaimed(dir[i]), slot' = i, pc' = "reclaim",
             pending' = BitmapSectors(dir[i].start, dir[i].nblocks)
      PROVE  Exact'
  <2>1. Extent(dir[i]) = Run(dir[i].start, dir[i].nblocks)
    BY <1>3 DEF Extent, IsFile
  <2>2. bitmap' = OwnedBut(dir', slot')
    BY <1>1, <1>2, <1>3, <2>1, OwnedLess DEF Reclaimed
  <2>3. \A b \in Blocks : BitSector(b) \in pending' \/ (b \in bitmap' <=> b \in dskBitmap')
    BY <1>1, <1>2, <1>3 DEF Reclaimed, BitmapSectors
  <2>4. QED
    BY <1>3, <2>2, <2>3 DEF Exact
<1>4. ASSUME NEW c \in Contents, WriteOver(p, c) PROVE Exact'
  BY <1>3, <1>4 DEF WriteOver, First, Matches
<1>5. ASSUME DeleteFile(p) PROVE Exact'
  BY <1>3, <1>5 DEF DeleteFile, First, Matches
<1>6. ASSUME NEW i \in Slots, Extent(dir[i]) = {}, slot' = i, bitmap' = bitmap,
             pc' \in {"alloc", "tombstone"}
      PROVE  Exact'
  <2>1. bitmap' = OwnedBut(dir', slot')
    BY <1>1, <1>2, <1>6, OwnedParts
  <2>2. QED
    BY <1>1, <1>2, <1>6, <2>1 DEF Exact
<1>7. ASSUME NEW c \in Contents, WriteNew(p, c) PROVE Exact'
  BY <1>6, <1>7, FreeSlotInactive, InactiveExtents DEF WriteNew, ramVars
<1>8. ASSUME DeleteDir(p) PROVE Exact'
  BY <1>6, <1>8, InactiveExtents DEF DeleteDir, ramVars
<1>9. ASSUME Mkdir(p) PROVE Exact'
  BY <1>1, <1>2, <1>9 DEF Mkdir, ramVars, Exact, Writing
<1>10. ASSUME WriteRefused(p) \/ DeleteRefused(p) PROVE Exact'
  BY <1>1, <1>2, <1>10, IdleExact DEF WriteRefused, DeleteRefused, ramVars
<1>11. QED
  BY <1>4, <1>5, <1>7, <1>8, <1>9, <1>10

(* The steps of a write: what is reserved is owned once the entry is made. *)
LEMMA WriteStepExact ==
  ASSUME Typed, Typed', Consistent, Exact, \A o : CountFault(o) => o = "done",
         ReclaimFlush \/ Allocate \/ OutOfSpace \/ DataDone \/ DataFailed
         \/ SetEntry \/ BitmapFlush \/ EntryFlush
  PROVE  Exact'
<1> USE DEF Typed
<1>1. CASE ReclaimFlush \/ BitmapFlush
  <2>1. PICK sec \in pending, o \in Outcomes :
          /\ dskBitmap' = FlushedBits(sec, o) /\ CountFault(o)
          /\ pending' = pending \ {sec}
          /\ \/ pc = "reclaim" /\ pc' = IF pending # {sec} THEN "reclaim"
                                        ELSE IF op.kind = "delete" THEN "tombstone" ELSE "alloc"
             \/ pc = "bitmap" /\ pc' = IF pending = {sec} THEN "entry" ELSE "bitmap"
    BY <1>1 DEF ReclaimFlush, BitmapFlush
  <2>2. UNCHANGED <<dir, bitmap, op, slot>>
    BY <1>1 DEF ReclaimFlush, BitmapFlush, ramVars
  <2>3. o = "done" /\ bitmap \subseteq Blocks /\ dskBitmap' \subseteq Blocks
    BY <2>1 DEF TypeOK
  <2>4. \A b \in Blocks : b \in dskBitmap' <=>
                            IF BitSector(b) = sec THEN b \in bitmap ELSE b \in dskBitmap
    BY <2>1, <2>3, FlushedBitsTyped DEF TypeOK
  <2>5. \A b \in Blocks : BitSector(b) \in pending' \/ (b \in bitmap <=> b \in dskBitmap')
    BY <2>1, <2>4 DEF Exact
  <2>6. pending = {sec} => dskBitmap' = bitmap
    BY <2>1, <2>3, <2>5
  <2>7. QED
    BY <2>1, <2>2, <2>5, <2>6 DEF Exact
<1>2. CASE Allocate
  <2>1. /\ pc = "alloc" /\ pc' = "data" /\ UNCHANGED <<dir, dskBitmap, op, slot>>
        /\ start' \in Blocks /\ bitmap' = bitmap \cup Run(start', Nblocks(op.data))
    BY <1>2 DEF Allocate, diskVars
  <2>2. bitmap' = OwnedBut(dir', slot') \cup NewRun'
    BY <2>1 DEF Exact, NewRun
  <2>3. QED
    BY <2>1, <2>2 DEF Exact
<1>3. CASE OutOfSpace
  <2>1. /\ UNCHANGED <<dskBitmap, bitmap>> /\ Return(FALSE) /\ pc = "alloc"
        /\ dir' = [dir EXCEPT ![slot] = DeletedEntry]
    BY <1>3 DEF OutOfSpace
  <2>2. \A i \in Slots : Extent(dir'[i]) = IF i = slot THEN {} ELSE Extent(dir[i])
    BY <2>1, Extents DEF TypeOK
  <2>3. Owned(dir') = OwnedBut(dir, slot)
    <3>1. slot \in Slots
      BY DEF TypeOK
    <3>2. Owned(dir') = OwnedBut(dir, slot) \cup {}
      BY <2>2, <3>1, OwnedRest
    <3>3. QED
      BY <3>2
  <2>4. QED
    BY <2>1, <2>3, IdleExact DEF Exact
<1>4. CASE DataDone
  <2>1. /\ pc = "data" /\ pc' \in {"data", "parents"} /\ Writing
        /\ UNCHANGED <<dir, bitmap, dskBitmap, op, slot, start>>
    BY <1>4 DEF DataDone, ramVars, OpAtStep
  <2>2. bitmap' = OwnedBut(dir', slot') \cup NewRun'
    BY <2>1 DEF Exact, NewRun
  <2>3. QED
    BY <2>1, <2>2 DEF Exact, Writing
<1>5. CASE DataFailed
  BY <1>5 DEF DataFailed
<1>6. CASE SetEntry
  <2>1. /\ pc = "parents" /\ pc' = "bitmap" /\ UNCHANGED <<bitmap, dskBitmap>> /\ Writing
        /\ dir' = [dir EXCEPT ![slot] = FileEntry(op.path, start, Nblocks(op.data))]
        /\ pending' = BitmapSectors(start, Nblocks(op.data))
    BY <1>6 DEF SetEntry, diskVars, Writing
  <2>2. \A i \in Slots : Extent(dir'[i]) = IF i = slot THEN NewRun ELSE Extent(dir[i])
    BY <2>1, Extents DEF TypeOK, NewRun
  <2>3. Owned(dir') = OwnedBut(dir, slot) \cup NewRun
    <3>1. slot \in Slots
      BY DEF TypeOK
    <3>2. PICK X : X = NewRun
      OBVIOUS
    <3>3. Owned(dir') = OwnedBut(dir, slot) \cup X
      BY SMTT(60), <2>2, <3>1, <3>2, OwnedRest
    <3>4. QED
      BY <3>2, <3>3
  <2>4. \A b \in Blocks : BitSector(b) \in pending' \/ (b \in bitmap' <=> b \in dskBitmap')
    BY <2>1 DEF Exact, BitmapSectors, NewRun
  <2>5. QED
    BY <2>1, <2>3, <2>4 DEF Exact
<1>7. CASE EntryFlush
  <2>1. UNCHANGED <<dskBitmap, bitmap, dir>> /\ Return(TRUE) /\ pc = "entry"
    BY <1>7 DEF EntryFlush, ramVars
  <2>2. QED
    BY <2>1, IdleExact DEF Exact
<1>8. QED
  BY <1>1, <1>2, <1>3, <1>4, <1>5, <1>6, <1>7

(* The steps of mkdir, of the parents and of a delete. *)
LEMMA TreeStepExact ==
  ASSUME Typed, Typed', Consistent, Exact,
         ParentSkipped \/ ParentCreated \/ Tombstone \/ MkdirDone \/ MkdirCreate
  PROVE  Exact'
<1> USE DEF Typed
<1>1. CASE ParentSkipped \/ ParentCreated
  <2>1. /\ pc = "parents" /\ pc' = pc /\ UNCHANGED <<bitmap, dskBitmap, op, slot, start>>
    BY <1>1 DEF ParentSkipped, ParentCreated, diskVars, ramVars
  <2>2. \A i \in Slots : Extent(dir'[i]) = Extent(dir[i])
    <3>1. CASE ParentSkipped
      BY <3>1 DEF ParentSkipped, ramVars
    <3>2. CASE ParentCreated
      <4>1. PICK i \in Slots : First(i, FreeSlots) /\ dir' = [dir EXCEPT ![i] = DirEntry(NextParent)]
        BY <3>2 DEF ParentCreated
      <4>2. Extent(dir[i]) = {} /\ Extent(DirEntry(NextParent)) = {}
        BY <4>1, FreeSlotInactive, InactiveExtents, Extents
      <4>3. QED
        BY <4>1, <4>2 DEF TypeOK
    <3>3. QED
      BY <1>1, <3>1, <3>2
  <2>3. Owned(dir') = Owned(dir) /\ OwnedBut(dir', slot) = OwnedBut(dir, slot)
    BY <2>2, OwnedSame
  <2>4. QED
    BY <2>1, <2>3 DEF Exact, Writing, NewRun
<1>2. CASE Tombstone
  <2>1. /\ pc = "tombstone" /\ pc' = "entry" /\ UNCHANGED <<bitmap, dskBitmap>>
        /\ dir' = [dir EXCEPT ![slot] = DeletedEntry]
    BY <1>2 DEF Tombstone, diskVars
  <2>2. \A i \in Slots : Extent(dir'[i]) = IF i = slot THEN {} ELSE Extent(dir[i])
    BY <2>1, Extents DEF TypeOK
  <2>3. Owned(dir') = OwnedBut(dir, slot)
    <3>1. slot \in Slots
      BY DEF TypeOK
    <3>2. Owned(dir') = OwnedBut(dir, slot) \cup {}
      BY <2>2, <3>1, OwnedRest
    <3>3. QED
      BY <3>2
  <2>4. QED
    BY <2>1, <2>3 DEF Exact
<1>3. CASE MkdirDone
  <2>1. UNCHANGED <<bitmap, dskBitmap, dir>> /\ pc = "parents" /\ ~Writing
    BY <1>3 DEF MkdirDone, diskVars, ramVars, Writing
  <2>2. QED
    BY <1>3, <2>1, IdleExact DEF MkdirDone, Exact
<1>4. CASE MkdirCreate
  <2>1. PICK i \in Slots : First(i, FreeSlots) /\ dir' = [dir EXCEPT ![i] = DirEntry(op.path)]
    BY <1>4 DEF MkdirCreate
  <2>2. /\ UNCHANGED <<bitmap, dskBitmap>> /\ pc = "parents" /\ pc' = "entry" /\ ~Writing
    BY <1>4 DEF MkdirCreate, diskVars, Writing
  <2>3. Extent(dir[i]) = {} /\ Extent(DirEntry(op.path)) = {}
    BY <2>1, FreeSlotInactive, InactiveExtents, Extents
  <2>4. \A j \in Slots : Extent(dir'[j]) = Extent(dir[j])
    BY <2>1, <2>3 DEF TypeOK
  <2>5. QED
    BY <2>2, <2>4, OwnedSame DEF Exact
<1>5. QED
  BY <1>1, <1>2, <1>3, <1>4

(* A mount reads the bits as they were written; a format begins with none. *)
LEMMA OpenStepExact ==
  ASSUME Typed, Typed', Consistent, Exact, Quiet, Quiet', \A o : CountFault(o) => o = "done",
         Restart \/ Open
  PROVE  Exact' /\ (tainted' = tainted)
<1> USE DEF Typed, TypeOK
<1>1. CASE Restart
  <2>1. pc = "idle" /\ op' = op /\ pc' = "boot" /\ UNCHANGED <<super, dskBitmap, dskDir>>
    BY <1>1 DEF Restart, Quiet, diskVars, callVars
  <2>2. op.kind = "none"
    BY <2>1 DEF OpAtStep
  <2>3. dskDir = dir
    BY <2>1, IdleFacts
  <2>4. ~Unprotected
    BY <2>1, <2>2 DEF Unprotected
  <2>5. tainted' = tainted
    BY <1>1, <2>4 DEF Restart
  <2>6. QED
    BY <2>1, <2>2, <2>3, <2>5 DEF Exact, Writing
<1>2. CASE Mount
  <2>1. PICK o : /\ bitmap' = IF o = "noBitmap" THEN {} ELSE dskBitmap
                 /\ dir' = IF o = "noDir" THEN dir ELSE dskDir
                 /\ CountFault(o) /\ tainted' = (tainted \/ o # "done")
    BY <1>2 DEF Mount
  <2>2. bitmap' = dskBitmap /\ dir' = dskDir /\ tainted' = tainted
    BY <2>1
  <2>3. super /\ pc = "boot" /\ Return(result) /\ dskBitmap' = dskBitmap
    BY <1>2 DEF Mount, diskVars
  <2>4. QED
    BY <2>2, <2>3, IdleExact DEF Exact
<1>3. CASE FormatBegin
  BY <1>3 DEF FormatBegin, Exact
<1>4. CASE FormatSuper
  <2>1. pc' = "fmtBitmap"
    BY <1>4 DEF FormatSuper
  <2>2. PICK o : CountFault(o) /\ TaintIfLost(o)
    BY <1>4 DEF FormatSuper
  <2>3. QED
    BY <2>1, <2>2 DEF Exact, TaintIfLost
<1>5. CASE FormatBitmap
  <2>1. PICK o : /\ dskBitmap' = IF o = "lost" THEN dskBitmap ELSE bitmap
                 /\ CountFault(o) /\ TaintIfLost(o)
    BY <1>5 DEF FormatBitmap
  <2>2. pc = "fmtBitmap" /\ pc' = "fmtDir"
    BY <1>5 DEF FormatBitmap
  <2>3. bitmap = {}
    BY <2>2 DEF Consistent, EmptyMemory, Opening
  <2>4. QED
    BY <2>1, <2>2, <2>3 DEF Exact, TaintIfLost
<1>6. CASE FormatDir
  <2>1. PICK o : CountFault(o) /\ TaintIfLost(o)
    BY <1>6 DEF FormatDir
  <2>2. UNCHANGED <<dskBitmap, bitmap, dir>> /\ pc = "fmtDir" /\ Return(result)
    BY <1>6 DEF FormatDir, ramVars
  <2>3. bitmap = {} /\ \A i \in Slots : Extent(dir[i]) = {}
    BY <2>2, Extents DEF Consistent, EmptyMemory, Opening
  <2>4. Owned(dir') = {}
    BY <2>2, <2>3 DEF Owned
  <2>5. QED
    BY <2>1, <2>2, <2>3, <2>4, IdleExact DEF Exact, TaintIfLost
<1>7. QED
  BY <1>1, <1>2, <1>3, <1>4, <1>5, <1>6 DEF Open

(* An unformatted device shows nothing, and stays so until it is formatted.   *)
LEMMA StepBlank ==
  ASSUME Typed, Consistent, Blank, Quiet, Quiet', \A o : CountFault(o) => o = "done", Next
  PROVE  Blank'
<1> USE DEF Typed, TypeOK
<1>1. pc \in Calling \cup {"idle"} => super /\ pc \notin {"fmtSuper", "fmtBitmap", "fmtDir"}
  BY CallFacts, IdleFacts DEF Calling, Typed
<1>2. CASE Call \/ Step
  <2>1. pc \in Calling \cup {"idle"} /\ super' = super
    BY <1>2 DEF Call, WriteOver, WriteNew, WriteRefused, DeleteFile, DeleteDir, DeleteRefused,
       Mkdir, Step, ReclaimFlush, Allocate, OutOfSpace, DataDone, DataFailed,
       ParentSkipped, ParentCreated, SetEntry, BitmapFlush, EntryFlush, Tombstone, MkdirDone,
       MkdirCreate, diskVars, Calling
  <2>2. pc' \notin {"fmtSuper", "fmtBitmap", "fmtDir"}
    BY <1>2 DEF Call, WriteOver, WriteNew, WriteRefused, DeleteFile, DeleteDir, DeleteRefused,
       Mkdir, Step, ReclaimFlush, Allocate, OutOfSpace, DataDone, DataFailed,
       ParentSkipped, ParentCreated, SetEntry, BitmapFlush, EntryFlush, Tombstone, MkdirDone,
       MkdirCreate, Return
  <2>3. QED
    BY <1>1, <2>1, <2>2 DEF Blank
<1>3. CASE Restart
  BY <1>3 DEF Restart, Blank, diskVars
<1>4. CASE Mount \/ FormatDir
  <2>1. super' /\ pc' = "idle"
    BY <1>4 DEF Mount, FormatDir, Return, diskVars, Consistent, Synced
  <2>2. QED
    BY <2>1 DEF Blank
<1>5. CASE FormatBegin
  <2>1. ~super /\ lastView' = lastView
    BY <1>5 DEF FormatBegin, Quiet
  <2>2. QED
    BY <2>1 DEF Blank
<1>6. CASE FormatSuper \/ FormatBitmap
  BY <1>6 DEF FormatSuper, FormatBitmap, Blank
<1>7. QED
  BY <1>2, <1>3, <1>4, <1>5, <1>6 DEF Next, Open

(* While nothing fails and no call is cut nothing is tainted.                 *)
LEMMA StepUntainted ==
  ASSUME Typed, ~tainted, \A o : CountFault(o) => o = "done", Call \/ Step
  PROVE  ~tainted'
<1> USE DEF Typed, TypeOK
<1>1. CASE Call
  BY <1>1 DEF Call, WriteOver, WriteNew, WriteRefused, DeleteFile, DeleteDir,
              DeleteRefused, Mkdir, history
<1>2. CASE Step
  BY <1>2 DEF Step, ReclaimFlush, Allocate, OutOfSpace, DataDone, DataFailed,
              ParentSkipped, ParentCreated, SetEntry, BitmapFlush, EntryFlush,
              Tombstone, MkdirDone, MkdirCreate, TaintIfLost, history
<1>3. QED
  BY <1>1, <1>2

(* What readers found is a map from the paths.                               *)
LEMMA StepViewIsMap ==
  ASSUME ViewIsMap, Next
  PROVE  ViewIsMap'
<1>1. ASSUME NEW r, Return(r) PROVE ViewIsMap'
  <2>1. lastView' = [p \in PathSet |-> ReadBack(p)']
    BY <1>1 DEF Return, View
  <2>2. QED
    BY <2>1 DEF ViewIsMap
<1>2. lastView' = lastView => ViewIsMap'
  BY DEF ViewIsMap
<1>3. CASE Call
  BY <1>1, <1>2, <1>3 DEF Call, WriteOver, WriteNew, WriteRefused, DeleteFile, DeleteDir,
              DeleteRefused, Mkdir, history
<1>4. CASE Step
  BY <1>1, <1>2, <1>4 DEF Step, ReclaimFlush, Allocate, OutOfSpace, DataDone, DataFailed,
              ParentSkipped, ParentCreated, SetEntry, BitmapFlush, EntryFlush,
              Tombstone, MkdirDone, MkdirCreate, history
<1>5. CASE Restart \/ Open
  BY <1>1, <1>2, <1>5 DEF Restart, Open, Mount, FormatBegin, FormatSuper, FormatBitmap,
              FormatDir
<1>6. QED
  BY <1>3, <1>4, <1>5 DEF Next

(* A device before its first boot. *)
LEMMA InitExact == Init => EInv
<1> SUFFICES ASSUME Init PROVE EInv
  OBVIOUS
<1>1. ViewIsMap
  BY DEF Init, ViewIsMap
<1>2. QED
  BY <1>1, InitViews DEF Init, EInv, Exact, Blank, NoOp

(* Every step keeps the invariant. *)
LEMMA StepExact == EInv /\ [Next]_vars => EInv'
<1> SUFFICES ASSUME EInv, [Next]_vars PROVE EInv'
  OBVIOUS
<1>1. VInv /\ VInv'
  BY StepViews DEF EInv
<1>2. Typed /\ Typed'
  BY <1>1 DEF VInv, IInv
<1>3. CASE UNCHANGED vars
  <2>1. /\ UNCHANGED <<super, dskBitmap, dskDir, bitmap, dir, pc, op, slot, start, pending>>
        /\ UNCHANGED <<lastView, tainted, crashes, faults>>
    BY <1>3 DEF vars, diskVars, ramVars, callVars, history
  <2>2. Exact' = Exact /\ Blank' = Blank /\ Quiet' = Quiet /\ ViewIsMap' = ViewIsMap
    BY <2>1 DEF Exact, Blank, Quiet, ViewIsMap, Writing, NewRun
  <2>3. QED
    BY <1>1, <2>1, <2>2 DEF EInv
<1>4. CASE Next
  <2>1. ViewIsMap'
    BY <1>4, StepViewIsMap DEF EInv
  <2>2. ASSUME Quiet' PROVE ~tainted' /\ Exact' /\ Blank'
    <3>1. Quiet /\ \A o : CountFault(o) => o = "done"
      BY <1>2, <1>4, <2>2, QuietBefore DEF Typed
    <3>2. ~tainted /\ Exact /\ Blank /\ Consistent
      BY <3>1 DEF EInv, VInv, IInv
    <3>3. Blank'
      BY <1>2, <1>4, <2>2, <3>1, <3>2, StepBlank
    <3>4. CASE Call
      <4>1. PICK p \in PathSet :
              \/ \E c \in Contents : WriteOver(p, c) \/ WriteNew(p, c)
              \/ WriteRefused(p)
              \/ DeleteFile(p) \/ DeleteDir(p) \/ DeleteRefused(p)
              \/ Mkdir(p)
        BY <3>4 DEF Call
      <4>2. Exact'
        BY <1>2, <3>2, <4>1, CallExact
      <4>3. QED
        BY <1>2, <3>1, <3>2, <3>3, <3>4, <4>2, StepUntainted
    <3>5. CASE Step
      <4>1. Exact'
        BY <1>2, <3>1, <3>2, <3>5, WriteStepExact, TreeStepExact DEF Step
      <4>2. QED
        BY <1>2, <3>1, <3>2, <3>3, <3>5, <4>1, StepUntainted
    <3>6. CASE Restart \/ Open
      BY <1>2, <2>2, <3>1, <3>2, <3>3, <3>6, OpenStepExact
    <3>7. QED
      BY <1>4, <3>4, <3>5, <3>6 DEF Next
  <2>3. QED
    BY <1>1, <2>1, <2>2 DEF EInv
<1>5. QED
  BY <1>3, <1>4

(* The invariant holds throughout. *)
LEMMA ExactInductive == Spec => []EInv
BY InitExact, StepExact, PTL DEF Spec

(* NoLeak: while no transfer failed and no call was cut, between two calls exactly the
   blocks of live files are reserved: deleting and overwriting (rpfs.rs free_run) give
   back all they should. *)
THEOREM ReclamationExact == Spec => []NoLeak
<1>1. EInv => NoLeak
  BY DEF EInv, Exact, Quiet, NoLeak, Owned
<1>2. QED
  BY ExactInductive, <1>1, PTL
-----------------------------------------------------------------------------
(* Refinement of FileStore.                                                  *)
LEMMA StoreNames ==
  /\ Store!NoFile = NoFile /\ Store!Directory = Directory /\ NoFile # Directory
  /\ \A p : Store!Ancestors(p) = Ancestors(p)
  /\ \A q, p : Store!IsBelow(q, p) <=> IsBelow(q, p)
BY DEF NoFile, Directory, Store!NoFile, Store!Directory, IsBelow, Ancestors, Ancestor,
       Store!IsBelow, Store!Ancestors, Store!Ancestor

(* The initial states are those of the store. *)
LEMMA InitStore == Init => Store!Init
BY DEF Init, Store!Init, NoFile, Store!NoFile

(* The parents a call has made.                                              *)
Made(p) == {q \in Ancestors(p) : lastView[q] = NoFile /\ lastView'[q] = Directory}

(* A call that begins or is refused is a stutter or a call of the store that fails. *)
LEMMA CallStore ==
  ASSUME Typed, Typed', Consistent, Views, ViewIsMap, NEW p \in PathSet,
         \/ \E c \in Contents : WriteOver(p, c) \/ WriteNew(p, c)
         \/ WriteRefused(p)
         \/ DeleteFile(p) \/ DeleteDir(p) \/ DeleteRefused(p)
         \/ Mkdir(p)
  PROVE  Store!Next \/ UNCHANGED <<lastView, result>>
<1>1. CASE (\E c \in Contents : WriteOver(p, c) \/ WriteNew(p, c)) \/ DeleteFile(p)
           \/ DeleteDir(p) \/ Mkdir(p)
  BY <1>1 DEF WriteOver, WriteNew, DeleteFile, DeleteDir, Mkdir, history
<1>2. CASE WriteRefused(p) \/ DeleteRefused(p)
  <2>1. pc = "idle" /\ Return(FALSE) /\ UNCHANGED <<super, dskDir, dskData, dir>>
    BY <1>2 DEF WriteRefused, DeleteRefused, diskVars, ramVars
  <2>2. /\ super /\ dskDir = dir /\ NamesUnique(dir)
        /\ \A q \in PathSet : Shows(dskData, dir, q, lastView[q])
    BY <2>1, IdleViews
  <2>3. super' /\ dskDir' = dir' /\ NamesUnique(dir')
        /\ \A q \in PathSet : Shows(dskData', dir', q, lastView[q])
    BY <2>1, <2>2
  <2>4. lastView' = lastView /\ result' = FALSE
    BY <2>1, <2>3, ReturnViews DEF ViewIsMap, Return
  <2>5. CASE WriteRefused(p)
    BY <2>4 DEF Store!Next, Store!WriteFailed
  <2>6. CASE DeleteRefused(p)
    <3>1. CASE Matches(p) = {}
      <4>1. lastView[p] = NoFile
        BY <2>2, <3>1, NothingShows DEF Matches, Named
      <4>2. QED
        BY <2>4, <4>1, StoreNames DEF Store!Next, Store!DeleteRefused
    <3>2. ASSUME NEW i \in Slots, Named(dir, i, p), dir[i].kind = "dir", HasChild(p)
          PROVE  Store!DeleteRefused(p)
      <4>1. lastView[p] = Directory
        BY <2>2, <3>2, EntryShows DEF ShownBy
      <4>2. PICK j \in Slots : dir[j].trit = 1 /\ IsBelow(dir[j].name, p)
        BY <3>2 DEF HasChild
      <4>3. dir[j].name \in PathSet
        <5>1. dir[j].name \in PathSet \cup {<<>>}
          BY DEF Typed, TypeOK, Entry
        <5>2. dir[j].name # <<>>
          BY <4>2, NotBelowItself
        <5>3. QED
          BY <5>1, <5>2
      <4>4. lastView[dir[j].name] # NoFile
        BY <2>2, <4>2, <4>3, NothingShows DEF Named
      <4>5. QED
        BY <2>4, <4>1, <4>2, <4>3, <4>4, StoreNames DEF Store!DeleteRefused
    <3>3. QED
      BY <2>6, <3>1, <3>2 DEF DeleteRefused, First, Matches, Named, Store!Next
  <2>7. QED
    BY <1>2, <2>5, <2>6
<1>3. QED
  BY <1>1, <1>2

(* The last transfer of a call is the step of the store.                     *)
LEMMA EntryFlushStore ==
  ASSUME Typed, Typed', Consistent, Views, ViewIsMap, ~tainted', EntryFlush
  PROVE  Store!Next
<1> DEFINE p == op.path
           D == Made(p)
<1>1. pc = "entry" /\ result' = TRUE /\ p \in PathSet
      /\ op.kind \in {"create", "overwrite", "delete", "mkdir"}
  BY DEF EntryFlush, Return, Typed, TypeOK, OpAtStep, Calling
<1>2. lastView' = [q \in PathSet |-> IF q = p THEN NewValue ELSE Left(q)]
  BY EntryFlushViews
<1>3. \A q \in Bystanders :
        \/ Left(q) = lastView[q]
        \/ /\ op.kind # "delete" /\ IsBelow(p, q) /\ lastView[q] = NoFile /\ Left(q) = Directory
  BY <1>1, ReadyViews DEF Left
<1>4. /\ D \in SUBSET Store!Missing(p)
      /\ op.kind = "delete" => D \cap Bystanders = {}
  <2>1. D \in SUBSET Store!Missing(p)
    BY StoreNames DEF Made, Store!Missing
  <2>2. ASSUME op.kind = "delete", NEW q \in D, q \in Bystanders PROVE FALSE
    <3>1. lastView'[q] = lastView[q]
      BY <1>2, <1>3, <2>2 DEF Bystanders
    <3>2. QED
      BY <2>2, <3>1, StoreNames DEF Made
  <2>3. QED
    BY <2>1, <2>2
<1>5. lastView' = Store!With(p, NewValue, D)
  <2>1. \A q \in PathSet : q # p =>
          Left(q) = IF q \in D THEN Directory ELSE lastView[q]
    BY <1>2, <1>3 DEF Made, IsBelow, Bystanders
  <2>2. QED
    BY <1>2, <2>1, StoreNames DEF Store!With
<1>6. NoFile # Directory /\ NoFile \notin Contents /\ Directory \notin Contents
  BY ContentsAssumption DEF NoFile, Directory
<1>7. CASE Writing
  <2>1. op.data \in Contents /\ NewValue = op.data /\ lastView[p] # Directory
    BY <1>6, <1>7 DEF Typed, OpAtStep, NewValue, Views, Before, Writing
  <2>2. Store!WriteDone(p, op.data)
    BY <1>1, <1>4, <1>5, <2>1, StoreNames DEF Store!WriteDone
  <2>3. QED
    BY <1>1, <2>1, <2>2 DEF Store!Next
<1>8. CASE op.kind = "mkdir"
  <2>1. NewValue = Directory /\ lastView[p] = NoFile
    BY <1>1, <1>8 DEF NewValue, Writing, Views, Before
  <2>2. Store!MkdirDone(p)
    BY <1>1, <1>4, <1>5, <2>1, StoreNames DEF Store!MkdirDone
  <2>3. QED
    BY <1>1, <2>2 DEF Store!Next
<1>9. CASE op.kind = "delete"
  <2>1. NewValue = NoFile /\ lastView[p] # NoFile
        /\ (lastView[p] = Directory => \A q \in PathSet : IsBelow(q, p) => lastView[q] = NoFile)
    BY <1>6, <1>9 DEF NewValue, Writing, Views, Before
  <2>2. lastView' = Store!With(p, NoFile, {})
    BY <1>4, <1>5, <1>9, <2>1 DEF Store!With, Bystanders
  <2>3. Store!DeleteDone(p)
    BY <1>1, <2>1, <2>2, StoreNames DEF Store!DeleteDone
  <2>4. QED
    BY <1>1, <2>3 DEF Store!Next
<1>10. QED
  BY <1>1, <1>7, <1>8, <1>9 DEF Writing

(* Steps in the middle of a call are stutters, and those that end one are the call. *)
LEMMA StepStore ==
  ASSUME Typed, Typed', Consistent, Views, ViewIsMap, ~tainted', Step, Quiet, Quiet'
  PROVE  Store!Next \/ UNCHANGED <<lastView, result>>
<1>1. op.path = op.path /\ (pc \in Calling => op.path \in PathSet)
  BY DEF Typed, OpAtStep
<1>2. CASE OutOfSpace
  <2>1. /\ lastView' = [q \in PathSet |-> IF q = op.path THEN NoFile ELSE lastView[q]]
        /\ result' = FALSE /\ op.path \in PathSet /\ Writing
    BY <1>2, OutOfSpaceViews DEF OutOfSpace, Return, Typed, OpAtStep, Calling
  <2>2. lastView' = Store!With(op.path, NoFile, {})
    BY <2>1 DEF Store!With
  <2>3. lastView[op.path] # Directory
    BY <2>1, StoreNames, ContentsAssumption DEF Views, Before, Writing
  <2>4. Store!WriteFailed(op.path)
    BY <2>1, <2>2, <2>3, StoreNames DEF Store!WriteFailed
  <2>5. QED
    BY <2>1, <2>4 DEF Store!Next
<1>3. CASE EntryFlush
  BY <1>3, EntryFlushStore
<1>4. CASE DataFailed
  <2>1. PICK o : o # "done" /\ CountFault(o)
    BY <1>4 DEF DataFailed
  <2>2. QED
    BY <2>1 DEF CountFault, Quiet
<1>5. CASE MkdirDone
  <2> DEFINE p == op.path
             D == Made(p)
  <2>1. /\ pc = "parents" /\ op.kind = "mkdir" /\ p \in PathSet
        /\ UNCHANGED <<dskDir, dskData, dir>> /\ Return(Matches(p) # {})
    BY <1>5 DEF MkdirDone, Typed, OpAtStep, Calling, diskVars, ramVars
  <2>2. /\ lastView' = [q \in PathSet |-> Left(q)] /\ Left(p) = lastView[p]
        /\ result' = (Matches(p) # {})
    BY <1>5, <2>1, MkdirDoneViews DEF Return
  <2>3. dskDir = dir /\ \A q \in PathSet : Preserved(q)
    BY <2>1, CallFacts, CallViewFacts DEF Kept, Calling
  <2>4. \A q \in PathSet :
          \/ Left(q) = lastView[q]
          \/ IsBelow(p, q) /\ lastView[q] = NoFile /\ Left(q) = Directory
    BY <2>3 DEF Preserved, Left
  <2>5. D \in SUBSET Store!Missing(p)
    BY StoreNames DEF Made, Store!Missing
  <2>6. lastView' = Store!With(p, lastView[p], D)
    <3>1. \A q \in PathSet : q # p => Left(q) = IF q \in D THEN Directory ELSE lastView[q]
      BY <2>2, <2>4 DEF Made, IsBelow
    <3>2. QED
      BY <2>2, <3>1, StoreNames DEF Store!With
  <2>7. lastView[p] = NoFile <=> Matches(p) = {}
    <3>1. Shows(dskData, dir, p, lastView[p])
      BY <2>1, <2>3, CallViewFacts DEF Calling
    <3>2. QED
      BY <3>1, NothingShows DEF Matches, Named
  <2>8. CASE Matches(p) = {}
    <3>1. Store!MkdirFailed(p)
      BY <2>2, <2>5, <2>6, <2>7, <2>8, StoreNames DEF Store!MkdirFailed
    <3>2. QED
      BY <2>1, <3>1 DEF Store!Next
  <2>9. CASE Matches(p) # {}
    <3>1. Store!MkdirDone(p)
      BY <2>2, <2>5, <2>6, <2>7, <2>9, StoreNames DEF Store!MkdirDone
    <3>2. QED
      BY <2>1, <3>1 DEF Store!Next
  <2>10. QED
    BY <2>8, <2>9
<1>6. CASE ReclaimFlush \/ Allocate \/ DataDone \/ ParentSkipped \/ ParentCreated \/ SetEntry
           \/ BitmapFlush \/ Tombstone \/ MkdirCreate
  BY <1>6 DEF ReclaimFlush, Allocate, DataDone, ParentSkipped, ParentCreated, SetEntry,
              BitmapFlush, Tombstone, MkdirCreate, history
<1>7. QED
  BY <1>2, <1>3, <1>4, <1>5, <1>6 DEF Step

(* Opening is invisible: a restart between two calls shows what was there, and   *)
(* only a blank device is formatted.                                         *)
LEMMA OpenStore ==
  ASSUME Typed, Typed', Consistent, Views, ViewIsMap, Exact, Blank, Quiet, Quiet', ~tainted',
         Restart \/ Open
  PROVE  UNCHANGED <<lastView, result>>
<1>1. CASE Restart \/ FormatBegin \/ FormatSuper \/ FormatBitmap
  BY <1>1 DEF Restart, FormatBegin, FormatSuper, FormatBitmap, callVars
<1>2. CASE Mount
  <2>1. pc = "boot" /\ super /\ op.path = <<>> /\ result' = result
    BY <1>2 DEF Mount, Exact, Views, Before, Return
  <2>2. \A p \in PathSet : Shows(dskData, dskDir, p, lastView[p])
    BY <1>2, <2>1, MountViews, NotBelowItself DEF Preserved
  <2>3. lastView' = [p \in PathSet |-> lastView[p]]
    BY <1>2, <2>2, MountViews
  <2>4. QED
    BY <2>1, <2>3 DEF ViewIsMap
<1>3. CASE FormatDir
  <2>1. pc = "fmtDir" /\ Return(result) /\ dir' = dir
    BY <1>3 DEF FormatDir, ramVars
  <2>2. \A p \in PathSet : lastView[p] = NoFile
    BY <2>1 DEF Blank
  <2>3. \A i \in Slots : dir'[i] = EmptyEntry
    BY <2>1 DEF Consistent, EmptyMemory, Opening
  <2>4. \A p \in PathSet : View'[p] = NoFile
    <3>1. ASSUME NEW p \in PathSet PROVE Matches(p)' = {}
      BY <2>3 DEF Matches, EmptyEntry
    <3>2. QED
      BY <3>1 DEF View, ReadBack
  <2>5. lastView' = [p \in PathSet |-> NoFile]
    BY <2>1, <2>4 DEF Return, View
  <2>6. QED
    BY <2>1, <2>2, <2>5 DEF ViewIsMap, Return
<1>4. QED
  BY <1>1, <1>2, <1>3 DEF Open

(* Every step is one of the store or a stutter. *)
LEMMA NextStore ==
  ASSUME EInv, EInv', Quiet, Quiet', [Next]_vars
  PROVE  [Store!Next]_<<lastView, result>>
<1>1. /\ ~tainted /\ ~tainted' /\ Typed /\ Typed' /\ Consistent /\ Views
      /\ ViewIsMap /\ Exact /\ Blank
  BY DEF EInv, VInv, IInv
<1>2. CASE Call
  <2>1. PICK p \in PathSet :
          \/ \E c \in Contents : WriteOver(p, c) \/ WriteNew(p, c)
          \/ WriteRefused(p)
          \/ DeleteFile(p) \/ DeleteDir(p) \/ DeleteRefused(p)
          \/ Mkdir(p)
    BY <1>2 DEF Call
  <2>2. QED
    BY <1>1, <2>1, CallStore
<1>3. CASE Step
  BY <1>1, <1>3, StepStore
<1>4. CASE Restart \/ Open
  BY <1>1, <1>4, OpenStore
<1>5. CASE UNCHANGED vars
  BY <1>5 DEF vars, history
<1>6. QED
  BY <1>2, <1>3, <1>4, <1>5 DEF Next

(* With no fault and no restart in the middle of a call both counters stay 0.   *)
LEMMA AlwaysQuiet ==
  ASSUME MaxCrashes = 0, MaxFaults = 0
  PROVE  Spec => []Quiet
<1>1. Init => Quiet
  BY DEF Init, Quiet
<1>2. Typed /\ Quiet /\ [Next]_vars => Quiet'
  <2> SUFFICES ASSUME Typed, Quiet, [Next]_vars PROVE Quiet'
    OBVIOUS
  <2>1. Outcomes = {"done"} /\ ~(faults < MaxFaults) /\ ~(crashes < MaxCrashes)
    BY DEF Outcomes, Quiet
  <2>2. \A o \in Outcomes : CountFault(o) => faults' = faults
    BY <2>1 DEF CountFault
  <2>3. CASE Call
    BY <2>3 DEF Call, WriteOver, WriteNew, WriteRefused, DeleteFile, DeleteDir, DeleteRefused,
       Mkdir, history, Quiet
  <2>4. CASE Step
    BY <2>1, <2>2, <2>4 DEF Step, ReclaimFlush, Allocate, OutOfSpace, DataDone, DataFailed,
       ParentSkipped, ParentCreated, SetEntry, BitmapFlush, EntryFlush, Tombstone, MkdirDone,
       MkdirCreate, history, Quiet
  <2>5. CASE Restart \/ FormatBegin \/ Mount
    BY <2>1, <2>2, <2>5 DEF Restart, FormatBegin, Mount, Quiet, CountFault
  <2>6. CASE FormatSuper \/ FormatBitmap \/ FormatDir
    BY <2>1, <2>2, <2>6 DEF FormatSuper, FormatBitmap, FormatDir, Quiet
  <2>7. CASE UNCHANGED vars
    BY <2>7 DEF vars, history, Quiet
  <2>8. QED
    BY <2>3, <2>4, <2>5, <2>6, <2>7 DEF Next, Open
<1>3. IInv => Typed
  BY DEF IInv
<1>4. QED
  BY <1>1, <1>2, <1>3, Inductive, PTL DEF Spec

(* ImplementsStore: on a machine that does not fail or stop in the middle of a call,
   what readers of RPFS find is a FileStore, the map from paths to contents of its
   header, and every operation is one atomic change of that map. *)
THEOREM StoreImplemented ==
  ASSUME MaxCrashes = 0, MaxFaults = 0
  PROVE  Spec => ImplementsStore
<1>1. EInv /\ EInv' /\ Quiet /\ Quiet' /\ [Next]_vars => [Store!Next]_<<lastView, result>>
  BY NextStore
<1>2. QED
  BY InitStore, ExactInductive, AlwaysQuiet, <1>1, PTL DEF Spec, ImplementsStore, Store!Spec
=============================================================================
