----------------------------- MODULE DesktopVfs -----------------------------
(***************************************************************************)
(* The desktop's file tree (desktop-metal/src/vfs.rs) and its mirror on disk.  *)
(*                                                                           *)
(* The tree is a flat list in memory.  Every file is written through with      *)
(* system call 25, one file per call, and a manifest on disk names the files   *)
(* to pull back with call 26 at the next start.  The disk is FileStore, which   *)
(* Rpfs implements; a call of the tree is one or two calls of the disk, and   *)
(* the machine may restart between them.                                      *)
(***************************************************************************)
EXTENDS Integers, SequencesExt

CONSTANTS
  Names,        \* the names users give to files, closed under the names above them
  Defaults,     \* a sequence: the built-in files laid down at every start
  Settings,     \* .config/rusty-penguin/settings.ini
  LongNames,    \* names of more than 51 bytes
  Fitting,      \* non-empty contents of at most 65535 bytes
  MaxCalls,     \* bound on the calls of the tree
  MaxFailures   \* bound on the disk calls that fail

VARIABLES
  phase,        \* "off", "idle", or "flush": the manifest has still to be rewritten
  entries,      \* the tree: a sequence of entries
  disk,         \* what a reader of the disk finds at each path
  result,       \* what the last disk call returned
  listing,      \* the names the manifest on the disk holds
  \* history
  call,         \* the call in progress
  seen,         \* what the user read at each name when the machine went down
  loose,        \* names about which nothing is promised
  calls,
  failures

memory  == <<phase, entries>>
device  == <<disk, result, listing>>
history == <<call, seen, loose, calls, failures>>
vars    == <<memory, device, history>>
-----------------------------------------------------------------------------
MANIFEST == <<"manifest">>

\* Contents: an empty file, one of more than 65535 bytes, what is left of that one
\* once its length is cut to 16 bits, and what a built-in file holds.
Empty   == "empty"
Long    == "long"
Cut     == "cut"
Builtin == "builtin"
Absent  == "absent"
Listed  == "list"

Inputs   == Fitting \cup {Empty, Long}
Contents == Inputs \cup {Cut, Builtin}
Fits(c)  == c \notin {Empty, Long}

DiskPaths == Names \cup {MANIFEST}
Disk == INSTANCE FileStore WITH store <- disk, PathSet <- DiskPaths

ASSUME VfsAssumption ==
  /\ Names \subseteq Seq(STRING) \ {<<>>} /\ MANIFEST \notin Names
  /\ \A n \in Names : Disk!Ancestors(n) \subseteq Names
  /\ Settings \in Names /\ LongNames \subseteq Names \ {Settings}
  /\ Defaults \in Seq(Names \ LongNames)
  /\ Fitting \cap {Empty, Long, Absent, Listed, Disk!NoFile, Disk!Directory} = {}
  /\ MaxCalls \in Nat /\ MaxFailures \in Nat

persistable(n) == n \notin LongNames

\* The directory that is made at the start for a name below the settings file stands
\* in the way of their fallback: where such names are used nothing is promised of them.
Shadowed == IF \E n \in Names : Disk!IsBelow(n, Settings) THEN {Settings} ELSE {}

File(n, c) == [name |-> n, data |-> c, is_dir |-> FALSE]
Dir(n)     == [name |-> n, data |-> Empty, is_dir |-> TRUE]

\* The entries with a name in N, and those of a list that are in a set, in order.
Entry(N) == [name : N, data : Contents, is_dir : BOOLEAN]
Among(es, S) ==
  LET kept[k \in 0 .. Len(es)] ==
        IF k = 0 THEN <<>>
        ELSE IF es[k] \in S THEN Append(kept[k - 1], es[k]) ELSE kept[k - 1]
  IN  kept[Len(es)]

exists(es, n) == \E i \in DOMAIN es : es[i].name = n

\* The first entry with this name; the first file with it.
FirstEntry(es, n) == SelectInSeq(es, LAMBDA e : e.name = n)
FirstFile(es, n)  == SelectInSeq(es, LAMBDA e : e.name = n /\ ~e.is_dir)

read(es, n) == IF FirstFile(es, n) = 0 THEN Absent ELSE es[FirstFile(es, n)].data
View(es)    == [n \in Names |-> read(es, n)]

write_mem(es, n, c) ==
  IF FirstFile(es, n) = 0 THEN Append(es, File(n, c))
  ELSE [es EXCEPT ![FirstFile(es, n)].data = c]

MkdirMissing(es, n) == IF exists(es, n) THEN es ELSE Append(es, Dir(n))
ensure_parent_dirs(es, n) ==
  LET made[k \in 0 .. Len(n) - 1] ==
        IF k = 0 THEN es ELSE MkdirMissing(made[k - 1], Disk!Ancestor(n, k))
  IN  made[Len(n) - 1]
-----------------------------------------------------------------------------
\* Seeded fault: the length of the buffer is 65536, which is 0 in 16 bits.
persist_readNothing(n) == FALSE

\* System call 26: an empty file, a directory or no file reads as nothing.
persist_read(n) == disk[n] \in Contents \ {Empty}

\* Seeded fault: a file that is there already is not replaced.
PullMissing(es, n) ==
  IF persist_read(n) /\ ~exists(es, n)
  THEN write_mem(ensure_parent_dirs(es, n), n, disk[n]) ELSE es

Pull(es, n) ==
  IF persist_read(n) THEN write_mem(ensure_parent_dirs(es, n), n, disk[n]) ELSE es

\* The files of the manifest, over the built-in ones, then the settings of a disk that
\* has no manifest.
PullListed(es) ==
  LET pulled[k \in 0 .. Len(listing)] ==
        IF k = 0 THEN es ELSE Pull(pulled[k - 1], listing[k])
  IN  pulled[Len(listing)]

load_persisted(es) ==
  LET named == IF disk[MANIFEST] = Listed THEN PullListed(es) ELSE es
  IN  IF exists(named, Settings) THEN named ELSE Pull(named, Settings)

BuiltIn == [i \in DOMAIN Defaults |-> File(Defaults[i], Builtin)]

\* System call 25.  The length of the data travels in 16 bits.
Stored(c) == IF c = Long THEN {Cut, Empty} ELSE {c}

\* One disk call.  It is refused over a directory, and it may fail.
Save(p, c) ==
  \/ \E s \in Stored(c) : Disk!WriteDone(p, s)
  \/ Disk!WriteFailed(p)

Refused(p) == disk[p] = Disk!Directory
Failed(p)  == ~result' /\ ~Refused(p)

CountFailure(failed) ==
  /\ failed => failures < MaxFailures
  /\ failures' = IF failed THEN failures + 1 ELSE failures

\* persist_write for a file: nothing happens when there is nothing to write.
persist_write(n, c) ==
  IF c = Empty THEN UNCHANGED <<disk, result, failures>>
  ELSE Save(n, c) /\ CountFailure(Failed(n))

\* There was something to save, it fits, and the disk reported success.
Kept(c) == Fits(c) /\ result'

\* n is in the manifest, or will be when the call that creates it is complete.
Reloads(n) ==
  \/ n \in ToSet(listing)
  \/ (~exists(entries, n) /\ n \notin ToSet(Defaults))

NoCall == [kind |-> "none", from |-> <<>>, to |-> <<>>, old |-> Absent, new |-> Absent,
           firm |-> FALSE]

\* A call that touches the names m and n; firm: both were promised until then.
Calling(kind, m, n, old, new) ==
  [kind |-> kind, from |-> m, to |-> n, old |-> old, new |-> new,
   firm |-> {m, n} \cap loose = {}]

Begin ==
  /\ phase = "idle"
  /\ calls < MaxCalls
  /\ calls' = calls + 1
  /\ UNCHANGED <<listing, seen>>

Finish ==
  /\ phase' = "idle"
  /\ call' = NoCall

\* flush_manifest comes next.
ThenFlush(c) ==
  /\ phase' = "flush"
  /\ call' = c

\* write.  The manifest is rewritten only if nothing had this name before.
Write(n, c) ==
  /\ Begin
  /\ entries' = write_mem(entries, n, c)
  /\ IF ~persistable(n)
     THEN /\ UNCHANGED <<disk, result, failures>>
          /\ loose' = loose \cup {n}
          /\ Finish
     ELSE /\ persist_write(n, c)
          /\ loose' = IF Kept(c) /\ Reloads(n)
                      THEN loose \ {n} ELSE loose \cup {n}
          /\ IF exists(entries, n) THEN Finish
             ELSE ThenFlush(Calling("create", n, n, Absent, c))

\* delete, of everything with this name.
Delete(n) ==
  /\ Begin
  /\ exists(entries, n)
  /\ entries' = Among(entries, Entry(Names \ {n}))
  /\ UNCHANGED <<disk, result, failures>>
  /\ loose' = IF n = Settings \/ n \in ToSet(Defaults) \/ ~persistable(n)
              THEN loose \cup {n} ELSE loose \ {n}
  /\ IF persistable(n)
     THEN ThenFlush(Calling("delete", n, n, read(entries, n), Absent))
     ELSE Finish

\* A rename of a plain file to a free name, both mirrored, which leaves nothing behind.
PlainRename(m, n) ==
  LET e == entries[FirstEntry(entries, m)]
  IN  /\ ~e.is_dir
      /\ persistable(m) /\ m # Settings /\ m \notin ToSet(Defaults)
      /\ ~exists(entries', m)
      /\ ~exists(entries, n)
      /\ Kept(e.data)

\* rename, of the first entry with this name, whatever the new name already means.
\* The old file stays on the disk.
Rename(m, n) ==
  /\ Begin
  /\ exists(entries, m)
  /\ LET i == FirstEntry(entries, m)
         e == entries[i]
     IN  /\ entries' = [entries EXCEPT ![i].name = n]
         /\ IF ~e.is_dir /\ persistable(n)
            THEN /\ persist_write(n, e.data)
                 /\ ThenFlush(Calling("rename", m, n, e.data, e.data))
            ELSE /\ UNCHANGED <<disk, result, failures>>
                 /\ Finish
         /\ loose' = IF ~e.is_dir /\ persistable(n) /\ PlainRename(m, n)
                     THEN loose \ {m, n} ELSE loose \cup {m, n}

Mkdir(n) ==
  /\ Begin
  /\ ~exists(entries, n)
  /\ entries' = Append(entries, Dir(n))
  /\ UNCHANGED <<disk, result, failures, loose>>
  /\ Finish

\* Seeded fault: files that are not mirrored are listed too.
ManifestAll(es) ==
  LET files == Among(es, {e \in ToSet(es) : ~e.is_dir})
  IN  [i \in DOMAIN files |-> files[i].name]

\* The names of all files in the tree that are mirrored.
Manifest(es) ==
  LET files == Among(es, {e \in ToSet(es) : ~e.is_dir /\ persistable(e.name)})
  IN  [i \in DOMAIN files |-> files[i].name]

\* flush_manifest.  If the manifest itself is lost, so is every promise.
FlushManifest ==
  /\ phase = "flush"
  /\ Save(MANIFEST, Listed)
  /\ CountFailure(~result')
  /\ IF result'
     THEN listing' = Manifest(entries) /\ UNCHANGED loose
     ELSE IF disk'[MANIFEST] = disk[MANIFEST]
     THEN UNCHANGED listing /\ loose' = loose \cup {call.from, call.to}
     ELSE listing' = <<>> /\ loose' = Names
  /\ Finish
  /\ UNCHANGED <<entries, seen, calls>>

\* The machine goes down; the disk keeps what it has.
Down ==
  /\ phase # "off"
  /\ phase' = "off"
  /\ entries' = <<>>
  /\ seen' = View(entries)
  /\ UNCHANGED <<device, call, loose, calls, failures>>

\* Vfs::new.  The tree and the disk agree again, but for built-in files whose change
\* is on the disk and not in the manifest, that of a call that was cut short too.
New ==
  /\ phase = "off"
  /\ entries' = load_persisted(BuiltIn)
  /\ loose' = (loose \cup {call.from, call.to}) \cap ToSet(Defaults)
  /\ Finish
  /\ UNCHANGED <<device, seen, calls, failures>>
-----------------------------------------------------------------------------
Init ==
  /\ phase = "off"
  /\ entries = <<>>
  /\ disk = [p \in DiskPaths |-> Disk!NoFile]
  /\ result = TRUE
  /\ listing = <<>>
  /\ call = NoCall
  /\ seen = View(BuiltIn)
  /\ loose = {}
  /\ calls = 0 /\ failures = 0

Call ==
  \/ \E n \in Names, c \in Inputs : Write(n, c)
  \/ \E n \in Names : Delete(n) \/ Mkdir(n)
  \/ \E m, n \in Names : Rename(m, n)

Next == Call \/ FlushManifest \/ Down \/ New

Spec == Init /\ [][Next]_vars
-----------------------------------------------------------------------------
\* Every variable holds a value of its kind.
TypeOK ==
  /\ phase \in {"off", "idle", "flush"}
  /\ \A i \in DOMAIN entries :
       entries[i] \in [name : Names, data : Contents, is_dir : BOOLEAN]
  /\ disk \in [DiskPaths -> Contents \cup {Disk!NoFile, Disk!Directory, Listed}]
  /\ result \in BOOLEAN
  /\ \A i \in DOMAIN listing : listing[i] \in Names \ LongNames
  /\ seen \in [Names -> Contents \cup {Absent}]
  /\ loose \in SUBSET Names
  /\ calls \in 0 .. MaxCalls /\ failures \in 0 .. MaxFailures

Restarts == phase = "off" /\ phase' = "idle"

\* What was saved is there after a restart, and what was deleted or renamed away is
\* not, whatever happened meanwhile to other names: their failed saves, their
\* duplicate or oversized entries, and calls cut short (vfs.rs:1-4, 6-8).
RestartShowsSaved ==
  [][Restarts => \A n \in Names \ (loose \cup Shadowed \cup {call.from, call.to}) :
                    read(entries', n) = seen[n]]_vars

\* A restart between the disk calls of one call on saved files finds the old or the new
\* state of the name; of a rename at least one of the two names holds the file
\* (vfs.rs:327-332: the data is written before the manifest).
CutCallIsSafe ==
  [][Restarts /\ call.firm /\ {call.from, call.to} \cap (loose \cup Shadowed) = {} =>
       IF call.kind = "rename"
       THEN call.old \in {read(entries', call.from), read(entries', call.to)}
       ELSE read(entries', call.to) \in {call.old, call.new}]_vars

\* "Files you create ... survive a reboot.  Save a note in the Text Editor ... it's all
\* still there next boot" (PERSISTENCE.md:3-5).  Refuted: saving over a built-in file
\* does not rewrite the manifest, so the change is not pulled back.
SavesSurvive ==
  [][Restarts /\ failures = 0 /\ call.kind = "none" =>
       \A n \in Names \ LongNames :
         seen[n] \in Fitting => read(entries', n) = seen[n]]_vars

------------------------------------------------------------------------------
(* The instance that is checked: a user's file, a name too long to be mirrored, *)
(* the settings in their directory, and one built-in file.                    *)
MCSettings == <<"config", "settings">>
MCLongNames == {<<"long">>}
MCNames    == {<<"a">>, <<"readme">>, <<"config">>, MCSettings} \cup MCLongNames
MCDefaults == << <<"readme">> >>
MCFitting  == {"x", "y"}
=============================================================================
