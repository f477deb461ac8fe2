-------------------------------- MODULE Files --------------------------------
(* The files of the initial RAM disk: the inode table and its deletions       *)
(* (kernel ramfs.rs), the descriptors (kernel vfs.rs), the system calls over  *)
(* them (syscall.rs), psh commands that read and remove (user-psh), and the   *)
(* file manager that lists, sorts and deletes (desktop-metal app.rs).  A name *)
(* is a number, in the order of the names; a path is a sequence of names.     *)
EXTENDS Integers, Sequences, FiniteSets, SequencesExt

CONSTANTS Archives,    \* archives: sequences of [path, size], size 0 for a directory
          MAX_INODES,  \* entries of the inode table (64)
          FDS,         \* descriptors of files (3..15)
          ROOM,        \* rows that fit the listing's 4096 bytes
          CHUNK,       \* bytes that cat reads at once (256)
          BUF,         \* bytes that wc, head and grep read, once (4096)
          MaxDepth     \* bound: how deep into directories the file manager is taken

VARIABLES inodes, deleted,   \* the table, and the indices that are gone
          fd_table,          \* descriptor -> [ino, pos], or Closed
          job,               \* psh: [cmd, fd, ino, got]
          cwd, entries, selected, sort_mode, clipboard,  \* the file manager
          open,              \* it has been opened
          fresh              \* nothing was removed elsewhere since its refresh

fs == <<inodes, deleted, fd_table>>
fm == <<cwd, entries, selected, sort_mode, clipboard>>
vars == <<fs, job, fm, open, fresh>>

Closed == [ino |-> 0, pos |-> 0]
NoJob == [cmd |-> "none", fd |-> 0, ino |-> 0, got |-> 0]

------------------------------------------------------------------------------
(* ramfs.rs.  Entries without data are skipped, those beyond the table too.   *)
AtMost(n, most) == IF n < most THEN n ELSE most
\* A set in its order, given what comes before each member.
Ranking(before) ==
    [k \in 1..Cardinality(DOMAIN before) |-> CHOOSE i \in DOMAIN before : Cardinality(before[i]) = k - 1]
InOrder(S) == Ranking([i \in S |-> {j \in S : j < i}])
Loaded(archive) ==
    LET files == InOrder({i \in DOMAIN archive : archive[i].size > 0}) IN
    [k \in 1..AtMost(Len(files), MAX_INODES) |-> archive[files[k]]]
Live == {i \in 1..Len(inodes) : i \notin deleted}
FirstOf(S) == IF S = {} THEN 0 ELSE CHOOSE i \in S : \A j \in S : i <= j
\* The first inode of that name: a second one shows when the first is deleted.
find(path) == FirstOf({i \in Live : inodes[i].path = path})

Init == /\ inodes = <<>> /\ deleted = {} /\ fd_table = [d \in FDS |-> Closed] /\ job = NoJob
        /\ cwd = <<>> /\ entries = <<>> /\ selected = 0 /\ sort_mode = 0 /\ clipboard = <<>>
        /\ open = FALSE /\ fresh = TRUE

init(archive) == /\ inodes = <<>> /\ inodes' = Loaded(archive)
                 /\ UNCHANGED <<deleted, fd_table, job, fm, open, fresh>>

delete(i) == deleted \cup {i}
sys_delete(path) == find(path) # 0 /\ deleted' = delete(find(path))

\* sys_listdir: the files directly in the directory, in the table's order.
InDir(dir, gone) == {i \in 1..Len(inodes) : i \notin gone /\ Front(inodes[i].path) = dir}
listdir(dir, gone) ==
    LET rows == InOrder(InDir(dir, gone)) IN
    [k \in 1..AtMost(Len(rows), ROOM) |-> [name |-> Last(inodes[rows[k]].path), size |-> inodes[rows[k]].size]]

------------------------------------------------------------------------------
(* psh.  cat reads to the end in chunks, wc, head and grep read once.         *)
Open(cmd, path) ==
    LET free == {d \in FDS : fd_table[d] = Closed} IN
    /\ job = NoJob /\ find(path) # 0 /\ free # {}
    /\ fd_table' = [fd_table EXCEPT ![FirstOf(free)] = [ino |-> find(path), pos |-> 0]]
    /\ job' = [cmd |-> cmd, fd |-> FirstOf(free), ino |-> find(path), got |-> 0]
    /\ UNCHANGED <<inodes, deleted, fm, open, fresh>>

\* vfs::read, and what the command does with the count.
Got(d, len) == AtMost(inodes[fd_table[d].ino].size - fd_table[d].pos, len)
Read == /\ job.cmd = "cat"
        /\ LET n == Got(job.fd, CHUNK) IN
           /\ fd_table' = [fd_table EXCEPT ![job.fd].pos = @ + n]
           /\ job' = [job EXCEPT !.got = @ + n, !.cmd = IF n > 0 THEN "cat" ELSE "done"]
        /\ UNCHANGED <<inodes, deleted, fm, open, fresh>>
ReadOnce == /\ job.cmd = "wc"
            /\ LET n == Got(job.fd, BUF) IN
               /\ fd_table' = [fd_table EXCEPT ![job.fd].pos = @ + n]
               /\ job' = [job EXCEPT !.got = n, !.cmd = "done"]
            /\ UNCHANGED <<inodes, deleted, fm, open, fresh>>
Close == /\ job.cmd = "done" /\ fd_table' = [fd_table EXCEPT ![job.fd] = Closed] /\ job' = NoJob
         /\ UNCHANGED <<inodes, deleted, fm, open, fresh>>

\* rm: sys_delete of the first inode of the name.
cmd_rm(path) ==
    /\ job = NoJob /\ sys_delete(path) /\ fresh' = FALSE
    /\ UNCHANGED <<inodes, fd_table, job, fm, open>>

------------------------------------------------------------------------------
(* The file manager.                                                          *)
Before(a, b, mode) ==
    CASE mode = 0 -> a.name < b.name
      [] mode = 1 -> a.name > b.name
      [] mode = 2 -> a.size > b.size \/ (a.size = b.size /\ a.name < b.name)
      [] OTHER    -> a.size < b.size \/ (a.size = b.size /\ a.name < b.name)
\* A stable sort: equal rows keep their order.
Ahead(rows, i, mode) ==
    {j \in DOMAIN rows : Before(rows[j], rows[i], mode) \/ (j < i /\ ~Before(rows[i], rows[j], mode))}
apply_sort(rows, mode) ==
    LET place == Ranking([i \in DOMAIN rows |-> Ahead(rows, i, mode)]) IN [k \in DOMAIN rows |-> rows[place[k]]]

Refreshed(dir, gone) == /\ cwd' = dir /\ entries' = apply_sort(listdir(dir, gone), sort_mode)
                        /\ selected' = 0 /\ fresh' = TRUE
Row == entries[selected + 1]
Chosen == selected < Len(entries)

\* Opened from the desktop: new and refresh.
Launch == /\ inodes # <<>> /\ ~open /\ open' = TRUE /\ Refreshed(<<>>, deleted)
          /\ UNCHANGED <<fs, job, sort_mode, clipboard>>
nav_up == /\ open /\ selected > 0 /\ selected' = selected - 1
          /\ UNCHANGED <<fs, job, cwd, entries, sort_mode, clipboard, open, fresh>>
nav_down == /\ open /\ selected < Len(entries) - 1 /\ selected' = selected + 1
            /\ UNCHANGED <<fs, job, cwd, entries, sort_mode, clipboard, open, fresh>>
on_mouse(row) == /\ open /\ row < Len(entries) /\ row # selected /\ selected' = row
                 /\ UNCHANGED <<fs, job, cwd, entries, sort_mode, clipboard, open, fresh>>
\* Enter goes into the row as if it were a directory, a file too.
Enter == /\ open /\ Chosen /\ Len(cwd) < MaxDepth /\ Refreshed(Append(cwd, Row.name), deleted)
         /\ UNCHANGED <<fs, job, sort_mode, clipboard, open>>
Back == /\ open /\ cwd # <<>> /\ Refreshed(Front(cwd), deleted)
        /\ UNCHANGED <<fs, job, sort_mode, clipboard, open>>
copy_selected == /\ open /\ Chosen /\ clipboard' = Append(cwd, Row.name)
                 /\ UNCHANGED <<fs, job, cwd, entries, selected, sort_mode, open, fresh>>
\* The row's path is deleted; when it was already gone the listing stays.
delete_selected ==
    /\ open /\ Chosen /\ sys_delete(Append(cwd, Row.name)) /\ Refreshed(cwd, deleted')
    /\ UNCHANGED <<inodes, fd_table, job, sort_mode, clipboard, open>>
\* Seeded fault: the rows keep the order they had.
SortAsBefore ==
    LET mode == (sort_mode + 1) % 4 IN
    /\ open /\ sort_mode' = mode /\ entries' = apply_sort(entries, sort_mode)
    /\ selected' = (IF Chosen THEN FirstOf({i \in 1..Len(entries) : entries'[i].name = Row.name}) - 1 ELSE selected)
    /\ UNCHANGED <<fs, job, cwd, clipboard, open, fresh>>

\* The next order; the first row with the selected name is selected.
Sort ==
    LET mode == (sort_mode + 1) % 4 IN
    /\ open /\ sort_mode' = mode /\ entries' = apply_sort(entries, mode)
    /\ selected' = (IF Chosen THEN FirstOf({i \in 1..Len(entries) : entries'[i].name = Row.name}) - 1 ELSE selected)
    /\ UNCHANGED <<fs, job, cwd, clipboard, open, fresh>>

Paths == {inodes[i].path : i \in 1..Len(inodes)}
Next == \/ \E a \in Archives : init(a)
        \/ \E path \in Paths : cmd_rm(path) \/ Open("cat", path) \/ Open("wc", path)
        \/ Read \/ ReadOnce \/ Close
        \/ Launch \/ nav_up \/ nav_down \/ Enter \/ Back \/ copy_selected \/ delete_selected \/ Sort
        \/ \E row \in 0..(ROOM - 1) : on_mouse(row)
Spec == Init /\ [][Next]_vars

------------------------------------------------------------------------------
\* Type correctness.
TypeOK == /\ deleted \subseteq 1..Len(inodes) /\ Len(inodes) <= MAX_INODES
          /\ fd_table \in [FDS -> [ino : 0..MAX_INODES, pos : Nat]]
          /\ sort_mode \in 0..3 /\ selected \in 0..ROOM /\ open \in BOOLEAN /\ fresh \in BOOLEAN

\* The selection is on a row.  A listing that nobody overtook shows the files
\* of its directory, each as often as it is there and in the order that the
\* header names, and every row can be opened.
ListShown ==
    LET here == InDir(cwd, deleted)
        As(name, size) == {i \in here : Last(inodes[i].path) = name /\ inodes[i].size = size} IN
    /\ open => selected < Len(entries) \/ selected = 0
    /\ open => \A i, j \in 1..Len(entries) : i < j => ~Before(entries[j], entries[i], sort_mode)
    /\ open /\ fresh =>
         /\ Len(entries) = AtMost(Cardinality(here), ROOM)
         /\ \A i \in 1..Len(entries) :
              LET row == entries[i] IN
              /\ Cardinality({k \in 1..Len(entries) : entries[k] = row}) <= Cardinality(As(row.name, row.size))
              /\ find(Append(cwd, row.name)) # 0

\* A command reads the file that it opened, all of it as far as its buffer goes
\* even when it is deleted meanwhile, and gives its descriptor back.
ReadsRight ==
    /\ job = NoJob => \A d \in FDS : fd_table[d] = Closed
    /\ job.cmd = "done" => \/ job.got = inodes[job.ino].size
                           \/ job.got = BUF /\ inodes[job.ino].size > BUF

------------------------------------------------------------------------------
(* What is proved of it, in KernelParts.                                      *)
PathName == Seq(Int) \ {<<>>}
FilesConstants ==
    /\ Archives \subseteq Seq([path : PathName, size : Nat])
    /\ MAX_INODES \in Nat /\ FDS \subseteq Nat /\ ROOM \in Nat /\ CHUNK \in Nat \ {0} /\ BUF \in Nat

TableSound == \E n \in 0..MAX_INODES : inodes \in [1..n -> [path : PathName, size : Nat \ {0}]]

\* The descriptor of the command is the one that is open, on the file that the
\* command opened and as far into it as the command has read.
JobSound ==
    \/ job = NoJob /\ \A d \in FDS : fd_table[d] = Closed
    \/ /\ job \in [cmd : {"cat", "wc", "done"}, fd : FDS, ino : 1..Len(inodes), got : Nat]
       /\ job.got <= inodes[job.ino].size
       /\ \A d \in FDS : fd_table[d] = IF d = job.fd THEN [ino |-> job.ino, pos |-> job.got] ELSE Closed
       /\ job.cmd = "wc" => job.got = 0
       /\ job.cmd = "done" => \/ job.got = inodes[job.ino].size
                              \/ job.got = BUF /\ inodes[job.ino].size > BUF

\* The rows are files of the directory, no file twice.
Numbering(f, rows) ==
    /\ \A i, j \in DOMAIN f : f[i] = f[j] => i = j
    /\ \A i \in DOMAIN f : rows[i] = [name |-> Last(inodes[f[i]].path), size |-> inodes[f[i]].size]
Shows(rows, files) == \E f \in [1..Len(rows) -> files] : Numbering(f, rows)
RowsSound ==
    /\ \E n \in 0..ROOM : entries \in [1..n -> [name : Int, size : Nat]]
    /\ open => inodes # <<>>
    /\ open => \A i, j \in 1..Len(entries) : i < j => ~Before(entries[j], entries[i], sort_mode)
    /\ selected \in Nat /\ (selected < Len(entries) \/ selected = 0)
    /\ open /\ fresh => /\ Len(entries) = AtMost(Cardinality(InDir(cwd, deleted)), ROOM)
                       /\ Shows(entries, InDir(cwd, deleted))
FilesInv == TypeOK /\ TableSound /\ JobSound /\ RowsSound

==============================================================================
