-------------------------------- MODULE Elf --------------------------------
(* Loading a Linux program (kernel elf.rs, linux.rs enter): its segments are  *)
(* copied into memory one after the other, then those of the dynamic linker   *)
(* it names.  Sizes are counted in units; a header of a segment is one unit.  *)
EXTENDS Integers, Sequences, FiniteSetsExt

CONSTANTS Programs,   \* files: [magic, dyn, phoff, len, entry, ph]; ph is a
                      \* sequence of [type, off, vaddr, filesz, memsz]
          Linker,     \* the file of the dynamic linker in the initrd
          PAGE, Top,  \* size of a page, end of the memory looked at
          INTERP_BASE, PROG_BASE

VARIABLES prog,
          i,          \* segments of the current file that were seen
          phase,      \* "program", "linker", "ready" or "panic"
          mem,        \* address -> <<file, offset>>, Zero or Old
          entry       \* where the program itself starts

vars == <<prog, i, phase, mem, entry>>

Zero == <<"zero", 0>>
Old == <<"old", 0>>

Init == /\ prog \in Programs /\ i = 0 /\ entry = 0
        /\ phase = "program" /\ mem = [a \in 0..(Top - 1) |-> Old]

\* A program that is placed anywhere is not placed at 0.
is_dyn(f) == f.magic /\ f.dyn
prog_bias == IF is_dyn(prog) THEN PROG_BASE ELSE 0

File == IF phase = "program" THEN prog ELSE Linker
Bias == IF phase = "program" THEN prog_bias ELSE INTERP_BASE

\* The header of a segment that is in the file; the scans stop at one that is not.
Whole(f, k) == f.phoff + k <= f.len
Seen(f) == {k \in DOMAIN f.ph : \A j \in 1..k : Whole(f, j)}

\* interp_path: the first name of a linker that is in the file.
Interps(f) == {k \in Seen(f) : f.ph[k].type = "INTERP" /\ f.ph[k].off + f.ph[k].filesz <= f.len}
interp_path(f) == f.magic /\ Interps(f) # {}

Up(a) == ((a + PAGE - 1) \div PAGE) * PAGE
\* Seeded fault: the rest of the last page keeps what it held.
ClearedExactly(a, ph) == a..(a + ph.memsz - 1)

\* load_bias, one header: the segment is cleared up to the end of its last page
\* before it is known whether the file has the data.
Cleared(a, ph) == a..(Up(a + ph.memsz) - 1)
Load(ph) ==
    LET a == ph.vaddr + Bias
        clear == [x \in DOMAIN mem |-> IF x \in Cleared(a, ph) THEN Zero ELSE mem[x]]
        copied == [x \in DOMAIN mem |-> IF x \in a..(a + ph.filesz - 1) THEN <<phase, ph.off + x - a>> ELSE clear[x]]
    IN IF ph.type # "LOAD" \/ ph.memsz = 0 THEN i' = i + 1 /\ UNCHANGED <<mem, phase>>
       ELSE IF ph.filesz > 0 /\ ph.off + ph.filesz > File.len THEN mem' = clear /\ phase' = "panic" /\ UNCHANGED i
       ELSE mem' = copied /\ i' = i + 1 /\ UNCHANGED phase

Loading == phase \in {"program", "linker"} /\ File.magic /\ File.ph # <<>>
Segment == /\ Loading /\ i < Len(File.ph) /\ Whole(File, i + 1)
           /\ Load(File.ph[i + 1]) /\ UNCHANGED <<prog, entry>>
\* A file that is none, or whose headers are cut off, stops the kernel.
Refuse == /\ phase \in {"program", "linker"}
          /\ ~Loading \/ (i < Len(File.ph) /\ ~Whole(File, i + 1))
          /\ phase' = "panic" /\ UNCHANGED <<prog, i, mem, entry>>
Loaded == /\ Loading /\ i = Len(File.ph)
          /\ i' = 0 /\ UNCHANGED <<prog, mem>>
          /\ entry' = (IF phase = "program" THEN prog.entry + prog_bias ELSE entry)
          /\ phase' = (IF phase = "program" /\ interp_path(prog) THEN "linker" ELSE "ready")

Next == Segment \/ Refuse \/ Loaded
Spec == Init /\ [][Next]_vars

\* phdr_info: where the headers are in memory, for the auxiliary vector, or -1.
Covering(f) == {k \in Seen(f) : /\ f.ph[k].type = "LOAD" /\ f.phoff >= f.ph[k].off
                                /\ f.phoff < f.ph[k].off + f.ph[k].filesz}
phdr_info(f) == IF Covering(f) = {} THEN -1
                ELSE LET ph == f.ph[Min(Covering(f))] IN ph.vaddr + f.phoff - ph.off
AT_PHDR == IF phdr_info(prog) = -1 THEN 0 ELSE phdr_info(prog) + prog_bias

------------------------------------------------------------------------------
TypeOK == /\ phase \in {"program", "linker", "ready", "panic"}
          /\ i \in Nat /\ (phase # "panic" => i <= Len(File.ph))
          /\ \A a \in DOMAIN mem : mem[a] \in {Zero, Old} \cup ({"program", "linker"} \X Nat)

\* What linkers write: segments that go up and do not overlap, that hold no less
\* than their file part, and a table of headers within one of them.
Loads(f) == {k \in DOMAIN f.ph : f.ph[k].type = "LOAD"}
Proper(f) == /\ \A k \in Loads(f) : f.ph[k].filesz <= f.ph[k].memsz
             /\ \A k, j \in Loads(f) : k < j => f.ph[k].vaddr + f.ph[k].memsz <= f.ph[j].vaddr
             /\ \A k \in Covering(f) : f.phoff + Len(f.ph) <= f.ph[k].off + f.ph[k].filesz
\* The kernel does not look whether program and linker overlap, nor whether the
\* linker is such a file.
Filled(f) == {k \in Loads(f) : f.ph[k].memsz > 0}
Start(k) == prog.ph[k].vaddr + prog_bias
Apart == interp_path(prog) =>
    \A j \in Filled(Linker) :
      LET there == Cleared(Linker.ph[j].vaddr + INTERP_BASE, Linker.ph[j])
      IN /\ Linker.ph[j].filesz <= Linker.ph[j].memsz
         /\ \A k \in Filled(prog) : Cleared(Start(k), prog.ph[k]) \cap there = {}

\* A segment is in memory as the file has it, zero behind its file part and up to
\* the end of its last page unless one of the next, up to the nth, is there.
InPlace(k, n) ==
    LET ph == prog.ph[k]
    IN /\ \A x \in 0..(ph.filesz - 1) : mem[Start(k) + x] = <<"program", ph.off + x>>
       /\ ph.memsz > 0 =>
            \A x \in (Start(k) + ph.filesz)..(Up(Start(k) + ph.memsz) - 1) :
              (\A j \in Loads(prog) : k < j /\ j <= n => x < Start(j)) => mem[x] = Zero

\* When the program is entered its segments are in memory as the file has them,
\* and the headers are where the program is told they are.
ImageRight == phase = "ready" /\ Proper(prog) /\ Apart =>
    /\ \A k \in Loads(prog) : InPlace(k, Len(prog.ph))
    /\ phdr_info(prog) # -1 => \A x \in 0..(Len(prog.ph) - 1) : mem[AT_PHDR + x] = <<"program", prog.phoff + x>>

------------------------------------------------------------------------------
(* What is proved of it: see KernelParts.                                     *)

\* What is assumed of the constants: the programs are files, and there is memory
\* for the segments they ask for.
Header == [type : STRING, off : Nat, vaddr : Nat, filesz : Nat, memsz : Nat]
ElfConstants ==
    /\ Programs \subseteq [magic : BOOLEAN, dyn : BOOLEAN, phoff : Nat, len : Nat, entry : Nat, ph : Seq(Header)]
    /\ Linker \in [magic : BOOLEAN, dyn : BOOLEAN, phoff : Nat, len : Nat, entry : Nat, ph : Seq(Header)]
    /\ PAGE \in Nat \ {0} /\ Top \in Nat /\ INTERP_BASE \in Nat /\ PROG_BASE \in Nat
    /\ \A f \in Programs : \A k \in DOMAIN f.ph : \A b \in {0, PROG_BASE} :
         Up(f.ph[k].vaddr + b + f.ph[k].memsz) <= Top

\* The segments of the program that were loaded stay in place while the others,
\* and then those of the linker, are.
Count == IF phase = "program" THEN i ELSE Len(prog.ph)
SoFar == phase # "panic" /\ Proper(prog) /\ (phase = "program" \/ Apart) =>
             \A k \in Loads(prog) : k <= Count => InPlace(k, Count)
Typed == /\ prog \in Programs /\ DOMAIN mem = 0..(Top - 1)
         /\ TypeOK /\ (phase = "linker" => interp_path(prog))
Inv == Typed /\ SoFar
==============================================================================
