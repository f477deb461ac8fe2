-------------------------------- MODULE Shell --------------------------------
(* psh, the shell inside a terminal window (desktop-metal term.rs): lines of  *)
(* pipes, redirections and substitutions, and scripts, all run to their end   *)
(* by recursion in the handler of the Enter key.  What a command prints goes  *)
(* to the screen, or into a buffer (capture) while there is one.  A text is   *)
(* the sequence of its lines, each a sequence of words; a text that ends with *)
(* a line break has an empty last line.  A word is a number, and so are the   *)
(* names of files and variables.                                              *)
EXTENDS Integers, Sequences, SequencesExt, FiniteSets

CONSTANTS Lines,     \* what the user types
          Vars,      \* names of variables
          Scripts,   \* [file name -> sequence of statements]
          HEAD,      \* lines that head and tail print (10)
          Fuel,      \* bound: rounds of a loop, scripts inside scripts
          KM_MAX,    \* letters of a path in the kernel manager (60)
          MaxLines   \* bound: lines typed

VARIABLES sh,     \* vars, files, cwd, last_exit, close, capture, stdin; screen
          typed,  \* lines typed so far
          ran     \* the line that ran last, if no key came since

vars == <<sh, typed, ran>>

None == <<>>
NoName == 0
Root == 1000
Manifest == 1001   \* boot.manifest
Empty == <<<<>>>>
ERR == -1
Put(d, l) == Append([d EXCEPT ![Len(d)] = @ \o l], <<>>)
Joined(d, e) == Front(d) \o <<Last(d) \o Head(e)>> \o Tail(e)

\* write_output of one line.
Out(s, l) == IF s.capture # None THEN [s EXCEPT !.capture = Put(@, l)]
                                 ELSE [s EXCEPT !.screen = Put(@, l)]
OutAll(s, some) == FoldLeft(Out, s, some)

------------------------------------------------------------------------------
(* The file tree as the commands use it.                                      *)
Index(s, f) == {i \in 1..Len(s.files) : s.files[i].name = f}
Readable(s, f) == {i \in Index(s, f) : ~s.files[i].dir}
First(S) == CHOOSE i \in S : \A j \in S : i <= j
Read(s, f) == s.files[First(Readable(s, f))].data
Write(s, f, d) ==
    IF Readable(s, f) # {} THEN [s EXCEPT !.files[First(Readable(s, f))].data = d]
    ELSE [s EXCEPT !.files = Append(@, [name |-> f, dir |-> FALSE, data |-> d])]

Files(s, c) ==
    LET f == c.f  there == Index(s, f) # {}  readable == Readable(s, f) # {} IN
    CASE c.op = "touch" -> IF there THEN s ELSE Write(s, f, Empty)
      [] c.op = "mkdir" -> IF there THEN s
           ELSE [s EXCEPT !.files = Append(@, [name |-> f, dir |-> TRUE, data |-> Empty])]
      [] c.op = "rm" /\ there -> [s EXCEPT !.files = SelectSeq(@, LAMBDA e : e.name # f)]
      [] c.op = "cp" /\ readable -> Write(s, c.g, Read(s, f))
      [] c.op = "mv" /\ there -> [s EXCEPT !.files[First(Index(s, f))].name = c.g]
      [] OTHER -> Out(s, <<ERR>>)

cd(s, f) == IF f = NoName THEN [s EXCEPT !.cwd = Root]
            ELSE IF Index(s, f) # {} THEN [s EXCEPT !.cwd = f] ELSE Out(s, <<ERR>>)

\* n lines of a report whose words do not matter here.
Report(s, n) == OutAll(s, [i \in 1..n |-> <<i>>])

\* What only reports: the files, one of them, the variables, the machine.
list(s) == OutAll(s, [i \in 1..Len(s.files) |-> <<s.files[i].name>>])
find(s) == OutAll(s, [i \in 1..Len(s.files) |-> <<s.files[i].name, Len(s.files[i].data)>>])
stat(s, f) == IF Index(s, f) = {} THEN Out(s, <<ERR>>) ELSE Report(s, 3)
file(s, f) == IF Index(s, f) = {} THEN Out(s, <<ERR>>) ELSE Out(s, <<f, IF s.files[First(Index(s, f))].dir THEN 1 ELSE 0>>)
xxd(s, f) == IF Readable(s, f) = {} THEN Out(s, <<ERR>>) ELSE Report(s, IF Read(s, f) = Empty THEN 0 ELSE 1)
help(s) == Report(s, 2)
uname(s, op) == Report(s, IF op = "ps" THEN 2 ELSE 1)
sysinfo(s, op) == Report(s, IF op = "sysinfo" THEN 2 ELSE 1)
df(s, op) == Report(s, IF op = "lscpu" THEN 3 ELSE 2)
ifconfig(s) == [Report(s, 2) EXCEPT !.last_exit = 0]
ping(s, here) == [Out(s, <<IF here THEN 1 ELSE ERR>>) EXCEPT !.last_exit = IF here THEN 0 ELSE 1]
which(s) == Out(s, <<1>>)

\* Variables and aliases; an alias is listed, and never expanded.
env(s) == OutAll(s, SetToSeq({s.vars[x] : x \in DOMAIN s.vars} \ {None}))
export(s, x, ws) == IF ws = <<>> THEN Out(s, <<x>>) ELSE [s EXCEPT !.vars[x] = ws]
alias(s, c) == CASE c.op = "unalias" -> [s EXCEPT !.aliases = @ \ {c.f}]
                 [] c.op = "alias" /\ c.f # NoName -> [s EXCEPT !.aliases = @ \cup {c.f}]
                 [] OTHER -> Report(s, Cardinality(s.aliases))

clear(s) == [s EXCEPT !.screen = Empty]

\* fetch prints the page, wget puts it into a file; both need the network.
fetch(s) == IF s.net THEN Report(s, 3) ELSE [Report(s, 2) EXCEPT !.last_exit = 1]
curl(s) == IF s.net THEN Report(s, 2) ELSE [Out(s, <<ERR>>) EXCEPT !.last_exit = 1]
wget(s, f) == LET t == Out(s, <<1>>) IN
              IF s.net THEN Out(Write(t, f, Empty), <<1>>)
              ELSE [Out(t, <<ERR>>) EXCEPT !.last_exit = 1]

kinstall(s) == Report(Write(s, Manifest, Empty), 3)

\* nano and the kernel manager take over the window when the line has run.
nano(s, f) == [s EXCEPT !.editor = f]
kmanager(s) == [s EXCEPT !.km = <<"at">>]

------------------------------------------------------------------------------
(* Filters: of a file, or of what came through the pipe.                      *)
Least(n, m) == IF n < m THEN n ELSE m
Text(d) == SelectSeq(d, LAMBDA l : l # <<>>)
wc(d) == <<<<Len(d)>>>>
head(d) == SubSeq(d, 1, Least(HEAD, Len(d)))
tail(d) == SubSeq(d, Len(d) - Least(HEAD, Len(d)) + 1, Len(d))
sort(d) == SortSeq(Text(d), LAMBDA a, b : a[1] < b[1])
uniq(d) == LET ls == Text(d)
               keep == {i \in 1..Len(ls) : i = 1 \/ ls[i] # ls[i - 1]} IN
           [n \in 1..Cardinality(keep) |-> ls[SetToSortSeq(keep, <)[n]]]
cut(d) == Text(d)
rev(d) == [i \in 1..Len(Text(d)) |-> Reverse(Text(d)[i])]
tr(d, a, b) == [i \in 1..Len(d) |-> [k \in 1..Len(d[i]) |-> IF d[i][k] = a THEN b ELSE d[i][k]]]
cat(d) == d

Filters(s, c) ==
    LET d == IF c.f = NoName THEN s.stdin ELSE Read(s, c.f) IN
    IF c.f # NoName /\ Readable(s, c.f) = {} THEN Out(s, <<ERR>>)
    ELSE OutAll(s, CASE c.op = "wc" -> wc(d) [] c.op = "head" -> head(d) [] c.op = "tail" -> tail(d)
                     [] c.op = "sort" -> sort(d) [] c.op = "uniq" -> uniq(d) [] c.op = "cut" -> cut(d)
                     [] c.op = "rev" -> rev(d) [] OTHER -> cat(d))

grep(s, c) ==
    LET d == IF c.f = NoName THEN s.stdin ELSE Read(s, c.f)
        hits == SelectSeq(d, LAMBDA l : \E i \in 1..Len(l) : l[i] = c.args[1]) IN
    IF c.f # NoName /\ Readable(s, c.f) = {} THEN Out(s, <<ERR>>)
    ELSE IF hits # <<>> THEN OutAll(s, hits)
    ELSE [(IF d = Empty THEN Out(s, <<ERR>>) ELSE s) EXCEPT !.last_exit = 1]

\* tr and printf print without a line break of their own.
Raw(s, d) == IF s.capture # None THEN [s EXCEPT !.capture = Joined(@, d)]
                                 ELSE [s EXCEPT !.screen = Joined(@, d)]
printf(s, ws) == Raw(s, <<ws>>)

seq(s, n) == OutAll(s, [i \in 1..n |-> <<i>>])

\* test and [ ]: -e, =, -lt of expanded words.
test(s, c) ==
    LET holds == CASE c.f # NoName -> Index(s, c.f) # {}
                   [] Len(c.args) = 2 -> c.args[1] < c.args[2]
                   [] OTHER -> c.args # <<>> IN
    [s EXCEPT !.last_exit = IF holds THEN 0 ELSE 1]

------------------------------------------------------------------------------
(* Expansion, pipes and scripts.  left is what is left of the bound Fuel.     *)
RECURSIVE expand_vars(_, _, _), parse_and_exec(_, _, _), exec_script(_, _, _), exec_command(_, _, _),
          Loop(_, _, _, _), Each(_, _, _, _, _), ForLine(_, _, _, _, _)

Hung(s) == [s EXCEPT !.hung = TRUE]

\* $NAME, $? and $(line); the shell and the words that come of it.
expand_vars(s, ws, left) ==
    IF ws = <<>> THEN [s |-> s, ws |-> <<>>]
    ELSE LET w == Head(ws)
             sub == parse_and_exec([s EXCEPT !.capture = Empty], w.line, left - 1)
             got == IF sub.capture = None THEN Empty ELSE sub.capture
             after == [sub EXCEPT !.capture = s.capture]
             rest == expand_vars(IF w.k = "sub" THEN after ELSE s, Tail(ws), left)
             these == CASE w.k = "lit" -> <<w.n>>
                        [] w.k = "var" -> s.vars[w.x]
                        [] w.k = "exit" -> <<s.last_exit>>
                        [] OTHER -> FlattenSeq(got) IN
         [s |-> rest.s, ws |-> these \o rest.ws]

ExpandAll(s, segs, left) ==
    FoldLeft(LAMBDA acc, c : LET e == expand_vars(acc.s, c.args, left)
                                 b == expand_vars(e.s, c.body, left) IN
               [s |-> b.s, segs |-> Append(acc.segs, [c EXCEPT !.args = e.ws, !.body = b.ws])],
             [s |-> s, segs |-> <<>>], segs)

\* One segment of a pipe; every line ends without a buffer.
Segment(s, c, last, line, left) ==
    LET redirected == last /\ line.to # NoName
        u == exec_command(IF ~last \/ redirected THEN [s EXCEPT !.capture = Empty] ELSE s, c, left)
        got == IF u.capture = None THEN Empty ELSE u.capture
        w == [u EXCEPT !.capture = None] IN
    IF ~last THEN [w EXCEPT !.stdin = got]
    ELSE IF redirected
      THEN Out(Write(w, line.to, IF line.append /\ Readable(w, line.to) # {}
                                   THEN Joined(Read(w, line.to), got) ELSE got), <<Len(got)>>)
    ELSE w

parse_and_exec(s, line, left) ==
    IF s.hung \/ left = 0 THEN Hung(s)
    ELSE LET e == ExpandAll(s, line.segs, left)
             run[i \in 0..Len(e.segs)] ==
               IF i = 0 THEN [e.s EXCEPT !.stdin = Empty]
               ELSE Segment(run[i - 1], e.segs[i], i = Len(e.segs), line, left) IN
         [run[Len(e.segs)] EXCEPT !.stdin = Empty]

\* The condition of if and while: its output is thrown away.
Condition(s, line, left) ==
    [parse_and_exec([s EXCEPT !.last_exit = 0, !.capture = Empty], line, left) EXCEPT !.capture = s.capture]

\* The lines from i to the matching end word; nested ones are counted.
Matching(p, i, opens, closes) ==
    CHOOSE j \in i..Len(p) :
      LET depth(k) == 1 + Cardinality({m \in i..k : p[m].t \in opens})
                        - Cardinality({m \in i..k : p[m].t \in closes}) IN
      depth(j) = 0 /\ \A k \in i..(j - 1) : depth(k) > 0
Else(p, i, j) == {k \in i..(j - 1) : p[k].t = "else" /\
                    Cardinality({m \in i..k : p[m].t = "if"}) = Cardinality({m \in i..k : p[m].t = "fi"})}
BodyAt(p, i, w) == IF i + 1 <= Len(p) /\ p[i + 1].t = w THEN i + 2 ELSE i + 1

Each(s, x, items, body, left) ==
    IF items = <<>> \/ s.close \/ s.hung THEN s
    ELSE Each(exec_script([s EXCEPT !.vars[x] = <<Head(items)>>], body, left), x, Tail(items), body, left)

Loop(s, cond, body, left) ==
    LET c == Condition(s, cond, left) IN
    IF s.close THEN s ELSE IF s.hung \/ left = 0 THEN Hung(s)
    ELSE IF c.last_exit # 0 THEN c ELSE Loop(exec_script(c, body, left), cond, body, left - 1)

exec_script(s, p, left) ==
    IF p = <<>> \/ s.close \/ s.hung THEN s
    ELSE LET h == Head(p)
             b == BodyAt(p, 1, IF h.t = "if" THEN "then" ELSE "do")
             j == IF h.t = "if" THEN Matching(p, b, {"if"}, {"fi"}) ELSE Matching(p, b, {"for", "while"}, {"done"})
             e == Else(p, b, j)
             c == Condition(s, h.line, left)
             items == expand_vars(s, h.items, left) IN
         IF h.t = "cmd"
           THEN exec_script(parse_and_exec(Out(s, <<0>>), h.line, left), Tail(p), left)
         ELSE exec_script(
                CASE h.t = "for" -> Each(items.s, h.x, items.ws, SubSeq(p, b, j - 1), left)
                  [] h.t = "while" -> Loop(s, h.line, SubSeq(p, b, j - 1), left)
                  [] OTHER -> IF c.last_exit = 0
                                THEN exec_script(c, SubSeq(p, b, (IF e = {} THEN j ELSE First(e)) - 1), left)
                              ELSE IF e # {} THEN exec_script(c, SubSeq(p, First(e) + 1, j - 1), left)
                              ELSE c,
                SubSeq(p, j + 1, Len(p)), left)

\* for on one line: its body, here an echo, was expanded with the line, before
\* the loop sets the variable, and runs as a line of its own.
Lits(ws) == [i \in 1..Len(ws) |-> [k |-> "lit", n |-> ws[i]]]
ForLine(s, x, items, body, left) ==
    IF items = <<>> \/ s.close \/ s.hung THEN s
    ELSE ForLine(parse_and_exec([s EXCEPT !.vars[x] = <<Head(items)>>],
                   [segs |-> <<[op |-> "echo", f |-> NoName, g |-> NoName, args |-> Lits(body), body |-> <<>>]>>,
                    to |-> NoName, append |-> FALSE], left - 1),
                 x, Tail(items), body, left)

exec_command(s0, c, left) ==
    LET s == [s0 EXCEPT !.last_exit = 0] IN
    CASE c.op = "assign" -> [s0 EXCEPT !.vars[c.f] = c.args]
      [] c.op \in {"touch", "mkdir", "rm", "cp", "mv"} -> Files(s, c)
      [] c.op \in {"cat", "wc", "head", "tail", "sort", "uniq", "cut", "rev"} -> Filters(s, c)
      [] c.op = "grep" -> grep(s, c)
      [] c.op = "tr" -> Raw(s, tr(s.stdin, c.args[1], c.args[2]))
      [] c.op = "printf" -> printf(s, c.args)
      [] c.op = "echo" -> Out(s, c.args)
      [] c.op = "seq" -> seq(s, IF c.args = <<>> THEN 0 ELSE c.args[1])
      [] c.op = "test" -> test(s, c)
      [] c.op = "true" -> s
      [] c.op = "false" -> [s EXCEPT !.last_exit = 1]
      [] c.op = "export" -> export(s, c.f, c.args)
      [] c.op = "unset" -> [s EXCEPT !.vars[c.f] = None]
      [] c.op \in {"alias", "unalias"} -> alias(s, c)
      [] c.op = "exit" -> [Out(s, <<>>) EXCEPT !.close = TRUE]
      [] c.op = "psh" -> IF c.f \in DOMAIN Scripts THEN exec_script(s, Scripts[c.f], left - 1)
                         ELSE [Out(s, <<ERR>>) EXCEPT !.last_exit = 1]
      [] c.op = "for" -> ForLine(s, c.f, c.args, c.body, left)
      [] c.op = "unknown" -> Out(s, <<ERR>>)
      [] c.op = "cd" -> cd(s, c.f)
      [] c.op = "ls" -> list(s)
      [] c.op = "find" -> find(s)
      [] c.op = "stat" -> stat(s, c.f)
      [] c.op = "file" -> file(s, c.f)
      [] c.op = "xxd" -> xxd(s, c.f)
      [] c.op = "env" -> env(s)
      [] c.op = "pwd" -> Out(s, <<s.cwd>>)
      [] c.op = "clear" -> clear(s)
      [] c.op = "fetch" -> fetch(s)
      [] c.op = "wget" -> wget(s, c.f)
      [] c.op = "curl" -> curl(s)
      [] c.op = "kinstall" -> kinstall(s)
      [] c.op = "nano" -> nano(s, c.f)
      [] c.op = "kmanager" -> kmanager(s)
      [] c.op = "help" -> help(s)
      [] c.op \in {"uname", "ps"} -> uname(s, c.op)
      [] c.op \in {"df", "lscpu"} -> df(s, c.op)
      [] c.op = "ifconfig" -> ifconfig(s)
      [] c.op = "ping" -> ping(s, c.f = NoName)
      [] c.op = "which" -> which(s)
      [] OTHER -> sysinfo(s, c.op)

------------------------------------------------------------------------------
Init == /\ \E net \in BOOLEAN :
             sh = [vars |-> [x \in Vars |-> None], files |-> <<>>, cwd |-> Root, last_exit |-> 0,
                 close |-> FALSE, hung |-> FALSE, capture |-> None, stdin |-> Empty, screen |-> Empty, net |-> net,
                 aliases |-> {}, editor |-> NoName, km |-> None]
        /\ typed = 0 /\ ran = <<>>

\* Enter: the whole line runs inside the handler.
Enter == \E l \in Lines :
           /\ typed < MaxLines /\ typed' = typed + 1
           /\ ~sh.close /\ ~sh.hung /\ sh.editor = NoName /\ sh.km = None
           /\ sh' = parse_and_exec([sh EXCEPT !.screen = Empty], l, Fuel)
           /\ ran' = <<l>>

\* Ctrl+X: out of nano first (its other keys are in Nano), then of the manager.
Leave == /\ sh.editor # NoName \/ sh.km # None
         /\ sh' = IF sh.editor # NoName THEN [clear(sh) EXCEPT !.editor = NoName]
                                    ELSE [clear(sh) EXCEPT !.km = None]
         /\ ran' = <<>> /\ UNCHANGED typed

\* The kernel manager: a path is typed, and Enter stages what is in it.
InManager == sh.editor = NoName /\ sh.km # None /\ ran' = <<>> /\ UNCHANGED typed
KmType == /\ InManager /\ Len(sh.km) - 1 < KM_MAX
          /\ sh' = [sh EXCEPT !.km = Append(@, "letter")]
KmErase == InManager /\ Len(sh.km) > 1 /\ sh' = [sh EXCEPT !.km = Front(@)]
KmStage == InManager /\ Len(sh.km) > 1 /\ sh' = Write(sh, Manifest, Empty)

Next == Enter \/ Leave \/ KmType \/ KmErase \/ KmStage
Spec == Init /\ [][Next]_vars

------------------------------------------------------------------------------
TypeOK == /\ sh.capture \in Seq(Seq(Int)) /\ sh.last_exit \in {0, 1} /\ sh.close \in BOOLEAN
          /\ \A i \in 1..Len(sh.files) : sh.files[i].data # None

\* What a pipe means: each command reads what the one before it printed, what
\* the last one prints is written to the file or shown, and nothing else is.
Simple(l) == \A i \in 1..Len(l.segs) : /\ l.segs[i].op \notin {"psh", "exit", "for", "clear"}
                                       /\ \A k \in 1..Len(l.segs[i].args) : l.segs[i].args[k].k # "sub"
Printed(s, c, in) == exec_command([s EXCEPT !.stdin = in, !.capture = Empty], c, 1)
Meaning(s, l) ==
    LET cs == [i \in 1..Len(l.segs) |-> [l.segs[i] EXCEPT !.args = expand_vars(s, @, 1).ws]]
        after[i \in 0..Len(cs)] ==
          IF i = 0 THEN [s EXCEPT !.capture = Empty] ELSE Printed(after[i - 1], cs[i], after[i - 1].capture)
        end == after[Len(cs)] IN
    [files |-> IF l.to = NoName THEN end.files
               ELSE Write(end, l.to, IF l.append /\ Readable(end, l.to) # {}
                                       THEN Joined(Read(end, l.to), end.capture) ELSE end.capture).files,
     shown |-> IF l.to = NoName THEN end.capture ELSE Put(Empty, <<Len(end.capture)>>)]
PipesCompose ==
    ran' # <<>> => /\ sh'.capture = None /\ sh'.stdin = Empty
                   /\ Simple(ran'[1]) => LET m == Meaning(sh, ran'[1]) IN
                                         sh'.files = m.files /\ sh'.screen = m.shown

\* "Run inner command, capture output": on the line that ran last, $(line)
\* stands for what the line prints by itself.
Inner(l) == {w.line : w \in {v \in UNION {Range(l.segs[i].args) : i \in 1..Len(l.segs)} : v.k = "sub"}}
SubstitutionYields ==
    ran' # <<>> /\ ~sh'.hung =>
      \A in \in Inner(ran'[1]) :
        Simple(in) /\ in.to = NoName =>
          FlattenSeq(Meaning(sh, in).shown) =
            expand_vars(sh, <<[k |-> "sub", line |-> in]>>, Fuel).ws
==============================================================================
