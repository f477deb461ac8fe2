------------------------------ MODULE Packages ------------------------------
(* rpm, the package manager of the hosted shell (shell/src/pkg.rs): the cached *)
(* index, the order in which a package and its dependencies are installed, and *)
(* the directories and links that are left when a step fails.                  *)
EXTENDS Integers, Sequences, FiniteSets, SequencesExt

CONSTANTS Indexes,   \* what the server may publish: lines, each a sequence of words
          Dir,       \* url -> the directory its .rpkg unpacks to
          NamesOf,   \* directory -> its name, and what is before a "-" in it
          Bins,      \* directory -> its programs
          MaxSteps   \* bound: commands

VARIABLES cache,   \* repo.tern: lines, or NoCache
          signed,  \* a repository key is provisioned
          dirs,    \* directories under packages/
          whole,   \* those that were unpacked completely
          links,   \* program -> the directory that its link points into, or ""
          job,     \* an installation by name: [name, order, at]
          result,  \* of the last command
          steps

vars == <<cache, signed, dirs, whole, links, job, result, steps>>

NoCache == <<"none">>
NoJob == [name |-> "", order |-> <<>>, at |-> 0]
Programs == UNION {Bins[d] : d \in DOMAIN Bins}

------------------------------------------------------------------------------
(* The index: "@pkg name version url sha deps", the first line of a name counts. *)
parse(lines) ==
    LET good == SelectSeq(lines, LAMBDA l : l # <<>> /\ l[1] = "@pkg" /\ Len(l) >= 4) IN
    [i \in DOMAIN good |->
        [name |-> good[i][2], url |-> good[i][4],
         sha |-> Len(good[i]) >= 5 /\ good[i][5] # "-", deps |-> SubSeq(good[i], 6, Len(good[i]))]]
get(idx, n) == SelectSeq(idx, LAMBDA p : p.name = n)

\* By a directory that starts with the name and a "-", whatever it is a package of.
is_installed(n) == \E d \in dirs : n \in NamesOf[d]

\* Seeded fault: a package before what it needs, and no test for loops.
RECURSIVE visitFirst(_, _, _)
visitFirst(idx, n, s) ==
    IF s.err # "" \/ Contains(s.order, n) \/ is_installed(n) THEN s
    ELSE LET pkg == get(idx, n) IN
         IF pkg = <<>> THEN [s EXCEPT !.err = "missing"]
         ELSE FoldLeft(LAMBDA t, d : visitFirst(idx, d, t), [s EXCEPT !.order = Append(@, n)], pkg[1].deps)

\* Depth first; what has been resolved or is installed is skipped.
RECURSIVE visit(_, _, _)
visit(idx, n, s) ==
    CASE s.err # "" -> s
      [] s.err = "" /\ (Contains(s.order, n) \/ is_installed(n)) -> s
      [] s.err = "" /\ ~Contains(s.order, n) /\ ~is_installed(n) /\ n \in s.visiting -> [s EXCEPT !.err = "cycle"]
      [] OTHER ->
           LET pkg == get(idx, n) IN
           IF pkg = <<>> THEN [s EXCEPT !.err = "missing"]
           ELSE LET sub == FoldLeft(LAMBDA t, d : visit(idx, d, t), [s EXCEPT !.visiting = @ \cup {n}], pkg[1].deps) IN
                IF sub.err # "" THEN sub
                ELSE [sub EXCEPT !.visiting = @ \ {n}, !.order = Append(@, n)]
resolve(idx, n) == visit(idx, n, [order |-> <<>>, visiting |-> {}, err |-> ""])

------------------------------------------------------------------------------
Init == /\ cache = NoCache /\ signed = FALSE /\ dirs = {} /\ whole = {} /\ links = [p \in Programs |-> ""]
        /\ job = NoJob /\ result = "" /\ steps = 0

Command == job = NoJob /\ steps < MaxSteps /\ steps' = steps + 1

\* The download goes straight to the cache.  With a key its signature is tested after.
update_repo(index, sig) ==
    /\ Command
    /\ cache' = (IF signed /\ sig # "good" THEN NoCache ELSE index)
    /\ result' = (IF signed /\ sig # "good" THEN "error" ELSE "ok")
    /\ UNCHANGED <<signed, dirs, whole, links, job>>
\* wget fails: the cache is what it has written of it by then.
UpdateFails == /\ Command /\ cache' \in {cache, <<>>} /\ result' = "error"
               /\ UNCHANGED <<signed, dirs, whole, links, job>>
provision_key(on) == /\ Command /\ signed # on /\ signed' = on /\ result' = "ok"
                     /\ UNCHANGED <<cache, dirs, whole, links, job>>

install_by_name(n) ==
    LET r == resolve(parse(cache), n) IN
    /\ Command
    /\ IF cache = NoCache THEN result' = "no index" /\ UNCHANGED job
       ELSE IF r.err # "" THEN result' = r.err /\ UNCHANGED job
       ELSE IF r.order = <<>> THEN result' = "present" /\ UNCHANGED job
       ELSE /\ job' = [name |-> n, order |-> r.order, at |-> 1]
            /\ result' = ""
    /\ UNCHANGED <<cache, signed, dirs, whole, links>>

\* PackageManager::install: the directory must be new; its programs are linked over old links.
Unpacked(d) == /\ dirs' = dirs \cup {d} /\ whole' = whole \cup {d}
               /\ links' = [p \in Programs |-> IF p \in Bins[d] THEN d ELSE links[p]]
Half(d) == dirs' = dirs \cup {d} /\ whole' = whole \ {d} /\ UNCHANGED links

\* The next package of the order.
Install ==
    LET d == Dir[get(parse(cache), job.order[job.at])[1].url] IN
    /\ job # NoJob /\ d \notin dirs /\ Unpacked(d)
    /\ IF job.at = Len(job.order) THEN job' = NoJob /\ result' = "ok"
       ELSE job' = [job EXCEPT !.at = @ + 1] /\ UNCHANGED result
    /\ UNCHANGED <<cache, signed, steps>>
\* A download or a digest that fails; a directory that is there; an archive that breaks off.
Fail ==
    LET d == Dir[get(parse(cache), job.order[job.at])[1].url] IN
    /\ job # NoJob /\ job' = NoJob /\ result' = "error"
    /\ \/ UNCHANGED <<dirs, whole, links>>
       \/ d \notin dirs /\ Half(d)
    /\ UNCHANGED <<cache, signed, steps>>

\* A local .rpkg or a url, without the index.
install(url) ==
    LET d == Dir[url] IN
    /\ Command
    /\ \/ d \notin dirs /\ Unpacked(d) /\ result' = "ok"
       \/ d \notin dirs /\ Half(d) /\ result' = "error"
       \/ UNCHANGED <<dirs, whole, links>> /\ result' = "error"
    /\ UNCHANGED <<cache, signed, job>>
\* The links stay and point nowhere.
remove(d) == /\ Command /\ d \in dirs /\ dirs' = dirs \ {d} /\ whole' = whole \ {d} /\ result' = "ok"
             /\ UNCHANGED <<cache, signed, links, job>>

Names == UNION {NamesOf[d] : d \in DOMAIN NamesOf}
Next == \/ \E i \in Indexes, sig \in {"good", "bad"} : update_repo(i, sig)
        \/ \E on \in BOOLEAN : provision_key(on)
        \/ \E n \in Names : install_by_name(n)
        \/ Install \/ Fail \/ UpdateFails
        \/ \E url \in DOMAIN Dir : install(url)
        \/ \E d \in dirs : remove(d)
Spec == Init /\ [][Next]_vars

------------------------------------------------------------------------------
\* Type correctness.
TypeOK == /\ whole \subseteq dirs /\ dirs \subseteq DOMAIN Bins /\ signed \in BOOLEAN
          /\ links \in [Programs -> DOMAIN Bins \cup {""}]
          /\ job.at \in 0..Len(job.order)

\* What is missing for a name: it and, through the index, its dependencies.
Deps(n) == LET p == get(parse(cache), n) IN IF p = <<>> THEN {} ELSE ToSet(p[1].deps)
Missing[S \in SUBSET Names] ==
    LET more == S \cup {d \in UNION {Deps(n) : n \in S} : ~is_installed(d)} IN
    IF more = S THEN S ELSE Missing[more]
Above(n) == Missing[{d \in Deps(n) : ~is_installed(d)}]

\* Before an installation by name starts, its order holds what is missing, each
\* once and after its dependencies (pkg.rs resolve); it refuses a name exactly
\* when something is not in the index or depends on itself.
OrderRight ==
    job = NoJob /\ cache # NoCache =>
        \A n \in Names : LET r == resolve(parse(cache), n)
                             M == IF is_installed(n) THEN {} ELSE Missing[{n}] IN
            /\ (r.err # "") = (\E x \in M : get(parse(cache), x) = <<>> \/ x \in Above(x))
            /\ r.err = "" => /\ ToSet(r.order) = M /\ Len(r.order) = Cardinality(M)
                             /\ \A i \in 1..Len(r.order) : \A d \in Deps(r.order[i]) :
                                  is_installed(d) \/ \E j \in 1..(i - 1) : r.order[j] = d

\* During one, a directory is made only when the package's dependencies have
\* theirs, so that a failure leaves no package that lacks one.
DepsFirst == job # NoJob => \A i \in 1..(job.at - 1) :
                 is_installed(job.order[i]) /\ \A d \in Deps(job.order[i]) : is_installed(d)
==============================================================================
