------------------------------- MODULE Script -------------------------------
(* The script interpreter (desktop-metal tjs.rs): its parser by precedence    *)
(* climbing and its tree walk over a stack of scopes, with a cap on the steps.*)
(* The lexer is left out: a program is its tokens.  A string value is a       *)
(* sequence of character codes, the text of a number is one of them.          *)
EXTENDS Integers, Sequences, SequencesExt, FiniteSetsExt, TLC

CONSTANTS Alphabet,   \* tokens of the expressions that are typed
          MaxTokens,  \* bound: their length
          Programs,   \* name -> [source |-> tokens, out |-> what it must log]
          MaxSteps    \* steps before a program is stopped

VARIABLES source,     \* the tokens of the expression
          chosen      \* the program that is run, or "none"

vars == <<source, chosen>>

T(k) == [k |-> k, v |-> 0]
Num(n) == [k |-> "num", v |-> n]
Id(x) == [k |-> "id", v |-> x]
Str(cs) == [k |-> "str", v |-> cs]

------------------------------------------------------------------------------
(* The parser.  A result is a tree, the place after it and whether all is     *)
(* well; the last token is "eof" and is never passed.                         *)
Bp == "||" :> 1 @@ "&&" :> 2 @@ "==" :> 3 @@ "!=" :> 3 @@ "===" :> 3 @@ "!==" :> 3
      @@ "<" :> 4 @@ "<=" :> 4 @@ ">" :> 4 @@ ">=" :> 4 @@ "+" :> 5 @@ "-" :> 5
      @@ "*" :> 6 @@ "/" :> 6 @@ "%" :> 6
Kind(ts, i) == ts[i].k
Past(ts, i) == IF i < Len(ts) THEN i + 1 ELSE i
Got(e, i) == [ok |-> TRUE, e |-> e, i |-> i]
Bad(i) == [ok |-> FALSE, e |-> "bad", i |-> i]

\* eat: the expected token, and the tree so far.
Eat(ts, r, k) == IF r.ok /\ Kind(ts, r.i) = k THEN [r EXCEPT !.i = Past(ts, @)] ELSE Bad(r.i)
\* Wrap the tree of a result.
Made(r, F(_)) == IF r.ok THEN Got(F(r.e), r.i) ELSE r

Lit(t, v) == [k |-> "lit", v |-> [t |-> t, v |-> v]]
None == [k |-> "none"]

RECURSIVE expr(_, _), bin_expr(_, _, _), Climb(_, _, _), unary(_, _), Postfixed(_, _), List(_, _, _, _)

\* The comma-separated expressions up to the closing token.
List(ts, i, close, es) ==
    IF Kind(ts, i) = close THEN Got(es, i)
    ELSE LET r == expr(ts, i) IN
         IF ~r.ok THEN r
         ELSE IF Kind(ts, r.i) = "," THEN List(ts, Past(ts, r.i), close, Append(es, r.e))
         ELSE Got(Append(es, r.e), r.i)

expr(ts, i) ==
    LET l == bin_expr(ts, i, 0) IN
    IF ~l.ok \/ Kind(ts, l.i) # "=" THEN l
    ELSE IF l.e.k \notin {"id", "index"} THEN Bad(l.i)
    ELSE Made(expr(ts, Past(ts, l.i)), LAMBDA v : [k |-> "assign", to |-> l.e, v |-> v])

bin_expr(ts, i, min) == Climb(ts, unary(ts, i), min)
Climb(ts, l, min) ==
    IF ~l.ok THEN l
    ELSE LET o == Kind(ts, l.i) IN
         IF o \notin DOMAIN Bp THEN l
         ELSE IF Bp[o] < min THEN l
         ELSE Climb(ts, Made(bin_expr(ts, Past(ts, l.i), Bp[o] + 1),
                             LAMBDA r : [k |-> "bin", o |-> o, l |-> l.e, r |-> r]), min)

primary(ts, i) ==
    LET n == Past(ts, i) IN
    CASE Kind(ts, i) \in {"num", "str"} -> Got(Lit(ts[i].k, ts[i].v), n)
      [] Kind(ts, i) \in {"true", "false"} -> Got(Lit("bool", Kind(ts, i) = "true"), n)
      [] Kind(ts, i) = "null" -> Got(Lit("null", 0), n)
      [] Kind(ts, i) = "id" -> Got([k |-> "id", x |-> ts[i].v], n)
      [] Kind(ts, i) = "(" -> Eat(ts, expr(ts, n), ")")
      [] Kind(ts, i) = "[" -> Made(Eat(ts, List(ts, n, "]", <<>>), "]"), LAMBDA es : [k |-> "array", es |-> es])
      [] OTHER -> Bad(n)

Postfixed(ts, r) ==
    IF ~r.ok THEN r
    ELSE LET n == Past(ts, r.i) IN
         CASE Kind(ts, r.i) = "(" ->
                Postfixed(ts, Made(Eat(ts, List(ts, n, ")", <<>>), ")"), LAMBDA es : [k |-> "call", f |-> r.e, es |-> es]))
           [] Kind(ts, r.i) = "." ->
                Postfixed(ts, IF Kind(ts, n) = "id"
                              THEN Got([k |-> "member", b |-> r.e, x |-> ts[n].v], Past(ts, n)) ELSE Bad(n))
           [] Kind(ts, r.i) = "[" ->
                Postfixed(ts, Made(Eat(ts, expr(ts, n), "]"), LAMBDA e : [k |-> "index", b |-> r.e, at |-> e]))
           [] OTHER -> r

unary(ts, i) ==
    IF Kind(ts, i) \in {"-", "!"}
    THEN Made(unary(ts, Past(ts, i)), LAMBDA x : [k |-> "unary", o |-> Kind(ts, i), x |-> x])
    ELSE Postfixed(ts, primary(ts, i))

\* Declarations and expressions: the first part of a "for", and with the
\* optional semicolon the plain statements.
Semi(ts, r) == IF r.ok /\ Kind(ts, r.i) = ";" THEN [r EXCEPT !.i = Past(ts, @)] ELSE r
simple_for_init(ts, i) ==
    IF Kind(ts, i) # "var" THEN Made(expr(ts, i), LAMBDA e : [k |-> "expr", e |-> e])
    ELSE LET n == Past(ts, i)  a == Past(ts, n)  x == ts[n].v IN
         IF Kind(ts, n) # "id" THEN Bad(n)
         ELSE IF Kind(ts, a) # "=" THEN Got([k |-> "decl", x |-> x, e |-> None], a)
         ELSE Made(expr(ts, Past(ts, a)), LAMBDA e : [k |-> "decl", x |-> x, e |-> e])

RECURSIVE params(_, _, _), stmt(_, _), Stmts(_, _, _)
params(ts, i, ps) ==
    IF Kind(ts, i) = ")" THEN Got(ps, i)
    ELSE IF Kind(ts, i) # "id" THEN Bad(i)
    ELSE LET n == Past(ts, i)  qs == Append(ps, ts[i].v) IN
         IF Kind(ts, n) = "," THEN params(ts, Past(ts, n), qs) ELSE Got(qs, n)

Stmts(ts, i, ss) == IF Kind(ts, i) \in {"}", "eof"} THEN Got(ss, i)
                    ELSE LET r == stmt(ts, i) IN IF r.ok THEN Stmts(ts, r.i, Append(ss, r.e)) ELSE r
block(ts, i) == IF Kind(ts, i) # "{" THEN Bad(i) ELSE Eat(ts, Stmts(ts, Past(ts, i), <<>>), "}")

\* A parenthesised condition, then a statement.
Guarded(ts, i) ==
    LET c == IF Kind(ts, i) = "(" THEN Eat(ts, expr(ts, Past(ts, i)), ")") ELSE Bad(i) IN
    IF c.ok THEN Made(stmt(ts, c.i), LAMBDA s : [c |-> c.e, s |-> s]) ELSE c

if_stmt(ts, i) ==
    LET a == Made(Guarded(ts, Past(ts, i)), LAMBDA g : [k |-> "if", c |-> g.c, a |-> g.s, b |-> None]) IN
    IF a.ok /\ Kind(ts, a.i) = "else"
    THEN Made(stmt(ts, Past(ts, a.i)), LAMBDA s : [a.e EXCEPT !.b = s]) ELSE a

for_stmt(ts, i) ==
    LET Opt(j, close, F(_, _)) == IF Kind(ts, j) = close THEN Got(None, j) ELSE F(ts, j)
        n == Past(ts, i)
        a == IF Kind(ts, n) = "(" THEN Eat(ts, Opt(Past(ts, n), ";", simple_for_init), ";") ELSE Bad(n)
        c == IF a.ok THEN Eat(ts, Opt(a.i, ";", expr), ";") ELSE a
        s == IF c.ok THEN Eat(ts, Opt(c.i, ")", LAMBDA q, j : Made(expr(q, j), LAMBDA e : [k |-> "expr", e |-> e])), ")")
                     ELSE c IN
    IF s.ok THEN Made(stmt(ts, s.i), LAMBDA b : [k |-> "for", a |-> a.e, c |-> c.e, s |-> s.e, b |-> b]) ELSE s

Function(ts, i) ==
    LET n == Past(ts, i)  o == Past(ts, n)
        ps == IF Kind(ts, n) = "id" /\ Kind(ts, o) = "(" THEN Eat(ts, params(ts, Past(ts, o), <<>>), ")") ELSE Bad(n) IN
    IF ps.ok THEN Made(block(ts, ps.i), LAMBDA b : [k |-> "func", x |-> ts[n].v, ps |-> ps.e, b |-> b]) ELSE ps

stmt(ts, i) ==
    CASE Kind(ts, i) = "{" -> Made(block(ts, i), LAMBDA b : [k |-> "block", b |-> b])
      [] Kind(ts, i) = "if" -> if_stmt(ts, i)
      [] Kind(ts, i) = "while" -> Made(Guarded(ts, Past(ts, i)), LAMBDA g : [k |-> "while", c |-> g.c, b |-> g.s, s |-> None])
      [] Kind(ts, i) = "for" -> for_stmt(ts, i)
      [] Kind(ts, i) = "function" -> Function(ts, i)
      [] Kind(ts, i) = "return" ->
           LET n == Past(ts, i) IN
           Semi(ts, IF Kind(ts, n) \in {";", "}"} THEN Got([k |-> "return", e |-> None], n)
                    ELSE Made(expr(ts, n), LAMBDA e : [k |-> "return", e |-> e]))
      [] OTHER -> Semi(ts, simple_for_init(ts, i))

\* A stray "}" is no statement, so that it ends the program with an error.
program(ts) == LET r == Stmts(ts, 1, <<>>) IN IF r.ok /\ Kind(ts, r.i) = "}" THEN Bad(r.i) ELSE r

------------------------------------------------------------------------------
(* Values carry their type; an array is the sequence of its elements and is   *)
(* copied on assignment; a function is its parameters and its body.           *)
Null == [t |-> "null", v |-> 0]
N(n) == [t |-> "num", v |-> n]
B(b) == [t |-> "bool", v |-> b]
truthy(v) == CASE v.t = "num" -> v.v # 0
               [] v.t = "str" -> v.v # <<>>
               [] v.t = "bool" -> v.v
               [] v.t = "null" -> FALSE
               [] OTHER -> TRUE

\* Codes for the words that display writes.
WORD == [true |-> 901, false |-> 902, null |-> 903, function |-> 904]
NUMBER == 1000
RECURSIVE display(_)
display(v) == CASE v.t = "num" -> <<NUMBER + v.v>>
                [] v.t = "str" -> v.v
                [] v.t = "bool" -> <<IF v.v THEN WORD.true ELSE WORD.false>>
                [] v.t = "null" -> <<WORD.null>>
                [] v.t = "array" -> FoldLeftDomain(LAMBDA s, i : s \o (IF i = 1 THEN <<>> ELSE <<44>>) \o display(v.v[i]), <<>>, v.v)
                [] OTHER -> <<WORD.function>>

\* The one comparison: -1, 0 or 1; values of two types cannot be compared.
Sign(a, b) == IF a < b THEN -1 ELSE IF a > b THEN 1 ELSE 0
Bit(b) == IF b THEN 1 ELSE 0
Differs(x, y) == {i \in 1..Len(x) : i <= Len(y) /\ x[i] # y[i]}
Comparable(a, b) == a.t = b.t /\ a.t \notin {"array", "func"}
cmp3(a, b) == CASE a.t = "num" -> Sign(a.v, b.v)
                [] a.t = "bool" -> Bit(a.v) - Bit(b.v)
                [] a.t = "str" -> IF Differs(a.v, b.v) = {} THEN Sign(Len(a.v), Len(b.v))
                                  ELSE LET i == Min(Differs(a.v, b.v)) IN Sign(a.v[i], b.v[i])
                [] OTHER -> 0
eq_strict(a, b) == Comparable(a, b) /\ cmp3(a, b) = 0
eq_loose(a, b) == \/ eq_strict(a, b)
                  \/ a.t = "num" /\ b.t = "bool" /\ a.v = Bit(b.v)
                  \/ a.t = "bool" /\ b.t = "num" /\ b.v = Bit(a.v)

\* The state of a run: scopes, lines logged, steps, and the outcome of the last
\* thing done: an error, a value, and whether a "return" is under way.
Start == [env |-> <<<<>>>>, out |-> <<>>, steps |-> 0, err |-> FALSE, v |-> Null, ret |-> FALSE]
Fail(s) == [s EXCEPT !.err = TRUE]
Val(s, v) == IF s.err THEN s ELSE [s EXCEPT !.v = v]
tick(s) == [s EXCEPT !.steps = @ + 1, !.err = @ \/ s.steps >= MaxSteps]

push(s) == [s EXCEPT !.env = Append(@, <<>>)]
pop(s) == [s EXCEPT !.env = Front(@)]
declare(s, x, v) == [s EXCEPT !.env[Len(s.env)] = x :> v @@ @]
\* The scope that a name is found in: the innermost one, or 0.
Holder(s, x) == Max({0} \cup {i \in 1..Len(s.env) : x \in DOMAIN s.env[i]})
set(s, x, v) == IF Holder(s, x) = 0 THEN Fail(s) ELSE [s EXCEPT !.env[Holder(s, x)][x] = v, !.v = v]

Quotient(a, b) == IF (a < 0) = (b < 0) THEN (IF a < 0 THEN -a ELSE a) \div (IF b < 0 THEN -b ELSE b)
                  ELSE -((IF a < 0 THEN -a ELSE a) \div (IF b < 0 THEN -b ELSE b))
\* Division is modelled for a divisor other than zero and truncated.
binop(s, o, a, b) ==
    CASE o \in {"==", "!=", "===", "!=="} ->
           Val(s, B((IF o \in {"==", "!="} THEN eq_loose(a, b) ELSE eq_strict(a, b)) = (o \in {"==", "==="})))
      [] o \in {"<", "<=", ">", ">="} ->
           IF ~Comparable(a, b) THEN Fail(s)
           ELSE Val(s, B(cmp3(a, b) \in (CASE o = "<" -> {-1} [] o = "<=" -> {-1, 0} [] o = ">" -> {1} [] OTHER -> {0, 1})))
      [] o = "+" /\ "str" \in {a.t, b.t} -> Val(s, [t |-> "str", v |-> display(a) \o display(b)])
      [] a.t # "num" \/ b.t # "num" \/ (o \in {"/", "%"} /\ b.v = 0) -> Fail(s)
      [] OTHER -> Val(s, N(CASE o = "+" -> a.v + b.v [] o = "-" -> a.v - b.v [] o = "*" -> a.v * b.v
                             [] o = "/" -> Quotient(a.v, b.v) [] OTHER -> a.v - b.v * Quotient(a.v, b.v)))

RECURSIVE Eval(_, _), Evals(_, _), exec(_, _), Execs(_, _), Loop(_, _), exec_block(_, _)
\* The values of several expressions, in order.
Evals(s, es) ==
    FoldLeft(LAMBDA a, e : IF a.err THEN a
                           ELSE LET r == Eval(a, e) IN IF r.err THEN r ELSE [r EXCEPT !.v = Append(a.v, @)],
             [s EXCEPT !.v = <<>>], es)
\* Evaluate, then go on with the value unless there was an error.
Then(s, K(_)) == IF s.err THEN s ELSE K(s)

Assign(s0, to, e) ==
    Then(Eval(s0, e), LAMBDA s :
      IF to.k = "id" THEN set(s, to.x, s.v)
      ELSE IF to.b.k # "id" THEN Fail(s)
      ELSE Then(Eval(s, to.at), LAMBDA r :
             LET h == Holder(r, to.b.x)  i == r.v.v + 1 IN
             IF r.v.t # "num" \/ h = 0 THEN Fail(r)
             ELSE IF r.env[h][to.b.x].t # "array" \/ i < 1 THEN Fail(r)
             ELSE LET a == r.env[h][to.b.x].v
                      n == IF i > Len(a) THEN i ELSE Len(a)
                      b == [j \in 1..n |-> IF j = i THEN s.v ELSE IF j <= Len(a) THEN a[j] ELSE Null] IN
                  [r EXCEPT !.env[h][to.b.x] = [t |-> "array", v |-> b], !.v = s.v]))

\* A call runs on top of the scopes of its caller.
eval_call(s0, f, es) ==
    IF f.k = "member" /\ f.b.k = "id" /\ f.b.x = "console" /\ f.x \in {"log", "error", "warn"}
    THEN Then(Evals(s0, es), LAMBDA s : [s EXCEPT !.out = Append(@, [i \in DOMAIN s.v |-> display(s.v[i])]), !.v = Null])
    ELSE Then(Eval(s0, f), LAMBDA s :
           IF s.v.t # "func" THEN Fail(s)
           ELSE LET d == s.v.v IN
                Then(Evals(s, es), LAMBDA a :
                  LET bound == FoldLeftDomain(LAMBDA q, i : declare(q, d.ps[i], IF i <= Len(a.v) THEN a.v[i] ELSE Null), push(a), d.ps)
                      r == exec_block([bound EXCEPT !.v = Null], d.b) IN
                  [pop(r) EXCEPT !.ret = FALSE, !.v = IF r.ret THEN @ ELSE Null]))

Index(s, b, i) ==
    IF i.t # "num" \/ b.t \notin {"array", "str"} THEN Fail(s)
    ELSE IF i.v + 1 \notin DOMAIN b.v THEN Val(s, Null)
    ELSE Val(s, IF b.t = "array" THEN b.v[i.v + 1] ELSE [t |-> "str", v |-> <<b.v[i.v + 1]>>])

Eval(s0, e) ==
  Then(tick(s0), LAMBDA s :
    CASE e.k = "lit" -> Val(s, e.v)
      [] e.k = "id" -> IF Holder(s, e.x) = 0 THEN Fail(s) ELSE Val(s, s.env[Holder(s, e.x)][e.x])
      [] e.k = "array" -> Then(Evals(s, e.es), LAMBDA r : Val(r, [t |-> "array", v |-> r.v]))
      [] e.k = "index" -> Then(Eval(s, e.b), LAMBDA b : Then(Eval(b, e.at), LAMBDA i : Index(i, b.v, i.v)))
      [] e.k = "member" -> Then(Eval(s, e.b), LAMBDA b :
             IF e.x = "length" /\ b.v.t \in {"array", "str"} THEN Val(b, N(Len(b.v.v))) ELSE Fail(b))
      [] e.k = "unary" -> Then(Eval(s, e.x), LAMBDA x :
             IF e.o = "!" THEN Val(x, B(~truthy(x.v))) ELSE IF x.v.t = "num" THEN Val(x, N(-x.v.v)) ELSE Fail(x))
      [] e.k = "bin" /\ e.o \in {"&&", "||"} ->
           Then(Eval(s, e.l), LAMBDA l : IF truthy(l.v) = (e.o = "&&") THEN Eval(l, e.r) ELSE l)
      [] e.k = "bin" -> Then(Eval(s, e.l), LAMBDA l : Then(Eval(l, e.r), LAMBDA r : binop(r, e.o, l.v, r.v)))
      [] e.k = "assign" -> Assign(s, e.to, e.v)
      [] OTHER -> eval_call(s, e.f, e.es))

\* Functions are declared before the statements around them are executed.
Hoisted(s, ss) == FoldLeft(LAMBDA q, f : declare(q, f.x, [t |-> "func", v |-> [ps |-> f.ps, b |-> f.b]]), s,
                           SelectSeq(ss, LAMBDA f : f.k = "func"))
Execs(s, ss) == FoldLeft(LAMBDA q, x : IF q.err \/ q.ret THEN q ELSE exec(q, x), s, ss)
exec_block(s, ss) == Execs(Hoisted(s, ss), ss)

\* "while" and "for" count a step after and before their condition.
Loop(s, x) ==
    Then(IF x.k = "for" THEN tick(s) ELSE s, LAMBDA t :
      Then(IF x.c = None THEN [t EXCEPT !.v = B(TRUE)] ELSE Eval(t, x.c), LAMBDA c :
        IF ~truthy(c.v) THEN c
        ELSE Then(exec(IF x.k = "while" THEN tick(c) ELSE c, x.b), LAMBDA r :
               IF r.ret THEN r
               ELSE Then(IF x.s = None THEN r ELSE exec(r, x.s), LAMBDA n : Loop(n, x)))))

exec(s0, x) ==
  Then(tick(s0), LAMBDA s :
    CASE x.k = "expr" -> Eval(s, x.e)
      [] x.k = "decl" -> Then(IF x.e = None THEN Val(s, Null) ELSE Eval(s, x.e), LAMBDA r : declare(r, x.x, r.v))
      [] x.k = "block" -> pop(exec_block(push(s), x.b))
      [] x.k = "if" -> Then(Eval(s, x.c), LAMBDA c :
             IF truthy(c.v) THEN exec(c, x.a) ELSE IF x.b = None THEN c ELSE exec(c, x.b))
      [] x.k = "while" -> Loop(s, x)
      [] x.k = "for" -> pop(Then(IF x.a = None THEN push(s) ELSE exec(push(s), x.a), LAMBDA r : Loop(r, x)))
      [] x.k = "func" -> Hoisted(s, <<x>>)
      [] OTHER -> Then(IF x.e = None THEN Val(s, Null) ELSE Eval(s, x.e), LAMBDA r : [r EXCEPT !.ret = TRUE]))

\* eval: the lines of a program, or the error.
Failed == <<<<<<0>>>>>>
Log(ts) == LET p == program(Append(ts, T("eof"))) IN
           IF ~p.ok THEN Failed ELSE LET r == exec_block(Start, p.e) IN IF r.err THEN Failed ELSE r.out

------------------------------------------------------------------------------
(* What a text is to the parser and the interpreter follows from the text:    *)
(* a state is a text, an expression that is typed or a whole program.         *)
Init == source = <<>> /\ chosen = "none"
Type(t) == chosen = "none" /\ Len(source) < MaxTokens /\ source' = Append(source, t) /\ UNCHANGED chosen
Run(p) == source = <<>> /\ source' = Programs[p].source /\ chosen' = p
Next == (\E t \in Alphabet : Type(t)) \/ \E p \in DOMAIN Programs : Run(p)
Spec == Init /\ [][Next]_vars

------------------------------------------------------------------------------
TypeOK == IF chosen = "none" THEN source \in Seq(Alphabet) /\ Len(source) <= MaxTokens
                             ELSE source = Programs[chosen].source

(* The grammar by itself: a tree is split at its first "=", or else at the    *)
(* last of its loosest operators, outside of all brackets.                    *)
Depth(q, i) == Cardinality({j \in 1..(i-1) : q[j].k \in {"(", "["}}) - Cardinality({j \in 1..i : q[j].k \in {")", "]"}})
EndsOperand(t) == t.k \in {"num", "id", ")", "]"}
Splits(q) == {i \in 2..Len(q) : q[i].k \in DOMAIN Bp /\ EndsOperand(q[i-1]) /\ Depth(q, i) = 0}
Wrong == [k |-> "wrong"]
RECURSIVE Tree(_)
Tree(q) ==
    LET Cut(i, j) == Tree(SubSeq(q, i, j))
        Both(a, b, t) == IF a = Wrong \/ b = Wrong THEN Wrong ELSE t
        assigns == {i \in DOMAIN q : q[i].k = "=" /\ Depth(q, i) = 0}
        last == Len(q)
        opens == {i \in 1..(last - 1) : q[i].k = "(" /\ Depth(q, i) = 0} IN
    CASE q = <<>> -> Wrong
      [] assigns # {} ->
           LET i == Min(assigns)  l == Cut(1, i-1)  r == Cut(i+1, last) IN
           IF l.k # "id" THEN Wrong ELSE Both(l, r, [k |-> "assign", to |-> l, v |-> r])
      [] assigns = {} /\ Splits(q) # {} ->
           LET low == Min({Bp[q[i].k] : i \in Splits(q)})
               i == Max({j \in Splits(q) : Bp[q[j].k] = low})  l == Cut(1, i-1)  r == Cut(i+1, last) IN
           Both(l, r, [k |-> "bin", o |-> q[i].k, l |-> l, r |-> r])
      [] assigns = {} /\ Splits(q) = {} /\ q[1].k \in {"-", "!"} ->
           LET x == Cut(2, last) IN Both(x, x, [k |-> "unary", o |-> q[1].k, x |-> x])
      [] last = 1 /\ q[1].k = "num" -> Lit("num", q[1].v)
      [] last = 1 /\ q[1].k = "id" -> [k |-> "id", x |-> q[1].v]
      [] assigns = {} /\ Splits(q) = {} /\ last > 1 /\ q[last].k = ")" /\ opens # {} /\ q[1].k \notin {"-", "!"} ->
           LET i == Max(opens)  a == Cut(i+1, last-1) IN
           IF i = 1 THEN a
           ELSE LET f == Cut(1, i-1) IN
                Both(f, IF i + 1 = last THEN f ELSE a,
                     [k |-> "call", f |-> f, es |-> IF i + 1 = last THEN <<>> ELSE <<a>>])
      [] OTHER -> Wrong

\* The parser accepts what the grammar accepts and builds its tree.
Parsed(q) == LET r == expr(Append(q, T("eof")), 1) IN IF r.ok /\ r.i = Len(q) + 1 THEN r.e ELSE Wrong
GroupsRight == chosen' = "none" => Parsed(source') = Tree(source')

\* A program logs what it must: names are hoisted, scopes end with their
\* blocks, arrays grow and are copied, and an endless loop is stopped.
ProgramsRun == chosen' # "none" => Log(source') = Programs[chosen'].out
==============================================================================
