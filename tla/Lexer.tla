------------------------------- MODULE Lexer -------------------------------
(* The two readers of text into tokens of the desktop: scripts                *)
(* (desktop-metal tjs.rs) and style sheets (tcss.rs).  One iteration of their *)
(* loops is one step.  A token is its kind with its first and last position;  *)
(* "1" stands for the digits, "e" for the letters.                            *)
EXTENDS Integers, Sequences, FiniteSetsExt

CONSTANTS Alphabet,    \* characters of the texts, "nl" for the end of a line
          Keywords,    \* words that are keywords, as sequences
          MaxText      \* bound: characters of a text

VARIABLES lang,        \* "js" or "css"
          text,
          i,           \* position of the next character
          start,       \* where the pending words of a style sheet began, 0 for none
          out,         \* the tokens
          st           \* "reading", "done" or "failed"

vars == <<lang, text, i, start, out, st>>

Blank == {" ", "nl"}
Ends == Len(text) + 1
\* peek and peek2: nothing is at the end.
At(p) == IF p < Ends THEN text[p] ELSE ""
Upto(p, S) == Min({q \in p..(Ends + 2) : q >= Ends \/ At(q) \in S})
Past(p, S) == Min({q \in p..(Ends + 2) : At(q) \notin S})
Token(k, a, z) == [k |-> k, a |-> a, z |-> z]

Init == /\ lang \in {"js", "css"} /\ text \in UNION {[1..n -> Alphabet] : n \in 0..MaxText}
        /\ i = 1 /\ start = 0 /\ out = <<>> /\ st = "reading"

------------------------------------------------------------------------------
(* Scripts.  skip_trivia: where the text goes on, or 0 if a comment does not  *)
(* end.                                                                       *)
CommentEnd(p) == LET ends == {q \in p..Len(text) : At(q) = "*" /\ At(q + 1) = "/"}
                 IN IF ends = {} THEN 0 ELSE Min(ends) + 2
skip_trivia(from) ==
    LET To[p \in 1..(Ends + 2)] ==
          CASE At(p) \in Blank -> To[p + 1]
            [] At(p) = "/" /\ At(p + 1) = "/" -> To[Upto(p, {"nl"})]
            [] At(p) = "/" /\ At(p + 1) = "*" -> IF CommentEnd(p + 2) = 0 THEN 0 ELSE To[CommentEnd(p + 2)]
            [] OTHER -> p
    IN To[from]

Give(k, a, z) == /\ out' = Append(out, Token(k, a, z)) /\ i' = z + 1
                 /\ UNCHANGED <<lang, text, start, st>>
Fail == st' = "failed" /\ UNCHANGED <<lang, text, i, start, out>>

\* The position after a number that starts at p, and whether parse takes it:
\* an exponent needs a digit.
Fraction(p) == IF At(p) = "." THEN Past(p + 1, {"1"}) ELSE p
Exponent(p) == IF At(p) # "e" THEN p
               ELSE Past(IF At(p + 1) = "+" THEN p + 2 ELSE p + 1, {"1"})
lex_number(p) == LET z == Exponent(Fraction(Past(p, {"1"}))) - 1
                 IN IF text[z] \in {"e", "+"} THEN Fail ELSE Give("num", p, z)

\* A string ends at its quote; a backslash takes the next character with it.
lex_string(p) ==
    LET To[k \in 1..(Ends + 2)] == CASE At(k) = "" -> 0
                                     [] At(k) = At(p) -> k
                                     [] At(k) = "\\" -> To[k + 2]
                                     [] OTHER -> To[k + 1]
    IN IF To[p + 1] = 0 THEN Fail ELSE Give("str", p, To[p + 1])

kw_of(s) == IF s \in Keywords THEN "kw" ELSE "word"
lex_word(p) == LET z == Past(p, {"e", "1"}) - 1 IN Give(kw_of(SubSeq(text, p, z)), p, z)

Single == {"+", "*", "/", ".", ";"}
\* Seeded fault: "===" is read as "==" and "=".
OpLengthTwo(p) == IF At(p) \in {"=", "!"} THEN IF At(p + 1) = "=" THEN 2 ELSE 1
                  ELSE IF At(p) \in Single THEN 1 ELSE IF At(p) = "&" /\ At(p + 1) = "&" THEN 2 ELSE 0

OpLength(p) == CASE At(p) \in {"=", "!"} -> IF At(p + 1) # "=" THEN 1 ELSE IF At(p + 2) # "=" THEN 2 ELSE 3
                 [] At(p) = "&" -> IF At(p + 1) = "&" THEN 2 ELSE 0
                 [] At(p) \in Single -> 1
                 [] OTHER -> 0
lex_op(p) == IF OpLength(p) = 0 THEN Fail ELSE Give("op", p, p + OpLength(p) - 1)

\* tokens.
tokens == /\ lang = "js" /\ st = "reading"
          /\ LET p == skip_trivia(i) IN
             CASE p = 0 -> Fail
               [] At(p) = "" /\ p # 0 -> st' = "done" /\ UNCHANGED <<lang, text, i, start, out>>
               [] At(p) = "1" \/ (At(p) = "." /\ At(p + 1) = "1") -> lex_number(p)
               [] At(p) = "\"" -> lex_string(p)
               [] At(p) = "e" -> lex_word(p)
               [] OTHER -> lex_op(p)

------------------------------------------------------------------------------
(* Style sheets: words run up to a mark, a comment or the end.                *)
CssMarks == {":", ";"}
Trimmed(a, z) == LET S == {p \in a..z : text[p] \notin Blank}
                 IN IF S = {} THEN <<>> ELSE <<Token("words", Min(S), Max(S))>>
flush == IF start = 0 THEN out ELSE out \o Trimmed(start, i - 1)

Css == lang = "css" /\ st = "reading"
AtComment == At(i) = "/" /\ At(i + 1) = "*"
CssComment == /\ Css /\ AtComment
              /\ i' = (IF CommentEnd(i + 2) = 0 THEN Ends ELSE CommentEnd(i + 2))
              /\ out' = flush /\ start' = 0 /\ UNCHANGED <<lang, text, st>>
CssMark == /\ Css /\ At(i) \in CssMarks
           /\ out' = Append(flush, Token("mark", i, i)) /\ start' = 0 /\ i' = i + 1
           /\ UNCHANGED <<lang, text, st>>
CssText == /\ Css /\ ~AtComment /\ At(i) \notin CssMarks \cup {""}
           /\ start' = (IF start = 0 THEN i ELSE start) /\ i' = i + 1
           /\ UNCHANGED <<lang, text, out, st>>
CssEnd == /\ Css /\ i >= Ends
          /\ out' = flush /\ start' = 0 /\ st' = "done" /\ UNCHANGED <<lang, text, i>>

Next == tokens \/ CssComment \/ CssMark \/ CssText \/ CssEnd
Spec == Init /\ [][Next]_vars

------------------------------------------------------------------------------
TypeOK == /\ i \in 1..(Ends + 2) /\ start \in 0..Len(text) /\ st \in {"reading", "done", "failed"}
          /\ \A t \in 1..Len(out) : 1 <= out[t].a /\ out[t].a <= out[t].z /\ out[t].z <= Len(text)

(* What the tokens of the two languages are, said by themselves.              *)
IsNumber(s) ==
    \E a, b \in 0..Len(s) :
      /\ a <= b /\ \A k \in 1..a : s[k] = "1"
      /\ b > a => s[a + 1] = "." /\ \A k \in (a + 2)..b : s[k] = "1"
      /\ \E k \in 1..b : s[k] = "1"
      /\ Len(s) > b => /\ s[b + 1] = "e" /\ s[Len(s)] = "1"
                       /\ \A k \in (b + 2)..Len(s) : s[k] = "1" \/ (k = b + 2 /\ s[k] = "+")
\* A quote with an odd number of backslashes before it belongs to the string.
Escaped(s, k) == \E n \in 0..(k - 1) : /\ n % 2 = 1 /\ \A j \in (k - n)..(k - 1) : s[j] = "\\"
                                       /\ s[k - n - 1] # "\\"
IsString(s) == /\ Len(s) >= 2 /\ s[1] = "\"" /\ s[Len(s)] = "\""
               /\ \A k \in 2..Len(s) : s[k] = "\"" => (Escaped(s, k) <=> k < Len(s))
IsWord(s) == Len(s) > 0 /\ s[1] = "e" /\ \A k \in DOMAIN s : s[k] \in {"e", "1"}
Ops == {<<"=">>, <<"=", "=">>, <<"=", "=", "=">>, <<"!">>, <<"!", "=">>, <<"!", "=", "=">>, <<"&", "&">>}
       \cup {<<c>> : c \in Single}
Opens(p) == At(p) = "/" /\ At(p + 1) = "*"
IsWords(a, z) == /\ {text[a], text[z]} \cap Blank = {}
                 /\ \A p \in a..z : text[p] \notin CssMarks /\ ~Opens(p)
IsToken(a, z) == LET s == SubSeq(text, a, z) IN
                 IF lang = "css" THEN IsWords(a, z) \/ s \in {<<c>> : c \in CssMarks}
                 ELSE IsNumber(s) \/ IsString(s) \/ IsWord(s) \/ s \in Ops
Closes(z) == z >= 2 /\ text[z - 1] = "*" /\ text[z] = "/"
IsTrivia(a, z) ==
    \/ a = z /\ text[a] \in Blank
    \/ lang = "js" /\ a < z /\ text[a] = "/" /\ text[a + 1] = "/" /\ \A p \in a..z : text[p] # "nl"
    \/ Opens(a) /\ z >= a + 3 /\ Closes(z) /\ \A y \in (a + 3)..(z - 1) : ~Closes(y)
    \/ lang = "css" /\ Opens(a) /\ z = Len(text) /\ \A y \in (a + 3)..z : ~Closes(y)
Between(a, z) == LET Upto_[p \in (a - 1)..z] == p = a - 1 \/ \E q \in (a - 1)..(p - 1) : Upto_[q] /\ IsTrivia(q + 1, p)
                 IN a > z \/ Upto_[z]

\* Every token is one of the language and as long as it can be, and between two
\* tokens, before the first and after the last, there are only blanks and
\* comments: no character is lost and none is read twice.
TokensRight == st = "done" =>
    /\ \A t \in 1..Len(out) : /\ IsToken(out[t].a, out[t].z)
                              /\ \A z \in (out[t].z + 1)..Len(text) : ~IsToken(out[t].a, z)
    /\ \A t \in 0..Len(out) : LET a == IF t = 0 THEN 0 ELSE out[t].z
                                  b == IF t = Len(out) THEN Ends ELSE out[t + 1].a
                              IN a < b /\ Between(a + 1, b - 1)
==============================================================================
