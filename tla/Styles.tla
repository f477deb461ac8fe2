------------------------------- MODULE Styles -------------------------------
(* The style engines of the desktop: style sheets with selectors and their    *)
(* cascade (desktop-metal tcss.rs), and the boxes that are painted only when  *)
(* something about them changed (css.rs).                                     *)
EXTENDS Integers, Sequences, SequencesExt, FiniteSetsExt

CONSTANTS Selectors,  \* text before "{" -> the selectors in it, [k, v]
          Blocks,     \* texts between the braces: sequences of declarations
          Colors,     \* values that parse_color understands
          Elements,   \* [tag, id, classes]
          Inlines,    \* style attributes: sequences of declarations
          MaxRules,   \* bound: rules of a sheet
          Places      \* positions and sizes of a box

VARIABLES rules,      \* the sheet that was written
          box,        \* [at, visual, dirty] of a node; dirty is a trit
          painted     \* what of it is on the screen

vars == <<rules, box, painted>>

------------------------------------------------------------------------------
(* The parser works on words and the four marks.  A declaration that is not   *)
(* closed by ";" ends with its block.                                         *)
Marks == {"{", "}", ":", ";"}
Written(d) == Append(d, ";")
Source(rs) == FlattenSeq([i \in DOMAIN rs |->
                <<rs[i].text, "{">> \o FlattenSeq([j \in DOMAIN rs[i].block |-> Written(rs[i].block[j])]) \o <<"}">>])

Outside == [inside |-> FALSE, sels |-> <<>>, prop |-> "", decls |-> <<>>, rules |-> <<>>]
Closed(p) == [Outside EXCEPT !.rules = IF p.sels = <<>> THEN p.rules ELSE Append(p.rules, [sels |-> p.sels, decls |-> p.decls])]
Read(p, t) ==
    CASE ~p.inside /\ t \notin Marks -> [p EXCEPT !.sels = @ \o Selectors[t]]
      [] ~p.inside /\ t = "{" -> [p EXCEPT !.inside = TRUE]
      [] p.inside /\ t = "}" -> Closed(p)
      [] p.inside /\ t = ";" -> [p EXCEPT !.prop = ""]
      [] p.inside /\ t \notin Marks -> IF p.prop = "" THEN [p EXCEPT !.prop = t]
                                       ELSE [p EXCEPT !.decls = Append(@, <<p.prop, t>>), !.prop = ""]
      [] OTHER -> p
parse(ts) == LET p == FoldLeft(Read, Outside, ts) IN (IF p.inside THEN Closed(p) ELSE p).rules

------------------------------------------------------------------------------
specificity(s) == CASE s.k = "id" -> 65536 [] s.k = "class" -> 256 [] s.k = "tag" -> 1 [] OTHER -> 0
matches(s, el) == CASE s.k = "any" -> TRUE
                    [] s.k = "tag" -> s.v = el.tag
                    [] s.k = "id" -> s.v = el.id
                    [] OTHER -> s.v \in el.classes

\* default.  The alignment is a trit.
Default == [color |-> "default", size |-> "S", bold |-> FALSE, align |-> -1, hidden |-> FALSE]

\* A weight and a display are set by every value, the others by those they know.
Tiers == [small |-> "T", medium |-> "S", large |-> "L"]
Aligns == [left |-> -1, center |-> 0, right |-> 1]
apply_decl(cs, d) ==
    CASE d[1] = "color" /\ d[2] \in Colors -> [cs EXCEPT !.color = d[2]]
      [] d[1] = "font-size" /\ d[2] \in DOMAIN Tiers -> [cs EXCEPT !.size = Tiers[d[2]]]
      [] d[1] = "font-weight" -> [cs EXCEPT !.bold = (d[2] = "bold")]
      [] d[1] = "text-align" /\ d[2] \in DOMAIN Aligns -> [cs EXCEPT !.align = Aligns[d[2]]]
      [] d[1] = "display" -> [cs EXCEPT !.hidden = (d[2] = "none")]
      [] OTHER -> cs

spec_cmp_trit(a, b) == IF a > b THEN 1 ELSE IF a < b THEN -1 ELSE 0

\* The best of the selectors of a rule that match, or -1.
Best(rule, el) == FoldLeft(LAMBDA b, s : IF matches(s, el) /\ (b = -1 \/ spec_cmp_trit(specificity(s), b) = 1)
                                         THEN specificity(s) ELSE b, -1, rule.sels)

\* The insertion sort: a rule goes in front of those that it is below.
Below(m, p) == LET c == spec_cmp_trit(p.spec, m.spec) IN c = 1 \/ (c = 0 /\ p.order > m.order)
Insert(s, m) == LET stay == {i \in 1..Len(s) : ~Below(m, s[i])}
                    at == IF stay = {} THEN 0 ELSE Max(stay) IN InsertAt(s, at + 1, m)

\* A style attribute: all that follows the first colon is the value.
parse_decls(b) == FoldLeft(LAMBDA s, d : IF Len(d) < 3 THEN s
                                         ELSE Append(s, <<d[1], IF Len(d) = 3 THEN d[3] ELSE "unknown">>), <<>>, b)

\* resolve_with_base, from the base Default.
resolve(rs, el, inline) ==
    LET all == [i \in DOMAIN rs |-> [spec |-> Best(rs[i], el), order |-> i, decls |-> rs[i].decls]]
        sorted == FoldLeft(Insert, <<>>, SelectSeq(all, LAMBDA m : m.spec >= 0))
        cascaded == FoldLeft(LAMBDA cs, m : FoldLeft(apply_decl, cs, m.decls), Default, sorted) IN
    FoldLeft(apply_decl, cascaded, parse_decls(inline))

------------------------------------------------------------------------------
(* A box: dirty is 1 to be painted, 0 clean, -1 gone.                         *)
Init == /\ rules = <<>>
        /\ box = [at |-> Min(Places), visual |-> 0, dirty |-> 1]
        /\ painted = [at |-> Min(Places), visual |-> 2]

mark_dirty(b) == IF b.dirty = -1 THEN b ELSE [b EXCEPT !.dirty = 1]
set_visual(v) == box' = (IF box.visual = v THEN box ELSE mark_dirty([box EXCEPT !.visual = v]))
move_to(p) == box' = (IF box.at = p THEN box ELSE mark_dirty([box EXCEPT !.at = p]))
hide == box' = [box EXCEPT !.dirty = -1]

paint == /\ rules = <<>> /\ box.dirty = 1
         /\ painted' = [at |-> box.at, visual |-> box.visual]
         /\ box' = [box EXCEPT !.dirty = 0] /\ UNCHANGED rules

\* Sheet and box are independent: one of them changes in a behaviour.
Fresh == box.dirty = 1 /\ box.visual = 0 /\ box.at = Min(Places) /\ painted.visual = 2
AddRule == /\ Len(rules) < MaxRules /\ Fresh
           /\ \E t \in DOMAIN Selectors, b \in Blocks : rules' = Append(rules, [text |-> t, block |-> b])
           /\ UNCHANGED <<box, painted>>
Change == /\ rules = <<>>
          /\ hide \/ (\E v \in {-1, 0, 1} : set_visual(v)) \/ (\E p \in Places : move_to(p))
          /\ UNCHANGED <<rules, painted>>

Next == AddRule \/ Change \/ paint
Spec == Init /\ [][Next]_vars

------------------------------------------------------------------------------
TypeOK == /\ Len(rules) <= MaxRules
          /\ box.dirty \in {-1, 0, 1} /\ box.visual \in {-1, 0, 1} /\ box.at \in Places

\* A box that is neither gone nor to be painted shows its place and its state.
PaintedIsShown == box.dirty = 0 => painted = [at |-> box.at, visual |-> box.visual]

\* The declarations of a block that have a property and a value, as written.
Whole(b) == SelectSeq([j \in DOMAIN b |-> IF Len(b[j]) >= 3 /\ b[j][2] = ":" THEN <<b[j][1], b[j][3]>> ELSE <<"">>],
                      LAMBDA d : Len(d) = 2)
\* What a property is set to by a declaration, or nothing.
Sets(d, f) == CASE f = "color" -> d[1] = "color" /\ d[2] \in Colors
                [] f = "align" -> d[1] = "text-align" /\ d[2] \in DOMAIN Aligns
                [] OTHER -> d[1] = "font-weight"
\* The cascade by itself: of all the declarations that apply to the element and
\* set the property, the one of the most specific selector decides, then the
\* one of the later rule, then the later one; a style attribute is above all.
Decides(rs) ==
    LET sheet == parse(Source(rs)) IN
    \A el \in Elements, inline \in Inlines, f \in {"color", "bold", "align"} :
      LET Order(i) == Max({-1} \cup {specificity(s) : s \in {x \in ToSet(Selectors[rs[i].text]) : matches(x, el)}})
          Has(i) == {j \in DOMAIN Whole(rs[i].block) : Sets(Whole(rs[i].block)[j], f)}
          from == {i \in DOMAIN rs : Order(i) >= 0 /\ Has(i) # {}}
          top == {i \in from : \A k \in from : Order(k) < Order(i) \/ (Order(k) = Order(i) /\ k <= i)}
          style == parse_decls(inline)
          own == {j \in DOMAIN style : Sets(style[j], f)}
          got == resolve(sheet, el, inline)[f] IN
      IF own # {} THEN got = apply_decl(Default, style[Max(own)])[f]
      ELSE IF from = {} THEN got = Default[f]
      ELSE \A i \in top : got = apply_decl(Default, Whole(rs[i].block)[Max(Has(i))])[f]
CascadeRight == Decides(rules')
==============================================================================
