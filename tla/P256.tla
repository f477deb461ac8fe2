-------------------------------- MODULE P256 --------------------------------
(* The arithmetic below ECDSA (kernel p256.rs): integers of four limbs, the   *)
(* field modulo P with its NIST reduction, and the scalars modulo the group   *)
(* order.  A word has W bits here where the code has 32; the reduction is a   *)
(* congruence of polynomials in 2^W, so a small W (W = 1: P = 199) says the   *)
(* same of it as W = 32.                                                      *)
EXTENDS Integers, Sequences, SequencesExt

CONSTANTS W,         \* bits of a word; a limb is two words, an integer four limbs
          N,         \* the group order, above half of what four limbs hold
          Operands   \* integers that the accumulator is combined with

VARIABLES x,   \* the accumulator, in limbs
          m,   \* the modulus it is reduced by
          v,   \* its value, by the reference
          y    \* the last operand, in limbs

vars == <<x, m, v, y>>

Word == 2 ^ W
Limb == Word * Word
FULL == Limb ^ 4
P == Word ^ 8 - Word ^ 7 + Word ^ 6 + Word ^ 3 - 1

Limbs(a, k) == [i \in 1..k |-> (a \div Limb ^ (i - 1)) % Limb]
Value(l) == FoldRight(LAMBDA d, s : d + Limb * s, l, 0)
Four == <<1, 2, 3, 4>>

------------------------------------------------------------------------------
lt256(a, b) == \E i \in 1..4 : a[i] < b[i] /\ \A j \in (i + 1)..4 : a[j] = b[j]

add256c(a, b) ==
    FoldLeft(LAMBDA s, i : LET t == a[i] + b[i] + s.c IN [r |-> Append(s.r, t % Limb), c |-> t \div Limb],
             [r |-> <<>>, c |-> 0], Four)
sub256b(a, b) ==
    FoldLeft(LAMBDA s, i : LET d == a[i] - b[i] - s.c IN
                 [r |-> Append(s.r, d % Limb), c |-> IF d < 0 THEN 1 ELSE 0],
             [r |-> <<>>, c |-> 0], Four)
cond_sub(a, mod) == LET d == sub256b(a, mod) IN IF d.c = 1 THEN a ELSE d.r

\* fp_add and fn_add, fp_sub and fn_sub.
add_mod(a, b, mod) ==
    LET s == add256c(a, b) IN cond_sub(IF s.c # 0 THEN sub256b(s.r, mod).r ELSE s.r, mod)
sub_mod(a, b, mod) ==
    LET d == sub256b(a, b) IN IF d.c = 1 THEN add256c(d.r, mod).r ELSE d.r
fp_neg(a) == IF Value(a) = 0 THEN a ELSE sub_mod(Limbs(P, 4), a, Limbs(P, 4))

\* Seeded fault: the carry of a row is forgotten.
mul512NoCarry(a, b) ==
    FoldLeft(LAMBDA r, i :
        LET row == FoldLeft(LAMBDA s, j :
                       LET p == a[i] * b[j] + r[i + j - 1] + s.c IN
                       [r |-> [s.r EXCEPT ![i + j - 1] = p % Limb], c |-> p \div Limb],
                       [r |-> r, c |-> 0], Four) IN
        [row.r EXCEPT ![i + 4] = 0], [i \in 1..8 |-> 0], Four)

mul512(a, b) ==
    FoldLeft(LAMBDA r, i :
        LET row == FoldLeft(LAMBDA s, j :
                       LET p == a[i] * b[j] + s.r[i + j - 1] + s.c IN
                       [r |-> [s.r EXCEPT ![i + j - 1] = p % Limb], c |-> p \div Limb],
                       [r |-> r, c |-> 0], Four) IN
        [row.r EXCEPT ![i + 4] = row.c], [i \in 1..8 |-> 0], Four)

\* Which word each row adds to acc[0..7]; 16 is no word.
Rows == <<[times |-> 1,  at |-> <<0, 1, 2, 3, 4, 5, 6, 7>>],
          [times |-> 2,  at |-> <<16, 16, 16, 11, 12, 13, 14, 15>>],
          [times |-> 2,  at |-> <<16, 16, 16, 16, 12, 13, 14, 15>>],
          [times |-> 1,  at |-> <<8, 9, 10, 16, 16, 16, 14, 15>>],
          [times |-> 1,  at |-> <<9, 10, 11, 13, 14, 15, 13, 8>>],
          [times |-> -1, at |-> <<11, 12, 13, 16, 16, 16, 8, 10>>],
          [times |-> -1, at |-> <<12, 13, 14, 15, 16, 16, 9, 11>>],
          [times |-> -1, at |-> <<13, 14, 15, 8, 9, 10, 16, 12>>],
          [times |-> -1, at |-> <<14, 15, 16, 9, 10, 11, 16, 13>>]>>
\* One pass of carries and borrows: acc[8] collects what the eight words do not hold.
Carried(acc) ==
    FoldLeft(LAMBDA a, i : [a EXCEPT ![i] = @ % Word, ![i + 1] = @ + (a[i] \div Word)],
             acc, <<1, 2, 3, 4, 5, 6, 7, 8>>)
\* acc[8] is then dropped.
reduce_p256(c) ==
    LET word(i) == IF i = 16 THEN 0 ELSE (c[i \div 2 + 1] \div Word ^ (i % 2)) % Word
        acc == [k \in 1..9 |-> IF k = 9 THEN 0
                   ELSE FoldLeft(LAMBDA s, row : s + row.times * word(row.at[k]), 0, Rows)]
        last == Carried(Carried(acc))
        r == [i \in 1..4 |-> last[2 * i - 1] + Word * last[2 * i]]
        PL == Limbs(P, 4) IN
    cond_sub(cond_sub(cond_sub(cond_sub(r, PL), PL), PL), PL)
fp_mul(a, b) == reduce_p256(mul512(a, b))

\* Bit by bit; the doubling borrows through sub_mod, which then adds N again.
fn_mul(a, b) ==
    LET NL == Limbs(N, 4)
        step(s, i) ==
            LET twice == Limbs(2 * Value(s.a) % FULL, 4)
                top == Value(s.a) >= FULL \div 2 IN
            [r |-> IF (Value(b) \div 2 ^ (i - 1)) % 2 = 1 THEN add_mod(s.r, s.a, NL) ELSE s.r,
             a |-> cond_sub(IF top THEN sub_mod(twice, NL, NL) ELSE twice, NL)] IN
    FoldLeft(step, [r |-> Limbs(0, 4), a |-> a], [i \in 1..(8 * W) |-> i]).r

------------------------------------------------------------------------------
(* An accumulator that is added to, subtracted from and negated.              *)
Init == /\ m \in {P, N} /\ v = 0 /\ x = Limbs(0, 4) /\ y = Limbs(0, 4)

Add(b) == /\ b < m /\ x' = add_mod(x, Limbs(b, 4), Limbs(m, 4))
          /\ v' = (v + b) % m /\ y' = Limbs(b, 4) /\ UNCHANGED m
Sub(b) == /\ b < m /\ x' = sub_mod(x, Limbs(b, 4), Limbs(m, 4))
          /\ v' = (v - b) % m /\ y' = Limbs(b, 4) /\ UNCHANGED m
Negate == /\ m = P /\ x' = fp_neg(x) /\ v' = (-v) % m /\ UNCHANGED <<m, y>>

Next == Negate \/ \E b \in Operands : Add(b) \/ Sub(b)
Spec == Init /\ [][Next]_vars

\* Type correctness.
TypeOK == /\ m \in {P, N} /\ v \in 0..(m - 1)
          /\ x \in [1..4 -> 0..(Limb - 1)] /\ y \in [1..4 -> 0..(Limb - 1)]

\* Sums and differences of reduced numbers are reduced and right, through the
\* carry out of the top limb, and the wide product is exact (p256.rs
\* fp_add..fn_sub, mul512).
SumsRight == /\ Value(x) = v
             /\ Value(mul512(x, y)) = Value(x) * Value(y)
             /\ lt256(x, y) = (Value(x) < Value(y))

\* "All field arithmetic is mod the P-256 prime p.  Scalar arithmetic is mod
\* the P-256 group order n" (p256.rs): products too.
ProductsRight == Value(IF m = P THEN fp_mul(x, y) ELSE fn_mul(x, y)) = (Value(x) * Value(y)) % m
==============================================================================
