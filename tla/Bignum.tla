------------------------------- MODULE Bignum -------------------------------
(* Modular exponentiation for RSA signatures (kernel bignum.rs): Montgomery    *)
(* products over limbs of L bits, where the code has 64, and square and        *)
(* multiply over the exponent.                                                 *)
EXTENDS Integers, Sequences, SequencesExt

CONSTANTS L,         \* bits of a limb
          Moduli,    \* odd moduli
          Bases,     \* numbers to raise, some longer than the modulus
          Exponents  \* exponents, as bits with the highest first

VARIABLES n, base,   \* modulus and base, in limbs
          a_mont,    \* the base in the Montgomery domain
          result, started,
          left,      \* bits of the exponent that are to come
          e,         \* what the bits so far make
          out        \* what mod_exp returned, or <<>>

vars == <<n, base, a_mont, result, started, left, e, out>>

Limb == 2 ^ L
Upto(k) == [i \in 1..k |-> i]
Value(l) == FoldRight(LAMBDA d, s : d + Limb * s, l, 0)

\* Padded or cut to k limbs.
from_be(v, k) == [i \in 1..k |-> (v \div Limb ^ (i - 1)) % Limb]
Size(v) == CHOOSE k \in 1..8 : v < Limb ^ k /\ (k = 1 \/ v >= Limb ^ (k - 1))

ge(a, b) == a = b \/ \E i \in 1..Len(a) : a[i] > b[i] /\ \A j \in (i + 1)..Len(a) : a[j] = b[j]
sub_assign(a, b) ==
    FoldLeft(LAMBDA s, i : LET d == a[i] - b[i] - s.c IN
                 [r |-> Append(s.r, d % Limb), c |-> IF d < 0 THEN 1 ELSE 0],
             [r |-> <<>>, c |-> 0], Upto(Len(a))).r

\* Newton: each of the six rounds doubles the bits that are right.
n0inv(n0) == (-FoldLeft(LAMBDA x, i : (x * (2 - n0 * x)) % Limb, 1, Upto(6))) % Limb

\* One row of the product and the reduction that shifts t down by a limb.
Row(a, bi, mod, t) ==
    LET s == Len(mod)
        add == FoldLeft(LAMBDA u, j : LET x == t[j] + a[j] * bi + u.c IN
                            [t |-> Append(u.t, x % Limb), c |-> x \div Limb],
                        [t |-> <<>>, c |-> 0], Upto(s))
        m == (add.t[1] * n0inv(mod[1])) % Limb
        red == FoldLeft(LAMBDA u, j : LET x == add.t[j] + m * mod[j] + u.c IN
                            [t |-> Append(u.t, x % Limb), c |-> x \div Limb],
                        [t |-> <<>>, c |-> 0], Upto(s))
        top == t[s + 1] + add.c
        x == (top % Limb) + red.c IN
    Tail(red.t) \o <<x % Limb, (top \div Limb) + (x \div Limb)>>
\* Seeded fault: the carry out of the top limb is forgotten.
mont_mulNoCarry(a, b, mod) ==
    LET s == Len(mod)
        t == FoldLeft(LAMBDA u, i : Row(a, b[i], mod, u), [i \in 1..(s + 1) |-> 0], Upto(s))
        res == SubSeq(t, 1, s) IN
    IF ge(res, mod) THEN sub_assign(res, mod) ELSE res

\* a * b / Limb^k modulo n; the last limb of t is the carry out of the others.
mont_mul(a, b, mod) ==
    LET s == Len(mod)
        t == FoldLeft(LAMBDA u, i : Row(a, b[i], mod, u), [i \in 1..(s + 1) |-> 0], Upto(s))
        res == SubSeq(t, 1, s) IN
    IF t[s + 1] # 0 \/ ge(res, mod) THEN sub_assign(res, mod) ELSE res

\* R^2 modulo n: one, doubled 2*L*k times.
RR(mod) ==
    LET k == Len(mod)
        twice(r, i) == LET d == from_be(2 * Value(r), k) IN
                       IF 2 * Value(r) >= Limb ^ k \/ ge(d, mod) THEN sub_assign(d, mod) ELSE d IN
    FoldLeft(twice, from_be(1, k), Upto(2 * L * k))
One(mod) == from_be(1, Len(mod))

------------------------------------------------------------------------------
Init == /\ n = <<1>> /\ base = <<0>> /\ a_mont = <<0>> /\ result = <<0>>
        /\ started = FALSE /\ left = <<>> /\ e = 0 /\ out = <<>>

\* mod_exp, up to its loop.  A base that is still too large is reduced once.
Begin(b, x, mod) ==
    LET nl == from_be(mod, Size(mod))
        bl == from_be(b, Len(nl))
        reduced == IF ge(bl, nl) THEN sub_assign(bl, nl) ELSE bl IN
    /\ n = <<1>>
    /\ n' = nl /\ base' = bl /\ left' = x
    /\ a_mont' = mont_mul(reduced, RR(nl), nl)
    /\ result' = mont_mul(One(nl), RR(nl), nl)
    /\ started' = FALSE /\ e' = 0 /\ out' = <<>>

\* One bit of the exponent: squared from the first one on.
Step ==
    LET sq == IF started THEN mont_mul(result, result, n) ELSE result IN
    /\ n # <<1>> /\ left # <<>> /\ left' = Tail(left) /\ e' = 2 * e + Head(left)
    /\ started' = (started \/ Head(left) = 1)
    /\ result' = (CASE Head(left) = 0 -> sq
                    [] Head(left) = 1 /\ ~started -> a_mont
                    [] OTHER -> mont_mul(sq, a_mont, n))
    /\ UNCHANGED <<n, base, a_mont, out>>

Finish == /\ n # <<1>> /\ left = <<>> /\ out = <<>>
          /\ out' = (IF started THEN mont_mul(result, One(n), n) ELSE One(n))
          /\ UNCHANGED <<n, base, a_mont, result, started, left, e>>

Next == Step \/ Finish \/ \E b \in Bases, x \in Exponents, mod \in Moduli : Begin(b, x, mod)
Spec == Init /\ [][Next]_vars

\* Type correctness.
TypeOK == /\ started \in BOOLEAN /\ e \in Nat
          /\ \A l \in {n, base, a_mont, result, out} : \A i \in 1..Len(l) : l[i] \in 0..(Limb - 1)

\* After every bit the accumulator is the base to the bits so far, times R,
\* reduced; what comes out is the power (bignum.rs mont_mul, mod_exp).
PowersRight ==
    LET N == Value(n) R == Limb ^ Len(n) power == IF e = 0 THEN 1 ELSE Value(base) ^ e IN
    /\ started => Value(result) = (power * R) % N
    /\ out # <<>> => Value(out) = power % N
==============================================================================
