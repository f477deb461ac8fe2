-------------------------------- MODULE Curve --------------------------------
(* Points and signatures of P-256 (kernel p256.rs) over a small curve          *)
(* y^2 = x^3 - 3x + B, above its two fields.  The products of the fields are   *)
(* parameters: what p256.rs has for them is module P256, and is wrong there.   *)
(* What is said here is said of products that are right, so it is of the       *)
(* formulas and of the order of the tests, and not of what verify answers in   *)
(* the program.  Sums and differences, which P256 shows to be right, are exact.*)
EXTENDS Integers, Sequences, SequencesExt

CONSTANTS P, B,     \* the field and the curve
          N, G,     \* the prime order of the group, its generator
          fp_mul(_, _), fn_mul(_, _),  \* the products modulo P and modulo N
          Bits,     \* bits of a scalar
          Hashes    \* digests, not all of them below N

VARIABLES key,      \* the signer's private key, 0 before there is one
          sig,      \* [e, r, s]: the digest and the signature that were given
          accepted  \* what verify makes of them, over these products

vars == <<key, sig, accepted>>

Inf == [x |-> 0, y |-> 0, z |-> 0]
None == <<>>
Bit(k, i) == (k \div 2 ^ i) % 2
Below(n) == [i \in 1..n |-> i]
fp_sqr(a) == fp_mul(a, a)
fp_sub(a, b) == (a - b) % P
fp_twice(a) == (a + a) % P

\* Square and multiply over the bits of the exponent: fp_inv, fn_inv.
inv(mul(_, _), a, mod) ==
    FoldLeft(LAMBDA s, i : [r |-> IF Bit(mod - 2, i - 1) = 1 THEN mul(s.r, s.base) ELSE s.r,
                            base |-> mul(s.base, s.base)],
             [r |-> 1, base |-> a], Below(Bits)).r
fp_inv(a) == inv(fp_mul, a, P)
fn_inv(a) == inv(fn_mul, a, N)

------------------------------------------------------------------------------
jac_double(p) ==
    IF p.z = 0 THEN p
    ELSE LET y2 == fp_sqr(p.y)
             s == fp_mul(fp_mul(4, p.x), y2)
             m == fp_mul(3, fp_sub(fp_sqr(p.x), fp_sqr(fp_sqr(p.z))))
             x3 == fp_sub(fp_sqr(m), fp_twice(s)) IN
         [x |-> x3, y |-> fp_sub(fp_mul(m, fp_sub(s, x3)), fp_mul(8, fp_sqr(y2))),
          z |-> fp_mul(fp_mul(2, p.y), p.z)]

\* The chord through a and b, where h and r are the differences of their
\* coordinates brought to one Z.
Chord(a, b, u1, s1, h, r) ==
    LET h2 == fp_sqr(h)
        h3 == fp_mul(h, h2)
        uh2 == fp_mul(u1, h2)
        x3 == fp_sub(fp_sub(fp_sqr(r), h3), fp_twice(uh2)) IN
    [x |-> x3, y |-> fp_sub(fp_mul(r, fp_sub(uh2, x3)), fp_mul(s1, h3)), z |-> fp_mul(fp_mul(h, a.z), b.z)]
U(a, b) == fp_mul(a.x, fp_sqr(b.z))
S(a, b) == fp_mul(a.y, fp_mul(b.z, fp_sqr(b.z)))

\* Seeded fault: equal points are not doubled.
jac_addGeneral(a, b) ==
    IF a.z = 0 THEN b ELSE IF b.z = 0 THEN a
    ELSE Chord(a, b, U(a, b), S(a, b), fp_sub(U(b, a), U(a, b)), fp_sub(S(b, a), S(a, b)))

jac_add(a, b) ==
    IF a.z = 0 THEN b ELSE IF b.z = 0 THEN a
    ELSE LET h == fp_sub(U(b, a), U(a, b))
             r == fp_sub(S(b, a), S(a, b)) IN
         IF h = 0 THEN IF r = 0 THEN jac_double(a) ELSE Inf
         ELSE Chord(a, b, U(a, b), S(a, b), h, r)

jac_to_affine(p) ==
    IF p.z = 0 THEN None
    ELSE LET zi == fp_inv(p.z)
             zi2 == fp_sqr(zi) IN <<fp_mul(p.x, zi2), fp_mul(p.y, fp_mul(zi, zi2))>>
Jac(q) == [x |-> q[1], y |-> q[2], z |-> 1]

\* From the top bit down: double, then add.
scalar_mul(k, q) ==
    jac_to_affine(FoldLeft(LAMBDA r, i : LET d == jac_double(r) IN
                               IF Bit(k, Bits - i) = 1 THEN jac_add(d, Jac(q)) ELSE d,
                           Inf, Below(Bits)))

\* The tests come first; a multiple that is the point at infinity is refused.
verify(q, e, r, s) ==
    /\ r \in 1..(N - 1) /\ s \in 1..(N - 1)
    /\ LET w == fn_inv(s)
           g1 == scalar_mul(fn_mul(e, w), G)
           q1 == scalar_mul(fn_mul(r, w), q) IN
       /\ g1 # None /\ q1 # None
       /\ LET a == jac_to_affine(jac_add(Jac(g1), Jac(q1))) IN
          a # None /\ (a[1] = r \/ (IF a[1] >= N THEN a[1] - N ELSE a[1]) = r)

------------------------------------------------------------------------------
(* The reference: the chord and tangent law on affine points.                 *)
Over(a, b) == CHOOSE c \in 0..(P - 1) : (b * c - a) % P = 0
Sum(a, b) ==
    IF a = None THEN b ELSE IF b = None THEN a
    ELSE IF a[1] = b[1] /\ (a[2] + b[2]) % P = 0 THEN None
    ELSE LET l == IF a = b THEN Over(3 * a[1] * a[1] - 3, 2 * a[2]) ELSE Over(b[2] - a[2], b[1] - a[1])
             x3 == (l * l - a[1] - b[1]) % P IN
         <<x3, (l * (a[1] - x3) - a[2]) % P>>
Multiple[k \in 0..(2 * N)] == IF k = 0 THEN None ELSE Sum(Multiple[k - 1], G)
\* The same point with another Z.
Scaled(q, z) == IF q = None THEN Inf
                ELSE [x |-> (q[1] * z * z) % P, y |-> (q[2] * z * z * z) % P, z |-> z]
\* ECDSA as it is defined, with the discrete logarithm at hand.
Valid(d, e, r, s) ==
    /\ r \in 1..(N - 1) /\ s \in 1..(N - 1)
    /\ \E w \in 1..(N - 1) :
         /\ (s * w) % N = 1
         /\ LET sum == Multiple[(w * (e + r * d)) % N] IN sum # None /\ sum[1] % N = r

------------------------------------------------------------------------------
Init == key = 0 /\ sig = [e |-> 0, r |-> 0, s |-> 0] /\ accepted = FALSE

\* A certificate arrives: a signature that may be any pair.
Receive(d, e, r, s) ==
    /\ key = 0 /\ key' = d /\ sig' = [e |-> e, r |-> r, s |-> s]
    /\ accepted' = verify(Multiple[d], e, r, s)

Next == \E d \in 1..(N - 1), e \in Hashes, r, s \in 0..(N + 1) : Receive(d, e, r, s)
Spec == Init /\ [][Next]_vars

\* Type correctness.
TypeOK == /\ key \in 0..(N - 1) /\ accepted \in BOOLEAN
          /\ sig \in [e : Hashes \cup {0}, r : 0..(N + 1), s : 0..(N + 1)]

\* The fields multiply as numbers do: what the rest is said under.
ProductsExact == /\ \A a, b \in 0..(P - 1) : fp_mul(a, b) = (a * b) % P
                 /\ \A a \in 0..(2 ^ Bits - 1), b \in 0..(N - 1) : fn_mul(a, b) = (a * b) % N

\* Given right products, doubling and adding in Jacobian coordinates is the law
\* of the group, for equal and opposite points and infinity too, and verify
\* accepts exactly the valid signatures (p256.rs jac_add, jac_double, verify),
\* but for the digests that are multiples of N, whose first multiple it refuses.
FormulasRight ==
    ProductsExact =>
      /\ key # 0 =>
           \A z1, z2 \in {1, 2, P - 1} : LET a == Multiple[key] b == Multiple[sig.r % N] IN
               jac_to_affine(jac_add(Scaled(a, z1), Scaled(b, z2))) = Sum(a, b)
      /\ key # 0 /\ sig.e % N # 0 => accepted = Valid(key, sig.e, sig.r, sig.s)
==============================================================================
