----------------------------- MODULE Calculator -----------------------------
(* The calculator (desktop-metal app.rs).  Numbers are integers here, and NaN *)
(* is what a division by zero or the root of a negative number gives; of the  *)
(* functions of one argument the square root stands for all.                  *)
EXTENDS Integers, Sequences, SequencesExt

CONSTANTS DigitKeys,  \* the digits of the keypad
          DISPLAY,    \* characters that the display takes (18)
          MaxValue,   \* bound: size of the numbers
          MaxKeys     \* bound: keys pressed

VARIABLES display,      \* the number on the display, or NaN ("Error")
          len,          \* characters of it that were typed
          accumulator,
          current_op,   \* "none" or the pending operator
          new_number,   \* the next digit starts a number
          mem,
          error,
          typed,        \* the numbers and the operators entered
          plain,        \* they alternate, and no other key came between
          keys

vars == <<display, len, accumulator, current_op, new_number, mem, error, typed, plain, keys>>

NaN == 1000000  \* no number gets this far
Ops == {"+", "-", "*", "/"}

\* display_val: what is not a number reads as zero.
display_val == IF display = NaN THEN 0 ELSE display

Init == /\ display = 0 /\ len = 1 /\ accumulator = 0 /\ current_op = "none"
        /\ new_number = TRUE /\ mem = 0 /\ error = FALSE
        /\ typed = [num |-> <<>>, op |-> <<>>] /\ plain = TRUE /\ keys = 0

Apply(op, a, b) ==
    CASE a = NaN \/ (op = "/" /\ b = 0) -> NaN
      [] op = "+" -> a + b
      [] op = "-" -> a - b
      [] op = "*" -> a * b
      [] OTHER -> IF b < 0 THEN -(a \div (-b)) ELSE a \div b

Size(v) == IF v = NaN THEN 0 ELSE IF v < 0 THEN -v ELSE v
Key == keys < MaxKeys /\ keys' = keys + 1 /\ Size(display) <= MaxValue

Digit(d) ==
    LET fresh == new_number \/ error IN
    /\ Key
    /\ display' = (IF fresh THEN d ELSE IF len < DISPLAY THEN display * 10 + d ELSE display)
    /\ len' = (IF fresh THEN 1 ELSE IF len < DISPLAY THEN len + 1 ELSE len)
    /\ new_number' = FALSE /\ error' = FALSE
    /\ plain' = (plain /\ Len(typed.num) = Len(typed.op))
    /\ UNCHANGED <<accumulator, current_op, mem, typed>>

\* commit_op, and what is on the display after it.
Committed == IF current_op = "none" THEN display_val ELSE Apply(current_op, accumulator, display_val)
commit_op == /\ accumulator' = Committed
             /\ display' = (IF current_op = "none" THEN display ELSE Committed)
             /\ error' = (IF current_op = "none" THEN error ELSE Committed = NaN)

Entered == IF new_number THEN typed ELSE [typed EXCEPT !.num = Append(@, display)]

\* An operator applies the one before it; pressed twice it is applied twice.
Operator(op) ==
    /\ Key
    /\ display' = (IF current_op = "none" THEN display ELSE Committed)
    /\ error' = (IF current_op = "none" THEN error ELSE Committed = NaN)
    /\ accumulator' = (IF display' = NaN THEN 0 ELSE display')
    /\ current_op' = op /\ new_number' = TRUE
    /\ typed' = [Entered EXCEPT !.op = Append(@, op)] /\ plain' = (plain /\ ~new_number /\ display' # NaN)
    /\ UNCHANGED <<len, mem>>

Equals == /\ Key /\ commit_op /\ current_op' = "none"
          /\ new_number' = (IF current_op = "none" THEN new_number ELSE TRUE)
          /\ typed' = Entered /\ plain' = (plain /\ ~new_number /\ current_op # "none")
          /\ UNCHANGED <<len, mem>>

\* C.
Clear == /\ Key /\ display' = 0 /\ len' = 1 /\ accumulator' = 0 /\ current_op' = "none"
         /\ new_number' = TRUE /\ error' = FALSE /\ typed' = [num |-> <<>>, op |-> <<>>] /\ plain' = TRUE
         /\ UNCHANGED mem

Backspace == /\ Key /\ ~new_number /\ ~error
             /\ display' = (IF display < 0 THEN -((-display) \div 10) ELSE display \div 10)
             /\ len' = (IF len > 1 THEN len - 1 ELSE 1)
             /\ UNCHANGED <<accumulator, current_op, new_number, mem, error, typed, plain>>

\* set_result: the accumulator is overwritten although an operator may be pending.
SquareRoot ==
    LET r == IF display_val < 0 THEN NaN
             ELSE CHOOSE n \in 0..display_val : n * n <= display_val /\ (n + 1) * (n + 1) > display_val IN
    /\ Key /\ display' = r /\ error' = (r = NaN) /\ accumulator' = r
    /\ new_number' = TRUE /\ plain' = FALSE
    /\ UNCHANGED <<len, current_op, mem, typed>>

\* The sign is a character of the display too.  ("00" with a sign is left out.)
Negate == /\ Key /\ (display # 0 \/ len = 1)
          /\ display' = (IF display = NaN THEN NaN ELSE -display)
          /\ len' = (CASE new_number \/ display \in {0, NaN} -> len [] display < 0 -> len - 1 [] OTHER -> len + 1)
          /\ plain' = (plain /\ ~new_number)
          /\ UNCHANGED <<accumulator, current_op, new_number, mem, error, typed>>

MemoryAdd == /\ Key /\ mem' = mem + display_val /\ Size(mem) <= MaxValue
             /\ UNCHANGED <<display, len, accumulator, current_op, new_number, error, typed, plain>>
MemoryRecall == /\ Key /\ display' = mem /\ new_number' = TRUE /\ plain' = FALSE
                /\ UNCHANGED <<len, accumulator, current_op, mem, error, typed>>

Next == \/ Equals \/ Clear \/ Backspace \/ SquareRoot \/ Negate \/ MemoryAdd \/ MemoryRecall
        \/ \E d \in DigitKeys : Digit(d)
        \/ \E op \in Ops : Operator(op)
Spec == Init /\ [][Next]_vars

------------------------------------------------------------------------------
(* The line in balanced ternary under the display: a digit 2 becomes -1 and   *)
(* a carry, least significant digit first.                                    *)
to_balanced_ternary(n) ==
    LET m == Size(n)
        digits[k \in 0..m] ==
            IF k = 0 THEN <<>>
            ELSE IF k % 3 = 2 THEN <<-1>> \o digits[k \div 3 + 1]
                              ELSE <<k % 3>> \o digits[k \div 3] IN
    digits[m]
ValueOf(ds) == FoldRight(LAMBDA d, acc : d + 3 * acc, ds, 0)

TypeOK == /\ new_number \in BOOLEAN /\ error \in BOOLEAN /\ plain \in BOOLEAN
          /\ len \in 1..(DISPLAY + 1) /\ current_op \in Ops \cup {"none"}

\* Numbers and operators in turn give the value read from left to right, and
\* the ternary line names the number above it.
LeftToRight ==
    LET value[i \in 1..Len(typed.num)] ==
          IF i = 1 THEN typed.num[1] ELSE Apply(typed.op[i - 1], value[i - 1], typed.num[i]) IN
    value[Len(typed.num)]
ResultIsRight ==
    /\ plain /\ new_number /\ typed.num # <<>> => display = LeftToRight
    /\ display # NaN => ValueOf(to_balanced_ternary(display)) = Size(display)
==============================================================================
