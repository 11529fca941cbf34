------------------------------- MODULE Format -------------------------------
(***************************************************************************)
(* vsprintf() and number() of print.c as functions.  A text is a sequence  *)
(* of characters, a character a string of length one; the letters of a     *)
(* format that no directive starts are all "~", since nothing tells them   *)
(* apart.  Left out are %n, which no format of the kernel holds, and the   *)
(* fields `*', whose width is an argument.                                 *)
(*                                                                         *)
(* unsigned int has UINT values, 2^32 in the program; unsigned long is not *)
(* bounded, as number() only divides it.                                   *)
(***************************************************************************)
EXTENDS Integers, Sequences

CONSTANT UINT       \* values of an unsigned int

ASSUME UintAssumption == UINT \in Nat /\ UINT >= 65536     \* as C demands

Small == <<"0", "1", "2", "3", "4", "5", "6", "7", "8", "9",
           "a", "b", "c", "d", "e", "f">>
Large == <<"0", "1", "2", "3", "4", "5", "6", "7", "8", "9",
           "A", "B", "C", "D", "E", "F">>
Digit == {Small[i] : i \in 1 .. 10}

Repeat(c, n) == [i \in 1 .. n |-> c]    \* none for a negative n

Larger(m, n) == IF m >= n THEN m ELSE n

(* The flags of a directive by their characters; number() gets two more.   *)
LEFT      == "-"
PLUS      == "+"
SPACE     == " "
SPECIAL   == "#"
ZEROPAD   == "0"
FlagChars == {LEFT, PLUS, SPACE, SPECIAL, ZEROPAD}

-----------------------------------------------------------------------------
(* number() *)

(* The digits of num, the most significant one first; one 0 for 0.         *)
Digits(num, base, digits) ==
    LET d[n \in 0 .. num] ==
            IF n < base THEN <<digits[n + 1]>>
            ELSE Append(d[n \div base], digits[(n % base) + 1])
    IN  d[num]

Sign(num, type) ==
    IF "SIGN" \in type /\ num < 0 THEN <<"-">>
    ELSE IF PLUS \in type THEN <<"+">>
    ELSE IF SPACE \in type THEN <<" ">>
    ELSE <<>>

Prefix(base, type) ==
    IF SPECIAL \notin type THEN <<>>
    ELSE IF base = 8 THEN <<"0">>
    ELSE IF base = 16 THEN <<"0", IF "SMALL" \in type THEN "x" ELSE "X">>
    ELSE <<>>

number_PrefixNotCounted(num, base, size, precision, flags) ==
    \* as if the width did not count the 0x
    LET type == IF LEFT \in flags THEN flags \ {ZEROPAD} ELSE flags
        tmp  == Digits(IF "SIGN" \in type /\ num < 0 THEN -num ELSE num, base,
                       IF "SMALL" \in type THEN Small ELSE Large)
        room == size - Len(Sign(num, type)) - Larger(precision, Len(tmp))
    IN  Sign(num, type) \o Prefix(base, type)
        \o (IF ZEROPAD \in type THEN Repeat("0", room) ELSE <<>>)
        \o Repeat("0", precision - Len(tmp)) \o tmp

(* What remains of size is filled on the left with blanks or, behind sign  *)
(* and prefix, with zeros, or on the right with blanks.                    *)
number(num, base, size, precision, flags) ==
    LET type   == IF LEFT \in flags THEN flags \ {ZEROPAD} ELSE flags
        sign   == Sign(num, type)
        prefix == Prefix(base, type)
        tmp    == Digits(IF "SIGN" \in type /\ num < 0 THEN -num ELSE num,
                         base, IF "SMALL" \in type THEN Small ELSE Large)
        room   == size - Len(sign) - Len(prefix) - Larger(precision, Len(tmp))
    IN  (IF {ZEROPAD, LEFT} \cap type = {} THEN Repeat(" ", room) ELSE <<>>)
        \o sign \o prefix
        \o (IF ZEROPAD \in type THEN Repeat("0", room) ELSE <<>>)
        \o Repeat("0", precision - Len(tmp)) \o tmp
        \o (IF LEFT \in type THEN Repeat(" ", room) ELSE <<>>)

-----------------------------------------------------------------------------
(* vsprintf() *)

(* The first place from i on that does not hold one of the characters S.   *)
After(fmt, i, S) ==
    CHOOSE j \in i .. Len(fmt) + 1 :
        /\ j > Len(fmt) \/ fmt[j] \notin S
        /\ \A k \in i .. j - 1 : fmt[k] \in S

CharAt(fmt, i) == IF i <= Len(fmt) THEN fmt[i] ELSE "end"

skip_atoi(fmt, i, j) ==     \* the number in the digits i .. j - 1
    LET v[k \in i - 1 .. j - 1] ==
            IF k < i THEN 0
            ELSE 10 * v[k - 1] + (CHOOSE d \in 0 .. 9 : Small[d + 1] = fmt[k])
    IN  v[j - 1]

(* What follows a % at i - 1: flags, width, precision, qualifier and the   *)
(* place of the conversion.                                                *)
Directive(fmt, i) ==
    LET w == After(fmt, i, FlagChars)
        p == After(fmt, w, Digit)
        hasP == CharAt(fmt, p) = "."
        q == IF hasP THEN After(fmt, p + 1, Digit) ELSE p
        c == IF CharAt(fmt, q) \in {"h", "l", "L", "Z"} THEN q + 1 ELSE q
    IN  [flags |-> {fmt[k] : k \in i .. w - 1},
         field_width |-> IF p = w THEN -1 ELSE skip_atoi(fmt, w, p),
         precision |-> IF hasP THEN skip_atoi(fmt, p + 1, q) ELSE -1,
         long |-> CharAt(fmt, q) = "l",
         at |-> c]

(* The text of %s, cut to the precision and padded to the width.           *)
Padded(s, d) ==
    LET text == IF d.precision >= 0 /\ d.precision < Len(s)
                THEN SubSeq(s, 1, d.precision) ELSE s
        room == Repeat(" ", d.field_width - Len(text))
    IN  IF LEFT \in d.flags THEN text \o room ELSE room \o text

(* A conversion of the argument arg.  Without `l' an integer is fetched as *)
(* an unsigned int, whatever its conversion.                               *)
Converted(c, d, arg) ==
    LET num == IF d.long THEN arg ELSE arg % UINT
    IN  CASE c = "c" -> Padded(<<arg>>, [d EXCEPT !.precision = -1])
          [] c = "s" -> Padded(arg, d)
          [] c = "o" -> number(num, 8, d.field_width, d.precision, d.flags)
          [] c = "p" -> number(arg, 16,
                               IF d.field_width = -1 THEN 16 ELSE d.field_width,
                               d.precision,
                               IF d.field_width = -1 THEN d.flags \cup {ZEROPAD}
                                                     ELSE d.flags)
          [] c = "x" -> number(num, 16, d.field_width, d.precision,
                               d.flags \cup {"SMALL"})
          [] c = "X" -> number(num, 16, d.field_width, d.precision, d.flags)
          [] c \in {"d", "i"} -> number(num, 10, d.field_width, d.precision,
                                        d.flags \cup {"SIGN"})
          [] c = "u" -> number(num, 10, d.field_width, d.precision, d.flags)

Conversion == {"c", "s", "o", "p", "x", "X", "d", "i", "u"}

(* The loop over the format from place i, with the arguments from the      *)
(* a-th on.  A % that no conversion follows is printed.                    *)
vsprintf(fmt, args) ==
    LET str[at \in (1 .. Len(fmt) + 1) \X Nat] ==
            LET i == at[1]
                a == at[2]
                d == Directive(fmt, i + 1)
                c == CharAt(fmt, d.at)
            IN  IF i > Len(fmt) THEN <<>>
                ELSE IF fmt[i] # "%" THEN <<fmt[i]>> \o str[<<i + 1, a>>]
                ELSE IF c \in Conversion
                THEN Converted(c, d, args[a]) \o str[<<d.at + 1, a + 1>>]
                ELSE IF c = "end" THEN <<"%">>
                ELSE (IF c = "%" THEN <<"%">> ELSE <<"%", c>>)
                     \o str[<<d.at + 1, a>>]
    IN  str[<<1, 1>>]
=============================================================================
