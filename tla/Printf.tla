--------------------------------- MODULE Printf ---------------------------------
(* kernel/lib/printf.c: kvprintf's conversions and ksnprintf's fixed buffer. A      *)
(* format is a sequence of directives, [conv, zero_pad, width, length], as kvprintf *)
(* reads them off the string; conv "text" stands for a plain character, kept in     *)
(* `char`. An argument is the machine word va_arg finds, or a string. Formats end    *)
(* between directives or in a bare `%`: after "%5", "%0" or "%l" the loop's p++      *)
(* steps over the terminator, and what kvprintf reads from there on has no model.    *)
EXTENDS Integers, Sequences, FiniteSets, FiniteSetsExt

CONSTANTS
  LONG_VALUES, INT_VALUES,   \* numbers of values of a long and an int: 2^64 and 2^32
  POINTER_WIDTH,             \* digits of %p: 16
  DIGITS,                    \* sizeof(digits): 32
  Char,                      \* characters, the ones kvprintf prints of itself among them
  NULL, NUL

lower == <<"0", "1", "2", "3", "4", "5", "6", "7", "8", "9", "a", "b", "c", "d", "e", "f">>
upper_digits == <<"0", "1", "2", "3", "4", "5", "6", "7", "8", "9", "A", "B", "C", "D", "E", "F">>

ASSUME CharAssumption ==
  /\ \A i \in 1..16: lower[i] \in Char /\ upper_digits[i] \in Char
  /\ {"-", "x", " ", "%", "(", "n", "u", "l", ")"} \subseteq Char

(* va_arg of an int or a long: the low bits of the word. *)
Values(length) == IF length > 0 THEN LONG_VALUES ELSE INT_VALUES
Unsigned(word, length) == word % Values(length)
Signed(word, length) ==
  LET u == Unsigned(word, length)
  IN  IF u >= Values(length) \div 2 THEN u - Values(length) ELSE u

EmitPadded(chars, width, zero_pad) ==
  [i \in 1..Max({0, width - Len(chars)}) |-> IF zero_pad THEN "0" ELSE " "] \o chars

(* emit_unsigned's value after k turns of its loop. *)
Quotients(value, base) ==
  LET left[k \in 0..DIGITS] == IF k = 0 THEN value ELSE left[k - 1] \div base IN left

(* The longest number fits in `digits`. *)
ASSUME PrintfAssumption ==
  /\ LONG_VALUES \in Nat /\ INT_VALUES \in Nat
  /\ 2 <= INT_VALUES /\ INT_VALUES <= LONG_VALUES
  /\ POINTER_WIDTH \in Nat /\ DIGITS \in Nat \ {0}
  /\ \A base \in {10, 16}: Quotients(LONG_VALUES - 1, base)[DIGITS] = 0

(* Mutant: `while` for `do`, so zero has no digit. *)
TurnsWhile(value, base) ==
  Min({k \in 0..DIGITS: Quotients(value, base)[k] = 0} \cup {DIGITS})

(* The turns the loop takes, one at least. *)
Turns(value, base) ==
  Min({k \in 1..DIGITS: Quotients(value, base)[k] = 0} \cup {DIGITS})

(* The digits as the loop finds them, the last one first. *)
Backward(value, base) ==
  [i \in 1..Turns(value, base) |-> Quotients(value, base)[i - 1] % base]

EmitUnsigned(value, base, upper, width, zero_pad) ==
  LET table == IF upper THEN upper_digits ELSE lower
      digits == Backward(value, base)
      reversed == [i \in DOMAIN digits |-> table[1 + digits[Len(digits) + 1 - i]]]
  IN  EmitPadded(reversed, width, zero_pad)

(* The sign comes before the padding and takes one column of the width. *)
EmitSigned(value, width, zero_pad) ==
  IF value < 0
    THEN <<"-">> \o EmitUnsigned((-(value + 1) + 1) % LONG_VALUES, 10, FALSE,
                                 IF width > 0 THEN width - 1 ELSE 0, zero_pad)
    ELSE EmitUnsigned(value, 10, FALSE, width, zero_pad)

(* The switch of kvprintf: what a directive that takes an argument prints. *)
Takes == {"d", "i", "u", "x", "X", "p", "s", "c"}
Conversion(d, arg) ==
  CASE d.conv \in {"d", "i"} -> EmitSigned(Signed(arg, d.length), d.width, d.zero_pad)
    [] d.conv = "u" -> EmitUnsigned(Unsigned(arg, d.length), 10, FALSE, d.width, d.zero_pad)
    [] d.conv \in {"x", "X"} ->
         EmitUnsigned(Unsigned(arg, d.length), 16, d.conv = "X", d.width, d.zero_pad)
    [] d.conv = "p" ->
         <<"0", "x">> \o EmitUnsigned(Unsigned(arg, 1), 16, FALSE, POINTER_WIDTH, TRUE)
    [] d.conv = "s" ->
         EmitPadded(IF arg = NULL THEN <<"(", "n", "u", "l", "l", ")">> ELSE arg, d.width, FALSE)
    [] d.conv = "c" -> <<arg>>

(* ... and one that does not: an unknown conversion is printed as it stands, a `%` *)
(* at the end of the format prints nothing.                                        *)
Literal(d) ==
  CASE d.conv = "text" -> <<d.char>>
    [] d.conv = "%"    -> <<"%">>
    [] d.conv = "end"  -> << >>
    [] OTHER           -> <<"%", d.conv>>

(* What the i-th directive prints: it takes the next argument, if it takes one. *)
Piece(fmt, args, i) ==
  LET taken == Cardinality({j \in 1..i: fmt[j].conv \in Takes})
  IN  IF fmt[i].conv \in Takes THEN Conversion(fmt[i], args[taken]) ELSE Literal(fmt[i])

(* The text after the first i directives, and after all. *)
Printed(fmt, args) ==
  LET text[i \in 0..Len(fmt)] == IF i = 0 THEN << >> ELSE text[i - 1] \o Piece(fmt, args, i)
  IN  text
Kvprintf(fmt, args) == Printed(fmt, args)[Len(fmt)]

(* What snprintf_emit stores of text in a buffer of the given size. *)
Stored(text, size) == {i \in 0..(Len(text) - 1): i + 1 < size}

(* Mutant: the terminator of a text that does not fit goes behind the buffer. *)
KsnprintfLateNul(size, text) ==
  LET term == IF Len(text) < size THEN Len(text) ELSE size
  IN  [buf |-> [i \in Stored(text, size) \cup (IF size > 0 THEN {term} ELSE {}) |->
                  IF i = term THEN NUL ELSE text[i + 1]],
       ret |-> Len(text)]

(* ksnprintf of a format that prints text: the bytes of buf it writes, its result. *)
Ksnprintf(size, text) ==
  LET term == IF Len(text) < size - 1 THEN Len(text) ELSE size - 1
  IN  [buf |-> [i \in Stored(text, size) \cup (IF size > 0 THEN {term} ELSE {}) |->
                  IF i = term THEN NUL ELSE text[i + 1]],
       ret |-> Len(text)]
================================================================================
