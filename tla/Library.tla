--------------------------------- MODULE Library ---------------------------------
(* Calls of the kernel's pure routines and what they return: number formatting,     *)
(* fixed-buffer printing, overlapping copies, and the way from the RSDP to the      *)
(* MADT's entries. Each property compares results with a definition that shares     *)
(* nothing with the code's loops.                                                   *)
EXTENDS Printf, Memory, Acpi

CONSTANTS
  Directives, Words,     \* kvprintf of one directive and one word
  Texts, Sizes,          \* ksnprintf of a text into a buffer of a size
  Byte, Contents,        \* memory contents for memmove
  Firmwares              \* what acpi_init may find

Numeric == {"d", "i", "u", "x", "X", "p"}
Directive(convs) == [conv: convs, zero_pad: BOOLEAN, width: Nat, length: Nat]

(* What va_arg finds for a directive. *)
Fits(d, arg) ==
  \/ d \in Directive(Numeric) /\ arg \in Nat
  \/ d \in Directive({"s"}) /\ (arg = NULL \/ arg \in Seq(Char))
  \/ d \in Directive({"c"}) /\ arg \in Char

(* A format whose directives find arguments of their types. *)
IsText(t) ==
  /\ t.items \in Seq({t.items[i]: i \in DOMAIN t.items})
  /\ \A i \in DOMAIN t.items:
       LET d == t.items[i]
       IN  IF d.conv \in Takes
             THEN Fits(d, t.args[Cardinality({j \in 1..i: t.items[j].conv \in Takes})])
             ELSE /\ d.conv \in Char \cup {"text", "end"}
                  /\ d.conv = "text" => d.char \in Char

ASSUME LibraryAssumption ==
  /\ Directives \subseteq Directive(Numeric) /\ Words \subseteq Nat
  /\ \A t \in Texts: IsText(t)
  /\ Sizes \subseteq Nat
  /\ Contents \subseteq Seq(Byte)
  /\ \A fw \in Firmwares: IsFirmware(fw)

VARIABLES
  call,    \* the routine called and its arguments
  result   \* what it returned

vars == <<call, result>>

Init ==
  /\ \/ \E d \in Directives, w \in Words: call = [op |-> "kvprintf", d |-> d, w |-> w]
     \/ \E t \in Texts, n \in Sizes: call = [op |-> "ksnprintf", fmt |-> t, size |-> n]
     \/ \E m \in Contents: \E d, s \in DOMAIN m, n \in 0..Len(m):
          /\ d + n <= Len(m) + 1 /\ s + n <= Len(m) + 1
          /\ call = [op |-> "memmove", mem |-> m, d |-> d, s |-> s, n |-> n]
     \/ \E fw \in Firmwares: call = [op |-> "madt_parse", fw |-> fw]
  /\ result = None

Pending(op) == call.op = op /\ result = None /\ UNCHANGED call

PrintNumber == Pending("kvprintf") /\ result' = Kvprintf(<<call.d>>, <<call.w>>)

PrintToBuffer ==
  /\ Pending("ksnprintf")
  /\ result' = Ksnprintf(call.size, Kvprintf(call.fmt.items, call.fmt.args))

Move ==
  /\ Pending("memmove")
  /\ result' = [moved |-> Memmove(call.mem, call.d, call.s, call.n),
                copied |-> Memcpy(call.mem, call.d, call.s, call.n)]

(* kmain runs acpi_init and later madt_parse. *)
ParseMadt ==
  /\ Pending("madt_parse")
  /\ LET root == AcpiInit(call.fw)
     IN  result' = [root |-> root,
                    info |-> IF root = Panic THEN Panic ELSE MadtParse(call.fw, root)]

Next == PrintNumber \/ PrintToBuffer \/ Move \/ ParseMadt

Spec == Init /\ [][Next]_vars

Returned(op) == call.op = op /\ result # None
----------------------------------------------------------------------------------

DigitOf(ch) == CHOOSE v \in 0..15: lower[v + 1] = ch \/ upper_digits[v + 1] = ch

(* The number that digits spell in a base, read from the left. *)
Reading(digits, base) ==
  LET read[j \in 0..Len(digits)] ==
        IF j = 0 THEN 0 ELSE read[j - 1] * base + DigitOf(digits[j])
  IN  read
Spelled(digits, base) == Reading(digits, base)[Len(digits)]

Without(s, k) == [i \in 1..(Len(s) - k) |-> s[k + i]]

(* The blanks of a printed number, the digits behind them, its leading zeros. *)
Blanks(s) == {i \in DOMAIN s: s[i] = " "}
Digits(s) == Without(s, Cardinality(Blanks(s)))
Zeros(s) == {i \in 1..(Len(Digits(s)) - 1): \A j \in 1..i: Digits(s)[j] = "0"}

(* A number printed by kvprintf reads back as the argument, the most negative and   *)
(* the largest word included, fills its width, and is padded only up to it: by      *)
(* zeros if the directive says so, else by blanks.                                  *)
NumbersReadBack ==
  Returned("kvprintf") =>
    LET d == call.d
        base == IF d.conv \in {"x", "X", "p"} THEN 16 ELSE 10
        value == IF d.conv \in {"d", "i"} THEN Signed(call.w, d.length)
                 ELSE Unsigned(call.w, IF d.conv = "p" THEN 1 ELSE d.length)
        head == CASE value < 0    -> <<"-">>
                  [] d.conv = "p" -> <<"0", "x">>
                  [] OTHER        -> << >>
        body == Without(result, Len(head))
        width == IF d.conv = "p" THEN POINTER_WIDTH + 2 ELSE d.width
    IN  /\ \A i \in 1..Len(head): result[i] = head[i]
        /\ Blanks(body) = 1..Cardinality(Blanks(body))
        /\ Digits(body) # << >>
        /\ Spelled(Digits(body), base) = (IF value < 0 THEN -value ELSE value)
        /\ Len(result) >= width
        /\ Len(result) > width => Blanks(body) = {} /\ Zeros(body) = {}
        /\ Blanks(body) # {} => ~d.zero_pad
        /\ Zeros(body) # {} => d.zero_pad \/ d.conv = "p"

(* ksnprintf writes inside its buffer, leaves a prefix of the text with one NUL     *)
(* after it, and its result tells the caller whether something was cut off.         *)
SnprintfBounded ==
  Returned("ksnprintf") =>
    LET text == Kvprintf(call.fmt.items, call.fmt.args)
        kept == Cardinality(DOMAIN result.buf) - 1
    IN  /\ DOMAIN result.buf = 0..kept
        /\ kept < call.size
        /\ call.size > 0 => result.buf[kept] = NUL
        /\ \A i \in 0..(kept - 1): result.buf[i] = text[i + 1]
        /\ call.size > 0 => (result.ret >= call.size <=> kept < Len(text))

(* The memory after all bytes moved at once. *)
MovedAtOnce(m, d, s, n) == [a \in DOMAIN m |-> IF a \in d..(d + n - 1) THEN m[s + a - d] ELSE m[a]]

(* memmove moves the bytes as if all at once, whichever way the ranges overlap;     *)
(* memcpy does where they do not.                                                   *)
MovesWhole ==
  Returned("memmove") =>
    LET whole == MovedAtOnce(call.mem, call.d, call.s, call.n)
    IN  /\ result.moved = whole
        /\ call.d + call.n <= call.s \/ call.s + call.n <= call.d => result.copied = whole

(* Where the entries of a MADT end, each right behind the one before. *)
Ends(madt) ==
  LET end[k \in 0..Len(madt.stream)] ==
        IF k = 0 THEN MADT_HEADER ELSE end[k - 1] + madt.stream[k].length
  IN  end

(* Its entries up to the first that is malformed or does not lie in it whole. *)
Whole(madt) ==
  {k \in 1..Len(madt.stream): \A j \in 1..k:
     /\ madt.stream[j].length # 0
     /\ Ends(madt)[j - 1] + ENTRY_HEADER <= madt.length
     /\ Ends(madt)[j] <= madt.length}

(* madt_parse reports what the first MADT the root table lists says: its enabled    *)
(* CPUs and its first I/O APIC, from whole entries only. A table whose checksum is  *)
(* bad is never used, and with no MADT listed it reports none.                      *)
MadtExact ==
  Returned("madt_parse") /\ result.root # Panic =>
    LET tables == [i \in DOMAIN result.root.lists |-> call.fw.table[result.root.lists[i]]]
        named == {i \in DOMAIN tables: tables[i].signature = "APIC"}
        madt == tables[Min(named)]
        apics(kind) == {k \in Whole(madt): madt.stream[k].type = kind}
        first == madt.stream[Min(apics("ioapic"))]
        info == result.info
    IN  /\ result.root.sum
        /\ info = None <=> named = {}
        /\ named # {} => (info = Panic <=> ~madt.sum)
        /\ info \notin {None, Panic} =>
             /\ info.enabled_cpu_count =
                  Cardinality({k \in apics("local_apic"): madt.stream[k].enabled})
             /\ info.have_ioapic <=> apics("ioapic") # {}
             /\ info.have_ioapic => /\ info.ioapic_address = first.address
                                    /\ info.ioapic_gsi_base = first.gsi_base
================================================================================
