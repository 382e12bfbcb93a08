--------------------------------- MODULE Keyboard ---------------------------------
(* kernel/drivers/keyboard/keyboard.c: the IRQ1 handler that decodes scancodes into *)
(* a ring buffer, and keyboard_read_char that a thread polls. The handler runs with *)
(* interrupts off and so in one step; it may run between any two steps of the       *)
(* reader.                                                                          *)
EXTENDS Integers, Sequences

CONSTANTS
  BUFFER_SIZE,
  Shift,        \* the make codes 0x2a and 0x36
  Mapped,       \* codes both tables give a character
  Unmapped,     \* codes they give none, or that lie past their end
  Key,          \* physical keys: a code, and whether 0xe0 comes before it
  NUL,
  MaxWire       \* bound: scancode bytes waiting in the controller

Code == Shift \cup Mapped \cup Unmapped
Char == Mapped \X BOOLEAN     \* unshifted_table and shifted_table

ASSUME KeyboardAssumption ==
  /\ BUFFER_SIZE \in Nat \ {0, 1}
  /\ Key \subseteq [code: Code, extended: BOOLEAN]
  /\ "E0" \notin Code
  /\ NUL \notin Char
  /\ MaxWire \in Nat

VARIABLES
  down,         \* the keys held down
  overlap,      \* history: two Shift keys have been down together since none was
  wire,         \* bytes the handler has not read from port 0x60
  shift_held,
  buffer, buffer_head, buffer_tail,
  pc, c,        \* the reader: the next step of keyboard_read_char, its local c
  got           \* the last character it returned

isr == <<shift_held, buffer, buffer_head>>
keys == <<down, overlap>>
vars == <<keys, wire, isr, buffer_tail, pc, c, got>>

(* keyboard_init has run. *)
Init ==
  /\ down = {}
  /\ overlap = FALSE
  /\ wire = << >>
  /\ shift_held = FALSE
  /\ buffer = [i \in 0..(BUFFER_SIZE - 1) |-> NUL]
  /\ buffer_head = 0
  /\ buffer_tail = 0
  /\ pc = "call"
  /\ c = NUL
  /\ got = NUL

(* A key counts as a Shift key by its code: the handler ignores the prefix, so the  *)
(* 0xe0 0x2a that Print Screen sends is one too.                                    *)
ShiftKeys(S) == {k \in S: k.code \in Shift}

(* What the user means by the next character: neither case is meant while one of    *)
(* two overlapping Shift keys remains down, as shift_held is one flag for both.     *)
ShiftState ==
  IF ShiftKeys(down) = {} THEN "up" ELSE IF overlap THEN "unclear" ELSE "down"

(* The keyboard sends a key's code, with the release bit when it goes up, and the   *)
(* prefix first if it is an extended key. A key held down repeats. The field shift  *)
(* is history that no step reads: what the user meant when the byte was sent.       *)
Send(k, released) ==
  /\ Len(wire) + 2 <= MaxWire
  /\ LET Byte(x, r) == [code |-> x, released |-> r, shift |-> ShiftState]
     IN  wire' = wire \o (IF k.extended THEN <<Byte("E0", TRUE)>> ELSE << >>)
                      \o <<Byte(k.code, released)>>
  /\ UNCHANGED <<isr, buffer_tail, pc, c, got>>

Hold(keysDown) ==
  /\ down' = keysDown
  /\ overlap' = /\ ShiftKeys(keysDown) # {}
                /\ overlap \/ \E k, l \in ShiftKeys(keysDown): k # l

Press(k) == Send(k, FALSE) /\ Hold(down \cup {k})

LetGo(k) == k \in down /\ Send(k, TRUE) /\ Hold(down \ {k})

----------------------------------------------------------------------------------

(* Mutant: no slot stays empty, so a full buffer looks like an empty one. *)
FullNever(next) == FALSE

(* Mutant: the buffer is taken to be full one character early. *)
FullEarly(next) == next = buffer_tail \/ (next + 1) % BUFFER_SIZE = buffer_tail

Full(next) == next = buffer_tail

(* buffer_push: full drops the newest character. *)
BufferPush(x) ==
  LET next == (buffer_head + 1) % BUFFER_SIZE
  IN  IF Full(next) THEN UNCHANGED <<buffer, buffer_head>>
      ELSE /\ buffer' = [buffer EXCEPT ![buffer_head] = x]
           /\ buffer_head' = next

(* The byte stands for a character. *)
Types(b) == b.code \in Mapped /\ ~b.released

(* Mutant: a release of Shift is taken for a press. *)
ShiftAfterSticky(b) == IF b.code \in Shift THEN TRUE ELSE shift_held

ShiftAfter(b) == IF b.code \in Shift THEN ~b.released ELSE shift_held

(* keyboard_isr *)
KeyboardIsr ==
  /\ wire # << >>
  /\ LET b == Head(wire)
     IN  /\ shift_held' = ShiftAfter(b)
         /\ IF Types(b) THEN BufferPush(<<b.code, shift_held>>)
                        ELSE UNCHANGED <<buffer, buffer_head>>
  /\ wire' = Tail(wire)
  /\ UNCHANGED <<keys, buffer_tail, pc, c, got>>

(* keyboard_read_char: an empty buffer returns '\0' at once and the reader polls    *)
(* again.                                                                           *)
CheckEmpty ==
  /\ pc = "call"
  /\ buffer_tail # buffer_head
  /\ pc' = "load"
  /\ UNCHANGED <<keys, wire, isr, buffer_tail, c, got>>

Load ==
  /\ pc = "load"
  /\ c' = buffer[buffer_tail]
  /\ pc' = "advance"
  /\ UNCHANGED <<keys, wire, isr, buffer_tail, got>>

Advance ==
  /\ pc = "advance"
  /\ buffer_tail' = (buffer_tail + 1) % BUFFER_SIZE
  /\ got' = c
  /\ c' = NUL
  /\ pc' = "call"
  /\ UNCHANGED <<keys, wire, isr>>

(* Nothing orders the load before the store of buffer_tail (neither is volatile, and *)
(* there is no barrier): the compiler may advance first and load from the old place. *)
AdvanceFirst ==
  /\ pc = "load"
  /\ buffer_tail' = (buffer_tail + 1) % BUFFER_SIZE
  /\ pc' = "late_load"
  /\ UNCHANGED <<keys, wire, isr, c, got>>

Behind == (buffer_tail - 1) % BUFFER_SIZE

LateLoad ==
  /\ pc = "late_load"
  /\ got' = buffer[Behind]
  /\ pc' = "call"
  /\ UNCHANGED <<keys, wire, isr, buffer_tail, c>>

KeyboardReadChar == CheckEmpty \/ Load \/ Advance \/ AdvanceFirst \/ LateLoad

Next ==
  \/ \E k \in Key: Press(k) \/ LetGo(k)
  \/ KeyboardIsr
  \/ KeyboardReadChar

(* The thread that reads keeps polling, and a waiting byte keeps IRQ1 asserted. *)
Spec == Init /\ [][Next]_vars /\ WF_vars(KeyboardIsr)
        /\ WF_vars(KeyboardReadChar)

----------------------------------------------------------------------------------

(* What the buffer holds, oldest first. *)
Unread ==
  [i \in 1..((buffer_head - buffer_tail) % BUFFER_SIZE) |->
     buffer[(buffer_tail + i - 1) % BUFFER_SIZE]]

(* The ring implements a bounded FIFO whatever the interleaving of handler and      *)
(* reader: no character is lost once accepted, repeated or overtaken, and each is   *)
(* read in the end. The slot that stays empty keeps a character whose load comes    *)
(* after the advance from being overwritten.                                        *)
Fifo == INSTANCE BoundedFifo WITH
  Capacity <- BUFFER_SIZE - 1, queue <- Unread,
  out <- IF pc = "late_load" THEN buffer[Behind] ELSE got

ImplementsFifo == Fifo!Spec

(* A character is dropped only when BUFFER_SIZE - 1 are waiting. *)
DropsOnlyWhenFull ==
  [][wire # << >> /\ wire' = Tail(wire) /\ Types(Head(wire)) /\ buffer_head' = buffer_head
       => Len(Unread) = BUFFER_SIZE - 1]_vars

(* A flag's value agrees with what the user meant. *)
Agrees(held, meant) == (meant = "up" => ~held) /\ (meant = "down" => held)

(* However far the handler lags behind the keys, and with any number of Shift keys, *)
(* plain or prefixed: a character typed with no Shift key down is buffered          *)
(* unshifted, and one typed with a Shift key down is buffered shifted, unless two   *)
(* Shift keys have overlapped. Only then may the two disagree: the release of one   *)
(* clears shift_held while the other is still down (keyboard.c:68).                 *)
ShiftedAsTyped ==
  [][wire # << >> /\ wire' = Tail(wire) /\ buffer_head' # buffer_head
       => Agrees(buffer'[buffer_head][2], Head(wire).shift)]_vars
================================================================================
