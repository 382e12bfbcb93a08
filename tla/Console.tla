--------------------------------- MODULE Console ---------------------------------
(* kernel/lib/log.c over the text console of kernel/drivers/framebuffer: a message  *)
(* goes character by character to the serial port and to the screen, whose cursor   *)
(* wraps and scrolls. Nothing locks the console; a thread may be preempted between  *)
(* any two of its statements. A glyph is a character with its colour; pixels are    *)
(* left out.                                                                        *)
EXTENDS Integers, Sequences, FiniteSets, FiniteSetsExt

CONSTANTS
  Writer,       \* threads that log
  Char, Color,  \* characters and the colours of the levels
  Messages,     \* [level, color, text]: text ends with the newline log_write adds
  MIN_LEVEL,    \* log.c's min_level
  Cols, Rows,   \* console_cols and console_rows
  NL, Blank,
  MaxSent       \* bound: characters logged

ASSUME ConsoleAssumption ==
  /\ Cols \in Nat \ {0} /\ Rows \in Nat \ {0}
  /\ MaxSent \in Nat
  /\ Messages \subseteq [level: Nat, color: Color, text: Seq(Char) \ {<< >>}]
  /\ MIN_LEVEL \in Nat

VARIABLES
  fb_ready,
  cells,                   \* the screen: a glyph for each row and column
  outside,                 \* a glyph was drawn past the framebuffer
  cursor_col, cursor_row,
  current_fb_color,
  pc, todo, color,         \* each writer: next statement, characters left, its colour
  sent                     \* what the serial port got, with the colours meant for it

screen == <<fb_ready, cells, outside>>
cursor == <<cursor_col, cursor_row>>
message == <<current_fb_color, todo, color, sent>>
vars == <<screen, cursor, message, pc>>

Row == 0..(Rows - 1)
Col == 0..(Cols - 1)

Init ==
  /\ fb_ready \in BOOLEAN
  /\ cells = [r \in Row |-> [x \in Col |-> Blank]]
  /\ outside = FALSE
  /\ cursor_col = 0
  /\ cursor_row = 0
  /\ current_fb_color = Blank
  /\ pc = [w \in Writer |-> "idle"]
  /\ todo = [w \in Writer |-> << >>]
  /\ color = [w \in Writer |-> Blank]
  /\ sent = << >>

Goto(w, p) == pc' = [pc EXCEPT ![w] = p]

(* log_write; a message below the minimum level is a no-op. *)
LogWrite(w, m) ==
  /\ pc[w] = "idle"
  /\ m.level >= MIN_LEVEL
  /\ Len(sent) + Len(m.text) <= MaxSent
  /\ current_fb_color' = m.color
  /\ color' = [color EXCEPT ![w] = m.color]
  /\ todo' = [todo EXCEPT ![w] = m.text]
  /\ Goto(w, "emit")
  /\ UNCHANGED <<screen, cursor, sent>>

(* log_emit: serial_putc, then fb_console_putc if there is a framebuffer *)
Emit(w) ==
  /\ pc[w] = "emit"
  /\ sent' = Append(sent, <<Head(todo[w]), color[w]>>)
  /\ Goto(w, IF ~fb_ready THEN "next"
              ELSE IF Head(todo[w]) = NL THEN "newline" ELSE "draw")
  /\ UNCHANGED <<screen, cursor, current_fb_color, todo, color>>

(* draw_glyph *)
Draw(w) ==
  /\ pc[w] = "draw"
  /\ IF cursor_row \in Row /\ cursor_col \in Col
       THEN /\ cells' = [cells EXCEPT ![cursor_row][cursor_col] =
                           <<Head(todo[w]), current_fb_color>>]
            /\ UNCHANGED outside
       ELSE outside' = TRUE /\ UNCHANGED cells
  /\ Goto(w, "forward")
  /\ UNCHANGED <<fb_ready, cursor, message>>

Forward(w) ==
  /\ pc[w] = "forward"
  /\ cursor_col' = cursor_col + 1
  /\ Goto(w, "wrap")
  /\ UNCHANGED <<screen, cursor_row, message>>

(* The test for a full line, and the two statements it guards. *)
Wrap(w) ==
  /\ pc[w] = "wrap"
  /\ IF cursor_col >= Cols
       THEN cursor_col' = 0 /\ cursor_row' = cursor_row + 1
       ELSE UNCHANGED <<cursor>>
  /\ Goto(w, "scroll")
  /\ UNCHANGED <<screen, message>>

NewLine(w) ==
  /\ pc[w] = "newline"
  /\ cursor_col' = 0
  /\ cursor_row' = cursor_row + 1
  /\ Goto(w, "scroll")
  /\ UNCHANGED <<screen, message>>

(* Mutant: the row that comes up at the bottom is not cleared. *)
ScrolledDirty == [r \in Row |-> IF r = Rows - 1 THEN cells[r] ELSE cells[r + 1]]

(* scroll_one_row *)
Scrolled == [r \in Row |-> IF r = Rows - 1 THEN [x \in Col |-> Blank] ELSE cells[r + 1]]

Scroll(w) ==
  /\ pc[w] = "scroll"
  /\ IF cursor_row >= Rows
       THEN cells' = Scrolled /\ Goto(w, "clamp")
       ELSE UNCHANGED cells /\ Goto(w, "next")
  /\ UNCHANGED <<fb_ready, outside, cursor, message>>

(* Mutant: the cursor stays below the last row. *)
LastRowForgotten == cursor_row

LastRow == Rows - 1

Clamp(w) ==
  /\ pc[w] = "clamp"
  /\ cursor_row' = LastRow
  /\ Goto(w, "next")
  /\ UNCHANGED <<screen, cursor_col, message>>

(* Back in log_write: the next character, or return. *)
NextChar(w) ==
  /\ pc[w] = "next"
  /\ todo' = [todo EXCEPT ![w] = Tail(@)]
  /\ Goto(w, IF Len(todo[w]) > 1 THEN "emit" ELSE "idle")
  /\ UNCHANGED <<screen, cursor, current_fb_color, color, sent>>

Putc(w) == Draw(w) \/ Forward(w) \/ Wrap(w) \/ NewLine(w) \/ Scroll(w) \/ Clamp(w)

Next ==
  \E w \in Writer:
    \/ \E m \in Messages: LogWrite(w, m)
    \/ Emit(w)
    \/ Putc(w)
    \/ NextChar(w)

Spec == Init /\ [][Next]_vars

----------------------------------------------------------------------------------

(* Every glyph lands inside the framebuffer. *)
DrawsInside == ~outside

(* Where the characters of s belong, on a screen without a bottom: character i is   *)
(* drawn where the cursor is after i - 1 of them. A line ends with a newline or when *)
(* it is full, and the cursor is in the row numbered by the lines that ended.       *)
LineStart(s, i) == Max({0} \cup {k \in 1..i: s[k][1] = NL})
ColumnAfter(s, i) == (i - LineStart(s, i)) % Cols
RowAfter(s, i) == Cardinality({k \in 1..i: ColumnAfter(s, k) = 0})

(* The characters of s that belong in row y and column x, and what is to be seen there. *)
DrawnAt(s, y, x) ==
  {i \in 1..Len(s): s[i][1] # NL /\ RowAfter(s, i - 1) = y /\ ColumnAfter(s, i - 1) = x}
Glyph(s, y, x) ==
  IF DrawnAt(s, y, x) = {} THEN Blank ELSE s[CHOOSE i \in DrawnAt(s, y, x): TRUE]

(* The first of these rows that is still on the screen. *)
TopRow(s) == IF RowAfter(s, Len(s)) < Rows THEN 0 ELSE RowAfter(s, Len(s)) - Rows + 1

(* The screen, whenever no message is on its way, shows the last rows of what was   *)
(* sent to the serial port, each character in the colour of its message.            *)
ScreenShowsTail ==
  fb_ready /\ (\A w \in Writer: pc[w] = "idle") =>
    /\ cursor_col = ColumnAfter(sent, Len(sent))
    /\ cursor_row = RowAfter(sent, Len(sent)) - TopRow(sent)
    /\ \A r \in Row, x \in Col: cells[r][x] = Glyph(sent, TopRow(sent) + r, x)
================================================================================
