------------------------------ MODULE Terminal ------------------------------
(***************************************************************************)
(* The text terminal (drivers/vga.cpp) as operators on a record of its     *)
(* globals: terminal_row, terminal_column and the characters of            *)
(* terminal_buffer.  Colours and the hardware cursor, which every          *)
(* operation sets to the row and column, are left out.  A character is a   *)
(* string; a blank cell holds " ".                                         *)
(***************************************************************************)
EXTENDS Integers, Sequences, SequencesExt

CONSTANTS VGA_WIDTH, VGA_HEIGHT, TabStop        \* TabStop: the 8 of the code's mask ~7

Cells == 0 .. VGA_WIDTH * VGA_HEIGHT - 1

\* terminal_initialize, and terminal_clear
Cleared == [row |-> 0, col |-> 0, cell |-> [i \in Cells |-> " "]]

terminal_scroll(t) ==
    [t EXCEPT !.row = VGA_HEIGHT - 1,
              !.cell = [i \in Cells |-> IF i + VGA_WIDTH \in Cells THEN t.cell[i + VGA_WIDTH] ELSE " "]]

NextRow(t) ==
    IF t.row + 1 = VGA_HEIGHT THEN terminal_scroll([t EXCEPT !.col = 0])
    ELSE [t EXCEPT !.row = @ + 1, !.col = 0]

\* The cursor does not go back over the start of a row.
BackspaceInRow(t) ==
    LET u == IF t.col > 0 THEN [t EXCEPT !.col = @ - 1] ELSE t
    IN  [u EXCEPT !.cell[u.row * VGA_WIDTH + u.col] = " "]
Backspace(t) ==
    LET u == IF t.col > 0 THEN [t EXCEPT !.col = @ - 1]
             ELSE IF t.row > 0 THEN [t EXCEPT !.row = @ - 1, !.col = VGA_WIDTH - 1]
             ELSE t
    IN  [u EXCEPT !.cell[u.row * VGA_WIDTH + u.col] = " "]

TabTo(t) ==
    LET col == ((t.col + TabStop) \div TabStop) * TabStop
    IN  IF col >= VGA_WIDTH THEN NextRow(t) ELSE [t EXCEPT !.col = col]

PutEntry(t, c) ==
    LET u == [t EXCEPT !.cell[t.row * VGA_WIDTH + t.col] = c]
    IN  IF u.col + 1 = VGA_WIDTH THEN NextRow(u) ELSE [u EXCEPT !.col = @ + 1]

terminal_putchar(t, c) ==
    CASE c = "newline"   -> NextRow(t)
      [] c = "tab"       -> TabTo(t)
      [] c = "backspace" -> Backspace(t)
      [] OTHER           -> PutEntry(t, c)

terminal_write(t, s) == FoldLeft(terminal_putchar, t, s)

\* terminal_move_cursor; the position is kept on the screen.
terminal_move_cursor(t, dx) ==
    LET to == t.row * VGA_WIDTH + t.col + dx
        pos == IF to < 0 THEN 0 ELSE IF to \in Cells THEN to ELSE VGA_WIDTH * VGA_HEIGHT - 1
    IN  [t EXCEPT !.row = pos \div VGA_WIDTH, !.col = pos % VGA_WIDTH]

TerminalPos(t) == t.row * VGA_WIDTH + t.col
TerminalOK(t) ==
    /\ t.row \in 0 .. VGA_HEIGHT - 1 /\ t.col \in 0 .. VGA_WIDTH - 1
    /\ DOMAIN t.cell = Cells
=============================================================================
