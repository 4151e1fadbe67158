------------------------------- MODULE Shell --------------------------------
(***************************************************************************)
(* The line editor of the shell (kernel/shell.cpp: shell_run, history and  *)
(* tab completion) and the screen it draws on.  `line' is input_buffer up  *)
(* to buffer_pos.  What a command does to the screen is any of Outputs,    *)
(* possibly after clearing it; what a directory holds is any of Listings.  *)
(*                                                                         *)
(* `completed' (a completion has extended the line), `stale' (Enter was    *)
(* pressed above the last row of the line, and the screen has not been     *)
(* cleared since) and `keys' are history variables.                        *)
(***************************************************************************)
EXTENDS Terminal

CONSTANTS
    SHELL_BUFFER_SIZE, MAX_HISTORY,
    Letters,            \* the printable characters that are typed
    Prompt,             \* the text of the prompt
    command_list,       \* a sequence of words
    Listings,           \* a set of sequences of [name, dir]
    Outputs,            \* a set of texts
    MaxKeys             \* bound on the keys that are pressed

ASSUME ScreenAssumption == Len(Prompt) + SHELL_BUFFER_SIZE < VGA_WIDTH * VGA_HEIGHT

VARIABLES term, line, cursor_pos, history, history_index, overrun, completed, stale, keys
edit == <<line, cursor_pos>>
past == <<history, history_index>>
seen == <<overrun, completed, stale>>
vars == <<term, edit, past, seen, keys>>

Key == ~overrun /\ keys < MaxKeys /\ keys' = keys + 1
-----------------------------------------------------------------------------
shell_prompt(t) == terminal_write(t, <<"newline">> \o Prompt)

\* shell_init, terminal_clear and the first prompt of shell_run
Init ==
    /\ term = shell_prompt(Cleared)
    /\ line = <<>> /\ cursor_pos = 0
    /\ history = <<>> /\ history_index = -1
    /\ overrun = FALSE /\ completed = FALSE /\ stale = FALSE /\ keys = 0

Remember(l) ==
    IF l = <<>> \/ (history # <<>> /\ l = history[1]) THEN history
    ELSE SubSeq(<<l>> \o history, 1, IF Len(history) < MAX_HISTORY THEN Len(history) + 1 ELSE MAX_HISTORY)

Blank(l) == \A i \in DOMAIN l : l[i] = " "
EndRow == (TerminalPos(term) - cursor_pos + Len(line)) \div VGA_WIDTH

\* Writing the terminating 0 leaves the buffer when the line fills it.
Enter(out, clear) ==
    /\ Key
    /\ Blank(line) => out = <<>> /\ ~clear          \* shell_execute returns at once
    /\ term' = shell_prompt(terminal_write(IF clear THEN Cleared ELSE terminal_putchar(term, "newline"), out))
    /\ line' = <<>> /\ cursor_pos' = 0
    /\ history' = Remember(line) /\ history_index' = -1
    /\ overrun' = (Len(line) >= SHELL_BUFFER_SIZE)
    /\ completed' = FALSE
    /\ stale' = (~clear /\ (stale \/ term.row < EndRow))

Drop(l, i) == SubSeq(l, 1, i - 1) \o SubSeq(l, i + 1, Len(l))
From(l, i) == SubSeq(l, i, Len(l))

EraseChar ==
    /\ Key /\ cursor_pos > 0
    /\ LET l == Drop(line, cursor_pos)
           drawn == terminal_write(terminal_move_cursor(term, -1), Append(From(l, cursor_pos), " "))
       IN  /\ line' = l
           /\ term' = terminal_move_cursor(drawn, -(Len(l) - cursor_pos + 2))
    /\ cursor_pos' = cursor_pos - 1
    /\ UNCHANGED <<past, seen>>

\* There is room for the character but not for the terminating 0.
InsertTooLate(c) ==
    /\ Key /\ Len(line) < SHELL_BUFFER_SIZE
    /\ LET l == InsertAt(line, cursor_pos + 1, c)
       IN  /\ line' = l
           /\ term' = terminal_move_cursor(terminal_write(term, From(l, cursor_pos + 1)),
                                           -(Len(l) - cursor_pos - 1))
    /\ cursor_pos' = cursor_pos + 1
    /\ UNCHANGED <<past, seen>>
Insert(c) ==
    /\ Key /\ Len(line) < SHELL_BUFFER_SIZE - 1
    /\ LET l == InsertAt(line, cursor_pos + 1, c)
       IN  /\ line' = l
           /\ term' = terminal_move_cursor(terminal_write(term, From(l, cursor_pos + 1)),
                                           -(Len(l) - cursor_pos - 1))
    /\ cursor_pos' = cursor_pos + 1
    /\ UNCHANGED <<past, seen>>

\* The line is wiped with blanks, and another one drawn in its place.
Replace(l) ==
    LET home == terminal_move_cursor(term, -cursor_pos)
        wiped == terminal_move_cursor(terminal_write(home, [i \in DOMAIN line |-> " "]), -Len(line))
    IN  /\ term' = terminal_write(wiped, l)
        /\ line' = l /\ cursor_pos' = Len(l)
        /\ completed' = FALSE /\ UNCHANGED <<overrun, stale, history>>

KeyUp ==
    /\ Key /\ history_index < Len(history) - 1
    /\ history_index' = history_index + 1
    /\ Replace(history[history_index + 2])
KeyDown ==
    /\ Key /\ history_index >= 0
    /\ history_index' = history_index - 1
    /\ Replace(IF history_index = 0 THEN <<>> ELSE history[history_index])

KeyLeft ==
    /\ Key /\ cursor_pos > 0
    /\ cursor_pos' = cursor_pos - 1 /\ term' = terminal_move_cursor(term, -1)
    /\ UNCHANGED <<line, past, seen>>
KeyRight ==
    /\ Key /\ cursor_pos < Len(line)
    /\ cursor_pos' = cursor_pos + 1 /\ term' = terminal_move_cursor(term, 1)
    /\ UNCHANGED <<line, past, seen>>
-----------------------------------------------------------------------------
(***************************************************************************)
(* shell_tab_completion.  The word before the first space is completed     *)
(* from command_list, anything after it from a directory.  The completed   *)
(* line is drawn without a look at the size of the buffer.                 *)
(***************************************************************************)
Extended(t, l) ==
    /\ term' = t /\ line' = l /\ cursor_pos' = Len(l)
    /\ overrun' = (Len(l) > SHELL_BUFFER_SIZE) /\ completed' = TRUE
    /\ UNCHANGED <<past, stale>>

\* More than one candidate: they are listed, and the prompt and the line drawn again.
Listed(texts) ==
    /\ term' = terminal_write(shell_prompt(terminal_write(term, <<"newline">> \o FlattenSeq(texts))), line)
    /\ UNCHANGED <<edit, past, seen>>

Tab == Key /\ cursor_pos = Len(line) /\ line # <<>>
Terminated == Len(line) < SHELL_BUFFER_SIZE         \* the 0 is written inside the buffer
Overrun == overrun' = TRUE /\ UNCHANGED <<term, edit, past, completed, stale>>

HasPrefix(w, p) == Len(p) <= Len(w) /\ SubSeq(w, 1, Len(p)) = p

CompleteCommand ==
    /\ Tab /\ " " \notin {line[i] : i \in DOMAIN line}
    /\ LET matches == SelectSeq(command_list, LAMBDA w : HasPrefix(w, line))
           rest == Append(From(matches[1], Len(line) + 1), " ")
       IN  IF ~Terminated THEN Overrun
           ELSE CASE Len(matches) = 0 -> UNCHANGED <<term, edit, past, seen>>
                  [] Len(matches) = 1 -> Extended(terminal_write(term, rest), line \o rest)
                  [] Len(matches) > 1 -> Listed([i \in DOMAIN matches |-> matches[i] \o <<" ", " ">>])

\* What follows the last slash of the first argument and all behind it.
SearchTerm(l) ==
    LET space == CHOOSE i \in DOMAIN l : l[i] = " " /\ \A j \in 1 .. i - 1 : l[j] # " "
        ends == {i \in space .. Len(l) : l[i] = "/" \/ \A j \in space .. i : l[j] = " "}
    IN  From(l, 1 + CHOOSE i \in ends : \A j \in ends : j <= i)
CompleteFile(listing) ==
    /\ Tab /\ " " \in {line[i] : i \in DOMAIN line}
    /\ LET searched == SearchTerm(line)
           matches == SelectSeq(listing, LAMBDA e : HasPrefix(e.name, searched))
           shown(e) == IF e.dir THEN Append(e.name, "/") ELSE e.name
           name == IF matches[1].dir THEN shown(matches[1]) ELSE Append(matches[1].name, " ")
           erased == terminal_write(term, FlattenSeq([i \in DOMAIN searched |-> <<"backspace", " ", "backspace">>]))
       IN  IF ~Terminated THEN Overrun
           ELSE CASE Len(matches) = 0 -> UNCHANGED <<term, edit, past, seen>>
                  [] Len(matches) = 1 ->
                         Extended(terminal_write(erased, name),
                                  SubSeq(line, 1, Len(line) - Len(searched)) \o name)
                  [] Len(matches) > 1 -> Listed([i \in DOMAIN matches |-> shown(matches[i]) \o <<" ", " ">>])

Next ==
    \/ \E out \in Outputs, clear \in BOOLEAN : Enter(out, clear)
    \/ EraseChar \/ KeyUp \/ KeyDown \/ KeyLeft \/ KeyRight
    \/ \E c \in Letters : Insert(c)
    \/ CompleteCommand
    \/ \E listing \in Listings : CompleteFile(listing)
Spec == Init /\ [][Next]_vars
-----------------------------------------------------------------------------
\* The cursor is on the line, the history is bounded and its index inside it.
TypeOK ==
    /\ TerminalOK(term)
    /\ cursor_pos \in 0 .. Len(line)
    /\ Len(history) <= MAX_HISTORY /\ history_index \in -1 .. Len(history) - 1
    /\ overrun \in BOOLEAN /\ completed \in BOOLEAN /\ stale \in BOOLEAN /\ keys \in 0 .. MaxKeys

Start == TerminalPos(term) - cursor_pos

\* The screen shows the prompt and then input_buffer, with the terminal's cursor at cursor_pos,
\* whatever has wrapped or scrolled: shell_run draws only by relative moves of the cursor.
\* Nothing is left behind the line (as after a deletion, or a shorter line from the history),
\* unless Enter was pressed with the cursor above the last row of a line: the prompt is then
\* drawn over that row.  (And the types are right.)
ScreenShowsLine ==
    /\ TypeOK
    /\ ~overrun =>
        /\ Start >= Len(Prompt)
        /\ \A i \in DOMAIN Prompt : term.cell[Start - Len(Prompt) + i - 1] = Prompt[i]
        /\ \A i \in DOMAIN line : term.cell[Start + i - 1] = line[i]
        /\ ~stale => \A p \in Cells : p >= Start + Len(line) => term.cell[p] = " "

\* The line leaves room for its terminating 0 in input_buffer, in the history too, unless a
\* completion extended it: the printable-character case checks the size, shell_tab_completion
\* does not.
OnlyCompletionFillsTheBuffer ==
    /\ ~completed /\ ~overrun => Len(line) < SHELL_BUFFER_SIZE
    /\ ~overrun => \A i \in DOMAIN history : Len(history[i]) < SHELL_BUFFER_SIZE
=============================================================================
