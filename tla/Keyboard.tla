------------------------------ MODULE Keyboard ------------------------------
(***************************************************************************)
(* The keyboard driver (drivers/keyboard.cpp): the interrupt handler that  *)
(* turns scan codes into characters of a ring buffer, and the reader that  *)
(* takes them out.  A character is written as a one-letter string, a       *)
(* control character by a name, and the character 0 as "none".             *)
(*                                                                         *)
(* `held' (the shift keys that are down) and `both' (they were down        *)
(* together) are what the user does; the driver does not see them.         *)
(***************************************************************************)
EXTENDS Integers, Sequences

CONSTANTS KEYBOARD_BUFFER_SIZE, Keys      \* Keys: the make codes that the user's keys send

ASSUME SizeAssumption == KEYBOARD_BUFFER_SIZE \in Nat \ {0, 1}

VARIABLES keyboard_buffer, buffer_read_pos, buffer_write_pos, shift_pressed, caps_lock,
          held, both
ring == <<keyboard_buffer, buffer_read_pos, buffer_write_pos>>
vars == <<ring, shift_pressed, caps_lock, held, both>>
-----------------------------------------------------------------------------
(***************************************************************************)
(* The conversion.  The table is scancode_to_ascii from code 0 to code 57; *)
(* its remaining ten entries are 0.                                        *)
(***************************************************************************)
scancode_to_ascii ==
    <<"none", "escape", "1", "2", "3", "4", "5", "6", "7", "8", "9", "0", "-", "=", "backspace",
      "tab", "q", "w", "e", "r", "t", "y", "u", "i", "o", "p", "[", "]", "newline",
      "none", "a", "s", "d", "f", "g", "h", "j", "k", "l", ";", "'", "backquote",
      "none", "\\", "z", "x", "c", "v", "b", "n", "m", ",", ".", "/",
      "none", "*", "none", " ">>

Lower == <<"a", "b", "c", "d", "e", "f", "g", "h", "i", "j", "k", "l", "m",
           "n", "o", "p", "q", "r", "s", "t", "u", "v", "w", "x", "y", "z">>
Upper == <<"A", "B", "C", "D", "E", "F", "G", "H", "I", "J", "K", "L", "M",
           "N", "O", "P", "Q", "R", "S", "T", "U", "V", "W", "X", "Y", "Z">>
IsLetter(c) == \E i \in 1 .. 26 : Lower[i] = c
ToUpper(c) == Upper[CHOOSE i \in 1 .. 26 : Lower[i] = c]

Plain   == <<"1", "2", "3", "4", "5", "6", "7", "8", "9", "0", "-", "=", "[", "]", ";", "'", "backquote",
             "\\", ",", ".", "/">>
Shifted == <<"!", "@", "#", "$", "%", "^", "&", "*", "(", ")", "_", "+", "{", "}", ":", "quotes", "~",
             "|", "<", ">", "?">>
get_shift_variant(c) ==
    IF \E i \in 1 .. 21 : Plain[i] = c THEN Shifted[CHOOSE i \in 1 .. 21 : Plain[i] = c] ELSE c

LeftShift == 42     \* 0x2A
RightShift == 54    \* 0x36
CapsLock == 58      \* 0x3A

\* The character of a make code that is neither a shift nor the caps lock.
Convert(code, shift, caps) ==
    CASE code = 72 -> "up"
      [] code = 80 -> "down"
      [] code = 75 -> "left"
      [] code = 77 -> "right"
      [] code = 14 -> "backspace"
      [] code \notin {72, 80, 75, 77, 14} /\ code > 57 -> "none"
      [] code # 14 /\ code <= 57 ->
            LET c == scancode_to_ascii[code + 1]
            IN  IF IsLetter(c) THEN (IF shift # caps THEN ToUpper(c) ELSE c)
                ELSE IF shift THEN get_shift_variant(c) ELSE c

MakeCodes == (0 .. 127) \ {LeftShift, RightShift, CapsLock}
Typed == [c \in BOOLEAN |-> {Convert(k, s, c) : k \in MakeCodes, s \in BOOLEAN}]
Chars == (Typed[TRUE] \cup Typed[FALSE]) \ {"none"}
-----------------------------------------------------------------------------
\* keyboard_init
Init ==
    /\ keyboard_buffer = [i \in 0 .. KEYBOARD_BUFFER_SIZE - 1 |-> "none"]
    /\ buffer_read_pos = 0 /\ buffer_write_pos = 0
    /\ shift_pressed = FALSE /\ caps_lock = FALSE
    /\ held = {} /\ both = FALSE

After(pos) == (pos + 1) % KEYBOARD_BUFFER_SIZE

\* The position moves before the character is stored.
StoreLate(ascii) ==
    /\ keyboard_buffer' = [keyboard_buffer EXCEPT ![After(buffer_write_pos)] = ascii]
    /\ buffer_write_pos' = After(buffer_write_pos)
    /\ UNCHANGED buffer_read_pos
Store(ascii) ==
    /\ keyboard_buffer' = [keyboard_buffer EXCEPT ![buffer_write_pos] = ascii]
    /\ buffer_write_pos' = After(buffer_write_pos)
    /\ UNCHANGED buffer_read_pos

\* keyboard_handler, for the code that a key sends when it goes down (or repeats)
PressShift(k) ==
    /\ k \in Keys \cap {LeftShift, RightShift}
    /\ shift_pressed' = TRUE
    /\ held' = held \cup {k} /\ both' = (both \/ held \cup {k} = {LeftShift, RightShift})
    /\ UNCHANGED <<ring, caps_lock>>
PressCaps ==
    /\ CapsLock \in Keys
    /\ caps_lock' = ~caps_lock
    /\ UNCHANGED <<ring, shift_pressed, held, both>>
PressKey(k) ==
    /\ k \in Keys \cap MakeCodes
    /\ IF Convert(k, shift_pressed, caps_lock) = "none" THEN UNCHANGED ring
       ELSE Store(Convert(k, shift_pressed, caps_lock))
    /\ UNCHANGED <<shift_pressed, caps_lock, held, both>>

\* keyboard_handler, for the code that a key sends when it goes up (0x80 is set)
ReleaseLeftOnly(k) ==
    /\ k \in held
    /\ shift_pressed' = (shift_pressed /\ k # LeftShift)
    /\ held' = held \ {k} /\ both' = (both /\ held # {k})
    /\ UNCHANGED <<ring, caps_lock>>
Release(k) ==
    /\ k \in held
    /\ shift_pressed' = FALSE
    /\ held' = held \ {k} /\ both' = (both /\ held # {k})
    /\ UNCHANGED <<ring, caps_lock>>

keyboard_has_input == buffer_read_pos # buffer_write_pos

\* keyboard_getchar, once there is input
GetChar ==
    /\ keyboard_has_input
    /\ buffer_read_pos' = After(buffer_read_pos)
    /\ UNCHANGED <<keyboard_buffer, buffer_write_pos, shift_pressed, caps_lock, held, both>>

Next ==
    \/ \E k \in {LeftShift, RightShift} : PressShift(k) \/ Release(k)
    \/ \E k \in Keys : PressKey(k)
    \/ PressCaps
    \/ GetChar
Spec == Init /\ [][Next]_vars
-----------------------------------------------------------------------------
(***************************************************************************)
(* The queue that the ring stands for.                                     *)
(***************************************************************************)
Waiting == IF buffer_read_pos <= buffer_write_pos THEN buffer_write_pos - buffer_read_pos
           ELSE buffer_write_pos - buffer_read_pos + KEYBOARD_BUFFER_SIZE
Place(i) == IF buffer_read_pos + i - 1 < KEYBOARD_BUFFER_SIZE THEN buffer_read_pos + i - 1
            ELSE buffer_read_pos + i - 1 - KEYBOARD_BUFFER_SIZE
Queue == [i \in 1 .. Waiting |-> keyboard_buffer[Place(i)]]

KQ == INSTANCE KeyQueue WITH queue <- Queue, Capacity <- KEYBOARD_BUFFER_SIZE - 1

\* The ring buffer behaves as the bounded queue of KeyQueue: keyboard_handler appends,
\* keyboard_getchar takes the oldest, and the character that would fill the last place makes
\* the two positions equal, which empties the queue.
ImplementsKeyQueue == KQ!Spec

\* Positions index the ring, and its cells hold characters.
TypeOK ==
    /\ keyboard_buffer \in [0 .. KEYBOARD_BUFFER_SIZE - 1 -> Chars \cup {"none"}]
    /\ buffer_read_pos \in 0 .. KEYBOARD_BUFFER_SIZE - 1
    /\ buffer_write_pos \in 0 .. KEYBOARD_BUFFER_SIZE - 1
    /\ shift_pressed \in BOOLEAN /\ caps_lock \in BOOLEAN
    /\ held \subseteq {LeftShift, RightShift} /\ both \in BOOLEAN

\* keyboard_handler keeps one flag for two keys: it is on exactly while a shift key is down,
\* except that releasing one of two keys that are down together turns it off.
ShiftFollowsTheKeys ==
    /\ shift_pressed => held # {}
    /\ ~both => (held # {} => shift_pressed)

\* The symbols and digits of ASCII, in its order.
Symbols == {" ", "!", "quotes", "#", "$", "%", "&", "'", "(", ")", "*", "+", ",", "-", ".", "/",
            "0", "1", "2", "3", "4", "5", "6", "7", "8", "9", ":", ";", "<", "=", ">", "?", "@",
            "[", "\\", "]", "^", "_", "backquote", "{", "|", "}", "~"}
Letters == {Lower[i] : i \in 1 .. 26} \cup {Upper[i] : i \in 1 .. 26}

\* Whatever caps lock says, some key types each printable character of ASCII, with or without
\* shift: scancode_to_ascii and get_shift_variant miss none, and caps lock hides none.
EveryCharacterCanBeTyped == \A caps \in BOOLEAN : Letters \cup Symbols \subseteq Typed[caps]
=============================================================================
