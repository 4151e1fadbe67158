-------------------------------- MODULE Libc --------------------------------
(***************************************************************************)
(* The kernel's C library (libc/) as operators, each loop of the code a    *)
(* recursion or a fold; a caller calls them with every input of a small    *)
(* width, and the properties compare the results with what is promised.    *)
(*                                                                         *)
(* A digit or letter is the number it stands for, 0 to 35 (so 'x' is 33);  *)
(* Space and Minus are the other characters.  A string is a sequence       *)
(* without its terminating 0; Nul is that 0 where a loop sees it.          *)
(***************************************************************************)
EXTENDS Integers, Sequences, SequencesExt, FiniteSetsExt

CONSTANTS
    WordSize,           \* 2^64: one more than the largest unsigned long long
    IntMax,             \* 2^31 - 1
    UintSize,           \* 2^32
    Thousand,           \* the milliseconds of a second
    Rates,              \* values of timer_hz
    Bases,
    Values, Widths      \* of fields of vprintf

VARIABLE call           \* the last call: its arguments and its result

Words == 0 .. WordSize - 1
Nul == -1
Space == -2
Minus == -3
X == 33                 \* the letter x
-----------------------------------------------------------------------------
(***************************************************************************)
(* Numbers to text: the digits come out lowest first and are then swapped  *)
(* end for end.                                                            *)
(***************************************************************************)
RECURSIVE LowFirst(_, _)
LowFirst(value, base) ==
    <<value % base>> \o (IF value \div base = 0 THEN <<>> ELSE LowFirst(value \div base, base))

RECURSIVE SwapEnds(_, _, _)
SwapEnds(s, low, high) ==
    IF low >= high THEN s
    ELSE SwapEnds([s EXCEPT ![low] = s[high], ![high] = s[low]], low + 1, high - 1)
InOrder(s) == SwapEnds(s, 1, Len(s))

\* ulltoa and utoa; itoa does not check the base, and has digits for 16.
ulltoa(value, base) == IF base < 2 \/ base > 36 THEN <<>> ELSE InOrder(LowFirst(value, base))
itoa(value, base) == IF value = 0 THEN <<0>> ELSE InOrder(LowFirst(value, base))

\* What the digits mean.
ValueOf(digits, base) == FoldLeft(LAMBDA v, d : v * base + d, 0, digits)
-----------------------------------------------------------------------------
(***************************************************************************)
(* Text to numbers.                                                        *)
(***************************************************************************)
Skip(s, n) == SubSeq(s, n + 1, Len(s))
Starts(s, p) == Len(p) <= Len(s) /\ SubSeq(s, 1, Len(p)) = p
LeadingSpaces(s) == CHOOSE n \in 0 .. Len(s) : /\ \A i \in 1 .. n : s[i] = Space
                                               /\ n < Len(s) => s[n + 1] # Space

RECURSIVE Accumulate(_, _, _)
Accumulate(s, base, acc) ==
    IF s = <<>> \/ s[1] < 0 \/ s[1] >= base THEN acc
    ELSE Accumulate(Tail(s), base, (acc * base + s[1]) % WordSize)

\* The prefix is skipped before the base is known to be 16.
strtoulAnyPrefix(nptr, base) ==
    LET s == Skip(nptr, LeadingSpaces(nptr))
        t == IF Starts(s, <<0, X>>) THEN Skip(s, 2) ELSE s
    IN  Accumulate(t, IF base = 0 THEN 10 ELSE base, 0)
strtoul(nptr, base) ==
    LET s == Skip(nptr, LeadingSpaces(nptr))
    IN  CASE base = 0 /\ Starts(s, <<0, X>>)    -> Accumulate(Skip(s, 2), 16, 0)
          [] base = 0 /\ ~Starts(s, <<0, X>>) /\ Starts(s, <<0>>) -> Accumulate(Skip(s, 1), 8, 0)
          [] base = 0 /\ ~Starts(s, <<0>>)      -> Accumulate(s, 10, 0)
          [] base = 16 /\ Starts(s, <<0, X>>)   -> Accumulate(Skip(s, 2), 16, 0)
          [] base # 0 /\ ~(base = 16 /\ Starts(s, <<0, X>>)) -> Accumulate(s, base, 0)

\* The digits after the sign, up to the first other character
atoi(str) ==
    LET s == IF Starts(str, <<Minus>>) THEN Tail(str) ELSE str
    IN  (IF Starts(str, <<Minus>>) THEN -1 ELSE 1) * Accumulate(s, 10, 0)
-----------------------------------------------------------------------------
(***************************************************************************)
(* One conversion of vprintf: %s, %d, %u, %x or %p of a value, with a      *)
(* width and a side.  A negative value reaches itoa as an unsigned one.    *)
(***************************************************************************)
Text(type, val) ==
    CASE type = "s"        -> val
      [] type = "d"        -> itoa(val % WordSize, 10)
      [] type = "u"        -> ulltoa(val, 10)
      [] type \in {"x", "p"} -> ulltoa(val, 16)
Fill(c, n) == [i \in 1 .. n |-> c]

\* The two characters in front of a pointer are not counted.
FieldNoPrefix(type, val, width, left) ==
    LET buffer == Text(type, val)
        len == Len(buffer)
        total == IF type = "p" THEN Max({len, 16}) ELSE len
        pad == IF total < width THEN Fill(Space, width - total) ELSE <<>>
        body == IF type = "p" THEN <<0, X>> \o Fill(0, Max({0, 16 - len})) \o buffer ELSE buffer
    IN  IF left THEN body \o pad ELSE pad \o body
Field(type, val, width, left) ==
    LET buffer == Text(type, val)
        len == Len(buffer)
        total == IF type = "p" THEN Max({len, 16}) + 2 ELSE len
        pad == IF total < width THEN Fill(Space, width - total) ELSE <<>>
        body == IF type = "p" THEN <<0, X>> \o Fill(0, Max({0, 16 - len})) \o buffer ELSE buffer
    IN  IF left THEN body \o pad ELSE pad \o body
-----------------------------------------------------------------------------
(***************************************************************************)
(* Memory and strings.                                                     *)
(***************************************************************************)
CopyOne(m, to, from) == [m EXCEPT ![to] = m[from]]
\* The copy always goes upwards.
memmoveUp(m, dst, src, size) ==
    FoldLeft(LAMBDA a, i : CopyOne(a, dst + i, src + i), m, [i \in 1 .. size |-> i - 1])
memmove(m, dst, src, size) ==
    IF dst < src THEN FoldLeft(LAMBDA a, i : CopyOne(a, dst + i, src + i), m, [i \in 1 .. size |-> i - 1])
    ELSE FoldLeft(LAMBDA a, i : CopyOne(a, dst + i - 1, src + i - 1), m, [i \in 1 .. size |-> size + 1 - i])

CharAt(s, i) == IF i <= Len(s) THEN s[i] ELSE Nul
RECURSIVE strncmpFrom(_, _, _, _)
strncmpFrom(s1, s2, i, n) ==
    IF n = 0 THEN 0
    ELSE IF CharAt(s1, i) # CharAt(s2, i) THEN CharAt(s1, i) - CharAt(s2, i)
    ELSE IF CharAt(s1, i) = Nul THEN 0
    ELSE strncmpFrom(s1, s2, i + 1, n - 1)
strncmp(s1, s2, n) == strncmpFrom(s1, s2, 1, n)
strcmp(s1, s2) == strncmpFrom(s1, s2, 1, 1 + Max({Len(s1), Len(s2)}))

\* A short sleep is no sleep.
TicksForZero(ms, hz) == ((ms * hz) % UintSize) \div Thousand
\* timer_sleep's number of ticks: the product is 32 bits wide.
TicksFor(ms, hz) ==
    LET ticks == ((ms * hz) % UintSize) \div Thousand
    IN  IF ticks = 0 /\ ms > 0 THEN 1 ELSE ticks
-----------------------------------------------------------------------------
(***************************************************************************)
(* A caller makes one call at a time; the result stays until it returns.   *)
(***************************************************************************)
Idle == [fn |-> "idle"]
Strings == BoundedSeq({0, 1}, 3)
Memory == [i \in 1 .. 6 |-> i]

Init == call = Idle

WriteNumber(v, base) ==
    /\ call = Idle
    /\ call' = [fn |-> "number", v |-> v, base |-> base,
                text |-> ulltoa(v, base), itoa |-> itoa(v, base)]
ReadNumber(v, base, prefix, asked) ==
    /\ call = Idle
    /\ call' = [fn |-> "strtoul", v |-> v, got |-> strtoul(prefix \o ulltoa(v, base), asked)]
ReadInteger(v, sign) ==
    /\ call = Idle
    /\ call' = [fn |-> "atoi", v |-> IF sign = <<>> THEN v ELSE -v, got |-> atoi(sign \o itoa(v, 10))]
Format(type, v, width, left) ==
    /\ call = Idle
    /\ call' = [fn |-> "vprintf", type |-> type, v |-> v, width |-> width, left |-> left,
                text |-> Text(type, v), field |-> Field(type, v, width, left)]
Move(dst, src, size) ==
    /\ call = Idle
    /\ call' = [fn |-> "memmove", dst |-> dst, src |-> src, size |-> size,
                got |-> memmove(Memory, dst, src, size)]
Compare(s, t) ==
    /\ call = Idle
    /\ call' = [fn |-> "compare", s |-> s, t |-> t,
                prefix |-> strncmp(s, t, Len(s)), all |-> strcmp(s, t)]
Sleep(ms, hz) ==
    /\ call = Idle
    /\ call' = [fn |-> "sleep", ms |-> ms, hz |-> hz, ticks |-> TicksFor(ms, hz)]
Return == call # Idle /\ call' = Idle

\* What strtoul is given in front of the digits in a base, and the base it is asked for.
Spellings == {[base |-> b, text |-> <<Space>>, asked |-> b] : b \in Bases}
            \cup {[base |-> 16, text |-> <<0, X>>, asked |-> a] : a \in {0, 16}}
            \cup {[base |-> 8, text |-> <<0>>, asked |-> 0], [base |-> 10, text |-> <<>>, asked |-> 0]}

Next ==
    \/ \E v \in Words, b \in Bases : WriteNumber(v, b)
    \/ \E v \in Words, p \in Spellings : ReadNumber(v, p.base, p.text, p.asked)
    \/ \E v \in 0 .. IntMax, sign \in {<<>>, <<Minus>>} : ReadInteger(v, sign)
    \/ \E type \in {"d", "u", "x", "p"}, v \in Values, width \in Widths, left \in BOOLEAN :
           Format(type, v, width, left)
    \/ \E v \in 1 .. IntMax : Format("d", -v, 0, FALSE)
    \/ \E s \in Strings, width \in Widths, left \in BOOLEAN : Format("s", s, width, left)
    \/ \E dst \in 1 .. 4, src \in 1 .. 4, size \in 0 .. 3 : Move(dst, src, size)
    \/ \E s \in Strings, t \in Strings : Compare(s, t)
    \/ \E ms \in 0 .. UintSize - 1, hz \in Rates : Sleep(ms, hz)
    \/ Return
Spec == Init /\ [][Next]_call
-----------------------------------------------------------------------------
(***************************************************************************)
(* Properties.                                                             *)
(***************************************************************************)
\* ulltoa, utoa and itoa (which knows digits up to base 16) write the digits of their
\* value, highest first and without a leading zero.  strtoul of the text is the number
\* again, behind spaces, and behind the prefix that tells base 16 or 8 when no base is
\* asked for; atoi takes it back too, with a sign in front or not.
NumbersReadBack ==
    /\ call.fn = "number" =>
        /\ ValueOf(call.text, call.base) = call.v /\ (call.v # 0 => call.text[1] # 0)
        /\ call.base <= 16 => call.itoa = call.text
    /\ call.fn \in {"strtoul", "atoi"} => call.got = call.v

\* A field of vprintf is as wide as asked or as long as its text, the text stands at the
\* side asked for, and the rest is spaces.  A negative %d is printed modulo 2^64.
FieldsFillTheirWidth ==
    call.fn = "vprintf" =>
        LET head == IF call.type = "p" THEN 2 + Max({0, 16 - Len(call.text)}) ELSE 0
            long == head + Len(call.text)
            first == IF call.left THEN head ELSE Len(call.field) - Len(call.text)
        IN  /\ Len(call.field) = Max({call.width, long})
            /\ SubSeq(call.field, first + 1, first + Len(call.text)) = call.text
            /\ Cardinality({i \in DOMAIN call.field : call.field[i] = Space}) = Len(call.field) - long
            /\ call.type = "d" => ValueOf(call.text, 10) = call.v % WordSize

\* memmove copies as if through a second buffer, however the two ranges overlap:
\* terminal_scroll relies on it.  strncmp over the length of the first string tests for a
\* prefix, which tab completion and the lookups of names rely on, and strcmp for equality.
StringsAreHandled ==
    /\ call.fn = "memmove" =>
        call.got = [i \in DOMAIN Memory |-> IF i \in call.dst .. call.dst + call.size - 1
                                            THEN Memory[call.src + i - call.dst] ELSE Memory[i]]
    /\ call.fn = "compare" =>
        /\ (call.prefix = 0) = Starts(call.t, call.s)
        /\ (call.all = 0) = (call.s = call.t)

\* A sleep is the time asked for, rounded down to ticks but at least one, as long as the
\* milliseconds times the rate fit 32 bits; beyond that it is shorter than asked for.
SleepsAreRounded ==
    call.fn = "sleep" =>
        IF call.ms * call.hz < UintSize
        THEN /\ call.ms > 0 => call.ticks > 0
             /\ call.ticks > 1 => call.ticks * Thousand <= call.ms * call.hz
             /\ call.ms * call.hz < (call.ticks + 1) * Thousand
        ELSE call.ticks * Thousand <= call.ms * call.hz - UintSize + Thousand
=============================================================================
