------------------------------ MODULE KeyQueue ------------------------------
(***************************************************************************)
(* What the keyboard driver promises its readers: the characters come out  *)
(* in the order they were typed, at most Capacity of them wait, and one    *)
(* more than that forgets all that wait, itself included.                  *)
(***************************************************************************)
EXTENDS Naturals, Sequences

CONSTANTS Chars, Capacity

VARIABLE queue

Init == queue = <<>>
Put(c) == queue' = IF Len(queue) = Capacity THEN <<>> ELSE Append(queue, c)
Get == queue # <<>> /\ queue' = Tail(queue)
Next == (\E c \in Chars : Put(c)) \/ Get
Spec == Init /\ [][Next]_queue
=============================================================================
