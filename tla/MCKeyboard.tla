----------------------------- MODULE MCKeyboard -----------------------------
(***************************************************************************)
(* A letter, a digit, an arrow and a function key, both shift keys and the *)
(* caps lock, with a ring of three places.                                 *)
(***************************************************************************)
EXTENDS Keyboard

MCKeys == {2, 30, 59, 72, LeftShift, RightShift, CapsLock}

ASSUME TablesAreComplete == EveryCharacterCanBeTyped
=============================================================================
