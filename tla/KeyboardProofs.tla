--------------------------- MODULE KeyboardProofs ---------------------------
(***************************************************************************)
(* Proofs for Keyboard, for every size of the ring and every set of keys:  *)
(* the ring implements KeyQueue, and the shift flag follows the keys.      *)
(***************************************************************************)
EXTENDS Keyboard, SequenceTheorems, TLAPS

\* The next position, without the remainder that the code takes.
LEMMA AfterWraps ==
    ASSUME NEW p \in 0 .. KEYBOARD_BUFFER_SIZE - 1
    PROVE  After(p) = IF p + 1 = KEYBOARD_BUFFER_SIZE THEN 0 ELSE p + 1
<1>1. CASE p + 1 = KEYBOARD_BUFFER_SIZE
  BY <1>1, SizeAssumption, SMT DEF After
<1>2. CASE p + 1 # KEYBOARD_BUFFER_SIZE
  <2>1. p + 1 \in 0 .. KEYBOARD_BUFFER_SIZE - 1
    BY <1>2, SizeAssumption
  <2>2. (p + 1) % KEYBOARD_BUFFER_SIZE = p + 1
    BY <2>1, SizeAssumption, SMT
  <2> QED BY <1>2, <2>2 DEF After
<1> QED BY <1>1, <1>2

\* A character that is stored is one that the queue may be given.
LEMMA StoredIsChar ==
    ASSUME NEW k \in MakeCodes, NEW s \in BOOLEAN, NEW c \in BOOLEAN,
           Convert(k, s, c) # "none"
    PROVE  Convert(k, s, c) \in Chars
<1>1. Convert(k, s, c) \in Typed[c]
  BY DEF Typed
<1>2. c = TRUE \/ c = FALSE
  OBVIOUS
<1> QED BY <1>1, <1>2 DEF Chars
-----------------------------------------------------------------------------
\* The handler and the reader keep the positions inside the ring.
LEMMA TypeOKStep == TypeOK /\ [Next]_vars => TypeOK'
<1> SUFFICES ASSUME TypeOK, [Next]_vars PROVE TypeOK'
  OBVIOUS
<1> USE DEF TypeOK
<1>0. After(buffer_read_pos) \in 0 .. KEYBOARD_BUFFER_SIZE - 1
      /\ After(buffer_write_pos) \in 0 .. KEYBOARD_BUFFER_SIZE - 1
  BY AfterWraps, SizeAssumption
<1>1. ASSUME NEW k \in {LeftShift, RightShift}, PressShift(k) PROVE TypeOK'
  BY <1>1 DEF PressShift, ring
<1>2. ASSUME NEW k \in {LeftShift, RightShift}, Release(k) PROVE TypeOK'
  BY <1>2 DEF Release, ring
<1>3. ASSUME NEW k \in Keys, PressKey(k) PROVE TypeOK'
  <2> DEFINE c == Convert(k, shift_pressed, caps_lock)
  <2>1. CASE c = "none"
    BY <1>3, <2>1 DEF PressKey, ring
  <2>2. CASE c # "none"
    <3>1. c \in Chars
      BY <1>3, <2>2, StoredIsChar DEF PressKey
    <3>2. Store(c)
      BY <1>3, <2>2 DEF PressKey
    <3> HIDE DEF c
    <3> QED BY <1>0, <1>3, <3>1, <3>2 DEF Store, PressKey
  <2> QED BY <2>1, <2>2
<1>4. CASE PressCaps
  BY <1>4 DEF PressCaps, ring
<1>5. CASE GetChar
  BY <1>0, <1>5 DEF GetChar
<1>6. CASE UNCHANGED vars
  BY <1>6 DEF vars, ring
<1> QED BY <1>1, <1>2, <1>3, <1>4, <1>5, <1>6 DEF Next

\* keyboard_handler and keyboard_getchar keep the ring well formed.
THEOREM TypeCorrect == Spec => []TypeOK
<1>1. Init => TypeOK
  <2> SUFFICES ASSUME Init PROVE TypeOK
    OBVIOUS
  <2>1. keyboard_buffer \in [0 .. KEYBOARD_BUFFER_SIZE - 1 -> Chars \cup {"none"}]
    BY DEF Init
  <2>2. buffer_read_pos \in 0 .. KEYBOARD_BUFFER_SIZE - 1
        /\ buffer_write_pos \in 0 .. KEYBOARD_BUFFER_SIZE - 1
    BY SizeAssumption DEF Init
  <2>3. shift_pressed \in BOOLEAN /\ caps_lock \in BOOLEAN /\ both \in BOOLEAN
    BY DEF Init
  <2>4. held \subseteq {LeftShift, RightShift}
    BY DEF Init
  <2> QED BY <2>1, <2>2, <2>3, <2>4 DEF TypeOK
<1> QED BY <1>1, TypeOKStep, PTL DEF Spec

\* The shift flag is only as good as `both', which is on whenever both keys are down.
ShiftInv == ShiftFollowsTheKeys /\ (LeftShift \in held /\ RightShift \in held => both)

\* keyboard_handler's one flag follows the two shift keys unless both were down together.
THEOREM ShiftFollows == Spec => []ShiftFollowsTheKeys
<1>1. Init => ShiftInv
  BY DEF Init, ShiftInv, ShiftFollowsTheKeys
<1>2. TypeOK /\ ShiftInv /\ [Next]_vars => ShiftInv'
  <2> SUFFICES ASSUME TypeOK, ShiftInv, [Next]_vars PROVE ShiftInv'
    OBVIOUS
  <2> USE DEF TypeOK, ShiftInv, ShiftFollowsTheKeys
  <2>1. ASSUME NEW k \in {LeftShift, RightShift}, PressShift(k) PROVE ShiftInv'
    BY <2>1 DEF PressShift
  <2>2. ASSUME NEW k \in {LeftShift, RightShift}, Release(k) PROVE ShiftInv'
    <3>1. CASE held' = {}
      BY <2>2, <3>1 DEF Release
    <3>2. CASE held' # {}
      <4>1. LeftShift \in held /\ RightShift \in held /\ held # {k}
        BY <2>2, <3>2 DEF Release
      <4>2. both'
        BY <2>2, <4>1 DEF Release
      <4> QED BY <2>2, <4>2 DEF Release
    <3> QED BY <3>1, <3>2
  <2>3. ASSUME NEW k \in Keys, PressKey(k) PROVE ShiftInv'
    BY <2>3 DEF PressKey
  <2>4. CASE PressCaps
    BY <2>4 DEF PressCaps
  <2>5. CASE GetChar
    BY <2>5 DEF GetChar
  <2>6. CASE UNCHANGED vars
    BY <2>6 DEF vars
  <2> QED BY <2>1, <2>2, <2>3, <2>4, <2>5, <2>6 DEF Next
<1>3. ShiftInv => ShiftFollowsTheKeys
  BY DEF ShiftInv
<1> QED BY <1>1, <1>2, <1>3, TypeCorrect, PTL DEF Spec
-----------------------------------------------------------------------------
\* The ring's queue is a sequence with one element per waiting character.
LEMMA QueueIsSeq ==
    ASSUME TypeOK
    PROVE  /\ Waiting \in 0 .. KEYBOARD_BUFFER_SIZE - 1
           /\ \A i \in 1 .. Waiting : Place(i) \in 0 .. KEYBOARD_BUFFER_SIZE - 1
           /\ Queue \in Seq(Chars \cup {"none"})
           /\ Len(Queue) = Waiting
<1>1. Waiting \in 0 .. KEYBOARD_BUFFER_SIZE - 1
  BY SizeAssumption DEF TypeOK, Waiting
<1>2. \A i \in 1 .. Waiting : Place(i) \in 0 .. KEYBOARD_BUFFER_SIZE - 1
  BY SizeAssumption DEF TypeOK, Waiting, Place
<1>3. \A i \in 1 .. Waiting : keyboard_buffer[Place(i)] \in Chars \cup {"none"}
  BY <1>2 DEF TypeOK
<1> HIDE DEF Waiting
<1>4. Queue \in Seq(Chars \cup {"none"}) /\ Len(Queue) = Waiting
  BY <1>1, <1>3 DEF Queue
<1> QED BY <1>1, <1>2, <1>4

\* keyboard_handler's store is the queue's Put.
LEMMA StoreIsPut ==
    ASSUME TypeOK, NEW c \in Chars, Store(c)
    PROVE  KQ!Put(c)
<1> DEFINE R == buffer_read_pos
           W == buffer_write_pos
           Z == KEYBOARD_BUFFER_SIZE
<1>1. W' = IF W + 1 = Z THEN 0 ELSE W + 1
  BY AfterWraps DEF Store, TypeOK
<1>2. R' = R
  BY DEF Store
<1>3. CASE Waiting = Z - 1
  <2>1. Waiting' = 0
    BY <1>1, <1>2, <1>3, SizeAssumption DEF Waiting, TypeOK
  <2>2. Queue' = <<>>
    BY <2>1 DEF Queue
  <2> QED BY <1>3, <2>2, QueueIsSeq DEF KQ!Put
<1>4. CASE Waiting # Z - 1
  <2>1. Waiting' = Waiting + 1
    BY <1>1, <1>2, <1>4, SizeAssumption DEF Waiting, TypeOK
  <2>2. \A i \in 1 .. Waiting : Place(i)' = Place(i) /\ Place(i) # W
    BY <1>2, SizeAssumption DEF Waiting, Place, TypeOK
  <2>3. \A i \in Nat : i = Waiting + 1 => Place(i)' = W
    BY <1>2, SizeAssumption DEF Waiting, Place, TypeOK
  <2>4. keyboard_buffer' = [keyboard_buffer EXCEPT ![W] = c]
    BY DEF Store
  <2>5. \A i \in 1 .. Waiting : keyboard_buffer'[Place(i)'] = keyboard_buffer[Place(i)]
    BY <2>2, <2>4, QueueIsSeq DEF TypeOK
  <2>6. \A i \in Nat : i = Waiting + 1 => keyboard_buffer'[Place(i)'] = c
    BY <2>3, <2>4 DEF TypeOK
  <2>7. Queue' = [i \in 1 .. Waiting + 1 |-> keyboard_buffer'[Place(i)']]
    BY <2>1 DEF Queue
  <2>8. Queue' = Append(Queue, c)
    <3> DEFINE C == Chars \cup {"none"}
               n == Waiting
               q == Queue
               r == Queue'
               b(i) == keyboard_buffer'[Place(i)']
    <3>1. n \in Nat /\ Len(q) = n /\ q \in Seq(C) /\ c \in C
      BY QueueIsSeq, SizeAssumption
    <3>2. \A i \in 1 .. n : q[i] = b(i)
      BY <2>5 DEF Queue
    <3>3. \A i \in Nat : i = n + 1 => b(i) = c
      BY <2>6
    <3>4. r = [i \in 1 .. n + 1 |-> b(i)]
      BY <2>7
    <3> HIDE DEF n, q, r, b, C
    <3>5. /\ Append(q, c) \in Seq(C) /\ Len(Append(q, c)) = n + 1
          /\ \A i \in 1 .. n : Append(q, c)[i] = q[i]
          /\ Append(q, c)[n + 1] = c
      BY <3>1, AppendProperties, Zenon
    <3>6. \A i \in 1 .. n + 1 : b(i) = Append(q, c)[i] /\ b(i) \in C
      <4> SUFFICES ASSUME NEW i \in 1 .. n + 1 PROVE b(i) = Append(q, c)[i] /\ b(i) \in C
        OBVIOUS
      <4>1. CASE i = n + 1
        BY <3>1, <3>3, <3>5, <4>1
      <4>2. CASE i # n + 1
        <5>1. i \in 1 .. n
          BY <3>1, <4>2
        <5> QED BY <3>1, <3>2, <3>5, <5>1, ElementOfSeq
      <4> QED BY <4>1, <4>2
    <3>7. r \in Seq(C) /\ Len(r) = n + 1
      BY <3>1, <3>4, <3>6
    <3>8. \A i \in 1 .. Len(r) : r[i] = Append(q, c)[i]
      BY <3>4, <3>6, <3>7
    <3>9. r = Append(q, c)
      BY <3>5, <3>7, <3>8, SeqEqual
    <3> QED BY <3>9 DEF q, r
  <2> QED BY <1>4, <2>8, QueueIsSeq DEF KQ!Put
<1> QED BY <1>3, <1>4

\* keyboard_getchar's read is the queue's Get.
LEMMA GetCharIsGet ==
    ASSUME TypeOK, GetChar
    PROVE  KQ!Get
<1> DEFINE R == buffer_read_pos
           W == buffer_write_pos
           Z == KEYBOARD_BUFFER_SIZE
<1>1. R' = IF R + 1 = Z THEN 0 ELSE R + 1
  BY AfterWraps DEF GetChar, TypeOK
<1>2. W' = W /\ keyboard_buffer' = keyboard_buffer /\ R # W
  BY DEF GetChar, keyboard_has_input
<1>3. Waiting # 0 /\ Waiting' = Waiting - 1
  BY <1>1, <1>2, SizeAssumption DEF Waiting, TypeOK
<1>4. \A i \in 1 .. Waiting - 1 : Place(i)' = Place(i + 1)
  BY <1>1, <1>2, SizeAssumption DEF Waiting, Place, TypeOK
<1>5. Queue' = [i \in 1 .. Waiting - 1 |-> keyboard_buffer[Place(i + 1)]]
  BY <1>2, <1>3, <1>4 DEF Queue
<1>6. Waiting \in Nat /\ Len(Queue) = Waiting /\ Queue \in Seq(Chars \cup {"none"})
  BY QueueIsSeq, SizeAssumption
<1>7. \A i \in 1 .. Waiting : Queue[i] = keyboard_buffer[Place(i)]
  BY DEF Queue
<1> DEFINE C == Chars \cup {"none"}
           n == Waiting
           q == Queue
           r == Queue'
           b(i) == keyboard_buffer[Place(i)]
<1>8. Queue' = Tail(Queue) /\ Queue # <<>>
  <2>1. n \in Nat /\ n # 0 /\ Len(q) = n /\ q \in Seq(C)
    BY <1>3, <1>6
  <2>2. \A i \in 1 .. n : q[i] = b(i)
    BY <1>7
  <2>3. r = [i \in 1 .. n - 1 |-> b(i + 1)]
    BY <1>5
  <2> HIDE DEF n, q, r, b, C
  <2>4. q # <<>>
    BY <2>1
  <2>5. /\ Tail(q) \in Seq(C) /\ Len(Tail(q)) = n - 1
        /\ \A i \in 1 .. n - 1 : Tail(q)[i] = q[i + 1]
    BY <2>1, <2>4, HeadTailProperties
  <2>6. \A i \in 1 .. n - 1 : i + 1 \in 1 .. n
    BY <2>1
  <2>7. \A i \in 1 .. n - 1 : b(i + 1) = q[i + 1] /\ q[i + 1] \in C
    BY <2>1, <2>2, <2>6, ElementOfSeq
  <2>8. r \in Seq(C) /\ Len(r) = n - 1 /\ \A i \in 1 .. n - 1 : r[i] = b(i + 1)
    BY <2>1, <2>3, <2>7
  <2>9. r = Tail(q)
    BY <2>5, <2>7, <2>8, SeqEqual
  <2> QED BY <2>4, <2>9 DEF q, r
<1> QED BY <1>8 DEF KQ!Get

\* The ring buffer of keyboard_handler and keyboard_getchar is the bounded queue.
THEOREM RingImplementsQueue == Spec => ImplementsKeyQueue
<1>1. Init => KQ!Init
  <2> SUFFICES ASSUME Init PROVE Queue = <<>>
    BY DEF KQ!Init
  <2>1. Waiting = 0
    BY DEF Init, Waiting
  <2> QED BY <2>1 DEF Queue
<1>2. TypeOK /\ [Next]_vars => [KQ!Next]_Queue
  <2> SUFFICES ASSUME TypeOK, [Next]_vars PROVE KQ!Next \/ UNCHANGED Queue
    OBVIOUS
  <2>1. ASSUME UNCHANGED ring PROVE UNCHANGED Queue
    BY <2>1 DEF ring, Queue, Waiting, Place
  <2>2. ASSUME NEW k \in {LeftShift, RightShift}, PressShift(k) \/ Release(k)
        PROVE  UNCHANGED Queue
    BY <2>1, <2>2 DEF PressShift, Release
  <2>3. ASSUME NEW k \in Keys, PressKey(k) PROVE KQ!Next \/ UNCHANGED Queue
    <3> DEFINE c == Convert(k, shift_pressed, caps_lock)
    <3>1. CASE c = "none"
      BY <2>1, <2>3, <3>1 DEF PressKey
    <3>2. CASE c # "none"
      <4>1. c \in Chars
        BY <2>3, <3>2, StoredIsChar DEF PressKey, TypeOK
      <4>2. Store(c)
        BY <2>3, <3>2 DEF PressKey
      <4> QED BY <4>1, <4>2, StoreIsPut DEF KQ!Next
    <3> QED BY <3>1, <3>2
  <2>4. CASE PressCaps
    BY <2>1, <2>4 DEF PressCaps
  <2>5. CASE GetChar
    BY <2>5, GetCharIsGet DEF KQ!Next
  <2>6. CASE UNCHANGED vars
    BY <2>1, <2>6 DEF vars
  <2> QED BY <2>2, <2>3, <2>4, <2>5, <2>6 DEF Next
<1> QED BY <1>1, <1>2, TypeCorrect, PTL DEF Spec, ImplementsKeyQueue, KQ!Spec
=============================================================================
