----------------------------- MODULE HeapProofs -----------------------------
(***************************************************************************)
(* For every header size, alignment, page size and set of request sizes:   *)
(* the kernel heap never hands out overlapping memory, loses no block,     *)
(* leaves no two free neighbours and nothing but whole pages between       *)
(* blocks.                                                                 *)
(***************************************************************************)
EXTENDS Heap, TLAPS

\* The list visits the headers in address order.
Follows(a) ==
    IF next[a] = NULL
    THEN \A b \in blocks : b <= a
    ELSE /\ next[a] \in blocks /\ a < next[a]
         /\ \A b \in blocks : b <= a \/ next[a] <= b

Linked == heap_start \in blocks /\ \A a \in blocks : Follows(a)

\* No block reaches into a later one or beyond the break.
Apart == \A a \in blocks : /\ End(a) <= brk
                           /\ \A b \in blocks : a < b => End(a) <= b

\* No free neighbours up to the header at which kfree's second loop stands.
MergedBelow(x) ==
    \A a \in blocks : a < x /\ next[a] # NULL => ~(free[a] /\ free[next[a]])

Merged == \A a \in blocks : next[a] # NULL => ~(free[a] /\ free[next[a]])

\* Where the call that holds the lock stands.
Walk ==
    /\ op = "kmalloc" => /\ req >= asked
                         /\ curr # NULL => curr \in blocks
                         /\ curr = NULL => last \in blocks /\ next[last] = NULL
    /\ op = "kfree" => curr \in blocks /\ MergedBelow(curr)
    /\ op # "kfree" => Merged

Owned == HeldBlocksAreBusy /\ \A a \in held : want[a] <= size[a]

IInv == TypeOK /\ Linked /\ Apart /\ Walk /\ Owned

-----------------------------------------------------------------------------
\* Rounding up (heap.cpp:50, heap.cpp:88) gives a number that is at least as
\* large.
LEMMA RoundUpBounds ==
    ASSUME NEW n \in Nat, NEW u \in Nat \ {0}
    PROVE  RoundUp(n, u) \in Nat /\ RoundUp(n, u) >= n
<1> DEFINE x == n + u - 1
           q == x \div u
<1>1. x \in Nat
  OBVIOUS
<1>2. q \in Nat /\ x % u \in 0..(u-1) /\ x = u * q + (x % u)
  BY <1>1
<1> HIDE DEF q
<1>3. q * u = x - (x % u)
  BY <1>1, <1>2
<1>4. q * u \in Nat /\ q * u >= n
  BY <1>1, <1>2, <1>3
<1> QED
  BY <1>4 DEF RoundUp, q

\* The initial heap of kernel_main fits below the bound.
LEMMA InitialBreak ==
    /\ Top \in Nat
    /\ InitPages * Page \in Nat /\ InitPages * Page <= Top
<1>1. \A d, p \in Nat : d * p \in Nat
  OBVIOUS
<1>2. \A i, m, p \in Nat : i <= m => i * p <= m * p
  <2> SUFFICES ASSUME NEW i \in Nat, NEW m \in Nat, NEW p \in Nat, i <= m
               PROVE  i * p <= m * p
    OBVIOUS
  <2>1. (m - i) * p \in Nat
    BY <1>1
  <2>2. m * p = i * p + (m - i) * p
    OBVIOUS
  <2> QED
    BY <2>1, <2>2, <1>1
<1> QED
  BY <1>1, <1>2, Layout DEF Top

\* kheap_init establishes the invariant.
LEMMA InitEstablishes == Init => IInv
<1> SUFFICES ASSUME Init PROVE IInv
  OBVIOUS
<1> USE DEF Init, heap_start
<1>1. TypeOK
  BY InitialBreak, Layout DEF TypeOK, Addrs, NULL
<1>2. 0 \in Addrs
  BY InitialBreak DEF Addrs
<1>3. Linked /\ Apart
  BY <1>2, InitialBreak, Layout DEF Linked, Apart, Follows, End, NULL
<1>4. Walk /\ Owned
  BY <1>2 DEF Walk, Merged, Owned, HeldBlocksAreBusy, NULL
<1> QED
  BY <1>1, <1>3, <1>4 DEF IInv

-----------------------------------------------------------------------------
\* Addresses are natural numbers, so the provers may calculate with them.
LEMMA Arithmetic ==
    ASSUME TypeOK, NEW a \in blocks
    PROVE  /\ a \in Nat /\ a \in Addrs /\ size[a] \in Nat /\ brk \in Nat
           /\ End(a) \in Nat /\ a < End(a)
           /\ next[a] # NULL => next[a] \in Nat /\ next[a] \in Addrs
<1>1. Top \in Nat
  BY InitialBreak
<1> QED
  BY <1>1, Layout DEF TypeOK, Addrs, End, NULL

\* kmalloc's split (heap.cpp:60-69): the new header lies inside the old block
\* and behind it on the list.
LEMMA SplitKeepsOrder ==
    ASSUME TypeOK, Linked, Apart, NEW a \in blocks,
           size[a] > req + Header + Align, Split(a), brk' = brk
    PROVE  /\ Linked' /\ Apart'
           /\ a + Header + req \in Addrs \ blocks
           /\ size'[a] = req
           /\ \A b \in blocks \ {a} : size'[b] = size[b]
<1> USE Layout
<1>1. /\ a \in Nat /\ a \in Addrs /\ req \in Nat /\ size[a] \in Nat /\ brk \in Nat
      /\ brk <= Top /\ Top \in Nat
  BY Arithmetic, InitialBreak DEF TypeOK, Addrs
<1>0. PICK rest \in Nat : rest = a + Header + req
  BY <1>1
<1>2. End(a) = a + Header + size[a] /\ End(a) <= brk
  BY DEF End, Apart
<1>3. /\ rest \in Nat /\ a < rest /\ rest < End(a)
      /\ size[a] - req - Header \in Nat
      /\ End(a) = rest + Header + (size[a] - req - Header)
  BY <1>0, <1>1, <1>2
<1>4. rest \in Addrs
  BY <1>1, <1>2, <1>3 DEF Addrs
<1>5. \A b \in blocks : b \in Nat /\ (b <= a \/ End(a) <= b)
  BY <1>1, Arithmetic DEF Apart
<1>6. rest \notin blocks
  BY <1>1, <1>2, <1>3, <1>5
<1>7. /\ size'[a] = req /\ size'[rest] = size[a] - req - Header
      /\ next'[a] = rest /\ next'[rest] = next[a]
      /\ \A b \in Addrs : b # a /\ b # rest =>
            size'[b] = size[b] /\ next'[b] = next[b]
      /\ blocks' = blocks \cup {rest}
  <2>1. a # rest
    BY <1>1, <1>3
  <2> QED
    BY <1>0, <1>1, <1>4, <2>1 DEF Split, TypeOK
<1>8. blocks \subseteq Addrs
  BY DEF TypeOK
<1>9. Apart'
  <2>1. End(a)' = rest
    BY <1>0, <1>7 DEF End
  <2>2. End(rest)' = End(a)
    BY <1>3, <1>7 DEF End
  <2>3. \A b \in blocks : b # a => End(b)' = End(b)
    BY <1>6, <1>7, <1>8 DEF End
  <2>4. ASSUME NEW b \in blocks' PROVE End(b)' <= brk'
    <3>1. CASE b = a
      BY <3>1, <2>1, <1>1, <1>2, <1>3, Arithmetic
    <3>2. CASE b = rest
      BY <3>2, <2>2, <1>2
    <3>3. CASE b # a /\ b # rest
      BY <3>3, <2>3, <1>7 DEF Apart
    <3> QED
      BY <3>1, <3>2, <3>3
  <2>5. ASSUME NEW b \in blocks', NEW c \in blocks', b < c PROVE End(b)' <= c
    <3>1. CASE b = a
      <4>1. CASE c = rest
        BY <3>1, <4>1, <2>1
      <4>2. CASE c \in blocks
        <5>0. a < c
          BY <3>1, <2>5
        <5>1. End(a) <= c /\ c \in Nat /\ End(a) \in Nat
          BY <4>2, <5>0, Arithmetic DEF Apart
        <5> QED
          BY <3>1, <5>1, <2>1, <1>3
      <4> QED
        BY <4>1, <4>2, <1>7
    <3>2. CASE b = rest
      BY <3>2, <2>2, <2>5, <1>1, <1>3, <1>5, <1>7, Arithmetic
    <3>3. CASE b # a /\ b # rest
      <4>1. b \in blocks /\ End(b)' = End(b) /\ b \in Nat /\ End(b) \in Nat
        BY <3>3, <2>3, <1>7, Arithmetic
      <4>2. CASE c = rest
        <5>1. b < a
          BY <4>1, <4>2, <3>3, <2>5, <1>1, <1>2, <1>3, <1>5, Arithmetic
        <5>2. End(b) <= a
          BY <4>1, <5>1 DEF Apart
        <5> QED
          BY <4>1, <4>2, <5>2, <1>1, <1>3
      <4>3. CASE c # rest
        BY <4>1, <4>3, <2>5, <1>7 DEF Apart
      <4> QED
        BY <4>2, <4>3
    <3> QED
      BY <3>1, <3>2, <3>3
  <2> QED
    BY <2>4, <2>5 DEF Apart
<1>10. Linked'
  <2>1. rest # NULL
    BY <1>3 DEF NULL
  <2>2. ASSUME NEW b \in blocks' PROVE Follows(b)'
    <3>1. CASE b = a
      <4>1. \A c \in blocks' : c <= a \/ rest <= c
        BY <1>1, <1>3, <1>5, <1>7, Arithmetic
      <4> QED
        BY <3>1, <4>1, <2>1, <1>3, <1>7 DEF Follows
    <3>2. CASE b = rest
      <4>1. Follows(a)
        BY DEF Linked
      <4>2. CASE next[a] = NULL
        <5>1. \A c \in blocks' : c <= rest
          BY <4>1, <4>2, <1>1, <1>3, <1>5, <1>7 DEF Follows
        <5> QED
          BY <3>2, <4>2, <5>1, <1>7 DEF Follows
      <4>3. CASE next[a] # NULL
        <5>1. next[a] \in blocks /\ next[a] \in Nat /\ a < next[a]
          BY <4>1, <4>3, Arithmetic DEF Follows
        <5>2. rest < next[a]
          BY <5>1, <1>1, <1>3, <1>5, Arithmetic
        <5>3. \A c \in blocks' : c <= rest \/ next[a] <= c
          BY <4>1, <4>3, <1>1, <1>3, <1>5, <1>7 DEF Follows
        <5> QED
          BY <3>2, <4>3, <5>1, <5>2, <5>3, <1>7 DEF Follows
      <4> QED
        BY <4>2, <4>3
    <3>3. CASE b # a /\ b # rest
      <4>1. b \in blocks /\ b \in Nat /\ next'[b] = next[b] /\ Follows(b)
        BY <3>3, <1>5, <1>7, <1>8 DEF Linked
      <4>2. CASE next[b] = NULL
        <5>1. a < b
          BY <4>1, <4>2, <3>3, <1>1 DEF Follows
        <5>2. rest < b
          BY <4>1, <5>1, <1>1, <1>3, <1>5, Arithmetic
        <5> QED
          BY <4>1, <4>2, <5>2, <1>3, <1>7 DEF Follows
      <4>3. CASE next[b] # NULL
        <5>1. next[b] \in Nat /\ next[b] \in blocks /\ b < next[b]
          BY <4>1, <4>3, Arithmetic DEF Follows
        <5>2. rest <= b \/ next[b] <= rest
          <6>1. CASE a < b
            BY <6>1, <4>1, <1>1, <1>3, <1>5, Arithmetic
          <6>2. CASE b < a
            <7>1. next[b] <= a
              BY <6>2, <4>1, <4>3, <1>1 DEF Follows
            <7> QED
              BY <7>1, <5>1, <1>1, <1>3
          <6> QED
            BY <6>1, <6>2, <4>1, <3>3, <1>1
        <5> QED
          BY <4>1, <4>3, <5>1, <5>2, <1>7 DEF Follows
      <4> QED
        BY <4>2, <4>3
    <3> QED
      BY <3>1, <3>2, <3>3
  <2> QED
    BY <2>2, <1>7 DEF Linked, heap_start
<1> QED
  BY <1>0, <1>4, <1>6, <1>7, <1>8, <1>9, <1>10

\* kfree's merges (heap.cpp:112-113, heap.cpp:120-121): the header that
\* disappears is the next one on the list, and the grown block ends no later
\* than the one it swallowed.
LEMMA AbsorbKeepsOrder ==
    ASSUME TypeOK, Linked, Apart, NEW a \in blocks, next[a] # NULL,
           Absorb(a), brk' = brk
    PROVE  /\ Linked' /\ Apart'
           /\ next[a] \in blocks /\ next[a] # a /\ blocks' = blocks \ {next[a]}
           /\ \A x \in blocks' : /\ x # a => next'[x] = next[x] /\ next[x] # next[a]
                                 /\ size'[x] >= size[x]
<1> USE Layout
<1>0. PICK b \in blocks : b = next[a]
  BY DEF Linked, Follows
<1>1. /\ a \in Nat /\ a \in Addrs /\ size[a] \in Nat /\ brk \in Nat
      /\ b \in Nat /\ b \in Addrs /\ size[b] \in Nat
      /\ blocks \subseteq Addrs /\ \A c \in blocks : c \in Nat /\ End(c) \in Nat
  BY Arithmetic DEF TypeOK
<1>2. a < b /\ \A c \in blocks : c <= a \/ b <= c
  BY <1>0 DEF Linked, Follows
<1>3. End(a) <= b /\ End(b) <= brk
  BY <1>2 DEF Apart
<1>4. /\ blocks' = blocks \ {b}
      /\ size'[a] = size[a] + Header + size[b] /\ next'[a] = next[b]
      /\ \A c \in Addrs : c # a /\ c # b => size'[c] = size[c] /\ next'[c] = next[c]
  <2>1. a # b
    BY <1>1, <1>2
  <2> QED
    BY <1>0, <1>1, <2>1 DEF Absorb, TypeOK
<1>5. End(a)' \in Nat /\ End(a)' <= End(b)
  BY <1>1, <1>3, <1>4 DEF End
<1>6. \A x \in blocks' : x # a => End(x)' = End(x)
  BY <1>1, <1>4 DEF End
<1>7. Apart'
  <2>1. ASSUME NEW x \in blocks' PROVE End(x)' <= brk'
    <3>1. CASE x = a
      BY <3>1, <1>1, <1>3, <1>5
    <3>2. CASE x # a
      BY <3>2, <1>4, <1>6 DEF Apart
    <3> QED
      BY <3>1, <3>2
  <2>2. ASSUME NEW x \in blocks', NEW y \in blocks', x < y PROVE End(x)' <= y
    <3>1. CASE x = a
      <4>1. y \in blocks /\ y \in Nat /\ b < y
        <5>1. y \in blocks /\ y \in Nat /\ y # b /\ a < y
          BY <3>1, <2>2, <1>1, <1>4
        <5>2. b <= y
          BY <5>1, <1>1, <1>2
        <5> QED
          BY <5>1, <5>2, <1>1
      <4>2. End(b) <= y
        BY <4>1 DEF Apart
      <4> QED
        BY <3>1, <4>1, <4>2, <1>1, <1>5
    <3>2. CASE x # a
      BY <3>2, <2>2, <1>4, <1>6 DEF Apart
    <3> QED
      BY <3>1, <3>2
  <2> QED
    BY <2>1, <2>2 DEF Apart
<1>8. ASSUME NEW x \in blocks', x # a
      PROVE  x \in blocks /\ x \in Addrs /\ x # b /\ next'[x] = next[x] /\ next[x] # b
  <2>1. x \in blocks /\ x \in Addrs /\ x # b /\ next'[x] = next[x] /\ x \in Nat
    BY <1>1, <1>4, <1>8
  <2>2. ASSUME next[x] = b PROVE FALSE
    <3>1. b # NULL
      BY <1>1 DEF NULL
    <3>2. x < b /\ \A c \in blocks : c <= x \/ b <= c
      BY <2>1, <2>2, <3>1 DEF Linked, Follows
    <3> QED
      BY <3>2, <2>1, <1>1, <1>2, <1>8
  <2> QED
    BY <2>1, <2>2
<1>9. ASSUME NEW x \in blocks' PROVE Follows(x)'
  <2>1. CASE x = a
    <3>1. Follows(b)
      BY DEF Linked
    <3>2. CASE next[b] = NULL
      <4>1. \A c \in blocks' : c <= a
        BY <3>1, <3>2, <1>1, <1>2, <1>4 DEF Follows
      <4> QED
        BY <2>1, <3>2, <4>1, <1>4 DEF Follows
    <3>3. CASE next[b] # NULL
      <4>1. next[b] \in blocks /\ b < next[b] /\ next[b] \in Nat
        BY <3>1, <3>3, <1>1 DEF Follows
      <4>2. \A c \in blocks' : c <= a \/ next[b] <= c
        BY <3>1, <3>3, <1>1, <1>2, <1>4 DEF Follows
      <4>3. a < next[b] /\ next[b] # b
        BY <4>1, <1>1, <1>2
      <4> QED
        BY <2>1, <3>3, <4>1, <4>2, <4>3, <1>4 DEF Follows
    <3> QED
      BY <3>2, <3>3
  <2>2. CASE x # a
    <3>1. x \in blocks /\ next'[x] = next[x] /\ next[x] # b /\ Follows(x)
      BY <2>2, <1>8 DEF Linked
    <3> QED
      BY <3>1, <1>4 DEF Follows
  <2> QED
    BY <2>1, <2>2
<1>10. Linked'
  <2>1. b # heap_start
    BY <1>1, <1>2 DEF heap_start
  <2> QED
    BY <2>1, <1>4, <1>9 DEF Linked, heap_start
<1>11. \A x \in blocks' : size'[x] >= size[x]
  <2> TAKE x \in blocks'
  <2>1. CASE x = a
    BY <2>1, <1>1, <1>4
  <2>2. CASE x # a
    BY <2>2, <1>8, <1>4 DEF TypeOK
  <2> QED
    BY <2>1, <2>2
<1> QED
  BY <1>0, <1>1, <1>2, <1>4, <1>7, <1>8, <1>10, <1>11

\* kmalloc's new region (heap.cpp:80-95) starts at the break, behind every
\* block, and becomes the last one.
LEMMA GrowKeepsOrder ==
    ASSUME TypeOK, Linked, Apart, Merged, last \in blocks, next[last] = NULL, Grow
    PROVE  /\ Linked' /\ Apart' /\ Merged'
           /\ brk \in Addrs \ blocks /\ brk' \in Addrs
           /\ size'[brk] \in Nat /\ req <= size'[brk]
           /\ \A x \in blocks : size'[x] = size[x]
<1> USE Layout
<1>0. PICK r \in Nat : r = brk
  BY Arithmetic
<1>b. PICK bytes \in Nat : bytes = RoundUp(req + Header, Page)
  <2>1. req + Header \in Nat
    BY DEF TypeOK
  <2> QED
    BY <2>1, RoundUpBounds
<1>l. PICK z \in blocks : z = last
  OBVIOUS
<1>1. /\ z \in Nat /\ z \in Addrs /\ r \in Addrs /\ req \in Nat /\ Top \in Nat
      /\ blocks \subseteq Addrs
      /\ \A c \in blocks : c \in Nat /\ End(c) \in Nat /\ c < End(c) /\ End(c) <= r
  BY <1>0, Arithmetic, InitialBreak DEF TypeOK, Apart
<1>2. bytes - Header \in Nat /\ req <= bytes - Header
  <2>1. req + Header \in Nat
    BY <1>1
  <2>2. bytes >= req + Header
    BY <2>1, <1>b, RoundUpBounds
  <2> QED
    BY <2>1, <2>2, <1>1
<1>3. \A c \in blocks : c <= z /\ c < r
  BY <1>l, <1>1 DEF Linked, Follows
<1>4. /\ blocks' = blocks \cup {r} /\ brk' = r + bytes /\ r + bytes <= Top
      /\ size'[r] = bytes - Header /\ free'[r] = FALSE
      /\ next'[r] = NULL /\ next'[z] = r
      /\ \A c \in blocks : size'[c] = size[c] /\ free'[c] = free[c]
      /\ \A c \in blocks : c # z => next'[c] = next[c]
  <2>1. z # r /\ r \notin blocks
    BY <1>1, <1>3
  <2> QED
    BY <1>0, <1>b, <1>l, <1>1, <2>1 DEF Grow, TypeOK
<1>5. brk' \in Addrs /\ r \notin blocks /\ r \in Addrs
  BY <1>1, <1>3, <1>4 DEF Addrs
<1>6. Apart'
  <2>1. \A c \in blocks : End(c)' = End(c)
    BY <1>4 DEF End
  <2>2. End(r)' = brk'
    BY <1>2, <1>4 DEF End
  <2>3. \A c \in blocks : End(c)' <= r /\ End(c)' <= brk'
    BY <2>1, <1>1, <1>4
  <2> QED
    BY <2>1, <2>2, <2>3, <1>1, <1>3, <1>4 DEF Apart
<1>7. ASSUME NEW x \in blocks' PROVE Follows(x)'
  <2>1. CASE x = r
    BY <2>1, <1>1, <1>3, <1>4 DEF Follows
  <2>2. CASE x = z
    <3>1. r # NULL
      BY DEF NULL
    <3> QED
      <4>1. z < r
        BY <1>3
      <4>2. \A c \in blocks' : c <= z \/ r <= c
        BY <1>3, <1>4
      <4> QED
        BY <2>2, <3>1, <4>1, <4>2, <1>4 DEF Follows
  <2>3. CASE x # r /\ x # z
    <3>1. x \in blocks /\ next'[x] = next[x] /\ Follows(x) /\ x \in Nat
      BY <2>3, <1>1, <1>4 DEF Linked
    <3>2. next[x] # NULL
      BY <2>3, <3>1, <1>1, <1>3 DEF Follows
    <3>3. next[x] \in blocks /\ next[x] \in Nat /\ next[x] <= r
      <4>1. next[x] \in blocks
        BY <3>1, <3>2 DEF Follows
      <4>2. next[x] \in Nat /\ next[x] < r
        BY <4>1, <1>1, <1>3
      <4> QED
        BY <4>1, <4>2
    <3> QED
      BY <3>1, <3>2, <3>3, <1>4 DEF Follows
  <2> QED
    BY <2>1, <2>2, <2>3
<1>8. Linked'
  BY <1>4, <1>7 DEF Linked, heap_start
<1>9. Merged'
  <2> SUFFICES ASSUME NEW x \in blocks', next'[x] # NULL, free'[x], free'[next'[x]]
               PROVE  FALSE
    BY DEF Merged
  <2>1. x # r /\ x # z
    BY <1>4
  <2>2. x \in blocks /\ next'[x] = next[x] /\ next[x] \in blocks
    BY <2>1, <1>4 DEF Linked, Follows
  <2> QED
    BY <2>2, <1>4 DEF Merged
<1> QED
  BY <1>0, <1>2, <1>4, <1>5, <1>6, <1>8, <1>9

-----------------------------------------------------------------------------
\* The loops of kmalloc and kfree only move along the list.
LEMMA WalksKeep ==
    ASSUME IInv,
           (\E n \in Sizes : Kmalloc(n)) \/ SearchOn \/ MergeOn \/ MergeDone
    PROVE  IInv'
<1> USE DEF IInv
<1>1. UNCHANGED <<brk, blocks, size, free, next, held, want>>
  BY DEF Kmalloc, SearchOn, MergeOn, MergeDone, list
<1>2. Linked' /\ Apart' /\ Owned'
  BY <1>1 DEF Linked, Follows, Apart, End, Owned, HeldBlocksAreBusy, heap_start
<1>3. ASSUME NEW n \in Sizes, Kmalloc(n) PROVE TypeOK' /\ Walk'
  <2>1. n \in Nat /\ RoundUp(n, Align) \in Nat /\ RoundUp(n, Align) >= n
    BY RoundUpBounds, Layout
  <2>2. heap_start \in blocks /\ heap_start # NULL /\ heap_start \in Addrs
    BY DEF Linked, heap_start, NULL, TypeOK
  <2>3. TypeOK'
    BY <1>1, <1>3, <2>1, <2>2 DEF Kmalloc, TypeOK
  <2>4. Walk'
    BY <1>1, <1>3, <2>1, <2>2 DEF Kmalloc, Walk, Merged, MergedBelow
  <2> QED
    BY <2>3, <2>4
<1>4. ASSUME SearchOn PROVE TypeOK' /\ Walk'
  <2>1. curr \in blocks /\ curr \in Addrs /\ (next[curr] # NULL => next[curr] \in blocks)
    BY <1>4 DEF SearchOn, Walk, Linked, Follows, TypeOK
  <2>2. TypeOK'
    BY <1>1, <1>4, <2>1 DEF SearchOn, TypeOK
  <2>3. Walk'
    BY <1>1, <1>4, <2>1 DEF SearchOn, Walk, Merged, MergedBelow
  <2> QED
    BY <2>2, <2>3
<1>5. ASSUME MergeOn PROVE TypeOK' /\ Walk'
  <2>1. PICK c \in blocks : c = curr
    BY <1>5 DEF MergeOn, Walk
  <2>2. PICK d \in blocks : d = next[c]
    BY <1>5, <2>1 DEF MergeOn, Linked, Follows
  <2>3. TypeOK'
    BY <1>1, <1>5, <2>1, <2>2 DEF MergeOn, TypeOK
  <2>4. c \in Nat /\ d \in Nat /\ d # NULL /\ \A x \in blocks : x \in Nat /\ (x <= c \/ d <= x)
    BY <1>5, <2>1, <2>2, Arithmetic DEF MergeOn, Linked, Follows
  <2>5. MergedBelow(c) /\ ~(free[c] /\ free[d])
    BY <1>5, <2>1, <2>2 DEF MergeOn, Mergeable, Walk
  <2>6. ASSUME NEW x \in blocks, x < d, next[x] # NULL, free[x], free[next[x]]
        PROVE  FALSE
    <3>1. x <= c
      BY <2>4, <2>6
    <3>2. CASE x = c
      BY <3>2, <2>2, <2>5, <2>6
    <3>3. CASE x < c
      BY <3>3, <2>5, <2>6 DEF MergedBelow
    <3> QED
      BY <3>1, <3>2, <3>3, <2>4
  <2>7. op' = "kfree" /\ curr' = d
    BY <1>5, <2>1, <2>2 DEF MergeOn
  <2>8. MergedBelow(d)'
    BY <1>1, <2>6 DEF MergedBelow
  <2> QED
    BY <1>1, <2>2, <2>3, <2>7, <2>8 DEF Walk, MergedBelow
<1>6. ASSUME MergeDone PROVE TypeOK' /\ Walk'
  <2>1. PICK c \in blocks : c = curr
    BY <1>6 DEF MergeDone, Walk
  <2>2. TypeOK'
    BY <1>1, <1>6 DEF MergeDone, Return, TypeOK
  <2>3. MergedBelow(c) /\ next[c] = NULL /\ \A x \in blocks : x <= c /\ x \in Nat /\ c \in Nat
    BY <1>6, <2>1, Arithmetic DEF MergeDone, Walk, Linked, Follows
  <2>4. Merged
    BY <2>3 DEF Merged, MergedBelow
  <2> QED
    BY <1>1, <1>6, <2>2, <2>4 DEF MergeDone, Return, Walk, Merged
<1> QED
  BY <1>2, <1>3, <1>4, <1>5, <1>6

\* kmalloc hands out the block it found, split or whole.
LEMMA TakeBlockKeeps == ASSUME IInv, TakeBlock PROVE IInv'
<1> USE DEF IInv
<1>0. PICK a \in blocks : a = curr
  BY DEF TakeBlock, Walk
<1>1. /\ a \in Addrs /\ a \notin held /\ free[a] /\ req <= size[a] /\ asked <= req
      /\ req \in Nat /\ asked \in Nat /\ Merged
  BY <1>0 DEF TakeBlock, Fits, Owned, HeldBlocksAreBusy, Walk, TypeOK
<1>2. /\ brk' = brk /\ held' = held \cup {a} /\ want' = [want EXCEPT ![a] = asked]
      /\ Return
  BY <1>0 DEF TakeBlock
<1>3. /\ Linked' /\ Apart' /\ Merged'
      /\ blocks' \in SUBSET Addrs /\ size' \in [Addrs -> Nat]
      /\ free' \in [Addrs -> BOOLEAN] /\ next' \in [Addrs -> Addrs \cup {NULL}]
      /\ {x \in blocks' : ~free'[x]} = {x \in blocks : ~free[x]} \cup {a}
      /\ req <= size'[a] /\ \A x \in blocks \ {a} : size'[x] = size[x]
  <2>1. CASE size[a] > req + Header + Align /\ Split(a)
    <3>1. /\ Linked' /\ Apart' /\ size'[a] = req
          /\ \A x \in blocks \ {a} : size'[x] = size[x]
          /\ a + Header + req \in Addrs \ blocks
      BY <2>1, <1>2, SplitKeepsOrder
    <3>2. PICK rest \in Addrs \ blocks : rest = a + Header + req
      BY <3>1
    <3>3. /\ blocks' = blocks \cup {rest}
          /\ free' = [free EXCEPT ![rest] = TRUE, ![a] = FALSE]
          /\ next' = [next EXCEPT ![rest] = next[a], ![a] = rest]
          /\ size' = [size EXCEPT ![rest] = size[a] - req - Header, ![a] = req]
      BY <2>1, <3>2 DEF Split
    <3>4. size[a] - req - Header \in Nat
      BY <2>1, <1>1, Layout DEF TypeOK
    <3>5. /\ blocks' \in SUBSET Addrs /\ size' \in [Addrs -> Nat]
          /\ free' \in [Addrs -> BOOLEAN] /\ next' \in [Addrs -> Addrs \cup {NULL}]
      BY <3>2, <3>3, <3>4, <1>1 DEF TypeOK
    <3>6. /\ free'[rest] = TRUE /\ free'[a] = FALSE
          /\ \A x \in blocks : x # a => free'[x] = free[x] /\ next'[x] = next[x]
          /\ next'[a] = rest /\ next'[rest] = next[a] /\ rest # a
      BY <3>2, <3>3, <1>1 DEF TypeOK
    <3>7. {x \in blocks' : ~free'[x]} = {x \in blocks : ~free[x]} \cup {a}
      BY <3>2, <3>3, <3>6
    <3>8. Merged'
      <4> SUFFICES ASSUME NEW x \in blocks', next'[x] # NULL, free'[x], free'[next'[x]]
                   PROVE  FALSE
        BY DEF Merged
      <4>1. CASE x = rest
        <5>1. next[a] # NULL /\ next[a] \in blocks /\ free'[next[a]]
          BY <4>1, <3>6 DEF Linked, Follows
        <5>2. next[a] # a
          BY <5>1, <3>6
        <5>3. free[next[a]]
          BY <5>1, <5>2, <3>6
        <5> QED
          BY <5>1, <5>3, <1>1 DEF Merged
      <4>2. CASE x # rest
        <5>1. x \in blocks /\ x # a /\ next[x] # NULL /\ free[x] /\ free'[next[x]]
          BY <4>2, <3>3, <3>6
        <5>2. next[x] \in blocks /\ next[x] # a
          BY <5>1, <3>6 DEF Linked, Follows
        <5>3. free[next[x]]
          BY <5>1, <5>2, <3>6
        <5> QED
          BY <5>1, <5>3, <1>1 DEF Merged
      <4> QED
        BY <4>1, <4>2
    <3> QED
      BY <3>1, <3>5, <3>7, <3>8, <1>1
  <2>2. CASE free' = [free EXCEPT ![a] = FALSE] /\ UNCHANGED <<blocks, size, next>>
    <3>1. Linked' /\ Apart'
      BY <2>2, <1>2 DEF Linked, Follows, Apart, End, heap_start
    <3>2. free'[a] = FALSE /\ \A x \in blocks : x # a => free'[x] = free[x]
      BY <2>2, <1>1 DEF TypeOK
    <3>3. Merged'
      BY <2>2, <3>2, <1>1 DEF Merged, Linked, Follows
    <3>4. {x \in blocks' : ~free'[x]} = {x \in blocks : ~free[x]} \cup {a}
      BY <2>2, <3>2
    <3> QED
      BY <2>2, <3>1, <3>3, <3>4, <1>1 DEF TypeOK
  <2> QED
    BY <2>1, <2>2, <1>0 DEF TakeBlock
<1>4. TypeOK'
  BY <1>1, <1>2, <1>3 DEF TypeOK, Return
<1>5. Walk'
  BY <1>2, <1>3 DEF Walk, Return
<1>6. Owned'
  <2>1. held' = {x \in blocks' : ~free'[x]}
    BY <1>2, <1>3 DEF Owned, HeldBlocksAreBusy
  <2>2. ASSUME NEW x \in held' PROVE want'[x] <= size'[x]
    <3>1. CASE x = a
      <4>1. want'[x] = asked /\ size'[x] \in Nat /\ req <= size'[x]
        BY <3>1, <1>1, <1>2, <1>3 DEF TypeOK
      <4> QED
        BY <4>1, <1>1
    <3>2. CASE x # a
      <4>1. x \in held /\ x \in blocks /\ x \in Addrs
        BY <3>2, <1>2 DEF Owned, HeldBlocksAreBusy, TypeOK
      <4>2. want'[x] = want[x] /\ size'[x] = size[x]
        BY <3>2, <4>1, <1>2, <1>3 DEF TypeOK
      <4> QED
        BY <4>1, <4>2 DEF Owned
    <3> QED
      BY <3>1, <3>2
  <2> QED
    BY <2>1, <2>2 DEF Owned, HeldBlocksAreBusy
<1> QED
  BY <1>3, <1>4, <1>5, <1>6

\* kmalloc extends the heap, or VMM::sbrk fails and only the break has moved.
LEMMA GrowthKeeps == ASSUME IInv, Grow \/ GrowFails PROVE IInv'
<1> USE DEF IInv
<1>1. ASSUME Grow PROVE IInv'
  <2>1. last \in blocks /\ next[last] = NULL /\ Merged /\ asked <= req
    BY <1>1 DEF Grow, Walk
  <2>2. /\ Linked' /\ Apart' /\ Merged' /\ brk \in Addrs \ blocks /\ brk' \in Addrs
        /\ size'[brk] \in Nat /\ req <= size'[brk] /\ \A x \in blocks : size'[x] = size[x]
    BY <1>1, <2>1, GrowKeepsOrder
  <2>3. PICK r \in Addrs \ blocks : r = brk
    BY <2>2
  <2>4. /\ blocks' = blocks \cup {r} /\ held' = held \cup {r}
        /\ want' = [want EXCEPT ![r] = asked] /\ free' = [free EXCEPT ![r] = FALSE]
        /\ next' = [next EXCEPT ![r] = NULL, ![last] = r]
        /\ \E n : size' = [size EXCEPT ![r] = n]
        /\ Return
    BY <1>1, <2>3 DEF Grow
  <2>5. size' \in [Addrs -> Nat]
    BY <2>2, <2>3, <2>4 DEF TypeOK
  <2>6. TypeOK'
    BY <2>1, <2>2, <2>3, <2>4, <2>5 DEF TypeOK, Return
  <2>7. Walk'
    BY <2>2, <2>4 DEF Walk, Return
  <2>8. held' = {x \in blocks' : ~free'[x]}
    BY <2>3, <2>4 DEF Owned, HeldBlocksAreBusy, TypeOK
  <2>9. ASSUME NEW x \in held' PROVE want'[x] <= size'[x]
    <3>1. CASE x = r
      <4>1. want'[x] = asked
        BY <3>1, <2>3, <2>4 DEF TypeOK
      <4> QED
        BY <3>1, <4>1, <2>1, <2>2, <2>3 DEF TypeOK
    <3>2. CASE x # r
      <4>1. x \in held /\ x \in blocks /\ x \in Addrs
        BY <3>2, <2>4 DEF Owned, HeldBlocksAreBusy, TypeOK
      <4>2. want'[x] = want[x] /\ size'[x] = size[x]
        BY <3>2, <4>1, <2>2, <2>4 DEF TypeOK
      <4> QED
        BY <4>1, <4>2 DEF Owned
    <3> QED
      BY <3>1, <3>2
  <2> QED
    BY <2>2, <2>6, <2>7, <2>8, <2>9 DEF Owned, HeldBlocksAreBusy
<1>2. ASSUME GrowFails PROVE IInv'
  <2>1. Return /\ UNCHANGED <<blocks, size, free, next, held, want>> /\ Merged
    BY <1>2 DEF GrowFails, list, Walk
  <2>2. brk \in Nat /\ brk' \in Nat /\ brk <= brk' /\ brk' \in Addrs
    <3>1. PICK m \in Int : m >= 0 /\ brk + m * Page <= Top /\ brk' = brk + m * Page
      <4>1. req + Header \in Nat /\ Page \in Nat \ {0}
        BY Layout DEF TypeOK
      <4>2. RoundUp(req + Header, Page) \div Page - 1 \in Int
        BY <4>1, RoundUpBounds
      <4> QED
        BY <1>2, <4>2 DEF GrowFails
    <3>2. m * Page \in Nat
      BY <3>1, Layout
    <3>3. brk \in Nat /\ Top \in Nat
      BY InitialBreak DEF TypeOK, Addrs
    <3> QED
      BY <3>1, <3>2, <3>3 DEF Addrs
  <2>3. TypeOK'
    BY <2>1, <2>2 DEF TypeOK, Return
  <2>4. Linked' /\ Walk' /\ Owned'
    BY <2>1 DEF Linked, Follows, Walk, Merged, Return, Owned, HeldBlocksAreBusy, heap_start
  <2>5. Apart'
    <3>1. ASSUME NEW x \in blocks PROVE End(x)' <= brk'
      <4>1. End(x)' = End(x) /\ End(x) \in Nat /\ End(x) <= brk
        BY <2>1, Arithmetic DEF End, Apart
      <4> QED
        BY <4>1, <2>2
    <3> QED
      BY <3>1, <2>1 DEF Apart, End
  <2> QED
    BY <2>3, <2>4, <2>5
<1> QED
  BY <1>1, <1>2

\* kfree gives the block back, merges it with a free successor and restarts
\* from the head of the list.
LEMMA KfreeKeeps == ASSUME IInv, NEW a \in held, Kfree(a) PROVE IInv'
<1> USE DEF IInv
<1>1. a \in blocks /\ ~free[a] /\ a \in Addrs
  BY DEF Owned, HeldBlocksAreBusy, TypeOK
<1>2. /\ brk' = brk /\ held' = held \ {a} /\ want' = [want EXCEPT ![a] = 0]
      /\ op' = "kfree" /\ curr' = heap_start /\ UNCHANGED <<last, req, asked>>
  BY DEF Kfree
<1>3. /\ Linked' /\ Apart'
      /\ blocks' \in SUBSET Addrs /\ size' \in [Addrs -> Nat]
      /\ free' \in [Addrs -> BOOLEAN] /\ next' \in [Addrs -> Addrs \cup {NULL}]
      /\ {x \in blocks' : ~free'[x]} = {x \in blocks : ~free[x]} \ {a}
      /\ \A x \in blocks' : size[x] <= size'[x]
  <2>1. CASE next[a] # NULL /\ free[next[a]]
    <3>0. Absorb(a) /\ free' = [free EXCEPT ![next[a]] = FALSE, ![a] = TRUE]
      BY <2>1 DEF Kfree
    <3>1. /\ Linked' /\ Apart' /\ next[a] \in blocks /\ next[a] # a
          /\ blocks' = blocks \ {next[a]} /\ \A x \in blocks' : size'[x] >= size[x]
      BY <2>1, <3>0, <1>1, <1>2, AbsorbKeepsOrder
    <3>2. PICK b \in blocks : b = next[a]
      BY <3>1
    <3>3. b \in Addrs /\ size[a] \in Nat /\ size[b] \in Nat
      BY <1>1 DEF TypeOK
    <3>4. /\ size' = [size EXCEPT ![a] = size[a] + Header + size[b], ![b] = 0]
          /\ next' = [next EXCEPT ![a] = next[b], ![b] = NULL]
      BY <3>0, <3>2 DEF Absorb
    <3>5. /\ blocks' \in SUBSET Addrs /\ size' \in [Addrs -> Nat]
          /\ free' \in [Addrs -> BOOLEAN] /\ next' \in [Addrs -> Addrs \cup {NULL}]
      <4>1. blocks' \in SUBSET Addrs /\ free' \in [Addrs -> BOOLEAN]
        BY <3>0, <3>1, <3>2, <3>3, <1>1 DEF TypeOK
      <4>2. size[a] + Header + size[b] \in Nat
        BY <3>3, Layout
      <4>3. size' \in [Addrs -> Nat]
        BY <3>3, <3>4, <4>2, <1>1 DEF TypeOK
      <4>4. next' \in [Addrs -> Addrs \cup {NULL}]
        BY <3>3, <3>4, <1>1 DEF TypeOK
      <4> QED
        BY <4>1, <4>3, <4>4
    <3>6. free'[a] = TRUE /\ \A x \in blocks : x # a /\ x # b => free'[x] = free[x]
      BY <3>0, <3>1, <3>2, <1>1 DEF TypeOK
    <3>7. {x \in blocks' : ~free'[x]} = {x \in blocks : ~free[x]} \ {a}
      BY <2>1, <3>1, <3>2, <3>6
    <3>8. \A x \in blocks' : size[x] <= size'[x]
      BY <3>1, <3>5 DEF TypeOK
    <3> QED
      BY <3>1, <3>5, <3>7, <3>8
  <2>2. CASE ~(next[a] # NULL /\ free[next[a]])
    <3>1. free' = [free EXCEPT ![a] = TRUE] /\ UNCHANGED <<blocks, size, next>>
      BY <2>2 DEF Kfree
    <3>2. Linked' /\ Apart'
      BY <3>1, <1>2 DEF Linked, Follows, Apart, End, heap_start
    <3>3. free'[a] = TRUE /\ \A x \in blocks : x # a => free'[x] = free[x]
      BY <3>1, <1>1 DEF TypeOK
    <3>4. {x \in blocks' : ~free'[x]} = {x \in blocks : ~free[x]} \ {a}
      BY <3>1, <3>3
    <3>5. \A x \in blocks' : size[x] <= size'[x]
      BY <3>1 DEF TypeOK
    <3> QED
      BY <3>1, <3>2, <3>4, <3>5 DEF TypeOK
  <2> QED
    BY <2>1, <2>2
<1>4. heap_start \in blocks' /\ heap_start \in Addrs
  BY <1>3 DEF Linked, heap_start
<1>5. TypeOK'
  BY <1>1, <1>2, <1>3, <1>4 DEF TypeOK
<1>6. Walk'
  <2>1. \A x \in blocks' : ~(x < heap_start)
    BY <1>3, InitialBreak DEF Addrs, heap_start
  <2> QED
    BY <2>1, <1>2, <1>4 DEF Walk, MergedBelow, heap_start
<1>7. Owned'
  <2>1. held' = {x \in blocks' : ~free'[x]}
    BY <1>2, <1>3 DEF Owned, HeldBlocksAreBusy
  <2>2. ASSUME NEW x \in held' PROVE want'[x] <= size'[x]
    <3>1. x \in held /\ x # a /\ x \in blocks' /\ x \in Addrs
      BY <2>1, <1>2, <1>3
    <3>2. want'[x] = want[x] /\ want[x] <= size[x] /\ size[x] <= size'[x]
      BY <3>1, <1>2, <1>3 DEF Owned, TypeOK
    <3>3. want[x] \in Nat /\ size[x] \in Nat /\ size'[x] \in Nat
      BY <3>1, <1>3 DEF TypeOK
    <3> QED
      BY <3>2, <3>3
  <2> QED
    BY <2>1, <2>2 DEF Owned, HeldBlocksAreBusy
<1> QED
  BY <1>3, <1>5, <1>6, <1>7

\* An iteration of kfree's second loop that merges two free neighbours.
LEMMA MergeKeeps == ASSUME IInv, Merge PROVE IInv'
<1> USE DEF IInv
<1>0. PICK a \in blocks : a = curr
  BY DEF Merge, Walk
<1>1. /\ a \in Addrs /\ next[a] # NULL /\ free[a] /\ free[next[a]] /\ Absorb(a)
      /\ brk' = brk /\ free' = [free EXCEPT ![next[a]] = FALSE]
      /\ UNCHANGED <<held, want, op, curr, last, req, asked>> /\ op = "kfree"
      /\ MergedBelow(a)
  BY <1>0 DEF Merge, Mergeable, Walk, TypeOK
<1>2. /\ Linked' /\ Apart' /\ next[a] \in blocks /\ next[a] # a
      /\ blocks' = blocks \ {next[a]}
      /\ \A x \in blocks' : /\ x # a => next'[x] = next[x] /\ next[x] # next[a]
                            /\ size'[x] >= size[x]
  BY <1>1, AbsorbKeepsOrder
<1>3. PICK b \in blocks : b = next[a]
  BY <1>2
<1>4. b \in Addrs /\ size[a] \in Nat /\ size[b] \in Nat
  BY <1>1 DEF TypeOK
<1>5. /\ size' = [size EXCEPT ![a] = size[a] + Header + size[b], ![b] = 0]
      /\ next' = [next EXCEPT ![a] = next[b], ![b] = NULL]
  BY <1>1, <1>3 DEF Absorb
<1>6. TypeOK'
  BY <1>1, <1>2, <1>3, <1>4, <1>5, Layout DEF TypeOK
<1>7. \A x \in blocks' : free'[x] = free[x]
  BY <1>1, <1>2, <1>3 DEF TypeOK
<1>8. Walk'
  <2>1. ASSUME NEW x \in blocks', x < a, next'[x] # NULL, free'[x], free'[next'[x]]
        PROVE  FALSE
    <3>1. x # a /\ x \in blocks
      BY <2>1, <1>1, <1>2, Arithmetic
    <3>2. next'[x] = next[x] /\ next[x] # b /\ next[x] \in blocks
      BY <2>1, <3>1, <1>2, <1>3 DEF Linked, Follows
    <3>3. free[x] /\ free[next[x]]
      BY <2>1, <3>1, <3>2, <1>2, <1>3, <1>7
    <3> QED
      BY <2>1, <3>1, <3>2, <3>3, <1>1 DEF MergedBelow
  <2>2. MergedBelow(a)'
    BY <2>1 DEF MergedBelow
  <2>3. a \in blocks' /\ curr' = a /\ op' = "kfree"
    BY <1>0, <1>1, <1>2
  <2> QED
    BY <2>2, <2>3 DEF Walk, MergedBelow
<1>9. Owned'
  <2>1. held' = {x \in blocks' : ~free'[x]}
    BY <1>1, <1>2, <1>7 DEF Owned, HeldBlocksAreBusy
  <2>2. ASSUME NEW x \in held' PROVE want'[x] <= size'[x]
    <3>1. x \in held /\ x \in blocks' /\ x \in Addrs
      BY <2>1, <1>1, <1>6 DEF TypeOK
    <3>2. want'[x] = want[x] /\ want[x] <= size[x] /\ size'[x] >= size[x]
      BY <3>1, <1>1, <1>2 DEF Owned
    <3>3. want[x] \in Nat /\ size[x] \in Nat /\ size'[x] \in Nat
      BY <3>1, <1>6 DEF TypeOK
    <3> QED
      BY <3>2, <3>3
  <2> QED
    BY <2>1, <2>2 DEF Owned, HeldBlocksAreBusy
<1> QED
  BY <1>2, <1>6, <1>8, <1>9

\* Every step of the heap keeps the invariant.
LEMMA StepKeeps == IInv /\ [Next]_vars => IInv'
<1> SUFFICES ASSUME IInv, [Next]_vars PROVE IInv'
  OBVIOUS
<1>1. CASE UNCHANGED vars
  <2>1. UNCHANGED <<brk, blocks, size, free, next, held, want, op, curr, last, req, asked>>
    BY <1>1 DEF vars
  <2>2. TypeOK'
    BY <2>1 DEF IInv, TypeOK
  <2>3. Linked' /\ Apart' /\ Owned'
    BY <2>1 DEF IInv, Linked, Follows, Apart, End, Owned, HeldBlocksAreBusy, heap_start
  <2>4. Walk'
    BY <2>1 DEF IInv, Walk, Merged, MergedBelow
  <2> QED
    BY <2>2, <2>3, <2>4 DEF IInv
<1>2. CASE Next
  BY <1>2, WalksKeep, TakeBlockKeeps, GrowthKeeps, KfreeKeeps, MergeKeeps
     DEF Next, InCall
<1> QED
  BY <1>1, <1>2

\* What the invariant says of the memory that callers hold.
LEMMA InvariantImplies ==
    IInv => MemoryIsExclusive /\ HeldBlocksAreBusy /\ FreeBlocksAreMerged
<1> SUFFICES ASSUME IInv
             PROVE  MemoryIsExclusive /\ HeldBlocksAreBusy /\ FreeBlocksAreMerged
  OBVIOUS
<1> USE DEF IInv
<1>1. ASSUME NEW a \in held
      PROVE  /\ a + Header + want[a] <= brk
             /\ \A b \in blocks \cup held : b > a => a + Header + want[a] <= b
  <2>1. a \in blocks /\ a \in Addrs /\ held \subseteq blocks
    BY DEF Owned, HeldBlocksAreBusy, TypeOK
  <2>2. want[a] \in Nat /\ want[a] <= size[a]
    BY <2>1 DEF Owned, TypeOK
  <2>3. /\ a \in Nat /\ size[a] \in Nat /\ brk \in Nat
        /\ End(a) = a + Header + size[a] /\ End(a) \in Nat
    BY <2>1, Arithmetic DEF End
  <2>4. End(a) <= brk /\ \A b \in blocks : a < b => End(a) <= b
    BY <2>1 DEF Apart
  <2>5. \A b \in blocks : b \in Nat
    BY Arithmetic
  <2>6. a + Header + want[a] \in Nat /\ a + Header + want[a] <= End(a)
    BY <2>2, <2>3, Layout
  <2>7. a + Header + want[a] <= brk
    BY <2>3, <2>4, <2>6
  <2>8. ASSUME NEW b \in blocks \cup held, b > a PROVE a + Header + want[a] <= b
    <3>1. b \in blocks /\ b \in Nat /\ a < b
      BY <2>1, <2>3, <2>5, <2>8
    <3>2. End(a) <= b
      BY <3>1, <2>4
    <3> QED
      BY <3>1, <3>2, <2>3, <2>6
  <2> QED
    BY <2>7, <2>8
<1>2. FreeBlocksAreMerged
  BY DEF FreeBlocksAreMerged, Walk, Merged
<1> QED
  BY <1>1, <1>2 DEF MemoryIsExclusive, Owned

\* The kernel heap never hands out memory that overlaps a header, another
\* caller's memory or the end of the heap; exactly the blocks that are not
\* free are in a caller's hands; and after every kfree no two neighbouring
\* blocks are free - also when VMM::sbrk failed halfway and left a hole.
THEOREM HeapIsSound ==
    Spec => [](TypeOK /\ MemoryIsExclusive /\ HeldBlocksAreBusy /\ FreeBlocksAreMerged)
<1>1. IInv => TypeOK
  BY DEF IInv
<1> QED
  BY <1>1, InitEstablishes, StepKeeps, InvariantImplies, PTL DEF Spec

\* The blocks that are not marked free are exactly the ones that callers of kmalloc hold.
THEOREM BusyBlocksAreHeld == Spec => []HeldBlocksAreBusy
BY HeapIsSound, PTL

\* Whenever no call runs, no two neighbouring blocks are both free: kfree's merging leaves
\* none behind.
THEOREM NoFreeNeighbours == Spec => []FreeBlocksAreMerged
BY HeapIsSound, PTL

-----------------------------------------------------------------------------
\* What lies between a block and the next one, or the break.
Gap(a) == (IF next[a] = NULL THEN brk ELSE next[a]) - End(a)

WholePages(g) == \E k \in Nat : g = k * Page

Tiled == \A a \in blocks : WholePages(Gap(a))

\* Whole pages add up to whole pages, and nothing is left over.
LEMMA PagesAddUp ==
    /\ WholePages(0)
    /\ \A g, h : WholePages(g) /\ WholePages(h) => WholePages(g + h)
    /\ \A g : WholePages(g) => g \in Nat /\ g % Page = 0
<1> USE Layout
<1>1. WholePages(0)
  <2>1. 0 = 0 * Page
    OBVIOUS
  <2> QED
    BY <2>1 DEF WholePages
<1>2. ASSUME NEW g, NEW h, WholePages(g), WholePages(h) PROVE WholePages(g + h)
  <2>1. PICK k \in Nat : g = k * Page
    BY <1>2 DEF WholePages
  <2>2. PICK m \in Nat : h = m * Page
    BY <1>2 DEF WholePages
  <2>3. k + m \in Nat /\ g + h = (k + m) * Page
    BY <2>1, <2>2
  <2> QED
    BY <2>3 DEF WholePages
<1>3. ASSUME NEW g, WholePages(g) PROVE g \in Nat /\ g % Page = 0
  <2>1. PICK k \in Nat : g = k * Page
    BY <1>3 DEF WholePages
  <2>2. g \in Nat
    BY <2>1
  <2>3. g % Page \in 0 .. Page - 1 /\ g = Page * (g \div Page) + (g % Page)
        /\ g \div Page \in Int
    BY <2>2
  <2>4. PICK r \in 0 .. Page - 1, q \in Int : r = g % Page /\ g = Page * q + r
    BY <2>3
  <2>5. r = (k - q) * Page
    BY <2>1, <2>4
  <2>6. k - q = 0
    <3>1. CASE k - q >= 1
      <4>1. (k - q - 1) * Page >= 0
        BY <3>1, <2>4
      <4> QED
        BY <4>1, <2>4, <2>5
    <3>2. CASE k - q <= -1
      <4>1. (q - k - 1) * Page >= 0
        BY <3>2, <2>4
      <4> QED
        BY <4>1, <2>4, <2>5
    <3> QED
      BY <3>1, <3>2, <2>4
  <2> QED
    BY <2>2, <2>4, <2>5, <2>6
<1> QED
  BY <1>1, <1>2, <1>3

\* kmalloc's split leaves no gap behind the first half, and the second half has the old one.
LEMMA SplitTiles ==
    ASSUME IInv, Tiled, NEW a \in blocks, size[a] > req + Header + Align, Split(a), brk' = brk
    PROVE  Tiled'
<1> USE Layout
<1>1. /\ TypeOK /\ a \in Nat /\ a \in Addrs /\ req \in Nat /\ size[a] \in Nat /\ brk \in Nat
      /\ a + Header + req \in Addrs \ blocks
  BY Arithmetic, SplitKeepsOrder DEF IInv, TypeOK
<1>2. PICK rest \in Addrs \ blocks : rest = a + Header + req
  BY <1>1
<1>3. /\ blocks' = blocks \cup {rest}
      /\ size' = [size EXCEPT ![rest] = size[a] - req - Header, ![a] = req]
      /\ next' = [next EXCEPT ![rest] = next[a], ![a] = rest]
  BY <1>2 DEF Split
<1>4. /\ size'[rest] = size[a] - req - Header /\ size'[a] = req
      /\ next'[rest] = next[a] /\ next'[a] = rest
      /\ \A x \in blocks : x # a => size'[x] = size[x] /\ next'[x] = next[x]
  BY <1>1, <1>2, <1>3 DEF TypeOK
<1>5. rest \in Nat /\ rest # NULL
  BY <1>1, <1>2 DEF NULL
<1>6. Gap(a)' = 0
  BY <1>2, <1>4, <1>5 DEF Gap, End
<1>7. Gap(rest)' = Gap(a)
  <2>1. End(rest)' = End(a)
    BY <1>1, <1>2, <1>4 DEF End
  <2> QED
    BY <2>1, <1>4 DEF Gap
<1>8. ASSUME NEW x \in blocks, x # a PROVE Gap(x)' = Gap(x)
  BY <1>4, <1>8 DEF Gap, End
<1> QED
  BY <1>3, <1>6, <1>7, <1>8, PagesAddUp DEF Tiled, WholePages

\* A block that swallows its successor has the gaps of both behind it.
LEMMA AbsorbTiles ==
    ASSUME IInv, Tiled, NEW a \in blocks, next[a] # NULL, Absorb(a), brk' = brk
    PROVE  Tiled'
<1> USE Layout
<1>1. PICK b \in blocks : b = next[a]
  BY DEF IInv, Linked, Follows
<1>2. /\ TypeOK /\ a \in Nat /\ b \in Nat /\ a < b /\ a \in Addrs /\ b \in Addrs
      /\ size[a] \in Nat /\ size[b] \in Nat /\ brk \in Nat
      /\ next[b] # NULL => next[b] \in Nat
  BY <1>1, Arithmetic DEF IInv, Linked, Follows
<1>3. /\ blocks' = blocks \ {b}
      /\ size' = [size EXCEPT ![a] = size[a] + Header + size[b], ![b] = 0]
      /\ next' = [next EXCEPT ![a] = next[b], ![b] = NULL]
  BY <1>1 DEF Absorb
<1>4. /\ size'[a] = size[a] + Header + size[b] /\ next'[a] = next[b]
      /\ \A x \in blocks : x # a /\ x # b => size'[x] = size[x] /\ next'[x] = next[x]
  BY <1>2, <1>3 DEF TypeOK
<1>5. Gap(a)' = Gap(a) + Gap(b)
  <2>1. Gap(a) = b - (a + Header + size[a])
    BY <1>1 DEF Gap, End
  <2>2. PICK e \in Nat : e = IF next[b] = NULL THEN brk ELSE next[b]
    BY <1>2
  <2>3. Gap(b) = e - (b + Header + size[b])
    BY <2>2 DEF Gap, End
  <2>4. Gap(a)' = e - (a + Header + (size[a] + Header + size[b]))
    BY <2>2, <1>4 DEF Gap, End
  <2> QED
    BY <2>1, <2>3, <2>4, <1>2
<1>6. ASSUME NEW x \in blocks, x # a, x # b PROVE Gap(x)' = Gap(x)
  BY <1>4, <1>6 DEF Gap, End
<1>7. WholePages(Gap(a) + Gap(b))
  BY PagesAddUp DEF Tiled
<1> QED
  BY <1>1, <1>3, <1>5, <1>6, <1>7 DEF Tiled, WholePages

\* VMM::sbrk's new region is one block that ends at the break, behind the gap the last block
\* had; a failed sbrk widens that gap by whole pages.
LEMMA GrowthTiles ==
    ASSUME IInv, Tiled, Grow \/ GrowFails
    PROVE  Tiled'
<1> USE Layout
<1>0. TypeOK /\ brk \in Nat /\ NULL = -1
  BY Arithmetic DEF IInv, Linked, NULL
<1>1. ASSUME Grow PROVE Tiled'
  <2>0. last \in blocks /\ next[last] = NULL /\ Merged
    BY <1>1 DEF Grow, IInv, Walk
  <2>1. PICK l \in blocks : l = last /\ next[l] = NULL
    BY <2>0
  <2>2. brk \in Addrs \ blocks
    BY <1>1, <2>0, GrowKeepsOrder DEF IInv
  <2>3. PICK r \in Addrs \ blocks : r = brk
    BY <2>2
  <2>4. PICK bytes \in Nat : bytes = RoundUp(req + Header, Page)
    <3>1. req + Header \in Nat
      BY <1>0 DEF TypeOK
    <3> QED
      BY <3>1, RoundUpBounds
  <2>5. /\ brk' = r + bytes /\ blocks' = blocks \cup {r}
        /\ size' = [size EXCEPT ![r] = bytes - Header]
        /\ next' = [next EXCEPT ![r] = NULL, ![l] = r]
    BY <1>1, <2>1, <2>3, <2>4 DEF Grow
  <2>6. /\ size'[r] = bytes - Header /\ next'[r] = NULL /\ next'[l] = r
        /\ \A x \in blocks : size'[x] = size[x] /\ (x # l => next'[x] = next[x])
    BY <1>0, <2>1, <2>3, <2>5 DEF TypeOK
  <2>7. Gap(r)' = 0
    BY <1>0, <2>3, <2>5, <2>6 DEF Gap, End
  <2>8. Gap(l)' = Gap(l)
    BY <1>0, <2>1, <2>3, <2>6 DEF Gap, End
  <2>9. ASSUME NEW x \in blocks, x # l PROVE Gap(x)' = Gap(x)
    <3>1. next[x] # NULL
      <4>1. SUFFICES ASSUME next[x] = NULL PROVE FALSE
        OBVIOUS
      <4>2. x <= l /\ l <= x
        BY <4>1, <2>1 DEF IInv, Linked, Follows
      <4>3. x \in Nat /\ l \in Nat
        BY <1>0, <2>1, Arithmetic
      <4> QED
        BY <4>2, <4>3, <2>9
    <3> QED
      BY <3>1, <2>6, <2>9 DEF Gap, End
  <2> QED
    BY <2>5, <2>7, <2>8, <2>9, PagesAddUp DEF Tiled, WholePages
<1>2. ASSUME GrowFails PROVE Tiled'
  <2>1. UNCHANGED <<blocks, size, next>>
    BY <1>2 DEF GrowFails, list
  <2>2. PICK m \in Nat : brk' = brk + m * Page
    <3>1. req + Header \in Nat
      BY <1>0 DEF TypeOK
    <3>2. RoundUp(req + Header, Page) \div Page - 1 \in Int
      BY <3>1, RoundUpBounds
    <3> QED
      BY <1>2, <3>2 DEF GrowFails
  <2>3. ASSUME NEW x \in blocks PROVE WholePages(Gap(x)')
    <3>1. CASE next[x] = NULL
      <4>1. End(x) \in Nat /\ End(x)' = End(x) /\ m * Page \in Nat
        BY <1>0, <2>1, Arithmetic DEF End
      <4>2. Gap(x)' = Gap(x) + m * Page
        BY <3>1, <4>1, <1>0, <2>1, <2>2 DEF Gap
      <4>3. WholePages(m * Page)
        BY DEF WholePages
      <4> QED
        BY <4>2, <4>3, PagesAddUp DEF Tiled
    <3>2. CASE next[x] # NULL
      <4>1. Gap(x)' = Gap(x)
        BY <3>2, <2>1 DEF Gap, End
      <4> QED
        BY <4>1 DEF Tiled
    <3> QED
      BY <3>1, <3>2
  <2> QED
    BY <2>1, <2>3 DEF Tiled, WholePages
<1> QED
  BY <1>1, <1>2

\* Every step keeps the gaps whole.
LEMMA StepTiles == IInv /\ Tiled /\ [Next]_vars => Tiled'
<1> SUFFICES ASSUME IInv, Tiled, [Next]_vars PROVE Tiled'
  OBVIOUS
<1>1. ASSUME UNCHANGED <<brk, blocks, size, next>> PROVE Tiled'
  BY <1>1 DEF Tiled, Gap, End, WholePages
<1>2. ASSUME TakeBlock PROVE Tiled'
  <2>1. curr \in blocks /\ brk' = brk
    BY <1>2 DEF TakeBlock, IInv, Walk
  <2> QED
    BY <1>1, <1>2, <2>1, SplitTiles DEF TakeBlock
<1>3. ASSUME NEW a \in held, Kfree(a) PROVE Tiled'
  <2>1. a \in blocks /\ brk' = brk
    BY <1>3 DEF Kfree, IInv, Owned, HeldBlocksAreBusy
  <2> QED
    BY <1>1, <1>3, <2>1, AbsorbTiles DEF Kfree
<1>4. ASSUME Merge PROVE Tiled'
  <2>1. curr \in blocks /\ next[curr] # NULL /\ Absorb(curr) /\ brk' = brk
    BY <1>4 DEF Merge, IInv, Walk
  <2> QED
    BY <2>1, AbsorbTiles
<1>5. ASSUME (\E n \in Sizes : Kmalloc(n)) \/ SearchOn \/ MergeOn \/ MergeDone \/ UNCHANGED vars
      PROVE  UNCHANGED <<brk, blocks, size, next>>
  BY <1>5 DEF Kmalloc, SearchOn, MergeOn, MergeDone, vars, list
<1> QED
  BY <1>1, <1>2, <1>3, <1>4, <1>5, GrowthTiles DEF Next, InCall

\* Splitting and merging lose no byte of the heap: between two neighbours, and behind the last
\* block, there is nothing but whole pages, those a failed VMM::sbrk had mapped (vmm.cpp:70).
THEOREM NothingFallsBetweenBlocks == Spec => []BlocksTileTheHeap
<1>1. Init => Tiled
  <2> SUFFICES ASSUME Init PROVE Tiled
    OBVIOUS
  <2>1. 0 \in Addrs /\ InitPages * Page \in Nat
    BY InitialBreak DEF Addrs
  <2>2. Gap(0) = 0
    <3>1. next[0] = NULL /\ size[0] = InitPages * Page - Header /\ brk = InitPages * Page
      BY <2>1 DEF Init, heap_start
    <3>2. PICK b \in Nat : b = InitPages * Page
      BY <2>1
    <3> QED
      BY <3>1, <3>2, Layout DEF Gap, End
  <2> QED
    BY <2>2, PagesAddUp DEF Tiled, Init, heap_start
<1>2. Tiled => BlocksTileTheHeap
  <2> SUFFICES ASSUME Tiled, NEW a \in blocks PROVE Gap(a) >= 0 /\ Gap(a) % Page = 0
    BY DEF BlocksTileTheHeap, Gap
  <2>1. Gap(a) \in Nat /\ Gap(a) % Page = 0
    BY PagesAddUp DEF Tiled
  <2> QED
    BY <2>1
<1> QED
  BY <1>1, <1>2, InitEstablishes, StepKeeps, StepTiles, PTL DEF Spec
=============================================================================
