-------------------------------- MODULE Heap --------------------------------
(***************************************************************************)
(* The kernel heap of mm/heap.cpp: a linked list of blocks, each with a    *)
(* header in front of its memory, from which kmalloc takes the first block *)
(* that fits and which it extends through VMM::sbrk, and whose free        *)
(* neighbours kfree merges.                                                *)
(*                                                                         *)
(* Both run under heap_lock with interrupts disabled, so calls do not      *)
(* overlap; op, curr and last are the call in progress, and an action is   *)
(* one iteration of its loop.  Addresses count in Units of 8 bytes from    *)
(* heap_start.                                                             *)
(***************************************************************************)
EXTENDS Integers

CONSTANTS
    Header,     \* sizeof(struct heap_block)
    Align,      \* 16 bytes
    Page,       \* PAGE_SIZE
    InitPages,  \* pages of the initial heap that kernel_main maps
    MaxPages,   \* bound: pages the break may reach
    Sizes       \* the sizes kmalloc is called with

ASSUME Layout ==
    /\ Header \in Nat \ {0} /\ Align \in Nat \ {0} /\ Page \in Nat \ {0}
    /\ InitPages \in Nat /\ MaxPages \in Nat /\ InitPages <= MaxPages
    /\ Header < InitPages * Page
    /\ Sizes \subseteq Nat

Top   == MaxPages * Page
Addrs == 0..Top
NULL  == -1

VARIABLES
    brk,                \* VMM::kernel_dynamic_break
    blocks,             \* where the headers on the list are
    size, free, next,   \* heap_block::size, free, next
    held,               \* what kmalloc returned and nobody passed to kfree yet
    want,               \* the size the caller asked for
    op,                 \* the call that holds heap_lock
    curr, last,         \* kmalloc's current and last, kfree's curr
    req, asked          \* kmalloc's size, rounded and as passed

vars == <<brk, blocks, size, free, next, held, want, op, curr, last, req, asked>>
list == <<blocks, size, free, next>>

TypeOK ==
    /\ brk \in Addrs
    /\ blocks \in SUBSET Addrs
    /\ size \in [Addrs -> Nat]
    /\ free \in [Addrs -> BOOLEAN]
    /\ next \in [Addrs -> Addrs \cup {NULL}]
    /\ held \in SUBSET Addrs
    /\ want \in [Addrs -> Nat]
    /\ op \in {"none", "kmalloc", "kfree"}
    /\ curr \in Addrs \cup {NULL} /\ last \in Addrs \cup {NULL}
    /\ req \in Nat /\ asked \in Nat

heap_start == 0

\* kernel_main maps the initial heap and kheap_init makes it one free block.
Init ==
    /\ brk = InitPages * Page
    /\ blocks = {heap_start}
    /\ size = [a \in Addrs |-> IF a = heap_start THEN InitPages * Page - Header ELSE 0]
    /\ free = [a \in Addrs |-> a = heap_start]
    /\ next = [a \in Addrs |-> NULL]
    /\ held = {} /\ want = [a \in Addrs |-> 0]
    /\ op = "none" /\ curr = NULL /\ last = NULL /\ req = 0 /\ asked = 0

End(a) == a + Header + size[a]

RoundUp(n, unit) == ((n + unit - 1) \div unit) * unit

\* The call returns and drops heap_lock.
Return ==
    op' = "none" /\ curr' = NULL /\ last' = NULL /\ req' = 0 /\ asked' = 0

-----------------------------------------------------------------------------
Kmalloc(n) ==
    /\ op = "none"
    /\ op' = "kmalloc" /\ curr' = heap_start /\ last' = NULL
    /\ req' = RoundUp(n, Align) /\ asked' = n
    /\ UNCHANGED <<brk, list, held, want>>

Fits(a) == free[a] /\ size[a] >= req

SearchOn ==
    /\ op = "kmalloc" /\ curr # NULL /\ ~Fits(curr)
    /\ last' = curr /\ curr' = next[curr]
    /\ UNCHANGED <<brk, list, held, want, op, req, asked>>

\* A block that leaves room for a header and more than Align is split.
Split_KeepsSize(a) ==
    LET rest == a + Header + req IN
    /\ blocks' = blocks \cup {rest}
    /\ size' = [size EXCEPT ![rest] = size[a] - req, ![a] = req]
    /\ free' = [free EXCEPT ![rest] = TRUE, ![a] = FALSE]
    /\ next' = [next EXCEPT ![rest] = next[a], ![a] = rest]

Split(a) ==
    LET rest == a + Header + req IN
    /\ blocks' = blocks \cup {rest}
    /\ size' = [size EXCEPT ![rest] = size[a] - req - Header, ![a] = req]
    /\ free' = [free EXCEPT ![rest] = TRUE, ![a] = FALSE]
    /\ next' = [next EXCEPT ![rest] = next[a], ![a] = rest]

TakeBlock ==
    /\ op = "kmalloc" /\ curr # NULL /\ Fits(curr)
    /\ \/ size[curr] > req + Header + Align /\ Split(curr)
       \/ /\ size[curr] <= req + Header + Align
          /\ free' = [free EXCEPT ![curr] = FALSE]
          /\ UNCHANGED <<blocks, size, next>>
    /\ held' = held \cup {curr} /\ want' = [want EXCEPT ![curr] = asked]
    /\ Return
    /\ UNCHANGED brk

\* Nothing fits.  VMM::sbrk maps whole pages at the break, and the new region
\* becomes the last block.
Grow ==
    LET region == brk
        bytes  == RoundUp(req + Header, Page)
    IN  /\ op = "kmalloc" /\ curr = NULL
        /\ brk + bytes <= Top
        /\ brk' = brk + bytes
        /\ blocks' = blocks \cup {region}
        /\ size' = [size EXCEPT ![region] = bytes - Header]
        /\ free' = [free EXCEPT ![region] = FALSE]
        /\ next' = [next EXCEPT ![region] = NULL, ![last] = region]
        /\ held' = held \cup {region} /\ want' = [want EXCEPT ![region] = asked]
        /\ Return

\* A frame is missing: sbrk has moved the break over the pages it had mapped
\* until then, and kmalloc returns NULL.
GrowFails ==
    LET pages == RoundUp(req + Header, Page) \div Page IN
    /\ op = "kmalloc" /\ curr = NULL
    /\ \E mapped \in 0..(pages - 1) :
          /\ brk + mapped * Page <= Top
          /\ brk' = brk + mapped * Page
    /\ Return
    /\ UNCHANGED <<list, held, want>>

-----------------------------------------------------------------------------
\* Block a swallows the block that follows it.
Absorb_NoHeader(a) ==
    LET b == next[a] IN
    /\ blocks' = blocks \ {b}
    /\ size' = [size EXCEPT ![a] = size[a] + size[b], ![b] = 0]
    /\ next' = [next EXCEPT ![a] = next[b], ![b] = NULL]

Absorb(a) ==
    LET b == next[a] IN
    /\ blocks' = blocks \ {b}
    /\ size' = [size EXCEPT ![a] = size[a] + Header + size[b], ![b] = 0]
    /\ next' = [next EXCEPT ![a] = next[b], ![b] = NULL]

Kfree_FromBlock(a) ==
    /\ op = "none" /\ a \in held
    /\ IF next[a] # NULL /\ free[next[a]]
       THEN /\ Absorb(a)
            /\ free' = [free EXCEPT ![next[a]] = FALSE, ![a] = TRUE]
       ELSE /\ free' = [free EXCEPT ![a] = TRUE]
            /\ UNCHANGED <<blocks, size, next>>
    /\ held' = held \ {a} /\ want' = [want EXCEPT ![a] = 0]
    /\ op' = "kfree" /\ curr' = a
    /\ UNCHANGED <<brk, last, req, asked>>

Kfree(a) ==
    /\ op = "none" /\ a \in held
    /\ IF next[a] # NULL /\ free[next[a]]
       THEN /\ Absorb(a)
            /\ free' = [free EXCEPT ![next[a]] = FALSE, ![a] = TRUE]
       ELSE /\ free' = [free EXCEPT ![a] = TRUE]
            /\ UNCHANGED <<blocks, size, next>>
    /\ held' = held \ {a} /\ want' = [want EXCEPT ![a] = 0]
    /\ op' = "kfree" /\ curr' = heap_start
    /\ UNCHANGED <<brk, last, req, asked>>

Mergeable(a) == free[a] /\ free[next[a]]

Merge ==
    /\ op = "kfree" /\ next[curr] # NULL /\ Mergeable(curr)
    /\ Absorb(curr)
    /\ free' = [free EXCEPT ![next[curr]] = FALSE]
    /\ UNCHANGED <<brk, held, want, op, curr, last, req, asked>>

MergeOn_Stays ==
    /\ op = "kfree" /\ next[curr] # NULL /\ ~Mergeable(curr)
    /\ curr' = curr
    /\ UNCHANGED <<brk, list, held, want, op, last, req, asked>>

MergeOn ==
    /\ op = "kfree" /\ next[curr] # NULL /\ ~Mergeable(curr)
    /\ curr' = next[curr]
    /\ UNCHANGED <<brk, list, held, want, op, last, req, asked>>

MergeDone ==
    /\ op = "kfree" /\ next[curr] = NULL
    /\ Return
    /\ UNCHANGED <<brk, list, held, want>>

-----------------------------------------------------------------------------
InCall == SearchOn \/ TakeBlock \/ Grow \/ GrowFails \/ Merge \/ MergeOn \/ MergeDone

Next == (\E n \in Sizes : Kmalloc(n)) \/ (\E a \in held : Kfree(a)) \/ InCall

Spec == Init /\ [][Next]_vars

\* A call runs to its end: its loops contain no wait and interrupts are off.
FairSpec == Spec /\ WF_vars(InCall)

-----------------------------------------------------------------------------
\* What kmalloc returned belongs to its caller alone until it is passed to
\* kfree: the bytes asked for lie below the break, no header is inside them,
\* and no other caller's memory overlaps them (kmalloc's split at heap.cpp:60
\* and kfree's two merges at heap.cpp:110 and heap.cpp:118).
MemoryIsExclusive ==
    \A a \in held :
        /\ a + Header + want[a] <= brk
        /\ \A b \in blocks \cup held : b > a => a + Header + want[a] <= b

\* The list and its callers agree: a block is handed out exactly when it is
\* marked not free, so no block is lost and none is handed out twice.
HeldBlocksAreBusy == held = {a \in blocks : ~free[a]}

\* kfree's second loop leaves no two free neighbours behind, and kmalloc's
\* split does not create any, so a request fails only if no contiguous run of
\* free blocks is large enough.
FreeBlocksAreMerged ==
    op = "none" => \A a \in blocks : next[a] # NULL => ~(free[a] /\ free[next[a]])

\* Splitting and merging lose nothing: what lies between two neighbours, or
\* behind the last block, are only whole pages, those of an sbrk that failed
\* halfway (vmm.cpp:70).
BlocksTileTheHeap ==
    \A a \in blocks :
        LET gap == (IF next[a] = NULL THEN brk ELSE next[a]) - End(a)
        IN  gap >= 0 /\ gap % Page = 0

\* kmalloc and kfree return: the list they walk has no cycle.
CallsReturn == (op # "none") ~> (op = "none")
=============================================================================
