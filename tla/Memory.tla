------------------------------- MODULE Memory -------------------------------
(***************************************************************************)
(* Physical frames and the one address space of keonOS: the frame bitmap   *)
(* and the page tables of paging.cpp, and everything that takes frames     *)
(* from them - VMM::sbrk for the kernel heap, thread_create_user for the   *)
(* stack of a process, kex_load for its image, sys_sbrk for its heap and   *)
(* the shell's testpaging - up to cleanup_zombies, which gives a process's *)
(* pages back.                                                             *)
(*                                                                         *)
(* A virtual page is a number.  The pages 0..TotalFrames-1 are the ones    *)
(* paging_init maps to the frames of the same number; programs are linked  *)
(* to run inside that range.  cpu names a loop that runs with interrupts   *)
(* disabled and that nothing else interrupts; sh is where the shell, which *)
(* runs with interrupts enabled, stands in kex_load or testpaging.         *)
(***************************************************************************)
EXTENDS Integers, FiniteSets

CONSTANTS
    TotalFrames,    \* total_frames
    Reserved,       \* frames in use when the shell starts: boot memory, kernel,
                    \* bitmap, modules, boot page tables, initial kernel heap
    ImageBase,      \* the page user programs are linked at (user/kex.ld)
    StackPages,     \* pages of a user stack
    TableLevels,    \* page-table levels get_pte has to create in a fresh region
    MaxSegment,     \* bound: pages of a PT_LOAD segment
    MaxHeap,        \* bound: pages of a process's heap
    MaxKernel       \* bound: pages VMM::sbrk hands out after boot

Frames == 0..(TotalFrames - 1)
NULL   == -1

\* The fixed places of the address space.
StackBase  == TotalFrames
HeapBase   == StackBase + StackPages
KernelBase == HeapBase + MaxHeap
TestPage   == KernelBase + MaxKernel
Pages      == 0..TestPage

ASSUME Layout ==
    /\ TotalFrames \in Nat \ {0} /\ Reserved \subseteq Frames
    /\ StackPages \in Nat \ {0} /\ TableLevels \in Nat /\ MaxSegment \in Nat \ {0}
    /\ MaxHeap \in Nat /\ MaxKernel \in Nat
    /\ ImageBase \in Nat /\ ImageBase + 2 * MaxSegment <= TotalFrames

VARIABLES
    used,       \* frame_bitmap: the frames whose bit is set
    pt,         \* the frame each page is mapped to, NULL if not present
    user,       \* the pages mapped with PTE_USER
    tables,     \* page-table frames get_pte has created, per region
    brk,        \* pages VMM::sbrk has moved kernel_dynamic_break by
    cpu,        \* the uninterruptible loop in progress
    at, to,     \* its page and where it ends
    sh, frame,  \* where the shell is, and its local phys or frame
    lp, cut, end,   \* kex_load: next page, end of the first and of the last segment
    proc, heap, \* the process, and its user_heap_break in pages from HeapBase
    zombies,    \* what cleanup_zombies knows of processes that have ended
    failed      \* history: whether kex_load ever found no frame for a page

vars == <<used, pt, user, tables, brk, cpu, at, to, sh, frame, lp, cut, end,
          proc, heap, zombies, failed>>
memory == <<used, pt, user, tables>>
shell  == <<sh, frame, lp, cut, end>>

\* Regions whose page tables do not exist yet when the shell starts.
Regions == {"stack", "heap", "test"}
Region(v) == CASE v < HeapBase /\ v >= StackBase  -> "stack"
               [] v < KernelBase /\ v >= HeapBase -> "heap"
               [] v = TestPage                    -> "test"
               [] OTHER                           -> "boot"

Ends == [first : Nat, last : Nat, heap : Nat]

TypeOK ==
    /\ used \in SUBSET Frames
    /\ pt \in [Pages -> Frames \cup {NULL}]
    /\ user \in SUBSET Pages
    /\ tables \in [Regions -> SUBSET Frames]
    /\ brk \in 0..MaxKernel
    /\ cpu \in {"free", "create", "sys_sbrk", "sbrk"}
    /\ at \in Nat /\ to \in Nat
    /\ sh \in {"idle", "alloc", "map", "test_map", "test_unmap", "test_free"}
    /\ frame \in Frames \cup {NULL}
    /\ lp \in Nat /\ cut \in Nat /\ end \in Nat
    /\ proc \in {"none", "loading", "live"} /\ heap \in 0..MaxHeap
    /\ zombies \in SUBSET Ends
    /\ failed \in BOOLEAN

\* pfa_init_from_multiboot2, paging_init and the rest of the boot.
Init ==
    /\ used = Reserved
    /\ pt = [v \in Pages |-> IF v \in Frames THEN v ELSE NULL]
    /\ user = {}
    /\ tables = [r \in Regions |-> {}]
    /\ brk = 0
    /\ cpu = "free" /\ at = 0 /\ to = 0
    /\ sh = "idle" /\ frame = NULL /\ lp = 0 /\ cut = 0 /\ end = 0
    /\ proc = "none" /\ heap = 0
    /\ zombies = {}
    /\ failed = FALSE

-----------------------------------------------------------------------------
\* paging.cpp.

Free == Frames \ used

\* The n frames that n calls of pfa_alloc_frame return: it takes the lowest
\* clear bit.
Lowest(n) == {f \in Free : Cardinality({g \in Free : g < f}) < n}

\* get_pte(create): the tables on the way to v that can be had, and whether
\* they are all there.
NewTables(v, avoid) ==
    IF Region(v) = "boot" THEN {}
    ELSE Lowest(TableLevels - Cardinality(tables[Region(v)]) + Cardinality(avoid)) \ avoid

HasTables(v, new) ==
    Region(v) = "boot" \/ Cardinality(tables[Region(v)] \cup new) >= TableLevels

\* paging_map_page(v, f): without the tables it does nothing and says nothing.
\* flags is "user" with PTE_USER; avoid is a frame allocated in the same step.
MapPage(v, f, flags, avoid) ==
    LET new == NewTables(v, avoid) IN
    /\ used' = used \cup avoid \cup new
    /\ tables' = [r \in Regions |-> IF r = Region(v) THEN tables[r] \cup new ELSE tables[r]]
    /\ IF HasTables(v, new)
       THEN /\ pt' = [pt EXCEPT ![v] = f]
            /\ user' = IF flags = "user" THEN user \cup {v} ELSE user \ {v}
       ELSE UNCHANGED <<pt, user>>

\* pfa_alloc_frame, then paging_map_page with the frame it returned.
AllocAndMap(v, flags) ==
    \E f \in Lowest(1) : MapPage(v, f, flags, {f})

\* pfa_free_frame and paging_unmap_page for every page of vs that is present.
FreeAndUnmap_KeepsMapping(vs) ==
    /\ used' = used \ {pt[v] : v \in vs}
    /\ UNCHANGED <<pt, user, tables>>
FreeAndUnmap_KeepsFrames(vs) ==
    /\ pt' = [v \in Pages |-> IF v \in vs THEN NULL ELSE pt[v]]
    /\ user' = user \ vs
    /\ UNCHANGED <<used, tables>>
FreeAndUnmap(vs) ==
    /\ used' = used \ {pt[v] : v \in vs}
    /\ pt' = [v \in Pages |-> IF v \in vs THEN NULL ELSE pt[v]]
    /\ user' = user \ vs
    /\ UNCHANGED tables

-----------------------------------------------------------------------------
\* VMM::sbrk, called by kmalloc whenever the CPU runs kernel code.

Sbrk(n) ==
    /\ cpu = "free" /\ brk + n <= MaxKernel
    /\ cpu' = "sbrk" /\ at' = brk /\ to' = brk + n
    /\ UNCHANGED <<memory, shell, brk, proc, heap, zombies, failed>>

SbrkPage_BreakFirst ==
    /\ cpu = "sbrk" /\ at < to
    /\ brk' = brk + 1
    /\ \/ AllocAndMap(KernelBase + at, "kernel") /\ at' = at + 1 /\ UNCHANGED <<cpu, to>>
       \/ /\ Free = {} /\ cpu' = "free" /\ at' = 0 /\ to' = 0
          /\ UNCHANGED memory
    /\ UNCHANGED <<shell, proc, heap, zombies, failed>>

SbrkPage ==
    /\ cpu = "sbrk" /\ at < to
    /\ \/ /\ AllocAndMap(KernelBase + at, "kernel")
          /\ brk' = brk + 1 /\ at' = at + 1 /\ UNCHANGED <<cpu, to>>
       \/ /\ Free = {}
          /\ cpu' = "free" /\ at' = 0 /\ to' = 0
          /\ UNCHANGED <<memory, brk>>
    /\ UNCHANGED <<shell, proc, heap, zombies, failed>>

SbrkDone ==
    /\ cpu = "sbrk" /\ at = to
    /\ cpu' = "free" /\ at' = 0 /\ to' = 0
    /\ UNCHANGED <<memory, shell, brk, proc, heap, zombies, failed>>

-----------------------------------------------------------------------------
\* kex_load and thread_create_user, called by the shell.

\* A program with a text and a data segment; thread_add runs under cli.
KexLoad ==
    /\ cpu = "free" /\ sh = "idle" /\ proc = "none"
    /\ \E text \in 1..MaxSegment, data \in 0..MaxSegment :
          /\ cut' = ImageBase + text
          /\ end' = ImageBase + text + data
    /\ lp' = ImageBase
    /\ cpu' = "create" /\ at' = 0 /\ to' = StackPages
    /\ UNCHANGED <<memory, brk, sh, frame, proc, heap, zombies, failed>>

\* thread_create_user: a stack page, or the early return that leaves the pages
\* mapped before it where they are.
CreateStackPage ==
    /\ cpu = "create" /\ at < to
    /\ \/ /\ AllocAndMap(StackBase + at, "user")
          /\ at' = at + 1
          /\ UNCHANGED <<cpu, to, lp, cut, end>>
       \/ /\ Free = {}
          /\ cpu' = "free" /\ at' = 0 /\ to' = 0
          /\ lp' = 0 /\ cut' = 0 /\ end' = 0
          /\ UNCHANGED memory
    /\ UNCHANGED <<brk, sh, frame, proc, heap, zombies, failed>>

Created ==
    /\ cpu = "create" /\ at = to
    /\ cpu' = "free" /\ at' = 0 /\ to' = 0
    /\ sh' = "alloc" /\ proc' = "loading" /\ heap' = 0
    /\ UNCHANGED <<memory, brk, frame, lp, cut, end, zombies, failed>>

\* The loop over the pages of the segments: interrupts are enabled.
LoadAlloc ==
    /\ cpu = "free" /\ sh = "alloc" /\ lp < end
    /\ \E f \in Lowest(1) : frame' = f /\ used' = used \cup {f}
    /\ sh' = "map"
    /\ UNCHANGED <<pt, user, tables, brk, cpu, at, to, lp, cut, end, proc, heap, zombies, failed>>

LoadMap ==
    /\ cpu = "free" /\ sh = "map"
    /\ MapPage(lp, frame, "user", {})
    /\ sh' = "alloc" /\ frame' = NULL /\ lp' = lp + 1
    /\ UNCHANGED <<brk, cpu, at, to, cut, end, proc, heap, zombies, failed>>

\* No frame: the image is taken to reach from the first page to the end of the
\* segment being loaded, and the thread is killed.
LoadFails ==
    /\ cpu = "free" /\ sh = "alloc" /\ lp < end /\ Free = {}
    /\ failed' = TRUE
    /\ zombies' = zombies \cup
          {[first |-> ImageBase, last |-> IF lp < cut THEN cut ELSE end, heap |-> 0]}
    /\ proc' = "none"
    /\ sh' = "idle" /\ lp' = 0 /\ cut' = 0 /\ end' = 0
    /\ UNCHANGED <<memory, brk, cpu, at, to, frame, heap>>

LoadDone ==
    /\ cpu = "free" /\ sh = "alloc" /\ lp = end
    /\ proc' = "live"
    /\ sh' = "idle" /\ lp' = 0
    /\ UNCHANGED <<memory, brk, cpu, at, to, frame, cut, end, heap, zombies, failed>>

\* cmd_testpaging, with interrupts enabled.
TestAlloc ==
    /\ cpu = "free" /\ sh = "idle" /\ proc = "none"
    /\ \E f \in Lowest(1) : frame' = f /\ used' = used \cup {f}
    /\ sh' = "test_map"
    /\ UNCHANGED <<pt, user, tables, brk, cpu, at, to, lp, cut, end, proc, heap, zombies, failed>>

TestMap ==
    /\ cpu = "free" /\ sh = "test_map"
    /\ MapPage(TestPage, frame, "kernel", {})
    /\ sh' = "test_unmap"
    /\ UNCHANGED <<brk, cpu, at, to, frame, lp, cut, end, proc, heap, zombies, failed>>

TestUnmap ==
    /\ cpu = "free" /\ sh = "test_unmap"
    /\ pt' = [pt EXCEPT ![TestPage] = NULL]
    /\ sh' = "test_free"
    /\ UNCHANGED <<used, user, tables, brk, cpu, at, to, frame, lp, cut, end, proc,
                   heap, zombies, failed>>

TestFree ==
    /\ cpu = "free" /\ sh = "test_free"
    /\ used' = used \ {frame}
    /\ sh' = "idle" /\ frame' = NULL
    /\ UNCHANGED <<pt, user, tables, brk, cpu, at, to, lp, cut, end, proc, heap, zombies, failed>>

-----------------------------------------------------------------------------
\* The process.

\* sys_sbrk(increment), in pages; a negative one lowers the break.
SysSbrk(n) ==
    /\ cpu = "free" /\ proc = "live" /\ heap + n \in 0..MaxHeap /\ n # 0
    /\ cpu' = "sys_sbrk" /\ at' = heap /\ to' = heap + n
    /\ UNCHANGED <<memory, shell, brk, proc, heap, zombies, failed>>

\* A page that is not accessible to the user gets a frame, unless it has one.
SysSbrkPage ==
    /\ cpu = "sys_sbrk" /\ at < to
    /\ LET v == HeapBase + at IN
       \/ /\ v \in user
          /\ at' = at + 1
          /\ UNCHANGED <<memory, cpu, to>>
       \/ /\ v \notin user
          /\ IF pt[v] # NULL THEN MapPage(v, pt[v], "user", {}) ELSE AllocAndMap(v, "user")
          /\ at' = at + 1
          /\ UNCHANGED <<cpu, to>>
       \/ /\ v \notin user /\ pt[v] = NULL /\ Free = {}
          /\ cpu' = "free" /\ at' = 0 /\ to' = 0
          /\ UNCHANGED memory
    /\ UNCHANGED <<shell, brk, proc, heap, zombies, failed>>

SysSbrkDone ==
    /\ cpu = "sys_sbrk" /\ at >= to
    /\ heap' = to
    /\ cpu' = "free" /\ at' = 0 /\ to' = 0
    /\ UNCHANGED <<memory, shell, brk, proc, zombies, failed>>

\* sys_exit, or thread_kill by the shell's pkill: the thread is a zombie, and
\* the shell's wait ends.
Exit ==
    /\ cpu = "free" /\ proc = "live"
    /\ zombies' = zombies \cup {[first |-> ImageBase, last |-> end, heap |-> heap]}
    /\ proc' = "none" /\ heap' = 0 /\ cut' = 0 /\ end' = 0
    /\ UNCHANGED <<memory, brk, cpu, at, to, sh, frame, lp, failed>>

\* cleanup_zombies: the stack, the image and the heap of every zombie, by
\* address.
PagesOf(z) ==
    (StackBase..(StackBase + StackPages - 1)) \cup (z.first..(z.last - 1))
        \cup (HeapBase..(HeapBase + z.heap - 1))

CleanupZombies ==
    /\ cpu = "free" /\ zombies # {}
    /\ FreeAndUnmap({v \in UNION {PagesOf(z) : z \in zombies} : pt[v] # NULL})
    /\ zombies' = {}
    /\ UNCHANGED <<brk, cpu, at, to, shell, proc, heap, failed>>

-----------------------------------------------------------------------------
Next ==
    \/ \E n \in 1..MaxKernel : Sbrk(n)
    \/ SbrkPage \/ SbrkDone
    \/ KexLoad \/ CreateStackPage \/ Created
    \/ LoadAlloc \/ LoadMap \/ LoadFails \/ LoadDone
    \/ TestAlloc \/ TestMap \/ TestUnmap \/ TestFree
    \/ \E n \in (-MaxHeap)..MaxHeap : SysSbrk(n)
    \/ SysSbrkPage \/ SysSbrkDone
    \/ Exit \/ CleanupZombies

Spec == Init /\ [][Next]_vars

-----------------------------------------------------------------------------
\* The pages that hold a frame of their own: all but the boot's identity map.
Own == {v \in Pages : pt[v] # NULL /\ (v \in user \/ v \notin Frames)}

Mapped == {pt[v] : v \in Own}
Tables == UNION {tables[r] : r \in Regions}
\* Frames the shell has allocated and not mapped yet, or unmapped and not freed.
InFlight == IF sh \in {"map", "test_map", "test_free"} \/
               (sh = "test_unmap" /\ pt[TestPage] # frame)
            THEN {frame} ELSE {}

\* Every frame has one use: it backs one page, or is a page table, or belongs
\* to the boot, or is on its way; and while it has one its bit in frame_bitmap
\* is set, so pfa_alloc_frame (paging.cpp:79) will not give it away again.
FramesHaveOneOwner ==
    /\ \A v, w \in Own : pt[v] = pt[w] => v = w
    /\ Mapped \cap (Tables \cup Reserved \cup InFlight) = {}
    /\ Tables \cap (Reserved \cup InFlight) = {} /\ Reserved \cap InFlight = {}
    /\ \A r, s \in Regions : r # s => tables[r] \cap tables[s] = {}
    /\ Mapped \cup Tables \cup Reserved \cup InFlight \subseteq used

\* That holds through every interleaving of loading, sbrk, testpaging and
\* cleanup_zombies, and through every failure but one: a kex_load that finds
\* no frame for an image page (kex_loader.cpp:165).
OneOwnerUnlessLoadFailed == ~failed => FramesHaveOneOwner

\* Frames whose bit is set although nobody has a use for them.
Lost == used \ (Mapped \cup Tables \cup Reserved \cup InFlight)

\* Frames get lost in two ways only: an early return or a silent failure when
\* the last frame is gone (thread.cpp:303 and paging.cpp:205 free nothing), and
\* a program that is mapped over pages of an earlier one which have not been
\* cleaned up (kex_loader.cpp:164).  Every other path gives back what it took.
FramesAreLostTwoWays ==
    [][~failed' /\ ~(Lost' \subseteq Lost) =>
           \/ used' = Frames
           \/ \E v \in user : pt[v] # NULL /\ pt'[v] \notin {pt[v], NULL}]_vars

\* The kernel heap never loses a page: what lies below kernel_dynamic_break is
\* mapped, also after an sbrk that failed halfway (vmm.cpp:70), and no cleanup
\* of a process reaches it.
KernelHeapStaysMapped == \A i \in 0..(brk - 1) : pt[KernelBase + i] # NULL

\* thread.cpp:122-123 on freeing a process's heap: "This covers both sbrk growth
\* and huge ELFs overlaps": once no process is left, none of its heap is.
HeapIsFreedWithProcess ==
    proc = "none" /\ zombies = {} /\ cpu = "free" =>
        \A v \in HeapBase..(KernelBase - 1) : pt[v] = NULL

\* sys_mem.cpp:38: "we need to ensure all pages from old_break to new_break are
\* USER accessible", so below its break the process can access its heap.
HeapIsAccessible ==
    proc = "live" /\ cpu = "free" =>
        \A v \in HeapBase..(HeapBase + heap - 1) : v \in user

=============================================================================
