---------------------------- MODULE MemoryProofs ----------------------------
(***************************************************************************)
(* For every number of frames, stack, segment and heap pages and page-     *)
(* table levels: a frame has one use as long as no load has failed, the    *)
(* kernel heap below its break is mapped, and a frame loses its only use   *)
(* without being freed in two ways only.                                   *)
(*                                                                         *)
(* The inductive invariant says, beside the types, where the loops stand   *)
(* (Bounds), states the one-owner rule page by page (Single), and keeps    *)
(* what makes cleanup_zombies safe (Clean): the pages it will free as a    *)
(* process's image were mapped for that process, or are not present, and   *)
(* so are not the identity mapping of somebody else's frame.               *)
(*                                                                         *)
(* That no frame is lost otherwise takes, beside it, which pages are known *)
(* not to be present before a loop maps them (Unmapped), and that a        *)
(* paging_map_page that silently does nothing has taken the last free      *)
(* frame (NoTablesNoFrames): pfa_alloc_frame returns the lowest frames, so *)
(* it returns fewer than it was asked for only when it returns them all    *)
(* (LowestAreEnough).                                                      *)
(***************************************************************************)
EXTENDS Memory, FiniteSetTheorems, WellFoundedInduction, TLAPS

Testing == {"test_map", "test_unmap", "test_free"}
Loading == {"alloc", "map"}

Bounds ==
    /\ cpu = "sbrk" => at = brk /\ to <= MaxKernel
    /\ cpu = "create" => /\ to = StackPages /\ lp = ImageBase /\ ImageBase <= end
                         /\ sh = "idle" /\ proc = "none"
    /\ cpu = "sys_sbrk" => to <= MaxHeap
    /\ sh \in Loading => ImageBase <= lp /\ lp <= end /\ proc = "loading"
    /\ sh = "map" => lp < end
    /\ sh \in Testing \cup {"map"} => frame \in Frames
    /\ cut <= TotalFrames /\ end <= TotalFrames
    /\ \A z \in zombies : z.first = ImageBase /\ z.last <= TotalFrames /\ z.heap <= MaxHeap

\* The page v holds a frame of its own, and the shell holds the frame f.
Has(v)  == pt[v] # NULL /\ (v \in user \/ v \notin Frames)
Held(f) == /\ f = frame
           /\ sh \in {"map", "test_map", "test_free"} \/
              (sh = "test_unmap" /\ pt[TestPage] # frame)

Single ==
    /\ \A v, w \in Pages : Has(v) /\ Has(w) /\ pt[v] = pt[w] => v = w
    /\ \A v \in Pages : Has(v) =>
          /\ pt[v] \in used /\ pt[v] \notin Reserved /\ ~Held(pt[v])
          /\ \A r \in Regions : pt[v] \notin tables[r]
    /\ \A r \in Regions : \A f \in tables[r] :
          /\ f \in used /\ f \notin Reserved /\ ~Held(f)
          /\ \A s \in Regions : r # s => f \notin tables[s]
    /\ \A f \in Reserved : f \in used /\ ~Held(f)
    /\ \A f \in Frames : Held(f) => f \in used

\* v is not, or no longer, the boot's identity mapping.
Taken(v) == v \in user \/ pt[v] = NULL

Clean ==
    /\ \A z \in zombies : \A v \in ImageBase..(z.last - 1) : Taken(v)
    /\ sh \in Loading => \A v \in ImageBase..(lp - 1) : Taken(v)
    /\ proc = "live" => \A v \in ImageBase..(end - 1) : Taken(v)

IInv ==
    /\ TypeOK
    /\ Bounds
    /\ KernelHeapStaysMapped
    /\ ~failed => Single /\ Clean

-----------------------------------------------------------------------------
\* Where the pages lie.
LEMMA Places ==
    /\ TotalFrames \in Nat /\ StackPages \in Nat /\ MaxHeap \in Nat /\ MaxKernel \in Nat
    /\ MaxSegment \in Nat /\ ImageBase \in Nat /\ ImageBase + 2 * MaxSegment <= TotalFrames
    /\ TestPage \in Pages /\ TestPage \notin Frames /\ Region(TestPage) = "test"
    /\ \A i \in Nat : i < StackPages =>
          StackBase + i \in Pages \ (Frames \cup {TestPage})
    /\ \A i \in Nat : i < MaxHeap =>
          HeapBase + i \in Pages \ (Frames \cup {TestPage})
    /\ \A i \in Nat : i < MaxKernel =>
          /\ KernelBase + i \in Pages \ (Frames \cup {TestPage})
          /\ Region(KernelBase + i) = "boot"
    /\ \A v \in Frames : v \in Pages \ {TestPage} /\ Region(v) = "boot"
    /\ NULL \notin Frames
  BY Layout DEF Frames, NULL, StackBase, HeapBase, KernelBase, TestPage, Pages, Region

\* The frames pfa_alloc_frame (paging.cpp:79) returns were free.
LEMMA LowestIsFree == \A n : Lowest(n) \subseteq Free
  BY DEF Lowest

\* The effect of mapping v to f when the tables in new had to be made.
Maps(v, f, flags, avoid, new) ==
    /\ used' = used \cup avoid \cup new
    /\ tables' = [r \in Regions |-> IF r = Region(v) THEN tables[r] \cup new ELSE tables[r]]
    /\ \/ /\ pt' = [pt EXCEPT ![v] = f]
          /\ user' = IF flags = "user" THEN user \cup {v} ELSE user \ {v}
       \/ Region(v) # "boot" /\ pt' = pt /\ user' = user
    /\ Region(v) = "boot" => new = {}

\* What paging_map_page (paging.cpp:226) does: it takes free frames for tables,
\* and the page is mapped or, for want of a table, nothing else happens; where
\* the boot has made the tables the page is mapped.
LEMMA MapEffect ==
    ASSUME NEW v, NEW f, NEW flags, NEW avoid, MapPage(v, f, flags, avoid)
    PROVE  \E new \in SUBSET (Free \ avoid) : Maps(v, f, flags, avoid, new)
<1>1. NewTables(v, avoid) \in SUBSET (Free \ avoid)
  BY LowestIsFree DEF NewTables
<1>2. Region(v) = "boot" => NewTables(v, avoid) = {} /\ HasTables(v, NewTables(v, avoid))
  BY DEF NewTables, HasTables
<1>3. WITNESS NewTables(v, avoid) \in SUBSET (Free \ avoid)
<1> QED
  BY <1>2 DEF MapPage, Maps

\* What every mapping keeps: the types, the pages that are present and the
\* pages that are taken.
LEMMA MapKeeps ==
    ASSUME TypeOK, NEW v \in Pages, NEW f \in Frames, NEW flags,
           NEW avoid \in SUBSET Frames, MapPage(v, f, flags, avoid),
           flags = "user" \/ v \notin Frames
    PROVE  /\ used' \in SUBSET Frames /\ pt' \in [Pages -> Frames \cup {NULL}]
           /\ user' \in SUBSET Pages /\ tables' \in [Regions -> SUBSET Frames]
           /\ \A w \in Pages : pt[w] # NULL => pt'[w] # NULL
           /\ \A w \in Frames : Taken(w) => Taken(w)'
           /\ Region(v) = "boot" => pt'[v] # NULL
           /\ Region(v) = "boot" /\ flags = "user" => Taken(v)'
<1>1. PICK new \in SUBSET (Free \ avoid) : Maps(v, f, flags, avoid, new)
  BY MapEffect
<1>2. new \in SUBSET Frames
  BY DEF Free
<1>3. used' \in SUBSET Frames /\ tables' \in [Regions -> SUBSET Frames]
  BY <1>1, <1>2 DEF TypeOK, Maps
<1>4. f # NULL
  BY Places
<1>5. CASE /\ pt' = [pt EXCEPT ![v] = f]
           /\ user' = IF flags = "user" THEN user \cup {v} ELSE user \ {v}
  <2>1. \A w \in Pages : pt'[w] = IF w = v THEN f ELSE pt[w]
    BY <1>5 DEF TypeOK
  <2>2. \A w \in Frames : w \in Pages
    BY Places
  <2>3. \A w \in Frames : w \in user => w \in user'
    BY <1>5
  <2>4. \A w \in Frames : Taken(w) => Taken(w)'
    BY <2>1, <2>2, <2>3, <1>5 DEF Taken
  <2>5. pt' \in [Pages -> Frames \cup {NULL}] /\ user' \in SUBSET Pages
    BY <1>5 DEF TypeOK
  <2> QED
    BY <1>3, <1>4, <1>5, <2>1, <2>4, <2>5 DEF Taken
<1>6. CASE Region(v) # "boot" /\ pt' = pt /\ user' = user
  BY <1>3, <1>6 DEF TypeOK, Taken
<1> QED
  BY <1>1, <1>5, <1>6 DEF Maps

\* pfa_alloc_frame followed by paging_map_page gives the page a frame that
\* nothing else has.
LEMMA FreshFrame ==
    ASSUME TypeOK, Single, NEW v \in Pages, v \notin Frames, v # TestPage,
           NEW flags, NEW f \in Free, MapPage(v, f, flags, {f}),
           UNCHANGED <<sh, frame>>
    PROVE  Single'
<1>1. PICK new \in SUBSET (Free \ {f}) : Maps(v, f, flags, {f}, new)
  BY MapEffect
<1>2. /\ f \notin used /\ \A g \in new : g \notin used /\ g # f /\ g \in Frames
      /\ f \in Frames
  BY DEF Free
<1>3. \A w \in Pages : Has(w)' => \/ w = v /\ pt'[w] = f
                                  \/ Has(w) /\ pt'[w] = pt[w]
  BY <1>1 DEF Has, TypeOK, Maps
<1>5. \A g : Held(g)' <=> Held(g)
  BY <1>1, Places DEF Held, TypeOK, Maps
<1>6. \A g \in Frames : Held(g) => g \in used
  BY DEF Single
<1>7. \A r \in Regions : \A g \in tables'[r] : g \in tables[r] \/ (g \in new /\ r = Region(v))
  BY <1>1 DEF Maps
<1>8. ASSUME NEW w \in Pages, NEW x \in Pages, Has(w)', Has(x)', pt'[w] = pt'[x]
      PROVE  w = x
  BY <1>2, <1>3, <1>8 DEF Single
<1>9. ASSUME NEW w \in Pages, Has(w)'
      PROVE  /\ pt'[w] \in used' /\ pt'[w] \notin Reserved /\ ~Held(pt[w])'
             /\ \A r \in Regions : pt'[w] \notin tables'[r]
  <2>1. CASE pt'[w] = f
    BY <1>1, <1>2, <1>5, <1>6, <1>7, <2>1 DEF Single, Maps
  <2>2. CASE Has(w) /\ pt'[w] = pt[w]
    BY <1>1, <1>2, <1>5, <1>7, <2>2 DEF Single, Maps
  <2> QED
    BY <1>3, <1>9, <2>1, <2>2
<1>10. ASSUME NEW r \in Regions, NEW g \in tables'[r]
       PROVE  /\ g \in used' /\ g \notin Reserved /\ ~Held(g)'
              /\ \A s \in Regions : r # s => g \notin tables'[s]
  BY <1>1, <1>2, <1>5, <1>6, <1>7 DEF Single, Maps
<1>11. \A g \in Reserved : g \in used' /\ ~Held(g)'
  BY <1>1, <1>5 DEF Single, Maps
<1>12. \A g \in Frames : Held(g)' => g \in used'
  BY <1>1, <1>5, <1>6 DEF Maps
<1> QED
  BY <1>8, <1>9, <1>10, <1>11, <1>12 DEF Single

\* A page of the process's heap that has a frame is mapped again to the same
\* frame (sys_mem.cpp:46-50).
LEMMA SameFrame ==
    ASSUME TypeOK, Single, NEW v \in Pages, v \notin Frames, v # TestPage,
           pt[v] # NULL, MapPage(v, pt[v], "user", {}), UNCHANGED <<sh, frame>>
    PROVE  Single'
<1>0. PICK f \in Frames : f = pt[v]
  BY DEF TypeOK
<1>1. PICK new \in SUBSET (Free \ {}) : Maps(v, f, "user", {}, new)
  BY <1>0, MapEffect
<1>2. \A g \in new : g \notin used /\ g \in Frames
  BY DEF Free
<1>3. \A w \in Pages : Has(w)' => Has(w) /\ pt'[w] = pt[w]
  BY <1>0, <1>1 DEF Has, TypeOK, Maps
<1>4. \A g : Held(g)' <=> Held(g)
  BY <1>1, Places DEF Held, TypeOK, Maps
<1>5. \A g \in Frames : Held(g) => g \in used
  BY DEF Single
<1>6. \A r \in Regions : \A g \in tables'[r] : g \in tables[r] \/ (g \in new /\ r = Region(v))
  BY <1>1 DEF Maps
<1>7. ASSUME NEW w \in Pages, Has(w)'
      PROVE  /\ pt'[w] \in used' /\ pt'[w] \notin Reserved /\ ~Held(pt[w])'
             /\ \A r \in Regions : pt'[w] \notin tables'[r]
  BY <1>1, <1>2, <1>3, <1>4, <1>6, <1>7 DEF Single, Maps
<1>8. ASSUME NEW r \in Regions, NEW g \in tables'[r]
      PROVE  /\ g \in used' /\ g \notin Reserved /\ ~Held(g)'
             /\ \A s \in Regions : r # s => g \notin tables'[s]
  BY <1>1, <1>2, <1>4, <1>5, <1>6 DEF Single, Maps
<1>9. \A g \in Reserved : g \in used' /\ ~Held(g)'
  BY <1>1, <1>4 DEF Single, Maps
<1>10. \A g \in Frames : Held(g)' => g \in used'
  BY <1>1, <1>4, <1>5 DEF Maps
<1> QED
  BY <1>3, <1>7, <1>8, <1>9, <1>10 DEF Single

\* kex_load maps the frame it has just been given (kex_loader.cpp:177).
LEMMA LoadMapKeeps ==
    ASSUME TypeOK, Bounds, Single, LoadMap
    PROVE  Single'
<1>1. lp \in Frames /\ frame \in Frames /\ Region(lp) = "boot" /\ lp \in Pages
  BY Places DEF Bounds, TypeOK, LoadMap, Testing, Loading, Frames
<1>2. PICK new \in SUBSET (Free \ {}) : Maps(lp, frame, "user", {}, new)
  BY MapEffect DEF LoadMap
<1>3. /\ used' = used /\ pt' = [pt EXCEPT ![lp] = frame] /\ user' = user \cup {lp}
      /\ \A r \in Regions : tables'[r] = tables[r]
  BY <1>1, <1>2 DEF Maps, TypeOK
<1>4. \A g \in Frames : ~Held(g)' /\ (Held(g) <=> g = frame)
  BY DEF Held, LoadMap
<1>5. \A w \in Pages : Has(w)' => \/ w = lp /\ pt'[w] = frame
                                  \/ Has(w) /\ pt'[w] = pt[w]
  BY <1>1, <1>3 DEF Has, TypeOK
<1>6. \A w \in Pages : Has(w) => pt[w] \in Frames
  BY DEF Has, TypeOK
<1>7. \A w \in Pages : Has(w)' => pt'[w] \in Frames
  BY <1>1, <1>5, <1>6
<1>8. ASSUME NEW w \in Pages, NEW x \in Pages, Has(w)', Has(x)', pt'[w] = pt'[x]
      PROVE  w = x
  BY <1>1, <1>4, <1>5, <1>6, <1>8 DEF Single
<1>9. ASSUME NEW w \in Pages, Has(w)'
      PROVE  /\ pt'[w] \in used' /\ pt'[w] \notin Reserved /\ ~Held(pt[w])'
             /\ \A r \in Regions : pt'[w] \notin tables'[r]
  BY <1>1, <1>3, <1>4, <1>5, <1>7, <1>9 DEF Single
<1>10. ASSUME NEW r \in Regions, NEW g \in tables'[r]
       PROVE  /\ g \in used' /\ g \notin Reserved /\ ~Held(g)'
              /\ \A s \in Regions : r # s => g \notin tables'[s]
  BY <1>3, <1>4 DEF Single, TypeOK
<1>11. \A g \in Reserved : g \in used' /\ ~Held(g)'
  BY <1>3, <1>4, Layout DEF Single
<1> QED
  BY <1>4, <1>8, <1>9, <1>10, <1>11 DEF Single

\* testpaging maps its frame, or the page has no table and the shell keeps it.
LEMMA TestMapKeeps ==
    ASSUME TypeOK, Bounds, Single, TestMap
    PROVE  Single'
<1>1. frame \in Frames /\ TestPage \in Pages /\ TestPage \notin Frames
  BY Places DEF Bounds, TestMap, Testing
<1>2. PICK new \in SUBSET (Free \ {}) : Maps(TestPage, frame, "kernel", {}, new)
  BY MapEffect DEF TestMap
<1>3. \A g \in new : g \notin used /\ g \in Frames
  BY DEF Free
<1>4. Held(frame) /\ \A g \in Frames : Held(g)' => g = frame
  BY DEF Held, TestMap
<1>5. pt[TestPage] # frame
  BY <1>1, <1>4, Places DEF Single, Has
<1>6. \A w \in Pages : Has(w)' => \/ w = TestPage /\ pt'[w] = frame /\ ~Held(frame)'
                                  \/ Has(w) /\ pt'[w] = pt[w]
  BY <1>1, <1>2 DEF Has, Held, TypeOK, TestMap, Maps
<1>7. \A w \in Pages : Has(w) => pt[w] \in Frames /\ pt[w] # frame
  BY <1>4 DEF Has, TypeOK, Single
<1>8. \A r \in Regions : \A g \in tables'[r] :
         g \in Frames /\ (g \in tables[r] \/ (g \in new /\ r = "test"))
  BY <1>2, <1>3, Places DEF Maps, TypeOK
<1>9. ASSUME NEW w \in Pages, NEW x \in Pages, Has(w)', Has(x)', pt'[w] = pt'[x]
      PROVE  w = x
  BY <1>6, <1>7, <1>9 DEF Single
<1>10. ASSUME NEW w \in Pages, Has(w)'
       PROVE  /\ pt'[w] \in used' /\ pt'[w] \notin Reserved /\ ~Held(pt[w])'
              /\ \A r \in Regions : pt'[w] \notin tables'[r]
  <2>1. CASE w = TestPage /\ pt'[w] = frame /\ ~Held(frame)'
    <3>1. frame \in used /\ frame \in used' /\ frame \notin Reserved
      BY <1>1, <1>2, <1>4 DEF Single, Maps
    <3>2. \A r \in Regions : frame \notin tables'[r]
      BY <1>3, <1>4, <1>8, <3>1 DEF Single
    <3>3. frame' = frame
      BY DEF TestMap
    <3> QED
      BY <2>1, <3>1, <3>2, <3>3
  <2>2. CASE Has(w) /\ pt'[w] = pt[w]
    BY <1>2, <1>3, <1>4, <1>7, <1>8, <2>2 DEF Single, Maps
  <2> QED
    BY <1>6, <1>10, <2>1, <2>2
<1>11. ASSUME NEW r \in Regions, NEW g \in tables'[r]
       PROVE  /\ g \in used' /\ g \notin Reserved /\ ~Held(g)'
              /\ \A s \in Regions : r # s => g \notin tables'[s]
  BY <1>1, <1>2, <1>3, <1>4, <1>8 DEF Single, Maps
<1>12. \A g \in Reserved : g \in used' /\ ~Held(g)'
  BY <1>2, <1>4, Layout DEF Single, Maps
<1>13. \A g \in Frames : Held(g)' => g \in used'
  BY <1>1, <1>2, <1>4 DEF Single, Maps
<1> QED
  BY <1>9, <1>10, <1>11, <1>12, <1>13 DEF Single

\* A step that leaves the bitmap, the page tables and the shell's frame alone.
LEMMA SingleStays ==
    ASSUME Single, UNCHANGED memory, \A g : Held(g)' <=> Held(g)
    PROVE  Single'
<1>1. \A w \in Pages : Has(w)' <=> Has(w)
  BY DEF memory, Has
<1>2. used' = used /\ pt' = pt /\ tables' = tables
  BY DEF memory
<1> QED
  BY <1>1, <1>2 DEF Single

\* The shell gets a frame from pfa_alloc_frame and holds it.
LEMMA AllocKeeps ==
    ASSUME TypeOK, Single, sh \in {"idle", "alloc"}, sh' \in {"map", "test_map"},
           NEW f \in Free, frame' = f, used' = used \cup {f}, UNCHANGED <<pt, user, tables>>
    PROVE  Single'
<1>1. f \notin used /\ f \in Frames
  BY DEF Free
<1>2. \A g : ~Held(g) /\ (Held(g)' <=> g = f)
  BY DEF Held
<1>3. \A w \in Pages : (Has(w)' <=> Has(w)) /\ pt'[w] = pt[w]
  BY DEF Has
<1>4. \A r \in Regions : tables'[r] = tables[r]
  OBVIOUS
<1>5. ASSUME NEW w \in Pages, Has(w)'
      PROVE  /\ pt'[w] \in used' /\ pt'[w] \notin Reserved /\ ~Held(pt[w])'
             /\ \A r \in Regions : pt'[w] \notin tables'[r]
  BY <1>1, <1>2, <1>3, <1>4, <1>5 DEF Single
<1>6. ASSUME NEW r \in Regions, NEW g \in tables'[r]
      PROVE  /\ g \in used' /\ g \notin Reserved /\ ~Held(g)'
             /\ \A s \in Regions : r # s => g \notin tables'[s]
  BY <1>1, <1>2, <1>4 DEF Single
<1>7. \A g \in Reserved : g \in used' /\ ~Held(g)'
  BY <1>1, <1>2 DEF Single
<1>8. \A g \in Frames : Held(g)' => g \in used'
  BY <1>2
<1>9. \A w, x \in Pages : Has(w)' /\ Has(x)' /\ pt'[w] = pt'[x] => w = x
  BY <1>3 DEF Single
<1> QED
  BY <1>5, <1>6, <1>7, <1>8, <1>9 DEF Single

\* testpaging takes its frame back from the page; then it frees it.
LEMMA TestEndKeeps ==
    ASSUME TypeOK, Bounds, Single, TestUnmap \/ TestFree
    PROVE  Single'
<1>1. TestPage \in Pages /\ TestPage \notin Frames /\ frame \in Frames /\ frame # NULL
  BY Places DEF Bounds, TestUnmap, TestFree, Testing
<1>2. CASE TestUnmap
  <2>1. frame' = frame /\ \A g : Held(g)' <=> g = frame
    BY <1>2 DEF Held, TestUnmap
  <2>2. \A w \in Pages : Has(w)' => Has(w) /\ pt'[w] = pt[w] /\ w # TestPage
    BY <1>1, <1>2 DEF Has, TestUnmap, TypeOK
  <2>3. used' = used /\ tables' = tables
    BY <1>2 DEF TestUnmap
  <2>4. CASE pt[TestPage] = frame
    <3>1. Has(TestPage)
      BY <1>1, <2>4 DEF Has
    <3>2. \A w \in Pages : Has(w)' => pt[w] # frame
      BY <1>1, <2>2, <2>4, <3>1 DEF Single
    <3>3. /\ frame \in used /\ frame \notin Reserved
          /\ \A r \in Regions : frame \notin tables[r]
      BY <1>1, <2>4, <3>1 DEF Single
    <3>4. ASSUME NEW w \in Pages, Has(w)'
          PROVE  /\ pt'[w] \in used' /\ pt'[w] \notin Reserved /\ ~Held(pt[w])'
                 /\ \A r \in Regions : pt'[w] \notin tables'[r]
      BY <2>1, <2>2, <2>3, <3>2, <3>4 DEF Single
    <3>5. ASSUME NEW r \in Regions, NEW g \in tables'[r]
          PROVE  /\ g \in used' /\ g \notin Reserved /\ ~Held(g)'
                 /\ \A s \in Regions : r # s => g \notin tables'[s]
      BY <2>1, <2>3, <3>3 DEF Single
    <3>6. \A g \in Reserved : g \in used' /\ ~Held(g)'
      BY <2>1, <2>3, <3>3 DEF Single
    <3>7. \A g \in Frames : Held(g)' => g \in used'
      BY <2>1, <2>3, <3>3
    <3>8. \A w, x \in Pages : Has(w)' /\ Has(x)' /\ pt'[w] = pt'[x] => w = x
      BY <2>2 DEF Single
    <3> QED
      BY <3>4, <3>5, <3>6, <3>7, <3>8 DEF Single
  <2>5. CASE pt[TestPage] # frame
    <3>1. \A g : Held(g)' <=> Held(g)
      BY <1>2, <2>1, <2>5 DEF Held, TestUnmap
    <3> QED
      BY <2>2, <2>3, <3>1 DEF Single
  <2> QED
    BY <2>4, <2>5
<1>3. CASE TestFree
  <2>1. Held(frame) /\ \A g \in Frames : ~Held(g)' /\ (Held(g) => g = frame)
    BY <1>1, <1>3 DEF Held, TestFree
  <2>2. \A w \in Pages : (Has(w)' <=> Has(w)) /\ pt'[w] = pt[w]
    BY <1>3 DEF Has, TestFree
  <2>3. used' = used \ {frame} /\ tables' = tables
    BY <1>3 DEF TestFree
  <2>4. ASSUME NEW w \in Pages, Has(w)'
        PROVE  /\ pt'[w] \in used' /\ pt'[w] \notin Reserved /\ ~Held(pt[w])'
               /\ \A r \in Regions : pt'[w] \notin tables'[r]
    <3>1. Has(w) /\ pt'[w] = pt[w] /\ pt[w] \in Frames /\ pt[w] # frame
      BY <2>1, <2>2, <2>4 DEF Single, Has, TypeOK
    <3> QED
      BY <2>1, <2>3, <3>1 DEF Single
  <2>5. ASSUME NEW r \in Regions, NEW g \in tables'[r]
        PROVE  /\ g \in used' /\ g \notin Reserved /\ ~Held(g)'
               /\ \A s \in Regions : r # s => g \notin tables'[s]
    <3>1. g \in tables[r] /\ g \in Frames /\ g # frame
      BY <2>1, <2>3 DEF Single, TypeOK
    <3> QED
      BY <2>1, <2>3, <3>1 DEF Single
  <2>6. \A g \in Reserved : g \in used' /\ ~Held(g)'
    BY <2>1, <2>3, Layout DEF Single
  <2>7. \A w, x \in Pages : Has(w)' /\ Has(x)' /\ pt'[w] = pt'[x] => w = x
    BY <2>2 DEF Single
  <2> QED
    BY <2>1, <2>4, <2>5, <2>6, <2>7 DEF Single
<1> QED
  BY <1>2, <1>3

\* cleanup_zombies frees only pages of processes (thread.cpp:93-136): none of
\* the kernel heap, and, unless a load has failed, none that the boot mapped.
LEMMA CleanupKeeps ==
    ASSUME IInv, CleanupZombies
    PROVE  /\ used' \in SUBSET Frames /\ pt' \in [Pages -> Frames \cup {NULL}]
           /\ user' \in SUBSET Pages
           /\ KernelHeapStaysMapped'
           /\ ~failed => Single' /\ Clean'
<1>1. PICK vs : vs = {v \in UNION {PagesOf(z) : z \in zombies} : pt[v] # NULL}
  OBVIOUS
<1>2. /\ used' = used \ {pt[v] : v \in vs}
      /\ pt' = [v \in Pages |-> IF v \in vs THEN NULL ELSE pt[v]]
      /\ user' = user \ vs /\ tables' = tables
      /\ brk' = brk /\ sh' = sh /\ frame' = frame /\ lp' = lp /\ end' = end
      /\ proc' = proc /\ zombies' = {} /\ failed' = failed
  BY <1>1, Zenon DEF CleanupZombies, FreeAndUnmap, shell
<1>3. ASSUME NEW v \in vs
      PROVE  /\ v \in Pages /\ v < KernelBase /\ pt[v] # NULL
             /\ v \in Frames => \E z \in zombies : v \in ImageBase..(z.last - 1)
  <2>1. PICK z \in zombies : v \in PagesOf(z)
    BY <1>1
  <2>2. z \in Ends /\ z.first = ImageBase /\ z.last <= TotalFrames /\ z.heap <= MaxHeap
    BY DEF IInv, Bounds, TypeOK
  <2>3. z.first \in Nat /\ z.last \in Nat /\ z.heap \in Nat
    BY <2>2 DEF Ends
  <2>4. CASE v \in ImageBase..(z.last - 1)
    BY <1>1, <2>2, <2>3, <2>4, Places, Layout
       DEF Frames, Pages, TestPage, KernelBase, HeapBase, StackBase
  <2>5. CASE v \in StackBase..(StackBase + StackPages - 1)
    BY <1>1, <2>5, Layout DEF Frames, Pages, TestPage, KernelBase, HeapBase, StackBase
  <2>6. CASE v \in HeapBase..(HeapBase + z.heap - 1)
    BY <1>1, <2>2, <2>3, <2>6, Layout DEF Frames, Pages, TestPage, KernelBase, HeapBase, StackBase
  <2> QED
    BY <2>1, <2>2, <2>4, <2>5, <2>6 DEF PagesOf
<1>4. used' \in SUBSET Frames /\ user' \in SUBSET Pages /\ pt' \in [Pages -> Frames \cup {NULL}]
  BY <1>2 DEF IInv, TypeOK
<1>5. KernelHeapStaysMapped'
  <2>1. ASSUME NEW i \in 0..(brk - 1)
        PROVE  pt'[KernelBase + i] # NULL
    <3>1. i \in Nat /\ i < MaxKernel /\ KernelBase \in Nat
      BY Layout DEF IInv, TypeOK, KernelBase, HeapBase, StackBase
    <3>2. KernelBase + i \in Pages /\ ~(KernelBase + i < KernelBase)
      BY <3>1, Places
    <3>3. pt[KernelBase + i] # NULL
      BY DEF IInv, KernelHeapStaysMapped
    <3> QED
      BY <1>2, <1>3, <3>2, <3>3
  <2> QED
    BY <1>2, <2>1 DEF KernelHeapStaysMapped
<1>6. ASSUME ~failed PROVE Single' /\ Clean'
  <2>1. \A v \in vs : Has(v)
    BY <1>3, <1>6 DEF IInv, Clean, Taken, Has
  <2>2. \A w \in Pages : Has(w)' => Has(w) /\ w \notin vs /\ pt'[w] = pt[w]
    BY <1>2 DEF Has
  <2>3. \A g : Held(g)' => Held(g)
    <3>1. pt'[TestPage] = pt[TestPage]
      <4>1. TestPage \in Pages /\ ~(TestPage < KernelBase)
        BY Places, Layout DEF TestPage, KernelBase, HeapBase, StackBase
      <4> QED
        BY <1>2, <1>3, <4>1
    <3> QED
      BY <1>2, <3>1 DEF Held
  <2>4. Single
    BY <1>6 DEF IInv
  <2>5. ASSUME NEW w \in Pages, Has(w)'
        PROVE  /\ pt'[w] \in used' /\ pt'[w] \notin Reserved /\ ~Held(pt[w])'
               /\ \A r \in Regions : pt'[w] \notin tables'[r]
    <3>1. Has(w) /\ w \notin vs /\ pt'[w] = pt[w]
      BY <2>2, <2>5
    <3>2. \A v \in vs : pt[v] # pt[w]
      BY <1>3, <2>1, <2>4, <3>1 DEF Single
    <3>3. pt[w] \in used /\ pt[w] \notin {pt[v] : v \in vs}
      BY <2>4, <3>1, <3>2 DEF Single
    <3> QED
      BY <1>2, <2>3, <2>4, <3>1, <3>3 DEF Single
  <2>6. ASSUME NEW g, g \in used, \A v \in vs : pt[v] # g
        PROVE  g \in used'
    BY <1>2, <2>6
  <2>7. ASSUME NEW r \in Regions, NEW g \in tables'[r]
        PROVE  /\ g \in used' /\ g \notin Reserved /\ ~Held(g)'
               /\ \A s \in Regions : r # s => g \notin tables'[s]
    <3>1. g \in tables[r] /\ g \in used /\ \A v \in vs : pt[v] # g
      BY <1>2, <1>3, <2>1, <2>4 DEF Single
    <3> QED
      BY <1>2, <2>3, <2>4, <2>6, <3>1 DEF Single
  <2>8. ASSUME NEW g \in Reserved PROVE g \in used' /\ ~Held(g)'
    <3>1. g \in used /\ \A v \in vs : pt[v] # g
      BY <1>3, <2>1, <2>4 DEF Single
    <3> QED
      BY <2>3, <2>4, <2>6, <3>1 DEF Single
  <2>9. ASSUME NEW g \in Frames, Held(g)' PROVE g \in used'
    <3>1. g \in used /\ \A v \in vs : pt[v] # g
      BY <1>3, <2>1, <2>3, <2>4, <2>9 DEF Single
    <3> QED
      BY <2>6, <3>1
  <2>10. \A w, x \in Pages : Has(w)' /\ Has(x)' /\ pt'[w] = pt'[x] => w = x
    BY <2>2, <2>4 DEF Single
  <2>11. Single'
    BY <2>5, <2>7, <2>8, <2>9, <2>10 DEF Single
  <2>12. \A v \in Pages : Taken(v) => Taken(v)'
    BY <1>2 DEF Taken
  <2>13. Clean'
    <3>1. sh \in Loading => lp \in Nat /\ lp <= TotalFrames
      BY Layout DEF IInv, Bounds, TypeOK
    <3>2. end \in Nat /\ end <= TotalFrames
      BY DEF IInv, Bounds, TypeOK
    <3>3. \A n \in Nat : n <= TotalFrames => ImageBase..(n - 1) \subseteq Pages
      BY Layout DEF Pages, TestPage, KernelBase, HeapBase, StackBase
    <3> QED
      BY <1>2, <1>6, <2>12, <3>1, <3>2, <3>3 DEF IInv, Clean
  <2> QED
    BY <2>11, <2>13
<1> QED
  BY <1>4, <1>5, <1>6

-----------------------------------------------------------------------------
\* Mapping a page that is not of the boot's identity map keeps the parts of the
\* invariant that speak of memory.
LEMMA AllocAndMapKeeps ==
    ASSUME IInv, NEW v \in Pages, v \notin Frames, v # TestPage, NEW flags,
           AllocAndMap(v, flags), UNCHANGED <<sh, frame>>
    PROVE  /\ used' \in SUBSET Frames /\ pt' \in [Pages -> Frames \cup {NULL}]
           /\ user' \in SUBSET Pages /\ tables' \in [Regions -> SUBSET Frames]
           /\ \A w \in Pages : pt[w] # NULL => pt'[w] # NULL
           /\ \A w \in Frames : Taken(w) => Taken(w)'
           /\ Region(v) = "boot" => pt'[v] # NULL
           /\ Single => Single'
<1>1. PICK f \in Free : MapPage(v, f, flags, {f})
  BY LowestIsFree DEF AllocAndMap
<1>2. f \in Frames /\ {f} \in SUBSET Frames /\ TypeOK
  BY DEF Free, IInv
<1>3. Single => Single'
  BY <1>1, <1>2, FreshFrame
<1> QED
  BY <1>1, <1>2, <1>3, MapKeeps

\* A step that keeps present pages present and does not lower or raise the
\* break keeps the kernel heap mapped.
LEMMA KernelHeapStays ==
    ASSUME TypeOK, KernelHeapStaysMapped, brk' = brk,
           \A w \in Pages : pt[w] # NULL => pt'[w] # NULL
    PROVE  KernelHeapStaysMapped'
<1>1. \A i \in 0..(brk - 1) : i \in Nat /\ i < MaxKernel
  BY Layout DEF TypeOK
<1> QED
  BY <1>1, Places DEF KernelHeapStaysMapped

\* What Clean speaks of stays within the identity map.
LEMMA CleanRange ==
    ASSUME TypeOK, Bounds
    PROVE  /\ \A z \in zombies : ImageBase..(z.last - 1) \subseteq Frames
           /\ sh \in Loading => ImageBase..(lp - 1) \subseteq Frames
           /\ ImageBase..(end - 1) \subseteq Frames
<1>1. \A n \in Nat : n <= TotalFrames => ImageBase..(n - 1) \subseteq Frames
  BY Layout DEF Frames
<1>2. \A z \in zombies : z.last \in Nat
  BY DEF TypeOK, Ends
<1>3. sh \in Loading => lp \in Nat /\ lp <= TotalFrames
  BY Layout DEF TypeOK, Bounds
<1> QED
  BY <1>1, <1>2, <1>3 DEF TypeOK, Bounds

\* Taken pages stay taken, and nobody else's pages come under Clean.
LEMMA CleanStays ==
    ASSUME TypeOK, Bounds, Clean, \A w \in Frames : Taken(w) => Taken(w)',
           UNCHANGED <<zombies, end, proc>>,
           sh' \in Loading => sh \in Loading /\ lp' = lp
    PROVE  Clean'
  BY CleanRange DEF Clean

\* The boot leaves a memory that satisfies the invariant.
LEMMA InitEstablishes == Init => IInv
<1> SUFFICES ASSUME Init PROVE IInv
  OBVIOUS
<1>1. TypeOK
  <2>1. pt \in [Pages -> Frames \cup {NULL}]
    BY DEF Init
  <2>2. tables \in [Regions -> SUBSET Frames]
    BY DEF Init
  <2>3. /\ used \in SUBSET Frames /\ user \in SUBSET Pages /\ zombies \in SUBSET Ends
        /\ brk \in 0..MaxKernel /\ heap \in 0..MaxHeap
    BY Layout DEF Init
  <2>4. /\ at \in Nat /\ to \in Nat /\ lp \in Nat /\ cut \in Nat /\ end \in Nat
        /\ cpu = "free" /\ sh = "idle" /\ proc = "none" /\ frame = NULL /\ failed = FALSE
    BY DEF Init
  <2> QED
    BY <2>1, <2>2, <2>3, <2>4 DEF TypeOK
<1>2. Bounds
  BY Layout DEF Init, Bounds, Loading, Testing
<1>3. KernelHeapStaysMapped
  BY Layout DEF Init, KernelHeapStaysMapped
<1>4. \A v \in Pages : ~Has(v)
  BY DEF Init, Has
<1>5. \A g : ~Held(g)
  BY DEF Init, Held
<1>6. Single
  BY <1>4, <1>5, Layout DEF Init, Single
<1>7. Clean
  BY DEF Init, Clean, Loading
<1> QED
  BY <1>1, <1>2, <1>3, <1>6, <1>7 DEF IInv

\* VMM::sbrk.
LEMMA SbrkKeeps ==
    ASSUME IInv, \/ \E n \in 1..MaxKernel : Sbrk(n)
                 \/ SbrkPage \/ SbrkDone
    PROVE  IInv'
<1> USE DEF IInv
<1>1. CASE \E n \in 1..MaxKernel : Sbrk(n)
  <2>1. PICK n \in 1..MaxKernel : Sbrk(n)
    BY <1>1
  <2>2. UNCHANGED <<used, pt, user, tables, sh, frame, lp, cut, end, brk, proc, heap, zombies, failed>>
    BY <2>1 DEF Sbrk, memory, shell
  <2>3. cpu' = "sbrk" /\ at' = brk /\ to' = brk + n /\ brk + n <= MaxKernel /\ brk \in Nat /\ n \in Nat
    BY <2>1, Places DEF Sbrk, TypeOK
  <2>4. TypeOK' /\ Bounds'
    BY <2>2, <2>3, Places DEF TypeOK, Bounds
  <2>5. KernelHeapStaysMapped'
    BY <2>2, KernelHeapStays
  <2>6. Single => Single'
    BY <2>2, SingleStays DEF Held, memory
  <2>7. Clean => Clean'
    BY <2>2, CleanStays DEF Taken
  <2> QED
    BY <2>2, <2>4, <2>5, <2>6, <2>7
<1>2. CASE SbrkPage
  <2>1. UNCHANGED <<sh, frame, lp, cut, end, proc, heap, zombies, failed>>
    BY <1>2 DEF SbrkPage, shell
  <2>2. at = brk /\ brk \in Nat /\ brk < MaxKernel /\ to \in Nat /\ to <= MaxKernel
    BY <1>2, Places DEF SbrkPage, Bounds, TypeOK
  <2>3. CASE /\ AllocAndMap(KernelBase + at, "kernel")
             /\ brk' = brk + 1 /\ at' = at + 1 /\ UNCHANGED <<cpu, to>>
    <3>1. PICK v \in Pages : v = KernelBase + at
      BY <2>2, Places
    <3>2. v \notin Frames /\ v # TestPage /\ Region(v) = "boot"
      BY <2>2, <3>1, Places
    <3>3. /\ used' \in SUBSET Frames /\ pt' \in [Pages -> Frames \cup {NULL}]
          /\ user' \in SUBSET Pages /\ tables' \in [Regions -> SUBSET Frames]
          /\ \A w \in Pages : pt[w] # NULL => pt'[w] # NULL
          /\ \A w \in Frames : Taken(w) => Taken(w)'
          /\ Region(v) = "boot" => pt'[v] # NULL
          /\ Single => Single'
      BY <2>1, <2>3, <3>1, <3>2, AllocAndMapKeeps
    <3>4. TypeOK'
      BY <2>1, <2>2, <2>3, <3>3, Places DEF TypeOK
    <3>5. Bounds'
      BY <2>1, <2>2, <2>3, <1>2 DEF Bounds, SbrkPage
    <3>6. KernelHeapStaysMapped'
      <4>1. ASSUME NEW i \in 0..brk PROVE pt'[KernelBase + i] # NULL
        <5>1. i \in Nat /\ i < MaxKernel /\ (i < brk \/ i = brk)
          BY <2>2, Places
        <5>2. CASE i < brk
          BY <2>2, <3>3, <5>1, <5>2, Places DEF KernelHeapStaysMapped
        <5>3. CASE i = brk
          BY <2>2, <3>1, <3>2, <3>3, <5>3
        <5> QED
          BY <5>1, <5>2, <5>3
      <4>2. brk' - 1 = brk
        BY <2>2, <2>3
      <4> QED
        BY <4>1, <4>2 DEF KernelHeapStaysMapped
    <3>7. Clean => Clean'
      BY <2>1, <3>3, CleanStays
    <3> QED
      BY <2>1, <3>3, <3>4, <3>5, <3>6, <3>7
  <2>4. CASE /\ cpu' = "free" /\ at' = 0 /\ to' = 0
             /\ UNCHANGED <<memory, brk>>
    <3>1. TypeOK' /\ Bounds'
      BY <2>1, <2>4 DEF TypeOK, Bounds, memory
    <3>2. KernelHeapStaysMapped'
      BY <2>4, KernelHeapStays DEF memory
    <3>3. Single => Single'
      BY <2>1, <2>4, SingleStays DEF Held, memory
    <3>4. Clean => Clean'
      BY <2>1, <2>4, CleanStays DEF Taken, memory
    <3> QED
      BY <2>1, <3>1, <3>2, <3>3, <3>4
  <2> QED
    BY <1>2, <2>3, <2>4 DEF SbrkPage
<1>3. CASE SbrkDone
  <2>1. UNCHANGED <<used, pt, user, tables, sh, frame, lp, cut, end, brk, proc, heap, zombies, failed>>
    BY <1>3 DEF SbrkDone, memory, shell
  <2>2. TypeOK' /\ Bounds'
    BY <1>3, <2>1 DEF SbrkDone, TypeOK, Bounds
  <2>3. KernelHeapStaysMapped'
    BY <2>1, KernelHeapStays
  <2>4. Single => Single'
    BY <2>1, SingleStays DEF Held, memory
  <2>5. Clean => Clean'
    BY <2>1, CleanStays DEF Taken
  <2> QED
    BY <2>1, <2>2, <2>3, <2>4, <2>5
<1> QED
  BY <1>1, <1>2, <1>3

\* A step that does not touch memory, nor the shell's frame, keeps all but the
\* types, Bounds and Clean.
LEMMA MemoryUntouched ==
    ASSUME IInv, UNCHANGED memory, brk' = brk, \A g : Held(g)' <=> Held(g)
    PROVE  /\ used' = used /\ pt' = pt /\ user' = user /\ tables' = tables
           /\ KernelHeapStaysMapped'
           /\ Single => Single'
           /\ \A w \in Frames : Taken(w) => Taken(w)'
<1>1. used' = used /\ pt' = pt /\ user' = user /\ tables' = tables
  BY DEF memory
<1>2. KernelHeapStaysMapped'
  BY <1>1, KernelHeapStays DEF IInv
<1>3. Single => Single'
  BY SingleStays
<1> QED
  BY <1>1, <1>2, <1>3 DEF Taken

\* kex_load up to the thread it creates.
LEMMA CreateKeeps ==
    ASSUME IInv, KexLoad \/ CreateStackPage \/ Created
    PROVE  IInv'
<1> USE DEF IInv
<1>1. CASE KexLoad
  <2>1. UNCHANGED memory /\ UNCHANGED <<brk, sh, frame, proc, heap, zombies, failed>>
    BY <1>1 DEF KexLoad
  <2>2. \A g : Held(g)' <=> Held(g)
    BY <2>1 DEF Held, memory
  <2>3. /\ used' = used /\ pt' = pt /\ user' = user /\ tables' = tables
        /\ KernelHeapStaysMapped'
        /\ Single => Single'
        /\ \A w \in Frames : Taken(w) => Taken(w)'
    BY <2>1, <2>2, MemoryUntouched
  <2>4. PICK text \in 1..MaxSegment, data \in 0..MaxSegment :
           cut' = ImageBase + text /\ end' = ImageBase + text + data
    BY <1>1 DEF KexLoad
  <2>5. /\ cut' \in Nat /\ end' \in Nat /\ cut' <= TotalFrames /\ end' <= TotalFrames
        /\ ImageBase <= end'
    BY <2>4, Layout
  <2>6. lp' = ImageBase /\ cpu' = "create" /\ at' = 0 /\ to' = StackPages /\ sh = "idle" /\ proc = "none"
    BY <1>1 DEF KexLoad
  <2>7. TypeOK'
    BY <2>1, <2>3, <2>5, <2>6, Places DEF TypeOK
  <2>8. Bounds'
    BY <2>1, <2>5, <2>6, Places DEF Bounds, Loading, Testing
  <2>9. Clean => Clean'
    BY <2>1, <2>3, <2>6, CleanRange DEF Clean, Loading
  <2> QED
    BY <2>1, <2>3, <2>7, <2>8, <2>9
<1>2. CASE CreateStackPage
  <2>1. UNCHANGED <<brk, sh, frame, proc, heap, zombies, failed>>
    BY <1>2 DEF CreateStackPage
  <2>2. at \in Nat /\ at < StackPages /\ sh = "idle" /\ proc = "none"
    BY <1>2 DEF CreateStackPage, Bounds, TypeOK
  <2>3. CASE /\ AllocAndMap(StackBase + at, "user")
             /\ at' = at + 1
             /\ UNCHANGED <<cpu, to, lp, cut, end>>
    <3>1. PICK v \in Pages : v = StackBase + at
      BY <2>2, Places
    <3>2. v \notin Frames /\ v # TestPage
      BY <2>2, <3>1, Places
    <3>3. /\ used' \in SUBSET Frames /\ pt' \in [Pages -> Frames \cup {NULL}]
          /\ user' \in SUBSET Pages /\ tables' \in [Regions -> SUBSET Frames]
          /\ \A w \in Pages : pt[w] # NULL => pt'[w] # NULL
          /\ \A w \in Frames : Taken(w) => Taken(w)'
          /\ Single => Single'
      BY <2>1, <2>3, <3>1, <3>2, AllocAndMapKeeps
    <3>4. TypeOK'
      BY <2>1, <2>2, <2>3, <3>3 DEF TypeOK
    <3>5. Bounds'
      BY <2>1, <2>3, <1>2 DEF Bounds, CreateStackPage
    <3>6. KernelHeapStaysMapped'
      BY <2>1, <3>3, KernelHeapStays
    <3>7. Clean => Clean'
      BY <2>1, <2>3, <3>3, CleanStays
    <3> QED
      BY <2>1, <3>3, <3>4, <3>5, <3>6, <3>7
  <2>4. CASE /\ cpu' = "free" /\ at' = 0 /\ to' = 0
             /\ lp' = 0 /\ cut' = 0 /\ end' = 0
             /\ UNCHANGED memory
    <3>1. \A g : Held(g)' <=> Held(g)
      BY <2>1, <2>4 DEF Held, memory
    <3>2. /\ used' = used /\ pt' = pt /\ user' = user /\ tables' = tables
          /\ KernelHeapStaysMapped'
          /\ Single => Single'
          /\ \A w \in Frames : Taken(w) => Taken(w)'
      BY <2>1, <2>4, <3>1, MemoryUntouched
    <3>a. TypeOK'
      BY <2>1, <2>4, <3>2 DEF TypeOK
    <3>b. Bounds'
      BY <2>1, <2>2, <2>4, Layout DEF Bounds, Loading, Testing
    <3>3. TypeOK' /\ Bounds'
      BY <3>a, <3>b
    <3>4. Clean => Clean'
      BY <2>1, <2>2, <3>2, CleanRange DEF Clean, Loading
    <3> QED
      BY <2>1, <3>2, <3>3, <3>4
  <2> QED
    BY <1>2, <2>3, <2>4 DEF CreateStackPage
<1>3. CASE Created
  <2>1. UNCHANGED memory /\ UNCHANGED <<brk, frame, lp, cut, end, zombies, failed>>
    BY <1>3 DEF Created
  <2>2. /\ cpu' = "free" /\ at' = 0 /\ to' = 0 /\ sh' = "alloc" /\ proc' = "loading" /\ heap' = 0
        /\ sh = "idle" /\ lp = ImageBase /\ ImageBase <= end
    BY <1>3 DEF Created, Bounds
  <2>3. \A g : Held(g)' <=> Held(g)
    BY <2>2 DEF Held
  <2>4. /\ used' = used /\ pt' = pt /\ user' = user /\ tables' = tables
        /\ KernelHeapStaysMapped'
        /\ Single => Single'
        /\ \A w \in Frames : Taken(w) => Taken(w)'
    BY <2>1, <2>3, MemoryUntouched
  <2>5. TypeOK'
    BY <2>1, <2>2, <2>4, Layout DEF TypeOK
  <2>6. Bounds'
    BY <2>1, <2>2, Layout DEF Bounds, Loading, Testing
  <2>7. ImageBase..(lp' - 1) = {}
    BY <2>1, <2>2, Places
  <2>8. Clean => Clean'
    BY <2>1, <2>2, <2>4, <2>7, CleanRange DEF Clean
  <2> QED
    BY <2>1, <2>4, <2>5, <2>6, <2>8
<1> QED
  BY <1>1, <1>2, <1>3

\* The loop of kex_load over the pages of the image.
LEMMA LoadKeeps ==
    ASSUME IInv, LoadAlloc \/ LoadMap \/ LoadFails \/ LoadDone
    PROVE  IInv'
<1> USE DEF IInv
<1>1. CASE LoadAlloc
  <2>1. PICK f \in Free : frame' = f /\ used' = used \cup {f}
    BY <1>1, LowestIsFree DEF LoadAlloc
  <2>2. f \in Frames
    BY DEF Free
  <2>3. UNCHANGED <<pt, user, tables, brk, cpu, at, to, lp, cut, end, proc, heap, zombies, failed>>
    BY <1>1 DEF LoadAlloc
  <2>4. cpu = "free" /\ sh = "alloc" /\ sh' = "map" /\ lp < end
    BY <1>1 DEF LoadAlloc
  <2>5. TypeOK'
    BY <2>1, <2>2, <2>3, <2>4 DEF TypeOK
  <2>6. Bounds'
    BY <2>1, <2>2, <2>3, <2>4 DEF Bounds, Loading, Testing
  <2>7. KernelHeapStaysMapped'
    BY <2>3, KernelHeapStays
  <2>8. Single => Single'
    BY <2>1, <2>3, <2>4, AllocKeeps
  <2>9. Clean => Clean'
    BY <2>3, <2>4, CleanStays DEF Taken, Loading
  <2> QED
    BY <2>3, <2>5, <2>6, <2>7, <2>8, <2>9
<1>2. CASE LoadMap
  <2>1. UNCHANGED <<brk, cpu, at, to, cut, end, proc, heap, zombies, failed>>
    BY <1>2 DEF LoadMap
  <2>2. cpu = "free" /\ sh = "map" /\ sh' = "alloc" /\ frame' = NULL /\ lp' = lp + 1
    BY <1>2 DEF LoadMap
  <2>3. /\ lp \in Nat /\ end \in Nat /\ lp < end /\ ImageBase <= lp
        /\ lp \in Frames /\ frame \in Frames
    BY <2>2, Places DEF Bounds, TypeOK, Loading, Testing, Frames
  <2>4. lp \in Pages /\ Region(lp) = "boot" /\ {} \in SUBSET Frames
    BY <2>3, Places
  <2>5. MapPage(lp, frame, "user", {})
    BY <1>2 DEF LoadMap
  <2>6. /\ used' \in SUBSET Frames /\ pt' \in [Pages -> Frames \cup {NULL}]
        /\ user' \in SUBSET Pages /\ tables' \in [Regions -> SUBSET Frames]
        /\ \A w \in Pages : pt[w] # NULL => pt'[w] # NULL
        /\ \A w \in Frames : Taken(w) => Taken(w)'
    BY <2>3, <2>4, <2>5, MapKeeps
  <2>7. PICK new \in SUBSET (Free \ {}) : Maps(lp, frame, "user", {}, new)
    BY <2>5, MapEffect
  <2>8. lp \in user'
    BY <2>4, <2>7 DEF Maps
  <2>9. TypeOK'
    BY <2>1, <2>2, <2>3, <2>6 DEF TypeOK
  <2>10. Bounds'
    BY <2>1, <2>2, <2>3, Places DEF Bounds, Loading, Testing
  <2>11. KernelHeapStaysMapped'
    BY <2>1, <2>6, KernelHeapStays
  <2>12. Single => Single'
    BY <1>2, LoadMapKeeps
  <2>13. ASSUME Clean PROVE Clean'
    <3>1. ASSUME NEW v \in ImageBase..lp PROVE v \in user' \/ pt'[v] = NULL
      <4>1. v \in ImageBase..(lp - 1) \/ v = lp
        BY <2>3, Places
      <4>2. CASE v \in ImageBase..(lp - 1)
        BY <2>2, <2>6, <2>13, <4>2, CleanRange DEF Clean, Taken, Loading
      <4> QED
        BY <2>8, <4>1, <4>2
    <3>2. lp' - 1 = lp
      BY <2>2, <2>3
    <3>3. \A v \in ImageBase..(lp' - 1) : v \in user' \/ pt'[v] = NULL
      BY <3>1, <3>2
    <3>4. \A z \in zombies' : \A v \in ImageBase..(z.last - 1) : Taken(v)'
      BY <2>1, <2>6, <2>13, CleanRange DEF Clean
    <3>5. proc' = "live" => \A v \in ImageBase..(end' - 1) : Taken(v)'
      BY <2>1, <2>6, <2>13, CleanRange DEF Clean
    <3> QED
      BY <3>3, <3>4, <3>5 DEF Clean, Taken
  <2> QED
    BY <2>1, <2>9, <2>10, <2>11, <2>12, <2>13
<1>3. CASE LoadFails
  <2>1. UNCHANGED memory /\ UNCHANGED <<brk, cpu, at, to, frame, heap>>
    BY <1>3 DEF LoadFails
  <2>2. /\ cpu = "free" /\ sh = "alloc" /\ sh' = "idle" /\ lp' = 0 /\ cut' = 0 /\ end' = 0
        /\ proc' = "none" /\ failed' = TRUE
    BY <1>3 DEF LoadFails
  <2>3. PICK last : last = IF lp < cut THEN cut ELSE end
    OBVIOUS
  <2>4. last \in Nat /\ last <= TotalFrames
    BY <2>3 DEF TypeOK, Bounds
  <2>5. zombies' = zombies \cup {[first |-> ImageBase, last |-> last, heap |-> 0]}
    BY <1>3, <2>3 DEF LoadFails
  <2>6. TypeOK'
    BY <2>1, <2>2, <2>4, <2>5, Places DEF TypeOK, memory, Ends
  <2>7. Bounds'
    BY <2>1, <2>2, <2>4, <2>5, Places DEF Bounds, Loading, Testing
  <2>8. KernelHeapStaysMapped'
    BY <2>1, KernelHeapStays DEF memory
  <2> QED
    BY <2>2, <2>6, <2>7, <2>8
<1>4. CASE LoadDone
  <2>1. UNCHANGED memory /\ UNCHANGED <<brk, cpu, at, to, frame, cut, end, heap, zombies, failed>>
    BY <1>4 DEF LoadDone
  <2>2. /\ cpu = "free" /\ sh = "alloc" /\ lp = end /\ sh' = "idle" /\ lp' = 0 /\ proc' = "live"
    BY <1>4 DEF LoadDone
  <2>3. \A g : Held(g)' <=> Held(g)
    BY <2>2 DEF Held
  <2>4. /\ used' = used /\ pt' = pt /\ user' = user /\ tables' = tables
        /\ KernelHeapStaysMapped'
        /\ Single => Single'
        /\ \A w \in Frames : Taken(w) => Taken(w)'
    BY <2>1, <2>3, MemoryUntouched
  <2>5. TypeOK' /\ Bounds'
    BY <2>1, <2>2, <2>4 DEF TypeOK, Bounds, Loading, Testing
  <2>6. Clean => Clean'
    BY <2>1, <2>2, <2>4, CleanRange DEF Clean, Loading
  <2> QED
    BY <2>1, <2>4, <2>5, <2>6
<1> QED
  BY <1>1, <1>2, <1>3, <1>4

\* cmd_testpaging.
LEMMA TestKeeps ==
    ASSUME IInv, TestAlloc \/ TestMap \/ TestUnmap \/ TestFree
    PROVE  IInv'
<1> USE DEF IInv
<1>1. CASE TestAlloc
  <2>1. PICK f \in Free : frame' = f /\ used' = used \cup {f}
    BY <1>1, LowestIsFree DEF TestAlloc
  <2>2. f \in Frames
    BY DEF Free
  <2>3. UNCHANGED <<pt, user, tables, brk, cpu, at, to, lp, cut, end, proc, heap, zombies, failed>>
    BY <1>1 DEF TestAlloc
  <2>4. cpu = "free" /\ sh = "idle" /\ sh' = "test_map"
    BY <1>1 DEF TestAlloc
  <2>5. TypeOK'
    BY <2>1, <2>2, <2>3, <2>4 DEF TypeOK
  <2>6. Bounds'
    BY <2>1, <2>2, <2>3, <2>4 DEF Bounds, Loading, Testing
  <2>7. KernelHeapStaysMapped'
    BY <2>3, KernelHeapStays
  <2>8. Single => Single'
    BY <2>1, <2>3, <2>4, AllocKeeps
  <2>9. Clean => Clean'
    BY <2>3, <2>4, CleanStays DEF Taken, Loading
  <2> QED
    BY <2>3, <2>5, <2>6, <2>7, <2>8, <2>9
<1>2. CASE TestMap
  <2>1. UNCHANGED <<brk, cpu, at, to, frame, lp, cut, end, proc, heap, zombies, failed>>
    BY <1>2 DEF TestMap
  <2>2. cpu = "free" /\ sh = "test_map" /\ sh' = "test_unmap" /\ MapPage(TestPage, frame, "kernel", {})
    BY <1>2 DEF TestMap
  <2>3. frame \in Frames /\ TestPage \in Pages /\ TestPage \notin Frames /\ {} \in SUBSET Frames
    BY <2>2, Places DEF Bounds, Testing
  <2>4. /\ used' \in SUBSET Frames /\ pt' \in [Pages -> Frames \cup {NULL}]
        /\ user' \in SUBSET Pages /\ tables' \in [Regions -> SUBSET Frames]
        /\ \A w \in Pages : pt[w] # NULL => pt'[w] # NULL
        /\ \A w \in Frames : Taken(w) => Taken(w)'
    BY <2>2, <2>3, MapKeeps
  <2>5. TypeOK'
    BY <2>1, <2>2, <2>4 DEF TypeOK
  <2>6. Bounds'
    BY <2>1, <2>2, <2>3 DEF Bounds, Loading, Testing
  <2>7. KernelHeapStaysMapped'
    BY <2>1, <2>4, KernelHeapStays
  <2>8. Single => Single'
    BY <1>2, TestMapKeeps
  <2>9. Clean => Clean'
    BY <2>1, <2>2, <2>4, CleanStays DEF Loading
  <2> QED
    BY <2>1, <2>5, <2>6, <2>7, <2>8, <2>9
<1>3. CASE TestUnmap
  <2>1. UNCHANGED <<used, user, tables, brk, cpu, at, to, frame, lp, cut, end, proc, heap, zombies, failed>>
    BY <1>3 DEF TestUnmap
  <2>2. cpu = "free" /\ sh = "test_unmap" /\ sh' = "test_free" /\ pt' = [pt EXCEPT ![TestPage] = NULL]
    BY <1>3 DEF TestUnmap
  <2>3. \A w \in Pages : w # TestPage => pt'[w] = pt[w]
    BY <2>2 DEF TypeOK
  <2>4. TypeOK'
    BY <2>1, <2>2 DEF TypeOK
  <2>5. Bounds'
    BY <2>1, <2>2 DEF Bounds, Loading, Testing
  <2>6. KernelHeapStaysMapped'
    <3>1. \A i \in 0..(brk - 1) : i \in Nat /\ i < MaxKernel
      BY Places DEF TypeOK
    <3> QED
      BY <2>1, <2>3, <3>1, Places DEF KernelHeapStaysMapped
  <2>7. Single => Single'
    BY <1>3, TestEndKeeps
  <2>8. \A w \in Frames : Taken(w) => Taken(w)'
    BY <2>1, <2>3, Places DEF Taken
  <2>9. Clean => Clean'
    BY <2>1, <2>2, <2>8, CleanStays DEF Loading
  <2> QED
    BY <2>1, <2>4, <2>5, <2>6, <2>7, <2>9
<1>4. CASE TestFree
  <2>1. UNCHANGED <<pt, user, tables, brk, cpu, at, to, lp, cut, end, proc, heap, zombies, failed>>
    BY <1>4 DEF TestFree
  <2>2. cpu = "free" /\ sh = "test_free" /\ sh' = "idle" /\ frame' = NULL /\ used' = used \ {frame}
    BY <1>4 DEF TestFree
  <2>3. TypeOK' /\ Bounds'
    BY <2>1, <2>2 DEF TypeOK, Bounds, Loading, Testing
  <2>4. KernelHeapStaysMapped'
    BY <2>1, KernelHeapStays
  <2>5. Single => Single'
    BY <1>4, TestEndKeeps
  <2>6. Clean => Clean'
    BY <2>1, <2>2, CleanStays DEF Loading, Taken
  <2> QED
    BY <2>1, <2>3, <2>4, <2>5, <2>6
<1> QED
  BY <1>1, <1>2, <1>3, <1>4

\* The process: sys_sbrk and its end.
LEMMA ProcessKeeps ==
    ASSUME IInv, \/ \E n \in (-MaxHeap)..MaxHeap : SysSbrk(n)
                 \/ SysSbrkPage \/ SysSbrkDone \/ Exit
    PROVE  IInv'
<1> USE DEF IInv
<1>1. CASE \E n \in (-MaxHeap)..MaxHeap : SysSbrk(n)
  <2>1. PICK n \in (-MaxHeap)..MaxHeap : SysSbrk(n)
    BY <1>1
  <2>2. UNCHANGED memory /\ UNCHANGED <<sh, frame, lp, cut, end, brk, proc, heap, zombies, failed>>
    BY <2>1 DEF SysSbrk, shell
  <2>3. /\ cpu = "free" /\ cpu' = "sys_sbrk" /\ at' = heap /\ to' \in 0..MaxHeap
    BY <2>1 DEF SysSbrk
  <2>4. \A g : Held(g)' <=> Held(g)
    BY <2>2 DEF Held, memory
  <2>5. /\ used' = used /\ pt' = pt /\ user' = user /\ tables' = tables
        /\ KernelHeapStaysMapped'
        /\ Single => Single'
        /\ \A w \in Frames : Taken(w) => Taken(w)'
    BY <2>2, <2>4, MemoryUntouched
  <2>a. heap \in Nat /\ to' \in Nat /\ to' <= MaxHeap
    BY <2>3, Layout DEF TypeOK
  <2>b. TypeOK'
    BY <2>2, <2>3, <2>5, <2>a DEF TypeOK
  <2>c. Bounds'
    BY <2>2, <2>3, <2>a DEF Bounds
  <2>6. TypeOK' /\ Bounds'
    BY <2>b, <2>c
  <2>7. Clean => Clean'
    BY <2>2, <2>5, CleanStays
  <2> QED
    BY <2>2, <2>5, <2>6, <2>7
<1>2. CASE SysSbrkPage
  <2>1. UNCHANGED <<sh, frame, lp, cut, end, brk, proc, heap, zombies, failed>>
    BY <1>2 DEF SysSbrkPage, shell
  <2>a. cpu = "sys_sbrk" /\ at < to
    BY <1>2 DEF SysSbrkPage
  <2>b. at \in Nat /\ to \in Nat /\ to <= MaxHeap
    BY <2>a DEF TypeOK, Bounds
  <2>2. cpu = "sys_sbrk" /\ at \in Nat /\ to \in Nat /\ at < to /\ to <= MaxHeap /\ at < MaxHeap
    BY <2>a, <2>b, Layout
  <2>3. PICK v \in Pages : v = HeapBase + at
    BY <2>2, Places
  <2>4. v \notin Frames /\ v # TestPage
    BY <2>2, <2>3, Places
  <2>5. \/ /\ at' = at + 1
           /\ UNCHANGED <<memory, cpu, to>>
        \/ /\ pt[v] # NULL /\ MapPage(v, pt[v], "user", {})
           /\ at' = at + 1 /\ UNCHANGED <<cpu, to>>
        \/ /\ AllocAndMap(v, "user")
           /\ at' = at + 1 /\ UNCHANGED <<cpu, to>>
        \/ /\ cpu' = "free" /\ at' = 0 /\ to' = 0
           /\ UNCHANGED memory
    BY <1>2, <2>3 DEF SysSbrkPage
  <2>6. at' \in Nat /\ to' \in Nat /\ cpu' \in {"free", "sys_sbrk"} /\ to' <= MaxHeap
    BY <2>2, <2>5, Places
  <2>7. Bounds'
    BY <2>1, <2>6 DEF Bounds
  <2>8. /\ used' \in SUBSET Frames /\ pt' \in [Pages -> Frames \cup {NULL}]
        /\ user' \in SUBSET Pages /\ tables' \in [Regions -> SUBSET Frames]
        /\ \A w \in Pages : pt[w] # NULL => pt'[w] # NULL
        /\ \A w \in Frames : Taken(w) => Taken(w)'
        /\ Single => Single'
    <3>1. CASE UNCHANGED memory
      BY <2>1, <3>1, SingleStays DEF TypeOK, memory, Taken, Held
    <3>2. CASE pt[v] # NULL /\ MapPage(v, pt[v], "user", {})
      <4>1. pt[v] \in Frames /\ {} \in SUBSET Frames
        BY <3>2 DEF TypeOK
      <4>2. Single => Single'
        BY <2>1, <2>4, <3>2, SameFrame
      <4>3. PICK f \in Frames : f = pt[v]
        BY <4>1
      <4> QED
        BY <2>4, <3>2, <4>1, <4>2, <4>3, MapKeeps
    <3>3. CASE AllocAndMap(v, "user")
      BY <2>1, <2>4, <3>3, AllocAndMapKeeps
    <3> QED
      BY <2>5, <3>1, <3>2, <3>3
  <2>9. TypeOK'
    BY <2>1, <2>6, <2>8 DEF TypeOK
  <2>10. KernelHeapStaysMapped'
    BY <2>1, <2>8, KernelHeapStays
  <2>11. Clean => Clean'
    BY <2>1, <2>8, CleanStays
  <2> QED
    BY <2>1, <2>7, <2>8, <2>9, <2>10, <2>11
<1>3. CASE SysSbrkDone
  <2>1. UNCHANGED memory /\ UNCHANGED <<sh, frame, lp, cut, end, brk, proc, zombies, failed>>
    BY <1>3 DEF SysSbrkDone, shell
  <2>2. cpu' = "free" /\ at' = 0 /\ to' = 0 /\ heap' \in 0..MaxHeap
    BY <1>3, Places DEF SysSbrkDone, Bounds, TypeOK
  <2>3. \A g : Held(g)' <=> Held(g)
    BY <2>1 DEF Held, memory
  <2>4. /\ used' = used /\ pt' = pt /\ user' = user /\ tables' = tables
        /\ KernelHeapStaysMapped'
        /\ Single => Single'
        /\ \A w \in Frames : Taken(w) => Taken(w)'
    BY <2>1, <2>3, MemoryUntouched
  <2>5. TypeOK' /\ Bounds'
    BY <2>1, <2>2, <2>4 DEF TypeOK, Bounds
  <2>6. Clean => Clean'
    BY <2>1, <2>4, CleanStays
  <2> QED
    BY <2>1, <2>4, <2>5, <2>6
<1>4. CASE Exit
  <2>1. UNCHANGED memory /\ UNCHANGED <<brk, cpu, at, to, sh, frame, lp, failed>>
    BY <1>4 DEF Exit
  <2>2. /\ cpu = "free" /\ proc = "live" /\ proc' = "none" /\ heap' = 0 /\ cut' = 0 /\ end' = 0
        /\ zombies' = zombies \cup {[first |-> ImageBase, last |-> end, heap |-> heap]}
    BY <1>4 DEF Exit
  <2>3. \A g : Held(g)' <=> Held(g)
    BY <2>1 DEF Held, memory
  <2>4. /\ used' = used /\ pt' = pt /\ user' = user /\ tables' = tables
        /\ KernelHeapStaysMapped'
        /\ Single => Single'
        /\ \A w \in Frames : Taken(w) => Taken(w)'
    BY <2>1, <2>3, MemoryUntouched
  <2>5. end \in Nat /\ end <= TotalFrames /\ heap \in Nat /\ heap <= MaxHeap
    BY Places DEF TypeOK, Bounds
  <2>6. TypeOK'
    <3>1. [first |-> ImageBase, last |-> end, heap |-> heap] \in Ends
      BY <2>5, Places DEF Ends
    <3>2. zombies' \in SUBSET Ends
      BY <2>2, <3>1 DEF TypeOK
    <3>3. heap' \in 0..MaxHeap /\ cut' \in Nat /\ end' \in Nat
      BY <2>2, Places
    <3> QED
      BY <2>1, <2>2, <2>4, <3>2, <3>3 DEF TypeOK
  <2>7. Bounds'
    <3>1. sh \notin Loading /\ cpu' = "free" /\ sh' = sh /\ frame' = frame
      BY <2>1, <2>2 DEF Bounds
    <3>2. \A z \in zombies' :
             z.first = ImageBase /\ z.last <= TotalFrames /\ z.heap <= MaxHeap
      BY <2>2, <2>5 DEF Bounds
    <3> QED
      BY <2>2, <3>1, <3>2, Layout DEF Bounds, Loading, Testing
  <2>8. Clean => Clean'
    BY <2>1, <2>2, <2>4, CleanRange DEF Clean
  <2> QED
    BY <2>1, <2>4, <2>6, <2>7, <2>8
<1> QED
  BY <1>1, <1>2, <1>3, <1>4

\* Every step keeps the invariant.
LEMMA StepKeeps == IInv /\ [Next]_vars => IInv'
<1> SUFFICES ASSUME IInv, [Next]_vars PROVE IInv'
  OBVIOUS
<1>1. CASE CleanupZombies
  <2>1. UNCHANGED <<tables, brk, cpu, at, to, sh, frame, lp, cut, end, proc, heap, failed>> /\ zombies' = {}
    BY <1>1, Zenon DEF CleanupZombies, FreeAndUnmap, shell
  <2>2. TypeOK'
    BY <1>1, <2>1, CleanupKeeps DEF IInv, TypeOK
  <2>3. Bounds'
    BY <2>1 DEF IInv, Bounds
  <2> QED
    BY <1>1, <2>1, <2>2, <2>3, CleanupKeeps DEF IInv
<1>2. CASE UNCHANGED vars
  <2>1. TypeOK' /\ Bounds'
    BY <1>2 DEF vars, IInv, TypeOK, Bounds
  <2>2. KernelHeapStaysMapped'
    BY <1>2 DEF vars, IInv, KernelHeapStaysMapped
  <2>3. Single => Single'
    BY <1>2 DEF vars, Single, Has, Held
  <2>4. Clean => Clean'
    BY <1>2 DEF vars, Clean, Taken
  <2> QED
    BY <1>2, <2>1, <2>2, <2>3, <2>4 DEF vars, IInv
<1> QED
  BY <1>1, <1>2, SbrkKeeps, CreateKeeps, LoadKeeps, TestKeeps, ProcessKeeps DEF Next

\* The page by page form is the one-owner rule.
LEMMA SingleImplies == ASSUME TypeOK, Bounds, Single PROVE FramesHaveOneOwner
<1>1. \A v \in Own : v \in Pages /\ Has(v)
  BY DEF Own, Has
<1>2. \A f \in InFlight : Held(f) /\ f = frame
  BY DEF InFlight, Held
<1>3. \A v, w \in Own : pt[v] = pt[w] => v = w
  BY <1>1 DEF Single
<1>4. \A f \in Mapped : f \in used /\ f \notin Tables /\ f \notin Reserved /\ f \notin InFlight
  <2> SUFFICES ASSUME NEW v \in Own
               PROVE  /\ pt[v] \in used /\ pt[v] \notin Tables
                      /\ pt[v] \notin Reserved /\ pt[v] \notin InFlight
    BY DEF Mapped
  <2>1. /\ pt[v] \in used /\ pt[v] \notin Reserved /\ ~Held(pt[v])
        /\ \A r \in Regions : pt[v] \notin tables[r]
    BY <1>1 DEF Single
  <2> QED
    BY <1>2, <2>1 DEF Tables
<1>5. \A f \in Tables : f \in used /\ f \notin Reserved /\ f \notin InFlight
  BY <1>2 DEF Single, Tables
<1>6. \A f \in Reserved : f \in used /\ f \notin InFlight
  BY <1>2 DEF Single
<1>7. \A r, s \in Regions : r # s => tables[r] \cap tables[s] = {}
  BY DEF Single
<1>8. InFlight \subseteq used
  BY <1>2 DEF Single, Bounds, Testing, InFlight
<1> QED
  BY <1>3, <1>4, <1>5, <1>6, <1>7, <1>8 DEF FramesHaveOneOwner

\* For every size of memory, stack, image and heap: frames have one owner until
\* a load has failed for want of a frame, whatever the order in which kex_load,
\* VMM::sbrk, sys_sbrk, testpaging and cleanup_zombies get to run and wherever
\* an allocation fails; and the kernel heap below its break is always mapped.
THEOREM MemoryIsSound == Spec => [](TypeOK /\ OneOwnerUnlessLoadFailed /\ KernelHeapStaysMapped)
<1>1. IInv => TypeOK /\ OneOwnerUnlessLoadFailed /\ KernelHeapStaysMapped
  BY SingleImplies DEF IInv, OneOwnerUnlessLoadFailed
<1> QED
  BY InitEstablishes, StepKeeps, <1>1, PTL DEF Spec

\* The pages of the kernel heap below kernel_dynamic_break stay mapped, whatever programs
\* map and cleanup_zombies unmaps.
THEOREM KernelHeapIsMapped == Spec => []KernelHeapStaysMapped
BY MemoryIsSound, PTL
-----------------------------------------------------------------------------
(***************************************************************************)
(* What is lost.                                                           *)
(***************************************************************************)
\* A set of natural numbers that has an element has a least one.
LEMMA LeastElement ==
    ASSUME NEW S \in SUBSET Nat, S # {}
    PROVE  \E m \in S : \A x \in S : m <= x
<1>1. IsWellFoundedOn(OpToRel(<, Nat), Nat)
  BY NatLessThanWellFounded, Zenon
<1>2. PICK m \in S : \A x \in S : ~(<<x, m>> \in OpToRel(<, Nat))
  BY <1>1, WFMin, Zenon
<1>3. \A x \in S : ~(x < m)
  BY <1>2, Zenon DEF OpToRel
<1>. QED BY <1>3

\* n calls of pfa_alloc_frame return n frames, or every frame that was left.
LEMMA LowestAreEnough ==
    ASSUME NEW n \in Nat, Lowest(n) # Free
    PROVE  Cardinality(Lowest(n)) >= n
<1>0. Free \in SUBSET Nat /\ IsFiniteSet(Free)
  <2>1. TotalFrames \in Nat /\ Free \in SUBSET (0..(TotalFrames - 1))
    BY Layout DEF Free, Frames
  <2>2. IsFiniteSet(0..(TotalFrames - 1))
    BY <2>1, FS_Interval
  <2>3. IsFiniteSet(Free)
    BY <2>1, <2>2, FS_Subset
  <2>. QED BY <2>1, <2>3
<1>1. Free \ Lowest(n) # {}
  BY DEF Lowest
<1>2. PICK f \in Free \ Lowest(n) : \A g \in Free \ Lowest(n) : f <= g
  BY <1>0, <1>1, LeastElement
<1>3. PICK low : low = {g \in Free : g < f}
  OBVIOUS
<1>4. low \in SUBSET Lowest(n) /\ ~(Cardinality(low) < n)
  <2>1. \A g \in low : g \in Free /\ g \in Nat /\ f \in Nat /\ ~(f <= g)
    BY <1>0, <1>2, <1>3
  <2>2. low \in SUBSET Lowest(n)
    BY <1>2, <2>1
  <2>3. ~(Cardinality({g \in Free : g < f}) < n)
    BY <1>2 DEF Lowest
  <2>. QED BY <1>3, <2>2, <2>3
<1>5. Lowest(n) \in SUBSET Free /\ IsFiniteSet(Lowest(n))
  <2>1. Lowest(n) \in SUBSET Free
    BY DEF Lowest
  <2>. QED BY <1>0, <2>1, FS_Subset
<1>6. Cardinality(low) <= Cardinality(Lowest(n)) /\ IsFiniteSet(low)
  BY <1>4, <1>5, FS_Subset
<1>7. Cardinality(low) \in Nat /\ Cardinality(Lowest(n)) \in Nat
  BY <1>5, <1>6, FS_CardinalityType
<1>. QED BY <1>4, <1>6, <1>7

\* paging_map_page does nothing only when the tables it needs take the last frame.
LEMMA NoTablesNoFrames ==
    ASSUME TypeOK, Single, NEW v, Region(v) \in Regions, NEW avoid \in SUBSET Free,
           IsFiniteSet(avoid), ~HasTables(v, NewTables(v, avoid))
    PROVE  used \cup avoid \cup NewTables(v, avoid) = Frames
<1> DEFINE old == tables[Region(v)]
           n == (TableLevels - Cardinality(old)) + Cardinality(avoid)
           new == NewTables(v, avoid)
<1>0. /\ TotalFrames \in Nat /\ TableLevels \in Nat /\ used \in SUBSET Frames
      /\ Region(v) # "boot" /\ old \in SUBSET Frames /\ new \in SUBSET Free /\ old \in SUBSET used
  <2>1. new \in SUBSET Free
    BY LowestIsFree DEF NewTables
  <2>. QED BY <2>1, Layout DEF TypeOK, Single, Regions
<1>1. new = Lowest(n) \ avoid
  BY <1>0 DEF NewTables
<1>2. IsFiniteSet(Frames)
  <2>1. 0 \in Int /\ TotalFrames - 1 \in Int
    BY <1>0
  <2>. QED BY <2>1, FS_Interval DEF Frames
<1>3. IsFiniteSet(old) /\ IsFiniteSet(new) /\ old \cap new = {} /\ Lowest(n) \in SUBSET Frames
      /\ IsFiniteSet(Lowest(n))
  <2>1. Lowest(n) \in SUBSET Frames /\ new \in SUBSET Frames /\ old \cap new = {}
    BY <1>0, LowestIsFree DEF Free
  <2>2. IsFiniteSet(old) /\ IsFiniteSet(new) /\ IsFiniteSet(Lowest(n))
    <3>. HIDE DEF old, new, n
    <3>. QED BY <1>0, <1>2, <2>1, FS_Subset
  <2>. QED BY <2>1, <2>2
<1>4. ~(Cardinality(old \cup new) >= TableLevels)
  BY <1>0 DEF HasTables
<1>. HIDE DEF old, new, n
<1>5. /\ Cardinality(old \cup new) = Cardinality(old) + Cardinality(new)
      /\ Cardinality(old) \in Nat /\ Cardinality(new) \in Nat
  <2>1. Cardinality(old) \in Nat /\ Cardinality(new) \in Nat
    BY <1>3, FS_CardinalityType
  <2>2. Cardinality(old \cup new) = Cardinality(old) + Cardinality(new) - Cardinality(old \cap new)
    BY <1>3, FS_Union
  <2>3. Cardinality(old \cap new) = 0
    BY <1>3, FS_EmptySet
  <2>. QED BY <2>1, <2>2, <2>3
<1>6. Cardinality(avoid) \in Nat
  BY FS_CardinalityType
<1>7. n \in Nat /\ Cardinality(new) < n - Cardinality(avoid)
  BY <1>0, <1>4, <1>5, <1>6 DEF n
<1>8. Cardinality(Lowest(n)) <= Cardinality(new) + Cardinality(avoid)
      /\ Cardinality(Lowest(n)) \in Nat
  <2>1. Lowest(n) \in SUBSET (new \cup avoid) /\ IsFiniteSet(new \cup avoid)
    BY <1>1, <1>3, FS_Union
  <2>2. Cardinality(new \cup avoid) = Cardinality(new) + Cardinality(avoid) - Cardinality(new \cap avoid)
    BY <1>3, FS_Union
  <2>3. new \cap avoid = {}
    BY <1>1
  <2>4. Cardinality(new \cup avoid) = Cardinality(new) + Cardinality(avoid)
    <3>1. Cardinality(new \cap avoid) = 0
      BY <2>3, FS_EmptySet
    <3>. QED BY <1>5, <1>6, <2>2, <3>1
  <2>5. Cardinality(Lowest(n)) <= Cardinality(new \cup avoid)
    BY <2>1, FS_Subset
  <2>. QED BY <1>3, <2>4, <2>5, FS_CardinalityType
<1>9. Lowest(n) = Free
  <2>1. ~(Cardinality(Lowest(n)) >= n)
    BY <1>5, <1>6, <1>7, <1>8
  <2>. QED BY <1>7, <2>1, LowestAreEnough
<1>10. used \cup avoid \cup new = Frames
  BY <1>0, <1>1, <1>9 DEF Free
<1>. QED BY <1>10 DEF new

\* Pages nobody has mapped yet, or that only one path maps: the kernel heap above its
\* break, the stack of a process, and the page of testpaging.
Unmapped ==
    /\ \A i \in Nat : brk <= i /\ i < MaxKernel => pt[KernelBase + i] = NULL
    /\ \A i \in Nat : i < StackPages /\ pt[StackBase + i] # NULL => StackBase + i \in user
    /\ pt[TestPage] # NULL => sh = "test_unmap" /\ pt[TestPage] = frame

\* f is in use, page by page.
InUse(f) ==
    \/ \E v \in Pages : Has(v) /\ pt[v] = f
    \/ \E r \in Regions : f \in tables[r]
    \/ f \in Reserved
    \/ Held(f)

\* The two ways in which a step may lose a frame.
Excused ==
    \/ used' = Frames
    \/ \E v \in user : pt[v] # NULL /\ pt'[v] \notin {pt[v], NULL}

\* The lost frames are those that are marked and not in use.
LEMMA LostFrames ==
    ASSUME NEW f
    PROVE  f \in Lost <=> f \in used /\ ~InUse(f)
<1>1. f \in Mapped <=> \E v \in Pages : Has(v) /\ pt[v] = f
  BY DEF Mapped, Own, Has
<1>2. f \in Tables <=> \E r \in Regions : f \in tables[r]
  BY DEF Tables
<1>3. f \in InFlight <=> Held(f)
  BY DEF InFlight, Held
<1>. QED BY <1>1, <1>2, <1>3 DEF Lost, InUse

\* Page v comes to hold frame g, the other pages keep theirs, and no frames are marked but
\* those in avoid and those of tables.
MapsTo(v, g, avoid) ==
    /\ Has(v)' /\ pt'[v] = g
    /\ \A w \in Pages \ {v} : pt'[w] = pt[w] /\ (Has(w) => Has(w)')
    /\ Has(v) /\ v \in user => pt[v] = g
    /\ \A f \in used' : f \in used \/ f \in avoid \/ \E r \in Regions : f \in tables'[r]
    /\ \A r \in Regions : \A f \in tables[r] : f \in tables'[r]
    /\ used \subseteq used'

\* A paging_map_page that loses nothing maps the page; the frames it takes become page
\* tables, and every other page keeps its frame.
LEMMA MapLoses ==
    ASSUME TypeOK, Single, NEW v \in Pages, NEW g \in Frames, NEW flags,
           NEW avoid \in SUBSET Free, IsFiniteSet(avoid), MapPage(v, g, flags, avoid),
           flags = "user" \/ v \notin Frames, ~Excused
    PROVE  MapsTo(v, g, avoid)
<1> DEFINE new == NewTables(v, avoid)
<1>1. /\ used' = used \cup avoid \cup new
      /\ tables' = [r \in Regions |-> IF r = Region(v) THEN tables[r] \cup new ELSE tables[r]]
      /\ HasTables(v, new) => /\ pt' = [pt EXCEPT ![v] = g]
                              /\ user' = IF flags = "user" THEN user \cup {v} ELSE user \ {v}
  BY DEF MapPage
<1>2. Region(v) \in Regions \/ (Region(v) = "boot" /\ new = {})
  BY DEF Region, Regions, NewTables
<1>3. HasTables(v, new)
  <2>1. CASE Region(v) = "boot"
    BY <2>1 DEF HasTables
  <2>2. CASE Region(v) \in Regions
    BY <1>1, <2>2, NoTablesNoFrames DEF Excused
  <2>. QED BY <1>2, <2>1, <2>2
<1>. HIDE DEF new
<1>4. /\ pt'[v] = g /\ \A w \in Pages \ {v} : pt'[w] = pt[w]
      /\ \A w \in Pages \ {v} : w \in user' <=> w \in user
      /\ flags = "user" => v \in user'
  BY <1>1, <1>3 DEF TypeOK
<1>5. g # NULL
  BY Places
<1>6. Has(v)'
  BY <1>4, <1>5 DEF Has
<1>7. \A w \in Pages \ {v} : Has(w) => Has(w)'
  BY <1>4 DEF Has
<1>8. Has(v) /\ v \in user => pt[v] = g
  BY <1>4, <1>5 DEF Has, Excused
<1>9. \A r \in Regions : tables'[r] = IF r = Region(v) THEN tables[r] \cup new ELSE tables[r]
  BY <1>1
<1>10. \A f \in used' : f \in used \/ f \in avoid \/ \E r \in Regions : f \in tables'[r]
  BY <1>1, <1>2, <1>9
<1>. QED BY <1>1, <1>4, <1>6, <1>7, <1>8, <1>9, <1>10 DEF MapsTo

\* The same where no other frame has been marked yet: only tables take frames.
LEMMA MapOnlyLoses ==
    ASSUME TypeOK, Single, NEW v \in Pages, NEW g \in Frames, NEW flags,
           MapPage(v, g, flags, {}), flags = "user" \/ v \notin Frames, ~Excused
    PROVE  /\ Has(v)' /\ pt'[v] = g
           /\ \A w \in Pages \ {v} : pt'[w] = pt[w] /\ (Has(w) => Has(w)')
           /\ Has(v) /\ v \in user => pt[v] = g
           /\ \A f \in used' : f \in used \/ \E r \in Regions : f \in tables'[r]
           /\ \A r \in Regions : \A f \in tables[r] : f \in tables'[r]
<1>1. PICK none \in SUBSET Free : none = {}
  OBVIOUS
<1>2. IsFiniteSet(none) /\ MapPage(v, g, flags, none)
  BY <1>1, FS_EmptySet
<1>3. MapsTo(v, g, none)
  BY <1>2, MapLoses
<1>. QED BY <1>1, <1>3 DEF MapsTo

\* What is not touched stays in use.
LEMMA UseStays ==
    ASSUME NEW f, InUse(f), \A g : Held(g) => Held(g)',
           \A w \in Pages : Has(w) /\ pt[w] = f => Has(w)' /\ pt'[w] = pt[w],
           \A r \in Regions : tables[r] \subseteq tables'[r]
    PROVE  InUse(f)'
  BY DEF InUse

\* pfa_alloc_frame and paging_map_page for a page that is not present, or that a process
\* may access: every marked frame that had a use has one.
LEMMA AllocLoses ==
    ASSUME TypeOK, Single, NEW v \in Pages, v \notin Frames, v # TestPage, NEW flags,
           AllocAndMap(v, flags), UNCHANGED <<sh, frame>>, pt[v] # NULL => v \in user,
           ~Excused, NEW f \in used', f \in used => InUse(f)
    PROVE  InUse(f)'
<1>1. PICK g \in Free : MapPage(v, g, flags, {g})
  BY LowestIsFree DEF AllocAndMap
<1>2. g \in Frames /\ g \notin used /\ {g} \in SUBSET Free
  BY DEF Free
<1>3. IsFiniteSet({g})
  BY FS_Singleton
<1>4. /\ Has(v)' /\ pt'[v] = g
      /\ \A w \in Pages \ {v} : pt'[w] = pt[w] /\ (Has(w) => Has(w)')
      /\ Has(v) /\ v \in user => pt[v] = g
      /\ \A h \in used' : h \in used \/ h \in {g} \/ \E r \in Regions : h \in tables'[r]
      /\ \A r \in Regions : \A h \in tables[r] : h \in tables'[r]
  <2>1. MapsTo(v, g, {g})
    BY <1>1, <1>2, <1>3, MapLoses
  <2>. QED BY <2>1 DEF MapsTo
<1>5. ~Has(v)
  BY <1>2, <1>4 DEF Has, Single
<1>6. \A h : Held(h) => Held(h)'
  BY <1>4, Places DEF Held
<1>7. CASE f \in used
  BY <1>4, <1>5, <1>6, <1>7, UseStays
<1>8. CASE f = g
  BY <1>4, <1>8 DEF InUse
<1>9. CASE \E r \in Regions : f \in tables'[r]
  BY <1>9 DEF InUse
<1>. QED BY <1>4, <1>7, <1>8, <1>9

\* A step that leaves memory alone, and the frame the shell holds with the shell.
LEMMA QuietLoses ==
    ASSUME UNCHANGED memory, \A g : Held(g) => Held(g)', NEW f, InUse(f)
    PROVE  InUse(f)'
<1>1. used' = used /\ pt' = pt /\ tables' = tables /\ \A w : Has(w)' <=> Has(w)
  BY DEF memory, Has
<1>. QED BY <1>1, UseStays

\* The loops of VMM::sbrk, thread_create_user and sys_sbrk.
LEMMA LoopsLose ==
    ASSUME IInv, Unmapped, ~failed, ~Excused, SbrkPage \/ CreateStackPage \/ SysSbrkPage,
           NEW f \in used', f \in used => InUse(f)
    PROVE  InUse(f)'
<1>0. TypeOK /\ Single /\ Bounds
  BY DEF IInv
<1>1. sh' = sh /\ frame' = frame
  BY DEF SbrkPage, CreateStackPage, SysSbrkPage, shell
<1>2. ASSUME UNCHANGED memory PROVE InUse(f)'
  <2>1. used' = used /\ \A g : Held(g) => Held(g)'
    BY <1>1, <1>2 DEF memory, Held
  <2>. QED BY <1>2, <2>1, QuietLoses
<1>3. CASE SbrkPage /\ AllocAndMap(KernelBase + at, "kernel")
  <2>1. at \in Nat /\ at = brk /\ at < MaxKernel
    BY <1>0, <1>3, Places DEF SbrkPage, Bounds, TypeOK
  <2>2. PICK v \in Pages : v = KernelBase + at
    BY <2>1, Places
  <2>3. v \notin Frames /\ v # TestPage /\ pt[v] = NULL
    BY <2>1, <2>2, Places DEF Unmapped
  <2>. QED BY <1>0, <1>1, <1>3, <2>2, <2>3, AllocLoses
<1>4. CASE CreateStackPage /\ AllocAndMap(StackBase + at, "user")
  <2>1. at \in Nat /\ at < StackPages
    BY <1>0, <1>4, Places DEF CreateStackPage, Bounds, TypeOK
  <2>2. PICK v \in Pages : v = StackBase + at
    BY <2>1, Places
  <2>3. v \notin Frames /\ v # TestPage /\ (pt[v] # NULL => v \in user)
    BY <2>1, <2>2, Places DEF Unmapped
  <2>. QED BY <1>0, <1>1, <1>4, <2>2, <2>3, AllocLoses
<1>5. CASE SysSbrkPage /\ ~UNCHANGED memory
  <2>0. at < to /\ cpu = "sys_sbrk"
    BY <1>5, Zenon DEF SysSbrkPage
  <2>1. at \in Nat /\ at < MaxHeap
    BY <1>0, <2>0, Layout DEF Bounds, TypeOK
  <2>2. PICK v \in Pages : v = HeapBase + at
    BY <2>1, Places
  <2>3. v \notin Frames /\ v # TestPage
    BY <2>1, <2>2, Places
  <2>4. IF pt[v] # NULL THEN MapPage(v, pt[v], "user", {}) ELSE AllocAndMap(v, "user")
    BY <1>5, <2>2 DEF SysSbrkPage
  <2>5. CASE pt[v] = NULL
    BY <1>0, <1>1, <2>3, <2>4, <2>5, AllocLoses
  <2>6. CASE pt[v] # NULL
    <3>1. PICK g \in Frames : g = pt[v]
      BY <1>0, <2>6 DEF TypeOK
    <3>2. MapPage(v, g, "user", {})
      BY <2>4, <2>6, <3>1
    <3>4. /\ Has(v)' /\ pt'[v] = g
          /\ \A w \in Pages \ {v} : pt'[w] = pt[w] /\ (Has(w) => Has(w)')
          /\ \A h \in used' : h \in used \/ \E r \in Regions : h \in tables'[r]
          /\ \A r \in Regions : \A h \in tables[r] : h \in tables'[r]
      BY <1>0, <2>3, <3>2, MapOnlyLoses
    <3>5. \A h : Held(h) => Held(h)'
      BY <1>1, <2>3, <3>4, Places DEF Held
    <3>6. CASE f \in used
      BY <3>1, <3>4, <3>5, <3>6, UseStays
    <3>7. CASE \E r \in Regions : f \in tables'[r]
      BY <3>7 DEF InUse
    <3>. QED BY <3>4, <3>6, <3>7
  <2>. QED BY <2>5, <2>6
<1>. QED BY <1>2, <1>3, <1>4, <1>5 DEF SbrkPage, CreateStackPage

\* kex_load and testpaging take a frame, map it, unmap it and give it back.
LEMMA ShellLoses ==
    ASSUME IInv, Unmapped, ~failed, ~Excused,
           LoadAlloc \/ LoadMap \/ TestAlloc \/ TestMap \/ TestUnmap \/ TestFree,
           NEW f \in used', f \in used => InUse(f)
    PROVE  InUse(f)'
<1>0. TypeOK /\ Single /\ Bounds
  BY DEF IInv
<1>1. CASE LoadAlloc \/ TestAlloc
  <2>1. PICK g \in Free : frame' = g /\ used' = used \cup {g}
    BY <1>1, LowestIsFree DEF LoadAlloc, TestAlloc
  <2>2. sh' \in {"map", "test_map"} /\ sh \in {"idle", "alloc"} /\ UNCHANGED <<pt, user, tables>>
    BY <1>1 DEF LoadAlloc, TestAlloc
  <2>3. \A h : ~Held(h)
    BY <2>2 DEF Held
  <2>4. Held(g)'
    BY <2>1, <2>2 DEF Held
  <2>5. \A w : Has(w) => Has(w)'
    BY <2>2 DEF Has
  <2>6. CASE f \in used
    BY <2>2, <2>3, <2>5, <2>6, UseStays
  <2>. QED BY <2>1, <2>4, <2>6 DEF InUse
<1>2. CASE LoadMap
  <2>1. lp \in Frames /\ frame \in Frames /\ lp \in Pages
    BY <1>0, <1>2, Places DEF Bounds, TypeOK, LoadMap, Testing, Loading, Frames
  <2>2. PICK v \in Pages, g \in Frames : v = lp /\ g = frame
    BY <2>1
  <2>3. MapPage(v, g, "user", {})
    BY <1>2, <2>2 DEF LoadMap
  <2>4. /\ Has(v)' /\ pt'[v] = g
        /\ \A w \in Pages \ {v} : pt'[w] = pt[w] /\ (Has(w) => Has(w)')
        /\ Has(v) /\ v \in user => pt[v] = g
        /\ \A h \in used' : h \in used \/ \E r \in Regions : h \in tables'[r]
        /\ \A r \in Regions : \A h \in tables[r] : h \in tables'[r]
    BY <1>0, <2>3, MapOnlyLoses
  <2>5. Held(g) /\ \A h : Held(h) => h = g
    BY <1>2, <2>2 DEF Held, LoadMap
  <2>6. ~Has(v)
    BY <1>0, <2>1, <2>2, <2>4, <2>5 DEF Has, Single
  <2>7. CASE f = g
    BY <2>4, <2>7 DEF InUse
  <2>8. CASE f \in used /\ f # g
    BY <2>4, <2>5, <2>6, <2>8 DEF InUse
  <2>9. CASE \E r \in Regions : f \in tables'[r]
    BY <2>9 DEF InUse
  <2>. QED BY <2>4, <2>7, <2>8, <2>9
<1>3. CASE TestMap
  <2>1. frame \in Frames /\ TestPage \in Pages /\ TestPage \notin Frames
    BY <1>0, <1>3, Places DEF Bounds, TestMap, Testing
  <2>2. PICK v \in Pages, g \in Frames : v = TestPage /\ g = frame
    BY <2>1
  <2>3. MapPage(v, g, "kernel", {})
    BY <1>3, <2>2 DEF TestMap
  <2>4. /\ Has(v)' /\ pt'[v] = g
        /\ \A w \in Pages \ {v} : pt'[w] = pt[w] /\ (Has(w) => Has(w)')
        /\ \A h \in used' : h \in used \/ \E r \in Regions : h \in tables'[r]
        /\ \A r \in Regions : \A h \in tables[r] : h \in tables'[r]
    BY <1>0, <2>1, <2>2, <2>3, MapOnlyLoses
  <2>5. Held(g) /\ \A h : Held(h) => h = g
    BY <1>3, <2>2 DEF Held, TestMap
  <2>6. ~Has(v)
    BY <1>3, <2>2 DEF Has, Unmapped, TestMap
  <2>7. CASE f = g
    BY <2>4, <2>7 DEF InUse
  <2>8. CASE f \in used /\ f # g
    BY <2>4, <2>5, <2>6, <2>8 DEF InUse
  <2>9. CASE \E r \in Regions : f \in tables'[r]
    BY <2>9 DEF InUse
  <2>. QED BY <2>4, <2>7, <2>8, <2>9
<1>4. CASE TestUnmap
  <2>1. frame' = frame /\ used' = used /\ tables' = tables /\ Held(frame)'
    BY <1>4 DEF Held, TestUnmap
  <2>2. /\ \A w \in Pages \ {TestPage} : pt'[w] = pt[w] /\ (Has(w) => Has(w)')
    BY <1>0, <1>4 DEF Has, TestUnmap, TypeOK
  <2>3. CASE f = frame
    BY <2>1, <2>3 DEF InUse
  <2>4. CASE f # frame /\ ~(Has(TestPage) /\ pt[TestPage] = f)
    BY <2>1, <2>2, <2>4 DEF InUse, Held
  <2>5. CASE f # frame /\ Has(TestPage) /\ pt[TestPage] = f
    BY <2>5 DEF Unmapped, Has
  <2>. QED BY <2>3, <2>4, <2>5
<1>5. CASE TestFree
  <2>1. used' = used \ {frame} /\ UNCHANGED <<pt, user, tables>>
    BY <1>5 DEF TestFree
  <2>2. f \in used /\ ~Held(f)
    BY <2>1 DEF Held
  <2>3. \A w : Has(w) => Has(w)'
    BY <2>1 DEF Has
  <2>. QED BY <2>1, <2>2, <2>3 DEF InUse
<1>. QED BY <1>1, <1>2, <1>3, <1>4, <1>5

\* cleanup_zombies frees the frame of every page it unmaps.
LEMMA CleanupLoses ==
    ASSUME IInv, CleanupZombies, NEW f \in used', f \in used => InUse(f)
    PROVE  InUse(f)'
<1>1. PICK vs : vs = {v \in UNION {PagesOf(z) : z \in zombies} : pt[v] # NULL}
  OBVIOUS
<1>2. /\ used' = used \ {pt[v] : v \in vs}
      /\ pt' = [v \in Pages |-> IF v \in vs THEN NULL ELSE pt[v]]
      /\ user' = user \ vs /\ tables' = tables /\ sh' = sh /\ frame' = frame
  BY <1>1, Zenon DEF CleanupZombies, FreeAndUnmap, shell
<1>3. f \in used /\ \A v \in vs : pt[v] # f
  BY <1>2
<1>4. \A w \in Pages : Has(w) /\ pt[w] = f => Has(w)' /\ pt'[w] = f
  BY <1>2, <1>3 DEF Has
<1>5. TestPage \notin vs
  <2>1. ASSUME TestPage \in vs PROVE FALSE
    <3>1. PICK z \in zombies : TestPage \in PagesOf(z)
      BY <1>1, <2>1
    <3>2. z \in Ends /\ z.first = ImageBase /\ z.last <= TotalFrames /\ z.heap <= MaxHeap
      BY DEF IInv, Bounds, TypeOK
    <3>3. z.first \in Nat /\ z.last \in Nat /\ z.heap \in Nat
      BY <3>2 DEF Ends
    <3>. QED BY <3>1, <3>2, <3>3, Layout DEF PagesOf, TestPage, KernelBase, HeapBase, StackBase
  <2>. QED BY <2>1
<1>6. pt'[TestPage] = pt[TestPage]
  BY <1>2, <1>5, Places
<1>7. \A g : Held(g) => Held(g)'
  BY <1>2, <1>6 DEF Held
<1>. QED BY <1>2, <1>3, <1>4, <1>7 DEF InUse

\* No step loses a frame in another way.
LEMMA StepLoses ==
    ASSUME IInv, Unmapped, [Next]_vars, ~failed', ~Excused
    PROVE  Lost' \subseteq Lost
<1>1. SUFFICES ASSUME NEW f \in used', f \in used => InUse(f)
               PROVE  InUse(f)'
  <2>1. \A f : f \in Lost <=> f \in used /\ ~InUse(f)
    BY LostFrames
  <2>2. (\A f : f \in Lost <=> f \in used /\ ~InUse(f))'
    <3>1. (\A v : v \in Own <=> v \in Pages /\ Has(v))'
      BY DEF Own, Has
    <3>2. ASSUME NEW f PROVE (f \in Lost <=> f \in used /\ ~InUse(f))'
      <4>1. f \in Mapped' <=> \E v \in Pages : Has(v)' /\ pt'[v] = f
        BY <3>1 DEF Mapped
      <4>2. f \in Tables' <=> \E r \in Regions : f \in tables'[r]
        BY DEF Tables
      <4>3. f \in InFlight' <=> Held(f)'
        BY DEF InFlight, Held
      <4>. QED BY <4>1, <4>2, <4>3 DEF Lost, InUse
    <3>. QED BY <3>2
  <2>. QED BY <2>1, <2>2, <1>1
<1>2. ~failed
  BY DEF Next, vars, Sbrk, SbrkPage, SbrkDone, KexLoad, CreateStackPage, Created, LoadAlloc,
         LoadMap, LoadFails, LoadDone, TestAlloc, TestMap, TestUnmap, TestFree, SysSbrk,
         SysSbrkPage, SysSbrkDone, Exit, CleanupZombies
<1>3. ASSUME UNCHANGED memory, frame' = frame \/ sh \notin Testing \cup {"map"},
             sh' = sh \/ sh \notin Testing \cup {"map"}
      PROVE  InUse(f)'
  <2>1. used' = used /\ \A g : Held(g) => Held(g)'
    BY <1>3 DEF memory, Held, Testing
  <2>. QED BY <1>1, <1>3, <2>1, QuietLoses
<1>4. CASE SbrkPage \/ CreateStackPage \/ SysSbrkPage
  BY <1>1, <1>2, <1>4, LoopsLose
<1>5. CASE LoadAlloc \/ LoadMap \/ TestAlloc \/ TestMap \/ TestUnmap \/ TestFree
  BY <1>1, <1>2, <1>5, ShellLoses
<1>6. CASE CleanupZombies
  BY <1>1, <1>6, CleanupLoses
<1>7. CASE \E n \in 1..MaxKernel : Sbrk(n)
  BY <1>3, <1>7 DEF Sbrk, shell
<1>8. CASE \E n \in (-MaxHeap)..MaxHeap : SysSbrk(n)
  BY <1>3, <1>8 DEF SysSbrk, shell
<1>9. CASE SbrkDone \/ KexLoad \/ SysSbrkDone \/ Exit
  BY <1>3, <1>9 DEF SbrkDone, KexLoad, SysSbrkDone, Exit, shell
<1>10. CASE Created
  BY <1>3, <1>10 DEF Created, IInv, Bounds, Testing
<1>11. CASE LoadDone
  BY <1>3, <1>11 DEF LoadDone, Testing
<1>12. CASE LoadFails
  BY <1>12 DEF LoadFails
<1>13. CASE UNCHANGED vars
  BY <1>3, <1>13 DEF vars, memory
<1>. QED BY <1>4, <1>5, <1>6, <1>7, <1>8, <1>9, <1>10, <1>11, <1>12, <1>13 DEF Next

\* Mapping a page of another part keeps the unmapped parts unmapped.
LEMMA UnmappedKept ==
    ASSUME TypeOK, Unmapped, NEW v \in Pages, NEW g, NEW flags, NEW avoid,
           MapPage(v, g, flags, avoid),
           flags = "user" \/ \A i \in Nat : i < StackPages => v # StackBase + i
    PROVE  /\ \A i \in Nat : brk <= i /\ i < MaxKernel /\ KernelBase + i # v =>
                 pt'[KernelBase + i] = NULL
           /\ \A i \in Nat : i < StackPages /\ pt'[StackBase + i] # NULL => StackBase + i \in user'
           /\ v # TestPage => pt'[TestPage] = pt[TestPage]
<1>1. \/ /\ \A w \in Pages : pt'[w] = IF w = v THEN g ELSE pt[w]
         /\ user' = IF flags = "user" THEN user \cup {v} ELSE user \ {v}
      \/ pt' = pt /\ user' = user
  BY DEF MapPage, TypeOK
<1>2. /\ TestPage \in Pages
      /\ \A i \in Nat : i < StackPages => StackBase + i \in Pages
      /\ \A i \in Nat : i < MaxKernel => KernelBase + i \in Pages
  BY Places
<1>3. \A i \in Nat : brk <= i /\ i < MaxKernel /\ KernelBase + i # v => pt'[KernelBase + i] = NULL
  BY <1>1, <1>2 DEF Unmapped
<1>4. \A i \in Nat : i < StackPages /\ pt'[StackBase + i] # NULL => StackBase + i \in user'
  <2>. SUFFICES ASSUME NEW i \in Nat, i < StackPages, pt'[StackBase + i] # NULL
                PROVE  StackBase + i \in user'
    OBVIOUS
  <2>1. PICK w \in Pages : w = StackBase + i
    BY <1>2
  <2>2. pt[w] # NULL => w \in user
    BY <2>1 DEF Unmapped
  <2>3. v = w => flags = "user"
    BY <2>1
  <2>. QED BY <1>1, <2>1, <2>2, <2>3
<1>5. v # TestPage => pt'[TestPage] = pt[TestPage]
  BY <1>1, <1>2
<1>. QED BY <1>3, <1>4, <1>5

\* No step maps one of these pages otherwise.
LEMMA StepKeepsUnmapped ==
    ASSUME IInv, Unmapped, [Next]_vars
    PROVE  Unmapped'
<1>0. TypeOK /\ Bounds /\ brk \in Nat /\ at \in Nat /\ to \in Nat
  BY Places DEF IInv, TypeOK
<1>1. ASSUME pt' = pt, user' = user, brk' = brk,
             UNCHANGED <<sh, frame>> \/ sh # "test_unmap"
      PROVE  Unmapped'
  BY <1>1 DEF Unmapped
<1>2. ASSUME NEW v \in Pages, NEW g, NEW flags, NEW avoid, MapPage(v, g, flags, avoid),
             flags = "user" \/ \A i \in Nat : i < StackPages => v # StackBase + i,
             \A i \in Nat : i < MaxKernel => KernelBase + i # v,
             v # TestPage, brk' = brk, UNCHANGED <<sh, frame>> \/ sh # "test_unmap"
      PROVE  Unmapped'
  <2>1. /\ \A i \in Nat : brk <= i /\ i < MaxKernel /\ KernelBase + i # v =>
                 pt'[KernelBase + i] = NULL
        /\ \A i \in Nat : i < StackPages /\ pt'[StackBase + i] # NULL => StackBase + i \in user'
        /\ pt'[TestPage] = pt[TestPage]
    BY <1>0, <1>2, UnmappedKept
  <2>. QED BY <1>2, <2>1 DEF Unmapped
<1>3. CASE SbrkPage
  <2>1. CASE UNCHANGED <<memory, brk>>
    BY <1>1, <1>3, <2>1 DEF SbrkPage, memory, shell
  <2>2. CASE AllocAndMap(KernelBase + at, "kernel") /\ brk' = brk + 1
    <3>1. at = brk /\ at < MaxKernel
      BY <1>0, <1>3, Places DEF SbrkPage, Bounds
    <3>2. PICK v \in Pages : v = KernelBase + brk
      BY <1>0, <3>1, Places
    <3>3. PICK g : MapPage(v, g, "kernel", {g})
      BY <2>2, <3>1, <3>2 DEF AllocAndMap
    <3>4. /\ \A i \in Nat : i < StackPages => v # StackBase + i
          /\ \A i \in Nat : brk + 1 <= i => KernelBase + i # v
          /\ v # TestPage
      BY <1>0, <3>1, <3>2, Layout DEF TestPage, KernelBase, HeapBase, StackBase
    <3>5. /\ \A i \in Nat : brk <= i /\ i < MaxKernel /\ KernelBase + i # v =>
                 pt'[KernelBase + i] = NULL
          /\ \A i \in Nat : i < StackPages /\ pt'[StackBase + i] # NULL => StackBase + i \in user'
          /\ pt'[TestPage] = pt[TestPage]
      BY <1>0, <3>3, <3>4, UnmappedKept
    <3>6. \A i \in Nat : brk + 1 <= i => brk <= i
      BY <1>0
    <3>7. sh' = sh /\ frame' = frame
      BY <1>3 DEF SbrkPage, shell
    <3>. QED BY <2>2, <3>4, <3>5, <3>6, <3>7 DEF Unmapped
  <2>. QED BY <1>3, <2>1, <2>2 DEF SbrkPage
<1>4. CASE CreateStackPage
  <2>0. brk' = brk /\ sh' = sh /\ frame' = frame
    BY <1>4 DEF CreateStackPage
  <2>1. CASE UNCHANGED memory
    BY <1>1, <2>0, <2>1 DEF memory
  <2>2. CASE AllocAndMap(StackBase + at, "user")
    <3>1. at < StackPages
      BY <1>0, <1>4, Places DEF CreateStackPage, Bounds
    <3>2. PICK v \in Pages : v = StackBase + at
      BY <1>0, <3>1, Places
    <3>3. PICK g : MapPage(v, g, "user", {g})
      BY <2>2, <3>2 DEF AllocAndMap
    <3>4. v # TestPage /\ \A i \in Nat : KernelBase + i # v
      BY <1>0, <3>1, <3>2, Layout DEF TestPage, KernelBase, HeapBase, StackBase
    <3>. QED BY <1>2, <2>0, <3>3, <3>4
  <2>. QED BY <1>4, <2>1, <2>2 DEF CreateStackPage
<1>5. CASE SysSbrkPage
  <2>0. brk' = brk /\ sh' = sh /\ frame' = frame
    BY <1>5 DEF SysSbrkPage, shell
  <2>1. CASE UNCHANGED memory
    BY <1>1, <2>0, <2>1 DEF memory
  <2>2. CASE ~UNCHANGED memory
    <3>1. at < MaxHeap
      BY <1>0, <1>5, Places DEF SysSbrkPage, Bounds
    <3>2. PICK v \in Pages : v = HeapBase + at
      BY <1>0, <3>1, Places
    <3>3. PICK g, avoid : MapPage(v, g, "user", avoid)
      BY <1>5, <2>2, <3>2 DEF SysSbrkPage, AllocAndMap
    <3>4. v # TestPage /\ \A i \in Nat : KernelBase + i # v
      BY <1>0, <3>1, <3>2, Layout DEF TestPage, KernelBase, HeapBase, StackBase
    <3>. QED BY <1>2, <2>0, <3>3, <3>4
  <2>. QED BY <2>1, <2>2
<1>6. CASE LoadMap
  <2>1. PICK v \in Pages : v = lp /\ v \in Frames
    BY <1>0, <1>6, Places DEF Bounds, TypeOK, LoadMap, Testing, Loading, Frames
  <2>2. v # TestPage /\ \A i \in Nat : i < MaxKernel => KernelBase + i # v
    BY <2>1, Places
  <2>3. MapPage(v, frame, "user", {}) /\ brk' = brk /\ sh # "test_unmap"
    BY <1>6, <2>1 DEF LoadMap
  <2>. QED BY <1>2, <2>2, <2>3
<1>7. CASE TestMap
  <2>1. PICK v \in Pages : v = TestPage
    BY Places
  <2>2. MapPage(v, frame, "kernel", {}) /\ brk' = brk /\ sh = "test_map" /\ frame' = frame
        /\ sh' = "test_unmap"
    BY <1>7, <2>1 DEF TestMap
  <2>3. /\ \A i \in Nat : i < StackPages => v # StackBase + i
        /\ \A i \in Nat : i < MaxKernel => KernelBase + i # v
    BY <2>1, Places
  <2>4. /\ \A i \in Nat : brk <= i /\ i < MaxKernel => pt'[KernelBase + i] = NULL
        /\ \A i \in Nat : i < StackPages /\ pt'[StackBase + i] # NULL => StackBase + i \in user'
    BY <1>0, <2>2, <2>3, UnmappedKept
  <2>5. pt[TestPage] = NULL
    BY <2>2 DEF Unmapped
  <2>6. pt'[TestPage] = NULL \/ pt'[TestPage] = frame
    BY <1>0, <2>1, <2>2, <2>5 DEF MapPage, TypeOK
  <2>. QED BY <2>2, <2>4, <2>6 DEF Unmapped
<1>8. CASE TestUnmap
  <2>1. /\ pt'[TestPage] = NULL /\ \A w \in Pages \ {TestPage} : pt'[w] = pt[w]
        /\ user' = user /\ brk' = brk
    BY <1>0, <1>8, Places DEF TestUnmap, TypeOK
  <2>2. /\ \A i \in Nat : i < StackPages => StackBase + i \in Pages \ {TestPage}
        /\ \A i \in Nat : i < MaxKernel => KernelBase + i \in Pages \ {TestPage}
    BY Places
  <2>. QED BY <2>1, <2>2 DEF Unmapped
<1>9. CASE CleanupZombies
  <2>1. PICK vs : /\ pt' = [v \in Pages |-> IF v \in vs THEN NULL ELSE pt[v]]
                  /\ user' = user \ vs
    BY <1>9, Zenon DEF CleanupZombies, FreeAndUnmap
  <2>2. brk' = brk /\ sh' = sh /\ frame' = frame
    BY <1>9 DEF CleanupZombies, shell
  <2>3. /\ TestPage \in Pages
        /\ \A i \in Nat : i < StackPages => StackBase + i \in Pages
        /\ \A i \in Nat : i < MaxKernel => KernelBase + i \in Pages
    BY Places
  <2>4. \A w \in Pages : pt'[w] = NULL \/ (pt'[w] = pt[w] /\ w \notin vs)
    BY <2>1
  <2>. QED BY <2>1, <2>2, <2>3, <2>4 DEF Unmapped
<1>10. CASE \E n \in 1..MaxKernel : Sbrk(n)
  BY <1>1, <1>10 DEF Sbrk, shell, memory
<1>11. CASE \E n \in (-MaxHeap)..MaxHeap : SysSbrk(n)
  BY <1>1, <1>11 DEF SysSbrk, shell, memory
<1>12. CASE SbrkDone \/ KexLoad \/ SysSbrkDone \/ Exit
  BY <1>1, <1>12 DEF SbrkDone, KexLoad, SysSbrkDone, Exit, shell, memory
<1>13. CASE Created
  BY <1>0, <1>1, <1>13 DEF Created, Bounds, memory
<1>14. CASE LoadDone \/ LoadFails \/ LoadAlloc \/ TestAlloc \/ TestFree
  BY <1>1, <1>14 DEF LoadDone, LoadFails, LoadAlloc, TestAlloc, TestFree, memory
<1>15. CASE UNCHANGED vars
  BY <1>1, <1>15 DEF vars
<1>. QED BY <1>3, <1>4, <1>5, <1>6, <1>7, <1>8, <1>9, <1>10, <1>11, <1>12, <1>13, <1>14, <1>15
         DEF Next

\* The boot maps none of these pages.
LEMMA InitIsUnmapped == Init => Unmapped
<1> SUFFICES ASSUME Init PROVE Unmapped
  OBVIOUS
<1>1. pt = [v \in Pages |-> IF v \in Frames THEN v ELSE NULL]
  BY DEF Init
<1>2. \A v \in Pages \ Frames : pt[v] = NULL
  BY <1>1
<1>. QED BY <1>2, Places DEF Unmapped

\* FramesAreLostTwoWays, for every layout: a step after which a marked frame has no use any
\* more leaves no free frame behind (the early return of thread.cpp:303 and the silent one
\* of paging.cpp:205), or maps another frame over a page of a process.
THEOREM FramesAreNotLostOtherwise == Spec => FramesAreLostTwoWays
<1>1. Init => Unmapped
  BY InitIsUnmapped
<1>2. IInv /\ Unmapped /\ [Next]_vars => Unmapped'
  BY StepKeepsUnmapped
<1>3. IInv /\ Unmapped /\ [Next]_vars =>
        [~failed' /\ ~(Lost' \subseteq Lost) =>
           \/ used' = Frames
           \/ \E v \in user : pt[v] # NULL /\ pt'[v] \notin {pt[v], NULL}]_vars
  BY StepLoses DEF Excused
<1>4. Init => IInv
  BY InitEstablishes
<1>5. IInv /\ [Next]_vars => IInv'
  BY StepKeeps
<1>. QED BY <1>1, <1>2, <1>3, <1>4, <1>5, PTL DEF Spec, FramesAreLostTwoWays
=============================================================================
