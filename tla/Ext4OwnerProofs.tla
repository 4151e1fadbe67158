--------------------------- MODULE Ext4OwnerProofs ---------------------------
(***************************************************************************)
(* On a disk without a journal every block belongs to one place of one     *)
(* file or directory, wherever the power is cut (BlocksKeepOneOwner).      *)
(*                                                                         *)
(* The property is not inductive.  A running call has writes still to be   *)
(* made, so the disk, and the disk after each of them, must be Fair: there *)
(* is a share of blocks for every inode, apart from the others' and marked *)
(* in the bitmap, that holds what the inode refers to (Chains).  An        *)
(* Ext4File writes back the inode it has cached, so the cached extents     *)
(* must lie in that share too, and two Ext4Files of one file only ever add *)
(* to it.  The share is larger than what the inode on the disk refers to:  *)
(* that is what makes the argument go through when a file is open twice.   *)
(***************************************************************************)
EXTENDS Ext4Proofs

\* The blocks an inode refers to; every one only once.
RangeOf(e) == e.start .. e.start + e.len - 1
BlocksOf(inode) == UNION {RangeOf(inode.ext[k]) : k \in 1..Len(inode.ext)}
Once(inode) ==
    \A k, l \in 1..Len(inode.ext) : k # l => RangeOf(inode.ext[k]) \cap RangeOf(inode.ext[l]) = {}

\* O gives every inode blocks of its own, that are in use, and the inode refers to no others.
Shares == [Inodes -> SUBSET Blocks]
Apart(O) == \A i, j \in Inodes : i # j => O[i] \cap O[j] = {}
Owned(d, O) ==
    /\ Apart(O)
    /\ \A j \in Inodes : Once(d[Ino(j)]) /\ BlocksOf(d[Ino(j)]) \subseteq O[j] /\ O[j] \subseteq d[BBitmap]
Fair(d) == \E O \in Shares : Owned(d, O)

Counted(d) ==
    /\ d[Desc].freeBlocks = Cardinality(Blocks \ d[BBitmap])
    /\ d[Desc].freeInodes = Cardinality(Inodes \ d[IBitmap])

\* The disk after one write.
Put(d, c, v) == [d EXCEPT ![c] = v]

\* The disks that the writes of q lead through, from d to e: all of them are fair, so the
\* power may be cut between any two writes.
Chains(d, q, e) ==
    {ds \in [0..Len(q) -> Disks] :
        /\ ds[0] = d /\ ds[Len(q)] = e
        /\ \A k \in 1..Len(q) : ds[k] = [ds[k - 1] EXCEPT ![q[k].cell] = q[k].val]
        /\ \A k \in 0..Len(q) : Fair(ds[k])}

\* What a call on a disk without a journal has done to disk d0 so far.
Run(d0, O, t) == Sound(t) /\ Chains(d0, t.out, t.disk) # {} /\ Owned(t.disk, O)

\* One more write at the end of a chain.
LEMMA ChainGrows ==
    ASSUME NEW d, NEW q \in Seq(Writes), NEW e \in Disks, Chains(d, q, e) # {},
           NEW c \in Cells, NEW v \in Contents(c), Fair([e EXCEPT ![c] = v])
    PROVE  Chains(d, Append(q, [cell |-> c, val |-> v]), [e EXCEPT ![c] = v]) # {}
<1> DEFINE n == Len(q)
           w == [cell |-> c, val |-> v]
           r == Append(q, w)
           f == [e EXCEPT ![c] = v]
<1>1. n \in Nat /\ w \in Writes /\ f \in Disks /\ w.cell = c /\ w.val = v
  BY DiskUpdate
<1>2. Len(r) = n + 1 /\ r[n + 1] = w /\ \A k \in 1..n : r[k] = q[k]
  BY <1>1, AppendProperties
<1>3. PICK ds \in [0..n -> Disks] :
        /\ ds[0] = d /\ ds[n] = e
        /\ \A k \in 1..n : ds[k] = [ds[k - 1] EXCEPT ![q[k].cell] = q[k].val]
        /\ \A k \in 0..n : Fair(ds[k])
  BY Zenon DEF Chains
<1> DEFINE es == [k \in 0 .. n + 1 |-> IF k = n + 1 THEN f ELSE ds[k]]
<1>. HIDE DEF n, w, r, f
<1>4. es \in [0 .. n + 1 -> Disks] /\ es[n + 1] = f /\ \A k \in 0..n : es[k] = ds[k]
  BY <1>1, <1>3
<1>. HIDE DEF es
<1>5. es[0] = d /\ es[n] = e
  BY <1>1, <1>3, <1>4
<1>6. \A k \in 0 .. n + 1 : Fair(es[k])
  <2>1. Fair(f)
    BY DEF f
  <2>2. TAKE k \in 0 .. n + 1
  <2>3. k = n + 1 \/ k \in 0..n
    BY <1>1
  <2>. QED BY <1>3, <1>4, <2>1, <2>3
<1>7. \A k \in 1 .. n + 1 : es[k] = [es[k - 1] EXCEPT ![r[k].cell] = r[k].val]
  <2>1. TAKE k \in 1 .. n + 1
  <2>2. CASE k = n + 1
    <3>1. k - 1 = n
      BY <1>1, <2>2
    <3>2. f = [e EXCEPT ![w.cell] = w.val]
      BY <1>1 DEF f
    <3>. QED BY <1>2, <1>4, <1>5, <2>2, <3>1, <3>2, Zenon
  <2>3. CASE k # n + 1
    <3>1. k \in 1..n /\ k \in 0..n /\ k - 1 \in 0..n
      BY <1>1, <2>3
    <3>. QED BY <1>2, <1>3, <1>4, <3>1, Zenon
  <2>. QED BY <2>2, <2>3
<1>8. es \in Chains(d, r, f)
  BY <1>2, <1>4, <1>5, <1>6, <1>7, Zenon DEF Chains
<1>. QED BY <1>8, Zenon DEF r, f, w

\* The first write of a chain is made.
LEMMA ChainMoves ==
    ASSUME NEW d, NEW q \in Seq(Writes), q # <<>>, NEW e, Chains(d, q, e) # {}
    PROVE  Chains([d EXCEPT ![Head(q).cell] = Head(q).val], Tail(q), e) # {}
<1> DEFINE n == Len(q)
           r == Tail(q)
           f == [d EXCEPT ![Head(q).cell] = Head(q).val]
<1>1. n \in Nat /\ n >= 1 /\ Head(q) = q[1]
  BY EmptySeq
<1>2. Len(r) = n - 1 /\ \A k \in 1 .. n - 1 : r[k] = q[k + 1]
  BY HeadTailProperties
<1>3. PICK ds \in [0..n -> Disks] :
        /\ ds[0] = d /\ ds[n] = e
        /\ \A k \in 1..n : ds[k] = [ds[k - 1] EXCEPT ![q[k].cell] = q[k].val]
        /\ \A k \in 0..n : Fair(ds[k])
  BY DEF Chains
<1> DEFINE es == [k \in 0 .. n - 1 |-> ds[k + 1]]
<1>. HIDE DEF n, r, f
<1>4. \A k \in 0 .. n - 1 : k + 1 \in 0..n /\ k + 1 \in 1..n
  BY <1>1
<1>5. es \in [0 .. n - 1 -> Disks] /\ \A k \in 0 .. n - 1 : es[k] = ds[k + 1] /\ Fair(es[k])
  BY <1>3, <1>4
<1>. HIDE DEF es
<1>6. es[n - 1] = e
  <2>1. n - 1 \in 0 .. n - 1 /\ (n - 1) + 1 = n
    BY <1>1
  <2>. QED BY <1>3, <1>5, <2>1
<1>7. es[0] = f
  <2>1. 0 \in 0 .. n - 1 /\ 1 \in 1..n /\ 0 + 1 = 1 /\ 1 - 1 = 0
    BY <1>1
  <2>2. ds[1] = [ds[0] EXCEPT ![q[1].cell] = q[1].val]
    BY <1>3, <2>1, Zenon
  <2>. QED BY <1>1, <1>3, <1>5, <2>1, <2>2 DEF f
<1>8. \A k \in 1 .. n - 1 : es[k] = [es[k - 1] EXCEPT ![r[k].cell] = r[k].val]
  <2>1. TAKE k \in 1 .. n - 1
  <2>2. k \in 0 .. n - 1 /\ k - 1 \in 0 .. n - 1 /\ (k - 1) + 1 = k /\ k + 1 \in 1..n /\ (k + 1) - 1 = k
    BY <1>1
  <2>3. ds[k + 1] = [ds[(k + 1) - 1] EXCEPT ![q[k + 1].cell] = q[k + 1].val]
    BY <1>3, <2>2, Zenon
  <2>4. es[k] = ds[k + 1] /\ es[k - 1] = ds[k]
    BY <1>5, <2>2
  <2>. QED BY <1>2, <2>2, <2>3, <2>4
<1>9. es \in Chains(f, r, e)
  BY <1>2, <1>5, <1>6, <1>7, <1>8, Zenon DEF Chains
<1>. QED BY <1>9, Zenon DEF f, r

\* A chain starts at a fair disk, and no writes are a chain from a fair disk to itself.
LEMMA ChainStarts ==
    ASSUME NEW d
    PROVE  /\ \A q \in Seq(Writes) : \A e : Chains(d, q, e) # {} => Fair(d)
           /\ d \in Disks /\ Fair(d) => Chains(d, <<>>, d) # {}
           /\ \A e : Chains(d, <<>>, e) # {} => e = d
<1>1. ASSUME NEW q \in Seq(Writes), NEW e, Chains(d, q, e) # {} PROVE Fair(d)
  <2>1. 0 \in 0..Len(q)
    OBVIOUS
  <2>. QED BY <1>1, <2>1 DEF Chains
<1>2. ASSUME d \in Disks, Fair(d) PROVE Chains(d, <<>>, d) # {}
  <2> DEFINE ds == [k \in 0..0 |-> d]
  <2>1. Len(<<>>) = 0
    OBVIOUS
  <2>2. ds \in [0..0 -> Disks] /\ ds[0] = d /\ \A k \in 0..0 : Fair(ds[k])
    BY <1>2
  <2>. HIDE DEF ds
  <2>3. ds \in Chains(d, <<>>, d)
    BY <2>1, <2>2 DEF Chains
  <2>. QED BY <2>3
<1>3. ASSUME NEW e, Chains(d, <<>>, e) # {} PROVE e = d
  <2>1. Len(<<>>) = 0
    OBVIOUS
  <2>. QED BY <1>3, <2>1 DEF Chains
<1>. QED BY <1>1, <1>2, <1>3
-----------------------------------------------------------------------------
\* A write of anything but the block bitmap or an inode.
LEMMA OtherWrite ==
    ASSUME NEW d \in Disks, NEW O, Owned(d, O), NEW c \in Cells, NEW v,
           c # BBitmap, \A i \in Inodes : c # Ino(i)
    PROVE  Owned(Put(d, c, v), O)
<1> DEFINE e == Put(d, c, v)
<1>1. e[BBitmap] = d[BBitmap] /\ \A i \in Inodes : e[Ino(i)] = d[Ino(i)]
  BY CellsDiffer DEF Disks, Put
<1>. HIDE DEF e
<1>2. Owned(e, O)
  BY <1>1 DEF Owned
<1>. QED BY <1>2 DEF e

\* A write of an inode that refers to its own blocks only.
LEMMA InodeWrite ==
    ASSUME NEW d \in Disks, NEW O, Owned(d, O), NEW i \in Inodes, NEW v, Once(v), BlocksOf(v) \subseteq O[i]
    PROVE  Owned(Put(d, Ino(i), v), O)
<1> DEFINE e == Put(d, Ino(i), v)
<1>1. e[BBitmap] = d[BBitmap] /\ e[Ino(i)] = v /\ \A j \in Inodes : j # i => e[Ino(j)] = d[Ino(j)]
  BY CellsDiffer DEF Disks, Put
<1>. HIDE DEF e
<1>2. ASSUME NEW j \in Inodes
      PROVE  Once(e[Ino(j)]) /\ BlocksOf(e[Ino(j)]) \subseteq O[j] /\ O[j] \subseteq e[BBitmap]
  BY <1>1 DEF Owned
<1>3. Owned(e, O)
  BY <1>2 DEF Owned
<1>. QED BY <1>3 DEF e

\* A write of the block bitmap that keeps the owned blocks marked.
LEMMA BitmapWrite ==
    ASSUME NEW d \in Disks, NEW O, Owned(d, O), NEW v, \A j \in Inodes : O[j] \subseteq v
    PROVE  Owned(Put(d, BBitmap, v), O)
<1> DEFINE e == Put(d, BBitmap, v)
<1>1. e[BBitmap] = v /\ \A i \in Inodes : e[Ino(i)] = d[Ino(i)]
  BY CellsDiffer DEF Disks, Put
<1>. HIDE DEF e
<1>2. Owned(e, O)
  BY <1>1 DEF Owned
<1>. QED BY <1>2 DEF e

\* A block that is in use and belongs to no inode may be given to one.
LEMMA ShareGrows ==
    ASSUME NEW d, NEW O \in Shares, Owned(d, O), NEW i \in Inodes, NEW b \in Blocks,
           b \in d[BBitmap], \A j \in Inodes : b \notin O[j]
    PROVE  LET P == [O EXCEPT ![i] = @ \cup {b}]
           IN  P \in Shares /\ Owned(d, P) /\ b \in P[i] /\ \A j \in Inodes : O[j] \subseteq P[j]
<1> DEFINE P == [O EXCEPT ![i] = @ \cup {b}]
           Goal == P \in Shares /\ Owned(d, P) /\ b \in P[i] /\ \A j \in Inodes : O[j] \subseteq P[j]
<1>. SUFFICES Goal
  OBVIOUS
<1>1. P \in Shares /\ P[i] = O[i] \cup {b} /\ \A j \in Inodes : j # i => P[j] = O[j]
  BY DEF Shares
<1>. HIDE DEF P
<1>2. \A j \in Inodes : O[j] \subseteq P[j]
  BY <1>1
<1>3. Apart(P)
  <2>1. Apart(O)
    BY DEF Owned
  <2>2. ASSUME NEW j \in Inodes, NEW k \in Inodes, j # k PROVE P[j] \cap P[k] = {}
    <3>1. O[j] \cap O[k] = {} /\ b \notin O[j] /\ b \notin O[k]
      BY <2>1, <2>2 DEF Apart
    <3>2. CASE j = i
      BY <1>1, <2>2, <3>1, <3>2
    <3>3. CASE k = i
      BY <1>1, <2>2, <3>1, <3>3
    <3>4. CASE j # i /\ k # i
      BY <1>1, <3>1, <3>4
    <3>. QED BY <3>2, <3>3, <3>4
  <2>. QED BY <2>2 DEF Apart
<1>4. \A j \in Inodes : Once(d[Ino(j)]) /\ BlocksOf(d[Ino(j)]) \subseteq P[j]
  BY <1>2 DEF Owned
<1>5. \A j \in Inodes : P[j] \subseteq d[BBitmap]
  BY <1>1 DEF Owned
<1>. QED BY <1>1, <1>2, <1>3, <1>4, <1>5 DEF Owned

\* One write of a call, on a disk without a journal.
LEMMA RunWrites ==
    ASSUME NEW d0, NEW O \in Shares, NEW t, Run(d0, O, t), NEW c \in Cells, NEW v \in Contents(c),
           Owned(Put(t.disk, c, v), O)
    PROVE  /\ Run(d0, O, WriteBlock(t, c, v))
           /\ WriteBlock(t, c, v).disk = Put(t.disk, c, v)
<1> DEFINE u == WriteBlock(t, c, v)
           e == Put(t.disk, c, v)
<1>1. Sound(t) /\ t.disk \in Disks /\ t.out \in Seq(Writes)
  BY DEF Run, Sound
<1>2. Sound(u) /\ u.disk = e /\ u.out = Append(t.out, [cell |-> c, val |-> v])
  <2>1. Sound(u) /\ u.disk = e
    BY <1>1, WriteKeeps DEF Put
  <2>2. u.out = Append(t.out, [cell |-> c, val |-> v])
    BY DEF WriteBlock
  <2>. QED BY <2>1, <2>2
<1>3. Fair(e)
  BY DEF Fair
<1>4. Chains(d0, t.out, t.disk) # {}
  BY DEF Run
<1>5. Chains(d0, Append(t.out, [cell |-> c, val |-> v]), e) # {}
  BY <1>1, <1>3, <1>4, ChainGrows, Zenon DEF Put
<1>. HIDE DEF u, e
<1>6. Run(d0, O, u) /\ u.disk = e
  BY <1>2, <1>5 DEF Run, e
<1>. QED BY <1>6 DEF u, e

\* journal_write_block on a disk without a journal.
LEMMA PlainWrite ==
    ASSUME ~journal, NEW t, NEW c, NEW v
    PROVE  JournalWriteBlock(t, c, v) = WriteBlock(t, c, v)
  BY DEF JournalWriteBlock
-----------------------------------------------------------------------------
\* Setting or clearing one bit changes the number of clear bits by one.
LEMMA ClearBits ==
    ASSUME NEW S, IsFiniteSet(S), NEW B, NEW b \in S
    PROVE  /\ b \notin B => Cardinality(S \ (B \cup {b})) = Cardinality(S \ B) - 1
           /\ b \in B => Cardinality(S \ (B \ {b})) = Cardinality(S \ B) + 1
<1>1. IsFiniteSet(S \ B)
  BY FS_Difference, Zenon
<1>2. S \ (B \cup {b}) = (S \ B) \ {b}
  OBVIOUS
<1>3. b \in B => S \ (B \ {b}) = (S \ B) \cup {b} /\ b \notin S \ B
  OBVIOUS
<1>4. b \notin B => b \in S \ B
  OBVIOUS
<1>5. b \notin B => Cardinality((S \ B) \ {b}) = Cardinality(S \ B) - 1
  BY <1>1, <1>4, FS_RemoveElement, Zenon
<1>6. b \in B => Cardinality((S \ B) \cup {b}) = Cardinality(S \ B) + 1
  BY <1>1, <1>3, FS_AddElement, Zenon
<1>. QED BY <1>2, <1>3, <1>5, <1>6

\* The group is finite.
LEMMA GroupIsFinite == IsFiniteSet(Blocks) /\ IsFiniteSet(Inodes)
<1>1. NBlocks \in Int /\ NInodes \in Int /\ 1 \in Int
  BY Numbers
<1>. QED BY <1>1, FS_Interval DEF Blocks, Inodes

\* A bitmap is written, and then the descriptor.
LEMMA RunPair ==
    ASSUME NEW d0, NEW O \in Shares, NEW t, Run(d0, O, t), NEW c \in {IBitmap, BBitmap},
           NEW v \in Contents(c), NEW g \in Contents(Desc), Owned(Put(t.disk, c, v), O)
    PROVE  /\ Run(d0, O, WriteBlock(WriteBlock(t, c, v), Desc, g))
           /\ WriteBlock(WriteBlock(t, c, v), Desc, g).disk = Put(Put(t.disk, c, v), Desc, g)
<1>1. c \in Cells /\ c # Desc /\ Desc \in Cells /\ Desc # BBitmap /\ \A i \in Inodes : Desc # Ino(i)
  BY CellsDiffer
<1>2. PICK u : u = WriteBlock(t, c, v)
  OBVIOUS
<1>3. Run(d0, O, u) /\ u.disk = Put(t.disk, c, v)
  BY <1>1, <1>2, RunWrites
<1>4. u.disk \in Disks /\ Owned(u.disk, O)
  BY <1>3 DEF Run, Sound
<1>5. Owned(Put(u.disk, Desc, g), O)
  BY <1>1, <1>4, OtherWrite
<1>6. Run(d0, O, WriteBlock(u, Desc, g)) /\ WriteBlock(u, Desc, g).disk = Put(u.disk, Desc, g)
  BY <1>1, <1>3, <1>5, RunWrites
<1>. QED BY <1>2, <1>3, <1>6

\* The disk after those two writes.
LEMMA TwoWrites ==
    ASSUME NEW d \in Disks, NEW c \in {IBitmap, BBitmap}, NEW v, NEW g,
           NEW e, e = Put(Put(d, c, v), Desc, g)
    PROVE  /\ e[c] = v /\ e[Desc] = g
           /\ \A x \in Cells : x # c /\ x # Desc => e[x] = d[x]
<1>1. c \in Cells /\ c # Desc /\ Desc \in Cells
  BY CellsDiffer
<1>2. DOMAIN d = Cells
  BY DEF Disks
<1>3. DOMAIN Put(d, c, v) = Cells
  BY <1>2 DEF Put
<1>. QED BY <1>1, <1>2, <1>3 DEF Put

\* allocate_block on a disk without a journal: the block belonged to no inode, and its bit is
\* set.
LEMMA RunBlock ==
    ASSUME ~journal, NEW d0, NEW O \in Shares, NEW t, Run(d0, O, t)
    PROVE  /\ Run(d0, O, AllocateBlock(t).fs)
           /\ Counted(t.disk) => Counted(AllocateBlock(t).fs.disk)
           /\ AllocateBlock(t).got = 0 => AllocateBlock(t).fs = t
           /\ AllocateBlock(t).got # 0 =>
                /\ AllocateBlock(t).got \in Blocks
                /\ AllocateBlock(t).got \in AllocateBlock(t).fs.disk[BBitmap]
                /\ \A j \in Inodes : AllocateBlock(t).got \notin O[j]
<1> DEFINE gd == t.disk[Desc]
           clear == Blocks \ t.disk[BBitmap]
           b == Min(clear)
           v == t.disk[BBitmap] \cup {b}
           g == [gd EXCEPT !.freeBlocks = @ - 1]
           u == WriteBlock(t, BBitmap, v)
           w == WriteBlock(u, Desc, g)
           a == AllocateBlock(t)
<1>1. CASE gd.freeBlocks = 0 \/ clear = {}
  <2>1. a.got = 0 /\ a.fs = t
    BY <1>1 DEF AllocateBlock
  <2>. HIDE DEF a
  <2>2. Run(d0, O, a.fs) /\ (Counted(t.disk) => Counted(a.fs.disk))
    BY <2>1
  <2>. QED BY <2>1, <2>2 DEF a
<1>2. CASE ~(gd.freeBlocks = 0 \/ clear = {})
  <2>1. a = [got |-> b, fs |-> w]
    BY <1>2, PlainWrite DEF AllocateBlock
  <2>2. b \in clear
    BY <1>2, Numbers, MinIsElement
  <2>3. Sound(t) /\ t.disk \in Disks /\ Owned(t.disk, O)
    BY DEF Run, Sound
  <2>4. /\ t.disk[BBitmap] \in SUBSET Blocks /\ 1 \in t.disk[BBitmap]
        /\ gd \in [freeInodes : Nat, freeBlocks : Nat]
    BY <2>3, GroupCells
  <2>. HIDE DEF b
  <2>5. v \in Contents(BBitmap) /\ g \in Contents(Desc)
    <3>1. v \in SUBSET Blocks /\ 1 \in v
      BY <2>2, <2>4
    <3>2. g \in [freeInodes : Nat, freeBlocks : Nat]
      BY <1>2, <2>4
    <3>. QED BY <3>1, <3>2, ContentsOfCells
  <2>6. Owned(Put(t.disk, BBitmap, v), O)
    <3>1. \A j \in Inodes : O[j] \subseteq v
      BY <2>3 DEF Owned
    <3>. QED BY <2>3, <3>1, BitmapWrite
  <2>7. Run(d0, O, w) /\ w.disk = Put(Put(t.disk, BBitmap, v), Desc, g)
    <3>1. BBitmap \in {IBitmap, BBitmap}
      OBVIOUS
    <3>. HIDE DEF v, g
    <3>. QED BY <2>5, <2>6, <3>1, RunPair
  <2>. HIDE DEF w
  <2>8. w.disk[BBitmap] = v /\ w.disk[Desc] = g /\ w.disk[IBitmap] = t.disk[IBitmap]
    <3>1. BBitmap \in {IBitmap, BBitmap}
      OBVIOUS
    <3>. HIDE DEF v, g
    <3>. QED BY <2>3, <2>7, <3>1, CellsDiffer, TwoWrites
  <2>9. Counted(t.disk) => Counted(w.disk)
    <3>1. Cardinality(Blocks \ v) = Cardinality(Blocks \ t.disk[BBitmap]) - 1
      BY <2>2, GroupIsFinite, ClearBits
    <3>2. g.freeBlocks = gd.freeBlocks - 1 /\ g.freeInodes = gd.freeInodes
      BY <2>4
    <3>. HIDE DEF v, g
    <3>. QED BY <2>8, <3>1, <3>2 DEF Counted
  <2>10. \A j \in Inodes : b \notin O[j]
    BY <2>2, <2>3 DEF Owned
  <2>11. a.got = b /\ a.fs = w /\ b # 0 /\ b \in Blocks /\ b \in v
    BY <2>1, <2>2, Numbers DEF Blocks
  <2>. HIDE DEF a, v
  <2>. QED BY <2>7, <2>8, <2>9, <2>10, <2>11 DEF a
<1>. QED BY <1>1, <1>2

\* free_block of a block that is in use and belongs to no inode.
LEMMA RunFree ==
    ASSUME ~journal, NEW d0, NEW O \in Shares, NEW t, Run(d0, O, t), NEW b \in Blocks \ {1},
           b \in t.disk[BBitmap], \A j \in Inodes : b \notin O[j]
    PROVE  /\ Run(d0, O, FreeBlock(t, b))
           /\ Counted(t.disk) => Counted(FreeBlock(t, b).disk)
<1> DEFINE v == t.disk[BBitmap] \ {b}
           u == WriteBlock(t, BBitmap, v)
           gd == t.disk[Desc]
           g == [gd EXCEPT !.freeBlocks = @ + 1]
           w == WriteBlock(u, Desc, g)
<1>1. Sound(t) /\ t.disk \in Disks /\ Owned(t.disk, O)
  BY DEF Run, Sound
<1>2. /\ t.disk[BBitmap] \in SUBSET Blocks /\ 1 \in t.disk[BBitmap]
      /\ gd \in [freeInodes : Nat, freeBlocks : Nat]
  BY <1>1, GroupCells
<1>3. v \in Contents(BBitmap) /\ g \in Contents(Desc)
  <2>1. v \in SUBSET Blocks /\ 1 \in v
    BY <1>2
  <2>2. g \in [freeInodes : Nat, freeBlocks : Nat]
    BY <1>2
  <2>. QED BY <2>1, <2>2, ContentsOfCells
<1>4. Owned(Put(t.disk, BBitmap, v), O)
  <2>1. \A j \in Inodes : O[j] \subseteq v
    BY <1>1 DEF Owned
  <2>. QED BY <1>1, <2>1, BitmapWrite
<1>5. u.disk[Desc] = gd
  BY <1>1, CellsDiffer DEF Disks, Put, WriteBlock
<1>6. FreeBlock(t, b) = w
  BY <1>5, PlainWrite, Zenon DEF FreeBlock
<1>7. Run(d0, O, w) /\ w.disk = Put(Put(t.disk, BBitmap, v), Desc, g)
  <2>1. BBitmap \in {IBitmap, BBitmap}
    OBVIOUS
  <2>. HIDE DEF v, g
  <2>. QED BY <1>3, <1>4, <2>1, RunPair
<1>. HIDE DEF w
<1>8. w.disk[BBitmap] = v /\ w.disk[Desc] = g /\ w.disk[IBitmap] = t.disk[IBitmap]
  <2>1. BBitmap \in {IBitmap, BBitmap}
    OBVIOUS
  <2>. HIDE DEF v, g
  <2>. QED BY <1>1, <1>7, <2>1, CellsDiffer, TwoWrites
<1>9. Counted(t.disk) => Counted(w.disk)
  <2>1. Cardinality(Blocks \ v) = Cardinality(Blocks \ t.disk[BBitmap]) + 1
    BY GroupIsFinite, ClearBits
  <2>2. g.freeBlocks = gd.freeBlocks + 1 /\ g.freeInodes = gd.freeInodes
    BY <1>2
  <2>. HIDE DEF v, g
  <2>. QED BY <1>8, <2>1, <2>2 DEF Counted
<1>. QED BY <1>6, <1>7, <1>9

\* allocate_inode on a disk without a journal.
LEMMA RunInode ==
    ASSUME ~journal, NEW d0, NEW O \in Shares, NEW t, Run(d0, O, t)
    PROVE  /\ Run(d0, O, AllocateInode(t).fs)
           /\ Counted(t.disk) => Counted(AllocateInode(t).fs.disk)
<1> DEFINE gd == t.disk[Desc]
           clear == Inodes \ t.disk[IBitmap]
           i == Min(clear)
           v == t.disk[IBitmap] \cup {i}
           g == [gd EXCEPT !.freeInodes = @ - 1]
           u == WriteBlock(t, IBitmap, v)
           w == WriteBlock(u, Desc, g)
<1>1. CASE gd.freeInodes = 0 \/ clear = {}
  BY <1>1 DEF AllocateInode
<1>2. CASE ~(gd.freeInodes = 0 \/ clear = {})
  <2>1. AllocateInode(t) = [got |-> i, fs |-> w]
    BY <1>2, PlainWrite DEF AllocateInode
  <2>2. i \in clear
    BY <1>2, Numbers, MinIsElement
  <2>3. Sound(t) /\ t.disk \in Disks /\ Owned(t.disk, O)
    BY DEF Run, Sound
  <2>4. /\ t.disk[IBitmap] \in SUBSET Inodes /\ Root \in t.disk[IBitmap]
        /\ gd \in [freeInodes : Nat, freeBlocks : Nat]
    BY <2>3, GroupCells
  <2>. HIDE DEF i
  <2>5. v \in Contents(IBitmap) /\ g \in Contents(Desc)
    <3>1. v \in SUBSET Inodes /\ Root \in v
      BY <2>2, <2>4
    <3>2. g \in [freeInodes : Nat, freeBlocks : Nat]
      BY <1>2, <2>4
    <3>. QED BY <3>1, <3>2, ContentsOfCells
  <2>6. Owned(Put(t.disk, IBitmap, v), O)
    BY <2>3, CellsDiffer, OtherWrite
  <2>7. Run(d0, O, w) /\ w.disk = Put(Put(t.disk, IBitmap, v), Desc, g)
    <3>1. IBitmap \in {IBitmap, BBitmap}
      OBVIOUS
    <3>. HIDE DEF v, g
    <3>. QED BY <2>5, <2>6, <3>1, RunPair
  <2>. HIDE DEF w
  <2>8. w.disk[IBitmap] = v /\ w.disk[Desc] = g /\ w.disk[BBitmap] = t.disk[BBitmap]
    <3>1. IBitmap \in {IBitmap, BBitmap}
      OBVIOUS
    <3>. HIDE DEF v, g
    <3>. QED BY <2>3, <2>7, <3>1, CellsDiffer, TwoWrites
  <2>9. Counted(t.disk) => Counted(w.disk)
    <3>1. Cardinality(Inodes \ v) = Cardinality(Inodes \ t.disk[IBitmap]) - 1
      BY <2>2, GroupIsFinite, ClearBits
    <3>2. g.freeInodes = gd.freeInodes - 1 /\ g.freeBlocks = gd.freeBlocks
      BY <2>4
    <3>. HIDE DEF v, g
    <3>. QED BY <2>8, <3>1, <3>2 DEF Counted
  <2>. QED BY <2>1, <2>7, <2>9
<1>. QED BY <1>1, <1>2
-----------------------------------------------------------------------------
\* One extent of an inode takes in block b, or b becomes an extent of its own.
LEMMA ExtentsGrow ==
    ASSUME NEW inode, NEW x, NEW n \in Nat, NEW m \in Nat, n <= m, Len(inode.ext) = n, Len(x.ext) = m,
           NEW h \in 1..m, \A k \in 1..m : k # h => k \in 1..n /\ RangeOf(x.ext[k]) = RangeOf(inode.ext[k]),
           NEW b, Once(inode), b \notin BlocksOf(inode),
           \A y \in RangeOf(x.ext[h]) : y = b \/ (h \in 1..n /\ y \in RangeOf(inode.ext[h]))
    PROVE  Once(x) /\ BlocksOf(x) \subseteq BlocksOf(inode) \cup {b}
<1>1. \A k \in 1..n : b \notin RangeOf(inode.ext[k]) /\ RangeOf(inode.ext[k]) \subseteq BlocksOf(inode)
  BY DEF BlocksOf
<1>2. ASSUME NEW k \in 1..m, NEW l \in 1..m, k # l
      PROVE  RangeOf(x.ext[k]) \cap RangeOf(x.ext[l]) = {}
  <2>1. ASSUME NEW j \in 1..m, j # h PROVE RangeOf(x.ext[h]) \cap RangeOf(x.ext[j]) = {}
    <3>1. j \in 1..n /\ RangeOf(x.ext[j]) = RangeOf(inode.ext[j]) /\ b \notin RangeOf(inode.ext[j])
      BY <1>1, <2>1
    <3>2. h \in 1..n => RangeOf(inode.ext[h]) \cap RangeOf(inode.ext[j]) = {}
      BY <2>1, <3>1, Zenon DEF Once
    <3>. QED BY <3>1, <3>2
  <2>2. CASE k = h
    BY <1>2, <2>1, <2>2
  <2>3. CASE l = h
    BY <1>2, <2>1, <2>3
  <2>4. CASE k # h /\ l # h
    BY <1>2, <2>4, Zenon DEF Once
  <2>. QED BY <2>2, <2>3, <2>4
<1>3. \A k \in 1..m : RangeOf(x.ext[k]) \subseteq BlocksOf(inode) \cup {b}
  BY <1>1
<1>4. Once(x)
  BY <1>2, Zenon DEF Once
<1>5. BlocksOf(x) \subseteq BlocksOf(inode) \cup {b}
  <2>1. PICK B : B = BlocksOf(inode) \cup {b}
    OBVIOUS
  <2>. QED BY <1>3, <2>1 DEF BlocksOf
<1>. QED BY <1>4, <1>5

\* A block becomes an extent of its own, behind the others.
LEMMA ExtentAppended ==
    ASSUME NEW inode, NEW S, inode.ext \in Seq(S), NEW e \in S, NEW x, x.ext = Append(inode.ext, e),
           NEW b, RangeOf(e) = {b}, Once(inode), b \notin BlocksOf(inode)
    PROVE  Once(x) /\ BlocksOf(x) \subseteq BlocksOf(inode) \cup {b}
<1>1. PICK n \in Nat : n = Len(inode.ext)
  OBVIOUS
<1>2. PICK m \in Nat : m = n + 1
  OBVIOUS
<1>3. Len(x.ext) = m /\ x.ext[m] = e /\ \A k \in 1..n : x.ext[k] = inode.ext[k]
  BY <1>1, <1>2, AppendProperties
<1>4. n <= m /\ m \in 1..m /\ \A k \in 1..m : k # m => k \in 1..n
  BY <1>2
<1>5. \A k \in 1..m : k # m => k \in 1..n /\ RangeOf(x.ext[k]) = RangeOf(inode.ext[k])
  BY <1>3, <1>4
<1>6. \A y \in RangeOf(x.ext[m]) : y = b \/ (m \in 1..n /\ y \in RangeOf(inode.ext[m]))
  BY <1>3
<1>7. Len(inode.ext) = n /\ Len(x.ext) = m
  BY <1>1, <1>3
<1>. QED BY <1>4, <1>5, <1>6, <1>7, ExtentsGrow, ZenonT(60)

\* The shares under which inode i may have become inode, from shares O and disk d0.
Above(O, P) == \A j \in Inodes : O[j] \subseteq P[j]
Grown(d0, O, i, t, inode) ==
    {P \in Shares : Above(O, P) /\ Run(d0, P, t) /\ Once(inode) /\ BlocksOf(inode) \subseteq P[i]}

\* allocate_block for inode i, whose extents then take in the block.
LEMMA BlockIsOwned ==
    ASSUME ~journal, NEW d0, NEW O, NEW i \in Inodes, NEW t, NEW inode, NEW x,
           NEW P \in Grown(d0, O, i, t, inode), AllocateBlock(t).got # 0,
           Once(inode) /\ AllocateBlock(t).got \notin BlocksOf(inode) =>
               Once(x) /\ BlocksOf(x) \subseteq BlocksOf(inode) \cup {AllocateBlock(t).got}
    PROVE  Grown(d0, O, i, AllocateBlock(t).fs, x) # {}
<1>1. PICK b : b = AllocateBlock(t).got
  OBVIOUS
<1>2. PICK u : u = AllocateBlock(t).fs
  OBVIOUS
<1>3. P \in Shares /\ Above(O, P) /\ Run(d0, P, t) /\ Once(inode) /\ BlocksOf(inode) \subseteq P[i]
  BY DEF Grown
<1>4. Run(d0, P, u) /\ b \in Blocks /\ b \in u.disk[BBitmap] /\ \A j \in Inodes : b \notin P[j]
  BY <1>1, <1>2, <1>3, RunBlock
<1>5. Owned(u.disk, P)
  BY <1>4 DEF Run
<1>6. PICK Q : Q = [P EXCEPT ![i] = @ \cup {b}]
  OBVIOUS
<1>7. Q \in Shares /\ Owned(u.disk, Q) /\ b \in Q[i] /\ \A j \in Inodes : P[j] \subseteq Q[j]
  BY <1>3, <1>4, <1>5, <1>6, ShareGrows, Zenon
<1>8. Run(d0, Q, u)
  BY <1>4, <1>7 DEF Run
<1>9. Above(O, Q)
  BY <1>3, <1>7 DEF Above
<1>10. Once(x) /\ BlocksOf(x) \subseteq Q[i]
  <2>1. b \notin BlocksOf(inode)
    BY <1>3, <1>4
  <2>2. Once(x) /\ BlocksOf(x) \subseteq BlocksOf(inode) \cup {b}
    BY <1>1, <1>3, <2>1
  <2>. QED BY <1>3, <1>7, <2>2
<1>11. Q \in Grown(d0, O, i, u, x)
  BY <1>7, <1>8, <1>9, <1>10 DEF Grown
<1>. QED BY <1>2, <1>11

\* extent_allocate_blocks: the inode's blocks remain its own.
LEMMA ExtentIsOwned ==
    ASSUME ~journal, NEW d0, NEW O, NEW i \in Inodes, NEW t, NEW inode \in FileInodes, NEW l \in Nat,
           Grown(d0, O, i, t, inode) # {}
    PROVE  LET x == ExtentAllocate(t, inode, l)
           IN  /\ Grown(d0, O, i, x.fs, x.inode) # {}
               /\ Counted(t.disk) => Counted(x.fs.disk)
<1> DEFINE n == Len(inode.ext)
           follows == n > 0 /\ l = inode.ext[n].block + inode.ext[n].len
           a == AllocateBlock(t)
           fail(fs) == [ok |-> FALSE, fs |-> fs, inode |-> inode]
           extended(ext) == [ok |-> TRUE, fs |-> a.fs, inode |-> [inode EXCEPT !.ext = ext]]
           x == ExtentAllocate(t, inode, l)
           Goal == Grown(d0, O, i, x.fs, x.inode) # {} /\ (Counted(t.disk) => Counted(x.fs.disk))
<1>. SUFFICES Goal
  OBVIOUS
<1>1. PICK P \in Grown(d0, O, i, t, inode) : TRUE
  OBVIOUS
<1>2. P \in Shares /\ Run(d0, P, t) /\ Above(O, P) /\ Once(inode) /\ BlocksOf(inode) \subseteq P[i]
  BY DEF Grown
<1>3. n \in Nat /\ EhMax \in Nat /\ inode.ext \in Seq(ExtentType)
  BY ExtentsOf, Numbers
<1>4. \/ x = fail(t)
      \/ a.got # 0 /\ x = fail(FreeBlock(a.fs, a.got))
      \/ a.got # 0 /\ follows /\ a.got = inode.ext[n].start + inode.ext[n].len
           /\ x = extended([inode.ext EXCEPT ![n].len = @ + 1])
      \/ a.got # 0 /\ x = extended(Append(inode.ext, Extent(l, a.got)))
  <2>. HIDE DEF a
  <2>. QED BY <1>3 DEF ExtentAllocate, a
<1>5. Counted(t.disk) => Counted(a.fs.disk)
  BY <1>2, RunBlock
<1>6. inode \in InodeType
  BY DEF FileInodes
<1>. HIDE DEF a, x
<1>7. CASE x = fail(t)
  BY <1>7
<1>8. CASE a.got # 0 /\ x = fail(FreeBlock(a.fs, a.got))
  <2>1. /\ Run(d0, P, a.fs) /\ a.got \in Blocks /\ a.got \in a.fs.disk[BBitmap]
        /\ \A j \in Inodes : a.got \notin P[j]
    BY <1>2, <1>8, RunBlock, SMTT(60) DEF a
  <2>2. a.got \in Blocks \ {1}
    <3>1. Run(d0, P, t) => Sound(t)
      BY DEF Run
    <3>2. a.got \in {0} \cup 2..NBlocks
      BY <1>2, <3>1, BlockKeeps DEF a
    <3>. QED BY <1>8, <2>1, <3>2
  <2>3. PICK u : u = FreeBlock(a.fs, a.got)
    OBVIOUS
  <2>4. Run(d0, P, u) /\ (Counted(a.fs.disk) => Counted(u.disk))
    BY <1>2, <2>1, <2>2, <2>3, RunFree
  <2>5. x.fs = u /\ x.inode = inode
    BY <1>8, <2>3
  <2>6. P \in Grown(d0, O, i, x.fs, x.inode)
    BY <1>2, <2>4, <2>5 DEF Grown
  <2>. QED BY <1>5, <2>4, <2>5, <2>6, SMTT(60)
<1>9. CASE /\ a.got # 0 /\ follows /\ a.got = inode.ext[n].start + inode.ext[n].len
           /\ x = extended([inode.ext EXCEPT ![n].len = @ + 1])
  <2> DEFINE ext == [inode.ext EXCEPT ![n].len = @ + 1]
  <2>1. n \in 1..n
    BY <1>3, <1>9
  <2>2. inode.ext[n] \in ExtentType
    BY <2>1, ExtentsOf
  <2>3. inode.ext[n].start \in Nat /\ inode.ext[n].len \in Nat \ {0}
    BY <2>2, Numbers, Zenon DEF ExtentType
  <2>4. x.inode.ext = ext /\ x.fs = a.fs
    BY <1>6, <1>9, Zenon DEF InodeType
  <2>5. /\ Len(ext) = n
        /\ ext[n].start = inode.ext[n].start /\ ext[n].len = inode.ext[n].len + 1
        /\ \A k \in 1..n : k # n => ext[k] = inode.ext[k]
    <3>1. [inode.ext[n] EXCEPT !.len = @ + 1] \in ExtentType
      BY <2>2 DEF ExtentType
    <3>2. ext = [inode.ext EXCEPT ![n] = [inode.ext[n] EXCEPT !.len = @ + 1]]
      OBVIOUS
    <3>3. /\ Len(ext) = n /\ ext[n] = [inode.ext[n] EXCEPT !.len = @ + 1]
          /\ \A k \in 1..n : k # n => ext[k] = inode.ext[k]
      BY <1>3, <2>1, <3>1, <3>2, ExceptSeq
    <3>. HIDE DEF ext
    <3>. QED BY <2>2, <3>3 DEF ExtentType
  <2>. HIDE DEF ext
  <2>6. RangeOf(ext[n]) = {a.got} \cup RangeOf(inode.ext[n])
    <3>1. \A p \in Nat, q \in Nat \ {0} : p .. p + (q + 1) - 1 = {p + q} \cup (p .. p + q - 1)
      OBVIOUS
    <3>. QED BY <1>9, <2>3, <2>5, <3>1, Zenon DEF RangeOf
  <2>7. Once(inode) /\ a.got \notin BlocksOf(inode) =>
          Once(x.inode) /\ BlocksOf(x.inode) \subseteq BlocksOf(inode) \cup {a.got}
    <3>1. \A k \in 1..n : k # n => k \in 1..n /\ RangeOf(ext[k]) = RangeOf(inode.ext[k])
      BY <2>5
    <3>2. \A y \in RangeOf(x.inode.ext[n]) : y = a.got \/ (n \in 1..n /\ y \in RangeOf(inode.ext[n]))
      BY <2>1, <2>4, <2>6, Zenon
    <3>3. n \in Nat /\ n <= n /\ Len(inode.ext) = n /\ Len(x.inode.ext) = n
      BY <1>3, <2>4, <2>5
    <3>4. \A k \in 1..n : k # n => k \in 1..n /\ RangeOf(x.inode.ext[k]) = RangeOf(inode.ext[k])
      BY <2>4, <3>1
    <3>. HIDE DEF n
    <3>. QED BY <2>1, <3>2, <3>3, <3>4, ExtentsGrow, Zenon
  <2>8. Grown(d0, O, i, a.fs, x.inode) # {}
    BY <1>1, <1>9, <2>7, BlockIsOwned, Zenon DEF a
  <2>. QED BY <1>5, <2>4, <2>8
<1>10. CASE a.got # 0 /\ x = extended(Append(inode.ext, Extent(l, a.got)))
  <2> DEFINE e == Extent(l, a.got)
             ext == Append(inode.ext, e)
  <2>1. a.got \in Nat /\ a.got \in Blocks
    BY <1>2, <1>10, RunBlock, Numbers, Zenon DEF a
  <2>2. e \in ExtentType /\ e.start = a.got /\ e.len = 1
    BY <2>1 DEF Extent, ExtentType
  <2>. HIDE DEF e
  <2>3. x.inode.ext = ext /\ x.fs = a.fs
    BY <1>6, <1>10 DEF InodeType, e
  <2>6. Once(inode) /\ a.got \notin BlocksOf(inode) =>
          Once(x.inode) /\ BlocksOf(x.inode) \subseteq BlocksOf(inode) \cup {a.got}
    <3>1. RangeOf(e) = {a.got}
      BY <2>1, <2>2 DEF RangeOf
    <3>2. x.inode.ext = Append(inode.ext, e)
      BY <2>3 DEF ext
    <3>3. PICK y : y = x.inode
      OBVIOUS
    <3>4. PICK b : b = a.got
      OBVIOUS
    <3>5. PICK z \in ExtentType : z = e
      BY <2>2
    <3>6. y.ext = Append(inode.ext, z) /\ RangeOf(z) = {b} /\ inode.ext \in Seq(ExtentType)
      BY <1>3, <3>1, <3>2, <3>3, <3>4, <3>5
    <3>7. ASSUME Once(inode), b \notin BlocksOf(inode)
          PROVE  Once(y) /\ BlocksOf(y) \subseteq BlocksOf(inode) \cup {b}
      BY <3>6, <3>7, ExtentAppended
    <3>. QED BY <3>3, <3>4, <3>7
  <2>7. Grown(d0, O, i, a.fs, x.inode) # {}
    BY <1>1, <1>10, <2>6, BlockIsOwned, Zenon DEF a
  <2>. QED BY <1>5, <2>3, <2>7
<1>. QED BY <1>4, <1>7, <1>8, <1>9, <1>10
-----------------------------------------------------------------------------
\* A write of an inode or a data block leaves the counts right.
LEMMA FileWrite ==
    ASSUME NEW d0, NEW O \in Shares, NEW t, Run(d0, O, t), NEW c \in Cells, NEW v \in Contents(c),
           c \notin {IBitmap, BBitmap, Desc}, Owned(Put(t.disk, c, v), O)
    PROVE  /\ Run(d0, O, WriteBlock(t, c, v))
           /\ Counted(t.disk) => Counted(WriteBlock(t, c, v).disk)
<1>1. Run(d0, O, WriteBlock(t, c, v)) /\ WriteBlock(t, c, v).disk = Put(t.disk, c, v)
  BY RunWrites
<1>2. t.disk \in Disks
  BY DEF Run, Sound
<1>3. \A x \in {IBitmap, BBitmap, Desc} : Put(t.disk, c, v)[x] = t.disk[x]
  BY <1>2, CellsDiffer DEF Disks, Put
<1>4. Counted(t.disk) => Counted(Put(t.disk, c, v))
  BY <1>3 DEF Counted
<1>. QED BY <1>1, <1>4

\* The body of the loop of Ext4File::write changes no ownership.
LEMMA InBlockRuns ==
    ASSUME ~journal, NEW d0, NEW O \in Shares, NEW t, Run(d0, O, t), NEW b \in 2..NBlocks, NEW l,
           NEW mine, NEW v \in 0..MaxOps
    PROVE  /\ Run(d0, O, WriteInBlock(t, b, l, mine, v))
           /\ Counted(t.disk) => Counted(WriteInBlock(t, b, l, mine, v).disk)
<1>1. Sound(t) /\ t.disk \in Disks /\ Owned(t.disk, O)
  BY DEF Run, Sound
<1>2. PICK y \in DataBlocks :
        /\ WriteInBlock(t, b, l, mine, v) = JournalWriteBlock(t, Blk(b), y)
        /\ Blk(b) \in Cells /\ y \in Contents(Blk(b)) /\ \A i \in Inodes : Blk(b) # Ino(i)
  BY <1>1, InBlockData
<1>3. Blk(b) \notin {IBitmap, BBitmap, Desc}
  <2>1. b \in Blocks
    BY DEF Blocks
  <2>. QED BY <2>1, CellsDiffer
<1>4. WriteInBlock(t, b, l, mine, v) = WriteBlock(t, Blk(b), y)
  BY <1>2, PlainWrite
<1>5. Owned(Put(t.disk, Blk(b), y), O)
  BY <1>1, <1>2, <1>3, OtherWrite
<1>6. Run(d0, O, WriteBlock(t, Blk(b), y)) /\ (Counted(t.disk) => Counted(WriteBlock(t, Blk(b), y).disk))
  BY <1>2, <1>3, <1>5, FileWrite
<1>. QED BY <1>4, <1>6

\* What the loop of Ext4File::write has made of the file system and the cached inode of i.
OwnStates(d0, O, i, t0, inode, span) ==
    {w \in LoopStates(t0, inode, span) :
        Grown(d0, O, i, w.fs, w.inode) # {} /\ (Counted(d0) => Counted(w.fs.disk))}

\* One round of the loop.
LEMMA RoundIsOwned ==
    ASSUME ~journal, NEW d0, NEW O, NEW i \in Inodes, NEW t0, NEW inode,
           NEW off \in Nat, NEW n \in Nat, NEW l \in Nat, NEW v \in 0..MaxOps,
           NEW w \in OwnStates(d0, O, i, t0, inode, off .. off + n - 1)
    PROVE  WriteStep(w, l, off, n, v) \in OwnStates(d0, O, i, t0, inode, off .. off + n - 1)
<1> DEFINE span == off .. off + n - 1
           g == IF ExtentGetBlock(w.inode, l) # 0
                THEN [ok |-> TRUE, fs |-> w.fs, inode |-> w.inode]
                ELSE ExtentAllocate(w.fs, w.inode, l)
           mine == {p \in off .. off + n - 1 : p \div PerBlock = l}
           u == WriteInBlock(g.fs, ExtentGetBlock(g.inode, l), l, mine, v)
           x == WriteStep(w, l, off, n, v)
<1>1. /\ w \in LoopStates(t0, inode, span)
      /\ Grown(d0, O, i, w.fs, w.inode) # {} /\ (Counted(d0) => Counted(w.fs.disk))
  BY DEF OwnStates
<1>2. x \in LoopStates(t0, inode, span)
  BY <1>1, RoundKeeps, Zenon
<1>3. w \in [stop : BOOLEAN, inode : FileInodes, fs : States, done : SUBSET span]
  BY <1>1 DEF LoopStates
<1>4. Sound(w.fs) /\ w.inode \in FileInodes
  BY <1>3, SoundIsState, SMTT(60)
<1>5. /\ Grown(d0, O, i, g.fs, g.inode) # {} /\ (Counted(d0) => Counted(g.fs.disk))
      /\ g.ok => ExtentGetBlock(g.inode, l) \in 2..NBlocks
      /\ ~g.ok => g.inode = w.inode
  <2>1. CASE ExtentGetBlock(w.inode, l) # 0
    <3>1. g.fs = w.fs /\ g.inode = w.inode
      BY <2>1
    <3>2. ExtentGetBlock(w.inode, l) \in 2..NBlocks
      BY <1>4, <2>1, BlockInRange, Zenon
    <3>. HIDE DEF g
    <3>. QED BY <1>1, <3>1, <3>2, Zenon
  <2>2. CASE ExtentGetBlock(w.inode, l) = 0
    <3>1. g = ExtentAllocate(w.fs, w.inode, l)
      BY <2>2, SMTT(60)
    <3>. HIDE DEF g
    <3>2. Grown(d0, O, i, g.fs, g.inode) # {} /\ (Counted(w.fs.disk) => Counted(g.fs.disk))
      BY <1>1, <1>4, <3>1, ExtentIsOwned, SMTT(60)
    <3>3. g.ok => ExtentGetBlock(g.inode, l) \in 2..NBlocks
      BY <1>4, <3>1, ExtentKeeps
    <3>4. ~g.ok => g.inode = w.inode
      BY <3>1 DEF ExtentAllocate
    <3>. QED BY <1>1, <3>2, <3>3, <3>4
  <2>. QED BY <2>1, <2>2
<1>6. \/ x = w
      \/ ~g.ok /\ x = [w EXCEPT !.stop = TRUE, !.fs = g.fs]
      \/ g.ok /\ x = [stop |-> FALSE, inode |-> g.inode, fs |-> u, done |-> w.done \cup mine]
  BY DEF WriteStep
<1>. HIDE DEF g, mine, x
<1>7. CASE x = w
  BY <1>7 DEF x
<1>8. CASE ~g.ok /\ x = [w EXCEPT !.stop = TRUE, !.fs = g.fs]
  <2>1. x.fs = g.fs /\ x.inode = g.inode
    BY <1>3, <1>5, <1>8
  <2>2. x \in OwnStates(d0, O, i, t0, inode, span)
    BY <1>2, <1>5, <2>1 DEF OwnStates
  <2>. QED BY <2>2 DEF x
<1>9. CASE g.ok /\ x = [stop |-> FALSE, inode |-> g.inode, fs |-> u, done |-> w.done \cup mine]
  <2>1. PICK P \in Grown(d0, O, i, g.fs, g.inode) : TRUE
    BY <1>5
  <2>2. /\ P \in Shares /\ Above(O, P) /\ Run(d0, P, g.fs)
        /\ Once(g.inode) /\ BlocksOf(g.inode) \subseteq P[i]
    BY DEF Grown
  <2>3. Run(d0, P, u) /\ (Counted(g.fs.disk) => Counted(u.disk))
    BY <1>5, <1>9, <2>2, InBlockRuns, Zenon
  <2>. HIDE DEF u
  <2>4. P \in Grown(d0, O, i, u, g.inode)
    BY <2>2, <2>3 DEF Grown
  <2>5. x.fs = u /\ x.inode = g.inode
    BY <1>9
  <2>6. x \in OwnStates(d0, O, i, t0, inode, span)
    BY <1>2, <1>5, <2>3, <2>4, <2>5 DEF OwnStates
  <2>. QED BY <2>6 DEF x
<1>. QED BY <1>6, <1>7, <1>8, <1>9

\* The loop of Ext4File::write on a disk without a journal.
LEMMA LoopIsOwned ==
    ASSUME ~journal, Sound(Now), NEW O, NEW i \in Inodes, NEW inode \in FileInodes,
           Grown(disk, O, i, Now, inode) # {},
           NEW off \in Nat, NEW n \in Nat \ {0}, NEW v \in 0..MaxOps
    PROVE  WriteLoop(inode, off, n, v) \in OwnStates(disk, O, i, Now, inode, off .. off + n - 1)
<1> DEFINE X == OwnStates(disk, O, i, Now, inode, off .. off + n - 1)
           x0 == [stop |-> FALSE, inode |-> inode, fs |-> Now, done |-> {}]
<1>1. x0 \in LoopStates(Now, inode, off .. off + n - 1)
  BY SoundIsState, DriftOrder DEF LoopStates
<1>2. Now.disk = disk
  BY DEF Now
<1>3. x0 \in X
  BY <1>1, <1>2 DEF OwnStates
<1>4. \A w \in X, l \in Nat : WriteStep(w, l, off, n, v) \in X
  BY RoundIsOwned, Zenon
<1>. HIDE DEF X
<1>5. WriteLoop(inode, off, n, v) \in X
  BY <1>3, <1>4, LoopStays
<1>. QED BY <1>5, SMTT(60) DEF X
-----------------------------------------------------------------------------
\* An open file refers to blocks of its own.
Held(h, O) == h = Closed \/ (Once(h.inode) /\ BlocksOf(h.inode) \subseteq O[h.ino])

\* The shares at the end of the writes q that a call has still to make, with open files h and
\* after c power cuts.
Ends(d, q, h, c) ==
    {O \in Shares : \E e \in Disks :
        /\ Chains(d, q, e) # {} /\ Owned(e, O) /\ (\A f \in Fds : Held(h[f], O))
        /\ c = 0 => Counted(e)}

\* The inductive invariant, beside IInv: on a disk without a journal every block has one
\* owner now and after each of the writes still to be made, and an open file's inode, which
\* write will write back, refers to blocks of that file.
OInv == ~journal => (Idle => todo = <<>>) /\ Ends(disk, todo, files, crashes) # {}

\* The shares with which a call starts.
LEMMA CallStarts ==
    ASSUME IInv, OInv, ~journal, Idle
    PROVE  \E O \in Shares :
             /\ Run(disk, O, Now) /\ (crashes = 0 => Counted(disk))
             /\ \A f \in Fds : Held(files[f], O)
<1>1. todo = <<>> /\ Ends(disk, <<>>, files, crashes) # {}
  BY DEF OInv
<1>2. PICK O \in Shares : \E e \in Disks :
        /\ Chains(disk, <<>>, e) # {} /\ Owned(e, O) /\ (\A f \in Fds : Held(files[f], O))
        /\ crashes = 0 => Counted(e)
  BY <1>1 DEF Ends
<1>3. PICK e \in Disks :
        /\ Chains(disk, <<>>, e) # {} /\ Owned(e, O) /\ (\A f \in Fds : Held(files[f], O))
        /\ crashes = 0 => Counted(e)
  BY <1>2
<1>4. e = disk
  BY <1>3, ChainStarts, Zenon
<1>5. Sound(Now) /\ Now.disk = disk /\ Now.out = <<>>
  BY NowIsSound DEF Now
<1>6. Run(disk, O, Now)
  BY <1>3, <1>4, <1>5 DEF Run
<1>. QED BY <1>3, <1>4, <1>6

\* An open file keeps its blocks when shares grow.
LEMMA HeldGrows ==
    ASSUME NEW O, NEW P, Above(O, P), NEW h \in Handles, Held(h, O)
    PROVE  Held(h, P)
<1>1. h = Closed \/ h.ino \in Inodes
  BY DEF Handles
<1>. QED BY <1>1 DEF Held, Above

\* A call begins that makes the writes of t.
LEMMA BegunOwns ==
    ASSUME ~journal, NEW kind, kind # "none", NEW i, NEW t, NEW nm, NEW tx, Begin(kind, i, t, nm, tx),
           NEW P \in Shares, Run(disk, P, t), crashes = 0 => Counted(t.disk),
           \A f \in Fds : Held(files'[f], P)
    PROVE  OInv'
<1>1. todo' = t.out /\ disk' = disk /\ crashes' = crashes /\ op'.kind = kind
  BY DEF Begin
<1>2. ~Idle'
  BY <1>1 DEF Idle
<1>3. t.disk \in Disks /\ Chains(disk, t.out, t.disk) # {} /\ Owned(t.disk, P)
  BY DEF Run, Sound
<1>4. P \in Ends(disk, t.out, files', crashes)
  BY <1>3 DEF Ends
<1>5. P \in Ends(disk', todo', files', crashes')
  BY <1>1, <1>4
<1>. QED BY <1>2, <1>5 DEF OInv

\* The cell of a block is no bitmap, no descriptor and no inode.
LEMMA BlocksDiffer ==
    ASSUME NEW b
    PROVE  Blk(b) \notin {IBitmap, BBitmap, Desc} /\ \A i \in Inodes : Blk(b) # Ino(i)
  BY DEF Blk, Ino, IBitmap, BBitmap, Desc

\* What is appended to a sequence of writes is a write.
LEMMA LastWrite ==
    ASSUME NEW q \in Seq(Writes), NEW c, NEW v, Append(q, [cell |-> c, val |-> v]) \in Seq(Writes)
    PROVE  c \in Cells /\ v \in Contents(c)
<1>1. PICK w : w = [cell |-> c, val |-> v]
  OBVIOUS
<1>2. PICK r \in Seq(Writes) : r = Append(q, w)
  BY <1>1, Zenon
<1>3. Len(q) \in Nat /\ Len(r) = Len(q) + 1 /\ r[Len(q) + 1] = w
  BY <1>2
<1>4. w \in Writes
  <2>1. Len(r) \in 1..Len(r)
    BY <1>3
  <2>. QED BY <1>3, <2>1
<1>. QED BY <1>1, <1>4 DEF Writes

\* A block that belongs to a file or directory is written.
LEMMA BlockRuns ==
    ASSUME NEW d0, NEW O \in Shares, NEW t, Run(d0, O, t), NEW b, NEW v,
           WriteBlock(t, Blk(b), v).out \in Seq(Writes)
    PROVE  /\ Run(d0, O, WriteBlock(t, Blk(b), v))
           /\ Counted(t.disk) => Counted(WriteBlock(t, Blk(b), v).disk)
<1>1. t.out \in Seq(Writes) /\ t.disk \in Disks /\ Owned(t.disk, O)
  BY DEF Run, Sound
<1>2. WriteBlock(t, Blk(b), v).out = Append(t.out, [cell |-> Blk(b), val |-> v])
  BY DEF WriteBlock
<1>3. Blk(b) \in Cells /\ v \in Contents(Blk(b))
  BY <1>1, <1>2, LastWrite
<1>4. Blk(b) \notin {IBitmap, BBitmap, Desc} /\ \A i \in Inodes : Blk(b) # Ino(i)
  BY BlocksDiffer
<1>5. Owned(Put(t.disk, Blk(b), v), O)
  BY <1>1, <1>3, <1>4, OtherWrite, SMTT(60)
<1>. QED BY <1>3, <1>4, <1>5, FileWrite

\* write_inode of an inode that refers to its own blocks.
LEMMA InodeRuns ==
    ASSUME NEW d0, NEW O \in Shares, NEW t, Run(d0, O, t), NEW i \in Inodes, NEW v,
           WriteInode(t, i, v).out \in Seq(Writes), Once(v), BlocksOf(v) \subseteq O[i]
    PROVE  /\ Run(d0, O, WriteInode(t, i, v))
           /\ Counted(t.disk) => Counted(WriteInode(t, i, v).disk)
<1>1. t.out \in Seq(Writes) /\ t.disk \in Disks /\ Owned(t.disk, O)
  BY DEF Run, Sound
<1>2. WriteInode(t, i, v) = WriteBlock(t, Ino(i), v)
  BY DEF WriteInode
<1>3. WriteBlock(t, Ino(i), v).out = Append(t.out, [cell |-> Ino(i), val |-> v])
  BY SMTT(60) DEF WriteBlock
<1>4. Ino(i) \in Cells /\ v \in Contents(Ino(i))
  BY <1>1, <1>2, <1>3, LastWrite, SMTT(60)
<1>5. Ino(i) \notin {IBitmap, BBitmap, Desc}
  BY CellsDiffer
<1>6. Owned(Put(t.disk, Ino(i), v), O)
  BY <1>1, InodeWrite
<1>. QED BY <1>2, <1>4, <1>5, <1>6, FileWrite

\* The inode of a new file refers to no block, and that of a new directory to one.
LEMMA NewOwns ==
    /\ \A ty : Once(NewInode(ty, 0, <<>>)) /\ BlocksOf(NewInode(ty, 0, <<>>)) = {}
    /\ \A b \in Blocks : /\ Once(NewInode("dir", PerBlock, <<Extent(0, b)>>))
                         /\ BlocksOf(NewInode("dir", PerBlock, <<Extent(0, b)>>)) = {b}
<1>1. ASSUME NEW ty PROVE Once(NewInode(ty, 0, <<>>)) /\ BlocksOf(NewInode(ty, 0, <<>>)) = {}
  <2>1. NewInode(ty, 0, <<>>).ext = <<>> /\ Len(<<>>) = 0
    BY DEF NewInode
  <2>. QED BY <2>1 DEF Once, BlocksOf
<1>2. ASSUME NEW b \in Blocks
      PROVE  /\ Once(NewInode("dir", PerBlock, <<Extent(0, b)>>))
             /\ BlocksOf(NewInode("dir", PerBlock, <<Extent(0, b)>>)) = {b}
  <2>1. PICK x : x = NewInode("dir", PerBlock, <<Extent(0, b)>>)
    OBVIOUS
  <2>2. x.ext = <<Extent(0, b)>>
    BY <2>1 DEF NewInode
  <2>3. Len(x.ext) = 1 /\ x.ext[1] = Extent(0, b)
    BY <2>2
  <2>4. RangeOf(Extent(0, b)) = {b}
    BY Numbers DEF RangeOf, Extent
  <2>5. 1..1 = {1}
    OBVIOUS
  <2>6. Once(x)
    BY <2>3, <2>5 DEF Once
  <2>7. BlocksOf(x) = {b}
    BY <2>3, <2>4, <2>5 DEF BlocksOf
  <2>. QED BY <2>1, <2>6, <2>7
<1>. QED BY <1>1, <1>2
-----------------------------------------------------------------------------
\* Ext4Directory::create on a disk without a journal.
LEMMA CreateOwns ==
    ASSUME IInv, IInv', OInv, ~journal, NEW path \in Paths, NEW n \in Names, Create(path, n)
    PROVE  OInv'
<1> DEFINE D == Resolve(path)
           K == FindFreeEntrySpace(ListingOf(Now, D), SizeOf(n))
           A == AllocateInode(Now)
           T == WriteInode(A.fs, A.got, NewInode("file", 0, <<>>))
           E == Listing(AddEntry(ListingOf(T, D), K, A.got, n, "file"))
           U == WriteBlock(T, Blk(DirBlock(T, D)), E)
           N == [names EXCEPT ![D] = @ \cup {<<n, A.got>>}]
<1>1. Idle /\ A.got # 0 /\ Begin("create", A.got, U, N, text) /\ UNCHANGED files
  BY DEF Create, May, CommitIfJournal, JournalWriteBlock
<1>2. PICK O \in Shares :
        Run(disk, O, Now) /\ (crashes = 0 => Counted(disk)) /\ \A f \in Fds : Held(files[f], O)
  BY <1>1, CallStarts
<1>3. Run(disk, O, A.fs) /\ (Counted(Now.disk) => Counted(A.fs.disk))
  BY <1>2, RunInode
<1>4. A.got \in Inodes \ {Root}
  BY <1>1, NowIsSound, InodeKeeps
<1>5. Now.disk = disk
  BY DEF Now
<1>. HIDE DEF D, A, K
<1>6. U.out = todo' /\ todo' \in Seq(Writes)
  BY <1>1, Zenon DEF IInv, Begin
<1>7. Run(disk, O, T) /\ (Counted(A.fs.disk) => Counted(T.disk))
  <2>1. NewInode("file", 0, <<>>) \in FileInodes /\ Once(NewInode("file", 0, <<>>))
        /\ BlocksOf(NewInode("file", 0, <<>>)) = {}
    BY NewInodes, NewOwns
  <2>2. T.out \in Seq(Writes)
    <3>1. Sound(A.fs)
      BY <1>3 DEF Run
    <3>2. Sound(T)
      BY <1>4, <2>1, <3>1, InodeWriteKeeps
    <3>. HIDE DEF T
    <3>. QED BY <3>2 DEF Sound
  <2>. QED BY <1>3, <1>4, <2>1, <2>2, InodeRuns, Zenon
<1>. HIDE DEF T, E
<1>8. Run(disk, O, U) /\ (Counted(T.disk) => Counted(U.disk))
  BY <1>6, <1>7, BlockRuns, Zenon
<1>. HIDE DEF U, N
<1>9. crashes = 0 => Counted(U.disk)
  BY <1>2, <1>3, <1>5, <1>7, <1>8
<1>10. \A f \in Fds : Held(files'[f], O)
  BY <1>1, <1>2
<1>11. PICK t : t = U
  OBVIOUS
<1>12. PICK i, nm, tx : i = A.got /\ nm = N /\ tx = text
  OBVIOUS
<1>13. Begin("create", i, t, nm, tx) /\ Run(disk, O, t) /\ (crashes = 0 => Counted(t.disk))
  BY <1>1, <1>8, <1>9, <1>11, <1>12, Zenon
<1>. QED BY <1>10, <1>13, BegunOwns, SMTT(60)

\* Ext4Directory::mkdir on a disk without a journal: the new directory owns its block.
LEMMA MkdirOwns ==
    ASSUME IInv, IInv', OInv, ~journal, NEW path \in Paths, NEW n \in Names, Mkdir(path, n)
    PROVE  OInv'
<1> DEFINE D == Resolve(path)
           A == AllocateInode(Now)
           B == AllocateBlock(A.fs)
           J == NewInode("dir", PerBlock, <<Extent(0, B.got)>>)
           S == WriteInode(B.fs, A.got, J)
           T == WriteBlock(S, Blk(B.got), EmptyDir(A.got, D))
           K == FindFreeEntrySpace(ListingOf(T, D), SizeOf(n))
           E == Listing(AddEntry(ListingOf(T, D), K, A.got, n, "dir"))
           U == WriteBlock(T, Blk(DirBlock(T, D)), E)
           N == [names EXCEPT ![D] = @ \cup {<<n, A.got>>}]
<1>1. /\ Idle /\ D # 0 /\ A.got # 0 /\ UNCHANGED files
      /\ \/ B.got = 0 /\ Begin("mkdir", A.got, A.fs, names, text)
         \/ B.got # 0 /\ Begin("mkdir", A.got, T, names, text)
         \/ B.got # 0 /\ Begin("mkdir", A.got, U, N, text)
  BY ZenonT(60) DEF Mkdir, May, CommitIfJournal, JournalWriteBlock
<1>2. PICK O \in Shares :
        Run(disk, O, Now) /\ (crashes = 0 => Counted(disk)) /\ \A f \in Fds : Held(files[f], O)
  BY <1>1, CallStarts
<1>3. Run(disk, O, A.fs) /\ (Counted(Now.disk) => Counted(A.fs.disk))
  BY <1>2, RunInode, SMTT(60)
<1>4. A.got \in Inodes \ {Root} /\ D \in Inodes
  BY <1>1, NowIsSound, InodeKeeps, ResolveIn
<1>5. Now.disk = disk
  BY DEF Now
<1>6. files \in [Fds -> Handles]
  BY SMTT(60) DEF IInv
<1>. HIDE DEF D, A
<1>7. ASSUME NEW t, NEW nm, NEW P \in Shares, Begin("mkdir", A.got, t, nm, text), Above(O, P),
             Run(disk, P, t), Counted(A.fs.disk) => Counted(t.disk)
      PROVE  OInv'
  <2>1. PICK i, tx : i = A.got /\ tx = text
    OBVIOUS
  <2>2. Begin("mkdir", i, t, nm, tx)
    BY <1>7, <2>1, Zenon
  <2>3. crashes = 0 => Counted(t.disk)
    BY <1>2, <1>3, <1>5, <1>7, SMTT(60)
  <2>4. \A f \in Fds : Held(files'[f], P)
    BY <1>1, <1>2, <1>6, <1>7, HeldGrows
  <2>. QED BY <1>7, <2>2, <2>3, <2>4, BegunOwns
<1>8. CASE B.got = 0 /\ Begin("mkdir", A.got, A.fs, names, text)
  <2>1. PICK t : t = A.fs
    OBVIOUS
  <2>2. PICK nm : nm = names
    OBVIOUS
  <2>3. Above(O, O)
    BY Zenon DEF Above
  <2>. QED BY <1>3, <1>7, <1>8, <2>1, <2>2, <2>3, Zenon
<1>9. ASSUME B.got # 0
      PROVE  \E P \in Shares : Above(O, P) /\ Run(disk, P, T) /\ (Counted(A.fs.disk) => Counted(T.disk))
  <2>1. /\ B.got \in Blocks /\ (Counted(A.fs.disk) => Counted(B.fs.disk))
        /\ Sound(B.fs) /\ B.got \in 2..NBlocks
    <3>1. Sound(A.fs)
      BY <1>3, Zenon DEF Run
    <3>. QED BY <1>3, <1>9, <3>1, RunBlock, BlockKeeps, Zenon
  <2>2. Once(J) /\ BlocksOf(J) = {B.got} /\ J \in FileInodes
    BY <2>1, NewOwns, NewInodes, Zenon
  <2>3. Grown(disk, O, A.got, B.fs, J) # {}
    <3>1. PICK x : x = NewInode("none", 0, <<>>)
      OBVIOUS
    <3>2. Once(x) /\ BlocksOf(x) = {}
      BY <3>1, NewOwns
    <3>3. O \in Grown(disk, O, A.got, A.fs, x)
      BY <1>3, <3>2 DEF Grown, Above
    <3>4. Once(J) /\ BlocksOf(J) \subseteq BlocksOf(x) \cup {B.got}
      BY <2>2
    <3>. HIDE DEF J
    <3>. QED BY <1>4, <1>9, <3>3, <3>4, BlockIsOwned, ZenonT(60)
  <2>4. PICK P \in Grown(disk, O, A.got, B.fs, J) : TRUE
    BY <2>3, SMTT(60)
  <2>. HIDE DEF B, J
  <2>5. P \in Shares /\ Above(O, P) /\ Run(disk, P, B.fs) /\ BlocksOf(J) \subseteq P[A.got]
    BY <2>4 DEF Grown
  <2>6. Sound(S)
    BY <1>4, <2>1, <2>2, InodeWriteKeeps, Zenon
  <2>7. Run(disk, P, S) /\ (Counted(B.fs.disk) => Counted(S.disk))
    <3>1. S.out \in Seq(Writes)
      <4>. HIDE DEF S
      <4>. QED BY <2>6 DEF Sound
    <3>. QED BY <1>4, <2>2, <2>5, <3>1, InodeRuns, Zenon
  <2>. HIDE DEF S
  <2>8. Sound(T)
    <3>1. Blk(B.got) \in Cells /\ EmptyDir(A.got, D) \in Contents(Blk(B.got))
      <4>1. B.got \in Blocks \ {1}
        BY <2>1
      <4>2. A.got \in 0..NInodes /\ D \in 0..NInodes
        BY <1>4, Numbers DEF Inodes
      <4>. QED BY <4>1, <4>2, EmptyTiles, CellsDiffer, ContentsOfCells, Zenon
    <3>. QED BY <2>6, <3>1, WriteKeeps, Zenon
  <2>9. Run(disk, P, T) /\ (Counted(S.disk) => Counted(T.disk))
    <3>1. T.out \in Seq(Writes)
      <4>. HIDE DEF T
      <4>. QED BY <2>8, SMTT(60) DEF Sound
    <3>. QED BY <2>5, <2>7, <3>1, BlockRuns, Zenon
  <2>. QED BY <2>1, <2>5, <2>7, <2>9, Zenon
<1>. HIDE DEF T
<1>10. CASE B.got # 0 /\ Begin("mkdir", A.got, T, names, text)
  <2>1. PICK t : t = T
    OBVIOUS
  <2>2. PICK nm : nm = names
    BY SMTT(60)
  <2>. QED BY <1>7, <1>9, <1>10, <2>1, <2>2
<1>11. CASE B.got # 0 /\ Begin("mkdir", A.got, U, N, text)
  <2>1. PICK P \in Shares : Above(O, P) /\ Run(disk, P, T) /\ (Counted(A.fs.disk) => Counted(T.disk))
    BY <1>9, <1>11, Zenon
  <2>2. U.out \in Seq(Writes)
    BY <1>11, Zenon DEF IInv, Begin
  <2>. HIDE DEF E, N
  <2>3. Run(disk, P, U) /\ (Counted(T.disk) => Counted(U.disk))
    BY <2>1, <2>2, BlockRuns, Zenon
  <2>. HIDE DEF U
  <2>4. PICK t : t = U
    OBVIOUS
  <2>5. PICK nm : nm = N
    OBVIOUS
  <2>. QED BY <1>7, <1>11, <2>1, <2>3, <2>4, <2>5
<1>. HIDE DEF U, N, B
<1>. QED BY <1>1, <1>8, <1>10, <1>11

\* Ext4Directory::unlink on a disk without a journal.
LEMMA UnlinkOwns ==
    ASSUME IInv, IInv', OInv, ~journal, NEW path \in Paths, NEW n \in Names \cup Dots, Unlink(path, n)
    PROVE  OInv'
<1> DEFINE D == Resolve(path)
           E == ListingOf(Now, D)
           K == FindEntry(E, n)
           V == Listing(RemoveEntry(E, K))
           U == WriteBlock(Now, Blk(DirBlock(Now, D)), V)
           N == [names EXCEPT ![D] = @ \ {<<n, E[K].ino>>}]
<1>1. Idle /\ Begin("unlink", E[K].ino, U, N, text) /\ UNCHANGED files
  BY DEF Unlink, May, CommitIfJournal, JournalWriteBlock
<1>2. PICK O \in Shares :
        Run(disk, O, Now) /\ (crashes = 0 => Counted(disk)) /\ \A f \in Fds : Held(files[f], O)
  BY <1>1, CallStarts
<1>3. Now.disk = disk
  BY DEF Now
<1>4. U.out \in Seq(Writes)
  BY <1>1, Zenon DEF IInv, Begin
<1>. HIDE DEF E, K, V, D
<1>5. Run(disk, O, U) /\ (Counted(Now.disk) => Counted(U.disk))
  BY <1>2, <1>4, BlockRuns
<1>. HIDE DEF U, N
<1>6. PICK t : t = U
  OBVIOUS
<1>7. PICK i, nm, tx : i = E[K].ino /\ nm = N /\ tx = text
  OBVIOUS
<1>8. Begin("unlink", i, t, nm, tx) /\ Run(disk, O, t) /\ (crashes = 0 => Counted(t.disk))
  BY <1>1, <1>2, <1>3, <1>5, <1>6, <1>7
<1>9. \A f \in Fds : Held(files'[f], O)
  BY <1>1, <1>2
<1>. QED BY <1>8, <1>9, BegunOwns, SMTT(60)

\* Ext4File::write on a disk without a journal: the cached inode that is written back refers
\* to the file's own blocks, also when another Ext4File of the same file has grown it.
LEMMA WriteOwns ==
    ASSUME IInv, IInv', OInv, ~journal, NEW f \in Fds, NEW off \in Positions, NEW n \in WriteLens,
           Write(f, off, n)
    PROVE  OInv'
<1> DEFINE I == files[f].ino
           J == files[f].inode
           W == WriteLoop(J, off, n, ops + 1)
           end == off + Cardinality(W.done)
           size == IF end > W.inode.size THEN end ELSE W.inode.size
           V == [W.inode EXCEPT !.size = size]
           T == WriteInode(W.fs, I, V)
           X == [text EXCEPT ![I] = [p \in Positions |-> IF p \in W.done THEN ops + 1 ELSE @[p]]]
<1>1. /\ May /\ files[f] # Closed
      /\ files' = [files EXCEPT ![f].inode = V] /\ Begin("write", I, T, names, X)
  BY SMTT(60) DEF Write
<1>2. files[f] \in [ino : Inodes \ {Root}, inode : FileInodes] /\ files \in [Fds -> Handles]
  BY <1>1 DEF IInv, Handles
<1>3. I \in Inodes \ {Root} /\ J \in FileInodes
  BY <1>2
<1>4. off \in Nat /\ n \in Nat \ {0} /\ ops + 1 \in 0..MaxOps
  <2>1. FileParts \in Nat /\ n \in 1..FileParts
    BY Ext4Assumption
  <2>2. ops \in 0..MaxOps /\ ops < MaxOps /\ MaxOps \in Nat
    BY <1>1, Numbers DEF IInv, May
  <2>3. ops + 1 \in 0..MaxOps
    BY <2>2
  <2>4. off \in Nat
    BY DEF Positions
  <2>. QED BY <2>1, <2>3, <2>4
<1>5. PICK O \in Shares :
        Run(disk, O, Now) /\ (crashes = 0 => Counted(disk)) /\ \A g \in Fds : Held(files[g], O)
  BY <1>1, CallStarts, SMTT(60) DEF May
<1>6. O \in Grown(disk, O, I, Now, J)
  <2>1. Once(J) /\ BlocksOf(J) \subseteq O[I]
    BY <1>1, <1>5 DEF Held
  <2>. QED BY <1>5, <2>1 DEF Grown, Above
<1>7. W \in OwnStates(disk, O, I, Now, J, off .. off + n - 1)
  <2>1. PICK i \in Inodes, j \in FileInodes, v \in 0..MaxOps : i = I /\ j = J /\ v = ops + 1
    BY <1>3, <1>4
  <2>2. WriteLoop(j, off, n, v) \in OwnStates(disk, O, i, Now, j, off .. off + n - 1)
    BY <1>4, <1>6, <2>1, NowIsSound, LoopIsOwned, Zenon
  <2>. QED BY <2>1, <2>2
<1>. HIDE DEF I, J, W
<1>8. PICK P \in Grown(disk, O, I, W.fs, W.inode) : TRUE
  BY <1>7 DEF OwnStates
<1>9. /\ P \in Shares /\ Above(O, P) /\ Run(disk, P, W.fs)
      /\ Once(W.inode) /\ BlocksOf(W.inode) \subseteq P[I]
  BY <1>8 DEF Grown
<1>10. (Counted(disk) => Counted(W.fs.disk)) /\ W.inode \in FileInodes
  BY <1>7 DEF OwnStates, LoopStates
<1>11. Once(V) /\ BlocksOf(V) \subseteq P[I]
  <2>1. V.ext = W.inode.ext
    BY <1>10 DEF FileInodes, InodeType
  <2>. HIDE DEF V
  <2>. QED BY <1>9, <2>1, Zenon DEF Once, BlocksOf
<1>. HIDE DEF V
<1>12. T.out \in Seq(Writes)
  BY <1>1 DEF IInv, Begin
<1>13. Run(disk, P, T) /\ (Counted(W.fs.disk) => Counted(T.disk))
  BY <1>3, <1>9, <1>11, <1>12, InodeRuns, Zenon
<1>. HIDE DEF T, X
<1>14. ASSUME NEW g \in Fds PROVE Held(files'[g], P)
  <2>1. files' = [files EXCEPT ![f] = [files[f] EXCEPT !.inode = V]]
    BY <1>1, <1>2
  <2>2. CASE g = f
    <3>1. files'[g] = [files[f] EXCEPT !.inode = V]
      BY <1>2, <2>1, <2>2
    <3>2. files'[g].inode = V /\ files'[g].ino = I
      BY <1>2, <3>1 DEF I
    <3>. QED BY <1>11, <3>2 DEF Held
  <2>3. CASE g # f
    <3>1. files'[g] = files[g] /\ files[g] \in Handles
      BY <1>2, <2>1, <2>3
    <3>2. Held(files[g], O)
      BY <1>5
    <3>. QED BY <1>9, <3>1, <3>2, HeldGrows, Zenon
  <2>. QED BY <2>2, <2>3
<1>15. PICK t : t = T
  OBVIOUS
<1>16. PICK i, nm, tx : i = I /\ nm = names /\ tx = X
  OBVIOUS
<1>17. Begin("write", i, t, nm, tx) /\ Run(disk, P, t) /\ (crashes = 0 => Counted(t.disk))
  BY <1>1, <1>5, <1>10, <1>13, <1>15, <1>16
<1>. QED BY <1>9, <1>14, <1>17, BegunOwns, Zenon

\* finddir and the constructor of Ext4File: the cached inode is the one on the disk.
LEMMA OpenOwns ==
    ASSUME IInv, IInv', OInv, ~journal, NEW f \in Fds, NEW path \in Paths, NEW n \in Names,
           Open(f, path, n)
    PROVE  OInv'
<1> DEFINE I == Found(Resolve(path), n)
           h == [ino |-> I, inode |-> disk[Ino(I)]]
<1>1. /\ Idle /\ I # 0 /\ files' = [files EXCEPT ![f] = h]
      /\ UNCHANGED <<journal, disk, todo, op, crashes>>
  BY DEF Open, May
<1>2. PICK O \in Shares :
        Run(disk, O, Now) /\ (crashes = 0 => Counted(disk)) /\ \A g \in Fds : Held(files[g], O)
  BY <1>1, CallStarts
<1>3. todo = <<>> /\ disk \in Disks /\ files \in [Fds -> Handles] /\ files' \in [Fds -> Handles]
  BY <1>1 DEF OInv, IInv
<1>. HIDE DEF I
<1>4. I \in Inodes
  <2>1. files'[f] = h /\ h \in Handles
    BY <1>1, <1>3
  <2>2. h.ino = I
    OBVIOUS
  <2>. HIDE DEF h
  <2>. QED BY <1>1, <2>1, <2>2 DEF Handles, Closed
<1>5. Chains(disk, <<>>, disk) # {} /\ Owned(disk, O)
  BY <1>2 DEF Run, Now
<1>6. ASSUME NEW g \in Fds PROVE Held(files'[g], O)
  <2>1. Held(h, O)
    BY <1>4, <1>5 DEF Held, Owned
  <2>. HIDE DEF h
  <2>. QED BY <1>1, <1>2, <1>3, <2>1, SMTT(60)
<1>7. PICK hs : hs = files'
  OBVIOUS
<1>8. O \in Ends(disk, <<>>, hs, crashes)
  BY <1>2, <1>3, <1>5, <1>6, <1>7, SMTT(60) DEF Ends
<1>9. O \in Ends(disk', todo', files', crashes') /\ todo' = <<>>
  BY <1>1, <1>3, <1>7, <1>8
<1>. QED BY <1>9, SMTT(60) DEF OInv

\* Ext4File::close.
LEMMA CloseOwns ==
    ASSUME IInv, OInv, ~journal, NEW f \in Fds, Close(f)
    PROVE  OInv'
<1>1. Idle /\ files' = [files EXCEPT ![f] = Closed] /\ UNCHANGED <<journal, disk, todo, op, crashes>>
  BY DEF Close
<1>2. todo = <<>> /\ Ends(disk, todo, files, crashes) # {} /\ files \in [Fds -> Handles]
  BY <1>1 DEF OInv, IInv
<1>3. PICK O \in Ends(disk, todo, files, crashes) : TRUE
  BY <1>2
<1>4. PICK hs : hs = files'
  BY SMTT(60)
<1>5. \A g \in Fds : Held(files[g], O) => Held(hs[g], O)
  BY <1>1, <1>2, <1>4, SMTT(60) DEF Held
<1>6. O \in Ends(disk, todo, hs, crashes)
  BY <1>3, <1>5 DEF Ends
<1>7. O \in Ends(disk', todo', files', crashes') /\ todo' = <<>>
  BY <1>1, <1>2, <1>4, <1>6
<1>. QED BY <1>7 DEF OInv

\* One block write of the running call.
LEMMA WriteOneOwns ==
    ASSUME IInv, OInv, ~journal, WriteOne
    PROVE  OInv'
<1>1. /\ todo # <<>> /\ todo \in Seq(Writes)
      /\ disk' = [disk EXCEPT ![Head(todo).cell] = Head(todo).val]
      /\ todo' = Tail(todo) /\ UNCHANGED <<journal, files, op, crashes>>
  BY DEF WriteOne, IInv
<1>2. ~Idle /\ Ends(disk, todo, files, crashes) # {}
  BY <1>1 DEF OInv
<1>3. PICK O \in Shares : \E e \in Disks :
        /\ Chains(disk, todo, e) # {} /\ Owned(e, O) /\ (\A f \in Fds : Held(files[f], O))
        /\ crashes = 0 => Counted(e)
  BY <1>2 DEF Ends
<1>4. PICK e \in Disks :
        /\ Chains(disk, todo, e) # {} /\ Owned(e, O) /\ (\A f \in Fds : Held(files[f], O))
        /\ crashes = 0 => Counted(e)
  BY <1>3
<1>5. Chains([disk EXCEPT ![Head(todo).cell] = Head(todo).val], Tail(todo), e) # {}
  BY <1>1, <1>4, ChainMoves, Zenon
<1>6. PICK d, q : d = disk' /\ q = todo'
  OBVIOUS
<1>7. Chains(d, q, e) # {}
  BY <1>1, <1>5, <1>6, Zenon
<1>8. O \in Ends(d, q, files, crashes)
  BY <1>4, <1>7 DEF Ends
<1>9. O \in Ends(disk', todo', files', crashes') /\ ~Idle'
  BY <1>1, <1>2, <1>6, <1>8 DEF Idle
<1>. QED BY <1>9 DEF OInv

\* The return of a call.
LEMMA ReturnOwns ==
    ASSUME OInv, ~journal, Return
    PROVE  OInv'
<1>1. todo = <<>> /\ UNCHANGED <<journal, disk, files, todo, crashes>>
  BY DEF Return
<1>2. Ends(disk', todo', files', crashes') # {} /\ todo' = <<>>
  BY <1>1 DEF OInv
<1>. QED BY <1>2 DEF OInv

\* A power cut: the disk is left as one of the disks of the chain.
LEMMA CrashOwns ==
    ASSUME IInv, OInv, ~journal, Crash
    PROVE  OInv'
<1>1. /\ crashes' = crashes + 1 /\ todo' = <<>> /\ files' = [f \in Fds |-> Closed]
      /\ UNCHANGED <<journal, disk>>
  BY DEF Crash
<1>2. disk \in Disks /\ todo \in Seq(Writes) /\ crashes + 1 # 0
  BY DEF IInv
<1>3. \E e : Chains(disk, todo, e) # {}
  BY DEF OInv, Ends
<1>4. Fair(disk) /\ Chains(disk, <<>>, disk) # {}
  BY <1>2, <1>3, ChainStarts
<1>5. PICK O \in Shares : Owned(disk, O)
  BY <1>4 DEF Fair
<1>6. PICK hs, c : hs = files' /\ c = crashes'
  OBVIOUS
<1>7. O \in Ends(disk, <<>>, hs, c)
  BY <1>1, <1>2, <1>4, <1>5, <1>6, Zenon DEF Ends, Held
<1>8. O \in Ends(disk', todo', files', crashes') /\ todo' = <<>>
  BY <1>1, <1>6, <1>7
<1>. QED BY <1>8 DEF OInv
-----------------------------------------------------------------------------
\* The disk mkfs.ext4 made: the root directory owns its block, and the counts are right.
LEMMA FreshOwns ==
    ASSUME NEW used \in Images
    PROVE  Fair(FreshDisk(used)) /\ Counted(FreshDisk(used))
<1> DEFINE F == FreshDisk(used)
           O == [i \in Inodes |-> IF i = Root THEN {1} ELSE {}]
<1>1. used \in SUBSET (2..NBlocks) /\ NBlocks \in Nat \ {0} /\ NInodes \in Nat \ {0}
  BY Ext4Assumption
<1>2. /\ F[IBitmap] = {Root} /\ F[BBitmap] = {1} \cup used
      /\ F[Desc] = [freeInodes |-> NInodes - 1, freeBlocks |-> NBlocks - 1 - Cardinality(used)]
      /\ F[Ino(Root)] = NewInode("dir", PerBlock, <<Extent(0, 1)>>)
      /\ \A i \in Inodes \ {Root} : F[Ino(i)] = NewInode("none", 0, <<>>)
  <2>1. \A c \in Cells : F[c] =
          IF c = IBitmap THEN {Root}
          ELSE IF c = BBitmap THEN {1} \cup used
          ELSE IF c = Desc THEN [freeInodes |-> NInodes - 1, freeBlocks |-> NBlocks - 1 - Cardinality(used)]
          ELSE IF c = Ino(Root) THEN NewInode("dir", PerBlock, <<Extent(0, 1)>>)
          ELSE IF c = Blk(1) THEN EmptyDir(Root, Root)
          ELSE IF c[1] = "inode" THEN NewInode("none", 0, <<>>)
          ELSE Data(Stale)
    BY Zenon DEF FreshDisk
  <2>. HIDE DEF F
  <2>2. \A i \in Inodes : Ino(i)[1] = "inode"
    BY DEF Ino
  <2>3. F[IBitmap] = {Root} /\ F[BBitmap] = {1} \cup used
    BY <2>1, CellsDiffer, Zenon
  <2>4. F[Desc] = [freeInodes |-> NInodes - 1, freeBlocks |-> NBlocks - 1 - Cardinality(used)]
    BY <2>1, CellsDiffer, Zenon
  <2>5. F[Ino(Root)] = NewInode("dir", PerBlock, <<Extent(0, 1)>>)
    BY <2>1, CellsDiffer, Numbers, Zenon
  <2>6. ASSUME NEW i \in Inodes \ {Root} PROVE F[Ino(i)] = NewInode("none", 0, <<>>)
    <3>1. i \in Inodes /\ i # Root
      OBVIOUS
    <3>. QED BY <2>1, <2>2, <3>1, CellsDiffer, Numbers, Zenon
  <2>. QED BY <2>3, <2>4, <2>5, <2>6
<1>. HIDE DEF F
<1>3. Counted(F)
  <2>1. Blocks \ ({1} \cup used) = (2..NBlocks) \ used
    BY <1>1 DEF Blocks
  <2>2. Inodes \ {Root} = 2..NInodes
    BY <1>1 DEF Inodes, Root
  <2>3. ASSUME NEW m \in Nat \ {0} PROVE IsFiniteSet(2..m) /\ Cardinality(2..m) = m - 1
    <3>1. IsFiniteSet(2..m) /\ Cardinality(2..m) = IF 2 > m THEN 0 ELSE m - 2 + 1
      BY FS_Interval
    <3>. QED BY <3>1
  <2>4. (2..NBlocks) \cap used = used
    BY <1>1, Zenon
  <2>5. Cardinality((2..NBlocks) \ used) = NBlocks - 1 - Cardinality(used)
    <3>1. IsFiniteSet(2..NBlocks) /\ Cardinality(2..NBlocks) = NBlocks - 1
      BY <1>1, <2>3
    <3>2. PICK S : S = 2..NBlocks
      OBVIOUS
    <3>3. Cardinality(S \ used) = Cardinality(S) - Cardinality(S \cap used)
      BY <3>1, <3>2, FS_Difference, Zenon
    <3>. QED BY <2>4, <3>1, <3>2, <3>3, Zenon
  <2>6. F[Desc].freeInodes = NInodes - 1 /\ F[Desc].freeBlocks = NBlocks - 1 - Cardinality(used)
    BY <1>2
  <2>7. Cardinality(Inodes \ {Root}) = NInodes - 1
    BY <1>1, <2>2, <2>3, Zenon
  <2>. QED BY <1>2, <2>1, <2>5, <2>6, <2>7, Zenon DEF Counted
<1>4. O \in Shares /\ Apart(O)
  BY Numbers DEF Shares, Apart
<1>5. ASSUME NEW j \in Inodes
      PROVE  Once(F[Ino(j)]) /\ BlocksOf(F[Ino(j)]) \subseteq O[j] /\ O[j] \subseteq F[BBitmap]
  <2>1. CASE j = Root
    <3>1. O[j] = {1}
      BY <2>1, Numbers, SMTT(60)
    <3>. HIDE DEF O
    <3>. QED BY <1>2, <2>1, <3>1, NewOwns, Numbers
  <2>2. CASE j # Root
    <3>1. O[j] = {}
      BY <2>2, Numbers, SMTT(60)
    <3>. HIDE DEF O
    <3>. QED BY <1>2, <2>2, <3>1, NewOwns
  <2>. QED BY <2>1, <2>2, SMTT(60)
<1>. HIDE DEF O
<1>6. Owned(F, O)
  BY <1>4, <1>5 DEF Owned
<1>. QED BY <1>3, <1>4, <1>6 DEF Fair, F

\* The first state.
LEMMA InitOwns == Init => OInv
<1>1. SUFFICES ASSUME Init PROVE OInv
  OBVIOUS
<1>2. Fair(disk) /\ Counted(disk) /\ disk \in Disks
  BY <1>1, FreshOwns, FreshIsDisk DEF Init
<1>3. PICK O \in Shares : Owned(disk, O)
  BY <1>2 DEF Fair
<1>4. Chains(disk, <<>>, disk) # {}
  BY <1>2, ChainStarts
<1>5. todo = <<>> /\ files = [f \in Fds |-> Closed]
  BY <1>1 DEF Init
<1>6. O \in Ends(disk, todo, files, crashes)
  BY <1>2, <1>3, <1>4, <1>5 DEF Ends, Held
<1>. QED BY <1>5, <1>6 DEF OInv

\* One step per action; no action changes whether the disk has a journal.
LEMMA StepOwns == IInv /\ IInv' /\ OInv /\ [Next]_vars => OInv'
<1>1. SUFFICES ASSUME IInv, IInv', OInv, [Next]_vars, ~journal' PROVE OInv'
  BY DEF OInv
<1>2. CASE Next
  <2>1. journal' = journal
    <3>1. \A k, i, t, nm, tx : Begin(k, i, t, nm, tx) => journal' = journal
      BY DEF Begin
    <3>2. \A path, n : Create(path, n) \/ Mkdir(path, n) \/ Unlink(path, n) => journal' = journal
      BY <3>1, ZenonT(60) DEF Create, Mkdir, Unlink
    <3>3. \A f, path, n : Open(f, path, n) \/ Close(f) => journal' = journal
      BY DEF Open, Close
    <3>4. ASSUME NEW f, NEW off, NEW n, Write(f, off, n) PROVE journal' = journal
      <4>1. \E k, i, t, nm, tx : Begin(k, i, t, nm, tx)
        BY <3>4, Zenon DEF Write
      <4>. QED BY <3>1, <4>1
    <3>5. WriteOne \/ Return \/ Crash => journal' = journal
      BY Zenon DEF WriteOne, Return, Crash
    <3>. QED BY <1>2, <3>2, <3>3, <3>4, <3>5 DEF Next
  <2>2. ~journal
    BY <1>1, <2>1
  <2>3. CASE \E path \in Paths, n \in Names :
               Create(path, n) \/ Mkdir(path, n) \/ \E f \in Fds : Open(f, path, n)
    BY <1>1, <2>2, <2>3, CreateOwns, MkdirOwns, OpenOwns
  <2>4. CASE \E path \in Paths, n \in Names \cup Dots : Unlink(path, n)
    BY <1>1, <2>2, <2>4, UnlinkOwns
  <2>5. CASE \E f \in Fds : Close(f) \/ \E off \in Positions, n \in WriteLens : Write(f, off, n)
    BY <1>1, <2>2, <2>5, CloseOwns, WriteOwns
  <2>6. CASE WriteOne \/ Return \/ Crash
    BY <1>1, <2>2, <2>6, WriteOneOwns, ReturnOwns, CrashOwns
  <2>. QED BY <1>2, <2>3, <2>4, <2>5, <2>6 DEF Next
<1>3. CASE UNCHANGED vars
  <2>1. UNCHANGED <<journal, disk, todo, files, op, crashes>>
    BY <1>3 DEF vars
  <2>. QED BY <1>1, <2>1 DEF OInv, Idle
<1>. QED BY <1>1, <1>2, <1>3

\* Owned blocks have one owner, and when no call is running the chain has ended.
LEMMA OwnersImply == IInv /\ OInv => PlainBlocksHaveOneOwner
<1>1. SUFFICES ASSUME IInv, OInv, ~journal
               PROVE  BlocksHaveOneOwner /\ (Idle /\ crashes = 0 => CountsMatchBitmaps)
  BY DEF PlainBlocksHaveOneOwner
<1>2. disk \in Disks /\ todo \in Seq(Writes)
  BY <1>1 DEF IInv
<1>3. PICK Q \in Ends(disk, todo, files, crashes) : TRUE
  BY <1>1 DEF OInv
<1>4. PICK e \in Disks : Chains(disk, todo, e) # {} /\ (crashes = 0 => Counted(e))
  BY <1>3 DEF Ends
<1>5. PICK O \in Shares : Owned(disk, O)
  BY <1>2, <1>4, ChainStarts DEF Fair
<1>6. ASSUME NEW i \in Inodes
      PROVE  disk[Ino(i)].ext \in Seq([block : Nat, start : Blocks, len : Nat \ {0}])
  <2>1. disk[Ino(i)] \in InodeType
    <3>1. disk[Ino(i)] \in Contents(Ino(i)) /\ Ino(i) \in Cells
      BY <1>2, CellsDiffer DEF Disks
    <3>2. RootInode \in InodeType
      BY Numbers DEF RootInode, NewInode, InodeType, Extent
    <3>. QED BY <3>1, <3>2, ContentsOfCells, SMTT(60) DEF FileInodes
  <2>2. \A v \in InodeType : v.ext \in Seq([block : Nat, start : Blocks, len : Nat \ {0}])
    BY DEF InodeType
  <2>. QED BY <2>1, <2>2, ZenonT(60)
<1>7. ASSUME NEW i \in Inodes, NEW x \in Mapped(i)
      PROVE  \E k \in 1..Len(disk[Ino(i)].ext) :
                LET g == disk[Ino(i)].ext[k] IN
                /\ g \in [block : Nat, start : Blocks, len : Nat \ {0}]
                /\ x[2] \in RangeOf(g) /\ x = <<g.block + (x[2] - g.start), x[2]>>
  <2>1. PICK s \in Seq([block : Nat, start : Blocks, len : Nat \ {0}]) : s = disk[Ino(i)].ext
    BY <1>6, Zenon
  <2>2. PICK k \in 1..Len(s) : \E o \in 0 .. s[k].len - 1 : x = <<s[k].block + o, s[k].start + o>>
    <3>1. ToSet(s) = {s[k] : k \in 1..Len(s)}
      BY <2>1 DEF ToSet
    <3>2. PICK g \in ToSet(s) : x \in {<<g.block + o, g.start + o>> : o \in 0 .. g.len - 1}
      BY <1>7, <2>1 DEF Mapped
    <3>3. PICK k \in 1..Len(s) : g = s[k]
      BY <3>1
    <3>. QED BY <3>2, <3>3
  <2>3. PICK o \in 0 .. s[k].len - 1 : x = <<s[k].block + o, s[k].start + o>>
    BY <2>2
  <2>4. s[k] \in [block : Nat, start : Blocks, len : Nat \ {0}]
    BY <2>2, ElementOfSeq, Zenon
  <2>5. s[k].block \in Nat /\ s[k].start \in Nat /\ s[k].len \in Nat
    <3>1. s[k].block \in Nat /\ s[k].start \in Blocks /\ s[k].len \in Nat \ {0}
      BY <2>4
    <3>. QED BY <3>1, Numbers, Zenon
  <2>6. x[2] = s[k].start + o
    BY <2>3
  <2>7. x[2] - s[k].start = o /\ x[2] \in RangeOf(s[k])
    <3>1. ASSUME NEW a \in Nat, NEW n \in Nat, NEW m \in 0 .. n - 1, NEW y, y = a + m
          PROVE  y - a = m /\ y \in a .. a + n - 1
      BY <3>1
    <3>2. x[2] - s[k].start = o /\ x[2] \in s[k].start .. s[k].start + s[k].len - 1
      BY <2>5, <2>6, <3>1, Zenon
    <3>. QED BY <3>2 DEF RangeOf
  <2>. QED BY <2>1, <2>3, <2>4, <2>6, <2>7, Zenon
<1>8. ASSUME NEW i \in Inodes, NEW j \in Inodes, NEW x \in Mapped(i), NEW y \in Mapped(j)
      PROVE  x[2] \in disk[BBitmap] /\ (x[2] = y[2] => i = j /\ x = y)
  <2>1. PICK s, t : s = disk[Ino(i)] /\ t = disk[Ino(j)]
    BY SMTT(60)
  <2>2. PICK k \in 1..Len(s.ext) : x[2] \in RangeOf(s.ext[k])
                                   /\ x = <<s.ext[k].block + (x[2] - s.ext[k].start), x[2]>>
    BY <1>7, <2>1, SMTT(60)
  <2>3. PICK l \in 1..Len(t.ext) : y[2] \in RangeOf(t.ext[l])
                                   /\ y = <<t.ext[l].block + (y[2] - t.ext[l].start), y[2]>>
    BY <1>7, <2>1
  <2>4. x[2] \in BlocksOf(s) /\ y[2] \in BlocksOf(t)
    BY <2>2, <2>3 DEF BlocksOf
  <2>5. /\ Once(s) /\ BlocksOf(s) \subseteq O[i] /\ O[i] \subseteq disk[BBitmap]
        /\ Once(t) /\ BlocksOf(t) \subseteq O[j] /\ Apart(O)
    BY <1>5, <2>1, Zenon DEF Owned
  <2>6. ASSUME x[2] = y[2] PROVE i = j /\ x = y
    <3>1. i = j
      BY <2>4, <2>5, <2>6 DEF Apart
    <3>2. s = t
      BY <2>1, <3>1
    <3>3. k = l
      BY <2>2, <2>3, <2>5, <2>6, <3>2, Zenon DEF Once
    <3>. QED BY <2>2, <2>3, <2>6, <3>1, <3>2, <3>3
  <2>. QED BY <2>4, <2>5, <2>6
<1>9. ASSUME Idle, crashes = 0 PROVE CountsMatchBitmaps
  <2>1. todo = <<>>
    BY <1>1, <1>9 DEF OInv
  <2>2. e = disk
    BY <1>4, <2>1, ChainStarts, Zenon
  <2>. QED BY <1>4, <1>9, <2>2 DEF Counted, CountsMatchBitmaps
<1>. QED BY <1>8, <1>9 DEF BlocksHaveOneOwner

\* On a disk without a journal a block belongs to one place of one file or directory and is
\* marked in the bitmap, at every moment at which the power may be cut, also when a file was
\* open twice and two copies of its inode were written back; until the power is cut the counts
\* of the group descriptor are the numbers of clear bits.
THEOREM BlocksKeepOneOwner == Spec => []PlainBlocksHaveOneOwner
  BY InitIsSound, StepIsSound, InitOwns, StepOwns, OwnersImply, PTL DEF Spec
=============================================================================
