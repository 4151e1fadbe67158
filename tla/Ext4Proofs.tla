----------------------------- MODULE Ext4Proofs -----------------------------
(***************************************************************************)
(* What Ext4 keeps to whatever the constants are, with and without a       *)
(* journal and wherever the power is cut: every cell of the disk holds     *)
(* what its kind of block holds (CellsKeepTheirKind), and the entries of   *)
(* every directory block tile it (DirectoriesAreTiled).                    *)
(*                                                                         *)
(* A call of the driver is one step that computes its writes, so the proof *)
(* follows the state of the file system inside a call: Sound(t) says that  *)
(* the disk, the open transaction and the writes made are all of the right *)
(* kind, and each operator of the driver is shown to keep it.  What a      *)
(* listing needs to tile its block is stated with the offsets of its       *)
(* entries.  The inductive invariant IInv says the same of the variables.  *)
(***************************************************************************)
EXTENDS Ext4, SequenceTheorems, FiniteSetTheorems, WellFoundedInduction, TLAPS

-----------------------------------------------------------------------------
(***************************************************************************)
(* Induction over numbers, stated with sets, and the functions that a      *)
(* recursive definition along 0..n means.                                  *)
(***************************************************************************)
\* A set of natural numbers that has an element has a least one.
LEMMA LeastElement ==
    ASSUME NEW S \in SUBSET Nat, S # {}
    PROVE  \E m \in S : \A x \in S : m <= x
<1>1. IsWellFoundedOn(OpToRel(<, Nat), Nat)
  BY NatLessThanWellFounded, Zenon
<1>2. PICK m \in S : \A x \in S : ~(<<x, m>> \in OpToRel(<, Nat))
  BY <1>1, WFMin, Zenon
<1>3. \A x \in S : ~(x < m)
  BY <1>2, Zenon DEF OpToRel
<1>. QED BY <1>3

\* A set with 0 in it, and with every successor of its elements, is all of Nat.
LEMMA SetInduction ==
    ASSUME NEW S \in SUBSET Nat, 0 \in S, \A n \in S : n + 1 \in S
    PROVE  S = Nat
<1>1. SUFFICES ASSUME Nat \ S # {} PROVE FALSE
  OBVIOUS
<1>2. PICK m \in Nat \ S : \A x \in Nat \ S : m <= x
  BY <1>1, LeastElement, Zenon
<1>3. m # 0 /\ m - 1 \in Nat /\ m - 1 \in S
  BY <1>2
<1>. QED BY <1>3

\* What holds at 0 and passes from each number to the next holds up to n.
LEMMA Along ==
    ASSUME NEW n \in Nat, NEW X, NEW f, f[0] \in X,
           \A k \in 1..n : f[k - 1] \in X => f[k] \in X
    PROVE  \A k \in 0..n : f[k] \in X
<1> DEFINE S == {k \in Nat : k <= n => f[k] \in X}
<1>1. 0 \in S
  OBVIOUS
<1>2. ASSUME NEW k \in S PROVE k + 1 \in S
  <2>1. SUFFICES ASSUME k + 1 <= n PROVE f[k + 1] \in X
    OBVIOUS
  <2>2. f[k] \in X /\ k + 1 \in 1..n /\ (k + 1) - 1 = k
    BY <2>1
  <2>. QED BY <2>2
<1>. HIDE DEF S
<1>3. S \in SUBSET Nat
  BY DEF S
<1>4. S = Nat
  BY <1>1, <1>2, <1>3, SetInduction
<1>. QED BY <1>4 DEF S

\* The functions along 0..n with a given value at 0 and a given step.
Paced(n, X, x0, s) == {f \in [0..n -> X] : f[0] = x0 /\ \A k \in 1..n : f[k] = s[<<f[k - 1], k>>]}

\* There is such a function.
LEMMA Recursion ==
    ASSUME NEW n \in Nat, NEW X, NEW x0 \in X, NEW s \in [X \X (1..n) -> X]
    PROVE  Paced(n, X, x0, s) # {}
<1> DEFINE Upto(m) == \E f \in [0..m -> X] : f[0] = x0 /\ \A k \in 1..m : f[k] = s[<<f[k - 1], k>>]
           S == {m \in Nat : m <= n => Upto(m)}
<1>1. 0 \in S
  <2>1. Upto(0)
    <3> DEFINE f == [k \in 0..0 |-> x0]
    <3>1. f \in [0..0 -> X] /\ f[0] = x0 /\ \A k \in 1..0 : f[k] = s[<<f[k - 1], k>>]
      OBVIOUS
    <3>. QED BY <3>1, Zenon
  <2>. QED BY <2>1
<1>2. ASSUME NEW m \in S PROVE m + 1 \in S
  <2>1. SUFFICES ASSUME m + 1 <= n PROVE Upto(m + 1)
    OBVIOUS
  <2>2. m \in Nat /\ m <= n /\ m + 1 \in 1..n
    BY <2>1
  <2>3. PICK f \in [0..m -> X] : f[0] = x0 /\ \A k \in 1..m : f[k] = s[<<f[k - 1], k>>]
    BY <2>2
  <2> DEFINE y == s[<<f[m], m + 1>>]
             g == [k \in 0 .. m + 1 |-> IF k = m + 1 THEN y ELSE f[k]]
  <2>4. f[m] \in X
    BY <2>2, <2>3
  <2>5. y \in X
    BY <2>2, <2>4
  <2>. HIDE DEF y
  <2>6. g \in [0 .. m + 1 -> X] /\ g[m + 1] = y /\ \A k \in 0..m : g[k] = f[k]
    BY <2>2, <2>3, <2>5
  <2>. HIDE DEF g
  <2>7. g[0] = x0
    BY <2>2, <2>3, <2>6
  <2>8. \A k \in 1 .. m + 1 : g[k] = s[<<g[k - 1], k>>]
    <3>1. TAKE k \in 1 .. m + 1
    <3>2. CASE k = m + 1
      <4>1. k - 1 = m /\ m \in 0..m
        BY <2>2, <3>2
      <4>. QED BY <2>6, <3>2, <4>1 DEF y
    <3>3. CASE k # m + 1
      <4>1. k \in 1..m /\ k \in 0..m /\ k - 1 \in 0..m
        BY <2>2, <3>3
      <4>. QED BY <2>3, <2>6, <4>1
    <3>. QED BY <3>2, <3>3
  <2>. QED BY <2>6, <2>7, <2>8
<1>. HIDE DEF S
<1>3. S \in SUBSET Nat
  BY DEF S
<1>4. S = Nat
  BY <1>1, <1>2, <1>3, SetInduction
<1>5. n \in S
  BY <1>4
<1>. HIDE DEF Upto
<1>6. Upto(n)
  BY <1>5 DEF S
<1>. QED BY <1>6 DEF Upto, Paced

\* A bounded set of natural numbers that has an element has a greatest one.
LEMMA GreatestElement ==
    ASSUME NEW n \in Nat, NEW S \in SUBSET (0..n), S # {}
    PROVE  \E m \in S : \A x \in S : m >= x
<1>1. {n - x : x \in S} \in SUBSET Nat /\ {n - x : x \in S} # {}
  <2>1. \A x \in S : n - x \in Nat
    OBVIOUS
  <2>. QED BY <2>1
<1>2. PICK k \in {n - x : x \in S} : \A y \in {n - x : x \in S} : k <= y
  BY <1>1, LeastElement, Zenon
<1>3. PICK m \in S : k = n - m
  BY <1>2
<1>4. \A x \in S : n - m <= n - x
  BY <1>2, <1>3
<1>. QED BY <1>3, <1>4

\* Min is among the elements.
LEMMA MinIsElement ==
    ASSUME NEW S \in SUBSET Nat, S # {}
    PROVE  Min(S) \in S
  BY LeastElement, Zenon DEF Min
\* Max is among the elements.
LEMMA MaxIsElement ==
    ASSUME NEW n \in Nat, NEW S \in SUBSET (0..n), S # {}
    PROVE  Max(S) \in S
  BY GreatestElement, Zenon DEF Max

\* extent_get_block: 0, or the block of an extent that covers l.
LEMMA GetBlock ==
    ASSUME NEW inode, NEW l \in Nat, NEW S, inode.ext \in Seq(S)
    PROVE  \/ /\ ExtentGetBlock(inode, l) = 0
              /\ \A k \in 1..Len(inode.ext) :
                   ~(inode.ext[k].block <= l /\ l < inode.ext[k].block + inode.ext[k].len)
           \/ \E k \in 1..Len(inode.ext) :
                /\ inode.ext[k].block <= l /\ l < inode.ext[k].block + inode.ext[k].len
                /\ ExtentGetBlock(inode, l) = inode.ext[k].start + (l - inode.ext[k].block)
<1> DEFINE I == {k \in 1..Len(inode.ext) :
                   inode.ext[k].block <= l /\ l < inode.ext[k].block + inode.ext[k].len}
<1>1. I \in SUBSET Nat
  OBVIOUS
<1>2. I # {} => Min(I) \in I
  BY <1>1, MinIsElement, Zenon
<1>3. ExtentGetBlock(inode, l) = LET k == IF I # {} THEN Min(I) ELSE 0
                                 IN IF k = 0 THEN 0 ELSE inode.ext[k].start + (l - inode.ext[k].block)
  BY SMTT(60) DEF ExtentGetBlock, SelectInSeq
<1>4. CASE I = {}
  BY <1>3, <1>4
<1>5. CASE I # {}
  <2>1. PICK k \in I : k = Min(I)
    BY <1>2, <1>5, Zenon
  <2>2. k \in 1..Len(inode.ext) /\ k # 0 /\ k \in Nat
    BY <1>1
  <2>3. ExtentGetBlock(inode, l) = inode.ext[k].start + (l - inode.ext[k].block)
    BY <1>3, <1>5, <2>1, <2>2, Zenon
  <2>. QED BY <2>2, <2>3
<1>. QED BY <1>4, <1>5
-----------------------------------------------------------------------------
(***************************************************************************)
(* What a cell holds, and the state of a call that keeps to it.            *)
(***************************************************************************)
RootInode == NewInode("dir", PerBlock, <<Extent(0, 1)>>)
FileInodes ==
    {v \in InodeType :
        /\ Len(v.ext) <= EhMax
        /\ \A k \in 1..Len(v.ext) :
              v.ext[k].start >= 2 /\ v.ext[k].start + v.ext[k].len - 1 <= NBlocks}
DataBlocks == [kind : {"data"}, at : [1..PerBlock -> 0..MaxOps]]
DirBlocks == {v \in [kind : {"dir"}, at : Seq(EntryType)] : Tiles(v.at)}
Contents(c) ==
    IF c = IBitmap THEN {v \in SUBSET Inodes : Root \in v}
    ELSE IF c = BBitmap THEN {v \in SUBSET Blocks : 1 \in v}
    ELSE IF c = Desc THEN [freeInodes : Nat, freeBlocks : Nat]
    ELSE IF c = Ino(Root) THEN {RootInode}
    ELSE IF c[1] = "inode" THEN FileInodes
    ELSE IF c = Blk(1) THEN DirBlocks
    ELSE DataBlocks \cup DirBlocks

Vals == UNION {Contents(c) : c \in Cells}
Disks == {f \in [Cells -> Vals] : \A c \in Cells : f[c] \in Contents(c)}
Writes == {w \in [cell : Cells, val : Vals] : w.val \in Contents(w.cell)}
Logged == {w \in Writes : \A i \in Inodes : w.cell # Ino(i)}
Plain == {w \in Logged : \A b \in Blocks : w.cell = Blk(b) => w.val \in DataBlocks}

\* Inside a call: the disk, what is logged and what is written are all of the right kind,
\* and the transaction has not outgrown its array.
Sound(t) ==
    /\ t = [disk |-> t.disk, log |-> t.log, out |-> t.out]
    /\ t.disk \in Disks /\ t.log \in Seq(Logged) /\ Len(t.log) <= LogMax /\ t.out \in Seq(Writes)
States == {t \in [disk : Disks, log : Seq(Logged), out : Seq(Writes)] : Len(t.log) <= LogMax}

\* From t to u no block of the disk has become a listing, and no inode has changed.
Drift(t, u) ==
    /\ \A i \in Inodes : u.disk[Ino(i)] = t.disk[Ino(i)]
    /\ t.log \in Seq(Plain) => 
         /\ u.log \in Seq(Plain)
         /\ \A b \in Blocks : u.disk[Blk(b)] = t.disk[Blk(b)] \/ u.disk[Blk(b)] \in DataBlocks

\* Cells of different kinds or numbers are different.
LEMMA CellsDiffer ==
    /\ IBitmap # BBitmap /\ IBitmap # Desc /\ BBitmap # Desc
    /\ \A i \in Inodes : Ino(i) # IBitmap /\ Ino(i) # BBitmap /\ Ino(i) # Desc
    /\ \A b \in Blocks : Blk(b) # IBitmap /\ Blk(b) # BBitmap /\ Blk(b) # Desc
    /\ \A i \in Inodes, b \in Blocks : Ino(i) # Blk(b)
    /\ \A i, j \in Inodes : Ino(i) = Ino(j) => i = j
    /\ \A b, c \in Blocks : Blk(b) = Blk(c) => b = c
    /\ IBitmap \in Cells /\ BBitmap \in Cells /\ Desc \in Cells
    /\ \A i \in Inodes : Ino(i) \in Cells
    /\ \A b \in Blocks : Blk(b) \in Cells
  BY DEF IBitmap, BBitmap, Desc, Ino, Blk, Cells

\* There is a root inode and a block for it.
LEMMA Numbers ==
    /\ Root \in Inodes /\ Root = 1 /\ 1 \in Blocks
    /\ NBlocks \in Nat /\ NInodes \in Nat /\ PerBlock \in Nat \ {0} /\ EhMax \in Nat \ {0}
    /\ LogMax \in Nat \ {0} /\ DirSize \in Nat /\ FileParts \in Nat /\ MaxOps \in Nat
    /\ Blocks \in SUBSET Nat /\ Inodes \in SUBSET Nat
  BY Ext4Assumption DEF Root, Inodes, Blocks

\* The contents, kind by kind.
LEMMA ContentsOfCells ==
    /\ Contents(IBitmap) = {v \in SUBSET Inodes : Root \in v}
    /\ Contents(BBitmap) = {v \in SUBSET Blocks : 1 \in v}
    /\ Contents(Desc) = [freeInodes : Nat, freeBlocks : Nat]
    /\ Contents(Ino(Root)) = {RootInode}
    /\ \A i \in Inodes \ {Root} : Contents(Ino(i)) = FileInodes
    /\ Contents(Blk(1)) = DirBlocks
    /\ \A b \in Blocks \ {1} : Contents(Blk(b)) = DataBlocks \cup DirBlocks
<1>1. \A i \in Inodes : Ino(i)[1] = "inode"
  BY DEF Ino
<1>2. \A b \in Blocks : Blk(b)[1] = "block"
  BY DEF Blk
<1>3. "inode" # "block"
  OBVIOUS
<1>4. /\ Contents(IBitmap) = {v \in SUBSET Inodes : Root \in v}
      /\ Contents(BBitmap) = {v \in SUBSET Blocks : 1 \in v}
      /\ Contents(Desc) = [freeInodes : Nat, freeBlocks : Nat]
  BY CellsDiffer, Zenon DEF Contents
<1>5. Contents(Ino(Root)) = {RootInode}
  BY CellsDiffer, Numbers, Zenon DEF Contents
<1>6. ASSUME NEW i \in Inodes \ {Root} PROVE Contents(Ino(i)) = FileInodes
  BY <1>1, CellsDiffer, Numbers, Zenon DEF Contents
<1>7. Contents(Blk(1)) = DirBlocks
  BY <1>2, <1>3, CellsDiffer, Numbers, Zenon DEF Contents
<1>8. ASSUME NEW b \in Blocks \ {1} PROVE Contents(Blk(b)) = DataBlocks \cup DirBlocks
  BY <1>2, <1>3, CellsDiffer, Numbers, Zenon DEF Contents
<1>. QED BY <1>4, <1>5, <1>6, <1>7, <1>8
-----------------------------------------------------------------------------
\* Appending an element of S to a sequence over S.
LEMMA AppendIsSeq ==
    ASSUME NEW S, NEW s \in Seq(S), NEW e \in S
    PROVE  Append(s, e) \in Seq(S) /\ Len(Append(s, e)) = Len(s) + 1
  BY AppendProperties

\* A write of proper contents gives a proper disk.
LEMMA DiskUpdate ==
    ASSUME NEW d \in Disks, NEW c \in Cells, NEW v \in Contents(c)
    PROVE  /\ [d EXCEPT ![c] = v] \in Disks
           /\ [cell |-> c, val |-> v] \in Writes
<1>1. v \in Vals
  BY DEF Vals
<1>. QED BY <1>1 DEF Disks, Writes

\* Drift is reflexive and transitive.
LEMMA DriftOrder ==
    ASSUME NEW t, NEW u, NEW w
    PROVE  /\ Drift(t, t)
           /\ Drift(t, u) /\ Drift(u, w) => Drift(t, w)
  BY Zenon DEF Drift

\* Ext4Manager::write_block.
LEMMA WriteKeeps ==
    ASSUME NEW t, Sound(t), NEW c \in Cells, NEW v \in Contents(c)
    PROVE  /\ Sound(WriteBlock(t, c, v))
           /\ WriteBlock(t, c, v).disk = [t.disk EXCEPT ![c] = v]
           /\ WriteBlock(t, c, v).log = t.log
<1>1. /\ WriteBlock(t, c, v).disk = [t.disk EXCEPT ![c] = v]
      /\ WriteBlock(t, c, v).log = t.log
      /\ WriteBlock(t, c, v).out = Append(t.out, [cell |-> c, val |-> v])
      /\ WriteBlock(t, c, v) = [disk |-> WriteBlock(t, c, v).disk, log |-> WriteBlock(t, c, v).log,
                                out |-> WriteBlock(t, c, v).out]
  BY DEF WriteBlock
<1>2. t.disk \in Disks /\ t.log \in Seq(Logged) /\ Len(t.log) <= LogMax /\ t.out \in Seq(Writes)
  BY DEF Sound
<1>3. Append(t.out, [cell |-> c, val |-> v]) \in Seq(Writes)
  BY <1>2, DiskUpdate, AppendIsSeq, Zenon
<1>. QED BY <1>1, <1>2, <1>3, DiskUpdate DEF Sound

\* commit_transaction and start_transaction: the images of the transaction are on the disk.
LEMMA CommitKeeps ==
    ASSUME NEW t, Sound(t)
    PROVE  Sound(Commit(t)) /\ Commit(t).log = <<>> /\ Drift(t, Commit(t))
<1> DEFINE images(c) == {k \in DOMAIN t.log : t.log[k].cell = c}
           home == [c \in Cells |-> IF images(c) = {} THEN t.disk[c] ELSE t.log[Max(images(c))].val]
<1>1. Commit(t) = [disk |-> home, log |-> <<>>, out |-> t.out \o t.log]
  BY DEF Commit
<1>2. t.disk \in Disks /\ t.log \in Seq(Logged) /\ Len(t.log) <= LogMax /\ t.out \in Seq(Writes)
  BY DEF Sound
<1>3. Len(t.log) \in Nat /\ DOMAIN t.log = 1..Len(t.log)
  BY <1>2
<1>4. \A k \in 1..Len(t.log) : t.log[k] \in Logged
  BY <1>2
<1>5. ASSUME NEW c \in Cells, images(c) # {}
      PROVE  \E k \in 1..Len(t.log) : t.log[k].cell = c /\ home[c] = t.log[k].val
  <2>1. images(c) \in SUBSET (0..Len(t.log))
    BY <1>3
  <2>2. Max(images(c)) \in images(c)
    BY <1>3, <1>5, <2>1, MaxIsElement, Zenon
  <2>. HIDE DEF images
  <2>3. home[c] = t.log[Max(images(c))].val
    BY <1>5
  <2>. QED BY <2>2, <2>3, <1>3, Zenon DEF images
<1>6. \A c \in Cells : images(c) = {} => home[c] = t.disk[c]
  OBVIOUS
<1>7. DOMAIN home = Cells /\ home = [c \in Cells |-> home[c]]
  OBVIOUS
<1>. HIDE DEF home, images
<1>8. \A c \in Cells : home[c] \in Contents(c)
  <2>1. TAKE c \in Cells
  <2>2. CASE images(c) = {}
    BY <1>2, <1>6, <2>2 DEF Disks
  <2>3. CASE images(c) # {}
    BY <1>4, <1>5, <2>3 DEF Logged, Writes
  <2>. QED BY <2>2, <2>3
<1>9. home \in Disks
  <2>1. \A c \in Cells : home[c] \in Vals
    BY <1>8 DEF Vals
  <2>. QED BY <1>7, <1>8, <2>1 DEF Disks
<1>10. t.log \in Seq(Writes) /\ t.out \o t.log \in Seq(Writes)
  <2>1. t.log \in Seq(Writes)
    BY <1>2 DEF Logged
  <2>. QED BY <1>2, <2>1, ConcatProperties
<1>11. Sound(Commit(t)) /\ Commit(t).log = <<>> /\ Commit(t).disk = home
  <2>1. LogMax >= 0
    BY Numbers
  <2>. QED BY <1>1, <1>9, <1>10, <2>1 DEF Sound
<1>12. \A i \in Inodes : home[Ino(i)] = t.disk[Ino(i)]
  <2>1. TAKE i \in Inodes
  <2>2. Ino(i) \in Cells
    BY CellsDiffer
  <2>3. images(Ino(i)) = {}
    BY <1>4, <1>5, <2>2, <1>3 DEF Logged
  <2>. QED BY <1>6, <2>2, <2>3
<1>13. ASSUME t.log \in Seq(Plain), NEW b \in Blocks
       PROVE  home[Blk(b)] = t.disk[Blk(b)] \/ home[Blk(b)] \in DataBlocks
  <2>1. \A k \in 1..Len(t.log) : t.log[k] \in Plain
    BY <1>13
  <2>2. Blk(b) \in Cells
    BY CellsDiffer
  <2>. QED BY <1>5, <1>6, <2>1, <2>2 DEF Plain
<1>14. Drift(t, Commit(t))
  <2>1. <<>> \in Seq(Plain)
    OBVIOUS
  <2>. QED BY <1>11, <1>12, <1>13, <2>1 DEF Drift
<1>. QED BY <1>11, <1>14

\* log_block: a full transaction is committed before the image is added.
LEMMA LogKeeps ==
    ASSUME NEW t, Sound(t), NEW c \in Cells, NEW v \in Contents(c), \A i \in Inodes : c # Ino(i)
    PROVE  /\ Sound(LogBlock(t, c, v))
           /\ \A i \in Inodes : LogBlock(t, c, v).disk[Ino(i)] = t.disk[Ino(i)]
           /\ (\A b \in Blocks : c = Blk(b) => v \in DataBlocks) => Drift(t, LogBlock(t, c, v))
<1> DEFINE u == IF Len(t.log) >= LogMax THEN Commit(t) ELSE t
           w == [cell |-> c, val |-> v]
<1>1. LogBlock(t, c, v) = [disk |-> u.disk, log |-> Append(u.log, w), out |-> u.out]
  BY DEF LogBlock
<1>2. Sound(u) /\ Drift(t, u) /\ Len(u.log) < LogMax
  <2>1. CASE Len(t.log) >= LogMax
    BY <2>1, CommitKeeps, Numbers
  <2>2. CASE ~(Len(t.log) >= LogMax)
    <3>1. Len(t.log) \in Nat /\ LogMax \in Nat
      BY Numbers DEF Sound
    <3>2. u = t
      BY <2>2
    <3>. QED BY <2>2, <3>1, <3>2, DriftOrder
  <2>. QED BY <2>1, <2>2
<1>. HIDE DEF u
<1>3. w \in Logged
  <2>1. t.disk \in Disks
    BY DEF Sound
  <2>2. w \in Writes
    BY <2>1, DiskUpdate, Zenon
  <2>. QED BY <2>2 DEF Logged
<1>4. Append(u.log, w) \in Seq(Logged) /\ Len(Append(u.log, w)) = Len(u.log) + 1
  BY <1>2, <1>3, AppendIsSeq DEF Sound
<1>5. Len(u.log) + 1 <= LogMax
  <2>1. Len(u.log) \in Nat /\ LogMax \in Nat
    BY <1>2, Numbers DEF Sound
  <2>. QED BY <1>2, <2>1
<1>6. Sound(LogBlock(t, c, v))
  BY <1>1, <1>2, <1>4, <1>5 DEF Sound
<1>7. ASSUME \A b \in Blocks : c = Blk(b) => v \in DataBlocks
      PROVE  Drift(t, LogBlock(t, c, v))
  <2>1. w \in Plain
    BY <1>3, <1>7 DEF Plain
  <2>2. u.log \in Seq(Plain) => Append(u.log, w) \in Seq(Plain)
    BY <2>1, AppendIsSeq
  <2>. HIDE DEF w
  <2>. QED BY <1>1, <1>2, <2>2 DEF Drift
<1>8. \A i \in Inodes : LogBlock(t, c, v).disk[Ino(i)] = t.disk[Ino(i)]
  BY <1>1, <1>2 DEF Drift
<1>. QED BY <1>6, <1>7, <1>8

\* journal_write_block, with and without a journal.
LEMMA JournalKeeps ==
    ASSUME NEW t, Sound(t), NEW c \in Cells, NEW v \in Contents(c), \A i \in Inodes : c # Ino(i)
    PROVE  /\ Sound(JournalWriteBlock(t, c, v))
           /\ \A i \in Inodes : JournalWriteBlock(t, c, v).disk[Ino(i)] = t.disk[Ino(i)]
           /\ ~journal => JournalWriteBlock(t, c, v).log = t.log
           /\ (\A b \in Blocks : c = Blk(b) => v \in DataBlocks) => Drift(t, JournalWriteBlock(t, c, v))
<1>1. CASE journal
  BY <1>1, LogKeeps DEF JournalWriteBlock
<1>2. CASE ~journal
  <2> DEFINE u == WriteBlock(t, c, v)
  <2>1. JournalWriteBlock(t, c, v) = u
    BY <1>2 DEF JournalWriteBlock
  <2>2. Sound(u) /\ u.disk = [t.disk EXCEPT ![c] = v] /\ u.log = t.log
    BY WriteKeeps
  <2>. HIDE DEF u
  <2>3. DOMAIN t.disk = Cells
    BY DEF Sound, Disks
  <2>4. \A i \in Inodes : u.disk[Ino(i)] = t.disk[Ino(i)]
    BY <2>2, <2>3, CellsDiffer
  <2>5. ASSUME \A b \in Blocks : c = Blk(b) => v \in DataBlocks, NEW b \in Blocks
        PROVE  u.disk[Blk(b)] = t.disk[Blk(b)] \/ u.disk[Blk(b)] \in DataBlocks
    <3>1. Blk(b) \in Cells
      BY CellsDiffer
    <3>2. CASE c = Blk(b)
      BY <2>2, <2>3, <2>5, <3>1, <3>2
    <3>3. CASE c # Blk(b)
      BY <2>2, <2>3, <3>1, <3>3
    <3>. QED BY <3>2, <3>3
  <2>. QED BY <2>1, <2>2, <2>4, <2>5 DEF Drift
<1>. QED BY <1>1, <1>2

\* A call ends with a commit, or on a disk without a journal as it is.
LEMMA CommitIfKeeps ==
    ASSUME NEW t, Sound(t), ~journal => t.log \in Seq(Plain)
    PROVE  Sound(CommitIfJournal(t)) /\ CommitIfJournal(t).log \in Seq(Plain)
<1>1. <<>> \in Seq(Plain)
  OBVIOUS
<1>2. CASE journal
  BY <1>1, <1>2, CommitKeeps, Zenon DEF CommitIfJournal
<1>3. CASE ~journal
  BY <1>3 DEF CommitIfJournal
<1>. QED BY <1>2, <1>3

\* The bitmaps and the descriptor are no inodes and no blocks.
LEMMA GroupWrite ==
    ASSUME NEW t, Sound(t), NEW c \in {IBitmap, BBitmap, Desc}, NEW v \in Contents(c)
    PROVE  Sound(JournalWriteBlock(t, c, v)) /\ Drift(t, JournalWriteBlock(t, c, v))
<1>1. c \in Cells /\ (\A i \in Inodes : c # Ino(i)) /\ \A b \in Blocks : c # Blk(b)
  BY CellsDiffer
<1>. QED BY <1>1, JournalKeeps

\* The cells of the group on a proper disk.
LEMMA GroupCells ==
    ASSUME NEW t, Sound(t)
    PROVE  /\ t.disk[IBitmap] \in SUBSET Inodes /\ Root \in t.disk[IBitmap]
           /\ t.disk[BBitmap] \in SUBSET Blocks /\ 1 \in t.disk[BBitmap]
           /\ t.disk[Desc] \in [freeInodes : Nat, freeBlocks : Nat]
<1>1. t.disk \in Disks
  BY DEF Sound
<1>2. \A c \in {IBitmap, BBitmap, Desc} : t.disk[c] \in Contents(c)
  BY <1>1, CellsDiffer DEF Disks
<1>. QED BY <1>2, ContentsOfCells, Zenon

\* allocate_inode gives no inode, or one that is not the root.
LEMMA InodeKeeps ==
    ASSUME NEW t, Sound(t)
    PROVE  /\ Sound(AllocateInode(t).fs) /\ Drift(t, AllocateInode(t).fs)
           /\ AllocateInode(t).got \in {0} \cup (Inodes \ {Root})
<1> DEFINE gd == t.disk[Desc]
           clear == Inodes \ t.disk[IBitmap]
           i == Min(clear)
           v == t.disk[IBitmap] \cup {i}
           g == [gd EXCEPT !.freeInodes = @ - 1]
           u == JournalWriteBlock(t, IBitmap, v)
           w == JournalWriteBlock(u, Desc, g)
<1>1. CASE gd.freeInodes = 0 \/ clear = {}
  BY <1>1, DriftOrder DEF AllocateInode
<1>2. CASE ~(gd.freeInodes = 0 \/ clear = {})
  <2>1. AllocateInode(t) = [got |-> i, fs |-> w]
    BY <1>2 DEF AllocateInode
  <2>2. i \in clear
    BY <1>2, Numbers, MinIsElement
  <2>3. i \in Inodes \ {Root} /\ v \in Contents(IBitmap)
    <3>1. t.disk[IBitmap] \in SUBSET Inodes /\ Root \in t.disk[IBitmap]
      BY GroupCells
    <3>2. i \in Inodes \ {Root}
      BY <2>2, <3>1
    <3>. HIDE DEF i
    <3>3. v \in SUBSET Inodes /\ Root \in v
      BY <3>1, <3>2
    <3>. QED BY <3>2, <3>3, ContentsOfCells
  <2>4. g \in Contents(Desc)
    <3>1. gd \in [freeInodes : Nat, freeBlocks : Nat]
      BY GroupCells
    <3>2. g \in [freeInodes : Nat, freeBlocks : Nat]
      BY <1>2, <3>1
    <3>. QED BY <3>2, ContentsOfCells
  <2>5. Sound(u) /\ Drift(t, u)
    BY <2>3, GroupWrite
  <2>6. Sound(w) /\ Drift(u, w)
    BY <2>4, <2>5, GroupWrite
  <2>. HIDE DEF i, u, w
  <2>. QED BY <2>1, <2>3, <2>5, <2>6, DriftOrder
<1>. QED BY <1>1, <1>2

\* allocate_block gives no block, or one that is not the root directory's.
LEMMA BlockKeeps ==
    ASSUME NEW t, Sound(t)
    PROVE  /\ Sound(AllocateBlock(t).fs) /\ Drift(t, AllocateBlock(t).fs)
           /\ AllocateBlock(t).got \in {0} \cup 2..NBlocks
<1> DEFINE gd == t.disk[Desc]
           clear == Blocks \ t.disk[BBitmap]
           b == Min(clear)
           v == t.disk[BBitmap] \cup {b}
           g == [gd EXCEPT !.freeBlocks = @ - 1]
           u == JournalWriteBlock(t, BBitmap, v)
           w == JournalWriteBlock(u, Desc, g)
<1>1. CASE gd.freeBlocks = 0 \/ clear = {}
  BY <1>1, DriftOrder DEF AllocateBlock
<1>2. CASE ~(gd.freeBlocks = 0 \/ clear = {})
  <2>1. AllocateBlock(t) = [got |-> b, fs |-> w]
    BY <1>2 DEF AllocateBlock
  <2>2. b \in clear
    BY <1>2, Numbers, MinIsElement
  <2>3. b \in Blocks \ {1} /\ v \in Contents(BBitmap)
    <3>1. t.disk[BBitmap] \in SUBSET Blocks /\ 1 \in t.disk[BBitmap]
      BY GroupCells
    <3>2. b \in Blocks \ {1}
      BY <2>2, <3>1
    <3>. HIDE DEF b
    <3>3. v \in SUBSET Blocks /\ 1 \in v
      BY <3>1, <3>2
    <3>. QED BY <3>2, <3>3, ContentsOfCells
  <2>4. g \in Contents(Desc)
    <3>1. gd \in [freeInodes : Nat, freeBlocks : Nat]
      BY GroupCells
    <3>2. g \in [freeInodes : Nat, freeBlocks : Nat]
      BY <1>2, <3>1
    <3>. QED BY <3>2, ContentsOfCells
  <2>5. Sound(u) /\ Drift(t, u)
    BY <2>3, GroupWrite
  <2>6. Sound(w) /\ Drift(u, w)
    BY <2>4, <2>5, GroupWrite
  <2>7. b \in 2..NBlocks
    BY <2>3, Numbers DEF Blocks
  <2>. HIDE DEF b, u, w
  <2>. QED BY <2>1, <2>7, <2>5, <2>6, DriftOrder
<1>. QED BY <1>1, <1>2

\* free_block of a block that is not the root directory's.
LEMMA FreeKeeps ==
    ASSUME NEW t, Sound(t), NEW b \in Blocks \ {1}
    PROVE  Sound(FreeBlock(t, b)) /\ Drift(t, FreeBlock(t, b))
<1> DEFINE v == t.disk[BBitmap] \ {b}
           u == JournalWriteBlock(t, BBitmap, v)
           g == [u.disk[Desc] EXCEPT !.freeBlocks = @ + 1]
           w == JournalWriteBlock(u, Desc, g)
<1>1. FreeBlock(t, b) = w
  BY DEF FreeBlock
<1>2. v \in Contents(BBitmap)
  BY GroupCells, ContentsOfCells
<1>3. Sound(u) /\ Drift(t, u)
  BY <1>2, GroupWrite
<1>. HIDE DEF u
<1>4. g \in Contents(Desc)
  BY <1>3, GroupCells, ContentsOfCells
<1>5. Sound(w) /\ Drift(u, w)
  BY <1>3, <1>4, GroupWrite
<1>. QED BY <1>1, <1>3, <1>5, DriftOrder
-----------------------------------------------------------------------------
ExtentType == [block : Nat, start : Blocks, len : Nat \ {0}]

\* The extents of an inode that is not the root's.
LEMMA ExtentsOf ==
    ASSUME NEW inode \in FileInodes
    PROVE  /\ inode.ext \in Seq(ExtentType) /\ Len(inode.ext) <= EhMax /\ Len(inode.ext) \in Nat
           /\ \A k \in 1..Len(inode.ext) :
                /\ inode.ext[k] \in ExtentType
                /\ inode.ext[k].start >= 2 /\ inode.ext[k].start + inode.ext[k].len - 1 <= NBlocks
<1>1. inode.ext \in Seq(ExtentType)
  BY DEF FileInodes, InodeType, ExtentType
<1>2. /\ Len(inode.ext) <= EhMax
      /\ \A k \in 1..Len(inode.ext) :
           inode.ext[k].start >= 2 /\ inode.ext[k].start + inode.ext[k].len - 1 <= NBlocks
  BY DEF FileInodes
<1>3. Len(inode.ext) \in Nat /\ \A k \in 1..Len(inode.ext) : inode.ext[k] \in ExtentType
  BY <1>1
<1>. QED BY <1>1, <1>2, <1>3

\* An inode with other extents of the same kind.
LEMMA WithExtents ==
    ASSUME NEW inode \in FileInodes, NEW ext \in Seq(ExtentType), Len(ext) <= EhMax,
           \A k \in 1..Len(ext) : ext[k].start >= 2 /\ ext[k].start + ext[k].len - 1 <= NBlocks
    PROVE  /\ [inode EXCEPT !.ext = ext] \in FileInodes
           /\ [inode EXCEPT !.ext = ext].ext = ext /\ [inode EXCEPT !.ext = ext].size = inode.size
<1>1. inode \in InodeType
  BY DEF FileInodes
<1>2. [inode EXCEPT !.ext = ext] \in InodeType
  BY <1>1 DEF InodeType, ExtentType
<1>3. [inode EXCEPT !.ext = ext].ext = ext /\ [inode EXCEPT !.ext = ext].size = inode.size
  BY <1>1 DEF InodeType
<1>. QED BY <1>2, <1>3, Zenon DEF FileInodes

\* A block of an extent lies between the extent's first and last.
LEMMA WithinExtent ==
    ASSUME NEW s \in Nat, NEW b \in Nat, NEW n \in Nat, NEW l \in Nat, NEW m \in Nat,
           s >= 2, s + n - 1 <= m, b <= l, l < b + n
    PROVE  s + (l - b) \in 2..m
  OBVIOUS

\* extent_get_block never gives the root directory's block or one beyond the disk, and gives
\* a block where an extent covers l.
LEMMA BlockInRange ==
    ASSUME NEW inode \in FileInodes, NEW l \in Nat
    PROVE  /\ ExtentGetBlock(inode, l) \in {0} \cup 2..NBlocks
           /\ (\E k \in 1..Len(inode.ext) : inode.ext[k].block <= l /\ l < inode.ext[k].block + inode.ext[k].len)
                => ExtentGetBlock(inode, l) \in 2..NBlocks
<1>1. ASSUME NEW k \in 1..Len(inode.ext),
             inode.ext[k].block <= l, l < inode.ext[k].block + inode.ext[k].len,
             ExtentGetBlock(inode, l) = inode.ext[k].start + (l - inode.ext[k].block)
      PROVE  ExtentGetBlock(inode, l) \in 2..NBlocks
  <2>1. inode.ext[k].block \in Nat /\ inode.ext[k].start \in Nat /\ inode.ext[k].len \in Nat
    BY ExtentsOf, Numbers, Zenon DEF ExtentType
  <2>2. inode.ext[k].start >= 2 /\ inode.ext[k].start + inode.ext[k].len - 1 <= NBlocks
    BY ExtentsOf
  <2>3. NBlocks \in Nat
    BY Numbers
  <2>4. inode.ext[k].start + (l - inode.ext[k].block) \in 2..NBlocks
    BY <1>1, <2>1, <2>2, <2>3, WithinExtent
  <2>. QED BY <1>1, <2>4
<1>2. inode.ext \in Seq(ExtentType)
  BY ExtentsOf
<1>3. \/ /\ ExtentGetBlock(inode, l) = 0
         /\ \A k \in 1..Len(inode.ext) :
              ~(inode.ext[k].block <= l /\ l < inode.ext[k].block + inode.ext[k].len)
      \/ \E k \in 1..Len(inode.ext) :
           /\ inode.ext[k].block <= l /\ l < inode.ext[k].block + inode.ext[k].len
           /\ ExtentGetBlock(inode, l) = inode.ext[k].start + (l - inode.ext[k].block)
  BY <1>2, GetBlock
<1>. QED BY <1>1, <1>3, Zenon

\* extent_allocate_blocks: the inode stays within its extents, and when it succeeds the
\* inode maps the block.
LEMMA ExtentKeeps ==
    ASSUME NEW t, Sound(t), NEW inode \in FileInodes, NEW l \in Nat
    PROVE  LET x == ExtentAllocate(t, inode, l)
           IN  /\ Sound(x.fs) /\ Drift(t, x.fs) /\ x.inode \in FileInodes /\ x.inode.size = inode.size
               /\ x.ok \in BOOLEAN /\ (x.ok => ExtentGetBlock(x.inode, l) \in 2..NBlocks)
<1> DEFINE n == Len(inode.ext)
           follows == n > 0 /\ l = inode.ext[n].block + inode.ext[n].len
           a == AllocateBlock(t)
           fail(fs) == [ok |-> FALSE, fs |-> fs, inode |-> inode]
           extended(ext) == [ok |-> TRUE, fs |-> a.fs, inode |-> [inode EXCEPT !.ext = ext]]
           x == ExtentAllocate(t, inode, l)
           Goal == /\ Sound(x.fs) /\ Drift(t, x.fs) /\ x.inode \in FileInodes /\ x.inode.size = inode.size
                   /\ x.ok \in BOOLEAN /\ (x.ok => ExtentGetBlock(x.inode, l) \in 2..NBlocks)
<1>. SUFFICES Goal
  OBVIOUS
<1>1. Sound(a.fs) /\ Drift(t, a.fs) /\ a.got \in {0} \cup 2..NBlocks
  BY BlockKeeps
<1>2. n \in Nat /\ EhMax \in Nat /\ NBlocks \in Nat
  BY ExtentsOf, Numbers
<1>3. \/ x = fail(t)
      \/ a.got # 0 /\ x = fail(FreeBlock(a.fs, a.got))
      \/ a.got # 0 /\ follows /\ a.got = inode.ext[n].start + inode.ext[n].len
           /\ x = extended([inode.ext EXCEPT ![n].len = @ + 1])
      \/ a.got # 0 /\ n < EhMax /\ x = extended(Append(inode.ext, Extent(l, a.got)))
  <2>. HIDE DEF a
  <2>. QED BY <1>2 DEF ExtentAllocate, a
<1>. HIDE DEF a, x
<1>4. CASE x = fail(t)
  <2>1. Drift(t, t)
    BY DriftOrder
  <2>. QED BY <1>4, <2>1
<1>5. CASE a.got # 0 /\ x = fail(FreeBlock(a.fs, a.got))
  <2>1. a.got \in Blocks \ {1}
    BY <1>1, <1>5 DEF Blocks
  <2>2. Sound(FreeBlock(a.fs, a.got)) /\ Drift(a.fs, FreeBlock(a.fs, a.got))
    BY <1>1, <2>1, FreeKeeps
  <2>3. Drift(t, FreeBlock(a.fs, a.got))
    BY <1>1, <2>2, DriftOrder
  <2>. QED BY <1>5, <2>2, <2>3
<1>6. CASE /\ a.got # 0 /\ follows /\ a.got = inode.ext[n].start + inode.ext[n].len
           /\ x = extended([inode.ext EXCEPT ![n].len = @ + 1])
  <2> DEFINE ext == [inode.ext EXCEPT ![n].len = @ + 1]
  <2>1. n \in 1..n
    BY <1>2, <1>6
  <2>2. inode.ext \in Seq(ExtentType) /\ inode.ext[n] \in ExtentType
    BY <2>1, ExtentsOf
  <2>3. /\ ext \in Seq(ExtentType) /\ Len(ext) = n
        /\ ext[n] = [inode.ext[n] EXCEPT !.len = @ + 1]
        /\ \A k \in 1..n : k # n => ext[k] = inode.ext[k]
    <3>1. [inode.ext[n] EXCEPT !.len = @ + 1] \in ExtentType
      BY <2>2 DEF ExtentType
    <3>2. ext = [inode.ext EXCEPT ![n] = [inode.ext[n] EXCEPT !.len = @ + 1]]
      OBVIOUS
    <3>. QED BY <2>1, <2>2, <3>1, <3>2, ExceptSeq
  <2>4. inode.ext[n].start \in Nat /\ inode.ext[n].len \in Nat /\ inode.ext[n].block \in Nat
    BY <2>2, Numbers, Zenon DEF ExtentType
  <2>5. /\ ext[n].start = inode.ext[n].start /\ ext[n].len = inode.ext[n].len + 1
        /\ ext[n].block = inode.ext[n].block
    BY <2>2, <2>3 DEF ExtentType
  <2>6. ext[n].start >= 2 /\ ext[n].start + ext[n].len - 1 <= NBlocks
    <3>1. inode.ext[n].start >= 2
      BY <2>1, ExtentsOf
    <3>. QED BY <1>1, <1>2, <1>6, <2>4, <2>5, <3>1
  <2>. HIDE DEF ext
  <2>7. \A k \in 1..n : ext[k].start >= 2 /\ ext[k].start + ext[k].len - 1 <= NBlocks
    BY <2>3, <2>6, ExtentsOf, Zenon
  <2>8. n <= EhMax
    BY ExtentsOf
  <2>9. x.inode \in FileInodes /\ x.inode.ext = ext /\ x.inode.size = inode.size
    BY <1>6, <2>3, <2>7, <2>8, WithExtents, Zenon DEF ext
  <2>10. ext[n].block <= l /\ l < ext[n].block + ext[n].len
    BY <1>6, <2>4, <2>5
  <2>11. ExtentGetBlock(x.inode, l) \in 2..NBlocks
    BY <2>1, <2>3, <2>9, <2>10, BlockInRange, Zenon
  <2>12. x.ok = TRUE /\ x.fs = a.fs
    BY <1>6
  <2>. QED BY <1>1, <2>9, <2>11, <2>12, Zenon
<1>7. CASE a.got # 0 /\ n < EhMax /\ x = extended(Append(inode.ext, Extent(l, a.got)))
  <2> DEFINE e == Extent(l, a.got)
             ext == Append(inode.ext, e)
  <2>1. a.got \in 2..NBlocks
    BY <1>1, <1>7
  <2>2. e \in ExtentType /\ e.block = l /\ e.start = a.got /\ e.len = 1
    BY <2>1, <1>2 DEF Extent, ExtentType, Blocks
  <2>3. /\ inode.ext \in Seq(ExtentType)
        /\ \A k \in 1..n : inode.ext[k].start >= 2 /\ inode.ext[k].start + inode.ext[k].len - 1 <= NBlocks
    BY ExtentsOf
  <2>. HIDE DEF e
  <2>4. /\ ext \in Seq(ExtentType) /\ Len(ext) = n + 1 /\ ext[n + 1] = e
        /\ \A k \in 1..n : ext[k] = inode.ext[k]
    BY <2>2, <2>3, AppendProperties
  <2>. HIDE DEF ext
  <2>5. \A k \in 1 .. n + 1 : ext[k].start >= 2 /\ ext[k].start + ext[k].len - 1 <= NBlocks
    <3>1. TAKE k \in 1 .. n + 1
    <3>2. CASE k = n + 1
      BY <1>2, <2>1, <2>2, <2>4, <3>2
    <3>3. CASE k # n + 1
      <4>1. k \in 1..n
        BY <1>2, <3>3
      <4>. QED BY <2>3, <2>4, <4>1
    <3>. QED BY <3>2, <3>3
  <2>6. Len(ext) <= EhMax
    BY <1>2, <1>7, <2>4
  <2>7. x.inode \in FileInodes /\ x.inode.ext = ext /\ x.inode.size = inode.size
    BY <1>7, <2>4, <2>5, <2>6, WithExtents, Zenon DEF ext, e
  <2>8. n + 1 \in 1..Len(ext) /\ ext[n + 1].block <= l /\ l < ext[n + 1].block + ext[n + 1].len
    BY <1>2, <2>2, <2>4
  <2>9. ExtentGetBlock(x.inode, l) \in 2..NBlocks
    BY <2>7, <2>8, BlockInRange
  <2>10. x.ok = TRUE /\ x.fs = a.fs
    BY <1>7
  <2>. QED BY <1>1, <2>7, <2>9, <2>10, Zenon
<1>. QED BY <1>3, <1>4, <1>5, <1>6, <1>7

\* Integer division by a positive number is monotone.
LEMMA Division ==
    ASSUME NEW a \in Nat, NEW b \in Nat, NEW p \in Nat \ {0}, a <= b
    PROVE  a \div p \in Nat /\ b \div p \in Nat /\ a \div p <= b \div p
  OBVIOUS

\* The sound states form a set.
LEMMA SoundIsState ==
    ASSUME NEW t
    PROVE  Sound(t) <=> t \in States
<1>1. Sound(t) => t \in States
  BY DEF Sound, States
<1>2. t \in States => Sound(t)
  BY DEF Sound, States
<1>. QED BY <1>1, <1>2

\* The parts of a block of data, or of a listing taken for one.
LEMMA PartsAreData ==
    ASSUME NEW t, Sound(t), NEW b \in 2..NBlocks
    PROVE  PartsOf(t.disk[Blk(b)]) \in [1..PerBlock -> 0..MaxOps]
<1>1. b \in Blocks \ {1}
  BY DEF Blocks
<1>2. t.disk[Blk(b)] \in DataBlocks \cup DirBlocks
  BY <1>1, CellsDiffer, ContentsOfCells DEF Sound, Disks
<1>3. Stale \in [1..PerBlock -> 0..MaxOps]
  BY Numbers DEF Stale
<1>. HIDE DEF Stale
<1>4. CASE t.disk[Blk(b)] \in DataBlocks
  BY <1>4 DEF PartsOf, DataBlocks
<1>5. CASE t.disk[Blk(b)] \in DirBlocks
  BY <1>3, <1>5 DEF PartsOf, DirBlocks
<1>. QED BY <1>2, <1>4, <1>5

\* The body of the loop of Ext4File::write writes data, into a block that is not the root's.
LEMMA InBlockData ==
    ASSUME NEW t, Sound(t), NEW b \in 2..NBlocks, NEW l, NEW mine, NEW v \in 0..MaxOps
    PROVE  \E y \in DataBlocks :
             /\ WriteInBlock(t, b, l, mine, v) = JournalWriteBlock(t, Blk(b), y)
             /\ Blk(b) \in Cells /\ y \in Contents(Blk(b)) /\ \A i \in Inodes : Blk(b) # Ino(i)
<1> DEFINE old == PartsOf(t.disk[Blk(b)])
           new == [k \in 1..PerBlock |-> IF l * PerBlock + k - 1 \in mine THEN v ELSE old[k]]
<1>1. old \in [1..PerBlock -> 0..MaxOps]
  BY PartsAreData
<1>. HIDE DEF old
<1>2. new \in [1..PerBlock -> 0..MaxOps]
  BY <1>1
<1>3. WriteInBlock(t, b, l, mine, v) = JournalWriteBlock(t, Blk(b), Data(new))
  BY DEF WriteInBlock, old
<1>. HIDE DEF new
<1>4. Data(new) \in DataBlocks
  BY <1>2 DEF Data, DataBlocks
<1>5. b \in Blocks \ {1}
  BY DEF Blocks
<1>6. Blk(b) \in Cells /\ Data(new) \in Contents(Blk(b)) /\ \A i \in Inodes : Blk(b) # Ino(i)
  BY <1>4, <1>5, CellsDiffer, ContentsOfCells
<1>. QED BY <1>3, <1>4, <1>6

\* So it keeps to the kinds of the cells.
LEMMA InBlockKeeps ==
    ASSUME NEW t, Sound(t), NEW b \in 2..NBlocks, NEW l, NEW mine, NEW v \in 0..MaxOps
    PROVE  Sound(WriteInBlock(t, b, l, mine, v)) /\ Drift(t, WriteInBlock(t, b, l, mine, v))
<1>1. PICK y \in DataBlocks :
        /\ WriteInBlock(t, b, l, mine, v) = JournalWriteBlock(t, Blk(b), y)
        /\ Blk(b) \in Cells /\ y \in Contents(Blk(b)) /\ \A i \in Inodes : Blk(b) # Ino(i)
  BY InBlockData
<1>2. Sound(JournalWriteBlock(t, Blk(b), y)) /\ Drift(t, JournalWriteBlock(t, Blk(b), y))
  BY <1>1, JournalKeeps
<1>. QED BY <1>1, <1>2

\* What the loop of Ext4File::write has made of t0 and of the cached inode.
LoopStates(t0, inode, span) ==
    {w \in [stop : BOOLEAN, inode : FileInodes, fs : States, done : SUBSET span] :
        Drift(t0, w.fs) /\ w.inode.size = inode.size}

\* One round of the loop.
LEMMA RoundKeeps ==
    ASSUME NEW t0, NEW inode, NEW off \in Nat, NEW n \in Nat, NEW l \in Nat, NEW v \in 0..MaxOps,
           NEW w \in LoopStates(t0, inode, off .. off + n - 1)
    PROVE  WriteStep(w, l, off, n, v) \in LoopStates(t0, inode, off .. off + n - 1)
<1> DEFINE span == off .. off + n - 1
           g == IF ExtentGetBlock(w.inode, l) # 0
                THEN [ok |-> TRUE, fs |-> w.fs, inode |-> w.inode]
                ELSE ExtentAllocate(w.fs, w.inode, l)
           mine == {p \in off .. off + n - 1 : p \div PerBlock = l}
           u == WriteInBlock(g.fs, ExtentGetBlock(g.inode, l), l, mine, v)
           x == WriteStep(w, l, off, n, v)
<1>1. /\ w \in [stop : BOOLEAN, inode : FileInodes, fs : States, done : SUBSET span]
      /\ Drift(t0, w.fs) /\ w.inode.size = inode.size
  BY DEF LoopStates
<1>2. Sound(w.fs) /\ w.inode \in FileInodes
  BY <1>1, SoundIsState, SMTT(60)
<1>3. /\ Sound(g.fs) /\ Drift(w.fs, g.fs) /\ g.inode \in FileInodes /\ g.inode.size = inode.size
      /\ g.ok => ExtentGetBlock(g.inode, l) \in 2..NBlocks
  <2>1. CASE ExtentGetBlock(w.inode, l) # 0
    <3>1. g.fs = w.fs /\ g.inode = w.inode
      BY <2>1
    <3>2. ExtentGetBlock(w.inode, l) \in 2..NBlocks
      BY <1>2, <2>1, BlockInRange
    <3>. HIDE DEF g
    <3>. QED BY <1>1, <1>2, <3>1, <3>2, DriftOrder
  <2>2. CASE ExtentGetBlock(w.inode, l) = 0
    <3>1. g = ExtentAllocate(w.fs, w.inode, l)
      BY <2>2
    <3>. HIDE DEF g
    <3>. QED BY <1>1, <1>2, <3>1, ExtentKeeps, Zenon
  <2>. QED BY <2>1, <2>2
<1>4. \/ x = w
      \/ x = [w EXCEPT !.stop = TRUE, !.fs = g.fs]
      \/ g.ok /\ x = [stop |-> FALSE, inode |-> g.inode, fs |-> u, done |-> w.done \cup mine]
  BY DEF WriteStep
<1>5. mine \in SUBSET span
  OBVIOUS
<1>. HIDE DEF g, mine, span, x
<1>6. CASE x = w
  BY <1>6 DEF x, span
<1>7. CASE x = [w EXCEPT !.stop = TRUE, !.fs = g.fs]
  <2>1. g.fs \in States /\ Drift(t0, g.fs)
    BY <1>1, <1>3, SoundIsState, DriftOrder
  <2>2. x \in [stop : BOOLEAN, inode : FileInodes, fs : States, done : SUBSET span]
    BY <1>1, <1>7, <2>1, Zenon
  <2>3. x.fs = g.fs /\ x.inode = w.inode
    BY <1>1, <1>7
  <2>4. x \in LoopStates(t0, inode, span)
    BY <1>1, <2>1, <2>2, <2>3 DEF LoopStates
  <2>. QED BY <2>4 DEF x, span
<1>8. CASE g.ok /\ x = [stop |-> FALSE, inode |-> g.inode, fs |-> u, done |-> w.done \cup mine]
  <2>1. Sound(u) /\ Drift(g.fs, u)
    BY <1>3, <1>8, InBlockKeeps
  <2>2. u \in States /\ Drift(t0, u)
    BY <1>1, <1>3, <2>1, SoundIsState, DriftOrder
  <2>. HIDE DEF u
  <2>3. w.done \cup mine \in SUBSET span
    BY <1>1, <1>5
  <2>4. x \in [stop : BOOLEAN, inode : FileInodes, fs : States, done : SUBSET span]
    BY <1>3, <1>8, <2>2, <2>3
  <2>5. x.fs = u /\ x.inode = g.inode
    BY <1>8
  <2>6. x \in LoopStates(t0, inode, span)
    BY <1>3, <2>2, <2>4, <2>5 DEF LoopStates
  <2>. QED BY <2>6 DEF x, span
<1>. QED BY <1>4, <1>6, <1>7, <1>8

\* The loop of Ext4File::write stays in a set that each of its rounds stays in.
LEMMA LoopStays ==
    ASSUME NEW inode, NEW off \in Nat, NEW n \in Nat \ {0}, NEW v,
           NEW STATE X, [stop |-> FALSE, inode |-> inode, fs |-> Now, done |-> {}] \in X,
           \A w \in X, l \in Nat : WriteStep(w, l, off, n, v) \in X
    PROVE  WriteLoop(inode, off, n, v) \in X
<1> DEFINE first == off \div PerBlock
           final == (off + n - 1) \div PerBlock
           m == final - first + 1
           x0 == [stop |-> FALSE, inode |-> inode, fs |-> Now, done |-> {}]
           s == [p \in X \X (1..m) |-> WriteStep(p[1], first + p[2] - 1, off, n, v)]
           Follows(f) == f = [k \in 0..m |-> IF k = 0 THEN x0
                                             ELSE WriteStep(f[k - 1], first + k - 1, off, n, v)]
<1>1. first \in Nat /\ final \in Nat /\ m \in Nat
  <2>1. off + n - 1 \in Nat /\ off <= off + n - 1 /\ PerBlock \in Nat \ {0}
    BY Numbers
  <2>. QED BY <2>1, Division
<1>2. WriteLoop(inode, off, n, v) = (CHOOSE f : Follows(f))[m]
  BY DEF WriteLoop
<1>. HIDE DEF first, final, m
<1>3. x0 \in X
  OBVIOUS
<1>4. ASSUME NEW w \in X, NEW k \in 1..m PROVE WriteStep(w, first + k - 1, off, n, v) \in X
  <2>1. first + k - 1 \in Nat
    BY <1>1
  <2>. QED BY <2>1
<1>. HIDE DEF x0
<1>5. s \in [X \X (1..m) -> X] /\ \A w \in X, k \in 1..m : s[<<w, k>>] = WriteStep(w, first + k - 1, off, n, v)
  BY <1>4
<1>. HIDE DEF s
<1>6. PICK f \in [0..m -> X] : f[0] = x0 /\ \A k \in 1..m : f[k] = s[<<f[k - 1], k>>]
  <2>1. s \in [X \X (1..m) -> X]
    BY <1>5
  <2>2. m \in Nat
    BY <1>1
  <2>. HIDE DEF Follows
  <2>3. Paced(m, X, x0, s) # {}
    BY <2>1, <2>2, <1>3, Recursion, Zenon
  <2>. QED BY <2>3 DEF Paced
<1>7. Follows(f)
  <2>1. ASSUME NEW k \in 0..m, k # 0 PROVE f[k] = WriteStep(f[k - 1], first + k - 1, off, n, v)
    <3>1. k \in 1..m /\ k - 1 \in 0..m
      BY <1>1, <2>1
    <3>2. f[k - 1] \in X
      BY <1>6, <3>1
    <3>. QED BY <1>5, <1>6, <3>1, <3>2, Zenon
  <2>. QED BY <1>6, <2>1
<1> DEFINE after == CHOOSE g : Follows(g)
<1>. HIDE DEF Follows
<1>8. Follows(after)
  BY <1>7
<1>. HIDE DEF after
<1>9. after[0] = x0 /\ \A k \in 1..m : after[k] = WriteStep(after[k - 1], first + k - 1, off, n, v)
  BY <1>1, <1>8 DEF Follows
<1>10. \A k \in 1..m : after[k - 1] \in X => after[k] \in X
  BY <1>4, <1>9
<1>11. \A k \in 0..m : after[k] \in X
  BY <1>1, <1>3, <1>9, <1>10, Along, Zenon
<1>12. after[m] \in X
  BY <1>1, <1>11
<1>. QED BY <1>2, <1>12 DEF after

\* The loop keeps to the kinds of the cells.
LEMMA LoopKeeps ==
    ASSUME Sound(Now), NEW inode \in FileInodes, NEW off \in Nat, NEW n \in Nat \ {0},
           NEW v \in 0..MaxOps
    PROVE  WriteLoop(inode, off, n, v) \in LoopStates(Now, inode, off .. off + n - 1)
<1> DEFINE X == LoopStates(Now, inode, off .. off + n - 1)
<1>1. [stop |-> FALSE, inode |-> inode, fs |-> Now, done |-> {}] \in X
  BY SoundIsState, DriftOrder DEF LoopStates
<1>2. \A w \in X, l \in Nat : WriteStep(w, l, off, n, v) \in X
  BY RoundKeeps
<1>. HIDE DEF X
<1>3. WriteLoop(inode, off, n, v) \in X
  BY <1>1, <1>2, LoopStays
<1>. QED BY <1>3 DEF X
-----------------------------------------------------------------------------
(***************************************************************************)
(* Directory listings.                                                     *)
(***************************************************************************)
\* Where each entry of a listing ends.
Offsets(e) == {at \in [0..Len(e) -> Nat] : at[0] = 0 /\ \A k \in 1..Len(e) : at[k] = at[k - 1] + e[k].rec}

\* The entries have lengths, and names of some size.
LEMMA EntryFacts ==
    ASSUME NEW e \in Seq(EntryType)
    PROVE  /\ Len(e) \in Nat /\ DOMAIN e = 1..Len(e)
           /\ \A k \in 1..Len(e) :
                /\ e[k] \in EntryType /\ e[k].rec \in Nat /\ e[k].rec <= DirSize
                /\ e[k].name \in Names \cup Dots /\ e[k].ino \in 0..NInodes
<1>1. Len(e) \in Nat /\ DOMAIN e = 1..Len(e) /\ \A k \in 1..Len(e) : e[k] \in EntryType
  OBVIOUS
<1>2. \A x \in EntryType : x.rec \in Nat /\ x.rec <= DirSize /\ x.name \in Names \cup Dots /\ x.ino \in 0..NInodes
  BY Numbers DEF EntryType
<1>. QED BY <1>1, <1>2

\* The size of an entry with a given name.
LEMMA SizeIsNat ==
    ASSUME NEW n \in Names \cup Dots
    PROVE  SizeOf(n) \in Nat /\ SizeOf(n) >= 1
  BY Ext4Assumption DEF SizeOf, Dots

\* A listing has its offsets.
LEMMA OffsetsExist ==
    ASSUME NEW e \in Seq(EntryType)
    PROVE  Offsets(e) # {}
<1> DEFINE n == Len(e)
           s == [p \in Nat \X (1..n) |-> p[1] + e[p[2]].rec]
<1>1. n \in Nat /\ \A k \in 1..n : e[k].rec \in Nat
  BY EntryFacts
<1>. HIDE DEF n
<1>2. s \in [Nat \X (1..n) -> Nat] /\ \A x \in Nat, k \in 1..n : s[<<x, k>>] = x + e[k].rec
  BY <1>1
<1>. HIDE DEF s
<1>3. Paced(n, Nat, 0, s) # {}
  BY <1>1, <1>2, Recursion, Zenon
<1>4. PICK f \in [0..n -> Nat] : f[0] = 0 /\ \A k \in 1..n : f[k] = s[<<f[k - 1], k>>]
  BY <1>3 DEF Paced
<1>5. \A k \in 1..n : f[k] = f[k - 1] + e[k].rec
  <2>1. TAKE k \in 1..n
  <2>2. f[k - 1] \in Nat
    BY <1>1, <1>4
  <2>. QED BY <1>2, <1>4, <2>2, Zenon
<1>. QED BY <1>4, <1>5 DEF Offsets, n

\* A listing has only one sequence of offsets.
LEMMA OffsetsUnique ==
    ASSUME NEW e \in Seq(EntryType), NEW at \in Offsets(e), NEW end,
           end[0] = 0, \A k \in 1..Len(e) : end[k] = end[k - 1] + e[k].rec
    PROVE  end[Len(e)] = at[Len(e)]
<1> DEFINE n == Len(e)
           f == [k \in 0..n |-> IF end[k] = at[k] THEN 0 ELSE 1]
<1>1. n \in Nat /\ \A k \in 1..n : e[k].rec \in Nat
  BY EntryFacts
<1>2. at[0] = 0 /\ \A k \in 1..n : at[k] = at[k - 1] + e[k].rec
  BY DEF Offsets
<1>. HIDE DEF n
<1>3. f[0] \in {0}
  BY <1>1, <1>2
<1>4. ASSUME NEW k \in 1..n, f[k - 1] \in {0} PROVE f[k] \in {0}
  <2>1. k - 1 \in 0..n /\ k \in 0..n
    BY <1>1
  <2>2. end[k - 1] = at[k - 1]
    BY <1>4, <2>1
  <2>3. end[k] = at[k]
    BY <1>2, <2>2 DEF n
  <2>. QED BY <2>1, <2>3
<1>. HIDE DEF f
<1>5. \A k \in 0..n : f[k] \in {0}
  <2> DEFINE X == {0}
  <2>1. f[0] \in X /\ \A k \in 1..n : f[k - 1] \in X => f[k] \in X
    BY <1>3, <1>4
  <2>. HIDE DEF X
  <2>2. \A k \in 0..n : f[k] \in X
    BY <1>1, <2>1, Along, Zenon
  <2>. QED BY <2>2 DEF X
<1>6. n \in 0..n
  BY <1>1
<1>. QED BY <1>5, <1>6 DEF f, n

\* The recursion of Tiles, unfolded: the entries tile the block if their offsets end at its
\* end and each has room for its name.
LEMMA TilesAre ==
    ASSUME NEW e \in Seq(EntryType), NEW at \in Offsets(e)
    PROVE  Tiles(e) <=> /\ at[Len(e)] = DirSize
                        /\ \A k \in 1..Len(e) : e[k].rec >= SizeOf(e[k].name)
<1> DEFINE n == Len(e)
           Follows(f) == f = [k \in 0..n |-> IF k = 0 THEN 0 ELSE f[k - 1] + e[k].rec]
           end == CHOOSE f : Follows(f)
<1>1. n \in Nat /\ DOMAIN e = 1..n
  BY EntryFacts
<1>2. Follows(at)
  <2>1. at \in [0..n -> Nat] /\ at[0] = 0 /\ \A k \in 1..n : at[k] = at[k - 1] + e[k].rec
    BY DEF Offsets
  <2>. HIDE DEF n
  <2>. QED BY <1>1, <2>1
<1>. HIDE DEF Follows
<1>3. Follows(end)
  BY <1>2
<1>. HIDE DEF end
<1>4. end[0] = 0 /\ \A k \in 1..n : end[k] = end[k - 1] + e[k].rec
  <2>. HIDE DEF n
  <2>. QED BY <1>1, <1>3 DEF Follows
<1>5. end[n] = at[n]
  BY <1>4, OffsetsUnique
<1>6. (\A x \in ToSet(e) : x.rec >= SizeOf(x.name)) <=> \A k \in 1..n : e[k].rec >= SizeOf(e[k].name)
  <2>1. ToSet(e) = {e[k] : k \in 1..n}
    BY <1>1 DEF ToSet
  <2>. HIDE DEF n
  <2>. QED BY <2>1, Zenon
<1>7. Tiles(e) <=> end[n] = DirSize /\ \A x \in ToSet(e) : x.rec >= SizeOf(x.name)
  BY Zenon DEF Tiles, end, Follows
<1>. QED BY <1>5, <1>6, <1>7, Zenon

\* The offsets grow, up to the last.
LEMMA OffsetsGrow ==
    ASSUME NEW e \in Seq(EntryType), NEW at \in Offsets(e)
    PROVE  \A k \in 0..Len(e) : at[k] <= at[Len(e)]
<1> DEFINE n == Len(e)
           X == {x \in Nat : x <= at[n]}
           f == [j \in 0..n |-> at[n - j]]
<1>1. n \in Nat /\ \A k \in 1..n : e[k].rec \in Nat
  BY EntryFacts
<1>2. at \in [0..n -> Nat] /\ \A k \in 1..n : at[k] = at[k - 1] + e[k].rec
  BY DEF Offsets
<1>. HIDE DEF n
<1>3. f[0] \in X
  BY <1>1, <1>2
<1>4. ASSUME NEW j \in 1..n, f[j - 1] \in X PROVE f[j] \in X
  <2> DEFINE k == n - j + 1
  <2>1. k \in 1..n /\ k - 1 \in 0..n /\ k \in 0..n /\ n - j = k - 1 /\ n - (j - 1) = k
    BY <1>1
  <2>2. f[j] = at[k - 1] /\ f[j - 1] = at[k]
    BY <1>1, <2>1
  <2>. HIDE DEF k, f
  <2>3. at[k] <= at[n] /\ at[k - 1] \in Nat /\ at[k] \in Nat /\ at[n] \in Nat
    BY <1>1, <1>2, <1>4, <2>1, <2>2
  <2>4. at[k] = at[k - 1] + e[k].rec /\ e[k].rec \in Nat
    BY <1>1, <1>2, <2>1
  <2>. QED BY <2>2, <2>3, <2>4
<1>5. \A j \in 0..n : f[j] \in X
  <2>. HIDE DEF f, X
  <2>. QED BY <1>1, <1>3, <1>4, Along, Zenon
<1>6. ASSUME NEW k \in 0..n PROVE at[k] <= at[n]
  <2>1. n - k \in 0..n /\ n - (n - k) = k
    BY <1>1
  <2>2. f[n - k] = at[k]
    BY <2>1
  <2>3. f[n - k] \in X
    BY <1>5, <2>1
  <2>. QED BY <2>2, <2>3
<1>. QED BY <1>6 DEF n

\* What inserting an element does to a sequence.
LEMMA InsertIsSeq ==
    ASSUME NEW S, NEW s \in Seq(S), NEW x \in S, NEW i \in 1 .. Len(s) + 1
    PROVE  /\ InsertAt(s, i, x) \in Seq(S) /\ Len(InsertAt(s, i, x)) = Len(s) + 1
           /\ \A j \in 1 .. Len(s) + 1 :
                InsertAt(s, i, x)[j] = IF j < i THEN s[j] ELSE IF j = i THEN x ELSE s[j - 1]
<1> DEFINE n == Len(s)
           a == SubSeq(s, 1, i - 1)
           b == SubSeq(s, i, n)
<1>1. n \in Nat /\ i \in Int /\ i - 1 \in Int /\ \A j \in 1..n : s[j] \in S
  OBVIOUS
<1>2. a \in Seq(S) /\ Len(a) = i - 1 /\ \A j \in 1 .. i - 1 : a[j] = s[j]
  <2>1. \A j \in 1 .. i - 1 : s[j] \in S
    BY <1>1
  <2>2. 1 \in Int /\ i - 1 \in Int
    BY <1>1
  <2>. HIDE DEF n
  <2>3. /\ a \in Seq(S) /\ Len(a) = (IF 1 <= i - 1 THEN i - 1 - 1 + 1 ELSE 0)
        /\ \A j \in 1 .. i - 1 - 1 + 1 : a[j] = s[1 + j - 1]
    BY <2>1, <2>2, SubSeqProperties
  <2>. HIDE DEF a
  <2>. QED BY <1>1, <2>3
<1>3. b \in Seq(S) /\ Len(b) = n - i + 1 /\ \A j \in 1 .. n - i + 1 : b[j] = s[i + j - 1]
  <2>1. \A j \in i .. n : s[j] \in S
    BY <1>1
  <2>. HIDE DEF n
  <2>2. n \in Int /\ i \in Int
    BY <1>1
  <2>3. /\ b \in Seq(S) /\ Len(b) = (IF i <= n THEN n - i + 1 ELSE 0)
        /\ \A j \in 1 .. n - i + 1 : b[j] = s[i + j - 1]
    BY <2>1, <2>2, SubSeqProperties
  <2>4. i <= n + 1
    BY DEF n
  <2>. HIDE DEF b
  <2>. QED BY <1>1, <2>3, <2>4
<1>. HIDE DEF a, b
<1> DEFINE c == a \o <<x>>
<1>4. c \in Seq(S) /\ Len(c) = i /\ c[i] = x /\ \A j \in 1 .. i - 1 : c[j] = s[j]
  BY <1>1, <1>2
<1>. HIDE DEF c
<1> DEFINE r == c \o b
<1>5. r \in Seq(S) /\ Len(r) = n + 1
  <2>1. r \in Seq(S) /\ Len(r) = Len(c) + Len(b)
    BY <1>3, <1>4, ConcatProperties, Zenon
  <2>. HIDE DEF n, r
  <2>. QED BY <1>1, <1>3, <1>4, <2>1
<1>6. \A j \in 1 .. n + 1 : r[j] = IF j <= i THEN c[j] ELSE b[j - i]
  <2>1. \A j \in 1 .. Len(c) + Len(b) : r[j] = IF j <= Len(c) THEN c[j] ELSE b[j - Len(c)]
    BY <1>3, <1>4, ConcatProperties
  <2>2. Len(c) + Len(b) = n + 1
    BY <1>1, <1>3, <1>4
  <2>. QED BY <1>4, <2>1, <2>2
<1>7. InsertAt(s, i, x) = r
  BY DEF InsertAt, r, c, a, b
<1>. HIDE DEF r, n
<1>8. ASSUME NEW j \in 1 .. n + 1
      PROVE  r[j] = IF j < i THEN s[j] ELSE IF j = i THEN x ELSE s[j - 1]
  <2>1. CASE j < i
    BY <1>1, <1>4, <1>6, <2>1
  <2>2. CASE j = i
    BY <1>1, <1>4, <1>6, <2>2
  <2>3. CASE j > i
    <3>1. j - i \in 1 .. n - i + 1 /\ i + (j - i) - 1 = j - 1
      BY <1>1, <2>3
    <3>2. b[j - i] = s[i + (j - i) - 1]
      BY <1>3, <3>1
    <3>3. r[j] = b[j - i]
      BY <1>1, <1>6, <2>3
    <3>. QED BY <1>1, <2>3, <3>1, <3>2, <3>3
  <2>. QED BY <1>1, <2>1, <2>2, <2>3
<1>. QED BY <1>5, <1>7, <1>8 DEF n

\* What removing an element does to a sequence.
LEMMA RemoveIsSeq ==
    ASSUME NEW S, NEW s \in Seq(S), NEW i \in 1..Len(s)
    PROVE  /\ RemoveAt(s, i) \in Seq(S) /\ Len(RemoveAt(s, i)) = Len(s) - 1
           /\ \A j \in 1 .. Len(s) - 1 : RemoveAt(s, i)[j] = IF j < i THEN s[j] ELSE s[j + 1]
<1> DEFINE n == Len(s)
           a == SubSeq(s, 1, i - 1)
           b == SubSeq(s, i + 1, n)
<1>1. n \in Nat /\ i \in Int /\ i - 1 \in Int /\ \A j \in 1..n : s[j] \in S
  OBVIOUS
<1>2. a \in Seq(S) /\ Len(a) = i - 1 /\ \A j \in 1 .. i - 1 : a[j] = s[j]
  <2>1. \A j \in 1 .. i - 1 : s[j] \in S
    BY <1>1
  <2>2. 1 \in Int /\ i - 1 \in Int
    BY <1>1
  <2>. HIDE DEF n
  <2>3. /\ a \in Seq(S) /\ Len(a) = (IF 1 <= i - 1 THEN i - 1 - 1 + 1 ELSE 0)
        /\ \A j \in 1 .. i - 1 - 1 + 1 : a[j] = s[1 + j - 1]
    BY <2>1, <2>2, SubSeqProperties
  <2>. HIDE DEF a
  <2>. QED BY <1>1, <2>3
<1>3. b \in Seq(S) /\ Len(b) = n - i /\ \A j \in 1 .. n - i : b[j] = s[i + j]
  <2>1. \A j \in i + 1 .. n : s[j] \in S
    BY <1>1
  <2>. HIDE DEF n
  <2>2. n \in Int /\ i + 1 \in Int
    BY <1>1
  <2>3. /\ b \in Seq(S) /\ Len(b) = (IF i + 1 <= n THEN n - (i + 1) + 1 ELSE 0)
        /\ \A j \in 1 .. n - (i + 1) + 1 : b[j] = s[i + 1 + j - 1]
    BY <2>1, <2>2, SubSeqProperties
  <2>4. i <= n
    BY DEF n
  <2>. HIDE DEF b
  <2>. QED BY <1>1, <2>3, <2>4
<1>. HIDE DEF a, b
<1> DEFINE r == a \o b
<1>4. r \in Seq(S) /\ Len(r) = n - 1
  <2>1. r \in Seq(S) /\ Len(r) = Len(a) + Len(b)
    BY <1>2, <1>3, ConcatProperties, Zenon
  <2>. HIDE DEF n, r
  <2>. QED BY <1>1, <1>2, <1>3, <2>1
<1>5. \A j \in 1 .. n - 1 : r[j] = IF j <= i - 1 THEN a[j] ELSE b[j - (i - 1)]
  <2>1. \A j \in 1 .. Len(a) + Len(b) : r[j] = IF j <= Len(a) THEN a[j] ELSE b[j - Len(a)]
    BY <1>2, <1>3, ConcatProperties
  <2>2. Len(a) + Len(b) = n - 1
    BY <1>1, <1>2, <1>3
  <2>. QED BY <1>2, <2>1, <2>2
<1>6. RemoveAt(s, i) = r
  BY DEF RemoveAt, r, a, b
<1>. HIDE DEF r, n
<1>7. ASSUME NEW j \in 1 .. n - 1
      PROVE  r[j] = IF j < i THEN s[j] ELSE s[j + 1]
  <2>1. CASE j < i
    BY <1>1, <1>2, <1>5, <2>1
  <2>2. CASE j >= i
    <3>1. j - (i - 1) \in 1 .. n - i /\ i + (j - (i - 1)) = j + 1
      BY <1>1, <2>2
    <3>2. b[j - (i - 1)] = s[i + (j - (i - 1))]
      BY <1>3, <3>1
    <3>3. r[j] = b[j - (i - 1)]
      BY <1>1, <1>5, <2>2
    <3>. QED BY <1>1, <2>2, <3>1, <3>2, <3>3
  <2>. QED BY <1>1, <2>1, <2>2
<1>. QED BY <1>4, <1>6, <1>7 DEF n

\* An entry cut off from the tail of entry k: the listing still tiles the block.
LEMMA AddTiles ==
    ASSUME NEW e \in Seq(EntryType), Tiles(e), NEW k \in 1..Len(e), NEW nm \in Names \cup Dots,
           NEW i \in 0..NInodes, NEW ty \in {"file", "dir"},
           e[k].rec >= SizeOf(e[k].name) + SizeOf(nm)
    PROVE  AddEntry(e, k, i, nm, ty) \in Seq(EntryType) /\ Tiles(AddEntry(e, k, i, nm, ty))
<1> DEFINE n == Len(e)
           used == SizeOf(e[k].name)
           x == [e EXCEPT ![k].rec = used]
           y == Entry(i, nm, e[k].rec - used, ty)
           z == InsertAt(x, k + 1, y)
<1>1. n \in Nat /\ e[k] \in EntryType /\ e[k].rec \in Nat /\ e[k].rec <= DirSize /\ e[k].name \in Names \cup Dots
  BY EntryFacts
<1>2. used \in Nat /\ SizeOf(nm) \in Nat /\ DirSize \in Nat
  BY <1>1, SizeIsNat, Numbers
<1>3. e[k].rec >= used + SizeOf(nm)
  OBVIOUS
<1>. HIDE DEF used
<1>4. used \in 0..DirSize /\ e[k].rec - used \in 0..DirSize /\ e[k].rec - used >= SizeOf(nm)
  BY <1>1, <1>2, <1>3
<1>5. y \in EntryType /\ y.rec = e[k].rec - used /\ y.name = nm
  BY <1>4 DEF Entry, EntryType
<1>6. [e[k] EXCEPT !.rec = used] \in EntryType
  BY <1>1, <1>4, Zenon DEF EntryType
<1>7. [e[k] EXCEPT !.rec = used].rec = used /\ [e[k] EXCEPT !.rec = used].name = e[k].name
  BY <1>1 DEF EntryType
<1>8. /\ x \in Seq(EntryType) /\ Len(x) = n
      /\ x[k].rec = used /\ x[k].name = e[k].name
      /\ \A j \in 1..n : j # k => x[j] = e[j]
  <2>1. x = [e EXCEPT ![k] = [e[k] EXCEPT !.rec = used]]
    OBVIOUS
  <2>2. /\ x \in Seq(EntryType) /\ Len(x) = n
        /\ \A j \in 1..n : x[j] = IF j = k THEN [e[k] EXCEPT !.rec = used] ELSE e[j]
    BY <1>6, <2>1, ExceptSeq
  <2>. HIDE DEF x
  <2>. QED BY <1>7, <2>2, Zenon
<1>9. AddEntry(e, k, i, nm, ty) = z
  BY DEF AddEntry, used
<1>. HIDE DEF x, y
<1>10. k + 1 \in 1 .. Len(x) + 1
  BY <1>1, <1>8
<1>11. /\ z \in Seq(EntryType) /\ Len(z) = n + 1
       /\ \A j \in 1 .. n + 1 : z[j] = IF j < k + 1 THEN x[j] ELSE IF j = k + 1 THEN y ELSE x[j - 1]
  <2>1. x \in Seq(EntryType) /\ y \in EntryType
    BY <1>5, <1>8
  <2>2. /\ z \in Seq(EntryType) /\ Len(z) = Len(x) + 1
        /\ \A j \in 1 .. Len(x) + 1 :
             z[j] = IF j < k + 1 THEN x[j] ELSE IF j = k + 1 THEN y ELSE x[j - 1]
    BY <2>1, <1>10, InsertIsSeq
  <2>. HIDE DEF z, n
  <2>. QED BY <1>8, <2>2
<1>. HIDE DEF z
<1>12. PICK at \in Offsets(e) : TRUE
  BY OffsetsExist
<1>13. at \in [0..n -> Nat] /\ at[0] = 0 /\ \A j \in 1..n : at[j] = at[j - 1] + e[j].rec
  BY DEF Offsets
<1>14. at[n] = DirSize /\ \A j \in 1..n : e[j].rec >= SizeOf(e[j].name)
  BY TilesAre
<1>. HIDE DEF n
<1> DEFINE bt == [j \in 0 .. n + 1 |-> IF j < k THEN at[j] ELSE IF j = k THEN at[k - 1] + used ELSE at[j - 1]]
<1>15. /\ k \in 1..n /\ k \in Nat /\ n + 1 \in Nat /\ k - 1 \in 0..n /\ at[k - 1] \in Nat
       /\ \A j \in 1..n : j - 1 \in 0..n /\ j \in 0..n
  <2>1. k \in 1..n
    BY DEF n
  <2>2. k \in Nat /\ n + 1 \in Nat /\ k - 1 \in 0..n /\ \A j \in 1..n : j - 1 \in 0..n /\ j \in 0..n
    BY <1>1, <2>1
  <2>. QED BY <1>13, <2>1, <2>2
<1>16. bt \in [0 .. n + 1 -> Nat] /\ bt[0] = 0 /\ bt[n + 1] = DirSize
  <2>1. ASSUME NEW j \in 0 .. n + 1 PROVE bt[j] \in Nat
    <3>1. CASE j < k
      BY <1>1, <1>13, <1>15, <3>1
    <3>2. CASE j = k
      BY <1>2, <1>15, <3>2
    <3>3. CASE j > k
      <4>1. j - 1 \in 0..n
        BY <1>1, <1>15, <3>3
      <4>2. bt[j] = at[j - 1]
        BY <1>15, <3>3
      <4>. QED BY <1>13, <4>1, <4>2
    <3>. QED BY <1>15, <3>1, <3>2, <3>3
  <2>2. bt[0] = 0
    BY <1>1, <1>13, <1>15
  <2>3. n + 1 \in 0 .. n + 1 /\ n + 1 > k /\ (n + 1) - 1 = n
    BY <1>1, <1>15
  <2>4. bt[n + 1] = at[n]
    BY <1>15, <2>3
  <2>5. bt \in [0 .. n + 1 -> Nat]
    BY <2>1
  <2>. QED BY <1>14, <2>2, <2>4, <2>5
<1>17. ASSUME NEW j \in 1 .. n + 1
       PROVE  bt[j] = bt[j - 1] + z[j].rec /\ z[j].rec >= SizeOf(z[j].name)
  <2>1. j \in 0 .. n + 1 /\ j - 1 \in 0 .. n + 1 /\ j \in Nat
    BY <1>1
  <2>2. CASE j < k
    <3>1. j \in 1..n /\ j # k /\ j < k + 1 /\ j - 1 < k
      BY <1>1, <1>15, <2>1, <2>2
    <3>2. z[j] = e[j]
      BY <1>8, <1>11, <3>1
    <3>3. bt[j] = at[j] /\ bt[j - 1] = at[j - 1]
      BY <2>1, <2>2, <3>1
    <3>. QED BY <1>13, <1>14, <3>1, <3>2, <3>3, Zenon
  <2>3. CASE j = k
    <3>1. j < k + 1 /\ j - 1 < k /\ j - 1 = k - 1 /\ ~(j < k)
      BY <1>15, <2>3
    <3>2. z[j] = x[k]
      BY <1>11, <2>3, <3>1
    <3>3. bt[j] = at[k - 1] + used /\ bt[j - 1] = at[k - 1]
      BY <2>1, <2>3, <3>1
    <3>4. used >= SizeOf(e[k].name)
      BY <1>2 DEF used
    <3>. QED BY <1>8, <3>2, <3>3, <3>4
  <2>4. CASE j = k + 1
    <3>1. ~(j < k + 1) /\ ~(j < k) /\ j # k /\ j - 1 = k /\ ~(k < k)
      BY <1>15, <2>4
    <3>2. z[j] = y
      BY <1>11, <2>4, <3>1
    <3>3. bt[j] = at[k] /\ bt[j - 1] = at[k - 1] + used
      BY <2>1, <3>1
    <3>4. at[k] = at[k - 1] + e[k].rec
      BY <1>13, <1>15
    <3>5. z[j].rec = e[k].rec - used /\ z[j].name = nm
      BY <1>5, <3>2
    <3>6. at[k - 1] + e[k].rec = (at[k - 1] + used) + (e[k].rec - used)
      BY <1>1, <1>2, <1>15
    <3>. QED BY <1>4, <3>3, <3>4, <3>5, <3>6
  <2>5. CASE j > k + 1
    <3>1. /\ ~(j < k + 1) /\ j # k + 1 /\ ~(j < k) /\ j # k /\ ~(j - 1 < k) /\ j - 1 # k
          /\ j - 1 \in 1..n /\ (j - 1) - 1 = j - 2 /\ j - 1 - 1 = j - 2
      <4>1. k \in Nat /\ 1 <= k /\ k <= n /\ n \in Nat /\ j \in Nat /\ j <= n + 1
        BY <1>1, <1>15, <2>1
      <4>. QED BY <2>5, <4>1
    <3>2. z[j] = e[j - 1]
      <4>1. z[j] = x[j - 1]
        BY <1>11, <3>1
      <4>. QED BY <1>8, <3>1, <4>1
    <3>3. bt[j] = at[j - 1] /\ bt[j - 1] = at[j - 2]
      BY <2>1, <3>1
    <3>4. at[j - 1] = at[j - 2] + e[j - 1].rec
      <4>1. PICK h \in 1..n : h = j - 1 /\ h - 1 = j - 2
        BY <3>1
      <4>2. at[h] = at[h - 1] + e[h].rec
        BY <1>13
      <4>. QED BY <4>1, <4>2
    <3>. QED BY <1>14, <3>1, <3>2, <3>3, <3>4
  <2>. QED BY <1>15, <2>1, <2>2, <2>3, <2>4, <2>5
<1>. HIDE DEF bt
<1>18. bt \in Offsets(z)
  BY <1>11, <1>16, <1>17 DEF Offsets
<1>19. Tiles(z)
  BY <1>11, <1>16, <1>17, <1>18, TilesAre, Zenon
<1>. QED BY <1>9, <1>11, <1>19

\* An entry given to the one before it, or left empty if it is the first: the listing still
\* tiles the block.
LEMMA RemoveTiles ==
    ASSUME NEW e \in Seq(EntryType), Tiles(e), NEW k \in 1..Len(e)
    PROVE  RemoveEntry(e, k) \in Seq(EntryType) /\ Tiles(RemoveEntry(e, k))
<1> DEFINE n == Len(e)
<1>1. n \in Nat /\ \A j \in 1..n : e[j] \in EntryType /\ e[j].rec \in Nat
  BY EntryFacts
<1>2. PICK at \in Offsets(e) : TRUE
  BY OffsetsExist
<1>3. at \in [0..n -> Nat] /\ at[0] = 0 /\ \A j \in 1..n : at[j] = at[j - 1] + e[j].rec
  BY DEF Offsets
<1>4. at[n] = DirSize /\ \A j \in 1..n : e[j].rec >= SizeOf(e[j].name)
  BY TilesAre
<1>5. \A j \in 0..n : at[j] <= DirSize
  BY <1>4, OffsetsGrow
<1>6. k \in 1..n
  OBVIOUS
<1>. HIDE DEF n
<1>7. CASE ~(k > 1)
  <2> DEFINE y == [e[k] EXCEPT !.ino = 0]
             z == [e EXCEPT ![k] = y]
  <2>1. RemoveEntry(e, k) = z
    BY <1>7 DEF RemoveEntry
  <2>2. y \in EntryType /\ y.rec = e[k].rec /\ y.name = e[k].name
    <3>1. e[k] \in EntryType /\ 0 \in 0..NInodes
      BY <1>1, <1>6, Numbers
    <3>. QED BY <3>1, Zenon DEF EntryType
  <2>. HIDE DEF y
  <2>3. /\ z \in Seq(EntryType) /\ Len(z) = n
        /\ \A j \in 1..n : z[j] = IF j = k THEN y ELSE e[j]
    <3>1. y \in EntryType
      BY <2>2
    <3>. QED BY <3>1, ExceptSeq DEF n
  <2>. HIDE DEF z
  <2>4. \A j \in 1..n : z[j].rec = e[j].rec /\ z[j].name = e[j].name
    BY <2>2, <2>3
  <2>5. at \in Offsets(z)
    BY <1>3, <2>3, <2>4 DEF Offsets
  <2>6. \A j \in 1..n : z[j].rec >= SizeOf(z[j].name)
    BY <1>4, <2>4
  <2>7. Tiles(z)
    BY <1>4, <2>3, <2>5, <2>6, TilesAre
  <2>. QED BY <2>1, <2>3, <2>7
<1>8. CASE k > 1
  <2> DEFINE sum == e[k - 1].rec + e[k].rec
             y == [e[k - 1] EXCEPT !.rec = sum]
             x == [e EXCEPT ![k - 1] = y]
             z == RemoveAt(x, k)
  <2>1. RemoveEntry(e, k) = z
    BY <1>8 DEF RemoveEntry
  <2>2. k - 1 \in 1..n /\ k - 1 \in 0..n /\ k \in 0..n /\ k - 2 \in 0..n /\ (k - 1) - 1 = k - 2
        /\ n - 1 \in Nat /\ k \in Nat
    BY <1>1, <1>6, <1>8
  <2>3. e[k - 1].rec \in Nat /\ e[k].rec \in Nat /\ e[k - 1] \in EntryType
    BY <1>1, <1>6, <2>2
  <2>4. at[k - 1] = at[k - 2] + e[k - 1].rec /\ at[k] = at[k - 1] + e[k].rec
    <3>1. at[k - 1] = at[(k - 1) - 1] + e[k - 1].rec
      BY <1>3, <2>2
    <3>2. at[k] = at[k - 1] + e[k].rec
      BY <1>3, <1>6
    <3>. QED BY <2>2, <3>1, <3>2
  <2>5. at[k] = at[k - 2] + sum /\ at[k] <= DirSize /\ at[k - 2] \in Nat
    <3>1. at[k - 2] \in Nat /\ at[k] <= DirSize
      BY <1>3, <1>5, <2>2
    <3>. QED BY <2>3, <2>4, <3>1
  <2>6. sum \in 0..DirSize /\ sum >= e[k - 1].rec
    <3>1. sum \in Nat /\ sum >= e[k - 1].rec
      BY <2>3
    <3>2. DirSize \in Nat
      BY Numbers
    <3>. HIDE DEF sum
    <3>. QED BY <2>5, <3>1, <3>2
  <2>. HIDE DEF sum
  <2>7. y \in EntryType /\ y.rec = sum /\ y.name = e[k - 1].name
    BY <2>3, <2>6, Zenon DEF EntryType
  <2>. HIDE DEF y
  <2>8. /\ x \in Seq(EntryType) /\ Len(x) = n
        /\ \A j \in 1..n : x[j] = IF j = k - 1 THEN y ELSE e[j]
    <3>1. y \in EntryType /\ k - 1 \in 1..Len(e)
      BY <2>2, <2>7 DEF n
    <3>. QED BY <3>1, ExceptSeq DEF n
  <2>. HIDE DEF x
  <2>9. /\ z \in Seq(EntryType) /\ Len(z) = n - 1
        /\ \A j \in 1 .. n - 1 : z[j] = IF j < k THEN x[j] ELSE x[j + 1]
    BY <1>6, <2>8, RemoveIsSeq, Zenon
  <2>. HIDE DEF z
  <2> DEFINE bt == [j \in 0 .. n - 1 |-> IF j < k - 1 THEN at[j] ELSE at[j + 1]]
  <2>10. bt \in [0 .. n - 1 -> Nat] /\ bt[0] = 0 /\ bt[n - 1] = DirSize
    <3>1. \A j \in 0 .. n - 1 : j \in 0..n /\ j + 1 \in 0..n
      BY <1>1
    <3>2. \A j \in 0 .. n - 1 : bt[j] \in Nat
      BY <1>3, <3>1
    <3>3. 0 \in 0 .. n - 1 /\ 0 < k - 1
      BY <1>8, <2>2
    <3>4. bt[0] = 0
      BY <1>3, <3>3
    <3>5. n - 1 \in 0 .. n - 1 /\ ~(n - 1 < k - 1) /\ (n - 1) + 1 = n
      BY <1>1, <1>6, <2>2
    <3>6. bt[n - 1] = at[n]
      BY <3>5
    <3>. QED BY <1>4, <3>2, <3>4, <3>6
  <2>11. ASSUME NEW j \in 1 .. n - 1
         PROVE  bt[j] = bt[j - 1] + z[j].rec /\ z[j].rec >= SizeOf(z[j].name)
    <3>1. j \in 0 .. n - 1 /\ j - 1 \in 0 .. n - 1 /\ j \in 1..n /\ j + 1 \in 1..n /\ j \in Nat
          /\ (j - 1) + 1 = j /\ (j + 1) - 1 = j
      BY <1>1
    <3>2. CASE j < k - 1
      <4>1. j - 1 < k - 1 /\ j < k /\ j # k - 1
        BY <2>2, <3>1, <3>2
      <4>2. z[j] = e[j]
        BY <2>8, <2>9, <3>1, <4>1
      <4>3. bt[j] = at[j] /\ bt[j - 1] = at[j - 1]
        BY <3>1, <3>2, <4>1
      <4>. QED BY <1>3, <1>4, <3>1, <4>2, <4>3
    <3>3. CASE j = k - 1
      <4>1. j - 1 < k - 1 /\ j < k /\ ~(j < k - 1) /\ j + 1 = k /\ j - 1 = k - 2
        BY <2>2, <3>1, <3>3
      <4>2. z[j] = y
        BY <2>8, <2>9, <3>1, <3>3, <4>1
      <4>3. bt[j] = at[k] /\ bt[j - 1] = at[k - 2]
        BY <3>1, <4>1
      <4>4. e[k - 1].rec >= SizeOf(e[k - 1].name) /\ e[k - 1].name \in Names \cup Dots
        BY <1>4, <2>2, EntryFacts DEF n
      <4>5. sum >= SizeOf(e[k - 1].name)
        BY <2>3, <2>6, <4>4, SizeIsNat
      <4>. QED BY <2>5, <2>7, <4>2, <4>3, <4>5
    <3>4. CASE j > k - 1
      <4>1. ~(j - 1 < k - 1) /\ ~(j < k) /\ ~(j < k - 1) /\ j + 1 # k - 1
        BY <2>2, <3>1, <3>4
      <4>2. z[j] = e[j + 1]
        BY <2>8, <2>9, <3>1, <4>1
      <4>3. bt[j] = at[j + 1] /\ bt[j - 1] = at[j]
        BY <3>1, <4>1
      <4>4. at[j + 1] = at[(j + 1) - 1] + e[j + 1].rec /\ e[j + 1].rec >= SizeOf(e[j + 1].name)
        BY <1>3, <1>4, <3>1
      <4>. QED BY <3>1, <4>2, <4>3, <4>4
    <3>. QED BY <2>2, <3>1, <3>2, <3>3, <3>4
  <2>. HIDE DEF bt
  <2>12. bt \in Offsets(z)
    BY <2>9, <2>10, <2>11 DEF Offsets
  <2>13. Tiles(z)
    BY <2>9, <2>10, <2>11, <2>12, TilesAre
  <2>. QED BY <2>1, <2>9, <2>13
<1>. QED BY <1>7, <1>8

\* A new directory: its two entries tile its block.
LEMMA EmptyTiles ==
    ASSUME NEW i \in 0..NInodes, NEW p \in 0..NInodes
    PROVE  EmptyDir(i, p) \in DirBlocks
<1> DEFINE a == Entry(i, ".", DotSize, "dir")
           b == Entry(p, "..", DirSize - DotSize, "dir")
           e == <<a, b>>
           at == [k \in 0..2 |-> IF k = 0 THEN 0 ELSE IF k = 1 THEN DotSize ELSE DirSize]
<1>1. DotSize \in Nat /\ DirSize \in Nat /\ DotSize <= DirSize /\ 2 * DotSize <= DirSize
  BY Ext4Assumption, Numbers
<1>2. a \in EntryType /\ a.rec = DotSize /\ a.name = "."
  BY <1>1 DEF Entry, EntryType, Dots
<1>3. b \in EntryType /\ b.rec = DirSize - DotSize /\ b.name = ".."
  BY <1>1 DEF Entry, EntryType, Dots
<1>4. SizeOf(".") = DotSize /\ SizeOf("..") = DotSize
  BY DEF SizeOf, Dots
<1>5. EmptyDir(i, p) = [kind |-> "dir", at |-> e]
  BY DEF EmptyDir, Listing
<1>. HIDE DEF a, b
<1>6. e \in Seq(EntryType) /\ Len(e) = 2 /\ e[1] = a /\ e[2] = b
  BY <1>2, <1>3
<1>. HIDE DEF e
<1>7. at \in [0..2 -> Nat] /\ at[0] = 0 /\ at[1] = DotSize /\ at[2] = DirSize
  BY <1>1
<1>. HIDE DEF at
<1>8. ASSUME NEW k \in 1..2
      PROVE  at[k] = at[k - 1] + e[k].rec /\ e[k].rec >= SizeOf(e[k].name)
  <2>1. CASE k = 1
    BY <1>1, <1>2, <1>4, <1>6, <1>7, <2>1
  <2>2. CASE k = 2
    BY <1>1, <1>3, <1>4, <1>6, <1>7, <2>2
  <2>. QED BY <2>1, <2>2
<1>9. at \in Offsets(e)
  BY <1>6, <1>7, <1>8 DEF Offsets
<1>10. Tiles(e)
  BY <1>6, <1>7, <1>8, <1>9, TilesAre
<1>. QED BY <1>5, <1>6, <1>10 DEF DirBlocks
-----------------------------------------------------------------------------
(***************************************************************************)
(* Directories, path walks and the calls.                                  *)
(***************************************************************************)
\* extent_get_block of the root's inode gives block 1.
LEMMA RootBlock == ExtentGetBlock(RootInode, 0) = 1
<1> DEFINE E == [block : {0}, start : {1}, len : {1}]
<1>1. RootInode.ext = <<Extent(0, 1)>>
  BY DEF RootInode, NewInode
<1>2. Extent(0, 1) \in E /\ Extent(0, 1).block = 0 /\ Extent(0, 1).start = 1 /\ Extent(0, 1).len = 1
  BY DEF Extent
<1>3. RootInode.ext \in Seq(E) /\ Len(RootInode.ext) = 1 /\ RootInode.ext[1] = Extent(0, 1)
  <2>. HIDE DEF E
  <2>. QED BY <1>1, <1>2
<1>. HIDE DEF E
<1>4. \/ /\ ExtentGetBlock(RootInode, 0) = 0
         /\ \A k \in 1..Len(RootInode.ext) :
              ~(RootInode.ext[k].block <= 0 /\ 0 < RootInode.ext[k].block + RootInode.ext[k].len)
      \/ \E k \in 1..Len(RootInode.ext) :
           /\ RootInode.ext[k].block <= 0 /\ 0 < RootInode.ext[k].block + RootInode.ext[k].len
           /\ ExtentGetBlock(RootInode, 0) = RootInode.ext[k].start + (0 - RootInode.ext[k].block)
  BY <1>3, GetBlock
<1>. QED BY <1>2, <1>3, <1>4

\* The inode of a directory, and its block.
LEMMA DirBlockIn ==
    ASSUME NEW t, Sound(t), NEW d \in Inodes
    PROVE  /\ DirBlock(t, d) \in {0} \cup Blocks
           /\ d = Root => Intact(t, d)
           /\ d # Root => t.disk[Ino(d)] \in FileInodes
<1>1. t.disk \in Disks
  BY DEF Sound
<1>2. \A c \in Cells : t.disk[c] \in Contents(c)
  BY <1>1 DEF Disks
<1>3. CASE d = Root
  <2>1. t.disk[Ino(d)] = RootInode /\ t.disk[Blk(1)] \in DirBlocks
    BY <1>2, <1>3, CellsDiffer, ContentsOfCells, Numbers
  <2>2. DirBlock(t, d) = 1
    BY <2>1, RootBlock DEF DirBlock
  <2>3. RootInode.type = "dir"
    BY DEF RootInode, NewInode
  <2>4. t.disk[Blk(1)].kind = "dir"
    BY <2>1 DEF DirBlocks
  <2>. QED BY <1>3, <2>1, <2>2, <2>3, <2>4, Numbers DEF Intact
<1>4. CASE d # Root
  <2>1. t.disk[Ino(d)] \in FileInodes
    BY <1>2, <1>4, CellsDiffer, ContentsOfCells
  <2>2. DirBlock(t, d) \in {0} \cup 2..NBlocks
    BY <2>1, BlockInRange DEF DirBlock
  <2>. QED BY <1>4, <2>1, <2>2, Numbers DEF Blocks
<1>. QED BY <1>3, <1>4

\* An intact directory has a listing that tiles its block.
LEMMA IntactListing ==
    ASSUME NEW t, Sound(t), NEW d \in Inodes, Intact(t, d)
    PROVE  /\ DirBlock(t, d) \in Blocks
           /\ ListingOf(t, d) \in Seq(EntryType) /\ Tiles(ListingOf(t, d))
<1>1. DirBlock(t, d) \in Blocks
  BY DirBlockIn DEF Intact
<1>2. PICK b \in Blocks : b = DirBlock(t, d)
  BY <1>1
<1>3. t.disk[Blk(b)] \in DataBlocks \cup DirBlocks
  <2>1. t.disk[Blk(b)] \in Contents(Blk(b))
    BY CellsDiffer DEF Sound, Disks
  <2>. QED BY <2>1, ContentsOfCells
<1>4. t.disk[Blk(b)].kind = "dir"
  BY <1>2 DEF Intact
<1>5. t.disk[Blk(b)] \notin DataBlocks
  BY <1>4 DEF DataBlocks
<1>6. t.disk[Blk(b)].at \in Seq(EntryType) /\ Tiles(t.disk[Blk(b)].at)
  BY <1>3, <1>5 DEF DirBlocks
<1>. QED BY <1>1, <1>2, <1>6 DEF ListingOf

\* finddir and unlink walk to an entry of the listing.
LEMMA FindEntryIn ==
    ASSUME NEW e \in Seq(EntryType), NEW nm
    PROVE  \/ FindEntry(e, nm) = 0
           \/ FindEntry(e, nm) \in 1..Len(e) /\ e[FindEntry(e, nm)].ino # 0
<1> DEFINE I == {k \in 1..Len(e) : e[k].ino # 0 /\ e[k].name = nm}
<1>1. I \in SUBSET Nat
  OBVIOUS
<1>2. I # {} => Min(I) \in I
  BY <1>1, MinIsElement, Zenon
<1>3. FindEntry(e, nm) = IF I # {} THEN Min(I) ELSE 0
  BY DEF FindEntry, SelectInSeq
<1>4. CASE I # {}
  <2>1. PICK k \in I : k = Min(I)
    BY <1>2, <1>4, Zenon
  <2>2. FindEntry(e, nm) = k
    BY <1>3, <1>4, <2>1
  <2>. QED BY <2>2
<1>. QED BY <1>3, <1>4

\* find_free_entry_space finds an entry with room behind it.
LEMMA FindSpaceIn ==
    ASSUME NEW e \in Seq(EntryType), NEW need
    PROVE  LET k == FindFreeEntrySpace(e, need)
           IN  k = 0 \/ (k \in 1..Len(e) /\ e[k].rec >= SizeOf(e[k].name) + need)
<1> DEFINE I == {k \in 1..Len(e) : e[k].rec >= SizeOf(e[k].name) + need}
<1>1. I \in SUBSET Nat
  OBVIOUS
<1>2. I # {} => Min(I) \in I
  BY <1>1, MinIsElement, Zenon
<1>3. FindFreeEntrySpace(e, need) = IF I # {} THEN Min(I) ELSE 0
  BY DEF FindFreeEntrySpace, SelectInSeq
<1>4. CASE I # {}
  <2>1. PICK k \in I : k = Min(I)
    BY <1>2, <1>4, Zenon
  <2>2. FindFreeEntrySpace(e, need) = k
    BY <1>3, <1>4, <2>1
  <2>. QED BY <2>2
<1>. QED BY <1>3, <1>4

\* A listing may be written to any block.
LEMMA ListingIsContent ==
    ASSUME NEW b \in Blocks, NEW e \in Seq(EntryType), Tiles(e)
    PROVE  /\ Blk(b) \in Cells /\ Listing(e) \in Contents(Blk(b))
           /\ \A i \in Inodes : Blk(b) # Ino(i)
<1>1. Listing(e) \in DirBlocks
  BY DEF Listing, DirBlocks
<1>. QED BY <1>1, ContentsOfCells, CellsDiffer
-----------------------------------------------------------------------------
Kinds == {"none", "create", "mkdir", "unlink", "write"}
NameSets == [Inodes -> SUBSET (Names \X Inodes)]
Texts == [Inodes -> [Positions -> 0..MaxOps]]
Handles == {Closed} \cup [ino : Inodes \ {Root}, inode : FileInodes]

\* The inductive invariant: every cell, every image of the transaction and every write still
\* to be made is of the cell's kind, and between calls the transaction holds no listing.
IInv ==
    /\ journal \in BOOLEAN
    /\ disk \in Disks /\ log \in Seq(Plain) /\ Len(log) <= LogMax /\ todo \in Seq(Writes)
    /\ files \in [Fds -> Handles] /\ names \in NameSets /\ twice \in SUBSET Inodes /\ text \in Texts
    /\ op \in [kind : Kinds, ino : 0..NInodes, names : NameSets, text : Texts]
    /\ ops \in 0..MaxOps /\ crashes \in 0..MaxCrashes

\* A call starts from a sound state.
LEMMA NowIsSound ==
    ASSUME IInv
    PROVE  Sound(Now) /\ Now.disk = disk /\ Now.log = log /\ Now.log \in Seq(Plain)
<1>1. Now.disk = disk /\ Now.log = log /\ Now.out = <<>>
      /\ Now = [disk |-> Now.disk, log |-> Now.log, out |-> Now.out]
  BY DEF Now
<1>2. <<>> \in Seq(Writes)
  OBVIOUS
<1>3. Plain \subseteq Logged
  BY DEF Plain
<1>4. log \in Seq(Logged) /\ log \in Seq(Plain) /\ disk \in Disks /\ Len(log) <= LogMax
  BY <1>3 DEF IInv
<1>. QED BY <1>1, <1>2, <1>4 DEF Sound

\* finddir in an intact directory gives no inode, or one.
LEMMA FoundIn ==
    ASSUME IInv, NEW d \in Inodes, Intact(Now, d), NEW n
    PROVE  Found(d, n) \in 0..NInodes
<1> DEFINE e == ListingOf(Now, d)
           k == FindEntry(e, n)
<1>1. e \in Seq(EntryType)
  BY NowIsSound, IntactListing
<1>2. Found(d, n) = IF k = 0 THEN 0 ELSE e[k].ino
  BY DEF Found
<1>. HIDE DEF e
<1>3. k = 0 \/ k \in 1..Len(e)
  BY <1>1, FindEntryIn
<1>. HIDE DEF k
<1>4. 0 \in 0..NInodes
  BY Numbers
<1>. QED BY <1>1, <1>2, <1>3, <1>4, EntryFacts

\* vfs_open ends at an intact directory or nowhere.
LEMMA ResolveIn ==
    ASSUME IInv, NEW path \in Paths
    PROVE  Resolve(path) = 0 \/ (Resolve(path) \in Inodes /\ Intact(Now, Resolve(path)))
<1> DEFINE X == {0} \cup {d \in Inodes : Intact(Now, d)}
           m == Len(path)
           Into(d, n) == LET i == IF d = 0 THEN 0 ELSE Found(d, n)
                         IN  IF i # 0 /\ Intact(Now, i) THEN i ELSE 0
           s == [p \in X \X (1..m) |-> Into(p[1], path[p[2]])]
           Follows(f) == f = [k \in 0..m |-> IF k = 0 THEN Root ELSE Into(f[k - 1], path[k])]
<1>1. m \in Nat
  <2>1. PICK j \in 0..MaxDepth : path \in [1..j -> Names]
    BY DEF Paths
  <2>2. path \in Seq(Names)
    BY <2>1, Ext4Assumption
  <2>. QED BY <2>2
<1>2. Resolve(path) = (CHOOSE f : Follows(f))[m]
  BY DEF Resolve
<1>. HIDE DEF m
<1>3. Root \in X
  BY NowIsSound, DirBlockIn, Numbers
<1>4. ASSUME NEW d \in X, NEW n PROVE Into(d, n) \in X
  <2>1. d # 0 => Found(d, n) \in 0..NInodes
    BY FoundIn
  <2>. QED BY <2>1, Numbers DEF Inodes
<1>5. \A x \in X : x = 0 \/ (x \in Inodes /\ Intact(Now, x))
  OBVIOUS
<1>. HIDE DEF X, Into
<1>6. s \in [X \X (1..m) -> X] /\ \A d \in X, k \in 1..m : s[<<d, k>>] = Into(d, path[k])
  BY <1>4
<1>. HIDE DEF s
<1>7. PICK f \in [0..m -> X] : f[0] = Root /\ \A k \in 1..m : f[k] = s[<<f[k - 1], k>>]
  <2>. HIDE DEF Follows
  <2>1. s \in [X \X (1..m) -> X]
    BY <1>6
  <2>2. Paced(m, X, Root, s) # {}
    BY <1>1, <1>3, <2>1, Recursion
  <2>. QED BY <2>2 DEF Paced
<1>8. Follows(f)
  <2>1. ASSUME NEW k \in 0..m, k # 0 PROVE f[k] = Into(f[k - 1], path[k])
    <3>1. k \in 1..m /\ k - 1 \in 0..m
      BY <1>1, <2>1
    <3>2. f[k - 1] \in X
      BY <1>7, <3>1
    <3>. QED BY <1>6, <1>7, <3>1, <3>2, Zenon
  <2>. QED BY <1>7, <2>1
<1> DEFINE at == CHOOSE g : Follows(g)
<1>. HIDE DEF Follows
<1>9. Follows(at)
  BY <1>8
<1>. HIDE DEF at
<1>10. at[0] = Root /\ \A k \in 1..m : at[k] = Into(at[k - 1], path[k])
  BY <1>1, <1>9 DEF Follows
<1>11. \A k \in 1..m : at[k - 1] \in X => at[k] \in X
  BY <1>4, <1>10
<1>12. \A k \in 0..m : at[k] \in X
  BY <1>1, <1>3, <1>10, <1>11, Along
<1>13. at[m] \in X
  BY <1>1, <1>12
<1>. QED BY <1>2, <1>5, <1>13 DEF at

\* The effect of a call that makes the writes of a sound state t.
LEMMA BegunKeeps ==
    ASSUME IInv, NEW kind \in Kinds, NEW i \in 0..NInodes, NEW t, NEW nm \in NameSets, NEW tx \in Texts,
           Sound(t), t.log \in Seq(Plain), Begin(kind, i, t, nm, tx), ops < MaxOps,
           files' \in [Fds -> Handles]
    PROVE  IInv'
<1>1. /\ op' = [kind |-> kind, ino |-> i, names |-> nm, text |-> tx]
      /\ todo' = t.out /\ log' = t.log /\ ops' = ops + 1
      /\ UNCHANGED <<journal, disk, names, text, twice, crashes>>
  BY DEF Begin
<1>2. t.out \in Seq(Writes) /\ Len(t.log) <= LogMax
  BY DEF Sound
<1>3. ops + 1 \in 0..MaxOps
  BY Numbers DEF IInv
<1>4. op' \in [kind : Kinds, ino : 0..NInodes, names : NameSets, text : Texts]
  BY <1>1
<1>. QED BY <1>1, <1>2, <1>3, <1>4 DEF IInv

\* The inode of a new file, and of a new directory.
LEMMA NewInodes ==
    /\ NewInode("file", 0, <<>>) \in FileInodes
    /\ \A b \in 2..NBlocks : NewInode("dir", PerBlock, <<Extent(0, b)>>) \in FileInodes
    /\ NewInode("none", 0, <<>>) \in FileInodes
<1>1. PerBlock \in Nat /\ FileParts \in Nat /\ NBlocks \in Nat /\ EhMax \in Nat /\ EhMax >= 1
  BY Numbers
<1>2. ASSUME NEW ty \in {"file", "none"} PROVE NewInode(ty, 0, <<>>) \in FileInodes
  BY <1>1 DEF NewInode, FileInodes, InodeType
<1>3. ASSUME NEW b \in 2..NBlocks PROVE NewInode("dir", PerBlock, <<Extent(0, b)>>) \in FileInodes
  <2> DEFINE x == NewInode("dir", PerBlock, <<Extent(0, b)>>)
  <2>1. Extent(0, b) \in ExtentType /\ Extent(0, b).start = b /\ Extent(0, b).len = 1
    BY <1>1 DEF Extent, ExtentType, Blocks
  <2>2. x.type = "dir" /\ x.size = PerBlock /\ x.ext = <<Extent(0, b)>>
        /\ x = [type |-> x.type, size |-> x.size, ext |-> x.ext]
    BY DEF NewInode
  <2>. HIDE DEF x
  <2>3. x.ext \in Seq(ExtentType) /\ Len(x.ext) = 1 /\ x.ext[1] = Extent(0, b)
    BY <2>1, <2>2
  <2>4. x.size \in 0 .. FileParts + PerBlock
    BY <1>1, <2>2
  <2>5. x \in InodeType
    BY <2>2, <2>3, <2>4, Zenon DEF InodeType, ExtentType
  <2>6. \A k \in 1..Len(x.ext) : x.ext[k].start >= 2 /\ x.ext[k].start + x.ext[k].len - 1 <= NBlocks
    BY <1>1, <2>1, <2>3
  <2>7. x \in FileInodes
    BY <1>1, <2>3, <2>5, <2>6, ZenonT(60) DEF FileInodes
  <2>. QED BY <2>7 DEF x
<1>. QED BY <1>2, <1>3

\* write_inode of a file's inode.
LEMMA InodeWriteKeeps ==
    ASSUME NEW t, Sound(t), NEW i \in Inodes \ {Root}, NEW v \in FileInodes
    PROVE  /\ Sound(WriteInode(t, i, v)) /\ WriteInode(t, i, v).log = t.log
           /\ WriteInode(t, i, v).disk[Ino(i)] = v
           /\ \A j \in Inodes : j # i => WriteInode(t, i, v).disk[Ino(j)] = t.disk[Ino(j)]
           /\ \A b \in Blocks : WriteInode(t, i, v).disk[Blk(b)] = t.disk[Blk(b)]
<1>1. Ino(i) \in Cells /\ v \in Contents(Ino(i))
  BY CellsDiffer, ContentsOfCells
<1>2. /\ Sound(WriteBlock(t, Ino(i), v)) /\ WriteBlock(t, Ino(i), v).log = t.log
      /\ WriteBlock(t, Ino(i), v).disk = [t.disk EXCEPT ![Ino(i)] = v]
  BY <1>1, WriteKeeps
<1>3. DOMAIN t.disk = Cells
  BY DEF Sound, Disks
<1>4. WriteInode(t, i, v) = WriteBlock(t, Ino(i), v)
  BY DEF WriteInode
<1>. QED BY <1>1, <1>2, <1>3, <1>4, CellsDiffer, SMTT(60)

\* A call that adds an entry to an intact directory, in the state t.
LEMMA EntryKeeps ==
    ASSUME NEW t, Sound(t), t.log \in Seq(Plain), NEW d \in Inodes, Intact(t, d),
           NEW nm \in Names, NEW k, k # 0, k = FindFreeEntrySpace(ListingOf(t, d), SizeOf(nm)),
           NEW i \in Inodes, NEW ty \in {"file", "dir"}
    PROVE  LET u == CommitIfJournal(JournalWriteBlock(t, Blk(DirBlock(t, d)),
                                        Listing(AddEntry(ListingOf(t, d), k, i, nm, ty))))
           IN  Sound(u) /\ u.log \in Seq(Plain)
<1> DEFINE e == ListingOf(t, d)
           b == DirBlock(t, d)
           v == AddEntry(e, k, i, nm, ty)
           u == JournalWriteBlock(t, Blk(b), Listing(v))
<1>1. b \in Blocks /\ e \in Seq(EntryType) /\ Tiles(e)
  BY IntactListing
<1>. HIDE DEF e, b
<1>2. k \in 1..Len(e) /\ e[k].rec >= SizeOf(e[k].name) + SizeOf(nm)
  BY <1>1, FindSpaceIn DEF e
<1>3. v \in Seq(EntryType) /\ Tiles(v)
  <2>1. i \in 0..NInodes /\ nm \in Names \cup Dots
    BY Numbers DEF Inodes
  <2>. QED BY <1>1, <1>2, <2>1, AddTiles
<1>. HIDE DEF v
<1>4. Blk(b) \in Cells /\ Listing(v) \in Contents(Blk(b)) /\ \A j \in Inodes : Blk(b) # Ino(j)
  BY <1>1, <1>3, ListingIsContent
<1>5. Sound(u) /\ (~journal => u.log = t.log)
  BY <1>4, JournalKeeps
<1>. HIDE DEF u
<1>6. Sound(CommitIfJournal(u)) /\ CommitIfJournal(u).log \in Seq(Plain)
  BY <1>5, CommitIfKeeps
<1>. QED BY <1>6 DEF u, v, b, e

\* A name entered into the history of a directory.
LEMMA NamesGrow ==
    ASSUME NEW nms \in NameSets, NEW d, NEW n \in Names, NEW i \in Inodes
    PROVE  [nms EXCEPT ![d] = @ \cup {<<n, i>>}] \in NameSets
<1> DEFINE P == SUBSET (Names \X Inodes)
<1>1. <<n, i>> \in Names \X Inodes
  OBVIOUS
<1>2. nms \in [Inodes -> P]
  BY DEF NameSets
<1>3. d \in Inodes => nms[d] \cup {<<n, i>>} \in P
  BY <1>1, <1>2
<1>. HIDE DEF P
<1>4. [nms EXCEPT ![d] = @ \cup {<<n, i>>}] \in [Inodes -> P]
  BY <1>2, <1>3, Zenon
<1>. QED BY <1>4 DEF NameSets, P

\* Ext4Directory::create.
LEMMA CreateKeeps ==
    ASSUME IInv, NEW path \in Paths, NEW n \in Names, Create(path, n)
    PROVE  IInv'
<1> DEFINE D == Resolve(path)
           K == FindFreeEntrySpace(ListingOf(Now, D), SizeOf(n))
           A == AllocateInode(Now)
           T == WriteInode(A.fs, A.got, NewInode("file", 0, <<>>))
           U == CommitIfJournal(JournalWriteBlock(T, Blk(DirBlock(T, D)),
                     Listing(AddEntry(ListingOf(T, D), K, A.got, n, "file"))))
           N == [names EXCEPT ![D] = @ \cup {<<n, A.got>>}]
<1>1. /\ May /\ D # 0 /\ K # 0 /\ A.got # 0 /\ Intact(T, D)
      /\ Begin("create", A.got, U, N, text) /\ UNCHANGED files
  BY DEF Create
<1>2. Sound(Now) /\ Now.disk = disk /\ Now.log \in Seq(Plain)
  BY NowIsSound
<1>3. D \in Inodes /\ Intact(Now, D)
  BY <1>1, ResolveIn
<1>4. Sound(A.fs) /\ Drift(Now, A.fs) /\ A.got \in Inodes \ {Root}
  BY <1>1, <1>2, InodeKeeps
<1>. HIDE DEF D, A
<1>5. /\ Sound(T) /\ T.log = A.fs.log /\ T.disk[Ino(A.got)] = NewInode("file", 0, <<>>)
      /\ \A j \in Inodes : j # A.got => T.disk[Ino(j)] = A.fs.disk[Ino(j)]
      /\ \A b \in Blocks : T.disk[Blk(b)] = A.fs.disk[Blk(b)]
  BY <1>4, NewInodes, InodeWriteKeeps, SMTT(60)
<1>. HIDE DEF T
<1>6. T.log \in Seq(Plain)
  BY <1>2, <1>4, <1>5 DEF Drift
<1>7. D # A.got
  <2>1. NewInode("file", 0, <<>>).type # "dir"
    BY SMTT(60) DEF NewInode
  <2>. QED BY <1>1, <1>5, <2>1, ZenonT(60) DEF Intact
<1>8. T.disk[Ino(D)] = Now.disk[Ino(D)]
  BY <1>3, <1>4, <1>5, <1>7 DEF Drift
<1>9. DirBlock(T, D) = DirBlock(Now, D) /\ DirBlock(Now, D) \in Blocks
  BY <1>2, <1>3, <1>8, IntactListing DEF DirBlock
<1>10. ListingOf(T, D) = ListingOf(Now, D)
  <2>1. PICK b \in Blocks : b = DirBlock(T, D) /\ b = DirBlock(Now, D)
    BY <1>9
  <2>2. T.disk[Blk(b)].kind = "dir"
    BY <1>1, <2>1, ZenonT(60) DEF Intact
  <2>3. T.disk[Blk(b)] \notin DataBlocks
    BY <2>2, SMTT(60) DEF DataBlocks
  <2>4. T.disk[Blk(b)] = Now.disk[Blk(b)]
    BY <1>2, <1>4, <1>5, <2>3 DEF Drift
  <2>. QED BY <2>1, <2>4 DEF ListingOf
<1>11. Sound(U) /\ U.log \in Seq(Plain)
  <2>1. K = FindFreeEntrySpace(ListingOf(T, D), SizeOf(n))
    BY <1>10
  <2>. HIDE DEF K
  <2>. QED BY <1>1, <1>3, <1>4, <1>5, <1>6, <2>1, EntryKeeps, ZenonT(60)
<1>. HIDE DEF U
<1>12. N \in NameSets /\ text \in Texts /\ files' \in [Fds -> Handles]
  BY <1>1, <1>4, NamesGrow, Zenon DEF IInv
<1>. HIDE DEF N
<1>13. "create" \in Kinds /\ A.got \in 0..NInodes /\ ops < MaxOps
  BY <1>1, <1>4, Numbers DEF Kinds, May, Inodes
<1>14. PICK i \in 0..NInodes, nm \in NameSets, tx \in Texts : i = A.got /\ nm = N /\ tx = text
  BY <1>12, <1>13
<1>15. PICK t : t = U
  OBVIOUS
<1>16. Begin("create", i, t, nm, tx) /\ Sound(t) /\ t.log \in Seq(Plain)
  BY <1>1, <1>11, <1>14, <1>15
<1>. QED BY <1>12, <1>13, <1>16, BegunKeeps

\* Ext4Directory::mkdir, in its three outcomes.
LEMMA MkdirKeeps ==
    ASSUME IInv, NEW path \in Paths, NEW n \in Names, Mkdir(path, n)
    PROVE  IInv'
<1> DEFINE D == Resolve(path)
           A == AllocateInode(Now)
           B == AllocateBlock(A.fs)
           S == WriteInode(B.fs, A.got, NewInode("dir", PerBlock, <<Extent(0, B.got)>>))
           T == WriteBlock(S, Blk(B.got), EmptyDir(A.got, D))
           K == FindFreeEntrySpace(ListingOf(T, D), SizeOf(n))
           U == CommitIfJournal(JournalWriteBlock(T, Blk(DirBlock(T, D)),
                     Listing(AddEntry(ListingOf(T, D), K, A.got, n, "dir"))))
           V == CommitIfJournal(T)
           N == [names EXCEPT ![D] = @ \cup {<<n, A.got>>}]
<1>1. /\ May /\ D # 0 /\ A.got # 0 /\ UNCHANGED files
      /\ \/ B.got = 0 /\ Begin("mkdir", A.got, A.fs, names, text)
         \/ B.got # 0 /\ Intact(T, D) /\ K = 0 /\ Begin("mkdir", A.got, V, names, text)
         \/ B.got # 0 /\ Intact(T, D) /\ K # 0 /\ Begin("mkdir", A.got, U, N, text)
  BY ZenonT(60) DEF Mkdir
<1>2. Sound(Now) /\ Now.log \in Seq(Plain)
  BY NowIsSound
<1>3. D \in Inodes
  BY <1>1, ResolveIn, ZenonT(60)
<1>4. Sound(A.fs) /\ Drift(Now, A.fs) /\ A.got \in Inodes \ {Root}
  BY <1>1, <1>2, InodeKeeps, ZenonT(60)
<1>. HIDE DEF D, A
<1>5. Sound(B.fs) /\ Drift(A.fs, B.fs) /\ B.got \in {0} \cup 2..NBlocks
  BY <1>4, BlockKeeps
<1>6. A.fs.log \in Seq(Plain) /\ B.fs.log \in Seq(Plain)
  BY <1>2, <1>4, <1>5, ZenonT(60) DEF Drift
<1>. HIDE DEF B
<1>7. /\ "mkdir" \in Kinds /\ A.got \in 0..NInodes /\ D \in 0..NInodes /\ ops < MaxOps
      /\ names \in NameSets /\ text \in Texts /\ files' \in [Fds -> Handles] /\ N \in NameSets
  <2>1. "mkdir" \in Kinds /\ A.got \in 0..NInodes /\ D \in 0..NInodes /\ ops < MaxOps
    BY <1>1, <1>3, <1>4, Numbers DEF Kinds, May, Inodes
  <2>. QED BY <1>1, <1>4, <2>1, NamesGrow, ZenonT(60) DEF IInv
<1>. HIDE DEF N
<1>8. ASSUME NEW t, NEW nm \in NameSets, Sound(t), t.log \in Seq(Plain), Begin("mkdir", A.got, t, nm, text)
      PROVE  IInv'
  <2>1. PICK i \in 0..NInodes, tx \in Texts : i = A.got /\ tx = text
    BY <1>7
  <2>2. Begin("mkdir", i, t, nm, tx)
    BY <1>8, <2>1
  <2>. QED BY <1>7, <1>8, <2>2, BegunKeeps
<1>9. CASE B.got = 0 /\ Begin("mkdir", A.got, A.fs, names, text)
  <2>1. PICK t : t = A.fs
    OBVIOUS
  <2>2. PICK nm \in NameSets : nm = names
    BY <1>7
  <2>. QED BY <1>4, <1>6, <1>8, <1>9, <2>1, <2>2
<1>10. ASSUME B.got # 0 PROVE Sound(T) /\ T.log \in Seq(Plain)
  <2>1. B.got \in 2..NBlocks
    BY <1>5, <1>10
  <2>2. Sound(S) /\ S.log = B.fs.log
    BY <1>4, <1>5, <2>1, NewInodes, InodeWriteKeeps
  <2>. HIDE DEF S
  <2>3. Blk(B.got) \in Cells /\ EmptyDir(A.got, D) \in Contents(Blk(B.got))
    <3>1. B.got \in Blocks \ {1}
      BY <2>1 DEF Blocks
    <3>. QED BY <1>7, <3>1, EmptyTiles, CellsDiffer, ContentsOfCells
  <2>. QED BY <1>6, <2>2, <2>3, WriteKeeps, ZenonT(60)
<1>. HIDE DEF T
<1>11. CASE B.got # 0 /\ Begin("mkdir", A.got, V, names, text)
  <2>1. Sound(V) /\ V.log \in Seq(Plain)
    BY <1>10, <1>11, CommitIfKeeps
  <2>. HIDE DEF V
  <2>2. PICK t : t = V
    OBVIOUS
  <2>3. PICK nm \in NameSets : nm = names
    BY <1>7
  <2>. QED BY <1>8, <1>11, <2>1, <2>2, <2>3
<1>12. CASE B.got # 0 /\ Intact(T, D) /\ K # 0 /\ Begin("mkdir", A.got, U, N, text)
  <2>1. K = FindFreeEntrySpace(ListingOf(T, D), SizeOf(n))
    OBVIOUS
  <2>. HIDE DEF K
  <2>2. Sound(U) /\ U.log \in Seq(Plain)
    BY <1>3, <1>4, <1>10, <1>12, <2>1, EntryKeeps
  <2>. HIDE DEF U
  <2>3. PICK t : t = U
    OBVIOUS
  <2>4. PICK nm \in NameSets : nm = N
    BY <1>7
  <2>. QED BY <1>8, <1>12, <2>2, <2>3, <2>4
<1>. HIDE DEF U, V, K
<1>. QED BY <1>1, <1>9, <1>11, <1>12

\* Ext4Directory::unlink.
LEMMA UnlinkKeeps ==
    ASSUME IInv, NEW path \in Paths, NEW n \in Names \cup Dots, Unlink(path, n)
    PROVE  IInv'
<1> DEFINE D == Resolve(path)
           E == ListingOf(Now, D)
           K == FindEntry(E, n)
           V == RemoveEntry(E, K)
           T == JournalWriteBlock(Now, Blk(DirBlock(Now, D)), Listing(V))
           U == CommitIfJournal(T)
           N == [names EXCEPT ![D] = @ \ {<<n, E[K].ino>>}]
<1>1. /\ May /\ D # 0 /\ K # 0 /\ Begin("unlink", E[K].ino, U, N, text) /\ UNCHANGED files
  BY DEF Unlink
<1>2. Sound(Now) /\ Now.log \in Seq(Plain)
  BY NowIsSound
<1>3. D \in Inodes /\ Intact(Now, D)
  BY <1>1, ResolveIn
<1>. HIDE DEF D
<1>4. DirBlock(Now, D) \in Blocks /\ E \in Seq(EntryType) /\ Tiles(E)
  BY <1>2, <1>3, IntactListing
<1>. HIDE DEF E
<1>5. K \in 1..Len(E)
  BY <1>1, <1>4, FindEntryIn, ZenonT(60)
<1>. HIDE DEF K
<1>6. V \in Seq(EntryType) /\ Tiles(V)
  BY <1>4, <1>5, RemoveTiles, SMTT(60)
<1>. HIDE DEF V
<1>7. Sound(T) /\ (~journal => T.log = Now.log)
  <2>1. PICK b \in Blocks : b = DirBlock(Now, D)
    BY <1>4
  <2>2. Blk(b) \in Cells /\ Listing(V) \in Contents(Blk(b)) /\ \A i \in Inodes : Blk(b) # Ino(i)
    BY <1>6, ListingIsContent
  <2>3. Sound(JournalWriteBlock(Now, Blk(b), Listing(V)))
        /\ (~journal => JournalWriteBlock(Now, Blk(b), Listing(V)).log = Now.log)
    BY <1>2, <2>2, JournalKeeps
  <2>. QED BY <2>1, <2>3
<1>. HIDE DEF T
<1>8. Sound(U) /\ U.log \in Seq(Plain)
  BY <1>2, <1>7, CommitIfKeeps
<1>. HIDE DEF U
<1>9. /\ "unlink" \in Kinds /\ E[K].ino \in 0..NInodes /\ ops < MaxOps
      /\ names \in NameSets /\ text \in Texts /\ files' \in [Fds -> Handles]
  <2>1. E[K].ino \in 0..NInodes
    BY <1>4, <1>5, EntryFacts, ZenonT(60)
  <2>. QED BY <1>1, <2>1, ZenonT(60) DEF Kinds, May, IInv
<1>10. N \in NameSets
  <2> DEFINE P == SUBSET (Names \X Inodes)
  <2>1. names \in [Inodes -> P]
    BY <1>9 DEF NameSets
  <2>2. names[D] \ {<<n, E[K].ino>>} \in P
    BY <1>3, <2>1
  <2>. HIDE DEF P
  <2>3. N \in [Inodes -> P]
    BY <2>1, <2>2, Zenon
  <2>. QED BY <2>3 DEF NameSets, P
<1>. HIDE DEF N
<1>11. PICK i \in 0..NInodes, nm \in NameSets, tx \in Texts : i = E[K].ino /\ nm = N /\ tx = text
  BY <1>9, <1>10
<1>12. PICK t : t = U
  OBVIOUS
<1>13. Begin("unlink", i, t, nm, tx) /\ Sound(t) /\ t.log \in Seq(Plain)
  BY <1>1, <1>8, <1>11, <1>12
<1>. QED BY <1>9, <1>13, BegunKeeps, ZenonT(60)

\* finddir of a file, and the constructor of Ext4File.
LEMMA OpenKeeps ==
    ASSUME IInv, NEW f \in Fds, NEW path \in Paths, NEW n \in Names, Open(f, path, n)
    PROVE  IInv'
<1> DEFINE D == Resolve(path)
           I == Found(D, n)
<1>1. /\ D # 0 /\ I # 0 /\ disk[Ino(I)].type # "dir"
      /\ files' = [files EXCEPT ![f] = [ino |-> I, inode |-> disk[Ino(I)]]]
      /\ twice' = twice \cup {j \in {I} : \E g \in Fds : files[g].ino = j}
      /\ UNCHANGED <<journal, disk, log, todo, op, names, text, ops, crashes>>
  BY DEF Open
<1>2. D \in Inodes /\ Intact(Now, D)
  BY <1>1, ResolveIn, ZenonT(60)
<1>. HIDE DEF D
<1>3. I \in Inodes
  BY <1>1, <1>2, FoundIn, Numbers DEF Inodes
<1>. HIDE DEF I
<1>4. Sound(Now) /\ Now.disk = disk
  BY NowIsSound, SMTT(60)
<1>5. I # Root
  <2>1. Intact(Now, Root)
    BY <1>4, DirBlockIn, Numbers
  <2>. QED BY <1>1, <1>4, <2>1 DEF Intact
<1>6. disk[Ino(I)] \in FileInodes
  BY <1>3, <1>4, <1>5, DirBlockIn
<1>7. [ino |-> I, inode |-> disk[Ino(I)]] \in Handles
  BY <1>3, <1>5, <1>6, SMTT(60) DEF Handles
<1>8. files' \in [Fds -> Handles]
  BY <1>1, <1>7, SMTT(60) DEF IInv
<1>9. twice' \in SUBSET Inodes
  BY <1>1, <1>3 DEF IInv
<1>. QED BY <1>1, <1>8, <1>9, ZenonT(60) DEF IInv

\* Ext4File::close.
LEMMA CloseKeeps ==
    ASSUME IInv, NEW f \in Fds, Close(f)
    PROVE  IInv'
<1>1. Closed \in Handles
  BY DEF Handles
<1>2. files' \in [Fds -> Handles]
  BY <1>1 DEF IInv, Close
<1>. QED BY <1>2 DEF IInv, Close

\* A file never grows beyond its bound: no more positions are written than were asked for.
LEMMA SizeAfter ==
    ASSUME NEW off \in Nat, NEW n \in Nat, NEW done \in SUBSET (off .. off + n - 1)
    PROVE  Cardinality(done) \in Nat /\ Cardinality(done) <= n
<1>1. off \in Int /\ off + n - 1 \in Int
  OBVIOUS
<1>2. IsFiniteSet(off .. off + n - 1)
      /\ Cardinality(off .. off + n - 1) = (IF off > off + n - 1 THEN 0 ELSE (off + n - 1) - off + 1)
  BY <1>1, FS_Interval
<1>3. Cardinality(off .. off + n - 1) = n
  BY <1>2
<1>4. IsFiniteSet(done) /\ Cardinality(done) <= Cardinality(off .. off + n - 1)
  BY <1>2, FS_Subset, Zenon
<1>5. Cardinality(done) \in Nat
  BY <1>4, FS_CardinalityType
<1>. QED BY <1>3, <1>4, <1>5

\* Ext4File::write.
LEMMA WriteCallKeeps ==
    ASSUME IInv, NEW f \in Fds, NEW off \in Positions, NEW n \in WriteLens, Write(f, off, n)
    PROVE  IInv'
<1> DEFINE I == files[f].ino
           J == files[f].inode
           W == WriteLoop(J, off, n, ops + 1)
           end == off + Cardinality(W.done)
           size == IF end > W.inode.size THEN end ELSE W.inode.size
           V == [W.inode EXCEPT !.size = size]
           T == WriteInode(W.fs, I, V)
           X == [text EXCEPT ![I] = [p \in Positions |-> IF p \in W.done THEN ops + 1 ELSE @[p]]]
<1>1. /\ May /\ files[f] # Closed /\ off + n <= FileParts
      /\ files' = [files EXCEPT ![f].inode = V] /\ Begin("write", I, T, names, X)
  BY DEF Write
<1>2. files[f] \in [ino : Inodes \ {Root}, inode : FileInodes] /\ files \in [Fds -> Handles]
  BY <1>1 DEF IInv, Handles
<1>3. I \in Inodes \ {Root} /\ J \in FileInodes
  BY <1>2
<1>4. off \in Nat /\ n \in Nat \ {0} /\ FileParts \in Nat
  <2>1. FileParts \in Nat /\ n \in 1..FileParts
    BY Ext4Assumption
  <2>. QED BY <2>1 DEF Positions
<1>5. ops + 1 \in 0..MaxOps /\ ops < MaxOps
  BY <1>1, Numbers DEF IInv, May
<1>6. W \in LoopStates(Now, J, off .. off + n - 1)
  BY <1>3, <1>4, <1>5, NowIsSound, LoopKeeps
<1>. HIDE DEF I, J, W
<1>7. /\ Sound(W.fs) /\ W.inode \in FileInodes /\ W.done \in SUBSET (off .. off + n - 1)
      /\ Drift(Now, W.fs) /\ W.inode.size = J.size
  <2>1. W.fs \in States /\ W.inode \in FileInodes /\ W.done \in SUBSET (off .. off + n - 1)
        /\ Drift(Now, W.fs) /\ W.inode.size = J.size
    BY <1>6, SMTT(60) DEF LoopStates
  <2>. QED BY <2>1, SoundIsState
<1>8. W.fs.log \in Seq(Plain)
  BY <1>7, NowIsSound DEF Drift
<1>9. V \in FileInodes
  <2>1. Cardinality(W.done) \in Nat /\ Cardinality(W.done) <= n
    BY <1>4, <1>7, SizeAfter
  <2>2. PerBlock \in Nat
    BY Numbers
  <2>3. end \in 0 .. FileParts + PerBlock
    BY <1>1, <1>4, <2>1, <2>2
  <2>. HIDE DEF end
  <2>4. W.inode \in InodeType /\ W.inode.size \in 0 .. FileParts + PerBlock
    BY <1>7 DEF FileInodes, InodeType
  <2>5. size \in 0 .. FileParts + PerBlock
    BY <2>3, <2>4
  <2>. HIDE DEF size
  <2>6. V \in InodeType /\ V.ext = W.inode.ext
    BY <2>4, <2>5 DEF InodeType
  <2>. QED BY <1>7, <2>6, Zenon DEF FileInodes
<1>. HIDE DEF V
<1>10. Sound(T) /\ T.log \in Seq(Plain)
  BY <1>3, <1>7, <1>8, <1>9, InodeWriteKeeps, ZenonT(60)
<1>. HIDE DEF T
<1>11. X \in Texts
  <2>1. text \in [Inodes -> [Positions -> 0..MaxOps]]
    BY SMTT(60) DEF IInv, Texts
  <2>2. [p \in Positions |-> IF p \in W.done THEN ops + 1 ELSE text[I][p]] \in [Positions -> 0..MaxOps]
    BY <1>3, <1>5, <2>1
  <2>. QED BY <1>3, <2>1, <2>2 DEF Texts
<1>. HIDE DEF X
<1>12. files' \in [Fds -> Handles]
  <2>1. [files[f] EXCEPT !.inode = V] \in Handles
    BY <1>2, <1>9 DEF Handles
  <2>2. files' = [files EXCEPT ![f] = [files[f] EXCEPT !.inode = V]]
    BY <1>1, <1>2
  <2>. QED BY <1>2, <2>1, <2>2
<1>13. I \in 0..NInodes /\ names \in NameSets /\ "write" \in Kinds
  BY <1>3, Numbers DEF Inodes, IInv, Kinds
<1>14. PICK i \in 0..NInodes, nm \in NameSets, tx \in Texts : i = I /\ nm = names /\ tx = X
  BY <1>11, <1>13
<1>15. PICK t : t = T
  OBVIOUS
<1>16. Begin("write", i, t, nm, tx) /\ Sound(t) /\ t.log \in Seq(Plain)
  BY <1>1, <1>10, <1>14, <1>15
<1>. QED BY <1>5, <1>12, <1>13, <1>16, BegunKeeps

\* One block write of the running call.
LEMMA WriteOneKeeps ==
    ASSUME IInv, WriteOne
    PROVE  IInv'
<1>1. todo \in Seq(Writes) /\ todo # <<>> /\ disk \in Disks
  BY DEF IInv, WriteOne
<1>2. Head(todo) \in Writes /\ Tail(todo) \in Seq(Writes)
  BY <1>1
<1>3. Head(todo).cell \in Cells /\ Head(todo).val \in Contents(Head(todo).cell)
  BY <1>2 DEF Writes
<1>4. [disk EXCEPT ![Head(todo).cell] = Head(todo).val] \in Disks
  BY <1>1, <1>3, DiskUpdate, Zenon
<1>. QED BY <1>2, <1>4 DEF IInv, WriteOne

\* The return of a call.
LEMMA ReturnKeeps ==
    ASSUME IInv, Return
    PROVE  IInv'
<1>1. op.names \in NameSets /\ op.text \in Texts
  BY DEF IInv
<1>2. NoCall(op.names, op.text) \in [kind : Kinds, ino : 0..NInodes, names : NameSets, text : Texts]
  BY <1>1, Numbers DEF NoCall, Kinds
<1>. QED BY <1>1, <1>2 DEF IInv, Return

\* What a directory lists, as names and inodes.
LEMMA ListedIn ==
    ASSUME IInv, NEW d \in Inodes
    PROVE  Listed(disk, d) \in SUBSET (Names \X Inodes)
<1> DEFINE t == [disk |-> disk]
           e == ListingOf(t, d)
<1>1. Sound(Now) /\ Now.disk = disk
  BY NowIsSound, SMTT(60)
<1>2. Intact(t, d) = Intact(Now, d) /\ ListingOf(t, d) = ListingOf(Now, d)
  BY <1>1, SMTT(60) DEF Intact, ListingOf, DirBlock
<1>3. CASE ~Intact(t, d)
  BY <1>3 DEF Listed
<1>4. CASE Intact(t, d)
  <2>1. e \in Seq(EntryType)
    BY <1>1, <1>2, <1>4, IntactListing, Zenon
  <2>2. Listed(disk, d) = {<<x.name, x.ino>> : x \in {y \in ToSet(e) : y.ino # 0 /\ y.name \notin Dots}}
    BY <1>4 DEF Listed
  <2>. HIDE DEF e
  <2>3. \A x \in ToSet(e) : x.name \in Names \cup Dots /\ x.ino \in 0..NInodes
    BY <2>1, EntryFacts DEF ToSet
  <2>4. \A x \in ToSet(e) : x.ino # 0 /\ x.name \notin Dots => x.name \in Names /\ x.ino \in Inodes
    BY <2>3, Numbers DEF Inodes
  <2>. QED BY <2>2, <2>4
<1>. QED BY <1>3, <1>4

\* A power cut and the next boot.
LEMMA CrashKeeps ==
    ASSUME IInv, Crash
    PROVE  IInv'
<1> DEFINE N == [d \in Inodes |-> Listed(disk, d)]
           X == IF op.kind = "write" THEN [text EXCEPT ![op.ino] = [p \in Positions |-> 0]] ELSE text
<1>1. /\ crashes < MaxCrashes /\ crashes' = crashes + 1 /\ log' = <<>> /\ todo' = <<>>
      /\ files' = [f \in Fds |-> Closed] /\ names' = N /\ text' = X /\ op' = NoCall(N, X)
      /\ UNCHANGED <<journal, disk, twice, ops>>
  BY DEF Crash
<1>2. N \in NameSets
  BY ListedIn DEF NameSets
<1>. HIDE DEF N
<1>3. X \in Texts
  <2>1. text \in [Inodes -> [Positions -> 0..MaxOps]]
    BY DEF IInv, Texts
  <2>2. [p \in Positions |-> 0] \in [Positions -> 0..MaxOps]
    BY Numbers
  <2>. QED BY <2>1, <2>2, Zenon DEF Texts
<1>. HIDE DEF X
<1>4. op' \in [kind : Kinds, ino : 0..NInodes, names : NameSets, text : Texts]
  BY <1>1, <1>2, <1>3, Numbers DEF NoCall, Kinds
<1>5. crashes' \in 0..MaxCrashes
  BY <1>1, Ext4Assumption DEF IInv
<1>6. files' \in [Fds -> Handles]
  BY <1>1 DEF Handles
<1>7. log' \in Seq(Plain) /\ Len(log') <= LogMax /\ todo' \in Seq(Writes)
  BY <1>1, Numbers
<1>8. names' \in NameSets /\ text' \in Texts
  BY <1>1, <1>2, <1>3
<1>. QED BY <1>1, <1>4, <1>5, <1>6, <1>7, <1>8 DEF IInv

\* The disk mkfs.ext4 made.
LEMMA FreshIsDisk ==
    ASSUME NEW used \in Images
    PROVE  FreshDisk(used) \in Disks
<1> DEFINE F == FreshDisk(used)
           gd == [freeInodes |-> NInodes - 1, freeBlocks |-> NBlocks - 1 - Cardinality(used)]
<1>1. used \subseteq 2..NBlocks
  BY Ext4Assumption
<1>2. gd \in [freeInodes : Nat, freeBlocks : Nat]
  <2>1. NBlocks - 1 \in Nat /\ NInodes - 1 \in Nat /\ NBlocks = 2 + (NBlocks - 1) - 1
    BY Ext4Assumption
  <2>2. used \in SUBSET (2 .. 2 + (NBlocks - 1) - 1)
    BY <1>1, <2>1
  <2>3. Cardinality(used) \in Nat /\ Cardinality(used) <= NBlocks - 1
    BY <2>1, <2>2, SizeAfter, Zenon
  <2>. QED BY <2>1, <2>3
<1>3. \A c \in Cells : F[c] =
        IF c = IBitmap THEN {Root}
        ELSE IF c = BBitmap THEN {1} \cup used
        ELSE IF c = Desc THEN gd
        ELSE IF c = Ino(Root) THEN RootInode
        ELSE IF c = Blk(1) THEN EmptyDir(Root, Root)
        ELSE IF c[1] = "inode" THEN NewInode("none", 0, <<>>)
        ELSE Data(Stale)
  BY ZenonT(60) DEF FreshDisk, RootInode
<1>4. F = [c \in Cells |-> F[c]]
  BY DEF FreshDisk
<1>. HIDE DEF F, gd
<1>5. {Root} \in Contents(IBitmap) /\ {1} \cup used \in Contents(BBitmap) /\ gd \in Contents(Desc)
  <2>1. {1} \cup used \in SUBSET Blocks
    BY <1>1, Numbers DEF Blocks
  <2>. QED BY <1>2, <2>1, ContentsOfCells, Numbers
<1>6. RootInode \in Contents(Ino(Root)) /\ EmptyDir(Root, Root) \in Contents(Blk(1))
  <2>1. Root \in 0..NInodes
    BY Numbers DEF Inodes
  <2>. QED BY <2>1, EmptyTiles, ContentsOfCells
<1>7. Data(Stale) \in DataBlocks
  BY Numbers DEF Data, Stale, DataBlocks
<1>8. ASSUME NEW i \in Inodes PROVE F[Ino(i)] \in Contents(Ino(i))
  <2>1. Ino(i)[1] = "inode"
    BY DEF Ino
  <2>2. CASE i = Root
    BY <1>3, <1>6, <2>2, CellsDiffer, Zenon
  <2>3. CASE i # Root
    <3>1. F[Ino(i)] = NewInode("none", 0, <<>>)
      BY <1>3, <2>1, <2>3, CellsDiffer, Numbers, Zenon
    <3>. QED BY <2>3, <3>1, NewInodes, ContentsOfCells
  <2>. QED BY <2>2, <2>3
<1>9. ASSUME NEW b \in Blocks PROVE F[Blk(b)] \in Contents(Blk(b))
  <2>1. Blk(b)[1] = "block" /\ "block" # "inode"
    BY DEF Blk
  <2>2. CASE b = 1
    BY <1>3, <1>6, <2>2, CellsDiffer, Numbers, Zenon
  <2>3. CASE b # 1
    <3>1. F[Blk(b)] = Data(Stale)
      BY <1>3, <2>1, <2>3, CellsDiffer, Numbers, Zenon
    <3>. QED BY <1>7, <2>3, <3>1, ContentsOfCells
  <2>. QED BY <2>2, <2>3
<1>10. F[IBitmap] \in Contents(IBitmap) /\ F[BBitmap] \in Contents(BBitmap) /\ F[Desc] \in Contents(Desc)
  BY <1>3, <1>5, CellsDiffer, Zenon
<1>11. \A c \in Cells : F[c] \in Contents(c)
  BY <1>8, <1>9, <1>10 DEF Cells
<1>12. \A c \in Cells : F[c] \in Vals
  BY <1>11 DEF Vals
<1>. QED BY <1>4, <1>11, <1>12 DEF Disks, F

\* The first state.
LEMMA InitIsSound == Init => IInv
<1>1. SUFFICES ASSUME Init PROVE IInv
  OBVIOUS
<1>2. disk \in Disks
  BY <1>1, FreshIsDisk DEF Init
<1>3. names \in NameSets /\ text \in Texts
  BY <1>1, Numbers DEF Init, NameSets, Texts
<1>4. op \in [kind : Kinds, ino : 0..NInodes, names : NameSets, text : Texts]
  BY <1>1, <1>3, Numbers DEF Init, NoCall, Kinds
<1>5. files \in [Fds -> Handles]
  BY <1>1 DEF Init, Handles
<1>6. log \in Seq(Plain) /\ Len(log) <= LogMax /\ todo \in Seq(Writes)
  BY <1>1, Numbers DEF Init
<1>7. ops \in 0..MaxOps /\ crashes \in 0..MaxCrashes
  BY <1>1, Ext4Assumption DEF Init
<1>. QED BY <1>1, <1>2, <1>3, <1>4, <1>5, <1>6, <1>7 DEF IInv, Init

\* Every step of the driver keeps the invariant.
LEMMA StepIsSound == IInv /\ [Next]_vars => IInv'
<1>1. SUFFICES ASSUME IInv, [Next]_vars PROVE IInv'
  OBVIOUS
<1>2. CASE \E path \in Paths, n \in Names :
             Create(path, n) \/ Mkdir(path, n) \/ \E f \in Fds : Open(f, path, n)
  BY <1>1, <1>2, CreateKeeps, MkdirKeeps, OpenKeeps
<1>3. CASE \E path \in Paths, n \in Names \cup Dots : Unlink(path, n)
  BY <1>1, <1>3, UnlinkKeeps
<1>4. CASE \E f \in Fds : Close(f) \/ \E off \in Positions, n \in WriteLens : Write(f, off, n)
  BY <1>1, <1>4, CloseKeeps, WriteCallKeeps
<1>5. CASE WriteOne \/ Return \/ Crash
  BY <1>1, <1>5, WriteOneKeeps, ReturnKeeps, CrashKeeps
<1>6. CASE UNCHANGED vars
  BY <1>1, <1>6 DEF vars, IInv
<1>. QED BY <1>1, <1>2, <1>3, <1>4, <1>5, <1>6 DEF Next

\* What a cell holds satisfies the type invariant.
LEMMA ContentsAreOK ==
    ASSUME NEW c \in Cells, NEW v \in Contents(c)
    PROVE  ContentOK(c, v)
<1>1. DataBlocks \subseteq {x \in DataBlocks : x.kind = "data" /\ x.at \in [1..PerBlock -> 0..MaxOps]}
  BY DEF DataBlocks
<1>2. DirBlocks \subseteq {x \in DirBlocks : x.kind = "dir" /\ x.at \in Seq(EntryType)}
  BY DEF DirBlocks
<1>3. CASE c \in {IBitmap, BBitmap, Desc}
  <2>. IBitmap[1] # "inode" /\ BBitmap[1] # "inode" /\ Desc[1] # "inode"
    BY DEF IBitmap, BBitmap, Desc
  <2>1. CASE c = IBitmap
    <3>1. v \subseteq Inodes
      BY <2>1, ContentsOfCells
    <3>. QED BY <2>1, <3>1, CellsDiffer DEF ContentOK
  <2>2. CASE c = BBitmap
    <3>1. v \subseteq Blocks
      BY <2>2, ContentsOfCells
    <3>. QED BY <2>2, <3>1, CellsDiffer DEF ContentOK
  <2>3. CASE c = Desc
    <3>1. v \in [freeInodes : Nat, freeBlocks : Nat]
      BY <2>3, ContentsOfCells
    <3>. QED BY <2>3, <3>1, CellsDiffer DEF ContentOK
  <2>. QED BY <1>3, <2>1, <2>2, <2>3
<1>4. ASSUME NEW i \in Inodes, c = Ino(i) PROVE ContentOK(c, v)
  <2>1. c[1] = "inode" /\ c # IBitmap /\ c # BBitmap /\ c # Desc
    BY <1>4, CellsDiffer DEF Ino
  <2>2. v \in InodeType /\ Len(v.ext) <= EhMax
    <3>1. CASE i = Root
      <4>1. v = RootInode
        BY <1>4, <3>1, ContentsOfCells
      <4>2. PerBlock \in Nat /\ FileParts \in Nat /\ 1 \in Blocks /\ EhMax >= 1
        BY Numbers
      <4>3. Extent(0, 1) \in ExtentType
        BY <4>2 DEF Extent, ExtentType
      <4>4. RootInode.ext = <<Extent(0, 1)>> /\ RootInode.size = PerBlock /\ RootInode.type = "dir"
            /\ RootInode = [type |-> RootInode.type, size |-> RootInode.size, ext |-> RootInode.ext]
        BY DEF RootInode, NewInode
      <4>5. RootInode.ext \in Seq(ExtentType) /\ Len(RootInode.ext) = 1
        BY <4>3, <4>4
      <4>6. RootInode.size \in 0 .. FileParts + PerBlock
        BY <4>2, <4>4
      <4>. QED BY <4>1, <4>2, <4>4, <4>5, <4>6, Zenon DEF InodeType, ExtentType
    <3>2. CASE i # Root
      BY <1>4, <3>2, ContentsOfCells DEF FileInodes
    <3>. QED BY <3>1, <3>2
  <2>. QED BY <2>1, <2>2 DEF ContentOK
<1>5. ASSUME NEW b \in Blocks, c = Blk(b) PROVE ContentOK(c, v)
  <2>1. c[1] # "inode" /\ c # IBitmap /\ c # BBitmap /\ c # Desc
    BY <1>5, CellsDiffer DEF Blk
  <2>2. v \in DataBlocks \cup DirBlocks
    BY <1>5, ContentsOfCells
  <2>3. \/ v.kind = "data" /\ v.at \in [1..PerBlock -> 0..MaxOps]
        \/ v.kind = "dir" /\ v.at \in Seq(EntryType)
    BY <1>1, <1>2, <2>2
  <2>. QED BY <2>1, <2>3 DEF ContentOK
<1>. QED BY <1>3, <1>4, <1>5 DEF Cells

\* What the invariant says of the types and of the listings.
LEMMA InvariantImplies == IInv => TypeOK /\ EntriesTileTheBlock
<1>1. SUFFICES ASSUME IInv PROVE TypeOK /\ EntriesTileTheBlock
  OBVIOUS
<1>2. DOMAIN disk = Cells /\ \A c \in Cells : disk[c] \in Contents(c)
  BY <1>1 DEF IInv, Disks
<1>3. \A c \in Cells : ContentOK(c, disk[c])
  BY <1>2, ContentsAreOK
<1>4. \A q \in {log, todo} : \A k \in DOMAIN q : q[k].cell \in Cells /\ ContentOK(q[k].cell, q[k].val)
  <2>1. log \in Seq(Writes) /\ todo \in Seq(Writes)
    <3>1. Plain \subseteq Writes
      BY DEF Plain, Logged
    <3>. QED BY <1>1, <3>1 DEF IInv
  <2>2. \A w \in Writes : w.cell \in Cells /\ w.val \in Contents(w.cell)
    BY DEF Writes
  <2>3. \A w \in Writes : w.cell \in Cells /\ ContentOK(w.cell, w.val)
    BY <2>2, ContentsAreOK
  <2>4. \A q \in {log, todo} : \A k \in DOMAIN q : q[k] \in Writes
    BY <2>1, SMTT(60)
  <2>. QED BY <2>3, <2>4
<1>5. files \in [Fds -> [ino : 0..NInodes, inode : InodeType]]
  <2>1. Closed \in [ino : 0..NInodes, inode : InodeType]
    BY NewInodes, Numbers DEF Closed, FileInodes
  <2>2. [ino : Inodes \ {Root}, inode : FileInodes] \subseteq [ino : 0..NInodes, inode : InodeType]
    BY Numbers DEF Inodes, FileInodes
  <2>. QED BY <1>1, <2>1, <2>2 DEF IInv, Handles
<1>6. op.kind \in {"none", "create", "mkdir", "unlink", "write"} /\ op.ino \in 0..NInodes
  BY <1>1, SMTT(60) DEF IInv, Kinds
<1>7. TypeOK
  BY <1>1, <1>2, <1>3, <1>4, <1>5, <1>6 DEF TypeOK, IInv, NameSets, Texts
<1>8. EntriesTileTheBlock
  <2>1. ASSUME NEW b \in Blocks, disk[Blk(b)].kind = "dir" PROVE Tiles(disk[Blk(b)].at)
    <3>1. disk[Blk(b)] \in DataBlocks \cup DirBlocks
      BY <1>2, CellsDiffer, ContentsOfCells, ZenonT(60)
    <3>2. disk[Blk(b)] \notin DataBlocks
      BY <2>1, ZenonT(60) DEF DataBlocks
    <3>. QED BY <3>1, <3>2 DEF DirBlocks
  <2>. QED BY <2>1 DEF EntriesTileTheBlock
<1>. QED BY <1>7, <1>8

\* With and without a journal, and wherever the power is cut, every cell of the disk holds
\* what its kind of block holds: no count of the group descriptor goes below zero, no inode
\* has more extents than its i_block area holds, and log_block never fills the array of the
\* transaction beyond MAX_TRANS_BLOCKS.
THEOREM CellsKeepTheirKind == Spec => []TypeOK
  BY InitIsSound, StepIsSound, InvariantImplies, PTL DEF Spec

\* The entries of every directory block tile it, whatever create, mkdir and unlink did, and
\* wherever the power is cut.
THEOREM DirectoriesAreTiled == Spec => []EntriesTileTheBlock
  BY InitIsSound, StepIsSound, InvariantImplies, PTL DEF Spec
=============================================================================
