-------------------------------- MODULE Ext4 --------------------------------
(***************************************************************************)
(* The ext4 driver (fs/ext4_vfs.cpp) and its journal (fs/ext4_journal.cpp). *)
(*                                                                         *)
(* A call runs alone: the shell waits for the program it started, and no   *)
(* interrupt handler touches the file system.  What interleaves with a     *)
(* call is a power cut.  So an action for a call computes, from the disk   *)
(* as it stands, the block writes the call makes, in their order; WriteOne *)
(* carries them out one at a time, and Crash may strike between any two.   *)
(*                                                                         *)
(* The disk is a function from cells to contents.  A cell is the unit the  *)
(* code writes: the two bitmaps and the descriptor of the (only) group,    *)
(* an inode of the inode table, and the data blocks.  The blocks of the    *)
(* journal itself are left out: no code ever reads them.                   *)
(*                                                                         *)
(* All code reads the disk and never the open transaction, so while the    *)
(* disk has a journal a call does not see what earlier calls only logged.  *)
(***************************************************************************)
EXTENDS Integers, Sequences, FiniteSets, Lists

CONSTANTS
    Names,      \* names of files and directories
    NameSize,   \* size of the directory entry of a name, padded
    DotSize,    \* size of the entries "." and ".."
    DirSize,    \* size of a directory block
    NInodes,    \* inodes of the group; number 1 is the root directory
    NBlocks,    \* blocks of the group; block 1 is the root directory's
    Images,     \* the sets of blocks that the files of a disk image may occupy
    PerBlock,   \* parts of a data block that a write tells apart
    EhMax,      \* eh_max: extents that fit in an inode
    LogMax,     \* MAX_TRANS_BLOCKS
    MaxDepth,   \* bound on the depth of a directory
    Fds,        \* files that may be open at a time
    FileParts,  \* bound on the parts of a file
    WriteLens,  \* lengths of a write, in parts
    MaxOps,     \* bound on the calls that write
    MaxCrashes  \* bound on the power cuts

ASSUME Ext4Assumption ==
    /\ NameSize \in [Names -> 1..DirSize] /\ DotSize \in 1..DirSize
    /\ 2 * DotSize <= DirSize
    /\ {NInodes, NBlocks, PerBlock, EhMax, LogMax} \subseteq Nat \ {0}
    /\ \A used \in Images : used \subseteq 2..NBlocks
    /\ WriteLens \subseteq 1..FileParts
    /\ {DirSize, FileParts, MaxDepth, MaxOps, MaxCrashes} \subseteq Nat

VARIABLES
    journal,    \* sb.s_journal_inum # 0
    disk,       \* the contents of every cell
    log,        \* current_trans: the block images of the open transaction
    files,      \* the Ext4File behind each descriptor: number and cached inode
    todo,       \* the block writes the running call has still to make
    op,         \* the running call, and what it will have done when it returns
    names,      \* history: the entries the calls that returned have left
    text,       \* history: what was last written to each part of each file
    twice,      \* history: files that were open twice at a time
    ops, crashes

vars == <<journal, disk, log, files, todo, op, names, text, twice, ops, crashes>>

Root == 1
Inodes == 1..NInodes
Blocks == 1..NBlocks
Dots == {".", ".."}
Paths == UNION {[1..k -> Names] : k \in 0..MaxDepth}
Positions == 0 .. FileParts - 1

IBitmap == <<"inode bitmap", 0>>
BBitmap == <<"block bitmap", 0>>
Desc == <<"group desc", 0>>
Ino(i) == <<"inode", i>>
Blk(b) == <<"block", b>>
Cells == {IBitmap, BBitmap, Desc} \cup {Ino(i) : i \in Inodes} \cup {Blk(b) : b \in Blocks}

SizeOf(name) == IF name \in Dots THEN DotSize ELSE NameSize[name]
Entry(i, name, rec, type) == [ino |-> i, name |-> name, rec |-> rec, type |-> type]
Data(parts) == [kind |-> "data", at |-> parts]
Listing(entries) == [kind |-> "dir", at |-> entries]
Stale == [k \in 1..PerBlock |-> 0]      \* bytes that no write of this file made
PartsOf(content) == IF content.kind = "data" THEN content.at ELSE Stale

EmptyDir(i, parent) ==
    Listing(<<Entry(i, ".", DotSize, "dir"), Entry(parent, "..", DirSize - DotSize, "dir")>>)
NewInode(type, size, ext) == [type |-> type, size |-> size, ext |-> ext]
Extent(l, b) == [block |-> l, start |-> b, len |-> 1]
-----------------------------------------------------------------------------
(***************************************************************************)
(* Block writes.  t is the file system inside a call: the disk, the open   *)
(* transaction and the writes made so far.                                 *)
(***************************************************************************)
Now == [disk |-> disk, log |-> log, out |-> <<>>]

WriteBlock(t, c, v) ==
    [disk |-> [t.disk EXCEPT ![c] = v], log |-> t.log, out |-> Append(t.out, [cell |-> c, val |-> v])]

\* write_inode never goes through the journal.
WriteInode(t, i, inode) == WriteBlock(t, Ino(i), inode)

\* JBD2::commit_transaction then start_transaction: every image goes home, in order.
Commit(t) ==
    LET images(c) == {k \in DOMAIN t.log : t.log[k].cell = c}
    IN  [disk |-> [c \in Cells |-> IF images(c) = {} THEN t.disk[c] ELSE t.log[Max(images(c))].val],
         log |-> <<>>, out |-> t.out \o t.log]

\* JBD2::log_block
LogBlock(t, c, v) ==
    LET u == IF Len(t.log) >= LogMax THEN Commit(t) ELSE t
    IN  [disk |-> u.disk, log |-> Append(u.log, [cell |-> c, val |-> v]), out |-> u.out]

JournalWriteBlock(t, c, v) == IF journal THEN LogBlock(t, c, v) ELSE WriteBlock(t, c, v)

CommitIfJournal(t) == IF journal THEN Commit(t) ELSE t
-----------------------------------------------------------------------------
(***************************************************************************)
(* Allocation: the lowest clear bit of the bitmap on the disk, if the      *)
(* count in the descriptor on the disk is positive.  "got" is 0 on failure.*)
(***************************************************************************)
AllocateInode(t) ==
    LET gd == t.disk[Desc]
        clear == Inodes \ t.disk[IBitmap]
        i == Min(clear)
    IN  IF gd.freeInodes = 0 \/ clear = {} THEN [got |-> 0, fs |-> t]
        ELSE [got |-> i,
              fs |-> JournalWriteBlock(JournalWriteBlock(t, IBitmap, t.disk[IBitmap] \cup {i}),
                                       Desc, [gd EXCEPT !.freeInodes = @ - 1])]

AllocateBlock_NoMark(t) ==
    LET gd == t.disk[Desc]
        clear == Blocks \ t.disk[BBitmap]
    IN  IF gd.freeBlocks = 0 \/ clear = {} THEN [got |-> 0, fs |-> t]
        ELSE [got |-> Min(clear), fs |-> JournalWriteBlock(t, Desc, [gd EXCEPT !.freeBlocks = @ - 1])]

AllocateBlock(t) ==
    LET gd == t.disk[Desc]
        clear == Blocks \ t.disk[BBitmap]
        b == Min(clear)
    IN  IF gd.freeBlocks = 0 \/ clear = {} THEN [got |-> 0, fs |-> t]
        ELSE [got |-> b,
              fs |-> JournalWriteBlock(JournalWriteBlock(t, BBitmap, t.disk[BBitmap] \cup {b}),
                                       Desc, [gd EXCEPT !.freeBlocks = @ - 1])]

\* The descriptor is read only after the bitmap has been written (or logged).
FreeBlock(t, b) ==
    LET u == JournalWriteBlock(t, BBitmap, t.disk[BBitmap] \ {b})
    IN  JournalWriteBlock(u, Desc, [u.disk[Desc] EXCEPT !.freeBlocks = @ + 1])

\* extent_get_block: the physical block of logical block l, 0 in a hole.  The tree has
\* depth 0, the only depth this driver writes.
ExtentGetBlock(inode, l) ==
    LET covers(e) == e.block <= l /\ l < e.block + e.len
        k == SelectInSeq(inode.ext, covers)
    IN  IF k = 0 THEN 0 ELSE inode.ext[k].start + (l - inode.ext[k].block)

\* extent_allocate_blocks for one block; ee_len stays far below its limit of 32768.
ExtentAllocate(t, inode, l) ==
    LET n == Len(inode.ext)
        follows == n > 0 /\ l = inode.ext[n].block + inode.ext[n].len
        a == AllocateBlock(t)
        fail(fs) == [ok |-> FALSE, fs |-> fs, inode |-> inode]
        extended(ext) == [ok |-> TRUE, fs |-> a.fs, inode |-> [inode EXCEPT !.ext = ext]]
    IN  IF ~follows /\ n >= EhMax THEN fail(t)
        ELSE IF a.got = 0 THEN fail(t)
        ELSE IF follows /\ a.got = inode.ext[n].start + inode.ext[n].len
             THEN extended([inode.ext EXCEPT ![n].len = @ + 1])
        ELSE IF n >= EhMax THEN fail(FreeBlock(a.fs, a.got))
        ELSE extended(Append(inode.ext, Extent(l, a.got)))
-----------------------------------------------------------------------------
(***************************************************************************)
(* Directory blocks: entries that tile the block, the free space being the *)
(* unused tail of an entry.                                                *)
(***************************************************************************)
DirBlock(t, d) == ExtentGetBlock(t.disk[Ino(d)], 0)
ListingOf(t, d) == t.disk[Blk(DirBlock(t, d))].at

\* find_free_entry_space: the first entry with room behind it, 0 if there is none.
FindFreeEntrySpace(entries, need) ==
    SelectInSeq(entries, LAMBDA e : e.rec >= SizeOf(e.name) + need)

AddEntry_NoShrink(entries, k, i, name, type) ==
    LET used == SizeOf(entries[k].name)
    IN  InsertAt(entries, k + 1, Entry(i, name, entries[k].rec - used, type))

AddEntry(entries, k, i, name, type) ==
    LET used == SizeOf(entries[k].name)
    IN  InsertAt([entries EXCEPT ![k].rec = used], k + 1,
                 Entry(i, name, entries[k].rec - used, type))

\* finddir and unlink: the first live entry of that name, 0 if there is none.
FindEntry(entries, name) == SelectInSeq(entries, LAMBDA e : e.ino # 0 /\ e.name = name)

RemoveEntry_CountsTwice(entries, k) ==
    IF k > 1 THEN RemoveAt([entries EXCEPT ![k - 1].rec = @ + 2 * entries[k].rec], k)
    ELSE [entries EXCEPT ![k].ino = 0]

RemoveEntry(entries, k) ==
    IF k > 1 THEN RemoveAt([entries EXCEPT ![k - 1].rec = @ + entries[k].rec], k)
    ELSE [entries EXCEPT ![k].ino = 0]

\* A directory whose block holds entries.  The calls take no other: on a disk with a journal
\* a file may have overwritten the block, before the call or when a full transaction is
\* committed inside it, and then finddir walks over arbitrary bytes.
Intact(t, d) ==
    /\ t.disk[Ino(d)].type = "dir" /\ DirBlock(t, d) # 0
    /\ t.disk[Blk(DirBlock(t, d))].kind = "dir"

Found(d, n) ==
    LET k == FindEntry(ListingOf(Now, d), n)
    IN  IF k = 0 THEN 0 ELSE ListingOf(Now, d)[k].ino

\* vfs_open: finddir from the root along the path; 0 if it leads to no directory.
Resolve(path) ==
    LET Into(d, n) == LET i == IF d = 0 THEN 0 ELSE Found(d, n)
                      IN  IF i # 0 /\ Intact(Now, i) THEN i ELSE 0
        at[k \in 0 .. Len(path)] == IF k = 0 THEN Root ELSE Into(at[k - 1], path[k])
    IN  at[Len(path)]

\* The pairs of name and inode that directory d lists.
Listed(dsk, d) ==
    LET t == [disk |-> dsk]
    IN  IF ~Intact(t, d) THEN {}
        ELSE {<<e.name, e.ino>> : e \in {x \in ToSet(ListingOf(t, d)) : x.ino # 0 /\ x.name \notin Dots}}
-----------------------------------------------------------------------------
(***************************************************************************)
(* The calls.  Each returns early, and changes nothing, where its guard    *)
(* fails: no room in the directory, no free inode, no such name.           *)
(***************************************************************************)
Idle == op.kind = "none"
NoCall(nm, tx) == [kind |-> "none", ino |-> 0, names |-> nm, text |-> tx]

Begin(kind, i, t, nm, tx) ==
    /\ op' = [kind |-> kind, ino |-> i, names |-> nm, text |-> tx]
    /\ todo' = t.out /\ log' = t.log
    /\ ops' = ops + 1
    /\ UNCHANGED <<journal, disk, names, text, twice, crashes>>

May == Idle /\ ops < MaxOps

\* Ext4Directory::create
Create_EntryFirst(path, n) ==
    LET d == Resolve(path)
        k == FindFreeEntrySpace(ListingOf(Now, d), SizeOf(n))
        a == AllocateInode(Now)
        t1 == JournalWriteBlock(a.fs, Blk(DirBlock(a.fs, d)),
                                Listing(AddEntry(ListingOf(a.fs, d), k, a.got, n, "file")))
        t2 == WriteInode(t1, a.got, NewInode("file", 0, <<>>))
    IN  /\ May /\ d # 0 /\ k # 0 /\ a.got # 0 /\ Intact(t1, d)
        /\ Begin("create", a.got, CommitIfJournal(t2),
                 [names EXCEPT ![d] = @ \cup {<<n, a.got>>}], text)
        /\ UNCHANGED files

Create(path, n) ==
    LET d == Resolve(path)
        k == FindFreeEntrySpace(ListingOf(Now, d), SizeOf(n))
        a == AllocateInode(Now)
        t1 == WriteInode(a.fs, a.got, NewInode("file", 0, <<>>))
        t2 == JournalWriteBlock(t1, Blk(DirBlock(t1, d)),
                                Listing(AddEntry(ListingOf(t1, d), k, a.got, n, "file")))
    IN  /\ May /\ d # 0 /\ k # 0 /\ a.got # 0 /\ Intact(t1, d)
        /\ Begin("create", a.got, CommitIfJournal(t2),
                 [names EXCEPT ![d] = @ \cup {<<n, a.got>>}], text)
        /\ UNCHANGED files

\* Ext4Directory::mkdir: without a free block it returns -1 and keeps the inode; without
\* room in the parent it adds no entry, and still succeeds.
Mkdir(path, n) ==
    LET d == Resolve(path)
        a == AllocateInode(Now)
        b == AllocateBlock(a.fs)
        t1 == WriteInode(b.fs, a.got, NewInode("dir", PerBlock, <<Extent(0, b.got)>>))
        t2 == WriteBlock(t1, Blk(b.got), EmptyDir(a.got, d))
        k == FindFreeEntrySpace(ListingOf(t2, d), SizeOf(n))
        t3 == JournalWriteBlock(t2, Blk(DirBlock(t2, d)),
                                Listing(AddEntry(ListingOf(t2, d), k, a.got, n, "dir")))
    IN  /\ May /\ d # 0 /\ a.got # 0
        /\ \/ b.got = 0 /\ Begin("mkdir", a.got, a.fs, names, text)
           \/ /\ b.got # 0 /\ Intact(t2, d)
              /\ \/ k = 0 /\ Begin("mkdir", a.got, CommitIfJournal(t2), names, text)
                 \/ k # 0 /\ Begin("mkdir", a.got, CommitIfJournal(t3),
                                   [names EXCEPT ![d] = @ \cup {<<n, a.got>>}], text)
        /\ UNCHANGED files

Unlink_NoCommit(path, n) ==
    LET d == Resolve(path)
        was == ListingOf(Now, d)
        k == FindEntry(was, n)
        t == JournalWriteBlock(Now, Blk(DirBlock(Now, d)), Listing(RemoveEntry(was, k)))
    IN  /\ May /\ d # 0 /\ k # 0
        /\ Begin("unlink", was[k].ino, t, [names EXCEPT ![d] = @ \ {<<n, was[k].ino>>}], text)
        /\ UNCHANGED files

\* Ext4Directory::unlink: neither the inode nor its blocks are freed.
Unlink(path, n) ==
    LET d == Resolve(path)
        was == ListingOf(Now, d)
        k == FindEntry(was, n)
        t == JournalWriteBlock(Now, Blk(DirBlock(Now, d)), Listing(RemoveEntry(was, k)))
    IN  /\ May /\ d # 0 /\ k # 0
        /\ Begin("unlink", was[k].ino, CommitIfJournal(t),
                 [names EXCEPT ![d] = @ \ {<<n, was[k].ino>>}], text)
        /\ UNCHANGED files

Closed == [ino |-> 0, inode |-> NewInode("none", 0, <<>>)]

\* finddir and the constructor of Ext4File: the inode is read once and cached.
Open(f, path, n) ==
    LET d == Resolve(path)
        i == Found(d, n)
    IN  /\ May /\ files[f] = Closed /\ d # 0
        /\ i # 0 /\ disk[Ino(i)].type # "dir"
        /\ files' = [files EXCEPT ![f] = [ino |-> i, inode |-> disk[Ino(i)]]]
        /\ twice' = twice \cup {j \in {i} : \E g \in Fds : files[g].ino = j}
        /\ UNCHANGED <<journal, disk, log, todo, op, names, text, ops, crashes>>

\* Ext4File::close deletes the object; nothing is committed.
Close(f) ==
    /\ Idle /\ files[f] # Closed
    /\ files' = [files EXCEPT ![f] = Closed]
    /\ UNCHANGED <<journal, disk, log, todo, op, names, text, twice, ops, crashes>>

WriteInBlock_NoRead(t, b, l, mine, v) ==
    JournalWriteBlock(t, Blk(b), Data([k \in 1..PerBlock |->
        IF l * PerBlock + k - 1 \in mine THEN v ELSE 0]))

\* The body of the loop of Ext4File::write, once the block is known: read, modify, write.
WriteInBlock(t, b, l, mine, v) ==
    LET old == PartsOf(t.disk[Blk(b)])
    IN  JournalWriteBlock(t, Blk(b), Data([k \in 1..PerBlock |->
            IF l * PerBlock + k - 1 \in mine THEN v ELSE old[k]]))

\* One round of the loop of Ext4File::write, for logical block l of positions off .. off + n - 1.
WriteStep(w, l, off, n, v) ==
    LET g == IF ExtentGetBlock(w.inode, l) # 0
             THEN [ok |-> TRUE, fs |-> w.fs, inode |-> w.inode]
             ELSE ExtentAllocate(w.fs, w.inode, l)
        mine == {p \in off .. off + n - 1 : p \div PerBlock = l}
    IN  IF w.stop THEN w
        ELSE IF ~g.ok THEN [w EXCEPT !.stop = TRUE, !.fs = g.fs]
        ELSE [stop |-> FALSE, inode |-> g.inode,
              fs |-> WriteInBlock(g.fs, ExtentGetBlock(g.inode, l), l, mine, v),
              done |-> w.done \cup mine]

WriteLoop(inode, off, n, v) ==
    LET first == off \div PerBlock
        final == (off + n - 1) \div PerBlock
        after[k \in 0 .. final - first + 1] ==
            IF k = 0 THEN [stop |-> FALSE, inode |-> inode, fs |-> Now, done |-> {}]
            ELSE WriteStep(after[k - 1], first + k - 1, off, n, v)
    IN  after[final - first + 1]

\* Ext4File::write: the cached inode goes to the disk at once, whatever was only logged.
Write(f, off, n) ==
    LET i == files[f].ino
        w == WriteLoop(files[f].inode, off, n, ops + 1)
        end == off + Cardinality(w.done)
        inode == [w.inode EXCEPT !.size = IF end > @ THEN end ELSE @]
    IN  /\ May /\ files[f] # Closed
        /\ off <= files[f].inode.size /\ off + n <= FileParts
        /\ files' = [files EXCEPT ![f].inode = inode]
        /\ Begin("write", i, WriteInode(w.fs, i, inode), names,
                 [text EXCEPT ![i] = [p \in Positions |-> IF p \in w.done THEN ops + 1 ELSE @[p]]])

WriteOne ==
    /\ todo # <<>>
    /\ disk' = [disk EXCEPT ![Head(todo).cell] = Head(todo).val]
    /\ todo' = Tail(todo)
    /\ UNCHANGED <<journal, log, files, op, names, text, twice, ops, crashes>>

Return ==
    /\ ~Idle /\ todo = <<>>
    /\ names' = op.names /\ text' = op.text /\ op' = NoCall(op.names, op.text)
    /\ UNCHANGED <<journal, disk, log, files, todo, twice, ops, crashes>>

\* A power cut and the next boot: Ext4Manager::init starts an empty transaction and
\* replays nothing.  What an interrupted write left in its file is not promised.
Crash ==
    LET nm == [d \in Inodes |-> Listed(disk, d)]
        tx == IF op.kind = "write" THEN [text EXCEPT ![op.ino] = [p \in Positions |-> 0]] ELSE text
    IN  /\ crashes < MaxCrashes
        /\ crashes' = crashes + 1
        /\ log' = <<>> /\ todo' = <<>>
        /\ files' = [f \in Fds |-> Closed]
        /\ names' = nm /\ text' = tx /\ op' = NoCall(nm, tx)
        /\ UNCHANGED <<journal, disk, twice, ops>>

\* The disk mkfs.ext4 made: an empty root directory, and blocks that are in use for good.
FreshDisk(used) ==
    [c \in Cells |->
        IF c = IBitmap THEN {Root}
        ELSE IF c = BBitmap THEN {1} \cup used
        ELSE IF c = Desc THEN [freeInodes |-> NInodes - 1, freeBlocks |-> NBlocks - 1 - Cardinality(used)]
        ELSE IF c = Ino(Root) THEN NewInode("dir", PerBlock, <<Extent(0, 1)>>)
        ELSE IF c = Blk(1) THEN EmptyDir(Root, Root)
        ELSE IF c[1] = "inode" THEN NewInode("none", 0, <<>>)
        ELSE Data(Stale)]

Init ==
    /\ journal \in BOOLEAN
    /\ \E used \in Images : disk = FreshDisk(used)
    /\ log = <<>> /\ todo = <<>>
    /\ files = [f \in Fds |-> Closed]
    /\ names = [d \in Inodes |-> {}]
    /\ text = [i \in Inodes |-> [p \in Positions |-> 0]]
    /\ op = NoCall(names, text)
    /\ twice = {} /\ ops = 0 /\ crashes = 0

Next ==
    \/ \E path \in Paths, n \in Names :
          Create(path, n) \/ Mkdir(path, n) \/ \E f \in Fds : Open(f, path, n)
    \/ \E path \in Paths, n \in Names \cup Dots : Unlink(path, n)
    \/ \E f \in Fds : Close(f) \/ \E off \in Positions, n \in WriteLens : Write(f, off, n)
    \/ WriteOne \/ Return \/ Crash

Spec == Init /\ [][Next]_vars
-----------------------------------------------------------------------------
EntryType ==
    [ino : 0..NInodes, name : Names \cup Dots, rec : 0..DirSize, type : {"file", "dir"}]
InodeType == [type : {"none", "file", "dir"}, size : 0..FileParts + PerBlock,
              ext : Seq([block : Nat, start : Blocks, len : Nat \ {0}])]
ContentOK(c, v) ==
    CASE c = IBitmap -> v \subseteq Inodes
      [] c = BBitmap -> v \subseteq Blocks
      [] c = Desc -> v \in [freeInodes : Nat, freeBlocks : Nat]
      [] c[1] = "inode" -> v \in InodeType /\ Len(v.ext) <= EhMax
      [] OTHER -> \/ v.kind = "data" /\ v.at \in [1..PerBlock -> 0..MaxOps]
                  \/ v.kind = "dir" /\ v.at \in Seq(EntryType)

\* Every cell holds what its kind of block holds, a count is never negative, no inode has
\* more extents than its i_block area holds, and the open transaction never has more than
\* MAX_TRANS_BLOCKS images.
TypeOK ==
    /\ journal \in BOOLEAN
    /\ DOMAIN disk = Cells /\ \A c \in Cells : ContentOK(c, disk[c])
    /\ \A q \in {log, todo} : \A k \in DOMAIN q : q[k].cell \in Cells /\ ContentOK(q[k].cell, q[k].val)
    /\ Len(log) <= LogMax
    /\ files \in [Fds -> [ino : 0..NInodes, inode : InodeType]]
    /\ names \in [Inodes -> SUBSET (Names \X Inodes)] /\ twice \subseteq Inodes
    /\ text \in [Inodes -> [Positions -> 0..MaxOps]]
    /\ op.kind \in {"none", "create", "mkdir", "unlink", "write"} /\ op.ino \in 0..NInodes
    /\ ops \in 0..MaxOps /\ crashes \in 0..MaxCrashes

\* Whenever the power is cut, with or without a journal, a live directory entry names an
\* inode that is marked in the bitmap, has been written, and is of the entry's kind:
\* create and mkdir write the inode before the entry, and log the bitmap before both.
EntriesNameInodes ==
    \A d \in Inodes : Intact(Now, d) =>
        \A e \in ToSet(ListingOf(Now, d)) :
            e.ino # 0 /\ e.name \notin Dots =>
                e.ino \in disk[IBitmap] /\ disk[Ino(e.ino)].type = e.type

\* The entries fill a block of DirSize bytes and each has room for its name.
Tiles(entries) ==
    LET end[k \in 0 .. Len(entries)] == IF k = 0 THEN 0 ELSE end[k - 1] + entries[k].rec
    IN  /\ end[Len(entries)] = DirSize
        /\ \A e \in ToSet(entries) : e.rec >= SizeOf(e.name)

\* However entries are added to and removed from a directory block, they tile it exactly and
\* each is long enough for its name, so that the walks of finddir and unlink end at the end
\* of the block.
EntriesTileTheBlock ==
    \A b \in Blocks : disk[Blk(b)].kind = "dir" => Tiles(disk[Blk(b)].at)

\* A directory on the disk lists what the calls that returned left there or, while a call
\* runs, also its entry: a create, mkdir or unlink that returned survives a power cut, and
\* one that is interrupted has changed its directory as a whole or not at all.  With a
\* journal this is said of the root directory only: see PlainBlocksHaveOneOwner.
DirectoriesFollowCalls ==
    \A d \in IF journal THEN {Root} ELSE Inodes :
        Listed(disk, d) \in {names[d], op.names[d]}

\* The blocks that inode i of the disk refers to, as pairs of logical and physical block.
Mapped(i) ==
    UNION {{<<e.block + k, e.start + k>> : k \in 0 .. e.len - 1} : e \in ToSet(disk[Ino(i)].ext)}

CountsMatchBitmaps ==
    /\ disk[Desc].freeBlocks = Cardinality(Blocks \ disk[BBitmap])
    /\ disk[Desc].freeInodes = Cardinality(Inodes \ disk[IBitmap])

BlocksHaveOneOwner ==
    \A i, j \in Inodes : \A x \in Mapped(i), y \in Mapped(j) :
        /\ x[2] \in disk[BBitmap]
        /\ x[2] = y[2] => i = j /\ x = y

\* On a disk without a journal a block belongs to one place of one file or directory, and is
\* marked in the bitmap, at every moment at which the power may be cut: allocate_block writes
\* the bitmap before the inode refers to the block.  On a disk with a journal it does not hold:
\* allocate_block reads the bitmap on the disk, where the blocks of the open transaction are
\* still free.  Until the power is cut the counts of the group descriptor, which
\* allocate_block and allocate_inode trust, are the numbers of clear bits.
PlainBlocksHaveOneOwner ==
    ~journal => BlocksHaveOneOwner /\ (Idle /\ crashes = 0 => CountsMatchBitmaps)

\* Ext4File::read of one position of a freshly opened file.
ReadAt(i, p) ==
    LET inode == disk[Ino(i)]
        b == ExtentGetBlock(inode, p \div PerBlock)
    IN  IF p >= inode.size \/ b = 0 THEN 0
        ELSE PartsOf(disk[Blk(b)])[(p % PerBlock) + 1]

\* What was written to a file and not overwritten is read back after the file was closed and
\* opened again, as user/tests/test_file.c verifies.  A file that was open twice at a time is
\* excepted: each Ext4File writes back its own copy of the inode.
ReadsSeeWrites ==
    Idle => \A i \in Inodes \ twice, p \in Positions :
                text[i][p] # 0 => ReadAt(i, p) = text[i][p]

\* On a disk without a journal every position reads back what was written to it last, also
\* after a power cut, except in the file whose write the power cut interrupted.
PlainReadsSeeWrites == ~journal => ReadsSeeWrites

\* With a journal, a create that the power cut interrupts has happened as a whole or not at
\* all: its inode is allocated exactly if its entry is in a directory.
CreateIsAtomic ==
    [][journal /\ op.kind = "create" /\ Crash =>
         (op.ino \in disk[IBitmap] <=> \E d \in Inodes, n \in Names : <<n, op.ino>> \in Listed(disk, d))]_vars
=============================================================================
