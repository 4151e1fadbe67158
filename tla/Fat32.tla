------------------------------- MODULE Fat32 --------------------------------
(***************************************************************************)
(* The FAT32 driver (fs/fat32_vfs.cpp): cluster chains, directories with   *)
(* short and long names, files.                                            *)
(*                                                                         *)
(* A call runs alone (the shell waits for the program it started), so an   *)
(* action for a call works out the sector writes of the call in order, and *)
(* WriteOne carries them out; a power cut may strike before any of them.   *)
(*                                                                         *)
(* The disk maps the entries of the first FAT, and the sectors of the      *)
(* clusters, to contents.  A sector holds one directory slot or one piece  *)
(* of a file.  Cluster 0, which allocate_cluster returns when the table is *)
(* full, is the two clusters in front of the data area, that is the end of *)
(* the second FAT, which the driver never looks at otherwise.              *)
(*                                                                         *)
(* Five things spoil a disk for good, and are recorded in "faults": a file *)
(* or directory that grows on a full disk, a cluster behind the end of the *)
(* volume (the table has more entries than the volume has clusters), a     *)
(* write through a FAT32_File whose file was removed, a directory that     *)
(* grows by a cluster that is not blank, and a power cut inside unlink.    *)
(* No call is modelled on a disk that an earlier one has spoilt: what the  *)
(* properties say is that there is no sixth way.                           *)
(***************************************************************************)
EXTENDS Integers, Sequences, FiniteSets, SequencesExt

CONSTANTS
    Names,        \* names: stem (first eight characters), more, extensions
    LastCluster,  \* the last cluster of the volume
    Tables,       \* the last entry of the FAT: its possible values
    PerCluster,   \* sectors of a cluster
    Image,        \* contents of the disk other than zeros: FAT entries and sectors
    ImageSize,    \* size of its file, which has number 0 and holds 0 everywhere
    Handles,      \* FAT32_File objects
    FileSectors,  \* bound on the sectors of a file
    WriteLens,    \* lengths of a write, in sectors
    MaxOps,       \* bound on the calls that write
    MaxCrashes    \* bound on the power cuts

VARIABLES
    table,        \* bpb.table_size_32, as the number of the last entry
    disk,
    todo,         \* the writes that the running call has still to make
    call,         \* the running call and the number of its writes
    handle,       \* the FAT32_File objects
    text,         \* history: what was last written to each sector of each file
    twice,        \* history: files that were open twice at a time
    faults,       \* history: what has spoilt the disk
    ops, crashes

vars == <<table, disk, todo, call, handle, text, twice, faults, ops, crashes>>

EOC == 999      \* an entry of 0x0FFFFFF8 or more
Root == 2       \* bpb.root_cluster
NoSlot == <<"none">>
NoFile == [id |-> -1]
NoCall == [name |-> "none", writes |-> 0, id |-> -1, at |-> {}]

Fat(c) == <<"fat", c>>
Sec(c, i) == <<"sector", c, i>>
End == [kind |-> "end"]            \* zeros
Deleted == [kind |-> "deleted"]    \* name[0] = 0xE5
Lfn(n) == [kind |-> "lfn", name |-> n]
Label == [kind |-> "label"]
Data(v) == [kind |-> "data", val |-> v]
\* id and as are history: which create or mkdir made the entry, and under which name.
Entry(short, dir, c, size, id, as) ==
    [kind |-> "entry", short |-> short, dir |-> dir, cluster |-> c, size |-> size,
     id |-> id, as |-> as]

Dot == <<".", "">>
DotDot == <<"..", "">>

\* The 8.3 name that create and mkdir store, and the one that compare_fat_name looks
\* for.  create takes the last extension, the search the first, and none at all behind
\* a stem of more than eight characters.  Extensions have three characters.
CreateName(n) == <<n.stem, IF n.exts = <<>> THEN "" ELSE Last(n.exts)>>
MkdirName(n) == <<n.stem, "">>
CompareName(n) == <<n.stem, IF n.more \/ n.exts = <<>> THEN "" ELSE Head(n.exts)>>
-----------------------------------------------------------------------------
(***************************************************************************)
(* Reading.                                                                *)
(***************************************************************************)
\* The clusters from c on, up to the end mark or 0, and at most n of them.
RECURSIVE Clusters(_, _, _)
Clusters(d, c, n) ==
    IF c \in {0, EOC} \/ n = 0 THEN <<>> ELSE <<c>> \o Clusters(d, d[Fat(c)], n - 1)
Chain(d, c) == Clusters(d, c, table + 1)

\* The sectors of a sequence of clusters.
SectorsOf(cs) ==
    [k \in 1 .. PerCluster * Len(cs) |->
        Sec(cs[(k - 1) \div PerCluster + 1], ((k - 1) % PerCluster) + 1)]

\* The slots of a directory that finddir and readdir look at: those before the first zero.
Slots(d, c) ==
    LET all == SectorsOf(Chain(d, c))
        end == SelectInSeq(all, LAMBDA a : d[a].kind = "end")
    IN  IF end = 0 THEN all ELSE SubSeq(all, 1, end - 1)

\* The long name that applies to slot i.  finddir keeps it over a volume label.
LongBefore(d, s, i, skip) ==
    LET js == {j \in 1 .. i - 1 : d[s[j]].kind \notin skip}
    IN  js # {} /\ d[s[Max(js)]].kind = "lfn"
LongNameAt(d, s, i, skip) == d[s[Max({j \in 1 .. i - 1 : d[s[j]].kind \notin skip})]].name

\* A deleted slot does not end a long name.
MatchesOverDeleted(d, s, i, n) ==
    /\ d[s[i]].kind = "entry"
    /\ IF LongBefore(d, s, i, {"label", "deleted"})
       THEN LongNameAt(d, s, i, {"label", "deleted"}) = n
       ELSE d[s[i]].short = CompareName(n)
Matches(d, s, i, n) ==
    /\ d[s[i]].kind = "entry"
    /\ IF LongBefore(d, s, i, {"label"}) THEN LongNameAt(d, s, i, {"label"}) = n
       ELSE d[s[i]].short = CompareName(n)

Finddir(d, c, n) ==
    LET s == Slots(d, c)
        hits == {i \in DOMAIN s : Matches(d, s, i, n)}
    IN  IF hits = {} THEN NoSlot ELSE s[Min(hits)]

\* The name that readdir gives an entry: the long one, or the 8.3 name spelt out.
NameIn(d, s, i) ==
    IF LongBefore(d, s, i, {}) THEN LongNameAt(d, s, i, {})
    ELSE LET e == d[s[i]].short
         IN  [stem |-> e[1], more |-> FALSE, exts |-> IF e[2] = "" THEN <<>> ELSE <<e[2]>>]
Readdir(d, c) ==
    LET s == Slots(d, c)
        is == SelectSeq([i \in DOMAIN s |-> i], LAMBDA i : d[s[i]].kind = "entry")
    IN  [k \in DOMAIN is |-> [name |-> NameIn(d, s, is[k]), slot |-> s[is[k]]]]

\* The sector k of a file that starts at cluster c (FAT32_File::read).
Read(d, c, k) == d[Sec(Chain(d, c)[k \div PerCluster + 1], (k % PerCluster) + 1)]

\* The directory that a path names: the root, or an entry of the root.
DirAt(d, path) ==
    IF path = <<>> THEN Root
    ELSE LET a == Finddir(d, Root, path[1])
         IN  IF a # NoSlot /\ d[a].dir THEN d[a].cluster ELSE 0
-----------------------------------------------------------------------------
(***************************************************************************)
(* Writing.  A session s is the disk as the call sees it, the writes it    *)
(* made and the faults it met.                                             *)
(***************************************************************************)
Now == [d |-> disk, ws |-> <<>>, f |-> {}]
Do(s, w) == [s EXCEPT !.d = w @@ @, !.ws = Append(@, w)]
Fault(s, x) == [s EXCEPT !.f = @ \cup {x}]

SetNextCluster(s, c, n) == Do(s, Fat(c) :> n)

\* A cluster handed out without being marked.
AllocateClusterUnmarked(s) ==
    LET free == {c \in 0..table : s.d[Fat(c)] = 0}
    IN  [got |-> IF free = {} THEN 0 ELSE Min(free), s |-> s]
\* Any entry of the table that is 0 will do, a cluster of the volume or not.
AllocateCluster(s) ==
    LET free == {c \in 0..table : s.d[Fat(c)] = 0}
        c == Min(free)
        t == Do(s, Fat(c) :> EOC)
    IN  IF free = {} THEN [got |-> 0, s |-> s]
        ELSE [got |-> c, s |-> IF c > LastCluster THEN Fault(t, "beyond") ELSE t]

\* Behind the last cluster of a chain the code links whatever allocate_cluster returns.
Extend(s, c) ==
    LET a == AllocateCluster(s)
        t == SetNextCluster(a.s, c, a.got)
    IN  [got |-> a.got, s |-> IF a.got = 0 THEN Fault(t, "full") ELSE t]

FollowOrExtend(x) ==
    LET n == x.s.d[Fat(x.got)] IN IF n = EOC THEN Extend(x.s, x.got) ELSE [x EXCEPT !.got = n]

FreeClusterChain(s, c) ==
    IF c < 2 THEN s
    ELSE FoldLeft(LAMBDA t, k : SetNextCluster(t, k, 0), s, Chain(s.d, c))

IsFree(e) == e.kind \in {"end", "deleted"}

\* The first free slot of a directory, which grows until it has one.  A new cluster is
\* not cleared, so its old contents are now slots.
RECURSIVE FreeEntryFrom(_, _, _)
FreeEntryFrom(s, c, n) ==
    LET free == {i \in 1..PerCluster : IsFree(s.d[Sec(c, i)])}
        y == FollowOrExtend([got |-> c, s |-> s])
        blank == \A j \in 1..PerCluster : y.s.d[Sec(y.got, j)] = End
        grown == s.d[Fat(c)] = EOC
    IN  IF n = 0 THEN [slot |-> NoSlot, s |-> s]
        ELSE IF free # {} THEN [slot |-> Sec(c, Min(free)), s |-> s]
        ELSE FreeEntryFrom(IF grown /\ ~blank THEN Fault(y.s, "dirty") ELSE y.s, y.got, n - 1)
FindFreeEntry(s, c) == FreeEntryFrom(s, c, table + 3)

\* One sector of FAT32_File::write: from the first cluster on, growing the chain.
WriteSector(s, first, k, v) ==
    LET x == FoldLeft(LAMBDA y, i : FollowOrExtend(y), [got |-> first, s |-> s],
                      [i \in 1 .. k \div PerCluster |-> i])
    IN  Do(x.s, Sec(x.got, (k % PerCluster) + 1) :> Data(v))

\* The size stays in the object.
UpdateMetadataNot(s, h, size) == s
\* The size goes into whatever is now in the slot where the entry was found.
UpdateMetadata(s, h, size) ==
    LET e == s.d[h.slot]
    IN  Do(s, h.slot :> CASE e.kind = "entry" -> [e EXCEPT !.size = size]
                          [] e.kind = "data"  -> Data(-1)
                          [] OTHER            -> e)

\* The entries of the root and of its directories, other than "." and "..".
EntriesIn(d, c) ==
    {a \in Range(Slots(d, c)) : d[a].kind = "entry" /\ d[a].short \notin {Dot, DotDot}}
Subdirs(d) == {d[a].cluster : a \in {b \in EntriesIn(d, Root) : d[b].dir}}
Live(d) == UNION {EntriesIn(d, c) : c \in {Root} \cup Subdirs(d)}
Gone(h) == h.slot \notin Live(disk) \/ disk[h.slot].id # h.id
-----------------------------------------------------------------------------
Paths == {<<>>} \cup {<<n>> : n \in Names}

Init ==
    /\ table \in Tables
    /\ disk = Image @@ [a \in {Fat(c) : c \in 0..table} |-> 0]
                    @@ [a \in {Sec(c, i) : c \in 0..table, i \in 1..PerCluster} |-> End]
    /\ todo = <<>> /\ call = NoCall
    /\ handle = [h \in Handles |-> NoFile]
    /\ text = [id \in 0..MaxOps |-> IF id = 0 THEN [k \in 0 .. ImageSize - 1 |-> 0] ELSE <<>>]
    /\ twice = {} /\ faults = {} /\ ops = 0 /\ crashes = 0

\* A call that writes: s is its session, id and at the file and the sectors it writes.
Begin(name, s, id, at) ==
    /\ todo' = s.ws
    /\ call' = IF s.ws = <<>> THEN NoCall
               ELSE [name |-> name, writes |-> Len(s.ws), id |-> id, at |-> at]
    /\ faults' = s.f
    /\ ops' = ops + 1

Ready == todo = <<>> /\ faults = {} /\ ops < MaxOps
OpenIds == {handle[h].id : h \in {g \in Handles : handle[g] # NoFile}}

\* FAT32_Directory::create; the caller keeps the FAT32_File.
Create(p, n, h) ==
    /\ Ready /\ handle[h] = NoFile
    /\ DirAt(disk, p) # 0
    /\ LET x == FindFreeEntry(Now, DirAt(disk, p))
           a == AllocateCluster(x.s)
           ok == a.got # 0 /\ x.slot # NoSlot
           id == ops + 1
           s == IF ok THEN Do(a.s, x.slot :> Entry(CreateName(n), FALSE, a.got, 0, id, n))
                ELSE a.s
       IN  /\ Begin("create", s, id, {})
           /\ handle' = IF ok THEN [handle EXCEPT ![h] = [id |-> id, first |-> a.got,
                                                          size |-> 0, slot |-> x.slot]]
                        ELSE handle
    /\ UNCHANGED <<table, disk, text, twice, crashes>>

\* FAT32_Directory::mkdir: the cluster with "." and ".." goes out before the entry.
Mkdir(n) ==
    /\ Ready
    /\ LET a == AllocateCluster(Now)
           id == ops + 1
           dots == <<Entry(Dot, TRUE, a.got, 0, id, n), Entry(DotDot, TRUE, 0, 0, id, n)>>
           s == Do(a.s, [t \in Range(SectorsOf(<<a.got>>)) |-> IF t[3] <= 2 THEN dots[t[3]] ELSE End])
           x == FindFreeEntry(s, Root)
           e == Entry(MkdirName(n), TRUE, a.got, 0, id, n)
       IN  Begin("mkdir", IF a.got = 0 THEN Now
                          ELSE IF x.slot = NoSlot THEN x.s ELSE Do(x.s, x.slot :> e), id, {})
    /\ UNCHANGED <<table, disk, handle, text, twice, crashes>>

\* The slots where unlink finds the name: it knows short names only, and a zero ends
\* the search of a cluster but not of the directory.
UnlinkHits(d, c, n) ==
    SelectSeq(SectorsOf(Chain(d, c)),
              LAMBDA a : /\ d[a].kind = "entry" /\ d[a].short = CompareName(n)
                         /\ \A i \in 1 .. a[3] - 1 : d[Sec(a[2], i)] # End)

\* FAT32_Directory::unlink: the chain is freed first, then the slot and the long name
\* in front of it, as far as it is in the same cluster, are marked.
Unlink(p, n) ==
    /\ Ready
    /\ DirAt(disk, p) # 0
    /\ UnlinkHits(disk, DirAt(disk, p), n) # <<>>
    /\ LET a == Head(UnlinkHits(disk, DirAt(disk, p), n))
           lfns == {i \in 1 .. a[3] - 1 : \A j \in i .. a[3] - 1 : disk[Sec(a[2], j)].kind = "lfn"}
           s == FreeClusterChain(Now, disk[a].cluster)
       IN  Begin("unlink", Do(s, [t \in {Sec(a[2], i) : i \in lfns \cup {a[3]}} |-> Deleted]),
                 disk[a].id, {})
    /\ UNCHANGED <<table, disk, handle, text, twice, crashes>>

\* finddir makes a new FAT32_File each time.
Open(p, n, h) ==
    /\ todo = <<>> /\ faults = {} /\ handle[h] = NoFile
    /\ DirAt(disk, p) # 0
    /\ LET a == Finddir(disk, DirAt(disk, p), n)
       IN  /\ a # NoSlot /\ ~disk[a].dir
           /\ handle' = [handle EXCEPT ![h] = [id |-> disk[a].id, first |-> disk[a].cluster,
                                               size |-> disk[a].size, slot |-> a]]
           /\ twice' = IF disk[a].id \in OpenIds THEN twice \cup {disk[a].id} ELSE twice
    /\ UNCHANGED <<table, disk, todo, call, text, faults, ops, crashes>>

Close(h) ==
    /\ todo = <<>> /\ faults = {} /\ handle[h] # NoFile
    /\ handle' = [handle EXCEPT ![h] = NoFile]
    /\ UNCHANGED <<table, disk, todo, call, text, twice, faults, ops, crashes>>

\* FAT32_File::write
Write(h, off, n) ==
    /\ Ready /\ handle[h] # NoFile
    /\ off + n <= FileSectors
    /\ LET f == handle[h]
           v == ops + 1
           at == off .. off + n - 1
           w == FoldLeft(LAMBDA s, k : WriteSector(s, f.first, off + k - 1, v), Now,
                         [k \in 1..n |-> k])
           s == IF off + n > f.size THEN UpdateMetadata(w, f, off + n) ELSE w
       IN  /\ Begin("write", IF Gone(f) THEN Fault(s, "stale") ELSE s, f.id, at)
           /\ handle' = [handle EXCEPT ![h].size = IF off + n > @ THEN off + n ELSE @]
           /\ text' = [text EXCEPT ![f.id] = [k \in at |-> v] @@ @]
    /\ UNCHANGED <<table, disk, twice, crashes>>

WriteOne ==
    /\ todo # <<>>
    /\ disk' = Head(todo) @@ disk
    /\ todo' = Tail(todo)
    /\ call' = IF Len(todo) = 1 THEN NoCall ELSE call
    /\ UNCHANGED <<table, handle, text, twice, faults, ops, crashes>>

\* A power cut: the objects are gone.  What the interrupted write was to change may be
\* old or new; an unlink that has begun to free the chain leaves an entry without one.
Crash ==
    /\ todo # <<>> /\ crashes < MaxCrashes
    /\ todo' = <<>> /\ call' = NoCall /\ crashes' = crashes + 1
    /\ handle' = [h \in Handles |-> NoFile]
    /\ text' = [text EXCEPT ![call.id] = [k \in DOMAIN @ \ call.at |-> @[k]]]
    /\ faults' = IF call.name = "unlink" /\ Len(todo) < call.writes THEN faults \cup {"torn"}
                 ELSE faults
    /\ UNCHANGED <<table, disk, twice, ops>>

Next ==
    \/ \E p \in Paths, n \in Names, h \in Handles : Create(p, n, h) \/ Open(p, n, h)
    \/ \E n \in Names : Mkdir(n)
    \/ \E p \in Paths, n \in Names : Unlink(p, n)
    \/ \E h \in Handles : Close(h)
    \/ \E h \in Handles, off \in 0 .. FileSectors - 1, n \in WriteLens : Write(h, off, n)
    \/ WriteOne
    \/ Crash

Spec == Init /\ [][Next]_vars
-----------------------------------------------------------------------------
(***************************************************************************)
(* Properties.                                                             *)
(***************************************************************************)
TypeOK ==
    /\ DOMAIN disk = {Fat(c) : c \in 0..table} \cup {Sec(c, i) : c \in 0..table, i \in 1..PerCluster}
    /\ \A c \in 0..table : disk[Fat(c)] \in 0..table \cup {EOC}
    /\ faults \subseteq {"full", "beyond", "stale", "dirty", "torn"}
    /\ OpenIds \subseteq 0..MaxOps /\ twice \subseteq 0..MaxOps
    /\ ops \in 0..MaxOps /\ crashes \in 0..MaxCrashes

\* Whatever the calls and wherever the power fails, as long as none of the five faults
\* has struck, the chains of the files and directories that can be reached run inside
\* the volume through allocated entries up to an end mark, and no two share a cluster
\* (allocate_cluster before the link or the entry, the entry last).  The size in an entry
\* never exceeds the chain (write stores the size behind the data and the links).  While
\* unlink is at work the file it removes has lost its chain.  (And the types are right.)
ChainsAreSound ==
    /\ TypeOK
    /\ (faults = {} /\ call.name # "unlink") =>
        LET live == Live(disk)
            own == [a \in live \cup {NoSlot} |-> Chain(disk, IF a = NoSlot THEN Root ELSE disk[a].cluster)]
        IN  /\ \A a \in DOMAIN own :
                    /\ own[a] # <<>> /\ disk[Fat(Last(own[a]))] = EOC
                    /\ Range(own[a]) \subseteq 2..LastCluster
            /\ \A a, b \in DOMAIN own :
                    a # b => Range(own[a]) \cap Range(own[b]) = {}
            /\ \A a \in live : disk[a].size <= PerCluster * Len(own[a])

\* A file gives back what was last written to it, through growth, other files coming and
\* going, and power cuts, except for the sectors that the running or interrupted write
\* was to change, and for files that two FAT32_File objects had open at a time (each
\* keeps a size of its own).
ReadsSeeWrites ==
    (faults = {} /\ call.name # "unlink") =>
        \A a \in Live(disk) :
            LET id == disk[a].id
                busy == IF call.id = id THEN call.at ELSE {}
            IN  (~disk[a].dir /\ id \notin twice) =>
                    \A k \in DOMAIN text[id] \ busy :
                        /\ k < disk[a].size
                        /\ Read(disk, disk[a].cluster, k) = Data(text[id][k])

Directories == {Root} \cup Subdirs(disk)
Quiet == faults = {} /\ todo = <<>>

\* A name that fits 8.3 the way both sides read it: at most one extension, none behind a
\* long stem, none for a directory.
FitsShort(e) ==
    /\ Len(e.as.exts) <= 1
    /\ e.dir \/ e.as.more => e.as.exts = <<>>

\* Every name that readdir lists, long or short, is a name finddir finds, and finds under
\* that name: the two loops agree on which long name belongs to which entry, also after
\* unlink left a long name without its entry.  A lookup of the name that a file or
\* directory was created with finds a file, this one or (create does not look first) an
\* older one, if the name fits 8.3, and unless its slot follows a long name that unlink
\* left behind.
NamesAreFound ==
    Quiet => \A c \in Directories :
        LET l == Readdir(disk, c)
            s == Slots(disk, c)
        IN  /\ \A k \in DOMAIN l : \E j \in DOMAIN l :
                    l[j].slot = Finddir(disk, c, l[k].name) /\ l[j].name = l[k].name
            /\ \A i \in DOMAIN s :
                    (s[i] \in EntriesIn(disk, c) /\ FitsShort(disk[s[i]])
                         /\ ~LongBefore(disk, s, i, {"label"})) =>
                        Finddir(disk, c, disk[s[i]].as) # NoSlot
=============================================================================
