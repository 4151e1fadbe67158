-------------------------------- MODULE Vfs ---------------------------------
(***************************************************************************)
(* The virtual file system (fs/vfs.cpp, vfs_node.h, ramfs_vfs.cpp): node   *)
(* objects, their reference counts and parents, path walks, and the two    *)
(* users of it: the commands of the shell, which keeps a current directory *)
(* as a node and as a text, and the file system calls of the program that  *)
(* the shell waits for.  Calls run one at a time (the shell waits, and a   *)
(* system call runs with interrupts off).                                  *)
(*                                                                         *)
(* The disk below is a tree of directories; what Ext4 and Fat32 say of it  *)
(* is left to their modules.  A disk node is made by every lookup and is   *)
(* counted and deleted as its driver does.  Using a node that was deleted, *)
(* or a directory that was removed, is undefined: "ub" is set and nothing  *)
(* more is said.  Nodes that nothing points to are left out of the heap.   *)
(***************************************************************************)
EXTENDS Integers, Sequences, FiniteSets, Lists

CONSTANTS
    Systems,     \* the file systems that may hold the root: subset of {"ext4", "fat32"}
    Names,       \* names of files and directories on the disk
    Dirs,        \* directories on the disk at the start: a function from number to entries
    Sizes,       \* the files on the disk at the start: a function from number to size
    CdPaths, ShellPaths, ProgramPaths,   \* paths given to cd, to other commands, to system calls
    Fds,         \* file descriptors a program can have (3 to 15)
    Lens,        \* lengths of a read or write
    MaxObjects,  \* bound on the number of the last file or directory made
    MaxNodes,    \* bound on the node objects in use
    MaxSize,     \* bound on file sizes and offsets
    MaxDepth,    \* bound on the depth of paths and directories
    MaxRefs      \* bound on reference counts

VARIABLES
    fs,          \* which file system holds the root
    tree,        \* directories: number to sequence of entries
    length,      \* files: number to size
    next,        \* the number of the next file or directory
    heap,        \* the nodes
    cwd,         \* cwd_node
    cwdText,     \* current_working_directory, as its components
    cwdAt,       \* history: the directory that the last cd asked for
    running,     \* the shell waits for a program
    fd,          \* its fd_table: node and offset
    twice,       \* history: files that had two nodes with a descriptor at a time
    why,         \* history: walks from cwd_node since the last cd, walks up, and
                 \* dots inside a path given to cd
    ub

vars == <<fs, tree, length, next, heap, cwd, cwdText, cwdAt, running, fd, twice, why, ub>>

Null == 0
Overlay == -1        \* vfs_root, a MountOverlayNode
Base == -2           \* its underlying node, the root directory of the disk
Initrd == -3         \* a KeonFS_MountNode
InitrdFile == -4     \* its KeonFS_File
RootIno == 2
Ids == 1..MaxNodes
Places == Ids \cup {Overlay, Base, Initrd, InitrdFile}

Node(kind, ino, size, refs, parent) ==
    [kind |-> kind, ino |-> ino, size |-> size, refs |-> refs, parent |-> parent]
NoNode == Node("none", 0, 0, 0, Null)
Freed == Node("freed", 0, 0, 0, Null)
NoFd == [node |-> Null, off |-> 0]

Up(c) == c = ".."
Path(abs, comps) == [abs |-> abs, comps |-> comps]

\* Nodes of these kinds have type VFS_DIRECTORY.
IsDir(n) == n.kind \in {"overlay", "dir", "mount"}
-----------------------------------------------------------------------------
(***************************************************************************)
(* A call works on a session: the heap, the tree, the sizes, the node the  *)
(* walk has reached, the histories, and whether MaxNodes was too small.    *)
(***************************************************************************)
Session == [heap |-> heap, tree |-> tree, length |-> length, cur |-> Null,
            next |-> next, why |-> why, ub |-> ub, full |-> FALSE]

Bad(s) == [s EXCEPT !.ub = TRUE, !.cur = Null]
Dead(s, n) == s.heap[n].kind \in {"freed", "none"}
SetRefs(s, n, r) == [s EXCEPT !.heap[n].refs = r]
Free(s, n) == [s EXCEPT !.heap[n] = Freed]

\* The count of the overlay decides nothing and is left out.  Files on FAT32 and the
\* nodes of the initrd do not count.
Counts(n) == n.kind = "dir" \/ (n.kind = "file" /\ fs = "ext4")

\* open
OpenNode(s, n) ==
    IF Dead(s, n) THEN Bad(s)
    ELSE IF Counts(s.heap[n]) THEN SetRefs(s, n, s.heap[n].refs + 1)
    ELSE s

\* Deletes at 0 only: VFSNode::close of FAT32 directories takes one from an unsigned 0
\* (-1 stands for 2^32 - 1).
CloseFat(s, n) ==
    IF s.heap[n].refs = 1 THEN Free(s, n) ELSE SetRefs(s, n, s.heap[n].refs - 1)
\* A count of 0 or less ends it, the descriptor's own use or not.
CloseExt4Early(s, n) == IF s.heap[n].refs <= 2 THEN Free(s, n) ELSE SetRefs(s, n, s.heap[n].refs - 1)
\* Ext4File::close and Ext4Directory::close
CloseExt4(s, n) ==
    IF s.heap[n].refs <= 1 THEN Free(s, n) ELSE SetRefs(s, n, s.heap[n].refs - 1)
CloseNode(s, n) ==
    IF Dead(s, n) THEN Bad(s)
    ELSE IF ~Counts(s.heap[n]) THEN s
    ELSE IF fs = "ext4" THEN CloseExt4(s, n) ELSE CloseFat(s, n)

\* What is on the heap from given nodes on, their parents included.
Kept(s, roots) ==
    LET Above(ns) == ns \cup ({s.heap[n].parent : n \in {m \in ns : ~Dead(s, m)}} \ {Null})
        above[k \in 0 .. MaxDepth + 1] == IF k = 0 THEN roots ELSE Above(above[k - 1])
    IN  above[MaxDepth + 1]
Holders == ({cwd} \cup {fd[i].node : i \in Fds}) \ {Null}

\* A node from new, held by nothing yet.
NewNode(s, node) ==
    LET unused == Ids \ Kept(s, Holders \cup ({s.cur} \ {Null}))
    IN  IF unused = {} THEN [s EXCEPT !.full = TRUE, !.cur = Null]
        ELSE [s EXCEPT !.heap[Min(unused)] = node, !.cur = Min(unused)]

\* The first entry of a directory with this name.
Lookup(s, ino, name) ==
    LET i == SelectInSeq(s.tree[ino], LAMBDA e : e.name = name)
    IN  IF i = 0 THEN 0 ELSE s.tree[ino][i].ino

DiskNode(s, ino, parent) ==
    IF ino \in DOMAIN s.tree THEN Node("dir", ino, 0, 0, parent)
    ELSE Node("file", ino, s.length[ino], 0, parent)

\* finddir.  FAT32 sets the parent, Ext4 leaves it null.  A directory that was removed
\* has no entries one could speak of.
FindOnDisk(s, n, name) ==
    IF Dead(s, n) \/ s.heap[n].ino \notin DOMAIN s.tree THEN Bad(s)
    ELSE LET ino == Lookup(s, s.heap[n].ino, name)
         IN  IF ino = 0 THEN [s EXCEPT !.cur = Null]
             ELSE NewNode(s, DiskNode(s, ino, IF fs = "fat32" THEN n ELSE Null))
FindInInitrd(s, name) == [s EXCEPT !.cur = IF name = "rfile" THEN InitrdFile ELSE Null]
Finddir(s, n, name) ==
    IF Dead(s, n) THEN Bad(s)
    ELSE CASE s.heap[n].kind = "overlay" ->
                  IF name = "initrd" THEN [s EXCEPT !.cur = Initrd] ELSE FindOnDisk(s, Base, name)
           [] s.heap[n].kind = "dir"     -> FindOnDisk(s, n, name)
           [] s.heap[n].kind = "mount"   -> FindInInitrd(s, name)
           [] OTHER                      -> [s EXCEPT !.cur = Null]

\* readdir, to the end: the node and what it lists must be there.
Readdir(s, n) ==
    LET at == IF n = Overlay THEN Base ELSE n
    IN  IF Dead(s, at) THEN Bad(s)
        ELSE IF s.heap[at].kind = "dir" /\ s.heap[at].ino \notin DOMAIN s.tree THEN Bad(s)
        ELSE s

\* Every ".." leads to the root.
GoUpToRoot(s, n) == [s EXCEPT !.cur = Overlay]
\* ".." in vfs_open
GoUp(s, n) ==
    IF Dead(s, n) THEN Bad(s)
    ELSE IF n = Overlay THEN s
    ELSE LET up == s.heap[n].parent
         IN  IF up = Null THEN [s EXCEPT !.cur = Null]
             ELSE OpenNode([s EXCEPT !.cur = up, !.why = @ \cup {"up"}], up)

\* One component of vfs_open: the node it came from is closed in any case.
VfsClose(s, n) == IF n = Null \/ s.ub THEN s ELSE CloseNode(s, n)
WalkOne(s, c) ==
    IF s.cur = Null \/ c = "." THEN s
    ELSE VfsClose(IF Up(c) THEN GoUp(s, s.cur) ELSE Finddir(s, s.cur, c), s.cur)

Walk(s, comps) ==
    LET after[k \in 0 .. Len(comps)] == IF k = 0 THEN s ELSE WalkOne(after[k - 1], comps[k])
    IN  IF s.ub THEN s ELSE after[Len(comps)]
VfsOpen(s, p) ==
    LET start == IF p.abs THEN Overlay ELSE cwd
        from == IF start = Overlay THEN s.why ELSE s.why \cup {"relative"}
    IN  IF s.ub THEN s
        ELSE Walk(OpenNode([s EXCEPT !.cur = start, !.why = from], start), p.comps)
CloseResult(s) == VfsClose(s, s.cur)
Parent(p) == Path(p.abs, Front(p.comps))
\* Paths given to create, mkdir and unlink end in a name.
Targets(ps) == {p \in ps : p.comps # <<>> /\ Last(p.comps) \in Names}

\* The directory on the disk that create, mkdir and unlink of a node change, or 0.
DiskDir(s, n) ==
    LET at == IF n = Overlay THEN Base ELSE n
    IN  IF s.heap[at].kind # "dir" THEN 0 ELSE s.heap[at].ino
GoneDir(s, n) ==
    LET at == IF n = Overlay THEN Base ELSE n
    IN  Dead(s, at) \/ (s.heap[at].kind = "dir" /\ s.heap[at].ino \notin DOMAIN s.tree)

\* A function with one more element in its domain, and one without an element of its own.
With(f, k, v) == [x \in DOMAIN f \cup {k} |-> IF x = k THEN v ELSE f[x]]
Without(f, k) == [x \in DOMAIN f \ {k} |-> f[x]]

\* The new entry goes last; which slot the drivers take is left to their modules.
AddEntry(s, dir, name) ==
    LET e == [name |-> name, ino |-> s.next]
    IN  [s EXCEPT !.next = @ + 1,
                  !.tree[dir] = Append(@, e)]

\* create of the directory node that s has reached; neither driver looks for the name first.
CreateIn(s, name) ==
    IF s.ub \/ s.cur = Null THEN s
    ELSE IF GoneDir(s, s.cur) THEN Bad(s)
    ELSE IF DiskDir(s, s.cur) = 0 THEN [CloseResult(s) EXCEPT !.cur = Null]
    ELSE VfsClose(NewNode([AddEntry(s, DiskDir(s, s.cur), name) EXCEPT !.length = With(@, s.next, 0)],
                          Node("file", s.next, 0, 0, Null)), s.cur)
VfsCreate(s, p) == CreateIn(VfsOpen(s, Parent(p)), Last(p.comps))

MkdirIn(s, name) ==
    IF s.ub \/ s.cur = Null THEN s
    ELSE IF GoneDir(s, s.cur) THEN Bad(s)
    ELSE IF DiskDir(s, s.cur) = 0 THEN CloseResult(s)
    ELSE CloseResult([AddEntry(s, DiskDir(s, s.cur), name) EXCEPT !.tree = With(@, s.next, <<>>)])
VfsMkdir(s, p) == MkdirIn(VfsOpen(s, Parent(p)), Last(p.comps))

RemoveEntry(s, dir, ino) ==
    LET t == [s EXCEPT !.tree[dir] = SelectSeq(@, LAMBDA e : e.ino # ino)]
    IN  [t EXCEPT !.tree = Without(@, ino), !.length = Without(@, ino)]
UnlinkIn(s, name) ==
    IF s.ub \/ s.cur = Null THEN s
    ELSE IF GoneDir(s, s.cur) THEN Bad(s)
    ELSE IF DiskDir(s, s.cur) = 0 THEN CloseResult(s)
    ELSE CloseResult(RemoveEntry(s, DiskDir(s, s.cur), Lookup(s, DiskDir(s, s.cur), name)))
VfsUnlink(s, p) == UnlinkIn(VfsOpen(s, Parent(p)), Last(p.comps))

\* The size is stored whether the file grows or not.
VfsWriteStoring(s, n, off, len) ==
    IF s.heap[n].kind # "file" THEN s
    ELSE IF s.heap[n].ino \notin DOMAIN s.length THEN Bad(s)
    ELSE [s EXCEPT !.heap[n].size = off + len, !.length[s.heap[n].ino] = off + len]
\* write: only files on the disk can be written; the size of the node is stored, on FAT32
\* only if it has grown.  A file that was removed gets nothing one could speak of.
VfsWrite(s, n, off, len) ==
    LET f == s.heap[n]
        size == Max({f.size, off + len})
    IN  IF f.kind # "file" THEN s
        ELSE IF f.ino \notin DOMAIN s.length THEN Bad(s)
        ELSE IF fs = "fat32" /\ size = f.size THEN s
        ELSE [s EXCEPT !.heap[n].size = size, !.length[f.ino] = size]
Written(s, n, len) == IF s.heap[n].kind = "file" THEN len ELSE 0
ReadLen(n, off, len) ==
    IF n.kind \notin {"file", "rfile"} \/ off >= n.size THEN 0
    ELSE IF off + len > n.size THEN n.size - off ELSE len
-----------------------------------------------------------------------------
Init ==
    /\ fs \in Systems
    /\ tree = Dirs /\ length = Sizes
    /\ next = Max(DOMAIN Dirs \cup DOMAIN Sizes) + 1
    /\ heap = [n \in Places |-> IF n = Overlay THEN Node("overlay", RootIno, 0, 0, Null)
                                ELSE IF n = Base THEN Node("dir", RootIno, 0, 0, Null)
                                ELSE IF n = Initrd THEN Node("mount", 0, 0, 0, Overlay)
                                ELSE IF n = InitrdFile THEN Node("rfile", 0, 1, 0, Null)
                                ELSE NoNode]
    /\ cwd = Overlay /\ cwdText = <<>> /\ cwdAt = <<>>
    /\ running = FALSE /\ fd = [i \in Fds |-> NoFd]
    /\ twice = {} /\ why = {} /\ ub = FALSE

\* The end of a call that MaxNodes was enough for: what nothing points to leaves the model, and after undefined
\* behaviour only the fact remains.
Finish(s, newCwd, newFd) ==
    LET held == ({newCwd} \cup {newFd[i].node : i \in Fds}) \ {Null}
        kept == Kept(s, held \cup {Overlay, Base, Initrd, InitrdFile})
    IN  ~s.full /\
        IF s.ub THEN ub' = TRUE /\ why' = s.why /\ UNCHANGED <<tree, length, next, heap, cwd, fd>>
        ELSE /\ heap' = [n \in DOMAIN heap |-> IF n \in kept THEN s.heap[n] ELSE NoNode]
             /\ tree' = s.tree /\ length' = s.length /\ next' = s.next
             /\ cwd' = newCwd /\ fd' = newFd /\ why' = s.why
             /\ UNCHANGED ub

Room == next <= MaxObjects
Bounded == \A n \in {m \in DOMAIN heap : ~Dead([heap |-> heap], m)} : heap[n].refs < MaxRefs
ShellReady == ~running /\ ~ub
Resolved(p) == IF p.abs THEN p ELSE Path(TRUE, cwdText \o p.comps)    \* resolve_path

\* What a list of components comes to when ".." undoes the one before it.
NormalStep(at, c) ==
    IF c = "." THEN at ELSE IF ~Up(c) THEN Append(at, c) ELSE IF at = <<>> THEN at ELSE Front(at)
Normal(comps) ==
    LET after[k \in 0 .. Len(comps)] == IF k = 0 THEN <<>> ELSE NormalStep(after[k - 1], comps[k])
    IN  after[Len(comps)]

LeaveCwd(s) == IF cwd = Overlay THEN s ELSE CloseNode(s, cwd)
Arrived(s, dots) ==
    IF s.ub THEN s
    ELSE [s EXCEPT !.why = (@ \ {"relative"}) \cup (IF dots THEN {"dots"} ELSE {})]

\* cmd_cd without an argument
CdHome ==
    /\ ShellReady
    /\ Finish(Arrived(LeaveCwd(Session), FALSE), Overlay, fd)
    /\ cwdText' = <<>> /\ cwdAt' = <<>>
    /\ UNCHANGED <<fs, running, twice>>

\* The text is cut at its last slash for the argument "..", and is the path otherwise.
TextAfterKeptUp(arg) == IF arg \in {Path(FALSE, <<".">>), Path(FALSE, <<"..">>)} THEN cwdText ELSE Resolved(arg).comps
TextAfter(arg) ==
    CASE arg = Path(FALSE, <<".">>)  -> cwdText
      [] arg = Path(FALSE, <<"..">>) -> IF cwdText = <<>> THEN <<>> ELSE Front(cwdText)
      [] OTHER                       -> Resolved(arg).comps
InnerDots(arg) == Len(arg.comps) > 1 /\ \E i \in DOMAIN arg.comps : arg.comps[i] \in {".", ".."}

CdTo(s, arg) ==
    IF s.ub \/ s.cur = Null \/ ~IsDir(s.heap[s.cur])
    THEN Finish(CloseResult(s), cwd, fd) /\ UNCHANGED <<cwdText, cwdAt>>
    ELSE /\ Finish(Arrived(LeaveCwd(s), InnerDots(arg)), s.cur, fd)
         /\ cwdText' = TextAfter(arg)
         /\ cwdAt' = Normal(Resolved(arg).comps)

\* cmd_cd
Cd(arg) ==
    /\ ShellReady /\ Len(Resolved(arg).comps) <= MaxDepth
    /\ CdTo(VfsOpen(Session, Resolved(arg)), arg)
    /\ UNCHANGED <<fs, running, twice>>

\* The directory is closed although the shell keeps it.
LsHereClosing ==
    /\ ShellReady
    /\ Finish(VfsClose(Readdir(Session, cwd), cwd), cwd, fd)
    /\ UNCHANGED <<fs, cwdText, cwdAt, running, twice>>
\* cmd_ls without an argument
LsHere ==
    /\ ShellReady
    /\ Finish(Readdir(Session, cwd), cwd, fd)
    /\ UNCHANGED <<fs, cwdText, cwdAt, running, twice>>

\* A directory that the shell has listed is closed unless it is one it keeps.
ListAndClose(s) ==
    IF s.ub \/ s.cur = Null THEN s
    ELSE LET t == IF IsDir(s.heap[s.cur]) THEN Readdir(s, s.cur) ELSE s
         IN  IF s.cur \in {cwd, Overlay} THEN t ELSE VfsClose(t, s.cur)

\* cmd_ls of a path; the completion of a path, which it does not resolve first.
Ls(arg) ==
    /\ ShellReady /\ Bounded
    /\ Finish(ListAndClose(VfsOpen(Session, Resolved(arg))), cwd, fd)
    /\ UNCHANGED <<fs, cwdText, cwdAt, running, twice>>
Complete(arg) ==
    /\ ShellReady /\ Bounded
    /\ Finish(ListAndClose(VfsOpen(Session, arg)), cwd, fd)
    /\ UNCHANGED <<fs, cwdText, cwdAt, running, twice>>

\* cmd_cat: open, read to the end, close; cmd_stat: open, look, close
Cat(arg) ==
    /\ ShellReady
    /\ Finish(CloseResult(VfsOpen(Session, Resolved(arg))), cwd, fd)
    /\ UNCHANGED <<fs, cwdText, cwdAt, running, twice>>
ShellStat(arg) ==
    /\ ShellReady
    /\ Finish(CloseResult(VfsOpen(Session, Resolved(arg))), cwd, fd)
    /\ UNCHANGED <<fs, cwdText, cwdAt, running, twice>>

OpenOrCreate(s, p) == IF s.ub \/ s.cur # Null THEN s ELSE VfsCreate(s, p)
AppendOne(s) ==
    IF s.ub \/ s.cur = Null THEN s
    ELSE VfsClose(VfsWrite(s, s.cur, s.heap[s.cur].size, 1), s.cur)

\* cmd_echo with ">": appends the message and the newline (here one unit)
Echo(arg) ==
    /\ ShellReady /\ Room
    /\ \A i \in DOMAIN length : length[i] < MaxSize
    /\ Finish(AppendOne(OpenOrCreate(VfsOpen(Session, Resolved(arg)), Resolved(arg))), cwd, fd)
    /\ UNCHANGED <<fs, cwdText, cwdAt, running, twice>>

\* cmd_touch
Touch(arg) ==
    /\ ShellReady /\ Room
    /\ Finish(CloseResult(VfsCreate(Session, Resolved(arg))), cwd, fd)
    /\ UNCHANGED <<fs, cwdText, cwdAt, running, twice>>

\* cmd_mkdir, cmd_rm
ShellMkdir(arg) ==
    /\ ShellReady /\ Room
    /\ Finish(VfsMkdir(Session, Resolved(arg)), cwd, fd)
    /\ UNCHANGED <<fs, cwdText, cwdAt, running, twice>>
Rm(arg) ==
    /\ ShellReady
    /\ Finish(VfsUnlink(Session, Resolved(arg)), cwd, fd)
    /\ UNCHANGED <<fs, cwdText, cwdAt, running, twice>>

RunFound(s, isProgram) ==
    /\ isProgram => ~s.ub /\ s.cur # Null /\ ~IsDir(s.heap[s.cur])
    /\ Finish(CloseResult(s), cwd, fd)

\* Any other command: kex_load opens the name as it stands, from cwd_node.  A file may
\* turn out to be a program; it is closed before the program runs.
Run(arg, isProgram) ==
    /\ ShellReady
    /\ RunFound(VfsOpen(Session, arg), isProgram)
    /\ running' = isProgram
    /\ UNCHANGED <<fs, cwdText, cwdAt, twice>>
-----------------------------------------------------------------------------
(***************************************************************************)
(* The system calls of the program.                                        *)
(***************************************************************************)
ProgramReady == running /\ ~ub
ProgramOnly == UNCHANGED <<fs, cwdText, cwdAt, running>>
OpenInos == {heap[fd[i].node].ino : i \in {j \in Fds : fd[j].node \in Ids}}

\* Without a free descriptor the node is closed again.
GiveFd(s) ==
    LET none == {i \in Fds : fd[i].node = Null}
        found == ~s.ub /\ s.cur # Null
        ino == s.heap[s.cur].ino
    IN  /\ Finish(IF found /\ none = {} THEN CloseResult(s) ELSE s, cwd,
                  IF found /\ none # {} THEN [fd EXCEPT ![Min(none)] = [node |-> s.cur, off |-> 0]]
                  ELSE fd)
        /\ twice' = IF found /\ none # {} /\ ino \in OpenInos THEN twice \cup {ino} ELSE twice

\* sys_open
SysOpen(arg, creat) ==
    /\ ProgramReady /\ Bounded /\ (creat => Room)
    /\ creat => arg \in Targets({arg})
    /\ GiveFd(IF creat THEN OpenOrCreate(VfsOpen(Session, arg), arg) ELSE VfsOpen(Session, arg))
    /\ ProgramOnly

SysClose(i) ==
    /\ ProgramReady /\ fd[i].node # Null
    /\ Finish(CloseNode(Session, fd[i].node), cwd, [fd EXCEPT ![i] = NoFd])
    /\ ProgramOnly /\ UNCHANGED twice

\* sys_read of len units
SysRead(i, len) ==
    /\ ProgramReady /\ fd[i].node # Null
    /\ IF Dead(Session, fd[i].node) THEN Finish(Bad(Session), cwd, fd)
       ELSE Finish(Session, cwd, [fd EXCEPT ![i].off = @ + ReadLen(heap[fd[i].node], @, len)])
    /\ ProgramOnly /\ UNCHANGED twice

SysWrite(i, len) ==
    /\ ProgramReady /\ fd[i].node # Null /\ fd[i].off + len <= MaxSize
    /\ IF Dead(Session, fd[i].node) THEN Finish(Bad(Session), cwd, fd)
       ELSE Finish(VfsWrite(Session, fd[i].node, fd[i].off, len), cwd,
                   [fd EXCEPT ![i].off = @ + Written(Session, fd[i].node, len)])
    /\ ProgramOnly /\ UNCHANGED twice

\* sys_fstat looks at the node, sys_readdir at what it lists.
SysFstat(i) ==
    /\ ProgramReady /\ fd[i].node # Null
    /\ Finish(IF Dead(Session, fd[i].node) THEN Bad(Session) ELSE Session, cwd, fd)
    /\ ProgramOnly /\ UNCHANGED twice
SysReaddir(i) ==
    /\ ProgramReady /\ fd[i].node # Null
    /\ Finish(IF heap[fd[i].node].kind \in {"file", "rfile"} THEN Session
              ELSE Readdir(Session, fd[i].node), cwd, fd)
    /\ ProgramOnly /\ UNCHANGED twice

\* sys_stat: a lookup of the whole path in the root, whose node (if any) is dropped,
\* then open, look, close
SysStat(arg) ==
    /\ ProgramReady
    /\ Finish(CloseResult(VfsOpen(Readdir(Session, Overlay), arg)), cwd, fd)
    /\ ProgramOnly /\ UNCHANGED twice

SysMkdir(arg) ==
    /\ ProgramReady /\ Room
    /\ Finish(VfsMkdir(Session, arg), cwd, fd)
    /\ ProgramOnly /\ UNCHANGED twice

SysUnlink(arg) ==
    /\ ProgramReady
    /\ Finish(VfsUnlink(Session, arg), cwd, fd)
    /\ ProgramOnly /\ UNCHANGED twice

\* The thread goes with its table; its nodes are not closed.
Exit ==
    /\ running /\ ~ub
    /\ Finish(Session, cwd, [i \in Fds |-> NoFd])
    /\ running' = FALSE
    /\ UNCHANGED <<fs, cwdText, cwdAt, twice>>

Next ==
    \/ CdHome
    \/ \E p \in CdPaths : Cd(p)
    \/ LsHere
    \/ \E p \in ShellPaths : Ls(p) \/ Cat(p) \/ ShellStat(p) \/ Complete(p)
    \/ \E p \in Targets(ShellPaths) :
           Echo(p) \/ Touch(p) \/ ShellMkdir(p)
    \/ \E p \in Targets(ShellPaths) : Rm(p)
    \/ \E p \in ProgramPaths, isProgram \in BOOLEAN : Run(p, isProgram)
    \/ \E p \in ProgramPaths, creat \in BOOLEAN : SysOpen(p, creat)
    \/ \E i \in Fds : SysClose(i) \/ SysFstat(i) \/ SysReaddir(i)
    \/ \E i \in Fds, len \in Lens : SysRead(i, len) \/ SysWrite(i, len)
    \/ \E p \in ProgramPaths : SysStat(p)
    \/ \E p \in Targets(ProgramPaths) : SysUnlink(p) \/ SysMkdir(p)
    \/ Exit

Spec == Init /\ [][Next]_vars
-----------------------------------------------------------------------------
(***************************************************************************)
(* Properties.                                                             *)
(***************************************************************************)
TypeOK ==
    /\ fs \in Systems
    /\ DOMAIN heap = Places
    /\ \A n \in DOMAIN heap : heap[n].kind \in {"none", "freed", "overlay", "dir", "file", "mount", "rfile"}
    /\ \A n \in DOMAIN heap : ~Dead(Session, n) => heap[n].refs >= -1
    /\ cwd \in DOMAIN heap /\ \A i \in Fds : fd[i].node \in DOMAIN heap \cup {Null}
    /\ why \subseteq {"relative", "up", "dots"}
    /\ running \in BOOLEAN /\ ub \in BOOLEAN

\* A walk has gone through ".." of a directory on FAT32: it reaches a node by its parent
\* pointer whose count was already taken down, to -1, by the walk that came through it.
WentUp == fs = "fat32" /\ "up" \in why

\* A node that an open descriptor stands for is never deleted, whatever walks, closes
\* and changes of directory go on around it: lookups make nodes of their own, and where a
\* descriptor shares a node (that of the current directory) vfs_open has counted it.  Only
\* ".." on FAT32 gives descriptors a node that is counted too low, and closing one of them
\* may then delete it.  (And the types are right.)
DescriptorsAreLive ==
    TypeOK /\ (ub \/ WentUp \/ \A i \in Fds : fd[i].node = Null \/ ~Dead(Session, fd[i].node))

\* There are two ways to lose a node that is still in use, and no other: a walk that
\* starts at cwd_node, whose count does not include the shell's own use of it; and, on
\* FAT32, "..", which reaches the node under the overlay.
NodesAreLostTwoWays ==
    /\ Dead(Session, cwd) => "relative" \in why \/ "up" \in why
    /\ Dead(Session, Base) => fs = "fat32" /\ "up" \in why
    /\ ub => why \cap {"relative", "up"} # {} \/ \E n \in DOMAIN heap : heap[n].kind \in {"dir", "file"}
                              /\ heap[n].ino \notin DOMAIN tree \cup DOMAIN length

\* What a path names, as the tree has it: the number of a file or directory, -3 and -4 for
\* the initrd and its file, 0 for nothing.
Meaning(comps) ==
    LET Step(at, c) ==
            CASE at = RootIno /\ c = "initrd" -> Initrd
              [] at = Initrd                  -> IF c = "rfile" THEN InitrdFile ELSE 0
              [] at \in DOMAIN tree           -> Lookup(Session, at, c)
              [] OTHER                        -> 0
        at[k \in 0 .. Len(comps)] == IF k = 0 THEN RootIno ELSE Step(at[k - 1], comps[k])
    IN  at[Len(comps)]
Object(h, n) == IF n \in {Initrd, InitrdFile} THEN n ELSE h[n].ino

\* vfs_open finds what the path names or nothing, never another file: from the root, and
\* from the current directory as long as that is still where it was.  (On Ext4 ".."
\* finds nothing; on FAT32 it leads to the parent that the walk came through.)
OpenFollowsThePath ==
    ub \/ \A p \in CdPaths \cup ShellPaths \cup ProgramPaths :
        LET s == VfsOpen(Session, p)
            from == IF p.abs THEN <<>> ELSE cwdAt
        IN  (~s.ub /\ s.cur # Null /\ Meaning(from) = Object(heap, IF p.abs THEN Overlay ELSE cwd)) =>
                Object(s.heap, s.cur) = Meaning(Normal(from \o p.comps))

\* A file loses length only if two descriptors had it open at a time: each has a node with
\* a size of its own, and on Ext4 every write, on FAT32 one that grows the node, stores it.
FilesShrinkOnlyWhenOpenTwice ==
    [][\A i \in DOMAIN length \cap DOMAIN length' : length'[i] < length[i] => i \in twice]_vars

\* The directory that the prompt shows is the one that commands work in, whatever went
\* before, unless cd was given "." or ".." inside a longer path: the text keeps such a
\* path as it is, and the next "cd .." cuts off the dots instead of a directory.
PromptNamesTheDirectory == ub \/ "dots" \in why \/ Normal(cwdText) = cwdAt
=============================================================================
