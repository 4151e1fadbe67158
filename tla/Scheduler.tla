------------------------------ MODULE Scheduler ------------------------------
(***************************************************************************)
(* The threads of keonOS and everything that schedules them: the run list, *)
(* the zombie list and yield() of thread.cpp, the timer and keyboard       *)
(* interrupts that run on top of them, the shell that loads one program at *)
(* a time and polls for its end, and the blocking system calls of that     *)
(* program.                                                                *)
(*                                                                         *)
(* The machine has one CPU.  A stretch of code that runs with interrupts   *)
(* disabled (an interrupt handler, a cli/sti pair, an irqsave lock, a      *)
(* system call up to its first yield) is one action; between two actions   *)
(* interrupts are enabled and TimerIRQ and KeyPress may strike.  pc[t] is  *)
(* where thread t is when it can be interrupted.                           *)
(***************************************************************************)
EXTENDS Integers, FiniteSets

CONSTANTS
    Main,               \* the thread of kernel_main ("kernel", id 0)
    Idle,               \* idle_thread_ptr ("sys_idle")
    Setup,              \* the thread of start_user_code ("user_mode")
    Shell,              \* the thread of shell_run
    Procs,              \* the thread_t structures user programs are given
    NULL,
    MaxTicks,           \* bound: a sleep lasts 1..MaxTicks timer ticks
    MaxKeys,            \* bound: unread keys, below KEYBOARD_BUFFER_SIZE
    MaxId,              \* bound: thread ids handed out
    KeysWhileLoading    \* whether keys may be pressed during kex_load

Threads == {Main, Idle, Setup, Shell} \cup Procs

ASSUME DistinctThreads ==
    /\ Main # Idle /\ Main # Setup /\ Main # Shell
    /\ Idle # Setup /\ Idle # Shell /\ Setup # Shell
    /\ {Main, Idle, Setup, Shell} \cap Procs = {}
    /\ NULL \notin Threads

ASSUME Bounds ==
    /\ MaxTicks \in Nat \ {0} /\ MaxKeys \in Nat \ {0} /\ MaxId \in Nat
    /\ KeysWhileLoading \in BOOLEAN

VARIABLES
    current,        \* current_thread
    next,           \* thread_t::next, shared by the run list and the zombie list
    state,          \* thread_t::state
    sleep_ticks,    \* thread_t::sleep_ticks
    id, next_id,    \* thread_t::id, next_thread_id
    zombie_head,    \* zombie_list_head
    alloc,          \* whether the thread_t (and its kernel stack) is allocated
    pc,             \* where each thread is interruptible
    keys,           \* unread characters in keyboard_buffer
    gs,             \* whose GS base is active: "user" or "kernel" (swapgs)
    umap,           \* whose frames are mapped at the fixed user addresses
    job, pid, temp, \* the shell's locals: kex_load's t, its id, the list cursor
    fault           \* "none", or the reason the kernel went down

vars == <<current, next, state, sleep_ticks, id, next_id, zombie_head, alloc,
          pc, keys, gs, umap, job, pid, temp, fault>>

States == {"READY", "SLEEPING", "BLOCKED", "ZOMBIE"}

\* Places where a thread is about to call yield(), and where it will be
\* when that call returns.
YieldCalls == {"bootsleep", "cmdsleep", "waitsleep", "syssleep", "block", "exiting"}

Resume(at) == CASE at = "bootsleep"           -> "spawn"
                [] at \in {"cmdsleep", "block"} -> "rd"
                [] at = "waitsleep"           -> "wait"
                [] at = "syssleep"            -> "sysret"
                [] at = "exiting"             -> "dead"

Labels == {"none", "boot", "spawn", "loop", "hlt", "start", "finish", "rd",
           "empty", "take", "cmd", "loading", "loaded", "wait", "walk", "nap",
           "user", "sysret", "dead"} \cup YieldCalls

\* The threads on the run list, and those thread_exit or thread_kill took off
\* it and cleanup_zombies has not freed yet.
Ring    == {t \in Threads : alloc[t] /\ pc[t] \notin {"none", "exiting", "dead"}}
Zombies == {t \in Threads : alloc[t] /\ pc[t] \in {"exiting", "dead"}}

TypeOK ==
    /\ current \in Threads
    /\ next \in [Threads -> Threads \cup {NULL}]
    /\ state \in [Threads -> States]
    /\ sleep_ticks \in [Threads -> 0..MaxTicks]
    /\ id \in [Threads -> Nat] /\ next_id \in Nat
    /\ zombie_head \in Threads \cup {NULL}
    /\ alloc \in [Threads -> BOOLEAN]
    /\ pc \in [Threads -> Labels]
    /\ keys \in Int
    /\ gs \in {"user", "kernel"}
    /\ umap \in Procs \cup {NULL}
    /\ job \in Procs \cup {NULL}
    /\ pid \in Nat
    /\ temp \in Threads \cup {NULL}
    /\ fault \in {"none", "handler walk", "wait walk", "user fault"}

\* kernel_main after thread_init: the run list is kernel -> sys_idle -> kernel.
Init ==
    /\ current = Main
    /\ next = [t \in Threads |-> CASE t = Main -> Idle
                                   [] t = Idle -> Main
                                   [] OTHER    -> NULL]
    /\ state = [t \in Threads |-> "READY"]
    /\ sleep_ticks = [t \in Threads |-> 0]
    /\ id = [t \in Threads |-> 0]
    /\ next_id = 1
    /\ zombie_head = NULL
    /\ alloc = [t \in Threads |-> t \in {Main, Idle}]
    /\ pc = [t \in Threads |-> CASE t = Main -> "boot"
                                 [] t = Idle -> "loop"
                                 [] OTHER    -> "none"]
    /\ keys = 0
    /\ gs = "user"
    /\ umap = NULL
    /\ job = NULL /\ pid = 0 /\ temp = NULL
    /\ fault = "none"

-----------------------------------------------------------------------------
\* Building blocks.

Running(t, at) == fault = "none" /\ current = t /\ pc[t] = at

Goto(t, to) == pc' = [pc EXCEPT ![t] = to]

\* The position of u on a walk along nx that starts behind t.
Hops(nx, t, u) ==
    LET at[i \in 1..Cardinality(Threads)] ==
            IF i = 1 THEN nx[t] ELSE IF at[i-1] = NULL THEN NULL ELSE nx[at[i-1]]
    IN  CHOOSE i \in DOMAIN at : at[i] = u /\ \A j \in 1..(i-1) : at[j] # u

\* yield(), entered with the thread states st, scans the run list from behind
\* the caller, or from behind idle if the caller is a zombie.
StartNode_AlwaysIdle(st) == Idle
StartNode(st) == IF st[current] = "ZOMBIE" THEN Idle ELSE current

\* Its first pass makes expired sleepers ready; its second pass stops at the
\* first ready thread other than idle.
Expire(st) ==
    [t \in Threads |-> IF t \in Ring' /\ st[t] = "SLEEPING" /\ sleep_ticks'[t] = 0
                       THEN "READY" ELSE st[t]]

Runnable_NotSleeping(st) == {t \in Ring' \ {Idle} : st[t] # "SLEEPING"}
Runnable(st) == {t \in Ring' \ {Idle} : st[t] = "READY"}

\* When there is none, the caller goes on if it is ready, and idle runs if not.
Yield(st) ==
    LET woken == Expire(st)
        dist(t) == Hops(next', StartNode(st), t)
    IN  /\ state' = woken
        /\ \/ \E t \in Runnable(woken) :
                /\ \A u \in Runnable(woken) : dist(t) <= dist(u)
                /\ current' = t
           \/ /\ Runnable(woken) = {}
              /\ current' = IF woken[current] = "READY" THEN current ELSE Idle

\* thread_add by the running thread, which goes on at label to: t starts at
\* label at, in state st, right behind the running thread on the run list.
NewId(t) ==
    /\ id' = [id EXCEPT ![t] = next_id]
    /\ next_id' = next_id + 1

ThreadAdd(t, at, st, to) ==
    /\ ~alloc[t] /\ next_id <= MaxId
    /\ alloc' = [alloc EXCEPT ![t] = TRUE]
    /\ NewId(t)
    /\ next' = [next EXCEPT ![t] = next[current], ![current] = t]
    /\ state' = [state EXCEPT ![t] = st]
    /\ sleep_ticks' = [sleep_ticks EXCEPT ![t] = 0]
    /\ pc' = [pc EXCEPT ![t] = at, ![current] = to]
    /\ UNCHANGED <<current, zombie_head, keys, gs, pid, temp, fault>>

\* What thread_exit and thread_kill do to the lists: t is unlinked from the run
\* list and pushed on the zombie list.
Pred(t) == CHOOSE p \in Ring : next[p] = t

Bury_PushBeforeUnlink(t) ==
    /\ next' = [next EXCEPT ![Pred(t)] = zombie_head, ![t] = zombie_head]
    /\ zombie_head' = t
Bury_NextNotSet(t) ==
    /\ next' = [next EXCEPT ![Pred(t)] = next[t]]
    /\ zombie_head' = t
Bury(t) ==
    /\ next' = [next EXCEPT ![Pred(t)] = next[t], ![t] = zombie_head]
    /\ zombie_head' = t

\* thread_kill(i) by the running thread, which goes on at label to.
Victims_SelfAllowed(i) == {t \in Ring : id[t] = i /\ i # 0}
Victims(i) == {t \in Ring : id[t] = i /\ i \notin {0, id[Idle], id[current]}}

ThreadKill(i, to) ==
    /\ \/ \E t \in Victims(i) :
            /\ Bury(t)
            /\ state' = [state EXCEPT ![t] = "ZOMBIE"]
            /\ pc' = [pc EXCEPT ![current] = to, ![t] = "dead"]
       \/ /\ Victims(i) = {}
          /\ Goto(current, to)
          /\ UNCHANGED <<next, zombie_head, state>>
    /\ UNCHANGED <<current, sleep_ticks, id, next_id, alloc, keys, gs, umap,
                   job, pid, temp, fault>>

\* thread_sleep and timer_sleep up to the sti in front of their yield().
Sleep(t, n, to) ==
    /\ state' = [state EXCEPT ![t] = "SLEEPING"]
    /\ sleep_ticks' = [sleep_ticks EXCEPT ![t] = n]
    /\ Goto(t, to)
    /\ UNCHANGED <<current, next, id, next_id, zombie_head, alloc, keys, umap,
                   job, pid, temp, fault>>

\* Steps that only move the running thread along.
Step(t, to) ==
    /\ Goto(t, to)
    /\ UNCHANGED <<current, next, state, sleep_ticks, id, next_id, zombie_head,
                   alloc, keys, umap, job, fault>>

-----------------------------------------------------------------------------
\* The interrupt handlers.

\* An interrupt takes a halted thread out of its hlt.
Interrupted == [pc EXCEPT ![current] = IF @ = "hlt" THEN "loop" ELSE @]

\* timer_handler: every sleeper's count goes down, those that reach zero are
\* ready, then yield().
Ticked ==
    [t \in Threads |-> IF t \in Ring /\ state[t] = "SLEEPING" /\ sleep_ticks[t] > 0
                       THEN sleep_ticks[t] - 1 ELSE sleep_ticks[t]]

TimerIRQ ==
    /\ fault = "none" /\ current \in Ring
    /\ sleep_ticks' = Ticked
    /\ pc' = Interrupted
    /\ UNCHANGED <<next, id, next_id, zombie_head, alloc, keys, gs, umap, job,
                   pid, temp, fault>>
    /\ Yield([t \in Threads |->
                IF t \in Ring /\ state[t] = "SLEEPING" /\ Ticked[t] = 0
                THEN "READY" ELSE state[t]])

\* thread_wakeup_blocked.
Unblocked_SleepersToo ==
    [t \in Threads |-> IF t \in Ring THEN "READY" ELSE state[t]]
Unblocked ==
    [t \in Threads |-> IF t \in Ring /\ state[t] = "BLOCKED" THEN "READY" ELSE state[t]]

\* keyboard_handler for a key that yields a character: it is stored and every
\* blocked thread, whatever it waits for, is made ready.
KeyPress ==
    /\ fault = "none" /\ current \in Ring
    /\ keys < MaxKeys
    /\ KeysWhileLoading \/ pc[Shell] # "loading"
    /\ keys' = keys + 1
    /\ state' = Unblocked
    /\ pc' = Interrupted
    /\ UNCHANGED <<current, next, sleep_ticks, id, next_id, zombie_head, alloc,
                   gs, umap, job, pid, temp, fault>>

\* Both handlers walk the run list from current_thread until they are back at
\* it.  The zombie list ends in a null pointer, so for a thread that is already
\* on it the walk runs off its end and never comes back.
IRQWhileExiting ==
    /\ fault = "none" /\ current \notin Ring
    /\ fault' = "handler walk"
    /\ UNCHANGED <<current, next, state, sleep_ticks, id, next_id, zombie_head,
                   alloc, pc, keys, gs, umap, job, pid, temp>>

-----------------------------------------------------------------------------
\* The kernel's own threads.

\* A thread at a yield() call of its own.
CallYield(t) ==
    /\ fault = "none" /\ current = t /\ pc[t] \in YieldCalls
    /\ Goto(t, Resume(pc[t]))
    /\ UNCHANGED <<next, sleep_ticks, id, next_id, zombie_head, alloc, keys, gs,
                   umap, job, pid, temp, fault>>
    /\ Yield(state)

\* kernel_main: timer_sleep(500), then thread_add(start_user_code).
BootSleep ==
    /\ Running(Main, "boot")
    /\ Sleep(Main, MaxTicks, "bootsleep")
    /\ UNCHANGED gs

SpawnSetup ==
    /\ Running(Main, "spawn")
    /\ ThreadAdd(Setup, "start", "READY", "loop")
    /\ UNCHANGED <<umap, job>>

\* The threads on the list that starts at h.
ListFrom(h) ==
    {u \in Threads : \A S \in SUBSET Threads :
        (h \in S /\ \A v \in S : next[v] \in S \cup {NULL}) => u \in S}

Reclaimed_HeadOnly == {zombie_head} \ {NULL}
Reclaimed == IF zombie_head = NULL THEN {} ELSE ListFrom(zombie_head)

\* cleanup_zombies in the loops of kernel_main and idle_task, up to the hlt: the
\* threads on the zombie list are freed, and for a user thread whatever is
\* mapped at the fixed user addresses is freed and unmapped.
CleanupZombies(t) ==
    /\ t \in {Main, Idle} /\ Running(t, "loop")
    /\ zombie_head' = NULL
    /\ alloc' = [u \in Threads |-> alloc[u] /\ u \notin Reclaimed]
    /\ umap' = IF Reclaimed \cap Procs = {} THEN umap ELSE NULL
    /\ Goto(t, "hlt")
    /\ UNCHANGED <<current, next, state, sleep_ticks, id, next_id, keys, gs, job,
                   pid, temp, fault>>

\* start_user_code: thread_add(shell_run), then sys_exit called as a function,
\* with interrupts enabled.
SpawnShell ==
    /\ Running(Setup, "start")
    /\ ThreadAdd(Shell, "rd", "READY", "finish")
    /\ UNCHANGED <<umap, job>>

SetupExit ==
    /\ Running(Setup, "finish")
    /\ Bury(Setup)
    /\ state' = [state EXCEPT ![Setup] = "ZOMBIE"]
    /\ Goto(Setup, "exiting")
    /\ UNCHANGED <<current, sleep_ticks, id, next_id, alloc, keys, gs, umap, job,
                   pid, temp, fault>>

-----------------------------------------------------------------------------
\* keyboard_getchar in the shell, and the loop of sys_read in a process once it
\* has been blocked.  The test for input, the change of state and the yield()
\* are separate steps: interrupts are enabled.

CheckInput(t) ==
    /\ t \in {Shell} \cup Procs /\ Running(t, "rd")
    /\ Step(t, IF keys = 0 THEN "empty" ELSE "take")
    /\ UNCHANGED <<gs, pid, temp>>

Block(t) ==
    /\ Running(t, "empty")
    /\ state' = [state EXCEPT ![t] = "BLOCKED"]
    /\ Goto(t, "block")
    /\ UNCHANGED <<current, next, sleep_ticks, id, next_id, zombie_head, alloc,
                   keys, gs, umap, job, pid, temp, fault>>

Take(t) ==
    /\ Running(t, "take")
    /\ keys' = keys - 1
    /\ Goto(t, IF t = Shell THEN "cmd" ELSE "sysret")
    /\ UNCHANGED <<current, next, state, sleep_ticks, id, next_id, zombie_head,
                   alloc, gs, umap, job, pid, temp, fault>>

-----------------------------------------------------------------------------
\* The shell.

\* A key that completes no command, or a command that touches no thread (also
\* one that kex_load rejects before it makes a thread).
ShellOther ==
    /\ Running(Shell, "cmd")
    /\ Step(Shell, "rd")
    /\ UNCHANGED <<gs, pid, temp>>

\* cmd_sleep.
ShellSleep ==
    /\ Running(Shell, "cmd")
    /\ \E n \in 1..MaxTicks : Sleep(Shell, n, "cmdsleep")
    /\ UNCHANGED gs

\* cmd_pkill.
ShellKill ==
    /\ Running(Shell, "cmd")
    /\ \E i \in 0..MaxId : ThreadKill(i, "rd")

\* kex_load up to the sti behind thread_add: the process is on the run list and
\* BLOCKED, its stack is mapped at the fixed address.
KexLoad ==
    /\ Running(Shell, "cmd")
    /\ \E p \in Procs :
        /\ ThreadAdd(p, "user", "BLOCKED", "loading")
        /\ umap' = p
        /\ job' = p

\* kex_load when a frame for the image cannot be had: thread_kill(t->id).
KexLoadOom ==
    /\ Running(Shell, "loading")
    /\ ThreadKill(id[job], "rd")

\* The end of kex_load: t->state = THREAD_READY, and then return t->id.
KexLoadDone ==
    /\ Running(Shell, "loading")
    /\ state' = [state EXCEPT ![job] = "READY"]
    /\ Goto(Shell, "loaded")
    /\ UNCHANGED <<current, next, sleep_ticks, id, next_id, zombie_head, alloc,
                   keys, gs, umap, job, pid, temp, fault>>

KexLoadReturn_NextId ==
    /\ Running(Shell, "loaded")
    /\ pid' = next_id
    /\ Step(Shell, "wait")
    /\ UNCHANGED <<gs, temp>>
KexLoadReturn ==
    /\ Running(Shell, "loaded")
    /\ pid' = id[job]
    /\ Step(Shell, "wait")
    /\ UNCHANGED <<gs, temp>>

\* shell_execute's wait loop: thread_get_by_id(pid) walks the run list without
\* a lock, one node per step; thread_sleep(20) when it finds the process.
WaitStart_NoWait ==
    /\ Running(Shell, "wait")
    /\ Step(Shell, "rd")
    /\ UNCHANGED <<gs, pid, temp>>
WaitStart ==
    /\ Running(Shell, "wait")
    /\ temp' = next[Shell]
    /\ Step(Shell, "walk")
    /\ UNCHANGED <<gs, pid>>

WaitWalk ==
    /\ Running(Shell, "walk")
    /\ temp # NULL
    /\ Step(Shell, CASE temp = Shell                 -> "rd"
                     [] temp # Shell /\ id[temp] = pid -> "nap"
                     [] OTHER                        -> "walk")
    /\ temp' = IF temp # Shell /\ id[temp] # pid THEN next[temp] ELSE temp
    /\ UNCHANGED <<gs, pid>>

\* The cursor stood on a thread that left the run list meanwhile: it followed
\* the zombie list to its null pointer, or reads a thread_t that was freed and
\* whose memory may be in use for something else.
WaitWalkLost ==
    /\ Running(Shell, "walk")
    /\ temp \notin Ring \cup Zombies
    /\ fault' = "wait walk"
    /\ UNCHANGED <<current, next, state, sleep_ticks, id, next_id, zombie_head,
                   alloc, pc, keys, gs, umap, job, pid, temp>>

WaitSleep_Blocks ==
    /\ Running(Shell, "nap")
    /\ state' = [state EXCEPT ![Shell] = "BLOCKED"]
    /\ Goto(Shell, "waitsleep")
    /\ UNCHANGED <<current, next, sleep_ticks, id, next_id, zombie_head, alloc,
                   keys, gs, umap, job, pid, temp, fault>>
WaitSleep ==
    /\ Running(Shell, "nap")
    /\ Sleep(Shell, MaxTicks, "waitsleep")
    /\ UNCHANGED gs

-----------------------------------------------------------------------------
\* The process.  syscall_entry clears IF and does swapgs; what a system call
\* does up to its first sti or yield() is one step.  The swapgs in front of
\* sysret is SysRet.

Swap == gs' = IF gs = "user" THEN "kernel" ELSE "user"

SysReadNow(p) ==
    /\ Running(p, "user") /\ keys > 0
    /\ keys' = keys - 1
    /\ Swap
    /\ Goto(p, "sysret")
    /\ UNCHANGED <<current, next, state, sleep_ticks, id, next_id, zombie_head,
                   alloc, umap, job, pid, temp, fault>>

SysReadBlock(p) ==
    /\ Running(p, "user") /\ keys = 0
    /\ Swap
    /\ Goto(p, "rd")
    /\ UNCHANGED <<next, sleep_ticks, id, next_id, zombie_head, alloc, keys,
                   umap, job, pid, temp, fault>>
    /\ Yield([state EXCEPT ![p] = "BLOCKED"])

SysSleep(p) ==
    /\ Running(p, "user")
    /\ \E n \in 1..MaxTicks : Sleep(p, n, "syssleep")
    /\ Swap

SysKill(p) ==
    /\ Running(p, "user")
    /\ \E i \in 0..MaxId : ThreadKill(i, "user")

\* sys_exit: a second swapgs, thread_exit, yield().
SysExit_NoSecondSwapgs(p) ==
    /\ Running(p, "user")
    /\ Bury(p)
    /\ Goto(p, "dead")
    /\ Swap
    /\ UNCHANGED <<sleep_ticks, id, next_id, alloc, keys, umap, job, pid, temp,
                   fault>>
    /\ Yield([state EXCEPT ![p] = "ZOMBIE"])
SysExit(p) ==
    /\ Running(p, "user")
    /\ Bury(p)
    /\ Goto(p, "dead")
    /\ UNCHANGED <<sleep_ticks, id, next_id, alloc, keys, gs, umap, job, pid,
                   temp, fault>>
    /\ Yield([state EXCEPT ![p] = "ZOMBIE"])

SysRet(p) ==
    /\ Running(p, "sysret")
    /\ Swap
    /\ Step(p, "user")
    /\ UNCHANGED <<pid, temp>>

\* User code whose pages are gone, or not filled yet, faults; the handler
\* panics.
UserFault(p) ==
    /\ Running(p, "user")
    /\ umap # p \/ (pc[Shell] = "loading" /\ job = p)
    /\ fault' = "user fault"
    /\ UNCHANGED <<current, next, state, sleep_ticks, id, next_id, zombie_head,
                   alloc, pc, keys, gs, umap, job, pid, temp>>

\* panic() halts with interrupts disabled.
Halted == fault # "none" /\ UNCHANGED vars
-----------------------------------------------------------------------------
ThreadStep ==
    \/ \E t \in Threads : \/ CallYield(t) \/ CleanupZombies(t)
                          \/ CheckInput(t) \/ Block(t) \/ Take(t)
    \/ BootSleep \/ SpawnSetup \/ SpawnShell \/ SetupExit
    \/ ShellOther \/ ShellSleep \/ ShellKill
    \/ KexLoad \/ KexLoadOom \/ KexLoadDone \/ KexLoadReturn
    \/ WaitStart \/ WaitWalk \/ WaitWalkLost \/ WaitSleep
    \/ \E p \in Procs : SysRet(p)

UserStep ==
    \E p \in Procs : \/ SysReadNow(p) \/ SysReadBlock(p) \/ SysSleep(p)
                     \/ SysKill(p) \/ SysExit(p) \/ UserFault(p)

Next == TimerIRQ \/ KeyPress \/ IRQWhileExiting \/ ThreadStep \/ UserStep \/ Halted

Spec == Init /\ [][Next]_vars

\* The timer keeps firing, and a thread that is given the CPU again and again
\* gets to execute; user code is under no obligation.
FairSpec ==
    Spec /\ WF_vars(TimerIRQ) /\ \A t \in Threads : SF_vars(current = t /\ ThreadStep)
-----------------------------------------------------------------------------
\* Safety.

\* Following nx inside R goes round one cycle through all of R.
OneCycle(R, nx) ==
    /\ \A t \in R : nx[t] \in R
    /\ \A s, t \in R : nx[s] = nx[t] => s = t
    /\ \A S \in SUBSET R : S # {} /\ (\A t \in S : nx[t] \in S) => S = R

\* Following nx from h goes once through all of Z and ends in NULL.
Chain(Z, h, nx) ==
    /\ h \in Z \cup {NULL}
    /\ h = NULL => Z = {}
    /\ \A t \in Z : nx[t] \in Z \cup {NULL}
    /\ \A S \in SUBSET Z : h \in S /\ (\A t \in S : nx[t] \in S \cup {NULL}) => S = Z
    /\ \A S \in SUBSET Z : S # {} => \E t \in S : nx[t] \notin S

\* The run list is one cycle of all live threads, kernel and sys_idle always
\* among them.  The walks of thread.cpp and timer.cpp (do ... while back at the
\* start) come to an end and miss nobody because of this.
RunListIsOneCycle == {Main, Idle} \subseteq Ring /\ OneCycle(Ring, next)

\* The zombie list holds exactly the threads that are off the run list and not
\* freed, each of them once, and ends in a null pointer: cleanup_zombies frees
\* every dead thread, none twice, and comes to an end.
ZombieListIsComplete == Chain(Zombies, zombie_head, next)

\* The running thread's structure and kernel stack are never freed under it, and
\* it is on the run list unless it is inside thread_exit: no zombie is ever
\* switched to, and cleanup_zombies never frees the stack it runs on.
CurrentIsAlive ==
    alloc[current] /\ (current \in Ring \/ pc[current] = "exiting")

\* No two threads on the run list share an id, kernel and sys_idle apart (both
\* have id 0): thread_kill and thread_get_by_id find the thread that is meant.
IdsAreUnique ==
    \A s, t \in Ring : s # t /\ id[s] = id[t] => {s, t} = {Main, Idle}

\* User code runs with the user's GS base active, whatever was scheduled while
\* the process was inside a system call: the swapgs of syscall_entry then loads
\* the kernel's data.
UserRunsWithUserGs ==
    \A p \in Procs : current = p /\ pc[p] = "user" => gs = "user"

\* The wait loop of shell_execute keeps user processes apart: there is never more
\* than one on the run list.  They would share one stack and image mapping, and
\* take characters from an empty keyboard buffer: the test for input and the read
\* are separate steps in keyboard_getchar, and only one reader at a time is safe.
OneProcessAtATime ==
    /\ \A p, q \in Procs : p \in Ring /\ q \in Ring => p = q
    /\ keys >= 0

\* yield and the timer only switch to threads that are ready to run.
SwitchesOnlyToReady ==
    [][current' # current => current' \in Ring' /\ state'[current'] = "READY"]_vars

\* A sleeper becomes ready only on the tick that ends its sleep: no key press, no
\* yield of another thread and no loader cuts a sleep short.
SleepIsNotCutShort ==
    [][\A t \in Ring : state[t] = "SLEEPING" /\ state'[t] = "READY"
                        => sleep_ticks[t] <= 1 /\ sleep_ticks'[t] = 0]_vars

\* The shell returns to its prompt only when the process it waits for has left
\* the run list, although it looks for it without a lock.
WaitEndsOnlyAfterExit ==
    [][pc[Shell] = "walk" /\ pc'[Shell] = "rd" => job \notin Ring]_vars

-----------------------------------------------------------------------------
\* Liveness; a panic ends every obligation.

\* Every dead thread is eventually freed.
ZombiesAreReaped ==
    \A t \in Threads : t \in Zombies ~> ~alloc[t] \/ fault # "none"

\* Every sleep ends, and round robin: a thread that sleeps or is ready (sys_idle
\* apart) eventually runs, whatever the others do, user code that never gives the
\* CPU up included.
ReadyThreadsRun ==
    \A t \in Threads \ {Idle} :
        t \in Ring /\ state[t] \in {"READY", "SLEEPING"}
            ~> (current = t /\ state[t] = "READY") \/ t \notin Ring \/ fault # "none"

\* When the process the shell waits for is gone, the shell comes back to its
\* prompt.
PromptReturns ==
    pc[Shell] \in {"loaded", "wait", "walk", "nap", "waitsleep"} /\ job \notin Ring
        ~> pc[Shell] = "rd" \/ Shell \notin Ring \/ fault # "none"

-----------------------------------------------------------------------------
\* What comments of the repository say, and the code does not keep.

\* kex_loader.cpp: "Disable interrupts to prevent scheduler from picking up the
\* new thread before content is loaded".
NotRunBeforeLoaded == pc[Shell] = "loading" => current # job

\* sys_file.cpp: "If we have nothing, block and wait".
BlocksOnlyWithoutInput ==
    \A t \in Ring : state[t] = "BLOCKED" /\ pc[t] \in {"block", "rd"} => keys = 0
=============================================================================
