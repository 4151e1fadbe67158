--------------------------- MODULE SchedulerProofs ---------------------------
(***************************************************************************)
(* Proofs about Scheduler, for any number of process structures and any    *)
(* values of the bounds.  First the lists: the run list stays one cycle,   *)
(* the zombie list stays complete, and the running thread stays alive.     *)
(* Then the shell and the processes it starts: there is one process at a   *)
(* time, the shell waits for it to its end, swapgs is balanced and no      *)
(* sleep is cut short.                                                     *)
(*                                                                         *)
(* The invariant of the second part (JInv and what follows it) says which  *)
(* thread can be at which label (Homes), in which order the threads are    *)
(* spawned, and what the shell knows of its process while it waits         *)
(* (OneJob).  The last two results are for keyboards that are quiet while  *)
(* a program is loaded (~KeysWhileLoading): a key then wakes the loader.   *)
(***************************************************************************)
EXTENDS Scheduler, TLAPS

\* Linking a new thread behind c, as thread_add does, keeps the run list one
\* cycle.
LEMMA InsertKeepsCycle ==
    ASSUME NEW nx \in [Threads -> Threads \cup {NULL}],
           NEW R \in SUBSET Threads, NEW c \in R, NEW t \in Threads \ R,
           OneCycle(R, nx)
    PROVE  OneCycle(R \cup {t}, [nx EXCEPT ![t] = nx[c], ![c] = t])
<1> DEFINE nx2 == [nx EXCEPT ![t] = nx[c], ![c] = t]
<1>0. /\ c # t /\ nx2[t] = nx[c] /\ nx2[c] = t
      /\ \A u \in R \ {c} : nx2[u] = nx[u]
  OBVIOUS
<1>1. \A u \in R : nx[u] \in R /\ nx[u] # t
  BY DEF OneCycle
<1>2. \A u, v \in R : nx[u] = nx[v] => u = v
  BY DEF OneCycle
<1>. HIDE DEF nx2
<1>3. \A u \in R \cup {t} : nx2[u] \in R \cup {t}
  BY <1>0, <1>1
<1>4. \A u, v \in R \cup {t} : nx2[u] = nx2[v] => u = v
  BY <1>0, <1>1, <1>2
<1>5. ASSUME NEW S \in SUBSET (R \cup {t}), S # {}, \A u \in S : nx2[u] \in S
      PROVE  S = R \cup {t}
  <2>1. \A u \in S \ {t} : nx[u] \in S \ {t}
    <3>1. SUFFICES ASSUME NEW u \in S \ {t} PROVE nx[u] \in S \ {t}
      OBVIOUS
    <3>2. CASE u = c
      BY <3>2, <1>0, <1>1, <1>5
    <3>3. CASE u # c
      BY <3>3, <1>0, <1>1, <1>5
    <3>. QED BY <3>2, <3>3
  <2>2. S \ {t} # {}
    BY <1>0, <1>1, <1>5
  <2>3. S \ {t} = R
    BY <2>1, <2>2 DEF OneCycle
  <2>4. t \in S
    BY <2>3, <1>0, <1>5
  <2>. QED BY <2>3, <2>4
<1>. QED
  BY <1>3, <1>4, <1>5 DEF OneCycle, nx2

\* Every thread of a run list with at least two members has a predecessor other
\* than itself: the searches of thread_exit and thread_kill find one.
LEMMA PredecessorExists ==
    ASSUME NEW nx, NEW R, NEW t \in R, NEW m \in R, m # t, OneCycle(R, nx)
    PROVE  \E p \in R \ {t} : nx[p] = t
<1>1. SUFFICES ASSUME \A p \in R \ {t} : nx[p] # t PROVE FALSE
  OBVIOUS
<1>2. \A u \in R \ {t} : nx[u] \in R \ {t}
  BY <1>1 DEF OneCycle
<1>3. R \ {t} = R
  BY <1>2 DEF OneCycle
<1>. QED BY <1>3

\* Unlinking t, whose predecessor is p, keeps the run list one cycle.
LEMMA RemoveKeepsCycle ==
    ASSUME NEW nx \in [Threads -> Threads \cup {NULL}],
           NEW R \in SUBSET Threads, NEW t \in R, NEW p \in R, p # t, nx[p] = t,
           NEW h \in Threads \cup {NULL}, OneCycle(R, nx)
    PROVE  OneCycle(R \ {t}, [nx EXCEPT ![p] = nx[t], ![t] = h])
<1> DEFINE nx2 == [nx EXCEPT ![p] = nx[t], ![t] = h]
<1>0. nx2[p] = nx[t] /\ \A u \in R \ {t, p} : nx2[u] = nx[u]
  OBVIOUS
<1>1. \A u \in R : nx[u] \in R
  BY DEF OneCycle
<1>2. \A u, v \in R : nx[u] = nx[v] => u = v
  BY DEF OneCycle
<1>. HIDE DEF nx2
<1>3. \A u \in R \ {t} : nx2[u] \in R \ {t}
  BY <1>0, <1>1, <1>2
<1>4. \A u, v \in R \ {t} : nx2[u] = nx2[v] => u = v
  BY <1>0, <1>1, <1>2
<1>5. ASSUME NEW S \in SUBSET (R \ {t}), S # {}, \A u \in S : nx2[u] \in S
      PROVE  S = R \ {t}
  <2>1. CASE p \in S
    <3>1. \A u \in S \cup {t} : nx[u] \in S \cup {t}
      BY <2>1, <1>0, <1>5
    <3>2. S \cup {t} \in SUBSET R /\ S \cup {t} # {}
      OBVIOUS
    <3>3. S \cup {t} = R
      BY <3>1, <3>2 DEF OneCycle
    <3>. QED BY <3>3
  <2>2. CASE p \notin S
    <3>1. \A u \in S : nx[u] \in S
      BY <2>2, <1>0, <1>5
    <3>2. S = R
      BY <3>1, <1>5 DEF OneCycle
    <3>. QED BY <3>2, <2>2
  <2>. QED BY <2>1, <2>2
<1>. QED
  BY <1>3, <1>4, <1>5 DEF OneCycle, nx2

\* Pushing t on the zombie list keeps it complete and null-terminated.
LEMMA PushKeepsChain ==
    ASSUME NEW nx, NEW nx2, NEW Z \in SUBSET Threads, NEW h,
           NEW t \in Threads \ Z, Chain(Z, h, nx),
           nx2[t] = h, \A u \in Z : nx2[u] = nx[u], NULL \notin Threads
    PROVE  Chain(Z \cup {t}, t, nx2)
<1>1. h \in Z \cup {NULL} /\ \A u \in Z : nx[u] \in Z \cup {NULL}
  BY DEF Chain
<1>2. \A u \in Z \cup {t} : nx2[u] \in (Z \cup {t}) \cup {NULL}
  BY <1>1
<1>3. ASSUME NEW S \in SUBSET (Z \cup {t}), t \in S,
             \A u \in S : nx2[u] \in S \cup {NULL}
      PROVE  S = Z \cup {t}
  <2>1. CASE h = NULL
    BY <2>1, <1>3 DEF Chain
  <2>2. CASE h # NULL
    <3>1. h \in S \ {t}
      BY <2>2, <1>1, <1>3
    <3>2. \A u \in S \ {t} : nx[u] \in (S \ {t}) \cup {NULL}
      BY <1>1, <1>3
    <3>3. S \ {t} = Z
      BY <3>1, <3>2 DEF Chain
    <3>. QED BY <3>3, <1>3
  <2>. QED BY <2>1, <2>2
<1>4. ASSUME NEW S \in SUBSET (Z \cup {t}), S # {}
      PROVE  \E u \in S : nx2[u] \notin S
  <2>1. CASE S \ {t} = {}
    BY <2>1, <1>1, <1>4
  <2>2. CASE S \ {t} # {}
    <3>1. PICK u \in S \ {t} : nx[u] \notin S \ {t}
      BY <2>2 DEF Chain
    <3>2. nx2[u] \notin S
      BY <3>1, <1>1
    <3>. QED BY <3>2
  <2>. QED BY <2>1, <2>2
<1>. QED
  BY <1>2, <1>3, <1>4 DEF Chain

\* The list operations elsewhere leave the zombie list alone.
LEMMA ChainDependsOnItsMembers ==
    ASSUME NEW nx, NEW nx2, NEW Z, NEW h, Chain(Z, h, nx),
           \A u \in Z : nx2[u] = nx[u]
    PROVE  Chain(Z, h, nx2)
BY DEF Chain

\* cleanup_zombies reaches every zombie and nothing else.
LEMMA ReclaimedAreTheZombies ==
    ASSUME TypeOK, ZombieListIsComplete, NULL \notin Threads
    PROVE  Reclaimed = Zombies
<1>1. CASE zombie_head = NULL
  BY <1>1 DEF Reclaimed, ZombieListIsComplete, Chain
<1>2. CASE zombie_head # NULL
  <2>1. Zombies \in SUBSET Threads /\ zombie_head \in Zombies
        /\ \A v \in Zombies : next[v] \in Zombies \cup {NULL}
    BY <1>2 DEF ZombieListIsComplete, Chain, Zombies
  <2>2. ListFrom(zombie_head) \subseteq Zombies
    BY <2>1 DEF ListFrom
  <2>3. ASSUME NEW S \in SUBSET Threads, zombie_head \in S,
               \A v \in S : next[v] \in S \cup {NULL}
        PROVE  Zombies \subseteq S
    <3>1. \A v \in S \cap Zombies : next[v] \in (S \cap Zombies) \cup {NULL}
      BY <2>1, <2>3
    <3>2. S \cap Zombies = Zombies
      BY <3>1, <2>1, <2>3 DEF ZombieListIsComplete, Chain
    <3>. QED BY <3>2
  <2>4. Zombies \subseteq ListFrom(zombie_head)
    BY <2>1, <2>3 DEF ListFrom
  <2>. QED BY <1>2, <2>2, <2>4 DEF Reclaimed
<1>. QED BY <1>1, <1>2

-----------------------------------------------------------------------------
\* The inductive invariant.

Off == {"none", "exiting", "dead"}

\* Where threads can be: only start_user_code's thread is ever interruptible
\* inside thread_exit, idle never waits, and kex_load has a thread to load.
Places ==
    /\ \A t \in Threads : alloc[t] => pc[t] # "none"
    /\ \A t \in Threads : pc[t] = "exiting" => t = Setup /\ state[t] = "ZOMBIE"
    /\ pc[Idle] \in {"loop", "hlt"} /\ state[Idle] = "READY"
    /\ pc[Shell] \in {"loading", "loaded"} => job \in Procs

\* Ids: kernel and sys_idle have id 0, all others positive ids already handed out.
IdsInRange ==
    /\ id[Main] = 0 /\ id[Idle] = 0 /\ next_id > 0
    /\ \A t \in Ring : id[t] < next_id
    /\ \A t \in Ring \ {Main, Idle} : id[t] > 0

Lists == RunListIsOneCycle /\ ZombieListIsComplete /\ IdsAreUnique /\ IdsInRange

IInv == TypeOK /\ Lists /\ Places /\ CurrentIsAlive

\* The initial state satisfies the invariant.
LEMMA InitEstablishes == Init => IInv
<1> SUFFICES ASSUME Init PROVE IInv
  OBVIOUS
<1> USE DistinctThreads, Bounds
<1>1. TypeOK
  BY DEF Init, TypeOK, Threads, States, Labels
<1>2. Ring = {Main, Idle} /\ Zombies = {}
  BY DEF Init, Ring, Zombies, Threads
<1>3. next[Main] = Idle /\ next[Idle] = Main /\ Main # Idle
  BY DEF Init, Threads
<1>4. OneCycle(Ring, next)
  <2>1. ASSUME NEW S \in SUBSET {Main, Idle}, S # {}, \A t \in S : next[t] \in S
        PROVE  S = {Main, Idle}
    BY <2>1, <1>3
  <2>. QED BY <1>2, <1>3, <2>1 DEF OneCycle
<1>5. ZombieListIsComplete
  BY <1>2 DEF Init, ZombieListIsComplete, Chain
<1>6. Lists
  BY <1>2, <1>4, <1>5 DEF Init, Lists, RunListIsOneCycle, IdsAreUnique, IdsInRange, Threads
<1>7. Places /\ CurrentIsAlive
  BY <1>2 DEF Init, Places, CurrentIsAlive, Threads
<1>. QED BY <1>1, <1>6, <1>7 DEF IInv

\* A running thread that is not inside thread_exit is on the run list.
LEMMA RunningOnRing ==
    ASSUME IInv, pc[current] # "exiting"
    PROVE  current \in Ring /\ pc[current] \notin Off
BY DEF IInv, CurrentIsAlive, Ring, Off

\* A step that moves threads between places of the run list only, and changes
\* neither links nor ids, keeps the lists.
LEMMA MovesKeepLists ==
    ASSUME IInv, UNCHANGED <<next, zombie_head, alloc, id, next_id>>,
           \A t \in Threads : \/ pc'[t] = pc[t]
                              \/ pc[t] \notin Off /\ pc'[t] \notin Off
                              \/ pc[t] = "exiting" /\ pc'[t] = "dead"
    PROVE  Lists' /\ Ring' = Ring /\ Zombies' = Zombies
<1>1. Ring' = Ring /\ Zombies' = Zombies
  BY DEF Ring, Zombies, Off
<1>. QED
  BY <1>1 DEF IInv, Lists, RunListIsOneCycle, ZombieListIsComplete, IdsAreUnique, IdsInRange

\* yield() switches to a thread of the run list, to a ready one if it switches
\* at all, and changes no state off the run list.
LEMMA YieldPicks ==
    ASSUME NEW st \in [Threads -> States], current \in Threads, Idle \in Ring',
           st[Idle] = "READY", current \in Ring' \/ st[current] = "ZOMBIE",
           Yield(st)
    PROVE  /\ state' \in [Threads -> States]
           /\ current' \in Ring'
           /\ current' # current => state'[current'] = "READY"
           /\ state'[Idle] = "READY"
           /\ \A t \in Threads : st[t] = "ZOMBIE" => state'[t] = "ZOMBIE"
<1>1. state' = Expire(st)
  BY DEF Yield
<1>2. /\ Expire(st) \in [Threads -> States]
      /\ Expire(st)[Idle] = "READY"
      /\ \A t \in Threads : st[t] = "ZOMBIE" => Expire(st)[t] = "ZOMBIE"
  BY DEF Expire, States, Threads
<1>3. \/ current' \in Runnable(Expire(st))
      \/ current' = IF Expire(st)[current] = "READY" THEN current ELSE Idle
  BY DEF Yield
<1>4. CASE current' \in Runnable(Expire(st))
  BY <1>1, <1>2, <1>4 DEF Runnable
<1>5. CASE current' = IF Expire(st)[current] = "READY" THEN current ELSE Idle
  BY <1>1, <1>2, <1>5
<1>. QED BY <1>3, <1>4, <1>5

\* The part of the type invariant that concerns what thread_add writes.
AddTypeOK ==
    /\ next \in [Threads -> Threads \cup {NULL}] /\ state \in [Threads -> States]
    /\ sleep_ticks \in [Threads -> 0..MaxTicks] /\ alloc \in [Threads -> BOOLEAN]
    /\ id \in [Threads -> Nat] /\ next_id \in Nat /\ pc \in [Threads -> Labels]

\* thread_add by the running thread keeps the lists: the new thread is behind it.
LEMMA AddKeepsLists ==
    ASSUME IInv, pc[current] # "exiting", NEW t \in Threads \ {Main, Idle},
           NEW at \in Labels \ Off, NEW st \in States, NEW to \in Labels \ Off,
           ThreadAdd(t, at, st, to)
    PROVE  Lists' /\ Ring' = Ring \cup {t} /\ current' = current /\ AddTypeOK'
<1> USE DistinctThreads, Bounds
<1>1. current \in Ring /\ pc[current] \notin Off /\ t \notin Ring /\ t \notin Zombies
      /\ TypeOK /\ current # t
  BY RunningOnRing DEF IInv, ThreadAdd, Ring, Zombies
<1>2. /\ Ring' = Ring \cup {t} /\ Zombies' = Zombies /\ current' = current
      /\ zombie_head' = zombie_head
      /\ next' = [next EXCEPT ![t] = next[current], ![current] = t]
  <2>1. /\ alloc'[t] /\ pc'[t] = at
        /\ \A u \in Threads \ {t} : alloc'[u] = alloc[u]
        /\ \A u \in Threads \ {t, current} : pc'[u] = pc[u]
        /\ pc'[current] = to /\ current \in Threads
    BY <1>1 DEF ThreadAdd, TypeOK
  <2>2. Ring' = Ring \cup {t}
    BY <1>1, <2>1 DEF Ring, Off
  <2>3. Zombies' = Zombies
    BY <1>1, <2>1 DEF Zombies, Off
  <2>. QED BY <2>2, <2>3 DEF ThreadAdd
<1>3. RunListIsOneCycle'
  <2>1. next \in [Threads -> Threads \cup {NULL}] /\ Ring \in SUBSET Threads
        /\ t \in Threads \ Ring
    BY <1>1 DEF TypeOK, Ring
  <2>2. OneCycle(Ring, next) /\ {Main, Idle} \subseteq Ring
    BY DEF IInv, Lists, RunListIsOneCycle
  <2>3. OneCycle(Ring', next')
    BY <1>1, <1>2, <2>1, <2>2, InsertKeepsCycle
  <2>. QED BY <1>2, <2>2, <2>3 DEF RunListIsOneCycle
<1>4. ZombieListIsComplete'
  <2>1. \A u \in Zombies : next'[u] = next[u]
    BY <1>1, <1>2 DEF TypeOK, Ring, Zombies
  <2>2. Chain(Zombies, zombie_head, next)
    BY DEF IInv, Lists, ZombieListIsComplete
  <2>3. Chain(Zombies, zombie_head, next')
    BY <2>1, <2>2, ChainDependsOnItsMembers
  <2>. QED BY <1>2, <2>3 DEF ZombieListIsComplete
<1>5. /\ id' = [id EXCEPT ![t] = next_id] /\ next_id' = next_id + 1
      /\ id \in [Threads -> Nat] /\ next_id \in Nat
  BY <1>1 DEF ThreadAdd, NewId, TypeOK
<1>6. /\ id'[t] = next_id
      /\ \A u \in Ring : id'[u] = id[u] /\ id'[u] < next_id
  BY <1>1, <1>5 DEF IInv, Lists, IdsInRange, Ring
<1>7. IdsInRange'
  BY <1>2, <1>5, <1>6 DEF IInv, Lists, IdsInRange, RunListIsOneCycle, Ring
<1>8. IdsAreUnique'
  <2>1. \A u \in Ring : id'[u] # id'[t]
    BY <1>5, <1>6 DEF Ring
  <2>2. \A u, v \in Ring : u # v /\ id'[u] = id'[v] => {u, v} = {Main, Idle}
    BY <1>6 DEF IInv, Lists, IdsAreUnique
  <2>. QED BY <1>2, <2>1, <2>2 DEF IdsAreUnique
<1>9. AddTypeOK'
  <2>0. 0 \in 0..MaxTicks
    BY DEF Bounds
  <2>1. current \in Threads
    BY <1>1 DEF TypeOK
  <2>2. next' \in [Threads -> Threads \cup {NULL}]
    BY <1>1, <1>2, <2>1 DEF TypeOK
  <2>3. pc' \in [Threads -> Labels]
    BY <1>1, <2>1 DEF ThreadAdd, TypeOK
  <2>4. state' \in [Threads -> States] /\ sleep_ticks' \in [Threads -> 0..MaxTicks]
    BY <1>1, <2>0, <2>1 DEF ThreadAdd, TypeOK
  <2>5. alloc' \in [Threads -> BOOLEAN]
    BY <1>1 DEF ThreadAdd, TypeOK
  <2>6. id' \in [Threads -> Nat] /\ next_id' \in Nat
    BY <1>5
  <2>. QED BY <2>2, <2>3, <2>4, <2>5, <2>6 DEF AddTypeOK
<1>. QED BY <1>2, <1>3, <1>4, <1>7, <1>8, <1>9 DEF Lists

\* Taking a thread other than kernel and sys_idle off the run list, and pushing
\* it on the zombie list, keeps both lists; o is any other thread that moves on.
LEMMA BuryKeepsLists ==
    ASSUME IInv, NEW t \in Ring \ {Main, Idle}, Bury(t),
           UNCHANGED <<alloc, id, next_id>>, pc'[t] \in {"exiting", "dead"},
           \A u \in Threads \ {t} : \/ pc'[u] = pc[u]
                                    \/ pc[u] \notin Off /\ pc'[u] \notin Off
    PROVE  Lists' /\ Ring' = Ring \ {t} /\ Zombies' = Zombies \cup {t}
           /\ next' \in [Threads -> Threads \cup {NULL}]
<1> USE DistinctThreads
<1>1. /\ TypeOK /\ {Main, Idle} \subseteq Ring /\ OneCycle(Ring, next)
      /\ Chain(Zombies, zombie_head, next)
  BY DEF IInv, Lists, RunListIsOneCycle, ZombieListIsComplete
<1>2. Ring' = Ring \ {t} /\ Zombies' = Zombies \cup {t} /\ t \notin Zombies
  BY DEF Ring, Zombies, Off
<1>3. \E p \in Ring \ {t} : next[p] = t
  BY <1>1, PredecessorExists
<1>4. Pred(t) \in Ring /\ next[Pred(t)] = t
  BY <1>3 DEF Pred
<1>5. Pred(t) # t
  BY <1>1, <1>3, <1>4 DEF OneCycle
<1>6. /\ next' = [next EXCEPT ![Pred(t)] = next[t], ![t] = zombie_head]
      /\ zombie_head' = t
  BY DEF Bury
<1>7. /\ next \in [Threads -> Threads \cup {NULL}]
      /\ zombie_head \in Threads \cup {NULL}
      /\ Ring \in SUBSET Threads /\ Zombies \in SUBSET Threads
      /\ Pred(t) \in Threads /\ t \in Threads
  BY <1>1, <1>4 DEF TypeOK, Ring, Zombies
<1>8. next' \in [Threads -> Threads \cup {NULL}]
  BY <1>6, <1>7
<1>9. OneCycle(Ring', next')
  BY <1>1, <1>2, <1>4, <1>5, <1>6, <1>7, RemoveKeepsCycle
<1>10. Chain(Zombies', zombie_head', next')
  <2>1. \A u \in Zombies : next'[u] = next[u]
    BY <1>2, <1>4, <1>6, <1>7 DEF Ring, Zombies
  <2>2. next'[t] = zombie_head
    BY <1>6, <1>7
  <2>3. NULL \notin Threads
    OBVIOUS
  <2>4. Chain(Zombies \cup {t}, t, next')
    BY <1>1, <1>2, <1>7, <2>1, <2>2, <2>3, PushKeepsChain
  <2>. QED BY <1>2, <1>6, <2>4
<1>11. IdsAreUnique' /\ IdsInRange'
  BY <1>2 DEF IInv, Lists, IdsAreUnique, IdsInRange
<1>. QED
  BY <1>1, <1>2, <1>8, <1>9, <1>10, <1>11
     DEF Lists, RunListIsOneCycle, ZombieListIsComplete

\* The running thread moves on and touches no list.
Moved ==
    /\ pc[current] # "exiting"
    /\ pc'[current] \notin Off /\ \A t \in Threads \ {current} : pc'[t] = pc[t]
    /\ UNCHANGED <<current, next, zombie_head, alloc, id, next_id>>

\* Such a step keeps the invariant.
LEMMA MoveKeeps ==
    ASSUME IInv, Moved, TypeOK', Places'
    PROVE  IInv'
<1>1. current \in Ring /\ pc[current] \notin Off
  BY RunningOnRing DEF Moved
<1>2. \A t \in Threads : pc'[t] = pc[t] \/ (pc[t] \notin Off /\ pc'[t] \notin Off)
  BY <1>1 DEF Moved, IInv, TypeOK
<1>3. Lists' /\ Ring' = Ring
  BY <1>2, MovesKeepLists DEF Moved
<1>. QED BY <1>1, <1>3 DEF Moved, IInv, CurrentIsAlive, Ring

\* Every step of the system keeps the invariant.
LEMMA StepKeeps == IInv /\ [Next]_vars => IInv'
<1> SUFFICES ASSUME IInv, [Next]_vars PROVE IInv'
  OBVIOUS
<1> USE DistinctThreads, Bounds
<1>0. /\ TypeOK /\ Lists /\ Places /\ CurrentIsAlive
      /\ {Main, Idle} \subseteq Ring /\ Main \in Threads /\ Idle \in Threads
      /\ Setup \in Threads /\ Shell \in Threads /\ Procs \subseteq Threads
  BY DEF IInv, Lists, RunListIsOneCycle, Threads
<1>1. ASSUME BootSleep PROVE IInv'
  <2>1. TypeOK'
    BY <1>1, <1>0 DEF BootSleep, Sleep, Running, Goto, Places, TypeOK, Labels, YieldCalls, States
  <2>2. Moved
    BY <1>1, <1>0 DEF Moved, BootSleep, Sleep, Running, Goto, TypeOK, Off
  <2>3. Places'
    BY <1>1, <1>0 DEF BootSleep, Sleep, Running, Goto, Places, TypeOK
  <2>. QED BY <2>1, <2>2, <2>3, MoveKeeps
<1>2. ASSUME NEW t \in Threads, CheckInput(t) PROVE IInv'
  <2>1. TypeOK'
    BY <1>2, <1>0 DEF CheckInput, Step, Running, Goto, Places, TypeOK, Labels, YieldCalls, States
  <2>2. Moved
    BY <1>2, <1>0 DEF Moved, CheckInput, Step, Running, Goto, TypeOK, Off
  <2>3. Places'
    BY <1>2, <1>0 DEF CheckInput, Step, Running, Goto, Places, TypeOK
  <2>. QED BY <2>1, <2>2, <2>3, MoveKeeps
<1>3. ASSUME NEW t \in Threads, Block(t) PROVE IInv'
  <2>1. TypeOK'
    BY <1>3, <1>0 DEF Block, Running, Goto, Places, TypeOK, Labels, YieldCalls, States
  <2>2. Moved
    BY <1>3, <1>0 DEF Moved, Block, Running, Goto, TypeOK, Off
  <2>3. Places'
    BY <1>3, <1>0 DEF Block, Running, Goto, Places, TypeOK
  <2>. QED BY <2>1, <2>2, <2>3, MoveKeeps
<1>4. ASSUME NEW t \in Threads, Take(t) PROVE IInv'
  <2>1. TypeOK'
    BY <1>4, <1>0 DEF Take, Running, Goto, Places, TypeOK, Labels, YieldCalls, States
  <2>2. Moved
    BY <1>4, <1>0 DEF Moved, Take, Running, Goto, TypeOK, Off
  <2>3. Places'
    BY <1>4, <1>0 DEF Take, Running, Goto, Places, TypeOK
  <2>. QED BY <2>1, <2>2, <2>3, MoveKeeps
<1>5. ASSUME ShellOther PROVE IInv'
  <2>1. TypeOK'
    BY <1>5, <1>0 DEF ShellOther, Step, Running, Goto, Places, TypeOK, Labels, YieldCalls, States
  <2>2. Moved
    BY <1>5, <1>0 DEF Moved, ShellOther, Step, Running, Goto, TypeOK, Off
  <2>3. Places'
    BY <1>5, <1>0 DEF ShellOther, Step, Running, Goto, Places, TypeOK
  <2>. QED BY <2>1, <2>2, <2>3, MoveKeeps
<1>6. ASSUME ShellSleep PROVE IInv'
  <2>1. TypeOK'
    BY <1>6, <1>0 DEF ShellSleep, Sleep, Running, Goto, Places, TypeOK, Labels, YieldCalls, States
  <2>2. Moved
    BY <1>6, <1>0 DEF Moved, ShellSleep, Sleep, Running, Goto, TypeOK, Off
  <2>3. Places'
    BY <1>6, <1>0 DEF ShellSleep, Sleep, Running, Goto, Places, TypeOK
  <2>. QED BY <2>1, <2>2, <2>3, MoveKeeps
<1>7. ASSUME KexLoadDone PROVE IInv'
  <2>1. TypeOK'
    BY <1>7, <1>0 DEF KexLoadDone, Running, Goto, Places, TypeOK, Labels, YieldCalls, States
  <2>2. Moved
    BY <1>7, <1>0 DEF Moved, KexLoadDone, Running, Goto, TypeOK, Off
  <2>3. Places'
    BY <1>7, <1>0 DEF KexLoadDone, Running, Goto, Places, TypeOK
  <2>. QED BY <2>1, <2>2, <2>3, MoveKeeps
<1>8. ASSUME KexLoadReturn PROVE IInv'
  <2>1. TypeOK'
    BY <1>8, <1>0 DEF KexLoadReturn, Step, Running, Goto, Places, TypeOK, Labels, YieldCalls, States
  <2>2. Moved
    BY <1>8, <1>0 DEF Moved, KexLoadReturn, Step, Running, Goto, TypeOK, Off
  <2>3. Places'
    BY <1>8, <1>0 DEF KexLoadReturn, Step, Running, Goto, Places, TypeOK
  <2>. QED BY <2>1, <2>2, <2>3, MoveKeeps
<1>9. ASSUME WaitStart PROVE IInv'
  <2>1. TypeOK'
    BY <1>9, <1>0 DEF WaitStart, Step, Running, Goto, Places, TypeOK, Labels, YieldCalls, States
  <2>2. Moved
    BY <1>9, <1>0 DEF Moved, WaitStart, Step, Running, Goto, TypeOK, Off
  <2>3. Places'
    BY <1>9, <1>0 DEF WaitStart, Step, Running, Goto, Places, TypeOK
  <2>. QED BY <2>1, <2>2, <2>3, MoveKeeps
<1>10. ASSUME WaitWalk PROVE IInv'
  <2>1. TypeOK'
    BY <1>10, <1>0 DEF WaitWalk, Step, Running, Goto, Places, TypeOK, Labels, YieldCalls, States
  <2>2. Moved
    BY <1>10, <1>0 DEF Moved, WaitWalk, Step, Running, Goto, TypeOK, Off
  <2>3. Places'
    BY <1>10, <1>0 DEF WaitWalk, Step, Running, Goto, Places, TypeOK
  <2>. QED BY <2>1, <2>2, <2>3, MoveKeeps
<1>11. ASSUME WaitSleep PROVE IInv'
  <2>1. TypeOK'
    BY <1>11, <1>0 DEF WaitSleep, Sleep, Running, Goto, Places, TypeOK, Labels, YieldCalls, States
  <2>2. Moved
    BY <1>11, <1>0 DEF Moved, WaitSleep, Sleep, Running, Goto, TypeOK, Off
  <2>3. Places'
    BY <1>11, <1>0 DEF WaitSleep, Sleep, Running, Goto, Places, TypeOK
  <2>. QED BY <2>1, <2>2, <2>3, MoveKeeps
<1>12. ASSUME NEW p \in Procs, SysReadNow(p) PROVE IInv'
  <2>1. TypeOK'
    BY <1>12, <1>0 DEF SysReadNow, Swap, Running, Goto, Places, TypeOK, Labels, YieldCalls, States
  <2>2. Moved
    BY <1>12, <1>0 DEF Moved, SysReadNow, Swap, Running, Goto, TypeOK, Off
  <2>3. Places'
    BY <1>12, <1>0 DEF SysReadNow, Swap, Running, Goto, Places, TypeOK
  <2>. QED BY <2>1, <2>2, <2>3, MoveKeeps
<1>13. ASSUME NEW p \in Procs, SysSleep(p) PROVE IInv'
  <2>1. TypeOK'
    BY <1>13, <1>0 DEF SysSleep, Sleep, Swap, Running, Goto, Places, TypeOK, Labels, YieldCalls, States
  <2>2. Moved
    BY <1>13, <1>0 DEF Moved, SysSleep, Sleep, Swap, Running, Goto, TypeOK, Off
  <2>3. Places'
    BY <1>13, <1>0 DEF SysSleep, Sleep, Swap, Running, Goto, Places, TypeOK
  <2>. QED BY <2>1, <2>2, <2>3, MoveKeeps
<1>14. ASSUME NEW p \in Procs, SysRet(p) PROVE IInv'
  <2>1. TypeOK'
    BY <1>14, <1>0 DEF SysRet, Step, Swap, Running, Goto, Places, TypeOK, Labels, YieldCalls, States
  <2>2. Moved
    BY <1>14, <1>0 DEF Moved, SysRet, Step, Swap, Running, Goto, TypeOK, Off
  <2>3. Places'
    BY <1>14, <1>0 DEF SysRet, Step, Swap, Running, Goto, Places, TypeOK
  <2>. QED BY <2>1, <2>2, <2>3, MoveKeeps
<1>15. ASSUME KeyPress PROVE IInv'
  <2>1. TypeOK'
    BY <1>15, <1>0 DEF KeyPress, Interrupted, Unblocked, TypeOK, Labels, States
  <2>2. pc[current] # "exiting" /\ pc[current] \notin Off
    BY <1>15 DEF KeyPress, Ring, Off
  <2>3. Moved
    BY <1>15, <1>0, <2>2 DEF Moved, KeyPress, Interrupted, TypeOK, Off
  <2>4. Places'
    BY <1>15, <1>0 DEF KeyPress, Interrupted, Unblocked, Places, TypeOK, Ring
  <2>. QED BY <2>1, <2>3, <2>4, MoveKeeps
\* A panic changes nothing but fault.
<1>16. ASSUME UNCHANGED <<current, next, state, sleep_ticks, id, next_id, zombie_head,
                          alloc, pc, keys, gs, umap, job, pid, temp>>,
              fault' \in {"none", "handler walk", "wait walk", "user fault"}
       PROVE  IInv'
  <2>1. Lists' /\ Ring' = Ring
    BY <1>16, MovesKeepLists
  <2>2. TypeOK' /\ Places' /\ CurrentIsAlive'
    BY <1>0, <1>16, <2>1 DEF TypeOK, Places, CurrentIsAlive
  <2>. QED BY <2>1, <2>2 DEF IInv
<1>17. ASSUME TimerIRQ PROVE IInv'
  <2> DEFINE st == [t \in Threads |-> IF t \in Ring /\ state[t] = "SLEEPING" /\ Ticked[t] = 0
                                      THEN "READY" ELSE state[t]]
  <2>1. /\ st \in [Threads -> States] /\ st[Idle] = "READY" /\ Yield(st)
        /\ \A t \in Threads : state[t] = "ZOMBIE" => st[t] = "ZOMBIE"
    BY <1>17, <1>0 DEF TimerIRQ, TypeOK, States, Places
  <2>. HIDE DEF st
  <2>2. current \in Ring /\ pc[current] \notin Off /\ pc' = Interrupted
    BY <1>17 DEF TimerIRQ, Ring, Off
  <2>3. \A t \in Threads : pc'[t] = pc[t] \/ (pc[t] \notin Off /\ pc'[t] \notin Off)
    BY <1>0, <2>2 DEF Interrupted, TypeOK, Off
  <2>4. Lists' /\ Ring' = Ring
    BY <1>17, <2>3, MovesKeepLists DEF TimerIRQ
  <2>5. /\ state' \in [Threads -> States] /\ current' \in Ring' /\ state'[Idle] = "READY"
        /\ \A t \in Threads : st[t] = "ZOMBIE" => state'[t] = "ZOMBIE"
    BY <1>0, <2>1, <2>2, <2>4, YieldPicks DEF TypeOK
  <2>6. sleep_ticks' \in [Threads -> 0..MaxTicks]
    BY <1>17, <1>0 DEF TimerIRQ, Ticked, TypeOK
  <2>7. TypeOK'
    <3>1. pc' \in [Threads -> Labels]
      BY <1>0, <2>2 DEF Interrupted, TypeOK, Labels
    <3>2. current' \in Threads
      BY <2>5 DEF Ring
    <3>. QED BY <1>17, <1>0, <2>5, <2>6, <3>1, <3>2 DEF TimerIRQ, TypeOK
  <2>8. Places'
    BY <1>17, <1>0, <2>1, <2>2, <2>5 DEF TimerIRQ, Interrupted, TypeOK, Places
  <2>. QED BY <2>4, <2>5, <2>7, <2>8 DEF IInv, CurrentIsAlive, Ring
<1>18. ASSUME NEW t \in Threads, CallYield(t) PROVE IInv'
  <2>1. /\ t = current /\ pc[current] \in YieldCalls /\ Yield(state)
        /\ pc' = [pc EXCEPT ![current] = Resume(pc[current])]
        /\ UNCHANGED <<next, sleep_ticks, id, next_id, zombie_head, alloc, keys, gs,
                       umap, job, pid, temp, fault>>
    BY <1>18 DEF CallYield, Goto
  <2>2. \/ pc[current] = "exiting" /\ pc'[current] = "dead"
        \/ pc[current] \notin Off /\ pc'[current] \notin Off \cup {"loading", "loaded"}
    BY <1>0, <2>1 DEF YieldCalls, TypeOK, Resume, Off
  <2>3. Lists' /\ Ring' = Ring
    BY <1>0, <2>1, <2>2, MovesKeepLists DEF TypeOK
  <2>4. state[Idle] = "READY" /\ (current \in Ring' \/ state[current] = "ZOMBIE")
    BY <1>0, <2>3 DEF Places, CurrentIsAlive, TypeOK
  <2>5. /\ state' \in [Threads -> States] /\ current' \in Ring' /\ state'[Idle] = "READY"
        /\ \A u \in Threads : state[u] = "ZOMBIE" => state'[u] = "ZOMBIE"
    BY <1>0, <2>1, <2>3, <2>4, YieldPicks DEF TypeOK
  <2>6. TypeOK'
    BY <1>0, <2>1, <2>5 DEF TypeOK, Labels, YieldCalls, Resume, Ring
  <2>7. Places'
    BY <1>0, <2>1, <2>2, <2>5 DEF TypeOK, Places, Off, YieldCalls
  <2>. QED BY <2>3, <2>5, <2>6, <2>7 DEF IInv, CurrentIsAlive, Ring
<1>19. ASSUME NEW p \in Procs, SysReadBlock(p) PROVE IInv'
  <2> DEFINE st == [state EXCEPT ![p] = "BLOCKED"]
  <2>1. /\ p = current /\ pc[current] = "user" /\ pc' = [pc EXCEPT ![current] = "rd"]
        /\ Yield(st) /\ gs' \in {"user", "kernel"}
        /\ UNCHANGED <<next, sleep_ticks, id, next_id, zombie_head, alloc, keys,
                       umap, job, pid, temp, fault>>
    BY <1>19 DEF SysReadBlock, Running, Goto, Swap
  <2>2. st \in [Threads -> States] /\ st[Idle] = "READY"
        /\ \A u \in Threads \ Procs : st[u] = state[u]
    BY <1>0 DEF TypeOK, States, Places
  <2>. HIDE DEF st
  <2>3. \A t \in Threads : pc'[t] = pc[t] \/ (pc[t] \notin Off /\ pc'[t] \notin Off)
    BY <1>0, <2>1 DEF TypeOK, Off
  <2>4. Lists' /\ Ring' = Ring /\ current \in Ring
    BY <2>1, <2>3, MovesKeepLists, RunningOnRing
  <2>5. /\ state' \in [Threads -> States] /\ current' \in Ring' /\ state'[Idle] = "READY"
        /\ \A u \in Threads : st[u] = "ZOMBIE" => state'[u] = "ZOMBIE"
    BY <1>0, <2>1, <2>2, <2>4, YieldPicks DEF TypeOK
  <2>6. TypeOK'
    BY <1>0, <2>1, <2>5 DEF TypeOK, Labels, Ring
  <2>7. Places'
    BY <1>0, <2>1, <2>2, <2>5 DEF TypeOK, Places
  <2>. QED BY <2>4, <2>5, <2>6, <2>7 DEF IInv, CurrentIsAlive, Ring
<1>20. ASSUME NEW p \in Procs, SysExit(p) PROVE IInv'
  <2> DEFINE st == [state EXCEPT ![p] = "ZOMBIE"]
  <2>1. /\ p = current /\ pc[current] = "user" /\ pc' = [pc EXCEPT ![p] = "dead"]
        /\ Yield(st) /\ Bury(p)
        /\ UNCHANGED <<sleep_ticks, id, next_id, alloc, keys, gs, umap, job, pid,
                       temp, fault>>
    BY <1>20 DEF SysExit, Running, Goto
  <2>2. /\ st \in [Threads -> States] /\ st[Idle] = "READY" /\ st[current] = "ZOMBIE"
        /\ \A u \in Threads \ Procs : st[u] = state[u]
    BY <1>0, <2>1 DEF TypeOK, States, Places
  <2>. HIDE DEF st
  <2>3. p \in Ring \ {Main, Idle}
    BY <2>1, RunningOnRing
  <2>4. pc'[p] = "dead" /\ \A u \in Threads \ {p} : pc'[u] = pc[u]
    BY <1>0, <2>1 DEF TypeOK
  <2>5. Lists' /\ next' \in [Threads -> Threads \cup {NULL}] /\ Idle \in Ring'
    BY <1>0, <2>1, <2>3, <2>4, BuryKeepsLists
  <2>6. /\ state' \in [Threads -> States] /\ current' \in Ring' /\ state'[Idle] = "READY"
        /\ \A u \in Threads : st[u] = "ZOMBIE" => state'[u] = "ZOMBIE"
    BY <1>0, <2>1, <2>2, <2>5, YieldPicks DEF TypeOK
  <2>7. TypeOK'
    <3>1. pc' \in [Threads -> Labels]
      BY <1>0, <2>1 DEF TypeOK, Labels
    <3>2. current' \in Threads /\ zombie_head' \in Threads
      BY <2>1, <2>3, <2>6 DEF Ring, Bury
    <3>. QED BY <1>0, <2>1, <2>5, <2>6, <3>1, <3>2 DEF TypeOK
  <2>8. Places'
    <3>1. Idle # p /\ Shell # p /\ Setup # p /\ {Idle, Shell, Setup} \subseteq Threads \ Procs
      BY DistinctThreads DEF Threads
    <3>2. \A u \in Threads : alloc'[u] => pc'[u] # "none"
      BY <1>0, <2>1, <2>4 DEF Places
    <3>3. \A u \in Threads : pc'[u] = "exiting" => u = Setup /\ state'[u] = "ZOMBIE"
      BY <1>0, <2>2, <2>4, <2>6, <3>1 DEF Places
    <3>. QED BY <1>0, <2>1, <2>4, <2>6, <3>1, <3>2, <3>3 DEF Places
  <2>. QED BY <2>5, <2>6, <2>7, <2>8 DEF IInv, CurrentIsAlive, Ring
<1>21. ASSUME SpawnSetup PROVE IInv'
  <2>1. current = Main /\ pc[current] = "spawn" /\ ThreadAdd(Setup, "start", "READY", "loop")
        /\ UNCHANGED <<umap, job>>
    BY <1>21 DEF SpawnSetup, Running
  <2>2. Lists' /\ Ring' = Ring \cup {Setup} /\ current' = current /\ AddTypeOK'
    BY <1>0, <2>1, AddKeepsLists DEF Labels, Off, States
  <2>3. TypeOK'
    BY <1>0, <2>1, <2>2 DEF ThreadAdd, AddTypeOK, TypeOK
  <2>4. Places'
    BY <1>0, <2>1 DEF ThreadAdd, TypeOK, Places
  <2>. QED BY <1>0, <2>1, <2>2, <2>3, <2>4 DEF IInv, CurrentIsAlive, Ring
<1>22. ASSUME SpawnShell PROVE IInv'
  <2>1. current = Setup /\ pc[current] = "start" /\ ThreadAdd(Shell, "rd", "READY", "finish")
        /\ UNCHANGED <<umap, job>>
    BY <1>22 DEF SpawnShell, Running
  <2>2. Lists' /\ Ring' = Ring \cup {Shell} /\ current' = current /\ current \in Ring /\ AddTypeOK'
    BY <1>0, <2>1, AddKeepsLists, RunningOnRing DEF Labels, Off, States
  <2>3. TypeOK'
    BY <1>0, <2>1, <2>2 DEF ThreadAdd, AddTypeOK, TypeOK
  <2>4. Places'
    BY <1>0, <2>1 DEF ThreadAdd, TypeOK, Places
  <2>. QED BY <2>2, <2>3, <2>4 DEF IInv, CurrentIsAlive, Ring
<1>23. ASSUME KexLoad PROVE IInv'
  <2>1. PICK p \in Procs : ThreadAdd(p, "user", "BLOCKED", "loading") /\ umap' = p /\ job' = p
    BY <1>23 DEF KexLoad
  <2>2. current = Shell /\ pc[current] = "cmd"
    BY <1>23 DEF KexLoad, Running
  <2>3. Lists' /\ Ring' = Ring \cup {p} /\ current' = current /\ current \in Ring /\ AddTypeOK'
    BY <1>0, <2>1, <2>2, AddKeepsLists, RunningOnRing DEF Labels, Off, States
  <2>4. TypeOK'
    BY <1>0, <2>1, <2>3 DEF ThreadAdd, AddTypeOK, TypeOK
  <2>5. Places'
    BY <1>0, <2>1, <2>2 DEF ThreadAdd, TypeOK, Places
  <2>. QED BY <2>3, <2>4, <2>5 DEF IInv, CurrentIsAlive, Ring
<1>24. ASSUME NEW i, NEW to \in {"rd", "user"}, ThreadKill(i, to),
              current # Idle, pc[current] # "exiting"
       PROVE  IInv'
  <2>0. current \in Ring /\ pc[current] \notin Off /\ to \in Labels \ Off
    BY <1>24, RunningOnRing DEF Labels, Off
  <2>1. CASE Victims(i) = {}
    <3>1. /\ pc' = [pc EXCEPT ![current] = to]
          /\ UNCHANGED <<current, next, zombie_head, state, sleep_ticks, id, next_id,
                         alloc, keys, gs, umap, job, pid, temp, fault>>
      BY <1>24, <2>1 DEF ThreadKill, Goto
    <3>2. Moved
      BY <1>0, <1>24, <2>0, <3>1 DEF Moved, TypeOK
    <3>3. TypeOK' /\ Places'
      BY <1>0, <1>24, <2>0, <3>1 DEF TypeOK, Places
    <3>. QED BY <3>2, <3>3, MoveKeeps
  <2>2. ASSUME NEW t \in Victims(i), Bury(t), state' = [state EXCEPT ![t] = "ZOMBIE"],
               pc' = [pc EXCEPT ![current] = to, ![t] = "dead"]
        PROVE  IInv'
    <3>1. t \in Ring \ {Main, Idle} /\ t # current
      BY <1>0 DEF Victims, Lists, IdsInRange
    <3>2. UNCHANGED <<current, sleep_ticks, id, next_id, alloc, keys, gs, umap, job,
                      pid, temp, fault>>
      BY <1>24 DEF ThreadKill
    <3>3. /\ pc'[t] = "dead" /\ pc'[current] = to
          /\ \A u \in Threads \ {t, current} : pc'[u] = pc[u]
      BY <1>0, <2>2, <3>1 DEF TypeOK, Ring
    <3>4. \A u \in Threads \ {t} : pc'[u] = pc[u] \/ (pc[u] \notin Off /\ pc'[u] \notin Off)
      BY <2>0, <3>3
    <3>5. Lists' /\ next' \in [Threads -> Threads \cup {NULL}] /\ Ring' = Ring \ {t}
      BY <2>2, <3>1, <3>2, <3>3, <3>4, BuryKeepsLists
    <3>6. TypeOK'
      BY <1>0, <2>0, <2>2, <3>1, <3>2, <3>5 DEF TypeOK, Labels, States, Bury, Ring
    <3>7. Places'
      BY <1>0, <1>24, <2>2, <3>1, <3>2, <3>3 DEF TypeOK, Places, Ring
    <3>. QED BY <2>0, <3>1, <3>2, <3>5, <3>6, <3>7 DEF IInv, CurrentIsAlive, Ring
  <2>. QED BY <1>24, <2>1, <2>2 DEF ThreadKill
<1>25. ASSUME ShellKill \/ KexLoadOom \/ (\E p \in Procs : SysKill(p)) PROVE IInv'
  BY <1>0, <1>24, <1>25 DEF ShellKill, KexLoadOom, SysKill, Running
<1>26. ASSUME SetupExit PROVE IInv'
  <2>1. /\ current = Setup /\ pc[current] = "finish" /\ Bury(Setup)
        /\ state' = [state EXCEPT ![Setup] = "ZOMBIE"] /\ pc' = [pc EXCEPT ![Setup] = "exiting"]
        /\ UNCHANGED <<current, sleep_ticks, id, next_id, alloc, keys, gs, umap, job,
                       pid, temp, fault>>
    BY <1>26 DEF SetupExit, Running, Goto
  <2>2. Setup \in Ring \ {Main, Idle} /\ alloc[Setup]
    BY <2>1, RunningOnRing DEF Ring
  <2>3. pc'[Setup] = "exiting" /\ \A u \in Threads \ {Setup} : pc'[u] = pc[u]
    BY <1>0, <2>1 DEF TypeOK
  <2>4. Lists' /\ next' \in [Threads -> Threads \cup {NULL}]
    BY <2>1, <2>2, <2>3, BuryKeepsLists
  <2>5. TypeOK'
    BY <1>0, <2>1, <2>4 DEF TypeOK, Labels, YieldCalls, States, Bury
  <2>6. Places'
    BY <1>0, <2>1, <2>2, <2>3 DEF TypeOK, Places
  <2>. QED BY <2>1, <2>2, <2>3, <2>4, <2>5, <2>6 DEF IInv, CurrentIsAlive
<1>27. ASSUME NEW t \in Threads, CleanupZombies(t) PROVE IInv'
  <2>1. /\ current = t /\ pc[current] = "loop" /\ t \in {Main, Idle}
        /\ zombie_head' = NULL /\ pc' = [pc EXCEPT ![t] = "hlt"]
        /\ alloc' = [u \in Threads |-> alloc[u] /\ u \notin Zombies]
        /\ umap' \in Procs \cup {NULL}
        /\ UNCHANGED <<current, next, state, sleep_ticks, id, next_id, keys, gs, job,
                       pid, temp, fault>>
    BY <1>0, <1>27, ReclaimedAreTheZombies
       DEF CleanupZombies, Running, Goto, TypeOK, Lists
  <2>2. Ring' = Ring /\ Zombies' = {}
    BY <1>0, <2>1 DEF Ring, Zombies, TypeOK
  <2>3. ZombieListIsComplete'
    BY <2>1, <2>2 DEF ZombieListIsComplete, Chain
  <2>4. RunListIsOneCycle' /\ IdsAreUnique' /\ IdsInRange'
    BY <1>0, <2>1, <2>2 DEF Lists, RunListIsOneCycle, IdsAreUnique, IdsInRange
  <2>5. TypeOK'
    BY <1>0, <2>1 DEF TypeOK, Labels
  <2>6. Places'
    BY <1>0, <2>1 DEF TypeOK, Places
  <2>7. CurrentIsAlive'
    BY <1>0, <2>1, <2>2 DEF CurrentIsAlive, Ring
  <2>. QED BY <2>3, <2>4, <2>5, <2>6, <2>7 DEF IInv, Lists
<1>28. ASSUME \/ IRQWhileExiting \/ WaitWalkLost \/ (\E p \in Procs : UserFault(p))
              \/ Halted \/ UNCHANGED vars
       PROVE  IInv'
  BY <1>0, <1>16, <1>28 DEF IRQWhileExiting, WaitWalkLost, UserFault, Halted, vars, TypeOK
<1>29. CASE ThreadStep
  BY <1>29, <1>1, <1>2, <1>3, <1>4, <1>5, <1>6, <1>7, <1>8, <1>9, <1>10, <1>11, <1>14,
     <1>18, <1>21, <1>22, <1>23, <1>25, <1>26, <1>27, <1>28 DEF ThreadStep
<1>30. CASE UserStep
  BY <1>30, <1>12, <1>13, <1>19, <1>20, <1>25, <1>28 DEF UserStep
<1>. QED BY <1>15, <1>17, <1>28, <1>29, <1>30 DEF Next

\* The list structure, the uniqueness of ids and the life of the running thread
\* hold in every reachable state.
THEOREM ListsAreSound ==
    Spec => [](TypeOK /\ RunListIsOneCycle /\ ZombieListIsComplete
               /\ CurrentIsAlive /\ IdsAreUnique)
<1>1. IInv => TypeOK /\ RunListIsOneCycle /\ ZombieListIsComplete
              /\ CurrentIsAlive /\ IdsAreUnique
  BY DEF IInv, Lists
<1>. QED BY <1>1, InitEstablishes, StepKeeps, PTL DEF Spec

\* The zombie list holds every dead thread that is not freed yet, once: thread_exit and
\* thread_kill link it in, and only cleanup_zombies takes it out.
THEOREM ZombiesAreListed == Spec => []ZombieListIsComplete
BY ListsAreSound, PTL

\* The structure of the running thread is never freed under it, and it is on the run list
\* unless it is inside thread_exit.
THEOREM RunningThreadIsAlive == Spec => []CurrentIsAlive
BY ListsAreSound, PTL

\* No two threads of the run list have the same id (thread_add counts on), other than
\* kernel and sys_idle.
THEOREM IdsNameOneThread == Spec => []IdsAreUnique
BY ListsAreSound, PTL

\* The scheduler only ever switches to a ready thread of the run list: yield()
\* never resumes a thread that sleeps, waits or is dead.
THEOREM OnlyReadyThreadsAreResumed == Spec => SwitchesOnlyToReady
<1> USE DistinctThreads, Bounds
<1>1. ASSUME IInv, IInv', [Next]_vars
      PROVE  [current' # current => current' \in Ring' /\ state'[current'] = "READY"]_vars
  <2>1. /\ TypeOK /\ Places /\ Idle \in Ring' /\ Idle \in Threads /\ Procs \subseteq Threads
        /\ CurrentIsAlive
    BY <1>1 DEF IInv, Lists, RunListIsOneCycle, Threads
  <2>2. ASSUME NEW st \in [Threads -> States], st[Idle] = "READY", Yield(st),
               current \in Ring' \/ st[current] = "ZOMBIE", current' # current
        PROVE  current' \in Ring' /\ state'[current'] = "READY"
    BY <2>1, <2>2, YieldPicks DEF TypeOK
  <2>3. CASE TimerIRQ
    <3> DEFINE st == [t \in Threads |-> IF t \in Ring /\ state[t] = "SLEEPING" /\ Ticked[t] = 0
                                        THEN "READY" ELSE state[t]]
    <3>1. st \in [Threads -> States] /\ st[Idle] = "READY" /\ Yield(st)
      BY <2>1, <2>3 DEF TimerIRQ, TypeOK, States, Places
    <3>2. current \in Ring'
      BY <2>1, <2>3 DEF TimerIRQ, Ring, Interrupted, TypeOK
    <3>. QED BY <2>2, <3>1, <3>2
  <2>4. ASSUME NEW t \in Threads, CallYield(t), current' # current
        PROVE  current' \in Ring' /\ state'[current'] = "READY"
    <3>1. state \in [Threads -> States] /\ state[Idle] = "READY" /\ Yield(state)
      BY <2>1, <2>4 DEF CallYield, TypeOK, Places
    <3>2. current \in Ring' \/ state[current] = "ZOMBIE"
      BY <2>1, <2>4 DEF CallYield, Goto, TypeOK, Places, Ring, YieldCalls, Resume,
                        CurrentIsAlive
    <3>. QED BY <2>2, <2>4, <3>1, <3>2
  <2>5. ASSUME NEW p \in Procs, SysReadBlock(p), current' # current
        PROVE  current' \in Ring' /\ state'[current'] = "READY"
    <3> DEFINE st == [state EXCEPT ![p] = "BLOCKED"]
    <3>1. st \in [Threads -> States] /\ st[Idle] = "READY" /\ Yield(st)
      BY <2>1, <2>5 DEF SysReadBlock, TypeOK, States, Places
    <3>2. current \in Ring'
      BY <2>1, <2>5 DEF SysReadBlock, Running, Goto, TypeOK, Ring, CurrentIsAlive
    <3>. QED BY <2>2, <2>5, <3>1, <3>2
  <2>6. ASSUME NEW p \in Procs, SysExit(p), current' # current
        PROVE  current' \in Ring' /\ state'[current'] = "READY"
    <3> DEFINE st == [state EXCEPT ![p] = "ZOMBIE"]
    <3>1. st \in [Threads -> States] /\ st[Idle] = "READY" /\ Yield(st)
          /\ st[current] = "ZOMBIE"
      BY <2>1, <2>6 DEF SysExit, Running, TypeOK, States, Places
    <3>. QED BY <2>2, <2>6, <3>1
  <2>7. ASSUME ThreadStep, \A t \in Threads : ~CallYield(t) PROVE current' = current
    BY <2>7 DEF ThreadStep, CleanupZombies, CheckInput, Block, Take, BootSleep, SpawnSetup,
       SpawnShell, SetupExit, ShellOther, ShellSleep, ShellKill, KexLoad, KexLoadOom,
       KexLoadDone, KexLoadReturn, WaitStart, WaitWalk, WaitWalkLost, WaitSleep, SysRet,
       Step, Sleep, ThreadAdd, ThreadKill
  <2>8. ASSUME UserStep, \A p \in Procs : ~SysReadBlock(p) /\ ~SysExit(p)
        PROVE  current' = current
    BY <2>8 DEF UserStep, SysReadNow, SysSleep, SysKill, UserFault, Sleep, ThreadKill
  <2>9. CASE KeyPress \/ IRQWhileExiting \/ Halted \/ UNCHANGED vars
    BY <2>9 DEF KeyPress, IRQWhileExiting, Halted, vars
  <2>. QED BY <1>1, <2>3, <2>4, <2>5, <2>6, <2>7, <2>8, <2>9 DEF Next
<1>2. Spec => []IInv
  BY InitEstablishes, StepKeeps, PTL DEF Spec
<1>. QED BY <1>1, <1>2, PTL DEF Spec, SwitchesOnlyToReady
-----------------------------------------------------------------------------
(***************************************************************************)
(* The shell and its processes.                                            *)
(***************************************************************************)
\* Which threads can be at which labels.
Homes ==
    /\ pc[Main] \in {"boot", "bootsleep", "spawn", "loop", "hlt"}
    /\ pc[Setup] \in {"none", "start", "finish", "exiting", "dead"}
    /\ pc[Shell] \in {"none", "rd", "empty", "take", "block", "cmd", "cmdsleep", "loading",
                      "loaded", "wait", "walk", "nap", "waitsleep", "dead"}
    /\ \A p \in Procs : pc[p] \in {"none", "user", "rd", "empty", "take", "block", "sysret",
                                   "syssleep", "dead"}

\* kernel_main spawns start_user_code, that spawns the shell, and neither does so
\* again: thread_add is only called by the loader once there is a shell.
SpawnedInOrder ==
    /\ pc[Main] \notin {"loop", "hlt"} => pc[Setup] = "none"
    /\ pc[Setup] \in {"none", "start"} => pc[Shell] = "none"

\* A process on the run list is the one the shell started last, and the shell has
\* not come back to its prompt since; it looks for it under its own id.
Waiting == {"loading", "loaded", "wait", "walk", "nap", "waitsleep"}
OneJob ==
    /\ \A p \in Procs \cap Ring : p = job /\ pc[Shell] \in Waiting \cup {"dead"}
    /\ pc[Shell] \in Waiting => job \in Procs
    /\ pc[Shell] \in {"wait", "walk", "nap", "waitsleep"} => pid = id[job]

\* A thread that has seen a character still finds it when it takes it.
CharactersAreThere ==
    /\ keys >= 0
    /\ \A t \in Ring : pc[t] = "take" => keys > 0

\* The cursor of thread_get_by_id, on the run list, still has the process in front
\* of it: whoever follows the links from it meets the process before the shell.
\* Once the thread under it has left the run list, it never finds back to it.
CursorMeetsTheJob ==
    pc[Shell] = "walk" =>
      /\ temp \in Ring /\ job \in Ring =>
            \A S \in SUBSET Ring :
                temp \in S /\ (\A v \in S \ {Shell} : next[v] \in S) => job \in S
      /\ temp \notin Ring /\ temp # NULL =>
            \E S \in SUBSET (Threads \ Ring) :
                temp \in S /\ \A v \in S : next[v] \in S \cup {NULL}

JInv == Homes /\ SpawnedInOrder /\ OneJob /\ CharactersAreThere /\ CursorMeetsTheJob

\* A step that leaves the run list, the cursor and the process alone keeps the
\* cursor's position.
LEMMA CursorStays ==
    ASSUME CursorMeetsTheJob, Ring' = Ring, UNCHANGED <<next, temp, job>>,
           pc'[Shell] = "walk" => pc[Shell] = "walk"
    PROVE  CursorMeetsTheJob'
BY DEF CursorMeetsTheJob

\* Unlinking a thread keeps the cursor's position: the links around the gap lead to
\* the same threads, and a cursor on the unlinked thread is on the zombie list from
\* now on.
LEMMA CursorSurvivesBury ==
    ASSUME IInv, CursorMeetsTheJob, NEW t \in Ring \ {Main, Idle}, Bury(t),
           Ring' = Ring \ {t}, Zombies' = Zombies \cup {t}, ZombieListIsComplete',
           UNCHANGED <<temp, job>>, pc'[Shell] = "walk" => pc[Shell] = "walk"
    PROVE  CursorMeetsTheJob'
<1> USE DistinctThreads
<1> SUFFICES ASSUME pc'[Shell] = "walk" PROVE CursorMeetsTheJob'
  BY DEF CursorMeetsTheJob
<1>1. /\ TypeOK /\ {Main, Idle} \subseteq Ring /\ OneCycle(Ring, next)
      /\ Ring \subseteq Threads /\ Zombies \subseteq Threads /\ Ring \cap Zombies = {}
  BY DEF IInv, Lists, RunListIsOneCycle, Ring, Zombies
<1>2. \E p \in Ring \ {t} : next[p] = t
  BY <1>1, PredecessorExists
<1>3. PICK p \in Ring \ {t} : next[p] = t /\ p = Pred(t)
  BY <1>1, <1>2 DEF Pred, OneCycle
<1>4. /\ next'[p] = next[t] /\ next'[t] = zombie_head
      /\ \A u \in Threads \ {p, t} : next'[u] = next[u]
  BY <1>1, <1>3 DEF Bury, TypeOK
<1>5. CASE temp \in Ring \ {t}
  <2>1. ASSUME job \in Ring \ {t}, NEW S \in SUBSET (Ring \ {t}), temp \in S,
               \A v \in S \ {Shell} : next'[v] \in S
        PROVE  job \in S
    <3>1. CASE p \in S \ {Shell}
      <4>1. S \cup {t} \in SUBSET Ring /\ \A v \in (S \cup {t}) \ {Shell} : next[v] \in S \cup {t}
        BY <1>1, <1>3, <1>4, <2>1, <3>1
      <4>2. job \in S \cup {t}
        BY <1>5, <2>1, <4>1 DEF CursorMeetsTheJob
      <4>. QED BY <2>1, <4>2
    <3>2. CASE p \notin S \ {Shell}
      <4>1. S \in SUBSET Ring /\ \A v \in S \ {Shell} : next[v] \in S
        BY <1>1, <1>4, <2>1, <3>2
      <4>. QED BY <1>5, <2>1, <4>1 DEF CursorMeetsTheJob
    <3>. QED BY <3>1, <3>2
  <2>. QED BY <1>5, <2>1 DEF CursorMeetsTheJob
<1>6. CASE temp = t
  <2>1. \A v \in Zombies' : next'[v] \in Zombies' \cup {NULL}
    BY DEF ZombieListIsComplete, Chain
  <2>2. Zombies' \in SUBSET (Threads \ Ring') /\ temp' \in Zombies' /\ temp' \notin Ring'
    BY <1>1, <1>6
  <2>. QED BY <2>1, <2>2 DEF CursorMeetsTheJob
<1>7. CASE temp \notin Ring /\ temp # NULL
  <2>1. PICK S \in SUBSET (Threads \ Ring) : temp \in S /\ \A v \in S : next[v] \in S \cup {NULL}
    BY <1>7 DEF CursorMeetsTheJob
  <2>2. S \in SUBSET (Threads \ Ring') /\ \A v \in S : next'[v] \in S \cup {NULL}
    BY <1>3, <1>4, <2>1
  <2>. QED BY <1>7, <2>1, <2>2 DEF CursorMeetsTheJob
<1>8. CASE temp = NULL
  BY <1>1, <1>8 DEF CursorMeetsTheJob
<1>. QED BY <1>5, <1>6, <1>7, <1>8

\* The initial state.
LEMMA InitIsQuiet == Init => JInv
BY DistinctThreads DEF Init, JInv, Homes, SpawnedInOrder, OneJob, CharactersAreThere,
   CursorMeetsTheJob, Waiting, Ring, Threads

\* Every step keeps what is known of the shell and its process.
LEMMA StepKeepsJob == IInv /\ JInv /\ [Next]_vars => JInv'
<1> SUFFICES ASSUME IInv, JInv, [Next]_vars PROVE JInv'
  OBVIOUS
<1> USE DistinctThreads
<1>0. /\ TypeOK /\ Homes /\ SpawnedInOrder /\ OneJob /\ CharactersAreThere
      /\ CursorMeetsTheJob /\ CurrentIsAlive /\ Lists /\ Places
      /\ Main \in Threads /\ Idle \in Threads
      /\ Setup \in Threads /\ Shell \in Threads /\ Procs \subseteq Threads
      /\ Main \notin Procs /\ Idle \notin Procs /\ Setup \notin Procs /\ Shell \notin Procs
  BY DEF IInv, JInv, Threads
<1>1. ASSUME BootSleep PROVE JInv'
  <2>1. Ring' = Ring
    BY <1>0, <1>1 DEF Ring, BootSleep, Sleep, Running, Goto, TypeOK
  <2>2. Homes' /\ SpawnedInOrder'
    BY <1>0, <1>1 DEF Homes, SpawnedInOrder, BootSleep, Sleep, Running, Goto, TypeOK
  <2>3. OneJob'
    BY <1>0, <1>1, <2>1 DEF OneJob, Waiting, BootSleep, Sleep, Running, Goto, TypeOK
  <2>4. CharactersAreThere'
    BY <1>0, <1>1, <2>1 DEF CharactersAreThere, BootSleep, Sleep, Running, Goto, TypeOK
  <2>5. CursorMeetsTheJob'
    BY <1>0, <1>1, <2>1, CursorStays DEF BootSleep, Sleep, Running, Goto, TypeOK
  <2>. QED BY <2>2, <2>3, <2>4, <2>5 DEF JInv
<1>2. ASSUME NEW t \in Threads, CheckInput(t) PROVE JInv'
  <2>1. Ring' = Ring
    BY <1>0, <1>2 DEF Ring, CheckInput, Step, Running, Goto, TypeOK
  <2>2. Homes' /\ SpawnedInOrder'
    BY <1>0, <1>2 DEF Homes, SpawnedInOrder, CheckInput, Step, Running, Goto, TypeOK
  <2>3. OneJob'
    BY <1>0, <1>2, <2>1 DEF OneJob, Waiting, CheckInput, Step, Running, Goto, TypeOK
  <2>4. CharactersAreThere'
    BY <1>0, <1>2, <2>1 DEF CharactersAreThere, CheckInput, Step, Running, Goto, TypeOK
  <2>5. CursorMeetsTheJob'
    BY <1>0, <1>2, <2>1, CursorStays DEF CheckInput, Step, Running, Goto, TypeOK
  <2>. QED BY <2>2, <2>3, <2>4, <2>5 DEF JInv
<1>3. ASSUME NEW t \in Threads, Block(t) PROVE JInv'
  <2>1. Ring' = Ring
    BY <1>0, <1>3 DEF Ring, Block, Running, Goto, TypeOK
  <2>2. Homes' /\ SpawnedInOrder'
    BY <1>0, <1>3 DEF Homes, SpawnedInOrder, Block, Running, Goto, TypeOK
  <2>3. OneJob'
    BY <1>0, <1>3, <2>1 DEF OneJob, Waiting, Block, Running, Goto, TypeOK
  <2>4. CharactersAreThere'
    BY <1>0, <1>3, <2>1 DEF CharactersAreThere, Block, Running, Goto, TypeOK
  <2>5. CursorMeetsTheJob'
    BY <1>0, <1>3, <2>1, CursorStays DEF Block, Running, Goto, TypeOK
  <2>. QED BY <2>2, <2>3, <2>4, <2>5 DEF JInv
<1>4. ASSUME NEW t \in Threads, Take(t) PROVE JInv'
  <2>1. Ring' = Ring
    BY <1>0, <1>4 DEF Ring, Take, Running, Goto, TypeOK
  <2>2. Homes' /\ SpawnedInOrder'
    BY <1>0, <1>4 DEF Homes, SpawnedInOrder, Take, Running, Goto, TypeOK
  <2>3. OneJob'
    BY <1>0, <1>4, <2>1 DEF OneJob, Waiting, Take, Running, Goto, TypeOK
  <2>4. CharactersAreThere'
    <3>1. t \in Ring /\ current = t /\ pc[t] = "take" /\ keys' = keys - 1 /\ keys > 0
      BY <1>0, <1>4 DEF Take, Running, CurrentIsAlive, CharactersAreThere
    <3>2. \A u \in Ring : pc[u] = "take" => u = t
      BY <1>0, <3>1 DEF Homes, OneJob, Waiting, Ring, Threads, Places
    <3>3. \A u \in Ring : pc'[u] # "take"
      BY <1>0, <1>4, <3>1, <3>2 DEF Take, Goto, TypeOK, Ring
    <3>4. keys \in Int
      BY <1>0 DEF TypeOK
    <3>5. keys' >= 0
      BY <3>1, <3>4
    <3>. QED BY <2>1, <3>3, <3>5 DEF CharactersAreThere
  <2>5. CursorMeetsTheJob'
    BY <1>0, <1>4, <2>1, CursorStays DEF Take, Running, Goto, TypeOK
  <2>. QED BY <2>2, <2>3, <2>4, <2>5 DEF JInv
<1>5. ASSUME ShellOther PROVE JInv'
  <2>1. Ring' = Ring
    BY <1>0, <1>5 DEF Ring, ShellOther, Step, Running, Goto, TypeOK
  <2>2. Homes' /\ SpawnedInOrder'
    BY <1>0, <1>5 DEF Homes, SpawnedInOrder, ShellOther, Step, Running, Goto, TypeOK
  <2>3. OneJob'
    BY <1>0, <1>5, <2>1 DEF OneJob, Waiting, ShellOther, Step, Running, Goto, TypeOK
  <2>4. CharactersAreThere'
    BY <1>0, <1>5, <2>1 DEF CharactersAreThere, ShellOther, Step, Running, Goto, TypeOK
  <2>5. CursorMeetsTheJob'
    BY <1>0, <1>5, <2>1, CursorStays DEF ShellOther, Step, Running, Goto, TypeOK
  <2>. QED BY <2>2, <2>3, <2>4, <2>5 DEF JInv
<1>6. ASSUME ShellSleep PROVE JInv'
  <2>1. Ring' = Ring
    BY <1>0, <1>6 DEF Ring, ShellSleep, Sleep, Running, Goto, TypeOK
  <2>2. Homes' /\ SpawnedInOrder'
    BY <1>0, <1>6 DEF Homes, SpawnedInOrder, ShellSleep, Sleep, Running, Goto, TypeOK
  <2>3. OneJob'
    BY <1>0, <1>6, <2>1 DEF OneJob, Waiting, ShellSleep, Sleep, Running, Goto, TypeOK
  <2>4. CharactersAreThere'
    BY <1>0, <1>6, <2>1 DEF CharactersAreThere, ShellSleep, Sleep, Running, Goto, TypeOK
  <2>5. CursorMeetsTheJob'
    BY <1>0, <1>6, <2>1, CursorStays DEF ShellSleep, Sleep, Running, Goto, TypeOK
  <2>. QED BY <2>2, <2>3, <2>4, <2>5 DEF JInv
<1>7. ASSUME KexLoadDone PROVE JInv'
  <2>1. Ring' = Ring
    BY <1>0, <1>7 DEF Ring, KexLoadDone, Running, Goto, TypeOK
  <2>2. Homes' /\ SpawnedInOrder'
    BY <1>0, <1>7 DEF Homes, SpawnedInOrder, KexLoadDone, Running, Goto, TypeOK
  <2>3. OneJob'
    BY <1>0, <1>7, <2>1 DEF OneJob, Waiting, KexLoadDone, Running, Goto, TypeOK
  <2>4. CharactersAreThere'
    BY <1>0, <1>7, <2>1 DEF CharactersAreThere, KexLoadDone, Running, Goto, TypeOK
  <2>5. CursorMeetsTheJob'
    BY <1>0, <1>7, <2>1, CursorStays DEF KexLoadDone, Running, Goto, TypeOK
  <2>. QED BY <2>2, <2>3, <2>4, <2>5 DEF JInv
<1>8. ASSUME KexLoadReturn PROVE JInv'
  <2>1. Ring' = Ring
    BY <1>0, <1>8 DEF Ring, KexLoadReturn, Step, Running, Goto, TypeOK
  <2>2. Homes' /\ SpawnedInOrder'
    BY <1>0, <1>8 DEF Homes, SpawnedInOrder, KexLoadReturn, Step, Running, Goto, TypeOK
  <2>3. OneJob'
    BY <1>0, <1>8, <2>1 DEF OneJob, Waiting, KexLoadReturn, Step, Running, Goto, TypeOK
  <2>4. CharactersAreThere'
    BY <1>0, <1>8, <2>1 DEF CharactersAreThere, KexLoadReturn, Step, Running, Goto, TypeOK
  <2>5. CursorMeetsTheJob'
    BY <1>0, <1>8, <2>1, CursorStays DEF KexLoadReturn, Step, Running, Goto, TypeOK
  <2>. QED BY <2>2, <2>3, <2>4, <2>5 DEF JInv
<1>9. ASSUME WaitSleep PROVE JInv'
  <2>1. Ring' = Ring
    BY <1>0, <1>9 DEF Ring, WaitSleep, Sleep, Running, Goto, TypeOK
  <2>2. Homes' /\ SpawnedInOrder'
    BY <1>0, <1>9 DEF Homes, SpawnedInOrder, WaitSleep, Sleep, Running, Goto, TypeOK
  <2>3. OneJob'
    BY <1>0, <1>9, <2>1 DEF OneJob, Waiting, WaitSleep, Sleep, Running, Goto, TypeOK
  <2>4. CharactersAreThere'
    BY <1>0, <1>9, <2>1 DEF CharactersAreThere, WaitSleep, Sleep, Running, Goto, TypeOK
  <2>5. CursorMeetsTheJob'
    BY <1>0, <1>9, <2>1, CursorStays DEF WaitSleep, Sleep, Running, Goto, TypeOK
  <2>. QED BY <2>2, <2>3, <2>4, <2>5 DEF JInv
<1>10. ASSUME NEW p \in Procs, SysReadNow(p) PROVE JInv'
  <2>1. Ring' = Ring
    BY <1>0, <1>10 DEF Ring, SysReadNow, Swap, Running, Goto, TypeOK
  <2>2. Homes' /\ SpawnedInOrder'
    BY <1>0, <1>10 DEF Homes, SpawnedInOrder, SysReadNow, Swap, Running, Goto, TypeOK
  <2>3. OneJob'
    BY <1>0, <1>10, <2>1 DEF OneJob, Waiting, SysReadNow, Swap, Running, Goto, TypeOK
  <2>4. CharactersAreThere'
    <3>1. p \in Ring /\ current = p /\ pc[p] = "user" /\ keys' = keys - 1 /\ keys > 0
      BY <1>0, <1>10 DEF SysReadNow, Running, CurrentIsAlive
    <3>2. \A u \in Ring : pc[u] # "take"
      BY <1>0, <3>1 DEF Homes, OneJob, Waiting, Ring, Threads, Places
    <3>3. \A u \in Ring : pc'[u] # "take"
      BY <1>0, <1>10, <3>1, <3>2 DEF SysReadNow, Goto, TypeOK, Ring
    <3>4. keys \in Int
      BY <1>0 DEF TypeOK
    <3>5. keys' >= 0
      BY <3>1, <3>4
    <3>. QED BY <2>1, <3>3, <3>5 DEF CharactersAreThere
  <2>5. CursorMeetsTheJob'
    BY <1>0, <1>10, <2>1, CursorStays DEF SysReadNow, Swap, Running, Goto, TypeOK
  <2>. QED BY <2>2, <2>3, <2>4, <2>5 DEF JInv
<1>11. ASSUME NEW p \in Procs, SysReadBlock(p) PROVE JInv'
  <2>1. Ring' = Ring
    BY <1>0, <1>11 DEF Ring, SysReadBlock, Swap, Running, Goto, TypeOK
  <2>2. Homes' /\ SpawnedInOrder'
    BY <1>0, <1>11 DEF Homes, SpawnedInOrder, SysReadBlock, Swap, Running, Goto, TypeOK
  <2>3. OneJob'
    BY <1>0, <1>11, <2>1 DEF OneJob, Waiting, SysReadBlock, Swap, Running, Goto, TypeOK
  <2>4. CharactersAreThere'
    BY <1>0, <1>11, <2>1 DEF CharactersAreThere, SysReadBlock, Swap, Running, Goto, TypeOK
  <2>5. CursorMeetsTheJob'
    BY <1>0, <1>11, <2>1, CursorStays DEF SysReadBlock, Swap, Running, Goto, TypeOK
  <2>. QED BY <2>2, <2>3, <2>4, <2>5 DEF JInv
<1>12. ASSUME NEW p \in Procs, SysSleep(p) PROVE JInv'
  <2>1. Ring' = Ring
    BY <1>0, <1>12 DEF Ring, SysSleep, Sleep, Swap, Running, Goto, TypeOK
  <2>2. Homes' /\ SpawnedInOrder'
    BY <1>0, <1>12 DEF Homes, SpawnedInOrder, SysSleep, Sleep, Swap, Running, Goto, TypeOK
  <2>3. OneJob'
    BY <1>0, <1>12, <2>1 DEF OneJob, Waiting, SysSleep, Sleep, Swap, Running, Goto, TypeOK
  <2>4. CharactersAreThere'
    BY <1>0, <1>12, <2>1 DEF CharactersAreThere, SysSleep, Sleep, Swap, Running, Goto, TypeOK
  <2>5. CursorMeetsTheJob'
    BY <1>0, <1>12, <2>1, CursorStays DEF SysSleep, Sleep, Swap, Running, Goto, TypeOK
  <2>. QED BY <2>2, <2>3, <2>4, <2>5 DEF JInv
<1>13. ASSUME NEW p \in Procs, SysRet(p) PROVE JInv'
  <2>1. Ring' = Ring
    BY <1>0, <1>13 DEF Ring, SysRet, Step, Swap, Running, Goto, TypeOK
  <2>2. Homes' /\ SpawnedInOrder'
    BY <1>0, <1>13 DEF Homes, SpawnedInOrder, SysRet, Step, Swap, Running, Goto, TypeOK
  <2>3. OneJob'
    BY <1>0, <1>13, <2>1 DEF OneJob, Waiting, SysRet, Step, Swap, Running, Goto, TypeOK
  <2>4. CharactersAreThere'
    BY <1>0, <1>13, <2>1 DEF CharactersAreThere, SysRet, Step, Swap, Running, Goto, TypeOK
  <2>5. CursorMeetsTheJob'
    BY <1>0, <1>13, <2>1, CursorStays DEF SysRet, Step, Swap, Running, Goto, TypeOK
  <2>. QED BY <2>2, <2>3, <2>4, <2>5 DEF JInv
<1>14. ASSUME NEW t \in Threads, CallYield(t) PROVE JInv'
  <2>1. Ring' = Ring
    BY <1>0, <1>14 DEF Ring, CallYield, YieldCalls, Resume, Goto, TypeOK
  <2>2. Homes' /\ SpawnedInOrder'
    BY <1>0, <1>14 DEF Homes, SpawnedInOrder, CallYield, YieldCalls, Resume, Goto, TypeOK
  <2>3. OneJob'
    BY <1>0, <1>14, <2>1 DEF OneJob, Waiting, CallYield, YieldCalls, Resume, Goto, TypeOK
  <2>4. CharactersAreThere'
    BY <1>0, <1>14, <2>1 DEF CharactersAreThere, CallYield, YieldCalls, Resume, Goto, TypeOK
  <2>5. CursorMeetsTheJob'
    BY <1>0, <1>14, <2>1, CursorStays DEF CallYield, YieldCalls, Resume, Goto, TypeOK
  <2>. QED BY <2>2, <2>3, <2>4, <2>5 DEF JInv
<1>15. ASSUME TimerIRQ PROVE JInv'
  <2>1. Ring' = Ring
    BY <1>0, <1>15 DEF Ring, TimerIRQ, Interrupted, TypeOK
  <2>2. Homes' /\ SpawnedInOrder'
    BY <1>0, <1>15 DEF Homes, SpawnedInOrder, TimerIRQ, Interrupted, TypeOK
  <2>3. OneJob'
    BY <1>0, <1>15, <2>1 DEF OneJob, Waiting, TimerIRQ, Interrupted, TypeOK
  <2>4. CharactersAreThere'
    BY <1>0, <1>15, <2>1 DEF CharactersAreThere, TimerIRQ, Interrupted, TypeOK
  <2>5. CursorMeetsTheJob'
    BY <1>0, <1>15, <2>1, CursorStays DEF TimerIRQ, Interrupted, TypeOK
  <2>. QED BY <2>2, <2>3, <2>4, <2>5 DEF JInv
<1>16. ASSUME KeyPress PROVE JInv'
  <2>1. Ring' = Ring
    BY <1>0, <1>16 DEF Ring, KeyPress, Interrupted, TypeOK
  <2>2. Homes' /\ SpawnedInOrder'
    BY <1>0, <1>16 DEF Homes, SpawnedInOrder, KeyPress, Interrupted, TypeOK
  <2>3. OneJob'
    BY <1>0, <1>16, <2>1 DEF OneJob, Waiting, KeyPress, Interrupted, TypeOK
  <2>4. CharactersAreThere'
    BY <1>0, <1>16, <2>1 DEF CharactersAreThere, KeyPress, Interrupted, TypeOK
  <2>5. CursorMeetsTheJob'
    BY <1>0, <1>16, <2>1, CursorStays DEF KeyPress, Interrupted, TypeOK
  <2>. QED BY <2>2, <2>3, <2>4, <2>5 DEF JInv
<1>17. ASSUME NEW t \in Threads, CleanupZombies(t) PROVE JInv'
  <2>1. Ring' = Ring
    BY <1>0, <1>17, ReclaimedAreTheZombies DEF Ring, Zombies, Lists, CleanupZombies, Running, Goto, TypeOK
  <2>2. Homes' /\ SpawnedInOrder'
    BY <1>0, <1>17 DEF Homes, SpawnedInOrder, CleanupZombies, Running, Goto, TypeOK
  <2>3. OneJob'
    BY <1>0, <1>17, <2>1 DEF OneJob, Waiting, CleanupZombies, Running, Goto, TypeOK
  <2>4. CharactersAreThere'
    BY <1>0, <1>17, <2>1 DEF CharactersAreThere, CleanupZombies, Running, Goto, TypeOK
  <2>5. CursorMeetsTheJob'
    BY <1>0, <1>17, <2>1, CursorStays DEF CleanupZombies, Running, Goto, TypeOK
  <2>. QED BY <2>2, <2>3, <2>4, <2>5 DEF JInv
<1>18. ASSUME WaitStart PROVE JInv'
  <2>1. /\ Ring' = Ring /\ UNCHANGED <<next, job, id, pid, keys>> /\ temp' = next[Shell]
        /\ Shell \in Ring /\ pc' = [pc EXCEPT ![Shell] = "walk"] /\ pc[Shell] = "wait"
    BY <1>0, <1>18 DEF Ring, WaitStart, Step, Running, Goto, TypeOK, CurrentIsAlive
  <2>2. Homes' /\ SpawnedInOrder'
    BY <1>0, <2>1 DEF Homes, SpawnedInOrder, TypeOK
  <2>3. OneJob'
    BY <1>0, <2>1 DEF OneJob, Waiting, TypeOK
  <2>7. CharactersAreThere'
    BY <1>0, <2>1 DEF CharactersAreThere, TypeOK, Ring
  <2>4. next[Shell] \in Ring
    BY <1>0, <2>1 DEF Lists, RunListIsOneCycle, OneCycle
  <2>5. ASSUME job \in Ring, NEW S \in SUBSET Ring, next[Shell] \in S,
               \A v \in S \ {Shell} : next[v] \in S
        PROVE  job \in S
    <3>1. S \cup {Shell} \in SUBSET Ring /\ \A v \in S \cup {Shell} : next[v] \in S \cup {Shell}
      BY <2>1, <2>5
    <3>2. S \cup {Shell} = Ring
      BY <1>0, <3>1 DEF Lists, RunListIsOneCycle, OneCycle
    <3>. QED BY <1>0, <2>1, <2>5, <3>2 DEF OneJob, Waiting
  <2>6. CursorMeetsTheJob'
    BY <2>1, <2>4, <2>5 DEF CursorMeetsTheJob
  <2>. QED BY <2>2, <2>3, <2>6, <2>7 DEF JInv
<1>19. ASSUME WaitWalk PROVE JInv'
  <2>1. /\ Ring' = Ring /\ UNCHANGED <<next, job, id, pid, keys>> /\ temp \in Threads
        /\ Shell \in Ring /\ pc[Shell] = "walk" /\ pid = id[job] /\ job \in Procs
        /\ \A u \in Threads \ {Shell} : pc'[u] = pc[u]
    BY <1>0, <1>19 DEF Ring, WaitWalk, Step, Running, Goto, TypeOK, CurrentIsAlive, OneJob, Waiting
  <2>2. /\ pc'[Shell] = CASE temp = Shell -> "rd"
                          [] temp # Shell /\ id[temp] = pid -> "nap"
                          [] OTHER -> "walk"
        /\ temp' = IF temp # Shell /\ id[temp] # pid THEN next[temp] ELSE temp
    BY <1>0, <1>19 DEF WaitWalk, Step, Goto, TypeOK
  <2>3. pc'[Shell] \in {"rd", "nap", "walk"}
    BY <2>2
  <2>4. Homes' /\ SpawnedInOrder'
    BY <1>0, <2>1, <2>3 DEF Homes, SpawnedInOrder
  <2>5. CharactersAreThere'
    BY <1>0, <2>1, <2>3 DEF CharactersAreThere, Ring
  <2>6. ASSUME temp = Shell PROVE job \notin Ring
    <3>1. SUFFICES ASSUME job \in Ring PROVE FALSE
      OBVIOUS
    <3>2. {Shell} \in SUBSET Ring /\ \A v \in {Shell} \ {Shell} : next[v] \in {Shell}
      BY <2>1
    <3>3. job \in {Shell}
      BY <1>0, <2>1, <2>6, <3>1, <3>2 DEF CursorMeetsTheJob
    <3>. QED BY <1>0, <2>1, <3>3
  <2>7. OneJob'
    BY <1>0, <2>1, <2>2, <2>3, <2>6 DEF OneJob, Waiting
  <2>8. CursorMeetsTheJob'
    <3>1. SUFFICES ASSUME pc'[Shell] = "walk" PROVE CursorMeetsTheJob'
      BY DEF CursorMeetsTheJob
    <3>2. temp # Shell /\ id[temp] # pid /\ temp' = next[temp] /\ temp # job
      BY <2>1, <2>2, <3>1
    <3>3. CASE temp \in Ring
      <4>1. next[temp] \in Ring
        BY <1>0, <3>3 DEF Lists, RunListIsOneCycle, OneCycle
      <4>2. ASSUME job \in Ring, NEW S \in SUBSET Ring, next[temp] \in S,
                   \A v \in S \ {Shell} : next[v] \in S
            PROVE  job \in S
        <5>1. /\ S \cup {temp} \in SUBSET Ring
              /\ \A v \in (S \cup {temp}) \ {Shell} : next[v] \in S \cup {temp}
          BY <3>3, <4>2
        <5>2. job \in S \cup {temp}
          BY <1>0, <2>1, <3>3, <4>2, <5>1 DEF CursorMeetsTheJob
        <5>. QED BY <3>2, <5>2
      <4>. QED BY <2>1, <3>2, <4>1, <4>2 DEF CursorMeetsTheJob
    <3>4. CASE temp \notin Ring
      <4>1. PICK S \in SUBSET (Threads \ Ring) :
                temp \in S /\ \A v \in S : next[v] \in S \cup {NULL}
        BY <1>0, <2>1, <3>4 DEF CursorMeetsTheJob
      <4>2. temp' \in S \cup {NULL} /\ Ring \subseteq Threads
        BY <3>2, <4>1 DEF Ring
      <4>. QED BY <2>1, <4>1, <4>2 DEF CursorMeetsTheJob
    <3>. QED BY <3>3, <3>4
  <2>. QED BY <2>4, <2>5, <2>7, <2>8 DEF JInv
\* A thread leaves the run list; the running thread moves on, or is that thread.
<1>20. ASSUME NEW t \in Ring \ {Main, Idle}, Bury(t),
              UNCHANGED <<alloc, id, next_id, keys, temp, job, pid>>,
              pc'[t] \in {"exiting", "dead"}, pc'[t] = "exiting" => t = Setup,
              \A u \in Threads \ {t, current} : pc'[u] = pc[u],
              \/ t = current
              \/ pc[current] \notin Off /\ pc'[current] = pc[current]
              \/ current = Shell /\ pc[Shell] = "cmd" /\ pc'[Shell] = "rd"
              \/ current = Shell /\ pc[Shell] = "loading" /\ pc'[Shell] = "rd"
                 /\ (job \in Ring => t = job)
       PROVE  JInv'
  <2>1. \A u \in Threads \ {t} : pc'[u] = pc[u] \/ (pc[u] \notin Off /\ pc'[u] \notin Off)
    BY <1>20 DEF Off
  <2>2. Lists' /\ Ring' = Ring \ {t} /\ Zombies' = Zombies \cup {t}
    BY <1>20, <2>1, BuryKeepsLists
  <2>3. t \in Threads /\ t # Main /\ Ring \subseteq Threads
    BY <1>20 DEF Ring
  <2>4. Homes' /\ SpawnedInOrder'
    BY <1>0, <1>20, <2>3 DEF Homes, SpawnedInOrder, Off, Ring
  <2>5. OneJob'
    BY <1>0, <1>20, <2>2, <2>3 DEF OneJob, Waiting, Off
  <2>6. CharactersAreThere'
    BY <1>0, <1>20, <2>2, <2>3 DEF CharactersAreThere, Off
  <2>7. CursorMeetsTheJob'
    <3>1. pc'[Shell] = "walk" => pc[Shell] = "walk"
      BY <1>0, <1>20
    <3>. QED BY <1>0, <1>20, <2>2, <3>1, CursorSurvivesBury DEF Lists
  <2>. QED BY <2>4, <2>5, <2>6, <2>7 DEF JInv
<1>21. ASSUME SetupExit PROVE JInv'
  <2>1. current = Setup /\ pc[Setup] = "finish" /\ Setup \in Ring \ {Main, Idle}
    BY <1>0, <1>21 DEF SetupExit, Running, CurrentIsAlive
  <2>2. pc'[Setup] = "exiting" /\ \A u \in Threads \ {Setup, current} : pc'[u] = pc[u]
    BY <1>0, <1>21 DEF SetupExit, Goto, TypeOK
  <2>. QED BY <1>20, <1>21, <2>1, <2>2 DEF SetupExit
<1>22. ASSUME NEW p \in Procs, SysExit(p) PROVE JInv'
  <2>1. current = p /\ pc[p] = "user" /\ p \in Ring \ {Main, Idle}
    BY <1>0, <1>22 DEF SysExit, Running, CurrentIsAlive
  <2>2. pc'[p] = "dead" /\ \A u \in Threads \ {p, current} : pc'[u] = pc[u]
    BY <1>0, <1>22 DEF SysExit, Goto, TypeOK
  <2>. QED BY <1>20, <1>22, <2>1, <2>2 DEF SysExit
<1>23. ASSUME NEW i, NEW to, ThreadKill(i, to), current \in Ring,
              \/ pc[current] = to
              \/ current = Shell /\ pc[Shell] = "cmd" /\ to = "rd"
              \/ current = Shell /\ pc[Shell] = "loading" /\ to = "rd" /\ i = id[job]
       PROVE  JInv'
  <2>1. UNCHANGED <<current, alloc, id, next_id, keys, temp, job, pid>>
    BY <1>23 DEF ThreadKill
  <2>2. ASSUME current = Shell, pc[Shell] = "loading", i = id[job], job \in Ring
        PROVE  job \in Victims(i)
    <3>1. job \in Procs /\ job # Idle /\ job # Main /\ job # Shell
      BY <1>0, <2>2 DEF OneJob, Waiting
    <3>2. id[job] # id[Shell] /\ id[job] > 0 /\ id[Idle] = 0
      BY <1>0, <1>23, <2>2, <3>1 DEF Lists, IdsAreUnique, IdsInRange
    <3>. QED BY <2>2, <3>2 DEF Victims
  <2>3. CASE Victims(i) = {}
    <3>1. pc' = [pc EXCEPT ![current] = to] /\ UNCHANGED next
      BY <1>23, <2>3 DEF ThreadKill, Goto
    <3>2. /\ \A u \in Threads \ {current} : pc'[u] = pc[u]
          /\ pc'[current] = to /\ current \in Threads /\ Ring \subseteq Threads
      BY <1>0, <3>1 DEF TypeOK, Ring
    <3>3. Ring' = Ring
      BY <1>23, <2>1, <3>2 DEF Ring
    <3>4. Homes' /\ SpawnedInOrder'
      BY <1>0, <1>23, <3>2 DEF Homes, SpawnedInOrder
    <3>5. OneJob'
      BY <1>0, <1>23, <2>1, <2>2, <2>3, <3>2, <3>3 DEF OneJob, Waiting
    <3>6. CharactersAreThere'
      BY <1>0, <1>23, <2>1, <3>2, <3>3 DEF CharactersAreThere
    <3>7. CursorMeetsTheJob'
      BY <1>0, <1>23, <2>1, <3>1, <3>2, <3>3, CursorStays
    <3>. QED BY <3>4, <3>5, <3>6, <3>7 DEF JInv
  <2>4. ASSUME NEW t \in Victims(i), Bury(t), pc' = [pc EXCEPT ![current] = to, ![t] = "dead"]
        PROVE  JInv'
    <3>1. t \in Ring \ {Main, Idle} /\ t # current
      BY <1>0 DEF Victims, Lists, IdsInRange
    <3>2. /\ pc'[t] = "dead" /\ pc'[current] = to
          /\ \A u \in Threads \ {t, current} : pc'[u] = pc[u]
      BY <1>0, <2>4, <3>1 DEF TypeOK, Ring
    <3>3. ASSUME current = Shell, pc[Shell] = "loading", i = id[job], job \in Ring
          PROVE  t = job
      <4>1. id[t] = id[job] /\ job # Main /\ job # Idle
        BY <1>0, <2>2, <2>4, <3>3 DEF Victims, OneJob, Waiting
      <4>. QED BY <1>0, <3>1, <3>3, <4>1 DEF Lists, IdsAreUnique
    <3>4. pc[current] \notin Off
      BY <1>23 DEF Ring, Off
    <3>. QED BY <1>20, <1>23, <2>1, <2>4, <3>1, <3>2, <3>3, <3>4
  <2>. QED BY <1>23, <2>3, <2>4 DEF ThreadKill
<1>24. ASSUME ShellKill \/ KexLoadOom \/ (\E p \in Procs : SysKill(p)) PROVE JInv'
  <2>1. current \in Ring
    BY <1>0, <1>24 DEF ShellKill, KexLoadOom, SysKill, Running, CurrentIsAlive
  <2>. QED BY <1>23, <1>24, <2>1 DEF ShellKill, KexLoadOom, SysKill, Running
<1>25. ASSUME SpawnSetup PROVE JInv'
  <2>1. /\ current = Main /\ pc[current] = "spawn" /\ ThreadAdd(Setup, "start", "READY", "loop")
        /\ UNCHANGED job
    BY <1>25 DEF SpawnSetup, Running
  <2>2. Ring' = Ring \cup {Setup}
    BY <1>0, <2>1, AddKeepsLists DEF Labels, Off, States
  <2>3. /\ pc'[Setup] = "start" /\ pc'[Main] = "loop" /\ UNCHANGED keys
        /\ \A u \in Threads \ {Setup, Main} : pc'[u] = pc[u]
    BY <1>0, <2>1 DEF ThreadAdd, TypeOK
  <2>4. pc[Shell] = "none" /\ pc'[Shell] = "none" /\ Procs \cap Ring = {}
    BY <1>0, <2>1, <2>3 DEF SpawnedInOrder, OneJob, Waiting
  <2>5. Homes' /\ SpawnedInOrder'
    BY <1>0, <2>3, <2>4 DEF Homes, SpawnedInOrder
  <2>6. OneJob' /\ CharactersAreThere' /\ CursorMeetsTheJob'
    BY <1>0, <2>2, <2>3, <2>4 DEF OneJob, Waiting, CharactersAreThere, CursorMeetsTheJob, Ring
  <2>. QED BY <2>5, <2>6 DEF JInv
<1>26. ASSUME SpawnShell PROVE JInv'
  <2>1. /\ current = Setup /\ pc[current] = "start" /\ ThreadAdd(Shell, "rd", "READY", "finish")
        /\ UNCHANGED job
    BY <1>26 DEF SpawnShell, Running
  <2>2. Ring' = Ring \cup {Shell}
    BY <1>0, <2>1, AddKeepsLists DEF Labels, Off, States
  <2>3. /\ pc'[Shell] = "rd" /\ pc'[Setup] = "finish" /\ UNCHANGED keys
        /\ \A u \in Threads \ {Setup, Shell} : pc'[u] = pc[u]
    BY <1>0, <2>1 DEF ThreadAdd, TypeOK
  <2>4. pc[Shell] = "none" /\ Procs \cap Ring = {} /\ pc[Main] \in {"loop", "hlt"}
    BY <1>0, <2>1, <2>3 DEF SpawnedInOrder, OneJob, Waiting
  <2>5. Homes' /\ SpawnedInOrder'
    BY <1>0, <2>3, <2>4 DEF Homes, SpawnedInOrder
  <2>6. OneJob' /\ CharactersAreThere' /\ CursorMeetsTheJob'
    BY <1>0, <2>2, <2>3, <2>4 DEF OneJob, Waiting, CharactersAreThere, CursorMeetsTheJob, Ring
  <2>. QED BY <2>5, <2>6 DEF JInv
<1>27. ASSUME KexLoad PROVE JInv'
  <2>1. PICK p \in Procs : ThreadAdd(p, "user", "BLOCKED", "loading") /\ job' = p
    BY <1>27 DEF KexLoad
  <2>2. current = Shell /\ pc[current] = "cmd"
    BY <1>27 DEF KexLoad, Running
  <2>3. Ring' = Ring \cup {p}
    BY <1>0, <2>1, <2>2, AddKeepsLists DEF Labels, Off, States
  <2>4. /\ pc'[Shell] = "loading" /\ pc'[p] = "user" /\ UNCHANGED keys
        /\ \A u \in Threads \ {p, Shell} : pc'[u] = pc[u]
    BY <1>0, <2>1, <2>2 DEF ThreadAdd, TypeOK
  <2>5. Procs \cap Ring = {} /\ pc[Setup] \notin {"none", "start"}
    BY <1>0, <2>2 DEF SpawnedInOrder, OneJob, Waiting
  <2>6. Homes' /\ SpawnedInOrder'
    BY <1>0, <2>4, <2>5 DEF Homes, SpawnedInOrder
  <2>7. OneJob' /\ CharactersAreThere' /\ CursorMeetsTheJob'
    BY <1>0, <2>1, <2>3, <2>4, <2>5 DEF OneJob, Waiting, CharactersAreThere, CursorMeetsTheJob, Ring
  <2>. QED BY <2>6, <2>7 DEF JInv
\* A panic changes nothing but fault.
<1>28. ASSUME UNCHANGED <<next, id, alloc, pc, keys, job, pid, temp>> PROVE JInv'
  <2>1. Ring' = Ring
    BY <1>28 DEF Ring
  <2>. QED BY <1>0, <1>28, <2>1 DEF JInv, Homes, SpawnedInOrder, OneJob, CharactersAreThere,
                                    CursorMeetsTheJob
<1>29. ASSUME \/ IRQWhileExiting \/ WaitWalkLost \/ (\E p \in Procs : UserFault(p))
              \/ Halted \/ UNCHANGED vars
       PROVE  JInv'
  BY <1>28, <1>29 DEF IRQWhileExiting, WaitWalkLost, UserFault, Halted, vars
<1>30. CASE ThreadStep
  BY <1>30, <1>1, <1>2, <1>3, <1>4, <1>5, <1>6, <1>7, <1>8, <1>9, <1>13, <1>14, <1>17, <1>18,
     <1>19, <1>21, <1>24, <1>25, <1>26, <1>27, <1>29 DEF ThreadStep
<1>31. CASE UserStep
  BY <1>31, <1>10, <1>11, <1>12, <1>22, <1>24, <1>29 DEF UserStep
<1>. QED BY <1>15, <1>16, <1>29, <1>30, <1>31 DEF Next

\* The invariants of the lists and of the processes hold in every reachable state.
LEMMA JobInvariant == Spec => [](IInv /\ JInv)
<1>1. Init => IInv /\ JInv
  BY InitEstablishes, InitIsQuiet
<1>2. IInv /\ JInv /\ [Next]_vars => (IInv /\ JInv)'
  BY StepKeeps, StepKeepsJob
<1>. QED BY <1>1, <1>2, PTL DEF Spec

\* The wait loop of shell_execute keeps user processes apart, and with them the readers
\* of the keyboard buffer: no two processes are ever on the run list, and no character is
\* taken from an empty buffer.
THEOREM ProcessesRunOneByOne == Spec => []OneProcessAtATime
<1>1. JInv => OneProcessAtATime
  BY DEF JInv, OneJob, CharactersAreThere, OneProcessAtATime
<1>. QED BY <1>1, JobInvariant, PTL

\* The shell leaves its wait loop for the prompt only after the process has left the run
\* list: thread_get_by_id, which takes no lock, misses no process that is still there,
\* whatever is unlinked under its cursor.
THEOREM WaitMissesNoProcess == Spec => WaitEndsOnlyAfterExit
<1> USE DistinctThreads
<1>1. ASSUME IInv, JInv, [Next]_vars
      PROVE  [pc[Shell] = "walk" /\ pc'[Shell] = "rd" => job \notin Ring]_vars
  <2> SUFFICES ASSUME Next, pc[Shell] = "walk", pc'[Shell] = "rd" PROVE job \notin Ring
    BY <1>1
  <2>1. Shell \in Threads /\ TypeOK /\ Shell \notin Procs /\ CurrentIsAlive
    BY <1>1 DEF Threads, IInv
  <2>2. CASE WaitWalk
    <3>1. temp = Shell /\ Shell \in Ring
      BY <2>1, <2>2 DEF WaitWalk, Running, Step, Goto, TypeOK, CurrentIsAlive
    <3>2. SUFFICES ASSUME job \in Ring PROVE FALSE
      OBVIOUS
    <3>3. {Shell} \in SUBSET Ring /\ \A v \in {Shell} \ {Shell} : next[v] \in {Shell}
      BY <3>1
    <3>4. job \in {Shell}
      BY <1>1, <3>1, <3>2, <3>3 DEF JInv, CursorMeetsTheJob
    <3>. QED BY <1>1, <2>1, <3>4 DEF JInv, OneJob, Waiting
  <2>3. CASE TimerIRQ \/ KeyPress \/ IRQWhileExiting \/ Halted
    BY <2>1, <2>3 DEF TimerIRQ, KeyPress, IRQWhileExiting, Halted, vars, Interrupted, TypeOK
  <2>4. CASE UserStep
    BY <2>1, <2>4 DEF UserStep, SysReadNow, SysReadBlock, SysSleep, SysKill, SysExit, UserFault,
       Running, Goto, Sleep, ThreadKill, TypeOK
  <2>5. ASSUME ThreadStep, ~WaitWalk PROVE FALSE
    <3>1. ~SpawnShell
      BY <1>1 DEF SpawnShell, Running, JInv, SpawnedInOrder
    <3>2. ASSUME NEW t \in Threads PROVE ~CallYield(t) /\ ~CheckInput(t) /\ ~Block(t) /\ ~Take(t)
                                          /\ ~CleanupZombies(t)
      BY <2>1 DEF CallYield, YieldCalls, CheckInput, Block, Take, CleanupZombies, Running, Goto,
                  Step, Resume, TypeOK
    <3>3. ~BootSleep /\ ~SpawnSetup /\ ~SetupExit
      BY <2>1 DEF BootSleep, Sleep, SpawnSetup, SetupExit, ThreadAdd, Running, Goto, TypeOK
    <3>4. ~ShellOther /\ ~ShellSleep /\ ~ShellKill /\ ~KexLoad /\ ~KexLoadOom /\ ~KexLoadDone
          /\ ~KexLoadReturn /\ ~WaitStart /\ ~WaitSleep
      BY DEF ShellOther, ShellSleep, ShellKill, KexLoad, KexLoadOom, KexLoadDone, KexLoadReturn,
             WaitStart, WaitSleep, Running
    <3>5. ~WaitWalkLost /\ \A p \in Procs : ~SysRet(p)
      BY <2>1 DEF WaitWalkLost, SysRet, Step, Running, Goto, TypeOK
    <3>. QED BY <2>5, <3>1, <3>2, <3>3, <3>4, <3>5 DEF ThreadStep
  <2>. QED BY <2>2, <2>3, <2>4, <2>5 DEF Next
<1>. QED BY <1>1, JobInvariant, PTL DEF Spec, WaitEndsOnlyAfterExit

-----------------------------------------------------------------------------
\* With no key pressed while a program is loaded, a process sleeps, runs and dies only
\* where the code means it to.  (A key makes the half-loaded process run; it can then be
\* killed inside a system call, or be made ready by the loader in the middle of a sleep.)

InKernel == {"rd", "empty", "take", "block", "sysret", "syssleep"}

\* The process kex_load is loading waits, untouched, in its first state.
LoadsUndisturbed ==
    pc[Shell] = "loading" => /\ job \in Ring /\ state[job] = "BLOCKED"
                             /\ pc[job] = "user" /\ current # job

\* The kernel's GS base is active exactly while the process is in a system call.
GsFollowsTheProcess ==
    gs = "kernel" <=> \E p \in Procs \cap Ring : pc[p] \in InKernel

\* yield() wakes no thread that is blocked.
LEMMA YieldLeavesBlocked ==
    ASSUME NEW st, Yield(st), NEW t \in Threads, st[t] = "BLOCKED"
    PROVE  state'[t] = "BLOCKED"
BY DEF Yield, Expire

\* The initial state.
LEMMA InitIsUndisturbed == Init => LoadsUndisturbed /\ GsFollowsTheProcess
BY DistinctThreads DEF Init, LoadsUndisturbed, GsFollowsTheProcess, Ring, Threads

\* While no key is pressed during a load, every step leaves a process that is being
\* loaded alone.
LEMMA StepKeepsLoads ==
    ASSUME ~KeysWhileLoading, IInv, JInv, LoadsUndisturbed, [Next]_vars, IInv'
    PROVE  LoadsUndisturbed'
<1> USE DistinctThreads
<1>0. /\ TypeOK /\ Homes /\ SpawnedInOrder /\ OneJob /\ CurrentIsAlive /\ Lists /\ Places
      /\ Main \in Threads /\ Idle \in Threads /\ Idle \in Ring'
      /\ Setup \in Threads /\ Shell \in Threads /\ Procs \subseteq Threads
      /\ Main \notin Procs /\ Idle \notin Procs /\ Setup \notin Procs /\ Shell \notin Procs
  BY DEF IInv, JInv, Threads, Lists, RunListIsOneCycle
<1>1. ASSUME pc'[Shell] # "loading" PROVE LoadsUndisturbed'
  BY <1>1 DEF LoadsUndisturbed
<1>2. ASSUME pc[Shell] = "loading", job' = job, state'[job] = "BLOCKED", pc'[job] = pc[job],
             alloc'[job] = alloc[job], current' # job
      PROVE  LoadsUndisturbed'
  BY <1>0, <1>2 DEF LoadsUndisturbed, Ring
<1>3. ASSUME KexLoad PROVE LoadsUndisturbed'
  <2>1. PICK p \in Procs : ThreadAdd(p, "user", "BLOCKED", "loading") /\ job' = p
    BY <1>3 DEF KexLoad
  <2>2. current = Shell /\ pc[current] = "cmd"
    BY <1>3 DEF KexLoad, Running
  <2>3. Ring' = Ring \cup {p} /\ current' = current
    BY <1>0, <2>1, <2>2, AddKeepsLists DEF Labels, Off, States
  <2>4. pc'[p] = "user" /\ state'[p] = "BLOCKED"
    BY <1>0, <2>1, <2>2 DEF ThreadAdd, TypeOK
  <2>. QED BY <1>0, <2>1, <2>2, <2>3, <2>4 DEF LoadsUndisturbed
<1>4. CASE pc[Shell] # "loading" /\ ~KexLoad
  <2>1. CASE TimerIRQ \/ KeyPress \/ IRQWhileExiting \/ Halted \/ UNCHANGED vars
    <3>1. CASE TimerIRQ
      BY <1>0, <1>1, <1>4, <3>1 DEF TimerIRQ, Interrupted, TypeOK
    <3>2. CASE KeyPress
      BY <1>0, <1>1, <1>4, <3>2 DEF KeyPress, Interrupted, TypeOK
    <3>3. CASE IRQWhileExiting \/ Halted \/ UNCHANGED vars
      BY <1>0, <1>1, <1>4, <3>3 DEF IRQWhileExiting, Halted, vars, TypeOK
    <3>. QED BY <2>1, <3>1, <3>2, <3>3
  <2>2. CASE UserStep
    <3>1. PICK p \in Procs : \/ SysReadNow(p) \/ SysReadBlock(p) \/ SysSleep(p)
                             \/ SysKill(p) \/ SysExit(p) \/ UserFault(p)
      BY <2>2 DEF UserStep
    <3>2. CASE SysReadNow(p) \/ SysReadBlock(p) \/ SysSleep(p)
      <4>1. \E l : l # "loading" /\ pc' = [pc EXCEPT ![p] = l]
        <5>1. CASE SysReadNow(p)
          BY <5>1 DEF SysReadNow, Goto
        <5>2. CASE SysReadBlock(p)
          BY <5>2 DEF SysReadBlock, Goto
        <5>3. CASE SysSleep(p)
          BY <5>3 DEF SysSleep, Sleep, Goto
        <5>. QED BY <3>2, <5>1, <5>2, <5>3
      <4>. QED BY <1>0, <1>1, <1>4, <4>1 DEF TypeOK
    <3>3. CASE SysKill(p)
      <4>1. PICK i \in 0..MaxId : ThreadKill(i, "user")
        BY <3>3 DEF SysKill
      <4>2. \/ pc' = [pc EXCEPT ![current] = "user"]
            \/ \E t \in Ring : pc' = [pc EXCEPT ![current] = "user", ![t] = "dead"]
        BY <4>1 DEF ThreadKill, Victims, Goto
      <4>. QED BY <1>0, <1>1, <1>4, <4>2 DEF TypeOK
    <3>4. CASE SysExit(p) \/ UserFault(p)
      BY <1>0, <1>1, <1>4, <3>4 DEF SysExit, UserFault, Goto, TypeOK
    <3>. QED BY <3>1, <3>2, <3>3, <3>4
  <2>3. CASE ThreadStep
    <3>1. ASSUME NEW t \in Threads,
                 CallYield(t) \/ CheckInput(t) \/ Block(t) \/ Take(t) \/ CleanupZombies(t)
          PROVE  pc'[Shell] # "loading"
      BY <1>0, <1>4, <3>1 DEF CallYield, YieldCalls, CheckInput, Block, Take, CleanupZombies,
                              Running, Goto, Step, Resume, TypeOK
    <3>2. ASSUME BootSleep \/ SpawnSetup \/ SetupExit \/ SpawnShell
          PROVE  pc'[Shell] # "loading"
      BY <1>0, <1>4, <3>2 DEF BootSleep, Sleep, SpawnSetup, SpawnShell, SetupExit, ThreadAdd,
                              Running, Goto, TypeOK
    <3>3. ASSUME \/ ShellOther \/ ShellSleep \/ ShellKill \/ KexLoadOom \/ KexLoadDone
                 \/ KexLoadReturn \/ WaitStart \/ WaitSleep \/ WaitWalk
          PROVE  pc'[Shell] # "loading"
      <4>1. CASE ShellOther \/ ShellSleep \/ WaitStart \/ WaitSleep \/ WaitWalk
        BY <1>0, <1>4, <4>1 DEF ShellOther, ShellSleep, WaitStart, WaitSleep, WaitWalk, Running,
               Step, Sleep, Goto, TypeOK
      <4>2. CASE ShellKill
        BY <1>0, <1>4, <4>2 DEF ShellKill, Running, Goto, ThreadKill, TypeOK, Victims
      <4>3. CASE KexLoadOom \/ KexLoadDone \/ KexLoadReturn
        BY <1>0, <1>4, <4>3 DEF KexLoadOom, KexLoadDone, KexLoadReturn, Running, Step,
               Goto, ThreadKill, TypeOK
      <4>. QED BY <3>3, <4>1, <4>2, <4>3
    <3>4. ASSUME WaitWalkLost \/ \E p \in Procs : SysRet(p)
          PROVE  pc'[Shell] # "loading"
      BY <1>0, <1>4, <3>4 DEF WaitWalkLost, SysRet, Step, Running, Goto, TypeOK
    <3>. QED BY <1>1, <1>4, <2>3, <3>1, <3>2, <3>3, <3>4 DEF ThreadStep
  <2>. QED BY <2>1, <2>2, <2>3 DEF Next
<1>5. CASE pc[Shell] = "loading"
  <2>1. /\ job \in Ring /\ job \in Procs /\ job \in Threads /\ state[job] = "BLOCKED"
        /\ pc[job] = "user" /\ current # job
    BY <1>0, <1>5 DEF LoadsUndisturbed, OneJob, Waiting
  <2>2. ASSUME NEW st \in [Threads -> States], st[Idle] = "READY", Yield(st),
               current \in Ring' \/ st[current] = "ZOMBIE", st[job] = "BLOCKED"
        PROVE  state'[job] = "BLOCKED" /\ current' # job
    <3>1. state'[job] = "BLOCKED"
      BY <2>1, <2>2, YieldLeavesBlocked
    <3>2. current' # current => state'[current'] = "READY"
      BY <1>0, <2>2, YieldPicks DEF TypeOK
    <3>. QED BY <2>1, <3>1, <3>2
  <2>3. CASE TimerIRQ
    <3> DEFINE st == [t \in Threads |-> IF t \in Ring /\ state[t] = "SLEEPING" /\ Ticked[t] = 0
                                        THEN "READY" ELSE state[t]]
    <3>1. st \in [Threads -> States] /\ st[Idle] = "READY" /\ Yield(st) /\ st[job] = "BLOCKED"
      BY <1>0, <2>1, <2>3 DEF TimerIRQ, TypeOK, States, Places
    <3>2. current \in Ring' /\ job' = job /\ pc'[job] = pc[job] /\ alloc' = alloc
      BY <1>0, <2>1, <2>3 DEF TimerIRQ, Ring, Interrupted, TypeOK
    <3>. QED BY <1>2, <1>5, <2>2, <3>1, <3>2
  <2>4. ASSUME NEW t \in Threads, CallYield(t) PROVE LoadsUndisturbed'
    <3>1. state \in [Threads -> States] /\ state[Idle] = "READY" /\ Yield(state)
      BY <1>0, <2>4 DEF CallYield, TypeOK, Places
    <3>2. current \in Ring' \/ state[current] = "ZOMBIE"
      BY <1>0, <2>4 DEF CallYield, Goto, TypeOK, Places, Ring, YieldCalls, Resume, CurrentIsAlive
    <3>3. job' = job /\ pc'[job] = pc[job] /\ alloc' = alloc
      BY <1>0, <2>1, <2>4 DEF CallYield, Goto, TypeOK
    <3>. QED BY <1>2, <1>5, <2>1, <2>2, <3>1, <3>2, <3>3
  <2>5. CASE KeyPress
    BY <1>5, <2>5 DEF KeyPress
  <2>6. CASE IRQWhileExiting \/ Halted \/ UNCHANGED vars \/ WaitWalkLost
             \/ \E p \in Procs : UserFault(p)
    BY <1>2, <1>5, <2>1, <2>6 DEF IRQWhileExiting, Halted, vars, WaitWalkLost, UserFault
  <2>7. ASSUME NEW p \in Procs, current = p PROVE FALSE
    BY <1>0, <2>1, <2>7 DEF OneJob, CurrentIsAlive, Places
  <2>8. CASE KexLoadOom \/ KexLoadDone
    BY <1>0, <1>1, <2>8 DEF KexLoadOom, KexLoadDone, Running, Goto, ThreadKill, Victims, TypeOK
  <2>9. ASSUME NEW t \in Threads, CheckInput(t) \/ Block(t) \/ Take(t) PROVE FALSE
    BY <1>0, <1>5, <2>7, <2>9 DEF CheckInput, Block, Take, Running, Homes, Places, Threads
  <2>10. ASSUME NEW t \in Threads, CleanupZombies(t) PROVE LoadsUndisturbed'
    <3>1. alloc'[job] = alloc[job]
      BY <1>0, <2>1, <2>10, ReclaimedAreTheZombies DEF CleanupZombies, Lists, Ring, Zombies, TypeOK
    <3>. QED BY <1>0, <1>2, <1>5, <2>1, <2>10, <3>1 DEF CleanupZombies, Running, Goto, TypeOK
  <2>11. CASE BootSleep \/ SpawnSetup \/ SpawnShell
    BY <1>0, <1>5, <2>11 DEF BootSleep, SpawnSetup, SpawnShell, Running, SpawnedInOrder
  <2>12. CASE SetupExit
    BY <1>0, <1>2, <1>5, <2>1, <2>12 DEF SetupExit, Running, Goto, TypeOK
  <2>13. CASE ThreadStep
    BY <1>5, <2>4, <2>6, <2>7, <2>8, <2>9, <2>10, <2>11, <2>12, <2>13
       DEF ThreadStep, ShellOther, ShellSleep, ShellKill, KexLoad, KexLoadReturn, WaitStart,
           WaitWalk, WaitSleep, SysRet, Running
  <2>14. CASE UserStep
    BY <2>6, <2>7, <2>14 DEF UserStep, SysReadNow, SysReadBlock, SysSleep, SysKill, SysExit, Running
  <2>. QED BY <2>3, <2>5, <2>6, <2>13, <2>14 DEF Next
<1>. QED BY <1>3, <1>4, <1>5

\* Every step keeps the GS base in step with the process.
LEMMA StepKeepsGs ==
    ASSUME ~KeysWhileLoading, IInv, JInv, LoadsUndisturbed, GsFollowsTheProcess, [Next]_vars
    PROVE  GsFollowsTheProcess'
<1> USE DistinctThreads
<1>0. /\ TypeOK /\ Homes /\ SpawnedInOrder /\ OneJob /\ CurrentIsAlive /\ Lists /\ Places
      /\ Main \in Threads /\ Idle \in Threads
      /\ Setup \in Threads /\ Shell \in Threads /\ Procs \subseteq Threads
      /\ Main \notin Procs /\ Idle \notin Procs /\ Setup \notin Procs /\ Shell \notin Procs
  BY DEF IInv, JInv, Threads
\* A step in which no process moves.
<1>1. ASSUME UNCHANGED gs, \A p \in Procs : pc'[p] = pc[p] /\ (p \in Ring' <=> p \in Ring)
      PROVE  GsFollowsTheProcess'
  BY <1>1 DEF GsFollowsTheProcess
\* A step of the process: it is the only one.
<1>2. ASSUME NEW p \in Procs, current = p,
             \A u \in Threads \ {p} : pc'[u] = pc[u], UNCHANGED alloc,
             \/ pc[p] \in InKernel /\ pc'[p] \in InKernel /\ UNCHANGED gs
             \/ pc[p] \in InKernel /\ pc'[p] = "user" /\ Swap
             \/ pc[p] = "user" /\ pc'[p] \in InKernel /\ Swap
      PROVE  GsFollowsTheProcess'
  <2>1. p \in Ring /\ p \in Ring'
    BY <1>0, <1>2 DEF CurrentIsAlive, Places, Ring, InKernel
  <2>2. \A q \in Procs : q \in Ring \/ q \in Ring' => q = p
    BY <1>0, <1>2, <2>1 DEF OneJob, Ring
  <2>3. (gs = "kernel" <=> pc[p] \in InKernel) /\ gs \in {"user", "kernel"}
    BY <1>0, <2>1, <2>2 DEF GsFollowsTheProcess, TypeOK
  <2>4. gs' = "kernel" <=> pc'[p] \in InKernel
    BY <1>2, <2>3 DEF Swap, InKernel
  <2>. QED BY <2>1, <2>2, <2>4 DEF GsFollowsTheProcess
<1>3. ASSUME NEW t \in Threads, CheckInput(t) \/ Block(t) \/ Take(t) \/ CallYield(t)
      PROVE  GsFollowsTheProcess'
  <2>0. /\ current = t /\ UNCHANGED <<gs, alloc>> /\ \A u \in Threads \ {t} : pc'[u] = pc[u]
        /\ pc[t] \in {"rd", "empty", "take"} \cup YieldCalls
    BY <1>0, <1>3 DEF CheckInput, Block, Take, CallYield, Running, Step, Goto, TypeOK
  <2>1. CASE t \in Procs
    <3>1. pc[t] \in InKernel /\ pc'[t] \in InKernel
      BY <1>0, <1>3, <2>1 DEF CheckInput, Block, Take, CallYield, Running, Step, Goto, TypeOK,
         YieldCalls, Resume, InKernel, Homes
    <3>. QED BY <1>2, <2>0, <2>1, <3>1
  <2>2. CASE t \notin Procs
    <3>1. \A p \in Procs : pc'[p] = pc[p]
      BY <1>0, <2>0, <2>2
    <3>. QED BY <1>1, <2>0, <3>1 DEF Ring
  <2>. QED BY <2>1, <2>2
<1>4. ASSUME \/ BootSleep \/ ShellOther \/ ShellSleep \/ KexLoadDone \/ KexLoadReturn
             \/ WaitStart \/ WaitWalk \/ WaitSleep \/ TimerIRQ \/ KeyPress
      PROVE  GsFollowsTheProcess'
  <2>1. UNCHANGED <<gs, alloc>> /\ \A p \in Procs : pc'[p] = pc[p]
    BY <1>0, <1>4 DEF BootSleep, ShellOther, ShellSleep, KexLoadDone, KexLoadReturn, WaitStart,
       WaitWalk, WaitSleep, TimerIRQ, KeyPress, Interrupted, Step, Sleep, Goto, Running, TypeOK,
       Homes
  <2>. QED BY <1>1, <2>1 DEF Ring
<1>5. ASSUME NEW p \in Procs, SysReadNow(p) \/ SysReadBlock(p) \/ SysSleep(p) \/ SysRet(p)
      PROVE  GsFollowsTheProcess'
  <2>1. current = p /\ UNCHANGED alloc /\ \A u \in Threads \ {p} : pc'[u] = pc[u]
    BY <1>0, <1>5 DEF SysReadNow, SysReadBlock, SysSleep, SysRet, Running, Step, Sleep, Goto, TypeOK
  <2>2. \/ pc[p] \in InKernel /\ pc'[p] = "user" /\ Swap
        \/ pc[p] = "user" /\ pc'[p] \in InKernel /\ Swap
    BY <1>0, <1>5 DEF SysReadNow, SysReadBlock, SysSleep, SysRet, Running, Step, Sleep, Goto,
       TypeOK, InKernel
  <2>. QED BY <1>2, <2>1, <2>2
<1>6. ASSUME NEW t \in Threads, CleanupZombies(t) PROVE GsFollowsTheProcess'
  <2>1. Ring' = Ring
    BY <1>0, <1>6, ReclaimedAreTheZombies
       DEF Ring, Zombies, Lists, CleanupZombies, Running, Goto, TypeOK
  <2>2. UNCHANGED gs /\ \A p \in Procs : pc'[p] = pc[p]
    BY <1>0, <1>6 DEF CleanupZombies, Goto, TypeOK
  <2>. QED BY <1>1, <2>1, <2>2
<1>7. ASSUME SetupExit PROVE GsFollowsTheProcess'
  <2>1. UNCHANGED <<gs, alloc>> /\ \A p \in Procs : pc'[p] = pc[p]
    BY <1>0, <1>7 DEF SetupExit, Goto, TypeOK
  <2>. QED BY <1>1, <2>1 DEF Ring
<1>8. ASSUME NEW p \in Procs, SysExit(p) PROVE GsFollowsTheProcess'
  <2>1. /\ p \in Ring /\ pc[p] = "user" /\ UNCHANGED <<gs, alloc>> /\ pc'[p] = "dead"
        /\ \A u \in Threads \ {p} : pc'[u] = pc[u]
    BY <1>0, <1>8 DEF SysExit, Running, Goto, TypeOK, CurrentIsAlive
  <2>2. \A q \in Procs : q \in Ring \/ q \in Ring' => q = p
    BY <1>0, <2>1 DEF OneJob, Ring
  <2>. QED BY <2>1, <2>2 DEF GsFollowsTheProcess, InKernel
<1>9. ASSUME SpawnSetup \/ SpawnShell PROVE GsFollowsTheProcess'
  <2>1. UNCHANGED gs /\ \A p \in Procs : pc'[p] = pc[p] /\ alloc'[p] = alloc[p]
    BY <1>0, <1>9 DEF SpawnSetup, SpawnShell, ThreadAdd, Running, TypeOK
  <2>. QED BY <1>0, <1>1, <2>1 DEF Ring
<1>10. ASSUME KexLoad PROVE GsFollowsTheProcess'
  <2>1. PICK p \in Procs : ThreadAdd(p, "user", "BLOCKED", "loading")
    BY <1>10 DEF KexLoad
  <2>2. current = Shell /\ pc[Shell] = "cmd"
    BY <1>10 DEF KexLoad, Running
  <2>3. Ring' = Ring \cup {p} /\ Procs \cap Ring = {}
    BY <1>0, <2>1, <2>2, AddKeepsLists DEF Labels, Off, States, OneJob, Waiting
  <2>4. pc'[p] = "user" /\ UNCHANGED gs
    BY <1>0, <2>1, <2>2 DEF ThreadAdd, TypeOK
  <2>. QED BY <2>3, <2>4 DEF GsFollowsTheProcess, InKernel
<1>11. ASSUME NEW i, NEW to, ThreadKill(i, to), current \in Ring,
              \/ current \in Procs /\ pc[current] = "user" /\ to = "user"
              \/ current = Shell /\ pc[Shell] \in {"cmd", "loading"}
       PROVE  GsFollowsTheProcess'
  <2>1. UNCHANGED <<gs, alloc>>
    BY <1>11 DEF ThreadKill
  <2>2. \A p \in Procs \cap Ring : p = current \/ (pc[p] = "user" /\ p = job)
    BY <1>0, <1>11 DEF OneJob, Waiting, LoadsUndisturbed
  <2>3. CASE Victims(i) = {}
    <3>1. pc' = [pc EXCEPT ![current] = to]
      BY <1>11, <2>3 DEF ThreadKill, Goto
    <3>2. \A p \in Procs : pc'[p] = pc[p]
      BY <1>0, <1>11, <3>1 DEF TypeOK
    <3>. QED BY <1>1, <2>1, <3>2 DEF Ring
  <2>4. ASSUME NEW t \in Victims(i), pc' = [pc EXCEPT ![current] = to, ![t] = "dead"]
        PROVE  GsFollowsTheProcess'
    <3>1. t \in Ring /\ t # current /\ t \in Threads /\ current \in Threads
      BY <1>0 DEF Victims, Ring, TypeOK
    <3>2. pc'[t] = "dead" /\ \A p \in Procs \ {t} : pc'[p] = pc[p]
      BY <1>0, <1>11, <2>4, <3>1 DEF TypeOK
    <3>3. \A p \in Procs \ {t} : p \in Ring' <=> p \in Ring
      BY <2>1, <3>2 DEF Ring
    <3>4. t \notin Ring'
      BY <3>2 DEF Ring
    <3>5. t \in Procs => pc[t] \notin InKernel
      BY <2>2, <3>1 DEF InKernel
    <3>. QED BY <2>1, <3>2, <3>3, <3>4, <3>5 DEF GsFollowsTheProcess
  <2>. QED BY <1>11, <2>3, <2>4 DEF ThreadKill
<1>12. ASSUME ShellKill \/ KexLoadOom \/ (\E p \in Procs : SysKill(p)) PROVE GsFollowsTheProcess'
  <2>1. current \in Ring
    BY <1>0, <1>12 DEF ShellKill, KexLoadOom, SysKill, Running, CurrentIsAlive
  <2>. QED BY <1>11, <1>12, <2>1 DEF ShellKill, KexLoadOom, SysKill, Running
<1>13. ASSUME \/ IRQWhileExiting \/ WaitWalkLost \/ (\E p \in Procs : UserFault(p))
              \/ Halted \/ UNCHANGED vars
       PROVE  GsFollowsTheProcess'
  BY <1>1, <1>13 DEF IRQWhileExiting, WaitWalkLost, UserFault, Halted, vars, Ring
<1>14. CASE ThreadStep
  BY <1>14, <1>3, <1>4, <1>5, <1>6, <1>7, <1>9, <1>10, <1>12, <1>13 DEF ThreadStep
<1>15. CASE UserStep
  BY <1>15, <1>5, <1>8, <1>12, <1>13 DEF UserStep
<1>. QED BY <1>4, <1>13, <1>14, <1>15 DEF Next

\* With no key pressed during a load, the loaded process and the GS base are as the code
\* means them to be in every reachable state.
LEMMA UndisturbedInvariant ==
    ~KeysWhileLoading => (Spec => [](IInv /\ JInv /\ LoadsUndisturbed /\ GsFollowsTheProcess))
<1> SUFFICES ASSUME ~KeysWhileLoading
             PROVE  Spec => [](IInv /\ JInv /\ LoadsUndisturbed /\ GsFollowsTheProcess)
  OBVIOUS
<1>1. Init => IInv /\ JInv /\ LoadsUndisturbed /\ GsFollowsTheProcess
  BY InitEstablishes, InitIsQuiet, InitIsUndisturbed
<1>2. IInv /\ JInv /\ LoadsUndisturbed /\ GsFollowsTheProcess /\ [Next]_vars
        => (IInv /\ JInv /\ LoadsUndisturbed /\ GsFollowsTheProcess)'
  BY StepKeeps, StepKeepsJob, StepKeepsLoads, StepKeepsGs
<1>. QED BY <1>1, <1>2, PTL DEF Spec

\* User code runs with the user's GS base, whoever ran while the process was inside a
\* system call, provided no key is pressed while a program is loaded: each swapgs of
\* syscall_entry has its counterpart.
THEOREM SwapgsIsBalanced == ~KeysWhileLoading => (Spec => []UserRunsWithUserGs)
<1> SUFFICES ASSUME ~KeysWhileLoading PROVE Spec => []UserRunsWithUserGs
  OBVIOUS
<1>1. IInv /\ JInv /\ GsFollowsTheProcess => UserRunsWithUserGs
  <2> SUFFICES ASSUME IInv, JInv, GsFollowsTheProcess, NEW p \in Procs, current = p,
                      pc[p] = "user"
               PROVE  gs = "user"
    BY DEF UserRunsWithUserGs
  <2>1. p \in Ring
    BY DEF IInv, CurrentIsAlive
  <2>2. \A q \in Procs \cap Ring : q = p
    BY <2>1 DEF JInv, OneJob
  <2>. QED BY <2>2 DEF GsFollowsTheProcess, InKernel, IInv, TypeOK
<1>. QED BY <1>1, UndisturbedInvariant, PTL

\* A sleeper becomes ready only on the tick that ends its sleep, provided no key is pressed
\* while a program is loaded: neither a key nor yield() nor the loader wakes it early.
THEOREM SleepsLastTheirTime == ~KeysWhileLoading => (Spec => SleepIsNotCutShort)
<1> SUFFICES ASSUME ~KeysWhileLoading PROVE Spec => SleepIsNotCutShort
  OBVIOUS
<1> USE DistinctThreads
<1>1. ASSUME IInv, JInv, LoadsUndisturbed, [Next]_vars
      PROVE  [\A t \in Ring : state[t] = "SLEEPING" /\ state'[t] = "READY"
                               => sleep_ticks[t] <= 1 /\ sleep_ticks'[t] = 0]_vars
  <2> SUFFICES ASSUME Next, NEW t \in Ring, state[t] = "SLEEPING", state'[t] = "READY"
               PROVE  sleep_ticks[t] <= 1 /\ sleep_ticks'[t] = 0
    BY <1>1
  <2>1. /\ TypeOK /\ OneJob /\ t \in Threads /\ Shell \in Threads /\ Procs \subseteq Threads
        /\ sleep_ticks[t] \in 0..MaxTicks /\ MaxTicks \in Nat
    BY <1>1, Bounds DEF IInv, JInv, Ring, Threads, TypeOK
  <2>2. CASE TimerIRQ
    <3>1. sleep_ticks'[t] = Ticked[t]
      BY <2>2 DEF TimerIRQ
    <3>2. Ticked[t] = 0
      <4> DEFINE st == [u \in Threads |-> IF u \in Ring /\ state[u] = "SLEEPING" /\ Ticked[u] = 0
                                          THEN "READY" ELSE state[u]]
      <4>1. state' = Expire(st)
        BY <2>2 DEF TimerIRQ, Yield
      <4>2. st[t] = "READY" \/ sleep_ticks'[t] = 0
        BY <2>1, <4>1 DEF Expire
      <4>. QED BY <2>1, <3>1, <4>2
    <3>3. sleep_ticks[t] <= 1
      BY <2>1, <3>2 DEF Ticked
    <3>. QED BY <3>1, <3>2, <3>3
  <2>3. ASSUME NEW st, Yield(st), st[t] = "SLEEPING", UNCHANGED sleep_ticks
        PROVE  sleep_ticks[t] <= 1 /\ sleep_ticks'[t] = 0
    BY <2>1, <2>3 DEF Yield, Expire
  <2>4. ASSUME \/ (\E u \in Threads : CallYield(u))
               \/ (\E p \in Procs : SysReadBlock(p) \/ SysExit(p))
        PROVE  sleep_ticks[t] <= 1 /\ sleep_ticks'[t] = 0
    <3>1. CASE \E u \in Threads : CallYield(u)
      BY <2>3, <3>1 DEF CallYield
    <3>2. ASSUME NEW p \in Procs, SysReadBlock(p)
          PROVE  sleep_ticks[t] <= 1 /\ sleep_ticks'[t] = 0
      <4>1. Yield([state EXCEPT ![p] = "BLOCKED"]) /\ UNCHANGED sleep_ticks
        BY <3>2 DEF SysReadBlock
      <4>2. [state EXCEPT ![p] = "BLOCKED"][t] = "SLEEPING"
        BY <2>1, <4>1 DEF Yield, Expire, TypeOK
      <4>. QED BY <2>3, <4>1, <4>2
    <3>3. ASSUME NEW p \in Procs, SysExit(p)
          PROVE  sleep_ticks[t] <= 1 /\ sleep_ticks'[t] = 0
      <4>1. Yield([state EXCEPT ![p] = "ZOMBIE"]) /\ UNCHANGED sleep_ticks
        BY <3>3 DEF SysExit
      <4>2. [state EXCEPT ![p] = "ZOMBIE"][t] = "SLEEPING"
        BY <2>1, <4>1 DEF Yield, Expire, TypeOK
      <4>. QED BY <2>3, <4>1, <4>2
    <3>. QED BY <2>4, <3>1, <3>2, <3>3
  <2>5. CASE KeyPress \/ IRQWhileExiting \/ Halted
    BY <2>1, <2>5 DEF KeyPress, Unblocked, IRQWhileExiting, Halted, vars
  <2>6. ASSUME UserStep, \A p \in Procs : ~SysReadBlock(p) /\ ~SysExit(p) PROVE FALSE
    BY <2>1, <2>6 DEF UserStep, SysReadNow, SysSleep, SysKill, UserFault, Sleep, ThreadKill, TypeOK
  <2>7. ASSUME ThreadStep, \A u \in Threads : ~CallYield(u) PROVE FALSE
    <3>1. ~KexLoadDone
      BY <1>1, <2>1 DEF KexLoadDone, Running, LoadsUndisturbed, TypeOK, OneJob, Waiting
    <3>2. ASSUME NEW u \in Threads, NEW at, NEW st, NEW to, ThreadAdd(u, at, st, to) PROVE FALSE
      <4>1. alloc[t] /\ ~alloc[u] /\ state' = [state EXCEPT ![u] = st]
        BY <3>2 DEF ThreadAdd, Ring
      <4>. QED BY <2>1, <4>1 DEF TypeOK
    <3>7. ~SpawnSetup /\ ~SpawnShell /\ ~KexLoad
      BY <2>1, <3>2 DEF SpawnSetup, SpawnShell, KexLoad, Threads
    <3>3. ~ShellKill /\ ~KexLoadOom /\ ~SetupExit
      BY <2>1 DEF ShellKill, KexLoadOom, ThreadKill, SetupExit, TypeOK
    <3>4. ~BootSleep /\ ~ShellSleep /\ ~WaitSleep
      BY <2>1 DEF BootSleep, ShellSleep, WaitSleep, Sleep, TypeOK
    <3>5. \A u \in Threads : ~CleanupZombies(u) /\ ~CheckInput(u) /\ ~Block(u) /\ ~Take(u)
      BY <2>1 DEF CleanupZombies, CheckInput, Step, Block, Take, TypeOK
    <3>6. ~ShellOther /\ ~KexLoadReturn /\ ~WaitStart /\ ~WaitWalk /\ ~WaitWalkLost
          /\ \A p \in Procs : ~SysRet(p)
      BY DEF ShellOther, KexLoadReturn, WaitStart, WaitWalk, WaitWalkLost, SysRet, Step
    <3>. QED BY <2>7, <3>1, <3>3, <3>4, <3>5, <3>6, <3>7 DEF ThreadStep
  <2>. QED BY <2>2, <2>4, <2>5, <2>6, <2>7 DEF Next
<1>. QED BY <1>1, UndisturbedInvariant, PTL DEF Spec, SleepIsNotCutShort
=============================================================================
