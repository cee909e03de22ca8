-------------------------- MODULE PoolRegistryProofs --------------------------
(***************************************************************************)
(* For any number of threads and pools, dam_pool_list is the list of the   *)
(* registered pools, whole, in every program whose threads take turns, or  *)
(* use one layer and make their first call before they start threads; and  *)
(* where such a program takes turns or unmaps nothing, every walk of the   *)
(* list, with a lock or without one, stays on it and finds what it should. *)
(***************************************************************************)
EXTENDS PoolRegistry, SequenceTheorems, TLAPS

\* The programs the property is claimed of.
DisciplinedPrograms ==
  \A prog \in Programs :
    prog.turns
      \/ (prog.init /\ prog.pages /\ \E l \in Layers : prog.layers \subseteq {l})

\* While these are where a thread is, it may come to write the list.
Critical ==
  {"search", "count", "size", "map", "link", "publish", "again", "find", "scan", "unlink", "unmap"}

\* A thread in dam_init.
InitPhase(t) == th[t].init \/ th[t].pc \in {"check", "locks", "ready"}

\* A thread that frees or reallocates.
Holds(t) == th[t].call \in {"free", "realloc"}

-----------------------------------------------------------------------------
\* The list, as memory.

Distinct == \A i, j \in DOMAIN registered : registered[i] = registered[j] => i = j

ListInv == AllPoolsListed /\ Distinct

\* Of one thread: what it holds and where it is.
LocksInv(t) ==
  /\ th[t].pc = "idle" => th[t] = Idle
  /\ InitPhase(t) => ~ initialized /\ th[t].call = "malloc"
  /\ th[t].init => th[t].pc \in {"count", "size", "map", "link", "publish", "ready"}
  /\ th[t].pc = "ready" => th[t].init
  /\ th[t].pc \in Critical \cup {"tally"} /\ ~ th[t].init => owner[th[t].layer] = t
  /\ th[t].call = "snapshot" => th[t].pc \in {"lock", "tally"}
  /\ th[t].pc = "tally" => th[t].call = "snapshot"
  /\ th[t].pc \in Critical \cup {"check", "locks", "ready"} => th[t].layer \in program.layers
  /\ th[t].pc = "lock" /\ th[t].call # "snapshot" => th[t].layer \in program.layers
  /\ th[t].pc \in {"lookup", "foreign", "find", "scan", "unlink", "unmap"} => Holds(t)

\* The pool a thread is about to free is listed until it unlinks it, is a direct pool
\* from the moment that is known, and no client uses it.
OldInv(t) ==
  IF ~ Holds(t) THEN th[t].old = NULL ELSE
    /\ th[t].old \in Pools
    /\ th[t].pc = "unmap" => th[t].old \notin Listed
    /\ th[t].pc # "unmap" =>
         /\ th[t].old \in Listed
         /\ pool[th[t].old].type = "DIRECT" =>
              th[t].old \notin inuse /\ "DIRECT" \in program.layers
         /\ th[t].call = "realloc" \/ th[t].pc \notin {"lookup", "foreign"} =>
              pool[th[t].old].type = "DIRECT"

\* The pool it made is not listed until it publishes it, and no client uses it yet.
NewInv(t) ==
  th[t].new # NULL =>
    /\ th[t].pc \in {"link", "publish", "again", "search", "find", "scan", "unlink", "unmap",
                     "ready"}
    /\ th[t].pc \in {"link", "publish"} => th[t].new \in DOMAIN pool /\ th[t].new \notin Listed
    /\ th[t].pc = "publish" => pool[th[t].new].next = dam_pool_list
    /\ th[t].pc \in {"again", "search", "find", "scan", "unlink", "unmap"} =>
         th[t].new \in Listed /\ th[t].new \notin inuse

\* How far the search for the cell to write has come.
ScanInv(t) ==
  /\ th[t].pc = "scan" /\ th[t].at # NULL =>
       \E i, j \in DOMAIN registered :
         i < j /\ registered[i] = th[t].at /\ registered[j] = th[t].old
  /\ th[t].pc = "unlink" =>
       IF th[t].at = NULL THEN registered[1] = th[t].old
       ELSE \E i, j \in DOMAIN registered :
              j = i + 1 /\ registered[i] = th[t].at /\ registered[j] = th[t].old
  /\ th[t].pc \in {"link", "publish"} => th[t].new # NULL

ThreadInv(t) == LocksInv(t) /\ OldInv(t) /\ NewInv(t) /\ ScanInv(t)

\* Two threads: one of them is idle where the program takes turns or has not initialised;
\* a direct pool is freed by one thread; what one makes is not what one frees.
Alone == program.turns \/ ~ initialized

PairInv(t, u) ==
  /\ Alone => th[t].pc = "idle" \/ th[u].pc = "idle"
  /\ Holds(t) /\ Holds(u) /\ th[t].pc # "unmap" /\ th[u].pc # "unmap"
       /\ th[t].old = th[u].old => pool[th[t].old].type # "DIRECT"

ApartInv(t, u) ==
  th[t].new # NULL /\ Holds(u) /\ th[u].pc # "unmap" => th[t].new # th[u].old

RInv ==
  /\ TypeOK
  /\ program \in Programs
  /\ ListInv
  /\ \A t \in Threads : ThreadInv(t)
  /\ \A t, u \in Threads : ApartInv(t, u)
  /\ \A t, u \in Threads : t # u => PairInv(t, u)

-----------------------------------------------------------------------------
\* Facts the steps share.

\* At most one thread may write the list.
LEMMA Exclusive ==
  ASSUME DisciplinedPrograms, RInv,
         NEW t \in Threads, NEW u \in Threads, th[t].pc \in Critical, th[u].pc \in Critical
  PROVE  t = u
<1> SUFFICES ASSUME t # u PROVE FALSE
  OBVIOUS
<1>1. th[t].pc # "idle" /\ th[u].pc # "idle"
  BY DEF Critical
<1>2. ~ Alone
  BY <1>1 DEF RInv, PairInv
<1>3. ~ th[t].init /\ ~ th[u].init
  BY <1>2 DEF RInv, ThreadInv, LocksInv, InitPhase, Alone
<1>4. owner[th[t].layer] = t /\ owner[th[u].layer] = u
  BY <1>3 DEF RInv, ThreadInv, LocksInv
<1>5. th[t].layer \in program.layers /\ th[u].layer \in program.layers
  BY DEF RInv, ThreadInv, LocksInv
<1>6. PICK l \in Layers : program.layers \subseteq {l}
  BY <1>2 DEF RInv, Alone, DisciplinedPrograms
<1> QED BY <1>4, <1>5, <1>6

\* Nor does another one do anything while one initialises.
LEMMA InitAlone ==
  ASSUME RInv, NEW t \in Threads, NEW u \in Threads, t # u, InitPhase(t)
  PROVE  th[u] = Idle
<1>1. ~ initialized /\ th[t].pc # "idle"
  BY DEF RInv, ThreadInv, LocksInv, InitPhase
<1>2. th[u].pc = "idle"
  BY <1>1 DEF RInv, PairInv, Alone
<1> QED BY <1>2 DEF RInv, ThreadInv, LocksInv

\* A thread that made a pool is writing the list, or initialises.
LEMMA NewCritical ==
  ASSUME RInv, NEW t \in Threads, th[t].new # NULL
  PROVE  th[t].pc \in Critical \/ InitPhase(t)
BY DEF RInv, ThreadInv, NewInv, Critical, InitPhase

\* While one thread may write the list, no other one may, or has made a pool.
LEMMA WriterAlone ==
  ASSUME DisciplinedPrograms, RInv,
         NEW t \in Threads, NEW u \in Threads, u # t, th[t].pc \in Critical
  PROVE  th[u].pc \notin Critical /\ th[u].new = NULL
<1>1. th[u].pc \notin Critical
  BY Exclusive
<1>2. InitPhase(u) => th[t] = Idle
  BY InitAlone
<1>3. th[t].pc # "idle"
  BY DEF Critical
<1>4. ~ InitPhase(u)
  BY <1>2, <1>3 DEF Idle
<1> QED BY <1>1, <1>4, NewCritical

\* The list's members are mapped, and there are as many as it says.
LEMMA ListFacts ==
  ASSUME RInv
  PROVE  /\ registered \in Seq(Pools) /\ Len(registered) \in Nat
         /\ DOMAIN registered = 1 .. Len(registered)
         /\ Listed \subseteq DOMAIN pool /\ Listed \subseteq Pools /\ NULL \notin Pools
         /\ \A i \in DOMAIN registered : registered[i] \in Listed
         /\ inuse \subseteq Listed
         /\ \A p \in DOMAIN pool : pool[p].type \in Layers \cup {"NONE"} /\ pool[p].next \in Cells
<1>1. registered \in Seq(Pools) /\ NULL \notin Pools
  BY RegistryAssumption DEF RInv, TypeOK
<1>2. Len(registered) \in Nat /\ DOMAIN registered = 1 .. Len(registered)
  BY <1>1
<1>3. \A i \in DOMAIN registered : registered[i] \in Pools
  BY <1>1
<1>4. \A p \in DOMAIN pool : pool[p] \in [type: Layers \cup {"NONE"}, next: Cells]
  BY DEF RInv, TypeOK
<1> QED BY <1>1, <1>2, <1>3, <1>4 DEF RInv, ListInv, AllPoolsListed, Listed

\* A thread's fields.
LEMMA ThreadFields ==
  ASSUME RInv, NEW t \in Threads
  PROVE  /\ th[t] \in Thread
         /\ th[t].pc \in PCs /\ th[t].call \in {"malloc", "free", "realloc", "snapshot"}
         /\ th[t].layer \in Layers /\ th[t].init \in BOOLEAN /\ th[t].at \in Cells
         /\ th[t].count \in 0 .. MAX_POOLS /\ th[t].new \in Cells /\ th[t].old \in Cells
BY DEF RInv, TypeOK, Thread

\* The types of the rest.
LEMMA Basics ==
  ASSUME RInv
  PROVE  /\ MAX_POOLS \in Nat /\ initialized \in BOOLEAN /\ dam_lock_initialized \in BOOLEAN
         /\ fault \in BOOLEAN /\ owner \in [Layers -> Threads \cup {NoThread}]
         /\ th \in [Threads -> Thread] /\ dam_pool_list \in Cells
         /\ NoThread \notin Threads /\ NULL \notin Pools
BY RegistryAssumption DEF RInv, TypeOK

\* A thread outside the allocator.
LEMMA IdleThread ==
  /\ Idle \in Thread
  /\ Idle.pc = "idle" /\ Idle.call = "malloc" /\ Idle.layer = "SMALL" /\ Idle.init = FALSE
  /\ Idle.at = NULL /\ Idle.count = 0 /\ Idle.new = NULL /\ Idle.old = NULL
<1>1. 0 \in 0 .. MAX_POOLS
  BY RegistryAssumption
<1> QED BY <1>1 DEF Idle, Thread, PCs, Cells, Layers

\* The threads but one, whose step it is, keep the locks they hold.
OthersLocked(t) ==
  \A l \in Layers, u \in Threads :
    u # t /\ owner[l] = u /\ th[u].pc \in Critical \cup {"tally"} => owner'[l] = u

\* Nothing that another thread frees, or made, comes into use.
OthersUnused(t) ==
  \A u \in Threads : u # t =>
    /\ th[u].new # NULL /\ th[u].new \notin inuse => th[u].new \notin inuse'
    /\ /\ Holds(u) /\ th[u].pc # "unmap" /\ pool[th[u].old].type = "DIRECT"
       => th[u].old \notin inuse'

\* That is so where the locks and what is in use stay.
LEMMA ThreadsKeep ==
  ASSUME RInv, NEW t \in Threads, UNCHANGED <<owner, inuse>>
  PROVE  OthersLocked(t) /\ OthersUnused(t)
<1>1. OthersLocked(t)
  BY DEF OthersLocked
<1>2. OthersUnused(t)
  BY DEF OthersUnused, RInv, ThreadInv, OldInv
<1> QED BY <1>1, <1>2

\* A step of t that changes where t is, the locks and what clients hold, no more.
LEMMA ThreadStep ==
  ASSUME RInv, NEW t \in Threads, NEW w \in Thread, th' = [th EXCEPT ![t] = w],
         UNCHANGED <<program, dam_pool_list, pool, registered>>,
         dam_lock_initialized' \in BOOLEAN, fault' \in BOOLEAN, initialized' \in BOOLEAN,
         initialized' = initialized
           \/ (initialized' = TRUE /\ \A u \in Threads : u # t => th[u] = Idle),
         owner' \in [Layers -> Threads \cup {NoThread}],
         inuse' \subseteq Listed, OthersLocked(t), OthersUnused(t), ThreadInv(t)',
         w.pc # "idle" => th[t].pc # "idle" \/ (Alone => \A u \in Threads : th[u].pc = "idle"),
         w.new \in {th[t].new, NULL},
         \/ w.call \notin {"free", "realloc"}
         \/ w.call = th[t].call /\ w.old = th[t].old /\ th[t].pc # "unmap"
         \/ \A u \in Threads :
              th[u].new # w.old /\ (u # t /\ Holds(u) /\ th[u].pc # "unmap" /\ th[u].old = w.old
                                      => pool[w.old].type # "DIRECT")
  PROVE  RInv'
<1>0. UNCHANGED <<program, dam_pool_list, pool, registered>> /\ (Alone' => Alone)
  BY DEF Alone
<1>1. th[t] \in Thread /\ th' \in [Threads -> Thread] /\ th'[t] = w
      /\ \A u \in Threads : u # t => th'[u] = th[u]
  BY ThreadFields DEF RInv, TypeOK
<1>2. TypeOK'
  BY <1>0, <1>1, ListFacts DEF RInv, TypeOK
<1>3. ListInv'
  BY <1>0 DEF RInv, ListInv, AllPoolsListed, Distinct, Listed
<1>4. ASSUME NEW u \in Threads, u # t PROVE ThreadInv(u)'
  <2>1. th'[u] = th[u] /\ ThreadInv(u) /\ th[u].layer \in Layers
    BY <1>1, <1>4, ThreadFields DEF RInv
  <2>2. LocksInv(u)'
    BY <1>0, <1>4, <2>1 DEF ThreadInv, LocksInv, InitPhase, Holds, OthersLocked, Idle
  <2>3. OldInv(u)'
    BY <1>0, <1>4, <2>1 DEF ThreadInv, OldInv, Holds, Listed, OthersUnused
  <2>4. NewInv(u)'
    BY <1>0, <1>4, <2>1 DEF ThreadInv, NewInv, Listed, OthersUnused
  <2>5. ScanInv(u)'
    BY <1>0, <2>1 DEF ThreadInv, ScanInv
  <2> QED BY <2>2, <2>3, <2>4, <2>5 DEF ThreadInv
<1>5. ASSUME NEW u \in Threads, NEW v \in Threads PROVE ApartInv(u, v)'
  <2>1. ApartInv(u, v) /\ ApartInv(t, v) /\ ApartInv(u, t) /\ ApartInv(t, t)
    BY DEF RInv
  <2> QED BY <1>0, <1>1, <2>1 DEF ApartInv, Holds
<1>6. ASSUME NEW u \in Threads, NEW v \in Threads, u # v PROVE PairInv(u, v)'
  <2>1. PairInv(u, v) /\ PairInv(v, u)
    BY <1>6 DEF RInv
  <2>2. CASE u # t /\ v # t
    BY <1>0, <1>1, <2>1, <2>2 DEF PairInv, Holds
  <2>3. CASE u = t
    BY <1>0, <1>1, <1>6, <2>1, <2>3 DEF PairInv, Holds
  <2>4. CASE v = t
    BY <1>0, <1>1, <1>6, <2>1, <2>4 DEF PairInv, Holds
  <2> QED BY <2>2, <2>3, <2>4
<1> QED BY <1>0, <1>2, <1>3, <1>4, <1>5, <1>6 DEF RInv

\* A step of the one thread that may write the list.
LEMMA WriterStep ==
  ASSUME DisciplinedPrograms, RInv, NEW t \in Threads, NEW w \in Thread,
         th[t].pc \in Critical, th' = [th EXCEPT ![t] = w],
         UNCHANGED <<program, initialized>>, TypeOK', ListInv', OthersLocked(t),
         \A u \in Threads : u # t /\ Holds(u) =>
           /\ th[u].old \in Listed => th[u].old \in Listed'
           /\ th[u].old \in Listed => pool'[th[u].old].type = pool[th[u].old].type
           /\ w.new # th[u].old \/ w.new = NULL,
         OthersUnused(t), ThreadInv(t)', ApartInv(t, t)',
         w.call \notin {"free", "realloc"} \/ (w.call = th[t].call /\ w.old = th[t].old),
         th[t].pc = "unmap" => w.call \notin {"free", "realloc"}
  PROVE  RInv'
<1>1. th[t] \in Thread /\ th' \in [Threads -> Thread] /\ th'[t] = w
      /\ \A u \in Threads : u # t => th'[u] = th[u]
  BY ThreadFields DEF RInv, TypeOK
<1>2. \A u \in Threads : u # t => th[u].pc \notin Critical
  BY WriterAlone
<1>3. \A u \in Threads : u # t => th[u].new = NULL
  BY WriterAlone
<1>4. ASSUME NEW u \in Threads, u # t PROVE ThreadInv(u)'
  <2>1. th'[u] = th[u] /\ ThreadInv(u) /\ th[u].layer \in Layers
    BY <1>1, <1>4, ThreadFields DEF RInv
  <2>2. LocksInv(u)'
    BY <1>4, <2>1 DEF ThreadInv, LocksInv, InitPhase, Holds, OthersLocked
  <2>3. OldInv(u)'
    <3>1. th[u].pc # "unmap"
      BY <1>2, <1>4 DEF Critical
    <3> QED BY <1>4, <2>1, <3>1 DEF ThreadInv, OldInv, Holds, OthersUnused
  <2>4. NewInv(u)'
    BY <1>3, <1>4, <2>1 DEF NewInv
  <2>5. ScanInv(u)'
    <3>1. th[u].pc \notin {"scan", "unlink", "link", "publish"}
      BY <1>2, <1>4 DEF Critical
    <3> QED BY <2>1, <3>1 DEF ScanInv
  <2> QED BY <2>2, <2>3, <2>4, <2>5 DEF ThreadInv
<1>5. ASSUME NEW u \in Threads, NEW v \in Threads PROVE ApartInv(u, v)'
  <2>1. CASE u # t
    BY <1>1, <1>3, <2>1 DEF ApartInv
  <2>2. CASE u = t /\ v = t
    BY <2>2
  <2>3. CASE u = t /\ v # t
    BY <1>1, <2>3 DEF ApartInv, Holds
  <2> QED BY <2>1, <2>2, <2>3
<1>6. ASSUME NEW u \in Threads, NEW v \in Threads, u # v PROVE PairInv(u, v)'
  <2>1. PairInv(u, v) /\ ThreadInv(u) /\ ThreadInv(v)
    BY <1>6 DEF RInv
  <2>2. th[t].pc # "idle"
    BY DEF Critical
  <2>3. Alone' = Alone
    BY DEF Alone
  <2>4. Alone' => th'[u].pc = "idle" \/ th'[v].pc = "idle"
    <3>1. CASE u # t /\ v # t
      BY <1>1, <2>1, <2>3, <3>1 DEF PairInv
    <3>2. CASE u = t
      BY <1>1, <1>6, <2>1, <2>2, <2>3, <3>2 DEF PairInv
    <3>3. CASE v = t
      BY <1>1, <1>6, <2>1, <2>2, <2>3, <3>3 DEF PairInv
    <3> QED BY <3>1, <3>2, <3>3
  <2>5. ASSUME Holds(u)', Holds(v)', th'[u].pc # "unmap", th'[v].pc # "unmap",
               th'[u].old = th'[v].old
        PROVE  pool'[th'[u].old].type # "DIRECT"
    <3>1. Holds(u) /\ Holds(v) /\ th[u].old = th[v].old /\ th[u].old = th'[u].old
      BY <1>1, <2>5 DEF Holds
    <3>2. th[u].pc # "unmap" /\ th[v].pc # "unmap"
      BY <1>1, <1>2, <1>6, <2>5, <3>1 DEF Critical, Holds
    <3>3. pool[th[u].old].type # "DIRECT" /\ th[u].old \in Listed
      BY <2>1, <3>1, <3>2 DEF PairInv, ThreadInv, OldInv
    <3>4. u # t \/ v # t
      BY <1>6
    <3> QED BY <3>1, <3>3, <3>4
  <2> QED BY <2>4, <2>5 DEF PairInv
<1> QED BY <1>1, <1>4, <1>5, <1>6 DEF RInv

-----------------------------------------------------------------------------
\* A call begins.

\* When it may, and the program depends on it, all are idle.
LEMMA BeginAlone ==
  ASSUME DisciplinedPrograms, RInv, NEW t \in Threads, MayBegin(t)
  PROVE  /\ th[t] = Idle
         /\ Alone => \A u \in Threads : th[u].pc = "idle"
BY DEF RInv, ThreadInv, LocksInv, MayBegin, At, Alone, DisciplinedPrograms

\* dam_malloc.
LEMMA MallocStep ==
  ASSUME DisciplinedPrograms, RInv, NEW t \in Threads, NEW layer \in Layers, Malloc(t, layer)
  PROVE  RInv'
<1> DEFINE w == [Idle EXCEPT !.pc = IF initialized THEN "lock" ELSE "check", !.layer = layer]
<1>1. /\ w \in Thread /\ w.call = "malloc" /\ w.new = NULL /\ w.old = NULL /\ w.init = FALSE
      /\ w.pc = (IF initialized THEN "lock" ELSE "check") /\ w.layer = layer
  BY Basics, IdleThread DEF Thread, PCs
<1>2. th' = [th EXCEPT ![t] = w] /\ UNCHANGED <<Memory, owner, inuse>>
      /\ MayBegin(t) /\ layer \in program.layers
  BY DEF Malloc, Goto, OnlyThreads
<1> HIDE DEF w
<1>3. th'[t] = w /\ UNCHANGED <<program, pool, registered, initialized>>
  BY <1>2, Basics DEF Memory
<1>4. ThreadInv(t)'
  BY <1>1, <1>2, <1>3
     DEF ThreadInv, LocksInv, OldInv, NewInv, ScanInv, InitPhase, Holds, Critical
<1>5. inuse' \subseteq Listed
  BY <1>2, ListFacts
<1>6. OthersLocked(t) /\ OthersUnused(t)
  BY <1>2, ThreadsKeep
<1>7. UNCHANGED <<dam_pool_list, dam_lock_initialized, fault>>
  BY <1>2 DEF Memory
<1> QED BY Basics, <1>1, <1>2, <1>3, <1>4, <1>5, <1>6, <1>7, BeginAlone, ThreadStep

\* dam_snapshot.
LEMMA SnapshotStep ==
  ASSUME DisciplinedPrograms, RInv, NEW t \in Threads, Snapshot(t)
  PROVE  RInv'
<1> DEFINE w == [Idle EXCEPT !.pc = "lock", !.call = "snapshot", !.at = dam_pool_list]
<1>1. /\ w \in Thread /\ w.call = "snapshot" /\ w.new = NULL /\ w.old = NULL /\ w.init = FALSE
      /\ w.pc = "lock"
  BY Basics, IdleThread DEF Thread, PCs
<1>2. th' = [th EXCEPT ![t] = w] /\ UNCHANGED <<Memory, owner, inuse>> /\ MayBegin(t)
  BY DEF Snapshot, Goto, OnlyThreads
<1> HIDE DEF w
<1>3. th'[t] = w /\ UNCHANGED <<program, pool, registered, initialized>>
  BY <1>2, Basics DEF Memory
<1>4. ThreadInv(t)'
  BY <1>1, <1>3
     DEF ThreadInv, LocksInv, OldInv, NewInv, ScanInv, InitPhase, Holds, Critical
<1>5. inuse' \subseteq Listed
  BY <1>2, ListFacts
<1>6. OthersLocked(t) /\ OthersUnused(t)
  BY <1>2, ThreadsKeep
<1>7. UNCHANGED <<dam_pool_list, dam_lock_initialized, fault>>
  BY <1>2 DEF Memory
<1> QED BY Basics, <1>1, <1>2, <1>3, <1>4, <1>5, <1>6, <1>7, BeginAlone, ThreadStep

\* dam_free, dam_realloc: whose pool some client uses, so that no one frees or makes it.
LEMMA FreeOrReallocStep ==
  ASSUME DisciplinedPrograms, RInv, NEW t \in Threads, NEW call \in {"free", "realloc"},
         NEW p \in inuse, FreeOrRealloc(t, call, p)
  PROVE  RInv'
<1> DEFINE w == [Idle EXCEPT !.pc = "lookup", !.call = call, !.at = dam_pool_list, !.old = p]
<1>p. p \in Listed /\ p \in Pools /\ inuse \subseteq Listed
  BY ListFacts
<1>1. /\ w \in Thread /\ w.call = call /\ w.new = NULL /\ w.old = p /\ w.init = FALSE
      /\ w.pc = "lookup"
  BY <1>p, Basics, IdleThread DEF Thread, PCs, Cells
<1>2. /\ th' = [th EXCEPT ![t] = w] /\ UNCHANGED <<Memory, owner>> /\ MayBegin(t)
      /\ pool[p].type \in program.layers
      /\ call = "realloc" => pool[p].type = "DIRECT"
      /\ inuse' = IF pool[p].type = "DIRECT" THEN inuse \ {p} ELSE inuse
  BY DEF FreeOrRealloc, Goto
<1> HIDE DEF w
<1>3. th'[t] = w /\ UNCHANGED <<program, pool, registered, initialized>>
  BY <1>2, Basics DEF Memory
<1>4. ThreadInv(t)'
  BY <1>1, <1>2, <1>3, <1>p
     DEF ThreadInv, LocksInv, OldInv, NewInv, ScanInv, InitPhase, Holds, Critical, Listed
<1>5. inuse' \subseteq Listed
  BY <1>2, <1>p
<1>6. OthersLocked(t) /\ OthersUnused(t)
  <2>1. ASSUME NEW u \in Threads, Holds(u), th[u].pc # "unmap",
               pool[th[u].old].type = "DIRECT"
        PROVE  th[u].old \notin inuse'
    BY <1>2, <2>1 DEF RInv, ThreadInv, OldInv
  <2> QED BY <1>2, <2>1 DEF OthersLocked, OthersUnused
<1>7. UNCHANGED <<dam_pool_list, dam_lock_initialized, fault>>
  BY <1>2 DEF Memory
<1>8. ASSUME NEW u \in Threads PROVE th[u].new # p
  <2> SUFFICES ASSUME th[u].new = p PROVE FALSE
    OBVIOUS
  <2>1. th[u].new # NULL /\ NewInv(u) /\ LocksInv(u)
    BY <1>p, ListFacts DEF RInv, ThreadInv
  <2>2. th[u].pc = "ready"
    BY <1>p, <2>1 DEF NewInv
  <2>3. Alone
    BY <2>1, <2>2 DEF LocksInv, InitPhase, Alone
  <2> QED BY <1>2, <2>2, <2>3, BeginAlone
<1>9. ASSUME NEW u \in Threads, Holds(u), th[u].pc # "unmap", th[u].old = p
      PROVE  pool[p].type # "DIRECT"
  BY <1>9 DEF RInv, ThreadInv, OldInv
<1> QED BY Basics, <1>1, <1>2, <1>3, <1>4, <1>5, <1>6, <1>7, <1>8, <1>9, BeginAlone, ThreadStep

-----------------------------------------------------------------------------
\* A step inside a call.

\* A thread moves on, with what it has.
LEMMA QuietStep ==
  ASSUME RInv, NEW t \in Threads, NEW w \in Thread, Goto(t, w), OnlyThreads,
         th[t].pc \notin {"idle", "unmap"},
         w.call = th[t].call, w.old = th[t].old, w.new = th[t].new, ThreadInv(t)'
  PROVE  RInv'
<1>1. th' = [th EXCEPT ![t] = w] /\ UNCHANGED <<Memory, owner, inuse>>
  BY DEF Goto, OnlyThreads
<1>2. UNCHANGED <<program, dam_pool_list, pool, registered, initialized,
                  dam_lock_initialized, fault>>
  BY <1>1 DEF Memory
<1>3. inuse' \subseteq Listed
  BY <1>1, ListFacts
<1>4. OthersLocked(t) /\ OthersUnused(t)
  BY <1>1, ThreadsKeep
<1> QED BY <1>1, <1>2, <1>3, <1>4, Basics, ThreadStep

\* What a step that leaves the list alone does not change.
LEMMA QuietFacts ==
  ASSUME RInv, NEW t \in Threads, NEW w, Goto(t, w), OnlyThreads
  PROVE  /\ th'[t] = w /\ Listed' = Listed
         /\ UNCHANGED <<program, dam_pool_list, pool, owner, initialized, inuse, registered>>
BY Basics DEF Goto, OnlyThreads, Memory, Listed

\* dam_init asks what is done already.
LEMMA CheckStep ==
  ASSUME RInv, NEW t \in Threads, Check(t)
  PROVE  RInv'
<1>1. ThreadInv(t) /\ ~ initialized /\ th[t].pc = "check" /\ th[t].call = "malloc"
      /\ ~ th[t].init /\ th[t].layer \in program.layers
  BY DEF RInv, ThreadInv, LocksInv, InitPhase, Check, At
<1> DEFINE w1 == [th[t] EXCEPT !.pc = "count", !.init = TRUE, !.at = dam_pool_list]
           w2 == [th[t] EXCEPT !.pc = "locks"]
           w3 == [th[t] EXCEPT !.pc = "lock"]
<1>2. OnlyThreads /\ (Goto(t, w1) \/ Goto(t, w2) \/ Goto(t, w3))
  BY <1>1 DEF Check, Step
<1>3. /\ w1 \in Thread /\ w1.call = th[t].call /\ w1.old = th[t].old /\ w1.new = th[t].new
      /\ w1.pc = "count" /\ w1.init = TRUE /\ w1.layer = th[t].layer
  BY Basics, ThreadFields, ZenonT(40) DEF Thread, PCs
<1>4. \A w \in {w2, w3} :
        /\ w \in Thread /\ w.call = th[t].call /\ w.old = th[t].old /\ w.new = th[t].new
        /\ w.pc \in {"locks", "lock"} /\ w.init = th[t].init /\ w.layer = th[t].layer
  BY ThreadFields DEF Thread, PCs
<1> HIDE DEF w1, w2, w3
<1>5. ASSUME NEW w \in {w1, w2, w3}, Goto(t, w) PROVE ThreadInv(t)'
  <2>1. th'[t] = w /\ UNCHANGED <<program, initialized>>
    BY <1>2, <1>5, QuietFacts
  <2> QED BY <1>1, <1>3, <1>4, <2>1
      DEF ThreadInv, LocksInv, OldInv, NewInv, ScanInv, InitPhase, Holds, Critical
<1> QED BY <1>1, <1>2, <1>3, <1>4, <1>5, QuietStep

\* dam_thread_init frees the locks: no one else is there to hold them.
LEMMA InitLocksStep ==
  ASSUME RInv, NEW t \in Threads, InitLocks(t)
  PROVE  RInv'
<1>1. ThreadInv(t) /\ ~ initialized /\ th[t].pc = "locks" /\ th[t].call = "malloc"
      /\ th[t].layer \in program.layers /\ InitPhase(t)
  BY DEF RInv, ThreadInv, LocksInv, InitPhase, InitLocks, At
<1> DEFINE w == [th[t] EXCEPT !.pc = "count", !.init = TRUE, !.at = dam_pool_list]
<1>2. /\ w \in Thread /\ w.call = th[t].call /\ w.old = th[t].old /\ w.new = th[t].new
      /\ w.pc = "count" /\ w.init = TRUE /\ w.layer = th[t].layer
  BY Basics, ThreadFields, ZenonT(40) DEF Thread, PCs
<1>3. /\ th' = [th EXCEPT ![t] = w] /\ owner' = [l \in Layers |-> NoThread]
      /\ dam_lock_initialized' = TRUE
      /\ UNCHANGED <<program, dam_pool_list, pool, initialized, inuse, registered, fault>>
  BY DEF InitLocks, Goto
<1> HIDE DEF w
<1>4. th'[t] = w
  BY <1>3, Basics
<1>5. ThreadInv(t)'
  BY <1>1, <1>2, <1>3, <1>4
     DEF ThreadInv, LocksInv, OldInv, NewInv, ScanInv, InitPhase, Holds, Critical
<1>6. \A u \in Threads : u # t => th[u] = Idle
  BY <1>1, InitAlone
<1>7. OthersLocked(t) /\ OthersUnused(t)
  BY <1>3, <1>6 DEF OthersLocked, OthersUnused, Idle, Critical, Holds
<1>8. inuse' \subseteq Listed
  BY <1>3, ListFacts
<1> QED BY <1>1, <1>2, <1>3, <1>5, <1>7, <1>8, Basics, ThreadStep

\* initialized is set.
LEMMA ReadyStep ==
  ASSUME RInv, NEW t \in Threads, Ready(t)
  PROVE  RInv'
<1>1. ThreadInv(t) /\ th[t].pc = "ready" /\ th[t].call = "malloc" /\ InitPhase(t)
      /\ th[t].layer \in program.layers
  BY DEF RInv, ThreadInv, LocksInv, InitPhase, Ready, At
<1> DEFINE w == [th[t] EXCEPT !.pc = "lock", !.init = FALSE, !.new = NULL, !.count = 0]
<1>2. /\ w \in Thread /\ w.call = "malloc" /\ w.old = th[t].old /\ w.new = NULL
      /\ w.pc = "lock" /\ w.init = FALSE /\ w.layer = th[t].layer
  <2>1. 0 \in 0 .. MAX_POOLS /\ NULL \in Cells /\ "lock" \in PCs /\ FALSE \in BOOLEAN
    BY Basics DEF Cells, PCs
  <2> QED BY <1>1, <2>1, ThreadFields DEF Thread
<1>3. /\ th' = [th EXCEPT ![t] = w] /\ initialized' = TRUE
      /\ UNCHANGED <<program, dam_pool_list, pool, owner, dam_lock_initialized, inuse,
                     registered, fault>>
  BY DEF Ready, Goto
<1> HIDE DEF w
<1>4. th'[t] = w
  BY <1>3, Basics
<1>5. ThreadInv(t)'
  BY <1>1, <1>2, <1>3, <1>4
     DEF ThreadInv, LocksInv, OldInv, NewInv, ScanInv, InitPhase, Holds, Critical
<1>6. \A u \in Threads : u # t => th[u] = Idle
  BY <1>1, InitAlone
<1>7. OthersLocked(t) /\ OthersUnused(t)
  BY <1>3, ThreadsKeep
<1>8. inuse' \subseteq Listed
  BY <1>3, ListFacts
<1> QED BY <1>1, <1>2, <1>3, <1>5, <1>6, <1>7, <1>8, Basics, ThreadStep

-----------------------------------------------------------------------------
\* Under the layer's lock.

\* It is taken.
LEMMA AcquireStep ==
  ASSUME RInv, NEW t \in Threads, Acquire(t)
  PROVE  RInv'
<1>1. ThreadInv(t) /\ th[t].pc = "lock" /\ ~ th[t].init /\ th[t].new = NULL
      /\ th[t].layer \in Layers /\ owner[th[t].layer] = NoThread
  BY ThreadFields DEF RInv, ThreadInv, LocksInv, NewInv, InitPhase, Acquire, At
<1> DEFINE w1 == [th[t] EXCEPT !.pc = "tally"]
           w2 == [th[t] EXCEPT !.pc = "find", !.at = dam_pool_list]
           w3 == [th[t] EXCEPT !.pc = "search", !.at = dam_pool_list]
           w4 == [th[t] EXCEPT !.pc = "map"]
<1>2. /\ owner' = [owner EXCEPT ![th[t].layer] = t] /\ UNCHANGED <<Memory, inuse>>
      /\ \/ th[t].call = "snapshot" /\ th' = [th EXCEPT ![t] = w1]
         \/ th[t].call = "free" /\ th' = [th EXCEPT ![t] = w2]
         \/ th[t].call \in {"malloc", "realloc"} /\ th' = [th EXCEPT ![t] = w3]
         \/ th[t].call \in {"malloc", "realloc"} /\ th' = [th EXCEPT ![t] = w4]
  <2>1. th[t].call \in {"malloc", "free", "realloc", "snapshot"}
    BY ThreadFields
  <2>2. owner' = [owner EXCEPT ![th[t].layer] = t] /\ UNCHANGED <<Memory, inuse>> /\ Enter(t)
    BY DEF Acquire
  <2> QED BY <2>1, <2>2 DEF Enter, Step, WalkFromHead, Goto
<1>3. w1 \in Thread /\ w2 \in Thread /\ w3 \in Thread /\ w4 \in Thread
  BY Basics, ThreadFields, ZenonT(40) DEF Thread, PCs
<1>4. \A w \in {w1, w2, w3, w4} :
        /\ w \in Thread /\ w.call = th[t].call /\ w.old = th[t].old /\ w.new = th[t].new
        /\ w.init = th[t].init /\ w.layer = th[t].layer
  BY <1>3, ThreadFields DEF Thread
<1>5. w1.pc = "tally" /\ w2.pc = "find" /\ w3.pc = "search" /\ w4.pc = "map"
  BY ThreadFields DEF Thread
<1> HIDE DEF w1, w2, w3, w4
<1>6. UNCHANGED <<program, dam_pool_list, pool, registered, initialized, inuse,
                  dam_lock_initialized, fault>>
  BY <1>2 DEF Memory
<1>7. owner' \in [Layers -> Threads \cup {NoThread}] /\ owner'[th[t].layer] = t
      /\ \A l \in Layers : l # th[t].layer => owner'[l] = owner[l]
  BY <1>1, <1>2, Basics
<1>8. OthersLocked(t) /\ OthersUnused(t)
  <2>1. OthersLocked(t)
    BY <1>1, <1>7, Basics DEF OthersLocked
  <2>2. OthersUnused(t)
    BY <1>6 DEF OthersUnused, RInv, ThreadInv, OldInv
  <2> QED BY <2>1, <2>2
<1>9. inuse' \subseteq Listed
  BY <1>6, ListFacts
<1>10. PICK w \in {w1, w2, w3, w4} :
        /\ th' = [th EXCEPT ![t] = w]
        /\ w = w1 => th[t].call = "snapshot"
        /\ w = w2 => th[t].call = "free"
        /\ w \in {w3, w4} => th[t].call \in {"malloc", "realloc"}
  BY <1>2, <1>5
<1>11. th'[t] = w
  BY <1>10, Basics
<1>12. ThreadInv(t)'
  BY <1>1, <1>4, <1>5, <1>6, <1>7, <1>10, <1>11
     DEF ThreadInv, LocksInv, OldInv, NewInv, ScanInv, InitPhase, Holds, Critical, Listed
<1> QED BY <1>1, <1>4, <1>6, <1>7, <1>8, <1>9, <1>10, <1>12, Basics, ThreadStep

\* A call returns, and its client has a pool that no one else frees or made.
LEMMA ReturnStep ==
  ASSUME RInv, NEW t \in Threads, owner[th[t].layer] = t, th[t].pc # "idle",
         NEW k \in Listed \cup {NULL}, Return(t, {k}), UNCHANGED Memory,
         k # NULL => \A u \in Threads : u # t =>
           /\ th[u].new # k
           /\ Holds(u) /\ th[u].pc # "unmap" /\ th[u].old = k => pool[k].type # "DIRECT"
  PROVE  RInv'
<1>1. th' = [th EXCEPT ![t] = Idle] /\ owner' = [owner EXCEPT ![th[t].layer] = NoThread]
      /\ inuse' = inuse \cup ({k} \ {NULL})
  BY DEF Return, Goto
<1>2. UNCHANGED <<program, dam_pool_list, pool, registered, initialized,
                  dam_lock_initialized, fault>>
  BY DEF Memory
<1>3. th'[t] = Idle /\ owner' \in [Layers -> Threads \cup {NoThread}]
  BY <1>1, Basics, ThreadFields
<1>4. ThreadInv(t)'
  BY <1>3, IdleThread
     DEF ThreadInv, LocksInv, OldInv, NewInv, ScanInv, InitPhase, Holds, Critical
<1>5. OthersLocked(t)
  BY <1>1, Basics, ThreadFields DEF OthersLocked
<1>6. OthersUnused(t)
  <2>1. ASSUME NEW u \in Threads, Holds(u), th[u].pc # "unmap",
               pool[th[u].old].type = "DIRECT"
        PROVE  th[u].old \notin inuse
    BY <2>1 DEF RInv, ThreadInv, OldInv
  <2>2. ASSUME NEW u \in Threads, u # t, th[u].new # NULL, th[u].new \notin inuse
        PROVE  th[u].new \notin inuse'
    BY <1>1, <2>2
  <2>3. ASSUME NEW u \in Threads, u # t, Holds(u), th[u].pc # "unmap",
               pool[th[u].old].type = "DIRECT"
        PROVE  th[u].old \notin inuse'
    BY <1>1, <2>1, <2>3
  <2> QED BY <2>2, <2>3 DEF OthersUnused
<1>7. inuse' \subseteq Listed
  BY <1>1, ListFacts
<1> QED BY <1>1, <1>2, <1>3, <1>4, <1>5, <1>6, <1>7, Basics, IdleThread, ThreadStep

\* A thread moves on in its walk, or from one walk to the next.
LEMMA MoveStep ==
  ASSUME RInv, NEW t \in Threads, NEW w \in Thread, Goto(t, w), OnlyThreads,
         th[t].pc \notin {"idle", "unmap"},
         w.call = th[t].call, w.old = th[t].old, w.new = th[t].new,
         w.init = th[t].init, w.layer = th[t].layer,
         \/ w.pc = th[t].pc
         \/ th[t].init /\ w.pc = "ready" /\ th[t].new = NULL
         \/ th[t].pc = "search" /\ w.pc = "count" /\ th[t].new = NULL
         \/ th[t].pc = "count" /\ w.pc = "size"
         \/ th[t].pc = "size" /\ w.pc = "map"
         \/ th[t].pc = "again" /\ w.pc = IF th[t].call = "malloc" THEN "search" ELSE "find",
         w.pc \notin {"scan", "unlink", "link", "publish"}
  PROVE  RInv'
<1>1. ThreadInv(t) /\ Idle.pc = "idle"
  BY IdleThread DEF RInv
<1>2. /\ th'[t] = w /\ Listed' = Listed
      /\ UNCHANGED <<program, dam_pool_list, pool, owner, initialized, inuse, registered>>
  BY QuietFacts
<1>3. LocksInv(t)'
  <2>1. w.pc = th[t].pc \/ w.pc # "find" \/ Holds(t)
    BY <1>1, ThreadFields DEF ThreadInv, LocksInv, Holds
  <2> QED BY <1>1, <1>2, <2>1 DEF ThreadInv, LocksInv, InitPhase, Holds, Critical
<1>4. OldInv(t)'
  BY <1>1, <1>2 DEF ThreadInv, LocksInv, InitPhase, OldInv, Holds
<1>5. NewInv(t)'
  BY <1>1, <1>2 DEF ThreadInv, NewInv
<1>6. ScanInv(t)'
  BY <1>1, <1>2 DEF ThreadInv, ScanInv
<1> QED BY <1>3, <1>4, <1>5, <1>6, QuietStep DEF ThreadInv

\* Where a walk goes is a pool or the end of the list.
LEMMA NextIsCell ==
  ASSUME RInv, NEW t \in Threads
  PROVE  /\ th[t].at \in DOMAIN pool => NextOf(t) \in Cells
         /\ th[t].at \in DOMAIN pool \cup {NULL} => Cell(t) \in Cells
BY Basics, ListFacts DEF NextOf, Cell

\* A walk reads a header and moves on.
LEMMA WalkStep ==
  ASSUME RInv, NEW t \in Threads, th[t].at \in DOMAIN pool,
         th[t].pc \in {"search", "size", "lookup", "find", "tally"},
         Goto(t, [th[t] EXCEPT !.at = NextOf(t)]), OnlyThreads
  PROVE  RInv'
<1> DEFINE w == [th[t] EXCEPT !.at = NextOf(t)]
<1>1. Goto(t, w)
  OBVIOUS
<1>2. NextOf(t) \in Cells
  BY NextIsCell
<1>3. /\ w \in Thread /\ w.call = th[t].call /\ w.old = th[t].old /\ w.new = th[t].new
      /\ w.init = th[t].init /\ w.layer = th[t].layer /\ w.pc = th[t].pc
  BY <1>2, ThreadFields DEF Thread
<1> HIDE DEF w
<1> QED BY <1>1, <1>3, MoveStep

\* The request fails.
LEMMA FailStep ==
  ASSUME RInv, NEW t \in Threads, th[t].pc \in {"count", "map"}, Fail(t), UNCHANGED Memory
  PROVE  RInv'
<1>1. ThreadInv(t) /\ th[t].new = NULL
  BY DEF RInv, ThreadInv, NewInv
<1>2. CASE th[t].init
  <2> DEFINE w == [th[t] EXCEPT !.pc = "ready"]
  <2>1. Goto(t, w) /\ OnlyThreads
    BY <1>2 DEF Fail, Step, OnlyThreads
  <2>2. /\ w \in Thread /\ w.call = th[t].call /\ w.old = th[t].old /\ w.new = th[t].new
        /\ w.init = th[t].init /\ w.layer = th[t].layer /\ w.pc = "ready"
    BY ThreadFields DEF Thread, PCs
  <2> HIDE DEF w
  <2> QED BY <1>1, <1>2, <2>1, <2>2, MoveStep
<1>3. CASE ~ th[t].init
  <2>1. Return(t, {th[t].old}) /\ owner[th[t].layer] = t
    BY <1>1, <1>3 DEF Fail, ThreadInv, LocksInv, Critical
  <2>2. th[t].old \in Listed \cup {NULL}
        /\ (th[t].old # NULL => Holds(t) /\ pool[th[t].old].type = "DIRECT")
    BY <1>1 DEF ThreadInv, OldInv
  <2>3. ASSUME NEW u \in Threads, u # t, th[t].old # NULL
        PROVE  /\ th[u].new # th[t].old
               /\ ~ (Holds(u) /\ th[u].pc # "unmap" /\ th[u].old = th[t].old)
    BY <2>2, <2>3 DEF RInv, ApartInv, PairInv
  <2> QED BY <2>1, <2>2, <2>3, ReturnStep
<1> QED BY <1>2, <1>3

\* find_free_block_in_pools.
LEMMA SearchStep ==
  ASSUME DisciplinedPrograms, RInv, NEW t \in Threads, Search(t)
  PROVE  RInv'
<1>1. ThreadInv(t) /\ th[t].pc = "search" /\ th[t].at \in Cells
  BY ThreadFields DEF RInv, Search, Reads, At
<1>2. CASE Return(t, {th[t].new}) /\ UNCHANGED Memory
  <2>1. owner[th[t].layer] = t
    BY <1>1 DEF ThreadInv, LocksInv, Critical
  <2>2. th[t].new \in Listed \cup {NULL}
    BY <1>1 DEF ThreadInv, NewInv
  <2>3. ASSUME NEW u \in Threads, u # t, th[t].new # NULL
        PROVE  /\ th[u].new # th[t].new
               /\ ~ (Holds(u) /\ th[u].pc # "unmap" /\ th[u].old = th[t].new)
    BY <1>1, <2>3, WriterAlone DEF RInv, ApartInv, Critical
  <2> QED BY <1>1, <1>2, <2>1, <2>2, <2>3, ReturnStep
<1>3. CASE Reads(t, "search") /\ Goto(t, [th[t] EXCEPT !.at = NextOf(t)]) /\ OnlyThreads
  BY <1>1, <1>3, WalkStep DEF Reads
<1>4. CASE th[t].new = NULL /\ WalkFromHead(t, "count") /\ OnlyThreads
  <2> DEFINE w == [th[t] EXCEPT !.pc = "count", !.at = dam_pool_list]
  <2>1. Goto(t, w) /\ OnlyThreads
    BY <1>4 DEF WalkFromHead
  <2>2. /\ w \in Thread /\ w.call = th[t].call /\ w.old = th[t].old /\ w.new = th[t].new
        /\ w.init = th[t].init /\ w.layer = th[t].layer /\ w.pc = "count"
    BY Basics, ThreadFields, ZenonT(40) DEF Thread, PCs
  <2> HIDE DEF w
  <2> QED BY <1>1, <1>4, <2>1, <2>2, MoveStep
<1> QED BY <1>2, <1>3, <1>4 DEF Search

\* create_general_pool counts.
LEMMA CountStep ==
  ASSUME RInv, NEW t \in Threads, Count(t)
  PROVE  RInv'
<1>1. ThreadInv(t) /\ th[t].pc = "count" /\ th[t].new = NULL
  BY DEF RInv, ThreadInv, NewInv, Count, Reads, At
<1>2. CASE /\ Reads(t, "count") /\ OnlyThreads
           /\ Goto(t, [th[t] EXCEPT !.at = NextOf(t),
                                    !.count = IF @ < MAX_POOLS THEN @ + 1 ELSE @])
  <2> DEFINE n == IF th[t].count < MAX_POOLS THEN th[t].count + 1 ELSE th[t].count
             w == [th[t] EXCEPT !.at = NextOf(t), !.count = n]
  <2>1. Goto(t, w) /\ OnlyThreads
    BY <1>2
  <2>2. NextOf(t) \in Cells /\ n \in 0 .. MAX_POOLS
    BY <1>2, Basics, ThreadFields, NextIsCell DEF Reads
  <2> HIDE DEF n
  <2>3. /\ w \in Thread /\ w.call = th[t].call /\ w.old = th[t].old /\ w.new = th[t].new
        /\ w.init = th[t].init /\ w.layer = th[t].layer /\ w.pc = th[t].pc
    BY <2>2, ThreadFields DEF Thread
  <2> HIDE DEF w
  <2> QED BY <1>1, <2>1, <2>3, MoveStep
<1>3. CASE WalkFromHead(t, "size") /\ OnlyThreads
  <2> DEFINE w == [th[t] EXCEPT !.pc = "size", !.at = dam_pool_list]
  <2>1. Goto(t, w) /\ OnlyThreads
    BY <1>3 DEF WalkFromHead
  <2>2. /\ w \in Thread /\ w.call = th[t].call /\ w.old = th[t].old /\ w.new = th[t].new
        /\ w.init = th[t].init /\ w.layer = th[t].layer /\ w.pc = "size"
    BY Basics, ThreadFields, ZenonT(40) DEF Thread, PCs
  <2> HIDE DEF w
  <2> QED BY <1>1, <2>1, <2>2, MoveStep
<1>4. CASE Fail(t) /\ UNCHANGED Memory
  BY <1>1, <1>4, FailStep
<1> QED BY <1>2, <1>3, <1>4 DEF Count, OnlyThreads

\* calculate_next_pool_size walks the list once more.
LEMMA SizeStep ==
  ASSUME RInv, NEW t \in Threads, Size(t)
  PROVE  RInv'
<1>1. th[t].pc = "size" /\ OnlyThreads
  BY DEF Size, Reads, At
<1>2. CASE Reads(t, "size") /\ Goto(t, [th[t] EXCEPT !.at = NextOf(t)])
  BY <1>1, <1>2, WalkStep DEF Reads
<1>3. CASE Step(t, "map")
  <2> DEFINE w == [th[t] EXCEPT !.pc = "map"]
  <2>1. Goto(t, w) /\ OnlyThreads
    BY <1>1, <1>3 DEF Step
  <2>2. /\ w \in Thread /\ w.call = th[t].call /\ w.old = th[t].old /\ w.new = th[t].new
        /\ w.init = th[t].init /\ w.layer = th[t].layer /\ w.pc = "map"
    BY ThreadFields DEF Thread, PCs
  <2> HIDE DEF w
  <2> QED BY <1>1, <2>1, <2>2, MoveStep
<1> QED BY <1>2, <1>3 DEF Size

\* After the new pool is registered, the list is walked from its head again.
LEMMA AgainStep ==
  ASSUME RInv, NEW t \in Threads, Again(t)
  PROVE  RInv'
<1> DEFINE pc == IF th[t].call = "malloc" THEN "search" ELSE "find"
           w == [th[t] EXCEPT !.pc = pc, !.at = dam_pool_list]
<1>1. th[t].pc = "again" /\ Goto(t, w) /\ OnlyThreads
  BY DEF Again, At, WalkFromHead
<1>2. pc \in {"search", "find"} /\ pc \in PCs
  BY DEF PCs
<1> HIDE DEF pc
<1>3. /\ w \in Thread /\ w.call = th[t].call /\ w.old = th[t].old /\ w.new = th[t].new
      /\ w.init = th[t].init /\ w.layer = th[t].layer /\ w.pc = pc
  BY <1>2, Basics, ThreadFields, ZenonT(40) DEF Thread
<1> HIDE DEF w
<1>4. w.pc = IF th[t].call = "malloc" THEN "search" ELSE "find"
  BY <1>3 DEF pc
<1> QED BY <1>1, <1>2, <1>3, <1>4, MoveStep

\* dam_pool_from_ptr, without a lock: what it finds is the pool the client holds, and the
\* list holds that.
LEMMA LookupStep ==
  ASSUME RInv, NEW t \in Threads, Lookup(t)
  PROVE  RInv'
<1>1. ThreadInv(t) /\ th[t].pc = "lookup" /\ OnlyThreads
  BY DEF RInv, Lookup, Reads, At
<1>2. CASE Reads(t, "lookup") /\ Goto(t, [th[t] EXCEPT !.at = NextOf(t)])
  BY <1>1, <1>2, WalkStep DEF Reads
<1>3. CASE Goto(t, Idle)
  <2>1. th' = [th EXCEPT ![t] = Idle] /\ UNCHANGED <<Memory, owner, inuse>>
    BY <1>1, <1>3 DEF Goto, OnlyThreads
  <2>2. UNCHANGED <<program, dam_pool_list, pool, registered, initialized,
                    dam_lock_initialized, fault>>
    BY <2>1 DEF Memory
  <2>3. th'[t] = Idle
    BY <2>1, Basics
  <2>4. ThreadInv(t)'
    BY <2>3, IdleThread
       DEF ThreadInv, LocksInv, OldInv, NewInv, ScanInv, InitPhase, Holds, Critical
  <2>5. inuse' \subseteq Listed /\ OthersLocked(t) /\ OthersUnused(t)
    BY <2>1, ListFacts, ThreadsKeep
  <2> QED BY <2>1, <2>2, <2>4, <2>5, Basics, IdleThread, ThreadStep
<1>4. CASE Found(t) /\ pool[th[t].old].type = "DIRECT"
           /\ Goto(t, [th[t] EXCEPT !.pc = "lock", !.layer = "DIRECT"])
  <2> DEFINE w == [th[t] EXCEPT !.pc = "lock", !.layer = "DIRECT"]
  <2>1. Goto(t, w) /\ OnlyThreads
    BY <1>1, <1>4
  <2>2. /\ w \in Thread /\ w.call = th[t].call /\ w.old = th[t].old /\ w.new = th[t].new
        /\ w.init = th[t].init /\ w.layer = "DIRECT" /\ w.pc = "lock"
    BY ThreadFields DEF Thread, PCs, Layers
  <2> HIDE DEF w
  <2>3. /\ th'[t] = w /\ Listed' = Listed
        /\ UNCHANGED <<program, dam_pool_list, pool, owner, initialized, inuse, registered>>
    BY <2>1, QuietFacts
  <2>4. ThreadInv(t)'
    BY <1>1, <1>4, <2>2, <2>3
       DEF ThreadInv, LocksInv, OldInv, NewInv, ScanInv, InitPhase, Holds, Critical
  <2> QED BY <1>1, <2>1, <2>2, <2>4, QuietStep
<1>5. CASE Step(t, "foreign")
  <2> DEFINE w == [th[t] EXCEPT !.pc = "foreign"]
  <2>1. Goto(t, w) /\ OnlyThreads
    BY <1>1, <1>5 DEF Step
  <2>2. /\ w \in Thread /\ w.call = th[t].call /\ w.old = th[t].old /\ w.new = th[t].new
        /\ w.init = th[t].init /\ w.layer = th[t].layer /\ w.pc = "foreign"
    BY ThreadFields DEF Thread, PCs
  <2> HIDE DEF w
  <2>3. /\ th'[t] = w /\ Listed' = Listed
        /\ UNCHANGED <<program, dam_pool_list, pool, owner, initialized, inuse, registered>>
    BY <2>1, QuietFacts
  <2>4. ThreadInv(t)'
    BY <1>1, <2>2, <2>3
       DEF ThreadInv, LocksInv, OldInv, NewInv, ScanInv, InitPhase, Holds, Critical
  <2> QED BY <1>1, <2>1, <2>2, <2>4, QuietStep
<1> QED BY <1>2, <1>3, <1>4, <1>5 DEF Lookup

\* The call that finds no pool returns.
LEMMA ForeignStep ==
  ASSUME RInv, NEW t \in Threads, Foreign(t)
  PROVE  RInv'
<1>1. ThreadInv(t) /\ th[t].pc = "foreign"
  BY DEF RInv, Foreign, At
<1>2. /\ th' = [th EXCEPT ![t] = Idle] /\ UNCHANGED <<Memory, owner>>
      /\ inuse' = IF th[t].call = "realloc" THEN inuse \cup {th[t].old} ELSE inuse
  BY DEF Foreign, Goto
<1>3. UNCHANGED <<program, dam_pool_list, pool, registered, initialized,
                  dam_lock_initialized, fault>>
  BY <1>2 DEF Memory
<1>4. th'[t] = Idle
  BY <1>2, Basics
<1>5. ThreadInv(t)'
  BY <1>4, IdleThread
     DEF ThreadInv, LocksInv, OldInv, NewInv, ScanInv, InitPhase, Holds, Critical
<1>6. inuse' \subseteq Listed
  BY <1>1, <1>2, ListFacts DEF ThreadInv, OldInv, Holds
<1>7. OthersUnused(t)
  <2>1. ASSUME NEW u \in Threads, u # t, th[t].call = "realloc"
        PROVE  /\ th[u].new # NULL => th[u].new # th[t].old
               /\ Holds(u) /\ th[u].pc # "unmap" => th[u].old # th[t].old
    BY <1>1, <2>1 DEF RInv, ThreadInv, OldInv, Holds, ApartInv, PairInv
  <2>2. ASSUME NEW u \in Threads, Holds(u), th[u].pc # "unmap",
               pool[th[u].old].type = "DIRECT"
        PROVE  th[u].old \notin inuse
    BY <2>2 DEF RInv, ThreadInv, OldInv
  <2> QED BY <1>2, <2>1, <2>2 DEF OthersUnused
<1>8. OthersLocked(t)
  BY <1>2 DEF OthersLocked
<1> QED BY <1>1, <1>2, <1>3, <1>5, <1>6, <1>7, <1>8, Basics, IdleThread, ThreadStep

\* dam_direct_free_internal finds its pool.
LEMMA FindStep ==
  ASSUME RInv, NEW t \in Threads, Find(t), ~ Fault
  PROVE  RInv'
<1>1. ThreadInv(t) /\ th[t].pc = "find" /\ OnlyThreads
  BY DEF RInv, Find, Reads, At
<1>2. CASE Reads(t, "find") /\ Goto(t, [th[t] EXCEPT !.at = NextOf(t)])
  BY <1>1, <1>2, WalkStep DEF Reads
<1>3. CASE Goto(t, [th[t] EXCEPT !.pc = "scan", !.at = NULL])
  <2> DEFINE w == [th[t] EXCEPT !.pc = "scan", !.at = NULL]
  <2>1. Goto(t, w) /\ OnlyThreads
    BY <1>1, <1>3
  <2>2. /\ w \in Thread /\ w.call = th[t].call /\ w.old = th[t].old /\ w.new = th[t].new
        /\ w.init = th[t].init /\ w.layer = th[t].layer /\ w.pc = "scan" /\ w.at = NULL
    BY ThreadFields DEF Thread, PCs, Cells
  <2> HIDE DEF w
  <2>3. /\ th'[t] = w /\ Listed' = Listed
        /\ UNCHANGED <<program, dam_pool_list, pool, owner, initialized, inuse, registered>>
    BY <2>1, QuietFacts
  <2>4. ThreadInv(t)'
    BY <1>1, <2>2, <2>3
       DEF ThreadInv, LocksInv, OldInv, NewInv, ScanInv, InitPhase, Holds, Critical
  <2> QED BY <1>1, <2>1, <2>2, <2>4, QuietStep
<1> QED BY <1>2, <1>3 DEF Find

\* The cell a scan looks at is that of the next pool of the list.
LEMMA ScanCell ==
  ASSUME RInv, NEW t \in Threads, th[t].pc = "scan"
  PROVE  /\ th[t].old \in Listed /\ th[t].old \in Pools
         /\ \E k \in DOMAIN registered :
              /\ Cell(t) = registered[k]
              /\ IF th[t].at = NULL THEN k = 1
                 ELSE k - 1 \in DOMAIN registered /\ registered[k - 1] = th[t].at
              /\ registered[k] # th[t].old =>
                   \E j \in DOMAIN registered : k < j /\ registered[j] = th[t].old
<1>1. th[t].old \in Listed /\ th[t].old \in Pools /\ ScanInv(t)
  BY DEF RInv, ThreadInv, LocksInv, OldInv
<1>2. registered \in Seq(Pools) /\ Len(registered) \in Nat
      /\ DOMAIN registered = 1 .. Len(registered)
  BY ListFacts
<1>3. PICK m \in DOMAIN registered : registered[m] = th[t].old
  BY <1>1 DEF Listed
<1>4. CASE th[t].at = NULL
  <2>1. 1 \in DOMAIN registered /\ Cell(t) = registered[1]
    BY <1>2, <1>3, <1>4 DEF Cell, RInv, ListInv, AllPoolsListed
  <2>2. registered[1] # th[t].old => 1 < m
    BY <1>2, <1>3
  <2> QED BY <1>1, <1>3, <1>4, <2>1, <2>2
<1>5. CASE th[t].at # NULL
  <2>1. PICK i, j \in DOMAIN registered :
          i < j /\ registered[i] = th[t].at /\ registered[j] = th[t].old
    BY <1>1, <1>5 DEF ScanInv
  <2>2. i # Len(registered) /\ i + 1 \in DOMAIN registered /\ (i + 1) - 1 = i
    BY <1>2, <2>1
  <2>3. Cell(t) = registered[i + 1]
    BY <1>5, <2>1, <2>2 DEF Cell, RInv, ListInv, AllPoolsListed
  <2>4. registered[i + 1] # th[t].old => i + 1 < j
    BY <1>2, <2>1
  <2> QED BY <1>1, <1>5, <2>1, <2>2, <2>3, <2>4
<1> QED BY <1>4, <1>5

\* dam_unregister_pool looks for the cell that holds its pool, and there is one.
LEMMA ScanStep ==
  ASSUME RInv, NEW t \in Threads, Scan(t)
  PROVE  RInv'
<1>1. ThreadInv(t) /\ th[t].pc = "scan" /\ OnlyThreads /\ th[t].at \in Cells
  BY ThreadFields DEF RInv, Scan, At
<1>2. PICK k \in DOMAIN registered :
        /\ Cell(t) = registered[k]
        /\ IF th[t].at = NULL THEN k = 1
           ELSE k - 1 \in DOMAIN registered /\ registered[k - 1] = th[t].at
        /\ registered[k] # th[t].old =>
             \E j \in DOMAIN registered : k < j /\ registered[j] = th[t].old
  BY <1>1, ScanCell
<1>3. registered[k] \in Pools /\ registered[k] # NULL /\ k \in Nat
  BY ListFacts, Basics
<1>4. CASE Cell(t) # th[t].old /\ Goto(t, [th[t] EXCEPT !.at = Cell(t)])
  <2> DEFINE w == [th[t] EXCEPT !.at = Cell(t)]
  <2>1. Goto(t, w) /\ OnlyThreads
    BY <1>1, <1>4
  <2>2. /\ w \in Thread /\ w.call = th[t].call /\ w.old = th[t].old /\ w.new = th[t].new
        /\ w.init = th[t].init /\ w.layer = th[t].layer /\ w.pc = "scan" /\ w.at = registered[k]
    BY <1>1, <1>2, <1>3, ThreadFields DEF Thread, Cells
  <2> HIDE DEF w
  <2>3. /\ th'[t] = w /\ Listed' = Listed
        /\ UNCHANGED <<program, dam_pool_list, pool, owner, initialized, inuse, registered>>
    BY <2>1, QuietFacts
  <2>4. LocksInv(t)' /\ OldInv(t)' /\ NewInv(t)'
    BY <1>1, <2>2, <2>3
       DEF ThreadInv, LocksInv, OldInv, NewInv, InitPhase, Holds, Critical
  <2>5. ScanInv(t)'
    BY <1>2, <1>4, <2>2, <2>3 DEF ScanInv
  <2> QED BY <1>1, <2>1, <2>2, <2>4, <2>5, QuietStep DEF ThreadInv
<1>5. CASE Cell(t) = th[t].old /\ Step(t, "unlink")
  <2> DEFINE w == [th[t] EXCEPT !.pc = "unlink"]
  <2>1. Goto(t, w) /\ OnlyThreads
    BY <1>1, <1>5 DEF Step
  <2>2. /\ w \in Thread /\ w.call = th[t].call /\ w.old = th[t].old /\ w.new = th[t].new
        /\ w.init = th[t].init /\ w.layer = th[t].layer /\ w.pc = "unlink" /\ w.at = th[t].at
    BY ThreadFields DEF Thread, PCs
  <2> HIDE DEF w
  <2>3. /\ th'[t] = w /\ Listed' = Listed
        /\ UNCHANGED <<program, dam_pool_list, pool, owner, initialized, inuse, registered>>
    BY <2>1, QuietFacts
  <2>4. LocksInv(t)' /\ OldInv(t)' /\ NewInv(t)'
    BY <1>1, <2>2, <2>3
       DEF ThreadInv, LocksInv, OldInv, NewInv, InitPhase, Holds, Critical
  <2>5. k = (k - 1) + 1
    BY <1>3
  <2>6. ScanInv(t)'
    BY <1>2, <1>5, <2>2, <2>3, <2>5 DEF ScanInv
  <2> QED BY <1>1, <2>1, <2>2, <2>4, <2>6, QuietStep DEF ThreadInv
<1> QED BY <1>2, <1>3, <1>4, <1>5 DEF Scan

\* The walks of dam_snapshot.
LEMMA TallyStep ==
  ASSUME RInv, NEW t \in Threads, Tally(t)
  PROVE  RInv'
<1>1. /\ ThreadInv(t) /\ th[t].pc = "tally" /\ th[t].call = "snapshot" /\ ~ th[t].init
      /\ th[t].new = NULL /\ th[t].old = NULL /\ th[t].layer \in Layers
      /\ owner[th[t].layer] = t
  BY ThreadFields
     DEF RInv, ThreadInv, LocksInv, OldInv, NewInv, InitPhase, Holds, Tally, Reads, At
<1>2. CASE Reads(t, "tally") /\ Goto(t, [th[t] EXCEPT !.at = NextOf(t)]) /\ OnlyThreads
  BY <1>1, <1>2, WalkStep DEF Reads
<1>3. CASE /\ owner' = [owner EXCEPT ![th[t].layer] = NoThread]
           /\ Goto(t, IF th[t].layer = "DIRECT" THEN Idle
                ELSE [th[t] EXCEPT !.pc = "lock", !.layer = After(@), !.at = dam_pool_list])
           /\ UNCHANGED <<Memory, inuse>>
  <2> DEFINE w == IF th[t].layer = "DIRECT" THEN Idle
             ELSE [th[t] EXCEPT !.pc = "lock", !.layer = After(th[t].layer), !.at = dam_pool_list]
  <2>1. th' = [th EXCEPT ![t] = w]
    BY <1>3 DEF Goto
  <2>2. /\ w \in Thread /\ w.new = NULL /\ w.old = NULL /\ ~ w.init
        /\ \/ w = Idle
           \/ w.pc = "lock" /\ w.call = "snapshot"
    BY <1>1, Basics, ThreadFields, IdleThread, ZenonT(40) DEF Thread, PCs, Layers, After
  <2> HIDE DEF w
  <2>3. UNCHANGED <<program, dam_pool_list, pool, registered, initialized, inuse,
                    dam_lock_initialized, fault>>
    BY <1>3 DEF Memory
  <2>4. th'[t] = w /\ owner' \in [Layers -> Threads \cup {NoThread}]
    BY <1>3, <2>1, Basics, ThreadFields
  <2>5. ThreadInv(t)'
    BY <2>2, <2>4, IdleThread
       DEF ThreadInv, LocksInv, OldInv, NewInv, ScanInv, InitPhase, Holds, Critical
  <2>6. OthersLocked(t)
    BY <1>1, <1>3, Basics DEF OthersLocked
  <2>7. OthersUnused(t)
    BY <2>3 DEF OthersUnused, RInv, ThreadInv, OldInv
  <2>8. inuse' \subseteq Listed /\ w.call \notin {"free", "realloc"}
    BY <2>2, <2>3, ListFacts, IdleThread
  <2> QED BY <1>1, <2>1, <2>2, <2>3, <2>4, <2>5, <2>6, <2>7, <2>8, Basics, ThreadStep
<1> QED BY <1>2, <1>3 DEF Tally

-----------------------------------------------------------------------------
\* The steps that change the list and the pools.

\* What a thread that may write the list is about to free, and another one.
LEMMA Others ==
  ASSUME DisciplinedPrograms, RInv, NEW t \in Threads, th[t].pc \in Critical,
         NEW u \in Threads, u # t, Holds(u)
  PROVE  /\ th[u].pc # "unmap" /\ th[u].old \in Listed /\ th[u].old \in Pools
         /\ pool[th[u].old].type = "DIRECT" => th[u].old \notin inuse
         /\ Holds(t) /\ th[t].pc # "unmap" => th[u].old # th[t].old
         /\ th[t].new # NULL => th[u].old # th[t].new
<1>1. th[u].pc \notin Critical
  BY WriterAlone
<1>2. th[u].pc # "unmap"
  BY <1>1 DEF Critical
<1>3. OldInv(u) /\ OldInv(t) /\ ApartInv(t, u) /\ PairInv(t, u)
  BY DEF RInv, ThreadInv
<1>4. th[t].pc \notin {"lookup", "foreign"}
  BY DEF Critical
<1> QED BY <1>2, <1>3, <1>4 DEF OldInv, ApartInv, PairInv

\* mmap.
LEMMA MapStep ==
  ASSUME DisciplinedPrograms, RInv, NEW t \in Threads, Map(t)
  PROVE  RInv'
<1>1. ThreadInv(t) /\ th[t].pc = "map" /\ th[t].new = NULL /\ th[t].pc \in Critical
  BY DEF RInv, ThreadInv, NewInv, Map, At, Critical
<1>2. CASE Fail(t) /\ UNCHANGED pool
  <2>1. UNCHANGED Memory
    BY <1>2 DEF Map, Memory
  <2> QED BY <1>1, <1>2, <2>1, FailStep
<1>3. ASSUME NEW p \in Pools \ DOMAIN pool,
             pool' = [q \in DOMAIN pool \cup {p} |-> IF q = p THEN Blank ELSE pool[q]],
             Goto(t, [th[t] EXCEPT !.pc = "link", !.new = p]), UNCHANGED <<owner, inuse>>
      PROVE  RInv'
  <2> DEFINE w == [th[t] EXCEPT !.pc = "link", !.new = p]
  <2>1. th' = [th EXCEPT ![t] = w]
    BY <1>3 DEF Goto
  <2>2. /\ w \in Thread /\ w.call = th[t].call /\ w.old = th[t].old /\ w.new = p
        /\ w.init = th[t].init /\ w.layer = th[t].layer /\ w.pc = "link"
    BY <1>3, ThreadFields DEF Thread, PCs, Cells
  <2> HIDE DEF w
  <2>3. /\ UNCHANGED <<program, dam_pool_list, dam_lock_initialized, initialized,
                       registered, fault, owner, inuse>>
        /\ th'[t] = w /\ Listed' = Listed
    <3>1. UNCHANGED <<program, dam_pool_list, dam_lock_initialized, initialized,
                      registered, fault>>
      BY DEF Map
    <3> QED BY <1>3, <2>1, <3>1, Basics DEF Listed
  <2>4. /\ DOMAIN pool' = DOMAIN pool \cup {p} /\ p \notin Listed /\ p # NULL
        /\ \A q \in DOMAIN pool : pool'[q] = pool[q]
    BY <1>3, ListFacts
  <2>5. TypeOK'
    <3>1. Blank \in [type: Layers \cup {"NONE"}, next: Cells]
      BY DEF Blank, Cells
    <3>2. pool' \in [DOMAIN pool' -> [type: Layers \cup {"NONE"}, next: Cells]]
      BY <1>3, <3>1 DEF RInv, TypeOK
    <3>3. th' \in [Threads -> Thread]
      BY <2>1, <2>2, Basics
    <3> QED BY <2>3, <2>4, <3>2, <3>3 DEF RInv, TypeOK
  <2>6. ListInv'
    <3>1. \A i \in DOMAIN registered : registered[i] \in DOMAIN pool
      BY DEF RInv, ListInv, AllPoolsListed
    <3> QED BY <2>3, <2>4, <3>1 DEF RInv, ListInv, AllPoolsListed, Distinct, Listed
  <2>7. ThreadInv(t)'
    <3>1. Holds(t) => th[t].old \in DOMAIN pool
      BY <1>1, ListFacts DEF ThreadInv, OldInv
    <3>2. LocksInv(t)'
      BY <1>1, <2>2, <2>3 DEF ThreadInv, LocksInv, InitPhase, Holds, Critical
    <3>3. OldInv(t)'
      BY <1>1, <2>2, <2>3, <2>4, <3>1 DEF ThreadInv, OldInv, Holds
    <3>4. NewInv(t)' /\ ScanInv(t)'
      BY <2>2, <2>3, <2>4 DEF NewInv, ScanInv
    <3> QED BY <3>2, <3>3, <3>4 DEF ThreadInv
  <2>8. OthersLocked(t) /\ OthersUnused(t)
    BY <1>3, ThreadsKeep
  <2>9. ApartInv(t, t)'
    BY <1>1, <2>2, <2>3, <2>4 DEF ApartInv, ThreadInv, OldInv, Holds
  <2>10. ASSUME NEW u \in Threads, u # t, Holds(u)
         PROVE  /\ th[u].old \in Listed => th[u].old \in Listed'
                /\ th[u].old \in Listed => pool'[th[u].old].type = pool[th[u].old].type
                /\ w.new # th[u].old \/ w.new = NULL
    BY <1>1, <2>2, <2>3, <2>4, <2>10, Others, ListFacts
  <2> QED BY <1>1, <2>1, <2>2, <2>3, <2>5, <2>6, <2>7, <2>8, <2>9, <2>10, WriterStep
<1> QED BY <1>2, <1>3 DEF Map

\* The header is filled in.
LEMMA LinkStep ==
  ASSUME DisciplinedPrograms, RInv, NEW t \in Threads, Link(t)
  PROVE  RInv'
<1>1. /\ ThreadInv(t) /\ th[t].pc = "link" /\ th[t].pc \in Critical
      /\ th[t].new # NULL /\ th[t].new \in DOMAIN pool /\ th[t].new \notin Listed
  BY DEF RInv, ThreadInv, NewInv, ScanInv, Link, At, Critical
<1> DEFINE w == [th[t] EXCEPT !.pc = "publish"]
           h == [type |-> IF th[t].init THEN "GENERAL" ELSE th[t].layer, next |-> dam_pool_list]
<1>2. /\ th' = [th EXCEPT ![t] = w] /\ pool' = [pool EXCEPT ![th[t].new] = h]
      /\ UNCHANGED <<program, dam_pool_list, dam_lock_initialized, initialized,
                     registered, fault, owner, inuse>>
  BY DEF Link, Step, Goto
<1>3. /\ w \in Thread /\ w.call = th[t].call /\ w.old = th[t].old /\ w.new = th[t].new
      /\ w.init = th[t].init /\ w.layer = th[t].layer /\ w.pc = "publish"
  BY ThreadFields DEF Thread, PCs
<1>4. h \in [type: Layers \cup {"NONE"}, next: Cells] /\ h.next = dam_pool_list
  BY Basics, ThreadFields DEF Layers
<1> HIDE DEF w, h
<1>5. th'[t] = w /\ Listed' = Listed
  BY <1>2, Basics DEF Listed
<1>6. /\ DOMAIN pool' = DOMAIN pool
      /\ pool'[th[t].new] = h
      /\ \A q \in DOMAIN pool : q # th[t].new => pool'[q] = pool[q]
  BY <1>1, <1>2 DEF RInv, TypeOK
<1>7. TypeOK'
  <2>1. pool' \in [DOMAIN pool' -> [type: Layers \cup {"NONE"}, next: Cells]]
    BY <1>1, <1>2, <1>4, <1>6 DEF RInv, TypeOK
  <2>2. th' \in [Threads -> Thread]
    BY <1>2, <1>3, Basics
  <2> QED BY <1>2, <1>6, <2>1, <2>2 DEF RInv, TypeOK
<1>8. ListInv'
  <2>1. \A i \in DOMAIN registered : registered[i] \in DOMAIN pool /\ registered[i] # th[t].new
    BY <1>1 DEF RInv, ListInv, AllPoolsListed, Listed
  <2> QED BY <1>2, <1>5, <1>6, <2>1 DEF RInv, ListInv, AllPoolsListed, Distinct, Listed
<1>9. Holds(t) => th[t].old \in DOMAIN pool /\ th[t].old # th[t].new
  BY <1>1, ListFacts DEF ThreadInv, OldInv
<1>10. ThreadInv(t)'
  <2>1. LocksInv(t)'
    BY <1>1, <1>2, <1>3, <1>5 DEF ThreadInv, LocksInv, InitPhase, Holds, Critical
  <2>2. OldInv(t)'
    BY <1>1, <1>2, <1>3, <1>5, <1>6, <1>9 DEF ThreadInv, OldInv, Holds
  <2>3. NewInv(t)' /\ ScanInv(t)'
    BY <1>1, <1>2, <1>3, <1>4, <1>5, <1>6 DEF NewInv, ScanInv
  <2> QED BY <2>1, <2>2, <2>3 DEF ThreadInv
<1>11. OthersLocked(t)
  BY <1>2 DEF OthersLocked
<1>12. OthersUnused(t)
  BY <1>2, ThreadsKeep
<1>13. ApartInv(t, t)'
  BY <1>3, <1>5, <1>9 DEF ApartInv, Holds
<1>14. ASSUME NEW u \in Threads, u # t, Holds(u)
       PROVE  /\ th[u].old \in Listed => th[u].old \in Listed'
              /\ th[u].old \in Listed => pool'[th[u].old].type = pool[th[u].old].type
              /\ w.new # th[u].old \/ w.new = NULL
  BY <1>1, <1>3, <1>5, <1>6, <1>14, Others, ListFacts
<1> QED BY <1>1, <1>2, <1>3, <1>7, <1>8, <1>10, <1>11, <1>12, <1>13, <1>14, WriterStep

\* dam_register_pool writes the head: the list in memory is the new one.
LEMMA PublishList ==
  ASSUME DisciplinedPrograms, RInv, NEW t \in Threads, Publish(t)
  PROVE  /\ ListInv' \/ ~ (inuse' \subseteq Listed')
         /\ registered' \in Seq(Pools) /\ Listed' = Listed \cup {th[t].new}
         /\ th[t].new \in Pools /\ th[t].new \in DOMAIN pool /\ th[t].new \notin Listed
<1>1. /\ ThreadInv(t) /\ th[t].pc = "publish" /\ th[t].new # NULL
      /\ th[t].new \in DOMAIN pool /\ th[t].new \notin Listed
      /\ pool[th[t].new].next = dam_pool_list
  BY DEF RInv, ThreadInv, NewInv, ScanInv, Publish, At
<1> DEFINE n == th[t].new
<1>2. n \in Pools /\ dam_pool_list' = n /\ registered' = <<n>> \o registered /\ pool' = pool
  BY <1>1, ThreadFields DEF Publish, Cells
<1>3. n \in DOMAIN pool /\ n \notin Listed /\ pool[n].next = dam_pool_list
  BY <1>1
<1> HIDE DEF n
<1>4. registered \in Seq(Pools) /\ Len(registered) \in Nat
      /\ DOMAIN registered = 1 .. Len(registered)
      /\ \A i \in DOMAIN registered : registered[i] \in Listed
  BY ListFacts
<1>5. /\ registered' \in Seq(Pools) /\ Len(registered') = Len(registered) + 1
      /\ DOMAIN registered' = 1 .. Len(registered) + 1
      /\ registered'[1] = n
      /\ \A i \in 2 .. Len(registered) + 1 : registered'[i] = registered[i - 1]
  BY <1>2, <1>4
<1>6. Listed' = Listed \cup {n}
  <2>1. ASSUME NEW i \in DOMAIN registered' PROVE registered'[i] \in Listed \cup {n}
    <3>1. i = 1 \/ (i \in 2 .. Len(registered) + 1 /\ i - 1 \in DOMAIN registered)
      BY <1>4, <1>5
    <3> QED BY <1>4, <1>5, <3>1
  <2>2. ASSUME NEW i \in DOMAIN registered
        PROVE  i + 1 \in DOMAIN registered' /\ registered'[i + 1] = registered[i]
    BY <1>4, <1>5
  <2>3. 1 \in DOMAIN registered'
    BY <1>4, <1>5
  <2>4. Listed' \subseteq Listed \cup {n}
    BY <2>1 DEF Listed
  <2>5. Listed \subseteq Listed'
    BY <2>2 DEF Listed
  <2>6. n \in Listed'
    BY <1>5, <2>3 DEF Listed
  <2> QED BY <2>4, <2>5, <2>6
<1>7. Distinct'
  <2> SUFFICES ASSUME NEW i \in DOMAIN registered', NEW j \in DOMAIN registered',
                      registered'[i] = registered'[j]
               PROVE  i = j
    BY DEF Distinct
  <2>1. /\ i = 1 \/ (i \in 2 .. Len(registered) + 1 /\ i - 1 \in DOMAIN registered)
        /\ j = 1 \/ (j \in 2 .. Len(registered) + 1 /\ j - 1 \in DOMAIN registered)
        /\ i \in Nat /\ j \in Nat
    BY <1>4, <1>5
  <2>2. \A k \in DOMAIN registered : registered[k] # n
    BY <1>3, <1>4
  <2>3. i = 1 \/ j = 1 => i = j
    BY <1>5, <2>1, <2>2
  <2>4. i # 1 /\ j # 1 => i - 1 = j - 1
    BY <1>5, <2>1 DEF RInv, ListInv, Distinct
  <2> QED BY <2>1, <2>3, <2>4
<1>8. ASSUME NEW i \in DOMAIN registered'
      PROVE  /\ registered'[i] \in DOMAIN pool'
             /\ pool'[registered'[i]].next =
                  IF i = Len(registered') THEN NULL ELSE registered'[i + 1]
  <2>1. CASE i = 1
    <3>1. CASE registered = <<>>
      BY <1>2, <1>3, <1>5, <2>1, <3>1 DEF RInv, ListInv, AllPoolsListed
    <3>2. CASE registered # <<>>
      <4>1. Len(registered) > 0
        BY <1>4, <3>2
      <4>2. registered'[2] = registered[1] /\ 1 # Len(registered')
        BY <1>4, <1>5, <4>1
      <4> QED BY <1>2, <1>3, <1>5, <2>1, <3>2, <4>2 DEF RInv, ListInv, AllPoolsListed
    <3> QED BY <3>1, <3>2
  <2>2. CASE i # 1
    <3>1. /\ i - 1 \in DOMAIN registered /\ registered'[i] = registered[i - 1]
          /\ i = Len(registered') <=> i - 1 = Len(registered)
          /\ i # Len(registered') => registered'[i + 1] = registered[(i - 1) + 1]
      BY <1>4, <1>5, <2>2
    <3> QED BY <1>2, <3>1 DEF RInv, ListInv, AllPoolsListed
  <2> QED BY <2>1, <2>2
<1>9. registered' # <<>> /\ dam_pool_list' = registered'[1]
  BY <1>2, <1>4, <1>5
<1>10. inuse' \subseteq Listed' => AllPoolsListed'
  BY <1>8, <1>9 DEF AllPoolsListed
<1> QED BY <1>2, <1>3, <1>5, <1>6, <1>7, <1>10 DEF ListInv, n

\* What a call does after it has registered its pool.
LEMMA PublishEnds ==
  ASSUME NEW t \in Threads, Publish(t)
  PROVE  /\ UNCHANGED <<program, pool, dam_lock_initialized, initialized, fault>>
         /\ \/ /\ th[t].init
               /\ th' = [th EXCEPT ![t] = [th[t] EXCEPT !.pc = "ready"]]
               /\ inuse' = inuse \cup {th[t].new} /\ UNCHANGED owner
            \/ ~ th[t].init /\ Return(t, {th[t].new})
            \/ /\ ~ th[t].init
               /\ th' = [th EXCEPT ![t] = [th[t] EXCEPT !.pc = "again"]]
               /\ UNCHANGED <<owner, inuse>>
<1>1. UNCHANGED <<program, pool, dam_lock_initialized, initialized, fault>>
  BY DEF Publish
<1>2. CASE th[t].init /\ Step(t, "ready") /\ inuse' = inuse \cup {th[t].new} /\ UNCHANGED owner
  BY <1>1, <1>2 DEF Step, Goto
<1>3. CASE ~ th[t].init /\ Return(t, {th[t].new})
  BY <1>1, <1>3
<1>4. CASE ~ th[t].init /\ Step(t, "again") /\ UNCHANGED <<owner, inuse>>
  BY <1>1, <1>4 DEF Step, Goto
<1> QED BY <1>2, <1>3, <1>4 DEF Publish

\* dam_register_pool, and what follows.
LEMMA PublishStep ==
  ASSUME DisciplinedPrograms, RInv, NEW t \in Threads, Publish(t)
  PROVE  RInv'
<1>1. /\ ThreadInv(t) /\ th[t].pc = "publish" /\ th[t].pc \in Critical
      /\ th[t].new # NULL /\ th[t].new \in Cells
      /\ ~ th[t].init => owner[th[t].layer] = t
  BY ThreadFields DEF RInv, ThreadInv, LocksInv, ScanInv, Publish, At, Critical
<1>2. /\ UNCHANGED <<program, pool, dam_lock_initialized, initialized, fault>>
      /\ dam_pool_list' = th[t].new
  BY DEF Publish
<1>3. /\ registered' \in Seq(Pools) /\ Listed' = Listed \cup {th[t].new}
      /\ th[t].new \in Pools /\ th[t].new \notin Listed
  BY PublishList
<1> DEFINE w1 == [th[t] EXCEPT !.pc = "ready"]
           w2 == [th[t] EXCEPT !.pc = "again"]
<1>5. PICK w \in {Idle, w1, w2} :
        /\ th' = [th EXCEPT ![t] = w]
        /\ w = w1 <=> th[t].init
        /\ IF w \in {Idle, w1} THEN inuse' = inuse \cup {th[t].new} ELSE inuse' = inuse
        /\ owner' = IF w = Idle THEN [owner EXCEPT ![th[t].layer] = NoThread] ELSE owner
  <2>1. Idle.pc = "idle" /\ w1.pc = "ready" /\ w2.pc = "again"
    BY IdleThread, ThreadFields DEF Thread
  <2>2. {th[t].new} \ {NULL} = {th[t].new}
    BY <1>1
  <2> HIDE DEF w1, w2
  <2>3. \/ /\ th[t].init /\ th' = [th EXCEPT ![t] = w1]
           /\ inuse' = inuse \cup {th[t].new} /\ UNCHANGED owner
        \/ ~ th[t].init /\ Return(t, {th[t].new})
        \/ /\ ~ th[t].init /\ th' = [th EXCEPT ![t] = w2]
           /\ UNCHANGED <<owner, inuse>>
    BY PublishEnds DEF w1, w2
  <2> QED BY <2>1, <2>2, <2>3 DEF Return, Goto
<1>6. /\ w1 \in Thread /\ w1.call = th[t].call /\ w1.old = th[t].old /\ w1.new = th[t].new
      /\ w1.init = th[t].init /\ w1.layer = th[t].layer /\ w1.pc = "ready"
  BY ThreadFields DEF Thread, PCs
<1>7. /\ w2 \in Thread /\ w2.call = th[t].call /\ w2.old = th[t].old /\ w2.new = th[t].new
      /\ w2.init = th[t].init /\ w2.layer = th[t].layer /\ w2.pc = "again"
  BY ThreadFields DEF Thread, PCs
<1> HIDE DEF w1, w2
<1>9. w \in Thread /\ th'[t] = w
  BY <1>5, <1>6, <1>7, Basics, IdleThread
<1>10. inuse' \subseteq Listed' /\ inuse \subseteq Listed
  BY <1>3, <1>5, ListFacts
<1>11. TypeOK'
  <2>1. owner' \in [Layers -> Threads \cup {NoThread}] /\ th' \in [Threads -> Thread]
    BY <1>5, <1>9, Basics
  <2>2. inuse' \subseteq Pools
    BY <1>3, <1>10, ListFacts
  <2> QED BY <1>1, <1>2, <1>3, <2>1, <2>2 DEF RInv, TypeOK
<1>12. ListInv'
  BY <1>10, PublishList
<1>13. Holds(t) => th[t].old \in Listed /\ th[t].old # th[t].new
  BY <1>1, <1>3 DEF ThreadInv, OldInv
<1>14. ThreadInv(t)'
  <2>1. CASE w = Idle
    BY <1>9, <2>1, IdleThread
       DEF ThreadInv, LocksInv, OldInv, NewInv, ScanInv, InitPhase, Holds, Critical
  <2>2. CASE w # Idle
    <3>1. owner' = owner /\ (inuse' = inuse \/ inuse' = inuse \cup {th[t].new})
      BY <1>5, <2>2
    <3>2. /\ w.call = th[t].call /\ w.old = th[t].old /\ w.new = th[t].new
          /\ w.init = th[t].init /\ w.layer = th[t].layer
          /\ \/ w.pc = "ready" /\ th[t].init
             \/ w.pc = "again" /\ ~ th[t].init /\ inuse' = inuse
      BY <1>5, <1>6, <1>7, <2>2, IdleThread
    <3>3. LocksInv(t)'
      BY <1>1, <1>2, <1>9, <3>1, <3>2 DEF ThreadInv, LocksInv, InitPhase, Holds, Critical
    <3>4. OldInv(t)'
      BY <1>1, <1>2, <1>3, <1>9, <1>13, <3>1, <3>2 DEF ThreadInv, OldInv, Holds
    <3>5. NewInv(t)' /\ ScanInv(t)'
      BY <1>1, <1>3, <1>9, <1>10, <3>2 DEF NewInv, ScanInv
    <3> QED BY <3>3, <3>4, <3>5 DEF ThreadInv
  <2> QED BY <2>1, <2>2
<1>15. OthersLocked(t)
  <2>1. w = Idle => owner[th[t].layer] = t
    BY <1>1, <1>5, <1>6, IdleThread
  <2> QED BY <1>5, <2>1, Basics, ThreadFields DEF OthersLocked
<1>16. OthersUnused(t)
  <2>1. ASSUME NEW u \in Threads, u # t
        PROVE  /\ th[u].new = NULL
               /\ Holds(u) /\ pool[th[u].old].type = "DIRECT" => th[u].old \notin inuse'
    BY <1>1, <1>5, <2>1, Others, WriterAlone
  <2> QED BY <2>1 DEF OthersUnused
<1>17. ApartInv(t, t)'
  BY <1>5, <1>6, <1>7, <1>9, <1>13, IdleThread DEF ApartInv, Holds
<1>18. ASSUME NEW u \in Threads, u # t, Holds(u)
       PROVE  /\ th[u].old \in Listed => th[u].old \in Listed'
              /\ th[u].old \in Listed => pool'[th[u].old].type = pool[th[u].old].type
              /\ w.new # th[u].old \/ w.new = NULL
  BY <1>1, <1>2, <1>3, <1>5, <1>6, <1>7, <1>18, Others, IdleThread
<1>19. w.call \notin {"free", "realloc"} \/ (w.call = th[t].call /\ w.old = th[t].old)
  BY <1>5, <1>6, <1>7, IdleThread
<1> QED BY <1>1, <1>2, <1>5, <1>9, <1>11, <1>12, <1>14, <1>15, <1>16, <1>17, <1>18, <1>19,
           WriterStep

\* The list without the k-th of its pools.
LEMMA WithoutIt ==
  ASSUME NEW s \in Seq(Pools), \A i, j \in DOMAIN s : s[i] = s[j] => i = j,
         NEW k \in DOMAIN s
  PROVE  /\ Without(s, s[k]) \in Seq(Pools) /\ Len(s) \in Nat /\ DOMAIN s = 1 .. Len(s)
         /\ Len(Without(s, s[k])) = Len(s) - 1
         /\ DOMAIN Without(s, s[k]) = 1 .. Len(s) - 1
         /\ \A i \in 1 .. Len(s) - 1 :
              Without(s, s[k])[i] = IF i < k THEN s[i] ELSE s[i + 1]
<1> DEFINE c == CHOOSE i \in DOMAIN s : s[i] = s[k]
           r == [i \in 1 .. Len(s) - 1 |-> IF i < k THEN s[i] ELSE s[i + 1]]
<1>1. c \in DOMAIN s /\ s[c] = s[k]
  OBVIOUS
<1>2. c = k
  BY <1>1
<1>3. ~ \A i \in DOMAIN s : s[i] # s[k]
  OBVIOUS
<1>4. Without(s, s[k]) = r
  BY <1>2, <1>3 DEF Without
<1>5. Len(s) \in Nat /\ DOMAIN s = 1 .. Len(s) /\ Len(s) - 1 \in Nat
  OBVIOUS
<1>6. ASSUME NEW i \in 1 .. Len(s) - 1 PROVE r[i] \in Pools
  <2>1. i \in DOMAIN s /\ i + 1 \in DOMAIN s
    BY <1>5
  <2> QED BY <2>1
<1>7. r \in [1 .. Len(s) - 1 -> Pools]
  BY <1>6
<1> HIDE DEF r
<1>8. r \in Seq(Pools) /\ Len(r) = Len(s) - 1
  <2> DEFINE n == Len(s) - 1
  <2>1. n \in Nat /\ r \in [1 .. n -> Pools]
    BY <1>5, <1>7
  <2> HIDE DEF n
  <2>2. r \in Seq(Pools)
    BY <2>1, SeqDef
  <2>3. DOMAIN r = 1 .. Len(r) /\ Len(r) \in Nat /\ DOMAIN r = 1 .. n
    BY <2>1, <2>2
  <2>4. Len(r) = n
    BY <2>1, <2>3
  <2> QED BY <2>2, <2>4 DEF n
<1>9. \A i \in 1 .. Len(s) - 1 : r[i] = IF i < k THEN s[i] ELSE s[i + 1]
  BY DEF r
<1>10. DOMAIN r = 1 .. Len(s) - 1
  BY <1>7
<1> QED BY <1>4, <1>5, <1>8, <1>9, <1>10

\* The pools that are left: all but that one.
LEMMA WithoutSet ==
  ASSUME NEW s \in Seq(Pools), \A i, j \in DOMAIN s : s[i] = s[j] => i = j,
         NEW k \in DOMAIN s
  PROVE  LET r == Without(s, s[k])
         IN  /\ {r[i] : i \in DOMAIN r} = {s[i] : i \in DOMAIN s} \ {s[k]}
             /\ \A i, j \in DOMAIN r : r[i] = r[j] => i = j
<1> DEFINE r == Without(s, s[k])
<1>1. /\ Len(s) \in Nat /\ DOMAIN s = 1 .. Len(s) /\ DOMAIN r = 1 .. Len(s) - 1
      /\ \A i \in 1 .. Len(s) - 1 : r[i] = IF i < k THEN s[i] ELSE s[i + 1]
  BY WithoutIt
<1>2. k \in Nat
  BY <1>1
<1>3. ASSUME NEW i \in DOMAIN r
      PROVE  \E m \in DOMAIN s : r[i] = s[m] /\ m # k /\ m = (IF i < k THEN i ELSE i + 1)
  BY <1>1, <1>2
<1>4. ASSUME NEW m \in DOMAIN s, m # k
      PROVE  \E i \in DOMAIN r : r[i] = s[m]
  <2>1. CASE m < k
    BY <1>1, <1>2, <2>1
  <2>2. CASE m > k
    <3>1. m - 1 \in DOMAIN r /\ ~ (m - 1 < k) /\ (m - 1) + 1 = m
      BY <1>1, <1>2, <2>2
    <3> QED BY <1>1, <3>1
  <2> QED BY <1>1, <1>2, <1>4, <2>1, <2>2
<1>5. {r[i] : i \in DOMAIN r} \subseteq {s[i] : i \in DOMAIN s} \ {s[k]}
  BY <1>3
<1>6. {s[i] : i \in DOMAIN s} \ {s[k]} \subseteq {r[i] : i \in DOMAIN r}
  BY <1>4
<1>7. ASSUME NEW i \in DOMAIN r, NEW j \in DOMAIN r, r[i] = r[j] PROVE i = j
  <2>1. PICK a \in DOMAIN s : r[i] = s[a] /\ a = (IF i < k THEN i ELSE i + 1)
    BY <1>3
  <2>2. PICK b \in DOMAIN s : r[j] = s[b] /\ b = (IF j < k THEN j ELSE j + 1)
    BY <1>3
  <2>3. a = b
    BY <1>7, <2>1, <2>2
  <2> QED BY <1>1, <1>2, <2>1, <2>2, <2>3
<1> QED BY <1>5, <1>6, <1>7

\* The list in memory, once the pool is unlinked from it.
LEMMA UnlinkList ==
  ASSUME DisciplinedPrograms, RInv, NEW t \in Threads, Unlink(t)
  PROVE  /\ ListInv'
         /\ registered' \in Seq(Pools) /\ Listed' = Listed \ {th[t].old}
         /\ dam_pool_list' \in Cells /\ DOMAIN pool' = DOMAIN pool
         /\ pool' \in [DOMAIN pool -> [type: Layers \cup {"NONE"}, next: Cells]]
         /\ \A p \in DOMAIN pool : pool'[p].type = pool[p].type
<1> DEFINE o == th[t].old
<1>1. /\ ScanInv(t) /\ th[t].pc = "unlink" /\ o \in Listed /\ o \notin inuse /\ inuse' = inuse
      /\ registered' = Without(registered, o)
  BY DEF RInv, ThreadInv, LocksInv, OldInv, Unlink, At
<1>2. /\ registered \in Seq(Pools) /\ Len(registered) \in Nat
      /\ DOMAIN registered = 1 .. Len(registered)
      /\ \A i \in DOMAIN registered : registered[i] \in DOMAIN pool
      /\ \A i, j \in DOMAIN registered : registered[i] = registered[j] => i = j
      /\ pool \in [DOMAIN pool -> [type: Layers \cup {"NONE"}, next: Cells]]
  BY ListFacts DEF RInv, TypeOK, ListInv, AllPoolsListed, Distinct
<1>3. PICK k \in DOMAIN registered : registered[k] = o
  BY <1>1 DEF Listed
<1>4. /\ registered' \in Seq(Pools) /\ Len(registered') = Len(registered) - 1
      /\ DOMAIN registered' = 1 .. Len(registered) - 1
      /\ \A i \in 1 .. Len(registered) - 1 :
           registered'[i] = IF i < k THEN registered[i] ELSE registered[i + 1]
  <2>1. registered' = Without(registered, registered[k])
    BY <1>1, <1>3
  <2>2. /\ Without(registered, registered[k]) \in Seq(Pools)
        /\ Len(Without(registered, registered[k])) = Len(registered) - 1
        /\ DOMAIN Without(registered, registered[k]) = 1 .. Len(registered) - 1
        /\ \A i \in 1 .. Len(registered) - 1 :
             Without(registered, registered[k])[i] =
               IF i < k THEN registered[i] ELSE registered[i + 1]
    BY <1>2, WithoutIt
  <2> QED BY <2>1, <2>2
<1>5. Listed' = Listed \ {o} /\ Distinct'
  <2>1. registered' = Without(registered, registered[k])
    BY <1>1, <1>3
  <2> DEFINE r == Without(registered, registered[k])
  <2>2. /\ {r[i] : i \in DOMAIN r} = {registered[i] : i \in DOMAIN registered} \ {registered[k]}
        /\ \A i, j \in DOMAIN r : r[i] = r[j] => i = j
    BY <1>2, WithoutSet
  <2>3. registered' = r
    BY <2>1
  <2> HIDE DEF r
  <2>4. Listed' = {r[i] : i \in DOMAIN r}
    BY <2>3 DEF Listed
  <2>5. Distinct'
    BY <2>2, <2>3 DEF Distinct
  <2> QED BY <1>3, <2>2, <2>4, <2>5 DEF Listed
<1>6. k \in Nat /\ k <= Len(registered) /\ 1 <= k
  BY <1>2
<1>7. pool[o].next = IF k = Len(registered) THEN NULL ELSE registered[k + 1]
  BY <1>3 DEF RInv, ListInv, AllPoolsListed
<1>8. pool[o].next \in Cells /\ o \in DOMAIN pool
  BY <1>2, <1>3
<1>9. \A i \in DOMAIN registered : pool[registered[i]].next =
        IF i = Len(registered) THEN NULL ELSE registered[i + 1]
  BY DEF RInv, ListInv, AllPoolsListed
<1> HIDE DEF o
<1>10. CASE th[t].at = NULL
  <2>1. dam_pool_list' = pool[o].next /\ pool' = pool
    BY <1>10 DEF Unlink, o
  <2>2. k = 1
    BY <1>1, <1>2, <1>3, <1>6, <1>10 DEF ScanInv, o
  <2>3. \A i \in 1 .. Len(registered) - 1 :
          /\ registered'[i] = registered[i + 1] /\ i + 1 \in DOMAIN registered
          /\ i = Len(registered) - 1 <=> i + 1 = Len(registered)
          /\ i # Len(registered) - 1 => registered'[i + 1] = registered[(i + 1) + 1]
    BY <1>2, <1>4, <2>2
  <2>4. \A i \in DOMAIN registered' :
          /\ registered'[i] \in DOMAIN pool'
          /\ pool'[registered'[i]].next =
               IF i = Len(registered') THEN NULL ELSE registered'[i + 1]
    BY <1>2, <1>4, <1>9, <2>1, <2>3
  <2>5. dam_pool_list' = IF registered' = <<>> THEN NULL ELSE registered'[1]
    <3>1. CASE Len(registered) = 1
      BY <1>2, <1>4, <1>7, <2>1, <2>2, <3>1
    <3>2. CASE Len(registered) # 1
      <4>1. 1 \in 1 .. Len(registered) - 1 /\ 1 # Len(registered)
        BY <1>6, <2>2, <3>2
      <4>2. registered' # <<>> /\ registered'[1] = registered[2]
        BY <1>4, <2>3, <4>1
      <4> QED BY <1>7, <2>1, <2>2, <4>1, <4>2
    <3> QED BY <3>1, <3>2
  <2>6. inuse' \subseteq Listed'
    BY <1>1, <1>5, ListFacts
  <2>7. ListInv'
    BY <1>5, <2>4, <2>5, <2>6 DEF ListInv, AllPoolsListed
  <2> QED BY <1>2, <1>4, <1>5, <1>8, <2>1, <2>7 DEF o
<1>11. CASE th[t].at # NULL
  <2> DEFINE h == [pool[th[t].at] EXCEPT !.next = pool[o].next]
  <2>1. dam_pool_list' = dam_pool_list /\ th[t].at \in DOMAIN pool
        /\ pool' = [pool EXCEPT ![th[t].at] = h]
    BY <1>11 DEF Unlink, o
  <2>2. k - 1 \in DOMAIN registered /\ registered[k - 1] = th[t].at
    <3>1. PICK i, j \in DOMAIN registered :
            j = i + 1 /\ registered[i] = th[t].at /\ registered[j] = o
      BY <1>1, <1>11 DEF ScanInv, o
    <3>2. j = k
      BY <1>2, <1>3, <3>1
    <3> QED BY <1>2, <1>6, <3>1, <3>2
  <2>3. h \in [type: Layers \cup {"NONE"}, next: Cells]
        /\ h.next = pool[o].next /\ h.type = pool[th[t].at].type
    BY <1>2, <1>8, <2>1
  <2> HIDE DEF h
  <2>4. /\ DOMAIN pool' = DOMAIN pool /\ pool'[registered[k - 1]] = h
        /\ pool' \in [DOMAIN pool -> [type: Layers \cup {"NONE"}, next: Cells]]
        /\ \A i \in DOMAIN registered : i # k - 1 => pool'[registered[i]] = pool[registered[i]]
        /\ \A p \in DOMAIN pool : pool'[p].type = pool[p].type
    BY <1>2, <2>1, <2>2, <2>3
  <2>5. ASSUME NEW i \in DOMAIN registered'
        PROVE  /\ registered'[i] \in DOMAIN pool'
               /\ pool'[registered'[i]].next =
                    IF i = Len(registered') THEN NULL ELSE registered'[i + 1]
    <3>1. i \in 1 .. Len(registered) - 1 /\ i \in Nat
      BY <1>4
    <3>2. CASE i < k - 1
      <4>1. /\ registered'[i] = registered[i] /\ i \in DOMAIN registered /\ i # k - 1
            /\ i + 1 \in 1 .. Len(registered) - 1 /\ registered'[i + 1] = registered[i + 1]
            /\ i # Len(registered) /\ i # Len(registered')
        BY <1>2, <1>4, <1>6, <3>1, <3>2
      <4> QED BY <1>2, <1>9, <2>4, <4>1
    <3>3. CASE i = k - 1
      <4>1. registered'[i] = registered[k - 1] /\ pool'[registered'[i]].next = pool[o].next
        BY <1>4, <1>6, <2>3, <2>4, <3>1, <3>3
      <4>2. i = Len(registered') <=> k = Len(registered)
        BY <1>4, <1>6, <3>3
      <4>3. k # Len(registered) => registered'[i + 1] = registered[k + 1]
        BY <1>4, <1>6, <3>1, <3>3
      <4> QED BY <1>2, <1>7, <2>2, <2>4, <4>1, <4>2, <4>3
    <3>4. CASE i > k - 1
      <4>1. /\ registered'[i] = registered[i + 1] /\ i + 1 \in DOMAIN registered /\ i + 1 # k - 1
            /\ i = Len(registered') <=> i + 1 = Len(registered)
        BY <1>2, <1>4, <1>6, <3>1, <3>4
      <4>2. i # Len(registered') => registered'[i + 1] = registered[(i + 1) + 1]
        BY <1>2, <1>4, <1>6, <3>1, <3>4
      <4> QED BY <1>2, <1>9, <2>4, <4>1, <4>2
    <3> QED BY <1>6, <3>1, <3>2, <3>3, <3>4
  <2>6. dam_pool_list' = IF registered' = <<>> THEN NULL ELSE registered'[1]
    <3>1. 1 < k /\ 1 \in 1 .. Len(registered) - 1
      BY <1>2, <1>6, <2>2
    <3>2. registered' # <<>> /\ registered # <<>> /\ registered'[1] = registered[1]
      BY <1>2, <1>4, <1>6, <3>1
    <3> QED BY <2>1, <3>2 DEF RInv, ListInv, AllPoolsListed
  <2>7. inuse' \subseteq Listed'
    BY <1>1, <1>5, ListFacts
  <2>8. ListInv'
    BY <1>5, <2>5, <2>6, <2>7 DEF ListInv, AllPoolsListed
  <2> QED BY <1>4, <1>5, <2>1, <2>4, <2>8, Basics DEF o
<1> QED BY <1>10, <1>11

\* dam_unregister_pool.
LEMMA UnlinkStep ==
  ASSUME DisciplinedPrograms, RInv, NEW t \in Threads, Unlink(t)
  PROVE  RInv'
<1>1. /\ ThreadInv(t) /\ th[t].pc = "unlink" /\ th[t].pc \in Critical /\ Holds(t)
      /\ ~ th[t].init /\ owner[th[t].layer] = t /\ th[t].new # th[t].old
      /\ th[t].old \in Listed
  <2>1. /\ ThreadInv(t) /\ th[t].pc = "unlink" /\ th[t].pc \in Critical
        /\ ApartInv(t, t)
    BY DEF RInv, Unlink, At, Critical
  <2>2. Holds(t) /\ ~ th[t].init /\ owner[th[t].layer] = t
    BY <2>1 DEF ThreadInv, LocksInv
  <2>3. th[t].old \in Listed /\ th[t].old \in Pools
    BY <2>1, <2>2 DEF ThreadInv, OldInv
  <2> QED BY <2>1, <2>2, <2>3, Basics DEF ApartInv
<1> DEFINE w == [th[t] EXCEPT !.pc = "unmap"]
<1>2. /\ th' = [th EXCEPT ![t] = w]
      /\ UNCHANGED <<program, owner, dam_lock_initialized, initialized, inuse, fault>>
  BY DEF Unlink, Step, Goto
<1>3. /\ w \in Thread /\ w.call = th[t].call /\ w.old = th[t].old /\ w.new = th[t].new
      /\ w.init = th[t].init /\ w.layer = th[t].layer /\ w.pc = "unmap"
  BY ThreadFields DEF Thread, PCs
<1> HIDE DEF w
<1>4. th'[t] = w /\ th' \in [Threads -> Thread]
  BY <1>2, <1>3, Basics
<1>5. /\ ListInv'
      /\ registered' \in Seq(Pools) /\ Listed' = Listed \ {th[t].old}
      /\ dam_pool_list' \in Cells /\ DOMAIN pool' = DOMAIN pool
      /\ pool' \in [DOMAIN pool -> [type: Layers \cup {"NONE"}, next: Cells]]
      /\ \A p \in DOMAIN pool : pool'[p].type = pool[p].type
  BY UnlinkList
<1>6. TypeOK'
  BY <1>2, <1>4, <1>5 DEF RInv, TypeOK
<1>7. ThreadInv(t)'
  <2>1. LocksInv(t)'
    BY <1>1, <1>2, <1>3, <1>4 DEF ThreadInv, LocksInv, InitPhase, Holds, Critical
  <2>2. OldInv(t)'
    BY <1>1, <1>3, <1>4, <1>5 DEF ThreadInv, OldInv, Holds
  <2>3. NewInv(t)' /\ ScanInv(t)'
    BY <1>1, <1>2, <1>3, <1>4, <1>5 DEF ThreadInv, NewInv, ScanInv
  <2> QED BY <2>1, <2>2, <2>3 DEF ThreadInv
<1>8. OthersLocked(t)
  BY <1>2 DEF OthersLocked
<1>9. OthersUnused(t)
  BY <1>2, ThreadsKeep
<1>10. ApartInv(t, t)'
  BY <1>1, <1>3, <1>4 DEF ApartInv
<1>11. ASSUME NEW u \in Threads, u # t, Holds(u)
       PROVE  /\ th[u].old \in Listed => th[u].old \in Listed'
              /\ th[u].old \in Listed => pool'[th[u].old].type = pool[th[u].old].type
              /\ w.new # th[u].old \/ w.new = NULL
  BY <1>1, <1>3, <1>5, <1>11, Others, ListFacts
<1> QED BY <1>1, <1>2, <1>3, <1>5, <1>6, <1>7, <1>8, <1>9, <1>10, <1>11, WriterStep

\* The pool is unmapped, and the call returns.
LEMMA UnmapStep ==
  ASSUME DisciplinedPrograms, RInv, NEW t \in Threads, Unmap(t)
  PROVE  RInv'
<1>1. /\ ThreadInv(t) /\ th[t].pc = "unmap" /\ th[t].pc \in Critical /\ Holds(t)
      /\ owner[th[t].layer] = t /\ th[t].old \notin Listed
      /\ th[t].new = NULL \/ th[t].new \in Listed
  BY DEF RInv, ThreadInv, LocksInv, InitPhase, OldInv, NewInv, Holds, Unmap, At, Critical
<1>2. /\ th' = [th EXCEPT ![t] = Idle] /\ owner' = [owner EXCEPT ![th[t].layer] = NoThread]
      /\ inuse' = inuse \cup ({th[t].new} \ {NULL})
      /\ pool' = [q \in DOMAIN pool \ {th[t].old} |-> pool[q]]
      /\ UNCHANGED <<program, dam_pool_list, dam_lock_initialized, initialized, registered, fault>>
  BY DEF Unmap, Return, Goto
<1>3. th'[t] = Idle /\ th' \in [Threads -> Thread] /\ Listed' = Listed
      /\ owner' \in [Layers -> Threads \cup {NoThread}]
  BY <1>2, Basics, IdleThread, ThreadFields DEF Listed
<1>4. /\ DOMAIN pool' = DOMAIN pool \ {th[t].old}
      /\ \A q \in Listed : q \in DOMAIN pool' /\ pool'[q] = pool[q]
  BY <1>1, <1>2, ListFacts
<1>5. inuse' \subseteq Listed
  BY <1>1, <1>2, ListFacts
<1>6. TypeOK'
  <2>1. pool' \in [DOMAIN pool' -> [type: Layers \cup {"NONE"}, next: Cells]]
        /\ DOMAIN pool' \subseteq Pools
    BY <1>2, <1>4 DEF RInv, TypeOK
  <2>2. inuse' \subseteq Pools
    BY <1>5, ListFacts
  <2> QED BY <1>2, <1>3, <2>1, <2>2 DEF RInv, TypeOK
<1>7. ListInv'
  <2>1. \A i \in DOMAIN registered : registered[i] \in Listed
    BY DEF Listed
  <2> QED BY <1>2, <1>3, <1>4, <1>5, <2>1 DEF RInv, ListInv, AllPoolsListed, Distinct
<1>8. ThreadInv(t)'
  BY <1>3, IdleThread
     DEF ThreadInv, LocksInv, OldInv, NewInv, ScanInv, InitPhase, Holds, Critical
<1>9. OthersLocked(t)
  BY <1>1, <1>2, Basics, ThreadFields DEF OthersLocked
<1>10. OthersUnused(t)
  <2>1. ASSUME NEW u \in Threads, u # t
        PROVE  /\ th[u].new = NULL
               /\ Holds(u) /\ pool[th[u].old].type = "DIRECT" => th[u].old \notin inuse'
    BY <1>1, <1>2, <2>1, Others, WriterAlone
  <2> QED BY <2>1 DEF OthersUnused
<1>11. ApartInv(t, t)'
  BY <1>3, IdleThread DEF ApartInv
<1>12. ASSUME NEW u \in Threads, u # t, Holds(u)
       PROVE  /\ th[u].old \in Listed => th[u].old \in Listed'
              /\ th[u].old \in Listed => pool'[th[u].old].type = pool[th[u].old].type
  BY <1>3, <1>4
<1> QED BY <1>1, <1>2, <1>3, <1>6, <1>7, <1>8, <1>9, <1>10, <1>11, <1>12, IdleThread, WriterStep

-----------------------------------------------------------------------------
\* The program dies.
LEMMA StillStep ==
  ASSUME RInv,
         UNCHANGED <<program, dam_pool_list, pool, owner, dam_lock_initialized, initialized,
                     th, inuse, registered>>,
         fault' \in BOOLEAN
  PROVE  RInv'
<1>1. TypeOK'
  BY DEF RInv, TypeOK
<1>2. ListInv'
  BY DEF RInv, ListInv, AllPoolsListed, Distinct, Listed
<1>3. ASSUME NEW t \in Threads PROVE ThreadInv(t)'
  <2>1. ThreadInv(t)
    BY DEF RInv
  <2> QED BY <2>1
      DEF ThreadInv, LocksInv, OldInv, NewInv, ScanInv, InitPhase, Holds, Critical, Listed
<1>4. ASSUME NEW t \in Threads, NEW u \in Threads
      PROVE  ApartInv(t, u)' /\ (t # u => PairInv(t, u)')
  BY DEF RInv, ApartInv, PairInv, Holds, Alone
<1> QED BY <1>1, <1>2, <1>3, <1>4 DEF RInv

\* Before the first call.
LEMMA RInvInit ==
  ASSUME Init
  PROVE  RInv
<1>1. th = [t \in Threads |-> Idle] /\ registered = <<>> /\ pool = <<>> /\ inuse = {}
      /\ dam_pool_list = NULL
  BY DEF Init
<1>2. \A t \in Threads : th[t] = Idle
  BY <1>1
<1>3. DOMAIN registered = {} /\ registered \in Seq(Pools) /\ DOMAIN pool = {} /\ Listed = {}
  BY <1>1 DEF Listed
<1>4. TypeOK
  <2>1. pool \in [DOMAIN pool -> [type: Layers \cup {"NONE"}, next: Cells]]
    BY <1>1, <1>3
  <2>2. th \in [Threads -> Thread]
    BY <1>1, IdleThread
  <2> QED BY <1>1, <1>3, <2>1, <2>2 DEF Init, TypeOK, Cells
<1>5. ListInv
  BY <1>1, <1>3 DEF ListInv, AllPoolsListed, Distinct
<1>6. ASSUME NEW t \in Threads PROVE ThreadInv(t)
  BY <1>2, IdleThread
     DEF ThreadInv, LocksInv, OldInv, NewInv, ScanInv, InitPhase, Holds, Critical
<1>7. ASSUME NEW t \in Threads, NEW u \in Threads PROVE ApartInv(t, u) /\ PairInv(t, u)
  BY <1>2, IdleThread DEF ApartInv, PairInv, Holds
<1> QED BY <1>4, <1>5, <1>6, <1>7 DEF RInv, Init

\* A thread begins a call.
LEMMA RInvBegin ==
  ASSUME DisciplinedPrograms, RInv, NEW t \in Threads, Begin(t)
  PROVE  RInv'
BY MallocStep, FreeOrReallocStep, SnapshotStep DEF Begin

\* A thread goes on with one.
LEMMA RInvContinue ==
  ASSUME DisciplinedPrograms, RInv, NEW t \in Threads, Continue(t)
  PROVE  RInv'
<1>1. CASE Fault
  BY <1>1, StillStep DEF Fault
<1>2. CASE ~ Fault
  <2>1. CASE Check(t) \/ InitLocks(t) \/ Ready(t) \/ Acquire(t)
    BY <2>1, CheckStep, InitLocksStep, ReadyStep, AcquireStep
  <2>2. CASE Search(t) \/ Count(t) \/ Size(t) \/ Map(t) \/ Link(t) \/ Publish(t) \/ Again(t)
    BY <2>2, SearchStep, CountStep, SizeStep, MapStep, LinkStep, PublishStep, AgainStep
  <2>3. CASE Lookup(t) \/ Foreign(t) \/ Find(t) \/ Scan(t)
    BY <1>2, <2>3, LookupStep, ForeignStep, FindStep, ScanStep
  <2>4. CASE Unlink(t) \/ Unmap(t) \/ Tally(t) \/ Dangling(t)
    BY <1>2, <2>4, UnlinkStep, UnmapStep, TallyStep DEF Dangling
  <2> QED BY <2>1, <2>2, <2>3, <2>4 DEF Continue
<1> QED BY <1>1, <1>2

\* No step breaks it.
LEMMA RInvNext ==
  ASSUME DisciplinedPrograms, RInv, [Next]_vars
  PROVE  RInv'
<1>1. CASE UNCHANGED vars
  <2>1. fault' \in BOOLEAN
    BY <1>1, Basics DEF vars
  <2> QED BY <1>1, <2>1, StillStep DEF vars
<1>2. CASE Next
  <2>1. ASSUME NEW t \in Threads, Begin(t) \/ Continue(t) PROVE RInv'
    BY <2>1, RInvBegin, RInvContinue
  <2> QED BY <1>1, <1>2, <2>1 DEF Next, Died
<1> QED BY <1>1, <1>2

\* Whatever the threads do, the list in memory is the list of the pools registered, whole
\* and in order, and every pool in use is on it: in a program whose threads take turns, or
\* that uses one layer and initialises before it starts threads (dam_register_pool,
\* dam_unregister_pool under the layers' locks).
THEOREM ListsWhole ==
  ASSUME DisciplinedPrograms
  PROVE  Spec => []AllPoolsListed
<1>1. Init => RInv
  BY RInvInit
<1>2. RInv /\ [Next]_vars => RInv'
  BY RInvNext
<1>3. RInv => AllPoolsListed
  BY DEF RInv, ListInv
<1> QED BY <1>1, <1>2, <1>3, PTL DEF Spec

-----------------------------------------------------------------------------
\* The walks.

\* The programs LookupsSafe speaks of.
Safe == program.turns \/ "DIRECT" \notin program.layers

\* Where a walk is.
WalkInv(t) ==
  /\ th[t].pc # "foreign"
  /\ th[t].pc = "publish" => pool[th[t].new].type \in Layers
  /\ th[t].pc = "unmap" => th[t].old \in DOMAIN pool /\ "DIRECT" \in program.layers
  /\ (\/ th[t].pc \in {"search", "count", "size", "tally"}
      \/ th[t].pc = "lock" /\ th[t].call = "snapshot")
     => th[t].at \in Listed \cup {NULL}
  /\ th[t].pc \in {"lookup", "find"} =>
       \E i, j \in DOMAIN registered :
         i <= j /\ registered[i] = th[t].at /\ registered[j] = th[t].old

\* A listed pool has a header.
Typed == \A p \in Listed : pool[p].type \in Layers

WInv == Safe => ~ fault /\ Typed /\ \A t \in Threads : WalkInv(t)

\* The head of the list, and what follows one of its pools.
LEMMA WalkFacts ==
  ASSUME RInv
  PROVE  /\ dam_pool_list \in Listed \cup {NULL}
         /\ \A p \in Listed : pool[p].next \in Listed \cup {NULL}
         /\ \A p \in Listed : \E i, j \in DOMAIN registered :
              i <= j /\ registered[i] = dam_pool_list /\ registered[j] = p
         /\ \A i, j \in DOMAIN registered : i <= j /\ registered[i] # registered[j] =>
              /\ i + 1 \in DOMAIN registered /\ i + 1 <= j
              /\ pool[registered[i]].next = registered[i + 1]
<1>1. /\ Len(registered) \in Nat /\ DOMAIN registered = 1 .. Len(registered)
      /\ \A i \in DOMAIN registered : registered[i] \in Listed
  BY ListFacts
<1>2. /\ dam_pool_list = IF registered = <<>> THEN NULL ELSE registered[1]
      /\ \A i \in DOMAIN registered : pool[registered[i]].next =
           IF i = Len(registered) THEN NULL ELSE registered[i + 1]
  BY DEF RInv, ListInv, AllPoolsListed
<1>3. registered # <<>> => 1 \in DOMAIN registered
  BY <1>1, ListFacts
<1>4. dam_pool_list \in Listed \cup {NULL}
  BY <1>1, <1>2, <1>3
<1>5. ASSUME NEW p \in Listed
      PROVE  /\ pool[p].next \in Listed \cup {NULL}
             /\ \E i, j \in DOMAIN registered :
                  i <= j /\ registered[i] = dam_pool_list /\ registered[j] = p
  <2>1. PICK k \in DOMAIN registered : registered[k] = p
    BY DEF Listed
  <2>2. k # Len(registered) => k + 1 \in DOMAIN registered
    BY <1>1
  <2>3. 1 \in DOMAIN registered /\ 1 <= k /\ registered # <<>>
    BY <1>1
  <2> QED BY <1>1, <1>2, <2>1, <2>2, <2>3
<1>6. ASSUME NEW i \in DOMAIN registered, NEW j \in DOMAIN registered,
             i <= j, registered[i] # registered[j]
      PROVE  /\ i + 1 \in DOMAIN registered /\ i + 1 <= j
             /\ pool[registered[i]].next = registered[i + 1]
  <2>1. i # j
    BY <1>6
  <2> QED BY <1>1, <1>2, <1>6, <2>1
<1> QED BY <1>4, <1>5, <1>6

\* No step changes the program.
LEMMA UnchangedProgram ==
  ASSUME NEW t \in Threads, Begin(t) \/ Continue(t)
  PROVE  program' = program
<1>1. CASE Begin(t)
  BY <1>1 DEF Begin, Malloc, FreeOrRealloc, Snapshot, OnlyThreads, Memory
<1>2. CASE Check(t) \/ InitLocks(t) \/ Ready(t) \/ Acquire(t) \/ Search(t) \/ Count(t)
        \/ Size(t) \/ Again(t)
  BY <1>2
     DEF Check, InitLocks, Ready, Acquire, Search, Count, Size, Again, OnlyThreads, Memory
<1>3. CASE Map(t) \/ Link(t) \/ Publish(t) \/ Lookup(t) \/ Foreign(t) \/ Find(t)
  BY <1>3 DEF Map, Link, Publish, Lookup, Foreign, Find, Fault, OnlyThreads, Memory
<1>4. CASE Scan(t) \/ Unlink(t) \/ Unmap(t) \/ Tally(t) \/ Dangling(t)
  BY <1>4 DEF Scan, Unlink, Unmap, Tally, Dangling, Fault, OnlyThreads, Memory
<1> QED BY <1>1, <1>2, <1>3, <1>4 DEF Continue

\* A step leaves the other threads where they are.
LEMMA OthersStay ==
  ASSUME RInv, NEW t \in Threads, Begin(t) \/ Continue(t), NEW u \in Threads, u # t
  PROVE  th'[u] = th[u]
<1>1. ASSUME NEW w, Goto(t, w) PROVE th'[u] = th[u]
  BY <1>1, Basics DEF Goto
<1>2. ASSUME NEW pc, Step(t, pc) \/ WalkFromHead(t, pc) PROVE th'[u] = th[u]
  BY <1>2, Basics DEF Goto, Step, WalkFromHead
<1>3. ASSUME NEW kept, Return(t, kept) PROVE th'[u] = th[u]
  BY <1>3, Basics DEF Goto, Return
<1>4. CASE Begin(t)
  BY <1>1, <1>4, Basics DEF Begin, Malloc, FreeOrRealloc, Snapshot, Goto
<1>5. CASE Check(t) \/ InitLocks(t) \/ Ready(t) \/ Acquire(t)
  BY <1>5, Basics DEF Check, InitLocks, Ready, Acquire, Enter, Goto, Step, WalkFromHead
<1>6. CASE Search(t) \/ Count(t) \/ Size(t) \/ Map(t) \/ Link(t) \/ Again(t)
  BY <1>6, Basics
     DEF Search, Count, Size, Map, Link, Again, Fail, Return, Goto, Step, WalkFromHead
<1>7. CASE Publish(t) \/ Lookup(t) \/ Foreign(t) \/ Find(t)
  BY <1>7, Basics
     DEF Publish, Lookup, Foreign, Find, Fault, Return, Goto, Step
<1>8. CASE Scan(t) \/ Unlink(t) \/ Unmap(t) \/ Tally(t) \/ Dangling(t)
  BY <1>8, Basics
     DEF Scan, Unlink, Unmap, Tally, Dangling, Fault, Return, Goto, Step
<1> QED BY <1>4, <1>5, <1>6, <1>7, <1>8 DEF Continue

\* While another thread is inside the allocator, the list of a safe program only grows.
LEMMA OnlyGrows ==
  ASSUME DisciplinedPrograms, RInv, Safe, NEW t \in Threads, Begin(t) \/ Continue(t),
         WalkInv(t), NEW u \in Threads, u # t, th[u].pc # "idle"
  PROVE  /\ registered' = registered \/ registered' = <<th[t].new>> \o registered
         /\ DOMAIN pool \subseteq DOMAIN pool'
         /\ \A p \in DOMAIN pool : p # th[t].new => pool'[p] = pool[p]
         /\ th[t].pc \notin Critical => pool' = pool
<1>1. "DIRECT" \notin program.layers
  <2>1. CASE program.turns
    <3>1. th[t].pc = "idle"
      BY <2>1 DEF RInv, PairInv, Alone
    <3>2. ~ Continue(t)
      BY <3>1
         DEF Continue, At, Reads, Check, InitLocks, Ready, Acquire, Search, Count, Size, Map,
             Link, Publish, Again, Lookup, Foreign, Find, Scan, Unlink, Unmap, Tally, Dangling
    <3>3. ~ MayBegin(t)
      BY <2>1 DEF MayBegin, At
    <3> QED BY <3>2, <3>3 DEF Begin, Malloc, FreeOrRealloc, Snapshot
  <2> QED BY <2>1 DEF Safe
<1>2. th[t].pc \notin {"find", "scan", "unlink", "unmap"}
  <2>1. ThreadInv(t)
    BY DEF RInv
  <2>2. th[t].pc # "unmap"
    BY <1>1 DEF WalkInv
  <2> QED BY <1>1, <2>1, <2>2 DEF ThreadInv, LocksInv, OldInv
<1>3. CASE UNCHANGED <<registered, pool>>
  BY <1>3
<1>4. CASE Begin(t)
  BY <1>3, <1>4 DEF Begin, Malloc, FreeOrRealloc, Snapshot, OnlyThreads, Memory
<1>5. CASE Check(t) \/ InitLocks(t) \/ Ready(t) \/ Acquire(t) \/ Search(t)
  BY <1>3, <1>5 DEF Check, InitLocks, Ready, Acquire, Search, OnlyThreads, Memory
<1>6. CASE Count(t) \/ Size(t) \/ Again(t) \/ Lookup(t) \/ Foreign(t) \/ Tally(t) \/ Dangling(t)
  BY <1>3, <1>6
     DEF Count, Size, Again, Lookup, Foreign, Tally, Dangling, Fault, OnlyThreads, Memory
<1>7. CASE Map(t)
  <2>1. registered' = registered /\ th[t].pc \in Critical
    BY <1>7 DEF Map, At, Critical
  <2>2. DOMAIN pool \subseteq DOMAIN pool' /\ \A p \in DOMAIN pool : pool'[p] = pool[p]
    BY <1>7 DEF Map
  <2> QED BY <2>1, <2>2
<1>8. CASE Link(t)
  <2>1. registered' = registered /\ th[t].pc \in Critical
    BY <1>8 DEF Link, At, Critical
  <2>2. DOMAIN pool \subseteq DOMAIN pool'
        /\ \A p \in DOMAIN pool : p # th[t].new => pool'[p] = pool[p]
    BY <1>8 DEF Link, RInv, TypeOK
  <2> QED BY <2>1, <2>2
<1>9. CASE Publish(t)
  BY <1>9 DEF Publish, At, Critical
<1>10. ~ (Find(t) \/ Scan(t) \/ Unlink(t) \/ Unmap(t))
  BY <1>2 DEF Find, Scan, Unlink, Unmap, Reads, At
<1> QED BY <1>4, <1>5, <1>6, <1>7, <1>8, <1>9, <1>10 DEF Continue

\* So another thread's walk stays where it was, on the way to what it looks for.
LEMMA OthersWalk ==
  ASSUME DisciplinedPrograms, RInv, Safe, NEW t \in Threads, Begin(t) \/ Continue(t),
         WalkInv(t), NEW u \in Threads, u # t, WalkInv(u), registered' \in Seq(Pools)
  PROVE  WalkInv(u)'
<1>1. th'[u] = th[u]
  BY OthersStay
<1>2. CASE th[u].pc = "idle"
  BY <1>1, <1>2 DEF WalkInv
<1>3. CASE th[u].pc # "idle"
  <2>1. /\ registered' = registered \/ registered' = <<th[t].new>> \o registered
        /\ DOMAIN pool \subseteq DOMAIN pool'
        /\ \A p \in DOMAIN pool : p # th[t].new => pool'[p] = pool[p]
        /\ th[t].pc \notin Critical => pool' = pool
    BY <1>3, OnlyGrows
  <2>2. /\ registered \in Seq(Pools) /\ Len(registered) \in Nat
        /\ DOMAIN registered = 1 .. Len(registered)
    BY ListFacts
  <2>3. PICK d \in {0, 1} : \A i \in DOMAIN registered :
          i + d \in DOMAIN registered' /\ registered'[i + d] = registered[i]
    <3>1. CASE registered' = registered
      BY <2>2, <3>1
    <3>2. CASE registered' = <<th[t].new>> \o registered
      <4>1. th[t].new \in Cells
        BY ThreadFields
      <4>2. <<th[t].new>> \in Seq(Cells) /\ registered \in Seq(Cells) /\ Len(<<th[t].new>>) = 1
        BY <2>2, <4>1 DEF Cells
      <4>3. Len(registered') = 1 + Len(registered)
            /\ DOMAIN registered' = 1 .. 1 + Len(registered)
        BY <2>2, <3>2, <4>2
      <4>4. ASSUME NEW i \in DOMAIN registered
            PROVE  i + 1 \in DOMAIN registered' /\ registered'[i + 1] = registered[i]
        BY <2>2, <3>2, <4>2, <4>3
      <4> QED BY <4>4
    <3> QED BY <2>1, <3>1, <3>2
  <2>4. Listed \subseteq Listed'
    BY <2>3 DEF Listed
  <2>5. th[u].pc = "publish" => pool'[th[u].new].type \in Layers
    <3>1. CASE th[u].pc = "publish"
      <4>1. th[t].pc \notin Critical
        BY <3>1, Exclusive DEF Critical
      <4> QED BY <2>1, <3>1, <4>1 DEF WalkInv
    <3> QED BY <3>1
  <2>6. ASSUME th[u].pc \in {"lookup", "find"}
        PROVE  \E i, j \in DOMAIN registered' :
                 i <= j /\ registered'[i] = th[u].at /\ registered'[j] = th[u].old
    <3>1. PICK i, j \in DOMAIN registered :
            i <= j /\ registered[i] = th[u].at /\ registered[j] = th[u].old
      BY <2>6 DEF WalkInv
    <3>2. i + d <= j + d
      BY <2>2, <3>1
    <3> QED BY <2>3, <3>1, <3>2
  <2>7. UNCHANGED program
    BY UnchangedProgram
  <2> QED BY <1>1, <2>1, <2>4, <2>5, <2>6, <2>7 DEF WalkInv
<1> QED BY <1>2, <1>3

\* The thread that takes the step, where it only walks on: to w.
LEMMA OwnWalk ==
  ASSUME RInv, NEW t \in Threads, NEW w \in Thread, th' = [th EXCEPT ![t] = w],
         UNCHANGED <<program, pool, registered, fault>>, ~ fault, Typed,
         w.pc \notin {"foreign", "publish"},
         w.pc = "unmap" => w.old \in DOMAIN pool /\ "DIRECT" \in program.layers,
         w.pc \in {"search", "count", "size", "tally"} \/ (w.pc = "lock" /\ w.call = "snapshot")
           => w.at \in Listed \cup {NULL},
         w.pc \in {"lookup", "find"} =>
           \E i, j \in DOMAIN registered :
             i <= j /\ registered[i] = w.at /\ registered[j] = w.old
  PROVE  WalkInv(t)' /\ Typed' /\ ~ fault'
<1>1. th'[t] = w /\ Listed' = Listed
  BY Basics DEF Listed
<1> QED BY <1>1 DEF WalkInv, Typed

\* A call begins.
LEMMA BeginWalk ==
  ASSUME RInv, NEW t \in Threads, ~ fault, Typed, Begin(t)
  PROVE  WalkInv(t)' /\ Typed' /\ ~ fault'
<1>1. ASSUME NEW layer \in Layers, Malloc(t, layer)
      PROVE  WalkInv(t)' /\ Typed' /\ ~ fault'
  <2> DEFINE w == [Idle EXCEPT !.pc = IF initialized THEN "lock" ELSE "check", !.layer = layer]
  <2>1. w \in Thread /\ w.pc \in {"lock", "check"} /\ w.call = "malloc"
    BY IdleThread DEF Thread, PCs
  <2>2. th' = [th EXCEPT ![t] = w] /\ UNCHANGED <<program, pool, registered, fault>>
    BY <1>1 DEF Malloc, Goto, OnlyThreads, Memory
  <2> HIDE DEF w
  <2> QED BY <2>1, <2>2, OwnWalk
<1>2. ASSUME NEW call \in {"free", "realloc"}, NEW p \in inuse, FreeOrRealloc(t, call, p)
      PROVE  WalkInv(t)' /\ Typed' /\ ~ fault'
  <2> DEFINE w == [Idle EXCEPT !.pc = "lookup", !.call = call, !.at = dam_pool_list, !.old = p]
  <2>1. p \in Listed /\ p \in Cells
    BY ListFacts DEF Cells
  <2>2. w \in Thread /\ w.pc = "lookup" /\ w.at = dam_pool_list /\ w.old = p
    BY <2>1, Basics, IdleThread DEF Thread, PCs
  <2>3. th' = [th EXCEPT ![t] = w] /\ UNCHANGED <<program, pool, registered, fault>>
    BY <1>2 DEF FreeOrRealloc, Goto, Memory
  <2> HIDE DEF w
  <2>4. \E i, j \in DOMAIN registered :
          i <= j /\ registered[i] = w.at /\ registered[j] = w.old
    BY <2>1, <2>2, WalkFacts
  <2> QED BY <2>2, <2>3, <2>4, OwnWalk
<1>3. CASE Snapshot(t)
  <2> DEFINE w == [Idle EXCEPT !.pc = "lock", !.call = "snapshot", !.at = dam_pool_list]
  <2>1. w \in Thread /\ w.pc = "lock" /\ w.at = dam_pool_list
    BY Basics, IdleThread DEF Thread, PCs
  <2>2. th' = [th EXCEPT ![t] = w] /\ UNCHANGED <<program, pool, registered, fault>>
    BY <1>3 DEF Snapshot, Goto, OnlyThreads, Memory
  <2> HIDE DEF w
  <2> QED BY <2>1, <2>2, WalkFacts, OwnWalk
<1> QED BY <1>1, <1>2, <1>3 DEF Begin

\* dam_init goes on.
LEMMA InitWalk ==
  ASSUME RInv, NEW t \in Threads, ~ fault, Typed, Check(t) \/ InitLocks(t) \/ Ready(t)
  PROVE  WalkInv(t)' /\ Typed' /\ ~ fault'
<1> DEFINE w1 == [th[t] EXCEPT !.pc = "lock"]
           w2 == [th[t] EXCEPT !.pc = "count", !.init = TRUE, !.at = dam_pool_list]
           w3 == [th[t] EXCEPT !.pc = "locks"]
           w4 == [th[t] EXCEPT !.pc = "lock", !.init = FALSE, !.new = NULL, !.count = 0]
<1>1. th[t].call = "malloc"
  BY DEF RInv, ThreadInv, LocksInv, InitPhase, Check, InitLocks, Ready, At
<1>2. /\ w1 \in Thread /\ w1.pc = "lock" /\ w1.call = "malloc"
      /\ w2 \in Thread /\ w2.pc = "count" /\ w2.at = dam_pool_list
      /\ w3 \in Thread /\ w3.pc = "locks"
  BY <1>1, Basics, ThreadFields, ZenonT(40) DEF Thread, PCs
<1>3. w4 \in Thread /\ w4.pc = "lock" /\ w4.call = "malloc"
  <2>1. 0 \in 0 .. MAX_POOLS /\ NULL \in Cells /\ "lock" \in PCs /\ FALSE \in BOOLEAN
    BY Basics DEF Cells, PCs
  <2> QED BY <1>1, <2>1, ThreadFields DEF Thread
<1>4. /\ UNCHANGED <<program, pool, registered, fault>>
      /\ \/ th' = [th EXCEPT ![t] = w1] \/ th' = [th EXCEPT ![t] = w2]
         \/ th' = [th EXCEPT ![t] = w3] \/ th' = [th EXCEPT ![t] = w4]
  <2>1. CASE Check(t)
    BY <2>1 DEF Check, Step, Goto, OnlyThreads, Memory
  <2>2. CASE InitLocks(t)
    BY <2>2 DEF InitLocks, Goto
  <2>3. CASE Ready(t)
    BY <2>3 DEF Ready, Goto
  <2> QED BY <2>1, <2>2, <2>3
<1> HIDE DEF w1, w2, w3, w4
<1> QED BY <1>2, <1>3, <1>4, WalkFacts, OwnWalk

\* A lock is taken.
LEMMA AcquireWalk ==
  ASSUME RInv, NEW t \in Threads, ~ fault, Typed, WalkInv(t), Acquire(t)
  PROVE  WalkInv(t)' /\ Typed' /\ ~ fault'
<1> DEFINE w1 == [th[t] EXCEPT !.pc = "tally"]
           w2 == [th[t] EXCEPT !.pc = "find", !.at = dam_pool_list]
           w3 == [th[t] EXCEPT !.pc = "search", !.at = dam_pool_list]
           w4 == [th[t] EXCEPT !.pc = "map"]
<1>1. /\ th[t].pc = "lock" /\ UNCHANGED <<program, pool, registered, fault>>
      /\ \/ th[t].call = "snapshot" /\ th' = [th EXCEPT ![t] = w1]
         \/ th[t].call = "free" /\ th' = [th EXCEPT ![t] = w2]
         \/ th' = [th EXCEPT ![t] = w3]
         \/ th' = [th EXCEPT ![t] = w4]
  BY DEF Acquire, Enter, Step, WalkFromHead, Goto, At, Memory
<1>2. /\ w1 \in Thread /\ w1.pc = "tally" /\ w1.at = th[t].at
      /\ w2 \in Thread /\ w2.pc = "find" /\ w2.at = dam_pool_list /\ w2.old = th[t].old
      /\ w3 \in Thread /\ w3.pc = "search" /\ w3.at = dam_pool_list
      /\ w4 \in Thread /\ w4.pc = "map"
  BY Basics, ThreadFields, ZenonT(40) DEF Thread, PCs
<1>3. th[t].call = "snapshot" => th[t].at \in Listed \cup {NULL}
  BY <1>1 DEF WalkInv
<1>4. th[t].call = "free" => th[t].old \in Listed
  BY <1>1 DEF RInv, ThreadInv, OldInv, Holds
<1> HIDE DEF w1, w2, w3, w4
<1> QED BY <1>1, <1>2, <1>3, <1>4, WalkFacts, OwnWalk

\* One more step of a walk of the whole list.
LEMMA NextWalk ==
  ASSUME RInv, NEW t \in Threads, ~ fault, Typed, WalkInv(t),
         th[t].pc \in {"search", "count", "size", "tally"}, th[t].at # NULL,
         \/ Goto(t, [th[t] EXCEPT !.at = NextOf(t)])
         \/ Goto(t, [th[t] EXCEPT !.at = NextOf(t),
                                  !.count = IF @ < MAX_POOLS THEN @ + 1 ELSE @]),
         UNCHANGED <<program, pool, registered, fault>>
  PROVE  WalkInv(t)' /\ Typed' /\ ~ fault'
<1> DEFINE n == IF th[t].count < MAX_POOLS THEN th[t].count + 1 ELSE th[t].count
           w1 == [th[t] EXCEPT !.at = NextOf(t)]
           w2 == [th[t] EXCEPT !.at = NextOf(t), !.count = n]
<1>1. NextOf(t) \in Listed \cup {NULL}
  BY WalkFacts DEF WalkInv, NextOf
<1>2. NextOf(t) \in Cells /\ n \in 0 .. MAX_POOLS
  BY <1>1, ListFacts, Basics, ThreadFields DEF Cells
<1>3. th' = [th EXCEPT ![t] = w1] \/ th' = [th EXCEPT ![t] = w2]
  BY DEF Goto
<1> HIDE DEF n
<1>4. /\ w1 \in Thread /\ w1.pc = th[t].pc /\ w1.at = NextOf(t)
      /\ w2 \in Thread /\ w2.pc = th[t].pc /\ w2.at = NextOf(t)
  BY <1>2, ThreadFields DEF Thread
<1> HIDE DEF w1, w2
<1> QED BY <1>1, <1>3, <1>4, OwnWalk

\* A request fails, or a call returns.
LEMMA EndWalk ==
  ASSUME RInv, NEW t \in Threads, ~ fault, Typed,
         \/ Goto(t, Idle) \/ Step(t, "ready") \/ Step(t, "map")
         \/ WalkFromHead(t, "count") \/ WalkFromHead(t, "size"),
         UNCHANGED <<program, pool, registered, fault>>
  PROVE  WalkInv(t)' /\ Typed' /\ ~ fault'
<1> DEFINE w1 == [th[t] EXCEPT !.pc = "ready"]
           w2 == [th[t] EXCEPT !.pc = "map"]
           w3 == [th[t] EXCEPT !.pc = "count", !.at = dam_pool_list]
           w4 == [th[t] EXCEPT !.pc = "size", !.at = dam_pool_list]
<1>1. \/ th' = [th EXCEPT ![t] = Idle] \/ th' = [th EXCEPT ![t] = w1]
      \/ th' = [th EXCEPT ![t] = w2] \/ th' = [th EXCEPT ![t] = w3]
      \/ th' = [th EXCEPT ![t] = w4]
  BY DEF Goto, Step, WalkFromHead
<1>2. /\ w1 \in Thread /\ w1.pc = "ready" /\ w2 \in Thread /\ w2.pc = "map"
      /\ w3 \in Thread /\ w3.pc = "count" /\ w3.at = dam_pool_list
      /\ w4 \in Thread /\ w4.pc = "size" /\ w4.at = dam_pool_list
  BY Basics, ThreadFields, ZenonT(40) DEF Thread, PCs
<1> HIDE DEF w1, w2, w3, w4
<1> QED BY <1>1, <1>2, WalkFacts, IdleThread, OwnWalk

\* The pools are searched, counted, measured, and counted up by a snapshot.
LEMMA LongWalks ==
  ASSUME RInv, NEW t \in Threads, ~ fault, Typed, WalkInv(t),
         Search(t) \/ Count(t) \/ Size(t) \/ Tally(t)
  PROVE  WalkInv(t)' /\ Typed' /\ ~ fault'
<1>1. UNCHANGED <<program, pool, registered, fault>>
  BY DEF Search, Count, Size, Tally, OnlyThreads, Memory
<1>2. CASE Search(t)
  <2>1. Reads(t, "search") => th[t].at # NULL /\ th[t].pc = "search"
    BY ListFacts, Basics DEF Reads, At, RInv, TypeOK
  <2> QED BY <1>1, <1>2, <2>1, NextWalk, EndWalk DEF Search, Return
<1>3. CASE Count(t)
  <2>1. Reads(t, "count") => th[t].at # NULL /\ th[t].pc = "count"
    BY ListFacts, Basics DEF Reads, At, RInv, TypeOK
  <2> QED BY <1>1, <1>3, <2>1, NextWalk, EndWalk DEF Count, Fail, Return
<1>4. CASE Tally(t)
  <2>1. CASE Reads(t, "tally") /\ Goto(t, [th[t] EXCEPT !.at = NextOf(t)])
    <3>1. th[t].at # NULL /\ th[t].pc = "tally"
      BY <2>1, ListFacts, Basics DEF Reads, At, RInv, TypeOK
    <3> QED BY <1>1, <2>1, <3>1, NextWalk
  <2>2. CASE Goto(t, Idle)
    BY <1>1, <2>2, EndWalk
  <2>3. CASE Goto(t, [th[t] EXCEPT !.pc = "lock", !.layer = After(@), !.at = dam_pool_list])
    <3> DEFINE w == [th[t] EXCEPT !.pc = "lock", !.layer = After(th[t].layer),
                                  !.at = dam_pool_list]
    <3>1. w \in Thread /\ w.pc = "lock" /\ w.at = dam_pool_list
      BY Basics, ThreadFields, ZenonT(40) DEF Thread, PCs, After, Layers
    <3>2. th' = [th EXCEPT ![t] = w]
      BY <2>3 DEF Goto
    <3> HIDE DEF w
    <3> QED BY <1>1, <3>1, <3>2, WalkFacts, OwnWalk
  <2> QED BY <1>4, <2>1, <2>2, <2>3 DEF Tally
<1>5. CASE Size(t)
  <2>1. Reads(t, "size") => th[t].at # NULL /\ th[t].pc = "size"
    BY ListFacts, Basics DEF Reads, At, RInv, TypeOK
  <2> QED BY <1>1, <1>5, <2>1, NextWalk, EndWalk DEF Size
<1> QED BY <1>2, <1>3, <1>4, <1>5

\* A pool is made.
LEMMA MapWalk ==
  ASSUME RInv, NEW t \in Threads, ~ fault, Typed, Map(t)
  PROVE  WalkInv(t)' /\ Typed' /\ ~ fault'
<1>1. UNCHANGED <<program, registered, fault>> /\ Listed' = Listed
  BY DEF Map, Listed
<1>2. CASE Fail(t) /\ UNCHANGED pool
  BY <1>1, <1>2, EndWalk DEF Fail, Return
<1>3. ASSUME NEW p \in Pools \ DOMAIN pool,
             pool' = [q \in DOMAIN pool \cup {p} |-> IF q = p THEN Blank ELSE pool[q]],
             Goto(t, [th[t] EXCEPT !.pc = "link", !.new = p])
      PROVE  WalkInv(t)' /\ Typed' /\ ~ fault'
  <2>1. \A q \in Listed : pool'[q] = pool[q]
    BY <1>3, ListFacts
  <2>2. th'[t].pc = "link"
    BY <1>3, Basics, ThreadFields DEF Goto, Thread
  <2> QED BY <1>1, <2>1, <2>2 DEF WalkInv, Typed
<1> QED BY <1>2, <1>3 DEF Map

\* Its header is filled in.
LEMMA LinkWalk ==
  ASSUME RInv, NEW t \in Threads, ~ fault, Typed, Link(t)
  PROVE  WalkInv(t)' /\ Typed' /\ ~ fault'
<1>1. th[t].new \in DOMAIN pool /\ th[t].new \notin Listed
  BY DEF RInv, ThreadInv, NewInv, ScanInv, Link, At
<1> DEFINE h == [type |-> IF th[t].init THEN "GENERAL" ELSE th[t].layer, next |-> dam_pool_list]
           w == [th[t] EXCEPT !.pc = "publish"]
<1>2. pool' = [pool EXCEPT ![th[t].new] = h] /\ th' = [th EXCEPT ![t] = w]
      /\ UNCHANGED <<program, registered, fault>>
  BY DEF Link, Step, Goto
<1>3. h.type \in Layers /\ w.pc = "publish" /\ w.new = th[t].new
  BY ThreadFields DEF Layers, Thread
<1> HIDE DEF h, w
<1>4. th'[t] = w /\ Listed' = Listed
  BY <1>2, Basics DEF Listed
<1>5. pool'[th[t].new] = h /\ \A q \in Listed : pool'[q] = pool[q]
  BY <1>1, <1>2, ListFacts DEF RInv, TypeOK
<1> QED BY <1>2, <1>3, <1>4, <1>5 DEF WalkInv, Typed

\* It is registered.
LEMMA PublishWalk ==
  ASSUME DisciplinedPrograms, RInv, NEW t \in Threads, ~ fault, Typed, WalkInv(t), Publish(t)
  PROVE  WalkInv(t)' /\ Typed' /\ ~ fault'
<1>1. /\ registered' \in Seq(Pools) /\ Listed' = Listed \cup {th[t].new}
      /\ th[t].new \in Pools /\ th[t].new \notin Listed
  BY PublishList
<1>2. pool[th[t].new].type \in Layers
  BY DEF Publish, At, WalkInv
<1>3. UNCHANGED <<program, pool, fault>>
  BY DEF Publish
<1>4. Typed'
  BY <1>1, <1>2, <1>3 DEF Typed
<1> DEFINE w1 == [th[t] EXCEPT !.pc = "ready"]
           w2 == [th[t] EXCEPT !.pc = "again"]
<1>5. w1.pc = "ready" /\ w2.pc = "again"
  BY ThreadFields DEF Thread
<1>6. \/ th' = [th EXCEPT ![t] = Idle] \/ th' = [th EXCEPT ![t] = w1]
      \/ th' = [th EXCEPT ![t] = w2]
  BY PublishEnds DEF Return, Goto
<1> HIDE DEF w1, w2
<1>7. th'[t] = Idle \/ th'[t] = w1 \/ th'[t] = w2
  BY <1>6, Basics
<1> QED BY <1>3, <1>4, <1>5, <1>7, IdleThread DEF WalkInv

\* The walks begin once more.
LEMMA AgainWalk ==
  ASSUME RInv, NEW t \in Threads, ~ fault, Typed, Again(t)
  PROVE  WalkInv(t)' /\ Typed' /\ ~ fault'
<1> DEFINE pc == IF th[t].call = "malloc" THEN "search" ELSE "find"
           w == [th[t] EXCEPT !.pc = pc, !.at = dam_pool_list]
<1>1. /\ ThreadInv(t) /\ th[t].pc = "again" /\ th' = [th EXCEPT ![t] = w]
      /\ UNCHANGED <<program, pool, registered, fault>>
  BY DEF RInv, Again, At, WalkFromHead, Goto, OnlyThreads, Memory
<1>2. pc \in {"search", "find"} /\ pc \in PCs /\ (pc = "find" => th[t].call # "malloc")
  BY DEF PCs
<1> HIDE DEF pc
<1>3. w \in Thread /\ w.pc = pc /\ w.at = dam_pool_list /\ w.old = th[t].old
  BY <1>2, Basics, ThreadFields, ZenonT(40) DEF Thread
<1>4. pc = "find" => th[t].old \in Listed
  BY <1>1, <1>2, ThreadFields DEF ThreadInv, LocksInv, OldInv, Holds
<1> HIDE DEF w
<1>5. /\ w.pc \notin {"foreign", "publish", "unmap", "lock"}
      /\ w.pc \in {"search", "count", "size", "tally"} => w.at \in Listed \cup {NULL}
      /\ w.pc \in {"lookup", "find"} => \E i, j \in DOMAIN registered :
           i <= j /\ registered[i] = w.at /\ registered[j] = w.old
  BY <1>2, <1>3, <1>4, WalkFacts
<1> QED BY <1>1, <1>3, <1>5, OwnWalk

\* A walk that looks for a pool is at one, and has not passed what it looks for.
LEMMA OnTheWay ==
  ASSUME RInv, NEW t \in Threads, Typed, WalkInv(t), th[t].pc \in {"lookup", "find"}
  PROVE  /\ th[t].at \in DOMAIN pool /\ th[t].at # NULL
         /\ th[t].at = th[t].old => Found(t)
         /\ ~ Found(t) => /\ NextOf(t) \in Cells
                          /\ \E i, j \in DOMAIN registered :
                               /\ i <= j
                               /\ registered[i] = NextOf(t)
                               /\ registered[j] = th[t].old
<1>1. PICK i, j \in DOMAIN registered :
        i <= j /\ registered[i] = th[t].at /\ registered[j] = th[t].old
  BY DEF WalkInv
<1>2. th[t].at \in Listed /\ th[t].at \in DOMAIN pool /\ th[t].at # NULL
  BY <1>1, ListFacts
<1>3. th[t].at = th[t].old => Found(t)
  BY <1>2 DEF Typed, Found, Layers
<1>4. ASSUME ~ Found(t)
      PROVE  i + 1 \in DOMAIN registered /\ i + 1 <= j /\ registered[i + 1] = NextOf(t)
  BY <1>1, <1>3, <1>4, WalkFacts DEF NextOf
<1>5. ~ Found(t) => NextOf(t) \in Cells
  BY <1>4, ListFacts DEF Cells
<1> QED BY <1>1, <1>2, <1>3, <1>4, <1>5

\* dam_pool_from_ptr finds what it looks for, without the lock and with it.
LEMMA FindWalk ==
  ASSUME RInv, NEW t \in Threads, ~ fault, Typed, WalkInv(t), Lookup(t) \/ Find(t)
  PROVE  WalkInv(t)' /\ Typed' /\ ~ fault'
<1>1. /\ th[t].pc \in {"lookup", "find"}
      /\ th[t].at \in DOMAIN pool /\ th[t].at # NULL
      /\ ~ Found(t) => /\ NextOf(t) \in Cells
                       /\ \E i, j \in DOMAIN registered :
                            i <= j /\ registered[i] = NextOf(t) /\ registered[j] = th[t].old
  BY OnTheWay DEF Lookup, Find, Reads, At
<1>2. UNCHANGED <<program, pool, registered, fault>>
  BY <1>1 DEF Lookup, Find, OnlyThreads, Memory
<1>3. CASE ~ Found(t) /\ Goto(t, [th[t] EXCEPT !.at = NextOf(t)])
  <2> DEFINE w == [th[t] EXCEPT !.at = NextOf(t)]
  <2>1. w \in Thread /\ w.pc = th[t].pc /\ w.at = NextOf(t) /\ w.old = th[t].old
    BY <1>1, <1>3, ThreadFields DEF Thread
  <2>2. th' = [th EXCEPT ![t] = w]
    BY <1>3 DEF Goto
  <2> HIDE DEF w
  <2> QED BY <1>1, <1>2, <1>3, <2>1, <2>2, OwnWalk
<1>4. CASE Goto(t, [th[t] EXCEPT !.pc = "scan", !.at = NULL])
  <2> DEFINE w == [th[t] EXCEPT !.pc = "scan", !.at = NULL]
  <2>1. w \in Thread /\ w.pc = "scan"
    BY ThreadFields, ZenonT(40) DEF Thread, PCs, Cells
  <2>2. th' = [th EXCEPT ![t] = w]
    BY <1>4 DEF Goto
  <2> HIDE DEF w
  <2> QED BY <1>2, <2>1, <2>2, OwnWalk
<1>5. CASE Goto(t, Idle)
  BY <1>2, <1>5, EndWalk
<1>6. CASE /\ th[t].pc = "lookup"
           /\ Goto(t, [th[t] EXCEPT !.pc = "lock", !.layer = "DIRECT"])
  <2> DEFINE w == [th[t] EXCEPT !.pc = "lock", !.layer = "DIRECT"]
  <2>1. w \in Thread /\ w.pc = "lock" /\ w.call = th[t].call
    BY ThreadFields DEF Thread, PCs, Layers
  <2>2. th[t].call # "snapshot"
    BY <1>6 DEF RInv, ThreadInv, LocksInv
  <2>3. th' = [th EXCEPT ![t] = w]
    BY <1>6 DEF Goto
  <2> HIDE DEF w
  <2> QED BY <1>2, <2>1, <2>2, <2>3, OwnWalk
<1>7. CASE Lookup(t)
  BY <1>1, <1>3, <1>5, <1>6, <1>7 DEF Lookup, Reads, At
<1>8. CASE Find(t)
  BY <1>1, <1>3, <1>4, <1>8 DEF Find, Reads, At
<1> QED BY <1>7, <1>8

\* dam_unregister_pool finds the cell.
LEMMA ScanWalk ==
  ASSUME RInv, NEW t \in Threads, ~ fault, Typed, Scan(t)
  PROVE  WalkInv(t)' /\ Typed' /\ ~ fault'
<1>1. th[t].pc = "scan" /\ UNCHANGED <<program, pool, registered, fault>>
  BY DEF Scan, At, OnlyThreads, Memory
<1>2. Cell(t) \in Pools /\ Cell(t) # NULL
  BY <1>1, ScanCell, ListFacts
<1> DEFINE w1 == [th[t] EXCEPT !.at = Cell(t)]
           w2 == [th[t] EXCEPT !.pc = "unlink"]
<1>3. th' = [th EXCEPT ![t] = w1] \/ th' = [th EXCEPT ![t] = w2]
  BY <1>2 DEF Scan, Step, Goto
<1>4. w1 \in Thread /\ w1.pc = "scan" /\ w2 \in Thread /\ w2.pc = "unlink"
  BY <1>1, <1>2, ThreadFields DEF Thread, PCs, Cells
<1> HIDE DEF w1, w2
<1> QED BY <1>1, <1>3, <1>4, OwnWalk

\* The pool is unlinked.
LEMMA UnlinkWalk ==
  ASSUME DisciplinedPrograms, RInv, NEW t \in Threads, ~ fault, Typed, Unlink(t)
  PROVE  WalkInv(t)' /\ Typed' /\ ~ fault'
<1>1. /\ ThreadInv(t) /\ th[t].pc = "unlink" /\ UNCHANGED <<program, fault>>
      /\ th' = [th EXCEPT ![t] = [th[t] EXCEPT !.pc = "unmap"]]
  BY DEF RInv, Unlink, At, Step, Goto
<1>2. /\ Listed' = Listed \ {th[t].old} /\ DOMAIN pool' = DOMAIN pool
      /\ \A p \in DOMAIN pool : pool'[p].type = pool[p].type
  BY UnlinkList
<1>3. th[t].old \in Listed /\ "DIRECT" \in program.layers
  BY <1>1 DEF ThreadInv, LocksInv, OldInv
<1>4. th[t].old \in DOMAIN pool'
  BY <1>2, <1>3, ListFacts
<1>5. Typed'
  BY <1>2, ListFacts DEF Typed
<1>6. th'[t].pc = "unmap" /\ th'[t].old = th[t].old
  BY <1>1, Basics, ThreadFields DEF Thread
<1> QED BY <1>1, <1>3, <1>4, <1>5, <1>6 DEF WalkInv

\* It is unmapped.
LEMMA UnmapWalk ==
  ASSUME RInv, NEW t \in Threads, ~ fault, Typed, Unmap(t)
  PROVE  WalkInv(t)' /\ Typed' /\ ~ fault'
<1>1. /\ th[t].old \notin Listed /\ UNCHANGED <<registered, fault>>
      /\ pool' = [q \in DOMAIN pool \ {th[t].old} |-> pool[q]]
      /\ th' = [th EXCEPT ![t] = Idle]
  BY DEF RInv, ThreadInv, LocksInv, OldInv, Unmap, At, Return, Goto
<1>2. Listed' = Listed /\ \A p \in Listed : pool'[p] = pool[p]
  BY <1>1, ListFacts DEF Listed
<1>3. Typed'
  BY <1>2 DEF Typed
<1>4. th'[t] = Idle
  BY <1>1, Basics
<1> QED BY <1>1, <1>3, <1>4, IdleThread DEF WalkInv

\* No walk is where nothing is mapped.
LEMMA NoneDangles ==
  ASSUME RInv, NEW t \in Threads, Typed, WalkInv(t)
  PROVE  ~ Dangling(t) /\ ~ Foreign(t)
<1>1. th[t].pc # "foreign"
  BY DEF WalkInv
<1>2. th[t].pc \in {"search", "count", "size", "tally"} => th[t].at \in DOMAIN pool \cup {NULL}
  BY ListFacts DEF WalkInv
<1>3. th[t].pc \in {"lookup", "find"} => th[t].at \in DOMAIN pool
  BY OnTheWay
<1>4. th[t].pc \in {"scan", "unlink"} => th[t].at \in DOMAIN pool \cup {NULL}
  <2>1. ScanInv(t)
    BY DEF RInv, ThreadInv
  <2> QED BY <2>1, ListFacts DEF ScanInv
<1>5. th[t].pc \in {"unlink", "unmap"} => th[t].old \in DOMAIN pool
  <2>1. th[t].pc = "unlink" => th[t].old \in Listed
    BY DEF RInv, ThreadInv, LocksInv, OldInv
  <2> QED BY <2>1, ListFacts DEF WalkInv
<1> QED BY <1>1, <1>2, <1>3, <1>4, <1>5 DEF Dangling, Foreign, At

\* Of every step of a safe program.
LEMMA WalkStepSafe ==
  ASSUME DisciplinedPrograms, RInv, NEW t \in Threads, ~ fault, Typed, WalkInv(t),
         Begin(t) \/ Continue(t)
  PROVE  WalkInv(t)' /\ Typed' /\ ~ fault'
<1>1. CASE Begin(t)
  BY <1>1, BeginWalk
<1>2. CASE Check(t) \/ InitLocks(t) \/ Ready(t) \/ Acquire(t)
  BY <1>2, InitWalk, AcquireWalk
<1>3. CASE Search(t) \/ Count(t) \/ Size(t) \/ Tally(t)
  BY <1>3, LongWalks
<1>4. CASE Map(t) \/ Link(t) \/ Publish(t) \/ Again(t)
  BY <1>4, MapWalk, LinkWalk, PublishWalk, AgainWalk
<1>5. CASE Lookup(t) \/ Find(t) \/ Scan(t)
  BY <1>5, FindWalk, ScanWalk
<1>6. CASE Unlink(t) \/ Unmap(t)
  BY <1>6, UnlinkWalk, UnmapWalk
<1>7. ~ Dangling(t) /\ ~ Foreign(t)
  BY NoneDangles
<1> QED BY <1>1, <1>2, <1>3, <1>4, <1>5, <1>6, <1>7 DEF Continue

\* The walks stay on the list.
LEMMA WInvStep ==
  ASSUME DisciplinedPrograms, RInv, RInv', WInv, NEW t \in Threads, Begin(t) \/ Continue(t)
  PROVE  WInv'
<1>1. program' = program
  BY UnchangedProgram
<1>2. SUFFICES ASSUME Safe PROVE ~ fault' /\ Typed' /\ \A u \in Threads : WalkInv(u)'
  BY <1>1 DEF WInv, Safe
<1>3. ~ fault /\ Typed /\ \A u \in Threads : WalkInv(u)
  BY <1>2 DEF WInv
<1>4. WalkInv(t)' /\ Typed' /\ ~ fault'
  BY <1>3, WalkStepSafe
<1>5. registered' \in Seq(Pools)
  BY DEF RInv, TypeOK
<1>6. ASSUME NEW u \in Threads, u # t PROVE WalkInv(u)'
  BY <1>2, <1>3, <1>5, <1>6, OthersWalk
<1> QED BY <1>4, <1>6

\* No walk of the list, taken without a lock or with one, reads a pool that is not mapped
\* any more, and none misses the pool of a pointer its client holds, for any number of
\* threads and pools: while the threads of the program take turns, or one layer that
\* unmaps nothing is used (dam_pool_from_ptr, dam_free, dam_realloc, dam_snapshot).
THEOREM LookupsAlwaysSafe ==
  ASSUME DisciplinedPrograms
  PROVE  Spec => []LookupsSafe
<1>1. Init => RInv /\ WInv
  <2> SUFFICES ASSUME Init PROVE RInv /\ WInv
    OBVIOUS
  <2>1. Listed = {} /\ ~ fault /\ \A t \in Threads : th[t] = Idle
    BY DEF Init, Listed
  <2>2. WInv
    BY <2>1, IdleThread DEF WInv, Typed, WalkInv
  <2> QED BY <2>2, RInvInit
<1>2. (RInv /\ WInv) /\ [Next]_vars => (RInv /\ WInv)'
  <2> SUFFICES ASSUME RInv, WInv, [Next]_vars PROVE RInv' /\ WInv'
    OBVIOUS
  <2>1. RInv'
    BY RInvNext
  <2>2. CASE UNCHANGED vars
    BY <2>1, <2>2 DEF vars, WInv, Safe, Typed, WalkInv, Listed
  <2>3. CASE Next
    <3>1. ASSUME NEW t \in Threads, Begin(t) \/ Continue(t) PROVE WInv'
      BY <2>1, <3>1, WInvStep
    <3> QED BY <2>1, <2>2, <2>3, <3>1 DEF Next, Died
  <2> QED BY <2>1, <2>2, <2>3
<1>3. RInv /\ WInv => LookupsSafe
  BY DEF WInv, Safe, LookupsSafe, LookupsFind, WalkInv, At
<1> QED BY <1>1, <1>2, <1>3, PTL DEF Spec

=============================================================================
