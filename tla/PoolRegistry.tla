----------------------------- MODULE PoolRegistry -----------------------------
(***************************************************************************)
(* dam_pool_list, the one linked list of the pools of all three layers     *)
(* (src/util/util.c), with the calls that read and write it, at the grain  *)
(* of memory accesses: a thread reads one cell or one header per step.     *)
(*                                                                         *)
(* Each layer has a lock of its own; what finds a pool for a pointer takes *)
(* none; and the first call initialises the allocator (dam_init), again    *)
(* without a lock.  Which of this is harmless depends on the program, so   *)
(* a behaviour begins by choosing one: the layers it uses, whether its     *)
(* threads take turns, whether it initialises before it starts threads,    *)
(* and whether the pages of its machine have the size PAGE_SIZE says.      *)
(***************************************************************************)
EXTENDS Integers, Sequences

CONSTANTS
  Threads,
  NoThread,
  Pools,      \* where mmap may put a pool
  NULL,
  MAX_POOLS,
  Programs    \* records [layers, snapshots, turns, init, pages]

Layers == {"SMALL", "GENERAL", "DIRECT"}

ASSUME RegistryAssumption ==
  /\ NoThread \notin Threads
  /\ NULL \notin Pools
  /\ MAX_POOLS \in Nat
  /\ Programs \subseteq [layers: SUBSET Layers, snapshots: BOOLEAN, turns: BOOLEAN,
                          init: BOOLEAN, pages: BOOLEAN]

VARIABLES
  program,
  dam_pool_list,         \* the head of the list
  pool,                  \* the mapped pools: what their headers say
  owner,                 \* the locks
  dam_lock_initialized,
  initialized,
  th,                    \* the threads
  inuse,                 \* the pools some client has a pointer into
  registered,            \* history: the pools registered, newest first
  fault                  \* a thread read a pool that is not mapped, and all died

vars == <<program, dam_pool_list, pool, owner, dam_lock_initialized, initialized, th,
          inuse, registered, fault>>

\* A fresh mapping is zero.
Blank == [type |-> "NONE", next |-> NULL]

Cells == Pools \cup {NULL}

Idle ==
  [pc |-> "idle", call |-> "malloc", layer |-> "SMALL", init |-> FALSE,
   at |-> NULL, count |-> 0, new |-> NULL, old |-> NULL]

PCs == {"idle", "check", "locks", "lock", "search", "count", "size", "map", "link",
        "publish", "again", "ready", "lookup", "foreign", "find", "scan", "unlink", "unmap",
        "tally"}

Thread ==
  [pc: PCs, call: {"malloc", "free", "realloc", "snapshot"}, layer: Layers, init: BOOLEAN,
   at: Cells, count: 0 .. MAX_POOLS, new: Cells, old: Cells]

TypeOK ==
  /\ program \in Programs
  /\ dam_pool_list \in Cells
  /\ pool \in [DOMAIN pool -> [type: Layers \cup {"NONE"}, next: Cells]]
  /\ DOMAIN pool \subseteq Pools
  /\ owner \in [Layers -> Threads \cup {NoThread}]
  /\ dam_lock_initialized \in BOOLEAN
  /\ initialized \in BOOLEAN
  /\ th \in [Threads -> Thread]
  /\ inuse \subseteq Pools
  /\ registered \in Seq(Pools)
  /\ fault \in BOOLEAN

-----------------------------------------------------------------------------
\* How a thread's step ends.

At(t, pc) == th[t].pc = pc

Goto(t, state) == th' = [th EXCEPT ![t] = state]

Step(t, pc) == Goto(t, [th[t] EXCEPT !.pc = pc])

\* On to a walk of the list, from its head.
WalkFromHead(t, pc) == Goto(t, [th[t] EXCEPT !.pc = pc, !.at = dam_pool_list])

\* Unlock and return, leaving the client a pointer into each of these pools.
Return(t, kept) ==
  /\ Goto(t, Idle)
  /\ owner' = [owner EXCEPT ![th[t].layer] = NoThread]
  /\ inuse' = inuse \cup (kept \ {NULL})

Fault ==
  /\ fault' = TRUE
  /\ UNCHANGED <<program, dam_pool_list, pool, owner, dam_lock_initialized, initialized, th,
                 inuse, registered>>

\* Everything but the threads, the locks and what clients hold.
Memory == <<program, dam_pool_list, pool, dam_lock_initialized, initialized, registered, fault>>
OnlyThreads == UNCHANGED <<Memory, owner, inuse>>

-----------------------------------------------------------------------------
\* A thread begins a call.

\* The program lets it: its threads take turns, or the first one initialises.  Where the
\* pages have another size, nothing is ever initialised, so that no first call is either.
MayBegin(t) ==
  /\ At(t, "idle")
  /\ program.turns \/ (program.init /\ program.pages /\ ~ initialized)
       => \A u \in Threads : At(u, "idle")

\* dam_malloc, when no mapped pool has room for the request.
Malloc(t, layer) ==
  /\ MayBegin(t)
  /\ layer \in program.layers
  /\ Goto(t, [Idle EXCEPT !.pc = IF initialized THEN "lock" ELSE "check", !.layer = layer])
  /\ OnlyThreads

\* dam_free and dam_realloc of a pointer into pool p.  The blocks of the small and
\* general layers are another module's: here their pool stays in use.
FreeOrRealloc(t, call, p) ==
  /\ MayBegin(t)
  /\ p \in inuse
  /\ pool[p].type \in program.layers
  /\ call = "realloc" => pool[p].type = "DIRECT"
  /\ inuse' = IF pool[p].type = "DIRECT" THEN inuse \ {p} ELSE inuse
  /\ Goto(t, [Idle EXCEPT !.pc = "lookup", !.call = call, !.at = dam_pool_list, !.old = p])
  /\ UNCHANGED <<Memory, owner>>

\* dam_snapshot: each layer's walk reads the head before it takes its lock.
Snapshot(t) ==
  /\ MayBegin(t)
  /\ program.snapshots
  /\ Goto(t, [Idle EXCEPT !.pc = "lock", !.call = "snapshot", !.at = dam_pool_list])
  /\ OnlyThreads

-----------------------------------------------------------------------------
\* dam_init.

\* Where verify_page_size fails, dam_malloc does not look at what dam_init returns and
\* goes on: with no class, lock or pool set up, and to ask again in the next call.
Check(t) ==
  /\ At(t, "check")
  /\ IF initialized \/ ~ program.pages THEN Step(t, "lock")
     ELSE IF dam_lock_initialized
       THEN Goto(t, [th[t] EXCEPT !.pc = "count", !.init = TRUE, !.at = dam_pool_list])
     ELSE Step(t, "locks")
  /\ OnlyThreads

\* pthread_mutex_init of a lock that is held leaves it free.
InitLocks(t) ==
  /\ At(t, "locks")
  /\ owner' = [l \in Layers |-> NoThread]
  /\ dam_lock_initialized' = TRUE
  /\ Goto(t, [th[t] EXCEPT !.pc = "count", !.init = TRUE, !.at = dam_pool_list])
  /\ UNCHANGED <<program, dam_pool_list, pool, initialized, inuse, registered, fault>>

\* dam_general_init is done, whether it got its pool or not.
Ready(t) ==
  /\ At(t, "ready")
  /\ initialized' = TRUE
  /\ Goto(t, [th[t] EXCEPT !.pc = "lock", !.init = FALSE, !.new = NULL, !.count = 0])
  /\ UNCHANGED <<program, dam_pool_list, pool, owner, dam_lock_initialized, inuse,
                 registered, fault>>

-----------------------------------------------------------------------------
\* Under the layer's lock.

\* What a call does first: a walk that looks for a pool or a block, or a new pool.
Enter(t) ==
  \/ th[t].call = "snapshot" /\ Step(t, "tally")
  \/ th[t].call = "free" /\ WalkFromHead(t, "find")
  \/ /\ th[t].call \in {"malloc", "realloc"}
     /\ IF th[t].layer = "GENERAL" THEN WalkFromHead(t, "search") ELSE Step(t, "map")

\* Mutant: dam_direct_malloc and dam_direct_free do not take the lock.
AcquireUnlocked(t) ==
  LET w == th[t]
  IN  /\ At(t, "lock")
      /\ w.layer = "DIRECT" \/ owner[w.layer] = NoThread
      /\ owner' = [owner EXCEPT ![w.layer] = t]
      /\ Enter(t)
      /\ UNCHANGED <<Memory, inuse>>

Acquire(t) ==
  LET w == th[t]
  IN  /\ At(t, "lock")
      /\ owner[w.layer] = NoThread
      /\ owner' = [owner EXCEPT ![w.layer] = t]
      /\ Enter(t)
      /\ UNCHANGED <<Memory, inuse>>

\* A walk that reads the header of the pool it is at.
Reads(t, pc) == At(t, pc) /\ th[t].at \in DOMAIN pool

NextOf(t) == pool[th[t].at].next

\* find_free_block_in_pools: some general pool may have a block that fits.  At the end
\* of the list, grow; after having grown, give up.
Search(t) ==
  \/ /\ Reads(t, "search")
     /\ pool[th[t].at].type = "GENERAL"
     /\ Return(t, {th[t].new})
     /\ UNCHANGED Memory
  \/ /\ Reads(t, "search")
     /\ Goto(t, [th[t] EXCEPT !.at = NextOf(t)])
     /\ OnlyThreads
  \/ /\ At(t, "search")
     /\ th[t].at = NULL
     /\ th[t].new = NULL
     /\ WalkFromHead(t, "count")
     /\ OnlyThreads
  \/ /\ At(t, "search")
     /\ th[t].at = NULL
     /\ th[t].new # NULL
     /\ Return(t, {th[t].new})
     /\ UNCHANGED Memory

\* Mutant: an early return that keeps the lock.
FailLocked(t) ==
  IF th[t].init THEN Step(t, "ready") /\ UNCHANGED <<owner, inuse>>
  ELSE Goto(t, Idle) /\ inuse' = inuse \cup ({th[t].old} \ {NULL}) /\ UNCHANGED owner

\* The request fails; a realloc leaves its client what it had.
Fail(t) ==
  IF th[t].init THEN Step(t, "ready") /\ UNCHANGED <<owner, inuse>>
  ELSE Return(t, {th[t].old})

\* create_general_pool counts the pools, as far as MAX_POOLS matters ...
Count(t) ==
  \/ /\ Reads(t, "count")
     /\ Goto(t, [th[t] EXCEPT !.at = NextOf(t),
                              !.count = IF @ < MAX_POOLS THEN @ + 1 ELSE @])
     /\ OnlyThreads
  \/ /\ At(t, "count")
     /\ th[t].at = NULL
     /\ IF th[t].count < MAX_POOLS
        THEN WalkFromHead(t, "size") /\ UNCHANGED <<owner, inuse>>
        ELSE Fail(t)
     /\ UNCHANGED Memory

\* ... and calculate_next_pool_size looks for the largest.
Size(t) ==
  /\ \/ Reads(t, "size") /\ Goto(t, [th[t] EXCEPT !.at = NextOf(t)])
     \/ At(t, "size") /\ th[t].at = NULL /\ Step(t, "map")
  /\ OnlyThreads

\* mmap, which may fail.
Map(t) ==
  /\ At(t, "map")
  /\ \/ \E p \in Pools \ DOMAIN pool :
          /\ pool' = [q \in DOMAIN pool \cup {p} |-> IF q = p THEN Blank ELSE pool[q]]
          /\ Goto(t, [th[t] EXCEPT !.pc = "link", !.new = p])
          /\ UNCHANGED <<owner, inuse>>
     \/ Fail(t) /\ UNCHANGED pool
  /\ UNCHANGED <<program, dam_pool_list, dam_lock_initialized, initialized, registered, fault>>

\* The header is filled in; dam_register_pool reads the head ...
Link(t) ==
  /\ At(t, "link")
  /\ pool' = [pool EXCEPT ![th[t].new] =
       [type |-> IF th[t].init THEN "GENERAL" ELSE th[t].layer, next |-> dam_pool_list]]
  /\ Step(t, "publish")
  /\ UNCHANGED <<program, dam_pool_list, owner, dam_lock_initialized, initialized, inuse,
                 registered, fault>>

\* ... and writes it.
Publish(t) ==
  LET w == th[t]
  IN  /\ At(t, "publish")
      /\ dam_pool_list' = w.new
      /\ registered' = <<w.new>> \o registered
      /\ \/ w.init /\ Step(t, "ready") /\ inuse' = inuse \cup {w.new} /\ UNCHANGED owner
         \/ ~ w.init /\ w.call = "malloc" /\ w.layer # "GENERAL" /\ Return(t, {w.new})
         \/ /\ ~ w.init
            /\ w.layer = "GENERAL" \/ w.call = "realloc"
            /\ Step(t, "again")
            /\ UNCHANGED <<owner, inuse>>
      /\ UNCHANGED <<program, pool, dam_lock_initialized, initialized, fault>>

\* The head is read again: malloc searches the general pools once more, a realloc that
\* moved the block looks for the pool to free.
Again(t) ==
  /\ At(t, "again")
  /\ WalkFromHead(t, IF th[t].call = "malloc" THEN "search" ELSE "find")
  /\ OnlyThreads

-----------------------------------------------------------------------------
\* dam_pool_from_ptr: the walk is at the pool it looks for.
Found(t) == th[t].at = th[t].old /\ pool[th[t].at].type # "NONE"

\* Without a lock, to route the call.
Lookup(t) ==
  /\ \/ /\ Reads(t, "lookup")
        /\ ~ Found(t)
        /\ Goto(t, [th[t] EXCEPT !.at = NextOf(t)])
     \/ /\ Reads(t, "lookup")
        /\ Found(t)
        /\ Goto(t, IF pool[th[t].old].type = "DIRECT"
                   THEN [th[t] EXCEPT !.pc = "lock", !.layer = "DIRECT"] ELSE Idle)
     \/ At(t, "lookup") /\ th[t].at = NULL /\ Step(t, "foreign")
  /\ OnlyThreads

\* "Pointer does not belong to DAM": the call returns.
Foreign(t) ==
  /\ At(t, "foreign")
  /\ Goto(t, Idle)
  /\ inuse' = IF th[t].call = "realloc" THEN inuse \cup {th[t].old} ELSE inuse
  /\ UNCHANGED <<Memory, owner>>

\* Under direct_lock, in dam_direct_free_internal.  Where the pool is not found, the
\* size of the pool at NULL is read.
Find(t) ==
  \/ Reads(t, "find") /\ ~ Found(t) /\ Goto(t, [th[t] EXCEPT !.at = NextOf(t)]) /\ OnlyThreads
  \/ /\ Reads(t, "find")
     /\ Found(t)
     /\ Goto(t, [th[t] EXCEPT !.pc = "scan", !.at = NULL])
     /\ OnlyThreads
  \/ At(t, "find") /\ th[t].at = NULL /\ Fault

\* dam_unregister_pool: at is the pool whose next is looked at, NULL for the head.
Cell(t) == IF th[t].at = NULL THEN dam_pool_list ELSE pool[th[t].at].next

Scan(t) ==
  /\ At(t, "scan")
  /\ th[t].at \in DOMAIN pool \cup {NULL}
  /\ \/ Cell(t) \notin {th[t].old, NULL} /\ Goto(t, [th[t] EXCEPT !.at = Cell(t)])
     \/ Cell(t) = th[t].old /\ Step(t, "unlink")
     \/ Cell(t) = NULL /\ Step(t, "unmap")
  /\ OnlyThreads

\* The pools of s but p.
Without(s, p) ==
  LET k == CHOOSE i \in DOMAIN s : s[i] = p
  IN  IF \A i \in DOMAIN s : s[i] # p THEN s
      ELSE [i \in 1 .. Len(s) - 1 |-> IF i < k THEN s[i] ELSE s[i + 1]]

\* Mutant: the cell found is left as it is.
UnlinkNothing(t) ==
  /\ At(t, "unlink")
  /\ registered' = Without(registered, th[t].old)
  /\ Step(t, "unmap")
  /\ UNCHANGED <<program, dam_pool_list, pool, owner, dam_lock_initialized, initialized,
                 inuse, fault>>

\* The cell found takes the pool's next.
Unlink(t) ==
  /\ At(t, "unlink")
  /\ IF th[t].at = NULL
     THEN dam_pool_list' = pool[th[t].old].next /\ UNCHANGED pool
     ELSE /\ th[t].at \in DOMAIN pool
          /\ pool' = [pool EXCEPT ![th[t].at] = [@ EXCEPT !.next = pool[th[t].old].next]]
          /\ UNCHANGED dam_pool_list
  /\ registered' = Without(registered, th[t].old)
  /\ Step(t, "unmap")
  /\ UNCHANGED <<program, owner, dam_lock_initialized, initialized, inuse, fault>>

Unmap(t) ==
  /\ At(t, "unmap")
  /\ pool' = [q \in DOMAIN pool \ {th[t].old} |-> pool[q]]
  /\ Return(t, {th[t].new})
  /\ UNCHANGED <<program, dam_pool_list, dam_lock_initialized, initialized, registered, fault>>

-----------------------------------------------------------------------------
\* The walks of dam_snapshot, one layer after the other.
After(layer) == IF layer = "SMALL" THEN "GENERAL" ELSE "DIRECT"

Tally(t) ==
  \/ Reads(t, "tally") /\ Goto(t, [th[t] EXCEPT !.at = NextOf(t)]) /\ OnlyThreads
  \/ /\ At(t, "tally")
     /\ th[t].at = NULL
     /\ owner' = [owner EXCEPT ![th[t].layer] = NoThread]
     /\ Goto(t, IF th[t].layer = "DIRECT" THEN Idle
                ELSE [th[t] EXCEPT !.pc = "lock", !.layer = After(@), !.at = dam_pool_list])
     /\ UNCHANGED <<Memory, inuse>>

\* A walk steps onto memory that is not mapped any more.
Dangling(t) ==
  /\ \/ /\ th[t].pc \in {"search", "count", "size", "lookup", "find", "scan", "unlink", "tally"}
        /\ th[t].at \notin DOMAIN pool \cup {NULL}
     \/ th[t].pc \in {"unlink", "unmap"} /\ th[t].old \notin DOMAIN pool
  /\ Fault

-----------------------------------------------------------------------------

Init ==
  /\ program \in Programs
  /\ dam_pool_list = NULL
  /\ pool = <<>>
  /\ owner = [l \in Layers |-> NoThread]
  /\ dam_lock_initialized = FALSE
  /\ initialized = FALSE
  /\ th = [t \in Threads |-> Idle]
  /\ inuse = {}
  /\ registered = <<>>
  /\ fault = FALSE

Begin(t) ==
  \/ \E layer \in Layers : Malloc(t, layer)
  \/ \E call \in {"free", "realloc"}, p \in inuse : FreeOrRealloc(t, call, p)
  \/ Snapshot(t)

Continue(t) ==
  /\ ~ fault
  /\ \/ Check(t) \/ InitLocks(t) \/ Ready(t) \/ Acquire(t)
     \/ Search(t) \/ Count(t) \/ Size(t) \/ Map(t) \/ Link(t) \/ Publish(t) \/ Again(t)
     \/ Lookup(t) \/ Foreign(t) \/ Find(t) \/ Scan(t) \/ Unlink(t) \/ Unmap(t)
     \/ Tally(t) \/ Dangling(t)

\* The program is dead: no deadlock.
Died == fault /\ UNCHANGED vars

Next == Died \/ \E t \in Threads : (~ fault /\ Begin(t)) \/ Continue(t)

Spec == Init /\ [][Next]_vars

\* A thread inside the allocator is not stopped for ever, unless it waits for a lock.
FairSpec == Spec /\ \A t \in Threads : WF_vars(Continue(t))

-----------------------------------------------------------------------------
\* What makes the registry correct.

Listed == {registered[i] : i \in DOMAIN registered}

\* "dam_pool_list: linked list (ALL pools)", core.c:12.  The pointers in memory are the
\* list of the pools registered, in order and whole: no registration or removal was
\* lost to another one made at the same time, no removed pool is still linked, and
\* every pool a client has a pointer into is there to be found (dam_register_pool,
\* dam_unregister_pool).
AllPoolsListed ==
  /\ dam_pool_list = IF registered = <<>> THEN NULL ELSE registered[1]
  /\ \A i \in DOMAIN registered :
       /\ registered[i] \in DOMAIN pool
       /\ pool[registered[i]].next =
            IF i = Len(registered) THEN NULL ELSE registered[i + 1]
  /\ inuse \subseteq Listed

\* No walk of the list reads a pool that is no longer mapped, and none misses the pool
\* of a pointer its client holds (dam_pool_from_ptr, without a lock).
LookupsFind == ~ fault /\ \A t \in Threads : ~ At(t, "foreign")

\* Both are so while the program's threads take turns, and whenever nothing is unmapped.
LookupsSafe == program.turns \/ "DIRECT" \notin program.layers => LookupsFind

\* Every lock that is taken is released, by whichever of the returns of create, free,
\* realloc and snapshot, and whatever mmap and MAX_POOLS refuse.
LocksReleased ==
  \A l \in Layers : (owner[l] # NoThread) ~> (owner[l] = NoThread \/ fault)

=============================================================================
