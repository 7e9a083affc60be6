---------------------------- MODULE PagedClient -----------------------------
(***************************************************************************)
(* PagedCacheManager under an arbitrary client: any number of threads make *)
(* any public calls in any order. A thread that has released the paged     *)
(* locks still owes _flush_content_invalidated, unless the call it made is *)
(* one of those that never flush. delete_block_table keeps the locks over  *)
(* its whole loop, the nested flushes included; the other threads can only *)
(* flush meanwhile.                                                        *)
(*                                                                         *)
(* The client keeps its side of the contract: a block it registers is its  *)
(* own and not registered yet.                                             *)
(***************************************************************************)
EXTENDS PagedCache

CONSTANTS
    Thread,          \* the threads that call the manager
    NoThread,        \* nobody
    MaxRef,          \* bound on the reference counts the client builds up
    MaxTable         \* bound on the length of a block table

ASSUME ClientAssumption ==
    /\ NoThread \notin Thread
    /\ MaxRef \in Nat
    /\ MaxTable \in Nat

VARIABLES
    owed,       \* threads between their unlock and their flush
    deleter     \* the thread inside delete_block_table

clientVars == <<pagedVars, owed, deleter>>

Init == PoolInit /\ owed = {} /\ deleter = NoThread

-----------------------------------------------------------------------------
Unregistered(b) == \A e \in hashMap : e[2] # b

Owned(b) == b \in alloc /\ b # Null /\ ref[b] > 0

\* allocate_block; out of blocks it returns None.
Allocate ==
    \/ \E b \in Block : allocate_block(b)
    \/ ~CanAllocate /\ UNCHANGED poolVars

GetNewBlocks == \E n \in 1..MaxBlocks : get_new_blocks(n)

\* free_block of an id that is allocated, and of one that is not: the second
\* returns before the flush.
FreeKnown   == \E b \in alloc : free_block(b)
FreeUnknown == \E b \in Block : b < count /\ b \notin alloc /\ free_block(b)

IncrementRef == \E b \in Block : b < count /\ ref[b] < MaxRef /\ increment_ref(b)

Touch == \E b \in Block : b < count /\ ref[b] < MaxRef /\ touch(b)

Release == \E r \in Req : release_for_eviction(tables[r])

Register ==
    \E b \in Block, h \in Chains :
        Owned(b) /\ Unregistered(b) /\ register_block_hash(b, h)

CacheFull ==
    \E b \in Block, p \in Chains \union {NoHash}, t \in Tok :
        /\ Len(p) < MaxDepth
        /\ Owned(b)
        /\ cache_full_block(b, p, t)

Claim == \E h \in Chains, b \in Block : ref[b] < MaxRef /\ ClaimCached(h, b)

Restore ==
    \E p \in Chains \union {NoHash}, t \in Tok, b \in Block :
        /\ Len(p) < MaxDepth
        /\ LazyRestore(compute_block_hash(p, t), p, b)

EvictLru == \E n \in 1..MaxBlocks : evict_lru_blocks(n)

Pressure == \E b \in Block : handle_memory_pressure(b)

EvictPermanently == \E b \in Block : evict_block_permanently(b)

CreateTable == \E r \in Req : create_block_table(r)

AddToTable ==
    \E r \in Req, b \in alloc :
        Len(tables[r]) < MaxTable /\ add_block_to_table(r, b)

Fork ==
    \E r, new \in Req :
        /\ r # new
        /\ \A b \in Block : ref[b] + Occurrences(tables[r], b) <= MaxRef
        /\ fork_block_table(r, new)

Cow ==
    \E r \in Req, new \in Block :
        \E i \in DOMAIN tables[r] : get_blocks_for_generation(r, i, new)

-----------------------------------------------------------------------------
\* A thread may call when it owes no flush and nobody holds the locks.
Ready(t) == t \notin owed /\ deleter = NoThread

\* The calls that flush before they return.
FlushingCall(t) ==
    /\ Ready(t)
    /\ \/ /\ \/ Allocate \/ FreeKnown \/ Claim \/ Restore \/ EvictLru \/ Pressure
          /\ UNCHANGED tables
       \/ Cow
    /\ owed' = owed \union {t}
    /\ UNCHANGED <<deleting, deleter>>

\* The calls that do not: get_new_blocks returns above its flush, and clear,
\* evict_block_permanently and the early return of free_block have none.
QuietCall(t) ==
    /\ Ready(t)
    /\ \/ /\ \/ GetNewBlocks \/ FreeUnknown \/ IncrementRef \/ Touch \/ Release
             \/ Register \/ CacheFull \/ EvictPermanently \/ reset_prefix_cache
          /\ UNCHANGED tables
       \/ CreateTable \/ AddToTable \/ Fork \/ clear
    /\ UNCHANGED <<deleting, owed, deleter>>

DeleteTable(t) ==
    /\ Ready(t)
    /\ \E r \in Req : delete_block_table(r)
    /\ deleter' = t
    /\ UNCHANGED owed

\* One free_block of the loop.
DeleteNext(t) ==
    /\ deleter = t /\ t \notin owed
    /\ DeleteStep
    /\ owed' = IF Head(deleting) \in alloc THEN owed \union {t} ELSE owed
    /\ UNCHANGED deleter

\* Mutant of DeleteEnd: the locks are dropped with ids left to free.
DeleteEndEarly(t) ==
    /\ deleter = t /\ t \notin owed
    /\ deleter' = NoThread
    /\ UNCHANGED <<poolVars, tables, deleting, owed>>

DeleteEnd(t) ==
    /\ deleter = t /\ t \notin owed
    /\ deleting = <<>>
    /\ deleter' = NoThread
    /\ UNCHANGED <<poolVars, tables, deleting, owed>>

\* The list swap of _flush_content_invalidated needs no lock.
Flush(t) ==
    /\ t \in owed
    /\ flush
    /\ owed' = owed \ {t}
    /\ UNCHANGED <<count, freeQ, alloc, ref, hash, parent, hashMap, tables,
                   deleting, deleter>>

Next ==
    \E t \in Thread :
        \/ FlushingCall(t) \/ QuietCall(t)
        \/ DeleteTable(t) \/ DeleteNext(t) \/ DeleteEnd(t)
        \/ Flush(t)

Spec == Init /\ [][Next]_clientVars

-----------------------------------------------------------------------------
(***************************************************************************)
(* Properties.                                                             *)
(***************************************************************************)

\* Every value has its type, and only delete_block_table leaves ids to free.
ClientTypeOK ==
    /\ TypeOK
    /\ owed \subseteq Thread
    /\ deleter \in Thread \union {NoThread}
    /\ deleting # <<>> => deleter # NoThread

=============================================================================
