----------------------------- MODULE PagedCache -----------------------------
(***************************************************************************)
(* PagedCacheManager (fusion_mlx/cache/paged_cache.py): the pool of KV     *)
(* cache blocks, their reference counts, the chain-hash index that finds   *)
(* a cached block by content, the per-request block tables, and the queue  *)
(* of content invalidations owed to external indexes.                      *)
(*                                                                         *)
(* One action is one hold of the manager's locks (_block_table_lock,       *)
(* _hash_map_lock, _free_queue_lock), so the actions of different threads  *)
(* interleave exactly where the code releases them. The flush of queued    *)
(* invalidations runs after the locks are released, and is a step of the   *)
(* calling thread: PagedClient lets any number of threads make any calls,  *)
(* PrefixCache composes the same actions with the threads that really      *)
(* make them.                                                              *)
(***************************************************************************)
EXTENDS Integers, Sequences, FiniteSets, Functions

CONSTANTS
    MaxBlocks,       \* max_blocks: hard cap of the pool, null block included
    InitialBlocks,   \* initial_blocks: blocks created by __init__ and clear
    GrowChunk,       \* the 256 of _allocate_block_internal's growth step
    GrowExtra,       \* the 128 extra blocks get_new_blocks grows by
    Req,             \* request ids
    Tok,             \* contents of one full block (its tokens and extra keys)
    MaxDepth         \* bound on the length of a hash chain

ASSUME PoolAssumption ==
    /\ MaxBlocks \in Nat
    /\ InitialBlocks \in 1..MaxBlocks
    /\ GrowChunk \in Nat \ {0}
    /\ GrowExtra \in Nat
    /\ MaxDepth \in Nat

VARIABLES
    count,      \* _current_allocated_count: blocks 0 .. count-1 exist
    freeQ,      \* free_block_queue, least recently used first
    alloc,      \* the keys of allocated_blocks
    ref,        \* CacheBlock.ref_count
    hash,       \* CacheBlock.block_hash
    parent,     \* CacheBlock.parent_hash
    hashMap,    \* cached_block_hash_to_block, as a set of <<hash, block>>
    tables,     \* request_tables; an absent table and an empty one are both
                \* falsy to every caller, so both are <<>>
    pending,    \* _pending_content_invalidated
    deleting    \* ids delete_block_table still has to free under its locks

poolVars == <<count, freeQ, alloc, ref, hash, parent, hashMap, pending>>
pagedVars == <<count, freeQ, alloc, ref, hash, parent, hashMap, pending,
               tables, deleting>>

Block == 0 .. MaxBlocks - 1
Null  == 0

(***************************************************************************)
(* compute_block_hash chains the parent's hash with the block's tokens and *)
(* treats a missing parent as the root. SHA-256 is taken to be free of     *)
(* collisions, so a hash is the sequence of contents it was made from; the *)
(* absent hash (None, or the b"" of the prefix index) is the empty one.    *)
(***************************************************************************)
Hash   == Seq(Tok)
NoHash == <<>>

compute_block_hash(parentHash, tok) == Append(parentHash, tok)

Chains == UNION {[1..n -> Tok] : n \in 1..MaxDepth}

Min2(a, b) == IF a <= b THEN a ELSE b

\* BlockHashToBlockMap.get_block: any block registered under the hash.
get_block(h) == {b \in Block : <<h, b>> \in hashMap}

\* FreeKVCacheBlockQueue.remove: unlink the block from the middle of the list.
QueueRemove(q, b) ==
    LET i == CHOOSE j \in DOMAIN q : q[j] = b
    IN  [j \in 1 .. Len(q) - 1 |-> IF j < i THEN q[j] ELSE q[j + 1]]

\* The ids _grow_blocks(n) creates, in the order it appends them.
NewBlocks(n) == [i \in 1 .. Min2(n, MaxBlocks - count) |-> count + i - 1]

\* Mutant of Orphans: the cascade takes referenced blocks too.
OrphansOfAll(m, roots) ==
    LET known == {b \in Block : \E e \in m : e[2] = b}
        Closed(S) == \A b \in known :
                        (\/ parent[b] \in roots
                         \/ \E c \in S : parent[b] = hash[c]) => b \in S
    IN  {b \in known : \A S \in SUBSET known : Closed(S) => b \in S}

(***************************************************************************)
(* _cascade_evict_orphans_locked: starting from the hashes that have just  *)
(* lost their block, every registered block nobody references whose chain  *)
(* parent is one of them, then their children, and so on. m is the hash    *)
(* map the walk sees. (The walk gives up after 256 parents; the pools      *)
(* checked here are smaller.)                                              *)
(***************************************************************************)
Orphans(m, roots) ==
    LET idle == {b \in Block : ref[b] <= 0 /\ \E e \in m : e[2] = b}
        Closed(S) == \A b \in idle :
                        (\/ parent[b] \in roots
                         \/ \E c \in S : parent[b] = hash[c]) => b \in S
    IN  {b \in idle : \A S \in SUBSET idle : Closed(S) => b \in S}

\* Forget the hashes of the blocks in S: reset_hash on each.
ResetHash(S) ==
    /\ hash'   = [b \in Block |-> IF b \in S THEN NoHash ELSE hash[b]]
    /\ parent' = [b \in Block |-> IF b \in S THEN NoHash ELSE parent[b]]

\* The index entries of the blocks in S.
Entries(S) == {<<hash[b], b>> : b \in S}

-----------------------------------------------------------------------------
(***************************************************************************)
(* Allocation.                                                             *)
(***************************************************************************)

\* Mutant of AllocCount: growth is not capped by max_blocks.
UncappedCount == IF freeQ = <<>> THEN count + GrowChunk ELSE count

\* The free queue and the pool size _allocate_block_internal pops from.
AllocQueue == IF freeQ = <<>> THEN NewBlocks(GrowChunk) ELSE freeQ
AllocCount == IF freeQ = <<>> THEN count + Min2(GrowChunk, MaxBlocks - count)
                              ELSE count

CanAllocate == AllocQueue # <<>>

(***************************************************************************)
(* _allocate_block_internal, on success. _maybe_evict_cached_block calls   *)
(* pop(block_hash, None), which matches no block id and so neither removes *)
(* an entry nor resets the hash: a reused block keeps the hash it had.     *)
(***************************************************************************)
AllocateBlockInternal(b) ==
    /\ CanAllocate
    /\ b = Head(AllocQueue)
    /\ freeQ' = Tail(AllocQueue)
    /\ count' = AllocCount
    /\ alloc' = alloc \union {b}

allocate_block(b) ==
    /\ AllocateBlockInternal(b)
    /\ ref' = [ref EXCEPT ![b] = 1]
    /\ UNCHANGED <<hash, parent, hashMap, pending>>

(***************************************************************************)
(* get_new_blocks. The growth it triggers stays even when the pool is      *)
(* still too small and the call raises ValueError.                         *)
(***************************************************************************)
get_new_blocks(n) ==
    LET grown == IF n > Len(freeQ) THEN NewBlocks((n - Len(freeQ)) + GrowExtra)
                                   ELSE <<>>
        q     == freeQ \o grown
        taken == {q[i] : i \in 1..n}
    IN  /\ count' = count + Len(grown)
        /\ IF n > Len(q)
             THEN /\ freeQ' = q
                  /\ UNCHANGED <<alloc, ref>>
             ELSE /\ freeQ' = SubSeq(q, n + 1, Len(q))
                  /\ alloc' = alloc \union taken
                  /\ ref'   = [b \in Block |-> IF b \in taken THEN 1 ELSE ref[b]]
        /\ UNCHANGED <<hash, parent, hashMap, pending>>

-----------------------------------------------------------------------------
(***************************************************************************)
(* Reference counts.                                                       *)
(***************************************************************************)

\* _free_block_locked when a reference is left.
DropRef(b) ==
    /\ b \in alloc
    /\ b # Null
    /\ ref[b] > 1
    /\ ref' = [ref EXCEPT ![b] = @ - 1]
    /\ UNCHANGED <<count, freeQ, alloc, hash, parent, hashMap, pending>>

\* Mutant of LastFree: the block's index entry survives the free.
LastFreeKeepsEntry(b) ==
    /\ b \in alloc
    /\ b # Null
    /\ ref[b] <= 1
    /\ ref'   = [ref EXCEPT ![b] = @ - 1]
    /\ alloc' = alloc \ {b}
    /\ freeQ' = Append(freeQ, b)
    /\ UNCHANGED <<count, hash, parent, hashMap, pending>>

(***************************************************************************)
(* _free_block_locked on the last reference, and free_block's append to    *)
(* the free queue. The block's own block_hash and parent_hash survive.     *)
(***************************************************************************)
LastFree(b) ==
    LET named   == hash[b] # NoHash
        orphans == IF named THEN Orphans(hashMap \ Entries({b}), {hash[b]}) ELSE {}
    IN  /\ b \in alloc
        /\ b # Null
        /\ ref[b] <= 1
        /\ ref'     = [ref EXCEPT ![b] = @ - 1]
        /\ hashMap' = hashMap \ Entries(orphans \union {b})
        /\ ResetHash(orphans)
        /\ pending' = pending \union orphans \union (IF named THEN {b} ELSE {})
        /\ alloc'   = alloc \ {b}
        /\ freeQ'   = Append(freeQ, b)
        /\ UNCHANGED count

\* free_block on an id that is not allocated, or on the null block: no effect.
FreeIgnored(b) ==
    /\ b \notin alloc \/ b = Null
    /\ UNCHANGED poolVars

free_block(b) == DropRef(b) \/ LastFree(b) \/ FreeIgnored(b)

increment_ref(b) ==
    /\ IF b \in alloc THEN ref' = [ref EXCEPT ![b] = @ + 1]
                      ELSE UNCHANGED ref
    /\ UNCHANGED <<count, freeQ, alloc, hash, parent, hashMap, pending>>

(***************************************************************************)
(* touch: a block of the free queue comes back to life, an allocated one   *)
(* gains a reference, and one that is unreferenced without being queued    *)
(* (the "ghost" of #1035) is skipped. Callers pass the CacheBlock itself.  *)
(***************************************************************************)
touch(b) ==
    LET idle   == ref[b] = 0 /\ b # Null
        queued == b \in Range(freeQ)
    IN  /\ IF idle /\ queued
             THEN /\ freeQ' = QueueRemove(freeQ, b)
                  /\ alloc' = alloc \union {b}
             ELSE UNCHANGED <<freeQ, alloc>>
        /\ ref' = IF idle /\ ~queued THEN ref ELSE [ref EXCEPT ![b] = @ + 1]
        /\ UNCHANGED <<count, hash, parent, hashMap, pending>>

(***************************************************************************)
(* release_for_eviction: one reference less for each occurrence of a live  *)
(* block, never below zero; the blocks stay allocated and findable.        *)
(***************************************************************************)
Occurrences(s, b) == Cardinality({i \in DOMAIN s : s[i] = b})

ReleasedRef(s) ==
    [b \in Block |->
        IF b \in alloc /\ b # Null /\ b \in Range(s)
          THEN ref[b] - Min2(ref[b], Occurrences(s, b))
          ELSE ref[b]]

release_for_eviction(s) ==
    /\ ref' = ReleasedRef(s)
    /\ UNCHANGED <<count, freeQ, alloc, hash, parent, hashMap, pending>>

-----------------------------------------------------------------------------
(***************************************************************************)
(* The chain-hash index.                                                   *)
(***************************************************************************)

\* register_block_hash; it leaves parent_hash alone.
register_block_hash(b, h) ==
    /\ hash'    = [hash EXCEPT ![b] = h]
    /\ hashMap' = hashMap \union {<<h, b>>}
    /\ UNCHANGED <<count, freeQ, alloc, ref, parent, pending>>

\* cache_full_blocks for one block: an already hashed block is skipped, even
\* when the hash is what a previous owner left behind.
cache_full_block(b, parentHash, tok) ==
    LET h == compute_block_hash(parentHash, tok)
    IN  /\ hash[b] = NoHash
        /\ hash'    = [hash EXCEPT ![b] = h]
        /\ parent'  = [parent EXCEPT ![b] = parentHash]
        /\ hashMap' = hashMap \union {<<h, b>>}
        /\ UNCHANGED <<count, freeQ, alloc, ref, pending>>

\* Mutant of ClaimCached: the lookup does not claim.
ClaimNothing(h, b) == b \in get_block(h) /\ UNCHANGED poolVars

\* Mutant of LazyRestore: the claim is added on top of the allocation pin.
LazyRestoreTwice(h, parentHash, b) ==
    /\ get_block(h) = {}
    /\ AllocateBlockInternal(b)
    /\ ref'     = [ref EXCEPT ![b] = 2]
    /\ hash'    = [hash EXCEPT ![b] = h]
    /\ parent'  = [parent EXCEPT ![b] = parentHash]
    /\ hashMap' = hashMap \union {<<h, b>>}
    /\ UNCHANGED pending

(***************************************************************************)
(* One round of get_computed_blocks(claim=True) for the block whose chain  *)
(* hash is h: claim a registered block, or bring the hash back from the    *)
(* SSD in a fresh block whose allocation pin becomes the caller's claim.   *)
(***************************************************************************)
ClaimCached(h, b) ==
    /\ b \in get_block(h)
    /\ ref' = [ref EXCEPT ![b] = @ + 1]
    /\ UNCHANGED <<count, freeQ, alloc, hash, parent, hashMap, pending>>

LazyRestore(h, parentHash, b) ==
    /\ get_block(h) = {}
    /\ AllocateBlockInternal(b)
    /\ ref'     = [ref EXCEPT ![b] = 1]
    /\ hash'    = [hash EXCEPT ![b] = h]
    /\ parent'  = [parent EXCEPT ![b] = parentHash]
    /\ hashMap' = hashMap \union {<<h, b>>}
    /\ UNCHANGED pending

-----------------------------------------------------------------------------
(***************************************************************************)
(* Eviction.                                                               *)
(***************************************************************************)

\* _evict_lru_blocks_locked: forget the content of the first n free blocks.
evict_lru_blocks(n) ==
    LET victims == {freeQ[i] : i \in 1 .. Min2(n, Len(freeQ))}
        roots   == {hash[b] : b \in victims} \ {NoHash}
        orphans == IF roots = {} THEN {} ELSE Orphans(hashMap, roots)
    IN  /\ ResetHash(victims \union orphans)
        /\ hashMap' = hashMap \ Entries(orphans)
        /\ pending' = pending \union victims \union orphans
        /\ UNCHANGED <<count, freeQ, alloc, ref>>

\* The blocks _evict_cached_blocks_locked may take: allocated, unreferenced
\* and still carrying a hash.
Evictable == {b \in alloc : ref[b] <= 0 /\ b # Null /\ hash[b] # NoHash}

\* Mutant of handle_memory_pressure: a cascaded block loses its hash and keeps
\* its index entry.
PressureKeepsOrphans(b) ==
    LET orphans == Orphans(hashMap \ Entries({b}), {hash[b]})
    IN  /\ freeQ = <<>>
        /\ b \in Evictable
        /\ hashMap' = hashMap \ Entries({b})
        /\ ResetHash(orphans \union {b})
        /\ pending' = pending \union orphans \union {b}
        /\ alloc'   = alloc \ {b}
        /\ freeQ'   = Append(freeQ, b)
        /\ UNCHANGED <<count, ref>>

(***************************************************************************)
(* handle_memory_pressure(1), the only request its callers make. With the  *)
(* free queue empty the LRU pass finds nothing and one cached block goes,  *)
(* the least recently accessed; access times are abstracted to a choice.   *)
(***************************************************************************)
handle_memory_pressure(b) ==
    LET orphans == Orphans(hashMap \ Entries({b}), {hash[b]})
    IN  /\ freeQ = <<>>
        /\ b \in Evictable
        /\ hashMap' = hashMap \ Entries(orphans \union {b})
        /\ ResetHash(orphans \union {b})
        /\ pending' = pending \union orphans \union {b}
        /\ alloc'   = alloc \ {b}
        /\ freeQ'   = Append(freeQ, b)
        /\ UNCHANGED <<count, ref>>

\* Mutant of evict_block_permanently: the append is not guarded (#1016).
EvictAppendsTwice(b) ==
    /\ b < count
    /\ ref[b] <= 0
    /\ b # Null
    /\ hashMap' = hashMap \ Entries({b})
    /\ pending' = IF hash[b] # NoHash THEN pending \union {b} ELSE pending
    /\ ResetHash({b})
    /\ alloc'   = alloc \ {b}
    /\ freeQ'   = Append(freeQ, b)
    /\ UNCHANGED <<count, ref>>

evict_block_permanently(b) ==
    /\ b < count
    /\ ref[b] <= 0
    /\ b # Null
    /\ hashMap' = hashMap \ Entries({b})
    /\ pending' = IF hash[b] # NoHash THEN pending \union {b} ELSE pending
    /\ ResetHash({b})
    /\ alloc'   = alloc \ {b}
    /\ freeQ'   = IF b \in Range(freeQ) THEN freeQ ELSE Append(freeQ, b)
    /\ UNCHANGED <<count, ref>>

\* reset_prefix_cache, when nothing but the null block is in use.
reset_prefix_cache ==
    /\ MaxBlocks - Len(freeQ) <= 1
    /\ hashMap' = {}
    /\ ResetHash(Block)
    /\ UNCHANGED <<count, freeQ, alloc, ref, pending>>

\* The pool that __init__ builds and clear builds again.
FreshQueue == [i \in 1 .. InitialBlocks - 1 |-> i]
FreshRef   == [b \in Block |-> IF b = Null THEN 1 ELSE 0]
Unhashed   == [b \in Block |-> NoHash]
NoTables   == [r \in Req |-> <<>>]

\* clear queues an invalidation for every block it forgets and does not flush.
clear ==
    /\ count'   = InitialBlocks
    /\ freeQ'   = FreshQueue
    /\ alloc'   = {Null}
    /\ ref'     = FreshRef
    /\ hash'    = Unhashed
    /\ parent'  = Unhashed
    /\ hashMap' = {}
    /\ tables'  = NoTables
    /\ pending' = pending \union (alloc \ {Null})

\* _flush_content_invalidated swaps the list; the callbacks are the caller's.
flush == pending' = {}

-----------------------------------------------------------------------------
(***************************************************************************)
(* Block tables.                                                           *)
(***************************************************************************)

\* create_block_table and detach_request_table both leave the request without
\* blocks; neither touches the blocks the old table named.
create_block_table(r) ==
    /\ tables' = [tables EXCEPT ![r] = <<>>]
    /\ UNCHANGED poolVars

detach_request_table(r) == create_block_table(r)

add_block_to_table(r, b) ==
    /\ tables' = [tables EXCEPT ![r] = Append(@, b)]
    /\ UNCHANGED poolVars

(***************************************************************************)
(* delete_block_table pops the table and then calls free_block for each of *)
(* its ids, all under the three locks: no other hold of a paged-cache lock *)
(* falls between two of the calls.                                         *)
(***************************************************************************)
delete_block_table(r) ==
    /\ deleting' = tables[r]
    /\ tables'   = [tables EXCEPT ![r] = <<>>]
    /\ UNCHANGED poolVars

DeleteStep ==
    /\ deleting # <<>>
    /\ free_block(Head(deleting))
    /\ deleting' = Tail(deleting)
    /\ UNCHANGED tables

fork_block_table(r, new) ==
    /\ tables' = [tables EXCEPT ![new] = tables[r]]
    /\ ref'    = [b \in Block |-> IF b \in alloc
                                    THEN ref[b] + Occurrences(tables[r], b)
                                    ELSE ref[b]]
    /\ UNCHANGED <<count, freeQ, alloc, hash, parent, hashMap, pending>>

(***************************************************************************)
(* get_blocks_for_generation on the i-th block of a table: a shared block  *)
(* is replaced by a private one, taken from the (possibly grown) free      *)
(* queue or, that failing, from a reclaimed cached block. With neither the *)
(* call raises CacheEvictionError and nothing changes.                     *)
(***************************************************************************)
CowFrom(r, i, new, orphans) ==
    LET b == tables[r][i]
    IN  /\ i \in DOMAIN tables[r]
        /\ b \in alloc
        /\ ref[b] > 1
        /\ ref'     = [ref EXCEPT ![new] = 1, ![b] = @ - 1]
        /\ hashMap' = hashMap \ Entries(orphans \union {new})
        /\ ResetHash(orphans \union {new})
        /\ tables'  = [tables EXCEPT ![r][i] = new]

CowFree(r, i, new) ==
    /\ AllocateBlockInternal(new)
    /\ CowFrom(r, i, new, {})
    /\ UNCHANGED pending

\* Mutant of CowReclaim: the reclaimed content is not queued (#808).
CowReclaimSilent(r, i, new) ==
    LET orphans == Orphans(hashMap \ Entries({new}), {hash[new]})
    IN  /\ ~CanAllocate
        /\ new \in Evictable
        /\ CowFrom(r, i, new, orphans)
        /\ UNCHANGED <<count, freeQ, alloc, pending>>

CowReclaim(r, i, new) ==
    LET orphans == Orphans(hashMap \ Entries({new}), {hash[new]})
    IN  /\ ~CanAllocate
        /\ new \in Evictable
        /\ CowFrom(r, i, new, orphans)
        /\ pending' = pending \union orphans \union {new}
        /\ UNCHANGED <<count, freeQ, alloc>>

get_blocks_for_generation(r, i, new) == CowFree(r, i, new) \/ CowReclaim(r, i, new)

-----------------------------------------------------------------------------
\* __init__.
PoolInit ==
    /\ count    = InitialBlocks
    /\ freeQ    = FreshQueue
    /\ alloc    = {Null}
    /\ ref      = FreshRef
    /\ hash     = Unhashed
    /\ parent   = Unhashed
    /\ hashMap  = {}
    /\ tables   = NoTables
    /\ pending  = {}
    /\ deleting = <<>>

-----------------------------------------------------------------------------
(***************************************************************************)
(* Properties.                                                             *)
(***************************************************************************)

PoolTypeOK ==
    /\ count \in InitialBlocks .. MaxBlocks
    /\ freeQ \in Seq(Block)
    /\ alloc \subseteq Block
    /\ ref \in [Block -> Int]
    /\ hash \in [Block -> Hash]
    /\ parent \in [Block -> Hash]
    /\ hashMap \subseteq Hash \X Block
    /\ pending \subseteq Block

TypeOK ==
    /\ PoolTypeOK
    /\ tables \in [Req -> Seq(Block)]
    /\ deleting \in Seq(Block)

\* Block conservation: whatever is called in whatever order, every block the
\* pool has created is either free or allocated, never both, never lost, and
\* the free queue links each free block once (#1016 was a double append that
\* corrupted the list, #1035 a block in no container).
Conservation ==
    /\ IsInjective(freeQ)
    /\ Range(freeQ) \intersect alloc = {}
    /\ Range(freeQ) \union alloc = 0 .. count - 1

\* A block that allocate_block may hand out next is dead: nobody holds a
\* reference to it and no hash lookup can return it. The null block is never
\* one of them.
FreeIsDead ==
    /\ \A b \in Range(freeQ) : b # Null /\ ref[b] <= 0
    /\ \A e \in hashMap : e[2] \notin Range(freeQ)

\* The chain-hash index tells the truth: a lookup by hash returns an allocated
\* block that carries exactly that hash, although free_block leaves stale
\* hashes on the blocks it recycles and blocks are re-labelled in place.
IndexSound ==
    \A e \in hashMap : /\ e[1] # NoHash
                       /\ hash[e[2]] = e[1]
                       /\ e[2] \in alloc \ {Null}

\* Reference counts make sense: the null block is always held, no allocated
\* block has a negative count (the double free of #1007 would make one), and
\* blocks that do not exist yet are unreferenced.
RefSound ==
    /\ ref[Null] >= 1
    /\ \A b \in alloc : ref[b] >= 0
    /\ \A b \in Block : b >= count => ref[b] <= 0

\* The inductive invariant of the pool.
PoolInv == PoolTypeOK /\ Conservation /\ FreeIsDead /\ IndexSound /\ RefSound

\* A registered block that stays referenced keeps its index entry.
EntriesKept ==
    \A e \in hashMap : ref[e[2]] > 0 /\ ref'[e[2]] > 0 => e \in hashMap'

\* What leaves the index is queued for invalidation.
LossesQueued == \A e \in hashMap \ hashMap' : e[2] \in pending'

\* No eviction, cascade, copy-on-write or free by one client unregisters a
\* block another client still references: a registered block that stays
\* referenced keeps its index entry. Only clear may break this.
HeldEntryStays == [][clear \/ EntriesKept]_pagedVars

\* Every path that takes a block out of the hash index queues an invalidation
\* for it, so an external index keyed on block ids can drop its pointer before
\* the id is reused (#807 P0, #808 P0).
InvalidationsQueued == [][LossesQueued]_pagedVars

=============================================================================
