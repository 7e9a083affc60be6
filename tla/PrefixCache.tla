---------------------------- MODULE PrefixCache -----------------------------
(***************************************************************************)
(* BlockAwarePrefixCache (fusion_mlx/cache/prefix_cache.py) over the block *)
(* pool of PagedCache, driven by its two real clients:                     *)
(*                                                                         *)
(*   the engine thread, which runs the scheduler's step: it fetches the    *)
(*     cached prefix of a new request, reconstructs its KV state from the  *)
(*     SSD tier, and later retires the request;                            *)
(*   the store worker, which stores a finished request's blocks off the    *)
(*     engine thread (_async_store_cache_worker).                          *)
(*                                                                         *)
(* A step is one hold of the paged-cache locks, or one hold of the prefix  *)
(* cache's _cache_lock, or the code between two of them. The SSD tier      *)
(* (PagedSSDCacheManager, disk-backed) is modelled as a map from hashes to *)
(* the KV content saved under them. A content is named by the chain of     *)
(* blocks whose KV state it is: the hash says what the data should be, the *)
(* content what it is.                                                     *)
(***************************************************************************)
EXTENDS PagedCache

CONSTANTS
    Prompt,     \* the full blocks of each request's token sequence
    Env         \* which of the environment's optional events happen

\* ssd_loss: the SSD tier evicts a file; save_fail: a save is refused; reject:
\* a fetched request is rejected before it runs; late_abort: a client cancels
\* a request whose store is in flight; stateful: the model's cache state cannot
\* be sliced, or stepped back by a token; demote: the tiered cache sweeps; timeout: the
\* scheduler gives up on a fetched prefix, as when its SSD preload times out.
EnvEvents == {"ssd_loss", "save_fail", "reject", "late_abort", "stateful",
              "demote", "timeout"}

ASSUME PrefixAssumption ==
    /\ IsFiniteSet(Req)
    /\ Prompt \in [Req -> Seq(Tok)]
    /\ Env \subseteq EnvEvents

VARIABLES
    index,        \* _prefix_index: chain hash -> block ids of that prefix
    blockHashes,  \* _block_id_to_hashes: the reverse map of the callback
    entries,      \* _request_tables: requests store_cache has recorded
    ssd,          \* the hashes the SSD tier has a file for -> its content
    cacheLock,    \* the holder of _cache_lock
    phase,        \* where each request is in the scheduler
    eng,          \* the engine thread
    wrk,          \* the store worker
    served,       \* the content reconstruct_cache gave each request
    races         \* history: the windows between a check and a use in which
                  \* something came between; see IndexClaim and StoreReuse

prefixVars == <<index, blockHashes, entries, ssd, cacheLock, phase, eng, wrk,
                served, races>>
vars == <<pagedVars, prefixVars>>

NoReq == "none"

EngPC == {"idle", "walk", "lookup", "index", "unclaim", "table", "recon",
          "drop", "rebuild", "trim", "layers", "delete", "retire"}
WrkPC == {"idle", "find", "incref", "alloc", "pressure", "retry", "write",
          "save", "index", "release", "clear"}
Phase == {"new", "running", "queued", "storing", "aborted", "rejected", "done"}

EngIdle == [pc |-> "idle", req |-> NoReq, claims |-> <<>>, best |-> <<>>,
            todo |-> <<>>, swap |-> FALSE, fire |-> {}]
WrkIdle == [pc |-> "idle", req |-> NoReq, hash |-> NoHash, blk |-> Null,
            tab |-> <<>>, swap |-> FALSE]

PrefixInit ==
    /\ PoolInit
    /\ index       = <<>>
    /\ blockHashes = [b \in Block |-> {}]
    /\ entries     = {}
    /\ ssd         = <<>>
    /\ cacheLock   = "none"
    /\ phase       = [r \in Req |-> "new"]
    /\ eng         = EngIdle
    /\ wrk         = WrkIdle
    /\ served      = [r \in Req |-> <<>>]
    /\ races       = {}

\* The chain hash of the first n blocks of a request.
PrefixHash(r, n) == SubSeq(Prompt[r], 1, n)

\* PagedSSDCacheManager.has_block.
has_block(h) == h \in DOMAIN ssd

\* Mutant of Detach: only the reverse map is cleaned.
DetachKeepsIndex(S) ==
    /\ blockHashes' = [b \in Block |-> IF b \in S THEN {} ELSE blockHashes[b]]
    /\ UNCHANGED index

(***************************************************************************)
(* _on_block_freed, for a set of blocks: drop the index entries recorded   *)
(* under each block. _update_prefix_index records an entry only under the  *)
(* last block of its prefix.                                               *)
(***************************************************************************)
Detach(S) ==
    LET dead == UNION {blockHashes[b] : b \in S}
    IN  /\ index'       = [h \in DOMAIN index \ dead |-> index[h]]
        /\ blockHashes' = [b \in Block |-> IF b \in S THEN {} ELSE blockHashes[b]]

\* The paged-cache locks are held by the engine across get_computed_blocks and
\* across delete_block_table, its nested flushes included.
PagedLocksFree == eng.pc \notin {"walk", "delete"}

\* Before its next call a thread finishes _flush_content_invalidated.
EngReady == ~eng.swap /\ eng.fire = {}
WrkReady == ~wrk.swap

EngGoto(at) == eng' = [eng EXCEPT !.pc = at]

\* A paged-cache call that leaves the tables alone, by the engine or by the
\* worker; both flush after it.
EngFrame == UNCHANGED <<wrk, entries, ssd, phase, served, races>>
WrkFrame == UNCHANGED <<deleting, eng, served, races>>
IndexFrame == UNCHANGED <<index, blockHashes>>
PoolFrame == UNCHANGED poolVars

-----------------------------------------------------------------------------
(***************************************************************************)
(* The engine thread: flushing.                                            *)
(***************************************************************************)

\* The list swap of _flush_content_invalidated.
EngSwap ==
    /\ eng.swap
    /\ flush
    /\ eng' = [eng EXCEPT !.swap = FALSE, !.fire = pending]
    /\ UNCHANGED <<count, freeQ, alloc, ref, hash, parent, hashMap, tables,
                   deleting, cacheLock>>
    /\ EngFrame /\ IndexFrame

\* One callback; it needs _cache_lock, which is reentrant.
EngFire ==
    /\ \E b \in eng.fire :
          /\ cacheLock \in {"none", "engine"}
          /\ Detach({b})
          /\ eng' = [eng EXCEPT !.fire = @ \ {b}]
    /\ PoolFrame /\ EngFrame
    /\ UNCHANGED <<tables, deleting, cacheLock>>

(***************************************************************************)
(* fetch_cache: claim the longest prefix the hash map (or, through a lazy  *)
(* restore, the SSD) knows, under one hold of the paged-cache locks.       *)
(***************************************************************************)
Wanted == PrefixHash(eng.req, Len(eng.claims) + 1)
MoreWanted == Len(eng.claims) < Len(Prompt[eng.req])

FetchStart(r) ==
    /\ eng.pc = "idle" /\ EngReady
    /\ phase[r] = "new"
    /\ eng' = [EngIdle EXCEPT !.pc = "walk", !.req = r]
    /\ PoolFrame /\ EngFrame /\ IndexFrame
    /\ UNCHANGED <<tables, deleting, cacheLock>>

WalkClaim ==
    /\ eng.pc = "walk" /\ MoreWanted
    /\ \E b \in Block :
          /\ ClaimCached(Wanted, b)
          /\ eng' = [eng EXCEPT !.claims = Append(@, b)]
    /\ EngFrame /\ IndexFrame
    /\ UNCHANGED <<tables, deleting, cacheLock>>

WalkRestore ==
    /\ eng.pc = "walk" /\ MoreWanted
    /\ has_block(Wanted)
    /\ \E b \in Block :
          /\ LazyRestore(Wanted, PrefixHash(eng.req, Len(eng.claims)), b)
          /\ eng' = [eng EXCEPT !.claims = Append(@, b)]
    /\ EngFrame /\ IndexFrame
    /\ UNCHANGED <<tables, deleting, cacheLock>>

WalkEnd ==
    /\ eng.pc = "walk"
    /\ MoreWanted => get_block(Wanted) = {} /\ (has_block(Wanted) => ~CanAllocate)
    /\ eng' = [eng EXCEPT !.pc = "lookup", !.swap = TRUE]
    /\ PoolFrame /\ EngFrame /\ IndexFrame
    /\ UNCHANGED <<tables, deleting, cacheLock>>

(***************************************************************************)
(* _find_best_prefix_match: the entry of the longest indexed prefix. The   *)
(* lock is released before the match is used.                              *)
(***************************************************************************)
BestMatch(r) ==
    LET hits == {n \in 1 .. Len(Prompt[r]) :
                    /\ PrefixHash(r, n) \in DOMAIN index
                    /\ Len(index[PrefixHash(r, n)]) = n}
    IN  IF hits = {} THEN <<>>
        ELSE index[PrefixHash(r, CHOOSE n \in hits : \A m \in hits : m <= n)]

IndexLookup ==
    /\ eng.pc = "lookup" /\ EngReady
    /\ cacheLock = "none"
    /\ LET best == BestMatch(eng.req)
       IN  eng' = [eng EXCEPT !.best = best,
                     !.pc = IF Len(best) > Len(eng.claims) THEN "index"
                                                           ELSE "table"]
    /\ PoolFrame /\ EngFrame /\ IndexFrame
    /\ UNCHANGED <<tables, deleting, cacheLock>>

(***************************************************************************)
(* The index branch of _fetch_cache_impl, under _cache_lock: take the      *)
(* match's blocks up to the first one that is not allocated or has no      *)
(* hash, then hand back the claims of the walk, one free_block each.       *)
(***************************************************************************)
Live(s) ==
    LET dead == {i \in DOMAIN s : s[i] \notin alloc \/ hash[s[i]] = NoHash}
    IN  IF dead = {} THEN s
        ELSE SubSeq(s, 1, (CHOOSE i \in dead : \A j \in dead : i <= j) - 1)

\* A block of the match that was refilled passes both tests of the loop.
IndexRace(live) ==
    IF \A i \in DOMAIN live : hash[live[i]] = PrefixHash(eng.req, i) THEN {} ELSE {"index"}

IndexClaim ==
    /\ eng.pc = "index"
    /\ cacheLock = "none"
    /\ LET live == Live(eng.best)
       IN  IF live = <<>>
             THEN /\ EngGoto("table")
                  /\ tables' = [tables EXCEPT ![eng.req] = <<>>]
                  /\ UNCHANGED <<ref, cacheLock, races>>
             ELSE /\ eng' = [eng EXCEPT !.pc = "unclaim", !.todo = eng.claims,
                                        !.claims = <<>>]
                  /\ tables' = [tables EXCEPT ![eng.req] = live]
                  /\ ref' = [b \in Block |-> ref[b] + Occurrences(live, b)]
                  /\ cacheLock' = "engine"
                  /\ races' = races \union IndexRace(live)
    /\ UNCHANGED <<count, freeQ, alloc, hash, parent, hashMap, pending, deleting,
                   wrk, entries, ssd, phase, served>>
    /\ IndexFrame

\* free_block on the next id of the engine's list; its flush follows.
EngFreeNext ==
    /\ EngReady
    /\ eng.todo # <<>>
    /\ free_block(Head(eng.todo))
    /\ eng' = [eng EXCEPT !.todo = Tail(@), !.swap = TRUE]
    /\ EngFrame /\ IndexFrame
    /\ UNCHANGED <<tables, deleting, cacheLock>>

Unclaim == eng.pc = "unclaim" /\ EngFreeNext

\* Mutant of UnclaimEnd: _cache_lock is not released.
UnclaimKeepsLock ==
    /\ eng.pc = "unclaim" /\ EngReady /\ eng.todo = <<>>
    /\ EngGoto("recon")
    /\ PoolFrame /\ EngFrame /\ IndexFrame
    /\ UNCHANGED <<tables, deleting, cacheLock>>

UnclaimEnd ==
    /\ eng.pc = "unclaim" /\ EngReady /\ eng.todo = <<>>
    /\ EngGoto("recon")
    /\ cacheLock' = "none"
    /\ PoolFrame /\ EngFrame /\ IndexFrame
    /\ UNCHANGED <<tables, deleting>>

\* The hash-map branch: the claimed blocks become the request's table. With
\* no claims the request runs without a cached prefix.
TableBuild ==
    /\ eng.pc = "table"
    /\ IF eng.claims = <<>>
         THEN /\ eng'   = EngIdle
              /\ phase' = [phase EXCEPT ![eng.req] = "running"]
              /\ UNCHANGED tables
         ELSE /\ eng'    = [eng EXCEPT !.pc = "recon", !.claims = <<>>]
              /\ tables' = [tables EXCEPT ![eng.req] = eng.claims]
              /\ UNCHANGED phase
    /\ PoolFrame /\ IndexFrame
    /\ UNCHANGED <<deleting, cacheLock, wrk, entries, ssd, served, races>>

-----------------------------------------------------------------------------
(***************************************************************************)
(* reconstruct_cache and what the scheduler does with its result.          *)
(***************************************************************************)

Table == tables[eng.req]

Loadable(b) == b \in alloc /\ has_block(hash[b])

\* How many leading blocks of the table can be loaded.
ValidBlocks ==
    LET bad == {i \in DOMAIN Table : ~Loadable(Table[i])}
    IN  IF bad = {} THEN Len(Table) ELSE (CHOOSE i \in bad : \A j \in bad : i <= j) - 1

\* The content load_block_with_metadata returns for each block.
Contents(s) == [i \in DOMAIN s |-> ssd[hash[s[i]]]]

EngDone(r) ==
    /\ eng'   = EngIdle
    /\ phase' = [phase EXCEPT ![r] = "running"]

\* Every block loads.
ReconstructAll ==
    /\ eng.pc = "recon"
    /\ ValidBlocks = Len(Table)
    /\ served' = [served EXCEPT ![eng.req] = Contents(Table)]
    /\ EngGoto("rebuild")
    /\ PoolFrame /\ IndexFrame
    /\ UNCHANGED <<tables, deleting, cacheLock, wrk, entries, ssd, phase, races>>

\* Walk-back truncation: a model with non-sliceable layers keeps only the blocks
\* up to one that carries real state for all of them, and frees the rest.
WalkBack ==
    /\ "stateful" \in Env
    /\ eng.pc = "rebuild"
    /\ \E n \in 1 .. Len(Table) - 1 :
          /\ eng'    = [eng EXCEPT !.pc = "trim",
                                   !.todo = SubSeq(Table, n + 1, Len(Table))]
          /\ tables' = [tables EXCEPT ![eng.req] = SubSeq(@, 1, n)]
          /\ served' = [served EXCEPT ![eng.req] = SubSeq(@, 1, n)]
    /\ PoolFrame /\ IndexFrame
    /\ UNCHANGED <<deleting, cacheLock, wrk, entries, ssd, phase, races>>

\* The layers are rebuilt and the request runs on the cached prefix.
Rebuilt ==
    /\ eng.pc \in {"rebuild", "layers"}
    /\ EngDone(eng.req)
    /\ PoolFrame /\ IndexFrame
    /\ UNCHANGED <<tables, deleting, cacheLock, wrk, entries, ssd, served, races>>

\* A layer cannot be rebuilt, or the cache state of an exact hit cannot be
\* stepped back to N-1 tokens: the scheduler deletes the block table and
\* prefills from scratch.
GiveUpTable ==
    /\ "stateful" \in Env
    /\ eng.pc \in {"rebuild", "layers"}
    /\ delete_block_table(eng.req)
    /\ served' = [served EXCEPT ![eng.req] = <<>>]
    /\ EngGoto("delete")
    /\ IndexFrame
    /\ UNCHANGED <<cacheLock, wrk, entries, ssd, phase, races>>

\* The SSD preload of the matched blocks takes too long, or the prefix is not to
\* be reconstructed (a cap, a related store in flight): the scheduler calls
\* clear_request_entry_no_free, which ignores a request that store_cache has
\* not recorded, and prefills from scratch; the table and its references stay
\* with the request.
PreloadTimeout ==
    /\ "timeout" \in Env
    /\ eng.pc = "recon"
    /\ eng.req \notin entries
    /\ EngDone(eng.req)
    /\ PoolFrame /\ IndexFrame
    /\ UNCHANGED <<tables, deleting, cacheLock, wrk, entries, ssd, served, races>>

\* delete_block_table's loop. free_block flushes inside the outer lock hold.
EngDeleteStep ==
    /\ eng.pc = "delete" /\ EngReady
    /\ DeleteStep
    /\ eng' = [eng EXCEPT !.swap = TRUE]
    /\ EngFrame /\ IndexFrame
    /\ UNCHANGED cacheLock

EngDeleteEnd ==
    /\ eng.pc = "delete" /\ EngReady
    /\ deleting = <<>>
    /\ EngDone(eng.req)
    /\ PoolFrame /\ IndexFrame
    /\ UNCHANGED <<tables, deleting, cacheLock, wrk, entries, ssd, served, races>>

\* Some block cannot be loaded: it loses its hash entry, and the blocks from
\* there on are freed and cut off the table.
ReconstructPart ==
    /\ eng.pc = "recon"
    /\ ValidBlocks < Len(Table)
    /\ LET n   == ValidBlocks
           bad == Table[n + 1]
       IN  /\ hashMap' = IF bad \in alloc THEN hashMap \ Entries({bad}) ELSE hashMap
           /\ eng'     = [eng EXCEPT !.pc = "drop",
                                     !.todo = SubSeq(Table, n + 1, Len(Table))]
           /\ tables'  = [tables EXCEPT ![eng.req] = SubSeq(Table, 1, n)]
           /\ served'  = [served EXCEPT ![eng.req] = Contents(SubSeq(Table, 1, n))]
    /\ UNCHANGED <<count, freeQ, alloc, ref, hash, parent, pending, deleting,
                   cacheLock, wrk, entries, ssd, phase, races>>
    /\ IndexFrame

Drop == eng.pc \in {"drop", "trim"} /\ EngFreeNext

\* With nothing left reconstruct_cache returns None and the scheduler deletes
\* the (empty) table.
DropEnd ==
    /\ eng.pc \in {"drop", "trim"} /\ EngReady /\ eng.todo = <<>>
    /\ IF Table = <<>>
         THEN EngDone(eng.req)
         ELSE /\ EngGoto(IF eng.pc = "drop" THEN "rebuild" ELSE "layers")
              /\ UNCHANGED phase
    /\ PoolFrame /\ IndexFrame
    /\ UNCHANGED <<tables, deleting, cacheLock, wrk, entries, ssd, served, races>>

-----------------------------------------------------------------------------
(***************************************************************************)
(* The end of a request.                                                   *)
(***************************************************************************)

\* _cleanup_finished hands the request to the store worker.
Finish(r) ==
    /\ eng.pc = "idle" /\ EngReady
    /\ phase[r] = "running"
    /\ phase' = [phase EXCEPT ![r] = "queued"]
    /\ PoolFrame /\ IndexFrame
    /\ UNCHANGED <<tables, deleting, cacheLock, eng, wrk, entries, ssd, served,
                   races>>

(***************************************************************************)
(* _do_abort_request, the abort tail of fail_all_requests and the branch   *)
(* of _cleanup_finished without a cache to store: release the request's    *)
(* blocks for eviction, then clear its entry. A finished request stays in  *)
(* the scheduler's table while its store is in flight, so an abort that    *)
(* arrives then runs the same code.                                        *)
(***************************************************************************)
Abortable ==
    {"running"} \union (IF "late_abort" \in Env THEN {"queued", "storing"} ELSE {})

Retire(r) ==
    /\ eng.pc = "idle" /\ EngReady
    /\ PagedLocksFree
    /\ phase[r] \in Abortable
    /\ release_for_eviction(tables[r])
    /\ eng' = [eng EXCEPT !.pc = "retire", !.req = r]
    /\ EngFrame /\ IndexFrame
    /\ UNCHANGED <<tables, deleting, cacheLock>>

\* clear_request_entry_no_free acts only on requests store_cache recorded.
ClearEntryNoFree(r) ==
    /\ entries' = entries \ {r}
    /\ tables'  = IF r \in entries THEN [tables EXCEPT ![r] = <<>>] ELSE tables

RetireEnd ==
    /\ eng.pc = "retire"
    /\ ClearEntryNoFree(eng.req)
    /\ phase' = [phase EXCEPT ![eng.req] = IF @ = "running" THEN "done"
                                                              ELSE "aborted"]
    /\ eng' = EngIdle
    /\ PoolFrame /\ IndexFrame
    /\ UNCHANGED <<deleting, cacheLock, wrk, ssd, served, races>>

(***************************************************************************)
(* _release_paged_cache_for_request on the rejection paths: release_cache  *)
(* frees the table of a request it finds in _request_tables. store_cache   *)
(* is what puts requests there, and a rejected request has not got so far. *)
(***************************************************************************)
Reject(r) ==
    /\ "reject" \in Env
    /\ eng.pc = "idle" /\ EngReady
    /\ phase[r] = "running"
    /\ r \notin entries
    /\ phase' = [phase EXCEPT ![r] = "rejected"]
    /\ PoolFrame /\ IndexFrame
    /\ UNCHANGED <<tables, deleting, cacheLock, eng, wrk, entries, ssd, served,
                   races>>

(***************************************************************************)
(* maybe_demote: count the unreferenced blocks whose data the SSD tier     *)
(* has, then evict as many from the head of the free queue.                *)
(***************************************************************************)
Demotable == {b \in Range(freeQ) \union alloc : ref[b] = 0 /\ has_block(hash[b])}

Demote ==
    /\ "demote" \in Env
    /\ eng.pc = "idle" /\ EngReady
    /\ Demotable # {}
    /\ evict_lru_blocks(Cardinality(Demotable))
    /\ eng' = [eng EXCEPT !.swap = TRUE]
    /\ EngFrame /\ IndexFrame
    /\ UNCHANGED <<tables, deleting, cacheLock>>

-----------------------------------------------------------------------------
(***************************************************************************)
(* The store worker. It holds _cache_lock from StoreStart to StoreIndex,   *)
(* so its flushes run their callbacks at once.                             *)
(***************************************************************************)
WrkFlush ==
    /\ wrk.swap
    /\ flush
    /\ Detach(pending)
    /\ wrk' = [wrk EXCEPT !.swap = FALSE]
    /\ UNCHANGED <<count, freeQ, alloc, ref, hash, parent, hashMap, tables,
                   cacheLock, entries, ssd, phase>>
    /\ WrkFrame

\* store_cache returns at once when the table already covers every token. A
\* sequence with a trailing partial block always goes on, perhaps with no full
\* block left to store.
StoreStart(r) ==
    /\ wrk.pc = "idle"
    /\ phase[r] \in {"queued", "aborted"}
    /\ cacheLock = "none"
    /\ phase' = [phase EXCEPT ![r] = IF @ = "queued" THEN "storing" ELSE @]
    /\ \/ /\ Len(tables[r]) = Len(Prompt[r])
          /\ wrk' = [WrkIdle EXCEPT !.pc = "release", !.req = r, !.tab = tables[r]]
          /\ UNCHANGED cacheLock
       \/ /\ wrk' = [WrkIdle EXCEPT !.pc = "find", !.req = r]
          /\ cacheLock' = "worker"
    /\ PoolFrame /\ IndexFrame /\ WrkFrame
    /\ UNCHANGED <<tables, entries, ssd>>

Stored == tables[wrk.req]

\* The parent hash is read off the last block of the table; a block that is
\* gone, or has lost its hash, makes the next one the root of a chain.
ParentHash ==
    IF Stored = <<>> \/ Stored[Len(Stored)] \notin alloc THEN NoHash
    ELSE hash[Stored[Len(Stored)]]

NextHash == compute_block_hash(ParentHash, Prompt[wrk.req][Len(Stored) + 1])

\* The dedup lookup, find_cached_block. (has_resident_data is always true of a
\* disk-backed SSD tier.)
StoreFind ==
    /\ wrk.pc = "find" /\ WrkReady
    /\ PagedLocksFree
    /\ Len(Stored) < Len(Prompt[wrk.req])
    /\ IF get_block(NextHash) # {}
         THEN \E b \in get_block(NextHash) :
                 wrk' = [wrk EXCEPT !.pc = "incref", !.blk = b, !.hash = NextHash]
         ELSE wrk' = [wrk EXCEPT !.pc = "alloc", !.hash = NextHash]
    /\ PoolFrame /\ IndexFrame /\ WrkFrame
    /\ UNCHANGED <<tables, cacheLock, entries, ssd, phase>>

\* The block may be freed, or freed and refilled, after it was found.
ReuseRace ==
    IF wrk.blk \in alloc /\ hash[wrk.blk] = wrk.hash THEN {} ELSE {"reuse"}

\* The reuse of the block found, by id; increment_ref's result is ignored.
StoreReuse ==
    /\ wrk.pc = "incref"
    /\ PagedLocksFree
    /\ increment_ref(wrk.blk)
    /\ tables' = [tables EXCEPT ![wrk.req] = Append(@, wrk.blk)]
    /\ wrk' = [wrk EXCEPT !.pc = "find"]
    /\ races' = races \union ReuseRace
    /\ IndexFrame
    /\ UNCHANGED <<deleting, eng, served, cacheLock, entries, ssd, phase>>

StoreAlloc ==
    /\ wrk.pc \in {"alloc", "retry"} /\ WrkReady
    /\ PagedLocksFree
    /\ \E b \in Block :
          /\ allocate_block(b)
          /\ wrk' = [wrk EXCEPT !.pc = "write", !.blk = b, !.swap = TRUE]
    /\ IndexFrame /\ WrkFrame
    /\ UNCHANGED <<tables, cacheLock, entries, ssd, phase>>

StoreAllocFails ==
    /\ wrk.pc \in {"alloc", "retry"} /\ WrkReady
    /\ PagedLocksFree
    /\ ~CanAllocate
    /\ wrk' = [wrk EXCEPT !.pc = IF @ = "alloc" THEN "pressure" ELSE "index",
                          !.swap = TRUE]
    /\ PoolFrame /\ IndexFrame /\ WrkFrame
    /\ UNCHANGED <<tables, cacheLock, entries, ssd, phase>>

StorePressure ==
    /\ wrk.pc = "pressure" /\ WrkReady
    /\ PagedLocksFree
    /\ \/ \E b \in Block : handle_memory_pressure(b)
       \/ (freeQ # <<>> \/ Evictable = {}) /\ PoolFrame
    /\ wrk' = [wrk EXCEPT !.pc = IF freeQ = <<>> /\ Evictable = {} THEN "index"
                                                                   ELSE "retry",
                          !.swap = TRUE]
    /\ IndexFrame /\ WrkFrame
    /\ UNCHANGED <<tables, cacheLock, entries, ssd, phase>>

\* The new block joins the table, takes its hash and is registered under it.
StoreWrite ==
    /\ wrk.pc = "write" /\ WrkReady
    /\ PagedLocksFree
    /\ register_block_hash(wrk.blk, wrk.hash)
    /\ tables' = [tables EXCEPT ![wrk.req] = Append(@, wrk.blk)]
    /\ wrk' = [wrk EXCEPT !.pc = "save"]
    /\ IndexFrame /\ WrkFrame
    /\ UNCHANGED <<cacheLock, entries, ssd, phase>>

\* The SSD tier with a file for the worker's hash.
Saved(content) ==
    [h \in DOMAIN ssd \union {wrk.hash} |-> IF h = wrk.hash THEN content ELSE ssd[h]]

\* Mutant of StoreSave: every block is saved with the end-of-request state.
StoreSaveFinal ==
    /\ wrk.pc = "save"
    /\ ssd' = IF has_block(wrk.hash) THEN ssd
              ELSE Saved(Prompt[wrk.req])
    /\ wrk' = [wrk EXCEPT !.pc = "find"]
    /\ PoolFrame /\ IndexFrame /\ WrkFrame
    /\ UNCHANGED <<tables, cacheLock, entries, phase>>

\* save_block keeps what it already has under the hash.
StoreSave ==
    /\ wrk.pc = "save"
    /\ ssd' = IF has_block(wrk.hash) THEN ssd
              ELSE Saved(PrefixHash(wrk.req, Len(Stored)))
    /\ wrk' = [wrk EXCEPT !.pc = "find"]
    /\ PoolFrame /\ IndexFrame /\ WrkFrame
    /\ UNCHANGED <<tables, cacheLock, entries, phase>>

\* save_block or the tensor slice failed: roll the block back and stop.
StoreSaveFails ==
    /\ "save_fail" \in Env
    /\ wrk.pc = "save"
    /\ PagedLocksFree
    /\ free_block(wrk.blk)
    /\ tables' = [tables EXCEPT ![wrk.req] = SubSeq(@, 1, Len(@) - 1)]
    /\ wrk' = [wrk EXCEPT !.pc = "index", !.swap = TRUE]
    /\ IndexFrame /\ WrkFrame
    /\ UNCHANGED <<cacheLock, entries, ssd, phase>>

\* _update_prefix_index: the chain hash each block of the table is filed under.
IndexHashes ==
    LET f[i \in 0 .. Len(Stored)] ==
          IF i = 0 THEN NoHash
          ELSE IF Stored[i] \in alloc /\ hash[Stored[i]] # NoHash
                 THEN hash[Stored[i]]
                 ELSE compute_block_hash(f[i - 1], Prompt[wrk.req][i])
    IN  f

StoreIndex ==
    /\ \/ wrk.pc = "index"
       \/ wrk.pc = "find" /\ Len(Stored) = Len(Prompt[wrk.req])
    /\ WrkReady
    /\ LET f    == IndexHashes
           keys == {f[i] : i \in DOMAIN Stored}
           at(h) == CHOOSE i \in DOMAIN Stored :
                       f[i] = h /\ \A j \in DOMAIN Stored : f[j] = h => j <= i
       IN  /\ index' = [h \in DOMAIN index \union keys |->
                          IF h \in keys THEN SubSeq(Stored, 1, at(h)) ELSE index[h]]
           /\ blockHashes' = [b \in Block |->
                 blockHashes[b] \union {f[i] : i \in {j \in DOMAIN Stored : Stored[j] = b}}]
           /\ hash' = [b \in Block |->
                 IF b \in alloc /\ hash[b] = NoHash /\ b \in Range(Stored)
                   THEN f[CHOOSE i \in DOMAIN Stored : Stored[i] = b] ELSE hash[b]]
    /\ entries' = entries \union {wrk.req}
    /\ cacheLock' = "none"
    /\ wrk' = [wrk EXCEPT !.pc = "release", !.tab = Stored]
    /\ UNCHANGED <<count, freeQ, alloc, ref, parent, hashMap, pending, tables,
                   ssd, phase>>
    /\ WrkFrame

\* The worker releases the ids of the table store_cache returned to it, whether
\* or not the table is still attached to the request.
StoreRelease ==
    /\ wrk.pc = "release"
    /\ PagedLocksFree
    /\ release_for_eviction(wrk.tab)
    /\ wrk' = [wrk EXCEPT !.pc = "clear"]
    /\ IndexFrame /\ WrkFrame
    /\ UNCHANGED <<tables, cacheLock, entries, ssd, phase>>

StoreClear ==
    /\ wrk.pc = "clear"
    /\ PagedLocksFree
    /\ ClearEntryNoFree(wrk.req)
    /\ wrk' = WrkIdle
    /\ phase' = [phase EXCEPT ![wrk.req] = "done"]
    /\ PoolFrame /\ IndexFrame /\ WrkFrame
    /\ UNCHANGED <<cacheLock, ssd>>

-----------------------------------------------------------------------------
\* The SSD tier evicts a block's file (its own LRU) at any time.
SsdLose ==
    /\ "ssd_loss" \in Env
    /\ \E lost \in DOMAIN ssd : ssd' = [h \in DOMAIN ssd \ {lost} |-> ssd[h]]
    /\ PoolFrame /\ IndexFrame
    /\ UNCHANGED <<tables, deleting, cacheLock, eng, wrk, entries, phase, served,
                   races>>

EngineStep ==
    \/ EngSwap \/ EngFire
    \/ \E r \in Req : FetchStart(r) \/ Finish(r) \/ Retire(r) \/ Reject(r)
    \/ WalkClaim \/ WalkRestore \/ WalkEnd \/ IndexLookup \/ IndexClaim
    \/ Unclaim \/ UnclaimEnd \/ TableBuild
    \/ ReconstructAll \/ ReconstructPart \/ Drop \/ DropEnd
    \/ WalkBack \/ Rebuilt \/ GiveUpTable \/ PreloadTimeout
    \/ EngDeleteStep \/ EngDeleteEnd
    \/ RetireEnd \/ Demote

WorkerStep ==
    \/ WrkFlush
    \/ \E r \in Req : StoreStart(r)
    \/ StoreFind \/ StoreReuse \/ StoreAlloc \/ StoreAllocFails \/ StorePressure
    \/ StoreWrite \/ StoreSave \/ StoreSaveFails
    \/ StoreIndex \/ StoreRelease \/ StoreClear

PrefixNext == EngineStep \/ WorkerStep \/ SsdLose

PrefixSpec == PrefixInit /\ [][PrefixNext]_vars

\* The engine loop keeps calling step() while there is work, and the executor
\* keeps running submitted stores. A flush that has begun is finished. A step
\* sweeps at most once, before it goes on to the requests, so sweeps alone cannot
\* keep the engine thread busy.
FairPrefixSpec ==
    /\ PrefixSpec
    /\ WF_vars(EngSwap \/ EngFire) /\ WF_vars(WorkerStep)
    /\ SF_vars(EngReady /\ EngineStep /\ ~Demote)

-----------------------------------------------------------------------------
(***************************************************************************)
(* Properties.                                                             *)
(***************************************************************************)

PrefixTypeOK ==
    /\ TypeOK
    /\ DOMAIN index \subseteq Hash /\ index \in [DOMAIN index -> Seq(Block)]
    /\ blockHashes \in [Block -> SUBSET Hash]
    /\ entries \subseteq Req
    /\ DOMAIN ssd \subseteq Hash /\ ssd \in [DOMAIN ssd -> Hash]
    /\ cacheLock \in {"none", "engine", "worker"}
    /\ phase \in [Req -> Phase]
    /\ eng \in [pc : EngPC, req : Req \union {NoReq}, claims : Seq(Block),
                best : Seq(Block), todo : Seq(Block), swap : BOOLEAN,
                fire : SUBSET Block]
    /\ wrk \in [pc : WrkPC, req : Req \union {NoReq}, hash : Hash, blk : Block,
                tab : Seq(Block), swap : BOOLEAN]
    /\ served \in [Req -> Seq(Hash)]
    /\ races \subseteq {"index", "reuse"}

\* The requests whose block table stands for references not yet given back.
Holding(r) ==
    \/ phase[r] = "running" /\ ~(eng.pc = "retire" /\ eng.req = r)
    \/ phase[r] \in {"queued", "storing"} /\ ~(wrk.pc = "clear" /\ wrk.req = r)
       /\ ~(eng.pc = "retire" /\ eng.req = r)
    \/ /\ phase[r] = "new" /\ eng.req = r
       /\ eng.pc \in {"unclaim", "recon", "drop", "rebuild", "trim", "layers"}

\* The references the two threads and the live requests believe they hold.
Holders(b) ==
    SumFunctionOnSet([r \in Req |-> IF Holding(r) THEN Occurrences(tables[r], b) ELSE 0],
                     Req)
    + Occurrences(eng.claims, b) + Occurrences(eng.todo, b)
    + Occurrences(deleting, b)
    + (IF wrk.pc = "write" /\ wrk.blk = b THEN 1 ELSE 0)

\* A block somebody counts on is allocated and its reference count covers
\* every holder. store_cache, which is said to be atomic, breaks it: it pins
\* the block it has found by id, without looking whether it is still there.
HoldersCovered ==
    \A b \in Block \ {Null} :
        Holders(b) > 0 => b \in alloc /\ ref[b] >= Holders(b)

\* That is the only way: as long as no store has pinned a block that was freed
\* or refilled after it was found, no block is freed or made evictable under
\* somebody who counts on it (fetch_cache, reconstruct_cache, store_cache,
\* release_for_eviction, free_block).
NoPrematureRelease == "reuse" \notin races => HoldersCovered

\* No reference outlives its holder: a block nobody holds can be evicted.
\* This survives even a store that pinned a freed block; only the references
\* of a rejected request are lost.
NoLeakedRef ==
    (\A r \in Req : phase[r] # "rejected") =>
        \A b \in alloc \ {Null} : ref[b] <= Holders(b)

\* The KV state a request starts from is that of its own prompt.
CorrectPrefix(r) ==
    \A i \in DOMAIN served[r] : served[r][i] = PrefixHash(r, i)

\* Whatever the order of evictions, restores, stores and failures, every prefix
\* that reconstruct_cache gives to a request is the prefix of its own prompt,
\* unless one of the two unprotected windows was hit.
PrefixCorrect == races = {} => \A r \in Req : CorrectPrefix(r)

\* As long as no store has pinned a freed block, an index entry's own (last)
\* block still has the content it is filed under, or its invalidation is on
\* the way (_update_prefix_index, _on_block_freed).
LastBlockFresh ==
    "reuse" \notin races =>
        \A h \in DOMAIN index :
            LET b == index[h][Len(index[h])]
            IN  hash[b] = h \/ b \in pending \union eng.fire

\* The two threads are never stuck on each other: the engine waiting for
\* _cache_lock inside a callback it fires with the paged-cache locks held, the
\* worker holding _cache_lock and waiting for those.
NoWedge ==
    ~ /\ ~PagedLocksFree /\ eng.fire # {}
      /\ cacheLock = "worker" /\ ~ENABLED WorkerStep

\* Every request is eventually done with: neither thread waits forever for a
\* lock, for a block or for the other thread, unless they wedge each other.
Completion == \A r \in Req : <>(phase[r] \in {"done", "rejected"} \/ ~NoWedge)

=============================================================================
