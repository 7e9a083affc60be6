------------------------- MODULE PrefixCacheProofs --------------------------
(***************************************************************************)
(* The prefix cache's reference counts and contents, for every pool size,  *)
(* every finite set of requests and every set of prompts.                  *)
(*                                                                         *)
(* The invariant comes in layers, each proved on top of the one before:    *)
(*   PrefixTypeInv  types, lengths and who may be where;                   *)
(*   ControlInv     what the two threads hold at each point of their code; *)
(*   NoLeakedRef    references are never more than their holders;          *)
(*   PinnedInv      until a store pins a block that was freed or refilled  *)
(*                  after it was found: the pool's own invariant, a        *)
(*                  reference for every holder, and a last block of every  *)
(*                  index entry that is fresh or about to be detached;     *)
(*   ContentInv     until one of the two windows was hit: every block that *)
(*                  is in use carries the hash of its place in the prompt. *)
(* A client that cancels a request whose store is in flight ("late_abort") *)
(* breaks the third and the fourth (StoreRelease then gives the references *)
(* back twice), so they are proved without it.                             *)
(***************************************************************************)
EXTENDS PrefixCache, PagedCacheProofs, FiniteSums

\* The states in which the worker has computed the hash of the block it stores
\* next, and the ones in which it holds _cache_lock.
BusyPC == {"incref", "alloc", "pressure", "retry", "write"}
StorePC == BusyPC \union {"find", "save", "index"}

\* Where the engine is with a fetched prefix before the request has its table,
\* and where the table stands for references.
WalkPC == {"walk", "lookup", "index", "table"}
TablePC == {"unclaim", "recon", "drop", "rebuild", "trim", "layers"}

\* Where it has no flush to finish.
QuietPC == {"walk", "index", "table", "recon", "rebuild", "layers", "retire"}

\* Types, the lengths that keep every index in its domain, and the requests the
\* two threads may be working on.
PrefixTypeInv ==
    /\ PrefixTypeOK
    /\ eng.pc # "idle" => eng.req \in Req
    /\ eng.pc \notin {"idle", "retire"} => phase[eng.req] = "new"
    /\ eng.pc = "retire" => phase[eng.req] # "new"
    /\ wrk.pc # "idle" => wrk.req \in Req /\ phase[wrk.req] \notin {"new", "running"}
    /\ \A r \in Req : Len(tables[r]) <= Len(Prompt[r])
    /\ eng.pc \in WalkPC => Len(eng.claims) <= Len(Prompt[eng.req])
    /\ eng.pc = "index" => Len(eng.best) <= Len(Prompt[eng.req])
    /\ eng.pc \in {"drop", "rebuild"} => Len(served[eng.req]) = Len(Table)
    /\ wrk.pc \in BusyPC => Len(Stored) < Len(Prompt[wrk.req])
    /\ wrk.pc \in BusyPC \union {"save"} => wrk.hash # NoHash

\* What the threads hold at each point, when no store in flight is cancelled.
ControlInv ==
    /\ eng.claims # <<>> => eng.pc \in WalkPC
    /\ eng.todo # <<>> => eng.pc \in {"unclaim", "drop", "trim"}
    /\ deleting # <<>> => eng.pc = "delete"
    /\ eng.swap => eng.fire = {}
    /\ eng.pc \in QuietPC => ~eng.swap /\ eng.fire = {}
    /\ eng.pc = "retire" => phase[eng.req] = "running"
    /\ eng.pc = "unclaim" => cacheLock = "engine"
    /\ wrk.pc # "idle" => phase[wrk.req] = "storing"
    /\ wrk.pc \in StorePC => cacheLock = "worker"
    /\ wrk.pc = "save" => Stored # <<>> /\ Stored[Len(Stored)] = wrk.blk
    /\ wrk.pc = "release" => wrk.tab = Stored
    /\ \A r \in Req : phase[r] # "aborted"
    /\ \A r \in Req : phase[r] = "new" /\ ~Holding(r) => tables[r] = <<>>

\* The blocks whose content somebody relies on.
Used(b) == \/ \E r \in Req : Holding(r) /\ b \in Range(tables[r])
           \/ b \in Range(eng.claims)

\* The blocks whose index entries are about to be detached.
Owing == pending \union eng.fire

LastOf(s) == s[Len(s)]

UsedHashed == \A b \in Block : Used(b) => hash[b] # NoHash

\* The block the worker has allocated is nobody else's until it is written.
WriteFresh ==
    wrk.pc = "write" => /\ wrk.blk # Null
                        /\ \A e \in hashMap : e[2] # wrk.blk
                        /\ ~Used(wrk.blk)

\* Every index entry is filed under its last block, ...
IndexFiled ==
    \A h \in DOMAIN index : /\ h # NoHash /\ index[h] # <<>>
                            /\ h \in blockHashes[LastOf(index[h])]

\* ... which still has the content, or is about to be detached, ...
IndexFresh ==
    \A h \in DOMAIN index : hash[LastOf(index[h])] = h \/ LastOf(index[h]) \in Owing

\* ... as every one is that was freed, up to the next write into it.
IndexDead ==
    \A h \in DOMAIN index :
        LET b == LastOf(index[h])
        IN  b \notin alloc \/ (wrk.pc = "write" /\ b = wrk.blk) => b \in Owing

PinnedInv ==
    /\ PoolInv /\ HoldersCovered /\ UsedHashed /\ WriteFresh
    /\ IndexFiled /\ IndexFresh /\ IndexDead

\* The hash of every block in use is that of its place in the prompt, ...
Labels ==
    /\ \A r \in Req : Holding(r) =>
           \A i \in DOMAIN tables[r] : hash[tables[r][i]] = PrefixHash(r, i)
    /\ \A i \in DOMAIN eng.claims : hash[eng.claims[i]] = PrefixHash(eng.req, i)

\* ... every file holds what it is named after, ...
Files == \A h \in DOMAIN ssd : ssd[h] = h

\* ... and the worker has the next hash of its request's chain in hand.
Chained ==
    /\ wrk.pc \in BusyPC => wrk.hash = PrefixHash(wrk.req, Len(Stored) + 1)
    /\ wrk.pc = "save" => wrk.hash = PrefixHash(wrk.req, Len(Stored))

Served == \A r \in Req : CorrectPrefix(r)

ContentInv == Labels /\ Files /\ Chained /\ Served

-----------------------------------------------------------------------------
(***************************************************************************)
(* How often a block occurs in a list of ids.                              *)
(***************************************************************************)

\* A list names a block where one of its places does.
LEMMA OccFinite ==
    ASSUME NEW s \in Seq(Block), NEW b
    PROVE  /\ DOMAIN s = 1..Len(s) /\ Len(s) \in Nat
           /\ IsFiniteSet({i \in DOMAIN s : s[i] = b})
           /\ Occurrences(s, b) \in Nat
<1>1. Len(s) \in Nat /\ DOMAIN s = 1..Len(s)
  OBVIOUS
<1>2. IsFiniteSet(1..Len(s))
  BY <1>1, FS_Interval
<1>3. {i \in DOMAIN s : s[i] = b} \in SUBSET (1..Len(s))
  BY <1>1
<1> QED BY <1>1, <1>2, <1>3, FS_Subset, OccurrencesNat

\* The empty list names nothing.
LEMMA OccEmpty ==
    ASSUME NEW b
    PROVE  Occurrences(<<>>, b) = 0
<1>1. {i \in DOMAIN <<>> : <<>>[i] = b} = {}
  OBVIOUS
<1> QED BY <1>1, FS_EmptySet DEF Occurrences

\* A block that is in the list occurs in it, and no other does.
LEMMA OccRange ==
    ASSUME NEW s \in Seq(Block), NEW b
    PROVE  /\ b \in Range(s) => Occurrences(s, b) >= 1
           /\ b \notin Range(s) => Occurrences(s, b) = 0
<1> DEFINE at == {i \in DOMAIN s : s[i] = b}
<1>1. IsFiniteSet(at) /\ Cardinality(at) \in Nat /\ Occurrences(s, b) = Cardinality(at)
  BY OccFinite DEF Occurrences
<1>2. b \in Range(s) => at # {}
  BY DEF Range
<1>3. b \notin Range(s) => at = {}
  BY DEF Range
<1> HIDE DEF at
<1> QED BY <1>1, <1>2, <1>3, FS_EmptySet

\* One more id at the end.
LEMMA OccAppend ==
    ASSUME NEW s \in Seq(Block), NEW x \in Block, NEW b
    PROVE  Occurrences(Append(s, x), b) = Occurrences(s, b) + (IF x = b THEN 1 ELSE 0)
<1> DEFINE a == Append(s, x)
           n == Len(s) + 1
           at == {i \in DOMAIN s : s[i] = b}
           bt == {i \in DOMAIN a : a[i] = b}
<1>1. /\ DOMAIN s = 1..Len(s) /\ Len(s) \in Nat /\ DOMAIN a = 1..n
      /\ \A i \in 1..Len(s) : a[i] = s[i]
      /\ a[n] = x
  OBVIOUS
<1>2. IsFiniteSet(at) /\ Occurrences(s, b) = Cardinality(at)
      /\ Cardinality(at) \in Nat /\ Occurrences(a, b) = Cardinality(bt)
  BY OccFinite DEF Occurrences
<1> HIDE DEF a
<1>3. n \notin at
  BY <1>1
<1>4. CASE x = b
  <2>1. bt = at \union {n}
    BY <1>1, <1>4
  <2> HIDE DEF at, bt, n
  <2> QED BY <1>2, <1>3, <1>4, <2>1, FS_AddElement DEF a
<1>5. CASE x # b
  <2>1. bt = at
    BY <1>1, <1>5
  <2> HIDE DEF at, bt, n
  <2> QED BY <1>2, <1>5, <2>1 DEF a
<1> QED BY <1>4, <1>5

\* The first n elements of a list, and the rest.
LEMMA SubSeqFacts ==
    ASSUME NEW S, NEW s \in Seq(S), NEW n \in 0..Len(s)
    PROVE  /\ SubSeq(s, 1, n) \in Seq(S) /\ Len(SubSeq(s, 1, n)) = n
           /\ DOMAIN SubSeq(s, 1, n) = 1..n
           /\ \A i \in 1..n : SubSeq(s, 1, n)[i] = s[i]
           /\ SubSeq(s, n + 1, Len(s)) \in Seq(S)
           /\ Len(SubSeq(s, n + 1, Len(s))) = Len(s) - n
           /\ DOMAIN SubSeq(s, n + 1, Len(s)) = 1..(Len(s) - n)
           /\ \A i \in 1..(Len(s) - n) : SubSeq(s, n + 1, Len(s))[i] = s[n + i]
<1>1. /\ Len(s) \in Nat /\ n \in Nat /\ n <= Len(s)
      /\ \A i \in 1..Len(s) : s[i] \in S
  OBVIOUS
<1>2. SubSeq(s, 1, n) \in Seq(S)
  BY <1>1
<1>3. Len(SubSeq(s, 1, n)) = n
  BY <1>1
<1>4. \A i \in 1..n : SubSeq(s, 1, n)[i] = s[i]
  BY <1>1
<1>5. SubSeq(s, n + 1, Len(s)) \in Seq(S)
  BY <1>1
<1>6. Len(SubSeq(s, n + 1, Len(s))) = Len(s) - n
  BY <1>1
<1>7. \A i \in 1..(Len(s) - n) : SubSeq(s, n + 1, Len(s))[i] = s[n + i]
  BY <1>1
<1> QED BY <1>2, <1>3, <1>4, <1>5, <1>6, <1>7

\* A list cut in two.
LEMMA OccSplit ==
    ASSUME NEW s \in Seq(Block), NEW n \in 0..Len(s), NEW b
    PROVE  /\ SubSeq(s, 1, n) \in Seq(Block) /\ Len(SubSeq(s, 1, n)) = n
           /\ SubSeq(s, n + 1, Len(s)) \in Seq(Block)
           /\ Occurrences(s, b) = Occurrences(SubSeq(s, 1, n), b)
                                  + Occurrences(SubSeq(s, n + 1, Len(s)), b)
<1> DEFINE u == SubSeq(s, 1, n)
           v == SubSeq(s, n + 1, Len(s))
           at == {i \in DOMAIN s : s[i] = b}
           ut == {i \in DOMAIN u : u[i] = b}
           vt == {i \in DOMAIN v : v[i] = b}
           wt == {i \in at : i > n}
<1>1. /\ Len(s) \in Nat /\ n \in Nat /\ n <= Len(s) /\ DOMAIN s = 1..Len(s)
      /\ \A i \in 1..Len(s) : s[i] \in Block
  OBVIOUS
<1>2. /\ u \in Seq(Block) /\ Len(u) = n /\ DOMAIN u = 1..n
      /\ \A i \in 1..n : u[i] = s[i]
  BY SubSeqFacts
<1>3. /\ v \in Seq(Block) /\ Len(v) = Len(s) - n /\ DOMAIN v = 1..(Len(s) - n)
      /\ \A i \in 1..(Len(s) - n) : v[i] = s[n + i]
  BY SubSeqFacts
<1>4. /\ IsFiniteSet(at) /\ IsFiniteSet(ut) /\ IsFiniteSet(vt)
      /\ Occurrences(s, b) = Cardinality(at) /\ Occurrences(u, b) = Cardinality(ut)
      /\ Occurrences(v, b) = Cardinality(vt)
      /\ Cardinality(ut) \in Nat /\ Cardinality(vt) \in Nat
  BY <1>2, <1>3, OccFinite DEF Occurrences
<1> HIDE DEF u, v
<1>5. at = ut \union wt /\ ut \intersect wt = {}
  BY <1>1, <1>2
<1>6. ExistsBijection(vt, wt)
  <2> DEFINE f == [i \in vt |-> n + i]
  <2>1. \A i \in vt : n + i \in wt
    BY <1>1, <1>3
  <2>2. \A j \in wt : j - n \in vt /\ n + (j - n) = j
    BY <1>1, <1>3
  <2>3. \A i, j \in vt : f[i] = f[j] => i = j
    BY <1>1, <1>3
  <2>4. f \in [vt -> wt] /\ \A j \in wt : \E i \in vt : f[i] = j
    BY <2>1, <2>2
  <2> HIDE DEF vt, wt, f
  <2>5. f \in Bijection(vt, wt)
    BY <2>3, <2>4 DEF Bijection, Injection, Surjection, IsInjective
  <2> QED BY <2>5 DEF ExistsBijection
<1> HIDE DEF at, ut, vt, wt
<1>7. IsFiniteSet(wt) /\ Cardinality(wt) = Cardinality(vt)
  BY <1>4, <1>6, FS_Bijection
<1>8. Cardinality(at) = Cardinality(ut) + Cardinality(wt) - Cardinality(ut \intersect wt)
  BY <1>4, <1>5, <1>7, FS_Union
<1>9. Cardinality(ut \intersect wt) = 0
  BY <1>5, FS_EmptySet
<1> QED BY <1>2, <1>3, <1>4, <1>7, <1>8, <1>9 DEF u, v

\* One id taken off the front.
LEMMA OccTail ==
    ASSUME NEW s \in Seq(Block), s # <<>>, NEW b
    PROVE  /\ Head(s) \in Block /\ Tail(s) \in Seq(Block)
           /\ Occurrences(s, b) = Occurrences(Tail(s), b) + (IF Head(s) = b THEN 1 ELSE 0)
<1> DEFINE k == 1
           u == SubSeq(s, 1, k)
           v == SubSeq(s, k + 1, Len(s))
<1>1. /\ Head(s) \in Block /\ Tail(s) \in Seq(Block) /\ Len(s) \in Nat /\ k \in 0..Len(s)
      /\ <<>> \in Seq(Block) /\ Head(s) = s[1]
      /\ Len(Tail(s)) = Len(s) - 1 /\ \A i \in 1..(Len(s) - 1) : Tail(s)[i] = s[1 + i]
  OBVIOUS
<1>2. k = 1
  OBVIOUS
<1> HIDE DEF k
<1>3. /\ u \in Seq(Block) /\ Len(u) = k /\ \A i \in 1..k : u[i] = s[i]
      /\ v \in Seq(Block) /\ Len(v) = Len(s) - k
      /\ \A i \in 1..(Len(s) - k) : v[i] = s[k + i]
  <2>1. k \in 0..Len(s)
    BY <1>1
  <2> QED BY <2>1, SubSeqFacts
<1>4. Occurrences(s, b) = Occurrences(u, b) + Occurrences(v, b)
  BY <1>1, OccSplit
<1> HIDE DEF u, v
<1>5. v = Tail(s)
  BY <1>1, <1>2, <1>3
<1>6. u = Append(<<>>, Head(s))
  BY <1>1, <1>2, <1>3
<1>7. Occurrences(u, b) = Occurrences(<<>>, b) + (IF Head(s) = b THEN 1 ELSE 0)
  BY <1>1, <1>6, OccAppend
<1>8. Occurrences(<<>>, b) = 0 /\ Occurrences(Tail(s), b) \in Nat
  BY <1>1, OccEmpty, OccFinite
<1> QED BY <1>1, <1>4, <1>5, <1>7, <1>8

\* One id taken off the end.
LEMMA OccFront ==
    ASSUME NEW s \in Seq(Block), s # <<>>, NEW b
    PROVE  /\ SubSeq(s, 1, Len(s) - 1) \in Seq(Block) /\ s[Len(s)] \in Block
           /\ Len(SubSeq(s, 1, Len(s) - 1)) = Len(s) - 1
           /\ Occurrences(s, b) = Occurrences(SubSeq(s, 1, Len(s) - 1), b)
                                  + (IF s[Len(s)] = b THEN 1 ELSE 0)
<1> DEFINE u == SubSeq(s, 1, Len(s) - 1)
<1>1. /\ Len(s) \in Nat \ {0} /\ u \in Seq(Block) /\ Len(u) = Len(s) - 1
      /\ s[Len(s)] \in Block
      /\ \A i \in 1..Len(s) - 1 : u[i] = s[i]
  <2> DEFINE k == Len(s) - 1
  <2>1. Len(s) \in Nat \ {0} /\ s[Len(s)] \in Block /\ k \in 0..Len(s)
    OBVIOUS
  <2> HIDE DEF k
  <2>2. /\ SubSeq(s, 1, k) \in Seq(Block) /\ Len(SubSeq(s, 1, k)) = k
        /\ \A i \in 1..k : SubSeq(s, 1, k)[i] = s[i]
    BY <2>1, SubSeqFacts
  <2> QED BY <2>1, <2>2 DEF k
<1>2. Append(u, s[Len(s)]) = s
  <2> DEFINE a == Append(u, s[Len(s)])
  <2>1. a \in Seq(Block) /\ Len(a) = Len(s) /\ \A i \in 1..Len(s) : a[i] = s[i]
    BY <1>1
  <2> QED BY <2>1
<1> HIDE DEF u
<1>3. Occurrences(Append(u, s[Len(s)]), b)
        = Occurrences(u, b) + (IF s[Len(s)] = b THEN 1 ELSE 0)
  BY <1>1, OccAppend
<1> QED BY <1>1, <1>2, <1>3 DEF u

-----------------------------------------------------------------------------
(***************************************************************************)
(* Types.                                                                  *)
(***************************************************************************)

\* The engine's and the worker's records.
EngType == [pc : EngPC, req : Req \union {NoReq}, claims : Seq(Block),
            best : Seq(Block), todo : Seq(Block), swap : BOOLEAN, fire : SUBSET Block]
WrkType == [pc : WrkPC, req : Req \union {NoReq}, hash : Hash, blk : Block,
            tab : Seq(Block), swap : BOOLEAN]

\* The chain hash of a prefix, and how the next one extends it.
LEMMA PrefixHashFacts ==
    ASSUME NEW r \in Req
    PROVE  /\ Prompt[r] \in Seq(Tok) /\ Len(Prompt[r]) \in Nat
           /\ \A n \in 0..Len(Prompt[r]) :
                 PrefixHash(r, n) \in Hash /\ (n # 0 => PrefixHash(r, n) # NoHash)
           /\ PrefixHash(r, 0) = NoHash
           /\ \A n \in Nat : n < Len(Prompt[r]) =>
                 /\ Prompt[r][n + 1] \in Tok
                 /\ PrefixHash(r, n + 1)
                      = compute_block_hash(PrefixHash(r, n), Prompt[r][n + 1])
<1> DEFINE p == Prompt[r]
<1>1. p \in Seq(Tok) /\ Len(p) \in Nat /\ \A i \in 1..Len(p) : p[i] \in Tok
  BY PrefixAssumption DEF PrefixAssumption
<1> HIDE DEF p
<1>2. ASSUME NEW n \in 0..Len(p)
      PROVE  /\ SubSeq(p, 1, n) \in Seq(Tok) /\ Len(SubSeq(p, 1, n)) = n
             /\ \A i \in 1..n : SubSeq(p, 1, n)[i] = p[i]
  BY <1>1, SubSeqFacts
<1>3. ASSUME NEW n \in 0..Len(p)
      PROVE  SubSeq(p, 1, n) \in Hash /\ (n # 0 => SubSeq(p, 1, n) # NoHash)
  BY <1>2 DEF Hash, NoHash
<1>4. SubSeq(p, 1, 0) = NoHash
  BY <1>1 DEF NoHash
<1>5. ASSUME NEW n \in Nat, n < Len(p)
      PROVE  p[n + 1] \in Tok /\ SubSeq(p, 1, n + 1) = Append(SubSeq(p, 1, n), p[n + 1])
  <2> DEFINE k == n + 1
             u == SubSeq(p, 1, k)
             v == SubSeq(p, 1, n)
             a == Append(v, p[k])
  <2>1. k \in 0..Len(p) /\ n \in 0..Len(p) /\ k \in 1..Len(p) /\ k = n + 1
    BY <1>1, <1>5
  <2> HIDE DEF k
  <2>2. p[k] \in Tok
    BY <1>1, <2>1
  <2>3. u \in Seq(Tok) /\ Len(u) = k /\ \A i \in 1..k : u[i] = p[i]
    BY <1>2, <2>1
  <2>4. v \in Seq(Tok) /\ Len(v) = n /\ \A i \in 1..n : v[i] = p[i]
    BY <1>2, <2>1
  <2> HIDE DEF u, v
  <2>5. a \in Seq(Tok) /\ Len(a) = k /\ \A i \in 1..k : a[i] = p[i]
    BY <2>1, <2>2, <2>4
  <2> HIDE DEF a
  <2>6. u = a
    BY <2>3, <2>5
  <2> QED BY <2>2, <2>6 DEF u, v, a, k
<1> QED BY <1>1, <1>3, <1>4, <1>5 DEF PrefixHash, compute_block_hash, p

\* An allocation keeps the pool's types.
LEMMA AllocTyped ==
    ASSUME PoolTypeOK, NEW b, AllocateBlockInternal(b)
    PROVE  /\ b \in Block /\ freeQ' \in Seq(Block) /\ alloc' \subseteq Block
           /\ count' \in InitialBlocks .. MaxBlocks
<1>1. count \in 1..MaxBlocks /\ MaxBlocks \in Nat /\ count >= InitialBlocks /\ InitialBlocks \in Nat
  BY NullBlock DEF PoolTypeOK
<1>2. AllocQueue \in Seq(Block) /\ AllocCount \in count..MaxBlocks
  <2>1. CASE freeQ = <<>>
    <3>1. GrowChunk \in Nat
      BY PoolAssumption DEF PoolAssumption
    <3>2. /\ NewBlocks(GrowChunk) \in Seq(Block)
          /\ Min2(GrowChunk, MaxBlocks - count) \in 0..(MaxBlocks - count)
      BY <1>1, <3>1, NewBlocksRange
    <3> QED BY <1>1, <2>1, <3>2 DEF AllocQueue, AllocCount
  <2>2. CASE freeQ # <<>>
    BY <1>1, <2>2 DEF AllocQueue, AllocCount, PoolTypeOK
  <2> QED BY <2>1, <2>2
<1>3. /\ AllocQueue # <<>> /\ b = Head(AllocQueue) /\ freeQ' = Tail(AllocQueue)
      /\ count' = AllocCount /\ alloc' = alloc \union {b}
  BY DEF AllocateBlockInternal, CanAllocate
<1>4. b \in Block /\ freeQ' \in Seq(Block)
  BY <1>2, <1>3
<1> QED BY <1>1, <1>2, <1>3, <1>4 DEF PoolTypeOK

\* So does a step that forgets hashes.
LEMMA ResetTyped ==
    ASSUME PoolTypeOK, NEW S, ResetHash(S)
    PROVE  hash' \in [Block -> Hash] /\ parent' \in [Block -> Hash]
BY HashFacts DEF ResetHash, PoolTypeOK

\* So does every call the two threads make.
LEMMA CallsTyped ==
    ASSUME PoolTypeOK
    PROVE  /\ \A b \in Block : allocate_block(b) => PoolTypeOK'
           /\ \A b \in Block, h, p \in Hash : LazyRestore(h, p, b) => PoolTypeOK'
           /\ \A b \in Block : free_block(b) => PoolTypeOK'
           /\ \A b \in Block : increment_ref(b) => PoolTypeOK'
           /\ \A h \in Hash, b \in Block : ClaimCached(h, b) => PoolTypeOK'
           /\ \A s \in Seq(Block) : release_for_eviction(s) => PoolTypeOK'
           /\ \A b \in Block, h \in Hash : register_block_hash(b, h) => PoolTypeOK'
           /\ \A n \in Nat : evict_lru_blocks(n) => PoolTypeOK'
           /\ \A b \in Block : handle_memory_pressure(b) => PoolTypeOK'
           /\ UNCHANGED poolVars => PoolTypeOK'
<1>1. ASSUME NEW b \in Block, allocate_block(b) PROVE PoolTypeOK'
  BY <1>1, AllocTyped DEF allocate_block, PoolTypeOK
<1>2. ASSUME NEW b \in Block, NEW h \in Hash, NEW p \in Hash, LazyRestore(h, p, b)
      PROVE  PoolTypeOK'
  BY <1>2, AllocTyped DEF LazyRestore, PoolTypeOK
<1>3. ASSUME NEW b \in Block, free_block(b) PROVE PoolTypeOK'
  <2>1. CASE DropRef(b)
    BY <2>1 DEF DropRef, PoolTypeOK
  <2>2. CASE LastFree(b)
    <3> DEFINE orphans == IF hash[b] # NoHash THEN Orphans(hashMap \ Entries({b}), {hash[b]})
                                              ELSE {}
    <3>1. /\ ref' = [ref EXCEPT ![b] = @ - 1] /\ hashMap' \subseteq hashMap
          /\ ResetHash(orphans)
          /\ pending' \subseteq pending \union orphans \union {b}
          /\ alloc' \subseteq alloc /\ freeQ' = Append(freeQ, b) /\ count' = count
      BY <2>2 DEF LastFree
    <3>2. orphans \subseteq Block
      BY OrphanFacts
    <3> HIDE DEF orphans
    <3>3. freeQ' \in Seq(Block)
      BY <3>1 DEF PoolTypeOK
    <3>4. hash' \in [Block -> Hash] /\ parent' \in [Block -> Hash]
      BY <3>1, ResetTyped
    <3>5. ref' \in [Block -> Int]
      BY <3>1 DEF PoolTypeOK
    <3> QED BY <3>1, <3>2, <3>3, <3>4, <3>5 DEF PoolTypeOK
  <2>3. CASE FreeIgnored(b)
    BY <2>3 DEF FreeIgnored, PoolTypeOK, poolVars
  <2> QED BY <1>3, <2>1, <2>2, <2>3 DEF free_block
<1>4. ASSUME NEW b \in Block, increment_ref(b) PROVE PoolTypeOK'
  BY <1>4 DEF increment_ref, PoolTypeOK
<1>5. ASSUME NEW h \in Hash, NEW b \in Block, ClaimCached(h, b) PROVE PoolTypeOK'
  BY <1>5 DEF ClaimCached, PoolTypeOK
<1>6. ASSUME NEW s \in Seq(Block), release_for_eviction(s) PROVE PoolTypeOK'
  <2>1. \A b \in Block : Occurrences(s, b) \in Nat
    BY OccurrencesNat
  <2> QED BY <1>6, <2>1 DEF release_for_eviction, ReleasedRef, Min2, PoolTypeOK
<1>7. ASSUME NEW b \in Block, NEW h \in Hash, register_block_hash(b, h) PROVE PoolTypeOK'
  BY <1>7 DEF register_block_hash, PoolTypeOK
<1>8. ASSUME NEW n \in Nat, evict_lru_blocks(n) PROVE PoolTypeOK'
  <2> DEFINE victims == {freeQ[i] : i \in 1 .. Min2(n, Len(freeQ))}
             roots   == {hash[b] : b \in victims} \ {NoHash}
             orphans == IF roots = {} THEN {} ELSE Orphans(hashMap, roots)
  <2>1. /\ ResetHash(victims \union orphans) /\ hashMap' \subseteq hashMap
        /\ pending' = pending \union victims \union orphans
        /\ UNCHANGED <<count, freeQ, alloc, ref>>
    BY <1>8 DEF evict_lru_blocks
  <2>2. orphans \subseteq Block
    BY OrphanFacts
  <2>3. victims \subseteq Block
    BY DEF PoolTypeOK, Min2
  <2> HIDE DEF orphans, victims
  <2>4. hash' \in [Block -> Hash] /\ parent' \in [Block -> Hash]
    BY <2>1, ResetTyped
  <2> QED BY <2>1, <2>2, <2>3, <2>4 DEF PoolTypeOK
<1>9. ASSUME NEW b \in Block, handle_memory_pressure(b) PROVE PoolTypeOK'
  <2> DEFINE orphans == Orphans(hashMap \ Entries({b}), {hash[b]})
  <2>1. /\ ResetHash(orphans \union {b}) /\ hashMap' \subseteq hashMap
        /\ pending' = pending \union orphans \union {b}
        /\ alloc' = alloc \ {b} /\ freeQ' = Append(freeQ, b) /\ UNCHANGED <<count, ref>>
    BY <1>9 DEF handle_memory_pressure
  <2>2. orphans \subseteq Block
    BY OrphanFacts
  <2> HIDE DEF orphans
  <2>3. hash' \in [Block -> Hash] /\ parent' \in [Block -> Hash] /\ freeQ' \in Seq(Block)
    BY <2>1, ResetTyped DEF PoolTypeOK
  <2> QED BY <2>1, <2>2, <2>3 DEF PoolTypeOK
<1>10. ASSUME UNCHANGED poolVars PROVE PoolTypeOK'
  BY <1>10 DEF poolVars, PoolTypeOK
<1> QED BY <1>1, <1>2, <1>3, <1>4, <1>5, <1>6, <1>7, <1>8, <1>9, <1>10

-----------------------------------------------------------------------------
(***************************************************************************)
(* Counting holders: what a request's table stands for, and how a step     *)
(* that changes it for one request at most moves the sum.                  *)
(***************************************************************************)
Share(r, b) == IF Holding(r) THEN Occurrences(tables[r], b) ELSE 0

Shares(b) == SumFunctionOnSet([r \in Req |-> Share(r, b)], Req)

\* The worker's fresh block.
Fresh(b) == IF wrk.pc = "write" /\ wrk.blk = b THEN 1 ELSE 0

\* Every count is a natural number, and a request's share is part of the sum.
LEMMA HoldersParts ==
    ASSUME tables \in [Req -> Seq(Block)], deleting \in Seq(Block), eng \in EngType, NEW b
    PROVE  /\ Holders(b) = Shares(b) + Occurrences(eng.claims, b)
                           + Occurrences(eng.todo, b) + Occurrences(deleting, b) + Fresh(b)
           /\ Shares(b) \in Nat /\ Occurrences(eng.claims, b) \in Nat
           /\ Occurrences(eng.todo, b) \in Nat /\ Occurrences(deleting, b) \in Nat
           /\ Fresh(b) \in 0..1 /\ Holders(b) \in Nat
           /\ \A r \in Req : Share(r, b) \in Nat /\ Share(r, b) <= Shares(b)
<1> DEFINE f == [r \in Req |-> Share(r, b)]
<1>1. IsFiniteSet(Req)
  BY PrefixAssumption DEF PrefixAssumption
<1>2. \A r \in Req : Share(r, b) \in Nat
  BY OccurrencesNat DEF Share
<1>3. \A r \in Req : f[r] \in Nat /\ f[r] = Share(r, b)
  BY <1>2
<1> HIDE DEF f
<1>4. SumFunctionOnSet(f, Req) \in Int
  BY <1>1, <1>3, SumInt
<1>5. \A R \in SUBSET Req : SumFunctionOnSet(f, R) <= SumFunctionOnSet(f, Req)
  BY <1>1, <1>3, SumMonotone
<1>6. SumFunctionOnSet(f, {}) = 0 /\ {} \in SUBSET Req
  BY SumEmpty
<1>7. ASSUME NEW r \in Req PROVE SumFunctionOnSet(f, {r}) = Share(r, b) /\ {r} \in SUBSET Req
  <2>1. f[r] \in Int
    BY <1>3
  <2> QED BY <1>3, <2>1, SumSingleton
<1>8. SumFunctionOnSet(f, Req) = Shares(b)
  BY DEF Shares, f
<1>9. Shares(b) \in Nat /\ \A r \in Req : Share(r, b) <= Shares(b)
  <2>1. 0 <= Shares(b) /\ Shares(b) \in Int
    BY <1>4, <1>5, <1>6, <1>8
  <2>2. ASSUME NEW r \in Req PROVE Share(r, b) <= Shares(b)
    BY <1>5, <1>7, <1>8
  <2> QED BY <2>1, <2>2
<1>10. /\ Occurrences(eng.claims, b) \in Nat /\ Occurrences(eng.todo, b) \in Nat
       /\ Occurrences(deleting, b) \in Nat
  BY OccurrencesNat DEF EngType
<1>11. Fresh(b) \in 0..1
  BY DEF Fresh
<1>12. Holders(b) = Shares(b) + Occurrences(eng.claims, b)
                    + Occurrences(eng.todo, b) + Occurrences(deleting, b) + Fresh(b)
  BY Zenon DEF Holders, Shares, Share, Fresh
<1> QED BY <1>2, <1>9, <1>10, <1>11, <1>12

\* The same facts of the next state.
LEMMA HoldersPartsNext ==
    ASSUME tables' \in [Req -> Seq(Block)], deleting' \in Seq(Block), eng' \in EngType,
           NEW b
    PROVE  /\ Holders(b)' = Shares(b)' + Occurrences(eng'.claims, b)
                            + Occurrences(eng'.todo, b) + Occurrences(deleting', b)
                            + Fresh(b)'
           /\ Shares(b)' \in Nat /\ Occurrences(eng'.claims, b) \in Nat
           /\ Occurrences(eng'.todo, b) \in Nat /\ Occurrences(deleting', b) \in Nat
           /\ Fresh(b)' \in 0..1 /\ Holders(b)' \in Nat
           /\ \A r \in Req : Share(r, b)' \in Nat
<1> DEFINE f == [r \in Req |-> Share(r, b)']
<1>1. IsFiniteSet(Req)
  BY PrefixAssumption DEF PrefixAssumption
<1>2. \A r \in Req : Share(r, b)' \in Nat
  BY OccurrencesNat DEF Share
<1>3. \A r \in Req : f[r] \in Nat
  BY <1>2
<1> HIDE DEF f
<1>4. SumFunctionOnSet(f, Req) \in Int
  BY <1>1, <1>3, SumInt
<1>5. \A R \in SUBSET Req : SumFunctionOnSet(f, R) <= SumFunctionOnSet(f, Req)
  BY <1>1, <1>3, SumMonotone
<1>6. SumFunctionOnSet(f, {}) = 0 /\ {} \in SUBSET Req
  BY SumEmpty
<1>7. SumFunctionOnSet(f, Req) = Shares(b)'
  BY DEF Shares, f
<1>8. Shares(b)' \in Nat
  BY <1>4, <1>5, <1>6, <1>7
<1>9. /\ Occurrences(eng'.claims, b) \in Nat /\ Occurrences(eng'.todo, b) \in Nat
      /\ Occurrences(deleting', b) \in Nat
  BY OccurrencesNat DEF EngType
<1>10. Fresh(b)' \in 0..1
  BY DEF Fresh
<1>11. Holders(b)' = Shares(b)' + Occurrences(eng'.claims, b)
                     + Occurrences(eng'.todo, b) + Occurrences(deleting', b) + Fresh(b)'
  BY Zenon DEF Holders, Shares, Share, Fresh, Occurrences
<1> QED BY <1>2, <1>8, <1>9, <1>10, <1>11

\* No request's share changes.
LEMMA SharesKept ==
    ASSUME tables \in [Req -> Seq(Block)], NEW b,
           \A r \in Req : Share(r, b)' = Share(r, b)
    PROVE  Shares(b)' = Shares(b)
<1> DEFINE f == [r \in Req |-> Share(r, b)]
           g == [r \in Req |-> Share(r, b)']
<1>1. IsFiniteSet(Req)
  BY PrefixAssumption DEF PrefixAssumption
<1>2. \A r \in Req : f[r] \in Int /\ g[r] = f[r]
  BY OccurrencesNat DEF Share
<1>3. Shares(b)' = SumFunctionOnSet(g, Req) /\ Shares(b) = SumFunctionOnSet(f, Req)
  BY DEF Shares
<1> HIDE DEF f, g
<1> QED BY <1>1, <1>2, <1>3, SumSame

\* Only the share of x changes.
LEMMA ShareMoved ==
    ASSUME tables \in [Req -> Seq(Block)], tables' \in [Req -> Seq(Block)], NEW b,
           NEW x \in Req, \A r \in Req \ {x} : Share(r, b)' = Share(r, b)
    PROVE  Shares(b)' = Shares(b) - Share(x, b) + Share(x, b)'
<1> DEFINE f == [r \in Req |-> Share(r, b)]
           g == [r \in Req |-> Share(r, b)']
<1>1. IsFiniteSet(Req)
  BY PrefixAssumption DEF PrefixAssumption
<1>2. \A r \in Req : Share(r, b) \in Int /\ Share(r, b)' \in Int
  BY OccurrencesNat DEF Share
<1>3. \A r \in Req : f[r] \in Int /\ g[r] \in Int
  BY <1>2
<1>4. \A r \in Req \ {x} : g[r] = f[r]
  OBVIOUS
<1>5. f[x] = Share(x, b) /\ g[x] = Share(x, b)'
  OBVIOUS
<1>6. Shares(b)' = SumFunctionOnSet(g, Req) /\ Shares(b) = SumFunctionOnSet(f, Req)
  BY DEF Shares
<1> HIDE DEF f, g
<1>7. SumFunctionOnSet(g, Req) = SumFunctionOnSet(f, Req) - f[x] + g[x]
  BY <1>1, <1>3, <1>4, SumUpdate
<1> QED BY <1>5, <1>6, <1>7

-----------------------------------------------------------------------------
(***************************************************************************)
(* The steps. For each one: it keeps PrefixTypeInv and, as long as no      *)
(* store in flight is cancelled, ControlInv; how it moves the holders of a *)
(* block; and whether the blocks in use are the ones that were.            *)
(***************************************************************************)
Calm == ControlInv /\ "late_abort" \notin Env

\* Every block of a table was at the same place of that table, or of the claims
\* that became the table.
TablesKept ==
    \A r \in Req : Holding(r)' =>
        \A i \in DOMAIN tables'[r] :
            \/ Holding(r) /\ i \in DOMAIN tables[r] /\ tables'[r][i] = tables[r][i]
            \/ r = eng.req /\ i \in DOMAIN eng.claims /\ tables'[r][i] = eng.claims[i]

\* Every claim was one before.
ClaimsKept ==
    \A i \in DOMAIN eng'.claims :
        eng'.req = eng.req /\ i \in DOMAIN eng.claims /\ eng'.claims[i] = eng.claims[i]

Kept == TablesKept /\ ClaimsKept

\* What PrefixTypeInv says of each variable.
LEMMA TypeFacts ==
    ASSUME PrefixTypeInv
    PROVE  /\ PoolTypeOK /\ tables \in [Req -> Seq(Block)] /\ deleting \in Seq(Block)
           /\ eng \in EngType /\ wrk \in WrkType
           /\ phase \in [Req -> Phase] /\ served \in [Req -> Seq(Hash)]
           /\ <<>> \in Seq(Block) /\ Len(<<>>) = 0
BY DEF PrefixTypeInv, PrefixTypeOK, TypeOK, EngType, WrkType

\* A step that leaves the tables, the claims and the lists to free alone, and
\* does not change which requests hold their table.
LEMMA HoldersKept ==
    ASSUME tables \in [Req -> Seq(Block)], deleting \in Seq(Block), eng \in EngType,
           eng' \in EngType, UNCHANGED <<tables, deleting>>,
           eng'.claims = eng.claims, eng'.todo = eng.todo,
           eng'.req = eng.req \/ eng.claims = <<>>,
           \A r \in Req : Holding(r)' <=> Holding(r),
           \/ wrk'.pc = wrk.pc /\ wrk'.blk = wrk.blk
           \/ wrk'.pc # "write" /\ wrk.pc # "write"
    PROVE  Kept /\ \A b \in Block : Holders(b)' = Holders(b)
<1>1. TablesKept /\ ClaimsKept
  BY DEF TablesKept, ClaimsKept
<1>2. ASSUME NEW b \in Block PROVE Holders(b)' = Holders(b)
  <2>1. \A r \in Req : Share(r, b)' = Share(r, b)
    BY DEF Share
  <2>2. Shares(b)' = Shares(b)
    BY <2>1, SharesKept
  <2>3. Fresh(b)' = Fresh(b)
    BY DEF Fresh
  <2> QED BY <2>2, <2>3, HoldersParts, HoldersPartsNext
<1> QED BY <1>1, <1>2 DEF Kept

\* FetchStart.
LEMMA FetchStartStep ==
    ASSUME PrefixTypeInv, NEW r \in Req, FetchStart(r)
    PROVE  /\ PrefixTypeInv'
           /\ Calm => ControlInv' /\ Kept /\ \A b \in Block : Holders(b)' = Holders(b)
<1>1. /\ eng.pc = "idle" /\ ~eng.swap /\ eng.fire = {} /\ phase[r] = "new"
      /\ eng' = [EngIdle EXCEPT !.pc = "walk", !.req = r]
      /\ UNCHANGED <<poolVars, tables, deleting, cacheLock, wrk, entries, ssd, phase,
                     served, races, index, blockHashes>>
  BY DEF FetchStart, EngReady, PoolFrame, EngFrame, IndexFrame
<1>2. /\ eng' \in EngType /\ eng'.pc = "walk" /\ eng'.req = r /\ eng'.claims = <<>>
      /\ eng'.todo = <<>> /\ eng'.swap = FALSE /\ eng'.fire = {}
  BY <1>1, TypeFacts DEF EngIdle, EngType, EngPC
<1>3. PrefixTypeOK'
  BY <1>1, <1>2, CallsTyped DEF PrefixTypeInv, PrefixTypeOK, EngType, TypeOK, poolVars
<1>4. PrefixTypeInv'
  BY <1>1, <1>2, <1>3, TypeFacts, PrefixHashFacts
     DEF PrefixTypeInv, WalkPC, BusyPC, Table, Stored
<1>5. ASSUME Calm PROVE ControlInv' /\ Kept /\ \A b \in Block : Holders(b)' = Holders(b)
  <2>1. eng.claims = <<>> /\ eng.todo = <<>>
    BY <1>1, <1>5 DEF Calm, ControlInv, QuietPC, WalkPC
  <2>2. \A x \in Req : Holding(x)' <=> Holding(x)
    BY <1>1, <1>2 DEF Holding
  <2>3. ControlInv'
    BY <1>1, <1>2, <1>5, <2>2 DEF Calm, ControlInv, QuietPC, WalkPC, StorePC, BusyPC, Stored
  <2> QED BY <1>1, <1>2, <2>1, <2>2, <2>3, TypeFacts, HoldersKept
<1> QED BY <1>4, <1>5

\* Detaching keeps the types of the index and of its reverse map.
LEMMA DetachTyped ==
    ASSUME PrefixTypeOK, NEW S, Detach(S)
    PROVE  /\ DOMAIN index' \subseteq Hash /\ index' \in [DOMAIN index' -> Seq(Block)]
           /\ blockHashes' \in [Block -> SUBSET Hash]
<1> DEFINE dead == UNION {blockHashes[b] : b \in S}
<1>1. /\ index' = [h \in DOMAIN index \ dead |-> index[h]]
      /\ blockHashes' = [b \in Block |-> IF b \in S THEN {} ELSE blockHashes[b]]
  BY DEF Detach
<1> HIDE DEF dead
<1>2. DOMAIN index \subseteq Hash /\ \A h \in DOMAIN index : index[h] \in Seq(Block)
  BY DEF PrefixTypeOK
<1>3. DOMAIN index' \subseteq Hash /\ index' \in [DOMAIN index' -> Seq(Block)]
  BY <1>1, <1>2
<1>4. blockHashes' \in [Block -> SUBSET Hash]
  BY <1>1 DEF PrefixTypeOK
<1> QED BY <1>3, <1>4

\* EngSwap.
LEMMA EngSwapStep ==
    ASSUME PrefixTypeInv, EngSwap
    PROVE  /\ PrefixTypeInv'
           /\ Calm => ControlInv' /\ Kept /\ \A b \in Block : Holders(b)' = Holders(b)
<1>1. /\ eng.swap /\ pending' = {} /\ eng' = [eng EXCEPT !.swap = FALSE, !.fire = pending]
      /\ UNCHANGED <<count, freeQ, alloc, ref, hash, parent, hashMap>>
      /\ UNCHANGED <<tables, deleting, cacheLock, wrk, entries, ssd, phase,
                     served, races, index, blockHashes>>
  BY DEF EngSwap, flush, EngFrame, IndexFrame
<1>2. PoolTypeOK'
  BY <1>1, TypeFacts DEF PoolTypeOK
<1>3. /\ eng' \in EngType /\ eng'.pc = eng.pc /\ eng'.req = eng.req
      /\ eng'.claims = eng.claims /\ eng'.todo = eng.todo /\ eng'.best = eng.best
      /\ eng'.swap = FALSE
  BY <1>1, TypeFacts DEF EngType, PoolTypeOK
<1>4. PrefixTypeOK'
  BY <1>1, <1>2, <1>3 DEF PrefixTypeInv, PrefixTypeOK, EngType, TypeOK
<1>5. PrefixTypeInv'
  BY <1>1, <1>3, <1>4 DEF PrefixTypeInv, WalkPC, BusyPC, Table, Stored
<1>6. ASSUME Calm PROVE ControlInv' /\ Kept /\ \A b \in Block : Holders(b)' = Holders(b)
  <2>1. \A x \in Req : Holding(x)' <=> Holding(x)
    BY <1>1, <1>3 DEF Holding
  <2>2. ControlInv'
    BY <1>1, <1>3, <1>6, <2>1 DEF Calm, ControlInv, QuietPC, WalkPC, StorePC, BusyPC, Stored
  <2> QED BY <1>1, <1>3, <2>1, <2>2, TypeFacts, HoldersKept
<1> QED BY <1>5, <1>6

\* EngFire.
LEMMA EngFireStep ==
    ASSUME PrefixTypeInv, EngFire
    PROVE  /\ PrefixTypeInv'
           /\ Calm => ControlInv' /\ Kept /\ \A b \in Block : Holders(b)' = Holders(b)
<1>1. PICK b \in eng.fire : Detach({b}) /\ eng' = [eng EXCEPT !.fire = @ \ {b}]
  BY DEF EngFire
<1>2. UNCHANGED <<poolVars, tables, deleting, cacheLock, wrk, entries, ssd, phase,
                  served, races>>
  BY DEF EngFire, PoolFrame, EngFrame
<1>3. /\ eng' \in EngType /\ eng'.pc = eng.pc /\ eng'.req = eng.req
      /\ eng'.claims = eng.claims /\ eng'.todo = eng.todo /\ eng'.best = eng.best
      /\ eng'.swap = eng.swap /\ (eng.fire = {} => eng'.fire = {})
  BY <1>1, TypeFacts DEF EngType
<1>4. PrefixTypeOK'
  <2>1. PrefixTypeOK
    BY DEF PrefixTypeInv
  <2>2. /\ DOMAIN index' \subseteq Hash /\ index' \in [DOMAIN index' -> Seq(Block)]
        /\ blockHashes' \in [Block -> SUBSET Hash]
    BY <1>1, <2>1, DetachTyped
  <2> QED BY <1>2, <1>3, <2>1, <2>2, CallsTyped DEF PrefixTypeOK, EngType, TypeOK, poolVars
<1>5. PrefixTypeInv'
  BY <1>2, <1>3, <1>4 DEF PrefixTypeInv, WalkPC, BusyPC, Table, Stored
<1>6. ASSUME Calm PROVE ControlInv' /\ Kept /\ \A x \in Block : Holders(x)' = Holders(x)
  <2>1. \A x \in Req : Holding(x)' <=> Holding(x)
    BY <1>2, <1>3 DEF Holding
  <2>2. ControlInv'
    BY <1>2, <1>3, <1>6, <2>1 DEF Calm, ControlInv, QuietPC, WalkPC, StorePC, BusyPC, Stored
  <2> QED BY <1>2, <1>3, <2>1, <2>2, TypeFacts, HoldersKept
<1> QED BY <1>5, <1>6

\* A walk that takes one more block: the claims grow by it, and nothing else
\* that is counted changes.
LEMMA ClaimTaken ==
    ASSUME PrefixTypeInv, NEW b \in Block, eng.pc = "walk",
           Len(eng.claims) < Len(Prompt[eng.req]),
           eng' = [eng EXCEPT !.claims = Append(@, b)],
           UNCHANGED <<tables, deleting, cacheLock, wrk, entries, ssd, phase, served,
                       races, index, blockHashes>>,
           PoolTypeOK'
    PROVE  /\ PrefixTypeInv'
           /\ Calm => /\ ControlInv' /\ TablesKept
                      /\ \A x \in Block : Holders(x)' = Holders(x) + (IF b = x THEN 1 ELSE 0)
<1>1. /\ eng' \in EngType /\ eng'.pc = "walk" /\ eng'.req = eng.req
      /\ eng'.claims = Append(eng.claims, b) /\ eng'.todo = eng.todo
      /\ eng'.swap = eng.swap /\ eng'.fire = eng.fire
  <2>1. eng.claims \in Seq(Block) /\ eng \in EngType
    BY TypeFacts DEF EngType
  <2>2. Append(eng.claims, b) \in Seq(Block)
    BY <2>1
  <2> QED BY <2>1, <2>2 DEF EngType
<1>2. Len(eng'.claims) <= Len(Prompt[eng.req]) /\ eng.req \in Req
  <2>1. eng.req \in Req /\ eng.claims \in Seq(Block)
    BY TypeFacts DEF PrefixTypeInv, EngType
  <2>2. Len(Append(eng.claims, b)) = Len(eng.claims) + 1 /\ Len(eng.claims) \in Nat
    BY <2>1
  <2> QED BY <1>1, <2>1, <2>2, PrefixHashFacts
<1>3. PrefixTypeOK'
  BY <1>1 DEF PrefixTypeInv, PrefixTypeOK, EngType, TypeOK
<1>4. PrefixTypeInv'
  BY <1>1, <1>2, <1>3 DEF PrefixTypeInv, WalkPC, BusyPC, Table, Stored
<1>5. ASSUME Calm
      PROVE  /\ ControlInv' /\ TablesKept
             /\ \A x \in Block : Holders(x)' = Holders(x) + (IF b = x THEN 1 ELSE 0)
  <2>1. \A x \in Req : Holding(x)' <=> Holding(x)
    BY <1>1 DEF Holding
  <2>2. ControlInv'
    BY <1>1, <1>5, <2>1 DEF Calm, ControlInv, QuietPC, WalkPC, StorePC, BusyPC, Stored
  <2>3. TablesKept
    BY <2>1 DEF TablesKept
  <2>4. ASSUME NEW x \in Block PROVE Holders(x)' = Holders(x) + (IF b = x THEN 1 ELSE 0)
    <3>1. Shares(x)' = Shares(x)
      <4>1. \A r \in Req : Share(r, x)' = Share(r, x)
        BY <2>1 DEF Share
      <4> QED BY <4>1, TypeFacts, SharesKept
    <3>2. Fresh(x)' = Fresh(x)
      BY DEF Fresh
    <3>3. eng.claims \in Seq(Block)
      BY TypeFacts DEF EngType
    <3>4. Occurrences(eng'.claims, x) = Occurrences(eng.claims, x) + (IF b = x THEN 1 ELSE 0)
      BY <1>1, <3>3, OccAppend
    <3>5. /\ Holders(x) = Shares(x) + Occurrences(eng.claims, x)
                          + Occurrences(eng.todo, x) + Occurrences(deleting, x) + Fresh(x)
          /\ Shares(x) \in Nat /\ Occurrences(eng.claims, x) \in Nat
          /\ Occurrences(eng.todo, x) \in Nat /\ Occurrences(deleting, x) \in Nat
          /\ Fresh(x) \in 0..1
      BY TypeFacts, HoldersParts
    <3>6. Holders(x)' = Shares(x)' + Occurrences(eng'.claims, x)
                        + Occurrences(eng'.todo, x) + Occurrences(deleting', x) + Fresh(x)'
      BY <1>1, TypeFacts, HoldersPartsNext
    <3>7. Occurrences(eng'.todo, x) = Occurrences(eng.todo, x)
          /\ Occurrences(deleting', x) = Occurrences(deleting, x)
      BY <1>1
    <3> QED BY <3>1, <3>2, <3>4, <3>5, <3>6, <3>7
  <2> QED BY <2>2, <2>3, <2>4
<1> QED BY <1>4, <1>5

\* WalkClaim and WalkRestore: the next hash of the walk.
LEMMA WalkFacts ==
    ASSUME PrefixTypeInv, eng.pc = "walk", MoreWanted
    PROVE  /\ eng.req \in Req /\ Len(eng.claims) \in Nat
           /\ Len(eng.claims) < Len(Prompt[eng.req])
           /\ Wanted \in Hash /\ Wanted # NoHash
           /\ PrefixHash(eng.req, Len(eng.claims)) \in Hash
           /\ Prompt[eng.req][Len(eng.claims) + 1] \in Tok
           /\ Wanted = compute_block_hash(PrefixHash(eng.req, Len(eng.claims)),
                                          Prompt[eng.req][Len(eng.claims) + 1])
<1> DEFINE n == Len(eng.claims)
           k == n + 1
<1>1. eng.req \in Req /\ eng.claims \in Seq(Block)
  BY TypeFacts DEF PrefixTypeInv, EngType
<1>2. n \in Nat /\ n < Len(Prompt[eng.req])
  BY <1>1 DEF MoreWanted
<1>3. n \in 0..Len(Prompt[eng.req]) /\ k \in 0..Len(Prompt[eng.req]) /\ k # 0
  BY <1>1, <1>2, PrefixHashFacts
<1> HIDE DEF n
<1>4. /\ PrefixHash(eng.req, n) \in Hash
      /\ PrefixHash(eng.req, k) \in Hash /\ PrefixHash(eng.req, k) # NoHash
  <2> HIDE DEF k
  <2> QED BY <1>1, <1>3, PrefixHashFacts
<1>5. /\ Prompt[eng.req][n + 1] \in Tok
      /\ PrefixHash(eng.req, n + 1)
           = compute_block_hash(PrefixHash(eng.req, n), Prompt[eng.req][n + 1])
  BY <1>1, <1>2, PrefixHashFacts
<1> QED BY <1>1, <1>2, <1>4, <1>5 DEF n, Wanted

\* WalkClaim.
LEMMA WalkClaimStep ==
    ASSUME PrefixTypeInv, NEW b \in Block, eng.pc = "walk", MoreWanted,
           ClaimCached(Wanted, b) \/ LazyRestore(Wanted, PrefixHash(eng.req, Len(eng.claims)), b),
           eng' = [eng EXCEPT !.claims = Append(@, b)],
           EngFrame, IndexFrame, UNCHANGED <<tables, deleting, cacheLock>>
    PROVE  /\ PrefixTypeInv'
           /\ Calm => /\ ControlInv' /\ TablesKept
                      /\ \A x \in Block : Holders(x)' = Holders(x) + (IF b = x THEN 1 ELSE 0)
<1>1. PoolTypeOK'
  BY WalkFacts, TypeFacts, CallsTyped
<1> QED BY <1>1, WalkFacts, ClaimTaken DEF EngFrame, IndexFrame

-----------------------------------------------------------------------------
\* What the two threads hold of block b, and what they and request x do.
Hands(b) == Occurrences(eng.claims, b) + Occurrences(eng.todo, b)
            + Occurrences(deleting, b) + Fresh(b)
Part(x, b) == Share(x, b) + Hands(b)

\* Sums of five.
LEMMA FiveSum ==
    ASSUME NEW s \in Nat, NEW c \in Nat, NEW t \in Nat, NEW d \in Nat, NEW f \in 0..1
    PROVE  s + c + t + d + f = s + (c + t + d + f) /\ c + t + d + f \in Nat
OBVIOUS

\* The holders of a block are the requests and the hands.
LEMMA HoldersHands ==
    ASSUME tables \in [Req -> Seq(Block)], deleting \in Seq(Block), eng \in EngType, NEW b
    PROVE  /\ Holders(b) = Shares(b) + Hands(b) /\ Hands(b) \in Nat
           /\ Shares(b) \in Nat /\ Holders(b) \in Nat
           /\ \A r \in Req : Share(r, b) \in Nat /\ Share(r, b) <= Shares(b)
<1> DEFINE s == Shares(b)
           c == Occurrences(eng.claims, b)
           t == Occurrences(eng.todo, b)
           d == Occurrences(deleting, b)
           f == Fresh(b)
<1>1. /\ Holders(b) = s + c + t + d + f /\ Holders(b) \in Nat
      /\ s \in Nat /\ c \in Nat /\ t \in Nat /\ d \in Nat /\ f \in 0..1
      /\ \A r \in Req : Share(r, b) \in Nat /\ Share(r, b) <= Shares(b)
  BY HoldersParts
<1>2. Hands(b) = c + t + d + f
  BY DEF Hands
<1> HIDE DEF s, c, t, d, f
<1>3. s + c + t + d + f = s + (c + t + d + f) /\ c + t + d + f \in Nat
  BY <1>1, FiveSum
<1> QED BY <1>1, <1>2, <1>3 DEF s

\* The same of the next state.
LEMMA HoldersHandsNext ==
    ASSUME tables' \in [Req -> Seq(Block)], deleting' \in Seq(Block), eng' \in EngType,
           NEW b
    PROVE  /\ Holders(b)' = Shares(b)' + Hands(b)' /\ Hands(b)' \in Nat
           /\ Shares(b)' \in Nat /\ Holders(b)' \in Nat
           /\ \A r \in Req : Share(r, b)' \in Nat
<1>1. Hands(b)' = Occurrences(eng'.claims, b) + Occurrences(eng'.todo, b)
                  + Occurrences(deleting', b) + Fresh(b)'
  BY Zenon DEF Hands, Occurrences
<1> DEFINE s == Shares(b)'
           c == Occurrences(eng'.claims, b)
           t == Occurrences(eng'.todo, b)
           d == Occurrences(deleting', b)
           f == Fresh(b)'
<1>2. /\ Holders(b)' = s + c + t + d + f /\ Holders(b)' \in Nat
      /\ s \in Nat /\ c \in Nat /\ t \in Nat /\ d \in Nat /\ f \in 0..1
      /\ \A r \in Req : Share(r, b)' \in Nat
  BY HoldersPartsNext
<1>3. Hands(b)' = c + t + d + f
  BY <1>1
<1> HIDE DEF s, c, t, d, f
<1>4. s + c + t + d + f = s + (c + t + d + f) /\ c + t + d + f \in Nat
  BY <1>2, FiveSum
<1> QED BY <1>2, <1>3, <1>4 DEF s

\* A step that touches the table of one request at most moves the holders by
\* what it moves of that request's and the threads' part.
LEMMA HoldersMoved ==
    ASSUME tables \in [Req -> Seq(Block)], tables' \in [Req -> Seq(Block)],
           deleting \in Seq(Block), deleting' \in Seq(Block),
           eng \in EngType, eng' \in EngType, NEW x \in Req, NEW b,
           \A r \in Req \ {x} : (Holding(r)' <=> Holding(r)) /\ tables'[r] = tables[r]
    PROVE  /\ Holders(b)' = Holders(b) - Part(x, b) + Part(x, b)'
           /\ Holders(b) \in Nat /\ Holders(b)' \in Nat
           /\ Part(x, b) \in Nat /\ Part(x, b)' \in Nat /\ Part(x, b) <= Holders(b)
<1>1. \A r \in Req \ {x} : Share(r, b)' = Share(r, b)
  BY DEF Share
<1>2. Shares(b)' = Shares(b) - Share(x, b) + Share(x, b)'
  BY <1>1, ShareMoved
<1>3. /\ Holders(b) = Shares(b) + Hands(b) /\ Hands(b) \in Nat
      /\ Shares(b) \in Nat /\ Holders(b) \in Nat
      /\ Share(x, b) \in Nat /\ Share(x, b) <= Shares(b)
  BY HoldersHands
<1>4. /\ Holders(b)' = Shares(b)' + Hands(b)' /\ Hands(b)' \in Nat
      /\ Shares(b)' \in Nat /\ Holders(b)' \in Nat
      /\ Share(x, b)' \in Nat
  BY HoldersHandsNext
<1> DEFINE s  == Shares(b)
           s2 == Shares(b)'
           p  == Share(x, b)
           p2 == Share(x, b)'
           q  == Hands(b)
           q2 == Hands(b)'
<1>5. Part(x, b) = p + q /\ Part(x, b)' = p2 + q2
  BY DEF Part
<1>6. /\ s \in Nat /\ s2 \in Nat /\ p \in Nat /\ p2 \in Nat /\ q \in Nat /\ q2 \in Nat
      /\ p <= s /\ s2 = s - p + p2 /\ Holders(b) = s + q /\ Holders(b)' = s2 + q2
  BY <1>2, <1>3, <1>4
<1> HIDE DEF s, s2, p, p2, q, q2
<1>7. s2 + q2 = (s + q) - (p + q) + (p2 + q2) /\ p + q <= s + q
      /\ p + q \in Nat /\ p2 + q2 \in Nat
  BY <1>6
<1> QED BY <1>3, <1>4, <1>5, <1>6, <1>7

\* Of a set of small numbers, some number is largest.
LEMMA LargestNat ==
    ASSUME NEW n \in Nat, NEW T, T \subseteq 0..n, T # {}
    PROVE  \E x \in T : \A y \in T : y <= x
<1> DEFINE U == {n - y : y \in T}
<1>1. U \subseteq Nat /\ U # {}
  <2>1. \A y \in T : n - y \in Nat
    OBVIOUS
  <2>2. \A u \in U : u \in Nat
    BY <2>1
  <2>3. PICK y \in T : TRUE
    OBVIOUS
  <2>4. n - y \in U
    OBVIOUS
  <2> QED BY <2>2, <2>4
<1>2. PICK u \in U : \A v \in U : u <= v
  BY <1>1, LeastNat
<1>3. PICK x \in T : u = n - x
  OBVIOUS
<1>4. \A y \in T : n - x <= n - y
  BY <1>2, <1>3
<1>5. \A y \in T : y \in Nat
  OBVIOUS
<1> QED BY <1>3, <1>4, <1>5

\* The entry _find_best_prefix_match finds is as long as the prefix it is filed
\* under, and so no longer than the prompt.
LEMMA BestMatchFacts ==
    ASSUME PrefixTypeInv, NEW r \in Req
    PROVE  /\ BestMatch(r) \in Seq(Block) /\ Len(BestMatch(r)) <= Len(Prompt[r])
           /\ BestMatch(r) # <<>> => \E h \in DOMAIN index : BestMatch(r) = index[h]
<1> DEFINE hits == {n \in 1 .. Len(Prompt[r]) :
                       /\ PrefixHash(r, n) \in DOMAIN index
                       /\ Len(index[PrefixHash(r, n)]) = n}
           m == CHOOSE n \in hits : \A k \in hits : k <= n
<1>1. BestMatch(r) = IF hits = {} THEN <<>> ELSE index[PrefixHash(r, m)]
  BY DEF BestMatch
<1>2. Len(Prompt[r]) \in Nat
  BY PrefixHashFacts
<1>3. hits # {} => m \in hits
  <2>1. hits \subseteq 0 .. Len(Prompt[r])
    BY <1>2
  <2>2. hits # {} => \E n \in hits : \A k \in hits : k <= n
    BY <1>2, <2>1, LargestNat
  <2> HIDE DEF hits
  <2> QED BY <2>2
<1> HIDE DEF m
<1>4. \A h \in DOMAIN index : index[h] \in Seq(Block)
  BY DEF PrefixTypeInv, PrefixTypeOK
<1>5. CASE hits = {}
  BY <1>1, <1>2, <1>5
<1>6. CASE hits # {}
  <2>1. m \in 1 .. Len(Prompt[r]) /\ PrefixHash(r, m) \in DOMAIN index
        /\ Len(index[PrefixHash(r, m)]) = m
    BY <1>3, <1>6
  <2>2. BestMatch(r) = index[PrefixHash(r, m)]
    BY <1>1, <1>6
  <2> QED BY <1>2, <1>4, <2>1, <2>2
<1> QED BY <1>5, <1>6

\* The part of a match that IndexClaim takes.
LEMMA LiveFacts ==
    ASSUME NEW s \in Seq(Block)
    PROVE  /\ Live(s) \in Seq(Block) /\ Len(Live(s)) <= Len(s)
           /\ \A i \in DOMAIN Live(s) : /\ Live(s)[i] \in alloc
                                        /\ hash[Live(s)[i]] # NoHash
<1> DEFINE dead == {i \in DOMAIN s : s[i] \notin alloc \/ hash[s[i]] = NoHash}
           k == CHOOSE i \in dead : \A j \in dead : i <= j
           n == k - 1
<1>1. Len(s) \in Nat /\ DOMAIN s = 1..Len(s) /\ dead \subseteq Nat
  OBVIOUS
<1>2. CASE dead = {}
  BY <1>1, <1>2 DEF Live
<1>3. CASE dead # {}
  <2>1. \E i \in dead : \A j \in dead : i <= j
    BY <1>1, <1>3, LeastNat
  <2>2. k \in dead /\ \A j \in dead : k <= j
    <3> HIDE DEF dead
    <3> QED BY <2>1
  <2>3. Live(s) = SubSeq(s, 1, n)
    BY <1>3 DEF Live
  <2> HIDE DEF k
  <2>4. n \in 0..Len(s) /\ \A i \in 1..n : i \in DOMAIN s /\ i \notin dead
    BY <1>1, <2>2
  <2> HIDE DEF n
  <2>5. /\ SubSeq(s, 1, n) \in Seq(Block) /\ Len(SubSeq(s, 1, n)) = n
        /\ DOMAIN SubSeq(s, 1, n) = 1..n /\ \A i \in 1..n : SubSeq(s, 1, n)[i] = s[i]
    BY <2>4, SubSeqFacts
  <2> QED BY <1>1, <2>3, <2>4, <2>5
<1> QED BY <1>2, <1>3

\* The part after a step, spelt out.
LEMMA PartNext ==
    ASSUME NEW x, NEW b
    PROVE  Part(x, b)' = (IF Holding(x)' THEN Occurrences(tables'[x], b) ELSE 0)
                         + (Occurrences(eng'.claims, b) + Occurrences(eng'.todo, b)
                            + Occurrences(deleting', b)
                            + (IF wrk'.pc = "write" /\ wrk'.blk = b THEN 1 ELSE 0))
BY Zenon DEF Part, Hands, Share, Fresh, Occurrences

-----------------------------------------------------------------------------
\* WalkEnd.
LEMMA WalkEndStep ==
    ASSUME PrefixTypeInv, WalkEnd
    PROVE  /\ PrefixTypeInv'
           /\ Calm => ControlInv' /\ Kept /\ \A b \in Block : Holders(b)' = Holders(b)
<1>1. /\ eng.pc = "walk" /\ eng' = [eng EXCEPT !.pc = "lookup", !.swap = TRUE]
      /\ UNCHANGED <<poolVars, tables, deleting, cacheLock, wrk, entries, ssd, phase,
                     served, races, index, blockHashes>>
  BY DEF WalkEnd, PoolFrame, EngFrame, IndexFrame
<1>2. /\ eng' \in EngType /\ eng'.pc = "lookup" /\ eng'.req = eng.req
      /\ eng'.claims = eng.claims /\ eng'.todo = eng.todo /\ eng'.best = eng.best
      /\ eng'.swap = TRUE /\ eng'.fire = eng.fire
  BY <1>1, TypeFacts DEF EngType, EngPC
<1>3. PrefixTypeOK'
  BY <1>1, <1>2, CallsTyped DEF PrefixTypeInv, PrefixTypeOK, EngType, TypeOK, poolVars
<1>4. PrefixTypeInv'
  BY <1>1, <1>2, <1>3 DEF PrefixTypeInv, WalkPC, BusyPC, Table, Stored
<1>5. ASSUME Calm PROVE ControlInv' /\ Kept /\ \A b \in Block : Holders(b)' = Holders(b)
  <2>1. \A x \in Req : Holding(x)' <=> Holding(x)
    BY <1>1, <1>2 DEF Holding
  <2>2. ControlInv'
    BY <1>1, <1>2, <1>5, <2>1 DEF Calm, ControlInv, QuietPC, WalkPC, StorePC, BusyPC, Stored
  <2> QED BY <1>1, <1>2, <2>1, <2>2, TypeFacts, HoldersKept
<1> QED BY <1>4, <1>5

\* IndexLookup.
LEMMA IndexLookupStep ==
    ASSUME PrefixTypeInv, IndexLookup
    PROVE  /\ PrefixTypeInv'
           /\ Calm => ControlInv' /\ Kept /\ \A b \in Block : Holders(b)' = Holders(b)
<1> DEFINE best == BestMatch(eng.req)
           at == IF Len(best) > Len(eng.claims) THEN "index" ELSE "table"
<1>1. /\ eng.pc = "lookup" /\ ~eng.swap /\ eng.fire = {}
      /\ eng' = [eng EXCEPT !.best = best, !.pc = at]
      /\ UNCHANGED <<poolVars, tables, deleting, cacheLock, wrk, entries, ssd, phase,
                     served, races, index, blockHashes>>
  BY DEF IndexLookup, EngReady, PoolFrame, EngFrame, IndexFrame
<1>2. eng.req \in Req /\ at \in {"index", "table"}
  BY <1>1 DEF PrefixTypeInv
<1>3. best \in Seq(Block) /\ Len(best) <= Len(Prompt[eng.req])
  BY <1>2, BestMatchFacts
<1> HIDE DEF best, at
<1>4. /\ eng' \in EngType /\ eng'.pc = at /\ eng'.req = eng.req
      /\ eng'.claims = eng.claims /\ eng'.todo = eng.todo /\ eng'.best = best
      /\ eng'.swap = eng.swap /\ eng'.fire = eng.fire
  BY <1>1, <1>2, <1>3, TypeFacts DEF EngType, EngPC
<1>5. PrefixTypeOK'
  BY <1>1, <1>4, CallsTyped DEF PrefixTypeInv, PrefixTypeOK, EngType, TypeOK, poolVars
<1>6. PrefixTypeInv'
  BY <1>1, <1>2, <1>3, <1>4, <1>5 DEF PrefixTypeInv, WalkPC, BusyPC, Table, Stored
<1>7. ASSUME Calm PROVE ControlInv' /\ Kept /\ \A b \in Block : Holders(b)' = Holders(b)
  <2>1. \A x \in Req : Holding(x)' <=> Holding(x)
    BY <1>1, <1>2, <1>4 DEF Holding
  <2>2. ControlInv'
    BY <1>1, <1>2, <1>4, <1>7, <2>1 DEF Calm, ControlInv, QuietPC, WalkPC, StorePC, BusyPC, Stored
  <2> QED BY <1>1, <1>4, <2>1, <2>2, TypeFacts, HoldersKept
<1> QED BY <1>6, <1>7

\* UnclaimEnd.
LEMMA UnclaimEndStep ==
    ASSUME PrefixTypeInv, UnclaimEnd
    PROVE  /\ PrefixTypeInv'
           /\ Calm => ControlInv' /\ Kept /\ \A b \in Block : Holders(b)' = Holders(b)
<1>1. /\ eng.pc = "unclaim" /\ ~eng.swap /\ eng.fire = {} /\ eng.todo = <<>>
      /\ eng' = [eng EXCEPT !.pc = "recon"] /\ cacheLock' = "none"
      /\ UNCHANGED <<poolVars, tables, deleting, wrk, entries, ssd, phase,
                     served, races, index, blockHashes>>
  BY DEF UnclaimEnd, EngGoto, EngReady, PoolFrame, EngFrame, IndexFrame
<1>2. /\ eng' \in EngType /\ eng'.pc = "recon" /\ eng'.req = eng.req
      /\ eng'.claims = eng.claims /\ eng'.todo = eng.todo /\ eng'.best = eng.best
      /\ eng'.swap = eng.swap /\ eng'.fire = eng.fire
  BY <1>1, TypeFacts DEF EngType, EngPC
<1>3. PrefixTypeOK'
  BY <1>1, <1>2, CallsTyped DEF PrefixTypeInv, PrefixTypeOK, EngType, TypeOK, poolVars
<1>4. PrefixTypeInv'
  BY <1>1, <1>2, <1>3 DEF PrefixTypeInv, WalkPC, BusyPC, Table, Stored
<1>5. ASSUME Calm PROVE ControlInv' /\ Kept /\ \A b \in Block : Holders(b)' = Holders(b)
  <2>1. \A x \in Req : Holding(x)' <=> Holding(x)
    BY <1>1, <1>2 DEF Holding
  <2>2. ControlInv'
    BY <1>1, <1>2, <1>5, <2>1 DEF Calm, ControlInv, QuietPC, WalkPC, StorePC, BusyPC, Stored
  <2> QED BY <1>1, <1>2, <2>1, <2>2, TypeFacts, HoldersKept
<1> QED BY <1>4, <1>5

\* Unclaim and Drop: one block less to hand back.
LEMMA EngFreeStep ==
    ASSUME PrefixTypeInv, eng.pc \in {"unclaim", "drop", "trim"}, EngFreeNext
    PROVE  /\ PrefixTypeInv' /\ Head(eng.todo) \in Block /\ free_block(Head(eng.todo))
           /\ Calm => /\ ControlInv' /\ Kept
                      /\ \A b \in Block : Holders(b) = Holders(b)'
                                            + (IF Head(eng.todo) = b THEN 1 ELSE 0)
<1>1. /\ ~eng.swap /\ eng.fire = {} /\ eng.todo # <<>> /\ free_block(Head(eng.todo))
      /\ eng' = [eng EXCEPT !.todo = Tail(@), !.swap = TRUE]
      /\ UNCHANGED <<tables, deleting, cacheLock, wrk, entries, ssd, phase,
                     served, races, index, blockHashes>>
  BY DEF EngFreeNext, EngReady, EngFrame, IndexFrame
<1>2. eng.todo \in Seq(Block) /\ eng.req \in Req
  BY TypeFacts DEF EngType, PrefixTypeInv
<1>3. Head(eng.todo) \in Block /\ Tail(eng.todo) \in Seq(Block)
  BY <1>1, <1>2
<1>4. PoolTypeOK'
  BY <1>1, <1>3, TypeFacts, CallsTyped
<1>5. /\ eng' \in EngType /\ eng'.pc = eng.pc /\ eng'.req = eng.req
      /\ eng'.claims = eng.claims /\ eng'.todo = Tail(eng.todo) /\ eng'.best = eng.best
      /\ eng'.swap = TRUE /\ eng'.fire = eng.fire
  BY <1>1, <1>3, TypeFacts DEF EngType
<1>6. PrefixTypeOK'
  BY <1>1, <1>4, <1>5 DEF PrefixTypeInv, PrefixTypeOK, EngType, TypeOK
<1>7. PrefixTypeInv'
  BY <1>1, <1>5, <1>6 DEF PrefixTypeInv, WalkPC, BusyPC, Table, Stored
<1>8. ASSUME Calm
      PROVE  /\ ControlInv' /\ Kept
             /\ \A b \in Block : Holders(b) = Holders(b)' + (IF Head(eng.todo) = b THEN 1 ELSE 0)
  <2>1. \A x \in Req : Holding(x)' <=> Holding(x)
    BY <1>1, <1>5 DEF Holding
  <2>2. ControlInv'
    BY <1>1, <1>5, <1>8, <2>1 DEF Calm, ControlInv, QuietPC, WalkPC, StorePC, BusyPC, Stored
  <2>3. Kept
    BY <1>1, <1>5, <2>1 DEF Kept, TablesKept, ClaimsKept
  <2>4. ASSUME NEW b \in Block
        PROVE  Holders(b) = Holders(b)' + (IF Head(eng.todo) = b THEN 1 ELSE 0)
    <3> DEFINE x == eng.req
               d == IF Head(eng.todo) = b THEN 1 ELSE 0
               s == Share(x, b)
               c == Occurrences(eng.claims, b)
               t == Occurrences(Tail(eng.todo), b)
               e == Occurrences(deleting, b)
               f == Fresh(b)
    <3>1. d \in 0..1 /\ s \in Nat /\ c \in Nat /\ t \in Nat /\ e \in Nat /\ f \in 0..1
      <4>1. s \in Nat /\ c \in Nat /\ e \in Nat /\ f \in 0..1
        BY <1>2, TypeFacts, HoldersParts
      <4>2. t \in Nat
        BY <1>3, OccurrencesNat
      <4> QED BY <4>1, <4>2
    <3>2. Part(x, b) = s + (c + (t + d) + e + f)
      BY <1>1, <1>2, OccTail DEF Part, Hands
    <3>3. Part(x, b)' = s + (c + t + e + f)
      BY <1>1, <1>5, <2>1, <1>2, PartNext DEF Share, Fresh
    <3>4. /\ Holders(b)' = Holders(b) - Part(x, b) + Part(x, b)'
          /\ Holders(b) \in Nat /\ Holders(b)' \in Nat
          /\ Part(x, b) \in Nat /\ Part(x, b)' \in Nat /\ Part(x, b) <= Holders(b)
      BY <1>1, <1>2, <1>5, <2>1, TypeFacts, HoldersMoved
    <3> HIDE DEF s, c, t, e, f, d
    <3> QED BY <3>1, <3>2, <3>3, <3>4 DEF d
  <2> QED BY <2>2, <2>3, <2>4
<1> QED BY <1>1, <1>3, <1>7, <1>8

\* IndexClaim: the live blocks of the match become the request's table, and the
\* claims of the walk the list to hand back.
LEMMA IndexClaimStep ==
    ASSUME PrefixTypeInv, IndexClaim
    PROVE  /\ PrefixTypeInv'
           /\ UNCHANGED <<count, freeQ, alloc, hash, parent, hashMap, pending, deleting,
                          wrk, entries, ssd, phase, served, index, blockHashes>>
           /\ cacheLock = "none" /\ eng.req \in Req /\ Live(eng.best) \in Seq(Block)
           /\ eng'.fire = eng.fire /\ eng'.req = eng.req /\ eng'.swap = eng.swap
           /\ \A b \in Block : ref'[b] = ref[b] + Occurrences(Live(eng.best), b)
           /\ races' = races \/ (Live(eng.best) # <<>> /\ races' = races \union IndexRace(Live(eng.best)))
           /\ Calm => /\ ControlInv' /\ ClaimsKept
                      /\ \A r \in Req \ {eng.req} :
                            (Holding(r)' <=> Holding(r)) /\ tables'[r] = tables[r]
                      /\ \A r \in Req : r = eng.req =>
                            /\ ~Holding(r) /\ tables'[r] = Live(eng.best)
                            /\ Holding(r)' <=> Live(eng.best) # <<>>
                      /\ \A b \in Block : Holders(b)' = Holders(b)
                                            + Occurrences(Live(eng.best), b)
<1> DEFINE live == Live(eng.best)
<1>0. PICK r \in Req : r = eng.req
  BY DEF IndexClaim, PrefixTypeInv
<1>1. /\ eng.pc = "index" /\ cacheLock = "none" /\ r \in Req /\ phase[r] = "new"
      /\ UNCHANGED <<count, freeQ, alloc, hash, parent, hashMap, pending, deleting,
                     wrk, entries, ssd, phase, served, index, blockHashes>>
      /\ Len(eng.best) <= Len(Prompt[r]) /\ Len(Prompt[r]) \in Nat
      /\ Len(eng.claims) <= Len(Prompt[r])
      /\ eng \in EngType /\ tables \in [Req -> Seq(Block)]
  BY <1>0, TypeFacts, PrefixHashFacts DEF IndexClaim, IndexFrame, PrefixTypeInv, WalkPC
<1>2. live \in Seq(Block) /\ Len(live) <= Len(eng.best) /\ Len(live) \in Nat
      /\ Len(eng.best) \in Nat
  <2>1. eng.best \in Seq(Block)
    BY <1>1 DEF EngType
  <2>2. live \in Seq(Block) /\ Len(live) <= Len(eng.best)
    BY <2>1, LiveFacts
  <2> HIDE DEF live
  <2> QED BY <2>1, <2>2
<1>3. /\ tables' = [tables EXCEPT ![r] = live]
      /\ live = <<>> => /\ eng' = [eng EXCEPT !.pc = "table"]
                        /\ UNCHANGED <<ref, cacheLock, races>>
      /\ live # <<>> => /\ eng' = [eng EXCEPT !.pc = "unclaim", !.todo = eng.claims,
                                              !.claims = <<>>]
                        /\ ref' = [b \in Block |-> ref[b] + Occurrences(live, b)]
                        /\ cacheLock' = "engine"
                        /\ races' = races \union IndexRace(live)
  BY <1>0 DEF IndexClaim, EngGoto
<1>4. \A b : Occurrences(live, b) \in Nat /\ (live = <<>> => Occurrences(live, b) = 0)
  BY <1>2, OccurrencesNat, OccEmpty
<1> HIDE DEF live
<1>5. /\ tables' \in [Req -> Seq(Block)] /\ tables'[r] = live
      /\ \A x \in Req \ {r} : tables'[x] = tables[x]
  BY <1>1, <1>2, <1>3
<1>6. /\ ref' \in [Block -> Int] /\ \A b \in Block : ref'[b] = ref[b] + Occurrences(live, b)
  BY <1>3, <1>4, TypeFacts DEF PoolTypeOK
<1>7. /\ eng' \in EngType /\ eng'.req = r /\ eng'.fire = eng.fire /\ eng'.swap = eng.swap
      /\ live = <<>> => eng'.pc = "table" /\ eng'.claims = eng.claims /\ eng'.todo = eng.todo
      /\ live # <<>> => eng'.pc = "unclaim" /\ eng'.claims = <<>> /\ eng'.todo = eng.claims
  BY <1>0, <1>1, <1>3, TypeFacts DEF EngType, EngPC
<1>8. races' \subseteq {"index", "reuse"} /\ cacheLock' \in {"none", "engine"}
  BY <1>1, <1>3 DEF IndexRace, PrefixTypeInv, PrefixTypeOK
<1>9. PoolTypeOK'
  BY <1>1, <1>6, TypeFacts DEF PoolTypeOK
<1>10. PrefixTypeOK'
  BY <1>1, <1>5, <1>7, <1>8, <1>9 DEF PrefixTypeInv, PrefixTypeOK, EngType, TypeOK
<1>11. \A x \in Req : Len(tables'[x]) <= Len(Prompt[x])
  <2>1. Len(live) <= Len(Prompt[r])
    BY <1>1, <1>2
  <2> QED BY <1>5, <2>1 DEF PrefixTypeInv
<1>12. wrk.pc # "idle" => wrk.req \in Req /\ wrk.req # r
  BY <1>1 DEF PrefixTypeInv
<1>13. PrefixTypeInv'
  BY <1>0, <1>1, <1>5, <1>7, <1>10, <1>11, <1>12
     DEF PrefixTypeInv, WalkPC, BusyPC, Table, Stored
<1>14. ASSUME Calm
       PROVE  /\ ControlInv' /\ ClaimsKept
              /\ \A x \in Req \ {r} : (Holding(x)' <=> Holding(x)) /\ tables'[x] = tables[x]
              /\ ~Holding(r)
              /\ Holding(r)' <=> live # <<>>
              /\ \A b \in Block : Holders(b)' = Holders(b) + Occurrences(live, b)
  <2>1. /\ \A x \in Req \ {r} : Holding(x)' <=> Holding(x)
        /\ ~Holding(r) /\ (Holding(r)' <=> live # <<>>)
    BY <1>0, <1>1, <1>7 DEF Holding
  <2>2. ControlInv'
    BY <1>1, <1>3, <1>5, <1>7, <1>12, <1>14, <2>1
       DEF Calm, ControlInv, QuietPC, WalkPC, StorePC, BusyPC, Stored
  <2>3. ClaimsKept
    BY <1>0, <1>7 DEF ClaimsKept
  <2>4. ASSUME NEW b \in Block PROVE Holders(b)' = Holders(b) + Occurrences(live, b)
    <3> DEFINE o == Occurrences(live, b)
               c == Occurrences(eng.claims, b)
               e == Occurrences(deleting, b)
               f == Fresh(b)
    <3>1. o \in Nat /\ c \in Nat /\ e \in Nat /\ f \in 0..1
      BY <1>1, <1>4, TypeFacts, HoldersParts
    <3>2. eng.todo = <<>> /\ Occurrences(<<>>, b) = 0
      BY <1>1, <1>14, OccEmpty DEF Calm, ControlInv
    <3>3. Part(r, b) = 0 + (c + 0 + e + f)
      BY <2>1, <3>2 DEF Part, Hands, Share
    <3>4. Part(r, b)' = o + (c + e + f)
      <4>1. Part(r, b)' = (IF Holding(r)' THEN Occurrences(live, b) ELSE 0)
                          + (Occurrences(eng'.claims, b) + Occurrences(eng'.todo, b) + e + f)
        BY <1>1, <1>5, PartNext DEF Fresh
      <4>2. (IF Holding(r)' THEN Occurrences(live, b) ELSE 0) = o
        BY <1>4, <2>1
      <4>3. \/ Occurrences(eng'.claims, b) = c /\ Occurrences(eng'.todo, b) = 0
            \/ Occurrences(eng'.claims, b) = 0 /\ Occurrences(eng'.todo, b) = c
        BY <1>7, <3>2
      <4> HIDE DEF o, c, e, f
      <4> QED BY <3>1, <4>1, <4>2, <4>3
    <3>5. /\ Holders(b)' = Holders(b) - Part(r, b) + Part(r, b)'
          /\ Holders(b) \in Nat /\ Holders(b)' \in Nat
          /\ Part(r, b) \in Nat /\ Part(r, b)' \in Nat
      BY <1>1, <1>5, <1>7, <2>1, TypeFacts, HoldersMoved
    <3> HIDE DEF o, c, e, f
    <3> QED BY <3>1, <3>3, <3>4, <3>5 DEF o
  <2> QED BY <1>5, <2>1, <2>2, <2>3, <2>4
<1> QED BY <1>0, <1>1, <1>2, <1>3, <1>5, <1>6, <1>7, <1>13, <1>14 DEF live

\* The scheduler is done with fetching: the request runs.
LEMMA EngDoneStep ==
    ASSUME PrefixTypeInv, eng.pc \notin {"idle", "retire"}, EngDone(eng.req), PoolFrame,
           IndexFrame,
           UNCHANGED <<tables, deleting, cacheLock, wrk, entries, ssd, served, races>>
    PROVE  /\ PrefixTypeInv'
           /\ Calm /\ eng.claims = <<>> /\ eng.todo = <<>> /\ deleting = <<>> =>
                 /\ eng.pc # "unclaim" => ControlInv'
                 /\ Kept
                 /\ \A b \in Block : Holders(b)' = Holders(b)
<1>0. PICK r \in Req : r = eng.req
  BY DEF PrefixTypeInv
<1>1. /\ phase[r] = "new" /\ eng' = EngIdle /\ phase' = [phase EXCEPT ![r] = "running"]
      /\ UNCHANGED <<poolVars, index, blockHashes>>
      /\ phase \in [Req -> Phase] /\ tables \in [Req -> Seq(Block)]
      /\ deleting \in Seq(Block) /\ eng \in EngType
  BY <1>0, TypeFacts DEF EngDone, PoolFrame, IndexFrame, PrefixTypeInv
<1>2. /\ eng' \in EngType /\ eng'.pc = "idle" /\ eng'.claims = <<>> /\ eng'.todo = <<>>
      /\ eng'.swap = FALSE /\ eng'.fire = {} /\ eng'.req = NoReq
  BY <1>1, TypeFacts DEF EngIdle, EngType, EngPC
<1>3. /\ phase' \in [Req -> Phase] /\ phase'[r] = "running"
      /\ \A x \in Req \ {r} : phase'[x] = phase[x]
  BY <1>1 DEF Phase
<1>4. PrefixTypeOK'
  BY <1>1, <1>2, <1>3, CallsTyped DEF PrefixTypeInv, PrefixTypeOK, EngType, TypeOK, poolVars
<1>5. wrk.pc # "idle" => wrk.req \in Req /\ wrk.req # r
  BY <1>1 DEF PrefixTypeInv
<1>6. PrefixTypeInv'
  BY <1>1, <1>2, <1>3, <1>4, <1>5 DEF PrefixTypeInv, WalkPC, BusyPC, Table, Stored
<1>7. ASSUME Calm, eng.claims = <<>>, eng.todo = <<>>, deleting = <<>>
      PROVE  /\ eng.pc # "unclaim" => ControlInv'
             /\ Kept /\ \A b \in Block : Holders(b)' = Holders(b)
  <2>1. /\ \A x \in Req \ {r} : Holding(x)' <=> Holding(x)
        /\ Holding(r)' /\ (Holding(r) \/ tables[r] = <<>>)
    BY <1>0, <1>1, <1>2, <1>3, <1>5, <1>7 DEF Holding, Calm, ControlInv
  <2>2. ASSUME eng.pc # "unclaim" PROVE ControlInv'
    BY <1>0, <1>1, <1>2, <1>3, <1>5, <1>7, <2>1, <2>2
       DEF Calm, ControlInv, QuietPC, WalkPC, StorePC, BusyPC, Stored
  <2>3. Kept
    <3>1. DOMAIN tables[r] = {} \/ Holding(r)
      BY <2>1
    <3> QED BY <1>2, <2>1, <3>1 DEF Kept, TablesKept, ClaimsKept
  <2>4. ASSUME NEW b \in Block PROVE Holders(b)' = Holders(b)
    <3>1. \A x \in Req : Share(x, b)' = Share(x, b)
      BY <2>1, OccEmpty DEF Share
    <3>2. Shares(b)' = Shares(b)
      BY <1>1, <3>1, SharesKept
    <3>3. Fresh(b)' = Fresh(b)
      BY DEF Fresh
    <3> QED BY <1>1, <1>2, <1>7, <3>2, <3>3, HoldersParts, HoldersPartsNext
  <2> QED BY <2>2, <2>3, <2>4
<1> QED BY <1>6, <1>7

\* TableBuild.
LEMMA TableBuildStep ==
    ASSUME PrefixTypeInv, TableBuild
    PROVE  /\ PrefixTypeInv'
           /\ Calm => ControlInv' /\ Kept /\ \A b \in Block : Holders(b)' = Holders(b)
<1>0. PICK r \in Req : r = eng.req
  BY DEF TableBuild, PrefixTypeInv
<1>1. /\ eng.pc = "table" /\ phase[r] = "new"
      /\ PoolFrame /\ IndexFrame
      /\ UNCHANGED <<deleting, cacheLock, wrk, entries, ssd, served, races>>
      /\ tables \in [Req -> Seq(Block)] /\ eng \in EngType /\ eng.claims \in Seq(Block)
      /\ Len(eng.claims) <= Len(Prompt[r]) /\ deleting \in Seq(Block)
  BY <1>0, TypeFacts DEF TableBuild, PrefixTypeInv, WalkPC, EngType
<1>2. CASE eng.claims = <<>>
  <2>1. EngDone(eng.req) /\ UNCHANGED tables
    BY <1>2 DEF TableBuild, EngDone
  <2>2. Calm => eng.todo = <<>> /\ deleting = <<>>
    BY <1>1 DEF Calm, ControlInv
  <2> QED BY <1>1, <1>2, <2>1, <2>2, EngDoneStep
<1>3. CASE eng.claims # <<>>
  <2>1. /\ eng' = [eng EXCEPT !.pc = "recon", !.claims = <<>>]
        /\ tables' = [tables EXCEPT ![r] = eng.claims] /\ UNCHANGED phase
        /\ UNCHANGED <<poolVars, index, blockHashes>>
    BY <1>0, <1>1, <1>3 DEF TableBuild, PoolFrame, IndexFrame
  <2>2. /\ eng' \in EngType /\ eng'.pc = "recon" /\ eng'.claims = <<>>
        /\ eng'.todo = eng.todo /\ eng'.swap = eng.swap /\ eng'.fire = eng.fire
        /\ eng'.req = r
    BY <1>0, <1>1, <2>1, TypeFacts DEF EngType, EngPC
  <2>3. /\ tables' \in [Req -> Seq(Block)] /\ tables'[r] = eng.claims
        /\ \A x \in Req \ {r} : tables'[x] = tables[x]
    BY <1>1, <2>1
  <2>4. PrefixTypeOK'
    BY <1>1, <2>1, <2>2, <2>3, CallsTyped
       DEF PrefixTypeInv, PrefixTypeOK, EngType, TypeOK, poolVars
  <2>5. wrk.pc # "idle" => wrk.req \in Req /\ wrk.req # r
    BY <1>1 DEF PrefixTypeInv
  <2>6. PrefixTypeInv'
    BY <1>0, <1>1, <2>1, <2>2, <2>3, <2>4, <2>5
       DEF PrefixTypeInv, WalkPC, BusyPC, Table, Stored
  <2>7. ASSUME Calm PROVE ControlInv' /\ Kept /\ \A b \in Block : Holders(b)' = Holders(b)
    <3>1. /\ \A x \in Req \ {r} : Holding(x)' <=> Holding(x)
          /\ Holding(r)' /\ ~Holding(r)
      BY <1>0, <1>1, <2>1, <2>2 DEF Holding
    <3>2. ControlInv'
      BY <1>0, <1>1, <2>1, <2>2, <2>3, <2>5, <2>7, <3>1
         DEF Calm, ControlInv, QuietPC, WalkPC, StorePC, BusyPC, Stored
    <3>3. Kept
      BY <1>0, <2>2, <2>3, <3>1 DEF Kept, TablesKept, ClaimsKept
    <3>4. ASSUME NEW b \in Block PROVE Holders(b)' = Holders(b)
      <4> DEFINE c == Occurrences(eng.claims, b)
                 t == Occurrences(eng.todo, b)
                 e == Occurrences(deleting, b)
                 f == Fresh(b)
      <4>1. c \in Nat /\ t \in Nat /\ e \in Nat /\ f \in 0..1
        BY <1>1, HoldersParts
      <4>2. Part(r, b) = 0 + (c + t + e + f)
        BY <3>1 DEF Part, Hands, Share
      <4>3. Part(r, b)' = c + (0 + t + e + f)
        BY <1>1, <2>2, <2>3, <3>1, PartNext, OccEmpty DEF Fresh
      <4>4. /\ Holders(b)' = Holders(b) - Part(r, b) + Part(r, b)'
            /\ Holders(b) \in Nat /\ Holders(b)' \in Nat
            /\ Part(r, b) \in Nat /\ Part(r, b)' \in Nat
        BY <1>1, <2>2, <2>3, <3>1, HoldersMoved
      <4> HIDE DEF c, t, e, f
      <4> QED BY <4>1, <4>2, <4>3, <4>4
    <3> QED BY <3>2, <3>3, <3>4
  <2> QED BY <2>6, <2>7
<1> QED BY <1>2, <1>3

\* The leading blocks of a table that can be loaded.
LEMMA ValidFacts ==
    ASSUME Table \in Seq(Block)
    PROVE  /\ ValidBlocks \in 0 .. Len(Table) /\ Len(Table) \in Nat
           /\ \A i \in 1 .. ValidBlocks : Loadable(Table[i])
<1> DEFINE bad == {i \in DOMAIN Table : ~Loadable(Table[i])}
           k == CHOOSE i \in bad : \A j \in bad : i <= j
<1>1. Len(Table) \in Nat /\ DOMAIN Table = 1..Len(Table) /\ bad \subseteq Nat
  OBVIOUS
<1>2. CASE bad = {}
  <2>1. ValidBlocks = Len(Table)
    BY <1>2 DEF ValidBlocks
  <2> QED BY <1>1, <1>2, <2>1
<1>3. CASE bad # {}
  <2>1. \E i \in bad : \A j \in bad : i <= j
    BY <1>1, <1>3, LeastNat
  <2>2. k \in bad /\ \A j \in bad : k <= j
    <3> HIDE DEF bad
    <3> QED BY <2>1
  <2>3. ValidBlocks = k - 1
    BY <1>3 DEF ValidBlocks
  <2> HIDE DEF k
  <2>4. k \in 1..Len(Table) /\ \A i \in 1..(k - 1) : i \in DOMAIN Table /\ i \notin bad
    BY <1>1, <2>2
  <2> QED BY <1>1, <2>3, <2>4
<1> QED BY <1>2, <1>3

\* What is loaded for a list of loadable blocks.
LEMMA ContentsFacts ==
    ASSUME PrefixTypeInv, NEW s \in Seq(Block), \A i \in 1..Len(s) : Loadable(s[i])
    PROVE  Contents(s) \in Seq(Hash) /\ Len(Contents(s)) = Len(s)
<1>1. Len(s) \in Nat /\ DOMAIN s = 1..Len(s)
  OBVIOUS
<1>2. \A i \in 1..Len(s) : ssd[hash[s[i]]] \in Hash
  BY <1>1 DEF Loadable, has_block, PrefixTypeInv, PrefixTypeOK
<1>3. Contents(s) = [i \in 1..Len(s) |-> ssd[hash[s[i]]]]
  BY <1>1 DEF Contents
<1> QED BY <1>1, <1>2, <1>3

\* ReconstructAll.
LEMMA ReconstructAllStep ==
    ASSUME PrefixTypeInv, ReconstructAll
    PROVE  /\ PrefixTypeInv'
           /\ Calm => ControlInv' /\ Kept /\ \A b \in Block : Holders(b)' = Holders(b)
<1>0. PICK r \in Req : r = eng.req
  BY DEF ReconstructAll, PrefixTypeInv
<1>1. /\ eng.pc = "recon" /\ ValidBlocks = Len(Table)
      /\ served' = [served EXCEPT ![r] = Contents(Table)]
      /\ eng' = [eng EXCEPT !.pc = "rebuild"]
      /\ UNCHANGED <<poolVars, tables, deleting, cacheLock, wrk, entries, ssd, phase,
                     races, index, blockHashes>>
  BY <1>0 DEF ReconstructAll, EngGoto, PoolFrame, IndexFrame
<1>2. Table \in Seq(Block) /\ Table = tables[r]
  BY <1>0, TypeFacts DEF Table
<1>3. Contents(Table) \in Seq(Hash) /\ Len(Contents(Table)) = Len(Table)
  BY <1>1, <1>2, ValidFacts, ContentsFacts
<1>4. served' \in [Req -> Seq(Hash)] /\ Len(served'[r]) = Len(tables[r])
  BY <1>1, <1>2, <1>3, TypeFacts
<1>5. /\ eng' \in EngType /\ eng'.pc = "rebuild" /\ eng'.req = eng.req
      /\ eng'.claims = eng.claims /\ eng'.todo = eng.todo /\ eng'.best = eng.best
      /\ eng'.swap = eng.swap /\ eng'.fire = eng.fire
  BY <1>1, TypeFacts DEF EngType, EngPC
<1>6. PrefixTypeOK'
  BY <1>1, <1>4, <1>5, CallsTyped DEF PrefixTypeInv, PrefixTypeOK, EngType, TypeOK, poolVars
<1>7. PrefixTypeInv'
  BY <1>0, <1>1, <1>4, <1>5, <1>6 DEF PrefixTypeInv, WalkPC, BusyPC, Table, Stored
<1>8. ASSUME Calm PROVE ControlInv' /\ Kept /\ \A b \in Block : Holders(b)' = Holders(b)
  <2>1. \A x \in Req : Holding(x)' <=> Holding(x)
    BY <1>1, <1>5 DEF Holding
  <2>2. ControlInv'
    BY <1>1, <1>5, <1>8, <2>1 DEF Calm, ControlInv, QuietPC, WalkPC, StorePC, BusyPC, Stored
  <2> QED BY <1>1, <1>5, <2>1, <2>2, TypeFacts, HoldersKept
<1> QED BY <1>7, <1>8

\* A table cut after its n-th block: the rest is to be freed.
LEMMA TableCut ==
    ASSUME PrefixTypeInv, NEW r \in Req, r = eng.req,
           eng.pc \in {"recon", "rebuild"}, NEW n \in 0 .. Len(Table),
           NEW at \in {"drop", "trim"}, NEW kept \in Seq(Hash), Len(kept) = n,
           eng' = [eng EXCEPT !.pc = at, !.todo = SubSeq(Table, n + 1, Len(Table))],
           tables' = [tables EXCEPT ![r] = SubSeq(Table, 1, n)],
           served' = [served EXCEPT ![r] = kept],
           UNCHANGED <<deleting, cacheLock, wrk, entries, ssd, phase, races, index,
                       blockHashes>>,
           PoolTypeOK'
    PROVE  /\ PrefixTypeInv'
           /\ Calm => ControlInv' /\ Kept /\ \A b \in Block : Holders(b)' = Holders(b)
<1> DEFINE u == SubSeq(Table, 1, n)
           v == SubSeq(Table, n + 1, Len(Table))
<1>1. /\ tables \in [Req -> Seq(Block)] /\ deleting \in Seq(Block) /\ eng \in EngType
      /\ served \in [Req -> Seq(Hash)] /\ Table = tables[r] /\ Table \in Seq(Block)
      /\ phase[r] = "new"
  BY TypeFacts DEF Table, PrefixTypeInv
<1>2. /\ u \in Seq(Block) /\ Len(u) = n /\ v \in Seq(Block) /\ n <= Len(Table)
      /\ DOMAIN u = 1..n /\ DOMAIN Table = 1..Len(Table)
      /\ \A i \in 1..n : u[i] = Table[i] /\ i \in 1..Len(Table)
  <2>1. DOMAIN Table = 1..Len(Table) /\ n <= Len(Table) /\ \A i \in 1..n : i \in 1..Len(Table)
    BY <1>1
  <2>2. u \in Seq(Block) /\ Len(u) = n /\ v \in Seq(Block) /\ DOMAIN u = 1..n
        /\ \A i \in 1..n : u[i] = Table[i]
    <3>1. Table \in Seq(Block) /\ n \in 0 .. Len(Table)
      BY <1>1
    <3> QED BY ONLY <3>1, SubSeqFacts
  <2> QED BY <2>1, <2>2
<1>3. \A b : Occurrences(Table, b) = Occurrences(u, b) + Occurrences(v, b)
             /\ Occurrences(u, b) \in Nat /\ Occurrences(v, b) \in Nat
  <2>1. \A b : Occurrences(Table, b) = Occurrences(u, b) + Occurrences(v, b)
    BY <1>1, OccSplit
  <2> HIDE DEF u, v
  <2> QED BY <1>2, <2>1, OccurrencesNat
<1> HIDE DEF u, v
<1>4. /\ tables' \in [Req -> Seq(Block)] /\ tables'[r] = u
      /\ \A x \in Req \ {r} : tables'[x] = tables[x]
      /\ served' \in [Req -> Seq(Hash)] /\ served'[r] = kept
  BY <1>1, <1>2 DEF u
<1>5. /\ eng' \in EngType /\ eng'.pc = at /\ eng'.req = r
      /\ eng'.claims = eng.claims /\ eng'.todo = v /\ eng'.best = eng.best
      /\ eng'.swap = eng.swap /\ eng'.fire = eng.fire
  BY <1>1, <1>2, TypeFacts DEF EngType, EngPC, v
<1>6. PrefixTypeOK'
  BY <1>4, <1>5 DEF PrefixTypeInv, PrefixTypeOK, EngType, TypeOK
<1>7. wrk.pc # "idle" => wrk.req \in Req /\ wrk.req # r
  BY <1>1 DEF PrefixTypeInv
<1>8. \A x \in Req : Len(tables'[x]) <= Len(Prompt[x])
  <2>1. Len(Table) <= Len(Prompt[r]) /\ Len(Prompt[r]) \in Nat /\ Len(Table) \in Nat
    BY <1>1, PrefixHashFacts DEF PrefixTypeInv
  <2>2. Len(u) <= Len(Prompt[r])
    BY <1>2, <2>1
  <2> QED BY <1>4, <2>2 DEF PrefixTypeInv
<1>9. PrefixTypeInv'
  BY <1>1, <1>2, <1>4, <1>5, <1>6, <1>7, <1>8
     DEF PrefixTypeInv, WalkPC, BusyPC, Table, Stored
<1>10. ASSUME Calm PROVE ControlInv' /\ Kept /\ \A b \in Block : Holders(b)' = Holders(b)
  <2>1. /\ \A x \in Req : Holding(x)' <=> Holding(x)
        /\ Holding(r)
    BY <1>1, <1>5 DEF Holding
  <2>2. ControlInv'
    BY <1>1, <1>4, <1>5, <1>7, <1>10, <2>1, SMTT(30)
       DEF Calm, ControlInv, QuietPC, WalkPC, StorePC, BusyPC, Stored
  <2>3. Kept
    BY <1>1, <1>2, <1>4, <1>5, <2>1, SMTT(30) DEF Kept, TablesKept, ClaimsKept
  <2>4. ASSUME NEW b \in Block PROVE Holders(b)' = Holders(b)
    <3> DEFINE p == Occurrences(u, b)
               q == Occurrences(v, b)
               c == Occurrences(eng.claims, b)
               e == Occurrences(deleting, b)
               f == Fresh(b)
    <3>1. p \in Nat /\ q \in Nat /\ c \in Nat /\ e \in Nat /\ f \in 0..1
      BY <1>1, <1>3, HoldersParts
    <3>2. Part(r, b) = (p + q) + (c + 0 + e + f)
      <4>1. eng.todo = <<>>
        BY <1>10 DEF Calm, ControlInv
      <4> QED BY <1>1, <1>3, <2>1, <4>1, OccEmpty DEF Part, Hands, Share
    <3>3. Part(r, b)' = p + (c + q + e + f)
      BY <1>4, <1>5, <2>1, PartNext DEF Fresh
    <3>4. /\ Holders(b)' = Holders(b) - Part(r, b) + Part(r, b)'
          /\ Holders(b) \in Nat /\ Holders(b)' \in Nat
          /\ Part(r, b) \in Nat /\ Part(r, b)' \in Nat
      BY <1>1, <1>4, <1>5, <2>1, HoldersMoved
    <3> HIDE DEF p, q, c, e, f
    <3> QED BY ONLY <3>1, <3>2, <3>3, <3>4
  <2> QED BY <2>2, <2>3, <2>4
<1> QED BY <1>9, <1>10

\* WalkBack.
LEMMA WalkBackStep ==
    ASSUME PrefixTypeInv, WalkBack
    PROVE  /\ PrefixTypeInv'
           /\ Calm => ControlInv' /\ Kept /\ \A b \in Block : Holders(b)' = Holders(b)
<1>0. PICK r \in Req : r = eng.req
  BY DEF WalkBack, PrefixTypeInv
<1>1. PICK n \in 1 .. Len(Table) - 1 :
          /\ eng'    = [eng EXCEPT !.pc = "trim",
                                   !.todo = SubSeq(Table, n + 1, Len(Table))]
          /\ tables' = [tables EXCEPT ![r] = SubSeq(tables[r], 1, n)]
          /\ served' = [served EXCEPT ![r] = SubSeq(served[r], 1, n)]
  BY <1>0 DEF WalkBack
<1>2. /\ eng.pc = "rebuild" /\ Len(served[r]) = Len(Table) /\ Table = tables[r]
      /\ UNCHANGED <<poolVars, deleting, cacheLock, wrk, entries, ssd, phase, races, index,
                     blockHashes>>
      /\ Table \in Seq(Block) /\ served[r] \in Seq(Hash)
  BY <1>0, TypeFacts DEF WalkBack, PoolFrame, IndexFrame, PrefixTypeInv, Table
<1>3. n \in 0 .. Len(Table) /\ n \in 0 .. Len(served[r])
  BY <1>2
<1>4. SubSeq(served[r], 1, n) \in Seq(Hash) /\ Len(SubSeq(served[r], 1, n)) = n
  <2> DEFINE v == served[r]
  <2>1. v \in Seq(Hash) /\ n \in 0..Len(v)
    BY <1>2, <1>3
  <2> HIDE DEF v
  <2>2. SubSeq(v, 1, n) \in Seq(Hash) /\ Len(SubSeq(v, 1, n)) = n
    BY <2>1, SubSeqFacts
  <2> QED BY <2>2 DEF v
<1>5. PoolTypeOK'
  BY <1>2, TypeFacts, CallsTyped
<1> QED BY <1>0, <1>1, <1>2, <1>3, <1>4, <1>5, TableCut

\* ReconstructPart.
LEMMA ReconstructPartStep ==
    ASSUME PrefixTypeInv, ReconstructPart
    PROVE  /\ PrefixTypeInv' /\ hashMap' \subseteq hashMap
           /\ UNCHANGED <<count, freeQ, alloc, ref, hash, parent, pending, wrk, races, index,
                          blockHashes, ssd, phase>>
           /\ eng'.fire = eng.fire /\ eng'.req = eng.req
           /\ Calm => ControlInv' /\ Kept /\ \A b \in Block : Holders(b)' = Holders(b)
<1>0. PICK r \in Req : r = eng.req
  BY DEF ReconstructPart, PrefixTypeInv
<1> DEFINE n == ValidBlocks
           kept == Contents(SubSeq(Table, 1, n))
<1>1. /\ eng.pc = "recon"
      /\ eng' = [eng EXCEPT !.pc = "drop", !.todo = SubSeq(Table, n + 1, Len(Table))]
      /\ tables' = [tables EXCEPT ![r] = SubSeq(Table, 1, n)]
      /\ served' = [served EXCEPT ![r] = kept]
      /\ UNCHANGED <<count, freeQ, alloc, ref, hash, parent, pending, deleting,
                     cacheLock, wrk, entries, ssd, phase, races, index, blockHashes>>
      /\ hashMap' \subseteq hashMap
  BY <1>0 DEF ReconstructPart, IndexFrame
<1>2. Table \in Seq(Block)
  BY <1>0, TypeFacts DEF Table
<1>3. n \in 0 .. Len(Table) /\ \A i \in 1..n : Loadable(Table[i])
  BY <1>2, ValidFacts
<1> HIDE DEF n
<1>4. kept \in Seq(Hash) /\ Len(kept) = n
  <2> DEFINE s == SubSeq(Table, 1, n)
  <2>1. s \in Seq(Block) /\ Len(s) = n /\ \A i \in 1..n : s[i] = Table[i]
    BY <1>2, <1>3, SubSeqFacts
  <2> HIDE DEF s
  <2>2. Contents(s) \in Seq(Hash) /\ Len(Contents(s)) = Len(s)
    BY <1>3, <2>1, ContentsFacts
  <2> QED BY <2>1, <2>2 DEF s
<1> HIDE DEF kept
<1>5. PoolTypeOK'
  BY <1>1, TypeFacts DEF PoolTypeOK
<1>6. eng'.fire = eng.fire /\ eng'.req = eng.req
  BY <1>1, TypeFacts DEF EngType
<1> QED BY <1>0, <1>1, <1>3, <1>4, <1>5, <1>6, TableCut

\* Rebuilt.
LEMMA RebuiltStep ==
    ASSUME PrefixTypeInv, Rebuilt \/ PreloadTimeout
    PROVE  /\ PrefixTypeInv'
           /\ Calm => ControlInv' /\ Kept /\ \A b \in Block : Holders(b)' = Holders(b)
<1>1. /\ eng.pc \in {"rebuild", "layers", "recon"} /\ EngDone(eng.req) /\ PoolFrame
      /\ IndexFrame
      /\ UNCHANGED <<tables, deleting, cacheLock, wrk, entries, ssd, served, races>>
  BY DEF Rebuilt, PreloadTimeout
<1>2. Calm => eng.claims = <<>> /\ eng.todo = <<>> /\ deleting = <<>>
  BY <1>1 DEF Calm, ControlInv, WalkPC
<1> QED BY <1>1, <1>2, EngDoneStep

\* EngDeleteEnd.
LEMMA EngDeleteEndStep ==
    ASSUME PrefixTypeInv, EngDeleteEnd
    PROVE  /\ PrefixTypeInv'
           /\ Calm => ControlInv' /\ Kept /\ \A b \in Block : Holders(b)' = Holders(b)
<1>1. /\ eng.pc = "delete" /\ deleting = <<>> /\ EngDone(eng.req) /\ PoolFrame
      /\ IndexFrame
      /\ UNCHANGED <<tables, deleting, cacheLock, wrk, entries, ssd, served, races>>
  BY DEF EngDeleteEnd
<1>2. Calm => eng.claims = <<>> /\ eng.todo = <<>>
  BY <1>1 DEF Calm, ControlInv, WalkPC
<1> QED BY <1>1, <1>2, EngDoneStep

\* DropEnd.
LEMMA DropEndStep ==
    ASSUME PrefixTypeInv, DropEnd
    PROVE  /\ PrefixTypeInv'
           /\ Calm => ControlInv' /\ Kept /\ \A b \in Block : Holders(b)' = Holders(b)
<1>1. /\ eng.pc \in {"drop", "trim"} /\ ~eng.swap /\ eng.fire = {} /\ eng.todo = <<>>
      /\ PoolFrame /\ IndexFrame
      /\ UNCHANGED <<tables, deleting, cacheLock, wrk, entries, ssd, served, races>>
  BY DEF DropEnd, EngReady
<1>2. CASE Table = <<>>
  <2>1. EngDone(eng.req)
    BY <1>2 DEF DropEnd
  <2>2. Calm => eng.claims = <<>> /\ deleting = <<>>
    BY <1>1 DEF Calm, ControlInv, WalkPC
  <2> QED BY <1>1, <2>1, <2>2, EngDoneStep
<1>3. CASE Table # <<>>
  <2> DEFINE at == IF eng.pc = "drop" THEN "rebuild" ELSE "layers"
  <2>1. /\ eng' = [eng EXCEPT !.pc = at]
        /\ UNCHANGED <<poolVars, tables, deleting, cacheLock, wrk, entries, ssd, phase,
                       served, races, index, blockHashes>>
    BY <1>1, <1>3 DEF DropEnd, EngGoto, PoolFrame, IndexFrame
  <2>2. at \in {"rebuild", "layers"} /\ (at = "rebuild" => eng.pc = "drop")
    OBVIOUS
  <2> HIDE DEF at
  <2>3. /\ eng' \in EngType /\ eng'.pc = at /\ eng'.req = eng.req
        /\ eng'.claims = eng.claims /\ eng'.todo = eng.todo /\ eng'.best = eng.best
        /\ eng'.swap = eng.swap /\ eng'.fire = eng.fire
    BY <2>1, <2>2, TypeFacts DEF EngType, EngPC
  <2>4. PrefixTypeOK'
    BY <2>1, <2>3, CallsTyped DEF PrefixTypeInv, PrefixTypeOK, EngType, TypeOK, poolVars
  <2>5. PrefixTypeInv'
    BY <1>1, <2>1, <2>2, <2>3, <2>4 DEF PrefixTypeInv, WalkPC, BusyPC, Table, Stored
  <2>6. ASSUME Calm PROVE ControlInv' /\ Kept /\ \A b \in Block : Holders(b)' = Holders(b)
    <3>1. \A x \in Req : Holding(x)' <=> Holding(x)
      BY <1>1, <2>1, <2>2, <2>3 DEF Holding
    <3>2. ControlInv'
      BY <1>1, <2>1, <2>2, <2>3, <2>6, <3>1
         DEF Calm, ControlInv, QuietPC, WalkPC, StorePC, BusyPC, Stored
    <3> QED BY <2>1, <2>3, <3>1, <3>2, TypeFacts, HoldersKept
  <2> QED BY <2>5, <2>6
<1> QED BY <1>2, <1>3

\* GiveUpTable.
LEMMA GiveUpTableStep ==
    ASSUME PrefixTypeInv, GiveUpTable
    PROVE  /\ PrefixTypeInv'
           /\ Calm => ControlInv' /\ Kept /\ \A b \in Block : Holders(b)' = Holders(b)
<1>0. PICK r \in Req : r = eng.req
  BY DEF GiveUpTable, PrefixTypeInv
<1>1. /\ eng.pc \in {"rebuild", "layers"} /\ phase[r] = "new"
      /\ deleting' = tables[r] /\ tables' = [tables EXCEPT ![r] = <<>>]
      /\ served' = [served EXCEPT ![r] = <<>>] /\ eng' = [eng EXCEPT !.pc = "delete"]
      /\ UNCHANGED <<poolVars, cacheLock, wrk, entries, ssd, phase, races, index,
                     blockHashes>>
      /\ tables \in [Req -> Seq(Block)] /\ deleting \in Seq(Block) /\ eng \in EngType
      /\ served \in [Req -> Seq(Hash)]
  BY <1>0, TypeFacts DEF GiveUpTable, delete_block_table, EngGoto, IndexFrame, PrefixTypeInv
<1>2. /\ tables' \in [Req -> Seq(Block)] /\ tables'[r] = <<>> /\ deleting' \in Seq(Block)
      /\ \A x \in Req \ {r} : tables'[x] = tables[x]
      /\ served' \in [Req -> Seq(Hash)]
  BY <1>1, TypeFacts
<1>3. /\ eng' \in EngType /\ eng'.pc = "delete" /\ eng'.req = r
      /\ eng'.claims = eng.claims /\ eng'.todo = eng.todo /\ eng'.best = eng.best
      /\ eng'.swap = eng.swap /\ eng'.fire = eng.fire
  BY <1>0, <1>1 DEF EngType, EngPC
<1>4. PrefixTypeOK'
  BY <1>1, <1>2, <1>3, CallsTyped DEF PrefixTypeInv, PrefixTypeOK, EngType, TypeOK, poolVars
<1>5. wrk.pc # "idle" => wrk.req \in Req /\ wrk.req # r
  BY <1>1 DEF PrefixTypeInv
<1>6. PrefixTypeInv'
  BY <1>1, <1>2, <1>3, <1>4, <1>5, PrefixHashFacts, TypeFacts
     DEF PrefixTypeInv, WalkPC, BusyPC, Table, Stored
<1>7. ASSUME Calm PROVE ControlInv' /\ Kept /\ \A b \in Block : Holders(b)' = Holders(b)
  <2>1. /\ \A x \in Req \ {r} : Holding(x)' <=> Holding(x)
        /\ Holding(r) /\ ~Holding(r)'
    BY <1>0, <1>1, <1>3 DEF Holding
  <2>2. ControlInv'
    BY <1>0, <1>1, <1>2, <1>3, <1>5, <1>7, <2>1
       DEF Calm, ControlInv, QuietPC, WalkPC, StorePC, BusyPC, Stored
  <2>3. Kept
    BY <1>0, <1>2, <1>3, <2>1 DEF Kept, TablesKept, ClaimsKept
  <2>4. ASSUME NEW b \in Block PROVE Holders(b)' = Holders(b)
    <3> DEFINE p == Occurrences(tables[r], b)
               c == Occurrences(eng.claims, b)
               t == Occurrences(eng.todo, b)
               f == Fresh(b)
    <3>1. p \in Nat /\ c \in Nat /\ t \in Nat /\ f \in 0..1
      BY <1>1, HoldersParts, OccurrencesNat
    <3>2. Part(r, b) = p + (c + t + 0 + f)
      <4>1. deleting = <<>>
        BY <1>1, <1>7 DEF Calm, ControlInv
      <4> QED BY <2>1, <4>1, OccEmpty DEF Part, Hands, Share
    <3>3. Part(r, b)' = 0 + (c + t + p + f)
      BY <1>1, <1>2, <1>3, <2>1, PartNext DEF Fresh
    <3>4. /\ Holders(b)' = Holders(b) - Part(r, b) + Part(r, b)'
          /\ Holders(b) \in Nat /\ Holders(b)' \in Nat
          /\ Part(r, b) \in Nat /\ Part(r, b)' \in Nat
      BY <1>1, <1>2, <1>3, <2>1, HoldersMoved
    <3> HIDE DEF p, c, t, f
    <3> QED BY ONLY <3>1, <3>2, <3>3, <3>4
  <2> QED BY <2>2, <2>3, <2>4
<1> QED BY <1>6, <1>7

\* EngDeleteStep: one block less to free.
LEMMA EngDeleteStepStep ==
    ASSUME PrefixTypeInv, EngDeleteStep
    PROVE  /\ PrefixTypeInv' /\ Head(deleting) \in Block /\ free_block(Head(deleting))
           /\ Calm => /\ ControlInv' /\ Kept
                      /\ \A b \in Block : Holders(b) = Holders(b)'
                                            + (IF Head(deleting) = b THEN 1 ELSE 0)
<1>0. PICK x \in Req : x = eng.req
  BY DEF EngDeleteStep, PrefixTypeInv
<1>1. /\ eng.pc = "delete" /\ ~eng.swap /\ eng.fire = {} /\ deleting # <<>>
      /\ free_block(Head(deleting)) /\ deleting' = Tail(deleting)
      /\ eng' = [eng EXCEPT !.swap = TRUE]
      /\ UNCHANGED <<tables, cacheLock, wrk, entries, ssd, phase,
                     served, races, index, blockHashes>>
      /\ deleting \in Seq(Block) /\ tables \in [Req -> Seq(Block)] /\ eng \in EngType
  BY TypeFacts DEF EngDeleteStep, DeleteStep, EngReady, EngFrame, IndexFrame
<1>2. Head(deleting) \in Block /\ Tail(deleting) \in Seq(Block)
  BY <1>1
<1>3. PoolTypeOK'
  BY <1>1, <1>2, TypeFacts, CallsTyped
<1>4. /\ eng' \in EngType /\ eng'.pc = eng.pc /\ eng'.req = eng.req
      /\ eng'.claims = eng.claims /\ eng'.todo = eng.todo /\ eng'.best = eng.best
      /\ eng'.swap = TRUE /\ eng'.fire = eng.fire
  BY <1>1 DEF EngType
<1>5. PrefixTypeOK'
  BY <1>1, <1>2, <1>3, <1>4 DEF PrefixTypeInv, PrefixTypeOK, EngType, TypeOK
<1>6. PrefixTypeInv'
  BY <1>1, <1>4, <1>5 DEF PrefixTypeInv, WalkPC, BusyPC, Table, Stored
<1>7. ASSUME Calm
      PROVE  /\ ControlInv' /\ Kept
             /\ \A b \in Block : Holders(b) = Holders(b)' + (IF Head(deleting) = b THEN 1 ELSE 0)
  <2>1. \A r \in Req : Holding(r)' <=> Holding(r)
    BY <1>1, <1>4 DEF Holding
  <2>2. ControlInv'
    BY <1>1, <1>4, <1>7, <2>1 DEF Calm, ControlInv, QuietPC, WalkPC, StorePC, BusyPC, Stored
  <2>3. Kept
    BY <1>1, <1>4, <2>1 DEF Kept, TablesKept, ClaimsKept
  <2>4. ASSUME NEW b \in Block
        PROVE  Holders(b) = Holders(b)' + (IF Head(deleting) = b THEN 1 ELSE 0)
    <3> DEFINE d == IF Head(deleting) = b THEN 1 ELSE 0
               s == Share(x, b)
               c == Occurrences(eng.claims, b)
               t == Occurrences(eng.todo, b)
               e == Occurrences(Tail(deleting), b)
               f == Fresh(b)
    <3>1. d \in 0..1 /\ s \in Nat /\ c \in Nat /\ t \in Nat /\ e \in Nat /\ f \in 0..1
      <4>1. s \in Nat /\ c \in Nat /\ t \in Nat /\ f \in 0..1
        BY <1>1, HoldersParts
      <4>2. e \in Nat
        BY <1>2, OccurrencesNat
      <4> QED BY <4>1, <4>2
    <3>2. Part(x, b) = s + (c + t + (e + d) + f)
      BY <1>1, OccTail DEF Part, Hands
    <3>3. Part(x, b)' = s + (c + t + e + f)
      BY <1>1, <1>4, <2>1, PartNext DEF Share, Fresh
    <3>4. /\ Holders(b)' = Holders(b) - Part(x, b) + Part(x, b)'
          /\ Holders(b) \in Nat /\ Holders(b)' \in Nat
          /\ Part(x, b) \in Nat /\ Part(x, b)' \in Nat
      BY <1>1, <1>2, <1>4, <2>1, HoldersMoved
    <3> HIDE DEF s, c, t, e, f, d
    <3>5. Holders(b) = Holders(b)' + d
      BY ONLY <3>1, <3>2, <3>3, <3>4
    <3> QED BY <3>5 DEF d
  <2> QED BY <2>2, <2>3, <2>4
<1> QED BY <1>1, <1>2, <1>6, <1>7

\* Finish.
LEMMA FinishStep ==
    ASSUME PrefixTypeInv, NEW r \in Req, Finish(r)
    PROVE  /\ PrefixTypeInv'
           /\ Calm => ControlInv' /\ Kept /\ \A b \in Block : Holders(b)' = Holders(b)
<1>1. /\ eng.pc = "idle" /\ phase[r] = "running" /\ phase' = [phase EXCEPT ![r] = "queued"]
      /\ UNCHANGED <<poolVars, tables, deleting, cacheLock, eng, wrk, entries, ssd, served,
                     races, index, blockHashes>>
      /\ phase \in [Req -> Phase]
  BY TypeFacts DEF Finish, PoolFrame, IndexFrame
<1>2. /\ phase' \in [Req -> Phase] /\ phase'[r] = "queued"
      /\ \A x \in Req \ {r} : phase'[x] = phase[x]
  BY <1>1 DEF Phase
<1>3. wrk.pc # "idle" => wrk.req \in Req /\ wrk.req # r
  BY <1>1 DEF PrefixTypeInv
<1>4. PrefixTypeOK'
  BY <1>1, <1>2, CallsTyped DEF PrefixTypeInv, PrefixTypeOK, TypeOK, poolVars
<1>5. PrefixTypeInv'
  BY <1>1, <1>2, <1>3, <1>4 DEF PrefixTypeInv, WalkPC, BusyPC, Table, Stored
<1>6. ASSUME Calm PROVE ControlInv' /\ Kept /\ \A b \in Block : Holders(b)' = Holders(b)
  <2>1. \A x \in Req : Holding(x)' <=> Holding(x)
    BY <1>1, <1>2, <1>3 DEF Holding
  <2>2. ControlInv'
    BY <1>1, <1>2, <1>3, <1>6, <2>1
       DEF Calm, ControlInv, QuietPC, WalkPC, StorePC, BusyPC, Stored
  <2> QED BY <1>1, <2>1, <2>2, TypeFacts, HoldersKept
<1> QED BY <1>5, <1>6

\* Reject: the request's references are forgotten.
LEMMA RejectStep ==
    ASSUME PrefixTypeInv, NEW r \in Req, Reject(r)
    PROVE  /\ PrefixTypeInv' /\ phase'[r] = "rejected"
           /\ Calm => ControlInv' /\ Kept /\ \A b \in Block : Holders(b)' <= Holders(b)
<1>1. /\ eng.pc = "idle" /\ phase[r] = "running"
      /\ phase' = [phase EXCEPT ![r] = "rejected"]
      /\ UNCHANGED <<poolVars, tables, deleting, cacheLock, eng, wrk, entries, ssd, served,
                     races, index, blockHashes>>
      /\ phase \in [Req -> Phase] /\ tables \in [Req -> Seq(Block)]
      /\ deleting \in Seq(Block) /\ eng \in EngType
  BY TypeFacts DEF Reject, PoolFrame, IndexFrame
<1>2. /\ phase' \in [Req -> Phase] /\ phase'[r] = "rejected"
      /\ \A x \in Req \ {r} : phase'[x] = phase[x]
  BY <1>1 DEF Phase
<1>3. wrk.pc # "idle" => wrk.req \in Req /\ wrk.req # r
  BY <1>1 DEF PrefixTypeInv
<1>4. PrefixTypeOK'
  BY <1>1, <1>2, CallsTyped DEF PrefixTypeInv, PrefixTypeOK, TypeOK, poolVars
<1>5. PrefixTypeInv'
  BY <1>1, <1>2, <1>3, <1>4 DEF PrefixTypeInv, WalkPC, BusyPC, Table, Stored
<1>6. ASSUME Calm PROVE ControlInv' /\ Kept /\ \A b \in Block : Holders(b)' <= Holders(b)
  <2>1. /\ \A x \in Req \ {r} : Holding(x)' <=> Holding(x)
        /\ Holding(r) /\ ~Holding(r)'
    BY <1>1, <1>2, <1>3 DEF Holding
  <2>2. ControlInv'
    BY <1>1, <1>2, <1>3, <1>6, <2>1
       DEF Calm, ControlInv, QuietPC, WalkPC, StorePC, BusyPC, Stored
  <2>3. Kept
    BY <1>1, <2>1 DEF Kept, TablesKept, ClaimsKept
  <2>4. ASSUME NEW b \in Block PROVE Holders(b)' <= Holders(b)
    <3> DEFINE p == Occurrences(tables[r], b)
               c == Occurrences(eng.claims, b)
               t == Occurrences(eng.todo, b)
               e == Occurrences(deleting, b)
               f == Fresh(b)
    <3>1. p \in Nat /\ c \in Nat /\ t \in Nat /\ e \in Nat /\ f \in 0..1
      BY <1>1, HoldersParts, OccurrencesNat
    <3>2. Part(r, b) = p + (c + t + e + f)
      BY <2>1 DEF Part, Hands, Share
    <3>3. Part(r, b)' = 0 + (c + t + e + f)
      BY <1>1, <2>1, PartNext DEF Fresh
    <3>4. /\ Holders(b)' = Holders(b) - Part(r, b) + Part(r, b)'
          /\ Holders(b) \in Nat /\ Holders(b)' \in Nat
          /\ Part(r, b) \in Nat /\ Part(r, b)' \in Nat
      BY <1>1, <2>1, HoldersMoved
    <3> HIDE DEF p, c, t, e, f
    <3> QED BY ONLY <3>1, <3>2, <3>3, <3>4
  <2> QED BY <2>2, <2>3, <2>4
<1> QED BY <1>1, <1>5, <1>6

\* Retire: the request's references are given back.
LEMMA RetireStep ==
    ASSUME PrefixTypeInv, NEW r \in Req, Retire(r)
    PROVE  /\ PrefixTypeInv' /\ release_for_eviction(tables[r]) /\ tables[r] \in Seq(Block)
           /\ UNCHANGED <<wrk, races, index, blockHashes, ssd>> /\ eng'.fire = eng.fire
           /\ Calm => /\ ControlInv' /\ Kept
                      /\ \A b \in Block : Holders(b) = Holders(b)' + Occurrences(tables[r], b)
<1>1. /\ eng.pc = "idle" /\ ~eng.swap /\ eng.fire = {}
      /\ phase[r] \in Abortable /\ release_for_eviction(tables[r])
      /\ eng' = [eng EXCEPT !.pc = "retire", !.req = r]
      /\ UNCHANGED <<tables, deleting, cacheLock, wrk, entries, ssd, phase, served,
                     races, index, blockHashes>>
      /\ phase \in [Req -> Phase] /\ tables \in [Req -> Seq(Block)]
      /\ deleting \in Seq(Block) /\ eng \in EngType
  BY TypeFacts DEF Retire, EngFrame, IndexFrame, EngReady
<1>2. phase[r] \in {"running", "queued", "storing"}
  BY <1>1 DEF Abortable
<1>3. /\ eng' \in EngType /\ eng'.pc = "retire" /\ eng'.req = r
      /\ eng'.claims = eng.claims /\ eng'.todo = eng.todo /\ eng'.best = eng.best
      /\ eng'.swap = eng.swap /\ eng'.fire = eng.fire
  BY <1>1 DEF EngType, EngPC
<1>4. PoolTypeOK'
  BY <1>1, TypeFacts, CallsTyped
<1>5. PrefixTypeOK'
  BY <1>1, <1>3, <1>4 DEF PrefixTypeInv, PrefixTypeOK, EngType, TypeOK
<1>6. PrefixTypeInv'
  BY <1>1, <1>2, <1>3, <1>5 DEF PrefixTypeInv, WalkPC, BusyPC, Table, Stored
<1>7. ASSUME Calm
      PROVE  /\ ControlInv' /\ Kept
             /\ \A b \in Block : Holders(b) = Holders(b)' + Occurrences(tables[r], b)
  <2>0. phase[r] = "running" /\ eng.claims = <<>>
    BY <1>1, <1>7 DEF Calm, ControlInv, Abortable, WalkPC
  <2>1. /\ \A x \in Req \ {r} : Holding(x)' <=> Holding(x)
        /\ Holding(r) /\ ~Holding(r)'
    BY <1>1, <1>3, <2>0 DEF Holding
  <2>2. ControlInv'
    BY <1>1, <1>3, <1>7, <2>0, <2>1
       DEF Calm, ControlInv, QuietPC, WalkPC, StorePC, BusyPC, Stored
  <2>3. Kept
    BY <1>1, <1>3, <2>0, <2>1 DEF Kept, TablesKept, ClaimsKept
  <2>4. ASSUME NEW b \in Block PROVE Holders(b) = Holders(b)' + Occurrences(tables[r], b)
    <3> DEFINE p == Occurrences(tables[r], b)
               c == Occurrences(eng.claims, b)
               t == Occurrences(eng.todo, b)
               e == Occurrences(deleting, b)
               f == Fresh(b)
    <3>1. p \in Nat /\ c \in Nat /\ t \in Nat /\ e \in Nat /\ f \in 0..1
      BY <1>1, HoldersParts, OccurrencesNat
    <3>2. Part(r, b) = p + (c + t + e + f)
      BY <2>1 DEF Part, Hands, Share
    <3>3. Part(r, b)' = 0 + (c + t + e + f)
      BY <1>1, <1>3, <2>1, PartNext DEF Fresh
    <3>4. /\ Holders(b)' = Holders(b) - Part(r, b) + Part(r, b)'
          /\ Holders(b) \in Nat /\ Holders(b)' \in Nat
          /\ Part(r, b) \in Nat /\ Part(r, b)' \in Nat
      BY <1>1, <1>3, <2>1, HoldersMoved
    <3> HIDE DEF p, c, t, e, f
    <3>5. Holders(b) = Holders(b)' + p
      BY ONLY <3>1, <3>2, <3>3, <3>4
    <3> QED BY <3>5 DEF p
  <2> QED BY <2>2, <2>3, <2>4
<1> QED BY <1>1, <1>3, <1>6, <1>7

\* RetireEnd.
LEMMA RetireEndStep ==
    ASSUME PrefixTypeInv, RetireEnd
    PROVE  /\ PrefixTypeInv'
           /\ Calm => ControlInv' /\ Kept /\ \A b \in Block : Holders(b)' = Holders(b)
<1>0. PICK r \in Req : r = eng.req
  BY DEF RetireEnd, PrefixTypeInv
<1> DEFINE at == IF phase[r] = "running" THEN "done" ELSE "aborted"
<1>1. /\ eng.pc = "retire" /\ phase[r] # "new" /\ entries' = entries \ {r}
      /\ tables' = IF r \in entries THEN [tables EXCEPT ![r] = <<>>] ELSE tables
      /\ phase' = [phase EXCEPT ![r] = at]
      /\ eng' = EngIdle
      /\ UNCHANGED <<poolVars, deleting, cacheLock, wrk, ssd, served, races, index,
                     blockHashes>>
      /\ phase \in [Req -> Phase] /\ tables \in [Req -> Seq(Block)]
      /\ deleting \in Seq(Block) /\ eng \in EngType
  BY <1>0, TypeFacts
     DEF RetireEnd, ClearEntryNoFree, PoolFrame, IndexFrame, PrefixTypeInv
<1>2. at \in {"done", "aborted"} /\ (phase[r] = "running" => at = "done")
  OBVIOUS
<1> HIDE DEF at
<1>3. /\ phase' \in [Req -> Phase] /\ phase'[r] = at
      /\ \A x \in Req \ {r} : phase'[x] = phase[x]
  BY <1>1, <1>2 DEF Phase
<1>4. /\ eng' \in EngType /\ eng'.pc = "idle" /\ eng'.claims = <<>> /\ eng'.todo = <<>>
      /\ eng'.swap = FALSE /\ eng'.fire = {} /\ eng'.req = NoReq
  BY <1>1, TypeFacts DEF EngIdle, EngType, EngPC
<1>5. /\ tables' \in [Req -> Seq(Block)] /\ \A x \in Req \ {r} : tables'[x] = tables[x]
      /\ tables'[r] = tables[r] \/ tables'[r] = <<>>
  BY <1>1, TypeFacts
<1>6. PrefixTypeOK'
  BY <1>1, <1>3, <1>4, <1>5, CallsTyped
     DEF PrefixTypeInv, PrefixTypeOK, EngType, TypeOK, poolVars
<1>7. \A x \in Req : Len(tables'[x]) <= Len(tables[x]) /\ Len(tables'[x]) \in Nat
                     /\ Len(tables[x]) \in Nat /\ Len(Prompt[x]) \in Nat
  BY <1>1, <1>5, TypeFacts, PrefixHashFacts
<1>8. wrk.pc \in BusyPC => Len(tables'[wrk.req]) < Len(Prompt[wrk.req])
  <2> SUFFICES ASSUME wrk.pc \in BusyPC PROVE Len(tables'[wrk.req]) < Len(Prompt[wrk.req])
    OBVIOUS
  <2>1. wrk.req \in Req /\ Len(tables[wrk.req]) < Len(Prompt[wrk.req])
    BY DEF PrefixTypeInv, BusyPC, Stored
  <2> QED BY <1>7, <2>1
<1>9. \A x \in Req : Len(tables'[x]) <= Len(Prompt[x])
  BY <1>7 DEF PrefixTypeInv
<1>10. PrefixTypeInv'
  BY <1>0, <1>1, <1>2, <1>3, <1>4, <1>6, <1>8, <1>9 DEF PrefixTypeInv, WalkPC, BusyPC, Stored
<1>11. ASSUME Calm PROVE ControlInv' /\ Kept /\ \A b \in Block : Holders(b)' = Holders(b)
  <2>0. /\ phase[r] = "running" /\ eng.claims = <<>> /\ eng.todo = <<>>
        /\ wrk.pc # "idle" => wrk.req \in Req /\ wrk.req # r
    BY <1>0, <1>1, <1>11 DEF Calm, ControlInv, WalkPC, PrefixTypeInv
  <2>1. /\ \A x \in Req \ {r} : Holding(x)' <=> Holding(x)
        /\ ~Holding(r) /\ ~Holding(r)'
    BY <1>0, <1>1, <1>2, <1>3, <1>4, <2>0 DEF Holding
  <2>2. ControlInv'
    BY <1>0, <1>1, <1>2, <1>3, <1>4, <1>5, <1>11, <2>0, <2>1
       DEF Calm, ControlInv, QuietPC, WalkPC, StorePC, BusyPC, Stored
  <2>3. Kept
    BY <1>4, <1>5, <2>1 DEF Kept, TablesKept, ClaimsKept
  <2>4. ASSUME NEW b \in Block PROVE Holders(b)' = Holders(b)
    <3>1. \A x \in Req : Share(x, b)' = Share(x, b)
      BY <1>5, <2>1 DEF Share
    <3>2. Shares(b)' = Shares(b)
      BY <1>1, <3>1, SharesKept
    <3>3. Fresh(b)' = Fresh(b)
      BY <1>1 DEF Fresh
    <3> QED BY <1>1, <1>4, <1>5, <2>0, <3>2, <3>3, HoldersParts, HoldersPartsNext
  <2> QED BY <2>2, <2>3, <2>4
<1> QED BY <1>10, <1>11

\* Demote.
LEMMA DemoteStep ==
    ASSUME PrefixTypeInv, Demote
    PROVE  /\ PrefixTypeInv' /\ \E n \in Nat : evict_lru_blocks(n)
           /\ Calm => ControlInv' /\ Kept /\ \A b \in Block : Holders(b)' = Holders(b)
<1>1. /\ eng.pc = "idle" /\ ~eng.swap /\ eng.fire = {}
      /\ evict_lru_blocks(Cardinality(Demotable))
      /\ eng' = [eng EXCEPT !.swap = TRUE]
      /\ UNCHANGED <<tables, deleting, cacheLock, wrk, entries, ssd, phase, served,
                     races, index, blockHashes>>
  BY DEF Demote, EngFrame, IndexFrame, EngReady
<1>2. Cardinality(Demotable) \in Nat
  <2>1. Demotable \subseteq 0 .. (MaxBlocks - 1)
    <3>1. alloc \subseteq Block /\ freeQ \in Seq(Block)
      BY TypeFacts DEF PoolTypeOK
    <3>2. Range(freeQ) \subseteq Block
      BY <3>1 DEF Range
    <3> QED BY <3>1, <3>2 DEF Demotable, Block
  <2>2. IsFiniteSet(0 .. (MaxBlocks - 1))
    BY NullBlock, FS_Interval
  <2> QED BY <2>1, <2>2, FS_Subset, FS_CardinalityType
<1>3. PoolTypeOK'
  BY <1>1, <1>2, TypeFacts, CallsTyped
<1>4. /\ eng' \in EngType /\ eng'.pc = eng.pc /\ eng'.req = eng.req
      /\ eng'.claims = eng.claims /\ eng'.todo = eng.todo /\ eng'.best = eng.best
      /\ eng'.swap = TRUE /\ eng'.fire = eng.fire
  BY <1>1, TypeFacts DEF EngType
<1>5. PrefixTypeOK'
  BY <1>1, <1>3, <1>4 DEF PrefixTypeInv, PrefixTypeOK, EngType, TypeOK
<1>6. PrefixTypeInv'
  BY <1>1, <1>4, <1>5 DEF PrefixTypeInv, WalkPC, BusyPC, Table, Stored
<1>7. ASSUME Calm PROVE ControlInv' /\ Kept /\ \A b \in Block : Holders(b)' = Holders(b)
  <2>1. \A x \in Req : Holding(x)' <=> Holding(x)
    BY <1>1, <1>4 DEF Holding
  <2>2. ControlInv'
    BY <1>1, <1>4, <1>7, <2>1 DEF Calm, ControlInv, QuietPC, WalkPC, StorePC, BusyPC, Stored
  <2> QED BY <1>1, <1>4, <2>1, <2>2, TypeFacts, HoldersKept
<1> QED BY <1>1, <1>2, <1>6, <1>7

-----------------------------------------------------------------------------
(***************************************************************************)
(* The worker's steps. The engine is never at work on the worker's request *)
(* before the request has its table.                                       *)
(***************************************************************************)
LEMMA Apart ==
    ASSUME PrefixTypeInv, wrk.pc # "idle"
    PROVE  /\ wrk.req \in Req /\ phase[wrk.req] \notin {"new", "running"}
           /\ eng.pc \notin {"idle", "retire"} => eng.req # wrk.req
           /\ Calm => phase[wrk.req] = "storing"
           /\ Calm => \A r \in Req : r = wrk.req => (Holding(r) <=> wrk.pc # "clear")
<1>1. /\ wrk.req \in Req /\ phase[wrk.req] \notin {"new", "running"}
      /\ eng.pc \notin {"idle", "retire"} => phase[eng.req] = "new"
  BY DEF PrefixTypeInv
<1>2. Calm => /\ phase[wrk.req] = "storing"
              /\ eng.pc = "retire" => phase[eng.req] = "running"
  BY DEF Calm, ControlInv
<1> QED BY <1>1, <1>2 DEF Holding

\* WrkFlush.
LEMMA WrkFlushStep ==
    ASSUME PrefixTypeInv, WrkFlush
    PROVE  /\ PrefixTypeInv'
           /\ Calm => ControlInv' /\ Kept /\ \A b \in Block : Holders(b)' = Holders(b)
<1>1. /\ wrk.swap /\ pending' = {} /\ Detach(pending) /\ wrk' = [wrk EXCEPT !.swap = FALSE]
      /\ UNCHANGED <<count, freeQ, alloc, ref, hash, parent, hashMap, tables,
                     cacheLock, entries, ssd, phase, deleting, eng, served, races>>
  BY DEF WrkFlush, flush, WrkFrame
<1>2. PoolTypeOK'
  BY <1>1, TypeFacts DEF PoolTypeOK
<1>3. /\ wrk' \in WrkType /\ wrk'.pc = wrk.pc /\ wrk'.req = wrk.req /\ wrk'.hash = wrk.hash
      /\ wrk'.blk = wrk.blk /\ wrk'.tab = wrk.tab
  BY <1>1, TypeFacts DEF WrkType
<1>4. PrefixTypeOK'
  <2>1. PrefixTypeOK
    BY DEF PrefixTypeInv
  <2>2. /\ DOMAIN index' \subseteq Hash /\ index' \in [DOMAIN index' -> Seq(Block)]
        /\ blockHashes' \in [Block -> SUBSET Hash]
    BY <1>1, <2>1, DetachTyped
  <2> QED BY <1>1, <1>2, <1>3, <2>1, <2>2 DEF PrefixTypeOK, WrkType, TypeOK
<1>5. PrefixTypeInv'
  BY <1>1, <1>3, <1>4 DEF PrefixTypeInv, WalkPC, BusyPC, Table, Stored
<1>6. ASSUME Calm PROVE ControlInv' /\ Kept /\ \A b \in Block : Holders(b)' = Holders(b)
  <2>1. \A x \in Req : Holding(x)' <=> Holding(x)
    BY <1>1, <1>3 DEF Holding
  <2>2. ControlInv'
    BY <1>1, <1>3, <1>6, <2>1 DEF Calm, ControlInv, QuietPC, WalkPC, StorePC, BusyPC, Stored
  <2> QED BY <1>1, <1>3, <2>1, <2>2, TypeFacts, HoldersKept
<1> QED BY <1>5, <1>6

\* StoreStart.
LEMMA StoreStartStep ==
    ASSUME PrefixTypeInv, NEW r \in Req, StoreStart(r)
    PROVE  /\ PrefixTypeInv'
           /\ Calm => ControlInv' /\ Kept /\ \A b \in Block : Holders(b)' = Holders(b)
<1> DEFINE to == IF phase[r] = "queued" THEN "storing" ELSE phase[r]
<1>1. /\ wrk.pc = "idle" /\ phase[r] \in {"queued", "aborted"} /\ cacheLock = "none"
      /\ phase' = [phase EXCEPT ![r] = to]
      /\ UNCHANGED <<poolVars, index, blockHashes, deleting, eng, served, races,
                     tables, entries, ssd>>
      /\ \/ /\ wrk' = [WrkIdle EXCEPT !.pc = "release", !.req = r, !.tab = tables[r]]
            /\ cacheLock' = "none"
         \/ wrk' = [WrkIdle EXCEPT !.pc = "find", !.req = r] /\ cacheLock' = "worker"
      /\ phase \in [Req -> Phase] /\ tables \in [Req -> Seq(Block)]
  BY TypeFacts DEF StoreStart, PoolFrame, IndexFrame, WrkFrame
<1>2. to \in {"storing", "aborted"} /\ (phase[r] = "queued" <=> to = "storing")
  BY <1>1
<1> HIDE DEF to
<1>3. /\ phase' \in [Req -> Phase] /\ phase'[r] = to
      /\ \A x \in Req \ {r} : phase'[x] = phase[x]
  BY <1>1, <1>2 DEF Phase
<1>4. /\ wrk' \in WrkType /\ wrk'.req = r
      /\ \/ wrk'.pc = "release" /\ wrk'.tab = tables[r] /\ cacheLock' = "none"
         \/ wrk'.pc = "find" /\ cacheLock' = "worker"
  BY <1>1, TypeFacts, NullBlock, HashFacts DEF WrkIdle, WrkType, WrkPC
<1>5. PrefixTypeOK'
  BY <1>1, <1>3, <1>4, CallsTyped DEF PrefixTypeInv, PrefixTypeOK, WrkType, TypeOK, poolVars
<1>6. eng.pc # "idle" => (eng.req = r <=> eng.pc = "retire" /\ eng.req = r)
  BY <1>1 DEF PrefixTypeInv
<1>7. PrefixTypeInv'
  BY <1>1, <1>2, <1>3, <1>4, <1>5, <1>6 DEF PrefixTypeInv, WalkPC, BusyPC, Table, Stored
<1>8. ASSUME Calm PROVE ControlInv' /\ Kept /\ \A b \in Block : Holders(b)' = Holders(b)
  <2>0. phase[r] = "queued" /\ to = "storing" /\ (eng.pc = "retire" => eng.req # r)
    BY <1>1, <1>2, <1>8 DEF Calm, ControlInv
  <2>1. \A x \in Req : Holding(x)' <=> Holding(x)
    BY <1>1, <1>3, <1>4, <2>0 DEF Holding
  <2>2. ControlInv'
    BY <1>1, <1>3, <1>4, <1>8, <2>0, <2>1
       DEF Calm, ControlInv, QuietPC, WalkPC, StorePC, BusyPC, Stored
  <2> QED BY <1>1, <1>4, <2>1, <2>2, TypeFacts, HoldersKept
<1> QED BY <1>7, <1>8

\* The hash the worker computes next.
LEMMA NextHashFacts ==
    ASSUME PrefixTypeInv, wrk.pc # "idle", Len(Stored) < Len(Prompt[wrk.req])
    PROVE  /\ NextHash \in Hash /\ NextHash # NoHash /\ ParentHash \in Hash
           /\ Prompt[wrk.req][Len(Stored) + 1] \in Tok
<1>1. wrk.req \in Req /\ Stored \in Seq(Block)
  BY TypeFacts DEF PrefixTypeInv, Stored
<1>2. Len(Stored) \in Nat
  BY <1>1
<1>3. Prompt[wrk.req][Len(Stored) + 1] \in Tok
  BY <1>1, <1>2, PrefixHashFacts
<1>4. ParentHash \in Hash
  <2>1. Stored # <<>> => Stored[Len(Stored)] \in Block
    BY <1>1
  <2> QED BY <2>1, TypeFacts, HashFacts DEF ParentHash, PoolTypeOK
<1> QED BY <1>3, <1>4, HashFacts DEF NextHash

\* StoreFind.
LEMMA StoreFindStep ==
    ASSUME PrefixTypeInv, StoreFind
    PROVE  /\ PrefixTypeInv' /\ wrk'.hash = NextHash /\ wrk'.pc # "write"
           /\ Len(Stored) < Len(Prompt[wrk.req]) /\ wrk'.req = wrk.req
           /\ Calm => ControlInv' /\ Kept /\ \A b \in Block : Holders(b)' = Holders(b)
<1>1. /\ wrk.pc = "find" /\ Len(Stored) < Len(Prompt[wrk.req])
      /\ \/ \E b \in Block : wrk' = [wrk EXCEPT !.pc = "incref", !.blk = b, !.hash = NextHash]
         \/ wrk' = [wrk EXCEPT !.pc = "alloc", !.hash = NextHash]
      /\ UNCHANGED <<poolVars, tables, cacheLock, entries, ssd, phase, deleting, eng, served,
                     races, index, blockHashes>>
  BY DEF StoreFind, get_block, PoolFrame, IndexFrame, WrkFrame
<1>2. NextHash \in Hash /\ NextHash # NoHash
  BY <1>1, NextHashFacts
<1>3. /\ wrk' \in WrkType /\ wrk'.pc \in {"incref", "alloc"} /\ wrk'.req = wrk.req
      /\ wrk'.hash = NextHash /\ wrk'.tab = wrk.tab
  BY <1>1, <1>2, TypeFacts DEF WrkType, WrkPC
<1>4. PrefixTypeOK'
  BY <1>1, <1>3, CallsTyped DEF PrefixTypeInv, PrefixTypeOK, WrkType, TypeOK, poolVars
<1>5. PrefixTypeInv'
  BY <1>1, <1>2, <1>3, <1>4 DEF PrefixTypeInv, WalkPC, BusyPC, Table, Stored
<1>6. ASSUME Calm PROVE ControlInv' /\ Kept /\ \A b \in Block : Holders(b)' = Holders(b)
  <2>1. \A x \in Req : Holding(x)' <=> Holding(x)
    BY <1>1, <1>3 DEF Holding
  <2>2. ControlInv'
    BY <1>1, <1>3, <1>6, <2>1 DEF Calm, ControlInv, QuietPC, WalkPC, StorePC, BusyPC, Stored
  <2> QED BY <1>1, <1>3, <2>1, <2>2, TypeFacts, HoldersKept
<1> QED BY <1>1, <1>3, <1>5, <1>6

\* The table the worker builds grows by the block it has found or written.
LEMMA TableGrown ==
    ASSUME PrefixTypeInv, wrk.pc \in {"incref", "write"}, NEW at \in {"find", "save"},
           tables' = [tables EXCEPT ![wrk.req] = Append(@, wrk.blk)],
           wrk' = [wrk EXCEPT !.pc = at],
           races' \subseteq {"index", "reuse"},
           UNCHANGED <<deleting, eng, served, cacheLock, entries, ssd, phase, index,
                       blockHashes>>,
           PoolTypeOK'
    PROVE  /\ PrefixTypeInv' /\ wrk.req \in Req /\ wrk.blk \in Block
           /\ wrk'.pc = at /\ wrk'.hash = wrk.hash /\ wrk'.req = wrk.req
           /\ tables'[wrk.req] = Append(tables[wrk.req], wrk.blk)
           /\ \A x \in Req \ {wrk.req} : tables'[x] = tables[x]
           /\ Calm => /\ ControlInv' /\ ClaimsKept
                      /\ \A x \in Req : Holding(x)' <=> Holding(x)
                      /\ \A x \in Req : x = wrk.req => Holding(x)
                      /\ \A b \in Block : Holders(b)' = Holders(b)
                            + (IF wrk.pc = "incref" /\ wrk.blk = b THEN 1 ELSE 0)
<1>0. PICK r \in Req : r = wrk.req
  BY Apart
<1>1. /\ tables \in [Req -> Seq(Block)] /\ deleting \in Seq(Block) /\ eng \in EngType
      /\ wrk \in WrkType /\ wrk.blk \in Block /\ tables[r] \in Seq(Block)
      /\ Len(tables[r]) < Len(Prompt[r]) /\ Len(Prompt[r]) \in Nat
      /\ phase[r] \notin {"new", "running"} /\ wrk.hash # NoHash
      /\ eng.pc \notin {"idle", "retire"} => eng.req # r
  BY <1>0, TypeFacts, Apart, PrefixHashFacts DEF PrefixTypeInv, BusyPC, Stored, WrkType
<1> DEFINE a == Append(tables[r], wrk.blk)
<1>2. a \in Seq(Block) /\ Len(a) = Len(tables[r]) + 1 /\ Len(tables[r]) \in Nat
      /\ a # <<>> /\ a[Len(a)] = wrk.blk
  BY <1>1
<1>3. Len(a) <= Len(Prompt[r])
  BY <1>1, <1>2
<1> HIDE DEF a
<1>4. /\ tables' \in [Req -> Seq(Block)] /\ tables'[r] = a
      /\ \A x \in Req \ {r} : tables'[x] = tables[x]
  BY <1>0, <1>1, <1>2 DEF a
<1>5. /\ wrk' \in WrkType /\ wrk'.pc = at /\ wrk'.req = r
      /\ wrk'.hash = wrk.hash /\ wrk'.blk = wrk.blk /\ wrk'.tab = wrk.tab
  BY <1>0, <1>1 DEF WrkType, WrkPC
<1>6. PrefixTypeOK'
  BY <1>4, <1>5 DEF PrefixTypeInv, PrefixTypeOK, WrkType, TypeOK
<1>7. PrefixTypeInv'
  BY <1>0, <1>1, <1>3, <1>4, <1>5, <1>6 DEF PrefixTypeInv, WalkPC, BusyPC, Table, Stored
<1>8. ASSUME Calm
      PROVE  /\ ControlInv' /\ ClaimsKept
             /\ \A x \in Req : Holding(x)' <=> Holding(x)
             /\ Holding(r)
             /\ \A b \in Block : Holders(b)' = Holders(b)
                            + (IF wrk.pc = "incref" /\ wrk.blk = b THEN 1 ELSE 0)
  <2>1. /\ \A x \in Req : Holding(x)' <=> Holding(x)
        /\ Holding(r)
    <3>1. Holding(r)
      BY <1>0, <1>8, Apart
    <3> QED BY <3>1, <1>5 DEF Holding
  <2>2. ControlInv'
    BY <1>0, <1>1, <1>2, <1>4, <1>5, <1>8, <2>1
       DEF Calm, ControlInv, QuietPC, WalkPC, StorePC, BusyPC, Stored
  <2>3. ClaimsKept
    BY DEF ClaimsKept
  <2>4. ASSUME NEW b \in Block
        PROVE  Holders(b)' = Holders(b) + (IF wrk.pc = "incref" /\ wrk.blk = b THEN 1 ELSE 0)
    <3> DEFINE p == Occurrences(tables[r], b)
               c == Occurrences(eng.claims, b)
               t == Occurrences(eng.todo, b)
               e == Occurrences(deleting, b)
               d == IF wrk.blk = b THEN 1 ELSE 0
               f == Fresh(b)
    <3>1. /\ p \in Nat /\ c \in Nat /\ t \in Nat /\ e \in Nat /\ f \in 0..1 /\ d \in 0..1
          /\ f = IF wrk.pc = "incref" THEN 0 ELSE d
      <4>1. p \in Nat /\ c \in Nat /\ t \in Nat /\ e \in Nat /\ f \in 0..1
        BY <1>1, HoldersParts, OccurrencesNat
      <4>2. d \in 0..1 /\ f = IF wrk.pc = "incref" THEN 0 ELSE d
        BY DEF Fresh
      <4> QED BY <4>1, <4>2
    <3>2. Part(r, b) = p + (c + t + e + f)
      BY <2>1 DEF Part, Hands, Share
    <3>3. Part(r, b)' = (p + d) + (c + t + e + 0)
      BY <1>1, <1>4, <1>5, <2>1, PartNext, OccAppend DEF a
    <3>4. /\ Holders(b)' = Holders(b) - Part(r, b) + Part(r, b)'
          /\ Holders(b) \in Nat /\ Holders(b)' \in Nat
          /\ Part(r, b) \in Nat /\ Part(r, b)' \in Nat
      BY <1>1, <1>4, <2>1, HoldersMoved
    <3> HIDE DEF p, c, t, e, f, d
    <3>5. Holders(b)' = Holders(b) + (IF wrk.pc = "incref" THEN d ELSE 0)
      BY ONLY <3>1, <3>2, <3>3, <3>4
    <3> QED BY <3>5 DEF d
  <2> QED BY <2>1, <2>2, <2>3, <2>4
<1> QED BY <1>0, <1>1, <1>4, <1>5, <1>7, <1>8 DEF a

\* StoreReuse and StoreWrite.
LEMMA StoreGrowStep ==
    ASSUME PrefixTypeInv, StoreReuse \/ StoreWrite
    PROVE  /\ PrefixTypeInv' /\ wrk.req \in Req /\ wrk.blk \in Block
           /\ wrk.pc \in {"incref", "write"} /\ wrk'.pc \in {"find", "save"}
           /\ wrk'.pc = "save" => wrk.pc = "write"
           /\ wrk'.hash = wrk.hash /\ wrk'.req = wrk.req
           /\ UNCHANGED <<eng, index, blockHashes, ssd, served>>
           /\ tables'[wrk.req] = Append(tables[wrk.req], wrk.blk)
           /\ \A x \in Req \ {wrk.req} : tables'[x] = tables[x]
           /\ Calm => /\ ControlInv' /\ ClaimsKept
                      /\ \A x \in Req : Holding(x)' <=> Holding(x)
                      /\ \A x \in Req : x = wrk.req => Holding(x)
                      /\ \A b \in Block : Holders(b)' = Holders(b)
                            + (IF wrk.pc = "incref" /\ wrk.blk = b THEN 1 ELSE 0)
<1>1. wrk.blk \in Block /\ wrk.hash \in Hash
  BY TypeFacts DEF WrkType
<1>2. CASE StoreReuse
  <2>1. /\ wrk.pc = "incref" /\ increment_ref(wrk.blk)
        /\ tables' = [tables EXCEPT ![wrk.req] = Append(@, wrk.blk)]
        /\ wrk' = [wrk EXCEPT !.pc = "find"]
        /\ races' = races \union ReuseRace
        /\ UNCHANGED <<deleting, eng, served, cacheLock, entries, ssd, phase, index,
                       blockHashes>>
    BY <1>2 DEF StoreReuse, IndexFrame
  <2>2. races' \subseteq {"index", "reuse"}
    BY <2>1 DEF ReuseRace, PrefixTypeInv, PrefixTypeOK
  <2>3. PoolTypeOK'
    BY <1>1, <2>1, TypeFacts, CallsTyped
  <2> QED BY <2>1, <2>2, <2>3, TableGrown
<1>3. CASE StoreWrite
  <2>1. /\ wrk.pc = "write" /\ register_block_hash(wrk.blk, wrk.hash)
        /\ tables' = [tables EXCEPT ![wrk.req] = Append(@, wrk.blk)]
        /\ wrk' = [wrk EXCEPT !.pc = "save"]
        /\ UNCHANGED <<deleting, eng, served, cacheLock, entries, ssd, phase, index,
                       blockHashes, races>>
    BY <1>3 DEF StoreWrite, IndexFrame, WrkFrame
  <2>2. races' \subseteq {"index", "reuse"}
    BY <2>1 DEF PrefixTypeInv, PrefixTypeOK
  <2>3. PoolTypeOK'
    BY <1>1, <2>1, TypeFacts, CallsTyped
  <2> QED BY <2>1, <2>2, <2>3, TableGrown
<1> QED BY <1>2, <1>3

\* StoreAlloc.
LEMMA StoreAllocStep ==
    ASSUME PrefixTypeInv, StoreAlloc
    PROVE  /\ PrefixTypeInv' /\ wrk'.pc = "write" /\ wrk'.blk \in Block
           /\ wrk'.hash = wrk.hash /\ wrk'.req = wrk.req /\ wrk.pc \in BusyPC
           /\ wrk.pc # "write"
           /\ allocate_block(wrk'.blk)
           /\ UNCHANGED <<eng, index, blockHashes, tables, ssd, served, races>>
           /\ Calm => /\ ControlInv' /\ Kept
                      /\ \A b \in Block : Holders(b)' = Holders(b)
                                            + (IF wrk'.blk = b THEN 1 ELSE 0)
<1>1. PICK y \in Block : /\ allocate_block(y)
                         /\ wrk' = [wrk EXCEPT !.pc = "write", !.blk = y, !.swap = TRUE]
  BY DEF StoreAlloc
<1>2. /\ wrk.pc \in {"alloc", "retry"}
      /\ UNCHANGED <<tables, cacheLock, entries, ssd, phase, deleting, eng, served,
                     races, index, blockHashes>>
      /\ tables \in [Req -> Seq(Block)] /\ deleting \in Seq(Block) /\ eng \in EngType
  BY TypeFacts DEF StoreAlloc, IndexFrame, WrkFrame
<1>3. PICK r \in Req : r = wrk.req
  BY <1>2, Apart
<1>4. /\ wrk' \in WrkType /\ wrk'.pc = "write" /\ wrk'.req = wrk.req /\ wrk'.hash = wrk.hash
      /\ wrk'.blk = y /\ wrk'.tab = wrk.tab
  BY <1>1, TypeFacts DEF WrkType, WrkPC
<1>5. PoolTypeOK'
  BY <1>1, TypeFacts, CallsTyped
<1>6. PrefixTypeOK'
  BY <1>2, <1>4, <1>5 DEF PrefixTypeInv, PrefixTypeOK, WrkType, TypeOK
<1>7. PrefixTypeInv'
  BY <1>2, <1>4, <1>6 DEF PrefixTypeInv, WalkPC, BusyPC, Table, Stored
<1>8. ASSUME Calm
      PROVE  /\ ControlInv' /\ Kept
             /\ \A b \in Block : Holders(b)' = Holders(b) + (IF y = b THEN 1 ELSE 0)
  <2>1. \A x \in Req : Holding(x)' <=> Holding(x)
    BY <1>2, <1>4 DEF Holding
  <2>2. ControlInv'
    BY <1>2, <1>4, <1>8, <2>1 DEF Calm, ControlInv, QuietPC, WalkPC, StorePC, BusyPC, Stored
  <2>3. Kept
    BY <1>2, <2>1 DEF Kept, TablesKept, ClaimsKept
  <2>4. ASSUME NEW b \in Block PROVE Holders(b)' = Holders(b) + (IF y = b THEN 1 ELSE 0)
    <3> DEFINE s == Share(r, b)
               c == Occurrences(eng.claims, b)
               t == Occurrences(eng.todo, b)
               e == Occurrences(deleting, b)
               d == IF y = b THEN 1 ELSE 0
    <3>1. s \in Nat /\ c \in Nat /\ t \in Nat /\ e \in Nat /\ d \in 0..1
      <4>1. s \in Nat /\ c \in Nat /\ t \in Nat /\ e \in Nat
        BY <1>2, HoldersParts
      <4> QED BY <4>1
    <3>2. Part(r, b) = s + (c + t + e + 0)
      BY <1>2 DEF Part, Hands, Fresh
    <3>3. Part(r, b)' = s + (c + t + e + d)
      BY <1>2, <1>4, <2>1, PartNext DEF Share
    <3>4. /\ Holders(b)' = Holders(b) - Part(r, b) + Part(r, b)'
          /\ Holders(b) \in Nat /\ Holders(b)' \in Nat
          /\ Part(r, b) \in Nat /\ Part(r, b)' \in Nat
      BY <1>2, <2>1, HoldersMoved
    <3> HIDE DEF s, c, t, e, d
    <3>5. Holders(b)' = Holders(b) + d
      BY ONLY <3>1, <3>2, <3>3, <3>4
    <3> QED BY <3>5 DEF d
  <2> QED BY <2>2, <2>3, <2>4
<1> QED BY <1>1, <1>2, <1>4, <1>7, <1>8 DEF BusyPC

\* StoreAllocFails, and StorePressure whether or not a block is evicted.
LEMMA StorePressureStep ==
    ASSUME PrefixTypeInv, StoreAllocFails \/ StorePressure
    PROVE  /\ PrefixTypeInv' /\ wrk'.pc # "write" /\ wrk.pc \in BusyPC
           /\ wrk.pc # "write"
           /\ wrk'.hash = wrk.hash /\ wrk'.req = wrk.req
           /\ UNCHANGED <<eng, index, blockHashes, tables, ssd, served, races>>
           /\ UNCHANGED poolVars \/ \E b \in Block : handle_memory_pressure(b)
           /\ Calm => ControlInv' /\ Kept /\ \A b \in Block : Holders(b)' = Holders(b)
<1>1. PICK at \in {"pressure", "retry", "index"} : wrk' = [wrk EXCEPT !.pc = at, !.swap = TRUE]
  BY DEF StoreAllocFails, StorePressure
<1>2. /\ wrk.pc \in {"alloc", "retry", "pressure"}
      /\ UNCHANGED <<tables, cacheLock, entries, ssd, phase, deleting, eng, served,
                     races, index, blockHashes>>
      /\ UNCHANGED poolVars \/ \E b \in Block : handle_memory_pressure(b)
  BY DEF StoreAllocFails, StorePressure, IndexFrame, WrkFrame, PoolFrame
<1>3. /\ wrk' \in WrkType /\ wrk'.pc = at /\ wrk'.req = wrk.req /\ wrk'.hash = wrk.hash
      /\ wrk'.blk = wrk.blk /\ wrk'.tab = wrk.tab
  BY <1>1, TypeFacts DEF WrkType, WrkPC
<1>4. PoolTypeOK'
  BY <1>2, TypeFacts, CallsTyped
<1>5. PrefixTypeOK'
  BY <1>2, <1>3, <1>4 DEF PrefixTypeInv, PrefixTypeOK, WrkType, TypeOK
<1>6. PrefixTypeInv'
  BY <1>2, <1>3, <1>5 DEF PrefixTypeInv, WalkPC, BusyPC, Table, Stored
<1>7. ASSUME Calm PROVE ControlInv' /\ Kept /\ \A b \in Block : Holders(b)' = Holders(b)
  <2>1. \A x \in Req : Holding(x)' <=> Holding(x)
    BY <1>2, <1>3 DEF Holding
  <2>2. ControlInv'
    BY <1>2, <1>3, <1>7, <2>1 DEF Calm, ControlInv, QuietPC, WalkPC, StorePC, BusyPC, Stored
  <2> QED BY <1>2, <1>3, <2>1, <2>2, TypeFacts, HoldersKept
<1> QED BY <1>2, <1>3, <1>6, <1>7 DEF BusyPC

\* StoreSave.
LEMMA StoreSaveStep ==
    ASSUME PrefixTypeInv, StoreSave
    PROVE  /\ PrefixTypeInv' /\ wrk.pc = "save" /\ wrk'.pc = "find" /\ wrk'.req = wrk.req
           /\ UNCHANGED <<poolVars, eng, index, blockHashes, tables, served, races>>
           /\ ssd' = IF has_block(wrk.hash) THEN ssd
                     ELSE Saved(PrefixHash(wrk.req, Len(Stored)))
           /\ Calm => ControlInv' /\ Kept /\ \A b \in Block : Holders(b)' = Holders(b)
<1>1. /\ wrk.pc = "save" /\ wrk' = [wrk EXCEPT !.pc = "find"]
      /\ ssd' = IF has_block(wrk.hash) THEN ssd
                ELSE Saved(PrefixHash(wrk.req, Len(Stored)))
      /\ UNCHANGED <<poolVars, tables, cacheLock, entries, phase, deleting, eng, served,
                     races, index, blockHashes>>
  BY DEF StoreSave, IndexFrame, WrkFrame, PoolFrame
<1>2. /\ wrk' \in WrkType /\ wrk'.pc = "find" /\ wrk'.req = wrk.req /\ wrk'.hash = wrk.hash
      /\ wrk'.blk = wrk.blk /\ wrk'.tab = wrk.tab /\ wrk.hash \in Hash
  BY <1>1, TypeFacts DEF WrkType, WrkPC
<1>3. DOMAIN ssd' \subseteq Hash /\ ssd' \in [DOMAIN ssd' -> Hash]
  <2>1. wrk.req \in Req /\ Stored \in Seq(Block) /\ Len(Stored) <= Len(Prompt[wrk.req])
    BY <1>1, Apart, TypeFacts DEF Stored, PrefixTypeInv
  <2>2. PrefixHash(wrk.req, Len(Stored)) \in Hash
    <3> DEFINE n == Len(Stored)
    <3>1. n \in 0 .. Len(Prompt[wrk.req])
      BY <2>1, PrefixHashFacts
    <3> HIDE DEF n
    <3>2. PrefixHash(wrk.req, n) \in Hash
      BY <2>1, <3>1, PrefixHashFacts
    <3> QED BY <3>2 DEF n
  <2>3. DOMAIN ssd \subseteq Hash /\ \A h \in DOMAIN ssd : ssd[h] \in Hash
    BY DEF PrefixTypeInv, PrefixTypeOK
  <2>4. CASE has_block(wrk.hash)
    BY <1>1, <2>4 DEF PrefixTypeInv, PrefixTypeOK
  <2>5. CASE ~has_block(wrk.hash)
    <3> DEFINE c == PrefixHash(wrk.req, Len(Stored))
    <3>1. ssd' = [h \in DOMAIN ssd \union {wrk.hash} |-> IF h = wrk.hash THEN c ELSE ssd[h]]
      BY <1>1, <2>5 DEF Saved
    <3>2. c \in Hash
      BY <2>2
    <3> HIDE DEF c
    <3> QED BY <1>2, <2>3, <3>1, <3>2
  <2> QED BY <2>4, <2>5
<1>4. PrefixTypeOK'
  BY <1>1, <1>2, <1>3, CallsTyped DEF PrefixTypeInv, PrefixTypeOK, WrkType, TypeOK, poolVars
<1>5. PrefixTypeInv'
  BY <1>1, <1>2, <1>4 DEF PrefixTypeInv, WalkPC, BusyPC, Table, Stored
<1>6. ASSUME Calm PROVE ControlInv' /\ Kept /\ \A b \in Block : Holders(b)' = Holders(b)
  <2>1. \A x \in Req : Holding(x)' <=> Holding(x)
    BY <1>1, <1>2 DEF Holding
  <2>2. ControlInv'
    BY <1>1, <1>2, <1>6, <2>1 DEF Calm, ControlInv, QuietPC, WalkPC, StorePC, BusyPC, Stored
  <2> QED BY <1>1, <1>2, <2>1, <2>2, TypeFacts, HoldersKept
<1> QED BY <1>1, <1>2, <1>5, <1>6

\* StoreSaveFails: the block just written leaves the table and is freed.
LEMMA StoreSaveFailsStep ==
    ASSUME PrefixTypeInv, StoreSaveFails
    PROVE  /\ PrefixTypeInv' /\ wrk.blk \in Block /\ free_block(wrk.blk)
           /\ wrk'.pc = "index" /\ wrk'.req = wrk.req
           /\ UNCHANGED <<eng, index, blockHashes, ssd, served, races>>
           /\ Calm => /\ ControlInv' /\ Kept
                      /\ \A b \in Block : Holders(b) = Holders(b)'
                                            + (IF wrk.blk = b THEN 1 ELSE 0)
<1>1. /\ wrk.pc = "save" /\ free_block(wrk.blk)
      /\ tables' = [tables EXCEPT ![wrk.req] = SubSeq(@, 1, Len(@) - 1)]
      /\ wrk' = [wrk EXCEPT !.pc = "index", !.swap = TRUE]
      /\ UNCHANGED <<cacheLock, entries, ssd, phase, deleting, eng, served,
                     races, index, blockHashes>>
  BY DEF StoreSaveFails, IndexFrame, WrkFrame
<1>0. PICK r \in Req : r = wrk.req
  BY <1>1, Apart
<1> DEFINE s == tables[r]
           u == SubSeq(s, 1, Len(s) - 1)
<1>2. /\ tables \in [Req -> Seq(Block)] /\ deleting \in Seq(Block) /\ eng \in EngType
      /\ wrk \in WrkType /\ wrk.blk \in Block /\ s \in Seq(Block)
      /\ Len(s) <= Len(Prompt[r]) /\ Len(Prompt[r]) \in Nat /\ Len(s) \in Nat
      /\ eng.pc \notin {"idle", "retire"} => eng.req # r
  BY <1>0, <1>1, TypeFacts, Apart, PrefixHashFacts DEF PrefixTypeInv, WrkType
<1>3. u \in Seq(Block) /\ Len(u) <= Len(s)
      /\ \A i \in DOMAIN u : i \in DOMAIN s /\ u[i] = s[i]
  <2>1. CASE s = <<>>
    <3>1. u = <<>>
      BY <1>2, <2>1
    <3> HIDE DEF u
    <3> QED BY <1>2, <2>1, <3>1
  <2>2. CASE s # <<>>
    <3> DEFINE k == Len(s) - 1
    <3>1. k \in 0..Len(s) /\ DOMAIN s = 1..Len(s) /\ \A i \in 1..k : i \in 1..Len(s)
      BY <1>2, <2>2
    <3> HIDE DEF k
    <3>2. /\ SubSeq(s, 1, k) \in Seq(Block) /\ Len(SubSeq(s, 1, k)) = k
          /\ DOMAIN SubSeq(s, 1, k) = 1..k /\ \A i \in 1..k : SubSeq(s, 1, k)[i] = s[i]
      BY <1>2, <3>1, SubSeqFacts
    <3>3. u = SubSeq(s, 1, k) /\ k <= Len(s)
      BY <1>2, <3>1 DEF k
    <3> HIDE DEF u
    <3> QED BY <1>2, <3>1, <3>2, <3>3, SMTT(30)
  <2> QED BY <2>1, <2>2
<1>4. Calm => /\ s # <<>> /\ s[Len(s)] = wrk.blk
              /\ \A b : Occurrences(s, b) = Occurrences(u, b) + (IF wrk.blk = b THEN 1 ELSE 0)
  <2>1. Calm => s # <<>> /\ s[Len(s)] = wrk.blk
    BY <1>0, <1>1 DEF Calm, ControlInv, Stored
  <2>2. s # <<>> => \A b : Occurrences(s, b) = Occurrences(u, b)
                                              + (IF s[Len(s)] = b THEN 1 ELSE 0)
    BY <1>2, OccFront
  <2> HIDE DEF s, u
  <2> QED BY <2>1, <2>2
<1> HIDE DEF u
<1>5. /\ tables' \in [Req -> Seq(Block)] /\ tables'[r] = u
      /\ \A x \in Req \ {r} : tables'[x] = tables[x]
  BY <1>0, <1>1, <1>2, <1>3 DEF u
<1>6. /\ wrk' \in WrkType /\ wrk'.pc = "index" /\ wrk'.req = r
      /\ wrk'.hash = wrk.hash /\ wrk'.blk = wrk.blk /\ wrk'.tab = wrk.tab
  BY <1>0, <1>1, <1>2 DEF WrkType, WrkPC
<1>7. PoolTypeOK'
  BY <1>1, <1>2, TypeFacts, CallsTyped
<1>8. PrefixTypeOK'
  BY <1>1, <1>5, <1>6, <1>7 DEF PrefixTypeInv, PrefixTypeOK, WrkType, TypeOK
<1>9. Len(u) <= Len(Prompt[r])
  <2>1. Len(u) \in Nat
    BY <1>3
  <2> HIDE DEF s
  <2> QED BY <1>2, <1>3, <2>1
<1>10. PrefixTypeInv'
  BY <1>0, <1>1, <1>2, <1>5, <1>6, <1>8, <1>9
     DEF PrefixTypeInv, WalkPC, BusyPC, Table, Stored
<1>11. ASSUME Calm
       PROVE  /\ ControlInv' /\ Kept
              /\ \A b \in Block : Holders(b) = Holders(b)' + (IF wrk.blk = b THEN 1 ELSE 0)
  <2>1. /\ \A x \in Req : Holding(x)' <=> Holding(x)
        /\ Holding(r)
    <3>1. Holding(r)
      BY <1>0, <1>1, <1>11, Apart
    <3> QED BY <3>1, <1>1, <1>6 DEF Holding
  <2>2. ControlInv'
    <3>1. phase[r] = "storing"
      BY <1>0, <1>1, <1>11, Apart
    <3> QED BY <1>0, <1>1, <1>5, <1>6, <1>11, <2>1, <3>1
            DEF Calm, ControlInv, QuietPC, WalkPC, StorePC, BusyPC, Stored
  <2>3. Kept
    BY <1>1, <1>3, <1>5, <2>1 DEF Kept, TablesKept, ClaimsKept
  <2>4. ASSUME NEW b \in Block
        PROVE  Holders(b) = Holders(b)' + (IF wrk.blk = b THEN 1 ELSE 0)
    <3> DEFINE p == Occurrences(u, b)
               c == Occurrences(eng.claims, b)
               t == Occurrences(eng.todo, b)
               e == Occurrences(deleting, b)
               d == IF wrk.blk = b THEN 1 ELSE 0
    <3>1. p \in Nat /\ c \in Nat /\ t \in Nat /\ e \in Nat /\ d \in 0..1
      <4>1. c \in Nat /\ t \in Nat /\ e \in Nat
        BY <1>2, HoldersParts
      <4>2. p \in Nat
        BY <1>3, OccurrencesNat
      <4> QED BY <4>1, <4>2
    <3>2. Part(r, b) = (p + d) + (c + t + e + 0)
      BY <1>1, <1>4, <1>11, <2>1 DEF Part, Hands, Share, Fresh
    <3>3. Part(r, b)' = p + (c + t + e + 0)
      BY <1>1, <1>5, <1>6, <2>1, PartNext
    <3>4. /\ Holders(b)' = Holders(b) - Part(r, b) + Part(r, b)'
          /\ Holders(b) \in Nat /\ Holders(b)' \in Nat
          /\ Part(r, b) \in Nat /\ Part(r, b)' \in Nat
      BY <1>1, <1>2, <1>5, <2>1, HoldersMoved
    <3> HIDE DEF p, c, t, e, d
    <3>5. Holders(b) = Holders(b)' + d
      BY ONLY <3>1, <3>2, <3>3, <3>4
    <3> QED BY <3>5 DEF d
  <2> QED BY <2>2, <2>3, <2>4
<1> QED BY <1>0, <1>1, <1>2, <1>6, <1>10, <1>11

\* One round of the recursion of IndexHashes: the hashes of K are given by v.
ChainOf(f, N, K, v, p) ==
    [i \in 0..N |-> IF i = 0 THEN NoHash
                    ELSE IF i \in K THEN v[i] ELSE compute_block_hash(f[i - 1], p[i])]

\* A chain of hashes, each one given or computed from the one before, exists.
LEMMA ChainExists ==
    ASSUME NEW N \in Nat, NEW K, NEW v, NEW p,
           \A i \in 1..N : (v[i] \in Hash /\ v[i] # NoHash) \/ i \notin K,
           \A i \in 1..N : p[i] \in Tok
    PROVE  \E f \in [0..N -> Hash] : f = ChainOf(f, N, K, v, p)
<1> DEFINE Val(f, i) == IF i = 0 THEN NoHash
                        ELSE IF i \in K THEN v[i] ELSE compute_block_hash(f[i - 1], p[i])
           Fits(n, f) == f \in [0..n -> Hash] /\ \A i \in 0..n : f[i] = Val(f, i)
           T == {n \in 0..N : ~ \E f : Fits(n, f)}
<1>1. T = {}
  <2> SUFFICES ASSUME T # {} PROVE FALSE
    OBVIOUS
  <2>1. T \subseteq Nat
    OBVIOUS
  <2>2. PICK n \in T : \A m \in T : n <= m
    BY <2>1, LeastNat
  <2>3. n \in 0..N /\ ~ \E f : Fits(n, f)
    OBVIOUS
  <2>4. CASE n = 0
    <3> DEFINE f == [i \in 0..0 |-> NoHash]
    <3>1. f \in [0..n -> Hash] /\ \A i \in 0..n : i = 0 /\ f[i] = NoHash
      BY <2>4, HashFacts
    <3>2. Fits(n, f)
      BY <3>1
    <3> QED BY <2>3, <3>2
  <2>5. CASE n # 0
    <3> DEFINE m == n - 1
    <3>1. m \in 0..N /\ m \notin T /\ n = m + 1 /\ m \in Nat /\ n \in 1..N
      BY <2>2, <2>3, <2>5
    <3>2. PICK g : Fits(m, g)
      BY <3>1
    <3> HIDE DEF m
    <3> DEFINE f == [i \in 0..n |-> IF i = n THEN Val(g, n) ELSE g[i]]
    <3>3. Val(g, n) \in Hash
      <4>1. g[m] \in Hash /\ n # 0 /\ n - 1 = m /\ p[n] \in Tok
        BY <3>1, <3>2
      <4>2. n \in K => v[n] \in Hash
        BY <3>1
      <4> QED BY <4>1, <4>2, HashFacts
    <3>4. \A i \in 0..n : i # n => i \in 0..m /\ (i # 0 => i - 1 \in 0..m /\ i - 1 # n)
      BY <3>1
    <3>5. f \in [0..n -> Hash]
      BY <3>2, <3>3, <3>4
    <3>6. ASSUME NEW i \in 0..n PROVE f[i] = Val(f, i)
      <4>1. CASE i = n
        <5>1. f[i] = Val(g, n) /\ i - 1 = m /\ m \in 0..n /\ m # n
          BY <3>1, <4>1
        <5>2. f[m] = g[m]
          BY <5>1
        <5> HIDE DEF f
        <5> QED BY <3>1, <4>1, <5>1, <5>2
      <4>2. CASE i # n
        <5>1. f[i] = g[i] /\ i \in 0..m /\ g[i] = Val(g, i)
          BY <3>2, <3>4, <4>2
        <5>2. i # 0 => i - 1 \in 0..n /\ i - 1 # n
          BY <3>1, <3>4, <4>2
        <5>3. i # 0 => f[i - 1] = g[i - 1]
          BY <5>2
        <5> HIDE DEF f
        <5> QED BY <5>1, <5>3
      <4> QED BY <4>1, <4>2
    <3> HIDE DEF f
    <3>7. Fits(n, f)
      BY <3>5, <3>6
    <3> QED BY <2>3, <3>7
  <2> QED BY <2>4, <2>5
<1>2. N \in 0..N
  OBVIOUS
<1>3. PICK f : Fits(N, f)
  BY <1>1, <1>2
<1>4. f = [i \in 0..N |-> Val(f, i)]
  BY <1>3
<1> QED BY <1>3, <1>4 DEF ChainOf

\* The hash each block of the stored table is filed under: its own, when it has
\* one, and never the absent one.
LEMMA IndexHashFacts ==
    ASSUME PrefixTypeInv, wrk.pc # "idle"
    PROVE  /\ Stored \in Seq(Block) /\ Len(Stored) \in Nat /\ DOMAIN Stored = 1..Len(Stored)
           /\ IndexHashes \in [0..Len(Stored) -> Hash]
           /\ \A i \in 1..Len(Stored) :
                 /\ IndexHashes[i] # NoHash
                 /\ Stored[i] \in alloc /\ hash[Stored[i]] # NoHash =>
                       IndexHashes[i] = hash[Stored[i]]
<1> DEFINE N == Len(Stored)
           K == {i \in 1..N : Stored[i] \in alloc /\ hash[Stored[i]] # NoHash}
           v == [i \in 1..N |-> hash[Stored[i]]]
           p == Prompt[wrk.req]
<1>1. /\ wrk.req \in Req /\ Stored \in Seq(Block) /\ Len(Stored) <= Len(p)
      /\ p \in Seq(Tok) /\ Len(p) \in Nat
  BY Apart, TypeFacts, PrefixHashFacts DEF Stored, PrefixTypeInv
<1>2. N \in Nat /\ DOMAIN Stored = 1..N /\ \A i \in 1..N : Stored[i] \in Block
  BY <1>1
<1>3. \A i \in 1..N : p[i] \in Tok
  BY <1>1, <1>2
<1>4. \A i \in 1..N : (v[i] \in Hash /\ v[i] # NoHash) \/ i \notin K
  BY <1>2, TypeFacts DEF PoolTypeOK
<1>5. IndexHashes = CHOOSE f : f = [i \in 0..N |->
          IF i = 0 THEN NoHash
          ELSE IF Stored[i] \in alloc /\ hash[Stored[i]] # NoHash THEN hash[Stored[i]]
               ELSE compute_block_hash(f[i - 1], p[i])]
  BY DEF IndexHashes
<1>6. \E f \in [0..N -> Hash] : f = ChainOf(f, N, K, v, p)
  <2>1. N \in Nat
    BY <1>2
  <2> HIDE DEF N, K, v, p
  <2> QED BY ONLY <2>1, <1>3, <1>4, ChainExists
<1>7. \A f : ChainOf(f, N, K, v, p)
             = [i \in 0..N |->
                  IF i = 0 THEN NoHash
                  ELSE IF Stored[i] \in alloc /\ hash[Stored[i]] # NoHash THEN hash[Stored[i]]
                       ELSE compute_block_hash(f[i - 1], p[i])]
  <2>1. \A i \in 0..N : i # 0 => i \in 1..N
    BY <1>2
  <2> QED BY <2>1 DEF ChainOf
<1> DEFINE G(f) == ChainOf(f, N, K, v, p)
<1>8. IndexHashes = CHOOSE f : f = G(f)
  BY <1>5, <1>7
<1>9. \E f : f = G(f)
  BY <1>6
<1>10. IndexHashes = G(IndexHashes)
  <2> HIDE DEF G
  <2> QED BY <1>8, <1>9
<1>11. /\ DOMAIN IndexHashes = 0..N /\ IndexHashes[0] = NoHash
       /\ \A i \in 1..N : IndexHashes[i] = IF i \in K THEN v[i]
                              ELSE compute_block_hash(IndexHashes[i - 1], p[i])
  <2>1. 0 \in 0..N /\ \A i \in 1..N : i \in 0..N /\ i # 0
    BY <1>2
  <2> HIDE DEF N, K, v, p
  <2> QED BY <1>10, <2>1 DEF ChainOf
<1>12. \A i \in 0..N : IndexHashes[i] \in Hash
  <2> DEFINE T == {i \in 0..N : IndexHashes[i] \notin Hash}
  <2> SUFFICES ASSUME T # {} PROVE FALSE
    OBVIOUS
  <2>1. T \subseteq Nat
    BY <1>2
  <2>2. PICK n \in T : \A m \in T : n <= m
    BY <2>1, LeastNat
  <2>3. n \in 0..N /\ IndexHashes[n] \notin Hash
    OBVIOUS
  <2>4. n # 0
    BY <1>11, <2>3, HashFacts
  <2>5. n \in 1..N /\ n - 1 \in 0..N /\ n - 1 \notin T
    BY <1>2, <2>2, <2>3, <2>4
  <2>6. IndexHashes[n - 1] \in Hash
    BY <2>5
  <2> HIDE DEF T, N, K, v, p
  <2> QED BY <1>3, <1>4, <1>11, <2>3, <2>5, <2>6, HashFacts
<1>13. ASSUME NEW i \in 1..N
       PROVE  /\ IndexHashes[i] # NoHash
              /\ i \in K => IndexHashes[i] = v[i]
  <2>1. i - 1 \in 0..N
    BY <1>2
  <2>2. IndexHashes[i - 1] \in Hash
    BY <1>12, <2>1
  <2> HIDE DEF N, K, v, p
  <2> QED BY <1>3, <1>4, <1>11, <2>2, HashFacts
<1>14. IndexHashes \in [0..N -> Hash]
  <2>1. IndexHashes = [i \in DOMAIN IndexHashes |-> IndexHashes[i]]
    <3> HIDE DEF N, K, v, p
    <3> QED BY <1>10, <1>11 DEF ChainOf
  <2> HIDE DEF N, K, v, p
  <2> QED BY <1>11, <1>12, <2>1
<1> QED BY <1>1, <1>2, <1>13, <1>14

\* StoreIndex: every entry is an old one or a new one, filed under its last block.
LEMMA StoreIndexStep ==
    ASSUME PrefixTypeInv, StoreIndex
    PROVE  /\ PrefixTypeInv' /\ wrk.pc \in {"find", "index"}
           /\ wrk'.pc = "release" /\ wrk'.req = wrk.req
           /\ UNCHANGED <<count, freeQ, alloc, ref, parent, hashMap, pending, tables, ssd,
                          phase, deleting, eng, served, races>>
           /\ \A b \in Block : \/ hash'[b] = hash[b]
                               \/ b \in alloc /\ hash[b] = NoHash /\ b \in Range(Stored)
           /\ \A b \in Block : blockHashes[b] \subseteq blockHashes'[b]
           /\ \A h \in DOMAIN index' :
                 \/ h \in DOMAIN index /\ index'[h] = index[h]
                 \/ \E i \in 1..Len(Stored) :
                       /\ IndexHashes[i] = h /\ index'[h] = SubSeq(Stored, 1, i)
                       /\ h \in blockHashes'[Stored[i]]
           /\ Calm => ControlInv' /\ Kept /\ \A b \in Block : Holders(b)' = Holders(b)
<1>0. wrk.pc \in {"find", "index"} /\ wrk.pc # "idle"
  BY DEF StoreIndex
<1>1. /\ Stored \in Seq(Block) /\ Len(Stored) \in Nat /\ DOMAIN Stored = 1..Len(Stored)
      /\ IndexHashes \in [0..Len(Stored) -> Hash]
      /\ \A i \in 1..Len(Stored) : IndexHashes[i] # NoHash
  BY <1>0, IndexHashFacts
<1>2. PICK f \in [0..Len(Stored) -> Hash] : f = IndexHashes
  BY <1>1
<1>3. PICK s \in Seq(Block) : s = Stored
  BY <1>1
<1> DEFINE keys == {f[i] : i \in DOMAIN s}
           at(h) == CHOOSE i \in DOMAIN s :
                       f[i] = h /\ \A j \in DOMAIN s : f[j] = h => j <= i
           own(b) == {f[i] : i \in {j \in DOMAIN s : s[j] = b}}
           first(b) == CHOOSE i \in DOMAIN s : s[i] = b
<1>4. /\ index' = [h \in DOMAIN index \union keys |->
                      IF h \in keys THEN SubSeq(s, 1, at(h)) ELSE index[h]]
      /\ blockHashes' = [b \in Block |-> blockHashes[b] \union own(b)]
      /\ hash' = [b \in Block |->
                    IF b \in alloc /\ hash[b] = NoHash /\ b \in Range(s)
                      THEN f[first(b)] ELSE hash[b]]
      /\ entries' = entries \union {wrk.req} /\ cacheLock' = "none"
      /\ wrk' = [wrk EXCEPT !.pc = "release", !.tab = s]
      /\ UNCHANGED <<count, freeQ, alloc, ref, parent, hashMap, pending, tables,
                     ssd, phase, deleting, eng, served, races>>
  BY <1>2, <1>3 DEF StoreIndex, WrkFrame
<1>5. /\ DOMAIN s = 1..Len(s) /\ Len(s) \in Nat
      /\ \A i \in 1..Len(s) : s[i] \in Block /\ f[i] \in Hash /\ i \in 0..Len(s)
  BY <1>1, <1>2, <1>3
<1>6. ASSUME NEW h \in keys PROVE at(h) \in 1..Len(s) /\ f[at(h)] = h
  <2> DEFINE T == {i \in DOMAIN s : f[i] = h}
  <2>1. T \subseteq 0..Len(s) /\ T # {}
    BY <1>5
  <2>2. \E i \in T : \A j \in T : j <= i
    <3> HIDE DEF T
    <3> QED BY <1>5, <2>1, LargestNat
  <2>3. \E i \in DOMAIN s : f[i] = h /\ \A j \in DOMAIN s : f[j] = h => j <= i
    BY <2>2
  <2> HIDE DEF keys
  <2> QED BY <1>5, <2>3
<1>7. ASSUME NEW b \in Range(s) PROVE first(b) \in 1..Len(s)
  <2>1. \E i \in DOMAIN s : s[i] = b
    BY DEF Range
  <2> QED BY <1>5, <2>1
<1> HIDE DEF at, first
<1>8. \A h \in keys : SubSeq(s, 1, at(h)) \in Seq(Block)
  <2> SUFFICES ASSUME NEW h \in keys PROVE SubSeq(s, 1, at(h)) \in Seq(Block)
    OBVIOUS
  <2>1. at(h) \in 0..Len(s)
    BY <1>5, <1>6
  <2> QED BY <1>5, <2>1, SubSeqFacts
<1>9. keys \subseteq Hash /\ \A b \in Block : own(b) \subseteq Hash
  BY <1>5
<1>10. /\ DOMAIN index' \subseteq Hash /\ index' \in [DOMAIN index' -> Seq(Block)]
       /\ blockHashes' \in [Block -> SUBSET Hash]
  <2>1. DOMAIN index \subseteq Hash /\ \A h \in DOMAIN index : index[h] \in Seq(Block)
    BY DEF PrefixTypeInv, PrefixTypeOK
  <2>2. blockHashes \in [Block -> SUBSET Hash]
    BY DEF PrefixTypeInv, PrefixTypeOK
  <2> HIDE DEF keys, own
  <2>3. DOMAIN index' = DOMAIN index \union keys
    BY <1>4
  <2>4. \A h \in DOMAIN index' : index'[h] \in Seq(Block)
    BY <1>4, <1>8, <2>1, <2>3
  <2>5. index' = [h \in DOMAIN index' |-> index'[h]]
    BY <1>4
  <2>6. blockHashes' \in [Block -> SUBSET Hash]
    BY <1>4, <1>9, <2>2
  <2> QED BY <1>9, <2>1, <2>3, <2>4, <2>5, <2>6
<1>11. hash' \in [Block -> Hash]
  BY <1>4, <1>5, <1>7, TypeFacts DEF PoolTypeOK
<1>12. PoolTypeOK'
  BY <1>4, <1>11, TypeFacts DEF PoolTypeOK
<1>13. /\ wrk' \in WrkType /\ wrk'.pc = "release" /\ wrk'.tab = s
       /\ wrk'.hash = wrk.hash /\ wrk'.blk = wrk.blk /\ wrk'.req = wrk.req
  BY <1>4, TypeFacts DEF WrkType, WrkPC
<1>14. wrk.req \in Req /\ phase[wrk.req] \notin {"new", "running"}
  BY <1>0, Apart
<1>15. PrefixTypeOK'
  BY <1>4, <1>10, <1>12, <1>13, <1>14 DEF PrefixTypeInv, PrefixTypeOK, WrkType, TypeOK
<1>16. PrefixTypeInv'
  BY <1>4, <1>13, <1>14, <1>15 DEF PrefixTypeInv, WalkPC, BusyPC, Table, Stored
<1>17. \A b \in Block : \/ hash'[b] = hash[b]
                        \/ b \in alloc /\ hash[b] = NoHash /\ b \in Range(Stored)
  BY <1>3, <1>4
<1>18. ASSUME NEW h \in DOMAIN index'
       PROVE  \/ h \in DOMAIN index /\ index'[h] = index[h]
              \/ \E i \in 1..Len(Stored) :
                    /\ IndexHashes[i] = h /\ index'[h] = SubSeq(Stored, 1, i)
                    /\ h \in blockHashes'[Stored[i]]
  <2>1. CASE h \in keys
    <3>1. index'[h] = SubSeq(s, 1, at(h)) /\ at(h) \in 1..Len(s) /\ f[at(h)] = h
      BY <1>4, <1>6, <2>1
    <3>2. h \in own(s[at(h)]) /\ s[at(h)] \in Block
      BY <1>5, <3>1
    <3>3. h \in blockHashes'[s[at(h)]]
      BY <1>4, <3>2
    <3> QED BY <1>2, <1>3, <3>1, <3>3
  <2>2. CASE h \notin keys
    BY <1>4, <2>2
  <2> QED BY <2>1, <2>2
<1>19. \A b \in Block : blockHashes[b] \subseteq blockHashes'[b]
  BY <1>4
<1>20. ASSUME Calm PROVE ControlInv' /\ Kept /\ \A b \in Block : Holders(b)' = Holders(b)
  <2>1. \A x \in Req : Holding(x)' <=> Holding(x)
    BY <1>0, <1>4, <1>13 DEF Holding
  <2>2. ControlInv'
    <3>1. phase[wrk.req] = "storing" /\ cacheLock = "worker"
      BY <1>0, <1>20, Apart DEF Calm, ControlInv, StorePC
    <3>2. wrk'.tab = Stored'
      BY <1>3, <1>4, <1>13 DEF Stored
    <3> QED BY <1>4, <1>13, <1>20, <2>1, <3>1, <3>2
            DEF Calm, ControlInv, QuietPC, WalkPC, StorePC, BusyPC
  <2>3. wrk'.pc # "write" /\ wrk.pc # "write"
    BY <1>0, <1>13
  <2> QED BY <1>4, <1>13, <2>1, <2>2, <2>3, TypeFacts, HoldersKept
<1> QED BY <1>0, <1>4, <1>13, <1>16, <1>17, <1>18, <1>19, <1>20

\* StoreRelease.
LEMMA StoreReleaseStep ==
    ASSUME PrefixTypeInv, StoreRelease
    PROVE  /\ PrefixTypeInv' /\ release_for_eviction(wrk.tab) /\ wrk.tab \in Seq(Block)
           /\ wrk.pc = "release" /\ wrk'.pc = "clear"
           /\ UNCHANGED <<eng, index, blockHashes, ssd, served, races, tables>>
           /\ Calm => /\ ControlInv' /\ Kept
                      /\ \A b \in Block : Holders(b) = Holders(b)' + Occurrences(wrk.tab, b)
<1>1. /\ wrk.pc = "release" /\ release_for_eviction(wrk.tab)
      /\ wrk' = [wrk EXCEPT !.pc = "clear"]
      /\ UNCHANGED <<tables, cacheLock, entries, ssd, phase, deleting, eng, served,
                     races, index, blockHashes>>
  BY DEF StoreRelease, IndexFrame, WrkFrame
<1>0. PICK r \in Req : r = wrk.req
  BY <1>1, Apart
<1>2. /\ tables \in [Req -> Seq(Block)] /\ deleting \in Seq(Block) /\ eng \in EngType
      /\ wrk \in WrkType /\ wrk.tab \in Seq(Block)
  BY TypeFacts DEF WrkType
<1>3. /\ wrk' \in WrkType /\ wrk'.pc = "clear" /\ wrk'.req = r /\ wrk'.blk = wrk.blk
  BY <1>0, <1>1, <1>2 DEF WrkType, WrkPC
<1>4. PoolTypeOK'
  BY <1>1, <1>2, TypeFacts, CallsTyped
<1>5. PrefixTypeOK'
  BY <1>1, <1>3, <1>4 DEF PrefixTypeInv, PrefixTypeOK, WrkType, TypeOK
<1>6. PrefixTypeInv'
  BY <1>0, <1>1, <1>3, <1>5 DEF PrefixTypeInv, WalkPC, BusyPC, Table, Stored
<1>7. ASSUME Calm
      PROVE  /\ ControlInv' /\ Kept
             /\ \A b \in Block : Holders(b) = Holders(b)' + Occurrences(wrk.tab, b)
  <2>1. /\ \A x \in Req \ {r} : Holding(x)' <=> Holding(x)
        /\ Holding(r) /\ ~Holding(r)' /\ phase[r] = "storing"
    <3>1. Holding(r) /\ phase[r] = "storing"
      BY <1>0, <1>1, <1>7, Apart
    <3> QED BY <3>1, <1>0, <1>1, <1>3 DEF Holding
  <2>2. ControlInv'
    BY <1>0, <1>1, <1>3, <1>7, <2>1
       DEF Calm, ControlInv, QuietPC, WalkPC, StorePC, BusyPC, Stored
  <2>3. Kept
    BY <1>1, <2>1 DEF Kept, TablesKept, ClaimsKept
  <2>4. ASSUME NEW b \in Block PROVE Holders(b) = Holders(b)' + Occurrences(wrk.tab, b)
    <3> DEFINE p == Occurrences(tables[r], b)
               c == Occurrences(eng.claims, b)
               t == Occurrences(eng.todo, b)
               e == Occurrences(deleting, b)
    <3>1. p \in Nat /\ c \in Nat /\ t \in Nat /\ e \in Nat
      BY <1>2, HoldersParts, OccurrencesNat
    <3>2. Part(r, b) = p + (c + t + e + 0)
      BY <1>1, <2>1 DEF Part, Hands, Share, Fresh
    <3>3. Part(r, b)' = 0 + (c + t + e + 0)
      BY <1>1, <1>3, <2>1, PartNext
    <3>4. /\ Holders(b)' = Holders(b) - Part(r, b) + Part(r, b)'
          /\ Holders(b) \in Nat /\ Holders(b)' \in Nat
          /\ Part(r, b) \in Nat /\ Part(r, b)' \in Nat
      BY <1>1, <1>2, <2>1, HoldersMoved
    <3>5. tables[r] = wrk.tab
      BY <1>0, <1>1, <1>7 DEF Calm, ControlInv, Stored
    <3> HIDE DEF p, c, t, e
    <3>6. Holders(b) = Holders(b)' + p
      BY ONLY <3>1, <3>2, <3>3, <3>4
    <3> QED BY <3>5, <3>6 DEF p
  <2> QED BY <2>2, <2>3, <2>4
<1> QED BY <1>1, <1>2, <1>3, <1>6, <1>7

\* StoreClear.
LEMMA StoreClearStep ==
    ASSUME PrefixTypeInv, StoreClear
    PROVE  /\ PrefixTypeInv'
           /\ Calm => ControlInv' /\ Kept /\ \A b \in Block : Holders(b)' = Holders(b)
<1>0. PICK r \in Req : r = wrk.req
  BY Apart DEF StoreClear
<1>1. /\ wrk.pc = "clear" /\ phase[r] \notin {"new", "running"} /\ entries' = entries \ {r}
      /\ tables' = IF r \in entries THEN [tables EXCEPT ![r] = <<>>] ELSE tables
      /\ phase' = [phase EXCEPT ![r] = "done"]
      /\ wrk' = WrkIdle
      /\ UNCHANGED <<poolVars, deleting, cacheLock, eng, ssd, served, races, index,
                     blockHashes>>
      /\ phase \in [Req -> Phase] /\ tables \in [Req -> Seq(Block)]
      /\ deleting \in Seq(Block) /\ eng \in EngType /\ wrk \in WrkType
      /\ eng.pc \notin {"idle", "retire"} => eng.req # r
  BY <1>0, TypeFacts, Apart
     DEF StoreClear, ClearEntryNoFree, PoolFrame, IndexFrame, WrkFrame
<1>2. /\ phase' \in [Req -> Phase] /\ phase'[r] = "done"
      /\ \A x \in Req \ {r} : phase'[x] = phase[x]
  BY <1>1 DEF Phase
<1>3. wrk' \in WrkType /\ wrk'.pc = "idle"
  <2>1. WrkIdle \in WrkType
    BY NullBlock, HashFacts, TypeFacts DEF WrkIdle, WrkType, WrkPC, Null
  <2> QED BY <1>1, <2>1 DEF WrkIdle
<1>4. /\ tables' \in [Req -> Seq(Block)] /\ \A x \in Req \ {r} : tables'[x] = tables[x]
      /\ tables'[r] = tables[r] \/ tables'[r] = <<>>
  BY <1>1, TypeFacts
<1>5. PrefixTypeOK'
  BY <1>1, <1>2, <1>3, <1>4, CallsTyped
     DEF PrefixTypeInv, PrefixTypeOK, WrkType, TypeOK, poolVars
<1>6. \A x \in Req : Len(tables'[x]) <= Len(Prompt[x])
  <2>1. \A x \in Req : Len(tables'[x]) <= Len(tables[x]) /\ Len(tables'[x]) \in Nat
                       /\ Len(tables[x]) \in Nat /\ Len(Prompt[x]) \in Nat
    BY <1>1, <1>4, TypeFacts, PrefixHashFacts
  <2> QED BY <2>1 DEF PrefixTypeInv
<1>7. PrefixTypeInv'
  BY <1>0, <1>1, <1>2, <1>3, <1>4, <1>5, <1>6 DEF PrefixTypeInv, WalkPC, BusyPC, Table
<1>8. ASSUME Calm PROVE ControlInv' /\ Kept /\ \A b \in Block : Holders(b)' = Holders(b)
  <2>1. /\ \A x \in Req \ {r} : Holding(x)' <=> Holding(x)
        /\ ~Holding(r) /\ ~Holding(r)' /\ phase[r] = "storing"
    <3>1. ~Holding(r) /\ phase[r] = "storing"
      BY <1>0, <1>1, <1>8, Apart
    <3> QED BY <3>1, <1>0, <1>1, <1>2, <1>3 DEF Holding
  <2>2. ControlInv'
    BY <1>0, <1>1, <1>2, <1>3, <1>4, <1>8, <2>1
       DEF Calm, ControlInv, QuietPC, WalkPC, StorePC, BusyPC
  <2>3. Kept
    BY <1>1, <1>4, <2>1 DEF Kept, TablesKept, ClaimsKept
  <2>4. ASSUME NEW b \in Block PROVE Holders(b)' = Holders(b)
    <3>1. \A x \in Req : Share(x, b)' = Share(x, b)
      BY <1>4, <2>1 DEF Share
    <3>2. Shares(b)' = Shares(b)
      BY <1>1, <3>1, SharesKept
    <3>3. Fresh(b)' = Fresh(b)
      BY <1>1, <1>3 DEF Fresh
    <3> QED BY <1>1, <1>4, <3>2, <3>3, HoldersParts, HoldersPartsNext
  <2> QED BY <2>2, <2>3, <2>4
<1> QED BY <1>7, <1>8

\* SsdLose, and a step that changes nothing.
LEMMA SsdLoseStep ==
    ASSUME PrefixTypeInv, SsdLose \/ UNCHANGED vars
    PROVE  /\ PrefixTypeInv'
           /\ Calm => ControlInv' /\ Kept /\ \A b \in Block : Holders(b)' = Holders(b)
<1>1. UNCHANGED <<poolVars, tables, deleting, cacheLock, eng, wrk, entries, phase, served,
                  races, index, blockHashes>>
  BY DEF SsdLose, PoolFrame, IndexFrame, vars, pagedVars, prefixVars, poolVars
<1>2. DOMAIN ssd' \subseteq Hash /\ ssd' \in [DOMAIN ssd' -> Hash]
  <2>1. /\ DOMAIN ssd \subseteq Hash /\ ssd \in [DOMAIN ssd -> Hash]
        /\ \A h \in DOMAIN ssd : ssd[h] \in Hash
    BY DEF PrefixTypeInv, PrefixTypeOK
  <2>2. ssd' = ssd \/ \E lost \in DOMAIN ssd : ssd' = [h \in DOMAIN ssd \ {lost} |-> ssd[h]]
    BY DEF SsdLose, vars, prefixVars
  <2>3. ASSUME NEW lost, ssd' = [h \in DOMAIN ssd \ {lost} |-> ssd[h]]
        PROVE  DOMAIN ssd' \subseteq Hash /\ ssd' \in [DOMAIN ssd' -> Hash]
    BY <2>1, <2>3
  <2>4. CASE ssd' = ssd
    BY <2>1, <2>4
  <2> QED BY <2>2, <2>3, <2>4
<1>3. PrefixTypeOK'
  BY <1>1, <1>2, CallsTyped DEF PrefixTypeInv, PrefixTypeOK, TypeOK, poolVars
<1>4. PrefixTypeInv'
  BY <1>1, <1>3 DEF PrefixTypeInv, WalkPC, BusyPC, Table, Stored
<1>5. ASSUME Calm PROVE ControlInv' /\ Kept /\ \A b \in Block : Holders(b)' = Holders(b)
  <2>1. \A x \in Req : Holding(x)' <=> Holding(x)
    BY <1>1 DEF Holding
  <2>2. ControlInv'
    BY <1>1, <1>5, <2>1 DEF Calm, ControlInv, QuietPC, WalkPC, StorePC, BusyPC, Stored
  <2> QED BY <1>1, <2>1, <2>2, TypeFacts, HoldersKept
<1> QED BY <1>4, <1>5

\* The initial state: nobody holds anything.
LEMMA PrefixStarts ==
    ASSUME PrefixInit
    PROVE  PrefixTypeInv /\ ControlInv
<1>1. /\ index = <<>> /\ ssd = <<>> /\ blockHashes = [b \in Block |-> {}] /\ entries = {}
      /\ cacheLock = "none" /\ phase = [r \in Req |-> "new"] /\ eng = EngIdle
      /\ wrk = WrkIdle /\ served = [r \in Req |-> <<>>] /\ races = {}
      /\ PoolInit
  BY DEF PrefixInit
<1>2. TypeOK /\ tables = [r \in Req |-> <<>>] /\ deleting = <<>>
  BY <1>1, PoolInitInv DEF PoolInit, NoTables, TypeOK, PoolInv
<1>3. /\ eng \in EngType /\ eng.pc = "idle" /\ eng.claims = <<>> /\ eng.todo = <<>>
      /\ eng.swap = FALSE /\ eng.fire = {} /\ eng.req = NoReq
  <2>1. <<>> \in Seq(Block) /\ {} \in SUBSET Block
    OBVIOUS
  <2> QED BY <1>1, <2>1 DEF EngIdle, EngType, EngPC
<1>4. wrk \in WrkType /\ wrk.pc = "idle"
  <2>1. WrkIdle \in WrkType
    <3>1. <<>> \in Seq(Block)
      OBVIOUS
    <3> QED BY <3>1, NullBlock, HashFacts DEF WrkIdle, WrkType, WrkPC, Null
  <2> QED BY <1>1, <2>1 DEF WrkIdle
<1>5. PrefixTypeOK
  <2>1. DOMAIN index = {} /\ index \in [{} -> Seq(Block)]
    BY <1>1
  <2>2. DOMAIN ssd = {} /\ ssd \in [{} -> Hash]
    BY <1>1
  <2>3. served \in [Req -> Seq(Hash)] /\ phase \in [Req -> Phase]
    BY <1>1 DEF Phase
  <2> QED BY <1>1, <1>2, <1>3, <1>4, <2>1, <2>2, <2>3 DEF PrefixTypeOK, EngType, WrkType
<1>6. PrefixTypeInv
  <2>1. \A r \in Req : Len(tables[r]) = 0 /\ Len(Prompt[r]) \in Nat
    BY <1>2, PrefixHashFacts
  <2> QED BY <1>3, <1>4, <1>5, <2>1 DEF PrefixTypeInv, WalkPC, BusyPC
<1>7. ControlInv
  BY <1>1, <1>2, <1>3, <1>4 DEF ControlInv, QuietPC, StorePC, BusyPC
<1> QED BY <1>6, <1>7

-----------------------------------------------------------------------------
(***************************************************************************)
(* All steps together.                                                     *)
(***************************************************************************)

\* What every step lemma has in common.
LEMMA NextTyped ==
    ASSUME PrefixTypeInv, [PrefixNext]_vars
    PROVE  PrefixTypeInv' /\ (Calm => ControlInv')
<1>1. ASSUME EngineStep PROVE PrefixTypeInv' /\ (Calm => ControlInv')
  <2>1. CASE EngSwap \/ EngFire
    BY <2>1, EngSwapStep, EngFireStep
  <2>2. ASSUME NEW r \in Req, FetchStart(r) \/ Finish(r) \/ Retire(r) \/ Reject(r)
        PROVE  PrefixTypeInv' /\ (Calm => ControlInv')
    BY <2>2, FetchStartStep, FinishStep, RetireStep, RejectStep
  <2>3. CASE WalkClaim
    <3>1. /\ eng.pc = "walk" /\ MoreWanted /\ EngFrame /\ IndexFrame
          /\ UNCHANGED <<tables, deleting, cacheLock>>
      BY <2>3 DEF WalkClaim
    <3>2. PICK b \in Block : ClaimCached(Wanted, b) /\ eng' = [eng EXCEPT !.claims = Append(@, b)]
      BY <2>3 DEF WalkClaim
    <3> QED BY <3>1, <3>2, WalkClaimStep
  <2>4. CASE WalkRestore
    <3>1. /\ eng.pc = "walk" /\ MoreWanted /\ EngFrame /\ IndexFrame
          /\ UNCHANGED <<tables, deleting, cacheLock>>
      BY <2>4 DEF WalkRestore
    <3>2. PICK b \in Block : /\ LazyRestore(Wanted, PrefixHash(eng.req, Len(eng.claims)), b)
                             /\ eng' = [eng EXCEPT !.claims = Append(@, b)]
      BY <2>4 DEF WalkRestore
    <3> QED BY <3>1, <3>2, WalkClaimStep
  <2>5. CASE WalkEnd \/ IndexLookup \/ IndexClaim \/ UnclaimEnd \/ TableBuild
    BY <2>5, WalkEndStep, IndexLookupStep, IndexClaimStep, UnclaimEndStep, TableBuildStep
  <2>6. CASE Unclaim \/ Drop
    BY <2>6, EngFreeStep DEF Unclaim, Drop
  <2>7. CASE ReconstructAll \/ ReconstructPart \/ DropEnd \/ WalkBack
    BY <2>7, ReconstructAllStep, ReconstructPartStep, DropEndStep, WalkBackStep
  <2>8. CASE Rebuilt \/ GiveUpTable \/ PreloadTimeout \/ EngDeleteStep \/ EngDeleteEnd
    BY <2>8, RebuiltStep, GiveUpTableStep, EngDeleteStepStep, EngDeleteEndStep
  <2>9. CASE RetireEnd \/ Demote
    BY <2>9, RetireEndStep, DemoteStep
  <2> QED BY <1>1, <2>1, <2>2, <2>3, <2>4, <2>5, <2>6, <2>7, <2>8, <2>9 DEF EngineStep
<1>2. ASSUME WorkerStep PROVE PrefixTypeInv' /\ (Calm => ControlInv')
  <2>1. CASE WrkFlush \/ StoreFind \/ StoreReuse \/ StoreWrite
    BY <2>1, WrkFlushStep, StoreFindStep, StoreGrowStep
  <2>2. ASSUME NEW r \in Req, StoreStart(r)
        PROVE  PrefixTypeInv' /\ (Calm => ControlInv')
    BY <2>2, StoreStartStep
  <2>3. CASE StoreAlloc \/ StoreAllocFails \/ StorePressure
    BY <2>3, StoreAllocStep, StorePressureStep
  <2>4. CASE StoreSave \/ StoreSaveFails
    BY <2>4, StoreSaveStep, StoreSaveFailsStep
  <2>5. CASE StoreIndex \/ StoreRelease \/ StoreClear
    BY <2>5, StoreIndexStep, StoreReleaseStep, StoreClearStep
  <2> QED BY <1>2, <2>1, <2>2, <2>3, <2>4, <2>5 DEF WorkerStep
<1> QED BY <1>1, <1>2, SsdLoseStep DEF PrefixNext

\* Types, lengths and owners hold whatever happens: store_cache never indexes a
\* prompt past its end, no thread works on a request it does not have, and a
\* table never outgrows its prompt (fetch_cache, reconstruct_cache,
\* store_cache, _update_prefix_index), even when a store in flight is aborted.
THEOREM PrefixTypes == PrefixSpec => []PrefixTypeOK
<1>1. PrefixInit => PrefixTypeInv
  BY PrefixStarts
<1>2. PrefixTypeInv /\ [PrefixNext]_vars => PrefixTypeInv'
  BY NextTyped
<1>3. PrefixTypeInv => PrefixTypeOK
  BY DEF PrefixTypeInv
<1> QED BY <1>1, <1>2, <1>3, PTL DEF PrefixSpec

-----------------------------------------------------------------------------
(***************************************************************************)
(* References against holders. Every step is one entry of a ledger: the    *)
(* references it gains, takes or gives back are those of the holders it    *)
(* adds or removes.                                                        *)
(***************************************************************************)

\* Blocks that gain a reference for each new holder.
Gains(s) ==
    /\ UNCHANGED alloc
    /\ \A x \in alloc : ref'[x] = ref[x] + Occurrences(s, x)
    /\ \A x \in Block : Holders(x)' = Holders(x) + Occurrences(s, x)
    /\ PoolInv /\ "reuse" \notin races' => Range(s) \subseteq alloc

\* A fresh block with its first holder.
Takes(b) ==
    /\ AllocateBlockInternal(b)
    /\ ref' = [ref EXCEPT ![b] = 1]
    /\ \A x \in Block : Holders(x)' = Holders(x) + (IF b = x THEN 1 ELSE 0)

\* One holder frees its block.
Frees(b) ==
    /\ free_block(b)
    /\ \A x \in Block : Holders(x) = Holders(x)' + (IF b = x THEN 1 ELSE 0)

\* A request gives back what its table stands for.
Releases(s) ==
    /\ release_for_eviction(s)
    /\ \A x \in Block : Holders(x) = Holders(x)' + Occurrences(s, x)

\* A cached block goes.
Evicts(b) ==
    /\ handle_memory_pressure(b)
    /\ \A x \in Block : Holders(x)' = Holders(x)

\* A rejected request forgets its table.
Forgets ==
    /\ \E r \in Req : phase'[r] = "rejected"
    /\ UNCHANGED <<alloc, ref>>
    /\ \A x \in Block : Holders(x)' <= Holders(x)

Ledger ==
    \/ \E s \in Seq(Block) : Gains(s) \/ Releases(s)
    \/ \E b \in Block : Takes(b) \/ Frees(b) \/ Evicts(b)
    \/ Forgets

\* Nothing gained.
LEMMA GainsNothing ==
    ASSUME PrefixTypeInv, UNCHANGED <<alloc, ref>>,
           \A x \in Block : Holders(x)' = Holders(x)
    PROVE  Ledger
<1>1. <<>> \in Seq(Block) /\ Range(<<>>) = {}
  BY DEF Range
<1>2. \A x \in Block : ref[x] \in Int /\ Holders(x) \in Nat
  BY TypeFacts, HoldersParts DEF PoolTypeOK
<1>3. \A x \in Block : Occurrences(<<>>, x) = 0
  BY OccEmpty
<1>4. alloc \subseteq Block
  BY TypeFacts DEF PoolTypeOK
<1>5. Gains(<<>>)
  BY <1>1, <1>2, <1>3, <1>4 DEF Gains
<1> QED BY <1>1, <1>5 DEF Ledger

\* One reference gained.
LEMMA GainsOne ==
    ASSUME PrefixTypeInv, NEW b \in Block, UNCHANGED alloc,
           \A x \in alloc : ref'[x] = ref[x] + (IF b = x THEN 1 ELSE 0),
           \A x \in Block : Holders(x)' = Holders(x) + (IF b = x THEN 1 ELSE 0),
           PoolInv /\ "reuse" \notin races' => b \in alloc
    PROVE  Ledger
<1> DEFINE s == Append(<<>>, b)
<1>1. <<>> \in Seq(Block)
  OBVIOUS
<1>2. s \in Seq(Block) /\ Range(s) = {b}
  BY <1>1 DEF Range
<1>3. ASSUME NEW x PROVE Occurrences(s, x) = IF b = x THEN 1 ELSE 0
  <2>1. Occurrences(s, x) = Occurrences(<<>>, x) + (IF b = x THEN 1 ELSE 0)
    BY <1>1, OccAppend
  <2>2. Occurrences(<<>>, x) = 0
    BY OccEmpty
  <2> HIDE DEF s
  <2> QED BY <2>1, <2>2
<1> HIDE DEF s
<1>4. Gains(s)
  BY <1>2, <1>3, TypeFacts DEF Gains, PoolTypeOK
<1> QED BY <1>2, <1>4 DEF Ledger

\* Every step is an entry.
LEMMA NextLedger ==
    ASSUME PrefixTypeInv, Calm, [PrefixNext]_vars
    PROVE  Ledger
<1>1. ASSUME EngineStep PROVE Ledger
  <2>1. CASE EngSwap \/ EngFire
    <3>1. UNCHANGED <<alloc, ref>>
      BY <2>1 DEF EngSwap, EngFire, PoolFrame, poolVars
    <3> QED BY <2>1, <3>1, EngSwapStep, EngFireStep, GainsNothing
  <2>2. ASSUME NEW r \in Req, FetchStart(r) \/ Finish(r)
        PROVE  Ledger
    <3>1. UNCHANGED <<alloc, ref>>
      BY <2>2 DEF FetchStart, Finish, PoolFrame, poolVars
    <3> QED BY <2>2, <3>1, FetchStartStep, FinishStep, GainsNothing
  <2>3. ASSUME NEW r \in Req, Reject(r)
        PROVE  Ledger
    <3>1. UNCHANGED <<alloc, ref>>
      BY <2>3 DEF Reject, PoolFrame, poolVars
    <3> QED BY <2>3, <3>1, RejectStep DEF Ledger, Forgets
  <2>4. ASSUME NEW r \in Req, Retire(r)
        PROVE  Ledger
    BY <2>4, RetireStep DEF Ledger, Releases
  <2>5. CASE WalkClaim
    <3>1. /\ eng.pc = "walk" /\ MoreWanted /\ EngFrame /\ IndexFrame
          /\ UNCHANGED <<tables, deleting, cacheLock>>
      BY <2>5 DEF WalkClaim
    <3>2. PICK b \in Block : ClaimCached(Wanted, b) /\ eng' = [eng EXCEPT !.claims = Append(@, b)]
      BY <2>5 DEF WalkClaim
    <3>3. \A x \in Block : Holders(x)' = Holders(x) + (IF b = x THEN 1 ELSE 0)
      BY <3>1, <3>2, WalkClaimStep
    <3>4. UNCHANGED alloc /\ \A x \in alloc : ref'[x] = ref[x] + (IF b = x THEN 1 ELSE 0)
      BY <3>2, TypeFacts DEF ClaimCached, PoolTypeOK
    <3>5. PoolInv => b \in alloc
      BY <3>2 DEF ClaimCached, get_block, PoolInv, IndexSound
    <3> QED BY <3>3, <3>4, <3>5, GainsOne
  <2>6. CASE WalkRestore
    <3>1. /\ eng.pc = "walk" /\ MoreWanted /\ EngFrame /\ IndexFrame
          /\ UNCHANGED <<tables, deleting, cacheLock>>
      BY <2>6 DEF WalkRestore
    <3>2. PICK b \in Block : /\ LazyRestore(Wanted, PrefixHash(eng.req, Len(eng.claims)), b)
                             /\ eng' = [eng EXCEPT !.claims = Append(@, b)]
      BY <2>6 DEF WalkRestore
    <3>3. \A x \in Block : Holders(x)' = Holders(x) + (IF b = x THEN 1 ELSE 0)
      BY <3>1, <3>2, WalkClaimStep
    <3>4. Takes(b)
      BY <3>2, <3>3 DEF Takes, LazyRestore
    <3> QED BY <3>4 DEF Ledger
  <2>7. CASE WalkEnd \/ IndexLookup \/ UnclaimEnd \/ TableBuild
    <3>1. UNCHANGED <<alloc, ref>>
      BY <2>7 DEF WalkEnd, IndexLookup, UnclaimEnd, TableBuild, PoolFrame, poolVars
    <3> QED BY <2>7, <3>1, WalkEndStep, IndexLookupStep, UnclaimEndStep, TableBuildStep,
            GainsNothing
  <2>8. CASE IndexClaim
    <3> DEFINE live == Live(eng.best)
    <3>1. /\ live \in Seq(Block) /\ UNCHANGED alloc
          /\ \A x \in Block : ref'[x] = ref[x] + Occurrences(live, x)
          /\ \A x \in Block : Holders(x)' = Holders(x) + Occurrences(live, x)
      BY <2>8, IndexClaimStep
    <3>2. Range(live) \subseteq alloc
      <4>1. eng.best \in Seq(Block)
        BY TypeFacts DEF EngType
      <4> QED BY <3>1, <4>1, LiveFacts DEF Range
    <3> HIDE DEF live
    <3>3. Gains(live)
      BY <3>1, <3>2, TypeFacts DEF Gains, PoolTypeOK
    <3> QED BY <3>1, <3>3 DEF Ledger
  <2>9. CASE Unclaim \/ Drop
    <3>1. /\ Head(eng.todo) \in Block /\ free_block(Head(eng.todo))
          /\ \A b \in Block : Holders(b) = Holders(b)' + (IF Head(eng.todo) = b THEN 1 ELSE 0)
      BY <2>9, EngFreeStep DEF Unclaim, Drop
    <3> QED BY <3>1 DEF Ledger, Frees
  <2>10. CASE ReconstructAll \/ ReconstructPart \/ DropEnd \/ WalkBack
    <3>1. UNCHANGED <<alloc, ref>>
      BY <2>10 DEF ReconstructAll, ReconstructPart, DropEnd, WalkBack, PoolFrame, poolVars
    <3> QED BY <2>10, <3>1, ReconstructAllStep, ReconstructPartStep, DropEndStep,
            WalkBackStep, GainsNothing
  <2>11. CASE Rebuilt \/ GiveUpTable \/ PreloadTimeout \/ EngDeleteEnd
    <3>1. UNCHANGED <<alloc, ref>>
      BY <2>11 DEF Rebuilt, GiveUpTable, PreloadTimeout, EngDeleteEnd, PoolFrame,
                   delete_block_table, poolVars
    <3> QED BY <2>11, <3>1, RebuiltStep, GiveUpTableStep, EngDeleteEndStep, GainsNothing
  <2>12. CASE EngDeleteStep
    <3>1. /\ Head(deleting) \in Block /\ free_block(Head(deleting))
          /\ \A b \in Block : Holders(b) = Holders(b)' + (IF Head(deleting) = b THEN 1 ELSE 0)
      BY <2>12, EngDeleteStepStep
    <3> QED BY <3>1 DEF Ledger, Frees
  <2>13. CASE RetireEnd \/ Demote
    <3>1. UNCHANGED <<alloc, ref>>
      BY <2>13 DEF RetireEnd, Demote, PoolFrame, poolVars, evict_lru_blocks
    <3> QED BY <2>13, <3>1, RetireEndStep, DemoteStep, GainsNothing
  <2> QED BY <1>1, <2>1, <2>2, <2>3, <2>4, <2>5, <2>6, <2>7, <2>8, <2>9, <2>10, <2>11,
             <2>12, <2>13 DEF EngineStep
<1>2. ASSUME WorkerStep PROVE Ledger
  <2>1. CASE WrkFlush \/ StoreFind
    <3>1. UNCHANGED <<alloc, ref>>
      BY <2>1 DEF WrkFlush, StoreFind, PoolFrame, poolVars
    <3> QED BY <2>1, <3>1, WrkFlushStep, StoreFindStep, GainsNothing
  <2>2. ASSUME NEW r \in Req, StoreStart(r)
        PROVE  Ledger
    <3>1. UNCHANGED <<alloc, ref>>
      BY <2>2 DEF StoreStart, PoolFrame, poolVars
    <3> QED BY <2>2, <3>1, StoreStartStep, GainsNothing
  <2>3. CASE StoreReuse
    <3>1. /\ wrk.pc = "incref" /\ increment_ref(wrk.blk) /\ races' = races \union ReuseRace
      BY <2>3 DEF StoreReuse
    <3>2. /\ wrk.blk \in Block
          /\ \A x \in Block : Holders(x)' = Holders(x) + (IF wrk.blk = x THEN 1 ELSE 0)
      BY <2>3, <3>1, StoreGrowStep
    <3>3. /\ UNCHANGED alloc
          /\ \A x \in alloc : ref'[x] = ref[x] + (IF wrk.blk = x THEN 1 ELSE 0)
      BY <3>1, <3>2, TypeFacts DEF increment_ref, PoolTypeOK
    <3>4. "reuse" \notin races' => wrk.blk \in alloc
      BY <3>1 DEF ReuseRace
    <3> QED BY <3>2, <3>3, <3>4, GainsOne
  <2>4. CASE StoreWrite
    <3>1. wrk.pc = "write" /\ UNCHANGED <<alloc, ref>>
      BY <2>4 DEF StoreWrite, register_block_hash
    <3>2. \A x \in Block : Holders(x)' = Holders(x) + 0 /\ Holders(x) \in Nat
      BY <2>4, <3>1, StoreGrowStep, TypeFacts, HoldersParts
    <3>3. \A x \in Block : Holders(x)' = Holders(x)
      BY <3>2
    <3> QED BY <3>1, <3>3, GainsNothing
  <2>5. CASE StoreAlloc
    <3>1. /\ wrk'.blk \in Block /\ allocate_block(wrk'.blk)
          /\ \A b \in Block : Holders(b)' = Holders(b) + (IF wrk'.blk = b THEN 1 ELSE 0)
      BY <2>5, StoreAllocStep
    <3>2. Takes(wrk'.blk)
      BY <3>1 DEF Takes, allocate_block
    <3> QED BY <3>1, <3>2 DEF Ledger
  <2>6. CASE StoreAllocFails \/ StorePressure
    <3>1. /\ UNCHANGED poolVars \/ \E b \in Block : handle_memory_pressure(b)
          /\ \A b \in Block : Holders(b)' = Holders(b)
      BY <2>6, StorePressureStep
    <3>2. CASE UNCHANGED poolVars
      BY <3>1, <3>2, GainsNothing DEF poolVars
    <3>3. CASE \E b \in Block : handle_memory_pressure(b)
      BY <3>1, <3>3 DEF Ledger, Evicts
    <3> QED BY <3>1, <3>2, <3>3
  <2>7. CASE StoreSave
    BY <2>7, StoreSaveStep, GainsNothing DEF poolVars
  <2>8. CASE StoreSaveFails
    BY <2>8, StoreSaveFailsStep DEF Ledger, Frees
  <2>9. CASE StoreIndex
    BY <2>9, StoreIndexStep, GainsNothing
  <2>10. CASE StoreRelease
    BY <2>10, StoreReleaseStep DEF Ledger, Releases
  <2>11. CASE StoreClear
    <3>1. UNCHANGED <<alloc, ref>>
      BY <2>11 DEF StoreClear, PoolFrame, poolVars
    <3> QED BY <2>11, <3>1, StoreClearStep, GainsNothing
  <2> QED BY <1>2, <2>1, <2>2, <2>3, <2>4, <2>5, <2>6, <2>7, <2>8, <2>9, <2>10, <2>11
          DEF WorkerStep
<1>3. CASE SsdLose \/ UNCHANGED vars
  <2>1. UNCHANGED <<alloc, ref>>
    BY <1>3 DEF SsdLose, PoolFrame, poolVars, vars, pagedVars
  <2> QED BY <1>3, <2>1, SsdLoseStep, GainsNothing
<1> QED BY <1>1, <1>2, <1>3 DEF PrefixNext

\* A rejected request is over.
LEMMA RejectedStays ==
    ASSUME PrefixTypeInv, Calm, [PrefixNext]_vars, NEW r \in Req, phase[r] = "rejected"
    PROVE  phase'[r] = "rejected"
<1>1. phase \in [Req -> Phase]
  BY TypeFacts
<1>2. ASSUME EngineStep PROVE phase'[r] = "rejected"
  <2>1. CASE EngSwap \/ EngFire \/ WalkClaim \/ WalkRestore \/ WalkEnd \/ IndexLookup
             \/ IndexClaim \/ Unclaim \/ UnclaimEnd
    BY <2>1 DEF EngSwap, EngFire, WalkClaim, WalkRestore, WalkEnd, IndexLookup, IndexClaim,
                Unclaim, UnclaimEnd, EngFreeNext, EngFrame
  <2>2. CASE ReconstructAll \/ ReconstructPart \/ Drop \/ WalkBack \/ GiveUpTable
             \/ EngDeleteStep \/ Demote
    BY <2>2 DEF ReconstructAll, ReconstructPart, Drop, WalkBack, GiveUpTable,
                EngDeleteStep, Demote, EngFreeNext, EngFrame
  <2>3. CASE TableBuild \/ DropEnd \/ Rebuilt \/ PreloadTimeout \/ EngDeleteEnd
    <3>1. eng.pc \notin {"idle", "retire"} /\ eng.req \in Req /\ phase[eng.req] = "new"
      BY <2>3 DEF PrefixTypeInv, TableBuild, DropEnd, Rebuilt, PreloadTimeout, EngDeleteEnd
    <3> QED BY <1>1, <2>3, <3>1
         DEF TableBuild, DropEnd, Rebuilt, PreloadTimeout, EngDeleteEnd, EngDone
  <2>4. ASSUME NEW x \in Req, FetchStart(x) \/ Finish(x) \/ Retire(x) \/ Reject(x)
        PROVE  phase'[r] = "rejected"
    BY <1>1, <2>4 DEF FetchStart, Finish, Retire, Reject, EngFrame
  <2>5. CASE RetireEnd
    BY <1>1, <2>5 DEF RetireEnd, Calm, ControlInv
  <2> QED BY <1>2, <2>1, <2>2, <2>3, <2>4, <2>5 DEF EngineStep
<1>3. ASSUME WorkerStep PROVE phase'[r] = "rejected"
  <2>1. CASE WrkFlush \/ StoreFind \/ StoreReuse \/ StoreAlloc \/ StoreAllocFails
             \/ StorePressure
    BY <2>1 DEF WrkFlush, StoreFind, StoreReuse, StoreAlloc, StoreAllocFails, StorePressure
  <2>2. CASE StoreWrite \/ StoreSave \/ StoreSaveFails \/ StoreIndex \/ StoreRelease
    BY <2>2 DEF StoreWrite, StoreSave, StoreSaveFails, StoreIndex, StoreRelease
  <2>3. ASSUME NEW x \in Req, StoreStart(x) PROVE phase'[r] = "rejected"
    BY <1>1, <2>3 DEF StoreStart
  <2>4. CASE StoreClear
    BY <1>1, <2>4 DEF StoreClear, Calm, ControlInv
  <2> QED BY <1>3, <2>1, <2>2, <2>3, <2>4 DEF WorkerStep
<1>4. CASE SsdLose \/ UNCHANGED vars
  BY <1>4 DEF SsdLose, vars, prefixVars
<1> QED BY <1>2, <1>3, <1>4 DEF PrefixNext

\* No entry of the ledger leaves a reference without a holder, a rejected
\* request's apart.
LEMMA LeakStep ==
    ASSUME PrefixTypeInv, PrefixTypeInv', Calm, [PrefixNext]_vars, NoLeakedRef, Ledger
    PROVE  NoLeakedRef'
<1> SUFFICES ASSUME \A r \in Req : phase'[r] # "rejected",
                    NEW x \in Block, x \in alloc', x # Null
             PROVE  ref'[x] <= Holders(x)'
  <2>1. alloc' \subseteq Block
    BY TypeFacts DEF PrefixTypeInv, PrefixTypeOK, TypeOK, PoolTypeOK
  <2> QED BY <2>1 DEF NoLeakedRef
<1>0. \A r \in Req : phase[r] # "rejected"
  BY RejectedStays
<1>1. /\ Holders(x) \in Nat /\ ref[x] \in Int /\ ref \in [Block -> Int]
      /\ x \in alloc => ref[x] <= Holders(x)
  BY <1>0, TypeFacts, HoldersParts DEF PoolTypeOK, NoLeakedRef
<1>2. Holders(x)' \in Nat
  <2>1. tables' \in [Req -> Seq(Block)] /\ deleting' \in Seq(Block) /\ eng' \in EngType
    BY DEF PrefixTypeInv, PrefixTypeOK, TypeOK, EngType
  <2> QED BY <2>1, HoldersPartsNext
<1>3. ASSUME NEW s \in Seq(Block), Gains(s) PROVE ref'[x] <= Holders(x)'
  <2>1. /\ x \in alloc /\ ref'[x] = ref[x] + Occurrences(s, x)
        /\ Holders(x)' = Holders(x) + Occurrences(s, x) /\ Occurrences(s, x) \in Nat
    BY <1>3, OccurrencesNat DEF Gains
  <2> QED BY <1>1, <2>1
<1>4. ASSUME NEW s \in Seq(Block), Releases(s) PROVE ref'[x] <= Holders(x)'
  <2> DEFINE n == Occurrences(s, x)
  <2>1. /\ x \in alloc /\ Holders(x) = Holders(x)' + n /\ n \in Nat
        /\ ref'[x] = IF x \in Range(s) THEN ref[x] - Min2(ref[x], n) ELSE ref[x]
    BY <1>4, OccurrencesNat DEF Releases, release_for_eviction, ReleasedRef
  <2>2. x \notin Range(s) => n = 0
    BY OccRange
  <2> HIDE DEF n
  <2> QED BY <1>1, <1>2, <2>1, <2>2 DEF Min2
<1>5. ASSUME NEW b \in Block, Takes(b) PROVE ref'[x] <= Holders(x)'
  <2>1. /\ alloc' = alloc \union {b} /\ ref' = [ref EXCEPT ![b] = 1]
        /\ Holders(x)' = Holders(x) + (IF b = x THEN 1 ELSE 0)
    BY <1>5 DEF Takes, AllocateBlockInternal
  <2> QED BY <1>1, <2>1
<1>6. ASSUME NEW b \in Block, Frees(b) PROVE ref'[x] <= Holders(x)'
  <2>1. Holders(x) = Holders(x)' + (IF b = x THEN 1 ELSE 0) /\ free_block(b)
    BY <1>6 DEF Frees
  <2>2. CASE DropRef(b)
    BY <1>1, <1>2, <2>1, <2>2 DEF DropRef
  <2>3. CASE LastFree(b)
    <3>1. alloc' = alloc \ {b} /\ ref' = [ref EXCEPT ![b] = @ - 1]
      BY <2>3 DEF LastFree
    <3> QED BY <1>1, <1>2, <2>1, <3>1
  <2>4. CASE FreeIgnored(b)
    <3>1. alloc' = alloc /\ ref' = ref /\ (b \notin alloc \/ b = Null)
      BY <2>4 DEF FreeIgnored, poolVars
    <3> QED BY <1>1, <1>2, <2>1, <3>1
  <2> QED BY <2>1, <2>2, <2>3, <2>4 DEF free_block
<1>7. ASSUME NEW b \in Block, Evicts(b) PROVE ref'[x] <= Holders(x)'
  <2>1. alloc' = alloc \ {b} /\ ref' = ref /\ Holders(x)' = Holders(x)
    BY <1>7 DEF Evicts, handle_memory_pressure
  <2> QED BY <1>1, <2>1
<1> QED BY <1>3, <1>4, <1>5, <1>6, <1>7 DEF Ledger, Forgets

\* At the start only the null block is referenced.
LEMMA LeakStarts ==
    ASSUME PrefixInit
    PROVE  NoLeakedRef
BY DEF PrefixInit, PoolInit, NoLeakedRef

\* No reference outlives its holder: whatever the interleaving of the engine
\* thread and the store worker, a block that nobody holds has no reference left
\* and can be evicted, for every pool, every finite set of requests and every
\* set of prompts. It needs no protection against the stale reuse of
\* store_cache. Two paths do not balance: a rejected request keeps its
\* references (release_cache does not know it), so the property speaks of the
\* time before the first rejection; and a store that is aborted in flight, which
\* returns its references twice, is excluded by the hypothesis.
THEOREM NothingLeaks ==
    ASSUME "late_abort" \notin Env
    PROVE  PrefixSpec => []NoLeakedRef
<1> DEFINE I == PrefixTypeInv /\ ControlInv /\ NoLeakedRef
<1>1. PrefixInit => I
  BY PrefixStarts, LeakStarts
<1>2. I /\ [PrefixNext]_vars => I'
  <2> SUFFICES ASSUME I, [PrefixNext]_vars PROVE I'
    OBVIOUS
  <2>1. Calm
    BY DEF Calm
  <2>2. PrefixTypeInv' /\ ControlInv'
    BY <2>1, NextTyped
  <2>3. Ledger
    BY <2>1, NextLedger
  <2> QED BY <2>1, <2>2, <2>3, LeakStep
<1>3. I => NoLeakedRef
  OBVIOUS
<1> QED BY <1>1, <1>2, <1>3, PTL DEF PrefixSpec

-----------------------------------------------------------------------------
(***************************************************************************)
(* The other side of the ledger: no holder without its reference, as long  *)
(* as no store has pinned a block that was freed or refilled after it was  *)
(* found.                                                                  *)
(***************************************************************************)
LEMMA CoverStep ==
    ASSUME PrefixTypeInv, PrefixTypeInv', PoolInv, HoldersCovered, Ledger,
           "reuse" \notin races'
    PROVE  HoldersCovered'
<1> SUFFICES ASSUME NEW x \in Block, x # Null, Holders(x)' > 0
             PROVE  x \in alloc' /\ ref'[x] >= Holders(x)'
  BY DEF HoldersCovered
<1>1. /\ Holders(x) \in Nat /\ ref[x] \in Int /\ ref \in [Block -> Int]
      /\ Holders(x) > 0 => x \in alloc /\ ref[x] >= Holders(x)
  BY TypeFacts, HoldersParts DEF PoolTypeOK, HoldersCovered
<1>2. Holders(x)' \in Nat
  <2>1. tables' \in [Req -> Seq(Block)] /\ deleting' \in Seq(Block) /\ eng' \in EngType
    BY DEF PrefixTypeInv, PrefixTypeOK, TypeOK, EngType
  <2> QED BY <2>1, HoldersPartsNext
<1> DEFINE Goal == x \in alloc' /\ ref'[x] >= Holders(x)'
<1>3. ASSUME NEW s \in Seq(Block), Gains(s) PROVE Goal
  <2> DEFINE n == Occurrences(s, x)
  <2>1. /\ alloc' = alloc /\ (x \in alloc => ref'[x] = ref[x] + n)
        /\ Holders(x)' = Holders(x) + n /\ n \in Nat /\ Range(s) \subseteq alloc
    BY <1>3, OccurrencesNat DEF Gains
  <2>2. x \notin Range(s) => n = 0
    BY OccRange
  <2> HIDE DEF n
  <2>3. x \in alloc
    BY <1>1, <2>1, <2>2
  <2>4. ref[x] >= Holders(x)
    BY <1>1, <2>3 DEF PoolInv, RefSound
  <2> QED BY <1>1, <2>1, <2>3, <2>4
<1>4. ASSUME NEW s \in Seq(Block), Releases(s) PROVE Goal
  <2> DEFINE n == Occurrences(s, x)
  <2>1. /\ alloc' = alloc /\ Holders(x) = Holders(x)' + n /\ n \in Nat
        /\ \/ ref'[x] = ref[x] - Min2(ref[x], n)
           \/ x \notin Range(s) /\ ref'[x] = ref[x]
           \/ x \notin alloc
    BY <1>4, OccurrencesNat DEF Releases, release_for_eviction, ReleasedRef
  <2>2. x \notin Range(s) => n = 0
    BY OccRange
  <2> HIDE DEF n
  <2> QED BY <1>1, <1>2, <2>1, <2>2 DEF Min2
<1>5. ASSUME NEW b \in Block, Takes(b) PROVE Goal
  <2>1. /\ alloc' = alloc \union {b} /\ ref' = [ref EXCEPT ![b] = 1] /\ b \notin alloc
        /\ Holders(x)' = Holders(x) + (IF b = x THEN 1 ELSE 0)
    BY <1>5, AllocationFacts DEF Takes, AllocateBlockInternal
  <2> QED BY <1>1, <2>1
<1>6. ASSUME NEW b \in Block, Frees(b) PROVE Goal
  <2>1. Holders(x) = Holders(x)' + (IF b = x THEN 1 ELSE 0) /\ free_block(b)
    BY <1>6 DEF Frees
  <2>2. CASE DropRef(b)
    <3>1. alloc' = alloc /\ ref' = [ref EXCEPT ![b] = @ - 1]
      BY <2>2 DEF DropRef
    <3> QED BY <1>1, <1>2, <2>1, <3>1
  <2>3. CASE LastFree(b)
    <3>1. alloc' = alloc \ {b} /\ ref' = [ref EXCEPT ![b] = @ - 1] /\ ref[b] <= 1
      BY <2>3 DEF LastFree
    <3> QED BY <1>1, <1>2, <2>1, <3>1
  <2>4. CASE FreeIgnored(b)
    <3>1. alloc' = alloc /\ ref' = ref
      BY <2>4 DEF FreeIgnored, poolVars
    <3> QED BY <1>1, <1>2, <2>1, <3>1
  <2> QED BY <2>1, <2>2, <2>3, <2>4 DEF free_block
<1>7. ASSUME NEW b \in Block, Evicts(b) PROVE Goal
  <2>1. alloc' = alloc \ {b} /\ ref' = ref /\ Holders(x)' = Holders(x) /\ ref[b] <= 0
    BY <1>7 DEF Evicts, handle_memory_pressure, Evictable
  <2> QED BY <1>1, <1>2, <2>1
<1>8. ASSUME Forgets PROVE Goal
  <2>1. alloc' = alloc /\ ref' = ref /\ Holders(x)' <= Holders(x)
    BY <1>8 DEF Forgets
  <2> QED BY <1>1, <1>2, <2>1
<1> QED BY <1>3, <1>4, <1>5, <1>6, <1>7, <1>8 DEF Ledger

\* A block in use is allocated, referenced and hashed, and not the one the
\* worker has yet to write.
LEMMA UsedFacts ==
    ASSUME PrefixTypeInv, PinnedInv
    PROVE  /\ \A x \in Block : Used(x) => /\ x \in alloc /\ ref[x] >= 1 /\ hash[x] # NoHash
                                          /\ ~(wrk.pc = "write" /\ x = wrk.blk)
           /\ wrk.pc = "write" => wrk.blk \in alloc
<1>1. ASSUME NEW x \in Block, Holders(x) >= 1 PROVE x \in alloc /\ ref[x] >= 1
  <2>1. CASE x = Null
    <3>1. Null \in 0 .. count - 1
      BY NullBlock, TypeFacts DEF PoolTypeOK, Null
    <3> QED BY <2>1, <3>1 DEF PinnedInv, PoolInv, Conservation, FreeIsDead, RefSound
  <2>2. CASE x # Null
    <3>1. Holders(x) \in Nat /\ ref[x] \in Int
      BY TypeFacts, HoldersParts DEF PoolTypeOK
    <3>2. x \in alloc /\ ref[x] >= Holders(x)
      BY <1>1, <2>2, <3>1 DEF PinnedInv, HoldersCovered
    <3> QED BY <1>1, <3>1, <3>2
  <2> QED BY <2>1, <2>2
<1>2. ASSUME NEW x \in Block, Used(x) PROVE Holders(x) >= 1
  <2> DEFINE c == Occurrences(eng.claims, x)
             t == Occurrences(eng.todo, x)
             d == Occurrences(deleting, x)
  <2>1. /\ Holders(x) = Shares(x) + c + t + d + Fresh(x)
        /\ Shares(x) \in Nat /\ c \in Nat /\ t \in Nat /\ d \in Nat
        /\ Fresh(x) \in 0..1
        /\ \A r \in Req : Share(r, x) \in Nat /\ Share(r, x) <= Shares(x)
    BY TypeFacts, HoldersParts
  <2>2. ASSUME NEW r \in Req, Holding(r), x \in Range(tables[r]) PROVE Shares(x) >= 1
    <3>1. Occurrences(tables[r], x) >= 1
      <4>1. tables[r] \in Seq(Block)
        BY TypeFacts
      <4> QED BY <2>2, <4>1, OccRange
    <3>2. Share(r, x) >= 1
      BY <2>2, <3>1 DEF Share
    <3> QED BY <2>1, <3>2
  <2>3. ASSUME x \in Range(eng.claims) PROVE c >= 1
    <3>1. eng.claims \in Seq(Block)
      BY TypeFacts DEF EngType
    <3> QED BY <2>3, <3>1, OccRange
  <2> HIDE DEF c, t, d
  <2>4. Shares(x) >= 1 \/ c >= 1
    BY <1>2, <2>2, <2>3 DEF Used
  <2> QED BY <2>1, <2>4
<1>3. ASSUME wrk.pc = "write" PROVE wrk.blk \in Block /\ Holders(wrk.blk) >= 1
  <2>1. wrk.blk \in Block
    BY TypeFacts DEF WrkType
  <2> DEFINE s == Shares(wrk.blk)
             c == Occurrences(eng.claims, wrk.blk)
             t == Occurrences(eng.todo, wrk.blk)
             d == Occurrences(deleting, wrk.blk)
  <2>2. /\ Holders(wrk.blk) = s + c + t + d + Fresh(wrk.blk)
        /\ s \in Nat /\ c \in Nat /\ t \in Nat /\ d \in Nat
    BY TypeFacts, HoldersParts
  <2>3. Fresh(wrk.blk) = 1
    BY <1>3 DEF Fresh
  <2> HIDE DEF s, c, t, d
  <2> QED BY <2>1, <2>2, <2>3
<1> QED BY <1>1, <1>2, <1>3 DEF PinnedInv, UsedHashed, WriteFresh

\* What a step may do to the pool under the feet of its users: forget the hash
\* of an unreferenced block and queue that, refill a free block, label the one
\* the worker has allocated; and the blocks it puts to use are hashed.
Tame ==
    /\ PoolInv'
    /\ \A x \in Block : \/ hash'[x] = hash[x]
                        \/ x \notin alloc
                        \/ wrk.pc = "write" /\ x = wrk.blk
                        \/ ref[x] <= 0 /\ x \in Owing'
    /\ \A x \in alloc \ alloc' : hash[x] = NoHash \/ x \in Owing'
    /\ \A e \in hashMap' \ hashMap : e[2] \notin alloc \/ wrk'.pc # "write"
    /\ wrk'.pc = "write" =>
          \/ wrk.pc = "write" /\ wrk'.blk = wrk.blk
          \/ /\ wrk'.blk \in Block \ alloc /\ wrk'.blk # Null
             /\ \A e \in hashMap' : e[2] # wrk'.blk
    /\ \A x \in Block : Used(x)' =>
          Used(x) \/ (hash'[x] # NoHash /\ ~(wrk'.pc = "write" /\ x = wrk'.blk))

\* A tame step keeps the hash of every block in use.
LEMMA TameKeeps ==
    ASSUME PrefixTypeInv, PinnedInv, Tame
    PROVE  /\ PoolInv' /\ UsedHashed' /\ WriteFresh'
           /\ \A x \in Block : Used(x) => hash'[x] = hash[x]
<1>1. /\ \A x \in Block : Used(x) => /\ x \in alloc /\ ref[x] >= 1 /\ hash[x] # NoHash
                                     /\ ~(wrk.pc = "write" /\ x = wrk.blk)
      /\ wrk.pc = "write" => wrk.blk \in alloc
  BY UsedFacts
<1>2. \A x \in Block : ref[x] \in Int
  BY TypeFacts DEF PoolTypeOK
<1>3. ASSUME NEW x \in Block, Used(x) PROVE hash'[x] = hash[x]
  BY <1>1, <1>2, <1>3 DEF Tame
<1>4. UsedHashed'
  <2> SUFFICES ASSUME NEW x \in Block, Used(x)' PROVE hash'[x] # NoHash
    BY DEF UsedHashed
  <2> QED BY <1>1, <1>3 DEF Tame
<1>5. ASSUME wrk'.pc = "write", NEW y \in Block, y = wrk'.blk
      PROVE  /\ y # Null
             /\ \A e \in hashMap' : e[2] # y
             /\ ~Used(y)'
  <2>1. CASE wrk.pc = "write" /\ wrk'.blk = wrk.blk
    <3>1. y \in alloc /\ y # Null /\ \A e \in hashMap : e[2] # y
      BY <1>1, <1>5, <2>1 DEF PinnedInv, WriteFresh
    <3>2. \A e \in hashMap' : e[2] # y
      BY <1>5, <2>1, <3>1 DEF Tame
    <3>3. ~Used(y)'
      BY <1>1, <1>5, <2>1 DEF Tame
    <3> QED BY <3>1, <3>2, <3>3
  <2>2. CASE /\ wrk'.blk \in Block \ alloc /\ wrk'.blk # Null
             /\ \A e \in hashMap' : e[2] # wrk'.blk
    BY <1>1, <1>5, <2>2 DEF Tame
  <2> QED BY <1>5, <2>1, <2>2 DEF Tame
<1>6. WriteFresh'
  <2>1. wrk'.pc = "write" => wrk'.blk \in Block
    <3>1. wrk.blk \in Block
      BY TypeFacts DEF WrkType
    <3> QED BY <3>1 DEF Tame
  <2> SUFFICES ASSUME wrk'.pc = "write" PROVE WriteFresh'
    BY DEF WriteFresh
  <2>2. PICK y \in Block : y = wrk'.blk
    BY <2>1
  <2>3. y # Null /\ (\A e \in hashMap' : e[2] # y) /\ ~Used(y)'
    BY <1>5, <2>2
  <2> QED BY <2>2, <2>3 DEF WriteFresh, Used
<1> QED BY <1>3, <1>4, <1>6 DEF Tame

\* The index is filed, fresh and, where its blocks are dead, about to be
\* detached.
IndexInv == IndexFiled /\ IndexFresh /\ IndexDead

\* The last block of an entry.
LEMMA LastFacts ==
    ASSUME PrefixTypeInv, IndexFiled, NEW h \in DOMAIN index
    PROVE  LastOf(index[h]) \in Block /\ index[h] # <<>> /\ h # NoHash
<1>1. index[h] \in Seq(Block) /\ index[h] # <<>> /\ h # NoHash
  BY DEF PrefixTypeInv, PrefixTypeOK, IndexFiled
<1> QED BY <1>1 DEF LastOf

\* A tame step that leaves the index alone and forgets no invalidation.
LEMMA SteadyIndex ==
    ASSUME PrefixTypeInv, PinnedInv, Tame, UNCHANGED <<index, blockHashes>>,
           Owing \subseteq Owing'
    PROVE  IndexInv'
<1>1. IndexFiled'
  BY DEF PinnedInv, IndexFiled, LastOf
<1>2. ASSUME NEW h \in DOMAIN index, NEW b \in Block, b = LastOf(index[h])
      PROVE  /\ hash'[b] = h \/ b \in Owing'
             /\ b \notin alloc' \/ (wrk'.pc = "write" /\ b = wrk'.blk) => b \in Owing'
  <2>1. CASE b \in Owing
    BY <2>1
  <2>2. CASE b \notin Owing
    <3>1. h # NoHash
      BY DEF PinnedInv, IndexFiled
    <3>2. hash[b] = h
      BY <1>2, <2>2 DEF PinnedInv, IndexFresh
    <3>3. b \in alloc /\ ~(wrk.pc = "write" /\ b = wrk.blk)
      BY <1>2, <2>2 DEF PinnedInv, IndexDead
    <3> QED BY <3>1, <3>2, <3>3 DEF Tame
  <2> QED BY <2>1, <2>2
<1>3. \A h \in DOMAIN index : LastOf(index[h]) \in Block
  BY LastFacts DEF PinnedInv
<1>4. \A h \in DOMAIN index' : LastOf(index'[h]) = LastOf(index[h]) /\ h \in DOMAIN index
  BY DEF LastOf
<1>5. IndexFresh' /\ IndexDead'
  BY <1>2, <1>3, <1>4 DEF IndexFresh, IndexDead, LastOf
<1> QED BY <1>1, <1>5 DEF IndexInv

\* A step that detaches the entries of S.
LEMMA DetachIndex ==
    ASSUME PrefixTypeInv, PinnedInv, NEW S \in SUBSET Block, Detach(S),
           UNCHANGED <<hash, alloc>>, wrk'.pc = wrk.pc, wrk'.blk = wrk.blk,
           Owing \subseteq Owing' \union S
    PROVE  IndexInv'
<1> DEFINE dead == UNION {blockHashes[b] : b \in S}
<1>1. /\ index' = [h \in DOMAIN index \ dead |-> index[h]]
      /\ blockHashes' = [b \in Block |-> IF b \in S THEN {} ELSE blockHashes[b]]
  BY DEF Detach
<1>2. ASSUME NEW h \in DOMAIN index', NEW b \in Block, b = LastOf(index[h])
      PROVE  /\ h \in DOMAIN index /\ index'[h] = index[h] /\ b \notin S
             /\ h # NoHash /\ index[h] # <<>> /\ h \in blockHashes'[b]
             /\ hash'[b] = h \/ b \in Owing'
             /\ b \notin alloc' \/ (wrk'.pc = "write" /\ b = wrk'.blk) => b \in Owing'
  <2>1. h \in DOMAIN index /\ h \notin dead /\ index'[h] = index[h]
    BY <1>1
  <2>2. h # NoHash /\ index[h] # <<>> /\ h \in blockHashes[b]
    BY <1>2, <2>1 DEF PinnedInv, IndexFiled
  <2>3. b \notin S
    BY <2>1, <2>2
  <2> HIDE DEF dead
  <2>4. h \in blockHashes'[b]
    BY <1>1, <2>2, <2>3
  <2>5. hash[b] = h \/ b \in Owing
    BY <1>2, <2>1 DEF PinnedInv, IndexFresh
  <2>6. b \notin alloc \/ (wrk.pc = "write" /\ b = wrk.blk) => b \in Owing
    BY <1>2, <2>1 DEF PinnedInv, IndexDead
  <2> QED BY <2>1, <2>2, <2>3, <2>4, <2>5, <2>6
<1>3. \A h \in DOMAIN index' : h \in DOMAIN index /\ LastOf(index[h]) \in Block
  BY <1>1, LastFacts DEF PinnedInv
<1>4. ASSUME NEW h \in DOMAIN index'
      PROVE  LET b == LastOf(index'[h])
             IN  /\ h # NoHash /\ index'[h] # <<>> /\ h \in blockHashes'[b]
                 /\ hash'[b] = h \/ b \in Owing'
                 /\ b \notin alloc' \/ (wrk'.pc = "write" /\ b = wrk'.blk) => b \in Owing'
  <2>1. PICK b \in Block : b = LastOf(index[h])
    BY <1>3
  <2>2. LastOf(index'[h]) = b
    BY <1>2, <2>1
  <2> HIDE DEF dead
  <2> QED BY <1>2, <2>1, <2>2
<1> HIDE DEF dead
<1> QED BY <1>4 DEF IndexInv, IndexFiled, IndexFresh, IndexDead, LastOf

\* Kept tables put no new block to use.
LEMMA KeptUsed ==
    ASSUME TablesKept, NEW x, Used(x)'
    PROVE  Used(x) \/ x \in Range(eng'.claims)
<1>1. CASE \E r \in Req : Holding(r)' /\ x \in Range(tables'[r])
  <2>1. PICK r \in Req : Holding(r)' /\ x \in Range(tables'[r])
    BY <1>1
  <2>2. PICK i \in DOMAIN tables'[r] : tables'[r][i] = x
    BY <2>1 DEF Range
  <2>3. \/ Holding(r) /\ i \in DOMAIN tables[r] /\ x = tables[r][i]
        \/ i \in DOMAIN eng.claims /\ x = eng.claims[i]
    BY <2>1, <2>2 DEF TablesKept
  <2> QED BY <2>3 DEF Used, Range
<1>2. CASE x \in Range(eng'.claims)
  BY <1>2
<1> QED BY <1>1, <1>2 DEF Used

\* Kept claims were in use.
LEMMA KeptClaims ==
    ASSUME ClaimsKept, NEW x \in Range(eng'.claims)
    PROVE  Used(x)
<1>1. PICK i \in DOMAIN eng'.claims : eng'.claims[i] = x
  BY DEF Range
<1> QED BY <1>1 DEF ClaimsKept, Used, Range

\* A step that leaves the pool's content alone and keeps what is in use.
LEMMA StillTame ==
    ASSUME PrefixTypeInv, PinnedInv, Kept, PoolInv', UNCHANGED <<alloc, hash>>,
           hashMap' \subseteq hashMap,
           wrk'.pc = "write" => wrk.pc = "write" /\ wrk'.blk = wrk.blk
    PROVE  Tame
<1>1. \A x \in Block : Used(x)' => Used(x)
  BY KeptUsed, KeptClaims DEF Kept
<1> QED BY <1>1 DEF Tame

\* A step that leaves the pool and the index alone.
LEMMA StillStep ==
    ASSUME PrefixTypeInv, PinnedInv, Kept, UNCHANGED poolVars,
           UNCHANGED <<index, blockHashes>>, eng.fire \subseteq eng'.fire,
           wrk'.pc = "write" => wrk.pc = "write" /\ wrk'.blk = wrk.blk
    PROVE  Tame /\ IndexInv'
<1>1. PoolInv'
  BY PoolUnchanged DEF PinnedInv, SafeStep
<1>2. UNCHANGED <<alloc, hash, hashMap, pending>>
  BY DEF poolVars
<1>3. Tame
  BY <1>1, <1>2, StillTame
<1>4. Owing \subseteq Owing'
  BY <1>2 DEF Owing
<1> QED BY <1>3, <1>4, SteadyIndex

\* The steps of the engine that only move it along.
LEMMA EngineStill ==
    ASSUME PrefixTypeInv, Calm, PinnedInv,
           \/ WalkEnd \/ IndexLookup \/ UnclaimEnd \/ TableBuild \/ ReconstructAll
           \/ DropEnd \/ WalkBack \/ Rebuilt \/ GiveUpTable \/ PreloadTimeout
           \/ EngDeleteEnd \/ RetireEnd
           \/ \E r \in Req : FetchStart(r) \/ Finish(r) \/ Reject(r)
    PROVE  Tame /\ IndexInv'
<1> USE DEF PoolFrame, IndexFrame, EngFrame
<1>1. eng \in EngType /\ (eng.pc \in QuietPC => eng.fire = {})
  BY TypeFacts DEF Calm, ControlInv
<1>2. CASE WalkEnd \/ IndexLookup \/ UnclaimEnd \/ GiveUpTable \/ ReconstructAll \/ WalkBack
  <2>1. /\ UNCHANGED poolVars /\ UNCHANGED <<index, blockHashes, wrk>>
        /\ eng'.fire = eng.fire
    BY <1>1, <1>2 DEF WalkEnd, IndexLookup, UnclaimEnd, GiveUpTable, ReconstructAll, WalkBack,
                      EngGoto, EngType, delete_block_table
  <2>2. Kept
    BY <1>2, WalkEndStep, IndexLookupStep, UnclaimEndStep, GiveUpTableStep,
       ReconstructAllStep, WalkBackStep
  <2> QED BY <2>1, <2>2, StillStep
<1>3. CASE TableBuild \/ Rebuilt \/ RetireEnd
  <2>1. /\ UNCHANGED poolVars /\ UNCHANGED <<index, blockHashes, wrk>> /\ eng.pc \in QuietPC
    BY <1>3 DEF TableBuild, Rebuilt, RetireEnd, QuietPC
  <2>2. Kept
    BY <1>3, TableBuildStep, RebuiltStep, RetireEndStep
  <2> QED BY <1>1, <2>1, <2>2, StillStep
<1>4. CASE DropEnd \/ EngDeleteEnd
  <2>1. /\ UNCHANGED poolVars /\ UNCHANGED <<index, blockHashes, wrk>> /\ eng.fire = {}
    BY <1>4 DEF DropEnd, EngDeleteEnd, EngReady
  <2>2. Kept
    BY <1>4, DropEndStep, EngDeleteEndStep
  <2> QED BY <2>1, <2>2, StillStep
<1>5. CASE PreloadTimeout
  <2>1. /\ UNCHANGED poolVars /\ UNCHANGED <<index, blockHashes, wrk>> /\ eng.pc \in QuietPC
    BY <1>5 DEF PreloadTimeout, QuietPC
  <2>2. Kept
    BY <1>5, RebuiltStep
  <2> QED BY <1>1, <2>1, <2>2, StillStep
<1>6. ASSUME NEW r \in Req, FetchStart(r) \/ Finish(r) \/ Reject(r)
      PROVE  Tame /\ IndexInv'
  <2>1. /\ UNCHANGED poolVars /\ UNCHANGED <<index, blockHashes, wrk>> /\ eng.fire = {}
    BY <1>6 DEF FetchStart, Finish, Reject, EngReady
  <2>2. Kept
    BY <1>6, FetchStartStep, FinishStep, RejectStep
  <2> QED BY <2>1, <2>2, StillStep
<1> QED BY <1>2, <1>3, <1>4, <1>5, <1>6

\* The worker's.
LEMMA WorkerStill ==
    ASSUME PrefixTypeInv, Calm, PinnedInv,
           \/ StoreFind \/ StoreSave \/ StoreClear \/ SsdLose \/ UNCHANGED vars
           \/ \E r \in Req : StoreStart(r)
    PROVE  Tame /\ IndexInv'
<1> USE DEF PoolFrame, IndexFrame, WrkFrame
<1>1. wrk \in WrkType
  BY TypeFacts
<1>2. CASE StoreFind \/ StoreSave \/ StoreClear
  <2>1. UNCHANGED poolVars /\ UNCHANGED <<index, blockHashes, eng>>
    BY <1>2 DEF StoreFind, StoreSave, StoreClear
  <2>2. Kept
    BY <1>2, StoreFindStep, StoreSaveStep, StoreClearStep
  <2>3. StoreClear => wrk'.pc # "write"
    BY DEF StoreClear, WrkIdle
  <2>4. wrk'.pc # "write"
    BY <1>2, <2>3, StoreFindStep, StoreSaveStep
  <2> QED BY <2>1, <2>2, <2>4, StillStep
<1>3. CASE SsdLose \/ UNCHANGED vars
  <2>1. /\ UNCHANGED poolVars /\ UNCHANGED <<index, blockHashes, eng, wrk>>
    BY <1>3 DEF SsdLose, vars, pagedVars, prefixVars, poolVars
  <2>2. Kept
    BY <1>3, SsdLoseStep
  <2> QED BY <2>1, <2>2, StillStep
<1>4. ASSUME NEW r \in Req, StoreStart(r)
      PROVE  Tame /\ IndexInv'
  <2>1. /\ UNCHANGED poolVars /\ UNCHANGED <<index, blockHashes, eng>> /\ wrk'.pc # "write"
    BY <1>1, <1>4 DEF StoreStart, WrkType, WrkIdle
  <2>2. Kept
    BY <1>4, StoreStartStep
  <2> QED BY <2>1, <2>2, StillStep
<1> QED BY <1>2, <1>3, <1>4

\* Flushing: the list moves from the pool to the thread, which detaches the
\* entries of its blocks.
LEMMA FlushTame ==
    ASSUME PrefixTypeInv, Calm, PinnedInv, EngSwap \/ EngFire \/ WrkFlush
    PROVE  Tame /\ IndexInv'
<1>1. UNCHANGED <<count, freeQ, alloc, ref, hash, parent, hashMap>> /\ pending' \subseteq pending
      /\ wrk'.pc = wrk.pc /\ wrk'.blk = wrk.blk
  <2>1. wrk \in WrkType
    BY TypeFacts
  <2> QED BY <2>1 DEF EngSwap, EngFire, WrkFlush, flush, PoolFrame, poolVars, EngFrame, WrkFrame, WrkType
<1>2. PoolInv'
  BY <1>1 DEF PinnedInv, PoolInv, PoolTypeOK, Conservation, FreeIsDead, IndexSound, RefSound
<1>3. Kept
  BY EngSwapStep, EngFireStep, WrkFlushStep
<1>4. Tame
  BY <1>1, <1>2, <1>3, StillTame
<1>5. eng \in EngType /\ pending \subseteq Block
  BY TypeFacts DEF PoolTypeOK
<1>6. CASE EngSwap
  <2>1. eng.fire = {}
    BY <1>6 DEF EngSwap, Calm, ControlInv
  <2>2. UNCHANGED <<index, blockHashes>> /\ Owing \subseteq Owing'
    BY <1>5, <1>6, <2>1 DEF EngSwap, IndexFrame, Owing, EngType
  <2> QED BY <1>4, <2>2, SteadyIndex
<1>7. CASE EngFire
  <2>1. PICK b \in eng.fire : Detach({b}) /\ eng' = [eng EXCEPT !.fire = @ \ {b}]
    BY <1>7 DEF EngFire
  <2>2. b \in Block /\ pending' = pending /\ Owing \subseteq Owing' \union {b}
    BY <1>5, <1>7, <2>1 DEF EngFire, PoolFrame, poolVars, Owing, EngType
  <2> QED BY <1>1, <1>4, <2>1, <2>2, DetachIndex
<1>8. CASE WrkFlush
  <2>1. Detach(pending) /\ eng' = eng
    BY <1>8 DEF WrkFlush, WrkFrame
  <2>2. Owing \subseteq Owing' \union pending
    BY <2>1 DEF Owing
  <2> QED BY <1>1, <1>4, <1>5, <2>1, <2>2, DetachIndex
<1> QED BY <1>6, <1>7, <1>8

\* A pool operation that at most forgets, and queues what it forgets.
Erodes ==
    /\ PoolInv' /\ hashMap' \subseteq hashMap /\ pending \subseteq pending'
    /\ \A x \in Block : \/ hash'[x] = hash[x]
                        \/ ref[x] <= 0 /\ x \in pending'
    /\ \A x \in alloc \ alloc' : hash[x] = NoHash \/ x \in pending'

\* free_block, release_for_eviction, handle_memory_pressure, evict_lru_blocks.
LEMMA PoolErodes ==
    ASSUME PoolInv
    PROVE  /\ \A b \in Block : free_block(b) => Erodes
           /\ \A s \in Seq(Block) : release_for_eviction(s) => Erodes
           /\ \A b \in Block : handle_memory_pressure(b) => Erodes
           /\ \A n \in Nat : evict_lru_blocks(n) => Erodes
<1>0. hash \in [Block -> Hash] /\ \A x \in Block : ref[x] \in Int
  BY DEF PoolInv, PoolTypeOK
<1>1. ASSUME NEW b \in Block, free_block(b) PROVE Erodes
  <2>1. PoolInv'
    BY <1>1, FreeBlockSafe DEF SafeStep
  <2>2. CASE DropRef(b)
    BY <2>1, <2>2 DEF DropRef, Erodes
  <2>3. CASE LastFree(b)
    <3> DEFINE orphans == IF hash[b] # NoHash THEN Orphans(hashMap \ Entries({b}), {hash[b]})
                                              ELSE {}
    <3>1. /\ hashMap' \subseteq hashMap /\ ResetHash(orphans) /\ alloc' = alloc \ {b}
          /\ pending' = pending \union orphans \union (IF hash[b] # NoHash THEN {b} ELSE {})
      BY <2>3 DEF LastFree
    <3>2. \A x \in orphans : ref[x] <= 0
      BY OrphanFacts
    <3> HIDE DEF orphans
    <3> QED BY <1>0, <2>1, <3>1, <3>2 DEF Erodes, ResetHash
  <2>4. CASE FreeIgnored(b)
    BY <2>1, <2>4 DEF FreeIgnored, poolVars, Erodes
  <2> QED BY <1>1, <2>2, <2>3, <2>4 DEF free_block
<1>2. ASSUME NEW s \in Seq(Block), release_for_eviction(s) PROVE Erodes
  <2>1. PoolInv'
    BY <1>2, ReleaseSafe DEF SafeStep
  <2> QED BY <1>2, <2>1 DEF release_for_eviction, Erodes
<1>3. ASSUME NEW b \in Block, handle_memory_pressure(b) PROVE Erodes
  <2> DEFINE orphans == Orphans(hashMap \ Entries({b}), {hash[b]})
  <2>1. PoolInv'
    BY <1>3, PressureSafe DEF SafeStep
  <2>2. /\ hashMap' \subseteq hashMap /\ ResetHash(orphans \union {b}) /\ alloc' = alloc \ {b}
        /\ pending' = pending \union orphans \union {b} /\ ref[b] <= 0
    BY <1>3 DEF handle_memory_pressure, Evictable
  <2>3. \A x \in orphans : ref[x] <= 0
    BY OrphanFacts
  <2> HIDE DEF orphans
  <2> QED BY <1>0, <2>1, <2>2, <2>3 DEF Erodes, ResetHash
<1>4. ASSUME NEW n \in Nat, evict_lru_blocks(n) PROVE Erodes
  <2> DEFINE victims == {freeQ[i] : i \in 1 .. Min2(n, Len(freeQ))}
             roots   == {hash[b] : b \in victims} \ {NoHash}
             orphans == IF roots = {} THEN {} ELSE Orphans(hashMap, roots)
  <2>1. PoolInv'
    BY <1>4, EvictLruSafe DEF SafeStep
  <2>2. /\ ResetHash(victims \union orphans) /\ hashMap' \subseteq hashMap
        /\ pending' = pending \union victims \union orphans /\ UNCHANGED alloc
    BY <1>4 DEF evict_lru_blocks
  <2>3. \A x \in orphans : ref[x] <= 0
    BY OrphanFacts
  <2>4. \A x \in victims : ref[x] <= 0
    <3>1. victims \subseteq Range(freeQ)
      <4>1. freeQ \in Seq(Block) /\ Len(freeQ) \in Nat
        BY DEF PoolInv, PoolTypeOK
      <4> QED BY <4>1 DEF Min2, Range
    <3> HIDE DEF victims
    <3> QED BY <3>1 DEF PoolInv, FreeIsDead
  <2> HIDE DEF victims, orphans
  <2> QED BY <1>0, <2>1, <2>2, <2>3, <2>4 DEF Erodes, ResetHash
<1> QED BY <1>1, <1>2, <1>3, <1>4

\* Such a call by one of the threads.
LEMMA ErodeStep ==
    ASSUME PrefixTypeInv, PinnedInv, Kept, Erodes,
           UNCHANGED <<index, blockHashes>>, eng.fire \subseteq eng'.fire,
           wrk'.pc = "write" => wrk.pc = "write" /\ wrk'.blk = wrk.blk
    PROVE  Tame /\ IndexInv'
<1>1. pending' \subseteq Owing' /\ Owing \subseteq Owing'
  BY DEF Erodes, Owing
<1>2. \A x \in Block : Used(x)' => Used(x)
  BY KeptUsed, KeptClaims DEF Kept
<1>3. Tame
  BY <1>1, <1>2 DEF Tame, Erodes
<1> QED BY <1>1, <1>3, SteadyIndex

\* The engine's calls.
LEMMA EngineErodes ==
    ASSUME PrefixTypeInv, Calm, PinnedInv,
           \/ Unclaim \/ Drop \/ EngDeleteStep \/ Demote \/ ReconstructPart
           \/ \E r \in Req : Retire(r)
    PROVE  Tame /\ IndexInv'
<1> USE DEF IndexFrame, EngFrame
<1>0. eng \in EngType /\ PoolInv
  BY TypeFacts DEF PinnedInv
<1>1. CASE Unclaim \/ Drop
  <2>1. UNCHANGED <<index, blockHashes, wrk>> /\ eng'.fire = eng.fire
        /\ eng.pc \in {"unclaim", "drop", "trim"} /\ EngFreeNext
    BY <1>0, <1>1 DEF Unclaim, Drop, EngFreeNext, EngType
  <2>2. Kept /\ Head(eng.todo) \in Block /\ free_block(Head(eng.todo))
    BY <2>1, EngFreeStep
  <2> QED BY <1>0, <2>1, <2>2, PoolErodes, ErodeStep
<1>2. CASE EngDeleteStep
  <2>1. UNCHANGED <<index, blockHashes, wrk>> /\ eng'.fire = eng.fire
    BY <1>0, <1>2 DEF EngDeleteStep, EngType
  <2>2. Kept /\ Head(deleting) \in Block /\ free_block(Head(deleting))
    BY <1>2, EngDeleteStepStep
  <2> QED BY <1>0, <2>1, <2>2, PoolErodes, ErodeStep
<1>3. CASE Demote
  <2>1. UNCHANGED <<index, blockHashes, wrk>> /\ eng'.fire = eng.fire
    BY <1>0, <1>3 DEF Demote, EngType
  <2>2. Kept /\ \E n \in Nat : evict_lru_blocks(n)
    BY <1>3, DemoteStep
  <2> QED BY <1>0, <2>1, <2>2, PoolErodes, ErodeStep
<1>4. ASSUME NEW r \in Req, Retire(r)
      PROVE  Tame /\ IndexInv'
  <2>1. /\ UNCHANGED <<index, blockHashes, wrk>> /\ eng'.fire = eng.fire
        /\ Kept /\ tables[r] \in Seq(Block) /\ release_for_eviction(tables[r])
    BY <1>4, RetireStep
  <2> QED BY <1>0, <2>1, PoolErodes, ErodeStep
<1>5. CASE ReconstructPart
  <2>1. /\ hashMap' \subseteq hashMap /\ Kept /\ eng'.fire = eng.fire
        /\ UNCHANGED <<count, freeQ, alloc, ref, hash, parent, pending, wrk, index,
                       blockHashes>>
    BY <1>5, ReconstructPartStep
  <2>2. PoolInv'
    BY <1>0, <2>1 DEF PoolInv, PoolTypeOK, Conservation, FreeIsDead, IndexSound, RefSound
  <2>3. Erodes
    BY <2>1, <2>2 DEF Erodes
  <2> QED BY <2>1, <2>3, ErodeStep
<1> QED BY <1>1, <1>2, <1>3, <1>4, <1>5

\* The worker's.
LEMMA WorkerErodes ==
    ASSUME PrefixTypeInv, Calm, PinnedInv,
           StoreAllocFails \/ StorePressure \/ StoreSaveFails \/ StoreRelease
    PROVE  Tame /\ IndexInv'
<1>0. PoolInv
  BY DEF PinnedInv
<1>1. CASE StoreAllocFails \/ StorePressure
  <2>1. /\ wrk'.pc # "write" /\ UNCHANGED <<eng, index, blockHashes>> /\ Kept
        /\ UNCHANGED poolVars \/ \E b \in Block : handle_memory_pressure(b)
    BY <1>1, StorePressureStep
  <2>2. CASE UNCHANGED poolVars
    BY <2>1, <2>2, StillStep
  <2>3. CASE \E b \in Block : handle_memory_pressure(b)
    BY <1>0, <2>1, <2>3, PoolErodes, ErodeStep
  <2> QED BY <2>1, <2>2, <2>3
<1>2. CASE StoreSaveFails
  <2>1. /\ wrk'.pc # "write" /\ UNCHANGED <<eng, index, blockHashes>> /\ Kept
        /\ wrk.blk \in Block /\ free_block(wrk.blk)
    BY <1>2, StoreSaveFailsStep
  <2> QED BY <1>0, <2>1, PoolErodes, ErodeStep
<1>3. CASE StoreRelease
  <2>1. /\ wrk'.pc # "write" /\ UNCHANGED <<eng, index, blockHashes>> /\ Kept
        /\ wrk.tab \in Seq(Block) /\ release_for_eviction(wrk.tab)
    BY <1>3, StoreReleaseStep
  <2> QED BY <1>0, <2>1, PoolErodes, ErodeStep
<1> QED BY <1>1, <1>2, <1>3

\* A block that joins the claims.
LEMMA ClaimUsed ==
    ASSUME PrefixTypeInv, TablesKept, NEW b \in Block,
           eng' = [eng EXCEPT !.claims = Append(@, b)], NEW x \in Block, Used(x)'
    PROVE  Used(x) \/ x = b
<1>1. eng \in EngType /\ eng.claims \in Seq(Block)
  BY TypeFacts DEF EngType
<1>2. eng'.claims = Append(eng.claims, b)
  BY <1>1 DEF EngType
<1>3. \A y \in Range(Append(eng.claims, b)) : y \in Range(eng.claims) \/ y = b
  BY <1>1 DEF Range
<1> QED BY <1>2, <1>3, KeptUsed DEF Used

\* The walk: it claims a registered block, or refills a free one.
LEMMA WalkTame ==
    ASSUME PrefixTypeInv, Calm, PinnedInv, WalkClaim \/ WalkRestore
    PROVE  Tame /\ IndexInv'
<1>1. /\ eng.pc = "walk" /\ MoreWanted /\ EngFrame /\ IndexFrame
      /\ UNCHANGED <<tables, deleting, cacheLock>>
  BY DEF WalkClaim, WalkRestore
<1> DEFINE p == PrefixHash(eng.req, Len(eng.claims))
           t == Prompt[eng.req][Len(eng.claims) + 1]
<1>2. PICK b \in Block : /\ ClaimCached(Wanted, b) \/ LazyRestore(Wanted, p, b)
                         /\ eng' = [eng EXCEPT !.claims = Append(@, b)]
  BY DEF WalkClaim, WalkRestore
<1>3. /\ p \in Hash /\ t \in Tok /\ Wanted = compute_block_hash(p, t) /\ Wanted # NoHash
      /\ Wanted \in Hash
  BY <1>1, WalkFacts
<1>4. TablesKept
  BY <1>1, <1>2, WalkClaimStep
<1> HIDE DEF p, t
<1>5. /\ UNCHANGED <<index, blockHashes, wrk>> /\ eng'.fire = eng.fire
  <2>1. eng \in EngType
    BY TypeFacts
  <2> QED BY <1>1, <1>2, <2>1 DEF EngFrame, IndexFrame, EngType
<1>6. \A x \in Block : Used(x)' => Used(x) \/ x = b
  BY <1>2, <1>4, ClaimUsed
<1>7. PoolInv
  BY DEF PinnedInv
<1>8. CASE ClaimCached(Wanted, b)
  <2>1. PoolInv'
    BY <1>7, <1>8, ClaimCachedSafe DEF SafeStep
  <2>2. /\ UNCHANGED <<alloc, hash, hashMap, pending>> /\ <<Wanted, b>> \in hashMap
    BY <1>8 DEF ClaimCached, get_block
  <2>3. hash[b] # NoHash
    BY <1>3, <1>7, <2>2 DEF PoolInv, IndexSound
  <2>4. wrk.pc = "write" => b # wrk.blk
    BY <2>2 DEF PinnedInv, WriteFresh
  <2>5. Tame
    BY <1>5, <1>6, <2>1, <2>2, <2>3, <2>4 DEF Tame
  <2>6. Owing \subseteq Owing'
    BY <1>5, <2>2 DEF Owing
  <2> QED BY <1>5, <2>5, <2>6, SteadyIndex
<1>9. CASE LazyRestore(Wanted, p, b)
  <2>1. PoolInv'
    BY <1>3, <1>7, <1>9, LazyRestoreSafe DEF SafeStep
  <2>2. /\ AllocateBlockInternal(b) /\ hash' = [hash EXCEPT ![b] = Wanted]
        /\ hashMap' = hashMap \union {<<Wanted, b>>} /\ UNCHANGED pending
    BY <1>9 DEF LazyRestore
  <2>3. b \notin alloc /\ alloc' = alloc \union {b}
    BY <1>7, <2>2, AllocationFacts DEF AllocateBlockInternal
  <2>4. wrk.pc = "write" => b # wrk.blk
    BY <2>3, UsedFacts
  <2>5. hash'[b] # NoHash /\ \A x \in Block : x = b \/ hash'[x] = hash[x]
    BY <1>3, <2>2, TypeFacts DEF PoolTypeOK
  <2>6. \A e \in hashMap' \ hashMap : e[2] \notin alloc
    BY <2>2, <2>3
  <2>7. Tame
    BY <1>5, <1>6, <2>1, <2>3, <2>4, <2>5, <2>6 DEF Tame
  <2>8. Owing \subseteq Owing'
    BY <1>5, <2>2 DEF Owing
  <2> QED BY <1>5, <2>7, <2>8, SteadyIndex
<1> QED BY <1>2, <1>8, <1>9

\* IndexClaim: the blocks of a match that are still there, whatever is in them.
LEMMA IndexClaimTame ==
    ASSUME PrefixTypeInv, Calm, PinnedInv, IndexClaim
    PROVE  Tame /\ IndexInv'
<1> DEFINE live == Live(eng.best)
<1>1. PICK r \in Req : r = eng.req
  BY IndexClaimStep
<1>2. /\ UNCHANGED <<count, freeQ, alloc, hash, parent, hashMap, pending, wrk, index,
                     blockHashes>>
      /\ PrefixTypeInv' /\ cacheLock = "none" /\ live \in Seq(Block) /\ eng'.fire = eng.fire
      /\ \A b \in Block : ref'[b] = ref[b] + Occurrences(live, b)
      /\ ClaimsKept
      /\ \A x \in Req \ {r} : (Holding(x)' <=> Holding(x)) /\ tables'[x] = tables[x]
      /\ tables'[r] = live
  BY <1>1, IndexClaimStep
<1>3. \A i \in DOMAIN live : live[i] \in alloc /\ hash[live[i]] # NoHash
  <2>1. eng.best \in Seq(Block)
    BY TypeFacts DEF EngType
  <2> QED BY <2>1, LiveFacts
<1> HIDE DEF live
<1>4. wrk.pc # "write"
  BY <1>2 DEF Calm, ControlInv, StorePC, BusyPC
<1>5. ASSUME NEW x \in Block, Used(x)' PROVE Used(x) \/ hash'[x] # NoHash
  <2>1. CASE x \in Range(eng'.claims)
    BY <1>2, <2>1, KeptClaims
  <2>2. CASE \E y \in Req : Holding(y)' /\ x \in Range(tables'[y])
    <3>1. PICK y \in Req : Holding(y)' /\ x \in Range(tables'[y])
      BY <2>2
    <3>2. CASE y = r
      <4>1. x \in Range(live)
        BY <1>2, <3>1, <3>2
      <4> QED BY <1>2, <1>3, <4>1 DEF Range
    <3>3. CASE y # r
      BY <1>2, <3>1, <3>3 DEF Used
    <3> QED BY <3>2, <3>3
  <2> QED BY <1>5, <2>1, <2>2 DEF Used
<1>6. PoolInv'
  <2>1. PoolInv /\ ref' \in [Block -> Int]
    BY <1>2 DEF PinnedInv, PrefixTypeInv, PrefixTypeOK, TypeOK, PoolTypeOK
  <2>2. \A b \in Block : Occurrences(live, b) \in Nat /\ ref[b] \in Int
    BY <1>2, OccurrencesNat, TypeFacts DEF PoolTypeOK
  <2>3. \A b \in Block \ alloc : Occurrences(live, b) = 0 /\ ref[b] <= 0
    <3>1. Range(live) \subseteq alloc
      BY <1>3 DEF Range
    <3> QED BY <1>2, <2>1, <3>1, OccRange, IdleOutside
  <2>4. ref[Null] >= 1 /\ \A b \in alloc : ref[b] >= 0 /\ b \in Block
    BY <2>1 DEF PoolInv, RefSound, PoolTypeOK
  <2>5. ref'[Null] >= 1 /\ (\A b \in alloc : ref'[b] >= 0) /\ \A b \in Block \ alloc : ref'[b] <= 0
    <3>1. \A b \in Block : ref'[b] = ref[b] + Occurrences(live, b)
      BY <1>2
    <3>2. Null \in Block
      BY NullBlock
    <3> QED BY ONLY <2>2, <2>3, <2>4, <3>1, <3>2
  <2> QED BY <1>2, <2>1, <2>5, RefOnly DEF SafeStep
<1>7. Tame
  BY <1>2, <1>4, <1>5, <1>6 DEF Tame
<1>8. Owing \subseteq Owing'
  BY <1>2 DEF Owing
<1> QED BY <1>2, <1>7, <1>8, SteadyIndex

\* StoreReuse without a race, and StoreWrite: one more block in the table.
LEMMA StoreGrowTame ==
    ASSUME PrefixTypeInv, Calm, PinnedInv, StoreReuse \/ StoreWrite, "reuse" \notin races'
    PROVE  Tame /\ IndexInv'
<1>1. PICK r \in Req, b \in Block : r = wrk.req /\ b = wrk.blk
  BY StoreGrowStep
<1>2. /\ wrk'.pc # "write" /\ UNCHANGED <<eng, index, blockHashes>>
      /\ tables'[r] = Append(tables[r], b)
      /\ \A x \in Req \ {r} : tables'[x] = tables[x]
      /\ ClaimsKept /\ \A x \in Req : Holding(x)' <=> Holding(x)
      /\ Holding(r) /\ wrk.pc \in {"incref", "write"}
  BY <1>1, StoreGrowStep
<1>3. ASSUME NEW x \in Block, Used(x)' PROVE Used(x) \/ x = b
  <2>1. CASE x \in Range(eng'.claims)
    BY <1>2, <2>1, KeptClaims
  <2>2. CASE \E y \in Req : Holding(y)' /\ x \in Range(tables'[y])
    <3>1. PICK y \in Req : Holding(y)' /\ x \in Range(tables'[y])
      BY <2>2
    <3>2. CASE y = r
      <4>1. tables[r] \in Seq(Block)
        BY TypeFacts
      <4>2. x \in Range(Append(tables[r], b))
        BY <1>2, <3>1, <3>2
      <4>3. x \in Range(tables[r]) \/ x = b
        BY <4>1, <4>2 DEF Range
      <4> QED BY <1>2, <4>3 DEF Used
    <3>3. CASE y # r
      BY <1>2, <3>1, <3>3 DEF Used
    <3> QED BY <3>2, <3>3
  <2> QED BY <1>3, <2>1, <2>2 DEF Used
<1>4. PoolInv /\ wrk.hash # NoHash /\ wrk.hash \in Hash
  BY <1>2, TypeFacts DEF PinnedInv, PrefixTypeInv, BusyPC, WrkType
<1>5. CASE StoreReuse
  <2>1. increment_ref(b) /\ races' = races \union ReuseRace
    BY <1>1, <1>5 DEF StoreReuse
  <2>2. hash[b] = wrk.hash
    BY <1>1, <2>1 DEF ReuseRace
  <2>3. PoolInv'
    BY <1>4, <2>1, IncrementRefSafe DEF SafeStep
  <2>4. UNCHANGED <<alloc, hash, hashMap, pending>>
    BY <2>1 DEF increment_ref
  <2>5. Tame
    BY <1>2, <1>3, <1>4, <2>2, <2>3, <2>4 DEF Tame
  <2>6. Owing \subseteq Owing'
    BY <1>2, <2>4 DEF Owing
  <2> QED BY <1>2, <2>5, <2>6, SteadyIndex
<1>6. CASE StoreWrite
  <2>1. wrk.pc = "write" /\ register_block_hash(b, wrk.hash)
    BY <1>1, <1>6 DEF StoreWrite
  <2>2. b \in alloc /\ b # Null /\ \A e \in hashMap : e[2] # b
    BY <1>1, <2>1, UsedFacts DEF PinnedInv, WriteFresh
  <2>3. /\ hash' = [hash EXCEPT ![b] = wrk.hash] /\ hashMap' = hashMap \union {<<wrk.hash, b>>}
        /\ UNCHANGED <<count, freeQ, alloc, ref, parent, pending>>
    BY <2>1 DEF register_block_hash
  <2>4. parent' \in [Block -> Hash] /\ hash \in [Block -> Hash]
    BY <2>3, TypeFacts DEF PoolTypeOK
  <2>5. PoolInv'
    BY <1>4, <2>2, <2>3, <2>4, LabelSafe DEF SafeStep
  <2>6. hash'[b] # NoHash /\ \A x \in Block : x = b \/ hash'[x] = hash[x]
    BY <1>4, <2>3, <2>4
  <2>7. Tame
    BY <1>1, <1>2, <1>3, <2>1, <2>3, <2>5, <2>6 DEF Tame
  <2>8. Owing \subseteq Owing'
    BY <1>2, <2>3 DEF Owing
  <2> QED BY <1>2, <2>7, <2>8, SteadyIndex
<1> QED BY <1>5, <1>6

\* StoreAlloc.
LEMMA StoreAllocTame ==
    ASSUME PrefixTypeInv, Calm, PinnedInv, StoreAlloc
    PROVE  Tame /\ IndexInv'
<1>1. PICK b \in Block : b = wrk'.blk
  BY StoreAllocStep
<1>2. /\ allocate_block(b) /\ wrk'.pc = "write" /\ UNCHANGED <<eng, index, blockHashes>> /\ Kept
  BY <1>1, StoreAllocStep
<1>3. PoolInv /\ AllocateBlockInternal(b) /\ UNCHANGED <<hash, hashMap, pending>>
  BY <1>2 DEF PinnedInv, allocate_block
<1>4. b # Null /\ b \notin alloc /\ alloc' = alloc \union {b} /\ \A e \in hashMap : e[2] # b
  BY <1>3, AllocationFacts DEF AllocateBlockInternal
<1>5. PoolInv'
  BY <1>2, <1>3, AllocateBlockSafe DEF SafeStep
<1>6. \A x \in Block : Used(x)' => Used(x)
  BY <1>2, KeptUsed, KeptClaims DEF Kept
<1>7. Tame
  BY <1>1, <1>2, <1>3, <1>4, <1>5, <1>6 DEF Tame
<1>8. Owing \subseteq Owing'
  BY <1>2, <1>3 DEF Owing
<1> QED BY <1>2, <1>7, <1>8, SteadyIndex

\* StoreIndex: every block of the table is filed under the hash it has.
LEMMA StoreIndexTame ==
    ASSUME PrefixTypeInv, Calm, PinnedInv, StoreIndex
    PROVE  Tame /\ IndexInv'
<1>1. /\ wrk.pc \in {"find", "index"} /\ wrk.pc # "idle" /\ wrk'.pc = "release"
      /\ PrefixTypeInv' /\ Kept
      /\ UNCHANGED <<count, freeQ, alloc, ref, parent, hashMap, pending, eng>>
      /\ \A b \in Block : \/ hash'[b] = hash[b]
                          \/ b \in alloc /\ hash[b] = NoHash /\ b \in Range(Stored)
      /\ \A b \in Block : blockHashes[b] \subseteq blockHashes'[b]
      /\ \A h \in DOMAIN index' :
            \/ h \in DOMAIN index /\ index'[h] = index[h]
            \/ \E i \in 1..Len(Stored) :
                  /\ IndexHashes[i] = h /\ index'[h] = SubSeq(Stored, 1, i)
                  /\ h \in blockHashes'[Stored[i]]
  BY StoreIndexStep
<1>2. PICK r \in Req : r = wrk.req
  BY <1>1, Apart
<1>3. Holding(r) /\ Stored = tables[r]
  BY <1>1, <1>2, Apart DEF Stored
<1>4. ASSUME NEW x \in Range(Stored) PROVE x \in Block /\ Used(x)
  <2>1. tables[r] \in Seq(Block)
    BY TypeFacts
  <2> QED BY <1>3, <2>1 DEF Used, Range
<1>5. \A x \in Block : Used(x) => x \in alloc /\ hash[x] # NoHash
  BY UsedFacts
<1>6. \A x \in Block : hash'[x] = hash[x]
  BY <1>1, <1>4, <1>5
<1>7. hash' = hash
  <2>1. hash \in [Block -> Hash] /\ hash' \in [Block -> Hash]
    BY <1>1 DEF PrefixTypeInv, PrefixTypeOK, TypeOK, PoolTypeOK
  <2> QED BY <1>6, <2>1
<1>8. PoolInv'
  <2>1. UNCHANGED poolVars
    BY <1>1, <1>7 DEF poolVars
  <2> QED BY <2>1, PoolUnchanged DEF PinnedInv, SafeStep
<1>9. Tame
  BY <1>1, <1>7, <1>8, StillTame
<1>10. Owing' = Owing
  BY <1>1 DEF Owing
<1>11. ASSUME NEW h \in DOMAIN index'
       PROVE  /\ h # NoHash /\ index'[h] # <<>> /\ h \in blockHashes'[LastOf(index'[h])]
              /\ hash'[LastOf(index'[h])] = h \/ LastOf(index'[h]) \in Owing'
              /\ LastOf(index'[h]) \notin alloc' => LastOf(index'[h]) \in Owing'
  <2>1. CASE h \in DOMAIN index /\ index'[h] = index[h]
    <3>1. PICK b \in Block : b = LastOf(index[h])
      BY <2>1, LastFacts DEF PinnedInv
    <3>2. /\ h # NoHash /\ index[h] # <<>> /\ h \in blockHashes[b]
          /\ hash[b] = h \/ b \in Owing
          /\ b \notin alloc => b \in Owing
      BY <2>1, <3>1 DEF PinnedInv, IndexFiled, IndexFresh, IndexDead
    <3> QED BY <1>1, <1>7, <1>10, <2>1, <3>1, <3>2
  <2>2. CASE \E i \in 1..Len(Stored) :
                /\ IndexHashes[i] = h /\ index'[h] = SubSeq(Stored, 1, i)
                /\ h \in blockHashes'[Stored[i]]
    <3>1. PICK i \in 1..Len(Stored) :
                /\ IndexHashes[i] = h /\ index'[h] = SubSeq(Stored, 1, i)
                /\ h \in blockHashes'[Stored[i]]
      BY <2>2
    <3>2. /\ Stored \in Seq(Block) /\ Len(Stored) \in Nat /\ DOMAIN Stored = 1..Len(Stored)
          /\ h # NoHash
          /\ Stored[i] \in alloc /\ hash[Stored[i]] # NoHash => h = hash[Stored[i]]
      BY <1>1, <3>1, IndexHashFacts
    <3>3. Stored[i] \in Range(Stored)
      BY <3>2 DEF Range
    <3>4. Stored[i] \in Block /\ Stored[i] \in alloc /\ hash[Stored[i]] = h
      BY <1>4, <1>5, <3>2, <3>3
    <3>5. i \in 0..Len(Stored) /\ i \in Nat \ {0}
      BY <3>2
    <3>6. /\ Len(index'[h]) = i /\ index'[h][i] = Stored[i] /\ index'[h] # <<>>
      <4>1. /\ Len(SubSeq(Stored, 1, i)) = i /\ \A j \in 1..i : SubSeq(Stored, 1, i)[j] = Stored[j]
        BY <3>2, <3>5, SubSeqFacts
      <4> QED BY <3>1, <3>5, <4>1
    <3> QED BY <1>1, <1>7, <3>1, <3>2, <3>4, <3>6 DEF LastOf
  <2> QED BY <1>1, <2>1, <2>2
<1>12. IndexInv'
  BY <1>1, <1>11 DEF IndexInv, IndexFiled, IndexFresh, IndexDead, LastOf
<1> QED BY <1>9, <1>12

-----------------------------------------------------------------------------
\* No step, whatever the other thread is doing, disturbs what is pinned, until
\* a store pins a block that was freed or refilled after it was found.
LEMMA NextTame ==
    ASSUME PrefixTypeInv, Calm, PinnedInv, [PrefixNext]_vars, "reuse" \notin races'
    PROVE  Tame /\ IndexInv'
<1>1. ASSUME EngineStep PROVE Tame /\ IndexInv'
  <2>1. CASE EngSwap \/ EngFire
    BY <2>1, FlushTame
  <2>2. CASE \E r \in Req : FetchStart(r) \/ Finish(r) \/ Retire(r) \/ Reject(r)
    BY <2>2, EngineStill, EngineErodes
  <2>3. CASE WalkClaim \/ WalkRestore \/ IndexClaim
    BY <2>3, WalkTame, IndexClaimTame
  <2>4. CASE \/ WalkEnd \/ IndexLookup \/ UnclaimEnd \/ TableBuild \/ ReconstructAll
             \/ DropEnd \/ WalkBack \/ Rebuilt \/ GiveUpTable \/ PreloadTimeout
             \/ EngDeleteEnd \/ RetireEnd
    BY <2>4, EngineStill
  <2>5. CASE Unclaim \/ Drop \/ EngDeleteStep \/ Demote \/ ReconstructPart
    BY <2>5, EngineErodes
  <2> QED BY <1>1, <2>1, <2>2, <2>3, <2>4, <2>5 DEF EngineStep
<1>2. ASSUME WorkerStep PROVE Tame /\ IndexInv'
  <2>1. CASE WrkFlush
    BY <2>1, FlushTame
  <2>2. CASE \/ StoreFind \/ StoreSave \/ StoreClear \/ \E r \in Req : StoreStart(r)
    BY <2>2, WorkerStill
  <2>3. CASE StoreReuse \/ StoreWrite \/ StoreAlloc \/ StoreIndex
    BY <2>3, StoreGrowTame, StoreAllocTame, StoreIndexTame
  <2>4. CASE StoreAllocFails \/ StorePressure \/ StoreSaveFails \/ StoreRelease
    BY <2>4, WorkerErodes
  <2> QED BY <1>2, <2>1, <2>2, <2>3, <2>4 DEF WorkerStep
<1> QED BY <1>1, <1>2, WorkerStill DEF PrefixNext

\* Once a window has been hit it stays in the history.
LEMMA RacesGrow ==
    ASSUME [PrefixNext]_vars
    PROVE  races \subseteq races'
<1>1. ASSUME EngineStep PROVE races \subseteq races'
  BY <1>1 DEF EngineStep, EngSwap, EngFire, FetchStart, Finish, Retire, Reject, WalkClaim,
     WalkRestore, WalkEnd, IndexLookup, IndexClaim, Unclaim, UnclaimEnd, TableBuild,
     ReconstructAll, ReconstructPart, Drop, DropEnd, WalkBack, Rebuilt, GiveUpTable,
     PreloadTimeout, EngDeleteStep, EngDeleteEnd, RetireEnd, Demote, EngFreeNext, EngFrame
<1>2. ASSUME WorkerStep PROVE races \subseteq races'
  BY <1>2 DEF WorkerStep, WrkFlush, StoreStart, StoreFind, StoreReuse, StoreAlloc,
     StoreAllocFails, StorePressure, StoreWrite, StoreSave, StoreSaveFails, StoreIndex,
     StoreRelease, StoreClear, WrkFrame
<1>3. ASSUME SsdLose \/ UNCHANGED vars PROVE races \subseteq races'
  BY <1>3 DEF SsdLose, vars, prefixVars
<1> QED BY <1>1, <1>2, <1>3 DEF PrefixNext

\* The inductive invariant of the pinned blocks.
PinnedUnlessReused ==
    PrefixTypeInv /\ ControlInv /\ ("reuse" \notin races => PinnedInv)

\* Nothing is held or indexed at the start.
LEMMA PinnedStarts ==
    ASSUME PrefixInit
    PROVE  PinnedInv
<1>1. /\ index = <<>> /\ eng = EngIdle /\ wrk = WrkIdle /\ PoolInit
      /\ deleting = <<>> /\ tables = [r \in Req |-> <<>>]
  BY DEF PrefixInit, PoolInit, NoTables
<1>2. PoolInv /\ hashMap = {}
  BY <1>1, PoolInitInv DEF PoolInit
<1>3. eng.claims = <<>> /\ eng.todo = <<>> /\ wrk.pc = "idle"
  BY <1>1 DEF EngIdle, WrkIdle
<1>4. PrefixTypeInv
  BY PrefixStarts
<1>5. ASSUME NEW b \in Block PROVE Holders(b) = 0
  <2>1. \A r \in Req : Share(r, b) = 0
    <3>1. \A r \in Req : tables[r] = <<>>
      BY <1>1
    <3> QED BY <3>1, OccEmpty DEF Share
  <2>2. Shares(b) = 0
    <3> DEFINE f == [r \in Req |-> Share(r, b)]
    <3>1. \A r \in Req : f[r] = 0
      BY <2>1
    <3>2. Shares(b) = SumFunctionOnSet(f, Req)
      BY DEF Shares
    <3> HIDE DEF f
    <3> QED BY <3>1, <3>2, PrefixAssumption, SumZero DEF PrefixAssumption
  <2>3. Fresh(b) = 0
    BY <1>3 DEF Fresh
  <2>4. Occurrences(<<>>, b) = 0
    BY OccEmpty
  <2> QED BY <1>1, <1>3, <1>4, <2>2, <2>3, <2>4, TypeFacts, HoldersParts
<1>6. HoldersCovered
  BY <1>5 DEF HoldersCovered
<1>7. UsedHashed
  <2>1. \A r \in Req : Range(tables[r]) = {}
    BY <1>1 DEF Range
  <2>2. Range(eng.claims) = {}
    BY <1>3 DEF Range
  <2> QED BY <2>1, <2>2 DEF UsedHashed, Used
<1>8. DOMAIN index = {}
  BY <1>1
<1> QED BY <1>2, <1>3, <1>6, <1>7, <1>8
        DEF PinnedInv, WriteFresh, IndexFiled, IndexFresh, IndexDead

\* All three layers step by step.
LEMMA PinnedStep ==
    ASSUME PinnedUnlessReused, "late_abort" \notin Env, [PrefixNext]_vars
    PROVE  PinnedUnlessReused'
<1>1. PrefixTypeInv /\ Calm
  BY DEF PinnedUnlessReused, Calm
<1>2. PrefixTypeInv' /\ ControlInv'
  BY <1>1, NextTyped
<1>3. ASSUME "reuse" \notin races' PROVE PinnedInv'
  <2>1. PinnedInv
    BY <1>3, RacesGrow DEF PinnedUnlessReused
  <2>2. Tame /\ IndexInv'
    BY <1>1, <1>3, <2>1, NextTame
  <2>3. PoolInv' /\ UsedHashed' /\ WriteFresh'
    BY <1>1, <2>1, <2>2, TameKeeps
  <2>4. HoldersCovered'
    <3>1. Ledger
      BY <1>1, NextLedger
    <3> QED BY <1>1, <1>2, <1>3, <2>1, <3>1, CoverStep DEF PinnedInv
  <2> QED BY <2>2, <2>3, <2>4 DEF PinnedInv, IndexInv
<1> QED BY <1>2, <1>3 DEF PinnedUnlessReused

\* Until a store pins a block by id that was freed or refilled after it was
\* found, no block is freed, evicted or made evictable under somebody who
\* counts on it: every block a request, a walk, a delete or a store in progress
\* holds is allocated and has a reference for each of them (fetch_cache,
\* reconstruct_cache, store_cache, release_for_eviction, free_block). It holds
\* with rejected requests, failed saves, SSD losses and demotions; a store that
\* is aborted in flight gives its references back twice and is excluded.
THEOREM HoldersKeepBlocks ==
    ASSUME "late_abort" \notin Env
    PROVE  PrefixSpec => []NoPrematureRelease
<1>1. PrefixInit => PinnedUnlessReused
  BY PrefixStarts, PinnedStarts DEF PinnedUnlessReused
<1>2. PinnedUnlessReused /\ [PrefixNext]_vars => PinnedUnlessReused'
  BY PinnedStep
<1>3. PinnedUnlessReused => NoPrematureRelease
  BY DEF PinnedUnlessReused, PinnedInv, NoPrematureRelease
<1> QED BY <1>1, <1>2, <1>3, PTL DEF PrefixSpec

\* Under the same condition an index entry's own block has the content it is
\* filed under, or its invalidation is still on the way: the callbacks of
\* free_block, eviction and demotion reach _on_block_freed before anything else
\* is written into the block (_update_prefix_index, _on_block_freed).
THEOREM EntriesFresh ==
    ASSUME "late_abort" \notin Env
    PROVE  PrefixSpec => []LastBlockFresh
<1>1. PrefixInit => PinnedUnlessReused
  BY PrefixStarts, PinnedStarts DEF PinnedUnlessReused
<1>2. PinnedUnlessReused /\ [PrefixNext]_vars => PinnedUnlessReused'
  BY PinnedStep
<1>3. PinnedUnlessReused => LastBlockFresh
  BY DEF PinnedUnlessReused, PinnedInv, LastBlockFresh, IndexFresh, LastOf, Owing
<1> QED BY <1>1, <1>2, <1>3, PTL DEF PrefixSpec

-----------------------------------------------------------------------------
(***************************************************************************)
(* Contents: what the blocks in use, the files and the requests have.      *)
(***************************************************************************)

\* A step that keeps the tables, the claims and the hashes in use.
LEMMA KeptLabels ==
    ASSUME PrefixTypeInv, Labels, \A x \in Block : Used(x) => hash'[x] = hash[x]
    PROVE  /\ TablesKept => \A r \in Req : Holding(r)' =>
                \A i \in DOMAIN tables'[r] : hash'[tables'[r][i]] = PrefixHash(r, i)
           /\ ClaimsKept => \A i \in DOMAIN eng'.claims :
                hash'[eng'.claims[i]] = PrefixHash(eng'.req, i)
<1>1. ASSUME NEW r \in Req, Holding(r), NEW i \in DOMAIN tables[r]
      PROVE  hash'[tables[r][i]] = PrefixHash(r, i)
  <2>1. tables[r] \in Seq(Block)
    BY TypeFacts
  <2>2. tables[r][i] \in Block /\ Used(tables[r][i])
    BY <1>1, <2>1 DEF Used, Range
  <2> QED BY <1>1, <2>2 DEF Labels
<1>2. ASSUME NEW i \in DOMAIN eng.claims
      PROVE  hash'[eng.claims[i]] = PrefixHash(eng.req, i)
  <2>1. eng.claims \in Seq(Block)
    BY TypeFacts DEF EngType
  <2>2. eng.claims[i] \in Block /\ Used(eng.claims[i])
    BY <2>1 DEF Used, Range
  <2> QED BY <2>2 DEF Labels
<1>3. ASSUME TablesKept, NEW r \in Req, Holding(r)', NEW i \in DOMAIN tables'[r]
      PROVE  hash'[tables'[r][i]] = PrefixHash(r, i)
  BY <1>1, <1>2, <1>3 DEF TablesKept
<1>4. ASSUME ClaimsKept, NEW i \in DOMAIN eng'.claims
      PROVE  hash'[eng'.claims[i]] = PrefixHash(eng'.req, i)
  BY <1>2, <1>4 DEF ClaimsKept
<1> QED BY <1>3, <1>4

\* Most steps do.
LEMMA MostlyKept ==
    ASSUME PrefixTypeInv, Calm, [PrefixNext]_vars,
           ~WalkClaim, ~WalkRestore, ~IndexClaim, ~StoreReuse, ~StoreWrite
    PROVE  Kept
<1>1. ASSUME EngineStep PROVE Kept
  <2>1. CASE EngSwap \/ EngFire
    BY <2>1, EngSwapStep, EngFireStep
  <2>2. ASSUME NEW r \in Req, FetchStart(r) \/ Finish(r) \/ Retire(r) \/ Reject(r)
        PROVE  Kept
    BY <2>2, FetchStartStep, FinishStep, RetireStep, RejectStep
  <2>3. CASE WalkEnd \/ IndexLookup \/ UnclaimEnd \/ TableBuild
    BY <2>3, WalkEndStep, IndexLookupStep, UnclaimEndStep, TableBuildStep
  <2>4. CASE Unclaim \/ Drop
    BY <2>4, EngFreeStep DEF Unclaim, Drop
  <2>5. CASE ReconstructAll \/ ReconstructPart \/ DropEnd \/ WalkBack
    BY <2>5, ReconstructAllStep, ReconstructPartStep, DropEndStep, WalkBackStep
  <2>6. CASE Rebuilt \/ GiveUpTable \/ PreloadTimeout \/ EngDeleteStep \/ EngDeleteEnd
    BY <2>6, RebuiltStep, GiveUpTableStep, EngDeleteStepStep, EngDeleteEndStep
  <2>7. CASE RetireEnd \/ Demote
    BY <2>7, RetireEndStep, DemoteStep
  <2> QED BY <1>1, <2>1, <2>2, <2>3, <2>4, <2>5, <2>6, <2>7 DEF EngineStep
<1>2. ASSUME WorkerStep PROVE Kept
  <2>1. CASE WrkFlush \/ StoreFind
    BY <2>1, WrkFlushStep, StoreFindStep
  <2>2. ASSUME NEW r \in Req, StoreStart(r) PROVE Kept
    BY <2>2, StoreStartStep
  <2>3. CASE StoreAlloc \/ StoreAllocFails \/ StorePressure
    BY <2>3, StoreAllocStep, StorePressureStep
  <2>4. CASE StoreSave \/ StoreSaveFails
    BY <2>4, StoreSaveStep, StoreSaveFailsStep
  <2>5. CASE StoreIndex \/ StoreRelease \/ StoreClear
    BY <2>5, StoreIndexStep, StoreReleaseStep, StoreClearStep
  <2> QED BY <1>2, <2>1, <2>2, <2>3, <2>4, <2>5 DEF WorkerStep
<1> QED BY <1>1, <1>2, SsdLoseStep DEF PrefixNext

\* Every step keeps the labels.
LEMMA LabelsStep ==
    ASSUME PrefixTypeInv, Calm, PinnedInv, Labels, Chained, [PrefixNext]_vars, races' = {},
           \A x \in Block : Used(x) => hash'[x] = hash[x]
    PROVE  Labels'
<1>1. CASE WalkClaim \/ WalkRestore
  <2>1. /\ eng.pc = "walk" /\ MoreWanted /\ EngFrame /\ IndexFrame
        /\ UNCHANGED <<tables, deleting, cacheLock>>
    BY <1>1 DEF WalkClaim, WalkRestore
  <2>2. PICK b \in Block : /\ \/ ClaimCached(Wanted, b)
                              \/ LazyRestore(Wanted, PrefixHash(eng.req, Len(eng.claims)), b)
                           /\ eng' = [eng EXCEPT !.claims = Append(@, b)]
    BY <1>1 DEF WalkClaim, WalkRestore
  <2>3. TablesKept
    BY <2>1, <2>2, WalkClaimStep
  <2>4. hash'[b] = Wanted
    <3>1. CASE ClaimCached(Wanted, b)
      BY <3>1 DEF ClaimCached, get_block, PinnedInv, PoolInv, IndexSound
    <3>2. CASE LazyRestore(Wanted, PrefixHash(eng.req, Len(eng.claims)), b)
      BY <3>2, TypeFacts DEF LazyRestore, PoolTypeOK
    <3> QED BY <2>2, <3>1, <3>2
  <2>5. /\ eng'.claims = Append(eng.claims, b) /\ eng'.req = eng.req
        /\ eng.claims \in Seq(Block)
    BY <2>2, TypeFacts DEF EngType
  <2>6. ASSUME NEW i \in DOMAIN eng'.claims
        PROVE  hash'[eng'.claims[i]] = PrefixHash(eng'.req, i)
    <3>1. CASE i = Len(eng.claims) + 1
      <4>1. eng'.claims[i] = b
        BY <2>5, <3>1
      <4> QED BY <2>4, <2>5, <3>1, <4>1 DEF Wanted
    <3>2. CASE i # Len(eng.claims) + 1
      <4>1. /\ i \in DOMAIN eng.claims /\ eng'.claims[i] = eng.claims[i]
            /\ eng.claims[i] \in Block
        BY <2>5, <2>6, <3>2
      <4>2. Used(eng.claims[i])
        BY <4>1 DEF Used, Range
      <4> QED BY <2>5, <4>1, <4>2 DEF Labels
    <3> QED BY <3>1, <3>2
  <2> QED BY <2>3, <2>6, KeptLabels DEF Labels
<1>2. CASE IndexClaim
  <2> DEFINE live == Live(eng.best)
  <2>1. PICK r \in Req : r = eng.req
    BY <1>2, IndexClaimStep
  <2>2. /\ hash' = hash /\ ClaimsKept /\ live \in Seq(Block)
        /\ \A x \in Req \ {r} : (Holding(x)' <=> Holding(x)) /\ tables'[x] = tables[x]
        /\ tables'[r] = live
        /\ live = <<>> \/ races' = races \union IndexRace(live)
    <3>1. races' = races => live = <<>> \/ races' = races \union IndexRace(live)
      BY <1>2 DEF IndexClaim
    <3> QED BY <1>2, <2>1, <3>1, IndexClaimStep
  <2>3. \A i \in DOMAIN live : hash[live[i]] = PrefixHash(r, i)
    <3>1. CASE live = <<>>
      BY <3>1
    <3>2. CASE races' = races \union IndexRace(live)
      BY <2>1, <3>2 DEF IndexRace
    <3> QED BY <2>2, <3>1, <3>2
  <2> HIDE DEF live
  <2>4. ASSUME NEW x \in Req, Holding(x)', NEW i \in DOMAIN tables'[x]
        PROVE  hash'[tables'[x][i]] = PrefixHash(x, i)
    <3>1. CASE x = r
      BY <2>2, <2>3, <2>4, <3>1
    <3>2. CASE x # r
      BY <2>2, <2>4, <3>2 DEF Labels
    <3> QED BY <3>1, <3>2
  <2> QED BY <2>2, <2>4, KeptLabels DEF Labels
<1>3. CASE StoreReuse \/ StoreWrite
  <2>1. PICK r \in Req, b \in Block : r = wrk.req /\ b = wrk.blk
    BY <1>3, StoreGrowStep
  <2>2. /\ tables'[r] = Append(tables[r], b)
        /\ \A x \in Req \ {r} : tables'[x] = tables[x]
        /\ ClaimsKept /\ \A x \in Req : Holding(x)' <=> Holding(x)
        /\ Holding(r) /\ wrk.pc \in {"incref", "write"}
    BY <1>3, <2>1, StoreGrowStep
  <2>3. wrk.hash = PrefixHash(r, Len(tables[r]) + 1)
    BY <2>1, <2>2 DEF Chained, BusyPC, Stored
  <2>4. hash'[b] = wrk.hash
    <3>1. CASE StoreReuse
      BY <2>1, <3>1 DEF StoreReuse, ReuseRace, increment_ref
    <3>2. CASE StoreWrite
      BY <2>1, <3>2, TypeFacts DEF StoreWrite, register_block_hash, PoolTypeOK
    <3> QED BY <1>3, <3>1, <3>2
  <2>5. ASSUME NEW x \in Req, Holding(x)', NEW i \in DOMAIN tables'[x]
        PROVE  hash'[tables'[x][i]] = PrefixHash(x, i)
    <3>1. tables[x] \in Seq(Block)
      BY TypeFacts
    <3>2. CASE x = r /\ i = Len(tables[r]) + 1
      <4>1. tables'[x][i] = b
        BY <2>2, <3>1, <3>2
      <4> QED BY <2>3, <2>4, <3>2, <4>1
    <3>3. CASE ~ (x = r /\ i = Len(tables[r]) + 1)
      <4>1. /\ i \in DOMAIN tables[x] /\ tables'[x][i] = tables[x][i] /\ tables[x][i] \in Block
        BY <2>2, <2>5, <3>1, <3>3
      <4>2. Holding(x)
        BY <2>2, <2>5
      <4>3. Used(tables[x][i])
        BY <4>1, <4>2 DEF Used, Range
      <4> QED BY <4>1, <4>2, <4>3 DEF Labels
    <3> QED BY <3>2, <3>3
  <2> QED BY <2>2, <2>5, KeptLabels DEF Labels
<1>4. CASE ~(WalkClaim \/ WalkRestore \/ IndexClaim \/ StoreReuse \/ StoreWrite)
  BY <1>4, MostlyKept, KeptLabels DEF Kept, Labels
<1> QED BY <1>1, <1>2, <1>3, <1>4

\* The files keep what they are named after: save_block is handed the state
\* after the blocks stored so far.
LEMMA FilesStep ==
    ASSUME PrefixTypeInv, Files, Chained, [PrefixNext]_vars
    PROVE  Files'
<1>1. CASE StoreSave
  <2>1. wrk.hash = PrefixHash(wrk.req, Len(Stored))
    BY <1>1 DEF StoreSave, Chained
  <2>2. ssd' = ssd \/ ssd' = Saved(wrk.hash)
    BY <1>1, <2>1 DEF StoreSave
  <2> QED BY <2>2 DEF Files, Saved
<1>2. CASE SsdLose
  <2>1. PICK lost : ssd' = [h \in DOMAIN ssd \ {lost} |-> ssd[h]]
    BY <1>2 DEF SsdLose
  <2> QED BY <2>1 DEF Files
<1>3. CASE EngineStep
  <2>1. ssd' = ssd
    BY <1>3 DEF EngineStep, EngSwap, EngFire, FetchStart, Finish, Retire, Reject, WalkClaim,
       WalkRestore, WalkEnd, IndexLookup, IndexClaim, Unclaim, UnclaimEnd, TableBuild,
       ReconstructAll, ReconstructPart, Drop, DropEnd, WalkBack, Rebuilt, GiveUpTable,
       PreloadTimeout, EngDeleteStep, EngDeleteEnd, RetireEnd, Demote, EngFreeNext, EngFrame
  <2> QED BY <2>1 DEF Files
<1>4. CASE WorkerStep /\ ~StoreSave
  <2>1. ssd' = ssd
    BY <1>4 DEF WorkerStep, WrkFlush, StoreStart, StoreFind, StoreReuse, StoreAlloc,
       StoreAllocFails, StorePressure, StoreWrite, StoreSaveFails,
       StoreIndex, StoreRelease, StoreClear, WrkFrame
  <2> QED BY <2>1 DEF Files
<1>5. CASE UNCHANGED vars
  BY <1>5 DEF vars, prefixVars, Files
<1> QED BY <1>1, <1>2, <1>3, <1>4, <1>5 DEF PrefixNext

\* The blocks of the table that can be loaded give the prompt's own prefix.
LEMMA LoadedRight ==
    ASSUME PrefixTypeInv, Labels, Files, eng.pc = "recon", NEW r \in Req, r = eng.req,
           NEW s \in Seq(Block), Len(s) <= ValidBlocks,
           \A i \in 1..Len(s) : s[i] = Table[i]
    PROVE  \A i \in DOMAIN Contents(s) : Contents(s)[i] = PrefixHash(r, i)
<1>1. Table = tables[r] /\ Table \in Seq(Block) /\ Holding(r)
  BY TypeFacts DEF Table, Holding, PrefixTypeInv
<1>2. /\ ValidBlocks \in 0 .. Len(Table) /\ Len(Table) \in Nat
      /\ \A i \in 1 .. ValidBlocks : Loadable(Table[i])
  BY <1>1, ValidFacts
<1>3. DOMAIN s = 1..Len(s) /\ Len(s) \in Nat /\ DOMAIN Table = 1..Len(Table)
  BY <1>1
<1>4. ASSUME NEW i \in 1..Len(s) PROVE Contents(s)[i] = PrefixHash(r, i)
  <2>1. i \in 1 .. ValidBlocks /\ i \in DOMAIN Table
    BY <1>2, <1>3
  <2>2. hash[Table[i]] = PrefixHash(r, i) /\ hash[Table[i]] \in DOMAIN ssd
    BY <1>1, <1>2, <2>1 DEF Labels, Loadable, has_block
  <2>3. Contents(s)[i] = ssd[hash[Table[i]]]
    BY <1>3 DEF Contents
  <2> QED BY <2>2, <2>3 DEF Files
<1> QED BY <1>3, <1>4 DEF Contents

\* What the requests have been given stays the prefix of their prompts.
LEMMA ServedStep ==
    ASSUME PrefixTypeInv, Labels, Files, Served, [PrefixNext]_vars
    PROVE  Served'
<1>1. ASSUME NEW r \in Req, NEW c, served' = [served EXCEPT ![r] = c],
             \A i \in DOMAIN c : c[i] = PrefixHash(r, i)
      PROVE  Served'
  <2>1. served'[r] = c /\ \A x \in Req \ {r} : served'[x] = served[x]
    BY <1>1, TypeFacts DEF PrefixTypeInv, PrefixTypeOK
  <2> QED BY <1>1, <2>1 DEF Served, CorrectPrefix
<1>2. CASE ReconstructAll
  <2>1. PICK r \in Req : r = eng.req
    BY <1>2 DEF ReconstructAll, PrefixTypeInv
  <2>2. /\ eng.pc = "recon" /\ ValidBlocks = Len(Table)
        /\ served' = [served EXCEPT ![r] = Contents(Table)]
    BY <1>2, <2>1 DEF ReconstructAll
  <2>3. Table \in Seq(Block)
    BY <2>1, TypeFacts DEF Table
  <2>4. Len(Table) \in Nat
    BY <2>3
  <2>5. \A i \in DOMAIN Contents(Table) : Contents(Table)[i] = PrefixHash(r, i)
    BY <2>1, <2>2, <2>3, <2>4, LoadedRight
  <2> QED BY <1>1, <2>2, <2>5
<1>3. CASE ReconstructPart
  <2>1. PICK r \in Req : r = eng.req
    BY <1>3 DEF ReconstructPart, PrefixTypeInv
  <2> DEFINE n == ValidBlocks
             s == SubSeq(Table, 1, n)
  <2>2. eng.pc = "recon" /\ served' = [served EXCEPT ![r] = Contents(s)]
    BY <1>3, <2>1 DEF ReconstructPart
  <2>3. Table \in Seq(Block)
    BY <2>1, TypeFacts DEF Table
  <2>4. n \in 0..Len(Table) /\ Len(Table) \in Nat
    BY <2>3, ValidFacts
  <2>5. s \in Seq(Block) /\ Len(s) = n /\ \A i \in 1..n : s[i] = Table[i]
    BY <2>3, <2>4, SubSeqFacts
  <2>6. \A i \in DOMAIN Contents(s) : Contents(s)[i] = PrefixHash(r, i)
    <3> HIDE DEF s
    <3> QED BY <2>1, <2>2, <2>4, <2>5, LoadedRight
  <2> HIDE DEF s, n
  <2> QED BY <1>1, <2>2, <2>6
<1>4. CASE WalkBack
  <2>1. PICK r \in Req : r = eng.req
    BY <1>4 DEF WalkBack, PrefixTypeInv
  <2>2. PICK n \in 1 .. Len(Table) - 1 : served' = [served EXCEPT ![r] = SubSeq(@, 1, n)]
    BY <1>4, <2>1 DEF WalkBack
  <2>3. served[r] \in Seq(Hash) /\ Len(served[r]) = Len(Table)
    BY <1>4, <2>1 DEF WalkBack, PrefixTypeInv, PrefixTypeOK
  <2>4. Len(Table) \in Nat /\ n \in 0..Len(served[r])
    BY <2>3
  <2>5. /\ DOMAIN SubSeq(served[r], 1, n) = 1..n
        /\ \A i \in 1..n : SubSeq(served[r], 1, n)[i] = served[r][i]
    BY <2>3, <2>4, SubSeqFacts
  <2>6. 1..n \subseteq DOMAIN served[r]
    BY <2>3, <2>4
  <2>7. \A i \in DOMAIN SubSeq(served[r], 1, n) : SubSeq(served[r], 1, n)[i] = PrefixHash(r, i)
    BY <2>5, <2>6 DEF Served, CorrectPrefix
  <2>8. served' = [served EXCEPT ![r] = SubSeq(served[r], 1, n)]
    BY <2>2
  <2> QED BY <1>1, <2>7, <2>8
<1>5. CASE GiveUpTable
  <2>1. PICK r \in Req : r = eng.req
    BY <1>5 DEF GiveUpTable, PrefixTypeInv
  <2>2. served' = [served EXCEPT ![r] = <<>>]
    BY <1>5, <2>1 DEF GiveUpTable
  <2>3. served'[r] = <<>> /\ \A x \in Req \ {r} : served'[x] = served[x]
    BY <2>2, TypeFacts
  <2> QED BY <2>3 DEF Served, CorrectPrefix
<1>6. CASE EngineStep /\ ~ReconstructAll /\ ~ReconstructPart /\ ~WalkBack /\ ~GiveUpTable
  <2>1. served' = served
    BY <1>6 DEF EngineStep, EngSwap, EngFire, FetchStart, Finish, Retire, Reject, WalkClaim,
       WalkRestore, WalkEnd, IndexLookup, IndexClaim, Unclaim, UnclaimEnd, TableBuild,
       Drop, DropEnd, Rebuilt, PreloadTimeout, EngDeleteStep, EngDeleteEnd, RetireEnd,
       Demote, EngFreeNext, EngFrame
  <2> QED BY <2>1 DEF Served, CorrectPrefix
<1>7. CASE WorkerStep \/ SsdLose \/ UNCHANGED vars
  <2>1. served' = served
    BY <1>7 DEF WorkerStep, WrkFlush, StoreStart, StoreFind, StoreReuse, StoreAlloc,
       StoreAllocFails, StorePressure, StoreWrite, StoreSave, StoreSaveFails, StoreIndex,
       StoreRelease, StoreClear, WrkFrame, SsdLose, vars, prefixVars
  <2> QED BY <2>1 DEF Served, CorrectPrefix
<1> QED BY <1>2, <1>3, <1>4, <1>5, <1>6, <1>7 DEF PrefixNext

\* The engine keeps its hands off the worker's request.
LEMMA StoreLeftAlone ==
    ASSUME PrefixTypeInv, Calm, EngineStep \/ SsdLose, wrk.pc # "idle"
    PROVE  wrk' = wrk /\ tables'[wrk.req] = tables[wrk.req]
<1>1. wrk' = wrk
  BY DEF EngineStep, SsdLose, EngSwap, EngFire, FetchStart, Finish, Retire, Reject, WalkClaim,
     WalkRestore, WalkEnd, IndexLookup, IndexClaim, Unclaim, UnclaimEnd, TableBuild,
     ReconstructAll, ReconstructPart, Drop, DropEnd, WalkBack, Rebuilt, GiveUpTable,
     PreloadTimeout, EngDeleteStep, EngDeleteEnd, RetireEnd, Demote, EngFreeNext, EngFrame
<1>2. /\ tables \in [Req -> Seq(Block)] /\ wrk.req \in Req
      /\ eng.pc # "idle" => eng.req # wrk.req
  BY TypeFacts, Apart DEF Calm, ControlInv
<1>3. \/ tables' = tables
      \/ eng.pc # "idle" /\ \E t : tables' = [tables EXCEPT ![eng.req] = t]
  <2>1. CASE IndexClaim \/ TableBuild \/ ReconstructPart \/ WalkBack \/ GiveUpTable \/ RetireEnd
    BY <2>1 DEF IndexClaim, TableBuild, ReconstructPart, WalkBack, GiveUpTable, RetireEnd,
       ClearEntryNoFree, delete_block_table
  <2>2. CASE ~(IndexClaim \/ TableBuild \/ ReconstructPart \/ WalkBack \/ GiveUpTable \/ RetireEnd)
    BY <2>2 DEF EngineStep, SsdLose, EngSwap, EngFire, FetchStart, Finish, Retire, Reject,
       WalkClaim, WalkRestore, WalkEnd, IndexLookup, Unclaim, UnclaimEnd, ReconstructAll,
       Drop, DropEnd, Rebuilt, PreloadTimeout, EngDeleteStep, EngDeleteEnd, Demote,
       EngFreeNext, DeleteStep
  <2> QED BY <2>1, <2>2
<1> QED BY <1>1, <1>2, <1>3

\* The worker's hash is the next one of its request's chain.
LEMMA ChainedStep ==
    ASSUME PrefixTypeInv, Calm, PinnedInv, Labels, Chained, [PrefixNext]_vars
    PROVE  Chained'
<1>1. CASE StoreFind
  <2>1. /\ wrk.pc = "find" /\ wrk'.hash = NextHash /\ wrk'.req = wrk.req
        /\ Len(Stored) < Len(Prompt[wrk.req]) /\ tables' = tables
        /\ wrk'.pc \in {"incref", "alloc"}
    BY <1>1, StoreFindStep, TypeFacts DEF StoreFind, WrkType
  <2>2. PICK r \in Req : r = wrk.req /\ Holding(r)
    BY <2>1, Apart
  <2>3. Stored = tables[r] /\ Stored \in Seq(Block)
    BY <2>2, TypeFacts DEF Stored
  <2>4. Len(Stored) \in Nat
    BY <2>3
  <2>5. ParentHash = PrefixHash(r, Len(Stored))
    <3>1. CASE Stored = <<>>
      BY <3>1, PrefixHashFacts DEF ParentHash
    <3>2. CASE Stored # <<>>
      <4>1. Len(Stored) \in DOMAIN Stored /\ Stored[Len(Stored)] \in Block
        BY <2>3, <3>2
      <4>2. Used(Stored[Len(Stored)])
        BY <2>2, <2>3, <4>1 DEF Used, Range
      <4>3. Stored[Len(Stored)] \in alloc
        BY <4>1, <4>2, UsedFacts
      <4>4. hash[Stored[Len(Stored)]] = PrefixHash(r, Len(Stored))
        BY <2>2, <2>3, <4>1 DEF Labels
      <4> QED BY <3>2, <4>3, <4>4 DEF ParentHash
    <3> QED BY <3>1, <3>2
  <2>6. NextHash = PrefixHash(r, Len(Stored) + 1)
    BY <2>1, <2>2, <2>4, <2>5, PrefixHashFacts DEF NextHash
  <2> QED BY <2>1, <2>2, <2>3, <2>6 DEF Chained, BusyPC, Stored
<1>2. CASE StoreReuse
  BY <1>2, TypeFacts DEF StoreReuse, Chained, BusyPC, WrkType
<1>3. CASE StoreWrite
  <2>1. PICK r \in Req, b \in Block : r = wrk.req /\ b = wrk.blk
    BY <1>3, StoreGrowStep
  <2>2. tables'[r] = Append(tables[r], b) /\ wrk.pc = "write"
    BY <1>3, <2>1, StoreGrowStep DEF StoreWrite
  <2>3. wrk'.pc = "save" /\ wrk'.hash = wrk.hash /\ wrk'.req = r
    BY <1>3, <2>1, TypeFacts DEF StoreWrite, WrkType
  <2>4. tables[r] \in Seq(Block)
    BY TypeFacts
  <2>5. Len(tables'[r]) = Len(tables[r]) + 1
    BY <2>2, <2>4
  <2>6. wrk.hash = PrefixHash(r, Len(tables[r]) + 1)
    BY <2>1, <2>2 DEF Chained, BusyPC, Stored
  <2> QED BY <2>3, <2>5, <2>6 DEF Chained, BusyPC, Stored
<1>4. CASE WrkFlush \/ StoreAlloc \/ StoreAllocFails \/ StorePressure
  <2>1. /\ tables' = tables /\ wrk'.req = wrk.req /\ wrk'.hash = wrk.hash
        /\ wrk'.pc \in BusyPC => wrk.pc \in BusyPC
        /\ wrk'.pc = "save" => wrk.pc = "save"
    BY <1>4, TypeFacts DEF WrkFlush, StoreAlloc, StoreAllocFails, StorePressure, BusyPC, WrkType
  <2> QED BY <2>1 DEF Chained, Stored
<1>5. CASE StoreSave \/ StoreSaveFails \/ StoreIndex \/ StoreRelease \/ StoreClear
           \/ \E r \in Req : StoreStart(r)
  <2>1. wrk \in WrkType
    BY TypeFacts
  <2>2. wrk'.pc \in {"idle", "find", "index", "release", "clear"}
    <3>1. CASE StoreSave \/ StoreSaveFails \/ StoreIndex \/ StoreRelease \/ StoreClear
      <4>1. CASE StoreIndex
        <5>1. wrk' = [wrk EXCEPT !.pc = "release", !.tab = Stored]
          BY <4>1 DEF StoreIndex
        <5>2. wrk'.pc = "release"
          BY <2>1, <5>1 DEF WrkType
        <5> QED BY <5>2
      <4>2. CASE StoreSave \/ StoreRelease
        <5>1. \/ wrk' = [wrk EXCEPT !.pc = "find"]
              \/ wrk' = [wrk EXCEPT !.pc = "clear"]
          BY <4>2 DEF StoreSave, StoreRelease
        <5>2. wrk'.pc = "find" \/ wrk'.pc = "clear"
          BY <2>1, <5>1 DEF WrkType
        <5> QED BY <5>2
      <4>3. CASE StoreSaveFails
        <5>1. wrk' = [wrk EXCEPT !.pc = "index", !.swap = TRUE]
          BY <4>3 DEF StoreSaveFails
        <5>2. wrk'.pc = "index"
          BY <2>1, <5>1 DEF WrkType
        <5> QED BY <5>2
      <4>4. CASE StoreClear
        BY <4>4 DEF StoreClear, WrkIdle
      <4> QED BY <3>1, <4>1, <4>2, <4>3, <4>4
    <3>2. CASE \E r \in Req : StoreStart(r)
      BY <3>2 DEF StoreStart, WrkIdle
    <3> QED BY <1>5, <3>1, <3>2
  <2> QED BY <2>2 DEF Chained, BusyPC
<1>6. CASE EngineStep \/ SsdLose
  <2>1. CASE wrk.pc = "idle"
    <3>1. wrk' = wrk
      BY <1>6 DEF EngineStep, SsdLose, EngSwap, EngFire, FetchStart, Finish, Retire, Reject,
         WalkClaim, WalkRestore, WalkEnd, IndexLookup, IndexClaim, Unclaim, UnclaimEnd,
         TableBuild, ReconstructAll, ReconstructPart, Drop, DropEnd, WalkBack, Rebuilt,
         GiveUpTable, PreloadTimeout, EngDeleteStep, EngDeleteEnd, RetireEnd, Demote,
         EngFreeNext, EngFrame
    <3> QED BY <2>1, <3>1 DEF Chained, BusyPC
  <2>2. CASE wrk.pc # "idle"
    BY <1>6, <2>2, StoreLeftAlone DEF Chained, Stored
  <2> QED BY <2>1, <2>2
<1>7. CASE UNCHANGED vars
  BY <1>7 DEF vars, pagedVars, prefixVars, Chained, Stored
<1> QED BY <1>1, <1>2, <1>3, <1>4, <1>5, <1>6, <1>7 DEF PrefixNext, WorkerStep

\* The inductive invariant of the contents.
ContentUnlessRaced ==
    PinnedUnlessReused /\ (races = {} => ContentInv)

\* Nothing is stored or served at the start.
LEMMA ContentStarts ==
    ASSUME PrefixInit
    PROVE  ContentInv
<1>1. /\ eng = EngIdle /\ wrk = WrkIdle /\ ssd = <<>> /\ served = [r \in Req |-> <<>>]
      /\ tables = [r \in Req |-> <<>>]
  BY DEF PrefixInit, PoolInit, NoTables
<1>2. eng.claims = <<>> /\ wrk.pc = "idle"
  BY <1>1 DEF EngIdle, WrkIdle
<1>3. Labels
  BY <1>1, <1>2 DEF Labels
<1>4. Files
  BY <1>1 DEF Files
<1>5. Chained
  BY <1>2 DEF Chained, BusyPC
<1>6. Served
  BY <1>1 DEF Served, CorrectPrefix
<1> QED BY <1>3, <1>4, <1>5, <1>6 DEF ContentInv

\* The whole invariant, step by step.
LEMMA ContentStep ==
    ASSUME ContentUnlessRaced, "late_abort" \notin Env, [PrefixNext]_vars
    PROVE  ContentUnlessRaced'
<1>1. PrefixTypeInv /\ Calm /\ PinnedUnlessReused /\ PinnedUnlessReused'
  BY PinnedStep DEF ContentUnlessRaced, PinnedUnlessReused, Calm
<1>2. ASSUME races' = {} PROVE ContentInv'
  <2>1. races = {} /\ "reuse" \notin races'
    BY <1>2, RacesGrow
  <2>2. PinnedInv /\ Labels /\ Files /\ Chained /\ Served
    BY <2>1 DEF ContentUnlessRaced, PinnedUnlessReused, ContentInv
  <2>3. Tame
    BY <1>1, <2>1, <2>2, NextTame
  <2>4. \A x \in Block : Used(x) => hash'[x] = hash[x]
    BY <1>1, <2>2, <2>3, TameKeeps
  <2>5. Labels'
    BY <1>1, <1>2, <2>2, <2>4, LabelsStep
  <2>6. Files' /\ Chained' /\ Served'
    BY <1>1, <2>2, FilesStep, ChainedStep, ServedStep
  <2> QED BY <2>5, <2>6 DEF ContentInv
<1> QED BY <1>1, <1>2 DEF ContentUnlessRaced

\* As long as neither window was hit, the KV state reconstruct_cache gives to a
\* request is that of its own prompt, block for block: the claims of
\* fetch_cache, the match of the prefix index, the restores from the SSD, the
\* cuts of a partial reconstruction and of the walk-back, and the stores that
\* extend a fetched table never put a block where another prefix's belongs,
\* whatever is evicted, demoted, rejected or lost in between.
THEOREM PrefixesServedCorrect ==
    ASSUME "late_abort" \notin Env
    PROVE  PrefixSpec => []PrefixCorrect
<1>1. PrefixInit => ContentUnlessRaced
  BY PrefixStarts, PinnedStarts, ContentStarts DEF ContentUnlessRaced, PinnedUnlessReused
<1>2. ContentUnlessRaced /\ [PrefixNext]_vars => ContentUnlessRaced'
  BY ContentStep
<1>3. ContentUnlessRaced => PrefixCorrect
  BY DEF ContentUnlessRaced, ContentInv, Served, PrefixCorrect
<1> QED BY <1>1, <1>2, <1>3, PTL DEF PrefixSpec

=============================================================================
