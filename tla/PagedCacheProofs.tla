-------------------------- MODULE PagedCacheProofs --------------------------
(***************************************************************************)
(* Every operation of PagedCacheManager preserves the pool's inductive     *)
(* invariant, for every pool size, growth step, set of requests and of     *)
(* block contents. The lemmas are about single operations, so any client   *)
(* of the pool can use them. The last part carries the invariant through   *)
(* every step of PagedClient, any number of threads that make any calls in *)
(* any order; PrefixCacheProofs uses the lemmas for the pool's real        *)
(* clients.                                                                *)
(***************************************************************************)
EXTENDS PagedClient, FiniteSetTheorems, TLAPS

-----------------------------------------------------------------------------
(***************************************************************************)
(* The free queue as a set: what each queue operation does to the range of *)
(* a queue without repetitions.                                            *)
(***************************************************************************)

\* FreeKVCacheBlockQueue.append links one more block.
LEMMA AppendRange ==
    ASSUME NEW S, NEW q \in Seq(S), NEW b \in S, IsInjective(q), b \notin Range(q)
    PROVE  /\ Append(q, b) \in Seq(S)
           /\ IsInjective(Append(q, b))
           /\ Range(Append(q, b)) = Range(q) \union {b}
<1> DEFINE a == Append(q, b)
<1>1. /\ a \in Seq(S)
      /\ Len(a) = Len(q) + 1
      /\ \A i \in 1..Len(q) : a[i] = q[i]
      /\ a[Len(q) + 1] = b
  OBVIOUS
<1>2. DOMAIN q = 1..Len(q) /\ DOMAIN a = 1..(Len(q) + 1) /\ Len(q) \in Nat
  BY <1>1
<1>3. Range(a) = Range(q) \union {b}
  BY <1>1, <1>2 DEF Range
<1>4. IsInjective(a)
  BY <1>1, <1>2 DEF Range, IsInjective
<1> QED BY <1>1, <1>3, <1>4

\* popleft takes the head and nothing else.
LEMMA TailRange ==
    ASSUME NEW S, NEW q \in Seq(S), IsInjective(q), q # <<>>
    PROVE  /\ Head(q) \in Range(q) /\ Head(q) \in S
           /\ Tail(q) \in Seq(S)
           /\ IsInjective(Tail(q))
           /\ Range(Tail(q)) = Range(q) \ {Head(q)}
<1> DEFINE t == Tail(q)
<1>1. /\ t \in Seq(S)
      /\ Len(q) \in Nat \ {0}
      /\ Len(t) = Len(q) - 1
      /\ \A i \in 1..Len(t) : t[i] = q[i + 1]
      /\ Head(q) = q[1]
      /\ q[1] \in S
  OBVIOUS
<1>2. DOMAIN q = 1..Len(q) /\ DOMAIN t = 1..(Len(q) - 1)
  BY <1>1
<1>3. Range(t) \subseteq Range(q) \ {q[1]}
  BY <1>1, <1>2 DEF Range, IsInjective
<1>4. ASSUME NEW x \in Range(q) \ {q[1]} PROVE x \in Range(t)
  <2>1. PICK i \in 1..Len(q) : x = q[i]
    BY <1>2 DEF Range
  <2>2. i # 1
    BY <2>1, <1>4
  <2>3. i - 1 \in 1..Len(t) /\ t[i - 1] = q[i]
    BY <1>1, <2>1, <2>2
  <2> QED BY <2>1, <2>3, <1>1, <1>2 DEF Range
<1>5. IsInjective(t)
  BY <1>1, <1>2 DEF IsInjective
<1>6. Head(q) \in Range(q)
  BY <1>1, <1>2 DEF Range
<1> QED BY <1>1, <1>3, <1>4, <1>5, <1>6

\* append_n of blocks that are not queued yet.
LEMMA ConcatRange ==
    ASSUME NEW S, NEW q \in Seq(S), NEW n \in Seq(S), IsInjective(q), IsInjective(n),
           Range(q) \intersect Range(n) = {}
    PROVE  /\ q \o n \in Seq(S)
           /\ IsInjective(q \o n)
           /\ Range(q \o n) = Range(q) \union Range(n)
<1> DEFINE c == q \o n
<1>1. /\ c \in Seq(S)
      /\ Len(q) \in Nat /\ Len(n) \in Nat
      /\ Len(c) = Len(q) + Len(n)
      /\ \A i \in 1..Len(q) : c[i] = q[i]
      /\ \A i \in 1..Len(n) : c[Len(q) + i] = n[i]
  OBVIOUS
<1>2. DOMAIN q = 1..Len(q) /\ DOMAIN n = 1..Len(n) /\ DOMAIN c = 1..Len(q) + Len(n)
  BY <1>1
<1>3. \A i \in DOMAIN c : \/ i \in DOMAIN q /\ c[i] = q[i]
                          \/ i - Len(q) \in DOMAIN n /\ c[i] = n[i - Len(q)]
  BY <1>1, <1>2
<1>4. Range(c) \subseteq Range(q) \union Range(n)
  BY <1>3 DEF Range
<1>5. Range(q) \subseteq Range(c)
  BY <1>1, <1>2 DEF Range
<1>6. ASSUME NEW x \in Range(n) PROVE x \in Range(c)
  <2>1. PICK i \in 1..Len(n) : x = n[i]
    BY <1>2 DEF Range
  <2>2. Len(q) + i \in DOMAIN c /\ c[Len(q) + i] = x
    BY <2>1, <1>1, <1>2
  <2> QED BY <2>2 DEF Range
<1>7. ASSUME NEW i \in DOMAIN c, NEW j \in DOMAIN c, c[i] = c[j] PROVE i = j
  <2>1. CASE i \in DOMAIN q /\ j \in DOMAIN q
    BY <2>1, <1>1, <1>2, <1>7 DEF IsInjective
  <2>2. CASE i \notin DOMAIN q /\ j \notin DOMAIN q
    <3>1. /\ i - Len(q) \in DOMAIN n /\ c[i] = n[i - Len(q)]
          /\ j - Len(q) \in DOMAIN n /\ c[j] = n[j - Len(q)]
      BY <2>2, <1>3
    <3>2. i - Len(q) = j - Len(q)
      BY <3>1, <1>7 DEF IsInjective
    <3> QED BY <3>2, <1>1, <1>2
  <2>3. CASE i \in DOMAIN q /\ j \notin DOMAIN q
    <3>1. c[i] \in Range(q)
      BY <2>3, <1>1, <1>2 DEF Range
    <3>2. j - Len(q) \in DOMAIN n /\ c[j] = n[j - Len(q)]
      BY <2>3, <1>3
    <3>3. c[j] \in Range(n)
      BY <3>2 DEF Range
    <3> QED BY <3>1, <3>3, <1>7
  <2>4. CASE i \notin DOMAIN q /\ j \in DOMAIN q
    <3>1. c[j] \in Range(q)
      BY <2>4, <1>1, <1>2 DEF Range
    <3>2. i - Len(q) \in DOMAIN n /\ c[i] = n[i - Len(q)]
      BY <2>4, <1>3
    <3>3. c[i] \in Range(n)
      BY <3>2 DEF Range
    <3> QED BY <3>1, <3>3, <1>7
  <2> QED BY <2>1, <2>2, <2>3, <2>4
<1> QED BY <1>1, <1>4, <1>5, <1>6, <1>7 DEF IsInjective

\* popleft_n splits a queue into the blocks taken and the ones left.
LEMMA SplitRange ==
    ASSUME NEW S, NEW q \in Seq(S), IsInjective(q), NEW n \in Nat, n <= Len(q)
    PROVE  /\ SubSeq(q, n + 1, Len(q)) \in Seq(S)
           /\ IsInjective(SubSeq(q, n + 1, Len(q)))
           /\ {q[i] : i \in 1..n} \subseteq S
           /\ {q[i] : i \in 1..n} \subseteq Range(q)
           /\ Range(SubSeq(q, n + 1, Len(q))) = Range(q) \ {q[i] : i \in 1..n}
<1> DEFINE rest == SubSeq(q, n + 1, Len(q))
           took == {q[i] : i \in 1..n}
<1>1. /\ Len(q) \in Nat
      /\ rest \in Seq(S)
      /\ Len(rest) = Len(q) - n
      /\ \A i \in 1..(Len(q) - n) : rest[i] = q[n + i]
      /\ \A i \in 1..Len(q) : q[i] \in S
  <2>1. /\ Len(q) \in Nat /\ \A i \in 1..Len(q) : q[i] \in S
    OBVIOUS
  <2>2. rest \in Seq(S)
    BY <2>1
  <2>3. Len(rest) = Len(q) - n
    BY <2>1
  <2>4. \A i \in 1..(Len(q) - n) : rest[i] = q[n + i]
    BY <2>1
  <2> QED BY <2>1, <2>2, <2>3, <2>4
<1>2. DOMAIN q = 1..Len(q) /\ DOMAIN rest = 1..(Len(q) - n)
  BY <1>1
<1> HIDE DEF rest
<1>3. took \subseteq Range(q) /\ took \subseteq S
  <2>1. \A i \in 1..n : i \in 1..Len(q)
    BY <1>1
  <2> QED BY <1>1, <1>2, <2>1 DEF Range
<1>4. IsInjective(rest)
  <2> SUFFICES ASSUME NEW i \in 1..(Len(q) - n), NEW j \in 1..(Len(q) - n),
                      rest[i] = rest[j]
               PROVE  i = j
    BY <1>2 DEF IsInjective
  <2>1. n + i \in 1..Len(q) /\ n + j \in 1..Len(q)
    BY <1>1
  <2>2. q[n + i] = q[n + j]
    BY <1>1
  <2>3. n + i = n + j
    BY <1>2, <2>1, <2>2 DEF IsInjective
  <2> QED BY <2>3
<1>5. ASSUME NEW x \in Range(rest) PROVE x \in Range(q) \ took
  <2>1. PICK i \in 1..(Len(q) - n) : x = rest[i]
    BY <1>2, <1>5 DEF Range
  <2>2. n + i \in 1..Len(q)
    BY <1>1
  <2>3. x = q[n + i]
    BY <1>1, <2>1
  <2>4. ASSUME NEW j \in 1..n PROVE q[j] # x
    <3>1. j \in 1..Len(q) /\ j # n + i
      BY <1>1
    <3> QED BY <1>2, <2>2, <2>3, <3>1 DEF IsInjective
  <2> QED BY <1>2, <2>2, <2>3, <2>4 DEF Range
<1>6. ASSUME NEW x \in Range(q) \ took PROVE x \in Range(rest)
  <2>1. PICK i \in 1..Len(q) : x = q[i]
    BY <1>2 DEF Range
  <2>2. i \notin 1..n
    BY <2>1, <1>6
  <2>3. i - n \in 1..(Len(q) - n) /\ n + (i - n) = i
    BY <2>2, <1>1
  <2>4. rest[i - n] = x
    BY <1>1, <2>1, <2>3
  <2> QED BY <1>2, <2>3, <2>4 DEF Range
<1> QED BY <1>1, <1>3, <1>4, <1>5, <1>6 DEF rest

\* remove unlinks one block.
LEMMA RemoveRange ==
    ASSUME NEW S, NEW q \in Seq(S), IsInjective(q), NEW b \in Range(q)
    PROVE  /\ QueueRemove(q, b) \in Seq(S)
           /\ IsInjective(QueueRemove(q, b))
           /\ Range(QueueRemove(q, b)) = Range(q) \ {b}
<1> DEFINE k == CHOOSE j \in DOMAIN q : q[j] = b
           m == Len(q) - 1
           r == [j \in 1..m |-> IF j < k THEN q[j] ELSE q[j + 1]]
<1>1. Len(q) \in Nat /\ DOMAIN q = 1..Len(q) /\ \A i \in 1..Len(q) : q[i] \in S
  OBVIOUS
<1>2. k \in 1..Len(q) /\ q[k] = b
  BY <1>1 DEF Range
<1>3. QueueRemove(q, b) = r
  BY DEF QueueRemove
<1> HIDE DEF k
<1>4. m \in Nat
  BY <1>1, <1>2
<1>5. \A j \in 1..m : r[j] \in S
  BY <1>1, <1>2, <1>4
<1>6. r \in Seq(S) /\ DOMAIN r = 1..m
  BY <1>4, <1>5
<1>7. ASSUME NEW i \in 1..m, NEW j \in 1..m, r[i] = r[j] PROVE i = j
  <2> DEFINE p(x) == IF x < k THEN x ELSE x + 1
  <2>1. p(i) \in DOMAIN q /\ p(j) \in DOMAIN q /\ q[p(i)] = q[p(j)]
    BY <1>1, <1>2, <1>4, <1>7
  <2>2. p(i) = p(j)
    BY <2>1 DEF IsInjective
  <2> QED BY <2>2, <1>2, <1>4
<1>8. ASSUME NEW x \in Range(r) PROVE x \in Range(q) \ {b}
  <2>1. PICK i \in 1..m : x = r[i]
    BY <1>6 DEF Range
  <2> DEFINE p == IF i < k THEN i ELSE i + 1
  <2>2. p \in DOMAIN q /\ x = q[p] /\ p # k
    BY <2>1, <1>1, <1>2, <1>4
  <2> QED BY <2>2, <1>1, <1>2 DEF Range, IsInjective
<1>9. ASSUME NEW x \in Range(q) \ {b} PROVE x \in Range(r)
  <2>1. PICK i \in 1..Len(q) : x = q[i]
    BY <1>1 DEF Range
  <2>2. i # k
    BY <2>1, <1>2, <1>9
  <2> DEFINE p == IF i < k THEN i ELSE i - 1
  <2>3. p \in 1..m /\ r[p] = x
    BY <2>1, <2>2, <1>1, <1>2, <1>4
  <2> QED BY <2>3, <1>6 DEF Range
<1> QED BY <1>3, <1>6, <1>7, <1>8, <1>9 DEF IsInjective

\* _grow_blocks appends the ids after the last existing one, within the cap.
LEMMA NewBlocksRange ==
    ASSUME NEW n \in Nat, count \in 0..MaxBlocks, MaxBlocks \in Nat
    PROVE  /\ NewBlocks(n) \in Seq(Block)
           /\ IsInjective(NewBlocks(n))
           /\ Len(NewBlocks(n)) = Min2(n, MaxBlocks - count)
           /\ Min2(n, MaxBlocks - count) \in 0..(MaxBlocks - count)
           /\ Range(NewBlocks(n)) = count .. (count + Min2(n, MaxBlocks - count) - 1)
<1> DEFINE m == Min2(n, MaxBlocks - count)
           w == [i \in 1..m |-> count + i - 1]
<1>1. m \in 0..(MaxBlocks - count)
  BY DEF Min2
<1> HIDE DEF m
<1>2. \A i \in 1..m : w[i] \in Block
  BY <1>1 DEF Block
<1>3. w \in Seq(Block) /\ DOMAIN w = 1..m /\ Len(w) = m
  BY <1>1, <1>2
<1>4. IsInjective(w)
  BY <1>1, <1>3 DEF IsInjective
<1>5. Range(w) = count .. (count + m - 1)
  <2>1. \A x \in Range(w) : x \in count .. (count + m - 1)
    BY <1>1, <1>3 DEF Range
  <2>2. ASSUME NEW x \in count .. (count + m - 1) PROVE x \in Range(w)
    <3>1. x - count + 1 \in 1..m /\ w[x - count + 1] = x
      BY <1>1
    <3> QED BY <3>1, <1>3 DEF Range
  <2> QED BY <2>1, <2>2
<1> QED BY <1>1, <1>3, <1>4, <1>5 DEF NewBlocks, m

-----------------------------------------------------------------------------
(***************************************************************************)
(* Facts about the operators the operations are built from.                *)
(***************************************************************************)

\* The null block exists: initial_blocks is at least 1.
LEMMA NullBlock ==
    /\ MaxBlocks \in Nat \ {0}
    /\ InitialBlocks \in Nat \ {0} /\ InitialBlocks <= MaxBlocks
    /\ Null \in Block
    /\ Block \subseteq Nat
    /\ \A n \in 0..MaxBlocks : 0 .. (n - 1) \subseteq Block
BY PoolAssumption DEF PoolAssumption, Null, Block

\* A chain hash is a hash, and is never the absent one.
LEMMA HashFacts ==
    /\ NoHash \in Hash
    /\ \A h \in Chains : h \in Hash /\ h # NoHash
    /\ \A h \in Hash, t \in Tok : /\ compute_block_hash(h, t) \in Hash
                                  /\ compute_block_hash(h, t) # NoHash
<1>1. NoHash \in Hash
  BY DEF NoHash, Hash
<1>2. ASSUME NEW h \in Chains PROVE h \in Hash /\ h # NoHash
  <2>1. PICK n \in 1..MaxDepth : h \in [1..n -> Tok]
    BY <1>2 DEF Chains
  <2>2. n \in Nat /\ n >= 1
    BY PoolAssumption DEF PoolAssumption
  <2>3. h \in Seq(Tok) /\ Len(h) = n
    BY <2>1, <2>2
  <2> QED BY <2>2, <2>3 DEF Hash, NoHash
<1>3. ASSUME NEW h \in Hash, NEW t \in Tok
      PROVE  compute_block_hash(h, t) \in Hash /\ compute_block_hash(h, t) # NoHash
  <2>1. h \in Seq(Tok) /\ compute_block_hash(h, t) = Append(h, t)
    BY DEF Hash, compute_block_hash
  <2>2. Append(h, t) \in Seq(Tok) /\ Len(Append(h, t)) = Len(h) + 1 /\ Len(h) \in Nat
    BY <2>1
  <2>3. Append(h, t) # << >>
    BY <2>2
  <2> QED BY <2>1, <2>2, <2>3 DEF Hash, NoHash
<1> QED BY <1>1, <1>2, <1>3

\* The cascade only takes unreferenced blocks.
LEMMA OrphanFacts ==
    ASSUME NEW m, NEW roots
    PROVE  /\ Orphans(m, roots) \subseteq Block
           /\ \A b \in Orphans(m, roots) : ref[b] <= 0
BY DEF Orphans

\* A table names a block a finite number of times.
LEMMA OccurrencesNat ==
    ASSUME NEW s \in Seq(Block), NEW b
    PROVE  Occurrences(s, b) \in Nat
<1>1. Len(s) \in Nat /\ DOMAIN s = 1..Len(s)
  OBVIOUS
<1>2. IsFiniteSet(1..Len(s))
  BY <1>1, FS_Interval
<1>3. {i \in DOMAIN s : s[i] = b} \in SUBSET (1..Len(s))
  BY <1>1
<1>4. IsFiniteSet({i \in DOMAIN s : s[i] = b})
  BY <1>2, <1>3, FS_Subset
<1> QED BY <1>4, FS_CardinalityType DEF Occurrences

-----------------------------------------------------------------------------
(***************************************************************************)
(* Every operation keeps the inductive invariant, leaves the entries of    *)
(* referenced blocks alone and queues what it takes out of the index.      *)
(***************************************************************************)
SafeStep == PoolInv' /\ EntriesKept /\ LossesQueued

\* A block outside alloc is unreferenced, created or not.
LEMMA IdleOutside ==
    ASSUME PoolInv
    PROVE  \A b \in Block \ alloc : ref[b] <= 0
<1> USE DEF PoolInv
<1>1. \A b \in Block : b \in Nat /\ (b \in 0 .. count - 1 \/ b >= count)
  BY NullBlock DEF PoolTypeOK
<1> QED BY <1>1 DEF Conservation, FreeIsDead, RefSound

\* An operation that only moves reference counts.
LEMMA RefOnly ==
    ASSUME PoolInv,
           UNCHANGED <<count, freeQ, alloc, hash, parent, hashMap, pending>>,
           ref' \in [Block -> Int],
           ref'[Null] >= 1,
           \A b \in alloc : ref'[b] >= 0,
           \A b \in Block \ alloc : ref'[b] <= 0
    PROVE  SafeStep
<1> USE DEF PoolInv
<1>1. PoolTypeOK'
  BY DEF PoolTypeOK
<1>2. Conservation'
  BY DEF Conservation
<1>3. Range(freeQ) \subseteq Block \ alloc
  BY DEF PoolTypeOK, Conservation, Range
<1>4. FreeIsDead'
  BY <1>3 DEF FreeIsDead
<1>5. IndexSound'
  BY DEF IndexSound
<1>6. \A b \in Block : b >= count => b \notin alloc
  BY NullBlock DEF Conservation, PoolTypeOK
<1>7. RefSound'
  BY <1>6 DEF RefSound
<1>8. EntriesKept /\ LossesQueued
  BY DEF EntriesKept, LossesQueued
<1> QED BY <1>1, <1>2, <1>4, <1>5, <1>7, <1>8 DEF SafeStep

\* Nothing of the pool changes.
LEMMA PoolUnchanged ==
    ASSUME PoolInv, UNCHANGED poolVars
    PROVE  SafeStep
<1> USE DEF poolVars, PoolInv
<1>1. PoolTypeOK' /\ Conservation' /\ FreeIsDead' /\ IndexSound' /\ RefSound'
  BY DEF PoolTypeOK, Conservation, FreeIsDead, IndexSound, RefSound
<1> QED BY <1>1 DEF SafeStep, EntriesKept, LossesQueued

-----------------------------------------------------------------------------
(***************************************************************************)
(* Allocation.                                                             *)
(***************************************************************************)

\* The queue an allocation pops from, grown if it was empty: a queue of dead,
\* unregistered blocks that together with alloc makes up the grown pool.
LEMMA AllocQueueFacts ==
    ASSUME PoolInv
    PROVE  /\ AllocQueue \in Seq(Block)
           /\ IsInjective(AllocQueue)
           /\ Range(AllocQueue) \intersect alloc = {}
           /\ Range(AllocQueue) \union alloc = 0 .. AllocCount - 1
           /\ AllocCount \in count .. MaxBlocks
           /\ \A b \in Range(AllocQueue) : b # Null /\ ref[b] <= 0
<1> USE DEF PoolInv
<1>1. count \in 1..MaxBlocks /\ MaxBlocks \in Nat
  BY NullBlock DEF PoolTypeOK
<1>2. CASE freeQ = <<>>
  <2>1. GrowChunk \in Nat
    BY PoolAssumption DEF PoolAssumption
  <2>2. /\ AllocQueue = NewBlocks(GrowChunk)
        /\ AllocCount = count + Min2(GrowChunk, MaxBlocks - count)
    BY <1>2 DEF AllocQueue, AllocCount
  <2>3. /\ NewBlocks(GrowChunk) \in Seq(Block)
        /\ IsInjective(NewBlocks(GrowChunk))
        /\ Min2(GrowChunk, MaxBlocks - count) \in 0..(MaxBlocks - count)
        /\ Range(NewBlocks(GrowChunk)) = count .. AllocCount - 1
    BY <1>1, <2>1, <2>2, NewBlocksRange
  <2>4. alloc = 0 .. count - 1
    <3>1. Range(freeQ) = {}
      BY <1>2 DEF Range
    <3> QED BY <3>1 DEF Conservation
  <2>5. AllocCount \in count..MaxBlocks
    BY <1>1, <2>2, <2>3
  <2>6. Range(AllocQueue) = count .. AllocCount - 1
    BY <2>2, <2>3
  <2>7. \A b \in Range(AllocQueue) : b # Null /\ b \in Block /\ b >= count
    BY <1>1, <2>5, <2>6 DEF Null, Block
  <2> QED BY <1>1, <2>2, <2>3, <2>4, <2>5, <2>6, <2>7 DEF RefSound
<1>3. CASE freeQ # <<>>
  BY <1>1, <1>3 DEF AllocQueue, AllocCount, PoolTypeOK, Conservation, FreeIsDead
<1> QED BY <1>2, <1>3

\* An allocation takes a dead, unregistered block and keeps the pool whole.
LEMMA AllocationFacts ==
    ASSUME PoolInv, NEW b, AllocateBlockInternal(b)
    PROVE  /\ b \in Block /\ b # Null /\ b \notin alloc
           /\ \A e \in hashMap : e[2] # b
           /\ freeQ' \in Seq(Block) /\ alloc' \subseteq Block
           /\ count' \in InitialBlocks .. MaxBlocks /\ count <= count'
           /\ Conservation'
           /\ b \notin Range(freeQ')
           /\ \A x \in Range(freeQ') : x # Null /\ ref[x] <= 0
           /\ \A x \in Block : x >= count' => x >= count /\ x # b
<1> USE DEF PoolInv, AllocateBlockInternal, CanAllocate
<1> DEFINE q == AllocQueue
<1>1. /\ q \in Seq(Block) /\ q # <<>> /\ b = Head(q)
      /\ IsInjective(q)
      /\ Range(q) \intersect alloc = {}
      /\ Range(q) \union alloc = 0 .. AllocCount - 1
      /\ AllocCount \in count .. MaxBlocks
      /\ \A x \in Range(q) : x # Null /\ ref[x] <= 0
  BY AllocQueueFacts
<1>2. freeQ' = Tail(q) /\ count' = AllocCount /\ alloc' = alloc \union {b}
  OBVIOUS
<1> HIDE DEF q, AllocateBlockInternal, CanAllocate
<1>3. /\ b \in Range(q) /\ b \in Block
      /\ Tail(q) \in Seq(Block) /\ IsInjective(Tail(q))
      /\ Range(Tail(q)) = Range(q) \ {b}
  BY <1>1, TailRange
<1>4. b # Null /\ b \notin alloc
  BY <1>1, <1>3
<1>5. \A e \in hashMap : e[2] # b
  BY <1>4 DEF IndexSound
<1>6. freeQ' \in Seq(Block) /\ alloc' \subseteq Block
  BY <1>2, <1>3 DEF PoolTypeOK
<1>7. count \in Nat /\ count >= InitialBlocks /\ InitialBlocks \in Nat /\ MaxBlocks \in Nat
  BY NullBlock DEF PoolTypeOK
<1>8. count' \in InitialBlocks .. MaxBlocks /\ count <= count'
  BY <1>1, <1>2, <1>7
<1>9. Conservation'
  <2>1. IsInjective(freeQ') /\ Range(freeQ') = Range(q) \ {b}
    BY <1>2, <1>3
  <2>2. Range(freeQ') \intersect alloc' = {}
    BY <1>1, <1>2, <2>1
  <2>3. Range(freeQ') \union alloc' = 0 .. count' - 1
    BY <1>1, <1>2, <1>3, <2>1
  <2> QED BY <2>1, <2>2, <2>3 DEF Conservation
<1>10. b \in Nat /\ count' \in Nat /\ b < count'
  <2>1. AllocCount \in Nat
    BY <1>1, <1>7
  <2>2. b \in Nat /\ b < AllocCount
    BY <1>1, <1>3, <2>1
  <2> QED BY <1>2, <2>1, <2>2
<1>11. \A x \in Block : x >= count' => x >= count /\ x # b
  <2> SUFFICES ASSUME NEW x \in Block, x >= count' PROVE x >= count /\ x # b
    OBVIOUS
  <2>1. x \in Nat
    BY NullBlock
  <2> QED BY <1>7, <1>8, <1>10, <2>1
<1> QED BY <1>1, <1>2, <1>3, <1>4, <1>5, <1>6, <1>8, <1>9, <1>11

\* allocate_block hands out a block nobody else can reach.
LEMMA AllocateBlockSafe ==
    ASSUME PoolInv, NEW b, allocate_block(b)
    PROVE  SafeStep
<1> USE DEF PoolInv
<1>1. AllocateBlockInternal(b) /\ ref' = [ref EXCEPT ![b] = 1]
  BY DEF allocate_block
<1>2. UNCHANGED <<hash, parent, hashMap, pending>>
  BY DEF allocate_block
<1>3. /\ b \in Block /\ b # Null /\ b \notin alloc
      /\ \A e \in hashMap : e[2] # b
      /\ freeQ' \in Seq(Block) /\ alloc' \subseteq Block
      /\ count' \in InitialBlocks .. MaxBlocks /\ count <= count'
      /\ Conservation'
      /\ b \notin Range(freeQ')
      /\ \A x \in Range(freeQ') : x # Null /\ ref[x] <= 0
      /\ \A x \in Block : x >= count' => x >= count /\ x # b
      /\ alloc' = alloc \union {b}
  BY <1>1, AllocationFacts DEF AllocateBlockInternal
<1>4. ref' \in [Block -> Int] /\ ref'[b] = 1 /\ \A x \in Block \ {b} : ref'[x] = ref[x]
  BY <1>1, <1>3 DEF PoolTypeOK
<1>5. PoolTypeOK'
  BY <1>2, <1>3, <1>4 DEF PoolTypeOK
<1>6. IndexSound'
  BY <1>2, <1>3 DEF IndexSound
<1>7. Range(freeQ') \subseteq Block
  BY <1>3 DEF Range
<1>8. FreeIsDead'
  BY <1>2, <1>3, <1>4, <1>6, <1>7 DEF FreeIsDead, IndexSound, Conservation
<1>9. RefSound'
  BY <1>3, <1>4, NullBlock DEF RefSound, PoolTypeOK
<1>10. EntriesKept /\ LossesQueued
  BY <1>2 DEF EntriesKept, LossesQueued
<1> QED BY <1>3, <1>5, <1>6, <1>8, <1>9, <1>10 DEF SafeStep

\* get_new_blocks, whether it returns blocks or raises after growing the pool.
LEMMA GetNewBlocksSafe ==
    ASSUME PoolInv, NEW n \in 1..MaxBlocks, get_new_blocks(n)
    PROVE  SafeStep
<1> USE DEF PoolInv
<1> DEFINE need  == (n - Len(freeQ)) + GrowExtra
           grown == IF n > Len(freeQ) THEN NewBlocks(need) ELSE <<>>
           q     == freeQ \o grown
           taken == {q[i] : i \in 1..n}
<1>1. /\ count \in 1..MaxBlocks /\ MaxBlocks \in Nat /\ n \in Nat
      /\ freeQ \in Seq(Block) /\ Len(freeQ) \in Nat
  BY NullBlock DEF PoolTypeOK
<1>2. /\ grown \in Seq(Block) /\ IsInjective(grown)
      /\ count + Len(grown) \in count..MaxBlocks
      /\ Range(grown) = count .. (count + Len(grown) - 1)
  <2>1. CASE n > Len(freeQ)
    <3>1. need \in Nat
      BY <1>1, <2>1, PoolAssumption DEF PoolAssumption
    <3> HIDE DEF need
    <3>2. count \in 0..MaxBlocks
      BY <1>1
    <3>3. /\ NewBlocks(need) \in Seq(Block)
          /\ IsInjective(NewBlocks(need))
          /\ Len(NewBlocks(need)) = Min2(need, MaxBlocks - count)
          /\ Min2(need, MaxBlocks - count) \in 0..(MaxBlocks - count)
          /\ Range(NewBlocks(need)) = count .. (count + Min2(need, MaxBlocks - count) - 1)
      BY <1>1, <3>1, <3>2, NewBlocksRange
    <3>4. grown = NewBlocks(need)
      BY <2>1
    <3> HIDE DEF grown
    <3> QED BY <1>1, <3>3, <3>4
  <2>2. CASE ~(n > Len(freeQ))
    <3>1. grown = <<>>
      BY <2>2
    <3>2. Range(<<>>) = {} /\ IsInjective(<<>>) /\ <<>> \in Seq(Block) /\ Len(<<>>) = 0
      BY DEF Range, IsInjective
    <3> HIDE DEF grown
    <3> QED BY <1>1, <3>1, <3>2
  <2> QED BY <2>1, <2>2
<1>3. /\ count' = count + Len(grown)
      /\ IF n > Len(q)
           THEN freeQ' = q /\ alloc' = alloc /\ ref' = ref
           ELSE /\ freeQ' = SubSeq(q, n + 1, Len(q))
                /\ alloc' = alloc \union taken
                /\ ref'   = [b \in Block |-> IF b \in taken THEN 1 ELSE ref[b]]
  BY DEF get_new_blocks
<1>4. UNCHANGED <<hash, parent, hashMap, pending>>
  BY DEF get_new_blocks
<1> HIDE DEF grown
<1>5. \A b \in Range(freeQ) \union alloc : b \in 0 .. count - 1
  BY DEF Conservation
<1>6. Range(freeQ) \intersect Range(grown) = {} /\ Range(grown) \intersect alloc = {}
  BY <1>1, <1>2, <1>5
<1>7. q \in Seq(Block) /\ IsInjective(q) /\ Range(q) = Range(freeQ) \union Range(grown)
  BY <1>1, <1>2, <1>6, ConcatRange DEF Conservation
<1> HIDE DEF q
<1>8. Range(q) \intersect alloc = {} /\ Range(q) \union alloc = 0 .. count' - 1
  <2>1. Range(freeQ) \union alloc = 0 .. count - 1 /\ Range(freeQ) \intersect alloc = {}
    BY DEF Conservation
  <2>2. (0 .. count - 1) \union (count .. (count + Len(grown) - 1)) = 0 .. count' - 1
    BY <1>1, <1>2, <1>3
  <2> QED BY <1>2, <1>6, <1>7, <2>1, <2>2
<1>9. \A b \in Range(q) : b \in Block /\ b # Null /\ ref[b] <= 0
  <2>1. \A b \in Range(grown) : b # Null /\ b >= count /\ b \in Block
    BY <1>1, <1>2 DEF Null, Block
  <2>2. \A b \in Range(freeQ) : b \in Block
    BY <1>1 DEF Range
  <2> QED BY <1>7, <2>1, <2>2 DEF FreeIsDead, RefSound
<1>10. count' \in InitialBlocks..MaxBlocks /\ count <= count'
  BY <1>1, <1>2, <1>3, NullBlock DEF PoolTypeOK
<1>11. \A b \in Block : b >= count' => b >= count /\ b \notin Range(q)
  <2>1. \A b \in Block : b \in Nat
    BY NullBlock
  <2> QED BY <1>1, <1>8, <1>10, <2>1
<1>12. EntriesKept /\ LossesQueued
  BY <1>4 DEF EntriesKept, LossesQueued
<1>13. CASE n > Len(q)
  <2>1. freeQ' = q /\ alloc' = alloc /\ ref' = ref
    BY <1>3, <1>13
  <2>2. PoolTypeOK'
    BY <1>4, <1>7, <1>10, <2>1 DEF PoolTypeOK
  <2>3. Conservation'
    BY <1>7, <1>8, <2>1 DEF Conservation
  <2>4. IndexSound'
    BY <1>4, <2>1 DEF IndexSound
  <2>5. FreeIsDead'
    BY <1>8, <1>9, <2>1, <2>4 DEF FreeIsDead, IndexSound
  <2>6. RefSound'
    BY <1>11, <2>1 DEF RefSound
  <2> QED BY <1>12, <2>2, <2>3, <2>4, <2>5, <2>6 DEF SafeStep
<1>14. CASE n <= Len(q)
  <2> DEFINE rest == SubSeq(q, n + 1, Len(q))
  <2>1. /\ freeQ' = rest /\ alloc' = alloc \union taken
        /\ ref' = [b \in Block |-> IF b \in taken THEN 1 ELSE ref[b]]
    <3>1. Len(q) \in Nat
      BY <1>7
    <3> QED BY <1>1, <1>3, <1>14, <3>1
  <2>2. /\ rest \in Seq(Block) /\ IsInjective(rest)
        /\ taken \subseteq Block /\ taken \subseteq Range(q)
        /\ Range(rest) = Range(q) \ taken
    BY <1>1, <1>7, <1>14, SplitRange
  <2> HIDE DEF rest, taken
  <2>3. PoolTypeOK'
    BY <1>4, <1>10, <2>1, <2>2 DEF PoolTypeOK
  <2>4. Conservation'
    <3>1. Range(freeQ') \intersect alloc' = {}
      BY <1>8, <2>1, <2>2
    <3>2. Range(freeQ') \union alloc' = 0 .. count' - 1
      BY <1>8, <2>1, <2>2
    <3> QED BY <2>1, <2>2, <3>1, <3>2 DEF Conservation
  <2>5. IndexSound'
    BY <1>4, <2>1 DEF IndexSound
  <2>6. \A b \in Range(freeQ') : b \in Block /\ b # Null /\ ref'[b] <= 0
    BY <1>9, <2>1, <2>2
  <2>7. FreeIsDead'
    BY <2>4, <2>5, <2>6 DEF FreeIsDead, IndexSound, Conservation
  <2>8. RefSound'
    <3>1. Null \notin taken
      BY <1>9, <2>2
    <3>2. ref'[Null] >= 1
      BY <2>1, <3>1, NullBlock DEF RefSound
    <3>3. \A b \in alloc' : ref'[b] >= 0
      BY <2>1, <2>2 DEF RefSound, PoolTypeOK
    <3>4. \A b \in Block : b >= count' => ref'[b] <= 0
      BY <1>11, <2>1, <2>2 DEF RefSound
    <3> QED BY <3>2, <3>3, <3>4 DEF RefSound
  <2> QED BY <1>12, <2>3, <2>4, <2>5, <2>7, <2>8 DEF SafeStep
<1>15. Len(q) \in Nat
  BY <1>7
<1> QED BY <1>1, <1>13, <1>14, <1>15

-----------------------------------------------------------------------------
(***************************************************************************)
(* Forgetting contents.                                                    *)
(***************************************************************************)

\* Dropping the entries of the blocks in S while resetting the hashes of those
\* in R leaves a sound index, as long as no registered block is reset without
\* losing its entry.
LEMMA ForgetFacts ==
    ASSUME PoolInv, NEW S \in SUBSET Block, NEW R \in SUBSET Block,
           \A e \in hashMap : e[2] \in R => e[2] \in S,
           hashMap' = hashMap \ Entries(S),
           ResetHash(R)
    PROVE  /\ hash' \in [Block -> Hash] /\ parent' \in [Block -> Hash]
           /\ hashMap' \subseteq hashMap
           /\ \A e \in hashMap' : /\ e[1] # NoHash
                                  /\ hash'[e[2]] = e[1]
                                  /\ e[2] \in (alloc \ {Null}) \ S
           /\ \A e \in hashMap \ hashMap' : e[2] \in S
<1> USE DEF PoolInv
<1>1. hash' \in [Block -> Hash] /\ parent' \in [Block -> Hash]
  BY HashFacts DEF ResetHash, PoolTypeOK
<1>2. \A e \in hashMap : e = <<e[1], e[2]>> /\ e[2] \in Block
  BY DEF PoolTypeOK
<1>3. \A e \in hashMap : e[2] \in S => e \in Entries(S)
  BY <1>2 DEF IndexSound, Entries
<1>4. \A e \in hashMap' : e \in hashMap /\ e[2] \notin S
  BY <1>3
<1>5. \A e \in hashMap' : hash'[e[2]] = e[1]
  BY <1>2, <1>4 DEF ResetHash, IndexSound
<1>6. ASSUME NEW e \in hashMap \ hashMap' PROVE e[2] \in S
  <2>1. PICK b \in S : e = <<hash[b], b>>
    BY DEF Entries
  <2> QED BY <2>1
<1> QED BY <1>1, <1>4, <1>5, <1>6 DEF IndexSound

\* A block leaves alloc for the tail of the free queue, and the index loses it
\* and unreferenced blocks only: the common shape of free_block's last
\* reference, handle_memory_pressure and evict_block_permanently.
LEMMA RetireSafe ==
    ASSUME PoolInv, NEW b \in alloc, b # Null,
           NEW S \in SUBSET Block, NEW R \in SUBSET Block,
           b \in S,
           \A x \in S \ {b} : ref[x] <= 0,
           \A e \in hashMap : e[2] \in R => e[2] \in S,
           hashMap' = hashMap \ Entries(S),
           ResetHash(R),
           \A e \in hashMap : e[2] \in S => e[2] \in pending',
           pending' \subseteq Block,
           alloc' = alloc \ {b},
           freeQ' = Append(freeQ, b),
           count' = count,
           ref' \in [Block -> Int],
           ref'[b] <= 0,
           \A x \in Block \ {b} : ref'[x] = ref[x]
    PROVE  SafeStep
<1> USE DEF PoolInv
<1>1. /\ hash' \in [Block -> Hash] /\ parent' \in [Block -> Hash]
      /\ hashMap' \subseteq hashMap
      /\ \A e \in hashMap' : /\ e[1] # NoHash
                             /\ hash'[e[2]] = e[1]
                             /\ e[2] \in (alloc \ {Null}) \ S
      /\ \A e \in hashMap \ hashMap' : e[2] \in S
  BY ForgetFacts
<1>2. b \in Block /\ b \notin Range(freeQ)
  BY DEF PoolTypeOK, Conservation
<1>3. /\ freeQ' \in Seq(Block) /\ IsInjective(freeQ')
      /\ Range(freeQ') = Range(freeQ) \union {b}
  BY <1>2, AppendRange DEF PoolTypeOK, Conservation
<1>4. PoolTypeOK'
  BY <1>1, <1>3 DEF PoolTypeOK
<1>5. Conservation'
  BY <1>3 DEF Conservation
<1>6. IndexSound'
  BY <1>1 DEF IndexSound
<1>7. \A x \in Range(freeQ) : x \in Block
  BY DEF PoolTypeOK, Range
<1>8. \A x \in Range(freeQ') : x # Null /\ ref'[x] <= 0
  BY <1>3, <1>7 DEF FreeIsDead
<1>9. FreeIsDead'
  BY <1>5, <1>6, <1>8 DEF FreeIsDead, IndexSound, Conservation
<1>10. RefSound'
  BY NullBlock DEF RefSound, PoolTypeOK
<1>11. EntriesKept
  <2> SUFFICES ASSUME NEW e \in hashMap, ref[e[2]] > 0, ref'[e[2]] > 0,
                      e \notin hashMap'
               PROVE  FALSE
    BY DEF EntriesKept
  <2>1. e[2] \in S /\ e[2] # b /\ e[2] \in Block
    BY <1>1, <1>2 DEF PoolTypeOK
  <2> QED BY <2>1 DEF PoolTypeOK
<1>12. LossesQueued
  BY <1>1 DEF LossesQueued
<1> QED BY <1>4, <1>5, <1>6, <1>9, <1>10, <1>11, <1>12 DEF SafeStep

\* Contents are forgotten and no block moves: the free queue, the allocated
\* blocks and the reference counts stay.
LEMMA ForgetSafe ==
    ASSUME PoolInv, NEW S \in SUBSET Block, NEW R \in SUBSET Block,
           \A e \in hashMap : e[2] \in R => e[2] \in S,
           \A e \in hashMap : e[2] \in S => ref[e[2]] <= 0 /\ e[2] \in pending',
           hashMap' = hashMap \ Entries(S),
           ResetHash(R),
           pending' \subseteq Block,
           UNCHANGED <<count, freeQ, alloc, ref>>
    PROVE  SafeStep
<1> USE DEF PoolInv
<1>1. /\ hash' \in [Block -> Hash] /\ parent' \in [Block -> Hash]
      /\ hashMap' \subseteq hashMap
      /\ \A e \in hashMap' : /\ e[1] # NoHash
                             /\ hash'[e[2]] = e[1]
                             /\ e[2] \in (alloc \ {Null}) \ S
      /\ \A e \in hashMap \ hashMap' : e[2] \in S
  BY ForgetFacts
<1>2. PoolTypeOK'
  BY <1>1 DEF PoolTypeOK
<1>3. Conservation' /\ RefSound'
  BY DEF Conservation, RefSound
<1>4. IndexSound'
  BY <1>1 DEF IndexSound
<1>5. FreeIsDead'
  BY <1>1 DEF FreeIsDead
<1>6. EntriesKept
  <2> SUFFICES ASSUME NEW e \in hashMap, ref[e[2]] > 0, e \notin hashMap'
               PROVE  FALSE
    BY DEF EntriesKept
  <2>1. ref[e[2]] <= 0 /\ e[2] \in Block
    BY <1>1 DEF PoolTypeOK
  <2> QED BY <2>1 DEF PoolTypeOK
<1>7. LossesQueued
  BY <1>1 DEF LossesQueued
<1> QED BY <1>2, <1>3, <1>4, <1>5, <1>6, <1>7 DEF SafeStep

-----------------------------------------------------------------------------
(***************************************************************************)
(* Reference counts.                                                       *)
(***************************************************************************)

\* free_block, in all its three outcomes.
LEMMA FreeBlockSafe ==
    ASSUME PoolInv, NEW b \in Block, free_block(b)
    PROVE  SafeStep
<1> USE DEF PoolInv
<1>1. CASE DropRef(b)
  <2>1. b \in alloc /\ b # Null /\ ref[b] > 1 /\ ref' = [ref EXCEPT ![b] = @ - 1]
    BY <1>1 DEF DropRef
  <2>2. UNCHANGED <<count, freeQ, alloc, hash, parent, hashMap, pending>>
    BY <1>1 DEF DropRef
  <2>3. /\ ref' \in [Block -> Int] /\ ref'[b] >= 0
        /\ \A x \in Block \ {b} : ref'[x] = ref[x]
    BY <2>1 DEF PoolTypeOK
  <2>4. ref'[Null] >= 1
    BY <2>1, <2>3, NullBlock DEF RefSound
  <2>5. \A x \in alloc : ref'[x] >= 0
    BY <2>3 DEF RefSound, PoolTypeOK
  <2>6. \A x \in Block \ alloc : ref[x] <= 0
    BY IdleOutside
  <2>7. \A x \in Block \ alloc : ref'[x] <= 0
    BY <2>1, <2>3, <2>6
  <2> QED BY <2>2, <2>3, <2>4, <2>5, <2>7, RefOnly
<1>2. CASE LastFree(b)
  <2> DEFINE named   == hash[b] # NoHash
             orphans == IF named THEN Orphans(hashMap \ Entries({b}), {hash[b]})
                                 ELSE {}
             S       == orphans \union {b}
  <2>1. /\ b \in alloc /\ b # Null /\ ref[b] <= 1
        /\ ref'     = [ref EXCEPT ![b] = @ - 1]
        /\ hashMap' = hashMap \ Entries(S)
        /\ ResetHash(orphans)
        /\ pending' = pending \union orphans \union (IF named THEN {b} ELSE {})
        /\ alloc' = alloc \ {b} /\ freeQ' = Append(freeQ, b) /\ count' = count
    BY <1>2 DEF LastFree
  <2>2. orphans \subseteq Block /\ \A x \in orphans : ref[x] <= 0
    BY OrphanFacts
  <2> HIDE DEF orphans
  <2>3. /\ ref' \in [Block -> Int] /\ ref'[b] <= 0
        /\ \A x \in Block \ {b} : ref'[x] = ref[x]
    BY <2>1 DEF PoolTypeOK
  <2>4. S \in SUBSET Block /\ orphans \in SUBSET Block /\ b \in S
    BY <2>2
  <2>5. \A x \in S \ {b} : ref[x] <= 0
    BY <2>2
  <2>6. \A e \in hashMap : e[2] \in S => e[2] \in pending'
    BY <2>1 DEF IndexSound
  <2>7. pending' \subseteq Block
    BY <2>1, <2>2 DEF PoolTypeOK
  <2> QED BY <2>1, <2>3, <2>4, <2>5, <2>6, <2>7, RetireSafe
<1>3. CASE FreeIgnored(b)
  BY <1>3, PoolUnchanged DEF FreeIgnored
<1> QED BY <1>1, <1>2, <1>3 DEF free_block

\* One more reference to an allocated block.
LEMMA GainSafe ==
    ASSUME PoolInv, NEW b \in alloc, ref' = [ref EXCEPT ![b] = @ + 1],
           UNCHANGED <<count, freeQ, alloc, hash, parent, hashMap, pending>>
    PROVE  SafeStep
<1> USE DEF PoolInv
<1>1. /\ b \in Block
      /\ ref' \in [Block -> Int] /\ ref'[b] = ref[b] + 1
      /\ \A x \in Block \ {b} : ref'[x] = ref[x]
  BY DEF PoolTypeOK
<1>2. ref'[Null] >= 1
  BY <1>1, NullBlock DEF RefSound, PoolTypeOK
<1>3. \A x \in alloc : ref'[x] >= 0
  BY <1>1 DEF RefSound, PoolTypeOK
<1>4. \A x \in Block \ alloc : ref'[x] <= 0
  BY <1>1, IdleOutside
<1> QED BY <1>1, <1>2, <1>3, <1>4, RefOnly

\* increment_ref, which ignores an id that is not allocated.
LEMMA IncrementRefSafe ==
    ASSUME PoolInv, NEW b \in Block, increment_ref(b)
    PROVE  SafeStep
<1>1. CASE b \in alloc
  BY <1>1, GainSafe DEF increment_ref
<1>2. CASE b \notin alloc
  BY <1>2, PoolUnchanged DEF increment_ref, poolVars
<1> QED BY <1>1, <1>2

\* A lookup claims a registered block, which is allocated.
LEMMA ClaimCachedSafe ==
    ASSUME PoolInv, NEW h, NEW b, ClaimCached(h, b)
    PROVE  SafeStep
<1>1. <<h, b>> \in hashMap
  BY DEF ClaimCached, get_block
<1>2. b \in alloc
  BY <1>1 DEF PoolInv, IndexSound
<1> QED BY <1>2, GainSafe DEF ClaimCached

\* touch revives a queued block or adds a reference.
LEMMA TouchSafe ==
    ASSUME PoolInv, NEW b \in Block, b < count, touch(b)
    PROVE  SafeStep
<1> USE DEF PoolInv
<1>1. UNCHANGED <<count, hash, parent, hashMap, pending>>
  BY DEF touch
<1>2. CASE ref[b] = 0 /\ b # Null /\ b \in Range(freeQ)
  <2>1. /\ freeQ' = QueueRemove(freeQ, b) /\ alloc' = alloc \union {b}
        /\ ref' = [ref EXCEPT ![b] = @ + 1]
    BY <1>2 DEF touch
  <2>2. /\ freeQ' \in Seq(Block) /\ IsInjective(freeQ')
        /\ Range(freeQ') = Range(freeQ) \ {b}
    BY <1>2, <2>1, RemoveRange DEF PoolTypeOK, Conservation
  <2>3. /\ ref' \in [Block -> Int] /\ ref'[b] = 1
        /\ \A x \in Block \ {b} : ref'[x] = ref[x]
    BY <1>2, <2>1 DEF PoolTypeOK
  <2>4. PoolTypeOK'
    BY <1>1, <2>1, <2>2, <2>3 DEF PoolTypeOK
  <2>5. Conservation'
    BY <1>1, <1>2, <2>1, <2>2 DEF Conservation
  <2>6. IndexSound'
    BY <1>1, <2>1 DEF IndexSound
  <2>7. \A x \in Range(freeQ) : x \in Block
    BY DEF PoolTypeOK, Range
  <2>8. FreeIsDead'
    BY <1>1, <2>2, <2>3, <2>7 DEF FreeIsDead
  <2>9. RefSound'
    <3>1. ref'[Null] >= 1
      BY <1>2, <2>3, NullBlock DEF RefSound
    <3>2. \A x \in alloc' : ref'[x] >= 0
      BY <2>1, <2>3 DEF RefSound, PoolTypeOK
    <3>3. \A x \in Block : x >= count => x # b
      BY NullBlock DEF PoolTypeOK
    <3>4. \A x \in Block : x >= count' => ref'[x] <= 0
      BY <1>1, <2>3, <3>3 DEF RefSound
    <3> QED BY <3>1, <3>2, <3>4 DEF RefSound
  <2>10. EntriesKept /\ LossesQueued
    BY <1>1 DEF EntriesKept, LossesQueued
  <2> QED BY <2>4, <2>5, <2>6, <2>8, <2>9, <2>10 DEF SafeStep
<1>3. CASE ref[b] = 0 /\ b # Null /\ b \notin Range(freeQ)
  BY <1>1, <1>3, PoolUnchanged DEF touch, poolVars
<1>4. CASE ~(ref[b] = 0 /\ b # Null)
  <2>1. UNCHANGED <<freeQ, alloc>> /\ ref' = [ref EXCEPT ![b] = @ + 1]
    BY <1>4 DEF touch
  <2>2. CASE b \in alloc
    BY <1>1, <2>1, <2>2, GainSafe
  <2>3. CASE b \notin alloc
    <3>1. b # Null
      <4>1. Null \in 0 .. count - 1
        BY NullBlock DEF PoolTypeOK, Null
      <4>2. Null \in alloc
        BY <4>1 DEF Conservation, FreeIsDead
      <4> QED BY <2>3, <4>2
    <3>2. ref[b] < 0
      BY <1>4, <2>3, <3>1, IdleOutside DEF PoolTypeOK
    <3>3. /\ ref' \in [Block -> Int] /\ ref'[b] <= 0
          /\ \A x \in Block \ {b} : ref'[x] = ref[x]
      BY <2>1, <3>2 DEF PoolTypeOK
    <3>4. ref'[Null] >= 1
      BY <3>1, <3>3, NullBlock DEF RefSound
    <3>5. \A x \in alloc : ref'[x] >= 0
      BY <2>3, <3>3 DEF RefSound, PoolTypeOK
    <3>6. \A x \in Block \ alloc : ref'[x] <= 0
      BY <3>3, IdleOutside
    <3> QED BY <1>1, <2>1, <3>3, <3>4, <3>5, <3>6, RefOnly
  <2> QED BY <2>2, <2>3
<1> QED BY <1>2, <1>3, <1>4

\* release_for_eviction gives back references, never below zero.
LEMMA ReleaseSafe ==
    ASSUME PoolInv, NEW s \in Seq(Block), release_for_eviction(s)
    PROVE  SafeStep
<1> USE DEF PoolInv
<1>1. \A b \in Block : Occurrences(s, b) \in Nat
  BY OccurrencesNat
<1>2. /\ ref' = ReleasedRef(s)
      /\ UNCHANGED <<count, freeQ, alloc, hash, parent, hashMap, pending>>
  BY DEF release_for_eviction
<1>3. ref' \in [Block -> Int]
  BY <1>1, <1>2 DEF ReleasedRef, Min2, PoolTypeOK
<1>4. ref'[Null] >= 1
  BY <1>2, NullBlock DEF ReleasedRef, RefSound
<1>5. \A b \in alloc : ref'[b] >= 0
  BY <1>1, <1>2 DEF ReleasedRef, Min2, RefSound, PoolTypeOK
<1>6. \A b \in Block \ alloc : ref'[b] <= 0
  BY <1>2, IdleOutside DEF ReleasedRef
<1> QED BY <1>2, <1>3, <1>4, <1>5, <1>6, RefOnly

\* fork_block_table adds a reference per occurrence of an allocated block.
LEMMA ForkSafe ==
    ASSUME PoolInv, tables \in [Req -> Seq(Block)], NEW r \in Req, NEW new \in Req,
           fork_block_table(r, new)
    PROVE  SafeStep
<1> USE DEF PoolInv
<1>1. \A b \in Block : Occurrences(tables[r], b) \in Nat
  BY OccurrencesNat
<1>2. /\ ref' = [b \in Block |-> IF b \in alloc
                                   THEN ref[b] + Occurrences(tables[r], b)
                                   ELSE ref[b]]
      /\ UNCHANGED <<count, freeQ, alloc, hash, parent, hashMap, pending>>
  BY DEF fork_block_table
<1>3. /\ ref' \in [Block -> Int]
      /\ \A b \in Block : ref'[b] >= ref[b]
  BY <1>1, <1>2 DEF PoolTypeOK
<1>4. ref'[Null] >= 1
  BY <1>3, NullBlock DEF RefSound, PoolTypeOK
<1>5. \A b \in alloc : ref'[b] >= 0
  BY <1>3 DEF RefSound, PoolTypeOK
<1>6. \A b \in Block \ alloc : ref'[b] <= 0
  BY <1>2, IdleOutside
<1> QED BY <1>2, <1>3, <1>4, <1>5, <1>6, RefOnly

-----------------------------------------------------------------------------
(***************************************************************************)
(* The chain-hash index.                                                   *)
(***************************************************************************)

\* Labelling an allocated block that is not registered yet.
LEMMA LabelSafe ==
    ASSUME PoolInv, NEW b \in alloc, b # Null, \A e \in hashMap : e[2] # b,
           NEW h \in Hash, h # NoHash,
           hash' = [hash EXCEPT ![b] = h],
           parent' \in [Block -> Hash],
           hashMap' = hashMap \union {<<h, b>>},
           UNCHANGED <<count, freeQ, alloc, ref, pending>>
    PROVE  SafeStep
<1> USE DEF PoolInv
<1>1. /\ b \in Block
      /\ hash' \in [Block -> Hash] /\ hash'[b] = h
      /\ \A x \in Block \ {b} : hash'[x] = hash[x]
  BY DEF PoolTypeOK
<1>2. PoolTypeOK'
  BY <1>1 DEF PoolTypeOK
<1>3. Conservation' /\ RefSound'
  BY DEF Conservation, RefSound
<1>4. IndexSound'
  <2>1. ASSUME NEW e \in hashMap
        PROVE  e[1] # NoHash /\ hash'[e[2]] = e[1] /\ e[2] \in alloc \ {Null}
    BY <1>1 DEF IndexSound, PoolTypeOK
  <2> QED BY <1>1, <2>1 DEF IndexSound
<1>5. FreeIsDead'
  BY <1>3, <1>4 DEF FreeIsDead, IndexSound, Conservation
<1>6. EntriesKept /\ LossesQueued
  BY DEF EntriesKept, LossesQueued
<1> QED BY <1>2, <1>3, <1>4, <1>5, <1>6 DEF SafeStep

\* register_block_hash on an owned block that is not registered.
LEMMA RegisterSafe ==
    ASSUME PoolInv, NEW b \in alloc, b # Null, \A e \in hashMap : e[2] # b,
           NEW h \in Chains, register_block_hash(b, h)
    PROVE  SafeStep
<1>1. h \in Hash /\ h # NoHash
  BY HashFacts
<1>2. /\ hash' = [hash EXCEPT ![b] = h] /\ hashMap' = hashMap \union {<<h, b>>}
      /\ UNCHANGED <<count, freeQ, alloc, ref, parent, pending>>
  BY DEF register_block_hash
<1>3. parent' \in [Block -> Hash]
  BY <1>2 DEF PoolInv, PoolTypeOK
<1> QED BY <1>1, <1>2, <1>3, LabelSafe

\* cache_full_blocks: a block without a hash is not in the index.
LEMMA CacheFullSafe ==
    ASSUME PoolInv, NEW b \in alloc, b # Null, NEW p \in Hash, NEW t \in Tok,
           cache_full_block(b, p, t)
    PROVE  SafeStep
<1> DEFINE h == compute_block_hash(p, t)
<1>1. h \in Hash /\ h # NoHash
  BY HashFacts
<1>2. /\ hash[b] = NoHash
      /\ hash' = [hash EXCEPT ![b] = h] /\ hashMap' = hashMap \union {<<h, b>>}
      /\ parent' = [parent EXCEPT ![b] = p]
      /\ UNCHANGED <<count, freeQ, alloc, ref, pending>>
  BY DEF cache_full_block
<1> HIDE DEF h
<1>3. parent' \in [Block -> Hash]
  BY <1>2 DEF PoolInv, PoolTypeOK
<1>4. \A e \in hashMap : e[2] # b
  BY <1>2 DEF PoolInv, IndexSound
<1> QED BY <1>1, <1>2, <1>3, <1>4, LabelSafe

\* The lazy SSD restore of get_computed_blocks labels a fresh block.
LEMMA LazyRestoreSafe ==
    ASSUME PoolInv, NEW p \in Hash, NEW t \in Tok, NEW b,
           LazyRestore(compute_block_hash(p, t), p, b)
    PROVE  SafeStep
<1> USE DEF PoolInv
<1> DEFINE h == compute_block_hash(p, t)
<1>1. h \in Hash /\ h # NoHash
  BY HashFacts
<1>2. /\ AllocateBlockInternal(b)
      /\ ref' = [ref EXCEPT ![b] = 1]
      /\ hash' = [hash EXCEPT ![b] = h] /\ parent' = [parent EXCEPT ![b] = p]
      /\ hashMap' = hashMap \union {<<h, b>>} /\ pending' = pending
  BY DEF LazyRestore
<1> HIDE DEF h
<1>3. /\ b \in Block /\ b # Null /\ b \notin alloc
      /\ \A e \in hashMap : e[2] # b
      /\ freeQ' \in Seq(Block) /\ alloc' \subseteq Block
      /\ count' \in InitialBlocks .. MaxBlocks
      /\ Conservation'
      /\ b \notin Range(freeQ')
      /\ \A x \in Range(freeQ') : x # Null /\ ref[x] <= 0
      /\ \A x \in Block : x >= count' => x >= count /\ x # b
      /\ alloc' = alloc \union {b}
  BY <1>2, AllocationFacts DEF AllocateBlockInternal
<1>4. /\ ref' \in [Block -> Int] /\ ref'[b] = 1
      /\ \A x \in Block \ {b} : ref'[x] = ref[x]
  BY <1>2, <1>3 DEF PoolTypeOK
<1>5. /\ hash' \in [Block -> Hash] /\ parent' \in [Block -> Hash] /\ hash'[b] = h
      /\ \A x \in Block \ {b} : hash'[x] = hash[x]
  BY <1>1, <1>2, <1>3 DEF PoolTypeOK
<1>6. PoolTypeOK'
  BY <1>1, <1>2, <1>3, <1>4, <1>5 DEF PoolTypeOK
<1>7. IndexSound'
  <2>1. ASSUME NEW e \in hashMap
        PROVE  e[1] # NoHash /\ hash'[e[2]] = e[1] /\ e[2] \in alloc' \ {Null}
    BY <1>3, <1>5 DEF IndexSound, PoolTypeOK
  <2> QED BY <1>1, <1>2, <1>3, <1>5, <2>1 DEF IndexSound
<1>8. Range(freeQ') \subseteq Block
  BY <1>3 DEF Range
<1>9. FreeIsDead'
  BY <1>3, <1>4, <1>7, <1>8 DEF FreeIsDead, IndexSound, Conservation
<1>10. RefSound'
  BY <1>3, <1>4, NullBlock DEF RefSound, PoolTypeOK
<1>11. EntriesKept /\ LossesQueued
  BY <1>2 DEF EntriesKept, LossesQueued
<1> QED BY <1>3, <1>6, <1>7, <1>9, <1>10, <1>11 DEF SafeStep

-----------------------------------------------------------------------------
(***************************************************************************)
(* Eviction.                                                               *)
(***************************************************************************)

\* evict_lru_blocks resets free blocks, which are never registered.
LEMMA EvictLruSafe ==
    ASSUME PoolInv, NEW n \in Nat, evict_lru_blocks(n)
    PROVE  SafeStep
<1> USE DEF PoolInv
<1> DEFINE victims == {freeQ[i] : i \in 1 .. Min2(n, Len(freeQ))}
           roots   == {hash[b] : b \in victims} \ {NoHash}
           orphans == IF roots = {} THEN {} ELSE Orphans(hashMap, roots)
           R       == victims \union orphans
<1>1. /\ ResetHash(R)
      /\ hashMap' = hashMap \ Entries(orphans)
      /\ pending' = pending \union victims \union orphans
      /\ UNCHANGED <<count, freeQ, alloc, ref>>
  BY DEF evict_lru_blocks
<1>2. orphans \subseteq Block /\ \A x \in orphans : ref[x] <= 0
  BY OrphanFacts
<1>3. victims \subseteq Range(freeQ)
  <2>1. freeQ \in Seq(Block) /\ Len(freeQ) \in Nat /\ DOMAIN freeQ = 1..Len(freeQ)
    BY DEF PoolTypeOK
  <2>2. \A i \in 1 .. Min2(n, Len(freeQ)) : i \in 1..Len(freeQ)
    BY <2>1 DEF Min2
  <2> QED BY <2>1, <2>2 DEF Range
<1>4. Range(freeQ) \subseteq Block
  BY DEF PoolTypeOK, Range
<1> HIDE DEF orphans, victims
<1>5. R \in SUBSET Block /\ orphans \in SUBSET Block /\ pending' \subseteq Block
  BY <1>1, <1>2, <1>3, <1>4 DEF PoolTypeOK
<1>6. \A e \in hashMap : e[2] \in R => e[2] \in orphans
  BY <1>3 DEF FreeIsDead
<1>7. \A e \in hashMap : e[2] \in orphans => ref[e[2]] <= 0 /\ e[2] \in pending'
  BY <1>1, <1>2
<1> QED BY <1>1, <1>5, <1>6, <1>7, ForgetSafe

\* handle_memory_pressure reclaims an unreferenced cached block.
LEMMA PressureSafe ==
    ASSUME PoolInv, NEW b \in Block, handle_memory_pressure(b)
    PROVE  SafeStep
<1> USE DEF PoolInv
<1> DEFINE orphans == Orphans(hashMap \ Entries({b}), {hash[b]})
           S       == orphans \union {b}
<1>1. /\ b \in alloc /\ b # Null /\ ref[b] <= 0
      /\ hashMap' = hashMap \ Entries(S)
      /\ ResetHash(S)
      /\ pending' = pending \union orphans \union {b}
      /\ alloc' = alloc \ {b} /\ freeQ' = Append(freeQ, b)
      /\ count' = count /\ ref' = ref
  BY DEF handle_memory_pressure, Evictable
<1>2. orphans \subseteq Block /\ \A x \in orphans : ref[x] <= 0
  BY OrphanFacts
<1> HIDE DEF orphans
<1>3. S \in SUBSET Block /\ b \in S /\ pending' \subseteq Block
  BY <1>1, <1>2 DEF PoolTypeOK
<1>4. \A e \in hashMap : e[2] \in S => e[2] \in pending'
  BY <1>1
<1>5. /\ ref' \in [Block -> Int] /\ ref'[b] <= 0
      /\ \A x \in Block \ {b} : ref'[x] = ref[x]
  BY <1>1 DEF PoolTypeOK
<1>6. \A x \in S \ {b} : ref[x] <= 0
  BY <1>2
<1>7. \A e \in hashMap : e[2] \in S => e[2] \in S
  OBVIOUS
<1> QED BY <1>1, <1>3, <1>4, <1>5, <1>6, <1>7, RetireSafe

\* evict_block_permanently takes a block from alloc, or leaves it queued.
LEMMA EvictPermanentlySafe ==
    ASSUME PoolInv, NEW b \in Block, evict_block_permanently(b)
    PROVE  SafeStep
<1> USE DEF PoolInv
<1> DEFINE S == {b}
<1>1. /\ b < count /\ ref[b] <= 0 /\ b # Null
      /\ hashMap' = hashMap \ Entries(S)
      /\ ResetHash(S)
      /\ pending' = IF hash[b] # NoHash THEN pending \union {b} ELSE pending
      /\ alloc' = alloc \ {b}
      /\ freeQ' = IF b \in Range(freeQ) THEN freeQ ELSE Append(freeQ, b)
      /\ count' = count /\ ref' = ref
  BY DEF evict_block_permanently
<1>2. \A e \in hashMap : e[2] \in S => ref[e[2]] <= 0 /\ e[2] \in pending'
  BY <1>1 DEF IndexSound
<1>3. pending' \subseteq Block
  BY <1>1 DEF PoolTypeOK
<1>4. \A e \in hashMap : e[2] \in S => e[2] \in S
  OBVIOUS
<1>5. CASE b \in Range(freeQ)
  <2>1. UNCHANGED <<count, freeQ, alloc, ref>>
    BY <1>1, <1>5 DEF Conservation
  <2>2. S \in SUBSET Block
    OBVIOUS
  <2> HIDE DEF S
  <2> QED BY <1>1, <1>2, <1>3, <1>4, <2>1, <2>2, ForgetSafe
<1>6. CASE b \notin Range(freeQ)
  <2>1. b \in alloc
    <3>1. b \in 0 .. count - 1
      BY <1>1, NullBlock DEF PoolTypeOK
    <3> QED BY <1>6, <3>1 DEF Conservation
  <2>2. freeQ' = Append(freeQ, b)
    BY <1>1, <1>6
  <2>3. S \in SUBSET Block /\ b \in S /\ \A x \in S \ {b} : ref[x] <= 0
    OBVIOUS
  <2>4. /\ ref' \in [Block -> Int] /\ ref'[b] <= 0
        /\ \A x \in Block \ {b} : ref'[x] = ref[x]
    BY <1>1 DEF PoolTypeOK
  <2>5. \A e \in hashMap : e[2] \in S => e[2] \in pending'
    BY <1>2
  <2> HIDE DEF S
  <2> QED BY <1>1, <1>3, <1>4, <2>1, <2>2, <2>3, <2>4, <2>5, RetireSafe
<1> QED BY <1>5, <1>6

\* reset_prefix_cache acts on a pool where only the null block is in use, and
\* there the index is empty already: by counting, every other block is free.
LEMMA ResetPrefixCacheSafe ==
    ASSUME PoolInv, reset_prefix_cache
    PROVE  SafeStep
<1> USE DEF PoolInv
<1> DEFINE used == Range(freeQ)
           rest == 1 .. (MaxBlocks - 1)
<1>1. /\ MaxBlocks - Len(freeQ) <= 1
      /\ hashMap' = {} /\ ResetHash(Block)
      /\ UNCHANGED <<count, freeQ, alloc, ref, pending>>
  BY DEF reset_prefix_cache
<1>2. freeQ \in Seq(Block) /\ Len(freeQ) \in Nat /\ MaxBlocks \in Nat \ {0}
  BY NullBlock DEF PoolTypeOK
<1>3. IsFiniteSet(rest) /\ Cardinality(rest) = MaxBlocks - 1
  <2> DEFINE z == MaxBlocks - 1
  <2>1. z \in Int /\ 1 \in Int /\ z >= 0
    BY <1>2
  <2> HIDE DEF z
  <2>2. IsFiniteSet(1..z) /\ Cardinality(1..z) = IF 1 > z THEN 0 ELSE z - 1 + 1
    BY <2>1, FS_Interval
  <2>3. (IF 1 > z THEN 0 ELSE z - 1 + 1) = z
    BY <2>1
  <2> QED BY <2>2, <2>3 DEF z
<1>4. used \subseteq rest
  <2>1. used \subseteq Block
    BY <1>2 DEF Range
  <2> HIDE DEF used
  <2>2. \A b \in used : b # Null
    BY DEF FreeIsDead, used
  <2> QED BY <1>2, <2>1, <2>2 DEF Block, Null
<1>5. IsFiniteSet(used) /\ Cardinality(used) <= MaxBlocks - 1
      /\ (Cardinality(used) = MaxBlocks - 1 => used = rest)
  <2> HIDE DEF used, rest
  <2>1. used \in SUBSET rest /\ IsFiniteSet(rest)
    BY <1>3, <1>4
  <2>2. /\ IsFiniteSet(used) /\ Cardinality(used) <= Cardinality(rest)
        /\ Cardinality(rest) = Cardinality(used) => rest = used
    BY <2>1, FS_Subset, Zenon
  <2> QED BY <1>3, <2>2
<1>6. Cardinality(used) = Len(freeQ)
  <2>1. freeQ \in [1..Len(freeQ) -> used]
    BY <1>2 DEF Range
  <2>2. IsInjective(freeQ) /\ \A x \in used : \E i \in 1..Len(freeQ) : freeQ[i] = x
    BY <1>2 DEF Range, Conservation
  <2> HIDE DEF used
  <2>3. freeQ \in Bijection(1..Len(freeQ), used)
    BY <2>1, <2>2 DEF Bijection, Injection, Surjection
  <2>4. ExistsBijection(1..Len(freeQ), used)
    BY <2>3 DEF ExistsBijection
  <2> QED BY <1>2, <1>5, <2>4, FS_CountingElements
<1>7. used = rest
  BY <1>1, <1>2, <1>5, <1>6
<1>8. \A b \in Block : b # Null => b \in used
  BY <1>2, <1>7 DEF Block, Null
<1>9. hashMap = {}
  BY <1>8 DEF IndexSound, PoolTypeOK, FreeIsDead
<1>10. hash' \in [Block -> Hash] /\ parent' \in [Block -> Hash]
  BY <1>1, HashFacts DEF ResetHash
<1>11. PoolTypeOK'
  BY <1>1, <1>10 DEF PoolTypeOK
<1>12. Conservation' /\ RefSound' /\ FreeIsDead' /\ IndexSound'
  BY <1>1 DEF Conservation, RefSound, FreeIsDead, IndexSound
<1> QED BY <1>9, <1>11, <1>12 DEF SafeStep, EntriesKept, LossesQueued

\* The pool of __init__ and clear: block 0 held, the other initial ones free.
LEMMA FreshPool ==
    /\ FreshQueue \in Seq(Block) /\ IsInjective(FreshQueue)
    /\ Range(FreshQueue) = 1 .. (InitialBlocks - 1)
    /\ Range(FreshQueue) \intersect {Null} = {}
    /\ Range(FreshQueue) \union {Null} = 0 .. (InitialBlocks - 1)
    /\ FreshRef \in [Block -> Int] /\ FreshRef[Null] = 1
    /\ \A b \in Block \ {Null} : FreshRef[b] = 0
    /\ Unhashed \in [Block -> Hash]
    /\ InitialBlocks \in InitialBlocks .. MaxBlocks
<1> DEFINE q == [i \in 1 .. (InitialBlocks - 1) |-> i]
<1>1. InitialBlocks - 1 \in Nat /\ InitialBlocks \in Nat /\ InitialBlocks <= MaxBlocks
      /\ MaxBlocks \in Nat
  BY NullBlock
<1>2. \A i \in 1 .. (InitialBlocks - 1) : i \in Block
  BY <1>1 DEF Block
<1>3. q \in Seq(Block) /\ DOMAIN q = 1 .. (InitialBlocks - 1)
  BY <1>1, <1>2
<1>4. IsInjective(q) /\ Range(q) = 1 .. (InitialBlocks - 1)
  BY <1>3 DEF IsInjective, Range
<1>5. FreshQueue = q
  BY DEF FreshQueue
<1> HIDE DEF q
<1>6. /\ Range(q) \intersect {Null} = {}
      /\ Range(q) \union {Null} = 0 .. (InitialBlocks - 1)
  BY <1>1, <1>4 DEF Null
<1>7. FreshRef \in [Block -> Int] /\ FreshRef[Null] = 1
      /\ \A b \in Block \ {Null} : FreshRef[b] = 0
  BY NullBlock DEF FreshRef
<1>8. Unhashed \in [Block -> Hash]
  BY HashFacts DEF Unhashed
<1> QED BY <1>1, <1>3, <1>4, <1>5, <1>6, <1>7, <1>8

\* The fresh pool satisfies the invariant.
LEMMA PoolInitInv == PoolInit => PoolInv
<1> SUFFICES ASSUME PoolInit PROVE PoolInv
  OBVIOUS
<1> USE DEF PoolInit
<1>1. PoolTypeOK
  BY FreshPool, NullBlock DEF PoolTypeOK
<1>2. Conservation
  BY FreshPool DEF Conservation
<1>3. FreeIsDead
  <2>1. \A b \in Range(FreshQueue) : b \in Block \ {Null}
    BY FreshPool, NullBlock DEF Block, Null
  <2> QED BY <2>1, FreshPool DEF FreeIsDead
<1>4. IndexSound
  BY DEF IndexSound
<1>5. RefSound
  <2>1. \A b \in Block : b >= InitialBlocks => b \in Block \ {Null}
    BY NullBlock DEF Null
  <2> QED BY <2>1, FreshPool DEF RefSound
<1> QED BY <1>1, <1>2, <1>3, <1>4, <1>5 DEF PoolInv

\* clear rebuilds the fresh pool and queues every block it forgets.
LEMMA ClearSafe ==
    ASSUME PoolInv, clear
    PROVE  PoolInv' /\ LossesQueued
<1> USE DEF PoolInv
<1>1. /\ count' = InitialBlocks /\ freeQ' = FreshQueue /\ alloc' = {Null}
      /\ ref' = FreshRef /\ hash' = Unhashed /\ parent' = Unhashed /\ hashMap' = {}
      /\ pending' = pending \union (alloc \ {Null})
  BY DEF clear
<1>2. PoolTypeOK'
  BY <1>1, FreshPool, NullBlock DEF PoolTypeOK
<1>3. Conservation'
  BY <1>1, FreshPool DEF Conservation
<1>4. FreeIsDead'
  <2>1. \A b \in Range(FreshQueue) : b \in Block \ {Null}
    BY FreshPool, NullBlock DEF Block, Null
  <2> QED BY <1>1, <2>1, FreshPool DEF FreeIsDead
<1>5. IndexSound'
  BY <1>1 DEF IndexSound
<1>6. RefSound'
  <2>1. \A b \in Block : b >= InitialBlocks => b \in Block \ {Null}
    BY NullBlock DEF Null
  <2> QED BY <1>1, <2>1, FreshPool DEF RefSound
<1>7. LossesQueued
  BY <1>1 DEF LossesQueued, IndexSound
<1> QED BY <1>2, <1>3, <1>4, <1>5, <1>6, <1>7

-----------------------------------------------------------------------------
(***************************************************************************)
(* Copy-on-write.                                                          *)
(***************************************************************************)

\* What replacing a shared block by the private block new does to the counts
\* and to the index.
LEMMA CowFacts ==
    ASSUME PoolInv, NEW r, NEW i, NEW new \in Block, new # Null, ref[new] <= 0,
           NEW orphans \in SUBSET Block,
           CowFrom(r, i, new, orphans)
    PROVE  /\ ref' \in [Block -> Int] /\ ref'[new] = 1
           /\ ref'[Null] >= 1
           /\ \A b \in alloc \union {new} : ref'[b] >= 0
           /\ \A b \in Block \ {new} : \/ ref'[b] = ref[b]
                                       \/ ref'[b] >= 1 /\ b \in alloc
           /\ hash' \in [Block -> Hash] /\ parent' \in [Block -> Hash]
           /\ hashMap' \subseteq hashMap
           /\ \A e \in hashMap' : /\ e[1] # NoHash
                                  /\ hash'[e[2]] = e[1]
                                  /\ e[2] \in (alloc \ {Null}) \ (orphans \union {new})
           /\ \A e \in hashMap \ hashMap' : e[2] \in orphans \union {new}
<1> USE DEF PoolInv
<1> DEFINE b == tables[r][i]
           S == orphans \union {new}
<1>1. /\ b \in alloc /\ ref[b] > 1
      /\ ref' = [ref EXCEPT ![new] = 1, ![b] = @ - 1]
      /\ hashMap' = hashMap \ Entries(S) /\ ResetHash(S)
  BY DEF CowFrom
<1> HIDE DEF b
<1>2. b \in Block /\ b # new
  BY <1>1 DEF PoolTypeOK
<1>3. /\ ref' \in [Block -> Int] /\ ref'[new] = 1 /\ ref'[b] = ref[b] - 1
      /\ \A x \in Block \ {new, b} : ref'[x] = ref[x]
  BY <1>1, <1>2 DEF PoolTypeOK
<1>4. ref'[b] >= 1
  BY <1>1, <1>2, <1>3 DEF PoolTypeOK
<1>5. ref'[Null] >= 1
  BY <1>3, <1>4, NullBlock DEF RefSound
<1>6. S \in SUBSET Block /\ \A e \in hashMap : e[2] \in S => e[2] \in S
  OBVIOUS
<1> HIDE DEF S
<1>7. /\ hash' \in [Block -> Hash] /\ parent' \in [Block -> Hash]
      /\ hashMap' \subseteq hashMap
      /\ \A e \in hashMap' : /\ e[1] # NoHash
                             /\ hash'[e[2]] = e[1]
                             /\ e[2] \in (alloc \ {Null}) \ S
      /\ \A e \in hashMap \ hashMap' : e[2] \in S
  BY <1>1, <1>6, ForgetFacts
<1>8. \A x \in Block \ {new} : ref'[x] = ref[x] \/ (ref'[x] >= 1 /\ x \in alloc)
  BY <1>1, <1>3, <1>4
<1>9. \A x \in alloc \union {new} : ref'[x] >= 0
  <2>1. alloc \subseteq Block /\ \A x \in alloc : ref[x] >= 0
    BY DEF PoolTypeOK, RefSound
  <2>2. ref[b] - 1 >= 0 /\ ref[b] \in Int
    BY <1>1, <1>2 DEF PoolTypeOK
  <2> QED BY <1>3, <2>1, <2>2
<1> QED BY <1>3, <1>5, <1>7, <1>8, <1>9 DEF S

\* get_blocks_for_generation, with a block of the free queue or a reclaimed one.
LEMMA CowSafe ==
    ASSUME PoolInv, NEW r, NEW i, NEW new \in Block,
           get_blocks_for_generation(r, i, new)
    PROVE  SafeStep
<1> USE DEF PoolInv
<1>1. CASE CowFree(r, i, new)
  <2>1. AllocateBlockInternal(new) /\ CowFrom(r, i, new, {}) /\ pending' = pending
    BY <1>1 DEF CowFree
  <2>2. /\ new # Null /\ new \notin alloc
        /\ \A e \in hashMap : e[2] # new
        /\ freeQ' \in Seq(Block) /\ alloc' \subseteq Block
        /\ count' \in InitialBlocks .. MaxBlocks
        /\ Conservation'
        /\ new \notin Range(freeQ')
        /\ \A x \in Range(freeQ') : x # Null /\ ref[x] <= 0
        /\ \A x \in Block : x >= count' => x >= count /\ x # new
        /\ alloc' = alloc \union {new}
    BY <2>1, AllocationFacts DEF AllocateBlockInternal
  <2>3. ref[new] <= 0
    BY <2>2, IdleOutside
  <2>4. /\ ref' \in [Block -> Int] /\ ref'[new] = 1
        /\ ref'[Null] >= 1
        /\ \A b \in alloc \union {new} : ref'[b] >= 0
        /\ \A b \in Block \ {new} : ref'[b] = ref[b] \/ (ref'[b] >= 1 /\ b \in alloc)
        /\ hash' \in [Block -> Hash] /\ parent' \in [Block -> Hash]
        /\ hashMap' \subseteq hashMap
        /\ \A e \in hashMap' : /\ e[1] # NoHash
                               /\ hash'[e[2]] = e[1]
                               /\ e[2] \in (alloc \ {Null}) \ ({} \union {new})
        /\ \A e \in hashMap \ hashMap' : e[2] \in {} \union {new}
    <3>1. {} \in SUBSET Block
      OBVIOUS
    <3> QED BY <2>1, <2>2, <2>3, <3>1, CowFacts
  <2>5. PoolTypeOK'
    BY <2>1, <2>2, <2>4 DEF PoolTypeOK
  <2>6. IndexSound'
    BY <2>2, <2>4 DEF IndexSound
  <2>7. \A x \in Range(freeQ') : x \in Block \ {new} /\ x \notin alloc
    BY <2>2 DEF Range, Conservation
  <2>8. FreeIsDead'
    BY <2>2, <2>4, <2>6, <2>7 DEF FreeIsDead, IndexSound, Conservation
  <2>9. \A x \in alloc' : ref'[x] >= 0
    BY <2>2, <2>4
  <2>10. \A x \in Block : x >= count => x \notin alloc
    BY NullBlock DEF Conservation, PoolTypeOK
  <2>11. RefSound'
    BY <2>2, <2>4, <2>9, <2>10 DEF RefSound
  <2>12. EntriesKept /\ LossesQueued
    BY <2>2, <2>4 DEF EntriesKept, LossesQueued
  <2> QED BY <2>2, <2>5, <2>6, <2>8, <2>11, <2>12 DEF SafeStep
<1>2. CASE CowReclaim(r, i, new)
  <2> DEFINE orphans == Orphans(hashMap \ Entries({new}), {hash[new]})
  <2>1. /\ new \in alloc /\ new # Null /\ ref[new] <= 0
        /\ CowFrom(r, i, new, orphans)
        /\ pending' = pending \union orphans \union {new}
        /\ UNCHANGED <<count, freeQ, alloc>>
    BY <1>2 DEF CowReclaim, Evictable
  <2>2. orphans \in SUBSET Block /\ \A x \in orphans : ref[x] <= 0
    BY OrphanFacts
  <2> HIDE DEF orphans
  <2>3. /\ ref' \in [Block -> Int] /\ ref'[new] = 1
        /\ ref'[Null] >= 1
        /\ \A b \in alloc \union {new} : ref'[b] >= 0
        /\ \A b \in Block \ {new} : ref'[b] = ref[b] \/ (ref'[b] >= 1 /\ b \in alloc)
        /\ hash' \in [Block -> Hash] /\ parent' \in [Block -> Hash]
        /\ hashMap' \subseteq hashMap
        /\ \A e \in hashMap' : /\ e[1] # NoHash
                               /\ hash'[e[2]] = e[1]
                               /\ e[2] \in (alloc \ {Null}) \ (orphans \union {new})
        /\ \A e \in hashMap \ hashMap' : e[2] \in orphans \union {new}
    BY <2>1, <2>2, CowFacts
  <2>4. PoolTypeOK'
    BY <2>1, <2>2, <2>3 DEF PoolTypeOK
  <2>5. Conservation'
    BY <2>1 DEF Conservation
  <2>6. IndexSound'
    BY <2>1, <2>3 DEF IndexSound
  <2>7. \A x \in Range(freeQ) : x \in Block \ {new} /\ x \notin alloc
    BY <2>1 DEF Range, Conservation, PoolTypeOK
  <2>8. FreeIsDead'
    BY <2>1, <2>3, <2>6, <2>7 DEF FreeIsDead, IndexSound
  <2>9. \A x \in Block : x >= count => x \notin alloc
    BY NullBlock DEF Conservation, PoolTypeOK
  <2>10. RefSound'
    <3>1. \A x \in alloc : ref'[x] >= 0
      BY <2>3
    <3>2. \A x \in Block : x >= count => ref'[x] <= 0
      BY <2>1, <2>3, <2>9 DEF RefSound
    <3> QED BY <2>1, <2>3, <3>1, <3>2 DEF RefSound
  <2>11. EntriesKept
    <3> SUFFICES ASSUME NEW e \in hashMap, ref[e[2]] > 0, e \notin hashMap'
                 PROVE  FALSE
      BY DEF EntriesKept
    <3>1. ref[e[2]] <= 0 /\ e[2] \in Block
      BY <2>1, <2>2, <2>3
    <3> QED BY <3>1 DEF PoolTypeOK
  <2>12. LossesQueued
    BY <2>1, <2>3 DEF LossesQueued
  <2> QED BY <2>4, <2>5, <2>6, <2>8, <2>10, <2>11, <2>12 DEF SafeStep
<1> QED BY <1>1, <1>2 DEF get_blocks_for_generation

-----------------------------------------------------------------------------
(***************************************************************************)
(* Any number of threads making any calls in any order.                    *)
(***************************************************************************)

\* The inductive invariant of the client's specification.
ClientInv == ClientTypeOK /\ PoolInv

\* What every step is shown to do.
ClientStep == ClientInv' /\ (clear \/ EntriesKept) /\ LossesQueued

-----------------------------------------------------------------------------
\* The calls that flush keep the pool safe and the tables typed.
LEMMA FlushingCallSafe ==
    ASSUME ClientInv, NEW t \in Thread, FlushingCall(t)
    PROVE  SafeStep /\ tables' \in [Req -> Seq(Block)]
<1> USE DEF ClientInv
<1>1. tables \in [Req -> Seq(Block)] /\ alloc \subseteq Block
  BY DEF ClientTypeOK, TypeOK, PoolTypeOK
<1>2. CASE Allocate /\ UNCHANGED tables
  BY <1>1, <1>2, AllocateBlockSafe, PoolUnchanged DEF Allocate
<1>3. CASE FreeKnown /\ UNCHANGED tables
  BY <1>1, <1>3, FreeBlockSafe DEF FreeKnown
<1>4. CASE Claim /\ UNCHANGED tables
  BY <1>1, <1>4, ClaimCachedSafe DEF Claim
<1>5. CASE Restore /\ UNCHANGED tables
  <2>1. PICK p \in Chains \union {NoHash}, tok \in Tok, b \in Block :
            LazyRestore(compute_block_hash(p, tok), p, b)
    BY <1>5 DEF Restore
  <2>2. p \in Hash
    BY HashFacts
  <2> QED BY <1>1, <1>5, <2>1, <2>2, LazyRestoreSafe
<1>6. CASE EvictLru /\ UNCHANGED tables
  <2>1. PICK n \in 1..MaxBlocks : evict_lru_blocks(n)
    BY <1>6 DEF EvictLru
  <2>2. n \in Nat
    BY NullBlock
  <2> QED BY <1>1, <1>6, <2>1, <2>2, EvictLruSafe
<1>7. CASE Pressure /\ UNCHANGED tables
  BY <1>1, <1>7, PressureSafe DEF Pressure
<1>8. CASE Cow
  <2>1. PICK r \in Req, new \in Block :
            \E i \in DOMAIN tables[r] : get_blocks_for_generation(r, i, new)
    BY <1>8 DEF Cow
  <2>2. PICK i \in DOMAIN tables[r] : get_blocks_for_generation(r, i, new)
    BY <2>1
  <2>3. SafeStep
    BY <2>2, CowSafe
  <2>4. tables' = [tables EXCEPT ![r] = [@ EXCEPT ![i] = new]]
    BY <2>2 DEF get_blocks_for_generation, CowFree, CowReclaim, CowFrom
  <2>5. [tables[r] EXCEPT ![i] = new] \in Seq(Block)
    <3> DEFINE s == tables[r]
    <3>1. s \in Seq(Block) /\ i \in DOMAIN s
      BY <1>1
    <3> HIDE DEF s
    <3>2. Len(s) \in Nat /\ s \in [1..Len(s) -> Block]
      BY <3>1
    <3>3. [s EXCEPT ![i] = new] \in [1..Len(s) -> Block]
      BY <3>1, <3>2
    <3>4. [s EXCEPT ![i] = new] \in Seq(Block)
      BY <3>2, <3>3
    <3> QED BY <3>4 DEF s
  <2>6. tables' \in [Req -> Seq(Block)]
    BY <1>1, <2>4, <2>5
  <2> QED BY <2>3, <2>6
<1> QED BY <1>2, <1>3, <1>4, <1>5, <1>6, <1>7, <1>8 DEF FlushingCall

\* The calls that do not flush; clear is the one that may drop an entry whose
\* block is referenced.
LEMMA QuietCallSafe ==
    ASSUME ClientInv, NEW t \in Thread, QuietCall(t)
    PROVE  /\ PoolInv' /\ LossesQueued /\ (clear \/ EntriesKept)
           /\ tables' \in [Req -> Seq(Block)]
<1> USE DEF ClientInv
<1>1. /\ tables \in [Req -> Seq(Block)] /\ alloc \subseteq Block
      /\ \A r \in Req : tables[r] \in Seq(Block)
      /\ <<>> \in Seq(Block)
  BY DEF ClientTypeOK, TypeOK, PoolTypeOK
<1>2. CASE GetNewBlocks /\ UNCHANGED tables
  BY <1>1, <1>2, GetNewBlocksSafe DEF GetNewBlocks, SafeStep
<1>3. CASE FreeUnknown /\ UNCHANGED tables
  BY <1>1, <1>3, FreeBlockSafe DEF FreeUnknown, SafeStep
<1>4. CASE IncrementRef /\ UNCHANGED tables
  BY <1>1, <1>4, IncrementRefSafe DEF IncrementRef, SafeStep
<1>5. CASE Touch /\ UNCHANGED tables
  BY <1>1, <1>5, TouchSafe DEF Touch, SafeStep
<1>6. CASE Release /\ UNCHANGED tables
  BY <1>1, <1>6, ReleaseSafe DEF Release, SafeStep
<1>7. CASE Register /\ UNCHANGED tables
  BY <1>1, <1>7, RegisterSafe DEF Register, Owned, Unregistered, SafeStep
<1>8. CASE CacheFull /\ UNCHANGED tables
  <2>1. PICK b \in Block, p \in Chains \union {NoHash}, tok \in Tok :
            Owned(b) /\ cache_full_block(b, p, tok)
    BY <1>8 DEF CacheFull
  <2>2. p \in Hash
    BY HashFacts
  <2>3. b \in alloc /\ b # Null
    BY <2>1 DEF Owned
  <2> QED BY <1>1, <1>8, <2>1, <2>2, <2>3, CacheFullSafe DEF SafeStep
<1>9. CASE EvictPermanently /\ UNCHANGED tables
  BY <1>1, <1>9, EvictPermanentlySafe DEF EvictPermanently, SafeStep
<1>10. CASE reset_prefix_cache /\ UNCHANGED tables
  BY <1>1, <1>10, ResetPrefixCacheSafe DEF SafeStep
<1>11. CASE CreateTable
  <2>1. UNCHANGED poolVars
    BY <1>11 DEF CreateTable, create_block_table
  <2>2. tables' \in [Req -> Seq(Block)]
    BY <1>1, <1>11 DEF CreateTable, create_block_table
  <2> QED BY <2>1, <2>2, PoolUnchanged DEF SafeStep
<1>12. CASE AddToTable
  <2>1. PICK r \in Req, b \in alloc : add_block_to_table(r, b)
    BY <1>12 DEF AddToTable
  <2>2. Append(tables[r], b) \in Seq(Block)
    BY <1>1
  <2>3. tables' \in [Req -> Seq(Block)] /\ UNCHANGED poolVars
    BY <1>1, <2>1, <2>2 DEF add_block_to_table
  <2> QED BY <2>3, PoolUnchanged DEF SafeStep
<1>13. CASE Fork
  <2>1. PICK r \in Req, new \in Req : fork_block_table(r, new)
    BY <1>13 DEF Fork
  <2>2. tables' \in [Req -> Seq(Block)]
    BY <1>1, <2>1 DEF fork_block_table
  <2> QED BY <1>1, <2>1, <2>2, ForkSafe DEF SafeStep
<1>14. CASE clear
  <2>1. tables' \in [Req -> Seq(Block)]
    BY <1>1, <1>14 DEF clear, NoTables
  <2> QED BY <1>14, <2>1, ClearSafe
<1> QED BY <1>2, <1>3, <1>4, <1>5, <1>6, <1>7, <1>8, <1>9, <1>10, <1>11, <1>12,
           <1>13, <1>14 DEF QuietCall

\* Every step of the client keeps the invariant, leaves the entries of
\* referenced blocks in the index unless it is a clear, and queues what leaves.
LEMMA NextSafe ==
    ASSUME ClientInv, [Next]_clientVars
    PROVE  ClientStep
<1> USE DEF ClientInv
<1>1. /\ TypeOK /\ PoolInv /\ deleting \in Seq(Block)
      /\ owed \subseteq Thread /\ deleter \in Thread \union {NoThread}
      /\ (deleting # <<>> => deleter # NoThread)
  BY DEF ClientTypeOK, TypeOK
<1>2. ASSUME NEW t \in Thread, FlushingCall(t) PROVE ClientStep
  <2>1. SafeStep /\ tables' \in [Req -> Seq(Block)]
    BY <1>2, FlushingCallSafe
  <2>2. owed' = owed \union {t} /\ UNCHANGED <<deleting, deleter>>
    BY <1>2 DEF FlushingCall
  <2>3. PoolInv' /\ PoolTypeOK'
    BY <2>1 DEF SafeStep, PoolInv
  <2> QED BY <1>1, <2>1, <2>2, <2>3 DEF ClientStep, ClientTypeOK, TypeOK, SafeStep
<1>3. ASSUME NEW t \in Thread, QuietCall(t) PROVE ClientStep
  <2>1. /\ PoolInv' /\ LossesQueued /\ (clear \/ EntriesKept)
        /\ tables' \in [Req -> Seq(Block)]
    BY <1>3, QuietCallSafe
  <2>2. UNCHANGED <<deleting, owed, deleter>>
    BY <1>3 DEF QuietCall
  <2>3. PoolTypeOK'
    BY <2>1 DEF PoolInv
  <2> QED BY <1>1, <2>1, <2>2, <2>3 DEF ClientStep, ClientTypeOK, TypeOK
<1>4. ASSUME NEW t \in Thread, DeleteTable(t) PROVE ClientStep
  <2>1. PICK r \in Req : delete_block_table(r)
    BY <1>4 DEF DeleteTable
  <2>2. deleter' = t /\ owed' = owed /\ t # NoThread
    BY <1>4, ClientAssumption DEF DeleteTable, ClientAssumption
  <2>3. tables \in [Req -> Seq(Block)] /\ <<>> \in Seq(Block)
    BY <1>1 DEF TypeOK
  <2>4. /\ UNCHANGED poolVars /\ deleting' \in Seq(Block)
        /\ tables' \in [Req -> Seq(Block)]
    BY <2>1, <2>3 DEF delete_block_table
  <2>5. SafeStep
    BY <2>4, PoolUnchanged
  <2>6. PoolTypeOK'
    BY <2>5 DEF SafeStep, PoolInv
  <2> QED BY <1>1, <2>2, <2>4, <2>5, <2>6 DEF ClientStep, ClientTypeOK, TypeOK, SafeStep
<1>5. ASSUME NEW t \in Thread, DeleteNext(t) PROVE ClientStep
  <2>1. /\ deleter = t /\ deleting # <<>> /\ free_block(Head(deleting))
        /\ deleting' = Tail(deleting) /\ UNCHANGED <<tables, deleter>>
        /\ owed' \in {owed, owed \union {t}}
    BY <1>5 DEF DeleteNext, DeleteStep
  <2>2. Head(deleting) \in Block /\ deleting' \in Seq(Block)
    BY <1>1, <2>1
  <2>3. SafeStep
    BY <2>1, <2>2, FreeBlockSafe
  <2>4. PoolTypeOK'
    BY <2>3 DEF SafeStep, PoolInv
  <2>5. deleter' # NoThread
    BY <2>1, ClientAssumption DEF ClientAssumption
  <2> QED BY <1>1, <2>1, <2>2, <2>3, <2>4, <2>5
          DEF ClientStep, ClientTypeOK, TypeOK, SafeStep
<1>6. ASSUME NEW t \in Thread, DeleteEnd(t) PROVE ClientStep
  <2>1. UNCHANGED poolVars /\ UNCHANGED <<tables, deleting, owed>>
    BY <1>6 DEF DeleteEnd
  <2>2. deleting = <<>> /\ deleter' = NoThread
    BY <1>6 DEF DeleteEnd
  <2>3. SafeStep
    BY <2>1, PoolUnchanged
  <2>4. PoolTypeOK'
    BY <2>3 DEF SafeStep, PoolInv
  <2> QED BY <1>1, <2>1, <2>2, <2>3, <2>4 DEF ClientStep, ClientTypeOK, TypeOK, SafeStep
<1>7. ASSUME NEW t \in Thread, Flush(t) PROVE ClientStep
  <2>1. /\ UNCHANGED <<count, freeQ, alloc, ref, hash, parent, hashMap>>
        /\ UNCHANGED <<tables, deleting, deleter>>
        /\ pending' = {} /\ owed' = owed \ {t}
    BY <1>7 DEF Flush, flush
  <2>2. PoolTypeOK'
    BY <1>1, <2>1 DEF PoolInv, PoolTypeOK
  <2>3. PoolInv'
    BY <1>1, <2>1, <2>2 DEF PoolInv, Conservation, FreeIsDead, IndexSound, RefSound
  <2>4. EntriesKept /\ LossesQueued
    BY <2>1 DEF EntriesKept, LossesQueued
  <2> QED BY <1>1, <2>1, <2>2, <2>3, <2>4 DEF ClientStep, ClientTypeOK, TypeOK
<1>8. CASE UNCHANGED clientVars
  <2>1. UNCHANGED poolVars /\ UNCHANGED <<tables, deleting, owed, deleter>>
    BY <1>8 DEF clientVars, pagedVars, poolVars
  <2>2. SafeStep
    BY <2>1, PoolUnchanged
  <2>3. PoolTypeOK'
    BY <2>2 DEF SafeStep, PoolInv
  <2> QED BY <1>1, <2>1, <2>2, <2>3 DEF ClientStep, ClientTypeOK, TypeOK, SafeStep
<1> QED BY <1>2, <1>3, <1>4, <1>5, <1>6, <1>7, <1>8 DEF Next

\* The initial state satisfies the invariant.
LEMMA InitInv == Init => ClientInv
<1> SUFFICES ASSUME Init PROVE ClientInv
  OBVIOUS
<1>1. PoolInv
  BY PoolInitInv DEF Init
<1>2. tables \in [Req -> Seq(Block)] /\ deleting \in Seq(Block) /\ deleting = <<>>
  BY DEF Init, PoolInit, NoTables
<1>3. owed \subseteq Thread /\ deleter \in Thread \union {NoThread}
  BY DEF Init
<1> QED BY <1>1, <1>2, <1>3 DEF ClientInv, ClientTypeOK, TypeOK, PoolInv

-----------------------------------------------------------------------------
\* The inductive invariant holds in every reachable state.
THEOREM Invariance == Spec => []ClientInv
<1>1. ClientInv /\ [Next]_clientVars => ClientInv'
  BY NextSafe DEF ClientStep
<1> QED BY <1>1, InitInv, PTL DEF Spec

\* Type correctness: every variable keeps its type, and ids are left to free
\* only while a thread is inside delete_block_table.
THEOREM TypeCorrect == Spec => []ClientTypeOK
<1>1. ClientInv => ClientTypeOK
  BY DEF ClientInv
<1> QED BY <1>1, Invariance, PTL

\* Block conservation (free_block, allocate_block, touch, eviction, clear): no
\* call sequence loses a block, links one twice or has one free and in use.
THEOREM BlocksConserved == Spec => []Conservation
<1>1. ClientInv => Conservation
  BY DEF ClientInv, PoolInv
<1> QED BY <1>1, Invariance, PTL

\* A block the allocator may hand out is unreferenced and unreachable through
\* the hash index.
THEOREM FreeBlocksDead == Spec => []FreeIsDead
<1>1. ClientInv => FreeIsDead
  BY DEF ClientInv, PoolInv
<1> QED BY <1>1, Invariance, PTL

\* The chain-hash index only names allocated blocks, under the hash they carry.
THEOREM IndexTruthful == Spec => []IndexSound
<1>1. ClientInv => IndexSound
  BY DEF ClientInv, PoolInv
<1> QED BY <1>1, Invariance, PTL

\* No eviction, cascade, copy-on-write or free takes the index entry of a block
\* that somebody references before and after it.
THEOREM HeldEntriesSurvive == Spec => HeldEntryStays
<1>1. ClientInv /\ [Next]_clientVars => [clear \/ EntriesKept]_pagedVars
  BY NextSafe DEF ClientStep
<1> QED BY <1>1, Invariance, PTL DEF Spec, HeldEntryStays

\* Whatever leaves the index is queued for invalidation in the same step.
THEOREM LossesAreQueued == Spec => InvalidationsQueued
<1>1. ClientInv /\ [Next]_clientVars => [LossesQueued]_pagedVars
  BY NextSafe DEF ClientStep
<1> QED BY <1>1, Invariance, PTL DEF Spec, InvalidationsQueued

=============================================================================
