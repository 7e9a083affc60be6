------------------------ MODULE WeightedRouterProofs ------------------------
(***************************************************************************)
(* The weighted router is correct for any number of backends, any weights  *)
(* and any number of concurrent requests: a backend is out exactly while   *)
(* it is failing, and as long as no call fails the selections stay close   *)
(* to the shares the weights give.                                         *)
(***************************************************************************)
EXTENDS WeightedRouter, FiniteSums, TLAPS

\* The types of what select and the outcomes of calls write.
RouterTypes ==
    /\ alive \in [Backends -> BOOLEAN]
    /\ failures \in [Backends -> 0..MaxFailures]
    /\ current_weight \in [Backends -> Int]
    /\ picks \in [Backends -> Nat]

\* All selections so far.
Picked == SumFunctionOnSet(picks, Backends)

\* The current weights are a ledger of the selections: each is what its backend
\* is owed, together they are nothing, and no backend owes a whole selection.
Ledger ==
    ~disturbed =>
        /\ \A b \in Backends : alive[b]
        /\ SumFunctionOnSet(current_weight, Backends) = 0
        /\ \A b \in Backends : current_weight[b] = Picked * Weight[b] - picks[b] * Total
        /\ \A b \in Backends : -Total < current_weight[b]

RouterInv == RouterTypes /\ OutOnlyWhenFailing /\ Ledger

-----------------------------------------------------------------------------

LEMMA BackendsFinite == IsFiniteSet(Backends)
<1> DEFINE n == Len(Order)
<1>1. n \in Nat /\ DOMAIN Order = 1..n
  BY RouterAssumption
<1>2. IsFiniteSet(1..n)
  BY <1>1, FS_Interval
<1>3. Order \in Surjection(1..n, Backends)
  BY <1>1, RouterAssumption DEF Surjection, Backends, Range
<1> QED
  BY <1>2, <1>3, FS_Surjection

\* The weights add up to something positive.
LEMMA TotalPositive == Total \in Int /\ Total > 0
<1>1. \A b \in Backends : Weight[b] \in Nat /\ Weight[b] > 0
  BY RouterAssumption
<1>2. Total \in Int
  BY <1>1, BackendsFinite, SumInt DEF Total
<1>3. PICK b \in Backends : TRUE
  BY RouterAssumption
<1>4. SumFunctionOnSet(Weight, {b}) = Weight[b]
  BY <1>1, SumSingleton
<1>5. SumFunctionOnSet(Weight, {b}) <= Total
  BY <1>1, BackendsFinite, SumMonotone DEF Total
<1> QED
  BY <1>1, <1>2, <1>4, <1>5

\* What select chooses: an eligible backend none is heavier than.
LEMMA BestFacts ==
    ASSUME current_weight \in [Backends -> Int], Eligible # {}
    PROVE  /\ Raised \in [Backends -> Int]
           /\ Best \in Eligible /\ Best \in Backends
           /\ \A c \in Eligible : Raised[c] <= Raised[Best]
<1> DEFINE Heaviest(b) == b \in Eligible /\ \A c \in Eligible : Raised[c] <= Raised[b]
           I == {i \in DOMAIN Order : Heaviest(Order[i])}
<1>1. Raised \in [Backends -> Int]
  BY RouterAssumption DEF Raised
<1>2. Eligible \subseteq Backends /\ IsFiniteSet(Eligible)
  <2>1. Eligible \subseteq Backends
    BY DEF Eligible, Probed
  <2> QED BY <2>1, BackendsFinite, FS_Subset
<1>3. PICK b \in Eligible : \A c \in Eligible : Raised[c] <= Raised[b]
  <2>1. \A c \in Eligible : Raised[c] \in Int
    BY <1>1, <1>2
  <2> QED BY <2>1, <1>2, ArgMax
<1>4. I \subseteq Nat /\ I # {}
  <2>1. DOMAIN Order \subseteq Nat
    BY RouterAssumption
  <2>2. PICK i \in DOMAIN Order : Order[i] = b
    BY <1>2 DEF Backends, Range
  <2> QED BY <2>1, <2>2, <1>3
<1>5. Min(I) \in I
  <2>1. \E x \in I : \A y \in I : x <= y
    <3> HIDE DEF I
    <3> QED BY <1>4, LeastNat
  <2> HIDE DEF I
  <2> QED BY <2>1 DEF Min
<1>6. Heaviest(Order[Min(I)])
  BY <1>5
<1>7. Best = Order[Min(I)]
  BY DEF Best
<1> QED
  BY <1>1, <1>2, <1>6, <1>7

-----------------------------------------------------------------------------
(* The ledger of the selections *)

\* While no call has failed, a selection keeps the ledger.
LEMMA SelectLedger ==
    ASSUME RouterInv, Eligible # {}, ~disturbed,
           current_weight' = NewWeights, picks' = [picks EXCEPT ![Best] = @ + 1]
    PROVE  /\ SumFunctionOnSet(current_weight, Backends)' = 0
           /\ \A b \in Backends :
                 /\ current_weight'[b] = Picked' * Weight[b] - picks'[b] * Total
                 /\ -Total < current_weight'[b]
<1> USE BackendsFinite, TotalPositive
<1> DEFINE B == Best
<1>1. /\ current_weight \in [Backends -> Int] /\ picks \in [Backends -> Nat]
      /\ \A b \in Backends : alive[b]
      /\ SumFunctionOnSet(current_weight, Backends) = 0
      /\ \A b \in Backends : current_weight[b] = Picked * Weight[b] - picks[b] * Total
      /\ \A b \in Backends : -Total < current_weight[b]
  BY DEF RouterInv, RouterTypes, Ledger
<1>2. Eligible = Backends
  BY <1>1 DEF Eligible, Probed
<1>3. Raised \in [Backends -> Int] /\ B \in Backends /\ \A c \in Backends : Raised[c] <= Raised[B]
  BY <1>1, <1>2, BestFacts
<1>4. \A b \in Backends : Weight[b] \in Int /\ Weight[b] > 0
  BY RouterAssumption
<1>5. \A b \in Backends : Raised[b] = current_weight[b] + Weight[b]
  BY <1>2 DEF Raised
<1>6. Picked \in Int /\ Picked' = Picked + 1
  <2>1. \A b \in Backends : picks[b] \in Int /\ picks'[b] \in Int
    BY <1>1, <1>3
  <2>2. picks'[B] = picks[B] + 1 /\ \A b \in Backends \ {B} : picks'[b] = picks[b]
    BY <1>1, <1>3
  <2>3. Picked \in Int
    BY <2>1, SumInt DEF Picked
  <2>4. Picked' = Picked - picks[B] + picks'[B]
    <3>1. SumFunctionOnSet(picks', Backends)
            = SumFunctionOnSet(picks, Backends) - picks[B] + picks'[B]
      <4> DEFINE p == picks
                 q == picks'
      <4>1. /\ B \in Backends /\ \A b \in Backends : p[b] \in Int /\ q[b] \in Int
            /\ \A b \in Backends \ {B} : q[b] = p[b]
        BY <1>3, <2>1, <2>2
      <4>2. SumFunctionOnSet(q, Backends) = SumFunctionOnSet(p, Backends) - p[B] + q[B]
        <5> HIDE DEF B, p, q
        <5> QED BY <4>1, SumUpdate
      <4> QED BY <4>2
    <3> QED BY <3>1 DEF Picked
  <2> QED BY <1>3, <2>1, <2>2, <2>3, <2>4
<1>7. \A p, w \in Int : (p + 1) * w = p * w + w /\ p * w \in Int
  OBVIOUS
<1>8. CASE Cardinality(Eligible) = 1
  <2>1. current_weight' = current_weight
    BY <1>8 DEF NewWeights
  <2>2. Backends = {B}
    <3>1. PICK x : Backends = {x}
      BY <1>2, <1>8, FS_Singleton
    <3> QED BY <3>1, <1>3
  <2>3. Total = Weight[B]
    BY <2>2, <1>3, <1>4, SumSingleton DEF Total
  <2>4. Picked' = picks'[B] /\ picks'[B] \in Int
    <3>1. picks'[B] \in Int
      BY <1>1, <1>3
    <3>2. SumFunctionOnSet(picks', {B}) = picks'[B]
      <4> HIDE DEF B
      <4> QED BY <3>1, SumSingleton
    <3> QED BY <3>1, <3>2, <2>2 DEF Picked
  <2>5. current_weight[B] = 0
    BY <2>2, <1>1, <1>3, SumSingleton
  <2>6. Picked' * Weight[B] - picks'[B] * Total = 0
    <3>1. \A p \in Int, w \in Int : p * w - p * w = 0
      OBVIOUS
    <3> QED BY <3>1, <2>3, <2>4, <1>3, <1>4
  <2>7. SumFunctionOnSet(current_weight, Backends)' = 0
    BY <2>1, <1>1
  <2>8. \A b \in Backends : b = B
    BY <2>2
  <2> HIDE DEF B
  <2> QED BY <2>1, <2>5, <2>6, <2>7, <2>8
<1>9. CASE Cardinality(Eligible) # 1
  <2>1. current_weight' = [Raised EXCEPT ![B] = @ - Total]
    BY <1>9 DEF NewWeights
  <2>2. /\ current_weight'[B] = Raised[B] - Total
        /\ \A b \in Backends \ {B} : current_weight'[b] = Raised[b]
        /\ \A b \in Backends : current_weight'[b] \in Int
    <3> HIDE DEF B
    <3> QED BY <2>1, <1>3
  <2>3. SumFunctionOnSet(Raised, Backends) = Total
    <3>1. \A b \in Backends : current_weight[b] \in Int /\ Weight[b] \in Int
                              /\ Raised[b] = current_weight[b] + Weight[b]
      BY <1>1, <1>4, <1>5
    <3>2. SumFunctionOnSet(Raised, Backends)
            = SumFunctionOnSet(current_weight, Backends) + SumFunctionOnSet(Weight, Backends)
      BY <3>1, SumPlus
    <3> QED BY <3>2, <1>1 DEF Total
  <2>4. Raised[B] > 0
    <3>1. \A b \in Backends : Raised[b] \in Int
      BY <1>3
    <3>2. PICK b \in Backends : Raised[b] > 0
      BY <3>1, <2>3, SumPositive
    <3> QED BY <3>1, <3>2, <1>3
  <2>5. SumFunctionOnSet(current_weight', Backends)
          = SumFunctionOnSet(Raised, Backends) - Raised[B] + current_weight'[B]
    <3>1. \A b \in Backends : Raised[b] \in Int
      BY <1>3
    <3> HIDE DEF B
    <3> QED BY <3>1, <1>3, <2>2, SumUpdate
  <2>6. SumFunctionOnSet(current_weight', Backends) = 0
    <3>1. Raised[B] \in Int
      BY <1>3
    <3> QED BY <3>1, <2>2, <2>3, <2>5
  <2>7. ASSUME NEW b \in Backends
        PROVE  /\ current_weight'[b] = Picked' * Weight[b] - picks'[b] * Total
               /\ -Total < current_weight'[b]
    <3>1. Picked' * Weight[b] = Picked * Weight[b] + Weight[b] /\ Picked * Weight[b] \in Int
      BY <1>4, <1>6, <1>7
    <3>2. /\ current_weight[b] = Picked * Weight[b] - picks[b] * Total
          /\ -Total < current_weight[b] /\ current_weight[b] \in Int
          /\ picks[b] \in Int /\ Weight[b] \in Int /\ Weight[b] > 0
      BY <1>1, <1>4
    <3>3. picks[b] * Total \in Int /\ (picks[b] + 1) * Total = picks[b] * Total + Total
      BY <3>2, <1>7
    <3>4. Raised[b] = current_weight[b] + Weight[b]
      BY <1>5
    <3>5. CASE b = B
      <4>1. picks'[b] = picks[b] + 1
        BY <3>5, <1>1
      <4>2. current_weight'[b] = Raised[b] - Total /\ Raised[b] > 0
        BY <3>5, <2>2, <2>4
      <4>3. picks'[b] * Total = picks[b] * Total + Total
        BY <4>1, <3>3
      <4> HIDE DEF B
      <4> QED BY <3>1, <3>2, <3>3, <3>4, <4>2, <4>3
    <3>6. CASE b # B
      <4>1. picks'[b] = picks[b]
        BY <3>6, <1>1
      <4>2. current_weight'[b] = Raised[b]
        BY <3>6, <2>2
      <4>3. picks'[b] * Total = picks[b] * Total
        BY <4>1
      <4> HIDE DEF B
      <4> QED BY <3>1, <3>2, <3>3, <3>4, <4>2, <4>3
    <3> QED BY <3>5, <3>6
  <2> QED BY <2>6, <2>7
<1> QED
  BY <1>8, <1>9

-----------------------------------------------------------------------------
(* The invariant *)

LEMMA RouterInitInv == RouterInit => RouterInv
<1> SUFFICES ASSUME RouterInit PROVE RouterInv
  OBVIOUS
<1> USE RouterAssumption, TotalPositive DEF RouterInit
<1>1. RouterTypes
  BY DEF RouterTypes
<1>2. OutOnlyWhenFailing
  BY DEF OutOnlyWhenFailing
<1>3. SumFunctionOnSet(current_weight, Backends) = 0 /\ Picked = 0
  BY BackendsFinite, SumZero DEF Picked
<1>4. \A b \in Backends : 0 * Weight[b] = 0 /\ 0 * Total = 0
  OBVIOUS
<1>5. Ledger
  BY <1>3, <1>4 DEF Ledger
<1> QED
  BY <1>1, <1>2, <1>5 DEF RouterInv

\* A step that touches neither the health of a backend nor the weights.
LEMMA RouterQuiet ==
    ASSUME RouterInv, UNCHANGED <<alive, failures, current_weight, picks, disturbed>>
    PROVE  RouterInv'
<1>1. Picked' = Picked
  BY DEF Picked
<1> QED
  BY <1>1 DEF RouterInv, RouterTypes, OutOnlyWhenFailing, Ledger

LEMMA SelectInv ==
    ASSUME RouterInv, NEW t \in Tasks, Select(t)
    PROVE  RouterInv'
<1>0. /\ UNCHANGED <<alive, failures, disturbed>> /\ Eligible # {}
      /\ current_weight' = NewWeights
      /\ picks' = IF disturbed THEN picks ELSE [picks EXCEPT ![Best] = @ + 1]
  BY DEF Select
<1>1. RouterTypes
  BY DEF RouterInv
<1>2. Raised \in [Backends -> Int] /\ Best \in Backends
  BY <1>0, <1>1, BestFacts DEF RouterTypes
<1>3. RouterTypes'
  <2>1. current_weight' \in [Backends -> Int]
    BY <1>0, <1>1, <1>2, TotalPositive DEF NewWeights, RouterTypes
  <2>2. picks' \in [Backends -> Nat]
    BY <1>0, <1>1, <1>2 DEF RouterTypes
  <2> QED BY <1>0, <1>1, <2>1, <2>2 DEF RouterTypes
<1>4. OutOnlyWhenFailing'
  BY <1>0 DEF RouterInv, OutOnlyWhenFailing
<1>5. Ledger'
  <2> SUFFICES ASSUME ~disturbed PROVE Ledger'
    BY <1>0 DEF Ledger
  <2>1. picks' = [picks EXCEPT ![Best] = @ + 1]
    BY <1>0
  <2>2. \A b \in Backends : alive'[b]
    BY <1>0 DEF RouterInv, Ledger
  <2> QED BY <1>0, <2>1, <2>2, SelectLedger DEF Ledger
<1> QED
  BY <1>3, <1>4, <1>5 DEF RouterInv

LEMMA SuccessInv ==
    ASSUME RouterInv, NEW t \in Tasks, CallSucceeds(t)
    PROVE  RouterInv'
<1> DEFINE b == on[t]
<1>1. /\ alive' = [alive EXCEPT ![b] = TRUE] /\ failures' = [failures EXCEPT ![b] = 0]
      /\ UNCHANGED <<current_weight, picks, disturbed>>
  BY DEF CallSucceeds, RecordSuccess
<1> HIDE DEF b
<1>2. RouterTypes'
  <2>1. alive' \in [Backends -> BOOLEAN]
    BY <1>1 DEF RouterInv, RouterTypes
  <2>2. failures' \in [Backends -> 0..MaxFailures]
    <3>1. 0 \in 0..MaxFailures
      BY RouterAssumption
    <3> QED BY <3>1, <1>1 DEF RouterInv, RouterTypes
  <2> QED BY <1>1, <2>1, <2>2 DEF RouterInv, RouterTypes
<1>3. OutOnlyWhenFailing'
  BY <1>1, RouterAssumption DEF RouterInv, RouterTypes, OutOnlyWhenFailing
<1>4. Ledger'
  <2>1. Picked' = Picked
    BY <1>1 DEF Picked
  <2>2. ~disturbed => \A c \in Backends : alive'[c]
    BY <1>1 DEF RouterInv, RouterTypes, Ledger
  <2> QED BY <1>1, <2>1, <2>2 DEF RouterInv, Ledger
<1> QED
  BY <1>2, <1>3, <1>4 DEF RouterInv

LEMMA FailureInv ==
    ASSUME RouterInv, NEW t \in Tasks, CallFails(t)
    PROVE  RouterInv'
<1> DEFINE b == on[t]
           n == IF failures[b] = MaxFailures THEN MaxFailures ELSE failures[b] + 1
<1>1. /\ failures' = [failures EXCEPT ![b] = n]
      /\ alive' = [alive EXCEPT ![b] = @ /\ n < MaxFailures]
      /\ disturbed' = TRUE /\ picks' = [c \in Backends |-> 0]
      /\ UNCHANGED current_weight
  BY DEF CallFails
<1> HIDE DEF b
<1>2. b \in Backends => n \in 0..MaxFailures
  BY RouterAssumption DEF RouterInv, RouterTypes
<1> HIDE DEF n
<1>3. RouterTypes'
  <2>1. failures' \in [Backends -> 0..MaxFailures]
    BY <1>1, <1>2 DEF RouterInv, RouterTypes
  <2>2. alive' \in [Backends -> BOOLEAN]
    BY <1>1 DEF RouterInv, RouterTypes
  <2> QED BY <1>1, <2>1, <2>2 DEF RouterInv, RouterTypes
<1>4. OutOnlyWhenFailing'
  <2> SUFFICES ASSUME NEW c \in Backends PROVE alive'[c] <=> failures'[c] < MaxFailures
    BY DEF OutOnlyWhenFailing
  <2>1. CASE c # b
    BY <1>1, <2>1 DEF RouterInv, RouterTypes, OutOnlyWhenFailing
  <2>2. CASE c = b
    <3>1. failures'[c] = n /\ (alive'[c] <=> (alive[c] /\ n < MaxFailures))
      BY <1>1, <2>2 DEF RouterInv, RouterTypes
    <3>2. n < MaxFailures => failures[c] < MaxFailures
      BY <2>2, RouterAssumption DEF n, RouterInv, RouterTypes
    <3> QED BY <3>1, <3>2 DEF RouterInv, OutOnlyWhenFailing
  <2> QED BY <2>1, <2>2
<1>5. Ledger'
  BY <1>1 DEF Ledger
<1> QED
  BY <1>3, <1>4, <1>5 DEF RouterInv

\* Every behaviour of the router keeps its invariant: the types of what select
\* and the outcomes write, the health of the backends and the ledger.
THEOREM RouterInvariance == RouterSpec => []RouterInv
<1>1. RouterInv /\ [RouterNext]_routerVars => RouterInv'
  <2> SUFFICES ASSUME RouterInv, [RouterNext]_routerVars PROVE RouterInv'
    OBVIOUS
  <2>1. ASSUME NEW t \in Tasks, Dispatch(t) PROVE RouterInv'
    BY <2>1, RouterQuiet DEF Dispatch, healthVars
  <2>2. ASSUME NEW t \in Tasks, NothingEligible(t) PROVE RouterInv'
    BY <2>2, RouterQuiet DEF NothingEligible, healthVars
  <2>3. ASSUME NEW t \in Tasks, Select(t) PROVE RouterInv'
    BY <2>3, SelectInv
  <2>4. ASSUME NEW t \in Tasks, CallSucceeds(t) PROVE RouterInv'
    BY <2>4, SuccessInv
  <2>5. ASSUME NEW t \in Tasks, CallFails(t) PROVE RouterInv'
    BY <2>5, FailureInv
  <2>6. ASSUME NEW b \in Backends, Cools(b) PROVE RouterInv'
    BY <2>6, RouterQuiet DEF Cools
  <2>7. CASE UNCHANGED routerVars
    BY <2>7, RouterQuiet DEF routerVars, healthVars
  <2> QED
    BY <2>1, <2>2, <2>3, <2>4, <2>5, <2>6, <2>7 DEF RouterNext
<1> QED
  BY <1>1, RouterInitInv, PTL DEF RouterSpec

\* A backend is out of the rotation exactly while it has MaxFailures failures
\* behind it and no success since, whatever the number of calls in flight and
\* the order their outcomes are recorded in.
THEOREM OutWhileFailing == RouterSpec => []OutOnlyWhenFailing
<1>1. RouterInv => OutOnlyWhenFailing
  BY DEF RouterInv
<1> QED
  BY <1>1, RouterInvariance, PTL

\* For any weights, select never gives a backend a whole selection more than its
\* share: what it picks had a positive weight after the increments, for these
\* add up to the positive total.
THEOREM SelectionsNotAhead == RouterSpec => []NeverAhead
<1>1. RouterInv => NeverAhead
  <2> SUFFICES ASSUME RouterInv, ~disturbed, NEW b \in Backends PROVE Ahead(b) < Total
    BY DEF NeverAhead
  <2>1. /\ current_weight[b] = Picked * Weight[b] - picks[b] * Total
        /\ -Total < current_weight[b] /\ picks[b] \in Int
    BY DEF RouterInv, RouterTypes, Ledger
  <2>2. Picked \in Int
    BY BackendsFinite, SumInt DEF Picked, RouterInv, RouterTypes
  <2>3. Weight[b] \in Int
    BY RouterAssumption
  <2>4. Picked * Weight[b] \in Int /\ picks[b] * Total \in Int
    BY <2>1, <2>2, <2>3, TotalPositive
  <2> QED
    BY <2>1, <2>4, TotalPositive DEF Ahead, Picked
<1> QED
  BY <1>1, RouterInvariance, PTL

\* For any weights no backend is starved by select: what one is owed the others
\* have had in advance, and each of them less than a whole selection.
THEOREM SelectionsNotStarved == RouterSpec => []NotStarved
<1>1. RouterInv => NotStarved
  <2> SUFFICES ASSUME RouterInv, ~disturbed, NEW b \in Backends
               PROVE  -Ahead(b) <= (Cardinality(Backends) - 1) * Total
    BY DEF NotStarved
  <2> DEFINE R == Backends \ {b}
             cw == current_weight
  <2>1. /\ cw[b] = Picked * Weight[b] - picks[b] * Total
        /\ picks[b] \in Int /\ SumFunctionOnSet(cw, Backends) = 0
        /\ \A c \in Backends : cw[c] \in Int /\ -Total < cw[c]
    BY DEF RouterInv, RouterTypes, Ledger
  <2>2. Picked \in Int
    BY BackendsFinite, SumInt DEF Picked, RouterInv, RouterTypes
  <2>3. Picked * Weight[b] \in Int /\ picks[b] * Total \in Int
    BY <2>1, <2>2, RouterAssumption, TotalPositive
  <2>4. -Ahead(b) = cw[b]
    BY <2>1, <2>3 DEF Ahead, Picked
  <2>5. /\ IsFiniteSet(R) /\ Cardinality(R) \in Nat /\ Cardinality(Backends) \in Nat
        /\ Cardinality(Backends) = Cardinality(R) + 1
    BY BackendsFinite, SmallerSet
  <2>6. Cardinality(R) * (-Total) <= SumFunctionOnSet(cw, R)
    <3>1. -Total \in Int /\ \A c \in R : cw[c] \in Int /\ -Total <= cw[c]
      BY <2>1, TotalPositive
    <3> QED BY <3>1, <2>5, SumLower
  <2>7. SumFunctionOnSet(cw, Backends) = cw[b] + SumFunctionOnSet(cw, R)
    BY <2>1, BackendsFinite, SumAny
  <2>8. SumFunctionOnSet(cw, R) \in Int
    BY <2>1, <2>5, SumInt
  <2>9. Cardinality(R) * (-Total) = -(Cardinality(R) * Total) /\ Cardinality(R) * Total \in Int
    BY <2>5, TotalPositive
  <2>10. Cardinality(R) = Cardinality(Backends) - 1
    BY <2>5
  <2> HIDE DEF R, cw
  <2> QED
    BY <2>1, <2>4, <2>6, <2>7, <2>8, <2>9, <2>10
<1> QED
  BY <1>1, RouterInvariance, PTL

\* Both halves: the selections of every backend follow its weight, whatever the
\* weights and however many requests are dispatched at the same time.
THEOREM SelectionsProportional == RouterSpec => []Proportional
<1>1. NeverAhead /\ NotStarved => Proportional
  BY DEF Proportional
<1> QED
  BY <1>1, SelectionsNotAhead, SelectionsNotStarved, PTL

=============================================================================
