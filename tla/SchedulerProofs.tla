--------------------------- MODULE SchedulerProofs ---------------------------
(***************************************************************************)
(* The scheduler's queues are correct for any number of requests, any      *)
(* limits and any combination of faults: a request is in one place at a    *)
(* time, the batch stays within its cap, a retried request runs alone, an  *)
(* aborted one generates nothing, the two maps between requests and rows   *)
(* agree, and every variable keeps its type.                               *)
(***************************************************************************)
EXTENDS Scheduler, FiniteSums, TLAPS

(* Sequences *)

\* A queue of requests.
IsQueue(q) == q \in Seq(Requests) /\ IsInjective(q)

\* g[i] is what Keep has collected after i members of q.
Rounds(X, q, S, g) ==
    /\ g \in [0..Len(q) -> Seq(X)]
    /\ g[0] = <<>> /\ Keep(q, S) = g[Len(q)]
    /\ \A i \in 1..Len(q) :
          g[i] = IF q[i] \in S THEN Append(g[i - 1], q[i]) ELSE g[i - 1]

\* Keep can be followed round by round.
LEMMA KeepRounds ==
    ASSUME NEW X, NEW q \in Seq(X), NEW S
    PROVE  \E g : Rounds(X, q, S, g)
<1> DEFINE n == Len(q)
           Fits(m, g) ==
               /\ g[0] = <<>>
               /\ \A i \in 1..m : g[i] = IF q[i] \in S THEN Append(g[i - 1], q[i]) ELSE g[i - 1]
           T == {m \in 0..n : ~ \E g \in [0..m -> Seq(X)] : Fits(m, g)}
<1>0. n \in Nat
  OBVIOUS
<1>1. T = {}
  <2> SUFFICES ASSUME T # {} PROVE FALSE
    OBVIOUS
  <2>1. PICK m \in T : \A y \in T : m <= y
    <3>1. T \subseteq Nat
      BY <1>0
    <3> HIDE DEF T
    <3> QED BY <3>1, LeastNat
  <2>2. CASE m = 0
    <3> DEFINE g == [i \in 0..0 |-> <<>>]
    <3>1. g \in [0..0 -> Seq(X)] /\ Fits(0, g)
      OBVIOUS
    <3> QED BY <2>2, <3>1
  <2>3. CASE m # 0
    <3>1. m \in 1..n /\ m - 1 \in 0..n /\ m - 1 \notin T
      <4>1. m \in 0..n
        OBVIOUS
      <4>2. m \in 1..n /\ m - 1 \in 0..n /\ m - 1 < m
        BY <4>1, <2>3, <1>0
      <4> HIDE DEF T
      <4> QED BY <4>2, <2>1
    <3>2. PICK g \in [0..(m - 1) -> Seq(X)] : Fits(m - 1, g)
      BY <3>1
    <3> DEFINE new == IF q[m] \in S THEN Append(g[m - 1], q[m]) ELSE g[m - 1]
               h == [i \in 0..m |-> IF i = m THEN new ELSE g[i]]
    <3>3. q[m] \in X /\ g[m - 1] \in Seq(X)
      BY <3>1, <3>2
    <3>4. new \in Seq(X)
      BY <3>3
    <3>5. \A i \in 0..m : i # m => i \in 0..(m - 1)
      BY <3>1
    <3>6. h \in [0..m -> Seq(X)]
      <4> HIDE DEF new
      <4> QED BY <3>2, <3>4, <3>5
    <3>7. \A i \in 0..(m - 1) : h[i] = g[i]
      <4> HIDE DEF new
      <4> QED BY <3>1
    <3>8. h[m] = new
      <4> HIDE DEF new
      <4> QED BY <3>1
    <3>9. ASSUME NEW i \in 1..m
          PROVE  h[i] = IF q[i] \in S THEN Append(h[i - 1], q[i]) ELSE h[i - 1]
      <4>1. i - 1 \in 0..(m - 1)
        BY <3>1
      <4>2. CASE i = m
        <5> HIDE DEF h
        <5> QED BY <4>1, <4>2, <3>7, <3>8
      <4>3. CASE i # m
        <5>1. i \in 1..(m - 1) /\ i \in 0..(m - 1)
          BY <3>1, <4>3
        <5> HIDE DEF h
        <5> QED BY <5>1, <4>1, <3>2, <3>7
      <4> QED BY <4>2, <4>3
    <3>10. h[0] = <<>>
      <4>1. 0 \in 0..(m - 1)
        BY <3>1
      <4> HIDE DEF h
      <4> QED BY <4>1, <3>2, <3>7
    <3>11. Fits(m, h)
      <4> HIDE DEF h
      <4> QED BY <3>9, <3>10
    <3> HIDE DEF h, Fits
    <3> QED BY <3>6, <3>11
  <2> QED BY <2>2, <2>3
<1>2. PICK g \in [0..n -> Seq(X)] : Fits(n, g)
  BY <1>0, <1>1
<1> DEFINE IsIter(f) == f = [i \in 0..n |->
                IF i = 0 THEN <<>>
                ELSE IF q[i] \in S THEN Append(f[i - 1], q[i]) ELSE f[i - 1]]
           Iter == CHOOSE f : IsIter(f)
<1>3. IsIter(g)
  <2>1. ASSUME NEW i \in 0..n
        PROVE  g[i] = IF i = 0 THEN <<>>
                      ELSE IF q[i] \in S THEN Append(g[i - 1], q[i]) ELSE g[i - 1]
    <3>1. i = 0 \/ i \in 1..n
      BY <1>0
    <3> QED BY <3>1, <1>2
  <2> QED BY <2>1, Zenon
<1>4. IsIter(Iter)
  <2> HIDE DEF IsIter
  <2> QED BY <1>3
<1>5. Keep(q, S) = Iter[n]
  BY DEF Keep
<1>6. \A i \in 0..n : Iter[i] = g[i]
  <2> DEFINE U == {i \in 0..n : Iter[i] # g[i]}
  <2> HIDE DEF Iter
  <2> SUFFICES ASSUME U # {} PROVE FALSE
    OBVIOUS
  <2>1. PICK m \in U : \A y \in U : m <= y
    <3>1. U \subseteq Nat
      BY <1>0
    <3> HIDE DEF U
    <3> QED BY <3>1, LeastNat
  <2>2. m \in 0..n
    OBVIOUS
  <2>3. m # 0
    BY <1>2, <1>4, <2>2
  <2>4. m - 1 \in 0..n /\ m - 1 < m /\ m \in 1..n
    BY <1>0, <2>2, <2>3
  <2>5. m - 1 \notin U
    <3> HIDE DEF U
    <3> QED BY <2>1, <2>4
  <2>6. Iter[m - 1] = g[m - 1]
    BY <2>4, <2>5
  <2>7. Iter[m] = IF q[m] \in S THEN Append(Iter[m - 1], q[m]) ELSE Iter[m - 1]
    BY <1>4, <2>2, <2>3
  <2>8. g[m] = IF q[m] \in S THEN Append(g[m - 1], q[m]) ELSE g[m - 1]
    BY <1>2, <2>4
  <2>9. Iter[m] # g[m]
    OBVIOUS
  <2> QED BY <2>6, <2>7, <2>8, <2>9
<1>7. Keep(q, S) = g[n]
  <2> HIDE DEF Iter
  <2> QED BY <1>0, <1>5, <1>6
<1> QED
  BY <1>2, <1>7 DEF Rounds

\* Keep has the members of S and keeps a sequence free of repetitions.
LEMMA KeepFacts ==
    ASSUME NEW X, NEW q \in Seq(X), NEW S
    PROVE  /\ Keep(q, S) \in Seq(X) /\ Len(Keep(q, S)) <= Len(q)
           /\ Range(Keep(q, S)) = Range(q) \cap S
           /\ IsInjective(q) => IsInjective(Keep(q, S))
<1> DEFINE n == Len(q)
<1>0. n \in Nat /\ DOMAIN q = 1..n /\ \A i \in 1..n : q[i] \in X
  OBVIOUS
<1>1. PICK g : /\ g \in [0..n -> Seq(X)] /\ g[0] = <<>> /\ Keep(q, S) = g[n]
                /\ \A i \in 1..n :
                      g[i] = IF q[i] \in S THEN Append(g[i - 1], q[i]) ELSE g[i - 1]
  <2>1. PICK g : Rounds(X, q, S, g)
    BY KeepRounds
  <2> QED BY <2>1 DEF Rounds
<1> DEFINE Good(i) ==
        /\ Len(g[i]) <= i
        /\ \A k \in 1..Len(g[i]) : \E j \in 1..i : g[i][k] = q[j] /\ q[j] \in S
        /\ \A j \in 1..i : q[j] \in S => \E k \in 1..Len(g[i]) : g[i][k] = q[j]
        /\ IsInjective(q) => \A k, l \in 1..Len(g[i]) : g[i][k] = g[i][l] => k = l
      T == {i \in 0..n : ~Good(i)}
<1>2. T = {}
  <2> SUFFICES ASSUME T # {} PROVE FALSE
    OBVIOUS
  <2>1. PICK m \in T : \A y \in T : m <= y
    <3>1. T \subseteq Nat
      BY <1>0
    <3> HIDE DEF T
    <3> QED BY <3>1, LeastNat
  <2>2. m \in 0..n /\ ~Good(m)
    OBVIOUS
  <2>3. m # 0
    <3>1. Good(0)
      BY <1>1
    <3> QED BY <2>2, <3>1
  <2>4. m - 1 \in 0..n /\ m - 1 < m /\ m \in 1..n
    BY <1>0, <2>2, <2>3
  <2>5. m - 1 \notin T
    <3> HIDE DEF T
    <3> QED BY <2>1, <2>4
  <2>6. Good(m - 1)
    BY <2>4, <2>5
  <2> DEFINE p == g[m - 1]
  <2>7. p \in Seq(X) /\ Len(p) \in Nat
    <3>1. p \in Seq(X)
      BY <1>1, <2>4
    <3> HIDE DEF p
    <3> QED BY <3>1
  <2>8. \A j \in 1..m : j \in 1..(m - 1) \/ j = m
    BY <2>4
  <2>9. /\ Len(p) <= m - 1
        /\ \A k \in 1..Len(p) : \E j \in 1..(m - 1) : p[k] = q[j] /\ q[j] \in S
        /\ \A j \in 1..(m - 1) : q[j] \in S => \E k \in 1..Len(p) : p[k] = q[j]
        /\ IsInjective(q) => \A k, l \in 1..Len(p) : p[k] = p[l] => k = l
    BY <2>6
  <2>10. g[m] = IF q[m] \in S THEN Append(p, q[m]) ELSE p
    BY <1>1, <2>4
  <2>11. \A j \in 1..(m - 1) : j \in 1..m
    BY <2>4
  <2>12. m \in 1..m
    BY <2>4
  <2> HIDE DEF p
  <2>13. CASE q[m] \notin S
    <3>1. g[m] = p
      BY <2>10, <2>13
    <3>2. Len(p) <= m
      BY <2>4, <2>7, <2>9
    <3>3. \A k \in 1..Len(p) : \E j \in 1..m : p[k] = q[j] /\ q[j] \in S
      BY <2>9, <2>11
    <3>4. \A j \in 1..m : q[j] \in S => \E k \in 1..Len(p) : p[k] = q[j]
      BY <2>8, <2>9, <2>13
    <3>5. Good(m)
      BY <3>1, <3>2, <3>3, <3>4, <2>9
    <3> QED BY <3>5, <2>2
  <2>14. CASE q[m] \in S
    <3> DEFINE a == Append(p, q[m])
    <3>1. g[m] = a /\ q[m] \in X
      BY <2>10, <2>14, <2>4, <1>0
    <3>2. /\ Len(a) = Len(p) + 1 /\ a[Len(p) + 1] = q[m]
          /\ \A k \in 1..Len(p) : a[k] = p[k]
      BY <3>1, <2>7
    <3>3. \A k \in 1..(Len(p) + 1) : k \in 1..Len(p) \/ k = Len(p) + 1
      BY <2>7
    <3>4. \A k \in 1..Len(p) : k \in 1..(Len(p) + 1)
      BY <2>7
    <3>5. Len(p) + 1 \in 1..(Len(p) + 1)
      BY <2>7
    <3> HIDE DEF a
    <3>6. Len(a) <= m
      BY <3>2, <2>9, <2>7, <2>4
    <3>7. ASSUME NEW k \in 1..Len(a)
          PROVE  \E j \in 1..m : a[k] = q[j] /\ q[j] \in S
      <4>1. CASE k \in 1..Len(p)
        <5>1. PICK j \in 1..(m - 1) : p[k] = q[j] /\ q[j] \in S
          BY <4>1, <2>9
        <5>2. a[k] = q[j] /\ j \in 1..m
          BY <5>1, <4>1, <3>2, <2>11
        <5> QED BY <5>1, <5>2
      <4>2. CASE k = Len(p) + 1
        BY <4>2, <3>2, <2>12, <2>14
      <4> QED BY <4>1, <4>2, <3>2, <3>3
    <3>8. ASSUME NEW j \in 1..m, q[j] \in S
          PROVE  \E k \in 1..Len(a) : a[k] = q[j]
      <4>1. CASE j \in 1..(m - 1)
        <5>1. PICK k \in 1..Len(p) : p[k] = q[j]
          BY <4>1, <3>8, <2>9
        <5>2. k \in 1..Len(a) /\ a[k] = q[j]
          BY <5>1, <3>2, <3>4
        <5> QED BY <5>2
      <4>2. CASE j = m
        BY <4>2, <3>2, <3>5
      <4> QED BY <4>1, <4>2, <2>8
    <3>9. ASSUME IsInjective(q), NEW k \in 1..Len(a), NEW l \in 1..Len(a), a[k] = a[l]
          PROVE  k = l
      <4>1. \A i \in 1..Len(p) : p[i] # q[m]
        <5> SUFFICES ASSUME NEW i \in 1..Len(p), p[i] = q[m] PROVE FALSE
          OBVIOUS
        <5>1. PICK j \in 1..(m - 1) : p[i] = q[j]
          BY <2>9
        <5>2. j \in DOMAIN q /\ m \in DOMAIN q /\ j # m
          BY <1>0, <2>4
        <5> QED BY <5>1, <5>2, <3>9 DEF IsInjective
      <4>2. CASE k \in 1..Len(p) /\ l \in 1..Len(p)
        <5>1. p[k] = p[l]
          BY <4>2, <3>2, <3>9
        <5> QED BY <5>1, <4>2, <3>9, <2>9
      <4>3. CASE k = Len(p) + 1 /\ l \in 1..Len(p)
        BY <4>3, <4>1, <3>2, <3>9
      <4>4. CASE k \in 1..Len(p) /\ l = Len(p) + 1
        BY <4>4, <4>1, <3>2, <3>9
      <4>5. k \in 1..(Len(p) + 1) /\ l \in 1..(Len(p) + 1)
        BY <3>2
      <4> QED BY <4>2, <4>3, <4>4, <4>5, <3>3
    <3>10. Good(m)
      BY <3>1, <3>6, <3>7, <3>8, <3>9
    <3> QED BY <3>10, <2>2
  <2> QED BY <2>13, <2>14
<1>3. Good(n) /\ g[n] \in Seq(X)
  <2>1. n \in 0..n
    BY <1>0
  <2>2. n \notin T
    BY <1>2
  <2>3. Good(n)
    BY <2>1, <2>2
  <2> QED BY <2>1, <2>3, <1>1
<1> DEFINE k == Keep(q, S)
<1>4. /\ k \in Seq(X) /\ Len(k) <= n /\ DOMAIN k = 1..Len(k)
      /\ \A x \in 1..Len(k) : \E j \in 1..n : k[x] = q[j] /\ q[j] \in S
      /\ \A j \in 1..n : q[j] \in S => \E x \in 1..Len(k) : k[x] = q[j]
      /\ IsInjective(q) => \A x, y \in 1..Len(k) : k[x] = k[y] => x = y
  BY <1>1, <1>3
<1> HIDE DEF k
<1>5. Range(k) = Range(q) \cap S
  <2>1. Range(k) = {k[x] : x \in 1..Len(k)} /\ Range(q) = {q[x] : x \in 1..n}
    BY <1>0, <1>4 DEF Range
  <2>2. ASSUME NEW v \in Range(k)
        PROVE  v \in Range(q) /\ v \in S
    <3>1. PICK x \in 1..Len(k) : v = k[x]
      BY <2>1
    <3>2. PICK j \in 1..n : k[x] = q[j] /\ q[j] \in S
      BY <1>4
    <3> QED BY <2>1, <3>1, <3>2
  <2>3. ASSUME NEW v \in Range(q), v \in S
        PROVE  v \in Range(k)
    <3>1. PICK j \in 1..n : v = q[j]
      BY <2>1
    <3>2. PICK x \in 1..Len(k) : k[x] = q[j]
      BY <1>4, <2>3, <3>1
    <3> QED BY <2>1, <3>1, <3>2
  <2> QED BY <2>2, <2>3
<1>6. IsInjective(q) => IsInjective(k)
  BY <1>4 DEF IsInjective
<1> QED
  BY <1>4, <1>5, <1>6 DEF k

\* Two disjoint selections are together no longer than the sequence.
LEMMA KeepSplit ==
    ASSUME NEW X, NEW q \in Seq(X), NEW S, NEW R, S \cap R = {}
    PROVE  Len(Keep(q, S)) + Len(Keep(q, R)) <= Len(q)
<1> DEFINE n == Len(q)
<1>0. n \in Nat /\ \A i \in 1..n : q[i] \in X
  OBVIOUS
<1>1. PICK g : /\ g \in [0..n -> Seq(X)] /\ g[0] = <<>> /\ Keep(q, S) = g[n]
                /\ \A i \in 1..n :
                      g[i] = IF q[i] \in S THEN Append(g[i - 1], q[i]) ELSE g[i - 1]
  <2>1. PICK g : Rounds(X, q, S, g)
    BY KeepRounds
  <2> QED BY <2>1 DEF Rounds
<1>2. PICK h : /\ h \in [0..n -> Seq(X)] /\ h[0] = <<>> /\ Keep(q, R) = h[n]
                /\ \A i \in 1..n :
                      h[i] = IF q[i] \in R THEN Append(h[i - 1], q[i]) ELSE h[i - 1]
  <2>1. PICK h : Rounds(X, q, R, h)
    BY KeepRounds
  <2> QED BY <2>1 DEF Rounds
<1> DEFINE Fits(i) == Len(g[i]) + Len(h[i]) <= i
           T == {i \in 0..n : ~Fits(i)}
<1>3. T = {}
  <2> HIDE DEF Fits
  <2> SUFFICES ASSUME T # {} PROVE FALSE
    OBVIOUS
  <2>1. PICK m \in T : \A y \in T : m <= y
    <3>1. T \subseteq Nat
      BY <1>0
    <3> HIDE DEF T
    <3> QED BY <3>1, LeastNat
  <2>2. m \in 0..n /\ ~Fits(m)
    OBVIOUS
  <2>3. m # 0
    BY <2>2, <1>1, <1>2 DEF Fits
  <2>4. m - 1 \in 0..n /\ m - 1 < m /\ m \in 1..n
    BY <1>0, <2>2, <2>3
  <2>5. m - 1 \notin T
    <3> HIDE DEF T
    <3> QED BY <2>1, <2>4
  <2>6. Len(g[m - 1]) + Len(h[m - 1]) <= m - 1
    BY <2>4, <2>5 DEF Fits
  <2>7. g[m - 1] \in Seq(X) /\ h[m - 1] \in Seq(X)
    BY <1>1, <1>2, <2>4
  <2>8. Len(g[m - 1]) \in Nat /\ Len(h[m - 1]) \in Nat /\ q[m] \in X
    BY <1>0, <2>4, <2>7
  <2>9. Len(g[m]) = Len(g[m - 1]) + (IF q[m] \in S THEN 1 ELSE 0)
    <3> DEFINE a == g[m - 1]
    <3>1. g[m] = IF q[m] \in S THEN Append(a, q[m]) ELSE a
      BY <1>1, <2>4
    <3>2. a \in Seq(X) /\ q[m] \in X /\ Len(a) \in Nat
      BY <2>7, <2>8
    <3> HIDE DEF a
    <3>3. Len(Append(a, q[m])) = Len(a) + 1
      BY <3>2
    <3>4. CASE q[m] \in S
      BY <3>1, <3>2, <3>3, <3>4 DEF a
    <3>5. CASE q[m] \notin S
      BY <3>1, <3>2, <3>5 DEF a
    <3> QED BY <3>4, <3>5
  <2>10. Len(h[m]) = Len(h[m - 1]) + (IF q[m] \in R THEN 1 ELSE 0)
    <3> DEFINE a == h[m - 1]
    <3>1. h[m] = IF q[m] \in R THEN Append(a, q[m]) ELSE a
      BY <1>2, <2>4
    <3>2. a \in Seq(X) /\ q[m] \in X /\ Len(a) \in Nat
      BY <2>7, <2>8
    <3> HIDE DEF a
    <3>3. Len(Append(a, q[m])) = Len(a) + 1
      BY <3>2
    <3>4. CASE q[m] \in R
      BY <3>1, <3>2, <3>3, <3>4 DEF a
    <3>5. CASE q[m] \notin R
      BY <3>1, <3>2, <3>5 DEF a
    <3> QED BY <3>4, <3>5
  <2>11. Len(g[m]) + Len(h[m]) <= m
    <3> DEFINE a == Len(g[m - 1])
               b == Len(h[m - 1])
    <3>1. a \in Nat /\ b \in Nat /\ a + b <= m - 1 /\ m \in Nat
      <4>1. m \in Nat
        BY <1>0, <2>4
      <4>2. a \in Nat /\ b \in Nat /\ a + b <= m - 1
        BY <2>6, <2>8
      <4> QED BY <4>1, <4>2
    <3>2. Len(g[m]) = a + (IF q[m] \in S THEN 1 ELSE 0)
      BY <2>9
    <3>3. Len(h[m]) = b + (IF q[m] \in R THEN 1 ELSE 0)
      BY <2>10
    <3>4. ~ (q[m] \in S /\ q[m] \in R)
      OBVIOUS
    <3> HIDE DEF a, b
    <3> QED BY <3>1, <3>2, <3>3, <3>4
  <2> QED BY <2>2, <2>11 DEF Fits
<1>4. Fits(n)
  <2> HIDE DEF Fits
  <2> QED BY <1>0, <1>3
<1> QED
  BY <1>1, <1>2, <1>4

\* Adding to a queue.
LEMMA AppendFacts ==
    ASSUME NEW q, IsQueue(q), NEW r \in Requests \ Range(q)
    PROVE  /\ IsQueue(Append(q, r)) /\ Len(Append(q, r)) = Len(q) + 1 /\ Len(q) \in Nat
           /\ Range(Append(q, r)) = Range(q) \cup {r}
<1> DEFINE n == Len(q)
           a == Append(q, r)
<1>1. q \in Seq(Requests) /\ n \in Nat /\ DOMAIN q = 1..n
  BY DEF IsQueue
<1>2. a \in Seq(Requests) /\ Len(a) = n + 1 /\ DOMAIN a = 1..(n + 1)
  BY <1>1
<1>3. a[n + 1] = r /\ \A i \in 1..n : a[i] = q[i]
  BY <1>1
<1>4. \A i \in 1..(n + 1) : i \in 1..n \/ i = n + 1
  BY <1>1
<1>5. \A i \in 1..n : i \in 1..(n + 1) /\ q[i] # r
  BY <1>1 DEF Range
<1>6. n + 1 \in 1..(n + 1)
  BY <1>1
<1>7. \A i, j \in 1..n : q[i] = q[j] => i = j
  BY <1>1 DEF IsQueue, IsInjective
<1> HIDE DEF a, n
<1>8. IsInjective(a)
  BY <1>2, <1>3, <1>4, <1>5, <1>7 DEF IsInjective
<1>9. Range(a) = Range(q) \cup {r}
  <2>1. \A v \in Range(a) : v \in Range(q) \/ v = r
    BY <1>1, <1>2, <1>3, <1>4 DEF Range
  <2>2. \A v \in Range(q) : v \in Range(a)
    BY <1>1, <1>2, <1>3, <1>5 DEF Range
  <2>3. r \in Range(a)
    BY <1>2, <1>3, <1>6 DEF Range
  <2> QED BY <2>1, <2>2, <2>3
<1> QED
  BY <1>1, <1>2, <1>8, <1>9 DEF IsQueue, a, n

\* Taking the head off a queue.
LEMMA TailFacts ==
    ASSUME NEW q, IsQueue(q), q # <<>>
    PROVE  /\ IsQueue(Tail(q)) /\ Len(Tail(q)) = Len(q) - 1 /\ Len(q) \in Nat
           /\ Head(q) \in Range(q) /\ Head(q) \in Requests
           /\ Range(Tail(q)) = Range(q) \ {Head(q)}
<1> DEFINE n == Len(q)
           t == Tail(q)
<1>1. q \in Seq(Requests) /\ n \in Nat /\ DOMAIN q = 1..n /\ n # 0
  BY DEF IsQueue
<1>2. t \in Seq(Requests) /\ Len(t) = n - 1 /\ DOMAIN t = 1..(n - 1)
  BY <1>1
<1>3. \A i \in 1..(n - 1) : t[i] = q[i + 1] /\ i + 1 \in 1..n /\ i + 1 # 1
  BY <1>1
<1>4. Head(q) = q[1] /\ 1 \in 1..n
  BY <1>1
<1>5. \A i \in 1..n : i = 1 \/ i - 1 \in 1..(n - 1)
  BY <1>1
<1>6. \A i, j \in 1..n : q[i] = q[j] => i = j
  BY <1>1 DEF IsQueue, IsInjective
<1> HIDE DEF t, n
<1>7. IsInjective(t)
  <2> SUFFICES ASSUME NEW i \in 1..(n - 1), NEW j \in 1..(n - 1), t[i] = t[j] PROVE i = j
    BY <1>2 DEF IsInjective
  <2>1. i + 1 = j + 1
    BY <1>3, <1>6
  <2> QED BY <2>1, <1>1
<1>8. Range(t) = Range(q) \ {Head(q)}
  <2>1. \A v \in Range(t) : v \in Range(q) /\ v # Head(q)
    <3> SUFFICES ASSUME NEW i \in 1..(n - 1) PROVE t[i] \in Range(q) /\ t[i] # Head(q)
      BY <1>2 DEF Range
    <3>1. t[i] = q[i + 1] /\ i + 1 \in 1..n /\ i + 1 # 1
      BY <1>3
    <3> QED BY <3>1, <1>1, <1>4, <1>6 DEF Range
  <2>2. \A v \in Range(q) : v # Head(q) => v \in Range(t)
    <3> SUFFICES ASSUME NEW i \in 1..n, q[i] # Head(q) PROVE q[i] \in Range(t)
      BY <1>1 DEF Range
    <3>1. i - 1 \in 1..(n - 1)
      BY <1>4, <1>5
    <3>2. t[i - 1] = q[(i - 1) + 1]
      BY <3>1, <1>3
    <3>3. (i - 1) + 1 = i
      BY <1>1
    <3> QED BY <3>1, <3>2, <3>3, <1>2 DEF Range
  <2> QED BY <2>1, <2>2
<1>9. Head(q) \in Range(q) /\ Head(q) \in Requests
  BY <1>1, <1>4 DEF Range
<1> QED
  BY <1>1, <1>2, <1>7, <1>8, <1>9 DEF IsQueue, t, n

\* Joining two queues that share no request.
LEMMA JoinFacts ==
    ASSUME NEW p, NEW q, IsQueue(p), IsQueue(q), Range(p) \cap Range(q) = {}
    PROVE  /\ IsQueue(p \o q) /\ Len(p \o q) = Len(p) + Len(q)
           /\ Len(p) \in Nat /\ Len(q) \in Nat
           /\ Range(p \o q) = Range(p) \cup Range(q)
<1> DEFINE m == Len(p)
           n == Len(q)
           j == p \o q
<1>1. /\ p \in Seq(Requests) /\ m \in Nat /\ DOMAIN p = 1..m
      /\ q \in Seq(Requests) /\ n \in Nat /\ DOMAIN q = 1..n
  BY DEF IsQueue
<1>2. j \in Seq(Requests) /\ Len(j) = m + n /\ DOMAIN j = 1..(m + n)
  BY <1>1
<1>3. \A i \in 1..m : j[i] = p[i] /\ i \in 1..(m + n)
  BY <1>1
<1>4. \A i \in 1..n : j[m + i] = q[i] /\ m + i \in 1..(m + n)
  BY <1>1
<1>5. \A i \in 1..(m + n) : i \in 1..m \/ (i - m \in 1..n /\ m + (i - m) = i)
  BY <1>1
<1>6. /\ \A i, k \in 1..m : p[i] = p[k] => i = k
      /\ \A i, k \in 1..n : q[i] = q[k] => i = k
      /\ \A i \in 1..m, k \in 1..n : p[i] # q[k]
  <2>1. \A i \in 1..m, k \in 1..n : p[i] \in Range(p) /\ q[k] \in Range(q)
    BY <1>1 DEF Range
  <2> QED BY <2>1, <1>1 DEF IsQueue, IsInjective
<1> HIDE DEF j, m, n
<1>7. IsInjective(j)
  <2> SUFFICES ASSUME NEW i \in 1..(m + n), NEW k \in 1..(m + n), j[i] = j[k] PROVE i = k
    BY <1>2 DEF IsInjective
  <2>1. i \in 1..m \/ (i - m \in 1..n /\ j[i] = q[i - m])
    BY <1>4, <1>5
  <2>2. k \in 1..m \/ (k - m \in 1..n /\ j[k] = q[k - m])
    BY <1>4, <1>5
  <2>3. CASE i \in 1..m /\ k \in 1..m
    BY <2>3, <1>3, <1>6
  <2>4. CASE i \in 1..m /\ k - m \in 1..n /\ j[k] = q[k - m]
    BY <2>4, <1>3, <1>6
  <2>5. CASE i - m \in 1..n /\ j[i] = q[i - m] /\ k \in 1..m
    BY <2>5, <1>3, <1>6
  <2>6. CASE i - m \in 1..n /\ j[i] = q[i - m] /\ k - m \in 1..n /\ j[k] = q[k - m]
    <3>1. i - m = k - m
      BY <2>6, <1>6
    <3> QED BY <3>1, <1>1
  <2> QED BY <2>1, <2>2, <2>3, <2>4, <2>5, <2>6
<1>8. Range(j) = Range(p) \cup Range(q)
  <2>1. \A v \in Range(j) : v \in Range(p) \/ v \in Range(q)
    <3> SUFFICES ASSUME NEW i \in 1..(m + n) PROVE j[i] \in Range(p) \/ j[i] \in Range(q)
      BY <1>2 DEF Range
    <3>1. CASE i \in 1..m
      BY <3>1, <1>1, <1>3 DEF Range
    <3>2. CASE i - m \in 1..n /\ m + (i - m) = i
      <4>1. j[i] = q[i - m]
        BY <3>2, <1>4
      <4> QED BY <4>1, <3>2, <1>1 DEF Range
    <3> QED BY <3>1, <3>2, <1>5
  <2>2. \A v \in Range(p) : v \in Range(j)
    BY <1>1, <1>2, <1>3 DEF Range
  <2>3. \A v \in Range(q) : v \in Range(j)
    BY <1>1, <1>2, <1>4 DEF Range
  <2> QED BY <2>1, <2>2, <2>3
<1> QED
  BY <1>1, <1>2, <1>7, <1>8 DEF IsQueue, j, m, n

\* Turning a queue round.
LEMMA ReverseFacts ==
    ASSUME NEW q, IsQueue(q)
    PROVE  IsQueue(Reverse(q)) /\ Range(Reverse(q)) = Range(q)
<1> DEFINE n == Len(q)
           t == Reverse(q)
<1>1. q \in Seq(Requests) /\ n \in Nat /\ DOMAIN q = 1..n
  BY DEF IsQueue
<1>2. \A i \in 1..n : (n - i) + 1 \in 1..n /\ (n - ((n - i) + 1)) + 1 = i
  BY <1>1
<1>3. \A i \in 1..n : t[i] = q[(n - i) + 1]
  BY DEF Reverse
<1>4. t \in Seq(Requests) /\ DOMAIN t = 1..n
  <2>1. t = [i \in 1..n |-> q[(n - i) + 1]]
    BY DEF Reverse
  <2>2. \A i \in 1..n : q[(n - i) + 1] \in Requests
    BY <1>1, <1>2
  <2> HIDE DEF t, n
  <2> QED BY <2>1, <2>2, <1>1
<1>5. \A i, k \in 1..n : q[i] = q[k] => i = k
  BY <1>1 DEF IsQueue, IsInjective
<1> HIDE DEF t, n
<1>6. IsInjective(t)
  <2> SUFFICES ASSUME NEW i \in 1..n, NEW k \in 1..n, t[i] = t[k] PROVE i = k
    BY <1>4 DEF IsInjective
  <2>1. (n - i) + 1 = (n - k) + 1
    BY <1>2, <1>3, <1>5
  <2> QED BY <2>1, <1>1
<1>7. Range(t) = Range(q)
  <2>1. \A v \in Range(t) : v \in Range(q)
    BY <1>1, <1>2, <1>3, <1>4 DEF Range
  <2>2. \A v \in Range(q) : v \in Range(t)
    <3> SUFFICES ASSUME NEW i \in 1..n PROVE q[i] \in Range(t)
      BY <1>1 DEF Range
    <3>1. t[(n - i) + 1] = q[i] /\ (n - i) + 1 \in 1..n
      BY <1>2, <1>3
    <3> QED BY <3>1, <1>4 DEF Range
  <2> QED BY <2>1, <2>2
<1> QED
  BY <1>4, <1>6, <1>7 DEF IsQueue, t

\* Joining any two sequences.
LEMMA JoinRange ==
    ASSUME NEW p, NEW q, p \in Seq(Range(p)), q \in Seq(Range(q))
    PROVE  p \o q \in Seq(Range(p \o q)) /\ Range(p \o q) = Range(p) \cup Range(q)
<1> DEFINE m == Len(p)
           n == Len(q)
           j == p \o q
           X == Range(p) \cup Range(q)
<1>1. /\ p \in Seq(X) /\ m \in Nat /\ DOMAIN p = 1..m
      /\ q \in Seq(X) /\ n \in Nat /\ DOMAIN q = 1..n
  OBVIOUS
<1>2. j \in Seq(X) /\ Len(j) = m + n /\ DOMAIN j = 1..(m + n)
  <2> HIDE DEF X
  <2> QED BY <1>1
<1>3. \A i \in 1..m : j[i] = p[i] /\ i \in 1..(m + n)
  <2> HIDE DEF X
  <2> QED BY <1>1
<1>4. \A i \in 1..n : j[m + i] = q[i] /\ m + i \in 1..(m + n)
  <2> HIDE DEF X
  <2> QED BY <1>1
<1>5. Range(j) = Range(p) \cup Range(q)
  <2>1. \A v \in Range(j) : v \in Range(p) \/ v \in Range(q)
    <3>1. \A i \in 1..(m + n) : j[i] \in X
      <4> HIDE DEF X, j, m, n
      <4> QED BY <1>2
    <3>2. \A i \in 1..(m + n) : j[i] \in Range(p) \/ j[i] \in Range(q)
      BY <3>1
    <3> HIDE DEF j, m, n, X
    <3> QED BY <3>2, <1>2 DEF Range
  <2> HIDE DEF j, m, n, X
  <2>2. \A v \in Range(p) : v \in Range(j)
    BY <1>1, <1>2, <1>3 DEF Range
  <2>3. \A v \in Range(q) : v \in Range(j)
    BY <1>1, <1>2, <1>4 DEF Range
  <2> QED BY <2>1, <2>2, <2>3
<1>6. j \in Seq(Range(j))
  <2> HIDE DEF j
  <2> QED BY <1>2, <1>5
<1> QED
  BY <1>5, <1>6

\* A queue cut down to some of its members.
LEMMA CutFacts ==
    ASSUME NEW q, IsQueue(q), NEW S
    PROVE  /\ IsQueue(Keep(q, S)) /\ Range(Keep(q, S)) = Range(q) \cap S
           /\ Len(Keep(q, S)) <= Len(q) /\ Len(q) \in Nat /\ Len(Keep(q, S)) \in Nat
           /\ Range(q) \subseteq Requests
<1>1. q \in Seq(Requests) /\ IsInjective(q)
  BY DEF IsQueue
<1>2. /\ Keep(q, S) \in Seq(Requests) /\ Len(Keep(q, S)) <= Len(q)
      /\ Range(Keep(q, S)) = Range(q) \cap S /\ IsInjective(Keep(q, S))
  BY <1>1, KeepFacts
<1>3. Range(q) \subseteq Requests
  BY <1>1 DEF Range
<1> QED
  BY <1>1, <1>2, <1>3 DEF IsQueue

-----------------------------------------------------------------------------
(* The inductive invariant *)

Waiting == Range(waiting)
Prefilling == Range(prefilling)
Running == Range(running)
Current == {cur} \ {NoRequest}

\* The requests that have a place in the batch, and all the scheduler serves.
Admitted == Prefilling \cup Running \cup Current
Active == Waiting \cup Admitted

\* The requests whose removal is deferred.
Removed == {e.req : e \in Range(removes) \cup Range(draining)}

\* The places of the batch that are taken.
Size == Len(running) + Len(prefilling) + (IF cur = NoRequest THEN 0 ELSE 1)

QueueTypes ==
    /\ IsQueue(waiting) /\ IsQueue(prefilling) /\ IsQueue(running)
    /\ cur \in Requests \cup {NoRequest}
    /\ removes \in Seq(Range(removes)) /\ draining \in Seq(Range(draining))
    /\ tokens \in [Requests -> Nat]
    /\ client \in [Requests -> {"absent", "open", "closed"}]
    /\ aborted \subseteq Requests

\* What each point of a step may find left over.
Phases ==
    /\ cur # NoRequest <=> pc = "prefill"
    /\ rejected # {} => pc \in {"schedule", "prefill"}
    /\ out # {} => pc \in {"decode", "deliver", "failed"}

\* A request is in one place at a time.
Apart ==
    /\ Waiting \cap Prefilling = {} /\ Waiting \cap Running = {}
    /\ Prefilling \cap Running = {}
    /\ cur \notin Waiting \cup Prefilling \cup Running
    /\ rejected \cap out = {} /\ Active \cap (rejected \cup out) = {}

\* Scheduler.requests has every request that is served, and none of these is
\* about to be removed.
Tracked == Active \subseteq requests /\ Removed \cap Active = {}

\* A request that was not added yet is nowhere.
Unseen ==
    \A r \in Requests : client[r] = "absent" =>
        r \notin requests \cup Removed \cup aborted \cup rejected \cup out

\* An abort stays pending as long as the request is served.
AbortsPend ==
    /\ pending_aborts \subseteq aborted
    /\ \A r \in aborted : client[r] = "closed"
    /\ pc # "failed" => aborted \cap Active \subseteq pending_aborts

\* The batch stays within its cap, and within one for a retry.
Sized ==
    /\ Size <= MaxSeqs
    /\ recovery \cap Admitted # {} => Size <= 1

\* What has to go wrong before a request is rejected or aborted.
Causes ==
    /\ rejected # {} => faults \cap {"oom", "slow", "memory"} # {}
    /\ store_stall = "expired" => "slow" \in faults
    /\ mem_stall \in [id : Requests \cup {NoRequest}, age : Nat]
    /\ mem_stall # NoStall => "memory" \in faults
    /\ aborted # {} => "abort" \in faults

\* No cache error in an inline prefill, and no rejection in a pass that an abort
\* can unwind: both lose outputs (see PrefillAborted and CacheCorruption).
OutputsKept(F) ==
    "badcache" \notin F /\ ("abort" \in F => F \cap {"oom", "slow", "memory"} = {})

\* Nobody who waits for an answer is forgotten.
Homed ==
    OutputsKept(faults) /\ pc # "failed" =>
        \A r \in Requests : client[r] = "open" => r \in Active \cup rejected \cup out

\* A chunked prefill has a chunk left to run.
ChunksLeft ==
    chunks \in [Requests -> Int] /\ \A r \in Prefilling : chunks[r] >= 1

SchedInv ==
    /\ QueueTypes /\ Phases /\ Apart /\ Tracked /\ Unseen /\ AbortsPend
    /\ Sized /\ Causes /\ Homed

-----------------------------------------------------------------------------

LEMMA EmptyQueue == IsQueue(<<>>) /\ Range(<<>>) = {} /\ Len(<<>>) = 0
  BY DEF IsQueue, IsInjective, Range

\* The places that are taken are a natural number.
LEMMA SizeNat ==
    ASSUME QueueTypes
    PROVE  Size \in Nat /\ Len(running) \in Nat /\ Len(prefilling) \in Nat
  BY DEF QueueTypes, Size, IsQueue

LEMMA SchedInitInv == SchedInit => SchedInv
<1> SUFFICES ASSUME SchedInit PROVE SchedInv
  OBVIOUS
<1> USE SchedulerAssumption DEF SchedInit
<1>0. /\ Waiting = {} /\ Prefilling = {} /\ Running = {} /\ Current = {}
      /\ Admitted = {} /\ Active = {} /\ Size = 0
  BY EmptyQueue DEF Waiting, Prefilling, Running, Current, Admitted, Active, Size
<1>1. Removed = {}
  BY EmptyQueue DEF Removed
<1>2. QueueTypes
  <2>1. <<>> \in Seq(Range(<<>>))
    OBVIOUS
  <2> QED BY <2>1, EmptyQueue DEF QueueTypes
<1>3. Phases
  BY DEF Phases
<1>4. Apart /\ Tracked /\ Unseen /\ AbortsPend
  BY <1>0, <1>1 DEF Apart, Tracked, Unseen, AbortsPend
<1>5. Sized
  BY <1>0 DEF Sized
<1>6. Causes
  BY DEF Causes, NoStall
<1>7. Homed
  BY DEF Homed
<1> QED
  BY <1>2, <1>3, <1>4, <1>5, <1>6, <1>7 DEF SchedInv

\* A step that leaves the queues alone.
LEMMA QuietInv ==
    ASSUME SchedInv, Phases', Causes',
           UNCHANGED <<waiting, prefilling, running, requests, cur, removes, draining,
                       tokens, client, aborted, pending_aborts, recovery, faults,
                       rejected, out>>,
           pc = "failed" => pc' = "failed"
    PROVE  SchedInv'
<1>0. /\ UNCHANGED <<Waiting, Prefilling, Running, Current, Admitted, Active, Removed, Size>>
  BY DEF Waiting, Prefilling, Running, Current, Admitted, Active, Removed, Size
<1>1. QueueTypes'
  BY DEF SchedInv, QueueTypes
<1>2. Apart' /\ Tracked' /\ Unseen'
  BY <1>0 DEF SchedInv, Apart, Tracked, Unseen
<1>3. AbortsPend'
  BY <1>0 DEF SchedInv, AbortsPend
<1>4. Sized'
  BY <1>0 DEF SchedInv, Sized
<1>5. Homed'
  BY <1>0 DEF SchedInv, Homed
<1> QED
  BY <1>1, <1>2, <1>3, <1>4, <1>5 DEF SchedInv

\* _schedule_waiting returns; the queue may have been rotated.
LEMMA LeaveInv ==
    ASSUME SchedInv, pc = "schedule", LeaveSchedule,
           IsQueue(waiting'), Range(waiting') = Range(waiting),
           UNCHANGED <<prefilling, running, requests, cur, removes, draining, tokens,
                       client, aborted, pending_aborts, recovery, faults>>,
           store_stall' = "expired" => "slow" \in faults,
           mem_stall' \in [id : Requests \cup {NoRequest}, age : Nat],
           mem_stall' # NoStall => "memory" \in faults
    PROVE  SchedInv'
<1>0. /\ UNCHANGED <<Waiting, Prefilling, Running, Current, Admitted, Active, Removed, Size>>
      /\ pc' = "decode" /\ out' = out \cup rejected /\ rejected' = {}
  BY DEF Waiting, Prefilling, Running, Current, Admitted, Active, Removed, Size, LeaveSchedule
<1>1. QueueTypes'
  BY DEF SchedInv, QueueTypes
<1>2. Phases'
  BY <1>0 DEF SchedInv, Phases
<1>3. Apart' /\ Tracked' /\ Unseen'
  BY <1>0 DEF SchedInv, Apart, Tracked, Unseen
<1>4. AbortsPend'
  BY <1>0 DEF SchedInv, AbortsPend
<1>5. Sized'
  BY <1>0 DEF SchedInv, Sized
<1>6. Causes'
  BY <1>0 DEF SchedInv, Causes
<1>7. Homed'
  BY <1>0 DEF SchedInv, Homed
<1> QED
  BY <1>1, <1>2, <1>3, <1>4, <1>5, <1>6, <1>7 DEF SchedInv

\* A waiting request is rejected and the loop of _schedule_waiting goes on.
LEMMA RejectInv ==
    ASSUME SchedInv, pc = "schedule", NEW r \in Waiting,
           IsQueue(waiting'), Range(waiting') = Waiting \ {r},
           requests' = requests \ {r}, rejected' = rejected \cup {r},
           faults \cap {"oom", "slow", "memory"} # {},
           UNCHANGED <<prefilling, running, cur, removes, draining, tokens,
                       client, aborted, pending_aborts, recovery, faults, pc, out>>,
           store_stall' = "expired" => "slow" \in faults,
           mem_stall' = NoStall \/ mem_stall' = mem_stall
    PROVE  SchedInv'
<1>0. /\ UNCHANGED <<Prefilling, Running, Current, Admitted, Removed, Size>>
      /\ Waiting' = Waiting \ {r}
  BY DEF Waiting, Prefilling, Running, Current, Admitted, Removed, Size
<1>1. r \notin Admitted /\ r \in Active /\ Active' = Active \ {r} /\ r \in Requests
  <2>1. r \in Requests /\ NoRequest \notin Requests
    BY SchedulerAssumption, CutFacts DEF SchedInv, QueueTypes, Waiting
  <2>2. r \notin Admitted
    BY DEF SchedInv, Apart, Admitted, Current
  <2> QED BY <2>1, <2>2, <1>0 DEF Active
<1>2. QueueTypes'
  BY DEF SchedInv, QueueTypes
<1>3. Phases'
  BY <1>0 DEF SchedInv, Phases
<1>4. Apart' /\ Tracked' /\ Unseen'
  BY <1>0, <1>1 DEF SchedInv, Apart, Tracked, Unseen, Phases
<1>5. AbortsPend'
  BY <1>0, <1>1 DEF SchedInv, AbortsPend
<1>6. Sized'
  BY <1>0 DEF SchedInv, Sized
<1>7. Causes'
  <2>1. NoStall \in [id : Requests \cup {NoRequest}, age : Nat]
    BY DEF NoStall
  <2> QED BY <1>0, <2>1 DEF SchedInv, Causes
<1>8. Homed'
  BY <1>0, <1>1 DEF SchedInv, Homed
<1> QED
  BY <1>2, <1>3, <1>4, <1>5, <1>6, <1>7, <1>8 DEF SchedInv

-----------------------------------------------------------------------------
(* The steps that leave the queues alone *)

LEMMA StepBeginInv == SchedInv /\ StepBegin => SchedInv'
<1> SUFFICES ASSUME SchedInv, StepBegin PROVE SchedInv'
  OBVIOUS
<1>1. Phases'
  BY DEF SchedInv, Phases, StepBegin, stepVars
<1>2. Causes'
  BY DEF SchedInv, Causes, StepBegin, stepVars, envVars, stallVars
<1> QED
  BY <1>1, <1>2, QuietInv
     DEF StepBegin, queueVars, stepVars, envVars, storeVars, reqVars

LEMMA StoreWorkerInv == SchedInv /\ StoreWorker => SchedInv'
<1> SUFFICES ASSUME SchedInv, StoreWorker PROVE SchedInv'
  OBVIOUS
<1>1. Phases'
  BY DEF SchedInv, Phases, StoreWorker, stepVars
<1>2. Causes'
  BY DEF SchedInv, Causes, StoreWorker, stepVars, envVars, stallVars
<1> QED
  BY <1>1, <1>2, QuietInv DEF StoreWorker, queueVars, stepVars, envVars, reqVars

LEMMA PausedInv == SchedInv /\ SetAdmissionPaused => SchedInv'
<1> SUFFICES ASSUME SchedInv, SetAdmissionPaused PROVE SchedInv'
  OBVIOUS
<1>1. Phases'
  BY DEF SchedInv, Phases, SetAdmissionPaused, stepVars
<1>2. Causes'
  BY DEF SchedInv, Causes, SetAdmissionPaused, stepVars, stallVars
<1> QED
  BY <1>1, <1>2, QuietInv
     DEF SetAdmissionPaused, queueVars, stepVars, storeVars, reqVars

LEMMA ClockInv == SchedInv /\ Clock => SchedInv'
<1> SUFFICES ASSUME SchedInv, Clock PROVE SchedInv'
  OBVIOUS
<1>1. Phases'
  BY DEF SchedInv, Phases, Clock, stepVars
<1>2. UNCHANGED <<rejected, faults, aborted>>
  BY DEF Clock, stepVars, envVars
<1>3. CASE mem_stall.id # NoRequest /\ mem_stall' = [mem_stall EXCEPT !.age = @ + 1]
           /\ UNCHANGED store_stall
  <2>1. mem_stall' \in [id : Requests \cup {NoRequest}, age : Nat]
    BY <1>3 DEF SchedInv, Causes
  <2>2. "memory" \in faults
    BY <1>3 DEF SchedInv, Causes, NoStall
  <2>3. Causes'
    BY <1>2, <1>3, <2>1, <2>2 DEF SchedInv, Causes
  <2> QED
    BY <1>1, <2>3, QuietInv DEF Clock, queueVars, stepVars, envVars, storeVars, reqVars
<1>4. CASE May("slow") /\ store_stall' = "expired" /\ UNCHANGED mem_stall
  <2>1. Causes'
    BY <1>2, <1>4 DEF SchedInv, Causes, May
  <2> QED
    BY <1>1, <2>1, QuietInv DEF Clock, queueVars, stepVars, envVars, storeVars, reqVars
<1> QED
  BY <1>3, <1>4 DEF Clock

LEMMA RowVanishesInv == SchedInv /\ RowVanishes => SchedInv'
<1> SUFFICES ASSUME SchedInv, RowVanishes PROVE SchedInv'
  OBVIOUS
<1>1. Phases'
  BY DEF SchedInv, Phases, RowVanishes, stepVars
<1>2. Causes'
  BY DEF SchedInv, Causes, RowVanishes, stepVars, stallVars
<1> QED
  BY <1>1, <1>2, QuietInv DEF RowVanishes, queueVars, stepVars, storeVars, reqVars

LEMMA DecodeNothingInv == SchedInv /\ DecodeNothing => SchedInv'
<1> SUFFICES ASSUME SchedInv, DecodeNothing PROVE SchedInv'
  OBVIOUS
<1>1. Phases'
  BY DEF SchedInv, Phases, DecodeNothing, stepVars
<1>2. Causes'
  BY DEF SchedInv, Causes, DecodeNothing, stepVars, envVars, stallVars
<1> QED
  BY <1>1, <1>2, QuietInv
     DEF DecodeNothing, queueVars, stepVars, envVars, storeVars, reqVars

LEMMA DecodeRaisesInv == SchedInv /\ DecodeRaises => SchedInv'
<1> SUFFICES ASSUME SchedInv, DecodeRaises PROVE SchedInv'
  OBVIOUS
<1>1. Phases'
  BY DEF SchedInv, Phases, DecodeRaises, stepVars
<1>2. Causes'
  BY DEF SchedInv, Causes, DecodeRaises, stepVars, stallVars
<1> QED
  BY <1>1, <1>2, QuietInv DEF DecodeRaises, queueVars, stepVars, storeVars, reqVars

-----------------------------------------------------------------------------
(* Admission *)

LEMMA NoStallType == NoStall \in [id : Requests \cup {NoRequest}, age : Nat]
  BY DEF NoStall

LEMMA ScheduleEndsInv == SchedInv /\ ScheduleEnds => SchedInv'
<1> SUFFICES ASSUME SchedInv, ScheduleEnds PROVE SchedInv'
  OBVIOUS
<1>1. /\ pc = "schedule" /\ LeaveSchedule
      /\ UNCHANGED <<waiting, prefilling, running, requests, cur, removes, draining,
                     tokens, client, aborted, pending_aborts, recovery, faults,
                     store_stall, mem_stall>>
  BY DEF ScheduleEnds, queueVars, stallVars, reqVars, storeVars, envVars
<1>2. IsQueue(waiting') /\ Range(waiting') = Range(waiting)
  BY <1>1 DEF SchedInv, QueueTypes
<1>3. /\ store_stall' = "expired" => "slow" \in faults
      /\ mem_stall' \in [id : Requests \cup {NoRequest}, age : Nat]
      /\ mem_stall' # NoStall => "memory" \in faults
  BY <1>1 DEF SchedInv, Causes
<1> QED
  BY <1>1, <1>2, <1>3, LeaveInv

LEMMA StoreGateStallInv == SchedInv /\ StoreGateStall => SchedInv'
<1> SUFFICES ASSUME SchedInv, StoreGateStall PROVE SchedInv'
  OBVIOUS
<1>0. /\ pc = "schedule" /\ waiting # <<>>
      /\ UNCHANGED <<prefilling, running, cur, removes, draining, tokens, client, aborted,
                     pending_aborts, recovery, faults, mem_stall>>
  BY DEF StoreGateStall, MayAdmit, reqVars, storeVars, envVars
<1>1. IsQueue(waiting)
  BY DEF SchedInv, QueueTypes
<1>2. CASE store_stall = "expired"
  <2> DEFINE r == Head(waiting)
  <2>1. IsQueue(waiting') /\ r \in Waiting /\ Range(waiting') = Waiting \ {r}
    BY <1>0, <1>1, <1>2, TailFacts DEF StoreGateStall, Waiting
  <2>2. /\ requests' = requests \ {r} /\ rejected' = rejected \cup {r}
        /\ store_stall' = "none" /\ UNCHANGED <<pc, out>>
    BY <1>2 DEF StoreGateStall
  <2>3. "slow" \in faults
    BY <1>2 DEF SchedInv, Causes
  <2>4. faults \cap {"oom", "slow", "memory"} # {}
    BY <2>3
  <2> HIDE DEF r
  <2> QED BY <1>0, <2>1, <2>2, <2>3, <2>4, RejectInv
<1>3. CASE store_stall # "expired"
  <2>1. LeaveSchedule /\ store_stall' = "blocked" /\ UNCHANGED <<waiting, requests>>
    BY <1>3 DEF StoreGateStall
  <2>2. /\ mem_stall' \in [id : Requests \cup {NoRequest}, age : Nat]
        /\ mem_stall' # NoStall => "memory" \in faults
    BY <1>0 DEF SchedInv, Causes
  <2>3. IsQueue(waiting') /\ Range(waiting') = Range(waiting)
    BY <2>1, <1>1
  <2> QED BY <1>0, <2>1, <2>2, <2>3, LeaveInv
<1> QED
  BY <1>2, <1>3

LEMMA RemovesStallInv == SchedInv /\ RemovesStall => SchedInv'
<1> SUFFICES ASSUME SchedInv, RemovesStall PROVE SchedInv'
  OBVIOUS
<1>1. /\ pc = "schedule" /\ LeaveSchedule /\ store_stall' = "none"
      /\ UNCHANGED <<waiting, prefilling, running, requests, cur, removes, draining,
                     tokens, client, aborted, pending_aborts, recovery, faults, mem_stall>>
  BY DEF RemovesStall, GateOpen, queueVars, reqVars, storeVars, envVars
<1>2. IsQueue(waiting') /\ Range(waiting') = Range(waiting)
  BY <1>1 DEF SchedInv, QueueTypes
<1>3. /\ store_stall' = "expired" => "slow" \in faults
      /\ mem_stall' \in [id : Requests \cup {NoRequest}, age : Nat]
      /\ mem_stall' # NoStall => "memory" \in faults
  BY <1>1 DEF SchedInv, Causes
<1> QED
  BY <1>1, <1>2, <1>3, LeaveInv

LEMMA MemoryRejectInv == SchedInv /\ MemoryReject => SchedInv'
<1> SUFFICES ASSUME SchedInv, MemoryReject PROVE SchedInv'
  OBVIOUS
<1> DEFINE r == mem_stall.id
<1>0. /\ pc = "schedule" /\ mem_stall.age = 2 /\ mem_stall' = NoStall /\ store_stall' = "none"
      /\ UNCHANGED <<prefilling, running, cur, removes, draining, tokens, client, aborted,
                     pending_aborts, recovery, faults, pc, out>>
  BY DEF MemoryReject, GateOpen, reqVars, storeVars, envVars
<1>1. IsQueue(waiting)
  BY DEF SchedInv, QueueTypes
<1>2. "memory" \in faults
  BY <1>0 DEF SchedInv, Causes, NoStall
<1>3. CASE r \in Waiting
  <2>1. /\ waiting' = Keep(waiting, Requests \ {r}) /\ requests' = requests \ {r}
        /\ rejected' = rejected \cup {r}
    BY <1>3 DEF MemoryReject, Waiting
  <2> HIDE DEF r
  <2>2. IsQueue(waiting') /\ Range(waiting') = Waiting \ {r}
    BY <2>1, <1>1, CutFacts DEF Waiting
  <2>3. faults \cap {"oom", "slow", "memory"} # {}
    BY <1>2
  <2> QED BY <1>0, <1>3, <2>1, <2>2, <2>3, RejectInv
<1>4. CASE r \notin Waiting
  <2>1. UNCHANGED <<waiting, requests, rejected>>
    BY <1>4 DEF MemoryReject, Waiting
  <2>2. Phases'
    BY <1>0, <2>1 DEF SchedInv, Phases
  <2>3. Causes'
    BY <1>0, <2>1, NoStallType DEF SchedInv, Causes
  <2> QED BY <1>0, <2>1, <2>2, <2>3, QuietInv
<1> QED
  BY <1>3, <1>4

LEMMA MemoryStallInv == SchedInv /\ MemoryStall => SchedInv'
<1> SUFFICES ASSUME SchedInv, MemoryStall PROVE SchedInv'
  OBVIOUS
<1>0. /\ pc = "schedule" /\ waiting # <<>> /\ LeaveSchedule /\ store_stall' = "none"
      /\ May("memory")
      /\ UNCHANGED <<prefilling, running, requests, cur, removes, draining, tokens, client,
                     aborted, pending_aborts, recovery, faults>>
  BY DEF MemoryStall, GateOpen, MayAdmit, reqVars, storeVars, envVars
<1>1. IsQueue(waiting)
  BY DEF SchedInv, QueueTypes
<1> DEFINE h == Head(waiting)
           t == Tail(waiting)
<1>2. /\ IsQueue(t) /\ h \in Range(waiting) /\ h \in Requests
      /\ Range(t) = Range(waiting) \ {h}
  BY <1>0, <1>1, TailFacts
<1>3. IsQueue(Append(t, h)) /\ Range(Append(t, h)) = Range(waiting)
  <2> HIDE DEF h, t
  <2>1. h \in Requests \ Range(t)
    BY <1>2
  <2>2. IsQueue(Append(t, h)) /\ Range(Append(t, h)) = Range(t) \cup {h}
    BY <2>1, <1>2, AppendFacts
  <2> QED BY <2>2, <1>2
<1>4. IsQueue(waiting') /\ Range(waiting') = Range(waiting)
  <2>1. waiting' = Append(t, h) \/ waiting' = waiting
    BY DEF MemoryStall
  <2> HIDE DEF h, t
  <2> QED BY <2>1, <1>1, <1>3
<1>5. mem_stall' \in [id : Requests \cup {NoRequest}, age : Nat]
  <2>1. mem_stall' = [id |-> h, age |-> 0] \/ mem_stall' = mem_stall
    BY DEF MemoryStall
  <2> HIDE DEF h
  <2> QED BY <2>1, <1>2 DEF SchedInv, Causes
<1>6. "memory" \in faults
  BY <1>0 DEF May
<1> QED
  BY <1>0, <1>4, <1>5, <1>6, LeaveInv

\* What admission checks before it gives the head of the queue a place.
LEMMA PlaceFree ==
    ASSUME SchedInv, pc = "schedule", MayAdmit
    PROVE  /\ Size + 1 <= MaxSeqs /\ Size \in Nat /\ cur = NoRequest
           /\ recovery # {} => Size = 0
<1>1. cur = NoRequest
  BY DEF SchedInv, Phases
<1>2. Size = Len(running) + Len(prefilling) /\ Size \in Nat
  BY <1>1, SizeNat DEF Size, SchedInv
<1>3. Size < EffectiveMaxNumSeqs
  BY <1>2 DEF MayAdmit, NumAdmitted
<1> QED
  BY <1>1, <1>2, <1>3, SchedulerAssumption DEF EffectiveMaxNumSeqs

LEMMA AdmitHeadInv == SchedInv /\ AdmitHead => SchedInv'
<1> SUFFICES ASSUME SchedInv, AdmitHead PROVE SchedInv'
  OBVIOUS
<1> DEFINE r == Head(waiting)
<1>0. /\ pc = "schedule" /\ waiting # <<>> /\ MayAdmit
      /\ mem_stall' = NoStall /\ store_stall' = "none"
      /\ UNCHANGED <<running, removes, draining, tokens, client, aborted, pending_aborts,
                     recovery, faults>>
  BY DEF AdmitHead, GateOpen, MayAdmit, storeVars, envVars
<1>1. IsQueue(waiting) /\ IsQueue(prefilling) /\ IsQueue(running)
  BY DEF SchedInv, QueueTypes
<1>2. /\ IsQueue(Tail(waiting)) /\ r \in Waiting /\ r \in Requests
      /\ Range(Tail(waiting)) = Waiting \ {r}
  BY <1>0, <1>1, TailFacts DEF Waiting
<1>3. /\ Size + 1 <= MaxSeqs /\ Size \in Nat /\ cur = NoRequest
      /\ recovery # {} => Size = 0
  BY <1>0, PlaceFree
<1>4. r # NoRequest /\ r \notin Admitted /\ r \in Active /\ r \in requests
      /\ r \notin rejected \cup out \cup Removed
  BY <1>2, SchedulerAssumption DEF SchedInv, Apart, Tracked, Admitted, Active, Current
<1>5. CASE LeaveSchedule /\ UNCHANGED <<waiting, requests, prefilling, chunks, cur>>
  <2>1. IsQueue(waiting') /\ Range(waiting') = Range(waiting)
    BY <1>5, <1>1
  <2>2. /\ mem_stall' \in [id : Requests \cup {NoRequest}, age : Nat]
        /\ mem_stall' # NoStall => "memory" \in faults
    BY <1>0, NoStallType
  <2> QED BY <1>0, <1>5, <2>1, <2>2, LeaveInv
<1>6. CASE /\ May("oom") /\ waiting' = Tail(waiting) /\ requests' = requests \ {r}
           /\ rejected' = rejected \cup {r}
           /\ UNCHANGED <<prefilling, chunks, cur, pc, out>>
  <2>1. faults \cap {"oom", "slow", "memory"} # {}
    BY <1>6 DEF May
  <2>2. IsQueue(waiting') /\ Range(waiting') = Waiting \ {r}
    BY <1>2, <1>6
  <2> HIDE DEF r
  <2> QED BY <1>0, <1>2, <1>6, <2>1, <2>2, RejectInv
<1>7. CASE /\ waiting' = Tail(waiting) /\ prefilling' = Append(prefilling, r)
           /\ UNCHANGED <<requests, cur, pc, out, rejected>>
  <2> HIDE DEF r
  <2>1. /\ IsQueue(prefilling') /\ Range(prefilling') = Prefilling \cup {r}
        /\ Len(prefilling') = Len(prefilling) + 1
    <3>1. r \in Requests \ Range(prefilling)
      BY <1>2, <1>4 DEF Admitted, Prefilling
    <3> QED BY <3>1, <1>1, <1>7, AppendFacts DEF Prefilling
  <2>2. IsQueue(waiting') /\ Waiting' = Waiting \ {r} /\ Prefilling' = Prefilling \cup {r}
        /\ UNCHANGED <<Running, Current, Removed>>
    BY <1>0, <1>2, <1>7, <2>1 DEF Waiting, Prefilling, Running, Current, Removed
  <2>3. Admitted' = Admitted \cup {r} /\ Active' = Active
    BY <1>2, <2>2 DEF Admitted, Active
  <2>4. Size' = Size + 1
    <3>1. Len(running) \in Nat /\ Len(prefilling) \in Nat
      BY SizeNat DEF SchedInv
    <3> QED BY <3>1, <1>0, <1>7, <2>1 DEF Size
  <2>5. QueueTypes'
    BY <1>0, <1>1, <1>7, <2>1, <2>2 DEF SchedInv, QueueTypes
  <2>6. Phases'
    BY <1>7 DEF SchedInv, Phases
  <2>7. Apart'
    BY <1>2, <1>3, <1>4, <1>7, <2>2, <2>3 DEF SchedInv, Apart, Admitted
  <2>8. Tracked' /\ Unseen'
    BY <1>0, <1>7, <2>2, <2>3 DEF SchedInv, Tracked, Unseen
  <2>9. AbortsPend' /\ Homed'
    BY <1>0, <1>7, <2>3 DEF SchedInv, AbortsPend, Homed
  <2>10. Sized'
    BY <1>0, <1>3, <2>3, <2>4 DEF Sized
  <2>11. Causes'
    BY <1>0, <1>7, NoStallType DEF SchedInv, Causes
  <2> QED BY <2>5, <2>6, <2>7, <2>8, <2>9, <2>10, <2>11 DEF SchedInv
<1>8. CASE /\ waiting' = Tail(waiting) /\ cur' = r /\ pc' = "prefill"
           /\ UNCHANGED <<requests, prefilling, out, rejected>>
  <2> HIDE DEF r
  <2>2. /\ IsQueue(waiting') /\ Waiting' = Waiting \ {r} /\ Current' = {r} /\ Current = {}
        /\ UNCHANGED <<Running, Prefilling, Removed>>
    BY <1>0, <1>2, <1>3, <1>4, <1>8 DEF Waiting, Prefilling, Running, Current, Removed
  <2>3. Admitted' = Admitted \cup {r} /\ Active' = Active
    BY <1>2, <2>2 DEF Admitted, Active
  <2>4. Size' = Size + 1
    <3>1. Len(running) \in Nat /\ Len(prefilling) \in Nat
      BY SizeNat DEF SchedInv
    <3> QED BY <3>1, <1>0, <1>3, <1>4, <1>8 DEF Size
  <2>5. QueueTypes'
    BY <1>0, <1>1, <1>2, <1>8, <2>2 DEF SchedInv, QueueTypes
  <2>6. Phases'
    BY <1>0, <1>4, <1>8 DEF SchedInv, Phases
  <2>7. Apart'
    BY <1>2, <1>3, <1>4, <1>8, <2>2, <2>3 DEF SchedInv, Apart, Admitted
  <2>8. Tracked' /\ Unseen'
    BY <1>0, <1>8, <2>2, <2>3 DEF SchedInv, Tracked, Unseen
  <2>9. AbortsPend' /\ Homed'
    BY <1>0, <1>8, <2>3 DEF SchedInv, AbortsPend, Homed
  <2>10. Sized'
    BY <1>0, <1>3, <2>3, <2>4 DEF Sized
  <2>11. Causes'
    BY <1>0, <1>8, NoStallType DEF SchedInv, Causes
  <2> QED BY <2>5, <2>6, <2>7, <2>8, <2>9, <2>10, <2>11 DEF SchedInv
<1> QED
  BY <1>5, <1>6, <1>7, <1>8 DEF AdmitHead

-----------------------------------------------------------------------------
(* Clients *)

LEMMA AddRequestInv ==
    ASSUME SchedInv, NEW r \in Requests, AddRequest(r)
    PROVE  SchedInv'
<1>0. /\ pc = "idle" /\ client[r] = "absent" /\ requests' = requests \cup {r}
      /\ waiting' = Append(waiting, r) /\ client' = [client EXCEPT ![r] = "open"]
      /\ UNCHANGED <<prefilling, running, cur, removes, draining, tokens, aborted,
                     pending_aborts, recovery, faults, pc, out, rejected, mem_stall,
                     store_stall>>
  BY DEF AddRequest, reqVars, storeVars, stepVars, stallVars
<1>1. r \notin requests \cup Removed \cup aborted \cup rejected \cup out
  BY <1>0 DEF SchedInv, Unseen
<1>2. r \notin Active /\ r # NoRequest
  BY <1>1, SchedulerAssumption DEF SchedInv, Tracked
<1>3. IsQueue(waiting') /\ Range(waiting') = Range(waiting) \cup {r}
  <2>1. IsQueue(waiting)
    BY DEF SchedInv, QueueTypes
  <2>2. r \in Requests \ Range(waiting)
    BY <1>2 DEF Active, Waiting
  <2> QED BY <1>0, <2>1, <2>2, AppendFacts
<1>4. /\ Waiting' = Waiting \cup {r} /\ Active' = Active \cup {r}
      /\ UNCHANGED <<Prefilling, Running, Current, Admitted, Removed, Size>>
  BY <1>0, <1>3 DEF Waiting, Prefilling, Running, Current, Admitted, Active, Removed, Size
<1>5. QueueTypes'
  <2>1. client' \in [Requests -> {"absent", "open", "closed"}]
    BY <1>0 DEF SchedInv, QueueTypes
  <2> QED BY <1>0, <1>3, <2>1 DEF SchedInv, QueueTypes
<1>6. Phases'
  BY <1>0 DEF SchedInv, Phases
<1>7. Apart'
  BY <1>0, <1>1, <1>2, <1>4 DEF SchedInv, Apart, Active, Admitted, Current
<1>8. Tracked'
  BY <1>0, <1>1, <1>4 DEF SchedInv, Tracked
<1>9. \A x \in Requests : x # r => client'[x] = client[x]
  BY <1>0 DEF SchedInv, QueueTypes
<1>10. client'[r] = "open"
  BY <1>0 DEF SchedInv, QueueTypes
<1>11. Unseen'
  BY <1>0, <1>4, <1>9, <1>10 DEF SchedInv, Unseen
<1>12. AbortsPend'
  BY <1>0, <1>1, <1>4, <1>9 DEF SchedInv, AbortsPend, QueueTypes
<1>13. Sized'
  BY <1>0, <1>4 DEF SchedInv, Sized
<1>14. Causes'
  BY <1>0 DEF SchedInv, Causes
<1>15. Homed'
  BY <1>0, <1>4, <1>9 DEF SchedInv, Homed
<1> QED
  BY <1>5, <1>6, <1>7, <1>8, <1>11, <1>12, <1>13, <1>14, <1>15 DEF SchedInv

LEMMA AbortRequestInv ==
    ASSUME SchedInv, NEW r \in Requests, AbortRequest(r)
    PROVE  SchedInv'
<1>0. /\ May("abort") /\ client[r] # "absent" /\ aborted' = aborted \cup {r}
      /\ client' = [client EXCEPT ![r] = "closed"]
      /\ pending_aborts' = IF r \in requests THEN pending_aborts \cup {r} ELSE pending_aborts
      /\ UNCHANGED <<waiting, prefilling, running, requests, cur, removes, draining, tokens,
                     recovery, faults, pc, out, rejected, mem_stall, store_stall>>
  BY DEF AbortRequest, queueVars, reqVars, storeVars, stepVars, stallVars
<1>1. UNCHANGED <<Waiting, Prefilling, Running, Current, Admitted, Active, Removed, Size>>
  BY <1>0 DEF Waiting, Prefilling, Running, Current, Admitted, Active, Removed, Size
<1>2. client'[r] = "closed" /\ \A x \in Requests : x # r => client'[x] = client[x]
  BY <1>0 DEF SchedInv, QueueTypes
<1>3. QueueTypes'
  <2>1. client' \in [Requests -> {"absent", "open", "closed"}]
    BY <1>0 DEF SchedInv, QueueTypes
  <2> QED BY <1>0, <2>1 DEF SchedInv, QueueTypes
<1>4. Phases'
  BY <1>0 DEF SchedInv, Phases
<1>5. Apart' /\ Tracked'
  BY <1>0, <1>1 DEF SchedInv, Apart, Tracked
<1>6. Unseen'
  BY <1>0, <1>1, <1>2 DEF SchedInv, Unseen
<1>7. AbortsPend'
  BY <1>0, <1>1, <1>2 DEF SchedInv, AbortsPend, Tracked, QueueTypes
<1>8. Sized'
  BY <1>0, <1>1 DEF SchedInv, Sized
<1>9. Causes'
  BY <1>0 DEF SchedInv, Causes, May
<1>10. Homed'
  BY <1>0, <1>1, <1>2 DEF SchedInv, Homed
<1> QED
  BY <1>3, <1>4, <1>5, <1>6, <1>7, <1>8, <1>9, <1>10 DEF SchedInv

-----------------------------------------------------------------------------
(* Aborts and deferred removals *)

\* Requests only leave their places: nothing else can go wrong with the sizes.
LEMMA Shrinks ==
    ASSUME SchedInv, QueueTypes', Size' <= Size, Admitted' \subseteq Admitted,
           recovery' \cap Admitted' \subseteq recovery
    PROVE  Sized'
<1>1. Size \in Nat /\ Size' \in Nat
  <2>1. Size \in Nat
    BY SizeNat DEF SchedInv
  <2>2. Size' \in Nat
    BY DEF QueueTypes, Size, IsQueue
  <2> QED BY <2>1, <2>2
<1>2. MaxSeqs \in Nat
  BY SchedulerAssumption
<1> QED
  BY <1>1, <1>2 DEF SchedInv, Sized

LEMMA DoAbortRequestInv ==
    ASSUME SchedInv, NEW r \in Requests, DoAbortRequest(r)
    PROVE  SchedInv'
<1>0. /\ pc = "aborts" /\ r \in pending_aborts /\ pending_aborts' = pending_aborts \ {r}
      /\ cur = NoRequest /\ rejected = {} /\ out = {}
      /\ UNCHANGED <<cur, removes, draining, tokens, client, aborted, recovery, faults, out,
                     rejected, mem_stall, store_stall>>
  <2>1. UNCHANGED recovery
    BY DEF DoAbortRequest
  <2> QED BY <2>1 DEF DoAbortRequest, storeVars, stepVars, stallVars, SchedInv, Phases
<1>1. IsQueue(waiting) /\ IsQueue(prefilling) /\ IsQueue(running)
  BY DEF SchedInv, QueueTypes
<1>2. client[r] = "closed"
  BY <1>0 DEF SchedInv, AbortsPend
<1>3. CASE r \notin requests
  <2>1. UNCHANGED <<waiting, prefilling, running, requests, pc>>
    BY <1>3 DEF DoAbortRequest, queueVars
  <2>2. UNCHANGED <<Waiting, Prefilling, Running, Current, Admitted, Active, Removed, Size>>
    BY <1>0, <2>1 DEF Waiting, Prefilling, Running, Current, Admitted, Active, Removed, Size
  <2>3. QueueTypes' /\ Phases' /\ Causes'
    BY <1>0, <2>1 DEF SchedInv, QueueTypes, Phases, Causes
  <2>4. Apart' /\ Tracked' /\ Unseen' /\ Homed'
    BY <1>0, <2>1, <2>2 DEF SchedInv, Apart, Tracked, Unseen, Homed
  <2>5. AbortsPend'
    BY <1>0, <1>3, <2>1, <2>2 DEF SchedInv, AbortsPend, Tracked
  <2>6. Sized'
    BY <1>0, <2>1, <2>2 DEF SchedInv, Sized
  <2> QED BY <2>3, <2>4, <2>5, <2>6 DEF SchedInv
<1>4. CASE r \in requests
  <2>1. /\ waiting' = Keep(waiting, Requests \ {r})
        /\ prefilling' = Keep(prefilling, Requests \ {r})
        /\ \/ /\ running' = Keep(running, Requests \ {r})
              /\ requests' = requests \ {r} /\ UNCHANGED pc
           \/ pc' = "failed" /\ UNCHANGED <<running, requests>>
    BY <1>4 DEF DoAbortRequest
  <2>2. /\ IsQueue(waiting') /\ Range(waiting') = Waiting \ {r}
        /\ IsQueue(prefilling') /\ Range(prefilling') = Prefilling \ {r}
        /\ Len(prefilling') <= Len(prefilling) /\ Len(prefilling') \in Nat
        /\ Len(prefilling) \in Nat
    BY <1>1, <2>1, CutFacts DEF Waiting, Prefilling
  <2>3. /\ IsQueue(running') /\ Range(running') \subseteq Running
        /\ Len(running') <= Len(running) /\ Len(running') \in Nat /\ Len(running) \in Nat
    BY <1>1, <2>1, CutFacts DEF Running
  <2>4. \/ Range(running') = Running \ {r} /\ requests' = requests \ {r} /\ pc' = pc
        \/ Range(running') = Running /\ requests' = requests /\ pc' = "failed"
    BY <1>1, <2>1, CutFacts DEF Running
  <2>5. /\ Waiting' = Waiting \ {r} /\ Prefilling' = Prefilling \ {r}
        /\ Running' \subseteq Running /\ Current' = {} /\ Current = {} /\ Removed' = Removed
        /\ Admitted' \subseteq Admitted /\ Active' \subseteq Active
    BY <1>0, <2>2, <2>3 DEF Waiting, Prefilling, Running, Current, Removed, Admitted, Active
  <2>6. Active \ {r} \subseteq Active' /\ (pc' = pc => Active' = Active \ {r})
    BY <1>0, <2>4, <2>5 DEF Admitted, Active, Running
  <2>7. Size' <= Size
    BY <1>0, <2>2, <2>3 DEF Size
  <2>8. QueueTypes'
    BY <1>0, <2>2, <2>3 DEF SchedInv, QueueTypes
  <2>9. Phases' /\ Causes'
    BY <1>0, <2>4 DEF SchedInv, Phases, Causes
  <2>10. Apart'
    BY <1>0, <2>5 DEF SchedInv, Apart
  <2>11. Tracked' /\ Unseen'
    BY <1>0, <2>4, <2>5, <2>6 DEF SchedInv, Tracked, Unseen
  <2>12. AbortsPend'
    BY <1>0, <2>4, <2>5, <2>6 DEF SchedInv, AbortsPend
  <2>13. Sized'
    BY <1>0, <2>5, <2>7, <2>8, Shrinks
  <2>14. Homed'
    BY <1>0, <1>2, <2>4, <2>6 DEF SchedInv, Homed
  <2> QED BY <2>8, <2>9, <2>10, <2>11, <2>12, <2>13, <2>14 DEF SchedInv
<1> QED
  BY <1>3, <1>4

\* A step that only takes deferred removals off.
LEMMA RemovesInv ==
    ASSUME SchedInv, Phases',
           removes' \in Seq(Range(removes')), draining' \in Seq(Range(draining')),
           Removed' \subseteq Removed, requests' \subseteq requests,
           requests \ Removed \subseteq requests',
           UNCHANGED <<waiting, prefilling, running, cur, tokens, client, aborted,
                       pending_aborts, recovery, faults, rejected, out, mem_stall,
                       store_stall>>,
           pc # "failed"
    PROVE  SchedInv'
<1>0. UNCHANGED <<Waiting, Prefilling, Running, Current, Admitted, Active, Size>>
  BY DEF Waiting, Prefilling, Running, Current, Admitted, Active, Size
<1>1. QueueTypes'
  BY DEF SchedInv, QueueTypes
<1>2. Apart' /\ Tracked' /\ Unseen'
  BY <1>0 DEF SchedInv, Apart, Tracked, Unseen
<1>3. AbortsPend'
  BY <1>0 DEF SchedInv, AbortsPend
<1>4. Sized'
  BY <1>0 DEF SchedInv, Sized
<1>5. Causes' /\ Homed'
  BY <1>0 DEF SchedInv, Causes, Homed
<1> QED
  BY <1>1, <1>2, <1>3, <1>4, <1>5 DEF SchedInv

LEMMA DrainInv == SchedInv /\ DrainPendingAsyncRemoves => SchedInv'
<1> SUFFICES ASSUME SchedInv, DrainPendingAsyncRemoves PROVE SchedInv'
  OBVIOUS
<1>0. /\ pc = "aborts" /\ pc' = "finalize"
      /\ UNCHANGED <<waiting, prefilling, running, requests, cur, tokens, client, aborted,
                     pending_aborts, recovery, faults, rejected, out, mem_stall,
                     store_stall>>
  BY DEF DrainPendingAsyncRemoves, queueVars, stallVars, reqVars, envVars
<1>1. PICK S : draining' = Keep(removes, S) /\ removes' = Keep(removes, Range(removes) \ S)
  BY DEF DrainPendingAsyncRemoves
<1>2. removes \in Seq(Range(removes))
  BY DEF SchedInv, QueueTypes
<1>3. /\ draining' \in Seq(Range(removes)) /\ Range(draining') = Range(removes) \cap S
      /\ removes' \in Seq(Range(removes)) /\ Range(removes') = Range(removes) \ S
  BY <1>1, <1>2, KeepFacts
<1>4. draining' \in Seq(Range(draining')) /\ removes' \in Seq(Range(removes'))
  <2>1. ASSUME NEW X, NEW q \in Seq(X) PROVE q \in Seq(Range(q))
    BY DEF Range
  <2> QED BY <2>1, <1>3
<1>5. Removed' \subseteq Removed
  BY <1>3 DEF Removed
<1>6. Phases'
  BY <1>0 DEF SchedInv, Phases
<1> QED
  BY <1>0, <1>4, <1>5, <1>6, RemovesInv

LEMMA FinalizeInv == SchedInv /\ FinalizeRemove => SchedInv'
<1> SUFFICES ASSUME SchedInv, FinalizeRemove PROVE SchedInv'
  OBVIOUS
<1> DEFINE e == Head(draining)
<1>0. /\ pc = "finalize" /\ draining # <<>>
      /\ UNCHANGED <<waiting, prefilling, running, removes, cur, tokens, client, aborted,
                     pending_aborts, recovery, faults, rejected, out, mem_stall,
                     store_stall>>
  BY DEF FinalizeRemove, stallVars, reqVars, envVars
<1>1. removes \in Seq(Range(removes)) /\ draining \in Seq(Range(draining))
  BY DEF SchedInv, QueueTypes
<1>2. e \in Range(draining) /\ Range(Tail(draining)) \subseteq Range(draining)
      /\ Tail(draining) \in Seq(Range(Tail(draining)))
  <2> DEFINE X == Range(draining)
             n == Len(draining)
             t == Tail(draining)
  <2>1. draining \in Seq(X) /\ n \in Nat /\ n # 0 /\ DOMAIN draining = 1..n
    <3> HIDE DEF X
    <3> QED BY <1>0, <1>1 DEF X
  <2>2. t \in Seq(X) /\ e = draining[1] /\ 1 \in 1..n
    <3> HIDE DEF X
    <3> QED BY <2>1, <1>0
  <2>3. ASSUME NEW Y, NEW q \in Seq(Y) PROVE q \in Seq(Range(q)) /\ Range(q) \subseteq Y
    BY DEF Range
  <2>4. e \in Range(draining)
    <3> HIDE DEF e, t, n
    <3> QED BY <2>1, <2>2 DEF Range
  <2> HIDE DEF X, t
  <2>5. t \in Seq(Range(t)) /\ Range(t) \subseteq X
    BY <2>2, <2>3
  <2> QED BY <2>4, <2>5 DEF X, t
<1>3. \/ pc' = "failed" /\ draining' = <<>> /\ UNCHANGED requests
      \/ draining' = Tail(draining) /\ requests' = requests \ {e.req} /\ UNCHANGED pc
  BY DEF FinalizeRemove
<1>4. e.req \in Removed
  BY <1>2 DEF Removed
<1> HIDE DEF e
<1>5. draining' \in Seq(Range(draining')) /\ Range(draining') \subseteq Range(draining)
  <2>1. <<>> \in Seq(Range(<<>>)) /\ Range(<<>>) = {}
    BY EmptyQueue
  <2> QED BY <1>2, <1>3, <2>1
<1>6. Removed' \subseteq Removed
  BY <1>0, <1>5 DEF Removed
<1>7. Phases'
  BY <1>0, <1>3 DEF SchedInv, Phases
<1>8. requests' \subseteq requests /\ requests \ Removed \subseteq requests'
  BY <1>3, <1>4
<1> QED
  BY <1>0, <1>1, <1>5, <1>6, <1>7, <1>8, RemovesInv

-----------------------------------------------------------------------------
(* Requests that move, leave or are answered *)

\* A step that serves no new request keeps the invariant if what it takes out of
\* the queues is answered, or lost for one of the causes OutputsKept excludes.
LEMMA MovesInv ==
    ASSUME SchedInv, QueueTypes', Phases', pc # "failed",
           Waiting' \cap Prefilling' = {}, Waiting' \cap Running' = {},
           Prefilling' \cap Running' = {},
           cur' \notin Waiting' \cup Prefilling' \cup Running',
           Active' \subseteq Active, Active' \subseteq requests', requests' \subseteq requests,
           Removed' \subseteq Removed \cup (Active \ Active'),
           rejected' \cup out' \subseteq rejected \cup out \cup (Active \ Active'),
           rejected' \cap out' = {},
           \A r \in Active \cup rejected \cup out :
              \/ r \in Active' \cup rejected' \cup out'
              \/ ~OutputsKept(faults) \/ client[r] # "open",
           rejected' # {} => faults \cap {"oom", "slow", "memory"} # {},
           Size' <= Size, Admitted' \subseteq Admitted,
           recovery' \cap Admitted' \subseteq recovery,
           UNCHANGED <<client, aborted, pending_aborts, faults, mem_stall, store_stall>>
    PROVE  SchedInv'
<1>1. Apart'
  BY DEF SchedInv, Apart
<1>2. Tracked' /\ Unseen'
  BY DEF SchedInv, Tracked, Unseen
<1>3. AbortsPend'
  BY DEF SchedInv, AbortsPend
<1>4. Sized'
  BY Shrinks
<1>5. Causes'
  BY DEF SchedInv, Causes
<1>6. Homed'
  BY DEF SchedInv, Homed
<1> QED
  BY <1>1, <1>2, <1>3, <1>4, <1>5, <1>6 DEF SchedInv

\* _reschedule_running_requests: who stays goes to the front of the queue.
LEMMA RescheduleFacts ==
    ASSUME SchedInv, NEW stay, stay \subseteq Running, Reschedule(stay)
    PROVE  /\ IsQueue(waiting') /\ Range(waiting') = stay \cup Waiting
           /\ IsQueue(running') /\ Range(running') = {} /\ Len(running') = 0
           /\ tokens' \in [Requests -> Nat]
<1> DEFINE k == Keep(running, stay)
<1>1. /\ waiting' = Reverse(k) \o waiting /\ running' = <<>>
      /\ tokens' = [r \in Requests |-> IF r \in Range(running) THEN 0 ELSE tokens[r]]
  BY DEF Reschedule
<1>2. IsQueue(waiting) /\ IsQueue(running) /\ tokens \in [Requests -> Nat]
  BY DEF SchedInv, QueueTypes
<1>3. IsQueue(k) /\ Range(k) = stay
  <2>1. IsQueue(k) /\ Range(k) = Range(running) \cap stay
    BY <1>2, CutFacts
  <2> QED BY <2>1 DEF Running
<1> HIDE DEF k
<1>4. IsQueue(Reverse(k)) /\ Range(Reverse(k)) = stay
  BY <1>3, ReverseFacts
<1> DEFINE v == Reverse(k)
<1>5. IsQueue(v) /\ Range(v) = stay /\ waiting' = v \o waiting
  BY <1>1, <1>4
<1> HIDE DEF v
<1>6. Range(v) \cap Range(waiting) = {}
  BY <1>5 DEF SchedInv, Apart, Running, Waiting
<1>7. IsQueue(waiting') /\ Range(waiting') = stay \cup Waiting
  BY <1>2, <1>5, <1>6, JoinFacts DEF Waiting
<1>8. tokens' \in [Requests -> Nat]
  BY <1>1, <1>2
<1> QED
  BY <1>1, <1>7, <1>8, EmptyQueue

LEMMA PrefillFailsInv == SchedInv /\ PrefillFails => SchedInv'
<1> SUFFICES ASSUME SchedInv, PrefillFails PROVE SchedInv'
  OBVIOUS
<1>0. /\ pc = "prefill" /\ "oom" \in faults /\ requests' = requests \ {cur}
      /\ rejected' = rejected \cup {cur} /\ cur' = NoRequest /\ pc' = "schedule"
      /\ UNCHANGED <<waiting, prefilling, running, removes, draining, tokens, client,
                     aborted, pending_aborts, recovery, faults, out, mem_stall, store_stall>>
  BY DEF PrefillFails, May, reqVars, storeVars, stallVars, envVars
<1>1. cur \in Requests /\ cur # NoRequest /\ NoRequest \notin Requests
  BY <1>0, SchedulerAssumption DEF SchedInv, Phases, QueueTypes
<1>2. /\ UNCHANGED <<Waiting, Prefilling, Running, Removed>>
      /\ Current = {cur} /\ Current' = {}
  BY <1>0, <1>1 DEF Waiting, Prefilling, Running, Removed, Current
<1>3. /\ Active = Active' \cup {cur} /\ Admitted' \subseteq Admitted /\ cur \notin Active'
      /\ cur \notin rejected \cup out
  BY <1>2 DEF SchedInv, Apart, Active, Admitted
<1>4. Size' <= Size
  BY <1>0, <1>1, SizeNat DEF Size, SchedInv
<1>5. QueueTypes'
  BY <1>0 DEF SchedInv, QueueTypes
<1>6. Phases'
  BY <1>0 DEF SchedInv, Phases
<1>7. /\ Waiting' \cap Prefilling' = {} /\ Waiting' \cap Running' = {}
      /\ Prefilling' \cap Running' = {}
  BY <1>2 DEF SchedInv, Apart
<1>8. cur' \notin Waiting' \cup Prefilling' \cup Running'
  BY <1>0, <1>1, <1>5, CutFacts DEF QueueTypes, Waiting, Prefilling, Running
<1>9. Active' \subseteq requests' /\ requests' \subseteq requests
  BY <1>0, <1>3 DEF SchedInv, Tracked
<1>10. /\ rejected' \cup out' \subseteq rejected \cup out \cup (Active \ Active')
       /\ rejected' \cap out' = {}
       /\ \A r \in Active \cup rejected \cup out : r \in Active' \cup rejected' \cup out'
  BY <1>0, <1>3 DEF SchedInv, Apart
<1> QED
  BY <1>0, <1>2, <1>3, <1>4, <1>5, <1>6, <1>7, <1>8, <1>9, <1>10, MovesInv

LEMMA PrefillDoneInv == SchedInv /\ PrefillDone => SchedInv'
<1> SUFFICES ASSUME SchedInv, PrefillDone PROVE SchedInv'
  OBVIOUS
<1>0. /\ pc = "prefill" /\ cur' = NoRequest /\ pc' = "schedule"
      /\ UNCHANGED <<waiting, prefilling, requests, removes, draining, tokens, client,
                     aborted, pending_aborts, recovery, faults, rejected, out, mem_stall,
                     store_stall>>
  BY Zenon DEF PrefillDone, reqVars, storeVars, stallVars, envVars
<1>1. cur \in Requests /\ cur # NoRequest /\ NoRequest \notin Requests
  BY <1>0, SchedulerAssumption DEF SchedInv, Phases, QueueTypes
<1>2. running' = running \o <<cur>>
  BY Zenon DEF PrefillDone, InsertPrefilled
<1> DEFINE one == <<cur>>
<1>3. IsQueue(one) /\ Range(one) = {cur} /\ Len(one) = 1
  BY <1>1 DEF IsQueue, IsInjective, Range
<1>4. IsQueue(running) /\ running' = running \o one
  BY <1>2 DEF SchedInv, QueueTypes
<1> HIDE DEF one
<1>5. /\ IsQueue(running') /\ Range(running') = Running \cup {cur}
      /\ Len(running') = Len(running) + 1 /\ Len(running) \in Nat
  <2>1. Range(running) \cap Range(one) = {}
    BY <1>3 DEF SchedInv, Apart, Running
  <2> QED BY <2>1, <1>3, <1>4, JoinFacts DEF Running
<1>6. /\ UNCHANGED <<Waiting, Prefilling, Removed>> /\ Running' = Running \cup {cur}
      /\ Current = {cur} /\ Current' = {}
  BY <1>0, <1>1, <1>5 DEF Waiting, Prefilling, Running, Removed, Current
<1>7. Active' = Active /\ Admitted' = Admitted
  BY <1>6 DEF Active, Admitted
<1>8. Size' = Size
  BY <1>0, <1>1, <1>5, SizeNat DEF Size, SchedInv
<1>9. QueueTypes'
  BY <1>0, <1>5 DEF SchedInv, QueueTypes
<1>10. Phases'
  BY <1>0 DEF SchedInv, Phases
<1>11. /\ Waiting' \cap Prefilling' = {} /\ Waiting' \cap Running' = {}
       /\ Prefilling' \cap Running' = {}
  BY <1>6 DEF SchedInv, Apart
<1>12. cur' \notin Waiting' \cup Prefilling' \cup Running'
  BY <1>0, <1>1, <1>9, CutFacts DEF QueueTypes, Waiting, Prefilling, Running
<1>13. Active' \subseteq requests' /\ rejected \cap out = {}
       /\ (rejected' # {} => faults \cap {"oom", "slow", "memory"} # {})
  BY <1>0, <1>7 DEF SchedInv, Tracked, Apart, Causes
<1>14. Size' <= Size
  BY <1>8, SizeNat DEF SchedInv
<1> QED
  BY <1>0, <1>6, <1>7, <1>9, <1>10, <1>11, <1>12, <1>13, <1>14, MovesInv

\* The batch is given up: who stays waits again, the others are answered, and what
\* an unwound pass of _schedule_waiting held is lost.
LEMMA GivenUpInv ==
    ASSUME SchedInv, pc \in {"prefill", "decode", "fast"}, pc' = "deliver",
           NEW stay, stay \subseteq Running,
           IsQueue(waiting'), Range(waiting') = stay \cup Waiting,
           IsQueue(running'), Range(running') = {}, Len(running') = 0,
           tokens' \in [Requests -> Nat],
           cur' = NoRequest, rejected' = {},
           requests' = requests \ (Running \ stay), out' = out \cup (Running \ stay),
           recovery' \cap Prefilling \subseteq recovery,
           \A r \in Current \cup rejected : ~OutputsKept(faults) \/ client[r] # "open",
           UNCHANGED <<prefilling, removes, draining, client, aborted, pending_aborts,
                       faults, mem_stall, store_stall>>
    PROVE  SchedInv'
<1>1. /\ Waiting' = stay \cup Waiting /\ Running' = {} /\ Current' = {}
      /\ UNCHANGED <<Prefilling, Removed>>
  BY DEF Waiting, Running, Current, Prefilling, Removed
<1>2. /\ Admitted' = Prefilling /\ Admitted' \subseteq Admitted
      /\ Active' = Waiting \cup Prefilling \cup stay /\ Active' \subseteq Active
      /\ Active \ Active' = (Running \ stay) \cup Current
  <2>1. Current \cap (Waiting \cup Prefilling \cup Running) = {}
    BY DEF SchedInv, Apart, Current
  <2>2. /\ Waiting \cap Prefilling = {} /\ Waiting \cap Running = {}
        /\ Prefilling \cap Running = {}
    BY DEF SchedInv, Apart
  <2> QED BY <1>1, <2>1, <2>2 DEF Active, Admitted
<1>3. QueueTypes'
  BY DEF SchedInv, QueueTypes
<1>4. Phases'
  BY DEF SchedInv, Phases
<1>5. Size' <= Size
  BY SizeNat DEF Size, SchedInv
<1>6. /\ Waiting' \cap Prefilling' = {} /\ Waiting' \cap Running' = {}
      /\ Prefilling' \cap Running' = {}
  BY <1>1 DEF SchedInv, Apart
<1>7. cur' \notin Waiting' \cup Prefilling' \cup Running'
  BY <1>3, CutFacts, SchedulerAssumption DEF QueueTypes, Waiting, Prefilling, Running
<1>8. Active' \subseteq requests' /\ requests' \subseteq requests
  BY <1>2 DEF SchedInv, Tracked, Apart
<1>9. rejected' \cup out' \subseteq rejected \cup out \cup (Active \ Active')
  BY <1>2
<1>10. \A r \in Active \cup rejected \cup out :
              \/ r \in Active' \cup rejected' \cup out'
              \/ ~OutputsKept(faults) \/ client[r] # "open"
  BY <1>2
<1>11. recovery' \cap Admitted' \subseteq recovery /\ rejected' \cap out' = {}
       /\ Removed' \subseteq Removed \cup (Active \ Active')
  BY <1>1, <1>2
<1> QED
  BY <1>1, <1>2, <1>3, <1>4, <1>5, <1>6, <1>7, <1>8, <1>9, <1>10, <1>11, MovesInv

LEMMA PrefillAbortedInv == SchedInv /\ PrefillAborted => SchedInv'
<1> SUFFICES ASSUME SchedInv, PrefillAborted PROVE SchedInv'
  OBVIOUS
<1>0. /\ pc = "prefill" /\ pc' = "deliver" /\ cur \in pending_aborts
      /\ Reschedule(Running) /\ cur' = NoRequest /\ rejected' = {}
      /\ UNCHANGED <<prefilling, requests, removes, draining, client, aborted,
                     pending_aborts, recovery, faults, out, mem_stall, store_stall>>
  BY DEF PrefillAborted, storeVars, stallVars, envVars, Running
<1>1. /\ IsQueue(waiting') /\ Range(waiting') = Running \cup Waiting
      /\ IsQueue(running') /\ Range(running') = {} /\ Len(running') = 0
      /\ tokens' \in [Requests -> Nat]
  BY <1>0, RescheduleFacts
<1>2. cur \in aborted /\ client[cur] = "closed" /\ "abort" \in faults
  BY <1>0 DEF SchedInv, AbortsPend, Causes
<1>3. rejected # {} => ~OutputsKept(faults)
  BY <1>2 DEF SchedInv, Causes, OutputsKept
<1>4. \A r \in Current \cup rejected : ~OutputsKept(faults) \/ client[r] # "open"
  BY <1>2, <1>3 DEF Current
<1>5. /\ requests' = requests \ (Running \ Running) /\ out' = out \cup (Running \ Running)
      /\ recovery' \cap Prefilling \subseteq recovery
  BY <1>0
<1> QED
  BY <1>0, <1>1, <1>4, <1>5, GivenUpInv

LEMMA CacheCorruptionInv == SchedInv /\ CacheCorruption => SchedInv'
<1> SUFFICES ASSUME SchedInv, CacheCorruption PROVE SchedInv'
  OBVIOUS
<1> DEFINE again == {r \in Running : corruptions[r] < MaxRetries}
<1>0. /\ pc = "decode" \/ (pc = "prefill" /\ "badcache" \in faults)
      /\ pc' = "deliver" /\ Reschedule(again) /\ cur' = NoRequest /\ rejected' = {}
      /\ requests' = requests \ (Running \ again) /\ out' = out \cup (Running \ again)
      /\ UNCHANGED <<prefilling, removes, draining, client, aborted, pending_aborts,
                     recovery, faults, mem_stall, store_stall>>
  BY DEF CacheCorruption, May, storeVars, stallVars, Running
<1>1. again \subseteq Running
  OBVIOUS
<1> HIDE DEF again
<1>2. /\ IsQueue(waiting') /\ Range(waiting') = again \cup Waiting
      /\ IsQueue(running') /\ Range(running') = {} /\ Len(running') = 0
      /\ tokens' \in [Requests -> Nat]
  BY <1>0, <1>1, RescheduleFacts
<1>3. \A r \in Current \cup rejected : ~OutputsKept(faults) \/ client[r] # "open"
  BY <1>0 DEF Current, SchedInv, Phases, OutputsKept
<1> QED
  BY <1>0, <1>1, <1>2, <1>3, GivenUpInv

LEMMA DecodeStaleInv == SchedInv /\ DecodeStale => SchedInv'
<1> SUFFICES ASSUME SchedInv, DecodeStale PROVE SchedInv'
  OBVIOUS
<1> DEFINE over == {r \in Running : tokens[r] > 0}
           stay == Running \ over
<1>0. /\ pc = "decode" /\ pc' = "deliver" /\ Reschedule(stay)
      /\ requests' = requests \ over /\ out' = out \cup over
      /\ UNCHANGED <<prefilling, cur, rejected, removes, draining, client, aborted,
                     pending_aborts, recovery, faults, mem_stall, store_stall>>
  BY DEF DecodeStale, storeVars, stallVars, envVars, Running
<1>1. stay \subseteq Running /\ over = Running \ stay
  OBVIOUS
<1> HIDE DEF stay, over
<1>2. /\ IsQueue(waiting') /\ Range(waiting') = stay \cup Waiting
      /\ IsQueue(running') /\ Range(running') = {} /\ Len(running') = 0
      /\ tokens' \in [Requests -> Nat]
  BY <1>0, <1>1, RescheduleFacts
<1>3. cur = NoRequest /\ rejected = {} /\ Current = {}
  BY <1>0 DEF Current, SchedInv, Phases
<1> QED
  BY <1>0, <1>1, <1>2, <1>3, GivenUpInv

LEMMA GenerationOverflowInv == SchedInv /\ GenerationOverflow => SchedInv'
<1> SUFFICES ASSUME SchedInv, GenerationOverflow PROVE SchedInv'
  OBVIOUS
<1> DEFINE again == Running \ overflowed
           k == Keep(running, again)
<1>0. /\ pc \in {"decode", "fast"} /\ pc' = "deliver"
      /\ waiting' = waiting \o k /\ running' = <<>>
      /\ tokens' = [r \in Requests |-> IF r \in again THEN 0 ELSE tokens[r]]
      /\ recovery' = (recovery \cup again) \ (Running \ again)
      /\ requests' = requests \ (Running \ again) /\ out' = out \cup (Running \ again)
      /\ UNCHANGED <<prefilling, cur, rejected, removes, draining, client, aborted,
                     pending_aborts, faults, mem_stall, store_stall>>
  BY DEF GenerationOverflow, storeVars, stallVars, Running
<1>1. again \subseteq Running
  OBVIOUS
<1>2. IsQueue(waiting) /\ IsQueue(running) /\ tokens \in [Requests -> Nat]
  BY DEF SchedInv, QueueTypes
<1> HIDE DEF again
<1>3. IsQueue(k) /\ Range(k) = again
  <2>1. IsQueue(k) /\ Range(k) = Range(running) \cap again
    BY <1>2, CutFacts
  <2> QED BY <2>1, <1>1 DEF Running
<1> HIDE DEF k
<1>4. IsQueue(waiting') /\ Range(waiting') = again \cup Waiting
  <2>1. Range(waiting) \cap Range(k) = {}
    BY <1>1, <1>3 DEF SchedInv, Apart, Waiting
  <2> QED BY <1>0, <1>2, <1>3, <2>1, JoinFacts DEF Waiting
<1>5. IsQueue(running') /\ Range(running') = {} /\ Len(running') = 0
  BY <1>0, EmptyQueue
<1>6. tokens' \in [Requests -> Nat]
  BY <1>0, <1>2
<1>7. cur = NoRequest /\ rejected = {} /\ Current = {}
  BY <1>0 DEF Current, SchedInv, Phases
<1>8. recovery' \cap Prefilling \subseteq recovery
  BY <1>0, <1>1 DEF SchedInv, Apart
<1> QED
  BY <1>0, <1>1, <1>4, <1>5, <1>6, <1>7, <1>8, GivenUpInv

LEMMA AdvanceChunkedInv == SchedInv /\ ChunksLeft /\ AdvanceChunkedPrefills => SchedInv'
<1> SUFFICES ASSUME SchedInv, ChunksLeft, AdvanceChunkedPrefills PROVE SchedInv'
  OBVIOUS
<1>0. /\ pc = "finalize" /\ pc' = "schedule" /\ recovery' = recovery \cap requests'
      /\ cur = NoRequest /\ rejected = {} /\ out = {}
      /\ UNCHANGED <<waiting, cur, removes, draining, tokens, client, aborted,
                     pending_aborts, faults, out, mem_stall, store_stall>>
  <2>1. /\ pc = "finalize" /\ pc' = "schedule" /\ recovery' = recovery \cap requests'
        /\ UNCHANGED <<waiting, cur, removes, draining, tokens, client, aborted,
                       pending_aborts, faults, out, mem_stall, store_stall>>
    BY Zenon DEF AdvanceChunkedPrefills, storeVars, stallVars, envVars
  <2> QED BY <2>1 DEF SchedInv, Phases
<1>1. PICK failed \in SUBSET Range(prefilling) :
        LET end == Keep(prefilling, {r \in Requests \ failed : chunks[r] = 1})
        IN  /\ failed # {} => May("oom")
            /\ prefilling' = Keep(prefilling, {r \in Requests \ failed : chunks[r] > 1})
            /\ requests' = requests \ failed
            /\ rejected' = failed
            /\ InsertPrefilled(end)
  BY Zenon DEF AdvanceChunkedPrefills
<1> DEFINE last == {r \in Requests \ failed : chunks[r] = 1}
           more == {r \in Requests \ failed : chunks[r] > 1}
           done == Keep(prefilling, last)
<1>2. /\ failed # {} => "oom" \in faults
      /\ failed \subseteq Prefilling
      /\ prefilling' = Keep(prefilling, more)
      /\ requests' = requests \ failed /\ rejected' = failed
      /\ running' = running \o done
  <2>1. /\ prefilling' = Keep(prefilling, more) /\ running' = running \o done
        /\ requests' = requests \ failed /\ rejected' = failed
        /\ failed # {} => May("oom")
    BY <1>1, Zenon DEF InsertPrefilled
  <2> QED BY <2>1 DEF May, Prefilling
<1>3. /\ last \cap more = {} /\ failed \cap last = {} /\ failed \cap more = {}
      /\ Prefilling \subseteq failed \cup last \cup more
  <2>1. \A r \in Requests : ~ (chunks[r] = 1 /\ chunks[r] > 1)
    BY DEF ChunksLeft
  <2>2. \A r \in Prefilling : r \in Requests /\ (chunks[r] = 1 \/ chunks[r] > 1)
    <3>1. Prefilling \subseteq Requests
      BY CutFacts DEF SchedInv, QueueTypes, Prefilling
    <3> QED BY <3>1 DEF ChunksLeft
  <2> QED BY <2>1, <2>2
<1> HIDE DEF last, more
<1>4. IsQueue(prefilling) /\ IsQueue(running) /\ prefilling \in Seq(Requests)
  BY DEF SchedInv, QueueTypes, IsQueue
<1>5. /\ IsQueue(done) /\ Range(done) = Prefilling \cap last /\ Len(done) \in Nat
      /\ IsQueue(prefilling') /\ Range(prefilling') = Prefilling \cap more
      /\ Len(prefilling') \in Nat
  BY <1>2, <1>4, CutFacts DEF Prefilling
<1>6. Len(done) + Len(prefilling') <= Len(prefilling)
  BY <1>2, <1>3, <1>4, KeepSplit
<1> HIDE DEF done
<1>7. /\ IsQueue(running') /\ Range(running') = Running \cup Range(done)
      /\ Len(running') = Len(running) + Len(done) /\ Len(running) \in Nat
  <2>1. Range(running) \cap Range(done) = {}
    BY <1>5 DEF SchedInv, Apart, Running
  <2> QED BY <2>1, <1>2, <1>4, <1>5, JoinFacts DEF Running
<1>8. /\ UNCHANGED <<Waiting, Removed, Current>> /\ Prefilling' = Prefilling \cap more
      /\ Running' = Running \cup (Prefilling \cap last)
  BY <1>0, <1>5, <1>7 DEF Waiting, Removed, Current, Prefilling, Running
<1>9. /\ Admitted' \subseteq Admitted /\ Active' \cap failed = {}
      /\ Active = Active' \cup failed
  <2>1. failed \cap Waiting = {} /\ failed \cap Running = {} /\ failed \cap Current = {}
    BY <1>2 DEF SchedInv, Apart, Current
  <2> QED BY <1>2, <1>3, <1>8, <2>1 DEF Admitted, Active
<1>10. Size' <= Size
  <2>1. Len(prefilling) \in Nat
    BY SizeNat DEF SchedInv
  <2> QED BY <2>1, <1>0, <1>5, <1>6, <1>7 DEF Size
<1>11. QueueTypes'
  BY <1>0, <1>5, <1>7 DEF SchedInv, QueueTypes
<1>12. Phases'
  BY <1>0 DEF SchedInv, Phases
<1>13. /\ Waiting' \cap Prefilling' = {} /\ Waiting' \cap Running' = {}
       /\ Prefilling' \cap Running' = {}
  BY <1>3, <1>8 DEF SchedInv, Apart
<1>14. cur' \notin Waiting' \cup Prefilling' \cup Running'
  BY <1>0, <1>11, CutFacts, SchedulerAssumption DEF QueueTypes, Waiting, Prefilling, Running
<1>15. Active' \subseteq requests' /\ requests' \subseteq requests
  BY <1>2, <1>9 DEF SchedInv, Tracked
<1>16. /\ rejected' \cup out' \subseteq rejected \cup out \cup (Active \ Active')
       /\ rejected' \cap out' = {} /\ Active' \subseteq Active
       /\ \A r \in Active \cup rejected \cup out : r \in Active' \cup rejected' \cup out'
       /\ rejected' # {} => faults \cap {"oom", "slow", "memory"} # {}
  BY <1>0, <1>2, <1>9
<1>17. recovery' \cap Admitted' \subseteq recovery
       /\ Removed' \subseteq Removed \cup (Active \ Active')
  BY <1>0, <1>8
<1> QED
  BY <1>0, <1>9, <1>10, <1>11, <1>12, <1>13, <1>14, <1>15, <1>16, <1>17, MovesInv

LEMMA DecodeStepInv == SchedInv /\ DecodeStep => SchedInv'
<1> SUFFICES ASSUME SchedInv, DecodeStep PROVE SchedInv'
  OBVIOUS
<1>0. /\ pc \in {"decode", "fast"} /\ pc' = "deliver" /\ cur = NoRequest /\ rejected = {}
      /\ UNCHANGED <<waiting, prefilling, cur, rejected, draining, client, aborted,
                     pending_aborts, recovery, faults, mem_stall, store_stall>>
  BY DEF DecodeStep, stallVars, envVars, SchedInv, Phases
<1>1. PICK done \in SUBSET Heard, stored \in SUBSET Heard :
        /\ stored \subseteq done
        /\ tokens' = [r \in Requests |-> IF r \in Heard THEN tokens[r] + 1 ELSE tokens[r]]
        /\ out' = out \cup done
        /\ CleanupFinished(done, stored)
  <2>1. PICK ending \in SUBSET rows, stored \in SUBSET Heard :
          LET fin == {r \in Heard : RowOf(r) \in ending}
          IN  /\ stored \subseteq fin
              /\ tokens' = [r \in Requests |-> IF r \in Heard THEN tokens[r] + 1
                                                              ELSE tokens[r]]
              /\ out' = out \cup fin
              /\ CleanupFinished(fin, stored)
    BY Zenon DEF DecodeStep
  <2> DEFINE fin == {r \in Heard : RowOf(r) \in ending}
  <2>2. fin \in SUBSET Heard
    OBVIOUS
  <2>3. /\ stored \subseteq fin
        /\ tokens' = [r \in Requests |-> IF r \in Heard THEN tokens[r] + 1 ELSE tokens[r]]
        /\ out' = out \cup fin
        /\ CleanupFinished(fin, stored)
    BY <2>1, Zenon
  <2> HIDE DEF fin
  <2> QED BY <2>2, <2>3, Zenon
<1>2. done \subseteq Running /\ stored \subseteq done
  BY <1>1 DEF Heard, Running
<1> DEFINE order == Keep(running, stored)
           late == [i \in DOMAIN order |-> [uid |-> uidOf[order[i]], req |-> order[i]]]
<1>3. /\ running' = Keep(running, Requests \ done) /\ removes' = removes \o late
      /\ requests' = requests \ (done \ stored)
  BY <1>1, Zenon DEF CleanupFinished
<1>4. IsQueue(running) /\ tokens \in [Requests -> Nat] /\ removes \in Seq(Range(removes))
  BY DEF SchedInv, QueueTypes
<1>5. /\ IsQueue(running') /\ Range(running') = Running \ done
      /\ Len(running') <= Len(running) /\ Len(running') \in Nat /\ Len(running) \in Nat
  BY <1>3, <1>4, CutFacts DEF Running
<1>6. IsQueue(order) /\ Range(order) = stored
  <2>1. IsQueue(order) /\ Range(order) = Range(running) \cap stored
    BY <1>4, CutFacts
  <2> QED BY <2>1, <1>2 DEF Running
<1> HIDE DEF order
<1>7. late \in Seq(Range(late)) /\ \A e \in Range(late) : e.req \in stored
  <2>1. DOMAIN order = 1..Len(order) /\ Len(order) \in Nat
    BY <1>6 DEF IsQueue
  <2>2. \A i \in DOMAIN order : late[i].req = order[i] /\ order[i] \in stored
    BY <1>6 DEF Range
  <2>3. DOMAIN late = 1..Len(order)
    BY <2>1
  <2> HIDE DEF late
  <2>4. \A i \in 1..Len(order) : late[i] \in Range(late)
    BY <2>3 DEF Range
  <2>5. late = [i \in 1..Len(order) |-> late[i]]
    BY <2>1 DEF late
  <2>6. late \in Seq(Range(late))
    BY <2>1, <2>4, <2>5
  <2> QED BY <2>1, <2>2, <2>3, <2>6 DEF Range
<1> HIDE DEF late
<1>8. removes' \in Seq(Range(removes')) /\ Range(removes') = Range(removes) \cup Range(late)
  BY <1>3, <1>4, <1>7, JoinRange
<1>9. Removed' \subseteq Removed \cup stored
  BY <1>0, <1>7, <1>8 DEF Removed
<1>10. /\ UNCHANGED <<Waiting, Prefilling, Current>> /\ Running' = Running \ done
       /\ Current = {}
  BY <1>0, <1>5 DEF Waiting, Prefilling, Current, Running
<1>11. /\ Active = Active' \cup done /\ Active' \cap done = {} /\ Admitted' \subseteq Admitted
  BY <1>2, <1>10 DEF SchedInv, Apart, Active, Admitted
<1>12. tokens' \in [Requests -> Nat]
  BY <1>1, <1>4
<1>13. QueueTypes'
  BY <1>0, <1>5, <1>8, <1>12 DEF SchedInv, QueueTypes
<1>14. Phases'
  BY <1>0 DEF SchedInv, Phases
<1>15. Size' <= Size
  BY <1>0, <1>5, SizeNat DEF Size, SchedInv
<1>16. /\ Waiting' \cap Prefilling' = {} /\ Waiting' \cap Running' = {}
       /\ Prefilling' \cap Running' = {}
       /\ cur' \notin Waiting' \cup Prefilling' \cup Running'
  BY <1>0, <1>10 DEF SchedInv, Apart
<1>17. Active' \subseteq requests' /\ requests' \subseteq requests
  BY <1>3, <1>11 DEF SchedInv, Tracked
<1>18. /\ rejected' \cup out' \subseteq rejected \cup out \cup (Active \ Active')
       /\ rejected' \cap out' = {} /\ rejected' = {} /\ Active' \subseteq Active
       /\ \A r \in Active \cup rejected \cup out : r \in Active' \cup rejected' \cup out'
  BY <1>0, <1>1, <1>11
<1>19. Removed' \subseteq Removed \cup (Active \ Active')
  BY <1>2, <1>9, <1>11
<1> QED
  BY <1>0, <1>11, <1>13, <1>14, <1>15, <1>16, <1>17, <1>18, <1>19, MovesInv

-----------------------------------------------------------------------------
(* The end of a step *)

LEMMA DeliverInv == SchedInv /\ Deliver => SchedInv'
<1> SUFFICES ASSUME SchedInv, Deliver PROVE SchedInv'
  OBVIOUS
<1>0. /\ pc = "deliver" /\ pc' = "idle" /\ out' = {} /\ rejected = {}
      /\ client' = [r \in Requests |-> IF r \in out THEN "closed" ELSE client[r]]
      /\ UNCHANGED <<waiting, prefilling, running, requests, cur, removes, draining, tokens,
                     aborted, pending_aborts, recovery, faults, rejected, mem_stall,
                     store_stall>>
  BY DEF Deliver, queueVars, stallVars, reqVars, storeVars, SchedInv, Phases
<1>1. UNCHANGED <<Waiting, Prefilling, Running, Current, Admitted, Active, Removed, Size>>
  BY <1>0 DEF Waiting, Prefilling, Running, Current, Admitted, Active, Removed, Size
<1>2. \A r \in Requests : client'[r] = IF r \in out THEN "closed" ELSE client[r]
  BY <1>0
<1>3. QueueTypes'
  <2>1. client' \in [Requests -> {"absent", "open", "closed"}]
    BY <1>0 DEF SchedInv, QueueTypes
  <2> QED BY <1>0, <2>1 DEF SchedInv, QueueTypes
<1>4. Phases' /\ Causes'
  BY <1>0 DEF SchedInv, Phases, Causes
<1>5. Apart' /\ Tracked'
  BY <1>0, <1>1 DEF SchedInv, Apart, Tracked
<1>6. Unseen'
  BY <1>0, <1>1, <1>2 DEF SchedInv, Unseen
<1>7. AbortsPend'
  BY <1>0, <1>1, <1>2 DEF SchedInv, AbortsPend, QueueTypes
<1>8. Sized'
  BY <1>0, <1>1 DEF SchedInv, Sized
<1>9. Homed'
  BY <1>0, <1>1, <1>2 DEF SchedInv, Homed
<1> QED
  BY <1>3, <1>4, <1>5, <1>6, <1>7, <1>8, <1>9 DEF SchedInv

LEMMA FailAllInv == SchedInv /\ FailAllRequests => SchedInv'
<1> SUFFICES ASSUME SchedInv, FailAllRequests PROVE SchedInv'
  OBVIOUS
<1>0. /\ pc' = "idle" /\ out' = {} /\ rejected' = {} /\ cur' = NoRequest
      /\ waiting' = <<>> /\ prefilling' = <<>> /\ running' = <<>>
      /\ requests' \subseteq requests
      /\ client' = [r \in Requests |-> IF client[r] = "open" THEN "closed" ELSE client[r]]
      /\ UNCHANGED <<removes, draining, tokens, aborted, pending_aborts, recovery, faults,
                     mem_stall, store_stall>>
  BY DEF FailAllRequests, stallVars, reqVars, storeVars
<1>1. /\ Waiting' = {} /\ Prefilling' = {} /\ Running' = {} /\ Current' = {}
      /\ Admitted' = {} /\ Active' = {} /\ Size' = 0 /\ Removed' = Removed
  BY <1>0, EmptyQueue
     DEF Waiting, Prefilling, Running, Current, Admitted, Active, Removed, Size
<1>2. \A r \in Requests :
         client'[r] = IF client[r] = "open" THEN "closed" ELSE client[r]
  BY <1>0
<1>3. QueueTypes'
  <2>1. client' \in [Requests -> {"absent", "open", "closed"}]
    BY <1>0 DEF SchedInv, QueueTypes
  <2> QED BY <1>0, <2>1, EmptyQueue DEF SchedInv, QueueTypes
<1>4. Phases' /\ Causes'
  BY <1>0 DEF SchedInv, Phases, Causes
<1>5. Apart' /\ Tracked'
  BY <1>0, <1>1 DEF Apart, Tracked
<1>6. Unseen'
  BY <1>0, <1>1, <1>2 DEF SchedInv, Unseen
<1>7. AbortsPend'
  BY <1>0, <1>1, <1>2 DEF SchedInv, AbortsPend, QueueTypes
<1>8. Sized'
  BY <1>1, SchedulerAssumption DEF Sized
<1>9. Homed'
  BY <1>2 DEF Homed
<1> QED
  BY <1>3, <1>4, <1>5, <1>6, <1>7, <1>8, <1>9 DEF SchedInv

-----------------------------------------------------------------------------
(* Every step *)

LEMMA SchedStepInv == SchedInv /\ ChunksLeft /\ [SchedNext]_schedVars => SchedInv'
<1> SUFFICES ASSUME SchedInv, ChunksLeft, [SchedNext]_schedVars PROVE SchedInv'
  OBVIOUS
<1>1. CASE EngineThread
  <2>1. ASSUME NEW r \in Requests, DoAbortRequest(r) PROVE SchedInv'
    BY <2>1, DoAbortRequestInv
  <2> QED
    BY <1>1, <2>1, StepBeginInv, DrainInv, FinalizeInv, AdvanceChunkedInv, ScheduleEndsInv,
       StoreGateStallInv, RemovesStallInv, MemoryRejectInv, MemoryStallInv, AdmitHeadInv,
       PrefillDoneInv, PrefillFailsInv, PrefillAbortedInv, DecodeStepInv, DecodeNothingInv,
       DecodeStaleInv, CacheCorruptionInv, GenerationOverflowInv, DecodeRaisesInv,
       DeliverInv, FailAllInv, Zenon
       DEF EngineThread
<1>2. ASSUME NEW r \in Requests, AddRequest(r) \/ AbortRequest(r) PROVE SchedInv'
  BY <1>2, AddRequestInv, AbortRequestInv
<1>3. CASE StoreWorker \/ SetAdmissionPaused \/ Clock \/ RowVanishes
  BY <1>3, StoreWorkerInv, PausedInv, ClockInv, RowVanishesInv, Zenon
<1>4. CASE UNCHANGED schedVars
  <2>1. UNCHANGED <<waiting, prefilling, running, requests, cur, removes, draining,
                    tokens, client, aborted, pending_aborts, recovery, faults,
                    rejected, out, pc, mem_stall, store_stall>>
    BY <1>4 DEF schedVars, queueVars, stallVars, reqVars, storeVars, stepVars, envVars
  <2>2. Phases' /\ Causes'
    BY <2>1 DEF SchedInv, Phases, Causes
  <2> QED BY <2>1, <2>2, QuietInv
<1> QED
  BY <1>1, <1>2, <1>3, <1>4, Zenon DEF SchedNext

\* No step changes which faults can happen.
LEMMA FaultsFixed == [SchedNext]_schedVars => UNCHANGED faults
<1> SUFFICES ASSUME [SchedNext]_schedVars PROVE UNCHANGED faults
  OBVIOUS
<1>1. CASE EngineThread
  <2>1. ASSUME NEW r \in Requests, DoAbortRequest(r) PROVE UNCHANGED faults
    BY <2>1, Zenon DEF DoAbortRequest
  <2>2. CASE StepBegin \/ DrainPendingAsyncRemoves \/ FinalizeRemove
             \/ AdvanceChunkedPrefills \/ ScheduleEnds \/ StoreGateStall
    BY <2>2, Zenon DEF StepBegin, DrainPendingAsyncRemoves, FinalizeRemove,
       AdvanceChunkedPrefills, ScheduleEnds, StoreGateStall, envVars
  <2>3. CASE RemovesStall \/ MemoryReject \/ MemoryStall \/ AdmitHead \/ PrefillDone
             \/ PrefillFails \/ PrefillAborted
    BY <2>3, Zenon DEF RemovesStall, MemoryReject, MemoryStall, AdmitHead, PrefillDone,
       PrefillFails, PrefillAborted, envVars
  <2>4. CASE DecodeStep \/ DecodeNothing \/ DecodeStale \/ CacheCorruption
             \/ GenerationOverflow \/ DecodeRaises \/ Deliver \/ FailAllRequests
    BY <2>4, Zenon DEF DecodeStep, DecodeNothing, DecodeStale, CacheCorruption,
       GenerationOverflow, DecodeRaises, Deliver, FailAllRequests, envVars
  <2> QED BY <1>1, <2>1, <2>2, <2>3, <2>4, Zenon DEF EngineThread
<1>2. ASSUME NEW r \in Requests, AddRequest(r) \/ AbortRequest(r) PROVE UNCHANGED faults
  BY <1>2, Zenon DEF AddRequest, AbortRequest
<1>3. CASE StoreWorker \/ SetAdmissionPaused \/ Clock \/ RowVanishes
  BY <1>3, Zenon DEF StoreWorker, SetAdmissionPaused, Clock, RowVanishes, envVars
<1>4. CASE UNCHANGED schedVars
  BY <1>4 DEF schedVars, envVars
<1> QED
  BY <1>1, <1>2, <1>3, <1>4, Zenon DEF SchedNext

\* _advance_chunked_prefills takes a request off with its last chunk.
LEMMA ChunksStep == SchedInv /\ ChunksLeft /\ [SchedNext]_schedVars => ChunksLeft'
<1> SUFFICES ASSUME SchedInv, ChunksLeft, [SchedNext]_schedVars PROVE ChunksLeft'
  OBVIOUS
<1>0. ASSUME UNCHANGED <<prefilling, chunks>> PROVE ChunksLeft'
  BY <1>0 DEF ChunksLeft, Prefilling
<1>1. IsQueue(prefilling) /\ IsQueue(waiting)
  BY DEF SchedInv, QueueTypes
<1>2. ASSUME NEW r \in Requests, DoAbortRequest(r) PROVE ChunksLeft'
  <2>1. UNCHANGED chunks /\ (prefilling' = prefilling
                             \/ prefilling' = Keep(prefilling, Requests \ {r}))
    BY <1>2 DEF DoAbortRequest, queueVars
  <2>2. Range(prefilling') \subseteq Range(prefilling)
    BY <2>1, <1>1, CutFacts
  <2> QED BY <2>1, <2>2 DEF ChunksLeft, Prefilling
<1>3. CASE AdvanceChunkedPrefills
  <2>1. PICK failed \in SUBSET Range(prefilling) :
          /\ prefilling' = Keep(prefilling, {r \in Requests \ failed : chunks[r] > 1})
          /\ chunks' = [r \in Requests |-> IF r \in Range(prefilling)
                                           THEN chunks[r] - 1 ELSE chunks[r]]
    BY <1>3, Zenon DEF AdvanceChunkedPrefills
  <2> DEFINE more == {r \in Requests \ failed : chunks[r] > 1}
  <2>2. \A r \in more : r \in Requests /\ chunks[r] > 1
    OBVIOUS
  <2>3. prefilling' = Keep(prefilling, more)
    BY <2>1
  <2> HIDE DEF more
  <2>4. Range(prefilling') = Range(prefilling) \cap more
    BY <2>3, <1>1, CutFacts
  <2>5. chunks' \in [Requests -> Int]
    BY <2>1 DEF ChunksLeft
  <2>6. \A r \in Range(prefilling') : chunks'[r] = chunks[r] - 1 /\ chunks[r] > 1
                                      /\ chunks[r] \in Int
    BY <2>1, <2>2, <2>4 DEF ChunksLeft
  <2> QED BY <2>5, <2>6 DEF ChunksLeft, Prefilling
<1>4. CASE AdmitHead
  <2> DEFINE r == Head(waiting)
  <2>1. waiting # <<>>
    BY <1>4 DEF AdmitHead, GateOpen, MayAdmit
  <2>2. \/ UNCHANGED <<prefilling, chunks>>
        \/ /\ prefilling' = Append(prefilling, r)
           /\ chunks' = [chunks EXCEPT ![r] = Chunks - 1]
    BY <1>4 DEF AdmitHead
  <2>3. r \in Requests /\ r \notin Range(prefilling)
    BY <2>1, <1>1, TailFacts DEF SchedInv, Apart, Waiting, Prefilling
  <2> HIDE DEF r
  <2>4. CASE UNCHANGED <<prefilling, chunks>>
    BY <2>4, <1>0
  <2>5. CASE /\ prefilling' = Append(prefilling, r)
             /\ chunks' = [chunks EXCEPT ![r] = Chunks - 1]
    <3>1. Range(prefilling') = Range(prefilling) \cup {r}
      BY <2>3, <2>5, <1>1, AppendFacts
    <3>2. Chunks - 1 \in Int /\ Chunks - 1 >= 1
      BY SchedulerAssumption
    <3>3. Range(prefilling) \subseteq Requests
      BY <1>1, CutFacts
    <3>4. chunks' \in [Requests -> Int]
      BY <2>5, <3>2 DEF ChunksLeft
    <3>5. \A x \in Range(prefilling') : chunks'[x] >= 1
      BY <2>3, <2>5, <3>1, <3>2, <3>3 DEF ChunksLeft, Prefilling
    <3> QED BY <3>4, <3>5 DEF ChunksLeft, Prefilling
  <2> QED BY <2>2, <2>4, <2>5
<1>5. CASE FailAllRequests
  BY <1>5, EmptyQueue DEF FailAllRequests, reqVars, ChunksLeft, Prefilling
<1>6. CASE StepBegin \/ DrainPendingAsyncRemoves \/ FinalizeRemove \/ ScheduleEnds
           \/ StoreGateStall \/ RemovesStall \/ MemoryReject \/ MemoryStall
  <2>1. UNCHANGED <<prefilling, chunks>>
    BY <1>6, Zenon DEF StepBegin, DrainPendingAsyncRemoves, FinalizeRemove, ScheduleEnds,
       StoreGateStall, RemovesStall, MemoryReject, MemoryStall, queueVars, reqVars
  <2> QED BY <2>1, <1>0
<1>7. CASE PrefillDone \/ PrefillFails \/ PrefillAborted \/ DecodeStep \/ DecodeNothing
           \/ DecodeStale \/ CacheCorruption \/ GenerationOverflow \/ DecodeRaises \/ Deliver
  <2>1. UNCHANGED <<prefilling, chunks>>
    BY <1>7, Zenon DEF PrefillDone, PrefillFails, PrefillAborted, DecodeStep, DecodeNothing,
       DecodeStale, CacheCorruption, GenerationOverflow, DecodeRaises, Deliver, queueVars,
       reqVars
  <2> QED BY <2>1, <1>0
<1>8. ASSUME NEW r \in Requests, AddRequest(r) \/ AbortRequest(r) PROVE ChunksLeft'
  <2>1. UNCHANGED <<prefilling, chunks>>
    BY <1>8, Zenon DEF AddRequest, AbortRequest, queueVars, reqVars
  <2> QED BY <2>1, <1>0
<1>9. CASE StoreWorker \/ SetAdmissionPaused \/ Clock \/ RowVanishes \/ UNCHANGED schedVars
  <2>1. UNCHANGED <<prefilling, chunks>>
    BY <1>9, Zenon DEF StoreWorker, SetAdmissionPaused, Clock, RowVanishes, schedVars,
       queueVars, reqVars
  <2> QED BY <2>1, <1>0
<1> QED
  BY <1>2, <1>3, <1>4, <1>5, <1>6, <1>7, <1>8, <1>9, Zenon DEF SchedNext, EngineThread

-----------------------------------------------------------------------------
(* The uid maps *)

UidTypes ==
    /\ DOMAIN uidOf \subseteq Requests /\ uidOf \in [DOMAIN uidOf -> Nat]
    /\ DOMAIN idOf \subseteq Nat /\ idOf \in [DOMAIN idOf -> Requests]
    /\ next_uid \in Nat /\ rows \subseteq 0 .. next_uid - 1
    /\ lost \subseteq Requests

\* A running request has a uid of the generator that is there now, and its own
\* mapping unless another request's removal took it.
Mapped ==
    \A r \in Running :
        /\ r \in DOMAIN uidOf /\ uidOf[r] < next_uid
        /\ r \notin lost => uidOf[r] \in DOMAIN idOf /\ idOf[uidOf[r]] = r

\* No two running requests share a uid.
OwnUids == \A r, q \in Running : uidOf[r] = uidOf[q] => r = q

\* A row that answers for a request is the row of a running one.
RowsOwned ==
    \A u \in rows \cap DOMAIN idOf : idOf[u] \in Running /\ uidOf[idOf[u]] = u

UidInv == UidTypes /\ Mapped /\ OwnUids /\ RowsOwned

\* What Without leaves.
LEMMA WithoutFacts ==
    ASSUME NEW f, NEW S, NEW T, f \in [DOMAIN f -> T]
    PROVE  /\ DOMAIN Without(f, S) = DOMAIN f \ S
           /\ Without(f, S) \in [DOMAIN f \ S -> T]
           /\ \A x \in DOMAIN f \ S : Without(f, S)[x] = f[x]
  BY DEF Without

\* What With has.
LEMMA WithFacts ==
    ASSUME NEW f, NEW g
    PROVE  /\ DOMAIN With(f, g) = DOMAIN f \cup DOMAIN g
           /\ \A x \in DOMAIN g : With(f, g)[x] = g[x]
           /\ \A x \in DOMAIN f \ DOMAIN g : With(f, g)[x] = f[x]
           /\ With(f, g) = [x \in DOMAIN With(f, g) |-> With(f, g)[x]]
<1> DEFINE h == With(f, g)
<1>1. h = [x \in DOMAIN f \cup DOMAIN g |-> IF x \in DOMAIN g THEN g[x] ELSE f[x]]
  BY DEF With
<1> HIDE DEF h
<1>2. /\ DOMAIN h = DOMAIN f \cup DOMAIN g
      /\ \A x \in DOMAIN g : h[x] = g[x]
      /\ \A x \in DOMAIN f \ DOMAIN g : h[x] = f[x]
      /\ h = [x \in DOMAIN h |-> h[x]]
  BY <1>1
<1> QED
  BY <1>2 DEF h

\* The uids that insert() gives to the requests of seq are new, and each
\* leads back to its request.
LEMMA NewUidFacts ==
    ASSUME NEW seq, IsQueue(seq), next_uid \in Nat
    PROVE  /\ DOMAIN NewUids(seq) = Range(seq) /\ Range(seq) \subseteq Requests
           /\ DOMAIN NewIds(seq) = next_uid .. next_uid + Len(seq) - 1
           /\ Len(seq) \in Nat
           /\ \A r \in Range(seq) : NewUids(seq)[r] \in DOMAIN NewIds(seq)
                                    /\ NewIds(seq)[NewUids(seq)[r]] = r
           /\ \A u \in DOMAIN NewIds(seq) : NewIds(seq)[u] \in Range(seq)
                                    /\ NewUids(seq)[NewIds(seq)[u]] = u
<1> DEFINE n == Len(seq)
           Nth(r) == CHOOSE i \in 0 .. n - 1 : seq[i + 1] = r
<1>1. /\ n \in Nat /\ DOMAIN seq = 1..n /\ Range(seq) \subseteq Requests
      /\ Range(seq) = {seq[i] : i \in 1..n}
      /\ \A i, j \in 1..n : seq[i] = seq[j] => i = j
  BY CutFacts DEF IsQueue, IsInjective, Range
<1>2. /\ NewUids(seq) = [r \in Range(seq) |-> next_uid + Nth(r)]
      /\ NewIds(seq) = [u \in next_uid .. next_uid + n - 1 |-> seq[u - next_uid + 1]]
  BY Zenon DEF NewUids, NewIds
<1>3. ASSUME NEW r \in Range(seq)
      PROVE  Nth(r) \in 0 .. n - 1 /\ seq[Nth(r) + 1] = r
  <2>1. PICK i \in 1..n : seq[i] = r
    BY <1>1
  <2>2. i - 1 \in 0 .. n - 1 /\ seq[(i - 1) + 1] = r
    BY <1>1, <2>1
  <2> QED BY <2>2, Zenon
<1> HIDE DEF Nth
<1>4. ASSUME NEW r \in Range(seq)
      PROVE  /\ NewUids(seq)[r] \in next_uid .. next_uid + n - 1
             /\ NewIds(seq)[NewUids(seq)[r]] = r
  <2> DEFINE k == Nth(r)
  <2>1. k \in 0 .. n - 1 /\ seq[k + 1] = r
    BY <1>3
  <2>2. NewUids(seq)[r] = next_uid + k
    BY <1>2
  <2> HIDE DEF k
  <2>3. next_uid + k \in next_uid .. next_uid + n - 1 /\ (next_uid + k) - next_uid + 1 = k + 1
    BY <1>1, <2>1
  <2> QED BY <1>2, <2>1, <2>2, <2>3
<1>5. ASSUME NEW u \in next_uid .. next_uid + n - 1
      PROVE  NewIds(seq)[u] \in Range(seq) /\ NewUids(seq)[NewIds(seq)[u]] = u
  <2> DEFINE i == u - next_uid + 1
             r == NewIds(seq)[u]
  <2>1. r = seq[i] /\ i \in 1..n
    BY <1>1, <1>2
  <2>2. r \in Range(seq)
    BY <2>1, <1>1
  <2>3. Nth(r) \in 0 .. n - 1 /\ seq[Nth(r) + 1] = r
    BY <1>3, <2>2
  <2> DEFINE k == Nth(r)
  <2>4. NewUids(seq)[r] = next_uid + k
    BY <1>2, <2>2
  <2>5. k \in 0 .. n - 1 /\ k + 1 \in 1..n /\ seq[k + 1] = seq[i]
    BY <2>1, <2>3, <1>1
  <2> HIDE DEF k, r
  <2>6. k + 1 = i
    <3> HIDE DEF i
    <3> QED BY <2>1, <2>5, <1>1
  <2>7. next_uid + k = u
    BY <2>5, <2>6, <1>1
  <2> QED BY <2>2, <2>4, <2>7 DEF r
<1> QED
  BY <1>1, <1>2, <1>4, <1>5

\* insert() of requests that do not run yet.
LEMMA InsertUids ==
    ASSUME UidInv, NEW seq, IsQueue(seq), IsQueue(running),
           Range(seq) \cap Running = {}, InsertPrefilled(seq)
    PROVE  UidInv'
<1> DEFINE nu == NewUids(seq)
           ni == NewIds(seq)
           n == Len(seq)
<1>1. /\ running' = running \o seq /\ uidOf' = With(uidOf, nu) /\ idOf' = With(idOf, ni)
      /\ rows' = rows \cup DOMAIN ni /\ next_uid' = next_uid + n
      /\ lost' = lost \ Range(seq)
  BY Zenon DEF InsertPrefilled
<1>2. /\ DOMAIN nu = Range(seq) /\ Range(seq) \subseteq Requests
      /\ DOMAIN ni = next_uid .. next_uid + n - 1 /\ n \in Nat
      /\ \A r \in Range(seq) : nu[r] \in DOMAIN ni /\ ni[nu[r]] = r
      /\ \A u \in DOMAIN ni : ni[u] \in Range(seq) /\ nu[ni[u]] = u
  BY NewUidFacts, Zenon DEF UidInv, UidTypes
<1>3. Running' = Running \cup Range(seq)
  BY <1>1, JoinFacts DEF Running
<1>4. next_uid \in Nat /\ rows \subseteq 0 .. next_uid - 1
  BY DEF UidInv, UidTypes
<1> HIDE DEF nu, ni, n
<1>5. /\ DOMAIN uidOf' = DOMAIN uidOf \cup Range(seq)
      /\ \A r \in Range(seq) : uidOf'[r] = nu[r]
      /\ \A r \in DOMAIN uidOf \ Range(seq) : uidOf'[r] = uidOf[r]
      /\ uidOf' = [r \in DOMAIN uidOf' |-> uidOf'[r]]
  <2>1. /\ DOMAIN With(uidOf, nu) = DOMAIN uidOf \cup DOMAIN nu
        /\ \A r \in DOMAIN nu : With(uidOf, nu)[r] = nu[r]
        /\ \A r \in DOMAIN uidOf \ DOMAIN nu : With(uidOf, nu)[r] = uidOf[r]
        /\ With(uidOf, nu) = [r \in DOMAIN With(uidOf, nu) |-> With(uidOf, nu)[r]]
    BY WithFacts
  <2> QED BY <1>1, <1>2, <2>1, Zenon
<1>6. /\ DOMAIN idOf' = DOMAIN idOf \cup DOMAIN ni
      /\ \A u \in DOMAIN ni : idOf'[u] = ni[u]
      /\ \A u \in DOMAIN idOf \ DOMAIN ni : idOf'[u] = idOf[u]
      /\ idOf' = [u \in DOMAIN idOf' |-> idOf'[u]]
  <2>1. /\ DOMAIN With(idOf, ni) = DOMAIN idOf \cup DOMAIN ni
        /\ \A u \in DOMAIN ni : With(idOf, ni)[u] = ni[u]
        /\ \A u \in DOMAIN idOf \ DOMAIN ni : With(idOf, ni)[u] = idOf[u]
        /\ With(idOf, ni) = [u \in DOMAIN With(idOf, ni) |-> With(idOf, ni)[u]]
    BY WithFacts
  <2> QED BY <1>1, <1>2, <2>1, Zenon
<1>7. /\ \A u \in DOMAIN ni : u \in Nat /\ u >= next_uid /\ u < next_uid + n
      /\ \A u \in Nat : u < next_uid => u \notin DOMAIN ni
      /\ \A u \in rows : u \in Nat /\ u < next_uid
  BY <1>2, <1>4
<1>8. UidTypes'
  <2>1. \A r \in DOMAIN uidOf' : uidOf'[r] \in Nat
    BY <1>2, <1>5, <1>7 DEF UidInv, UidTypes
  <2>2. \A u \in DOMAIN idOf' : idOf'[u] \in Requests
    BY <1>2, <1>6 DEF UidInv, UidTypes
  <2>3. rows' \subseteq 0 .. next_uid' - 1 /\ next_uid' \in Nat
    BY <1>1, <1>2, <1>4, <1>7
  <2>4. /\ DOMAIN uidOf' \subseteq Requests /\ DOMAIN idOf' \subseteq Nat
        /\ lost' \subseteq Requests
    BY <1>1, <1>2, <1>5, <1>6, <1>7 DEF UidInv, UidTypes
  <2>5. uidOf' \in [DOMAIN uidOf' -> Nat] /\ idOf' \in [DOMAIN idOf' -> Requests]
    BY <2>1, <2>2, <1>5, <1>6
  <2> QED BY <2>3, <2>4, <2>5 DEF UidTypes
<1>9. \A r \in Running : /\ r \in DOMAIN uidOf \ Range(seq) /\ uidOf[r] \in Nat
                         /\ uidOf[r] < next_uid /\ uidOf'[r] = uidOf[r]
                         /\ uidOf'[r] \notin DOMAIN ni
  BY <1>5, <1>7 DEF UidInv, UidTypes, Mapped
<1>10. \A r \in Range(seq) : uidOf'[r] = nu[r] /\ uidOf'[r] \in DOMAIN ni
  BY <1>2, <1>5
<1>11. Mapped'
  <2>1. ASSUME NEW r \in Running
        PROVE  /\ r \in DOMAIN uidOf' /\ uidOf'[r] < next_uid'
               /\ r \notin lost' => uidOf'[r] \in DOMAIN idOf' /\ idOf'[uidOf'[r]] = r
    <3>1. r \in DOMAIN uidOf' /\ uidOf'[r] < next_uid'
      BY <1>1, <1>2, <1>4, <1>5, <1>9
    <3>2. r \notin lost' => r \notin lost
      BY <1>1
    <3> QED BY <3>1, <3>2, <1>6, <1>9 DEF UidInv, Mapped
  <2>2. ASSUME NEW r \in Range(seq)
        PROVE  /\ r \in DOMAIN uidOf' /\ uidOf'[r] < next_uid'
               /\ uidOf'[r] \in DOMAIN idOf' /\ idOf'[uidOf'[r]] = r
    BY <1>1, <1>2, <1>5, <1>6, <1>7, <1>10
  <2> QED BY <2>1, <2>2, <1>3 DEF Mapped
<1>12. OwnUids'
  <2>1. \A r, q \in Running : uidOf'[r] = uidOf'[q] => r = q
    BY <1>9 DEF UidInv, OwnUids
  <2>2. \A r, q \in Range(seq) : uidOf'[r] = uidOf'[q] => r = q
    BY <1>2, <1>10
  <2> QED BY <2>1, <2>2, <1>3, <1>9, <1>10 DEF OwnUids
<1>13. RowsOwned'
  <2> SUFFICES ASSUME NEW u \in rows' \cap DOMAIN idOf'
               PROVE  idOf'[u] \in Running' /\ uidOf'[idOf'[u]] = u
    BY DEF RowsOwned
  <2>1. CASE u \in DOMAIN ni
    BY <2>1, <1>2, <1>3, <1>5, <1>6
  <2>2. CASE u \notin DOMAIN ni
    <3>1. u \in rows \cap DOMAIN idOf /\ idOf'[u] = idOf[u]
      BY <2>2, <1>1, <1>6
    <3>2. idOf[u] \in Running /\ uidOf[idOf[u]] = u
      BY <3>1 DEF UidInv, RowsOwned
    <3> QED BY <3>1, <3>2, <1>3, <1>9
  <2> QED BY <2>1, <2>2
<1> QED
  BY <1>8, <1>11, <1>12, <1>13 DEF UidInv

\* The generator is empty and nothing runs.
LEMMA EmptiedUids ==
    ASSUME UidInv, Running' = {}, rows' = {}, next_uid' \in Nat, lost' = lost,
           \/ uidOf' = <<>> /\ idOf' = <<>>
           \/ \E S, T : uidOf' = Without(uidOf, S) /\ idOf' = Without(idOf, T)
    PROVE  UidInv'
<1>1. UidTypes'
  <2>1. CASE uidOf' = <<>> /\ idOf' = <<>>
    <3>1. DOMAIN <<>> = {} /\ <<>> \in [{} -> Nat] /\ <<>> \in [{} -> Requests]
      OBVIOUS
    <3> QED BY <2>1, <3>1 DEF UidInv, UidTypes
  <2>2. ASSUME NEW S, NEW T, uidOf' = Without(uidOf, S), idOf' = Without(idOf, T)
        PROVE  UidTypes'
    <3>1. uidOf \in [DOMAIN uidOf -> Nat] /\ idOf \in [DOMAIN idOf -> Requests]
      BY DEF UidInv, UidTypes
    <3>2. /\ DOMAIN uidOf' = DOMAIN uidOf \ S /\ uidOf' \in [DOMAIN uidOf \ S -> Nat]
          /\ DOMAIN idOf' = DOMAIN idOf \ T /\ idOf' \in [DOMAIN idOf \ T -> Requests]
      BY <2>2, <3>1, WithoutFacts
    <3> QED BY <3>2 DEF UidInv, UidTypes
  <2> QED BY <2>1, <2>2
<1>2. Mapped' /\ OwnUids' /\ RowsOwned'
  BY DEF Mapped, OwnUids, RowsOwned
<1> QED
  BY <1>1, <1>2 DEF UidInv

\* Rows go, one uid with them, and whoever else runs under it is lost.
LEMMA RemovedUids ==
    ASSUME UidInv, NEW r, NEW S, NEW U, S \in {{}, {r}},
           uidOf' = Without(uidOf, S), idOf' = Without(idOf, U), rows' = rows \ U,
           next_uid' = next_uid, lost' = lost \cup Sharing(r, U),
           Running' \subseteq Running \ S,
           \A q \in Running \ Running' : q \in DOMAIN uidOf /\ uidOf[q] \in U,
           r \notin Running' \/ r \in lost' \/ uidOf[r] \notin U
    PROVE  UidInv'
<1>1. uidOf \in [DOMAIN uidOf -> Nat] /\ idOf \in [DOMAIN idOf -> Requests]
  BY DEF UidInv, UidTypes
<1>2. /\ DOMAIN uidOf' = DOMAIN uidOf \ S /\ uidOf' \in [DOMAIN uidOf \ S -> Nat]
      /\ \A q \in DOMAIN uidOf \ S : uidOf'[q] = uidOf[q]
      /\ DOMAIN idOf' = DOMAIN idOf \ U /\ idOf' \in [DOMAIN idOf \ U -> Requests]
      /\ \A u \in DOMAIN idOf \ U : idOf'[u] = idOf[u]
  <2>1. /\ DOMAIN uidOf' = DOMAIN uidOf \ S /\ uidOf' \in [DOMAIN uidOf \ S -> Nat]
        /\ \A q \in DOMAIN uidOf \ S : uidOf'[q] = uidOf[q]
    <3>1. /\ DOMAIN Without(uidOf, S) = DOMAIN uidOf \ S
          /\ Without(uidOf, S) \in [DOMAIN uidOf \ S -> Nat]
          /\ \A q \in DOMAIN uidOf \ S : Without(uidOf, S)[q] = uidOf[q]
      BY ONLY <1>1, WithoutFacts
    <3> QED BY <3>1
  <2>2. /\ DOMAIN idOf' = DOMAIN idOf \ U /\ idOf' \in [DOMAIN idOf \ U -> Requests]
        /\ \A u \in DOMAIN idOf \ U : idOf'[u] = idOf[u]
    <3>1. /\ DOMAIN Without(idOf, U) = DOMAIN idOf \ U
          /\ Without(idOf, U) \in [DOMAIN idOf \ U -> Requests]
          /\ \A u \in DOMAIN idOf \ U : Without(idOf, U)[u] = idOf[u]
      BY ONLY <1>1, WithoutFacts
    <3> QED BY <3>1
  <2> QED BY <2>1, <2>2
<1>3. \A q \in Running' : /\ q \in Running /\ q \in DOMAIN uidOf \ S
                          /\ uidOf'[q] = uidOf[q]
  BY <1>2 DEF UidInv, Mapped
<1>4. Sharing(r, U) \subseteq Requests
  BY DEF Sharing, UidInv, UidTypes
<1>5. UidTypes'
  BY <1>2, <1>4 DEF UidInv, UidTypes
<1>6. Mapped'
  <2> SUFFICES ASSUME NEW q \in Running'
               PROVE  /\ q \in DOMAIN uidOf' /\ uidOf'[q] < next_uid'
                      /\ q \notin lost' => uidOf'[q] \in DOMAIN idOf' /\ idOf'[uidOf'[q]] = q
    BY DEF Mapped
  <2>1. q \in DOMAIN uidOf' /\ uidOf'[q] < next_uid'
    BY <1>2, <1>3 DEF UidInv, Mapped
  <2>2. ASSUME q \notin lost' PROVE uidOf'[q] \in DOMAIN idOf' /\ idOf'[uidOf'[q]] = q
    <3>1. q \notin lost /\ q \notin Sharing(r, U)
      BY <2>2
    <3>2. uidOf[q] \notin U
      BY <2>2, <3>1, <1>3 DEF Sharing, Running
    <3> QED BY <3>1, <3>2, <1>2, <1>3 DEF UidInv, Mapped
  <2> QED BY <2>1, <2>2
<1>7. OwnUids'
  BY <1>3 DEF UidInv, OwnUids
<1>8. RowsOwned'
  <2> SUFFICES ASSUME NEW u \in rows' \cap DOMAIN idOf'
               PROVE  idOf'[u] \in Running' /\ uidOf'[idOf'[u]] = u
    BY DEF RowsOwned
  <2>1. u \in rows \cap DOMAIN idOf /\ u \notin U /\ idOf'[u] = idOf[u]
    BY <1>2
  <2>2. idOf[u] \in Running /\ uidOf[idOf[u]] = u
    BY <2>1 DEF UidInv, RowsOwned
  <2>3. idOf[u] \in Running'
    BY <2>1, <2>2
  <2> QED BY <2>1, <2>2, <2>3, <1>3
<1> QED
  BY <1>5, <1>6, <1>7, <1>8 DEF UidInv

\* Rows may go as long as the maps and the running requests stay.
LEMMA QuietUids ==
    ASSUME UidInv, Running' = Running, rows' \subseteq rows,
           UNCHANGED <<uidOf, idOf, next_uid, lost>>
    PROVE  UidInv'
<1>1. UidTypes'
  BY DEF UidInv, UidTypes
<1>2. Mapped' /\ OwnUids' /\ RowsOwned'
  BY DEF UidInv, Mapped, OwnUids, RowsOwned
<1> QED
  BY <1>1, <1>2 DEF UidInv

LEMMA SchedInitUids == SchedInit => UidInv
<1> SUFFICES ASSUME SchedInit PROVE UidInv
  OBVIOUS
<1>1. /\ uidOf = <<>> /\ idOf = <<>> /\ rows = {} /\ next_uid = 0 /\ lost = {}
      /\ Running = {}
  BY EmptyQueue DEF SchedInit, Running
<1>2. DOMAIN <<>> = {} /\ <<>> \in [{} -> Nat] /\ <<>> \in [{} -> Requests]
  OBVIOUS
<1>3. UidTypes
  BY <1>1, <1>2 DEF UidTypes
<1>4. Mapped /\ OwnUids /\ RowsOwned
  BY <1>1 DEF Mapped, OwnUids, RowsOwned
<1> QED
  BY <1>3, <1>4 DEF UidInv

LEMMA DoAbortUids ==
    ASSUME SchedInv, UidInv, NEW r \in Requests, DoAbortRequest(r)
    PROVE  UidInv'
<1>1. CASE r \notin requests
  <2>1. UNCHANGED <<running, uidOf, idOf, rows, next_uid, lost>>
    BY <1>1 DEF DoAbortRequest, queueVars, uidVars
  <2> QED BY <2>1, QuietUids DEF Running
<1>2. CASE r \in requests
  <2> DEFINE U == IF r \in DOMAIN uidOf THEN {uidOf[r]} ELSE {}
  <2>1. /\ rows' = rows \ U /\ lost' = lost \cup Sharing(r, U) /\ next_uid' = next_uid
        /\ \/ /\ U \subseteq DOMAIN idOf /\ idOf' = Without(idOf, U)
              /\ uidOf' = Without(uidOf, {r})
              /\ running' = Keep(running, Requests \ {r})
           \/ /\ ~(U \subseteq DOMAIN idOf)
              /\ UNCHANGED <<idOf, uidOf, running>>
    BY <1>2 DEF DoAbortRequest
  <2>2. U \in {{uidOf[r]}, {}} /\ (r \in DOMAIN uidOf => U = {uidOf[r]})
    OBVIOUS
  <2> HIDE DEF U
  <2>3. CASE /\ U \subseteq DOMAIN idOf /\ idOf' = Without(idOf, U)
             /\ uidOf' = Without(uidOf, {r})
             /\ running' = Keep(running, Requests \ {r})
    <3>1. IsQueue(running) /\ Running \subseteq Requests
      BY CutFacts DEF SchedInv, QueueTypes, Running
    <3>2. Running' = Running \ {r}
      <4>1. Range(running') = Range(running) \cap (Requests \ {r})
        BY <2>3, <3>1, CutFacts
      <4> QED BY <3>1, <4>1 DEF Running
    <3>3. \A q \in Running \ Running' : q \in DOMAIN uidOf /\ uidOf[q] \in U
      BY <2>2, <3>2 DEF UidInv, Mapped
    <3>4. /\ {r} \in {{}, {r}} /\ Running' \subseteq Running \ {r}
          /\ (r \notin Running' \/ r \in lost' \/ uidOf[r] \notin U)
      BY <3>2
    <3> QED BY <2>1, <2>3, <3>3, <3>4, RemovedUids
  <2>4. CASE /\ ~(U \subseteq DOMAIN idOf)
             /\ UNCHANGED <<idOf, uidOf, running>>
    <3>1. uidOf \in [DOMAIN uidOf -> Nat] /\ idOf \in [DOMAIN idOf -> Requests]
      BY DEF UidInv, UidTypes
    <3>2. U = {uidOf[r]} /\ uidOf[r] \notin DOMAIN idOf
      BY <2>2, <2>4
    <3>3. uidOf' = Without(uidOf, {})
      BY <2>4, <3>1 DEF Without
    <3>4. idOf' = Without(idOf, U)
      <4>1. DOMAIN idOf \ U = DOMAIN idOf
        BY <3>2
      <4> QED BY <2>4, <3>1, <4>1 DEF Without
    <3>5. Running' = Running
      BY <2>4 DEF Running
    <3>6. /\ {} \in {{}, {r}} /\ Running' \subseteq Running \ {}
          /\ \A q \in Running \ Running' : q \in DOMAIN uidOf /\ uidOf[q] \in U
      BY <3>5
    <3>7. r \notin Running' \/ r \in lost' \/ uidOf[r] \notin U
      BY <2>1, <3>2, <3>5 DEF UidInv, Mapped
    <3> QED BY <2>1, <3>3, <3>4, <3>6, <3>7, RemovedUids
  <2> QED BY <2>1, <2>3, <2>4
<1> QED
  BY <1>1, <1>2

LEMMA FinalizeUids == SchedInv /\ UidInv /\ FinalizeRemove => UidInv'
<1> SUFFICES ASSUME SchedInv, UidInv, FinalizeRemove PROVE UidInv'
  OBVIOUS
<1> DEFINE e == Head(draining)
<1>1. running' = running /\ draining # <<>>
  BY DEF FinalizeRemove
<1>2. \/ UNCHANGED <<uidOf, idOf, rows, next_uid, lost>>
      \/ /\ rows' = rows \ {e.uid} /\ lost' = lost \cup Sharing(e.req, {e.uid})
         /\ next_uid' = next_uid /\ idOf' = Without(idOf, {e.uid})
         /\ uidOf' = Without(uidOf, {e.req})
  BY DEF FinalizeRemove, uidVars
<1>3. e.req \notin Running
  <2>1. e \in Range(draining)
    <3> DEFINE X == Range(draining)
    <3>1. draining \in Seq(X)
      BY DEF SchedInv, QueueTypes
    <3> HIDE DEF X
    <3>2. e \in X
      BY <1>1, <3>1
    <3> QED BY <3>2 DEF X
  <2>2. e.req \in Removed
    BY <2>1 DEF Removed
  <2> QED BY <2>2 DEF SchedInv, Tracked, Active, Admitted
<1> HIDE DEF e
<1>4. Running' = Running
  BY <1>1 DEF Running
<1>5. CASE UNCHANGED <<uidOf, idOf, rows, next_uid, lost>>
  BY <1>4, <1>5, QuietUids
<1>6. CASE /\ rows' = rows \ {e.uid} /\ lost' = lost \cup Sharing(e.req, {e.uid})
           /\ next_uid' = next_uid /\ idOf' = Without(idOf, {e.uid})
           /\ uidOf' = Without(uidOf, {e.req})
  <2> DEFINE r == e.req
             U == {e.uid}
  <2>1. /\ rows' = rows \ U /\ lost' = lost \cup Sharing(r, U) /\ next_uid' = next_uid
        /\ idOf' = Without(idOf, U) /\ uidOf' = Without(uidOf, {r})
    BY <1>6
  <2>2. /\ {r} \in {{}, {r}} /\ Running' \subseteq Running \ {r}
        /\ \A q \in Running \ Running' : q \in DOMAIN uidOf /\ uidOf[q] \in U
        /\ (r \notin Running' \/ r \in lost' \/ uidOf[r] \notin U)
    BY <1>3, <1>4
  <2> HIDE DEF r, U
  <2> QED BY <2>1, <2>2, RemovedUids
<1> QED
  BY <1>2, <1>5, <1>6

LEMMA AdvanceUids == SchedInv /\ UidInv /\ AdvanceChunkedPrefills => UidInv'
<1> SUFFICES ASSUME SchedInv, UidInv, AdvanceChunkedPrefills PROVE UidInv'
  OBVIOUS
<1>1. PICK failed \in SUBSET Range(prefilling) :
        InsertPrefilled(Keep(prefilling, {r \in Requests \ failed : chunks[r] = 1}))
  BY Zenon DEF AdvanceChunkedPrefills
<1> DEFINE S == {r \in Requests \ failed : chunks[r] = 1}
           seq == Keep(prefilling, S)
<1>2. InsertPrefilled(seq)
  BY <1>1, Zenon
<1> HIDE DEF S
<1>3. IsQueue(running) /\ IsQueue(prefilling)
  BY DEF SchedInv, QueueTypes
<1>4. IsQueue(seq) /\ Range(seq) \subseteq Prefilling
  <2>1. IsQueue(seq) /\ Range(seq) = Range(prefilling) \cap S
    BY <1>3, CutFacts
  <2> QED BY <2>1 DEF Prefilling
<1>5. Range(seq) \cap Running = {}
  BY <1>4 DEF SchedInv, Apart
<1> HIDE DEF seq
<1> QED
  BY <1>2, <1>3, <1>4, <1>5, InsertUids

LEMMA PrefillDoneUids == SchedInv /\ UidInv /\ PrefillDone => UidInv'
<1> SUFFICES ASSUME SchedInv, UidInv, PrefillDone PROVE UidInv'
  OBVIOUS
<1> DEFINE seq == <<cur>>
<1>1. pc = "prefill" /\ InsertPrefilled(seq)
  BY Zenon DEF PrefillDone
<1>2. cur \in Requests /\ cur \notin Running /\ IsQueue(running)
  BY <1>1, SchedulerAssumption DEF SchedInv, Phases, QueueTypes, Apart
<1>3. IsQueue(seq) /\ Range(seq) = {cur}
  BY <1>2 DEF IsQueue, IsInjective, Range
<1> HIDE DEF seq
<1> QED
  BY <1>1, <1>2, <1>3, InsertUids

\* The row of a running request that is heard is its own.
LEMMA HeardRow ==
    ASSUME UidInv, NEW r \in Heard
    PROVE  RowOf(r) = uidOf[r] /\ uidOf[r] \in rows \cap DOMAIN idOf /\ r \in Running
<1>1. r \in Running /\ \E u \in rows \cap DOMAIN idOf : idOf[u] = r
  BY DEF Heard, Running
<1>2. RowOf(r) \in rows \cap DOMAIN idOf /\ idOf[RowOf(r)] = r
  BY <1>1, Zenon DEF RowOf
<1>3. uidOf[r] = RowOf(r)
  BY <1>2 DEF UidInv, RowsOwned
<1> QED
  BY <1>1, <1>2, <1>3

LEMMA DecodeStepUids == SchedInv /\ UidInv /\ DecodeStep => UidInv'
<1> SUFFICES ASSUME SchedInv, UidInv, DecodeStep PROVE UidInv'
  OBVIOUS
<1>1. PICK ending \in SUBSET rows, stored \in SUBSET Heard :
          LET fin == {r \in Heard : RowOf(r) \in ending}
          IN  /\ stored \subseteq fin
              /\ CleanupFinished(fin, stored)
              /\ rows' = rows \ ending
  BY Zenon DEF DecodeStep
<1> DEFINE done == {r \in Heard : RowOf(r) \in ending}
           now == done \ stored
           gone == {uidOf[r] : r \in now}
<1>2. CleanupFinished(done, stored) /\ rows' = rows \ ending
  BY <1>1, Zenon
<1>3. UNCHANGED <<next_uid, lost>>
  BY DEF DecodeStep
<1>4. /\ running' = Keep(running, Requests \ done)
      /\ idOf' = Without(idOf, gone) /\ uidOf' = Without(uidOf, now)
  BY <1>2, Zenon DEF CleanupFinished
<1>5. \A r \in done : r \in Running /\ uidOf[r] \in ending
  BY HeardRow
<1>6. \A r \in Running : uidOf[r] \in ending /\ idOf[uidOf[r]] = r
                         /\ uidOf[r] \in rows \cap DOMAIN idOf /\ r \in Heard => r \in done
  BY HeardRow
<1>7. \A u \in rows \cap DOMAIN idOf : u \in ending /\ idOf[u] \in Heard => idOf[u] \in done
  BY HeardRow DEF UidInv, RowsOwned
<1>8. now \subseteq done
  OBVIOUS
<1>9. \A u \in gone : \E r \in now : u = uidOf[r]
  OBVIOUS
<1> HIDE DEF done, now, gone
<1>10. Running' = Running \ done /\ Running \subseteq Requests
  <2>1. IsQueue(running)
    BY DEF SchedInv, QueueTypes
  <2>2. Range(running') = Range(running) \cap (Requests \ done) /\ Range(running) \subseteq Requests
    BY <1>4, <2>1, CutFacts
  <2> QED BY <2>2 DEF Running
<1>11. uidOf \in [DOMAIN uidOf -> Nat] /\ idOf \in [DOMAIN idOf -> Requests]
  BY DEF UidInv, UidTypes
<1>12. /\ DOMAIN uidOf' = DOMAIN uidOf \ now /\ uidOf' \in [DOMAIN uidOf \ now -> Nat]
       /\ \A q \in DOMAIN uidOf \ now : uidOf'[q] = uidOf[q]
  <2>1. /\ DOMAIN Without(uidOf, now) = DOMAIN uidOf \ now
        /\ Without(uidOf, now) \in [DOMAIN uidOf \ now -> Nat]
        /\ \A q \in DOMAIN uidOf \ now : Without(uidOf, now)[q] = uidOf[q]
    BY ONLY <1>11, WithoutFacts
  <2> QED BY <1>4, <2>1
<1>13. /\ DOMAIN idOf' = DOMAIN idOf \ gone /\ idOf' \in [DOMAIN idOf \ gone -> Requests]
       /\ \A u \in DOMAIN idOf \ gone : idOf'[u] = idOf[u]
  <2>1. /\ DOMAIN Without(idOf, gone) = DOMAIN idOf \ gone
        /\ Without(idOf, gone) \in [DOMAIN idOf \ gone -> Requests]
        /\ \A u \in DOMAIN idOf \ gone : Without(idOf, gone)[u] = idOf[u]
    BY ONLY <1>11, WithoutFacts
  <2> QED BY <1>4, <2>1
<1>14. UidTypes'
  BY <1>2, <1>3, <1>12, <1>13 DEF UidInv, UidTypes
<1>15. \A r \in Running' : /\ r \in Running /\ r \in DOMAIN uidOf \ now
                           /\ uidOf'[r] = uidOf[r] /\ uidOf[r] \notin gone
  <2> SUFFICES ASSUME NEW r \in Running'
               PROVE  /\ r \in Running /\ r \in DOMAIN uidOf \ now
                      /\ uidOf'[r] = uidOf[r] /\ uidOf[r] \notin gone
    OBVIOUS
  <2>1. r \in Running /\ r \in DOMAIN uidOf /\ r \notin now
    BY <1>8, <1>10 DEF UidInv, Mapped
  <2>2. uidOf[r] \notin gone
    BY <1>5, <1>8, <1>9, <2>1 DEF UidInv, OwnUids
  <2> QED BY <2>1, <2>2, <1>12
<1>16. Mapped'
  BY <1>3, <1>12, <1>13, <1>15 DEF UidInv, Mapped
<1>17. OwnUids'
  BY <1>15 DEF UidInv, OwnUids
<1>18. RowsOwned'
  <2> SUFFICES ASSUME NEW u \in rows' \cap DOMAIN idOf'
               PROVE  idOf'[u] \in Running' /\ uidOf'[idOf'[u]] = u
    BY DEF RowsOwned
  <2>1. u \in rows \cap DOMAIN idOf /\ u \notin ending /\ idOf'[u] = idOf[u]
    BY <1>2, <1>13
  <2>2. idOf[u] \in Running /\ uidOf[idOf[u]] = u
    BY <2>1 DEF UidInv, RowsOwned
  <2>3. idOf[u] \in Running'
    BY <1>5, <1>10, <2>1, <2>2
  <2> QED BY <2>1, <2>2, <2>3, <1>15
<1> QED
  BY <1>14, <1>16, <1>17, <1>18 DEF UidInv

\* The steps that give the generator up.
LEMMA EmptyingUids ==
    ASSUME UidInv,
           \/ PrefillAborted \/ DecodeStale \/ CacheCorruption
           \/ GenerationOverflow \/ FailAllRequests
    PROVE  UidInv'
<1>1. running' = <<>> /\ lost' = lost
  <2>1. CASE PrefillAborted \/ CacheCorruption \/ DecodeStale
    BY <2>1, Zenon DEF PrefillAborted, CacheCorruption, DecodeStale, Reschedule
  <2>2. CASE GenerationOverflow \/ FailAllRequests
    BY <2>2, Zenon DEF GenerationOverflow, FailAllRequests
  <2> QED BY <2>1, <2>2
<1>2. rows' = {} /\ next_uid' \in Nat
  <2>1. CASE DecodeStale
    BY <2>1 DEF DecodeStale, UidInv, UidTypes
  <2>2. CASE PrefillAborted \/ CacheCorruption \/ GenerationOverflow \/ FailAllRequests
    <3>1. ResetGenerator
      BY <2>2, Zenon DEF PrefillAborted, CacheCorruption, GenerationOverflow,
         FailAllRequests
    <3> QED BY <3>1 DEF ResetGenerator
  <2> QED BY <2>1, <2>2
<1>3. \/ uidOf' = <<>> /\ idOf' = <<>>
      \/ \E S, T : uidOf' = Without(uidOf, S) /\ idOf' = Without(idOf, T)
  <2>1. CASE CacheCorruption
    BY <2>1, Zenon DEF CacheCorruption
  <2>2. CASE PrefillAborted
    <3>1. uidOf' = uidOf /\ idOf' = idOf
      BY <2>2, Zenon DEF PrefillAborted
    <3>2. uidOf = Without(uidOf, {}) /\ idOf = Without(idOf, {})
      BY DEF Without, UidInv, UidTypes
    <3>3. uidOf' = Without(uidOf, {}) /\ idOf' = Without(idOf, {})
      BY <3>1, <3>2
    <3> QED BY <3>3
  <2>3. CASE DecodeStale
    BY <2>3, Zenon DEF DecodeStale
  <2>4. CASE GenerationOverflow
    BY <2>4, Zenon DEF GenerationOverflow
  <2>5. CASE FailAllRequests
    BY <2>5, Zenon DEF FailAllRequests
  <2> QED BY <2>1, <2>2, <2>3, <2>4, <2>5
<1>4. Running' = {}
  BY <1>1, EmptyQueue DEF Running
<1> QED
  BY <1>1, <1>2, <1>3, <1>4, EmptiedUids

LEMMA UidStep == SchedInv /\ UidInv /\ [SchedNext]_schedVars => UidInv'
<1> SUFFICES ASSUME SchedInv, UidInv, [SchedNext]_schedVars PROVE UidInv'
  OBVIOUS
<1>0. ASSUME UNCHANGED <<running, uidVars>> PROVE UidInv'
  BY <1>0, QuietUids DEF uidVars, Running
<1>1. ASSUME NEW r \in Requests, DoAbortRequest(r) PROVE UidInv'
  BY <1>1, DoAbortUids
<1>2. CASE FinalizeRemove \/ AdvanceChunkedPrefills \/ PrefillDone \/ DecodeStep
  BY <1>2, FinalizeUids, AdvanceUids, PrefillDoneUids, DecodeStepUids
<1>3. CASE PrefillAborted \/ DecodeStale \/ CacheCorruption \/ GenerationOverflow
           \/ FailAllRequests
  BY <1>3, EmptyingUids
<1>4. CASE StepBegin \/ DrainPendingAsyncRemoves \/ ScheduleEnds \/ StoreGateStall
           \/ RemovesStall \/ MemoryReject \/ MemoryStall \/ AdmitHead
  <2>1. UNCHANGED <<running, uidVars>>
    BY <1>4, Zenon DEF StepBegin, DrainPendingAsyncRemoves, ScheduleEnds, StoreGateStall,
       RemovesStall, MemoryReject, MemoryStall, AdmitHead, queueVars
  <2> QED BY <2>1, <1>0
<1>5. CASE PrefillFails \/ DecodeNothing \/ DecodeRaises \/ Deliver
  <2>1. UNCHANGED <<running, uidVars>>
    BY <1>5, Zenon DEF PrefillFails, DecodeNothing, DecodeRaises, Deliver, queueVars
  <2> QED BY <2>1, <1>0
<1>6. ASSUME NEW r \in Requests, AddRequest(r) \/ AbortRequest(r) PROVE UidInv'
  <2>1. UNCHANGED <<running, uidVars>>
    BY <1>6, Zenon DEF AddRequest, AbortRequest, queueVars
  <2> QED BY <2>1, <1>0
<1>7. CASE StoreWorker \/ SetAdmissionPaused \/ Clock \/ UNCHANGED schedVars
  <2>1. UNCHANGED <<running, uidVars>>
    BY <1>7, Zenon DEF StoreWorker, SetAdmissionPaused, Clock, schedVars, queueVars
  <2> QED BY <2>1, <1>0
<1>8. CASE RowVanishes
  <2>1. UNCHANGED <<running, uidOf, idOf, next_uid, lost>> /\ rows' \subseteq rows
    BY <1>8 DEF RowVanishes, queueVars
  <2> QED BY <2>1, QuietUids DEF Running
<1> QED
  BY <1>1, <1>2, <1>3, <1>4, <1>5, <1>6, <1>7, <1>8, Zenon DEF SchedNext, EngineThread

-----------------------------------------------------------------------------
(* Types, and who is served *)

\* Only add_request brings a request into the scheduler.
LEMMA ActiveStep ==
    ASSUME SchedInv, [SchedNext]_schedVars
    PROVE  Active' \subseteq Active \/ \E r \in Requests : AddRequest(r) /\ Active' = Active \cup {r}
<1>0. ASSUME Waiting' \subseteq Active, Prefilling' \subseteq Active, Running' \subseteq Active,
             Current' \subseteq Active
      PROVE  Active' \subseteq Active
  BY <1>0 DEF Active, Admitted
<1>1. /\ IsQueue(waiting) /\ IsQueue(prefilling) /\ IsQueue(running)
      /\ Waiting \subseteq Active /\ Prefilling \subseteq Active /\ Running \subseteq Active
      /\ Current \subseteq Active
  BY DEF SchedInv, QueueTypes, Active, Admitted
<1>2. ASSUME UNCHANGED <<waiting, prefilling, running, cur>> PROVE Active' \subseteq Active
  BY <1>2 DEF Active, Admitted, Waiting, Prefilling, Running, Current
<1>3. ASSUME Range(waiting') \subseteq Waiting, UNCHANGED <<prefilling, running, cur>>
      PROVE  Active' \subseteq Active
  BY <1>3 DEF Active, Admitted, Waiting, Prefilling, Running, Current
<1>4. CASE StepBegin \/ DrainPendingAsyncRemoves \/ FinalizeRemove \/ ScheduleEnds
           \/ RemovesStall
  <2>1. UNCHANGED <<waiting, prefilling, running, cur>>
    BY <1>4, Zenon DEF StepBegin, DrainPendingAsyncRemoves, FinalizeRemove, ScheduleEnds,
       RemovesStall, queueVars, stepVars
  <2> QED BY <2>1, <1>2
<1>5. CASE StoreWorker \/ SetAdmissionPaused \/ Clock \/ RowVanishes \/ DecodeNothing
           \/ DecodeRaises \/ Deliver \/ UNCHANGED schedVars
  <2>1. UNCHANGED <<waiting, prefilling, running, cur>>
    BY <1>5, Zenon DEF StoreWorker, SetAdmissionPaused, Clock, RowVanishes, DecodeNothing,
       DecodeRaises, Deliver, schedVars, queueVars, stepVars
  <2> QED BY <2>1, <1>2
<1>6. ASSUME NEW r \in Requests, AbortRequest(r) PROVE Active' \subseteq Active
  <2>1. UNCHANGED <<waiting, prefilling, running, cur>>
    BY <1>6, Zenon DEF AbortRequest, queueVars, stepVars
  <2> QED BY <2>1, <1>2
<1>7. ASSUME NEW r \in Requests, AddRequest(r) PROVE Active' = Active \cup {r}
  <2>1. /\ waiting' = Append(waiting, r) /\ UNCHANGED <<prefilling, running, cur>>
        /\ client[r] = "absent"
    BY <1>7 DEF AddRequest, stepVars
  <2>2. r \notin Range(waiting)
    BY <2>1 DEF SchedInv, Unseen, Tracked, Active, Waiting
  <2>3. Range(waiting') = Range(waiting) \cup {r}
    BY <2>1, <2>2, <1>1, AppendFacts
  <2> QED BY <2>1, <2>3 DEF Active, Admitted, Waiting, Prefilling, Running, Current
<1>8. CASE StoreGateStall \/ MemoryReject
  <2>1. \/ UNCHANGED waiting
        \/ waiting # <<>> /\ waiting' = Tail(waiting)
        \/ waiting' = Keep(waiting, Requests \ {mem_stall.id})
    BY <1>8 DEF StoreGateStall, MemoryReject, MayAdmit
  <2>2. UNCHANGED <<prefilling, running, cur>>
    BY <1>8, Zenon DEF StoreGateStall, MemoryReject
  <2>3. Range(waiting') \subseteq Waiting
    <3>1. CASE waiting # <<>> /\ waiting' = Tail(waiting)
      BY <3>1, <1>1, TailFacts DEF Waiting
    <3>2. CASE waiting' = Keep(waiting, Requests \ {mem_stall.id})
      <4>1. Range(waiting') = Range(waiting) \cap (Requests \ {mem_stall.id})
        BY <3>2, <1>1, CutFacts
      <4> QED BY <4>1 DEF Waiting
    <3> QED BY <2>1, <3>1, <3>2 DEF Waiting
  <2> QED BY <2>2, <2>3, <1>3
<1>9. CASE MemoryStall
  <2>1. /\ UNCHANGED <<prefilling, running, cur>>
        /\ waiting # <<>>
        /\ \/ UNCHANGED waiting
           \/ waiting' = Append(Tail(waiting), Head(waiting))
    BY <1>9 DEF MemoryStall, GateOpen, MayAdmit
  <2>2. /\ IsQueue(Tail(waiting)) /\ Range(Tail(waiting)) = Range(waiting) \ {Head(waiting)}
        /\ Head(waiting) \in Range(waiting) /\ Head(waiting) \in Requests
    BY <2>1, <1>1, TailFacts
  <2>3. Range(Append(Tail(waiting), Head(waiting))) = Range(waiting)
    <3> DEFINE h == Head(waiting)
               t == Tail(waiting)
    <3>1. IsQueue(t) /\ h \in Requests \ Range(t)
      BY <2>2
    <3>2. Range(Append(t, h)) = Range(t) \cup {h}
      BY ONLY <3>1, AppendFacts
    <3> QED BY <3>2, <2>2
  <2> QED BY <2>1, <2>3, <1>3 DEF Waiting
<1>10. CASE AdmitHead
  <2> DEFINE r == Head(waiting)
  <2>1. /\ waiting # <<>> /\ UNCHANGED running
        /\ waiting' = waiting \/ waiting' = Tail(waiting)
        /\ prefilling' = prefilling \/ prefilling' = Append(prefilling, r)
        /\ cur' = cur \/ cur' = r
    BY <1>10 DEF AdmitHead, GateOpen, MayAdmit
  <2>2. Range(Tail(waiting)) \subseteq Waiting /\ r \in Waiting /\ r \in Requests
    BY <2>1, <1>1, TailFacts DEF Waiting
  <2>3. r \notin Range(prefilling)
    BY <2>2 DEF SchedInv, Apart, Prefilling
  <2> HIDE DEF r
  <2>4. Range(prefilling') \subseteq Prefilling \cup {r}
    BY <2>1, <2>2, <2>3, <1>1, AppendFacts DEF Prefilling
  <2> QED BY <2>1, <2>2, <2>4, <1>0, <1>1 DEF Waiting, Prefilling, Running, Current
<1>11. ASSUME NEW r \in Requests, DoAbortRequest(r) PROVE Active' \subseteq Active
  <2>1. /\ UNCHANGED cur
        /\ waiting' = waiting \/ waiting' = Keep(waiting, Requests \ {r})
        /\ prefilling' = prefilling \/ prefilling' = Keep(prefilling, Requests \ {r})
        /\ running' = running \/ running' = Keep(running, Requests \ {r})
    BY <1>11 DEF DoAbortRequest, queueVars, stepVars
  <2>2. Range(waiting') \subseteq Waiting /\ Range(prefilling') \subseteq Prefilling
        /\ Range(running') \subseteq Running
    BY <2>1, <1>1, CutFacts DEF Waiting, Prefilling, Running
  <2> QED BY <2>1, <2>2 DEF Active, Admitted, Waiting, Prefilling, Running, Current
<1>12. CASE AdvanceChunkedPrefills
  <2>1. PICK S, T : /\ prefilling' = Keep(prefilling, S)
                    /\ running' = running \o Keep(prefilling, T)
    BY <1>12, Zenon DEF AdvanceChunkedPrefills, InsertPrefilled
  <2>2. UNCHANGED <<waiting, cur>>
    BY <1>12, Zenon DEF AdvanceChunkedPrefills
  <2>3. /\ Range(prefilling') \subseteq Prefilling
        /\ IsQueue(Keep(prefilling, T)) /\ Range(Keep(prefilling, T)) \subseteq Prefilling
    <3>1. Range(Keep(prefilling, S)) = Range(prefilling) \cap S
      BY <1>1, CutFacts
    <3>2. IsQueue(Keep(prefilling, T)) /\ Range(Keep(prefilling, T)) = Range(prefilling) \cap T
      BY <1>1, CutFacts
    <3> QED BY <2>1, <3>1, <3>2 DEF Prefilling
  <2>4. Range(running') \subseteq Running \cup Prefilling
    <3>1. Range(running) \cap Range(Keep(prefilling, T)) = {}
      BY <2>3 DEF SchedInv, Apart, Running
    <3>2. Range(running') = Range(running) \cup Range(Keep(prefilling, T))
      BY <3>1, <2>1, <2>3, <1>1, JoinFacts
    <3> QED BY <3>2, <2>3 DEF Running
  <2> QED BY <2>2, <2>3, <2>4, <1>0, <1>1 DEF Waiting, Prefilling, Running, Current
<1>13. CASE PrefillDone
  <2>1. running' = running \o <<cur>> /\ cur' = NoRequest /\ UNCHANGED <<waiting, prefilling>>
    BY <1>13, Zenon DEF PrefillDone, InsertPrefilled
  <2>2. cur \in Requests /\ cur \notin Running /\ cur \in Current
    BY <1>13, SchedulerAssumption DEF PrefillDone, SchedInv, Phases, QueueTypes, Apart, Current
  <2>3. IsQueue(<<cur>>) /\ Range(<<cur>>) = {cur}
    BY <2>2 DEF IsQueue, IsInjective, Range
  <2>4. Range(running') = Running \cup {cur}
    <3>1. Range(running) \cap Range(<<cur>>) = {}
      BY <2>2, <2>3 DEF Running
    <3>2. Range(running \o <<cur>>) = Range(running) \cup Range(<<cur>>)
      BY <3>1, <2>3, <1>1, JoinFacts
    <3> QED BY <3>2, <2>1, <2>3 DEF Running
  <2>5. /\ Waiting' = Waiting /\ Prefilling' = Prefilling /\ Running' = Running \cup {cur}
        /\ Current' = {}
    BY <2>1, <2>4 DEF Waiting, Prefilling, Running, Current
  <2> QED BY <2>2, <2>5, <1>0, <1>1
<1>14. CASE PrefillFails
  <2>1. cur' = NoRequest /\ UNCHANGED <<waiting, prefilling, running>>
    BY <1>14, Zenon DEF PrefillFails
  <2> QED BY <2>1 DEF Active, Admitted, Waiting, Prefilling, Running, Current
<1>15. CASE DecodeStep
  <2>1. PICK S : running' = Keep(running, S)
    BY <1>15, Zenon DEF DecodeStep, CleanupFinished
  <2>2. UNCHANGED <<waiting, prefilling, cur>>
    BY <1>15, Zenon DEF DecodeStep
  <2>3. Range(running') \subseteq Running
    BY <2>1, <1>1, CutFacts DEF Running
  <2> QED BY <2>2, <2>3 DEF Active, Admitted, Waiting, Prefilling, Running, Current
<1>16. ASSUME NEW stay, stay \subseteq Running, Range(waiting') = stay \cup Waiting,
              running' = <<>>, cur' \in {cur, NoRequest}, UNCHANGED prefilling
       PROVE  Active' \subseteq Active
  <2>1. Running' = {} /\ Waiting' \subseteq Waiting \cup Running
    BY <1>16, EmptyQueue DEF Running, Waiting
  <2> QED BY <2>1, <1>16 DEF Active, Admitted, Prefilling, Current
<1>17. CASE PrefillAborted
  <2>1. /\ Reschedule(Running) /\ running' = <<>>
        /\ cur' \in {cur, NoRequest} /\ UNCHANGED prefilling
    BY <1>17 DEF PrefillAborted, Running, Reschedule
  <2>2. Range(waiting') = Running \cup Waiting
    BY <2>1, RescheduleFacts
  <2> QED BY <2>1, <2>2, <1>16
<1>18. CASE CacheCorruption
  <2> DEFINE again == {r \in Running : corruptions[r] < MaxRetries}
  <2>1. /\ Reschedule(again) /\ running' = <<>>
        /\ cur' \in {cur, NoRequest} /\ UNCHANGED prefilling
    BY <1>18 DEF CacheCorruption, Running, Reschedule
  <2>2. again \subseteq Running
    OBVIOUS
  <2> HIDE DEF again
  <2>3. Range(waiting') = again \cup Waiting
    BY <2>1, <2>2, RescheduleFacts
  <2> QED BY <2>1, <2>2, <2>3, <1>16
<1>19. CASE DecodeStale
  <2> DEFINE stay == Running \ {r \in Running : tokens[r] > 0}
  <2>1. /\ Reschedule(stay) /\ running' = <<>>
        /\ cur' \in {cur, NoRequest} /\ UNCHANGED prefilling
    BY <1>19 DEF DecodeStale, Running, Reschedule
  <2>2. stay \subseteq Running
    OBVIOUS
  <2> HIDE DEF stay
  <2>3. Range(waiting') = stay \cup Waiting
    BY <2>1, <2>2, RescheduleFacts
  <2> QED BY <2>1, <2>2, <2>3, <1>16
<1>20. CASE GenerationOverflow
  <2> DEFINE again == Running \ overflowed
  <2>1. /\ waiting' = waiting \o Keep(running, again) /\ running' = <<>>
        /\ cur' \in {cur, NoRequest} /\ UNCHANGED prefilling
    BY <1>20 DEF GenerationOverflow, Running
  <2>2. again \subseteq Running
    OBVIOUS
  <2> HIDE DEF again
  <2>3. IsQueue(Keep(running, again)) /\ Range(Keep(running, again)) = again
    <3>1. IsQueue(Keep(running, again)) /\ Range(Keep(running, again)) = Range(running) \cap again
      BY <1>1, CutFacts
    <3> QED BY <3>1, <2>2 DEF Running
  <2>4. Range(waiting') = again \cup Waiting
    <3>1. Range(waiting) \cap Range(Keep(running, again)) = {}
      BY <2>2, <2>3 DEF SchedInv, Apart, Waiting
    <3> QED BY <3>1, <2>1, <2>3, <1>1, JoinFacts DEF Waiting
  <2> QED BY <2>1, <2>2, <2>4, <1>16
<1>21. CASE FailAllRequests
  <2>1. waiting' = <<>> /\ prefilling' = <<>> /\ running' = <<>> /\ cur' = NoRequest
    BY <1>21, Zenon DEF FailAllRequests
  <2> QED BY <2>1, EmptyQueue DEF Active, Admitted, Waiting, Prefilling, Running, Current
<1> QED
  BY <1>4, <1>5, <1>6, <1>7, <1>8, <1>9, <1>10, <1>11, <1>12, <1>13, <1>14, <1>15, <1>17,
     <1>18, <1>19, <1>20, <1>21, Zenon DEF SchedNext, EngineThread

\* A client that has asked is never unknown again.
LEMMA AbsentStep ==
    ASSUME SchedInv, [SchedNext]_schedVars
    PROVE  \A r \in Requests : client'[r] = "absent" => client[r] = "absent"
<1>0. client \in [Requests -> {"absent", "open", "closed"}]
  BY DEF SchedInv, QueueTypes
<1>1. ASSUME NEW q \in Requests, AddRequest(q) \/ AbortRequest(q), NEW r \in Requests,
             client'[r] = "absent"
      PROVE  client[r] = "absent"
  BY <1>0, <1>1 DEF AddRequest, AbortRequest
<1>3. CASE Deliver
  BY <1>3 DEF Deliver
<1>4. CASE FailAllRequests
  BY <1>4 DEF FailAllRequests
<1>5. ASSUME NEW r \in Requests, DoAbortRequest(r) PROVE UNCHANGED client
  BY <1>5, Zenon DEF DoAbortRequest
<1>6. CASE StepBegin \/ DrainPendingAsyncRemoves \/ FinalizeRemove \/ AdvanceChunkedPrefills
           \/ ScheduleEnds \/ StoreGateStall \/ RemovesStall \/ MemoryReject \/ MemoryStall
  <2>1. UNCHANGED client
    BY <1>6, Zenon DEF StepBegin, DrainPendingAsyncRemoves, FinalizeRemove,
       AdvanceChunkedPrefills, ScheduleEnds, StoreGateStall, RemovesStall, MemoryReject,
       MemoryStall, envVars
  <2> QED BY <2>1
<1>7. CASE AdmitHead \/ PrefillDone \/ PrefillFails \/ PrefillAborted \/ DecodeStep
           \/ DecodeNothing \/ DecodeStale
  <2>1. UNCHANGED client
    BY <1>7, Zenon DEF AdmitHead, PrefillDone, PrefillFails, PrefillAborted, DecodeStep,
       DecodeNothing, DecodeStale, envVars
  <2> QED BY <2>1
<1>8. CASE CacheCorruption \/ GenerationOverflow \/ DecodeRaises \/ StoreWorker
           \/ SetAdmissionPaused \/ Clock \/ RowVanishes \/ UNCHANGED schedVars
  <2>1. UNCHANGED client
    BY <1>8, Zenon DEF CacheCorruption, GenerationOverflow, DecodeRaises, StoreWorker,
       SetAdmissionPaused, Clock, RowVanishes, schedVars, envVars
  <2> QED BY <2>1
<1> QED
  BY <1>1, <1>3, <1>4, <1>5, <1>6, <1>7, <1>8, Zenon DEF SchedNext, EngineThread

FlagTypes ==
    /\ paused \in BOOLEAN /\ wedged \in BOOLEAN
    /\ scheduled \in BOOLEAN /\ batch_set \in BOOLEAN
    /\ pc \in {"idle", "aborts", "finalize", "schedule", "prefill",
                "decode", "fast", "deliver", "failed"}
    /\ budget \in 0..MaxFaults

StallTypes ==
    /\ mem_stall \in [id : Requests \cup {NoRequest}, age : 0..2]
    /\ store_stall \in {"none", "blocked", "expired"}

LEMMA FlagStep == FlagTypes /\ [SchedNext]_schedVars => FlagTypes'
<1> SUFFICES ASSUME FlagTypes, [SchedNext]_schedVars PROVE FlagTypes'
  OBVIOUS
<1> USE DEF FlagTypes
<1>0. \A b \in 0..MaxFaults : b > 0 => b - 1 \in 0..MaxFaults
  BY SchedulerAssumption
<1>1. ASSUME UNCHANGED <<paused, wedged, scheduled, batch_set, budget>>,
             pc' \in {"idle", "aborts", "finalize", "schedule", "prefill",
                      "decode", "fast", "deliver", "failed"}
      PROVE  FlagTypes'
  BY <1>1, Zenon
<1>2. ASSUME NEW r \in Requests, DoAbortRequest(r) PROVE FlagTypes'
  <2>1. UNCHANGED <<paused, wedged, scheduled, batch_set, budget>> /\ pc' \in {pc, "failed"}
    BY <1>2 DEF DoAbortRequest, storeVars, stepVars
  <2> QED BY <2>1, <1>1
<1>3. CASE StepBegin \/ DrainPendingAsyncRemoves \/ FinalizeRemove
  <2>1. UNCHANGED <<paused, wedged, scheduled, batch_set, budget>>
    BY <1>3, Zenon DEF StepBegin, DrainPendingAsyncRemoves, FinalizeRemove, storeVars,
       stepVars, envVars
  <2>2. pc' \in {pc, "fast", "aborts", "finalize", "failed"}
    BY <1>3 DEF StepBegin, DrainPendingAsyncRemoves, FinalizeRemove
  <2> QED BY <2>1, <2>2, <1>1
<1>4. CASE AdvanceChunkedPrefills
  <2>1. /\ UNCHANGED <<paused, wedged, batch_set, budget>> /\ pc' = "schedule"
        /\ scheduled' \in BOOLEAN
    BY <1>4, Zenon DEF AdvanceChunkedPrefills, storeVars, envVars
  <2> QED BY <2>1, Zenon
<1>5. CASE ScheduleEnds \/ StoreGateStall \/ RemovesStall \/ MemoryReject \/ MemoryStall
  <2>1. /\ UNCHANGED <<paused, wedged, scheduled, budget>>
    BY <1>5, Zenon DEF ScheduleEnds, StoreGateStall, RemovesStall, MemoryReject, MemoryStall,
       storeVars, envVars
  <2>2. (pc' = pc /\ batch_set' = batch_set) \/ LeaveSchedule
    BY <1>5 DEF ScheduleEnds, StoreGateStall, RemovesStall, MemoryReject, MemoryStall
  <2>3. pc' \in {pc, "decode"} /\ batch_set' \in BOOLEAN
    BY <2>2, Zenon DEF LeaveSchedule
  <2> QED BY <2>1, <2>3, Zenon
<1>6. CASE AdmitHead
  <2>1. UNCHANGED <<paused, wedged, scheduled, budget>>
    BY <1>6, Zenon DEF AdmitHead, storeVars, envVars
  <2>2. pc' \in {pc, "decode", "prefill"} /\ batch_set' \in BOOLEAN
    BY <1>6, Zenon DEF AdmitHead, LeaveSchedule
  <2> QED BY <2>1, <2>2, Zenon
<1>7. CASE PrefillDone \/ PrefillFails
  <2>1. UNCHANGED <<paused, wedged, batch_set, budget>>
    BY <1>7, Zenon DEF PrefillDone, PrefillFails, storeVars, envVars
  <2>2. pc' = "schedule" /\ (scheduled' = TRUE \/ scheduled' = scheduled)
    BY <1>7, Zenon DEF PrefillDone, PrefillFails
  <2> QED BY <2>1, <2>2, Zenon
<1>8. CASE PrefillAborted
  <2>1. /\ UNCHANGED <<paused, wedged, scheduled, budget>> /\ batch_set' = FALSE
        /\ pc' = "deliver"
    BY <1>8, Zenon DEF PrefillAborted, storeVars, envVars
  <2> QED BY <2>1, Zenon
<1>9. CASE DecodeStep \/ DecodeNothing \/ DecodeStale
  <2>1. UNCHANGED <<paused, wedged, scheduled, batch_set, budget>> /\ pc' = "deliver"
    BY <1>9, Zenon DEF DecodeStep, DecodeNothing, DecodeStale, storeVars, stepVars, envVars
  <2> QED BY <2>1, <1>1
<1>10. CASE CacheCorruption \/ GenerationOverflow \/ DecodeRaises
  <2>1. UNCHANGED <<paused, wedged, scheduled>>
    BY <1>10, Zenon DEF CacheCorruption, GenerationOverflow, DecodeRaises, storeVars, stepVars
  <2>2. pc' \in {"deliver", "failed"} /\ (batch_set' = batch_set \/ batch_set' = FALSE)
    BY <1>10, Zenon DEF CacheCorruption, GenerationOverflow, DecodeRaises, stepVars
  <2>3. budget > 0 /\ budget' = budget - 1
    BY <1>10, Zenon DEF CacheCorruption, GenerationOverflow, DecodeRaises
  <2>4. budget' \in 0..MaxFaults
    BY <2>3, <1>0
  <2> QED BY <2>1, <2>2, <2>4, Zenon
<1>11. CASE Deliver \/ FailAllRequests
  <2>1. UNCHANGED <<paused, wedged, budget>> /\ scheduled' = FALSE /\ pc' = "idle"
        /\ (batch_set' = batch_set \/ batch_set' = FALSE)
    BY <1>11, Zenon DEF Deliver, FailAllRequests, storeVars
  <2> QED BY <2>1, Zenon
<1>12. ASSUME NEW r \in Requests, AddRequest(r) \/ AbortRequest(r) PROVE FlagTypes'
  <2>1. UNCHANGED <<paused, wedged, scheduled, batch_set, budget, pc>>
    BY <1>12, Zenon DEF AddRequest, AbortRequest, storeVars, stepVars
  <2> QED BY <2>1, <1>1
<1>13. CASE StoreWorker
  <2>1. UNCHANGED <<paused, scheduled, batch_set, budget, pc>> /\ wedged' \in BOOLEAN
    BY <1>13, Zenon DEF StoreWorker, stepVars, envVars
  <2> QED BY <2>1, Zenon
<1>14. CASE SetAdmissionPaused
  <2>1. UNCHANGED <<wedged, scheduled, batch_set, budget, pc>> /\ paused' = ~paused
    BY <1>14, Zenon DEF SetAdmissionPaused, stepVars, storeVars
  <2>2. CASE paused = TRUE
    <3>1. paused' = FALSE
      BY <2>1, <2>2, Zenon
    <3> QED BY <2>1, <3>1, Zenon
  <2>3. CASE paused = FALSE
    <3>1. paused' = TRUE
      BY <2>1, <2>3, Zenon
    <3> QED BY <2>1, <3>1, Zenon
  <2>4. paused = TRUE \/ paused = FALSE
    BY Zenon
  <2> QED BY <2>2, <2>3, <2>4, Zenon
<1>15. CASE Clock \/ UNCHANGED schedVars
  <2>1. UNCHANGED <<paused, wedged, scheduled, batch_set, budget, pc>>
    BY <1>15, Zenon DEF Clock, schedVars, storeVars, stepVars, envVars
  <2> QED BY <2>1, <1>1
<1>16. CASE RowVanishes
  <2>1. UNCHANGED <<paused, wedged, scheduled, batch_set, pc>>
        /\ budget > 0 /\ budget' = budget - 1
    BY <1>16, Zenon DEF RowVanishes, storeVars, stepVars
  <2>2. budget' \in 0..MaxFaults
    BY <2>1, <1>0
  <2> QED BY <2>1, <2>2, Zenon
<1> QED
  BY <1>2, <1>3, <1>4, <1>5, <1>6, <1>7, <1>8, <1>9, <1>10, <1>11, <1>12, <1>13, <1>14,
     <1>15, <1>16, Zenon DEF SchedNext, EngineThread

LEMMA StallStep == SchedInv /\ StallTypes /\ [SchedNext]_schedVars => StallTypes'
<1> SUFFICES ASSUME SchedInv, StallTypes, [SchedNext]_schedVars PROVE StallTypes'
  OBVIOUS
<1>0. NoStall \in [id : Requests \cup {NoRequest}, age : 0..2]
  BY DEF NoStall
<1>1. ASSUME UNCHANGED stallVars PROVE StallTypes'
  BY <1>1 DEF StallTypes, stallVars
<1>2. CASE StoreGateStall \/ RemovesStall \/ MemoryReject \/ AdmitHead
  <2>1. mem_stall' \in {mem_stall, NoStall} /\ store_stall' \in {"none", "blocked"}
    BY <1>2 DEF StoreGateStall, RemovesStall, MemoryReject, AdmitHead
  <2> QED BY <2>1, <1>0 DEF StallTypes
<1>3. CASE MemoryStall
  <2>1. Head(waiting) \in Requests
    <3>1. waiting # <<>> /\ IsQueue(waiting)
      BY <1>3 DEF MemoryStall, GateOpen, MayAdmit, SchedInv, QueueTypes
    <3> QED BY <3>1, TailFacts
  <2>2. store_stall' = "none" /\ mem_stall' \in {mem_stall, [id |-> Head(waiting), age |-> 0]}
    BY <1>3 DEF MemoryStall
  <2>3. [id |-> Head(waiting), age |-> 0] \in [id : Requests \cup {NoRequest}, age : 0..2]
    BY <2>1
  <2> QED BY <2>2, <2>3 DEF StallTypes
<1>4. CASE Clock
  <2>1. CASE /\ mem_stall.age < 2 /\ mem_stall' = [mem_stall EXCEPT !.age = @ + 1]
             /\ UNCHANGED store_stall
    BY <2>1 DEF StallTypes
  <2>2. CASE store_stall' = "expired" /\ UNCHANGED mem_stall
    BY <2>2 DEF StallTypes
  <2> QED BY <1>4, <2>1, <2>2 DEF Clock
<1>5. ASSUME NEW r \in Requests, DoAbortRequest(r) \/ AddRequest(r) \/ AbortRequest(r)
      PROVE  StallTypes'
  <2>1. UNCHANGED stallVars
    BY <1>5, Zenon DEF DoAbortRequest, AddRequest, AbortRequest
  <2> QED BY <2>1, <1>1
<1>6. CASE StepBegin \/ DrainPendingAsyncRemoves \/ FinalizeRemove \/ AdvanceChunkedPrefills
           \/ ScheduleEnds \/ PrefillDone \/ PrefillFails \/ PrefillAborted
  <2>1. UNCHANGED stallVars
    BY <1>6, Zenon DEF StepBegin, DrainPendingAsyncRemoves, FinalizeRemove,
       AdvanceChunkedPrefills, ScheduleEnds, PrefillDone, PrefillFails, PrefillAborted
  <2> QED BY <2>1, <1>1
<1>7. CASE DecodeStep \/ DecodeNothing \/ DecodeStale \/ CacheCorruption
           \/ GenerationOverflow \/ DecodeRaises \/ Deliver \/ FailAllRequests
  <2>1. UNCHANGED stallVars
    BY <1>7, Zenon DEF DecodeStep, DecodeNothing, DecodeStale, CacheCorruption,
       GenerationOverflow, DecodeRaises, Deliver, FailAllRequests
  <2> QED BY <2>1, <1>1
<1>8. CASE StoreWorker \/ SetAdmissionPaused \/ RowVanishes \/ UNCHANGED schedVars
  <2>1. UNCHANGED stallVars
    BY <1>8, Zenon DEF StoreWorker, SetAdmissionPaused, RowVanishes, schedVars
  <2> QED BY <2>1, <1>1
<1> QED
  BY <1>2, <1>3, <1>4, <1>5, <1>6, <1>7, <1>8, Zenon DEF SchedNext, EngineThread

\* Sets of request ids; those of aborts and lost rows are typed elsewhere.
SetTypes ==
    /\ requests \subseteq Requests /\ recovery \subseteq Requests
    /\ overflowed \subseteq Requests /\ cancelled \subseteq Requests
    /\ storing \subseteq Requests /\ rejected \subseteq Requests
    /\ out \subseteq Requests

\* Deferred removals carry the uid and the id they were filed with.
EntryTypes ==
    \A e \in Range(removes) \cup Range(draining) : e \in Entries

LEMMA SetStep == SchedInv /\ EntryTypes /\ SetTypes /\ [SchedNext]_schedVars => SetTypes'
<1> SUFFICES ASSUME SchedInv, EntryTypes, SetTypes, [SchedNext]_schedVars PROVE SetTypes'
  OBVIOUS
<1>1. /\ IsQueue(waiting) /\ IsQueue(prefilling) /\ IsQueue(running)
      /\ Range(waiting) \subseteq Requests /\ Range(prefilling) \subseteq Requests
      /\ Range(running) \subseteq Requests
  BY CutFacts DEF SchedInv, QueueTypes
<1>2. waiting # <<>> => Head(waiting) \in Requests
  BY <1>1, TailFacts
<1>3. ASSUME UNCHANGED <<overflowed, cancelled, storing>>, requests' \subseteq requests,
             recovery' \subseteq recovery,
             rejected' \cup out' \subseteq rejected \cup out \cup Requests
      PROVE  SetTypes'
  BY <1>3 DEF SetTypes
<1>4. ASSUME NEW r \in Requests, DoAbortRequest(r) PROVE SetTypes'
  <2>1. /\ UNCHANGED <<overflowed, cancelled, storing, recovery, rejected, out>>
        /\ requests' \subseteq requests
    BY <1>4 DEF DoAbortRequest, queueVars, storeVars, stepVars
  <2> QED BY <2>1, <1>3
<1>5. ASSUME NEW r \in Requests, AddRequest(r) PROVE SetTypes'
  BY <1>5 DEF AddRequest, SetTypes, storeVars, reqVars, stepVars
<1>6. ASSUME NEW r \in Requests, AbortRequest(r) PROVE SetTypes'
  BY <1>6, <1>3 DEF AbortRequest, queueVars, storeVars, reqVars, stepVars
<1>7. CASE StepBegin \/ RowVanishes \/ StoreWorker \/ SetAdmissionPaused \/ Clock
           \/ DecodeNothing \/ DecodeRaises
  <2>1. UNCHANGED <<requests, recovery, overflowed, cancelled, storing, rejected, out>>
    BY <1>7, Zenon DEF StepBegin, RowVanishes, StoreWorker, SetAdmissionPaused, Clock,
       DecodeNothing, DecodeRaises, queueVars, storeVars, reqVars, stepVars
  <2> QED BY <2>1, <1>3
<1>8. CASE DrainPendingAsyncRemoves
  <2>1. /\ UNCHANGED <<requests, recovery, overflowed, storing, rejected, out>>
        /\ \E stuck \in SUBSET Range(removes) :
              cancelled' \subseteq cancelled \cup {e.req : e \in stuck}
    BY <1>8 DEF DrainPendingAsyncRemoves, queueVars, reqVars
  <2>2. \A e \in Range(removes) : e.req \in Requests
    BY DEF EntryTypes, Entries
  <2> QED BY <2>1, <2>2 DEF SetTypes
<1>9. CASE FinalizeRemove
  <2>1. /\ UNCHANGED <<recovery, overflowed, cancelled, rejected, out>>
        /\ storing' \subseteq storing /\ requests' \subseteq requests
    BY <1>9 DEF FinalizeRemove, reqVars
  <2> QED BY <2>1 DEF SetTypes
<1>10. CASE AdvanceChunkedPrefills
  <2>1. PICK failed \in SUBSET Range(prefilling) :
           requests' = requests \ failed /\ rejected' = failed
    BY <1>10, Zenon DEF AdvanceChunkedPrefills
  <2>2. UNCHANGED <<overflowed, cancelled, storing, out>> /\ recovery' = recovery \cap requests'
    BY <1>10, Zenon DEF AdvanceChunkedPrefills, storeVars
  <2> QED BY <2>1, <2>2, <1>1, <1>3
<1>11. CASE ScheduleEnds \/ RemovesStall \/ MemoryStall
  <2>1. /\ UNCHANGED <<requests, recovery, overflowed, cancelled, storing>>
        /\ out' = out \cup rejected /\ rejected' = {}
    BY <1>11, Zenon DEF ScheduleEnds, RemovesStall, MemoryStall, LeaveSchedule, queueVars,
       storeVars, reqVars
  <2> QED BY <2>1, <1>3
<1>12. CASE StoreGateStall \/ AdmitHead
  <2>1. waiting # <<>>
    BY <1>12 DEF StoreGateStall, AdmitHead, GateOpen, MayAdmit
  <2>2. UNCHANGED <<recovery, overflowed, cancelled, storing>>
    BY <1>12, Zenon DEF StoreGateStall, AdmitHead, reqVars, storeVars
  <2>3. /\ requests' \subseteq requests
        /\ \/ rejected' = rejected \cup {Head(waiting)} /\ out' = out
           \/ rejected' = {} /\ out' = out \cup rejected
           \/ UNCHANGED <<rejected, out>>
    BY <1>12 DEF StoreGateStall, AdmitHead, LeaveSchedule
  <2>4. rejected' \cup out' \subseteq rejected \cup out \cup Requests
    BY <2>1, <2>3, <1>2
  <2> QED BY <2>2, <2>3, <2>4, <1>3
<1>13. CASE MemoryReject
  <2>1. /\ UNCHANGED <<recovery, overflowed, cancelled, storing, out>>
        /\ requests' \subseteq requests
        /\ rejected' = rejected \/ (mem_stall.id \in Range(waiting)
                                    /\ rejected' = rejected \cup {mem_stall.id})
    BY <1>13 DEF MemoryReject, reqVars, storeVars
  <2>2. rejected' \cup out' \subseteq rejected \cup out \cup Requests
    BY <2>1, <1>1
  <2> QED BY <2>1, <2>2, <1>3
<1>14. CASE PrefillDone
  <2>1. UNCHANGED <<requests, recovery, overflowed, cancelled, storing, rejected, out>>
    BY <1>14, Zenon DEF PrefillDone, reqVars, storeVars
  <2> QED BY <2>1, <1>3
<1>15. CASE PrefillFails
  <2>1. cur \in Requests
    BY <1>15 DEF PrefillFails, SchedInv, Phases, QueueTypes
  <2>2. /\ UNCHANGED <<recovery, overflowed, cancelled, storing, out>>
        /\ requests' = requests \ {cur} /\ rejected' = rejected \cup {cur}
    BY <1>15, Zenon DEF PrefillFails, reqVars, storeVars
  <2> QED BY <2>1, <2>2, <1>3
<1>16. CASE PrefillAborted
  <2>1. UNCHANGED <<requests, recovery, overflowed, cancelled, storing, out>> /\ rejected' = {}
    BY <1>16, Zenon DEF PrefillAborted, storeVars
  <2> QED BY <2>1, <1>3
<1>17. CASE DecodeStep
  <2>1. PICK ending \in SUBSET rows, stored \in SUBSET Heard :
          LET fin == {r \in Heard : RowOf(r) \in ending}
          IN  out' = out \cup fin /\ CleanupFinished(fin, stored)
    BY <1>17, Zenon DEF DecodeStep
  <2> DEFINE fin == {r \in Heard : RowOf(r) \in ending}
  <2>2. fin \subseteq Heard
    OBVIOUS
  <2>3. out' = out \cup fin /\ CleanupFinished(fin, stored)
    BY <2>1, Zenon
  <2> HIDE DEF fin
  <2>4. /\ out' = out \cup fin /\ storing' = storing \cup stored
        /\ requests' = requests \ (fin \ stored)
    BY <2>3, Zenon DEF CleanupFinished
  <2>5. UNCHANGED <<recovery, overflowed, cancelled, rejected>>
    BY <1>17, Zenon DEF DecodeStep
  <2>6. Heard \subseteq Requests
    BY <1>1 DEF Heard
  <2> QED BY <2>2, <2>4, <2>5, <2>6 DEF SetTypes
<1>18. CASE DecodeStale
  <2>1. /\ UNCHANGED <<recovery, overflowed, cancelled, storing, rejected>>
        /\ \E S \in SUBSET Range(running) : requests' = requests \ S /\ out' = out \cup S
    BY <1>18 DEF DecodeStale, storeVars
  <2> QED BY <2>1, <1>1, <1>3
<1>19. CASE CacheCorruption
  <2>1. /\ UNCHANGED <<recovery, overflowed, cancelled, storing>> /\ rejected' = {}
        /\ \E S \in SUBSET Range(running) : requests' = requests \ S /\ out' = out \cup S
    BY <1>19 DEF CacheCorruption, storeVars
  <2> QED BY <2>1, <1>1, <1>3
<1>20. CASE GenerationOverflow
  <2> DEFINE again == Range(running) \ overflowed
  <2>1. /\ UNCHANGED <<cancelled, storing, rejected>>
        /\ overflowed' = overflowed \cup again
        /\ recovery' = (recovery \cup again) \ (Range(running) \ again)
        /\ requests' = requests \ (Range(running) \ again)
        /\ out' = out \cup (Range(running) \ again)
    BY <1>20 DEF GenerationOverflow, storeVars
  <2> QED BY <2>1, <1>1 DEF SetTypes
<1>21. CASE Deliver \/ FailAllRequests
  <2>1. /\ UNCHANGED <<recovery, overflowed, cancelled, storing>>
        /\ requests' \subseteq requests /\ out' = {} /\ rejected' \in {rejected, {}}
    BY <1>21 DEF Deliver, FailAllRequests, queueVars, storeVars, reqVars
  <2> QED BY <2>1, <1>3
<1>22. CASE UNCHANGED schedVars
  <2>1. UNCHANGED <<requests, recovery, overflowed, cancelled, storing, rejected, out>>
    BY <1>22 DEF schedVars, queueVars, reqVars, storeVars, stepVars
  <2> QED BY <2>1, <1>3
<1> QED
  BY <1>4, <1>5, <1>6, <1>7, <1>8, <1>9, <1>10, <1>11, <1>12, <1>13, <1>14, <1>15, <1>16,
     <1>17, <1>18, <1>19, <1>20, <1>21, <1>22, Zenon DEF SchedNext, EngineThread

LEMMA EntryStep == SchedInv /\ UidInv /\ EntryTypes /\ [SchedNext]_schedVars => EntryTypes'
<1> SUFFICES ASSUME SchedInv, UidInv, EntryTypes, [SchedNext]_schedVars PROVE EntryTypes'
  OBVIOUS
<1>0. removes \in Seq(Range(removes)) /\ draining \in Seq(Range(draining))
  BY DEF SchedInv, QueueTypes
<1>1. ASSUME UNCHANGED removes, draining' = draining \/ draining' = <<>> PROVE EntryTypes'
  BY <1>1, EmptyQueue DEF EntryTypes
<1>2. CASE DrainPendingAsyncRemoves
  <2>1. PICK S, T : draining' = Keep(removes, S) /\ removes' = Keep(removes, T)
    BY <1>2, Zenon DEF DrainPendingAsyncRemoves
  <2>2. Range(draining') \subseteq Range(removes) /\ Range(removes') \subseteq Range(removes)
    <3> DEFINE X == Range(removes)
    <3>1. removes \in Seq(X)
      BY <1>0
    <3> HIDE DEF X
    <3>2. Range(Keep(removes, S)) = Range(removes) \cap S
      BY <3>1, KeepFacts
    <3>3. Range(Keep(removes, T)) = Range(removes) \cap T
      BY <3>1, KeepFacts
    <3> QED BY <2>1, <3>2, <3>3
  <2> QED BY <2>2 DEF EntryTypes
<1>3. CASE FinalizeRemove
  <2>1. UNCHANGED removes /\ draining # <<>> /\ draining' \in {<<>>, Tail(draining)}
    BY <1>3 DEF FinalizeRemove
  <2>2. Range(Tail(draining)) \subseteq Range(draining)
    <3> DEFINE X == Range(draining)
               t == Tail(draining)
    <3>1. draining \in Seq(X)
      BY <1>0
    <3> HIDE DEF X
    <3>2. t \in Seq(X)
      BY <2>1, <3>1
    <3> HIDE DEF t
    <3>3. Range(t) \subseteq X
      BY <3>2 DEF Range
    <3> QED BY <3>3 DEF X, t
  <2> QED BY <2>1, <2>2, EmptyQueue DEF EntryTypes
<1>4. CASE DecodeStep
  <2>1. PICK done \in SUBSET Heard, stored \in SUBSET Heard : CleanupFinished(done, stored)
    <3>1. PICK ending \in SUBSET rows, stored \in SUBSET Heard :
            LET fin == {r \in Heard : RowOf(r) \in ending}
            IN  CleanupFinished(fin, stored)
      BY <1>4, Zenon DEF DecodeStep
    <3> DEFINE fin == {r \in Heard : RowOf(r) \in ending}
    <3>2. fin \in SUBSET Heard /\ CleanupFinished(fin, stored)
      BY <3>1
    <3> HIDE DEF fin
    <3> QED BY <3>2, Zenon
  <2> DEFINE order == Keep(running, stored)
             late == [i \in DOMAIN order |-> [uid |-> uidOf[order[i]], req |-> order[i]]]
  <2>2. removes' = removes \o late
    BY <2>1, Zenon DEF CleanupFinished
  <2>3. IsQueue(order) /\ Range(order) \subseteq Running
    <3>1. IsQueue(running)
      BY DEF SchedInv, QueueTypes
    <3>2. IsQueue(order) /\ Range(order) = Range(running) \cap stored
      BY <3>1, CutFacts
    <3> QED BY <3>2 DEF Running
  <2>4. \A r \in Running : r \in Requests /\ uidOf[r] \in Nat
    BY DEF UidInv, UidTypes, Mapped
  <2> HIDE DEF order
  <2>5. DOMAIN order = 1..Len(order) /\ Len(order) \in Nat /\ \A i \in DOMAIN order : order[i] \in Running
    BY <2>3 DEF IsQueue, Range
  <2>6. \A i \in DOMAIN order : late[i] \in Entries
    BY <2>4, <2>5 DEF Entries
  <2>7. DOMAIN late = 1..Len(order) /\ late = [i \in 1..Len(order) |-> late[i]]
    BY <2>5
  <2> HIDE DEF late
  <2>8. late \in Seq(Range(late)) /\ \A e \in Range(late) : e \in Entries
    BY <2>5, <2>6, <2>7 DEF Range
  <2>9. Range(removes') = Range(removes) \cup Range(late)
    BY <1>0, <2>2, <2>8, JoinRange
  <2>10. UNCHANGED draining
    BY <1>4, Zenon DEF DecodeStep
  <2> QED BY <2>8, <2>9, <2>10 DEF EntryTypes
<1>5. ASSUME NEW r \in Requests, DoAbortRequest(r) \/ AddRequest(r) \/ AbortRequest(r)
      PROVE  EntryTypes'
  <2>1. UNCHANGED <<removes, draining>>
    BY <1>5, Zenon DEF DoAbortRequest, AddRequest, AbortRequest, storeVars, stepVars
  <2> QED BY <2>1, <1>1
<1>6. CASE StepBegin \/ AdvanceChunkedPrefills \/ ScheduleEnds \/ StoreGateStall
           \/ RemovesStall \/ MemoryReject \/ MemoryStall \/ AdmitHead
  <2>1. UNCHANGED <<removes, draining>>
    BY <1>6, Zenon DEF StepBegin, AdvanceChunkedPrefills, ScheduleEnds, StoreGateStall,
       RemovesStall, MemoryReject, MemoryStall, AdmitHead, storeVars, stepVars
  <2> QED BY <2>1, <1>1
<1>7. CASE PrefillDone \/ PrefillFails \/ PrefillAborted \/ DecodeNothing \/ DecodeStale
           \/ CacheCorruption \/ GenerationOverflow \/ DecodeRaises
  <2>1. UNCHANGED <<removes, draining>>
    BY <1>7, Zenon DEF PrefillDone, PrefillFails, PrefillAborted, DecodeNothing, DecodeStale,
       CacheCorruption, GenerationOverflow, DecodeRaises, storeVars, stepVars
  <2> QED BY <2>1, <1>1
<1>8. CASE Deliver \/ FailAllRequests \/ StoreWorker \/ SetAdmissionPaused \/ Clock
           \/ RowVanishes \/ UNCHANGED schedVars
  <2>1. UNCHANGED <<removes, draining>>
    BY <1>8, Zenon DEF Deliver, FailAllRequests, StoreWorker, SetAdmissionPaused, Clock,
       RowVanishes, schedVars, storeVars, stepVars
  <2> QED BY <2>1, <1>1
<1> QED
  BY <1>2, <1>3, <1>4, <1>5, <1>6, <1>7, <1>8, Zenon DEF SchedNext, EngineThread

\* A request that is served stays below its token limit, and one that never asked
\* has no tokens.
TokenTypes ==
    /\ tokens \in [Requests -> 0..MaxTokens]
    /\ \A r \in Active : tokens[r] < MaxTokens
    /\ \A r \in Requests : client[r] = "absent" => tokens[r] = 0

\* A request that is served has a retry left.
CorruptionTypes ==
    /\ corruptions \in [Requests -> 0 .. MaxRetries + 1]
    /\ \A r \in Active : corruptions[r] <= MaxRetries
    /\ \A r \in Requests : client[r] = "absent" => corruptions[r] = 0

\* Everybody in a queue is a request whose client has asked.
LEMMA ServedSeen ==
    ASSUME SchedInv
    PROVE  Active \subseteq Requests /\ \A r \in Active : client[r] # "absent"
<1>1. Range(waiting) \subseteq Requests /\ Range(prefilling) \subseteq Requests
      /\ Range(running) \subseteq Requests /\ cur \in Requests \cup {NoRequest}
  BY CutFacts DEF SchedInv, QueueTypes
<1>2. Active \subseteq Requests
  BY <1>1 DEF Active, Admitted, Waiting, Prefilling, Running, Current
<1> QED BY <1>2 DEF SchedInv, Unseen, Tracked

\* Steps that leave the tokens or take them back.
LEMMA TokensKept ==
    ASSUME SchedInv, TokenTypes, [SchedNext]_schedVars,
           tokens' \in [Requests -> 0..MaxTokens],
           \A r \in Requests : tokens'[r] \in {0, tokens[r]}
    PROVE  TokenTypes'
<1>1. MaxTokens > 0 /\ MaxTokens \in Nat
  BY SchedulerAssumption
<1>2. \A r \in Requests : client'[r] = "absent" => client[r] = "absent"
  BY AbsentStep
<1>3. \A r \in Requests : client'[r] = "absent" => tokens'[r] = 0
  BY <1>2 DEF TokenTypes
<1>4. ASSUME NEW r \in Active PROVE r \in Requests /\ tokens'[r] < MaxTokens
  <2>1. r \in Requests /\ tokens[r] < MaxTokens
    BY ServedSeen DEF TokenTypes
  <2> QED BY <2>1, <1>1
<1>5. ASSUME NEW r \in Requests, AddRequest(r) PROVE tokens'[r] < MaxTokens
  <2>1. tokens[r] = 0
    BY <1>5 DEF AddRequest, TokenTypes
  <2> QED BY <2>1, <1>1
<1>6. \A r \in Active' : tokens'[r] < MaxTokens
  BY <1>4, <1>5, ActiveStep
<1> QED BY <1>3, <1>6 DEF TokenTypes

LEMMA TokenStep == SchedInv /\ TokenTypes /\ [SchedNext]_schedVars => TokenTypes'
<1> SUFFICES ASSUME SchedInv, TokenTypes, [SchedNext]_schedVars PROVE TokenTypes'
  OBVIOUS
<1>0. /\ MaxTokens \in Nat /\ tokens \in [Requests -> 0..MaxTokens]
      /\ 0 \in 0..MaxTokens
  BY SchedulerAssumption DEF TokenTypes
<1>1. ASSUME UNCHANGED tokens PROVE TokenTypes'
  BY <1>0, <1>1, TokensKept
<1>2. ASSUME NEW S, tokens' = [r \in Requests |-> IF r \in S THEN 0 ELSE tokens[r]]
      PROVE  TokenTypes'
  <2>1. tokens' \in [Requests -> 0..MaxTokens] /\ \A r \in Requests : tokens'[r] \in {0, tokens[r]}
    BY <1>0, <1>2
  <2> QED BY <2>1, TokensKept
<1>3. CASE PrefillAborted \/ DecodeStale \/ CacheCorruption
  <2>1. tokens' = [r \in Requests |-> IF r \in Range(running) THEN 0 ELSE tokens[r]]
    BY <1>3 DEF PrefillAborted, DecodeStale, CacheCorruption, Reschedule
  <2> QED BY <2>1, <1>2
<1>4. CASE GenerationOverflow
  <2>1. tokens' = [r \in Requests |-> IF r \in Range(running) \ overflowed THEN 0 ELSE tokens[r]]
    BY <1>4 DEF GenerationOverflow
  <2> QED BY <2>1, <1>2
<1>5. CASE DecodeStep
  <2>1. PICK ending \in SUBSET rows, stored \in SUBSET Heard :
          LET fin == {r \in Heard : RowOf(r) \in ending}
          IN  /\ \A r \in Heard : tokens[r] + 1 = MaxTokens => r \in fin
              /\ tokens' = [r \in Requests |-> IF r \in Heard THEN tokens[r] + 1
                                                              ELSE tokens[r]]
              /\ CleanupFinished(fin, stored)
    BY <1>5, Zenon DEF DecodeStep
  <2> DEFINE fin == {r \in Heard : RowOf(r) \in ending}
  <2>2. /\ \A r \in Heard : tokens[r] + 1 = MaxTokens => r \in fin
        /\ tokens' = [r \in Requests |-> IF r \in Heard THEN tokens[r] + 1 ELSE tokens[r]]
        /\ CleanupFinished(fin, stored)
    BY <2>1, Zenon
  <2> HIDE DEF fin
  <2>3. Heard \subseteq Running
    BY DEF Heard, Running
  <2>4. \A r \in Heard : r \in Active /\ r \in Requests /\ tokens[r] < MaxTokens
                         /\ client[r] # "absent"
    BY <2>3, ServedSeen DEF TokenTypes, Active, Admitted
  <2>5. tokens' \in [Requests -> 0..MaxTokens]
    BY <2>2, <2>4, <1>0
  <2>6. UNCHANGED <<waiting, prefilling, cur, client>>
    BY <1>5, Zenon DEF DecodeStep, envVars
  <2>7. Running' = Running \ fin
    <3>1. running' = Keep(running, Requests \ fin)
      BY <2>2, Zenon DEF CleanupFinished
    <3>2. IsQueue(running)
      BY DEF SchedInv, QueueTypes
    <3>3. Range(running') = Range(running) \cap (Requests \ fin) /\ Range(running) \subseteq Requests
      BY <3>1, <3>2, CutFacts
    <3> QED BY <3>3 DEF Running
  <2>8. ASSUME NEW r \in Active' PROVE tokens'[r] < MaxTokens
    <3>1. /\ r \in Active /\ r \in Requests
          /\ r \in Running => r \notin fin
      BY <2>6, <2>7, ServedSeen
         DEF SchedInv, Apart, Active, Admitted, Waiting, Prefilling, Current
    <3>2. CASE r \in Heard
      <4>1. tokens[r] + 1 # MaxTokens
        BY <3>1, <3>2, <2>2, <2>3
      <4>2. tokens'[r] = tokens[r] + 1 /\ tokens[r] \in 0..MaxTokens
        BY <3>1, <3>2, <2>2, <1>0
      <4> QED BY <4>1, <4>2, <3>2, <2>4, <1>0
    <3>3. CASE r \notin Heard
      <4>1. tokens'[r] = tokens[r]
        BY <3>1, <3>3, <2>2
      <4> QED BY <4>1, <3>1 DEF TokenTypes
    <3> QED BY <3>2, <3>3
  <2>9. ASSUME NEW r \in Requests, client'[r] = "absent" PROVE tokens'[r] = 0
    BY <2>2, <2>4, <2>6, <2>9 DEF TokenTypes
  <2> QED BY <2>5, <2>8, <2>9 DEF TokenTypes
<1>6. ASSUME NEW r \in Requests, DoAbortRequest(r) \/ AddRequest(r) \/ AbortRequest(r)
      PROVE  TokenTypes'
  <2>1. UNCHANGED tokens
    BY <1>6, Zenon DEF DoAbortRequest, AddRequest, AbortRequest, reqVars
  <2> QED BY <2>1, <1>1
<1>7. CASE StepBegin \/ DrainPendingAsyncRemoves \/ FinalizeRemove \/ AdvanceChunkedPrefills
           \/ ScheduleEnds \/ StoreGateStall \/ RemovesStall \/ MemoryReject \/ MemoryStall
  <2>1. UNCHANGED tokens
    BY <1>7, Zenon DEF StepBegin, DrainPendingAsyncRemoves, FinalizeRemove,
       AdvanceChunkedPrefills, ScheduleEnds, StoreGateStall, RemovesStall, MemoryReject,
       MemoryStall, reqVars
  <2> QED BY <2>1, <1>1
<1>8. CASE AdmitHead \/ PrefillDone \/ PrefillFails \/ DecodeNothing \/ DecodeRaises
           \/ Deliver \/ FailAllRequests
  <2>1. UNCHANGED tokens
    BY <1>8, Zenon DEF AdmitHead, PrefillDone, PrefillFails, DecodeNothing, DecodeRaises,
       Deliver, FailAllRequests, reqVars
  <2> QED BY <2>1, <1>1
<1>9. CASE StoreWorker \/ SetAdmissionPaused \/ Clock \/ RowVanishes \/ UNCHANGED schedVars
  <2>1. UNCHANGED tokens
    BY <1>9, Zenon DEF StoreWorker, SetAdmissionPaused, Clock, RowVanishes, schedVars, reqVars
  <2> QED BY <2>1, <1>1
<1> QED
  BY <1>3, <1>4, <1>5, <1>6, <1>7, <1>8, <1>9, Zenon DEF SchedNext, EngineThread

LEMMA CorruptionStep ==
    SchedInv /\ CorruptionTypes /\ [SchedNext]_schedVars => CorruptionTypes'
<1> SUFFICES ASSUME SchedInv, CorruptionTypes, [SchedNext]_schedVars PROVE CorruptionTypes'
  OBVIOUS
<1>0. MaxRetries \in Nat /\ corruptions \in [Requests -> 0 .. MaxRetries + 1]
  BY SchedulerAssumption DEF CorruptionTypes
<1>1. ASSUME UNCHANGED corruptions PROVE CorruptionTypes'
  <2>1. \A r \in Requests : client'[r] = "absent" => corruptions'[r] = 0
    BY <1>1, AbsentStep DEF CorruptionTypes
  <2>2. ASSUME NEW r \in Requests, AddRequest(r) PROVE corruptions'[r] <= MaxRetries
    <3>1. corruptions[r] = 0
      BY <2>2 DEF AddRequest, CorruptionTypes
    <3> QED BY <3>1, <1>0, <1>1
  <2>3. \A r \in Active' : corruptions'[r] <= MaxRetries
    BY <2>2, <1>1, ActiveStep DEF CorruptionTypes
  <2> QED BY <2>1, <2>3, <1>0, <1>1 DEF CorruptionTypes
<1>2. CASE CacheCorruption
  <2> DEFINE again == {r \in Running : corruptions[r] < MaxRetries}
  <2>1. /\ corruptions' = [r \in Requests |-> IF r \in Running THEN corruptions[r] + 1
                                                               ELSE corruptions[r]]
        /\ Reschedule(again) /\ cur' = NoRequest /\ UNCHANGED <<prefilling, client>>
    BY <1>2, Zenon DEF CacheCorruption, Running
  <2>2. again \subseteq Running
    OBVIOUS
  <2>3. \A r \in again : corruptions[r] < MaxRetries
    OBVIOUS
  <2> HIDE DEF again
  <2>4. Range(waiting') = again \cup Waiting /\ Range(running') = {}
    BY <2>1, <2>2, RescheduleFacts
  <2>5. \A r \in Running : /\ r \in Active /\ r \in Requests /\ client[r] # "absent"
                           /\ corruptions[r] <= MaxRetries
    BY ServedSeen DEF CorruptionTypes, Active, Admitted
  <2>6. corruptions' \in [Requests -> 0 .. MaxRetries + 1]
    <3>1. \A r \in Requests : corruptions[r] \in 0 .. MaxRetries + 1
      BY <1>0
    <3>2. \A r \in Running : corruptions[r] + 1 \in 0 .. MaxRetries + 1
      BY <3>1, <2>5, <1>0
    <3> QED BY <2>1, <3>1, <3>2
  <2>7. \A r \in Active' : r \in again \/ (r \in Active /\ r \notin Running)
    BY <2>1, <2>4, SchedulerAssumption
       DEF SchedInv, Apart, Active, Admitted, Waiting, Prefilling, Running, Current
  <2>8. ASSUME NEW r \in Active' PROVE corruptions'[r] <= MaxRetries
    <3>1. CASE r \in again
      <4>1. r \in Running /\ r \in Requests /\ corruptions[r] < MaxRetries
        BY <3>1, <2>2, <2>3, <2>5
      <4>2. corruptions'[r] = corruptions[r] + 1 /\ corruptions[r] \in 0 .. MaxRetries + 1
        BY <4>1, <2>1, <1>0
      <4> QED BY <4>1, <4>2, <1>0
    <3>2. CASE r \in Active /\ r \notin Running
      <4>1. r \in Requests /\ corruptions'[r] = corruptions[r]
        BY <3>2, <2>1, ServedSeen
      <4> QED BY <4>1, <3>2 DEF CorruptionTypes
    <3> QED BY <2>7, <3>1, <3>2
  <2>9. ASSUME NEW r \in Requests, client'[r] = "absent" PROVE corruptions'[r] = 0
    BY <2>1, <2>5, <2>9 DEF CorruptionTypes
  <2> QED BY <2>6, <2>8, <2>9 DEF CorruptionTypes
<1>3. ASSUME NEW r \in Requests, DoAbortRequest(r) \/ AddRequest(r) \/ AbortRequest(r)
      PROVE  CorruptionTypes'
  <2>1. UNCHANGED corruptions
    BY <1>3, Zenon DEF DoAbortRequest, AddRequest, AbortRequest, reqVars
  <2> QED BY <2>1, <1>1
<1>4. CASE StepBegin \/ DrainPendingAsyncRemoves \/ FinalizeRemove \/ AdvanceChunkedPrefills
           \/ ScheduleEnds \/ StoreGateStall \/ RemovesStall \/ MemoryReject \/ MemoryStall
  <2>1. UNCHANGED corruptions
    BY <1>4, Zenon DEF StepBegin, DrainPendingAsyncRemoves, FinalizeRemove,
       AdvanceChunkedPrefills, ScheduleEnds, StoreGateStall, RemovesStall, MemoryReject,
       MemoryStall, reqVars
  <2> QED BY <2>1, <1>1
<1>5. CASE AdmitHead \/ PrefillDone \/ PrefillFails \/ PrefillAborted \/ DecodeNothing
           \/ DecodeRaises \/ Deliver \/ FailAllRequests
  <2>1. UNCHANGED corruptions
    BY <1>5, Zenon DEF AdmitHead, PrefillDone, PrefillFails, PrefillAborted, DecodeNothing,
       DecodeRaises, Deliver, FailAllRequests, reqVars
  <2> QED BY <2>1, <1>1
<1>6. CASE DecodeStep \/ DecodeStale \/ GenerationOverflow \/ StoreWorker
           \/ SetAdmissionPaused \/ Clock \/ RowVanishes \/ UNCHANGED schedVars
  <2>1. UNCHANGED corruptions
    BY <1>6, Zenon DEF DecodeStep, DecodeStale, GenerationOverflow, StoreWorker,
       SetAdmissionPaused, Clock, RowVanishes, schedVars, reqVars
  <2> QED BY <2>1, <1>1
<1> QED
  BY <1>2, <1>3, <1>4, <1>5, <1>6, Zenon DEF SchedNext, EngineThread

ChunkTypes == chunks \in [Requests -> 0..Chunks]

LEMMA ChunkTypeStep ==
    SchedInv /\ ChunksLeft /\ ChunkTypes /\ [SchedNext]_schedVars => ChunkTypes'
<1> SUFFICES ASSUME SchedInv, ChunksLeft, ChunkTypes, [SchedNext]_schedVars
             PROVE  ChunkTypes'
  OBVIOUS
<1>0. /\ Chunks \in Nat /\ Chunks >= 2 /\ Chunks - 1 \in 0..Chunks
      /\ \A r \in Requests : chunks[r] \in 0..Chunks
  BY SchedulerAssumption DEF ChunkTypes
<1>1. ASSUME UNCHANGED chunks PROVE ChunkTypes'
  BY <1>1 DEF ChunkTypes
<1>2. CASE AdvanceChunkedPrefills
  <2>1. chunks' = [r \in Requests |-> IF r \in Prefilling THEN chunks[r] - 1 ELSE chunks[r]]
    BY <1>2, Zenon DEF AdvanceChunkedPrefills, Prefilling
  <2>2. \A r \in Requests : r \in Prefilling => chunks[r] - 1 \in 0..Chunks
    BY <1>0 DEF ChunksLeft
  <2> QED BY <2>1, <2>2, <1>0 DEF ChunkTypes
<1>3. CASE AdmitHead
  <2>1. chunks' = chunks \/ chunks' = [chunks EXCEPT ![Head(waiting)] = Chunks - 1]
    BY <1>3 DEF AdmitHead
  <2> QED BY <2>1, <1>0 DEF ChunkTypes
<1>4. ASSUME NEW r \in Requests, DoAbortRequest(r) \/ AddRequest(r) \/ AbortRequest(r)
      PROVE  ChunkTypes'
  <2>1. UNCHANGED chunks
    BY <1>4, Zenon DEF DoAbortRequest, AddRequest, AbortRequest, reqVars
  <2> QED BY <2>1, <1>1
<1>5. CASE StepBegin \/ DrainPendingAsyncRemoves \/ FinalizeRemove
           \/ ScheduleEnds \/ StoreGateStall \/ RemovesStall \/ MemoryReject \/ MemoryStall
  <2>1. UNCHANGED chunks
    BY <1>5, Zenon DEF StepBegin, DrainPendingAsyncRemoves, FinalizeRemove,
       ScheduleEnds, StoreGateStall, RemovesStall, MemoryReject, MemoryStall, reqVars
  <2> QED BY <2>1, <1>1
<1>6. CASE PrefillDone \/ PrefillFails \/ PrefillAborted \/ DecodeNothing
           \/ DecodeRaises \/ Deliver \/ FailAllRequests \/ CacheCorruption
  <2>1. UNCHANGED chunks
    BY <1>6, Zenon DEF PrefillDone, PrefillFails, PrefillAborted, DecodeNothing,
       DecodeRaises, Deliver, FailAllRequests, CacheCorruption, reqVars
  <2> QED BY <2>1, <1>1
<1>7. CASE DecodeStep \/ DecodeStale \/ GenerationOverflow \/ StoreWorker
           \/ SetAdmissionPaused \/ Clock \/ RowVanishes \/ UNCHANGED schedVars
  <2>1. UNCHANGED chunks
    BY <1>7, Zenon DEF DecodeStep, DecodeStale, GenerationOverflow, StoreWorker,
       SetAdmissionPaused, Clock, RowVanishes, schedVars, reqVars
  <2> QED BY <2>1, <1>1
<1> QED
  BY <1>2, <1>3, <1>4, <1>5, <1>6, <1>7, Zenon DEF SchedNext, EngineThread

\* The store worker's queue has only requests that were served before, and the gate
\* counts no more of them than there are.
JobsInv ==
    /\ IsQueue(jobs) /\ in_flight \in 0..Len(jobs)
    /\ Range(jobs) \cap Active = {}
    /\ \A r \in Range(jobs) : client[r] # "absent"

\* A queue is as long as it has members.
LEMMA QueueCount ==
    ASSUME NEW q, IsQueue(q)
    PROVE  IsFiniteSet(Range(q)) /\ Cardinality(Range(q)) = Len(q)
<1>1. q \in Seq(Requests) /\ Len(q) \in Nat /\ DOMAIN q = 1..Len(q) /\ IsInjective(q)
  BY DEF IsQueue
<1>2. IsFiniteSet(1..Len(q)) /\ Cardinality(1..Len(q)) = Len(q)
  <2>1. 1 \in Int /\ Len(q) \in Int
    BY <1>1
  <2>2. IsFiniteSet(1..Len(q))
        /\ Cardinality(1..Len(q)) = IF 1 > Len(q) THEN 0 ELSE Len(q) - 1 + 1
    BY <2>1, FS_Interval, ZenonT(30)
  <2> QED BY <1>1, <2>2
<1>3. Range(q) = {q[i] : i \in 1..Len(q)}
  BY <1>1 DEF Range
<1>4. q \in Bijection(1..Len(q), Range(q))
  <2>1. q \in [1..Len(q) -> Range(q)]
    BY <1>1, <1>3
  <2>2. \A i, j \in 1..Len(q) : q[i] = q[j] => i = j
    BY <1>1 DEF IsInjective
  <2>3. \A x \in Range(q) : \E i \in 1..Len(q) : q[i] = x
    BY <1>3
  <2> QED BY <2>1, <2>2, <2>3 DEF Bijection, Injection, Surjection, IsInjective
<1>5. ExistsBijection(1..Len(q), Range(q))
  BY <1>4 DEF ExistsBijection
<1> QED BY <1>2, <1>5, FS_Bijection

\* What leaves a queue makes it as much shorter.
LEMMA CutCount ==
    ASSUME NEW q, IsQueue(q), NEW S, S \subseteq Range(q)
    PROVE  /\ IsFiniteSet(S) /\ Cardinality(S) \in Nat
           /\ Len(Keep(q, Requests \ S)) = Len(q) - Cardinality(S)
<1> DEFINE k == Keep(q, Requests \ S)
<1>1. /\ IsQueue(k) /\ Range(k) = Range(q) \cap (Requests \ S) /\ Range(q) \subseteq Requests
      /\ Len(q) \in Nat
  BY CutFacts
<1>2. Range(k) = Range(q) \ S /\ Range(q) \cap S = S
  BY <1>1
<1> HIDE DEF k
<1>3. IsFiniteSet(Range(q)) /\ Cardinality(Range(q)) = Len(q)
  BY QueueCount
<1>4. Cardinality(Range(k)) = Len(k)
  BY <1>1, QueueCount
<1>5. Cardinality(Range(q) \ S) = Cardinality(Range(q)) - Cardinality(Range(q) \cap S)
  BY <1>3, FS_Difference
<1>6. IsFiniteSet(S)
  BY <1>3, FS_Subset
<1>7. Cardinality(S) \in Nat
  BY <1>6, FS_CardinalityType
<1>8. Len(k) = Len(q) - Cardinality(S)
  BY <1>2, <1>3, <1>4, <1>5
<1> QED BY <1>6, <1>7, <1>8 DEF k

\* Steps that submit nothing.
LEMMA JobsFewer ==
    ASSUME SchedInv, JobsInv, [SchedNext]_schedVars,
           IsQueue(jobs'), Range(jobs') \subseteq Range(jobs), in_flight' \in 0..Len(jobs')
    PROVE  JobsInv'
<1>1. Range(jobs) \subseteq Requests
  BY CutFacts DEF JobsInv
<1>2. \A r \in Requests : client'[r] = "absent" => client[r] = "absent"
  BY AbsentStep
<1>3. \A r \in Requests : AddRequest(r) => client[r] = "absent"
  BY DEF AddRequest
<1>4. Range(jobs) \cap Active' = {}
  BY <1>3, ActiveStep DEF JobsInv
<1> QED BY <1>1, <1>2, <1>4 DEF JobsInv

LEMMA JobsStep == SchedInv /\ JobsInv /\ [SchedNext]_schedVars => JobsInv'
<1> SUFFICES ASSUME SchedInv, JobsInv, [SchedNext]_schedVars PROVE JobsInv'
  OBVIOUS
<1>0. IsQueue(jobs) /\ in_flight \in 0..Len(jobs) /\ Len(jobs) \in Nat
  BY DEF JobsInv, IsQueue
<1>1. ASSUME UNCHANGED <<jobs, in_flight>> PROVE JobsInv'
  BY <1>0, <1>1, JobsFewer
<1>2. CASE StoreWorker
  <2>1. CASE UNCHANGED <<jobs, in_flight>>
    BY <2>1, <1>1
  <2>2. CASE jobs # <<>> /\ jobs' = Tail(jobs) /\ in_flight' = NoteDone(1)
    <3>1. /\ IsQueue(jobs') /\ Len(jobs') = Len(jobs) - 1
          /\ Range(jobs') \subseteq Range(jobs)
      BY <2>2, <1>0, TailFacts
    <3>2. in_flight' = IF in_flight > 1 THEN in_flight - 1 ELSE 0
      BY <2>2 DEF NoteDone
    <3>3. Len(jobs') \in Nat
      BY <3>1 DEF IsQueue
    <3>4. in_flight' \in 0..Len(jobs')
      BY <3>1, <3>2, <3>3, <1>0
    <3> QED BY <3>1, <3>4, JobsFewer
  <2> QED BY <1>2, <2>1, <2>2 DEF StoreWorker
<1>3. CASE DrainPendingAsyncRemoves
  <2>1. PICK stuck \in SUBSET Range(removes) :
          LET dropped == {e.req : e \in stuck} \cap Range(SubSeq(jobs, 2, Len(jobs)))
          IN  /\ jobs' = Keep(jobs, Requests \ dropped)
              /\ in_flight' = NoteDone(Cardinality(dropped))
    BY <1>3 DEF DrainPendingAsyncRemoves
  <2> DEFINE dropped == {e.req : e \in stuck} \cap Range(SubSeq(jobs, 2, Len(jobs)))
  <2>2. /\ jobs' = Keep(jobs, Requests \ dropped)
        /\ in_flight' = NoteDone(Cardinality(dropped))
    BY <2>1
  <2>3. dropped \subseteq Range(jobs)
    <3> DEFINE s == SubSeq(jobs, 2, Len(jobs))
    <3>1. Range(s) \subseteq Range(jobs)
      <4>1. jobs \in Seq(Requests)
        BY <1>0 DEF IsQueue
      <4>2. Len(s) \in Nat /\ DOMAIN s = 1..Len(s)
        BY <4>1
      <4>3. \A i \in 1..Len(s) : i + 1 \in DOMAIN jobs /\ s[i] = jobs[i + 1]
        BY <4>1
      <4> HIDE DEF s
      <4> QED BY <4>2, <4>3 DEF Range
    <3> QED BY <3>1
  <2> HIDE DEF dropped
  <2>4. /\ Cardinality(dropped) \in Nat /\ Len(jobs') = Len(jobs) - Cardinality(dropped)
    BY <2>2, <2>3, <1>0, CutCount
  <2>5. IsQueue(jobs') /\ Range(jobs') \subseteq Range(jobs) /\ Len(jobs') \in Nat
    BY <2>2, <1>0, CutFacts
  <2>6. in_flight' = IF in_flight > Cardinality(dropped)
                     THEN in_flight - Cardinality(dropped) ELSE 0
    BY <2>2 DEF NoteDone
  <2>7. in_flight' \in 0..Len(jobs')
    BY <2>4, <2>5, <2>6, <1>0
  <2> QED BY <2>5, <2>7, JobsFewer
<1>4. CASE FinalizeRemove
  <2>1. UNCHANGED jobs /\ (in_flight' = in_flight \/ in_flight' = NoteDone(1))
    BY <1>4 DEF FinalizeRemove
  <2>2. in_flight' \in 0..Len(jobs')
    BY <2>1, <1>0 DEF NoteDone
  <2> QED BY <2>1, <2>2, <1>0, JobsFewer
<1>5. CASE DecodeStep
  <2>1. PICK ending \in SUBSET rows, stored \in SUBSET Heard :
          LET fin == {r \in Heard : RowOf(r) \in ending}
          IN  stored \subseteq fin /\ CleanupFinished(fin, stored)
    BY <1>5, Zenon DEF DecodeStep
  <2> DEFINE fin == {r \in Heard : RowOf(r) \in ending}
             order == Keep(running, stored)
  <2>2. stored \subseteq fin /\ CleanupFinished(fin, stored) /\ fin \subseteq Heard
    BY <2>1, Zenon
  <2> HIDE DEF fin
  <2>3. /\ jobs' = jobs \o order /\ in_flight' = in_flight + Len(order)
        /\ running' = Keep(running, Requests \ fin)
    BY <2>2, Zenon DEF CleanupFinished
  <2>4. IsQueue(running) /\ stored \subseteq Running /\ Running \subseteq Active
    BY <2>2 DEF SchedInv, QueueTypes, Heard, Running, Active, Admitted
  <2>5. IsQueue(order) /\ Range(order) = stored
    <3>1. IsQueue(order) /\ Range(order) = Range(running) \cap stored
      BY <2>4, CutFacts
    <3> QED BY <3>1, <2>4 DEF Running
  <2>6. Running' = Running \ fin
    <3>1. Range(running') = Range(running) \cap (Requests \ fin) /\ Range(running) \subseteq Requests
      BY <2>3, <2>4, CutFacts
    <3> QED BY <3>1 DEF Running
  <2> HIDE DEF order
  <2>7. Range(jobs) \cap Range(order) = {}
    BY <2>4, <2>5 DEF JobsInv
  <2>8. /\ IsQueue(jobs') /\ Len(jobs') = Len(jobs) + Len(order) /\ Len(order) \in Nat
        /\ Range(jobs') = Range(jobs) \cup stored
    BY <2>3, <2>5, <2>7, <1>0, JoinFacts
  <2>9. in_flight' \in 0..Len(jobs')
    BY <2>3, <2>8, <1>0
  <2>10. UNCHANGED <<waiting, prefilling, cur, client>>
    BY <1>5, Zenon DEF DecodeStep, envVars
  <2>11. Active' \subseteq Active /\ Active' \cap stored = {}
    BY <2>2, <2>4, <2>6, <2>10 DEF SchedInv, Apart, Active, Admitted, Waiting, Prefilling, Current
  <2>12. Range(jobs') \cap Active' = {}
    BY <2>8, <2>11 DEF JobsInv
  <2>13. \A r \in Range(jobs') : client'[r] # "absent"
    BY <2>4, <2>8, <2>10, ServedSeen DEF JobsInv
  <2> QED BY <2>8, <2>9, <2>12, <2>13 DEF JobsInv
<1>6. ASSUME NEW r \in Requests, DoAbortRequest(r) \/ AddRequest(r) \/ AbortRequest(r)
      PROVE  JobsInv'
  <2>1. UNCHANGED <<jobs, in_flight>>
    BY <1>6, Zenon DEF DoAbortRequest, AddRequest, AbortRequest, storeVars
  <2> QED BY <2>1, <1>1
<1>7. CASE StepBegin \/ AdvanceChunkedPrefills \/ ScheduleEnds \/ StoreGateStall
           \/ RemovesStall \/ MemoryReject \/ MemoryStall \/ AdmitHead
  <2>1. UNCHANGED <<jobs, in_flight>>
    BY <1>7, Zenon DEF StepBegin, AdvanceChunkedPrefills, ScheduleEnds, StoreGateStall,
       RemovesStall, MemoryReject, MemoryStall, AdmitHead, storeVars
  <2> QED BY <2>1, <1>1
<1>8. CASE PrefillDone \/ PrefillFails \/ PrefillAborted \/ DecodeNothing \/ DecodeStale
           \/ CacheCorruption \/ GenerationOverflow \/ DecodeRaises
  <2>1. UNCHANGED <<jobs, in_flight>>
    BY <1>8, Zenon DEF PrefillDone, PrefillFails, PrefillAborted, DecodeNothing, DecodeStale,
       CacheCorruption, GenerationOverflow, DecodeRaises, storeVars
  <2> QED BY <2>1, <1>1
<1>9. CASE Deliver \/ FailAllRequests \/ SetAdmissionPaused \/ Clock \/ RowVanishes
           \/ UNCHANGED schedVars
  <2>1. UNCHANGED <<jobs, in_flight>>
    BY <1>9, Zenon DEF Deliver, FailAllRequests, SetAdmissionPaused, Clock, RowVanishes,
       schedVars, storeVars
  <2> QED BY <2>1, <1>1
<1> QED
  BY <1>2, <1>3, <1>4, <1>5, <1>6, <1>7, <1>8, <1>9, Zenon DEF SchedNext, EngineThread

\* All that the types of the state rest on.
TypesInv ==
    /\ FlagTypes /\ StallTypes /\ SetTypes /\ EntryTypes
    /\ TokenTypes /\ CorruptionTypes /\ ChunkTypes /\ JobsInv

LEMMA SchedInitTypes == SchedInit => TypesInv
<1> SUFFICES ASSUME SchedInit PROVE TypesInv
  OBVIOUS
<1>1. /\ waiting = <<>> /\ prefilling = <<>> /\ running = <<>> /\ requests = {}
      /\ removes = <<>> /\ draining = <<>> /\ jobs = <<>> /\ in_flight = 0
      /\ cur = NoRequest
  BY DEF SchedInit
<1>2. Active = {}
  BY <1>1, EmptyQueue DEF Active, Admitted, Waiting, Prefilling, Running, Current
<1>3. FlagTypes
  <2>1. /\ paused = FALSE /\ wedged = FALSE /\ scheduled = FALSE /\ batch_set = FALSE
        /\ pc = "idle" /\ budget = MaxFaults
    BY DEF SchedInit
  <2>2. budget \in 0..MaxFaults
    BY <2>1, SchedulerAssumption
  <2> QED BY <2>1, <2>2, Zenon DEF FlagTypes
<1>4. StallTypes
  BY DEF SchedInit, StallTypes, NoStall
<1>5. SetTypes
  BY DEF SchedInit, SetTypes
<1>6. EntryTypes
  BY <1>1, EmptyQueue DEF EntryTypes
<1>7. TokenTypes /\ CorruptionTypes /\ ChunkTypes
  <2>1. /\ tokens = [r \in Requests |-> 0] /\ corruptions = [r \in Requests |-> 0]
        /\ chunks = [r \in Requests |-> 0]
    BY DEF SchedInit
  <2>2. 0 \in 0..MaxTokens /\ 0 \in 0 .. MaxRetries + 1 /\ 0 \in 0..Chunks
    BY SchedulerAssumption
  <2>3. TokenTypes
    BY <1>2, <2>1, <2>2 DEF TokenTypes
  <2>4. CorruptionTypes
    BY <1>2, <2>1, <2>2 DEF CorruptionTypes
  <2>5. ChunkTypes
    BY <2>1, <2>2 DEF ChunkTypes
  <2> QED BY <2>3, <2>4, <2>5
<1>8. JobsInv
  BY <1>1, <1>2, EmptyQueue DEF JobsInv
<1> QED
  BY <1>3, <1>4, <1>5, <1>6, <1>7, <1>8 DEF TypesInv

LEMMA TypesStep ==
    SchedInv /\ ChunksLeft /\ UidInv /\ TypesInv /\ [SchedNext]_schedVars => TypesInv'
<1> SUFFICES ASSUME SchedInv, ChunksLeft, UidInv, TypesInv, [SchedNext]_schedVars
             PROVE  TypesInv'
  OBVIOUS
<1>1. FlagTypes' /\ StallTypes' /\ SetTypes' /\ EntryTypes'
  BY FlagStep, StallStep, SetStep, EntryStep, Zenon DEF TypesInv
<1>2. TokenTypes' /\ CorruptionTypes' /\ ChunkTypes' /\ JobsInv'
  BY TokenStep, CorruptionStep, ChunkTypeStep, JobsStep, Zenon DEF TypesInv
<1> QED
  BY <1>1, <1>2 DEF TypesInv

-----------------------------------------------------------------------------
(* Theorems *)

\* The scheduler's queues, outputs and aborts stay consistent with each other
\* through every step, abort, stall, reset and failure of step(), for any number of
\* requests and any combination of faults.
THEOREM SchedInvariance == SchedSpec => [](SchedInv /\ ChunksLeft /\ faults \in FaultSets)
<1>1. SchedInit => SchedInv /\ ChunksLeft /\ faults \in FaultSets
  <2> SUFFICES ASSUME SchedInit PROVE SchedInv /\ ChunksLeft /\ faults \in FaultSets
    OBVIOUS
  <2>1. SchedInv
    BY SchedInitInv
  <2>2. prefilling = <<>> /\ chunks = [r \in Requests |-> 0] /\ faults \in FaultSets
    BY DEF SchedInit
  <2>3. ChunksLeft
    BY <2>2, EmptyQueue DEF ChunksLeft, Prefilling
  <2> QED BY <2>1, <2>2, <2>3
<1>2. /\ SchedInv /\ ChunksLeft /\ faults \in FaultSets
      /\ [SchedNext]_schedVars
      => (SchedInv /\ ChunksLeft /\ faults \in FaultSets)'
  <2> SUFFICES ASSUME SchedInv, ChunksLeft, faults \in FaultSets, [SchedNext]_schedVars
               PROVE  SchedInv' /\ ChunksLeft' /\ faults' \in FaultSets
    OBVIOUS
  <2>1. SchedInv'
    BY SchedStepInv
  <2>2. ChunksLeft'
    BY ChunksStep
  <2>3. faults' = faults
    BY FaultsFixed
  <2> QED BY <2>1, <2>2, <2>3
<1> QED
  BY <1>1, <1>2, PTL DEF SchedSpec

\* The batch never exceeds max_num_seqs, whatever admission, chunked prefills,
\* resets and retries do (_schedule_waiting, _advance_chunked_prefills).
THEOREM BatchCapped == SchedSpec => []CapRespected
<1>1. SchedInv => CapRespected
  <2> SUFFICES ASSUME SchedInv PROVE CapRespected
    OBVIOUS
  <2>1. Cardinality({cur} \cap Requests) = IF cur = NoRequest THEN 0 ELSE 1
    <3>1. CASE cur = NoRequest
      <4>1. {cur} \cap Requests = {}
        BY <3>1, SchedulerAssumption
      <4> QED BY <3>1, <4>1, FS_EmptySet
    <3>2. CASE cur # NoRequest
      <4>1. {cur} \cap Requests = {cur}
        BY <3>2 DEF SchedInv, QueueTypes
      <4> QED BY <3>2, <4>1, FS_Singleton
    <3> QED BY <3>1, <3>2
  <2>2. Size <= MaxSeqs
    BY DEF SchedInv, Sized
  <2> QED BY <2>1, <2>2 DEF CapRespected, Size
<1> QED
  BY <1>1, SchedInvariance, PTL

\* A request that is retried after an overflow of the sampler generates alone.
THEOREM RetriesRunAlone == SchedSpec => []RetryAlone
<1>1. SchedInv => RetryAlone
  <2> SUFFICES ASSUME SchedInv, NEW r \in recovery \cap Range(running)
               PROVE  running = <<r>> /\ prefilling = <<>>
    BY DEF RetryAlone
  <2>1. recovery \cap Admitted # {}
    BY DEF Admitted, Running
  <2>2. Size <= 1
    BY <2>1 DEF SchedInv, Sized
  <2>3. running \in Seq(Requests) /\ prefilling \in Seq(Requests)
    BY DEF SchedInv, QueueTypes, IsQueue
  <2>4. PICK i \in DOMAIN running : r = running[i]
    BY DEF Range
  <2>5. Len(running) \in Nat /\ Len(prefilling) \in Nat /\ i \in 1..Len(running)
    BY <2>3
  <2>6. Len(running) = 1 /\ Len(prefilling) = 0 /\ i = 1
    <3> DEFINE a == Len(running)
               b == Len(prefilling)
               d == IF cur = NoRequest THEN 0 ELSE 1
    <3>1. a \in Nat /\ b \in Nat /\ d \in Nat /\ i \in 1..a /\ (a + b) + d <= 1
      BY <2>2, <2>5 DEF Size
    <3> HIDE DEF a, b, d
    <3>2. a = 1 /\ b = 0 /\ i = 1
      BY <3>1
    <3> QED BY <3>2 DEF a, b
  <2> QED BY <2>3, <2>4, <2>6
<1> QED
  BY <1>1, SchedInvariance, PTL

\* After its abort a request generates nothing, however the abort and the step
\* interleave (_process_batch_responses skips what is pending).
THEOREM AbortedStaySilent == SchedSpec => AbortSilences
<1>1. ASSUME SchedInv, [SchedNext]_schedVars
      PROVE  [\A r \in aborted : tokens'[r] <= tokens[r]]_schedVars
  <2> SUFFICES ASSUME SchedNext, NEW r \in aborted PROVE tokens'[r] <= tokens[r]
    BY <1>1
  <2>1. r \in Requests /\ tokens \in [Requests -> Nat] /\ tokens[r] \in Nat
    BY <1>1 DEF SchedInv, QueueTypes
  <2>2. CASE tokens' = tokens
    BY <2>1, <2>2
  <2>3. ASSUME NEW S, tokens' = [x \in Requests |-> IF x \in S THEN 0 ELSE tokens[x]]
        PROVE  tokens'[r] <= tokens[r]
    BY <2>1, <2>3
  <2>4. CASE DecodeStep
    <3>1. /\ pc \in {"decode", "fast"}
          /\ tokens' = [x \in Requests |-> IF x \in Heard THEN tokens[x] + 1 ELSE tokens[x]]
      BY <2>4, Zenon DEF DecodeStep
    <3>2. r \notin Heard
      BY <1>1, <3>1 DEF Heard, SchedInv, AbortsPend, Active, Admitted, Running
    <3> QED BY <2>1, <3>1, <3>2
  <2>5. CASE PrefillAborted \/ CacheCorruption \/ DecodeStale
    BY <2>3, <2>5, Zenon DEF PrefillAborted, CacheCorruption, DecodeStale, Reschedule
  <2>6. CASE GenerationOverflow
    BY <2>3, <2>6, Zenon DEF GenerationOverflow
  <2>7. CASE StepBegin \/ (\E x \in Requests : DoAbortRequest(x))
             \/ DrainPendingAsyncRemoves \/ FinalizeRemove
             \/ AdvanceChunkedPrefills \/ ScheduleEnds \/ StoreGateStall \/ RemovesStall
    BY <2>2, <2>7, Zenon DEF StepBegin, DoAbortRequest, DrainPendingAsyncRemoves,
       FinalizeRemove, AdvanceChunkedPrefills, ScheduleEnds, StoreGateStall, RemovesStall,
       reqVars
  <2>8. CASE MemoryReject \/ MemoryStall \/ AdmitHead \/ PrefillDone \/ PrefillFails
             \/ DecodeNothing \/ DecodeRaises \/ Deliver \/ FailAllRequests
    BY <2>2, <2>8, Zenon DEF MemoryReject, MemoryStall, AdmitHead, PrefillDone, PrefillFails,
       DecodeNothing, DecodeRaises, Deliver, FailAllRequests, reqVars
  <2>9. CASE \/ \E x \in Requests : AddRequest(x) \/ AbortRequest(x)
             \/ StoreWorker \/ SetAdmissionPaused \/ Clock \/ RowVanishes
    BY <2>2, <2>9, Zenon DEF AddRequest, AbortRequest, StoreWorker, SetAdmissionPaused,
       Clock, RowVanishes, reqVars
  <2> QED
    BY <2>4, <2>5, <2>6, <2>7, <2>8, <2>9, Zenon DEF SchedNext, EngineThread
<1> QED
  BY <1>1, SchedInvariance, PTL DEF SchedSpec, AbortSilences

\* A client that waits is accounted for exactly once, in a queue, the prefill under
\* way or the outputs of the step, as long as no error can unwind a pass of
\* _schedule_waiting that holds rejected outputs or a prefill.
THEOREM EveryoneAccounted ==
    ASSUME \A F \in FaultSets : OutputsKept(F)
    PROVE  SchedSpec => []Accounted
<1>1. SchedInv /\ faults \in FaultSets => Accounted
  <2> SUFFICES ASSUME SchedInv, faults \in FaultSets, pc # "failed", NEW r \in Requests,
                      client[r] = "open"
               PROVE  Cardinality(Homes(r)) = 1
    BY DEF Accounted
  <2>1. r \in Active \cup rejected \cup out
    BY DEF SchedInv, Homed
  <2>2. r # NoRequest
    BY SchedulerAssumption
  <2> DEFINE w == <<"waiting", Range(waiting)>>
             p == <<"prefilling", Range(prefilling)>>
             n == <<"running", Range(running)>>
             c == <<"cur", {cur}>>
             j == <<"rejected", rejected>>
             o == <<"out", out>>
  <2>3. Homes(r) = {h \in {w, p, n, c, j, o} : r \in h[2]}
    BY DEF Homes
  <2>4. /\ w[2] = Waiting /\ p[2] = Prefilling /\ n[2] = Running /\ c[2] = {cur}
        /\ j[2] = rejected /\ o[2] = out
    BY DEF Waiting, Prefilling, Running
  <2> HIDE DEF w, p, n, c, j, o
  <2>5. /\ Waiting \cap Prefilling = {} /\ Waiting \cap Running = {}
        /\ Prefilling \cap Running = {} /\ cur \notin Waiting \cup Prefilling \cup Running
        /\ rejected \cap out = {}
        /\ (Waiting \cup Prefilling \cup Running) \cap (rejected \cup out) = {}
        /\ cur # NoRequest => cur \notin rejected \cup out
    BY DEF SchedInv, Apart, Active, Admitted, Current
  <2>6. \/ r \in Waiting \/ r \in Prefilling \/ r \in Running \/ r = cur
        \/ r \in rejected \/ r \in out
    BY <2>1 DEF Active, Admitted, Current
  <2>7. \E h : Homes(r) = {h}
    <3>1. CASE r \in Waiting
      <4>1. Homes(r) = {w}
        BY <2>2, <2>3, <2>4, <2>5, <3>1
      <4> QED BY <4>1
    <3>2. CASE r \in Prefilling
      <4>1. Homes(r) = {p}
        BY <2>2, <2>3, <2>4, <2>5, <3>2
      <4> QED BY <4>1
    <3>3. CASE r \in Running
      <4>1. Homes(r) = {n}
        BY <2>2, <2>3, <2>4, <2>5, <3>3
      <4> QED BY <4>1
    <3>4. CASE r = cur
      <4>1. Homes(r) = {c}
        BY <2>2, <2>3, <2>4, <2>5, <3>4
      <4> QED BY <4>1
    <3>5. CASE r \in rejected
      <4>1. Homes(r) = {j}
        BY <2>2, <2>3, <2>4, <2>5, <3>5
      <4> QED BY <4>1
    <3>6. CASE r \in out
      <4>1. Homes(r) = {o}
        BY <2>2, <2>3, <2>4, <2>5, <3>6
      <4> QED BY <4>1
    <3> QED BY <2>6, <3>1, <3>2, <3>3, <3>4, <3>5, <3>6
  <2> QED BY <2>7, FS_Singleton
<1> QED
  BY <1>1, SchedInvariance, PTL

\* A running request keeps its uid and its mapping, and the only row that answers
\* for it is its own, through every reset, retry, abort and late removal: at any
\* moment it is either so mapped or one of those whose row went with another
\* request's removal (insert, _drain_pending_async_removes, _do_abort_request,
\* _process_batch_responses).
THEOREM UidsHold == SchedSpec => []UidsAgree
<1>1. UidInv => UidsAgree
  <2> SUFFICES ASSUME UidInv, NEW r \in Range(running)
               PROVE  /\ r \in DOMAIN uidOf
                      /\ r \notin lost => uidOf[r] \in DOMAIN idOf /\ idOf[uidOf[r]] = r
                      /\ \A u \in rows \cap DOMAIN idOf : idOf[u] = r => u = uidOf[r]
    BY DEF UidsAgree
  <2>1. /\ r \in DOMAIN uidOf
        /\ r \notin lost => uidOf[r] \in DOMAIN idOf /\ idOf[uidOf[r]] = r
    BY DEF UidInv, Mapped, Running
  <2>2. \A u \in rows \cap DOMAIN idOf : idOf[u] = r => u = uidOf[r]
    BY DEF UidInv, RowsOwned
  <2> QED BY <2>1, <2>2
<1> QED
  BY <1>1, SchedInvariance, SchedInitUids, UidStep, PTL DEF SchedSpec

\* Every queue is free of repetitions, a request has at most max_tokens tokens and
\* at most max_corruption_retries + 1 cache errors, a chunked prefill never runs past
\* its last chunk, and the store gate never counts more stores than are submitted
\* (_process_batch_responses, _recover_from_cache_error, _advance_chunked_prefills,
\* note_done).
THEOREM SchedTypes == SchedSpec => []SchedTypeOK
<1>1. SchedInv /\ UidInv /\ TypesInv /\ faults \in FaultSets => SchedTypeOK
  <2> SUFFICES ASSUME SchedInv, UidInv, TypesInv, faults \in FaultSets PROVE SchedTypeOK
    OBVIOUS
  <2>1. \A q \in {waiting, prefilling, running, jobs} : q \in Seq(Requests) /\ IsInjective(q)
    BY DEF SchedInv, QueueTypes, TypesInv, JobsInv, IsQueue
  <2>2. \A S \in {requests, pending_aborts, recovery, overflowed, cancelled,
                  storing, rejected, out, aborted, lost} : S \subseteq Requests
    BY DEF SchedInv, QueueTypes, AbortsPend, TypesInv, SetTypes, UidInv, UidTypes
  <2>3. removes \in Seq(Entries) /\ draining \in Seq(Entries)
    <3>1. removes \in Seq(Range(removes)) /\ draining \in Seq(Range(draining))
      BY DEF SchedInv, QueueTypes
    <3>2. Range(removes) \subseteq Entries /\ Range(draining) \subseteq Entries
      BY DEF TypesInv, EntryTypes
    <3> DEFINE X == Range(removes)
               Y == Range(draining)
    <3> HIDE DEF X, Y
    <3> QED BY <3>1, <3>2 DEF X, Y
  <2>4. {paused, wedged, scheduled, batch_set} \subseteq BOOLEAN
    BY Zenon DEF TypesInv, FlagTypes
  <2>5. pc \in {"idle", "aborts", "finalize", "schedule", "prefill",
                "decode", "fast", "deliver", "failed"} /\ budget \in 0..MaxFaults
    BY Zenon DEF TypesInv, FlagTypes
  <2>6. /\ DOMAIN uidOf \subseteq Requests /\ uidOf \in [DOMAIN uidOf -> Nat]
        /\ DOMAIN idOf \subseteq Nat /\ idOf \in [DOMAIN idOf -> Requests]
        /\ next_uid \in Nat /\ rows \subseteq 0 .. next_uid - 1
    BY DEF UidInv, UidTypes
  <2>7. /\ mem_stall \in [id : Requests \cup {NoRequest}, age : 0..2]
        /\ store_stall \in {"none", "blocked", "expired"}
        /\ chunks \in [Requests -> 0..Chunks] /\ tokens \in [Requests -> 0..MaxTokens]
        /\ corruptions \in [Requests -> 0 .. MaxRetries + 1]
        /\ in_flight \in 0..Len(jobs)
    BY Zenon DEF TypesInv, StallTypes, ChunkTypes, TokenTypes, CorruptionTypes, JobsInv
  <2>8. /\ cur \in Requests \cup {NoRequest}
        /\ client \in [Requests -> {"absent", "open", "closed"}]
    BY DEF SchedInv, QueueTypes
  <2> QED BY <2>1, <2>2, <2>3, <2>4, <2>5, <2>6, <2>7, <2>8, Zenon DEF SchedTypeOK
<1>2. SchedInit => UidInv /\ TypesInv
  BY SchedInitUids, SchedInitTypes
<1> QED
  BY <1>1, <1>2, SchedInvariance, UidStep, TypesStep, PTL DEF SchedSpec

=============================================================================
