--------------------------- MODULE SequenceLemmas ---------------------------
(***************************************************************************)
(* What the proofs about connections need of sequences (the queue of       *)
(* device OPENs, packets in flight, bytes) and of sums.                    *)
(***************************************************************************)
EXTENDS IncomingQueue, Sums, WellFoundedInduction, FiniteSetTheorems, TLAPS

In(s, x) == \E i \in 1 .. Len(s) : s[i] = x
Once(s) == \A i, j \in 1 .. Len(s) : s[i] = s[j] => i = j
Items(s) == {s[k] : k \in DOMAIN s}

(* Some natural numbers have a least one.                                  *)
LEMMA LeastNatural ==
    ASSUME NEW S \in SUBSET Nat, S # {}
    PROVE  \E m \in S : \A k \in S : m <= k
  <1>1. PICK m \in S : \A k \in S : ~ (<<k, m>> \in OpToRel(<, Nat))
    BY NatLessThanWellFounded, WFMin
  <1>2. \A k \in S : ~ (k < m)
    BY <1>1 DEF OpToRel
  <1>3. \A k \in S : m <= k
    BY <1>2
  <1> QED BY <1>3

-----------------------------------------------------------------------------
(* The queue.                                                              *)

(* The first request is taken.                                             *)
LEMMA TailOnce ==
    ASSUME NEW T, NEW s \in Seq(T), s # <<>>, Once(s)
    PROVE  /\ Head(s) \in T /\ Tail(s) \in Seq(T) /\ Once(Tail(s)) /\ Len(Tail(s)) = Len(s) - 1
           /\ In(s, Head(s)) /\ ~In(Tail(s), Head(s))
           /\ \A x : x # Head(s) => (In(Tail(s), x) <=> In(s, x))
  <1> DEFINE t == Tail(s)
  <1>1. Len(s) \in Nat /\ Len(s) > 0 /\ Head(s) = s[1] /\ s[1] \in T
    OBVIOUS
  <1>2. t \in Seq(T) /\ Len(t) = Len(s) - 1 /\ \A i \in 1 .. Len(t) : t[i] = s[i + 1]
    BY <1>1
  <1> HIDE DEF t
  <1>3. Once(t)
    <2> SUFFICES ASSUME NEW i \in 1 .. Len(t), NEW j \in 1 .. Len(t), t[i] = t[j] PROVE i = j
      BY DEF Once
    <2>1. i + 1 \in 1 .. Len(s) /\ j + 1 \in 1 .. Len(s) /\ s[i + 1] = s[j + 1]
      BY <1>1, <1>2
    <2>2. i + 1 = j + 1
      BY <2>1 DEF Once
    <2> QED BY <2>2
  <1>4. ~In(t, s[1])
    <2> SUFFICES ASSUME NEW i \in 1 .. Len(t), t[i] = s[1] PROVE FALSE
      BY DEF In
    <2>1. i + 1 \in 1 .. Len(s) /\ 1 \in 1 .. Len(s) /\ s[i + 1] = s[1]
      BY <1>1, <1>2
    <2>2. i + 1 = 1
      BY <2>1 DEF Once
    <2> QED BY <2>2
  <1>5. ASSUME NEW x, x # s[1] PROVE In(t, x) <=> In(s, x)
    <2>1. ASSUME NEW i \in 1 .. Len(t), t[i] = x PROVE In(s, x)
      <3>1. i + 1 \in 1 .. Len(s) /\ s[i + 1] = x
        BY <1>1, <1>2, <2>1
      <3> QED BY <3>1 DEF In
    <2>2. ASSUME NEW i \in 1 .. Len(s), s[i] = x PROVE In(t, x)
      <3>1. i - 1 \in 1 .. Len(t) /\ s[(i - 1) + 1] = x
        BY <1>1, <1>2, <1>5, <2>2
      <3>2. t[i - 1] = x
        BY <1>2, <3>1
      <3> QED BY <3>1, <3>2 DEF In
    <2> QED BY <2>1, <2>2 DEF In
  <1>6. In(s, s[1])
    <2>1. 1 \in 1 .. Len(s)
      BY <1>1
    <2> QED BY <2>1 DEF In
  <1> QED BY <1>1, <1>2, <1>3, <1>4, <1>5, <1>6 DEF t

(* A request goes to the end of the queue.                                 *)
LEMMA AppendOnce ==
    ASSUME NEW T, NEW s \in Seq(T), NEW r \in T, Once(s), ~In(s, r)
    PROVE  /\ Append(s, r) \in Seq(T) /\ Once(Append(s, r)) /\ Len(Append(s, r)) = Len(s) + 1
           /\ \A x : In(Append(s, r), x) <=> In(s, x) \/ x = r
  <1> DEFINE t == Append(s, r)
  <1>1. /\ t \in Seq(T) /\ Len(t) = Len(s) + 1 /\ Len(s) \in Nat /\ t[Len(s) + 1] = r
        /\ \A i \in 1 .. Len(s) : t[i] = s[i]
    OBVIOUS
  <1> HIDE DEF t
  <1>2. \A i \in 1 .. Len(t) : i \in 1 .. Len(s) \/ i = Len(s) + 1
    BY <1>1
  <1>3. Len(s) + 1 \in 1 .. Len(t) /\ \A i \in 1 .. Len(s) : i \in 1 .. Len(t)
    BY <1>1
  <1>4. Once(t)
    <2> SUFFICES ASSUME NEW i \in 1 .. Len(t), NEW j \in 1 .. Len(t), t[i] = t[j] PROVE i = j
      BY DEF Once
    <2> QED BY <1>1, <1>2 DEF Once, In
  <1>5. \A x : In(t, x) <=> In(s, x) \/ x = r
    BY <1>1, <1>2, <1>3 DEF In
  <1> QED BY <1>1, <1>4, <1>5 DEF t

(* A request comes back to the head of the queue.                          *)
LEMMA PushOnce ==
    ASSUME NEW T, NEW s \in Seq(T), NEW r \in T, Once(s), ~In(s, r)
    PROVE  /\ <<r>> \o s \in Seq(T) /\ Once(<<r>> \o s) /\ Len(<<r>> \o s) = Len(s) + 1
           /\ \A x : In(<<r>> \o s, x) <=> In(s, x) \/ x = r
  <1> DEFINE t == <<r>> \o s
  <1>1. /\ t \in Seq(T) /\ Len(t) = Len(s) + 1 /\ Len(s) \in Nat /\ t[1] = r
        /\ \A i \in 2 .. Len(t) : t[i] = s[i - 1]
    OBVIOUS
  <1> HIDE DEF t
  <1>2. \A i \in 1 .. Len(t) : i = 1 \/ (i \in 2 .. Len(t) /\ i - 1 \in 1 .. Len(s))
    BY <1>1
  <1>3. 1 \in 1 .. Len(t)
    BY <1>1
  <1>4. Once(t)
    <2> SUFFICES ASSUME NEW i \in 1 .. Len(t), NEW j \in 1 .. Len(t), t[i] = t[j] PROVE i = j
      BY DEF Once
    <2>1. i # 1 /\ j # 1 => i - 1 = j - 1
      BY <1>1, <1>2 DEF Once
    <2>2. i = 1 <=> j = 1
      BY <1>1, <1>2 DEF In
    <2> QED BY <2>1, <2>2
  <1>5. ASSUME NEW x PROVE In(t, x) <=> In(s, x) \/ x = r
    <2>1. ASSUME NEW i \in 1 .. Len(s), s[i] = x PROVE In(t, x)
      <3>1. i + 1 \in 2 .. Len(t) /\ i + 1 \in 1 .. Len(t) /\ s[(i + 1) - 1] = x
        BY <1>1, <2>1
      <3>2. t[i + 1] = x
        BY <1>1, <3>1
      <3> QED BY <3>1, <3>2 DEF In
    <2> QED BY <1>1, <1>2, <1>3, <2>1 DEF In
  <1> QED BY <1>1, <1>4, <1>5 DEF t

(* IncomingQueue::withdraw where a request waits at most once.             *)
LEMMA WithdrawOnce ==
    ASSUME NEW T, NEW s \in Seq(T), NEW r, Once(s)
    PROVE  /\ withdraw(s, r) \in Seq(T) /\ Once(withdraw(s, r)) /\ Len(withdraw(s, r)) <= Len(s)
           /\ \A x : In(withdraw(s, r), x) <=> In(s, x) /\ x # r
  <1> DEFINE goes == {i \in DOMAIN s : s[i] = r}
             before(i) == {j \in goes : j < i}
             pick(k) == CHOOSE i \in DOMAIN s \ goes : k = i - Cardinality(before(i))
             t == withdraw(s, r)
  <1>1. Len(s) \in Nat /\ DOMAIN s = 1 .. Len(s)
    OBVIOUS
  <1>2. t = [k \in 1 .. Len(s) - Cardinality(goes) |-> s[pick(k)]]
    BY DEF withdraw
  <1>3. CASE ~In(s, r)
    <2>1. goes = {} /\ \A i : before(i) = {}
      BY <1>1, <1>3 DEF In
    <2>2. Cardinality(goes) = 0 /\ \A i : Cardinality(before(i)) = 0
      <3>1. Cardinality({}) = 0
        BY FS_EmptySet
      <3> HIDE DEF goes, before
      <3> QED BY <2>1, <3>1
    <2> HIDE DEF goes, before
    <2>3. ASSUME NEW k \in 1 .. Len(s) PROVE pick(k) = k
      <3>1. \A i \in DOMAIN s \ goes : k = i - Cardinality(before(i)) <=> i = k
        BY <1>1, <2>1, <2>2
      <3>2. k \in DOMAIN s \ goes
        BY <1>1, <2>1
      <3> QED BY <3>1, <3>2
    <2>4. t = [k \in 1 .. Len(s) |-> s[k]]
      <3>1. Len(s) - Cardinality(goes) = Len(s)
        BY <1>1, <2>1, <2>2
      <3> HIDE DEF t, pick
      <3> QED BY <1>2, <2>3, <3>1
    <2>5. t = s
      BY <1>1, <2>4
    <2> HIDE DEF t
    <2> QED BY <1>1, <1>3, <2>5 DEF t, In
  <1>4. CASE In(s, r)
    <2>1. PICK a \in 1 .. Len(s) : s[a] = r
      BY <1>4 DEF In
    <2>2. goes = {a}
      BY <1>1, <2>1 DEF Once
    <2>3. \A i \in 1 .. Len(s) : before(i) = IF a < i THEN {a} ELSE {}
      BY <2>2
    <2>4. Cardinality({}) = 0 /\ Cardinality({a}) = 1
      BY FS_EmptySet, FS_Singleton
    <2>5. \A i \in 1 .. Len(s) : Cardinality(before(i)) = IF a < i THEN 1 ELSE 0
      BY <2>3, <2>4
    <2> HIDE DEF goes, before
    <2>6. ASSUME NEW k \in 1 .. Len(s) - 1 PROVE pick(k) = IF k < a THEN k ELSE k + 1
      <3> DEFINE m == IF k < a THEN k ELSE k + 1
      <3>1. \A i \in DOMAIN s \ goes : k = i - Cardinality(before(i)) <=> i = m
        BY <1>1, <2>2, <2>5
      <3>2. m \in DOMAIN s \ goes
        BY <1>1, <2>2
      <3> HIDE DEF m
      <3>3. pick(k) = m
        BY <3>1, <3>2
      <3> QED BY <3>3 DEF m
    <2>7. t = [k \in 1 .. Len(s) - 1 |-> s[IF k < a THEN k ELSE k + 1]]
      <3>1. Len(s) - Cardinality(goes) = Len(s) - 1
        BY <2>2, <2>4
      <3> HIDE DEF t, pick
      <3> QED BY <1>2, <2>6, <3>1
    <2> HIDE DEF t, pick
    <2>8. \A k \in 1 .. Len(s) - 1 : (IF k < a THEN k ELSE k + 1) \in (1 .. Len(s)) \ {a}
      BY <1>1
    <2>9. /\ t \in Seq(T) /\ Len(t) = Len(s) - 1
          /\ \A k \in 1 .. Len(t) : t[k] = s[IF k < a THEN k ELSE k + 1]
      <3>1. \A k \in 1 .. Len(s) - 1 : s[IF k < a THEN k ELSE k + 1] \in T
        BY <1>1, <2>8
      <3>2. Len(s) - 1 \in Nat
        BY <1>1, <2>1
      <3> QED BY <1>1, <2>7, <3>1, <3>2
    <2>10. Once(t)
      <3> SUFFICES ASSUME NEW i \in 1 .. Len(t), NEW j \in 1 .. Len(t), t[i] = t[j] PROVE i = j
        BY DEF Once
      <3>1. (IF i < a THEN i ELSE i + 1) = (IF j < a THEN j ELSE j + 1)
        BY <2>8, <2>9 DEF Once
      <3> QED BY <1>1, <3>1
    <2>11. ASSUME NEW x PROVE In(t, x) <=> In(s, x) /\ x # r
      <3>1. In(t, x) => In(s, x) /\ x # r
        <4> SUFFICES ASSUME NEW k \in 1 .. Len(t), t[k] = x PROVE In(s, x) /\ x # r
          BY DEF In
        <4>1. PICK i \in (1 .. Len(s)) \ {a} : s[i] = x
          BY <2>8, <2>9
        <4> QED BY <2>1, <4>1 DEF In, Once
      <3>2. ASSUME NEW i \in 1 .. Len(s), s[i] = x, x # r PROVE In(t, x)
        <4>1. i # a
          BY <2>1, <3>2
        <4> DEFINE k == IF i < a THEN i ELSE i - 1
        <4>2. k \in 1 .. Len(t) /\ (IF k < a THEN k ELSE k + 1) = i
          BY <1>1, <2>9, <4>1
        <4> HIDE DEF k
        <4>3. t[k] = x
          BY <2>9, <3>2, <4>2
        <4> QED BY <4>2, <4>3 DEF In
      <3> QED BY <3>1, <3>2 DEF In
    <2>12. Len(t) <= Len(s)
      BY <1>1, <2>9
    <2> QED BY <2>9, <2>10, <2>11, <2>12 DEF t
  <1> QED BY <1>3, <1>4

-----------------------------------------------------------------------------
(* Sequences, by what is in them.                                          *)

(* One more at the end.                                                    *)
LEMMA ItemsAppend ==
    ASSUME NEW S, NEW s \in Seq(S), NEW e \in S
    PROVE  Append(s, e) \in Seq(S) /\ Items(Append(s, e)) = Items(s) \cup {e}
  <1>1. /\ Append(s, e) \in Seq(S) /\ DOMAIN Append(s, e) = 1 .. Len(s) + 1 /\ DOMAIN s = 1 .. Len(s)
        /\ Len(s) \in Nat /\ Append(s, e)[Len(s) + 1] = e
        /\ \A k \in 1 .. Len(s) : Append(s, e)[k] = s[k]
    OBVIOUS
  <1>2. 1 .. Len(s) + 1 = (1 .. Len(s)) \cup {Len(s) + 1}
    BY <1>1
  <1> QED BY <1>1, <1>2 DEF Items

(* One less at the front.                                                  *)
LEMMA ItemsTail ==
    ASSUME NEW S, NEW s \in Seq(S), s # <<>>
    PROVE  /\ Tail(s) \in Seq(S) /\ Head(s) \in S
           /\ Items(s) = {Head(s)} \cup Items(Tail(s))
  <1>1. /\ Tail(s) \in Seq(S) /\ DOMAIN Tail(s) = 1 .. Len(s) - 1 /\ DOMAIN s = 1 .. Len(s)
        /\ Len(s) \in Nat \ {0} /\ Head(s) = s[1] /\ Head(s) \in S
        /\ \A k \in 1 .. Len(s) - 1 : Tail(s)[k] = s[k + 1]
    OBVIOUS
  <1>2. Items(s) \subseteq {Head(s)} \cup Items(Tail(s))
    <2> SUFFICES ASSUME NEW k \in 1 .. Len(s), k # 1 PROVE s[k] \in Items(Tail(s))
      BY <1>1 DEF Items
    <2>1. k - 1 \in DOMAIN Tail(s) /\ Tail(s)[k - 1] = s[k]
      BY <1>1
    <2> QED BY <2>1 DEF Items
  <1>3. {Head(s)} \cup Items(Tail(s)) \subseteq Items(s)
    <2>1. \A k \in 1 .. Len(s) - 1 : k + 1 \in DOMAIN s
      BY <1>1
    <2>2. 1 \in DOMAIN s
      BY <1>1
    <2> QED BY <1>1, <2>1, <2>2 DEF Items
  <1> QED BY <1>1, <1>2, <1>3

-----------------------------------------------------------------------------
(* Sums of amounts.                                                        *)

(* The units of one amount.                                                *)
LEMMA OneAmount ==
    ASSUME NEW k, NEW x \in Int
    PROVE  /\ IsFiniteSet({k} \X (1 .. x))
           /\ Cardinality({k} \X (1 .. x)) = IF x > 0 THEN x ELSE 0
  <1>1. IsFiniteSet(1 .. x) /\ Cardinality(1 .. x) = IF 1 > x THEN 0 ELSE x - 1 + 1
    BY FS_Interval
  <1>2. IsFiniteSet({k}) /\ Cardinality({k}) = 1
    BY FS_Singleton
  <1>3. /\ IsFiniteSet({k} \X (1 .. x))
        /\ Cardinality({k} \X (1 .. x)) = Cardinality({k}) * Cardinality(1 .. x)
    BY <1>1, <1>2, FS_Product
  <1>4. Cardinality(1 .. x) = IF x > 0 THEN x ELSE 0
    BY <1>1
  <1> QED BY <1>2, <1>3, <1>4

(* One amount more.                                                        *)
LEMMA SumOneMore ==
    ASSUME NEW f, NEW g, NEW k, k \notin DOMAIN f, DOMAIN g = DOMAIN f \cup {k},
           \A j \in DOMAIN f : g[j] = f[j], g[k] \in Int, IsFiniteSet(Units(f))
    PROVE  /\ IsFiniteSet(Units(g))
           /\ Sum(g) = Sum(f) + IF g[k] > 0 THEN g[k] ELSE 0
  <1> DEFINE K == {k} \X (1 .. g[k])
  <1>1. Units(g) = Units(f) \cup K
    <2>1. \A u : u \in Units(g) <=> \E j \in DOMAIN g : u \in {j} \X (1 .. g[j])
      BY DEF Units
    <2>2. \A u : u \in Units(f) <=> \E j \in DOMAIN f : u \in {j} \X (1 .. f[j])
      BY DEF Units
    <2>3. \A u : u \in Units(g) <=> u \in Units(f) \/ u \in K
      BY <2>1, <2>2
    <2> QED BY <2>3
  <1>2. Units(f) \cap K = {}
    <2>1. \A u \in Units(f) : u[1] \in DOMAIN f
      BY DEF Units
    <2>2. \A u \in K : u[1] = k
      OBVIOUS
    <2> QED BY <2>1, <2>2
  <1>3. IsFiniteSet(K) /\ Cardinality(K) = IF g[k] > 0 THEN g[k] ELSE 0
    BY OneAmount
  <1> HIDE DEF K
  <1>4. /\ IsFiniteSet(Units(f) \cup K)
        /\ Cardinality(Units(f) \cup K)
             = Cardinality(Units(f)) + Cardinality(K) - Cardinality(Units(f) \cap K)
    BY <1>3, FS_Union
  <1>5. Cardinality(Units(f) \cap K) = 0
    BY <1>2, FS_EmptySet
  <1>6. Cardinality(Units(f)) \in Nat /\ Cardinality(K) \in Nat
    BY <1>3, FS_CardinalityType
  <1>7. Cardinality(Units(g)) = Cardinality(Units(f)) + Cardinality(K)
    BY <1>1, <1>4, <1>5, <1>6
  <1> QED BY <1>1, <1>3, <1>4, <1>7 DEF Sum

(* One amount less.                                                        *)
LEMMA SumOneLess ==
    ASSUME NEW f, NEW g, NEW k, k \notin DOMAIN f, DOMAIN g = DOMAIN f \cup {k},
           \A j \in DOMAIN f : g[j] = f[j], g[k] \in Int, IsFiniteSet(Units(g))
    PROVE  /\ IsFiniteSet(Units(f))
           /\ Sum(g) = Sum(f) + IF g[k] > 0 THEN g[k] ELSE 0
  <1>1. Units(f) \subseteq Units(g)
    BY DEF Units
  <1>2. IsFiniteSet(Units(f))
    BY <1>1, FS_Subset
  <1> QED BY <1>2, SumOneMore

(* A packet enters the stream, and another leaves it.                      *)
LEMMA SumAppend ==
    ASSUME NEW s \in Seq(Int), NEW x \in Int, IsFiniteSet(Units(s))
    PROVE  /\ IsFiniteSet(Units(Append(s, x)))
           /\ Sum(Append(s, x)) = Sum(s) + IF x > 0 THEN x ELSE 0
  <1> DEFINE t == Append(s, x)
             k == Len(s) + 1
  <1>1. /\ DOMAIN s = 1 .. Len(s) /\ DOMAIN t = 1 .. Len(s) + 1 /\ t[k] = x
        /\ \A j \in 1 .. Len(s) : t[j] = s[j]
        /\ Len(s) \in Nat
    OBVIOUS
  <1>2. k \notin DOMAIN s /\ DOMAIN t = DOMAIN s \cup {k}
    BY <1>1
  <1> HIDE DEF t, k
  <1>3. IsFiniteSet(Units(t)) /\ Sum(t) = Sum(s) + IF t[k] > 0 THEN t[k] ELSE 0
    BY <1>1, <1>2, SumOneMore
  <1> QED BY <1>1, <1>3 DEF t

(* The first amount goes.                                                  *)
LEMMA SumTail ==
    ASSUME NEW s \in Seq(Int), s # <<>>, IsFiniteSet(Units(s))
    PROVE  /\ IsFiniteSet(Units(Tail(s)))
           /\ Sum(s) = Sum(Tail(s)) + IF Head(s) > 0 THEN Head(s) ELSE 0
  <1> DEFINE n == Len(s)
             t == Tail(s)
             f == [j \in 2 .. n |-> s[j]]
  <1>1. /\ n \in Nat \ {0} /\ DOMAIN s = 1 .. n /\ Head(s) = s[1] /\ s[1] \in Int
        /\ DOMAIN t = 1 .. n - 1 /\ \A j \in 1 .. n - 1 : t[j] = s[j + 1]
    <2>1. Len(s) \in Nat /\ Len(s) # 0
      OBVIOUS
    <2>2. 1 \in 1 .. Len(s)
      BY <2>1
    <2> QED BY <2>1, <2>2
  <1> HIDE DEF n
  <1>2. 1 \notin DOMAIN f /\ DOMAIN s = DOMAIN f \cup {1} /\ \A j \in DOMAIN f : s[j] = f[j]
    BY <1>1
  <1>3. IsFiniteSet(Units(f)) /\ Sum(s) = Sum(f) + IF s[1] > 0 THEN s[1] ELSE 0
    BY <1>1, <1>2, SumOneLess
  <1> HIDE DEF t
  <1>4. ExistsBijection(Units(f), Units(t))
    <2>1. \A u : u \in Units(t) <=> \E j \in 1 .. n - 1 : u \in {j} \X (1 .. t[j])
      BY <1>1 DEF Units
    <2>2. \A u : u \in Units(f) <=> \E j \in 2 .. n : u \in {j} \X (1 .. s[j])
      BY DEF Units
    <2> DEFINE b == [u \in Units(f) |-> <<u[1] - 1, u[2]>>]
    <2>3. \A u \in Units(f) : u[1] \in 2 .. n /\ u[2] \in 1 .. s[u[1]] /\ u = <<u[1], u[2]>>
      BY <2>2
    <2>4. ASSUME NEW u \in Units(f) PROVE <<u[1] - 1, u[2]>> \in Units(t)
      <3> DEFINE j == u[1]
      <3>1. j \in 2 .. n
        BY <2>3
      <3> HIDE DEF j
      <3>2. j - 1 \in 1 .. n - 1 /\ (j - 1) + 1 = j
        BY <1>1, <3>1
      <3>3. t[j - 1] = s[(j - 1) + 1]
        BY <1>1, <3>2
      <3>4. u[1] - 1 \in 1 .. n - 1 /\ t[u[1] - 1] = s[u[1]]
        BY <3>2, <3>3 DEF j
      <3> QED BY <2>1, <2>3, <3>4
    <2>5. b \in [Units(f) -> Units(t)]
      BY <2>4
    <2>6. ASSUME NEW u \in Units(f), NEW v \in Units(f), b[u] = b[v] PROVE u = v
      <3>1. u[1] - 1 = v[1] - 1 /\ u[2] = v[2]
        BY <2>6
      <3>2. u[1] \in Int /\ v[1] \in Int
        BY <2>3
      <3>3. u[1] = v[1]
        BY <3>1, <3>2
      <3> QED BY <2>3, <3>1, <3>3
    <2>7. ASSUME NEW v \in Units(t) PROVE \E u \in Units(f) : b[u] = v
      <3>1. PICK j \in 1 .. n - 1 : v \in {j} \X (1 .. t[j])
        BY <2>1
      <3>2. j + 1 \in 2 .. n /\ t[j] = s[j + 1] /\ (j + 1) - 1 = j /\ v = <<j, v[2]>>
            /\ v[2] \in 1 .. t[j]
        BY <1>1, <3>1
      <3>3. <<j + 1, v[2]>> \in Units(f)
        BY <2>2, <3>2
      <3>4. b[<<j + 1, v[2]>>] = <<(j + 1) - 1, v[2]>>
        BY <3>3
      <3> QED BY <3>2, <3>3, <3>4
    <2> HIDE DEF b
    <2>8. b \in Bijection(Units(f), Units(t))
      BY <2>5, <2>6, <2>7 DEF Bijection, Injection, Surjection, IsInjective
    <2> QED BY <2>8 DEF ExistsBijection
  <1>5. IsFiniteSet(Units(t)) /\ Cardinality(Units(t)) = Cardinality(Units(f))
    BY <1>3, <1>4, FS_Bijection
  <1> QED BY <1>1, <1>3, <1>5 DEF Sum, t
=============================================================================
