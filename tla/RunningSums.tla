---------------------------- MODULE RunningSums ----------------------------
(***************************************************************************)
(* Sums over 1..n without induction.  IsSum(d, n, t) says that t is the    *)
(* sum of d[1], ..., d[n] by exhibiting the running sums; that these grow  *)
(* is part of the definition, so a summand is at most the sum.  The lemmas *)
(* say how the sum follows a change of the summands, which is all that a   *)
(* proof about a byte counter needs.                                       *)
(***************************************************************************)
EXTENDS Integers, TLAPS

Running(cum, d, n, t) ==
    /\ cum \in [0..n -> Nat]
    /\ cum[0] = 0 /\ cum[n] = t
    /\ \A i \in 1..n : d[i] \in Nat /\ cum[i] = cum[i - 1] + d[i]
    /\ \A i, j \in 0..n : i <= j => cum[i] <= cum[j]

IsSum(d, n, t) == \E cum : Running(cum, d, n, t)

\* The empty sum is 0.
LEMMA SumEmpty == ASSUME NEW d PROVE IsSum(d, 0, 0)
<1> DEFINE cum == [i \in 0..0 |-> 0]
<1>1. Running(cum, d, 0, 0)
  BY DEF Running
<1> QED  BY <1>1 DEF IsSum

\* A sum of zeros is 0.
LEMMA SumZeros ==
  ASSUME NEW n \in Nat, NEW d, \A i \in 1..n : d[i] = 0
  PROVE  IsSum(d, n, 0)
<1> DEFINE cum == [i \in 0..n |-> 0]
<1>1. Running(cum, d, n, 0)
  BY DEF Running
<1> QED  BY <1>1 DEF IsSum

\* The sum is a natural number and at least any summand.
LEMMA SumBounds ==
  ASSUME NEW n \in Nat, NEW d, NEW t, IsSum(d, n, t)
  PROVE  t \in Nat /\ \A i \in 1..n : d[i] <= t
<1>1. PICK cum : Running(cum, d, n, t)
  BY DEF IsSum
<1>2. t \in Nat
  BY <1>1 DEF Running
<1>3. ASSUME NEW i \in 1..n PROVE d[i] <= t
  <2>1. i - 1 \in 0..n /\ i \in 0..n /\ n \in 0..n
    OBVIOUS
  <2>2. cum[i] = cum[i - 1] + d[i] /\ cum[i] <= cum[n] /\ cum[i - 1] >= 0
    BY <1>1, <2>1 DEF Running
  <2> QED  BY <1>1, <2>1, <2>2 DEF Running
<1> QED  BY <1>2, <1>3

\* The sum depends on the summands only.
LEMMA SumSame ==
  ASSUME NEW n \in Nat, NEW d, NEW c, NEW t, IsSum(d, n, t),
         \A i \in 1..n : c[i] = d[i]
  PROVE  IsSum(c, n, t)
<1>1. PICK cum : Running(cum, d, n, t)
  BY DEF IsSum
<1>2. Running(cum, c, n, t)
  BY <1>1 DEF Running
<1> QED  BY <1>2 DEF IsSum

\* One more summand at the end.
LEMMA SumExtend ==
  ASSUME NEW n \in Nat, NEW d, NEW c, NEW t, IsSum(d, n, t),
         \A i \in 1..n : c[i] = d[i], c[n + 1] \in Nat
  PROVE  IsSum(c, n + 1, t + c[n + 1])
<1>1. PICK cum : Running(cum, d, n, t)
  BY DEF IsSum
<1> DEFINE new == [i \in 0..(n + 1) |-> IF i <= n THEN cum[i] ELSE t + c[n + 1]]
<1>2. t \in Nat
  BY <1>1 DEF Running
<1>3. new \in [0..(n + 1) -> Nat] /\ new[0] = 0 /\ new[n + 1] = t + c[n + 1]
  BY <1>1, <1>2 DEF Running
<1>4. ASSUME NEW i \in 1..(n + 1) PROVE c[i] \in Nat /\ new[i] = new[i - 1] + c[i]
  <2>1. CASE i <= n
    <3>1. i \in 1..n /\ new[i] = cum[i] /\ new[i - 1] = cum[i - 1]
      BY <2>1
    <3> QED  BY <1>1, <3>1 DEF Running
  <2>2. CASE i = n + 1
    <3>1. new[i] = t + c[i] /\ new[i - 1] = cum[n] /\ cum[n] = t
      BY <1>1, <2>2 DEF Running
    <3> QED  BY <2>2, <3>1
  <2> QED  BY <2>1, <2>2
<1>5. ASSUME NEW i \in 0..(n + 1), NEW j \in 0..(n + 1), i <= j PROVE new[i] <= new[j]
  <2>1. CASE j <= n
    BY <1>1, <1>5, <2>1 DEF Running
  <2>2. CASE j = n + 1 /\ i <= n
    BY <1>1, <1>2, <1>5, <2>2 DEF Running
  <2>3. CASE j = n + 1 /\ i = n + 1
    BY <1>3, <2>3
  <2> QED  BY <2>1, <2>2, <2>3
<1>6. Running(new, c, n + 1, t + c[n + 1])
  <2> HIDE DEF new
  <2> QED  BY <1>3, <1>4, <1>5 DEF Running
<1> QED  BY <1>6 DEF IsSum

\* The first summand is taken away.
LEMMA SumTail ==
  ASSUME NEW n \in Nat \ {0}, NEW d, NEW c, NEW t, IsSum(d, n, t),
         \A i \in 1..(n - 1) : c[i] = d[i + 1]
  PROVE  IsSum(c, n - 1, t - d[1])
<1>1. PICK cum : Running(cum, d, n, t)
  BY DEF IsSum
<1> DEFINE new == [i \in 0..(n - 1) |-> cum[i + 1] - d[1]]
<1>2. cum[1] = d[1] /\ d[1] \in Nat
  <2>1. cum[1] = cum[1 - 1] + d[1] /\ d[1] \in Nat
    BY <1>1 DEF Running
  <2> QED  BY <1>1, <2>1 DEF Running
<1>3. new \in [0..(n - 1) -> Nat]
  <2>1. ASSUME NEW i \in 0..(n - 1) PROVE cum[i + 1] - d[1] \in Nat
    <3>1. cum[1] <= cum[i + 1] /\ cum[i + 1] \in Nat
      BY <1>1 DEF Running
    <3> QED  BY <1>2, <3>1
  <2> QED  BY <2>1
<1>4. new[0] = 0 /\ new[n - 1] = t - d[1]
  <2>1. new[0] = cum[1] - d[1] /\ new[n - 1] = cum[n] - d[1]
    OBVIOUS
  <2>2. cum[1] - d[1] = 0 /\ cum[n] = t
    BY <1>1, <1>2 DEF Running
  <2> HIDE DEF new
  <2> QED  BY <2>1, <2>2
<1>5. ASSUME NEW i \in 1..(n - 1) PROVE c[i] \in Nat /\ new[i] = new[i - 1] + c[i]
  <2>1. cum[i + 1] = cum[i] + d[i + 1] /\ cum[i] \in Nat /\ cum[i + 1] \in Nat
    <3>1. i + 1 \in 1..n /\ (i + 1) - 1 = i
      OBVIOUS
    <3> QED  BY <1>1, <3>1 DEF Running
  <2>2. new[i] = cum[i + 1] - d[1] /\ new[i - 1] = cum[i] - d[1]
    OBVIOUS
  <2>3. d[1] \in Nat /\ c[i] \in Nat /\ c[i] = d[i + 1]
    BY <1>1 DEF Running
  <2> QED  BY <2>1, <2>2, <2>3
<1>6. ASSUME NEW i \in 0..(n - 1), NEW j \in 0..(n - 1), i <= j PROVE new[i] <= new[j]
  BY <1>1, <1>6 DEF Running
<1>7. Running(new, c, n - 1, t - d[1])
  <2> HIDE DEF new
  <2> QED  BY <1>3, <1>4, <1>5, <1>6 DEF Running
<1> QED  BY <1>7 DEF IsSum

\* One summand changes.
LEMMA SumUpdate ==
  ASSUME NEW n \in Nat, NEW d, NEW c, NEW t, IsSum(d, n, t),
         NEW k \in 1..n, c[k] \in Nat,
         \A i \in 1..n : i # k => c[i] = d[i]
  PROVE  IsSum(c, n, t - d[k] + c[k])
<1>1. PICK cum : Running(cum, d, n, t)
  BY DEF IsSum
<1> DEFINE new == [i \in 0..n |-> IF i < k THEN cum[i] ELSE cum[i] - d[k] + c[k]]
<1>2. d[k] \in Nat
  BY <1>1 DEF Running
<1>3. cum[k] = cum[k - 1] + d[k] /\ cum[k - 1] \in Nat /\ k - 1 \in 0..n
  BY <1>1 DEF Running
<1>4. ASSUME NEW i \in 0..n, i >= k PROVE cum[i] \in Nat /\ cum[i] - d[k] >= cum[k - 1]
  <2>1. cum[k] <= cum[i] /\ cum[i] \in Nat /\ cum[k] \in Nat
    BY <1>1, <1>4 DEF Running
  <2> QED  BY <1>2, <1>3, <2>1
<1>5. new \in [0..n -> Nat]
  <2>1. ASSUME NEW i \in 0..n PROVE new[i] \in Nat
    <3>1. CASE i < k
      BY <1>1, <3>1 DEF Running
    <3>2. CASE i >= k
      <4>1. new[i] = cum[i] - d[k] + c[k]
        BY <3>2
      <4>2. cum[i] \in Nat /\ cum[i] - d[k] >= cum[k - 1]
        BY <1>4, <3>2
      <4> HIDE DEF new
      <4> QED  BY <1>2, <1>3, <4>1, <4>2
    <3> QED  BY <3>1, <3>2
  <2> QED  BY <2>1
<1>6. new[0] = 0 /\ new[n] = t - d[k] + c[k]
  BY <1>1 DEF Running
<1>7. ASSUME NEW i \in 1..n PROVE new[i] = new[i - 1] + c[i]
  <2>1. /\ cum[i] = cum[i - 1] + d[i] /\ cum[i] \in Nat /\ cum[i - 1] \in Nat
        /\ d[i] \in Nat /\ d[k] \in Nat
    BY <1>1 DEF Running
  <2>2. CASE i < k
    BY <2>1, <2>2
  <2>3. CASE i = k
    BY <2>1, <2>3
  <2>4. CASE i > k
    BY <2>1, <2>4
  <2> QED  BY <2>2, <2>3, <2>4
<1>8. ASSUME NEW i \in 0..n, NEW j \in 0..n, i <= j PROVE new[i] <= new[j]
  <2>1. cum[i] <= cum[j] /\ cum[i] \in Nat /\ cum[j] \in Nat
    BY <1>1, <1>8 DEF Running
  <2>2. CASE j < k
    BY <1>8, <2>1, <2>2
  <2>3. CASE i >= k
    BY <1>8, <1>2, <2>1, <2>3
  <2>4. CASE i < k /\ j >= k
    <3>1. cum[i] <= cum[k - 1]
      BY <1>1, <1>3, <2>4 DEF Running
    <3>2. cum[j] - d[k] >= cum[k - 1]
      BY <1>4, <2>4
    <3> QED  BY <1>3, <1>2, <2>1, <2>4, <3>1, <3>2
  <2> QED  BY <2>2, <2>3, <2>4
<1>9. Running(new, c, n, t - d[k] + c[k])
  <2>1. \A i \in 1..n : c[i] \in Nat
    BY <1>1 DEF Running
  <2> HIDE DEF new
  <2> QED  BY <1>5, <1>6, <1>7, <1>8, <2>1 DEF Running
<1> QED  BY <1>9 DEF IsSum
=============================================================================
