---------------------------- MODULE LengthProofs ----------------------------
(***************************************************************************)
(* What rests on lengths that add up.  Nvocmp: for any number of pages and *)
(* items, of one length or with room to spare, no item has two active      *)
(* copies, and the pages implement Store.  Codec: for any lengths of what  *)
(* varies, what the program goes on with is a whole message that says so.  *)
(***************************************************************************)
EXTENDS Nvocmp, Codec, WellFoundedInduction, FiniteSetTheorems, TLAPS

-----------------------------------------------------------------------------
(* Induction.  The theorems of the library on it take a predicate; these   *)
(* lemmas take a set, the numbers of which the predicate holds.            *)

\* Every set of natural numbers that is not empty has a least element.
LEMMA Least ==
  ASSUME NEW T, T \subseteq Nat, T # {}
  PROVE  \E x \in T : \A y \in T : x <= y
<1>1. IsWellFoundedOn(OpToRel(<, Nat), Nat)
  BY NatLessThanWellFounded
<1>2. PICK x \in T : \A y \in T : ~(<<y, x>> \in OpToRel(<, Nat))
  BY <1>1, WFMin, Zenon
<1>3. \A y \in T : ~(y < x)
  BY <1>2 DEF OpToRel
<1> QED
  BY <1>3

\* A set that has 0 and the successors up to n of what it has.
Inductive(T, n) == 0 \in T /\ \A k \in 1..n : k - 1 \in T => k \in T

\* Such a set has all numbers up to n.
LEMMA UpTo ==
  ASSUME NEW n \in Nat, NEW T, Inductive(T, n)
  PROVE  n \in T /\ \A k \in 0..n : k \in T
<1> DEFINE Bad == {k \in 0..n : k \notin T}
<1> SUFFICES ASSUME Bad # {} PROVE FALSE
  <2>1. n \in 0..n
    OBVIOUS
  <2> QED
    BY <2>1
<1>1. Bad \subseteq Nat
  OBVIOUS
<1>2. PICK k \in Bad : \A j \in Bad : k <= j
  <2> HIDE DEF Bad
  <2> QED
    BY <1>1, Least
<1>3. k \in 1..n /\ k - 1 \in 0..n /\ k - 1 \notin Bad
  BY <1>2 DEF Inductive
<1> QED
  BY <1>2, <1>3 DEF Inductive

-----------------------------------------------------------------------------
(* Sums.                                                                   *)

\* f is the sums of the first n elements of w, for every n.
Partial(f, w) ==
    /\ f \in [0..Len(w) -> Nat]
    /\ f[0] = 0
    /\ \A n \in 1..Len(w) : f[n] = f[n - 1] + w[n]

\* What a step of them adds.
LEMMA PartialStep ==
  ASSUME NEW w \in Seq(Nat), NEW f, Partial(f, w), NEW n \in 1..Len(w)
  PROVE  /\ f[n] = f[n - 1] + w[n]
         /\ f[n] \in Nat /\ f[n - 1] \in Nat /\ w[n] \in Nat
<1>1. Len(w) \in Nat /\ n \in 0..Len(w) /\ n - 1 \in 0..Len(w) /\ w[n] \in Nat
  OBVIOUS
<1> QED
  BY <1>1 DEF Partial

\* There are partial sums up to every element.
LEMMA PartialExists ==
  ASSUME NEW w \in Seq(Nat)
  PROVE  \E f : Partial(f, w)
<1> DEFINE Ok(n) == \E f \in [0..n -> Nat] :
                       f[0] = 0 /\ \A k \in 1..n : f[k] = f[k - 1] + w[k]
           T == {n \in 0..Len(w) : Ok(n)}
<1>1. Ok(0)
  <2> WITNESS [k \in 0..0 |-> 0] \in [0..0 -> Nat]
  <2> QED
    OBVIOUS
<1>2. ASSUME NEW n \in 1..Len(w), Ok(n - 1)
      PROVE  Ok(n)
  <2>1. PICK f \in [0..n - 1 -> Nat] :
           f[0] = 0 /\ \A k \in 1..n - 1 : f[k] = f[k - 1] + w[k]
    BY <1>2
  <2> DEFINE g == [k \in 0..n |-> IF k = n THEN f[n - 1] + w[n] ELSE f[k]]
  <2>2. g \in [0..n -> Nat]
    OBVIOUS
  <2>3. g[0] = 0 /\ \A k \in 1..n : g[k] = g[k - 1] + w[k]
    <3>1. ASSUME NEW k \in 1..n, k # n PROVE g[k] = g[k - 1] + w[k]
      <4>1. k \in 1..n - 1 /\ k \in 0..n /\ k - 1 \in 0..n /\ k - 1 # n
        BY <3>1
      <4> QED
        BY <2>1, <3>1, <4>1
    <3>2. n \in 0..n /\ n - 1 \in 0..n /\ n - 1 # n /\ 0 \in 0..n /\ 0 # n
      OBVIOUS
    <3> QED
      BY <2>1, <3>1, <3>2
  <2> HIDE DEF g
  <2> QED
    BY <2>2, <2>3
<1> HIDE DEF Ok
<1>3. Len(w) \in Nat /\ Inductive(T, Len(w))
  BY <1>1, <1>2 DEF Inductive
<1>4. Len(w) \in T
  <2> HIDE DEF T
  <2> QED
    BY <1>3, UpTo
<1> QED
  BY <1>4 DEF Ok, Partial

\* The total is the last of them.
LEMMA TotalIsPartial ==
  ASSUME NEW w \in Seq(Nat)
  PROVE  \E f : Partial(f, w) /\ Total(w) = f[Len(w)]
<1> DEFINE P(f) == f = [n \in 0..Len(w) |-> IF n = 0 THEN 0 ELSE f[n - 1] + w[n]]
           sum == CHOOSE f : P(f)
<1>1. PICK f : Partial(f, w)
  BY PartialExists
<1>2. P(f)
  BY <1>1 DEF Partial
<1>3. P(sum)
  BY <1>2
<1>4. Total(w) = sum[Len(w)]
  BY DEF Total
<1> DEFINE T == {n \in 0..Len(w) : sum[n] \in Nat}
<1> HIDE DEF sum
<1>5. Len(w) \in Nat /\ \A n \in 1..Len(w) : w[n] \in Nat
  OBVIOUS
<1>6. \A n \in 0..Len(w) : sum[n] \in Nat
  <2>1. sum[0] = 0 /\ \A n \in 1..Len(w) : sum[n] = sum[n - 1] + w[n]
    BY <1>3, <1>5
  <2>a. 0 \in T
    BY <2>1
  <2>b. ASSUME NEW n \in 1..Len(w), n - 1 \in T PROVE n \in T
    <3>1. sum[n - 1] \in Nat /\ w[n] \in Nat /\ sum[n] = sum[n - 1] + w[n]
      BY <1>5, <2>1, <2>b
    <3> QED
      BY <3>1
  <2>2. Inductive(T, Len(w))
    BY <2>a, <2>b DEF Inductive
  <2>3. \A n \in 0..Len(w) : n \in T
    <3> HIDE DEF T
    <3> QED
      BY <1>5, <2>2, UpTo
  <2> QED
    BY <2>3
<1>7. Partial(sum, w)
  <2>1. sum \in [0..Len(w) -> Nat]
    BY <1>3, <1>6
  <2>2. sum[0] = 0 /\ \A n \in 1..Len(w) : sum[n] = sum[n - 1] + w[n]
    BY <1>3, <1>5
  <2> QED
    BY <2>1, <2>2 DEF Partial
<1> QED
  BY <1>4, <1>7

\* Two sums, compared element by element: what is kept between the partial sums of
\* the one and of the other is kept between the totals.
LEMMA PartialIsUnique ==
  ASSUME NEW w \in Seq(Nat), NEW f, Partial(f, w)
  PROVE  Total(w) = f[Len(w)]
<1>1. PICK g : Partial(g, w) /\ Total(w) = g[Len(w)]
  BY TotalIsPartial
<1> DEFINE T == {n \in 0..Len(w) : f[n] = g[n]}
<1>2. 0 \in T
  BY <1>1 DEF Partial
<1>3. ASSUME NEW n \in 1..Len(w), n - 1 \in T PROVE n \in T
  <2>1. f[n - 1] = g[n - 1] /\ n \in 0..Len(w)
    BY <1>3
  <2> QED
    BY <1>1, <2>1, PartialStep
<1>4. Len(w) \in Nat /\ Inductive(T, Len(w))
  BY <1>2, <1>3 DEF Inductive
<1>5. Len(w) \in T
  <2> HIDE DEF T
  <2> QED
    BY <1>4, UpTo
<1> QED
  BY <1>1, <1>5

\* The total is a number, and of no elements it is 0.
LEMMA TotalType ==
  ASSUME NEW w \in Seq(Nat)
  PROVE  Total(w) \in Nat /\ (w = <<>> => Total(w) = 0)
  BY TotalIsPartial DEF Partial

\* One more element adds itself.
LEMMA TotalAppend ==
  ASSUME NEW w \in Seq(Nat), NEW x \in Nat
  PROVE  Total(Append(w, x)) = Total(w) + x
<1> DEFINE v == Append(w, x)
<1>1. v \in Seq(Nat) /\ Len(v) = Len(w) + 1 /\ v[Len(v)] = x
      /\ \A n \in 1..Len(w) : v[n] = w[n]
  OBVIOUS
<1> HIDE DEF v
<1>2. PICK f : Partial(f, v) /\ Total(v) = f[Len(v)]
  BY <1>1, TotalIsPartial
<1> DEFINE g == [n \in 0..Len(w) |-> f[n]]
<1>3. Partial(g, w)
  BY <1>1, <1>2 DEF Partial
<1>4. Total(w) = f[Len(w)]
  BY <1>3, PartialIsUnique
<1>5. f[Len(v)] = f[Len(w)] + x
  <2>1. Len(v) \in 1..Len(v) /\ Len(v) - 1 = Len(w)
    BY <1>1
  <2>2. f[Len(v)] = f[Len(v) - 1] + v[Len(v)]
    BY <1>1, <1>2, <2>1, PartialStep
  <2> QED
    BY <1>1, <2>1, <2>2
<1> QED
  BY <1>2, <1>4, <1>5 DEF v

\* The arithmetic of a step of two sums, before, at and after an element where they differ.
LEMMA CompareStep ==
  \A a, b, v, w, d \in Nat : \A n, j \in Int :
     /\ v <= w /\ (n = j => v + d <= w)
     /\ a + (IF n - 1 < j THEN 0 ELSE d) <= b
     => a + v + (IF n < j THEN 0 ELSE d) <= b + w
  OBVIOUS

LEMMA Swap ==
  ASSUME NEW a \in Nat, NEW x \in Nat, NEW y \in Nat
  PROVE  a + x + y = a + y + x
  OBVIOUS

\* The sum of what is nowhere larger, and somewhere smaller by d, is smaller by d at least.
LEMMA TotalCompare ==
  ASSUME NEW v \in Seq(Nat), NEW w \in Seq(Nat), Len(v) = Len(w),
         \A n \in 1..Len(w) : v[n] <= w[n],
         NEW j \in 1..Len(w), NEW d \in Nat, v[j] + d <= w[j]
  PROVE  Total(v) + d <= Total(w)
<1>1. PICK f : Partial(f, v) /\ Total(v) = f[Len(v)]
  BY TotalIsPartial
<1>2. PICK g : Partial(g, w) /\ Total(w) = g[Len(w)]
  BY TotalIsPartial
<1> DEFINE T == {n \in 0..Len(w) : f[n] + (IF n < j THEN 0 ELSE d) <= g[n]}
<1>3. 0 \in T
  BY <1>1, <1>2 DEF Partial
<1>4. ASSUME NEW n \in 1..Len(w), n - 1 \in T PROVE n \in T
  <2>1. /\ f[n] = f[n - 1] + v[n] /\ g[n] = g[n - 1] + w[n] /\ v[n] <= w[n]
        /\ f[n] \in Nat /\ g[n] \in Nat /\ f[n - 1] \in Nat /\ g[n - 1] \in Nat
        /\ v[n] \in Nat /\ w[n] \in Nat /\ d \in Nat
    <3>1. f[n] = f[n - 1] + v[n] /\ f[n] \in Nat /\ f[n - 1] \in Nat /\ v[n] \in Nat
      BY <1>1, PartialStep
    <3>2. g[n] = g[n - 1] + w[n] /\ g[n] \in Nat /\ g[n - 1] \in Nat /\ w[n] \in Nat
      BY <1>2, PartialStep
    <3> QED
      BY <3>1, <3>2
  <2>4. n \in 0..Len(w) /\ n \in Int /\ j \in Int
      /\ f[n - 1] + (IF n - 1 < j THEN 0 ELSE d) <= g[n - 1]
    BY <1>4
  <2>5. f[n] + (IF n < j THEN 0 ELSE d) <= g[n]
    <3>1. n = j => v[n] + d <= w[n]
      OBVIOUS
    <3>2. f[n - 1] + v[n] + (IF n < j THEN 0 ELSE d) <= g[n - 1] + w[n]
      BY <2>1, <2>4, <3>1, CompareStep, Zenon
    <3> QED
      BY <2>1, <3>2, Zenon
  <2> QED
    BY <2>4, <2>5
<1>5. Len(w) \in Nat /\ Inductive(T, Len(w))
  BY <1>3, <1>4 DEF Inductive
<1>6. Len(w) \in T
  <2> HIDE DEF T
  <2> QED
    BY <1>5, UpTo
<1> QED
  BY <1>1, <1>2, <1>6

\* The sum of what is nowhere larger is not larger.
LEMMA TotalMonotone ==
  ASSUME NEW v \in Seq(Nat), NEW w \in Seq(Nat), Len(v) = Len(w),
         \A n \in 1..Len(w) : v[n] <= w[n]
  PROVE  Total(v) <= Total(w)
<1>1. CASE Len(w) = 0
  <2>1. v = <<>> /\ w = <<>>
    BY <1>1
  <2>2. Total(v) = 0 /\ Total(w) = 0
    BY <2>1, TotalType
  <2> QED
    BY <2>2
<1>2. CASE Len(w) # 0
  <2>1. 1 \in 1..Len(w) /\ v[1] + 0 <= w[1]
    BY <1>2
  <2>2. Total(v) + 0 <= Total(w)
    BY <2>1, TotalCompare
  <2> QED
    BY <2>2, TotalType
<1> QED
  BY <1>1, <1>2

\* No element is larger than the sum.
LEMMA TotalMember ==
  ASSUME NEW w \in Seq(Nat), NEW j \in 1..Len(w)
  PROVE  w[j] <= Total(w)
<1> DEFINE v == [n \in 1..Len(w) |-> IF n = j THEN 0 ELSE w[n]]
<1>1. v \in Seq(Nat) /\ Len(v) = Len(w)
  OBVIOUS
<1>2. (\A n \in 1..Len(w) : v[n] <= w[n]) /\ v[j] + w[j] <= w[j] /\ w[j] \in Nat
  OBVIOUS
<1> HIDE DEF v
<1>3. Total(v) + w[j] <= Total(w)
  BY <1>1, <1>2, TotalCompare
<1> QED
  BY <1>1, <1>2, <1>3, TotalType

\* An element that becomes another one changes the sum by the difference.
LEMMA TotalExcept ==
  ASSUME NEW v \in Seq(Nat), NEW w \in Seq(Nat), Len(v) = Len(w), NEW j \in 1..Len(w),
         \A n \in 1..Len(w) : n # j => v[n] = w[n]
  PROVE  Total(v) + w[j] = Total(w) + v[j]
<1>1. PICK f : Partial(f, v) /\ Total(v) = f[Len(v)]
  BY TotalIsPartial
<1>2. PICK g : Partial(g, w) /\ Total(w) = g[Len(w)]
  BY TotalIsPartial
<1> DEFINE T == {n \in 0..Len(w) : (n < j => f[n] = g[n]) /\ (~(n < j) => f[n] + w[j] = g[n] + v[j])}
<1>3. 0 \in T
  BY <1>1, <1>2 DEF Partial
<1>4. ASSUME NEW n \in 1..Len(w), n - 1 \in T PROVE n \in T
  <2>1. /\ f[n] = f[n - 1] + v[n] /\ g[n] = g[n - 1] + w[n] /\ (n # j => v[n] = w[n])
        /\ f[n] \in Nat /\ g[n] \in Nat /\ f[n - 1] \in Nat /\ g[n - 1] \in Nat
        /\ v[n] \in Nat /\ w[n] \in Nat /\ v[j] \in Nat /\ w[j] \in Nat
    <3>1. v[j] \in Nat /\ w[j] \in Nat
      OBVIOUS
    <3>2. f[n] = f[n - 1] + v[n] /\ f[n] \in Nat /\ f[n - 1] \in Nat /\ v[n] \in Nat
      BY <1>1, PartialStep
    <3>3. g[n] = g[n - 1] + w[n] /\ g[n] \in Nat /\ g[n - 1] \in Nat /\ w[n] \in Nat
      BY <1>2, PartialStep
    <3> QED
      BY <3>1, <3>2, <3>3
  <2>4. n \in 0..Len(w) /\ n \in Int /\ j \in Int
      /\ (n - 1 < j => f[n - 1] = g[n - 1])
       /\ (~(n - 1 < j) => f[n - 1] + w[j] = g[n - 1] + v[j])
    BY <1>4
  <2>5. (n < j => f[n] = g[n]) /\ (~(n < j) => f[n] + w[j] = g[n] + v[j])
    <3>1. (n = j => v[n] = v[j] /\ w[n] = w[j]) /\ (n # j => v[n] = w[n])
      OBVIOUS
    <3>2. /\ n < j => f[n - 1] + v[n] = g[n - 1] + w[n]
          /\ ~(n < j) => f[n - 1] + v[n] + w[j] = g[n - 1] + w[n] + v[j]
      <4>1. CASE n < j
        <5>1. n - 1 < j /\ n # j /\ ~(~(n < j))
          BY <2>4, <4>1
        <5> QED
          BY <2>4, <3>1, <5>1, Zenon
      <4>2. CASE n = j
        <5>1. n - 1 < j /\ ~(n < j)
          BY <2>4, <4>2
        <5>3. f[n - 1] = g[n - 1]
          BY <2>4, <5>1, Zenon
        <5>4. f[n - 1] + v[n] + w[j] = f[n - 1] + w[j] + v[n]
          <6>1. f[n - 1] \in Nat /\ v[n] \in Nat /\ w[j] \in Nat
            BY <2>1, Zenon
          <6> QED
            BY <6>1, Swap, Zenon
        <5>2. f[n - 1] + v[n] + w[j] = g[n - 1] + w[j] + v[n]
          BY <5>3, <5>4, Zenon
        <5> QED
          BY <3>1, <4>2, <5>1, <5>2, Zenon
      <4>3. CASE n > j
        <5>1. ~(n - 1 < j) /\ ~(n < j) /\ n # j
          BY <2>4, <4>3
        <5>3. f[n - 1] + w[j] = g[n - 1] + v[j]
          BY <2>4, <5>1, Zenon
        <5>2. f[n - 1] + v[n] + w[j] = g[n - 1] + v[n] + v[j]
          <6>2. f[n - 1] + v[n] + w[j] = f[n - 1] + w[j] + v[n]
            <7>1. f[n - 1] \in Nat /\ v[n] \in Nat /\ w[j] \in Nat
              BY <2>1, Zenon
            <7> QED
              BY <7>1, Swap, Zenon
          <6>3. g[n - 1] + v[n] + v[j] = g[n - 1] + v[j] + v[n]
            <7>1. g[n - 1] \in Nat /\ v[n] \in Nat /\ v[j] \in Nat
              BY <2>1, Zenon
            <7> QED
              BY <7>1, Swap, Zenon
          <6> QED
            BY <5>3, <6>2, <6>3, Zenon
        <5> QED
          BY <3>1, <5>1, <5>2, Zenon
      <4> QED
        BY <2>4, <4>1, <4>2, <4>3
    <3> QED
      BY <2>1, <3>2, Zenon
  <2> QED
    BY <2>4, <2>5
<1>5. Len(w) \in Nat /\ Inductive(T, Len(w))
  BY <1>3, <1>4 DEF Inductive
<1>6. Len(w) \in T
  <2> HIDE DEF T
  <2> QED
    BY <1>5, UpTo
<1> QED
  BY <1>1, <1>2, <1>6
-----------------------------------------------------------------------------
(* Pages: what is on them, and what is gathered from them.                 *)

Weights(items, but) ==
    [i \in DOMAIN items |-> IF Active(items[i]) /\ items[i].id # but
                            THEN items[i].size ELSE 0]

Lengths(items) == [i \in DOMAIN items |-> items[i].size]

\* What is summed up is a sequence of numbers.
LEMMA WeightsType ==
  ASSUME NEW s \in Seq(Items), NEW but
  PROVE  /\ Weights(s, but) \in Seq(Nat) /\ Len(Weights(s, but)) = Len(s)
         /\ Lengths(s) \in Seq(Nat) /\ Len(Lengths(s)) = Len(s)
         /\ \A i \in 1..Len(s) :
              /\ s[i] \in Items /\ s[i].size \in Nat
              /\ Weights(s, but)[i] = IF Active(s[i]) /\ s[i].id # but THEN s[i].size ELSE 0
              /\ Lengths(s)[i] = s[i].size
<1>1. Len(s) \in Nat /\ DOMAIN s = 1..Len(s) /\ \A i \in 1..Len(s) : s[i] \in Items
  OBVIOUS
<1>2. \A i \in 1..Len(s) : s[i].size \in Nat
  BY <1>1 DEF Items
<1>3. \A i \in 1..Len(s) : (IF Active(s[i]) /\ s[i].id # but THEN s[i].size ELSE 0) \in Nat
  BY <1>2
<1> QED
  BY <1>1, <1>2, <1>3 DEF Weights, Lengths

\* The weight of one item.
LEMMA WeighsBut ==
  ASSUME NEW s \in Seq(Items), NEW i \in 1..Len(s), NEW but
  PROVE  Weights(s, but)[i] = IF Active(s[i]) /\ s[i].id # but THEN s[i].size ELSE 0
<1>1. i \in DOMAIN s
  OBVIOUS
<1> QED
  BY <1>1 DEF Weights

\* A sequence that is one longer and begins alike is the other one with its last element.
LEMMA AppendIs ==
  ASSUME NEW D, NEW s \in Seq(D), NEW t \in Seq(D), Len(t) = Len(s) + 1,
         \A i \in 1..Len(s) : t[i] = s[i]
  PROVE  t = Append(s, t[Len(t)])
<1>1. t[Len(t)] \in D
  OBVIOUS
<1> DEFINE u == Append(s, t[Len(t)])
<1>2. u \in Seq(D) /\ Len(u) = Len(t) /\ u[Len(t)] = t[Len(t)] /\ \A i \in 1..Len(s) : u[i] = t[i]
  BY <1>1
<1> HIDE DEF u
<1>3. \A i \in 1..Len(t) : u[i] = t[i]
  BY <1>2
<1>4. u = t
  BY <1>2, <1>3
<1> QED
  BY <1>4 DEF u

\* One more item weighs what it weighs.
LEMMA WeightsAppend ==
  ASSUME NEW s \in Seq(Items), NEW x \in Items, NEW but
  PROVE  /\ Total(Weights(Append(s, x), but)) =
              Total(Weights(s, but)) + (IF Active(x) /\ x.id # but THEN x.size ELSE 0)
         /\ Total(Lengths(Append(s, x))) = Total(Lengths(s)) + x.size
<1> DEFINE t == Append(s, x)
           n == Len(t)
<1>1. t \in Seq(Items) /\ n = Len(s) + 1 /\ t[n] = x /\ Len(s) \in Nat /\ n \in 1..Len(t)
      /\ \A i \in 1..Len(s) : t[i] = s[i] /\ i \in 1..Len(t)
  OBVIOUS
<1> HIDE DEF t
<1>10. /\ Weights(t, but) \in Seq(Nat) /\ Len(Weights(t, but)) = Len(t)
       /\ Lengths(t) \in Seq(Nat) /\ Len(Lengths(t)) = Len(t)
       /\ \A i \in 1..Len(t) :
            /\ t[i] \in Items /\ t[i].size \in Nat
            /\ Weights(t, but)[i] = IF Active(t[i]) /\ t[i].id # but THEN t[i].size ELSE 0
            /\ Lengths(t)[i] = t[i].size
  BY <1>1, WeightsType
<1>2. /\ Weights(t, but) \in Seq(Nat) /\ Len(Weights(t, but)) = n
      /\ Weights(t, but)[n] = IF Active(x) /\ x.id # but THEN x.size ELSE 0
      /\ Lengths(t) \in Seq(Nat) /\ Len(Lengths(t)) = n /\ Lengths(t)[n] = x.size
      /\ x.size \in Nat
  BY <1>1, <1>10
<1>3. /\ Weights(s, but) \in Seq(Nat) /\ Len(Weights(s, but)) = Len(s)
      /\ Lengths(s) \in Seq(Nat) /\ Len(Lengths(s)) = Len(s)
  BY WeightsType
<1>4. ASSUME NEW i \in 1..Len(s)
      PROVE  Weights(t, but)[i] = Weights(s, but)[i] /\ Lengths(t)[i] = Lengths(s)[i]
  <2>1. /\ Weights(t, but)[i] = IF Active(t[i]) /\ t[i].id # but THEN t[i].size ELSE 0
        /\ Lengths(t)[i] = t[i].size
    BY <1>1, <1>10
  <2>2. /\ Weights(s, but)[i] = IF Active(s[i]) /\ s[i].id # but THEN s[i].size ELSE 0
        /\ Lengths(s)[i] = s[i].size
    BY WeightsType
  <2> QED
    BY <1>1, <2>1, <2>2, Zenon
<1>5. Weights(t, but) = Append(Weights(s, but), Weights(t, but)[n])
  <2> HIDE DEF n
  <2>1. \A i \in 1..Len(Weights(s, but)) : Weights(t, but)[i] = Weights(s, but)[i]
    BY <1>3, <1>4
  <2> QED
    BY <1>1, <1>2, <1>3, <2>1, AppendIs
<1>6. Lengths(t) = Append(Lengths(s), Lengths(t)[n])
  <2> HIDE DEF n
  <2>1. \A i \in 1..Len(Lengths(s)) : Lengths(t)[i] = Lengths(s)[i]
    BY <1>3, <1>4
  <2> QED
    BY <1>1, <1>2, <1>3, <2>1, AppendIs
<1>7. Weights(t, but)[n] \in Nat /\ Lengths(t)[n] \in Nat
  BY <1>2
<1>8. /\ Total(Weights(t, but)) = Total(Weights(s, but)) + Weights(t, but)[n]
      /\ Total(Lengths(t)) = Total(Lengths(s)) + Lengths(t)[n]
  <2> HIDE DEF n
  <2>1. Total(Append(Weights(s, but), Weights(t, but)[n])) = Total(Weights(s, but)) + Weights(t, but)[n]
    BY <1>3, <1>7, TotalAppend
  <2>2. Total(Append(Lengths(s), Lengths(t)[n])) = Total(Lengths(s)) + Lengths(t)[n]
    BY <1>3, <1>7, TotalAppend
  <2> QED
    BY <1>5, <1>6, <2>1, <2>2, Zenon
<1> QED
  BY <1>2, <1>8, Zenon DEF t

\* The items of s that are gathered from its first n ones, for every n.
Gathering(f, s) ==
    /\ f \in [0..Len(s) -> Seq(Items)]
    /\ f[0] = <<>>
    /\ \A n \in 1..Len(s) :
         f[n] = IF Active(s[n]) THEN Append(f[n - 1], s[n]) ELSE f[n - 1]

\* What a step of it adds.
LEMMA GatheringStep ==
  ASSUME NEW s \in Seq(Items), NEW f, Gathering(f, s), NEW n \in 1..Len(s)
  PROVE  /\ f[n] = IF Active(s[n]) THEN Append(f[n - 1], s[n]) ELSE f[n - 1]
         /\ f[n] \in Seq(Items) /\ f[n - 1] \in Seq(Items) /\ s[n] \in Items
<1>1. Len(s) \in Nat /\ n \in 0..Len(s) /\ n - 1 \in 0..Len(s) /\ s[n] \in Items
  OBVIOUS
<1> QED
  BY <1>1 DEF Gathering

\* There is such a function.
LEMMA GatheringExists ==
  ASSUME NEW s \in Seq(Items)
  PROVE  \E f : Gathering(f, s)
<1> DEFINE Next1(f, n) == IF Active(s[n]) THEN Append(f[n - 1], s[n]) ELSE f[n - 1]
           Ok(n) == \E f \in [0..n -> Seq(Items)] :
                       f[0] = <<>> /\ \A k \in 1..n : f[k] = Next1(f, k)
           T == {n \in 0..Len(s) : Ok(n)}
<1>1. Ok(0)
  <2> WITNESS [k \in 0..0 |-> <<>>] \in [0..0 -> Seq(Items)]
  <2> QED
    OBVIOUS
<1>2. ASSUME NEW n \in 1..Len(s), Ok(n - 1)
      PROVE  Ok(n)
  <2>1. PICK f \in [0..n - 1 -> Seq(Items)] :
           f[0] = <<>> /\ \A k \in 1..n - 1 : f[k] = Next1(f, k)
    BY <1>2
  <2> DEFINE g == [k \in 0..n |-> IF k = n THEN Next1(f, n) ELSE f[k]]
  <2>2. g \in [0..n -> Seq(Items)]
    OBVIOUS
  <2>3. g[0] = <<>>
    BY <2>1
  <2>4. ASSUME NEW k \in 1..n PROVE g[k] = Next1(g, k)
    <3>1. k \in 0..n /\ k - 1 \in 0..n /\ k - 1 # n /\ g[k - 1] = f[k - 1]
      OBVIOUS
    <3>2. CASE k = n
      BY <3>1, <3>2
    <3>3. CASE k # n
      <4>1. g[k] = f[k] /\ f[k] = Next1(f, k)
        BY <2>1, <3>1, <3>3
      <4> QED
        BY <3>1, <4>1
    <3> QED
      BY <3>2, <3>3
  <2> HIDE DEF g
  <2> QED
    BY <2>2, <2>3, <2>4
<1> HIDE DEF Ok
<1>3. Len(s) \in Nat /\ Inductive(T, Len(s))
  BY <1>1, <1>2 DEF Inductive
<1>4. Len(s) \in T
  <2> HIDE DEF T
  <2> QED
    BY <1>3, UpTo
<1> QED
  BY <1>4 DEF Ok, Gathering

\* What is gathered is the last of it.
LEMMA GatheredIsGathering ==
  ASSUME NEW page, page.items \in Seq(Items)
  PROVE  \E f : Gathering(f, page.items) /\ Gathered(page) = f[Len(page.items)]
<1> DEFINE s == page.items
           P(f) == f = [n \in 0..Len(s) |->
                          IF n = 0 THEN <<>>
                          ELSE IF Active(s[n]) THEN Append(f[n - 1], s[n]) ELSE f[n - 1]]
           kept == CHOOSE f : P(f)
<1>1. PICK f : Gathering(f, s)
  BY GatheringExists
<1>2. P(f)
  <2> DEFINE e == [n \in 0..Len(s) |->
                     IF n = 0 THEN <<>>
                     ELSE IF Active(s[n]) THEN Append(f[n - 1], s[n]) ELSE f[n - 1]]
  <2>1. \A n \in 0..Len(s) : f[n] = e[n]
    BY <1>1 DEF Gathering
  <2>2. f = [n \in 0..Len(s) |-> f[n]]
    BY <1>1 DEF Gathering
  <2> QED
    BY <2>1, <2>2
<1>3. P(kept)
  BY <1>2
<1>4. Gathered(page) = kept[Len(s)]
  BY DEF Gathered
<1> DEFINE T == {n \in 0..Len(s) : kept[n] \in Seq(Items)}
<1> HIDE DEF kept
<1>5. Len(s) \in Nat /\ \A n \in 1..Len(s) : s[n] \in Items
  OBVIOUS
<1>6. kept[0] = <<>>
  BY <1>3, <1>5
<1>60. ASSUME NEW n \in 1..Len(s)
       PROVE  kept[n] = IF Active(s[n]) THEN Append(kept[n - 1], s[n]) ELSE kept[n - 1]
  <2>1. n \in 0..Len(s) /\ n # 0
    OBVIOUS
  <2>2. kept[n] = IF n = 0 THEN <<>>
                  ELSE IF Active(s[n]) THEN Append(kept[n - 1], s[n]) ELSE kept[n - 1]
    BY <1>3, <2>1
  <2> QED
    BY <2>1, <2>2, Zenon
<1>7. \A n \in 0..Len(s) : n \in T
  <2>0. <<>> \in Seq(Items)
    OBVIOUS
  <2>1. 0 \in T
    <3>1. 0 \in 0..Len(s)
      BY <1>5
    <3> QED
      BY <1>6, <2>0, <3>1
  <2>2. ASSUME NEW n \in 1..Len(s), n - 1 \in T PROVE n \in T
    <3>1. kept[n - 1] \in Seq(Items) /\ s[n] \in Items /\ n \in 0..Len(s)
      BY <1>5, <2>2
    <3>2. Append(kept[n - 1], s[n]) \in Seq(Items)
      BY <3>1
    <3>3. kept[n] \in Seq(Items)
      BY <1>60, <3>1, <3>2
    <3> QED
      BY <3>1, <3>3
  <2>3. Inductive(T, Len(s))
    BY <2>1, <2>2 DEF Inductive
  <2> HIDE DEF T
  <2> QED
    BY <1>5, <2>3, UpTo
<1>8. kept \in [0..Len(s) -> Seq(Items)]
  BY <1>3, <1>7
<1>9. Gathering(kept, s)
  BY <1>6, <1>60, <1>8 DEF Gathering
<1> QED
  BY <1>4, <1>9

\* What is gathered weighs what is active, whatever item is left out.
LEMMA GatheredWeighs ==
  ASSUME NEW page, page.items \in Seq(Items), NEW but
  PROVE  Total(Weights(Gathered(page), but)) = Total(Weights(page.items, but))
<1> DEFINE s == page.items
           w == Weights(s, but)
<1>1. PICK f : Gathering(f, s) /\ Gathered(page) = f[Len(s)]
  BY GatheredIsGathering
<1>2. w \in Seq(Nat) /\ Len(w) = Len(s)
  BY WeightsType
<1>3. PICK g : Partial(g, w) /\ Total(w) = g[Len(w)]
  BY <1>2, TotalIsPartial
<1> DEFINE T == {n \in 0..Len(s) : Total(Weights(f[n], but)) = g[n]}
<1>4. 0 \in T
  <2>1. f[0] \in Seq(Items) /\ f[0] = <<>>
    BY <1>1 DEF Gathering
  <2>2. Weights(f[0], but) \in Seq(Nat) /\ Len(Weights(f[0], but)) = 0
    BY <2>1, WeightsType
  <2>3. Weights(f[0], but) = <<>>
    BY <2>2
  <2>4. Total(Weights(f[0], but)) = 0
    BY <2>2, <2>3, TotalType
  <2>5. g[0] = 0 /\ 0 \in 0..Len(s)
    BY <1>3 DEF Partial
  <2> QED
    BY <2>4, <2>5
<1>5. ASSUME NEW n \in 1..Len(s), n - 1 \in T PROVE n \in T
  <2>1. f[n - 1] \in Seq(Items) /\ s[n] \in Items
        /\ f[n] = IF Active(s[n]) THEN Append(f[n - 1], s[n]) ELSE f[n - 1]
    BY <1>1, GatheringStep
  <2>2. g[n] = g[n - 1] + w[n] /\ g[n - 1] \in Nat
    BY <1>2, <1>3, PartialStep
  <2>3. w[n] = IF Active(s[n]) /\ s[n].id # but THEN s[n].size ELSE 0
    BY WeightsType
  <2>4. n \in 0..Len(s) /\ Total(Weights(f[n - 1], but)) = g[n - 1]
    BY <1>5
  <2>5. Total(Weights(f[n], but)) = g[n]
    <3>1. CASE Active(s[n])
      <4>1. Total(Weights(f[n], but)) =
              Total(Weights(f[n - 1], but)) + (IF Active(s[n]) /\ s[n].id # but THEN s[n].size ELSE 0)
        BY <2>1, <3>1, WeightsAppend
      <4> QED
        BY <2>2, <2>3, <2>4, <4>1
    <3>2. CASE ~Active(s[n])
      BY <2>1, <2>2, <2>3, <2>4, <3>2
    <3> QED
      BY <3>1, <3>2
  <2> QED
    BY <2>4, <2>5
<1>6. Len(s) \in Nat /\ Inductive(T, Len(s))
  BY <1>4, <1>5 DEF Inductive
<1>7. Len(s) \in T
  <2> HIDE DEF T
  <2> QED
    BY <1>6, UpTo
<1> QED
  BY <1>1, <1>2, <1>3, <1>7

\* g are the active items of s, in their order: h says where each was.
Picks(h, s, g) ==
    /\ h \in [1..Len(g) -> 1..Len(s)]
    /\ \A i, j \in 1..Len(g) : i < j => h[i] < h[j]
    /\ \A i \in 1..Len(g) : g[i] = s[h[i]] /\ Active(s[h[i]])
    /\ \A k \in 1..Len(s) : Active(s[k]) => \E i \in 1..Len(g) : h[i] = k

LEMMA GatheredInOrder ==
  ASSUME NEW page, page.items \in Seq(Items)
  PROVE  Gathered(page) \in Seq(Items) /\ \E h : Picks(h, page.items, Gathered(page))
<1> DEFINE s == page.items
           Ok(g, n) == \E h \in [1..Len(g) -> 1..n] :
                          /\ \A i, j \in 1..Len(g) : i < j => h[i] < h[j]
                          /\ \A i \in 1..Len(g) : g[i] = s[h[i]] /\ Active(s[h[i]])
                          /\ \A k \in 1..n : Active(s[k]) => \E i \in 1..Len(g) : h[i] = k
<1>1. PICK f : Gathering(f, s) /\ Gathered(page) = f[Len(s)]
  BY GatheredIsGathering
<1> DEFINE T == {n \in 0..Len(s) : Ok(f[n], n)}
<1>2. 0 \in T
  <2>1. f[0] = <<>>
    BY <1>1 DEF Gathering
  <2>2. Ok(<<>>, 0)
    <3>1. [i \in 1..0 |-> 0] \in [1..Len(<<>>) -> 1..0]
      OBVIOUS
    <3>2. \A i \in 1..Len(<<>>) : FALSE
      OBVIOUS
    <3>3. \A i \in 1..0 : FALSE
      OBVIOUS
    <3> QED
      BY <3>1, <3>2, <3>3
  <2>3. 0 \in 0..Len(s)
    OBVIOUS
  <2> HIDE DEF Ok
  <2> QED
    BY <2>1, <2>2, <2>3
<1>3. ASSUME NEW n \in 1..Len(s), n - 1 \in T PROVE n \in T
  <2>1. f[n - 1] \in Seq(Items) /\ s[n] \in Items /\ f[n] \in Seq(Items)
        /\ f[n] = IF Active(s[n]) THEN Append(f[n - 1], s[n]) ELSE f[n - 1]
    BY <1>1, GatheringStep
  <2> DEFINE g == f[n - 1]
  <2>2. PICK h \in [1..Len(g) -> 1..n - 1] :
          /\ \A i, j \in 1..Len(g) : i < j => h[i] < h[j]
          /\ \A i \in 1..Len(g) : g[i] = s[h[i]] /\ Active(s[h[i]])
          /\ \A k \in 1..n - 1 : Active(s[k]) => \E i \in 1..Len(g) : h[i] = k
    BY <1>3
  <2>5. Ok(f[n], n) => n \in T
    <3>1. n \in 0..Len(s)
      OBVIOUS
    <3> HIDE DEF Ok
    <3> QED
      BY <3>1
  <2> HIDE DEF g
  <2>3. CASE Active(s[n])
    <3> DEFINE e == Append(g, s[n])
               h2 == [i \in 1..Len(g) + 1 |-> IF i <= Len(g) THEN h[i] ELSE n]
    <3>1. e \in Seq(Items) /\ Len(e) = Len(g) + 1 /\ Len(g) \in Nat /\ e[Len(g) + 1] = s[n]
          /\ \A i \in 1..Len(g) : e[i] = g[i]
      BY <2>1 DEF g
    <3> HIDE DEF e
    <3>2. h2 \in [1..Len(e) -> 1..n]
      BY <3>1
    <3>3. \A i, j \in 1..Len(e) : i < j => h2[i] < h2[j]
      BY <2>2, <3>1
    <3>4. \A i \in 1..Len(e) : e[i] = s[h2[i]] /\ Active(s[h2[i]])
      BY <2>2, <2>3, <3>1
    <3>5. ASSUME NEW k \in 1..n, Active(s[k]) PROVE \E i \in 1..Len(e) : h2[i] = k
      <4>1. CASE k = n
        BY <3>1, <4>1
      <4>2. CASE k # n
        <5>1. k \in 1..n - 1
          BY <4>2
        <5>2. PICK i \in 1..Len(g) : h[i] = k
          BY <2>2, <3>5, <5>1
        <5> QED
          BY <3>1, <5>2
      <4> QED
        BY <4>1, <4>2
    <3> HIDE DEF h2
    <3>6. Ok(e, n)
      BY <3>2, <3>3, <3>4, <3>5
    <3>7. f[n] = e
      BY <2>1, <2>3 DEF e, g
    <3> HIDE DEF Ok, T
    <3> QED
      BY <2>5, <3>6, <3>7
  <2>4. CASE ~Active(s[n])
    <3>1. h \in [1..Len(g) -> 1..n]
      OBVIOUS
    <3>2. \A k \in 1..n : Active(s[k]) => \E i \in 1..Len(g) : h[i] = k
      BY <2>2, <2>4
    <3>3. Ok(g, n)
      BY <2>2, <3>1, <3>2
    <3>4. f[n] = g
      BY <2>1, <2>4 DEF g
    <3> HIDE DEF Ok, T
    <3> QED
      BY <2>5, <3>3, <3>4
  <2> QED
    BY <2>3, <2>4
<1>4. Len(s) \in Nat /\ Inductive(T, Len(s))
  <2> HIDE DEF T
  <2> QED
    BY <1>2, <1>3 DEF Inductive
<1>5. Len(s) \in T
  <2> HIDE DEF T
  <2> QED
    BY <1>4, UpTo
<1>6. Gathered(page) \in Seq(Items)
  BY <1>1 DEF Gathering
<1>7. \E h : Picks(h, s, f[Len(s)])
  BY <1>5 DEF Picks
<1> QED
  BY <1>1, <1>6, <1>7
-----------------------------------------------------------------------------
(* The inductive invariant of the store.                                   *)

\* An active copy of an item is at place i of page p; t is the spare page.
At(page, t, id, p, i) ==
    /\ p \in PageNumbers \ {t}
    /\ i \in 1..Len(page[p].items)
    /\ page[p].items[i].id = id /\ Active(page[p].items[i])

Unique(page, t) ==
    \A id \in Ids : \A p, q \in PageNumbers :
        \A i \in 1..Len(page[p].items), j \in 1..Len(page[q].items) :
            At(page, t, id, p, i) /\ At(page, t, id, q, j) => p = q /\ i = j

\* An item is found with the value v.
Has(page, t, id, v) ==
    \E p \in PageNumbers : \E i \in 1..Len(page[p].items) :
        At(page, t, id, p, i) /\ page[p].items[i].val = v

Known == {layout.size[v] : v \in DOMAIN layout.size}

\* Pages of which t is the spare one: they hold no more than they can, no item twice, and
\* all of them no more than the callers keep.
PagesOK(page, t) ==
    /\ page \in AllPages /\ t \in PageNumbers
    /\ \A p \in PageNumbers : page[p].state = "xdst" <=> p = t
    /\ page[t].items = <<>>
    /\ \A p \in PageNumbers :
          /\ Filled(page[p]) <= layout.cap
          /\ \A i \in 1..Len(page[p].items) : page[p].items[i].size \in Known
    /\ KeptIn(page, Nothing) <= layout.live
    /\ Unique(page, t)

StoreOK(store) ==
    /\ store = [page |-> store.page, act |-> store.act, tail |-> store.tail,
                failW |-> store.failW]
    /\ PagesOK(store.page, store.tail)
    /\ store.act \in PageNumbers \ {store.tail}
    /\ store.failW = FALSE

\* The file is such pages too, or lost while it is being written.
StoreInv ==
    /\ layout \in Layouts
    /\ phase \in {"idle", "done", "open"}
    /\ StoreOK(nv)
    /\ file = Lost <=> phase = "open"
    /\ file # Lost => \E t \in PageNumbers : PagesOK(file, t)

-----------------------------------------------------------------------------
(* What is read, by the pages and the spare one among them.                *)

\* Pages and their items.
LEMMA PageTypes ==
  ASSUME NEW page \in AllPages, NEW p \in PageNumbers
  PROVE  /\ page[p].state \in States /\ page[p].items \in Seq(Items)
         /\ page[p] = [state |-> page[p].state, items |-> page[p].items]
         /\ DOMAIN page[p].items = 1..Len(page[p].items) /\ Len(page[p].items) \in Nat
         /\ \A i \in 1..Len(page[p].items) : page[p].items[i] \in Items
<1>1. page[p] \in [state : States, items : Seq(Items)]
  BY DEF AllPages
<1>2. page[p].items \in Seq(Items) /\ page[p].state \in States
      /\ page[p] = [state |-> page[p].state, items |-> page[p].items]
  BY <1>1
<1> QED
  BY <1>2

\* An active item has a name and a value.
LEMMA ActiveItems ==
  ASSUME NEW x \in Items, Active(x)
  PROVE  x.id \in Ids /\ x.val \in Vals /\ x.id # Nothing /\ x.size \in Nat
  BY NvocmpAssumption DEF Items, Active

\* The copies of an item.
LEMMA CopiesAt ==
  ASSUME NEW store, store.page \in AllPages, store.tail \in PageNumbers, NEW id
  PROVE  \A c : c \in Copies(store, id)
             <=> \E p \in PageNumbers : \E i \in 1..Len(store.page[p].items) :
                    c = <<p, i>> /\ At(store.page, store.tail, id, p, i)
<1> SUFFICES ASSUME NEW c
             PROVE  c \in Copies(store, id)
                 <=> \E p \in PageNumbers : \E i \in 1..Len(store.page[p].items) :
                        c = <<p, i>> /\ At(store.page, store.tail, id, p, i)
  OBVIOUS
<1>1. c \in Copies(store, id)
      <=> \E p \in PageNumbers \ {store.tail} :
             \E i \in DOMAIN store.page[p].items :
                /\ c = <<p, i>>
                /\ store.page[p].items[i].id = id /\ Active(store.page[p].items[i])
  BY DEF Copies
<1>2. \A p \in PageNumbers : DOMAIN store.page[p].items = 1..Len(store.page[p].items)
  BY PageTypes
<1> QED
  BY <1>1, <1>2 DEF At

\* The only copy is found.
LEMMA FoundIsAt ==
  ASSUME NEW store, store.page \in AllPages, store.tail \in PageNumbers,
         Unique(store.page, store.tail), NEW id \in Ids, NEW p, NEW i,
         At(store.page, store.tail, id, p, i)
  PROVE  Copies(store, id) = {<<p, i>>} /\ FindItem(store, id) = <<p, i>>
<1>1. p \in PageNumbers /\ i \in 1..Len(store.page[p].items)
  BY DEF At
<1>2. <<p, i>> \in Copies(store, id)
  BY <1>1, CopiesAt
<1>3. ASSUME NEW c \in Copies(store, id) PROVE c = <<p, i>>
  <2>0. PICK q \in PageNumbers : \E j \in 1..Len(store.page[q].items) :
           c = <<q, j>> /\ At(store.page, store.tail, id, q, j)
    BY CopiesAt
  <2>1. PICK j \in 1..Len(store.page[q].items) :
           c = <<q, j>> /\ At(store.page, store.tail, id, q, j)
    BY <2>0
  <2>2. q = p /\ j = i
    BY <1>1, <2>1 DEF Unique
  <2> QED
    BY <2>1, <2>2
<1>4. Copies(store, id) = {<<p, i>>}
  BY <1>2, <1>3
<1> DEFINE First(c) == \A d \in Copies(store, id) :
                          \/ Age(store, c[1]) < Age(store, d[1])
                          \/ c[1] = d[1] /\ c[2] >= d[2]
<1>5. First(<<p, i>>)
  BY <1>1, <1>4
<1>6. FindItem(store, id) = CHOOSE c \in Copies(store, id) : First(c)
  BY DEF FindItem
<1> HIDE DEF First
<1>7. FindItem(store, id) \in Copies(store, id)
  BY <1>2, <1>5, <1>6
<1> QED
  BY <1>4, <1>7

\* What is read is what is there.
LEMMA ReadIsAt ==
  ASSUME NEW store, store.page \in AllPages, store.tail \in PageNumbers,
         Unique(store.page, store.tail), NEW id \in Ids
  PROVE  /\ ReadItem(store, id) \in Vals \cup {Nothing}
         /\ \A v \in Vals : ReadItem(store, id) = v <=> Has(store.page, store.tail, id, v)
         /\ ReadItem(store, id) # Nothing <=> Copies(store, id) # {}
         /\ Nothing \notin Vals
<1>0. Nothing \notin Vals
  BY NvocmpAssumption
<1>1. CASE \E p, i : At(store.page, store.tail, id, p, i)
  <2>1. PICK p, i : At(store.page, store.tail, id, p, i)
    BY <1>1
  <2>2. Copies(store, id) = {<<p, i>>} /\ FindItem(store, id) = <<p, i>>
    BY <2>1, FoundIsAt
  <2>3. p \in PageNumbers /\ i \in 1..Len(store.page[p].items)
        /\ Active(store.page[p].items[i])
    BY <2>1 DEF At
  <2>4. store.page[p].items[i] \in Items
    BY <2>3, PageTypes
  <2>5. store.page[p].items[i].val \in Vals
    BY <2>3, <2>4, ActiveItems
  <2>6. ReadItem(store, id) = store.page[p].items[i].val
    BY <2>2 DEF ReadItem, ItemAt
  <2>7. ASSUME NEW v \in Vals
        PROVE  ReadItem(store, id) = v <=> Has(store.page, store.tail, id, v)
    <3>1. ASSUME Has(store.page, store.tail, id, v) PROVE store.page[p].items[i].val = v
      BY <2>1, <2>3, <3>1 DEF Has, Unique
    <3>2. ASSUME store.page[p].items[i].val = v PROVE Has(store.page, store.tail, id, v)
      BY <2>1, <2>3, <3>2 DEF Has
    <3> QED
      BY <2>6, <3>1, <3>2
  <2> QED
    BY <1>0, <2>2, <2>5, <2>6, <2>7
<1>2. CASE ~\E p, i : At(store.page, store.tail, id, p, i)
  <2>1. Copies(store, id) = {}
    BY <1>2, CopiesAt
  <2>2. ReadItem(store, id) = Nothing
    BY <2>1 DEF ReadItem
  <2> QED
    BY <1>0, <1>2, <2>1, <2>2 DEF Has
<1> QED
  BY <1>1, <1>2

\* Pages that have the same items read the same.
LEMMA ReadsSame ==
  ASSUME NEW store, store.page \in AllPages, store.tail \in PageNumbers,
         Unique(store.page, store.tail),
         NEW other, other.page \in AllPages, other.tail \in PageNumbers,
         Unique(other.page, other.tail),
         NEW id \in Ids,
         \A v \in Vals : Has(other.page, other.tail, id, v)
                            <=> Has(store.page, store.tail, id, v)
  PROVE  ReadItem(other, id) = ReadItem(store, id)
<1>1. /\ ReadItem(store, id) \in Vals \cup {Nothing}
      /\ \A v \in Vals : ReadItem(store, id) = v <=> Has(store.page, store.tail, id, v)
  BY ReadIsAt
<1>2. /\ ReadItem(other, id) \in Vals \cup {Nothing}
      /\ \A v \in Vals : ReadItem(other, id) = v <=> Has(other.page, other.tail, id, v)
  BY ReadIsAt
<1>3. Nothing \notin Vals
  BY NvocmpAssumption
<1> QED
  BY <1>1, <1>2, <1>3

\* The two pages are read alike.
LEMMA ViewsSame ==
  ASSUME NEW store, store.page \in AllPages, store.tail \in PageNumbers,
         Unique(store.page, store.tail),
         NEW other, other.page \in AllPages, other.tail \in PageNumbers,
         Unique(other.page, other.tail),
         \A id \in Ids, v \in Vals : Has(other.page, other.tail, id, v)
                                        <=> Has(store.page, store.tail, id, v)
  PROVE  View(other) = View(store)
<1>1. \A id \in Ids : ReadItem(other, id) = ReadItem(store, id)
  BY ReadsSame
<1> QED
  BY <1>1 DEF View
-----------------------------------------------------------------------------
(* What is kept on all pages.                                              *)

\* The number kept on each of them, in order.
Amounts(page, but) == [p \in 1..Pages |-> Kept(page[p - 1], but)]

LEMMA AmountsType ==
  ASSUME NEW page \in AllPages, NEW but
  PROVE  /\ Pages \in Nat /\ Pages >= 2
         /\ Amounts(page, but) \in Seq(Nat) /\ Len(Amounts(page, but)) = Pages
         /\ \A p \in PageNumbers :
              /\ p + 1 \in 1..Pages
              /\ Amounts(page, but)[p + 1] = Kept(page[p], but)
              /\ Kept(page[p], but) = Total(Weights(page[p].items, but))
              /\ Kept(page[p], but) \in Nat
              /\ Filled(page[p]) = Total(Lengths(page[p].items))
              /\ Filled(page[p]) \in Nat
         /\ \A n \in 1..Pages : n - 1 \in PageNumbers
                                /\ Amounts(page, but)[n] = Kept(page[n - 1], but)
         /\ KeptIn(page, but) = Total(Amounts(page, but))
         /\ KeptIn(page, but) \in Nat
<1>1. Pages \in Nat /\ Pages >= 2
  BY NvocmpAssumption
<1>2. ASSUME NEW p \in PageNumbers
      PROVE  /\ p + 1 \in 1..Pages /\ (p + 1) - 1 = p
             /\ Kept(page[p], but) = Total(Weights(page[p].items, but))
             /\ Kept(page[p], but) \in Nat
             /\ Filled(page[p]) = Total(Lengths(page[p].items))
             /\ Filled(page[p]) \in Nat
  <2>1. p + 1 \in 1..Pages /\ (p + 1) - 1 = p
    BY <1>1 DEF PageNumbers
  <2>2. page[p].items \in Seq(Items)
    BY PageTypes
  <2>3. Weights(page[p].items, but) \in Seq(Nat) /\ Lengths(page[p].items) \in Seq(Nat)
    BY <2>2, WeightsType
  <2>4. Kept(page[p], but) = Total(Weights(page[p].items, but))
    BY DEF Kept, Weights
  <2>5. Filled(page[p]) = Total(Lengths(page[p].items))
    BY DEF Filled, Lengths
  <2>6. Total(Weights(page[p].items, but)) \in Nat /\ Total(Lengths(page[p].items)) \in Nat
    BY <2>3, TotalType
  <2> QED
    BY <2>1, <2>4, <2>5, <2>6
<1>3. ASSUME NEW n \in 1..Pages
      PROVE  n - 1 \in PageNumbers /\ Amounts(page, but)[n] = Kept(page[n - 1], but)
  BY <1>1 DEF PageNumbers, Amounts
<1>4. ASSUME NEW p \in PageNumbers
      PROVE  Amounts(page, but)[p + 1] = Kept(page[p], but)
  BY <1>2, <1>3
<1>5. Amounts(page, but) \in [1..Pages -> Nat]
  <2>1. \A n \in 1..Pages : Kept(page[n - 1], but) \in Nat
    BY <1>2, <1>3
  <2> QED
    BY <2>1 DEF Amounts
<1>6. Amounts(page, but) \in Seq(Nat) /\ Len(Amounts(page, but)) = Pages
  BY <1>1, <1>5
<1>7. KeptIn(page, but) = Total(Amounts(page, but))
  BY DEF KeptIn, Amounts
<1>8. Total(Amounts(page, but)) \in Nat
  BY <1>6, TotalType
<1> QED
  BY <1>1, <1>2, <1>3, <1>4, <1>6, <1>7, <1>8

\* On no page is there more than on all.
LEMMA KeptOnOne ==
  ASSUME NEW page \in AllPages, NEW but, NEW p \in PageNumbers
  PROVE  Kept(page[p], but) <= KeptIn(page, but)
<1> DEFINE w == Amounts(page, but)
<1>1. w \in Seq(Nat) /\ p + 1 \in 1..Len(w) /\ w[p + 1] = Kept(page[p], but)
      /\ KeptIn(page, but) = Total(w)
  BY AmountsType
<1> HIDE DEF w
<1>2. w[p + 1] <= Total(w)
  BY <1>1, TotalMember
<1> QED
  BY <1>1, <1>2

\* Not more on every page is not more on all.
LEMMA KeptMonotone ==
  ASSUME NEW page \in AllPages, NEW but, NEW page2 \in AllPages, NEW but2,
         \A p \in PageNumbers : Kept(page2[p], but2) <= Kept(page[p], but)
  PROVE  KeptIn(page2, but2) <= KeptIn(page, but)
<1> DEFINE w == Amounts(page, but)
           v == Amounts(page2, but2)
<1>1. w \in Seq(Nat) /\ Len(w) = Pages /\ KeptIn(page, but) = Total(w)
      /\ \A n \in 1..Pages : n - 1 \in PageNumbers /\ w[n] = Kept(page[n - 1], but)
  BY AmountsType
<1>2. v \in Seq(Nat) /\ Len(v) = Pages /\ KeptIn(page2, but2) = Total(v)
      /\ \A n \in 1..Pages : v[n] = Kept(page2[n - 1], but2)
  BY AmountsType
<1> HIDE DEF w, v
<1>3. \A n \in 1..Len(w) : v[n] <= w[n]
  BY <1>1, <1>2
<1>4. Total(v) <= Total(w)
  BY <1>1, <1>2, <1>3, TotalMonotone
<1> QED
  BY <1>1, <1>2, <1>4

\* The same on every page is the same on all.
LEMMA KeptSame ==
  ASSUME NEW page \in AllPages, NEW but, NEW page2 \in AllPages, NEW but2,
         \A p \in PageNumbers : Kept(page2[p], but2) = Kept(page[p], but)
  PROVE  KeptIn(page2, but2) = KeptIn(page, but)
<1>1. \A p \in PageNumbers : Kept(page2[p], but2) \in Nat /\ Kept(page[p], but) \in Nat
  BY AmountsType
<1>2. /\ \A p \in PageNumbers : Kept(page2[p], but2) <= Kept(page[p], but)
      /\ \A p \in PageNumbers : Kept(page[p], but) <= Kept(page2[p], but2)
  BY <1>1
<1>3. KeptIn(page2, but2) <= KeptIn(page, but)
  BY <1>2, KeptMonotone
<1>4. KeptIn(page, but) <= KeptIn(page2, but2)
  BY <1>2, KeptMonotone
<1>5. KeptIn(page2, but2) \in Nat /\ KeptIn(page, but) \in Nat
  BY AmountsType
<1> QED
  BY <1>3, <1>4, <1>5

\* What differs on one page differs by as much on all.
LEMMA KeptDiffers ==
  ASSUME NEW page \in AllPages, NEW but, NEW page2 \in AllPages, NEW but2,
         NEW q \in PageNumbers,
         \A p \in PageNumbers : p # q => Kept(page2[p], but2) = Kept(page[p], but)
  PROVE  KeptIn(page2, but2) + Kept(page[q], but) = KeptIn(page, but) + Kept(page2[q], but2)
<1> DEFINE w == Amounts(page, but)
           v == Amounts(page2, but2)
<1>1. w \in Seq(Nat) /\ Len(w) = Pages /\ KeptIn(page, but) = Total(w)
      /\ q + 1 \in 1..Pages /\ w[q + 1] = Kept(page[q], but)
      /\ \A n \in 1..Pages : n - 1 \in PageNumbers /\ w[n] = Kept(page[n - 1], but)
  BY AmountsType
<1>2. v \in Seq(Nat) /\ Len(v) = Pages /\ KeptIn(page2, but2) = Total(v)
      /\ v[q + 1] = Kept(page2[q], but2)
      /\ \A n \in 1..Pages : v[n] = Kept(page2[n - 1], but2)
  BY AmountsType
<1>3. ASSUME NEW n \in 1..Len(w), n # q + 1 PROVE v[n] = w[n]
  <2>1. n - 1 \in PageNumbers /\ n - 1 # q
    <3>1. n \in 1..Pages
      BY <1>1
    <3>2. n - 1 \in PageNumbers
      BY <1>1, <3>1
    <3>3. n - 1 # q
      BY <1>3, <3>1, <1>1, AmountsType DEF PageNumbers
    <3> QED
      BY <3>2, <3>3
  <2> QED
    BY <1>1, <1>2, <2>1
<1> HIDE DEF w, v
<1>4. Total(v) + w[q + 1] = Total(w) + v[q + 1]
  <2>1. \A n \in 1..Len(w) : n # q + 1 => v[n] = w[n]
    BY <1>3
  <2>2. \A j \in 1..Len(w) : (\A n \in 1..Len(w) : n # j => v[n] = w[n])
            => Total(v) + w[j] = Total(w) + v[j]
    BY <1>1, <1>2, TotalExcept
  <2> QED
    BY <1>1, <2>1, <2>2
<1> QED
  BY <1>1, <1>2, <1>4

\* What moves from one page to another is still kept.
LEMMA KeptMoves ==
  ASSUME NEW page \in AllPages, NEW but, NEW page2 \in AllPages,
         NEW q \in PageNumbers, NEW t \in PageNumbers, q # t,
         Kept(page[t], but) = 0, Kept(page2[q], but) = 0,
         Kept(page2[t], but) = Kept(page[q], but),
         \A p \in PageNumbers \ {q, t} : Kept(page2[p], but) = Kept(page[p], but)
  PROVE  KeptIn(page2, but) = KeptIn(page, but)
<1> DEFINE mid == [page EXCEPT ![t] = page2[t]]
<1>1. mid \in AllPages /\ mid[t] = page2[t] /\ \A p \in PageNumbers : p # t => mid[p] = page[p]
  BY DEF AllPages
<1> HIDE DEF mid
<1>2. \A p \in PageNumbers : p # t => Kept(mid[p], but) = Kept(page[p], but)
  BY <1>1
<1>3. KeptIn(mid, but) + Kept(page[t], but) = KeptIn(page, but) + Kept(mid[t], but)
  BY <1>1, <1>2, KeptDiffers
<1>4. \A p \in PageNumbers : p # q => Kept(page2[p], but) = Kept(mid[p], but)
  BY <1>1, <1>2
<1>5. KeptIn(page2, but) + Kept(mid[q], but) = KeptIn(mid, but) + Kept(page2[q], but)
  BY <1>1, <1>4, KeptDiffers
<1>6. Kept(mid[q], but) = Kept(page[q], but) /\ Kept(mid[t], but) = Kept(page[q], but)
  BY <1>1, <1>2
<1>7. KeptIn(mid, but) \in Nat /\ KeptIn(page, but) \in Nat /\ KeptIn(page2, but) \in Nat
      /\ Kept(page[q], but) \in Nat
  BY <1>1, AmountsType
<1> QED
  BY <1>3, <1>5, <1>6, <1>7

\* Everything that is active has a name.
LEMMA WeighsAll ==
  ASSUME NEW s \in Seq(Items), NEW i \in 1..Len(s)
  PROVE  /\ s[i].size \in Nat
         /\ Weights(s, Nothing)[i] = IF Active(s[i]) THEN s[i].size ELSE 0
         /\ Lengths(s)[i] = s[i].size
         /\ Weights(s, Nothing)[i] <= Lengths(s)[i]
<1>1. s[i] \in Items
  OBVIOUS
<1>2. Active(s[i]) => s[i].id # Nothing
  BY <1>1, ActiveItems
<1>3. /\ s[i].size \in Nat
      /\ Weights(s, Nothing)[i] = IF Active(s[i]) /\ s[i].id # Nothing THEN s[i].size ELSE 0
      /\ Lengths(s)[i] = s[i].size
  BY WeightsType
<1> QED
  BY <1>2, <1>3

\* What is gathered from a page fills no more than what is active of it; and if something
\* is not, there is room for that.
LEMMA GatheredFills ==
  ASSUME NEW page, page.items \in Seq(Items)
  PROVE  /\ Total(Lengths(Gathered(page))) = Total(Weights(page.items, Nothing))
         /\ Total(Weights(page.items, Nothing)) <= Total(Lengths(page.items))
         /\ \A j \in 1..Len(page.items) : ~Active(page.items[j]) =>
               Total(Lengths(Gathered(page))) + page.items[j].size <= Total(Lengths(page.items))
<1> DEFINE s == page.items
           g == Gathered(page)
           w == Weights(s, Nothing)
           l == Lengths(s)
<1>1. g \in Seq(Items) /\ \A i \in 1..Len(g) : Active(g[i])
  <2>1. g \in Seq(Items) /\ \E h : Picks(h, s, g)
    BY GatheredInOrder
  <2>2. PICK h : Picks(h, s, g)
    BY <2>1
  <2>3. \A i \in 1..Len(g) : g[i] = s[h[i]] /\ Active(s[h[i]])
    BY <2>2 DEF Picks
  <2> QED
    BY <2>1, <2>3
<1>2. Lengths(g) = Weights(g, Nothing)
  <2>1. /\ Lengths(g) \in Seq(Nat) /\ Len(Lengths(g)) = Len(g)
        /\ Weights(g, Nothing) \in Seq(Nat) /\ Len(Weights(g, Nothing)) = Len(g)
    BY <1>1, WeightsType
  <2>2. \A i \in 1..Len(g) : Lengths(g)[i] = Weights(g, Nothing)[i]
    BY <1>1, WeighsAll
  <2> HIDE DEF g
  <2> QED
    BY <2>1, <2>2
<1>3. Total(Weights(g, Nothing)) = Total(w)
  BY GatheredWeighs
<1>4. /\ w \in Seq(Nat) /\ Len(w) = Len(s) /\ l \in Seq(Nat) /\ Len(l) = Len(s)
      /\ \A i \in 1..Len(l) : w[i] <= l[i]
  <2>1. w \in Seq(Nat) /\ Len(w) = Len(s) /\ l \in Seq(Nat) /\ Len(l) = Len(s)
    BY WeightsType
  <2> QED
    BY <2>1, WeighsAll
<1>5. Total(w) <= Total(l)
  <2> HIDE DEF w, l
  <2> QED
    BY <1>4, TotalMonotone
<1>6. ASSUME NEW j \in 1..Len(s), ~Active(s[j])
      PROVE  Total(w) + s[j].size <= Total(l)
  <2>1. s[j].size \in Nat /\ w[j] = 0 /\ l[j] = s[j].size /\ j \in 1..Len(l)
    BY <1>4, <1>6, WeighsAll
  <2>2. w[j] + s[j].size <= l[j]
    BY <2>1
  <2> HIDE DEF w, l, s
  <2> QED
    BY <1>4, <2>1, <2>2, TotalCompare
<1> QED
  BY <1>2, <1>3, <1>5, <1>6
-----------------------------------------------------------------------------
(* Looking for room, and making it.                                        *)

\* Once around.
LEMMA Around ==
  ASSUME NEW n \in Nat \ {0}, NEW k \in 0..2 * n - 1
  PROVE  k % n = IF k < n THEN k ELSE k - n
<1> DEFINE q == k \div n
<1>1. k = n * q + (k % n) /\ (k % n) \in 0..n - 1 /\ q \in Int
  OBVIOUS
<1> HIDE DEF q
<1>2. n * q \in Int /\ (q <= -1 => n * q <= 0 - n) /\ (q = 0 => n * q = 0)
      /\ (q = 1 => n * q = n) /\ (q >= 2 => n * q >= 2 * n)
  BY <1>1
<1> QED
  BY <1>1, <1>2

\* How far a page is ahead of another.
LEMMA Ahead ==
  ASSUME NEW a \in PageNumbers, NEW p \in PageNumbers
  PROVE  /\ (p - a + Pages) % Pages \in PageNumbers
         /\ (p - a + Pages) % Pages = IF p < a THEN p - a + Pages ELSE p - a
<1>1. /\ Pages \in Nat \ {0} /\ a \in 0..Pages - 1 /\ p \in 0..Pages - 1
      /\ p - a + Pages \in 0..2 * Pages - 1
  BY NvocmpAssumption DEF PageNumbers
<1> DEFINE k == p - a + Pages
<1>2. k % Pages = (p - a + Pages) % Pages
  OBVIOUS
<1>3. k \in 0..2 * Pages - 1 /\ k = p - a + Pages
  BY <1>1
<1> HIDE DEF k
<1>4. k % Pages = IF k < Pages THEN k ELSE k - Pages
  BY <1>1, <1>3, Around
<1>5. k % Pages \in PageNumbers
      /\ k % Pages = IF p < a THEN p - a + Pages ELSE p - a
  <2> DEFINE m == k % Pages
  <2>1. m = IF k < Pages THEN k ELSE k - Pages
    BY <1>4
  <2> HIDE DEF m
  <2>2. m \in 0..Pages - 1 /\ m = IF p < a THEN p - a + Pages ELSE p - a
    BY <1>1, <1>3, <2>1
  <2> QED
    BY <2>2 DEF m, PageNumbers
<1> QED
  BY <1>2, <1>5, Zenon

\* A set of numbers of pages that is not empty has a least and a greatest one.
LEMMA Extremes ==
  ASSUME NEW T, T \subseteq PageNumbers, T # {}
  PROVE  /\ Min(T) \in T /\ \A x \in T : Min(T) <= x
         /\ Max(T) \in T /\ \A x \in T : x <= Max(T)
<1>1. Pages \in Nat /\ PageNumbers \subseteq Nat /\ \A x \in PageNumbers : Pages - x \in Nat
  BY NvocmpAssumption DEF PageNumbers
<1>2. \E x \in T : \A y \in T : x <= y
  BY <1>1, Least
<1>3. \E x \in T : \A y \in T : x >= y
  <2> DEFINE N == {Pages - x : x \in T}
  <2>1. N \subseteq Nat /\ N # {}
    BY <1>1
  <2>2. PICK m \in N : \A k \in N : m <= k
    <3> HIDE DEF N
    <3> QED
      BY <2>1, Least
  <2>3. PICK x \in T : m = Pages - x
    BY <2>2
  <2>4. \A y \in T : Pages - x <= Pages - y
    BY <2>2, <2>3
  <2>5. \A y \in T : x >= y
    BY <1>1, <2>4
  <2> QED
    BY <2>5
<1>4. Min(T) \in T /\ \A x \in T : Min(T) <= x
  BY <1>2 DEF Min
<1>5. Max(T) \in T /\ \A x \in T : Max(T) >= x
  BY <1>3 DEF Max
<1> QED
  BY <1>1, <1>4, <1>5

\* Pages with the same items and spare page are as good, and read the same.
LEMMA SameItems ==
  ASSUME NEW page, NEW t, PagesOK(page, t), NEW page2 \in AllPages,
         \A p \in PageNumbers : /\ page2[p].items = page[p].items
                                /\ page2[p].state = "xdst" <=> p = t
  PROVE  /\ PagesOK(page2, t)
         /\ \A p \in PageNumbers : Filled(page2[p]) = Filled(page[p])
         /\ \A id, v : Has(page2, t, id, v) <=> Has(page, t, id, v)
         /\ \A but : KeptIn(page2, but) = KeptIn(page, but)
<1>1. \A p \in PageNumbers : Filled(page2[p]) = Filled(page[p])
  BY DEF Filled
<1>2. \A id, i : \A p \in PageNumbers : At(page2, t, id, p, i) <=> At(page, t, id, p, i)
  BY DEF At
<1>3. \A id, v : Has(page2, t, id, v) <=> Has(page, t, id, v)
  BY <1>2 DEF Has
<1>4. ASSUME NEW but PROVE KeptIn(page2, but) = KeptIn(page, but)
  <2>1. \A p \in PageNumbers : Kept(page2[p], but) = Kept(page[p], but)
    BY DEF Kept
  <2>2. page \in AllPages
    BY DEF PagesOK
  <2> QED
    BY <2>1, <2>2, KeptSame
<1>5. Unique(page2, t)
  BY <1>2 DEF Unique, PagesOK
<1>6. PagesOK(page2, t)
  BY <1>1, <1>4, <1>5 DEF PagesOK
<1> QED
  BY <1>1, <1>3, <1>4, <1>6

\* NVOCMP_getDstPage opens and closes pages, and leaves what is on them alone; the page
\* that it finds has room.
LEMMA DstPageKeeps ==
  ASSUME NEW store, StoreOK(store), NEW n \in Nat
  PROVE  LET d == GetDstPage(store, n).store IN
         /\ StoreOK(d) /\ d.tail = store.tail
         /\ \A id, v : Has(d.page, d.tail, id, v) <=> Has(store.page, store.tail, id, v)
         /\ \A but : KeptIn(d.page, but) = KeptIn(store.page, but)
         /\ GetDstPage(store, n).found =>
               d.page[d.act].state = "act" /\ Filled(d.page[d.act]) + n <= layout.cap
<1> DEFINE at1(p) == (p - store.act + Pages) % Pages
           open   == {p \in PageNumbers : p # store.tail
                                          /\ store.page[p].state # "full"}
           roomy  == {p \in open : Filled(store.page[p]) + n <= layout.cap}
           first  == IF roomy = {} THEN Pages ELSE Min({at1(p) : p \in roomy})
           tried  == {p \in open : at1(p) <= first}
           last   == IF tried = {} THEN store.act
                     ELSE CHOOSE p \in tried : \A q \in tried : at1(q) <= at1(p)
           states == [p \in PageNumbers |->
                        IF p \notin tried THEN store.page[p].state
                        ELSE IF at1(p) = first THEN "act" ELSE "full"]
           page2  == [p \in PageNumbers |-> ChangeState(store.page[p], states[p])]
           g      == GetDstPage(store, n)
           d      == g.store
           failed == store.failW /\ \A p \in PageNumbers : states[p] = store.page[p].state
<1>1. /\ store = [page |-> store.page, act |-> store.act, tail |-> store.tail,
                  failW |-> store.failW]
      /\ PagesOK(store.page, store.tail)
      /\ store.page \in AllPages /\ store.tail \in PageNumbers
      /\ store.act \in PageNumbers /\ store.act # store.tail /\ store.failW = FALSE
  BY DEF StoreOK, PagesOK
<1>2. g = [found |-> roomy # {},
           store |-> [store EXCEPT !.page = page2, !.act = last, !.failW = failed]]
  BY DEF GetDstPage
<1>3. /\ d = [page |-> page2, act |-> last, tail |-> store.tail, failW |-> FALSE]
      /\ g.found = (roomy # {})
  <2>1. failed = FALSE
    BY <1>1
  <2> HIDE DEF page2, last, roomy, failed, g
  <2> QED
    BY <1>1, <1>2, <2>1
<1>4. \A p \in PageNumbers : at1(p) \in PageNumbers
  BY <1>1, Ahead
<1>5. \A p, q \in PageNumbers : at1(p) = at1(q) => p = q
  <2>1. \A p \in PageNumbers : at1(p) = IF p < store.act THEN p - store.act + Pages ELSE p - store.act
    BY <1>1, Ahead
  <2> HIDE DEF at1
  <2> SUFFICES ASSUME NEW p \in PageNumbers, NEW q \in PageNumbers, at1(p) = at1(q)
               PROVE  p = q
    OBVIOUS
  <2>2. /\ p \in 0..Pages - 1 /\ q \in 0..Pages - 1 /\ store.act \in 0..Pages - 1
        /\ Pages \in Nat
    BY <1>1, NvocmpAssumption DEF PageNumbers
  <2>3. (IF p < store.act THEN p - store.act + Pages ELSE p - store.act)
        = (IF q < store.act THEN q - store.act + Pages ELSE q - store.act)
    BY <2>1
  <2> QED
    BY <2>2, <2>3
<1> HIDE DEF at1, g
<1>6. open \subseteq PageNumbers /\ roomy \subseteq open /\ tried \subseteq open
      /\ store.tail \notin open
  OBVIOUS
<1>7. tried # {} => last \in tried /\ \A q \in tried : at1(q) <= at1(last)
  <2> SUFFICES ASSUME tried # {}
               PROVE  \E p \in tried : \A q \in tried : at1(q) <= at1(p)
    OBVIOUS
  <2> DEFINE T == {at1(p) : p \in tried}
  <2>1. T \subseteq PageNumbers /\ T # {}
    BY <1>4, <1>6
  <2>2. Max(T) \in T /\ \A x \in T : x <= Max(T)
    <3> HIDE DEF T
    <3> QED
      BY <2>1, Extremes
  <2> QED
    BY <2>2
<1>8. roomy # {} => \E p \in roomy : first = at1(p)
  <2> SUFFICES ASSUME roomy # {} PROVE \E p \in roomy : first = at1(p)
    OBVIOUS
  <2> DEFINE T == {at1(p) : p \in roomy}
  <2>1. T \subseteq PageNumbers /\ T # {}
    BY <1>4, <1>6
  <2>2. Min(T) \in T
    <3> HIDE DEF T
    <3> QED
      BY <2>1, Extremes
  <2>3. first = Min(T)
    OBVIOUS
  <2> QED
    BY <2>2, <2>3
<1>9. last \in PageNumbers \ {store.tail}
  BY <1>1, <1>6, <1>7
<1>10. roomy # {} => last \in roomy /\ states[last] = "act"
  <2> SUFFICES ASSUME roomy # {} PROVE last \in roomy /\ states[last] = "act"
    OBVIOUS
  <2>1. PICK p \in roomy : first = at1(p)
    BY <1>8
  <2>2. p \in PageNumbers /\ at1(p) \in PageNumbers /\ p \in open
    BY <1>4, <1>6
  <2>3. p \in tried
    <3>1. at1(p) <= first
      BY <2>1, <2>2 DEF PageNumbers
    <3> HIDE DEF first
    <3> QED
      BY <2>2, <3>1
  <2>4. last \in tried /\ at1(p) <= at1(last)
    <3> HIDE DEF last, tried
    <3> QED
      BY <1>7, <2>3
  <2>5. last \in PageNumbers /\ at1(last) <= first
    BY <1>9, <2>4
  <2> HIDE DEF last, tried, first, roomy, open
  <2>6. at1(last) = at1(p)
    BY <1>4, <2>1, <2>2, <2>4, <2>5 DEF PageNumbers
  <2>7. last = p
    BY <1>5, <2>2, <2>5, <2>6
  <2>8. states[last] = "act"
    BY <2>1, <2>4, <2>5, <2>7
  <2> QED
    BY <2>7, <2>8
<1>11. \A p \in PageNumbers :
          /\ states[p] \in States
          /\ states[p] = "xdst" <=> p = store.tail
  <2> HIDE DEF tried, first
  <2>1. \A p \in tried : store.page[p].state # "xdst" /\ p # store.tail
    BY <1>1, <1>6 DEF PagesOK
  <2>2. \A p \in PageNumbers : store.page[p].state \in States
    BY <1>1, PageTypes
  <2> QED
    BY <1>1, <2>1, <2>2 DEF States, PagesOK
<1> HIDE DEF states, last, tried, first, open
<1>12. \A p \in PageNumbers :
          page2[p] = [state |-> states[p], items |-> store.page[p].items]
  <2> SUFFICES ASSUME NEW p \in PageNumbers
               PROVE  page2[p] = [state |-> states[p], items |-> store.page[p].items]
    OBVIOUS
  <2>1. store.page[p] = [state |-> store.page[p].state, items |-> store.page[p].items]
    BY <1>1, PageTypes
  <2>2. page2[p] = [store.page[p] EXCEPT !.state = states[p]]
    BY DEF ChangeState
  <2> QED
    BY <2>1, <2>2
<1>13. page2 \in AllPages
  <2>1. \A p \in PageNumbers : store.page[p].items \in Seq(Items)
    BY <1>1, PageTypes
  <2>2. ASSUME NEW p \in PageNumbers
        PROVE  page2[p] \in [state : States, items : Seq(Items)]
    <3>1. page2[p] = [state |-> states[p], items |-> store.page[p].items]
      BY <1>12
    <3>2. states[p] \in States /\ store.page[p].items \in Seq(Items)
      BY <1>11, <2>1
    <3> HIDE DEF page2
    <3> QED
      BY <3>1, <3>2
  <2> QED
    BY <2>2 DEF AllPages
<1>14. \A p \in PageNumbers : page2[p].items = store.page[p].items
                              /\ page2[p].state = states[p]
  <2> SUFFICES ASSUME NEW p \in PageNumbers
               PROVE  page2[p].items = store.page[p].items /\ page2[p].state = states[p]
    OBVIOUS
  <2>1. page2[p] = [state |-> states[p], items |-> store.page[p].items]
    BY <1>12
  <2> HIDE DEF page2
  <2> QED
    BY <2>1
<1> HIDE DEF page2
<1>15. /\ PagesOK(page2, store.tail)
       /\ \A p \in PageNumbers : Filled(page2[p]) = Filled(store.page[p])
       /\ \A id, v : Has(page2, store.tail, id, v) <=> Has(store.page, store.tail, id, v)
       /\ \A but : KeptIn(page2, but) = KeptIn(store.page, but)
  BY <1>1, <1>11, <1>13, <1>14, SameItems
<1>16. d.page = page2 /\ d.act = last /\ d.tail = store.tail /\ d.failW = FALSE
       /\ d = [page |-> d.page, act |-> d.act, tail |-> d.tail, failW |-> d.failW]
  BY <1>3
<1>17. StoreOK(d)
  <2> HIDE DEF d
  <2> QED
    BY <1>9, <1>15, <1>16 DEF StoreOK
<1>18. g.found => d.page[d.act].state = "act" /\ Filled(d.page[d.act]) + n <= layout.cap
  <2> SUFFICES ASSUME roomy # {}
               PROVE  page2[last].state = "act" /\ Filled(page2[last]) + n <= layout.cap
    BY <1>3, <1>16
  <2>1. last \in roomy /\ states[last] = "act" /\ last \in PageNumbers
    BY <1>9, <1>10
  <2>2. Filled(store.page[last]) + n <= layout.cap
    BY <2>1
  <2> QED
    BY <1>14, <1>15, <2>1, <2>2
<1> QED
  BY <1>15, <1>16, <1>17, <1>18 DEF g
\* The pages from the head on are all but the spare one.
LEMMA SourceIsOther ==
  ASSUME NEW store, store.tail \in PageNumbers, NEW k \in 0..Pages - 2
  PROVE  IncPage(HeadPage(store), k) \in PageNumbers \ {store.tail}
<1> DEFINE t == store.tail
           u == t + 1
           h == u % Pages
           w == h + k
           s == w % Pages
<1>1. Pages \in Nat \ {0} /\ t \in 0..Pages - 1 /\ u \in 0..2 * Pages - 1 /\ u = t + 1
  BY NvocmpAssumption DEF PageNumbers
<1>2. IncPage(HeadPage(store), k) = s
  BY DEF IncPage, HeadPage
<1> HIDE DEF t, u
<1>3. h = IF u < Pages THEN u ELSE u - Pages
  BY <1>1, Around
<1> HIDE DEF h
<1>4. h \in 0..Pages - 1 /\ w \in 0..2 * Pages - 1 /\ w = h + k
  BY <1>1, <1>3
<1> HIDE DEF w
<1>5. s = IF w < Pages THEN w ELSE w - Pages
  BY <1>1, <1>4, Around
<1> HIDE DEF s
<1>6. s \in 0..Pages - 1 /\ s # t
  BY <1>1, <1>3, <1>4, <1>5
<1> QED
  BY <1>2, <1>6 DEF t, PageNumbers

\* NVOCMP_compact moves what is active of a page to the spare page, and makes the page the
\* spare one: the items are the same, and there is room for one that was not kept.
LEMMA MoveKeeps ==
  ASSUME NEW store, StoreOK(store), layout \in Layouts,
         NEW src \in PageNumbers \ {store.tail}
  PROVE  LET m == Move(store, src) IN
         /\ StoreOK(m) /\ m.tail # store.tail
         /\ \A id, v : Has(m.page, m.tail, id, v) <=> Has(store.page, store.tail, id, v)
         /\ \A but : KeptIn(m.page, but) = KeptIn(store.page, but)
         /\ m.page[m.act].state = "act"
         /\ ~AllActive(store.page[src]) =>
               \A n \in Known : Filled(m.page[m.act]) + n <= layout.cap
<1> DEFINE page  == store.page
           t     == store.tail
           s     == page[src].items
           g     == Gathered(page[src])
           page2 == [page EXCEPT ![t] = Compact(page[src]), ![src] = CleanPage(@)]
           m     == Move(store, src)
<1>1. /\ PagesOK(page, t) /\ page \in AllPages /\ t \in PageNumbers
      /\ page[t].items = <<>>
      /\ \A p \in PageNumbers : Filled(page[p]) <= layout.cap
      /\ Unique(page, t) /\ KeptIn(page, Nothing) <= layout.live
      /\ src \in PageNumbers /\ src # t
  BY DEF StoreOK, PagesOK
<1>2. /\ m = [page |-> m.page, act |-> m.act, tail |-> m.tail, failW |-> m.failW]
      /\ m.page = page2 /\ m.act = t /\ m.tail = src /\ m.failW = FALSE
  BY DEF Move
<1>3. s \in Seq(Items) /\ page[src] = [state |-> page[src].state, items |-> s]
  BY <1>1, PageTypes
<1>4. g \in Seq(Items) /\ Len(g) \in Nat
  BY <1>3, GatheredInOrder
<1>50. PICK h : Picks(h, s, g)
  BY <1>3, GatheredInOrder
<1>5. /\ h \in [1..Len(g) -> 1..Len(s)]
      /\ \A i, j \in 1..Len(g) : i < j => h[i] < h[j]
      /\ \A i \in 1..Len(g) : g[i] = s[h[i]] /\ Active(s[h[i]])
      /\ \A k \in 1..Len(s) : Active(s[k]) => \E i \in 1..Len(g) : h[i] = k
  BY <1>50, Zenon DEF Picks
<1> HIDE DEF g
<1>6. Compact(page[src]) = [state |-> "act", items |-> g]
  <2> DEFINE x == page[src]
  <2>1. Compact(x) = [[x EXCEPT !.items = g] EXCEPT !.state = "act"]
    BY DEF Compact, ChangeState, g
  <2>2. x = [state |-> x.state, items |-> x.items]
    BY <1>3
  <2> HIDE DEF x
  <2>3. Compact(x) = [state |-> "act", items |-> g]
    BY <2>1, <2>2
  <2> QED
    BY <2>3 DEF x
<1>7. CleanPage(page[src]) = [state |-> "xdst", items |-> <<>>]
  BY DEF CleanPage, ChangeState, Erased
<1>8. /\ page2[t] = [state |-> "act", items |-> g]
      /\ page2[src] = [state |-> "xdst", items |-> <<>>]
      /\ \A p \in PageNumbers \ {t, src} : page2[p] = page[p]
      /\ page2 = [p \in PageNumbers |-> page2[p]]
  BY <1>1, <1>6, <1>7 DEF AllPages
<1> HIDE DEF page2
<1>9. page2 \in AllPages
  <2>1. \A p \in PageNumbers : page[p] \in [state : States, items : Seq(Items)]
    BY <1>1 DEF AllPages
  <2>2. page2[t] \in [state : States, items : Seq(Items)]
    BY <1>4, <1>8 DEF States
  <2>3. page2[src] \in [state : States, items : Seq(Items)]
    BY <1>8 DEF States
  <2>4. \A p \in PageNumbers : page2[p] \in [state : States, items : Seq(Items)]
    BY <1>8, <2>1, <2>2, <2>3
  <2>5. page2 \in [PageNumbers -> [state : States, items : Seq(Items)]]
    BY <1>8, <2>4
  <2> QED
    BY <2>5 DEF AllPages
<1>10. page2[t].items = g /\ page2[src].items = <<>> /\ page2[t].state = "act"
       /\ page2[src].state = "xdst"
  BY <1>8
<1>11. ASSUME NEW id, NEW p \in PageNumbers, NEW i, At(page2, src, id, p, i)
       PROVE  IF p = t THEN i \in 1..Len(g) /\ At(page, t, id, src, h[i]) /\ g[i] = s[h[i]]
              ELSE p # src /\ At(page, t, id, p, i) /\ page2[p] = page[p]
  <2>1. CASE p = t
    <3>1. i \in 1..Len(g) /\ g[i].id = id /\ Active(g[i])
      BY <1>10, <1>11, <2>1 DEF At
    <3>2. h[i] \in 1..Len(s) /\ g[i] = s[h[i]]
      BY <1>5, <3>1
    <3> QED
      BY <1>1, <2>1, <3>1, <3>2 DEF At
  <2>2. CASE p # t
    <3>1. p # src
      BY <1>11 DEF At
    <3>2. page2[p] = page[p]
      BY <1>8, <2>2, <3>1
    <3> QED
      BY <1>11, <2>2, <3>1, <3>2 DEF At
  <2> QED
    BY <2>1, <2>2
<1>12. ASSUME NEW id, NEW v PROVE Has(page2, src, id, v) <=> Has(page, t, id, v)
  <2>1. ASSUME Has(page2, src, id, v) PROVE Has(page, t, id, v)
    <3>1. PICK p \in PageNumbers : \E i \in 1..Len(page2[p].items) :
             At(page2, src, id, p, i) /\ page2[p].items[i].val = v
      BY <2>1 DEF Has
    <3>2. PICK i \in 1..Len(page2[p].items) :
             At(page2, src, id, p, i) /\ page2[p].items[i].val = v
      BY <3>1
    <3>3. CASE p = t
      <4>1. At(page, t, id, src, h[i]) /\ g[i] = s[h[i]]
        BY <1>11, <3>2, <3>3
      <4>2. s[h[i]].val = v /\ h[i] \in 1..Len(s)
        BY <1>10, <3>2, <3>3, <4>1 DEF At
      <4> QED
        BY <1>1, <4>1, <4>2 DEF Has
    <3>4. CASE p # t
      <4>1. At(page, t, id, p, i) /\ page2[p] = page[p]
        BY <1>11, <3>2, <3>4
      <4> QED
        BY <3>2, <4>1 DEF Has
    <3> QED
      BY <3>3, <3>4
  <2>2. ASSUME Has(page, t, id, v) PROVE Has(page2, src, id, v)
    <3>1. PICK p \in PageNumbers : \E i \in 1..Len(page[p].items) :
             At(page, t, id, p, i) /\ page[p].items[i].val = v
      BY <2>2 DEF Has
    <3>2. PICK i \in 1..Len(page[p].items) :
             At(page, t, id, p, i) /\ page[p].items[i].val = v
      BY <3>1
    <3>3. CASE p = src
      <4>1. Active(s[i]) /\ s[i].id = id /\ i \in 1..Len(s) /\ s[i].val = v
        BY <3>2, <3>3 DEF At
      <4>2. PICK j \in 1..Len(g) : h[j] = i
        BY <1>5, <4>1
      <4>3. g[j] = s[i]
        BY <1>5, <4>2
      <4>4. At(page2, src, id, t, j) /\ page2[t].items[j].val = v
        BY <1>1, <1>10, <4>1, <4>3 DEF At
      <4> QED
        BY <1>1, <1>10, <4>4 DEF Has
    <3>4. CASE p # src
      <4>1. p # t
        BY <3>2 DEF At
      <4>2. page2[p] = page[p]
        BY <1>8, <3>4, <4>1
      <4> QED
        BY <3>2, <3>4, <4>2 DEF At, Has
    <3> QED
      BY <3>3, <3>4
  <2> QED
    BY <2>1, <2>2
<1>13. Unique(page2, src)
  <2> SUFFICES ASSUME NEW id \in Ids, NEW p \in PageNumbers, NEW q \in PageNumbers,
                      NEW i \in 1..Len(page2[p].items), NEW j \in 1..Len(page2[q].items),
                      At(page2, src, id, p, i), At(page2, src, id, q, j)
               PROVE  p = q /\ i = j
    BY DEF Unique
  <2> DEFINE pp == IF p = t THEN src ELSE p
             qq == IF q = t THEN src ELSE q
             ii == IF p = t THEN h[i] ELSE i
             jj == IF q = t THEN h[j] ELSE j
  <2>1. At(page, t, id, pp, ii) /\ p # src /\ (p = t => i \in 1..Len(g))
    BY <1>1, <1>11
  <2>2. At(page, t, id, qq, jj) /\ q # src /\ (q = t => j \in 1..Len(g))
    BY <1>1, <1>11
  <2>3. pp = qq /\ ii = jj
    <3> HIDE DEF pp, qq, ii, jj
    <3>1. pp \in PageNumbers /\ ii \in 1..Len(page[pp].items)
          /\ qq \in PageNumbers /\ jj \in 1..Len(page[qq].items)
      BY <2>1, <2>2 DEF At
    <3> QED
      BY <1>1, <2>1, <2>2, <3>1 DEF Unique
  <2>4. p = q
    BY <2>1, <2>2, <2>3
  <2>5. CASE p = t
    <3>1. h[i] = h[j] /\ i \in 1..Len(g) /\ j \in 1..Len(g)
      BY <2>1, <2>2, <2>3, <2>4, <2>5
    <3>2. h[i] \in Nat
      BY <3>1, <1>5
    <3>3. ~(i < j) /\ ~(j < i)
      BY <1>5, <3>1, <3>2
    <3> QED
      BY <2>4, <3>1, <3>3
  <2>6. CASE p # t
    BY <2>3, <2>4, <2>6
  <2> QED
    BY <2>5, <2>6
<1>14. ASSUME NEW but PROVE KeptIn(page2, but) = KeptIn(page, but)
  <2>1. /\ Kept(page[t], but) = Total(Weights(page[t].items, but))
        /\ Kept(page[src], but) = Total(Weights(s, but))
    BY <1>1, AmountsType
  <2>2. /\ Kept(page2[t], but) = Total(Weights(page2[t].items, but))
        /\ Kept(page2[src], but) = Total(Weights(page2[src].items, but))
    BY <1>1, <1>9, AmountsType
  <2>3. Total(Weights(<<>>, but)) = 0
    <3>1. <<>> \in Seq(Items) /\ Len(<<>>) = 0
      OBVIOUS
    <3>2. Weights(<<>>, but) \in Seq(Nat) /\ Len(Weights(<<>>, but)) = 0
      BY <3>1, WeightsType
    <3>3. Weights(<<>>, but) = <<>>
      BY <3>2
    <3> QED
      BY <3>2, <3>3, TotalType
  <2>4. Kept(page[t], but) = 0 /\ Kept(page2[src], but) = 0
    BY <1>1, <1>10, <2>1, <2>2, <2>3
  <2>5. Kept(page2[t], but) = Kept(page[src], but)
    <3>1. Total(Weights(g, but)) = Total(Weights(s, but))
      BY <1>3, GatheredWeighs DEF g
    <3> QED
      BY <1>10, <2>1, <2>2, <3>1
  <2>6. \A p \in PageNumbers \ {src, t} : Kept(page2[p], but) = Kept(page[p], but)
    BY <1>8
  <2> HIDE DEF page, t
  <2> QED
    BY <1>1, <1>9, <2>4, <2>5, <2>6, KeptMoves
<1>15. /\ Filled(page2[t]) = Total(Lengths(g))
       /\ Filled(page2[src]) = Total(Lengths(<<>>))
       /\ Filled(page[src]) = Total(Lengths(s))
       /\ Kept(page[src], Nothing) = Total(Weights(s, Nothing))
       /\ Filled(page2[t]) \in Nat /\ Filled(page[src]) \in Nat
       /\ Kept(page[src], Nothing) \in Nat
       /\ KeptIn(page, Nothing) \in Nat
  <2>1. /\ Filled(page2[t]) = Total(Lengths(page2[t].items)) /\ Filled(page2[t]) \in Nat
        /\ Filled(page2[src]) = Total(Lengths(page2[src].items))
    BY <1>1, <1>9, AmountsType
  <2>2. /\ Filled(page[src]) = Total(Lengths(s)) /\ Filled(page[src]) \in Nat
        /\ Kept(page[src], Nothing) = Total(Weights(s, Nothing))
        /\ Kept(page[src], Nothing) \in Nat
        /\ KeptIn(page, Nothing) \in Nat
    BY <1>1, AmountsType
  <2> QED
    BY <1>10, <2>1, <2>2
<1>16. /\ Total(Lengths(g)) = Total(Weights(s, Nothing))
       /\ Total(Weights(s, Nothing)) <= Total(Lengths(s))
       /\ \A j \in 1..Len(s) : ~Active(s[j]) =>
             Total(Lengths(g)) + s[j].size <= Total(Lengths(s))
  BY <1>3, GatheredFills DEF g
<1>17. layout.cap \in Nat /\ layout.live \in Nat
       /\ \A v \in DOMAIN layout.size : layout.size[v] \in Nat
  BY NvocmpAssumption
<1>18. ASSUME NEW p \in PageNumbers
       PROVE  /\ Filled(page2[p]) <= layout.cap
              /\ \A i \in 1..Len(page2[p].items) : page2[p].items[i].size \in Known
  <2>1. CASE p = t
    <3>1. Filled(page2[t]) <= layout.cap
      BY <1>1, <1>15, <1>16, <1>17
    <3>2. \A i \in 1..Len(s) : s[i].size \in Known
      BY <1>1 DEF PagesOK
    <3>3. \A i \in 1..Len(g) : g[i].size \in Known
      BY <1>5, <3>2
    <3> QED
      BY <1>10, <2>1, <3>1, <3>3
  <2>2. CASE p = src
    <3>1. Filled(page2[src]) = 0
      <4>1. <<>> \in Seq(Items) /\ Len(<<>>) = 0
        OBVIOUS
      <4>2. Lengths(<<>>) \in Seq(Nat) /\ Len(Lengths(<<>>)) = 0
        BY <4>1, WeightsType
      <4>3. Lengths(<<>>) = <<>>
        BY <4>2
      <4>4. Total(Lengths(<<>>)) = 0
        BY <4>2, <4>3, TotalType
      <4> QED
        BY <1>15, <4>4
    <3>2. 1..Len(page2[src].items) = {}
      BY <1>10
    <3> QED
      BY <1>17, <2>2, <3>1, <3>2
  <2>3. CASE p # t /\ p # src
    <3>1. page2[p] = page[p]
      BY <1>8, <2>3
    <3> QED
      BY <1>1, <3>1 DEF PagesOK
  <2> QED
    BY <2>1, <2>2, <2>3
<1>19. \A p \in PageNumbers : page2[p].state = "xdst" <=> p = src
  BY <1>1, <1>8, <1>10 DEF PagesOK
<1>20. PagesOK(page2, src)
  <2>1. KeptIn(page2, Nothing) <= layout.live
    BY <1>1, <1>14
  <2> HIDE DEF page, t
  <2> QED
    BY <1>1, <1>9, <1>10, <1>13, <1>18, <1>19, <2>1 DEF PagesOK
<1>21. StoreOK(m)
  <2> HIDE DEF m, t
  <2> QED
    BY <1>1, <1>2, <1>20 DEF StoreOK
<1>22. ASSUME ~AllActive(page[src]), NEW n \in Known
       PROVE  Filled(page2[t]) + n <= layout.cap
  <2>1. PICK w \in DOMAIN layout.size : n = layout.size[w]
    BY <1>22 DEF Known
  <2>2. n \in Nat
    BY <1>17, <2>1
  <2>3. PICK j \in 1..Len(s) : ~Active(s[j])
    BY <1>3, <1>22 DEF AllActive
  <2>4. s[j].size \in Known
    BY <1>1 DEF PagesOK
  <2>5. PICK u \in DOMAIN layout.size : s[j].size = layout.size[u]
    BY <2>4 DEF Known
  <2>6. CASE \A v, x \in DOMAIN layout.size : layout.size[v] = layout.size[x]
    <3>1. s[j].size = n
      BY <2>1, <2>5, <2>6
    <3>2. Filled(page2[t]) + n <= Filled(page[src])
      BY <1>15, <1>16, <2>3, <3>1
    <3>3. Filled(page[src]) <= layout.cap
      BY <1>1
    <3> HIDE DEF page, t
    <3> QED
      BY <1>15, <1>17, <2>2, <3>2, <3>3
  <2>7. CASE \A v \in DOMAIN layout.size : layout.live + layout.size[v] <= layout.cap
    <3>1. layout.live + n <= layout.cap
      BY <2>1, <2>7
    <3>2. Kept(page[src], Nothing) <= KeptIn(page, Nothing)
      BY <1>1, KeptOnOne
    <3>3. Filled(page2[t]) = Kept(page[src], Nothing)
      BY <1>15, <1>16
    <3> HIDE DEF page, t
    <3> QED
      BY <1>1, <1>15, <1>17, <2>2, <3>1, <3>2, <3>3
  <2> QED
    BY <2>6, <2>7, RoomAssumption
<1> QED
  BY <1>1, <1>2, <1>10, <1>12, <1>14, <1>21, <1>22 DEF m, page, t
\* NVOCMP_compactPage changes the spare page only when that makes room.
LEMMA CompactKeeps ==
  ASSUME NEW store, StoreOK(store), layout \in Layouts
  PROVE  LET c == CompactPage(store) IN
         /\ StoreOK(c)
         /\ \A id, v : Has(c.page, c.tail, id, v) <=> Has(store.page, store.tail, id, v)
         /\ \A but : KeptIn(c.page, but) = KeptIn(store.page, but)
         /\ c.tail # store.tail =>
               /\ c.page[c.act].state = "act"
               /\ \A n \in Known : Filled(c.page[c.act]) + n <= layout.cap
<1> DEFINE skips == {k \in 0..Pages - 2 :
                        ~AllActive(store.page[IncPage(HeadPage(store), k)])}
           src   == IncPage(HeadPage(store), Min(skips))
           c     == CompactPage(store)
<1>0. store.tail \in PageNumbers
  BY DEF StoreOK, PagesOK
<1>1. c = IF skips = {} THEN [store EXCEPT !.failW = FALSE] ELSE Move(store, src)
  BY DEF CompactPage
<1>2. CASE skips = {}
  <2>1. c = store
    BY <1>1, <1>2 DEF StoreOK
  <2> QED
    BY <2>1
<1>3. CASE skips # {}
  <2>1. Min(skips) \in skips
    <3>1. skips \subseteq PageNumbers
      BY NvocmpAssumption DEF PageNumbers
    <3> HIDE DEF skips
    <3> QED
      BY <1>3, <3>1, Extremes
  <2>2. ~AllActive(store.page[src]) /\ Min(skips) \in 0..Pages - 2
    BY <2>1
  <2>3. src \in PageNumbers \ {store.tail}
    <3> HIDE DEF skips
    <3> QED
      BY <1>0, <2>2, SourceIsOther
  <2>4. c = Move(store, src)
    BY <1>1, <1>3
  <2> HIDE DEF src, c
  <2> QED
    BY <2>2, <2>3, <2>4, MoveKeeps DEF c
<1> QED
  BY <1>2, <1>3

\* The parts of a store that is as it should be.
LEMMA StoreParts ==
  ASSUME NEW store, StoreOK(store)
  PROVE  /\ store = [page |-> store.page, act |-> store.act, tail |-> store.tail,
                     failW |-> FALSE]
         /\ PagesOK(store.page, store.tail)
         /\ store.page \in AllPages /\ store.tail \in PageNumbers
         /\ store.act \in PageNumbers /\ store.act # store.tail /\ store.failW = FALSE
         /\ Unique(store.page, store.tail)
  BY DEF StoreOK, PagesOK

\* Sequences of the same elements are the same.
LEMMA SameElements ==
  ASSUME NEW D, NEW a \in Seq(D), NEW b \in Seq(D), Len(a) = Len(b),
         \A j \in 1..Len(b) : a[j] = b[j]
  PROVE  a = b
  OBVIOUS

\* r is the store without an item.
Without(store, r, id) ==
    /\ StoreOK(r) /\ r.act = store.act /\ r.tail = store.tail
    /\ \A q \in PageNumbers : /\ Filled(r.page[q]) = Filled(store.page[q])
                              /\ r.page[q].state = store.page[q].state
    /\ \A q, j : ~At(r.page, r.tail, id, q, j)
    /\ \A other, v : other \in Ids \ {id} =>
          (Has(r.page, r.tail, other, v) <=> Has(store.page, store.tail, other, v))
    /\ KeptIn(r.page, Nothing) = KeptIn(store.page, id)
    /\ KeptIn(store.page, id) <= KeptIn(store.page, Nothing)

\* Marking the only copy of an item leaves all others, and as much as is kept without it.
LEMMA RemoveKeeps ==
  ASSUME NEW store, StoreOK(store), layout \in Layouts,
         NEW id \in Ids, NEW p, NEW i, At(store.page, store.tail, id, p, i)
  PROVE  Without(store, SetItemInactive(store, <<p, i>>), id)
<1> DEFINE page == store.page
           t == store.tail
           s == page[p].items
           x == Inactive(s[i])
           s2 == [s EXCEPT ![i] = x]
           page2 == [page EXCEPT ![p] = [state |-> page[p].state, items |-> s2]]
           r == SetItemInactive(store, <<p, i>>)
<1>1. /\ store = [page |-> page, act |-> store.act, tail |-> t, failW |-> FALSE]
      /\ PagesOK(page, t)
      /\ page \in AllPages /\ t \in PageNumbers
      /\ store.act \in PageNumbers /\ store.act # t
      /\ Unique(page, t)
  BY StoreParts
<1>2. p \in PageNumbers /\ p # t /\ i \in 1..Len(s) /\ s[i].id = id /\ Active(s[i])
  BY DEF At
<1>3. /\ s \in Seq(Items) /\ page[p].state \in States
      /\ page[p] = [state |-> page[p].state, items |-> s]
      /\ s[i] \in Items /\ Len(s) \in Nat
  BY <1>1, <1>2, PageTypes
<1>4. x \in Items /\ x.size = s[i].size /\ ~Active(x) /\ x.val = Nothing /\ x.id = Nothing
  <2>1. s[i].size \in Nat
    BY <1>2, <1>3, ActiveItems
  <2> QED
    BY <2>1 DEF Inactive, Items, Active
<1> HIDE DEF x
<1>5. /\ s2 \in Seq(Items) /\ Len(s2) = Len(s)
      /\ s2[i] = x /\ \A j \in 1..Len(s) : j # i => s2[j] = s[j]
  BY <1>2, <1>3, <1>4
<1>6. /\ r = [page |-> r.page, act |-> r.act, tail |-> r.tail, failW |-> r.failW]
      /\ r.page = page2 /\ r.act = store.act /\ r.tail = t /\ r.failW = FALSE
  <2> DEFINE page3 == [page EXCEPT ![p].items[i] = x]
  <2>1. r = [[store EXCEPT !.page = page3] EXCEPT !.failW = FALSE]
    BY DEF SetItemInactive, x
  <2>2. page3 = [page EXCEPT ![p] = [page[p] EXCEPT !.items = s2]]
    OBVIOUS
  <2>3. [page[p] EXCEPT !.items = s2] = [state |-> page[p].state, items |-> s2]
    <3> DEFINE y == page[p]
    <3>1. y = [state |-> y.state, items |-> y.items]
      BY <1>3
    <3> HIDE DEF y, s2
    <3>2. [y EXCEPT !.items = s2] = [state |-> y.state, items |-> s2]
      BY <3>1
    <3> QED
      BY <3>2 DEF y
  <2>4. page3 = page2
    BY <2>2, <2>3
  <2> HIDE DEF page2, page3, r
  <2> QED
    BY <1>1, <2>1, <2>4
<1> HIDE DEF s2, r
<1>7. /\ page2[p] = [state |-> page[p].state, items |-> s2]
      /\ \A q \in PageNumbers \ {p} : page2[q] = page[q]
      /\ page2 = [q \in PageNumbers |-> page2[q]]
  BY <1>1, <1>2 DEF AllPages
<1> HIDE DEF page2
<1>8. page2 \in AllPages
  <2>1. \A q \in PageNumbers : page[q] \in [state : States, items : Seq(Items)]
    BY <1>1 DEF AllPages
  <2>2. page2[p] \in [state : States, items : Seq(Items)]
    BY <1>3, <1>5, <1>7
  <2>3. \A q \in PageNumbers : page2[q] \in [state : States, items : Seq(Items)]
    BY <1>7, <2>1, <2>2
  <2>4. page2 \in [PageNumbers -> [state : States, items : Seq(Items)]]
    BY <1>7, <2>3
  <2> QED
    BY <2>4 DEF AllPages
<1>9. page2[p].items = s2 /\ page2[p].state = page[p].state
  BY <1>7
<1>10. ASSUME NEW other, NEW q, NEW j
       PROVE  At(page2, t, other, q, j) <=> At(page, t, other, q, j) /\ <<q, j>> # <<p, i>>
  <2>1. CASE q = p
    <3>1. CASE j = i
      BY <1>4, <1>5, <1>9, <2>1, <3>1 DEF At
    <3>2. CASE j # i
      <4>1. j \in 1..Len(s) => s2[j] = s[j]
        BY <1>5, <3>2
      <4> QED
        BY <1>5, <1>9, <2>1, <3>2, <4>1 DEF At
    <3> QED
      BY <3>1, <3>2
  <2>2. CASE q # p
    <3>1. q \in PageNumbers => page2[q] = page[q]
      BY <1>7, <2>2
    <3> QED
      BY <2>2, <3>1 DEF At
  <2> QED
    BY <2>1, <2>2
<1>11. ASSUME NEW q, NEW j PROVE ~At(page2, t, id, q, j)
  <2>1. ASSUME At(page, t, id, q, j) PROVE q = p /\ j = i
    <3>1. q \in PageNumbers /\ j \in 1..Len(page[q].items)
      BY <2>1 DEF At
    <3> QED
      BY <1>1, <1>2, <2>1, <3>1 DEF Unique
  <2> QED
    BY <1>10, <2>1
<1>12. ASSUME NEW q \in PageNumbers
       PROVE  Len(page2[q].items) = Len(page[q].items) /\ page2[q].state = page[q].state
  BY <1>5, <1>7, <1>9
<1>13. ASSUME NEW other \in Ids \ {id}, NEW v
       PROVE  Has(page2, t, other, v) <=> Has(page, t, other, v)
  <2>1. ASSUME NEW q \in PageNumbers, NEW j \in 1..Len(page[q].items)
        PROVE  /\ At(page2, t, other, q, j) <=> At(page, t, other, q, j)
               /\ At(page, t, other, q, j) => page2[q].items[j] = page[q].items[j]
    <3>1. At(page, t, other, q, j) => ~(q = p /\ j = i)
      BY <1>2 DEF At
    <3>2. ~(q = p /\ j = i) => page2[q].items[j] = page[q].items[j]
      BY <1>5, <1>7, <1>9
    <3> QED
      BY <1>10, <3>1, <3>2
  <2> QED
    BY <1>12, <2>1 DEF Has
<1>14. Unique(page2, t)
  <2> SUFFICES ASSUME NEW other \in Ids, NEW q \in PageNumbers, NEW u \in PageNumbers,
                      NEW j \in 1..Len(page2[q].items), NEW k \in 1..Len(page2[u].items),
                      At(page2, t, other, q, j), At(page2, t, other, u, k)
               PROVE  q = u /\ j = k
    BY DEF Unique
  <2>1. At(page, t, other, q, j) /\ At(page, t, other, u, k)
    BY <1>10
  <2>2. j \in 1..Len(page[q].items) /\ k \in 1..Len(page[u].items)
    BY <1>12
  <2> QED
    BY <1>1, <2>1, <2>2 DEF Unique
<1>15. ASSUME NEW q \in PageNumbers, NEW j \in 1..Len(page[q].items)
       PROVE  /\ page2[q].items[j].size = page[q].items[j].size
              /\ page[q].items[j].size \in Known
              /\ page2[q].items[j] \in Items /\ page[q].items[j] \in Items
  <2>1. page2[q].items[j].size = page[q].items[j].size
    BY <1>4, <1>5, <1>7, <1>9
  <2>2. page[q].items[j].size \in Known
    BY <1>1 DEF PagesOK
  <2>3. page[q].items[j] \in Items
    BY <1>1, PageTypes
  <2>4. page2[q].items[j] \in Items
    BY <1>8, <1>12, PageTypes
  <2> QED
    BY <2>1, <2>2, <2>3, <2>4
<1>16. ASSUME NEW q \in PageNumbers
       PROVE  Filled(page2[q]) = Filled(page[q])
  <2>1. Filled(page2[q]) = Total(Lengths(page2[q].items))
        /\ Filled(page[q]) = Total(Lengths(page[q].items))
    BY <1>1, <1>8, AmountsType
  <2>2. page2[q].items \in Seq(Items) /\ page[q].items \in Seq(Items)
    BY <1>1, <1>8, PageTypes
  <2>3. /\ Lengths(page2[q].items) \in Seq(Nat) /\ Len(Lengths(page2[q].items)) = Len(page[q].items)
        /\ \A j \in 1..Len(page[q].items) : Lengths(page2[q].items)[j] = page2[q].items[j].size
    BY <1>12, <2>2, WeightsType
  <2>4. /\ Lengths(page[q].items) \in Seq(Nat) /\ Len(Lengths(page[q].items)) = Len(page[q].items)
        /\ \A j \in 1..Len(page[q].items) : Lengths(page[q].items)[j] = page[q].items[j].size
    BY <2>2, WeightsType
  <2>5. \A j \in 1..Len(page[q].items) : Lengths(page2[q].items)[j] = Lengths(page[q].items)[j]
    BY <1>15, <2>3, <2>4
  <2>6. Lengths(page2[q].items) = Lengths(page[q].items)
    BY <2>3, <2>4, <2>5, SameElements
  <2> QED
    BY <2>1, <2>6
<1>17. KeptIn(page2, Nothing) = KeptIn(page, id)
  <2>1. ASSUME NEW q \in PageNumbers
        PROVE  Kept(page2[q], Nothing) = Kept(page[q], id)
    <3> DEFINE a == Weights(page2[q].items, Nothing)
               b == Weights(page[q].items, id)
    <3>1. page2[q].items \in Seq(Items) /\ page[q].items \in Seq(Items)
      BY <1>1, <1>8, PageTypes
    <3>2. a \in Seq(Nat) /\ Len(a) = Len(page2[q].items)
          /\ b \in Seq(Nat) /\ Len(b) = Len(page[q].items)
      BY <3>1, WeightsType
    <3>3. ASSUME NEW j \in 1..Len(page[q].items) PROVE a[j] = b[j]
      <4> DEFINE y == page2[q].items[j]
                 z == page[q].items[j]
      <4>1. a[j] = IF Active(y) THEN y.size ELSE 0
        BY <1>12, <3>1, WeighsAll
      <4>2. b[j] = IF Active(z) /\ z.id # id THEN z.size ELSE 0
        BY <3>1, WeighsBut
      <4>3. CASE q = p /\ j = i
        <5>1. ~Active(y) /\ z.id = id
          BY <1>2, <1>4, <1>5, <1>9, <4>3
        <5> QED
          BY <4>1, <4>2, <5>1
      <4>4. CASE ~(q = p /\ j = i)
        <5>1. y = z
          BY <1>5, <1>7, <1>9, <4>4
        <5>2. ~(Active(z) /\ z.id = id)
          <6>1. CASE q = t
            BY <1>1, <6>1 DEF PagesOK
          <6>2. CASE q # t
            <7>1. ASSUME Active(z) /\ z.id = id PROVE FALSE
              <8>1. At(page, t, id, q, j)
                BY <6>2, <7>1 DEF At
              <8> QED
                BY <1>1, <1>2, <4>4, <8>1 DEF Unique
            <7> QED
              BY <7>1
          <6> QED
            BY <6>1, <6>2
        <5> QED
          BY <4>1, <4>2, <5>1, <5>2
      <4> QED
        BY <4>3, <4>4
    <3>4. a = b
      <4>1. Len(a) = Len(b) /\ \A j \in 1..Len(b) : a[j] = b[j]
        BY <1>12, <3>2, <3>3
      <4> HIDE DEF a, b
      <4> QED
        BY <3>2, <4>1, SameElements
    <3>5. Kept(page2[q], Nothing) = Total(a) /\ Kept(page[q], id) = Total(b)
      BY <1>1, <1>8, AmountsType
    <3> QED
      BY <3>4, <3>5
  <2> HIDE DEF page
  <2> QED
    BY <1>1, <1>8, <2>1, KeptSame
<1>18. KeptIn(page, id) <= KeptIn(page, Nothing)
  <2>1. ASSUME NEW q \in PageNumbers
        PROVE  Kept(page[q], id) <= Kept(page[q], Nothing)
    <3> DEFINE a == Weights(page[q].items, id)
               b == Weights(page[q].items, Nothing)
    <3>1. page[q].items \in Seq(Items)
      BY <1>1, PageTypes
    <3>2. a \in Seq(Nat) /\ Len(a) = Len(page[q].items)
          /\ b \in Seq(Nat) /\ Len(b) = Len(page[q].items)
      BY <3>1, WeightsType
    <3>3. ASSUME NEW j \in 1..Len(b) PROVE a[j] <= b[j]
      <4> DEFINE z == page[q].items[j]
      <4>0. j \in 1..Len(page[q].items)
        BY <3>2
      <4>1. a[j] = IF Active(z) /\ z.id # id THEN z.size ELSE 0
        BY <3>1, <4>0, WeighsBut
      <4>2. b[j] = (IF Active(z) THEN z.size ELSE 0) /\ z.size \in Nat
        BY <3>1, <4>0, WeighsAll
      <4> QED
        BY <4>1, <4>2
    <3>4. Total(a) <= Total(b)
      <4> HIDE DEF a, b
      <4> QED
        BY <3>2, <3>3, TotalMonotone
    <3>5. Kept(page[q], Nothing) = Total(b) /\ Kept(page[q], id) = Total(a)
      BY <1>1, AmountsType
    <3> QED
      BY <3>4, <3>5
  <2> HIDE DEF page
  <2> QED
    BY <1>1, <2>1, KeptMonotone
<1>19. PagesOK(page2, t)
  <2>1. KeptIn(page2, Nothing) <= layout.live
    <3>1. KeptIn(page, Nothing) <= layout.live
      BY <1>1 DEF PagesOK
    <3>2. KeptIn(page, Nothing) \in Nat /\ KeptIn(page, id) \in Nat
      BY <1>1, AmountsType
    <3>3. layout.live \in Nat
      BY NvocmpAssumption
    <3> HIDE DEF page
    <3> QED
      BY <1>17, <1>18, <3>1, <3>2, <3>3
  <2>2. page2[t].items = <<>>
    BY <1>1, <1>2, <1>7 DEF PagesOK
  <2>3. \A q \in PageNumbers : page2[q].state = "xdst" <=> q = t
    BY <1>1, <1>12 DEF PagesOK
  <2>4. ASSUME NEW q \in PageNumbers
        PROVE  /\ Filled(page2[q]) <= layout.cap
               /\ \A j \in 1..Len(page2[q].items) : page2[q].items[j].size \in Known
    <3>1. Filled(page2[q]) <= layout.cap
      BY <1>1, <1>16 DEF PagesOK
    <3>2. ASSUME NEW j \in 1..Len(page2[q].items) PROVE page2[q].items[j].size \in Known
      BY <1>12, <1>15
    <3> QED
      BY <3>1, <3>2
  <2> HIDE DEF page, t
  <2> QED
    BY <1>1, <1>8, <1>14, <2>1, <2>2, <2>3, <2>4 DEF PagesOK
<1>20. StoreOK(r)
  <2> HIDE DEF page, t
  <2> QED
    BY <1>1, <1>6, <1>19 DEF StoreOK
<1> QED
  <2>1. /\ r.act = store.act /\ r.tail = store.tail
        /\ \A q \in PageNumbers : /\ Filled(r.page[q]) = Filled(store.page[q])
                                  /\ r.page[q].state = store.page[q].state
    BY <1>6, <1>12, <1>16
  <2>2. /\ \A q, j : ~At(r.page, r.tail, id, q, j)
        /\ \A other, v : other \in Ids \ {id} =>
              (Has(r.page, r.tail, other, v) <=> Has(store.page, store.tail, other, v))
        /\ KeptIn(r.page, Nothing) = KeptIn(store.page, id)
        /\ KeptIn(store.page, id) <= KeptIn(store.page, Nothing)
    BY <1>6, <1>11, <1>13, <1>17, <1>18
  <2>3. Without(store, r, id)
    BY <1>20, <2>1, <2>2, Zenon DEF Without
  <2> QED
    BY <2>3 DEF r
\* The places with one more.
LEMMA OneMore ==
  ASSUME NEW m \in Nat
  PROVE  \A j : j \in 1..m + 1 <=> j \in 1..m \/ j = m + 1
  OBVIOUS

\* An item written at the end of the active page.
Appended(store, x) ==
    [store EXCEPT !.page[store.act].items = Append(@, x), !.failW = FALSE]

\* An item that is written at the end of the active page is there, with all others.
LEMMA AppendKeeps ==
  ASSUME NEW store, StoreOK(store), layout \in Layouts,
         NEW x \in Items, Active(x), x.size \in Known,
         Filled(store.page[store.act]) + x.size <= layout.cap,
         \A q, j : ~At(store.page, store.tail, x.id, q, j),
         x.size + KeptIn(store.page, Nothing) <= layout.live
  PROVE  LET r == Appended(store, x) IN
         /\ StoreOK(r) /\ r.act = store.act /\ r.tail = store.tail
         /\ \A v : Has(r.page, r.tail, x.id, v) <=> v = x.val
         /\ \A other, v : other # x.id =>
               (Has(r.page, r.tail, other, v) <=> Has(store.page, store.tail, other, v))
<1> DEFINE page == store.page
           t == store.tail
           p == store.act
           s == page[p].items
           n == Len(s) + 1
           s2 == Append(s, x)
           page2 == [page EXCEPT ![p] = [state |-> page[p].state, items |-> s2]]
           r == Appended(store, x)
<1>1. /\ store = [page |-> page, act |-> p, tail |-> t, failW |-> FALSE]
      /\ PagesOK(page, t)
      /\ page \in AllPages /\ t \in PageNumbers
      /\ p \in PageNumbers /\ p # t
      /\ Unique(page, t)
  BY StoreParts
<1>2. /\ s \in Seq(Items) /\ page[p].state \in States
      /\ page[p] = [state |-> page[p].state, items |-> s]
      /\ Len(s) \in Nat
  BY <1>1, PageTypes
<1>3. x.id \in Ids /\ x.val \in Vals /\ x.id # Nothing /\ x.size \in Nat
  BY ActiveItems
<1>4. /\ s2 \in Seq(Items) /\ Len(s2) = n /\ s2[n] = x /\ n \in Nat /\ n = Len(s) + 1
      /\ \A j \in 1..Len(s) : s2[j] = s[j]
      /\ \A j : j \in 1..n <=> j \in 1..Len(s) \/ j = n
  <2>1. \A j : j \in 1..n <=> j \in 1..Len(s) \/ j = n
    BY <1>2, OneMore, Zenon
  <2>2. /\ s2 \in Seq(Items) /\ Len(s2) = n /\ s2[n] = x /\ n \in Nat /\ n = Len(s) + 1
        /\ \A j \in 1..Len(s) : s2[j] = s[j]
    BY <1>2
  <2> QED
    BY <2>1, <2>2, Zenon
<1>5. /\ r = [page |-> r.page, act |-> r.act, tail |-> r.tail, failW |-> r.failW]
      /\ r.page = page2 /\ r.act = p /\ r.tail = t /\ r.failW = FALSE
  <2> DEFINE page3 == [page EXCEPT ![p].items = Append(@, x)]
  <2>1. r = [[store EXCEPT !.page = page3] EXCEPT !.failW = FALSE]
    BY DEF Appended
  <2>2. page3 = [page EXCEPT ![p] = [page[p] EXCEPT !.items = s2]]
    OBVIOUS
  <2>3. [page[p] EXCEPT !.items = s2] = [state |-> page[p].state, items |-> s2]
    <3> DEFINE y == page[p]
    <3>1. y = [state |-> y.state, items |-> y.items]
      BY <1>2
    <3> HIDE DEF y, s2
    <3>2. [y EXCEPT !.items = s2] = [state |-> y.state, items |-> s2]
      BY <3>1
    <3> QED
      BY <3>2 DEF y
  <2>4. page3 = page2
    BY <2>2, <2>3
  <2> HIDE DEF page2, page3, r
  <2> QED
    BY <1>1, <2>1, <2>4
<1> HIDE DEF s2, r, n
<1>6. /\ page2[p] = [state |-> page[p].state, items |-> s2]
      /\ \A q \in PageNumbers \ {p} : page2[q] = page[q]
      /\ page2 = [q \in PageNumbers |-> page2[q]]
  BY <1>1 DEF AllPages
<1> HIDE DEF page2
<1>7. page2 \in AllPages
  <2>1. \A q \in PageNumbers : page[q] \in [state : States, items : Seq(Items)]
    BY <1>1 DEF AllPages
  <2>2. page2[p] \in [state : States, items : Seq(Items)]
    BY <1>2, <1>4, <1>6
  <2>3. \A q \in PageNumbers : page2[q] \in [state : States, items : Seq(Items)]
    BY <1>6, <2>1, <2>2
  <2>4. page2 \in [PageNumbers -> [state : States, items : Seq(Items)]]
    BY <1>6, <2>3
  <2> QED
    BY <2>4 DEF AllPages
<1>8. page2[p].items = s2 /\ page2[p].state = page[p].state
  BY <1>6
<1>9. ASSUME NEW other, NEW q, NEW j
      PROVE  At(page2, t, other, q, j)
                <=> At(page, t, other, q, j) \/ (other = x.id /\ q = p /\ j = n)
  <2>1. CASE q = p
    <3>1. At(page2, t, other, q, j) <=> j \in 1..n /\ s2[j].id = other /\ Active(s2[j])
      BY <1>1, <1>4, <1>8, <2>1 DEF At
    <3>2. At(page, t, other, q, j)
            <=> j \in 1..Len(s) /\ s[j].id = other /\ Active(s[j])
      BY <1>1, <2>1 DEF At
    <3>3. CASE j = n
      <4>1. j \notin 1..Len(s)
        BY <1>2, <1>4, <3>3
      <4> QED
        BY <1>4, <2>1, <3>1, <3>2, <3>3, <4>1
    <3>4. CASE j # n
      BY <1>4, <2>1, <3>1, <3>2, <3>4
    <3> QED
      BY <3>3, <3>4
  <2>2. CASE q # p
    <3>1. q \in PageNumbers => page2[q] = page[q]
      BY <1>6, <2>2
    <3> QED
      BY <2>2, <3>1 DEF At
  <2> QED
    BY <2>1, <2>2
<1>10. ASSUME NEW other, NEW v, other # x.id
       PROVE  Has(page2, t, other, v) <=> Has(page, t, other, v)
  <2>1. ASSUME NEW q, NEW j, At(page, t, other, q, j)
        PROVE  /\ q \in PageNumbers /\ j \in 1..Len(page[q].items)
               /\ j \in 1..Len(page2[q].items)
               /\ page2[q].items[j] = page[q].items[j]
    <3>1. q \in PageNumbers /\ j \in 1..Len(page[q].items)
      BY <2>1 DEF At
    <3>2. CASE q = p
      BY <1>4, <1>8, <3>1, <3>2
    <3>3. CASE q # p
      BY <1>6, <3>1, <3>3
    <3> QED
      BY <3>1, <3>2, <3>3
  <2>2. \A q, j : At(page2, t, other, q, j) <=> At(page, t, other, q, j)
    BY <1>9, <1>10
  <2> QED
    BY <2>1, <2>2 DEF Has
<1>11. ASSUME NEW v PROVE Has(page2, t, x.id, v) <=> v = x.val
  <2>1. \A q, j : At(page2, t, x.id, q, j) <=> q = p /\ j = n
    BY <1>9
  <2>2. n \in 1..Len(page2[p].items) /\ page2[p].items[n] = x
    BY <1>4, <1>8
  <2> QED
    BY <1>1, <2>1, <2>2 DEF Has
<1>12. Unique(page2, t)
  <2> SUFFICES ASSUME NEW other \in Ids, NEW q \in PageNumbers, NEW u \in PageNumbers,
                      NEW j \in 1..Len(page2[q].items), NEW k \in 1..Len(page2[u].items),
                      At(page2, t, other, q, j), At(page2, t, other, u, k)
               PROVE  q = u /\ j = k
    BY DEF Unique
  <2>1. CASE other = x.id
    BY <1>9, <2>1
  <2>2. CASE other # x.id
    <3>1. At(page, t, other, q, j) /\ At(page, t, other, u, k)
      BY <1>9, <2>2
    <3>2. j \in 1..Len(page[q].items) /\ k \in 1..Len(page[u].items)
      BY <3>1 DEF At
    <3> QED
      BY <1>1, <3>1, <3>2 DEF Unique
  <2> QED
    BY <2>1, <2>2
<1>13. /\ Filled(page2[p]) = Filled(page[p]) + x.size
       /\ Kept(page2[p], Nothing) = Kept(page[p], Nothing) + x.size
  <2>1. /\ Total(Weights(s2, Nothing)) =
             Total(Weights(s, Nothing)) + (IF Active(x) /\ x.id # Nothing THEN x.size ELSE 0)
        /\ Total(Lengths(s2)) = Total(Lengths(s)) + x.size
    BY <1>2, WeightsAppend DEF s2
  <2>2. /\ Filled(page[p]) = Total(Lengths(s))
        /\ Kept(page[p], Nothing) = Total(Weights(s, Nothing))
    BY <1>1, AmountsType
  <2>3. /\ Filled(page2[p]) = Total(Lengths(page2[p].items))
        /\ Kept(page2[p], Nothing) = Total(Weights(page2[p].items, Nothing))
    BY <1>1, <1>7, AmountsType
  <2> QED
    BY <1>3, <1>8, <2>1, <2>2, <2>3
<1>14. KeptIn(page2, Nothing) <= layout.live
  <2>1. \A q \in PageNumbers : q # p => Kept(page2[q], Nothing) = Kept(page[q], Nothing)
    BY <1>6
  <2>2. KeptIn(page2, Nothing) + Kept(page[p], Nothing)
          = KeptIn(page, Nothing) + Kept(page2[p], Nothing)
    <3> HIDE DEF page, p
    <3> QED
      BY <1>1, <1>7, <2>1, KeptDiffers
  <2>3. /\ KeptIn(page2, Nothing) \in Nat /\ KeptIn(page, Nothing) \in Nat
        /\ Kept(page[p], Nothing) \in Nat
    BY <1>1, <1>7, AmountsType
  <2>4. x.size + KeptIn(page, Nothing) <= layout.live /\ layout.live \in Nat
    BY NvocmpAssumption
  <2> HIDE DEF page, p
  <2> QED
    BY <1>3, <1>13, <2>2, <2>3, <2>4
<1>15. ASSUME NEW q \in PageNumbers
       PROVE  /\ Filled(page2[q]) <= layout.cap
              /\ \A j \in 1..Len(page2[q].items) : page2[q].items[j].size \in Known
              /\ page2[q].state = "xdst" <=> q = t
  <2>1. CASE q = p
    <3>1. \A j \in 1..Len(s) : s[j].size \in Known
      BY <1>1 DEF PagesOK
    <3>2. \A j \in 1..Len(s2) : s2[j].size \in Known
      BY <1>4, <3>1
    <3>3. page[p].state # "xdst"
      BY <1>1 DEF PagesOK
    <3> QED
      BY <1>1, <1>8, <1>13, <2>1, <3>2, <3>3
  <2>2. CASE q # p
    <3>1. page2[q] = page[q]
      BY <1>6, <2>2
    <3> QED
      BY <1>1, <3>1 DEF PagesOK
  <2> QED
    BY <2>1, <2>2
<1>16. PagesOK(page2, t)
  <2>1. page2[t].items = <<>>
    BY <1>1, <1>6 DEF PagesOK
  <2> HIDE DEF page, t
  <2> QED
    BY <1>1, <1>7, <1>12, <1>14, <1>15, <2>1 DEF PagesOK
<1>17. StoreOK(r)
  <2> HIDE DEF page, t, p
  <2> QED
    BY <1>1, <1>5, <1>16 DEF StoreOK
<1> QED
  BY <1>5, <1>10, <1>11, <1>17 DEF r

\* Without a copy of an item, what is kept is what is kept but for it.
LEMMA KeptWithout ==
  ASSUME NEW page, NEW t, PagesOK(page, t), NEW id \in Ids,
         \A q, j : ~At(page, t, id, q, j)
  PROVE  KeptIn(page, id) = KeptIn(page, Nothing)
<1>1. page \in AllPages /\ t \in PageNumbers
  BY DEF PagesOK
<1>2. ASSUME NEW q \in PageNumbers
      PROVE  Kept(page[q], id) = Kept(page[q], Nothing)
  <2> DEFINE a == Weights(page[q].items, id)
             b == Weights(page[q].items, Nothing)
  <2>1. page[q].items \in Seq(Items)
    BY <1>1, PageTypes
  <2>2. a \in Seq(Nat) /\ Len(a) = Len(page[q].items)
        /\ b \in Seq(Nat) /\ Len(b) = Len(page[q].items)
    BY <2>1, WeightsType
  <2>3. ASSUME NEW j \in 1..Len(page[q].items) PROVE a[j] = b[j]
    <3> DEFINE z == page[q].items[j]
    <3>1. a[j] = IF Active(z) /\ z.id # id THEN z.size ELSE 0
      BY <2>1, WeightsType
    <3>2. b[j] = IF Active(z) THEN z.size ELSE 0
      BY <2>1, WeighsAll
    <3>3. ~(Active(z) /\ z.id = id)
      <4>1. CASE q = t
        BY <4>1 DEF PagesOK
      <4>2. CASE q # t
        BY <4>2 DEF At
      <4> QED
        BY <4>1, <4>2
    <3> QED
      BY <3>1, <3>2, <3>3
  <2>4. a = b
    <3>1. Len(a) = Len(b) /\ \A j \in 1..Len(b) : a[j] = b[j]
      BY <2>2, <2>3
    <3> HIDE DEF a, b
    <3> QED
      BY <2>2, <3>1, SameElements
  <2>5. Kept(page[q], Nothing) = Total(b) /\ Kept(page[q], id) = Total(a)
    BY <1>1, AmountsType
  <2> QED
    BY <2>4, <2>5
<1> QED
  BY <1>1, <1>2, KeptSame

\* An older copy that is marked after the item is written might as well be marked before.
LEMMA MarkAndAppend ==
  ASSUME NEW store, StoreOK(store), NEW x, NEW id, NEW q, NEW j,
         At(store.page, store.tail, id, q, j), x \in Items
  PROVE  SetItemInactive(Appended(store, x), <<q, j>>)
            = Appended(SetItemInactive(store, <<q, j>>), x)
<1> DEFINE page == store.page
           p == store.act
           s == page[q].items
           e == page[p].items
           y == Inactive(s[j])
<1>1. /\ store = [page |-> page, act |-> p, tail |-> store.tail, failW |-> FALSE]
      /\ page \in AllPages /\ p \in PageNumbers
  BY StoreParts
<1>2. q \in PageNumbers /\ j \in 1..Len(s)
  BY DEF At
<1>3. /\ s \in Seq(Items) /\ Len(s) \in Nat /\ e \in Seq(Items)
      /\ page[q] = [state |-> page[q].state, items |-> s]
      /\ page[p] = [state |-> page[p].state, items |-> e]
  BY <1>1, <1>2, PageTypes
<1> DEFINE new == Appended(store, x)
           r   == SetItemInactive(store, <<q, j>>)
           page1 == [page EXCEPT ![p].items = Append(@, x)]
           page2 == [page EXCEPT ![q].items[j] = Inactive(@)]
           page3 == [page1 EXCEPT ![q].items[j] = Inactive(@)]
           page4 == [page2 EXCEPT ![p].items = Append(@, x)]
<1>4. new = [page |-> page1, act |-> p, tail |-> store.tail, failW |-> FALSE]
  <2>1. new = [[store EXCEPT !.page = page1] EXCEPT !.failW = FALSE]
    BY DEF Appended
  <2> HIDE DEF page1, new
  <2> QED
    BY <1>1, <2>1
<1>5. r = [page |-> page2, act |-> p, tail |-> store.tail, failW |-> FALSE]
  <2>1. r = [[store EXCEPT !.page = page2] EXCEPT !.failW = FALSE]
    BY DEF SetItemInactive
  <2> HIDE DEF page2, r
  <2> QED
    BY <1>1, <2>1
<1>6. page3 = page4
  <2>1. CASE q # p
    <3>1. page1 = [page EXCEPT ![p] = [page[p] EXCEPT !.items = Append(e, x)]]
          /\ page2 = [page EXCEPT ![q] = [page[q] EXCEPT !.items = [s EXCEPT ![j] = y]]]
      OBVIOUS
    <3>2. page1[q] = page[q] /\ page2[p] = page[p]
      BY <1>1, <2>1, <3>1 DEF AllPages
    <3>3. page3 = [page1 EXCEPT ![q] = [page[q] EXCEPT !.items = [s EXCEPT ![j] = y]]]
          /\ page4 = [page2 EXCEPT ![p] = [page[p] EXCEPT !.items = Append(e, x)]]
      BY <3>2
    <3> DEFINE a == [page[q] EXCEPT !.items = [s EXCEPT ![j] = y]]
               b == [page[p] EXCEPT !.items = Append(e, x)]
    <3>4. page3 = [[page EXCEPT ![p] = b] EXCEPT ![q] = a]
          /\ page4 = [[page EXCEPT ![q] = a] EXCEPT ![p] = b]
      BY <3>1, <3>3
    <3> HIDE DEF a, b, page3, page4
    <3> QED
      BY <1>1, <1>2, <2>1, <3>4 DEF AllPages
  <2>2. CASE q = p
    <3> DEFINE a == [s EXCEPT ![j] = y]
               b == Append(s, x)
    <3>1. page1 = [page EXCEPT ![q] = [page[q] EXCEPT !.items = b]]
          /\ page2 = [page EXCEPT ![q] = [page[q] EXCEPT !.items = a]]
      BY <2>2
    <3>2. page1[q].items = b /\ page2[q].items = a
      <4>1. page1[q] = [page[q] EXCEPT !.items = b] /\ page2[q] = [page[q] EXCEPT !.items = a]
        BY <1>1, <1>2, <3>1 DEF AllPages
      <4> DEFINE f == page[q]
      <4>2. f = [state |-> f.state, items |-> f.items]
        BY <1>3
      <4>3. page1[q] = [f EXCEPT !.items = b] /\ page2[q] = [f EXCEPT !.items = a]
        BY <4>1
      <4> HIDE DEF f, a, b, page1, page2
      <4> QED
        BY <4>2, <4>3
    <3>3. b[j] = s[j] /\ [b EXCEPT ![j] = y] = Append(a, x)
      <4>1. y \in Items
        <5>1. s[j] \in Items /\ Active(s[j])
          BY <1>2, <1>3 DEF At
        <5> QED
          BY <5>1, ActiveItems DEF Inactive, Items
      <4> HIDE DEF y, s
      <4>2. b \in Seq(Items) /\ a \in Seq(Items) /\ Len(a) = Len(s) /\ Len(b) = Len(s) + 1
            /\ b[j] = s[j] /\ j \in 1..Len(b)
        BY <1>2, <1>3, <4>1
      <4>3. [b EXCEPT ![j] = y] \in Seq(Items) /\ Append(a, x) \in Seq(Items)
            /\ Len([b EXCEPT ![j] = y]) = Len(Append(a, x))
        <5> HIDE DEF a, b
        <5> QED
          BY <1>3, <4>1, <4>2
      <4>4. ASSUME NEW k \in 1..Len(Append(a, x))
            PROVE  [b EXCEPT ![j] = y][k] = Append(a, x)[k]
        <5>1. Len(Append(a, x)) = Len(s) + 1 /\ Append(a, x)[Len(s) + 1] = x
              /\ \A m \in 1..Len(s) : Append(a, x)[m] = a[m]
          <6> HIDE DEF a
          <6> QED
            BY <4>2
        <5>2. b[Len(s) + 1] = x /\ \A m \in 1..Len(s) : b[m] = s[m]
          BY <1>3
        <5>3. \A m \in 1..Len(b) : [b EXCEPT ![j] = y][m] = IF m = j THEN y ELSE b[m]
          <6> HIDE DEF b
          <6> QED
            BY <4>2
        <5>4. \A m \in 1..Len(s) : a[m] = IF m = j THEN y ELSE s[m]
          BY <1>2, <1>3
        <5>5. k \in 1..Len(b) /\ (k \in 1..Len(s) \/ k = Len(s) + 1) /\ j # Len(s) + 1
          BY <1>2, <1>3, <4>2, <5>1
        <5> HIDE DEF a, b
        <5> QED
          BY <5>1, <5>2, <5>3, <5>4, <5>5
      <4> QED
        BY <4>2, <4>3, <4>4, SameElements
    <3>4. /\ page3 = [page1 EXCEPT ![q] = [page1[q] EXCEPT !.items = [b EXCEPT ![j] = y]]]
          /\ page4 = [page2 EXCEPT ![q] = [page2[q] EXCEPT !.items = Append(a, x)]]
      <4>1. page3 = [page1 EXCEPT ![q] = [page1[q] EXCEPT !.items =
                       [page1[q].items EXCEPT ![j] = Inactive(page1[q].items[j])]]]
        <5> HIDE DEF page1
        <5> QED
          OBVIOUS
      <4>2. page4 = [page2 EXCEPT ![q] = [page2[q] EXCEPT !.items = Append(page2[q].items, x)]]
        <5> HIDE DEF page2
        <5> QED
          BY <2>2
      <4> HIDE DEF page1, page2, page3, page4, a, b
      <4> QED
        BY <3>2, <3>3, <4>1, <4>2
    <3> DEFINE f == page[q]
               c == Append(a, x)
    <3>5. f = [state |-> f.state, items |-> f.items]
      BY <1>3
    <3>6. page1 = [page EXCEPT ![q] = [f EXCEPT !.items = b]]
          /\ page2 = [page EXCEPT ![q] = [f EXCEPT !.items = a]]
      BY <3>1
    <3>7. /\ page3 = [page1 EXCEPT ![q] = [page1[q] EXCEPT !.items = c]]
          /\ page4 = [page2 EXCEPT ![q] = [page2[q] EXCEPT !.items = c]]
      BY <3>3, <3>4
    <3> HIDE DEF a, b, c, f, page1, page2, page3, page4, page
    <3>8. page1[q] = [f EXCEPT !.items = b] /\ page2[q] = [f EXCEPT !.items = a]
      BY <1>1, <1>2, <3>6 DEF AllPages
    <3>9. [[f EXCEPT !.items = b] EXCEPT !.items = c] = [[f EXCEPT !.items = a] EXCEPT !.items = c]
      BY <3>5
    <3>10. /\ page3 = [page1 EXCEPT ![q] = [[f EXCEPT !.items = b] EXCEPT !.items = c]]
           /\ page4 = [page2 EXCEPT ![q] = [[f EXCEPT !.items = b] EXCEPT !.items = c]]
      BY <3>7, <3>8, <3>9
    <3> DEFINE d == [[f EXCEPT !.items = b] EXCEPT !.items = c]
    <3>11. page3 = [page1 EXCEPT ![q] = d] /\ page4 = [page2 EXCEPT ![q] = d]
      BY <3>10
    <3> HIDE DEF d
    <3> QED
      BY <1>1, <1>2, <3>6, <3>11 DEF AllPages
  <2> QED
    BY <2>1, <2>2
<1>7. SetItemInactive(new, <<q, j>>)
        = [page |-> page3, act |-> p, tail |-> store.tail, failW |-> FALSE]
  <2>1. SetItemInactive(new, <<q, j>>)
          = [[new EXCEPT !.page = [new.page EXCEPT ![q].items[j] = Inactive(@)]] EXCEPT !.failW = FALSE]
    <3> HIDE DEF new
    <3> QED
      BY DEF SetItemInactive
  <2> HIDE DEF new, page1
  <2>2. new.page = page1
    BY <1>4
  <2>3. [new.page EXCEPT ![q].items[j] = Inactive(@)] = page3
    BY <2>2
  <2> HIDE DEF page3
  <2> QED
    BY <1>4, <2>1, <2>3
<1>8. Appended(r, x)
        = [page |-> page4, act |-> p, tail |-> store.tail, failW |-> FALSE]
  <2> HIDE DEF r, page2
  <2> DEFINE r2 == Appended(r, x)
             page5 == [r.page EXCEPT ![r.act].items = Append(@, x)]
  <2>1. r2 = [[r EXCEPT !.page = page5] EXCEPT !.failW = FALSE]
    BY DEF Appended
  <2>2. r.page = page2 /\ r.act = p
    BY <1>5
  <2>3. page5 = page4
    BY <2>2
  <2> HIDE DEF page4, page5, r2
  <2>4. r2 = [page |-> page4, act |-> p, tail |-> store.tail, failW |-> FALSE]
    BY <1>5, <2>1, <2>3
  <2> QED
    BY <2>4 DEF r2
<1> QED
  BY <1>6, <1>7, <1>8 DEF new, r

\* There is room for an item on the active page, and the callers keep no more than they may.
Fits(store, x) ==
    /\ x \in Items /\ Active(x) /\ x.size \in Known
    /\ store.page[store.act].state = "act"
    /\ Filled(store.page[store.act]) + x.size <= layout.cap
    /\ x.size + KeptIn(store.page, x.id) <= layout.live

\* NVOCMP_writeItem, where there is room: the item has its new value, all others what they
\* had, and no copy is left behind.
LEMMA WriteKeeps ==
  ASSUME NEW store, StoreOK(store), layout \in Layouts, NEW x, Fits(store, x)
  PROVE  LET w == WriteItem(store, x, Old(store, x.id)) IN
         /\ w.ok = TRUE /\ StoreOK(w.store)
         /\ \A v : Has(w.store.page, w.store.tail, x.id, v) <=> v = x.val
         /\ \A other, v : other \in Ids \ {x.id} =>
               (Has(w.store.page, w.store.tail, other, v)
                   <=> Has(store.page, store.tail, other, v))
<1> DEFINE old == Old(store, x.id)
           w == WriteItem(store, x, old)
<1>1. /\ PagesOK(store.page, store.tail)
      /\ store.page \in AllPages /\ store.tail \in PageNumbers
      /\ store.act \in PageNumbers /\ store.failW = FALSE
  BY StoreParts
<1>10. store.page \in AllPages /\ store.tail \in PageNumbers /\ Unique(store.page, store.tail)
  BY StoreParts
<1>20. x.id \in Ids
  BY ActiveItems DEF Fits
<1>2. /\ x \in Items /\ Active(x) /\ x.id \in Ids /\ x.size \in Known
      /\ Filled(store.page[store.act]) + x.size <= layout.cap
      /\ x.size + KeptIn(store.page, x.id) <= layout.live
  BY ActiveItems DEF Fits
<1>3. w = [ok |-> TRUE,
           store |-> IF old = {} THEN Appended(store, x)
                     ELSE SetItemInactive(Appended(store, x), CHOOSE c \in old : TRUE)]
  BY DEF WriteItem, Appended, Fits
<1>4. CASE \A q, j : ~At(store.page, store.tail, x.id, q, j)
  <2>1. Copies(store, x.id) = {}
    BY <1>1, <1>4, CopiesAt
  <2>2. old = {}
    BY <2>1 DEF Old
  <2>3. KeptIn(store.page, x.id) = KeptIn(store.page, Nothing)
    BY <1>1, <1>2, <1>4, KeptWithout
  <2> DEFINE n == Appended(store, x)
  <2>4. /\ StoreOK(n) /\ n.tail = store.tail
        /\ \A v : Has(n.page, n.tail, x.id, v) <=> v = x.val
        /\ \A other, v : other # x.id =>
              (Has(n.page, n.tail, other, v) <=> Has(store.page, store.tail, other, v))
    BY <1>2, <1>4, <2>3, AppendKeeps
  <2>5. w.ok = TRUE /\ w.store = n
    BY <1>3, <2>2
  <2> HIDE DEF w, n
  <2> QED
    BY <2>4, <2>5 DEF w
<1>5. CASE \E q, j : At(store.page, store.tail, x.id, q, j)
  <2>1. PICK q, j : At(store.page, store.tail, x.id, q, j)
    BY <1>5
  <2>2. Copies(store, x.id) = {<<q, j>>} /\ FindItem(store, x.id) = <<q, j>>
    BY <1>10, <1>20, <2>1, FoundIsAt, ZenonT(60)
  <2>3. old = {<<q, j>>}
    BY <1>1, <2>2 DEF Old
  <2> DEFINE r == SetItemInactive(store, <<q, j>>)
             n == Appended(r, x)
  <2>40. Without(store, r, x.id)
    BY <1>20, <2>1, RemoveKeeps
  <2>5. SetItemInactive(Appended(store, x), <<q, j>>) = n
    BY <1>2, <2>1, MarkAndAppend, SMT
  <2> HIDE DEF r
  <2>4. /\ StoreOK(r) /\ r.act = store.act /\ r.tail = store.tail
        /\ \A u \in PageNumbers : /\ Filled(r.page[u]) = Filled(store.page[u])
                                  /\ r.page[u].state = store.page[u].state
        /\ \A u, k : ~At(r.page, r.tail, x.id, u, k)
        /\ \A other, v : other \in Ids \ {x.id} =>
              (Has(r.page, r.tail, other, v) <=> Has(store.page, store.tail, other, v))
        /\ KeptIn(r.page, Nothing) = KeptIn(store.page, x.id)
    BY <2>40, Zenon DEF Without
  <2>6. /\ StoreOK(n)
        /\ \A v : Has(n.page, n.tail, x.id, v) <=> v = x.val
        /\ \A other, v : other # x.id =>
              (Has(n.page, n.tail, other, v) <=> Has(r.page, r.tail, other, v))
    <3>1. Filled(r.page[r.act]) + x.size <= layout.cap
      BY <1>1, <1>2, <2>4
    <3>2. x.size + KeptIn(r.page, Nothing) <= layout.live
      BY <1>2, <2>4
    <3> QED
      BY <1>2, <2>4, <3>1, <3>2, AppendKeeps
  <2>7. w.ok = TRUE /\ w.store = n
    <3>1. (CHOOSE c \in old : TRUE) = <<q, j>> /\ old # {}
      BY <2>3
    <3>2. w = [ok |-> TRUE, store |-> n]
      <4> HIDE DEF old, n, w
      <4> QED
        BY <1>3, <2>5, <3>1
    <3> HIDE DEF w, n
    <3> QED
      BY <3>2
  <2> HIDE DEF w, n
  <2> QED
    BY <2>4, <2>6, <2>7 DEF w
<1> QED
  BY <1>4, <1>5
\* r is as good as the store, and reads the same; or but for an item, which is x.
Same(store, r) ==
    /\ StoreOK(r)
    /\ \A id, v : Has(r.page, r.tail, id, v) <=> Has(store.page, store.tail, id, v)

Wrote(store, r, x) ==
    /\ StoreOK(r)
    /\ \A v : Has(r.page, r.tail, x.id, v) <=> v = x.val
    /\ \A other, v : other \in Ids \ {x.id} =>
          (Has(r.page, r.tail, other, v) <=> Has(store.page, store.tail, other, v))

\* NVOCMP_addItem: the item is written, or nothing is changed that is read.
LEMMA AddKeeps ==
  ASSUME NEW store, StoreOK(store), layout \in Layouts,
         NEW x \in Items, Active(x), x.size \in Known,
         x.size + KeptIn(store.page, x.id) <= layout.live
  PROVE  LET a == AddItem(store, x) IN
         /\ a.ok \in BOOLEAN
         /\ a.ok => Wrote(store, a.store, x)
         /\ ~a.ok => Same(store, a.store)
<1> DEFINE dst  == GetDstPage(store, x.size)
           d    == dst.store
           room == IF dst.found THEN d ELSE CompactPage(d)
           w    == WriteItem(room, x, Old(room, x.id))
           a    == AddItem(store, x)
<1>1. a = IF ~dst.found /\ room.tail = store.tail
          THEN [ok |-> FALSE, store |-> room] ELSE w
  BY DEF AddItem
<1>2. x.size \in Nat /\ x.id \in Ids
  BY ActiveItems
<1>3. /\ StoreOK(d) /\ d.tail = store.tail
      /\ \A id, v : Has(d.page, d.tail, id, v) <=> Has(store.page, store.tail, id, v)
      /\ \A but : KeptIn(d.page, but) = KeptIn(store.page, but)
      /\ dst.found => d.page[d.act].state = "act" /\ Filled(d.page[d.act]) + x.size <= layout.cap
  BY <1>2, DstPageKeeps
<1> HIDE DEF dst, d
<1>4. /\ StoreOK(CompactPage(d))
      /\ \A id, v : Has(CompactPage(d).page, CompactPage(d).tail, id, v)
                       <=> Has(d.page, d.tail, id, v)
      /\ \A but : KeptIn(CompactPage(d).page, but) = KeptIn(d.page, but)
      /\ CompactPage(d).tail # d.tail =>
            /\ CompactPage(d).page[CompactPage(d).act].state = "act"
            /\ \A n \in Known :
                  Filled(CompactPage(d).page[CompactPage(d).act]) + n <= layout.cap
  BY <1>3, CompactKeeps
<1>5. /\ StoreOK(room)
      /\ \A id, v : Has(room.page, room.tail, id, v) <=> Has(store.page, store.tail, id, v)
      /\ KeptIn(room.page, x.id) = KeptIn(store.page, x.id)
      /\ dst.found \/ room.tail # store.tail =>
            /\ room.page[room.act].state = "act"
            /\ Filled(room.page[room.act]) + x.size <= layout.cap
  <2>1. CASE dst.found
    BY <1>3, <2>1
  <2>2. CASE ~dst.found
    <3>1. room = CompactPage(d)
      BY <2>2
    <3> HIDE DEF room
    <3> QED
      BY <1>3, <1>4, <2>2, <3>1
  <2> QED
    BY <2>1, <2>2
<1> HIDE DEF room
<1>6. CASE ~dst.found /\ room.tail = store.tail
  <2>1. a = [ok |-> FALSE, store |-> room]
    BY <1>1, <1>6
  <2> HIDE DEF a
  <2>2. Same(store, room)
    BY <1>5, Zenon DEF Same
  <2>3. a.ok = FALSE /\ a.store = room
    BY <2>1
  <2> QED
    BY <2>2, <2>3 DEF a
<1>7. CASE ~(~dst.found /\ room.tail = store.tail)
  <2>1. a = w
    BY <1>1, <1>7
  <2>2. Fits(room, x)
    <3>1. x.size + KeptIn(room.page, x.id) <= layout.live
      BY <1>5
    <3> QED
      BY <1>5, <1>7, <3>1 DEF Fits
  <2>3. /\ w.ok = TRUE /\ StoreOK(w.store)
        /\ \A v : Has(w.store.page, w.store.tail, x.id, v) <=> v = x.val
        /\ \A other, v : other \in Ids \ {x.id} =>
              (Has(w.store.page, w.store.tail, other, v) <=> Has(room.page, room.tail, other, v))
    BY <1>5, <2>2, WriteKeeps
  <2> HIDE DEF w, a
  <2>5. Wrote(store, w.store, x)
    BY <1>5, <2>3 DEF Wrote
  <2> QED
    BY <2>1, <2>3, <2>5 DEF a
<1> QED
  BY <1>6, <1>7

-----------------------------------------------------------------------------
(* Starting.                                                               *)

\* A sum of nothing but zeros.
LEMMA TotalOfZeros ==
  ASSUME NEW w \in Seq(Nat), \A n \in 1..Len(w) : w[n] = 0
  PROVE  Total(w) = 0
<1> DEFINE f == [n \in 0..Len(w) |-> 0]
<1>1. Len(w) \in Nat /\ Partial(f, w)
  BY DEF Partial
<1>2. Total(w) = f[Len(w)]
  <2> HIDE DEF f
  <2> QED
    BY <1>1, PartialIsUnique
<1> QED
  BY <1>1, <1>2

\* Erased pages hold nothing.
LEMMA FreshOK ==
  ASSUME layout \in Layouts
  PROVE  /\ StoreOK(Fresh)
         /\ \A id, v : ~Has(Fresh.page, Fresh.tail, id, v)
<1> DEFINE page == [p \in PageNumbers |->
                       Erased(CASE p = 0 -> "rdy" [] p = Pages - 1 -> "xdst"
                                [] OTHER -> "nact")]
           t == Pages - 1
<1>1. Fresh = [page |-> page, act |-> 0, tail |-> t, failW |-> FALSE]
  BY DEF Fresh
<1>2. Pages \in Nat /\ Pages >= 2 /\ t \in PageNumbers /\ 0 \in PageNumbers /\ t # 0
  BY NvocmpAssumption DEF PageNumbers
<1>3. \A p \in PageNumbers :
         /\ page[p] = [state |-> page[p].state, items |-> <<>>]
         /\ page[p].items = <<>>
         /\ page[p].state \in States
         /\ page[p].state = "xdst" <=> p = t
  BY <1>2 DEF Erased, States
<1>30. page \in AllPages
  <2>1. ASSUME NEW p \in PageNumbers
        PROVE  page[p] \in [state : States, items : Seq(Items)]
    <3>1. page[p] = [state |-> page[p].state, items |-> <<>>] /\ page[p].state \in States
      BY <1>3
    <3>2. <<>> \in Seq(Items)
      OBVIOUS
    <3> DEFINE y == page[p].state
    <3>3. page[p] = [state |-> y, items |-> <<>>] /\ y \in States
      BY <3>1
    <3> HIDE DEF y, page
    <3>4. [state |-> y, items |-> <<>>] \in [state : States, items : Seq(Items)]
      BY <3>2, <3>3
    <3> QED
      BY <3>3, <3>4
  <2>2. page = [p \in PageNumbers |-> page[p]]
    OBVIOUS
  <2> HIDE DEF page
  <2>3. page \in [PageNumbers -> [state : States, items : Seq(Items)]]
    BY <2>1, <2>2
  <2> QED
    BY <2>3 DEF AllPages
<1> HIDE DEF page
<1>40. ASSUME NEW p \in PageNumbers PROVE 1..Len(page[p].items) = {}
  <2>1. page[p].items = <<>>
    BY <1>3
  <2> QED
    BY <2>1
<1>4. \A id, q, j : ~At(page, t, id, q, j)
  BY <1>40 DEF At
<1>5. Unique(page, t)
  BY <1>4 DEF Unique
<1>6. <<>> \in Seq(Items) /\ Len(<<>>) = 0
  OBVIOUS
<1>7. Total(Weights(<<>>, Nothing)) = 0 /\ Total(Lengths(<<>>)) = 0
  <2>1. /\ Weights(<<>>, Nothing) \in Seq(Nat) /\ Len(Weights(<<>>, Nothing)) = 0
        /\ Lengths(<<>>) \in Seq(Nat) /\ Len(Lengths(<<>>)) = 0
    BY <1>6, WeightsType
  <2>2. Weights(<<>>, Nothing) = <<>> /\ Lengths(<<>>) = <<>>
    BY <2>1
  <2> QED
    BY <2>1, <2>2, TotalType
<1>8. ASSUME NEW p \in PageNumbers
      PROVE  Filled(page[p]) = 0 /\ Kept(page[p], Nothing) = 0
  <2>1. Filled(page[p]) = Total(Lengths(page[p].items))
        /\ Kept(page[p], Nothing) = Total(Weights(page[p].items, Nothing))
    BY <1>30, AmountsType
  <2> QED
    BY <1>3, <1>7, <2>1
<1>9. KeptIn(page, Nothing) = 0
  <2> DEFINE w == Amounts(page, Nothing)
  <2>1. w \in Seq(Nat) /\ Len(w) = Pages /\ KeptIn(page, Nothing) = Total(w)
        /\ \A n \in 1..Pages : n - 1 \in PageNumbers /\ w[n] = Kept(page[n - 1], Nothing)
    BY <1>30, AmountsType
  <2>2. \A n \in 1..Len(w) : w[n] = 0
    BY <1>8, <2>1
  <2> HIDE DEF w
  <2> QED
    BY <2>1, <2>2, TotalOfZeros
<1>10. layout.cap \in Nat /\ layout.live \in Nat
  BY NvocmpAssumption
<1>11. PagesOK(page, t)
  <2>1. \A p \in PageNumbers : Filled(page[p]) <= layout.cap
    BY <1>8, <1>10
  <2>2. KeptIn(page, Nothing) <= layout.live
    BY <1>9, <1>10
  <2>3. \A p \in PageNumbers : \A i \in 1..Len(page[p].items) : page[p].items[i].size \in Known
    BY <1>40
  <2> HIDE DEF t
  <2> QED
    BY <1>2, <1>3, <1>30, <1>5, <2>1, <2>2, <2>3 DEF PagesOK
<1>12. Fresh.page = page /\ Fresh.act = 0 /\ Fresh.tail = t /\ Fresh.failW = FALSE
       /\ Fresh = [page |-> Fresh.page, act |-> Fresh.act, tail |-> Fresh.tail,
                   failW |-> Fresh.failW]
  BY <1>1
<1>13. StoreOK(Fresh)
  BY <1>2, <1>11, <1>12 DEF StoreOK
<1>14. \A id, v : ~Has(page, t, id, v)
  BY <1>4 DEF Has
<1> QED
  BY <1>12, <1>13, <1>14

\* NVOCMP_initNv finds the spare page of pages that were saved.
LEMMA ResumeOK ==
  ASSUME layout \in Layouts, NEW page, NEW t, PagesOK(page, t)
  PROVE  /\ StoreOK(Resume(page))
         /\ Resume(page).page = page /\ Resume(page).tail = t
         /\ InitNv(page) = Resume(page)
<1>1. page \in AllPages /\ t \in PageNumbers
      /\ \A p \in PageNumbers : page[p].state = "xdst" <=> p = t
  BY DEF PagesOK
<1>2. InState(page, "xdst") = {t}
  BY <1>1 DEF InState
<1>3. Max(InState(page, "xdst")) = t
  <2>1. {t} \subseteq PageNumbers /\ {t} # {}
    BY <1>1
  <2>2. Max({t}) \in {t}
    BY <2>1, Extremes
  <2> QED
    BY <1>2, <2>2
<1>4. InState(page, "nact") # PageNumbers
  BY <1>1 DEF InState
<1>5. ASSUME NEW s \in {"act", "rdy"}, InState(page, s) # {}
      PROVE  Max(InState(page, s)) \in PageNumbers \ {t}
  <2>1. InState(page, s) \subseteq PageNumbers
    BY DEF InState
  <2>2. Max(InState(page, s)) \in InState(page, s)
    BY <1>5, <2>1, Extremes
  <2> QED
    BY <1>1, <2>2 DEF InState
<1>6. IncPage(t, 1) \in PageNumbers \ {t}
  <2> DEFINE u == t + 1
  <2>1. Pages \in Nat \ {0} /\ Pages >= 2 /\ t \in 0..Pages - 1 /\ u \in 0..2 * Pages - 1
        /\ u = t + 1
    BY <1>1, NvocmpAssumption DEF PageNumbers
  <2>2. IncPage(t, 1) = u % Pages
    BY DEF IncPage
  <2> HIDE DEF u
  <2> DEFINE m == u % Pages
  <2>3. m = IF u < Pages THEN u ELSE u - Pages
    BY <2>1, Around
  <2> HIDE DEF m
  <2>4. m \in 0..Pages - 1 /\ m # t
    BY <2>1, <2>3
  <2> QED
    BY <2>2, <2>4 DEF m, PageNumbers
<1> DEFINE act == IF InState(page, "act") # {} THEN Max(InState(page, "act"))
                  ELSE IF InState(page, "rdy") # {} THEN Max(InState(page, "rdy"))
                  ELSE IncPage(t, 1)
<1>7. act \in PageNumbers \ {t}
  BY <1>5, <1>6
<1>8. Resume(page) = [page |-> page, tail |-> t, act |-> act, failW |-> FALSE]
  BY <1>3 DEF Resume
<1> HIDE DEF act
<1>9. /\ Resume(page).page = page /\ Resume(page).tail = t
      /\ Resume(page).act = act /\ Resume(page).failW = FALSE
      /\ Resume(page) = [page |-> Resume(page).page, act |-> Resume(page).act,
                         tail |-> Resume(page).tail, failW |-> Resume(page).failW]
  BY <1>8
<1>10. StoreOK(Resume(page))
  BY <1>7, <1>9 DEF StoreOK
<1>11. InitNv(page) = Resume(page)
  BY <1>4 DEF InitNv
<1> QED
  BY <1>9, <1>10, <1>11
-----------------------------------------------------------------------------
(* Every step of the store.                                                *)

\* What holds of the pages when the layout is the same.
LEMMA Carries ==
  ASSUME layout' = layout, NEW s
  PROVE  /\ StoreOK(s) /\ nv' = s => StoreOK(nv)'
         /\ \A t : PagesOK(s, t) /\ file' = s => PagesOK(file, t)'
<1>1. Known' = Known
  BY DEF Known
<1>2. ASSUME NEW t, PagesOK(s, t), file' = s PROVE PagesOK(file, t)'
  BY <1>1, <1>2 DEF PagesOK
<1>3. ASSUME StoreOK(s), nv' = s PROVE StoreOK(nv)'
  BY <1>1, <1>3 DEF StoreOK, PagesOK
<1> QED
  BY <1>2, <1>3

\* What is read is a map.
LEMMA ViewType ==
  ASSUME NEW s, StoreOK(s)
  PROVE  View(s) \in [Ids -> Vals \cup {Nothing}]
<1>1. \A id \in Ids : ReadItem(s, id) \in Vals \cup {Nothing}
  BY StoreParts, ReadIsAt
<1> QED
  BY <1>1 DEF View

\* Pages that are saved are read as the store is, and are not lost.
LEMMA SavedReads ==
  ASSUME layout \in Layouts, NEW s, StoreOK(s)
  PROVE  View(Resume(s.page)) = View(s) /\ s.page # Lost
<1>1. PagesOK(s.page, s.tail) /\ s.page \in AllPages /\ s.tail \in PageNumbers
      /\ Unique(s.page, s.tail)
  BY StoreParts
<1>2. Resume(s.page).page = s.page /\ Resume(s.page).tail = s.tail
  BY <1>1, ResumeOK
<1>3. View(Resume(s.page)) = View(s)
  BY <1>1, <1>2, ViewsSame
<1> QED
  BY <1>1, <1>3, LostAssumption

\* Stores that hold the same read the same.
LEMMA SameView ==
  ASSUME NEW s, StoreOK(s), NEW r, Same(s, r)
  PROVE  View(r) = View(s)
<1>1. s.page \in AllPages /\ s.tail \in PageNumbers /\ Unique(s.page, s.tail)
  BY StoreParts
<1>2. StoreOK(r) /\ \A id, v : Has(r.page, r.tail, id, v) <=> Has(s.page, s.tail, id, v)
  BY Zenon DEF Same
<1>3. r.page \in AllPages /\ r.tail \in PageNumbers /\ Unique(r.page, r.tail)
  BY <1>2, StoreParts
<1> QED
  BY <1>1, <1>2, <1>3, ViewsSame

\* An item that is written is read, and the others are read as before.
LEMMA WroteView ==
  ASSUME NEW s, StoreOK(s), NEW x \in Items, Active(x), NEW r, Wrote(s, r, x)
  PROVE  View(r) = [View(s) EXCEPT ![x.id] = x.val]
<1>1. s.page \in AllPages /\ s.tail \in PageNumbers /\ Unique(s.page, s.tail)
  BY StoreParts
<1>2. /\ StoreOK(r)
      /\ \A v : Has(r.page, r.tail, x.id, v) <=> v = x.val
      /\ \A other, v : other \in Ids \ {x.id} =>
            (Has(r.page, r.tail, other, v) <=> Has(s.page, s.tail, other, v))
  BY Zenon DEF Wrote
<1>3. r.page \in AllPages /\ r.tail \in PageNumbers /\ Unique(r.page, r.tail)
  BY <1>2, StoreParts
<1>4. x.id \in Ids /\ x.val \in Vals
  BY ActiveItems
<1>5. ReadItem(r, x.id) = x.val
  <2>1. \A id \in Ids : \A v \in Vals : ReadItem(r, id) = v <=> Has(r.page, r.tail, id, v)
    BY <1>3, ReadIsAt
  <2> QED
    BY <1>2, <1>4, <2>1
<1>6. ASSUME NEW other \in Ids, other # x.id
      PROVE  ReadItem(r, other) = ReadItem(s, other)
  <2>1. \A v \in Vals : Has(r.page, r.tail, other, v) <=> Has(s.page, s.tail, other, v)
    BY <1>2, <1>6
  <2> QED
    BY <1>1, <1>3, <2>1, ReadsSame
<1> QED
  BY <1>4, <1>5, <1>6 DEF View

\* An item that is removed is not read.
LEMMA WithoutView ==
  ASSUME NEW s, StoreOK(s), NEW id \in Ids, NEW r, Without(s, r, id)
  PROVE  View(r) = [View(s) EXCEPT ![id] = Nothing] /\ Copies(r, id) = {}
<1>1. s.page \in AllPages /\ s.tail \in PageNumbers /\ Unique(s.page, s.tail)
  BY StoreParts
<1>2. /\ StoreOK(r)
      /\ \A q, j : ~At(r.page, r.tail, id, q, j)
      /\ \A other, v : other \in Ids \ {id} =>
            (Has(r.page, r.tail, other, v) <=> Has(s.page, s.tail, other, v))
  BY Zenon DEF Without
<1>3. r.page \in AllPages /\ r.tail \in PageNumbers /\ Unique(r.page, r.tail)
  BY <1>2, StoreParts
<1>4. Copies(r, id) = {}
  BY <1>2, <1>3, CopiesAt
<1>5. ReadItem(r, id) = Nothing
  BY <1>4 DEF ReadItem
<1>6. ASSUME NEW other \in Ids, other # id
      PROVE  ReadItem(r, other) = ReadItem(s, other)
  <2>1. \A v \in Vals : Has(r.page, r.tail, other, v) <=> Has(s.page, s.tail, other, v)
    BY <1>2, <1>6
  <2> QED
    BY <1>1, <1>3, <2>1, ReadsSame
<1> QED
  BY <1>4, <1>5, <1>6 DEF View

\* Erased pages read as nothing.
LEMMA FreshView ==
  ASSUME layout \in Layouts
  PROVE  View(Fresh) = [id \in Ids |-> Nothing]
<1>1. StoreOK(Fresh) /\ \A id, v : ~Has(Fresh.page, Fresh.tail, id, v)
  BY FreshOK
<1>2. Fresh.page \in AllPages /\ Fresh.tail \in PageNumbers /\ Unique(Fresh.page, Fresh.tail)
  BY <1>1, StoreParts
<1>3. ASSUME NEW id \in Ids PROVE ReadItem(Fresh, id) = Nothing
  <2>1. /\ ReadItem(Fresh, id) \in Vals \cup {Nothing}
        /\ \A v \in Vals : ReadItem(Fresh, id) = v <=> Has(Fresh.page, Fresh.tail, id, v)
    BY <1>2, ReadIsAt
  <2> QED
    BY <1>1, <2>1
<1> QED
  BY <1>3 DEF View

\* NVOCMP_addItem of what may be written.
LEMMA WriteStep ==
  ASSUME StoreInv, NEW id \in layout.ids, NEW v \in DOMAIN layout.size, Write(Item(id, v))
  PROVE  /\ id \in Ids /\ v \in Vals /\ phase = "idle" /\ layout' = layout /\ file' = file
         /\ StoreOK(nv')
         /\ \/ phase' = "done" /\ View(nv') = [View(nv) EXCEPT ![id] = v]
            \/ phase' = "idle" /\ View(nv') = View(nv)
<1> DEFINE x == Item(id, v)
           a == AddItem(nv, x)
<1>1. layout \in Layouts /\ StoreOK(nv)
  BY DEF StoreInv
<1>2. /\ layout.ids \subseteq Ids /\ DOMAIN layout.size \subseteq Vals
      /\ layout.size[v] \in Nat /\ Nothing \notin Vals
  BY <1>1, NvocmpAssumption
<1>3. x \in Items /\ Active(x) /\ x.size \in Known /\ x.id = id /\ x.val = v
  BY <1>2 DEF Item, Items, Active, Known
<1>4. /\ phase = "idle" /\ UNCHANGED <<layout, file>>
      /\ nv' = a.store /\ phase' = IF a.ok THEN "done" ELSE "idle"
      /\ x.size + KeptIn(nv.page, x.id) <= layout.live
  BY DEF Write, Affordable
<1> HIDE DEF x
<1>5. /\ a.ok \in BOOLEAN
      /\ a.ok => Wrote(nv, a.store, x)
      /\ ~a.ok => Same(nv, a.store)
  BY <1>1, <1>3, <1>4, AddKeeps
<1> HIDE DEF a
<1>6. CASE a.ok
  <2>1. Wrote(nv, nv', x)
    BY <1>4, <1>5, <1>6
  <2>2. View(nv') = [View(nv) EXCEPT ![id] = v]
    BY <1>1, <1>3, <2>1, WroteView
  <2>3. StoreOK(nv')
    BY <2>1, Zenon DEF Wrote
  <2> QED
    BY <1>2, <1>4, <1>6, <2>2, <2>3
<1>7. CASE ~a.ok
  <2>1. Same(nv, nv')
    BY <1>4, <1>5, <1>7
  <2>2. View(nv') = View(nv)
    BY <1>1, <2>1, SameView
  <2>3. StoreOK(nv')
    BY <2>1, Zenon DEF Same
  <2> QED
    BY <1>2, <1>4, <1>7, <2>2, <2>3
<1> QED
  BY <1>6, <1>7

\* A deletion removes the only copy.
LEMMA DeleteStep ==
  ASSUME StoreInv, NEW id \in layout.ids, Delete(id)
  PROVE  /\ id \in Ids /\ phase = "idle" /\ layout' = layout /\ file' = file
         /\ StoreOK(nv') /\ phase' = "done"
         /\ View(nv)[id] # Nothing /\ View(nv') = [View(nv) EXCEPT ![id] = Nothing]
<1>1. layout \in Layouts /\ StoreOK(nv)
  BY DEF StoreInv
<1>2. id \in Ids
  BY <1>1, NvocmpAssumption
<1>3. nv.page \in AllPages /\ nv.tail \in PageNumbers /\ Unique(nv.page, nv.tail)
  BY <1>1, StoreParts
<1>4. /\ phase = "idle" /\ Copies(nv, id) # {} /\ UNCHANGED <<layout, file>>
      /\ nv' = SetItemInactive(nv, FindItem(nv, id))
      /\ phase' = IF Copies(nv', id) = {} THEN "done" ELSE "idle"
  BY DEF Delete
<1>5. PICK p, i : At(nv.page, nv.tail, id, p, i)
  BY <1>3, <1>4, CopiesAt
<1>6. FindItem(nv, id) = <<p, i>>
  BY <1>2, <1>3, <1>5, FoundIsAt
<1>7. Without(nv, nv', id)
  <2>1. Without(nv, SetItemInactive(nv, <<p, i>>), id)
    BY <1>1, <1>2, <1>5, RemoveKeeps
  <2> QED
    BY <1>4, <1>6, <2>1
<1>8. View(nv') = [View(nv) EXCEPT ![id] = Nothing] /\ Copies(nv', id) = {}
  BY <1>1, <1>2, <1>7, WithoutView
<1>9. View(nv)[id] # Nothing
  <2>1. ReadItem(nv, id) # Nothing
    BY <1>2, <1>3, <1>4, ReadIsAt
  <2> QED
    BY <1>2, <2>1 DEF View
<1>10. StoreOK(nv')
  BY <1>7, Zenon DEF Without
<1> QED
  BY <1>2, <1>4, <1>8, <1>9, <1>10

\* A start finds what is in the file, or nothing if it is lost.
LEMMA RestartStep ==
  ASSUME StoreInv, Restart
  PROVE  /\ layout' = layout /\ phase' = "idle" /\ StoreOK(nv') /\ file' = nv'.page
         /\ IF file = Lost THEN View(nv') = [id \in Ids |-> Nothing]
            ELSE nv' = Resume(file) /\ file' = file /\ StoreOK(Resume(file))
<1>1. layout \in Layouts /\ (file # Lost => \E t \in PageNumbers : PagesOK(file, t))
  BY DEF StoreInv
<1>2. /\ layout' = layout /\ phase' = "idle" /\ file' = nv'.page
      /\ nv' = InitNv(IF file = Lost THEN [p \in PageNumbers |-> Erased("nact")] ELSE file)
  BY DEF Restart
<1>3. CASE file = Lost
  <2> DEFINE page == [p \in PageNumbers |-> Erased("nact")]
  <2>1. InState(page, "nact") = PageNumbers
    BY DEF InState, Erased
  <2>2. nv' = Fresh
    <3>1. nv' = InitNv(page)
      BY <1>2, <1>3
    <3> HIDE DEF page
    <3> QED
      BY <2>1, <3>1 DEF InitNv
  <2>3. StoreOK(Fresh) /\ \A id, v : ~Has(Fresh.page, Fresh.tail, id, v)
    BY <1>1, FreshOK
  <2>4. View(Fresh) = [id \in Ids |-> Nothing]
    BY <1>1, FreshView
  <2> QED
    BY <1>2, <1>3, <2>2, <2>3, <2>4
<1>4. CASE file # Lost
  <2>1. PICK t \in PageNumbers : PagesOK(file, t)
    BY <1>1, <1>4
  <2>2. /\ StoreOK(Resume(file)) /\ Resume(file).page = file
        /\ InitNv(file) = Resume(file)
    BY <1>1, <2>1, ResumeOK
  <2>3. nv' = Resume(file)
    BY <1>2, <1>4, <2>2
  <2> QED
    BY <1>2, <1>4, <2>2, <2>3
<1> QED
  BY <1>3, <1>4

\* The invariant holds at first.
LEMMA StoreInvInit == Init => StoreInv
<1> SUFFICES ASSUME Init PROVE StoreInv
  OBVIOUS
<1>1. layout \in Layouts /\ nv = Fresh /\ file = Fresh.page /\ phase = "idle"
  BY DEF Init
<1>2. StoreOK(Fresh)
  BY <1>1, FreshOK
<1>3. PagesOK(Fresh.page, Fresh.tail) /\ Fresh.tail \in PageNumbers
  BY <1>2, StoreParts
<1>4. Fresh.page # Lost
  BY <1>1, <1>2, SavedReads
<1> QED
  BY <1>1, <1>2, <1>3, <1>4 DEF StoreInv

\* And every step keeps it.
LEMMA StoreInvNext == StoreInv /\ [Next]_vars => StoreInv'
<1> SUFFICES ASSUME StoreInv, [Next]_vars PROVE StoreInv'
  OBVIOUS
<1>1. /\ layout \in Layouts /\ phase \in {"idle", "done", "open"} /\ StoreOK(nv)
      /\ (file = Lost <=> phase = "open")
      /\ (file # Lost => \E t \in PageNumbers : PagesOK(file, t))
  BY DEF StoreInv
<1>2. ASSUME layout' = layout, StoreOK(nv'), file' = file, phase' \in {"idle", "done"},
             phase \in {"idle", "done"}
      PROVE  StoreInv'
  <2>1. StoreOK(nv)'
    BY <1>2, Carries
  <2>2. PICK t \in PageNumbers : PagesOK(file, t)
    BY <1>1, <1>2
  <2>3. PagesOK(file, t)'
    BY <1>2, <2>2, Carries
  <2>4. file' # Lost
    BY <1>1, <1>2
  <2> QED
    BY <1>1, <1>2, <2>1, <2>2, <2>3, <2>4 DEF StoreInv
<1>3. ASSUME layout' = layout, StoreOK(nv'), file' = nv'.page, phase' = "idle"
      PROVE  StoreInv'
  <2>1. StoreOK(nv)'
    BY <1>3, Carries
  <2>2. PICK t \in PageNumbers : PagesOK(nv'.page, t)
    BY <1>3, StoreParts
  <2>3. PagesOK(file, t)'
    BY <1>3, <2>2, Carries
  <2>4. file' # Lost
    BY <1>1, <1>3, SavedReads
  <2> QED
    BY <1>1, <1>3, <2>1, <2>2, <2>3, <2>4 DEF StoreInv
<1>4. ASSUME NEW id \in layout.ids, NEW v \in DOMAIN layout.size, Write(Item(id, v))
      PROVE  StoreInv'
  <2>1. /\ phase = "idle" /\ layout' = layout /\ file' = file /\ StoreOK(nv')
        /\ phase' \in {"idle", "done"}
    BY <1>4, WriteStep
  <2> QED
    BY <1>2, <2>1
<1>5. ASSUME NEW id \in layout.ids, Delete(id)
      PROVE  StoreInv'
  <2>1. /\ phase = "idle" /\ layout' = layout /\ file' = file /\ StoreOK(nv')
        /\ phase' \in {"idle", "done"}
    BY <1>5, DeleteStep
  <2> QED
    BY <1>2, <2>1
<1>6. CASE Truncate
  <2>1. layout' = layout /\ nv' = nv /\ file' = Lost /\ phase' = "open"
    BY <1>6 DEF Truncate
  <2>2. StoreOK(nv)'
    BY <1>1, <2>1, Carries
  <2> QED
    BY <1>1, <2>1, <2>2 DEF StoreInv
<1>7. CASE Save
  <2>1. layout' = layout /\ nv' = nv /\ file' = nv.page /\ phase' = "idle"
    BY <1>7 DEF Save
  <2> QED
    BY <1>1, <1>3, <2>1
<1>8. CASE Restart
  BY <1>3, <1>8, RestartStep
<1>9. CASE UNCHANGED vars
  <2>1. layout' = layout /\ nv' = nv /\ file' = file /\ phase' = phase
    BY <1>9 DEF vars
  <2>2. StoreOK(nv)'
    BY <1>1, <2>1, Carries
  <2>3. ASSUME file' # Lost PROVE (\E t \in PageNumbers : PagesOK(file, t))'
    <3>1. PICK t \in PageNumbers : PagesOK(file, t)
      BY <1>1, <2>1, <2>3
    <3>2. PagesOK(file, t)'
      BY <2>1, <3>1, Carries
    <3> QED
      BY <3>1, <3>2
  <2> QED
    BY <1>1, <2>1, <2>2, <2>3 DEF StoreInv
<1> QED
  BY <1>4, <1>5, <1>6, <1>7, <1>8, <1>9 DEF Next

\* The invariant is one.
LEMMA StoreInvariant == Spec => []StoreInv
  BY StoreInvInit, StoreInvNext, PTL DEF Spec
-----------------------------------------------------------------------------
(* The results.                                                            *)

\* A page holds no more than fits on it, and the pages, the indices and the file are of their
\* types, whatever is written, deleted, compacted and lost at a restart.
THEOREM StoreTypes == Spec => []TypeOK
<1>1. StoreInv => TypeOK
  <2> SUFFICES ASSUME StoreInv PROVE TypeOK
    OBVIOUS
  <2>1. /\ layout \in Layouts /\ phase \in {"idle", "done", "open"} /\ StoreOK(nv)
        /\ (file # Lost => \E t \in PageNumbers : PagesOK(file, t))
    BY DEF StoreInv
  <2>2. /\ nv = [page |-> nv.page, act |-> nv.act, tail |-> nv.tail, failW |-> nv.failW]
        /\ nv.page \in AllPages /\ nv.act \in PageNumbers /\ nv.tail \in PageNumbers
        /\ nv.failW \in BOOLEAN
        /\ \A p \in PageNumbers : Filled(nv.page[p]) <= layout.cap
    BY <2>1 DEF StoreOK, PagesOK
  <2>3. nv \in [page : AllPages, act : PageNumbers, tail : PageNumbers, failW : BOOLEAN]
    BY <2>2
  <2>4. file \in AllPages \cup {Lost}
    BY <2>1 DEF PagesOK
  <2> QED
    BY <2>1, <2>2, <2>3, <2>4 DEF TypeOK
<1> QED
  BY <1>1, StoreInvariant, PTL

\* The older copy of an item is marked whenever a newer one was written, on the page that the
\* compaction has moved it to: NVOCMP_findItem never has two copies to choose from.
THEOREM StoreHasOneCopy == Spec => []OneActiveCopy
<1>1. StoreInv => OneActiveCopy
  <2> SUFFICES ASSUME StoreInv, NEW id \in Ids PROVE Cardinality(Copies(nv, id)) <= 1
    BY DEF OneActiveCopy
  <2>1. nv.page \in AllPages /\ nv.tail \in PageNumbers /\ Unique(nv.page, nv.tail)
    BY StoreParts DEF StoreInv
  <2>2. CASE \E p, i : At(nv.page, nv.tail, id, p, i)
    <3>1. PICK p, i : At(nv.page, nv.tail, id, p, i)
      BY <2>2
    <3>2. Copies(nv, id) = {<<p, i>>} /\ FindItem(nv, id) = <<p, i>>
      BY <2>1, <3>1, FoundIsAt, SMTT(60)
    <3>3. Cardinality({<<p, i>>}) = 1
      BY FS_Singleton
    <3> QED
      BY <3>2, <3>3
  <2>3. CASE ~\E p, i : At(nv.page, nv.tail, id, p, i)
    <3>1. Copies(nv, id) = {}
      BY <2>1, <2>3, CopiesAt
    <3>2. Cardinality({}) = 0
      BY FS_EmptySet
    <3> QED
      BY <3>1, <3>2
  <2> QED
    BY <2>2, <2>3
<1> QED
  BY <1>1, StoreInvariant, PTL

\* The copy that a restart finds is lost only while the file is being written.
LEMMA SavedOrLost ==
  ASSUME StoreInv
  PROVE  file # Lost => View(Resume(file)) # Lost
<1>1. ASSUME file # Lost PROVE View(Resume(file)) # Lost
  <2>1. layout \in Layouts /\ \E t \in PageNumbers : PagesOK(file, t)
    BY <1>1 DEF StoreInv
  <2>2. PICK t \in PageNumbers : PagesOK(file, t)
    BY <2>1
  <2>3. StoreOK(Resume(file))
    BY <2>1, <2>2, ResumeOK
  <2>4. View(Resume(file)) \in [Ids -> Vals \cup {Nothing}]
    BY <2>3, ViewType
  <2> QED
    BY <2>4, LostAssumption
<1> QED
  BY <1>1

\* The store starts as the empty map, saved.
LEMMA StoreInitMaps == Init => S!Init
<1> SUFFICES ASSUME Init PROVE S!Init
  OBVIOUS
<1>1. layout \in Layouts /\ nv = Fresh /\ file = Fresh.page /\ phase = "idle"
  BY DEF Init
<1>2. View(Fresh) = [id \in Ids |-> Nothing] /\ StoreOK(Fresh)
  BY <1>1, FreshView, FreshOK
<1>3. View(Resume(Fresh.page)) = View(Fresh) /\ Fresh.page # Lost
  BY <1>1, <1>2, SavedReads
<1>4. View(nv) = S!Empty
  BY <1>1, <1>2 DEF S!Empty
<1>5. (IF file = Lost THEN Lost ELSE View(Resume(file))) = S!Empty
  BY <1>1, <1>2, <1>3 DEF S!Empty
<1>6. (phase # "idle") = FALSE
  BY <1>1
<1> QED
  BY <1>4, <1>5, <1>6 DEF S!Init

\* And every step of it is one of the map's, or none.
LEMMA StoreStepMaps == StoreInv /\ StoreInv' /\ [Next]_vars => [S!Next]_(S!vars)
<1> SUFFICES ASSUME StoreInv, [Next]_vars
             PROVE  [S!Next]_(S!vars)
  OBVIOUS
<1>1. layout \in Layouts /\ StoreOK(nv) /\ phase \in {"idle", "done", "open"}
      /\ (file = Lost <=> phase = "open")
  BY DEF StoreInv
<1>2. ASSUME NEW id \in layout.ids, NEW v \in DOMAIN layout.size, Write(Item(id, v))
      PROVE  [S!Next]_(S!vars)
  <2>1. /\ id \in Ids /\ v \in Vals /\ phase = "idle" /\ file' = file
        /\ \/ phase' = "done" /\ View(nv') = [View(nv) EXCEPT ![id] = v]
           \/ phase' = "idle" /\ View(nv') = View(nv)
    BY <1>2, WriteStep
  <2>2. CASE phase' = "done" /\ View(nv') = [View(nv) EXCEPT ![id] = v]
    <3>1. S!Write(id, v)
      BY <2>1, <2>2 DEF S!Write
    <3> QED
      BY <2>1, <3>1 DEF S!Next
  <2>3. CASE phase' = "idle" /\ View(nv') = View(nv)
    BY <2>1, <2>3 DEF S!vars
  <2> QED
    BY <2>1, <2>2, <2>3
<1>3. ASSUME NEW id \in layout.ids, Delete(id)
      PROVE  [S!Next]_(S!vars)
  <2>1. /\ id \in Ids /\ phase = "idle" /\ file' = file /\ phase' = "done"
        /\ View(nv)[id] # Nothing /\ View(nv') = [View(nv) EXCEPT ![id] = Nothing]
    BY <1>3, DeleteStep
  <2>2. S!Delete(id)
    BY <2>1 DEF S!Delete
  <2> QED
    BY <2>1, <2>2 DEF S!Next
<1>4. CASE Truncate
  <2>1. phase = "done" /\ phase' = "open" /\ nv' = nv /\ file' = Lost
    BY <1>4 DEF Truncate
  <2>2. S!Replace
    BY <2>1 DEF S!Replace
  <2> QED
    BY <2>2 DEF S!Next
<1>5. CASE Save
  <2>1. phase = "open" /\ phase' = "idle" /\ nv' = nv /\ file' = nv.page
    BY <1>5 DEF Save
  <2>2. View(Resume(nv.page)) = View(nv) /\ nv.page # Lost
    BY <1>1, SavedReads
  <2>3. S!Return
    BY <2>1, <2>2 DEF S!Return
  <2> QED
    BY <2>3 DEF S!Next
<1>6. CASE Restart
  <2>1. /\ phase' = "idle" /\ StoreOK(nv') /\ file' = nv'.page
        /\ IF file = Lost THEN View(nv') = [id \in Ids |-> Nothing]
           ELSE nv' = Resume(file) /\ file' = file
    BY <1>6, RestartStep
  <2>2. View(Resume(nv'.page)) = View(nv') /\ nv'.page # Lost
    BY <1>1, <2>1, SavedReads
  <2>3. file' # Lost /\ View(Resume(file')) = View(nv')
    BY <2>1, <2>2
  <2>4. (IF file = Lost THEN Lost ELSE View(Resume(file))) = Lost <=> file = Lost
    BY SavedOrLost
  <2>5. View(nv') = IF (IF file = Lost THEN Lost ELSE View(Resume(file))) = Lost
                    THEN S!Empty
                    ELSE (IF file = Lost THEN Lost ELSE View(Resume(file)))
    BY <2>1, <2>4 DEF S!Empty
  <2>6. S!Restart
    BY <2>1, <2>3, <2>5 DEF S!Restart
  <2> QED
    BY <2>6 DEF S!Next
<1>7. CASE UNCHANGED vars
  BY <1>7 DEF vars, S!vars
<1> QED
  BY <1>2, <1>3, <1>4, <1>5, <1>6, <1>7 DEF Next

\* The ring of pages implements the map of its interface: a compaction, a refused write and a
\* restart change nothing that NVOCMP_readItem returns, and a restart finds what was saved.
THEOREM StoreImplementsMap == Spec => ImplementsStore
  BY StoreInitMaps, StoreStepMaps, StoreInvariant, PTL DEF Spec, ImplementsStore, S!Spec
-----------------------------------------------------------------------------
(* Codec: what every request and every indication has in common.           *)

\* The answer is a sequence of fields; who leaves at the status reads one more field.
Answerable(r) ==
    /\ r.rsp \in Seq(Int)
    /\ r.policy \in {"read", "return", "ignore", "noStatus", "unanswered"}
    /\ r.policy = "return" => Len(r.rsp) = 2

LEMMA StatusOnly ==
  \A name, len, fields : Answerable(API_MAC_TxRx_Status(name, len, fields))
  BY DEF API_MAC_TxRx_Status, Request, Answerable

LEMMA GetsAnswerable ==
  \A name, class : \A w \in Int : Answerable(API_MAC_Get_Common(name, class, w))
  BY DEF API_MAC_Get_Common, Request, Answerable

LEMMA SetsAnswerable ==
  \A name, class, w : /\ Answerable(API_MAC_Set_Common(name, class, w))
                      /\ Answerable(API_MAC_SetSecurity_Common(name, w))
<1>1. \A name, class, w : Answerable(API_MAC_Set_Common(name, class, w))
  BY StatusOnly DEF API_MAC_Set_Common
<1>2. \A name, w : Answerable(API_MAC_SetSecurity_Common(name, w))
  BY DEF API_MAC_SetSecurity_Common, Request, Answerable
<1> QED
  BY <1>1, <1>2

LEMMA ArraysAnswerable ==
  ASSUME NEW isSet, NEW name, NEW class \in {"plain", "hopping", "security"}
  PROVE  \A r \in API_MAC_SetGetArray_Common(isSet, name, class) : Answerable(r)
<1> SUFFICES ASSUME NEW r \in API_MAC_SetGetArray_Common(isSet, name, class)
             PROVE  Answerable(r)
  OBVIOUS
<1>1. PICK n \in ArraySizes(class) :
         r = IF isSet
             THEN API_MAC_TxRx_Status(name, Size(Indexed(class)) + n,
                                      Indexed(class) \o <<-n>>)
             ELSE API_MAC_Get_Common(name, class, -n)
  BY DEF API_MAC_SetGetArray_Common
<1>2. -n \in Int
  BY DEF ArraySizes
<1> QED
  BY <1>1, <1>2, StatusOnly, GetsAnswerable

\* Sequences of fields one after another.
LEMMA Joined ==
  ASSUME NEW s \in Seq(Int), NEW t \in Seq(Int)
  PROVE  s \o t \in Seq(Int)
  OBVIOUS

LEMMA BytesType ==
  ASSUME NEW n \in Nat
  PROVE  Bytes(n) \in Seq(Int)
  BY DEF Bytes

LEMMA FieldTypes ==
  /\ Sec \in Seq(Int)
  /\ \A type : Addr(type) \in Seq(Int)
<1>1. Sec \in Seq(Int)
  BY DEF Sec
<1>2. Bytes(6) \in Seq(Int) /\ Bytes(8) \in Seq(Int)
  BY BytesType
<1>3. \A type : Addr(type) \in Seq(Int)
  BY <1>2, Joined DEF Addr
<1> QED
  BY <1>1, <1>3

LEMMA StructsAnswerable ==
  \A r \in common_ApiMac_mlmeGetSetSecurityReqStruct : Answerable(r)
<1>1. ASSUME NEW isSet \in BOOLEAN, NEW indices \in Seq(Int), NEW value \in Seq(Int)
      PROVE  Answerable(SecurityStruct(isSet, indices, value))
  <2>1. <<1>> \o indices \o value \in Seq(Int) /\ <<1>> \in Seq(Int)
    BY Joined
  <2> QED
    BY <2>1 DEF SecurityStruct, Request, Answerable
<1>0. /\ <<2, 2>> \in Seq(Int) /\ <<2, 1>> \in Seq(Int) /\ <<1, 1>> \in Seq(Int)
      /\ <<1, 1, 2>> \in Seq(Int) /\ <<>> \in Seq(Int) /\ <<-9, 1>> \in Seq(Int)
      /\ <<2, 1, 1>> \in Seq(Int) /\ <<-16, 4>> \in Seq(Int)
      /\ <<2, 2, -8, 1, 4, 2>> \in Seq(Int)
  OBVIOUS
<1>2. Answerable(keyTable)
  <2>1. TRUE \in BOOLEAN
    OBVIOUS
  <2> QED
    BY <1>0, <1>1, <2>1, Zenon DEF keyTable
<1>3. ASSUME NEW isSet \in BOOLEAN
      PROVE  /\ Answerable(keyIdLookupEntry(isSet)) /\ Answerable(keyDeviceEntry(isSet))
             /\ Answerable(keyUsageEntry(isSet)) /\ Answerable(keyEntry(isSet))
             /\ Answerable(deviceEntry(isSet)) /\ Answerable(securityLevelEntry(isSet))
  <2>1. Answerable(keyIdLookupEntry(isSet)) /\ Answerable(keyDeviceEntry(isSet))
    BY <1>0, <1>1, Zenon DEF keyIdLookupEntry, keyDeviceEntry
  <2>2. Answerable(keyUsageEntry(isSet)) /\ Answerable(keyEntry(isSet))
    BY <1>0, <1>1, Zenon DEF keyUsageEntry, keyEntry
  <2>3. Answerable(deviceEntry(isSet))
    BY <1>0, <1>1, Zenon DEF deviceEntry
  <2>4. Answerable(securityLevelEntry(isSet))
    <3>1. Bytes(4) \in Seq(Int)
      BY BytesType
    <3> QED
      BY <1>0, <1>1, <3>1, Zenon DEF securityLevelEntry
  <2> QED
    BY <2>1, <2>2, <2>3, <2>4
<1> QED
  BY <1>2, <1>3 DEF common_ApiMac_mlmeGetSetSecurityReqStruct

LEMMA MtRequestsAnswerable ==
  /\ Answerable(MT_MSG_reset) /\ Answerable(get_extAddr) /\ Answerable(MT_MSG_getVersion)
  /\ Answerable(common_send_status)
  /\ \A n \in Sizes : Answerable(MT_MSG_loopback(n))
<1>1. Answerable(MT_MSG_reset) /\ Answerable(common_send_status)
  BY DEF MT_MSG_reset, common_send_status, Request, Answerable
<1>2. Answerable(get_extAddr) /\ Answerable(MT_MSG_getVersion)
  BY BytesType DEF get_extAddr, MT_MSG_getVersion, Request, Answerable
<1>3. \A n \in Sizes : -n \in Int
  BY CodecAssumption
<1>4. \A n \in Sizes : Answerable(MT_MSG_loopback(n))
  BY <1>3 DEF MT_MSG_loopback, Request, Answerable
<1> QED
  BY <1>1, <1>2, <1>4

LEMMA RequestsAnswerable == \A r \in ApiRequests : Answerable(r)
<1>1. /\ \A a, m, i : Answerable(ApiMac_mcpsDataReq(a, m, i))
      /\ \A a : /\ Answerable(ApiMac_mlmeAssociateReq(a))
                /\ Answerable(ApiMac_mlmeDisassociateReq(a))
                /\ Answerable(ApiMac_mlmePollReq(a))
      /\ \A i : Answerable(ApiMac_mlmeStartReq(i))
  BY StatusOnly DEF ApiMac_mcpsDataReq, ApiMac_mlmeAssociateReq, ApiMac_mlmeDisassociateReq,
     ApiMac_mlmePollReq, ApiMac_mlmeStartReq
<1>2. \A r \in {ApiMac_mcpsPurgeReq, ApiMac_mlmeOrphanRsp, ApiMac_mlmeResetReq,
                ApiMac_mlmeScanReq, ApiMac_mlmeSyncReq, ApiMac_updatePanId,
                ApiMac_srcMatchEnable, ApiMac_mlmeWSAsyncReq, ApiMac_startFH,
                ApiMac_enableFH, ApiMac_mlmeAssociateRsp, ApiMac_secAddDevice,
                ApiMac_secDeleteDevice, ApiMac_secDeleteKeyAndAssocDevices,
                ApiMac_secDeleteAllDevices, ApiMac_secGetDefaultSourceKey,
                ApiMac_secAddKeyInitFrameCounter} : Answerable(r)
  <2>1. Answerable(ApiMac_secGetDefaultSourceKey)
    BY DEF ApiMac_secGetDefaultSourceKey, Request, Answerable
  <2> QED
    BY <2>1, StatusOnly DEF ApiMac_mcpsPurgeReq, ApiMac_mlmeOrphanRsp, ApiMac_mlmeResetReq,
       ApiMac_mlmeScanReq, ApiMac_mlmeSyncReq, ApiMac_updatePanId,
       ApiMac_srcMatchEnable, ApiMac_mlmeWSAsyncReq, ApiMac_startFH,
       ApiMac_enableFH, ApiMac_mlmeAssociateRsp, ApiMac_secAddDevice,
       ApiMac_secDeleteDevice, ApiMac_secDeleteKeyAndAssocDevices,
       ApiMac_secDeleteAllDevices, ApiMac_secAddKeyInitFrameCounter
<1>3. \A r \in {ApiMac_mlmeGetReqBool, ApiMac_mlmeGetReqUint8,
                ApiMac_mlmeGetReqUint16, ApiMac_mlmeGetReqUint32,
                ApiMac_mlmeGetFhReqUint8, ApiMac_mlmeGetFhReqUint16,
                ApiMac_mlmeGetFhReqUint32, ApiMac_mlmeGetSecurityReqUint8,
                ApiMac_mlmeGetSecurityReqUint16} : Answerable(r)
  BY GetsAnswerable DEF ApiMac_mlmeGetReqBool, ApiMac_mlmeGetReqUint8,
     ApiMac_mlmeGetReqUint16, ApiMac_mlmeGetReqUint32,
     ApiMac_mlmeGetFhReqUint8, ApiMac_mlmeGetFhReqUint16,
     ApiMac_mlmeGetFhReqUint32, ApiMac_mlmeGetSecurityReqUint8,
     ApiMac_mlmeGetSecurityReqUint16
<1>4. \A r \in {ApiMac_mlmeSetReqBool,
                ApiMac_mlmeSetReqUint8, ApiMac_mlmeSetReqUint16,
                ApiMac_mlmeSetReqUint32, ApiMac_mlmeSetFhReqUint8,
                ApiMac_mlmeSetFhReqUint16, ApiMac_mlmeSetFhReqUint32,
                ApiMac_mlmeSetSecurityReqUint8, ApiMac_mlmeSetSecurityReqUint16} : Answerable(r)
  BY SetsAnswerable DEF ApiMac_mlmeSetReqBool,
     ApiMac_mlmeSetReqUint8, ApiMac_mlmeSetReqUint16,
     ApiMac_mlmeSetReqUint32, ApiMac_mlmeSetFhReqUint8,
     ApiMac_mlmeSetFhReqUint16, ApiMac_mlmeSetFhReqUint32,
     ApiMac_mlmeSetSecurityReqUint8, ApiMac_mlmeSetSecurityReqUint16
<1>5. \A r \in ApiMac_mlmeGetReqArray \cup ApiMac_mlmeSetReqArray
               \cup ApiMac_mlmeGetFhReqArray \cup ApiMac_mlmeSetFhReqArray
               \cup ApiMac_mlmeGetSecurityReqArray \cup ApiMac_mlmeSetSecurityReqArray :
         Answerable(r)
  BY ArraysAnswerable DEF ApiMac_mlmeGetReqArray, ApiMac_mlmeSetReqArray,
     ApiMac_mlmeGetFhReqArray, ApiMac_mlmeSetFhReqArray,
     ApiMac_mlmeGetSecurityReqArray, ApiMac_mlmeSetSecurityReqArray
<1> QED
  BY <1>1, <1>2, <1>3, <1>4, <1>5, StructsAnswerable, MtRequestsAnswerable DEF ApiRequests
\* An indication is a sequence of fields, and is delivered or not.
Readable(r) ==
    /\ r.rsp \in Seq(Int)
    /\ r.policy \in {"deliver", "refuse", "skip"}

LEMMA DeliversReadable ==
  \A name : \A fields \in Seq(Int) : Readable(Deliver(name, fields))
  BY DEF Deliver, Indication, Readable

\* A field repeated.
LEMMA RepeatType ==
  ASSUME NEW n \in Nat, NEW fields \in Seq(Int), Len(fields) > 0
  PROVE  Repeat(n, fields) \in Seq(Int)
<1>1. Len(fields) \in Nat /\ \A i \in 1..Len(fields) : fields[i] \in Int
  OBVIOUS
<1>2. ASSUME NEW i \in 1..n * Len(fields)
      PROVE  fields[((i - 1) % Len(fields)) + 1] \in Int
  <2>1. i - 1 \in Nat
    <3>1. n * Len(fields) \in Int
      BY <1>1
    <3> QED
      BY <3>1
  <2> DEFINE k == i - 1
             l == Len(fields)
  <2>2. k \in Int /\ l \in Nat /\ l > 0
    BY <1>1, <2>1
  <2>3. k % l \in 0..l - 1
    <3> HIDE DEF k, l
    <3> QED
      BY <2>2
  <2>4. ((i - 1) % Len(fields)) + 1 \in 1..Len(fields)
    <3> DEFINE x == k % l
    <3>1. x \in 0..l - 1
      BY <2>3
    <3> HIDE DEF x, l
    <3>2. x + 1 \in 1..l
      BY <2>2, <3>1
    <3> QED
      BY <3>2 DEF x, l
  <2> QED
    BY <1>1, <2>4, Zenon
<1>3. n * Len(fields) \in Nat
  BY <1>1
<1> QED
  BY <1>2, <1>3 DEF Repeat

LEMMA IndicationsReadable == \A r \in ApiIndications : Readable(r)
<1>0. /\ Sec \in Seq(Int) /\ (\A type : Addr(type) \in Seq(Int))
      /\ (\A n \in Nat : Bytes(n) \in Seq(Int))
      /\ \A s, t \in Seq(Int) : s \o t \in Seq(Int)
  BY FieldTypes, BytesType, Joined
<1>1. \A n \in Sizes : n \in Nat /\ -n \in Int /\ -2 * n \in Int /\ -8 * n \in Int
  BY CodecAssumption
<1>2. ASSUME NEW m \in Sizes, NEW i \in Sizes
      PROVE  <<4, 2, 2, -m, -i>> \in Seq(Int) /\ <<4, 1, 2, 2, -m, -i>> \in Seq(Int)
  <2>1. -m \in Int /\ -i \in Int
    BY <1>1
  <2> DEFINE a == -m
             b == -i
  <2>2. a \in Int /\ b \in Int
    BY <2>1
  <2> HIDE DEF a, b
  <2>3. <<4, 2, 2, a, b>> \in Seq(Int) /\ <<4, 1, 2, 2, a, b>> \in Seq(Int)
    BY <2>2
  <2> QED
    BY <2>3 DEF a, b
<1>3. <<4, 2, 2, 2, 1, 1, 1, 1>> \in Seq(Int)
  OBVIOUS
<1>4. ASSUME NEW a, NEW m \in Sizes, NEW i \in Sizes
      PROVE  Readable(data_ind(a, m, i)) /\ Readable(ws_async_ind(a, m, i))
  <2>1. Addr(a) \o Addr("short") \o <<4, 2, 2, 2, 1, 1, 1, 1>> \o Sec
           \o <<4, 2, 2, -m, -i>> \in Seq(Int)
    BY <1>0, <1>2, <1>3, Zenon
  <2>2. Addr(a) \o Addr("short") \o <<4, 2, 2, 2, 1, 1, 1, 1>> \o Sec
           \o <<4, 1, 2, 2, -m, -i>> \in Seq(Int)
    BY <1>0, <1>2, <1>3, Zenon
  <2> QED
    BY <2>1, <2>2, DeliversReadable, Zenon DEF data_ind, ws_async_ind
<1>5. /\ <<1>> \in Seq(Int) /\ <<2>> \in Seq(Int) /\ <<2, 1>> \in Seq(Int)
      /\ <<1, 1>> \in Seq(Int) /\ <<-8>> \in Seq(Int) /\ <<-8, 1>> \in Seq(Int)
      /\ <<1, 2>> \in Seq(Int) /\ <<1, 2, 1, 1, 1>> \in Seq(Int)
      /\ <<1, 1, 4, 2, 1, 1, 1, 1, 4>> \in Seq(Int)
      /\ <<1, 1, 4>> \in Seq(Int) /\ <<2, 2>> \in Seq(Int) /\ <<-17, 1>> \in Seq(Int)
      /\ <<2, 2, 1, 1, 1, 1, 4, 1>> \in Seq(Int)
  OBVIOUS
<1>6. ASSUME NEW a
      PROVE  /\ Readable(disassociate_cnf(a)) /\ Readable(comm_status_ind(a))
             /\ Readable(poll_ind(a))
  <2>1. /\ <<1>> \o Addr(a) \o <<2>> \in Seq(Int)
        /\ <<1>> \o Addr(a) \o Addr("short") \o <<2, 1>> \o Sec \in Seq(Int)
        /\ Addr(a) \o <<2, 1>> \in Seq(Int)
    BY <1>0, <1>5, Zenon
  <2> QED
    BY <2>1, DeliversReadable, Zenon DEF disassociate_cnf, comm_status_ind, poll_ind
<1>7. /\ Readable(associate_ind) /\ Readable(sync_loss_ind) /\ Readable(orphan_ind)
      /\ Readable(associate_cnf) /\ Readable(disassociate_ind)
  <2>1. /\ <<-8, 1>> \o Sec \in Seq(Int) /\ <<1, 2, 1, 1, 1>> \o Sec \in Seq(Int)
        /\ <<-8>> \o Sec \in Seq(Int) /\ <<1, 2>> \o Sec \in Seq(Int)
    BY <1>0, <1>5, Zenon
  <2> QED
    BY <2>1, DeliversReadable, Zenon DEF associate_ind, sync_loss_ind, orphan_ind,
       associate_cnf, disassociate_ind
<1>8. /\ Readable(data_cnf) /\ Readable(purge_cnf) /\ Readable(poll_cnf)
      /\ Readable(start_cnf) /\ Readable(ws_async_cnf)
  BY <1>5, DeliversReadable, Zenon DEF data_cnf, purge_cnf, poll_cnf, start_cnf, ws_async_cnf
<1>9. Readable(reset_ind)
  <2>1. Bytes(6) \in Seq(Int)
    BY BytesType
  <2> QED
    BY <2>1, DeliversReadable DEF reset_ind
<1>10. ASSUME NEW s \in Few, NEW e \in Few, NEW n \in Sizes, NEW r \in beacon_notify(s, e, n)
       PROVE  Readable(r)
  <2>1. Bytes(5) \in Seq(Int) /\ Bytes(3) \in Seq(Int) /\ Bytes(8) \in Seq(Int)
    BY BytesType
  <2>2. <<-2 * s, -8 * e, -n>> \in Seq(Int)
    <3> DEFINE x == -2 * s
               y == -8 * e
               z == -n
    <3>1. x \in Int /\ y \in Int /\ z \in Int
      BY <1>1 DEF Few
    <3> HIDE DEF x, y, z
    <3>2. <<x, y, z>> \in Seq(Int)
      BY <3>1
    <3> QED
      BY <3>2 DEF x, y, z
  <2>3. /\ <<1, 1, 4>> \o Addr("short") \o <<2, 2>> \o Bytes(5) \o Sec \o Bytes(3)
             \o <<-2 * s, -8 * e, -n>> \in Seq(Int)
        /\ Bytes(8) \o <<2>> \in Seq(Int)
    BY <1>0, <1>5, <2>1, <2>2, Zenon
  <2>4. Readable(Indication("beacon_unknown", <<1, 1>>, "skip"))
    BY DEF Readable, Indication
  <2> QED
    BY <2>3, <2>4, DeliversReadable, Zenon DEF beacon_notify
<1>11. ASSUME NEW n \in Few, NEW r \in scan_cnf(n)
       PROVE  Readable(r)
  <2> DEFINE head == Bytes(4) \o <<-17, 1>>
  <2>1. Bytes(4) \in Seq(Int)
    BY BytesType
  <2>2. head \in Seq(Int)
    BY <1>0, <1>5, <2>1, Zenon
  <2> HIDE DEF head
  <2>3. head \o <<-n>> \in Seq(Int)
    <3>1. <<-n>> \in Seq(Int)
      BY <1>1 DEF Few
    <3> QED
      BY <1>0, <2>2, <3>1, Zenon
  <2>4. head \o Repeat(n, api_rd_panDesc) \in Seq(Int)
    <3>1. api_rd_panDesc \in Seq(Int)
      BY <1>0, <1>5, Zenon DEF api_rd_panDesc
    <3>2. Len(api_rd_panDesc) > 0
      <4>1. Len(Addr("short") \o <<2, 2, 1, 1, 1, 1, 4, 1>>) \in Nat
        BY <1>0, <1>5
      <4>2. Addr("short") \o <<2, 2, 1, 1, 1, 1, 4, 1>> \in Seq(Int)
        BY <1>0, <1>5, Zenon
      <4>3. Len(Sec) = 4
        BY DEF Sec
      <4> QED
        BY <1>0, <4>1, <4>2, <4>3 DEF api_rd_panDesc
    <3>3. Repeat(n, api_rd_panDesc) \in Seq(Int)
      <4>1. n \in Nat
        BY <1>1 DEF Few
      <4> QED
        BY <3>1, <3>2, <4>1, RepeatType
    <3> QED
      BY <1>0, <2>2, <3>3, Zenon
  <2>5. /\ Readable(Indication("scan_orphan", head, IF n = 0 THEN "deliver" ELSE "refuse"))
        /\ Readable(Indication("scan_unknown", head, "refuse"))
    BY <2>2 DEF Readable, Indication
  <2>6. r \in {Indication("scan_orphan", head, IF n = 0 THEN "deliver" ELSE "refuse"),
               Deliver("scan_energy", head \o <<-n>>),
               Deliver("scan_active", head \o Repeat(n, api_rd_panDesc)),
               Indication("scan_unknown", head, "refuse")}
    BY Zenon DEF scan_cnf, head
  <2> QED
    BY <2>3, <2>4, <2>5, <2>6, DeliversReadable, Zenon
<1> SUFFICES ASSUME NEW r \in ApiIndications PROVE Readable(r)
  OBVIOUS
<1>12. CASE r \in DataIndications
  BY <1>4, <1>12 DEF DataIndications
<1>13. CASE r \in AddressIndications
  BY <1>6, <1>13 DEF AddressIndications
<1>14. CASE r \in BeaconIndications
  <2>1. \E s \in Few, e \in Few, n \in Sizes : r \in beacon_notify(s, e, n)
    BY <1>14 DEF BeaconIndications
  <2> QED
    BY <1>10, <2>1
<1>15. CASE r \in ScanIndications
  <2>1. \E n \in Few : r \in scan_cnf(n)
    BY <1>15 DEF ScanIndications
  <2> QED
    BY <1>11, <2>1
<1>16. CASE r \in {associate_ind, sync_loss_ind, data_cnf, purge_cnf, orphan_ind,
                   associate_cnf, disassociate_ind, poll_cnf, start_cnf, ws_async_cnf,
                   reset_ind}
  BY <1>7, <1>8, <1>9, <1>16
<1> QED
  BY <1>12, <1>13, <1>14, <1>15, <1>16 DEF ApiIndications
-----------------------------------------------------------------------------
(* What has been read of a message.                                        *)

\* f is the lengths of the first fields: as far as the message has been read, what was read
\* is what the fields take.
ReadUpTo(f, rsp) ==
    /\ Partial(f, Widths(rsp))
    /\ at \in 1..Len(rsp) + 1
    /\ idx = Header + f[at - 1]

\* Only a call that is over has a verdict; whoever returns a value has passed the status.
ReadInv ==
    /\ call \in ApiRequests \cup ApiIndications \cup {NoCall}
    /\ stage # "idle" => verdict = "none"
    /\ stage = "read" =>
          /\ \E f : ReadUpTo(f, call.rsp)
          /\ call.policy # "unanswered"
          /\ call.policy = "return" => /\ answered \in {"success", "refused"}
                                       /\ at > 2 => answered = "success"
    /\ SuccessIsReal

\* The widths of fields are numbers.
LEMMA WidthsType ==
  ASSUME NEW fields \in Seq(Int)
  PROVE  /\ Widths(fields) \in Seq(Nat) /\ Len(Widths(fields)) = Len(fields)
         /\ \A i \in 1..Len(fields) : Widths(fields)[i] = Width(fields[i])
                                      /\ Width(fields[i]) \in Nat
<1>1. Len(fields) \in Nat /\ DOMAIN fields = 1..Len(fields)
  OBVIOUS
<1>2. ASSUME NEW i \in 1..Len(fields) PROVE Width(fields[i]) \in Nat
  <2>1. fields[i] \in Int
    OBVIOUS
  <2> QED
    BY <2>1 DEF Width
<1>3. Widths(fields) = [i \in 1..Len(fields) |-> Width(fields[i])]
  BY <1>1 DEF Widths
<1> QED
  BY <1>1, <1>2, <1>3

\* Every message has fields.
LEMMA HasFields ==
  ASSUME NEW r \in ApiRequests \cup ApiIndications \cup {NoCall}
  PROVE  r.rsp \in Seq(Int) /\ (r.policy = "return" => Len(r.rsp) = 2)
<1>1. NoCall.rsp \in Seq(Int) /\ NoCall.policy # "return"
  BY DEF NoCall, Request
<1> QED
  BY <1>1, RequestsAnswerable, IndicationsReadable DEF Answerable, Readable

\* A message that is received has not been read.
LEMMA ReceivedUnread ==
  ASSUME NEW rsp \in Seq(Int), at' = 1, idx' = Header
  PROVE  \E f : ReadUpTo(f, rsp)'
<1>1. PICK f : Partial(f, Widths(rsp))
  BY WidthsType, PartialExists
<1>2. f[0] = 0
  BY <1>1 DEF Partial
<1>3. Len(rsp) \in Nat
  OBVIOUS
<1>4. at' \in 1..Len(rsp) + 1 /\ idx' = Header + f[at' - 1]
  BY <1>2, <1>3 DEF Header
<1> QED
  BY <1>1, <1>4 DEF ReadUpTo

\* A field that is read is passed.
LEMMA FieldPassed ==
  ASSUME NEW rsp \in Seq(Int), NEW f, ReadUpTo(f, rsp), at <= Len(rsp),
         idx' = idx + Width(rsp[at]), at' = at + 1
  PROVE  ReadUpTo(f, rsp)'
<1>1. Partial(f, Widths(rsp)) /\ at \in 1..Len(rsp) + 1 /\ idx = Header + f[at - 1]
  BY DEF ReadUpTo
<1>2. at \in 1..Len(rsp) /\ at' \in 1..Len(rsp) + 1 /\ at' - 1 = at
  BY <1>1
<1>3. /\ f[at] = f[at - 1] + Width(rsp[at])
      /\ f[at - 1] \in Nat /\ Width(rsp[at]) \in Nat
  BY <1>1, <1>2, WidthsType, PartialStep
<1>4. idx' = Header + f[at]
  <2> DEFINE w == Width(rsp[at])
             a == f[at - 1]
             b == f[at]
  <2>1. idx' = idx + w /\ idx = Header + a /\ b = a + w /\ a \in Nat /\ w \in Nat
    BY <1>1, <1>3
  <2> HIDE DEF w, a, b
  <2>2. idx' = Header + b
    BY <2>1 DEF Header
  <2> QED
    BY <2>2 DEF b
<1> QED
  BY <1>1, <1>2, <1>4 DEF ReadUpTo

\* What has been read to its end is as long as its fields.
LEMMA ReadToEnd ==
  ASSUME NEW rsp \in Seq(Int), NEW f, ReadUpTo(f, rsp), at > Len(rsp)
  PROVE  idx = Header + Size(rsp)
<1>1. Partial(f, Widths(rsp)) /\ at \in 1..Len(rsp) + 1 /\ idx = Header + f[at - 1]
  BY DEF ReadUpTo
<1>2. at - 1 = Len(rsp)
  BY <1>1
<1>3. Total(Widths(rsp)) = f[Len(rsp)]
  BY <1>1, WidthsType, PartialIsUnique
<1> QED
  BY <1>1, <1>2, <1>3 DEF Size

LEMMA ReadInvInit == CodecInit => ReadInv
  BY DEF CodecInit, ReadInv, SuccessIsReal, RefusalsAreReported, UseIsOfTheWhole

\* Without a verdict nothing is used.
LEMMA Unused ==
  ASSUME verdict' \notin {"success", "delivered"}
  PROVE  SuccessIsReal'
  BY DEF SuccessIsReal, RefusalsAreReported, UseIsOfTheWhole

\* Every step keeps the invariant.
LEMMA ReadInvNext == ReadInv /\ [CodecNext]_codecVars => ReadInv'
<1> SUFFICES ASSUME ReadInv, [CodecNext]_codecVars PROVE ReadInv'
  OBVIOUS
<1>0. /\ call \in ApiRequests \cup ApiIndications \cup {NoCall}
      /\ stage # "idle" => verdict = "none"
      /\ stage = "read" =>
            /\ \E f : ReadUpTo(f, call.rsp)
            /\ call.policy # "unanswered"
            /\ call.policy = "return" => /\ answered \in {"success", "refused"}
                                         /\ at > 2 => answered = "success"
      /\ SuccessIsReal
  BY DEF ReadInv
<1>1. ASSUME NEW r \in ApiRequests, NewMessage(r) PROVE ReadInv'
  <2>1. call' = r /\ verdict' = "none" /\ stage' \in {"stopped", "write"}
    BY <1>1 DEF NewMessage, Stop
  <2>2. SuccessIsReal'
    BY <2>1, Unused
  <2> QED
    BY <2>1, <2>2 DEF ReadInv
<1>2. ASSUME NEW ind \in ApiIndications, NEW e \in Excess, Indicated(ind, e) PROVE ReadInv'
  <2>1. call' = ind /\ verdict' = "none" /\ stage' = "read" /\ at' = 1 /\ idx' = Header
    BY <1>2 DEF Indicated, Received
  <2>2. SuccessIsReal'
    BY <2>1, Unused
  <2>3. ind.rsp \in Seq(Int) /\ ind.policy \notin {"return", "unanswered"}
    BY IndicationsReadable DEF Readable
  <2>4. \E f : ReadUpTo(f, ind.rsp)'
    BY <2>1, <2>3, ReceivedUnread
  <2>5. (\E f : ReadUpTo(f, call.rsp))'
    BY <2>1, <2>4
  <2> QED
    BY <2>1, <2>2, <2>3, <2>5 DEF ReadInv
<1>3. ASSUME WriteField \/ FormatMsg \/ NoAnswer PROVE ReadInv'
  <2>1. /\ call' = call /\ stage' \in {"write", "sent", "stopped", "idle"}
        /\ verdict' = verdict \/ verdict' = "badState"
        /\ verdict = "none" /\ (stage' # "idle" => verdict' = verdict)
    BY <1>0, <1>3 DEF WriteField, FormatMsg, NoAnswer, Stop, End
  <2>2. SuccessIsReal'
    BY <2>1, Unused
  <2> QED
    BY <1>0, <2>1, <2>2 DEF ReadInv
<1>4. ASSUME NEW e \in Excess, Answered(e) PROVE ReadInv'
  <2>1. /\ call' = call /\ verdict' = "none" /\ stage' = "read" /\ at' = 1 /\ idx' = Header
        /\ answered' \in {"success", "refused"} /\ call.policy # "unanswered"
    BY <1>0, <1>4 DEF Answered, Received
  <2>2. SuccessIsReal'
    BY <2>1, Unused
  <2>3. call.rsp \in Seq(Int)
    BY <1>0, HasFields
  <2>4. \E f : ReadUpTo(f, call.rsp)'
    BY <2>1, <2>3, ReceivedUnread
  <2>5. (\E f : ReadUpTo(f, call.rsp))'
    BY <2>1, <2>4
  <2> QED
    BY <1>0, <2>1, <2>2, <2>5 DEF ReadInv
<1>5. CASE ReadField
  <2>1. /\ stage = "read" /\ at <= Len(call.rsp) /\ ~Refused
        /\ call' = call /\ answered' = answered /\ verdict' = "none"
        /\ \/ idx' = idx + Width(call.rsp[at]) /\ at' = at + 1 /\ stage' = "read"
           \/ stage' = "stopped"
    BY <1>0, <1>5 DEF ReadField, Stop
  <2>2. SuccessIsReal'
    BY <2>1, Unused
  <2>3. CASE stage' = "stopped"
    BY <1>0, <2>1, <2>2, <2>3 DEF ReadInv
  <2>4. CASE idx' = idx + Width(call.rsp[at]) /\ at' = at + 1 /\ stage' = "read"
    <3>1. call.rsp \in Seq(Int)
      BY <1>0, HasFields
    <3>2. PICK f : ReadUpTo(f, call.rsp)
      BY <1>0, <2>1
    <3> DEFINE rsp == call.rsp
    <3>3. ReadUpTo(f, rsp)'
      <4>1. rsp \in Seq(Int) /\ ReadUpTo(f, rsp) /\ at <= Len(rsp)
            /\ idx' = idx + Width(rsp[at]) /\ at' = at + 1
        BY <2>1, <2>4, <3>1, <3>2
      <4>2. rsp' = rsp
        BY <2>1
      <4> QED
        BY <4>1, <4>2, FieldPassed
    <3>4. ASSUME call.policy = "return"
          PROVE  answered \in {"success", "refused"} /\ (at' > 2 => answered = "success")
      <4>1. answered \in {"success", "refused"} /\ (at > 2 => answered = "success")
        BY <1>0, <2>1, <3>4
      <4>2. at \in Nat /\ (at = 2 => answered # "refused")
        BY <2>1, <3>1, <3>2, <3>4 DEF ReadUpTo, Refused
      <4> QED
        BY <2>4, <4>1, <4>2
    <3> QED
      BY <1>0, <2>1, <2>2, <2>4, <3>3, <3>4 DEF ReadInv
  <2> QED
    BY <2>1, <2>3, <2>4
<1>6. CASE LeaveRefused
  <2>1. call' = call /\ stage' = "idle" /\ verdict' = "refused"
    BY <1>6 DEF LeaveRefused, End
  <2>2. SuccessIsReal'
    BY <2>1, Unused
  <2> QED
    BY <1>0, <2>1, <2>2 DEF ReadInv
<1>7. CASE ParseComplete
  <2>1. /\ stage = "read" /\ at > Len(call.rsp)
        /\ call' = call /\ answered' = answered /\ valid' = valid
        /\ \/ /\ Whole \/ call.policy = "skip"
              /\ stage' = "idle" /\ verdict' = Verdict
           \/ stage' = "stopped" /\ verdict' = "none"
    BY <1>0, <1>7 DEF ParseComplete, Stop, End
  <2>2. CASE stage' = "stopped" /\ verdict' = "none"
    <3>1. SuccessIsReal'
      BY <2>2, Unused
    <3> QED
      BY <1>0, <2>1, <2>2, <3>1 DEF ReadInv
  <2>3. CASE (Whole \/ call.policy = "skip") /\ stage' = "idle" /\ verdict' = Verdict
    <3>1. /\ call.rsp \in Seq(Int) /\ (call.policy = "return" => Len(call.rsp) = 2)
          /\ call.policy \in {"read", "return", "ignore", "noStatus", "unanswered",
                              "deliver", "refuse", "skip"}
      <4>1. NoCall.policy = "noStatus"
        BY DEF NoCall, Request
      <4> QED
        BY <1>0, <4>1, HasFields, RequestsAnswerable, IndicationsReadable DEF Answerable, Readable
    <3>2. idx = Header + Size(call.rsp)
      <4>1. PICK f : ReadUpTo(f, call.rsp)
        BY <1>0, <2>1
      <4> QED
        BY <2>1, <3>1, <4>1, ReadToEnd
    <3>3. verdict' \in {"success", "delivered"} => valid = idx
      BY <2>3, <3>1 DEF Verdict, Whole
    <3>4. UseIsOfTheWhole'
      BY <2>1, <3>2, <3>3 DEF UseIsOfTheWhole
    <3>5. ASSUME verdict' = "success"
          PROVE  answered = "success" \/ call.policy \in {"ignore", "noStatus"}
      <4>1. call.policy = "read" => answered = "success"
        BY <2>3, <3>5 DEF Verdict
      <4>2. call.policy = "return" => answered = "success"
        BY <1>0, <2>1, <3>1
      <4>3. call.policy \in {"read", "return", "ignore", "noStatus"}
        BY <1>0, <2>1, <2>3, <3>1, <3>5 DEF Verdict
      <4> QED
        BY <4>1, <4>2, <4>3
    <3>6. RefusalsAreReported'
      BY <2>1, <3>5 DEF RefusalsAreReported
    <3> QED
      BY <1>0, <2>1, <2>3, <3>4, <3>6 DEF ReadInv, SuccessIsReal
  <2> QED
    BY <2>1, <2>2, <2>3
<1>8. CASE UNCHANGED codecVars
  <2>1. /\ stage' = stage /\ call' = call /\ at' = at /\ idx' = idx /\ valid' = valid
        /\ answered' = answered /\ verdict' = verdict
    BY <1>8 DEF codecVars
  <2> QED
    BY <1>0, <2>1 DEF ReadInv, ReadUpTo, SuccessIsReal, RefusalsAreReported, UseIsOfTheWhole
<1> QED
  BY <1>1, <1>2, <1>3, <1>4, <1>5, <1>6, <1>7, <1>8 DEF CodecNext

\* Whatever the lengths of what varies and of what is received: a callback is called, and a
\* value returned, only when the message had the length of its layout, and a refusal is not
\* reported as a success but where the status is dropped.
THEOREM WholeAndReal == CodecSpec => []SuccessIsReal
<1>1. ReadInv => SuccessIsReal
  BY DEF ReadInv
<1> QED
  BY <1>1, ReadInvInit, ReadInvNext, PTL DEF CodecSpec

=============================================================================
