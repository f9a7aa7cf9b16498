----------------------------- MODULE Induction ------------------------------
(***************************************************************************)
(* Induction over data, for the proofs about what loops and folds compute.  *)
(* A set of natural numbers has a least one, because finite sets are        *)
(* well-founded, so a claim about all numbers can be proved of the least    *)
(* for which it fails.  The claim is a set here: no lemma has a parameter    *)
(* that is an operator.                                                     *)
(***************************************************************************)
EXTENDS Integers, SequencesExt, FiniteSetTheorems, SequenceTheorems, TLAPS

-----------------------------------------------------------------------------
(* Least and greatest numbers.                                              *)

LEMMA Least ==
  ASSUME NEW T, T \subseteq Nat, T # {}
  PROVE  \E x \in T : \A y \in T : x <= y
<1>1. IsWellFoundedOn(StrictSubsetOrdering(Nat), FiniteSubsetsOf(Nat))
  BY FS_StrictSubsetOrderingWellFounded
<1>2. PICK I : I = {1 .. n : n \in T}
  OBVIOUS
<1>3. I # {}
  BY <1>2
<1>4. ASSUME NEW n \in T PROVE 1 .. n \in SUBSET Nat /\ IsFiniteSet(1 .. n)
  <2>1. n \in Int
    OBVIOUS
  <2>2. IsFiniteSet(1 .. n)
    BY <2>1, FS_Interval
  <2>3. QED
    BY <2>1, <2>2
<1>5. I \subseteq FiniteSubsetsOf(Nat)
  BY <1>2, <1>4, Zenon DEF FiniteSubsetsOf
<1>6. PICK J \in I : \A K \in I : ~ (<<K, J>> \in StrictSubsetOrdering(Nat))
  BY <1>1, <1>3, <1>5, WFMin
<1>7. PICK x \in T : J = 1 .. x
  BY <1>2, <1>6
<1>8. ASSUME NEW y \in T, y < x PROVE FALSE
  <2>1. 1 .. y \in I
    BY <1>2
  <2>2. ~ (<<1 .. y, 1 .. x>> \in StrictSubsetOrdering(Nat))
    BY <1>6, <1>7, <2>1
  <2>3. 1 .. y \subseteq 1 .. x /\ x \in 1 .. x /\ x \notin 1 .. y
    BY <1>8
  <2>4. 1 .. y \in SUBSET Nat /\ 1 .. x \in SUBSET Nat
    BY <1>4
  <2>5. QED
    BY <2>2, <2>3, <2>4 DEF StrictSubsetOrdering
<1>9. \A y \in T : x <= y
  BY <1>8
<1>10. QED
  BY <1>9

LEMMA Greatest ==
  ASSUME NEW n \in Nat, NEW I, I \subseteq 0 .. n, I # {}
  PROVE  \E x \in I : \A y \in I : x >= y
<1>1. PICK T : T = {n - i : i \in I}
  OBVIOUS
<1>2. T \subseteq Nat /\ T # {}
  <2>1. \A i \in I : n - i \in Nat
    OBVIOUS
  <2>2. T # {}
    BY <1>1
  <2>3. QED
    BY <1>1, <2>1, <2>2
<1>3. PICK t \in T : \A u \in T : t <= u
  BY <1>2, Least
<1>4. PICK x \in I : t = n - x
  BY <1>1
<1>5. \A y \in I : n - x <= n - y
  BY <1>1, <1>3, <1>4
<1>6. \A y \in I : x >= y
  BY <1>5
<1>7. QED
  BY <1>6

LEMMA MinOf ==
  ASSUME NEW T, T \subseteq Nat, T # {}
  PROVE  Min(T) \in T /\ \A y \in T : Min(T) <= y
BY Least DEF Min

LEMMA MaxOf ==
  ASSUME NEW n \in Nat, NEW I, I \subseteq 0 .. n, I # {}
  PROVE  Max(I) \in I /\ \A y \in I : Max(I) >= y
BY Greatest DEF Max

-----------------------------------------------------------------------------
(* Upward induction: the numbers of which a claim holds.                    *)
LEMMA Upward ==
  ASSUME NEW n \in Nat, NEW T, 0 \in T, \A k \in 0 .. n - 1 : k \in T => k + 1 \in T
  PROVE  n \in T /\ 0 .. n \subseteq T
<1>1. PICK C : C = {k \in 0 .. n : k \notin T}
  OBVIOUS
<1>2. SUFFICES ASSUME C # {} PROVE FALSE
  BY <1>1
<1>3. PICK k \in C : \A j \in C : k <= j
  <2>1. C \subseteq Nat
    BY <1>1
  <2>2. QED
    BY <1>2, <2>1, Least
<1>4. k \in 0 .. n /\ k \notin T /\ k # 0
  BY <1>1
<1>5. k - 1 \in 0 .. n - 1 /\ k - 1 \notin C
  BY <1>3, <1>4
<1>6. k - 1 \in T /\ k - 1 + 1 = k
  BY <1>1, <1>4, <1>5
<1>7. QED
  BY <1>4, <1>5, <1>6

-----------------------------------------------------------------------------
(* FlattenSeq.                                                              *)

(* f[i] is the concatenation of the first i elements of q.                  *)
Glued(f, q, n) == /\ DOMAIN f = 1 .. n
                  /\ \A i \in 1 .. n : f[i] = IF i = 1 THEN q[i] ELSE f[i - 1] \o q[i]

LEMMA GluedExists ==
  ASSUME NEW q, NEW n \in Nat PROVE \A k \in 1 .. n : \E f : Glued(f, q, k)
<1>1. PICK T : T = {k \in 1 .. n : ~ \E f : Glued(f, q, k)}
  OBVIOUS
<1>2. SUFFICES ASSUME T # {} PROVE FALSE
  BY <1>1
<1>3. PICK k \in T : \A j \in T : k <= j
  BY <1>1, <1>2, Least
<1>4. k \in 1 .. n /\ ~ \E f : Glued(f, q, k)
  BY <1>1
<1>5. CASE k = 1
  <2>1. Glued([i \in 1 .. 1 |-> q[i]], q, 1)
    BY DEF Glued
  <2>2. QED
    BY <1>4, <1>5, <2>1
<1>6. CASE k # 1
  <2>1. k - 1 \in 1 .. n /\ k - 1 \notin T
    BY <1>3, <1>4, <1>6
  <2>2. PICK f : Glued(f, q, k - 1)
    BY <1>1, <2>1
  <2>3. PICK g : g = [i \in 1 .. k |-> IF i = k THEN f[k - 1] \o q[k] ELSE f[i]]
    OBVIOUS
  <2>4. \A i \in 1 .. k : i = k \/ i \in 1 .. k - 1
    BY <1>4
  <2>5. \A i \in 1 .. k - 1 : i \in 1 .. k /\ i # k /\ g[i] = f[i]
    BY <1>4, <2>3
  <2>6. ASSUME NEW i \in 1 .. k PROVE g[i] = IF i = 1 THEN q[i] ELSE g[i - 1] \o q[i]
    <3>1. CASE i = k
      <4>1. g[k] = f[k - 1] \o q[k]
        <5>1. k \in 1 .. k
          BY <1>4
        <5>2. QED
          BY <2>3, <5>1
      <4>2. k - 1 \in 1 .. k - 1
        BY <1>4, <1>6
      <4>3. g[k - 1] = f[k - 1]
        BY <2>5, <4>2
      <4>4. QED
        BY <1>6, <3>1, <4>1, <4>3
    <3>2. CASE i \in 1 .. k - 1
      <4>1. f[i] = IF i = 1 THEN q[i] ELSE f[i - 1] \o q[i]
        BY <2>2, <3>2 DEF Glued
      <4>2. i # 1 => i - 1 \in 1 .. k - 1
        BY <1>4, <3>2
      <4>3. QED
        BY <2>5, <3>2, <4>1, <4>2
    <3>3. QED
      BY <2>4, <3>1, <3>2
  <2>7. Glued(g, q, k)
    BY <2>3, <2>6 DEF Glued
  <2>8. QED
    BY <1>4, <2>7
<1>7. QED
  BY <1>5, <1>6

LEMMA FlattenGlued ==
  ASSUME NEW q, NEW n \in Nat, n = Len(q), n # 0
  PROVE  \E f : Glued(f, q, n) /\ FlattenSeq(q) = f[n]
<1>1. n \in 1 .. n
  OBVIOUS
<1>2. PICK g : Glued(g, q, n)
  BY <1>1, GluedExists
<1>3. PICK h : h = [i \in 1 .. n |-> g[i]]
  OBVIOUS
<1>4. h = [i \in 1 .. n |-> IF i = 1 THEN q[i] ELSE h[i - 1] \o q[i]]
  <2>1. \A i \in 1 .. n : i # 1 => i - 1 \in 1 .. n
    OBVIOUS
  <2>2. \A i \in 1 .. n : h[i] = IF i = 1 THEN q[i] ELSE h[i - 1] \o q[i]
    BY <1>2, <1>3, <2>1 DEF Glued
  <2>3. QED
    BY <1>3, <2>2
<1>5. PICK f : /\ f = [i \in 1 .. n |-> IF i = 1 THEN q[i] ELSE f[i - 1] \o q[i]]
               /\ FlattenSeq(q) = f[n]
  BY <1>4 DEF FlattenSeq
<1>6. Glued(f, q, n)
  BY <1>5 DEF Glued
<1>7. QED
  BY <1>5, <1>6

(* A concatenation of sequences is a sequence, and it is empty only if all  *)
(* of them are.                                                             *)
LEMMA FlattenOf ==
  ASSUME NEW S, NEW q \in Seq(Seq(S))
  PROVE  /\ FlattenSeq(q) \in Seq(S)
         /\ \A i \in DOMAIN q : q[i] # <<>> => FlattenSeq(q) # <<>>
<1>1. PICK n \in Nat : n = Len(q) /\ DOMAIN q = 1 .. n
  OBVIOUS
<1>2. CASE n = 0
  <2>1. q = <<>> /\ DOMAIN q = {}
    BY <1>1, <1>2
  <2>2. FlattenSeq(q) = q
    BY <1>1, <1>2 DEF FlattenSeq
  <2>3. q \in Seq(S)
    BY <2>1
  <2>4. QED
    BY <2>1, <2>2, <2>3
<1>3. CASE n # 0
  <2>1. n \in 1 .. n
    BY <1>3
  <2>2. PICK f : Glued(f, q, n) /\ FlattenSeq(q) = f[n]
    BY <1>1, <1>3, FlattenGlued
  <2>3. ASSUME NEW k \in 1 .. n
        PROVE  /\ f[k] \in Seq(S)
               /\ \A i \in 1 .. k : q[i] # <<>> => f[k] # <<>>
    <3> DEFINE Good(j) == /\ f[j] \in Seq(S)
                          /\ \A i \in 1 .. j : q[i] # <<>> => f[j] # <<>>
    <3>1. PICK T : T = {j \in 1 .. n : ~Good(j)}
      OBVIOUS
    <3>2. SUFFICES ASSUME T # {} PROVE FALSE
      BY <3>1
    <3>3. PICK j \in T : \A l \in T : j <= l
      <4>1. T \subseteq Nat
        BY <3>1
      <4>2. QED
        BY <3>2, <4>1, Least
    <3>4. j \in 1 .. n /\ ~Good(j) /\ q[j] \in Seq(S)
      BY <1>1, <3>1
    <3>5. CASE j = 1
      <4>1. f[j] = q[j]
        BY <2>2, <3>4, <3>5 DEF Glued
      <4>2. \A i \in 1 .. j : i = j
        BY <3>5
      <4>3. QED
        BY <3>4, <4>1, <4>2
    <3>6. CASE j # 1
      <4>1. j - 1 \in 1 .. n /\ j - 1 \notin T
        BY <3>3, <3>4, <3>6
      <4>2. Good(j - 1)
        BY <3>1, <4>1
      <4>3. f[j] = f[j - 1] \o q[j]
        BY <2>2, <3>4, <3>6 DEF Glued
      <4>4. \A i \in 1 .. j : i = j \/ i \in 1 .. j - 1
        BY <3>4
      <4>5. f[j] \in Seq(S) /\ (f[j - 1] # <<>> \/ q[j] # <<>> => f[j] # <<>>)
        BY <3>4, <4>2, <4>3
      <4>6. QED
        BY <3>4, <4>2, <4>4, <4>5
    <3>7. QED
      BY <3>5, <3>6
  <2>4. QED
    BY <1>1, <2>1, <2>2, <2>3
<1>4. QED
  BY <1>2, <1>3


(* One sequence more is glued to the end.                                   *)
LEMMA FlattenAppend ==
  ASSUME NEW S, NEW q \in Seq(Seq(S)), NEW e \in Seq(S)
  PROVE  FlattenSeq(Append(q, e)) = FlattenSeq(q) \o e
<1>1. PICK n \in Nat : n = Len(q) /\ DOMAIN q = 1 .. n
  OBVIOUS
<1>2. PICK u : u = Append(q, e)
  OBVIOUS
<1>3. u \in Seq(Seq(S)) /\ Len(u) = n + 1 /\ u[n + 1] = e /\ \A i \in 1 .. n : u[i] = q[i]
  BY <1>1, <1>2
<1>4. PICK g : Glued(g, u, n + 1) /\ FlattenSeq(u) = g[n + 1]
  <2>1. n + 1 \in Nat /\ n + 1 # 0
    OBVIOUS
  <2>2. QED
    BY <1>3, <2>1, FlattenGlued
<1>5. CASE n = 0
  <2>1. FlattenSeq(u) = e
    BY <1>3, <1>4, <1>5 DEF Glued
  <2>2. q = <<>> /\ FlattenSeq(q) = q
    <3>1. q = <<>>
      BY <1>1, <1>5
    <3>2. QED
      BY <1>1, <1>5, <3>1 DEF FlattenSeq
  <2>3. <<>> \o e = e
    OBVIOUS
  <2>4. QED
    BY <1>2, <2>1, <2>2, <2>3
<1>6. CASE n # 0
  <2>1. PICK f : Glued(f, q, n) /\ FlattenSeq(q) = f[n]
    BY <1>1, <1>6, FlattenGlued
  <2>2. PICK T : T = {k \in 0 .. n : k # 0 => f[k] = g[k]}
    OBVIOUS
  <2>3. 0 \in T
    BY <2>2
  <2>4. ASSUME NEW k \in 0 .. n - 1, k \in T PROVE k + 1 \in T
    <3>1. PICK j \in 1 .. n : j = k + 1 /\ j - 1 = k /\ j \in 1 .. n + 1 /\ j \in 0 .. n
      OBVIOUS
    <3>2. f[j] = IF j = 1 THEN q[j] ELSE f[j - 1] \o q[j]
      BY <2>1 DEF Glued
    <3>3. g[j] = IF j = 1 THEN u[j] ELSE g[j - 1] \o u[j]
      BY <1>4, <3>1 DEF Glued
    <3>4. u[j] = q[j] /\ (j # 1 => f[j - 1] = g[j - 1])
      BY <1>3, <2>2, <2>4, <3>1
    <3>5. f[j] = g[j]
      BY <3>2, <3>3, <3>4
    <3>6. QED
      BY <2>2, <3>1, <3>5
  <2>5. n \in T
    BY <2>3, <2>4, Upward
  <2>6. g[n + 1] = g[n] \o e
    <3>1. PICK j \in 1 .. n + 1 : j = n + 1 /\ j # 1 /\ j - 1 = n
      BY <1>6
    <3>2. g[j] = IF j = 1 THEN u[j] ELSE g[j - 1] \o u[j]
      BY <1>4 DEF Glued
    <3>3. QED
      BY <1>3, <3>1, <3>2
  <2>7. f[n] = g[n]
    BY <1>6, <2>2, <2>5
  <2>8. QED
    BY <1>2, <1>4, <2>1, <2>6, <2>7
<1>7. QED
  BY <1>5, <1>6

(* The same of families of sequences that agree on the first n.             *)
LEMMA FlattenMore ==
  ASSUME NEW S, NEW n \in Nat, NEW q \in [1 .. n -> Seq(S)],
         NEW r \in [1 .. n + 1 -> Seq(S)], \A i \in 1 .. n : r[i] = q[i]
  PROVE  /\ FlattenSeq(q) \in Seq(S)
         /\ FlattenSeq(r) = FlattenSeq(q) \o r[n + 1]
<1>1. q \in Seq(Seq(S)) /\ Len(q) = n
  OBVIOUS
<1>2. PICK k \in Seq(S) : k = r[n + 1]
  OBVIOUS
<1>3. PICK v : v = Append(q, k)
  OBVIOUS
<1>4. /\ v \in Seq(Seq(S)) /\ DOMAIN v = 1 .. n + 1 /\ v[n + 1] = k
      /\ \A i \in 1 .. n : v[i] = q[i]
  BY <1>1, <1>3
<1>5. \A i \in 1 .. n + 1 : i = n + 1 \/ i \in 1 .. n
  OBVIOUS
<1>6. \A i \in 1 .. n + 1 : r[i] = v[i]
  BY <1>2, <1>4, <1>5
<1>7. r = [i \in 1 .. n + 1 |-> r[i]] /\ v = [i \in 1 .. n + 1 |-> v[i]]
  BY <1>4
<1>8. r = v
  BY <1>6, <1>7
<1>9. QED
  BY <1>1, <1>2, <1>3, <1>8, FlattenAppend, FlattenOf

LEMMA FlattenNone == FlattenSeq(<<>>) = <<>>
<1>1. FlattenSeq(<<>>) \in Seq({})
  <2>1. <<>> \in Seq(Seq({}))
    OBVIOUS
  <2>2. QED
    BY <2>1, FlattenOf
<1>2. \A s \in Seq({}) : s = <<>>
  OBVIOUS
<1>3. QED
  BY <1>1, <1>2

(* What holds of no elements, and of one more, holds of all sequences.      *)
LEMMA SeqUpward ==
  ASSUME NEW S, NEW T, <<>> \in T, \A s \in Seq(S), e \in S : s \in T => Append(s, e) \in T
  PROVE  \A s \in Seq(S) : s \in T
<1> SUFFICES ASSUME NEW s \in Seq(S) PROVE s \in T
  OBVIOUS
<1>1. PICK n \in Nat : n = Len(s)
  OBVIOUS
<1>2. PICK K : K = {k \in 0 .. n : SubSeq(s, 1, k) \in T}
  OBVIOUS
<1>3. 0 \in K
  <2>1. SubSeq(s, 1, 0) = <<>>
    BY SubSeqEmpty
  <2>2. 0 \in 0 .. n
    OBVIOUS
  <2>3. QED
    BY <1>2, <2>1, <2>2, Zenon
<1>4. ASSUME NEW k \in 0 .. n - 1, k \in K PROVE k + 1 \in K
  <2>1. PICK p : p = SubSeq(s, 1, k)
    OBVIOUS
  <2>2. p \in T
    BY <1>2, <1>4, <2>1
  <2>3. k + 1 \in 1 .. n /\ s[k + 1] \in S
    BY <1>1
  <2>4. p \in Seq(S)
    BY <1>1, <2>1
  <2>5. SubSeq(s, 1, k + 1) = p \o <<s[k + 1]>>
    <3>1. 1 \in 1 .. Len(s) /\ k + 1 \in 1 .. Len(s) /\ (k + 1) - 1 = k
      BY <1>1
    <3>2. QED
      BY <2>1, <3>1, SubSeqRecursiveSecond
  <2>6. p \o <<s[k + 1]>> = Append(p, s[k + 1])
    BY <2>3, <2>4, AppendIsConcat
  <2>7. Append(p, s[k + 1]) \in T /\ k + 1 \in 0 .. n
    BY <2>2, <2>3, <2>4
  <2>8. QED
    BY <1>2, <2>5, <2>6, <2>7, Zenon
<1>5. n \in K
  BY <1>3, <1>4, Upward
<1>6. SubSeq(s, 1, n) = s
  BY <1>1, SubSeqFull
<1>7. QED
  BY <1>2, <1>5, <1>6
=============================================================================
