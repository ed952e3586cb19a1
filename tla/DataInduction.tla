---------------------------- MODULE DataInduction ----------------------------
(* Induction over numbers for the proofs about recursive functions.  The     *)
(* induction theorems of the library take the statement as an operator; here *)
(* it is a set, of the numbers for which the statement holds, and a number   *)
(* that is not in it would have a least one.                                 *)
EXTENDS Integers, Sequences, SequenceTheorems, WellFoundedInduction, TLAPS

\* Every set of numbers that is not empty has a least one.
LEMMA LeastNumber ==
  ASSUME NEW T \in SUBSET Nat, T # {}
  PROVE  \E x \in T : \A y \in T : x <= y
<1> DEFINE less == {p \in Nat \X Nat : p[1] < p[2]}
<1>1. \E x \in T : \A y \in T : <<y, x>> \notin less
  <2>1. IsWellFoundedOn(less, Nat)
    BY NatLessThanWellFounded, Zenon DEF OpToRel
  <2> HIDE DEF less
  <2> QED BY <2>1, WFMin, Zenon
<1>2. PICK x \in T : \A y \in T : <<y, x>> \notin less
  BY <1>1
<1>3. ASSUME NEW y \in T PROVE x <= y
  <2>1. x \in Nat /\ y \in Nat /\ (y < x => <<y, x>> \in less)
    OBVIOUS
  <2>2. <<y, x>> \notin less
    BY <1>2
  <2> HIDE DEF less
  <2> QED BY <2>1, <2>2
<1> QED BY <1>3

\* Induction from n down to 1, the numbers for which a statement holds being a set.
LEMMA Downward ==
  ASSUME NEW n \in Nat, NEW S, n \in S, \A k \in 1 .. n : k \in S => k - 1 \in S
  PROVE  0 .. n \subseteq S
<1> SUFFICES ASSUME NEW m \in 0 .. n, m \notin S PROVE FALSE
  OBVIOUS
<1> DEFINE T == {d \in Nat : d <= n /\ n - d \notin S}
<1>1. n - m \in T
  BY n - (n - m) = m
<1>2. PICK d \in T : \A e \in T : d <= e
  <2> T \in SUBSET Nat
    OBVIOUS
  <2> HIDE DEF T
  <2> QED BY <1>1, LeastNumber
<1>3. d # 0
  <2> SUFFICES ASSUME d = 0 PROVE FALSE
    OBVIOUS
  <2> n - d = n
    OBVIOUS
  <2> QED BY <1>2
<1>4. d - 1 \in Nat /\ d - 1 \notin T /\ d - 1 <= n
  BY <1>2, <1>3
<1>5. n - (d - 1) \in S
  BY <1>4
<1>6. n - (d - 1) \in 1 .. n /\ n - (d - 1) - 1 = n - d
  BY <1>2, <1>3
<1> QED BY <1>2, <1>5, <1>6

\* Induction from 0 up to n.
LEMMA Upward ==
  ASSUME NEW n \in Nat, NEW S, 0 \in S, \A k \in 1 .. n : k - 1 \in S => k \in S
  PROVE  0 .. n \subseteq S
<1> SUFFICES ASSUME NEW m \in 0 .. n, m \notin S PROVE FALSE
  OBVIOUS
<1> DEFINE T == {d \in Nat : d <= n /\ d \notin S}
<1>1. m \in T
  OBVIOUS
<1>2. PICK d \in T : \A e \in T : d <= e
  <2> T \in SUBSET Nat
    OBVIOUS
  <2> HIDE DEF T
  <2> QED BY <1>1, LeastNumber
<1>3. d \in 1 .. n /\ d - 1 \in Nat /\ d - 1 <= n
  BY <1>2
<1>4. d - 1 \notin T
  BY <1>2, <1>3
<1>5. d - 1 \in S
  BY <1>3, <1>4
<1> QED BY <1>2, <1>3, <1>5

-----------------------------------------------------------------------------
(* Texts.                                                                    *)

\* f[i] is all that the pieces from i on put together, the next of each being
\* after it.
Joins(f, n, m, piece, next) ==
  f = [i \in 1 .. m |-> IF i > n THEN <<>> ELSE piece[i] \o f[next[i]]]

\* There is such a function, so that a definition by CHOOSE is it.
LEMMA PiecesAreJoined ==
  ASSUME NEW n \in Nat, NEW m \in Nat, NEW piece, NEW next,
         \A i \in 1 .. n : next[i] \in i + 1 .. m
  PROVE  \E f : Joins(f, n, m, piece, next)
<1> DEFINE JoinsFrom(f, k) ==
      \A i \in 1 .. m : i > k => f[i] = IF i > n THEN <<>> ELSE piece[i] \o f[next[i]]
    S == {k \in 0 .. m : \E f : f = [i \in 1 .. m |-> f[i]] /\ JoinsFrom(f, k)}
<1>1. m \in S
  <2> DEFINE f == [i \in 1 .. m |-> <<>>]
  <2>1. f = [i \in 1 .. m |-> f[i]]
    OBVIOUS
  <2>2. JoinsFrom(f, m)
    OBVIOUS
  <2> HIDE DEF f, JoinsFrom
  <2> QED BY <2>1, <2>2
<1>2. ASSUME NEW k \in 1 .. m, k \in S
      PROVE  k - 1 \in S
  <2>1. PICK f : f = [i \in 1 .. m |-> f[i]] /\ JoinsFrom(f, k)
    BY <1>2
  <2> DEFINE new == IF k > n THEN <<>> ELSE piece[k] \o f[next[k]]
             g == [i \in 1 .. m |-> IF i = k THEN new ELSE f[i]]
  <2>2. g[k] = new /\ \A i \in 1 .. m : i # k => g[i] = f[i]
    OBVIOUS
  <2>3. g = [i \in 1 .. m |-> g[i]]
    OBVIOUS
  <2> HIDE DEF g
  <2>4. ASSUME NEW i \in 1 .. m, i > k - 1
        PROVE  g[i] = IF i > n THEN <<>> ELSE piece[i] \o g[next[i]]
    <3>1. ~(i > n) => next[i] \in 1 .. m /\ next[i] # k /\ g[next[i]] = f[next[i]]
      BY <2>2, <2>4
    <3>2. CASE i = k
      BY <2>2, <3>1, <3>2
    <3>3. CASE i > k
      <4>1. f[i] = IF i > n THEN <<>> ELSE piece[i] \o f[next[i]]
        BY <2>1, <3>3
      <4> QED BY <2>2, <3>1, <3>3, <4>1
    <3> QED BY <2>4, <3>2, <3>3
  <2>5. JoinsFrom(g, k - 1)
    BY <2>4
  <2>6. k - 1 \in 0 .. m
    OBVIOUS
  <2> HIDE DEF JoinsFrom
  <2> QED BY <2>3, <2>5, <2>6
<1>3. 0 \in S
  <2> HIDE DEF S
  <2> QED BY <1>1, <1>2, Downward
<1>4. PICK f : f = [i \in 1 .. m |-> f[i]] /\ JoinsFrom(f, 0)
  BY <1>3
<1>5. ASSUME NEW i \in 1 .. m
      PROVE  f[i] = IF i > n THEN <<>> ELSE piece[i] \o f[next[i]]
  <2>1. i > 0
    OBVIOUS
  <2> QED BY <1>4, <2>1, Zenon
<1>6. f = [i \in 1 .. m |-> IF i > n THEN <<>> ELSE piece[i] \o f[next[i]]]
  BY <1>4, <1>5, Zenon
<1> QED BY <1>6, Zenon DEF Joins

\* Three texts, one after the other.
ThreeParts(X, w, u, t) ==
  /\ w \o u \in Seq(X)
  /\ (w \o u) \o t = w \o (u \o t)
  /\ Len(w \o u) = Len(w) + Len(u)
  /\ Len(w \o (u \o t)) = Len(w) + Len(u) + Len(t)
  /\ \A j \in 1 .. Len(u) : (w \o (u \o t))[Len(w) + j] = u[j]

LEMMA ThreeTexts ==
  ASSUME NEW X, NEW w \in Seq(X), NEW u \in Seq(X), NEW t \in Seq(X)
  PROVE  ThreeParts(X, w, u, t)
<1>1. u \o t \in Seq(X) /\ Len(u \o t) = Len(u) + Len(t)
      /\ \A j \in 1 .. Len(u) : (u \o t)[j] = u[j]
  OBVIOUS
<1>3. (w \o u) \o t = w \o (u \o t)
  BY ConcatAssociative
<1> DEFINE r == u \o t
<1>2. r \in Seq(X) /\ Len(r) = Len(u) + Len(t) /\ \A j \in 1 .. Len(u) : r[j] = u[j]
  BY <1>1
<1> HIDE DEF r
<1>4. Len(w \o r) = Len(w) + Len(u) + Len(t)
  <2>1. Len(w \o r) = Len(w) + Len(r)
    BY <1>2, ConcatProperties
  <2>2. Len(w) \in Nat /\ Len(u) \in Nat /\ Len(t) \in Nat
    OBVIOUS
  <2> QED BY <1>2, <2>1, <2>2
<1>5. ASSUME NEW j \in 1 .. Len(u)
      PROVE  (w \o r)[Len(w) + j] = u[j]
  <2>1. Len(w) + j \in 1 .. Len(w) + Len(r) /\ ~(Len(w) + j <= Len(w)) /\ Len(w) + j - Len(w) = j
    BY <1>2
  <2>2. (w \o r)[Len(w) + j] = r[j]
    BY <1>2, <2>1
  <2> QED BY <1>2, <2>2
<1>6. w \o u \in Seq(X) /\ Len(w \o u) = Len(w) + Len(u)
  OBVIOUS
<1> QED BY <1>3, <1>4, <1>5, <1>6, Zenon DEF r, ThreeParts
=============================================================================
