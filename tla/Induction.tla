------------------------------ MODULE Induction ------------------------------
(***************************************************************************)
(* Induction over the natural numbers, stated with a set, so that a proof  *)
(* can use it for any property: the set of the numbers that have it. And   *)
(* what follows from it about functions defined by recursion, and lists.   *)
(***************************************************************************)
EXTENDS Lists, SequenceTheorems, WellFoundedInduction, TLAPS

(* A set of natural numbers has a least element.                           *)
LEMMA NatLeast ==
  ASSUME NEW T \in SUBSET Nat, T # {}
  PROVE  \E m \in T : \A n \in T : m <= n
<1>1. PICK m \in T : \A n \in T : <<n, m>> \notin OpToRel(<, Nat)
  BY WFMin, NatLessThanWellFounded, Zenon
<1>2. \A n \in T : ~(n < m)
  BY <1>1, Zenon DEF OpToRel
<1> QED
  BY <1>2

(* A set that has zero, and the successor of what it has, has all of them. *)
LEMMA NatInd ==
  ASSUME NEW T, 0 \in T, \A n \in Nat : n \in T => n + 1 \in T
  PROVE  Nat \subseteq T
<1>1. SUFFICES ASSUME Nat \ T # {} PROVE FALSE
  OBVIOUS
<1>2. PICK m \in Nat \ T : \A n \in Nat \ T : m <= n
  BY <1>1, NatLeast
<1>3. m # 0 /\ m - 1 \in Nat /\ m - 1 \in T
  BY <1>2
<1> QED
  BY <1>2, <1>3

-----------------------------------------------------------------------------
(* A recursive function is the function of its equation, which there is:   *)
(* from a, by step i from the value before.                                *)
IsRecursion(f, n, a, step) ==
  f = [i \in 0 .. n |-> IF i = 0 THEN a ELSE step[<<i, f[i - 1]>>]]

LEMMA RecursionExists ==
  ASSUME NEW V, NEW a \in V, NEW step \in [Nat \X V -> V], NEW m \in Nat
  PROVE  \E f \in [0 .. m -> V] : IsRecursion(f, m, a, step)
<1> DEFINE T == {n \in Nat : \E f \in [0 .. n -> V] : IsRecursion(f, n, a, step)}
<1>1. 0 \in T
  <2> DEFINE f == [i \in 0 .. 0 |-> a]
  <2>1. f \in [0 .. 0 -> V] /\ IsRecursion(f, 0, a, step)
    BY DEF IsRecursion
  <2> QED
    BY <2>1
<1>2. ASSUME NEW n \in Nat, n \in T PROVE n + 1 \in T
  <2>1. PICK f \in [0 .. n -> V] : IsRecursion(f, n, a, step)
    BY <1>2
  <2> DEFINE g == [i \in 0 .. n + 1 |-> IF i = n + 1 THEN step[<<n + 1, f[n]>>] ELSE f[i]]
  <2>2. \A i \in 0 .. n : f[i] = IF i = 0 THEN a ELSE step[<<i, f[i - 1]>>]
    BY <2>1 DEF IsRecursion
  <2>3. \A i \in 1 .. n + 1 : i - 1 \in 0 .. n /\ g[i - 1] = f[i - 1]
    OBVIOUS
  <2>4. g \in [0 .. n + 1 -> V]
    <3>1. f[n] \in V /\ <<n + 1, f[n]>> \in Nat \X V
      OBVIOUS
    <3>2. step[<<n + 1, f[n]>>] \in V
      BY <3>1
    <3> QED
      BY <3>2
  <2>6. /\ g = [i \in 0 .. n + 1 |-> g[i]]
        /\ g[n + 1] = step[<<n + 1, f[n]>>]
        /\ \A i \in 0 .. n : g[i] = f[i]
    OBVIOUS
  <2> HIDE DEF g
  <2>5. \A i \in 0 .. n + 1 : g[i] = IF i = 0 THEN a ELSE step[<<i, g[i - 1]>>]
    <3> TAKE i \in 0 .. n + 1
    <3>1. CASE i \in 0 .. n
      <4>1. g[i] = IF i = 0 THEN a ELSE step[<<i, f[i - 1]>>]
        BY <2>2, <2>6, <3>1
      <4>2. i # 0 => g[i - 1] = f[i - 1]
        BY <2>3, <3>1
      <4> QED
        BY <4>1, <4>2
    <3>2. CASE i = n + 1
      <4>1. i - 1 = n /\ n \in 0 .. n /\ i # 0
        BY <3>2
      <4> QED
        BY <2>6, <3>2, <4>1
    <3> QED
      BY <3>1, <3>2
  <2>7. IsRecursion(g, n + 1, a, step)
    BY <2>5, <2>6, Zenon DEF IsRecursion
  <2> QED
    BY <2>4, <2>7
<1> HIDE DEF T
<1>3. m \in T
  BY <1>1, <1>2, NatInd
<1> QED
  BY <1>3 DEF T

-----------------------------------------------------------------------------
(* A function on 1 .. n is a list of n elements.                           *)
LEMMA FunctionIsSeq ==
  ASSUME NEW S, NEW n \in Nat, NEW f \in [1 .. n -> S]
  PROVE  f \in Seq(S) /\ Len(f) = n /\ DOMAIN f = 1 .. n
<1>1. f \in Seq(S)
  BY SeqDef
<1>2. DOMAIN f = 1 .. n /\ Len(f) \in Nat /\ DOMAIN f = 1 .. Len(f)
  BY <1>1, LenProperties
<1> QED
  BY <1>1, <1>2

(* Lists of numbers that rise are told apart by their members.             *)
IsRising(p, m) ==
  p \in [1 .. m -> Nat] /\ \A i, j \in 1 .. m : i < j => p[i] < p[j]

IsWithin(p, m, q, n) == \A i \in 1 .. m : \E j \in 1 .. n : p[i] = q[j]

LEMMA RisingUnique ==
  ASSUME NEW m \in Nat, NEW n \in Nat, NEW p, NEW q,
         IsRising(p, m), IsRising(q, n), IsWithin(p, m, q, n), IsWithin(q, n, p, m)
  PROVE  m = n /\ \A i \in 1 .. m : p[i] = q[i]
<1>0. /\ p \in [1 .. m -> Nat] /\ q \in [1 .. n -> Nat]
      /\ \A i, j \in 1 .. m : i < j => p[i] < p[j]
      /\ \A i, j \in 1 .. n : i < j => q[i] < q[j]
      /\ \A i \in 1 .. m : \E j \in 1 .. n : p[i] = q[j]
      /\ \A j \in 1 .. n : \E i \in 1 .. m : q[j] = p[i]
  BY DEF IsRising, IsWithin
<1> USE <1>0
<1> DEFINE T == {k \in Nat : \A i \in 1 .. k : (i <= m <=> i <= n) /\ (i <= m => p[i] = q[i])}
<1>1. 0 \in T
  OBVIOUS
<1>2. ASSUME NEW k \in Nat, k \in T PROVE k + 1 \in T
  <2>1. \A i \in 1 .. k : (i <= m <=> i <= n) /\ (i <= m => p[i] = q[i])
    BY <1>2
  <2>2. ASSUME k + 1 <= m PROVE k + 1 <= n /\ p[k + 1] >= q[k + 1]
    <3>1. k + 1 \in 1 .. m
      BY <2>2
    <3>2. PICK j \in 1 .. n : p[k + 1] = q[j]
      BY <3>1
    <3>3. ASSUME j <= k PROVE FALSE
      <4>1. j \in 1 .. k /\ j <= n
        BY <3>3
      <4>2. j \in 1 .. m /\ j < k + 1 /\ p[j] = q[j]
        BY <2>1, <4>1
      <4>3. p[j] < p[k + 1]
        BY <3>1, <4>2
      <4> QED
        BY <3>1, <3>2, <4>2, <4>3
    <3>4. k + 1 \in 1 .. n /\ (k + 1 = j \/ k + 1 < j)
      BY <3>3
    <3>5. q[k + 1] <= q[j]
      <4>1. k + 1 < j => q[k + 1] < q[j]
        BY <3>4
      <4>2. q[k + 1] \in Nat /\ q[j] \in Nat
        BY <3>4
      <4>3. CASE k + 1 = j
        <5>1. q[k + 1] = q[j]
          BY <4>3, Zenon
        <5> QED
          BY <4>2, <5>1
      <4>4. CASE k + 1 < j
        BY <4>1, <4>2, <4>4
      <4> QED
        BY <3>4, <4>3, <4>4
    <3> QED
      BY <3>1, <3>2, <3>4, <3>5
  <2>3. ASSUME k + 1 <= n PROVE k + 1 <= m /\ q[k + 1] >= p[k + 1]
    <3>1. k + 1 \in 1 .. n
      BY <2>3
    <3>2. PICK j \in 1 .. m : q[k + 1] = p[j]
      BY <3>1
    <3>3. ASSUME j <= k PROVE FALSE
      <4>1. j \in 1 .. k /\ j <= m
        BY <3>3
      <4>2. j \in 1 .. n /\ j < k + 1 /\ p[j] = q[j]
        BY <2>1, <4>1
      <4>3. q[j] < q[k + 1]
        BY <3>1, <4>2
      <4> QED
        BY <3>1, <3>2, <4>2, <4>3
    <3>4. k + 1 \in 1 .. m /\ (k + 1 = j \/ k + 1 < j)
      BY <3>3
    <3>5. p[k + 1] <= p[j]
      <4>1. k + 1 < j => p[k + 1] < p[j]
        BY <3>4
      <4>2. p[k + 1] \in Nat /\ p[j] \in Nat
        BY <3>4
      <4>3. CASE k + 1 = j
        <5>1. p[k + 1] = p[j]
          BY <4>3, Zenon
        <5> QED
          BY <4>2, <5>1
      <4>4. CASE k + 1 < j
        BY <4>1, <4>2, <4>4
      <4> QED
        BY <3>4, <4>3, <4>4
    <3> QED
      BY <3>1, <3>2, <3>4, <3>5
  <2>4. k + 1 <= m => p[k + 1] = q[k + 1]
    <3> SUFFICES ASSUME k + 1 <= m PROVE p[k + 1] = q[k + 1]
      OBVIOUS
    <3>1. k + 1 <= n /\ p[k + 1] >= q[k + 1] /\ q[k + 1] >= p[k + 1]
      BY <2>2, <2>3
    <3>2. p[k + 1] \in Nat /\ q[k + 1] \in Nat
      BY <3>1
    <3> QED
      BY <3>1, <3>2
  <2>5. \A i \in 1 .. k + 1 : i \in 1 .. k \/ i = k + 1
    OBVIOUS
  <2>6. \A i \in 1 .. k + 1 : (i <= m <=> i <= n) /\ (i <= m => p[i] = q[i])
    <3> TAKE i \in 1 .. k + 1
    <3>1. CASE i \in 1 .. k
      BY <2>1, <3>1
    <3>2. CASE i = k + 1
      BY <2>2, <2>3, <2>4, <3>2
    <3> QED
      BY <2>5, <3>1, <3>2
  <2> QED
    BY <2>6
<1> HIDE DEF T
<1>3. m + n \in T
  <2>1. m + n \in Nat
    OBVIOUS
  <2> QED
    BY <1>1, <1>2, <2>1, NatInd
<1>4. \A i \in 1 .. m + n : (i <= m <=> i <= n) /\ (i <= m => p[i] = q[i])
  BY <1>3 DEF T
<1>5. m = n
  <2>1. m > 0 => m \in 1 .. m + n
    OBVIOUS
  <2>2. n > 0 => n \in 1 .. m + n
    OBVIOUS
  <2> QED
    BY <1>4, <2>1, <2>2
<1> QED
  BY <1>4, <1>5

-----------------------------------------------------------------------------
(* What is kept of the first i elements.                                   *)
LEMMA SiftedRecursion ==
  ASSUME NEW X, NEW s \in Seq(X), NEW S
  PROVE  \E f \in [0 .. Len(s) -> Seq(X)] :
           /\ Sifted(s, S) = f[Len(s)]
           /\ f[0] = <<>>
           /\ \A i \in 1 .. Len(s) :
                f[i] = IF s[i] \in S THEN Append(f[i - 1], s[i]) ELSE f[i - 1]
<1> DEFINE V == Seq(X)
           step == [p \in Nat \X V |->
                      IF p[1] \in 1 .. Len(s) /\ s[p[1]] \in S THEN Append(p[2], s[p[1]]) ELSE p[2]]
           IsKept(f) == f = [i \in 0 .. Len(s) |->
                               IF i = 0 THEN <<>>
                               ELSE IF s[i] \in S THEN Append(f[i - 1], s[i]) ELSE f[i - 1]]
<1>1. Len(s) \in Nat /\ <<>> \in V
  BY EmptySeq, LenProperties
<1>2. step \in [Nat \X V -> V]
  <2>1. \A p \in Nat \X V : /\ p[2] \in V
                            /\ p[1] \in 1 .. Len(s) => Append(p[2], s[p[1]]) \in V
    BY AppendProperties, LenProperties
  <2> QED
    BY <2>1
<1>3. PICK f \in [0 .. Len(s) -> V] : IsRecursion(f, Len(s), <<>>, step)
  <2> HIDE DEF V, step
  <2> QED
    BY <1>1, <1>2, RecursionExists
<1>4. \A i \in 0 .. Len(s) : f[i] = IF i = 0 THEN <<>> ELSE step[<<i, f[i - 1]>>]
  BY <1>3 DEF IsRecursion
<1>5. \A i \in 1 .. Len(s) :
        step[<<i, f[i - 1]>>] = IF s[i] \in S THEN Append(f[i - 1], s[i]) ELSE f[i - 1]
  <2> TAKE i \in 1 .. Len(s)
  <2>1. i \in Nat /\ i - 1 \in 0 .. Len(s)
    BY <1>1
  <2>2. <<i, f[i - 1]>> \in Nat \X V
    BY <2>1
  <2> QED
    BY <2>2
<1> HIDE DEF step
<1>6. \A i \in 0 .. Len(s) : f[i] = IF i = 0 THEN <<>>
                                   ELSE IF s[i] \in S THEN Append(f[i - 1], s[i]) ELSE f[i - 1]
  <2> TAKE i \in 0 .. Len(s)
  <2>1. CASE i = 0
    BY <1>4, <2>1
  <2>2. CASE i # 0
    <3>1. i \in 1 .. Len(s)
      BY <1>1, <2>2
    <3> QED
      BY <1>4, <1>5, <2>2, <3>1, Zenon
  <2> QED
    BY <2>1, <2>2
<1>7. IsKept(f)
  <2>1. f = [i \in 0 .. Len(s) |-> f[i]]
    OBVIOUS
  <2> QED
    BY <1>6, <2>1, Zenon
<1> DEFINE k == CHOOSE g : IsKept(g)
<1>8. IsKept(k)
  BY <1>7, Zenon
<1>9. Sifted(s, S) = k[Len(s)]
  BY Zenon DEF Sifted
<1> HIDE DEF k
<1>10. \A i \in 0 .. Len(s) : k[i] = IF i = 0 THEN <<>>
                                    ELSE IF s[i] \in S THEN Append(k[i - 1], s[i]) ELSE k[i - 1]
  BY <1>8
<1> DEFINE T == {n \in Nat : n <= Len(s) => k[n] = f[n]}
<1>11. 0 \in T
  BY <1>6, <1>10, <1>1
<1>12. ASSUME NEW n \in Nat, n \in T PROVE n + 1 \in T
  <2>1. CASE n + 1 <= Len(s)
    <3>1. n + 1 \in 0 .. Len(s) /\ n + 1 # 0 /\ n + 1 - 1 = n /\ k[n] = f[n]
      BY <1>1, <1>12, <2>1
    <3>2. \A i \in 0 .. Len(s) : i # 0 /\ k[i - 1] = f[i - 1] => k[i] = f[i]
      BY <1>6, <1>10, Zenon
    <3> QED
      BY <3>1, <3>2
  <2> QED
    BY <2>1, <1>1
<1> HIDE DEF T
<1>13. Len(s) \in T
  BY <1>1, <1>11, <1>12, NatInd
<1>14. k[Len(s)] = f[Len(s)]
  BY <1>13 DEF T
<1>15. 0 \in 0 .. Len(s) /\ \A i \in 1 .. Len(s) : i \in 0 .. Len(s) /\ i # 0
  BY <1>1
<1> QED
  BY <1>6, <1>9, <1>14, <1>15

(* Sifted elements stand in the order of the list, each at a place of its    *)
(* own, and none is left out.                                              *)
IsPlaces(place, s, S, n, k) ==
  /\ place \in [1 .. Len(k) -> 1 .. n]
  /\ \A i, j \in 1 .. Len(k) : i < j => place[i] < place[j]
  /\ \A i \in 1 .. Len(k) : k[i] = s[place[i]]
  /\ \A j \in 1 .. n : s[j] \in S <=> \E i \in 1 .. Len(k) : place[i] = j

LEMMA SiftedPlaces ==
  ASSUME NEW X, NEW s \in Seq(X), NEW S
  PROVE  /\ Sifted(s, S) \in Seq(X)
         /\ \E place : IsPlaces(place, s, S, Len(s), Sifted(s, S))
<1>1. PICK f \in [0 .. Len(s) -> Seq(X)] :
           /\ Sifted(s, S) = f[Len(s)]
           /\ f[0] = <<>>
           /\ \A i \in 1 .. Len(s) :
                f[i] = IF s[i] \in S THEN Append(f[i - 1], s[i]) ELSE f[i - 1]
  BY SiftedRecursion
<1>2. Len(s) \in Nat /\ \A i \in 1 .. Len(s) : s[i] \in X
  BY LenProperties
<1> DEFINE T == {n \in Nat : n <= Len(s) => \E place : IsPlaces(place, s, S, n, f[n])}
<1>3. 0 \in T
  <2>1. IsPlaces(<<>>, s, S, 0, f[0])
    BY <1>1 DEF IsPlaces
  <2> QED
    BY <2>1
<1>4. ASSUME NEW n \in Nat, n \in T PROVE n + 1 \in T
  <2> SUFFICES ASSUME n + 1 <= Len(s)
               PROVE  \E place : IsPlaces(place, s, S, n + 1, f[n + 1])
    OBVIOUS
  <2>1. PICK place : IsPlaces(place, s, S, n, f[n])
    BY <1>2, <1>4
  <2>2. n + 1 \in 1 .. Len(s) /\ n \in 0 .. Len(s) /\ (n + 1) - 1 = n
    BY <1>2
  <2>3. f[n] \in Seq(X) /\ s[n + 1] \in X
    BY <1>2, <2>2
  <2>4. Len(f[n]) \in Nat
    BY <2>3, LenProperties
  <2>5. f[n + 1] = IF s[n + 1] \in S THEN Append(f[n], s[n + 1]) ELSE f[n]
    BY <1>1, <2>2
  <2>6. CASE s[n + 1] \notin S
    <3>1. place \in [1 .. Len(f[n]) -> 1 .. n + 1]
      BY <2>1, <2>4 DEF IsPlaces
    <3>2. \A i \in 1 .. Len(f[n]) : place[i] # n + 1
      BY <2>1, <2>4 DEF IsPlaces
    <3>3. \A j \in 1 .. n + 1 : j \in 1 .. n \/ j = n + 1
      OBVIOUS
    <3>4. \A j \in 1 .. n + 1 : s[j] \in S <=> \E i \in 1 .. Len(f[n]) : place[i] = j
      BY <2>1, <2>6, <3>2, <3>3 DEF IsPlaces
    <3>5. IsPlaces(place, s, S, n + 1, f[n])
      BY <2>1, <3>1, <3>4 DEF IsPlaces
    <3> QED
      BY <2>5, <2>6, <3>5
  <2>7. CASE s[n + 1] \in S
    <3> DEFINE m == Len(f[n])
               k == Append(f[n], s[n + 1])
               new == [i \in 1 .. m + 1 |-> IF i = m + 1 THEN n + 1 ELSE place[i]]
    <3>1. /\ Len(k) = m + 1 /\ k[m + 1] = s[n + 1]
          /\ \A i \in 1 .. m : k[i] = f[n][i]
      BY <2>3, AppendProperties
    <3>2. place \in [1 .. m -> 1 .. n]
      BY <2>1 DEF IsPlaces
    <3>3. /\ new \in [1 .. m + 1 -> 1 .. n + 1]
          /\ new[m + 1] = n + 1
          /\ \A i \in 1 .. m : new[i] = place[i]
      BY <2>4, <3>2
    <3> HIDE DEF new, k
    <3>4. \A i, j \in 1 .. m + 1 : i < j => new[i] < new[j]
      <4> SUFFICES ASSUME NEW i \in 1 .. m + 1, NEW j \in 1 .. m + 1, i < j
                   PROVE  new[i] < new[j]
        OBVIOUS
      <4>0. i \in 1 .. m /\ (j \in 1 .. m \/ j = m + 1)
        BY <2>4
      <4>1. CASE j \in 1 .. m
        <5>1. place[i] < place[j]
          BY <2>1, <4>0, <4>1 DEF IsPlaces
        <5> QED
          BY <3>3, <4>0, <4>1, <5>1
      <4>2. CASE j = m + 1
        <5>1. new[i] = place[i] /\ place[i] \in 1 .. n /\ new[j] = n + 1
          BY <3>2, <3>3, <4>0, <4>2
        <5> QED
          BY <5>1
      <4> QED
        BY <4>0, <4>1, <4>2
    <3>5. \A i \in 1 .. m + 1 : k[i] = s[new[i]]
      <4> TAKE i \in 1 .. m + 1
      <4>1. CASE i \in 1 .. m
        BY <2>1, <3>1, <3>3, <4>1 DEF IsPlaces
      <4>2. CASE i = m + 1
        BY <3>1, <3>3, <4>2
      <4> QED
        BY <2>4, <4>1, <4>2
    <3>6. \A j \in 1 .. n + 1 : s[j] \in S <=> \E i \in 1 .. m + 1 : new[i] = j
      <4> TAKE j \in 1 .. n + 1
      <4>1. m + 1 \in 1 .. m + 1 /\ \A i \in 1 .. m + 1 : i \in 1 .. m \/ i = m + 1
        BY <2>4
      <4>2. CASE j = n + 1
        BY <2>7, <3>3, <4>1, <4>2
      <4>3. CASE j \in 1 .. n
        <5>1. s[j] \in S <=> \E i \in 1 .. m : place[i] = j
          BY <2>1, <4>3 DEF IsPlaces
        <5>2. new[m + 1] # j /\ \A i \in 1 .. m : i \in 1 .. m + 1
          BY <2>4, <3>3, <4>3
        <5> QED
          BY <3>3, <4>1, <5>1, <5>2, Zenon
      <4> QED
        BY <4>2, <4>3
    <3>7. IsPlaces(new, s, S, n + 1, k)
      BY <3>1, <3>3, <3>4, <3>5, <3>6 DEF IsPlaces
    <3> QED
      BY <2>5, <2>7, <3>7 DEF k
  <2> QED
    BY <2>6, <2>7
<1> HIDE DEF T
<1>5. Len(s) \in T
  BY <1>2, <1>3, <1>4, NatInd
<1>6. Len(s) \in 0 .. Len(s)
  BY <1>2
<1> QED
  BY <1>1, <1>5, <1>6 DEF T
=============================================================================
