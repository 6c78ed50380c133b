---------------------------- MODULE ParserProofs ----------------------------
(***************************************************************************)
(* Proofs about Parser, for any number of workers and of statements, and   *)
(* statements of any length.                                               *)
(***************************************************************************)
EXTENDS StatementProofs

-----------------------------------------------------------------------------
(* The lengths of the parts that have theirs, summed up.                   *)
LEMMA CertainLengthIs ==
  ASSUME NEW parts, Len(parts) \in Nat,
         \A i \in 1 .. Len(parts) : Len(parts[i].templates) \in Nat
  PROVE  \E f \in [0 .. Len(parts) -> Nat] :
           /\ CertainLength(parts) = f[Len(parts)]
           /\ f[0] = 0
           /\ \A i \in 1 .. Len(parts) :
                f[i] = IF parts[i].range = Empty THEN f[i - 1] + Len(parts[i].templates) ELSE f[i - 1]
<1> DEFINE n == Len(parts)
           step == [q \in Nat \X Nat |->
                      IF q[1] \in 1 .. n /\ parts[q[1]].range = Empty
                      THEN q[2] + Len(parts[q[1]].templates) ELSE q[2]]
           IsLength(f) == f = [i \in 0 .. n |->
                                 IF i = 0 THEN 0
                                 ELSE IF parts[i].range = Empty THEN f[i - 1] + Len(parts[i].templates)
                                 ELSE f[i - 1]]
<1>1. step \in [Nat \X Nat -> Nat]
  <2>1. \A q \in Nat \X Nat :
          (IF q[1] \in 1 .. n /\ parts[q[1]].range = Empty
           THEN q[2] + Len(parts[q[1]].templates) ELSE q[2]) \in Nat
    <3> TAKE q \in Nat \X Nat
    <3>1. q[2] \in Nat
      OBVIOUS
    <3>2. q[1] \in 1 .. n => q[2] + Len(parts[q[1]].templates) \in Nat
      BY <3>1
    <3> QED
      BY <3>1, <3>2
  <2> QED
    BY <2>1
<1>2. PICK f \in [0 .. n -> Nat] : IsRecursion(f, n, 0, step)
  <2> HIDE DEF step
  <2> QED
    BY <1>1, RecursionExists
<1>3. \A i \in 0 .. n : f[i] = IF i = 0 THEN 0 ELSE step[<<i, f[i - 1]>>]
  BY <1>2, Zenon DEF IsRecursion
<1>4. \A i \in 1 .. n :
        step[<<i, f[i - 1]>>]
          = IF parts[i].range = Empty THEN f[i - 1] + Len(parts[i].templates) ELSE f[i - 1]
  <2> TAKE i \in 1 .. n
  <2>1. i \in Nat /\ i - 1 \in 0 .. n
    OBVIOUS
  <2>2. <<i, f[i - 1]>> \in Nat \X Nat
    BY <2>1
  <2> QED
    BY <2>2
<1> HIDE DEF step
<1>5. \A i \in 0 .. n :
        f[i] = IF i = 0 THEN 0
               ELSE IF parts[i].range = Empty THEN f[i - 1] + Len(parts[i].templates) ELSE f[i - 1]
  <2> TAKE i \in 0 .. n
  <2>1. CASE i = 0
    BY <1>3, <2>1
  <2>2. CASE i # 0
    <3>1. i \in 1 .. n
      BY <2>2
    <3> QED
      BY <1>3, <1>4, <2>2, <3>1, Zenon
  <2> QED
    BY <2>1, <2>2
<1>6. IsLength(f)
  <2>1. f = [i \in 0 .. n |-> f[i]]
    OBVIOUS
  <2> QED
    BY <1>5, <2>1, Zenon
<1> DEFINE k == CHOOSE g : IsLength(g)
<1>7. IsLength(k)
  BY <1>6, Zenon
<1>8. CertainLength(parts) = k[n]
  BY Zenon DEF CertainLength
<1> HIDE DEF k
<1>9. \A i \in 0 .. n :
        k[i] = IF i = 0 THEN 0
               ELSE IF parts[i].range = Empty THEN k[i - 1] + Len(parts[i].templates) ELSE k[i - 1]
  BY <1>7
<1>10. k[0] = 0 /\ \A i \in 1 .. n : i \in 0 .. n /\ i # 0
  <2>1. 0 \in 0 .. n /\ \A i \in 1 .. n : i \in 0 .. n /\ i # 0
    OBVIOUS
  <2> QED
    BY <1>9, <2>1, Zenon
<1>11. \A i \in 1 .. n :
         k[i] = IF parts[i].range = Empty THEN k[i - 1] + Len(parts[i].templates) ELSE k[i - 1]
  BY <1>9, <1>10, Zenon
<1>12. k \in [0 .. n -> Nat]
  <2> DEFINE T == {i \in Nat : i <= n => k[i] \in Nat}
  <2>1. 0 \in T
    BY <1>10
  <2>2. ASSUME NEW i \in Nat, i \in T PROVE i + 1 \in T
    <3>1. CASE i + 1 <= n
      <4>1. i + 1 \in 1 .. n /\ (i + 1) - 1 = i /\ k[i] \in Nat
        BY <2>2, <3>1
      <4>2. k[i + 1] = IF parts[i + 1].range = Empty THEN k[i] + Len(parts[i + 1].templates) ELSE k[i]
        BY <1>11, <4>1, Zenon
      <4>3. Len(parts[i + 1].templates) \in Nat
        BY <4>1
      <4>4. k[i + 1] \in Nat
        <5>1. CASE parts[i + 1].range = Empty
          <6>1. k[i + 1] = k[i] + Len(parts[i + 1].templates)
            BY <4>2, <5>1, Zenon
          <6> QED
            BY <4>1, <4>3, <6>1
        <5>2. CASE parts[i + 1].range # Empty
          <6>1. k[i + 1] = k[i]
            BY <4>2, <5>2, Zenon
          <6> QED
            BY <4>1, <6>1
        <5> QED
          BY <5>1, <5>2
      <4> QED
        BY <4>4
    <3> QED
      BY <3>1
  <2> HIDE DEF T
  <2>3. Nat \subseteq T
    BY <2>1, <2>2, NatInd
  <2>4. \A i \in 0 .. n : k[i] \in Nat
    BY <2>3 DEF T
  <2>5. k = [i \in 0 .. n |-> k[i]]
    BY <1>7
  <2> QED
    BY <2>4, <2>5
<1> QED
  BY <1>8, <1>10, <1>11, <1>12

-----------------------------------------------------------------------------
(* Where a worker goes within an element.                                  *)
Match(p, k, total) == Place("match", p.pattern, p.element, k, p.offset, total)

Sum(p, k, total) == Place("sum", p.pattern, p.element, k, p.offset, total)

LEMMA SumEnds ==
  ASSUME NEW p, NEW k, NEW total,
         \A i \in k .. Len(Parts(p)) : Parts(p)[i].range = Empty
  PROVE  GetMatchLength(p, k, total) = Taken(p, total)
<1>1. {i \in k .. Len(Parts(p)) : Parts(p)[i].range # Empty} = {}
  OBVIOUS
<1> QED
  BY <1>1, Zenon DEF GetMatchLength

LEMMA SumGoesOn ==
  ASSUME NEW p, Len(Parts(p)) \in Nat, NEW k \in Nat, NEW total, NEW j \in k .. Len(Parts(p)),
         Parts(p)[j].range # Empty, \A i \in k .. j - 1 : Parts(p)[i].range = Empty
  PROVE  GetMatchLength(p, k, total) = Sum(p, j, total)
<1> DEFINE ranges == {i \in k .. Len(Parts(p)) : Parts(p)[i].range # Empty}
<1>0. k .. Len(Parts(p)) \subseteq Int /\ \A i \in k .. Len(Parts(p)) : i < j => i \in k .. j - 1
  OBVIOUS
<1>1. j \in ranges /\ ranges \subseteq Int /\ \A i \in ranges : j <= i
  BY <1>0
<1>2. \A i \in ranges : (\A n \in ranges : i <= n) => i = j
  BY <1>1
<1>3. (CHOOSE i \in ranges : \A n \in ranges : i <= n) = j
  BY <1>1, <1>2, Zenon
<1> HIDE DEF ranges
<1>4. ranges # {}
  BY <1>1
<1> QED
  BY <1>3, <1>4, Zenon DEF GetMatchLength, Sum, ranges

(* The sum, part by part.                                                  *)
IsStepOf(f, parts, j, i) ==
  f[i] = IF parts[i].range = Empty THEN f[j] + Len(parts[i].templates) ELSE f[j]

IsLengthOf(f, parts, n) ==
  /\ CertainLength(parts) = f[n] /\ f[0] = 0
  /\ \A i \in 1 .. n : IsStepOf(f, parts, i - 1, i)

LEMMA FourSteps ==
  ASSUME NEW f, NEW parts, NEW n
  PROVE  /\ n = 1 /\ IsLengthOf(f, parts, n) => IsStepOf(f, parts, 0, 1)
         /\ n = 2 /\ IsLengthOf(f, parts, n) => /\ IsStepOf(f, parts, 0, 1)
                                              /\ IsStepOf(f, parts, 1, 2)
         /\ n = 3 /\ IsLengthOf(f, parts, n) => /\ IsStepOf(f, parts, 0, 1)
                                              /\ IsStepOf(f, parts, 1, 2)
                                              /\ IsStepOf(f, parts, 2, 3)
         /\ n = 4 /\ IsLengthOf(f, parts, n) => /\ IsStepOf(f, parts, 0, 1)
                                              /\ IsStepOf(f, parts, 1, 2)
                                              /\ IsStepOf(f, parts, 2, 3)
                                              /\ IsStepOf(f, parts, 3, 4)
<1>1. 1 - 1 = 0 /\ 2 - 1 = 1 /\ 3 - 1 = 2 /\ 4 - 1 = 3
  OBVIOUS
<1>2. /\ 1 \in 1 .. 1
      /\ 1 \in 1 .. 2 /\ 2 \in 1 .. 2
      /\ 1 \in 1 .. 3 /\ 2 \in 1 .. 3 /\ 3 \in 1 .. 3
      /\ 1 \in 1 .. 4 /\ 2 \in 1 .. 4 /\ 3 \in 1 .. 4 /\ 4 \in 1 .. 4
  OBVIOUS
<1> QED
  BY <1>1, <1>2 DEF IsLengthOf

LEMMA LengthExists ==
  ASSUME NEW parts, NEW n \in Nat, Len(parts) = n,
         \A i \in 1 .. n : Len(parts[i].templates) \in Nat
  PROVE  \E f : IsLengthOf(f, parts, n)
BY CertainLengthIs DEF IsLengthOf, IsStepOf

LEMMA CertainLengths ==
  ASSUME NEW parts
  PROVE  /\ TokensKind(parts) => CertainLength(parts) = Len(parts[1].templates)
         /\ ChoiceKind(parts) => CertainLength(parts) = 0
         /\ ColumnKind(parts) => CertainLength(parts) = 2
         /\ WhereKind(parts) => CertainLength(parts) = 3
         /\ NextKind(parts) => CertainLength(parts) = 2
<1>1. Len(TypeKeywords) = 4 /\ Len(Comparer) = 3
  BY DEF TypeKeywords, Comparer
<1>2. 1 \in Nat /\ 2 \in Nat /\ 3 \in Nat /\ 4 \in Nat
  OBVIOUS
<1>3. ASSUME TokensKind(parts) PROVE CertainLength(parts) = Len(parts[1].templates)
  <2>1. Len(parts) = 1 /\ parts[1].range = Empty /\ Len(parts[1].templates) \in Nat
    BY <1>3, Zenon DEF TokensKind
  <2>2. \A i \in 1 .. 1 : Len(parts[i].templates) \in Nat
    BY <2>1, OneTo, Zenon
  <2>3. PICK f : IsLengthOf(f, parts, 1)
    BY <1>2, <2>1, <2>2, LengthExists, Zenon
  <2> QED
    BY <2>1, <2>3, FourSteps DEF IsLengthOf, IsStepOf
<1>4. ASSUME ChoiceKind(parts) PROVE CertainLength(parts) = 0
  <2>1. /\ Len(parts) = 1 /\ parts[1].range # Empty
        /\ parts[1].templates = TypeKeywords \/ parts[1].templates = <<Mark("*")>>
    BY <1>4, RangesNamed DEF ChoiceKind, IsRange, RangeName
  <2>2. Len(parts[1].templates) \in Nat
    BY <1>1, <1>2, <2>1, Lengths1, Zenon
  <2>3. \A i \in 1 .. 1 : Len(parts[i].templates) \in Nat
    BY <2>2, OneTo, Zenon
  <2>4. PICK f : IsLengthOf(f, parts, 1)
    BY <1>2, <2>1, <2>3, LengthExists, Zenon
  <2> QED
    BY <2>1, <2>4, FourSteps DEF IsLengthOf, IsStepOf
<1>5. ASSUME ColumnKind(parts) PROVE CertainLength(parts) = 2
  <2>0. "NEXT_VALUE_TYPE" # Empty
    BY RangesNamed DEF RangeName
  <2>1. /\ Len(parts) = 2 /\ parts[1].range = Empty /\ parts[2].range # Empty
        /\ Len(parts[1].templates) = 2 /\ Len(parts[2].templates) = 4
    BY <1>1, <1>5, <2>0, Lengths2, Zenon DEF ColumnKind, IsRange, IsCertain
  <2>2. \A i \in 1 .. 2 : Len(parts[i].templates) \in Nat
    BY <1>2, <2>1, OneTo, Zenon
  <2>3. PICK f : IsLengthOf(f, parts, 2)
    BY <1>2, <2>1, <2>2, LengthExists, Zenon
  <2>5. f[0] = 0 /\ IsStepOf(f, parts, 0, 1) /\ IsStepOf(f, parts, 1, 2)
    BY <2>3, FourSteps DEF IsLengthOf
  <2>4. f[1] = 2 /\ f[2] = f[1]
    BY <2>1, <2>5 DEF IsStepOf
  <2> QED
    BY <2>3, <2>4 DEF IsLengthOf
<1>6. ASSUME WhereKind(parts) PROVE CertainLength(parts) = 3
  <2>0. "COMPARER" # Empty
    BY RangesNamed DEF RangeName
  <2>1. /\ Len(parts) = 3 /\ parts[1].range = Empty /\ parts[2].range # Empty /\ parts[3].range = Empty
        /\ Len(parts[1].templates) = 2 /\ Len(parts[2].templates) = 3 /\ Len(parts[3].templates) = 1
    BY <1>1, <1>6, <2>0, Lengths1, Lengths2, Zenon DEF WhereKind, IsRange, IsCertain
  <2>2. \A i \in 1 .. 3 : Len(parts[i].templates) \in Nat
    BY <1>2, <2>1, OneTo, Zenon
  <2>3. PICK f : IsLengthOf(f, parts, 3)
    BY <1>2, <2>1, <2>2, LengthExists, Zenon
  <2>5. f[0] = 0 /\ IsStepOf(f, parts, 0, 1) /\ IsStepOf(f, parts, 1, 2) /\ IsStepOf(f, parts, 2, 3)
    BY <2>3, FourSteps DEF IsLengthOf
  <2>4. f[1] = 2 /\ f[2] = f[1] /\ f[3] = f[2] + 1
    BY <2>1, <2>5 DEF IsStepOf
  <2> QED
    BY <2>3, <2>4 DEF IsLengthOf
<1>7. ASSUME NextKind(parts) PROVE CertainLength(parts) = 2
  <2>0. "OPERATOR" # Empty /\ "NEXT_COMPARER" # Empty
    BY RangesNamed DEF RangeName
  <2>1. /\ Len(parts) = 4 /\ parts[1].range # Empty /\ parts[2].range = Empty /\ parts[3].range # Empty
        /\ parts[4].range = Empty
        /\ Len(parts[1].templates) = 2 /\ Len(parts[2].templates) = 1
        /\ Len(parts[3].templates) = 3 /\ Len(parts[4].templates) = 1
    BY <1>1, <1>7, <2>0, Lengths1, Lengths2, Zenon DEF NextKind, IsRange, IsCertain
  <2>2. \A i \in 1 .. 4 : Len(parts[i].templates) \in Nat
    BY <1>2, <2>1, OneTo, Zenon
  <2>3. PICK f : IsLengthOf(f, parts, 4)
    BY <1>2, <2>1, <2>2, LengthExists, Zenon
  <2>5. /\ f[0] = 0 /\ IsStepOf(f, parts, 0, 1) /\ IsStepOf(f, parts, 1, 2)
        /\ IsStepOf(f, parts, 2, 3) /\ IsStepOf(f, parts, 3, 4)
    BY <2>3, FourSteps DEF IsLengthOf
  <2>4. f[1] = 0 /\ f[2] = f[1] + 1 /\ f[3] = f[2] /\ f[4] = f[3] + 1
    BY <2>1, <2>5 DEF IsStepOf
  <2> QED
    BY <2>3, <2>4 DEF IsLengthOf
<1> QED
  BY <1>3, <1>4, <1>5, <1>6, <1>7

-----------------------------------------------------------------------------
(* Where the parts of each kind of element lead.                           *)
LEMMA TokensAdvance ==
  ASSUME NEW p, TokensKind(Parts(p)), p.part = 1
  PROVE  /\ Part(p).range = Empty
         /\ \A l : Advance(p, l) = Taken(p, Len(Part(p).templates))
<1>1. Len(Parts(p)) = 1 /\ Parts(p)[1].range = Empty /\ Part(p) = Parts(p)[1]
  BY Zenon DEF TokensKind, Part
<1>2. \A i \in 1 .. Len(Parts(p)) : Parts(p)[i].range = Empty
  BY <1>1, OneTo, Zenon
<1>3. CertainLength(Parts(p)) = Len(Part(p).templates)
  BY <1>1, CertainLengths, Zenon
<1>4. \A t : GetMatchLength(p, 1, t) = Taken(p, t)
  BY <1>2, SumEnds, Zenon
<1> QED
  BY <1>1, <1>3, <1>4, Zenon DEF Advance

LEMMA ChoiceAdvance ==
  ASSUME NEW p, ChoiceKind(Parts(p)), p.part = 1
  PROVE  /\ Part(p).range \in {"VALUE_TYPE", "FIRST_COL"} /\ Part(p).range # Empty
         /\ \A l : Advance(p, l) = Sum(p, 1, 0)
         /\ \A t : GetMatchLength(p, 2, t) = Taken(p, t)
<1>1. /\ Len(Parts(p)) = 1 /\ Part(p) = Parts(p)[1]
      /\ Parts(p)[1].range \in {"VALUE_TYPE", "FIRST_COL"}
  BY Zenon DEF ChoiceKind, Part, IsRange
<1>2. Part(p).range # Empty
  BY <1>1, RangesNamed, Zenon DEF RangeName
<1>3. CertainLength(Parts(p)) = 0
  BY CertainLengths, Zenon
<1>4. /\ Len(Parts(p)) \in Nat /\ 1 \in Nat /\ 1 \in 1 .. Len(Parts(p))
      /\ 1 .. 1 - 1 = {} /\ 2 .. Len(Parts(p)) = {}
  BY <1>1
<1>5. \A t : GetMatchLength(p, 1, t) = Sum(p, 1, t)
  BY <1>1, <1>2, <1>4, SumGoesOn
<1>6. \A t : GetMatchLength(p, 2, t) = Taken(p, t)
  BY <1>4, SumEnds, Zenon
<1> QED
  BY <1>1, <1>2, <1>3, <1>5, <1>6, Zenon DEF Advance

LEMMA ColumnAdvance ==
  ASSUME NEW p, ColumnKind(Parts(p)), p.part \in 1 .. 2
  PROVE  /\ p.part = 1 => /\ Part(p).range = Empty /\ Len(Part(p).templates) = 2
                          /\ \A l : Advance(p, l) = Match(p, 2, p.total + l)
         /\ p.part = 2 => /\ Part(p).range = "NEXT_VALUE_TYPE" /\ Part(p).range # Empty
                          /\ \A l : Advance(p, l) = Sum(p, 2, 2)
         /\ \A t : GetMatchLength(p, 3, t) = Taken(p, t)
<1>0. "NEXT_VALUE_TYPE" # Empty
  BY RangesNamed DEF RangeName
<1>1. /\ Len(Parts(p)) = 2 /\ Part(p) = Parts(p)[p.part]
      /\ Parts(p)[1].range = Empty /\ Len(Parts(p)[1].templates) = 2
      /\ Parts(p)[2].range = "NEXT_VALUE_TYPE" /\ Parts(p)[2].range # Empty
  BY <1>0, Lengths2, Zenon DEF ColumnKind, Part, IsRange, IsCertain
<1>2. CertainLength(Parts(p)) = 2
  BY CertainLengths, Zenon
<1>3. \A l : p.part = 1 => Advance(p, l) = Match(p, 2, p.total + l)
  <2>1. 1 # 2 /\ 1 + 1 = 2
    OBVIOUS
  <2> QED
    BY <1>1, <2>1, Zenon DEF Advance, Match
<1>4. /\ Len(Parts(p)) \in Nat /\ 1 \in Nat /\ 2 \in 1 .. Len(Parts(p))
      /\ 1 .. 2 - 1 = 1 .. 1 /\ 3 .. Len(Parts(p)) = {}
  BY <1>1
<1>5. \A i \in 1 .. 2 - 1 : Parts(p)[i].range = Empty
  BY <1>1, <1>4, OneTo, Zenon
<1>6. \A t : GetMatchLength(p, 1, t) = Sum(p, 2, t)
  BY <1>1, <1>4, <1>5, SumGoesOn
<1>7. \A t : GetMatchLength(p, 3, t) = Taken(p, t)
  BY <1>4, SumEnds, Zenon
<1> QED
  BY <1>1, <1>2, <1>3, <1>6, <1>7, Zenon DEF Advance

LEMMA WhereAdvance ==
  ASSUME NEW p, WhereKind(Parts(p)), p.part \in 1 .. 3
  PROVE  /\ p.part = 1 => /\ Part(p).range = Empty /\ Len(Part(p).templates) = 2
                          /\ \A l : Advance(p, l) = Match(p, 2, p.total + l)
         /\ p.part = 2 => /\ Part(p).range = "COMPARER" /\ Part(p).range # Empty
                          /\ \A l : Advance(p, l) = Match(p, 3, p.total + l)
         /\ p.part = 3 => /\ Part(p).range = Empty /\ Part(p).templates = <<AnyValue>>
                          /\ \A l : Advance(p, l) = Sum(p, 2, 3)
         /\ \A t : GetMatchLength(p, 3, t) = Taken(p, t)
<1>0. "COMPARER" # Empty
  BY RangesNamed DEF RangeName
<1>1. /\ Len(Parts(p)) = 3 /\ Part(p) = Parts(p)[p.part]
      /\ Parts(p)[1].range = Empty /\ Len(Parts(p)[1].templates) = 2
      /\ Parts(p)[2].range = "COMPARER" /\ Parts(p)[2].range # Empty
      /\ Parts(p)[3].range = Empty /\ Parts(p)[3].templates = <<AnyValue>>
  BY <1>0, Lengths2, Zenon DEF WhereKind, Part, IsRange, IsCertain
<1>2. CertainLength(Parts(p)) = 3
  BY CertainLengths, Zenon
<1>3. \A l : /\ p.part = 1 => Advance(p, l) = Match(p, 2, p.total + l)
             /\ p.part = 2 => Advance(p, l) = Match(p, 3, p.total + l)
  <2>1. 1 # 3 /\ 2 # 3 /\ 1 + 1 = 2 /\ 2 + 1 = 3
    OBVIOUS
  <2> QED
    BY <1>1, <2>1, Zenon DEF Advance, Match
<1>4. /\ Len(Parts(p)) \in Nat /\ 1 \in Nat /\ 2 \in 1 .. Len(Parts(p))
      /\ 1 .. 2 - 1 = 1 .. 1
      /\ \A i \in 3 .. Len(Parts(p)) : i = 3
  BY <1>1
<1>5. \A i \in 1 .. 2 - 1 : Parts(p)[i].range = Empty
  BY <1>1, <1>4, OneTo, Zenon
<1>6. \A t : GetMatchLength(p, 1, t) = Sum(p, 2, t)
  BY <1>1, <1>4, <1>5, SumGoesOn
<1>7. \A t : GetMatchLength(p, 3, t) = Taken(p, t)
  <2>1. \A i \in 3 .. Len(Parts(p)) : Parts(p)[i].range = Empty
    BY <1>1, <1>4, Zenon
  <2> QED
    BY <2>1, SumEnds, Zenon
<1>8. \A l : p.part = 3 => Advance(p, l) = Sum(p, 2, 3)
  BY <1>1, <1>2, <1>6, Zenon DEF Advance
<1> QED
  BY <1>1, <1>3, <1>7, <1>8, Zenon

LEMMA NextAdvance ==
  ASSUME NEW p, NextKind(Parts(p)), p.part \in 1 .. 4
  PROVE  /\ p.part = 1 => /\ Part(p).range = "OPERATOR" /\ Part(p).range # Empty
                          /\ \A l : Advance(p, l) = Match(p, 2, p.total + l)
         /\ p.part = 2 => /\ Part(p).range = Empty /\ Part(p).templates = <<AnyIdentifier>>
                          /\ \A l : Advance(p, l) = Match(p, 3, p.total + l)
         /\ p.part = 3 => /\ Part(p).range = "NEXT_COMPARER" /\ Part(p).range # Empty
                          /\ \A l : Advance(p, l) = Match(p, 4, p.total + l)
         /\ p.part = 4 => /\ Part(p).range = Empty /\ Part(p).templates = <<AnyValue>>
                          /\ \A l : Advance(p, l) = Sum(p, 1, 2)
         /\ \A t : GetMatchLength(p, 2, t) = Sum(p, 3, t)
         /\ \A t : GetMatchLength(p, 4, t) = Taken(p, t)
<1>0. "OPERATOR" # Empty /\ "NEXT_COMPARER" # Empty
  BY RangesNamed DEF RangeName
<1>1. /\ Len(Parts(p)) = 4 /\ Part(p) = Parts(p)[p.part]
      /\ Parts(p)[1].range = "OPERATOR" /\ Parts(p)[1].range # Empty
      /\ Parts(p)[2].range = Empty /\ Parts(p)[2].templates = <<AnyIdentifier>>
      /\ Parts(p)[3].range = "NEXT_COMPARER" /\ Parts(p)[3].range # Empty
      /\ Parts(p)[4].range = Empty /\ Parts(p)[4].templates = <<AnyValue>>
  BY <1>0, Zenon DEF NextKind, Part, IsRange, IsCertain
<1>2. CertainLength(Parts(p)) = 2
  BY CertainLengths, Zenon
<1>3. \A l : /\ p.part = 1 => Advance(p, l) = Match(p, 2, p.total + l)
             /\ p.part = 2 => Advance(p, l) = Match(p, 3, p.total + l)
             /\ p.part = 3 => Advance(p, l) = Match(p, 4, p.total + l)
  <2>1. 1 # 4 /\ 2 # 4 /\ 3 # 4 /\ 1 + 1 = 2 /\ 2 + 1 = 3 /\ 3 + 1 = 4
    OBVIOUS
  <2> QED
    BY <1>1, <2>1, Zenon DEF Advance, Match
<1>4. /\ Len(Parts(p)) \in Nat /\ 1 \in Nat /\ 2 \in Nat
      /\ 1 \in 1 .. Len(Parts(p)) /\ 3 \in 2 .. Len(Parts(p))
      /\ 1 .. 1 - 1 = {} /\ \A i \in 2 .. 3 - 1 : i = 2
      /\ \A i \in 4 .. Len(Parts(p)) : i = 4
  BY <1>1
<1>5. \A i \in 2 .. 3 - 1 : Parts(p)[i].range = Empty
  BY <1>1, <1>4, Zenon
<1>6. \A t : GetMatchLength(p, 1, t) = Sum(p, 1, t)
  BY <1>1, <1>4, SumGoesOn
<1>7. \A t : GetMatchLength(p, 2, t) = Sum(p, 3, t)
  BY <1>1, <1>4, <1>5, SumGoesOn
<1>8. \A t : GetMatchLength(p, 4, t) = Taken(p, t)
  <2>1. \A i \in 4 .. Len(Parts(p)) : Parts(p)[i].range = Empty
    BY <1>1, <1>4, Zenon
  <2> QED
    BY <2>1, SumEnds, Zenon
<1>9. \A l : p.part = 4 => Advance(p, l) = Sum(p, 1, 2)
  BY <1>1, <1>2, <1>6, Zenon DEF Advance
<1> QED
  BY <1>1, <1>3, <1>7, <1>8, <1>9, Zenon

-----------------------------------------------------------------------------
(* Where a worker can stand in its tokens, whatever the others do to the   *)
(* lengths it reads.                                                       *)
Matching(p) == p.phase \in {"match", "length", "sum"}

PlaceSet ==
  [phase : Phases, pattern : 1 .. 5, element : 1 .. 7, part : 1 .. 4, offset : Nat, total : Nat]

OperatorAt(input, i) == i <= Len(input) /\ input[i].type = "OPERATOR_T"

StandsOne(p, input) ==
  /\ p.part = 1 /\ p.total = 0
  /\ \/ p.phase = "match"
     \/ p.phase = "sum" /\ p.offset < Len(input) /\ Part(p).range # Empty

StandsColumn(p, input) ==
  \/ p.phase = "match" /\ p.part = 1 /\ p.total = 0
  \/ p.phase = "match" /\ p.part = 2 /\ p.total = 2
  \/ p.phase = "sum" /\ p.part = 2 /\ p.total = 2 /\ p.offset + 2 < Len(input)

StandsWhere(p, input) ==
  \/ p.phase = "match" /\ p.part = 1 /\ p.total = 0
  \/ p.phase = "match" /\ p.part = 2 /\ p.total = 2
  \/ /\ p.phase = "length" /\ p.part = 2 /\ p.total = 2
     /\ OperatorAt(input, p.offset + 3)
  \/ /\ p.phase = "match" /\ p.part = 3 /\ p.total \in 2 .. 4
     /\ OperatorAt(input, p.offset + 3)
  \/ p.phase = "sum" /\ p.part = 2 /\ p.total = 3 /\ p.offset + 3 < Len(input)

StandsNext(p, input) ==
  \/ p.phase = "match" /\ p.part = 1 /\ p.total = 0
  \/ /\ p.phase = "length" /\ p.part = 1 /\ p.total = 0
     /\ p.offset < Len(input) /\ IsConnective(input[p.offset + 1])
  \/ /\ p.phase = "match" /\ p.part = 2 /\ p.total \in 0 .. 1
     /\ p.offset < Len(input) /\ IsConnective(input[p.offset + 1])
  \/ p.phase = "match" /\ p.part = 3 /\ p.total = 2
  \/ /\ p.phase = "length" /\ p.part = 3 /\ p.total = 2
     /\ OperatorAt(input, p.offset + 3)
  \/ /\ p.phase = "match" /\ p.part = 4 /\ p.total \in 2 .. 4
     /\ OperatorAt(input, p.offset + 3)
  \/ p.phase = "sum" /\ p.part = 1 /\ p.total = 2 /\ p.offset + 3 < Len(input)
  \/ p.phase = "sum" /\ p.part = 3 /\ p.total \in 2 .. 3 /\ p.offset + 3 < Len(input)

StandsIn(p, input) ==
  /\ p.pattern \in 1 .. 4
  /\ p.element \in 1 .. Len(ALL_PATTERNS[p.pattern])
  /\ p.offset \in 0 .. Len(input) + 1
  /\ \/ (TokensKind(Parts(p)) \/ ChoiceKind(Parts(p))) /\ StandsOne(p, input)
     \/ ColumnKind(Parts(p)) /\ StandsColumn(p, input)
     \/ WhereKind(Parts(p)) /\ StandsWhere(p, input)
     \/ NextKind(Parts(p)) /\ StandsNext(p, input)

Stands(p, input) ==
  p \in PlaceSet /\ ((Matching(p) /\ StandsIn(p, input)) \/ p.phase = "build")

(* The kind of the element that a place is in.                             *)
LEMMA KindHere ==
  ASSUME NEW p, p.pattern \in 1 .. 4, p.element \in 1 .. Len(ALL_PATTERNS[p.pattern])
  PROVE  \/ TokensKind(Parts(p)) \/ ChoiceKind(Parts(p)) \/ ColumnKind(Parts(p))
         \/ WhereKind(Parts(p)) \/ NextKind(Parts(p))
<1>1. IsElement(ALL_PATTERNS[p.pattern][p.element])
  BY PatternElements, Zenon DEF IsPattern
<1> QED
  BY <1>1, Kinds, Zenon DEF Parts

LEMMA PlaceFields ==
  ASSUME NEW phase, NEW pattern, NEW element, NEW part, NEW offset, NEW total
  PROVE  LET p == Place(phase, pattern, element, part, offset, total)
         IN  /\ p.phase = phase /\ p.pattern = pattern /\ p.element = element
             /\ p.part = part /\ p.offset = offset /\ p.total = total
             /\ phase \in Phases /\ pattern \in 1 .. 5 /\ element \in 1 .. 7 /\ part \in 1 .. 4
                  /\ offset \in Nat /\ total \in Nat => p \in PlaceSet
BY DEF Place, PlaceSet

LEMMA EnterStands ==
  ASSUME NEW input, Len(input) \in Nat, NEW pattern \in 1 .. 4,
         NEW element \in 1 .. Len(ALL_PATTERNS[pattern]) + 1, NEW offset \in 0 .. Len(input) + 1
  PROVE  Stands(EnterElement(pattern, element, offset), input)
<1>1. Len(ALL_PATTERNS[pattern]) \in 1 .. 7
  BY PatternLengths
<1>2. CASE element > Len(ALL_PATTERNS[pattern])
  <2> DEFINE q == Place("build", pattern, 1, 1, 0, 0)
  <2>1. EnterElement(pattern, element, offset) = q
    BY <1>2, Zenon DEF EnterElement
  <2>2. q.phase = "build"
    BY DEF Place
  <2>3. /\ "build" \in Phases /\ pattern \in 1 .. 5 /\ 1 \in 1 .. 7 /\ 1 \in 1 .. 4
        /\ 0 \in Nat
    BY DEF Phases
  <2>4. q \in PlaceSet
    BY <2>3, PlaceFields, Zenon
  <2> HIDE DEF q
  <2> QED
    BY <2>1, <2>2, <2>4 DEF Stands
<1>3. CASE ~(element > Len(ALL_PATTERNS[pattern]))
  <2> DEFINE q == Place("match", pattern, element, 1, offset, 0)
  <2>1. EnterElement(pattern, element, offset) = q
    BY <1>3, Zenon DEF EnterElement
  <2>2. /\ q.phase = "match" /\ q.pattern = pattern /\ q.element = element
        /\ q.part = 1 /\ q.offset = offset /\ q.total = 0
    BY DEF Place
  <2>3. /\ "match" \in Phases /\ pattern \in 1 .. 5 /\ element \in 1 .. 7 /\ 1 \in 1 .. 4
        /\ offset \in Nat /\ 0 \in Nat /\ element \in 1 .. Len(ALL_PATTERNS[pattern])
    <3>1. \A n \in 1 .. 7 : element \in 1 .. n + 1 /\ ~(element > n)
                             => element \in 1 .. 7 /\ element \in 1 .. n
      OBVIOUS
    <3>2. element \in 1 .. 7 /\ element \in 1 .. Len(ALL_PATTERNS[pattern])
      BY <1>1, <1>3, <3>1, Zenon
    <3> QED
      BY <3>2 DEF Phases
  <2>4. q \in PlaceSet
    BY <2>3, PlaceFields, Zenon
  <2> HIDE DEF q
  <2>5. \/ TokensKind(Parts(q)) \/ ChoiceKind(Parts(q)) \/ ColumnKind(Parts(q))
        \/ WhereKind(Parts(q)) \/ NextKind(Parts(q))
    BY <2>2, <2>3, KindHere, Zenon
  <2>6. StandsIn(q, input)
    BY <2>2, <2>3, <2>5, Zenon
       DEF StandsIn, StandsOne, StandsColumn, StandsWhere, StandsNext
  <2> QED
    BY <2>1, <2>2, <2>4, <2>6, Zenon DEF Stands, Matching
<1> QED
  BY <1>2, <1>3

LEMMA EnterPatternStands ==
  ASSUME NEW input, Len(input) \in Nat, NEW pattern \in 1 .. 5
  PROVE  Stands(EnterPattern(pattern), input)
<1>1. CASE pattern > Len(ALL_PATTERNS)
  <2> DEFINE q == Place("build", pattern, 1, 1, 0, 0)
  <2>1. EnterPattern(pattern) = q
    BY <1>1, Zenon DEF EnterPattern
  <2>2. q.phase = "build"
    BY DEF Place
  <2>3. "build" \in Phases /\ 1 \in 1 .. 7 /\ 1 \in 1 .. 4 /\ 0 \in Nat
    BY DEF Phases
  <2>4. q \in PlaceSet
    BY <2>3, PlaceFields, Zenon
  <2> HIDE DEF q
  <2> QED
    BY <2>1, <2>2, <2>4 DEF Stands
<1>2. CASE ~(pattern > Len(ALL_PATTERNS))
  <2>1. pattern \in 1 .. 4
    BY <1>2, PatternsAre
  <2>2. 1 \in 1 .. Len(ALL_PATTERNS[pattern]) + 1 /\ 0 \in 0 .. Len(input) + 1
    BY <2>1, PatternLengths
  <2> QED
    BY <1>2, <2>1, <2>2, EnterStands, Zenon DEF EnterPattern
<1> QED
  BY <1>1, <1>2

LEMMA FailStands ==
  ASSUME NEW input, Len(input) \in Nat, NEW p, StandsIn(p, input)
  PROVE  Stands(Fail(p), input)
<1>1. /\ p.pattern \in 1 .. 4 /\ p.pattern + 1 \in 1 .. 5
      /\ p.element + 1 \in 1 .. Len(ALL_PATTERNS[p.pattern]) + 1
      /\ p.offset \in 0 .. Len(input) + 1
  BY PatternLengths DEF StandsIn
<1> QED
  BY <1>1, EnterStands, EnterPatternStands, Zenon DEF Fail

LEMMA TakenStands ==
  ASSUME NEW input, Len(input) \in Nat, NEW p, p.offset \in Nat, p.pattern \in 1 .. 4,
         p.element \in 1 .. Len(ALL_PATTERNS[p.pattern]),
         NEW total \in Nat, p.offset + total <= Len(input) + 1
  PROVE  Stands(Taken(p, total), input)
<1>1. /\ p.element \in 1 .. Len(ALL_PATTERNS[p.pattern]) + 1
      /\ p.element + 1 \in 1 .. Len(ALL_PATTERNS[p.pattern]) + 1
      /\ p.offset + total \in 0 .. Len(input) + 1
  BY PatternLengths, SMTT(30)
<1> QED
  BY <1>1, EnterStands, Zenon DEF Taken

LEMMA MatchFields ==
  ASSUME NEW p, NEW k, NEW total, NEW q, q = Match(p, k, total)
  PROVE  /\ q.phase = "match" /\ q.pattern = p.pattern /\ q.element = p.element
         /\ q.part = k /\ q.offset = p.offset /\ q.total = total
         /\ Parts(q) = Parts(p) /\ Part(q) = Parts(p)[k]
         /\ p \in PlaceSet /\ k \in 1 .. 4 /\ total \in Nat => q \in PlaceSet
<1>1. /\ q.phase = "match" /\ q.pattern = p.pattern /\ q.element = p.element
      /\ q.part = k /\ q.offset = p.offset /\ q.total = total
      /\ p \in PlaceSet /\ k \in 1 .. 4 /\ total \in Nat => q \in PlaceSet
  BY DEF Match, Place, PlaceSet, Phases
<1> QED
  BY <1>1, Zenon DEF Parts, Part

LEMMA SumFields ==
  ASSUME NEW p, NEW k, NEW total, NEW q, q = Sum(p, k, total)
  PROVE  /\ q.phase = "sum" /\ q.pattern = p.pattern /\ q.element = p.element
         /\ q.part = k /\ q.offset = p.offset /\ q.total = total
         /\ Parts(q) = Parts(p) /\ Part(q) = Parts(p)[k]
         /\ p \in PlaceSet /\ k \in 1 .. 4 /\ total \in Nat => q \in PlaceSet
<1>1. /\ q.phase = "sum" /\ q.pattern = p.pattern /\ q.element = p.element
      /\ q.part = k /\ q.offset = p.offset /\ q.total = total
      /\ p \in PlaceSet /\ k \in 1 .. 4 /\ total \in Nat => q \in PlaceSet
  BY DEF Sum, Place, PlaceSet, Phases
<1> QED
  BY <1>1, Zenon DEF Parts, Part

LEMMA LengthFields ==
  ASSUME NEW p \in PlaceSet, NEW q, q = [p EXCEPT !.phase = "length"]
  PROVE  /\ q.phase = "length" /\ q.pattern = p.pattern /\ q.element = p.element
         /\ q.part = p.part /\ q.offset = p.offset /\ q.total = p.total
         /\ Parts(q) = Parts(p) /\ Part(q) = Part(p)
         /\ q \in PlaceSet
<1>1. /\ q.phase = "length" /\ q.pattern = p.pattern /\ q.element = p.element
      /\ q.part = p.part /\ q.offset = p.offset /\ q.total = p.total
      /\ q \in PlaceSet
  BY DEF PlaceSet, Phases
<1> QED
  BY <1>1, Zenon DEF Parts, Part

(* The kinds exclude one another, by their lengths.                        *)
LEMMA KindStands ==
  ASSUME NEW p, NEW input, StandsIn(p, input)
  PROVE  /\ TokensKind(Parts(p)) \/ ChoiceKind(Parts(p)) => StandsOne(p, input)
         /\ ColumnKind(Parts(p)) => StandsColumn(p, input)
         /\ WhereKind(Parts(p)) => StandsWhere(p, input)
         /\ NextKind(Parts(p)) => StandsNext(p, input)
<1>1. /\ TokensKind(Parts(p)) \/ ChoiceKind(Parts(p)) => Len(Parts(p)) = 1
      /\ ColumnKind(Parts(p)) => Len(Parts(p)) = 2
      /\ WhereKind(Parts(p)) => Len(Parts(p)) = 3
      /\ NextKind(Parts(p)) => Len(Parts(p)) = 4
  BY Zenon DEF TokensKind, ChoiceKind, ColumnKind, WhereKind, NextKind
<1>2. 1 # 2 /\ 1 # 3 /\ 1 # 4 /\ 2 # 3 /\ 2 # 4 /\ 3 # 4
  OBVIOUS
<1>3. \/ (TokensKind(Parts(p)) \/ ChoiceKind(Parts(p))) /\ StandsOne(p, input)
      \/ ColumnKind(Parts(p)) /\ StandsColumn(p, input)
      \/ WhereKind(Parts(p)) /\ StandsWhere(p, input)
      \/ NextKind(Parts(p)) /\ StandsNext(p, input)
  BY Zenon DEF StandsIn
<1> QED
  BY <1>1, <1>2, <1>3, Zenon

(* The lengths a range can have, anybody's match.                          *)
LengthsOf(range) == IF range \in {"COMPARER", "NEXT_COMPARER"} THEN 0 .. 2 ELSE 0 .. 1

(* What a step within an element leads to, in each of its phases.          *)
CertainGoes(p, input) ==
  p.phase = "match" /\ Part(p).range = Empty
    /\ CertainCheck(Part(p).templates, input, p.offset + p.total)
    => Stands(Advance(p, Len(Part(p).templates)), input)

RangeGoes(p, input) ==
  p.phase = "match" /\ Part(p).range # Empty /\ p.offset + p.total < Len(input)
    /\ RangeLength(Part(p), input, p.offset + p.total) # 0
    => Stands(IF p.part = Len(Parts(p)) THEN Advance(p, 0) ELSE [p EXCEPT !.phase = "length"], input)

LengthGoes(p, input) ==
  p.phase = "length" => \A l \in LengthsOf(Part(p).range) : Stands(Advance(p, l), input)

SumGoes(p, input) ==
  p.phase = "sum" =>
    \A l \in LengthsOf(Part(p).range) : Stands(GetMatchLength(p, p.part + 1, p.total + l), input)

Goes(p, input) ==
  CertainGoes(p, input) /\ RangeGoes(p, input) /\ LengthGoes(p, input) /\ SumGoes(p, input)

LEMMA TokensGo ==
  ASSUME NEW input \in Seq(AnyToken), NEW p \in PlaceSet, Matching(p), StandsIn(p, input),
         TokensKind(Parts(p))
  PROVE  Goes(p, input)
<1>1. /\ p.part = 1 /\ p.total = 0 /\ p.offset \in Nat /\ Len(input) \in Nat
      /\ p.phase = "match" \/ Part(p).range # Empty
      /\ p.phase \in {"match", "sum"}
  BY KindStands, LenProperties DEF StandsOne, PlaceSet
<1>2. /\ Part(p).range = Empty /\ \A l : Advance(p, l) = Taken(p, Len(Part(p).templates))
  BY <1>1, TokensAdvance
<1>3. p.phase = "match"
  BY <1>1, <1>2
<1>4. ASSUME CertainCheck(Part(p).templates, input, p.offset + p.total)
      PROVE  Stands(Taken(p, Len(Part(p).templates)), input)
  <2>1. /\ Len(Part(p).templates) \in Nat \ {0}
        /\ DOMAIN Part(p).templates = 1 .. Len(Part(p).templates)
        /\ \A i \in DOMAIN Part(p).templates : Needle(Part(p).templates[i])
    BY <1>1, Zenon DEF TokensKind, Part
  <2>2. p.offset + p.total = p.offset
    BY <1>1
  <2>3. p.offset + Len(Part(p).templates) <= Len(input)
    BY <1>1, <1>4, <2>1, <2>2, CheckedInside
  <2>4. p.pattern \in 1 .. 4 /\ p.element \in 1 .. Len(ALL_PATTERNS[p.pattern])
    BY DEF StandsIn
  <2> QED
    BY <1>1, <2>1, <2>3, <2>4, TakenStands
<1> QED
  BY <1>2, <1>3, <1>4 DEF Goes, CertainGoes, RangeGoes, LengthGoes, SumGoes

LEMMA ChoiceGo ==
  ASSUME NEW input \in Seq(AnyToken), NEW p \in PlaceSet, Matching(p), StandsIn(p, input),
         ChoiceKind(Parts(p))
  PROVE  Goes(p, input)
<1>1. /\ p.part = 1 /\ p.total = 0 /\ p.offset \in Nat /\ Len(input) \in Nat
      /\ p.phase = "sum" => p.offset < Len(input)
      /\ p.phase \in {"match", "sum"}
      /\ p.pattern \in 1 .. 4 /\ p.element \in 1 .. Len(ALL_PATTERNS[p.pattern])
      /\ p.offset \in 0 .. Len(input) + 1
  BY KindStands, LenProperties DEF StandsOne, StandsIn, PlaceSet
<1>2. /\ Part(p).range \in {"VALUE_TYPE", "FIRST_COL"} /\ Part(p).range # Empty
      /\ \A l : Advance(p, l) = Sum(p, 1, 0)
      /\ \A t : GetMatchLength(p, 2, t) = Taken(p, t)
  BY <1>1, ChoiceAdvance
<1>3. LengthsOf(Part(p).range) = 0 .. 1 /\ Len(Parts(p)) = 1
  BY <1>2 DEF LengthsOf, ChoiceKind
<1>4. ASSUME p.phase = "match", p.offset + p.total < Len(input)
      PROVE  Stands(Advance(p, 0), input)
  <2>1. PICK q : q = Sum(p, 1, 0)
    OBVIOUS
  <2>2. /\ q.phase = "sum" /\ q.pattern = p.pattern /\ q.element = p.element
        /\ q.part = 1 /\ q.offset = p.offset /\ q.total = 0
        /\ Parts(q) = Parts(p) /\ Part(q) = Parts(p)[1] /\ q \in PlaceSet
    BY <2>1, SumFields
  <2>3. StandsOne(q, input)
    BY <1>1, <1>2, <1>4, <2>2 DEF StandsOne, Part
  <2> QED
    BY <1>1, <1>2, <2>1, <2>2, <2>3, Zenon DEF Stands, StandsIn, Matching
<1>5. ASSUME p.phase = "sum", NEW l \in 0 .. 1
      PROVE  Stands(GetMatchLength(p, p.part + 1, p.total + l), input)
  <2>1. p.part + 1 = 2 /\ p.total + l \in Nat /\ p.offset + (p.total + l) <= Len(input) + 1
    BY <1>1, <1>5
  <2>2. Stands(Taken(p, p.total + l), input)
    BY <1>1, <2>1, TakenStands
  <2> QED
    BY <1>2, <2>1, <2>2, Zenon
<1> QED
  BY <1>1, <1>2, <1>3, <1>4, <1>5 DEF Goes, CertainGoes, RangeGoes, LengthGoes, SumGoes

LEMMA ColumnGo ==
  ASSUME NEW input \in Seq(AnyToken), NEW p \in PlaceSet, Matching(p), StandsIn(p, input),
         ColumnKind(Parts(p))
  PROVE  Goes(p, input)
<1>1. /\ p.offset \in Nat /\ Len(input) \in Nat /\ StandsColumn(p, input)
      /\ p.pattern \in 1 .. 4 /\ p.element \in 1 .. Len(ALL_PATTERNS[p.pattern])
      /\ p.offset \in 0 .. Len(input) + 1 /\ p.part \in 1 .. 2 /\ Len(Parts(p)) = 2
  <2>1. StandsColumn(p, input) /\ Len(Parts(p)) = 2
    BY KindStands, Zenon DEF ColumnKind
  <2> QED
    BY <2>1, LenProperties DEF StandsColumn, StandsIn, PlaceSet
<1>2. /\ p.part = 1 => /\ Part(p).range = Empty /\ Len(Part(p).templates) = 2
                       /\ \A l : Advance(p, l) = Match(p, 2, p.total + l)
      /\ p.part = 2 => /\ Part(p).range = "NEXT_VALUE_TYPE" /\ Part(p).range # Empty
                       /\ \A l : Advance(p, l) = Sum(p, 2, 2)
      /\ \A t : GetMatchLength(p, 3, t) = Taken(p, t)
  BY <1>1, ColumnAdvance
<1>3. ASSUME p.part = 1 PROVE Stands(Advance(p, 2), input)
  <2>1. p.total + 2 = 2
    BY <1>1, <1>3 DEF StandsColumn
  <2>2. PICK q : q = Match(p, 2, 2)
    OBVIOUS
  <2>3. /\ q.phase = "match" /\ q.pattern = p.pattern /\ q.element = p.element
        /\ q.part = 2 /\ q.offset = p.offset /\ q.total = 2
        /\ Parts(q) = Parts(p) /\ q \in PlaceSet
    BY <2>2, MatchFields
  <2>4. StandsColumn(q, input)
    BY <2>3 DEF StandsColumn
  <2> QED
    BY <1>1, <1>2, <1>3, <2>1, <2>2, <2>3, <2>4, Zenon DEF Stands, StandsIn, Matching
<1>4. ASSUME p.phase = "match", p.part = 2, p.offset + p.total < Len(input)
      PROVE  Stands(Advance(p, 0), input)
  <2>1. p.total = 2
    BY <1>1, <1>4 DEF StandsColumn
  <2>2. PICK q : q = Sum(p, 2, 2)
    OBVIOUS
  <2>3. /\ q.phase = "sum" /\ q.pattern = p.pattern /\ q.element = p.element
        /\ q.part = 2 /\ q.offset = p.offset /\ q.total = 2
        /\ Parts(q) = Parts(p) /\ q \in PlaceSet
    BY <2>2, SumFields
  <2>4. StandsColumn(q, input)
    BY <1>4, <2>1, <2>3 DEF StandsColumn
  <2> QED
    BY <1>1, <1>2, <1>4, <2>2, <2>3, <2>4, Zenon DEF Stands, StandsIn, Matching
<1>5. ASSUME p.phase = "sum", NEW l \in LengthsOf(Part(p).range)
      PROVE  Stands(GetMatchLength(p, p.part + 1, p.total + l), input)
  <2>1. p.part = 2 /\ p.total = 2 /\ p.offset + 2 < Len(input)
    BY <1>1, <1>5 DEF StandsColumn
  <2>2. l \in 0 .. 1
    BY <1>2, <1>5, <2>1 DEF LengthsOf
  <2>3. p.part + 1 = 3 /\ p.total + l \in Nat /\ p.offset + (p.total + l) <= Len(input) + 1
    BY <1>1, <2>1, <2>2
  <2>4. Stands(Taken(p, p.total + l), input)
    BY <1>1, <2>3, TakenStands
  <2> QED
    BY <1>2, <2>3, <2>4, Zenon
<1>6. p.part = 1 \/ p.part = 2
  BY <1>1
<1>7. p.phase # "length"
  BY <1>1 DEF StandsColumn
<1> QED
  BY <1>1, <1>2, <1>3, <1>4, <1>5, <1>6, <1>7
     DEF Goes, CertainGoes, RangeGoes, LengthGoes, SumGoes

(* A comparer begins with an operator; a value, or a name, is none, and    *)
(* a connective is no name.                                                *)
LEMMA ComparerFound ==
  ASSUME NEW input \in Seq(AnyToken), NEW o \in Nat, o < Len(input), NEW part, NEW range,
         IsRange(part, range, Comparer, Unequal), RangeLength(part, input, o) # 0
  PROVE  OperatorAt(input, o + 1) /\ CompareLength(input, o) \in 1 .. 2
<1>1. CompareLength(input, o) # 0
  BY RangeLengths
<1>2. CompareLength(input, o) \in 0 .. 2
  BY DEF CompareLength
<1>3. At(input, o + 1).type = "OPERATOR_T"
  BY <1>1 DEF CompareLength, Mark, Token
<1>4. o + 1 \in 1 .. Len(input)
  BY LenProperties
<1>5. At(input, o + 1) = input[o + 1]
  BY <1>4, AtWhat
<1> QED
  BY <1>1, <1>2, <1>3, <1>4, <1>5 DEF OperatorAt

LEMMA ValueFound ==
  ASSUME NEW input \in Seq(AnyToken), NEW o \in Nat, CertainCheck(<<AnyValue>>, input, o)
  PROVE  o < Len(input) /\ ~OperatorAt(input, o + 1) /\ IsValue(input[o + 1])
<1>1. IsValue(At(input, o + 1)) /\ Len(input) \in Nat /\ o + 1 \in Nat
  BY Check1, FitsWhat, LenProperties
<1>2. o + 1 \in 1 .. Len(input)
  BY <1>1, AtWhat, NothingFits
<1>3. At(input, o + 1) = input[o + 1]
  BY <1>2, AtWhat
<1> QED
  BY <1>1, <1>2, <1>3 DEF OperatorAt, IsValue

LEMMA NameFound ==
  ASSUME NEW input \in Seq(AnyToken), NEW o \in Nat, CertainCheck(<<AnyIdentifier>>, input, o)
  PROVE  o < Len(input) /\ ~IsConnective(input[o + 1]) /\ input[o + 1].type = "IDENTIFIER_T"
<1>1. At(input, o + 1).type = "IDENTIFIER_T" /\ Len(input) \in Nat /\ o + 1 \in Nat
  BY Check1, FitsWhat, LenProperties
<1>2. o + 1 \in 1 .. Len(input)
  BY <1>1, AtWhat, NothingFits
<1>3. At(input, o + 1) = input[o + 1] /\ IsToken(input[o + 1])
  BY <1>2, AtWhat
<1> QED
  BY <1>1, <1>2, <1>3 DEF IsConnective, IsToken, KEY_WORDS

LEMMA WhereGo ==
  ASSUME NEW input \in Seq(AnyToken), NEW p \in PlaceSet, Matching(p), StandsIn(p, input),
         WhereKind(Parts(p))
  PROVE  Goes(p, input)
<1>1. /\ p.offset \in Nat /\ Len(input) \in Nat /\ StandsWhere(p, input) /\ p.total \in Nat
      /\ p.pattern \in 1 .. 4 /\ p.element \in 1 .. Len(ALL_PATTERNS[p.pattern])
      /\ p.offset \in 0 .. Len(input) + 1 /\ p.part \in 1 .. 3 /\ Len(Parts(p)) = 3
  <2>1. StandsWhere(p, input) /\ Len(Parts(p)) = 3
    BY KindStands, Zenon DEF WhereKind
  <2> QED
    BY <2>1, LenProperties DEF StandsWhere, StandsIn, PlaceSet
<1>2. /\ p.part = 1 => /\ Part(p).range = Empty /\ Len(Part(p).templates) = 2
                       /\ \A l : Advance(p, l) = Match(p, 2, p.total + l)
      /\ p.part = 2 => /\ Part(p).range = "COMPARER" /\ Part(p).range # Empty
                       /\ \A l : Advance(p, l) = Match(p, 3, p.total + l)
      /\ p.part = 3 => /\ Part(p).range = Empty /\ Part(p).templates = <<AnyValue>>
                       /\ \A l : Advance(p, l) = Sum(p, 2, 3)
      /\ \A t : GetMatchLength(p, 3, t) = Taken(p, t)
  BY <1>1, WhereAdvance
<1>0. LengthsOf("COMPARER") = 0 .. 2
  BY DEF LengthsOf
<1>3. ASSUME p.part = 1 PROVE Stands(Advance(p, 2), input)
  <2>1. p.total + 2 = 2
    BY <1>1, <1>3 DEF StandsWhere
  <2>2. PICK q : q = Match(p, 2, 2)
    OBVIOUS
  <2>3. /\ q.phase = "match" /\ q.pattern = p.pattern /\ q.element = p.element
        /\ q.part = 2 /\ q.offset = p.offset /\ q.total = 2
        /\ Parts(q) = Parts(p) /\ q \in PlaceSet
    BY <2>2, MatchFields
  <2>4. StandsWhere(q, input)
    BY <2>3 DEF StandsWhere
  <2> QED
    BY <1>1, <1>2, <1>3, <2>1, <2>2, <2>3, <2>4, Zenon DEF Stands, StandsIn, Matching
<1>4. ASSUME p.phase = "match", p.part = 2, p.offset + p.total < Len(input),
             RangeLength(Part(p), input, p.offset + p.total) # 0
      PROVE  Stands([p EXCEPT !.phase = "length"], input)
  <2>1. p.total = 2
    BY <1>1, <1>4 DEF StandsWhere
  <2>2. PICK q : q = [p EXCEPT !.phase = "length"]
    OBVIOUS
  <2>3. /\ q.phase = "length" /\ q.pattern = p.pattern /\ q.element = p.element
        /\ q.part = 2 /\ q.offset = p.offset /\ q.total = 2
        /\ Parts(q) = Parts(p) /\ q \in PlaceSet
    BY <1>4, <2>1, <2>2, LengthFields
  <2>4. IsRange(Part(p), "COMPARER", Comparer, Unequal)
    BY <1>4, Zenon DEF WhereKind, Part
  <2>5. OperatorAt(input, (p.offset + 2) + 1)
    BY <1>1, <1>4, <2>1, <2>4, ComparerFound
  <2>6. (p.offset + 2) + 1 = p.offset + 3
    BY <1>1
  <2>7. StandsWhere(q, input)
    BY <2>3, <2>5, <2>6, Zenon DEF StandsWhere
  <2> QED
    BY <1>1, <2>2, <2>3, <2>7, Zenon DEF Stands, StandsIn, Matching
<1>5. ASSUME p.phase = "length", NEW l \in LengthsOf(Part(p).range)
      PROVE  Stands(Advance(p, l), input)
  <2>1. p.part = 2 /\ p.total = 2 /\ OperatorAt(input, p.offset + 3)
    BY <1>1, <1>5 DEF StandsWhere
  <2>2. l \in 0 .. 2
    BY <1>2, <1>5, <1>0, <2>1, Zenon
  <2>3. PICK q : q = Match(p, 3, p.total + l)
    OBVIOUS
  <2>4. /\ q.phase = "match" /\ q.pattern = p.pattern /\ q.element = p.element
        /\ q.part = 3 /\ q.offset = p.offset /\ q.total = p.total + l
        /\ Parts(q) = Parts(p) /\ q \in PlaceSet
    <3>1. p.total + l \in Nat /\ 3 \in 1 .. 4
      BY <1>1, <2>2
    <3> QED
      BY <2>3, <3>1, MatchFields
  <2>5. p.total + l \in 2 .. 4
    BY <2>1, <2>2
  <2>6. StandsWhere(q, input)
    BY <2>1, <2>4, <2>5, Zenon DEF StandsWhere
  <2> QED
    BY <1>1, <1>2, <2>1, <2>3, <2>4, <2>6, Zenon DEF Stands, StandsIn, Matching
<1>6. ASSUME p.phase = "match", p.part = 3, CertainCheck(Part(p).templates, input, p.offset + p.total)
      PROVE  Stands(Advance(p, Len(Part(p).templates)), input)
  <2>1. p.total \in 2 .. 4 /\ OperatorAt(input, p.offset + 3)
    BY <1>1, <1>6 DEF StandsWhere
  <2>2. /\ CertainCheck(<<AnyValue>>, input, p.offset + p.total)
        /\ p.offset + p.total \in Nat
    BY <1>1, <1>2, <1>6
  <2>3. p.offset + p.total < Len(input) /\ ~OperatorAt(input, (p.offset + p.total) + 1)
    BY <2>2, ValueFound
  <2>4. p.offset + 3 < Len(input)
    <3>1. CASE p.total = 2
      <4>1. (p.offset + p.total) + 1 = p.offset + 3
        BY <1>1, <3>1
      <4> QED
        BY <2>1, <2>3, <4>1, Zenon
    <3>2. CASE p.total \in 3 .. 4
      BY <1>1, <2>3, <3>2
    <3> QED
      BY <2>1, <3>1, <3>2
  <2>5. PICK q : q = Sum(p, 2, 3)
    OBVIOUS
  <2>6. /\ q.phase = "sum" /\ q.pattern = p.pattern /\ q.element = p.element
        /\ q.part = 2 /\ q.offset = p.offset /\ q.total = 3
        /\ Parts(q) = Parts(p) /\ q \in PlaceSet
    BY <2>5, SumFields
  <2>7. StandsWhere(q, input)
    BY <2>4, <2>6 DEF StandsWhere
  <2> QED
    BY <1>1, <1>2, <1>6, <2>5, <2>6, <2>7, Zenon DEF Stands, StandsIn, Matching
<1>7. ASSUME p.phase = "sum", NEW l \in LengthsOf(Part(p).range)
      PROVE  Stands(GetMatchLength(p, p.part + 1, p.total + l), input)
  <2>1. p.part = 2 /\ p.total = 3 /\ p.offset + 3 < Len(input)
    BY <1>1, <1>7 DEF StandsWhere
  <2>2. l \in 0 .. 2
    BY <1>2, <1>7, <1>0, <2>1, Zenon
  <2>3. p.part + 1 = 3 /\ p.total + l \in Nat /\ p.offset + (p.total + l) <= Len(input) + 1
    BY <1>1, <2>1, <2>2
  <2>4. Stands(Taken(p, p.total + l), input)
    BY <1>1, <2>3, TakenStands
  <2> QED
    BY <1>2, <2>3, <2>4, Zenon
<1>8. p.part = 1 \/ p.part = 2 \/ p.part = 3
  BY <1>1
<1>9. CertainGoes(p, input)
  BY <1>2, <1>3, <1>6, <1>8, Zenon DEF CertainGoes
<1>10. RangeGoes(p, input)
  <2>1. 2 # 3
    OBVIOUS
  <2> QED
    BY <1>1, <1>2, <1>4, <1>8, <2>1, Zenon DEF RangeGoes
<1> QED
  BY <1>5, <1>7, <1>9, <1>10, Zenon DEF Goes, LengthGoes, SumGoes

LEMMA NextGo ==
  ASSUME NEW input \in Seq(AnyToken), NEW p \in PlaceSet, Matching(p), StandsIn(p, input),
         NextKind(Parts(p))
  PROVE  Goes(p, input)
<1>1. /\ p.offset \in Nat /\ Len(input) \in Nat /\ StandsNext(p, input) /\ p.total \in Nat
      /\ p.pattern \in 1 .. 4 /\ p.element \in 1 .. Len(ALL_PATTERNS[p.pattern])
      /\ p.offset \in 0 .. Len(input) + 1 /\ p.part \in 1 .. 4 /\ Len(Parts(p)) = 4
  <2>1. StandsNext(p, input) /\ Len(Parts(p)) = 4
    BY KindStands, Zenon DEF NextKind
  <2> QED
    BY <2>1, LenProperties DEF StandsNext, StandsIn, PlaceSet
<1>2. /\ p.part = 1 => /\ Part(p).range = "OPERATOR" /\ Part(p).range # Empty
                       /\ \A l : Advance(p, l) = Match(p, 2, p.total + l)
      /\ p.part = 2 => /\ Part(p).range = Empty /\ Part(p).templates = <<AnyIdentifier>>
                       /\ \A l : Advance(p, l) = Match(p, 3, p.total + l)
      /\ p.part = 3 => /\ Part(p).range = "NEXT_COMPARER" /\ Part(p).range # Empty
                       /\ \A l : Advance(p, l) = Match(p, 4, p.total + l)
      /\ p.part = 4 => /\ Part(p).range = Empty /\ Part(p).templates = <<AnyValue>>
                       /\ \A l : Advance(p, l) = Sum(p, 1, 2)
      /\ \A t : GetMatchLength(p, 2, t) = Sum(p, 3, t)
      /\ \A t : GetMatchLength(p, 4, t) = Taken(p, t)
  BY <1>1, NextAdvance
<1>0. LengthsOf("OPERATOR") = 0 .. 1 /\ LengthsOf("NEXT_COMPARER") = 0 .. 2
  BY DEF LengthsOf
<1>3. ASSUME p.phase = "match", p.part \in {1, 3}, p.offset + p.total < Len(input),
             RangeLength(Part(p), input, p.offset + p.total) # 0
      PROVE  Stands([p EXCEPT !.phase = "length"], input)
  <2>2. PICK q : q = [p EXCEPT !.phase = "length"]
    OBVIOUS
  <2>3. /\ q.phase = "length" /\ q.pattern = p.pattern /\ q.element = p.element
        /\ q.part = p.part /\ q.offset = p.offset /\ q.total = p.total
        /\ Parts(q) = Parts(p) /\ q \in PlaceSet
    BY <2>2, LengthFields
  <2>4. CASE p.part = 1
    <3>1. p.total = 0 /\ p.offset + p.total = p.offset /\ p.offset + 1 \in 1 .. Len(input)
          /\ p.offset < Len(input)
      BY <1>1, <1>3, <2>4 DEF StandsNext
    <3>2. IsRange(Part(p), "OPERATOR", <<Keyword("AND"), Keyword("OR")>>, <<>>)
      BY <2>4, Zenon DEF NextKind, Part
    <3>3. RangeLength(Part(p), input, p.offset)
            = IF IsConnective(At(input, p.offset + 1)) THEN 1 ELSE 0
      BY <1>1, <3>1, <3>2, RangeLengths
    <3>4. IsConnective(At(input, p.offset + 1)) /\ At(input, p.offset + 1) = input[p.offset + 1]
      BY <1>3, <3>1, <3>3, AtWhat
    <3>5. StandsNext(q, input)
      BY <2>3, <2>4, <3>1, <3>4, Zenon DEF StandsNext
    <3> QED
      BY <1>1, <2>2, <2>3, <3>5, Zenon DEF Stands, StandsIn, Matching
  <2>5. CASE p.part = 3
    <3>1. p.total = 2
      BY <1>1, <1>3, <2>5 DEF StandsNext
    <3>2. IsRange(Part(p), "NEXT_COMPARER", Comparer, Unequal)
      BY <2>5, Zenon DEF NextKind, Part
    <3>3. OperatorAt(input, (p.offset + 2) + 1)
      BY <1>1, <1>3, <3>1, <3>2, ComparerFound
    <3>4. (p.offset + 2) + 1 = p.offset + 3
      BY <1>1
    <3>5. StandsNext(q, input)
      BY <2>3, <2>5, <3>1, <3>3, <3>4, Zenon DEF StandsNext
    <3> QED
      BY <1>1, <2>2, <2>3, <3>5, Zenon DEF Stands, StandsIn, Matching
  <2> QED
    BY <1>3, <2>4, <2>5
<1>4. ASSUME p.phase = "length", NEW l \in LengthsOf(Part(p).range)
      PROVE  Stands(Advance(p, l), input)
  <2>0. l \in Nat
    BY <1>4 DEF LengthsOf
  <2>1. PICK q : q = Match(p, p.part + 1, p.total + l)
    OBVIOUS
  <2>2. p.part = 1 \/ p.part = 3
    BY <1>1, <1>4 DEF StandsNext
  <2>3. /\ q.phase = "match" /\ q.pattern = p.pattern /\ q.element = p.element
        /\ q.part = p.part + 1 /\ q.offset = p.offset /\ q.total = p.total + l
        /\ Parts(q) = Parts(p) /\ q \in PlaceSet
    <3>1. p.total + l \in Nat /\ p.part + 1 \in 1 .. 4
      BY <1>1, <2>0, <2>2
    <3> QED
      BY <2>1, <3>1, MatchFields
  <2>4. Advance(p, l) = q
    <3>1. 1 + 1 = 2 /\ 3 + 1 = 4
      OBVIOUS
    <3> QED
      BY <1>2, <2>1, <2>2, <3>1, Zenon
  <2>5. StandsNext(q, input)
    <3>1. CASE p.part = 1
      <4>1. /\ p.total = 0 /\ p.offset < Len(input) /\ IsConnective(input[p.offset + 1])
        BY <1>1, <1>4, <3>1 DEF StandsNext
      <4>2. l \in 0 .. 1 /\ p.part + 1 = 2
        BY <1>0, <1>2, <1>4, <3>1
      <4>3. q.total \in 0 .. 1 /\ q.part = 2
        BY <2>3, <4>1, <4>2
      <4> QED
        BY <2>3, <4>1, <4>3, Zenon DEF StandsNext
    <3>2. CASE p.part = 3
      <4>1. p.total = 2 /\ OperatorAt(input, p.offset + 3)
        BY <1>1, <1>4, <3>2 DEF StandsNext
      <4>2. l \in 0 .. 2 /\ p.part + 1 = 4
        BY <1>0, <1>2, <1>4, <3>2
      <4>3. q.total \in 2 .. 4 /\ q.part = 4
        BY <2>3, <4>1, <4>2
      <4> QED
        BY <2>3, <4>1, <4>3, Zenon DEF StandsNext
    <3> QED
      BY <2>2, <3>1, <3>2
  <2> QED
    BY <1>1, <2>3, <2>4, <2>5, Zenon DEF Stands, StandsIn, Matching
<1>5. ASSUME p.phase = "match", p.part = 2, CertainCheck(Part(p).templates, input, p.offset + p.total)
      PROVE  Stands(Advance(p, Len(Part(p).templates)), input)
  <2>1. p.total \in 0 .. 1 /\ IsConnective(input[p.offset + 1])
    BY <1>1, <1>5 DEF StandsNext
  <2>2. CertainCheck(<<AnyIdentifier>>, input, p.offset + p.total) /\ p.offset + p.total \in Nat
    BY <1>1, <1>2, <1>5
  <2>3. ~IsConnective(input[(p.offset + p.total) + 1])
    BY <2>2, NameFound
  <2>4. p.total = 1
    <3>1. CASE p.total = 0
      <4>1. (p.offset + p.total) + 1 = p.offset + 1
        BY <1>1, <3>1
      <4> QED
        BY <2>1, <2>3, <4>1, Zenon
    <3> QED
      BY <2>1, <3>1
  <2>5. Len(Part(p).templates) = 1 /\ p.total + 1 = 2
    <3>1. Len(Part(p).templates) = 1
      BY <1>2, <1>5, Lengths1, Zenon
    <3> QED
      BY <2>4, <3>1
  <2>6. PICK q : q = Match(p, 3, 2)
    OBVIOUS
  <2>7. /\ q.phase = "match" /\ q.pattern = p.pattern /\ q.element = p.element
        /\ q.part = 3 /\ q.offset = p.offset /\ q.total = 2
        /\ Parts(q) = Parts(p) /\ q \in PlaceSet
    BY <2>6, MatchFields
  <2>8. StandsNext(q, input)
    BY <2>7 DEF StandsNext
  <2> QED
    BY <1>1, <1>2, <1>5, <2>5, <2>6, <2>7, <2>8, Zenon DEF Stands, StandsIn, Matching
<1>6. ASSUME p.phase = "match", p.part = 4, CertainCheck(Part(p).templates, input, p.offset + p.total)
      PROVE  Stands(Advance(p, Len(Part(p).templates)), input)
  <2>1. p.total \in 2 .. 4 /\ OperatorAt(input, p.offset + 3)
    BY <1>1, <1>6 DEF StandsNext
  <2>2. /\ CertainCheck(<<AnyValue>>, input, p.offset + p.total)
        /\ p.offset + p.total \in Nat
    BY <1>1, <1>2, <1>6
  <2>3. p.offset + p.total < Len(input) /\ ~OperatorAt(input, (p.offset + p.total) + 1)
    BY <2>2, ValueFound
  <2>4. p.offset + 3 < Len(input)
    <3>1. CASE p.total = 2
      <4>1. (p.offset + p.total) + 1 = p.offset + 3
        BY <1>1, <3>1
      <4> QED
        BY <2>1, <2>3, <4>1, Zenon
    <3>2. CASE p.total \in 3 .. 4
      BY <1>1, <2>3, <3>2
    <3> QED
      BY <2>1, <3>1, <3>2
  <2>5. PICK q : q = Sum(p, 1, 2)
    OBVIOUS
  <2>6. /\ q.phase = "sum" /\ q.pattern = p.pattern /\ q.element = p.element
        /\ q.part = 1 /\ q.offset = p.offset /\ q.total = 2
        /\ Parts(q) = Parts(p) /\ q \in PlaceSet
    BY <2>5, SumFields
  <2>7. StandsNext(q, input)
    BY <2>4, <2>6 DEF StandsNext
  <2> QED
    BY <1>1, <1>2, <1>6, <2>5, <2>6, <2>7, Zenon DEF Stands, StandsIn, Matching
<1>7. ASSUME p.phase = "sum", NEW l \in LengthsOf(Part(p).range)
      PROVE  Stands(GetMatchLength(p, p.part + 1, p.total + l), input)
  <2>1. /\ (p.part = 1 /\ p.total = 2) \/ (p.part = 3 /\ p.total \in 2 .. 3)
        /\ p.offset + 3 < Len(input)
    BY <1>1, <1>7 DEF StandsNext
  <2>2. CASE p.part = 1
    <3>1. l \in 0 .. 1 /\ p.part + 1 = 2
      BY <1>0, <1>2, <1>7, <2>2
    <3>2. PICK q : q = Sum(p, 3, p.total + l)
      OBVIOUS
    <3>3. p.total + l \in Nat /\ p.total + l \in 2 .. 3
      BY <2>1, <2>2, <3>1
    <3>4. /\ q.phase = "sum" /\ q.pattern = p.pattern /\ q.element = p.element
          /\ q.part = 3 /\ q.offset = p.offset /\ q.total = p.total + l
          /\ Parts(q) = Parts(p) /\ q \in PlaceSet
      BY <3>2, <3>3, SumFields
    <3>5. StandsNext(q, input)
      BY <2>1, <3>3, <3>4, Zenon DEF StandsNext
    <3> QED
      BY <1>1, <1>2, <3>1, <3>2, <3>4, <3>5, Zenon DEF Stands, StandsIn, Matching
  <2>3. CASE p.part = 3
    <3>1. l \in 0 .. 2 /\ p.part + 1 = 4
      BY <1>0, <1>2, <1>7, <2>3
    <3>2. p.total + l \in Nat /\ p.offset + (p.total + l) <= Len(input) + 1
      BY <1>1, <2>1, <2>3, <3>1, SMTT(30)
    <3>3. Stands(Taken(p, p.total + l), input)
      BY <1>1, <3>2, TakenStands
    <3> QED
      BY <1>2, <3>1, <3>3, Zenon
  <2> QED
    BY <2>1, <2>2, <2>3
<1>8. p.part = 1 \/ p.part = 2 \/ p.part = 3 \/ p.part = 4
  BY <1>1
<1>9. CertainGoes(p, input)
  BY <1>2, <1>5, <1>6, <1>8, Zenon DEF CertainGoes
<1>10. RangeGoes(p, input)
  <2>1. 1 # 4 /\ 3 # 4
    OBVIOUS
  <2> QED
    BY <1>1, <1>2, <1>3, <1>8, <2>1, Zenon DEF RangeGoes
<1> QED
  BY <1>4, <1>7, <1>9, <1>10, Zenon DEF Goes, LengthGoes, SumGoes

LEMMA AllGo ==
  ASSUME NEW input \in Seq(AnyToken), NEW p \in PlaceSet, Matching(p), StandsIn(p, input)
  PROVE  Goes(p, input)
BY TokensGo, ChoiceGo, ColumnGo, WhereGo, NextGo, Zenon DEF StandsIn

-----------------------------------------------------------------------------
(* The invariant behind TypeOK.                                            *)
LEMMA RangeFound ==
  ASSUME NEW input \in Seq(AnyToken), NEW p \in PlaceSet, p.phase = "match", StandsIn(p, input),
         Part(p).range # Empty, p.offset + p.total < Len(input)
  PROVE  /\ Part(p).range \in RangeName
         /\ RangeLength(Part(p), input, p.offset + p.total) \in LengthsOf(Part(p).range)
<1> DEFINE o == p.offset + p.total
           part == Part(p)
<1>1. o \in Nat /\ o < Len(input)
  BY DEF PlaceSet
<1>2. \/ IsRange(part, "VALUE_TYPE", TypeKeywords, <<>>)
      \/ IsRange(part, "NEXT_VALUE_TYPE", TypeKeywords, <<>>)
      \/ IsRange(part, "FIRST_COL", <<Mark("*")>>, <<AnyIdentifier>>)
      \/ IsRange(part, "OPERATOR", <<Keyword("AND"), Keyword("OR")>>, <<>>)
      \/ IsRange(part, "COMPARER", Comparer, Unequal)
      \/ IsRange(part, "NEXT_COMPARER", Comparer, Unequal)
  <2>1. CASE TokensKind(Parts(p)) \/ ChoiceKind(Parts(p))
    <3>1. p.part = 1
      BY <2>1, KindStands DEF StandsOne
    <3> QED
      BY <2>1, <3>1, Zenon DEF TokensKind, ChoiceKind, Part
  <2>2. CASE ColumnKind(Parts(p))
    <3>1. p.part = 1 \/ p.part = 2
      BY <2>2, KindStands DEF StandsColumn
    <3> QED
      BY <2>2, <3>1, Zenon DEF ColumnKind, Part, IsCertain
  <2>3. CASE WhereKind(Parts(p))
    <3>1. p.part = 1 \/ p.part = 2 \/ p.part = 3
      BY <2>3, KindStands DEF StandsWhere
    <3> QED
      BY <2>3, <3>1, Zenon DEF WhereKind, Part, IsCertain
  <2>4. CASE NextKind(Parts(p))
    <3>1. p.part = 1 \/ p.part = 2 \/ p.part = 3 \/ p.part = 4
      BY <2>4, KindStands DEF StandsNext
    <3> QED
      BY <2>4, <3>1, Zenon DEF NextKind, Part, IsCertain
  <2> QED
    BY <2>1, <2>2, <2>3, <2>4, Zenon DEF StandsIn
<1> HIDE DEF o, part
<1>3. /\ \A r, t, n : IsRange(part, r, t, n) => part.range = r
      /\ {"VALUE_TYPE", "NEXT_VALUE_TYPE", "FIRST_COL", "OPERATOR", "COMPARER", "NEXT_COMPARER"}
           = RangeName
  BY Zenon DEF IsRange, RangeName
<1>4. part.range \in RangeName
  BY <1>2, <1>3, Zenon
<1>5. 0 \in LengthsOf(part.range) /\ 1 \in LengthsOf(part.range)
  BY DEF LengthsOf
<1>6. \/ RangeLength(part, input, o) \in {0, 1}
      \/ /\ part.range \in {"COMPARER", "NEXT_COMPARER"}
         /\ RangeLength(part, input, o) = CompareLength(input, o)
  <2>1. \A b : (IF b THEN 1 ELSE 0) \in {0, 1}
    OBVIOUS
  <2> QED
    BY <1>1, <1>2, <1>3, <2>1, RangeLengths, Zenon
<1>7. CompareLength(input, o) \in 0 .. 2
  BY DEF CompareLength
<1>8. RangeLength(part, input, o) \in LengthsOf(part.range)
  BY <1>5, <1>6, <1>7 DEF LengthsOf
<1> QED
  BY <1>4, <1>8 DEF o, part

LEMMA RangeToRead ==
  ASSUME NEW input, NEW p \in PlaceSet, p.phase \in {"length", "sum"}, StandsIn(p, input)
  PROVE  Part(p).range \in RangeName /\ Part(p).range # Empty
<1>1. "NEXT_VALUE_TYPE" # Empty /\ "COMPARER" # Empty /\ "OPERATOR" # Empty /\ "NEXT_COMPARER" # Empty
  BY RangesNamed DEF RangeName
<1>2. CASE TokensKind(Parts(p)) \/ ChoiceKind(Parts(p))
  <2>1. p.part = 1 /\ Part(p).range # Empty
    BY <1>2, KindStands DEF StandsOne
  <2> QED
    BY <1>2, <2>1, Zenon DEF TokensKind, ChoiceKind, Part, IsRange, RangeName
<1>3. CASE ColumnKind(Parts(p))
  <2>1. p.part = 2
    BY <1>3, KindStands DEF StandsColumn
  <2> QED
    BY <1>1, <1>3, <2>1, Zenon DEF ColumnKind, Part, IsRange, RangeName
<1>4. CASE WhereKind(Parts(p))
  <2>1. p.part = 2
    BY <1>4, KindStands DEF StandsWhere
  <2> QED
    BY <1>1, <1>4, <2>1, Zenon DEF WhereKind, Part, IsRange, RangeName
<1>5. CASE NextKind(Parts(p))
  <2>1. p.part = 1 \/ p.part = 3
    BY <1>5, KindStands DEF StandsNext
  <2> QED
    BY <1>1, <1>5, <2>1, Zenon DEF NextKind, Part, IsRange, RangeName
<1> QED
  BY <1>2, <1>3, <1>4, <1>5, Zenon DEF StandsIn

AreTokens == tokens \in [Worker -> Seq(AnyToken)]

AreLengths ==
  match_length \in [RangeName -> 0 .. 2] /\ \A r \in RangeName : match_length[r] \in LengthsOf(r)

ArePlaces ==
  /\ at \in [Worker -> PlaceSet]
  /\ \A w \in Worker : Matching(at[w]) => StandsIn(at[w], tokens[w])

AreUp ==
  /\ server \in {"up", "ended", "undefined"}
  /\ server = "up" => \A w \in Worker : at[w].phase # "failed"

AreKept ==
  /\ sent \in [Worker -> 0 .. MaxStatements]
  /\ disturbed \in [Worker -> BOOLEAN]
  /\ ast = [w \in Worker |-> ast[w]] /\ said = [w \in Worker |-> said[w]]
  /\ response = [w \in Worker |-> response[w]]

Typed == AreTokens /\ AreLengths /\ ArePlaces /\ AreUp /\ AreKept

LEMMA TypedInit == ASSUME Init PROVE Typed
<1>1. Idle \in PlaceSet /\ Idle.phase = "idle"
  BY DEF Idle, Place, PlaceSet, Phases
<1>2. AreTokens
  BY EmptySeq DEF Init, AreTokens
<1>3. AreLengths
  BY DEF Init, AreLengths, LengthsOf
<1>4. ArePlaces
  BY <1>1 DEF Init, ArePlaces, Matching
<1>5. AreUp
  BY <1>1 DEF Init, AreUp
<1>6. AreKept
  <2>1. MaxStatements \in Nat
    BY ParserAssumption
  <2>2. ast = [w \in Worker |-> ast[w]] /\ said = [w \in Worker |-> said[w]]
        /\ response = [w \in Worker |-> response[w]]
    BY Zenon DEF Init
  <2> QED
    BY <2>1, <2>2 DEF Init, AreKept
<1> QED
  BY <1>2, <1>3, <1>4, <1>5, <1>6 DEF Typed

(* A worker that moves, and what it moves to.                              *)
LEMMA Moves ==
  ASSUME ArePlaces, NEW w \in Worker, NEW q \in PlaceSet, Matching(q) => StandsIn(q, tokens[w]),
         at' = [at EXCEPT ![w] = q], tokens' = tokens
  PROVE  ArePlaces' /\ at'[w] = q /\ \A v \in Worker \ {w} : at'[v] = at[v]
<1>1. at' \in [Worker -> PlaceSet] /\ at'[w] = q /\ \A v \in Worker \ {w} : at'[v] = at[v]
  BY DEF ArePlaces
<1>2. \A v \in Worker : Matching(at'[v]) => StandsIn(at'[v], tokens'[v])
  <2> TAKE v \in Worker
  <2>1. CASE v = w
    BY <1>1, <2>1, Zenon
  <2>2. CASE v # w
    <3>1. at'[v] = at[v]
      BY <1>1, <2>2
    <3> QED
      BY <3>1, Zenon DEF ArePlaces
  <2> QED
    BY <2>1, <2>2
<1> QED
  BY <1>1, <1>2, Zenon DEF ArePlaces

LEMMA StandsMoves ==
  ASSUME Typed, server = "up", NEW w \in Worker, NEW q, Stands(q, tokens[w]),
         at' = [at EXCEPT ![w] = q], UNCHANGED <<tokens, server>>
  PROVE  ArePlaces' /\ AreUp' /\ AreTokens'
<1>1. q \in PlaceSet /\ (Matching(q) => StandsIn(q, tokens[w])) /\ q.phase # "failed"
  BY DEF Stands, Matching
<1>2. ArePlaces' /\ at'[w] = q /\ \A v \in Worker \ {w} : at'[v] = at[v]
  BY <1>1, Moves DEF Typed
<1>3. \A v \in Worker : at'[v].phase # "failed"
  BY <1>1, <1>2 DEF Typed, AreUp
<1> QED
  BY <1>2, <1>3 DEF Typed, AreUp, AreTokens

LEMMA MatchingTyped ==
  ASSUME Typed, NEW w \in Worker, MatchCertain(w) \/ RangeCheck(w) \/ ReadLength(w) \/ ReadSum(w)
  PROVE  Typed'
<1> DEFINE p == at[w]
           input == tokens[w]
<1>1. p \in PlaceSet /\ input \in Seq(AnyToken) /\ (Matching(p) => StandsIn(p, input))
      /\ Len(input) \in Nat
  BY LenProperties DEF Typed, ArePlaces, AreTokens
<1>2. Matching(p) => Goes(p, input) /\ Stands(Fail(p), input)
  BY <1>1, AllGo, FailStands
<1>3. CASE MatchCertain(w)
  <2>1. PICK q : /\ q = IF CertainCheck(Part(p).templates, input, p.offset + p.total)
                        THEN Advance(p, Len(Part(p).templates)) ELSE Fail(p)
                 /\ at' = [at EXCEPT ![w] = q]
    BY <1>3, Zenon DEF MatchCertain
  <2>2. server = "up" /\ p.phase = "match" /\ Part(p).range = Empty
    BY <1>3, Zenon DEF MatchCertain
  <2>3. Stands(q, input)
    BY <1>2, <2>1, <2>2, Zenon DEF Goes, CertainGoes, Matching
  <2>4. UNCHANGED <<server, match_length, tokens, ast, response, rows, history>>
    BY <1>3, Zenon DEF MatchCertain
  <2>5. ArePlaces' /\ AreUp' /\ AreTokens'
    BY <2>1, <2>2, <2>3, <2>4, StandsMoves, Zenon
  <2> QED
    BY <2>4, <2>5, Zenon DEF Typed, AreLengths, AreKept, history
<1>4. CASE RangeCheck(w)
  <2> DEFINE range == Part(p).range
             length == RangeLength(Part(p), input, p.offset + p.total)
  <2>1. PICK q : /\ q = IF length = 0 THEN Fail(p)
                        ELSE IF p.part = Len(Parts(p)) THEN Advance(p, 0)
                        ELSE [p EXCEPT !.phase = "length"]
                 /\ at' = [at EXCEPT ![w] = q]
    BY <1>4, Zenon DEF RangeCheck
  <2>2. /\ server = "up" /\ p.phase = "match" /\ Part(p).range # Empty
        /\ p.offset + p.total < Len(input)
        /\ match_length' = [match_length EXCEPT ![range] = length]
        /\ UNCHANGED <<server, tokens, ast, response, rows, sent, said>>
    BY <1>4, Zenon DEF RangeCheck
  <2>3. Stands(q, input)
    BY <1>2, <2>1, <2>2, Zenon DEF Goes, RangeGoes, Matching
  <2>4. ArePlaces' /\ AreUp' /\ AreTokens'
    BY <2>1, <2>2, <2>3, StandsMoves, Zenon
  <2>5. range \in RangeName /\ length \in LengthsOf(range)
    BY <1>1, <2>2, RangeFound, Zenon DEF Matching
  <2>6. AreLengths'
    <3>1. length \in 0 .. 2
      BY <2>5 DEF LengthsOf
    <3> HIDE DEF range, length
    <3> QED
      BY <2>2, <2>5, <3>1 DEF Typed, AreLengths
  <2>7. disturbed' \in [Worker -> BOOLEAN]
    <3>1. disturbed' = [v \in Worker |->
                         \/ disturbed[v]
                         \/ v # w /\ length # match_length[range] /\ range \in Unread(at[v])]
      BY <1>4, Zenon DEF RangeCheck
    <3>2. \A v \in Worker : disturbed[v] \in BOOLEAN
      BY DEF Typed, AreKept
    <3> HIDE DEF range, length
    <3> QED
      BY <3>1, <3>2
  <2>8. AreKept'
    BY <2>2, <2>7, Zenon DEF Typed, AreKept
  <2> QED
    BY <2>4, <2>6, <2>8, Zenon DEF Typed
<1>5. CASE ReadLength(w)
  <2>1. PICK q : q = Advance(p, match_length[Part(p).range]) /\ at' = [at EXCEPT ![w] = q]
    BY <1>5, Zenon DEF ReadLength
  <2>2. /\ server = "up" /\ p.phase = "length"
        /\ UNCHANGED <<server, match_length, tokens, ast, response, rows, history>>
    BY <1>5, Zenon DEF ReadLength
  <2>3. Part(p).range \in RangeName /\ match_length[Part(p).range] \in LengthsOf(Part(p).range)
    BY <1>1, <2>2, RangeToRead DEF Typed, AreLengths, Matching
  <2>4. Stands(q, input)
    BY <1>2, <2>1, <2>2, <2>3, Zenon DEF Goes, LengthGoes, Matching
  <2>5. ArePlaces' /\ AreUp' /\ AreTokens'
    BY <2>1, <2>2, <2>4, StandsMoves, Zenon
  <2> QED
    BY <2>2, <2>5, Zenon DEF Typed, AreLengths, AreKept, history
<1>6. CASE ReadSum(w)
  <2>1. PICK q : /\ q = GetMatchLength(p, p.part + 1, p.total + match_length[Part(p).range])
                 /\ at' = [at EXCEPT ![w] = q]
    BY <1>6, Zenon DEF ReadSum
  <2>2. /\ server = "up" /\ p.phase = "sum"
        /\ UNCHANGED <<server, match_length, tokens, ast, response, rows, history>>
    BY <1>6, Zenon DEF ReadSum
  <2>3. Part(p).range \in RangeName /\ match_length[Part(p).range] \in LengthsOf(Part(p).range)
    BY <1>1, <2>2, RangeToRead DEF Typed, AreLengths, Matching
  <2>4. Stands(q, input)
    BY <1>2, <2>1, <2>2, <2>3, Zenon DEF Goes, SumGoes, Matching
  <2>5. ArePlaces' /\ AreUp' /\ AreTokens'
    BY <2>1, <2>2, <2>4, StandsMoves, Zenon
  <2> QED
    BY <2>2, <2>5, Zenon DEF Typed, AreLengths, AreKept, history
<1> QED
  BY <1>3, <1>4, <1>5, <1>6

(* A worker that stops matching.                                           *)
LEMMA PhaseMoves ==
  ASSUME Typed, NEW w \in Worker, NEW f \in {"failed", "execute"},
         at' = [at EXCEPT ![w].phase = f], tokens' = tokens
  PROVE  /\ ArePlaces' /\ AreTokens' /\ at'[w].phase = f
         /\ \A v \in Worker \ {w} : at'[v] = at[v]
<1>1. PICK q : q = [at[w] EXCEPT !.phase = f]
  OBVIOUS
<1>2. at[w] \in PlaceSet
  BY DEF Typed, ArePlaces
<1>3. q \in PlaceSet /\ q.phase = f /\ ~Matching(q)
  BY <1>1, <1>2 DEF PlaceSet, Phases, Matching
<1>4. at' = [at EXCEPT ![w] = q]
  BY <1>1, Zenon
<1>5. ArePlaces' /\ at'[w] = q /\ \A v \in Worker \ {w} : at'[v] = at[v]
  BY <1>3, <1>4, Moves DEF Typed
<1> QED
  BY <1>3, <1>5 DEF Typed, AreTokens

LEMMA FailTyped ==
  ASSUME Typed, NEW w \in Worker, at' = [at EXCEPT ![w].phase = "failed"],
         server' \in {"ended", "undefined"},
         UNCHANGED <<match_length, tokens, ast, response, rows, history>>
  PROVE  Typed'
<1>1. ArePlaces' /\ AreTokens'
  BY PhaseMoves
<1>2. AreUp'
  BY DEF AreUp
<1> QED
  BY <1>1, <1>2, Zenon DEF Typed, AreLengths, AreKept, history

LEMMA BuildTyped ==
  ASSUME Typed, NEW w \in Worker, BuildAST(w)
  PROVE  Typed'
<1>1. PICK tree :
       \/ /\ tree = Thrown
          /\ server' = "ended"
          /\ at' = [at EXCEPT ![w].phase = "failed"]
          /\ UNCHANGED ast
       \/ /\ tree # Thrown
          /\ ast' = [ast EXCEPT ![w] = tree]
          /\ at' = [at EXCEPT ![w].phase = "execute"]
          /\ UNCHANGED server
  BY Zenon DEF BuildAST
<1>2. UNCHANGED <<match_length, tokens, response, rows, history>>
  BY Zenon DEF BuildAST
<1>3. CASE server' = "ended" /\ at' = [at EXCEPT ![w].phase = "failed"] /\ UNCHANGED ast
  BY <1>2, <1>3, FailTyped
<1>4. CASE /\ ast' = [ast EXCEPT ![w] = tree] /\ at' = [at EXCEPT ![w].phase = "execute"]
           /\ UNCHANGED server
  <2>1. /\ ArePlaces' /\ AreTokens' /\ at'[w].phase = "execute"
        /\ \A v \in Worker \ {w} : at'[v] = at[v]
    BY <1>2, <1>4, PhaseMoves
  <2>2. AreUp'
    BY <1>4, <2>1 DEF Typed, AreUp
  <2>3. ast = [v \in Worker |-> ast[v]]
    BY DEF Typed, AreKept
  <2>4. ast' = [v \in Worker |-> ast'[v]]
    BY <1>4, <2>3
  <2> QED
    BY <1>2, <2>1, <2>2, <2>4, Zenon DEF Typed, AreLengths, AreKept, history
<1> QED
  BY <1>1, <1>3, <1>4

LEMMA RespondTyped ==
  ASSUME Typed, NEW w \in Worker, NEW information, Respond(w, information)
  PROVE  Typed'
<1>1. Idle \in PlaceSet /\ Idle.phase = "idle" /\ ~Matching(Idle)
  BY DEF Idle, Place, PlaceSet, Phases, Matching
<1>2. /\ at' = [at EXCEPT ![w] = Idle]
      /\ response' = [response EXCEPT ![w] = information]
      /\ UNCHANGED <<server, match_length, tokens, ast, history>>
  BY Zenon DEF Respond
<1>3. ArePlaces' /\ at'[w] = Idle /\ \A v \in Worker \ {w} : at'[v] = at[v]
  BY <1>1, <1>2, Moves DEF Typed
<1>4. AreUp'
  BY <1>1, <1>2, <1>3 DEF Typed, AreUp
<1>5. response' = [v \in Worker |-> response'[v]]
  <2>1. response = [v \in Worker |-> response[v]]
    BY DEF Typed, AreKept
  <2> QED
    BY <1>2, <2>1
<1> QED
  BY <1>2, <1>3, <1>4, <1>5, Zenon DEF Typed, AreTokens, AreLengths, AreKept, history

LEMMA ReadIs ==
  ASSUME NEW words, NEW behind \in Behind, words \in Garbage \/ \E tree \in Legal : words = Statement(tree)
  PROVE  /\ words \o behind \in Seq(AnyWord) /\ words \in Seq(AnyWord) /\ behind \in Seq(AnyWord)
         /\ ReadStatement(words, behind) \in Seq(AnyToken)
<1>1. Seq(Word) \subseteq Seq(AnyWord)
  <2>1. Word \subseteq AnyWord
    BY DEF Word, AnyWord, Texts
  <2> HIDE DEF Word, AnyWord
  <2> QED
    BY <2>1
<1>2. behind \in Seq(AnyWord) /\ (words \in Garbage => words \in Seq(AnyWord))
  BY <1>1, ParserAssumption
<1>3. words \in Seq(AnyWord)
  BY <1>2, StatementIn, ParserAssumption
<1>4. words \o behind \in Seq(AnyWord)
  BY <1>2, <1>3, ConcatIn
<1> QED
  BY <1>2, <1>3, <1>4, TokenizeIs, Zenon DEF ReadStatement

LEMMA ReceiveTyped ==
  ASSUME Typed, NEW w \in Worker, NEW tree, NEW words, Receive(w, tree, words),
         words \in Garbage \/ \E t \in Legal : words = Statement(t)
  PROVE  Typed'
<1>1. PICK behind \in Behind : tokens' = [tokens EXCEPT ![w] = ReadStatement(words, behind)]
  BY Zenon DEF Receive
<1>2. PICK input : input = ReadStatement(words, behind)
  OBVIOUS
<1>3. input \in Seq(AnyToken) /\ Len(input) \in Nat
  BY <1>2, ReadIs, LenProperties
<1>4. AreTokens' /\ tokens'[w] = input /\ \A v \in Worker \ {w} : tokens'[v] = tokens[v]
  BY <1>1, <1>2, <1>3 DEF Typed, AreTokens
<1>5. PICK q : q = Place("match", 1, 1, 1, 0, 0) /\ at' = [at EXCEPT ![w] = q]
  BY Zenon DEF Receive
<1>6. Stands(q, input)
  <2>1. 1 \in 1 .. 4 /\ 1 \in 1 .. Len(ALL_PATTERNS[1]) + 1 /\ 0 \in 0 .. Len(input) + 1
        /\ ~(1 > Len(ALL_PATTERNS[1]))
    <3>1. 1 \in 1 .. 4 /\ Len(ALL_PATTERNS[1]) \in 1 .. 7
      BY PatternLengths
    <3>2. \A n \in 1 .. 7 : 1 \in 1 .. n + 1 /\ ~(1 > n)
      OBVIOUS
    <3>3. 0 \in 0 .. Len(input) + 1
      BY <1>3
    <3> QED
      BY <3>1, <3>2, <3>3, Zenon
  <2>2. EnterElement(1, 1, 0) = q
    BY <1>5, <2>1, Zenon DEF EnterElement
  <2> QED
    BY <1>3, <2>1, <2>2, EnterStands
<1>7. q \in PlaceSet /\ (Matching(q) => StandsIn(q, input)) /\ q.phase # "failed"
  BY <1>6 DEF Stands, Matching
<1>8. at' \in [Worker -> PlaceSet] /\ at'[w] = q /\ \A v \in Worker \ {w} : at'[v] = at[v]
  BY <1>5, <1>7 DEF Typed, ArePlaces
<1>9. ArePlaces'
  <2>1. \A v \in Worker : Matching(at'[v]) => StandsIn(at'[v], tokens'[v])
    <3> TAKE v \in Worker
    <3>1. CASE v = w
      BY <1>4, <1>7, <1>8, <3>1, Zenon
    <3>2. CASE v # w
      <4>1. at'[v] = at[v] /\ tokens'[v] = tokens[v]
        BY <1>4, <1>8, <3>2
      <4> QED
        BY <4>1, Zenon DEF Typed, ArePlaces
    <3> QED
      BY <3>1, <3>2
  <2> QED
    BY <1>8, <2>1, Zenon DEF ArePlaces
<1>10. AreUp'
  <2>1. UNCHANGED server
    BY Zenon DEF Receive
  <2> QED
    BY <1>7, <1>8, <2>1 DEF Typed, AreUp
<1>11. AreKept'
  <2>1. /\ sent[w] < MaxStatements
        /\ sent' = [sent EXCEPT ![w] = sent[w] + 1]
        /\ said' = [said EXCEPT ![w] = tree]
        /\ disturbed' = [disturbed EXCEPT ![w] = FALSE]
        /\ ast' = [ast EXCEPT ![w] = NoTree]
        /\ response' = [response EXCEPT ![w] = Empty]
    BY DEF Receive
  <2>2. MaxStatements \in Nat
    BY ParserAssumption
  <2>3. /\ ast = [v \in Worker |-> ast[v]] /\ said = [v \in Worker |-> said[v]]
        /\ response = [v \in Worker |-> response[v]]
        /\ sent \in [Worker -> 0 .. MaxStatements] /\ disturbed \in [Worker -> BOOLEAN]
    BY DEF Typed, AreKept
  <2>4. sent' \in [Worker -> 0 .. MaxStatements]
    BY <2>1, <2>2, <2>3
  <2>5. disturbed' \in [Worker -> BOOLEAN]
    BY <2>1, <2>3
  <2>6. /\ ast' = [v \in Worker |-> ast'[v]] /\ said' = [v \in Worker |-> said'[v]]
        /\ response' = [v \in Worker |-> response'[v]]
    BY <2>1, <2>3
  <2> QED
    BY <2>4, <2>5, <2>6 DEF AreKept
<1>12. UNCHANGED match_length
  BY Zenon DEF Receive
<1> QED
  BY <1>4, <1>9, <1>10, <1>11, <1>12, Zenon DEF Typed, AreLengths

LEMMA TypedStep == ASSUME Typed, [Next]_vars PROVE Typed'
<1>1. CASE UNCHANGED vars
  BY <1>1, Zenon DEF vars, parse, history, Typed, AreTokens, AreLengths, ArePlaces, AreUp, AreKept
<1>2. ASSUME NEW w \in Worker, NEW tree \in Legal, Receive(w, tree, Statement(tree)) PROVE Typed'
  BY <1>2, ReceiveTyped
<1>3. ASSUME NEW w \in Worker, NEW words \in Garbage, Receive(w, NoTree, words) PROVE Typed'
  BY <1>3, ReceiveTyped
<1>4. ASSUME NEW w \in Worker, WorkerStep(w) PROVE Typed'
  <2>1. CASE MatchCertain(w) \/ RangeCheck(w) \/ ReadLength(w) \/ ReadSum(w)
    BY <2>1, MatchingTyped
  <2>2. CASE ReadBeyondEnd(w)
    BY <2>2, FailTyped DEF ReadBeyondEnd
  <2>3. CASE BuildAST(w)
    BY <2>3, BuildTyped
  <2>4. CASE Dispatch(w)
    BY <2>4, RespondTyped DEF Dispatch
  <2>5. CASE InsertRow(w)
    BY <2>5, RespondTyped DEF InsertRow
  <2>6. CASE InsertNothing(w)
    BY <2>6, RespondTyped DEF InsertNothing
  <2>7. CASE ThrowInJointParamRow(w)
    BY <2>7, FailTyped DEF ThrowInJointParamRow
  <2>8. CASE MissColumn(w)
    BY <2>8, FailTyped DEF MissColumn
  <2>9. CASE ThrowInCompare(w)
    BY <2>9, FailTyped DEF ThrowInCompare
  <2> QED
    BY <1>4, <2>1, <2>2, <2>3, <2>4, <2>5, <2>6, <2>7, <2>8, <2>9, Zenon DEF WorkerStep
<1> QED
  BY <1>1, <1>2, <1>3, <1>4, Zenon DEF Next

LEMMA TypedAlways == Spec => []Typed
<1>1. Init => Typed
  BY TypedInit
<1>2. Typed /\ [Next]_vars => Typed'
  BY TypedStep
<1> QED
  BY <1>1, <1>2, PTL DEF Spec

LEMMA TypedIsOK == ASSUME Typed PROVE TypeOK
<1>1. ASSUME NEW w \in Worker
      PROVE  /\ at[w].phase \in Phases
             /\ at[w].phase \in {"match", "length", "sum"} =>
                  /\ at[w].element \in DOMAIN ALL_PATTERNS[at[w].pattern]
                  /\ at[w].part \in DOMAIN Parts(at[w])
                  /\ at[w].offset \in 0 .. Len(tokens[w]) + 1
             /\ at[w].phase = "length" => Part(at[w]).range # Empty
             /\ at[w].phase = "failed" => server # "up"
             /\ sent[w] \in 0 .. MaxStatements
  <2>1. at[w] \in PlaceSet /\ at[w].phase \in Phases
    BY DEF Typed, ArePlaces, PlaceSet
  <2>2. ASSUME Matching(at[w])
        PROVE  /\ at[w].element \in DOMAIN ALL_PATTERNS[at[w].pattern]
               /\ at[w].part \in DOMAIN Parts(at[w])
               /\ at[w].offset \in 0 .. Len(tokens[w]) + 1
    <3>1. StandsIn(at[w], tokens[w])
      BY <2>2 DEF Typed, ArePlaces
    <3>2. /\ at[w].pattern \in 1 .. 4 /\ at[w].element \in 1 .. Len(ALL_PATTERNS[at[w].pattern])
          /\ at[w].offset \in 0 .. Len(tokens[w]) + 1
      BY <3>1, Zenon DEF StandsIn
    <3>3. at[w].element \in DOMAIN ALL_PATTERNS[at[w].pattern]
      BY <3>2, PatternElements, Zenon DEF IsPattern
    <3>4. at[w].part \in 1 .. Len(Parts(at[w]))
      <4>1. CASE TokensKind(Parts(at[w])) \/ ChoiceKind(Parts(at[w]))
        BY <3>1, <4>1, KindStands DEF StandsOne, TokensKind, ChoiceKind
      <4>2. CASE ColumnKind(Parts(at[w]))
        <5>1. Len(Parts(at[w])) = 2
          BY <4>2, Zenon DEF ColumnKind
        <5> QED
          BY <3>1, <4>2, <5>1, KindStands DEF StandsColumn
      <4>3. CASE WhereKind(Parts(at[w]))
        BY <3>1, <4>3, KindStands DEF StandsWhere, WhereKind
      <4>4. CASE NextKind(Parts(at[w]))
        BY <3>1, <4>4, KindStands DEF StandsNext, NextKind
      <4> QED
        BY <3>1, <4>1, <4>2, <4>3, <4>4, Zenon DEF StandsIn
    <3>5. DOMAIN Parts(at[w]) = 1 .. Len(Parts(at[w]))
      <4>1. IsElement(ALL_PATTERNS[at[w].pattern][at[w].element])
        BY <3>2, PatternElements, Zenon DEF IsPattern
      <4> QED
        BY <4>1, PartsDomain, Zenon DEF Parts
    <3> QED
      BY <3>2, <3>3, <3>4, <3>5, Zenon
  <2>3. at[w].phase = "length" => Part(at[w]).range # Empty
    BY <2>1, RangeToRead DEF Typed, ArePlaces, Matching
  <2>4. (at[w].phase = "failed" => server # "up") /\ sent[w] \in 0 .. MaxStatements
    BY DEF Typed, AreUp, AreKept
  <2> QED
    BY <2>1, <2>2, <2>3, <2>4, Zenon DEF Matching
<1>2. server \in {"up", "ended", "undefined"} /\ match_length \in [RangeName -> 0 .. 2]
  BY DEF Typed, AreUp, AreLengths
<1> QED
  BY <1>1, <1>2, Zenon DEF TypeOK

(* The type invariant, for any workers and statements: whatever the        *)
(* workers do to each other's lengths, each stays within the patterns and, *)
(* but for one token, within its own statement.                            *)
THEOREM ParserTypeCorrect == Spec => []TypeOK
<1>1. Typed => TypeOK
  BY TypedIsOK
<1> QED
  BY <1>1, TypedAlways, PTL

LEMMA PlaceIs ==
  \A phase, pattern, element, part, offset, total :
    /\ Place(phase, pattern, element, part, offset, total).phase = phase
    /\ Place(phase, pattern, element, part, offset, total).pattern = pattern
    /\ Place(phase, pattern, element, part, offset, total).element = element
    /\ Place(phase, pattern, element, part, offset, total).part = part
    /\ Place(phase, pattern, element, part, offset, total).offset = offset
    /\ Place(phase, pattern, element, part, offset, total).total = total
BY DEF Place

(* The tokens are of the statement that the user meant.                    *)
Meant(w) ==
  \/ said[w] = NoTree
  \/ /\ said[w] \in Legal
     /\ \E behind \in Behind : tokens[w] = ReadStatement(Statement(said[w]), behind)

(* Behind its first element, the statement begins as the pattern does.     *)
BeganAt(p, input) ==
  /\ Matching(p) /\ p.element = 1 => p.offset = 0
  /\ /\ p.phase \in {"match", "length", "sum", "build", "execute"}
     /\ p.pattern \in 1 .. 4
     /\ Matching(p) => p.element # 1
     => CertainCheck(FirstTokens(p.pattern), input, 0)

Begins(q, input) == q.phase \in {"match", "length", "sum", "build"} /\ BeganAt(q, input)

Built(w) ==
  at[w].phase = "execute" => ast[w] = BuildNode(tokens[w], NodeType(at[w]))

LEMMA EnterBegins ==
  ASSUME NEW input, NEW pattern \in 1 .. 4, NEW element \in Nat, element > 1, NEW offset,
         CertainCheck(FirstTokens(pattern), input, 0)
  PROVE  Begins(EnterElement(pattern, element, offset), input)
<1>1. element # 1
  OBVIOUS
<1>2. PICK q : q = EnterElement(pattern, element, offset)
  OBVIOUS
<1>3. \/ q = Place("build", pattern, 1, 1, 0, 0)
      \/ q = Place("match", pattern, element, 1, offset, 0)
  BY <1>2, Zenon DEF EnterElement
<1>4. q.pattern = pattern /\ (q.phase = "build" \/ (q.phase = "match" /\ q.element = element))
  <2>1. CASE q = Place("build", pattern, 1, 1, 0, 0)
    <3>1. q.phase = "build" /\ q.pattern = pattern
      BY <2>1, PlaceIs
    <3> QED
      BY <3>1
  <2>2. CASE q = Place("match", pattern, element, 1, offset, 0)
    <3>1. q.phase = "match" /\ q.pattern = pattern /\ q.element = element
      BY <2>2, PlaceIs
    <3> QED
      BY <3>1
  <2> QED
    BY <1>3, <2>1, <2>2
<1>5. "build" \notin {"match", "length", "sum"}
  OBVIOUS
<1>6. BeganAt(q, input)
  BY <1>1, <1>4, <1>5, Zenon DEF BeganAt, Matching
<1> QED
  BY <1>2, <1>4, <1>6, Zenon DEF Begins

LEMMA EnterPatternBegins ==
  ASSUME NEW input, NEW pattern \in 1 .. 5
  PROVE  Begins(EnterPattern(pattern), input)
<1>1. PICK q : q = EnterPattern(pattern)
  OBVIOUS
<1>2. \/ q = Place("build", pattern, 1, 1, 0, 0) /\ pattern > Len(ALL_PATTERNS)
      \/ q = EnterElement(pattern, 1, 0) /\ ~(pattern > Len(ALL_PATTERNS))
  BY <1>1, Zenon DEF EnterPattern
<1>3. CASE q = Place("build", pattern, 1, 1, 0, 0) /\ pattern > Len(ALL_PATTERNS)
  <2>1. q.phase = "build" /\ q.pattern = pattern /\ pattern \notin 1 .. 4
    BY <1>3, PatternsAre DEF Place
  <2>2. "build" \notin {"match", "length", "sum"}
    OBVIOUS
  <2> QED
    BY <1>1, <2>1, <2>2, Zenon DEF BeganAt, Matching, Begins
<1>4. CASE q = EnterElement(pattern, 1, 0) /\ ~(pattern > Len(ALL_PATTERNS))
  <2>1. pattern \in 1 .. 4
    BY <1>4, PatternsAre
  <2>2. ~(1 > Len(ALL_PATTERNS[pattern]))
    BY <2>1, LongEnough, Zenon
  <2>3. q = Place("match", pattern, 1, 1, 0, 0)
    BY <1>4, <2>2, Zenon DEF EnterElement
  <2>4. q.phase = "match" /\ q.element = 1 /\ q.offset = 0
    BY <2>3 DEF Place
  <2>5. Matching(q)
    BY <2>4 DEF Matching
  <2> QED
    BY <1>1, <2>4, <2>5, Zenon DEF BeganAt, Begins
<1> QED
  BY <1>2, <1>3, <1>4

LEMMA FailBegins ==
  ASSUME NEW input, NEW p, StandsIn(p, input), Matching(p), BeganAt(p, input)
  PROVE  Begins(Fail(p), input)
<1>1. p.pattern \in 1 .. 4 /\ p.pattern + 1 \in 1 .. 5 /\ p.element \in Nat /\ p.element >= 1
      /\ p.element + 1 \in Nat
  BY PatternLengths DEF StandsIn
<1>2. CASE ALL_PATTERNS[p.pattern][p.element].necessary
  BY <1>1, <1>2, EnterPatternBegins, Zenon DEF Fail
<1>3. CASE ~ALL_PATTERNS[p.pattern][p.element].necessary
  <2>1. p.element # 1
    BY <1>1, <1>3, FirstTokensAre, Zenon
  <2>2. p.element + 1 > 1
    BY <1>1, <2>1
  <2>3. CertainCheck(FirstTokens(p.pattern), input, 0)
    BY <1>1, <2>1, Zenon DEF BeganAt, Matching
  <2>4. Fail(p) = EnterElement(p.pattern, p.element + 1, p.offset)
    BY <1>3, Zenon DEF Fail
  <2> QED
    BY <1>1, <2>2, <2>3, <2>4, EnterBegins, Zenon
<1> QED
  BY <1>2, <1>3

LEMMA TakenBegins ==
  ASSUME NEW input, NEW p, StandsIn(p, input), NEW total,
         CertainCheck(FirstTokens(p.pattern), input, 0)
  PROVE  Begins(Taken(p, total), input)
<1>1. p.pattern \in 1 .. 4 /\ p.element \in Nat /\ p.element >= 1
  BY PatternLengths DEF StandsIn
<1>2. PICK e : e = IF ALL_PATTERNS[p.pattern][p.element].necessary THEN p.element + 1 ELSE p.element
  OBVIOUS
<1>3. e \in Nat /\ e > 1
  <2>1. CASE ALL_PATTERNS[p.pattern][p.element].necessary
    BY <1>1, <1>2, <2>1
  <2>2. CASE ~ALL_PATTERNS[p.pattern][p.element].necessary
    <3>1. p.element # 1
      BY <1>1, <2>2, FirstTokensAre, Zenon
    <3> QED
      BY <1>1, <1>2, <2>2, <3>1
  <2> QED
    BY <2>1, <2>2
<1>4. Taken(p, total) = EnterElement(p.pattern, e, p.offset + total)
  BY <1>2, Zenon DEF Taken
<1> QED
  BY <1>1, <1>3, <1>4, EnterBegins, Zenon

IsWithinElement(q, p) ==
  /\ q.phase \in {"match", "length", "sum"}
  /\ q.pattern = p.pattern /\ q.element = p.element /\ q.offset = p.offset

LEMMA SumForms ==
  ASSUME NEW p, NEW k, NEW total
  PROVE  \/ GetMatchLength(p, k, total) = Taken(p, total)
         \/ IsWithinElement(GetMatchLength(p, k, total), p)
<1> DEFINE ranges == {i \in k .. Len(Parts(p)) : Parts(p)[i].range # Empty}
           q == Place("sum", p.pattern, p.element, CHOOSE i \in ranges : \A j \in ranges : i <= j,
                      p.offset, total)
<1>1. GetMatchLength(p, k, total) = Taken(p, total) \/ GetMatchLength(p, k, total) = q
  BY Zenon DEF GetMatchLength
<1>2. q.phase = "sum" /\ q.pattern = p.pattern /\ q.element = p.element /\ q.offset = p.offset
  BY PlaceIs
<1>3. IsWithinElement(q, p)
  BY <1>2, Zenon DEF IsWithinElement
<1> QED
  BY <1>1, <1>3, Zenon

LEMMA AdvanceForms ==
  ASSUME NEW p, NEW l
  PROVE  (\E total : Advance(p, l) = Taken(p, total)) \/ IsWithinElement(Advance(p, l), p)
<1>1. CASE p.part = Len(Parts(p))
  <2>1. Advance(p, l) = GetMatchLength(p, 1, CertainLength(Parts(p)))
    BY <1>1, Zenon DEF Advance
  <2> QED
    BY <2>1, SumForms, Zenon
<1>2. CASE p.part # Len(Parts(p))
  <2>1. Advance(p, l) = Place("match", p.pattern, p.element, p.part + 1, p.offset, p.total + l)
    BY <1>2, Zenon DEF Advance
  <2>2. PICK q : q = Place("match", p.pattern, p.element, p.part + 1, p.offset, p.total + l)
    OBVIOUS
  <2>3. q.phase = "match" /\ q.pattern = p.pattern /\ q.element = p.element /\ q.offset = p.offset
    BY <2>2, PlaceIs
  <2> QED
    BY <2>1, <2>2, <2>3, Zenon DEF IsWithinElement
<1> QED
  BY <1>1, <1>2

LEMMA WithinBegins ==
  ASSUME NEW input, NEW p, NEW q, StandsIn(p, input), Matching(p), BeganAt(p, input), IsWithinElement(q, p)
  PROVE  Begins(q, input)
<1>1. Matching(q) /\ q.phase \in {"match", "length", "sum", "build"}
  BY DEF IsWithinElement, Matching
<1>2. p.phase \in {"match", "length", "sum", "build", "execute"}
  BY DEF Matching
<1>3. BeganAt(q, input)
  BY <1>1, <1>2, Zenon DEF IsWithinElement, BeganAt
<1> QED
  BY <1>1, <1>3, Zenon DEF Begins

LEMMA MatchingBegins ==
  ASSUME NEW input \in Seq(AnyToken), NEW p \in PlaceSet, StandsIn(p, input), Matching(p), BeganAt(p, input),
         p.phase = "match" /\ Part(p).range = Empty
           => CertainCheck(Part(p).templates, input, p.offset + p.total)
  PROVE  /\ \A l : Begins(Advance(p, l), input)
         /\ \A l : p.phase = "sum" => Begins(GetMatchLength(p, p.part + 1, l), input)
<1>1. p.pattern \in 1 .. 4
  BY Zenon DEF StandsIn
<1>2. CertainCheck(FirstTokens(p.pattern), input, 0)
  <2>1. CASE p.element # 1
    BY <1>1, <2>1, Zenon DEF BeganAt, Matching
  <2>2. CASE p.element = 1
    <3>1. TokensKind(Parts(p))
      BY <1>1, <2>2, FirstTokensAre, Zenon DEF Parts
    <3>2. p.part = 1 /\ p.total = 0 /\ Part(p).range = Empty
      BY <3>1, KindStands, TokensAdvance, Zenon DEF StandsOne
    <3>3. p.phase = "match"
      BY <3>1, <3>2, KindStands, Zenon DEF StandsOne
    <3>4. p.offset = 0
      BY <2>2, Zenon DEF BeganAt
    <3>5. p.offset + p.total = 0
      BY <3>2, <3>4
    <3>6. Part(p).templates = FirstTokens(p.pattern)
      BY <2>2, <3>2, Zenon DEF Part, Parts, FirstTokens
    <3> QED
      BY <3>2, <3>3, <3>5, <3>6, Zenon
  <2> QED
    BY <2>1, <2>2
<1>3. \A total : Begins(Taken(p, total), input)
  BY <1>2, TakenBegins, Zenon
<1>4. \A q : IsWithinElement(q, p) => Begins(q, input)
  BY WithinBegins, Zenon
<1>5. \A l : Begins(Advance(p, l), input)
  BY <1>3, <1>4, AdvanceForms, Zenon
<1>6. \A l : Begins(GetMatchLength(p, p.part + 1, l), input)
  BY <1>3, <1>4, SumForms, Zenon
<1> QED
  BY <1>5, <1>6

-----------------------------------------------------------------------------
(* The invariant behind RowIsStatement.                                    *)
Known ==
  \A w \in Worker : Meant(w) /\ BeganAt(at[w], tokens[w]) /\ Built(w)

LEMMA KnownInit == ASSUME Init PROVE Known
<1> SUFFICES ASSUME NEW w \in Worker
             PROVE  Meant(w) /\ BeganAt(at[w], tokens[w]) /\ Built(w)
  BY Zenon DEF Known
<1>1. Meant(w)
  BY Zenon DEF Init, Meant
<1>2. at[w] = Idle
  BY DEF Init
<1>3. Idle.phase = "idle"
  BY DEF Idle, Place
<1>4. at[w].phase \notin {"match", "length", "sum", "build", "execute"} /\ ~Matching(at[w])
      /\ at[w].phase # "execute"
  BY <1>2, <1>3 DEF Matching
<1> QED
  BY <1>1, <1>4, Zenon DEF BeganAt, Built

(* Other workers keep what they know.                                      *)
LEMMA OthersKnow ==
  ASSUME Known, NEW w \in Worker, Meant(w)', BeganAt(at'[w], tokens'[w]), Built(w)',
         \A v \in Worker \ {w} : /\ at'[v] = at[v] /\ tokens'[v] = tokens[v] /\ ast'[v] = ast[v]
                                 /\ said'[v] = said[v]
  PROVE  Known'
<1> SUFFICES ASSUME NEW v \in Worker
             PROVE  Meant(v)' /\ BeganAt(at'[v], tokens'[v]) /\ Built(v)'
  BY Zenon DEF Known
<1>1. CASE v = w
  BY <1>1, Zenon
<1>2. CASE v # w
  <2>1. /\ at'[v] = at[v] /\ tokens'[v] = tokens[v] /\ ast'[v] = ast[v] /\ said'[v] = said[v]
    BY <1>2
  <2>2. Meant(v) /\ BeganAt(at[v], tokens[v]) /\ Built(v)
    BY Zenon DEF Known
  <2> QED
    BY <2>1, <2>2, Zenon DEF Meant, Built
<1> QED
  BY <1>1, <1>2

(* A worker that matches goes on, or has a pattern or none.               *)
LEMMA MatchingGoes ==
  ASSUME Typed, Known, NEW w \in Worker,
         MatchCertain(w) \/ RangeCheck(w) \/ ReadLength(w) \/ ReadSum(w)
  PROVE  /\ \E q : at' = [at EXCEPT ![w] = q] /\ Begins(q, tokens[w])
         /\ UNCHANGED <<tokens, ast, said>>
<1> DEFINE p == at[w]
           input == tokens[w]
<1>1. /\ p \in PlaceSet /\ input \in Seq(AnyToken) /\ Len(input) \in Nat
      /\ at \in [Worker -> PlaceSet]
  BY LenProperties DEF Typed, ArePlaces, AreTokens
<1>2. Matching(p) /\ StandsIn(p, input) /\ BeganAt(p, input)
  <2>1. p.phase \in {"match", "length", "sum"}
    BY DEF MatchCertain, RangeCheck, ReadLength, ReadSum
  <2> QED
    BY <2>1, Zenon DEF Matching, Typed, ArePlaces, Known
<1>3. UNCHANGED <<tokens, ast, said>>
  BY Zenon DEF MatchCertain, RangeCheck, ReadLength, ReadSum, history
<1>4. Begins(Fail(p), input)
  BY <1>2, FailBegins
<1>5. p.pattern \in 1 .. 4
  BY <1>2, Zenon DEF StandsIn
<1>6. \E q : at' = [at EXCEPT ![w] = q] /\ Begins(q, input)
  <2>1. CASE MatchCertain(w)
    <3>1. \/ /\ at' = [at EXCEPT ![w] = Advance(p, Len(Part(p).templates))]
             /\ CertainCheck(Part(p).templates, input, p.offset + p.total)
          \/ at' = [at EXCEPT ![w] = Fail(p)]
      BY <2>1, Zenon DEF MatchCertain
    <3>2. CASE at' = [at EXCEPT ![w] = Fail(p)]
      BY <1>4, <3>2
    <3>3. CASE /\ at' = [at EXCEPT ![w] = Advance(p, Len(Part(p).templates))]
               /\ CertainCheck(Part(p).templates, input, p.offset + p.total)
      <4>1. \A l : Begins(Advance(p, l), input)
        BY <1>1, <1>2, <3>3, MatchingBegins, Zenon
      <4> QED
        BY <3>3, <4>1
    <3> QED
      BY <3>1, <3>2, <3>3
  <2>2. CASE RangeCheck(w)
    <3>1. PICK q : q = [p EXCEPT !.phase = "length"]
      OBVIOUS
    <3>2. /\ Part(p).range # Empty
          /\ \/ at' = [at EXCEPT ![w] = Fail(p)]
             \/ at' = [at EXCEPT ![w] = Advance(p, 0)]
             \/ at' = [at EXCEPT ![w] = q]
      BY <2>2, <3>1, Zenon DEF RangeCheck
    <3>3. IsWithinElement(q, p)
      BY <1>1, <3>1, LengthFields DEF IsWithinElement
    <3>4. \A l : Begins(Advance(p, l), input)
      BY <1>1, <1>2, <3>2, MatchingBegins, Zenon
    <3>5. Begins(q, input)
      BY <1>2, <3>3, WithinBegins, Zenon
    <3> QED
      BY <1>4, <3>2, <3>4, <3>5, Zenon
  <2>3. CASE ReadLength(w)
    <3>1. PICK l : at' = [at EXCEPT ![w] = Advance(p, l)]
      BY <2>3, Zenon DEF ReadLength
    <3>2. p.phase # "match"
      BY <2>3 DEF ReadLength
    <3> QED
      BY <1>1, <1>2, <3>1, <3>2, MatchingBegins, Zenon
  <2>4. CASE ReadSum(w)
    <3>1. PICK l : at' = [at EXCEPT ![w] = GetMatchLength(p, p.part + 1, l)]
      BY <2>4, Zenon DEF ReadSum
    <3>2. p.phase = "sum" /\ p.phase # "match"
      BY <2>4 DEF ReadSum
    <3> QED
      BY <1>1, <1>2, <3>1, <3>2, MatchingBegins, Zenon
  <2> QED
    BY <2>1, <2>2, <2>3, <2>4
<1> QED
  BY <1>3, <1>6

LEMMA MatchingKnows ==
  ASSUME Typed, Known, NEW w \in Worker,
         MatchCertain(w) \/ RangeCheck(w) \/ ReadLength(w) \/ ReadSum(w)
  PROVE  Known'
<1>1. at \in [Worker -> PlaceSet]
  BY DEF Typed, ArePlaces
<1>2. UNCHANGED <<tokens, ast, said>>
  BY MatchingGoes
<1>3. PICK q : at' = [at EXCEPT ![w] = q] /\ Begins(q, tokens[w])
  BY MatchingGoes
<1>4. at'[w] = q /\ \A v \in Worker \ {w} : at'[v] = at[v]
  BY <1>1, <1>3
<1>5. q.phase # "execute" /\ BeganAt(q, tokens[w])
  BY <1>3 DEF Begins
<1>6. Meant(w)' /\ Built(w)' /\ BeganAt(at'[w], tokens'[w])
  <2>1. Meant(w)
    BY Zenon DEF Known
  <2> QED
    BY <1>2, <1>4, <1>5, <2>1, Zenon DEF Meant, Built
<1> QED
  BY <1>2, <1>4, <1>6, OthersKnow, Zenon

LEMMA PhaseKnows ==
  ASSUME Typed, NEW w \in Worker, NEW f, at' = [at EXCEPT ![w].phase = f]
  PROVE  /\ at'[w].phase = f /\ at'[w].pattern = at[w].pattern
         /\ \A v \in Worker \ {w} : at'[v] = at[v]
<1>1. at \in [Worker -> PlaceSet] /\ at[w] \in PlaceSet
  BY DEF Typed, ArePlaces
<1>2. PICK q : q = [at[w] EXCEPT !.phase = f]
  OBVIOUS
<1>3. q.phase = f /\ q.pattern = at[w].pattern
  BY <1>1, <1>2 DEF PlaceSet
<1>4. at' = [at EXCEPT ![w] = q]
  BY <1>2, Zenon
<1>5. at'[w] = q /\ \A v \in Worker \ {w} : at'[v] = at[v]
  BY <1>1, <1>4
<1> QED
  BY <1>3, <1>5

LEMMA FailKnows ==
  ASSUME Typed, Known, NEW w \in Worker, at' = [at EXCEPT ![w].phase = "failed"],
         UNCHANGED <<tokens, ast, said>>
  PROVE  Known'
<1>1. at'[w].phase = "failed" /\ \A v \in Worker \ {w} : at'[v] = at[v]
  BY PhaseKnows
<1>2. ~Matching(at'[w]) /\ at'[w].phase \notin {"match", "length", "sum", "build", "execute"}
      /\ at'[w].phase # "execute"
  BY <1>1 DEF Matching
<1>3. BeganAt(at'[w], tokens'[w]) /\ Built(w)'
  BY <1>2, Zenon DEF BeganAt, Built
<1>4. Meant(w)'
  BY Zenon DEF Known, Meant
<1> QED
  BY <1>1, <1>3, <1>4, OthersKnow, Zenon

LEMMA RespondKnows ==
  ASSUME Typed, Known, NEW w \in Worker, NEW information, Respond(w, information)
  PROVE  Known'
<1>1. at' = [at EXCEPT ![w] = Idle] /\ UNCHANGED <<tokens, ast, said>>
  BY Zenon DEF Respond, history
<1>2. at'[w] = Idle /\ \A v \in Worker \ {w} : at'[v] = at[v]
  BY <1>1 DEF Typed, ArePlaces
<1>3. Idle.phase = "idle"
  BY DEF Idle, Place
<1>4. ~Matching(at'[w]) /\ at'[w].phase \notin {"match", "length", "sum", "build", "execute"}
      /\ at'[w].phase # "execute"
  BY <1>2, <1>3 DEF Matching
<1>5. BeganAt(at'[w], tokens'[w]) /\ Built(w)'
  BY <1>4, Zenon DEF BeganAt, Built
<1>6. Meant(w)'
  BY <1>1, Zenon DEF Known, Meant
<1> QED
  BY <1>1, <1>2, <1>5, <1>6, OthersKnow, Zenon

LEMMA BuildKnows ==
  ASSUME Typed, Known, NEW w \in Worker, BuildAST(w)
  PROVE  Known'
<1>1. PICK tree : tree = BuildNode(tokens[w], NodeType(at[w]))
  OBVIOUS
<1>2. \/ /\ at' = [at EXCEPT ![w].phase = "failed"]
         /\ UNCHANGED ast
      \/ /\ ast' = [ast EXCEPT ![w] = tree]
         /\ at' = [at EXCEPT ![w].phase = "execute"]
  BY <1>1, Zenon DEF BuildAST
<1>3. at[w].phase = "build" /\ UNCHANGED <<tokens, said>>
  BY Zenon DEF BuildAST, history
<1>4. CASE at' = [at EXCEPT ![w].phase = "failed"] /\ UNCHANGED ast
  BY <1>3, <1>4, FailKnows
<1>5. CASE ast' = [ast EXCEPT ![w] = tree] /\ at' = [at EXCEPT ![w].phase = "execute"]
  <2>1. /\ at'[w].phase = "execute" /\ at'[w].pattern = at[w].pattern
        /\ \A v \in Worker \ {w} : at'[v] = at[v]
    BY <1>5, PhaseKnows
  <2>2. ast = [v \in Worker |-> ast[v]]
    BY DEF Typed, AreKept
  <2>3. ast'[w] = tree /\ \A v \in Worker \ {w} : ast'[v] = ast[v]
    BY <1>5, <2>2
  <2>4. ~Matching(at'[w]) /\ ~Matching(at[w])
        /\ at[w].phase \in {"match", "length", "sum", "build", "execute"}
    BY <1>3, <2>1 DEF Matching
  <2>5. BeganAt(at[w], tokens[w]) /\ Meant(w)
    BY Zenon DEF Known
  <2>6. BeganAt(at'[w], tokens'[w])
    BY <1>3, <2>1, <2>4, <2>5, Zenon DEF BeganAt
  <2>7. NodeType(at'[w]) = NodeType(at[w])
    BY <2>1, Zenon DEF NodeType
  <2>8. Meant(w)' /\ Built(w)'
    BY <1>1, <1>3, <2>3, <2>5, <2>7, Zenon DEF Meant, Built
  <2> QED
    BY <1>3, <2>1, <2>3, <2>6, <2>8, OthersKnow, Zenon
<1> QED
  BY <1>2, <1>4, <1>5

LEMMA ReceiveKnows ==
  ASSUME Typed, Known, NEW w \in Worker, NEW tree, NEW words, Receive(w, tree, words),
         tree = NoTree \/ (tree \in Legal /\ words = Statement(tree))
  PROVE  Known'
<1>1. PICK behind \in Behind : tokens' = [tokens EXCEPT ![w] = ReadStatement(words, behind)]
  BY Zenon DEF Receive
<1>2. PICK q : q = Place("match", 1, 1, 1, 0, 0) /\ at' = [at EXCEPT ![w] = q]
  BY Zenon DEF Receive
<1>3. said' = [said EXCEPT ![w] = tree] /\ ast' = [ast EXCEPT ![w] = NoTree]
  BY Zenon DEF Receive
<1>4. /\ tokens \in [Worker -> Seq(AnyToken)] /\ at \in [Worker -> PlaceSet]
      /\ ast = [v \in Worker |-> ast[v]] /\ said = [v \in Worker |-> said[v]]
  BY DEF Typed, AreTokens, ArePlaces, AreKept
<1>5. PICK input : input = ReadStatement(words, behind)
  OBVIOUS
<1>6. /\ tokens'[w] = input /\ at'[w] = q /\ said'[w] = tree
      /\ \A v \in Worker \ {w} : /\ at'[v] = at[v] /\ tokens'[v] = tokens[v] /\ ast'[v] = ast[v]
                                 /\ said'[v] = said[v]
  BY <1>1, <1>2, <1>3, <1>4, <1>5
<1>7. q.phase = "match" /\ q.element = 1 /\ q.offset = 0
  BY <1>2, PlaceIs
<1>8. Matching(q) /\ q.phase # "execute"
  BY <1>7 DEF Matching
<1>9. BeganAt(q, input)
  BY <1>7, <1>8, Zenon DEF BeganAt
<1>10. Meant(w)'
  BY <1>5, <1>6, Zenon DEF Meant
<1>11. BeganAt(at'[w], tokens'[w]) /\ Built(w)'
  BY <1>6, <1>8, <1>9, Zenon DEF Built
<1> QED
  BY <1>6, <1>10, <1>11, OthersKnow, Zenon

LEMMA KnownStep == ASSUME Typed, Known, [Next]_vars PROVE Known'
<1>1. CASE UNCHANGED vars
  <2>1. UNCHANGED <<tokens, ast, said, at>>
    BY <1>1, Zenon DEF vars, parse, history
  <2> QED
    BY <2>1, Zenon DEF Known, Meant, Built
<1>2. ASSUME NEW w \in Worker, NEW tree \in Legal, Receive(w, tree, Statement(tree)) PROVE Known'
  BY <1>2, ReceiveKnows
<1>3. ASSUME NEW w \in Worker, NEW words \in Garbage, Receive(w, NoTree, words) PROVE Known'
  BY <1>3, ReceiveKnows
<1>4. ASSUME NEW w \in Worker, WorkerStep(w) PROVE Known'
  <2>1. CASE MatchCertain(w) \/ RangeCheck(w) \/ ReadLength(w) \/ ReadSum(w)
    BY <2>1, MatchingKnows
  <2>2. CASE ReadBeyondEnd(w)
    BY <2>2, FailKnows DEF ReadBeyondEnd, history
  <2>3. CASE BuildAST(w)
    BY <2>3, BuildKnows
  <2>4. CASE Dispatch(w)
    BY <2>4, RespondKnows DEF Dispatch
  <2>5. CASE InsertRow(w)
    BY <2>5, RespondKnows DEF InsertRow
  <2>6. CASE InsertNothing(w)
    BY <2>6, RespondKnows DEF InsertNothing
  <2>7. CASE ThrowInJointParamRow(w)
    BY <2>7, FailKnows DEF ThrowInJointParamRow, history
  <2>8. CASE MissColumn(w)
    BY <2>8, FailKnows DEF MissColumn, history
  <2>9. CASE ThrowInCompare(w)
    BY <2>9, FailKnows DEF ThrowInCompare, history
  <2> QED
    BY <1>4, <2>1, <2>2, <2>3, <2>4, <2>5, <2>6, <2>7, <2>8, <2>9, Zenon DEF WorkerStep
<1> QED
  BY <1>1, <1>2, <1>3, <1>4, Zenon DEF Next

(* An INSERT that a worker executes is the one the user meant, if it was a *)
(* legal statement.                                                        *)
LEMMA ExecutedInsert ==
  ASSUME Typed, Known, NEW w \in Worker, at[w].phase = "execute",
         ast[w].node = "INSERT_INTO_TABLE_NODE", said[w] # NoTree
  PROVE  ast[w] = said[w] /\ IsInsert(said[w])
<1>1. ast[w] = BuildNode(tokens[w], NodeType(at[w]))
  BY Zenon DEF Known, Built
<1>2. at[w].pattern \in 1 .. 5 /\ tokens[w] \in Seq(AnyToken)
  BY DEF Typed, ArePlaces, AreTokens, PlaceSet
<1>3. at[w].pattern = 3
  <2>1. /\ "INSERT_INTO_TABLE_NODE" # "CREATE_DATABASE_NODE" /\ "INSERT_INTO_TABLE_NODE" # "CREATE_TABLE_NODE"
        /\ "INSERT_INTO_TABLE_NODE" # "SELECT_FROM_ONE_TABLE_NODE"
        /\ "INSERT_INTO_TABLE_NODE" # "UNSUPPORT_NODE" /\ "INSERT_INTO_TABLE_NODE" # "THROWN"
    OBVIOUS
  <2>2. PICK p, input : p = at[w] /\ input = tokens[w]
    OBVIOUS
  <2>3. p.pattern = 1 \/ p.pattern = 2 \/ p.pattern = 3 \/ p.pattern = 4 \/ p.pattern = 5
    BY <1>2, <2>2, NodeTypes, Zenon
  <2>4. ast[w].node = BuildNode(input, NodeType(p)).node
    BY <1>1, <2>2, Zenon
  <2>5. p.pattern # 1
    <3>1. p.pattern = 1 => BuildNode(input, NodeType(p)) = CreateDatabaseSql(input)
      BY <1>2, <2>2, NodeTypes, NodesBuilt, Zenon
    <3> QED
      BY <2>1, <2>4, <3>1, NodesAre, Zenon
  <2>6. p.pattern # 2
    <3>1. p.pattern = 2 => BuildNode(input, NodeType(p)) = CreateTableSql(input)
      BY <1>2, <2>2, NodeTypes, NodesBuilt, Zenon
    <3> QED
      BY <2>1, <2>4, <3>1, NodesAre, Zenon
  <2>7. p.pattern # 4
    <3>1. p.pattern = 4 => BuildNode(input, NodeType(p)) = SelectFromOneTableSql(input)
      BY <1>2, <2>2, NodeTypes, NodesBuilt, Zenon
    <3> QED
      BY <2>1, <2>4, <3>1, NodesAre, Zenon
  <2>8. p.pattern # 5
    <3>1. p.pattern = 5 => BuildNode(input, NodeType(p)) = NoTree
      BY <1>2, <2>2, NodeTypes, NodesBuilt, Zenon
    <3> QED
      BY <2>1, <2>4, <3>1, NodesAre, Zenon
  <2> QED
    BY <2>2, <2>3, <2>5, <2>6, <2>7, <2>8
<1>4. NodeType(at[w]) = "INSERT_INTO_TABLE_NODE"
  BY <1>2, <1>3, NodeTypes, Zenon
<1>5. ast[w] = InsertIntoTableSql(tokens[w])
  BY <1>1, <1>4, NodesBuilt, Zenon
<1>6. said[w] \in Legal /\ \E behind \in Behind : tokens[w] = ReadStatement(Statement(said[w]), behind)
  BY Zenon DEF Known, Meant
<1>7. PICK behind \in Behind : tokens[w] = Tokenize(Statement(said[w]) \o behind)
  BY <1>6, Zenon DEF ReadStatement
<1>8. behind \in Seq(AnyWord) /\ said[w] \in Trees
  BY <1>6, ReadIs, ParserAssumption
<1>9. CertainCheck(FirstTokens(3), tokens[w], 0)
  <2>1. 3 \in 1 .. 4 /\ ~Matching(at[w]) /\ at[w].phase \in {"match", "length", "sum", "build", "execute"}
    BY DEF Matching
  <2>2. BeganAt(at[w], tokens[w])
    BY Zenon DEF Known
  <2> QED
    BY <1>3, <2>1, <2>2, Zenon DEF BeganAt
<1>10. PICK tree, input : tree = said[w] /\ input = tokens[w]
  OBVIOUS
<1>11. IsInsert(tree) /\ input # <<>>
  <2>1. 3 \in 1 .. 4
    OBVIOUS
  <2> QED
    BY <1>2, <1>7, <1>8, <1>9, <1>10, <2>1, BeginningsTell
<1>12. /\ InsertTokens(input, tree) /\ Len(tree.columns) \in Nat \ {0}
       /\ Len(tree.values) \in Nat \ {0}
  BY <1>7, <1>8, <1>10, <1>11, InsertLies
<1>13. InsertIntoTableSql(input) = tree
  BY <1>2, <1>8, <1>10, <1>11, <1>12, InsertRead
<1> QED
  BY <1>5, <1>10, <1>11, <1>13

-----------------------------------------------------------------------------
(* What a row holds.                                                       *)
LEMMA LeftmostIs ==
  ASSUME NEW S \in SUBSET Nat, S # {}
  PROVE  Leftmost(S) \in S /\ \A j \in S : Leftmost(S) <= j
<1>1. \E i \in S : \A j \in S : i <= j
  BY NatLeast
<1> QED
  BY <1>1 DEF Leftmost

LEMMA NoValues == NoValue # Empty /\ OutOfRange # Empty
BY Zenon DEF NoValue, OutOfRange, Empty

LEMMA NoBadCell ==
  ASSUME NEW tree, FirstBad(tree) = Empty
  PROVE  /\ \A i \in DOMAIN Table.columns : JointParamRow(tree)[i] \notin {NoValue, OutOfRange}
         /\ NoValue \notin Range(JointParamRow(tree))
<1>1. DOMAIN Table.columns \in SUBSET Nat
  <2>1. Table.columns \in Seq([col_name : STRING, value_type : ValueTypes])
    BY ParserAssumption
  <2> HIDE DEF ValueTypes
  <2> QED
    BY <2>1, LenProperties
<1>2. BadCells(tree) = {}
  <2>1. ASSUME BadCells(tree) # {} PROVE FALSE
    <3>1. BadCells(tree) \in SUBSET Nat
      BY <1>1 DEF BadCells
    <3>2. Leftmost(BadCells(tree)) \in BadCells(tree)
      BY <2>1, <3>1, LeftmostIs
    <3>3. JointParamRow(tree)[Leftmost(BadCells(tree))] \in {NoValue, OutOfRange}
      BY <3>2 DEF BadCells
    <3>4. FirstBad(tree) = JointParamRow(tree)[Leftmost(BadCells(tree))]
      BY <2>1, Zenon DEF FirstBad
    <3> QED
      BY <3>3, <3>4, NoValues, Zenon
  <2> QED
    BY <2>1
<1>3. \A i \in DOMAIN Table.columns : JointParamRow(tree)[i] \notin {NoValue, OutOfRange}
  BY <1>2, Zenon DEF BadCells
<1>4. DOMAIN JointParamRow(tree) = DOMAIN Table.columns
  BY DEF JointParamRow
<1>5. NoValue \notin Range(JointParamRow(tree))
  BY <1>3, <1>4, Zenon DEF Range
<1> QED
  BY <1>3, <1>5

LEMMA GoodRow ==
  ASSUME NEW tree, tree.columns \in Seq(Texts), tree.values \in Seq(Texts), FirstBad(tree) = Empty
  PROVE  JointParamRow(tree) = RowMeant(tree)
<1>3. \A i \in DOMAIN Table.columns : JointParamRow(tree)[i] \notin {NoValue, OutOfRange}
  BY NoBadCell
<1>4. JointParamRow(tree) = [i \in DOMAIN Table.columns |-> JoinedCell(Table.columns[i], tree)]
  BY Zenon DEF JointParamRow
<1>5. \A i \in DOMAIN Table.columns : JointParamRow(tree)[i] = JoinedCell(Table.columns[i], tree)
  BY <1>4
<1> DEFINE Meant1(column) ==
             IF Positions(column.col_name, tree.columns) = {} THEN BuildDefaultValue(column.value_type)
             ELSE InitValue(tree.values[Leftmost(Positions(column.col_name, tree.columns))], column.value_type)
<1>6. RowMeant(tree) = [i \in DOMAIN Table.columns |-> Meant1(Table.columns[i])]
  BY Zenon DEF RowMeant, Positions
<1>7. ASSUME NEW column, JoinedCell(column, tree) # OutOfRange
      PROVE  JoinedCell(column, tree) = Meant1(column)
  <2> DEFINE places == Positions(column.col_name, tree.columns)
             position == FindValue(column.col_name, tree.columns)
  <2>1. places \in SUBSET (Nat \ {0})
    <3>1. DOMAIN tree.columns = 1 .. Len(tree.columns)
      BY LenProperties
    <3> QED
      BY <3>1 DEF Positions
  <2>2. JoinedCell(column, tree) =
          CASE position = 0 -> BuildDefaultValue(column.value_type)
            [] position > Len(tree.values) -> OutOfRange
            [] OTHER -> InitValue(tree.values[position], column.value_type)
    BY Zenon DEF JoinedCell
  <2>3. CASE places = {}
    <3>1. position = 0
      BY <2>3, Zenon DEF FindValue
    <3>2. ~(0 > Len(tree.values))
      BY LenProperties
    <3>3. JoinedCell(column, tree) = BuildDefaultValue(column.value_type)
      <4> HIDE DEF position, places
      <4> QED
        BY <2>2, <3>1, <3>2, Zenon
    <3> QED
      BY <2>3, <3>3, Zenon
  <2>4. CASE places # {}
    <3>1. position = Leftmost(places)
      BY <2>4, Zenon DEF FindValue
    <3>2. position \in Nat \ {0}
      BY <2>1, <2>4, <3>1, LeftmostIs
    <3>3. position # 0
      BY <3>2
    <3>4. JoinedCell(column, tree) = InitValue(tree.values[position], column.value_type)
      <4> HIDE DEF position, places
      <4>1. \/ position > Len(tree.values) /\ JoinedCell(column, tree) = OutOfRange
            \/ JoinedCell(column, tree) = InitValue(tree.values[position], column.value_type)
        BY <2>2, <3>3, Zenon
      <4> QED
        BY <1>7, <4>1, Zenon
    <3> QED
      BY <2>4, <3>1, <3>4, Zenon
  <2> QED
    BY <2>3, <2>4
<1>8. \A i \in DOMAIN Table.columns : JoinedCell(Table.columns[i], tree) = Meant1(Table.columns[i])
  <2>1. \A i \in DOMAIN Table.columns : JoinedCell(Table.columns[i], tree) # OutOfRange
    BY <1>3, <1>5, Zenon
  <2> QED
    BY <1>7, <2>1, Zenon
<1> HIDE DEF Meant1
<1>9. JointParamRow(tree) = RowMeant(tree)
  BY <1>4, <1>6, <1>8
<1> QED
  BY <1>9

-----------------------------------------------------------------------------
(* The rows, and which statements they are from.                           *)
RowGood(row) ==
  /\ row.said # NoTree => row.cells = RowMeant(row.said)
  /\ NoValue \notin Range(row.cells)

(* A worker's rows are of its statements so far; and the statement it is   *)
(* at, or the one that failed last, has none.                              *)
OfPast(w) == \A i \in 1 .. Len(rows) : rows[i].by = w => rows[i].nth \in 0 .. sent[w]

OfNone(w) ==
  at[w].phase # "idle" \/ response[w] = "not inserted" =>
    \A i \in 1 .. Len(rows) : rows[i].by # w \/ rows[i].nth # sent[w]

RowsKept ==
  /\ \E S : rows \in Seq(S)
  /\ \A i \in 1 .. Len(rows) : RowGood(rows[i])
  /\ \A w \in Worker : OfPast(w) /\ OfNone(w)

LEMMA RowsInit == ASSUME Init PROVE RowsKept
<1>1. rows = <<>>
  BY DEF Init
<1>2. <<>> \in Seq(Worker) /\ \A i \in 1 .. Len(<<>>) : FALSE
  OBVIOUS
<1> QED
  BY <1>1, <1>2, Zenon DEF RowsKept, OfPast, OfNone

LEMMA RowsStay ==
  ASSUME Typed, RowsKept, NEW w \in Worker, UNCHANGED <<rows, sent>>, at[w].phase # "idle",
         \A v \in Worker \ {w} : at'[v] = at[v] /\ response'[v] = response[v]
  PROVE  RowsKept'
<1>1. ASSUME NEW v \in Worker PROVE OfPast(v)' /\ OfNone(v)'
  <2>1. OfPast(v) /\ OfNone(v) /\ OfNone(w)
    BY Zenon DEF RowsKept
  <2>2. OfPast(v)'
    BY <2>1, Zenon DEF OfPast
  <2>3. OfNone(v)'
    <3>1. CASE v = w
      BY <2>1, <3>1, Zenon DEF OfNone
    <3>2. CASE v # w
      <4>1. at'[v] = at[v] /\ response'[v] = response[v]
        BY <3>2
      <4> QED
        BY <2>1, <4>1, Zenon DEF OfNone
    <3> QED
      BY <3>1, <3>2
  <2> QED
    BY <2>2, <2>3
<1> QED
  BY <1>1, Zenon DEF RowsKept

LEMMA PlacesMove ==
  ASSUME Typed, NEW w \in Worker, NEW q, at' = [at EXCEPT ![w] = q]
  PROVE  \A v \in Worker \ {w} : at'[v] = at[v]
BY DEF Typed, ArePlaces

LEMMA RowsRespond ==
  ASSUME Typed, RowsKept, NEW w \in Worker, NEW information, Respond(w, information), UNCHANGED rows
  PROVE  RowsKept'
<1>1. /\ at' = [at EXCEPT ![w] = Idle] /\ response' = [response EXCEPT ![w] = information]
      /\ UNCHANGED sent /\ at[w].phase = "execute"
  BY Zenon DEF Respond, history
<1>2. \A v \in Worker \ {w} : at'[v] = at[v]
  BY <1>1, PlacesMove
<1>3. \A v \in Worker \ {w} : response'[v] = response[v]
  <2>1. response = [v \in Worker |-> response[v]]
    BY DEF Typed, AreKept
  <2> QED
    BY <1>1, <2>1
<1>4. at[w].phase # "idle"
  BY <1>1
<1> QED
  BY <1>1, <1>2, <1>3, <1>4, RowsStay, Zenon

LEMMA RowsReceive ==
  ASSUME Typed, RowsKept, NEW w \in Worker, NEW tree, NEW words, Receive(w, tree, words)
  PROVE  RowsKept'
<1>1. /\ sent' = [sent EXCEPT ![w] = sent[w] + 1] /\ UNCHANGED rows
      /\ response' = [response EXCEPT ![w] = Empty]
      /\ \E q : at' = [at EXCEPT ![w] = q]
  BY DEF Receive
<1>2. /\ \A v \in Worker \ {w} : at'[v] = at[v]
  BY <1>1, PlacesMove
<1>3. /\ \A v \in Worker \ {w} : response'[v] = response[v] /\ sent'[v] = sent[v]
      /\ sent'[w] = sent[w] + 1 /\ sent[w] \in Nat
  <2>1. response = [v \in Worker |-> response[v]] /\ sent \in [Worker -> 0 .. MaxStatements]
    BY DEF Typed, AreKept
  <2>2. MaxStatements \in Nat
    BY ParserAssumption
  <2> QED
    BY <1>1, <2>1, <2>2
<1>4. ASSUME NEW v \in Worker PROVE OfPast(v)' /\ OfNone(v)'
  <2>1. OfPast(v) /\ OfNone(v)
    BY Zenon DEF RowsKept
  <2>2. CASE v = w
    <3>1. ASSUME NEW i \in 1 .. Len(rows), rows[i].by = w
          PROVE  rows[i].nth \in 0 .. sent'[w] /\ rows[i].nth # sent'[w]
      <4>1. rows[i].nth \in 0 .. sent[w]
        BY <2>1, <2>2, <3>1 DEF OfPast
      <4> QED
        BY <1>3, <4>1
    <3> QED
      BY <1>1, <2>2, <3>1, Zenon DEF OfPast, OfNone
  <2>3. CASE v # w
    <3>1. at'[v] = at[v] /\ response'[v] = response[v] /\ sent'[v] = sent[v]
      BY <1>2, <1>3, <2>3
    <3> QED
      BY <1>1, <2>1, <3>1, Zenon DEF OfPast, OfNone
  <2> QED
    BY <2>2, <2>3
<1> QED
  BY <1>1, <1>4, Zenon DEF RowsKept

LEMMA RowsInsert ==
  ASSUME Typed, Known, RowsKept, NEW w \in Worker, InsertRow(w)
  PROVE  RowsKept'
<1> DEFINE cells == JointParamRow(ast[w])
<1>1. PICK row : row = [by |-> w, nth |-> sent[w], said |-> said[w], cells |-> cells]
  OBVIOUS
<1>2. /\ rows' = Append(rows, row) /\ Respond(w, "inserted") /\ FirstBad(ast[w]) = Empty
      /\ ast[w].node = "INSERT_INTO_TABLE_NODE"
  BY <1>1, Zenon DEF InsertRow, Inserting
<1>3. row.by = w /\ row.nth = sent[w] /\ row.said = said[w] /\ row.cells = cells
  BY <1>1
<1>4. /\ at' = [at EXCEPT ![w] = Idle] /\ response' = [response EXCEPT ![w] = "inserted"]
      /\ UNCHANGED sent /\ at[w].phase = "execute"
  BY <1>2, Zenon DEF Respond, history
<1>5. RowGood(row)
  <2>1. NoValue \notin Range(cells)
    BY <1>2, NoBadCell
  <2>2. ASSUME said[w] # NoTree PROVE cells = RowMeant(said[w])
    <3>1. ast[w] = said[w] /\ IsInsert(said[w])
      BY <1>2, <1>4, <2>2, ExecutedInsert
    <3>2. said[w].columns \in Seq(Texts) /\ said[w].values \in Seq(Texts)
      <4>1. said[w].columns \in Seq(Name) /\ said[w].values \in Seq(ValueText)
        BY <3>1, Zenon DEF IsInsert
      <4>2. Seq(Name) \subseteq Seq(Texts) /\ Seq(ValueText) \subseteq Seq(Texts)
        BY NamesTyped
      <4> QED
        BY <4>1, <4>2
    <3>3. PICK tree : tree = said[w]
      OBVIOUS
    <3>4. JointParamRow(tree) = RowMeant(tree)
      BY <1>2, <3>1, <3>2, <3>3, GoodRow
    <3> QED
      BY <3>1, <3>3, <3>4, Zenon
  <2> QED
    BY <1>3, <2>1, <2>2, Zenon DEF RowGood
<1> HIDE DEF cells
<1>6. PICK S : rows \in Seq(S)
  BY Zenon DEF RowsKept
<1>7. /\ rows' \in Seq(S \cup {row}) /\ Len(rows') = Len(rows) + 1 /\ Len(rows) \in Nat
      /\ \A i \in 1 .. Len(rows) : rows'[i] = rows[i]
      /\ rows'[Len(rows) + 1] = row
  <2>1. Seq(S) \subseteq Seq(S \cup {row})
    OBVIOUS
  <2>2. rows \in Seq(S \cup {row}) /\ row \in S \cup {row}
    BY <1>6, <2>1
  <2> QED
    BY <1>2, <2>2, AppendProperties, LenProperties
<1>8. \A i \in 1 .. Len(rows') : i \in 1 .. Len(rows) \/ i = Len(rows) + 1
  BY <1>7
<1>9. \A i \in 1 .. Len(rows') : RowGood(rows'[i])
  BY <1>5, <1>7, <1>8, Zenon DEF RowsKept
<1>10. /\ \A v \in Worker \ {w} : at'[v] = at[v]
       /\ \A v \in Worker \ {w} : response'[v] = response[v]
       /\ response'[w] = "inserted" /\ at'[w].phase = "idle"
  <2>1. response = [v \in Worker |-> response[v]] /\ at \in [Worker -> PlaceSet]
    BY DEF Typed, AreKept, ArePlaces
  <2>2. Idle.phase = "idle"
    BY DEF Idle, Place
  <2>3. at'[w] = Idle
    BY <1>4, <2>1
  <2> QED
    BY <1>4, <2>1, <2>2, <2>3
<1>11. ASSUME NEW v \in Worker PROVE OfPast(v)' /\ OfNone(v)'
  <2>1. OfPast(v) /\ OfNone(v)
    BY Zenon DEF RowsKept
  <2>2. sent[w] \in 0 .. sent[w]
    <3>1. sent \in [Worker -> 0 .. MaxStatements] /\ MaxStatements \in Nat
      BY ParserAssumption DEF Typed, AreKept
    <3> QED
      BY <3>1
  <2>3. OfPast(v)'
    BY <1>3, <1>4, <1>7, <1>8, <2>1, <2>2, Zenon DEF OfPast
  <2>4. CASE v = w
    <3>1. ~(at'[v].phase # "idle" \/ response'[v] = "not inserted")
      BY <1>10, <2>4
    <3> QED
      BY <2>3, <3>1, Zenon DEF OfNone
  <2>5. CASE v # w
    <3>1. at'[v] = at[v] /\ response'[v] = response[v]
      BY <1>10, <2>5
    <3>2. OfNone(v)'
      BY <1>3, <1>4, <1>7, <1>8, <2>1, <2>5, <3>1, Zenon DEF OfNone
    <3> QED
      BY <2>3, <3>2
  <2> QED
    BY <2>4, <2>5
<1>12. \E T : rows' \in Seq(T)
  BY <1>7
<1> QED
  BY <1>9, <1>11, <1>12, Zenon DEF RowsKept

LEMMA RowsStep == ASSUME Typed, Known, RowsKept, [Next]_vars PROVE RowsKept'
<1>1. CASE UNCHANGED vars
  <2>1. UNCHANGED <<rows, sent, at, response>>
    BY <1>1, Zenon DEF vars, parse, history
  <2> QED
    BY <2>1, Zenon DEF RowsKept, OfPast, OfNone
<1>2. ASSUME NEW w \in Worker, NEW tree \in Legal, Receive(w, tree, Statement(tree)) PROVE RowsKept'
  BY <1>2, RowsReceive
<1>3. ASSUME NEW w \in Worker, NEW words \in Garbage, Receive(w, NoTree, words) PROVE RowsKept'
  BY <1>3, RowsReceive
<1>4. ASSUME NEW w \in Worker, WorkerStep(w) PROVE RowsKept'
  <2>1. ASSUME NEW q, at' = [at EXCEPT ![w] = q], at[w].phase # "idle", UNCHANGED <<rows, sent, response>>
        PROVE  RowsKept'
    <3>1. \A v \in Worker \ {w} : at'[v] = at[v] /\ response'[v] = response[v]
      BY <2>1, PlacesMove
    <3> QED
      BY <2>1, <3>1, RowsStay
  <2>2. CASE MatchCertain(w) \/ RangeCheck(w) \/ ReadLength(w) \/ ReadSum(w)
    <3>1. at[w].phase # "idle"
      BY <2>2 DEF MatchCertain, RangeCheck, ReadLength, ReadSum
    <3>2. UNCHANGED <<rows, sent, response>> /\ \E q : at' = [at EXCEPT ![w] = q]
      BY <2>2, Zenon DEF MatchCertain, RangeCheck, ReadLength, ReadSum, history
    <3> QED
      BY <2>1, <3>1, <3>2
  <2>3. CASE ReadBeyondEnd(w)
    <3>1. at[w].phase # "idle"
      BY <2>3 DEF ReadBeyondEnd
    <3>2. UNCHANGED <<rows, sent, response>> /\ \E q : at' = [at EXCEPT ![w] = q]
      BY <2>3, Zenon DEF ReadBeyondEnd, history
    <3> QED
      BY <2>1, <3>1, <3>2
  <2>4. CASE BuildAST(w)
    <3>1. at[w].phase # "idle"
      BY <2>4 DEF BuildAST
    <3>2. UNCHANGED <<rows, sent, response>> /\ \E q : at' = [at EXCEPT ![w] = q]
      BY <2>4, Zenon DEF BuildAST, history
    <3> QED
      BY <2>1, <3>1, <3>2
  <2>5. CASE Dispatch(w)
    BY <2>5, RowsRespond DEF Dispatch
  <2>6. CASE InsertRow(w)
    BY <2>6, RowsInsert
  <2>7. CASE InsertNothing(w)
    BY <2>7, RowsRespond DEF InsertNothing
  <2>8. CASE ThrowInJointParamRow(w) \/ MissColumn(w) \/ ThrowInCompare(w)
    <3>1. at[w].phase # "idle"
      BY <2>8 DEF ThrowInJointParamRow, MissColumn, ThrowInCompare
    <3>2. UNCHANGED <<rows, sent, response>> /\ \E q : at' = [at EXCEPT ![w] = q]
      BY <2>8, Zenon DEF ThrowInJointParamRow, MissColumn, ThrowInCompare, history
    <3> QED
      BY <2>1, <3>1, <3>2
  <2> QED
    BY <1>4, <2>2, <2>3, <2>4, <2>5, <2>6, <2>7, <2>8, Zenon DEF WorkerStep
<1> QED
  BY <1>1, <1>2, <1>3, <1>4, Zenon DEF Next

LEMMA KnownAlways == Spec => [](Typed /\ Known)
<1>1. Init => Known
  BY KnownInit
<1>2. Typed /\ Known /\ [Next]_vars => Known'
  BY KnownStep
<1> QED
  BY <1>1, <1>2, TypedAlways, PTL DEF Spec

(* Rows hold what their INSERTs say, in the columns they say it for, and   *)
(* nothing is stored of an INSERT that fails: for any workers, statements  *)
(* and tables, and whatever the workers do to each other's matching.       *)
THEOREM RowsAreStatements == Spec => []RowIsStatement
<1>1. Init => RowsKept
  BY RowsInit
<1>2. Typed /\ Known /\ RowsKept /\ [Next]_vars => RowsKept'
  BY RowsStep
<1>3. RowsKept => RowIsStatement
  <2> SUFFICES ASSUME RowsKept PROVE RowIsStatement
    OBVIOUS
  <2>1. PICK S : rows \in Seq(S)
    BY Zenon DEF RowsKept
  <2>2. DOMAIN rows = 1 .. Len(rows)
    BY <2>1, LenProperties
  <2> QED
    BY <2>2, Zenon DEF RowsKept, RowGood, OfNone, RowIsStatement
<1> QED
  BY <1>1, <1>2, <1>3, KnownAlways, PTL DEF Spec

(* What a worker that nobody disturbed has found of its element so far,    *)
(* and left in the lengths that it has still to read.                      *)
ExactOne(p, input, ml) ==
  p.phase = "sum" =>
    ElementLength(Parts(p), input, p.offset) = 1 /\ ml[Part(p).range] = 1

ExactColumn(p, input, ml) ==
  /\ p.part = 2 => /\ At(input, p.offset + 1) = Mark(",")
                   /\ At(input, p.offset + 2).type = "IDENTIFIER_T"
  /\ p.phase = "sum" => IsType(At(input, p.offset + 3)) /\ ml["NEXT_VALUE_TYPE"] = 1

ExactWhere(p, input, ml) ==
  LET c == CompareLength(input, p.offset + 2)
  IN  /\ p.part # 1 => WhereBegins(input, p.offset)
      /\ p.phase # "match" \/ p.part = 3 => c # 0 /\ ml["COMPARER"] = c
      /\ p.part = 3 => p.total = 2 + c
      /\ p.phase = "sum" => IsValue(At(input, p.offset + 3 + c))

ExactNext(p, input, ml) ==
  LET c == CompareLength(input, p.offset + 2)
  IN  /\ p.phase # "match" \/ p.part # 1 => IsConnective(At(input, p.offset + 1))
      /\ p.phase = "length" \/ p.part \in {2, 4} \/ (p.phase = "match" /\ p.part = 3)
           \/ (p.phase = "sum" /\ p.part = 1)
           => ml["OPERATOR"] = 1
      /\ p.part = 2 => p.total = 1
      /\ p.phase = "sum" \/ p.part \in {3, 4} => At(input, p.offset + 2).type = "IDENTIFIER_T"
      /\ p.phase = "sum" \/ p.part = 4 \/ (p.phase = "length" /\ p.part = 3)
           => c # 0 /\ ml["NEXT_COMPARER"] = c
      /\ p.part = 4 => p.total = 2 + c
      /\ p.phase = "sum" => IsValue(At(input, p.offset + 3 + c))
      /\ p.phase = "sum" /\ p.part = 3 => p.total = 3

Exact(p, input, ml) ==
  /\ TokensKind(Parts(p)) \/ ChoiceKind(Parts(p)) => ExactOne(p, input, ml)
  /\ ColumnKind(Parts(p)) => ExactColumn(p, input, ml)
  /\ WhereKind(Parts(p)) => ExactWhere(p, input, ml)
  /\ NextKind(Parts(p)) => ExactNext(p, input, ml)

-----------------------------------------------------------------------------
(* What a worker finds, step by step, when nobody changes the lengths: on  *)
(* in the element, or behind as many tokens as the element takes.          *)
Takable(p, input) == ElementLength(Parts(p), input, p.offset)

OnwardTo(q, p, input, ml) ==
  \/ IsWithinElement(q, p) /\ Exact(q, input, ml)
  \/ Takable(p, input) # 0 /\ q = Taken(p, Takable(p, input))

CertainExact(p, input, ml) ==
  p.phase = "match" /\ Part(p).range = Empty =>
    /\ CertainCheck(Part(p).templates, input, p.offset + p.total)
         => OnwardTo(Advance(p, Len(Part(p).templates)), p, input, ml)
    /\ ~CertainCheck(Part(p).templates, input, p.offset + p.total) => Takable(p, input) = 0

(* m: the lengths with the one that the range has found.                   *)
Found1(m, ml, range, length) ==
  m[range] = length /\ \A r \in RangeName : r # range => m[r] = ml[r]

RangeExact(p, input, ml) ==
  p.phase = "match" /\ Part(p).range # Empty /\ p.offset + p.total < Len(input) =>
    /\ RangeLength(Part(p), input, p.offset + p.total) = 0 => Takable(p, input) = 0
    /\ \A m : /\ RangeLength(Part(p), input, p.offset + p.total) # 0
              /\ Found1(m, ml, Part(p).range, RangeLength(Part(p), input, p.offset + p.total))
              => OnwardTo(IF p.part = Len(Parts(p)) THEN Advance(p, 0)
                          ELSE [p EXCEPT !.phase = "length"], p, input, m)

LengthExact(p, input, ml) ==
  p.phase = "length" => OnwardTo(Advance(p, ml[Part(p).range]), p, input, ml)

SumExact(p, input, ml) ==
  p.phase = "sum" =>
    OnwardTo(GetMatchLength(p, p.part + 1, p.total + ml[Part(p).range]), p, input, ml)

GoesExactly(p, input, ml) ==
  /\ CertainExact(p, input, ml) /\ RangeExact(p, input, ml)
  /\ LengthExact(p, input, ml) /\ SumExact(p, input, ml)

LEMMA ExactByKind ==
  ASSUME NEW p, NEW input, NEW ml
  PROVE  /\ TokensKind(Parts(p)) \/ ChoiceKind(Parts(p))
              => (Exact(p, input, ml) <=> ExactOne(p, input, ml))
         /\ ColumnKind(Parts(p)) => (Exact(p, input, ml) <=> ExactColumn(p, input, ml))
         /\ WhereKind(Parts(p)) => (Exact(p, input, ml) <=> ExactWhere(p, input, ml))
         /\ NextKind(Parts(p)) => (Exact(p, input, ml) <=> ExactNext(p, input, ml))
<1>1. \A parts : /\ TokensKind(parts) => Len(parts) = 1
                 /\ ChoiceKind(parts) => Len(parts) = 1
                 /\ ColumnKind(parts) => Len(parts) = 2
                 /\ WhereKind(parts) => Len(parts) = 3
                 /\ NextKind(parts) => Len(parts) = 4
  BY Zenon DEF TokensKind, ChoiceKind, ColumnKind, WhereKind, NextKind
<1>2. 1 # 2 /\ 1 # 3 /\ 1 # 4 /\ 2 # 3 /\ 2 # 4 /\ 3 # 4
  OBVIOUS
<1> QED
  BY <1>1, <1>2, Zenon DEF Exact

LEMMA TokensExact ==
  ASSUME NEW input \in Seq(AnyToken), NEW p \in PlaceSet, Matching(p), StandsIn(p, input),
         TokensKind(Parts(p)), NEW ml
  PROVE  GoesExactly(p, input, ml)
<1>1. /\ p.part = 1 /\ p.total = 0 /\ p.offset \in Nat
      /\ p.phase = "match" \/ Part(p).range # Empty
      /\ p.phase \in {"match", "sum"}
  BY KindStands DEF StandsOne, PlaceSet
<1>2. /\ Part(p).range = Empty /\ \A l : Advance(p, l) = Taken(p, Len(Part(p).templates))
  BY <1>1, TokensAdvance
<1>3. p.phase = "match" /\ p.phase # "length" /\ p.phase # "sum"
  BY <1>1, <1>2
<1>4. p.offset + p.total = p.offset
  BY <1>1
<1>5. /\ Part(p) = Parts(p)[1] /\ Len(Parts(p)) = 1
      /\ Len(Parts(p)[1].templates) \in Nat \ {0}
  BY <1>1, Zenon DEF Part, TokensKind
<1>6. Takable(p, input) = TokensLength(Part(p), input, p.offset)
  BY <1>2, <1>5, Zenon DEF Takable, ElementLength
<1>7. Len(Part(p).templates) # 0
  BY <1>5
<1>8. CertainExact(p, input, ml)
  BY <1>2, <1>4, <1>6, <1>7, Zenon DEF CertainExact, OnwardTo, TokensLength
<1> QED
  BY <1>2, <1>3, <1>8, Zenon DEF GoesExactly, RangeExact, LengthExact, SumExact

LEMMA ChoiceExact ==
  ASSUME NEW input \in Seq(AnyToken), NEW p \in PlaceSet, Matching(p), StandsIn(p, input),
         ChoiceKind(Parts(p)), NEW ml, Exact(p, input, ml)
  PROVE  GoesExactly(p, input, ml)
<1> DEFINE q == Sum(p, 1, 0)
           n == Takable(p, input)
<1>1. /\ p.part = 1 /\ p.total = 0 /\ p.offset \in Nat /\ p.phase \in {"match", "sum"}
  BY KindStands DEF StandsOne, PlaceSet
<1>2. /\ Part(p).range \in {"VALUE_TYPE", "FIRST_COL"} /\ Part(p).range # Empty
      /\ \A l : Advance(p, l) = Sum(p, 1, 0)
      /\ \A t : GetMatchLength(p, 2, t) = Taken(p, t)
  BY <1>1, ChoiceAdvance
<1>3. p.offset + p.total = p.offset /\ p.phase # "length" /\ 0 + 1 = 1 /\ 1 + 1 = 2 /\ 1 # 0
  BY <1>1
<1>4. Part(p) = Parts(p)[1] /\ Len(Parts(p)) = 1
  BY <1>1, Zenon DEF Part, ChoiceKind
<1>5. n = ChoiceLength(Part(p), input, p.offset)
  BY <1>2, <1>4, Zenon DEF Takable, ElementLength
<1>6. ASSUME p.offset < Len(input) PROVE RangeLength(Part(p), input, p.offset) = n
  <2>1. CASE IsRange(Part(p), "VALUE_TYPE", TypeKeywords, <<>>)
    <3>1. RangeLength(Part(p), input, p.offset) = IF IsType(At(input, p.offset + 1)) THEN 1 ELSE 0
      BY <1>1, <1>6, <2>1, RangeLengths, Zenon
    <3>2. Part(p).range = "VALUE_TYPE"
      BY <2>1, Zenon DEF IsRange
    <3> QED
      BY <1>5, <3>1, <3>2, Zenon DEF ChoiceLength
  <2>2. CASE IsRange(Part(p), "FIRST_COL", <<Mark("*")>>, <<AnyIdentifier>>)
    <3>1. RangeLength(Part(p), input, p.offset) = IF IsColumn(At(input, p.offset + 1)) THEN 1 ELSE 0
      BY <1>1, <1>6, <2>2, RangeLengths, Zenon
    <3>2. Part(p).range # "VALUE_TYPE"
      BY <2>2, RangeNames, Zenon DEF IsRange
    <3> QED
      BY <1>5, <3>1, <3>2, Zenon DEF ChoiceLength
  <2> QED
    BY <1>4, <2>1, <2>2, Zenon DEF ChoiceKind
<1>7. n = 0 \/ n = 1
  BY <1>5, Zenon DEF ChoiceLength
<1>8. CertainExact(p, input, ml) /\ LengthExact(p, input, ml)
  BY <1>2, <1>3, Zenon DEF CertainExact, LengthExact
<1>9. RangeExact(p, input, ml)
  <2> SUFFICES ASSUME p.phase = "match", p.offset < Len(input)
               PROVE  /\ RangeLength(Part(p), input, p.offset) = 0 => n = 0
                      /\ \A m : /\ RangeLength(Part(p), input, p.offset) # 0
                                /\ Found1(m, ml, Part(p).range, RangeLength(Part(p), input, p.offset))
                                => OnwardTo(IF p.part = Len(Parts(p)) THEN Advance(p, 0)
                                            ELSE [p EXCEPT !.phase = "length"], p, input, m)
    BY <1>3, Zenon DEF RangeExact
  <2>1. ASSUME NEW m, n # 0, Found1(m, ml, Part(p).range, n)
        PROVE  OnwardTo(q, p, input, m)
    <3>1. /\ q.phase = "sum" /\ q.pattern = p.pattern /\ q.element = p.element
          /\ q.offset = p.offset /\ Parts(q) = Parts(p) /\ Part(q) = Parts(p)[1]
      BY SumFields
    <3> HIDE DEF q, n
    <3>2. m[Part(p).range] = 1 /\ n = 1
      BY <1>7, <2>1, Zenon DEF Found1
    <3>3. ExactOne(q, input, m)
      BY <1>4, <3>1, <3>2, Zenon DEF ExactOne, Takable, n
    <3>4. Exact(q, input, m)
      BY <3>1, <3>3, ExactByKind, Zenon
    <3> QED
      BY <3>1, <3>4 DEF OnwardTo, IsWithinElement
  <2> HIDE DEF q, n
  <2>2. Advance(p, 0) = q /\ p.part = Len(Parts(p))
    BY <1>1, <1>2, <1>4, Zenon DEF q
  <2>3. RangeLength(Part(p), input, p.offset) = n
    BY <1>6
  <2> QED
    BY <2>1, <2>2, <2>3, Zenon
<1>10. SumExact(p, input, ml)
  <2> SUFFICES ASSUME p.phase = "sum"
               PROVE  OnwardTo(GetMatchLength(p, p.part + 1, p.total + ml[Part(p).range]), p, input, ml)
    BY Zenon DEF SumExact
  <2>1. n = 1 /\ ml[Part(p).range] = 1
    BY ExactByKind, Zenon DEF ExactOne, Takable
  <2>2. GetMatchLength(p, p.part + 1, p.total + ml[Part(p).range]) = Taken(p, 1)
    BY <1>1, <1>2, <1>3, <2>1, Zenon
  <2> QED
    BY <1>3, <2>1, <2>2, Zenon DEF OnwardTo
<1> QED
  BY <1>8, <1>9, <1>10, Zenon DEF GoesExactly

LEMMA ColumnExact ==
  ASSUME NEW input \in Seq(AnyToken), NEW p \in PlaceSet, Matching(p), StandsIn(p, input),
         ColumnKind(Parts(p)), NEW ml, Exact(p, input, ml)
  PROVE  GoesExactly(p, input, ml)
<1> DEFINE o == p.offset
           n == Takable(p, input)
           Begun == At(input, o + 1) = Mark(",") /\ At(input, o + 2).type = "IDENTIFIER_T"
<1>1. /\ StandsColumn(p, input) /\ o \in Nat /\ p.part \in 1 .. 2
  BY KindStands DEF StandsColumn, PlaceSet
<1>2. /\ p.part = 1 => /\ Part(p).range = Empty /\ Len(Part(p).templates) = 2
                       /\ \A l : Advance(p, l) = Match(p, 2, p.total + l)
      /\ p.part = 2 => /\ Part(p).range = "NEXT_VALUE_TYPE" /\ Part(p).range # Empty
                       /\ \A l : Advance(p, l) = Sum(p, 2, 2)
      /\ \A t : GetMatchLength(p, 3, t) = Taken(p, t)
  BY <1>1, ColumnAdvance, Zenon
<1>3. ExactColumn(p, input, ml)
  BY ExactByKind, Zenon
<1>4. /\ p.phase = "match" => (p.part = 1 /\ p.total = 0) \/ (p.part = 2 /\ p.total = 2)
      /\ p.phase = "sum" => p.part = 2 /\ p.total = 2
      /\ p.phase # "length"
  BY <1>1 DEF StandsColumn
<1>5. /\ Part(p) = Parts(p)[p.part] /\ Len(Parts(p)) = 2
      /\ Parts(p)[1].templates = <<Mark(","), AnyIdentifier>>
      /\ IsRange(Parts(p)[2], "NEXT_VALUE_TYPE", TypeKeywords, <<>>)
  BY Zenon DEF Part, ColumnKind, IsCertain
<1>6. n = ColumnLength(input, o)
  <2>1. 2 # 1
    OBVIOUS
  <2> QED
    BY <1>5, <2>1, Zenon DEF Takable, ElementLength
<1>7. /\ Begun /\ IsType(At(input, o + 3)) => n = 3
      /\ ~Begun \/ ~IsType(At(input, o + 3)) => n = 0
  BY <1>6, Zenon DEF ColumnLength
<1>8. o + 0 = o /\ 0 + 2 = 2 /\ (o + 2) + 1 = o + 3 /\ o + 2 \in Nat /\ 2 + 1 = 3 /\ 3 # 0 /\ 1 # 0
  BY <1>1
<1>9. CertainExact(p, input, ml)
  <2> SUFFICES ASSUME p.phase = "match", Part(p).range = Empty
               PROVE  /\ CertainCheck(Part(p).templates, input, o + p.total)
                           => OnwardTo(Advance(p, Len(Part(p).templates)), p, input, ml)
                      /\ ~CertainCheck(Part(p).templates, input, o + p.total) => n = 0
    BY Zenon DEF CertainExact
  <2>1. p.part = 1 /\ p.total = 0
    BY <1>2, <1>4, Zenon
  <2>2. CertainCheck(Part(p).templates, input, o + p.total)
          <=> Fits(Mark(","), At(input, o + 1)) /\ Fits(AnyIdentifier, At(input, o + 2))
    BY <1>5, <1>8, <2>1, Check2, Zenon
  <2>3. CertainCheck(Part(p).templates, input, o + p.total) <=> Begun
    BY <2>2, FitsWhat, Zenon
  <2>4. ASSUME Begun PROVE OnwardTo(Match(p, 2, 2), p, input, ml)
    <3>1. PICK q : q = Match(p, 2, 2)
      OBVIOUS
    <3>2. /\ q.phase = "match" /\ q.pattern = p.pattern /\ q.element = p.element
          /\ q.part = 2 /\ q.offset = o /\ Parts(q) = Parts(p)
      BY <3>1, MatchFields
    <3>3. q.phase # "sum"
      BY <3>2
    <3>4. ExactColumn(q, input, ml)
      BY <2>4, <3>2, <3>3, Zenon DEF ExactColumn
    <3>5. Exact(q, input, ml)
      BY <3>2, <3>4, ExactByKind, Zenon
    <3> QED
      BY <3>1, <3>2, <3>5 DEF OnwardTo, IsWithinElement
  <2>5. Advance(p, Len(Part(p).templates)) = Match(p, 2, 2)
    BY <1>2, <1>8, <2>1, Zenon
  <2> HIDE DEF n, Begun
  <2> QED
    BY <1>7, <2>3, <2>4, <2>5, Zenon
<1>10. RangeExact(p, input, ml)
  <2> SUFFICES ASSUME p.phase = "match", Part(p).range # Empty, o + p.total < Len(input)
               PROVE  /\ RangeLength(Part(p), input, o + p.total) = 0 => n = 0
                      /\ \A m : /\ RangeLength(Part(p), input, o + p.total) # 0
                                /\ Found1(m, ml, Part(p).range, RangeLength(Part(p), input, o + p.total))
                                => OnwardTo(IF p.part = Len(Parts(p)) THEN Advance(p, 0)
                                            ELSE [p EXCEPT !.phase = "length"], p, input, m)
    BY Zenon DEF RangeExact
  <2>1. p.part = 2 /\ p.total = 2
    BY <1>2, <1>4, Zenon
  <2>2. Begun
    BY <1>3, <2>1, Zenon DEF ExactColumn
  <2>3. RangeLength(Part(p), input, o + 2) = IF IsType(At(input, (o + 2) + 1)) THEN 1 ELSE 0
    <3>1. o + 2 < Len(input) /\ o + 2 \in Nat
      BY <1>8, <2>1
    <3> QED
      BY <1>5, <2>1, <3>1, RangeLengths, Zenon
  <2>4. /\ IsType(At(input, o + 3)) => RangeLength(Part(p), input, o + p.total) = 1
        /\ ~IsType(At(input, o + 3)) => RangeLength(Part(p), input, o + p.total) = 0
    BY <1>8, <2>1, <2>3, Zenon
  <2>5. ASSUME NEW m, m[Part(p).range] = 1, IsType(At(input, o + 3))
        PROVE  OnwardTo(Sum(p, 2, 2), p, input, m)
    <3>1. PICK q : q = Sum(p, 2, 2)
      OBVIOUS
    <3>2. /\ q.phase = "sum" /\ q.pattern = p.pattern /\ q.element = p.element
          /\ q.part = 2 /\ q.offset = o /\ Parts(q) = Parts(p)
      BY <3>1, SumFields
    <3>3. m["NEXT_VALUE_TYPE"] = 1
      BY <1>2, <2>1, <2>5, Zenon
    <3>4. ExactColumn(q, input, m)
      BY <2>2, <2>5, <3>2, <3>3, Zenon DEF ExactColumn
    <3>5. Exact(q, input, m)
      BY <3>2, <3>4, ExactByKind, Zenon
    <3> QED
      BY <3>1, <3>2, <3>5 DEF OnwardTo, IsWithinElement
  <2>6. Advance(p, 0) = Sum(p, 2, 2) /\ p.part = Len(Parts(p))
    BY <1>2, <1>5, <2>1, Zenon
  <2> HIDE DEF n, Begun, o
  <2> QED
    BY <1>7, <1>8, <2>4, <2>5, <2>6, Zenon DEF Found1
<1>11. LengthExact(p, input, ml)
  BY <1>4, Zenon DEF LengthExact
<1>12. SumExact(p, input, ml)
  <2> SUFFICES ASSUME p.phase = "sum"
               PROVE  OnwardTo(GetMatchLength(p, p.part + 1, p.total + ml[Part(p).range]), p, input, ml)
    BY Zenon DEF SumExact
  <2>1. p.part = 2 /\ p.total = 2
    BY <1>4
  <2>2. Begun /\ IsType(At(input, o + 3)) /\ ml["NEXT_VALUE_TYPE"] = 1
    BY <1>3, <2>1, Zenon DEF ExactColumn
  <2>3. GetMatchLength(p, p.part + 1, p.total + ml[Part(p).range]) = Taken(p, 3)
    BY <1>2, <1>8, <2>1, <2>2, Zenon
  <2>4. n = 3
    BY <1>7, <2>2
  <2> QED
    BY <1>8, <2>3, <2>4, Zenon DEF OnwardTo
<1> QED
  BY <1>9, <1>10, <1>11, <1>12, Zenon DEF GoesExactly

LEMMA ComparerLength ==
  ASSUME NEW input, NEW o
  PROVE  CompareLength(input, o) \in 0 .. 2
<1>1. \/ CompareLength(input, o) = 0 \/ CompareLength(input, o) = 1 \/ CompareLength(input, o) = 2
  BY Zenon DEF CompareLength
<1> QED
  BY <1>1

LEMMA WhereExact ==
  ASSUME NEW input \in Seq(AnyToken), NEW p \in PlaceSet, Matching(p), StandsIn(p, input),
         WhereKind(Parts(p)), NEW ml, Exact(p, input, ml)
  PROVE  GoesExactly(p, input, ml)
<1> DEFINE o == p.offset
           n == Takable(p, input)
           c == CompareLength(input, o + 2)
<1>1. /\ StandsWhere(p, input) /\ o \in Nat /\ p.part \in 1 .. 3 /\ c \in 0 .. 2
  BY KindStands, ComparerLength DEF StandsWhere, PlaceSet
<1>2. /\ p.part = 1 => /\ Part(p).range = Empty /\ Len(Part(p).templates) = 2
                       /\ \A l : Advance(p, l) = Match(p, 2, p.total + l)
      /\ p.part = 2 => /\ Part(p).range = "COMPARER" /\ Part(p).range # Empty
                       /\ \A l : Advance(p, l) = Match(p, 3, p.total + l)
      /\ p.part = 3 => /\ Part(p).range = Empty /\ Part(p).templates = <<AnyValue>>
                       /\ \A l : Advance(p, l) = Sum(p, 2, 3)
      /\ \A t : GetMatchLength(p, 3, t) = Taken(p, t)
  BY <1>1, WhereAdvance, Zenon
<1>3. ExactWhere(p, input, ml)
  BY ExactByKind, Zenon
<1>4. /\ p.phase = "match" => \/ p.part = 1 /\ p.total = 0
                              \/ p.part = 2 /\ p.total = 2
                              \/ p.part = 3
      /\ p.phase = "length" => p.part = 2 /\ p.total = 2
      /\ p.phase = "sum" => p.part = 2 /\ p.total = 3
  BY <1>1 DEF StandsWhere
<1>5. /\ Part(p) = Parts(p)[p.part] /\ Len(Parts(p)) = 3
      /\ Parts(p)[1].templates = <<Keyword("WHERE"), AnyIdentifier>>
      /\ IsRange(Parts(p)[2], "COMPARER", Comparer, Unequal)
  BY Zenon DEF Part, WhereKind, IsCertain
<1>6. n = IF WhereBegins(input, o) THEN ComparisonLength(input, o) ELSE 0
  <2>1. 3 # 1 /\ 3 # 2
    OBVIOUS
  <2> QED
    BY <1>5, <2>1, Zenon DEF Takable, ElementLength
<1>7. /\ WhereBegins(input, o) /\ c # 0 /\ IsValue(At(input, o + 3 + c)) => n = 3 + c
      /\ ~WhereBegins(input, o) \/ c = 0 \/ ~IsValue(At(input, o + 3 + c)) => n = 0
  BY <1>6, Zenon DEF ComparisonLength, Compares
<1>8. /\ o + 0 = o /\ 0 + 2 = 2 /\ (o + 2) + 1 = o + 3 /\ o + 2 \in Nat /\ 2 + 1 = 3
      /\ (o + (2 + c)) + 1 = o + 3 + c /\ 3 + c # 0 /\ 2 # 3 /\ 1 # 2 /\ 1 # 3
  BY <1>1
<1>9. CertainExact(p, input, ml)
  <2> SUFFICES ASSUME p.phase = "match", Part(p).range = Empty
               PROVE  /\ CertainCheck(Part(p).templates, input, o + p.total)
                           => OnwardTo(Advance(p, Len(Part(p).templates)), p, input, ml)
                      /\ ~CertainCheck(Part(p).templates, input, o + p.total) => n = 0
    BY Zenon DEF CertainExact
  <2>1. CASE p.part = 1 /\ p.total = 0
    <3>1. CertainCheck(Part(p).templates, input, o + p.total)
            <=> Fits(Keyword("WHERE"), At(input, o + 1)) /\ Fits(AnyIdentifier, At(input, o + 2))
      BY <1>5, <1>8, <2>1, Check2, Zenon
    <3>2. CertainCheck(Part(p).templates, input, o + p.total) <=> WhereBegins(input, o)
      BY <3>1, FitsWhat, Zenon DEF WhereBegins
    <3>3. ASSUME WhereBegins(input, o) PROVE OnwardTo(Match(p, 2, 2), p, input, ml)
      <4>1. PICK q : q = Match(p, 2, 2)
        OBVIOUS
      <4>2. /\ q.phase = "match" /\ q.pattern = p.pattern /\ q.element = p.element
            /\ q.part = 2 /\ q.offset = o /\ Parts(q) = Parts(p) /\ q.phase # "sum" /\ q.part # 3
        BY <4>1, MatchFields
      <4>3. ExactWhere(q, input, ml)
        BY <3>3, <4>2, Zenon DEF ExactWhere
      <4>4. Exact(q, input, ml)
        BY <4>2, <4>3, ExactByKind, Zenon
      <4> QED
        BY <4>1, <4>2, <4>4 DEF OnwardTo, IsWithinElement
    <3>4. Advance(p, Len(Part(p).templates)) = Match(p, 2, 2)
      BY <1>2, <1>8, <2>1, Zenon
    <3> HIDE DEF n, c
    <3> QED
      BY <1>7, <3>2, <3>3, <3>4, Zenon
  <2>2. CASE p.part = 3
    <3>1. /\ WhereBegins(input, o) /\ c # 0 /\ ml["COMPARER"] = c /\ p.total = 2 + c
      <4>1. 3 # 1
        OBVIOUS
      <4> QED
        BY <1>3, <2>2, <4>1, Zenon DEF ExactWhere
    <3>2. CertainCheck(Part(p).templates, input, o + p.total) <=> IsValue(At(input, o + 3 + c))
      <4>1. CertainCheck(Part(p).templates, input, o + p.total)
              <=> Fits(AnyValue, At(input, o + 3 + c))
        BY <1>2, <1>8, <2>2, <3>1, Check1, Zenon
      <4> QED
        BY <4>1, FitsWhat, Zenon
    <3>3. ASSUME IsValue(At(input, o + 3 + c)) PROVE OnwardTo(Sum(p, 2, 3), p, input, ml)
      <4>1. PICK q : q = Sum(p, 2, 3)
        OBVIOUS
      <4>2. /\ q.phase = "sum" /\ q.pattern = p.pattern /\ q.element = p.element
            /\ q.part = 2 /\ q.offset = o /\ Parts(q) = Parts(p) /\ q.part # 3
        BY <4>1, SumFields
      <4>3. ExactWhere(q, input, ml)
        BY <3>1, <3>3, <4>2, Zenon DEF ExactWhere
      <4>4. Exact(q, input, ml)
        BY <4>2, <4>3, ExactByKind, Zenon
      <4> QED
        BY <4>1, <4>2, <4>4 DEF OnwardTo, IsWithinElement
    <3>4. Advance(p, Len(Part(p).templates)) = Sum(p, 2, 3)
      BY <1>2, <2>2, Zenon
    <3> HIDE DEF n, c
    <3> QED
      BY <1>7, <3>2, <3>3, <3>4, Zenon
  <2> QED
    BY <1>2, <1>4, <2>1, <2>2, Zenon
<1>10. RangeExact(p, input, ml)
  <2> SUFFICES ASSUME p.phase = "match", Part(p).range # Empty, o + p.total < Len(input)
               PROVE  /\ RangeLength(Part(p), input, o + p.total) = 0 => n = 0
                      /\ \A m : /\ RangeLength(Part(p), input, o + p.total) # 0
                                /\ Found1(m, ml, Part(p).range, RangeLength(Part(p), input, o + p.total))
                                => OnwardTo(IF p.part = Len(Parts(p)) THEN Advance(p, 0)
                                            ELSE [p EXCEPT !.phase = "length"], p, input, m)
    BY Zenon DEF RangeExact
  <2>1. p.part = 2 /\ p.total = 2
    BY <1>2, <1>4, Zenon
  <2>2. WhereBegins(input, o)
    BY <1>3, <1>8, <2>1, Zenon DEF ExactWhere
  <2>3. RangeLength(Part(p), input, o + p.total) = c
    <3>1. o + 2 < Len(input) /\ o + 2 \in Nat
      BY <1>8, <2>1
    <3> QED
      BY <1>5, <2>1, <3>1, RangeLengths, Zenon
  <2>4. ASSUME NEW m, m[Part(p).range] = c, c # 0
        PROVE  OnwardTo([p EXCEPT !.phase = "length"], p, input, m)
    <3>1. PICK q : q = [p EXCEPT !.phase = "length"]
      OBVIOUS
    <3>2. /\ q.phase = "length" /\ q.pattern = p.pattern /\ q.element = p.element
          /\ q.part = 2 /\ q.offset = o /\ Parts(q) = Parts(p) /\ q.phase # "sum" /\ q.part # 3
      BY <2>1, <3>1, LengthFields
    <3>3. m["COMPARER"] = c
      BY <1>2, <2>1, <2>4, Zenon
    <3>4. ExactWhere(q, input, m)
      BY <2>2, <2>4, <3>2, <3>3, Zenon DEF ExactWhere
    <3>5. Exact(q, input, m)
      BY <3>2, <3>4, ExactByKind, Zenon
    <3> QED
      BY <3>1, <3>2, <3>5 DEF OnwardTo, IsWithinElement
  <2>5. p.part # Len(Parts(p))
    BY <1>5, <2>1
  <2> HIDE DEF n, c
  <2> QED
    BY <1>7, <2>3, <2>4, <2>5, Zenon DEF Found1
<1>11. LengthExact(p, input, ml)
  <2> SUFFICES ASSUME p.phase = "length"
               PROVE  OnwardTo(Advance(p, ml[Part(p).range]), p, input, ml)
    BY Zenon DEF LengthExact
  <2>1. p.part = 2 /\ p.total = 2 /\ p.phase # "match"
    BY <1>4
  <2>2. WhereBegins(input, o) /\ c # 0 /\ ml["COMPARER"] = c
    BY <1>3, <1>8, <2>1, Zenon DEF ExactWhere
  <2>3. PICK q : q = Match(p, 3, 2 + c)
    OBVIOUS
  <2>4. /\ q.phase = "match" /\ q.pattern = p.pattern /\ q.element = p.element
        /\ q.part = 3 /\ q.offset = o /\ Parts(q) = Parts(p) /\ q.phase # "sum" /\ q.total = 2 + c
    BY <2>3, MatchFields
  <2>5. ExactWhere(q, input, ml)
    BY <2>2, <2>4, Zenon DEF ExactWhere
  <2>6. Exact(q, input, ml)
    BY <2>4, <2>5, ExactByKind, Zenon
  <2>7. OnwardTo(q, p, input, ml)
    BY <2>4, <2>6 DEF OnwardTo, IsWithinElement
  <2> QED
    BY <1>2, <2>1, <2>2, <2>3, <2>7, Zenon
<1>12. SumExact(p, input, ml)
  <2> SUFFICES ASSUME p.phase = "sum"
               PROVE  OnwardTo(GetMatchLength(p, p.part + 1, p.total + ml[Part(p).range]), p, input, ml)
    BY Zenon DEF SumExact
  <2>1. p.part = 2 /\ p.total = 3 /\ p.phase # "match"
    BY <1>4
  <2>2. WhereBegins(input, o) /\ c # 0 /\ ml["COMPARER"] = c /\ IsValue(At(input, o + 3 + c))
    BY <1>3, <1>8, <2>1, Zenon DEF ExactWhere
  <2>3. GetMatchLength(p, p.part + 1, p.total + ml[Part(p).range]) = Taken(p, 3 + c)
    BY <1>2, <1>8, <2>1, <2>2, Zenon
  <2>4. n = 3 + c
    BY <1>7, <2>2
  <2> QED
    BY <1>8, <2>3, <2>4, Zenon DEF OnwardTo
<1> QED
  BY <1>9, <1>10, <1>11, <1>12, Zenon DEF GoesExactly

(* What there is to know at each place of a further condition.             *)
ConnectiveKnown(q, input, ml) ==
  IsConnective(At(input, q.offset + 1)) /\ ml["OPERATOR"] = 1

NameKnown(q, input) == At(input, q.offset + 2).type = "IDENTIFIER_T"

ComparerKnown(q, input, ml) ==
  /\ CompareLength(input, q.offset + 2) # 0
  /\ ml["NEXT_COMPARER"] = CompareLength(input, q.offset + 2)

ValueKnown(q, input) == IsValue(At(input, q.offset + 3 + CompareLength(input, q.offset + 2)))

LEMMA ExactNextIs ==
  ASSUME NEW q, NEW input, NEW ml
  PROVE  /\ q.phase = "length" /\ q.part = 1
              => (ExactNext(q, input, ml) <=> ConnectiveKnown(q, input, ml))
         /\ q.phase = "match" /\ q.part = 2
              => (ExactNext(q, input, ml) <=> ConnectiveKnown(q, input, ml) /\ q.total = 1)
         /\ q.phase = "match" /\ q.part = 3
              => (ExactNext(q, input, ml) <=> ConnectiveKnown(q, input, ml) /\ NameKnown(q, input))
         /\ q.phase = "length" /\ q.part = 3
              => (ExactNext(q, input, ml) <=> /\ ConnectiveKnown(q, input, ml) /\ NameKnown(q, input)
                                              /\ ComparerKnown(q, input, ml))
         /\ q.phase = "match" /\ q.part = 4
              => (ExactNext(q, input, ml) <=> /\ ConnectiveKnown(q, input, ml) /\ NameKnown(q, input)
                                              /\ ComparerKnown(q, input, ml)
                                              /\ q.total = 2 + CompareLength(input, q.offset + 2))
         /\ q.phase = "sum" /\ q.part = 1
              => (ExactNext(q, input, ml) <=> /\ ConnectiveKnown(q, input, ml) /\ NameKnown(q, input)
                                              /\ ComparerKnown(q, input, ml) /\ ValueKnown(q, input))
         /\ q.phase = "sum" /\ q.part = 3
              => (ExactNext(q, input, ml) <=> /\ IsConnective(At(input, q.offset + 1))
                                              /\ NameKnown(q, input)
                                              /\ ComparerKnown(q, input, ml) /\ ValueKnown(q, input)
                                              /\ q.total = 3)
<1> USE DEF ConnectiveKnown, NameKnown, ComparerKnown, ValueKnown
<1>1. ASSUME q.phase = "length", q.part = 1
      PROVE  ExactNext(q, input, ml) <=> ConnectiveKnown(q, input, ml)
  <2>1. q.phase # "match" /\ q.phase # "sum" /\ q.part \notin {2, 4} /\ q.part \notin {3, 4}
        /\ q.part # 2 /\ q.part # 3 /\ q.part # 4
    BY <1>1
  <2> QED
    BY <1>1, <2>1, Zenon DEF ExactNext
<1>2. ASSUME q.phase = "match", q.part = 2
      PROVE  ExactNext(q, input, ml) <=> ConnectiveKnown(q, input, ml) /\ q.total = 1
  <2>1. q.phase # "length" /\ q.phase # "sum" /\ q.part \in {2, 4} /\ q.part \notin {3, 4}
        /\ q.part # 1 /\ q.part # 3 /\ q.part # 4
    BY <1>2
  <2> QED
    BY <1>2, <2>1, Zenon DEF ExactNext
<1>3. ASSUME q.phase = "match", q.part = 3
      PROVE  ExactNext(q, input, ml) <=> ConnectiveKnown(q, input, ml) /\ NameKnown(q, input)
  <2>1. q.phase # "length" /\ q.phase # "sum" /\ q.part \notin {2, 4} /\ q.part \in {3, 4}
        /\ q.part # 1 /\ q.part # 2 /\ q.part # 4
    BY <1>3
  <2> QED
    BY <1>3, <2>1, Zenon DEF ExactNext
<1>4. ASSUME q.phase = "length", q.part = 3
      PROVE  ExactNext(q, input, ml) <=> /\ ConnectiveKnown(q, input, ml) /\ NameKnown(q, input)
                                         /\ ComparerKnown(q, input, ml)
  <2>1. q.phase # "match" /\ q.phase # "sum" /\ q.part \notin {2, 4} /\ q.part \in {3, 4}
        /\ q.part # 1 /\ q.part # 2 /\ q.part # 4
    BY <1>4
  <2> QED
    BY <1>4, <2>1, Zenon DEF ExactNext
<1>5. ASSUME q.phase = "match", q.part = 4
      PROVE  ExactNext(q, input, ml) <=> /\ ConnectiveKnown(q, input, ml) /\ NameKnown(q, input)
                                         /\ ComparerKnown(q, input, ml)
                                         /\ q.total = 2 + CompareLength(input, q.offset + 2)
  <2>1. q.phase # "length" /\ q.phase # "sum" /\ q.part \in {2, 4} /\ q.part \in {3, 4}
        /\ q.part # 1 /\ q.part # 2 /\ q.part # 3
    BY <1>5
  <2> QED
    BY <1>5, <2>1, Zenon DEF ExactNext
<1>6. ASSUME q.phase = "sum", q.part = 1
      PROVE  ExactNext(q, input, ml) <=> /\ ConnectiveKnown(q, input, ml) /\ NameKnown(q, input)
                                         /\ ComparerKnown(q, input, ml) /\ ValueKnown(q, input)
  <2>1. q.phase # "match" /\ q.phase # "length" /\ q.part \notin {2, 4} /\ q.part \notin {3, 4}
        /\ q.part # 2 /\ q.part # 3 /\ q.part # 4
    BY <1>6
  <2> QED
    BY <1>6, <2>1, Zenon DEF ExactNext
<1>7. ASSUME q.phase = "sum", q.part = 3
      PROVE  ExactNext(q, input, ml) <=> /\ IsConnective(At(input, q.offset + 1))
                                         /\ NameKnown(q, input)
                                         /\ ComparerKnown(q, input, ml) /\ ValueKnown(q, input)
                                         /\ q.total = 3
  <2>1. q.phase # "match" /\ q.phase # "length" /\ q.part \notin {2, 4} /\ q.part \in {3, 4}
        /\ q.part # 1 /\ q.part # 2 /\ q.part # 4
    BY <1>7
  <2> QED
    BY <1>7, <2>1, Zenon DEF ExactNext
<1> HIDE DEF ConnectiveKnown, NameKnown, ComparerKnown, ValueKnown
<1> QED
  BY <1>1, <1>2, <1>3, <1>4, <1>5, <1>6, <1>7, Zenon

(* The next place in an element of a further condition.                    *)
LEMMA NextOnward ==
  ASSUME NEW p, NextKind(Parts(p)), NEW input, NEW ml, NEW q, IsWithinElement(q, p),
         Parts(q) = Parts(p), ExactNext(q, input, ml)
  PROVE  OnwardTo(q, p, input, ml)
<1>1. Exact(q, input, ml)
  BY ExactByKind, Zenon
<1> QED
  BY <1>1, Zenon DEF OnwardTo

LEMMA NextExact ==
  ASSUME NEW input \in Seq(AnyToken), NEW p \in PlaceSet, Matching(p), StandsIn(p, input),
         NextKind(Parts(p)), NEW ml, Exact(p, input, ml)
  PROVE  GoesExactly(p, input, ml)
<1> DEFINE o == p.offset
           n == Takable(p, input)
           c == CompareLength(input, o + 2)
<1>1. /\ StandsNext(p, input) /\ o \in Nat /\ p.part \in 1 .. 4 /\ c \in 0 .. 2
  BY KindStands, ComparerLength DEF StandsNext, PlaceSet
<1>2. /\ p.part = 1 => /\ Part(p).range = "OPERATOR" /\ Part(p).range # Empty
                       /\ \A l : Advance(p, l) = Match(p, 2, p.total + l)
      /\ p.part = 2 => /\ Part(p).range = Empty /\ Part(p).templates = <<AnyIdentifier>>
                       /\ \A l : Advance(p, l) = Match(p, 3, p.total + l)
      /\ p.part = 3 => /\ Part(p).range = "NEXT_COMPARER" /\ Part(p).range # Empty
                       /\ \A l : Advance(p, l) = Match(p, 4, p.total + l)
      /\ p.part = 4 => /\ Part(p).range = Empty /\ Part(p).templates = <<AnyValue>>
                       /\ \A l : Advance(p, l) = Sum(p, 1, 2)
      /\ \A t : GetMatchLength(p, 2, t) = Sum(p, 3, t)
      /\ \A t : GetMatchLength(p, 4, t) = Taken(p, t)
  BY <1>1, NextAdvance, Zenon
<1>3. ExactNext(p, input, ml)
  BY ExactByKind, Zenon
<1>4. /\ p.phase = "match" => \/ p.part = 1 /\ p.total = 0
                              \/ p.part = 2
                              \/ p.part = 3 /\ p.total = 2
                              \/ p.part = 4
      /\ p.phase = "length" => (p.part = 1 /\ p.total = 0) \/ (p.part = 3 /\ p.total = 2)
      /\ p.phase = "sum" => (p.part = 1 /\ p.total = 2) \/ p.part = 3
  BY <1>1 DEF StandsNext
<1>5. /\ Part(p) = Parts(p)[p.part] /\ Len(Parts(p)) = 4
      /\ IsRange(Parts(p)[1], "OPERATOR", <<Keyword("AND"), Keyword("OR")>>, <<>>)
      /\ IsRange(Parts(p)[3], "NEXT_COMPARER", Comparer, Unequal)
  BY Zenon DEF Part, NextKind, IsCertain
<1>6. n = IF NextBegins(input, o) THEN ComparisonLength(input, o) ELSE 0
  <2>1. 4 # 1 /\ 4 # 2 /\ 4 # 3
    OBVIOUS
  <2> QED
    BY <1>5, <2>1, Zenon DEF Takable, ElementLength
<1>7. /\ IsConnective(At(input, o + 1)) /\ NameKnown(p, input) /\ c # 0 /\ ValueKnown(p, input)
           => n = 3 + c
      /\ ~IsConnective(At(input, o + 1)) => n = 0
      /\ ~NameKnown(p, input) => n = 0
      /\ c = 0 => n = 0
      /\ ~ValueKnown(p, input) => n = 0
  BY <1>6, Zenon DEF ComparisonLength, Compares, NextBegins, NameKnown, ValueKnown
<1>8. /\ o + 0 = o /\ 0 + 1 = 1 /\ (o + 2) + 1 = o + 3 /\ o + 2 \in Nat /\ 2 + 1 = 3 /\ 1 + 1 = 2
      /\ (o + 1) + 1 = o + 2 /\ 3 + 1 = 4
      /\ (o + (2 + c)) + 1 = o + 3 + c /\ 3 + c # 0 /\ 1 # 0 /\ 1 # 4 /\ 3 # 4
  BY <1>1
<1>9. /\ p.part = 2 => Len(Part(p).templates) = 1
      /\ p.part = 4 => Len(Part(p).templates) = 1
  BY <1>2, Lengths1, Zenon
<1>10. CertainExact(p, input, ml)
  <2> SUFFICES ASSUME p.phase = "match", Part(p).range = Empty
               PROVE  /\ CertainCheck(Part(p).templates, input, o + p.total)
                           => OnwardTo(Advance(p, Len(Part(p).templates)), p, input, ml)
                      /\ ~CertainCheck(Part(p).templates, input, o + p.total) => n = 0
    BY Zenon DEF CertainExact
  <2>1. CASE p.part = 2
    <3>1. ConnectiveKnown(p, input, ml) /\ p.total = 1
      BY <1>3, <2>1, ExactNextIs, Zenon
    <3>2. CertainCheck(Part(p).templates, input, o + p.total) <=> NameKnown(p, input)
      <4>1. CertainCheck(Part(p).templates, input, o + p.total)
              <=> Fits(AnyIdentifier, At(input, o + 2))
        BY <1>2, <1>8, <2>1, <3>1, Check1, Zenon
      <4> QED
        BY <4>1, FitsWhat, Zenon DEF NameKnown
    <3>3. ASSUME NameKnown(p, input) PROVE OnwardTo(Match(p, 3, 2), p, input, ml)
      <4>1. PICK q : q = Match(p, 3, 2)
        OBVIOUS
      <4>2. /\ q.phase = "match" /\ q.pattern = p.pattern /\ q.element = p.element
            /\ q.part = 3 /\ q.offset = o /\ Parts(q) = Parts(p)
        BY <4>1, MatchFields
      <4>3. ConnectiveKnown(q, input, ml) /\ NameKnown(q, input)
        BY <3>1, <3>3, <4>2, Zenon DEF ConnectiveKnown, NameKnown
      <4>4. ExactNext(q, input, ml) /\ IsWithinElement(q, p)
        BY <4>2, <4>3, ExactNextIs DEF IsWithinElement
      <4> QED
        BY <4>1, <4>2, <4>4, NextOnward, Zenon
    <3>4. Len(Part(p).templates) = 1
      BY <1>9, <2>1
    <3>5. Advance(p, Len(Part(p).templates)) = Match(p, 3, 2)
      BY <1>2, <1>8, <2>1, <3>1, <3>4, Zenon
    <3> HIDE DEF n, c
    <3> QED
      BY <1>7, <3>2, <3>3, <3>5, Zenon
  <2>2. CASE p.part = 4
    <3>1. /\ ConnectiveKnown(p, input, ml) /\ NameKnown(p, input) /\ ComparerKnown(p, input, ml)
          /\ p.total = 2 + c
      BY <1>3, <2>2, ExactNextIs, Zenon
    <3>2. CertainCheck(Part(p).templates, input, o + p.total) <=> ValueKnown(p, input)
      <4>1. CertainCheck(Part(p).templates, input, o + p.total)
              <=> Fits(AnyValue, At(input, o + 3 + c))
        BY <1>2, <1>8, <2>2, <3>1, Check1, Zenon
      <4> QED
        BY <4>1, FitsWhat, Zenon DEF ValueKnown
    <3>3. ASSUME ValueKnown(p, input) PROVE OnwardTo(Sum(p, 1, 2), p, input, ml)
      <4>1. PICK q : q = Sum(p, 1, 2)
        OBVIOUS
      <4>2. /\ q.phase = "sum" /\ q.pattern = p.pattern /\ q.element = p.element
            /\ q.part = 1 /\ q.offset = o /\ Parts(q) = Parts(p)
        BY <4>1, SumFields
      <4>3. /\ ConnectiveKnown(q, input, ml) /\ NameKnown(q, input)
            /\ ComparerKnown(q, input, ml) /\ ValueKnown(q, input)
        BY <3>1, <3>3, <4>2, Zenon DEF ConnectiveKnown, NameKnown, ComparerKnown, ValueKnown
      <4>4. ExactNext(q, input, ml) /\ IsWithinElement(q, p)
        BY <4>2, <4>3, ExactNextIs DEF IsWithinElement
      <4> QED
        BY <4>1, <4>2, <4>4, NextOnward, Zenon
    <3>4. Advance(p, Len(Part(p).templates)) = Sum(p, 1, 2)
      BY <1>2, <2>2, Zenon
    <3>5. IsConnective(At(input, o + 1)) /\ c # 0 /\ NameKnown(p, input)
      BY <3>1, Zenon DEF ConnectiveKnown, ComparerKnown
    <3> HIDE DEF n, c
    <3> QED
      BY <1>7, <3>2, <3>3, <3>4, <3>5, Zenon
  <2> QED
    BY <1>2, <1>4, <2>1, <2>2, Zenon
<1>11. RangeExact(p, input, ml)
  <2> SUFFICES ASSUME p.phase = "match", Part(p).range # Empty, o + p.total < Len(input)
               PROVE  /\ RangeLength(Part(p), input, o + p.total) = 0 => n = 0
                      /\ \A m : /\ RangeLength(Part(p), input, o + p.total) # 0
                                /\ Found1(m, ml, Part(p).range, RangeLength(Part(p), input, o + p.total))
                                => OnwardTo(IF p.part = Len(Parts(p)) THEN Advance(p, 0)
                                            ELSE [p EXCEPT !.phase = "length"], p, input, m)
    BY Zenon DEF RangeExact
  <2>1. PICK q : q = [p EXCEPT !.phase = "length"]
    OBVIOUS
  <2>2. /\ q.phase = "length" /\ q.pattern = p.pattern /\ q.element = p.element
        /\ q.part = p.part /\ q.offset = o /\ Parts(q) = Parts(p) /\ IsWithinElement(q, p)
    BY <2>1, LengthFields DEF IsWithinElement
  <2>3. CASE p.part = 1 /\ p.total = 0
    <3>1. /\ IsConnective(At(input, o + 1)) => RangeLength(Part(p), input, o + p.total) = 1
          /\ ~IsConnective(At(input, o + 1)) => RangeLength(Part(p), input, o + p.total) = 0
      <4>1. o < Len(input)
        BY <1>8, <2>3
      <4>2. RangeLength(Part(p), input, o) = IF IsConnective(At(input, o + 1)) THEN 1 ELSE 0
        BY <1>1, <1>5, <2>3, <4>1, RangeLengths, Zenon
      <4> QED
        BY <1>8, <2>3, <4>2, Zenon
    <3>2. ASSUME NEW m, m[Part(p).range] = 1, IsConnective(At(input, o + 1))
          PROVE  OnwardTo(q, p, input, m)
      <4>1. m["OPERATOR"] = 1
        BY <1>2, <2>3, <3>2, Zenon
      <4>2. ConnectiveKnown(q, input, m)
        BY <2>2, <3>2, <4>1, Zenon DEF ConnectiveKnown
      <4>3. ExactNext(q, input, m)
        BY <2>2, <2>3, <4>2, ExactNextIs, Zenon
      <4> QED
        BY <2>2, <4>3, NextOnward, Zenon
    <3>3. p.part # Len(Parts(p))
      BY <1>5, <2>3
    <3> HIDE DEF n, c
    <3> QED
      BY <1>7, <1>8, <2>1, <3>1, <3>2, <3>3, Zenon DEF Found1
  <2>4. CASE p.part = 3 /\ p.total = 2
    <3>1. ConnectiveKnown(p, input, ml) /\ NameKnown(p, input)
      BY <1>3, <2>4, ExactNextIs, Zenon
    <3>2. RangeLength(Part(p), input, o + p.total) = c
      <4>1. o + 2 < Len(input)
        BY <2>4
      <4> QED
        BY <1>5, <1>8, <2>4, <4>1, RangeLengths, Zenon
    <3>3. ASSUME NEW m, Found1(m, ml, Part(p).range, c), c # 0
          PROVE  OnwardTo(q, p, input, m)
      <4>1. "OPERATOR" \in RangeName /\ "OPERATOR" # "NEXT_COMPARER"
        BY RangeNames
      <4>2. m["NEXT_COMPARER"] = c /\ m["OPERATOR"] = ml["OPERATOR"]
        BY <1>2, <2>4, <3>3, <4>1, Zenon DEF Found1
      <4>3. ConnectiveKnown(q, input, m) /\ NameKnown(q, input) /\ ComparerKnown(q, input, m)
        BY <2>2, <3>1, <3>3, <4>2, Zenon DEF ConnectiveKnown, NameKnown, ComparerKnown
      <4>4. ExactNext(q, input, m)
        BY <2>2, <2>4, <4>3, ExactNextIs, Zenon
      <4> QED
        BY <2>2, <4>4, NextOnward, Zenon
    <3>4. p.part # Len(Parts(p))
      BY <1>5, <2>4
    <3> HIDE DEF n, c
    <3> QED
      BY <1>7, <2>1, <3>2, <3>3, <3>4, Zenon
  <2> QED
    BY <1>2, <1>4, <2>3, <2>4, Zenon
<1>12. LengthExact(p, input, ml)
  <2> SUFFICES ASSUME p.phase = "length"
               PROVE  OnwardTo(Advance(p, ml[Part(p).range]), p, input, ml)
    BY Zenon DEF LengthExact
  <2>1. CASE p.part = 1 /\ p.total = 0
    <3>1. ConnectiveKnown(p, input, ml)
      BY <1>3, <2>1, ExactNextIs, Zenon
    <3>2. PICK q : q = Match(p, 2, 1)
      OBVIOUS
    <3>3. /\ q.phase = "match" /\ q.pattern = p.pattern /\ q.element = p.element
          /\ q.part = 2 /\ q.offset = o /\ Parts(q) = Parts(p) /\ q.total = 1
      BY <3>2, MatchFields
    <3>4. ConnectiveKnown(q, input, ml)
      BY <3>1, <3>3, Zenon DEF ConnectiveKnown
    <3>5. ExactNext(q, input, ml) /\ IsWithinElement(q, p)
      BY <3>3, <3>4, ExactNextIs DEF IsWithinElement
    <3>6. OnwardTo(q, p, input, ml)
      BY <3>3, <3>5, NextOnward, Zenon
    <3>7. ml[Part(p).range] = 1
      BY <1>2, <2>1, <3>1, Zenon DEF ConnectiveKnown
    <3> QED
      BY <1>2, <1>8, <2>1, <3>2, <3>6, <3>7, Zenon
  <2>2. CASE p.part = 3 /\ p.total = 2
    <3>1. ConnectiveKnown(p, input, ml) /\ NameKnown(p, input) /\ ComparerKnown(p, input, ml)
      BY <1>3, <2>2, ExactNextIs, Zenon
    <3>2. PICK q : q = Match(p, 4, 2 + c)
      OBVIOUS
    <3>3. /\ q.phase = "match" /\ q.pattern = p.pattern /\ q.element = p.element
          /\ q.part = 4 /\ q.offset = o /\ Parts(q) = Parts(p) /\ q.total = 2 + c
      BY <3>2, MatchFields
    <3>4. /\ ConnectiveKnown(q, input, ml) /\ NameKnown(q, input) /\ ComparerKnown(q, input, ml)
          /\ q.total = 2 + CompareLength(input, q.offset + 2)
      BY <3>1, <3>3, Zenon DEF ConnectiveKnown, NameKnown, ComparerKnown
    <3>5. ExactNext(q, input, ml) /\ IsWithinElement(q, p)
      BY <3>3, <3>4, ExactNextIs DEF IsWithinElement
    <3>6. OnwardTo(q, p, input, ml)
      BY <3>3, <3>5, NextOnward, Zenon
    <3>7. ml[Part(p).range] = c
      BY <1>2, <2>2, <3>1, Zenon DEF ComparerKnown
    <3> QED
      BY <1>2, <2>2, <3>2, <3>6, <3>7, Zenon
  <2> QED
    BY <1>4, <2>1, <2>2, Zenon
<1>13. SumExact(p, input, ml)
  <2> SUFFICES ASSUME p.phase = "sum"
               PROVE  OnwardTo(GetMatchLength(p, p.part + 1, p.total + ml[Part(p).range]), p, input, ml)
    BY Zenon DEF SumExact
  <2>1. CASE p.part = 1 /\ p.total = 2
    <3>1. /\ ConnectiveKnown(p, input, ml) /\ NameKnown(p, input)
          /\ ComparerKnown(p, input, ml) /\ ValueKnown(p, input)
      BY <1>3, <2>1, ExactNextIs, Zenon
    <3>2. PICK q : q = Sum(p, 3, 3)
      OBVIOUS
    <3>3. /\ q.phase = "sum" /\ q.pattern = p.pattern /\ q.element = p.element
          /\ q.part = 3 /\ q.offset = o /\ Parts(q) = Parts(p) /\ q.total = 3
      BY <3>2, SumFields
    <3>4. /\ IsConnective(At(input, q.offset + 1)) /\ NameKnown(q, input)
          /\ ComparerKnown(q, input, ml) /\ ValueKnown(q, input)
      BY <3>1, <3>3, Zenon DEF ConnectiveKnown, NameKnown, ComparerKnown, ValueKnown
    <3>5. ExactNext(q, input, ml) /\ IsWithinElement(q, p)
      BY <3>3, <3>4, ExactNextIs DEF IsWithinElement
    <3>6. OnwardTo(q, p, input, ml)
      BY <3>3, <3>5, NextOnward, Zenon
    <3>7. ml[Part(p).range] = 1
      BY <1>2, <2>1, <3>1, Zenon DEF ConnectiveKnown
    <3> QED
      BY <1>2, <1>8, <2>1, <3>2, <3>6, <3>7, Zenon
  <2>2. CASE p.part = 3
    <3>1. /\ IsConnective(At(input, o + 1)) /\ NameKnown(p, input)
          /\ ComparerKnown(p, input, ml) /\ ValueKnown(p, input) /\ p.total = 3
      BY <1>3, <2>2, ExactNextIs, Zenon
    <3>2. ml[Part(p).range] = c /\ c # 0
      BY <1>2, <2>2, <3>1, Zenon DEF ComparerKnown
    <3>3. GetMatchLength(p, p.part + 1, p.total + ml[Part(p).range]) = Taken(p, 3 + c)
      BY <1>2, <1>8, <2>2, <3>1, <3>2, Zenon
    <3>4. n = 3 + c
      BY <1>7, <3>1, <3>2, Zenon
    <3> QED
      BY <1>8, <3>3, <3>4, Zenon DEF OnwardTo
  <2> QED
    BY <1>4, <2>1, <2>2, Zenon
<1> QED
  BY <1>10, <1>11, <1>12, <1>13, Zenon DEF GoesExactly

LEMMA AllExact ==
  ASSUME NEW input \in Seq(AnyToken), NEW p \in PlaceSet, Matching(p), StandsIn(p, input),
         NEW ml, Exact(p, input, ml)
  PROVE  GoesExactly(p, input, ml)
<1>1. \/ TokensKind(Parts(p)) \/ ChoiceKind(Parts(p)) \/ ColumnKind(Parts(p))
      \/ WhereKind(Parts(p)) \/ NextKind(Parts(p))
  BY KindHere, Zenon DEF StandsIn
<1> QED
  BY <1>1, TokensExact, ChoiceExact, ColumnExact, WhereExact, NextExact, Zenon

-----------------------------------------------------------------------------
(* What a worker has found does not depend on lengths that it has not      *)
(* found, or need not read any more.                                       *)
LEMMA UnreadIs ==
  ASSUME NEW p, NEW i, Parts(p)[i].range # Empty,
         \/ p.phase = "match" /\ i \in 1 .. p.part - 1
         \/ p.phase = "length" /\ i \in 1 .. p.part
         \/ p.phase = "sum" /\ i \in p.part .. Len(Parts(p))
  PROVE  Parts(p)[i].range \in Unread(p)
<1> DEFINE found == CASE p.phase = "match" -> 1 .. p.part - 1
                      [] p.phase = "length" -> 1 .. p.part
                      [] p.phase = "sum" -> p.part .. Len(Parts(p))
                      [] OTHER -> {}
<1>1. i \in found
  <2>1. CASE p.phase = "match" /\ i \in 1 .. p.part - 1
    <3>1. p.phase # "length" /\ p.phase # "sum"
      BY <2>1
    <3> QED
      BY <2>1, <3>1, Zenon
  <2>2. CASE p.phase = "length" /\ i \in 1 .. p.part
    <3>1. p.phase # "match" /\ p.phase # "sum"
      BY <2>2
    <3> QED
      BY <2>2, <3>1, Zenon
  <2>3. CASE p.phase = "sum" /\ i \in p.part .. Len(Parts(p))
    <3>1. p.phase # "match" /\ p.phase # "length"
      BY <2>3
    <3> QED
      BY <2>3, <3>1, Zenon
  <2> QED
    BY <2>1, <2>2, <2>3, Zenon
<1>2. Unread(p) = {Parts(p)[j].range : j \in found} \ {Empty}
  BY Zenon DEF Unread
<1> HIDE DEF found
<1> QED
  BY <1>1, <1>2, Zenon

SameUnread(p, ml, m) == \A r \in Unread(p) \cap RangeName : m[r] = ml[r]

LEMMA UnreadOne ==
  ASSUME NEW input, NEW p, NEW ml, NEW m, Matching(p), StandsIn(p, input),
         TokensKind(Parts(p)) \/ ChoiceKind(Parts(p)), ExactOne(p, input, ml), SameUnread(p, ml, m)
  PROVE  ExactOne(p, input, m)
<1> SUFFICES ASSUME p.phase = "sum"
             PROVE  ElementLength(Parts(p), input, p.offset) = 1 /\ m[Part(p).range] = 1
  BY Zenon DEF ExactOne
<1>1. ElementLength(Parts(p), input, p.offset) = 1 /\ ml[Part(p).range] = 1
  BY Zenon DEF ExactOne
<1>2. StandsOne(p, input)
  BY KindStands, Zenon
<1>3. p.part = 1 /\ Part(p).range # Empty /\ p.phase # "match"
  BY <1>2, Zenon DEF StandsOne
<1>4. Part(p) = Parts(p)[1] /\ Len(Parts(p)) = 1
  BY <1>3, Zenon DEF Part, TokensKind, ChoiceKind
<1>5. 1 \in p.part .. Len(Parts(p))
  BY <1>3, <1>4
<1>6. Part(p).range \in Unread(p)
  BY <1>3, <1>4, <1>5, UnreadIs, Zenon
<1>7. Part(p).range \in RangeName
  BY <1>3, <1>4, RangeNames, Zenon DEF TokensKind, ChoiceKind, IsRange
<1> QED
  BY <1>1, <1>6, <1>7, Zenon DEF SameUnread

LEMMA UnreadColumn ==
  ASSUME NEW input, NEW p, NEW ml, NEW m, Matching(p), StandsIn(p, input),
         ColumnKind(Parts(p)), ExactColumn(p, input, ml), SameUnread(p, ml, m)
  PROVE  ExactColumn(p, input, m)
<1>1. StandsColumn(p, input)
  BY KindStands, Zenon
<1>2. ASSUME p.phase = "sum" PROVE m["NEXT_VALUE_TYPE"] = 1
  <2>1. p.part = 2 /\ Len(Parts(p)) = 2
    BY <1>1, <1>2 DEF StandsColumn, ColumnKind
  <2>2. Parts(p)[2].range = "NEXT_VALUE_TYPE"
    BY Zenon DEF ColumnKind, IsRange
  <2>3. 2 \in p.part .. Len(Parts(p)) /\ "NEXT_VALUE_TYPE" # Empty
    BY <2>1, RangesNamed, RangeNames
  <2>4. "NEXT_VALUE_TYPE" \in Unread(p)
    BY <1>2, <2>2, <2>3, UnreadIs, Zenon
  <2> QED
    BY <1>2, <2>4, RangeNames, Zenon DEF ExactColumn, SameUnread
<1> QED
  BY <1>2, Zenon DEF ExactColumn

LEMMA UnreadWhere ==
  ASSUME NEW input, NEW p, NEW ml, NEW m, Matching(p), StandsIn(p, input),
         WhereKind(Parts(p)), ExactWhere(p, input, ml), SameUnread(p, ml, m)
  PROVE  ExactWhere(p, input, m)
<1>1. StandsWhere(p, input) /\ Len(Parts(p)) = 3
  BY KindStands, Zenon DEF WhereKind
<1>2. ASSUME p.phase # "match" \/ p.part = 3 PROVE m["COMPARER"] = ml["COMPARER"]
  <2>1. Parts(p)[2].range = "COMPARER"
    BY Zenon DEF WhereKind, IsRange
  <2>2. "COMPARER" # Empty
    BY RangesNamed, RangeNames
  <2>3. \/ p.phase = "match" /\ 2 \in 1 .. p.part - 1
        \/ p.phase = "length" /\ 2 \in 1 .. p.part
        \/ p.phase = "sum" /\ 2 \in p.part .. Len(Parts(p))
    BY <1>1, <1>2 DEF StandsWhere
  <2>4. "COMPARER" \in Unread(p)
    BY <2>1, <2>2, <2>3, UnreadIs, Zenon
  <2> QED
    BY <2>4, RangeNames, Zenon DEF SameUnread
<1> QED
  BY <1>2, Zenon DEF ExactWhere

LEMMA UnreadNext ==
  ASSUME NEW input, NEW p, NEW ml, NEW m, Matching(p), StandsIn(p, input),
         NextKind(Parts(p)), ExactNext(p, input, ml), SameUnread(p, ml, m)
  PROVE  ExactNext(p, input, m)
<1> DEFINE Opened == \/ p.phase = "length" \/ p.part \in {2, 4} \/ (p.phase = "match" /\ p.part = 3)
                      \/ (p.phase = "sum" /\ p.part = 1)
           Comparing == p.phase = "sum" \/ p.part = 4 \/ (p.phase = "length" /\ p.part = 3)
<1>1. StandsNext(p, input) /\ Len(Parts(p)) = 4
  BY KindStands, Zenon DEF NextKind
<1>2. /\ Parts(p)[1].range = "OPERATOR" /\ Parts(p)[3].range = "NEXT_COMPARER"
  BY Zenon DEF NextKind, IsRange
<1>3. "OPERATOR" # Empty /\ "NEXT_COMPARER" # Empty
  BY RangesNamed, RangeNames
<1>4. ASSUME Opened PROVE m["OPERATOR"] = ml["OPERATOR"]
  <2>1. \/ p.phase = "match" /\ 1 \in 1 .. p.part - 1
        \/ p.phase = "length" /\ 1 \in 1 .. p.part
        \/ p.phase = "sum" /\ 1 \in p.part .. Len(Parts(p))
    BY <1>1, <1>4 DEF StandsNext
  <2>2. "OPERATOR" \in Unread(p)
    BY <1>2, <1>3, <2>1, UnreadIs, Zenon
  <2> QED
    BY <2>2, RangeNames, Zenon DEF SameUnread
<1>5. ASSUME Comparing PROVE m["NEXT_COMPARER"] = ml["NEXT_COMPARER"]
  <2>1. \/ p.phase = "match" /\ 3 \in 1 .. p.part - 1
        \/ p.phase = "length" /\ 3 \in 1 .. p.part
        \/ p.phase = "sum" /\ 3 \in p.part .. Len(Parts(p))
    BY <1>1, <1>5 DEF StandsNext
  <2>2. "NEXT_COMPARER" \in Unread(p)
    BY <1>2, <1>3, <2>1, UnreadIs, Zenon
  <2> QED
    BY <2>2, RangeNames, Zenon DEF SameUnread
<1> QED
  BY <1>4, <1>5, Zenon DEF ExactNext

LEMMA UnreadExact ==
  ASSUME NEW input, NEW p, NEW ml, NEW m, Matching(p), StandsIn(p, input),
         Exact(p, input, ml), SameUnread(p, ml, m)
  PROVE  Exact(p, input, m)
<1>1. \/ TokensKind(Parts(p)) \/ ChoiceKind(Parts(p)) \/ ColumnKind(Parts(p))
      \/ WhereKind(Parts(p)) \/ NextKind(Parts(p))
  BY KindHere, Zenon DEF StandsIn
<1> QED
  BY <1>1, ExactByKind, UnreadOne, UnreadColumn, UnreadWhere, UnreadNext, Zenon

-----------------------------------------------------------------------------
(* What an undisturbed worker knows of its statement: it is no sentence of *)
(* the patterns before, and a sentence of this one if what is left of it   *)
(* is one of what is left of the pattern; the elements before have taken   *)
(* no semicolon; and, when it has the tree to build, of which pattern it   *)
(* is a sentence.                                                          *)
IsSentence(k, input) == Derives(ALL_PATTERNS[k], input)

NoneBefore(k, input) == \A i \in 1 .. 4 : i < k => ~IsSentence(i, input)

OnTrack(p, input) ==
  /\ p.offset \in 0 .. Len(input)
  /\ NoneBefore(p.pattern, input)
  /\ IsSentence(p.pattern, input) <=> Continues(p.pattern, input, p.element, p.offset)
  /\ Clear(p.offset, input)

Verdict(p, input) == {p.pattern} \cap (1 .. 4) = {i \in 1 .. 4 : IsSentence(i, input)}

Sound(p, input, ml) ==
  /\ Matching(p) => Exact(p, input, ml) /\ OnTrack(p, input)
  /\ p.phase = "build" => Verdict(p, input)

LEMMA EnterSound ==
  ASSUME NEW input \in Seq(AnyToken), NEW k \in 1 .. 4,
         NEW e \in 1 .. Len(ALL_PATTERNS[k]) + 1, NEW o \in 0 .. Len(input),
         NoneBefore(k, input), IsSentence(k, input) <=> Continues(k, input, e, o),
         e <= Len(ALL_PATTERNS[k]) => Clear(o, input), NEW ml
  PROVE  Sound(EnterElement(k, e, o), input, ml)
<1>1. CASE e > Len(ALL_PATTERNS[k])
  <2>1. PICK q : q = Place("build", k, 1, 1, 0, 0)
    OBVIOUS
  <2>2. q.phase = "build" /\ q.pattern = k
    BY <2>1, PlaceIs
  <2>3. ~Matching(q)
    BY <2>2 DEF Matching
  <2>4. IsSentence(k, input)
    BY <1>1, Continuing, Zenon
  <2>5. \A i \in 1 .. 4 : IsSentence(i, input) <=> i = k
    BY <2>4, OnePattern, Zenon DEF IsSentence
  <2>6. {k} \cap (1 .. 4) = {i \in 1 .. 4 : IsSentence(i, input)}
    BY <2>5, Zenon
  <2>7. EnterElement(k, e, o) = q
    BY <1>1, <2>1, Zenon DEF EnterElement
  <2> QED
    BY <2>2, <2>3, <2>6, <2>7, Zenon DEF Sound, Verdict
<1>2. CASE ~(e > Len(ALL_PATTERNS[k]))
  <2>1. PICK q : q = Place("match", k, e, 1, o, 0)
    OBVIOUS
  <2>2. q.phase = "match" /\ q.pattern = k /\ q.element = e /\ q.part = 1 /\ q.offset = o
    BY <2>1, PlaceIs
  <2>3. /\ q.phase # "sum" /\ q.phase # "length" /\ q.phase # "build"
        /\ q.part # 2 /\ q.part # 3 /\ q.part # 4 /\ q.part \notin {2, 4} /\ q.part \notin {3, 4}
    BY <2>2
  <2>4. ExactOne(q, input, ml) /\ ExactColumn(q, input, ml)
    BY <2>3, Zenon DEF ExactOne, ExactColumn
  <2>5. ExactWhere(q, input, ml)
    BY <2>2, <2>3, Zenon DEF ExactWhere
  <2>6. ExactNext(q, input, ml)
    BY <2>2, <2>3, Zenon DEF ExactNext
  <2>7. Exact(q, input, ml)
    BY <2>4, <2>5, <2>6, Zenon DEF Exact
  <2>8. OnTrack(q, input)
    <3>1. Len(ALL_PATTERNS[k]) \in 1 .. 7
      BY PatternLengths
    <3>2. e <= Len(ALL_PATTERNS[k])
      BY <1>2, <3>1
    <3> QED
      BY <2>2, <3>2, Zenon DEF OnTrack
  <2>9. EnterElement(k, e, o) = q
    BY <1>2, <2>1, Zenon DEF EnterElement
  <2> QED
    BY <2>3, <2>7, <2>8, <2>9, Zenon DEF Sound
<1> QED
  BY <1>1, <1>2

LEMMA EnterPatternSound ==
  ASSUME NEW input \in Seq(AnyToken), NEW k \in 1 .. 5, NoneBefore(k, input), NEW ml
  PROVE  Sound(EnterPattern(k), input, ml)
<1>1. Len(input) \in Nat
  BY LenProperties
<1>2. CASE k \in 1 .. 4
  <2>1. /\ ~(k > Len(ALL_PATTERNS)) /\ 0 \in 0 .. Len(input)
        /\ 1 \in 1 .. Len(ALL_PATTERNS[k]) + 1
    BY <1>1, <1>2, PatternsAre, PatternLengths
  <2>2. IsSentence(k, input) <=> Continues(k, input, 1, 0)
    BY DerivesIs, Zenon DEF IsSentence
  <2>3. Clear(0, input)
    <3>1. \A j \in 1 .. 0 : FALSE
      OBVIOUS
    <3> QED
      BY <3>1, Zenon DEF Clear
  <2>4. Sound(EnterElement(k, 1, 0), input, ml)
    BY <1>2, <2>1, <2>2, <2>3, EnterSound, Zenon
  <2> QED
    BY <2>1, <2>4, Zenon DEF EnterPattern
<1>3. CASE k = 5
  <2>1. k > Len(ALL_PATTERNS)
    BY <1>3, PatternsAre
  <2>2. PICK q : q = Place("build", k, 1, 1, 0, 0)
    OBVIOUS
  <2>3. q.phase = "build" /\ q.pattern = k
    BY <2>2, PlaceIs
  <2>4. ~Matching(q)
    BY <2>3 DEF Matching
  <2>5. \A i \in 1 .. 4 : i < k /\ i # k
    BY <1>3
  <2>6. \A i \in 1 .. 4 : ~IsSentence(i, input)
    BY <2>5, Zenon DEF NoneBefore
  <2>7. {k} \cap (1 .. 4) = {i \in 1 .. 4 : IsSentence(i, input)}
    BY <2>5, <2>6, Zenon
  <2>8. EnterPattern(k) = q
    BY <2>1, <2>2, Zenon DEF EnterPattern
  <2> QED
    BY <2>3, <2>4, <2>7, <2>8, Zenon DEF Sound, Verdict
<1> QED
  BY <1>2, <1>3

LEMMA TakableIs ==
  ASSUME NEW p, NEW input
  PROVE  Takable(p, input) = LengthAt(p.pattern, input, p.element, p.offset)
BY Zenon DEF Takable, LengthAt, Parts

LEMMA FailSound ==
  ASSUME NEW input \in Seq(AnyToken), NEW p, StandsIn(p, input), OnTrack(p, input),
         Takable(p, input) = 0, NEW ml
  PROVE  Sound(Fail(p), input, ml)
<1> DEFINE k == p.pattern
           e == p.element
           o == p.offset
<1>1. /\ k \in 1 .. 4 /\ e \in 1 .. Len(ALL_PATTERNS[k]) /\ o \in 0 .. Len(input)
      /\ Len(ALL_PATTERNS[k]) \in 1 .. 7
  BY PatternLengths DEF StandsIn, OnTrack
<1>2. LengthAt(k, input, e, o) = 0
  BY TakableIs, Zenon
<1>3. /\ NoneBefore(k, input) /\ (IsSentence(k, input) <=> Continues(k, input, e, o))
      /\ Clear(o, input)
  BY Zenon DEF OnTrack
<1>4. CASE ALL_PATTERNS[k][e].necessary
  <2>1. ~IsSentence(k, input)
    BY <1>1, <1>2, <1>3, <1>4, ContinuesNeeded, Zenon
  <2>2. k + 1 \in 1 .. 5 /\ \A i \in 1 .. 4 : i < k + 1 => i < k \/ i = k
    BY <1>1
  <2>3. NoneBefore(k + 1, input)
    BY <1>3, <2>1, <2>2, Zenon DEF NoneBefore
  <2>4. Sound(EnterPattern(k + 1), input, ml)
    BY <2>2, <2>3, EnterPatternSound
  <2> QED
    BY <1>4, <2>4, Zenon DEF Fail
<1>5. CASE ~ALL_PATTERNS[k][e].necessary
  <2>1. IsSentence(k, input) <=> Continues(k, input, e + 1, o)
    BY <1>1, <1>2, <1>3, <1>5, ContinuesOptional, Zenon
  <2>2. e + 1 \in 1 .. Len(ALL_PATTERNS[k]) + 1
    BY <1>1
  <2>3. Sound(EnterElement(k, e + 1, o), input, ml)
    BY <1>1, <1>3, <2>1, <2>2, EnterSound, Zenon
  <2> QED
    BY <1>5, <2>3, Zenon DEF Fail
<1> QED
  BY <1>4, <1>5

LEMMA TakenSound ==
  ASSUME NEW input \in Seq(AnyToken), NEW p, StandsIn(p, input), OnTrack(p, input),
         Takable(p, input) # 0, NEW ml
  PROVE  Sound(Taken(p, Takable(p, input)), input, ml)
<1> DEFINE k == p.pattern
           e == p.element
           o == p.offset
           n == LengthAt(k, input, e, o)
<1>1. /\ k \in 1 .. 4 /\ e \in 1 .. Len(ALL_PATTERNS[k]) /\ o \in 0 .. Len(input)
      /\ Len(ALL_PATTERNS[k]) \in 1 .. 7
  BY PatternLengths DEF StandsIn, OnTrack
<1>2. Takable(p, input) = n /\ n # 0
  BY TakableIs, Zenon
<1>3. /\ NoneBefore(k, input) /\ (IsSentence(k, input) <=> Continues(k, input, e, o))
      /\ Clear(o, input)
  BY Zenon DEF OnTrack
<1>4. o + n \in o + 1 .. Len(input)
  BY <1>1, <1>2, EndsHere, Zenon
<1>5. o + n \in 0 .. Len(input) /\ e + 1 \in 1 .. Len(ALL_PATTERNS[k]) + 1
      /\ e \in 1 .. Len(ALL_PATTERNS[k]) + 1
  <2> HIDE DEF n
  <2> QED
    BY <1>1, <1>4
<1>6. CASE ALL_PATTERNS[k][e].necessary
  <2>1. IsSentence(k, input) <=> Continues(k, input, e + 1, o + n)
    BY <1>1, <1>2, <1>3, <1>6, ContinuesNeeded, Zenon
  <2>2. e # Len(ALL_PATTERNS[k]) => Clear(o + n, input)
    BY <1>1, <1>2, <1>3, StaysClear, Zenon
  <2> HIDE DEF n
  <2>3. e + 1 <= Len(ALL_PATTERNS[k]) => e # Len(ALL_PATTERNS[k])
    BY <1>1
  <2>4. Sound(EnterElement(k, e + 1, o + n), input, ml)
    BY <1>1, <1>3, <1>5, <2>1, <2>2, <2>3, EnterSound, Zenon
  <2> QED
    BY <1>2, <1>6, <2>4, Zenon DEF Taken
<1>7. CASE ~ALL_PATTERNS[k][e].necessary
  <2>1. IsSentence(k, input) <=> Continues(k, input, e, o + n)
    BY <1>1, <1>2, <1>3, <1>7, Greedy, Zenon
  <2>2. Clear(o + n, input)
    BY <1>1, <1>2, <1>3, <1>7, LastNeeded, StaysClear, Zenon
  <2> HIDE DEF n
  <2>3. Sound(EnterElement(k, e, o + n), input, ml)
    BY <1>1, <1>3, <1>5, <2>1, <2>2, EnterSound, Zenon
  <2> QED
    BY <1>2, <1>7, <2>3, Zenon DEF Taken
<1> QED
  BY <1>6, <1>7

LEMMA OnwardSound ==
  ASSUME NEW input \in Seq(AnyToken), NEW p, StandsIn(p, input), OnTrack(p, input),
         NEW ml, NEW q, OnwardTo(q, p, input, ml)
  PROVE  Sound(q, input, ml)
<1>1. CASE IsWithinElement(q, p) /\ Exact(q, input, ml)
  <2>1. q.phase # "build" /\ q.pattern = p.pattern /\ q.element = p.element /\ q.offset = p.offset
    BY <1>1 DEF IsWithinElement
  <2>2. OnTrack(q, input)
    BY <2>1, Zenon DEF OnTrack
  <2> QED
    BY <1>1, <2>1, <2>2, Zenon DEF Sound
<1>2. CASE Takable(p, input) # 0 /\ q = Taken(p, Takable(p, input))
  BY <1>2, TakenSound, Zenon
<1> QED
  BY <1>1, <1>2, Zenon DEF OnwardTo

-----------------------------------------------------------------------------
(* The invariant behind VerdictIsGrammar.                                  *)
Judged ==
  \A w \in Worker :
    /\ at[w].phase # "idle" => tokens[w] \in Received
    /\ ~disturbed[w] => Sound(at[w], tokens[w], match_length)

LEMMA SoundElsewhere ==
  ASSUME NEW p, p.phase \notin {"match", "length", "sum", "build"}
  PROVE  \A input, ml : Sound(p, input, ml)
<1>1. ~Matching(p) /\ p.phase # "build"
  BY DEF Matching
<1> QED
  BY <1>1, Zenon DEF Sound

LEMMA JudgedInit == ASSUME Init PROVE Judged
<1> SUFFICES ASSUME NEW w \in Worker
             PROVE  /\ at[w].phase = "idle"
                    /\ Sound(at[w], tokens[w], match_length)
  BY Zenon DEF Judged
<1>1. at[w] = Idle
  BY DEF Init
<1>2. Idle.phase = "idle"
  BY DEF Idle, Place
<1>3. at[w].phase \notin {"match", "length", "sum", "build"}
  BY <1>1, <1>2
<1> QED
  BY <1>1, <1>2, <1>3, SoundElsewhere, Zenon

(* A worker's step that leaves the lengths alone.                          *)
LEMMA OthersJudge ==
  ASSUME Judged, NEW w \in Worker,
         at'[w].phase # "idle" => tokens'[w] \in Received,
         ~disturbed'[w] => Sound(at'[w], tokens'[w], match_length),
         \A v \in Worker \ {w} : at'[v] = at[v] /\ tokens'[v] = tokens[v] /\ disturbed'[v] = disturbed[v],
         match_length' = match_length
  PROVE  Judged'
<1> SUFFICES ASSUME NEW v \in Worker
             PROVE  /\ at'[v].phase # "idle" => tokens'[v] \in Received
                    /\ ~disturbed'[v] => Sound(at'[v], tokens'[v], match_length')
  <2>1. Received' = Received
    BY DEF Received
  <2> QED
    BY <2>1, Zenon DEF Judged
<1>1. CASE v = w
  BY <1>1, Zenon
<1>2. CASE v # w
  <2>1. at'[v] = at[v] /\ tokens'[v] = tokens[v] /\ disturbed'[v] = disturbed[v]
    BY <1>2
  <2>2. /\ at[v].phase # "idle" => tokens[v] \in Received
        /\ ~disturbed[v] => Sound(at[v], tokens[v], match_length)
    BY Zenon DEF Judged
  <2> QED
    BY <2>1, <2>2, Zenon
<1> QED
  BY <1>1, <1>2

(* What a worker that matches knows.                                       *)
LEMMA Judging ==
  ASSUME Typed, Judged, NEW w \in Worker, at[w].phase \in {"match", "length", "sum"}
  PROVE  /\ at[w] \in PlaceSet /\ tokens[w] \in Seq(AnyToken) /\ at \in [Worker -> PlaceSet]
         /\ StandsIn(at[w], tokens[w]) /\ tokens[w] \in Received
         /\ ~disturbed[w] => OnTrack(at[w], tokens[w]) /\ GoesExactly(at[w], tokens[w], match_length)
<1>1. at[w] \in PlaceSet /\ tokens[w] \in Seq(AnyToken) /\ at \in [Worker -> PlaceSet]
  BY DEF Typed, ArePlaces, AreTokens
<1>2. Matching(at[w]) /\ at[w].phase # "idle"
  BY DEF Matching
<1>3. StandsIn(at[w], tokens[w]) /\ tokens[w] \in Received
  BY <1>2, Zenon DEF Typed, ArePlaces, Judged
<1>4. ASSUME ~disturbed[w]
      PROVE  OnTrack(at[w], tokens[w]) /\ GoesExactly(at[w], tokens[w], match_length)
  <2>1. Exact(at[w], tokens[w], match_length) /\ OnTrack(at[w], tokens[w])
    BY <1>2, <1>4, Zenon DEF Judged, Sound
  <2> QED
    BY <1>1, <1>2, <1>3, <2>1, AllExact, Zenon
<1> QED
  BY <1>1, <1>3, <1>4

LEMMA MatchingJudged ==
  ASSUME Typed, Judged, NEW w \in Worker, MatchCertain(w) \/ ReadLength(w) \/ ReadSum(w)
  PROVE  Judged'
<1> DEFINE p == at[w]
           input == tokens[w]
<1>1. p.phase \in {"match", "length", "sum"}
  BY DEF MatchCertain, ReadLength, ReadSum
<1>2. /\ p \in PlaceSet /\ input \in Seq(AnyToken) /\ at \in [Worker -> PlaceSet]
      /\ StandsIn(p, input) /\ input \in Received
      /\ ~disturbed[w] => OnTrack(p, input) /\ GoesExactly(p, input, match_length)
  BY <1>1, Judging
<1>3. UNCHANGED <<match_length, tokens, disturbed>>
  BY Zenon DEF MatchCertain, ReadLength, ReadSum, history
<1>4. \E q : at' = [at EXCEPT ![w] = q] /\ (~disturbed[w] => Sound(q, input, match_length))
  <2>1. CASE MatchCertain(w)
    <3>1. PICK q : /\ q = IF CertainCheck(Part(p).templates, input, p.offset + p.total)
                          THEN Advance(p, Len(Part(p).templates)) ELSE Fail(p)
                   /\ at' = [at EXCEPT ![w] = q]
      BY <2>1, Zenon DEF MatchCertain
    <3>2. p.phase = "match" /\ Part(p).range = Empty
      BY <2>1, Zenon DEF MatchCertain
    <3>3. ASSUME ~disturbed[w] PROVE Sound(q, input, match_length)
      <4>1. OnTrack(p, input) /\ CertainExact(p, input, match_length)
        BY <1>2, <3>3, Zenon DEF GoesExactly
      <4>2. CASE CertainCheck(Part(p).templates, input, p.offset + p.total)
        <5>1. OnwardTo(q, p, input, match_length)
          BY <3>1, <3>2, <4>1, <4>2, Zenon DEF CertainExact
        <5> QED
          BY <1>2, <4>1, <5>1, OnwardSound, Zenon
      <4>3. CASE ~CertainCheck(Part(p).templates, input, p.offset + p.total)
        <5>1. q = Fail(p) /\ Takable(p, input) = 0
          BY <3>1, <3>2, <4>1, <4>3, Zenon DEF CertainExact
        <5> QED
          BY <1>2, <4>1, <5>1, FailSound, Zenon
      <4> QED
        BY <4>2, <4>3
    <3> QED
      BY <3>1, <3>3
  <2>2. CASE ReadLength(w)
    <3>1. PICK q : q = Advance(p, match_length[Part(p).range]) /\ at' = [at EXCEPT ![w] = q]
      BY <2>2, Zenon DEF ReadLength
    <3>2. p.phase = "length"
      BY <2>2, Zenon DEF ReadLength
    <3>3. ASSUME ~disturbed[w] PROVE Sound(q, input, match_length)
      <4>1. OnTrack(p, input) /\ OnwardTo(q, p, input, match_length)
        BY <1>2, <3>1, <3>2, <3>3, Zenon DEF GoesExactly, LengthExact
      <4> QED
        BY <1>2, <4>1, OnwardSound, Zenon
    <3> QED
      BY <3>1, <3>3
  <2>3. CASE ReadSum(w)
    <3>1. PICK q : /\ q = GetMatchLength(p, p.part + 1, p.total + match_length[Part(p).range])
                   /\ at' = [at EXCEPT ![w] = q]
      BY <2>3, Zenon DEF ReadSum
    <3>2. p.phase = "sum"
      BY <2>3, Zenon DEF ReadSum
    <3>3. ASSUME ~disturbed[w] PROVE Sound(q, input, match_length)
      <4>1. OnTrack(p, input) /\ OnwardTo(q, p, input, match_length)
        BY <1>2, <3>1, <3>2, <3>3, Zenon DEF GoesExactly, SumExact
      <4> QED
        BY <1>2, <4>1, OnwardSound, Zenon
    <3> QED
      BY <3>1, <3>3
  <2> QED
    BY <2>1, <2>2, <2>3
<1>5. PICK q : at' = [at EXCEPT ![w] = q] /\ (~disturbed[w] => Sound(q, input, match_length))
  BY <1>4
<1>6. at'[w] = q /\ \A v \in Worker \ {w} : at'[v] = at[v]
  BY <1>2, <1>5
<1> QED
  BY <1>2, <1>3, <1>5, <1>6, OthersJudge, Zenon

(* A check of a range changes a length; who had yet to read the length     *)
(* that was there is disturbed.                                            *)
LEMMA RangeJudged ==
  ASSUME Typed, Judged, NEW w \in Worker, RangeCheck(w)
  PROVE  Judged'
<1> DEFINE p == at[w]
           input == tokens[w]
           range == Part(p).range
           length == RangeLength(Part(p), input, p.offset + p.total)
<1>1. PICK q : /\ q = IF length = 0 THEN Fail(p)
                      ELSE IF p.part = Len(Parts(p)) THEN Advance(p, 0)
                      ELSE [p EXCEPT !.phase = "length"]
               /\ at' = [at EXCEPT ![w] = q]
  BY Zenon DEF RangeCheck
<1>2. /\ p.phase = "match" /\ range # Empty /\ p.offset + p.total < Len(input)
      /\ match_length' = [match_length EXCEPT ![range] = length]
      /\ disturbed' = [v \in Worker |->
                         \/ disturbed[v]
                         \/ v # w /\ length # match_length[range] /\ range \in Unread(at[v])]
      /\ UNCHANGED tokens
  BY Zenon DEF RangeCheck
<1>3. p.phase \in {"match", "length", "sum"}
  BY <1>2
<1>4. /\ p \in PlaceSet /\ input \in Seq(AnyToken) /\ at \in [Worker -> PlaceSet]
      /\ StandsIn(p, input) /\ input \in Received
      /\ ~disturbed[w] => OnTrack(p, input) /\ GoesExactly(p, input, match_length)
  BY <1>3, Judging
<1>5. range \in RangeName
  BY <1>2, <1>4, RangeFound, Zenon
<1>6. Found1(match_length', match_length, range, length)
  <2> HIDE DEF range, length
  <2>1. match_length \in [RangeName -> 0 .. 2]
    BY DEF Typed, AreLengths
  <2> QED
    BY <1>2, <1>5, <2>1 DEF Found1
<1>7. at'[w] = q /\ \A v \in Worker \ {w} : at'[v] = at[v]
  BY <1>1, <1>4
<1>8. \A v \in Worker : disturbed[v] => disturbed'[v]
  <2> HIDE DEF range, length
  <2> QED
    BY <1>2, Zenon
<1>9. ASSUME ~disturbed[w] PROVE Sound(q, input, match_length')
  <2>1. OnTrack(p, input) /\ RangeExact(p, input, match_length)
    BY <1>4, <1>9, Zenon DEF GoesExactly
  <2>2. CASE length = 0
    <3>1. q = Fail(p) /\ Takable(p, input) = 0
      BY <1>1, <1>2, <2>1, <2>2, Zenon DEF RangeExact
    <3> QED
      BY <1>4, <2>1, <3>1, FailSound, Zenon
  <2>3. CASE length # 0
    <3>1. q = IF p.part = Len(Parts(p)) THEN Advance(p, 0) ELSE [p EXCEPT !.phase = "length"]
      BY <1>1, <2>3, Zenon
    <3>2. OnwardTo(q, p, input, match_length')
      BY <1>2, <1>6, <2>1, <2>3, <3>1, Zenon DEF RangeExact
    <3> QED
      BY <1>4, <2>1, <3>2, OnwardSound, Zenon
  <2> QED
    BY <2>2, <2>3
<1>10. ASSUME NEW v \in Worker \ {w}, ~disturbed'[v]
       PROVE  Sound(at[v], tokens[v], match_length')
  <2>1. Sound(at[v], tokens[v], match_length)
    BY <1>8, <1>10, Zenon DEF Judged
  <2>2. length = match_length[range] \/ range \notin Unread(at[v])
    <3> HIDE DEF range, length
    <3> QED
      BY <1>2, <1>10, Zenon
  <2>3. SameUnread(at[v], match_length, match_length')
    <3> HIDE DEF range, length
    <3> QED
      BY <1>6, <2>2, Zenon DEF SameUnread, Found1
  <2>4. ASSUME Matching(at[v]) PROVE Exact(at[v], tokens[v], match_length')
    <3>1. StandsIn(at[v], tokens[v])
      BY <2>4, Zenon DEF Typed, ArePlaces
    <3>2. Exact(at[v], tokens[v], match_length)
      BY <2>1, <2>4, Zenon DEF Sound
    <3> QED
      BY <2>3, <2>4, <3>1, <3>2, UnreadExact, Zenon
  <2> QED
    BY <2>1, <2>4, Zenon DEF Sound
<1> SUFFICES ASSUME NEW v \in Worker
             PROVE  /\ at'[v].phase # "idle" => tokens'[v] \in Received
                    /\ ~disturbed'[v] => Sound(at'[v], tokens'[v], match_length')
  <2>1. Received' = Received
    BY DEF Received
  <2> QED
    BY <2>1, Zenon DEF Judged
<1>11. CASE v = w
  BY <1>2, <1>4, <1>7, <1>8, <1>9, <1>11, Zenon
<1>12. CASE v # w
  <2>1. at'[v] = at[v] /\ v \in Worker \ {w}
    BY <1>7, <1>12, Zenon
  <2>2. at[v].phase # "idle" => tokens[v] \in Received
    BY Zenon DEF Judged
  <2> QED
    BY <1>2, <1>10, <2>1, <2>2, Zenon
<1> QED
  BY <1>11, <1>12

(* Steps to where a worker neither matches nor has a tree to build.        *)
LEMMA ElsewhereJudged ==
  ASSUME Typed, Judged, NEW w \in Worker, at[w].phase # "idle",
         at'[w].phase \in {"idle", "failed", "execute"}, \A v \in Worker \ {w} : at'[v] = at[v],
         UNCHANGED <<match_length, tokens, disturbed>>
  PROVE  Judged'
<1>1. at'[w].phase \notin {"match", "length", "sum", "build"}
  OBVIOUS
<1>2. Sound(at'[w], tokens'[w], match_length)
  BY <1>1, SoundElsewhere
<1>3. tokens'[w] \in Received
  BY Zenon DEF Judged
<1> QED
  BY <1>2, <1>3, OthersJudge, Zenon

LEMMA RespondJudged ==
  ASSUME Typed, Judged, NEW w \in Worker, NEW information, Respond(w, information)
  PROVE  Judged'
<1>1. /\ at' = [at EXCEPT ![w] = Idle] /\ UNCHANGED <<match_length, tokens, disturbed>>
      /\ at[w].phase = "execute"
  BY Zenon DEF Respond, history
<1>2. at'[w] = Idle /\ \A v \in Worker \ {w} : at'[v] = at[v]
  BY <1>1 DEF Typed, ArePlaces
<1>3. Idle.phase = "idle"
  BY DEF Idle, Place
<1>4. at'[w].phase \in {"idle", "failed", "execute"} /\ at[w].phase # "idle"
  BY <1>1, <1>2, <1>3
<1> QED
  BY <1>1, <1>2, <1>4, ElsewhereJudged, Zenon

LEMMA PhaseJudged ==
  ASSUME Typed, Judged, NEW w \in Worker, at[w].phase # "idle", NEW f \in {"failed", "execute"},
         at' = [at EXCEPT ![w].phase = f], UNCHANGED <<match_length, tokens, disturbed>>
  PROVE  Judged'
<1>1. at'[w].phase = f /\ \A v \in Worker \ {w} : at'[v] = at[v]
  BY PhaseKnows
<1>2. at'[w].phase \in {"idle", "failed", "execute"}
  BY <1>1
<1> QED
  BY <1>1, <1>2, ElsewhereJudged, Zenon

LEMMA ReceiveJudged ==
  ASSUME Typed, Judged, NEW w \in Worker, NEW tree, NEW words, Receive(w, tree, words),
         words \in Garbage \/ \E t \in Legal : words = Statement(t)
  PROVE  Judged'
<1>1. PICK behind \in Behind : tokens' = [tokens EXCEPT ![w] = ReadStatement(words, behind)]
  BY Zenon DEF Receive
<1>2. PICK input : input = ReadStatement(words, behind)
  OBVIOUS
<1>3. input \in Seq(AnyToken) /\ Len(input) \in Nat
  BY <1>2, ReadIs, LenProperties
<1>4. input \in Received
  <2>1. words \in {Statement(t) : t \in Legal} \cup Garbage
    BY Zenon
  <2> QED
    BY <1>2, <2>1 DEF Received
<1>5. PICK q : q = Place("match", 1, 1, 1, 0, 0) /\ at' = [at EXCEPT ![w] = q]
  BY Zenon DEF Receive
<1>6. disturbed' = [disturbed EXCEPT ![w] = FALSE] /\ UNCHANGED match_length
  BY Zenon DEF Receive
<1>7. /\ tokens'[w] = input /\ at'[w] = q
      /\ \A v \in Worker \ {w} : at'[v] = at[v] /\ tokens'[v] = tokens[v] /\ disturbed'[v] = disturbed[v]
  BY <1>1, <1>2, <1>5, <1>6 DEF Typed, AreTokens, ArePlaces, AreKept
<1>8. q = EnterPattern(1)
  <2>1. ~(1 > Len(ALL_PATTERNS)) /\ ~(1 > Len(ALL_PATTERNS[1]))
    BY PatternsAre, PatternSizes
  <2> QED
    BY <1>5, <2>1, Zenon DEF EnterPattern, EnterElement
<1>9. NoneBefore(1, input) /\ 1 \in 1 .. 5
  <2>1. \A i \in 1 .. 4 : ~(i < 1)
    OBVIOUS
  <2>2. 1 \in 1 .. 5
    OBVIOUS
  <2> QED
    BY <2>1, <2>2, Zenon DEF NoneBefore
<1>10. Sound(q, input, match_length)
  BY <1>3, <1>8, <1>9, EnterPatternSound, Zenon
<1> QED
  BY <1>4, <1>6, <1>7, <1>10, OthersJudge, Zenon

LEMMA JudgedStep == ASSUME Typed, Judged, [Next]_vars PROVE Judged'
<1>1. CASE UNCHANGED vars
  <2>1. UNCHANGED <<tokens, at, disturbed, match_length>>
    BY <1>1, Zenon DEF vars, parse, history
  <2>2. Received' = Received
    BY DEF Received
  <2> QED
    BY <2>1, <2>2, Zenon DEF Judged
<1>2. ASSUME NEW w \in Worker, NEW tree \in Legal, Receive(w, tree, Statement(tree)) PROVE Judged'
  BY <1>2, ReceiveJudged
<1>3. ASSUME NEW w \in Worker, NEW words \in Garbage, Receive(w, NoTree, words) PROVE Judged'
  BY <1>3, ReceiveJudged
<1>4. ASSUME NEW w \in Worker, WorkerStep(w) PROVE Judged'
  <2>1. CASE MatchCertain(w) \/ ReadLength(w) \/ ReadSum(w)
    BY <2>1, MatchingJudged
  <2>2. CASE RangeCheck(w)
    BY <2>2, RangeJudged
  <2>3. CASE ReadBeyondEnd(w)
    <3>1. at[w].phase # "idle"
      BY <2>3 DEF ReadBeyondEnd
    <3> QED
      BY <2>3, <3>1, PhaseJudged DEF ReadBeyondEnd, history
  <2>4. CASE BuildAST(w)
    <3>1. at[w].phase # "idle" /\ UNCHANGED <<match_length, tokens, disturbed>>
      BY <2>4 DEF BuildAST, history
    <3>2. at' = [at EXCEPT ![w].phase = "failed"] \/ at' = [at EXCEPT ![w].phase = "execute"]
      BY <2>4, Zenon DEF BuildAST
    <3> QED
      BY <3>1, <3>2, PhaseJudged
  <2>5. CASE Dispatch(w)
    BY <2>5, RespondJudged DEF Dispatch
  <2>6. CASE InsertRow(w)
    BY <2>6, RespondJudged DEF InsertRow
  <2>7. CASE InsertNothing(w)
    BY <2>7, RespondJudged DEF InsertNothing
  <2>8. CASE ThrowInJointParamRow(w) \/ MissColumn(w) \/ ThrowInCompare(w)
    <3>1. at[w].phase # "idle"
      BY <2>8 DEF ThrowInJointParamRow, MissColumn, ThrowInCompare
    <3>2. /\ at' = [at EXCEPT ![w].phase = "failed"]
          /\ UNCHANGED <<match_length, tokens, disturbed>>
      BY <2>8, Zenon DEF ThrowInJointParamRow, MissColumn, ThrowInCompare, history
    <3> QED
      BY <3>1, <3>2, PhaseJudged
  <2> QED
    BY <1>4, <2>1, <2>2, <2>3, <2>4, <2>5, <2>6, <2>7, <2>8, Zenon DEF WorkerStep
<1> QED
  BY <1>1, <1>2, <1>3, <1>4, Zenon DEF Next

LEMMA JudgedVerdict == ASSUME Typed, Judged PROVE VerdictIsGrammar
<1> SUFFICES ASSUME NEW w \in Worker, at[w].phase = "build", ~disturbed[w]
             PROVE  {at[w].pattern} \cap DOMAIN ALL_PATTERNS = Patterns[tokens[w]]
  BY Zenon DEF VerdictIsGrammar
<1>1. at[w].phase # "idle"
  OBVIOUS
<1>2. tokens[w] \in Received /\ Verdict(at[w], tokens[w])
  BY <1>1, Zenon DEF Judged, Sound
<1>3. Patterns[tokens[w]] = {i \in DOMAIN ALL_PATTERNS : IsSentence(i, tokens[w])}
  BY <1>2, Zenon DEF Patterns, IsSentence
<1>4. DOMAIN ALL_PATTERNS = 1 .. 4
  BY PatternsAre
<1> QED
  BY <1>2, <1>3, <1>4, Zenon DEF Verdict

(* A worker that nobody disturbed finds the pattern that the statement is  *)
(* a sentence of, and none if it is one of none: for any workers,          *)
(* statements of any length and any order of the workers' steps.           *)
THEOREM VerdictsCorrect == Spec => []VerdictIsGrammar
<1>1. Init => Judged
  BY JudgedInit
<1>2. Typed /\ Judged /\ [Next]_vars => Judged'
  BY JudgedStep
<1>3. Typed /\ Judged => VerdictIsGrammar
  BY JudgedVerdict
<1> QED
  BY <1>1, <1>2, <1>3, TypedAlways, PTL DEF Spec

-----------------------------------------------------------------------------
(* How far a worker that nobody disturbed has looked when it comes to a    *)
(* range: at no token, or at two behind those that the elements before     *)
(* took, and at no semicolon.                                              *)
LEMMA SeenSoFar ==
  ASSUME NEW input, NEW p, NEW ml, p.phase = "match", StandsIn(p, input), Part(p).range # Empty,
         Exact(p, input, ml)
  PROVE  \/ p.total = 0
         \/ p.total = 2 /\ At(input, p.offset + 1) # Mark(";") /\ At(input, p.offset + 2) # Mark(";")
<1>1. p.phase # "sum" /\ p.phase # "length" /\ 2 # 1 /\ 3 # 1 /\ 3 \in {3, 4}
  OBVIOUS
<1>2. p.part = 1 => Part(p) = Parts(p)[1]
  BY Zenon DEF Part
<1>3. /\ p.part = 2 => Part(p) = Parts(p)[2]
      /\ p.part = 3 => Part(p) = Parts(p)[3]
      /\ p.part = 4 => Part(p) = Parts(p)[4]
  BY Zenon DEF Part
<1>4. CASE TokensKind(Parts(p)) \/ ChoiceKind(Parts(p))
  <2>1. StandsOne(p, input)
    BY <1>4, KindStands, Zenon
  <2> QED
    BY <2>1, Zenon DEF StandsOne
<1>5. CASE ColumnKind(Parts(p))
  <2>1. StandsColumn(p, input) /\ ExactColumn(p, input, ml)
    BY <1>5, KindStands, ExactByKind, Zenon
  <2>2. (p.part = 1 /\ p.total = 0) \/ (p.part = 2 /\ p.total = 2)
    BY <1>1, <2>1, Zenon DEF StandsColumn
  <2> QED
    BY <2>1, <2>2, NoSemicolon, Zenon DEF ExactColumn
<1>6. CASE WhereKind(Parts(p))
  <2>1. StandsWhere(p, input) /\ ExactWhere(p, input, ml)
    BY <1>6, KindStands, ExactByKind, Zenon
  <2>2. (p.part = 1 /\ p.total = 0) \/ (p.part = 2 /\ p.total = 2) \/ p.part = 3
    BY <1>1, <2>1, Zenon DEF StandsWhere
  <2>3. p.part # 3
    BY <1>3, <1>6, Zenon DEF WhereKind, IsCertain
  <2>4. p.part = 2 => WhereBegins(input, p.offset)
    BY <1>1, <2>1, Zenon DEF ExactWhere
  <2> QED
    BY <2>2, <2>3, <2>4, NoSemicolon, Zenon DEF WhereBegins
<1>7. CASE NextKind(Parts(p))
  <2>1. StandsNext(p, input) /\ ExactNext(p, input, ml)
    BY <1>7, KindStands, ExactByKind, Zenon
  <2>2. (p.part = 1 /\ p.total = 0) \/ p.part = 2 \/ (p.part = 3 /\ p.total = 2) \/ p.part = 4
    BY <1>1, <2>1, Zenon DEF StandsNext
  <2>3. p.part # 2 /\ p.part # 4
    BY <1>3, <1>7, Zenon DEF NextKind, IsCertain
  <2>4. p.part = 3 => ConnectiveKnown(p, input, ml) /\ NameKnown(p, input)
    BY <2>1, ExactNextIs, Zenon
  <2> QED
    BY <2>2, <2>3, <2>4, NoSemicolon, Zenon DEF ConnectiveKnown, NameKnown
<1> QED
  BY <1>4, <1>5, <1>6, <1>7, KindHere, Zenon DEF StandsIn

(* When such a worker comes to a range behind the last token, it has seen  *)
(* them all, and no semicolon.                                             *)
LEMMA BeyondEnd ==
  ASSUME NEW input \in Seq(AnyToken), NEW p \in PlaceSet, NEW ml, p.phase = "match",
         StandsIn(p, input), Part(p).range # Empty, Exact(p, input, ml), Clear(p.offset, input),
         p.offset + p.total >= Len(input)
  PROVE  Mark(";") \notin Range(input)
<1>1. PICK o \in Nat : o = p.offset
  BY DEF PlaceSet
<1>2. PICK n \in Nat : n = p.total
  BY DEF PlaceSet
<1>3. Clear(o, input)
  BY <1>1, Zenon
<1>4. n = 0 \/ (n = 2 /\ ClearTo(input, o, 2))
  <2>1. \/ p.total = 0
        \/ p.total = 2 /\ At(input, p.offset + 1) # Mark(";") /\ At(input, p.offset + 2) # Mark(";")
    BY SeenSoFar, Zenon
  <2>2. p.total = 2 => ClearTo(input, p.offset, 2) \/ p.total = 0
    BY <2>1, ClearTwo, Zenon
  <2>3. ClearTo(input, p.offset, 2) => ClearTo(input, o, 2)
    BY <1>1
  <2>4. n = 0 <=> p.total = 0
    BY <1>2
  <2>5. n = 2 <=> p.total = 2
    BY <1>2
  <2> QED
    BY <2>1, <2>2, <2>3, <2>4, <2>5, Zenon
<1>5. n = 0 => Clear(o + n, input)
  <2>1. o + 0 = o
    OBVIOUS
  <2> QED
    BY <1>3, <2>1, Zenon
<1>6. Clear(o + n, input)
  BY <1>3, <1>4, <1>5, ClearOn, Zenon
<1>7. o + n \in Nat /\ Len(input) <= o + n
  <2>1. Len(input) \in Nat /\ o + n >= Len(input)
    BY <1>1, <1>2, LenProperties
  <2> QED
    BY <2>1
<1> QED
  BY <1>6, <1>7, NoneAtAll, Zenon

-----------------------------------------------------------------------------
(* A cell is out of range where the columns that a statement names are     *)
(* more than its values.                                                   *)
LEMMA ValuesInRange ==
  ASSUME NEW text \in ValueText, NEW type \in ValueTypes
  PROVE  InitValue(text, type) # OutOfRange
<1>1. type = "INT" \/ type = "FLOAT" \/ type = "VCHAR"
  BY DEF ValueTypes
<1>2. OutOfRange \notin ValueText /\ NoValue # OutOfRange
  <2>1. NoValue # OutOfRange
    BY Zenon DEF NoValue, OutOfRange
  <2> QED
    BY <2>1, Zenon DEF ValueText
<1>3. /\ text \in DOMAIN StoI => StoI[text] \in ValueText
      /\ text \in DOMAIN StoF => StoF[text] \in ValueText
  BY ParserAssumption, Zenon
<1>5. "INT" # "FLOAT" /\ "INT" # "VCHAR" /\ "FLOAT" # "VCHAR"
  OBVIOUS
<1>6. InitValue(text, type) \in ValueText \cup {NoValue}
  BY <1>1, <1>3, <1>5, Zenon DEF InitValue
<1> QED
  BY <1>2, <1>6, Zenon

LEMMA DefaultInRange == \A type : BuildDefaultValue(type) # OutOfRange
BY Zenon DEF BuildDefaultValue, OutOfRange

LEMMA MoreColumns ==
  ASSUME NEW tree, tree.columns \in Seq(Name), tree.values \in Seq(ValueText),
         FirstBad(tree) = OutOfRange
  PROVE  ~(Len(tree.columns) <= Len(tree.values))
<1>1. /\ Table.columns \in Seq([col_name : STRING, value_type : ValueTypes])
      /\ DOMAIN Table.columns \in SUBSET Nat
  <2>1. Table.columns \in Seq([col_name : STRING, value_type : ValueTypes])
    BY ParserAssumption
  <2> HIDE DEF ValueTypes
  <2> QED
    BY <2>1, LenProperties
<1>2. BadCells(tree) # {}
  BY NoValues, Zenon DEF FirstBad
<1>3. PICK i \in DOMAIN Table.columns : JointParamRow(tree)[i] = OutOfRange
  <2>1. BadCells(tree) \in SUBSET Nat
    BY <1>1 DEF BadCells
  <2>2. Leftmost(BadCells(tree)) \in BadCells(tree)
    BY <1>2, <2>1, LeftmostIs
  <2>3. Leftmost(BadCells(tree)) \in DOMAIN Table.columns
    BY <2>2 DEF BadCells
  <2>4. JointParamRow(tree)[Leftmost(BadCells(tree))] = OutOfRange
    BY <1>2, Zenon DEF FirstBad
  <2> QED
    BY <2>3, <2>4
<1>4. PICK column : column = Table.columns[i]
  OBVIOUS
<1>5. column.value_type \in ValueTypes
  <2>1. PICK S : S = [col_name : STRING, value_type : ValueTypes]
    OBVIOUS
  <2>2. Table.columns \in Seq(S)
    BY <1>1, <2>1, Zenon
  <2>3. Table.columns[i] \in S
    BY <2>2
  <2> HIDE DEF ValueTypes
  <2> QED
    BY <1>4, <2>1, <2>3
<1>6. JoinedCell(column, tree) = OutOfRange
  <2>1. JointParamRow(tree)[i] = JoinedCell(Table.columns[i], tree)
    BY DEF JointParamRow
  <2> QED
    BY <1>3, <1>4, <2>1
<1> DEFINE places == Positions(column.col_name, tree.columns)
           position == FindValue(column.col_name, tree.columns)
<1>7. JoinedCell(column, tree) =
        CASE position = 0 -> BuildDefaultValue(column.value_type)
          [] position > Len(tree.values) -> OutOfRange
          [] OTHER -> InitValue(tree.values[position], column.value_type)
  BY Zenon DEF JoinedCell
<1>8. places \in SUBSET (1 .. Len(tree.columns)) /\ Len(tree.columns) \in Nat /\ Len(tree.values) \in Nat
  <2>1. DOMAIN tree.columns = 1 .. Len(tree.columns) /\ Len(tree.columns) \in Nat /\ Len(tree.values) \in Nat
    BY LenProperties
  <2> QED
    BY <2>1 DEF Positions
<1>9. \/ position = 0
      \/ position \in 1 .. Len(tree.columns)
  <2>1. CASE places = {}
    BY <2>1, Zenon DEF FindValue
  <2>2. CASE places # {}
    <3>1. position = Leftmost(places)
      BY <2>2, Zenon DEF FindValue
    <3>2. places \in SUBSET Nat
      BY <1>8
    <3> QED
      BY <1>8, <2>2, <3>1, <3>2, LeftmostIs
  <2> QED
    BY <2>1, <2>2
<1> HIDE DEF position, places
<1>10. position # 0
  <2>2. BuildDefaultValue(column.value_type) # OutOfRange
    BY DefaultInRange
  <2>3. position = 0 => ~(position > Len(tree.values))
    BY <1>8
  <2> QED
    BY <1>6, <1>7, <2>2, <2>3, Zenon
<1>11. position > Len(tree.values)
  <2> SUFFICES ASSUME ~(position > Len(tree.values)) PROVE FALSE
    OBVIOUS
  <2>1. position \in 1 .. Len(tree.values)
    BY <1>8, <1>9, <1>10
  <2>2. tree.values[position] \in ValueText
    BY <2>1
  <2>3. InitValue(tree.values[position], column.value_type) # OutOfRange
    BY <1>5, <2>2, ValuesInRange
  <2> QED
    BY <1>6, <1>7, <1>10, <2>3, Zenon
<1> QED
  BY <1>8, <1>9, <1>10, <1>11

-----------------------------------------------------------------------------
(* What a worker makes of a statement that a user meant.                   *)
LEMMA MeantBuilt ==
  ASSUME Typed, Known, NEW w \in Worker, at[w].phase \in {"build", "execute"}, said[w] # NoTree,
         at[w].pattern \in 1 .. 4
  PROVE  IsBuilt(said[w], BuildNode(tokens[w], NodeType(at[w])), tokens[w])
<1>1. said[w] \in Legal /\ \E behind \in Behind : tokens[w] = ReadStatement(Statement(said[w]), behind)
  BY Zenon DEF Known, Meant
<1>2. PICK behind \in Behind : tokens[w] = Tokenize(Statement(said[w]) \o behind)
  BY <1>1, Zenon DEF ReadStatement
<1>3. behind \in Seq(AnyWord) /\ said[w] \in Trees
  BY <1>1, ReadIs, ParserAssumption
<1>4. tokens[w] \in Seq(AnyToken)
  BY DEF Typed, AreTokens
<1>5. CertainCheck(FirstTokens(at[w].pattern), tokens[w], 0)
  <2>1. ~Matching(at[w]) /\ at[w].phase \in {"match", "length", "sum", "build", "execute"}
    BY DEF Matching
  <2>2. BeganAt(at[w], tokens[w])
    BY Zenon DEF Known
  <2> QED
    BY <2>1, <2>2, Zenon DEF BeganAt
<1>6. PICK tree, input, p : tree = said[w] /\ input = tokens[w] /\ p = at[w]
  OBVIOUS
<1>7. tree \in Trees /\ input = Tokenize(Statement(tree) \o behind) /\ input \in Seq(AnyToken)
      /\ p.pattern \in 1 .. 4 /\ CertainCheck(FirstTokens(p.pattern), input, 0)
  BY <1>2, <1>3, <1>4, <1>5, <1>6
<1>8. IsBuilt(tree, BuildNode(input, NodeType(p)), input)
  BY <1>3, <1>7, BuiltIs
<1> QED
  BY <1>6, <1>8

LEMMA NoneMatched ==
  ASSUME NEW input, NEW p, p.pattern \in 1 .. 5, p.pattern \notin 1 .. 4
  PROVE  BuildNode(input, NodeType(p)) = NoTree /\ NoTree # Thrown
<1>1. p.pattern = 5
  OBVIOUS
<1>2. NodeType(p) = "UNSUPPORT_NODE"
  BY <1>1, NodeTypes, Zenon
<1>3. "UNSUPPORT_NODE" # "THROWN"
  OBVIOUS
<1> QED
  BY <1>2, <1>3, NodesBuilt, NodesAre, Zenon

LEMMA JudgedAlways == Spec => [](Typed /\ Judged)
<1>1. Init => Judged
  BY JudgedInit
<1>2. Typed /\ Judged /\ [Next]_vars => Judged'
  BY JudgedStep
<1> QED
  BY <1>1, <1>2, TypedAlways, PTL DEF Spec

(* What is executed: what TreeIsStatement says of a worker that executes.  *)
Faithful(w) ==
  Readable(said[w]) => ast[w] = said[w] \/ (ast[w] = NoTree /\ (disturbed[w] \/ tokens[w] = <<>>))

LEMMA UnmatchedExcused ==
  ASSUME Typed, Known, Judged, NEW w \in Worker, at[w].phase = "build", said[w] # NoTree,
         at[w].pattern \notin 1 .. 4
  PROVE  disturbed[w] \/ tokens[w] = <<>>
<1> SUFFICES ASSUME ~disturbed[w], tokens[w] # <<>> PROVE FALSE
  OBVIOUS
<1>1. Verdict(at[w], tokens[w])
  BY Zenon DEF Judged, Sound
<1>2. \A i \in 1 .. 4 : ~Derives(ALL_PATTERNS[i], tokens[w])
  <2>1. {at[w].pattern} \cap (1 .. 4) = {}
    OBVIOUS
  <2> QED
    BY <1>1, <2>1, Zenon DEF Verdict, IsSentence
<1>3. said[w] \in Legal /\ \E behind \in Behind : tokens[w] = ReadStatement(Statement(said[w]), behind)
  BY Zenon DEF Known, Meant
<1>4. PICK behind \in Behind : tokens[w] = Tokenize(Statement(said[w]) \o behind)
  BY <1>3, Zenon DEF ReadStatement
<1>5. behind \in Seq(AnyWord) /\ said[w] \in Trees
  BY <1>3, ReadIs, ParserAssumption
<1>6. PICK tree, input : tree = said[w] /\ input = tokens[w]
  OBVIOUS
<1>7. tree \in Trees /\ input = Tokenize(Statement(tree) \o behind) /\ input # <<>>
  BY <1>4, <1>5, <1>6
<1>8. \E k \in 1 .. 4 : Derives(ALL_PATTERNS[k], input)
  BY <1>5, <1>7, LegalDerives
<1> QED
  BY <1>2, <1>6, <1>8, Zenon

LEMMA BuiltFaithful ==
  ASSUME Typed, Known, Judged, NEW w \in Worker, BuildAST(w), at'[w].phase = "execute"
  PROVE  Faithful(w)'
<1>1. /\ server = "up" /\ at[w].phase = "build"
      /\ UNCHANGED <<tokens, said, disturbed>>
  BY Zenon DEF BuildAST, history
<1>2. at \in [Worker -> PlaceSet] /\ at[w].pattern \in 1 .. 5
  BY DEF Typed, ArePlaces, PlaceSet
<1>3. PICK b : b = BuildNode(tokens[w], NodeType(at[w]))
  OBVIOUS
<1>4. b # Thrown /\ ast' = [ast EXCEPT ![w] = b]
  <2>1. "failed" # "execute"
    OBVIOUS
  <2>2. \/ at' = [at EXCEPT ![w].phase = "failed"]
        \/ b # Thrown /\ ast' = [ast EXCEPT ![w] = b]
    BY <1>3, Zenon DEF BuildAST
  <2>3. at' = [at EXCEPT ![w].phase = "failed"] => at'[w].phase = "failed"
    BY <1>2, PhaseKnows
  <2> QED
    BY <2>1, <2>2, <2>3
<1>5. ast'[w] = b
  BY <1>4 DEF Typed, AreKept
<1>6. (Readable(said[w]))' <=> Readable(said[w])
  BY <1>1, Zenon DEF Readable
<1>7. ASSUME Readable(said[w])
      PROVE  b = said[w] \/ (b = NoTree /\ (disturbed[w] \/ tokens[w] = <<>>))
  <2>1. said[w] # NoTree
    BY <1>7, Zenon DEF Readable
  <2>2. CASE at[w].pattern \in 1 .. 4
    <3>1. at[w].phase \in {"build", "execute"}
      BY <1>1
    <3>2. IsBuilt(said[w], b, tokens[w])
      BY <1>3, <2>1, <2>2, <3>1, MeantBuilt, Zenon
    <3> QED
      BY <1>4, <1>7, <3>2, Zenon DEF IsBuilt
  <2>3. CASE at[w].pattern \notin 1 .. 4
    <3>1. b = NoTree
      BY <1>2, <1>3, <2>3, NoneMatched, Zenon
    <3>2. disturbed[w] \/ tokens[w] = <<>>
      BY <1>1, <2>1, <2>3, UnmatchedExcused
    <3> QED
      BY <3>1, <3>2
  <2> QED
    BY <2>2, <2>3
<1> QED
  BY <1>1, <1>5, <1>6, <1>7, Zenon DEF Faithful

(* Who executes goes on with the same tree, or begins to.                  *)
LEMMA OthersFaithful ==
  ASSUME TreeIsStatement, NEW w \in Worker,
         \A v \in Worker \ {w} : /\ at'[v] = at[v] /\ tokens'[v] = tokens[v] /\ ast'[v] = ast[v]
                                 /\ said'[v] = said[v] /\ (disturbed[v] => disturbed'[v]),
         at'[w].phase = "execute" => Faithful(w)'
  PROVE  TreeIsStatement'
<1> SUFFICES ASSUME NEW v \in Worker, at'[v].phase = "execute" PROVE Faithful(v)'
  BY Zenon DEF TreeIsStatement, Faithful
<1>1. CASE v = w
  BY <1>1, Zenon
<1>2. CASE v # w
  <2>1. /\ at'[v] = at[v] /\ tokens'[v] = tokens[v] /\ ast'[v] = ast[v]
        /\ said'[v] = said[v] /\ (disturbed[v] => disturbed'[v])
    BY <1>2
  <2>2. Faithful(v)
    BY <2>1, Zenon DEF TreeIsStatement, Faithful
  <2>3. (Readable(said[v]))' <=> Readable(said[v])
    BY <2>1, Zenon DEF Readable
  <2> QED
    BY <2>1, <2>2, <2>3, Zenon DEF Faithful
<1> QED
  BY <1>1, <1>2

LEMMA DisturbedGrows ==
  ASSUME Typed, NEW w \in Worker, RangeCheck(w)
  PROVE  \A v \in Worker : disturbed[v] => disturbed'[v]
BY DEF RangeCheck

LEMMA MatchingFaithful ==
  ASSUME Typed, Known, TreeIsStatement, NEW w \in Worker,
         MatchCertain(w) \/ RangeCheck(w) \/ ReadLength(w) \/ ReadSum(w)
  PROVE  TreeIsStatement'
<1>1. UNCHANGED <<tokens, ast, said>>
  BY MatchingGoes
<1>2. PICK q : at' = [at EXCEPT ![w] = q] /\ Begins(q, tokens[w])
  BY MatchingGoes
<1>3. at \in [Worker -> PlaceSet]
  BY DEF Typed, ArePlaces
<1>4. at'[w] = q /\ \A v \in Worker \ {w} : at'[v] = at[v]
  BY <1>2, <1>3
<1>5. q.phase # "execute"
  BY <1>2 DEF Begins
<1>6. \A v \in Worker : disturbed[v] => disturbed'[v]
  <2>1. RangeCheck(w) \/ disturbed' = disturbed
    BY Zenon DEF MatchCertain, ReadLength, ReadSum, history
  <2> QED
    BY <2>1, DisturbedGrows, Zenon
<1> QED
  BY <1>1, <1>4, <1>5, <1>6, OthersFaithful, Zenon

LEMMA PhaseFaithful ==
  ASSUME Typed, TreeIsStatement, NEW w \in Worker, NEW f, f # "execute",
         at' = [at EXCEPT ![w].phase = f], UNCHANGED <<tokens, ast, said, disturbed>>
  PROVE  TreeIsStatement'
<1>1. at'[w].phase = f /\ \A v \in Worker \ {w} : at'[v] = at[v]
  BY PhaseKnows
<1> QED
  BY <1>1, OthersFaithful, Zenon

LEMMA RespondFaithful ==
  ASSUME Typed, TreeIsStatement, NEW w \in Worker, NEW information, Respond(w, information)
  PROVE  TreeIsStatement'
<1>1. at' = [at EXCEPT ![w] = Idle] /\ UNCHANGED <<tokens, ast, said, disturbed>>
  BY Zenon DEF Respond, history
<1>2. at \in [Worker -> PlaceSet]
  BY DEF Typed, ArePlaces
<1>3. at'[w] = Idle /\ \A v \in Worker \ {w} : at'[v] = at[v]
  BY <1>1, <1>2
<1>4. Idle.phase # "execute"
  BY DEF Idle, Place
<1> QED
  BY <1>1, <1>3, <1>4, OthersFaithful, Zenon

LEMMA ReceiveFaithful ==
  ASSUME Typed, TreeIsStatement, NEW w \in Worker, NEW tree, NEW words, Receive(w, tree, words)
  PROVE  TreeIsStatement'
<1>1. /\ at' = [at EXCEPT ![w] = Place("match", 1, 1, 1, 0, 0)]
      /\ said' = [said EXCEPT ![w] = tree] /\ ast' = [ast EXCEPT ![w] = NoTree]
      /\ disturbed' = [disturbed EXCEPT ![w] = FALSE]
      /\ \E behind \in Behind : tokens' = [tokens EXCEPT ![w] = ReadStatement(words, behind)]
  BY Zenon DEF Receive
<1>2. PICK q : q = Place("match", 1, 1, 1, 0, 0)
  OBVIOUS
<1>3. q.phase # "execute"
  BY <1>2, PlaceIs
<1>4. /\ at \in [Worker -> PlaceSet] /\ DOMAIN tokens = Worker
      /\ DOMAIN ast = Worker /\ DOMAIN said = Worker /\ DOMAIN disturbed = Worker
  BY DEF Typed, ArePlaces, AreTokens, AreKept
<1>5. at'[w] = q /\ \A v \in Worker \ {w} : at'[v] = at[v]
  BY <1>1, <1>2, <1>4
<1>6. \A v \in Worker \ {w} : tokens'[v] = tokens[v] /\ ast'[v] = ast[v] /\ said'[v] = said[v]
                              /\ disturbed'[v] = disturbed[v]
  BY <1>1, <1>4
<1> QED
  BY <1>3, <1>5, <1>6, OthersFaithful, Zenon

LEMMA FaithfulStep ==
  ASSUME Typed, Known, Judged, TreeIsStatement, [Next]_vars
  PROVE  TreeIsStatement'
<1>1. CASE UNCHANGED vars
  <2>1. UNCHANGED <<tokens, at, ast, disturbed, said>>
    BY <1>1, Zenon DEF vars, parse, history
  <2>2. \A w \in Worker : (Readable(said[w]))' <=> Readable(said[w])
    BY <2>1, Zenon DEF Readable
  <2> QED
    BY <2>1, <2>2, Zenon DEF TreeIsStatement
<1>2. ASSUME NEW w \in Worker, NEW tree, NEW words, Receive(w, tree, words) PROVE TreeIsStatement'
  BY <1>2, ReceiveFaithful
<1>3. ASSUME NEW w \in Worker, WorkerStep(w) PROVE TreeIsStatement'
  <2>0. "failed" # "execute"
    OBVIOUS
  <2>1. CASE MatchCertain(w) \/ RangeCheck(w) \/ ReadLength(w) \/ ReadSum(w)
    BY <2>1, MatchingFaithful
  <2>2. CASE ReadBeyondEnd(w)
    BY <2>0, <2>2, PhaseFaithful DEF ReadBeyondEnd, history
  <2>3. CASE BuildAST(w)
    <3>1. at'[w].phase = "execute" => Faithful(w)'
      BY <2>3, BuiltFaithful
    <3>2. /\ UNCHANGED <<tokens, said, disturbed>>
          /\ \E f : at' = [at EXCEPT ![w].phase = f]
          /\ (UNCHANGED ast \/ \E tree : ast' = [ast EXCEPT ![w] = tree])
      BY <2>3, Zenon DEF BuildAST, history
    <3>3. \A v \in Worker \ {w} : at'[v] = at[v]
      BY <3>2, PhaseKnows
    <3>4. \A v \in Worker \ {w} : ast'[v] = ast[v]
      BY <3>2 DEF Typed, AreKept
    <3> QED
      BY <3>1, <3>2, <3>3, <3>4, OthersFaithful, Zenon
  <2>4. CASE Dispatch(w)
    BY <2>4, RespondFaithful DEF Dispatch
  <2>5. CASE InsertRow(w)
    BY <2>5, RespondFaithful DEF InsertRow
  <2>6. CASE InsertNothing(w)
    BY <2>6, RespondFaithful DEF InsertNothing
  <2>7. CASE ThrowInJointParamRow(w)
    BY <2>0, <2>7, PhaseFaithful DEF ThrowInJointParamRow, history
  <2>8. CASE MissColumn(w)
    BY <2>0, <2>8, PhaseFaithful DEF MissColumn, history
  <2>9. CASE ThrowInCompare(w)
    BY <2>0, <2>9, PhaseFaithful DEF ThrowInCompare, history
  <2> QED
    BY <1>3, <2>1, <2>2, <2>3, <2>4, <2>5, <2>6, <2>7, <2>8, <2>9, Zenon DEF WorkerStep
<1> QED
  BY <1>1, <1>2, <1>3, Zenon DEF Next

LEMMA FaithfulInit == ASSUME Init PROVE TreeIsStatement
<1>1. \A w \in Worker : at[w].phase # "execute"
  BY DEF Init, Idle, Place
<1> QED
  BY <1>1, Zenon DEF TreeIsStatement

(* What a user wrote is what is executed: the tree that a worker executes  *)
(* for a legal statement without a != is the tree the user meant, whatever *)
(* lies behind the statement in memory, or no tree at all, and that only   *)
(* if another worker changed a length that this one had yet to read, or a  *)
(* quote behind the statement is left open. For all legal statements, of   *)
(* any length, all workers and all orders of their steps.                  *)
THEOREM TreesAreStatements == Spec => []TreeIsStatement
<1>1. Init => TreeIsStatement
  BY FaithfulInit
<1>2. Typed /\ Known /\ Judged /\ TreeIsStatement /\ [Next]_vars => TreeIsStatement'
  BY FaithfulStep
<1> QED
  BY <1>1, <1>2, KnownAlways, JudgedAlways, PTL DEF Spec

-----------------------------------------------------------------------------
(* Who ends the server: what CarefulIsSafe says of a worker that failed.   *)
Harmless(w) ==
  /\ server = "ended" =>
       \/ said[w] = NoTree \/ ~Careful(said[w])
       \/ said[w].node = "SELECT_FROM_ONE_TABLE_NODE" /\ ~Alone(w)
  /\ server = "undefined" =>
       \/ disturbed[w] \/ Mark(";") \notin Range(tokens[w])
       \/ /\ ast[w].node = "SELECT_FROM_ONE_TABLE_NODE"
          /\ said[w] = NoTree \/ ~Careful(said[w])

(* Whether a statement is careful depends on the statement and the table.  *)
LEMMA SameCareful ==
  ASSUME NEW w \in Worker, UNCHANGED said
  PROVE  (Careful(said[w]))' <=> Careful(said[w])
BY Zenon DEF Careful

LEMMA OneFails ==
  ASSUME Typed, server = "up", NEW w \in Worker, at' = [at EXCEPT ![w].phase = "failed"], Harmless(w)'
  PROVE  CarefulIsSafe'
<1>1. \A v \in Worker \ {w} : at'[v] = at[v]
  BY PhaseKnows
<1>2. \A v \in Worker : at[v].phase # "failed"
  BY Zenon DEF Typed, AreUp
<1> SUFFICES ASSUME NEW v \in Worker, at'[v].phase = "failed" PROVE Harmless(v)'
  BY Zenon DEF CarefulIsSafe, Harmless
<1>3. v = w
  BY <1>1, <1>2, Zenon
<1> QED
  BY <1>3, Zenon

LEMMA ReadBeyondHarmless ==
  ASSUME Typed, Judged, NEW w \in Worker, ReadBeyondEnd(w)
  PROVE  CarefulIsSafe'
<1>1. /\ server = "up" /\ at[w].phase = "match" /\ Part(at[w]).range # Empty
      /\ at[w].offset + at[w].total >= Len(tokens[w])
      /\ server' = "undefined" /\ at' = [at EXCEPT ![w].phase = "failed"]
      /\ UNCHANGED <<tokens, said, disturbed>>
  BY Zenon DEF ReadBeyondEnd, history
<1>2. at[w].phase \in {"match", "length", "sum"} /\ Matching(at[w])
  BY <1>1 DEF Matching
<1>3. at[w] \in PlaceSet /\ tokens[w] \in Seq(AnyToken) /\ StandsIn(at[w], tokens[w])
  BY <1>2, Judging
<1>4. ASSUME ~disturbed[w] PROVE Mark(";") \notin Range(tokens[w])
  <2>1. Exact(at[w], tokens[w], match_length) /\ Clear(at[w].offset, tokens[w])
    BY <1>2, <1>4, Zenon DEF Judged, Sound, OnTrack
  <2>2. PICK p, input : p = at[w] /\ input = tokens[w]
    OBVIOUS
  <2>3. Mark(";") \notin Range(input)
    BY <1>1, <1>3, <2>1, <2>2, BeyondEnd, Zenon
  <2> QED
    BY <2>2, <2>3, Zenon
<1>5. "undefined" # "ended"
  OBVIOUS
<1>6. Harmless(w)'
  BY <1>1, <1>4, <1>5, Zenon DEF Harmless
<1> QED
  BY <1>1, <1>6, OneFails, Zenon

LEMMA ThrowHarmless ==
  ASSUME Typed, Known, NEW w \in Worker, BuildAST(w), server' # "up"
  PROVE  CarefulIsSafe'
<1>1. /\ server = "up" /\ at[w].phase = "build"
      /\ BuildNode(tokens[w], NodeType(at[w])) = Thrown
      /\ server' = "ended" /\ at' = [at EXCEPT ![w].phase = "failed"]
      /\ UNCHANGED <<tokens, said, disturbed>>
  BY Zenon DEF BuildAST, history
<1>2. at[w].pattern \in 1 .. 5
  BY DEF Typed, ArePlaces, PlaceSet
<1>3. at[w].pattern \in 1 .. 4
  BY <1>1, <1>2, NoneMatched
<1>4. at[w].phase \in {"build", "execute"}
  BY <1>1
<1>5. said[w] # NoTree => IsBuilt(said[w], Thrown, tokens[w])
  BY <1>1, <1>3, <1>4, MeantBuilt, Zenon
<1>6. \/ said[w] = NoTree \/ ~Careful(said[w])
      \/ said[w].node = "SELECT_FROM_ONE_TABLE_NODE" /\ ~Alone(w)
  BY <1>5, Zenon DEF IsBuilt, Alone
<1>7. "undefined" # "ended"
  OBVIOUS
<1>8. (Careful(said[w]))' <=> Careful(said[w])
  BY <1>1, SameCareful, Zenon
<1>9. Alone(w)' <=> Alone(w)
  BY <1>1, Zenon DEF Alone, Statement
<1>10. Harmless(w)'
  BY <1>1, <1>6, <1>7, <1>8, <1>9, Zenon DEF Harmless
<1> QED
  BY <1>1, <1>10, OneFails, Zenon

LEMMA RowThrowHarmless ==
  ASSUME Typed, Known, NEW w \in Worker, ThrowInJointParamRow(w)
  PROVE  CarefulIsSafe'
<1>1. /\ server = "up" /\ at[w].phase = "execute" /\ Inserting(w) /\ FirstBad(ast[w]) = OutOfRange
      /\ server' = "ended" /\ at' = [at EXCEPT ![w].phase = "failed"]
      /\ UNCHANGED <<tokens, said, disturbed>>
  BY Zenon DEF ThrowInJointParamRow, history
<1>2. ast[w].node = "INSERT_INTO_TABLE_NODE"
  BY <1>1, Zenon DEF Inserting
<1>3. ASSUME said[w] # NoTree PROVE ~Careful(said[w])
  <2>1. ast[w] = said[w] /\ IsInsert(said[w])
    BY <1>1, <1>2, <1>3, ExecutedInsert
  <2>2. PICK tree : tree = said[w]
    OBVIOUS
  <2>3. tree.columns \in Seq(Name) /\ tree.values \in Seq(ValueText)
        /\ tree.node = "INSERT_INTO_TABLE_NODE"
    BY <2>1, <2>2, Zenon DEF IsInsert
  <2>4. ~(Len(tree.columns) <= Len(tree.values))
    BY <1>1, <2>1, <2>2, <2>3, MoreColumns
  <2>5. "INSERT_INTO_TABLE_NODE" # "CREATE_DATABASE_NODE" /\ "INSERT_INTO_TABLE_NODE" # "CREATE_TABLE_NODE"
        /\ "INSERT_INTO_TABLE_NODE" # "SELECT_FROM_ONE_TABLE_NODE"
    OBVIOUS
  <2>6. ~Careful(tree)
    BY <2>3, <2>4, <2>5, Zenon DEF Careful
  <2> QED
    BY <2>2, <2>6
<1>4. "undefined" # "ended"
  OBVIOUS
<1>5. (Careful(said[w]))' <=> Careful(said[w])
  BY <1>1, SameCareful, Zenon
<1>6. Harmless(w)'
  BY <1>1, <1>3, <1>4, <1>5, Zenon DEF Harmless
<1> QED
  BY <1>1, <1>6, OneFails, Zenon

LEMMA SelectHarmless ==
  ASSUME Known, TreeIsStatement, NEW w \in Worker, at[w].phase = "execute", Selecting(w),
         \/ ~CheckColsExists(ast[w])
         \/ \E k \in UsedConditions(ast[w]) : ~Converts(k)
  PROVE  said[w] = NoTree \/ ~Careful(said[w])
<1> SUFFICES ASSUME said[w] # NoTree, Careful(said[w]) PROVE FALSE
  OBVIOUS
<1>1. PICK tree : tree = said[w]
  OBVIOUS
<1>2. ast[w].node = "SELECT_FROM_ONE_TABLE_NODE" /\ ast[w].table_name = TableName
  BY Zenon DEF Selecting
<1>3. /\ "SELECT_FROM_ONE_TABLE_NODE" # "CREATE_DATABASE_NODE"
      /\ "SELECT_FROM_ONE_TABLE_NODE" # "CREATE_TABLE_NODE"
      /\ "SELECT_FROM_ONE_TABLE_NODE" # "INSERT_INTO_TABLE_NODE"
  OBVIOUS
<1>4. ASSUME tree.node = "SELECT_FROM_ONE_TABLE_NODE"
      PROVE  /\ \A k \in Range(tree.compare_vector) : k.condition # "!="
             /\ tree.table_name = TableName =>
                  CheckColsExists(tree) /\ \A k \in Range(tree.compare_vector) : Converts(k)
  BY <1>1, <1>3, <1>4, Zenon DEF Careful
<1>5. Readable(tree)
  BY <1>1, <1>4, Zenon DEF Readable
<1>6. ast[w] = tree
  <2>1. ast[w] = tree \/ ast[w] = NoTree
    BY <1>1, <1>5, Zenon DEF TreeIsStatement
  <2>2. NoTree.node # "SELECT_FROM_ONE_TABLE_NODE"
    BY DEF NoTree
  <2> QED
    BY <1>2, <2>1, <2>2
<1>7. CheckColsExists(tree) /\ \A k \in Range(tree.compare_vector) : Converts(k)
  BY <1>2, <1>4, <1>6
<1>8. \A k \in UsedConditions(tree) : k \in Range(tree.compare_vector)
  BY Zenon DEF UsedConditions, Range
<1> QED
  BY <1>6, <1>7, <1>8, Zenon

LEMMA MissHarmless ==
  ASSUME Typed, Known, TreeIsStatement, NEW w \in Worker, MissColumn(w) \/ ThrowInCompare(w)
  PROVE  CarefulIsSafe'
<1>1. /\ server = "up" /\ at[w].phase = "execute" /\ Selecting(w)
      /\ ~CheckColsExists(ast[w]) \/ \E k \in UsedConditions(ast[w]) : ~Converts(k)
      /\ at' = [at EXCEPT ![w].phase = "failed"]
      /\ UNCHANGED <<tokens, ast, said, disturbed>>
  BY Zenon DEF MissColumn, ThrowInCompare, history
<1>2. said[w] = NoTree \/ ~Careful(said[w])
  BY <1>1, SelectHarmless
<1>3. ast[w].node = "SELECT_FROM_ONE_TABLE_NODE"
  BY <1>1, Zenon DEF Selecting
<1>4. (Careful(said[w]))' <=> Careful(said[w])
  BY <1>1, SameCareful, Zenon
<1>5. Harmless(w)'
  BY <1>1, <1>2, <1>3, <1>4, Zenon DEF Harmless
<1> QED
  BY <1>1, <1>5, OneFails, Zenon

LEMMA NoneFails == ASSUME Typed, server = "up" PROVE CarefulIsSafe
BY Zenon DEF Typed, AreUp, CarefulIsSafe

LEMMA SafeStep ==
  ASSUME Typed, Known, Judged, TreeIsStatement, CarefulIsSafe, [Next]_vars
  PROVE  CarefulIsSafe'
<1>1. CASE UNCHANGED vars
  <2>1. UNCHANGED <<tokens, at, ast, disturbed, server, said>>
    BY <1>1, Zenon DEF vars, parse, history
  <2>2. \A w \in Worker : (Careful(said[w]))' <=> Careful(said[w])
    BY <2>1, SameCareful, Zenon
  <2>3. \A w \in Worker : Alone(w)' <=> Alone(w)
    BY <2>1, Zenon DEF Alone, Statement
  <2> QED
    BY <2>1, <2>2, <2>3, Zenon DEF CarefulIsSafe
<1>2. CASE server' = "up"
  <2>1. Typed'
    BY TypedStep
  <2> QED
    BY <1>2, <2>1, Zenon DEF Typed, AreUp, CarefulIsSafe
<1>3. ASSUME NEW w \in Worker, NEW tree, NEW words, Receive(w, tree, words) PROVE server' = "up"
  BY <1>3, Zenon DEF Receive
<1>4. ASSUME NEW w \in Worker, WorkerStep(w), server' # "up" PROVE CarefulIsSafe'
  <2>1. CASE MatchCertain(w) \/ RangeCheck(w) \/ ReadLength(w) \/ ReadSum(w)
    BY <1>4, <2>1, Zenon DEF MatchCertain, RangeCheck, ReadLength, ReadSum
  <2>2. CASE ReadBeyondEnd(w)
    BY <2>2, ReadBeyondHarmless
  <2>3. CASE BuildAST(w)
    BY <1>4, <2>3, ThrowHarmless
  <2>4. CASE Dispatch(w) \/ InsertRow(w) \/ InsertNothing(w)
    BY <1>4, <2>4, Zenon DEF Dispatch, InsertRow, InsertNothing, Respond
  <2>5. CASE ThrowInJointParamRow(w)
    BY <2>5, RowThrowHarmless
  <2>6. CASE MissColumn(w) \/ ThrowInCompare(w)
    BY <2>6, MissHarmless
  <2> QED
    BY <1>4, <2>1, <2>2, <2>3, <2>4, <2>5, <2>6, Zenon DEF WorkerStep
<1> QED
  BY <1>1, <1>2, <1>3, <1>4, Zenon DEF Next

(* From its text to its tree, the row of an INSERT, and the columns and    *)
(* comparisons of a SELECT, no careful statement ends the server by        *)
(* itself: an exception comes from a statement that is no legal one or not *)
(* careful, or from a SELECT with something behind it; undefined behaviour *)
(* from a read beyond the tokens, by a text without a semicolon or another *)
(* worker's change of a length that this one had yet to read, or from the  *)
(* execution of a SELECT that is no legal statement or not careful. For    *)
(* any statements, workers and steps.                                      *)
THEOREM CarefulStatementsAreSafe == Spec => []CarefulIsSafe
<1>1. Init => CarefulIsSafe
  BY TypedInit, NoneFails DEF Init
<1>2. Typed /\ Known /\ Judged /\ TreeIsStatement /\ CarefulIsSafe /\ [Next]_vars => CarefulIsSafe'
  BY SafeStep
<1> QED
  BY <1>1, <1>2, KnownAlways, JudgedAlways, TreesAreStatements, PTL DEF Spec
=============================================================================
